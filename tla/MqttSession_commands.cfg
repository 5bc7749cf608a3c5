\* The property is violated: a command read together with another packet.
SPECIFICATION Spec
CONSTANT MaxMessages = 1
INVARIANTS
  CommandsObeyed
CHECK_DEADLOCK FALSE
