----------------------------- MODULE KernelQueue -----------------------------
(***************************************************************************)
(* A FreeRTOS queue between interrupts or tasks that post and tasks that   *)
(* read with a timeout: the semaphore of the Ethernet interrupt, the       *)
(* mailboxes of lwIP. xQueueReceive and xQueueSemaphoreTake block in many  *)
(* steps, with the scheduler suspended but interrupts enabled, so that a   *)
(* message may be posted between any two of them: cTxLock counts those     *)
(* that came while the event list was out of bounds.                       *)
(*                                                                         *)
(* A step is what one critical section does, or one access outside of any. *)
(* Nobody waits to send here (sys_mbox_trypost and the interrupt give up), *)
(* so cRxLock and xTasksWaitingToSend are left out. Readers are named by   *)
(* their priorities.                                                       *)
(***************************************************************************)
EXTENDS Integers, FiniteSets, FiniteSetsExt

CONSTANTS
  Capacity,      \* uxLength
  Readers,       \* priorities of the tasks that read
  Mortal,        \* the one that another task may terminate, if any
  Timeouts,      \* the values of xTicksToWait
  MaxDelay,      \* portMAX_DELAY
  MaxPended      \* bound on xPendedTicks

ASSUME QueueAssumption ==
  /\ Capacity \in Nat \ {0} /\ MaxDelay \in Nat \ {0} /\ MaxPended \in Nat \ {0}
  /\ IsFiniteSet(Readers) /\ Readers \subseteq Nat \ {0} /\ Mortal \subseteq Readers
  /\ Timeouts \subseteq 0 .. MaxDelay

VARIABLES
  messages,      \* uxMessagesWaiting
  cTxLock,       \* Unlocked, or how many messages came since the lock
  waiting,       \* xTasksWaitingToReceive
  pending,       \* xPendingReadyList
  blocked,       \* readers in a delayed list or in xSuspendedTaskList
  sleep,         \* ticks until a reader in a delayed list wakes
  suspended,     \* the reader that called vTaskSuspendAll, or 0
  pendedTicks,   \* xPendedTicks
  call,          \* the read each reader is in
  deleted,       \* readers that were terminated
  early          \* a read gave up before its time

vars == <<messages, cTxLock, waiting, pending, blocked, sleep, suspended, pendedTicks, call,
          deleted, early>>
lists == <<waiting, pending, blocked, sleep>>
kernel == <<suspended, pendedTicks>>

Unlocked == -1
Nobody == 0

Idle == [pc |-> "idle", left |-> 0, since |-> 0, asked |-> 0, age |-> 0]

Places == {"idle", "check", "suspend", "lock", "timeout", "empty", "place", "delay",
           "unlock", "resume", "last"}

InCall(r) == call[r].pc # "idle"

(* A suspended scheduler lets its task run, also once it left the ready list *)
Running(r) ==
  \/ suspended = r
  \/ /\ suspended = Nobody /\ r \notin blocked \cup deleted
     /\ \A h \in Readers : h > r /\ InCall(h) => h \in blocked

At(r, p) == Running(r) /\ call[r].pc = p

Goto(r, p) == call' = [call EXCEPT ![r].pc = p]

Return(r) == call' = [call EXCEPT ![r] = Idle]

-----------------------------------------------------------------------------
(* A read: xQueueReceive, and xQueueSemaphoreTake for what is no mutex.     *)

Call(r, n) ==
  /\ At(r, "idle")
  /\ call' = [call EXCEPT ![r] =
       [pc |-> "check", left |-> n, since |-> 0, asked |-> n, age |-> 0]]
  /\ UNCHANGED <<messages, cTxLock, lists, kernel, deleted, early>>

GiveUp(r) ==
  /\ Return(r)
  /\ early' = (early \/ call[r].age < call[r].asked)

(* The first critical section; vTaskInternalSetTimeOutState                 *)
Check(r) ==
  /\ At(r, "check")
  /\ \/ /\ messages > 0
        /\ messages' = messages - 1
        /\ Return(r) /\ UNCHANGED early
     \/ /\ messages = 0 /\ call[r].left = 0
        /\ GiveUp(r) /\ UNCHANGED messages
     \/ /\ messages = 0 /\ call[r].left > 0
        /\ Goto(r, "suspend") /\ UNCHANGED <<messages, early>>
  /\ UNCHANGED <<cTxLock, lists, kernel, deleted>>

SuspendAll(r) ==
  /\ At(r, "suspend")
  /\ suspended' = r
  /\ Goto(r, "lock")
  /\ UNCHANGED <<messages, cTxLock, lists, pendedTicks, deleted, early>>

(* The queue is left unlocked *)
LockForgotten(r) ==
  /\ At(r, "lock")
  /\ Goto(r, "timeout")
  /\ UNCHANGED <<messages, cTxLock, lists, kernel, deleted, early>>

Lock(r) ==
  /\ At(r, "lock")
  /\ cTxLock' = IF cTxLock = Unlocked THEN 0 ELSE cTxLock
  /\ Goto(r, "timeout")
  /\ UNCHANGED <<messages, lists, kernel, deleted, early>>

(* The time is taken from what is left, but still measured from the start   *)
CheckForTimeOutKeepsEntry(r) ==
  /\ At(r, "timeout")
  /\ LET c == call[r] IN
       call' = [call EXCEPT ![r] =
         IF c.left = MaxDelay THEN [c EXCEPT !.pc = "empty"]
         ELSE IF c.since < c.left
              THEN [c EXCEPT !.pc = "empty", !.left = c.left - c.since]
              ELSE [c EXCEPT !.pc = "unlock", !.left = 0]]
  /\ UNCHANGED <<messages, cTxLock, lists, kernel, deleted, early>>

(* xTaskCheckForTimeOut: the time that is left, measured from now on        *)
CheckForTimeOut(r) ==
  /\ At(r, "timeout")
  /\ LET c == call[r] IN
       call' = [call EXCEPT ![r] =
         IF c.left = MaxDelay THEN [c EXCEPT !.pc = "empty"]
         ELSE IF c.since < c.left
              THEN [c EXCEPT !.pc = "empty", !.left = c.left - c.since, !.since = 0]
              ELSE [c EXCEPT !.pc = "unlock", !.left = 0]]
  /\ UNCHANGED <<messages, cTxLock, lists, kernel, deleted, early>>

IsEmpty(r) ==
  /\ At(r, "empty")
  /\ Goto(r, IF messages = 0 THEN "place" ELSE "unlock")
  /\ UNCHANGED <<messages, cTxLock, lists, kernel, deleted, early>>

(* vTaskPlaceOnEventList, outside of any critical section                   *)
Place(r) ==
  /\ At(r, "place")
  /\ waiting' = waiting \cup {r}
  /\ Goto(r, "delay")
  /\ UNCHANGED <<messages, cTxLock, pending, blocked, sleep, kernel, deleted, early>>

Delay(r) ==
  /\ At(r, "delay")
  /\ blocked' = blocked \cup {r}
  /\ sleep' = [sleep EXCEPT ![r] = call[r].left]
  /\ Goto(r, "unlock")
  /\ UNCHANGED <<messages, cTxLock, waiting, pending, kernel, deleted, early>>

(* The n readers of the highest priorities on the event list, or all of it  *)
Foremost(n) == {r \in waiting : Cardinality({h \in waiting : h > r}) < n}

(* The queue stays locked *)
UnlockKeepsCount(r) ==
  /\ At(r, "unlock")
  /\ waiting' = waiting \ Foremost(cTxLock)
  /\ pending' = pending \cup Foremost(cTxLock)
  /\ Goto(r, "resume")
  /\ UNCHANGED <<messages, cTxLock, blocked, sleep, kernel, deleted, early>>

(* prvUnlockQueue: one reader for each message that came during the lock    *)
Unlock(r) ==
  /\ At(r, "unlock")
  /\ waiting' = waiting \ Foremost(cTxLock)
  /\ pending' = pending \cup Foremost(cTxLock)
  /\ cTxLock' = Unlocked
  /\ Goto(r, "resume")
  /\ UNCHANGED <<messages, blocked, sleep, kernel, deleted, early>>

(* Timed readers of S whose time has come after n more ticks                *)
Expired(S, n) == {r \in S : call[r].left < MaxDelay /\ sleep[r] <= n}

(* Neither count matters beyond the longest timeout *)
AtMost(t) == IF t < MaxDelay THEN t ELSE MaxDelay

Later(c, n) ==
  IF c.pc = "idle" \/ c.left = MaxDelay THEN c
  ELSE [c EXCEPT !.since = AtMost(c.since + n), !.age = AtMost(c.age + n)]

(* The reader stays on the event list *)
TicksLeaveEventList(S, n, c) ==
  /\ blocked' = S \ Expired(S, n)
  /\ waiting' = waiting
  /\ sleep' = [r \in Readers |-> IF sleep[r] > n THEN sleep[r] - n ELSE 0]
  /\ call' = [r \in Readers |-> Later(c[r], n)]

(* xTaskIncrementTick, n times: a reader leaves both of its lists           *)
Ticks(S, n, c) ==
  /\ blocked' = S \ Expired(S, n)
  /\ waiting' = waiting \ Expired(S, n)
  /\ sleep' = [r \in Readers |-> IF sleep[r] > n THEN sleep[r] - n ELSE 0]
  /\ call' = [r \in Readers |-> Later(c[r], n)]

(* xTaskResumeAll. A read that ran out of time looks at the queue again.    *)
Resume(r) ==
  /\ At(r, "resume")
  /\ suspended' = Nobody /\ pending' = {} /\ pendedTicks' = 0
  /\ Ticks(blocked \ pending, pendedTicks,
           [call EXCEPT ![r].pc = IF call[r].left = 0 THEN "last" ELSE "check"])
  /\ UNCHANGED <<messages, cTxLock, deleted, early>>

Last(r) ==
  /\ At(r, "last")
  /\ \/ messages = 0 /\ GiveUp(r)
     \/ messages > 0 /\ Goto(r, "check") /\ UNCHANGED early
  /\ UNCHANGED <<messages, cTxLock, lists, kernel, deleted>>

-----------------------------------------------------------------------------
(* xQueueGiveFromISR, and xQueueGenericSend of a task, which runs only when *)
(* the scheduler does: xTaskRemoveFromEventList for the first that waits.   *)

Give ==
  /\ messages < Capacity
  /\ messages' = messages + 1
  /\ \/ /\ cTxLock = Unlocked
        /\ waiting' = waiting \ Foremost(1)
        /\ IF suspended = Nobody
           THEN blocked' = blocked \ Foremost(1) /\ UNCHANGED pending
           ELSE pending' = pending \cup Foremost(1) /\ UNCHANGED blocked
        /\ UNCHANGED cTxLock
     \/ /\ cTxLock # Unlocked
        /\ cTxLock' = cTxLock + 1
        /\ UNCHANGED <<waiting, pending, blocked>>
  /\ UNCHANGED <<sleep, kernel, call, deleted, early>>

Tick ==
  \/ /\ suspended = Nobody
     /\ Ticks(blocked, 1, call)
     /\ UNCHANGED <<messages, cTxLock, pending, kernel, deleted, early>>
  \/ /\ suspended # Nobody /\ pendedTicks < MaxPended
     /\ pendedTicks' = pendedTicks + 1
     /\ UNCHANGED <<messages, cTxLock, lists, suspended, call, deleted, early>>

(* vTaskDelete of a reader by another task, at a time when no other task    *)
(* reads this queue: Button_Thread terminates Main_Thread, then reads       *)
Delete(r) ==
  /\ r \in Mortal \ deleted /\ suspended = Nobody
  /\ \A o \in Readers \ {r} : ~InCall(o)
  /\ deleted' = deleted \cup {r}
  /\ waiting' = waiting \ {r} /\ blocked' = blocked \ {r}
  /\ Return(r)
  /\ UNCHANGED <<messages, cTxLock, pending, sleep, kernel, early>>

-----------------------------------------------------------------------------
Init ==
  /\ messages \in 0 .. 1      \* the semaphore is created with one to take
  /\ cTxLock = Unlocked
  /\ waiting = {} /\ pending = {} /\ blocked = {} /\ deleted = {}
  /\ sleep = [r \in Readers |-> 0]
  /\ suspended = Nobody /\ pendedTicks = 0
  /\ call = [r \in Readers |-> Idle]
  /\ early = FALSE

Step(r) ==
  \/ Check(r) \/ SuspendAll(r) \/ Lock(r) \/ CheckForTimeOut(r) \/ IsEmpty(r) \/ Place(r)
  \/ Delay(r) \/ Unlock(r) \/ Resume(r) \/ Last(r)

Next ==
  \/ Give \/ Tick
  \/ \E r \in Readers : Step(r) \/ Delete(r) \/ \E n \in Timeouts : Call(r, n)

Spec == Init /\ [][Next]_vars

(* The core is idle most of the time, so a reader that is ready gets it;    *)
(* the tick never stops. Whether and when messages come is left open.       *)
FairSpec == Spec /\ WF_vars(Tick) /\ \A r \in Readers : SF_vars(Step(r))

-----------------------------------------------------------------------------
(* Types and ranges; while the scheduler runs the queue is not locked, and  *)
(* every message that was counted during a lock is still there.             *)
TypeOK ==
  /\ messages \in 0 .. Capacity
  /\ cTxLock \in Unlocked .. messages
  /\ waiting \subseteq Readers /\ pending \subseteq Readers /\ blocked \subseteq Readers
  /\ deleted \subseteq Readers
  /\ sleep \in [Readers -> 0 .. MaxDelay]
  /\ suspended \in Readers \cup {Nobody} /\ pendedTicks \in 0 .. MaxPended
  /\ call \in [Readers -> [pc : Places, left : 0 .. MaxDelay, since : 0 .. MaxDelay,
                           asked : 0 .. MaxDelay, age : 0 .. MaxDelay]]
  /\ early \in BOOLEAN

(* Readers that will look at the queue again before they can wait or leave  *)
WillLook ==
  {r \in Readers : /\ call[r].pc \in {"check", "suspend", "lock", "timeout", "empty", "last"}
                   /\ r \notin blocked}
  \cup pending
  \cup {r \in Readers : call[r].pc \in {"unlock", "resume"} /\ r \notin blocked \cup waiting}

(* Nobody sleeps on a queue that has a message for it: for every message    *)
(* there is a reader that is still going to look, or the message was        *)
(* counted in cTxLock and prvUnlockQueue will wake one (prvLockQueue,       *)
(* prvUnlockQueue and xQueueGiveFromISR).                                   *)
NoLostWakeup ==
  waiting # {} =>
    messages <= Cardinality(WillLook) + (IF cTxLock = Unlocked THEN 0 ELSE cTxLock)

(* A reader is on the event list only while it is blocked, so a later       *)
(* message cannot be spent on a reader that has long given up (the two      *)
(* removals in xTaskIncrementTick, xTaskRemoveFromEventList, vTaskDelete).  *)
WaitersBlocked ==
  suspended = Nobody => waiting \subseteq blocked /\ pending = {} /\ cTxLock = Unlocked

(* A read with a timeout never gives up before its time, however often it   *)
(* was woken for a message that another reader took (xTaskCheckForTimeOut). *)
NeverEarly == ~early

(* A message that is there reaches the foremost of the tasks that read, for *)
(* ever blocking or not, whatever steps of its call the posts fall between. *)
ForemostServed ==
  LET top == Max(Readers) IN (messages > 0 /\ InCall(top)) ~> ~InCall(top)

(* A read that asked for a time gets back, with a message or without.       *)
TimedReadEnds ==
  \A r \in Readers : (InCall(r) /\ call[r].left < MaxDelay) ~> ~InCall(r)
==============================================================================
