\* Three exchanges: an answer to the first may arrive in the third.
CONSTANTS
  MaxExchanges = 3
  MaxPending = 2
SPECIFICATION Spec
PROPERTIES RequestsIntact AnswersMatch ExchangesEnd
\* The start-up is over.
CHECK_DEADLOCK FALSE
