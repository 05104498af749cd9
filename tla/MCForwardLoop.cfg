SPECIFICATION Spec
CONSTANT MaxRequests = 3
INVARIANTS
  InStep
  OneAnswerOneExchange
CHECK_DEADLOCK FALSE
