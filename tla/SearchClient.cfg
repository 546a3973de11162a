\* Three calls, every version.
CONSTANTS
  Id = {1, 1000, 1001}
  Extra <- SomeExtra
  MaxCalls = 3
SPECIFICATION Spec
INVARIANTS AtBoundary AnswerIsOwn
PROPERTY EveryCallEnds
\* No more calls may be made.
CHECK_DEADLOCK FALSE
