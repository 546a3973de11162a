\* Three threads, five calls; each asks for an id of its own.
CONSTANTS
  t1 = t1
  t2 = t2
  t3 = t3
  Thread = {t1, t2, t3}
  Id = {1, 1000, 1001}
  Wants <- OneEach
  MaxCalls = 5
SPECIFICATION Spec
INVARIANTS TypeOK OneAnswerEach NobodyForgotten
PROPERTIES CallsAreAnswered EveryCallEnds
\* The threads may make no more calls.
CHECK_DEADLOCK FALSE
