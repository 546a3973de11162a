\* Three programs, one of which may stop; one connection may wait.
CONSTANTS
  p1 = p1
  p2 = p2
  p3 = p3
  Program = {p1, p2, p3}
  Id <- Asked
  Backlog = 1
  Stopping = {p1}
SPECIFICATION Spec
INVARIANTS TypeOK OutcomeHasCause
PROPERTY ProgramsEnd
\* All programs may have ended.
CHECK_DEADLOCK FALSE
