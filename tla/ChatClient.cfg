\* One client, three lines of two kinds.
CONSTANTS
  Message = {m1, m2}
  MaxLines = 3
SPECIFICATION Spec
INVARIANTS NothingLost WriteChain ReadChain
PROPERTY Exits
\* The program may have ended.
CHECK_DEADLOCK FALSE
