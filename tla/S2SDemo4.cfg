\* demo4, whose session is not lost.
CONSTANTS
  Demo = {4}
  MaxLosses = 0
SPECIFICATION Spec
INVARIANT KnowsBeforeRegistering
\* A session with no news leaves the program waiting.
CHECK_DEADLOCK FALSE
