\* All eight programs; a session is lost at most twice.
CONSTANTS
  Demo = {1, 2, 3, 4, 5, 6, 7, 8}
  MaxLosses = 2
SPECIFICATION Spec
INVARIANTS DependsFirst NothingLeftUndone
PROPERTY Settles
\* A session with no news leaves the program waiting.
CHECK_DEADLOCK FALSE
