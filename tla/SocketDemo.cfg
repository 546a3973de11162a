\* Two servers, two clients.
CONSTANTS
  Server = {s1, s2}
  Client = {c1, c2}
  Ephemeral = {32768, 32769, 60999}
SPECIFICATION Spec
INVARIANT FoundAtItsPort
\* The programs end, or sleep.
CHECK_DEADLOCK FALSE
