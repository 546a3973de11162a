\* Two rooms, s1 and s2 in one and s3 in the other; started writes end, but for s1.
CONSTANTS
  s1 = s1
  s2 = s2
  s3 = s3
  r1 = r1
  r2 = r2
  Session = {s1, s2, s3}
  Room = {r1, r2}
  RoomOf <- TwoRooms
  Message = {m1}
  Unread = {s1}
  MaxRecent = 1
  MaxLog = 2
SPECIFICATION FairSpec
PROPERTIES LeaveIsFinal RoomIsBroadcast QueuedIsWritten DoneIsReleased
\* The peers may all be silent or gone.
CHECK_DEADLOCK FALSE
