\* Three users of a room that keeps two of three messages: an author, one who may
\* answer, and one who looks on.
CONSTANTS
  s1 = s1
  s2 = s2
  s3 = s3
  r1 = r1
  Session = {s1, s2, s3}
  Room = {r1}
  RoomOf <- OneRoom
  MaxTyped <- ThreeUsers
  Message <- Lines
  Unread = {}
  MaxRecent = 2
  MaxLog = 3
SPECIFICATION SystemSpec
INVARIANTS TypeOK MembersAreLive WriteChain RecentIsSuffix FeedInOrder
INVARIANTS AnswersFollow ScreensAgree AuthorsInOrder
\* The users may stop typing, or have lost their connections.
CHECK_DEADLOCK FALSE
