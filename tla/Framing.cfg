\* The limit of the code; lines at every length that has an edge, in pieces.
CONSTANTS
  max_body_length = 512
  Line <- EdgeLines
  Piece = {1, 3, 200}
  MaxLines = 2
SPECIFICATION Spec
INVARIANT LinesArrive
PROPERTIES AllArrive IsQueue
\* The user may stop typing.
CHECK_DEADLOCK FALSE
