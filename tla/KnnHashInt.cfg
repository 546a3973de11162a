\* The strings whose hashes are noted beside the calls.
CONSTANTS
  Calls = {"hash_str"}
  Id = {7, 8}
  Cls = {1, 2}
  Value = {1, 2}
  FEATURE_DIM = 2
  Printed = 2
  MaxRead <- TwoTwoOne
  Sizes <- SomeSizes
  Text <- SomeTexts
  Digits = 2
  PerDigit = 2
  Pixels = {0, 1, 2}
SPECIFICATION Spec
INVARIANT HashIntAsNoted
\* The calls return.
CHECK_DEADLOCK FALSE
