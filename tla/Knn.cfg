\* Every call; two lines in a file, a row to classify; up to five points; eight
\* images of two digits.
CONSTANTS
  Calls = {"test_knn", "calcErr", "hash_str", "test_opencv_knn_predict"}
  Id = {7, 8}
  Cls = {1, 2}
  Value = {1, 2}
  FEATURE_DIM = 2
  Printed = 2
  MaxRead <- TwoTwoOne
  Sizes <- SomeSizes
  Text <- SomeTexts
  Digits = 2
  PerDigit = 2
  Pixels = {0, 1, 2}
SPECIFICATION Spec
INVARIANTS FirstLineCounts RowsAreLines ErrIsLeast PerfectPasses NeverFalse RowsAreDigits HashAsNoted
\* The calls return.
CHECK_DEADLOCK FALSE
