----------------------------- MODULE DigitImages -----------------------------
(* test_opencv_knn_predict of knn_kdtree_demo.cpp: images of digits become  *)
(* the rows of a table to learn from, and then of one to predict.  Only the *)
(* size of an image matters: a row is left as it was by an image of another *)
(* size, and only tmp, the variable that refers to the row, takes that.     *)
EXTENDS Integers

CONSTANTS Digits,  \* how many there are: 4 in the code
          PerDigit, \* every_class_number: 10
          Pixels   \* the sizes an image may have, 0 if there is none
ASSUME ImagesAssumption ==
  Digits \in Nat \ {0} /\ PerDigit \in Nat \ {0} /\ Pixels \subseteq Nat

VARIABLES
  size,    \* size[i][j]: the pixels of image i_j.jpg, 0 if there is none
  loaded,  \* how many images were read
  tmp,     \* tmp.rows * tmp.cols
  width,   \* width[t]: of the rows of table t, once it is made
  data,    \* data[t]: train_data and predict_data, the image in each row
  result   \* "loading", "threw" or "predicted"

imagesVars == <<size, loaded, tmp, width, data, result>>

Table == {"train", "predict"}
Samples == Digits * PerDigit
Unwritten == <<>>

ImagesStart(sizes) ==
  /\ size \in sizes
  /\ loaded = 0 /\ result = "loading"
  /\ tmp = size[0][1]
  /\ width = [t \in Table |-> tmp]
  /\ data = [t \in Table |-> [r \in 0 .. Samples - 1 |-> Unwritten]]

AnySizes == [0 .. Digits - 1 -> [1 .. 2 * PerDigit -> Pixels]]
NoImages == {[i \in 0 .. Digits - 1 |-> [j \in 1 .. 2 * PerDigit |-> 0]]}

(* The row of image i_j, of which the first PerDigit are learnt from.       *)
First(t) == IF t = "train" THEN 1 ELSE PerDigit + 1
FromOne(t, i, j) == i * PerDigit + j - First(t) + 1  \* a mistake: rowRange from j
RowOf(t, i, j) == i * PerDigit + j - First(t)

(* The image to read next, of the table that is filled before the other. *)
Filling == IF loaded < Samples THEN "train" ELSE "predict"
Image == <<(loaded % Samples) \div PerDigit, (loaded % PerDigit) + First(Filling)>>
SizeOf(image) == size[image[1]][image[2]]

(* One image.  The second table is made as wide as tmp is when the first is *)
(* full.                                                                    *)
LoadImage ==
  /\ result = "loading"
  /\ loaded < 2 * Samples
  /\ SizeOf(Image) > 0
  /\ loaded' = loaded + 1
  /\ tmp' = SizeOf(Image)
  /\ data' = IF tmp' = width[Filling]
             THEN [data EXCEPT ![Filling][RowOf(Filling, Image[1], Image[2])] = Image]
             ELSE data
  /\ width' = IF loaded' = Samples THEN [width EXCEPT !.predict = tmp'] ELSE width
  /\ UNCHANGED <<size, result>>

(* reshape() throws if there is no image. *)
NoImage ==
  /\ result = "loading"
  /\ loaded < 2 * Samples
  /\ SizeOf(Image) = 0
  /\ result' = "threw"
  /\ UNCHANGED <<size, loaded, tmp, width, data>>

(* findNearest() refuses rows of another width than those learnt. *)
Predict ==
  /\ result = "loading"
  /\ loaded = 2 * Samples
  /\ result' = IF width.predict = width.train THEN "predicted" ELSE "threw"
  /\ UNCHANGED <<size, loaded, tmp, width, data>>

(* A call of test_opencv_knn_predict. *)
ImagesNext == LoadImage \/ NoImage \/ Predict

-----------------------------------------------------------------------------
(* What is predicted is learnt from images under their own digits' labels,  *)
(* r \div PerDigit for row r, and compared with those of others of these    *)
(* digits: each row holds an image of its own, or was never written, which  *)
(* nothing reports, if that image has not the size of the first.            *)
RowsAreDigits ==
  result = "predicted" =>
    \A t \in Table, r \in 0 .. Samples - 1 :
      LET i == r \div PerDigit
          j == (r % PerDigit) + First(t)
      IN  data[t][r] = IF size[i][j] = size[0][1] THEN <<i, j>> ELSE Unwritten
=============================================================================
