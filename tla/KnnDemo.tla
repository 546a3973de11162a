------------------------------- MODULE KnnDemo -------------------------------
(* The functions of knn_kdtree_demo.cpp that do not leave the work to       *)
(* OpenCV.  They share nothing, and an execution is one call of one.        *)
EXTENDS KnnFiles, LabelsMap, Hash, DigitImages

CONSTANT Calls  \* the calls of the instance
ASSUME CallsAssumption == Calls \subseteq
  {"test_knn", "calcErr", "hash_str", "test_opencv_knn_predict"}

VARIABLE call
vars == <<call, filesVars, labelsVars, hashVars, imagesVars>>

Init ==
  /\ call \in Calls
  /\ FilesStart
  /\ IF call = "calcErr" THEN LabelsStart ELSE LabelsIdle
  /\ IF call = "hash_str" THEN HashStarts ELSE HashIdle
  /\ ImagesStart(IF call = "test_opencv_knn_predict" THEN AnySizes ELSE NoImages)

Next ==
  \/ /\ call = "test_knn" /\ test_knn
     /\ UNCHANGED <<call, labelsVars, hashVars, imagesVars>>
  \/ /\ call = "calcErr" /\ LabelsNext
     /\ UNCHANGED <<call, filesVars, hashVars, imagesVars>>
  \/ /\ call = "hash_str" /\ HashByte
     /\ UNCHANGED <<call, filesVars, labelsVars, imagesVars>>
  \/ /\ call = "test_opencv_knn_predict" /\ ImagesNext
     /\ UNCHANGED <<call, filesVars, labelsVars, hashVars>>

Spec == Init /\ [][Next]_vars

-----------------------------------------------------------------------------
(* The strings whose hashes are noted in main, and the hashes.              *)
HelloWorld == <<104, 101, 108, 108, 111, 32, 119, 111, 114, 108, 100>>
HelloWorld1 == Append(HelloWorld, 49)
HelloWorld3 == HelloWorld1 \o HelloWorld1 \o HelloWorld1
OneToFive == <<49, 50, 51, 52, 53>>
Noted == [s \in {HelloWorld, HelloWorld1, HelloWorld3, OneToFive} |->
  CASE s = HelloWorld  -> [hi |-> 54667, lo |-> 16295]   \* 3582672807
    [] s = HelloWorld1 -> [hi |-> 49205, lo |-> 6434]    \* 3224705314
    [] s = HelloWorld3 -> [hi |-> 22010, lo |-> 44278]   \* 1442491638
    [] s = OneToFive   -> [hi |-> 17346, lo |-> 49368]]  \* 1136836824

Hashed == call = "hash_str" /\ hashed = Len(str)

(* knn_kdtree_demo.cpp:597-603: hash_str_uint32 of a noted string is the    *)
(* value noted at the call, right modulo 2^32 at each of up to 36 rounds.   *)
HashAsNoted == Hashed /\ str \in DOMAIN Noted => hash = Noted[str]

(* knn_kdtree_demo.cpp:606-611 notes the same values at calls of            *)
(* hash_str_int, which takes the top bit off: two of them are no ints.      *)
HashIntAsNoted == Hashed /\ str \in DOMAIN Noted => ToInt(hash) = Noted[str]
=============================================================================
