------------------------------ MODULE KnnFiles ------------------------------
(* test_knn of knn_kdtree_demo.cpp: features and labels are read line by    *)
(* line, by init_features and init_id_label, and a row is classified.       *)
EXTENDS Integers, Sequences, FiniteSets, SequencesExt, FiniteSetsExt

CONSTANTS Id, Cls,       \* ids and classes that a line may name
          Value,         \* numbers in a line of features
          FEATURE_DIM,   \* 512 in the code
          Printed,       \* rows that test_knn prints before it trains: 3
          MaxRead        \* bound of the instances: lines of each file
ASSUME IdAssumption == Id \subseteq Nat /\ Cls \subseteq Nat /\ Value \subseteq Nat
ASSUME DimAssumption == FEATURE_DIM \in Nat \ {0} /\ Printed \in Nat /\ MaxRead \in [1 .. 3 -> Nat]

VARIABLES
  file,           \* which file is read: 1 features, 2 labels, 3 test; 4 and 5 after
  mapLabelInfo,   \* the class of each id (its name goes with it)
  trainLabels,    \* the label of each row
  f_arr,          \* the array that each line of features is read into
  rows,           \* trainFeatures, and testData in place 3
  retBestLabels,  \* what was found, if anything
  idsRead,        \* history: id and class of each line of labels, as read
  featuresRead    \* history: the lines of features

labelFile == <<mapLabelInfo, trainLabels, idsRead>>
featureFile == <<f_arr, rows, featuresRead>>
filesVars == <<file, labelFile, featureFile, retBestLabels>>
trainFeatures == rows[1]
testData == rows[3]

(* What an array element or a local holds before it is assigned: any value, *)
(* told apart from those that are read.                                     *)
Junk == -1

Uninitialised == [n \in 1 .. FEATURE_DIM |-> Junk]
FilesStart ==
  /\ file = 1
  /\ mapLabelInfo = <<>> /\ trainLabels = <<>> /\ idsRead = <<>>
  /\ f_arr = Uninitialised
  /\ rows = [f \in {1, 3} |-> <<>>] /\ featuresRead = [f \in {1, 3} |-> <<>>]
  /\ retBestLabels = {}

(* What operator>> makes of a word: 0 of one that is no number.  Where the  *)
(* line has ended, or failed, the local keeps what it held, which may be    *)
(* what it held for an earlier line.                                        *)
NoNumber == -2
NoWord == -3
Parsed(word, Read) ==
  CASE word = NoNumber -> {0} [] word = NoWord -> Read \cup {0, Junk} [] OTHER -> {word}

(* map::emplace: the first entry of an id stays. *)
Replaces(id, cls) ==  \* a mistake: operator[]
  [n \in DOMAIN mapLabelInfo \cup {id} |-> IF n = id THEN cls ELSE mapLabelInfo[n]]
Emplaced(id, cls) ==
  [n \in DOMAIN mapLabelInfo \cup {id} |->
     IF n \in DOMAIN mapLabelInfo THEN mapLabelInfo[n] ELSE cls]

(* A line of labels: its first word and its fourth.  Where the first does   *)
(* not parse, the rest is not read.                                         *)
ReadLabel(first, fourth) ==
  /\ file = 2
  /\ Len(trainLabels) < MaxRead[file]
  /\ \E id \in Parsed(first, Id),
        cls \in Parsed(IF first \in Id THEN fourth ELSE NoWord, Cls) :
       /\ mapLabelInfo' = Emplaced(id, cls)
       /\ trainLabels' = Append(trainLabels, id)
       /\ idsRead' = Append(idsRead, <<id, cls>>)
  /\ UNCHANGED <<file, featureFile, retBestLabels>>

(* A line of features: its numbers overwrite the front of the array, and a  *)
(* copy of the whole array is the next row.  A line with more numbers than  *)
(* the array has is undefined behaviour and left out.                       *)
Filled(line) == [n \in DOMAIN f_arr |-> IF n \in DOMAIN line THEN line[n] ELSE f_arr[n]]
SharedRows(a) ==  \* a mistake: the rows refer to the array
  [k \in 1 .. Len(rows[file]) + 1 |-> a]
Pushed(a) == Append(rows[file], a)
ReadFeatures(line) ==
  /\ file \in {1, 3}
  /\ Len(rows[file]) < MaxRead[file]
  /\ f_arr' = Filled(line)
  /\ rows' = [rows EXCEPT ![file] = Pushed(f_arr')]
  /\ featuresRead' = [featuresRead EXCEPT ![file] = Append(@, line)]
  /\ UNCHANGED <<file, labelFile, retBestLabels>>

init_id_label ==
  \E first \in Id \cup {NoNumber, NoWord}, fourth \in Cls \cup {NoNumber, NoWord} :
    ReadLabel(first, fourth)
init_features ==
  \E n \in 0 .. FEATURE_DIM : \E line \in [1 .. n -> Value] : ReadFeatures(line)

(* The end of a file; the next call of init_features has its own array.     *)
EndOfFile ==
  /\ file \in 1 .. 3
  /\ file' = file + 1
  /\ f_arr' = Uninitialised
  /\ UNCHANGED <<labelFile, rows, featuresRead, retBestLabels>>

(* Printing refuses a table with fewer rows, training one without rows or   *)
(* with more or fewer than there are labels; a row to look for is needed.   *)
Trains ==
  /\ Len(trainFeatures) = Len(trainLabels) /\ trainFeatures # <<>>
  /\ Len(trainFeatures) >= Printed
  /\ testData # <<>>

(* KNearest with one neighbour: it may find any where not every number was  *)
(* read.                                                                    *)
Distance(a, b) ==
  MapThenSumSet(LAMBDA d : (a[d] - b[d]) * (a[d] - b[d]), 1 .. FEATURE_DIM)
Nearest(x) ==
  {n \in DOMAIN trainFeatures :
     \/ \E r \in {x} \cup Range(trainFeatures) : Junk \in Range(r)
     \/ \A k \in DOMAIN trainFeatures :
          Distance(x, trainFeatures[n]) <= Distance(x, trainFeatures[k])}
FindNearest ==
  /\ file = 4
  /\ file' = 5
  /\ \/ ~Trains /\ UNCHANGED retBestLabels
     \/ Trains /\ \E n \in Nearest(testData[1]) : retBestLabels' = {trainLabels[n]}
  /\ UNCHANGED <<labelFile, featureFile>>

test_knn == init_features \/ init_id_label \/ EndOfFile \/ FindNearest

-----------------------------------------------------------------------------
(* What is found is known, with the class of the first line that named it,  *)
(* however often it came again or did not parse; and so is the label of     *)
(* every row.                                                               *)
FirstLineCounts ==
  \A id \in Range(trainLabels) \cup retBestLabels :
    LET first == CHOOSE k \in DOMAIN idsRead :
          idsRead[k][1] = id /\ \A j \in 1 .. k - 1 : idsRead[j][1] # id
    IN  id \in DOMAIN mapLabelInfo /\ mapLabelInfo[id] = idsRead[first][2]

(* A full line is a row of its own, and stays one while the array is used   *)
(* again; nothing uninitialised is in any row after it.                     *)
RowsAreLines ==
  \A f \in {1, 3} : \A n \in DOMAIN featuresRead[f] :
    Len(featuresRead[f][n]) = FEATURE_DIM =>
      /\ rows[f][n] = featuresRead[f][n]
      /\ \A k \in n .. Len(rows[f]) : Junk \notin Range(rows[f][k])
=============================================================================
