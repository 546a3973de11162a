------------------------------ MODULE KnnProofs ------------------------------
(* Theorems about calls of test_knn, calcErr and test_opencv_knn_predict,   *)
(* for any files, clusters and images.                                      *)
EXTENDS KnnDemo, SequenceTheorems, FiniteSetTheorems, WellFoundedInduction, TLAPS

-----------------------------------------------------------------------------
(* What the proofs need of numbers. *)

(* A set of natural numbers has a least element. *)
LEMMA LeastElement ==
  ASSUME NEW T \in SUBSET Nat, T # {}
  PROVE  \E m \in T : \A n \in T : m <= n
PROOF
  <1> DEFINE R == OpToRel(<, Nat)
  <1>1. PICK m \in T : \A n \in T : ~(<<n, m>> \in R)
    <2> HIDE DEF R
    <2> QED BY NatLessThanWellFounded, WFMin DEF R
  <1>2. \A n \in T : ~(n < m)
    BY <1>1 DEF OpToRel
  <1>3. \A n \in T : n \in Nat
    OBVIOUS
  <1> QED BY <1>2, <1>3

(* Induction up to a number, over the set of numbers for which something    *)
(* holds.                                                                   *)
LEMMA UpTo ==
  ASSUME NEW N \in Nat, NEW S, 0 \in S, \A n \in 0 .. N - 1 : n \in S => n + 1 \in S
  PROVE  \A n \in 0 .. N : n \in S
PROOF
  <1> DEFINE T == {n \in 0 .. N : n \notin S}
  <1> SUFFICES ASSUME T # {} PROVE FALSE
    OBVIOUS
  <1>1. T \in SUBSET Nat
    OBVIOUS
  <1>2. PICK m \in T : \A n \in T : m <= n
    <2> HIDE DEF T
    <2> QED BY <1>1, LeastElement
  <1>3. m # 0 /\ m \in 0 .. N
    BY <1>2
  <1>4. m - 1 \in 0 .. N - 1 /\ m - 1 \notin T
    BY <1>2, <1>3
  <1> QED BY <1>2, <1>4

-----------------------------------------------------------------------------
(* test_knn. *)

Row == [1 .. FEATURE_DIM -> Int]

FilesTypes ==
  /\ file \in 1 .. 5
  /\ trainLabels \in Seq(Int)
  /\ idsRead \in Seq(Int \X Int)
  /\ f_arr \in Row
  /\ rows \in [{1, 3} -> Seq(Row)]
  /\ featuresRead \in [{1, 3} -> Seq(Seq(Int))]

(* There is a label for each line that was read, and an entry in the map,   *)
(* which is that of the first line of its id.                               *)
LabelsAreRead ==
  /\ Len(trainLabels) = Len(idsRead)
  /\ \A k \in 1 .. Len(idsRead) : idsRead[k][1] = trainLabels[k]
FirstStays ==
  /\ DOMAIN mapLabelInfo = Range(trainLabels)
  /\ \A k \in 1 .. Len(idsRead) :
       (\A j \in 1 .. k - 1 : idsRead[j][1] # idsRead[k][1])
         => mapLabelInfo[idsRead[k][1]] = idsRead[k][2]
FoundIsLabel == retBestLabels \subseteq Range(trainLabels)

(* There is a row for each line.  A full line is in its row, and from that  *)
(* line on no row holds what was never assigned.                            *)
FullLine(f, n) == Len(featuresRead[f][n]) = FEATURE_DIM
Clean(a) == \A d \in 1 .. FEATURE_DIM : a[d] # Junk
LinesAreRows ==
  \A f \in {1, 3} :
    /\ Len(rows[f]) = Len(featuresRead[f])
    /\ \A n \in 1 .. Len(rows[f]) : FullLine(f, n) =>
         /\ rows[f][n] = featuresRead[f][n]
         /\ \A k \in n .. Len(rows[f]) : Clean(rows[f][k])

(* After a full line nothing in the array is left unassigned, until the     *)
(* next file, of which nothing was read before.                             *)
ArrayIsClean ==
  /\ \A f \in {1, 3} : file = f =>
       \A n \in 1 .. Len(rows[f]) : FullLine(f, n) => Clean(f_arr)
  /\ file < 3 => rows[3] = <<>>

FilesInv ==
  /\ FilesTypes
  /\ LabelsAreRead
  /\ FirstStays
  /\ FoundIsLabel
  /\ LinesAreRows
  /\ ArrayIsClean

(* Nothing was read. *)
LEMMA FilesInvInit == FilesStart => FilesInv
PROOF
  <1> SUFFICES ASSUME FilesStart PROVE FilesInv
    OBVIOUS
  <1>1. /\ file = 1 /\ mapLabelInfo = <<>> /\ trainLabels = <<>> /\ idsRead = <<>>
        /\ f_arr = Uninitialised /\ retBestLabels = {}
        /\ rows = [f \in {1, 3} |-> <<>>] /\ featuresRead = [f \in {1, 3} |-> <<>>]
    BY DEF FilesStart
  <1>2. Len(<<>>) = 0 /\ \A S : <<>> \in Seq(S)
    BY EmptySeq
  <1>3. rows[1] = <<>> /\ rows[3] = <<>> /\ featuresRead[1] = <<>> /\ featuresRead[3] = <<>>
    BY <1>1
  <1>4. Uninitialised \in Row
    BY DEF Uninitialised, Row, Junk
  <1>5. FilesTypes
    BY <1>1, <1>2, <1>4 DEF FilesTypes
  <1>6. LabelsAreRead
    BY <1>1, <1>2 DEF LabelsAreRead
  <1>7. FirstStays
    <2>1. DOMAIN mapLabelInfo = {} /\ Range(trainLabels) = {}
      BY <1>1 DEF Range
    <2> QED BY <1>1, <1>2, <2>1 DEF FirstStays
  <1>8. FoundIsLabel
    BY <1>1 DEF FoundIsLabel
  <1>9. LinesAreRows /\ ArrayIsClean
    <2>1. \A f \in {1, 3} : Len(rows[f]) = 0 /\ Len(featuresRead[f]) = 0
      BY <1>2, <1>3
    <2> QED BY <1>3, <2>1 DEF LinesAreRows, ArrayIsClean
  <1> QED BY <1>5, <1>6, <1>7, <1>8, <1>9 DEF FilesInv

(* A line of labels. *)
LEMMA ReadLabelKeeps ==
  ASSUME FilesInv, NEW first, NEW fourth, ReadLabel(first, fourth),
         first \in Id \cup {NoNumber, NoWord}, fourth \in Cls \cup {NoNumber, NoWord}
  PROVE  FilesInv'
PROOF
  <1>1. PICK id \in Parsed(first, Id),
             cls \in Parsed(IF first \in Id THEN fourth ELSE NoWord, Cls) :
          /\ mapLabelInfo' = Emplaced(id, cls)
          /\ trainLabels' = Append(trainLabels, id)
          /\ idsRead' = Append(idsRead, <<id, cls>>)
    BY DEF ReadLabel
  <1>2. /\ file' = file /\ f_arr' = f_arr /\ rows' = rows
        /\ featuresRead' = featuresRead /\ retBestLabels' = retBestLabels
    BY DEF ReadLabel, featureFile
  <1>3. id \in Int /\ cls \in Int
    <2>1. \A w, R : w \in R \cup {NoNumber, NoWord} /\ R \subseteq Nat => Parsed(w, R) \subseteq Int
      BY DEF Parsed, NoNumber, NoWord, Junk
    <2>2. (IF first \in Id THEN fourth ELSE NoWord) \in Cls \cup {NoNumber, NoWord}
      OBVIOUS
    <2> QED BY <2>1, <2>2, IdAssumption
  <1>4. trainLabels \in Seq(Int) /\ idsRead \in Seq(Int \X Int)
    BY DEF FilesInv, FilesTypes
  <1>5. /\ trainLabels' \in Seq(Int) /\ Len(trainLabels') = Len(trainLabels) + 1
        /\ \A k \in 1 .. Len(trainLabels) : trainLabels'[k] = trainLabels[k]
        /\ trainLabels'[Len(trainLabels) + 1] = id
        /\ Len(trainLabels) \in Nat
    BY <1>1, <1>3, <1>4, AppendProperties, LenProperties
  <1>6. /\ idsRead' \in Seq(Int \X Int) /\ Len(idsRead') = Len(idsRead) + 1
        /\ \A k \in 1 .. Len(idsRead) : idsRead'[k] = idsRead[k]
        /\ idsRead'[Len(idsRead) + 1] = <<id, cls>>
    <2>1. <<id, cls>> \in Int \X Int
      BY <1>3
    <2> QED BY <1>1, <1>4, <2>1, AppendProperties
  <1> DEFINE n == Len(trainLabels)
  <1>7. n \in Nat /\ Len(idsRead) = n /\ \A k \in 1 .. n : idsRead[k][1] = trainLabels[k]
    BY <1>5 DEF FilesInv, LabelsAreRead
  <1> HIDE DEF n
  <1>8. \A k \in 1 .. n + 1 : k \in 1 .. n \/ k = n + 1
    BY <1>7
  <1>9. FilesTypes'
    BY <1>2, <1>5, <1>6 DEF FilesInv, FilesTypes
  <1>10. LabelsAreRead'
    <2>1. ASSUME NEW k \in 1 .. n + 1 PROVE idsRead'[k][1] = trainLabels'[k]
      <3>1. CASE k \in 1 .. n
        BY <1>5, <1>6, <1>7, <3>1 DEF n
      <3>2. CASE k = n + 1
        BY <1>5, <1>6, <1>7, <3>2 DEF n
      <3> QED BY <1>8, <3>1, <3>2
    <2> QED BY <1>5, <1>6, <1>7, <2>1 DEF LabelsAreRead, n
  <1>11. Range(trainLabels) = {trainLabels[k] : k \in 1 .. n}
    BY <1>4, RangeEquality DEF n
  <1>12. Range(trainLabels') = Range(trainLabels) \cup {id}
    <2>1. Range(trainLabels') = {trainLabels'[k] : k \in 1 .. n + 1}
      BY <1>5, RangeEquality DEF n
    <2>2. \A k \in 1 .. n : trainLabels'[k] = trainLabels[k] /\ k \in 1 .. n + 1
      BY <1>5, <1>7 DEF n
    <2>3. trainLabels'[n + 1] = id /\ n + 1 \in 1 .. n + 1
      BY <1>5, <1>7 DEF n
    <2> QED BY <1>8, <1>11, <2>1, <2>2, <2>3
  <1>13. /\ DOMAIN mapLabelInfo = Range(trainLabels)
         /\ DOMAIN mapLabelInfo' = Range(trainLabels')
         /\ \A x \in DOMAIN mapLabelInfo : mapLabelInfo'[x] = mapLabelInfo[x]
         /\ id \notin DOMAIN mapLabelInfo => mapLabelInfo'[id] = cls
    <2>1. DOMAIN mapLabelInfo = Range(trainLabels)
      BY DEF FilesInv, FirstStays
    <2> QED BY <1>1, <1>12, <2>1 DEF Emplaced
  <1>14. FirstStays'
    <2>1. ASSUME NEW k \in 1 .. n + 1,
                 \A j \in 1 .. k - 1 : idsRead'[j][1] # idsRead'[k][1]
          PROVE  mapLabelInfo'[idsRead'[k][1]] = idsRead'[k][2]
      <3>1. CASE k \in 1 .. n
        <4>1. idsRead'[k] = idsRead[k] /\ \A j \in 1 .. k - 1 : idsRead'[j] = idsRead[j]
          <5>1. \A j \in 1 .. k - 1 : j \in 1 .. n
            BY <1>7, <3>1
          <5>2. \A j \in 1 .. n : idsRead'[j] = idsRead[j]
            BY <1>6, <1>7
          <5> QED BY <3>1, <5>1, <5>2
        <4>2. mapLabelInfo[idsRead[k][1]] = idsRead[k][2]
          BY <1>7, <2>1, <3>1, <4>1 DEF FilesInv, FirstStays
        <4>3. idsRead[k][1] \in DOMAIN mapLabelInfo
          BY <1>7, <1>11, <1>13, <3>1
        <4> QED BY <1>13, <4>1, <4>2, <4>3
      <3>2. CASE k = n + 1
        <4>1. idsRead'[k] = <<id, cls>>
          BY <1>6, <1>7, <3>2
        <4>2. \A j \in 1 .. n : idsRead'[j][1] = trainLabels[j] /\ j \in 1 .. k - 1
          BY <1>6, <1>7, <3>2
        <4>3. id \notin DOMAIN mapLabelInfo
          BY <1>11, <1>13, <2>1, <4>1, <4>2
        <4> QED BY <1>13, <4>1, <4>3
      <3> QED BY <1>8, <3>1, <3>2
    <2> QED BY <1>6, <1>7, <1>13, <2>1 DEF FirstStays
  <1>15. FoundIsLabel'
    BY <1>2, <1>12 DEF FilesInv, FoundIsLabel
  <1>16. LinesAreRows' /\ ArrayIsClean'
    BY <1>2 DEF FilesInv, LinesAreRows, ArrayIsClean, FullLine
  <1> QED BY <1>9, <1>10, <1>14, <1>15, <1>16 DEF FilesInv

(* A line of features. *)
LEMMA ReadFeaturesKeeps ==
  ASSUME FilesInv, NEW n \in 0 .. FEATURE_DIM, NEW line \in [1 .. n -> Value],
         ReadFeatures(line)
  PROVE  FilesInv'
PROOF
  <1> DEFINE f == file
             m == Len(rows[f])
             a == Filled(line)
  <1>1. /\ file \in {1, 3}
        /\ f_arr' = a
        /\ rows' = [rows EXCEPT ![file] = Append(rows[file], a)]
        /\ featuresRead' = [featuresRead EXCEPT ![file] = Append(featuresRead[file], line)]
        /\ file' = file /\ trainLabels' = trainLabels /\ idsRead' = idsRead
        /\ mapLabelInfo' = mapLabelInfo /\ retBestLabels' = retBestLabels
    BY DEF ReadFeatures, Pushed, labelFile
  <1>2. /\ f_arr \in Row /\ rows \in [{1, 3} -> Seq(Row)]
        /\ featuresRead \in [{1, 3} -> Seq(Seq(Int))]
        /\ \A g \in {1, 3} : rows[g] \in Seq(Row) /\ featuresRead[g] \in Seq(Seq(Int))
    BY DEF FilesInv, FilesTypes
  <1>3. n \in Nat /\ line \in [1 .. n -> Int] /\ DOMAIN line = 1 .. n
    <2>1. n \in Nat
      BY DimAssumption
    <2>2. \A d \in 1 .. n : line[d] \in Int
      <3>1. Value \subseteq Int
        BY IdAssumption
      <3> QED BY <3>1
    <2>3. line = [d \in 1 .. n |-> line[d]]
      OBVIOUS
    <2> QED BY <2>1, <2>2, <2>3
  <1>4. line \in Seq(Int) /\ Len(line) = n
    BY <1>3
  <1>5. /\ a \in Row
        /\ \A d \in 1 .. FEATURE_DIM : a[d] = IF d \in 1 .. n THEN line[d] ELSE f_arr[d]
    BY <1>2, <1>3 DEF Filled, Row
  <1>6. n = FEATURE_DIM => a = line /\ Clean(a)
    <2> SUFFICES ASSUME n = FEATURE_DIM PROVE a = line /\ Clean(a)
      OBVIOUS
    <2>1. \A d \in 1 .. FEATURE_DIM : a[d] = line[d]
      BY <1>5
    <2>2. \A d \in 1 .. FEATURE_DIM : line[d] \in Nat
      BY IdAssumption
    <2>3. a \in [1 .. FEATURE_DIM -> Int] /\ line \in [1 .. FEATURE_DIM -> Int]
      BY <1>3, <1>5 DEF Row
    <2> HIDE DEF a
    <2> QED BY <2>1, <2>2, <2>3 DEF Clean, Junk
  <1>7. Clean(f_arr) => Clean(a)
    <2>1. \A d \in 1 .. n : line[d] \in Nat
      BY IdAssumption
    <2> HIDE DEF a
    <2> QED BY <1>5, <2>1 DEF Clean, Junk
  <1> HIDE DEF a
  <1>8. /\ m \in Nat /\ Len(featuresRead[f]) = m
        /\ Append(rows[f], a) \in Seq(Row) /\ Len(Append(rows[f], a)) = m + 1
        /\ \A k \in 1 .. m : Append(rows[f], a)[k] = rows[f][k]
        /\ Append(rows[f], a)[m + 1] = a
    <2>1. rows[f] \in Seq(Row)
      BY <1>1, <1>2
    <2>2. Len(featuresRead[f]) = m
      BY <1>1 DEF FilesInv, LinesAreRows
    <2> QED BY <1>5, <2>1, <2>2, AppendProperties, LenProperties
  <1>9. /\ Append(featuresRead[f], line) \in Seq(Seq(Int))
        /\ Len(Append(featuresRead[f], line)) = m + 1
        /\ \A k \in 1 .. m : Append(featuresRead[f], line)[k] = featuresRead[f][k]
        /\ Append(featuresRead[f], line)[m + 1] = line
    <2>1. featuresRead[f] \in Seq(Seq(Int))
      BY <1>1, <1>2
    <2>2. Len(featuresRead[f]) = m
      BY <1>8
    <2> HIDE DEF m, f
    <2> QED BY <1>4, <2>1, <2>2, AppendProperties
  <1>10. /\ rows'[f] = Append(rows[f], a)
         /\ featuresRead'[f] = Append(featuresRead[f], line)
         /\ \A g \in {1, 3} : g # f => rows'[g] = rows[g] /\ featuresRead'[g] = featuresRead[g]
    BY <1>1, <1>2
  <1>11. FilesTypes'
    <2>1. rows' \in [{1, 3} -> Seq(Row)]
      BY <1>1, <1>2, <1>8
    <2>2. featuresRead' \in [{1, 3} -> Seq(Seq(Int))]
      BY <1>1, <1>2, <1>9
    <2> QED BY <1>1, <1>5, <2>1, <2>2 DEF FilesInv, FilesTypes
  <1>12. LabelsAreRead' /\ FirstStays' /\ FoundIsLabel'
    BY <1>1 DEF FilesInv, LabelsAreRead, FirstStays, FoundIsLabel
  <1>13. /\ \A k \in 1 .. m : /\ rows'[f][k] = rows[f][k]
                              /\ featuresRead'[f][k] = featuresRead[f][k]
         /\ rows'[f][m + 1] = a /\ featuresRead'[f][m + 1] = line
         /\ Len(rows'[f]) = m + 1 /\ Len(featuresRead'[f]) = m + 1
    BY <1>8, <1>9, <1>10
  <1>14. \A j \in 1 .. m : FullLine(f, j) =>
           /\ rows[f][j] = featuresRead[f][j]
           /\ \A k \in j .. m : Clean(rows[f][k])
           /\ Clean(f_arr)
    BY <1>1 DEF FilesInv, LinesAreRows, ArrayIsClean
  <1>15. ASSUME NEW j \in 1 .. m + 1, Len(featuresRead'[f][j]) = FEATURE_DIM
         PROVE  /\ rows'[f][j] = featuresRead'[f][j]
                /\ \A k \in j .. m + 1 : Clean(rows'[f][k])
                /\ Clean(a)
    <2> HIDE DEF f, m
    <2>1. CASE j \in 1 .. m
      <3>1. FullLine(f, j)
        BY <1>13, <1>15, <2>1 DEF FullLine
      <3>2. Clean(a)
        BY <1>7, <1>14, <2>1, <3>1
      <3>3. ASSUME NEW k \in j .. m + 1 PROVE Clean(rows'[f][k])
        <4>1. CASE k \in j .. m
          <5>1. k \in 1 .. m /\ Clean(rows[f][k])
            BY <1>8, <1>14, <2>1, <3>1, <4>1
          <5> QED BY <1>13, <5>1
        <4>2. CASE k = m + 1
          BY <1>13, <3>2, <4>2
        <4> QED BY <1>8, <2>1, <4>1, <4>2
      <3>4. rows'[f][j] = featuresRead'[f][j]
        BY <1>13, <1>14, <2>1, <3>1
      <3> QED BY <3>2, <3>3, <3>4
    <2>2. CASE j = m + 1
      <3>1. a = line /\ Clean(a)
        BY <1>4, <1>6, <1>13, <1>15, <2>2
      <3>2. \A k \in j .. m + 1 : k = m + 1
        BY <1>8, <2>2
      <3> QED BY <1>13, <2>2, <3>1, <3>2
    <2> QED BY <1>8, <2>1, <2>2
  <1>16. LinesAreRows'
    <2>1. ASSUME NEW g \in {1, 3}
          PROVE  /\ Len(rows'[g]) = Len(featuresRead'[g])
                 /\ \A j \in 1 .. Len(rows'[g]) : Len(featuresRead'[g][j]) = FEATURE_DIM =>
                      /\ rows'[g][j] = featuresRead'[g][j]
                      /\ \A k \in j .. Len(rows'[g]) : Clean(rows'[g][k])
      <3>1. CASE g = f
        BY <1>13, <1>15, <3>1
      <3>2. CASE g # f
        <4>1. rows'[g] = rows[g] /\ featuresRead'[g] = featuresRead[g]
          BY <1>10, <3>2
        <4> QED BY <4>1 DEF FilesInv, LinesAreRows, FullLine
      <3> QED BY <3>1, <3>2
    <2> QED BY <2>1 DEF LinesAreRows, FullLine, Clean
  <1>17. ArrayIsClean'
    <2>1. ASSUME NEW g \in {1, 3}, file' = g, NEW j \in 1 .. Len(rows'[g]),
                 Len(featuresRead'[g][j]) = FEATURE_DIM
          PROVE  Clean(f_arr')
      <3>1. g = f /\ j \in 1 .. m + 1 /\ Len(featuresRead'[f][j]) = FEATURE_DIM
        BY <1>1, <1>13, <2>1
      <3> QED BY <1>1, <1>15, <3>1
    <2>2. file' < 3 => rows'[3] = <<>>
      <3> SUFFICES ASSUME file' < 3 PROVE rows'[3] = <<>>
        OBVIOUS
      <3>1. f = 1 /\ file < 3
        BY <1>1
      <3> QED BY <1>10, <3>1 DEF FilesInv, ArrayIsClean
    <2> QED BY <2>1, <2>2 DEF ArrayIsClean, FullLine, Clean
  <1> QED BY <1>11, <1>12, <1>16, <1>17 DEF FilesInv

(* The end of a file. *)
LEMMA EndOfFileKeeps ==
  ASSUME FilesInv, EndOfFile
  PROVE  FilesInv'
PROOF
  <1>1. /\ file \in 1 .. 3 /\ file' = file + 1 /\ f_arr' = Uninitialised
        /\ mapLabelInfo' = mapLabelInfo /\ trainLabels' = trainLabels /\ idsRead' = idsRead
        /\ rows' = rows /\ featuresRead' = featuresRead /\ retBestLabels' = retBestLabels
    BY DEF EndOfFile, labelFile
  <1>2. Uninitialised \in Row
    BY DEF Uninitialised, Row, Junk
  <1>3. FilesTypes'
    BY <1>1, <1>2 DEF FilesInv, FilesTypes
  <1>4. LabelsAreRead' /\ FirstStays' /\ FoundIsLabel' /\ LinesAreRows'
    BY <1>1 DEF FilesInv, LabelsAreRead, FirstStays, FoundIsLabel, LinesAreRows, FullLine
  <1>5. ArrayIsClean'
    <2>1. CASE file' = 3
      <3>1. rows'[3] = <<>> /\ Len(<<>>) = 0
        BY <1>1, <2>1, EmptySeq DEF FilesInv, ArrayIsClean
      <3>2. \A f \in {1, 3} : file' = f => 1 .. Len(rows'[f]) = {}
        BY <2>1, <3>1
      <3> QED BY <2>1, <3>2 DEF ArrayIsClean
    <2>2. CASE file' # 3
      <3>1. file' \notin {1, 3}
        BY <1>1, <2>2
      <3>2. file' < 3 => rows'[3] = <<>>
        BY <1>1 DEF FilesInv, ArrayIsClean
      <3> QED BY <3>1, <3>2 DEF ArrayIsClean
    <2> QED BY <2>1, <2>2
  <1> QED BY <1>3, <1>4, <1>5 DEF FilesInv

(* The neighbour that is found is a row that was learnt, and has a label.   *)
LEMMA FindNearestKeeps ==
  ASSUME FilesInv, FindNearest
  PROVE  FilesInv'
PROOF
  <1>1. /\ file = 4 /\ file' = 5 /\ f_arr' = f_arr
        /\ mapLabelInfo' = mapLabelInfo /\ trainLabels' = trainLabels /\ idsRead' = idsRead
        /\ rows' = rows /\ featuresRead' = featuresRead
    BY DEF FindNearest, labelFile, featureFile
  <1>2. FilesTypes'
    BY <1>1 DEF FilesInv, FilesTypes
  <1>3. LabelsAreRead' /\ FirstStays' /\ LinesAreRows' /\ ArrayIsClean'
    <2>1. LabelsAreRead' /\ FirstStays'
      BY <1>1 DEF FilesInv, LabelsAreRead, FirstStays
    <2>2. LinesAreRows'
      BY <1>1 DEF FilesInv, LinesAreRows, FullLine
    <2>3. file' \notin {1, 3} /\ ~(file' < 3)
      BY <1>1
    <2>4. ArrayIsClean'
      BY <2>3 DEF ArrayIsClean
    <2> QED BY <2>1, <2>2, <2>4
  <1>4. FoundIsLabel'
    <2>1. CASE retBestLabels' = retBestLabels
      BY <1>1, <2>1 DEF FilesInv, FoundIsLabel
    <2>2. CASE Trains /\ \E n \in Nearest(testData[1]) : retBestLabels' = {trainLabels[n]}
      <3>1. PICK n \in Nearest(testData[1]) : retBestLabels' = {trainLabels[n]}
        BY <2>2
      <3>2. n \in DOMAIN trainFeatures
        BY DEF Nearest
      <3>3. Len(trainFeatures) = Len(trainLabels)
        BY <2>2 DEF Trains
      <3>4. trainFeatures \in Seq(Row) /\ trainLabels \in Seq(Int)
        BY DEF FilesInv, FilesTypes, trainFeatures
      <3>5. n \in 1 .. Len(trainLabels)
        BY <3>2, <3>3, <3>4, LenProperties
      <3>6. Range(trainLabels) = {trainLabels[k] : k \in 1 .. Len(trainLabels)}
        BY <3>4, RangeEquality
      <3> QED BY <1>1, <3>1, <3>5, <3>6 DEF FoundIsLabel
    <2> QED BY <2>1, <2>2 DEF FindNearest
  <1> QED BY <1>2, <1>3, <1>4 DEF FilesInv

(* No step of test_knn ends it. *)
LEMMA FilesKept ==
  ASSUME FilesInv, [test_knn]_filesVars
  PROVE  FilesInv'
PROOF
  <1>1. CASE init_features
    <2>1. PICK n \in 0 .. FEATURE_DIM : \E line \in [1 .. n -> Value] : ReadFeatures(line)
      BY <1>1 DEF init_features
    <2> QED BY <2>1, ReadFeaturesKeeps
  <1>2. CASE init_id_label
    BY <1>2, ReadLabelKeeps DEF init_id_label
  <1>3. CASE EndOfFile
    BY <1>3, EndOfFileKeeps
  <1>4. CASE FindNearest
    BY <1>4, FindNearestKeeps
  <1>5. CASE UNCHANGED filesVars
    <2>1. /\ file' = file /\ f_arr' = f_arr /\ retBestLabels' = retBestLabels
          /\ mapLabelInfo' = mapLabelInfo /\ trainLabels' = trainLabels
          /\ idsRead' = idsRead /\ rows' = rows /\ featuresRead' = featuresRead
      BY <1>5 DEF filesVars, labelFile, featureFile
    <2>2. FilesTypes' /\ LabelsAreRead' /\ FirstStays' /\ FoundIsLabel'
      BY <2>1 DEF FilesInv, FilesTypes, LabelsAreRead, FirstStays, FoundIsLabel
    <2>3. LinesAreRows' /\ ArrayIsClean'
      BY <2>1 DEF FilesInv, LinesAreRows, ArrayIsClean, FullLine
    <2> QED BY <2>2, <2>3 DEF FilesInv
  <1> QED BY <1>1, <1>2, <1>3, <1>4, <1>5 DEF test_knn

(* The rows of full lines and those after them are what was read. *)
LEMMA InvRowsAreLines == FilesInv => RowsAreLines
PROOF
  <1> SUFFICES ASSUME FilesInv, NEW f \in {1, 3}, NEW n \in DOMAIN featuresRead[f],
                      Len(featuresRead[f][n]) = FEATURE_DIM
               PROVE  /\ rows[f][n] = featuresRead[f][n]
                      /\ \A k \in n .. Len(rows[f]) : Junk \notin Range(rows[f][k])
    BY DEF RowsAreLines
  <1>1. rows[f] \in Seq(Row) /\ featuresRead[f] \in Seq(Seq(Int))
    BY DEF FilesInv, FilesTypes
  <1>2. Len(rows[f]) = Len(featuresRead[f])
    BY DEF FilesInv, LinesAreRows
  <1>3. n \in 1 .. Len(rows[f]) /\ Len(rows[f]) \in Nat
    BY <1>1, <1>2, LenProperties
  <1>4. /\ rows[f][n] = featuresRead[f][n]
        /\ \A k \in n .. Len(rows[f]) : Clean(rows[f][k])
    BY <1>3 DEF FilesInv, LinesAreRows, FullLine
  <1>5. ASSUME NEW k \in n .. Len(rows[f]) PROVE Junk \notin Range(rows[f][k])
    <2>1. k \in 1 .. Len(rows[f])
      BY <1>3
    <2>2. rows[f][k] \in Row
      BY <1>1, <2>1, ElementOfSeq
    <2>3. DOMAIN rows[f][k] = 1 .. FEATURE_DIM
      BY <2>2 DEF Row
    <2> QED BY <1>4, <2>3 DEF Clean, Range
  <1> QED BY <1>4, <1>5

(* There is a first line for each label, and what is found is a label.      *)
LEMMA InvFirstLineCounts == FilesInv => FirstLineCounts
PROOF
  <1> SUFFICES ASSUME FilesInv, NEW id \in Range(trainLabels) \cup retBestLabels
               PROVE  LET first == CHOOSE k \in DOMAIN idsRead :
                            idsRead[k][1] = id /\ \A j \in 1 .. k - 1 : idsRead[j][1] # id
                      IN  id \in DOMAIN mapLabelInfo /\ mapLabelInfo[id] = idsRead[first][2]
    BY DEF FirstLineCounts
  <1> DEFINE IsFirst(k) == idsRead[k][1] = id /\ \A j \in 1 .. k - 1 : idsRead[j][1] # id
             first == CHOOSE k \in DOMAIN idsRead : IsFirst(k)
             T == {k \in DOMAIN idsRead : idsRead[k][1] = id}
  <1>1. id \in Range(trainLabels)
    BY DEF FilesInv, FoundIsLabel
  <1>2. /\ trainLabels \in Seq(Int) /\ idsRead \in Seq(Int \X Int)
        /\ Len(trainLabels) = Len(idsRead)
        /\ \A k \in 1 .. Len(idsRead) : idsRead[k][1] = trainLabels[k]
    BY DEF FilesInv, FilesTypes, LabelsAreRead
  <1>3. DOMAIN idsRead = 1 .. Len(idsRead) /\ Len(idsRead) \in Nat
    BY <1>2, LenProperties
  <1>4. PICK n \in 1 .. Len(idsRead) : id = idsRead[n][1]
    <2>1. Range(trainLabels) = {trainLabels[k] : k \in 1 .. Len(trainLabels)}
      BY <1>2, RangeEquality
    <2>2. PICK k \in 1 .. Len(trainLabels) : id = trainLabels[k]
      BY <1>1, <2>1
    <2> QED BY <1>2, <2>2
  <1>5. T \in SUBSET Nat /\ T # {}
    BY <1>3, <1>4
  <1>6. PICK x \in T : \A y \in T : x <= y
    <2> HIDE DEF T
    <2> QED BY <1>5, LeastElement
  <1>7. x \in DOMAIN idsRead /\ IsFirst(x)
    <2>1. ASSUME NEW j \in 1 .. x - 1 PROVE idsRead[j][1] # id
      <3>1. j \in DOMAIN idsRead /\ ~(x <= j)
        BY <1>3
      <3> QED BY <1>6, <3>1
    <2> QED BY <2>1
  <1> HIDE DEF T
  <1>8. first \in DOMAIN idsRead /\ IsFirst(first)
    BY <1>7
  <1> HIDE DEF first
  <1>9. mapLabelInfo[id] = idsRead[first][2]
    BY <1>3, <1>8 DEF FilesInv, FirstStays
  <1>10. id \in DOMAIN mapLabelInfo
    BY <1>1 DEF FilesInv, FirstStays
  <1> QED BY <1>9, <1>10 DEF first

-----------------------------------------------------------------------------
(* calcErr. *)

(* SumTo is the sum that it says it is.                                     *)
LEMMA SumIs ==
  ASSUME NEW sz \in Seq(Nat)
  PROVE  /\ SumTo(sz, 0) = 0
         /\ \A k \in 1 .. Len(sz) : SumTo(sz, k) = SumTo(sz, k - 1) + sz[k]
         /\ \A k \in 0 .. Len(sz) : SumTo(sz, k) \in Nat
PROOF
  <1> DEFINE N == Len(sz)
             Partial(n, g) == /\ g \in [0 .. n -> Nat]
                              /\ g[0] = 0
                              /\ \A k \in 1 .. n : g[k] = g[k - 1] + sz[k]
             S == {n \in 0 .. N : \E g \in [0 .. n -> Nat] : Partial(n, g)}
  <1>1. N \in Nat /\ \A k \in 1 .. N : sz[k] \in Nat
    BY LenProperties, ElementOfSeq
  <1> HIDE DEF N
  <1>2. 0 \in S
    <2> DEFINE z == [k \in 0 .. 0 |-> 0]
    <2>1. z \in [0 .. 0 -> Nat] /\ z[0] = 0 /\ 1 .. 0 = {}
      OBVIOUS
    <2> HIDE DEF z
    <2>2. Partial(0, z)
      BY <2>1
    <2> QED BY <1>1, <2>1, <2>2
  <1>3. ASSUME NEW n \in 0 .. N - 1, n \in S PROVE n + 1 \in S
    <2>1. PICK g \in [0 .. n -> Nat] : Partial(n, g)
      BY <1>3
    <2> DEFINE h == [k \in 0 .. n + 1 |-> IF k \in 0 .. n THEN g[k] ELSE g[n] + sz[n + 1]]
    <2>2. n \in Nat /\ n + 1 \in 1 .. N /\ sz[n + 1] \in Nat /\ g[n] \in Nat
      BY <1>1
    <2>3. h \in [0 .. n + 1 -> Nat]
      BY <2>2
    <2>4. \A k \in 1 .. n + 1 : h[k] = h[k - 1] + sz[k]
      <3>1. ASSUME NEW k \in 1 .. n PROVE h[k] = h[k - 1] + sz[k]
        BY <2>1, <2>2
      <3>2. h[n + 1] = h[n + 1 - 1] + sz[n + 1]
        BY <2>2
      <3> HIDE DEF h
      <3>3. ASSUME NEW k \in 1 .. n + 1 PROVE h[k] = h[k - 1] + sz[k]
        <4>1. k \in 1 .. n \/ k = n + 1
          BY <2>2
        <4>2. CASE k \in 1 .. n
          BY <3>1, <4>2
        <4>3. CASE k = n + 1
          BY <3>2, <4>3
        <4> QED BY <4>1, <4>2, <4>3, Zenon
      <3> QED BY <3>3
    <2>5. h[0] = 0
      BY <2>1, <2>2
    <2> HIDE DEF h
    <2>6. Partial(n + 1, h)
      BY <2>3, <2>4, <2>5
    <2>7. n + 1 \in 0 .. N
      BY <1>1
    <2> QED BY <2>3, <2>6, <2>7
  <1>4. N \in S
    <2> HIDE DEF S
    <2>1. \A n \in 0 .. N : n \in S
      BY <1>1, <1>2, <1>3, UpTo
    <2> QED BY <1>1, <2>1
  <1>5. PICK g \in [0 .. N -> Nat] : Partial(N, g)
    BY <1>4
  <1> DEFINE Sums(f) == f = [k \in 0 .. N |-> IF k = 0 THEN 0 ELSE f[k - 1] + sz[k]]
             sum == CHOOSE f : Sums(f)
  <1>6. Sums(g)
    BY <1>1, <1>5
  <1>7. Sums(sum)
    <2> HIDE DEF Sums
    <2> QED BY <1>6
  <1>8. \A k \in 0 .. N : SumTo(sz, k) = sum[k]
    BY DEF SumTo, N
  <1> HIDE DEF sum
  <1>9. /\ sum[0] = 0
        /\ \A k \in 1 .. N : sum[k] = sum[k - 1] + sz[k]
    BY <1>1, <1>7
  <1> DEFINE A == {n \in 0 .. N : sum[n] \in Nat}
  <1>10. \A n \in 0 .. N : n \in A
    <2>1. 0 \in A
      BY <1>1, <1>9
    <2>2. ASSUME NEW n \in 0 .. N - 1, n \in A PROVE n + 1 \in A
      <3>1. n + 1 \in 1 .. N /\ n + 1 - 1 = n /\ sz[n + 1] \in Nat /\ sum[n] \in Nat
        BY <1>1, <2>2
      <3> QED BY <1>9, <3>1
    <2> HIDE DEF A
    <2> QED BY <1>1, <2>1, <2>2, UpTo
  <1>11. SumTo(sz, 0) = 0 /\ \A k \in 0 .. N : SumTo(sz, k) \in Nat
    <2>1. 0 \in 0 .. N
      BY <1>1
    <2> HIDE DEF N
    <2> QED BY <1>8, <1>9, <1>10, <2>1
  <1>12. ASSUME NEW k \in 1 .. N PROVE SumTo(sz, k) = SumTo(sz, k - 1) + sz[k]
    <2>1. k \in 0 .. N /\ k - 1 \in 0 .. N
      BY <1>1
    <2> QED BY <1>8, <1>9, <2>1
  <1> QED BY <1>11, <1>12 DEF N

(* It does not decrease. *)
LEMMA SumGrows ==
  ASSUME NEW sz \in Seq(Nat), NEW j \in 0 .. Len(sz), NEW k \in j .. Len(sz)
  PROVE  SumTo(sz, j) <= SumTo(sz, k)
PROOF
  <1> DEFINE N == Len(sz)
             S == {d \in 0 .. N - j : SumTo(sz, j) <= SumTo(sz, j + d)}
  <1>1. /\ N \in Nat /\ j \in 0 .. N /\ N - j \in Nat
        /\ \A i \in 1 .. N : sz[i] \in Nat /\ SumTo(sz, i) = SumTo(sz, i - 1) + sz[i]
        /\ \A i \in 0 .. N : SumTo(sz, i) \in Nat
    BY LenProperties, ElementOfSeq, SumIs
  <1> HIDE DEF N
  <1>2. 0 \in S
    BY <1>1
  <1>3. ASSUME NEW d \in 0 .. N - j - 1, d \in S PROVE d + 1 \in S
    <2> DEFINE i == j + d + 1
    <2>1. i \in 1 .. N /\ i - 1 = j + d /\ i - 1 \in 0 .. N /\ i \in 0 .. N
      BY <1>1
    <2>2. SumTo(sz, i) = SumTo(sz, i - 1) + sz[i] /\ sz[i] \in Nat
      BY <1>1, <2>1
    <2>3. SumTo(sz, j) \in Nat /\ SumTo(sz, i - 1) \in Nat /\ SumTo(sz, i) \in Nat
      BY <1>1, <2>1
    <2>4. SumTo(sz, j) <= SumTo(sz, i - 1)
      BY <1>3, <2>1
    <2>5. j + (d + 1) = i /\ d + 1 \in 0 .. N - j
      BY <1>1
    <2> HIDE DEF i
    <2>6. SumTo(sz, j) <= SumTo(sz, i)
      BY <2>2, <2>3, <2>4
    <2> QED BY <2>5, <2>6
  <1>4. \A d \in 0 .. N - j : d \in S
    <2> HIDE DEF S
    <2> QED BY <1>1, <1>2, <1>3, UpTo
  <1>5. k - j \in 0 .. N - j /\ j + (k - j) = k
    BY <1>1 DEF N
  <1> QED BY <1>4, <1>5

(* Where the points of a cluster are, and how many there are.               *)
LEMMA PointsAre ==
  ASSUME sizes \in Seq(Nat), NEW c \in Cluster
  PROVE  /\ c + 1 \in 1 .. Len(sizes) /\ c \in Nat /\ sizes[c + 1] \in Nat
         /\ SumTo(sizes, c) \in Nat
         /\ SumTo(sizes, c + 1) = SumTo(sizes, c) + sizes[c + 1]
         /\ Points(c) \subseteq Point
         /\ IsFiniteSet(Points(c)) /\ Cardinality(Points(c)) = sizes[c + 1]
PROOF
  <1> DEFINE N == Len(sizes)
             a == SumTo(sizes, c)
             b == SumTo(sizes, c + 1)
             t == SumTo(sizes, N)
  <1>1. N \in Nat /\ c \in 0 .. N - 1
    BY LenProperties DEF Cluster
  <1>2. /\ c + 1 \in 1 .. N /\ c \in Nat /\ c \in 0 .. N /\ c + 1 - 1 = c
        /\ N \in c + 1 .. N /\ c + 1 \in 0 .. N
    BY <1>1
  <1>3. sizes[c + 1] \in Nat
    BY <1>2, ElementOfSeq
  <1>4. a \in Nat /\ b = a + sizes[c + 1]
    BY <1>2, SumIs
  <1>5. b <= t /\ t \in Nat
    BY <1>2, SumGrows, SumIs
  <1>6. Points(c) = a .. b - 1 /\ Point = 0 .. t - 1
    BY DEF Points, Point, Total
  <1> HIDE DEF a, b, t, N
  <1>7. a .. b - 1 \subseteq 0 .. t - 1
    BY <1>3, <1>4, <1>5
  <1>8. IsFiniteSet(a .. b - 1) /\ Cardinality(a .. b - 1) = sizes[c + 1]
    <2>1. a \in Int /\ b - 1 \in Int
      BY <1>3, <1>4
    <2>2. (IF a > b - 1 THEN 0 ELSE b - 1 - a + 1) = sizes[c + 1]
      BY <1>3, <1>4
    <2> QED BY <2>1, <2>2, FS_Interval
  <1> QED BY <1>2, <1>3, <1>4, <1>6, <1>7, <1>8 DEF a, b, N

(* A point belongs to one cluster. *)
LEMMA OrigLabelIs ==
  ASSUME sizes \in Seq(Nat), NEW c \in Cluster, NEW p \in Points(c)
  PROVE  OrigLabel(p) = c
PROOF
  <1>1. ASSUME NEW d \in Cluster, NEW e \in Cluster, d < e, p \in Points(d), p \in Points(e)
        PROVE  FALSE
    <2>1. d + 1 \in 0 .. Len(sizes) /\ e \in d + 1 .. Len(sizes)
      <3>1. Len(sizes) \in Nat
        BY LenProperties
      <3> QED BY <1>1, <3>1 DEF Cluster
    <2>2. SumTo(sizes, d + 1) <= SumTo(sizes, e)
      BY <2>1, SumGrows
    <2>3. SumTo(sizes, d + 1) \in Nat /\ SumTo(sizes, e) \in Nat
      BY <2>1, SumIs, PointsAre
    <2>4. p < SumTo(sizes, d + 1) /\ p >= SumTo(sizes, e) /\ p \in Int
      <3>1. /\ SumTo(sizes, d) \in Nat
            /\ sizes[e + 1] \in Nat
            /\ SumTo(sizes, e + 1) = SumTo(sizes, e) + sizes[e + 1]
        BY PointsAre
      <3>2. SumTo(sizes, e + 1) \in Nat
        BY <2>3, <3>1
      <3> QED BY <1>1, <2>3, <3>1, <3>2 DEF Points
    <2> QED BY <2>2, <2>3, <2>4
  <1>2. \A d \in Cluster : d \in Nat
    BY PointsAre
  <1>3. ASSUME NEW d \in Cluster, p \in Points(d) PROVE d = c
    <2>1. ~(d < c) /\ ~(c < d)
      BY <1>1, <1>3
    <2> QED BY <1>2, <2>1
  <1> QED BY <1>3 DEF OrigLabel

(* The votes of the points of a cluster for a label. *)
Votes(c, l) == Cardinality({p \in Points(c) : labels[p] = l})

(* Points vote once. *)
LEMMA VotesAre ==
  ASSUME sizes \in Seq(Nat), NEW c \in Cluster, NEW l
  PROVE  /\ Votes(c, l) \in 0 .. sizes[c + 1]
         /\ IsFiniteSet({p \in Points(c) : labels[p] # l})
         /\ Cardinality({p \in Points(c) : labels[p] # l}) = sizes[c + 1] - Votes(c, l)
PROOF
  <1> DEFINE S == {p \in Points(c) : labels[p] = l}
             T == {p \in Points(c) : labels[p] # l}
  <1>1. IsFiniteSet(Points(c)) /\ Cardinality(Points(c)) = sizes[c + 1] /\ sizes[c + 1] \in Nat
    BY PointsAre
  <1>2. S \in SUBSET Points(c) /\ T = Points(c) \ S /\ Points(c) \cap S = S
    OBVIOUS
  <1> HIDE DEF S, T
  <1>3. IsFiniteSet(S) /\ Cardinality(S) <= sizes[c + 1]
    BY <1>1, <1>2, FS_Subset
  <1>4. Cardinality(S) \in Nat
    BY <1>3, FS_CardinalityType
  <1>5. IsFiniteSet(T) /\ Cardinality(T) = sizes[c + 1] - Cardinality(S)
    <2>1. IsFiniteSet(Points(c)) /\ Points(c) \cap S = S
      BY <1>1, <1>2
    <2>2. /\ IsFiniteSet(Points(c) \ S)
          /\ Cardinality(Points(c) \ S) = Cardinality(Points(c)) - Cardinality(Points(c) \cap S)
      BY <2>1, FS_Difference
    <2> QED BY <1>1, <1>2, <2>1, <2>2
  <1>6. Cardinality(S) \in 0 .. sizes[c + 1]
    BY <1>1, <1>3, <1>4
  <1> QED BY <1>5, <1>6 DEF Votes, S, T

(* The errors among the points of the first k clusters, if cluster c were   *)
(* named f[c].                                                              *)
Misnamed(k, f) == {p \in 0 .. SumTo(sizes, k) - 1 : labels[p] # f[OrigLabel(p)]}

(* A further cluster adds its points that vote otherwise. *)
LEMMA MoreMisnamed ==
  ASSUME sizes \in Seq(Nat), NEW c \in Cluster, NEW f, IsFiniteSet(Misnamed(c, f))
  PROVE  /\ IsFiniteSet(Misnamed(c + 1, f))
         /\ Cardinality(Misnamed(c + 1, f)) =
              Cardinality(Misnamed(c, f)) + (sizes[c + 1] - Votes(c, f[c]))
PROOF
  <1> DEFINE A == Misnamed(c, f)
             B == {p \in Points(c) : labels[p] # f[c]}
  <1>1. Misnamed(c + 1, f) = A \cup B
    <2>1. 0 .. SumTo(sizes, c + 1) - 1 = 0 .. SumTo(sizes, c) - 1 \cup Points(c)
      <3>1. /\ SumTo(sizes, c) \in Nat /\ sizes[c + 1] \in Nat
            /\ SumTo(sizes, c + 1) = SumTo(sizes, c) + sizes[c + 1]
        BY PointsAre
      <3> QED BY <3>1 DEF Points
    <2>2. \A p \in Points(c) : OrigLabel(p) = c
      BY OrigLabelIs
    <2> QED BY <2>1, <2>2 DEF Misnamed
  <1>2. A \cap B = {}
    <2>1. SumTo(sizes, c) \in Nat /\ SumTo(sizes, c + 1) \in Nat
      BY PointsAre
    <2>2. 0 .. SumTo(sizes, c) - 1 \cap Points(c) = {}
      BY <2>1 DEF Points
    <2> QED BY <2>2 DEF Misnamed
  <1>3. IsFiniteSet(B) /\ Cardinality(B) = sizes[c + 1] - Votes(c, f[c])
    BY VotesAre
  <1>4. /\ IsFiniteSet(A \cup B)
        /\ Cardinality(A \cup B) = Cardinality(A) + Cardinality(B) - Cardinality({})
    <2> HIDE DEF A, B
    <2>1. IsFiniteSet(A)
      BY DEF A
    <2> QED BY <1>2, <1>3, <2>1, FS_Union
  <1>5. Cardinality({}) = 0 /\ Cardinality(A) \in Nat /\ Cardinality(B) \in Nat
    BY <1>3, FS_EmptySet, FS_CardinalityType
  <1>6. Cardinality(A \cup B) = Cardinality(A) + Cardinality(B)
    <2> HIDE DEF A, B
    <2> QED BY <1>4, <1>5
  <1> HIDE DEF B
  <1> QED BY <1>1, <1>3, <1>4, <1>6

(* Names with the most votes in each cluster are wrong for the fewest       *)
(* points.                                                                  *)
LEMMA FewestMisnamed ==
  ASSUME sizes \in Seq(Nat), NEW f, NEW g, \A c \in Cluster : Votes(c, f[c]) <= Votes(c, g[c])
  PROVE  /\ IsFiniteSet(Misnamed(Len(sizes), f)) /\ IsFiniteSet(Misnamed(Len(sizes), g))
         /\ Cardinality(Misnamed(Len(sizes), g)) <= Cardinality(Misnamed(Len(sizes), f))
PROOF
  <1> DEFINE N == Len(sizes)
             Fewer(k) == /\ IsFiniteSet(Misnamed(k, f)) /\ IsFiniteSet(Misnamed(k, g))
                         /\ Cardinality(Misnamed(k, g)) <= Cardinality(Misnamed(k, f))
             S == {k \in 0 .. N : Fewer(k)}
  <1>1. N \in Nat /\ Cluster = 0 .. N - 1
    BY LenProperties DEF Cluster
  <1> HIDE DEF N
  <1>2. 0 \in S
    <2>1. SumTo(sizes, 0) = 0
      BY SumIs
    <2>2. \A h : Misnamed(0, h) = {}
      BY <2>1 DEF Misnamed
    <2>3. IsFiniteSet({}) /\ Cardinality({}) = 0
      BY FS_EmptySet
    <2>4. Fewer(0)
      <3>1. Misnamed(0, f) = {} /\ Misnamed(0, g) = {}
        BY <2>2
      <3>2. IsFiniteSet(Misnamed(0, f)) /\ IsFiniteSet(Misnamed(0, g))
        BY <2>3, <3>1
      <3>3. Cardinality(Misnamed(0, f)) = 0 /\ Cardinality(Misnamed(0, g)) = 0
        BY <2>3, <3>1
      <3> QED BY <3>2, <3>3
    <2> HIDE DEF Fewer
    <2> QED BY <1>1, <2>4
  <1>3. ASSUME NEW c \in 0 .. N - 1, c \in S PROVE c + 1 \in S
    <2>1. c \in Cluster /\ Fewer(c) /\ c + 1 \in 0 .. N
      BY <1>1, <1>3
    <2> DEFINE mf == Cardinality(Misnamed(c, f))
               mg == Cardinality(Misnamed(c, g))
               vf == Votes(c, f[c])
               vg == Votes(c, g[c])
    <2>2. /\ IsFiniteSet(Misnamed(c + 1, f)) /\ IsFiniteSet(Misnamed(c + 1, g))
          /\ Cardinality(Misnamed(c + 1, f)) = mf + (sizes[c + 1] - vf)
          /\ Cardinality(Misnamed(c + 1, g)) = mg + (sizes[c + 1] - vg)
      BY <2>1, MoreMisnamed
    <2>3. mf \in Nat /\ mg \in Nat /\ mg <= mf
      BY <2>1, FS_CardinalityType
    <2>4. vf \in Nat /\ vg \in Nat /\ sizes[c + 1] \in Nat /\ vf <= vg
      <3>1. vf \in 0 .. sizes[c + 1] /\ vg \in 0 .. sizes[c + 1]
        BY <2>1, VotesAre
      <3>2. sizes[c + 1] \in Nat /\ vf <= vg
        BY <2>1, PointsAre
      <3> HIDE DEF vf, vg
      <3> QED BY <3>1, <3>2
    <2> HIDE DEF mf, mg, vf, vg
    <2>5. Cardinality(Misnamed(c + 1, g)) <= Cardinality(Misnamed(c + 1, f))
      <3>1. \A s, i, j, v, w \in Nat : i <= j /\ v <= w => i + (s - w) <= j + (s - v)
        OBVIOUS
      <3>2. mg + (sizes[c + 1] - vg) <= mf + (sizes[c + 1] - vf)
        BY <2>3, <2>4, <3>1
      <3> QED BY <2>2, <3>2
    <2> QED BY <2>1, <2>2, <2>5
  <1>4. N \in S
    <2> HIDE DEF S
    <2>1. \A k \in 0 .. N : k \in S
      BY <1>1, <1>2, <1>3, UpTo
    <2> QED BY <1>1, <2>1
  <1> QED BY <1>4 DEF N

(* No clusters, no points. *)
LEMMA NoPoints ==
  ASSUME sizes \in Seq(Nat), Len(sizes) = 0
  PROVE  Point = {}
PROOF
  <1>1. SumTo(sizes, 0) = 0
    BY SumIs
  <1>2. Total(sizes) = 0
    BY <1>1 DEF Total
  <1> QED BY <1>2 DEF Point

(* Every point belongs to a cluster: the first that ends after it. *)
LEMMA OrigLabelExists ==
  ASSUME sizes \in Seq(Nat), NEW p \in Point
  PROVE  OrigLabel(p) \in Cluster
PROOF
  <1> DEFINE N == Len(sizes)
             T == {k \in 1 .. N : p < SumTo(sizes, k)}
  <1>1. /\ N \in Nat /\ p \in Nat /\ SumTo(sizes, 0) = 0 /\ p < SumTo(sizes, N)
        /\ \A k \in 0 .. N : SumTo(sizes, k) \in Nat
    <2>1. N \in Nat
      BY LenProperties
    <2>2. SumTo(sizes, 0) = 0 /\ \A k \in 0 .. N : SumTo(sizes, k) \in Nat
      BY SumIs
    <2>3. SumTo(sizes, N) \in Nat
      BY <2>1, <2>2
    <2> QED BY <2>1, <2>2, <2>3 DEF Point, Total
  <1> HIDE DEF N
  <1>2. N \in T
    <2>1. N # 0
      BY <1>1
    <2> QED BY <1>1, <2>1
  <1>3. PICK m \in T : \A k \in T : m <= k
    <2>1. T \in SUBSET Nat
      OBVIOUS
    <2> HIDE DEF T
    <2> QED BY <1>2, <2>1, LeastElement
  <1>4. m \in 1 .. N /\ m - 1 \in 0 .. N /\ p < SumTo(sizes, m)
    BY <1>1, <1>3
  <1>5. SumTo(sizes, m - 1) <= p
    <2>1. CASE m = 1
      BY <1>1, <2>1
    <2>2. CASE m # 1
      <3>1. m - 1 \in 1 .. N /\ ~(m <= m - 1)
        BY <1>4, <2>2
      <3>2. ~(p < SumTo(sizes, m - 1))
        BY <1>3, <3>1
      <3>3. SumTo(sizes, m - 1) \in Nat
        BY <1>1, <1>4
      <3> QED BY <1>1, <3>2, <3>3
    <2> QED BY <2>1, <2>2
  <1>6. m - 1 \in Cluster /\ m - 1 + 1 = m
    BY <1>1, <1>4 DEF Cluster, N
  <1>7. p \in Points(m - 1)
    <2>1. SumTo(sizes, m - 1) \in Nat /\ SumTo(sizes, m) \in Nat
      BY <1>1, <1>4
    <2> QED BY <1>1, <1>4, <1>5, <1>6, <2>1 DEF Points
  <1> QED BY <1>6, <1>7, OrigLabelIs

(* Among several clusters, none of them empty, each has fewer points than   *)
(* there are.                                                               *)
LEMMA FewerThanTotal ==
  ASSUME sizes \in Seq(Nat), 0 \notin Range(sizes), NEW c \in Cluster
  PROVE  /\ sizes[c + 1] > 0
         /\ Total(sizes) \in Nat
         /\ Len(sizes) > 1 => sizes[c + 1] < Total(sizes)
         /\ Len(sizes) = 1 => sizes[c + 1] = Total(sizes)
PROOF
  <1> DEFINE N == Len(sizes)
  <1>1. /\ N \in Nat /\ c \in 0 .. N - 1
        /\ \A k \in 1 .. N : sizes[k] \in Nat /\ sizes[k] > 0
    <2>1. N \in Nat /\ Range(sizes) = {sizes[k] : k \in 1 .. N}
      BY LenProperties, RangeEquality
    <2>2. ASSUME NEW k \in 1 .. N PROVE sizes[k] \in Nat /\ sizes[k] > 0
      <3>1. sizes[k] \in Nat /\ sizes[k] # 0
        BY <2>1, ElementOfSeq
      <3> QED BY <3>1
    <2> QED BY <2>1, <2>2 DEF Cluster
  <1>2. /\ SumTo(sizes, 0) = 0 /\ Total(sizes) = SumTo(sizes, N)
        /\ \A k \in 1 .. N : SumTo(sizes, k) = SumTo(sizes, k - 1) + sizes[k]
        /\ \A k \in 0 .. N : SumTo(sizes, k) \in Nat
        /\ \A j \in 0 .. N : \A k \in j .. N : SumTo(sizes, j) <= SumTo(sizes, k)
    BY SumIs, SumGrows DEF Total
  <1> HIDE DEF N
  <1>3. c + 1 \in 1 .. N /\ sizes[c + 1] > 0 /\ Total(sizes) \in Nat
    BY <1>1, <1>2
  <1>4. /\ SumTo(sizes, c + 1) = SumTo(sizes, c) + sizes[c + 1]
        /\ SumTo(sizes, c) \in Nat /\ SumTo(sizes, c + 1) \in Nat /\ sizes[c + 1] \in Nat
        /\ SumTo(sizes, c + 1) <= Total(sizes)
    <2>1. c + 1 - 1 = c /\ c \in 0 .. N /\ c + 1 \in 0 .. N /\ N \in c + 1 .. N
      BY <1>1
    <2> QED BY <1>1, <1>2, <1>3, <2>1
  <1>5. CASE c > 0
    <2>1. 1 \in 1 .. N /\ 1 - 1 = 0 /\ 1 \in 0 .. N /\ c \in 1 .. N /\ N # 1
      BY <1>1, <1>5
    <2>2. SumTo(sizes, 1) = SumTo(sizes, 0) + sizes[1] /\ sizes[1] \in Nat /\ sizes[1] > 0
      BY <1>1, <1>2, <2>1
    <2>3. SumTo(sizes, 1) <= SumTo(sizes, c)
      BY <1>2, <2>1
    <2>4. SumTo(sizes, c) > 0
      BY <1>2, <1>4, <2>2, <2>3
    <2> QED BY <1>3, <1>4, <2>1, <2>4 DEF N
  <1>6. CASE c = 0 /\ N > 1
    <2>1. 2 \in 1 .. N /\ 2 - 1 = 1 /\ 2 \in 0 .. N /\ N \in 2 .. N /\ N # 1 /\ c + 1 = 1
      BY <1>1, <1>6
    <2>2. SumTo(sizes, 2) = SumTo(sizes, 1) + sizes[2] /\ sizes[2] \in Nat /\ sizes[2] > 0
      BY <1>1, <1>2, <2>1
    <2>3. SumTo(sizes, 2) <= Total(sizes) /\ SumTo(sizes, 2) \in Nat
      BY <1>2, <2>1
    <2>4. SumTo(sizes, 1) = sizes[c + 1] /\ sizes[c + 1] \in Nat
      BY <1>4, <1>6, <1>2, <2>1
    <2>5. sizes[c + 1] < Total(sizes)
      BY <1>3, <2>2, <2>3, <2>4
    <2> QED BY <1>3, <2>1, <2>5 DEF N
  <1>7. CASE c = 0 /\ N = 1
    <2>1. c + 1 = N /\ ~(N > 1)
      BY <1>7
    <2>2. Total(sizes) = sizes[c + 1]
      BY <1>2, <1>4, <1>7, <2>1
    <2> QED BY <1>3, <2>1, <2>2 DEF N
  <1> QED BY <1>1, <1>5, <1>6, <1>7

(* The points of each cluster have one label, which no others have.         *)
Tidy == Renamed /\ 0 \notin Range(sizes)

(* So all the votes in a cluster are for the one name it was given. *)
LEMMA TidyVotes ==
  ASSUME sizes \in Seq(Nat), Tidy
  PROVE  \E f \in [Cluster -> Cluster] :
           /\ \A c, d \in Cluster : f[c] = f[d] => c = d
           /\ \A p \in Point : labels[p] = f[OrigLabel(p)]
           /\ \A c \in Cluster :
                /\ \A p \in Points(c) : labels[p] = f[c]
                /\ Votes(c, f[c]) = sizes[c + 1]
                /\ \A l \in Cluster : Votes(c, l) > 0 => l = f[c]
PROOF
  <1>1. PICK f \in Bijection(Cluster, Cluster) : \A p \in Point : labels[p] = f[OrigLabel(p)]
    BY DEF Tidy, Renamed
  <1>2. f \in [Cluster -> Cluster] /\ \A c, d \in Cluster : f[c] = f[d] => c = d
    BY <1>1 DEF Bijection, Injection, IsInjective
  <1>3. ASSUME NEW c \in Cluster
        PROVE  /\ \A p \in Points(c) : labels[p] = f[c]
               /\ Votes(c, f[c]) = sizes[c + 1]
               /\ \A l \in Cluster : Votes(c, l) > 0 => l = f[c]
    <2>1. \A p \in Points(c) : labels[p] = f[c]
      BY <1>1, PointsAre, OrigLabelIs
    <2>2. Votes(c, f[c]) = sizes[c + 1]
      <3>1. {p \in Points(c) : labels[p] = f[c]} = Points(c)
        BY <2>1
      <3> QED BY <3>1, PointsAre DEF Votes
    <2>3. ASSUME NEW l \in Cluster, l # f[c] PROVE ~(Votes(c, l) > 0)
      <3>1. {p \in Points(c) : labels[p] = l} = {}
        BY <2>1, <2>3
      <3>2. Votes(c, l) = 0
        BY <3>1, FS_EmptySet DEF Votes
      <3> QED BY <3>2
    <2> QED BY <2>1, <2>2, <2>3
  <1> QED BY <1>1, <1>2, <1>3

(* The map holds names with the most votes for the clusters that were       *)
(* counted, and as many of them are in use, if none may be used twice.      *)
LabelsTypes ==
  /\ sizes \in Seq(Nat)
  /\ labels \in [Point -> 0 .. Len(sizes)]
  /\ labelsMap \in Seq(Cluster) /\ Len(labelsMap) <= Len(sizes)
  /\ buzy = {labelsMap[k] : k \in 1 .. Len(labelsMap)}
  /\ startIndex = SumTo(sizes, Len(labelsMap))
  /\ outcome \in {"running", "asserted", "true", "false"}
NoneTwice ==
  checkClusterUniq =>
    /\ \A j, k \in 1 .. Len(labelsMap) : labelsMap[j] = labelsMap[k] => j = k
    /\ Cardinality(buzy) = Len(labelsMap)
MostVotes ==
  \A k \in 1 .. Len(labelsMap) :
    \A l \in Cluster : Votes(k - 1, l) <= Votes(k - 1, labelsMap[k])
Ends ==
  /\ outcome # "false"
  /\ outcome = "true" => Point # {}
  /\ outcome = "true" /\ ~labelsEquivalent => Len(labelsMap) = Len(sizes) /\ err.wrong = Wrong

(* Tidy labels stop the call only if there is a single cluster.             *)
TidyPasses ==
  Tidy /\ ~labelsEquivalent =>
    /\ Len(sizes) > 1 => outcome # "asserted"
    /\ Len(sizes) = 1 => labelsMap = <<>>
LabelsInv == LabelsTypes /\ NoneTwice /\ MostVotes /\ Ends /\ TidyPasses

(* Where the counts have a bound there is a first of the largest. *)
LEMMA LargestCount ==
  ASSUME NEW k \in Nat \ {0}, Len(sizes) = k,
         NEW bound \in Nat, NEW count \in [Cluster -> 0 .. bound]
  PROVE  maxIdx(count) \in Cluster /\ \A d \in Cluster : count[d] <= count[maxIdx(count)]
PROOF
  <1> DEFINE S == {bound - count[c] : c \in Cluster}
             T == {c \in Cluster : \A d \in Cluster : count[d] <= count[c]}
  <1>1. Cluster = 0 .. k - 1 /\ 0 \in Cluster
    BY DEF Cluster
  <1>2. S \in SUBSET Nat /\ S # {}
    BY <1>1
  <1>3. PICK x \in S : \A y \in S : x <= y
    <2> HIDE DEF S
    <2> QED BY <1>2, LeastElement
  <1>4. PICK c \in Cluster : x = bound - count[c]
    BY <1>3
  <1>5. c \in T
    <2>1. ASSUME NEW d \in Cluster PROVE count[d] <= count[c]
      <3>1. bound - count[c] <= bound - count[d]
        BY <1>3, <1>4
      <3>2. count[c] \in Int /\ count[d] \in Int
        BY <1>4
      <3> QED BY <3>1, <3>2
    <2> QED BY <1>4, <2>1
  <1>6. T \in SUBSET Nat
    BY <1>1
  <1>7. PICK m \in T : \A n \in T : m <= n
    <2> HIDE DEF T
    <2> QED BY <1>5, <1>6, LeastElement
  <1>8. m \in Cluster /\ \A d \in Cluster : count[d] <= count[m]
    BY <1>7
  <1>9. ASSUME NEW d \in Cluster, d < m PROVE count[d] < count[m]
    <2>1. d \in Nat /\ m \in Nat
      BY <1>1, <1>8
    <2>2. d \notin T
      BY <1>7, <1>9, <2>1
    <2>3. PICK e \in Cluster : ~(count[e] <= count[d])
      BY <2>2
    <2>4. count[e] <= count[m] /\ count[e] \in Int /\ count[d] \in Int /\ count[m] \in Int
      BY <1>8, <2>3
    <2> QED BY <2>3, <2>4
  <1> DEFINE IsFirst(n) == \A d \in Cluster : count[d] <= count[n] /\ (d < n => count[d] < count[n])
  <1>10. m \in Cluster /\ IsFirst(m)
    BY <1>8, <1>9
  <1>11. maxIdx(count) = CHOOSE n \in Cluster : IsFirst(n)
    BY DEF maxIdx
  <1>12. maxIdx(count) \in Cluster /\ IsFirst(maxIdx(count))
    <2> HIDE DEF IsFirst
    <2> QED BY <1>10, <1>11
  <1> QED BY <1>12

(* What the loop counts for the next cluster. *)
LEMMA CountIs ==
  ASSUME LabelsTypes, NEW c \in Cluster, c = Len(labelsMap)
  PROVE  /\ Block(c) = Points(c)
         /\ \A l \in Cluster : Count(c)[l] = Votes(c, l)
         /\ maxIdx(Count(c)) \in Cluster
         /\ \A l \in Cluster : Votes(c, l) <= Votes(c, maxIdx(Count(c)))
PROOF
  <1>1. /\ sizes \in Seq(Nat) /\ c + 1 \in 1 .. Len(sizes)
        /\ SumTo(sizes, c + 1) = SumTo(sizes, c) + sizes[c + 1]
        /\ startIndex = SumTo(sizes, c) /\ Len(sizes) \in Nat
    BY PointsAre, LenProperties DEF LabelsTypes
  <1>2. Block(c) = Points(c)
    <2>1. SumTo(sizes, c) \in Nat /\ sizes[c + 1] \in Nat
      BY <1>1, PointsAre
    <2>2. SumTo(sizes, c) + sizes[c + 1] - 1 = SumTo(sizes, c + 1) - 1
      BY <1>1, <2>1
    <2> QED BY <1>1, <2>1, <2>2 DEF Block, Points
  <1>3. /\ Count(c) = [l \in Cluster |-> Votes(c, l)]
        /\ \A l \in Cluster : Count(c)[l] = Votes(c, l)
    BY <1>2 DEF Count, Votes
  <1>4. PICK bound \in Nat : bound = sizes[c + 1]
    BY <1>1, PointsAre
  <1>5. Count(c) \in [Cluster -> 0 .. bound]
    <2>1. \A l \in Cluster : Votes(c, l) \in 0 .. bound
      BY <1>1, <1>4, VotesAre
    <2> QED BY <1>3, <2>1
  <1>6. PICK count \in [Cluster -> 0 .. bound] : count = Count(c)
    BY <1>5
  <1>7. PICK k \in Nat \ {0} : k = Len(sizes)
    BY <1>1
  <1>8. maxIdx(count) \in Cluster /\ \A d \in Cluster : count[d] <= count[maxIdx(count)]
    BY <1>7, LargestCount
  <1> QED BY <1>2, <1>3, <1>6, <1>8

(* Tidy labels are counted for one name only, which is not in use yet.      *)
LEMMA TidyCounts ==
  ASSUME LabelsTypes, MostVotes, Tidy, NEW c \in Cluster, c = Len(labelsMap)
  PROVE  /\ Len(sizes) > 1 => Valid(c) /\ maxIdx(Count(c)) \notin buzy
         /\ Len(sizes) = 1 => ~Valid(c)
PROOF
  <1>1. sizes \in Seq(Nat) /\ 0 \notin Range(sizes) /\ c \in Nat /\ Len(sizes) \in Nat
    BY PointsAre, LenProperties DEF LabelsTypes, Tidy
  <1>2. PICK f \in [Cluster -> Cluster] :
          /\ \A b, d \in Cluster : f[b] = f[d] => b = d
          /\ \A b \in Cluster :
               /\ \A p \in Points(b) : labels[p] = f[b]
               /\ Votes(b, f[b]) = sizes[b + 1]
               /\ \A l \in Cluster : Votes(b, l) > 0 => l = f[b]
    BY <1>1, TidyVotes
  <1>3. \A b \in Cluster : f[b] \in Cluster
    OBVIOUS
  <1>4. ASSUME NEW b \in Cluster, NEW n \in Cluster,
               \A l \in Cluster : Votes(b, l) <= Votes(b, n)
        PROVE  n = f[b]
    <2>1. Votes(b, f[b]) <= Votes(b, n)
      BY <1>3, <1>4
    <2>3. Votes(b, f[b]) > 0
      <3>1. sizes[b + 1] > 0
        BY <1>1, FewerThanTotal
      <3> QED BY <1>2, <3>1
    <2>2. Votes(b, f[b]) \in Int /\ Votes(b, n) \in Int
      <3>1. /\ sizes[b + 1] \in Nat
            /\ Votes(b, f[b]) \in 0 .. sizes[b + 1] /\ Votes(b, n) \in 0 .. sizes[b + 1]
        BY <1>1, PointsAre, VotesAre
      <3> QED BY <3>1
    <2> QED BY <1>2, <2>1, <2>2, <2>3
  <1>5. maxIdx(Count(c)) = f[c]
    BY <1>4, CountIs
  <1>6. f[c] \notin buzy
    <2> SUFFICES ASSUME f[c] \in buzy PROVE FALSE
      OBVIOUS
    <2>1. PICK k \in 1 .. c : f[c] = labelsMap[k]
      BY DEF LabelsTypes
    <2>2. k - 1 \in Cluster /\ k - 1 # c
      BY <1>1 DEF Cluster
    <2>3. labelsMap[k] \in Cluster
      BY <1>3, <2>1
    <2>4. \A l \in Cluster : Votes(k - 1, l) <= Votes(k - 1, labelsMap[k])
      BY DEF MostVotes
    <2>5. labelsMap[k] = f[k - 1]
      BY <1>4, <2>2, <2>3, <2>4
    <2> QED BY <1>2, <2>1, <2>2, <2>5
  <1>7. ASSUME Len(sizes) > 1 PROVE Valid(c)
    <2>1. ASSUME NEW p \in Block(c) PROVE labels[p] < Len(sizes)
      <3>1. labels[p] = f[c]
        BY <1>2, <2>1, CountIs
      <3> QED BY <1>1, <1>3, <3>1 DEF Cluster
    <2>2. ASSUME NEW l \in Cluster PROVE Count(c)[l] < Total(sizes)
      <3>1. Count(c)[l] = Votes(c, l)
        BY CountIs
      <3>2. Votes(c, l) \in 0 .. sizes[c + 1] /\ sizes[c + 1] \in Nat
        BY <1>1, VotesAre, PointsAre
      <3>3. sizes[c + 1] < Total(sizes) /\ Total(sizes) \in Nat
        BY <1>1, <1>7, FewerThanTotal
      <3> QED BY <3>1, <3>2, <3>3
    <2> QED BY <2>1, <2>2 DEF Valid
  <1>8. ASSUME Len(sizes) = 1 PROVE ~Valid(c)
    <2>1. Count(c)[f[c]] = sizes[c + 1]
      BY <1>2, <1>3, CountIs
    <2>2. sizes[c + 1] = Total(sizes) /\ Total(sizes) \in Nat
      BY <1>1, <1>8, FewerThanTotal
    <2>3. ~(Count(c)[f[c]] < Total(sizes))
      BY <2>1, <2>2
    <2> QED BY <1>3, <2>3 DEF Valid
  <1> QED BY <1>5, <1>6, <1>7, <1>8

(* What the arguments say of the points stays as it is. *)
LEMMA SamePoints ==
  ASSUME sizes' = sizes, labels' = labels
  PROVE  /\ Cluster' = Cluster /\ Point' = Point
         /\ \A p : OrigLabel(p)' = OrigLabel(p)
         /\ Tidy' <=> Tidy
PROOF
  <1>1. Cluster' = Cluster /\ Point' = Point /\ \A c : Points(c)' = Points(c)
    BY DEF Cluster, Point, Points
  <1>2. \A p : OrigLabel(p)' = OrigLabel(p)
    BY <1>1 DEF OrigLabel
  <1>3. Tidy' <=> Tidy
    BY <1>1, <1>2 DEF Tidy, Renamed
  <1> QED BY <1>1, <1>2, <1>3

(* As long as the map is the same, what it holds is. *)
LEMMA SameMap ==
  ASSUME LabelsInv, UNCHANGED <<sizes, labels, checkClusterUniq, labelsMap, buzy, startIndex>>,
         outcome' \in {"running", "asserted", "true", "false"}
  PROVE  LabelsTypes' /\ NoneTwice' /\ MostVotes'
PROOF
  <1>1. Cluster' = Cluster /\ Point' = Point
    BY SamePoints
  <1>2. LabelsTypes'
    BY <1>1 DEF LabelsInv, LabelsTypes
  <1>3. NoneTwice'
    BY DEF LabelsInv, NoneTwice
  <1>4. MostVotes'
    BY <1>1 DEF LabelsInv, MostVotes, Votes, Points
  <1> QED BY <1>2, <1>3, <1>4

(* Without points there are no two clusters that are not empty. *)
LEMMA NoLabelsKeeps ==
  ASSUME LabelsInv, NoLabels
  PROVE  LabelsInv'
PROOF
  <1>1. /\ Point = {} /\ outcome' = "asserted" /\ labelsEquivalent' = labelsEquivalent
        /\ UNCHANGED <<sizes, labels, checkClusterUniq, labelsMap, buzy, startIndex>>
    BY DEF NoLabels
  <1>2. LabelsTypes' /\ NoneTwice' /\ MostVotes' /\ Ends'
    BY <1>1, SameMap DEF Ends
  <1>3. TidyPasses'
    <2>1. ASSUME Tidy, Len(sizes) > 1 PROVE FALSE
      <3>1. sizes \in Seq(Nat) /\ 0 \notin Range(sizes) /\ Len(sizes) \in Nat
        BY <2>1, LenProperties DEF LabelsInv, LabelsTypes, Tidy
      <3>2. 0 \in Cluster
        BY <2>1, <3>1 DEF Cluster
      <3>3. Total(sizes) \in Nat /\ sizes[0 + 1] > 0 /\ sizes[0 + 1] < Total(sizes)
        BY <2>1, <3>1, <3>2, FewerThanTotal
      <3>4. sizes[0 + 1] \in Nat
        BY <3>1, <3>2, PointsAre
      <3>5. 0 \in Point
        BY <3>3, <3>4 DEF Point
      <3> QED BY <1>1, <3>5
    <2>2. Tidy' <=> Tidy
      BY <1>1, SamePoints
    <2> QED BY <1>1, <2>1, <2>2 DEF LabelsInv, TidyPasses
  <1> QED BY <1>2, <1>3 DEF LabelsInv

(* A cluster is named, or an assertion stops the call. *)
LEMMA MapClusterKeeps ==
  ASSUME LabelsInv, MapCluster
  PROVE  LabelsInv'
PROOF
  <1> DEFINE c == Len(labelsMap)
             cls == maxIdx(Count(c))
  <1>1. /\ sizes' = sizes /\ labels' = labels /\ checkClusterUniq' = checkClusterUniq
        /\ labelsEquivalent' = labelsEquivalent /\ ~labelsEquivalent
        /\ outcome = "running" /\ c < Len(sizes)
    BY DEF MapCluster
  <1>2. /\ sizes \in Seq(Nat) /\ labelsMap \in Seq(Cluster)
        /\ c \in Nat /\ Len(sizes) \in Nat /\ c \in Cluster
    <2>1. sizes \in Seq(Nat) /\ labelsMap \in Seq(Cluster)
      BY DEF LabelsInv, LabelsTypes
    <2>2. c \in Nat /\ Len(sizes) \in Nat
      BY <2>1, LenProperties
    <2> QED BY <1>1, <2>1, <2>2 DEF Cluster
  <1>3. Cluster' = Cluster /\ Point' = Point /\ (Tidy' <=> Tidy)
    BY <1>1, SamePoints
  <1>4. /\ cls \in Cluster
        /\ \A l \in Cluster : Votes(c, l) <= Votes(c, cls)
        /\ Tidy => /\ Len(sizes) > 1 => Valid(c) /\ cls \notin buzy
                   /\ Len(sizes) = 1 => ~Valid(c)
    <2>1. LabelsTypes /\ MostVotes
      BY DEF LabelsInv
    <2> QED BY <1>2, <2>1, CountIs, TidyCounts
  <1>5. CASE Valid(c) /\ MayTake(cls)
    <2>1. /\ labelsMap' = Append(labelsMap, cls) /\ buzy' = buzy \cup {cls}
          /\ startIndex' = startIndex + sizes[c + 1] /\ outcome' = outcome
      BY <1>5 DEF MapCluster
    <2> HIDE DEF cls
    <2>2. /\ labelsMap' \in Seq(Cluster) /\ Len(labelsMap') = c + 1
          /\ \A k \in 1 .. c : labelsMap'[k] = labelsMap[k]
          /\ labelsMap'[c + 1] = cls
      BY <1>2, <1>4, <2>1, AppendProperties
    <2>3. \A k \in 1 .. c + 1 : k \in 1 .. c \/ k = c + 1
      BY <1>2
    <2>4. buzy = {labelsMap[k] : k \in 1 .. c}
      BY DEF LabelsInv, LabelsTypes
    <2> HIDE DEF c
    <2>5. buzy' = {labelsMap'[k] : k \in 1 .. c + 1}
      <3>1. \A k \in 1 .. c : k \in 1 .. c + 1 /\ labelsMap'[k] = labelsMap[k]
        BY <1>2, <2>2
      <3>2. c + 1 \in 1 .. c + 1
        BY <1>2
      <3> QED BY <2>1, <2>2, <2>3, <2>4, <3>1, <3>2
    <2>6. startIndex' = SumTo(sizes, c + 1)
      <3>1. startIndex = SumTo(sizes, c)
        BY DEF LabelsInv, LabelsTypes, c
      <3> QED BY <1>2, <2>1, <3>1, PointsAre
    <2>7. LabelsTypes'
      <3>1. labels' \in [Point -> 0 .. Len(sizes)] /\ outcome' \in {"running", "asserted", "true", "false"}
        BY <1>1, <2>1 DEF LabelsInv, LabelsTypes
      <3>2. Len(labelsMap') <= Len(sizes)
        BY <1>1, <1>2, <2>2 DEF c
      <3> QED BY <1>1, <1>2, <1>3, <2>2, <2>5, <2>6, <3>1, <3>2 DEF LabelsTypes
    <2>8. NoneTwice'
      <3> SUFFICES ASSUME checkClusterUniq
                   PROVE  /\ \A j, k \in 1 .. c + 1 : labelsMap'[j] = labelsMap'[k] => j = k
                          /\ Cardinality(buzy') = c + 1
        BY <1>1, <2>2 DEF NoneTwice
      <3>1. cls \notin buzy
        BY <1>5 DEF MayTake
      <3>2. /\ \A j, k \in 1 .. c : labelsMap[j] = labelsMap[k] => j = k
            /\ Cardinality(buzy) = c
        BY DEF LabelsInv, NoneTwice, c
      <3>3. \A k \in 1 .. c : labelsMap'[k] # cls
        BY <2>2, <2>4, <3>1
      <3>4. \A j, k \in 1 .. c + 1 : labelsMap'[j] = labelsMap'[k] => j = k
        BY <2>2, <2>3, <3>2, <3>3
      <3>5. IsFiniteSet(buzy)
        <4>1. IsFiniteSet(Cluster)
          BY <1>2, FS_Interval DEF Cluster
        <4>2. buzy \subseteq Cluster
          BY <1>2, <2>4, ElementOfSeq DEF c
        <4> QED BY <4>1, <4>2, FS_Subset
      <3>6. Cardinality(buzy') = Cardinality(buzy) + 1
        BY <2>1, <3>1, <3>5, FS_AddElement
      <3> QED BY <3>2, <3>4, <3>6
    <2>9. MostVotes'
      <3>1. ASSUME NEW k \in 1 .. c + 1, NEW l \in Cluster
            PROVE  Votes(k - 1, l) <= Votes(k - 1, labelsMap'[k])
        <4>1. CASE k \in 1 .. c
          BY <2>2, <4>1 DEF LabelsInv, MostVotes, c
        <4>2. CASE k = c + 1
          <5>1. k - 1 = c
            BY <1>2, <4>2
          <5> QED BY <1>4, <2>2, <4>2, <5>1
        <4> QED BY <2>3, <4>1, <4>2
      <3> QED BY <1>1, <1>3, <2>2, <3>1 DEF MostVotes, Votes, Points
    <2>10. Ends'
      BY <1>1, <2>1 DEF Ends
    <2>11. TidyPasses'
      BY <1>1, <1>3, <1>4, <1>5, <2>1 DEF TidyPasses
    <2> QED BY <2>7, <2>8, <2>9, <2>10, <2>11 DEF LabelsInv
  <1>6. CASE ~(Valid(c) /\ MayTake(cls))
    <2>1. /\ outcome' = "asserted"
          /\ labelsMap' = labelsMap /\ buzy' = buzy /\ startIndex' = startIndex
      BY <1>6 DEF MapCluster
    <2>2. LabelsTypes' /\ NoneTwice' /\ MostVotes' /\ Ends'
      BY <1>1, <2>1, SameMap DEF Ends
    <2>3. TidyPasses'
      <3>1. ~(Tidy /\ Len(sizes) > 1)
        BY <1>4, <1>6 DEF MayTake
      <3> QED BY <1>1, <1>3, <2>1, <3>1 DEF LabelsInv, TidyPasses
    <2> QED BY <2>2, <2>3 DEF LabelsInv
  <1> QED BY <1>5, <1>6

(* All clusters are in use when the map is complete, so the check for that  *)
(* passes.                                                                  *)
LEMMA CalcErrKeeps ==
  ASSUME LabelsInv, CalcErr
  PROVE  LabelsInv'
PROOF
  <1>1. /\ UNCHANGED <<sizes, labels, asRow, labelsEquivalent, checkClusterUniq, labelsMap,
                       buzy, startIndex>>
        /\ Point # {}
        /\ labelsEquivalent \/ Len(labelsMap) = Len(sizes)
        /\ \/ outcome' = "true" /\ err'.wrong = Wrong
           \/ ~labelsEquivalent /\ checkClusterUniq /\ buzy # Cluster
    BY DEF CalcErr
  <1>2. ~labelsEquivalent /\ checkClusterUniq => buzy = Cluster
    <2> SUFFICES ASSUME ~labelsEquivalent, checkClusterUniq PROVE buzy = Cluster
      OBVIOUS
    <2>1. /\ Len(sizes) \in Nat /\ labelsMap \in Seq(Cluster)
          /\ buzy = {labelsMap[k] : k \in 1 .. Len(labelsMap)}
      BY LenProperties DEF LabelsInv, LabelsTypes
    <2>2. IsFiniteSet(Cluster) /\ Cardinality(Cluster) = Len(sizes)
      <3>1. PICK k \in Nat : k = Len(sizes)
        BY <2>1
      <3>2. 0 \in Int /\ k - 1 \in Int
        OBVIOUS
      <3>3. /\ IsFiniteSet(0 .. k - 1)
            /\ Cardinality(0 .. k - 1) = IF 0 > k - 1 THEN 0 ELSE k - 1 - 0 + 1
        BY <3>2, FS_Interval
      <3>4. (IF 0 > k - 1 THEN 0 ELSE k - 1 - 0 + 1) = k
        OBVIOUS
      <3> QED BY <3>1, <3>3, <3>4 DEF Cluster
    <2>3. buzy \subseteq Cluster
      BY <2>1, ElementOfSeq
    <2>4. Cardinality(buzy) = Cardinality(Cluster)
      BY <1>1, <2>2 DEF LabelsInv, NoneTwice
    <2> QED BY <2>2, <2>3, <2>4, FS_Subset
  <1>3. outcome' = "true" /\ err'.wrong = Wrong
    BY <1>1, <1>2
  <1>4. LabelsTypes' /\ NoneTwice' /\ MostVotes'
    BY <1>1, <1>3, SameMap
  <1>5. Ends'
    <2>1. Point' = Point /\ \A p : OrigLabel(p)' = OrigLabel(p)
      BY <1>1, SamePoints
    <2>2. Wrong' = Wrong
      BY <1>1, <2>1 DEF Wrong, Expected, Compared, Rows
    <2> QED BY <1>1, <1>3, <2>1, <2>2 DEF Ends
  <1>6. TidyPasses'
    BY <1>1, <1>3, SamePoints DEF LabelsInv, TidyPasses
  <1> QED BY <1>4, <1>5, <1>6 DEF LabelsInv

(* No step of calcErr ends it. *)
LEMMA LabelsKept ==
  ASSUME LabelsInv, [LabelsNext]_labelsVars
  PROVE  LabelsInv'
PROOF
  <1>1. CASE UNCHANGED labelsVars
    <2>1. /\ UNCHANGED <<sizes, labels, asRow, labelsEquivalent, checkClusterUniq,
                         labelsMap, buzy, startIndex>>
          /\ outcome' = outcome /\ err' = err
      BY <1>1 DEF labelsVars
    <2>2. LabelsTypes' /\ NoneTwice' /\ MostVotes'
      <3>1. outcome' \in {"running", "asserted", "true", "false"}
        BY <2>1 DEF LabelsInv, LabelsTypes
      <3> QED BY <2>1, <3>1, SameMap
    <2>3. Point' = Point /\ (\A p : OrigLabel(p)' = OrigLabel(p)) /\ (Tidy' <=> Tidy)
      BY <2>1, SamePoints
    <2>4. Wrong' = Wrong
      BY <2>1, <2>3 DEF Wrong, Expected, Compared, Rows
    <2>5. Ends' /\ TidyPasses'
      BY <2>1, <2>3, <2>4 DEF LabelsInv, Ends, TidyPasses
    <2> QED BY <2>2, <2>5 DEF LabelsInv
  <1> QED BY <1>1, NoLabelsKeeps, MapClusterKeeps, CalcErrKeeps DEF LabelsNext

(* An empty map agrees with everything. *)
LEMMA LabelsInvInit ==
  ASSUME sizes \in Seq(Nat), labels \in [Point -> 0 .. Len(sizes)],
         labelsMap = <<>>, buzy = {}, startIndex = 0, outcome = "running"
  PROVE  LabelsInv
PROOF
  <1>1. /\ labelsMap \in Seq(Cluster) /\ Len(labelsMap) = 0 /\ Cardinality(buzy) = 0
        /\ Len(sizes) \in Nat /\ SumTo(sizes, 0) = 0
    BY EmptySeq, FS_EmptySet, LenProperties, SumIs
  <1>2. 1 .. Len(labelsMap) = {}
    BY <1>1
  <1>3. LabelsTypes
    BY <1>1, <1>2 DEF LabelsTypes
  <1>4. NoneTwice /\ MostVotes /\ Ends /\ TidyPasses
    BY <1>1, <1>2 DEF NoneTwice, MostVotes, Ends, TidyPasses
  <1> QED BY <1>3, <1>4 DEF LabelsInv

(* A call of calcErr starts with such a map, and so does another call. *)
LEMMA LabelsStartInv == LabelsStart \/ LabelsIdle => LabelsInv
PROOF
  <1>1. ASSUME LabelsStart PROVE LabelsInv
    BY <1>1, LabelsInvInit, SizesAssumption DEF LabelsStart
  <1>2. ASSUME LabelsIdle PROVE LabelsInv
    <2>1. sizes = <<>> /\ labels = <<>>
      BY <1>2 DEF LabelsIdle
    <2>2. sizes \in Seq(Nat) /\ Len(sizes) = 0
      BY <2>1, EmptySeq
    <2>3. Point = {}
      BY <2>2, NoPoints
    <2>4. labels \in [Point -> 0 .. Len(sizes)]
      <3>1. <<>> \in Seq(0 .. Len(sizes)) /\ Len(<<>>) = 0 /\ 1 .. 0 = {}
        BY EmptySeq
      <3>2. <<>> \in [1 .. 0 -> 0 .. Len(sizes)]
        BY <3>1, LenProperties
      <3> QED BY <2>1, <2>3, <3>1, <3>2
    <2> QED BY <1>2, <2>2, <2>4, LabelsInvInit DEF LabelsIdle
  <1> QED BY <1>1, <1>2

(* The points whose cluster has another name in the map, and those of them  *)
(* that calcErr counts: all, if labels is a column.  No names have fewer.   *)
Differing == {p \in Point : labels[p] # Expected(p)}
LEMMA ErrIsFewest ==
  ASSUME LabelsInv, outcome = "true", ~labelsEquivalent
  PROVE  /\ IsFiniteSet(Differing) /\ Len(labelsMap) = Len(sizes)
         /\ checkClusterUniq => IsInjective(labelsMap)
         /\ err.wrong = Wrong /\ (~asRow => err.wrong = Cardinality(Differing))
         /\ \A f \in [Cluster -> Cluster] :
              Cardinality(Differing) <= Cardinality({p \in Point : labels[p] # f[OrigLabel(p)]})
PROOF
  <1>1. /\ sizes \in Seq(Nat) /\ labelsMap \in Seq(Cluster)
        /\ Len(labelsMap) = Len(sizes) /\ err.wrong = Wrong
    BY DEF LabelsInv, LabelsTypes, Ends
  <1>2. Len(sizes) \in Nat /\ DOMAIN labelsMap = 1 .. Len(sizes)
    BY <1>1, LenProperties
  <1>3. checkClusterUniq => IsInjective(labelsMap)
    BY <1>1, <1>2 DEF LabelsInv, NoneTwice, IsInjective
  <1> DEFINE m == [c \in Cluster |-> labelsMap[c + 1]]
  <1>4. \A h : Misnamed(Len(sizes), h) = {p \in Point : labels[p] # h[OrigLabel(p)]}
    BY DEF Misnamed, Point, Total
  <1>5. Differing = Misnamed(Len(sizes), m)
    <2>1. \A p \in Point : Expected(p) = m[OrigLabel(p)]
      BY <1>1, OrigLabelExists DEF Expected
    <2> HIDE DEF m
    <2> QED BY <1>4, <2>1 DEF Differing
  <1>6. \A c, l \in Cluster : Votes(c, l) <= Votes(c, m[c])
    <2>1. ASSUME NEW c \in Cluster, NEW l \in Cluster PROVE Votes(c, l) <= Votes(c, m[c])
      <3>1. PICK k \in 1 .. Len(labelsMap) : k = c + 1 /\ k - 1 = c
        BY <1>1, <1>2 DEF Cluster
      <3>2. m[c] = labelsMap[c + 1]
        OBVIOUS
      <3>3. Votes(k - 1, l) <= Votes(k - 1, labelsMap[k])
        BY DEF LabelsInv, MostVotes
      <3> HIDE DEF m
      <3> QED BY <3>1, <3>2, <3>3
    <2> QED BY <2>1
  <1>7. ASSUME NEW f \in [Cluster -> Cluster]
        PROVE  /\ IsFiniteSet(Misnamed(Len(sizes), m))
               /\ Cardinality(Differing)
                    <= Cardinality({p \in Point : labels[p] # f[OrigLabel(p)]})
    <2> HIDE DEF m
    <2>1. \A c \in Cluster : Votes(c, f[c]) <= Votes(c, m[c])
      BY <1>6
    <2>2. /\ IsFiniteSet(Misnamed(Len(sizes), m))
          /\ Cardinality(Misnamed(Len(sizes), m)) <= Cardinality(Misnamed(Len(sizes), f))
      BY <1>1, <2>1, FewestMisnamed
    <2>3. Misnamed(Len(sizes), f) = {p \in Point : labels[p] # f[OrigLabel(p)]}
      BY <1>4
    <2> QED BY <1>5, <2>2, <2>3
  <1>8. IsFiniteSet(Differing)
    <2> DEFINE id == [c \in Cluster |-> c]
    <2>1. id \in [Cluster -> Cluster]
      OBVIOUS
    <2> HIDE DEF id, m
    <2> QED BY <1>5, <1>7, <2>1
  <1>9. ~asRow => err.wrong = Cardinality(Differing)
    BY <1>1 DEF Wrong, Differing, Compared, Rows, Point
  <1> QED BY <1>1, <1>3, <1>7, <1>8, <1>9

(* That is what is asked of the errors. *)
LEMMA InvErrIsLeast == LabelsInv => ErrIsLeast
PROOF
  <1> SUFFICES ASSUME LabelsInv, outcome = "true", ~labelsEquivalent
               PROVE  /\ checkClusterUniq => IsInjective(labelsMap)
                      /\ ~asRow => \A f \in [Cluster -> Cluster] :
                           err.wrong <= Cardinality({p \in Point : labels[p] # f[OrigLabel(p)]})
    BY DEF ErrIsLeast
  <1> QED BY ErrIsFewest

(* The one renaming of tidy labels has no errors, so the fewest are none. *)
LEMMA InvPerfectPasses == LabelsInv => PerfectPasses
PROOF
  <1> SUFFICES ASSUME LabelsInv, outcome # "running", ~labelsEquivalent, Tidy
               PROVE  IF Len(sizes) > 1 THEN outcome = "true" /\ err.wrong = 0
                      ELSE outcome = "asserted"
    BY DEF PerfectPasses, Tidy
  <1>1. /\ sizes \in Seq(Nat) /\ Len(sizes) \in Nat
        /\ outcome \in {"asserted", "true"}
        /\ Len(sizes) > 1 => outcome # "asserted"
        /\ Len(sizes) = 1 => labelsMap = <<>>
        /\ outcome = "true" => Point # {} /\ Len(labelsMap) = Len(sizes)
    <2>1. sizes \in Seq(Nat) /\ outcome \in {"asserted", "true"}
      BY DEF LabelsInv, LabelsTypes, Ends
    <2> QED BY <2>1, LenProperties DEF LabelsInv, Ends, TidyPasses
  <1>2. CASE Len(sizes) > 1
    <2>1. outcome = "true"
      BY <1>1, <1>2
    <2>2. PICK f \in [Cluster -> Cluster] : \A p \in Point : labels[p] = f[OrigLabel(p)]
      BY <1>1, TidyVotes
    <2>3. {p \in Point : labels[p] # f[OrigLabel(p)]} = {}
      BY <2>2
    <2>4. /\ IsFiniteSet(Differing) /\ err.wrong = Wrong
          /\ Cardinality(Differing) <= Cardinality({p \in Point : labels[p] # f[OrigLabel(p)]})
      BY <2>1, <2>2, ErrIsFewest
    <2>5. Cardinality(Differing) \in Nat /\ Cardinality(Differing) <= 0
      BY <2>3, <2>4, FS_EmptySet, FS_CardinalityType
    <2>6. Differing = {}
      <3>1. Cardinality(Differing) = 0
        BY <2>5
      <3> QED BY <2>4, <3>1, FS_EmptySet
    <2>7. Compared \subseteq Point
      <3>1. Total(sizes) \in Nat
        BY <1>1, SumIs DEF Total
      <3> QED BY <1>1, <2>1, <3>1 DEF Compared, Rows, Point
    <2>8. {p \in Compared : labels[p] # Expected(p)} = {}
      BY <2>6, <2>7 DEF Differing
    <2>9. Wrong = 0
      BY <2>8, FS_EmptySet DEF Wrong
    <2> QED BY <1>2, <2>1, <2>4, <2>9
  <1>3. CASE ~(Len(sizes) > 1)
    <2> SUFFICES ASSUME outcome = "true" PROVE FALSE
      BY <1>1, <1>3
    <2>1. CASE Len(sizes) = 1
      <3>1. Len(labelsMap) = 0
        BY <1>1, <2>1, EmptySeq
      <3> QED BY <1>1, <2>1, <3>1
    <2>2. CASE Len(sizes) = 0
      <3>1. Point = {}
        BY <1>1, <2>2, NoPoints
      <3> QED BY <1>1, <3>1
    <2> QED BY <1>1, <1>3, <2>1, <2>2
  <1> QED BY <1>2, <1>3

(* The check for unused labels has no say. *)
LEMMA InvNeverFalse == LabelsInv => NeverFalse
PROOF BY DEF LabelsInv, Ends, NeverFalse

-----------------------------------------------------------------------------
(* test_opencv_knn_predict. *)

(* The image that belongs in a row, and how many images are read before     *)
(* those of a table.                                                        *)
Own(t, r) == <<r \div PerDigit, (r % PerDigit) + First(t)>>
Before(t) == IF t = "train" THEN 0 ELSE Samples

(* A row holds its image once that is read, if it has the table's width,    *)
(* and nothing before.                                                      *)
Holds(t, r) == Before(t) + r < loaded /\ SizeOf(Own(t, r)) = width[t]
RowsHold ==
  \A t \in Table, r \in 0 .. Samples - 1 :
    data[t][r] = IF Holds(t, r) THEN Own(t, r) ELSE Unwritten

ImagesTypes ==
  /\ size \in [0 .. Digits - 1 -> [1 .. 2 * PerDigit -> Nat]]
  /\ loaded \in 0 .. 2 * Samples
  /\ width \in [Table -> Nat]
  /\ data \in [Table -> [0 .. Samples - 1 -> (Int \X Int) \cup {Unwritten}]]

WidthsAgree ==
  /\ width["train"] = size[0][1]
  /\ result = "predicted" => loaded = 2 * Samples /\ width["predict"] = width["train"]

ImagesInv == ImagesTypes /\ RowsHold /\ WidthsAgree

(* Division by the number of images of a digit. *)
LEMMA Divided ==
  ASSUME NEW P \in Nat \ {0}, NEW x \in Nat
  PROVE  x \div P \in Nat /\ x % P \in 0 .. P - 1 /\ x = P * (x \div P) + (x % P)
PROOF OBVIOUS

(* The images of one round, and the same numbers a round later. *)
LEMMA Rounds ==
  ASSUME NEW x \in 0 .. Samples - 1
  PROVE  /\ x \div PerDigit \in 0 .. Digits - 1
         /\ x % Samples = x /\ (Samples + x) % Samples = x
         /\ (Samples + x) % PerDigit = x % PerDigit
PROOF
  <1>1. /\ x \in Nat /\ Samples \in Nat \ {0} /\ Samples = Digits * PerDigit
        /\ PerDigit \in Nat \ {0} /\ Digits \in Nat \ {0}
    BY ImagesAssumption DEF Samples
  <1>2. x % Samples = x /\ (Samples + x) % Samples = x
    BY <1>1
  <1> DEFINE q == x \div PerDigit
             r == x % PerDigit
  <1>3. q \in Nat /\ r \in 0 .. PerDigit - 1 /\ x = PerDigit * q + r
    BY <1>1, Divided
  <1> DEFINE k == (Samples + x) \div PerDigit
             s == (Samples + x) % PerDigit
  <1>4. k \in Nat /\ s \in 0 .. PerDigit - 1 /\ Samples + x = PerDigit * k + s
    <2>1. Samples + x \in Nat
      BY <1>1
    <2> QED BY <1>1, <2>1, Divided
  <1> HIDE DEF q, r, k, s
  <1>5. q < Digits
    <2> SUFFICES ASSUME q >= Digits PROVE FALSE
      BY <1>1, <1>3
    <2>1. PICK d \in Nat : q = Digits + d
      BY <1>1, <1>3
    <2>2. /\ PerDigit * q = PerDigit * Digits + PerDigit * d /\ PerDigit * d \in Nat
          /\ PerDigit * Digits = Digits * PerDigit /\ PerDigit * Digits \in Nat
      BY <1>1, <2>1
    <2> QED BY <1>1, <1>3, <2>2
  <1>6. s = r
    <2> DEFINE m == Digits + q
    <2>1. PerDigit * m + r = PerDigit * k + s
      <3>1. PerDigit * (Digits + q) = Digits * PerDigit + PerDigit * q
        BY <1>1, <1>3
      <3>2. PerDigit * q \in Nat /\ Digits * PerDigit \in Nat /\ PerDigit * k \in Nat
        BY <1>1, <1>3, <1>4
      <3> QED BY <1>1, <1>3, <1>4, <3>1, <3>2
    <2>2. m \in Nat /\ PerDigit * m \in Nat /\ PerDigit * k \in Nat
      BY <1>1, <1>3, <1>4
    <2>3. ASSUME NEW d \in Nat, m = k + d + 1 PROVE FALSE
      <3>1. PerDigit * m = PerDigit * k + PerDigit * d + PerDigit /\ PerDigit * d \in Nat
        BY <1>1, <1>4, <2>3
      <3> HIDE DEF m
      <3> QED BY <1>1, <1>3, <1>4, <2>1, <2>2, <3>1
    <2>4. ASSUME NEW d \in Nat, k = m + d + 1 PROVE FALSE
      <3>1. PerDigit * k = PerDigit * m + PerDigit * d + PerDigit /\ PerDigit * d \in Nat
        BY <1>1, <2>2, <2>4
      <3> HIDE DEF m
      <3> QED BY <1>1, <1>3, <1>4, <2>1, <2>2, <3>1
    <2>5. m = k
      <3> HIDE DEF m
      <3>1. m > k => m - k - 1 \in Nat /\ m = k + (m - k - 1) + 1
        BY <1>1, <1>4, <2>2
      <3>2. k > m => k - m - 1 \in Nat /\ k = m + (k - m - 1) + 1
        BY <1>1, <1>4, <2>2
      <3> QED BY <1>1, <1>4, <2>2, <2>3, <2>4, <3>1, <3>2
    <2> QED BY <1>1, <1>3, <1>4, <2>1, <2>5
  <1>7. q \in 0 .. Digits - 1
    BY <1>1, <1>3, <1>5
  <1> QED BY <1>2, <1>6, <1>7 DEF q, r, s

(* The image to read next is that of its row. *)
LEMMA NextImage ==
  ASSUME loaded \in 0 .. 2 * Samples - 1
  PROVE  \E r \in 0 .. Samples - 1 :
           /\ Before(Filling) + r = loaded
           /\ Image = Own(Filling, r)
           /\ Image \in (0 .. Digits - 1) \X (1 .. 2 * PerDigit)
           /\ RowOf(Filling, Image[1], Image[2]) = r
PROOF
  <1>1. Digits \in Nat \ {0} /\ PerDigit \in Nat \ {0} /\ Samples \in Nat \ {0}
    BY ImagesAssumption DEF Samples
  <1>2. ASSUME NEW r \in 0 .. Samples - 1, Before(Filling) + r = loaded,
               loaded % Samples = r, loaded % PerDigit = r % PerDigit,
               First(Filling) \in {1, PerDigit + 1}
        PROVE  /\ Image = Own(Filling, r)
               /\ Image \in (0 .. Digits - 1) \X (1 .. 2 * PerDigit)
               /\ RowOf(Filling, Image[1], Image[2]) = r
    <2>1. Image = <<r \div PerDigit, (r % PerDigit) + First(Filling)>>
      BY <1>2 DEF Image
    <2>2. r \in Nat /\ r \div PerDigit \in 0 .. Digits - 1
      <3>1. r \div PerDigit \in 0 .. Digits - 1
        BY Rounds
      <3> QED BY <3>1
    <2>3. r % PerDigit \in 0 .. PerDigit - 1 /\ r = PerDigit * (r \div PerDigit) + (r % PerDigit)
      BY <1>1, <2>2, Divided
    <2> DEFINE i == r \div PerDigit
               o == r % PerDigit
               f == First(Filling)
    <2>4. Image[1] = i /\ Image[2] = o + f
      BY <2>1
    <2>5. PerDigit * i = i * PerDigit /\ i * PerDigit \in Nat
      BY <1>1, <2>2
    <2>6. Image[1] * PerDigit + Image[2] - First(Filling) = r
      <3>1. i * PerDigit + (o + f) - f = r
        <4> HIDE DEF i, o, f
        <4>1. f \in Int
          BY <1>1, <1>2 DEF f
        <4> QED BY <2>2, <2>3, <2>5, <4>1 DEF i, o
      <3> QED BY <2>4, <3>1
    <2>7. o + f \in 1 .. 2 * PerDigit
      BY <1>1, <1>2, <2>3
    <2> QED BY <2>1, <2>2, <2>6, <2>7 DEF Own, RowOf
  <1>3. CASE loaded < Samples
    <2>1. Filling = "train"
      BY <1>3 DEF Filling
    <2>2. First(Filling) = 1 /\ Before(Filling) = 0
      BY <2>1 DEF First, Before
    <2>3. loaded \in 0 .. Samples - 1
      BY <1>1, <1>3
    <2>4. loaded % Samples = loaded
      BY <1>1, <2>3
    <2>5. Before(Filling) + loaded = loaded
      BY <2>2, <2>3
    <2> QED BY <1>2, <2>2, <2>3, <2>4, <2>5
  <1>4. CASE ~(loaded < Samples)
    <2>1. Filling = "predict"
      BY <1>4 DEF Filling
    <2>2. First(Filling) = PerDigit + 1 /\ Before(Filling) = Samples
      BY <2>1 DEF First, Before
    <2>3. PICK r \in 0 .. Samples - 1 : loaded = Samples + r
      <3>1. loaded - Samples \in 0 .. Samples - 1 /\ loaded = Samples + (loaded - Samples)
        BY <1>1, <1>4
      <3> QED BY <3>1
    <2>4. (Samples + r) % Samples = r /\ (Samples + r) % PerDigit = r % PerDigit
      BY <1>1, Rounds
    <2> QED BY <1>2, <2>2, <2>3, <2>4
  <1> QED BY <1>3, <1>4

(* An image is written to the next row, if it has the table's width. *)
LEMMA LoadImageKeeps ==
  ASSUME ImagesInv, LoadImage
  PROVE  ImagesInv'
PROOF
  <1> DEFINE t == Filling
  <1>1. /\ result = "loading" /\ result' = result
        /\ loaded < 2 * Samples
        /\ loaded' = loaded + 1
        /\ size' = size
        /\ width' = IF loaded' = Samples THEN [width EXCEPT !.predict = tmp'] ELSE width
        /\ tmp' = SizeOf(Image)
    BY DEF LoadImage
  <1>2. /\ size \in [0 .. Digits - 1 -> [1 .. 2 * PerDigit -> Nat]]
        /\ loaded \in 0 .. 2 * Samples
        /\ width \in [Table -> Nat]
        /\ data \in [Table -> [0 .. Samples - 1 -> (Int \X Int) \cup {Unwritten}]]
    BY DEF ImagesInv, ImagesTypes
  <1>3. Digits \in Nat \ {0} /\ PerDigit \in Nat \ {0} /\ Samples \in Nat \ {0}
    BY ImagesAssumption DEF Samples
  <1>4. loaded \in 0 .. 2 * Samples - 1 /\ loaded' \in 0 .. 2 * Samples
    BY <1>1, <1>2, <1>3
  <1>5. PICK r \in 0 .. Samples - 1 :
          /\ Before(t) + r = loaded
          /\ Image = Own(t, r)
          /\ Image \in (0 .. Digits - 1) \X (1 .. 2 * PerDigit)
          /\ RowOf(t, Image[1], Image[2]) = r
    BY <1>4, NextImage
  <1>6. t \in Table /\ "predict" \in Table
    BY DEF Filling, Table
  <1>7. data' = IF tmp' = width[t] THEN [data EXCEPT ![t][r] = Image] ELSE data
    BY <1>5 DEF LoadImage
  <1>8. tmp' \in Nat
    <2>1. PICK i \in 0 .. Digits - 1, j \in 1 .. 2 * PerDigit : Image = <<i, j>>
      BY <1>5
    <2>2. size[i][j] \in Nat
      <3>1. size[i] \in [1 .. 2 * PerDigit -> Nat]
        BY <1>2
      <3> QED BY <3>1
    <2>3. Image[1] = i /\ Image[2] = j
      BY <2>1
    <2> QED BY <1>1, <2>2, <2>3 DEF SizeOf
  <1>9. /\ Before("train") = 0 /\ Before("predict") = Samples
        /\ \A u \in Table : Before(u) \in Nat
        /\ \A u \in Table : u = "train" \/ u = "predict"
    BY <1>3 DEF Before, Table
  <1>10. width' \in [Table -> Nat]
    BY <1>1, <1>2, <1>8
  <1>11. Image \in (Int \X Int) \cup {Unwritten}
    BY <1>3, <1>5
  <1>12. data' \in [Table -> [0 .. Samples - 1 -> (Int \X Int) \cup {Unwritten}]]
    <2> HIDE DEF t
    <2>1. data[t] \in [0 .. Samples - 1 -> (Int \X Int) \cup {Unwritten}]
      BY <1>2, <1>6
    <2>2. [data[t] EXCEPT ![r] = Image] \in [0 .. Samples - 1 -> (Int \X Int) \cup {Unwritten}]
      BY <1>11, <2>1
    <2>3. [data EXCEPT ![t][r] = Image] = [data EXCEPT ![t] = [data[t] EXCEPT ![r] = Image]]
      BY <1>2, <1>6
    <2>4. [data EXCEPT ![t][r] = Image] \in [Table -> [0 .. Samples - 1 -> (Int \X Int) \cup {Unwritten}]]
      BY <1>2, <1>6, <2>2, <2>3
    <2> QED BY <1>2, <1>7, <2>4
  <1>13. ImagesTypes'
    BY <1>1, <1>2, <1>4, <1>10, <1>12 DEF ImagesTypes, Samples
  <1>14. \A u \in Table : width'[u] = IF loaded' = Samples /\ u = "predict" THEN tmp' ELSE width[u]
    BY <1>1, <1>2
  <1>15. WidthsAgree'
    <2>1. width'["train"] = width["train"] /\ result' # "predicted"
      BY <1>1, <1>14 DEF Table
    <2> QED BY <1>1, <2>1 DEF ImagesInv, WidthsAgree
  <1>16. ASSUME NEW u \in Table, NEW q \in 0 .. Samples - 1, Before(u) + q = loaded
         PROVE  u = t /\ q = r
    <2>1. CASE u = t
      BY <1>4, <1>5, <1>9, <1>16, <2>1
    <2>2. CASE u = "train" /\ t = "predict"
      <3>1. loaded = q /\ loaded = Samples + r
        BY <1>5, <1>9, <1>16, <2>2
      <3> QED BY <1>3, <3>1
    <2>3. CASE u = "predict" /\ t = "train"
      <3>1. loaded = r /\ loaded = Samples + q
        BY <1>5, <1>9, <1>16, <2>3
      <3> QED BY <1>3, <3>1
    <2> QED BY <1>6, <1>9, <2>1, <2>2, <2>3
  <1>17. ASSUME NEW u \in Table, NEW q \in 0 .. Samples - 1, Before(u) + q < loaded + 1
         PROVE  width'[u] = width[u]
    <2>1. ~(u = "predict" /\ loaded' = Samples)
      BY <1>1, <1>3, <1>4, <1>9, <1>17
    <2> QED BY <1>14, <2>1
  <1>18. \A u \in Table, q \in 0 .. Samples - 1 : (u # t \/ q # r) => data'[u][q] = data[u][q]
    BY <1>2, <1>6, <1>7
  <1>19. data'[t][r] = IF tmp' = width[t] THEN Image ELSE data[t][r]
    BY <1>2, <1>6, <1>7
  <1>20. \A u, q : Own(u, q)' = Own(u, q) /\ SizeOf(Own(u, q))' = SizeOf(Own(u, q))
    BY <1>1 DEF Own, SizeOf, First
  <1>21. \A u : Before(u)' = Before(u)
    BY DEF Before, Samples
  <1>22. ASSUME NEW u \in Table, NEW q \in 0 .. Samples - 1
         PROVE  data'[u][q] =
                  IF Before(u) + q < loaded' /\ SizeOf(Own(u, q)) = width'[u]
                    THEN Own(u, q) ELSE Unwritten
    <2>1. data[u][q] = IF Before(u) + q < loaded /\ SizeOf(Own(u, q)) = width[u]
                         THEN Own(u, q) ELSE Unwritten
      BY DEF ImagesInv, RowsHold, Holds
    <2>2. CASE Before(u) + q = loaded
      <3>1. u = t /\ q = r
        BY <1>16, <2>2
      <3>2. data[u][q] = Unwritten /\ Before(u) + q < loaded'
        BY <1>1, <1>4, <2>1, <2>2
      <3>3. width'[u] = width[u]
        BY <1>1, <1>17, <3>2
      <3> HIDE DEF t
      <3> QED BY <1>1, <1>5, <1>19, <3>1, <3>2, <3>3
    <2>3. CASE Before(u) + q # loaded
      <3>1. u # t \/ q # r
        BY <1>5, <2>3
      <3>2. data'[u][q] = data[u][q]
        BY <1>18, <3>1
      <3>3. Before(u) + q < loaded' <=> Before(u) + q < loaded
        BY <1>1, <1>4, <1>9, <2>3
      <3>4. Before(u) + q < loaded' => width'[u] = width[u]
        BY <1>1, <1>17
      <3> QED BY <2>1, <3>2, <3>3, <3>4
    <2> QED BY <2>2, <2>3
  <1>23. RowsHold'
    BY <1>20, <1>21, <1>22 DEF RowsHold, Holds, Samples, Unwritten
  <1> QED BY <1>13, <1>15, <1>23 DEF ImagesInv

(* No row is written at first. *)
LEMMA ImagesInvInit ==
  ASSUME NEW sz \in SUBSET [0 .. Digits - 1 -> [1 .. 2 * PerDigit -> Nat]], ImagesStart(sz)
  PROVE  ImagesInv
PROOF
  <1>1. /\ size \in sz /\ loaded = 0 /\ result = "loading"
        /\ width = [t \in Table |-> tmp] /\ tmp = size[0][1]
        /\ data = [t \in Table |-> [r \in 0 .. Samples - 1 |-> Unwritten]]
    BY DEF ImagesStart
  <1>2. Digits \in Nat \ {0} /\ PerDigit \in Nat \ {0} /\ Samples \in Nat \ {0}
    BY ImagesAssumption DEF Samples
  <1>3. size \in [0 .. Digits - 1 -> [1 .. 2 * PerDigit -> Nat]]
    BY <1>1
  <1>4. tmp \in Nat
    BY <1>1, <1>2, <1>3
  <1>5. ImagesTypes
    BY <1>1, <1>2, <1>3, <1>4 DEF ImagesTypes
  <1>6. RowsHold
    <2>1. ASSUME NEW t \in Table, NEW r \in 0 .. Samples - 1
          PROVE  ~(Before(t) + r < loaded) /\ data[t][r] = Unwritten
      <3>1. Before(t) \in Nat
        BY <1>2 DEF Before
      <3> QED BY <1>1, <3>1
    <2> QED BY <2>1 DEF RowsHold, Holds
  <1>7. WidthsAgree
    <2>1. width["train"] = size[0][1] /\ result # "predicted"
      BY <1>1 DEF Table
    <2> QED BY <2>1 DEF WidthsAgree
  <1> QED BY <1>5, <1>6, <1>7 DEF ImagesInv

(* No step of test_opencv_knn_predict ends it. *)
LEMMA ImagesKept ==
  ASSUME ImagesInv, [ImagesNext]_imagesVars
  PROVE  ImagesInv'
PROOF
  <1>1. CASE LoadImage
    BY <1>1, LoadImageKeeps
  <1>2. ASSUME UNCHANGED <<size, loaded, width, data>>,
               result' = "predicted" =>
                 loaded = 2 * Samples /\ width["predict"] = width["train"]
        PROVE  ImagesInv'
    <2>1. size' = size /\ loaded' = loaded /\ width' = width /\ data' = data
      BY <1>2
    <2>2. ImagesTypes' /\ RowsHold'
      BY <2>1 DEF ImagesInv, ImagesTypes, RowsHold, Holds, SizeOf, Own, First,
                  Before, Samples, Unwritten
    <2>3. WidthsAgree'
      BY <1>2, <2>1 DEF ImagesInv, WidthsAgree, Samples
    <2> QED BY <2>2, <2>3 DEF ImagesInv
  <1>3. CASE NoImage
    <2>1. UNCHANGED <<size, loaded, width, data>> /\ result' # "predicted"
      BY <1>3 DEF NoImage
    <2> QED BY <1>2, <2>1
  <1>4. CASE Predict
    <2>1. /\ UNCHANGED <<size, loaded, width, data>> /\ loaded = 2 * Samples
          /\ result' = IF width["predict"] = width["train"] THEN "predicted" ELSE "threw"
      BY <1>4 DEF Predict
    <2> QED BY <1>2, <2>1
  <1>5. CASE UNCHANGED imagesVars
    <2>1. UNCHANGED <<size, loaded, width, data>> /\ result' = result
      BY <1>5 DEF imagesVars
    <2>2. result' = "predicted" => loaded = 2 * Samples /\ width["predict"] = width["train"]
      BY <2>1 DEF ImagesInv, WidthsAgree
    <2> QED BY <1>2, <2>1, <2>2
  <1> QED BY <1>1, <1>3, <1>4, <1>5 DEF ImagesNext

(* The images of the first size are in the rows where they belong. *)
LEMMA InvRowsAreDigits == ImagesInv => RowsAreDigits
PROOF
  <1> SUFFICES ASSUME ImagesInv, result = "predicted", NEW t \in Table,
                      NEW r \in 0 .. Samples - 1
               PROVE  data[t][r] = IF SizeOf(Own(t, r)) = size[0][1]
                                     THEN Own(t, r) ELSE Unwritten
    BY DEF RowsAreDigits, Own, SizeOf
  <1>1. /\ loaded = 2 * Samples /\ width["predict"] = width["train"]
        /\ width["train"] = size[0][1]
    BY DEF ImagesInv, WidthsAgree
  <1>2. width[t] = size[0][1]
    BY <1>1 DEF Table
  <1>3. Before(t) + r < loaded
    <2>1. Samples \in Nat \ {0}
      BY ImagesAssumption DEF Samples
    <2>2. Before(t) = 0 \/ Before(t) = Samples
      BY DEF Before
    <2> QED BY <1>1, <2>1, <2>2
  <1>4. data[t][r] = IF Holds(t, r) THEN Own(t, r) ELSE Unwritten
    BY DEF ImagesInv, RowsHold
  <1> QED BY <1>2, <1>3, <1>4 DEF Holds

-----------------------------------------------------------------------------
(* The demo. *)

KnnInv == FilesInv /\ LabelsInv /\ ImagesInv

(* Whichever is called, the others are as they would be before a call. *)
LEMMA KnnInvInit == Init => KnnInv
PROOF
  <1> SUFFICES ASSUME Init PROVE KnnInv
    OBVIOUS
  <1>1. FilesInv
    BY FilesInvInit DEF Init
  <1>2. LabelsInv
    BY LabelsStartInv DEF Init
  <1>3. ImagesInv
    <2> DEFINE Sized == [0 .. Digits - 1 -> [1 .. 2 * PerDigit -> Nat]]
    <2>1. AnySizes \in SUBSET Sized
      BY ImagesAssumption DEF AnySizes
    <2>2. NoImages \in SUBSET Sized
      BY DEF NoImages
    <2>3. ImagesStart(AnySizes) \/ ImagesStart(NoImages)
      BY DEF Init
    <2> QED BY <2>1, <2>2, <2>3, ImagesInvInit
  <1> QED BY <1>1, <1>2, <1>3 DEF KnnInv

(* A call has variables of its own. *)
LEMMA KnnInvariance == Spec => []KnnInv
PROOF
  <1>1. KnnInv /\ [Next]_vars => KnnInv'
    <2> SUFFICES ASSUME KnnInv, [Next]_vars PROVE KnnInv'
      OBVIOUS
    <2>1. [test_knn]_filesVars /\ [LabelsNext]_labelsVars /\ [ImagesNext]_imagesVars
      BY DEF Next, vars
    <2> QED BY <2>1, FilesKept, LabelsKept, ImagesKept DEF KnnInv
  <1> QED BY <1>1, KnnInvInit, PTL DEF Spec

(* Whatever the files hold, a full line is a row of its own, and after it   *)
(* nothing uninitialised is learnt or looked for.                           *)
THEOREM LinesAreKept == Spec => []RowsAreLines
PROOF
  <1>1. KnnInv => RowsAreLines
    BY InvRowsAreLines DEF KnnInv
  <1> QED BY <1>1, KnnInvariance, PTL

(* Of the lines of labels that name an id the first counts, whatever they   *)
(* hold and whether or not they parse, and what is found is known.          *)
THEOREM FirstLineStays == Spec => []FirstLineCounts
PROOF
  <1>1. KnnInv => FirstLineCounts
    BY InvFirstLineCounts DEF KnnInv
  <1> QED BY <1>1, KnnInvariance, PTL

(* For any sizes of the clusters and any labels: getLabelsMap finds every   *)
(* cluster in use, or has stopped at its assertion before.                  *)
THEOREM LabelsAreUsedUp == Spec => []NeverFalse
PROOF
  <1>1. KnnInv => NeverFalse
    BY InvNeverFalse DEF KnnInv
  <1> QED BY <1>1, KnnInvariance, PTL

(* For any sizes of the clusters and any labels: no names for the clusters  *)
(* make fewer labels wrong than calcErr counts.                             *)
THEOREM LeastErrors == Spec => []ErrIsLeast
PROOF
  <1>1. KnnInv => ErrIsLeast
    BY InvErrIsLeast DEF KnnInv
  <1> QED BY <1>1, KnnInvariance, PTL

(* For any sizes of the clusters: labels that are right but for their names *)
(* pass without an error where there are several clusters, none of them     *)
(* empty, and never where there are not.                                    *)
THEOREM TidyLabelsPass == Spec => []PerfectPasses
PROOF
  <1>1. KnnInv => PerfectPasses
    BY InvPerfectPasses DEF KnnInv
  <1> QED BY <1>1, KnnInvariance, PTL

(* Any images of any sizes: when a digit is predicted, each row of the two  *)
(* tables holds the image that belongs there, or none.                      *)
THEOREM DigitsInTheirRows == Spec => []RowsAreDigits
PROOF
  <1>1. KnnInv => RowsAreDigits
    BY InvRowsAreDigits DEF KnnInv
  <1> QED BY <1>1, KnnInvariance, PTL
=============================================================================
