------------------------------ MODULE LabelsMap ------------------------------
(* calcErr of knn_kdtree_demo.cpp and its getLabelsMap: how many labels are *)
(* wrong, when the labels of the clusters may have been renamed.  The       *)
(* points come cluster by cluster, as generateData makes them.              *)
EXTENDS Integers, Sequences, FiniteSets, Functions

CONSTANT Sizes  \* the sizes of the clusters in the instance
ASSUME SizesAssumption == Sizes \subseteq Seq(Nat)

VARIABLES
  sizes, labels,          \* arguments of calcErr
  asRow,                  \* whether labels is a row, not a column
  labelsEquivalent,       \* an argument: whether labels keep their names
  checkClusterUniq,       \* an argument
  labelsMap, buzy,        \* locals of getLabelsMap
  startIndex,             \* another: the first point of the next cluster
  outcome,                \* "running", "asserted", "true" or "false"
  err                     \* what calcErr computed, a fraction

labelsVars == <<sizes, labels, asRow, labelsEquivalent, checkClusterUniq,
                labelsMap, buzy, startIndex, outcome, err>>

(* Clusters and points are numbered from 0, as in the code. *)
Cluster == 0 .. Len(sizes) - 1
SumTo(sz, c) ==
  LET sum[k \in 0 .. Len(sz)] == IF k = 0 THEN 0 ELSE sum[k - 1] + sz[k]
  IN  sum[c]
Total(sz) == SumTo(sz, Len(sz))
Point == 0 .. Total(sizes) - 1
NoErr == [wrong |-> 0, of |-> 1]
Points(c) == SumTo(sizes, c) .. SumTo(sizes, c + 1) - 1

(* generateData: the labels before clustering. *)
OrigLabel(p) == CHOOSE c \in Cluster : p \in Points(c)

(* The first of the largest counts. *)
MaxIdxStale(count) == Len(sizes) - 1  \* a mistake: maxVal never assigned
maxIdx(count) ==
  CHOOSE c \in Cluster :
    \A d \in Cluster : count[d] <= count[c] /\ (d < c => count[d] < count[c])

LabelsStart ==
  /\ sizes \in Sizes
  /\ labels \in [Point -> 0 .. Len(sizes)]
  /\ asRow \in BOOLEAN /\ labelsEquivalent \in BOOLEAN /\ checkClusterUniq \in BOOLEAN
  /\ labelsMap = <<>> /\ buzy = {} /\ startIndex = 0 /\ outcome = "running" /\ err = NoErr

LabelsIdle ==
  /\ sizes = <<>> /\ labels = <<>>
  /\ asRow = FALSE /\ labelsEquivalent = FALSE /\ checkClusterUniq = FALSE
  /\ labelsMap = <<>> /\ buzy = {} /\ startIndex = 0 /\ outcome = "running" /\ err = NoErr

(* calcErr begins with CV_Assert(!labels.empty()). *)
NoLabels ==
  /\ outcome = "running"
  /\ Point = {}
  /\ outcome' = "asserted"
  /\ UNCHANGED <<sizes, labels, asRow, labelsEquivalent, checkClusterUniq, labelsMap,
                 buzy, startIndex, err>>

(* One turn of the loop of getLabelsMap, for the next cluster. *)
FromZero(c) == 0 .. sizes[c + 1] - 1  \* a mistake: startIndex not moved on
Block(c) == startIndex .. startIndex + sizes[c + 1] - 1
Count(c) == [l \in Cluster |-> Cardinality({p \in Block(c) : labels[p] = l})]
Valid(c) == /\ \A p \in Block(c) : labels[p] < Len(sizes)
            /\ \A l \in Cluster : Count(c)[l] < Total(sizes)
AnyCluster(cls) == TRUE  \* a mistake: the assertion dropped
MayTake(cls) == ~checkClusterUniq \/ cls \notin buzy
MapCluster ==
  LET c == Len(labelsMap)
      cls == maxIdx(Count(c))
  IN
  /\ outcome = "running" /\ Point # {} /\ ~labelsEquivalent
  /\ c < Len(sizes)
  /\ IF Valid(c) /\ MayTake(cls)
       THEN /\ labelsMap' = Append(labelsMap, cls)
            /\ buzy' = buzy \cup {cls}
            /\ startIndex' = startIndex + sizes[c + 1]
            /\ UNCHANGED outcome
       ELSE /\ outcome' = "asserted"
            /\ UNCHANGED <<labelsMap, buzy, startIndex>>
  /\ UNCHANGED <<sizes, labels, asRow, labelsEquivalent, checkClusterUniq, err>>

(* The end of getLabelsMap and the rest of calcErr, whose loops are over    *)
(* the rows of labels: of a row vector, which the assertions admit, they    *)
(* see the first label alone.                                               *)
Rows == IF asRow THEN 1 ELSE Total(sizes)
Compared == 0 .. Rows - 1
Expected(p) ==
  IF labelsEquivalent THEN OrigLabel(p) ELSE labelsMap[OrigLabel(p) + 1]
Wrong == Cardinality({p \in Compared : labels[p] # Expected(p)})
CalcErr ==
  /\ outcome = "running" /\ Point # {}
  /\ labelsEquivalent \/ Len(labelsMap) = Len(sizes)
  /\ IF ~labelsEquivalent /\ checkClusterUniq /\ buzy # Cluster
       THEN outcome' = "false" /\ UNCHANGED err
       ELSE outcome' = "true" /\ err' = [wrong |-> Wrong, of |-> Rows]
  /\ UNCHANGED <<sizes, labels, asRow, labelsEquivalent, checkClusterUniq, labelsMap,
                 buzy, startIndex>>

(* A call of calcErr. *)
LabelsNext == NoLabels \/ MapCluster \/ CalcErr

-----------------------------------------------------------------------------
(* No other way to rename the clusters explains more of a column of labels, *)
(* and the one that was found uses no label twice when that was asked for.  *)
ErrIsLeast ==
  outcome = "true" /\ ~labelsEquivalent =>
    /\ checkClusterUniq => IsInjective(labelsMap)
    /\ ~asRow => \A f \in [Cluster -> Cluster] :
         err.wrong <= Cardinality({p \in Point : labels[p] # f[OrigLabel(p)]})

(* Labels that are right up to their names pass without an error, if there  *)
(* is more than one cluster and none is empty; a single cluster never does, *)
(* as its count reaches the total, and no cluster at all has no points.     *)
Renamed == \E f \in Bijection(Cluster, Cluster) :
             \A p \in Point : labels[p] = f[OrigLabel(p)]
PerfectPasses ==
  outcome # "running" /\ ~labelsEquivalent /\ Renamed /\ 0 \notin Range(sizes) =>
    IF Len(sizes) > 1 THEN outcome = "true" /\ err.wrong = 0 ELSE outcome = "asserted"

(* getLabelsMap never returns false: as many different labels as clusters   *)
(* leave none unused, and the same label twice is refused before.           *)
NeverFalse == outcome # "false"
=============================================================================
