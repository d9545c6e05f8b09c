---------------------------- MODULE Predictions ----------------------------
(***************************************************************************)
(* What the classification analyzers compute from an output tensor, a      *)
(* sequence of scores: AnalyzerIc of the switching application and the     *)
(* single-DNN application do the same.                                     *)
(***************************************************************************)
EXTENDS Integers, Sequences, FiniteSets

CONSTANT Garbage        \* what lies behind the end of a vector

ASSUME PredictionsAssumption ==
    Garbage \notin [index : Nat, score : Int] \cup [class_id : Nat, score : Int]

Item(t, i) == [index |-> i - 1, score |-> t[i]]

\* Mutant: the comparison of the sort is turned round.
WorseFirst(t, i, j) == t[i] < t[j] \/ (t[i] = t[j] /\ i < j)

\* std::stable_sort puts i before j.
Before(t, i, j) == t[i] > t[j] \/ (t[i] = t[j] /\ i < j)

StableSorted(t) ==
    LET Place(i) == 1 + Cardinality({j \in DOMAIN t : Before(t, j, i)})
    IN [k \in DOMAIN t |-> Item(t, CHOOSE i \in DOMAIN t : Place(i) = k)]

\* The first max items of the sorted vector; indexing does not check the end.
analyzeClassificationOutput(t, max) ==
    LET sorted == StableSorted(t)
    IN [k \in 1..max |-> IF k \in DOMAIN sorted THEN sorted[k] ELSE Garbage]

\* The message of one prediction.
GeneralClassification(item) == [class_id |-> item.index, score |-> item.score]

createClassificationFlatbuffer(items) ==
    [k \in DOMAIN items |->
        IF items[k] = Garbage THEN Garbage ELSE GeneralClassification(items[k])]
=============================================================================
