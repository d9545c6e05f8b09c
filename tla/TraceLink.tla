------------------------------ MODULE TraceLink ------------------------------
(***************************************************************************)
(* What the switching application promises to whoever reads its results:   *)
(* a classification result follows a detection result and carries the      *)
(* trace id of that result; no detection is classified twice.              *)
(***************************************************************************)
CONSTANTS Stamps, NoStamp

VARIABLE last      \* the last result that left the application

Init == last = [kind |-> "none", trace |-> NoStamp]

\* A detection result may leave at any time, with the timestamp of its frame.
Detection == \E t \in Stamps : last' = [kind |-> "OD", trace |-> t]

Classification ==
    /\ last.kind = "OD"
    /\ last' = [kind |-> "IC", trace |-> last.trace]

Next == Detection \/ Classification

Spec == Init /\ [][Next]_last
=============================================================================
