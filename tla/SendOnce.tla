------------------------------ MODULE SendOnce ------------------------------
(***************************************************************************)
(* What sending results promises, whichever thread does what: one result   *)
(* at a time is made, handed to Sess at most once, and its memory is given *)
(* back, by whoever has it last, before the next one is made.              *)
(***************************************************************************)

VARIABLE
    result  \* "none", "app": the application's, "sess": handed to Sess

Init == result = "none"

\* The application serializes a result into memory of Sess.
Make == result = "none" /\ result' = "app"

\* A result that is not handed over is the application's to free.
Drop == result = "app" /\ result' = "none"

\* Sess takes the result.
Take == result = "app" /\ result' = "sess"

\* SendDataDoneCallback gives the memory back.
Return == result = "sess" /\ result' = "none"

Next == Make \/ Drop \/ Take \/ Return

Spec == Init /\ [][Next]_result
=============================================================================
