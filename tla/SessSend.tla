------------------------------ MODULE SessSend ------------------------------
(***************************************************************************)
(* Sending a result: the memory that SessMalloc lends, SessController and  *)
(* its SyncSend, and the thread on which Sess calls SendDataDoneCallback.  *)
(* The component owns the variables below and is extended by the           *)
(* specification of the program that sends.                                *)
(*                                                                         *)
(* Sess itself is not part of the repository.  It may answer a send at any *)
(* time, also before SendData has counted it (the mock of the test loader  *)
(* always does), or never.                                                 *)
(***************************************************************************)
EXTENDS Integers, FiniteSets

CONSTANTS
    Buffers,    \* bound: pieces of memory that SessMalloc can lend
    NoBuffer

ASSUME SessSendAssumption == NoBuffer \notin Buffers

VARIABLES
    memory,     \* who has each buffer: "free", "app" or "sess"
    outBuf,     \* p_out_buf of an iteration, until it is sent or freed
    answered,   \* the callback has freed its buffer and not yet counted
    sendCnt     \* SyncSend::send_cnt_

sessVars == <<memory, outBuf, answered, sendCnt>>

AtSess == {b \in Buffers : memory[b] = "sess"}
AtApp == {b \in Buffers : memory[b] = "app"}

\* The count is behind or ahead of the callbacks by one at most.
SessTypeOK ==
    /\ memory \in [Buffers -> {"free", "app", "sess"}]
    /\ outBuf \in Buffers \cup {NoBuffer}
    /\ answered \in BOOLEAN
    /\ sendCnt \in -1..1

SessStart ==
    /\ memory = [b \in Buffers |-> "free"]
    /\ outBuf = NoBuffer
    /\ answered = FALSE
    /\ sendCnt = 0

-----------------------------------------------------------------------------
(* The main thread.                                                        *)

\* Serialize asks for the memory of a result.
Malloc ==
    /\ \E b \in Buffers :
          /\ memory[b] = "free"
          /\ memory' = [memory EXCEPT ![b] = "app"]
          /\ outBuf' = b
    /\ UNCHANGED <<answered, sendCnt>>

\* Mutant: a result that Sess does not take is not freed.
KeepUnsent ==
    /\ outBuf' = NoBuffer
    /\ UNCHANGED <<memory, answered, sendCnt>>

\* SendSerializedData frees what it does not hand over: a result that is too
\* large, and one that SessSendData did not take.
FreeUnsent ==
    /\ memory' = [memory EXCEPT ![outBuf] = "free"]
    /\ outBuf' = NoBuffer
    /\ UNCHANGED <<answered, sendCnt>>

\* SessSendData takes the result: it is now the callback's to free.
SessSendData ==
    /\ memory' = [memory EXCEPT ![outBuf] = "sess"]
    /\ outBuf' = NoBuffer
    /\ UNCHANGED <<answered, sendCnt>>

\* Mutant: the send is not counted.
UncountedSend == UNCHANGED sessVars

\* SyncSend::Send, called when SessSendData has returned kSessOK.
CountSend ==
    /\ sendCnt' = sendCnt + 1
    /\ UNCHANGED <<memory, outBuf, answered>>

\* SendingCount, which reads the count without the lock.
Sending == sendCnt > 0

-----------------------------------------------------------------------------
(* The thread of Sess.                                                     *)

\* SendDataDoneCallback frees the buffer it is called with.
CallbackFree ==
    /\ ~answered
    /\ \E b \in AtSess : memory' = [memory EXCEPT ![b] = "free"]
    /\ answered' = TRUE
    /\ UNCHANGED <<outBuf, sendCnt>>

\* SyncSend::Done.  Once the controller and its sync_ are deleted the count is
\* nobody's.
CallbackDone(alive) ==
    /\ answered
    /\ answered' = FALSE
    /\ sendCnt' = IF alive THEN sendCnt - 1 ELSE sendCnt
    /\ UNCHANGED <<memory, outBuf>>
=============================================================================
