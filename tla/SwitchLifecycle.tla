-------------------------- MODULE SwitchLifecycle --------------------------
(***************************************************************************)
(* The life of the switching application, from main() to its end: the      *)
(* start-up of AppSequence::Initialize, the EVP thread, the main loop as   *)
(* far as it uses what the others own (a frame, the memory of a result),   *)
(* Finalize and the destructor, with SenscordController::Close.            *)
(*                                                                         *)
(* What an iteration decides is modelled by SwitchDnn and is left open     *)
(* here.  pc and evpPc name the step each thread takes next; accesses to   *)
(* the plain members the threads share are steps of their own.             *)
(***************************************************************************)
EXTENDS SessSend

CONSTANT MaxFaults      \* bound: calls of the platform that fail

ASSUME LifecycleAssumption == MaxFaults \in Nat

VARIABLES
    pc,             \* the main thread
    evpPc,          \* the EVP thread
    held,           \* what was acquired and not released
    refused,        \* history: what was asked for in vain
    deleted,        \* objects the destructor has deleted
    stream,         \* SenscordController::stream_ # nullptr
    streamStopped,  \* SenscordController::stream_stopped_
    hasParam,       \* EvpController::is_set_parameter
    terminated,     \* EvpThreadController::is_thread_terminated_
    cancel,         \* EvpThreadController::is_thread_cancel_
    fatalError,     \* AppSequence::fatal_error_
    faults          \* failures the platform may still produce

senscord == <<stream, streamStopped>>
evp == <<evpPc, hasParam, terminated>>
vars == <<pc, evp, held, refused, deleted, senscord, cancel, fatalError, faults, sessVars>>

Resources == {"thread", "sess", "sendCallback", "core", "stream", "running",
              "frameCallback", "frame"}

\* What may be asked for in vain: to take a resource back, to open the stream, or
\* to stop it on behalf of the EVP thread.
Refusals == Resources \cup {"open", "evpStop"}

Objects == {"models", "senscord", "sess"}

StartUpSteps == {"EvpInit", "StartThread", "SessInit", "SessRegister", "CoreInit",
                 "OpenStream", "StartStream", "MarkStarted", "RegisterFrame", "WaitParam"}
LoopSteps == {"LoopHead", "GetFrame", "Iterate", "Send", "Count", "WaitSend"}
CloseSteps == {"CloseFrames", "CloseCallback", "CloseCheck", "CloseStop", "CloseMark",
               "CloseStream", "CoreExit"}
EndSteps == {"SessUnregister", "SessExit", "Cancel", "Join", "Done"}
EvpSteps == {"None", "Head", "Event", "Callback", "StopCheck", "StopCall", "StopMark", "Ended"}

TypeOK ==
    /\ SessTypeOK
    /\ pc \in StartUpSteps \cup LoopSteps \cup {"Finalize", "DeleteModels"}
             \cup CloseSteps \cup EndSteps
    /\ evpPc \in EvpSteps
    /\ held \subseteq Resources
    /\ refused \subseteq Refusals
    /\ deleted \subseteq Objects
    /\ stream \in BOOLEAN
    /\ streamStopped \in BOOLEAN
    /\ hasParam \in BOOLEAN
    /\ terminated \in BOOLEAN
    /\ cancel \in BOOLEAN
    /\ fatalError \in BOOLEAN
    /\ faults \in 0..MaxFaults

\* main() has constructed AppSequence.
Init ==
    /\ SessStart
    /\ pc = "EvpInit"
    /\ evpPc = "None"
    /\ held = {}
    /\ refused = {}
    /\ deleted = {}
    /\ stream = FALSE
    /\ streamStopped = TRUE
    /\ hasParam = FALSE
    /\ terminated = FALSE
    /\ cancel = FALSE
    /\ fatalError = FALSE
    /\ faults = MaxFaults

\* A call of the platform fails.
Fault ==
    /\ faults > 0
    /\ faults' = faults - 1

-----------------------------------------------------------------------------
(* AppSequence::Initialize, EvpThreadController::Start and                 *)
(* SenscordController::Open.  The first call that fails ends them, and the *)
(* destructor has to find out what there is to release.                    *)

\* A call acquires a resource, or fails and Initialize returns -1.
Acquire(at, r, next) ==
    /\ pc = at
    /\ \/ pc' = next /\ held' = held \cup {r} /\ UNCHANGED faults
       \/ pc' = "Finalize" /\ Fault /\ UNCHANGED held
    /\ UNCHANGED <<deleted, streamStopped, hasParam, terminated, cancel, fatalError, sessVars>>

EvpInit ==
    /\ pc = "EvpInit"
    /\ \/ pc' = "StartThread" /\ UNCHANGED faults
       \/ pc' = "Finalize" /\ Fault
    /\ UNCHANGED <<evp, held, refused, deleted, senscord, cancel, fatalError, sessVars>>

StartThread ==
    /\ Acquire("StartThread", "thread", "SessInit")
    /\ evpPc' = IF "thread" \in held' THEN "Head" ELSE "None"
    /\ UNCHANGED <<refused, stream>>

SessInit == Acquire("SessInit", "sess", "SessRegister") /\ UNCHANGED <<evpPc, refused, stream>>

SessRegister ==
    Acquire("SessRegister", "sendCallback", "CoreInit") /\ UNCHANGED <<evpPc, refused, stream>>

CoreInit == Acquire("CoreInit", "core", "OpenStream") /\ UNCHANGED <<evpPc, refused, stream>>

OpenStream ==
    /\ Acquire("OpenStream", "stream", "StartStream")
    /\ stream' = ("stream" \in held')
    /\ refused' = refused \cup (IF stream' THEN {} ELSE {"open"})
    /\ UNCHANGED evpPc

StartStream ==
    Acquire("StartStream", "running", "MarkStarted") /\ UNCHANGED <<evpPc, refused, stream>>

\* Mutant: Open does not clear stream_stopped_.
NotMarked ==
    /\ pc = "MarkStarted"
    /\ pc' = "RegisterFrame"
    /\ UNCHANGED <<evp, held, refused, deleted, senscord, cancel, fatalError, faults, sessVars>>

MarkStarted ==
    /\ pc = "MarkStarted"
    /\ pc' = "RegisterFrame"
    /\ streamStopped' = FALSE
    /\ UNCHANGED <<evp, held, refused, deleted, stream, cancel, fatalError, faults, sessVars>>

RegisterFrame ==
    Acquire("RegisterFrame", "frameCallback", "WaitParam") /\ UNCHANGED <<evpPc, refused, stream>>

\* Mutant: the wait for the first parameter is missing.
NoWaitParam ==
    /\ pc = "WaitParam"
    /\ pc' = "LoopHead"
    /\ UNCHANGED <<evp, held, refused, deleted, senscord, cancel, fatalError, faults, sessVars>>

\* Initialize polls for the first valid configuration, or the exit request.
WaitParam ==
    /\ pc = "WaitParam"
    /\ terminated \/ hasParam
    /\ pc' = "LoopHead"
    /\ UNCHANGED <<evp, held, refused, deleted, senscord, cancel, fatalError, faults, sessVars>>

-----------------------------------------------------------------------------
(* The main loop.                                                          *)

LoopUnchanged ==
    UNCHANGED <<evp, refused, deleted, senscord, cancel>>

\* Leave the loop because of an error, if "fatal".
Leave(fatal) == pc' = "Finalize" /\ fatalError' = fatal

Stay(next) == pc' = next /\ UNCHANGED fatalError

\* ReleaseFrame, whose failure is ignored.
ReleaseFrame ==
    \/ held' = held \ {"frame"} /\ UNCHANGED faults
    \/ Fault /\ UNCHANGED held

LoopHead ==
    /\ pc = "LoopHead"
    /\ IF terminated THEN Leave(FALSE) ELSE Stay("GetFrame")
    /\ LoopUnchanged /\ UNCHANGED <<held, faults, sessVars>>

\* GetFrame blocks until a frame is there ...
FrameArrives ==
    /\ pc = "GetFrame"
    /\ "running" \in held
    /\ held' = held \cup {"frame"}
    /\ Stay("Iterate")
    /\ LoopUnchanged /\ UNCHANGED <<faults, sessVars>>

\* ... or the call is cancelled, as it is when the stream does not run ...
GetFrameCancelled ==
    /\ pc = "GetFrame"
    /\ "running" \notin held
    /\ Stay("LoopHead") \/ Leave(TRUE)
    /\ LoopUnchanged /\ UNCHANGED <<held, faults, sessVars>>

\* ... or it fails.
GetFrameFails ==
    /\ pc = "GetFrame"
    /\ Fault
    /\ Stay("LoopHead") \/ Leave(TRUE)
    /\ LoopUnchanged /\ UNCHANGED <<held, sessVars>>

\* The rest of the iteration up to the sending: it is cut short, with the frame
\* given back or, after a setting that was retried with success, left to Close, or
\* a result is serialized into memory of Sess.
Iterate ==
    /\ pc = "Iterate"
    /\ \/ Stay("LoopHead") /\ ReleaseFrame /\ UNCHANGED sessVars
       \/ Stay("LoopHead") /\ UNCHANGED <<held, faults, sessVars>>
       \/ Leave(TRUE) /\ Fault /\ held' = held \ {"frame"} /\ UNCHANGED sessVars
       \/ Stay("Send") /\ Malloc /\ UNCHANGED <<held, faults>>
    /\ LoopUnchanged

\* SendSerializedData up to the return of SessSendData.
Send ==
    /\ pc = "Send"
    /\ \/ Stay("Count") /\ SessSendData /\ UNCHANGED <<held, faults>>
       \/ Stay("LoopHead") /\ FreeUnsent /\ ReleaseFrame
       \/ Leave(TRUE) /\ FreeUnsent /\ Fault /\ held' = held \ {"frame"}
    /\ LoopUnchanged

\* SendData counts the send, and the main loop gives the frame back.
Count ==
    /\ pc = "Count"
    /\ CountSend
    /\ Stay("WaitSend")
    /\ ReleaseFrame
    /\ LoopUnchanged

\* Mutant: the wait ends one callback too early.
WaitSendAllButOne ==
    /\ pc = "WaitSend"
    /\ \/ sendCnt <= 1 /\ Stay("LoopHead") /\ UNCHANGED faults
       \/ sendCnt > 1 /\ terminated /\ Leave(FALSE) /\ UNCHANGED faults
    /\ LoopUnchanged /\ UNCHANGED <<held, sessVars>>

\* Mutant: WaitDataSend, which only the callback ends, instead of the polling.
WaitDataSend ==
    /\ pc = "WaitSend"
    /\ ~Sending
    /\ Stay("LoopHead")
    /\ LoopUnchanged /\ UNCHANGED <<held, faults, sessVars>>

\* The wait for the callback, given up when the application must exit.  SetDnn,
\* which follows, may fail.
WaitSend ==
    /\ pc = "WaitSend"
    /\ \/ ~Sending /\ Stay("LoopHead") /\ UNCHANGED faults
       \/ ~Sending /\ Leave(TRUE) /\ Fault
       \/ Sending /\ terminated /\ Leave(FALSE) /\ UNCHANGED faults
    /\ LoopUnchanged /\ UNCHANGED <<held, sessVars>>

\* Finalize waits for the exit request after a fatal error, and only then.
Finalize ==
    /\ pc = "Finalize"
    /\ fatalError => terminated
    /\ pc' = "DeleteModels"
    /\ UNCHANGED <<evp, held, refused, deleted, senscord, cancel, fatalError, faults, sessVars>>

-----------------------------------------------------------------------------
(* The destructor of AppSequence, with those of what it deletes.           *)

EndUnchanged == UNCHANGED <<evp, fatalError, sessVars>>

\* A call that gives a resource back, and whose failure is ignored.
Release(at, r, next) ==
    /\ pc = at
    /\ pc' = next
    /\ \/ held' = held \ {r} /\ UNCHANGED <<refused, faults>>
       \/ Fault /\ refused' = refused \cup {r} /\ UNCHANGED held

\* app_model_, the analyzers and device_model_
DeleteModels ==
    /\ pc = "DeleteModels"
    /\ pc' = "CloseFrames"
    /\ deleted' = deleted \cup {"models"}
    /\ EndUnchanged /\ UNCHANGED <<held, refused, senscord, cancel, faults>>

\* Mutant: Close does nothing when the stream is stopped already.
CloseUnlessStopped ==
    /\ pc = "CloseFrames"
    /\ ~stream \/ streamStopped
    /\ pc' = "SessUnregister"
    /\ deleted' = deleted \cup {"senscord"}
    /\ EndUnchanged /\ UNCHANGED <<held, refused, senscord, cancel, faults>>

\* Close does nothing without a stream.
CloseNothing ==
    /\ pc = "CloseFrames"
    /\ ~stream
    /\ pc' = "SessUnregister"
    /\ deleted' = deleted \cup {"senscord"}
    /\ EndUnchanged /\ UNCHANGED <<held, refused, senscord, cancel, faults>>

CloseFrames ==
    /\ stream
    /\ Release("CloseFrames", "frame", "CloseCallback")
    /\ EndUnchanged /\ UNCHANGED <<deleted, senscord, cancel>>

CloseCallback ==
    /\ Release("CloseCallback", "frameCallback", "CloseCheck")
    /\ EndUnchanged /\ UNCHANGED <<deleted, senscord, cancel>>

CloseCheck ==
    /\ pc = "CloseCheck"
    /\ pc' = IF streamStopped THEN "CloseStream" ELSE "CloseStop"
    /\ EndUnchanged /\ UNCHANGED <<held, refused, deleted, senscord, cancel, faults>>

\* To stop a stream that the EVP thread has just stopped may succeed or fail.
CloseStop ==
    /\ pc = "CloseStop"
    /\ \/ pc' = "CloseMark" /\ held' = held \ {"running"} /\ UNCHANGED <<refused, faults>>
       \/ /\ pc' = "CloseStream"
          /\ IF "running" \in held THEN Fault /\ refused' = refused \cup {"running"}
                                   ELSE UNCHANGED <<refused, faults>>
          /\ UNCHANGED held
    /\ EndUnchanged /\ UNCHANGED <<deleted, senscord, cancel>>

CloseMark ==
    /\ pc = "CloseMark"
    /\ pc' = "CloseStream"
    /\ streamStopped' = TRUE
    /\ EndUnchanged /\ UNCHANGED <<held, refused, deleted, stream, cancel, faults>>

CloseStream ==
    /\ Release("CloseStream", "stream", "CoreExit")
    /\ EndUnchanged /\ UNCHANGED <<deleted, senscord, cancel>>

\* stream_ is cleared, the core exits, and the controller is deleted.
CoreExit ==
    /\ Release("CoreExit", "core", "SessUnregister")
    /\ stream' = FALSE
    /\ deleted' = deleted \cup {"senscord"}
    /\ EndUnchanged /\ UNCHANGED <<streamStopped, cancel>>

\* The callback is unregistered if SessInit succeeded.
SessUnregister ==
    /\ \/ "sess" \in held /\ Release("SessUnregister", "sendCallback", "SessExit")
       \/ /\ "sess" \notin held
          /\ pc = "SessUnregister" /\ pc' = "SessExit"
          /\ UNCHANGED <<held, refused, faults>>
    /\ EndUnchanged /\ UNCHANGED <<deleted, senscord, cancel>>

\* SessExit is called in any case; then sync_ and the controller are deleted.
SessExit ==
    /\ Release("SessExit", "sess", "Cancel")
    /\ deleted' = deleted \cup {"sess"}
    /\ EndUnchanged /\ UNCHANGED <<senscord, cancel>>

\* Mutant: Stop joins the thread without telling it to end.
JoinUntold ==
    /\ pc = "Cancel"
    /\ pc' = IF "thread" \in held THEN "Join" ELSE "Done"
    /\ EndUnchanged /\ UNCHANGED <<held, refused, deleted, senscord, cancel, faults>>

\* EvpThreadController::Stop does nothing without a thread.
Cancel ==
    /\ pc = "Cancel"
    /\ pc' = IF "thread" \in held THEN "Join" ELSE "Done"
    /\ cancel' = ("thread" \in held)
    /\ EndUnchanged /\ UNCHANGED <<held, refused, deleted, senscord, faults>>

Join ==
    /\ pc = "Join"
    /\ evpPc = "Ended"
    /\ pc' = "Done"
    /\ held' = held \ {"thread"}
    /\ cancel' = FALSE
    /\ EndUnchanged /\ UNCHANGED <<refused, deleted, senscord, faults>>

-----------------------------------------------------------------------------
(* The EVP thread: EvpThreadController::Process.  What it reads of an      *)
(* object that is deleted may be anything, and what it writes to one is    *)
(* lost.                                                                   *)

EvpUnchanged ==
    UNCHANGED <<pc, deleted, stream, cancel, fatalError, sessVars>>

EvpHead ==
    /\ evpPc = "Head"
    /\ evpPc' = IF cancel THEN "Ended" ELSE "Event"
    /\ EvpUnchanged /\ UNCHANGED <<held, refused, streamStopped, hasParam, terminated, faults>>

\* EVP_processEvent returns: nothing happened for a second, it failed, or it is
\* about to call ConfigurationCallback.
EvpEvent ==
    /\ evpPc = "Event"
    /\ evpPc' \in {"Head", "Callback"}
    /\ EvpUnchanged /\ UNCHANGED <<held, refused, streamStopped, hasParam, terminated, faults>>

\* EvpController::Callback: the analyzers validate the configuration; a parameter
\* is there from the first one that is valid.
EvpCallback ==
    /\ evpPc = "Callback"
    /\ evpPc' = "Head"
    /\ hasParam' \in {hasParam, TRUE}
    /\ EvpUnchanged /\ UNCHANGED <<held, refused, streamStopped, terminated, faults>>

\* EVP_processEvent returns EVP_SHOULDEXIT: the main thread is told first.
EvpShouldExit ==
    /\ evpPc = "Event"
    /\ evpPc' = "StopCheck"
    /\ terminated' = TRUE
    /\ EvpUnchanged /\ UNCHANGED <<held, refused, streamStopped, hasParam, faults>>

\* SenscordController::StopStream
EvpStopCheck ==
    /\ evpPc = "StopCheck"
    /\ \/ evpPc' = IF stream /\ ~streamStopped THEN "StopCall" ELSE "Ended"
       \/ "senscord" \in deleted /\ evpPc' \in {"StopCall", "Ended"}
    /\ EvpUnchanged /\ UNCHANGED <<held, refused, streamStopped, hasParam, terminated, faults>>

\* To stop a stream that does not run may succeed or fail.
EvpStopCall ==
    /\ evpPc = "StopCall"
    /\ \/ evpPc' = "StopMark" /\ held' = held \ {"running"} /\ UNCHANGED <<refused, faults>>
       \/ /\ evpPc' = "Ended"
          /\ IF "running" \in held THEN Fault /\ refused' = refused \cup {"evpStop"}
                                   ELSE UNCHANGED <<refused, faults>>
          /\ UNCHANGED held
    /\ EvpUnchanged /\ UNCHANGED <<streamStopped, hasParam, terminated>>

EvpStopMark ==
    /\ evpPc = "StopMark"
    /\ evpPc' = "Ended"
    /\ streamStopped' = (streamStopped \/ "senscord" \notin deleted)
    /\ EvpUnchanged /\ UNCHANGED <<held, refused, hasParam, terminated, faults>>

-----------------------------------------------------------------------------
(* The thread of Sess, which calls back while the callback is registered.  *)

LifeUnchanged ==
    UNCHANGED <<pc, evp, held, refused, deleted, senscord, cancel, fatalError, faults>>

SessFree == "sendCallback" \in held /\ CallbackFree /\ LifeUnchanged

SessDone == CallbackDone("sess" \notin deleted) /\ LifeUnchanged

-----------------------------------------------------------------------------
StartUp ==
    \/ EvpInit \/ StartThread \/ SessInit \/ SessRegister \/ CoreInit \/ OpenStream
    \/ StartStream \/ MarkStarted \/ RegisterFrame \/ WaitParam

Loop == LoopHead \/ GetFrameCancelled \/ Iterate \/ Send \/ Count \/ WaitSend

Destructor ==
    \/ DeleteModels \/ CloseNothing \/ CloseFrames \/ CloseCallback \/ CloseCheck
    \/ CloseStop \/ CloseMark \/ CloseStream \/ CoreExit
    \/ SessUnregister \/ SessExit \/ Cancel \/ Join

Main == StartUp \/ Loop \/ Finalize \/ Destructor

Evp ==
    \/ EvpHead \/ EvpEvent \/ EvpCallback \/ EvpShouldExit
    \/ EvpStopCheck \/ EvpStopCall \/ EvpStopMark

Environment == FrameArrives \/ GetFrameFails \/ SessFree \/ SessDone

Finished == pc = "Done" /\ UNCHANGED vars

Next == Main \/ Evp \/ Environment \/ Finished

Spec == Init /\ [][Next]_vars

\* The two threads are scheduled, and EVP_processEvent returns after its timeout.
\* No frame needs to arrive (the camera may not be streaming), Sess need not
\* answer, and nobody needs to configure the application or to end it.
FairSpec == Spec /\ WF_vars(Main) /\ WF_vars(Evp)

-----------------------------------------------------------------------------
(* Properties.                                                             *)

\* A program that ended has given back what it acquired, wherever its start-up or
\* its loop was left, save what the platform refused to take (and the core when
\* the stream could not be opened: Close takes that for nothing to close), and
\* every result it did not hand to Sess is freed.
CleanedUp ==
    pc = "Done" =>
        /\ held \subseteq refused \cup (IF "open" \in refused THEN {"core"} ELSE {})
        /\ AtApp = {}

\* Close does not close a stream that runs, unless it tried in vain to stop it:
\* stream_stopped_ never says stopped of a stream that runs, whichever thread
\* started or stopped it last.
StoppedBeforeClose ==
    [][(pc = "CloseStream" /\ pc' = "CoreExit")
         => ("running" \in held => "running" \in refused)]_vars

\* "Wait for first ConfigurationCallback called and succeeded to parse"
\* (app_sequence.cpp:110): no frame is analysed without a parameter, although an
\* exit request ends that wait too.
AnalysedWithParam == pc \in {"GetFrame", "Iterate", "Send"} => hasParam

\* Past the main loop Sess only still has a result, and may still call back, if
\* the wait for it was given up because of an exit request.
GivenUpOnExit ==
    pc \notin LoopSteps /\ (AtSess # {} \/ answered) => terminated

\* Sending implements SendOnce, whenever Sess calls back, before the send is
\* counted or long after: the count makes the main loop wait until the memory of
\* one result is given back before it asks for the next.
Result ==
    IF Cardinality(AtApp \cup AtSess) > 1 THEN "several"
    ELSE IF AtSess # {} THEN "sess"
    ELSE IF AtApp # {} THEN "app"
    ELSE "none"
Promise == INSTANCE SendOnce WITH result <- Result
SendsOnce == Promise!Spec

\* An exit request ends the program at whatever point of the start-up or the main
\* loop it arrives, even if no frame ever comes, unless the stream cannot be
\* stopped: StopStream finds nothing to stop before Open is through, but then the
\* main thread has yet to look at the flag.
ExitEnds == terminated ~> pc = "Done" \/ "evpStop" \in refused

\* A start-up that fails ends the program although no exit was asked for: the EVP
\* thread, which waits for events, is told to end before it is joined.  (README.md:213
\* of switch_od_ic has the sample exit only on EVP_SHOULDEXIT.  Initialize and main
\* do not: they finalize and return, and this is about that code.)
FailedStartEnds == pc = "Finalize" /\ ~fatalError ~> pc = "Done"

\* README_api_seq.md:137-145 joins the EVP thread before anything else is
\* finalized, so it never works on what the application has deleted.
EvpUsesAlive ==
    /\ evpPc = "Callback" => "models" \notin deleted
    /\ evpPc \in {"StopCheck", "StopCall", "StopMark"} => "senscord" \notin deleted
=============================================================================
