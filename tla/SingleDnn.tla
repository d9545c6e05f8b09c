----------------------------- MODULE SingleDnn -----------------------------
(***************************************************************************)
(* The single-DNN applications (vision_app_objectdetection.cpp and         *)
(* vision_app_classification.cpp, which differ in the analyzer they call): *)
(* the main thread, which acquires the platform's resources, runs the loop *)
(* over the frames and releases the resources down a ladder of labels, and *)
(* the EVP thread, which may stop the stream at any moment of it.          *)
(*                                                                         *)
(* pc and evpPc name the call each thread makes next; accesses to the      *)
(* globals the threads share (s_is_evp_exit, s_stream_stopped, s_stream)   *)
(* are steps of their own.                                                 *)
(***************************************************************************)
EXTENDS Naturals, FiniteSets

CONSTANTS
    PipelineDepth,  \* bound: frames captured and not yet fetched
    MaxFaults       \* bound: calls of the platform that fail

ASSUME SingleDnnAssumption ==
    /\ PipelineDepth \in Nat \ {0}
    /\ MaxFaults \in Nat

VARIABLES
    pc,             \* the main thread
    evpPc,          \* the EVP thread
    held,           \* what was acquired and not released
    refused,        \* history: what main tried to release in vain
    opened,         \* s_stream # NULL; nothing resets it
    stopped,        \* s_stream_stopped
    evpExit,        \* s_is_evp_exit
    pending,        \* frames captured and not yet fetched
    frame,          \* main holds a frame of the stream
    buffer,         \* p_out_buf points to memory of SessMalloc that is main's
    sendRet,        \* sess_ret of the last SessSendData
    faults          \* failures the platform may still produce

threads == <<pc, evpPc>>
globals == <<opened, stopped, evpExit>>
local == <<frame, buffer, sendRet>>
vars == <<pc, evpPc, held, refused, opened, stopped, evpExit, pending, frame, buffer,
          sendRet, faults>>

\* In the order in which main acquires them.
Resources == {"sess", "sendCallback", "core", "stream", "running", "frameCallback"}

StartUpSteps == {"SessInit", "RegisterSend", "CoreInit", "OpenStream", "StartStream",
                 "MarkStarted", "RegisterFrame", "GetCrop"}
LoopSteps == {"Head", "GetFrame", "GetChannel", "Analyze", "Send", "ReleaseFrame"}
LadderSteps == {"UnregFrame", "StopCheck", "StopStream", "MarkStopped", "CloseStream",
                "CoreExit", "UnregSend", "SessExit", "PthreadExit", "Join"}
EvpSteps == {"Head", "Event", "Check", "Stop", "Mark", "Ended"}
SendResults == {"kSessOK", "kSessNotStreaming", "kSessOther"}

TypeOK ==
    /\ pc \in StartUpSteps \cup LoopSteps \cup LadderSteps \cup {"Done"}
    /\ evpPc \in EvpSteps
    /\ held \subseteq Resources
    /\ refused \subseteq Resources
    /\ opened \in BOOLEAN
    /\ stopped \in BOOLEAN
    /\ evpExit \in BOOLEAN
    /\ pending \in 0..PipelineDepth
    /\ frame \in BOOLEAN
    /\ buffer \in BOOLEAN
    /\ sendRet \in SendResults
    /\ faults \in 0..MaxFaults

\* Main has just created the EVP thread.
Init ==
    /\ pc = "SessInit"
    /\ evpPc = "Head"
    /\ held = {}
    /\ refused = {}
    /\ opened = FALSE
    /\ stopped = TRUE
    /\ evpExit = FALSE
    /\ pending = 0
    /\ frame = FALSE
    /\ buffer = FALSE
    /\ sendRet = "kSessOK"
    /\ faults = MaxFaults

\* A call of the platform fails.
Fault ==
    /\ faults > 0
    /\ faults' = faults - 1

-----------------------------------------------------------------------------
(* Start-up: a call that fails jumps to the label that releases what was   *)
(* acquired before it.                                                     *)

Acquire(at, r, next, label) ==
    /\ pc = at
    /\ \/ pc' = next /\ held' = held \cup {r} /\ UNCHANGED faults
       \/ pc' = label /\ Fault /\ UNCHANGED held
    /\ UNCHANGED <<evpPc, refused, stopped, evpExit, pending, local>>

SessInit == Acquire("SessInit", "sess", "RegisterSend", "PthreadExit") /\ UNCHANGED opened

RegisterSend ==
    Acquire("RegisterSend", "sendCallback", "CoreInit", "SessExit") /\ UNCHANGED opened

CoreInit == Acquire("CoreInit", "core", "OpenStream", "UnregSend") /\ UNCHANGED opened

\* Mutant: a failing open jumps to the label that closes the stream.
OpenFailsToClose ==
    /\ Acquire("OpenStream", "stream", "StartStream", "CloseStream")
    /\ opened' = ("stream" \in held')

\* The call writes s_stream, which the EVP thread reads.
OpenStream ==
    /\ Acquire("OpenStream", "stream", "StartStream", "CoreExit")
    /\ opened' = ("stream" \in held')

StartStream ==
    Acquire("StartStream", "running", "MarkStarted", "CloseStream") /\ UNCHANGED opened

MarkStarted ==
    /\ pc = "MarkStarted"
    /\ stopped' = FALSE
    /\ pc' = "RegisterFrame"
    /\ UNCHANGED <<evpPc, held, refused, opened, evpExit, pending, local, faults>>

\* Mutant: the failure jumps past the label that stops the stream.
RegisterFailsToClose ==
    Acquire("RegisterFrame", "frameCallback", "GetCrop", "CloseStream") /\ UNCHANGED opened

RegisterFrame ==
    Acquire("RegisterFrame", "frameCallback", "GetCrop", "StopCheck") /\ UNCHANGED opened

GetCrop ==
    /\ pc = "GetCrop"
    /\ \/ pc' = "Head" /\ UNCHANGED faults
       \/ pc' = "UnregFrame" /\ Fault
    /\ UNCHANGED <<evpPc, held, refused, globals, pending, local>>

-----------------------------------------------------------------------------
(* The loop over the frames.                                               *)

\* A call of the loop that fails breaks out of it.
BreakOnFault == pc' = "UnregFrame" /\ Fault

\* Mutant: a loop that only a failing call leaves.
BlindHead ==
    /\ pc = "Head"
    /\ pc' = "GetFrame" /\ buffer' = FALSE
    /\ UNCHANGED <<evpPc, held, refused, globals, pending, frame, sendRet, faults>>

\* p_out_buf is a variable of the loop's body, NULL again in each iteration.
Head ==
    /\ pc = "Head"
    /\ IF evpExit
       THEN pc' = "UnregFrame" /\ UNCHANGED buffer
       ELSE pc' = "GetFrame" /\ buffer' = FALSE
    /\ UNCHANGED <<evpPc, held, refused, globals, pending, frame, sendRet, faults>>

\* Mutant: the call does not wait for a frame.
GetFrameNoWait ==
    /\ pc = "GetFrame"
    /\ pending' = pending - 1
    /\ frame' = TRUE
    /\ pc' = "GetChannel"
    /\ UNCHANGED <<evpPc, held, refused, globals, buffer, sendRet, faults>>

\* The call blocks until there is a frame; a stream that was stopped gives up.
GetFrame ==
    /\ pc = "GetFrame"
    /\ \/ /\ pending > 0
          /\ pending' = pending - 1
          /\ frame' = TRUE
          /\ pc' = "GetChannel"
       \/ /\ "running" \notin held
          /\ pc' = "UnregFrame"
          /\ UNCHANGED <<pending, frame>>
    /\ UNCHANGED <<evpPc, held, refused, globals, buffer, sendRet, faults>>

\* A timeout starts the next iteration, every other error breaks.
GetFrameFails ==
    /\ pc = "GetFrame"
    /\ \/ pc' = "Head" /\ UNCHANGED faults
       \/ BreakOnFault
    /\ UNCHANGED <<evpPc, held, refused, globals, pending, local>>

\* The channel of the output tensor, and its raw data.
GetChannel ==
    /\ pc = "GetChannel"
    /\ \/ pc' = "Analyze" /\ UNCHANGED faults
       \/ BreakOnFault
    /\ UNCHANGED <<evpPc, held, refused, globals, pending, local>>

\* Mutant: a failing analysis goes on with the next frame.
AnalyzeContinues ==
    /\ pc = "Analyze"
    /\ \/ pc' = "Send" /\ buffer' = TRUE
       \/ pc' = "Head" /\ UNCHANGED buffer
    /\ UNCHANGED <<evpPc, held, refused, globals, pending, frame, sendRet, faults>>

\* What cannot be analysed, or is too large to be sent, is dropped.
Analyze ==
    /\ pc = "Analyze"
    /\ \/ pc' = "Send" /\ buffer' = TRUE
       \/ pc' = "ReleaseFrame" /\ UNCHANGED buffer
    /\ UNCHANGED <<evpPc, held, refused, globals, pending, frame, sendRet, faults>>

\* Mutant: what is too large is not freed.
SendKeepsLarge ==
    /\ pc = "Send"
    /\ pc' = "ReleaseFrame"
    /\ \/ sendRet' = "kSessOK" /\ buffer' = FALSE
       \/ UNCHANGED <<sendRet, buffer>>
    /\ UNCHANGED <<evpPc, held, refused, globals, pending, frame, faults>>

\* The buffer is Sess's when the result is kSessOK, and stays main's otherwise.
Send ==
    /\ pc = "Send"
    /\ \/ /\ pc' = "ReleaseFrame"
          /\ buffer' = FALSE
          /\ \/ sendRet' = "kSessOK"
             \/ UNCHANGED sendRet    \* too large: SessFree
          /\ UNCHANGED faults
       \/ /\ pc' = "ReleaseFrame"
          /\ sendRet' = "kSessNotStreaming"
          /\ UNCHANGED <<buffer, faults>>
       \/ /\ BreakOnFault
          /\ sendRet' = "kSessOther"
          /\ UNCHANGED buffer
    /\ UNCHANGED <<evpPc, held, refused, globals, pending, frame>>

ReleaseFrame ==
    /\ pc = "ReleaseFrame"
    /\ \/ pc' = "Head" /\ frame' = FALSE /\ UNCHANGED faults
       \/ BreakOnFault /\ UNCHANGED frame
    /\ UNCHANGED <<evpPc, held, refused, globals, pending, buffer, sendRet>>

-----------------------------------------------------------------------------
(* The ladder: a release that fails is logged, and the next one follows.   *)

Release(at, r, next) ==
    /\ pc = at
    /\ pc' = next
    /\ \/ held' = held \ {r} /\ UNCHANGED <<refused, faults>>
       \/ refused' = refused \cup {r} /\ Fault /\ UNCHANGED held
    /\ UNCHANGED <<evpPc, globals, pending, local>>

UnregFrame == Release("UnregFrame", "frameCallback", "StopCheck")

StopCheck ==
    /\ pc = "StopCheck"
    /\ pc' = IF stopped THEN "CloseStream" ELSE "StopStream"
    /\ UNCHANGED <<evpPc, held, refused, globals, pending, local, faults>>

\* senscord_stream_stop fails; that it refuses a stream which does not run (any
\* more) is not counted as a failure of the platform.
StopFails == IF "running" \in held THEN Fault ELSE UNCHANGED faults

StopStream ==
    /\ pc = "StopStream"
    /\ \/ /\ pc' = "MarkStopped"
          /\ held' = held \ {"running"}
          /\ UNCHANGED <<refused, faults>>
       \/ /\ pc' = "CloseStream"
          /\ refused' = refused \cup {"running"}
          /\ StopFails
          /\ UNCHANGED held
    /\ UNCHANGED <<evpPc, globals, pending, local>>

\* Mutant: main does not note that it stopped the stream.
StoppedUnmarked ==
    /\ pc = "MarkStopped"
    /\ pc' = "CloseStream"
    /\ UNCHANGED <<evpPc, held, refused, globals, pending, local, faults>>

MarkStopped ==
    /\ pc = "MarkStopped"
    /\ pc' = "CloseStream"
    /\ stopped' = TRUE
    /\ UNCHANGED <<evpPc, held, refused, opened, evpExit, pending, local, faults>>

CloseStream == Release("CloseStream", "stream", "CoreExit")
CoreExit == Release("CoreExit", "core", "UnregSend")
UnregSend == Release("UnregSend", "sendCallback", "SessExit")
SessExit == Release("SessExit", "sess", "PthreadExit")

\* Mutant: main joins the EVP thread without telling it to end.
JoinUntold ==
    /\ pc = "PthreadExit"
    /\ pc' = "Join"
    /\ UNCHANGED <<evpPc, held, refused, globals, pending, local, faults>>

PthreadExit ==
    /\ pc = "PthreadExit"
    /\ pc' = "Join"
    /\ evpExit' = TRUE
    /\ UNCHANGED <<evpPc, held, refused, opened, stopped, pending, local, faults>>

Join ==
    /\ pc = "Join"
    /\ evpPc = "Ended"
    /\ pc' = "Done"
    /\ UNCHANGED <<evpPc, held, refused, globals, pending, local, faults>>

-----------------------------------------------------------------------------
(* The EVP thread.                                                         *)

EvpUnchanged == UNCHANGED <<pc, refused, opened, pending, local>>

EvpHead ==
    /\ evpPc = "Head"
    /\ evpPc' = IF evpExit THEN "Ended" ELSE "Event"
    /\ EvpUnchanged /\ UNCHANGED <<held, stopped, evpExit, faults>>

\* EVP_processEvent handles something else, or nothing for a second.
EvpOther ==
    /\ evpPc = "Event"
    /\ evpPc' = "Head"
    /\ EvpUnchanged /\ UNCHANGED <<held, stopped, evpExit, faults>>

\* EVP_processEvent returns EVP_SHOULDEXIT.
EvpShouldExit ==
    /\ evpPc = "Event"
    /\ evpPc' = "Check"
    /\ evpExit' = TRUE
    /\ EvpUnchanged /\ UNCHANGED <<held, stopped, faults>>

\* Mutant: the flag is set before the stream is stopped.
FlagBeforeStop ==
    /\ evpPc = "Check"
    /\ IF opened /\ ~stopped
       THEN evpPc' = "Stop" /\ stopped' = TRUE
       ELSE evpPc' = "Ended" /\ UNCHANGED stopped
    /\ EvpUnchanged /\ UNCHANGED <<held, evpExit, faults>>

EvpCheck ==
    /\ evpPc = "Check"
    /\ evpPc' = IF opened /\ ~stopped THEN "Stop" ELSE "Ended"
    /\ EvpUnchanged /\ UNCHANGED <<held, stopped, evpExit, faults>>

EvpStop ==
    /\ evpPc = "Stop"
    /\ \/ /\ evpPc' = "Mark"
          /\ held' = held \ {"running"}
          /\ UNCHANGED faults
       \/ /\ evpPc' = "Ended"
          /\ StopFails
          /\ UNCHANGED held
    /\ EvpUnchanged /\ UNCHANGED <<stopped, evpExit>>

EvpMark ==
    /\ evpPc = "Mark"
    /\ evpPc' = "Ended"
    /\ stopped' = TRUE
    /\ EvpUnchanged /\ UNCHANGED <<held, evpExit, faults>>

-----------------------------------------------------------------------------
\* A stream that runs delivers frames.
Capture ==
    /\ "running" \in held
    /\ pending < PipelineDepth
    /\ pending' = pending + 1
    /\ UNCHANGED <<threads, held, refused, globals, local, faults>>

StartUp ==
    \/ SessInit \/ RegisterSend \/ CoreInit \/ OpenStream \/ StartStream \/ MarkStarted
    \/ RegisterFrame \/ GetCrop

Loop == Head \/ GetFrame \/ GetChannel \/ Analyze \/ Send \/ ReleaseFrame

Ladder ==
    \/ UnregFrame \/ StopCheck \/ StopStream \/ MarkStopped \/ CloseStream \/ CoreExit
    \/ UnregSend \/ SessExit \/ PthreadExit \/ Join

Main == StartUp \/ Loop \/ Ladder

Evp == EvpHead \/ EvpOther \/ EvpShouldExit \/ EvpCheck \/ EvpStop \/ EvpMark

Finished == pc = "Done" /\ UNCHANGED vars

Next == Main \/ GetFrameFails \/ Evp \/ Capture \/ Finished

Spec == Init /\ [][Next]_vars

\* The two threads are scheduled, EVP_processEvent returns after its timeout at
\* the latest, and a stream that runs delivers frames.  Neither an exit request
\* nor a failing call is forced by it.
FairSpec == Spec /\ WF_vars(Main) /\ WF_vars(Evp) /\ WF_vars(Capture)

-----------------------------------------------------------------------------
(* Properties.                                                             *)

\* What the main thread holds when it is about to make a call, without the
\* stream's being started, which is also the EVP thread's to end.
Due(step) ==
    IF step \in {"SessInit", "PthreadExit", "Join", "Done"} THEN {}
    ELSE IF step \in {"RegisterSend", "SessExit"} THEN {"sess"}
    ELSE IF step \in {"CoreInit", "UnregSend"} THEN {"sess", "sendCallback"}
    ELSE IF step \in {"OpenStream", "CoreExit"} THEN {"sess", "sendCallback", "core"}
    ELSE IF step \in {"StartStream", "MarkStarted", "RegisterFrame", "StopCheck", "StopStream",
                      "MarkStopped", "CloseStream"}
         THEN {"sess", "sendCallback", "core", "stream"}
    ELSE {"sess", "sendCallback", "core", "stream", "frameCallback"}

\* Whichever call of the start-up fails and wherever the loop is left, a label
\* of the ladder is only reached with the resource it releases in hand.
ReleasesHeld == Due(pc) \subseteq held

\* When the program ends it has given back everything it acquired, save what the
\* platform refused to take; in particular the stream was stopped by one of the
\* two threads.
CleanedUp == pc = "Done" => held \subseteq refused

\* The stream is not closed while it runs, unless main's own attempt to stop it
\* failed: s_stream_stopped never says stopped of a stream that runs.
StoppedBeforeClose ==
    [][(pc = "CloseStream" /\ pc' = "CoreExit")
         => ("running" \in held => "running" \in refused)]_vars

\* An exit request that is looked at after the stream was closed leaves it alone:
\* s_stream still points to it, and only s_stream_stopped keeps the EVP thread from
\* stopping it again.  (Not so when main's stop failed.)
NoStopAfterClose ==
    [][(evpPc = "Check" /\ evpPc' = "Stop")
         => ("stream" \in held \/ "running" \in refused)]_vars

\* The loop fetches a frame only after it gave back the one before, and leaves one
\* behind only when a call failed.
FrameGivenBack ==
    /\ pc \in {"Head", "GetFrame"} => ~frame
    /\ frame /\ pc \notin LoopSteps => faults < MaxFaults

\* The memory of a result is lost only if Sess did not take it.
LostOnlyIfRefused ==
    pc \in {"Head", "UnregFrame"} /\ buffer => sendRet # "kSessOK"

\* README_api_seq.md:110-130: what SessMalloc gave is given back by SessFree in each
\* iteration.  StateOd::SendSerializedData of the switching application frees the
\* memory itself when the camera is not streaming; the single-DNN loop goes on.
BufferFreed == pc = "Head" => ~buffer

\* README_api_seq.md:137-145: the EVP thread is joined before SessExit.
JoinedBeforeSessExit ==
    [][(pc = "SessExit" /\ pc' = "PthreadExit") => evpPc = "Ended"]_vars

\* An exit request ends the program, also when the stream cannot be stopped.
ExitHonoured == evpExit ~> pc = "Done"

\* Once main is on the ladder, without an exit request too, it gets to its end: the
\* EVP thread it waits for is told to end.
LadderEnds == pc \in LadderSteps ~> pc = "Done"

-----------------------------------------------------------------------------
(* The inductive invariant.                                                *)

\* Nobody stops a stream that main has not marked as started.
NotStarted == {"SessInit", "RegisterSend", "CoreInit", "OpenStream", "StartStream"}
StartInv ==
    /\ pc \in NotStarted => "running" \notin held
    /\ pc \in NotStarted \cup {"MarkStarted"} => stopped /\ evpPc \notin {"Stop", "Mark"}

\* s_stream_stopped, and the step that is about to set it, tell the truth.
FlagInv ==
    /\ stopped /\ pc # "MarkStarted" => "running" \notin held
    /\ pc = "MarkStopped" \/ evpPc = "Mark" => "running" \notin held

\* Past the label that stops the stream.
StopPassed == {"CloseStream", "CoreExit", "UnregSend", "SessExit", "PthreadExit", "Join", "Done"}
StopInv == pc \in StopPassed => stopped \/ "running" \in refused

\* What is held beyond what is due was refused.
LeftInv == held \subseteq Due(pc) \cup refused \cup {"running"}

LoopInv ==
    /\ FrameGivenBack
    /\ pc \in StartUpSteps => ~frame
    /\ pc \in {"Head", "ReleaseFrame", "UnregFrame"} /\ buffer => sendRet # "kSessOK"
    /\ pc \in StartUpSteps \cup {"GetFrame", "GetChannel", "Analyze"} => ~buffer

IInv == TypeOK /\ ReleasesHeld /\ StartInv /\ FlagInv /\ StopInv /\ LeftInv /\ LoopInv
=============================================================================
