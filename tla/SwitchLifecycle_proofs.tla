---------------------- MODULE SwitchLifecycle_proofs ----------------------
(***************************************************************************)
(* The switching application from main() to its end, for any number of     *)
(* buffers and of failures: it gives back what it acquired, never closes a *)
(* stream that runs, analyses nothing without a parameter, and sends its   *)
(* results one by one.                                                     *)
(***************************************************************************)
EXTENDS SwitchLifecycle, FiniteSetTheorems, TLAPS

-----------------------------------------------------------------------------
(* The inductive invariant.                                                *)

\* Where the destructor closes the SensCord controller, and where it is past the
\* calls that release each resource.
PastClose == EndSteps
PastStop == {"CloseStream", "CoreExit"} \cup PastClose
PastCallback == {"CloseCheck", "CloseStop", "CloseMark"} \cup PastStop
PastFrames == {"CloseCallback"} \cup PastCallback

\* Steps with an open stream.
Opened ==
    {"StartStream", "MarkStarted", "RegisterFrame", "WaitParam"} \cup LoopSteps
        \cup (CloseSteps \ {"CloseFrames"})

\* Steps before there is a stream, and before Open has marked it as started.
BeforeOpen == {"EvpInit", "StartThread", "SessInit", "SessRegister", "CoreInit", "OpenStream"}
BeforeMark == {"StartStream", "MarkStarted"} \cup BeforeOpen

\* stream_ tells whether there is anything to close.
StreamInv ==
    /\ pc \in BeforeOpen => ~stream
    /\ pc \in Opened => stream
    /\ "senscord" \in deleted => pc \in PastClose
    /\ ~stream /\ pc \notin PastClose =>
         /\ held \cap {"stream", "running", "frameCallback", "frame"} = {}
         /\ "core" \in held => pc = "OpenStream" \/ "open" \in refused

\* stream_stopped_ is not set while the stream runs, save that Open has yet to clear it.
FlagInv ==
    /\ pc \in BeforeMark => streamStopped /\ evpPc \notin {"StopCall", "StopMark"}
    /\ pc \in BeforeMark \ {"MarkStarted"} => "running" \notin held
    /\ evpPc = "StopMark" \/ pc = "CloseMark" => "running" \notin held
    /\ "running" \in held /\ streamStopped => pc = "MarkStarted" \/ "running" \in refused

\* What the destructor has released is gone, unless the release was refused.
HeldInv ==
    /\ pc \in PastFrames /\ "frame" \in held => "frame" \in refused
    /\ pc \in PastCallback /\ "frameCallback" \in held => "frameCallback" \in refused
    /\ pc \in PastStop /\ "running" \in held => "running" \in refused
    /\ pc \in {"CoreExit"} \cup PastClose /\ "stream" \in held => "stream" \in refused
    /\ pc \in PastClose /\ "core" \in held => refused \cap {"core", "open"} # {}
    /\ pc = "SessRegister" => "sess" \in held
    /\ pc \notin EndSteps \ {"SessUnregister"} /\ "sendCallback" \in held => "sess" \in held
    /\ pc \in EndSteps \ {"SessUnregister"} /\ "sendCallback" \in held
         => "sendCallback" \in refused
    /\ pc \in {"Cancel", "Join", "Done"} /\ "sess" \in held => "sess" \in refused
    /\ pc = "Done" => "thread" \notin held

\* A parameter is there past the wait for it, or the loop is about to be left.
ParamInv ==
    /\ pc = "LoopHead" => terminated \/ hasParam
    /\ pc \in LoopSteps \ {"LoopHead"} => hasParam

\* Sess has a result, or is about to have its callback counted.
Pending == AtSess # {} \/ answered

\* One buffer at a time is in use; the count of sends is the number of callbacks to
\* come, less the send that SendData has yet to count.
SendInv ==
    /\ \A b, c \in Buffers : memory[b] # "free" /\ memory[c] # "free" => b = c
    /\ IF pc = "Send" THEN outBuf \in Buffers /\ memory[outBuf] = "app" ELSE AtApp = {}
    /\ ~(answered /\ AtSess # {})
    /\ pc = "Count" => sendCnt = IF Pending THEN 0 ELSE -1
    /\ pc # "Count" /\ "sess" \notin deleted => sendCnt = IF Pending THEN 1 ELSE 0
    /\ Pending => \/ pc \in {"Count", "WaitSend"}
                  \/ pc \notin StartUpSteps \cup LoopSteps /\ terminated
    /\ "sess" \in deleted => pc \in {"Cancel", "Join", "Done"}

IInv == TypeOK /\ StreamInv /\ FlagInv /\ HeldInv /\ ParamInv /\ SendInv

-----------------------------------------------------------------------------
LEMMA Initially == Init => IInv
<1>. SUFFICES ASSUME Init PROVE IInv
  OBVIOUS
<1>. USE DEF Init
<1>1. SessTypeOK
  <2>1. outBuf \in Buffers \cup {NoBuffer} /\ sendCnt \in -1..1
    BY DEF SessStart
  <2>2. memory \in [Buffers -> {"free", "app", "sess"}]
    BY DEF SessStart
  <2>3. answered \in BOOLEAN
    BY Zenon DEF SessStart
  <2>. QED
    BY <2>1, <2>2, <2>3 DEF SessTypeOK
<1>2. TypeOK
  <2>1. /\ pc \in StartUpSteps /\ evpPc \in EvpSteps /\ faults \in 0..MaxFaults
        /\ held \subseteq Resources /\ refused \subseteq Refusals /\ deleted \subseteq Objects
    BY LifecycleAssumption DEF StartUpSteps, EvpSteps
  <2>2. /\ stream \in BOOLEAN /\ streamStopped \in BOOLEAN /\ hasParam \in BOOLEAN
        /\ terminated \in BOOLEAN /\ cancel \in BOOLEAN /\ fatalError \in BOOLEAN
    BY Zenon
  <2>. QED
    BY <1>1, <2>1, <2>2, Zenon DEF TypeOK
<1>3. StreamInv /\ FlagInv /\ HeldInv /\ ParamInv
  BY DEF StreamInv, FlagInv, HeldInv, ParamInv, LoopSteps, CloseSteps, EndSteps, Opened,
     BeforeOpen, BeforeMark, PastClose, PastStop, PastCallback, PastFrames
<1>4. SendInv
  <2>1. AtSess = {} /\ AtApp = {} /\ ~Pending
    BY DEF SessStart, AtSess, AtApp, Pending
  <2>. QED
    BY <2>1 DEF SendInv, SessStart, StartUpSteps, LoopSteps
<1>. QED
  BY <1>2, <1>3, <1>4 DEF IInv

\* What the EVP thread leaves alone.
LEMMA EvpFrame ==
  ASSUME TypeOK, Evp
  PROVE  /\ UNCHANGED <<pc, deleted, stream, cancel, fatalError, sessVars>>
         /\ held' = held \/ held' = held \ {"running"}
         /\ refused' = refused \/ refused' = refused \cup {"evpStop"}
         /\ hasParam => hasParam'
         /\ terminated => terminated'
<1>. USE DEF EvpUnchanged
<1>1. CASE EvpHead \/ EvpEvent \/ EvpShouldExit
  BY <1>1 DEF EvpHead, EvpEvent, EvpShouldExit
<1>2. CASE EvpCallback
  BY <1>2 DEF EvpCallback, TypeOK
<1>3. CASE EvpStopCheck \/ EvpStopCall \/ EvpStopMark
  BY <1>3 DEF EvpStopCheck, EvpStopCall, EvpStopMark
<1>. QED
  BY <1>1, <1>2, <1>3 DEF Evp

LEMMA StreamStep == IInv /\ Next => StreamInv'
<1>. SUFFICES ASSUME IInv, Next PROVE StreamInv'
  OBVIOUS
<1>. USE DEF IInv, StreamInv, BeforeOpen, Opened, PastClose, StartUpSteps, LoopSteps, CloseSteps, EndSteps,
             LoopUnchanged, EndUnchanged, EvpUnchanged, LifeUnchanged, evp, senscord
<1>0. CASE OpenStream
  <2>1. CASE pc' = "StartStream" /\ held' = held \cup {"stream"}
    BY <1>0, <2>1 DEF OpenStream, Acquire
  <2>2. CASE pc' = "Finalize" /\ held' = held
    <3>1. ~stream /\ "stream" \notin held
      BY <1>0, <2>2 DEF OpenStream, Acquire
    <3>. QED
      BY <1>0, <2>2, <3>1 DEF OpenStream, Acquire
  <2>. QED
    BY <1>0, <2>1, <2>2 DEF OpenStream, Acquire
<1>1. CASE EvpInit \/ StartThread \/ SessInit \/ SessRegister \/ CoreInit
  BY <1>1 DEF EvpInit, StartThread, SessInit, SessRegister, CoreInit, Acquire
<1>7. CASE StartStream \/ MarkStarted \/ RegisterFrame \/ WaitParam
  BY <1>7 DEF StartStream, MarkStarted, RegisterFrame, WaitParam, Acquire
<1>2. CASE Loop \/ FrameArrives \/ GetFrameFails
  BY <1>2 DEF Loop, LoopHead, GetFrameCancelled, Iterate, Send, Count, WaitSend, FrameArrives,
     GetFrameFails, Leave, Stay, ReleaseFrame, FlagInv, HeldInv
<1>3. CASE Finalize \/ Finished
  BY <1>3 DEF Finalize, Finished, vars
<1>4. CASE Destructor
  BY <1>4 DEF Destructor, DeleteModels, CloseNothing, CloseFrames, CloseCallback, CloseCheck,
     CloseStop, CloseMark, CloseStream, CoreExit, SessUnregister, SessExit, Cancel, Join, Release
<1>5. CASE Evp
  BY <1>5, EvpFrame
<1>6. CASE SessFree \/ SessDone
  BY <1>6 DEF SessFree, SessDone
<1>. QED
  BY <1>0, <1>1, <1>2, <1>3, <1>4, <1>5, <1>6, <1>7 DEF Next, Main, Environment, StartUp

LEMMA FlagStep == IInv /\ Next => FlagInv'
<1>. SUFFICES ASSUME IInv, Next PROVE FlagInv'
  OBVIOUS
<1>. USE DEF IInv, FlagInv, BeforeOpen, BeforeMark, StartUpSteps, LoopSteps, CloseSteps, EndSteps,
             LoopUnchanged, EndUnchanged, EvpUnchanged, LifeUnchanged, evp, senscord
<1>1. CASE EvpInit \/ StartThread \/ SessInit \/ SessRegister \/ CoreInit \/ OpenStream
  BY <1>1 DEF EvpInit, StartThread, SessInit, SessRegister, CoreInit, OpenStream, Acquire
<1>7. CASE StartStream \/ MarkStarted \/ RegisterFrame \/ WaitParam
  BY <1>7 DEF StartStream, MarkStarted, RegisterFrame, WaitParam, Acquire
<1>2. CASE Loop \/ FrameArrives \/ GetFrameFails
  BY <1>2 DEF Loop, LoopHead, GetFrameCancelled, Iterate, Send, Count, WaitSend, FrameArrives,
     GetFrameFails, Leave, Stay, ReleaseFrame
<1>3. CASE Finalize \/ Finished
  BY <1>3 DEF Finalize, Finished, vars
<1>4. CASE Destructor
  BY <1>4 DEF Destructor, DeleteModels, CloseNothing, CloseFrames, CloseCallback, CloseCheck,
     CloseStop, CloseMark, CloseStream, CoreExit, SessUnregister, SessExit, Cancel, Join, Release
<1>5. CASE Evp
  <2>. pc' = pc
    BY <1>5, EvpFrame
  <2>1. CASE EvpHead \/ EvpEvent \/ EvpCallback \/ EvpShouldExit
    <3>1. UNCHANGED <<held, refused, streamStopped>> /\ evpPc' \notin {"StopCall", "StopMark"}
      BY <2>1 DEF EvpHead, EvpEvent, EvpCallback, EvpShouldExit
    <3>. QED
      BY <3>1
  <2>2. CASE EvpStopCheck
    BY <2>2 DEF EvpStopCheck, StreamInv, PastClose
  <2>3. CASE EvpStopCall
    BY <2>3 DEF EvpStopCall
  <2>4. CASE EvpStopMark
    BY <2>4 DEF EvpStopMark
  <2>. QED
    BY <1>5, <2>1, <2>2, <2>3, <2>4 DEF Evp
<1>6. CASE SessFree \/ SessDone
  BY <1>6 DEF SessFree, SessDone
<1>. QED
  BY <1>1, <1>2, <1>3, <1>4, <1>5, <1>6, <1>7 DEF Next, Main, Environment, StartUp

LEMMA HeldStep == IInv /\ Next => HeldInv'
<1>. SUFFICES ASSUME IInv, Next PROVE HeldInv'
  OBVIOUS
<1>. USE DEF IInv, HeldInv, PastClose, PastStop, PastCallback, PastFrames, StartUpSteps, LoopSteps,
             CloseSteps, EndSteps, LoopUnchanged, EndUnchanged, EvpUnchanged, LifeUnchanged
<1>1. CASE EvpInit \/ StartThread \/ SessInit \/ SessRegister \/ CoreInit
  BY <1>1 DEF EvpInit, StartThread, SessInit, SessRegister, CoreInit, Acquire
<1>9. CASE OpenStream \/ StartStream \/ MarkStarted \/ RegisterFrame \/ WaitParam
  BY <1>9 DEF OpenStream, StartStream, MarkStarted, RegisterFrame, WaitParam, Acquire
<1>2. CASE Loop \/ FrameArrives \/ GetFrameFails
  BY <1>2 DEF Loop, LoopHead, GetFrameCancelled, Iterate, Send, Count, WaitSend, FrameArrives,
     GetFrameFails, Leave, Stay, ReleaseFrame
<1>3. CASE Finalize \/ Finished
  BY <1>3 DEF Finalize, Finished, vars
<1>4. CASE DeleteModels \/ CloseNothing \/ CloseFrames \/ CloseCallback
  BY <1>4 DEF DeleteModels, CloseNothing, CloseFrames, CloseCallback, Release, StreamInv
<1>7. CASE CloseCheck \/ CloseStop \/ CloseMark \/ CloseStream \/ CoreExit
  BY <1>7 DEF CloseCheck, CloseStop, CloseMark, CloseStream, CoreExit, Release, FlagInv
<1>8. CASE SessUnregister \/ SessExit \/ Cancel \/ Join
  BY <1>8 DEF SessUnregister, SessExit, Cancel, Join, Release
<1>5. CASE Evp
  BY <1>5, EvpFrame
<1>6. CASE SessFree \/ SessDone
  BY <1>6 DEF SessFree, SessDone
<1>. QED
  BY <1>1, <1>2, <1>3, <1>4, <1>5, <1>6, <1>7, <1>8, <1>9 DEF Next, Main, Environment, Destructor, StartUp

LEMMA ParamStep == IInv /\ Next => ParamInv'
<1>. SUFFICES ASSUME IInv, Next PROVE ParamInv'
  OBVIOUS
<1>. USE DEF IInv, ParamInv, StartUpSteps, LoopSteps, CloseSteps, EndSteps,
             LoopUnchanged, EndUnchanged, LifeUnchanged, evp
<1>1. CASE StartUp
  BY <1>1 DEF StartUp, EvpInit, StartThread, SessInit, SessRegister, CoreInit, OpenStream,
     StartStream, MarkStarted, RegisterFrame, WaitParam, Acquire
<1>2. CASE Loop \/ FrameArrives \/ GetFrameFails
  BY <1>2 DEF Loop, LoopHead, GetFrameCancelled, Iterate, Send, Count, WaitSend, FrameArrives,
     GetFrameFails, Leave, Stay
<1>3. CASE Finalize \/ Finished
  BY <1>3 DEF Finalize, Finished, vars
<1>4. CASE Destructor
  BY <1>4 DEF Destructor, DeleteModels, CloseNothing, CloseFrames, CloseCallback, CloseCheck,
     CloseStop, CloseMark, CloseStream, CoreExit, SessUnregister, SessExit, Cancel, Join, Release
<1>5. CASE Evp
  BY <1>5, EvpFrame
<1>6. CASE SessFree \/ SessDone
  BY <1>6 DEF SessFree, SessDone
<1>. QED
  BY <1>1, <1>2, <1>3, <1>4, <1>5, <1>6 DEF Next, Main, Environment

-----------------------------------------------------------------------------
(* Sending.                                                                *)

\* A step that neither sends nor deletes the Sess controller keeps SendInv if it stays
\* on the same side of the main loop's end.
LEMMA SendKept ==
  ASSUME SendInv, UNCHANGED sessVars, terminated => terminated',
         "sess" \in deleted' <=> "sess" \in deleted,
         \/ pc' = pc
         \/ /\ pc \notin {"Send", "Count", "WaitSend"} /\ pc' \notin {"Send", "Count"}
            /\ pc' \in StartUpSteps \cup LoopSteps => pc \in StartUpSteps \cup LoopSteps
            /\ pc \in {"Cancel", "Join", "Done"} => pc' \in {"Cancel", "Join", "Done"}
  PROVE  SendInv'
BY DEF SendInv, sessVars, Pending, AtSess, AtApp, StartUpSteps, LoopSteps

\* Malloc takes the only buffer in use.
LEMMA MallocSend ==
  ASSUME TypeOK, SendInv, Iterate, pc' = "Send", Malloc
  PROVE  SendInv'
<1>1. PICK b \in Buffers : memory[b] = "free" /\ memory' = [memory EXCEPT ![b] = "app"] /\ outBuf' = b
  BY DEF Malloc
<1>2. pc = "Iterate" /\ UNCHANGED <<answered, sendCnt, deleted, terminated>>
  BY DEF Iterate, Malloc, LoopUnchanged, evp
<1>3. memory \in [Buffers -> {"free", "app", "sess"}]
  BY DEF TypeOK, SessTypeOK
<1>4. ~Pending /\ AtApp = {} /\ AtSess = {}
  BY <1>2 DEF SendInv, Pending, StartUpSteps, LoopSteps
<1>5. \A c \in Buffers : memory[c] = "free"
  BY <1>3, <1>4 DEF AtApp, AtSess
<1>6. /\ memory'[b] = "app" /\ AtSess' = {}
      /\ \A c \in Buffers : c # b => memory'[c] = "free"
  BY <1>1, <1>3, <1>5 DEF AtSess
<1>. QED
  BY <1>1, <1>2, <1>4, <1>6 DEF SendInv, Pending

\* What leaves the application's hands leaves none behind.
LEMMA GivenAway ==
  ASSUME TypeOK, SendInv, pc = "Send", NEW to \in {"free", "sess"},
         memory' = [memory EXCEPT ![outBuf] = to]
  PROVE  /\ AtApp' = {} /\ AtSess = {} /\ ~answered
         /\ (AtSess' # {}) <=> to = "sess"
         /\ \A b, c \in Buffers : memory'[b] # "free" /\ memory'[c] # "free" => b = c
<1>1. memory \in [Buffers -> {"free", "app", "sess"}]
  BY DEF TypeOK, SessTypeOK
<1>2. outBuf \in Buffers /\ memory[outBuf] = "app"
  BY DEF SendInv
<1>3. \A c \in Buffers : c # outBuf => memory[c] = "free"
  BY <1>1, <1>2 DEF SendInv
<1>4. ~Pending
  BY DEF SendInv, StartUpSteps, LoopSteps
<1>5. /\ memory'[outBuf] = to
      /\ \A c \in Buffers : c # outBuf => memory'[c] = "free"
  BY <1>1, <1>2, <1>3
<1>. QED
  BY <1>2, <1>4, <1>5 DEF Pending, AtApp, AtSess

LEMMA SendSend ==
  ASSUME IInv, Send
  PROVE  SendInv'
<1>1. /\ pc = "Send" /\ "sess" \notin deleted /\ "sess" \notin deleted'
      /\ UNCHANGED <<answered, sendCnt, terminated>> /\ sendCnt = 0
  BY DEF Send, LoopUnchanged, evp, IInv, SendInv, SessSendData, FreeUnsent, Pending, StartUpSteps,
     LoopSteps
<1>2. CASE pc' = "Count" /\ SessSendData
  <2>1. memory' = [memory EXCEPT ![outBuf] = "sess"]
    BY <1>2 DEF SessSendData
  <2>. QED
    BY <1>1, <1>2, <2>1, GivenAway DEF IInv, SendInv, Pending
<1>3. CASE pc' \in {"LoopHead", "Finalize"} /\ FreeUnsent
  <2>1. memory' = [memory EXCEPT ![outBuf] = "free"]
    BY <1>3 DEF FreeUnsent
  <2>2. ~Pending'
    BY <1>1, <2>1, GivenAway DEF IInv, Pending
  <2>. QED
    BY <1>1, <1>3, <2>1, <2>2, GivenAway DEF IInv, SendInv
<1>. QED
  BY <1>2, <1>3 DEF Send, Stay, Leave

\* A callback frees the only buffer in use.
LEMMA FreeSend ==
  ASSUME IInv, CallbackFree, UNCHANGED <<pc, deleted, terminated>>
  PROVE  SendInv'
<1>1. PICK b \in Buffers : memory[b] = "sess" /\ memory' = [memory EXCEPT ![b] = "free"]
  BY DEF CallbackFree, AtSess
<1>2. memory \in [Buffers -> {"free", "app", "sess"}]
  BY DEF IInv, TypeOK, SessTypeOK
<1>3. \A c \in Buffers : memory'[c] = "free"
  BY <1>1, <1>2 DEF IInv, SendInv
<1>4. ~answered /\ answered' /\ UNCHANGED <<outBuf, sendCnt>>
  BY DEF CallbackFree
<1>5. Pending /\ pc # "Send"
  BY <1>1 DEF Pending, AtSess, IInv, SendInv
<1>6. AtSess' = {} /\ AtApp' = {} /\ Pending'
  BY <1>3, <1>4 DEF AtSess, AtApp, Pending
<1>. QED
  BY <1>3, <1>4, <1>5, <1>6 DEF IInv, SendInv

\* SyncSend::Done ends what was pending.
LEMMA DoneSend ==
  ASSUME IInv, CallbackDone("sess" \notin deleted), UNCHANGED <<pc, deleted, terminated>>
  PROVE  SendInv'
<1>1. /\ answered /\ ~answered' /\ UNCHANGED <<memory, outBuf>>
      /\ sendCnt' = IF "sess" \notin deleted THEN sendCnt - 1 ELSE sendCnt
  BY DEF CallbackDone
<1>2. Pending /\ AtSess = {} /\ AtSess' = {} /\ AtApp' = AtApp /\ ~Pending'
  BY <1>1 DEF Pending, AtSess, AtApp, IInv, SendInv
<1>3. pc = "Count" => "sess" \notin deleted
  BY DEF IInv, SendInv
<1>. QED
  BY <1>1, <1>2, <1>3 DEF IInv, SendInv

LEMMA SendStep == IInv /\ Next => SendInv'
<1>. SUFFICES ASSUME IInv, Next PROVE SendInv'
  OBVIOUS
<1>. USE DEF IInv, StartUpSteps, LoopSteps, CloseSteps, EndSteps, LoopUnchanged, EndUnchanged,
             LifeUnchanged, evp
<1>1. CASE StartUp
  BY <1>1, SendKept DEF StartUp, EvpInit, StartThread, SessInit, SessRegister, CoreInit, OpenStream,
     StartStream, MarkStarted, RegisterFrame, WaitParam, Acquire
<1>2. CASE LoopHead \/ GetFrameCancelled \/ FrameArrives \/ GetFrameFails
  BY <1>2, SendKept DEF LoopHead, GetFrameCancelled, FrameArrives, GetFrameFails, Leave, Stay
<1>3. CASE Iterate
  <2>1. CASE pc' = "Send" /\ Malloc
    BY <1>3, <2>1, MallocSend
  <2>2. CASE pc' \in {"LoopHead", "Finalize"} /\ UNCHANGED sessVars
    BY <1>3, <2>2, SendKept DEF Iterate
  <2>. QED
    BY <1>3, <2>1, <2>2 DEF Iterate, Stay, Leave
<1>4. CASE Send
  BY <1>4, SendSend
<1>5. CASE Count
  <2>1. /\ pc = "Count" /\ pc' = "WaitSend" /\ sendCnt' = sendCnt + 1
        /\ UNCHANGED <<memory, outBuf, answered, deleted, terminated>>
    BY <1>5 DEF Count, CountSend, Stay
  <2>2. AtSess' = AtSess /\ AtApp' = AtApp /\ Pending' = Pending
    BY <2>1 DEF AtSess, AtApp, Pending
  <2>. QED
    BY <2>1, <2>2 DEF SendInv
<1>6. CASE WaitSend
  <2>1. /\ pc = "WaitSend" /\ UNCHANGED <<sessVars, deleted, terminated>>
        /\ \/ sendCnt <= 0 /\ pc' \in {"LoopHead", "Finalize"}
           \/ terminated /\ pc' = "Finalize"
    BY <1>6 DEF WaitSend, Sending, Stay, Leave, TypeOK, SessTypeOK
  <2>2. AtSess' = AtSess /\ AtApp' = AtApp /\ Pending' = Pending
    BY <2>1 DEF AtSess, AtApp, Pending, sessVars
  <2>3. sendCnt <= 0 => ~Pending
    BY <2>1 DEF SendInv
  <2>. QED
    BY <2>1, <2>2, <2>3 DEF SendInv, sessVars
<1>7. CASE Finalize \/ Finished
  BY <1>7, SendKept DEF Finalize, Finished, vars
<1>8. CASE SessExit
  <2>1. /\ pc = "SessExit" /\ pc' = "Cancel" /\ "sess" \in deleted' /\ "sess" \notin deleted
        /\ UNCHANGED <<sessVars, terminated>>
    BY <1>8 DEF SessExit, Release, SendInv
  <2>. QED
    BY <2>1 DEF SendInv, sessVars, Pending, AtSess, AtApp
<1>9. CASE DeleteModels \/ CloseNothing \/ CloseFrames \/ CloseCallback \/ CloseCheck
           \/ CloseStop \/ CloseMark \/ CloseStream \/ CoreExit \/ SessUnregister \/ Cancel \/ Join
  BY <1>9, SendKept DEF DeleteModels, CloseNothing, CloseFrames, CloseCallback, CloseCheck,
     CloseStop, CloseMark, CloseStream, CoreExit, SessUnregister, Cancel, Join, Release
<1>10. CASE Evp
  BY <1>10, EvpFrame, SendKept
<1>11. CASE SessFree
  BY <1>11, FreeSend DEF SessFree
<1>12. CASE SessDone
  BY <1>12, DoneSend DEF SessDone
<1>. QED
  BY <1>1, <1>2, <1>3, <1>4, <1>5, <1>6, <1>7, <1>8, <1>9, <1>10, <1>11, <1>12
     DEF Next, Main, Loop, Destructor, Environment

-----------------------------------------------------------------------------
(* Types.                                                                  *)

LEMMA SessTypeStep == IInv /\ Next => SessTypeOK'
<1>. SUFFICES ASSUME IInv, Next PROVE SessTypeOK'
  OBVIOUS
<1>. USE DEF IInv, TypeOK, SessTypeOK, LoopUnchanged, EndUnchanged, LifeUnchanged
<1>0. CASE UNCHANGED sessVars
  BY <1>0 DEF sessVars
<1>1. CASE StartUp \/ Finalize \/ Finished \/ Destructor \/ Evp
  <2>1. UNCHANGED sessVars
    BY <1>1, EvpFrame DEF StartUp, EvpInit, StartThread, SessInit, SessRegister, CoreInit,
       OpenStream, StartStream, MarkStarted, RegisterFrame, WaitParam, Acquire, Finalize, Finished,
       vars, Destructor, DeleteModels, CloseNothing, CloseFrames, CloseCallback, CloseCheck,
       CloseStop, CloseMark, CloseStream, CoreExit, SessUnregister, SessExit, Cancel, Join
  <2>. QED
    BY <1>0, <2>1
<1>2. CASE LoopHead \/ GetFrameCancelled \/ FrameArrives \/ GetFrameFails \/ WaitSend
  BY <1>0, <1>2 DEF LoopHead, GetFrameCancelled, FrameArrives, GetFrameFails, WaitSend
<1>3. CASE Iterate
  <2>1. CASE Malloc
    BY <2>1 DEF Malloc
  <2>. QED
    BY <1>0, <1>3, <2>1 DEF Iterate
<1>4. CASE Send
  BY <1>4 DEF Send, SessSendData, FreeUnsent
<1>5. CASE Count
  <2>1. sendCnt \in {0, -1} /\ sendCnt' = sendCnt + 1 /\ UNCHANGED <<memory, outBuf, answered>>
    BY <1>5 DEF Count, CountSend, SendInv
  <2>. QED
    BY <2>1
<1>6. CASE SessFree
  BY <1>6 DEF SessFree, CallbackFree, AtSess
<1>7. CASE SessDone
  <2>1. /\ answered /\ ~answered' /\ answered' \in BOOLEAN /\ UNCHANGED <<memory, outBuf>>
        /\ sendCnt' = IF "sess" \notin deleted THEN sendCnt - 1 ELSE sendCnt
    BY <1>7 DEF SessDone, CallbackDone
  <2>2. "sess" \notin deleted => sendCnt \in {0, 1}
    BY <2>1 DEF SendInv, Pending
  <2>. QED
    BY <2>1, <2>2
<1>. QED
  BY <1>1, <1>2, <1>3, <1>4, <1>5, <1>6, <1>7 DEF Next, Main, Loop, Environment

\* The steps of the threads, the sets and the bound.
SetTypes ==
    /\ pc \in StartUpSteps \cup LoopSteps \cup {"Finalize", "DeleteModels"}
             \cup CloseSteps \cup EndSteps
    /\ evpPc \in EvpSteps
    /\ held \subseteq Resources
    /\ refused \subseteq Refusals
    /\ deleted \subseteq Objects
    /\ faults \in 0..MaxFaults

LEMMA FaultType ==
  ASSUME SetTypes, Fault \/ UNCHANGED faults
  PROVE  faults' \in 0..MaxFaults
BY LifecycleAssumption DEF SetTypes, Fault

LEMMA SetTypeStep == SetTypes /\ Next => SetTypes'
<1>. SUFFICES ASSUME SetTypes, Next PROVE SetTypes'
  OBVIOUS
<1>. USE DEF SetTypes, StartUpSteps, LoopSteps, CloseSteps, EndSteps, EvpSteps,
             LoopUnchanged, EndUnchanged, EvpUnchanged, LifeUnchanged, evp, senscord,
             Resources, Refusals, Objects
<1>1. CASE EvpInit \/ StartThread \/ SessInit \/ SessRegister \/ CoreInit
  BY <1>1, FaultType DEF EvpInit, StartThread, SessInit, SessRegister, CoreInit, Acquire
<1>2. CASE OpenStream
  BY <1>2, FaultType DEF OpenStream, Acquire
<1>3. CASE StartStream \/ MarkStarted \/ RegisterFrame \/ WaitParam
  BY <1>3, FaultType DEF StartStream, MarkStarted, RegisterFrame, WaitParam, Acquire
<1>4. CASE LoopHead \/ GetFrameCancelled \/ FrameArrives \/ GetFrameFails
  BY <1>4, FaultType DEF LoopHead, GetFrameCancelled, FrameArrives, GetFrameFails, Leave, Stay
<1>5. CASE Iterate \/ Send \/ Count \/ WaitSend
  BY <1>5, FaultType DEF Iterate, Send, Count, WaitSend, Leave, Stay, ReleaseFrame
<1>6. CASE Finalize \/ Finished
  BY <1>6, FaultType DEF Finalize, Finished, vars
<1>7. CASE DeleteModels \/ CloseNothing \/ CloseFrames \/ CloseCallback \/ CloseCheck
  BY <1>7, FaultType DEF DeleteModels, CloseNothing, CloseFrames, CloseCallback, CloseCheck, Release
<1>8. CASE CloseStop \/ CloseMark \/ CloseStream \/ CoreExit
  BY <1>8, FaultType DEF CloseStop, CloseMark, CloseStream, CoreExit, Release
<1>9. CASE SessUnregister \/ SessExit \/ Cancel \/ Join
  BY <1>9, FaultType DEF SessUnregister, SessExit, Cancel, Join, Release
<1>10. CASE EvpHead \/ EvpEvent \/ EvpCallback \/ EvpShouldExit
  BY <1>10, FaultType DEF EvpHead, EvpEvent, EvpCallback, EvpShouldExit
<1>11. CASE EvpStopCheck \/ EvpStopCall \/ EvpStopMark
  BY <1>11, FaultType DEF EvpStopCheck, EvpStopCall, EvpStopMark
<1>12. CASE SessFree \/ SessDone
  BY <1>12, FaultType DEF SessFree, SessDone
<1>. QED
  BY <1>1, <1>2, <1>3, <1>4, <1>5, <1>6, <1>7, <1>8, <1>9, <1>10, <1>11, <1>12
     DEF Next, Main, StartUp, Loop, Destructor, Evp, Environment

FlagTypes ==
    /\ stream \in BOOLEAN
    /\ streamStopped \in BOOLEAN
    /\ hasParam \in BOOLEAN
    /\ terminated \in BOOLEAN
    /\ cancel \in BOOLEAN
    /\ fatalError \in BOOLEAN

LEMMA FlagTypeStep == FlagTypes /\ Next => FlagTypes'
<1>. SUFFICES ASSUME FlagTypes, Next PROVE FlagTypes'
  OBVIOUS
<1>. USE DEF FlagTypes, LoopUnchanged, EndUnchanged, EvpUnchanged, LifeUnchanged, evp, senscord
<1>1. CASE EvpInit \/ StartThread \/ SessInit \/ SessRegister \/ CoreInit
  BY <1>1, Zenon DEF EvpInit, StartThread, SessInit, SessRegister, CoreInit, Acquire
<1>2. CASE OpenStream
  <2>1. ("stream" \in held') \in BOOLEAN
    OBVIOUS
  <2>. QED
    BY <1>2, <2>1, Zenon DEF OpenStream, Acquire
<1>3. CASE StartStream \/ MarkStarted \/ RegisterFrame \/ WaitParam
  BY <1>3, Zenon DEF StartStream, MarkStarted, RegisterFrame, WaitParam, Acquire
<1>4. CASE LoopHead \/ GetFrameCancelled \/ FrameArrives \/ GetFrameFails
  BY <1>4, Zenon DEF LoopHead, GetFrameCancelled, FrameArrives, GetFrameFails, Leave, Stay
<1>5. CASE Iterate \/ Send \/ Count \/ WaitSend
  BY <1>5, Zenon DEF Iterate, Send, Count, WaitSend, Leave, Stay, ReleaseFrame
<1>6. CASE Finalize \/ Finished
  BY <1>6, Zenon DEF Finalize, Finished, vars
<1>7. CASE DeleteModels \/ CloseNothing \/ CloseFrames \/ CloseCallback \/ CloseCheck
  BY <1>7, Zenon DEF DeleteModels, CloseNothing, CloseFrames, CloseCallback, CloseCheck, Release
<1>8. CASE CloseStop \/ CloseMark \/ CloseStream \/ CoreExit
  BY <1>8, Zenon DEF CloseStop, CloseMark, CloseStream, CoreExit, Release
<1>9. CASE SessUnregister \/ SessExit \/ Cancel \/ Join
  <2>1. ("thread" \in held) \in BOOLEAN
    OBVIOUS
  <2>. QED
    BY <1>9, <2>1, Zenon DEF SessUnregister, SessExit, Cancel, Join, Release
<1>10. CASE EvpHead \/ EvpEvent \/ EvpCallback \/ EvpShouldExit
  BY <1>10, Zenon DEF EvpHead, EvpEvent, EvpCallback, EvpShouldExit
<1>11. CASE EvpStopCheck \/ EvpStopCall \/ EvpStopMark
  BY <1>11, Zenon DEF EvpStopCheck, EvpStopCall, EvpStopMark
<1>12. CASE SessFree \/ SessDone
  BY <1>12, Zenon DEF SessFree, SessDone
<1>. QED
  BY <1>1, <1>2, <1>3, <1>4, <1>5, <1>6, <1>7, <1>8, <1>9, <1>10, <1>11, <1>12
     DEF Next, Main, StartUp, Loop, Destructor, Evp, Environment

LEMMA TypeStep == IInv /\ Next => TypeOK'
<1>1. ASSUME IInv, Next PROVE SessTypeOK' /\ SetTypes' /\ FlagTypes'
  BY <1>1, SessTypeStep, SetTypeStep, FlagTypeStep DEF IInv, TypeOK, SetTypes, FlagTypes
<1>. QED
  BY <1>1 DEF TypeOK, SetTypes, FlagTypes

LEMMA Step == IInv /\ [Next]_vars => IInv'
<1>. SUFFICES ASSUME IInv, [Next]_vars PROVE IInv'
  OBVIOUS
<1>1. CASE UNCHANGED vars
  BY <1>1 DEF vars, evp, senscord, sessVars, IInv, TypeOK, SessTypeOK, StreamInv, FlagInv, HeldInv,
     ParamInv, SendInv, Pending, AtSess, AtApp
<1>2. CASE Next
  BY <1>2, TypeStep, StreamStep, FlagStep, HeldStep, ParamStep, SendStep DEF IInv
<1>. QED
  BY <1>1, <1>2

-----------------------------------------------------------------------------
(* SendOnce.                                                               *)

LEMMA OneAtMost ==
  ASSUME NEW S, \A b, c \in S : b = c
  PROVE  ~(Cardinality(S) > 1)
<1>1. CASE S = {}
  BY <1>1, FS_EmptySet
<1>2. CASE S # {}
  <2>1. PICK b : S = {b}
    BY <1>2
  <2>2. Cardinality(S) = 1
    BY <2>1, FS_Singleton, Zenon
  <2>. QED
    BY <2>2
<1>. QED
  BY <1>1, <1>2

\* What the refinement mapping gives as long as one buffer at most is in use.
Mapped == IF AtSess # {} THEN "sess" ELSE IF AtApp # {} THEN "app" ELSE "none"

LEMMA ResultMapped == IInv => Result = Mapped
<1>. SUFFICES ASSUME IInv PROVE Result = Mapped
  OBVIOUS
<1>1. \A b, c \in AtApp \cup AtSess : b = c
  BY DEF AtApp, AtSess, IInv, SendInv
<1>. QED
  BY <1>1, OneAtMost DEF Result, Mapped

LEMMA ResultMappedNext == IInv' => Result' = Mapped'
<1>. SUFFICES ASSUME IInv' PROVE Result' = Mapped'
  OBVIOUS
<1>1. \A b, c \in AtApp' \cup AtSess' : b = c
  BY DEF AtApp, AtSess, IInv, SendInv
<1>. QED
  BY <1>1, OneAtMost DEF Result, Mapped

LEMMA PromiseStep == IInv /\ IInv' /\ [Next]_vars => [Promise!Next]_Result
<1>. SUFFICES ASSUME IInv, IInv', [Next]_vars PROVE Promise!Next \/ Result' = Result
  OBVIOUS
<1>1. Result = Mapped /\ Result' = Mapped'
  BY ResultMapped, ResultMappedNext
<1>. USE DEF IInv, LoopUnchanged, EndUnchanged, LifeUnchanged
<1>2. CASE memory' = memory
  BY <1>1, <1>2 DEF Mapped, AtSess, AtApp
<1>3. CASE UNCHANGED vars
  BY <1>2, <1>3 DEF vars, sessVars
<1>4. CASE StartUp \/ Finalize \/ Finished \/ Destructor \/ Evp
  <2>1. UNCHANGED sessVars
    BY <1>4, EvpFrame DEF StartUp, EvpInit, StartThread, SessInit, SessRegister, CoreInit,
       OpenStream, StartStream, MarkStarted, RegisterFrame, WaitParam, Acquire, Finalize, Finished,
       vars, Destructor, DeleteModels, CloseNothing, CloseFrames, CloseCallback, CloseCheck,
       CloseStop, CloseMark, CloseStream, CoreExit, SessUnregister, SessExit, Cancel, Join
  <2>. QED
    BY <1>2, <2>1 DEF sessVars
<1>5. CASE LoopHead \/ GetFrameCancelled \/ FrameArrives \/ GetFrameFails \/ Count \/ WaitSend \/ SessDone
  BY <1>2, <1>5 DEF LoopHead, GetFrameCancelled, FrameArrives, GetFrameFails, Count, CountSend,
     WaitSend, SessDone, CallbackDone, sessVars
<1>6. CASE Iterate
  <2>1. CASE pc' = "Send" /\ Malloc
    <3>1. pc = "Iterate" /\ AtSess = {} /\ AtApp = {}
      BY <1>6 DEF Iterate, SendInv, Pending, StartUpSteps, LoopSteps
    <3>2. outBuf' \in AtApp'
      BY <2>1 DEF SendInv, AtApp
    <3>3. AtSess' = {}
      BY <2>1, <3>2 DEF SendInv, Pending, StartUpSteps, LoopSteps
    <3>. QED
      BY <1>1, <3>1, <3>2, <3>3 DEF Mapped, Promise!Next, Promise!Make
  <2>. QED
    BY <1>2, <1>6, <2>1 DEF Iterate, Stay, sessVars
<1>7. CASE Send
  <2>1. pc = "Send" /\ AtSess = {} /\ outBuf \in AtApp
    BY <1>7 DEF Send, SendInv, Pending, StartUpSteps, LoopSteps, AtApp
  <2>2. PICK to \in {"free", "sess"} : memory' = [memory EXCEPT ![outBuf] = to]
    BY <1>7 DEF Send, SessSendData, FreeUnsent
  <2>3. AtApp' = {} /\ ((AtSess' # {}) <=> to = "sess")
    BY <2>1, <2>2, GivenAway
  <2>. QED
    BY <1>1, <2>1, <2>3 DEF Mapped, Promise!Next, Promise!Take, Promise!Drop
<1>8. CASE SessFree
  <2>1. AtSess # {} /\ answered' /\ AtSess' = {}
    BY <1>8 DEF SessFree, CallbackFree, SendInv
  <2>2. pc' # "Send"
    BY <2>1 DEF SendInv, Pending, StartUpSteps, LoopSteps
  <2>3. AtApp' = {}
    BY <2>2 DEF SendInv
  <2>. QED
    BY <1>1, <2>1, <2>3 DEF Mapped, Promise!Next, Promise!Return
<1>. QED
  BY <1>3, <1>4, <1>5, <1>6, <1>7, <1>8 DEF Next, Main, Loop, Environment

-----------------------------------------------------------------------------
(* The theorems.                                                           *)

\* The inductive invariant of the application's life holds in every reachable state.
THEOREM Invariance == Spec => []IInv
BY Initially, Step, PTL DEF Spec

\* Every variable keeps its type; in particular the count of sends, which the callback
\* may decrement before the send is counted, stays between -1 and 1.
THEOREM TypeCorrect == Spec => []TypeOK
<1>1. IInv => TypeOK
  BY DEF IInv
<1>. QED
  BY <1>1, Invariance, PTL

\* Wherever Initialize or the main loop is left, the destructor releases what was
\* acquired and no more buffer is the application's.
THEOREM EndsClean == Spec => []CleanedUp
<1>1. IInv => CleanedUp
  BY DEF IInv, TypeOK, Resources, HeldInv, SendInv, CleanedUp, PastClose, PastStop, PastCallback,
     PastFrames, EndSteps
<1>. QED
  BY <1>1, Invariance, PTL

\* No frame is fetched or analysed before a parameter was set.
THEOREM ParameterFirst == Spec => []AnalysedWithParam
<1>1. IInv => AnalysedWithParam
  BY DEF IInv, ParamInv, LoopSteps, AnalysedWithParam
<1>. QED
  BY <1>1, Invariance, PTL

\* The main loop leaves a callback behind only because of an exit request.
THEOREM AbandonsOnExit == Spec => []GivenUpOnExit
<1>1. IInv => GivenUpOnExit
  BY DEF IInv, SendInv, Pending, LoopSteps, GivenUpOnExit
<1>. QED
  BY <1>1, Invariance, PTL

\* A running stream is closed only after the stop of it was refused.
THEOREM ClosesStopped == Spec => StoppedBeforeClose
<1>1. IInv /\ [Next]_vars =>
        [(pc = "CloseStream" /\ pc' = "CoreExit") => ("running" \in held => "running" \in refused)]_vars
  BY DEF IInv, HeldInv, PastStop
<1>. QED
  BY <1>1, Invariance, PTL DEF Spec, StoppedBeforeClose

\* Sending implements SendOnce: one result at a time is made, handed over at most once,
\* and its memory is given back before the next one is made.
THEOREM SendsOneByOne == Spec => SendsOnce
<1>1. Init => Promise!Init
  <2>. SUFFICES ASSUME Init PROVE Result = "none"
    BY DEF Promise!Init
  <2>1. Result = Mapped
    BY Initially, ResultMapped
  <2>2. AtSess = {} /\ AtApp = {}
    BY DEF Init, SessStart, AtSess, AtApp
  <2>. QED
    BY <2>1, <2>2 DEF Mapped
<1>. QED
  BY <1>1, PromiseStep, Invariance, PTL DEF Spec, SendsOnce, Promise!Spec
=============================================================================
