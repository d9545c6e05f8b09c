-------------------------- MODULE SingleDnn_proofs --------------------------
(***************************************************************************)
(* What holds of the single-DNN applications for every depth of the        *)
(* pipeline and any number of failing calls.                               *)
(*                                                                         *)
(* The invariant has four parts that rest on each other one way only: the  *)
(* types, what is held at which step, what the flag s_stream_stopped says, *)
(* and what the loop over the frames carries from step to step.  Each has  *)
(* a lemma, with a step for each phase of the main thread and one for the  *)
(* EVP thread.                                                             *)
(***************************************************************************)
EXTENDS SingleDnn, TLAPS

\* A failing call leaves a legal count of failures, and is counted.
LEMMA FaultCounts ==
  ASSUME TypeOK, Fault
  PROVE  faults' \in 0..MaxFaults /\ faults' < MaxFaults
BY SingleDnnAssumption DEF TypeOK, Fault

\* Nothing is acquired before the start-up.
LEMMA Initially == Init => IInv
<1> SUFFICES ASSUME Init PROVE IInv
  OBVIOUS
<1>1. TypeOK
  <2>1. 0 \in 0..PipelineDepth /\ MaxFaults \in 0..MaxFaults
    BY SingleDnnAssumption
  <2>. QED  BY <2>1 DEF Init, TypeOK, StartUpSteps, EvpSteps, SendResults
<1>2. ReleasesHeld /\ LeftInv
  BY DEF Init, ReleasesHeld, LeftInv, Due
<1>3. StartInv /\ FlagInv /\ StopInv /\ LoopInv
  BY DEF Init, StartInv, NotStarted, FlagInv, StopInv, StopPassed, LoopInv, FrameGivenBack,
         LoopSteps
<1>. QED  BY <1>1, <1>2, <1>3 DEF IInv

\* Every step keeps the types.
LEMMA TypeStep ==
  ASSUME TypeOK, [Next]_vars
  PROVE  TypeOK'
<1> USE DEF TypeOK, threads, globals, local, Next, Main, StartUp, SessInit, RegisterSend,
            CoreInit, OpenStream, StartStream, MarkStarted, RegisterFrame, GetCrop, Loop, Head,
            GetFrame, GetChannel, Analyze, Send, ReleaseFrame, Ladder, UnregFrame, StopCheck,
            StopStream, MarkStopped, CloseStream, CoreExit, UnregSend, SessExit, PthreadExit,
            Join, Evp, EvpHead, EvpOther, EvpShouldExit, EvpCheck, EvpStop, EvpMark,
            GetFrameFails, Capture, Finished, vars, Acquire, Release, BreakOnFault, StopFails,
            EvpUnchanged
<1>1. pc' \in StartUpSteps \cup LoopSteps \cup LadderSteps \cup {"Done"}
  BY DEF StartUpSteps, LoopSteps, LadderSteps
<1>2. evpPc' \in EvpSteps
  BY DEF EvpSteps
<1>3. held' \subseteq Resources /\ refused' \subseteq Resources
  BY DEF Resources
<1>4. opened' \in BOOLEAN
  <2>1. ("stream" \in held') \in BOOLEAN
    OBVIOUS
  <2>2. opened' = opened \/ opened' = ("stream" \in held')
    OBVIOUS
  <2>. QED  BY <2>1, <2>2
<1>5. stopped' \in BOOLEAN
  OBVIOUS
<1>6. evpExit' \in BOOLEAN
  OBVIOUS
<1>7. frame' \in BOOLEAN
  OBVIOUS
<1>8. buffer' \in BOOLEAN
  OBVIOUS
<1>9. sendRet' \in SendResults
  BY DEF SendResults
<1>10. pending' \in 0..PipelineDepth /\ faults' \in 0..MaxFaults
  BY FaultCounts, SingleDnnAssumption
<1>. QED  BY <1>1, <1>2, <1>3, <1>4, <1>5, <1>6, <1>7, <1>8, <1>9, <1>10

\* Whatever fails, main is at the label of what it holds.
LEMMA HeldStep ==
  ASSUME TypeOK, ReleasesHeld, LeftInv, [Next]_vars
  PROVE  (ReleasesHeld /\ LeftInv)'
<1> USE DEF ReleasesHeld, LeftInv, Due, threads, globals, local
<1>1. CASE StartUp
  BY <1>1
     DEF StartUp, SessInit, RegisterSend, CoreInit, OpenStream, StartStream, MarkStarted,
         RegisterFrame, GetCrop, Acquire
<1>2. CASE Loop \/ GetFrameFails
  BY <1>2
     DEF Loop, Head, GetFrame, GetChannel, Analyze, Send, ReleaseFrame, GetFrameFails,
         BreakOnFault
<1>3. CASE Ladder
  BY <1>3
     DEF Ladder, UnregFrame, StopCheck, StopStream, MarkStopped, CloseStream, CoreExit,
         UnregSend, SessExit, PthreadExit, Join, Release, StopFails
<1>4. CASE Evp
  BY <1>4
     DEF Evp, EvpHead, EvpOther, EvpShouldExit, EvpCheck, EvpStop, EvpMark, EvpUnchanged,
         StopFails
<1>5. CASE Capture \/ UNCHANGED vars
  BY <1>5 DEF Capture, vars
<1>. QED  BY <1>1, <1>2, <1>3, <1>4, <1>5 DEF Next, Main, Finished

\* The two threads keep s_stream_stopped true to the stream.
LEMMA FlagStep ==
  ASSUME StartInv, FlagInv, StopInv, [Next]_vars
  PROVE  (StartInv /\ FlagInv /\ StopInv)'
<1> USE DEF StartInv, NotStarted, FlagInv, StopInv, StopPassed, threads, globals, local
<1>1. CASE StartUp
  BY <1>1
     DEF StartUp, SessInit, RegisterSend, CoreInit, OpenStream, StartStream, MarkStarted,
         RegisterFrame, GetCrop, Acquire
<1>2. CASE Loop \/ GetFrameFails
  BY <1>2
     DEF Loop, Head, GetFrame, GetChannel, Analyze, Send, ReleaseFrame, GetFrameFails,
         BreakOnFault
<1>3. CASE Ladder
  BY <1>3
     DEF Ladder, UnregFrame, StopCheck, StopStream, MarkStopped, CloseStream, CoreExit,
         UnregSend, SessExit, PthreadExit, Join, Release, StopFails
<1>4. CASE Evp
  BY <1>4
     DEF Evp, EvpHead, EvpOther, EvpShouldExit, EvpCheck, EvpStop, EvpMark, EvpUnchanged,
         StopFails
<1>5. CASE Capture \/ UNCHANGED vars
  BY <1>5 DEF Capture, vars
<1>. QED  BY <1>1, <1>2, <1>3, <1>4, <1>5 DEF Next, Main, Finished

\* What an iteration acquired is gone, or accounted for, at its end.
LEMMA LoopStep ==
  ASSUME TypeOK, LoopInv, [Next]_vars
  PROVE  (LoopInv)'
<1> USE DEF LoopInv, FrameGivenBack, StartUpSteps, LoopSteps, threads, globals, local
<1>1. CASE StartUp
  BY <1>1, FaultCounts
     DEF StartUp, SessInit, RegisterSend, CoreInit, OpenStream, StartStream, MarkStarted,
         RegisterFrame, GetCrop, Acquire
<1>2. CASE Loop \/ GetFrameFails
  BY <1>2, FaultCounts
     DEF Loop, Head, GetFrame, GetChannel, Analyze, Send, ReleaseFrame, GetFrameFails,
         BreakOnFault
<1>3. CASE Ladder
  BY <1>3, FaultCounts
     DEF Ladder, UnregFrame, StopCheck, StopStream, MarkStopped, CloseStream, CoreExit,
         UnregSend, SessExit, PthreadExit, Join, Release, StopFails
<1>4. CASE Evp
  BY <1>4, FaultCounts
     DEF Evp, EvpHead, EvpOther, EvpShouldExit, EvpCheck, EvpStop, EvpMark, EvpUnchanged,
         StopFails
<1>5. CASE Capture \/ UNCHANGED vars
  BY <1>5 DEF Capture, vars
<1>. QED  BY <1>1, <1>2, <1>3, <1>4, <1>5 DEF Next, Main, Finished

\* The invariant holds of every reachable state.
THEOREM Invariance == Spec => []IInv
<1>1. IInv /\ [Next]_vars => IInv'
  BY TypeStep, HeldStep, FlagStep, LoopStep DEF IInv
<1>. QED  BY Initially, <1>1, PTL DEF Spec

-----------------------------------------------------------------------------
(* What follows from it.                                                   *)

\* The variables of the two threads and of the platform keep their types.
THEOREM TypeCorrect == Spec => []TypeOK
<1>1. IInv => TypeOK
  BY DEF IInv
<1>. QED  BY Invariance, <1>1, PTL

\* Whichever call fails, main releases only what it holds.
THEOREM LadderHolds == Spec => []ReleasesHeld
<1>1. IInv => ReleasesHeld
  BY DEF IInv
<1>. QED  BY Invariance, <1>1, PTL

\* A program that ended holds nothing but what the platform refused to take back.
THEOREM EndsClean == Spec => []CleanedUp
<1>1. IInv => CleanedUp
  \* the flag speaks for the stream: stopped by a thread, or main's stop was refused
  <2>1. ASSUME IInv, pc = "Done" PROVE "running" \in held => "running" \in refused
    BY <2>1 DEF IInv, FlagInv, StopInv, StopPassed
  <2>2. ASSUME IInv, pc = "Done" PROVE held \subseteq refused \cup {"running"}
    BY <2>2 DEF IInv, LeftInv, Due
  <2>. QED  BY <2>1, <2>2 DEF CleanedUp
<1>. QED  BY Invariance, <1>1, PTL

\* No frame is forgotten without a failing call, whatever the loop did.
THEOREM FramesReturned == Spec => []FrameGivenBack
<1>1. IInv => FrameGivenBack
  BY DEF IInv, LoopInv
<1>. QED  BY Invariance, <1>1, PTL

\* A result's memory is freed or Sess's, unless Sess did not take it.
THEOREM BuffersAccounted == Spec => []LostOnlyIfRefused
<1>1. IInv => LostOnlyIfRefused
  BY DEF IInv, LoopInv, LostOnlyIfRefused
<1>. QED  BY Invariance, <1>1, PTL

\* Main closes a running stream only after its own stop was refused.
THEOREM ClosesStopped == Spec => StoppedBeforeClose
<1>1. IInv => ((pc = "CloseStream" /\ pc' = "CoreExit")
                 => ("running" \in held => "running" \in refused))
  BY DEF IInv, FlagInv, StopInv, StopPassed
<1>. QED  BY Invariance, <1>1, PTL DEF StoppedBeforeClose

\* The EVP thread decides to stop only a stream that is open.
THEOREM NoLateStop == Spec => NoStopAfterClose
<1>1. IInv /\ [Next]_vars
        => ((evpPc = "Check" /\ evpPc' = "Stop")
              => ("stream" \in held \/ "running" \in refused))
  <2> SUFFICES ASSUME IInv, [Next]_vars, evpPc = "Check", evpPc' = "Stop"
               PROVE  "stream" \in held \/ "running" \in refused
    OBVIOUS
  \* the flag says that the stream runs ...
  <2>1. ~stopped
    BY DEF Next, Main, StartUp, SessInit, RegisterSend, CoreInit, OpenStream, StartStream,
           MarkStarted, RegisterFrame, GetCrop, Acquire, Loop, Head, GetFrame, GetChannel,
           Analyze, Send, ReleaseFrame, GetFrameFails, Ladder, UnregFrame, StopCheck,
           StopStream, MarkStopped, CloseStream, CoreExit, UnregSend, SessExit, PthreadExit,
           Join, Release, Evp, EvpHead, EvpOther, EvpShouldExit, EvpCheck, EvpStop, EvpMark,
           Capture, Finished, vars, threads
  \* ... so main started it, and has not passed the label that stops it, or in vain
  <2>2. pc \notin NotStarted \cup {"MarkStarted"}
    BY <2>1 DEF IInv, StartInv
  <2>3. CASE pc \in StopPassed
    BY <2>1, <2>3 DEF IInv, StopInv
  <2>4. CASE pc \notin StopPassed
    BY <2>2, <2>4
       DEF IInv, TypeOK, ReleasesHeld, Due, NotStarted, StopPassed, StartUpSteps, LoopSteps,
           LadderSteps
  <2>. QED  BY <2>3, <2>4
<1>. QED  BY Invariance, <1>1, PTL DEF Spec, NoStopAfterClose
=============================================================================
