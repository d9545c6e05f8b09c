--------------------------- MODULE SwitchDnn_proofs ---------------------------
(***************************************************************************)
(* The inductive invariant IInv of SwitchDnn, for every number of networks,*)
(* crops, timestamps, frames under way and failures, and what follows from *)
(* it: the safety properties of the main loop, and that the results the    *)
(* application sends refine TraceLink.                                     *)
(*                                                                         *)
(* Nearly every step of the main thread goes on with the frame it holds or *)
(* ends the iteration, so the first lemmas say what the end of an iteration*)
(* may change.  Step then takes the actions one by one.                    *)
(***************************************************************************)
EXTENDS SwitchDnn, SequenceTheorems, TLAPS

-----------------------------------------------------------------------------
(* What the parts of the actions do.                                       *)

\* A failure that the environment may still inject can be spent.
LEMMA Spend ==
  ASSUME TypeOK, faults > 0
  PROVE  faults - 1 \in 0..MaxFaults
BY SenscordAssumption DEF TypeOK, SenscordTypeOK

\* SenscordController::ReleaseFrame leaves a set of timestamps behind, whether
\* the API call succeeds or not.
LEMMA Released ==
  ASSUME TypeOK, NEW spent \in 0..1, ReleaseFrame(spent)
  PROVE  frames' \subseteq Stamps /\ faults' \in 0..MaxFaults
BY SenscordAssumption DEF TypeOK, SenscordTypeOK, ReleaseFrame

\* How an iteration ends early: the frame is given back and the main thread goes
\* to the loop head or leaves the loop.
EndsIteration ==
  /\ pc' \in {"LoopHead", "Finalize"}
  /\ fatalError' \in BOOLEAN
  /\ frames' \subseteq Stamps
  /\ faults' \in 0..MaxFaults
  /\ frame' = frame

\* kContinue, kError and kErrorFatal end the iteration in the state it began in.
LEMMA GivesUp ==
  ASSUME TypeOK, Continue(0) \/ Break(0) \/ Continue(1) \/ Break(1) \/ ApiFails
  PROVE  EndsIteration /\ state' = state
<1>1. 0 \in 0..1 /\ 1 \in 0..1
  OBVIOUS
<1>. QED
  BY <1>1, Released DEF ApiFails, Continue, Break, EndsIteration, TypeOK

\* kErrorChangeToOd ends the iteration in StateOd.
LEMMA GivesUpToOd ==
  ASSUME TypeOK, ChangeToOd
  PROVE  EndsIteration /\ pc' = "LoopHead" /\ state' = "kOd"
<1>1. 0 \in 0..1
  OBVIOUS
<1>. QED
  BY <1>1, Released DEF ChangeToOd, EndsIteration, TypeOK

\* SetDnn records the model it asked for even when the call fails.
LEMMA SetsDnn ==
  ASSUME TypeOK, NEW target \in Networks, SetDnnTo(target)
  PROVE  /\ pc = "SetDnn" /\ nextDnn' = target
         /\ \/ pc' = "LoopHead" /\ state' = NextState[state] /\ fatalError' = fatalError
            \/ pc' = "Finalize" /\ state' = state /\ fatalError' = TRUE
         /\ dnnStream' \in Networks /\ cropStream' \in Crops
         /\ faults' \in 0..MaxFaults
         /\ UNCHANGED <<pipeline, streaming, frame, frames>>
         /\ UNCHANGED <<nextCrop, traceId, cropSeen, sess, evp>>
BY Spend, SenscordAssumption
   DEF SetDnnTo, DeviceSetDnn, device, TypeOK, SenscordTypeOK

\* A frame that is fetched is one of the device's, and is held from then on.
LEMMA Fetched ==
  ASSUME TypeOK, GetFrame
  PROVE  /\ frame' \in Frames /\ frame' # NoFrame
         /\ frame'.ts \in frames' /\ frames' \subseteq Stamps
         /\ pipeline' \in Seq(Frames)
<1>1. pipeline \in Seq(Frames) /\ pipeline # <<>>
  BY DEF GetFrame, TypeOK, SenscordTypeOK
<1>2. Head(pipeline) \in Frames /\ Tail(pipeline) \in Seq(Frames)
  BY <1>1, HeadTailProperties
<1>. QED
  BY <1>2, SenscordAssumption DEF GetFrame, Frames, TypeOK, SenscordTypeOK

\* In StateChangingDnnIc there is always a crop to set, so the branch that would
\* give the frame back twice is never taken.
LEMMA CropIsSet ==
  ASSUME IInv, DnnIcSetCrop
  PROVE  /\ \/ pc' = "LoopHead" /\ state' = "kChangingCropIc"
            \/ pc' = "Finalize" /\ state' = state
         /\ EndsIteration
         /\ UNCHANGED <<dnnStream, pipeline, streaming>>
         /\ UNCHANGED <<appModel, cropSeen, sess, evp>>
         /\ cropStream' \in Crops
<1>1. nextCrop # NoCrop
  BY DEF IInv, DnnIcSetCrop, SettingInv, Halted
<1>2. CASE Break(1) /\ UNCHANGED device
  BY <1>2, GivesUp DEF IInv, DnnIcSetCrop, Break, device, TypeOK, SenscordTypeOK
<1>3. CASE ~(Break(1) /\ UNCHANGED device)
  <2>1. /\ ReleaseFrame(0) \/ ReleaseFrame(1)
        /\ pc' = "LoopHead" /\ state' = "kChangingCropIc"
        /\ cropStream' \in Crops
        /\ UNCHANGED <<dnnStream, pipeline, fatalError, frame>>
    BY <1>1, <1>3
       DEF IInv, DnnIcSetCrop, DeviceSetCrop, NextState, device, TypeOK, SenscordTypeOK
  <2>2. 0 \in 0..1 /\ 1 \in 0..1
    OBVIOUS
  <2>3. frames' \subseteq Stamps /\ faults' \in 0..MaxFaults
    BY <2>1, <2>2, Released DEF IInv
  <2>. QED
    BY <2>1, <2>3 DEF IInv, DnnIcSetCrop, EndsIteration, TypeOK
<1>. QED  BY <1>2, <1>3

\* A stop of the stream, whether it succeeds or fails, keeps the types.
LEMMA StopKeepsTypes ==
  ASSUME TypeOK, EvpStopStream
  PROVE  TypeOK'
<1>1. faults' \in 0..MaxFaults /\ streaming' \in BOOLEAN
  BY Spend DEF EvpStopStream, StopStream, TypeOK, SenscordTypeOK
<1>. QED
  BY <1>1 DEF EvpStopStream, device, appModel, sess, TypeOK, SenscordTypeOK

-----------------------------------------------------------------------------
(* The invariant.                                                          *)

\* The main loop starts in StateOd with nothing set and nothing held.
LEMMA Initially == Init => IInv
<1> SUFFICES ASSUME Init PROVE IInv
  OBVIOUS
<1> USE SenscordAssumption, SwitchDnnAssumption DEF Init, SenscordInit
<1>1. TypeOK
  <2>1. <<>> \in Seq(Frames) /\ MaxFaults \in 0..MaxFaults
    OBVIOUS
  <2>. QED
    BY <2>1 DEF TypeOK, SenscordTypeOK, Steps, SequenceState, Results
<1>2. StepInv /\ SettingInv /\ FrameHeld /\ OneSendAtATime /\ LinkInv /\ OdInv
  BY DEF StepInv, SettingInv, FrameHeld, FrameSteps, Steps, OneSendAtATime, LinkInv, OdInv,
         OdFixed, Halted
<1>. QED  BY <1>1, <1>2 DEF IInv

\* Every step of every thread, and of the device, keeps the invariant.
LEMMA Step == IInv /\ [Next]_vars => IInv'
<1> SUFFICES ASSUME IInv, [Next]_vars PROVE IInv'
  OBVIOUS
<1> USE SenscordAssumption, SwitchDnnAssumption
    DEF IInv, TypeOK, SenscordTypeOK, StepInv, SettingInv, FrameHeld, OneSendAtATime, LinkInv,
        OdInv, OdFixed, Halted, Steps, FrameSteps, SequenceState, Results,
        senscordVars, device, appModel, sess, evp, EndsIteration
<1>1. CASE LoopHead
  BY <1>1 DEF LoopHead
<1>2. CASE MainGetFrame
  <2>1. CASE GetFrame /\ pc' = "VerifyDnnStream"
    BY <1>2, <2>1, Fetched DEF MainGetFrame, GetFrame
  <2>2. CASE ~GetFrame \/ pc' # "VerifyDnnStream"
    <3>1. EndsIteration /\ UNCHANGED <<device, streaming>>
      BY <1>2, <2>2, Spend DEF MainGetFrame
    <3>. QED  BY <1>2, <3>1 DEF MainGetFrame
  <2>. QED  BY <2>1, <2>2
<1>3. CASE GetChannel
  BY <1>3, GivesUp DEF GetChannel, Proceed
<1>4. CASE GetCropProperty
  BY <1>4, GivesUp DEF GetCropProperty, Proceed
<1>5. CASE GetRawData
  BY <1>5, GivesUp DEF GetRawData, Proceed
<1>6. CASE SerializeData
  BY <1>6, GivesUp DEF SerializeData, Proceed
<1>7. CASE SendSerializedData
  <2>1. TypeOK'
    BY <1>7, GivesUp, Released DEF SendSerializedData, Result, Frames
  \* nothing was being sent before: the main thread was not in its wait loop
  <2>2. OneSendAtATime'
    BY <1>7, GivesUp DEF SendSerializedData
  \* what StateOd sends carries the trace id of its own analysis, what StateIc
  \* sends the one that was left by it
  <2>3. (StepInv /\ SettingInv /\ FrameHeld /\ LinkInv /\ OdInv)'
    BY <1>7, GivesUp DEF SendSerializedData, Result
  <2>. QED  BY <2>1, <2>2, <2>3
<1>8. CASE WaitSend
  BY <1>8 DEF WaitSend
<1>9. CASE RetrySetDnn
  BY <1>9, GivesUp, GivesUpToOd DEF RetrySetDnn, Proceed, DeviceSetDnn
<1>10. CASE Finalize
  BY <1>10 DEF Finalize
<1>11. CASE OdVerifyDnnStream
  BY <1>11, GivesUp DEF OdVerifyDnnStream, Proceed
<1>12. CASE OdVerifyDnnChannel
  BY <1>12, GivesUp DEF OdVerifyDnnChannel, Proceed
<1>13. CASE OdAnalyzeData
  BY <1>13, GivesUp DEF OdAnalyzeData, Proceed, Frames
<1>14. CASE OdSaveCrop
  BY <1>14, GivesUp DEF OdSaveCrop, Proceed
<1>15. CASE OdSetDnn
  <2>1. TypeOK'
    BY <1>15, SetsDnn DEF OdSetDnn, NextState
  \* the crop of StateChangingDnnIc is there: SaveCrop put it there
  <2>2. (StepInv /\ SettingInv /\ FrameHeld /\ OneSendAtATime /\ LinkInv /\ OdInv)'
    BY <1>15, SetsDnn DEF OdSetDnn, NextState
  <2>. QED  BY <2>1, <2>2
<1>16. CASE DnnIcVerifyDnnStream
  BY <1>16, GivesUp, GivesUpToOd DEF DnnIcVerifyDnnStream, Proceed
<1>17. CASE DnnIcVerifyDnnChannel
  BY <1>17, GivesUp, GivesUpToOd DEF DnnIcVerifyDnnChannel, Proceed
<1>18. CASE DnnIcSetCrop
  BY <1>18, CropIsSet DEF DnnIcSetCrop
<1>19. CASE CropIcVerifyDnnStream
  BY <1>19, GivesUp, GivesUpToOd DEF CropIcVerifyDnnStream, Proceed
<1>20. CASE CropIcVerifyDnnChannel
  BY <1>20, GivesUp, GivesUpToOd DEF CropIcVerifyDnnChannel, Proceed
<1>21. CASE CropIcVerifyCrop
  BY <1>21, GivesUp, GivesUpToOd DEF CropIcVerifyCrop, Completed, Proceed, NextState
<1>22. CASE CropIcRetrySetCrop
  BY <1>22, GivesUp, GivesUpToOd DEF CropIcRetrySetCrop, Proceed, DeviceSetCrop
<1>23. CASE IcVerifyDnnStream
  BY <1>23, GivesUp, GivesUpToOd DEF IcVerifyDnnStream, Proceed
<1>24. CASE IcVerifyDnnChannel
  BY <1>24, GivesUp, GivesUpToOd DEF IcVerifyDnnChannel, Proceed
<1>25. CASE IcAnalyzeData
  BY <1>25, GivesUp DEF IcAnalyzeData, Proceed
<1>26. CASE IcSetDnn
  <2>1. TypeOK'
    BY <1>26, SetsDnn DEF IcSetDnn, NextState
  <2>2. (StepInv /\ SettingInv /\ FrameHeld /\ OneSendAtATime /\ LinkInv /\ OdInv)'
    BY <1>26, SetsDnn DEF IcSetDnn, NextState
  <2>. QED  BY <2>1, <2>2
<1>27. CASE DnnOdVerifyDnnStream
  BY <1>27, GivesUp, GivesUpToOd DEF DnnOdVerifyDnnStream, Proceed
<1>28. CASE DnnOdVerifyDnnChannel
  BY <1>28, GivesUp, GivesUpToOd DEF DnnOdVerifyDnnChannel, Completed, Proceed,
     NextState
<1>29. CASE ConfigOd
  BY <1>29 DEF ConfigOd
<1>30. CASE ConfigIc
  BY <1>30 DEF ConfigIc
<1>31. CASE ShouldExit
  BY <1>31 DEF ShouldExit
<1>32. CASE EvpStopStream
  <2>1. TypeOK'
    BY <1>32, StopKeepsTypes
  <2>2. (StepInv /\ SettingInv /\ FrameHeld /\ OneSendAtATime /\ LinkInv /\ OdInv)'
    BY <1>32 DEF EvpStopStream
  <2>. QED  BY <2>1, <2>2
<1>33. CASE SendDone
  BY <1>33 DEF SendDone
<1>34. CASE DeviceCapture
  BY <1>34 DEF DeviceCapture, Capture, Frames
<1>35. CASE DeviceRestart
  <2>1. faults' \in 0..MaxFaults
    BY <1>35, Spend DEF DeviceRestart, Restart
  <2>2. pipeline' = pipeline \/ pipeline' = <<>>
    BY <1>35 DEF DeviceRestart, Restart
  <2>3. pipeline \in Seq(Frames) /\ <<>> \in Seq(Frames)
    OBVIOUS
  <2>4. pipeline' \in Seq(Frames)
    BY <2>2, <2>3, Zenon
  <2>. QED  BY <1>35, <2>1, <2>4 DEF DeviceRestart, Restart
<1>36. CASE Terminating
  BY <1>36 DEF Terminating, vars
<1>37. CASE UNCHANGED vars
  BY <1>37 DEF vars
<1>. QED
  BY <1>1, <1>2, <1>3, <1>4, <1>5, <1>6, <1>7, <1>8, <1>9, <1>10, <1>11, <1>12,
     <1>13, <1>14, <1>15, <1>16, <1>17, <1>18, <1>19, <1>20, <1>21, <1>22, <1>23,
     <1>24, <1>25, <1>26, <1>27, <1>28, <1>29, <1>30, <1>31, <1>32, <1>33, <1>34,
     <1>35, <1>36, <1>37 DEF Next, MainThread, EvpThread

\* The invariant holds throughout every run of the application.
THEOREM Invariance == Spec => []IInv
BY Initially, Step, PTL DEF Spec

-----------------------------------------------------------------------------
(* What follows from it.                                                   *)

\* Every variable keeps its type: a state object never records a frame, a model or
\* a crop that does not exist.
THEOREM TypeCorrect == Spec => []TypeOK
<1>. IInv => TypeOK
  BY DEF IInv
<1>. QED  BY Invariance, PTL

\* No branch the state classes mark "abnormal" is ever taken: a state that waits for
\* a model or a crop finds in AppModel the one it waits for.
THEOREM NeverAbnormal == Spec => []NoAbnormalSetting
<1>. IInv => NoAbnormalSetting
  BY DEF IInv, StepInv, SettingInv, NoAbnormalSetting, Halted
<1>. QED  BY Invariance, PTL

\* MainLoop works on, and gives back, only a frame that SenscordController still
\* lists: nothing is released twice.
THEOREM NoDoubleRelease == Spec => []FrameHeld
<1>. IInv => FrameHeld
  BY DEF IInv
<1>. QED  BY Invariance, PTL

\* SendSerializedData is followed by its SendDataDoneCallback before the loop does
\* anything else, unless the application exits.
THEOREM SendsOneByOne == Spec => []OneSendAtATime
<1>. IInv => OneSendAtATime
  BY DEF IInv
<1>. QED  BY Invariance, PTL

\* While the PPL parameters keep naming the same OD model, StateOd analyses only
\* frames that this model made.
THEOREM DetectsOnOdFrames == ASSUME OdFixed PROVE Spec => []OdOnOdFrame
<1>. IInv => OdOnOdFrame
  BY DEF IInv, OdInv, OdOnOdFrame
<1>. QED  BY Invariance, PTL

-----------------------------------------------------------------------------
(* The results refine TraceLink.                                           *)

\* Only SendSerializedData hands a result to Sess.
LEMMA OnlySendChanges == ASSUME [Next]_vars, ~SendSerializedData PROVE lastSent' = lastSent
BY DEF Next, MainThread, EvpThread, vars, sess, SetDnnTo,
       LoopHead, MainGetFrame, GetChannel, GetCropProperty, GetRawData, SerializeData,
       WaitSend, RetrySetDnn, Finalize, OdVerifyDnnStream, OdVerifyDnnChannel,
       OdAnalyzeData, OdSaveCrop, OdSetDnn, DnnIcVerifyDnnStream, DnnIcVerifyDnnChannel,
       DnnIcSetCrop, CropIcVerifyDnnStream, CropIcVerifyDnnChannel, CropIcVerifyCrop,
       CropIcRetrySetCrop, IcVerifyDnnStream, IcVerifyDnnChannel, IcAnalyzeData,
       IcSetDnn, DnnOdVerifyDnnStream, DnnOdVerifyDnnChannel, ConfigOd, ConfigIc,
       ShouldExit, EvpStopStream, DeviceCapture, DeviceRestart, Terminating, SendDone

\* Every IC result that is sent carries the trace id of the OD result sent before
\* it, and no OD result is followed by two IC results.
THEOREM TracesLinked == Spec => ResultsLinked
<1>1. Init => Link!Init
  BY DEF Init, Link!Init
<1>2. IInv /\ [Next]_vars => [Link!Next]_[kind |-> lastSent.kind, trace |-> lastSent.trace]
  <2> SUFFICES ASSUME IInv, [Next]_vars
               PROVE  \/ Link!Next
                      \/ UNCHANGED [kind |-> lastSent.kind, trace |-> lastSent.trace]
    OBVIOUS
  <2>1. CASE lastSent' = lastSent
    BY <2>1
  <2>2. CASE lastSent' # lastSent
    <3>. SendSerializedData
      BY <2>2, OnlySendChanges
    <3>1. SendSerializedData /\ lastSent' = Result /\ state \in {"kOd", "kIc"}
      BY <2>2 DEF SendSerializedData, sess
    <3>2. CASE state = "kOd"
      <4>1. traceId \in Stamps /\ lastSent'.kind = "OD" /\ lastSent'.trace = traceId
        BY <3>1, <3>2 DEF SendSerializedData, Result, IInv, LinkInv
      <4>. QED  BY <4>1 DEF Link!Next, Link!Detection
    <3>3. CASE state = "kIc"
      <4>1. /\ lastSent.kind = "OD" /\ lastSent.trace = traceId
            /\ lastSent'.kind = "IC" /\ lastSent'.trace = traceId
        BY <3>1, <3>3 DEF SendSerializedData, Result, IInv, LinkInv, Halted
      <4>. QED  BY <4>1 DEF Link!Next, Link!Classification
    <3>. QED  BY <3>1, <3>2, <3>3
  <2>. QED  BY <2>1, <2>2
<1>. QED  BY <1>1, <1>2, Invariance, PTL DEF Spec, ResultsLinked, Link!Spec
=============================================================================
