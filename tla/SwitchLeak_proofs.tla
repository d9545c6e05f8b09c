-------------------------- MODULE SwitchLeak_proofs --------------------------
(***************************************************************************)
(* How many frames the switching application can fail to give back, for    *)
(* every value of the constants.  A release that fails loses one frame and *)
(* has used up one failure; a retry of SetDnn or SetCrop that succeeds     *)
(* loses one too, and it is RetryDue, the setting the device does not have,*)
(* that carries the failure or the restart which paid for it.              *)
(***************************************************************************)
EXTENDS SwitchDnn_proofs, FiniteSetTheorems

-----------------------------------------------------------------------------
(* Giving a frame back.                                                    *)

\* To give the frame back costs the failures it met, and brings one frame home.
LEMMA Counted ==
  ASSUME IInv, LeakInv, pc \in FrameSteps, NEW spent \in 0..1, ReleaseFrame(spent)
  PROVE  /\ IsFiniteSet(frames')
         /\ Cardinality(frames') + faults' = Cardinality(frames) + faults - spent - 1
<1>1. /\ frame.ts \in frames /\ IsFiniteSet(frames) /\ Cardinality(frames) \in Nat
      /\ faults \in Nat
  BY FS_CardinalityType, SenscordAssumption DEF IInv, TypeOK, SenscordTypeOK, FrameHeld, LeakInv
<1>2. CASE frames' = frames \ {frame.ts} /\ faults' = faults - spent
  <2>1. IsFiniteSet(frames') /\ Cardinality(frames') = Cardinality(frames) - 1
    BY <1>1, <1>2, FS_RemoveElement
  <2>. QED  BY <1>1, <1>2, <2>1
<1>3. CASE frames' = frames /\ faults' = faults - spent - 1
  BY <1>1, <1>3
<1>. QED  BY <1>2, <1>3 DEF ReleaseFrame

\* However an iteration ends early, it gives its frame back.
LEMMA Releases ==
  ASSUME Continue(0) \/ Break(0) \/ Continue(1) \/ Break(1) \/ ApiFails \/ ChangeToOd
  PROVE  /\ \E spent \in 0..1 : ReleaseFrame(spent)
         /\ pc' \in {"LoopHead", "Finalize"}
         /\ ~ChangeToOd => state' = state
<1>1. 0 \in 0..1 /\ 1 \in 0..1
  OBVIOUS
<1>2. ReleaseFrame(0) \/ ReleaseFrame(1)
  BY DEF ApiFails, Continue, Break, ChangeToOd
<1>. QED  BY <1>1, <1>2 DEF ApiFails, Continue, Break, ChangeToOd

\* A step that forgets no frame and makes no retry due.
Balanced ==
  /\ RetryDue' => RetryDue
  /\ \/ UNCHANGED <<frames, faults>> /\ (pc \in FrameSteps => pc' \in FrameSteps)
     \/ pc \in FrameSteps /\ \E spent \in 0..1 : ReleaseFrame(spent)

\* Such a step keeps the account.
LEMMA BalancedStep ==
  ASSUME IInv, LeakInv, Balanced
  PROVE  LeakInv'
<1>1. /\ faults \in Nat /\ MaxFaults \in Nat
      /\ IsFiniteSet(frames) /\ Cardinality(frames) \in Nat
      /\ Cardinality(frames) + faults + (IF RetryDue THEN 1 ELSE 0) <= MaxFaults + Holding
  BY FS_CardinalityType, SenscordAssumption DEF IInv, TypeOK, SenscordTypeOK, LeakInv
<1>2. CASE UNCHANGED <<frames, faults>> /\ (pc \in FrameSteps => pc' \in FrameSteps)
  BY <1>1, <1>2 DEF Balanced, LeakInv, Holding
<1>3. CASE pc \in FrameSteps /\ \E spent \in 0..1 : ReleaseFrame(spent)
  <2>1. PICK spent \in 0..1 : ReleaseFrame(spent)
    BY <1>3
  <2>2. /\ IsFiniteSet(frames') /\ Cardinality(frames') \in Nat
        /\ faults' \in Nat
        /\ Cardinality(frames') + faults' = Cardinality(frames) + faults - spent - 1
    <3>. IsFiniteSet(frames') /\ Cardinality(frames') + faults' = Cardinality(frames) + faults - spent - 1
      BY <1>3, <2>1, Counted
    <3>. faults' \in Nat
      BY <2>1, Released, SenscordAssumption DEF IInv
    <3>. QED  BY FS_CardinalityType
  <2>3. Holding = 1 /\ Holding' \in 0..1
    BY <1>3 DEF Holding
  <2>. QED  BY <1>1, <2>1, <2>2, <2>3 DEF Balanced, LeakInv
<1>. QED  BY <1>2, <1>3 DEF Balanced

\* SetDnn makes a retry due only by a failure.
LEMMA SetDnnPays ==
  ASSUME IInv, LeakInv, state \in {"kOd", "kIc"}, NEW target \in Networks, SetDnnTo(target)
  PROVE  LeakInv'
<1>1. /\ faults \in Nat /\ MaxFaults \in Nat
      /\ IsFiniteSet(frames) /\ Cardinality(frames) \in Nat
      /\ Cardinality(frames) + faults + (IF RetryDue THEN 1 ELSE 0) <= MaxFaults + Holding
  BY FS_CardinalityType, SenscordAssumption DEF IInv, TypeOK, SenscordTypeOK, LeakInv
<1>2. Holding = 0 /\ Holding' = 0 /\ frames' = frames
  BY DEF SetDnnTo, Holding, FrameSteps, Steps
<1>3. CASE faults' = faults
  <2>. ~RetryDue'
    BY <1>1, <1>3 DEF SetDnnTo, DeviceSetDnn, RetryDue, NextState, Halted
  <2>. QED  BY <1>1, <1>2, <1>3 DEF LeakInv
<1>4. CASE faults' = faults - 1
  BY <1>1, <1>2, <1>4 DEF LeakInv
<1>. QED  BY <1>3, <1>4 DEF SetDnnTo

-----------------------------------------------------------------------------
(* The account of frames.                                                  *)

\* Every step of every thread, and of the device, keeps the account.
LEMMA LeakStep == IInv /\ LeakInv /\ [Next]_vars => LeakInv'
<1> SUFFICES ASSUME IInv, LeakInv, [Next]_vars PROVE LeakInv'
  OBVIOUS
<1>a. /\ faults \in Nat /\ faults' \in Nat /\ MaxFaults \in Nat
      /\ IsFiniteSet(frames) /\ Cardinality(frames) \in Nat
      /\ Cardinality(frames) + faults + (IF RetryDue THEN 1 ELSE 0) <= MaxFaults + Holding
  BY Step, FS_CardinalityType, SenscordAssumption DEF IInv, TypeOK, SenscordTypeOK, LeakInv
<1> USE DEF senscordVars, device, appModel, sess, evp
<1>1. CASE LoopHead
  <2>1. Balanced
    BY <1>1 DEF LoopHead, RetryDue, FrameSteps, Steps, Halted, Balanced
  <2>. QED  BY <2>1, BalancedStep
<1>2. CASE MainGetFrame
  <2>1. IsFiniteSet(frames') /\ Cardinality(frames') \in Nat /\ Cardinality(frames') <= Cardinality(frames) + 1
    <3>1. frames' = frames \/ frames' = frames \cup {Head(pipeline).ts}
      BY <1>2 DEF MainGetFrame, GetFrame
    <3>. QED  BY <1>a, <3>1, FS_AddElement
  <2>2. Holding = 0 /\ (pc' = "VerifyDnnStream" => Holding' = 1) /\ Holding' \in 0..1
    BY <1>2 DEF MainGetFrame, Holding, FrameSteps, Steps
  <2>3. RetryDue' => RetryDue
    BY <1>2 DEF MainGetFrame, GetFrame, RetryDue, Halted
  <2>4. CASE pc' = "VerifyDnnStream"
    <3>. faults' = faults
      BY <1>2, <2>4 DEF MainGetFrame, GetFrame
    <3>. QED  BY <1>a, <2>1, <2>2, <2>3, <2>4 DEF LeakInv
  <2>5. CASE pc' # "VerifyDnnStream"
    <3>. faults' <= faults /\ frames' = frames
      BY <1>2, <1>a, <2>5 DEF MainGetFrame
    <3>. QED  BY <1>a, <2>2, <2>3 DEF LeakInv
  <2>. QED  BY <2>4, <2>5
<1>3. CASE GetChannel
  <2>1. Balanced
    BY <1>3, Releases DEF GetChannel, Proceed, ChangeToOd, RetryDue, FrameSteps,
       Steps, Halted, Balanced
  <2>. QED  BY <2>1, BalancedStep
<1>4. CASE GetCropProperty
  <2>1. Balanced
    BY <1>4, Releases DEF GetCropProperty, Proceed, ChangeToOd, RetryDue, FrameSteps,
       Steps, Halted, Balanced
  <2>. QED  BY <2>1, BalancedStep
<1>5. CASE GetRawData
  <2>1. Balanced
    BY <1>5, Releases DEF GetRawData, Proceed, ChangeToOd, RetryDue, FrameSteps,
       Steps, Halted, Balanced
  <2>. QED  BY <2>1, BalancedStep
<1>6. CASE SerializeData
  <2>1. Balanced
    BY <1>6, Releases DEF SerializeData, Proceed, ChangeToOd, RetryDue, FrameSteps,
       Steps, Halted, Balanced
  <2>. QED  BY <2>1, BalancedStep
<1>7. CASE SendSerializedData
  <2>1. CASE ReleaseFrame(0) /\ pc' = "WaitSend"
    <3>1. \E spent \in 0..1 : ReleaseFrame(spent)
      <4>. 0 \in 0..1
        OBVIOUS
      <4>. QED  BY <2>1
    <3>2. pc \in FrameSteps
      BY <1>7 DEF SendSerializedData, FrameSteps, Steps
    <3>3. RetryDue' => RetryDue
      BY <1>7, <2>1 DEF SendSerializedData, Continue, Break, IInv, StepInv, RetryDue, Halted
    <3>. QED  BY <3>1, <3>2, <3>3, BalancedStep DEF Balanced
  <2>2. CASE ~(ReleaseFrame(0) /\ pc' = "WaitSend")
    <3>. Balanced
      BY <1>7, <2>2, Releases DEF SendSerializedData, ChangeToOd, RetryDue, FrameSteps, Steps, Halted, Balanced
    <3>. QED  BY BalancedStep
  <2>. QED  BY <2>1, <2>2
<1>8. CASE WaitSend
  <2>1. Balanced
    BY <1>8 DEF WaitSend, RetryDue, FrameSteps, Steps, Halted, Balanced
  <2>. QED  BY <2>1, BalancedStep
<1>9. CASE RetrySetDnn
  <2>1. CASE Proceed("LoopHead") /\ DeviceSetDnn(nextDnn)
    <3>1. /\ RetryDue /\ ~RetryDue'
          /\ Holding = 1 /\ Holding' = 0
          /\ UNCHANGED <<frames, faults>>
      BY <1>9, <2>1 DEF RetrySetDnn, Proceed, DeviceSetDnn, RetryDue, IInv, StepInv, Holding,
                        FrameSteps, Steps
    <3>. QED  BY <1>a, <3>1 DEF LeakInv
  <2>2. CASE ~(Proceed("LoopHead") /\ DeviceSetDnn(nextDnn))
    <3>. Balanced
      BY <1>9, <2>2, Releases DEF RetrySetDnn, ChangeToOd, RetryDue, FrameSteps, Steps, Balanced
    <3>. QED  BY BalancedStep
  <2>. QED  BY <2>1, <2>2
<1>10. CASE Finalize
  <2>1. Balanced
    BY <1>10 DEF Finalize, RetryDue, FrameSteps, Steps, Halted, Balanced
  <2>. QED  BY <2>1, BalancedStep
<1>11. CASE OdVerifyDnnStream
  <2>1. Balanced
    BY <1>11, Releases DEF OdVerifyDnnStream, Proceed, ChangeToOd, RetryDue,
       FrameSteps, Steps, Halted, Balanced
  <2>. QED  BY <2>1, BalancedStep
<1>12. CASE OdVerifyDnnChannel
  <2>1. Balanced
    BY <1>12, Releases DEF OdVerifyDnnChannel, Proceed, ChangeToOd, RetryDue,
       FrameSteps, Steps, Halted, Balanced
  <2>. QED  BY <2>1, BalancedStep
<1>13. CASE OdAnalyzeData
  <2>1. Balanced
    BY <1>13, Releases DEF OdAnalyzeData, Proceed, ChangeToOd, RetryDue, FrameSteps,
       Steps, Halted, Balanced
  <2>. QED  BY <2>1, BalancedStep
<1>14. CASE OdSaveCrop
  <2>1. Balanced
    BY <1>14, Releases DEF OdSaveCrop, Proceed, ChangeToOd, RetryDue, FrameSteps,
       Steps, Halted, Balanced
  <2>. QED  BY <2>1, BalancedStep
<1>15. CASE OdSetDnn
  <2>. icNetwork \in Networks
    BY DEF IInv, TypeOK
  <2>. QED  BY <1>15, SetDnnPays DEF OdSetDnn
<1>16. CASE DnnIcVerifyDnnStream
  <2>1. Balanced
    BY <1>16, Releases DEF DnnIcVerifyDnnStream, Proceed, ChangeToOd, RetryDue,
       FrameSteps, Steps, Halted, Balanced
  <2>. QED  BY <2>1, BalancedStep
<1>17. CASE DnnIcVerifyDnnChannel
  <2>1. Balanced
    BY <1>17, Releases DEF DnnIcVerifyDnnChannel, Proceed, ChangeToOd, RetryDue,
       FrameSteps, Steps, Halted, Balanced
  <2>. QED  BY <2>1, BalancedStep
<1>18. CASE DnnIcSetCrop
  <2>1. nextCrop # NoCrop
    BY <1>18 DEF DnnIcSetCrop, IInv, SettingInv, Halted
  <2>2. \/ DeviceSetCrop(nextCrop) /\ ReleaseFrame(0) /\ pc' = "LoopHead" /\ state' = "kChangingCropIc"
        \/ ReleaseFrame(1) /\ pc' = "LoopHead" /\ state' = "kChangingCropIc"
        \/ Break(1)
    BY <1>18, <2>1 DEF DnnIcSetCrop, NextState
  <2>3. CASE DeviceSetCrop(nextCrop) /\ ReleaseFrame(0) /\ pc' = "LoopHead" /\ state' = "kChangingCropIc"
    <3>1. \E spent \in 0..1 : ReleaseFrame(spent)
      <4>. 0 \in 0..1
        OBVIOUS
      <4>. QED  BY <2>3
    <3>2. Balanced
      BY <1>18, <2>3, <3>1 DEF DnnIcSetCrop, DeviceSetCrop, RetryDue, FrameSteps, Steps, Halted, Balanced
    <3>. QED  BY <3>2, BalancedStep
  <2>4. CASE ReleaseFrame(1)
    <3>1. 1 \in 0..1 /\ pc \in FrameSteps /\ Holding = 1 /\ Holding' \in 0..1 /\ ~RetryDue
      BY <1>18 DEF DnnIcSetCrop, FrameSteps, Steps, Holding, RetryDue
    <3>2. IsFiniteSet(frames') /\ Cardinality(frames') + faults' = Cardinality(frames) + faults - 1 - 1
      BY <2>4, <3>1, Counted
    <3>3. Cardinality(frames') \in Nat
      BY <3>2, FS_CardinalityType
    <3>. QED  BY <1>a, <3>1, <3>2, <3>3 DEF LeakInv
  <2>. QED  BY <2>2, <2>3, <2>4 DEF Break
<1>19. CASE CropIcVerifyDnnStream
  <2>1. Balanced
    BY <1>19, Releases DEF CropIcVerifyDnnStream, Proceed, ChangeToOd, RetryDue,
       FrameSteps, Steps, Halted, Balanced
  <2>. QED  BY <2>1, BalancedStep
<1>20. CASE CropIcVerifyDnnChannel
  <2>1. Balanced
    BY <1>20, Releases DEF CropIcVerifyDnnChannel, Proceed, ChangeToOd, RetryDue,
       FrameSteps, Steps, Halted, Balanced
  <2>. QED  BY <2>1, BalancedStep
<1>21. CASE CropIcVerifyCrop
  <2>1. Balanced
    BY <1>21, Releases DEF CropIcVerifyCrop, Completed, Proceed, NextState,
       ChangeToOd, RetryDue, FrameSteps, Steps, Halted, Balanced
  <2>. QED  BY <2>1, BalancedStep
<1>22. CASE CropIcRetrySetCrop
  <2>1. CASE Proceed("LoopHead") /\ DeviceSetCrop(nextCrop)
    <3>1. /\ RetryDue /\ ~RetryDue'
          /\ Holding = 1 /\ Holding' = 0
          /\ UNCHANGED <<frames, faults>>
      BY <1>22, <2>1 DEF CropIcRetrySetCrop, Proceed, DeviceSetCrop, RetryDue, Holding,
                         FrameSteps, Steps
    <3>. QED  BY <1>a, <3>1 DEF LeakInv
  <2>2. CASE ~(Proceed("LoopHead") /\ DeviceSetCrop(nextCrop))
    <3>. Balanced
      BY <1>22, <2>2, Releases DEF CropIcRetrySetCrop, ChangeToOd, RetryDue, FrameSteps, Steps, Balanced
    <3>. QED  BY BalancedStep
  <2>. QED  BY <2>1, <2>2
<1>23. CASE IcVerifyDnnStream
  <2>1. Balanced
    BY <1>23, Releases DEF IcVerifyDnnStream, Proceed, ChangeToOd, RetryDue,
       FrameSteps, Steps, Halted, Balanced
  <2>. QED  BY <2>1, BalancedStep
<1>24. CASE IcVerifyDnnChannel
  <2>1. Balanced
    BY <1>24, Releases DEF IcVerifyDnnChannel, Proceed, ChangeToOd, RetryDue,
       FrameSteps, Steps, Halted, Balanced
  <2>. QED  BY <2>1, BalancedStep
<1>25. CASE IcAnalyzeData
  <2>1. Balanced
    BY <1>25, Releases DEF IcAnalyzeData, Proceed, ChangeToOd, RetryDue, FrameSteps,
       Steps, Halted, Balanced
  <2>. QED  BY <2>1, BalancedStep
<1>26. CASE IcSetDnn
  <2>. odNetwork \in Networks
    BY DEF IInv, TypeOK
  <2>. QED  BY <1>26, SetDnnPays DEF IcSetDnn
<1>27. CASE DnnOdVerifyDnnStream
  <2>1. Balanced
    BY <1>27, Releases DEF DnnOdVerifyDnnStream, Proceed, ChangeToOd, RetryDue,
       FrameSteps, Steps, Halted, Balanced
  <2>. QED  BY <2>1, BalancedStep
<1>28. CASE DnnOdVerifyDnnChannel
  <2>1. Balanced
    BY <1>28, Releases DEF DnnOdVerifyDnnChannel, Completed, Proceed, NextState,
       ChangeToOd, RetryDue, FrameSteps, Steps, Halted, Balanced
  <2>. QED  BY <2>1, BalancedStep
<1>29. CASE ConfigOd
  <2>1. Balanced
    BY <1>29 DEF ConfigOd, RetryDue, FrameSteps, Steps, Halted, Balanced
  <2>. QED  BY <2>1, BalancedStep
<1>30. CASE ConfigIc
  <2>1. Balanced
    BY <1>30 DEF ConfigIc, RetryDue, FrameSteps, Steps, Halted, Balanced
  <2>. QED  BY <2>1, BalancedStep
<1>31. CASE ShouldExit
  <2>1. Balanced
    BY <1>31 DEF ShouldExit, RetryDue, FrameSteps, Steps, Halted, Balanced
  <2>. QED  BY <2>1, BalancedStep
<1>32. CASE EvpStopStream
  <2>1. /\ faults' <= faults
        /\ RetryDue' => RetryDue
        /\ Holding' = Holding /\ Holding \in 0..1
        /\ frames' = frames
    BY <1>32, <1>a DEF EvpStopStream, StopStream, RetryDue, Halted, Holding
  <2>. QED  BY <1>a, <2>1 DEF LeakInv
<1>33. CASE SendDone
  <2>1. Balanced
    BY <1>33 DEF SendDone, RetryDue, FrameSteps, Steps, Halted, Balanced
  <2>. QED  BY <2>1, BalancedStep
<1>34. CASE DeviceCapture
  <2>1. Balanced
    BY <1>34 DEF DeviceCapture, Capture, RetryDue, FrameSteps, Steps, Halted, Balanced
  <2>. QED  BY <2>1, BalancedStep
<1>35. CASE DeviceRestart
  <2>1. faults' = faults - 1 /\ Holding' = Holding /\ Holding \in 0..1 /\ frames' = frames
    BY <1>35 DEF DeviceRestart, Restart, Holding
  <2>. QED  BY <1>a, <2>1 DEF LeakInv
<1>36. CASE Terminating
  <2>1. Balanced
    BY <1>36 DEF Terminating, vars, RetryDue, FrameSteps, Steps, Halted, Balanced
  <2>. QED  BY <2>1, BalancedStep
<1>37. CASE UNCHANGED vars
  <2>1. Balanced
    BY <1>37 DEF vars, RetryDue, Halted, Balanced
  <2>. QED  BY <2>1, BalancedStep
<1>. QED
  BY <1>1, <1>2, <1>3, <1>4, <1>5, <1>6, <1>7, <1>8, <1>9, <1>10, <1>11, <1>12,
     <1>13, <1>14, <1>15, <1>16, <1>17, <1>18, <1>19, <1>20, <1>21, <1>22, <1>23,
     <1>24, <1>25, <1>26, <1>27, <1>28, <1>29, <1>30, <1>31, <1>32, <1>33, <1>34,
     <1>35, <1>36, <1>37 DEF Next, MainThread, EvpThread

\* No frame is held when the main loop starts, and no setting has been made.
LEMMA LeakInitially == Init => LeakInv
<1> SUFFICES ASSUME Init PROVE LeakInv
  OBVIOUS
<1>1. IsFiniteSet(frames) /\ Cardinality(frames) = 0
  BY FS_EmptySet DEF Init, SenscordInit
<1>2. ~RetryDue /\ Holding = 0 /\ faults = MaxFaults /\ MaxFaults \in Nat
  BY SenscordAssumption DEF Init, SenscordInit, RetryDue, Holding, FrameSteps, Steps
<1>. QED  BY <1>1, <1>2 DEF LeakInv

\* Between two iterations SenscordController lists at most one frame for every
\* failure or restart so far: without them no frame is ever lost.
THEOREM LeaksBounded == Spec => []LeakBound
<1>1. IInv /\ LeakInv => LeakBound
  <2> SUFFICES ASSUME IInv, LeakInv PROVE LeakBound
    OBVIOUS
  <2>1. /\ faults \in Nat /\ MaxFaults \in Nat /\ Cardinality(frames) \in Nat
        /\ Holding \in 0..1
    BY FS_CardinalityType, SenscordAssumption
       DEF IInv, TypeOK, SenscordTypeOK, LeakInv, Holding
  <2>. QED  BY <2>1 DEF LeakInv, LeakBound
<1>. QED  BY <1>1, LeakInitially, LeakStep, Invariance, PTL DEF Spec
=============================================================================
