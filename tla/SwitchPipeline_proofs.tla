------------------------ MODULE SwitchPipeline_proofs ------------------------
(***************************************************************************)
(* StateIc analyses whatever frame the IC model made and trusts that it has*)
(* the crop of the last detection.  What it rests on is the order of the   *)
(* frames between the device and the application: PipelineInv.             *)
(***************************************************************************)
EXTENDS SwitchDnn_proofs

-----------------------------------------------------------------------------
(* The pipeline.                                                           *)

\* What is said of the pipeline alone.
LEMMA SamePipeline ==
  ASSUME UNCHANGED pipeline
  PROVE  /\ AllIc' <=> AllIc
         /\ NoneIc' <=> NoneIc
         /\ IcFirst' <=> IcFirst
         /\ IcLast' <=> IcLast
         /\ DefaultCrops' <=> DefaultCrops
BY DEF AllIc, NoneIc, IcFirst, IcLast, DefaultCrops

\* What is said of the crops.
LEMMA SameCrops ==
  ASSUME UNCHANGED <<pipeline, cropStream>>, lastSent'.crop = lastSent.crop
  PROVE  /\ AllOnCrop' <=> AllOnCrop
         /\ CropLast' <=> CropLast
BY DEF AllOnCrop, CropLast, OnCrop

\* In a pipeline that holds nothing everything is in order.
LEMMA Dropped ==
  ASSUME pipeline' = <<>>
  PROVE  /\ AllIc' /\ NoneIc' /\ IcFirst' /\ IcLast' /\ DefaultCrops' /\ CropLast'
         /\ OnCrop(cropStream)' => AllOnCrop'
BY DEF AllIc, NoneIc, IcFirst, IcLast, DefaultCrops, CropLast, AllOnCrop

\* GetFrame takes the oldest frame, and what is said of all frames is said of it.
LEMMA Taken ==
  ASSUME TypeOK, GetFrame, UNCHANGED lastSent
  PROVE  /\ AllIc => AllIc' /\ IsIc(frame')
         /\ NoneIc => NoneIc' /\ ~IsIc(frame')
         /\ IcFirst => IcFirst' /\ (~IsIc(frame') => NoneIc')
         /\ IcLast => IcLast' /\ (IsIc(frame') => AllIc')
         /\ DefaultCrops => DefaultCrops'
         /\ CropLast => CropLast' /\ (OnCrop(frame'.crop) => AllOnCrop')
         /\ AllOnCrop => AllOnCrop' /\ OnCrop(frame'.crop)
<1>1. pipeline \in Seq(Frames) /\ pipeline # <<>>
  BY DEF GetFrame, TypeOK, SenscordTypeOK
<1>2. /\ Len(pipeline) \in Nat \ {0} /\ DOMAIN pipeline = 1..Len(pipeline)
      /\ DOMAIN pipeline' = 1..Len(pipeline) - 1
      /\ frame' = pipeline[1]
      /\ \A i \in DOMAIN pipeline' : pipeline'[i] = pipeline[i + 1]
  BY <1>1 DEF GetFrame
<1>3. \A i \in DOMAIN pipeline' : i + 1 \in DOMAIN pipeline /\ 1 < i + 1
  BY <1>2
<1>4. 1 \in DOMAIN pipeline
  BY <1>2
<1>5. \A i, j \in DOMAIN pipeline' : i < j => i + 1 < j + 1
  BY <1>2
<1>6. cropStream' = cropStream
  BY DEF GetFrame
<1>. USE <1>2, <1>3, <1>4
<1>7. AllIc => AllIc' /\ IsIc(frame')
  BY DEF AllIc
<1>8. NoneIc => NoneIc' /\ ~IsIc(frame')
  BY DEF NoneIc
<1>9. IcFirst => IcFirst' /\ (~IsIc(frame') => NoneIc')
  BY <1>5 DEF IcFirst, NoneIc
<1>10. IcLast => IcLast' /\ (IsIc(frame') => AllIc')
  BY <1>5 DEF IcLast, AllIc
<1>11. DefaultCrops => DefaultCrops'
  BY DEF DefaultCrops
<1>12. CropLast => CropLast' /\ (OnCrop(frame'.crop) => AllOnCrop')
  BY <1>5, <1>6 DEF CropLast, AllOnCrop, OnCrop
<1>13. AllOnCrop => AllOnCrop' /\ OnCrop(frame'.crop)
  BY <1>6 DEF AllOnCrop, OnCrop
<1>. QED
  BY <1>7, <1>8, <1>9, <1>10, <1>11, <1>12, <1>13

\* A frame is captured with the model and the crop of the moment, behind all others.
LEMMA Captured ==
  ASSUME TypeOK, NEW used, Capture(used), UNCHANGED lastSent
  PROVE  /\ AllIc /\ StreamIsIc => AllIc'
         /\ NoneIc /\ ~StreamIsIc => NoneIc'
         /\ IcFirst /\ ~StreamIsIc => IcFirst'
         /\ IcLast /\ StreamIsIc => IcLast'
         /\ DefaultCrops /\ (StreamIsIc => cropStream = DefaultCrop) => DefaultCrops'
         /\ CropLast => CropLast'
         /\ AllOnCrop => AllOnCrop'
<1>1. PICK t \in Stamps :
        pipeline' = Append(pipeline, [ts |-> t, dnn |-> dnnStream, crop |-> cropStream])
  BY DEF Capture
<1>. DEFINE n == Len(pipeline)
<1>2. pipeline \in Seq(Frames) /\ n \in Nat /\ cropStream' = cropStream
  BY DEF TypeOK, SenscordTypeOK, Capture
<1>3. /\ DOMAIN pipeline = 1..n /\ DOMAIN pipeline' = 1..n + 1
      /\ \A i \in 1..n : pipeline'[i] = pipeline[i]
      /\ pipeline'[n + 1].dnn = dnnStream /\ pipeline'[n + 1].crop = cropStream
  BY <1>1, <1>2
<1>4. \A i \in 1..n + 1 : i = n + 1 \/ i \in 1..n
  BY <1>2
<1>5. \A i, j \in 1..n + 1 : i < j => i \in 1..n
  BY <1>2
<1>. HIDE DEF n
<1>. USE <1>3, <1>4
<1>6. AllIc /\ StreamIsIc => AllIc'
  BY DEF AllIc, StreamIsIc, IsIc
<1>7. NoneIc /\ ~StreamIsIc => NoneIc'
  BY DEF NoneIc, StreamIsIc, IsIc
<1>8. IcFirst /\ ~StreamIsIc => IcFirst'
  BY <1>5 DEF IcFirst, StreamIsIc, IsIc
<1>9. IcLast /\ StreamIsIc => IcLast'
  BY <1>5 DEF IcLast, StreamIsIc, IsIc
<1>10. DefaultCrops /\ (StreamIsIc => cropStream = DefaultCrop) => DefaultCrops'
  BY DEF DefaultCrops, StreamIsIc, IsIc
<1>11. CropLast => CropLast'
  BY <1>2, <1>5 DEF CropLast, OnCrop
<1>12. AllOnCrop => AllOnCrop'
  BY <1>2 DEF AllOnCrop, OnCrop
<1>. QED
  BY <1>6, <1>7, <1>8, <1>9, <1>10, <1>11, <1>12

\* In kinds that exclude each other, all and none are the same only of nothing: what
\* has one order trivially has the other.
LEMMA OneKind ==
  /\ AllIc => IcFirst /\ IcLast
  /\ NoneIc => IcFirst /\ IcLast
BY DEF AllIc, NoneIc, IcFirst, IcLast

\* Frames of an IC model that all have the default crop are in order, whether the
\* crop that is set next is the one waited for or the default crop again.
LEMMA DefaultOrder ==
  ASSUME AllIc, DefaultCrops, UNCHANGED pipeline, OnCrop(cropStream)' \/ cropStream' = DefaultCrop
  PROVE  CropLast'
BY DEF AllIc, DefaultCrops, CropLast, OnCrop

-----------------------------------------------------------------------------
(* The steps.                                                              *)

PipeInv == KindInv /\ OrderInv /\ CropInv

\* The device and the result stay what they are.
Still == UNCHANGED <<device, lastSent, odNetwork, icNetwork>>

LEMMA StillPipe ==
  ASSUME Still
  PROVE  /\ AllIc' <=> AllIc
         /\ NoneIc' <=> NoneIc
         /\ IcFirst' <=> IcFirst
         /\ IcLast' <=> IcLast
         /\ DefaultCrops' <=> DefaultCrops
         /\ AllOnCrop' <=> AllOnCrop
         /\ CropLast' <=> CropLast
BY SamePipeline, SameCrops DEF Still, device

LEMMA PipelineInit == Init /\ IcApart => PipeInv
<1> SUFFICES ASSUME Init, IcApart PROVE PipeInv
  OBVIOUS
<1>1. FirstNetwork \notin IcNetworks /\ InitialConfig.od \notin IcNetworks
      /\ InitialConfig.ic \in IcNetworks
  BY SwitchDnnAssumption DEF IcApart, IcNetworks
<1>2. IcFirst /\ NoneIc
  BY DEF Init, SenscordInit, IcFirst, NoneIc
<1>. QED
  BY <1>1, <1>2
     DEF Init, SenscordInit, PipeInv, KindInv, OrderInv, CropInv, StreamIsIc, InHand,
         FrameSteps, Steps, Halted

LEMMA PipelineStep ==
  ASSUME IInv, IcApart, PipeInv, [Next]_vars, RestartDrops
  PROVE  PipeInv'
<1> USE SenscordAssumption, SwitchDnnAssumption
    DEF IInv, TypeOK, SenscordTypeOK, StepInv, SettingInv, PipeInv, KindInv, OrderInv, CropInv,
        StreamIsIc, IsIc, OnCrop, InHand, Halted, FrameSteps, Steps, SequenceState,
        senscordVars, device, appModel, sess, evp, EndsIteration, Still
<1>0. FirstNetwork \notin IcNetworks /\ NoNetwork \notin IcNetworks
      /\ \A c \in Configs : c.od \notin IcNetworks /\ c.ic \in IcNetworks
  BY DEF IcApart, IcNetworks
<1>1. CASE LoopHead
  BY <1>1, StillPipe DEF LoopHead
<1>2. CASE MainGetFrame
  <2>1. CASE GetFrame /\ pc' = "VerifyDnnStream"
    BY <1>2, <2>1, Taken DEF MainGetFrame, GetFrame
  <2>2. CASE ~GetFrame \/ pc' # "VerifyDnnStream"
    <3>1. EndsIteration /\ UNCHANGED <<device, streaming>>
      BY <1>2, <2>2, Spend DEF MainGetFrame
    <3>. QED  BY <1>2, <3>1, StillPipe DEF MainGetFrame
  <2>. QED  BY <2>1, <2>2
<1>3. CASE GetChannel
  BY <1>3, GivesUp, StillPipe DEF GetChannel, Proceed
<1>4. CASE GetCropProperty
  BY <1>4, GivesUp, StillPipe DEF GetCropProperty, Proceed
<1>5. CASE GetRawData
  BY <1>5, GivesUp, StillPipe DEF GetRawData, Proceed
<1>6. CASE SerializeData
  BY <1>6, GivesUp, StillPipe DEF SerializeData, Proceed
<1>7. CASE SendSerializedData
  BY <1>7, GivesUp, SamePipeline, SameCrops DEF SendSerializedData, Result
<1>8. CASE WaitSend
  BY <1>8, StillPipe DEF WaitSend
<1>9. CASE RetrySetDnn
  BY <1>9, GivesUp, GivesUpToOd, SamePipeline, OneKind DEF RetrySetDnn, Proceed, DeviceSetDnn
<1>10. CASE Finalize
  BY <1>10, StillPipe DEF Finalize
<1>11. CASE OdVerifyDnnStream
  BY <1>11, GivesUp, StillPipe DEF OdVerifyDnnStream, Proceed
<1>12. CASE OdVerifyDnnChannel
  BY <1>12, GivesUp, StillPipe DEF OdVerifyDnnChannel, Proceed
<1>13. CASE OdAnalyzeData
  BY <1>13, GivesUp, StillPipe DEF OdAnalyzeData, Proceed
<1>14. CASE OdSaveCrop
  BY <1>14, GivesUp, StillPipe DEF OdSaveCrop, Proceed
<1>15. CASE OdSetDnn
  <2>1. /\ nextDnn' = icNetwork /\ UNCHANGED <<pipeline, frame, lastSent, nextCrop, odNetwork, icNetwork>>
        /\ \/ pc' = "LoopHead" /\ state' = "kChangingDnnIc"
           \/ pc' = "Finalize"
    BY <1>15, SetsDnn DEF OdSetDnn, NextState
  <2>2. NoneIc /\ ~StreamIsIc /\ OnCrop(nextCrop)
    BY <1>15 DEF OdSetDnn, SetDnnTo
  <2>3. \/ dnnStream' = icNetwork /\ cropStream' = DefaultCrop
        \/ dnnStream' = dnnStream
    BY <1>15 DEF OdSetDnn, SetDnnTo, DeviceSetDnn
  <2>4. NoneIc' /\ DefaultCrops' /\ IcLast'
    BY <2>1, <2>2, SamePipeline, OneKind DEF NoneIc, DefaultCrops
  <2>. QED  BY <2>1, <2>2, <2>3, <2>4
<1>16. CASE DnnIcVerifyDnnStream
  BY <1>16, GivesUp, GivesUpToOd, StillPipe, OneKind DEF DnnIcVerifyDnnStream, Proceed
<1>17. CASE DnnIcVerifyDnnChannel
  BY <1>17, GivesUp, GivesUpToOd, StillPipe, OneKind DEF DnnIcVerifyDnnChannel, Proceed
<1>18. CASE DnnIcSetCrop
  <2>1. /\ UNCHANGED <<dnnStream, pipeline, lastSent, nextCrop, odNetwork, icNetwork>>
        /\ \/ pc' = "LoopHead" /\ state' = "kChangingCropIc"
           \/ pc' = "Finalize" /\ state' = state
    BY <1>18, CropIsSet
  <2>2. pc = "SetCrop" /\ state = "kChangingDnnIc" /\ cropStream' \in {cropStream, nextCrop}
    BY <1>18 DEF DnnIcSetCrop, DeviceSetCrop
  <2>3. DefaultCrops /\ OnCrop(nextCrop) /\ IF StreamIsIc THEN AllIc ELSE NoneIc
    BY <2>2
  <2>4. StreamIsIc => CropLast'
    BY <2>1, <2>2, <2>3, DefaultOrder
  <2>. QED  BY <2>1, <2>2, <2>3, <2>4, SamePipeline
<1>19. CASE CropIcVerifyDnnStream
  BY <1>19, GivesUp, GivesUpToOd, StillPipe, OneKind DEF CropIcVerifyDnnStream, Proceed
<1>20. CASE CropIcVerifyDnnChannel
  BY <1>20, GivesUp, GivesUpToOd, StillPipe, OneKind DEF CropIcVerifyDnnChannel, Proceed
<1>21. CASE CropIcVerifyCrop
  BY <1>21, GivesUp, GivesUpToOd, StillPipe, OneKind
     DEF CropIcVerifyCrop, Completed, Proceed, NextState
<1>22. CASE CropIcRetrySetCrop
  <2>1. UNCHANGED <<dnnStream, pipeline, lastSent, nextCrop, odNetwork, icNetwork>>
    BY <1>22 DEF CropIcRetrySetCrop, DeviceSetCrop
  <2>2. pc = "RetrySetCrop" /\ state = "kChangingCropIc" /\ nextCrop # NoCrop
    BY <1>22 DEF CropIcRetrySetCrop
  <2>3. CASE pc' = "LoopHead" /\ state' = state /\ cropStream' = nextCrop
    <3>1. CropLast => CropLast'
      BY <2>1, <2>2, <2>3 DEF CropLast
    <3>. QED  BY <2>1, <2>2, <2>3, <3>1, SamePipeline
  <2>4. CASE pc' \in {"LoopHead", "Finalize"} /\ state' = state /\ cropStream' = cropStream
    BY <2>1, <2>2, <2>4, SamePipeline, SameCrops
  <2>. QED
    BY <1>22, <2>2, <2>3, <2>4, GivesUp
       DEF CropIcRetrySetCrop, Proceed, DeviceSetCrop, EndsIteration
<1>23. CASE IcVerifyDnnStream
  BY <1>23, GivesUp, GivesUpToOd, StillPipe, OneKind DEF IcVerifyDnnStream, Proceed
<1>24. CASE IcVerifyDnnChannel
  BY <1>24, GivesUp, GivesUpToOd, StillPipe, OneKind DEF IcVerifyDnnChannel, Proceed
<1>25. CASE IcAnalyzeData
  BY <1>25, GivesUp, StillPipe DEF IcAnalyzeData, Proceed
<1>26. CASE IcSetDnn
  <2>1. /\ nextDnn' = odNetwork /\ UNCHANGED <<pipeline, frame, lastSent, odNetwork, icNetwork>>
        /\ \/ pc' = "LoopHead" /\ state' = "kChangingDnnOd"
           \/ pc' = "Finalize"
    BY <1>26, SetsDnn DEF IcSetDnn, NextState
  <2>2. IF StreamIsIc THEN AllIc ELSE NoneIc
    BY <1>26 DEF IcSetDnn, SetDnnTo
  <2>3. dnnStream' = odNetwork \/ dnnStream' = dnnStream
    BY <1>26 DEF IcSetDnn, SetDnnTo, DeviceSetDnn
  <2>. QED  BY <2>1, <2>2, <2>3, SamePipeline, OneKind
<1>27. CASE DnnOdVerifyDnnStream
  BY <1>27, GivesUp, GivesUpToOd, StillPipe DEF DnnOdVerifyDnnStream, Proceed
<1>28. CASE DnnOdVerifyDnnChannel
  BY <1>28, GivesUp, GivesUpToOd, StillPipe DEF DnnOdVerifyDnnChannel, Completed, Proceed,
     NextState
<1>29. CASE ConfigOd
  BY <1>0, <1>29, SamePipeline, SameCrops DEF ConfigOd
<1>30. CASE ConfigIc
  BY <1>0, <1>30, SamePipeline, SameCrops DEF ConfigIc
<1>31. CASE ShouldExit
  BY <1>31, StillPipe DEF ShouldExit
<1>32. CASE EvpStopStream
  BY <1>32, StillPipe DEF EvpStopStream
<1>33. CASE SendDone
  BY <1>33, StillPipe DEF SendDone
<1>34. CASE DeviceCapture
  BY <1>34, Captured DEF DeviceCapture, Capture
<1>35. CASE DeviceRestart
  BY <1>0, <1>35, Dropped DEF DeviceRestart, Restart, RestartDrops
<1>36. CASE Terminating
  BY <1>36, StillPipe DEF Terminating, vars
<1>37. CASE UNCHANGED vars
  BY <1>37, StillPipe DEF vars
<1>. QED
  BY <1>1, <1>2, <1>3, <1>4, <1>5, <1>6, <1>7, <1>8, <1>9, <1>10, <1>11, <1>12,
     <1>13, <1>14, <1>15, <1>16, <1>17, <1>18, <1>19, <1>20, <1>21, <1>22, <1>23,
     <1>24, <1>25, <1>26, <1>27, <1>28, <1>29, <1>30, <1>31, <1>32, <1>33, <1>34,
     <1>35, <1>36, <1>37 DEF Next, MainThread, EvpThread
-----------------------------------------------------------------------------
(* What is classified.                                                     *)

\* Under a device that drops the frames under way when inference is restarted, every
\* classification is of the crop of the detection it is linked with, however many
\* frames are under way and however often calls fail.
THEOREM ClassifiesDetections == ASSUME IcApart PROVE DroppingSpec => []IcOnDetection
<1>1. Init => IInv /\ PipeInv
  BY Initially, PipelineInit
<1>2. IInv /\ PipeInv /\ [Next /\ RestartDrops]_vars => (IInv /\ PipeInv)'
  <2> SUFFICES ASSUME IInv, PipeInv, [Next /\ RestartDrops]_vars PROVE (IInv /\ PipeInv)'
    OBVIOUS
  <2>1. [Next]_vars
    OBVIOUS
  <2>2. CASE RestartDrops
    BY <2>1, <2>2, Step, PipelineStep
  <2>3. CASE UNCHANGED vars
    <3>1. RestartDrops
      BY <2>3 DEF RestartDrops, DeviceRestart, Restart, vars, senscordVars, IInv, TypeOK, SenscordTypeOK
    <3>. QED  BY <3>1, <2>1, Step, PipelineStep
  <2>. QED  BY <2>2, <2>3
<1>3. IInv /\ PipeInv => IcOnDetection
  BY DEF IInv, LinkInv, PipeInv, CropInv, IcOnDetection, OnCrop, Halted
<1>. QED  BY <1>1, <1>2, <1>3, PTL DEF DroppingSpec
=============================================================================
