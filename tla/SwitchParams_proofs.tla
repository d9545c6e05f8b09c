--------------------------- MODULE SwitchParams_proofs ---------------------------
(***************************************************************************)
(* For every set of configurations, however the EVP thread and the main    *)
(* thread interleave: the parameters of the two analyzers are typed and    *)
(* bounded, belong to one configuration, and the networks the application  *)
(* asks for are the networks of that configuration once it is the last one *)
(* that arrived.                                                           *)
(*                                                                         *)
(* IInv adds to the properties what lies between the validation and the    *)
(* assignments: as long as no analyzer has refused the configuration, what *)
(* is kept for validation is what the configuration says.                  *)
(*                                                                         *)
(* MainInv follows a frame: what was verified of it, what the analysis     *)
(* made of it, the crop and the message.  What a message of the right      *)
(* tensor contains is the subject of Analyzers_proofs.                     *)
(***************************************************************************)
EXTENDS SwitchParams, Analyzers_proofs

-----------------------------------------------------------------------------
(* The conversions.                                                        *)

\* A conversion to uint16_t stays below Word.
LEMMA Uint16Type ==
  ASSUME NEW v \in Int
  PROVE  uint16(v) \in 0..Word - 1
BY ParamsAssumption DEF uint16

\* A clamped maximum is a uint16_t and no more than what it is clamped to.
LEMMA ClampedType ==
  ASSUME NEW v \in Int, NEW max \in Int
  PROVE  Clamped(v, max) \in 0..Word - 1 /\ Clamped(v, max) <= uint16(max)
<1>1. uint16(v) \in 0..Word - 1 /\ uint16(max) \in 0..Word - 1
  BY Uint16Type
<1>. QED
  BY <1>1, ParamsAssumption DEF Clamped, Least

\* An accepted detection model is parsed into parameters of the right type, with no
\* more detections wanted than the network delivers.
LEMMA OdParsedType ==
  ASSUME NEW m \in Models(OdMembers), OdAccepts(m)
  PROVE  /\ OdParsed(m) \in OdParams
         /\ OdParsed(m).max_detections_ <= OdParsed(m).dnn_output_detections_
<1>1. m # Absent /\ m.param # Absent /\ m.param \in [OdMembers -> Int \cup {Absent}]
  BY DEF OdAccepts, Complete, StoresNetworkId, Models
<1>2. \A f \in OdMembers : m.param[f] \in Int
  BY <1>1 DEF OdAccepts, Complete
<1>3. /\ m.param["dnn_output_detections"] \in Int /\ m.param["max_detections"] \in Int
      /\ m.param["input_width"] \in Int /\ m.param["input_height"] \in Int
  BY <1>2 DEF OdMembers
<1>4. m.param["threshold"] \in 0..Unit
  BY DEF OdAccepts
<1>5. /\ uint16(m.param["dnn_output_detections"]) \in 0..Word - 1
      /\ uint16(m.param["input_width"]) \in 0..Word - 1
      /\ uint16(m.param["input_height"]) \in 0..Word - 1
      /\ Clamped(m.param["max_detections"], m.param["dnn_output_detections"]) \in 0..Word - 1
      /\ Clamped(m.param["max_detections"], m.param["dnn_output_detections"])
           <= uint16(m.param["dnn_output_detections"])
  BY <1>3, Uint16Type, ClampedType
<1>. QED
  BY <1>4, <1>5 DEF OdParsed, OdParams

\* The same for a classification model.
LEMMA IcParsedType ==
  ASSUME NEW m \in Models(IcMembers), IcAccepts(m)
  PROVE  /\ IcParsed(m) \in IcParams
         /\ IcParsed(m).max_predictions_ <= IcParsed(m).dnn_output_classes_
<1>1. m # Absent /\ m.param # Absent /\ m.param \in [IcMembers -> Int \cup {Absent}]
  BY DEF IcAccepts, Complete, StoresNetworkId, Models
<1>2. \A f \in IcMembers : m.param[f] \in Int
  BY <1>1 DEF IcAccepts, Complete
<1>3. m.param["dnn_output_classes"] \in Int /\ m.param["max_predictions"] \in Int
  BY <1>2 DEF IcMembers
<1>4. /\ uint16(m.param["dnn_output_classes"]) \in 0..Word - 1
      /\ Clamped(m.param["max_predictions"], m.param["dnn_output_classes"]) \in 0..Word - 1
      /\ Clamped(m.param["max_predictions"], m.param["dnn_output_classes"])
           <= uint16(m.param["dnn_output_classes"])
  BY <1>3, Uint16Type, ClampedType
<1>. QED
  BY <1>4 DEF IcParsed, IcParams

\* A network id that is stored comes from a configuration.
LEMMA StoredId ==
  ASSUME NEW c \in Configs
  PROVE  /\ StoresNetworkId(c.od) => c.od.network_id \in NetworkIds
         /\ StoresNetworkId(c.ic) => c.ic.network_id \in NetworkIds
BY DEF NetworkIds

-----------------------------------------------------------------------------
(* The inductive invariant.                                                *)

\* How far the EVP thread is with its configuration.
Progress ==
    /\ evpPc # "Idle" => config \in Configs
    /\ evpPc = "Common" => errors = 0
    /\ evpPc = "Od" => errors <= 1
    /\ evpPc = "Ic" => errors <= 2
    /\ evpPc \in {"LockOd", "SetOd", "SetIc"} => errors = 0

\* What is kept for validation is bounded, and is what an accepted configuration says.
Validated ==
    /\ odValidating # None =>
         odValidating.max_detections_ <= odValidating.dnn_output_detections_
    /\ icValidating # None =>
         icValidating.max_predictions_ <= icValidating.dnn_output_classes_
    /\ evpPc \in {"Ic", "LockOd", "SetOd", "SetIc"} /\ errors = 0 =>
         /\ odValidating # None /\ odValidating = OdParsed(config.od)
         /\ odNetworkId = config.od.network_id
    /\ evpPc \in {"LockOd", "SetOd", "SetIc"} =>
         /\ icValidating # None /\ icValidating = IcParsed(config.ic)
         /\ icNetworkId = config.ic.network_id

\* The parameters are those of the configuration in force, or of the next one when the
\* detection analyzer has them already.
InUse ==
    /\ evpPc = "SetIc" => odParam = OdParsed(config.od)
    /\ evpPc # "SetIc" =>
         odParam = IF inForce = None THEN OdDefault ELSE OdParsed(inForce.od)
    /\ icParam = IF inForce = None THEN IcDefault ELSE IcParsed(inForce.ic)

\* The last configuration is in force.
Latest ==
    accepted =>
        /\ evpPc = "Idle"
        /\ config = inForce
        /\ odNetworkId = inForce.od.network_id
        /\ icNetworkId = inForce.ic.network_id

IInv == TypeOK /\ Progress /\ Validated /\ InUse /\ Latest

-----------------------------------------------------------------------------
(* The main thread only reads what the EVP thread writes.                  *)

MainTypes ==
    /\ pc \in Steps
    /\ frame \in OdFrames \cup IcFrames \cup {None}
    /\ nextDnn \in NetworkIds \cup {0, None}
    /\ quiet \in BOOLEAN
    /\ steady \in BOOLEAN

\* What the steps of the main thread leave alone.
EvpSide == <<evpVars, odVars, icVars, inForce, accepted>>

LEMMA GoesOn ==
  ASSUME TypeOK, NEW at, NEW next \in Steps, Proceeds(at, next), nextDnn' \in {nextDnn, None}
  PROVE  MainTypes' /\ UNCHANGED EvpSide
<1>1. nextDnn' \in NetworkIds \cup {0, None}
  BY DEF TypeOK
<1>. QED
  BY <1>1 DEF TypeOK, Proceeds, MainTypes, EvpSide

LEMMA GivenUp ==
  ASSUME TypeOK, NEW at, NEW next \in Steps, GivesUp(at, next), steady' \in BOOLEAN,
         nextDnn' \in NetworkIds \cup {0, None}
  PROVE  MainTypes' /\ UNCHANGED EvpSide
<1>1. quiet' \in BOOLEAN
  BY Zenon DEF GivesUp
<1>. QED
  BY <1>1 DEF TypeOK, GivesUp, MainTypes, EvpSide

LEMMA Drops ==
  ASSUME TypeOK, NEW at, NEW next \in Steps, Drop(at, next)
  PROVE  MainTypes' /\ UNCHANGED EvpSide
<1>1. GivesUp(at, next) /\ nextDnn' \in NetworkIds \cup {0, None}
  BY DEF Drop, TypeOK
<1>2. steady' \in BOOLEAN
  BY Zenon DEF Drop
<1>. QED
  BY <1>1, <1>2, GivenUp

LEMMA MainStep ==
  ASSUME TypeOK, Main
  PROVE  MainTypes' /\ UNCHANGED EvpSide
<1>. USE DEF OdSteps, IcSteps, DnnOdSteps, Steps
<1>1. CASE WaitParam
  BY <1>1, GoesOn DEF WaitParam, Goes
<1>2. CASE OdGetFrame \/ DnnOdGetFrame \/ IcGetFrame
  <2>1. quiet' \in BOOLEAN
    BY <1>2, Zenon DEF OdGetFrame, DnnOdGetFrame, IcGetFrame, TakeFrame
  <2>2. steady' \in BOOLEAN
    BY <1>2, <2>1 DEF OdGetFrame, DnnOdGetFrame, IcGetFrame, TypeOK
  <2>. QED
    BY <1>2, <2>1, <2>2 DEF OdGetFrame, DnnOdGetFrame, IcGetFrame, TakeFrame, TypeOK,
       MainTypes, EvpSide
<1>3. CASE OdVerifyDnnStream \/ OdVerifyDnnChannel
  BY <1>3, GoesOn, Drops DEF OdVerifyDnnStream, OdVerifyDnnChannel, OdVerify, Goes
<1>4. CASE OdAnalyze
  <2>1. Goes("OdAnalyze", "SaveCrop") \/ Drop("OdAnalyze", "OdFrame")
    BY <1>4, Zenon DEF OdAnalyze
  <2>. QED
    BY <2>1, GoesOn, Drops DEF Goes
<1>5. CASE OdReadWidth
  BY <1>5, GoesOn DEF OdReadWidth, Goes
<1>6. CASE OdSaveCrop
  <2>1. Goes("SaveCropHeight", "OdSerialize") \/ Drop("SaveCropHeight", "OdFrame")
    BY <1>6, Zenon DEF OdSaveCrop
  <2>. QED
    BY <2>1, GoesOn, Drops DEF Goes
<1>7. CASE OdSerialize \/ IcSerialize
  BY <1>7, GoesOn, Drops DEF OdSerialize, IcSerialize, Goes
<1>8. CASE OdDone \/ IcDone
  BY <1>8, Drops DEF OdDone, IcDone
<1>9. CASE IcVerifyDnnStream \/ IcVerifyDnnChannel
  BY <1>9, GoesOn, Drops DEF IcVerifyDnnStream, IcVerifyDnnChannel, IcVerify, Goes
<1>10. CASE IcAnalyze
  <2>1. Goes("IcAnalyze", "IcSerialize") \/ Drop("IcAnalyze", "IcFrame")
    BY <1>10, Zenon DEF IcAnalyze
  <2>. QED
    BY <2>1, GoesOn, Drops DEF Goes
<1>11. CASE DnnOdVerifyDnnStream
  <2>1. CASE GivesUp("DnnOdVerifyStream", "OdFrame") /\ nextDnn' = None /\ steady' = FALSE
    <3>1. steady' \in BOOLEAN
      BY <2>1, Zenon
    <3>. QED
      BY <2>1, <3>1, GivenUp
  <2>. QED
    BY <1>11, <2>1, GoesOn, Drops DEF DnnOdVerifyDnnStream, Goes
<1>12. CASE DnnOdVerifyDnnChannel
  BY <1>12, GoesOn, Drops DEF DnnOdVerifyDnnChannel
<1>13. CASE ApiFails
  BY <1>13, Drops DEF ApiFails
<1>14. CASE IcSetDnn
  <2>1. steady' \in BOOLEAN
    BY <1>14, Zenon DEF IcSetDnn
  <2>. QED
    BY <1>14, <2>1, GivenUp DEF IcSetDnn, TypeOK
<1>. QED
  BY <1>1, <1>2, <1>3, <1>4, <1>5, <1>6, <1>7, <1>8, <1>9, <1>10, <1>11, <1>12, <1>13, <1>14
     DEF Main

\* So they keep the invariant.
LEMMA MainKeeps ==
  ASSUME IInv, Main
  PROVE  IInv'
<1>1. MainTypes' /\ UNCHANGED EvpSide
  BY MainStep DEF IInv
<1>2. UNCHANGED <<evpPc, config, errors, odParam, odValidating, odNetworkId,
                  icParam, icValidating, icNetworkId, inForce, accepted>>
  BY <1>1 DEF EvpSide, evpVars, odVars, icVars
<1>3. TypeOK'
  BY <1>1, <1>2 DEF IInv, TypeOK, MainTypes
<1>. QED
  BY <1>2, <1>3 DEF IInv, Progress, Validated, InUse, Latest
-----------------------------------------------------------------------------
(* The steps of the EVP thread.                                            *)

\* What an EVP step of any kind leaves typed.
LEMMA EvpStepTypes ==
  ASSUME TypeOK, NEW at, EvpStep(at)
  PROVE  MainTypes' /\ evpPc = at
<1>1. quiet' \in BOOLEAN /\ steady' \in BOOLEAN
  BY Zenon DEF EvpStep
<1>. QED
  BY <1>1 DEF TypeOK, EvpStep, mainVars, MainTypes

LEMMA EvpKeeps ==
  ASSUME IInv, EvpThread
  PROVE  IInv'
<1>. USE DEF IInv, EvpSteps
<1>a. None \notin Configs /\ None \notin OdParams /\ None \notin IcParams
  BY ParamsAssumption
<1>b. \A c \in Configs : c.od \in Models(OdMembers) /\ c.ic \in Models(IcMembers)
  BY ParamsAssumption
<1>1. CASE Receive
  <2>1. MainTypes'
    BY <1>1, EvpStepTypes DEF Receive
  <2>2. /\ evpPc = "Idle" /\ evpPc' = "Common" /\ config' \in Configs /\ errors' = 0
        /\ accepted' = FALSE
        /\ UNCHANGED <<odParam, odValidating, odNetworkId, icParam, icValidating,
                       icNetworkId, inForce>>
    BY <1>1 DEF Receive, EvpStep, odVars, icVars
  <2>3. TypeOK'
    <3>1. evpPc' \in EvpSteps /\ errors' \in 0..3
      BY <2>2
    <3>2. accepted' \in BOOLEAN
      BY <2>2, Zenon
    <3>. QED
      BY <2>1, <2>2, <3>1, <3>2 DEF TypeOK, MainTypes
  <2>. QED
    BY <2>2, <2>3 DEF Progress, Validated, InUse, Latest
<1>2. CASE ValidateCommon
  <2>1. MainTypes'
    BY <1>2, EvpStepTypes DEF ValidateCommon
  <2>2. /\ evpPc = "Common" /\ evpPc' = "Od" /\ errors' \in {errors, errors + 1}
        /\ UNCHANGED <<config, odParam, odValidating, odNetworkId, icParam, icValidating,
                       icNetworkId, inForce, accepted>>
    BY <1>2 DEF ValidateCommon, EvpStep, odVars, icVars
  <2>3. errors' \in 0..1
    BY <2>2 DEF Progress
  <2>4. TypeOK'
    BY <2>1, <2>2, <2>3 DEF TypeOK, MainTypes
  <2>. QED
    BY <2>2, <2>3, <2>4 DEF Progress, Validated, InUse, Latest
<1>3. CASE OdValidateParam
  <2>1. MainTypes'
    BY <1>3, EvpStepTypes DEF OdValidateParam
  <2>2. /\ evpPc = "Od" /\ evpPc' = "Ic"
        /\ UNCHANGED <<config, odParam, icParam, icValidating, icNetworkId, inForce, accepted>>
    BY <1>3 DEF OdValidateParam, EvpStep, icVars
  <2>3. config \in Configs /\ errors \in 0..1 /\ ~accepted
    BY <2>2 DEF Progress, Latest, TypeOK
  <2>4. odNetworkId' \in NetworkIds \cup {0}
    BY <1>3, <2>3, StoredId DEF OdValidateParam, TypeOK
  <2>5. CASE OdAccepts(config.od) /\ odValidating' = OdParsed(config.od) /\ UNCHANGED errors
    <3>1. /\ odValidating' \in OdParams /\ odValidating' # None
          /\ odValidating'.max_detections_ <= odValidating'.dnn_output_detections_
      BY <2>3, <2>5, <1>a, <1>b, OdParsedType
    <3>2. odNetworkId' = config.od.network_id
      BY <1>3, <2>5 DEF OdValidateParam, OdAccepts, Complete
    <3>3. TypeOK'
      BY <2>1, <2>2, <2>4, <2>5, <3>1 DEF TypeOK, MainTypes
    <3>. QED
      BY <2>2, <2>3, <2>5, <3>1, <3>2, <3>3 DEF Progress, Validated, InUse, Latest
  <2>6. CASE ~OdAccepts(config.od) /\ odValidating' = None /\ errors' = errors + 1
    <3>1. errors' \in 1..2
      BY <2>3, <2>6
    <3>2. TypeOK'
      BY <2>1, <2>2, <2>4, <2>6, <3>1 DEF TypeOK, MainTypes
    <3>. QED
      BY <2>2, <2>3, <2>6, <3>1, <3>2 DEF Progress, Validated, InUse, Latest
  <2>. QED
    BY <1>3, <2>5, <2>6 DEF OdValidateParam
<1>4. CASE IcValidateParam
  <2>1. MainTypes'
    BY <1>4, EvpStepTypes DEF IcValidateParam
  <2>2. /\ evpPc = "Ic" /\ evpPc' = IF errors' = 0 THEN "LockOd" ELSE "ClearOd"
        /\ UNCHANGED <<config, odParam, odValidating, odNetworkId, icParam, inForce, accepted>>
    BY <1>4 DEF IcValidateParam, EvpStep, odVars, NextAfterValidation
  <2>3. config \in Configs /\ errors \in 0..2 /\ ~accepted
    BY <2>2 DEF Progress, Latest, TypeOK
  <2>4. icNetworkId' \in NetworkIds \cup {0}
    BY <1>4, <2>3, StoredId DEF IcValidateParam, TypeOK
  <2>5. CASE IcAccepts(config.ic) /\ icValidating' = IcParsed(config.ic) /\ UNCHANGED errors
    <3>1. /\ icValidating' \in IcParams /\ icValidating' # None
          /\ icValidating'.max_predictions_ <= icValidating'.dnn_output_classes_
      BY <2>3, <2>5, <1>a, <1>b, IcParsedType
    <3>2. icNetworkId' = config.ic.network_id
      BY <1>4, <2>5 DEF IcValidateParam, IcAccepts, Complete
    <3>3. TypeOK'
      BY <2>1, <2>2, <2>4, <2>5, <3>1 DEF TypeOK, MainTypes
    <3>. QED
      BY <2>2, <2>3, <2>5, <3>1, <3>2, <3>3 DEF Progress, Validated, InUse, Latest
  <2>6. CASE ~IcAccepts(config.ic) /\ icValidating' = None /\ errors' = errors + 1
    <3>1. errors' \in 1..3 /\ evpPc' = "ClearOd"
      BY <2>2, <2>3, <2>6
    <3>2. TypeOK'
      BY <2>1, <2>2, <2>4, <2>6, <3>1 DEF TypeOK, MainTypes
    <3>. QED
      BY <2>2, <2>3, <2>6, <3>1, <3>2 DEF Progress, Validated, InUse, Latest
  <2>. QED
    BY <1>4, <2>5, <2>6 DEF IcValidateParam
<1>5. CASE OdLock
  <2>1. MainTypes'
    BY <1>5, EvpStepTypes DEF OdLock
  <2>2. /\ evpPc = "LockOd" /\ evpPc' = "SetOd"
        /\ UNCHANGED <<config, errors, odParam, odValidating, odNetworkId, icParam,
                       icValidating, icNetworkId, inForce, accepted>>
    BY <1>5 DEF OdLock, EvpStep, odVars, icVars
  <2>3. TypeOK'
    BY <2>1, <2>2 DEF TypeOK, MainTypes
  <2>. QED
    BY <2>2, <2>3 DEF Progress, Validated, InUse, Latest
<1>6. CASE OdSetValidatedParam
  <2>1. MainTypes'
    BY <1>6, EvpStepTypes DEF OdSetValidatedParam
  <2>2. /\ evpPc = "SetOd" /\ evpPc' = "SetIc"
        /\ odParam' = IF odValidating # None THEN odValidating ELSE odParam
        /\ UNCHANGED <<config, errors, odValidating, odNetworkId, icParam, icValidating,
                       icNetworkId, inForce, accepted>>
    BY <1>6 DEF OdSetValidatedParam, EvpStep, icVars
  <2>3. odValidating # None /\ odParam' = odValidating /\ odParam' = OdParsed(config.od)
    BY <2>2 DEF Progress, Validated
  <2>4. TypeOK'
    BY <2>1, <2>2, <2>3 DEF TypeOK, MainTypes, Validated
  <2>. QED
    BY <2>2, <2>3, <2>4 DEF Progress, Validated, InUse, Latest
<1>7. CASE IcSetValidatedParam
  <2>1. MainTypes'
    BY <1>7, EvpStepTypes DEF IcSetValidatedParam
  <2>2. /\ evpPc = "SetIc" /\ evpPc' = "Idle" /\ inForce' = config /\ accepted' = TRUE
        /\ icParam' = IF icValidating # None THEN icValidating ELSE icParam
        /\ UNCHANGED <<config, errors, odParam, odValidating, odNetworkId, icValidating,
                       icNetworkId>>
    BY <1>7 DEF IcSetValidatedParam, EvpStep, odVars
  <2>3. /\ config \in Configs /\ config # None
        /\ icValidating # None /\ icParam' = icValidating /\ icParam' = IcParsed(config.ic)
        /\ odNetworkId = config.od.network_id /\ icNetworkId = config.ic.network_id
    BY <2>2, <1>a DEF Progress, Validated
  <2>4. TypeOK'
    BY <2>1, <2>2, <2>3 DEF TypeOK, MainTypes, Validated
  <2>. QED
    BY <2>2, <2>3, <2>4 DEF Progress, Validated, InUse, Latest
<1>8. CASE OdClearValidatingParam
  <2>1. MainTypes'
    BY <1>8, EvpStepTypes DEF OdClearValidatingParam
  <2>2. /\ evpPc = "ClearOd" /\ evpPc' = "ClearIc" /\ odValidating' = None
        /\ UNCHANGED <<config, errors, odParam, odNetworkId, icParam, icValidating,
                       icNetworkId, inForce, accepted>>
    BY <1>8 DEF OdClearValidatingParam, EvpStep, icVars
  <2>3. TypeOK'
    BY <2>1, <2>2 DEF TypeOK, MainTypes
  <2>. QED
    BY <2>2, <2>3 DEF Progress, Validated, InUse, Latest
<1>9. CASE IcClearValidatingParam
  <2>1. MainTypes'
    BY <1>9, EvpStepTypes DEF IcClearValidatingParam
  <2>2. /\ evpPc = "ClearIc" /\ evpPc' = "Idle" /\ icValidating' = None
        /\ UNCHANGED <<config, errors, odParam, odValidating, odNetworkId, icParam,
                       icNetworkId, inForce, accepted>>
    BY <1>9 DEF IcClearValidatingParam, EvpStep, odVars
  <2>3. TypeOK'
    BY <2>1, <2>2 DEF TypeOK, MainTypes
  <2>. QED
    BY <2>2, <2>3 DEF Progress, Validated, InUse, Latest
<1>. QED
  BY <1>1, <1>2, <1>3, <1>4, <1>5, <1>6, <1>7, <1>8, <1>9 DEF EvpThread

-----------------------------------------------------------------------------
(* The theorems.                                                           *)

LEMMA InitInv == Init => IInv
<1>. SUFFICES ASSUME Init PROVE IInv
  OBVIOUS
<1>1. OdDefault \in OdParams /\ IcDefault \in IcParams
  BY ParamsAssumption, DetectionsAssumption DEF OdDefault, IcDefault, OdParams, IcParams
<1>2. /\ OdDefault.max_detections_ <= OdDefault.dnn_output_detections_
      /\ IcDefault.max_predictions_ <= IcDefault.dnn_output_classes_
  BY DEF OdDefault, IcDefault
<1>3. TypeOK
  <2>1. /\ evpPc \in EvpSteps /\ config \in Configs \cup {None} /\ errors \in 0..3
        /\ odNetworkId \in NetworkIds \cup {0} /\ icNetworkId \in NetworkIds \cup {0}
        /\ pc \in Steps /\ nextDnn \in NetworkIds \cup {0, None}
        /\ frame \in OdFrames \cup IcFrames \cup {None}
        /\ inForce \in Configs \cup {None}
    BY DEF Init, EvpSteps, Steps
  <2>2. /\ odParam = OdDefault /\ odValidating \in OdParams \cup {None}
        /\ icParam = IcDefault /\ icValidating \in IcParams \cup {None}
    BY DEF Init
  <2>3. accepted \in BOOLEAN /\ quiet \in BOOLEAN /\ steady \in BOOLEAN
    BY Zenon DEF Init
  <2>. QED
    BY <1>1, <1>2, <2>1, <2>2, <2>3 DEF TypeOK
<1>. QED
  BY <1>3 DEF Init, IInv, Progress, Validated, InUse, Latest

LEMMA StepInv == IInv /\ [Next]_vars => IInv'
<1>. SUFFICES ASSUME IInv, [Next]_vars PROVE IInv'
  OBVIOUS
<1>1. CASE EvpThread
  BY <1>1, EvpKeeps
<1>2. CASE Main
  BY <1>2, MainKeeps
<1>3. CASE UNCHANGED vars
  <2>1. UNCHANGED <<evpPc, config, errors, odParam, odValidating, odNetworkId, icParam,
                    icValidating, icNetworkId, inForce, accepted, pc, frame, nextDnn, quiet,
                    steady>>
    BY <1>3 DEF vars, evpVars, odVars, icVars, mainVars
  <2>2. TypeOK'
    BY <2>1 DEF IInv, TypeOK
  <2>. QED
    BY <2>1, <2>2 DEF IInv, Progress, Validated, InUse, Latest
<1>. QED
  BY <1>1, <1>2, <1>3 DEF Next

\* The inductive invariant of the configurations holds in every reachable state.
THEOREM Invariance == Spec => []IInv
BY InitInv, StepInv, PTL DEF Spec

\* The parameters both analyzers use and validate have their types, the threshold is
\* one, and no more detections or predictions are wanted than the network delivers.
THEOREM TypeCorrect == Spec => []TypeOK
<1>1. IInv => TypeOK
  BY DEF IInv
<1>. QED
  BY <1>1, Invariance, PTL

\* Except between the two assignments the analyzers work with the parameters of the one
\* configuration that was taken over last, whatever was refused since.
THEOREM OneConfigurationUsed == Spec => []OneConfiguration
<1>1. IInv => OneConfiguration
  BY DEF IInv, InUse, OneConfiguration
<1>. QED
  BY <1>1, Invariance, PTL

\* When the last configuration was taken over, the network ids are its own.
THEOREM NetworksAreLatest == Spec => []NetworksOfLatest
<1>1. IInv => NetworksOfLatest
  BY DEF IInv, Latest, NetworksOfLatest
<1>. QED
  BY <1>1, Invariance, PTL

-----------------------------------------------------------------------------
(* The frame the main thread works on.                                     *)

\* A configuration is in force only if the detection analyzer has accepted it.
Accepts ==
    /\ evpPc \in {"Ic", "LockOd", "SetOd", "SetIc"} /\ errors = 0 => OdAccepts(config.od)
    /\ inForce # None => OdAccepts(inForce.od)
    /\ accepted => inForce # None

\* The frame is one of the state, and quiet only under the last configuration.
Working ==
    /\ quiet => accepted
    /\ steady => accepted
    /\ pc \in (OdSteps \ {"OdFrame"}) \cup (DnnOdSteps \ {"DnnOdFrame"}) => frame \in OdFrames
    /\ pc \in IcSteps \ {"IcFrame"} => frame \in IcFrames

OdAnalyzed == {"SaveCrop", "SaveCropHeight", "OdSerialize", "OdSent"}
IcAnalyzed == {"IcSerialize", "IcSent"}

\* As long as nothing has changed since the network was read that the frame is compared
\* with, it is from the network that is asked for.  On the way back from classification
\* that is the network which was recorded.
Verified ==
    /\ steady /\ pc \in DnnOdSteps => nextDnn = odNetworkId
    /\ steady /\ pc \in {"OdAnalyze"} \cup OdAnalyzed => frame.network = odNetworkId
    /\ quiet /\ pc \in {"IcAnalyze"} \cup IcAnalyzed => frame.network = icNetworkId

AnalysedWith(p) ==
    /\ Len(frame.tensor) = DNN_OUTPUT_TENSOR_SIZE(p.dnn_output_detections_)
    /\ data = analyzeDetectionOutput(createDetectionData(frame.tensor, p.dnn_output_detections_), p)
    /\ data # <<>>

\* The detections are what some parameters make of the tensor; those in use, as long as
\* nothing has changed.
Analysed ==
    pc \in OdAnalyzed => \E p \in OdParams : AnalysedWith(p) /\ (quiet => p = odParam)

\* The crop is then scaled with the sizes the detections were made with.
Scaled ==
    /\ quiet /\ pc \in {"SaveCropHeight", "OdSerialize", "OdSent"} => width = odParam.input_width_
    /\ quiet /\ pc \in {"OdSerialize", "OdSent"} =>
         crop = TargetCrop(MarkedRect, odParam.input_width_, odParam.input_height_)

Serialized == pc = "OdSent" => output = createSSDOutputFlatbuffer(data)

\* The predictions, and their message.
Classified ==
    quiet /\ pc \in IcAnalyzed =>
        LET items == analyzeClassificationOutput(frame.tensor, icParam.max_predictions_) IN
        /\ Len(frame.tensor) = icParam.dnn_output_classes_
        /\ pc = "IcSerialize" => data = items
        /\ pc = "IcSent" => output = createClassificationFlatbuffer(items)

MainInv == Working /\ Verified /\ Analysed /\ Scaled /\ Serialized /\ Classified

-----------------------------------------------------------------------------

LEMMA InitMain == Init => Accepts /\ MainInv
<1>. SUFFICES ASSUME Init PROVE Accepts /\ MainInv
  OBVIOUS
<1>1. evpPc = "Idle" /\ inForce = None /\ pc = "WaitParam"
  BY DEF Init
<1>2. ~accepted /\ ~quiet /\ ~steady
  BY Zenon DEF Init
<1>. QED
  BY <1>1, <1>2 DEF Accepts, MainInv, Working, Verified, Analysed, Scaled, Serialized,
     Classified, OdSteps, IcSteps, DnnOdSteps, OdAnalyzed, IcAnalyzed

LEMMA AcceptsKept ==
  ASSUME IInv, Accepts, [Next]_vars
  PROVE  Accepts'
<1>1. CASE Main \/ UNCHANGED vars
  <2>1. UNCHANGED <<evpPc, config, errors, inForce, accepted>>
    BY <1>1, MainStep DEF IInv, EvpSide, evpVars, vars
  <2>. QED
    BY <2>1 DEF Accepts
<1>2. CASE Receive \/ ValidateCommon
  BY <1>2 DEF Accepts, Receive, ValidateCommon, EvpStep
<1>3. CASE OdValidateParam
  BY <1>3 DEF Accepts, OdValidateParam, EvpStep, IInv, Progress, TypeOK
<1>4. CASE IcValidateParam
  <2>1. evpPc = "Ic" /\ errors' \in {errors, errors + 1} /\ errors \in 0..3
        /\ UNCHANGED <<config, inForce, accepted>>
    BY <1>4 DEF IcValidateParam, EvpStep, IInv, TypeOK
  <2>. QED
    BY <2>1 DEF Accepts
<1>5. CASE OdLock \/ OdSetValidatedParam
  BY <1>5 DEF Accepts, OdLock, OdSetValidatedParam, EvpStep
<1>6. CASE IcSetValidatedParam
  BY <1>6, ParamsAssumption DEF Accepts, IcSetValidatedParam, EvpStep, IInv, Progress
<1>7. CASE OdClearValidatingParam \/ IcClearValidatingParam
  BY <1>7 DEF Accepts, OdClearValidatingParam, IcClearValidatingParam, EvpStep
<1>. QED
  BY <1>1, <1>2, <1>3, <1>4, <1>5, <1>6, <1>7 DEF Next, EvpThread

\* A step of the EVP thread leaves the frame alone and ends the quiet.
LEMMA EvpLeavesFrame ==
  ASSUME MainInv, EvpThread
  PROVE  MainInv'
<1>1. UNCHANGED <<pc, frame, nextDnn, data, width, crop, output>>
  BY DEF EvpThread, Receive, ValidateCommon, OdValidateParam, IcValidateParam, OdLock,
     OdSetValidatedParam, IcSetValidatedParam, OdClearValidatingParam,
     IcClearValidatingParam, EvpStep, mainVars
<1>2. ~quiet' /\ ~steady'
  BY Zenon DEF EvpThread, Receive, ValidateCommon, OdValidateParam, IcValidateParam, OdLock,
     OdSetValidatedParam, IcSetValidatedParam, OdClearValidatingParam,
     IcClearValidatingParam, EvpStep
<1>3. Working' /\ Verified' /\ Scaled' /\ Serialized' /\ Classified'
  BY <1>1, <1>2 DEF MainInv, Working, Verified, Scaled, Serialized, Classified
<1>4. Analysed'
  BY <1>1, <1>2 DEF MainInv, Analysed, AnalysedWith
<1>. QED
  BY <1>3, <1>4 DEF MainInv

\* Without a frame nothing is claimed, but for the network that is recorded.
LEMMA GivenUpLeavesNothing ==
  ASSUME NEW at, NEW next \in {"OdFrame", "IcFrame", "Ended", "DnnOdFrame"}, GivesUp(at, next),
         steady' => accepted /\ next = "DnnOdFrame" /\ nextDnn' = odNetworkId
  PROVE  MainInv'
<1>1. pc' = next /\ UNCHANGED <<odNetworkId, accepted>>
  BY DEF GivesUp, odVars
<1>2. ~quiet'
  BY Zenon DEF GivesUp
<1>3. steady' => accepted'
  BY <1>1
<1>. QED
  BY <1>1, <1>2, <1>3 DEF MainInv, Working, Verified, Analysed, Scaled, Serialized, Classified,
     OdSteps, IcSteps, DnnOdSteps, OdAnalyzed, IcAnalyzed

LEMMA DropLeavesNothing ==
  ASSUME NEW at, NEW next \in {"OdFrame", "IcFrame", "Ended"}, Drop(at, next)
  PROVE  MainInv'
<1>1. GivesUp(at, next)
  BY DEF Drop
<1>2. ~steady'
  BY Zenon DEF Drop
<1>. QED
  BY <1>1, <1>2, GivenUpLeavesNothing

LEMMA DropKeepsNetwork ==
  ASSUME MainInv, NEW at \in DnnOdSteps, Drop(at, "DnnOdFrame")
  PROVE  MainInv'
<1>1. GivesUp(at, "DnnOdFrame") /\ nextDnn' = nextDnn /\ pc \in DnnOdSteps
  BY DEF Drop, GivesUp
<1>2. steady' => steady
  BY Zenon DEF Drop
<1>3. steady => accepted /\ nextDnn = odNetworkId
  BY <1>1 DEF MainInv, Working, Verified
<1>. QED
  BY <1>1, <1>2, <1>3, GivenUpLeavesNothing

LEMMA FrameTaken ==
  ASSUME IInv, MainInv, OdGetFrame \/ DnnOdGetFrame \/ IcGetFrame
  PROVE  MainInv'
<1>1. \/ pc' = "OdVerifyStream" /\ frame' \in OdFrames
      \/ pc = "DnnOdFrame" /\ pc' = "DnnOdVerifyStream" /\ frame' \in OdFrames /\ steady' = steady
      \/ pc' = "IcVerifyStream" /\ frame' \in IcFrames
  BY DEF OdGetFrame, DnnOdGetFrame, IcGetFrame, TakeFrame
<1>2. UNCHANGED <<nextDnn, odNetworkId, accepted>>
  BY DEF OdGetFrame, DnnOdGetFrame, IcGetFrame, TakeFrame, odVars
<1>3. quiet' => accepted
  BY Zenon DEF OdGetFrame, DnnOdGetFrame, IcGetFrame, TakeFrame
<1>4. steady' => accepted
  <2>1. steady' = quiet' \/ steady' = steady
    BY DEF OdGetFrame, DnnOdGetFrame, IcGetFrame
  <2>. QED
    BY <1>3, <2>1 DEF MainInv, Working
<1>5. (quiet' => accepted') /\ (steady' => accepted')
  BY <1>2, <1>3, <1>4
<1>6. Verified'
  BY <1>1, <1>2 DEF MainInv, Verified, DnnOdSteps, OdAnalyzed, IcAnalyzed
<1>. QED
  BY <1>1, <1>5, <1>6 DEF MainInv, Working, Analysed, Scaled, Serialized, Classified,
     OdSteps, IcSteps, DnnOdSteps, OdAnalyzed, IcAnalyzed

\* Going on with the frame keeps what is known of it.
LEMMA GoesWithFrame ==
  ASSUME MainInv, NEW at, NEW next, Proceeds(at, next),
         \/ at \in OdSteps \ {"OdFrame"} /\ next \in OdSteps \ {"OdFrame"}
         \/ at \in DnnOdSteps \ {"DnnOdFrame"} /\ next \in {"DnnOdVerifyChannel", "OdAnalyze"}
         \/ at \in IcSteps \ {"IcFrame"} /\ next \in IcSteps \ {"IcFrame"}
         \/ at = "WaitParam" /\ next = "OdFrame"
  PROVE  /\ Working' /\ pc = at /\ pc' = next
         /\ UNCHANGED <<evpPc, odParam, odNetworkId, icParam, icNetworkId, frame, quiet, steady>>
<1>1. pc = at /\ pc' = next
      /\ UNCHANGED <<evpPc, odParam, odNetworkId, icParam, icNetworkId, frame, accepted, quiet,
                     steady>>
  BY DEF Proceeds, evpVars, odVars, icVars
<1>. QED
  BY <1>1 DEF MainInv, Working, OdSteps, IcSteps, DnnOdSteps

LEMMA MainKeepsFrame ==
  ASSUME IInv, MainInv, Main
  PROVE  MainInv'
<1>. USE DEF OdSteps, IcSteps, DnnOdSteps, OdAnalyzed, IcAnalyzed
<1>0. quiet => evpPc = "Idle"
  BY DEF IInv, Latest, MainInv, Working
<1>1. CASE WaitParam
  <2>1. Goes("WaitParam", "OdFrame")
    BY <1>1 DEF WaitParam
  <2>2. Working' /\ pc' = "OdFrame"
    BY <2>1, GoesWithFrame DEF Goes
  <2>. QED
    BY <2>2 DEF MainInv, Verified, Analysed, Scaled, Serialized, Classified
<1>2. CASE OdGetFrame \/ DnnOdGetFrame \/ IcGetFrame
  BY <1>2, FrameTaken
<1>3. CASE OdVerifyDnnStream
  <2>1. CASE Goes("OdVerifyStream", "OdVerifyChannel")
    <3>1. Working' /\ pc' = "OdVerifyChannel"
      BY <2>1, GoesWithFrame DEF Goes
    <3>. QED
      BY <3>1 DEF MainInv, Verified, Analysed, Scaled, Serialized, Classified
  <2>. QED
    BY <1>3, <2>1, DropLeavesNothing DEF OdVerifyDnnStream, OdVerify
<1>4. CASE OdVerifyDnnChannel
  <2>1. CASE frame.network = odNetworkId /\ Goes("OdVerifyChannel", "OdAnalyze")
    <3>1. Working' /\ pc' = "OdAnalyze" /\ UNCHANGED <<frame, odNetworkId>>
      BY <2>1, GoesWithFrame DEF Goes
    <3>. QED
      BY <2>1, <3>1 DEF MainInv, Verified, Analysed, Scaled, Serialized, Classified
  <2>. QED
    BY <1>4, <2>1, DropLeavesNothing DEF OdVerifyDnnChannel, OdVerify
<1>5. CASE OdAnalyze
  <2>. DEFINE result == analyzeDetectionOutput(
                 createDetectionData(frame.tensor, odParam.dnn_output_detections_), odParam)
  <2>1. \/ /\ Goes("OdAnalyze", "SaveCrop") /\ data' = result /\ result # <<>>
           /\ Len(frame.tensor) = DNN_OUTPUT_TENSOR_SIZE(odParam.dnn_output_detections_)
        \/ Drop("OdAnalyze", "OdFrame")
    BY <1>5, Zenon DEF OdAnalyze
  <2>2. CASE /\ Goes("OdAnalyze", "SaveCrop") /\ data' = result /\ result # <<>>
             /\ Len(frame.tensor) = DNN_OUTPUT_TENSOR_SIZE(odParam.dnn_output_detections_)
    <3>1. Working' /\ pc = "OdAnalyze" /\ pc' = "SaveCrop"
          /\ UNCHANGED <<frame, odNetworkId, odParam, quiet, steady>>
      BY <2>2, GoesWithFrame DEF Goes
    <3>2. odParam \in OdParams
      BY DEF IInv, TypeOK
    <3>4. Analysed'
      BY <2>2, <3>1, <3>2 DEF Analysed, AnalysedWith
    <3>. QED
      BY <3>1, <3>4 DEF MainInv, Verified, Scaled, Serialized, Classified
  <2>. QED
    BY <2>1, <2>2, DropLeavesNothing
<1>6. CASE OdReadWidth
  <2>1. Working' /\ pc = "SaveCrop" /\ pc' = "SaveCropHeight"
        /\ UNCHANGED <<frame, odNetworkId, odParam, quiet, steady>>
    BY <1>6, GoesWithFrame DEF OdReadWidth, Goes
  <2>2. data' = data /\ width' \in Visible("input_width_")
    BY <1>6 DEF OdReadWidth
  <2>3. quiet => width' = odParam.input_width_
    BY <1>0, <2>2 DEF Visible
  <2>4. Analysed'
    BY <2>1, <2>2 DEF MainInv, Analysed, AnalysedWith
  <2>. QED
    BY <2>1, <2>3, <2>4 DEF MainInv, Verified, Scaled, Serialized, Classified
<1>7. CASE OdSaveCrop
  <2>1. PICK h \in Visible("input_height_") :
          \/ /\ Goes("SaveCropHeight", "OdSerialize")
             /\ crop' = TargetCrop(MarkedRect, width, h) /\ UNCHANGED <<data, width>>
          \/ Drop("SaveCropHeight", "OdFrame")
    BY <1>7, Zenon DEF OdSaveCrop
  <2>2. CASE /\ Goes("SaveCropHeight", "OdSerialize")
             /\ crop' = TargetCrop(MarkedRect, width, h) /\ UNCHANGED <<data, width>>
    <3>1. Working' /\ pc = "SaveCropHeight" /\ pc' = "OdSerialize"
          /\ UNCHANGED <<frame, odNetworkId, odParam, quiet, steady>>
      BY <2>2, GoesWithFrame DEF Goes
    <3>2. quiet => h = odParam.input_height_
      BY <1>0 DEF Visible
    <3>3. quiet => width = odParam.input_width_
      BY <3>1 DEF MainInv, Scaled
    <3>4. Scaled'
      BY <2>2, <3>1, <3>2, <3>3 DEF Scaled, TargetCrop, MarkedRect
    <3>5. Analysed'
      BY <2>2, <3>1 DEF MainInv, Analysed, AnalysedWith
    <3>. QED
      BY <3>1, <3>4, <3>5 DEF MainInv, Verified, Serialized, Classified
  <2>. QED
    BY <2>1, <2>2, DropLeavesNothing
<1>8. CASE OdSerialize
  <2>1. CASE /\ Goes("OdSerialize", "OdSent") /\ output' = createSSDOutputFlatbuffer(data)
             /\ UNCHANGED <<data, width, crop>>
    <3>1. Working' /\ pc = "OdSerialize" /\ pc' = "OdSent"
          /\ UNCHANGED <<frame, odNetworkId, odParam, quiet, steady>>
      BY <2>1, GoesWithFrame DEF Goes
    <3>2. Scaled'
      BY <2>1, <3>1 DEF MainInv, Scaled, TargetCrop, MarkedRect
    <3>3. Analysed'
      BY <2>1, <3>1 DEF MainInv, Analysed, AnalysedWith
    <3>. QED
      BY <2>1, <3>1, <3>2, <3>3 DEF MainInv, Verified, Serialized, Classified
  <2>. QED
    BY <1>8, <2>1, DropLeavesNothing DEF OdSerialize
<1>9. CASE OdDone \/ IcDone
  BY <1>9, DropLeavesNothing DEF OdDone, IcDone
<1>10. CASE IcVerifyDnnStream
  <2>1. CASE Goes("IcVerifyStream", "IcVerifyChannel")
    <3>1. Working' /\ pc' = "IcVerifyChannel"
      BY <2>1, GoesWithFrame DEF Goes
    <3>. QED
      BY <3>1 DEF MainInv, Verified, Analysed, Scaled, Serialized, Classified
  <2>. QED
    BY <1>10, <2>1, DropLeavesNothing DEF IcVerifyDnnStream, IcVerify
<1>11. CASE IcVerifyDnnChannel
  <2>1. CASE frame.network = icNetworkId /\ Goes("IcVerifyChannel", "IcAnalyze")
    <3>1. Working' /\ pc' = "IcAnalyze" /\ UNCHANGED <<frame, icNetworkId>>
      BY <2>1, GoesWithFrame DEF Goes
    <3>. QED
      BY <2>1, <3>1 DEF MainInv, Verified, Analysed, Scaled, Serialized, Classified
  <2>. QED
    BY <1>11, <2>1, DropLeavesNothing DEF IcVerifyDnnChannel, IcVerify
<1>12. CASE IcAnalyze
  <2>. DEFINE items == analyzeClassificationOutput(frame.tensor, icParam.max_predictions_)
  <2>1. \/ /\ Goes("IcAnalyze", "IcSerialize") /\ data' = items
           /\ Len(frame.tensor) = icParam.dnn_output_classes_
        \/ Drop("IcAnalyze", "IcFrame")
    BY <1>12, Zenon DEF IcAnalyze
  <2>2. CASE /\ Goes("IcAnalyze", "IcSerialize") /\ data' = items
             /\ Len(frame.tensor) = icParam.dnn_output_classes_
    <3>1. Working' /\ pc = "IcAnalyze" /\ pc' = "IcSerialize"
          /\ UNCHANGED <<frame, icNetworkId, icParam, quiet>>
      BY <2>2, GoesWithFrame DEF Goes
    <3>2. Verified'
      BY <3>1 DEF MainInv, Verified
    <3>3. Classified'
      BY <2>2, <3>1 DEF Classified
    <3>. QED
      BY <3>1, <3>2, <3>3 DEF MainInv, Analysed, Scaled, Serialized
  <2>. QED
    BY <2>1, <2>2, DropLeavesNothing
<1>13. CASE IcSerialize
  <2>1. CASE Goes("IcSerialize", "IcSent") /\ output' = createClassificationFlatbuffer(data)
    <3>1. Working' /\ pc = "IcSerialize" /\ pc' = "IcSent"
          /\ UNCHANGED <<frame, icNetworkId, icParam, quiet>>
      BY <2>1, GoesWithFrame DEF Goes
    <3>2. Verified'
      BY <3>1 DEF MainInv, Verified
    <3>3. Classified'
      BY <2>1, <3>1 DEF MainInv, Classified
    <3>. QED
      BY <3>1, <3>2, <3>3 DEF MainInv, Analysed, Scaled, Serialized
  <2>. QED
    BY <1>13, <2>1, DropLeavesNothing DEF IcSerialize
<1>14. CASE DnnOdVerifyDnnStream
  <2>1. CASE Goes("DnnOdVerifyStream", "DnnOdVerifyChannel")
    <3>1. /\ Working' /\ pc = "DnnOdVerifyStream" /\ pc' = "DnnOdVerifyChannel"
          /\ UNCHANGED <<nextDnn, odNetworkId, steady>>
      BY <2>1, GoesWithFrame DEF Goes
    <3>. QED
      BY <3>1 DEF MainInv, Verified, Analysed, Scaled, Serialized, Classified
  <2>2. CASE GivesUp("DnnOdVerifyStream", "OdFrame") /\ steady' = FALSE
    <3>1. ~steady'
      BY <2>2, Zenon
    <3>. QED
      BY <2>2, <3>1, GivenUpLeavesNothing
  <2>. QED
    BY <1>14, <2>1, <2>2, DropKeepsNetwork DEF DnnOdVerifyDnnStream
<1>15. CASE DnnOdVerifyDnnChannel
  <2>1. CASE frame.network = nextDnn /\ Proceeds("DnnOdVerifyChannel", "OdAnalyze")
    <3>1. /\ Working' /\ pc = "DnnOdVerifyChannel" /\ pc' = "OdAnalyze"
          /\ UNCHANGED <<frame, odNetworkId, steady>>
      BY <2>1, GoesWithFrame
    <3>2. steady => frame.network = odNetworkId
      BY <2>1, <3>1 DEF MainInv, Verified
    <3>. QED
      BY <3>1, <3>2 DEF MainInv, Verified, Analysed, Scaled, Serialized, Classified
  <2>. QED
    BY <1>15, <2>1, DropKeepsNetwork DEF DnnOdVerifyDnnChannel
<1>16. CASE ApiFails
  BY <1>16, DropLeavesNothing, DropKeepsNetwork DEF ApiFails
<1>17. CASE IcSetDnn
  <2>1. GivesUp("IcSent", "DnnOdFrame") /\ nextDnn' = odNetworkId
    BY <1>17 DEF IcSetDnn
  <2>2. steady' => accepted
    BY <1>17, Zenon DEF IcSetDnn
  <2>. QED
    BY <2>1, <2>2, GivenUpLeavesNothing
<1>. QED
  BY <1>1, <1>2, <1>3, <1>4, <1>5, <1>6, <1>7, <1>8, <1>9, <1>10, <1>11, <1>12, <1>13, <1>14,
     <1>15, <1>16, <1>17 DEF Main

\* What is known of the frame, its detections, its crop and its message always holds:
\* among it that a frame under analysis is of the network it was compared with, the one
\* StateOd reads for it or the one StateIc has recorded before it.
THEOREM FrameInvariance == Spec => [](IInv /\ Accepts /\ MainInv)
<1>1. IInv /\ MainInv /\ UNCHANGED vars => MainInv'
  <2>. SUFFICES ASSUME MainInv, UNCHANGED vars PROVE MainInv'
    OBVIOUS
  <2>1. UNCHANGED <<odParam, odNetworkId, icParam, icNetworkId, accepted, quiet, steady, pc, frame,
                    nextDnn, data, width, crop, output>>
    BY DEF vars, odVars, icVars, mainVars
  <2>2. Working' /\ Verified' /\ Serialized' /\ Classified'
    BY <2>1 DEF MainInv, Working, Verified, Serialized, Classified
  <2>3. Analysed'
    BY <2>1 DEF MainInv, Analysed, AnalysedWith
  <2>4. Scaled'
    BY <2>1 DEF MainInv, Scaled, TargetCrop, MarkedRect
  <2>. QED
    BY <2>2, <2>3, <2>4 DEF MainInv
<1>2. IInv /\ MainInv /\ [Next]_vars => MainInv'
  BY <1>1, EvpLeavesFrame, MainKeepsFrame DEF Next
<1>3. IInv /\ Accepts /\ [Next]_vars => Accepts'
  BY AcceptsKept
<1>. QED
  BY Invariance, InitMain, <1>2, <1>3, PTL DEF Spec

-----------------------------------------------------------------------------
(* What is sent.                                                           *)

\* Under a configuration that has not changed the analyzers have its parameters and
\* its networks.
LEMMA QuietConfig ==
  ASSUME IInv, Accepts, MainInv, quiet
  PROVE  /\ inForce \in Configs /\ OdAccepts(inForce.od)
         /\ odParam = OdParsed(inForce.od) /\ icParam = IcParsed(inForce.ic)
         /\ odNetworkId = inForce.od.network_id /\ icNetworkId = inForce.ic.network_id
<1>1. accepted
  BY DEF MainInv, Working
<1>2. evpPc = "Idle" /\ inForce # None /\ inForce \in Configs \cup {None}
  BY <1>1 DEF IInv, Latest, Accepts, TypeOK
<1>. QED
  BY <1>1, <1>2 DEF IInv, Latest, InUse, Accepts

\* When nothing has changed since the frame was taken, a classification is that of the
\* network of the configuration in force: the best classes, as many as it asks for.
THEOREM PredictionsAreOfConfig == Spec => []PredictionsOfConfig
<1>1. IInv /\ Accepts /\ MainInv => PredictionsOfConfig
  <2>. SUFFICES ASSUME IInv, Accepts, MainInv, pc = "IcSent", quiet
                PROVE  PredictionsOfConfig
    BY DEF PredictionsOfConfig
  <2>. DEFINE t == frame.tensor
              max == icParam.max_predictions_
  <2>1. icParam = IcParsed(inForce.ic) /\ frame.network = inForce.ic.network_id
    BY QuietConfig DEF MainInv, Verified, IcAnalyzed
  <2>2. Len(t) = icParam.dnn_output_classes_
        /\ output = createClassificationFlatbuffer(analyzeClassificationOutput(t, max))
    BY DEF MainInv, Classified, IcAnalyzed
  <2>3. t \in Seq(Int)
    BY ParamsAssumption DEF MainInv, Working, IcSteps
  <2>4. max \in 0..Len(t)
    BY <2>2 DEF IInv, TypeOK, IcParams
  <2>5. ListsBest(output, t, max)
    BY <2>2, <2>3, <2>4, BestPredictions
  <2>. QED
    BY <2>1, <2>5 DEF ListsBest, PredictionsOfConfig
<1>. QED
  BY FrameInvariance, <1>1, PTL

\* What a detection sends: the message of the detections that some parameters keep of
\* the tensor, those in force when nothing has changed.
SentWith(p) ==
    LET n == p.dnn_output_detections_
        out == createDetectionData(frame.tensor, n)
        kept == KeptDetections(out, p)
    IN  /\ n \in Nat /\ p.max_detections_ \in Nat
        /\ frame \in OdFrames /\ frame.tensor \in Seq(Int)
        /\ Len(frame.tensor) = DNN_OUTPUT_TENSOR_SIZE(n)
        /\ kept \in Seq(Decoded) /\ kept # <<>>
        /\ KeepsFirst(kept, out.detections, Birds(out, p), p.max_detections_)
        /\ ResultOf(data, kept, p)
        /\ output = createSSDOutputFlatbuffer(data)

LEMMA DetectionSent ==
  ASSUME MainInv, pc = "OdSent"
  PROVE  \E p \in OdParams : SentWith(p) /\ (quiet => p = odParam)
<1>1. PICK p \in OdParams : AnalysedWith(p) /\ (quiet => p = odParam)
  BY DEF MainInv, Analysed, OdAnalyzed
<1>. DEFINE n == p.dnn_output_detections_
            out == createDetectionData(frame.tensor, n)
            kept == KeptDetections(out, p)
<1>2. n \in Nat /\ p.max_detections_ \in Nat
  BY DEF OdParams
<1>3. frame \in OdFrames /\ frame.tensor \in Seq(Int)
  BY ParamsAssumption DEF MainInv, Working, OdSteps
<1>4. /\ Len(frame.tensor) = DNN_OUTPUT_TENSOR_SIZE(n)
      /\ data = analyzeDetectionOutput(out, p) /\ data # <<>>
  BY <1>1 DEF AnalysedWith
<1>5. KeepsFirst(kept, out.detections, Birds(out, p), p.max_detections_)
  BY <1>2, <1>3, <1>4, KeptAre
<1>6. kept \in Seq(Decoded)
  BY <1>5 DEF KeepsFirst
<1>7. ResultOf(data, kept, p)
  <2>. HIDE DEF out
  <2>. QED
    BY <1>4, <1>6, ResultIs, Zenon
<1>8. kept # <<>>
  <2>. HIDE DEF kept, out
  <2>1. kept = <<>> => analyzeDetectionOutput(out, p) = <<>>
    BY DEF analyzeDetectionOutput, kept
  <2>. QED
    BY <1>4, <2>1
<1>9. output = createSSDOutputFlatbuffer(data)
  BY DEF MainInv, Serialized
<1>. QED
  BY <1>1, <1>2, <1>3, <1>4, <1>5, <1>6, <1>7, <1>8, <1>9 DEF SentWith

\* The number of detections of a tensor of the right size.
LEMMA CountOf ==
  ASSUME NEW p, SentWith(p)
  PROVE  DetectionsIn(frame) = p.dnn_output_detections_
         /\ (Len(frame.tensor) - 1) \div 6 = p.dnn_output_detections_
<1>. DEFINE n == p.dnn_output_detections_
            l == Len(frame.tensor)
<1>1. n \in Nat /\ l = 4*n + n + n + 1
  BY DEF SentWith, DNN_OUTPUT_TENSOR_SIZE
<1>. HIDE DEF n, l
<1>2. (l - 1) \div 6 = n
  BY <1>1
<1>. QED
  BY <1>2 DEF n, l, DetectionsIn

\* The birds read off the tensor are wanted by the loop; it wants no others when the
\* class numbers fit.
LEMMA BirdsAre ==
  ASSUME NEW p \in OdParams, SentWith(p), p.dnn_output_detections_ < Byte
  PROVE  LET n == p.dnn_output_detections_
             out == createDetectionData(frame.tensor, n)
         IN  /\ BirdsIn(frame.tensor, p) \subseteq Birds(out, p)
             /\ ClassesFit => Birds(out, p) = BirdsIn(frame.tensor, p)
             /\ \A i \in Birds(out, p) :
                  /\ i \in 1..n
                  /\ out.detections[i] = LET t == frame.tensor IN
                       Detection(t[i], t[n + i], t[2*n + i], t[3*n + i], t[4*n + i], t[5*n + i])
<1>. DEFINE n == p.dnn_output_detections_
            t == frame.tensor
            out == createDetectionData(t, n)
            num == out.num_of_detections
<1>1. n \in Nat /\ n \in 0..Byte - 1 /\ t \in Seq(Int) /\ Len(t) = DNN_OUTPUT_TENSOR_SIZE(n)
      /\ frame \in OdFrames
  BY DetectionsAssumption DEF SentWith
<1>2. p.threshold_ \in Int
  BY DetectionsAssumption DEF OdParams
<1>3. DetectionsIn(frame) = n
  BY CountOf
<1>. HIDE DEF n
<1>4. uint8(n) = n
  BY <1>1, Uint8Is
<1>5. /\ num \in 0..n /\ num = Least(uint8(t[6*n + 1]), n)
      /\ \A i \in 1..n : out.detections[i] =
           Detection(t[i], t[n + i], t[2*n + i], t[3*n + i], t[4*n + i], t[5*n + i])
  <2>1. /\ num \in 0..uint8(n) /\ num = Least(uint8(t[6*uint8(n) + 1]), uint8(n))
        /\ \A i \in 1..uint8(n) : LET total == uint8(n) IN
             out.detections[i] = Detection(t[i], t[total + i], t[2*total + i],
                                           t[3*total + i], t[4*total + i], t[5*total + i])
    BY <1>1, DecodedIs
  <2>. HIDE DEF num, out, t
  <2>. QED
    BY <1>4, <2>1
<1>6. num = Least(n, uint8(t[6*n + 1]))
  <2>1. t[6*n + 1] \in Int
    BY <1>1 DEF DNN_OUTPUT_TENSOR_SIZE
  <2>2. uint8(t[6*n + 1]) \in Nat
    BY <2>1, Uint8Is, DetectionsAssumption
  <2>. QED
    BY <1>1, <1>5, <2>2, LeastIs
<1>. HIDE DEF out, num, t
<1>7. ASSUME NEW i \in 1..num
      PROVE  /\ i \in 1..n
             /\ out.detections[i].class = t[4*n + i] /\ out.detections[i].score = t[5*n + i]
             /\ t[4*n + i] \in Int
  <2>1. i \in 1..n
    BY <1>1, <1>5
  <2>2. out.detections[i] =
          Detection(t[i], t[n + i], t[2*n + i], t[3*n + i], t[4*n + i], t[5*n + i])
    BY <1>5, <2>1
  <2>3. out.detections[i].class = t[4*n + i] /\ out.detections[i].score = t[5*n + i]
    BY ONLY <2>2 DEF Detection
  <2>4. 4*n + i \in 1..Len(t)
    BY <1>1, <2>1 DEF DNN_OUTPUT_TENSOR_SIZE
  <2>. QED
    BY <1>1, <2>1, <2>3, <2>4
<1>8. ASSUME NEW i \in 1..num
      PROVE  /\ t[4*n + i] = BirdClass => IsBird(out.detections[i])
             /\ ClassesFit /\ IsBird(out.detections[i]) => t[4*n + i] = BirdClass
  <2>1. IsBird(out.detections[i]) <=> uint8(t[4*n + i]) = BirdClass
    BY <1>7 DEF IsBird
  <2>2. t[4*n + i] \in 0..Byte - 1 => uint8(t[4*n + i]) = t[4*n + i]
    BY <1>7, Uint8Is
  <2>3. ClassesFit => t[4*n + i] \in 0..Byte - 1
    BY <1>1, <1>3, <1>7 DEF ClassesFit, t
  <2>. QED
    BY <2>1, <2>2, <2>3, DetectionsAssumption
<1>9. BirdsIn(t, p) = {i \in 1..num : t[4*n + i] = BirdClass /\ t[5*n + i] >= p.threshold_}
  BY <1>6 DEF BirdsIn, n
<1>10. Birds(out, p) = {i \in 1..num : IsBird(out.detections[i]) /\ t[5*n + i] >= p.threshold_}
  BY <1>7 DEF Birds, num
<1>11. BirdsIn(t, p) \subseteq Birds(out, p) /\ (ClassesFit => Birds(out, p) = BirdsIn(t, p))
  BY <1>8, <1>9, <1>10
<1>12. \A i \in Birds(out, p) : i \in 1..n /\ out.detections[i] =
           Detection(t[i], t[n + i], t[2*n + i], t[3*n + i], t[4*n + i], t[5*n + i])
  BY <1>5, <1>7, <1>10
<1>. QED
  BY <1>11, <1>12, Zenon DEF t, out, n

\* Exactly one detection of a message is marked for the crop, whatever happened since the
\* frame was taken; it is the best bird of the tensor when the scores fall and nothing
\* has changed.
THEOREM BestIsAlwaysMarked == Spec => []BestIsMarked
<1>1. IInv /\ Accepts /\ MainInv => BestIsMarked
  <2>. SUFFICES ASSUME IInv, Accepts, MainInv, pc = "OdSent"
                PROVE  BestIsMarked
    BY DEF BestIsMarked
  <2>1. PICK p \in OdParams : SentWith(p) /\ (quiet => p = odParam)
    BY DetectionSent
  <2>. DEFINE n == p.dnn_output_detections_
              t == frame.tensor
              out == createDetectionData(t, n)
              kept == KeptDetections(out, p)
              best == HighestScoreIndex(kept)
              marked == {k \in DOMAIN output : output[k].is_used_for_cropping}
  <2>2. /\ kept \in Seq(Decoded) /\ kept # <<>> /\ ResultOf(data, kept, p)
        /\ output = createSSDOutputFlatbuffer(data)
        /\ KeepsFirst(kept, out.detections, Birds(out, p), p.max_detections_)
        /\ n \in Nat /\ t \in Seq(Int) /\ Len(t) = DNN_OUTPUT_TENSOR_SIZE(n)
    BY <2>1 DEF SentWith
  <2>. HIDE DEF kept
  <2>3. /\ DOMAIN output = 1..Len(kept)
        /\ \A k \in 1..Len(kept) : output[k].score = kept[k].score
        /\ marked = {best} /\ Cardinality(marked) = 1
        /\ \A k \in DOMAIN output :
             \/ output[k].score < output[best].score
             \/ output[k].score = output[best].score /\ best <= k
    <3>1. MarksBest(output, data, kept, p)
      BY <2>2, OneMarked
    <3>. QED
      BY <3>1, Zenon DEF MarksBest
  <2>4. best \in 1..Len(kept)
    BY <2>2, BestIs
  <2>5. ASSUME quiet, n < Byte, \A i \in 1..n - 1 : t[5*n + i] >= t[5*n + i + 1],
               NEW i \in BirdsIn(t, OdParsed(inForce.od))
        PROVE  output[best].score >= t[5*n + i]
    <3>1. OdParsed(inForce.od) = p
      BY <2>1, <2>5, QuietConfig
    <3>2. i \in Birds(out, p)
      BY <2>1, <2>5, <3>1, BirdsAre
    <3>3. kept[best].score >= t[5*n + i]
      <4>. HIDE DEF n, t
      <4>. QED
        BY ONLY <2>2, <2>5, <3>2, BestOfAll, Zenon
    <3>. QED
      BY <2>3, <2>4, <3>3
  <2>6. (Len(t) - 1) \div 6 = n
    BY <2>1, CountOf
  <2>. HIDE DEF n, best, marked
  <2>. QED
    BY <2>3, <2>5, <2>6 DEF BestIsMarked, marked
<1>. QED
  BY FrameInvariance, <1>1, PTL

-----------------------------------------------------------------------------
(* The next crop.                                                          *)

\* The box that the crop is made from ends inside of the input tensor, when the boxes of
\* the tensors end in the picture and the input tensor has an area.
LEMMA MarkedInside ==
  ASSUME NEW p \in OdParams, SentWith(p), BoxesInside,
         p.input_width_ > 0, p.input_height_ > 0
  PROVE  /\ MarkedRect.xmin \in Int /\ MarkedRect.ymin \in Int
         /\ MarkedRect.xmax \in Int /\ MarkedRect.xmax <= p.input_width_
         /\ MarkedRect.ymax \in Int /\ MarkedRect.ymax <= p.input_height_
<1>. DEFINE n == p.dnn_output_detections_
            t == frame.tensor
            out == createDetectionData(t, n)
            kept == KeptDetections(out, p)
            d == kept[HighestScoreIndex(kept)]
            w == p.input_width_
            h == p.input_height_
<1>1. /\ n \in Nat /\ frame \in OdFrames
      /\ t \in Seq(Int) /\ Len(t) = DNN_OUTPUT_TENSOR_SIZE(n)
      /\ kept \in Seq(Decoded) /\ kept # <<>>
      /\ KeepsFirst(kept, out.detections, Birds(out, p), p.max_detections_)
      /\ ResultOf(data, kept, p) /\ output = createSSDOutputFlatbuffer(data)
  BY DEF SentWith
<1>2. w \in Nat \ {0} /\ h \in Nat \ {0}
  BY DEF OdParams
<1>3. DetectionsIn(frame) = n
  BY CountOf
<1>4. /\ uint8(n) \in 0..n /\ out.num_of_detections \in 0..uint8(n)
      /\ \A i \in 1..uint8(n) :
           LET total == uint8(n) IN
           /\ out.detections[i] \in Decoded
           /\ out.detections[i] = Detection(t[i], t[total + i], t[2*total + i],
                                            t[3*total + i], t[4*total + i], t[5*total + i])
           /\ 3*total + i <= 4*n
  BY <1>1, DecodedIs
<1>5. MarkedRect = Rect(d, w, h)
  <2>1. MarksBest(output, data, kept, p)
    <3>. HIDE DEF kept
    <3>. QED
      BY <1>1, OneMarked
  <2>. HIDE DEF kept
  <2>. QED
    BY <2>1, Zenon DEF MarksBest, MarkedRect
<1>. HIDE DEF n, w, h, out
<1>6. PICK i \in Birds(out, p) : d = out.detections[i]
  <2>1. HighestScoreIndex(kept) \in 1..Len(kept)
    <3>. HIDE DEF kept
    <3>. QED
      BY <1>1, BestIs
  <2>. HIDE DEF kept
  <2>. QED
    BY <1>1, <2>1 DEF KeepsFirst
<1>. HIDE DEF d
<1>. DEFINE total == uint8(n)
<1>. HIDE DEF total, t
<1>7. i \in 1..total /\ total \in 0..n
  <2>1. i \in 1..out.num_of_detections
    BY DEF Birds
  <2>. QED
    BY <1>4, <2>1 DEF total
<1>8. /\ d \in Decoded /\ 3*total + i <= 4*n
      /\ d = Detection(t[i], t[total + i], t[2*total + i],
                       t[3*total + i], t[4*total + i], t[5*total + i])
  BY <1>4, <1>6, <1>7 DEF total
<1>9. d.x_max = t[3*total + i] /\ d.y_max = t[2*total + i]
  BY ONLY <1>8 DEF Detection
<1>10. d.x_max <= Unit /\ d.y_max <= Unit
  <2>1. 3*total + i \in 1..4*n /\ 2*total + i \in 1..4*n
    BY <1>1, <1>7, <1>8
  <2>2. \A j \in 1..4*n : t[j] <= Unit
    BY <1>1, <1>3, DetectionsAssumption DEF BoxesInside, t
  <2>. QED
    BY <1>9, <2>1, <2>2
<1>11. d.x_min \in Int /\ d.y_min \in Int /\ d.x_max \in Int /\ d.y_max \in Int
  BY <1>8 DEF Decoded
<1>12. /\ Pixel(d.x_max, w) \in Int /\ Pixel(d.x_max, w) <= w - 1
       /\ Pixel(d.y_max, h) \in Int /\ Pixel(d.y_max, h) <= h - 1
  BY <1>2, <1>10, <1>11, PixelInside
<1>13. Pixel(d.x_min, w) \in Int /\ Pixel(d.y_min, h) \in Int
  BY <1>2, <1>11, PixelType
<1>14. /\ MarkedRect.xmin = Pixel(d.x_min, w) /\ MarkedRect.ymin = Pixel(d.y_min, h)
       /\ MarkedRect.xmax = Pixel(d.x_max, w) /\ MarkedRect.ymax = Pixel(d.y_max, h)
  BY ONLY <1>5 DEF Rect
<1>15. w - 1 <= w /\ h - 1 <= h
  BY <1>2
<1>16. MarkedRect.xmax <= w /\ MarkedRect.ymax <= h
  BY <1>2, <1>12, <1>14
<1>. QED
  BY <1>12, <1>13, <1>14, <1>16 DEF w, h

\* When nothing has changed since the frame was taken, the next crop lies inside the
\* picture that the detection was made on, if the network's boxes lie in it and the input
\* tensor has an area, which the validation does not ask for.
THEOREM CropStaysInside == ASSUME BoxesInside, SizesPositive PROVE Spec => []CropInPicture
<1>1. IInv /\ Accepts /\ MainInv => CropInPicture
  <2>. SUFFICES ASSUME IInv, Accepts, MainInv, pc = "OdSent", quiet
                PROVE  CropInPicture
    BY DEF CropInPicture
  <2>1. SentWith(odParam) /\ odParam \in OdParams
    BY DetectionSent
  <2>. DEFINE w == odParam.input_width_
              h == odParam.input_height_
              r == MarkedRect
  <2>2. w \in Nat \ {0} /\ h \in Nat \ {0}
    <3>1. w > 0 /\ h > 0
      BY QuietConfig DEF SizesPositive
    <3>. QED
      BY <2>1, <3>1 DEF OdParams
  <2>3. crop = TargetCrop(r, w, h)
    BY DEF MainInv, Scaled
  <2>4. /\ r.xmin \in Int /\ r.ymin \in Int
        /\ r.xmax \in Int /\ r.xmax <= w /\ r.ymax \in Int /\ r.ymax <= h
    BY <2>1, <2>2, MarkedInside
  <2>5. frame.crop.width \in Nat /\ frame.crop.height \in Nat
    BY <2>1, ParamsAssumption DEF SentWith
  <2>. HIDE DEF w, h, r
  <2>6. /\ ((r.xmin * frame.crop.width) \div w)
             + (((r.xmax - r.xmin) * frame.crop.width) \div w) <= frame.crop.width
        /\ ((r.ymin * frame.crop.height) \div h)
             + (((r.ymax - r.ymin) * frame.crop.height) \div h) <= frame.crop.height
    BY <2>2, <2>4, <2>5, ScaledInside
  <2>7. /\ crop.left = (r.xmin * frame.crop.width) \div w
        /\ crop.top = (r.ymin * frame.crop.height) \div h
        /\ crop.width = ((r.xmax - r.xmin) * frame.crop.width) \div w
        /\ crop.height = ((r.ymax - r.ymin) * frame.crop.height) \div h
    BY ONLY <2>3 DEF TargetCrop
  <2>. QED
    BY <2>6, <2>7 DEF CropInPicture
<1>. QED
  BY FrameInvariance, <1>1, PTL

-----------------------------------------------------------------------------
(* The detections that are sent.                                           *)

\* What the message says of the detection at place k.
LEMMA ObjectIs ==
  ASSUME NEW p, NEW kept, ResultOf(data, kept, p),
         output = createSSDOutputFlatbuffer(data), NEW k \in 1..Len(kept)
  PROVE  \E marked \in BOOLEAN :
             output[k] = GeneralObject(uint8(kept[k].class),
                                       Rect(kept[k], p.input_width_, p.input_height_),
                                       kept[k].score, marked)
<1>. DEFINE marked == (k = HighestScoreIndex(kept))
<1>1. k \in DOMAIN data
      /\ data[k].rect = Rect(kept[k], p.input_width_, p.input_height_)
      /\ data[k].score = kept[k].score /\ data[k].class = uint8(kept[k].class)
      /\ data[k].is_used_for_cropping = marked
  BY Zenon DEF ResultOf
<1>2. output[k] = GeneralObject(data[k].class, data[k].rect, data[k].score,
                                data[k].is_used_for_cropping)
  BY <1>1, MessageIs, Zenon
<1>3. marked \in BOOLEAN
  OBVIOUS
<1>. HIDE DEF marked
<1>. QED
  BY <1>1, <1>2, <1>3, Zenon

\* Under a configuration that counts its detections in a uint8_t, the first birds of the
\* tensor are sent, where the tensor says.
LEMMA BirdsSent ==
  ASSUME NEW p \in OdParams, SentWith(p), p.dnn_output_detections_ < Byte, ClassesFit
  PROVE  LET n == p.dnn_output_detections_
             t == frame.tensor
             birds == BirdsIn(t, p)
         IN  /\ Len(output) = Least(Cardinality(birds), p.max_detections_)
             /\ \A i \in birds : Rank(birds, i) <= Len(output) =>
                  \E marked \in BOOLEAN :
                    output[Rank(birds, i)] = GeneralObject(BirdClass,
                      [xmin |-> Pixel(t[n + i], p.input_width_),
                       ymin |-> Pixel(t[i], p.input_height_),
                       xmax |-> Pixel(t[3*n + i], p.input_width_),
                       ymax |-> Pixel(t[2*n + i], p.input_height_)], t[5*n + i], marked)
<1>. DEFINE n == p.dnn_output_detections_
            t == frame.tensor
            birds == BirdsIn(t, p)
            max == p.max_detections_
            w == p.input_width_
            h == p.input_height_
            out == createDetectionData(t, n)
            kept == KeptDetections(out, p)
            Decode(i) == Detection(t[i], t[n + i], t[2*n + i], t[3*n + i], t[4*n + i], t[5*n + i])
            Object(i, marked) == GeneralObject(BirdClass,
                           [xmin |-> Pixel(t[n + i], w), ymin |-> Pixel(t[i], h),
                            xmax |-> Pixel(t[3*n + i], w), ymax |-> Pixel(t[2*n + i], h)],
                           t[5*n + i], marked)
<1>1. birds = Birds(out, p) /\ \A i \in birds : out.detections[i] = Decode(i)
  BY BirdsAre
<1>2. /\ kept \in Seq(Decoded) /\ ResultOf(data, kept, p)
      /\ output = createSSDOutputFlatbuffer(data)
      /\ KeepsFirst(kept, out.detections, birds, max)
  BY <1>1 DEF SentWith
<1>. HIDE DEF kept, birds, n, t, max, w, h, out
<1>3. Len(output) = Len(kept)
  <2>1. DOMAIN output = 1..Len(kept)
    BY <1>2 DEF ResultOf, createSSDOutputFlatbuffer
  <2>2. Len(kept) \in Nat
    BY <1>2
  <2>3. output = [i \in 1..Len(kept) |-> output[i]]
    BY <1>2, <2>1 DEF createSSDOutputFlatbuffer
  <2>. QED
    BY <2>2, <2>3
<1>4. Len(output) = Least(Cardinality(birds), max)
  BY <1>2, <1>3 DEF KeepsFirst
<1>5. ASSUME NEW i \in birds, Rank(birds, i) <= Len(output)
      PROVE  \E marked \in BOOLEAN : output[Rank(birds, i)] = Object(i, marked)
  <2>. DEFINE k == Rank(birds, i)
  <2>1. k \in 1..Len(kept) /\ kept[k] = out.detections[i]
    BY <1>2, <1>3, <1>5 DEF KeepsFirst
  <2>2. IsBird(out.detections[i])
    BY <1>1 DEF Birds
  <2>. HIDE DEF k
  <2>3. kept[k] = Decode(i) /\ uint8(kept[k].class) = BirdClass
    BY <1>1, <2>1, <2>2 DEF IsBird
  <2>4. PICK marked \in BOOLEAN :
            output[k] = GeneralObject(uint8(kept[k].class),
                                      Rect(kept[k], p.input_width_, p.input_height_),
                                      kept[k].score, marked)
    BY <1>2, <2>1, ObjectIs, Zenon
  <2>5. output[k] = GeneralObject(BirdClass, Rect(kept[k], w, h), kept[k].score, marked)
    BY <2>3, <2>4, Zenon DEF w, h
  <2>6. /\ kept[k].x_min = t[n + i] /\ kept[k].y_min = t[i]
        /\ kept[k].x_max = t[3*n + i] /\ kept[k].y_max = t[2*n + i]
        /\ kept[k].score = t[5*n + i]
    BY ONLY <2>3 DEF Detection
  <2>7. Rect(kept[k], w, h) = [xmin |-> Pixel(t[n + i], w), ymin |-> Pixel(t[i], h),
                               xmax |-> Pixel(t[3*n + i], w), ymax |-> Pixel(t[2*n + i], h)]
    BY ONLY <2>6, Zenon DEF Rect
  <2>. QED
    BY <2>5, <2>6, <2>7, Zenon DEF k
<1>. QED
  BY <1>4, <1>5, Zenon DEF n, t, birds, max, w, h

\* When nothing has changed since the frame was taken, what is sent are the first birds
\* of its tensor, in the tensor's order, as many as the configuration in force asks for,
\* where the tensor says; and when nothing has changed since the network was read that
\* the frame was compared with, the frame is of that configuration's network.  The class
\* numbers must fit in a uint8_t.
THEOREM DetectionsAreOfConfig == ASSUME ClassesFit PROVE Spec => []DetectionsOfConfig
<1>1. IInv /\ Accepts /\ MainInv => DetectionsOfConfig
  <2>. DEFINE p == OdParsed(inForce.od)
  <2>. SUFFICES ASSUME IInv, Accepts, MainInv, pc = "OdSent", quiet,
                       p.dnn_output_detections_ < Byte
                PROVE  DetectionsOfConfig
    BY DEF DetectionsOfConfig
  <2>1. p = odParam /\ p \in OdParams /\ SentWith(p)
    BY DetectionSent, QuietConfig
  <2>2. steady => frame.network = inForce.od.network_id
    BY QuietConfig DEF MainInv, Verified, OdAnalyzed
  <2>. HIDE DEF p
  <2>3. LET n == p.dnn_output_detections_
            t == frame.tensor
            birds == BirdsIn(t, p)
        IN  /\ Len(output) = Least(Cardinality(birds), p.max_detections_)
            /\ \A i \in birds : Rank(birds, i) <= Len(output) =>
                 \E marked \in BOOLEAN :
                   output[Rank(birds, i)] = GeneralObject(BirdClass,
                     [xmin |-> Pixel(t[n + i], p.input_width_),
                      ymin |-> Pixel(t[i], p.input_height_),
                      xmax |-> Pixel(t[3*n + i], p.input_width_),
                      ymax |-> Pixel(t[2*n + i], p.input_height_)], t[5*n + i], marked)
    BY <2>1, BirdsSent
  <2>. QED
    BY <2>2, <2>3, Zenon DEF DetectionsOfConfig, Rank, p
<1>. QED
  BY FrameInvariance, <1>1, PTL
=============================================================================
