---------------------------- MODULE SwitchParams ----------------------------
(***************************************************************************)
(* The configurations of the switching application and what it computes    *)
(* under them.  The EVP thread has every analyzer validate a configuration *)
(* and then has every analyzer take it over, or none; the main thread      *)
(* verifies the network of a frame, analyses the frame and, for a          *)
(* detection, derives the next crop.                                       *)
(*                                                                         *)
(* Each analyzer guards its calls by its mutex, which GetNetworkId and     *)
(* GetInputTensorSize do not take.  A call under the mutex is one step;    *)
(* only the assignment to the detection parameters is two, because the     *)
(* main thread may read them meanwhile.                                    *)
(***************************************************************************)
EXTENDS Detections, Predictions

CONSTANTS
    Configs,        \* the configurations that may arrive
    OdFrames,       \* the frames of the detection states
    IcFrames,       \* the frames of the classification states
    Absent,         \* a member the JSON text does not have
    None,           \* nullptr, or nothing yet
    Word,           \* uint16_t wraps here: 65536 in the code
    MinSize,        \* MIN_CROPHSIZE and MIN_CROPVSIZE
    MaxWidth,       \* MAX_CROPHSIZE and MAX_CROPHOFFSET
    MaxHeight       \* MAX_CROPVSIZE and MAX_CROPVOFFSET

\* A model of a configuration: its network, and the numbers its parameters are.
OdMembers == {"dnn_output_detections", "max_detections", "threshold",
              "input_width", "input_height"}
IcMembers == {"dnn_output_classes", "max_predictions"}
Models(members) ==
    [network_id : Nat, param : [members -> Int \cup {Absent}] \cup {Absent}] \cup {Absent}

\* What AnalyzerOd and AnalyzerIc keep of them.
OdParams == [dnn_output_detections_ : 0..Word - 1, max_detections_ : 0..Word - 1,
             threshold_ : 0..Unit, input_width_ : 0..Word - 1, input_height_ : 0..Word - 1]
IcParams == [dnn_output_classes_ : 0..Word - 1, max_predictions_ : 0..Word - 1]

ASSUME ParamsAssumption ==
    /\ Word \in Nat \ {0}
    /\ MinSize \in Nat
    /\ \A c \in Configs : c.od \in Models(OdMembers) /\ c.ic \in Models(IcMembers)
    /\ None \notin Configs \cup OdParams \cup IcParams
    /\ \A f \in OdFrames \cup IcFrames : f.tensor \in Seq(Int)
    /\ \A f \in OdFrames : f.crop.width \in Nat /\ f.crop.height \in Nat

VARIABLES
    \* EvpController
    evpPc, config, errors,
    \* AnalyzerOd and AnalyzerIc
    odParam, odValidating, odNetworkId,
    icParam, icValidating, icNetworkId,
    \* the main thread; the network AppModel keeps on the way back to detection
    pc, frame, nextDnn, data, width, crop, output,
    \* history: the configuration taken over last, whether the last one that arrived
    \* was, whether it has been in force since the main thread took its frame, and
    \* whether since it read the network the frame is compared with
    inForce, accepted, quiet, steady

evpVars == <<evpPc, config, errors>>
odVars == <<odParam, odValidating, odNetworkId>>
icVars == <<icParam, icValidating, icNetworkId>>
mainVars == <<pc, frame, nextDnn, data, width, crop, output>>
vars == <<evpVars, odVars, icVars, mainVars, inForce, accepted, quiet, steady>>

EvpSteps == {"Idle", "Common", "Od", "Ic", "LockOd", "SetOd", "SetIc", "ClearOd", "ClearIc"}
OdSteps == {"OdFrame", "OdVerifyStream", "OdVerifyChannel", "OdAnalyze", "SaveCrop",
            "SaveCropHeight", "OdSerialize", "OdSent"}
IcSteps == {"IcFrame", "IcVerifyStream", "IcVerifyChannel", "IcAnalyze", "IcSerialize", "IcSent"}
DnnOdSteps == {"DnnOdFrame", "DnnOdVerifyStream", "DnnOdVerifyChannel"}
Steps == {"WaitParam", "Ended"} \cup OdSteps \cup IcSteps \cup DnnOdSteps

-----------------------------------------------------------------------------
(* Parsing.  A configuration that is not a JSON object has the header      *)
(* "wrong" and neither model: every analyzer refuses it, and what they     *)
(* were validating is cleared, if only by the loop that follows.           *)

uint16(v) == v % Word

Clamped(v, max) == Least(uint16(v), uint16(max))

\* Without a header, or with one that is no object, nothing is compared.
HeaderAccepted(c) == c.header \in {"good", "absent", "notObject"}

\* An identifier that is missing, has not six characters or is no hexadecimal number is 0.
StoresNetworkId(m) == m # Absent /\ m.network_id # 0

Complete(m) ==
    /\ StoresNetworkId(m)
    /\ m.param # Absent
    /\ \A f \in DOMAIN m.param : m.param[f] # Absent

\* Mutant: the range of the threshold is not checked.
OdAcceptsAnyThreshold(m) == Complete(m)

\* ObjectDetectionParamInit reaches its end.
OdAccepts(m) == Complete(m) /\ m.param.threshold \in 0..Unit

OdParsed(m) ==
    [dnn_output_detections_ |-> uint16(m.param.dnn_output_detections),
     max_detections_ |-> Clamped(m.param.max_detections, m.param.dnn_output_detections),
     threshold_ |-> m.param.threshold,
     input_width_ |-> uint16(m.param.input_width),
     input_height_ |-> uint16(m.param.input_height)]

\* ClassificationParamInit reaches its end.
IcAccepts(m) == Complete(m)

IcParsed(m) ==
    [dnn_output_classes_ |-> uint16(m.param.dnn_output_classes),
     max_predictions_ |-> Clamped(m.param.max_predictions, m.param.dnn_output_classes)]

\* The members as PPLParam initialises them.
OdDefault == [dnn_output_detections_ |-> 0, max_detections_ |-> 0, threshold_ |-> 0,
              input_width_ |-> 0, input_height_ |-> 0]
IcDefault == [dnn_output_classes_ |-> 0, max_predictions_ |-> 0]

-----------------------------------------------------------------------------

NetworkIds == {c.od.network_id : c \in {d \in Configs : StoresNetworkId(d.od)}}
    \cup {c.ic.network_id : c \in {d \in Configs : StoresNetworkId(d.ic)}}

TypeOK ==
    /\ evpPc \in EvpSteps
    /\ config \in Configs \cup {None}
    /\ errors \in 0..3
    /\ odParam \in OdParams /\ odParam.max_detections_ <= odParam.dnn_output_detections_
    /\ odValidating \in OdParams \cup {None}
    /\ odNetworkId \in NetworkIds \cup {0}
    /\ icParam \in IcParams /\ icParam.max_predictions_ <= icParam.dnn_output_classes_
    /\ icValidating \in IcParams \cup {None}
    /\ icNetworkId \in NetworkIds \cup {0}
    /\ pc \in Steps
    /\ frame \in OdFrames \cup IcFrames \cup {None}
    /\ nextDnn \in NetworkIds \cup {0, None}
    /\ inForce \in Configs \cup {None}
    /\ accepted \in BOOLEAN
    /\ quiet \in BOOLEAN
    /\ steady \in BOOLEAN

Init ==
    /\ evpPc = "Idle" /\ config = None /\ errors = 0
    /\ odParam = OdDefault /\ odValidating = None /\ odNetworkId = 0
    /\ icParam = IcDefault /\ icValidating = None /\ icNetworkId = 0
    /\ pc = "WaitParam" /\ frame = None /\ nextDnn = None
    /\ data = <<>> /\ width = 0 /\ crop = None /\ output = None
    /\ inForce = None /\ accepted = FALSE /\ quiet = FALSE /\ steady = FALSE

-----------------------------------------------------------------------------
(* EvpController::Callback, with the loops of AppSequence over the         *)
(* analyzers.  An empty configuration changes nothing.                     *)

\* A step of the EVP thread.
EvpStep(at) ==
    /\ evpPc = at
    /\ quiet' = FALSE /\ steady' = FALSE
    /\ UNCHANGED mainVars

Receive ==
    /\ EvpStep("Idle")
    /\ evpPc' = "Common"
    /\ config' \in Configs
    /\ errors' = 0
    /\ accepted' = FALSE
    /\ UNCHANGED <<odVars, icVars, inForce>>

ValidateCommon ==
    /\ EvpStep("Common")
    /\ evpPc' = "Od"
    /\ errors' = IF HeaderAccepted(config) THEN errors ELSE errors + 1
    /\ UNCHANGED <<config, odVars, icVars, inForce, accepted>>

\* The network id is stored before the rest is looked at.
OdValidateParam ==
    /\ EvpStep("Od")
    /\ evpPc' = "Ic"
    /\ odNetworkId' = IF StoresNetworkId(config.od) THEN config.od.network_id ELSE odNetworkId
    /\ \/ OdAccepts(config.od) /\ odValidating' = OdParsed(config.od) /\ UNCHANGED errors
       \/ ~OdAccepts(config.od) /\ odValidating' = None /\ errors' = errors + 1
    /\ UNCHANGED <<config, odParam, icVars, inForce, accepted>>

\* Mutant: only the last answer decides.
LastAnswer == IF icValidating' # None THEN "LockOd" ELSE "ClearOd"

\* Callback takes the configuration over if no analyzer has refused it.
NextAfterValidation == IF errors' = 0 THEN "LockOd" ELSE "ClearOd"

\* Mutant: the network id is stored only if it is the first.
IcKeepsNetworkId ==
    /\ EvpStep("Ic")
    /\ icNetworkId' = IF icNetworkId = 0 /\ StoresNetworkId(config.ic)
                      THEN config.ic.network_id ELSE icNetworkId
    /\ \/ IcAccepts(config.ic) /\ icValidating' = IcParsed(config.ic) /\ UNCHANGED errors
       \/ ~IcAccepts(config.ic) /\ icValidating' = None /\ errors' = errors + 1
    /\ evpPc' = NextAfterValidation
    /\ UNCHANGED <<config, odVars, icParam, inForce, accepted>>

IcValidateParam ==
    /\ EvpStep("Ic")
    /\ icNetworkId' = IF StoresNetworkId(config.ic) THEN config.ic.network_id ELSE icNetworkId
    /\ \/ IcAccepts(config.ic) /\ icValidating' = IcParsed(config.ic) /\ UNCHANGED errors
       \/ ~IcAccepts(config.ic) /\ icValidating' = None /\ errors' = errors + 1
    /\ evpPc' = NextAfterValidation
    /\ UNCHANGED <<config, odVars, icParam, inForce, accepted>>

\* AnalyzerOd::SetValidatedParam has taken the mutex.
OdLock ==
    /\ EvpStep("LockOd")
    /\ evpPc' = "SetOd"
    /\ UNCHANGED <<config, errors, odVars, icVars, inForce, accepted>>

\* The assignment is done.  Without a validated parameter the call returns kOtherError,
\* which nobody looks at.
OdSetValidatedParam ==
    /\ EvpStep("SetOd")
    /\ evpPc' = "SetIc"
    /\ odParam' = IF odValidating # None THEN odValidating ELSE odParam
    /\ UNCHANGED <<config, errors, odValidating, odNetworkId, icVars, inForce, accepted>>

IcSetValidatedParam ==
    /\ EvpStep("SetIc")
    /\ evpPc' = "Idle"
    /\ icParam' = IF icValidating # None THEN icValidating ELSE icParam
    /\ inForce' = config
    /\ accepted' = TRUE
    /\ UNCHANGED <<config, errors, odVars, icValidating, icNetworkId>>

OdClearValidatingParam ==
    /\ EvpStep("ClearOd")
    /\ evpPc' = "ClearIc"
    /\ odValidating' = None
    /\ UNCHANGED <<config, errors, odParam, odNetworkId, icVars, inForce, accepted>>

IcClearValidatingParam ==
    /\ EvpStep("ClearIc")
    /\ evpPc' = "Idle"
    /\ icValidating' = None
    /\ UNCHANGED <<config, errors, odVars, icParam, icNetworkId, inForce, accepted>>

EvpThread ==
    \/ Receive \/ ValidateCommon \/ OdValidateParam \/ IcValidateParam
    \/ OdLock \/ OdSetValidatedParam \/ IcSetValidatedParam
    \/ OdClearValidatingParam \/ IcClearValidatingParam

-----------------------------------------------------------------------------
(* The main thread.                                                        *)

\* A step of the main thread that goes on at next with the frame it has.
Proceeds(at, next) ==
    /\ pc = at
    /\ pc' = next
    /\ UNCHANGED <<evpVars, odVars, icVars, frame, inForce, accepted, quiet, steady>>

Goes(at, next) == Proceeds(at, next) /\ UNCHANGED nextDnn

Results == <<data, width, crop, output>>

\* The main thread is done with its frame.  What it computed is written anew before
\* it is read again.
GivesUp(at, next) ==
    /\ pc = at
    /\ pc' = next
    /\ frame' = None /\ data' = <<>> /\ width' = 0 /\ crop' = None /\ output' = None
    /\ quiet' = FALSE
    /\ UNCHANGED <<evpVars, odVars, icVars, inForce, accepted>>

Drop(at, next) ==
    /\ GivesUp(at, next)
    /\ steady' = (steady /\ next = "DnnOdFrame")
    /\ UNCHANGED nextDnn

\* Initialize waits for the first configuration that is taken over.
WaitParam == inForce # None /\ Goes("WaitParam", "OdFrame") /\ UNCHANGED Results

TakeFrame(at, next, Frames) ==
    /\ pc = at
    /\ pc' = next
    /\ frame' \in Frames
    /\ quiet' = (evpPc = "Idle" /\ accepted)
    /\ UNCHANGED <<evpVars, odVars, icVars, nextDnn, Results, inForce, accepted>>

OdGetFrame == TakeFrame("OdFrame", "OdVerifyStream", OdFrames) /\ steady' = quiet'

DnnOdGetFrame == TakeFrame("DnnOdFrame", "DnnOdVerifyStream", OdFrames) /\ UNCHANGED steady

IcGetFrame == TakeFrame("IcFrame", "IcVerifyStream", IcFrames) /\ steady' = quiet'

\* A call of the SensCord API fails on the way to the analysis: the frame is given up
\* or, after a fatal error, the main loop.
ApiFails ==
    \/ \E at \in {"OdVerifyStream", "OdVerifyChannel", "OdAnalyze"}, next \in {"OdFrame", "Ended"} :
         Drop(at, next)
    \/ \E at \in {"DnnOdVerifyStream", "DnnOdVerifyChannel"}, next \in {"DnnOdFrame", "Ended"} :
         Drop(at, next)
    \/ \E at \in {"IcVerifyStream", "IcVerifyChannel", "IcAnalyze"}, next \in {"IcFrame", "Ended"} :
         Drop(at, next)

\* A frame of another network is passed over in the state Od.
OdVerify(network, at, next) ==
    /\ pc = at
    /\ \/ network = odNetworkId /\ Goes(at, next) /\ UNCHANGED Results
       \/ network # odNetworkId /\ Drop(at, "OdFrame")

OdVerifyDnnStream == OdVerify(frame.stream, "OdVerifyStream", "OdVerifyChannel")

OdVerifyDnnChannel == OdVerify(frame.network, "OdVerifyChannel", "OdAnalyze")

\* On the way back from classification the network is not the one of the configuration
\* but the one that StateIc has recorded.  A stream that runs another one sends the
\* application to the state Od if that is the configured one, or has SetDnn tried again.
DnnOdVerifyDnnStream ==
    /\ pc = "DnnOdVerifyStream"
    /\ \/ /\ frame.stream = nextDnn
          /\ Goes("DnnOdVerifyStream", "DnnOdVerifyChannel") /\ UNCHANGED Results
       \/ /\ frame.stream # nextDnn /\ frame.stream = odNetworkId
          /\ GivesUp("DnnOdVerifyStream", "OdFrame")
          /\ nextDnn' = None /\ steady' = FALSE
       \/ frame.stream \notin {nextDnn, odNetworkId} /\ Drop("DnnOdVerifyStream", "DnnOdFrame")

\* Mutant: the first frame after a classification is taken on the word of the stream.
TrustStream ==
    /\ Proceeds("DnnOdVerifyChannel", "OdAnalyze")
    /\ nextDnn' = None /\ UNCHANGED Results

\* The frame that has the recorded network is analysed in the state Od at once.
DnnOdVerifyDnnChannel ==
    /\ pc = "DnnOdVerifyChannel"
    /\ \/ /\ frame.network = nextDnn
          /\ Proceeds("DnnOdVerifyChannel", "OdAnalyze")
          /\ nextDnn' = None /\ UNCHANGED Results
       \/ frame.network # nextDnn /\ Drop("DnnOdVerifyChannel", "DnnOdFrame")

\* AnalyzerOd::Analyze waits while the parameters are assigned.  A tensor of
\* another size, or one without a bird, ends the iteration.
OdAnalyze ==
    /\ pc = "OdAnalyze"
    /\ evpPc # "SetOd"
    /\ LET n == odParam.dnn_output_detections_
           result == analyzeDetectionOutput(createDetectionData(frame.tensor, n), odParam)
       IN IF Len(frame.tensor) = DNN_OUTPUT_TENSOR_SIZE(n) /\ result # <<>>
          THEN /\ Goes("OdAnalyze", "SaveCrop")
               /\ data' = result
               /\ UNCHANGED <<width, crop, output>>
          ELSE Drop("OdAnalyze", "OdFrame")

\* What a reader without the mutex may see of the detection parameters.
Visible(field) ==
    {odParam[field]} \cup (IF evpPc = "SetOd" /\ odValidating # None
                           THEN {odValidating[field]} ELSE {})

\* GetInputTensorSize reads the width, then the height.
OdReadWidth ==
    /\ Goes("SaveCrop", "SaveCropHeight")
    /\ width' \in Visible("input_width_")
    /\ UNCHANGED <<data, crop, output>>

MarkedRect == (CHOOSE d \in {data[i] : i \in DOMAIN data} : d.is_used_for_cropping).rect

\* Mutant: the far edges are taken for the sizes.
EdgesAsSizes(rect, w, h) ==
    [left |-> (rect.xmin * frame.crop.width) \div w, top |-> (rect.ymin * frame.crop.height) \div h,
     width |-> (rect.xmax * frame.crop.width) \div w,
     height |-> (rect.ymax * frame.crop.height) \div h]

\* The rectangle scaled from the input tensor to the crop of the frame.
TargetCrop(rect, w, h) ==
    [left |-> (rect.xmin * frame.crop.width) \div w, top |-> (rect.ymin * frame.crop.height) \div h,
     width |-> ((rect.xmax - rect.xmin) * frame.crop.width) \div w,
     height |-> ((rect.ymax - rect.ymin) * frame.crop.height) \div h]

ValidCrop(c) ==
    /\ c.left \in 0..MaxWidth /\ c.top \in 0..MaxHeight
    /\ c.width \in MinSize..MaxWidth /\ c.height \in MinSize..MaxHeight

OdSaveCrop ==
    /\ pc = "SaveCropHeight"
    /\ \E h \in Visible("input_height_") :
         LET target == TargetCrop(MarkedRect, width, h) IN
         IF ValidCrop(target)
         THEN /\ Goes("SaveCropHeight", "OdSerialize")
              /\ crop' = target
              /\ UNCHANGED <<data, width, output>>
         ELSE Drop("SaveCropHeight", "OdFrame")

\* Serialize fails when there is no memory for the message, which ends the main loop.
OdSerialize ==
    \/ /\ Goes("OdSerialize", "OdSent")
       /\ output' = createSSDOutputFlatbuffer(data)
       /\ UNCHANGED <<data, width, crop>>
    \/ Drop("OdSerialize", "Ended")

\* The result has gone out and the application changes to classification, or the
\* send was refused or failed.
OdDone == \E next \in {"IcFrame", "OdFrame", "Ended"} : Drop("OdSent", next)

\* A frame of another network sends the application back to the state Od.
IcVerify(network, at, next) ==
    /\ pc = at
    /\ \/ network = icNetworkId /\ Goes(at, next) /\ UNCHANGED Results
       \/ network # icNetworkId /\ Drop(at, "OdFrame")

IcVerifyDnnStream == IcVerify(frame.stream, "IcVerifyStream", "IcVerifyChannel")

\* Mutant: the channel is not compared with the classification network.
IcChannelNotCompared == Goes("IcVerifyChannel", "IcAnalyze") /\ UNCHANGED Results

IcVerifyDnnChannel == IcVerify(frame.network, "IcVerifyChannel", "IcAnalyze")

IcAnalyze ==
    /\ pc = "IcAnalyze"
    /\ IF Len(frame.tensor) = icParam.dnn_output_classes_
       THEN /\ Goes("IcAnalyze", "IcSerialize")
            /\ data' = analyzeClassificationOutput(frame.tensor, icParam.max_predictions_)
            /\ UNCHANGED <<width, crop, output>>
       ELSE Drop("IcAnalyze", "IcFrame")

IcSerialize ==
    \/ /\ Goes("IcSerialize", "IcSent")
       /\ output' = createClassificationFlatbuffer(data)
       /\ UNCHANGED <<data, width, crop>>
    \/ Drop("IcSerialize", "Ended")

\* The result has gone out: the detection network is recorded and asked for.
IcSetDnn ==
    /\ GivesUp("IcSent", "DnnOdFrame")
    /\ nextDnn' = odNetworkId
    /\ steady' = (evpPc = "Idle" /\ accepted)

\* The send, or with a fatal error SetDnn, was refused or failed.
IcDone == \E next \in {"IcFrame", "Ended"} : Drop("IcSent", next)

Main ==
    \/ WaitParam \/ ApiFails
    \/ DnnOdGetFrame \/ DnnOdVerifyDnnStream \/ DnnOdVerifyDnnChannel
    \/ OdGetFrame \/ OdVerifyDnnStream \/ OdVerifyDnnChannel \/ OdAnalyze \/ OdReadWidth
    \/ OdSaveCrop \/ OdSerialize \/ OdDone
    \/ IcGetFrame \/ IcVerifyDnnStream \/ IcVerifyDnnChannel \/ IcAnalyze \/ IcSerialize
    \/ IcSetDnn \/ IcDone

Next == EvpThread \/ Main

Spec == Init /\ [][Next]_vars

-----------------------------------------------------------------------------
(* Safety.                                                                 *)

\* Whatever has been refused meanwhile and whatever is being validated, both
\* analyzers work with the parameters of the one configuration that was taken over
\* last, except between the two assignments.
OneConfiguration ==
    evpPc # "SetIc" =>
        /\ odParam = IF inForce = None THEN OdDefault ELSE OdParsed(inForce.od)
        /\ icParam = IF inForce = None THEN IcDefault ELSE IcParsed(inForce.ic)

\* When the last configuration was taken over, the networks the application asks the
\* device for are its networks too.  After one that was refused this does not hold:
\* the validation has stored the network ids by then.
NetworksOfLatest ==
    evpPc = "Idle" /\ accepted =>
        /\ config = inForce
        /\ odNetworkId = inForce.od.network_id
        /\ icNetworkId = inForce.ic.network_id

\* What the code takes for granted of the tensors and the configurations: class numbers
\* that a uint8_t holds, boxes inside the picture, an input tensor with an area.
DetectionsIn(f) == (Len(f.tensor) - 1) \div 6

ClassesFit ==
    \A f \in OdFrames : LET n == DetectionsIn(f) IN
        \A i \in 1..n : f.tensor[4*n + i] \in 0..Byte - 1

BoxesInside ==
    \A f \in OdFrames : \A i \in 1..4 * DetectionsIn(f) : f.tensor[i] \in 0..Unit

SizesPositive ==
    \A c \in Configs : OdAccepts(c.od) =>
        OdParsed(c.od).input_width_ > 0 /\ OdParsed(c.od).input_height_ > 0

\* The birds of a tensor that are likely enough, read off the tensor itself.
BirdsIn(t, p) ==
    LET n == p.dnn_output_detections_
        found == {i \in 1..Least(n, uint8(t[6*n + 1])) :
                    t[4*n + i] = BirdClass /\ t[5*n + i] >= p.threshold_}
    IN found

\* What is sent for a frame is what the configuration in force asks for: as many birds
\* as it wants, the first ones of the tensor, where the tensor says.  The configuration
\* must not have changed since the frame was taken, and it must not ask for more
\* detections than a uint8_t counts.  The frame is one of that configuration's network,
\* if the configuration has not changed either since the network was read that the
\* frame was compared with: for the first frame after a classification that is when
\* StateIc asked for the network, and a frame of the old network is analysed with the
\* new parameters when another configuration arrives in between.
\*
\* The README of the application says that the detections are sorted before they are
\* cut; the code takes them in the order of the tensor.  The two agree on tensors of
\* falling scores.
DetectionsOfConfig ==
    LET p == OdParsed(inForce.od)
        n == p.dnn_output_detections_
        t == frame.tensor
        birds == BirdsIn(t, p)
        Object(i, marked) == GeneralObject(BirdClass,
            [xmin |-> Pixel(t[n + i], p.input_width_), ymin |-> Pixel(t[i], p.input_height_),
             xmax |-> Pixel(t[3*n + i], p.input_width_), ymax |-> Pixel(t[2*n + i], p.input_height_)],
            t[5*n + i], marked)
    IN pc = "OdSent" /\ quiet /\ n < Byte =>
        /\ steady => frame.network = inForce.od.network_id
        /\ Len(output) = Least(Cardinality(birds), p.max_detections_)
        /\ \A i \in birds : LET k == Cardinality({j \in birds : j <= i}) IN
             k <= Len(output) => \E marked \in BOOLEAN : output[k] = Object(i, marked)

\* The same for a classification: the best classes, no class twice, the lower index
\* first among equals, and nothing from behind the scores.
PredictionsOfConfig ==
    LET p == IcParsed(inForce.ic)
        t == frame.tensor
        listed == {output[k].class_id + 1 : k \in DOMAIN output}
    IN pc = "IcSent" /\ quiet =>
        /\ frame.network = inForce.ic.network_id
        /\ Len(output) = p.max_predictions_
        /\ Cardinality(listed) = Len(output)
        /\ \A k \in DOMAIN output : output[k].score = t[output[k].class_id + 1]
        /\ \A k \in 1..Len(output) - 1 :
             \/ output[k].score > output[k+1].score
             \/ output[k].score = output[k+1].score /\ output[k].class_id < output[k+1].class_id
        /\ \A i \in DOMAIN t \ listed, j \in listed : t[i] <= t[j]

\* Exactly one detection of a result is marked for the crop, the first of those with
\* the highest score.  When the network delivers its detections by falling score it
\* is the best bird of the whole tensor, although nothing is sorted and the list is
\* cut short before the search.
BestIsMarked ==
    pc = "OdSent" =>
        LET marked == {k \in DOMAIN output : output[k].is_used_for_cropping}
            t == frame.tensor
            n == (Len(t) - 1) \div 6
        IN /\ Cardinality(marked) = 1
           /\ \A m \in marked : \A k \in DOMAIN output :
                output[k].score < output[m].score
                \/ (output[k].score = output[m].score /\ m <= k)
           /\ quiet /\ n < Byte /\ (\A i \in 1..n - 1 : t[5*n + i] >= t[5*n + i + 1]) =>
                \A m \in marked, i \in BirdsIn(t, OdParsed(inForce.od)) :
                    output[m].score >= t[5*n + i]

\* The next crop lies inside the picture the detection was made on.  A configuration
\* that changes the size of the input tensor between the analysis and the scaling
\* breaks this, for the scaling reads the new size.
CropInPicture ==
    pc = "OdSent" /\ quiet =>
        /\ crop.left + crop.width <= frame.crop.width
        /\ crop.top + crop.height <= frame.crop.height
=============================================================================
