------------------------------ MODULE SwitchDnn ------------------------------
(***************************************************************************)
(* The edge application that switches between an object detection (OD) and *)
(* an image classification (IC) model: AppSequence::MainLoop, its five     *)
(* state classes, AppModel, and the threads that run beside the main one.  *)
(*                                                                         *)
(* Every step of the main loop is one action, so that the device, the EVP  *)
(* thread (configuration and exit requests) and the Sess callback can move *)
(* between any two of them.  pc names the AppContext call the main thread  *)
(* makes next.  A step a state class leaves to StateBase (kNop) does       *)
(* nothing and is skipped.                                                 *)
(***************************************************************************)
EXTENDS Senscord

CONSTANTS
    Configs,        \* PPL parameters that may arrive: the two network ids
    InitialConfig,  \* the one in force when the main loop starts
    NoConfig, NoNetwork, NoCrop, NoStamp    \* absent values

ASSUME SwitchDnnAssumption ==
    /\ Configs \subseteq [od : Networks, ic : Networks]
    /\ InitialConfig \in Configs
    /\ NoConfig \notin Configs
    /\ NoNetwork \notin Networks
    /\ NoCrop \notin Crops
    /\ NoStamp \notin Stamps

VARIABLES
    pc,             \* the next step of the main thread
    state,          \* AppContext::state_
    fatalError,     \* AppSequence::fatal_error_
    nextDnn,        \* AppModel::next_dnn_property_
    nextCrop,       \* AppModel::next_crop_property_
    traceId,        \* AppModel::trace_id_
    cropSeen,       \* DeviceModel::crop_stream_
    sendCnt,        \* SessController::SyncSend::send_cnt_
    lastSent,       \* history: the last result handed to SessSendData
    odNetwork,      \* AnalyzerOd::network_id_
    icNetwork,      \* AnalyzerIc::network_id_
    pending,        \* the configuration the EVP thread is applying
    terminated,     \* EvpThreadController::is_thread_terminated_
    stopping        \* the EVP thread is about to call StopStream

appModel == <<nextDnn, nextCrop, traceId>>
sess == <<sendCnt, lastSent>>
evp == <<odNetwork, icNetwork, pending, terminated, stopping>>
mainVars == <<pc, state, fatalError, cropSeen, frame, frames, faults>>
vars == <<senscordVars, pc, state, fatalError, appModel, cropSeen, sess, evp>>

SequenceState == {"kOd", "kChangingDnnIc", "kChangingCropIc", "kIc", "kChangingDnnOd"}

Steps == {"LoopHead", "GetFrame", "VerifyDnnStream", "RetrySetDnn", "GetChannel",
          "VerifyDnnChannel", "GetCropProperty", "SetCrop", "VerifyCrop",
          "RetrySetCrop", "GetRawData", "AnalyzeData", "SaveCrop", "SerializeData",
          "SendSerializedData", "WaitSend", "SetDnn",
          "Finalize", "Done"}

\* The steps of an iteration that work on the frame it has fetched.
FrameSteps == Steps \ {"LoopHead", "GetFrame", "WaitSend", "SetDnn", "Finalize", "Done"}

\* A result, and the crop it was computed on (IC) or leads to (OD).
Results == [kind : {"none", "OD", "IC"}, trace : Stamps \cup {NoStamp},
            crop : Crops \cup {NoCrop}]

\* Type invariant.
TypeOK ==
    /\ SenscordTypeOK
    /\ pc \in Steps
    /\ state \in SequenceState
    /\ fatalError \in BOOLEAN
    /\ nextDnn \in Networks \cup {NoNetwork}
    /\ nextCrop \in Crops \cup {NoCrop}
    /\ traceId \in Stamps \cup {NoStamp}
    /\ cropSeen \in Crops \cup {NoCrop}
    /\ sendCnt \in Nat
    /\ lastSent \in Results
    /\ odNetwork \in Networks
    /\ icNetwork \in Networks
    /\ pending \in Configs \cup {NoConfig}
    /\ terminated \in BOOLEAN
    /\ stopping \in BOOLEAN

Init ==
    /\ SenscordInit
    /\ pc = "LoopHead"
    /\ state = "kOd"
    /\ fatalError = FALSE
    /\ nextDnn = NoNetwork
    /\ nextCrop = NoCrop
    /\ traceId = NoStamp
    /\ cropSeen = NoCrop
    /\ sendCnt = 0
    /\ lastSent = [kind |-> "none", trace |-> NoStamp, crop |-> NoCrop]
    /\ odNetwork = InitialConfig.od
    /\ icNetwork = InitialConfig.ic
    /\ pending = NoConfig
    /\ terminated = FALSE
    /\ stopping = FALSE

-----------------------------------------------------------------------------
(* How MainLoop reacts to the status of a step.                            *)

\* next_state_ of each state class
NextState ==
    [kOd             |-> "kChangingDnnIc",
     kChangingDnnIc  |-> "kChangingCropIc",
     kChangingCropIc |-> "kIc",
     kIc             |-> "kChangingDnnOd",
     kChangingDnnOd  |-> "kOd"]

\* kSuccess: go on with the same frame
Proceed(step) == pc' = step /\ UNCHANGED <<state, fatalError, frame, frames, faults>>

\* kSuccessCompleted: the next state goes on with the same frame
Completed(step) ==
    /\ pc' = step
    /\ state' = NextState[state]
    /\ UNCHANGED <<fatalError, frame, frames, faults>>

\* kContinue: give the frame back and start over
Continue(spent) ==
    /\ pc' = "LoopHead"
    /\ ReleaseFrame(spent)
    /\ UNCHANGED <<state, fatalError, frame>>

\* kError and kErrorFatal: give the frame back and leave the main loop
Break(spent) ==
    /\ pc' = "Finalize"
    /\ fatalError' = TRUE
    /\ ReleaseFrame(spent)
    /\ UNCHANGED <<state, frame>>

\* kErrorChangeToOd
ChangeToOd ==
    /\ pc' = "LoopHead"
    /\ state' = "kOd"
    /\ ReleaseFrame(0)
    /\ UNCHANGED <<fatalError, frame>>

\* A call on the device fails, at level FAIL or at level FATAL.
ApiFails == faults > 0 /\ (Continue(1) \/ Break(1))

-----------------------------------------------------------------------------
(* Steps that every state class takes alike.                               *)

\* Mutant: the main loop does not look at the exit flag.
BlindLoopHead ==
    /\ pc = "LoopHead"
    /\ pc' = "GetFrame"
    /\ UNCHANGED <<senscordVars, state, fatalError, appModel, cropSeen, sess, evp>>

LoopHead ==
    /\ pc = "LoopHead"
    /\ pc' = IF terminated THEN "Finalize" ELSE "GetFrame"
    /\ UNCHANGED <<senscordVars, state, fatalError, appModel, cropSeen, sess, evp>>

\* Stopping the stream cancels the call, which then fails like any other.
MainGetFrame ==
    /\ pc = "GetFrame"
    /\ \/ /\ GetFrame
          /\ pc' = "VerifyDnnStream"
          /\ UNCHANGED fatalError
       \/ /\ \/ ~streaming /\ UNCHANGED faults
             \/ faults > 0 /\ faults' = faults - 1
          /\ \/ pc' = "LoopHead" /\ UNCHANGED fatalError
             \/ pc' = "Finalize" /\ fatalError' = TRUE
          /\ UNCHANGED <<device, streaming, frame, frames>>
    /\ UNCHANGED <<state, appModel, cropSeen, sess, evp>>

\* Mutant: the "continue" after a failure is missing.
GetChannelGoesOn ==
    /\ pc = "GetChannel"
    /\ \/ Proceed("VerifyDnnChannel")
       \/ /\ ReleaseFrame(1)
          /\ pc' = "VerifyDnnChannel"
          /\ UNCHANGED <<state, fatalError, frame>>
    /\ UNCHANGED <<device, streaming, appModel, cropSeen, sess, evp>>

GetChannel ==
    /\ pc = "GetChannel"
    /\ Proceed("VerifyDnnChannel") \/ ApiFails
    /\ UNCHANGED <<device, streaming, appModel, cropSeen, sess, evp>>

GetRawData ==
    /\ pc = "GetRawData"
    /\ Proceed("AnalyzeData") \/ ApiFails
    /\ UNCHANGED <<device, streaming, appModel, cropSeen, sess, evp>>

SerializeData ==
    /\ pc = "SerializeData"
    /\ Proceed("SendSerializedData") \/ Break(0)
    /\ UNCHANGED <<device, streaming, appModel, cropSeen, sess, evp>>

\* GetCropProperty of StateOd and of StateChangingCropIc: the crop of the stream,
\* then the crop of the channel, which stays with the frame.
GetCropProperty ==
    /\ pc = "GetCropProperty"
    /\ \/ /\ cropSeen' = cropStream
          /\ Proceed(IF state = "kOd" THEN "GetRawData" ELSE "VerifyCrop")
       \/ ApiFails /\ cropSeen' \in {cropSeen, cropStream}
    /\ UNCHANGED <<device, streaming, appModel, sess, evp>>

\* The result that is sent: of StateOd or of StateIc.
Result ==
    IF state = "kOd" THEN [kind |-> "OD", trace |-> traceId, crop |-> nextCrop]
                     ELSE [kind |-> "IC", trace |-> traceId, crop |-> frame.crop]

\* SendSerializedData of StateOd and StateIc.  The result may be too large, the
\* camera may not be streaming, the call may fail.  The other states send nothing
\* and report success.  MainLoop gives the frame back whatever the status.
SendSerializedData ==
    /\ pc = "SendSerializedData"
    /\ \/ /\ state \in {"kOd", "kIc"}
          /\ sendCnt' = sendCnt + 1
          /\ lastSent' = Result
          /\ pc' = "WaitSend"
          /\ ReleaseFrame(0)
          /\ UNCHANGED <<state, fatalError, frame>>
       \/ /\ state \in {"kOd", "kIc"}
          /\ Continue(0) \/ Break(0)
          /\ UNCHANGED sess
       \/ /\ state \notin {"kOd", "kIc"}
          /\ pc' = "WaitSend"
          /\ ReleaseFrame(0)
          /\ UNCHANGED <<state, fatalError, frame, sess>>
    /\ UNCHANGED <<device, streaming, appModel, cropSeen, evp>>

\* Mutant: nobody waits for the callback.
NoWaitSend ==
    /\ pc = "WaitSend"
    /\ pc' = IF state \in {"kOd", "kIc"} THEN "SetDnn" ELSE "LoopHead"
    /\ UNCHANGED <<senscordVars, state, fatalError, appModel, cropSeen, sess, evp>>

\* The wait for SendDataDoneCallback, given up when the application must exit.
WaitSend ==
    /\ pc = "WaitSend"
    /\ \/ /\ sendCnt = 0
          /\ pc' = IF state \in {"kOd", "kIc"} THEN "SetDnn" ELSE "LoopHead"
       \/ sendCnt > 0 /\ terminated /\ pc' = "Finalize"
    /\ UNCHANGED <<senscordVars, state, fatalError, appModel, cropSeen, sess, evp>>

\* SetDnn of StateOd and StateIc: a failure at level FAIL is left to the next state.
SetDnnTo(target) ==
    /\ pc = "SetDnn"
    /\ nextDnn' = target
    /\ \/ DeviceSetDnn(target) /\ UNCHANGED faults
       \/ faults > 0 /\ faults' = faults - 1 /\ UNCHANGED device
    /\ \/ /\ pc' = "LoopHead"
          /\ state' = NextState[state]
          /\ UNCHANGED fatalError
       \/ /\ pc' = "Finalize" /\ fatalError' = TRUE
          /\ faults' # faults
          /\ UNCHANGED state
    /\ UNCHANGED <<streaming, frame, frames, nextCrop, traceId, cropSeen, sess, evp>>

\* Mutant: the retry looks at the next DNN but does not set it.
RetryWithoutSet ==
    /\ pc = "RetrySetDnn"
    /\ nextDnn # NoNetwork
    /\ Proceed("LoopHead")
    /\ UNCHANGED <<device, streaming, appModel, cropSeen, sess, evp>>

\* RetrySetDnn of StateChangingDnnIc and StateChangingDnnOd.  The frame is not
\* given back when the retry succeeds.
RetrySetDnn ==
    /\ pc = "RetrySetDnn"
    /\ \/ /\ nextDnn = NoNetwork
          /\ nextCrop' = IF state = "kChangingDnnIc" THEN NoCrop ELSE nextCrop
          /\ ChangeToOd
          /\ UNCHANGED device
       \/ /\ nextDnn # NoNetwork
          /\ \/ Proceed("LoopHead") /\ DeviceSetDnn(nextDnn)
             \/ ApiFails /\ UNCHANGED device
          /\ UNCHANGED nextCrop
    /\ UNCHANGED <<streaming, nextDnn, traceId, cropSeen, sess, evp>>

-----------------------------------------------------------------------------
(* StateOd: run object detection and derive the crop for classification.   *)

OdVerifyDnnStream ==
    /\ pc = "VerifyDnnStream" /\ state = "kOd"
    /\ \/ dnnStream = odNetwork /\ Proceed("GetChannel")
       \/ dnnStream # odNetwork /\ Continue(0)
       \/ ApiFails
    /\ UNCHANGED <<device, streaming, appModel, cropSeen, sess, evp>>

OdVerifyDnnChannel ==
    /\ pc = "VerifyDnnChannel" /\ state = "kOd"
    /\ \/ frame.dnn = odNetwork /\ Proceed("GetCropProperty")
       \/ frame.dnn # odNetwork /\ Continue(0)
       \/ ApiFails
    /\ UNCHANGED <<device, streaming, appModel, cropSeen, sess, evp>>

\* The timestamp of the frame becomes the trace id before the analysis, which
\* may find no object, reject its input, or fail.
OdAnalyzeData ==
    /\ pc = "AnalyzeData" /\ state = "kOd"
    /\ traceId' = frame.ts
    /\ Proceed("SaveCrop") \/ Continue(0) \/ Break(0)
    /\ UNCHANGED <<device, streaming, nextDnn, nextCrop, cropSeen, sess, evp>>

\* The box found by OD, scaled to the sensor, if it is a valid crop.
OdSaveCrop ==
    /\ pc = "SaveCrop" /\ state = "kOd"
    /\ \/ \E crop \in Crops : nextCrop' = crop /\ Proceed("SerializeData")
       \/ Continue(0) /\ UNCHANGED nextCrop
    /\ UNCHANGED <<device, streaming, nextDnn, traceId, cropSeen, sess, evp>>

OdSetDnn == state = "kOd" /\ SetDnnTo(icNetwork)

-----------------------------------------------------------------------------
(* StateChangingDnnIc: wait until frames come from the IC model, then set  *)
(* the crop.                                                               *)

\* On the stream: retry while the device runs the OD model, give up when it
\* runs any other model than the one asked for.
DnnIcVerifyDnnStream ==
    /\ pc = "VerifyDnnStream" /\ state = "kChangingDnnIc"
    /\ \/ /\ nextDnn = NoNetwork
          /\ nextCrop' = NoCrop
          /\ ChangeToOd
          /\ UNCHANGED nextDnn
       \/ /\ nextDnn # NoNetwork /\ dnnStream = nextDnn
          /\ Proceed("GetChannel")
          /\ UNCHANGED <<nextDnn, nextCrop>>
       \/ /\ nextDnn # NoNetwork /\ dnnStream # nextDnn /\ dnnStream = odNetwork
          /\ Proceed("RetrySetDnn")
          /\ UNCHANGED <<nextDnn, nextCrop>>
       \/ /\ nextDnn # NoNetwork /\ dnnStream # nextDnn /\ dnnStream # odNetwork
          /\ nextDnn' = NoNetwork
          /\ nextCrop' = NoCrop
          /\ ChangeToOd
       \/ ApiFails /\ UNCHANGED <<nextDnn, nextCrop>>
    /\ UNCHANGED <<device, streaming, traceId, cropSeen, sess, evp>>

\* Mutant: the setting is cleared before the channel is compared with it.
ClearBeforeCompare ==
    /\ pc = "VerifyDnnChannel" /\ state = "kChangingDnnIc"
    /\ nextDnn' = NoNetwork
    /\ \/ frame.dnn # nextDnn /\ Continue(0)
       \/ frame.dnn = nextDnn /\ Proceed("SetCrop")
    /\ UNCHANGED <<device, streaming, nextCrop, traceId, cropSeen, sess, evp>>

DnnIcVerifyDnnChannel ==
    /\ pc = "VerifyDnnChannel" /\ state = "kChangingDnnIc"
    /\ \/ /\ nextDnn = NoNetwork
          /\ nextCrop' = NoCrop
          /\ ChangeToOd
          /\ UNCHANGED nextDnn
       \/ /\ nextDnn # NoNetwork /\ frame.dnn # nextDnn
          /\ Continue(0)
          /\ UNCHANGED <<nextDnn, nextCrop>>
       \/ /\ nextDnn # NoNetwork /\ frame.dnn = nextDnn
          /\ nextDnn' = NoNetwork
          /\ Proceed("SetCrop")
          /\ UNCHANGED nextCrop
       \/ ApiFails /\ UNCHANGED <<nextDnn, nextCrop>>
    /\ UNCHANGED <<device, streaming, traceId, cropSeen, sess, evp>>

\* SetCrop.  Without a crop the frame is given back and the state left as it
\* is, but the iteration goes on: the steps that follow do nothing in this state
\* until MainLoop gives the same frame back once more.  A failure at
\* level FAIL is left to the next state.
DnnIcSetCrop ==
    /\ pc = "SetCrop" /\ state = "kChangingDnnIc"
    /\ \/ /\ nextCrop = NoCrop
          /\ ReleaseFrame(0)
          /\ pc' = "SendSerializedData"
          /\ UNCHANGED <<device, state, fatalError, frame>>
       \/ /\ nextCrop # NoCrop
          /\ \/ DeviceSetCrop(nextCrop) /\ ReleaseFrame(0)
             \/ ReleaseFrame(1) /\ UNCHANGED device
          /\ pc' = "LoopHead"
          /\ state' = NextState[state]
          /\ UNCHANGED <<fatalError, frame>>
       \/ /\ nextCrop # NoCrop /\ faults > 0 /\ Break(1)
          /\ UNCHANGED device
    /\ UNCHANGED <<streaming, appModel, cropSeen, sess, evp>>

-----------------------------------------------------------------------------
(* StateChangingCropIc: wait until frames come with the crop.              *)

CropIcVerifyDnnStream ==
    /\ pc = "VerifyDnnStream" /\ state = "kChangingCropIc"
    /\ \/ dnnStream = icNetwork /\ Proceed("GetChannel") /\ UNCHANGED nextCrop
       \/ dnnStream # icNetwork /\ nextCrop' = NoCrop /\ ChangeToOd
       \/ ApiFails /\ UNCHANGED nextCrop
    /\ UNCHANGED <<device, streaming, nextDnn, traceId, cropSeen, sess, evp>>

CropIcVerifyDnnChannel ==
    /\ pc = "VerifyDnnChannel" /\ state = "kChangingCropIc"
    /\ \/ frame.dnn = icNetwork /\ Proceed("GetCropProperty") /\ UNCHANGED nextCrop
       \/ frame.dnn # icNetwork /\ nextCrop' = NoCrop /\ ChangeToOd
       \/ ApiFails /\ UNCHANGED nextCrop
    /\ UNCHANGED <<device, streaming, nextDnn, traceId, cropSeen, sess, evp>>

\* Mutant: the crop of the stream is taken for the crop of the frame.
VerifyCropOfStream ==
    /\ pc = "VerifyCrop" /\ state = "kChangingCropIc"
    /\ \/ nextCrop # cropSeen /\ Proceed("RetrySetCrop") /\ UNCHANGED nextCrop
       \/ nextCrop = cropSeen /\ nextCrop' = NoCrop /\ Completed("GetRawData")
    /\ UNCHANGED <<device, streaming, nextDnn, traceId, cropSeen, sess, evp>>

\* The stream shows whether the device took the crop, the channel whether the
\* frame was made with it; once it was, the same frame is classified.
CropIcVerifyCrop ==
    /\ pc = "VerifyCrop" /\ state = "kChangingCropIc"
    /\ \/ nextCrop = NoCrop /\ ChangeToOd /\ UNCHANGED nextCrop
       \/ /\ nextCrop # NoCrop /\ nextCrop # cropSeen
          /\ Proceed("RetrySetCrop") /\ UNCHANGED nextCrop
       \/ /\ nextCrop # NoCrop /\ nextCrop = cropSeen /\ nextCrop # frame.crop
          /\ Continue(0) /\ UNCHANGED nextCrop
       \/ /\ nextCrop # NoCrop /\ nextCrop = cropSeen /\ nextCrop = frame.crop
          /\ nextCrop' = NoCrop
          /\ Completed("GetRawData")
    /\ UNCHANGED <<device, streaming, nextDnn, traceId, cropSeen, sess, evp>>

\* The frame is not given back when the retry succeeds.
CropIcRetrySetCrop ==
    /\ pc = "RetrySetCrop" /\ state = "kChangingCropIc"
    /\ \/ nextCrop = NoCrop /\ ChangeToOd /\ UNCHANGED device
       \/ /\ nextCrop # NoCrop
          /\ \/ Proceed("LoopHead") /\ DeviceSetCrop(nextCrop)
             \/ ApiFails /\ UNCHANGED device
    /\ UNCHANGED <<streaming, appModel, cropSeen, sess, evp>>

-----------------------------------------------------------------------------
(* StateIc: classify the cropped image.                                    *)

IcVerifyDnnStream ==
    /\ pc = "VerifyDnnStream" /\ state = "kIc"
    /\ \/ dnnStream = icNetwork /\ Proceed("GetChannel")
       \/ dnnStream # icNetwork /\ ChangeToOd
       \/ ApiFails
    /\ UNCHANGED <<device, streaming, appModel, cropSeen, sess, evp>>

IcVerifyDnnChannel ==
    /\ pc = "VerifyDnnChannel" /\ state = "kIc"
    /\ \/ frame.dnn = icNetwork /\ Proceed("GetRawData")
       \/ frame.dnn # icNetwork /\ ChangeToOd
       \/ ApiFails
    /\ UNCHANGED <<device, streaming, appModel, cropSeen, sess, evp>>

\* Mutant: the classification takes the timestamp of its own frame.
OwnTraceId ==
    /\ pc = "AnalyzeData" /\ state = "kIc"
    /\ traceId' = frame.ts
    /\ Proceed("SerializeData") \/ Continue(0)
    /\ UNCHANGED <<device, streaming, nextDnn, nextCrop, cropSeen, sess, evp>>

\* Mutant: the frame of a failed analysis is forgotten.
AnalyzeForgetsFrame ==
    /\ pc = "AnalyzeData" /\ state = "kIc"
    /\ Proceed("SerializeData") \/ Proceed("LoopHead")
    /\ UNCHANGED <<device, streaming, appModel, cropSeen, sess, evp>>

\* The result takes the trace id that OD left.
IcAnalyzeData ==
    /\ pc = "AnalyzeData" /\ state = "kIc"
    /\ Proceed("SerializeData") \/ Continue(0)
    /\ UNCHANGED <<device, streaming, appModel, cropSeen, sess, evp>>

IcSetDnn == state = "kIc" /\ SetDnnTo(odNetwork)

-----------------------------------------------------------------------------
(* StateChangingDnnOd: wait until frames come from the OD model again; the *)
(* first one that does is analysed at once.                                *)

\* On the stream: the OD model that is not the one asked for means a restart;
\* any other model means that the last attempt to set it failed.
DnnOdVerifyDnnStream ==
    /\ pc = "VerifyDnnStream" /\ state = "kChangingDnnOd"
    /\ \/ nextDnn = NoNetwork /\ ChangeToOd /\ UNCHANGED nextDnn
       \/ /\ nextDnn # NoNetwork /\ dnnStream = nextDnn
          /\ Proceed("GetChannel") /\ UNCHANGED nextDnn
       \/ /\ nextDnn # NoNetwork /\ dnnStream # nextDnn /\ dnnStream = odNetwork
          /\ nextDnn' = NoNetwork
          /\ ChangeToOd
       \/ /\ nextDnn # NoNetwork /\ dnnStream # nextDnn /\ dnnStream # odNetwork
          /\ Proceed("RetrySetDnn") /\ UNCHANGED nextDnn
       \/ ApiFails /\ UNCHANGED nextDnn
    /\ UNCHANGED <<device, streaming, nextCrop, traceId, cropSeen, sess, evp>>

\* Mutant: the stream is trusted, the channel of the frame is not compared.
TrustStream ==
    /\ pc = "VerifyDnnChannel" /\ state = "kChangingDnnOd"
    /\ nextDnn' = NoNetwork
    /\ Completed("GetCropProperty")
    /\ UNCHANGED <<device, streaming, nextCrop, traceId, cropSeen, sess, evp>>

DnnOdVerifyDnnChannel ==
    /\ pc = "VerifyDnnChannel" /\ state = "kChangingDnnOd"
    /\ \/ nextDnn = NoNetwork /\ ChangeToOd /\ UNCHANGED nextDnn
       \/ /\ nextDnn # NoNetwork /\ frame.dnn # nextDnn
          /\ Continue(0) /\ UNCHANGED nextDnn
       \/ /\ nextDnn # NoNetwork /\ frame.dnn = nextDnn
          /\ nextDnn' = NoNetwork
          /\ Completed("GetCropProperty")
       \/ ApiFails /\ UNCHANGED nextDnn
    /\ UNCHANGED <<device, streaming, nextCrop, traceId, cropSeen, sess, evp>>

-----------------------------------------------------------------------------
\* After a fatal error the application only waits for the exit request.
Finalize ==
    /\ pc = "Finalize"
    /\ fatalError => terminated
    /\ pc' = "Done"
    /\ UNCHANGED <<senscordVars, state, fatalError, appModel, cropSeen, sess, evp>>

(* The other threads.                                                      *)

\* The configuration callback reaches AnalyzerOd first and AnalyzerIc later.
\* Each keeps its network id when it cannot read a new one.
ConfigOd ==
    /\ pending = NoConfig /\ ~terminated
    /\ \E config \in Configs :
          /\ pending' = config
          /\ odNetwork' \in {odNetwork, config.od}
    /\ UNCHANGED <<icNetwork, terminated, stopping>>
    /\ UNCHANGED <<senscordVars, pc, state, fatalError, appModel, cropSeen, sess>>

ConfigIc ==
    /\ pending # NoConfig
    /\ icNetwork' \in {icNetwork, pending.ic}
    /\ pending' = NoConfig
    /\ UNCHANGED <<odNetwork, terminated, stopping>>
    /\ UNCHANGED <<senscordVars, pc, state, fatalError, appModel, cropSeen, sess>>

\* EVP_SHOULDEXIT: the flag first, the stream afterwards.
ShouldExit ==
    /\ pending = NoConfig /\ ~terminated
    /\ terminated' = TRUE
    /\ stopping' = TRUE
    /\ UNCHANGED <<odNetwork, icNetwork, pending>>
    /\ UNCHANGED <<senscordVars, pc, state, fatalError, appModel, cropSeen, sess>>

EvpStopStream ==
    /\ stopping
    /\ stopping' = FALSE
    /\ StopStream
    /\ UNCHANGED <<device, frame, frames, odNetwork, icNetwork, pending, terminated>>
    /\ UNCHANGED <<pc, state, fatalError, appModel, cropSeen, sess>>

\* Mutant: one callback is counted twice.
CountTwice ==
    /\ sendCnt > 0
    /\ sendCnt' = sendCnt - 2
    /\ UNCHANGED <<senscordVars, pc, state, fatalError, appModel, cropSeen, lastSent, evp>>

\* SendDataDoneCallback
SendDone ==
    /\ sendCnt > 0
    /\ sendCnt' = sendCnt - 1
    /\ UNCHANGED <<senscordVars, pc, state, fatalError, appModel, cropSeen, lastSent, evp>>

StampsInUse ==
    {pipeline[i].ts : i \in DOMAIN pipeline} \cup frames \cup {traceId, lastSent.trace}
        \cup (IF frame = NoFrame THEN {} ELSE {frame.ts})

DeviceCapture ==
    /\ Capture(StampsInUse)
    /\ UNCHANGED <<pc, state, fatalError, appModel, cropSeen, sess, evp>>

DeviceRestart ==
    /\ Restart
    /\ UNCHANGED <<pc, state, fatalError, appModel, cropSeen, sess, evp>>

-----------------------------------------------------------------------------
MainThread ==
    \/ LoopHead \/ MainGetFrame \/ GetChannel \/ GetCropProperty \/ GetRawData
    \/ SerializeData \/ SendSerializedData \/ WaitSend \/ RetrySetDnn \/ Finalize
    \/ OdVerifyDnnStream \/ OdVerifyDnnChannel \/ OdAnalyzeData \/ OdSaveCrop \/ OdSetDnn
    \/ DnnIcVerifyDnnStream \/ DnnIcVerifyDnnChannel \/ DnnIcSetCrop
    \/ CropIcVerifyDnnStream \/ CropIcVerifyDnnChannel \/ CropIcVerifyCrop
    \/ CropIcRetrySetCrop
    \/ IcVerifyDnnStream \/ IcVerifyDnnChannel \/ IcAnalyzeData \/ IcSetDnn
    \/ DnnOdVerifyDnnStream \/ DnnOdVerifyDnnChannel

EvpThread == ConfigOd \/ ConfigIc \/ ShouldExit \/ EvpStopStream

Terminating == pc = "Done" /\ ~stopping /\ UNCHANGED vars

Next ==
    \/ MainThread \/ EvpThread \/ SendDone
    \/ DeviceCapture \/ DeviceRestart \/ Terminating

Spec == Init /\ [][Next]_vars

\* The threads run, Sess answers every send, and a device that streams delivers
\* frames.  Nobody has to send a configuration or ask the application to exit.
Fairness ==
    /\ WF_vars(MainThread)
    /\ WF_vars(ConfigIc)
    /\ WF_vars(EvpStopStream)
    /\ WF_vars(SendDone)
    /\ WF_vars(DeviceCapture)

FairSpec == Spec /\ Fairness

\* A device that drops the frames under way when inference is restarted.
RestartDrops == DeviceRestart => pipeline' = <<>>
DroppingSpec == Init /\ [][Next /\ RestartDrops]_vars

-----------------------------------------------------------------------------
(* Safety.                                                                 *)

Halted == pc \in {"Finalize", "Done"}

\* The branches the code marks "abnormal" never run: a state that waits for a DNN
\* or a crop always finds the setting it waits for in AppModel, whatever failed
\* and whatever restarted in between.
NoAbnormalSetting ==
    /\ /\ state \in {"kChangingDnnIc", "kChangingDnnOd"}
       /\ pc \in {"VerifyDnnStream", "RetrySetDnn", "VerifyDnnChannel"}
       => nextDnn # NoNetwork
    /\ pc \in {"SetCrop", "VerifyCrop", "RetrySetCrop"} => nextCrop # NoCrop

\* The main loop only works on, and only gives back, a frame that it holds: no
\* path through an iteration releases the same frame twice.
FrameHeld == pc \in FrameSteps => frame # NoFrame /\ frame.ts \in frames

\* Frames the application never gives back are rare: between two iterations it
\* holds at most one for every failure or restart of the device so far.
Holding == IF pc \in FrameSteps THEN 1 ELSE 0
LeakBound == Cardinality(frames) <= (MaxFaults - faults) + Holding

\* A result is being sent only while the main loop waits for it, so the device is
\* never switched, and nothing else is sent, before the callback (unless the
\* application exits).
OneSendAtATime == sendCnt <= 1 /\ (sendCnt > 0 => pc = "WaitSend" \/ Halted)

\* What is classified is what was detected: an IC analysis works on a frame of
\* the crop that the last OD result, which is the one it is linked with, led to.
\* StateIc does not look at the crop again, so this rests on the order of the frames
\* under way, which a restart that does not drop them can break.
IcOnDetection ==
    /\ state = "kIc"
    /\ pc \in {"AnalyzeData", "SerializeData", "SendSerializedData"}
    => /\ lastSent.kind = "OD"
       /\ frame.crop = lastSent.crop

\* Detection always works on a frame of the OD model.
OdOnOdFrame ==
    /\ state = "kOd"
    /\ pc \in {"GetRawData", "AnalyzeData", "SaveCrop"}
    => frame.dnn = odNetwork

\* Detection always works on the whole image ("first AI Model's crop is set by
\* set dnn", app_state.h).
OdOnWholeImage == state = "kOd" /\ pc = "AnalyzeData" => frame.crop = DefaultCrop

\* Every classification carries the trace id of the detection before it.
Link == INSTANCE TraceLink WITH last <- [kind |-> lastSent.kind, trace |-> lastSent.trace]
ResultsLinked == Link!Spec

-----------------------------------------------------------------------------
(* The inductive invariant behind the safety properties.                   *)

\* Which state classes reach which step.
StepInv ==
    /\ pc = "RetrySetDnn" => state \in {"kChangingDnnIc", "kChangingDnnOd"}
    /\ pc = "SetCrop" => state = "kChangingDnnIc"
    /\ pc \in {"VerifyCrop", "RetrySetCrop"} => state = "kChangingCropIc"
    /\ pc = "GetCropProperty" => state \in {"kOd", "kChangingCropIc"}
    /\ pc = "SaveCrop" => state = "kOd"
    /\ pc \in {"GetRawData", "AnalyzeData", "SerializeData", "SendSerializedData",
              "WaitSend", "SetDnn"} => state \in {"kOd", "kIc"}

\* A setting is there from the step that makes it to the step that takes it.
SettingInv ==
    /\ state = "kChangingDnnIc" /\ ~Halted => nextCrop # NoCrop
    /\ state = "kChangingDnnIc" /\ ~Halted /\ pc # "SetCrop" => nextDnn # NoNetwork
    /\ state = "kChangingCropIc" /\ ~Halted => nextCrop # NoCrop
    /\ state = "kChangingDnnOd" /\ ~Halted => nextDnn # NoNetwork
    /\ /\ state = "kOd"
       /\ pc \in {"SerializeData", "SendSerializedData", "WaitSend", "SetDnn"}
       => nextCrop # NoCrop

\* The trace id belongs to the detection that was sent last, from the moment it
\* is sent to the moment its classification is.
LinkInv ==
    /\ state = "kOd" /\ pc \in {"SaveCrop", "SerializeData", "SendSerializedData"}
       => traceId \in Stamps
    /\ \/ state \in {"kChangingDnnIc", "kChangingCropIc"} /\ ~Halted
       \/ state = "kIc" /\ ~Halted /\ pc \notin {"WaitSend", "SetDnn"}
       \/ state = "kOd" /\ pc \in {"WaitSend", "SetDnn"}
       => lastSent.kind = "OD" /\ lastSent.trace = traceId

\* While no configuration names another OD model, the model that is waited for,
\* and then the one that made the frame, is the one detection is configured with.
OdFixed == \A config \in Configs : config.od = InitialConfig.od
OdInv ==
    OdFixed =>
        /\ odNetwork = InitialConfig.od
        /\ state = "kChangingDnnOd" /\ ~Halted => nextDnn = odNetwork
        /\ state = "kOd" /\ pc \in {"GetCropProperty", "GetRawData", "AnalyzeData", "SaveCrop"}
           => frame.dnn = odNetwork

\* A retry forgets a frame, but a failure or a restart has paid for it: the device
\* does not run with, or was seen not to run with, the setting it was given.
RetryDue ==
    \/ pc \in {"RetrySetDnn", "RetrySetCrop"}
    \/ /\ state \in {"kChangingDnnIc", "kChangingDnnOd"}
       /\ pc # "SetCrop" /\ ~Halted
       /\ dnnStream # nextDnn
    \/ /\ state = "kChangingCropIc" /\ ~Halted
       /\ \/ cropStream # nextCrop
          \/ pc = "VerifyCrop" /\ cropSeen # nextCrop

LeakInv ==
    /\ IsFiniteSet(frames)
    /\ Cardinality(frames) + faults + (IF RetryDue THEN 1 ELSE 0) <= MaxFaults + Holding

\* The IC models that may be configured; none of them detects, and none is loaded when
\* inference is restarted.
IcNetworks == {config.ic : config \in Configs}
IcApart ==
    /\ FirstNetwork \notin IcNetworks
    /\ \A config \in Configs : config.od \notin IcNetworks

IsIc(f) == f.dnn \in IcNetworks
StreamIsIc == dnnStream \in IcNetworks
AllIc == \A i \in DOMAIN pipeline : IsIc(pipeline[i])
NoneIc == \A i \in DOMAIN pipeline : ~IsIc(pipeline[i])

\* What is waited for is, in the changing states, of the kind the state says.
KindInv ==
    /\ odNetwork \notin IcNetworks /\ icNetwork \in IcNetworks
    /\ state = "kChangingDnnIc" /\ pc # "SetCrop" /\ ~Halted => nextDnn \in IcNetworks
    /\ state = "kChangingDnnOd" /\ ~Halted => nextDnn \notin IcNetworks

\* The order in which the frames of the two kinds arrive: while detection is wanted
\* the frames of IC models come first, while classification is wanted they come last.
IcFirst == \A i, j \in DOMAIN pipeline : i < j /\ IsIc(pipeline[j]) => IsIc(pipeline[i])
IcLast == \A i, j \in DOMAIN pipeline : i < j /\ IsIc(pipeline[i]) => IsIc(pipeline[j])
InHand == pc \in FrameSteps

OrderInv ==
    /\ state \in {"kOd", "kChangingDnnOd"} /\ ~StreamIsIc /\ ~Halted =>
        IcFirst /\ (InHand /\ ~IsIc(frame) => NoneIc)
    /\ state = "kChangingDnnOd" /\ StreamIsIc /\ ~Halted => AllIc
    /\ state \in {"kOd", "kChangingDnnOd"} /\ pc \in {"GetChannel", "VerifyDnnChannel"}
        => ~StreamIsIc
    /\ state = "kOd" /\ pc \in {"GetCropProperty", "GetRawData", "AnalyzeData", "SaveCrop",
                               "SerializeData", "SendSerializedData", "WaitSend", "SetDnn"}
        => ~StreamIsIc /\ NoneIc
    /\ state = "kChangingDnnIc" /\ ~StreamIsIc /\ ~Halted => NoneIc
    /\ state = "kChangingDnnIc" /\ StreamIsIc /\ ~Halted =>
        IcLast /\ (InHand /\ IsIc(frame) => AllIc)
    /\ pc = "SetCrop" => IsIc(frame)
    /\ state \in {"kChangingCropIc", "kIc"} /\ ~Halted => IF StreamIsIc THEN AllIc ELSE NoneIc

\* The frames of an IC model have the default crop until SetCrop, and those made before
\* SetCrop are delivered before those made after it.
OnCrop(crop) == crop = lastSent.crop
DefaultCrops == \A i \in DOMAIN pipeline : IsIc(pipeline[i]) => pipeline[i].crop = DefaultCrop
AllOnCrop == OnCrop(cropStream) /\ \A i \in DOMAIN pipeline : OnCrop(pipeline[i].crop)
CropLast ==
    \A i \in DOMAIN pipeline : OnCrop(pipeline[i].crop) =>
        OnCrop(cropStream) /\ \A j \in DOMAIN pipeline : i < j => OnCrop(pipeline[j].crop)

CropInv ==
    /\ \/ state \in {"kChangingDnnIc", "kChangingCropIc"} /\ ~Halted
       \/ state = "kOd" /\ pc \in {"WaitSend", "SetDnn"}
       => OnCrop(nextCrop)
    /\ state = "kChangingDnnIc" /\ ~Halted =>
        /\ StreamIsIc => cropStream = DefaultCrop
        /\ DefaultCrops
    /\ state = "kChangingCropIc" /\ StreamIsIc /\ ~Halted =>
        CropLast /\ (InHand /\ OnCrop(frame.crop) => AllOnCrop)
    /\ state = "kIc" /\ ~Halted /\ pc \notin {"WaitSend", "SetDnn"} =>
        /\ StreamIsIc => AllOnCrop
        /\ InHand /\ IsIc(frame) => OnCrop(frame.crop)
        /\ pc \in {"GetRawData", "AnalyzeData", "SerializeData", "SendSerializedData"}
           => OnCrop(frame.crop)

PipelineInv == IcApart => KindInv /\ OrderInv /\ CropInv

IInv == TypeOK /\ StepInv /\ SettingInv /\ FrameHeld /\ OneSendAtATime /\ LinkInv /\ OdInv

-----------------------------------------------------------------------------
(* Liveness.                                                               *)

\* The states that wait for the device are left again once failures stop.
ChangingEnds ==
    \A s \in {"kChangingDnnIc", "kChangingCropIc", "kChangingDnnOd"} :
        state = s ~> state # s \/ Halted

\* An exit request ends the application.
ExitHonoured == terminated ~> pc = "Done"

\* When the device runs neither model in StateIc, the application changes the
\* model to OD.
OdModelRestored ==
    state = "kIc" /\ pc = "VerifyDnnStream" /\ dnnStream \notin {icNetwork, odNetwork}
        ~> dnnStream = odNetwork \/ Halted
=============================================================================
