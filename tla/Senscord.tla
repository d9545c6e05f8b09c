------------------------------ MODULE Senscord ------------------------------
(***************************************************************************)
(* The image sensor as the edge application sees it through SensCord, and  *)
(* SenscordController, the class of the application that wraps the API.    *)
(*                                                                         *)
(* The device itself is not part of the repository: what it promises is    *)
(* read off the way the application uses it and off the mock of the test   *)
(* loader.  It runs one DNN at a time over one crop rectangle of the image *)
(* (the stream properties) and delivers frames first in, first out; the    *)
(* channel properties of a frame say which DNN and which crop produced it, *)
(* so they lag behind the stream properties by the frames under way.       *)
(***************************************************************************)
EXTENDS Naturals, Sequences, FiniteSets

CONSTANTS
    Networks,       \* the network ids of the DNN models
    FirstNetwork,   \* the network the device loads when inference (re)starts
    Crops,          \* crop rectangles, compared by value
    DefaultCrop,    \* the crop the device sets together with a DNN
    Stamps,         \* frame timestamps, reused once nothing refers to them
    NoFrame,        \* the handle before the first frame
    PipelineDepth,  \* bound: frames captured and not yet fetched
    MaxFaults       \* bound: API failures and inference restarts

\* A frame: its timestamp, and its channel properties.
Frames == [ts : Stamps, dnn : Networks, crop : Crops]

ASSUME SenscordAssumption ==
    /\ FirstNetwork \in Networks
    /\ DefaultCrop \in Crops
    /\ PipelineDepth \in Nat \ {0}
    /\ MaxFaults \in Nat
    /\ NoFrame \notin Frames

VARIABLES
    dnnStream,      \* stream property SENSCORD_PROPERTY_KEY_DNN
    cropStream,     \* stream property SENSCORD_PROPERTY_KEY_DEWARP_CROP
    pipeline,       \* frames captured and not yet fetched, oldest first
    streaming,      \* ~stream_stopped_
    frame,          \* DeviceModel::frame_, with its channel properties
    frames,         \* SenscordController::frames_, as a set of timestamps
    faults          \* failures the environment may still inject

device == <<dnnStream, cropStream, pipeline>>
senscordVars == <<dnnStream, cropStream, pipeline, streaming, frame, frames, faults>>

\* (a pipeline longer than PipelineDepth is excluded by the guard of Capture)
SenscordTypeOK ==
    /\ dnnStream \in Networks
    /\ cropStream \in Crops
    /\ pipeline \in Seq(Frames)
    /\ streaming \in BOOLEAN
    /\ frame \in Frames \cup {NoFrame}
    /\ frames \subseteq Stamps
    /\ faults \in 0..MaxFaults

\* The stream as SenscordController::Open leaves it.
SenscordInit ==
    /\ dnnStream = FirstNetwork
    /\ cropStream = DefaultCrop
    /\ pipeline = <<>>
    /\ streaming = TRUE
    /\ frame = NoFrame
    /\ frames = {}
    /\ faults = MaxFaults

-----------------------------------------------------------------------------
(* What happens inside the device, at any time.                            *)

\* The sensor captures a frame with the current DNN and crop.  Its
\* timestamp differs from every one that something still refers to.
Capture(used) ==
    /\ streaming
    /\ Len(pipeline) < PipelineDepth
    /\ \E t \in Stamps \ used :
          pipeline' = Append(pipeline, [ts |-> t, dnn |-> dnnStream, crop |-> cropStream])
    /\ UNCHANGED <<dnnStream, cropStream, streaming, frame, frames, faults>>

\* Somebody stops and starts inference: the DNN and the crop are reset.  Whether the
\* frames under way are still delivered is up to the device.
Restart ==
    /\ streaming
    /\ faults > 0
    /\ faults' = faults - 1
    /\ dnnStream' = FirstNetwork
    /\ cropStream' = DefaultCrop
    /\ pipeline' \in {pipeline, <<>>}
    /\ UNCHANGED <<streaming, frame, frames>>

\* The device takes a new DNN, and with it the default crop.
DeviceSetDnn(network) ==
    /\ dnnStream' = network
    /\ cropStream' = DefaultCrop
    /\ UNCHANGED pipeline

\* The device takes a new crop.
DeviceSetCrop(crop) ==
    /\ cropStream' = crop
    /\ UNCHANGED <<dnnStream, pipeline>>

-----------------------------------------------------------------------------
(* SenscordController                                                      *)

\* GetFrame with its default timeout of -1: it blocks until a frame is there,
\* and a frame that was delivered is remembered in frames_.
GetFrame ==
    /\ pipeline # <<>>
    /\ frame' = Head(pipeline)
    /\ pipeline' = Tail(pipeline)
    /\ frames' = frames \cup {Head(pipeline).ts}
    /\ UNCHANGED <<dnnStream, cropStream, streaming, faults>>

\* ReleaseFrame erases the frame only when the API call succeeds.  "spent"
\* counts the failure, if any, that made the caller release the frame.
ReleaseFrame(spent) ==
    \/ /\ faults >= spent
       /\ frames' = frames \ {frame.ts}
       /\ faults' = faults - spent
    \/ /\ faults > spent
       /\ faults' = faults - spent - 1
       /\ UNCHANGED frames

\* StopStream: a stop that fails leaves the stream running.
StopStream ==
    \/ streaming' = FALSE /\ UNCHANGED faults
    \/ /\ streaming
       /\ faults > 0
       /\ faults' = faults - 1
       /\ UNCHANGED streaming
=============================================================================
