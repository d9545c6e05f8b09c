# A TLA+ model of the AITRIOS vision sensing applications

This directory specifies the edge applications of the SDK: what their threads,
the image sensor and the callbacks of the platform do to each other. TLC checks
the specifications on small instances and TLAPS proves the main results for
every instance.

Paths below are relative to
`tutorials/4_prepare_application/1_develop/`; `switch_od_ic/` stands for
`sdk/sample/vision_app/switch_dnn/switch_od_ic/`.

## The system

An edge application is a Wasm program that runs on the camera. It fetches the
output tensor of the sensor's DNN through the SensCord API, analyses and
serialises it, and hands the result to Sess (the data pipeline). A second
thread serves EVP: it receives the PPL parameter (a configuration) and the
request to exit.

| component | state it keeps | operations | who else touches that state |
|---|---|---|---|
| `AppSequence`, `AppContext`, `State*` (`switch_od_ic/src`) | the state object, `fatal_error_`, `AppModel` (next DNN, next crop, trace id), `DeviceModel` (the frame) | the steps of `MainLoop` | nobody: main thread only |
| `SenscordController` | core, stream, `stream_stopped_`, `frames_` | Open, Close, GetFrame, ReleaseFrame, properties, StopStream | the EVP thread calls StopStream |
| the sensor (external) | DNN and crop of the stream, frames under way | delivers frames; a restart of inference resets DNN and crop | other applications, the console |
| `SessController`, `SyncSend` | `send_cnt_` | SendData, callback | the callback runs on a Sess thread |
| `EvpController`, `EvpThreadController` | `has_param_`, `is_thread_terminated_`, `is_thread_cancel_` | Process, configuration callback | the main thread polls the flags |
| `AnalyzerOd`, `AnalyzerIc` (`sdk/sample/post_process/switch_dnn`) | parameters, `network_id_`, result | ValidateParam, Analyze, Serialize | written by the EVP thread, read by the main thread |
| single-DNN applications (`sdk/sample/vision_app/single_dnn`) | globals `s_stream`, `s_stream_stopped`, `s_is_evp_exit`, parameters | one loop and a clean-up ladder | EVP thread, Sess callback |
| test loader and mock (`testapp/loader`) | a scripted device | the API's functions | a sequential driver |

What is hard here is what the application cannot see happen. The **stream
properties** show at once what was set, but a **frame's channel properties**
show what it was made with, and lag by the frames under way. Setting a DNN or a
crop may fail; inference may be restarted by others at any time, which silently
loads the first DNN; the configuration may change in the middle of a switch; an
exit request may come while the main thread blocks in `GetFrame` or waits for
Sess. `PROJECT.json` lists each such hazard with its line and the property
about it.

## The modules

### `Senscord`

The device and `SenscordController`. `dnnStream` and `cropStream` are the stream
properties, `pipeline` the frames captured and not fetched yet, each a record of
its timestamp and its channel properties; `frame` is `DeviceModel`'s current
frame and `frames` is `frames_`. What the device does when a property is set
comes from the mock (`testapp/loader/mock/dev_mock.cpp`): a new DNN brings the
default crop. `Capture` and `Restart` are the environment; whether a restart of
inference drops the frames under way or still delivers them is left open. Timestamps are
recycled once nothing refers to them, so runs are unbounded although `Stamps` is
small.

### `SwitchDnn`

The switching application. `pc` names the `AppContext` call that `MainLoop` makes
next, and there is one action per such step, so everything else can happen
between any two of them. Where the state classes differ the action is named after
the class (`DnnIcVerifyDnnChannel` is `StateChangingDnnIc::VerifyDnnChannel`);
steps a class inherits as `kNop` do nothing and are skipped. The statuses of
`SequenceStatus` become operators: `Proceed` (kSuccess), `Completed`
(kSuccessCompleted), `Continue`, `Break` (kError, kErrorFatal), `ChangeToOd`.
Two quirks of `MainLoop` are kept on purpose: a retry that succeeds does not give
its frame back, and a `SetCrop` without a crop gives the frame back and goes on
with the iteration.

Other actions: the configuration callback in its two steps (`ConfigOd`,
`ConfigIc`), the exit request in its two steps (`ShouldExit`, `EvpStopStream`),
`SendDone`, `DeviceCapture`, `DeviceRestart`.

Abstractions: a tensor is the frame it came with; an analysis succeeds, finds
nothing or fails; a crop is a value of a small set; serialisation is the trace id
it carries. Memory, logging and sleeping are left out. The steps of the main
thread are atomic: within one, at most one access to shared state matters,
except that the verify steps of the IC states read the two network ids one after
the other.

### `TraceLink`

The promise to whoever reads the results (README of the application: "The Image
Classification inference result, which corresponds to the Object Detection
inference result, has the same trace_id value"): a classification may only follow
a detection and carries its trace id. `ResultsLinked` says that `SwitchDnn`
implements it, with the last result sent as `last`.

### `SingleDnn`

The two single-DNN applications, which differ in the analyzer only. `pc` is the
main thread's next call: the start-up (`StartUp`), the frame loop (`Loop`) and the
labels `unreg` ... `pthread_exit` with the join (`Ladder`); `evpPc` is the EVP
thread's. `held` is what main acquired and did not release, with `"running"` for
a stream that is started, which either thread may end; `refused` remembers what
main failed to release. The globals the threads share without a lock
(`s_is_evp_exit`, `s_stream_stopped`, `s_stream`) are read and written in steps of
their own: the EVP thread checks (`EvpCheck`), stops (`EvpStop`) and notes
(`EvpMark`) in three steps, as main does. A stop of a stream that does not run, or
is closed, may succeed or fail and has no effect.

An analysis produces a buffer or nothing; the buffer is main's (`buffer`), Sess's
or freed. `SendDataDoneCallback` frees what Sess was given and touches nothing
else, so it is no action. The parameters are the subject of `SingleParams`.

### `SessSend` and `SendOnce`

`SessSend` is the component that sends: the memory `SessMalloc` lends (`memory`, one
owner for each buffer), `SyncSend::send_cnt_` (`sendCnt`) and the callback in its two
steps, the `SessFree` (`CallbackFree`) and the count (`CallbackDone`). Sess may call
back before `SendData` has counted the send (the mock of the test loader always
does: `sendCnt` is then -1 for a moment), long after, or never. `SendOnce` is the
abstract send: one result is made, handed over at most once or dropped, and its
memory given back before the next one is made.

### `SwitchLifecycle`

Extends `SessSend` to the life of the switching application: `main`,
`AppSequence::Initialize` with the start of the EVP thread and
`SenscordController::Open`, the main loop as far as it uses what others own (the
frame, the memory), `Finalize`, and the destructor in the order in which it deletes
things, with `SenscordController::Close` and `EvpThreadController::Stop`. What an
iteration decides is left open here; that is `SwitchDnn`'s subject. `held` is what was
acquired and not given back, `refused` what the platform refused, `deleted` the
objects that are gone. The two threads share `stream_`, `stream_stopped_`,
`is_thread_terminated_`, `is_thread_cancel_` and `is_set_parameter` without a common
lock, and every access is a step of its own. What the EVP thread reads of a deleted
object may be anything; what it writes to one is lost.

### `SwitchParams`, `Detections`, `Predictions`

`SwitchParams` follows one configuration through `EvpController::Callback`: the three
validations in turn (`ValidateCommon`, `OdValidateParam`, `IcValidateParam`; the network
id is stored while validating, as in the code), then either the two assignments or
the two clearings. Beside it the main thread takes a frame, verifies its networks,
analyses it, scales the crop and serialises, each a step. Only the assignment of a
parameter and the analysis take the analyzer's lock; `SaveCrop` reads width and
height without it, so each of them may be the old or the new one while the
assignment is under way (`Visible`).

A frame comes to the detection analysis in two ways. `StateOd` compares its network,
and that of the stream, with the configured one. `StateChangingDnnOd`, the state after a
classification, compares both with the network that `StateIc::SetDnn` has recorded
(`nextDnn`), and the frame it lets through is analysed by `StateOd` in the same iteration,
without being compared again. `steady` remembers whether a configuration has come since
the network was read that the frame was compared with.

A configuration is a record of what its JSON text has: a member is absent or a
number, a model is absent or a record. A text that is no JSON object behaves as one
without models. A number is an integer; `Word` is 2^16 and `Byte` 2^8, made small so
that the wrap of `uint16` and `uint8` happens; a score is a multiple of 1/`Unit`.

`Detections` and `Predictions` hold the pure part, as operators: the parts of a
tensor (`createDetectionData`), the loop that pushes what it wants of them on a vector
(`Pushed`), the cut-off at the maximum, the search of the best one, the box in pixels; the stable
sort of the classes by score and the cut-off, where reading behind the vector gives
`Garbage`; and the records of the two messages. The reference definitions they are
checked against (`DetectionsOfConfig`, `PredictionsOfConfig`, `BestIsMarked`) are
written over the tensor itself, without lists or loops.

### `SingleParams`

The same question for the single-DNN applications, where there is no lock at all:
`ConfigurationCallback` writes the static structure member by member (`ParamInit`),
a refused configuration leaves what it has written, and main copies the structure
member by member (`CopyMember`) when it passes it by value. `app` says which of the two
programs it is.

### Instances and proofs

`MCSwitchDnn`, `MCSwitchLifecycle`, `MCSwitchParams` and `MCSingleParams` give the
instances for TLC; `SingleDnn` needs none. The theorems about `SwitchDnn` are in
`SwitchDnn_proofs`, `SwitchLeak_proofs` (lost frames) and `SwitchPipeline_proofs` (the
order of the frames under way); those about `Detections` and `Predictions` in
`Analyzers_proofs`, which `SwitchParams_proofs` and `SingleParams_proofs` build on;
`SwitchLifecycle_proofs` and `SingleDnn_proofs` stand alone.

How the modules fit together: `SwitchDnn` composes the main loop with `Senscord`;
`SwitchLifecycle` composes start, loop and end with `SessSend`; `SwitchParams`
composes the configuration callback with the analysis. They meet in the main loop: a
configuration is a change of the network ids in `SwitchDnn`, a parameter that is set
in `SwitchLifecycle`, and a validated record in `SwitchParams`.

## What the runs check

| run | instance | shows |
|---|---|---|
| `switch_control` | 2 networks, 2 crops, 5 timestamps, 2 frames under way, 1 fault, a configuration that swaps the models | types; `NoAbnormalSetting`, `FrameHeld`, `LeakBound`, `OneSendAtATime`; `ResultsLinked` |
| `switch_input` | 3 networks, 6 timestamps, 3 frames under way, 2 faults, a configuration with another IC model, a device that drops frames on a restart | `IcOnDetection`, `OdOnOdFrame` |
| `switch_live` | 2 networks, 4 timestamps, 1 frame under way, 1 fault | `ChangingEnds`, `ExitHonoured` |
| `switch_whole_image` | 2 networks, 1 fault | finding: OD can run on the crop of the last detection |
| `switch_stuck_in_od` | a configuration with another IC model, no fault | finding: StateOd waits for ever for a model nobody sets |
| `single` | 2 frames under way, 3 failing calls | types; `ReleasesHeld`, `CleanedUp`, `FrameGivenBack`, `LostOnlyIfRefused`, `StoppedBeforeClose`, `NoStopAfterClose`; `ExitHonoured`, `LadderEnds` |
| `single_lost_buffer` | no failing call | finding: a result Sess does not take is never freed |
| `single_join_late` | no failing call | finding: Sess is closed before the EVP thread is joined |
| `lifecycle` | 2 buffers, 3 failing calls | types; `CleanedUp`, `AnalysedWithParam`, `GivenUpOnExit`, `StoppedBeforeClose`; the refinement `SendsOnce`; `ExitEnds`, `FailedStartEnds` |
| `lifecycle_use` | 2 failing calls | finding: the EVP thread uses what the destructor has deleted |
| `switch_params` | 7 configurations, 4 of them refused, 3 pairs of networks, 33 tensors, `Word` 16, `Byte` 4 | types; `OneConfiguration`, `NetworksOfLatest`, `DetectionsOfConfig`, `PredictionsOfConfig`, `BestIsMarked`, `CropInPicture` |
| `single_params` | 4 and 16 configurations, 10 and 37 tensors, `Word` 16, `Byte` 4 | types; `OneConfiguration`, `ReadsInside`, `DetectionsRight`, `PredictionsRight` |

`Steps` of the environment are bounded by two constants only. `MaxFaults` counts
API failures and restarts of inference: one fault in every place, at every
moment, is what the code's error paths are about, and two (in `switch_input`)
allow a restart to follow a failed SetDnn. `PipelineDepth` 2 lets a frame of the old
model, one of the new model with the old crop, and the current one coexist; with 3,
in `switch_input`, a third kind of frame is under way behind those two.
`Stamps` must cover what may refer to a frame at once: the pipeline, the current
frame, the leaked ones, the trace id and the last result. `Stamps` is a symmetry
set in `switch_control` and `switch_input`, which check no liveness.

`IcOnDetection` and `OdOnOdFrame` are about configurations under which "the
frame of the OD model" means something: `switch_input` keeps the OD model fixed
and changes the IC model.

`switch_input` runs under `DroppingSpec`: a restart of inference drops the frames under
way. `IcOnDetection` needs that. `StateIc` looks at the model of a frame but not at its
crop again, so it relies on frames of an earlier classification being gone. With
`Spec`, where a restart may leave them under way, TLC finds the property violated at
`PipelineDepth` 3: after two restarts whose frames were still delivered, a frame that does
not have the crop of the last detection reaches `StateIc` behind one that has. Nothing in the
repository says what the device does with those frames, so this is stated as an
assumption and not as a finding; every other property of `SwitchDnn` is checked and
proved for both kinds of device.

In `SingleDnn` and `SwitchLifecycle` three failing calls allow one in the loop, one of main's stop and
one of the EVP thread's in the same behaviour; the threads loop, so nothing else
needs a bound but the frames under way. Two buffers are one more than the
application ever uses at once, so that a second one being in use would be seen.

The numbers of the two parameter runs are small, but each comparison and each wrap
happens: maxima above what the network delivers, and above `Word`; more detections
than `Byte` (the properties about detections then say nothing: their premise is
`n < Byte`, and a number of detections above 255 is truncated by the code); a
threshold out of range and a missing one; tensors with equal scores, unsorted ones,
other classes, and a detection count beyond the tensor.

Three premises deserve a word. `steady` says that no configuration arrived since the
network was read that a detection frame was compared with. Without it TLC finds the
frame of `StateChangingDnnOd` described above: a configuration with another OD network
comes between `SetDnn` and the frame, which is of the old network and is analysed with the new
parameters. `quiet` says that no configuration arrived since the
frame was taken: without it `CropInPicture` fails, because `SaveCrop` may scale a box
with the width of one configuration and the height of the next, or a box of the old
size by the new one (a box reaching from 6 to 18 in a picture of 16). `torn`
says that a refused configuration has written to the structure of a single-DNN
application: until the next accepted one its members are of two configurations, and
the classification may then read behind its vector. All three are listed as hazards.

`ChangingEnds` is checked with one configuration. With a second one that names another
IC model it holds too, but that needs three networks and takes TLC more than four minutes
for a million states, so the run keeps one, and the hazard of a configuration in
mid-transition is listed as covered by `NoAbnormalSetting` alone.

**Fairness.** `SwitchDnn`'s `FairSpec` assumes that the main thread, the EVP thread once it is
handling an event, and Sess run (weak fairness), and that a stream that is
running delivers frames. Nothing forces a configuration, an exit request, a
failure or a restart. `ExitHonoured` therefore covers the case where
StopStream fails (the next frame lets the loop see the flag) and the one where
Sess is slow (the wait loop looks at the flag). `SingleDnn`'s `FairSpec` is the
same: both threads run, `EVP_processEvent` returns after its timeout at the
latest, and a running stream delivers frames. The failures of `GetFrame`, a timeout
included, are not part of the fair action `Main`, so a blocked `GetFrame` is only
ended by a frame or by a stop. `SwitchLifecycle`'s `FairSpec` assumes the two threads
only: no frame needs to arrive, since an exit request stops the stream and so
cancels `GetFrame`, and Sess need not answer.

### Findings

* `switch_whole_image`: `inc/app_state.h` explains that no state sets the crop
  for OD because setting the DNN resets it. If inference restarts between
  `VerifyDnnChannel` and `SetCrop` of `StateChangingDnnIc`, the crop of the last
  detection is set while the OD model runs, and OD goes on with it.
* `switch_stuck_in_od`: `MainLoop` comments "change model to od" where only the
  state object changes. When a configuration replaces the IC model while the
  device runs the old one, `StateOd` never finds its model and never sets it.

* `single_lost_buffer`: in `README_api_seq.md` each `SessMalloc` is followed by
  `SessFree`. When Sess answers kSessNotStreaming the single-DNN loop goes on and
  forgets the buffer; the switching application frees it there.
* `single_join_late`: `README_api_seq.md` joins the EVP thread before `SessExit`;
  the code calls `SessExit` first.
* `lifecycle_use`: the same sequence against the switching application. Its
  destructor deletes the analyzers and the controllers first and joins the EVP thread
  last. After a start-up that failed, or a wait that was given up, the thread may
  still validate a configuration, or stop the stream, with objects that are gone.

### Where the code departs from its documents

Four properties state what the code does where a document says something else. No run
refutes the documents there; the properties are to be read with this list.

* **Detections are not sorted.** `switch_od_ic/README.md:139` (`AnalyzerOd::Analyze`) and
  `single_dnn/objectdetection/README.md:80` (`PPL_ObjectDetectionSsdAnalyze`) say that the
  output is sorted and cut to `max_detections`. The code takes the first `max_detections`
  in the order of the tensor. `DetectionsOfConfig` and `DetectionsRight` say the latter, of
  every tensor; the two agree when the scores of the tensor fall. `BestIsMarked` claims the
  best bird of the whole tensor only then. Classifications are sorted.
* **An invalid maximum.** `single_dnn/objectdetection/README.md:42` and
  `single_dnn/classification/README.md:40` apply the default value. The code cuts
  `max_detections` and `max_predictions` down to the number of outputs, after the
  conversion to 16 bits. The `OneConfiguration` of `SingleParams` compares with the code's values
  (`SsdParsed`, `ClsParsed`).
* **A missing threshold.** `PPL_ObjectDetectionSsdParamInit` has a branch that refuses a
  configuration without `threshold` (line 257), but the call before it (line 241) drops
  its result, so the branch tests the answer about `max_detections` and a missing threshold
  is read as 0. `SsdParsed` has the 0.
* **A start-up that fails.** `switch_od_ic/README.md:213` says that the sample exits only
  on `EVP_SHOULDEXIT`. When a call of `Initialize` fails, `main` finalizes, deletes and
  returns without it; `FailedStartEnds` says that this comes to its end.

## What is proved

For every value of the constants that satisfies `SenscordAssumption` and
`SwitchDnnAssumption`, from `Spec` (no fairness):

| theorem | statement |
|---|---|
| `TypeCorrect` | `Spec => []TypeOK` |
| `NeverAbnormal` | `Spec => []NoAbnormalSetting` |
| `NoDoubleRelease` | `Spec => []FrameHeld` |
| `SendsOneByOne` | `Spec => []OneSendAtATime` |
| `DetectsOnOdFrames` | `OdFixed` implies `Spec => []OdOnOdFrame` |
| `ClassifiesDetections` | `IcApart` implies `DroppingSpec => []IcOnDetection` |
| `TracesLinked` | `Spec => ResultsLinked`, the refinement of `TraceLink` |
| `LeaksBounded` | `Spec => []LeakBound` |

The argument: `IInv` is inductive (`Initially`, `Step`). No part of it is
inductive alone. `FrameHeld` needs `SettingInv`, because only the crop that is
always there in `StateChangingDnnIc` keeps `SetCrop` off the branch that releases
twice; `SettingInv` needs `StepInv`, which says which state classes reach which
step; the types need `FrameHeld`, because the trace id is read from the frame;
`LinkInv` follows the trace id from the detection that was sent through the two
changing states to the classification. `OdInv` is conditional on configurations
that name one OD model.

`LeakBound` is not inductive either: a retry that succeeds loses a frame and no
failure happens in that step. `LeakInv` adds the missing term, `RetryDue`: while
a retry can happen, the device does not have the setting it was given, and some
earlier failure or restart, not yet matched by a lost frame, is to blame.

`IcOnDetection` speaks of one frame in `StateIc`, and what it rests on is all the frames
before it: `PipelineInv`. It tells frames of IC models from the others (`IcApart`: no IC
model is anybody's OD model, or the one loaded on a restart), and says in which order the
two kinds, and the old and the new crop, stand in the pipeline in each state
(`OrderInv`, `CropInv`). That a frame with the new crop has been seen then means that
every later one has it too, until a restart; and a restart, which a stream property
without the IC model betrays, leaves nothing of the old order behind. `IcApart` holds of
`switch_input`; the frames are any number.

For `SingleDnn`, for every value that satisfies `SingleDnnAssumption`:

| theorem | statement |
|---|---|
| `TypeCorrect` | `Spec => []TypeOK` |
| `LadderHolds` | `Spec => []ReleasesHeld` |
| `EndsClean` | `Spec => []CleanedUp` |
| `FramesReturned` | `Spec => []FrameGivenBack` |
| `BuffersAccounted` | `Spec => []LostOnlyIfRefused` |
| `ClosesStopped` | `Spec => StoppedBeforeClose` |
| `NoLateStop` | `Spec => NoStopAfterClose` |

`CleanedUp` speaks of the end only. The invariant behind it says at every step
what is held (`ReleasesHeld`, `LeftInv`), that the flag never claims a stop that did
not happen (`FlagInv`), that nobody stops what was not marked as started
(`StartInv`), and that past the stop label the flag is set or main's stop was
refused (`StopInv`). The two action properties follow from the same facts.

For `SwitchLifecycle`, for any buffers and any number of failures
(`SessSendAssumption`, `LifecycleAssumption`):

| theorem | statement |
|---|---|
| `TypeCorrect` | `Spec => []TypeOK` |
| `EndsClean` | `Spec => []CleanedUp` |
| `ParameterFirst` | `Spec => []AnalysedWithParam` |
| `AbandonsOnExit` | `Spec => []GivenUpOnExit` |
| `ClosesStopped` | `Spec => StoppedBeforeClose` |
| `SendsOneByOne` | `Spec => SendsOnce`, the refinement of `SendOnce` |

Even the types need the whole argument: that `sendCnt` stays between -1 and 1 follows
from `SendInv`, by which the count is the number of callbacks to come, less the send
that `SendData` has yet to count; and that no more than one buffer is in use, which
the refinement needs as well, follows from the same equation and the wait for it to
reach 0. `StreamInv` says that without `stream_` there is nothing to close, which is
what `Close` relies on when it returns early; the core after a failed `open_stream` is
the exception, and the reason why `CleanedUp` makes one. `FlagInv` says that
`stream_stopped_` is never set while the stream runs, and needs to know where the EVP
thread is while `Open` has not yet cleared the flag. `HeldInv` lists what is gone at
each step of the destructor.

For `SwitchParams`, for every set of configurations of the right shape
(`ParamsAssumption`), any tensors and any word size:

| theorem | statement |
|---|---|
| `TypeCorrect` | `Spec => []TypeOK` |
| `OneConfigurationUsed` | `Spec => []OneConfiguration` |
| `NetworksAreLatest` | `Spec => []NetworksOfLatest` |
| `DetectionsAreOfConfig` | `ClassesFit` implies `Spec => []DetectionsOfConfig` |
| `PredictionsAreOfConfig` | `Spec => []PredictionsOfConfig` |
| `BestIsAlwaysMarked` | `Spec => []BestIsMarked` |
| `CropStaysInside` | `BoxesInside` and `SizesPositive` imply `Spec => []CropInPicture` |

`Progress` bounds the number of refusals by the step of the callback, and `Validated`
says that, as long as nobody has refused, what each analyzer keeps is what the
configuration says; so the assignments take over the whole of it.

The other four rest on `MainInv` (`FrameInvariance`): it follows a frame through the
steps of the main thread and says what was verified of it (that it is of the network
`StateOd` has read, or of the one `StateIc` has recorded), that the detections are those
which *some* parameters ask for, and the ones in force if nothing has changed (`quiet`),
that the crop is made from the marked box, and that the message says what was computed.
The hypotheses are what the code takes for granted of tensors and configurations:
`ClassesFit` (class numbers that a `uint8_t` holds; otherwise a cast that wraps makes class
271 a bird, class 15), `BoxesInside` (coordinates between 0 and 1) and `SizesPositive` (an
input tensor with an area; the validation does not ask for it). TLC evaluates them on the
instance of `switch_params` (`MCInputs`). `BestIsAlwaysMarked` needs none.

What a message contains is proved of the operators first, in `Analyzers_proofs`, for
tensors of every length:

| theorem | statement |
|---|---|
| `BestPredictions` | the stable sort and the cut-off list the best classes, no class twice, the lower index first among equals |
| `FirstWanted` | the loop and the cut-off keep the first wanted detections, in their order |
| `OneMarked` | exactly one detection of a message is marked, the first best, and its box is the one the crop is made from |

These look like inductions over the tensor, and would be, with the loops read as
recursion. They are not: the sort is a function that counts how many elements are to come
before each, an injection of the indices into themselves, and an injection of a finite
set into one of its own size is a bijection (`AllPlacesTaken`, `SortedIs`). The vector of
the loop is guessed (the k-th wanted element at place k) and shown to satisfy the same
equation; two solutions of it cannot differ, as there would be a first place where they
do (`LoopIsUnique`, `PushedIs`). Falling scores are a least counterexample, too
(`FallingScores`). The arithmetic of the crop is that rounding down twice gives no more
than rounding down once (`DivAdds`, `ScaledInside`).

For `SingleParams`, for every set of configurations of the right shape and any initial
parameters of the right type (`SingleParamsAssumption`):

| theorem | statement |
|---|---|
| `TypeCorrect` | `Spec => []TypeOK` |
| `ConfigurationWhole` | `Spec => []OneConfiguration` |
| `ReadsStayInside` | `Spec => []ReadsInside` |
| `PredictionsAreRight` | `Spec => []PredictionsRight` |
| `DetectionsAreRight` | `Spec => []DetectionsRight` |

`OneConfiguration` says nothing while the callback writes, so it is not inductive:
`Prefix` says that the members written so far are those of the configuration. It holds
because the bound of a maximum is written before the maximum it bounds
(`SsdWritesParsed`, `ClsWritesParsed`), and with the last member it is the whole
configuration (`AllMembers`).

The other three follow one call: `Copied` says that a copy made while nothing was written
and nothing was torn is of one configuration, so its maximum is within the number of
classes (the initial parameters must satisfy that as well, and those of the code, at
most 5 of 18 classes, do: `SingleParamsAssumption`), and `Computed` that the message is
what the analyzer makes of the tensor and the copy.

Only model-checked: the liveness properties `ChangingEnds`, `ExitHonoured`, `LadderEnds`,
`ExitEnds` and `FailedStartEnds`, since fairness and ENABLED are outside the reach of the
prover; and the findings. Every safety property of a passing run is a theorem.

## Not modelled

* The build and deployment scripts and the notebooks: they have no state to speak of.
* The vendored headers and libraries, and the generated FlatBuffers code: a message is
  the record of its fields; how it is laid out in bytes is the library's.
* The test loader around the mock: it calls the application's functions one after the
  other. The mock itself is used as the reference for the device and for Sess.
* The C++ heap and logging. In particular that `SaveCrop` does not delete a crop it
  rejects is not visible here.
* Casts that C++ leaves undefined (a negative float, an infinite ratio after an input
  size of 0): the instances stay clear of them, and the hazards list names them.
* JSON syntax: parson is external, a text is the record of what it has.

## Plan

1. `Senscord`, `SwitchDnn`, `TraceLink` and their proofs: done.
2. `SessSend`, `SendOnce`, `SwitchLifecycle` and their proofs: done.
3. `SingleDnn` and its proofs: done.
4. `SwitchParams`, `Detections`, `Predictions` and their proofs: done.
5. `SingleParams` and its proofs: done.
6. `IcOnDetection`, with an invariant on the pipeline: done, for a device that drops the
   frames under way.
