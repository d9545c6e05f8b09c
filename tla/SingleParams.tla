---------------------------- MODULE SingleParams ----------------------------
(***************************************************************************)
(* The parameters of the single-DNN applications and what they compute     *)
(* under them.  ConfigurationCallback, on the EVP thread, writes straight  *)
(* into the static structure, member after member, until a member is       *)
(* missing; the main thread copies the structure when it calls the         *)
(* analysis.  There is no lock: both go on in steps of one member.         *)
(*                                                                         *)
(* One behaviour is that of one application, "od" or "cls".                *)
(***************************************************************************)
EXTENDS Detections, Predictions

CONSTANTS
    SsdConfigs, SsdTensors,     \* what may reach the detection application
    ClsConfigs, ClsTensors,     \* what may reach the classification application
    Absent,                     \* a member the JSON text does not have
    None,                       \* nothing yet
    Word,                       \* uint16_t wraps here: 65536 in the code
    s_ssd_param, s_cls_param,   \* the initial values of the static structures
    PPL_DEFAULT_THRESHOLD

SsdParams == [dnn_output_detections : 0..Word - 1, max_detections : 0..Word - 1,
              threshold : 0..Unit, input_width : 0..Word - 1, input_height : 0..Word - 1]
ClsParams == [dnn_output_classes : 0..Word - 1, max_predictions : 0..Word - 1]

\* The JSON texts that say something of each member, or do not have it.
Texts(members) == [members -> Int \cup {Absent}]

ASSUME SingleParamsAssumption ==
    /\ Word \in Nat \ {0}
    /\ PPL_DEFAULT_THRESHOLD \in 0..Unit
    /\ Absent \notin Int
    /\ SsdConfigs \subseteq Texts({"dnn_output_detections", "max_detections", "threshold",
                                   "input_width", "input_height"})
    /\ ClsConfigs \subseteq Texts({"dnn_output_classes", "max_predictions"})
    /\ None \notin SsdConfigs \cup ClsConfigs
    /\ s_ssd_param \in SsdParams /\ s_cls_param \in ClsParams
    /\ s_cls_param.max_predictions <= s_cls_param.dnn_output_classes
    /\ SsdTensors \subseteq Seq(Int) /\ ClsTensors \subseteq Seq(Int)

VARIABLES
    app,        \* which application this is
    param,      \* its static structure
    evpPc,      \* 0, or the place of the member the callback looks at next
    config,     \* the configuration it works on
    pc,         \* the main thread
    copied,     \* the members copied so far
    copy,       \* the parameter of the call
    tensor,     \* the tensor of the call
    output,     \* the message
    inForce,    \* history: the configuration accepted last
    torn,       \* history: a refused configuration has written since
    quiet       \* history: the copied structure was whole and nobody wrote to it meanwhile

evpVars == <<evpPc, config, param, inForce, torn>>
mainVars == <<pc, copied, copy, tensor, output>>
vars == <<app, evpVars, mainVars, quiet>>

\* The members in the order in which ParamInit writes them.
SsdMembers == <<"dnn_output_detections", "max_detections", "threshold",
                "input_width", "input_height">>

ClsMembers == <<"dnn_output_classes", "max_predictions">>

Members == IF app = "od" THEN SsdMembers ELSE ClsMembers

Configs == IF app = "od" THEN SsdConfigs ELSE ClsConfigs

uint16(v) == v % Word

\* Mutant: the range of the threshold is not checked.
SsdAnyThreshold(f, v, p) ==
    CASE f = "max_detections" -> Least(uint16(v), p.dnn_output_detections)
      [] f = "threshold" /\ v = Absent -> 0
      [] OTHER -> uint16(v)

\* What PPL_ObjectDetectionSsdParamInit writes for the value v of member f.  The
\* presence of the threshold is asked for and the answer dropped; json_object_get_number
\* gives 0 for a number that is not there.
SsdValue(f, v, p) ==
    CASE f = "max_detections" -> Least(uint16(v), p.dnn_output_detections)
      [] f = "threshold" /\ v = Absent -> 0
      [] f = "threshold" /\ v # Absent /\ v \notin 0..Unit -> PPL_DEFAULT_THRESHOLD
      [] f = "threshold" /\ v # Absent /\ v \in 0..Unit -> v
      [] OTHER -> uint16(v)

\* Mutant: the maximum is not bounded by the number of classes.
ClsUnclamped(f, v, p) == uint16(v)

\* What PPL_ClassificationParamInit writes for the value v of member f.
ClsValue(f, v, p) ==
    IF f = "max_predictions" THEN Least(uint16(v), p.dnn_output_classes) ELSE uint16(v)

Written(f, v, p) == IF app = "od" THEN SsdValue(f, v, p) ELSE ClsValue(f, v, p)

\* ParamInit gives up at this member.
Refused(f, v) == v = Absent /\ f # "threshold"

-----------------------------------------------------------------------------

TypeOK ==
    /\ app \in {"od", "cls"}
    /\ param \in (IF app = "od" THEN SsdParams ELSE ClsParams)
    /\ evpPc \in 0..Len(Members)
    /\ config \in Configs \cup {None}
    /\ pc \in {"Frame", "Copy", "Analyze", "Sent"}
    /\ copied \subseteq {Members[i] : i \in DOMAIN Members}
    /\ copy \in (IF app = "od" THEN SsdParams ELSE ClsParams) \cup {None}
    /\ inForce \in Configs \cup {None}
    /\ torn \in BOOLEAN
    /\ quiet \in BOOLEAN

Init ==
    /\ app \in {"od", "cls"}
    /\ param = IF app = "od" THEN s_ssd_param ELSE s_cls_param
    /\ evpPc = 0 /\ config = None
    /\ pc = "Frame" /\ copied = {} /\ copy = None /\ tensor = <<>> /\ output = None
    /\ inForce = None /\ torn = FALSE /\ quiet = FALSE

-----------------------------------------------------------------------------
(* ConfigurationCallback.  What is empty or no JSON object changes nothing. *)

ConfigurationCallback ==
    /\ evpPc = 0
    /\ evpPc' = 1
    /\ config' \in Configs
    /\ UNCHANGED <<app, param, inForce, torn, mainVars, quiet>>

\* Mutant: the last member is looked at but not written.
LastNotWritten ==
    /\ evpPc > 0
    /\ LET f == Members[evpPc] IN
       \/ /\ Refused(f, config[f])
          /\ evpPc' = 0 /\ config' = None
          /\ torn' = (torn \/ evpPc > 1)
          /\ UNCHANGED <<param, inForce, quiet>>
       \/ /\ ~Refused(f, config[f])
          /\ quiet' = (quiet /\ pc # "Copy")
          /\ \/ /\ evpPc < Len(Members) /\ evpPc' = evpPc + 1
                /\ param' = [param EXCEPT ![f] = Written(f, config[f], param)]
                /\ UNCHANGED <<config, inForce, torn>>
             \/ /\ evpPc = Len(Members) /\ evpPc' = 0
                /\ config' = None /\ inForce' = config /\ torn' = FALSE
                /\ UNCHANGED param
    /\ UNCHANGED <<app, mainVars>>

\* ParamInit looks at the next member.  A configuration refused at its first member
\* has written nothing.
ParamInit ==
    /\ evpPc > 0
    /\ LET f == Members[evpPc] IN
       \/ /\ Refused(f, config[f])
          /\ evpPc' = 0 /\ config' = None
          /\ torn' = (torn \/ evpPc > 1)
          /\ UNCHANGED <<param, inForce, quiet>>
       \/ /\ ~Refused(f, config[f])
          /\ param' = [param EXCEPT ![f] = Written(f, config[f], param)]
          /\ quiet' = (quiet /\ pc # "Copy")
          /\ \/ /\ evpPc < Len(Members) /\ evpPc' = evpPc + 1
                /\ UNCHANGED <<config, inForce, torn>>
             \/ /\ evpPc = Len(Members) /\ evpPc' = 0
                /\ config' = None /\ inForce' = config /\ torn' = FALSE
    /\ UNCHANGED <<app, mainVars>>

-----------------------------------------------------------------------------
(* The main thread: one call of the analysis for each frame.               *)

GetRawData ==
    /\ pc = "Frame" /\ pc' = "Copy"
    /\ copy' = param        \* each member is read again by CopyMember
    /\ quiet' = (evpPc <= 1 /\ ~torn)
    /\ UNCHANGED <<app, evpVars, copied, tensor, output>>

\* The structure is passed by value; the order of its members is not fixed.
CopyMember ==
    /\ pc = "Copy"
    /\ \E f \in {Members[i] : i \in DOMAIN Members} \ copied :
         /\ copy' = [copy EXCEPT ![f] = param[f]]
         /\ copied' = copied \cup {f}
         /\ pc' = IF Cardinality(copied') = Len(Members) THEN "Analyze" ELSE "Copy"
    /\ UNCHANGED <<app, evpVars, tensor, output, quiet>>

\* Mutant: the classes and the scores of the tensor are taken for each other.
SsdScoresFirst(t, n) == ScoresFirst(t, n)

createObjectDetectionSsdData(t, n) == createDetectionData(t, n)

\* All classes are kept and none is marked.
analyzeObjectDetectionSsdOutput(out, p) ==
    LET n == out.num_of_detections
        likely == {i \in 1..n : out.detections[i].score >= p.threshold}
        kept == Truncated(Pushed(out.detections, n, likely), p.max_detections)
    IN [i \in DOMAIN kept |->
           [rect |-> Rect(kept[i], p.input_width, p.input_height), score |-> kept[i].score,
            class |-> uint8(kept[i].class), is_used_for_cropping |-> FALSE]]

\* The rest repeats what the switching application does.
SsdMessage(data) == createSSDOutputFlatbuffer(data)

ClsItems(t, max) == analyzeClassificationOutput(t, max)

ClsMessage(items) == createClassificationFlatbuffer(items)

Finish(t, message) ==
    /\ pc' = "Sent"
    /\ tensor' = t
    /\ output' = message
    /\ UNCHANGED <<app, evpVars, copied, copy, quiet>>

\* The frame is given back without a result: the tensor has another size, or there is
\* no memory for the message.
Skip ==
    /\ pc' = "Frame"
    /\ copied' = {} /\ copy' = None /\ tensor' = <<>> /\ output' = None /\ quiet' = FALSE
    /\ UNCHANGED <<app, evpVars>>

\* Only here it matters which tensor the frame has.
PPL_ObjectDetectionSsdAnalyze ==
    /\ app = "od" /\ pc = "Analyze"
    /\ \/ \E t \in SsdTensors :
             /\ Len(t) = DNN_OUTPUT_TENSOR_SIZE(copy.dnn_output_detections)
             /\ Finish(t, SsdMessage(analyzeObjectDetectionSsdOutput(
                    createObjectDetectionSsdData(t, copy.dnn_output_detections), copy)))
       \/ Skip

PPL_ClassificationAnalyze ==
    /\ app = "cls" /\ pc = "Analyze"
    /\ \/ \E t \in ClsTensors :
             /\ Len(t) = copy.dnn_output_classes
             /\ Finish(t, ClsMessage(ClsItems(t, copy.max_predictions)))
       \/ Skip

Sent == pc = "Sent" /\ Skip

Next ==
    \/ ConfigurationCallback \/ ParamInit
    \/ GetRawData \/ CopyMember
    \/ PPL_ObjectDetectionSsdAnalyze \/ PPL_ClassificationAnalyze \/ Sent

Spec == Init /\ [][Next]_vars

-----------------------------------------------------------------------------
(* Safety.                                                                 *)

SsdParsed(c) ==
    [dnn_output_detections |-> uint16(c.dnn_output_detections),
     max_detections |-> Least(uint16(c.max_detections), uint16(c.dnn_output_detections)),
     threshold |-> IF c.threshold = Absent THEN 0
                   ELSE IF c.threshold \in 0..Unit THEN c.threshold ELSE PPL_DEFAULT_THRESHOLD,
     input_width |-> uint16(c.input_width),
     input_height |-> uint16(c.input_height)]

ClsParsed(c) ==
    [dnn_output_classes |-> uint16(c.dnn_output_classes),
     max_predictions |-> Least(uint16(c.max_predictions), uint16(c.dnn_output_classes))]

\* Between two configurations an application works under one whole configuration, the
\* one accepted last, or under the initial values, unless a refused one has written
\* meanwhile: what a refused configuration has written is not undone.
\*
\* The values (SsdParsed, ClsParsed) are the code's, and in two places not the ones the
\* documents give.  A maximum above the number of outputs becomes that number, where the
\* READMEs of both applications have the default value applied.  And a threshold that is
\* missing becomes 0: the code has a branch that refuses such a configuration, but it
\* tests the result of the question for max_detections once more.
OneConfiguration ==
    evpPc <= 1 /\ ~torn =>
        param = IF app = "od"
                THEN IF inForce = None THEN s_ssd_param ELSE SsdParsed(inForce)
                ELSE IF inForce = None THEN s_cls_param ELSE ClsParsed(inForce)

\* A classification lists nothing from behind the scores, unless the call caught a
\* configuration half written or a refused one has left the number of classes of one
\* configuration with the number of predictions of another.
ReadsInside ==
    app = "cls" /\ pc = "Sent" /\ quiet => \A k \in DOMAIN output : output[k] # Garbage

\* A detection message holds, for a whole configuration, the first likely detections
\* of the tensor, each with its class and its box.  (The README of the application has
\* the detections sorted before they are cut.  The code sorts nothing: on a tensor whose
\* scores do not fall, a better detection behind the first ones is not listed.)
DetectionsRight ==
    LET n == copy.dnn_output_detections
        t == tensor
        likely == {i \in 1..Least(n, uint8(t[6*n + 1])) : t[5*n + i] >= copy.threshold}
        Object(i) == GeneralObject(uint8(t[4*n + i]),
            [xmin |-> Pixel(t[n + i], copy.input_width), ymin |-> Pixel(t[i], copy.input_height),
             xmax |-> Pixel(t[3*n + i], copy.input_width),
             ymax |-> Pixel(t[2*n + i], copy.input_height)], t[5*n + i], FALSE)
    IN app = "od" /\ pc = "Sent" /\ n < Byte =>
        /\ Len(output) = Least(Cardinality(likely), copy.max_detections)
        /\ \A i \in likely : LET k == Cardinality({j \in likely : j <= i}) IN
             k <= Len(output) => output[k] = Object(i)

\* A classification lists the best classes, no class twice, by falling score, the
\* lower index first among equals.
PredictionsRight ==
    app = "cls" /\ pc = "Sent" /\ quiet =>
        LET listed == {output[k].class_id + 1 : k \in DOMAIN output} IN
        /\ Cardinality(listed) = Len(output)
        /\ Len(output) = copy.max_predictions
        /\ \A k \in DOMAIN output : output[k].score = tensor[output[k].class_id + 1]
        /\ \A k \in 1..Len(output) - 1 :
             \/ output[k].score > output[k+1].score
             \/ output[k].score = output[k+1].score /\ output[k].class_id < output[k+1].class_id
        /\ \A i \in DOMAIN tensor \ listed, j \in listed : tensor[i] <= tensor[j]
=============================================================================
