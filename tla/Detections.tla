----------------------------- MODULE Detections -----------------------------
(***************************************************************************)
(* What the detection analyzers compute from an output tensor, as          *)
(* operators: AnalyzerOd of the switching application, whose decoding the  *)
(* single-DNN application repeats.                                         *)
(*                                                                         *)
(* A tensor is a sequence of numbers: four runs of box coordinates, a run  *)
(* of classes, a run of scores and the number of detections.  Coordinates, *)
(* scores and thresholds count in steps of 1/Unit; the conversions to      *)
(* uint8_t wrap at Byte, which is 256 in the code.                         *)
(***************************************************************************)
EXTENDS Integers, Sequences

CONSTANTS Byte, Unit, BirdClass

ASSUME DetectionsAssumption ==
    Byte \in Nat \ {0} /\ Unit \in Nat \ {0} /\ BirdClass \in 0..Byte - 1

Least(a, b) == IF a <= b THEN a ELSE b

uint8(v) == v % Byte

DNN_OUTPUT_TENSOR_SIZE(n) == 4*n + n + n + 1

Detection(y1, x1, y2, x2, class, score) ==
    [y_min |-> y1, x_min |-> x1, y_max |-> y2, x_max |-> x2, class |-> class, score |-> score]

\* Mutant: the scores are taken to come before the classes.
ScoresFirst(t, n) ==
    LET total == uint8(n) IN
    [num_of_detections |-> Least(uint8(t[6*total + 1]), total),
     detections |-> [i \in 1..total |->
         Detection(t[i], t[total + i], t[2*total + i], t[3*total + i],
                   t[5*total + i], t[4*total + i])]]

\* The tensor has DNN_OUTPUT_TENSOR_SIZE(n) numbers, but the runs are taken to be
\* as long as n is in a uint8_t.
createDetectionData(t, n) ==
    LET total == uint8(n) IN
    [num_of_detections |-> Least(uint8(t[6*total + 1]), total),
     detections |-> [i \in 1..total |->
         Detection(t[i], t[total + i], t[2*total + i], t[3*total + i],
                   t[4*total + i], t[5*total + i])]]

\* round(k * (size - 1)), with k counted in steps of 1/Unit.
Pixel(k, size) == (2 * k * (size - 1) + Unit) \div (2 * Unit)

Rect(d, width, height) ==
    [xmin |-> Pixel(d.x_min, width), ymin |-> Pixel(d.y_min, height),
     xmax |-> Pixel(d.x_max, width), ymax |-> Pixel(d.y_max, height)]

\* The loop over the first n elements of s that puts those it keeps on a vector.
Pushed(s, n, kept) ==
    LET vector[i \in 0..n] ==
            IF i = 0 THEN <<>>
            ELSE IF i \in kept THEN Append(vector[i - 1], s[i]) ELSE vector[i - 1]
    IN vector[n]

Truncated(s, max) == SubSeq(s, 1, Least(Len(s), max))

IsBird(d) == uint8(d.class) = BirdClass

\* The detections the switching application keeps, in the order of the tensor.
KeptDetections(out, p) ==
    LET n == out.num_of_detections
        birds == {i \in 1..n : IsBird(out.detections[i])
                                /\ out.detections[i].score >= p.threshold_}
    IN Truncated(Pushed(out.detections, n, birds), p.max_detections_)

\* Mutant: a later detection of the same score replaces the one found.
LastHighest(s) ==
    CHOOSE i \in DOMAIN s : \A j \in DOMAIN s :
        s[j].score <= s[i].score /\ (j > i => s[j].score < s[i].score)

HighestScoreIndex(s) ==
    CHOOSE i \in DOMAIN s : \A j \in DOMAIN s :
        s[j].score <= s[i].score /\ (j < i => s[j].score < s[i].score)

analyzeDetectionOutput(out, p) ==
    LET kept == KeptDetections(out, p) IN
    [i \in DOMAIN kept |->
        [rect |-> Rect(kept[i], p.input_width_, p.input_height_),
         score |-> kept[i].score,
         class |-> uint8(kept[i].class),
         is_used_for_cropping |-> i = HighestScoreIndex(kept)]]

\* The message of one detection.
GeneralObject(class, rect, score, used) ==
    [class_id |-> class,
     bounding_box |-> [left |-> rect.xmin, top |-> rect.ymin,
                       right |-> rect.xmax, bottom |-> rect.ymax],
     score |-> score,
     is_used_for_cropping |-> used]

createSSDOutputFlatbuffer(data) ==
    [i \in DOMAIN data |->
        GeneralObject(data[i].class, data[i].rect, data[i].score, data[i].is_used_for_cropping)]
=============================================================================
