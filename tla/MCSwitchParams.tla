--------------------------- MODULE MCSwitchParams ---------------------------
(* Configurations, frames and tensors for SwitchParams. *)
EXTENDS SwitchParams

OdModel(id, n, max, threshold, size) ==
    [network_id |-> id,
     param |-> [dnn_output_detections |-> n, max_detections |-> max, threshold |-> threshold,
                input_width |-> size, input_height |-> size + 2]]

IcModel(id, classes, max) ==
    [network_id |-> id, param |-> [dnn_output_classes |-> classes, max_predictions |-> max]]

MCConfigs ==
    { \* two networks of two detections; the second clamps both maxima
      [header |-> "good", od |-> OdModel(1, 2, 1, 1, 9), ic |-> IcModel(2, 3, 2)],
      [header |-> "absent", od |-> OdModel(3, 2, 3, 0, 5), ic |-> IcModel(4, 2, 3)],
      \* the first network again, with a smaller tensor and more detections than a byte
      [header |-> "notObject", od |-> OdModel(1, 5, 18, 2, 3), ic |-> IcModel(2, 3, 3)],
      \* refused: by the header, by the threshold, by a missing member
      [header |-> "wrong", od |-> OdModel(3, 2, 2, 1, 9), ic |-> IcModel(4, 3, 1)],
      [header |-> "good", od |-> OdModel(1, 2, 1, 5, 5), ic |-> IcModel(4, 2, 2)],
      [header |-> "good", od |-> OdModel(3, 2, 2, 0, 5), ic |-> IcModel(2, Absent, 2)],
      [header |-> "good", od |-> OdModel(0, 2, 2, 0, 5), ic |-> Absent] }

\* Detections in the first, the second, ... place, each a box, a class and a score.
Tensor(ds, number) ==
    LET n == Len(ds)
        Run(f) == [i \in 1..n |-> ds[i][f]]
    IN Run(1) \o Run(2) \o Run(3) \o Run(4) \o Run(5) \o Run(6) \o <<number>>

MCTensors ==
    { Tensor(<< <<0, 0, 4, 4, c1, s[1]>>, <<1, 1, 4, 3, c2, s[2]>> >>, number) :
        c1 \in {1, 2}, c2 \in {1, 2}, s \in {<<0, 0>>, <<2, 2>>, <<1, 2>>, <<2, 1>>},
        number \in {1, 3} }
    \cup { Tensor([i \in 1..5 |-> <<0, 1, 2, 4, 1, 3>>], 5) }

Network == {<<1, 1>>, <<1, 3>>, <<3, 3>>}

MCOdFrames ==
    { [stream |-> n[1], network |-> n[2], tensor |-> t, crop |-> [width |-> 16, height |-> 12]] :
        n \in Network, t \in MCTensors }

MCIcFrames ==
    { [stream |-> n[1] + 1, network |-> n[2] + 1, tensor |-> t] :
        n \in Network, t \in {<<1, 2>>, <<2, 2>>, <<0, 2, 2>>, <<1, 2, 3>>} }

\* The instance is what the code takes for granted, and what the theorems assume.
ASSUME MCInputs == ClassesFit /\ BoxesInside /\ SizesPositive
=============================================================================
