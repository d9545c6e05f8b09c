--------------------------- MODULE MCSingleParams ---------------------------
(* Configurations and tensors for SingleParams. *)
EXTENDS SingleParams

Ssd(n, max, threshold, w, h) ==
    [dnn_output_detections |-> n, max_detections |-> max, threshold |-> threshold,
     input_width |-> w, input_height |-> h]

MCSsdParam == Ssd(2, 2, 1, 5, 5)

MCSsdConfigs ==
    { Ssd(2, 1, 2, 9, 7), Ssd(2, 18, Absent, 3, 3), Ssd(5, 1, 6, 9, 9),
      Ssd(3, 3, 0, Absent, 9) }

Cls(n, max) == [dnn_output_classes |-> n, max_predictions |-> max]

MCClsParam == Cls(3, 2)

MCClsConfigs == { Cls(n, max) : n \in {2, 3, 4, Absent}, max \in {0, 3, 19, Absent} }

\* Detections in the first, the second, ... place, each a box, a class and a score.
Tensor(ds, number) ==
    LET n == Len(ds)
        Run(f) == [i \in 1..n |-> ds[i][f]]
    IN Run(1) \o Run(2) \o Run(3) \o Run(4) \o Run(5) \o Run(6) \o <<number>>

MCSsdTensors ==
    { Tensor(<< <<0, 0, 4, 3, 1, s1>>, <<1, 2, 3, 4, 5, s2>> >>, number) :
        s1 \in {0, 2}, s2 \in {1, 2}, number \in {1, 3} }
    \cup { Tensor([i \in 1..n |-> <<0, 1, 2, 4, i, 3>>], n) : n \in {3, 5} }

MCClsTensors == UNION { [1..n -> 0..2] : n \in 2..3 } \cup { <<0, 2, 1, 2>> }
=============================================================================
