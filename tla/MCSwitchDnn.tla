---------------------------- MODULE MCSwitchDnn ----------------------------
(* The instances of SwitchDnn that TLC checks. *)
EXTENDS SwitchDnn, TLC

CONSTANTS netA, netB, netC, full, box, t1, t2, t3, t4, t5, t6

\* The OD and IC networks of the configuration the application starts with.
ConfigAB == [od |-> netA, ic |-> netB]
\* A later configuration replaces the IC network.
ConfigAC == [od |-> netA, ic |-> netC]

OneConfig == {ConfigAB}
OtherIc == {ConfigAB, ConfigAC}
\* A configuration that swaps the two.
ConfigBA == [od |-> netB, ic |-> netA]
SwapConfig == {ConfigAB, ConfigBA}
StampSymmetry == Permutations(Stamps)
=============================================================================
