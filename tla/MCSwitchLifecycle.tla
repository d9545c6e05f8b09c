------------------------ MODULE MCSwitchLifecycle ------------------------
(* The instance of SwitchLifecycle that TLC checks. *)
EXTENDS SwitchLifecycle, TLC

CONSTANTS buf1, buf2

BufferSymmetry == Permutations(Buffers)
=============================================================================
