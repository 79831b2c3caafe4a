---------------------------- MODULE MCLabRuntime ----------------------------
(* Small instances of LabRuntime for TLC. *)
EXTENDS LabRuntime, TLC

WorkerSymmetry == Permutations(Workers) \cup Permutations(Codes)

=============================================================================
