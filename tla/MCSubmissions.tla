--------------------------- MODULE MCSubmissions ----------------------------
(* Small instances of Submissions for TLC. *)
EXTENDS Submissions, TLC

Fail == [score |-> 60, allPassed |-> FALSE]
Pass == [score |-> 100, allPassed |-> TRUE]

(* A result that failed, and one that passed, a laboratory. *)
TwoResults == {Fail, Pass}

(* The client may post nothing, or a passed validation. *)
PostedVerdicts == {NoResult, Pass}

WorkerSymmetry == Permutations(Workers)

=============================================================================
