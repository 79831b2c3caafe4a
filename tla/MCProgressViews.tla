-------------------------- MODULE MCProgressViews ---------------------------
(* Small instances of ProgressViews for TLC. *)
EXTENDS ProgressViews, TLC

Fail == [score |-> 60, allPassed |-> FALSE]
Pass == [score |-> 100, allPassed |-> TRUE]

TwoResults == {Fail, Pass}

(* The validation a page posts with its drafts: one that passed is the one *)
(* the readings could mistake for an attempt.                              *)
Told == {Pass}

(* Nothing tells the laboratories apart. *)
LabSymmetry == Permutations(Labs)

=============================================================================
