---------------------------- MODULE MCAccessGate ----------------------------
(* AccessGate with a student who is enrolled and one who may register.     *)
EXTENDS AccessGate, TLC

CONSTANTS ana, k1

OneSeat == {<<ana, k1>>}

(* The slots of the calls are interchangeable: the properties and the      *)
(* fairness do not tell them apart.                                        *)
GateSymmetry == Permutations(Calls)

=============================================================================
