---------------------------- MODULE MCAdminPanel ----------------------------
(* The instructor's page with two students, each in a cohort of their own. *)
EXTENDS AdminPanel, TLC

CONSTANTS ana, bia, k1, k2

TwoStudents == {<<ana, k1>>, <<bia, k2>>}

CallSymmetry == Permutations(Calls)

=============================================================================
