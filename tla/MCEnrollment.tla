---------------------------- MODULE MCEnrollment ----------------------------
(* Enrollment with identifiers that nothing tells apart. *)
EXTENDS Enrollment, TLC

Alike ==
  Permutations(StudentIds) \cup Permutations(CohortIds)
    \cup Permutations(Usernames) \cup Permutations(Workers)
    \cup Permutations(Emails) \cup Permutations(Codes)

=============================================================================
