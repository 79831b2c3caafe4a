---------------------------- MODULE MCStudentPage ----------------------------
(* The student's page with two students who take turns at one browser. *)
EXTENDS StudentPage, TLC

(* Nothing tells the students apart, nor the requests. *)
PageSymmetry == Permutations(Students) \cup Permutations(Slots)

Told(board) ==
  IF board = None THEN None
  ELSE [l \in Labs |-> IF board[l] = None THEN None ELSE board[l].count]

(* What decides about the attempts that are on record and shown: texts and *)
(* results do not.                                                         *)
Attempted ==
  <<[s \in Students |-> Told(rows[s])], cookie,
    page.student, page.lab, page.count,
    [k \in Slots |->
       IF calls[k] = None THEN None
       ELSE [what |-> calls[k].what, answer |-> calls[k].answer,
             cookie |-> calls[k].cookie, lab |-> calls[k].lab,
             board |-> Told(calls[k].board)]]>>

(* From the moment on when turns have mixed, for good, WorkIsOwn says      *)
(* nothing: states after that which differ only in texts, results and      *)
(* histories count as one.                                                 *)
TurnsApart == IF late \/ mixed THEN Attempted ELSE vars

=============================================================================
