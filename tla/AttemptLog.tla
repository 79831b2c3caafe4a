----------------------------- MODULE AttemptLog -----------------------------
(***************************************************************************)
(* What the submissions table promises its readers, whatever the requests  *)
(* that write it do: for each key (a student and a laboratory) an          *)
(* append-only log of results of at most Cap rows, which only the deletion *)
(* of its student empties, for good.                                       *)
(***************************************************************************)
EXTENDS Naturals, Sequences

CONSTANTS
  Students,  \* students of the table, all enrolled at the start
  Labs,      \* laboratories that take submissions
  Results,   \* possible results of a validation
  Cap        \* the largest number of rows of one key

VARIABLES
  live,      \* students whose row exists
  log        \* log[s, l]: the results of student s for lab l, oldest first

Keys == Students \X Labs

Init ==
  /\ live = Students
  /\ log = [k \in Keys |-> << >>]

(* One attempt is recorded, for a student who still exists. *)
Record(k, v) ==
  /\ k[1] \in live
  /\ Len(log[k]) < Cap
  /\ log' = [log EXCEPT ![k] = Append(@, v)]
  /\ UNCHANGED live

(* The student is deleted and every row of theirs goes with them. *)
Erase(s) ==
  /\ s \in live
  /\ live' = live \ {s}
  /\ log' = [k \in Keys |-> IF k[1] = s THEN << >> ELSE log[k]]

Next ==
  \/ \E k \in Keys, v \in Results : Record(k, v)
  \/ \E s \in Students : Erase(s)

Spec == Init /\ [][Next]_<<live, log>>

=============================================================================
