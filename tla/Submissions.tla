---------------------------- MODULE Submissions -----------------------------
(***************************************************************************)
(* The requests that write a student's attempts and workspaces:            *)
(* POST /api/validate and POST /api/workspaces/save, the deletion of a     *)
(* student, and the rows they share.                                       *)
(*                                                                         *)
(* The server runs one goroutine per request and SQLite has one connection,*)
(* so a statement or a transaction is atomic and everything between two of *)
(* them is not: a worker below is a request in flight and each action is   *)
(* one statement or transaction, with the code that runs up to the next.   *)
(*                                                                         *)
(* Abstractions: a validation is its score and allPassed; the solution,    *)
(* terminal log and completed tasks a request carries are represented by   *)
(* the set of completed tasks, so that two payloads can be told apart; the *)
(* cohort column of a submission is not kept.                              *)
(***************************************************************************)
EXTENDS Naturals, Sequences, FiniteSets

CONSTANTS
  Students,        \* students enrolled at the start
  Labs,            \* laboratories
  Workers,         \* how many requests may be in flight at once
  Tasks,           \* practice tasks of a laboratory
  Results,         \* results the validation service can return
  ClientVerdicts,  \* validations a client may post with a workspace save
  Limit,           \* SubmissionLimitPerLab
  MayFail,         \* may a request be abandoned between two statements?
  NoResult,        \* no validation stored or found
  NoRow,           \* no workspace row
  NoRequest        \* the request of an idle worker

Keys == Students \X Labs

Verdicts == Results \cup {NoResult}

Rows == [verdict : Verdicts, tasks : SUBSET Tasks]

(* What a handler keeps between two statements. *)
Requests ==
  [key   : Keys,
   result : Verdicts,           \* what this request validated or posted
   tasks : SUBSET Tasks,        \* its completedTaskIndexes and solution
   count : Nat,                 \* SubmissionStatus.Count, as it was read
   keep  : Verdicts]            \* persistBestValidation

ASSUME ConstantsAssumption ==
  /\ Workers # {} /\ IsFiniteSet(Workers)
  /\ Results \subseteq [score : Nat, allPassed : BOOLEAN]
  /\ ClientVerdicts \subseteq Verdicts
  /\ Limit \in Nat \ {0}
  /\ MayFail \in BOOLEAN
  /\ NoResult \notin Results
  /\ NoRow \notin Rows
  /\ NoRequest \notin Requests

VARIABLES
  students,   \* rows of table students
  attempts,   \* table submissions: attempts[s, l] in the order of their ids
  workspace,  \* table workspaces: one row per student and lab, or NoRow
  progress,   \* table task_progress: the completed tasks per student and lab
  pc,         \* the next statement of each worker
  req,        \* the request each worker serves
  reply,      \* the answer of the last request of each worker
  ended       \* history: the requests of each key past their insert that ended

tables == <<students, attempts, workspace, progress>>
vars == <<students, attempts, workspace, progress, pc, req, reply, ended>>

Labels == {"idle", "count", "best", "refused", "check", "insert", "save", "put"}
Answers == {"none", "persisted", "saved", "limit", "error"}

TypeOK ==
  /\ students \subseteq Students
  /\ attempts \in [Keys -> Seq(Results)]
  /\ workspace \in [Keys -> Rows \cup {NoRow}]
  /\ progress \in [Keys -> SUBSET Tasks]
  /\ pc \in [Workers -> Labels]
  /\ req \in [Workers -> Requests \cup {NoRequest}]
  /\ \A w \in Workers :
       /\ pc[w] # "idle" => req[w] \in Requests
       /\ pc[w] \notin {"idle", "put"} => req[w].result \in Results
  /\ reply \in [Workers -> Answers]
  /\ ended \in [Keys -> Nat]

Init ==
  /\ students = Students
  /\ attempts = [k \in Keys |-> << >>]
  /\ workspace = [k \in Keys |-> NoRow]
  /\ progress = [k \in Keys |-> {}]
  /\ pc = [w \in Workers |-> "idle"]
  /\ req = [w \in Workers |-> NoRequest]
  /\ reply = [w \in Workers |-> "none"]
  /\ ended = [k \in Keys |-> 0]

-----------------------------------------------------------------------------
(* Results and the limit *)

(* The order of ORDER BY score DESC, all_passed DESC, and of the test that *)
(* keeps the best validation recorded so far.                              *)
Better(a, b) ==
  \/ a.score > b.score
  \/ a.score = b.score /\ a.allPassed /\ ~b.allPassed

(* Mutant of Best: the latest attempt instead of the best one. *)
Best_Latest(rows) == IF rows = << >> THEN {NoResult} ELSE {rows[Len(rows)]}

(* What the query ... ORDER BY score DESC, all_passed DESC LIMIT 1 may     *)
(* find: nothing in an empty log, a best attempt in any other.             *)
Best(rows) ==
  IF rows = << >> THEN {NoResult}
  ELSE {v \in {rows[i] : i \in DOMAIN rows} :
          \A i \in DOMAIN rows : ~Better(rows[i], v)}

(* Mutant of LimitReached: one attempt too many. *)
LimitReached_OffByOne(count) == count > Limit

(* Mutant of LimitReached: one attempt too few. *)
LimitReached_Early(count) == count + 1 >= Limit

(* Both the handler and the store refuse from Limit attempts on. *)
LimitReached(count) == count >= Limit

(* persistBestValidation: the best attempt on record unless the new result *)
(* is at least as good.                                                    *)
Persist(best, result) ==
  IF best # NoResult /\ Better(best, result) THEN best ELSE result

-----------------------------------------------------------------------------
(* Steps of a request *)

(* Mutant of Answer: the answer is written and the handler does not return. *)
Answer_NoReturn(w, a) ==
  /\ req' = [req EXCEPT ![w] = NoRequest]
  /\ reply' = [reply EXCEPT ![w] = a]
  /\ UNCHANGED pc

(* The worker answers and is free again. *)
Answer(w, a) ==
  /\ pc' = [pc EXCEPT ![w] = "idle"]
  /\ req' = [req EXCEPT ![w] = NoRequest]
  /\ reply' = [reply EXCEPT ![w] = a]

(* The worker goes on with the next statement. *)
Go(w, next) ==
  /\ pc' = [pc EXCEPT ![w] = next]
  /\ UNCHANGED reply

Exists(k) == k[1] \in students

(* A student with a session posts a solution: the verdict of the           *)
(* validation service is computed before the first statement.              *)
StartValidate(w, k, v, t) ==
  /\ pc[w] = "idle"
  /\ Exists(k)
  /\ pc' = [pc EXCEPT ![w] = "count"]
  /\ req' = [req EXCEPT ![w] =
       [key |-> k, result |-> v, tasks |-> t, count |-> 0, keep |-> NoResult]]
  /\ reply' = [reply EXCEPT ![w] = "none"]
  /\ UNCHANGED <<tables, ended>>

(* A student with a session saves a draft, with the validation the client  *)
(* remembers.                                                              *)
StartSave(w, k, v, t) ==
  /\ pc[w] = "idle"
  /\ Exists(k)
  /\ pc' = [pc EXCEPT ![w] = "put"]
  /\ req' = [req EXCEPT ![w] =
       [key |-> k, result |-> v, tasks |-> t, count |-> 0, keep |-> v]]
  /\ reply' = [reply EXCEPT ![w] = "none"]
  /\ UNCHANGED <<tables, ended>>

(* LoadSubmissionStatus, first query: the number of attempts. *)
LoadCount(w) ==
  /\ pc[w] = "count"
  /\ req' = [req EXCEPT ![w].count = Len(attempts[req[w].key])]
  /\ Go(w, "best")
  /\ UNCHANGED <<tables, ended>>

(* LoadSubmissionStatus, second query: the best attempt; then the handler  *)
(* chooses the validation to persist and compares the count it has read    *)
(* with the limit.                                                         *)
LoadBest(w) ==
  /\ pc[w] = "best"
  /\ \E best \in Best(attempts[req[w].key]) :
       req' = [req EXCEPT ![w].keep = Persist(best, req[w].result)]
  /\ Go(w, IF LimitReached(req[w].count) THEN "refused" ELSE "check")
  /\ UNCHANGED <<tables, ended>>

(* Mutant of CheckLimit: the error of a used-up limit is swallowed and the *)
(* handler goes on as if the attempt had been recorded.                    *)
CheckLimit_Swallowed(w) ==
  /\ pc[w] = "check"
  /\ Go(w, IF LimitReached(Len(attempts[req[w].key])) THEN "save" ELSE "insert")
  /\ UNCHANGED <<tables, req, ended>>

(* CreateSubmission, first statement: count the attempts again.            *)
CheckLimit(w) ==
  /\ pc[w] = "check"
  /\ IF LimitReached(Len(attempts[req[w].key]))
     THEN Answer(w, "limit")
     ELSE Go(w, "insert") /\ UNCHANGED req
  /\ UNCHANGED <<tables, ended>>

(* Mutant of InsertSubmission: no foreign key on the student. *)
InsertSubmission_NoForeignKey(w) ==
  /\ pc[w] = "insert"
  /\ attempts' = [attempts EXCEPT ![req[w].key] = Append(@, req[w].result)]
  /\ Go(w, "save")
  /\ UNCHANGED <<students, workspace, progress, req, ended>>

(* CreateSubmission, last statement. The row references its student: the   *)
(* insert fails once the student is gone.                                  *)
InsertSubmission(w) ==
  /\ pc[w] = "insert"
  /\ IF Exists(req[w].key)
     THEN /\ attempts' = [attempts EXCEPT ![req[w].key] = Append(@, req[w].result)]
          /\ Go(w, "save")
          /\ UNCHANGED req
     ELSE Answer(w, "error") /\ UNCHANGED attempts
  /\ UNCHANGED <<students, workspace, progress, ended>>

(* Mutant of SaveWorkspace: the old task rows are not cleared. *)
SaveWorkspace_NoClear(k, v, t) ==
  /\ Exists(k)
  /\ workspace' = [workspace EXCEPT ![k] = [verdict |-> v, tasks |-> t]]
  /\ progress' = [progress EXCEPT ![k] = @ \cup t]

(* SaveWorkspace, one transaction: the workspace is written, the task rows *)
(* are cleared and written again; it fails as a whole without the student. *)
SaveWorkspace(k, v, t) ==
  /\ Exists(k)
  /\ workspace' = [workspace EXCEPT ![k] = [verdict |-> v, tasks |-> t]]
  /\ progress' = [progress EXCEPT ![k] = t]

(* The transaction of the request of w, and the answer that follows it. *)
Save(w, answer) ==
  \/ /\ SaveWorkspace(req[w].key, req[w].keep, req[w].tasks)
     /\ Answer(w, answer)
     /\ UNCHANGED <<students, attempts>>
  \/ /\ ~Exists(req[w].key)
     /\ Answer(w, "error")
     /\ UNCHANGED tables

(* History: the request of w, past its insert, comes to its end. *)
End(w) ==
  ended' = IF Exists(req[w].key) THEN [ended EXCEPT ![req[w].key] = @ + 1]
           ELSE ended

(* After the attempt: 200 with persisted set. *)
SaveValidated(w) ==
  /\ pc[w] = "save"
  /\ Save(w, "persisted")
  /\ End(w)

(* Over the limit the workspace is saved all the same, then 403. *)
SaveRefused(w) ==
  /\ pc[w] = "refused"
  /\ Save(w, "limit")
  /\ UNCHANGED ended

(* POST /api/workspaces/save. *)
PutWorkspace(w) ==
  /\ pc[w] = "put"
  /\ Save(w, "saved")
  /\ UNCHANGED ended

(* The client goes away, the statement fails, or the server stops: what    *)
(* the request has written stays, the rest is never done.                  *)
Abandon(w) ==
  /\ MayFail
  /\ pc[w] # "idle"
  /\ Answer(w, "error")
  /\ IF pc[w] = "save" THEN End(w) ELSE UNCHANGED ended
  /\ UNCHANGED tables

(* Mutant of DeleteStudent: the task rows outlive their student. *)
DeleteStudent_KeepsTasks(s) ==
  /\ s \in students
  /\ students' = students \ {s}
  /\ attempts' = [k \in Keys |-> IF k[1] = s THEN << >> ELSE attempts[k]]
  /\ workspace' = [k \in Keys |-> IF k[1] = s THEN NoRow ELSE workspace[k]]
  /\ UNCHANGED <<progress, pc, req, reply, ended>>

(* An administrator deletes a student: one DELETE that cascades. *)
DeleteStudent(s) ==
  /\ s \in students
  /\ students' = students \ {s}
  /\ attempts' = [k \in Keys |-> IF k[1] = s THEN << >> ELSE attempts[k]]
  /\ workspace' = [k \in Keys |-> IF k[1] = s THEN NoRow ELSE workspace[k]]
  /\ progress' = [k \in Keys |-> IF k[1] = s THEN {} ELSE progress[k]]
  /\ UNCHANGED <<pc, req, reply, ended>>

Step(w) ==
  \/ \E k \in Keys, v \in Results, t \in SUBSET Tasks : StartValidate(w, k, v, t)
  \/ \E k \in Keys, v \in ClientVerdicts, t \in SUBSET Tasks : StartSave(w, k, v, t)
  \/ LoadCount(w)
  \/ LoadBest(w)
  \/ CheckLimit(w)
  \/ InsertSubmission(w)
  \/ SaveValidated(w)
  \/ SaveRefused(w)
  \/ PutWorkspace(w)
  \/ Abandon(w)

Next ==
  \/ \E w \in Workers : Step(w)
  \/ \E s \in Students : DeleteStudent(s)

Spec == Init /\ [][Next]_vars

-----------------------------------------------------------------------------
(* Properties *)

(* The requests of key k that are about to run the statement at label l. *)
At(l, k) == {w \in Workers : pc[w] = l /\ req[w].key = k}

Excess == Cardinality(Workers) - 1

(* The count, the check and the insert of an attempt are separate          *)
(* statements (server.go handleValidate, sqlite.go CreateSubmission), so   *)
(* requests in flight together may pass the limit together, but never by   *)
(* more than the requests in flight less one: with one request at a time   *)
(* the limit is exact.                                                     *)
AttemptsBounded ==
  \A k \in Keys : Len(attempts[k]) <= Limit + Excess

(* The invariant behind it: the requests past the check have reserved      *)
(* their rows.                                                             *)
AttemptsReserved ==
  \A k \in Keys : Len(attempts[k]) + Cardinality(At("insert", k)) <= Limit + Excess

(* What server.go and app.js tell the student: at most Limit attempts are  *)
(* recorded for a laboratory.                                              *)
AttemptsWithinLimit ==
  \A k \in Keys : Len(attempts[k]) <= Limit

(* A student is refused an attempt (403) only when the limit really is     *)
(* used up at that moment, although handleValidate decides on a count it   *)
(* read two statements earlier.                                            *)
RefusedOnlyAtLimit ==
  [][\A w \in Workers :
       pc[w] # "idle" /\ reply'[w] = "limit"
         => Len(attempts[req[w].key]) >= Limit]_vars

(* The invariant behind it: a request on its way to a refusal has seen the *)
(* limit used up, and attempts only disappear with their student.          *)
RefusalFounded ==
  \A w \in Workers :
    /\ pc[w] = "refused" \/ (pc[w] = "best" /\ LimitReached(req[w].count))
    /\ Exists(req[w].key)
    => Len(attempts[req[w].key]) >= Limit

(* No attempt is lost, recorded twice or used up by a request that was     *)
(* refused, however requests overlap or break off (handleValidate writes   *)
(* the attempt first and the workspace after it): the attempts on record   *)
(* are exactly the requests past their insert, those that are about to     *)
(* save and those that have been answered or abandoned since.              *)
AttemptsAccounted ==
  \A k \in Keys : Exists(k) =>
    Len(attempts[k]) = ended[k] + Cardinality(At("save", k))

(* The saved solution and the saved tasks of a laboratory always come from *)
(* the same request, whatever saves race (sqlite.go SaveWorkspace is one   *)
(* transaction over both tables).                                          *)
SavedTogether ==
  \A k \in Keys :
    progress[k] = IF workspace[k] = NoRow THEN {} ELSE workspace[k].tasks

(* Nothing of a deleted student comes back through a request that was in   *)
(* flight when an administrator deleted them.                              *)
DeletedForGood ==
  \A k \in Keys : ~Exists(k) =>
    attempts[k] = << >> /\ workspace[k] = NoRow /\ progress[k] = {}

(* The submissions table implements the append-only log of AttemptLog,     *)
(* with room for the excess of concurrent requests.                        *)
Log == INSTANCE AttemptLog WITH
         live <- students, log <- attempts, Cap <- Limit + Excess

LogSpec == Log!Spec

=============================================================================
