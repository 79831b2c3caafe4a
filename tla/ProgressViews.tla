--------------------------- MODULE ProgressViews ----------------------------
(***************************************************************************)
(* The two readings of a student's progress, composed with the requests of *)
(* Submissions that write it: the dashboard of the student (LoadDashboard, *)
(* one query after another, interleaved with the writers) and the list of  *)
(* students of the instructor (LoadAdminOverview, whose student rows come  *)
(* from a single query).                                                   *)
(***************************************************************************)
EXTENDS Submissions, FiniteSetsExt

CONSTANTS
  Readers,    \* dashboards that may be loading at once
  NoView      \* the state of a reader that loads nothing

(* A dashboard that is loading.                                            *)
Views ==
  [phase   : {"rows", "tasks", "count", "best", "total", "shown"},
   student : Students,
   rows    : [Labs -> Rows \cup {NoRow}],
   tasks   : [Labs -> SUBSET Tasks],
   todo    : SUBSET Labs,          \* laboratories whose status is still to load
   lab     : Labs,                 \* the one that is loading
   count   : [Labs -> Nat],        \* SubmissionStatus.Count of the others
   best    : [Labs -> Verdicts],   \* SubmissionStatus.BestValidation
   total   : Nat,
   since   : [Labs -> Nat]]        \* history: the attempts when it began

(* The catalogue of laboratories is finite, and a result that passed has   *)
(* the highest score there is: the score is the rounded percentage of the  *)
(* checks that passed, and all of them did.                                *)
ASSUME ViewsAssumption ==
  /\ IsFiniteSet(Labs) /\ Labs # {}
  /\ NoView \notin Views
  /\ \A a, b \in Results : a.allPassed => b.score <= a.score

VARIABLES
  view,     \* what reader r is loading, or NoView
  claimed   \* history: keys of drafts that brought a validation of their own

ViewsVars == <<vars, view, claimed>>

ViewsInit ==
  /\ Init
  /\ view = [r \in Readers |-> NoView]
  /\ claimed = {}

Passed(v) == v # NoResult /\ v.allPassed

AttemptPassed(k) == \E i \in DOMAIN attempts[k] : attempts[k][i].allPassed

UsedUp(k) == Len(attempts[k]) >= Limit

(* History: a draft is posted with a validation that passed, though no     *)
(* attempt of its laboratory has and there are attempts left.              *)
(* handleWorkspaceSave stores whatever validation the client posts.        *)
Claims(w) ==
  /\ pc[w] = "idle" /\ pc'[w] = "put"
  /\ Passed(req'[w].keep)
  /\ ~AttemptPassed(req'[w].key) /\ ~UsedUp(req'[w].key)

Claim == claimed' = claimed \cup {req'[w].key : w \in {u \in Workers : Claims(u)}}

InPhase(r, p) == view[r] # NoView /\ view[r].phase = p

(* GET /api/dashboard, or the answer of a workspace save or a login: the   *)
(* student is found.                                                       *)
OpenDashboard(r, s) ==
  /\ view[r] = NoView
  /\ s \in students
  /\ view' = [view EXCEPT ![r] =
       [phase |-> "rows", student |-> s,
        rows |-> [l \in Labs |-> NoRow], tasks |-> [l \in Labs |-> {}],
        todo |-> {}, lab |-> CHOOSE l \in Labs : TRUE,
        count |-> [l \in Labs |-> 0], best |-> [l \in Labs |-> NoResult],
        total |-> 0,
        since |-> [l \in Labs |-> Len(attempts[s, l])]]]

(* The query on workspaces. *)
ReadRows(r) ==
  /\ InPhase(r, "rows")
  /\ view' = [view EXCEPT
       ![r].rows = [l \in Labs |-> workspace[view[r].student, l]],
       ![r].phase = "tasks"]

(* A laboratory is on the dashboard when a workspace or a task of it was   *)
(* found.                                                                  *)
Listed(v) == {l \in Labs : v.rows[l] # NoRow \/ v.tasks[l] # {}}

(* The query on task_progress, which settles the laboratories listed.      *)
ReadTasks(r) ==
  /\ InPhase(r, "tasks")
  /\ LET found == [l \in Labs |-> progress[view[r].student, l]]
         listed == Listed([view[r] EXCEPT !.tasks = found])
     IN view' = [view EXCEPT
          ![r].tasks = found,
          ![r].todo = listed,
          ![r].phase = IF listed = {} THEN "total" ELSE "count"]

(* LoadSubmissionStatus of one of the laboratories left (a Go map is       *)
(* iterated in no particular order): its attempts are counted.             *)
ReadCount(r, l) ==
  /\ InPhase(r, "count")
  /\ l \in view[r].todo
  /\ view' = [view EXCEPT
       ![r].lab = l,
       ![r].count[l] = Len(attempts[view[r].student, l]),
       ![r].phase = "best"]

(* LoadSubmissionStatus, second query: the best attempt.                   *)
ReadBest(r) ==
  /\ InPhase(r, "best")
  /\ LET l == view[r].lab
     IN \E b \in Best(attempts[view[r].student, l]) :
          view' = [view EXCEPT
            ![r].best[l] = b,
            ![r].todo = @ \ {l},
            ![r].phase = IF view[r].todo = {l} THEN "total" ELSE "count"]

(* Mutant of ReadTotal: a row per laboratory listed instead of per attempt. *)
ReadTotal_PerLab(r) ==
  /\ InPhase(r, "total")
  /\ view' = [view EXCEPT ![r].total = Cardinality(Listed(view[r])),
                          ![r].phase = "shown"]

(* The last query: all the attempts of the student; the dashboard is sent. *)
ReadTotal(r) ==
  /\ InPhase(r, "total")
  /\ view' = [view EXCEPT
       ![r].total = MapThenSumSet(LAMBDA l : Len(attempts[view[r].student, l]), Labs),
       ![r].phase = "shown"]

(* The client has its dashboard, or went away before it was complete.      *)
CloseDashboard(r) ==
  /\ view[r] # NoView
  /\ view[r].phase = "shown" \/ MayFail
  /\ view' = [view EXCEPT ![r] = NoView]

Read(r) ==
  \/ \E s \in Students : OpenDashboard(r, s)
  \/ ReadRows(r)
  \/ ReadTasks(r)
  \/ \E l \in Labs : ReadCount(r, l)
  \/ ReadBest(r)
  \/ ReadTotal(r)
  \/ CloseDashboard(r)

ViewsNext ==
  \/ Next /\ Claim /\ UNCHANGED view
  \/ (\E r \in Readers : Read(r)) /\ UNCHANGED <<vars, claimed>>

ViewsSpec == ViewsInit /\ [][ViewsNext]_ViewsVars

-----------------------------------------------------------------------------
(* What the readings show *)

(* The instructor's list counts a laboratory as validated by its workspace *)
(* row: validation_json LIKE '%"allPassed":true%'.                         *)
OverviewValidated(s) ==
  {l \in Labs : workspace[s, l] # NoRow /\ Passed(workspace[s, l].verdict)}

(* The dashboard shows the best attempt, or what the workspace holds if    *)
(* there is none.                                                          *)
ShownVerdict(v, l) ==
  IF v.best[l] # NoResult THEN v.best[l]
  ELSE IF v.rows[l] = NoRow THEN NoResult ELSE v.rows[l].verdict

(* The laboratories the dashboard counts in validatedLabs. *)
DashboardValidated(v) ==
  {l \in Listed(v) : Passed(ShownVerdict(v, l)) \/ Passed(v.best[l])}

Shown(r) == InPhase(r, "shown") /\ view[r].student \in students

-----------------------------------------------------------------------------
(* Properties *)

(* However the queries of a dashboard interleave with the requests that    *)
(* write, every laboratory it lists is shown with all the attempts that    *)
(* were on record when it began and with a result no worse than any of     *)
(* them, so a grade once shown never goes down on a later dashboard.       *)
DashboardFresh ==
  \A r \in Readers : Shown(r) =>
    LET v == view[r]
    IN \A l \in Listed(v) :
         /\ v.since[l] <= v.count[l] /\ v.count[l] <= Len(attempts[v.student, l])
         /\ \A i \in 1 .. v.count[l] :
              /\ v.best[l] # NoResult
              /\ ~Better(attempts[v.student, l][i], v.best[l])
              /\ Passed(attempts[v.student, l][i]) => l \in DashboardValidated(v)

(* The total of a dashboard covers the attempts it shows per laboratory,   *)
(* though each number comes from a query of its own.                       *)
DashboardAddsUp ==
  \A r \in Readers : Shown(r) =>
    view[r].total >= MapThenSumSet(LAMBDA l : view[r].count[l], Labs)

(* The instructor's list reads the workspaces (sqlite.go                   *)
(* LoadAdminOverview), where a refused attempt is saved too, and a draft   *)
(* with whatever validation the page posts (app.js:2131, server.go:321).   *)
(* A laboratory it counts as validated has an attempt that passed, or the  *)
(* student has used up the limit, or a draft brought in a validation that  *)
(* was not founded then: the server itself never loses the foundation.     *)
OverviewFounded ==
  \A s \in Students : \A l \in OverviewValidated(s) :
    AttemptPassed(<<s, l>>) \/ UsedUp(<<s, l>>) \/ <<s, l>> \in claimed

=============================================================================
