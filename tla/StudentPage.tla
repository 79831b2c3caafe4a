----------------------------- MODULE StudentPage -----------------------------
(***************************************************************************)
(* The learning state of the student's page (public/app.js): the drafts,   *)
(* results and attempt counts it keeps in memory and in localStorage, the  *)
(* requests that exchange them with the server, and the student it takes   *)
(* for signed in.                                                          *)
(*                                                                         *)
(* A handler of the page runs up to its next await.  A save keeps another  *)
(* save from starting, and a validation another validation; all else may   *)
(* overlap.  A request keeps the cookie it was sent with, and answers come *)
(* in any order: Click, Handle and Arrive are separate actions of each     *)
(* request.  The cookie changes when the headers of an answer come in      *)
(* (CookieReceived), and the page when its script runs.                    *)
(*                                                                         *)
(* Abstractions: one tab; the server handles a request in one step (its    *)
(* own interleavings are in Submissions and ProgressViews; here they show  *)
(* as attempts past the limit), before the page is reloaded or not at all; *)
(* two sessions of one student are not told apart; a text and a result are *)
(* represented by the student they come from, None being the starter and   *)
(* no result; the terminal log and the tasks of a laboratory travel with   *)
(* its text.                                                               *)
(***************************************************************************)
EXTENDS Naturals, FiniteSets

CONSTANTS
  Students,   \* students that use this browser, one after another
  Labs,       \* laboratories
  Limit,      \* MAX_SUBMISSIONS_PER_LAB, SubmissionLimitPerLab
  Excess,     \* how many attempts past it racing validations may record
  Slots,      \* requests that may be in flight at once
  None        \* null

ASSUME PageAssumption ==
  /\ Limit \in Nat \ {0} /\ Excess \in Nat
  /\ None \notin Students

Owners == Students \cup {None}

(* The rows of a student and a laboratory: the workspace, whose validation *)
(* may be anybody's, and the number of attempts; None without a workspace. *)
Counts == 0 .. Limit + Excess
Rows == [draft : Owners, verdict : Owners, count : Counts]

(* LoadDashboard: the rows of the laboratories of a student. *)
Dashboards == [Labs -> Rows \cup {None}]

(* A validation that was answered is followed by a refresh of the          *)
(* dashboard.  "accepted" and "ended" are the answers to a login and to a  *)
(* logout until their headers come in, "dashboard" and "bye" after that.   *)
Calls ==
  [what    : {"save", "validate", "refresh", "login", "logout"},
   answer  : {"none", "persisted", "limit", "accepted", "ended", "bye",
              "dashboard"},
   board   : Dashboards \cup {None},
   cookie  : Owners,            \* whose session it carries, or who logs in
   lab     : Labs,
   draft   : Owners,            \* the work that is sent
   verdict : Owners,
   stale   : BOOLEAN]           \* history: the page was cleared meanwhile

(* What the page keeps for the student it takes for signed in. *)
Pages ==
  [student : Owners, lab : Labs, drafts : [Labs -> Owners],
   verdict : [Labs -> Owners], count : [Labs -> Counts]]

(* null is neither a row nor a request. *)
ASSUME NullAssumption == None \notin Rows /\ None \notin Calls

VARIABLES
  rows,     \* what the server has stored
  cookie,   \* the student of the live session in the cookie, or None
  page,     \* the learning state of the page
  calls,    \* the requests in flight
  late,     \* history: has an answer to a stale request been used?
  mixed     \* history: has a login or a logout been sent during another?

vars == <<rows, cookie, page, calls, late, mixed>>

PageTypeOK ==
  /\ rows \in [Students -> [Labs -> Rows \cup {None}]]
  /\ cookie \in Owners
  /\ page \in Pages
  /\ calls \in [Slots -> Calls \cup {None}]
  /\ late \in BOOLEAN /\ mixed \in BOOLEAN

(* resetLearningState *)
Empty(l) ==
  [student |-> None, lab |-> l, drafts |-> [m \in Labs |-> None],
   verdict |-> [m \in Labs |-> None], count |-> [m \in Labs |-> 0]]

Init ==
  /\ rows = [s \in Students |-> [l \in Labs |-> None]]
  /\ cookie = None
  /\ \E l \in Labs : page = Empty(l)
  /\ calls = [k \in Slots |-> None]
  /\ late = FALSE /\ mixed = FALSE

-----------------------------------------------------------------------------
(* The state of the page *)

(* syncShellVisibility: without a student there is only the login form. *)
Signed == page.student # None

(* hasReachedSubmissionLimit *)
LimitReached(l) == page.count[l] >= Limit

(* The result a dashboard shows: the best attempt, else the workspace's. *)
ShownVerdict(s, row) == IF row.count > 0 THEN s ELSE row.verdict

(* Mutant of SyncState: the counts of other laboratories are kept. *)
SyncState_KeepsCounts(p, s, board) ==
  LET listed == {l \in Labs : board[l] # None}
      base == IF p.student \notin {None, s}
              THEN [Empty(p.lab) EXCEPT !.count = p.count] ELSE p
  IN [base EXCEPT
        !.student = s,
        !.drafts = [l \in Labs |-> IF l \in listed THEN board[l].draft ELSE @[l]],
        !.verdict = [l \in Labs |-> IF l \in listed
                                    THEN ShownVerdict(s, board[l]) ELSE @[l]],
        !.count = [l \in Labs |-> IF l \in listed THEN board[l].count ELSE @[l]]]

(* syncStateFromDashboard: what the dashboard lists replaces what the page *)
(* had, the rest stays, unless the student changed.                        *)
SyncState(p, s, board) ==
  LET listed == {l \in Labs : board[l] # None}
      base == IF p.student \in {None, s} THEN p ELSE Empty(p.lab)
  IN [base EXCEPT
        !.student = s,
        !.drafts = [l \in Labs |-> IF l \in listed THEN board[l].draft ELSE @[l]],
        !.verdict = [l \in Labs |-> IF l \in listed
                                    THEN ShownVerdict(s, board[l]) ELSE @[l]],
        !.count = [l \in Labs |-> IF l \in listed THEN board[l].count ELSE 0]]

-----------------------------------------------------------------------------
(* What the student does *)

InFlight(whats) == \E k \in Slots : calls[k] # None /\ calls[k].what \in whats

Send(k, what, who, draft, verdict) ==
  calls' = [calls EXCEPT ![k] =
    [what |-> what, answer |-> "none", board |-> None, cookie |-> who,
     lab |-> page.lab, draft |-> draft, verdict |-> verdict, stale |-> FALSE]]

SwitchLab(l) ==
  /\ Signed
  /\ page' = [page EXCEPT !.lab = l]
  /\ UNCHANGED <<rows, cookie, calls, late, mixed>>

(* The editor: the text is the student's whom the page names. *)
Edit ==
  /\ Signed
  /\ page' = [page EXCEPT !.drafts[page.lab] = page.student]
  /\ UNCHANGED <<rows, cookie, calls, late, mixed>>

(* saveCurrentWorkspace, up to its await: text and remembered result.  The *)
(* button is disabled until the answer, as that of a validation is.        *)
ClickSave(k) ==
  /\ Signed /\ calls[k] = None /\ ~InFlight({"save"})
  /\ Send(k, "save", cookie, page.drafts[page.lab], page.verdict[page.lab])
  /\ UNCHANGED <<rows, cookie, page, late, mixed>>

(* validateCurrentSolution, up to its await. *)
ClickValidate(k) ==
  /\ Signed /\ calls[k] = None /\ ~InFlight({"validate", "refresh"})
  /\ ~LimitReached(page.lab)
  /\ Send(k, "validate", cookie, page.drafts[page.lab], None)
  /\ UNCHANGED <<rows, cookie, page, late, mixed>>

(* A login or a logout, with another one under way or not. *)
Mixes == mixed' = (mixed \/ InFlight({"login", "logout"}))

(* enterStudentCohort, up to its await; the buttons stay enabled. *)
ClickLogin(k, s) ==
  /\ ~Signed /\ calls[k] = None
  /\ Send(k, "login", s, None, None)
  /\ Mixes
  /\ UNCHANGED <<rows, cookie, page, late>>

(* The button of the logout stays enabled too. *)
ClickLogout(k) ==
  /\ Signed /\ calls[k] = None
  /\ Send(k, "logout", cookie, None, None)
  /\ Mixes
  /\ UNCHANGED <<rows, cookie, page, late>>

(* initialize: localStorage keeps the state of the page; a live session is *)
(* taken as it is and synchronised; without one, or when that fails,       *)
(* everything is cleared.                                                  *)
Reload ==
  /\ \/ /\ cookie # None
        /\ page' = SyncState([page EXCEPT !.student = cookie], cookie, rows[cookie])
     \/ page' = Empty(page.lab)
  /\ calls' = [k \in Slots |-> None]
  /\ UNCHANGED <<rows, cookie, late, mixed>>

-----------------------------------------------------------------------------
(* What the server does *)

Waits(k, what) ==
  calls[k] # None /\ calls[k].answer = "none" /\ calls[k].what = what

Answer(k, a, board) ==
  calls' = [calls EXCEPT ![k].answer = a, ![k].board = board,
                         ![k].draft = None, ![k].verdict = None]

(* The session a request carries is resolved when it is handled. *)
Who(k) == calls[k].cookie

(* Attempts on record. *)
Attempts(row) == IF row = None THEN 0 ELSE row.count

(* POST /api/workspaces/save *)
HandleSave(k) ==
  /\ Waits(k, "save") /\ Who(k) # None
  /\ LET s == Who(k)
         l == calls[k].lab
     IN /\ rows' = [rows EXCEPT ![s][l] =
             [draft |-> calls[k].draft, verdict |-> calls[k].verdict,
              count |-> Attempts(@)]]
        /\ Answer(k, "dashboard", rows'[s])
  /\ UNCHANGED <<cookie, page, late, mixed>>

(* Mutant of HandleValidate: the limit is left to the page. *)
HandleValidate_NoLimit(k) ==
  /\ Waits(k, "validate") /\ Who(k) # None
  /\ rows' = [rows EXCEPT ![Who(k)][calls[k].lab] =
       [draft |-> calls[k].draft, verdict |-> Who(k), count |-> Attempts(@) + 1]]
  /\ Answer(k, "persisted", None)
  /\ UNCHANGED <<cookie, page, late, mixed>>

(* POST /api/validate: an attempt, and the workspace with it, unless the   *)
(* limit is used up.  The attempt may have been counted before those of    *)
(* others that are recorded by now; a refused one may leave its workspace. *)
HandleValidate(k) ==
  /\ Waits(k, "validate") /\ Who(k) # None
  /\ LET s == Who(k)
         l == calls[k].lab
         used == Attempts(rows[s][l])
         put(n) == [rows EXCEPT ![s][l] =
                      [draft |-> calls[k].draft, verdict |-> s, count |-> n]]
     IN \/ /\ used < Limit + Excess
           /\ rows' = put(used + 1)
           /\ Answer(k, "persisted", None)
        \/ /\ used >= Limit
           /\ rows' \in {put(used), rows}
           /\ Answer(k, "limit", None)
  /\ UNCHANGED <<cookie, page, late, mixed>>

(* GET /api/dashboard, and POST /api/auth/student/login. *)
HandleDashboard(k) ==
  /\ Waits(k, "refresh") \/ Waits(k, "login")
  /\ Who(k) # None
  /\ Answer(k, IF calls[k].what = "login" THEN "accepted" ELSE "dashboard",
            rows[Who(k)])
  /\ UNCHANGED <<rows, cookie, page, late, mixed>>

(* POST /api/auth/logout: the session is deleted; an error is ignored. *)
HandleLogout(k) ==
  /\ Waits(k, "logout")
  /\ Answer(k, "ended", None)
  /\ \/ cookie = Who(k) /\ cookie' = None
     \/ UNCHANGED cookie
  /\ UNCHANGED <<rows, page, late, mixed>>

(* A session ends after 18 hours, or with its student or cohort. *)
Expire ==
  /\ cookie # None
  /\ cookie' = None
  /\ UNCHANGED <<rows, page, calls, late, mixed>>

(* The student validates from another device. *)
Elsewhere(s, l) ==
  /\ Attempts(rows[s][l]) < Limit + Excess
  /\ rows' = [rows EXCEPT ![s][l] =
       [draft |-> s, verdict |-> s, count |-> Attempts(@) + 1]]
  /\ UNCHANGED <<cookie, page, calls, late, mixed>>

-----------------------------------------------------------------------------
(* The answers *)

Arrives(k, answers) ==
  calls[k] # None /\ calls[k].answer \in answers

(* The headers of an answer to a login set the cookie, those of an answer  *)
(* to a logout remove it, whichever session it holds by then.              *)
CookieReceived(k) ==
  /\ \/ /\ Arrives(k, {"accepted"})
        /\ cookie' = Who(k)
        /\ calls' = [calls EXCEPT ![k].answer = "dashboard"]
     \/ /\ Arrives(k, {"ended"})
        /\ cookie' = None
        /\ calls' = [calls EXCEPT ![k].answer = "bye"]
  /\ UNCHANGED <<rows, page, late, mixed>>

(* The handler ends: its button is enabled again. *)
Done(k) == calls' = [calls EXCEPT ![k] = None]

Used(k) == late' = (late \/ calls[k].stale)

(* 401, a refused login, a request or an answer lost on the way: an error  *)
(* is only shown, and even a refused session does not clear the page.      *)
ArriveError(k) ==
  /\ calls[k] # None /\ calls[k].what # "logout"
  /\ calls[k].what = "login" => calls[k].answer # "dashboard"
  /\ Done(k)
  /\ UNCHANGED <<rows, cookie, page, late, mixed>>

(* The dashboard of a save, a refresh or a login. *)
ArriveDashboard(k) ==
  /\ Arrives(k, {"dashboard"})
  /\ page' = SyncState(page, Who(k), calls[k].board)
  /\ Done(k)
  /\ Used(k)
  /\ UNCHANGED <<rows, cookie, mixed>>

(* The page shows the result of the validation, whoever is signed in now,  *)
(* and loads the dashboard again when somebody is.                         *)
ArriveResult(k) ==
  /\ Arrives(k, {"persisted", "limit"})
  /\ page' = IF calls[k].answer = "persisted"
             THEN [page EXCEPT !.verdict[calls[k].lab] = Who(k)] ELSE page
  /\ IF Signed THEN Send(k, "refresh", cookie, None, None) ELSE Done(k)
  /\ Used(k)
  /\ UNCHANGED <<rows, cookie, mixed>>

(* The requests in flight when the page of a student is cleared. *)
OthersStale(k) ==
  calls' = [m \in Slots |->
    IF m = k \/ calls[m] = None THEN None ELSE [calls[m] EXCEPT !.stale = TRUE]]

(* Mutant of ArriveLogout: what was learned stays on the page. *)
ArriveLogout_KeepsState(k) ==
  /\ calls[k] # None /\ calls[k].what = "logout"
  /\ page' = [page EXCEPT !.student = None]
  /\ OthersStale(k)
  /\ UNCHANGED <<rows, cookie, late, mixed>>

(* clearStudentSession, after the answer or because there was none.        *)
ArriveLogout(k) ==
  /\ calls[k] # None /\ calls[k].what = "logout"
  /\ page' = Empty(page.lab)
  /\ OthersStale(k)
  /\ UNCHANGED <<rows, cookie, late, mixed>>

Click(k) ==
  \/ ClickSave(k)
  \/ ClickValidate(k)
  \/ \E s \in Students : ClickLogin(k, s)
  \/ ClickLogout(k)

Handle(k) ==
  \/ HandleSave(k)
  \/ HandleValidate(k)
  \/ HandleDashboard(k)
  \/ HandleLogout(k)

Arrive(k) ==
  \/ CookieReceived(k)
  \/ ArriveError(k)
  \/ ArriveDashboard(k)
  \/ ArriveResult(k)
  \/ ArriveLogout(k)

Next ==
  \/ \E l \in Labs : SwitchLab(l)
  \/ Edit
  \/ Reload
  \/ Expire
  \/ \E s \in Students, l \in Labs : Elsewhere(s, l)
  \/ \E k \in Slots : Click(k) \/ Handle(k) \/ Arrive(k)

Spec == Init /\ [][Next]_vars

-----------------------------------------------------------------------------
(* Properties *)

(* The page never shows more attempts than are on record, so it never      *)
(* refuses a validation on its own (hasReachedSubmissionLimit) that the    *)
(* server would accept for the student it names, whatever answers of       *)
(* earlier students and requests arrive late.                              *)
CountNeverAhead ==
  Signed => \A l \in Labs : page.count[l] <= Attempts(rows[page.student][l])

(* Students may take turns at one browser ("Trocar aluno", index.html).    *)
(* As long as no answer to a request of an earlier turn is used, and no    *)
(* login or logout is sent while another one is under way, no text and no  *)
(* result of one student is ever stored for another one.                   *)
WorkIsOwn ==
  ~late /\ ~mixed => \A s \in Students, l \in Labs :
    rows[s][l] # None => /\ rows[s][l].draft \in {s, None}
                         /\ rows[s][l].verdict \in {s, None}

(* docs/hosted-architecture.md: "progresso por aluno". The result stored   *)
(* with the workspace of a student is a result of that student, where no   *)
(* login or logout overlaps another one.                                   *)
ProgressIsOwn ==
  ~mixed => \A s \in Students, l \in Labs :
    rows[s][l] # None => rows[s][l].verdict \in {s, None}

=============================================================================
