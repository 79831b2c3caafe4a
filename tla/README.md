# KubeClass Web Lab: verification project

KubeClass Web Lab is a Go server with a browser client. Students of a cohort
work through laboratories: they write manifests, validate them (a limited
number of recorded attempts per laboratory, the best one counts) and use a
terminal in a Kubernetes namespace of their own. Instructors manage cohorts and
students and follow their progress. This directory holds TLA+ models of the
parts of the server and client whose correctness depends on interleaving,
failure and order, the TLC runs that check them, and TLAPS proofs.

## Inventory

| part | code | state | operations | what is hard |
|---|---|---|---|---|
| attempts and workspaces | `httpapi/server.go` (handleValidate, handleWorkspaceSave), `store/sqlite.go` | tables submissions, workspaces, task_progress | validate, save a draft | statements of concurrent requests interleave; a handler reads, decides and writes in up to five statements |
| progress views | `store/sqlite.go` (LoadDashboard, LoadAdminOverview) | none of their own | dashboard, instructor's list | the dashboard is many queries, and the two views read different tables |
| laboratory runtime | `labruntime/service.go`, `httpapi` handlers | the cluster: one namespace and one pod per student and laboratory | open, terminal, reset, collect, purge a student | no locks; everything is deleted by name; deletion takes time; deferred work is lost in a crash |
| terminal bridge | `labruntime/service.go` ServeTerminal | three goroutines, a pipe, a size queue | input, resize, output, close | goroutines that outlive or wait for one another |
| authentication and enrolment | `store/auth.go`, `httpapi/auth.go`, cohorts in `sqlite.go` | tables students, cohorts, enrollments, auth_sessions, admins | register, login, move, delete, expire | check-then-act across statements; sessions keep what they were opened with; cascades |
| validation service | `validation/service.go` | rules loaded once | score a solution | rounding; text processing |
| student client | `public/app.js` | one state object, one terminal socket | sync, save, validate, open terminal | answers and socket events arrive late and out of order |
| student access gate | `public/register.js`, the login half of `public/app.js` | the fields, the cohorts found, the session cookie | register, redirect, look up cohorts, log in, log out | answers that are late or lost; fields that change while a request or a timer is under way |
| instructor client | `public/admin.js` | list, filter, selected student, dialogs | filter, select, grade, edit, remove | handlers that reload the list and select students overlap; one resolver serves all dialogs |
| grades | `admin.js` gradeForm, `sqlite.go` SaveGrade | two columns of enrollments | grade | the student a grade is for is read from the page |
| course content, start-up, pages, deployment | | | | no interaction to speak of |

Concurrency in the server: `net/http` runs one goroutine per request. SQLite is
opened with `SetMaxOpenConns(1)` (`sqlite.go:185`), so one statement or
transaction runs at a time, and foreign keys are on. Kubernetes API calls are
atomic in the cluster. The deployment has one replica and strategy `Recreate`,
so there is never a second server.

`PROJECT.json` lists the hazards of this code at their lines and the
properties aimed at each.

## Modules

### Submissions (with AttemptLog, MCSubmissions, SubmissionsProofs)

State: `students`, `attempts`, `workspace`, `progress` are the four tables;
`pc`, `req`, `reply` are the requests in flight, one per worker; `ended` is a
history variable (validations that got past their insert and have come to an
end). One action is one statement or transaction together with the
Go code up to the next one:

| action | code |
|---|---|
| `StartValidate`, `StartSave` | the handler up to its first statement, with a session that has been checked |
| `LoadCount`, `LoadBest` | the two queries of LoadSubmissionStatus, then the choice of persistBestValidation and the first limit check |
| `CheckLimit`, `InsertSubmission` | CreateSubmission |
| `SaveValidated`, `SaveRefused`, `PutWorkspace` | the SaveWorkspace transaction and the answer |
| `Abandon` | a statement fails, the client goes away or the server stops: the rest is never done |
| `DeleteStudent` | one DELETE with its cascades |

A validation is its score and `allPassed`, the only things the code compares.
The completed tasks of a request stand for its whole payload, so that two
payloads can be told apart.

`AttemptLog` is the abstract specification: for each student and laboratory an
append-only log of at most `Cap` results that only the deletion of the student
empties. `Submissions` implements it with `Cap = Limit + (requests in flight -
1)`.

### ProgressViews (with MCProgressViews, ViewsProofs)

Extends `Submissions` with readers. A dashboard is built by the queries of
LoadDashboard one by one, interleaved with the writers: workspaces, tasks, then
count and best attempt per laboratory in any order (a Go map is iterated), then
the total. The instructor's list takes its student rows from a single query and
is an operator on the state (`OverviewValidated`). The page posts the validation
it shows with every draft (`app.js:2131`) and the server stores it unchecked
(`server.go:321-329`); the history variable `claimed` notes the laboratories for
which such a draft said "passed" when no recorded attempt had and some were left.

### LabRuntime (with MCLabRuntime, RuntimeProofs)

State: `ns` is what the cluster stores for each student and laboratory (phase of
the namespace, whether service account and role binding exist, the pod, whether
it has reached `maxAge`, and the cohort label), `pc` and `job` the requests in
EnsureLab or ServeTerminal, `gc` the names the collector has listed, `admin` a
deletion in progress. `fresh` holds the workers whose read of the namespace is
still the stored version (an update from any other read is a conflict). A
request carries the code its student's cohort had when its session was resolved:
the code may be changed and the student moved, so requests may disagree, and an
update that writes another label makes the copies others have read stale
(`Relabel`). One that writes the label that is there leaves the version alone.
`disturbed` and `admin.since` are history. One action is one API call; a
get-then-create pair whose outcome the create decides is one action. The actions
under "The cluster and the server process" are the environment, modelled from
what the code relies on: a deleted namespace terminates and goes later, a
deleted pod may stay Ready for its grace period, pods are evicted or deleted by
the student (whose role may edit the namespace), and the server may crash.

### TerminalPanel (with MCTerminalPanel, PanelProofs)

The terminal panel of `public/app.js`. State: `student` (is anybody on the
page), `cookie` (does the browser hold a session the server accepts), `xterm`
(has xterm.js been loaded), `active` (the laboratory on screen), `locked` (the
disabled button), `conn` (every opening: its POST, then its WebSocket with what
is typed and what is printed), `runtime` (`state.runtime`: the session, socket,
whether connected or streaming, and the command being tracked), `waiting` (the
steps inside the 180 ms pause), `completed` (the checklists). One action is one
handler of the page up to its next `await`: `PressOpen`, `OpenAnswer`,
`OpenBreaks` (the answer on a page without xterm.js: the session is noted and
`ensureTerminalInstance` throws) or `OpenFails`, `SocketAccepted` (the server,
which looks only at the session) and `SocketOpens` (the page), `SocketEnds` (the
"error" and "close" handlers, which do not know which socket they belong to),
`ClickStep`, `ClickStepInterrupting` then `SendWaiting`, `TypeLine`, `Receive`.
`ShellEnds` and `ShellInterrupted` are the other end. Page and session change
apart: `SessionStarts` and `SessionEnds` are the cookie, `Enter`,
`ChangeStudent` and `Logout` the page, and `Logout` clears the page also when
the server never got the request; `outlived` is history and says that there has
been a session while nobody was on the page. Output is cut at the prompts, which
is all the tracking looks at. `MaxInput` bounds commands and chunks per terminal
and waiting steps.

### StudentPage (with MCStudentPage, PageProofs)

The learning state of the same page and the requests that exchange it. State:
`page` (student, drafts, results, attempt counts per laboratory), `rows` (what
the server has stored), `cookie`, `calls` (the requests in flight, in `Slots`),
`late` and `mixed` (history). `Click`, `Handle` and `Arrive` are separate actions
of a request, so answers come in any order, after a switch, a logout or the next
student's login; a request keeps the cookie it was sent with. The button of a
save or a validation is disabled until its answer; those of the cohorts and of
the logout are not, so any number of logins and logouts may overlap (`mixed`).
The cookie changes with the headers of an answer (`CookieReceived`), the page
when its script runs. `Reload` takes the page through `initialize`. A text or
result is represented by the student it comes from, which is all the properties
tell apart. The server handles a request in one step here; its own interleavings
are in `Submissions` and `ProgressViews`, and what they do to the counts is kept:
a validation may be recorded although the limit is used up, by up to `Excess`
attempts, from this page or another device.

### Enrollment (with MCEnrollment, EnrollmentProofs)

State: the tables `admins`, `students`, `cohorts`, `enrolled`, `sessions`; `pc`
and `req` of the requests that take several statements; `taken`, `moved`,
`left` are history. What takes several statements is

| request | actions |
|---|---|
| first instructor | `CountAdmins`, `InsertAdmin` |
| deletion of a cohort | `CountStudents`, `DeleteCohort` |
| login | `FindEnrolled`, `LoadDashboard`, `CreateSession` |
| a request with a cookie | `StartRequest`, `ReadSession`, `ReadStudent`, `ReadCohort`, `Serve` |

and `Abandon` ends any of them early. Registrations, moves and deletions of
students are transactions, hence one action. An identifier or token is never
given twice (AUTOINCREMENT; 32 random bytes), so a column can be `None` before
the row, and `Gone` after. Whether today is inside a cohort's window is a
Boolean that `NewDay` flips. `Logout` may leave the session where it is, as
handleLogout ignores an error of DeleteSession (`httpapi/auth.go:303`).

### AdminPanel (with MCAdminPanel, AdminProofs)

The instructor's page. State: `admin`, `filter`, `list`, `selected`, `detail`
are those of `state` in the code, `form` is the enrolment the grade form was
rendered for, `modal` the open dialog, `synced` whether the status line says that
the panel is synchronised, `calls` the handlers that wait for an answer;
`strayed` and `crossed` are history. One action is one handler up to its next
await:

| actions | code |
|---|---|
| `Enter`, `Entered`, `Leave`, `Left` | the forms of the gate, enterAdminMode, leaveAdminMode |
| `ChangeFilter`, `Refresh`, then `Loaded`, `Detailed` | loadOverview, which goes on into loadStudentDetail in the same handler |
| `Select`, then `Detailed` | a click on a row |
| `SubmitGrade`, `Graded` | gradeForm |
| `OpenDialog`, `Dismiss`, `SubmitDialog`, `ConfirmRemoval`, `DialogFails`, `DialogAnswered`, `Removed` | openAdminModal, closeAdminModal, the submit handler, and the handlers of the rows |
| `SubmitEnrolment`, `Enrolled`, `SubmitCohort`, `CohortSaved` | the two forms |
| `Fails` | the catch of each of them |

The server is left open: a list or a detail may hold any rows that fit the
query, so that the properties do not depend on what else changes the database.

### AccessGate (with MCAccessGate, GateProofs)

The registration page and the login of the student page, in one browser. State:
`page` (which of them, and how far it is), the fields, `disabled`, `timer` (the
redirect after 900 ms), `hint` (what it passes on), `lookup` and `picker` (the
cohorts found, and those whose buttons are shown: the code keeps them in
different places), `student`, `cookie`, `calls`, and the server's `enrolled`. A
call is sent, handled by the server, its cookie is received, and its script goes
on: four steps, between which fields are edited, pages left, and other calls
handled. `CallFails` ends a call before or after the server has handled it. A
password is the student whose it is. Saves and refreshes of the classroom are
calls too (`ClickWork`): their answer names a student, and the page takes that
student for signed in even after the logout (`WorkAnswered`), without clearing
the password on the form as a login does; `revived` is the history of that, and
`mixed` that of logins and logouts that overlap. `Initialize` is the start of
the login page, with a live session or the hint of a redirect.

## Runs

TLC checks deadlock nowhere: once every student is deleted and every request
answered, or the browser is left alone, the system may rightly stop.

| run | question | bounds |
|---|---|---|
| `Submissions` | how far can racing requests pass the limit, is anyone refused too early, is every attempt accounted for, are solution and tasks stored together, does anything survive a deletion, is the table the abstract log | 2 requests of both kinds, abandoned anywhere, limit 2, a payload of one task |
| `SubmissionsLimit` (violation) | the limit the student is shown | 2 requests |
| `DashboardReaders` | is a dashboard consistent with the attempts on record; what does a laboratory the instructor sees as validated rest on | 1 writer that validates and posts drafts with a validation that passed, 1 reader, 2 laboratories, limit 2 |
| `RuntimeSafety` | who may make EnsureLab fail; is a student deleted only after their environments | 2 requests of both kinds, 2 cohort codes, failures, evictions, crashes |
| `RuntimeCleanup` | is every environment removed in the end | 1 request at a time, failures, evictions, crashes, fairness |
| `PanelSafety` | which terminal does the page show, use and credit; does the button come back | 2 openings at once, 2 laboratories with and 1 without a terminal, 1 command per terminal with a ^C behind it, with and without xterm.js |
| `PageSafety` | is the count shown ever ahead of the record; whose work is stored for whom | 2 students, 1 laboratory, limit 1, 1 attempt past it, 2 requests in flight |
| `PageSwitch` (violation) | is the stored result always the student's own | the same |
| `EnrollmentSafety` | who is enrolled where, whose session lets a request pass, how many first instructors | 2 students, 2 cohorts and codes, 1 token, 2 requests, 3 instructors' names |
| `AdminSafety` | for whom is a grade sent, what does a dialog wait for, what is removed, whose cohort is on the screen | 2 students in 2 cohorts, 2 handlers at once |
| `AdminDialog` (violation) | is nothing ever removed without its own confirmation | the same |
| `GateSafety` | whose cohorts are offered, what does the redirect claim, who is signed in, what is left behind, does the button come back | a student enrolled and one who may register, 1 cohort, 2 calls in flight |

Two requests are enough for every race of the code between a read and the write
that depends on it; that the excess grows with the requests is proved
(`Bounded`). Two results (failed, passed) are all the code can tell
apart beyond the order of scores. Two openings are enough for a terminal and
the one that replaces it, whose late close is the interesting event; the third
opening is the first again, since a closed one is collected. `PanelSafety` has
a second and a third laboratory because a switch may lead to one with a
terminal or to one without, where the button stays disabled. In `PageSafety`
the two requests in flight are one of the earlier student and one of the next.
In `EnrollmentSafety` the third name makes one instructor too many possible, and
the second cohort makes moves and changes of code possible. In `AdminSafety` two
handlers are enough for an answer that arrives after the state it was asked in,
and two cohorts for a filter that excludes somebody; that more handlers or
students change nothing is proved (`AdminProofs`).
In `GateSafety` two calls are a login and the logout, lookup or registration it
overlaps, or a save and the logout before its answer.

Students, workers, laboratories, openings and calls that are interchangeable are
symmetric. That is sound for action properties, and for the two liveness
properties checked under symmetry too (`OpenReturns`, `ButtonReturns`): neither
they nor their fairness name a single opening, call or laboratory, so a
permutation leaves them as they are. `RuntimeCleanup`, whose fairness is stated
per worker and namespace, uses no symmetry.

Two runs have a VIEW. That of `PanelSafety` leaves out the laboratory of a socket
that is not used, closing or closed: no action reads it before it is set again.
In `PageSafety`, as long as turns have not mixed, the view is the whole state.
From then on, for good, `WorkIsOwn` says nothing, and states that differ only in
texts, results and histories count as one: none of these decides what becomes of
the attempts, so `CountNeverAhead` is checked in all of them, and `PageTypeOK` in
one of each class (`PageTypeCorrect` proves it of all).

### What the violations show

* `SubmissionsLimit`: count, check and insert are separate statements; two
  requests pass the check together and one attempt too many is recorded.
* `PageSwitch`: the answer to a validation that arrives after its student has
  left is stored on the page; the next student takes it over and saves it.
* `AdminDialog`: an edit is submitted and its dialog dismissed while the request
  is under way; the answer arrives when the dialog of a removal is open, closes
  that one, and its handler takes the result for the confirmation.

### Behaviours the models have that no property forbids

No doc or test promises otherwise, so there is no run for them; they are listed
under `hazards` with their lines.

* Of two overlapping validations the one that read first may write the
  workspace last, and the instructor's list then loses a passed laboratory.
* The wait for a pod ignores deletion timestamps, so an environment on its way
  out is reported ready; the wait for a removal polls by name and can miss it.
* The first prompt in the output ends the tracked command, so a prompt of an
  earlier command can credit a later one of the same laboratory.
* The close event of a replaced socket declares the new terminal closed, and
  the opening of a socket ticks the task of the laboratory on screen.
* A validation refused for the limit still writes its result into the workspace
  the instructor's list reads: a laboratory may count as validated by an attempt
  that is not on record. `OverviewFounded` says what the list can rely on.
* The access window of a cohort is read at the login only; a session outlives
  it by up to 18 hours.
* An edit of a student deletes and inserts the enrolment, and with it the final
  grade and the notes.
* Of two changes of the instructor's filter that are answered in the opposite
  order the first one's list stays (`FilterRestricts` excludes it through
  `crossed`); a detail that arrives late selects its student whoever was; when
  the first list fails to load, the panel attaches no listener at all.
* A registration whose answer is lost has been made; the retry is refused and no
  redirect follows.
* Text typed while a request is under way is replaced by its answer.
* The answer to a save or a refresh that arrives after the logout signs the
  student in again, with no session and with what has been typed on the form
  meanwhile, although `app.js:2506` has just asked for e-mail, password and
  cohort (`revived`, `late`).
* When the request of a logout fails, the page is cleared and says that the
  terminal was closed (`app.js:1963`), but cookie and session live on: an opening
  that was under way still connects its terminal, on a page with nobody on it
  (`outlived`). A DeleteSession that fails leaves the session alive as well.
* Logins and logouts that overlap leave the page of one student with the cookie
  of another, and what is saved then is stored for the other (`mixed`).
* Where xterm.js is missing, the answer to an opening leaves a session without a
  socket.
* Two requests that carry different codes of a cohort can make each other's
  Update of the namespace fail.
* A draft may bring in a validation that passed although no attempt has
  (`claimed`).
* A student who registers between the count and the DELETE of a cohort is left
  without one; two first instructors may be created; sessions stay in the
  cohort they were opened in when the student moves.

### Fairness

`LabRuntime!Fairness`: goroutines keep running and waits have deadlines (WF on
the steps of a request and of a deletion), the ticker of the collector keeps
ticking (WF), Kubernetes removes what is deleted (WF), time passes (WF), and a
purge the collector attempts every half hour does not fail or fall into a crash
every time (SF). Nobody is forced to open, close or delete anything.

`TerminalPanel!Fairness`: of the POSTs under way that open a terminal one is
answered or fails in the end (the server gives each 90 seconds). `OpenReturns`
needs nothing else.

`AccessGate!Fairness`: a form that was sent is answered or fails, as the browser
gives up on a dead connection (WF on `Settle` of the form in flight). Nothing is
assumed of the other calls, and nobody is forced to submit, edit or leave
anything, nor is the redirect.

## Proofs

`SubmissionsProofs` proves for every value of the constants, from
`ConstantsAssumption` only:

* `TypeCorrect`: the type invariant;
* `Reserved`, `Bounded`: the attempts of a laboratory exceed the limit by at
  most the requests in flight less one. `AttemptsBounded` is not inductive: a
  request past the check may insert at any time. `AttemptsReserved` counts those
  requests too; a request that passes the check joins them only below the limit,
  and an insert trades one for a row;
* `ExactWhenSequential`: with one request at a time the limit is exact;
* `RefusalsOnlyAtLimit`: from `RefusalFounded`, the attempts on record only
  shrink with their student, so a count read at the limit stays founded;
* `Accounted`: `AttemptsAccounted` is inductive with the types: an insert adds
  the row and puts its request at the statement after it, and whatever ends
  that request counts it;
* `StoredWhole`: `SavedTogether` and `DeletedForGood`, of which `DeletedStayGone`
  is the second alone;
* `Refinement`: every step of `Submissions` is a step of `AttemptLog` or a
  stutter.

`EnrollmentProofs` proves from `EnrollmentAssumption` (distinct null values, and
finitely many requests):

* `EnrollmentTypeCorrect`: the type invariant, with what a worker has read at
  each label;
* `StudentsEnrolledOnce`, `AllSessionsFounded`: both follow from
  `EnrollmentInv`. Neither is inductive alone: a login reads the enrolment two
  statements before it inserts the session, so `LoginsFounded` says what still
  holds of the pair a worker has read (as long as both rows are there, the
  student is enrolled there or has moved); a deletion of a cohort must not have
  counted anybody (`NoneCounted`); and an enrolment must refer to rows that
  exist (`RowsExist`), or a cascade could miss it;
* `EndedStayOut`: from `EndedInv`, the token of a session that was logged out
  has no row any more, rows never come back (`EndedForGood`), and a request that
  began too late does not get past its SELECT;
* `InstructorsBounded`: `AdmittedBounded` is inductive once it says that the
  instructors there are and those on their way are finitely many.

`AdminProofs` proves from `AdminAssumption` and `NullAssumption` (the null value
is none of the others), for any number of students, cohorts and handlers:

* `AdminTypeCorrect`: the type invariant; it needs that a request for a detail,
  grade or cohort is about one (`Founded`), since its answer becomes the state;
* `FormIsOfTarget`, `GradesEntered`: from `FormInv`. The row of the list that
  gradeForm falls back on could differ from the form, but is never used:
  whoever is selected has a detail, and the form is rendered with every detail;
* `DialogsWait`, `Confirmed`: from `DialogInv`. As long as no dialog was
  dismissed with its request under way, the request of an edit is that of the
  open dialog and there is one at most, so its answer cannot reach another one;
* `FilterKept`: `FilterRestricts` is not inductive, since answers become the
  list. `FilterInv` says that, unless two queries were under way at once, a
  request for the list is about the filter on the screen, the detail that ends a
  reload comes when the list fits that filter, and nobody's detail is shown
  while nobody is selected (or an empty list would leave a stranger's form).

`PanelProofs` proves from `PanelAssumption`, for any number of laboratories,
commands and openings that overlap:

* `PanelTypeCorrect`: the type invariant;
* `OnlyTerminal`, `ConnectedOpen`, `LogoutEnds`: all three follow from
  `PanelInv`. Of the three, `OneTerminal` is needed for the other two, because an
  event does not say which socket it belongs to; and a terminal that opens is of
  the laboratory of the session only by `LiveIsSession`. `SignedOut` carries
  `LogoutEnds`: with nobody on the page and no session since, the server accepts
  no socket and none that it accepted is left, although `Logout` itself ends no
  session. `Unloaded` says that a page without xterm.js never has a socket, which
  is why `PanelTypeOK` ties session and socket only where it is loaded;
* `CreditWhereRun`: from `PendingIsSession`, the part of `PanelInv` that says of
  a tracked command whose output ticks a step that it is of the laboratory of the
  session.

`PageProofs` proves from `PageAssumption` and `NullAssumption`, for any number of
students, laboratories and requests in flight:

* `PageTypeCorrect`: the type invariant; it needs that a dashboard is there when
  an answer says so, and is of a student (`Founded`). A count is at most
  `Limit + Excess`; how far racing validations pass the limit is `Bounded` of
  `SubmissionsProofs`;
* `CountIsNeverAhead`: `CountNeverAhead` is not inductive, since an answer on its
  way becomes the page. `CountInv` says the same of the dashboards in flight, and
  the counts on record only grow (`AttemptsGrow`), so an old one stays behind;
* `WorkStaysOwn`: from `OwnInv`. As long as no stale answer was used and no login
  or logout was sent during another one, there is at most one login or logout in
  flight (`Entering`); the live session, if any, is that of the student on the
  page; what the page holds is theirs; and what any request carries, stale or
  not, is of the session it carries. Without the second condition it is false of
  the code: the answers of two logins arrive in one order and their cookies in
  the other.

`GateProofs` proves from `GateAssumption` and `NullAssumption`, for any number of
students, cohorts and calls in flight:

* `GateTypeCorrect`: the type invariant, of which "a form is not sent twice at
  once" needs that a call is of the page it was sent from (`Founded`) and that
  the button is disabled while a form is in flight;
* `PickerOfForm`: from `PickerInv`. While a lookup is in flight nothing is
  listed, and unless the form was changed (`crossed`) its credentials are those
  of the lookup, so the list it brings is theirs; an edit, a refusal, or a
  student who comes or goes empties the list;
* `HintOfRegistration`: from `HintInv`. The redirect reads the fields when its
  timer fires: while it waits they are those of a registration on record, unless
  they were edited, and so they are when the answer that schedules it arrives;
* `PageOfSession`: `PageIsCookie` is not inductive, since the cookie of a login
  is set before its script goes on. `CookieInv` says that logins and logouts that
  do not overlap are at most one, a login before and a logout after its student
  is shown, that a cookie which was received is still there, and that the answer
  to work which was not crossed is of the student of the page. A page revived by
  former work is left out: there the equality is false;
* `NothingLeft`: `LeavesNothing`, from `PasswordInv`: the logout does not touch
  the password, but there is none outside the login form unless former work
  revived its student, which does not clear what was typed meanwhile.

`RuntimeProofs` proves from `RuntimeAssumption` (the null key is neither a key
nor a student), for any number of students, laboratories and requests of both
kinds:

* `RuntimeTypeCorrect`: the type invariant, from itself;
* `ErrorsDisturbed`: an action property, so what is needed is an invariant of
  the states before the step. `DisturbInv` says that what an undisturbed request
  has found or made is still there: its namespace does not terminate, is at the
  version it has read where it is about to update it (a request that writes
  another label disturbs those who have read the old one), and has its service
  account where it is about to create the pod. Every step does one of four
  things to a namespace (`Moves`: nothing, a deletion that disturbs whoever it
  serves, its end, a creation), which `AllMoves` shows once for all actions;
* `PurgedFirst`: from `PurgeInv`. While a deletion goes through the namespaces
  it has listed, an active one of its student is still to be purged or was
  created since, unless a purge has failed; and the row is only reached with
  nothing left and no failure.

`ViewsProofs` proves from `ConstantsAssumption` and `ViewsAssumption`, for any
number of dashboards and requests and any finite set of laboratories. The
latter says that the catalogue is finite, and that a result that passed has the
highest score there is: the score is the rounded percentage of the checks that
passed (`validation/service.go:132-145`), and every laboratory of
`validators.json` has checks.

* `ReadersOnlyRead`: a behaviour of the composition is one of `Submissions`, so
  what `SubmissionsProofs` says holds here too;
* `DashboardsFresh`, `DashboardsAddUp`: from `ReadersInv`, which says of a
  dashboard at every stage what it has read (`ReadFrom`): each number is that of
  a moment since it began. Attempts are only added, at the end (`AttemptsExtend`),
  so what was read stays true while the student is there (`ReadStays`). That the
  sum of the counts is at most the number of attempts is `SumsMonotone`, by
  induction on the size of a finite set. The induction is over a set of numbers
  (`NumbersFromZero`, from the well-foundedness of <): it needs no operator as a
  parameter;
* `OverviewsFounded`: `OverviewFounded` is about the workspaces alone;
  `VerdictInv` adds what the requests hold that will be saved (`Held`). A refused
  attempt is saved only at the limit, which is `RefusalsOnlyAtLimit`. Nothing is
  assumed of the pages: a draft may bring in any validation, and is named by the
  theorem (`claimed`) when that had no foundation as it was posted. What is shown
  is that the server never loses a foundation, by no overwriting of a workspace.
  `PageSwitch` is a case in which a page posts the result of another student.

Liveness (`OpenReturns`, `ButtonReturns`, `EnvironmentsEnd`,
`DeletedLeaveNothing`) stays with TLC: the provers handle neither ENABLED nor
fairness.

## Not modelled

Formatting, parsing, markup, the text of messages and the matching of manifests
are left out. `PROJECT.json` gives the reason for every component left out. Of
the two clients, routing, the rendering of lists and laboratories, pages of
lists, toasts and the journal of guided steps are left out: they are functions
of the state that is modelled, or state that nothing else reads.

* The terminal bridge: the three goroutines of ServeTerminal copy bytes between
  a WebSocket and the Kubernetes API; when they end depends on how the client
  library closes its streams, which the repository does not say. That the end of
  a terminal, however it comes, leads to the removal of its environment is part
  of `LabRuntime`.
* The validation service: text matching without state, and one rounded average.

## Plan

Every invariant and every action property of the passing runs is proved. What a
further step could add:

1. `OverviewFounded` with the page in place of `claimed`: the composition of
   `StudentPage` and `ProgressViews`, with `PageSwitch` excluded.
2. The steps the liveness of environments rests on, which need no fairness: an
   environment nobody serves is one the collector can list, and what it has
   listed it can purge.
