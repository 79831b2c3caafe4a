----------------------------- MODULE AdminPanel -----------------------------
(***************************************************************************)
(* The instructor's page (public/admin.js): the list of students under the *)
(* filter by cohort, the detail of one of them with the form of the final  *)
(* grade, and the dialogs that edit and delete students and cohorts.       *)
(*                                                                         *)
(* Every handler runs up to its next await.  A call below is one handler   *)
(* that waits for an answer; several may wait at once and the answers come *)
(* in any order.  The handlers that change something reload the list in    *)
(* the same call (loadOverview), and the list reloads the detail of the    *)
(* selected student.                                                       *)
(*                                                                         *)
(* Abstractions: the server is left open, a list or a detail may hold any  *)
(* rows that fit the query; a row is its enrolment, and so is the content  *)
(* of the grade form, which is that of the enrolment it was rendered for;  *)
(* what the search box hides is chosen when it is read; the code of a      *)
(* cohort does not change; an open dialog covers the page; a live session  *)
(* found when the page loads is a login, as no listener is attached before *)
(* the list has loaded.  Routes, pages of lists and wording are left out.  *)
(***************************************************************************)
EXTENDS FiniteSets

CONSTANTS
  Enrolments,  \* pairs of a student and a cohort
  Calls,       \* bound on the handlers that wait at once
  All,         \* the filter that shows every cohort
  None         \* null

Students == {e[1] : e \in Enrolments}
Cohorts == {e[2] : e \in Enrolments}
Filters == Cohorts \cup {All}
Rows == Enrolments \cup {None}

ASSUME AdminAssumption ==
  /\ Enrolments \subseteq Students \X Cohorts
  /\ All \notin Cohorts
  /\ None \notin Enrolments \cup Students \cup Cohorts

(* The dialogs with fields send a request (onSubmit); those that confirm a *)
(* removal only resolve.                                                   *)
EditDialogs == {"editStudent", "editCohort"}
RemovalDialogs == {"removeStudent", "removeCohort"}

Dialogs ==
  [kind : EditDialogs \cup RemovalDialogs, about : Students \cup Cohorts, busy : BOOLEAN]

(* The requests whose answer changes what is listed or shown. *)
Queries == {"overview", "detail", "grade", "leave"}

(* Buttons that are disabled until their handler has ended. *)
Locks == {"login", "refresh", "grade", "enrol", "cohort"}

Requests ==
  [what   : {"enter", "leave", "overview", "detail", "grade", "enrol", "cohort"}
              \cup EditDialogs \cup RemovalDialogs,
   by     : Locks \cup {None},
   about  : Rows \cup Students \cup Cohorts,
   query  : Filters,     \* the cohortCode of a list or a detail
   keep   : BOOLEAN,     \* preserveSelection of a list, silent of a detail
   text   : Rows,        \* what the grade form shows when it is sent
   asked  : BOOLEAN]     \* history: was its own dialog confirmed?

ASSUME NullAssumption == None \notin Dialogs /\ None \notin Requests

VARIABLES
  admin,     \* state.admin: is the panel shown?
  filter,    \* selectedCohortCode
  list,      \* overview.students; None before the first overview
  selected,  \* selectedStudentId
  detail,    \* selectedDetail
  form,      \* the enrolment the grade form was rendered for
  modal,     \* the open dialog, or None
  synced,    \* is the status "Painel administrativo sincronizado."?
  calls,     \* the handlers that wait for an answer
  strayed,   \* history: a dialog was dismissed with its request under way
  crossed    \* history: two of Queries were under way at once

page == <<admin, filter, list, selected, detail, form, synced>>
vars == <<admin, filter, list, selected, detail, form, modal, synced, calls,
          strayed, crossed>>

AdminTypeOK ==
  /\ admin \in BOOLEAN
  /\ filter \in Filters
  /\ list \in (SUBSET Enrolments) \cup {None}
  /\ selected \in Students \cup {None}
  /\ detail \in Rows
  /\ form \in Rows
  /\ modal \in Dialogs \cup {None}
  /\ synced \in BOOLEAN
  /\ calls \in [Calls -> Requests \cup {None}]
  /\ strayed \in BOOLEAN
  /\ crossed \in BOOLEAN

Init ==
  /\ admin = FALSE
  /\ filter = All
  /\ list = None
  /\ selected = None
  /\ detail = None
  /\ form = None
  /\ modal = None
  /\ synced = FALSE
  /\ calls = [c \in Calls |-> None]
  /\ strayed = FALSE
  /\ crossed = FALSE

-----------------------------------------------------------------------------
(* Lists, details and requests *)

Fits(e, k) == k \in {All, e[2]}

(* The first row of a student; None when the list has none. *)
RowOf(rows, s) ==
  IF \E e \in rows : e[1] = s THEN CHOOSE e \in rows : e[1] = s ELSE None

Listed == IF list = None THEN {} ELSE list

(* Whom the grade form is saved for: selectedDetail, else the summary.     *)
Target == IF detail # None THEN detail ELSE RowOf(Listed, selected)

Request(what, by, about) ==
  [what |-> what, by |-> by, about |-> about, query |-> All,
   keep |-> FALSE, text |-> None, asked |-> TRUE]

(* Mutant of Query: the cohort is not part of the query. *)
Query_Everyone(k) == All

Query(k) == k

(* The request of loadOverview, under filter k.                            *)
Overview(by, keep, k) ==
  [Request("overview", by, None) EXCEPT !.keep = keep, !.query = Query(k)]

(* The request of loadStudentDetail. *)
Detail(by, s, silent) ==
  [Request("detail", by, s) EXCEPT !.keep = silent, !.query = Query(filter)]

(* An event of the page behind the dialogs starts a handler. *)
Starts(c, by) ==
  /\ calls[c] = None
  /\ modal = None
  /\ \A d \in Calls : calls[d] # None => by = None \/ calls[d].by # by

Waits(c, whats) == calls[c] # None /\ calls[c].what \in whats

(* Call c goes on with request r, or ends. *)
Put(c, r) ==
  /\ calls' = [calls EXCEPT ![c] = r]
  /\ crossed' = (crossed \/ (/\ r # None /\ r.what \in Queries
                            /\ \E d \in Calls \ {c} : Waits(d, Queries)))
Done(c) == Put(c, None)

-----------------------------------------------------------------------------
(* What the instructor does *)

(* The forms of the first access and of the login. *)
Enter(c) ==
  /\ ~admin
  /\ Starts(c, "login")
  /\ Put(c, Request("enter", "login", None))
  /\ UNCHANGED <<page, modal, strayed>>

Leave(c) ==
  /\ admin
  /\ Starts(c, None)
  /\ Put(c, Request("leave", None, None))
  /\ UNCHANGED <<page, modal, strayed>>

(* The selection is dropped at once, but nothing is rendered before the    *)
(* list arrives.                                                           *)
ChangeFilter(c, k) ==
  /\ admin
  /\ Starts(c, None)
  /\ filter' = k
  /\ selected' = None
  /\ detail' = None
  /\ synced' = FALSE
  /\ Put(c, Overview(None, FALSE, k))
  /\ UNCHANGED <<admin, list, form, modal, strayed>>

Refresh(c) ==
  /\ admin
  /\ Starts(c, "refresh")
  /\ synced' = FALSE
  /\ Put(c, Overview("refresh", TRUE, filter))
  /\ UNCHANGED <<admin, filter, list, selected, detail, form, modal, strayed>>

(* A click on a student shows the row at once and asks for the detail.     *)
Select(c, s) ==
  /\ admin
  /\ Starts(c, None)
  /\ RowOf(Listed, s) # None
  /\ selected' = s
  /\ detail' = RowOf(Listed, s)
  /\ form' = detail'
  /\ synced' = FALSE
  /\ Put(c, Detail(None, s, FALSE))
  /\ UNCHANGED <<admin, filter, list, modal, strayed>>

(* The grade goes to the enrolment the page has selected. *)
SubmitGrade(c) ==
  /\ admin
  /\ Starts(c, "grade")
  /\ Target # None
  /\ Put(c, [Request("grade", "grade", Target) EXCEPT !.text = form])
  /\ UNCHANGED <<page, modal, strayed>>

SubmitEnrolment(c, k) ==
  /\ admin
  /\ Starts(c, "enrol")
  /\ Put(c, Request("enrol", "enrol", k))
  /\ UNCHANGED <<page, modal, strayed>>

SubmitCohort(c, k) ==
  /\ admin
  /\ Starts(c, "cohort")
  /\ Put(c, Request("cohort", "cohort", k))
  /\ UNCHANGED <<page, modal, strayed>>

-----------------------------------------------------------------------------
(* The dialogs *)

(* The buttons of a row of the students, or of the cohorts. *)
OpenDialog(kind, about) ==
  /\ admin
  /\ modal = None
  /\ IF kind \in {"editStudent", "removeStudent"}
     THEN RowOf(Listed, about) # None ELSE list # None /\ about \in Cohorts
  /\ modal' = [kind |-> kind, about |-> about, busy |-> FALSE]
  /\ UNCHANGED <<page, calls, strayed, crossed>>

(* Mutant of Dismiss: a dialog that is closed counts as confirmed. *)
Dismiss_Confirms ==
  /\ modal # None
  /\ modal' = None
  /\ IF modal.kind \in RemovalDialogs /\ \E c \in Calls : calls[c] = None
     THEN LET c == CHOOSE d \in Calls : calls[d] = None
          IN Put(c, [Request(modal.kind, None, modal.about) EXCEPT !.asked = FALSE])
     ELSE UNCHANGED <<calls, crossed>>
  /\ strayed' = (strayed \/ modal.busy)
  /\ UNCHANGED page

(* Cancel, the cross, a click beside the dialog, or Escape: the handler    *)
(* that opened it ends.  A request under way is not called off.            *)
Dismiss ==
  /\ modal # None
  /\ modal' = None
  /\ strayed' = (strayed \/ modal.busy)
  /\ UNCHANGED <<page, calls, crossed>>

(* Save: the fields are sent, the button waits for the answer. *)
SubmitDialog(c) ==
  /\ modal # None /\ modal.kind \in EditDialogs /\ ~modal.busy
  /\ calls[c] = None
  /\ modal' = [modal EXCEPT !.busy = TRUE]
  /\ Put(c, Request(modal.kind, None, modal.about))
  /\ UNCHANGED <<page, strayed>>

(* Delete: the dialog closes and the handler that opened it goes on. *)
ConfirmRemoval(c) ==
  /\ modal # None /\ modal.kind \in RemovalDialogs /\ ~modal.busy
  /\ calls[c] = None
  /\ modal' = None
  /\ Put(c, Request(modal.kind, None, modal.about))
  /\ UNCHANGED <<page, strayed>>

(* Mutant of DialogFails: the button stays disabled. *)
DialogFails_Locked(c) ==
  /\ Waits(c, EditDialogs)
  /\ Done(c)
  /\ UNCHANGED <<page, modal, strayed>>

(* The request is refused: the dialog that is open now says so. *)
DialogFails(c) ==
  /\ Waits(c, EditDialogs)
  /\ Done(c)
  /\ modal' = IF modal = None THEN None ELSE [modal EXCEPT !.busy = FALSE]
  /\ UNCHANGED <<page, strayed>>

(* The answer closes the dialog that is open now and resumes the handler   *)
(* that opened it, with this result: an edit reloads the list when the     *)
(* result is of its kind, a removal takes any result for a confirmation.   *)
DialogAnswered(c) ==
  /\ Waits(c, EditDialogs)
  /\ modal' = None
  /\ IF modal = None \/ modal.kind \in EditDialogs \ {calls[c].what}
     THEN Done(c) /\ UNCHANGED <<filter, synced>>
     ELSE IF modal.kind \in RemovalDialogs
     THEN /\ Put(c, [Request(modal.kind, None, modal.about) EXCEPT !.asked = FALSE])
          /\ UNCHANGED <<filter, synced>>
     ELSE /\ filter' = IF modal.kind = "editCohort" THEN calls[c].about ELSE filter
          /\ synced' = FALSE
          /\ Put(c, Overview(None, FALSE, filter'))
  /\ UNCHANGED <<admin, list, selected, detail, form, strayed>>

-----------------------------------------------------------------------------
(* The answers *)

(* A refused request, or no answer: a message, in the status of the panel  *)
(* or of a form; the button is free again.                                 *)
Fails(c) ==
  /\ calls[c] # None /\ ~Waits(c, EditDialogs \cup {"leave"})
  /\ Done(c)
  /\ synced' \in {synced, FALSE}
  /\ UNCHANGED <<admin, filter, list, selected, detail, form, modal, strayed>>

(* enterAdminMode, then the list. *)
Entered(c) ==
  /\ Waits(c, {"enter"})
  /\ admin' = TRUE
  /\ synced' = FALSE
  /\ Put(c, Overview(calls[c].by, FALSE, filter))
  /\ UNCHANGED <<filter, list, selected, detail, form, modal, strayed>>

(* leaveAdminMode, whether or not the server has answered. *)
Left(c) ==
  /\ Waits(c, {"leave"})
  /\ admin' = FALSE
  /\ filter' = All
  /\ list' = None
  /\ selected' = None
  /\ detail' = None
  /\ Done(c)
  /\ UNCHANGED <<form, modal, synced, strayed>>

(* The list: the selection is dropped or kept if it is still visible, else *)
(* the first visible student is selected and shown by the row, and asked   *)
(* for.                                                                    *)
Loaded(c) ==
  /\ Waits(c, {"overview"})
  /\ \E rows \in SUBSET {e \in Enrolments : Fits(e, calls[c].query)},
        found \in SUBSET Students :
       LET visible == {e[1] : e \in rows} \cap found
           kept == IF calls[c].keep /\ selected \in visible THEN selected ELSE None
           shown == IF calls[c].keep /\ selected \in visible \cup {None} THEN detail ELSE None
       IN /\ list' = rows
          /\ selected' \in IF kept # None THEN {kept}
                           ELSE IF visible # {} THEN visible ELSE {None}
          /\ detail' = IF shown # None THEN shown ELSE RowOf(rows, selected')
  /\ form' = detail'
  /\ Put(c, IF selected' = None THEN None ELSE Detail(calls[c].by, selected', TRUE))
  /\ synced' = (selected' = None)
  /\ UNCHANGED <<admin, filter, modal, strayed>>

(* Mutant of Detailed: only the list is rendered. *)
Detailed_ListOnly(c) ==
  /\ Waits(c, {"detail"})
  /\ \E e \in Enrolments :
       e[1] = calls[c].about /\ Fits(e, calls[c].query) /\ detail' = e
  /\ selected' = calls[c].about
  /\ synced' = calls[c].keep
  /\ Done(c)
  /\ UNCHANGED <<admin, filter, list, form, modal, strayed>>

(* The detail: its student is selected, whoever was.  It ends a reload of  *)
(* the list, or a click on a student.                                      *)
Detailed(c) ==
  /\ Waits(c, {"detail"})
  /\ \E e \in Enrolments :
       e[1] = calls[c].about /\ Fits(e, calls[c].query) /\ detail' = e
  /\ selected' = calls[c].about
  /\ form' = detail'
  /\ synced' = calls[c].keep
  /\ Done(c)
  /\ UNCHANGED <<admin, filter, list, modal, strayed>>

(* The detail of the graded enrolment, which also replaces every row of    *)
(* its student.                                                            *)
Graded(c) ==
  /\ Waits(c, {"grade"})
  /\ detail' = calls[c].about
  /\ list' = IF list = None THEN None
             ELSE {IF e[1] = calls[c].about[1] THEN calls[c].about ELSE e : e \in list}
  /\ form' = detail'
  /\ synced' = FALSE
  /\ Done(c)
  /\ UNCHANGED <<admin, filter, selected, modal, strayed>>

(* Mutant of Removed: the filter of a removed cohort becomes null. *)
Removed_NullFilter(c) ==
  /\ Waits(c, RemovalDialogs)
  /\ selected' = IF calls[c].about = selected THEN None ELSE selected
  /\ detail' = IF calls[c].about = selected THEN None ELSE detail
  /\ filter' = IF calls[c].about = filter THEN None ELSE filter
  /\ synced' = FALSE
  /\ Put(c, Overview(None, FALSE, filter'))
  /\ UNCHANGED <<admin, list, form, modal, strayed>>

(* The removal was done: what is selected goes with it, the list is loaded. *)
Removed(c) ==
  /\ Waits(c, RemovalDialogs)
  /\ LET gone == calls[c].about = selected IN
       /\ selected' = IF gone THEN None ELSE selected
       /\ detail' = IF gone THEN None ELSE detail
  /\ filter' = IF calls[c].about = filter THEN All ELSE filter
  /\ synced' = FALSE
  /\ Put(c, Overview(None, FALSE, filter'))
  /\ UNCHANGED <<admin, list, form, modal, strayed>>

(* The list is loaded if it may show the student who was enrolled. *)
Enrolled(c) ==
  /\ Waits(c, {"enrol"})
  /\ IF filter \in {All, calls[c].about}
     THEN synced' = FALSE /\ Put(c, Overview("enrol", FALSE, filter))
     ELSE UNCHANGED synced /\ Done(c)
  /\ UNCHANGED <<admin, filter, list, selected, detail, form, modal, strayed>>

(* The filter moves to the cohort that was saved; what is selected stays   *)
(* until the list arrives.                                                 *)
CohortSaved(c) ==
  /\ Waits(c, {"cohort"})
  /\ filter' = calls[c].about
  /\ synced' = FALSE
  /\ Put(c, Overview("cohort", FALSE, filter'))
  /\ UNCHANGED <<admin, list, selected, detail, form, modal, strayed>>

Acts(c) ==
  \/ Enter(c)
  \/ Leave(c)
  \/ \E k \in Filters : ChangeFilter(c, k)
  \/ Refresh(c)
  \/ \E s \in Students : Select(c, s)
  \/ SubmitGrade(c)
  \/ \E k \in Cohorts : SubmitEnrolment(c, k) \/ SubmitCohort(c, k)
  \/ SubmitDialog(c)
  \/ ConfirmRemoval(c)

Answers(c) ==
  \/ Fails(c)
  \/ DialogFails(c)
  \/ DialogAnswered(c)
  \/ Entered(c)
  \/ Left(c)
  \/ Loaded(c)
  \/ Detailed(c)
  \/ Graded(c)
  \/ Removed(c)
  \/ Enrolled(c)
  \/ CohortSaved(c)

Next ==
  \/ \E c \in Calls : Acts(c) \/ Answers(c)
  \/ \E kind \in EditDialogs \cup RemovalDialogs, about \in Students \cup Cohorts :
       OpenDialog(kind, about)
  \/ Dismiss

Spec == Init /\ [][Next]_vars

-----------------------------------------------------------------------------
(* Properties *)

(* A grade is only ever sent for the enrolment its form showed when it was *)
(* submitted, however lists, details and grades arrive around it and       *)
(* whoever is selected by then (admin.js gradeForm, renderStudentDetail).  *)
GradesAreEntered ==
  \A c \in Calls : Waits(c, {"grade"}) => calls[c].text = calls[c].about

(* The invariant behind it: the form always shows what a grade would be    *)
(* saved for.                                                              *)
FormShowsTarget == admin /\ Target # None => form = Target

(* The disabled button of a dialog waits for a request that will give it   *)
(* back; and unless a dialog was dismissed with its request under way, the *)
(* request is its own, so the dialog shows the outcome of what it sent.    *)
DialogWaits ==
  modal # None /\ modal.busy =>
    \E c \in Calls :
      /\ Waits(c, EditDialogs)
      /\ ~strayed => calls[c].what = modal.kind /\ calls[c].about = modal.about

(* admin.js, the dialog of a removal: "Confirme apenas se tiver certeza de *)
(* que deseja continuar." Nothing is removed without its own confirmation. *)
ConfirmedRemovals ==
  \A c \in Calls : Waits(c, RemovalDialogs) => calls[c].asked

(* So it is, as long as no dialog is dismissed with its request under way. *)
RemovalsConfirmed == ~strayed => ConfirmedRemovals

(* admin.html: "Use o filtro superior para restringir a visao e evitar     *)
(* editar a turma errada." When the panel says that it is synchronised,    *)
(* what it lists and what it would grade belongs to the cohort selected,   *)
(* as long as no two requests that change what is shown are under way at   *)
(* once, whatever fails and whatever else is saved meanwhile.              *)
FilterRestricts ==
  synced /\ ~crossed =>
    /\ \A e \in Listed : Fits(e, filter)
    /\ detail # None => Fits(detail, filter)

=============================================================================
