---------------------------- MODULE AdminProofs -----------------------------
(***************************************************************************)
(* Theorems of AdminPanel, for any students, cohorts and number of         *)
(* handlers that wait at once.                                             *)
(***************************************************************************)
EXTENDS AdminPanel, TLAPS

(***************************************************************************)
(* Type correctness                                                        *)
(***************************************************************************)

(* A request is about what its answer is used for. *)
Founded ==
  {r \in Requests :
     /\ r.what = "detail" => r.about \in Students
     /\ r.what = "grade" => r.about \in Enrolments
     /\ r.what \in {"cohort", "editCohort"} => r.about \in Cohorts}

(* AdminTypeOK alone is not inductive: a saved cohort becomes the filter,  *)
(* and a graded enrolment the detail.                                      *)
TypeInv ==
  /\ AdminTypeOK
  /\ calls \in [Calls -> Founded \cup {None}]
  /\ modal # None /\ modal.kind = "editCohort" => modal.about \in Cohorts

LEMMA RowIsOfStudent ==
  ASSUME NEW rows \in SUBSET Enrolments, NEW s
  PROVE  /\ RowOf(rows, s) \in Rows
         /\ RowOf(rows, s) # None => s \in Students
         /\ (\E e \in rows : e[1] = s) => RowOf(rows, s) \in Enrolments
<1>1. CASE \E e \in rows : e[1] = s
  <2>1. RowOf(rows, s) \in rows /\ RowOf(rows, s)[1] = s
    BY <1>1 DEF RowOf
  <2>. QED
    BY <2>1 DEF Rows, Students
<1>2. CASE ~\E e \in rows : e[1] = s
  BY <1>2 DEF RowOf, Rows
<1>. QED
  BY <1>1, <1>2

LEMMA NothingIsNoRow ==
  /\ None \notin Enrolments
  /\ None \notin Students
  /\ \A e \in Enrolments : e[1] \in Students /\ e[2] \in Cohorts
  BY AdminAssumption DEF Students, Cohorts

LEMMA RequestTyped ==
  ASSUME NEW what \in {"enter", "leave", "overview", "enrol", "removeStudent",
                       "removeCohort", "editStudent"},
         NEW by \in Locks \cup {None},
         NEW about \in Rows \cup Students \cup Cohorts
  PROVE  /\ Request(what, by, about) \in Founded
         /\ [Request(what, by, about) EXCEPT !.asked = FALSE] \in Founded
  BY DEF Request, Founded, Requests, EditDialogs, RemovalDialogs, Filters, Rows

LEMMA CohortRequestTyped ==
  ASSUME NEW what \in {"cohort", "editCohort"}, NEW by \in Locks \cup {None},
         NEW k \in Cohorts
  PROVE  Request(what, by, k) \in Founded
  BY DEF Request, Founded, Requests, EditDialogs, RemovalDialogs, Filters, Rows

LEMMA GradeTyped ==
  ASSUME NEW e \in Enrolments, NEW text \in Rows
  PROVE  [Request("grade", "grade", e) EXCEPT !.text = text] \in Founded
  BY DEF Request, Founded, Requests, EditDialogs, RemovalDialogs, Filters, Rows, Locks

LEMMA OverviewTyped ==
  ASSUME NEW by \in Locks \cup {None}, NEW keep \in BOOLEAN, NEW k \in Filters
  PROVE  Overview(by, keep, k) \in Founded
  BY DEF Overview, Query, Request, Founded, Requests, EditDialogs, RemovalDialogs,
         Filters, Rows

LEMMA DetailTyped ==
  ASSUME NEW by \in Locks \cup {None}, NEW s \in Students, NEW silent \in BOOLEAN,
         filter \in Filters
  PROVE  Detail(by, s, silent) \in Founded
  BY DEF Detail, Query, Request, Founded, Requests, EditDialogs, RemovalDialogs,
         Filters, Rows

(* Put changes one call, and the history of crossings. *)
LEMMA PutTyped ==
  ASSUME TypeInv, NEW c \in Calls, NEW r \in Founded \cup {None}, Put(c, r)
  PROVE  /\ calls' \in [Calls -> Founded \cup {None}]
         /\ calls' \in [Calls -> Requests \cup {None}]
         /\ crossed' \in BOOLEAN
  BY DEF TypeInv, AdminTypeOK, Put, Founded

LEMMA InitTyped == Init => TypeInv
  BY DEF Init, TypeInv, AdminTypeOK, Filters, Rows

LEMMA ActsTyped ==
  ASSUME TypeInv, NEW c \in Calls, Acts(c)
  PROVE  TypeInv'
<1>. USE DEF TypeInv, AdminTypeOK, page
<1>. /\ "login" \in Locks /\ "refresh" \in Locks /\ "enrol" \in Locks
     /\ "cohort" \in Locks
     /\ None \in Rows \cup Students \cup Cohorts
  BY DEF Locks, Rows
<1>1. CASE Enter(c)
  BY <1>1, RequestTyped, PutTyped DEF Enter
<1>2. CASE Leave(c)
  BY <1>2, RequestTyped, PutTyped DEF Leave
<1>3. ASSUME NEW k \in Filters, ChangeFilter(c, k)
      PROVE  TypeInv'
  BY <1>3, OverviewTyped, PutTyped DEF ChangeFilter, Rows
<1>4. CASE Refresh(c)
  BY <1>4, OverviewTyped, PutTyped DEF Refresh
<1>5. ASSUME NEW s \in Students, Select(c, s)
      PROVE  TypeInv'
  <2>1. RowOf(Listed, s) \in Rows
    BY RowIsOfStudent DEF Listed
  <2>. QED
    BY <1>5, <2>1, DetailTyped, PutTyped DEF Select
<1>6. CASE SubmitGrade(c)
  <2>1. Target \in Enrolments
    BY <1>6, RowIsOfStudent DEF SubmitGrade, Target, Listed, Rows
  <2>. QED
    BY <1>6, <2>1, GradeTyped, PutTyped DEF SubmitGrade
<1>7. ASSUME NEW k \in Cohorts, SubmitEnrolment(c, k) \/ SubmitCohort(c, k)
      PROVE  TypeInv'
  BY <1>7, RequestTyped, CohortRequestTyped, PutTyped DEF SubmitEnrolment, SubmitCohort
<1>8. CASE SubmitDialog(c)
  <2>1. Request(modal.kind, None, modal.about) \in Founded
    BY <1>8, RequestTyped, CohortRequestTyped DEF SubmitDialog, EditDialogs, Dialogs
  <2>. QED
    BY <1>8, <2>1, PutTyped DEF SubmitDialog, Dialogs
<1>9. CASE ConfirmRemoval(c)
  BY <1>9, RequestTyped, PutTyped DEF ConfirmRemoval, RemovalDialogs, Dialogs
<1>. QED
  BY <1>1, <1>2, <1>3, <1>4, <1>5, <1>6, <1>7, <1>8, <1>9 DEF Acts

LEMMA AnswersTyped ==
  ASSUME TypeInv, NEW c \in Calls, Answers(c)
  PROVE  TypeInv'
<1>. USE DEF TypeInv, AdminTypeOK, page, Waits, Done
<1>. /\ None \in Founded \cup {None}
     /\ None \in Locks \cup {None}
     /\ None \in Rows \cup Students \cup Cohorts
     /\ "enrol" \in Locks /\ "cohort" \in Locks
  BY DEF Locks, Rows
<1>0. calls[c] # None => calls[c] \in Founded /\ calls[c].by \in Locks \cup {None}
  BY DEF Founded, Requests
<1>1. CASE Fails(c) \/ DialogFails(c)
  BY <1>1, PutTyped DEF Fails, DialogFails, Dialogs
<1>2. CASE DialogAnswered(c)
  <2>1. CASE Done(c) /\ UNCHANGED <<filter, synced>>
    BY <1>2, <2>1, PutTyped DEF DialogAnswered
  <2>2. CASE modal # None /\ modal.kind \in RemovalDialogs
    BY <1>2, <2>2, RequestTyped, PutTyped DEF DialogAnswered, RemovalDialogs,
       EditDialogs, Dialogs
  <2>3. CASE modal # None /\ modal.kind = calls[c].what
    <3>1. filter' \in Filters
      BY <1>0, <1>2, <2>3 DEF DialogAnswered, EditDialogs, RemovalDialogs, Founded, Filters
    <3>2. Put(c, Overview(None, FALSE, filter')) /\ synced' = FALSE
      BY <1>2, <2>3 DEF DialogAnswered, EditDialogs, RemovalDialogs
    <3>3. Overview(None, FALSE, filter') \in Founded
      BY <3>1, OverviewTyped
    <3>. QED
      BY <1>2, <3>1, <3>2, <3>3, PutTyped DEF DialogAnswered
  <2>. QED
    BY <1>2, <2>1, <2>2, <2>3 DEF DialogAnswered, Dialogs
<1>3. CASE Entered(c)
  BY <1>0, <1>3, OverviewTyped, PutTyped DEF Entered
<1>4. CASE Left(c)
  BY <1>4, PutTyped DEF Left, Filters, Rows
<1>5. CASE Loaded(c)
  <2>1. /\ list' \in SUBSET Enrolments
        /\ selected' \in Students \cup {None}
        /\ detail' \in Rows
    <3>1. PICK rows \in SUBSET {e \in Enrolments : Fits(e, calls[c].query)},
               found \in SUBSET Students :
             /\ list' = rows
             /\ \/ selected' \in {e[1] : e \in rows} \cap found
                \/ selected' = None
                \/ selected' = selected
             /\ detail' = detail \/ detail' = RowOf(rows, selected')
      BY <1>5 DEF Loaded
    <3>. QED
      BY <3>1, RowIsOfStudent
  <2>2. Put(c, IF selected' = None THEN None ELSE Detail(calls[c].by, selected', TRUE))
    BY <1>5 DEF Loaded
  <2>3. (IF selected' = None THEN None ELSE Detail(calls[c].by, selected', TRUE))
          \in Founded \cup {None}
    BY <1>0, <1>5, <2>1, DetailTyped DEF Loaded
  <2>4. synced' \in BOOLEAN
    BY <1>5 DEF Loaded
  <2>. QED
    BY <1>5, <2>1, <2>2, <2>3, <2>4, PutTyped DEF Loaded
<1>6. CASE Detailed(c)
  BY <1>0, <1>6, PutTyped DEF Detailed, Founded, Requests, Rows
<1>7. CASE Graded(c)
  BY <1>0, <1>7, PutTyped DEF Graded, Founded, Rows
<1>8. CASE Removed(c)
  <2>1. filter' \in Filters
    BY <1>8 DEF Removed, Filters
  <2>2. Overview(None, FALSE, filter') \in Founded
    BY <2>1, OverviewTyped
  <2>. QED
    BY <1>8, <2>1, <2>2, PutTyped DEF Removed, Rows
<1>9. CASE Enrolled(c)
  BY <1>9, OverviewTyped, PutTyped DEF Enrolled
<1>10. CASE CohortSaved(c)
  <2>1. filter' \in Filters
    BY <1>0, <1>10 DEF CohortSaved, Founded, Filters
  <2>2. Overview("cohort", FALSE, filter') \in Founded
    BY <2>1, OverviewTyped
  <2>. QED
    BY <1>10, <2>1, <2>2, PutTyped DEF CohortSaved
<1>. QED
  BY <1>1, <1>2, <1>3, <1>4, <1>5, <1>6, <1>7, <1>8, <1>9, <1>10 DEF Answers

LEMMA DialogsTyped ==
  ASSUME TypeInv,
         \/ \E kind \in EditDialogs \cup RemovalDialogs, about \in Students \cup Cohorts :
              OpenDialog(kind, about)
         \/ Dismiss
         \/ UNCHANGED vars
  PROVE  TypeInv'
<1>. USE DEF TypeInv, AdminTypeOK, page
<1>1. ASSUME NEW kind \in EditDialogs \cup RemovalDialogs,
             NEW about \in Students \cup Cohorts, OpenDialog(kind, about)
      PROVE  TypeInv'
  BY <1>1 DEF OpenDialog, Dialogs
<1>2. CASE Dismiss
  BY <1>2 DEF Dismiss, Dialogs
<1>3. CASE UNCHANGED vars
  BY <1>3 DEF vars
<1>. QED
  BY <1>1, <1>2, <1>3

(* TypeInv is inductive. *)
LEMMA StepTyped == TypeInv /\ [Next]_vars => TypeInv'
  BY ActsTyped, AnswersTyped, DialogsTyped DEF Next

LEMMA AlwaysTyped == Spec => []TypeInv
  BY InitTyped, StepTyped, PTL DEF Spec

(* AdminTypeOK: every reachable state of the panel is well typed, whichever *)
(* handlers overlap (the handlers of public/admin.js).                      *)
THEOREM AdminTypeCorrect == Spec => []AdminTypeOK
<1>1. TypeInv => AdminTypeOK
  BY DEF TypeInv
<1>. QED
  BY AlwaysTyped, <1>1, PTL

(***************************************************************************)
(* The grade form                                                          *)
(***************************************************************************)

(* GradesAreEntered needs that the form is rendered with every detail, and *)
(* that whoever is selected has a detail, so that the row a grade falls    *)
(* back on is never used.                                                  *)
FormInv ==
  /\ detail # None => form = detail
  /\ selected # None => detail # None
  /\ GradesAreEntered

LEMMA TargetIsDetail ==
  ASSUME TypeInv, FormInv
  PROVE  Target # None => Target = detail /\ Target = form
<1>1. CASE detail # None
  BY <1>1 DEF FormInv, Target
<1>2. CASE detail = None
  <2>1. selected = None
    BY <1>2 DEF FormInv
  <2>2. Listed \in SUBSET Enrolments
    BY DEF TypeInv, AdminTypeOK, Listed
  <2>3. RowOf(Listed, selected) = None
    BY <2>1, <2>2, NothingIsNoRow DEF RowOf
  <2>. QED
    BY <1>2, <2>3 DEF Target
<1>. QED
  BY <1>1, <1>2

LEMMA PutGrades ==
  ASSUME TypeInv, GradesAreEntered, NEW c \in Calls, NEW r, Put(c, r),
         r # None /\ r.what = "grade" => r.text = r.about
  PROVE  GradesAreEntered'
<1>1. /\ calls'[c] = r
      /\ \A d \in Calls \ {c} : calls'[d] = calls[d]
  BY DEF TypeInv, AdminTypeOK, Put
<1>. QED
  BY <1>1 DEF GradesAreEntered, Waits

(* What the requests of the other handlers are. *)
LEMMA WhatIsAsked ==
  /\ \A what, by, about : /\ Request(what, by, about).what = what
                          /\ Request(what, by, about).about = about
                          /\ Request(what, by, about).asked = TRUE
  /\ \A by, keep, k : Overview(by, keep, k).what = "overview"
  /\ \A by, s, silent : Detail(by, s, silent).what = "detail"
  BY DEF Request, Overview, Detail

LEMMA ActsKeepForm ==
  ASSUME TypeInv, FormInv, NEW c \in Calls, Acts(c)
  PROVE  FormInv'
<1>. USE DEF page
<1>1. CASE Enter(c) \/ Leave(c) \/ Refresh(c)
  BY <1>1, WhatIsAsked, PutGrades DEF FormInv, Enter, Leave, Refresh
<1>2. ASSUME NEW k \in Filters, ChangeFilter(c, k)
      PROVE  FormInv'
  BY <1>2, WhatIsAsked, PutGrades DEF FormInv, ChangeFilter
<1>3. ASSUME NEW s \in Students, Select(c, s)
      PROVE  FormInv'
  BY <1>3, WhatIsAsked, PutGrades DEF FormInv, Select
<1>4. CASE SubmitGrade(c)
  <2>. DEFINE r == [Request("grade", "grade", Target) EXCEPT !.text = form]
  <2>1. r.text = form /\ r.about = Target
    BY DEF Request
  <2>2. Target = form
    BY <1>4, TargetIsDetail DEF SubmitGrade
  <2>3. GradesAreEntered'
    <3>1. Put(c, r)
      BY <1>4 DEF SubmitGrade
    <3>. HIDE DEF r
    <3>. QED
      BY <2>1, <2>2, <3>1, PutGrades DEF FormInv
  <2>. QED
    BY <1>4, <2>3 DEF SubmitGrade, FormInv
<1>5. ASSUME NEW k \in Cohorts, SubmitEnrolment(c, k) \/ SubmitCohort(c, k)
      PROVE  FormInv'
  BY <1>5, WhatIsAsked, PutGrades DEF FormInv, SubmitEnrolment, SubmitCohort
<1>6. CASE SubmitDialog(c) \/ ConfirmRemoval(c)
  <2>1. modal.kind # "grade"
    BY <1>6 DEF SubmitDialog, ConfirmRemoval, EditDialogs, RemovalDialogs
  <2>. QED
    BY <1>6, <2>1, WhatIsAsked, PutGrades DEF FormInv, SubmitDialog, ConfirmRemoval
<1>. QED
  BY <1>1, <1>2, <1>3, <1>4, <1>5, <1>6 DEF Acts

LEMMA AnswersKeepForm ==
  ASSUME TypeInv, FormInv, NEW c \in Calls, Answers(c)
  PROVE  FormInv'
<1>. USE DEF page, Done
<1>1. CASE Fails(c) \/ DialogFails(c) \/ Entered(c) \/ Enrolled(c) \/ CohortSaved(c)
  BY <1>1, WhatIsAsked, PutGrades
     DEF FormInv, Fails, DialogFails, Entered, Enrolled, CohortSaved
<1>2. CASE DialogAnswered(c)
  <2>1. PICK r : Put(c, r) /\ (r # None => r.what # "grade")
    <3>1. ASSUME modal.kind \in RemovalDialogs
          PROVE  [Request(modal.kind, None, modal.about) EXCEPT !.asked = FALSE].what # "grade"
      BY <3>1 DEF Request, RemovalDialogs
    <3>. QED
      BY <1>2, <3>1, WhatIsAsked DEF DialogAnswered
  <2>. QED
    BY <1>2, <2>1, PutGrades DEF FormInv, DialogAnswered
<1>3. CASE Left(c) \/ Detailed(c) \/ Graded(c)
  <2>1. GradesAreEntered'
    BY <1>3, PutGrades DEF FormInv, Left, Detailed, Graded
  <2>2. Waits(c, {"grade"}) => calls[c].about \in Enrolments
    BY DEF TypeInv, Waits, Founded
  <2>. QED
    BY <1>3, <2>1, <2>2, NothingIsNoRow DEF FormInv, Left, Detailed, Graded
<1>4. CASE Loaded(c)
  <2>1. GradesAreEntered'
    BY <1>4, WhatIsAsked, PutGrades DEF FormInv, Loaded
  <2>2. PICK rows, shown :
          /\ rows \in SUBSET Enrolments
          /\ selected' # None => \E e \in rows : e[1] = selected'
          /\ detail' = IF shown # None THEN shown ELSE RowOf(rows, selected')
    <3>1. PICK rows, found, shown :
             /\ rows \in SUBSET {e \in Enrolments : Fits(e, calls[c].query)}
             /\ \/ selected' \in {e[1] : e \in rows} \cap found
                \/ selected' = None
             /\ detail' = IF shown # None THEN shown ELSE RowOf(rows, selected')
      BY <1>4 DEF Loaded
    <3>. QED
      BY <3>1
  <2>3. selected' # None => detail' # None
    BY <2>2, RowIsOfStudent, NothingIsNoRow
  <2>. QED
    BY <1>4, <2>1, <2>3 DEF FormInv, Loaded
<1>5. CASE Removed(c)
  BY <1>5, WhatIsAsked, PutGrades DEF FormInv, Removed
<1>. QED
  BY <1>1, <1>2, <1>3, <1>4, <1>5 DEF Answers

LEMMA StepKeepsForm == TypeInv /\ FormInv /\ [Next]_vars => FormInv'
<1>1. ASSUME TypeInv, FormInv,
             \/ \E kind \in EditDialogs \cup RemovalDialogs, about \in Students \cup Cohorts :
                  OpenDialog(kind, about)
             \/ Dismiss
             \/ UNCHANGED vars
      PROVE  FormInv'
  BY <1>1 DEF FormInv, GradesAreEntered, Waits, OpenDialog, Dismiss, vars, page
<1>. QED
  BY <1>1, ActsKeepForm, AnswersKeepForm DEF Next

LEMMA FormAlways == Spec => [](TypeInv /\ FormInv)
<1>1. Init => FormInv
  BY DEF Init, FormInv, GradesAreEntered, Waits
<1>. QED
  BY InitTyped, StepTyped, <1>1, StepKeepsForm, PTL DEF Spec

(* The form of the grade always shows the enrolment a grade would be saved *)
(* for (renderStudentDetail, gradeForm).                                   *)
THEOREM FormIsOfTarget == Spec => []FormShowsTarget
<1>1. TypeInv /\ FormInv => FormShowsTarget
  BY TargetIsDetail DEF FormShowsTarget
<1>. QED
  BY FormAlways, <1>1, PTL

(* Whatever answers arrive in whatever order, a grade is sent for the      *)
(* enrolment whose form was filled in (gradeForm).                         *)
THEOREM GradesEntered == Spec => []GradesAreEntered
<1>1. FormInv => GradesAreEntered
  BY DEF FormInv
<1>. QED
  BY FormAlways, <1>1, PTL

(***************************************************************************)
(* The dialogs                                                             *)
(***************************************************************************)

(* Until a dialog is dismissed with its request under way, the request of  *)
(* an edit is that of the open dialog, and there is one at most: its       *)
(* answer cannot reach another dialog.                                     *)
Sent(c) ==
  /\ modal # None
  /\ modal.busy
  /\ modal.kind = calls[c].what
  /\ modal.about = calls[c].about

DialogInv ==
  /\ DialogWaits
  /\ RemovalsConfirmed
  /\ ~strayed => \A c \in Calls : Waits(c, EditDialogs) => Sent(c)
  /\ ~strayed => \A c, d \in Calls :
                   Waits(c, EditDialogs) /\ Waits(d, EditDialogs) => c = d

LEMMA PutChanges ==
  ASSUME TypeInv, NEW c \in Calls, NEW r, Put(c, r)
  PROVE  /\ calls'[c] = r
         /\ \A d \in Calls \ {c} : calls'[d] = calls[d]
  BY DEF TypeInv, AdminTypeOK, Put

(* What has nothing to do with the dialogs leaves them alone. *)
LEMMA PutElsewhere ==
  ASSUME TypeInv, DialogInv, NEW c \in Calls, NEW r, Put(c, r),
         ~Waits(c, EditDialogs),
         r # None => r.what \notin EditDialogs \cup RemovalDialogs,
         modal' = modal, strayed' = strayed
  PROVE  DialogInv'
<1>. USE PutChanges DEF DialogInv
<1>1. DialogWaits'
  BY DEF DialogWaits, Waits
<1>2. RemovalsConfirmed'
  BY DEF RemovalsConfirmed, ConfirmedRemovals, Waits
<1>3. ~strayed' => \A d \in Calls : Waits(d, EditDialogs)' => Sent(d)'
  BY DEF Sent, Waits
<1>4. ~strayed' => \A d, e \in Calls :
                    Waits(d, EditDialogs)' /\ Waits(e, EditDialogs)' => d = e
  BY DEF Waits
<1>. QED
  BY <1>1, <1>2, <1>3, <1>4

LEMMA ActsKeepDialogs ==
  ASSUME TypeInv, DialogInv, NEW c \in Calls, Acts(c)
  PROVE  DialogInv'
<1>1. calls[c] = None => ~Waits(c, EditDialogs)
  BY DEF Waits
<1>2. CASE SubmitDialog(c)
  <2>1. /\ modal # None /\ modal.kind \in EditDialogs /\ ~modal.busy
        /\ modal' = [modal EXCEPT !.busy = TRUE]
        /\ strayed' = strayed
        /\ calls'[c] = Request(modal.kind, None, modal.about)
        /\ \A d \in Calls \ {c} : calls'[d] = calls[d]
    BY <1>2, PutChanges DEF SubmitDialog
  <2>2. modal' \in Dialogs /\ calls'[c] \in Requests
    <3>1. modal \in Dialogs
      BY <2>1 DEF TypeInv, AdminTypeOK
    <3>2. modal' \in Dialogs
      BY <2>1, <3>1 DEF Dialogs
    <3>3. modal.kind \in {"editStudent", "editCohort"}
      BY <2>1 DEF EditDialogs
    <3>4. Request(modal.kind, None, modal.about) \in Requests
      BY <3>1, <3>3 DEF Request, Requests, Dialogs, EditDialogs, RemovalDialogs, Filters, Rows
    <3>. QED
      BY <2>1, <3>2, <3>4
  <2>3. modal'.busy /\ modal'.kind = modal.kind /\ modal'.about = modal.about
    BY <2>1 DEF TypeInv, AdminTypeOK, Dialogs
  <2>4. calls'[c].what = modal.kind /\ calls'[c].about = modal.about
    BY <2>1, WhatIsAsked
  <2>5. modal' # None /\ calls'[c] # None
    BY <2>2, NullAssumption
  <2>6. ~strayed => \A d \in Calls : ~Waits(d, EditDialogs)
    BY <2>1 DEF DialogInv, Sent
  <2>7. \A d \in Calls \ {c} : ~strayed => ~Waits(d, EditDialogs)'
    BY <2>1, <2>6 DEF Waits
  <2>8. DialogWaits'
    BY <2>1, <2>3, <2>4, <2>5 DEF DialogWaits, Waits
  <2>9. RemovalsConfirmed'
    BY <2>1, <2>4 DEF DialogInv, RemovalsConfirmed, ConfirmedRemovals, Waits,
                      EditDialogs, RemovalDialogs
  <2>10. Sent(c)'
    BY <2>3, <2>4, <2>5 DEF Sent
  <2>. QED
    BY <2>1, <2>7, <2>8, <2>9, <2>10 DEF DialogInv
<1>3. CASE ConfirmRemoval(c)
  <2>1. /\ modal # None /\ modal.kind \in RemovalDialogs
        /\ modal' = None
        /\ strayed' = strayed
        /\ calls'[c] = Request(modal.kind, None, modal.about)
        /\ \A d \in Calls \ {c} : calls'[d] = calls[d]
    BY <1>3, PutChanges DEF ConfirmRemoval
  <2>2. ~strayed => \A d \in Calls : ~Waits(d, EditDialogs)
    BY <2>1 DEF DialogInv, Sent, Waits, EditDialogs, RemovalDialogs
  <2>3. calls'[c].what = modal.kind /\ calls'[c].asked
    BY <2>1, WhatIsAsked
  <2>4. ~strayed => \A d \in Calls : ~Waits(d, EditDialogs)'
    BY <2>1, <2>2, <2>3 DEF Waits, EditDialogs, RemovalDialogs
  <2>5. DialogWaits'
    BY <2>1 DEF DialogWaits
  <2>6. RemovalsConfirmed'
    BY <2>1, <2>3 DEF DialogInv, RemovalsConfirmed, ConfirmedRemovals, Waits
  <2>. QED
    BY <2>1, <2>4, <2>5, <2>6 DEF DialogInv
<1>4. CASE Enter(c) \/ Leave(c)
  BY <1>1, <1>4, WhatIsAsked, PutElsewhere
     DEF Starts, Enter, Leave, EditDialogs, RemovalDialogs
<1>5. ASSUME NEW k \in Filters, ChangeFilter(c, k)
      PROVE  DialogInv'
  <2>. DEFINE r == Overview(None, FALSE, k)
  <2>1. r.what = "overview"
    BY DEF Overview, Request
  <2>2. Put(c, r) /\ calls[c] = None /\ modal' = modal /\ strayed' = strayed
    BY <1>5 DEF ChangeFilter, Starts
  <2>. HIDE DEF r
  <2>. QED
    BY <1>1, <2>1, <2>2, PutElsewhere DEF EditDialogs, RemovalDialogs
<1>6. ASSUME NEW s \in Students, Select(c, s)
      PROVE  DialogInv'
  <2>. DEFINE r == Detail(None, s, FALSE)
  <2>1. r.what = "detail"
    BY DEF Detail, Request
  <2>2. Put(c, r) /\ calls[c] = None /\ modal' = modal /\ strayed' = strayed
    BY <1>6 DEF Select, Starts
  <2>. HIDE DEF r
  <2>. QED
    BY <1>1, <2>1, <2>2, PutElsewhere DEF EditDialogs, RemovalDialogs
<1>7. CASE SubmitGrade(c)
  <2>. DEFINE r == [Request("grade", "grade", Target) EXCEPT !.text = form]
  <2>1. r.what = "grade"
    BY DEF Request
  <2>2. Put(c, r) /\ calls[c] = None /\ modal' = modal /\ strayed' = strayed
    BY <1>7 DEF SubmitGrade, Starts
  <2>. HIDE DEF r
  <2>. QED
    BY <1>1, <2>1, <2>2, PutElsewhere DEF EditDialogs, RemovalDialogs
<1>8. ASSUME NEW k \in Cohorts, SubmitEnrolment(c, k) \/ SubmitCohort(c, k)
      PROVE  DialogInv'
  BY <1>1, <1>8, WhatIsAsked, PutElsewhere
     DEF Starts, SubmitEnrolment, SubmitCohort, EditDialogs, RemovalDialogs
<1>9. CASE Refresh(c)
  <2>. DEFINE r == Overview("refresh", TRUE, filter)
  <2>1. r.what = "overview"
    BY DEF Overview, Request
  <2>2. Put(c, r) /\ calls[c] = None /\ modal' = modal /\ strayed' = strayed
    BY <1>9 DEF Refresh, Starts
  <2>. HIDE DEF r
  <2>. QED
    BY <1>1, <2>1, <2>2, PutElsewhere DEF EditDialogs, RemovalDialogs
<1>. QED
  BY <1>2, <1>3, <1>4, <1>5, <1>6, <1>7, <1>8, <1>9 DEF Acts

LEMMA AnswersKeepDialogs ==
  ASSUME TypeInv, DialogInv, NEW c \in Calls, Answers(c)
  PROVE  DialogInv'
<1>. USE DEF Done
<1>1. CASE DialogFails(c)
  <2>1. /\ Waits(c, EditDialogs)
        /\ calls'[c] = None
        /\ \A d \in Calls \ {c} : calls'[d] = calls[d]
        /\ strayed' = strayed
        /\ modal' = IF modal = None THEN None ELSE [modal EXCEPT !.busy = FALSE]
    BY <1>1, PutChanges DEF DialogFails
  <2>2. modal' # None => ~modal'.busy
    BY <2>1 DEF TypeInv, AdminTypeOK, Dialogs
  <2>3. DialogWaits'
    BY <2>2 DEF DialogWaits
  <2>4. RemovalsConfirmed'
    BY <2>1 DEF DialogInv, RemovalsConfirmed, ConfirmedRemovals, Waits
  <2>5. ~strayed => \A d \in Calls : ~Waits(d, EditDialogs)'
    BY <2>1 DEF DialogInv, Waits
  <2>. QED
    BY <2>1, <2>3, <2>4, <2>5 DEF DialogInv
<1>2. CASE DialogAnswered(c)
  <2>1. Waits(c, EditDialogs) /\ modal' = None /\ strayed' = strayed
    BY <1>2 DEF DialogAnswered
  <2>2. CASE strayed
    BY <2>1, <2>2 DEF DialogInv, DialogWaits, RemovalsConfirmed
  <2>3. CASE ~strayed
    <3>1. modal # None /\ modal.kind = calls[c].what /\ modal.kind \in EditDialogs
      BY <2>1, <2>3 DEF DialogInv, Sent, Waits
    <3>2. PICK k : Put(c, Overview(None, FALSE, k))
      BY <1>2, <3>1 DEF DialogAnswered, EditDialogs, RemovalDialogs
    <3>3. /\ calls'[c].what = "overview"
          /\ \A d \in Calls \ {c} : calls'[d] = calls[d]
      <4>. DEFINE r == Overview(None, FALSE, k)
      <4>1. r.what = "overview"
        BY DEF Overview, Request
      <4>2. Put(c, r)
        BY <3>2
      <4>. HIDE DEF r
      <4>. QED
        BY <4>1, <4>2, PutChanges
    <3>4. \A d \in Calls : ~Waits(d, EditDialogs)'
      BY <2>1, <2>3, <3>3 DEF DialogInv, Waits, EditDialogs
    <3>5. RemovalsConfirmed'
      BY <2>1, <3>3 DEF DialogInv, RemovalsConfirmed, ConfirmedRemovals, Waits,
                        RemovalDialogs
    <3>. QED
      BY <2>1, <3>4, <3>5 DEF DialogInv, DialogWaits
  <2>. QED
    BY <2>2, <2>3
<1>3. CASE Fails(c) \/ Left(c) \/ Detailed(c) \/ Graded(c)
  BY <1>3, PutElsewhere DEF Fails, Left, Detailed, Graded, Waits, EditDialogs
<1>4. CASE Entered(c) \/ Removed(c) \/ Enrolled(c) \/ CohortSaved(c)
  BY <1>4, WhatIsAsked, PutElsewhere DEF Entered, Removed, Enrolled, CohortSaved, Waits,
     EditDialogs, RemovalDialogs
<1>5. CASE Loaded(c)
  BY <1>5, WhatIsAsked, PutElsewhere DEF Loaded, Waits, EditDialogs, RemovalDialogs
<1>. QED
  BY <1>1, <1>2, <1>3, <1>4, <1>5 DEF Answers

LEMMA StepKeepsDialogs == TypeInv /\ DialogInv /\ [Next]_vars => DialogInv'
<1>. USE DEF DialogInv, DialogWaits, RemovalsConfirmed, ConfirmedRemovals, Sent, Waits
<1>1. ASSUME TypeInv, DialogInv,
             NEW kind \in EditDialogs \cup RemovalDialogs,
             NEW about \in Students \cup Cohorts, OpenDialog(kind, about)
      PROVE  DialogInv'
  BY <1>1 DEF OpenDialog
<1>2. ASSUME TypeInv, DialogInv, Dismiss
      PROVE  DialogInv'
  BY <1>2 DEF Dismiss
<1>3. ASSUME TypeInv, DialogInv, UNCHANGED vars
      PROVE  DialogInv'
  BY <1>3 DEF vars
<1>. QED
  BY <1>1, <1>2, <1>3, ActsKeepDialogs, AnswersKeepDialogs DEF Next

LEMMA DialogAlways == Spec => [](TypeInv /\ DialogInv)
<1>1. Init => DialogInv
  BY DEF Init, DialogInv, DialogWaits, RemovalsConfirmed, ConfirmedRemovals, Waits
<1>. QED
  BY InitTyped, StepTyped, <1>1, StepKeepsDialogs, PTL DEF Spec

(* A dialog whose button is disabled has a request under way that will     *)
(* free it, its own unless one was dismissed before (openAdminModal,       *)
(* submitAdminModal).                                                      *)
THEOREM DialogsWait == Spec => []DialogWaits
<1>1. DialogInv => DialogWaits
  BY DEF DialogInv
<1>. QED
  BY DialogAlways, <1>1, PTL

(* Nothing is removed without the confirmation of its own dialog as long   *)
(* as no dialog was dismissed with its request under way: the condition    *)
(* under which the code keeps what the dialog says (closeAdminModal).      *)
THEOREM Confirmed == Spec => []RemovalsConfirmed
<1>1. DialogInv => RemovalsConfirmed
  BY DEF DialogInv
<1>. QED
  BY DialogAlways, <1>1, PTL

(***************************************************************************)
(* The filter                                                              *)
(***************************************************************************)

ListFits == \A e \in Listed : Fits(e, filter)

(* What a request under way will make of the page. *)
QueryFounded(c) ==
  /\ Waits(c, {"overview"}) => calls[c].query = filter
  /\ Waits(c, {"detail"}) /\ calls[c].keep => calls[c].query = filter /\ ListFits
  /\ Waits(c, {"grade"}) => selected # None

(* FilterRestricts needs that every change of the filter asks for the list *)
(* under the new one, and that the detail which ends a reload finds the    *)
(* list of the same query; and, for the list that comes out empty, that a  *)
(* detail is shown only of a student who is selected.                      *)
FilterInv ==
  /\ FilterRestricts
  /\ ~crossed =>
       /\ selected = None => detail = None
       /\ \A c \in Calls : QueryFounded(c)
       /\ \A c, d \in Calls : Waits(c, Queries) /\ Waits(d, Queries) => c = d

LEMMA FoundedIsSome == None \notin Founded
  BY NullAssumption DEF Founded

(* What asks for or answers a query is the only query under way. *)
LEMMA QueryStep ==
  ASSUME TypeInv, FilterInv, NEW c \in Calls, NEW r, Put(c, r),
         Waits(c, Queries) \/ (r # None /\ r.what \in Queries),
         ~crossed /\ ~crossed' =>
           /\ selected' = None => detail' = None
           /\ QueryFounded(c)'
           /\ synced' => ListFits' /\ (detail' # None => Fits(detail', filter'))
  PROVE  FilterInv'
<1>1. CASE crossed'
  BY <1>1 DEF FilterInv, FilterRestricts
<1>2. CASE ~crossed'
  <2>1. ~crossed
    BY <1>2 DEF Put
  <2>2. \A d \in Calls \ {c} : ~Waits(d, Queries)
    BY <1>2, <2>1 DEF FilterInv, Put
  <2>3. \A d \in Calls \ {c} : ~Waits(d, Queries)'
    BY <2>2, PutChanges DEF Waits
  <2>4. \A d \in Calls \ {c} : QueryFounded(d)'
    BY <2>3 DEF QueryFounded, Waits, Queries
  <2>. QED
    BY <1>2, <2>1, <2>3, <2>4 DEF FilterInv, FilterRestricts, ListFits
<1>. QED
  BY <1>1, <1>2

(* What asks for no query leaves the list, the detail and the filter alone. *)
LEMMA OtherStep ==
  ASSUME TypeInv, FilterInv, NEW c \in Calls, NEW r, Put(c, r),
         r # None => r.what \notin Queries,
         UNCHANGED <<filter, list, selected, detail>>, synced' => synced
  PROVE  FilterInv'
<1>1. crossed' = crossed
  BY DEF Put, TypeInv, AdminTypeOK
<1>2. \A d \in Calls : Waits(d, Queries)' => Waits(d, Queries) /\ calls'[d] = calls[d]
  BY PutChanges DEF Waits
<1>3. \A d \in Calls : QueryFounded(d) => QueryFounded(d)'
  BY <1>2 DEF QueryFounded, Waits, Queries, ListFits, Listed
<1>4. FilterRestricts'
  BY <1>1 DEF FilterInv, FilterRestricts, Listed
<1>. QED
  BY <1>1, <1>2, <1>3, <1>4 DEF FilterInv

(* What the page asks for once it has changed. *)
LEMMA OverviewAsks ==
  ASSUME NEW by, NEW keep \in BOOLEAN, NEW k
  PROVE  Overview(by, keep, k).what = "overview" /\ Overview(by, keep, k).query = k
  BY DEF Overview, Request, Query

LEMMA OverviewStep ==
  ASSUME TypeInv, FilterInv, filter' \in Filters, NEW c \in Calls,
         NEW by \in Locks \cup {None}, NEW keep \in BOOLEAN,
         Put(c, Overview(by, keep, filter')), ~synced',
         (selected = None => detail = None) => (selected' = None => detail' = None)
  PROVE  FilterInv'
<1>. DEFINE r == Overview(by, keep, filter')
<1>1. r.what = "overview" /\ r.query = filter' /\ Put(c, r) /\ r # None
  BY OverviewAsks, OverviewTyped, FoundedIsSome
<1>. HIDE DEF r
<1>2. QueryFounded(c)'
  BY <1>1, PutChanges DEF QueryFounded, Waits
<1>. QED
  BY <1>1, <1>2, QueryStep DEF Queries, FilterInv

LEMMA ActsKeepFilter ==
  ASSUME TypeInv, FormInv, FilterInv, NEW c \in Calls, Acts(c)
  PROVE  FilterInv'
<1>. USE DEF page
<1>0. /\ TypeInv' /\ filter' \in Filters
      /\ None \in Locks \cup {None} /\ "refresh" \in Locks \cup {None}
  BY ActsTyped DEF TypeInv, AdminTypeOK, Locks
<1>1. CASE Enter(c)
  <2>1. "enter" \notin Queries
    BY DEF Queries
  <2>. QED
    BY <1>1, <2>1, WhatIsAsked, OtherStep DEF Enter
<1>2. CASE Leave(c)
  <2>. DEFINE r == Request("leave", None, None)
  <2>1. r.what = "leave" /\ Put(c, r)
    BY <1>2, WhatIsAsked DEF Leave
  <2>3. r # None
    BY RequestTyped, FoundedIsSome DEF Rows
  <2>. HIDE DEF r
  <2>2. QueryFounded(c)'
    BY <2>1, PutChanges DEF QueryFounded, Waits
  <2>. QED
    BY <1>2, <2>1, <2>2, <2>3, QueryStep
       DEF Leave, Queries, FilterInv, FilterRestricts, ListFits, Listed
<1>3. ASSUME NEW k \in Filters, ChangeFilter(c, k)
      PROVE  FilterInv'
  BY <1>0, <1>3, OverviewStep DEF ChangeFilter
<1>4. CASE Refresh(c)
  BY <1>0, <1>4, OverviewStep DEF Refresh
<1>5. ASSUME NEW s \in Students, Select(c, s)
      PROVE  FilterInv'
  <2>. DEFINE r == Detail(None, s, FALSE)
  <2>1. r.what = "detail" /\ r.keep = FALSE
    BY DEF Detail, Request
  <2>2. Put(c, r) /\ r # None
    BY <1>5, DetailTyped, FoundedIsSome DEF Select, TypeInv, AdminTypeOK
  <2>. HIDE DEF r
  <2>3. QueryFounded(c)'
    BY <2>1, <2>2, PutChanges DEF QueryFounded, Waits
  <2>4. selected' # None /\ ~synced'
    BY <1>5, NothingIsNoRow DEF Select
  <2>. QED
    BY <2>1, <2>2, <2>3, <2>4, QueryStep DEF Queries
<1>6. CASE SubmitGrade(c)
  <2>. DEFINE r == [Request("grade", "grade", Target) EXCEPT !.text = form]
  <2>1. r.what = "grade" /\ Put(c, r)
    BY <1>6 DEF SubmitGrade, Request
  <2>2. detail # None /\ Target \in Enrolments /\ form \in Rows
    BY <1>6, TargetIsDetail DEF SubmitGrade, TypeInv, AdminTypeOK, Rows
  <2>3. r # None
    BY <2>2, GradeTyped, FoundedIsSome
  <2>. HIDE DEF r
  <2>4. ~crossed => QueryFounded(c)'
    BY <1>6, <2>1, <2>2, PutChanges DEF QueryFounded, Waits, FilterInv, SubmitGrade
  <2>. QED
    BY <1>6, <2>1, <2>3, <2>4, QueryStep
       DEF SubmitGrade, Queries, FilterInv, FilterRestricts, ListFits, Listed
<1>7. ASSUME NEW k \in Cohorts, SubmitEnrolment(c, k) \/ SubmitCohort(c, k)
      PROVE  FilterInv'
  BY <1>7, WhatIsAsked, OtherStep DEF SubmitEnrolment, SubmitCohort, Queries
<1>8. CASE SubmitDialog(c) \/ ConfirmRemoval(c)
  <2>1. modal.kind \notin Queries
    BY <1>8 DEF SubmitDialog, ConfirmRemoval, EditDialogs, RemovalDialogs, Queries
  <2>. QED
    BY <1>8, <2>1, WhatIsAsked, OtherStep DEF SubmitDialog, ConfirmRemoval
<1>. QED
  BY <1>1, <1>2, <1>3, <1>4, <1>5, <1>6, <1>7, <1>8 DEF Acts

LEMMA LoadedKeepsFilter ==
  ASSUME TypeInv, FilterInv, NEW c \in Calls, Loaded(c)
  PROVE  FilterInv'
<1>. DEFINE r == IF selected' = None THEN None ELSE Detail(calls[c].by, selected', TRUE)
<1>1. Put(c, r) /\ filter' = filter /\ synced' = (selected' = None) /\ Waits(c, {"overview"})
  BY DEF Loaded
<1>2. r # None => r.what = "detail" /\ r.keep = TRUE /\ r.query = filter
  BY DEF r, Detail, Request, Query
<1>3. PICK rows \in SUBSET {e \in Enrolments : Fits(e, calls[c].query)},
             found \in SUBSET Students :
        LET visible == {e[1] : e \in rows} \cap found
            kept == IF calls[c].keep /\ selected \in visible THEN selected ELSE None
            shown == IF calls[c].keep /\ selected \in visible \cup {None} THEN detail ELSE None
        IN /\ list' = rows
           /\ selected' \in IF kept # None THEN {kept}
                            ELSE IF visible # {} THEN visible ELSE {None}
           /\ detail' = IF shown # None THEN shown ELSE RowOf(rows, selected')
  BY DEF Loaded
<1>. HIDE DEF r
<1>4. ~crossed => ListFits'
  <2>1. ~crossed => calls[c].query = filter
    BY <1>1 DEF FilterInv, QueryFounded
  <2>. QED
    BY <1>1, <1>3, <2>1, NothingIsNoRow DEF ListFits, Listed
<1>5. ~crossed /\ selected' = None => detail' = None
  <2>. SUFFICES ASSUME ~crossed, selected' = None  PROVE  detail' = None
    OBVIOUS
  <2>1. selected = None => detail = None
    BY DEF FilterInv
  <2>2. RowOf(rows, None) = None
    BY NothingIsNoRow DEF RowOf
  <2>3. \A e \in rows : e[1] # None
    BY NothingIsNoRow
  <2>. QED
    BY <1>3, <2>1, <2>2, <2>3
<1>6. ~crossed => QueryFounded(c)'
  BY <1>1, <1>2, <1>4, PutChanges DEF QueryFounded, Waits
<1>. QED
  BY <1>1, <1>4, <1>5, <1>6, QueryStep DEF Waits, Queries

LEMMA AnswersKeepFilter ==
  ASSUME TypeInv, FormInv, FilterInv, NEW c \in Calls, Answers(c)
  PROVE  FilterInv'
<1>. USE DEF page, Done
<1>0. /\ TypeInv' /\ filter' \in Filters
      /\ {None, "enrol", "cohort"} \subseteq Locks \cup {None}
      /\ calls[c] # None => calls[c].by \in Locks \cup {None}
  <2>1. {None, "enrol", "cohort"} \subseteq Locks \cup {None}
    BY DEF Locks
  <2>. QED
    BY <2>1, AnswersTyped DEF TypeInv, AdminTypeOK, Founded, Requests
<1>1. CASE Fails(c) \/ DialogFails(c)
  <2>1. Put(c, None) /\ UNCHANGED <<filter, list, selected, detail>>
    BY <1>1 DEF Fails, DialogFails
  <2>2. synced' = synced \/ synced' = FALSE
    BY <1>1 DEF Fails, DialogFails
  <2>. QED
    BY <2>1, <2>2, OtherStep
<1>2. CASE DialogAnswered(c)
  <2>1. CASE Done(c) /\ UNCHANGED <<filter, synced>>
    BY <1>2, <2>1, OtherStep DEF DialogAnswered
  <2>2. CASE modal # None /\ modal.kind \in RemovalDialogs
    <3>. DEFINE r == [Request(modal.kind, None, modal.about) EXCEPT !.asked = FALSE]
    <3>1. r.what = modal.kind
      BY DEF Request
    <3>2. Put(c, r) /\ UNCHANGED <<filter, synced>>
      BY <1>2, <2>2 DEF DialogAnswered, EditDialogs, RemovalDialogs
    <3>. HIDE DEF r
    <3>. QED
      BY <1>2, <2>2, <3>1, <3>2, OtherStep DEF DialogAnswered, RemovalDialogs, Queries
  <2>3. CASE Put(c, Overview(None, FALSE, filter')) /\ ~synced'
    BY <1>0, <1>2, <2>3, OverviewStep DEF DialogAnswered
  <2>. QED
    BY <1>2, <2>1, <2>2, <2>3 DEF DialogAnswered
<1>3. CASE Entered(c) \/ Removed(c) \/ CohortSaved(c)
  BY <1>0, <1>3, OverviewStep DEF Entered, Removed, CohortSaved, Waits
<1>4. CASE Enrolled(c)
  <2>1. CASE Put(c, Overview("enrol", FALSE, filter)) /\ ~synced'
    BY <1>0, <1>4, <2>1, OverviewStep DEF Enrolled
  <2>2. CASE UNCHANGED synced /\ Done(c)
    BY <1>4, <2>2, OtherStep DEF Enrolled
  <2>. QED
    BY <1>4, <2>1, <2>2 DEF Enrolled
<1>5. CASE Left(c)
  <2>1. Put(c, None) /\ Waits(c, Queries) /\ QueryFounded(c)'
    BY <1>5, PutChanges DEF Left, Waits, Queries, QueryFounded
  <2>. QED
    BY <1>5, <2>1, QueryStep DEF Left, ListFits, Listed
<1>6. CASE Loaded(c)
  BY <1>6, LoadedKeepsFilter
<1>7. CASE Detailed(c)
  <2>1. Put(c, None) /\ Waits(c, Queries) /\ QueryFounded(c)'
    BY <1>7, PutChanges DEF Detailed, Waits, Queries, QueryFounded
  <2>2. selected' # None
    BY <1>7, NothingIsNoRow DEF Detailed, TypeInv, Waits, Founded
  <2>3. ~crossed /\ calls[c].keep => calls[c].query = filter /\ ListFits
    BY <1>7 DEF Detailed, FilterInv, QueryFounded
  <2>4. synced' = calls[c].keep /\ Fits(detail', calls[c].query) /\ UNCHANGED <<filter, list>>
    BY <1>7 DEF Detailed
  <2>. QED
    BY <2>1, <2>2, <2>3, <2>4, QueryStep DEF ListFits, Listed
<1>8. CASE Graded(c)
  <2>1. Put(c, None) /\ Waits(c, Queries) /\ QueryFounded(c)'
    BY <1>8, PutChanges DEF Graded, Waits, Queries, QueryFounded
  <2>2. ~crossed => selected' # None
    BY <1>8 DEF Graded, FilterInv, QueryFounded
  <2>. QED
    BY <1>8, <2>1, <2>2, QueryStep DEF Graded
<1>. QED
  BY <1>1, <1>2, <1>3, <1>4, <1>5, <1>6, <1>7, <1>8 DEF Answers

LEMMA StepKeepsFilter == TypeInv /\ FormInv /\ FilterInv /\ [Next]_vars => FilterInv'
<1>1. ASSUME TypeInv, FilterInv,
             \/ \E kind \in EditDialogs \cup RemovalDialogs, about \in Students \cup Cohorts :
                  OpenDialog(kind, about)
             \/ Dismiss
             \/ UNCHANGED vars
      PROVE  FilterInv'
  <2>1. UNCHANGED <<filter, list, selected, detail, synced, calls, crossed>>
    BY <1>1 DEF OpenDialog, Dismiss, vars, page
  <2>2. \A c \in Calls : QueryFounded(c)' <=> QueryFounded(c)
    BY <2>1 DEF QueryFounded, Waits, ListFits, Listed
  <2>3. FilterRestricts' <=> FilterRestricts
    BY <2>1 DEF FilterRestricts, Listed
  <2>. QED
    BY <1>1, <2>1, <2>2, <2>3 DEF FilterInv, Waits
<1>. QED
  BY <1>1, ActsKeepFilter, AnswersKeepFilter DEF Next

(* When the panel says that it is synchronised it lists, and would grade,  *)
(* only students of the cohort selected, unless two requests that change   *)
(* what is shown were under way at once (loadOverview, loadStudentDetail,  *)
(* admin.html: "Use o filtro superior para restringir a visao").           *)
THEOREM FilterKept == Spec => []FilterRestricts
<1>1. Init => FilterInv
  BY DEF Init, FilterInv, FilterRestricts, QueryFounded, Waits
<1>2. FilterInv => FilterRestricts
  BY DEF FilterInv
<1>. QED
  BY FormAlways, <1>1, <1>2, StepKeepsFilter, PTL DEF Spec

=============================================================================
