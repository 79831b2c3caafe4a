----------------------------- MODULE AccessGate -----------------------------
(***************************************************************************)
(* The way into the classroom, in one browser: the registration page       *)
(* (register.js), its redirect to the login page, and the login page of    *)
(* app.js, where a student has their cohorts listed, enters one of them    *)
(* and leaves again; in the classroom the answers of saves and refreshes   *)
(* name a student too.                                                     *)
(*                                                                         *)
(* The scripts run to completion between two awaits: an action is one      *)
(* event, a click, a key, a timer, or the answer to a call. Calls overlap, *)
(* and the cookie of an answer is set when its headers arrive, before the  *)
(* script goes on with its body.                                           *)
(*                                                                         *)
(* Abstractions: a password is named by the student it is right for; text  *)
(* is typed in one piece; a body that breaks off counts as a call that     *)
(* failed; what localStorage holds is not kept, so the e-mail it would     *)
(* restore is any; a call that a navigation drops has been handled before  *)
(* it or never is; of the work in the classroom there are only the calls   *)
(* whose answer is a dashboard.                                            *)
(***************************************************************************)
EXTENDS Naturals, FiniteSets

CONSTANTS
  Emails,     \* students, by their e-mail
  Codes,      \* the codes of the cohorts
  Enrolled,   \* who is enrolled where at the start
  Calls,      \* how many calls may be in flight at once
  None        \* nothing typed, listed, signed in or in flight

ASSUME GateAssumption ==
  /\ Enrolled \subseteq Emails \X Codes
  /\ None \notin Emails \cup Codes \cup (Emails \X Codes)

VARIABLES
  page,      \* the page shown, and how far it is
  email,     \* its fields
  password,
  code,
  disabled,  \* is its submit button disabled?
  timer,     \* register.js: is a redirect to the login page scheduled?
  hint,      \* the registration the login page was opened with
  lookup,    \* state.accessLookup: the cohorts found
  picker,    \* the cohorts whose buttons are on the page
  student,   \* state.student and state.cohort
  cookie,    \* the session the browser holds
  calls,     \* the requests in flight
  enrolled,  \* tables students and enrollments
  mixed,     \* history: has this page let logins and logouts overlap?
  revived    \* history: is its student there by an answer to former work?

fields == <<email, password, code>>
access == <<lookup, picker, student>>
history == <<mixed, revived>>
vars == <<page, fields, disabled, timer, hint, access, cookie, calls, enrolled, history>>

Maybe(S) == S \cup {None}

Seats == Emails \X Codes

Lists == [email : Emails, codes : SUBSET Codes,
          crossed : BOOLEAN]   \* history: of a lookup that was crossed

Requests ==
  [kind     : {"register", "lookup", "login", "logout", "work"},
   email    : Maybe(Emails), password : Maybe(Emails), code : Maybe(Codes),
   phase    : {"sent", "handled", "received"},
   ok       : BOOLEAN,         \* the answer: was it granted,
   codes    : SUBSET Codes,    \* and which open cohorts were found
   seat     : Maybe(Seats),    \* the cookie a logout or work was sent with
   crossed  : BOOLEAN]         \* history: have form or student changed since?

(* null is not a request. *)
ASSUME NullAssumption == None \notin Requests

Hints == [email : Maybe(Emails), code : Maybe(Codes), hasty : BOOLEAN]

InFlight(kinds) == {c \in Calls : calls[c] # None /\ calls[c].kind \in kinds}

Submitted == InFlight({"register", "lookup"})

GateTypeOK ==
  /\ page \in {"register", "starting", "gate", "class", "dead"}
  /\ email \in Maybe(Emails) /\ password \in Maybe(Emails) /\ code \in Maybe(Codes)
  /\ disabled \in BOOLEAN /\ (Submitted # {} => disabled)
  /\ Cardinality(Submitted) <= 1   \* a form is not sent twice at once
  /\ timer \in BOOLEAN /\ (timer => page = "register")
  /\ hint \in Maybe(Hints)
  /\ lookup \in Maybe(Lists) /\ picker \in Maybe(Lists)
  /\ student \in Maybe(Seats) /\ (page = "class" <=> student # None)
  /\ cookie \in Maybe(Seats)
  /\ calls \in [Calls -> Maybe(Requests)]
  /\ enrolled \subseteq Seats
  /\ mixed \in BOOLEAN /\ revived \in BOOLEAN

Init ==
  /\ page \in {"register", "starting"}
  /\ email = None /\ password = None /\ code = None
  /\ disabled = FALSE /\ timer = FALSE /\ hint = None
  /\ lookup = None /\ picker = None /\ student = None
  /\ cookie \in Maybe(Enrolled)
  /\ calls = [c \in Calls |-> None]
  /\ enrolled = Enrolled
  /\ mixed = FALSE /\ revived = FALSE

-----------------------------------------------------------------------------
(* Both pages *)

(* fetchJSON: the call leaves with the fields as they are. *)
Send(c, kind, x) ==
  /\ calls[c] = None
  /\ calls' = [calls EXCEPT ![c] =
       [kind |-> kind, email |-> email, password |-> password, code |-> x,
        phase |-> "sent", ok |-> FALSE, codes |-> {}, crossed |-> FALSE,
        seat |-> IF kind \in {"logout", "work"} THEN cookie ELSE None]]

(* History: a form in flight is no longer the one on the page, and work in *)
(* flight no longer that of its student.                                   *)
Crossing(set) ==
  [c \in Calls |-> IF set[c] # None /\ set[c].kind \in {"register", "lookup", "work"}
                   THEN [set[c] EXCEPT !.crossed = TRUE] ELSE set[c]]

Ended(c) == [calls EXCEPT ![c] = None]

(* The browser opens a page; a script of its own starts with it. *)
Open(p, h) ==
  /\ page' = p /\ hint' = h
  /\ email' = None /\ password' = None /\ code' = None
  /\ disabled' = FALSE /\ timer' = FALSE
  /\ mixed' = FALSE /\ revived' = FALSE
  /\ lookup' = None /\ picker' = None /\ student' = None
  /\ calls' = [c \in Calls |-> None]
  /\ UNCHANGED <<cookie, enrolled>>

(* The links between the two pages, and a reload. *)
Navigate ==
  \/ page \in {"gate", "dead"} /\ Open("register", None)
  \/ Open("starting", None)

-----------------------------------------------------------------------------
(* The registration page *)

(* The fields stay open while the call is in flight and while the redirect *)
(* waits.                                                                  *)
EditRegistration(e, x) ==
  /\ page = "register"
  /\ (e = email) # (x = code)
  /\ email' = e /\ code' = x
  /\ calls' = Crossing(calls)
  /\ hint' = IF timer THEN [hint EXCEPT !.hasty = TRUE] ELSE hint
  /\ UNCHANGED <<page, password, disabled, timer, access, cookie, enrolled, history>>

SubmitRegistration(c) ==
  /\ page = "register" /\ ~disabled
  /\ email # None /\ code # None
  /\ Send(c, "register", code)
  /\ disabled' = TRUE
  /\ UNCHANGED <<page, fields, timer, hint, access, cookie, enrolled, history>>

(* Mutant of Registered: the redirect is scheduled whatever the answer. *)
Registered_Anyway(c) ==
  /\ timer' = TRUE
  /\ hint' = [email |-> None, code |-> None, hasty |-> calls[c].crossed]

(* A registration that was granted schedules the redirect, 900 ms later.   *)
Registered(c) ==
  IF calls[c].ok
  THEN /\ timer' = TRUE
       /\ hint' = [email |-> None, code |-> None, hasty |-> calls[c].crossed]
  ELSE UNCHANGED <<timer, hint>>

(* The answer gives the button back; the page can be used, and submitted   *)
(* again, until the redirect.                                              *)
RegistrationAnswered(c) ==
  /\ Registered(c)
  /\ disabled' = FALSE
  /\ calls' = Ended(c)
  /\ UNCHANGED <<page, fields, access, cookie, enrolled, history>>

(* redirectToLogin reads the fields when the timer fires. *)
Redirect ==
  /\ timer
  /\ Open("starting", [hint EXCEPT !.email = email, !.code = code])

-----------------------------------------------------------------------------
(* initialize of the login page *)

(* Mutant of Restore: the student of the redirect is taken for signed in.  *)
Restore_Hint ==
  LET seat == IF hint = None \/ hint.email = None \/ hint.code = None
              THEN cookie ELSE <<hint.email, hint.code>>
  IN /\ cookie # None
     /\ page' = "class" /\ student' = seat /\ email' = seat[1]

(* A live session is restored, whatever the page was opened with. *)
Restore ==
  /\ cookie # None
  /\ page' = "class" /\ student' = cookie /\ email' = cookie[1]

(* Without one, or when the status is that of an instructor or fails to    *)
(* load, the form is shown, with the e-mail of the hint if there is one.   *)
Anonymous ==
  /\ page' = "gate"
  /\ \E e \in Maybe(Emails) :
       email' = IF hint # None /\ hint.email # None THEN hint.email ELSE e
  /\ UNCHANGED student

(* consumeAccessRedirectHint takes the hint out of the address. The        *)
(* listeners are attached last: until then the page takes no input.        *)
Initialize ==
  /\ page = "starting"
  /\ Restore \/ Anonymous
  /\ hint' = None
  /\ UNCHANGED <<password, code, disabled, timer, lookup, picker, cookie, calls,
                 enrolled, history>>

(* Without the course the script stops before it attaches a listener. *)
CourseFails ==
  /\ page = "starting"
  /\ page' = "dead"
  /\ UNCHANGED <<fields, disabled, timer, hint, access, cookie, calls, enrolled, history>>

-----------------------------------------------------------------------------
(* The login page *)

(* Mutant of EditAccess: a new password leaves the list on the page. *)
EditAccess_EmailOnly(e, p) ==
  /\ page = "gate"
  /\ (e = email) # (p = password)
  /\ email' = e /\ password' = p
  /\ IF lookup # None /\ e # email THEN lookup' = None /\ picker' = None
     ELSE UNCHANGED <<lookup, picker>>
  /\ calls' = Crossing(calls)
  /\ UNCHANGED <<page, code, disabled, timer, hint, student, cookie, enrolled, history>>

(* Other credentials: a list that was found is dropped. While a lookup is  *)
(* in flight there is none, and the buttons of the last one stay.          *)
EditAccess(e, p) ==
  /\ page = "gate"
  /\ (e = email) # (p = password)
  /\ email' = e /\ password' = p
  /\ IF lookup # None THEN lookup' = None /\ picker' = None
     ELSE UNCHANGED <<lookup, picker>>
  /\ calls' = Crossing(calls)
  /\ UNCHANGED <<page, code, disabled, timer, hint, student, cookie, enrolled, history>>

(* Mutant of SubmitLookup: its button stays enabled. *)
SubmitLookup_Enabled(c) ==
  /\ page = "gate" /\ ~disabled
  /\ email # None /\ password # None
  /\ Send(c, "lookup", None)
  /\ lookup' = None
  /\ UNCHANGED <<page, fields, disabled, timer, hint, picker, student, cookie,
                 enrolled, history>>

(* lookupStudentCohorts, up to its call. *)
SubmitLookup(c) ==
  /\ page = "gate" /\ ~disabled
  /\ email # None /\ password # None
  /\ Send(c, "lookup", None)
  /\ lookup' = None
  /\ disabled' = TRUE
  /\ UNCHANGED <<page, fields, timer, hint, picker, student, cookie, enrolled, history>>

(* The rest of it: the cohorts are listed for whoever they were asked for, *)
(* unless a student has been signed in meanwhile; a refusal empties the    *)
(* list.                                                                   *)
LookupAnswered(c) ==
  /\ lookup' = IF calls[c].ok
               THEN [email |-> calls[c].email, codes |-> calls[c].codes,
                     crossed |-> calls[c].crossed]
               ELSE lookup
  /\ picker' = IF student = None THEN lookup' ELSE None
  /\ disabled' = FALSE
  /\ calls' = Ended(c)
  /\ UNCHANGED <<page, fields, timer, hint, student, cookie, enrolled, history>>

(* enterStudentCohort, up to its call: no button is disabled meanwhile. *)
EnterCohort(c, x) ==
  /\ page = "gate"
  /\ picker # None /\ x \in picker.codes
  /\ email # None /\ password # None
  /\ Send(c, "login", x)
  /\ mixed' = (mixed \/ InFlight({"login", "logout"}) # {})
  /\ UNCHANGED <<page, fields, disabled, timer, hint, access, cookie, enrolled, revived>>

(* syncStateFromDashboard and render, as far as the gate goes. *)
Shows(seat) ==
  /\ page' = "class" /\ student' = seat
  /\ email' = seat[1]
  /\ lookup' = None /\ picker' = None

(* Mutant of SignIn: the password stays in its hidden field. *)
SignIn_KeepsPassword(seat) == Shows(seat) /\ UNCHANGED password

(* A login clears the password as well. *)
SignIn(seat) == Shows(seat) /\ password' = None

(* The rest of it. *)
LoginAnswered(c) ==
  /\ IF calls[c].ok
     THEN /\ SignIn(<<calls[c].email, calls[c].code>>)
          /\ calls' = Crossing(Ended(c))
          /\ revived' = FALSE
     ELSE /\ UNCHANGED <<page, email, password, access, revived>>
          /\ calls' = Ended(c)
  /\ UNCHANGED <<code, disabled, timer, hint, cookie, enrolled, mixed>>

ClickLogout(c) ==
  /\ page = "class"
  /\ Send(c, "logout", None)
  /\ mixed' = (mixed \/ InFlight({"login", "logout"}) # {})
  /\ UNCHANGED <<page, fields, disabled, timer, hint, access, cookie, enrolled, revived>>

(* saveCurrentWorkspace and refreshDashboard, up to their calls. *)
ClickWork(c) ==
  /\ page = "class"
  /\ Send(c, "work", None)
  /\ UNCHANGED <<page, fields, disabled, timer, hint, access, cookie, enrolled, history>>

(* The rest of them: the dashboard names the student, whoever the page     *)
(* has; the password on the form is left alone.                            *)
WorkAnswered(c) ==
  /\ IF calls[c].ok
     THEN /\ Shows(calls[c].seat)
          /\ calls' = IF student' = student THEN Ended(c) ELSE Crossing(Ended(c))
          /\ revived' = (revived \/ calls[c].crossed)
     ELSE /\ UNCHANGED <<page, email, access, revived>>
          /\ calls' = Ended(c)
  /\ UNCHANGED <<password, code, disabled, timer, hint, cookie, enrolled, mixed>>

(* clearStudentSession, whether or not the server knows of the logout.     *)
LogoutAnswered(c) ==
  /\ page' = "gate" /\ student' = None /\ email' = None
  /\ lookup' = None /\ picker' = None
  /\ calls' = Crossing(Ended(c))
  /\ revived' = FALSE
  /\ UNCHANGED <<password, code, disabled, timer, hint, cookie, enrolled, mixed>>

-----------------------------------------------------------------------------
(* The server and the network *)

(* CreateStudent: an e-mail is registered once. *)
Registers(r) == \A x \in Codes : <<r.email, x>> \notin enrolled

Taught(e) == {x \in Codes : <<e, x>> \in enrolled}

(* The answer of the server: granted, with the cohorts that are open, or   *)
(* refused: a login also when the cohort is closed, a registration also    *)
(* when there is no such cohort. A cookie whose session has ended is as    *)
(* good as none.                                                           *)
Handle(c) ==
  /\ calls[c] # None /\ calls[c].phase = "sent"
  /\ LET r == calls[c]
     IN \E ok \in BOOLEAN, codes \in SUBSET Taught(r.email) :
          /\ CASE r.kind = "register" -> (ok => Registers(r)) /\ codes = {}
               [] r.kind = "lookup"   -> /\ ok = (r.password = r.email /\ Taught(r.email) # {})
                                         /\ ok \/ codes = {}
               [] r.kind = "login"    -> /\ ok => r.password = r.email /\ r.code \in Taught(r.email)
                                         /\ codes = {}
               [] r.kind = "logout"   -> ok /\ codes = {}
               [] r.kind = "work"     -> (ok => r.seat # None) /\ codes = {}
          /\ calls' = [calls EXCEPT ![c].phase = "handled", ![c].ok = ok, ![c].codes = codes]
          /\ enrolled' = IF r.kind = "register" /\ ok
                         THEN enrolled \cup {<<r.email, r.code>>} ELSE enrolled
          /\ cookie' = IF r.kind = "logout" /\ r.seat = cookie THEN None ELSE cookie
  /\ UNCHANGED <<page, fields, disabled, timer, hint, access, history>>

SetsCookie(r) == r.kind \in {"login", "logout"} /\ r.ok

(* The headers of an answer arrive, with the cookie. *)
Receive(c) ==
  /\ calls[c] # None /\ calls[c].phase = "handled" /\ SetsCookie(calls[c])
  /\ calls' = [calls EXCEPT ![c].phase = "received"]
  /\ cookie' = IF calls[c].kind = "login" THEN <<calls[c].email, calls[c].code>> ELSE None
  /\ UNCHANGED <<page, fields, disabled, timer, hint, access, enrolled, history>>

Answered(c) ==
  CASE calls[c].kind = "register" -> RegistrationAnswered(c)
    [] calls[c].kind = "lookup"   -> LookupAnswered(c)
    [] calls[c].kind = "login"    -> LoginAnswered(c)
    [] calls[c].kind = "logout"   -> LogoutAnswered(c)
    [] calls[c].kind = "work"     -> WorkAnswered(c)

(* The script goes on with the answer. *)
Arrive(c) ==
  /\ calls[c] # None
  /\ calls[c].phase = IF SetsCookie(calls[c]) THEN "received" ELSE "handled"
  /\ Answered(c)

(* Mutant of CallFails: a lookup that fails does not give its button back. *)
CallFails_Locked(c) ==
  /\ calls[c] # None /\ calls[c].phase \in {"sent", "handled"}
  /\ IF calls[c].kind = "logout" THEN LogoutAnswered(c)
     ELSE /\ calls' = Ended(c)
          /\ disabled' = (disabled /\ page = "gate")
          /\ picker' = IF calls[c].kind = "lookup" THEN lookup ELSE picker
          /\ UNCHANGED <<page, fields, timer, hint, lookup, student, cookie, enrolled, history>>

(* The call fails before or after the server has handled it: the catch and *)
(* finally of the handlers. A logout clears the page all the same.         *)
CallFails(c) ==
  /\ calls[c] # None /\ calls[c].phase \in {"sent", "handled"}
  /\ IF calls[c].kind = "logout" THEN LogoutAnswered(c)
     ELSE /\ calls' = Ended(c)
          /\ disabled' = (disabled /\ calls[c].kind \in {"login", "work"})
          /\ picker' = IF calls[c].kind = "lookup" THEN lookup ELSE picker
          /\ UNCHANGED <<page, fields, timer, hint, lookup, student, cookie, enrolled, history>>

Settle(c) == Handle(c) \/ Receive(c) \/ Arrive(c) \/ CallFails(c)

Next ==
  \/ \E c \in Calls :
       \/ SubmitRegistration(c) \/ SubmitLookup(c) \/ ClickLogout(c) \/ ClickWork(c)
       \/ \E x \in Codes : EnterCohort(c, x)
       \/ Settle(c)
  \/ \E e \in Maybe(Emails), x \in Maybe(Codes) : EditRegistration(e, x)
  \/ \E e \in Maybe(Emails), p \in Maybe(Emails) : EditAccess(e, p)
  \/ Redirect \/ Initialize \/ CourseFails \/ Navigate

(* A form that was sent is answered or fails in the end: the browser gives *)
(* up on a connection that is dead.                                        *)
Fairness == WF_vars(\E c \in Submitted : Settle(c))

Spec == Init /\ [][Next]_vars /\ Fairness

-----------------------------------------------------------------------------
(* Properties *)

(* app.js: "Credenciais alteradas. Valide novamente para listar suas       *)
(* turmas."  The cohorts a student can pick are those of the credentials   *)
(* on the form, unless the form was changed, or its student came or went,  *)
(* while they were being looked up.                                        *)
PickerIsOfForm ==
  /\ page = "gate" /\ picker # None /\ ~picker.crossed
  /\ InFlight({"lookup"}) = {}
  => email = picker.email /\ password = picker.email

(* register.js: "Cadastro concluido. Redirecionando para o login do        *)
(* aluno."  The login page is opened for a registration that was made,     *)
(* though the redirect reads the fields long after they were sent, and     *)
(* though a registration may be sent again or its answer be lost. It is    *)
(* only when the fields are edited meanwhile that it may name another.     *)
HintIsRegistered ==
  page = "starting" /\ hint # None /\ ~hint.hasty
    => <<hint.email, hint.code>> \in enrolled

(* The student the page shows is the one the server takes them for, so     *)
(* that work is stored for whom it is shown, whichever calls fail, unless  *)
(* logins and logouts of one page overlap, or the page has its student     *)
(* from an answer to work of an earlier turn.                              *)
PageIsCookie ==
  page = "class" /\ ~mixed /\ ~revived /\ InFlight({"logout"}) = {} => cookie = student

(* "Trocar aluno" (index.html): who leaves the classroom leaves neither    *)
(* their e-mail nor their password nor their cohorts on the form for the   *)
(* next student, whether or not the logout reached the server, unless they *)
(* were there by an answer to work of an earlier turn: that does not clear *)
(* what was typed on the form meanwhile.                                   *)
LeavesNothing ==
  [][page = "class" /\ page' = "gate" /\ ~revived =>
       /\ email' = None /\ password' = None
       /\ lookup' = None /\ picker' = None]_vars

(* The submit button of either page comes back: every call ends, answered  *)
(* or not, and the handler enables it again.                               *)
ButtonReturns == []<>~disabled

=============================================================================
