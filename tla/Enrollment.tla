------------------------------ MODULE Enrollment ------------------------------
(***************************************************************************)
(* Cohorts, students, enrolments and sessions (internal/store/auth.go, the *)
(* cohorts of internal/store/sqlite.go, internal/httpapi/auth.go).         *)
(*                                                                         *)
(* The pool has one connection, so a statement or a transaction is one     *)
(* action together with the Go code up to the next one.  What takes        *)
(* several statements is the deletion of a cohort, a login and the         *)
(* resolution of a session; each worker runs one of these at a time.       *)
(* Foreign keys are enforced: an INSERT needs the rows it refers to and a  *)
(* DELETE cascades.                                                        *)
(*                                                                         *)
(* Abstractions: an identifier stands for its row (AUTOINCREMENT: never    *)
(* given twice), a token likewise; whether today is within the window of a *)
(* cohort is a Boolean; a login is one with the right password, any other  *)
(* changes nothing; names and titles are left out, and so are the sessions *)
(* of instructors, which nothing but time and the logout ends.             *)
(***************************************************************************)
EXTENDS Naturals, FiniteSets

CONSTANTS
  StudentIds,  \* identifiers of students ever given
  CohortIds,   \* identifiers of cohorts ever given
  Emails,      \* e-mail addresses
  Usernames,   \* names of instructors
  Codes,       \* codes of cohorts
  Tokens,      \* session tokens ever given
  Workers,     \* requests of several statements at once
  None,        \* not given yet; NULL
  Gone         \* deleted

ASSUME EnrollmentAssumption ==
  /\ None # Gone
  /\ {None, Gone} \cap (StudentIds \cup Emails \cup Codes) = {}
  /\ None \notin CohortIds \cup Tokens \cup Usernames
  /\ IsFiniteSet(Workers)

VARIABLES
  admins,    \* table admins
  students,  \* table students: the e-mail of each row
  cohorts,   \* table cohorts: code, and whether it is open today
  enrolled,  \* table enrollments: pairs of a student and a cohort
  sessions,  \* table auth_sessions
  pc,        \* where each worker is
  req,       \* what it has read
  taken,     \* history: students whose enrolment a deletion took unseen
  moved,     \* history: students who have changed cohort
  left       \* history: tokens that were logged out, their session deleted

tables == <<admins, students, cohorts, enrolled, sessions>>
history == <<taken, moved, left>>
vars == <<admins, students, cohorts, enrolled, sessions, pc, req,
          taken, moved, left>>

(* The column that is None before the row is there and Gone after. *)
Cohorts == [code : Codes \cup {None, Gone}, open : BOOLEAN]

Sessions == [student : StudentIds \cup {None, Gone},
             cohort : CohortIds \cup {None}, expired : BOOLEAN]

Requests == [admin   : Usernames \cup {None},    \* BootstrapAdmin
             code    : Codes \cup {None},        \* DeleteCohort
             seen    : SUBSET StudentIds,        \* history: who it counted
             token   : Tokens \cup {None},       \* ResolveSession
             student : StudentIds \cup {None},
             cohort  : CohortIds \cup {None},
             late    : BOOLEAN]                  \* history: began too late

NoCohort == [code |-> None, open |-> FALSE]
NoSession == [student |-> None, cohort |-> None, expired |-> FALSE]
NoRequest == [admin |-> None, code |-> None, seen |-> {}, token |-> None,
              student |-> None, cohort |-> None, late |-> FALSE]

Labels == {"idle", "bootstrap", "delete", "dashboard", "open", "session",
           "student", "cohort", "served"}

(* What a worker has read at each label. *)
Carries(label, r) ==
  /\ (label = "idle") = (r = NoRequest)
  /\ label = "bootstrap" => r.admin \in Usernames
  /\ label = "delete" => r.code \in Codes
  /\ label = "session" => r.token \in Tokens
  /\ label \in {"dashboard", "open", "student", "cohort", "served"} =>
       r.student \in StudentIds /\ r.cohort \in CohortIds

EnrollmentTypeOK ==
  /\ admins \subseteq Usernames
  /\ students \in [StudentIds -> Emails \cup {None, Gone}]
  /\ cohorts \in [CohortIds -> Cohorts]
  /\ enrolled \subseteq StudentIds \X CohortIds
  /\ sessions \in [Tokens -> Sessions]
  /\ \A t \in Tokens :
       sessions[t].student \in StudentIds => sessions[t].cohort \in CohortIds
  /\ pc \in [Workers -> Labels]
  /\ req \in [Workers -> Requests]
  /\ \A w \in Workers : Carries(pc[w], req[w])
  /\ taken \subseteq StudentIds /\ moved \subseteq StudentIds
  /\ left \subseteq Tokens

Init ==
  /\ admins = {}
  /\ students = [s \in StudentIds |-> None]
  /\ cohorts = [c \in CohortIds |-> NoCohort]
  /\ enrolled = {}
  /\ sessions = [t \in Tokens |-> NoSession]
  /\ pc = [w \in Workers |-> "idle"]
  /\ req = [w \in Workers |-> NoRequest]
  /\ taken = {} /\ moved = {} /\ left = {}

-----------------------------------------------------------------------------
(* Rows *)

Student(s) == students[s] \in Emails

Cohort(c) == cohorts[c].code \in Codes

Session(t) == sessions[t].student \in StudentIds

(* The sessions of some tokens are deleted. *)
Without(gone) ==
  [t \in Tokens |->
     IF t \in gone THEN [NoSession EXCEPT !.student = Gone] ELSE sessions[t]]

Expired == {t \in Tokens : Session(t) /\ sessions[t].expired}

(* cleanupExpiredSessions *)
DropExpired == sessions' = Without(Expired)

-----------------------------------------------------------------------------
(* What the instructor does, and who registers *)

(* CreateCohort: an upsert by code. *)
CreateCohort(x, open) ==
  /\ IF \E c \in CohortIds : cohorts[c].code = x
     THEN cohorts' = [c \in CohortIds |->
            IF cohorts[c].code = x THEN [code |-> x, open |-> open] ELSE cohorts[c]]
     ELSE \E c \in CohortIds :
            /\ cohorts[c].code = None
            /\ cohorts' = [cohorts EXCEPT ![c] = [code |-> x, open |-> open]]
  /\ UNCHANGED <<admins, students, enrolled, sessions, pc, req, history>>

(* UpdateCohort: another window, another code unless a cohort has it. *)
UpdateCohort(c, x, open) ==
  /\ Cohort(c)
  /\ \A d \in CohortIds \ {c} : cohorts[d].code # x
  /\ cohorts' = [cohorts EXCEPT ![c] = [code |-> x, open |-> open]]
  /\ UNCHANGED <<admins, students, enrolled, sessions, pc, req, history>>

(* A day begins: a cohort opens, or closes. *)
NewDay(c) ==
  /\ Cohort(c)
  /\ cohorts' = [cohorts EXCEPT ![c].open = ~@]
  /\ UNCHANGED <<admins, students, enrolled, sessions, pc, req, history>>

(* CreateStudent, from the page of registration or from an instructor. *)
CreateStudent(s, e, c) ==
  /\ Cohort(c)
  /\ \A r \in StudentIds : students[r] # e
  /\ students[s] = None
  /\ students' = [students EXCEPT ![s] = e]
  /\ enrolled' = enrolled \cup {<<s, c>>}
  /\ UNCHANGED <<admins, cohorts, sessions, pc, req, history>>

(* The one cohort of a student. *)
Moved(s, c) == {p \in enrolled : p[1] # s} \cup {<<s, c>>}

(* UpdateStudent: another e-mail, another cohort; the sessions stay. *)
UpdateStudent(s, e, c) ==
  /\ Student(s) /\ Cohort(c)
  /\ \A r \in StudentIds \ {s} : students[r] # e
  /\ students' = [students EXCEPT ![s] = e]
  /\ enrolled' = Moved(s, c)
  /\ moved' = IF <<s, c>> \in enrolled THEN moved ELSE moved \cup {s}
  /\ taken' = taken \ {s}
  /\ UNCHANGED <<admins, cohorts, sessions, pc, req, left>>

(* DeleteStudent *)
DeleteStudent(s) ==
  /\ Student(s)
  /\ students' = [students EXCEPT ![s] = Gone]
  /\ enrolled' = {p \in enrolled : p[1] # s}
  /\ sessions' = Without({t \in Tokens : sessions[t].student = s})
  /\ UNCHANGED <<admins, cohorts, pc, req, history>>

-----------------------------------------------------------------------------
(* A request of several statements *)

Go(w, label, r) ==
  /\ pc' = [pc EXCEPT ![w] = label]
  /\ req' = [req EXCEPT ![w] = r]

(* Mutant of Answer: what was read for the last request is kept. *)
Answer_Remembers(w) == Go(w, "idle", req[w])

(* The request is answered, with success or with an error. *)
Answer(w) == Go(w, "idle", NoRequest)

(* Mutant of CountAdmins: the count is not looked at. *)
CountAdmins_Unread(w, u) ==
  /\ pc[w] = "idle"
  /\ Go(w, "bootstrap", [NoRequest EXCEPT !.admin = u])
  /\ UNCHANGED <<tables, history>>

(* BootstrapAdmin: AdminSetupRequired, ... *)
CountAdmins(w, u) ==
  /\ pc[w] = "idle"
  /\ admins = {}
  /\ Go(w, "bootstrap", [NoRequest EXCEPT !.admin = u])
  /\ UNCHANGED <<tables, history>>

(* ... then the INSERT, which fails for a name that is taken. *)
InsertAdmin(w) ==
  /\ pc[w] = "bootstrap"
  /\ admins' = admins \cup {req[w].admin}
  /\ Answer(w)
  /\ UNCHANGED <<students, cohorts, enrolled, sessions, history>>

-----------------------------------------------------------------------------
(* DeleteCohort: two statements *)

(* The students in the cohort with a code. *)
EnrolledIn(x) ==
  {s \in StudentIds : \E c \in CohortIds : cohorts[c].code = x /\ <<s, c>> \in enrolled}

(* Mutant of CountStudents: the count is not looked at. *)
CountStudents_Unread(w, x) ==
  /\ pc[w] = "idle"
  /\ Go(w, "delete", [NoRequest EXCEPT !.code = x, !.seen = EnrolledIn(x)])
  /\ UNCHANGED <<tables, history>>

(* SELECT COUNT: a cohort with students is not deleted. *)
CountStudents(w, x) ==
  /\ pc[w] = "idle"
  /\ EnrolledIn(x) = {}
  /\ Go(w, "delete", [NoRequest EXCEPT !.code = x, !.seen = EnrolledIn(x)])
  /\ UNCHANGED <<tables, history>>

(* DELETE: whatever has the code now, with its enrolments and sessions. *)
DeleteCohort(w) ==
  /\ pc[w] = "delete"
  /\ LET row == {c \in CohortIds : cohorts[c].code = req[w].code}
     IN /\ cohorts' = [c \in CohortIds |->
             IF c \in row THEN [code |-> Gone, open |-> FALSE] ELSE cohorts[c]]
        /\ enrolled' = {p \in enrolled : p[2] \notin row}
        /\ sessions' = Without({t \in Tokens : sessions[t].cohort \in row})
        /\ taken' = taken \cup (EnrolledIn(req[w].code) \ req[w].seen)
  /\ Answer(w)
  /\ UNCHANGED <<admins, students, moved, left>>

-----------------------------------------------------------------------------
(* A student logs in: AuthenticateStudent *)

(* The student is found in the cohort, with the password, and the cohort   *)
(* is open.                                                                *)
FindEnrolled(w, s, c) ==
  /\ pc[w] = "idle"
  /\ Student(s) /\ Cohort(c) /\ <<s, c>> \in enrolled
  /\ cohorts[c].open
  /\ Go(w, "dashboard", [NoRequest EXCEPT !.student = s, !.cohort = c])
  /\ UNCHANGED <<tables, history>>

(* LoadDashboard fails without the student. *)
LoadDashboard(w) ==
  /\ pc[w] = "dashboard"
  /\ IF Student(req[w].student) THEN Go(w, "open", req[w]) ELSE Answer(w)
  /\ UNCHANGED <<tables, history>>

(* Mutant of CreateSession: nothing is required of what is referred to. *)
CreateSession_NoForeignKey(w) ==
  /\ pc[w] = "open"
  /\ \E t \in Tokens :
       /\ sessions[t].student = None
       /\ sessions' = [sessions EXCEPT ![t] =
            [student |-> req[w].student, cohort |-> req[w].cohort, expired |-> FALSE]]
  /\ Answer(w)
  /\ UNCHANGED <<admins, students, cohorts, enrolled, history>>

(* createSession: a token, for rows that are still there. *)
CreateSession(w) ==
  /\ pc[w] = "open"
  /\ IF Student(req[w].student) /\ Cohort(req[w].cohort)
     THEN \E t \in Tokens :
            /\ sessions[t].student = None
            /\ sessions' = [sessions EXCEPT ![t] =
                 [student |-> req[w].student, cohort |-> req[w].cohort, expired |-> FALSE]]
     ELSE UNCHANGED sessions
  /\ Answer(w)
  /\ UNCHANGED <<admins, students, cohorts, enrolled, history>>

-----------------------------------------------------------------------------
(* A request with a cookie: ResolveSession, in four statements *)

StartRequest(w, t) ==
  /\ pc[w] = "idle"
  /\ sessions[t] # NoSession
  /\ DropExpired
  /\ Go(w, "session", [NoRequest EXCEPT !.token = t,
                                        !.late = t \in left \cup Expired])
  /\ UNCHANGED <<admins, students, cohorts, enrolled, history>>

ReadSession(w) ==
  /\ pc[w] = "session"
  /\ LET t == req[w].token
     IN IF Session(t) /\ ~sessions[t].expired
        THEN Go(w, "student", [req[w] EXCEPT !.student = sessions[t].student,
                                             !.cohort = sessions[t].cohort])
        ELSE Answer(w)
  /\ UNCHANGED <<tables, history>>

ReadStudent(w) ==
  /\ pc[w] = "student"
  /\ IF Student(req[w].student) THEN Go(w, "cohort", req[w]) ELSE Answer(w)
  /\ UNCHANGED <<tables, history>>

(* The principal has the cohort of the session; its window is not looked   *)
(* at again after the login.                                               *)
ReadCohort(w) ==
  /\ pc[w] = "cohort"
  /\ IF Cohort(req[w].cohort) THEN Go(w, "served", req[w]) ELSE Answer(w)
  /\ UNCHANGED <<tables, history>>

(* requireStudent lets the request pass: its handler runs and answers. *)
Serve(w) ==
  /\ pc[w] = "served"
  /\ Answer(w)
  /\ UNCHANGED <<tables, history>>

(* A statement fails, the client goes away, or the server stops. *)
Abandon(w) ==
  /\ pc[w] # "idle"
  /\ Answer(w)
  /\ UNCHANGED <<tables, history>>

-----------------------------------------------------------------------------
(* How sessions end *)

(* Mutant of Logout: only the cookie is cleared. *)
Logout_CookieOnly(t) ==
  /\ Session(t)
  /\ left' = left \cup {t}
  /\ UNCHANGED <<tables, pc, req, taken, moved>>

(* handleLogout, with DeleteSession, whose error it ignores: the answer is *)
(* the same and clears the cookie, but the session lives on.               *)
Logout(t) ==
  /\ Session(t)
  /\ \/ /\ sessions' = Without({t})
        /\ left' = left \cup {t}
     \/ UNCHANGED <<sessions, left>>
  /\ UNCHANGED <<admins, students, cohorts, enrolled, pc, req, taken, moved>>

(* sessionLifetime has passed. *)
Expire(t) ==
  /\ Session(t)
  /\ sessions' = [sessions EXCEPT ![t].expired = TRUE]
  /\ UNCHANGED <<admins, students, cohorts, enrolled, pc, req, history>>

(* The ticker of StartSessionCleanup. *)
Cleanup ==
  /\ DropExpired
  /\ UNCHANGED <<admins, students, cohorts, enrolled, pc, req, history>>

-----------------------------------------------------------------------------
Register ==
  \E s \in StudentIds, e \in Emails, c \in CohortIds : CreateStudent(s, e, c)

(* requireAdmin: there is an instructor. *)
Instructor ==
  /\ admins # {}
  /\ \/ \E x \in Codes, open \in BOOLEAN : CreateCohort(x, open)
     \/ \E c \in CohortIds, x \in Codes, open \in BOOLEAN : UpdateCohort(c, x, open)
     \/ \E s \in StudentIds, e \in Emails, c \in CohortIds : UpdateStudent(s, e, c)
     \/ \E s \in StudentIds : DeleteStudent(s)

Time ==
  \/ \E c \in CohortIds : NewDay(c)
  \/ \E t \in Tokens : Logout(t)
  \/ \E t \in Tokens : Expire(t)
  \/ Cleanup

Work(w) ==
  \/ \E u \in Usernames : CountAdmins(w, u)
  \/ InsertAdmin(w)
  \/ admins # {} /\ \E x \in Codes : CountStudents(w, x)
  \/ DeleteCohort(w)
  \/ \E s \in StudentIds, c \in CohortIds : FindEnrolled(w, s, c)
  \/ LoadDashboard(w)
  \/ CreateSession(w)
  \/ \E t \in Tokens : StartRequest(w, t)
  \/ ReadSession(w)
  \/ ReadStudent(w)
  \/ ReadCohort(w)
  \/ Serve(w)
  \/ Abandon(w)

Next == Register \/ Instructor \/ Time \/ \E w \in Workers : Work(w)

Spec == Init /\ [][Next]_vars

-----------------------------------------------------------------------------
(* Properties *)

(* BootstrapAdmin counts and inserts in two statements: two first          *)
(* instructors may both be admitted, but never more than the requests that *)
(* overlap, and nobody once there is one and those have ended.             *)
AdminsBounded ==
  Cardinality(admins \cup {req[w].admin : w \in {v \in Workers : pc[v] = "bootstrap"}})
    <= Cardinality(Workers)

(* A student has one cohort (CreateStudent, UpdateStudent), and no         *)
(* deletion of a cohort takes it from a student it counted: only one who   *)
(* came between the count and the DELETE is left without.                  *)
EnrolledOnce ==
  \A s \in StudentIds :
    /\ Student(s) /\ s \notin taken => \E c \in CohortIds : <<s, c>> \in enrolled
    /\ \A c, d \in CohortIds :
         <<s, c>> \in enrolled /\ <<s, d>> \in enrolled => c = d

(* A session belongs to a student and a cohort that exist, and the student *)
(* is or was enrolled there: however a login overlaps with deletions, the  *)
(* session it opens is founded (AuthenticateStudent reads before it        *)
(* inserts, and the INSERT checks again only that the rows exist).         *)
SessionsFounded ==
  \A t \in Tokens : Session(t) =>
    LET s == sessions[t].student
        c == sessions[t].cohort
    IN Student(s) /\ Cohort(c) /\ (<<s, c>> \in enrolled \/ s \in moved)

(* After the expiry of a session, or a logout that could delete it, no     *)
(* request with its token passes requireStudent any more, though the       *)
(* cleanup, the SELECT and the deletions interleave.                       *)
EndedStaysOut ==
  \A w \in Workers : pc[w] = "served" => ~req[w].late

=============================================================================
