--------------------------- MODULE EnrollmentProofs ---------------------------
(***************************************************************************)
(* Theorems of Enrollment, for every number of students, cohorts, tokens   *)
(* and requests.                                                           *)
(***************************************************************************)
EXTENDS Enrollment, FiniteSetTheorems, TLAPS

(***************************************************************************)
(* Type correctness                                                        *)
(***************************************************************************)

SessionsTyped ==
  /\ sessions \in [Tokens -> Sessions]
  /\ \A t \in Tokens :
       sessions[t].student \in StudentIds => sessions[t].cohort \in CohortIds

WorkersTyped ==
  /\ pc \in [Workers -> Labels]
  /\ req \in [Workers -> Requests]
  /\ \A w \in Workers : Carries(pc[w], req[w])

LEMMA MembershipIsBoolean ==
  ASSUME NEW x, NEW S
  PROVE  (x \in S) \in BOOLEAN
<1>1. CASE x \in S
  <2>1. (x \in S) = TRUE
    BY <1>1
  <2>. QED
    BY <2>1
<1>2. CASE x \notin S
  <2>1. (x \in S) = FALSE
    BY <1>2
  <2>. QED
    BY <2>1
<1>. QED
  BY <1>1, <1>2

LEMMA DropTyped ==
  ASSUME EnrollmentTypeOK, NEW gone, sessions' = Without(gone)
  PROVE  SessionsTyped'
  BY EnrollmentAssumption
     DEF SessionsTyped, Without, EnrollmentTypeOK, Sessions, NoSession

LEMMA InitTyped == Init => EnrollmentTypeOK
  BY EnrollmentAssumption
     DEF Init, EnrollmentTypeOK, Cohorts, NoCohort, Sessions, NoSession,
         Requests, NoRequest, Labels, Carries

(* A worker goes on, with what it has read. *)
LEMMA GoTyped ==
  ASSUME EnrollmentTypeOK, NEW w \in Workers,
         NEW label \in Labels, NEW r \in Requests, Carries(label, r), Go(w, label, r)
  PROVE  WorkersTyped'
  BY DEF Go, EnrollmentTypeOK, WorkersTyped

LEMMA AnswerTyped ==
  ASSUME EnrollmentTypeOK, NEW w \in Workers, Answer(w)
  PROVE  WorkersTyped'
  <1>1. NoRequest \in Requests /\ Carries("idle", NoRequest)
    BY DEF NoRequest, Requests, Carries
  <1>. QED
    BY <1>1, GoTyped DEF Answer, Labels

LEMMA OthersTyped ==
  ASSUME EnrollmentTypeOK, Register \/ Instructor \/ Time
  PROVE  EnrollmentTypeOK'
<1>. USE DEF history
<1>1. ASSUME NEW x \in Codes, NEW open \in BOOLEAN, CreateCohort(x, open)
      PROVE  EnrollmentTypeOK'
  BY <1>1 DEF CreateCohort, EnrollmentTypeOK, Cohorts
<1>2. ASSUME NEW c \in CohortIds, NEW x \in Codes, NEW open \in BOOLEAN,
             UpdateCohort(c, x, open)
      PROVE  EnrollmentTypeOK'
  BY <1>2 DEF UpdateCohort, EnrollmentTypeOK, Cohorts
<1>3. ASSUME NEW c \in CohortIds, NewDay(c)
      PROVE  EnrollmentTypeOK'
  BY <1>3 DEF NewDay, EnrollmentTypeOK, Cohorts
<1>4. ASSUME NEW s \in StudentIds, NEW e \in Emails, NEW c \in CohortIds,
             CreateStudent(s, e, c)
      PROVE  EnrollmentTypeOK'
  BY <1>4 DEF CreateStudent, EnrollmentTypeOK
<1>5. ASSUME NEW s \in StudentIds, NEW e \in Emails, NEW c \in CohortIds,
             UpdateStudent(s, e, c)
      PROVE  EnrollmentTypeOK'
  BY <1>5 DEF UpdateStudent, Moved, EnrollmentTypeOK
<1>6. ASSUME NEW s \in StudentIds, DeleteStudent(s)
      PROVE  EnrollmentTypeOK'
  <2>1. SessionsTyped'
    BY <1>6, DropTyped DEF DeleteStudent
  <2>. QED
    BY <1>6, <2>1 DEF DeleteStudent, EnrollmentTypeOK, SessionsTyped
<1>7. ASSUME NEW t \in Tokens, Logout(t)
      PROVE  EnrollmentTypeOK'
  <2>1. SessionsTyped'
    <3>1. CASE sessions' = Without({t})
      BY <3>1, DropTyped
    <3>2. CASE UNCHANGED sessions
      BY <3>2 DEF SessionsTyped, EnrollmentTypeOK
    <3>. QED
      BY <1>7, <3>1, <3>2 DEF Logout
  <2>. QED
    BY <1>7, <2>1 DEF Logout, EnrollmentTypeOK, SessionsTyped
<1>8. ASSUME NEW t \in Tokens, Expire(t)
      PROVE  EnrollmentTypeOK'
  <2>1. SessionsTyped'
    BY <1>8 DEF Expire, EnrollmentTypeOK, SessionsTyped, Sessions
  <2>. QED
    BY <1>8, <2>1 DEF Expire, EnrollmentTypeOK, SessionsTyped
<1>9. CASE Cleanup
  <2>1. SessionsTyped'
    BY <1>9, DropTyped DEF Cleanup, DropExpired
  <2>. QED
    BY <1>9, <2>1 DEF Cleanup, EnrollmentTypeOK, SessionsTyped
<1>. QED
  BY <1>1, <1>2, <1>3, <1>4, <1>5, <1>6, <1>7, <1>8, <1>9 DEF Register, Instructor, Time

LEMMA WorkTyped ==
  ASSUME EnrollmentTypeOK, NEW w \in Workers, Work(w)
  PROVE  EnrollmentTypeOK'
<1>. USE DEF tables, history
<1>0. /\ req[w] \in Requests /\ Carries(pc[w], req[w])
      /\ pc[w] # "idle" => req[w] # NoRequest
  BY DEF EnrollmentTypeOK, Carries
<1>1. ASSUME NEW u \in Usernames, CountAdmins(w, u)
      PROVE  EnrollmentTypeOK'
  <2>. DEFINE r == [NoRequest EXCEPT !.admin = u]
  <2>1. r \in Requests /\ Carries("bootstrap", r)
    BY EnrollmentAssumption DEF NoRequest, Requests, Carries
  <2>2. WorkersTyped'
    BY <1>1, <2>1, GoTyped DEF CountAdmins, Labels
  <2>. QED
    BY <1>1, <2>2 DEF CountAdmins, EnrollmentTypeOK, WorkersTyped
<1>2. CASE InsertAdmin(w)
  BY <1>0, <1>2, AnswerTyped
     DEF InsertAdmin, EnrollmentTypeOK, WorkersTyped, Carries
<1>3. ASSUME NEW x \in Codes, CountStudents(w, x)
      PROVE  EnrollmentTypeOK'
  <2>. DEFINE r == [NoRequest EXCEPT !.code = x, !.seen = EnrolledIn(x)]
  <2>1. r \in Requests /\ Carries("delete", r)
    BY EnrollmentAssumption DEF NoRequest, Requests, Carries, EnrolledIn
  <2>2. WorkersTyped'
    BY <1>3, <2>1, GoTyped DEF CountStudents, Labels
  <2>. QED
    BY <1>3, <2>2 DEF CountStudents, EnrollmentTypeOK, WorkersTyped
<1>4. CASE DeleteCohort(w)
  <2>1. SessionsTyped'
    BY <1>4, DropTyped DEF DeleteCohort
  <2>2. WorkersTyped'
    BY <1>4, AnswerTyped DEF DeleteCohort
  <2>. QED
    BY <1>4, <2>1, <2>2
       DEF DeleteCohort, EnrollmentTypeOK, SessionsTyped, WorkersTyped, Cohorts, EnrolledIn
<1>5. ASSUME NEW s \in StudentIds, NEW c \in CohortIds, FindEnrolled(w, s, c)
      PROVE  EnrollmentTypeOK'
  <2>. DEFINE r == [NoRequest EXCEPT !.student = s, !.cohort = c]
  <2>1. r \in Requests /\ Carries("dashboard", r)
    BY EnrollmentAssumption DEF NoRequest, Requests, Carries
  <2>2. WorkersTyped'
    BY <1>5, <2>1, GoTyped DEF FindEnrolled, Labels
  <2>. QED
    BY <1>5, <2>2 DEF FindEnrolled, EnrollmentTypeOK, WorkersTyped
<1>6. CASE LoadDashboard(w) \/ ReadStudent(w)
  <2>1. /\ pc[w] = "dashboard" => Carries("open", req[w])
        /\ pc[w] = "student" => Carries("cohort", req[w])
    BY <1>0, EnrollmentAssumption DEF Carries, NoRequest
  <2>2. WorkersTyped'
    BY <1>0, <1>6, <2>1, GoTyped, AnswerTyped DEF LoadDashboard, ReadStudent, Labels
  <2>. QED
    BY <1>6, <2>2 DEF LoadDashboard, ReadStudent, EnrollmentTypeOK, WorkersTyped
<1>7. CASE CreateSession(w)
  <2>1. req[w].student \in StudentIds /\ req[w].cohort \in CohortIds
    BY <1>0, <1>7 DEF CreateSession, Carries
  <2>3. ASSUME NEW t \in Tokens, sessions' = [sessions EXCEPT ![t] =
                 [student |-> req[w].student, cohort |-> req[w].cohort, expired |-> FALSE]]
        PROVE  SessionsTyped'
    BY <2>1, <2>3 DEF SessionsTyped, EnrollmentTypeOK, Sessions
  <2>4. SessionsTyped'
    BY <1>7, <2>3 DEF CreateSession, SessionsTyped, EnrollmentTypeOK
  <2>2. WorkersTyped'
    BY <1>7, AnswerTyped DEF CreateSession
  <2>. QED
    BY <1>7, <2>4, <2>2 DEF CreateSession, EnrollmentTypeOK, SessionsTyped, WorkersTyped
<1>8. ASSUME NEW t \in Tokens, StartRequest(w, t)
      PROVE  EnrollmentTypeOK'
  <2>. DEFINE late == t \in left \cup Expired
              r == [NoRequest EXCEPT !.token = t, !.late = late]
  <2>0. late \in BOOLEAN
    BY MembershipIsBoolean
  <2>1. r \in Requests /\ Carries("session", r)
    <3>. HIDE DEF late
    <3>. QED
      BY <2>0, EnrollmentAssumption DEF NoRequest, Requests, Carries
  <2>2. WorkersTyped'
    BY <1>8, <2>1, GoTyped DEF StartRequest, Labels
  <2>3. SessionsTyped'
    BY <1>8, DropTyped DEF StartRequest, DropExpired
  <2>. QED
    BY <1>8, <2>2, <2>3 DEF StartRequest, EnrollmentTypeOK, WorkersTyped, SessionsTyped
<1>9. CASE ReadSession(w)
  <2>. DEFINE t == req[w].token
              r == [req[w] EXCEPT !.student = sessions[t].student,
                                  !.cohort = sessions[t].cohort]
  <2>1. t \in Tokens
    BY <1>0, <1>9 DEF ReadSession, Carries
  <2>2. Session(t) => r \in Requests /\ r.student \in StudentIds /\ r.cohort \in CohortIds
    BY <1>0, <2>1 DEF Session, EnrollmentTypeOK, Sessions, Requests
  <2>3. Session(t) => Carries("student", r)
    BY <2>2, EnrollmentAssumption DEF Carries, NoRequest
  <2>4. WorkersTyped'
    BY <1>9, <2>2, <2>3, GoTyped, AnswerTyped DEF ReadSession, Labels
  <2>. QED
    BY <1>9, <2>4 DEF ReadSession, EnrollmentTypeOK, WorkersTyped
<1>10. CASE ReadCohort(w)
  <2>1. req[w] \in Requests /\ Carries("served", req[w])
    BY <1>0, <1>10 DEF ReadCohort, Carries, EnrollmentTypeOK
  <2>2. WorkersTyped'
    BY <1>10, <2>1, GoTyped, AnswerTyped DEF ReadCohort, Labels
  <2>. QED
    BY <1>10, <2>2 DEF ReadCohort, EnrollmentTypeOK, WorkersTyped
<1>11. CASE Serve(w) \/ Abandon(w)
  BY <1>11, AnswerTyped DEF Serve, Abandon, EnrollmentTypeOK, WorkersTyped
<1>. QED
  BY <1>1, <1>2, <1>3, <1>4, <1>5, <1>6, <1>7, <1>8, <1>9, <1>10, <1>11 DEF Work

(* Every reachable state is well typed, and a request has read what its    *)
(* next statement needs.                                                   *)
THEOREM EnrollmentTypeCorrect == Spec => []EnrollmentTypeOK
<1>1. EnrollmentTypeOK /\ [Next]_vars => EnrollmentTypeOK'
  <2>1. ASSUME EnrollmentTypeOK, UNCHANGED vars
        PROVE  EnrollmentTypeOK'
    BY <2>1 DEF vars, EnrollmentTypeOK
  <2>. QED
    BY <2>1, OthersTyped, WorkTyped DEF Next
<1>. QED
  BY InitTyped, <1>1, PTL DEF Spec

-----------------------------------------------------------------------------
(***************************************************************************)
(* Enrolments and sessions                                                 *)
(***************************************************************************)

(* Only rows that exist are enrolled (the foreign keys of enrollments). *)
RowsExist ==
  \A s \in StudentIds, c \in CohortIds :
    <<s, c>> \in enrolled => Student(s) /\ Cohort(c)

(* What a login has found was enrolled, and still is unless one of the two *)
(* is gone or the student has moved.                                       *)
LoginsFounded ==
  \A w \in Workers : pc[w] \in {"dashboard", "open"} =>
    LET s == req[w].student
        c == req[w].cohort
    IN /\ students[s] # None /\ cohorts[c].code # None
       /\ Student(s) /\ Cohort(c) => <<s, c>> \in enrolled \/ s \in moved

(* A deletion that goes on has counted nobody. *)
NoneCounted ==
  \A w \in Workers : pc[w] = "delete" => req[w].seen = {}

EnrollmentInv ==
  /\ EnrollmentTypeOK
  /\ RowsExist /\ EnrolledOnce
  /\ SessionsFounded /\ LoginsFounded /\ NoneCounted

LEMMA InitFounded == Init => EnrollmentInv
  BY InitTyped, EnrollmentAssumption
     DEF Init, EnrollmentInv, RowsExist, EnrolledOnce, SessionsFounded,
         LoginsFounded, NoneCounted, Session, NoSession, Student

LEMMA OthersFounded ==
  ASSUME EnrollmentInv, Register \/ Instructor \/ Time
  PROVE  EnrollmentInv'
<1>. USE EnrollmentAssumption DEF history
<1>0. EnrollmentTypeOK /\ EnrollmentTypeOK'
  BY OthersTyped DEF EnrollmentInv
<1>. USE DEF RowsExist, EnrolledOnce, SessionsFounded, LoginsFounded, NoneCounted
<1>1. ASSUME NEW x \in Codes, NEW open \in BOOLEAN,
             \/ CreateCohort(x, open)
             \/ \E c \in CohortIds : UpdateCohort(c, x, open) \/ NewDay(c)
      PROVE  EnrollmentInv'
  <2>1. /\ \A c \in CohortIds : Cohort(c) => Cohort(c)'
        /\ \A c \in CohortIds : cohorts[c].code # None /\ Cohort(c)' => Cohort(c)
        /\ \A c \in CohortIds : cohorts[c].code # None => cohorts'[c].code # None
    BY <1>0, <1>1
       DEF CreateCohort, UpdateCohort, NewDay, Cohort, EnrollmentTypeOK, Cohorts
  <2>2. UNCHANGED <<students, enrolled, sessions, pc, req, history>>
    BY <1>1 DEF CreateCohort, UpdateCohort, NewDay
  <2>. QED
    BY <1>0, <2>1, <2>2 DEF EnrollmentInv, Student, Session, Carries, EnrollmentTypeOK
<1>2. ASSUME NEW s \in StudentIds, NEW e \in Emails, NEW c \in CohortIds,
             CreateStudent(s, e, c)
      PROVE  EnrollmentInv'
  <2>1. /\ \A r \in StudentIds \ {s} : students'[r] = students[r]
        /\ students[s] = None /\ students'[s] = e /\ Cohort(c)
    BY <1>0, <1>2 DEF CreateStudent, EnrollmentTypeOK
  <2>2. enrolled' = enrolled \cup {<<s, c>>}
    BY <1>2 DEF CreateStudent
  <2>3. UNCHANGED <<cohorts, sessions, pc, req, history>>
    BY <1>2 DEF CreateStudent
  <2>4. (RowsExist /\ EnrolledOnce)'
    BY <1>0, <2>1, <2>2, <2>3 DEF EnrollmentInv, Student, Cohort
  <2>5. SessionsFounded'
    BY <1>0, <2>1, <2>2, <2>3
       DEF EnrollmentInv, Student, Cohort, Session, EnrollmentTypeOK
  <2>6. LoginsFounded'
    BY <1>0, <2>1, <2>2, <2>3
       DEF EnrollmentInv, Student, Cohort, EnrollmentTypeOK, Carries
  <2>. QED
    BY <1>0, <2>3, <2>4, <2>5, <2>6 DEF EnrollmentInv
<1>3. ASSUME NEW s \in StudentIds, NEW e \in Emails, NEW c \in CohortIds,
             UpdateStudent(s, e, c)
      PROVE  EnrollmentInv'
  <2>1. /\ \A r \in StudentIds \ {s} : students'[r] = students[r]
        /\ Student(s) /\ students'[s] = e /\ Cohort(c)
    BY <1>0, <1>3 DEF UpdateStudent, EnrollmentTypeOK
  <2>2. /\ \A r \in StudentIds, d \in CohortIds :
             <<r, d>> \in enrolled' <=> IF r = s THEN d = c ELSE <<r, d>> \in enrolled
    BY <1>3 DEF UpdateStudent, Moved
  <2>3. UNCHANGED <<cohorts, sessions, pc, req>>
    BY <1>3 DEF UpdateStudent
  <2>4. taken' = taken \ {s} /\ moved \subseteq moved'
        /\ (s \in moved' \/ <<s, c>> \in enrolled)
    BY <1>3 DEF UpdateStudent
  <2>5. (RowsExist /\ EnrolledOnce)'
    BY <1>0, <2>1, <2>2, <2>3, <2>4 DEF EnrollmentInv, Student, Cohort
  <2>6. \A r \in StudentIds, d \in CohortIds :
          <<r, d>> \in enrolled \/ r \in moved => <<r, d>> \in enrolled' \/ r \in moved'
    BY <2>2, <2>4 DEF EnrollmentInv
  <2>7. SessionsFounded'
    BY <1>0, <2>1, <2>3, <2>6
       DEF EnrollmentInv, Student, Cohort, Session, EnrollmentTypeOK
  <2>8. LoginsFounded'
    BY <1>0, <2>1, <2>3, <2>6
       DEF EnrollmentInv, Student, Cohort, EnrollmentTypeOK, Carries
  <2>. QED
    BY <1>0, <2>3, <2>5, <2>7, <2>8 DEF EnrollmentInv
<1>4. ASSUME NEW s \in StudentIds, DeleteStudent(s)
      PROVE  EnrollmentInv'
  <2>1. /\ \A r \in StudentIds \ {s} : students'[r] = students[r]
        /\ students'[s] = Gone
    BY <1>0, <1>4 DEF DeleteStudent, EnrollmentTypeOK
  <2>2. \A r \in StudentIds, d \in CohortIds :
          <<r, d>> \in enrolled' <=> r # s /\ <<r, d>> \in enrolled
    BY <1>4 DEF DeleteStudent
  <2>3. \A t \in Tokens : Session(t)' =>
          Session(t) /\ sessions'[t] = sessions[t] /\ sessions[t].student # s
    BY <1>0, <1>4 DEF DeleteStudent, Without, Session, EnrollmentTypeOK, Sessions, NoSession
  <2>4. UNCHANGED <<cohorts, pc, req, history>>
    BY <1>4 DEF DeleteStudent
  <2>5. (RowsExist /\ EnrolledOnce)'
    BY <2>1, <2>2, <2>4 DEF EnrollmentInv, Student, Cohort
  <2>6. SessionsFounded'
    BY <1>0, <2>1, <2>2, <2>3, <2>4
       DEF EnrollmentInv, Student, Cohort, Session, EnrollmentTypeOK
  <2>7. LoginsFounded'
    BY <1>0, <2>1, <2>2, <2>4
       DEF EnrollmentInv, Student, Cohort, EnrollmentTypeOK, Carries
  <2>. QED
    BY <1>0, <2>4, <2>5, <2>6, <2>7 DEF EnrollmentInv
<1>5. ASSUME NEW t \in Tokens, Logout(t) \/ Expire(t)
      PROVE  EnrollmentInv'
  <2>1. \A u \in Tokens : Session(u)' =>
          /\ Session(u) /\ sessions'[u].student = sessions[u].student
          /\ sessions'[u].cohort = sessions[u].cohort
    BY <1>0, <1>5
       DEF Logout, Expire, Without, Session,
           EnrollmentTypeOK, Sessions, NoSession
  <2>2. UNCHANGED <<students, cohorts, enrolled, pc, req, taken, moved>>
    BY <1>5 DEF Logout, Expire
  <2>. QED
    BY <1>0, <2>1, <2>2 DEF EnrollmentInv, Student, Cohort
<1>6. CASE Cleanup
  <2>1. \A u \in Tokens : Session(u)' => Session(u) /\ sessions'[u] = sessions[u]
    BY <1>0, <1>6
       DEF Cleanup, DropExpired, Without, Session, EnrollmentTypeOK, Sessions, NoSession
  <2>2. UNCHANGED <<students, cohorts, enrolled, pc, req, taken, moved>>
    BY <1>6 DEF Cleanup
  <2>. QED
    BY <1>0, <2>1, <2>2 DEF EnrollmentInv, Student, Cohort
<1>7. ASSUME NEW c \in CohortIds, NewDay(c)
      PROVE  \E x \in Codes : x = cohorts[c].code
  BY <1>7 DEF NewDay, Cohort
<1>. QED
  BY <1>1, <1>2, <1>3, <1>4, <1>5, <1>6, <1>7 DEF Register, Instructor, Time

(* A step that leaves students, cohorts and enrolments alone and opens no  *)
(* session keeps what is founded.                                          *)
LEMMA TablesKept ==
  ASSUME EnrollmentInv, EnrollmentTypeOK',
         UNCHANGED <<students, cohorts, enrolled, taken, moved>>,
         \A t \in Tokens : Session(t)' => Session(t) /\ sessions'[t] = sessions[t]
  PROVE  (RowsExist /\ EnrolledOnce /\ SessionsFounded)'
  BY DEF EnrollmentInv, RowsExist, EnrolledOnce, SessionsFounded, Student, Cohort

(* Another label than these needs nothing founded. *)
LEMMA WorkerKept ==
  ASSUME EnrollmentInv, EnrollmentTypeOK', NEW w \in Workers,
         UNCHANGED <<students, cohorts, enrolled, moved>>,
         NEW label \in Labels, NEW r, Go(w, label, r),
         label \notin {"delete", "dashboard", "open"}
  PROVE  (LoginsFounded /\ NoneCounted)'
  BY DEF EnrollmentInv, EnrollmentTypeOK, LoginsFounded, NoneCounted, Go,
         Student, Cohort

LEMMA WorkFounded ==
  ASSUME EnrollmentInv, NEW w \in Workers, Work(w)
  PROVE  EnrollmentInv'
<1>. USE DEF tables, history
<1>0. EnrollmentTypeOK /\ EnrollmentTypeOK'
  BY WorkTyped DEF EnrollmentInv
<1>1. CASE \/ \E u \in Usernames : CountAdmins(w, u)
           \/ InsertAdmin(w)
           \/ ReadSession(w) \/ ReadStudent(w) \/ ReadCohort(w)
           \/ Serve(w) \/ Abandon(w)
  <2>1. UNCHANGED <<students, cohorts, enrolled, sessions, taken, moved>>
    BY <1>1 DEF CountAdmins, InsertAdmin, ReadSession, ReadStudent, ReadCohort,
         Serve, Abandon
  <2>2. \E label \in Labels \ {"delete", "dashboard", "open"} : \E r : Go(w, label, r)
    BY <1>1 DEF CountAdmins, InsertAdmin, ReadSession, ReadStudent, ReadCohort,
         Serve, Abandon, Answer, Labels
  <2>3. (RowsExist /\ EnrolledOnce /\ SessionsFounded)'
    BY <1>0, <2>1, TablesKept DEF Session
  <2>4. (LoginsFounded /\ NoneCounted)'
    BY <1>0, <2>1, <2>2, WorkerKept
  <2>. QED
    BY <1>0, <2>3, <2>4 DEF EnrollmentInv
<1>2. ASSUME NEW t \in Tokens, StartRequest(w, t)
      PROVE  EnrollmentInv'
  <2>1. UNCHANGED <<students, cohorts, enrolled, taken, moved>>
    BY <1>2 DEF StartRequest
  <2>2. \E r : Go(w, "session", r)
    BY <1>2 DEF StartRequest
  <2>3. \A u \in Tokens : Session(u)' => Session(u) /\ sessions'[u] = sessions[u]
    BY <1>2, EnrollmentAssumption DEF StartRequest, DropExpired, Without, Session
  <2>4. (RowsExist /\ EnrolledOnce /\ SessionsFounded)'
    BY <1>0, <2>1, <2>3, TablesKept
  <2>5. (LoginsFounded /\ NoneCounted)'
    BY <1>0, <2>1, <2>2, WorkerKept DEF Labels
  <2>. QED
    BY <1>0, <2>4, <2>5 DEF EnrollmentInv
<1>3. ASSUME NEW x \in Codes, CountStudents(w, x)
      PROVE  EnrollmentInv'
  <2>1. UNCHANGED <<students, cohorts, enrolled, sessions, taken, moved>>
    BY <1>3 DEF CountStudents
  <2>2. (RowsExist /\ EnrolledOnce /\ SessionsFounded)'
    BY <1>0, <2>1, TablesKept DEF Session
  <2>3. /\ \A v \in Workers \ {w} : pc'[v] = pc[v] /\ req'[v] = req[v]
        /\ pc'[w] = "delete" /\ req'[w].seen = {}
    BY <1>0, <1>3 DEF CountStudents, Go, EnrollmentTypeOK, NoRequest
  <2>4. (LoginsFounded /\ NoneCounted)'
    BY <2>1, <2>3
       DEF EnrollmentInv, LoginsFounded, NoneCounted, Student, Cohort
  <2>. QED
    BY <1>0, <2>2, <2>4 DEF EnrollmentInv
<1>4. CASE DeleteCohort(w)
  <2>. DEFINE row == {c \in CohortIds : cohorts[c].code = req[w].code}
  <2>1. /\ \A c \in CohortIds : IF c \in row THEN cohorts'[c].code = Gone
                                             ELSE cohorts'[c] = cohorts[c]
        /\ UNCHANGED <<students, moved>>
    BY <1>0, <1>4 DEF DeleteCohort, EnrollmentTypeOK
  <2>2. \A s \in StudentIds, c \in CohortIds :
          <<s, c>> \in enrolled' <=> c \notin row /\ <<s, c>> \in enrolled
    BY <1>4 DEF DeleteCohort
  <2>3. \A t \in Tokens : Session(t)' =>
          Session(t) /\ sessions'[t] = sessions[t] /\ sessions[t].cohort \notin row
    BY <1>0, <1>4, EnrollmentAssumption DEF DeleteCohort, Without, Session, NoSession
  <2>4. req[w].seen = {}
    BY <1>4 DEF DeleteCohort, EnrollmentInv, NoneCounted
  <2>5. \A s \in StudentIds, c \in row : <<s, c>> \in enrolled => s \in taken'
    BY <1>4, <2>4 DEF DeleteCohort, EnrolledIn
  <2>6. taken \subseteq taken'
    BY <1>4 DEF DeleteCohort
  <2>7. (RowsExist /\ EnrolledOnce)'
    BY <2>1, <2>2, <2>5, <2>6, EnrollmentAssumption
       DEF EnrollmentInv, RowsExist, EnrolledOnce, Student, Cohort
  <2>8. SessionsFounded'
    BY <1>0, <2>1, <2>2, <2>3
       DEF EnrollmentInv, SessionsFounded, EnrollmentTypeOK, Session, Student, Cohort
  <2>9. /\ \A v \in Workers \ {w} : pc'[v] = pc[v] /\ req'[v] = req[v]
        /\ pc'[w] = "idle"
    BY <1>0, <1>4 DEF DeleteCohort, Answer, Go, EnrollmentTypeOK
  <2>10. LoginsFounded' /\ NoneCounted'
    BY <1>0, <2>1, <2>2, <2>9, EnrollmentAssumption
       DEF EnrollmentInv, LoginsFounded, NoneCounted, EnrollmentTypeOK, Carries,
           Student, Cohort
  <2>. QED
    BY <1>0, <2>7, <2>8, <2>10 DEF EnrollmentInv
<1>5. ASSUME NEW s \in StudentIds, NEW c \in CohortIds, FindEnrolled(w, s, c)
      PROVE  EnrollmentInv'
  <2>1. UNCHANGED <<students, cohorts, enrolled, sessions, taken, moved>>
    BY <1>5 DEF FindEnrolled
  <2>2. (RowsExist /\ EnrolledOnce /\ SessionsFounded)'
    BY <1>0, <2>1, TablesKept DEF Session
  <2>3. /\ \A v \in Workers \ {w} : pc'[v] = pc[v] /\ req'[v] = req[v]
        /\ pc'[w] = "dashboard" /\ req'[w].student = s /\ req'[w].cohort = c
    BY <1>0, <1>5 DEF FindEnrolled, Go, EnrollmentTypeOK, NoRequest
  <2>4. students[s] # None /\ cohorts[c].code # None /\ <<s, c>> \in enrolled
    BY <1>5, EnrollmentAssumption DEF FindEnrolled, Student, Cohort
  <2>5. (LoginsFounded /\ NoneCounted)'
    BY <2>1, <2>3, <2>4
       DEF EnrollmentInv, LoginsFounded, NoneCounted, Student, Cohort
  <2>. QED
    BY <1>0, <2>2, <2>5 DEF EnrollmentInv
<1>6. CASE LoadDashboard(w)
  <2>1. UNCHANGED <<students, cohorts, enrolled, sessions, taken, moved>>
    BY <1>6 DEF LoadDashboard
  <2>2. (RowsExist /\ EnrolledOnce /\ SessionsFounded)'
    BY <1>0, <2>1, TablesKept DEF Session
  <2>3. pc[w] = "dashboard" /\ (Answer(w) \/ Go(w, "open", req[w]))
    BY <1>6 DEF LoadDashboard
  <2>5. /\ \A v \in Workers \ {w} : pc'[v] = pc[v] /\ req'[v] = req[v]
        /\ pc'[w] = "idle" \/ (pc'[w] = "open" /\ req'[w] = req[w])
    BY <1>0, <2>3 DEF Answer, Go, EnrollmentTypeOK
  <2>4. (LoginsFounded /\ NoneCounted)'
    BY <2>1, <2>3, <2>5 DEF EnrollmentInv, LoginsFounded, NoneCounted, Student, Cohort
  <2>. QED
    BY <1>0, <2>2, <2>4 DEF EnrollmentInv
<1>7. CASE CreateSession(w)
  <2>1. UNCHANGED <<students, cohorts, enrolled, taken, moved>>
    BY <1>7 DEF CreateSession
  <2>0. "idle" \in Labels /\ Go(w, "idle", NoRequest)
    BY <1>7 DEF CreateSession, Answer, Labels
  <2>2. (LoginsFounded /\ NoneCounted)'
    BY <1>0, <2>0, <2>1, WorkerKept
  <2>3. CASE UNCHANGED sessions
    BY <1>0, <2>1, <2>2, <2>3, TablesKept DEF EnrollmentInv, Session
  <2>4. CASE ~UNCHANGED sessions
    <3>. DEFINE s == req[w].student
                c == req[w].cohort
    <3>1. PICK t \in Tokens : sessions' = [sessions EXCEPT ![t] =
                 [student |-> s, cohort |-> c, expired |-> FALSE]]
      BY <1>7, <2>4 DEF CreateSession
    <3>2. Student(s) /\ Cohort(c)
      BY <1>7, <2>4 DEF CreateSession
    <3>3. <<s, c>> \in enrolled \/ s \in moved
      BY <1>7, <3>2 DEF CreateSession, EnrollmentInv, LoginsFounded
    <3>4. SessionsFounded'
      BY <1>0, <2>1, <3>1, <3>2, <3>3
         DEF EnrollmentInv, SessionsFounded, EnrollmentTypeOK, Session, Student, Cohort
    <3>5. (RowsExist /\ EnrolledOnce)'
      BY <2>1 DEF EnrollmentInv, RowsExist, EnrolledOnce, Student, Cohort
    <3>. QED
      BY <1>0, <2>2, <3>4, <3>5 DEF EnrollmentInv
  <2>. QED
    BY <2>3, <2>4
<1>. QED
  BY <1>1, <1>2, <1>3, <1>4, <1>5, <1>6, <1>7 DEF Work

LEMMA EnrollmentInvariant == Spec => []EnrollmentInv
<1>1. EnrollmentInv /\ [Next]_vars => EnrollmentInv'
  <2>1. ASSUME EnrollmentInv, UNCHANGED vars
        PROVE  EnrollmentInv'
    <3>1. EnrollmentTypeOK'
      BY <2>1 DEF vars, EnrollmentInv, EnrollmentTypeOK
    <3>. QED
      BY <2>1, <3>1
         DEF vars, EnrollmentInv, RowsExist, EnrolledOnce, SessionsFounded,
             LoginsFounded, NoneCounted, Session, Student, Cohort
  <2>. QED
    BY <2>1, OthersFounded, WorkFounded DEF Next
<1>. QED
  BY InitFounded, <1>1, PTL DEF Spec

(* A student is enrolled in one cohort, and loses it only to a deletion    *)
(* whose count they were not part of (DeleteCohort, UpdateStudent).        *)
THEOREM StudentsEnrolledOnce == Spec => []EnrolledOnce
<1>1. EnrollmentInv => EnrolledOnce
  BY DEF EnrollmentInv
<1>. QED
  BY EnrollmentInvariant, <1>1, PTL

(* However a login overlaps with moves and deletions, the session it opens *)
(* is of a student and a cohort that exist and belong together, or did     *)
(* before a move (AuthenticateStudent, createSession).                     *)
THEOREM AllSessionsFounded == Spec => []SessionsFounded
<1>1. EnrollmentInv => SessionsFounded
  BY DEF EnrollmentInv
<1>. QED
  BY EnrollmentInvariant, <1>1, PTL

-----------------------------------------------------------------------------
(***************************************************************************)
(* Sessions that have ended                                                *)
(***************************************************************************)

Ended(t) == sessions[t].student = Gone

(* The token of a request that began too late has no row, and the request  *)
(* gets no further than its SELECT.                                        *)
Stopped(w) ==
  req[w].late =>
    /\ pc[w] = "session" => sessions[req[w].token].student = Gone
    /\ pc[w] \notin {"student", "cohort", "served"}

EndedInv ==
  /\ EnrollmentTypeOK
  /\ \A t \in left : Ended(t)
  /\ \A w \in Workers : Stopped(w)

(* A deleted row does not come back: tokens are never given twice.         *)
LEMMA EndedForGood ==
  ASSUME EnrollmentTypeOK, [Next]_vars, NEW t \in Tokens, Ended(t)
  PROVE  Ended(t)'
<1>. USE EnrollmentAssumption
<1>1. \A gone : Without(gone)[t].student = Gone
  BY DEF Without, Ended, NoSession
<1>2. CASE Register \/ Instructor \/ Time
  BY <1>1, <1>2
     DEF Register, Instructor, Time, CreateCohort, UpdateCohort, NewDay,
         CreateStudent, UpdateStudent, DeleteStudent, Logout, Expire, Cleanup,
         DropExpired, Session, Ended, EnrollmentTypeOK
<1>3. ASSUME NEW w \in Workers, Work(w)
      PROVE  Ended(t)'
  BY <1>1, <1>3
     DEF Work, CountAdmins, InsertAdmin, CountStudents, DeleteCohort,
         FindEnrolled, LoadDashboard, CreateSession, StartRequest, ReadSession,
         ReadStudent, ReadCohort, Serve, Abandon, DropExpired, tables, Ended,
         EnrollmentTypeOK
<1>. QED
  BY <1>2, <1>3 DEF Next, vars, Ended

LEMMA OthersEnded ==
  ASSUME EndedInv, Register \/ Instructor \/ Time
  PROVE  EndedInv'
<1>1. EnrollmentTypeOK /\ EnrollmentTypeOK'
  BY OthersTyped DEF EndedInv
<1>2. \A t \in Tokens : Ended(t) => Ended(t)'
  BY <1>1, EndedForGood DEF Next
<1>3. UNCHANGED <<pc, req>>
  BY DEF Register, Instructor, Time, CreateCohort, UpdateCohort, NewDay,
         CreateStudent, UpdateStudent, DeleteStudent, Logout, Expire, Cleanup
<1>4. \A t \in left' : t \in left \/ Ended(t)'
  BY <1>1 DEF Register, Instructor, Time, CreateCohort, UpdateCohort, NewDay,
         CreateStudent, UpdateStudent, DeleteStudent, Logout, Expire, Cleanup,
         Without, NoSession, Ended, history, EnrollmentTypeOK
<1>. QED
  BY <1>1, <1>2, <1>3, <1>4 DEF EndedInv, Stopped, Ended, EnrollmentTypeOK, Carries

LEMMA WorkEnded ==
  ASSUME EndedInv, NEW w \in Workers, Work(w)
  PROVE  EndedInv'
<1>1. EnrollmentTypeOK /\ EnrollmentTypeOK'
  BY WorkTyped DEF EndedInv
<1>2. \A t \in Tokens : Ended(t) => Ended(t)'
  BY <1>1, EndedForGood DEF Next
<1>3. left' = left
  BY DEF Work, CountAdmins, InsertAdmin, CountStudents, DeleteCohort,
         FindEnrolled, LoadDashboard, CreateSession, StartRequest, ReadSession,
         ReadStudent, ReadCohort, Serve, Abandon, history
<1>4. \A v \in Workers \ {w} : pc'[v] = pc[v] /\ req'[v] = req[v]
  BY <1>1 DEF Work, CountAdmins, InsertAdmin, CountStudents, DeleteCohort,
         FindEnrolled, LoadDashboard, CreateSession, StartRequest, ReadSession,
         ReadStudent, ReadCohort, Serve, Abandon, Answer, Go, EnrollmentTypeOK
<1>5. ASSUME NEW t \in Tokens, StartRequest(w, t)
      PROVE  Stopped(w)'
  <2>1. pc'[w] = "session" /\ req'[w].token = t
        /\ (req'[w].late <=> t \in left \cup Expired)
    BY <1>1, <1>5 DEF StartRequest, Go, EnrollmentTypeOK, NoRequest
  <2>2. t \in Expired => Ended(t)'
    BY <1>5 DEF StartRequest, DropExpired, Without, Ended, NoSession
  <2>. QED
    BY <1>2, <2>1, <2>2 DEF EndedInv, Stopped, Ended
<1>6. ASSUME ReadSession(w)
      PROVE  Stopped(w)'
  <2>1. pc[w] = "session" /\ (Session(req[w].token) => ~Ended(req[w].token))
    BY <1>6, EnrollmentAssumption DEF ReadSession, Session, Ended
  <2>2. \/ Answer(w)
        \/ /\ Session(req[w].token)
           /\ Go(w, "student", [req[w] EXCEPT !.student = sessions[req[w].token].student,
                                              !.cohort = sessions[req[w].token].cohort])
    BY <1>6 DEF ReadSession
  <2>3. Session(req[w].token) => ~req[w].late
    BY <2>1 DEF EndedInv, Stopped, Ended
  <2>4. CASE Answer(w)
    BY <1>1, <2>4 DEF Stopped, Answer, Go, EnrollmentTypeOK
  <2>5. CASE ~Answer(w)
    <3> DEFINE read == [req[w] EXCEPT !.student = sessions[req[w].token].student,
                                      !.cohort = sessions[req[w].token].cohort]
    <3>1. req[w] \in Requests /\ pc \in [Workers -> Labels] /\ req \in [Workers -> Requests]
      BY <1>1 DEF EnrollmentTypeOK
    <3>2. read.late = req[w].late
      BY <3>1 DEF Requests
    <3>3. Session(req[w].token) /\ Go(w, "student", read)
      BY <2>2, <2>5
    <3> HIDE DEF read
    <3>4. req'[w] = read
      BY <3>1, <3>3 DEF Go
    <3>5. ~req[w].late
      BY <2>3, <3>3
    <3>. QED
      BY <3>2, <3>4, <3>5 DEF Stopped
  <2>. QED
    BY <2>4, <2>5
<1>7. ASSUME ReadStudent(w) \/ ReadCohort(w)
      PROVE  Stopped(w)'
  BY <1>1, <1>7
     DEF ReadStudent, ReadCohort, EndedInv, Stopped, Answer, Go, EnrollmentTypeOK,
         Requests, NoRequest
<1>8. ASSUME \/ \E u \in Usernames : CountAdmins(w, u)
             \/ \E x \in Codes : CountStudents(w, x)
             \/ \E s \in StudentIds, c \in CohortIds : FindEnrolled(w, s, c)
             \/ LoadDashboard(w)
             \/ InsertAdmin(w) \/ DeleteCohort(w) \/ CreateSession(w)
             \/ Serve(w) \/ Abandon(w)
      PROVE  Stopped(w)'
  <2>1. pc'[w] \in {"idle", "bootstrap", "delete", "dashboard", "open"}
    BY <1>1, <1>8 DEF CountAdmins, InsertAdmin, CountStudents, DeleteCohort,
         FindEnrolled, LoadDashboard, CreateSession, Serve, Abandon, Answer, Go,
         EnrollmentTypeOK
  <2>. QED
    BY <2>1 DEF Stopped
<1>9. Stopped(w)'
  BY <1>5, <1>6, <1>7, <1>8 DEF Work
<1>. QED
  BY <1>1, <1>2, <1>3, <1>4, <1>9 DEF EndedInv, Stopped, Ended, EnrollmentTypeOK, Carries

(* No request passes requireStudent with the token of a session that a     *)
(* logout had deleted, or that had expired, when it began.                 *)
THEOREM EndedStayOut == Spec => []EndedStaysOut
<1>1. Init => EndedInv
  BY InitTyped DEF Init, EndedInv, Stopped, NoRequest
<1>2. EndedInv /\ [Next]_vars => EndedInv'
  <2>1. ASSUME EndedInv, UNCHANGED vars
        PROVE  EndedInv'
    BY <2>1 DEF vars, EndedInv, Stopped, EnrollmentTypeOK, Ended
  <2>. QED
    BY <2>1, OthersEnded, WorkEnded DEF Next
<1>3. EndedInv => EndedStaysOut
  BY DEF EndedInv, Stopped, EndedStaysOut
<1>. QED
  BY <1>1, <1>2, <1>3, PTL DEF Spec

-----------------------------------------------------------------------------
(***************************************************************************)
(* The first instructor                                                    *)
(***************************************************************************)

Booting == {w \in Workers : pc[w] = "bootstrap"}

(* The instructors there are, and those there will be. *)
Admitted == admins \cup {req[w].admin : w \in Booting}

AdmittedBounded ==
  /\ IsFiniteSet(Admitted)
  /\ Cardinality(Admitted) <= Cardinality(Workers)

LEMMA AdmittedShrinks ==
  ASSUME AdmittedBounded, Admitted' \subseteq Admitted
  PROVE  AdmittedBounded'
<1>1. /\ IsFiniteSet(Admitted')
      /\ Cardinality(Admitted') <= Cardinality(Admitted)
  BY FS_Subset DEF AdmittedBounded
<1>2. /\ Cardinality(Admitted') \in Nat /\ Cardinality(Admitted) \in Nat
      /\ Cardinality(Workers) \in Nat
  BY <1>1, FS_CardinalityType, EnrollmentAssumption DEF AdmittedBounded
<1>3. Cardinality(Admitted') <= Cardinality(Workers)
  BY <1>1, <1>2 DEF AdmittedBounded
<1>. QED
  BY <1>1, <1>3 DEF AdmittedBounded

(* Without instructors, every one to come has a request of its own. *)
LEMMA AdmittedByRequests ==
  ASSUME admins = {}
  PROVE  AdmittedBounded
<1>. DEFINE name == [w \in Booting |-> req[w].admin]
            names == {req[w].admin : w \in Booting}
<1>1. name \in Surjection(Booting, names)
  BY DEF Surjection
<1>2. IsFiniteSet(Booting) /\ Cardinality(Booting) <= Cardinality(Workers)
  BY FS_Subset, EnrollmentAssumption DEF Booting
<1>. HIDE DEF name
<1>3. IsFiniteSet(names) /\ Cardinality(names) <= Cardinality(Booting)
  BY <1>1, <1>2, FS_Surjection
<1>4. Admitted = names
  BY DEF Admitted
<1>. HIDE DEF names
<1>5. /\ Cardinality(names) \in Nat /\ Cardinality(Booting) \in Nat
      /\ Cardinality(Workers) \in Nat
  BY <1>2, <1>3, FS_CardinalityType, EnrollmentAssumption
<1>6. Cardinality(names) <= Cardinality(Workers)
  BY <1>2, <1>3, <1>5
<1>. QED
  BY <1>3, <1>4, <1>6 DEF AdmittedBounded

(* Requests that overlap may each create a first instructor, but there are *)
(* never more than requests: once there is one, nobody passes the count.   *)
THEOREM InstructorsBounded == Spec => []AdminsBounded
<1>1. Init => AdmittedBounded
  BY AdmittedByRequests DEF Init
<1>2. EnrollmentTypeOK /\ AdmittedBounded /\ [Next]_vars => AdmittedBounded'
  <2>. SUFFICES ASSUME EnrollmentTypeOK, AdmittedBounded, [Next]_vars
                PROVE  AdmittedBounded'
    OBVIOUS
  <2>1. CASE UNCHANGED <<admins, pc, req>>
    BY <2>1, AdmittedShrinks DEF Admitted, Booting
  <2>2. ASSUME NEW w \in Workers, \E u \in Usernames : CountAdmins(w, u)
        PROVE  AdmittedBounded'
    <3>1. admins' = {}
      BY <2>2 DEF CountAdmins, tables
    <3>2. (admins = {} => AdmittedBounded)'
      BY AdmittedByRequests, PTL
    <3>. QED
      BY <3>1, <3>2
  <2>3. ASSUME NEW w \in Workers, InsertAdmin(w)
        PROVE  AdmittedBounded'
    <3>1. Admitted' \subseteq Admitted
      BY <2>3 DEF InsertAdmin, Answer, Go, Admitted, Booting, EnrollmentTypeOK
    <3>. QED
      BY <3>1, AdmittedShrinks
  <2>4. ASSUME NEW w \in Workers, Work(w),
               ~InsertAdmin(w), ~\E u \in Usernames : CountAdmins(w, u)
        PROVE  AdmittedBounded'
    <3>1. /\ admins' = admins
          /\ pc'[w] # "bootstrap"
          /\ \A v \in Workers \ {w} : pc'[v] = pc[v] /\ req'[v] = req[v]
      BY <2>4 DEF Work, CountStudents, DeleteCohort, FindEnrolled, LoadDashboard,
           CreateSession, StartRequest, ReadSession, ReadStudent, ReadCohort,
           Serve, Abandon, Answer, Go, EnrollmentTypeOK, tables
    <3>2. Admitted' \subseteq Admitted
      BY <3>1 DEF Admitted, Booting
    <3>. QED
      BY <3>2, AdmittedShrinks
  <2>5. Register \/ Instructor \/ Time => UNCHANGED <<admins, pc, req>>
    BY DEF Register, Instructor, Time, CreateCohort, UpdateCohort, NewDay,
         CreateStudent, UpdateStudent, DeleteStudent, Logout, Expire, Cleanup, tables
  <2>6. UNCHANGED vars => UNCHANGED <<admins, pc, req>>
    BY DEF vars
  <2>. QED
    BY <2>1, <2>2, <2>3, <2>4, <2>5, <2>6 DEF Next
<1>3. AdmittedBounded => AdminsBounded
  BY DEF AdmittedBounded, AdminsBounded, Admitted, Booting
<1>. QED
  BY <1>1, <1>2, <1>3, EnrollmentTypeCorrect, PTL DEF Spec

=============================================================================
