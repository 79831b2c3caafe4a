-------------------------- MODULE SubmissionsProofs -------------------------
(***************************************************************************)
(* Theorems of Submissions, for every number of students, laboratories and *)
(* requests in flight, every limit and every set of results.               *)
(***************************************************************************)
EXTENDS Submissions, FiniteSetTheorems, TLAPS

(***************************************************************************)
(* Type correctness                                                        *)
(***************************************************************************)

(* TypeOK, as the parts the actions change separately. *)
WorkersTyped ==
  /\ pc \in [Workers -> Labels]
  /\ req \in [Workers -> Requests \cup {NoRequest}]
  /\ \A w \in Workers :
       /\ pc[w] # "idle" => req[w] \in Requests
       /\ pc[w] \notin {"idle", "put"} => req[w].result \in Results
  /\ reply \in [Workers -> Answers]

TablesTyped ==
  /\ students \subseteq Students
  /\ attempts \in [Keys -> Seq(Results)]
  /\ workspace \in [Keys -> Rows \cup {NoRow}]
  /\ progress \in [Keys -> SUBSET Tasks]

(* An answer frees its worker. *)
LEMMA AnswerTyped ==
  ASSUME TypeOK, NEW w \in Workers, NEW a \in Answers, Answer(w, a)
  PROVE  WorkersTyped'
  BY DEF Answer, TypeOK, WorkersTyped, Labels

(* The transaction of SaveWorkspace keeps the tables well typed, whether   *)
(* it commits or fails.                                                    *)
LEMMA SaveTyped ==
  ASSUME TypeOK, NEW w \in Workers, NEW a \in Answers, pc[w] # "idle", Save(w, a)
  PROVE  WorkersTyped' /\ TablesTyped'
<1>. "error" \in Answers /\ req[w] \in Requests
  BY DEF Answers, TypeOK
<1>1. CASE /\ SaveWorkspace(req[w].key, req[w].keep, req[w].tasks)
           /\ Answer(w, a)
           /\ UNCHANGED <<students, attempts>>
  BY <1>1, AnswerTyped DEF TypeOK, TablesTyped, SaveWorkspace, Requests, Rows
<1>2. CASE Answer(w, "error") /\ UNCHANGED tables
  BY <1>2, AnswerTyped DEF TypeOK, TablesTyped, tables
<1>. QED
  BY <1>1, <1>2 DEF Save

(* The accounts stay natural numbers. *)
LEMMA EndTyped ==
  ASSUME TypeOK, NEW w \in Workers, pc[w] # "idle", End(w)
  PROVE  ended' \in [Keys -> Nat]
<1>1. req[w].key \in Keys
  BY DEF TypeOK, Requests
<1>. QED
  BY <1>1 DEF End, TypeOK

(* The best attempt of a log is one of it. *)
LEMMA BestTyped ==
  ASSUME NEW rows \in Seq(Results)
  PROVE  Best(rows) \subseteq Verdicts
  BY DEF Best, Verdicts

LEMMA InitTyped == Init => TypeOK
  BY ConstantsAssumption DEF Init, TypeOK, Labels, Answers, Keys

LEMMA StepTyped ==
  ASSUME TypeOK, NEW w \in Workers, Step(w)
  PROVE  TypeOK'
<1>. USE DEF WorkersTyped, TablesTyped
<1>1. ASSUME NEW k \in Keys, NEW v \in Results, NEW t \in SUBSET Tasks,
             StartValidate(w, k, v, t)
      PROVE  TypeOK'
  BY <1>1 DEF StartValidate, TypeOK, tables, Labels, Answers, Requests, Verdicts
<1>2. ASSUME NEW k \in Keys, NEW v \in ClientVerdicts, NEW t \in SUBSET Tasks,
             StartSave(w, k, v, t)
      PROVE  TypeOK'
  BY <1>2, ConstantsAssumption
     DEF StartSave, TypeOK, tables, Labels, Answers, Requests, Verdicts
<1>3. CASE LoadCount(w)
  <2>1. Len(attempts[req[w].key]) \in Nat
    BY <1>3 DEF LoadCount, TypeOK, Requests
  <2>. QED
    BY <1>3, <2>1 DEF LoadCount, TypeOK, tables, Go, Labels, Requests
<1>4. CASE LoadBest(w)
  <2>1. /\ req[w] \in Requests
        /\ req[w].result \in Results
        /\ attempts[req[w].key] \in Seq(Results)
    BY <1>4 DEF LoadBest, TypeOK, Requests
  <2>2. PICK best \in Best(attempts[req[w].key]) :
          req' = [req EXCEPT ![w].keep = Persist(best, req[w].result)]
    BY <1>4 DEF LoadBest
  <2>3. Persist(best, req[w].result) \in Verdicts
    BY <2>1, <2>2, BestTyped DEF Persist, Verdicts
  <2>. QED
    BY <1>4, <2>1, <2>2, <2>3 DEF LoadBest, TypeOK, tables, Go, Labels, Requests
<1>5. CASE CheckLimit(w)
  <2>1. CASE Answer(w, "limit")
    BY <1>5, <2>1, AnswerTyped DEF CheckLimit, TypeOK, tables, Answers
  <2>2. CASE Go(w, "insert") /\ UNCHANGED req
    BY <1>5, <2>2 DEF CheckLimit, TypeOK, tables, Go, Labels
  <2>. QED
    BY <1>5, <2>1, <2>2 DEF CheckLimit
<1>6. CASE InsertSubmission(w)
  <2>1. CASE Answer(w, "error") /\ UNCHANGED attempts
    BY <1>6, <2>1, AnswerTyped DEF InsertSubmission, TypeOK, Answers
  <2>2. CASE Exists(req[w].key)
    <3>1. /\ req[w].key \in Keys
          /\ req[w].result \in Results
      BY <1>6 DEF InsertSubmission, TypeOK, Requests
    <3>2. Append(attempts[req[w].key], req[w].result) \in Seq(Results)
      BY <3>1 DEF TypeOK
    <3>3. attempts' \in [Keys -> Seq(Results)]
      BY <1>6, <2>2, <3>1, <3>2 DEF InsertSubmission, TypeOK, Go
    <3>. QED
      BY <1>6, <2>2, <3>3 DEF InsertSubmission, TypeOK, Go, Labels
  <2>. QED
    BY <1>6, <2>1, <2>2 DEF InsertSubmission
<1>7. CASE SaveValidated(w)
  <2>1. ended' \in [Keys -> Nat]
    BY <1>7, EndTyped DEF SaveValidated
  <2>2. WorkersTyped' /\ TablesTyped'
    BY <1>7, SaveTyped DEF SaveValidated, Answers
  <2>. QED
    BY <2>1, <2>2 DEF TypeOK
<1>8. CASE SaveRefused(w)
  BY <1>8, SaveTyped DEF SaveRefused, TypeOK, Answers
<1>9. CASE PutWorkspace(w)
  BY <1>9, SaveTyped DEF PutWorkspace, TypeOK, Answers
<1>10. CASE Abandon(w)
  <2>1. ended' \in [Keys -> Nat]
    BY <1>10, EndTyped DEF Abandon, TypeOK
  <2>2. WorkersTyped'
    BY <1>10, AnswerTyped DEF Abandon, Answers
  <2>3. TablesTyped'
    BY <1>10 DEF Abandon, tables, TypeOK
  <2>. QED
    BY <2>1, <2>2, <2>3 DEF TypeOK
<1>. QED
  BY <1>1, <1>2, <1>3, <1>4, <1>5, <1>6, <1>7, <1>8, <1>9, <1>10 DEF Step

LEMMA DeleteTyped ==
  ASSUME TypeOK, NEW s \in Students, DeleteStudent(s)
  PROVE  TypeOK'
<1>1. << >> \in Seq(Results)
  OBVIOUS
<1>2. attempts' \in [Keys -> Seq(Results)]
  BY <1>1 DEF DeleteStudent, TypeOK
<1>3. /\ workspace' \in [Keys -> Rows \cup {NoRow}]
      /\ progress' \in [Keys -> SUBSET Tasks]
      /\ students' \subseteq Students
  BY DEF DeleteStudent, TypeOK
<1>. QED
  BY <1>2, <1>3 DEF DeleteStudent, TypeOK

(* Every variable of Submissions keeps its type: in particular the         *)
(* validation a request persists is a result or none, and only results are *)
(* recorded as attempts.                                                   *)
THEOREM TypeCorrect == Spec => []TypeOK
<1>1. TypeOK /\ UNCHANGED vars => TypeOK'
  BY DEF TypeOK, vars
<1>2. TypeOK /\ [Next]_vars => TypeOK'
  BY <1>1, StepTyped, DeleteTyped DEF Next
<1>. QED
  BY InitTyped, <1>2, PTL DEF Spec

-----------------------------------------------------------------------------
(***************************************************************************)
(* The limit. A request between its check and its insert has reserved a    *)
(* row: AttemptsReserved is inductive, AttemptsBounded alone is not.       *)
(***************************************************************************)

LEMMA AtFinite ==
  ASSUME NEW l, NEW k
  PROVE  /\ IsFiniteSet(At(l, k))
         /\ Cardinality(At(l, k)) \in Nat
         /\ Cardinality(At(l, k)) <= Cardinality(Workers)
  BY ConstantsAssumption, FS_Subset, FS_CardinalityType DEF At

LEMMA AtFinitePrime ==
  ASSUME NEW l, NEW k
  PROVE  /\ Cardinality(At(l, k)') \in Nat
         /\ Cardinality(At(l, k)') <= Cardinality(Workers)
  BY ConstantsAssumption, FS_Subset, FS_CardinalityType DEF At

(* With at least one worker, the excess is a natural number. *)
LEMMA ExcessNat ==
  /\ Cardinality(Workers) \in Nat
  /\ Excess \in Nat
  /\ Excess = Cardinality(Workers) - 1
<1>1. Cardinality(Workers) \in Nat /\ Cardinality(Workers) # 0
  BY ConstantsAssumption, FS_EmptySet, FS_CardinalityType
<1>. QED
  BY <1>1 DEF Excess

(* A step that records no attempt and lets nobody past the check keeps     *)
(* every reservation.                                                      *)
LEMMA ReservedUnchanged ==
  ASSUME AttemptsReserved, TypeOK, TypeOK',
         \A k \in Keys : Len(attempts'[k]) <= Len(attempts[k]),
         \A k \in Keys : At("insert", k)' \subseteq At("insert", k)
  PROVE  AttemptsReserved'
<1> SUFFICES ASSUME NEW k \in Keys
    PROVE  Len(attempts'[k]) + Cardinality(At("insert", k)') <= Limit + Excess
  BY DEF AttemptsReserved, Excess
<1>1. /\ Cardinality(At("insert", k)') \in Nat
      /\ Cardinality(At("insert", k)') <= Cardinality(At("insert", k))
  BY AtFinite, FS_Subset, FS_CardinalityType
<1>2. Len(attempts'[k]) \in Nat /\ Len(attempts[k]) \in Nat
  BY DEF TypeOK
<1>3. Len(attempts[k]) + Cardinality(At("insert", k)) <= Limit + Excess
  BY DEF AttemptsReserved
<1>. QED
  BY <1>1, <1>2, <1>3, AtFinite, ExcessNat, ConstantsAssumption

(* A step of worker w that does not leave it before an insert.             *)
LEMMA NotInserting ==
  ASSUME TypeOK, TypeOK', NEW w \in Workers, pc'[w] # "insert",
         \A u \in Workers \ {w} : pc'[u] = pc[u] /\ req'[u] = req[u]
  PROVE  \A k \in Keys : At("insert", k)' \subseteq At("insert", k)
  BY DEF At

(* A request that leaves the attempts alone. *)
LEMMA QuietReserves ==
  ASSUME AttemptsReserved, TypeOK, TypeOK', UNCHANGED attempts,
         NEW w \in Workers, pc'[w] # "insert",
         \A u \in Workers \ {w} : pc'[u] = pc[u] /\ req'[u] = req[u]
  PROVE  AttemptsReserved'
<1>1. \A k \in Keys : Len(attempts'[k]) <= Len(attempts[k])
  BY DEF TypeOK
<1>2. \A k \in Keys : At("insert", k)' \subseteq At("insert", k)
  BY NotInserting
<1>. QED
  BY <1>1, <1>2, ReservedUnchanged

LEMMA CheckReserves ==
  ASSUME AttemptsReserved, TypeOK, TypeOK', NEW w \in Workers, CheckLimit(w)
  PROVE  AttemptsReserved'
<1>1. CASE Answer(w, "limit")
  <2>1. pc'[w] # "insert" /\ UNCHANGED attempts
    BY <1>1 DEF Answer, TypeOK, CheckLimit, tables
  <2>2. \A u \in Workers \ {w} : pc'[u] = pc[u] /\ req'[u] = req[u]
    BY <1>1 DEF Answer, TypeOK
  <2>. QED
    BY <2>1, <2>2, QuietReserves
<1>2. CASE ~LimitReached(Len(attempts[req[w].key])) /\ Go(w, "insert") /\ UNCHANGED req
  <2>. DEFINE key == req[w].key
  <2>1. key \in Keys /\ UNCHANGED attempts
    BY DEF CheckLimit, TypeOK, Requests, tables
  <2>2. Len(attempts[key]) \in Nat /\ Len(attempts[key]) < Limit
    BY <1>2, <2>1, ConstantsAssumption DEF LimitReached, TypeOK
  <2> SUFFICES ASSUME NEW k \in Keys
      PROVE  Len(attempts[k]) + Cardinality(At("insert", k)') <= Limit + Excess
    BY <2>1 DEF AttemptsReserved, Excess
  <2>3. CASE k = key
    BY <2>2, <2>3, AtFinitePrime, ExcessNat, ConstantsAssumption
  <2>4. CASE k # key
    <3>1. At("insert", k)' = At("insert", k)
      BY <1>2, <2>4 DEF At, Go, TypeOK
    <3>. QED
      BY <3>1 DEF AttemptsReserved
  <2>. QED
    BY <2>3, <2>4
<1>. QED
  BY <1>1, <1>2 DEF CheckLimit

LEMMA InsertReserves ==
  ASSUME AttemptsReserved, TypeOK, TypeOK', NEW w \in Workers, InsertSubmission(w)
  PROVE  AttemptsReserved'
<1>1. CASE Answer(w, "error") /\ UNCHANGED attempts
  <2>1. pc'[w] # "insert"
    BY <1>1 DEF Answer, TypeOK
  <2>2. \A u \in Workers \ {w} : pc'[u] = pc[u] /\ req'[u] = req[u]
    BY <1>1 DEF Answer, TypeOK
  <2>. QED
    BY <1>1, <2>1, <2>2, QuietReserves
<1>2. CASE Exists(req[w].key)
  <2>. DEFINE key == req[w].key
  <2>1. /\ key \in Keys /\ req[w].result \in Results
        /\ attempts[key] \in Seq(Results)
        /\ w \in At("insert", key)
    BY DEF InsertSubmission, TypeOK, Requests, At
  <2> SUFFICES ASSUME NEW k \in Keys
      PROVE  Len(attempts'[k]) + Cardinality(At("insert", k)') <= Limit + Excess
    BY DEF AttemptsReserved, Excess
  <2>2. CASE k = key
    <3>1. Len(attempts'[k]) = Len(attempts[k]) + 1
      BY <1>2, <2>1, <2>2 DEF InsertSubmission, TypeOK
    <3>2. At("insert", k)' = At("insert", k) \ {w}
      BY <1>2, <2>2 DEF InsertSubmission, Go, At, TypeOK
    <3>3. Cardinality(At("insert", k)') = Cardinality(At("insert", k)) - 1
      BY <2>1, <2>2, <3>2, AtFinite, FS_RemoveElement
    <3>4. Len(attempts[k]) \in Nat
      BY <2>1, <2>2
    <3>. QED
      BY <3>1, <3>3, <3>4, AtFinite, ExcessNat, ConstantsAssumption DEF AttemptsReserved
  <2>3. CASE k # key
    <3>1. attempts'[k] = attempts[k]
      BY <1>2, <2>1, <2>3 DEF InsertSubmission, TypeOK
    <3>2. At("insert", k)' = At("insert", k)
      BY <1>2, <2>3 DEF InsertSubmission, Go, At, TypeOK
    <3>. QED
      BY <3>1, <3>2 DEF AttemptsReserved
  <2>. QED
    BY <2>2, <2>3
<1>. QED
  BY <1>1, <1>2 DEF InsertSubmission

(* Every other step of a request leaves the attempts alone and its worker  *)
(* elsewhere than before an insert.                                        *)
LEMMA OthersReserve ==
  ASSUME AttemptsReserved, TypeOK, TypeOK', NEW w \in Workers, Step(w),
         ~CheckLimit(w), ~InsertSubmission(w)
  PROVE  AttemptsReserved'
<1>1. /\ UNCHANGED attempts
      /\ pc'[w] # "insert"
      /\ \A u \in Workers \ {w} : pc'[u] = pc[u] /\ req'[u] = req[u]
  BY DEF Step, StartValidate, StartSave, LoadCount, LoadBest, SaveValidated,
         SaveRefused, PutWorkspace, Abandon, Save, SaveWorkspace, Answer, Go,
         tables, TypeOK
<1>. QED
  BY <1>1, QuietReserves

LEMMA DeleteReserves ==
  ASSUME AttemptsReserved, TypeOK, TypeOK', NEW s \in Students, DeleteStudent(s)
  PROVE  AttemptsReserved'
<1>1. \A k \in Keys : Len(attempts'[k]) <= Len(attempts[k])
  BY DEF DeleteStudent, TypeOK
<1>2. \A k \in Keys : At("insert", k)' = At("insert", k)
  BY DEF DeleteStudent, At
<1>. QED
  BY <1>1, <1>2, ReservedUnchanged

LEMMA InitReserved == Init => AttemptsReserved
<1> SUFFICES ASSUME Init, NEW k \in Keys
    PROVE  Len(attempts[k]) + Cardinality(At("insert", k)) <= Limit + Excess
  BY DEF AttemptsReserved
<1>1. At("insert", k) = {}
  BY DEF Init, At
<1>2. Len(attempts[k]) = 0
  BY DEF Init
<1>3. Cardinality(At("insert", k)) = 0
  BY <1>1, FS_EmptySet
<1>. QED
  BY <1>2, <1>3, ExcessNat, ConstantsAssumption

(* The attempts on record and the requests that have passed the check of   *)
(* CreateSubmission and not inserted yet exceed the limit by at most the   *)
(* other requests in flight.                                               *)
THEOREM Reserved == Spec => []AttemptsReserved
<1>1. TypeOK /\ TypeOK' /\ AttemptsReserved /\ [Next]_vars => AttemptsReserved'
  <2> SUFFICES ASSUME TypeOK, TypeOK', AttemptsReserved, [Next]_vars
      PROVE  AttemptsReserved'
    OBVIOUS
  <2>1. ASSUME NEW w \in Workers, Step(w)
        PROVE  AttemptsReserved'
    BY <2>1, CheckReserves, InsertReserves, OthersReserve
  <2>2. ASSUME NEW s \in Students, DeleteStudent(s)
        PROVE  AttemptsReserved'
    BY <2>2, DeleteReserves
  <2>3. CASE UNCHANGED vars
    BY <2>3 DEF vars, AttemptsReserved, At, Excess
  <2>. QED
    BY <2>1, <2>2, <2>3 DEF Next
<1>. QED
  BY InitReserved, TypeCorrect, <1>1, PTL DEF Spec

(* However many requests are in flight, a laboratory never records more    *)
(* than Limit attempts plus one less than the requests in flight.          *)
THEOREM Bounded == Spec => []AttemptsBounded
<1>1. TypeOK /\ AttemptsReserved => AttemptsBounded
  BY AtFinite, ExcessNat, ConstantsAssumption
     DEF TypeOK, AttemptsReserved, AttemptsBounded
<1>. QED
  BY <1>1, TypeCorrect, Reserved, PTL

(* With one request in flight at a time the limit the student is told is   *)
(* the limit that is kept.                                                 *)
THEOREM ExactWhenSequential ==
  ASSUME Cardinality(Workers) = 1
  PROVE  Spec => []AttemptsWithinLimit
<1>1. AttemptsBounded => AttemptsWithinLimit
  BY ConstantsAssumption DEF AttemptsBounded, AttemptsWithinLimit, Excess
<1>. QED
  BY <1>1, Bounded, PTL

-----------------------------------------------------------------------------
(***************************************************************************)
(* Accounts: every attempt on record is of one request past its insert.    *)
(***************************************************************************)

(* What one step other than DeleteStudent does to the accounts of a key    *)
(* that is not the one the step is about.                                  *)
LEMMA AccountUntouched ==
  ASSUME AttemptsAccounted, NEW k \in Keys, Exists(k),
         attempts'[k] = attempts[k], ended'[k] = ended[k],
         At("save", k)' = At("save", k)
  PROVE  Len(attempts'[k]) = ended'[k] + Cardinality(At("save", k)')
  BY DEF AttemptsAccounted

LEMMA InsertAccounts ==
  ASSUME TypeOK, AttemptsAccounted, NEW w \in Workers,
         InsertSubmission(w), Exists(req[w].key)
  PROVE  AttemptsAccounted'
<1>. DEFINE key == req[w].key
<1>1. /\ key \in Keys /\ req[w].result \in Results
      /\ attempts[key] \in Seq(Results)
      /\ w \notin At("save", key)
      /\ UNCHANGED <<students, ended>>
  BY DEF InsertSubmission, TypeOK, Requests, At
<1> SUFFICES ASSUME NEW k \in Keys, Exists(k)
    PROVE  Len(attempts'[k]) = ended'[k] + Cardinality(At("save", k)')
  BY <1>1 DEF AttemptsAccounted, Exists
<1>2. CASE k = key
  <2>1. Len(attempts'[k]) = Len(attempts[k]) + 1
    BY <1>1, <1>2 DEF InsertSubmission, TypeOK
  <2>2. At("save", k)' = At("save", k) \cup {w}
    BY <1>2 DEF InsertSubmission, Go, At, TypeOK
  <2>3. Cardinality(At("save", k)') = Cardinality(At("save", k)) + 1
    BY <1>1, <1>2, <2>2, AtFinite, FS_AddElement
  <2>4. ended[k] \in Nat
    BY DEF TypeOK
  <2>. QED
    BY <1>1, <2>1, <2>3, <2>4, AtFinite DEF AttemptsAccounted
<1>3. CASE k # key
  <2>1. attempts'[k] = attempts[k]
    BY <1>1, <1>3 DEF InsertSubmission, TypeOK
  <2>2. At("save", k)' = At("save", k)
    BY <1>3 DEF InsertSubmission, Go, At, TypeOK
  <2>. QED
    BY <1>1, <2>1, <2>2, AccountUntouched
<1>. QED
  BY <1>2, <1>3

(* A request past its insert ends: answered, or abandoned. *)
LEMMA EndAccounts ==
  ASSUME TypeOK, AttemptsAccounted, NEW w \in Workers,
         pc[w] = "save", SaveValidated(w) \/ Abandon(w)
  PROVE  AttemptsAccounted'
<1>. DEFINE key == req[w].key
<1>1. /\ key \in Keys
      /\ w \in At("save", key)
      /\ UNCHANGED <<students, attempts>>
      /\ End(w)
      /\ pc' = [pc EXCEPT ![w] = "idle"]
      /\ \A u \in Workers \ {w} : req'[u] = req[u]
  BY DEF SaveValidated, Abandon, Save, SaveWorkspace, Answer, tables, TypeOK,
         Requests, At
<1> SUFFICES ASSUME NEW k \in Keys, Exists(k)
    PROVE  Len(attempts'[k]) = ended'[k] + Cardinality(At("save", k)')
  BY <1>1 DEF AttemptsAccounted, Exists
<1>2. CASE k = key
  <2>1. ended'[k] = ended[k] + 1 /\ ended[k] \in Nat
    BY <1>1, <1>2 DEF End, TypeOK
  <2>2. At("save", k)' = At("save", k) \ {w}
    BY <1>1, <1>2 DEF At, TypeOK
  <2>3. Cardinality(At("save", k)') = Cardinality(At("save", k)) - 1
    BY <1>1, <1>2, <2>2, AtFinite, FS_RemoveElement
  <2>. QED
    BY <1>1, <2>1, <2>3, AtFinite DEF AttemptsAccounted
<1>3. CASE k # key
  <2>1. ended'[k] = ended[k]
    BY <1>1, <1>3 DEF End, TypeOK
  <2>2. At("save", k)' = At("save", k)
    BY <1>1, <1>3 DEF At, TypeOK
  <2>. QED
    BY <1>1, <2>1, <2>2, AccountUntouched
<1>. QED
  BY <1>2, <1>3

(* Every other step neither enters nor leaves the time before the save.    *)
LEMMA OthersAccount ==
  ASSUME TypeOK, AttemptsAccounted, NEW w \in Workers, Step(w),
         ~(InsertSubmission(w) /\ Exists(req[w].key)),
         ~(pc[w] = "save" /\ (SaveValidated(w) \/ Abandon(w)))
  PROVE  AttemptsAccounted'
<1>1. /\ UNCHANGED <<students, attempts, ended>>
      /\ pc[w] # "save" /\ pc'[w] # "save"
      /\ \A u \in Workers \ {w} : pc'[u] = pc[u] /\ req'[u] = req[u]
  BY DEF Step, StartValidate, StartSave, LoadCount, LoadBest, CheckLimit,
         InsertSubmission, SaveValidated, SaveRefused, PutWorkspace, Abandon,
         Save, SaveWorkspace, Answer, Go, tables, TypeOK
<1>2. \A k \in Keys : At("save", k)' = At("save", k)
  BY <1>1 DEF At
<1>. QED
  BY <1>1, <1>2 DEF AttemptsAccounted, Exists

LEMMA DeleteAccounts ==
  ASSUME TypeOK, AttemptsAccounted, NEW s \in Students, DeleteStudent(s)
  PROVE  AttemptsAccounted'
<1> SUFFICES ASSUME NEW k \in Keys, Exists(k)'
    PROVE  Len(attempts'[k]) = ended'[k] + Cardinality(At("save", k)')
  BY DEF AttemptsAccounted
<1>1. Exists(k) /\ attempts'[k] = attempts[k] /\ ended'[k] = ended[k]
  BY DEF DeleteStudent, Exists
<1>2. At("save", k)' = At("save", k)
  BY DEF DeleteStudent, At
<1>. QED
  BY <1>1, <1>2, AccountUntouched

(* However requests overlap or break off, the attempts on record are       *)
(* exactly those of the requests past their insert.                        *)
THEOREM Accounted == Spec => []AttemptsAccounted
<1>1. Init => AttemptsAccounted
  <2> SUFFICES ASSUME Init, NEW k \in Keys
      PROVE  Len(attempts[k]) = ended[k] + Cardinality(At("save", k))
    BY DEF AttemptsAccounted
  <2>1. At("save", k) = {}
    BY DEF Init, At
  <2>2. Len(attempts[k]) = 0 /\ ended[k] = 0
    BY DEF Init
  <2>3. Cardinality(At("save", k)) = 0
    BY <2>1, FS_EmptySet
  <2>. QED
    BY <2>2, <2>3
<1>2. TypeOK /\ AttemptsAccounted /\ [Next]_vars => AttemptsAccounted'
  <2> SUFFICES ASSUME TypeOK, AttemptsAccounted, [Next]_vars
      PROVE  AttemptsAccounted'
    OBVIOUS
  <2>1. ASSUME NEW w \in Workers, Step(w)
        PROVE  AttemptsAccounted'
    BY <2>1, InsertAccounts, EndAccounts, OthersAccount
  <2>2. ASSUME NEW s \in Students, DeleteStudent(s)
        PROVE  AttemptsAccounted'
    BY <2>2, DeleteAccounts
  <2>3. CASE UNCHANGED vars
    BY <2>3 DEF vars, AttemptsAccounted, Exists, At
  <2>. QED
    BY <2>1, <2>2, <2>3 DEF Next
<1>. QED
  BY TypeCorrect, <1>1, <1>2, PTL DEF Spec

-----------------------------------------------------------------------------
(***************************************************************************)
(* Refusals. The count a request decides on is stale when it is used, but  *)
(* attempts are only ever added while their student exists.                *)
(***************************************************************************)

(* A request in flight has not been answered. *)
Unanswered == \A w \in Workers : pc[w] # "idle" => reply[w] = "none"

(* What one step of a request does to the attempts. *)
LEMMA StepGrows ==
  ASSUME TypeOK, NEW w \in Workers, Step(w)
  PROVE  /\ UNCHANGED students
         /\ \A k \in Keys : Len(attempts'[k]) >= Len(attempts[k])
         /\ \A u \in Workers \ {w} : /\ pc'[u] = pc[u] /\ req'[u] = req[u]
                                     /\ reply'[u] = reply[u]
<1>1. CASE InsertSubmission(w)
  <2>1. CASE Exists(req[w].key)
    <3>1. /\ req[w].key \in Keys /\ req[w].result \in Results
          /\ attempts[req[w].key] \in Seq(Results)
      BY <1>1 DEF InsertSubmission, TypeOK, Requests
    <3>2. Len(Append(attempts[req[w].key], req[w].result)) = Len(attempts[req[w].key]) + 1
      BY <3>1
    <3>3. attempts' = [attempts EXCEPT ![req[w].key] =
                         Append(attempts[req[w].key], req[w].result)]
      BY <1>1, <2>1 DEF InsertSubmission, Go
    <3>4. \A k \in Keys : Len(attempts'[k]) >= Len(attempts[k])
      BY <3>1, <3>2, <3>3 DEF TypeOK
    <3>. QED
      BY <1>1, <2>1, <3>4 DEF InsertSubmission, Go, TypeOK
  <2>2. CASE Answer(w, "error") /\ UNCHANGED attempts
    BY <1>1, <2>2 DEF InsertSubmission, Answer, TypeOK
  <2>. QED
    BY <1>1, <2>1, <2>2 DEF InsertSubmission
<1>2. CASE ~InsertSubmission(w)
  <2>1. /\ UNCHANGED <<students, attempts>>
        /\ \A u \in Workers \ {w} : /\ pc'[u] = pc[u] /\ req'[u] = req[u]
                                    /\ reply'[u] = reply[u]
    BY <1>2 DEF Step, StartValidate, StartSave, LoadCount, LoadBest, CheckLimit,
         SaveValidated, SaveRefused, PutWorkspace, Abandon, Save, SaveWorkspace,
         Answer, Go, tables, TypeOK
  <2>. QED
    BY <2>1 DEF TypeOK
<1>. QED
  BY <1>1, <1>2

LEMMA StepFounded ==
  ASSUME TypeOK, TypeOK', RefusalFounded, NEW w \in Workers, Step(w)
  PROVE  RefusalFounded'
<1> SUFFICES ASSUME NEW u \in Workers,
                    (pc[u] = "refused" \/ (pc[u] = "best" /\ LimitReached(req[u].count)))',
                    Exists(req[u].key)'
    PROVE  Len(attempts'[req'[u].key]) >= Limit
  BY DEF RefusalFounded
<1>. DEFINE key == req'[u].key
<1>1. /\ req'[u] \in Requests /\ key \in Keys
      /\ Exists(key)
      /\ Len(attempts'[key]) \in Nat /\ Len(attempts[key]) \in Nat
      /\ Len(attempts'[key]) >= Len(attempts[key])
  BY StepGrows DEF TypeOK, Requests, Exists
<1>2. CASE u # w
  BY <1>1, <1>2, StepGrows, ConstantsAssumption DEF RefusalFounded, LimitReached
<1>3. CASE u = w /\ LoadCount(w)
  <2>1. req'[w].count = Len(attempts[req[w].key]) /\ key = req[w].key
    BY <1>3 DEF LoadCount, TypeOK, Requests
  <2>2. LimitReached(req'[w].count)
    BY <1>3 DEF LoadCount, Go, TypeOK
  <2>. QED
    BY <1>1, <1>3, <2>1, <2>2, ConstantsAssumption DEF LimitReached
<1>4. CASE u = w /\ LoadBest(w)
  <2>1. LimitReached(req[w].count) /\ pc[w] = "best"
    BY <1>4 DEF LoadBest, Go, TypeOK
  <2>2. req[w] \in Requests /\ key = req[w].key
    BY <1>4 DEF LoadBest, TypeOK, Requests
  <2>. QED
    BY <1>1, <1>4, <2>1, <2>2, ConstantsAssumption DEF RefusalFounded
<1>5. CASE u = w /\ ~LoadCount(w) /\ ~LoadBest(w)
  BY <1>5 DEF Step, StartValidate, StartSave, CheckLimit, InsertSubmission,
       SaveValidated, SaveRefused, PutWorkspace, Abandon, Save, SaveWorkspace,
       Answer, Go, TypeOK
<1>. QED
  BY <1>2, <1>3, <1>4, <1>5

LEMMA DeleteFounded ==
  ASSUME TypeOK, RefusalFounded, NEW s \in Students, DeleteStudent(s)
  PROVE  RefusalFounded'
<1> SUFFICES ASSUME NEW u \in Workers,
                    pc[u] = "refused" \/ (pc[u] = "best" /\ LimitReached(req[u].count)),
                    Exists(req[u].key)'
    PROVE  Len(attempts'[req[u].key]) >= Limit
  BY DEF RefusalFounded, DeleteStudent, LimitReached
<1>1. req[u].key \in Keys
  BY DEF TypeOK, Requests
<1>2. Exists(req[u].key) /\ attempts'[req[u].key] = attempts[req[u].key]
  BY <1>1 DEF DeleteStudent, Exists
<1>. QED
  BY <1>2 DEF RefusalFounded

(* A step of a request answers its own request only, and a refusal comes   *)
(* from CheckLimit or from the save of a request on its way to it.         *)
LEMMA StepUnanswered ==
  ASSUME TypeOK, Unanswered, NEW w \in Workers, Step(w)
  PROVE  Unanswered'
<1>1. pc'[w] # "idle" => reply'[w] = "none"
  BY DEF Unanswered, Step, StartValidate, StartSave, LoadCount, LoadBest,
       CheckLimit, InsertSubmission, SaveValidated, SaveRefused, PutWorkspace,
       Abandon, Save, SaveWorkspace, Answer, Go, TypeOK
<1>. QED
  BY <1>1, StepGrows DEF Unanswered

RefusalInv == RefusalFounded /\ Unanswered

(* A count that was read at the limit stays founded until the handler has  *)
(* refused the attempt: attempts only go with their student.               *)
THEOREM RefusalsFounded == Spec => []RefusalInv
<1>1. Init => RefusalInv
  BY DEF Init, RefusalInv, RefusalFounded, Unanswered
<1>2. TypeOK /\ TypeOK' /\ RefusalInv /\ [Next]_vars => RefusalInv'
  <2> SUFFICES ASSUME TypeOK, TypeOK', RefusalInv, [Next]_vars
      PROVE  RefusalInv'
    OBVIOUS
  <2>1. ASSUME NEW w \in Workers, Step(w)
        PROVE  RefusalInv'
    BY <2>1, StepFounded, StepUnanswered DEF RefusalInv
  <2>2. ASSUME NEW s \in Students, DeleteStudent(s)
        PROVE  RefusalInv'
    BY <2>2, DeleteFounded DEF RefusalInv, Unanswered, DeleteStudent
  <2>3. CASE UNCHANGED vars
    BY <2>3 DEF vars, RefusalInv, RefusalFounded, Unanswered, Exists
  <2>. QED
    BY <2>1, <2>2, <2>3 DEF Next
<1>. QED
  BY TypeCorrect, <1>1, <1>2, PTL DEF Spec

(* A step that refuses an attempt finds the limit used up. *)
LEMMA RefusingStep ==
  ASSUME TypeOK, RefusalInv, Next, NEW w \in Workers,
         pc[w] # "idle", reply'[w] = "limit"
  PROVE  Len(attempts[req[w].key]) >= Limit
<1>1. reply[w] = "none"
  BY DEF RefusalInv, Unanswered
<1>2. PICK u \in Workers : Step(u)
  BY <1>1 DEF Next, DeleteStudent
<1>3. u = w
  BY <1>1, <1>2, StepGrows
<1>4. \/ CheckLimit(w) /\ LimitReached(Len(attempts[req[w].key]))
      \/ SaveRefused(w) /\ Exists(req[w].key)
  BY <1>1, <1>2, <1>3
     DEF Step, StartValidate, StartSave, LoadCount, LoadBest, CheckLimit,
       InsertSubmission, SaveValidated, SaveRefused, PutWorkspace, Abandon,
       Save, SaveWorkspace, Answer, Go, TypeOK
<1>. QED
  BY <1>4 DEF LimitReached, SaveRefused, RefusalInv, RefusalFounded

(* A student is refused an attempt only when Limit attempts are on record  *)
(* at that moment.                                                         *)
THEOREM RefusalsOnlyAtLimit == Spec => RefusedOnlyAtLimit
<1>1. TypeOK /\ RefusalInv /\ [Next]_vars
        => [\A w \in Workers :
              pc[w] # "idle" /\ reply'[w] = "limit"
                => Len(attempts[req[w].key]) >= Limit]_vars
  BY RefusingStep
<1>. QED
  BY TypeCorrect, RefusalsFounded, <1>1, PTL DEF Spec, RefusedOnlyAtLimit

-----------------------------------------------------------------------------
(***************************************************************************)
(* The tables: saves are whole and deletions are final                     *)
(***************************************************************************)

LEMMA SaveStored ==
  ASSUME TypeOK, SavedTogether, DeletedForGood,
         NEW w \in Workers, NEW a \in Answers, pc[w] # "idle", Save(w, a)
  PROVE  SavedTogether' /\ DeletedForGood'
<1>1. CASE /\ SaveWorkspace(req[w].key, req[w].keep, req[w].tasks)
           /\ UNCHANGED <<students, attempts>>
  <2>1. req[w] \in Requests
    BY DEF TypeOK
  <2>2. [verdict |-> req[w].keep, tasks |-> req[w].tasks] # NoRow
    BY <2>1, ConstantsAssumption DEF Requests, Rows
  <2>3. DeletedForGood'
    BY <1>1, <2>1 DEF SaveWorkspace, DeletedForGood, Exists, TypeOK
  <2>4. SavedTogether'
    BY <1>1, <2>1, <2>2 DEF SaveWorkspace, SavedTogether, TypeOK
  <2>. QED
    BY <2>3, <2>4
<1>2. CASE UNCHANGED tables
  BY <1>2 DEF tables, SavedTogether, DeletedForGood, Exists
<1>. QED
  BY <1>1, <1>2 DEF Save

LEMMA StepStored ==
  ASSUME TypeOK, SavedTogether, DeletedForGood, NEW w \in Workers, Step(w)
  PROVE  SavedTogether' /\ DeletedForGood'
<1>. "persisted" \in Answers /\ "limit" \in Answers /\ "saved" \in Answers
  BY DEF Answers
<1>1. CASE InsertSubmission(w)
  <2>1. SavedTogether'
    BY <1>1 DEF InsertSubmission, SavedTogether
  <2>2. req[w].key \in Keys
    BY <1>1 DEF InsertSubmission, TypeOK, Requests
  <2>3. DeletedForGood'
    BY <1>1, <2>2 DEF InsertSubmission, DeletedForGood, Exists, TypeOK
  <2>. QED
    BY <2>1, <2>3
<1>2. CASE SaveValidated(w) \/ SaveRefused(w) \/ PutWorkspace(w)
  BY <1>2, SaveStored DEF SaveValidated, SaveRefused, PutWorkspace
<1>3. CASE UNCHANGED tables
  BY <1>3 DEF tables, SavedTogether, DeletedForGood, Exists
<1>4. InsertSubmission(w) \/ SaveValidated(w) \/ SaveRefused(w) \/ PutWorkspace(w)
      \/ UNCHANGED tables
  BY DEF Step, StartValidate, StartSave, LoadCount, LoadBest, CheckLimit, Abandon
<1>. QED
  BY <1>1, <1>2, <1>3, <1>4

LEMMA DeleteStored ==
  ASSUME TypeOK, SavedTogether, DeletedForGood, NEW s \in Students, DeleteStudent(s)
  PROVE  SavedTogether' /\ DeletedForGood'
<1>1. SavedTogether'
  BY DEF DeleteStudent, SavedTogether
<1>2. DeletedForGood'
  BY DEF DeleteStudent, DeletedForGood, Exists
<1>. QED
  BY <1>1, <1>2

(* The solution and the tasks saved for a laboratory are always those of   *)
(* one request, and no request that was in flight when its student was     *)
(* deleted leaves anything behind.                                         *)
THEOREM StoredWhole == Spec => [](SavedTogether /\ DeletedForGood)
<1>1. Init => SavedTogether /\ DeletedForGood
  BY DEF Init, SavedTogether, DeletedForGood, Exists, Keys
<1>2. /\ TypeOK /\ SavedTogether /\ DeletedForGood /\ [Next]_vars
      => SavedTogether' /\ DeletedForGood'
  <2> SUFFICES ASSUME TypeOK, SavedTogether, DeletedForGood, [Next]_vars
      PROVE  SavedTogether' /\ DeletedForGood'
    OBVIOUS
  <2>1. CASE UNCHANGED vars
    BY <2>1 DEF vars, SavedTogether, DeletedForGood, Exists
  <2>. QED
    BY <2>1, StepStored, DeleteStored DEF Next
<1>. QED
  BY TypeCorrect, <1>1, <1>2, PTL DEF Spec

(* Nothing of a deleted student comes back through a request that was in   *)
(* flight when an administrator deleted them (DeleteStudent, with the      *)
(* foreign keys that refuse later inserts).                                *)
THEOREM DeletedStayGone == Spec => []DeletedForGood
  BY StoredWhole, PTL

-----------------------------------------------------------------------------
(***************************************************************************)
(* Refinement: the submissions table is an append-only log of bounded      *)
(* size.                                                                   *)
(***************************************************************************)

LEMMA StepRefines ==
  ASSUME TypeOK, AttemptsReserved, NEW w \in Workers, Step(w)
  PROVE  Log!Next \/ UNCHANGED <<students, attempts>>
<1>1. CASE InsertSubmission(w) /\ Exists(req[w].key)
  <2>. DEFINE key == req[w].key
  <2>1. /\ key \in Keys /\ req[w].result \in Results
        /\ Len(attempts[key]) \in Nat
        /\ w \in At("insert", key)
    BY <1>1 DEF InsertSubmission, TypeOK, Requests, At
  <2>2. Cardinality(At("insert", key)) # 0
    BY <2>1, AtFinite, FS_EmptySet
  <2>3. Len(attempts[key]) < Limit + Excess
    BY <2>1, <2>2, AtFinite, ExcessNat, ConstantsAssumption DEF AttemptsReserved
  <2>4. Log!Record(key, req[w].result)
    BY <1>1, <2>3 DEF Log!Record, InsertSubmission, Exists, Go
  <2>5. key \in Log!Keys
    BY <2>1 DEF Log!Keys, Keys
  <2>. QED
    BY <2>1, <2>4, <2>5 DEF Log!Next
<1>2. CASE ~(InsertSubmission(w) /\ Exists(req[w].key))
  BY <1>2 DEF Step, StartValidate, StartSave, LoadCount, LoadBest, CheckLimit,
       InsertSubmission, SaveValidated, SaveRefused, PutWorkspace, Abandon,
       Save, SaveWorkspace, tables
<1>. QED
  BY <1>1, <1>2

(* Every behaviour of the requests, interleaved and abandoned in any way,  *)
(* is a behaviour of the bounded append-only log: attempts are recorded    *)
(* one by one, never changed, and vanish for good with their student.      *)
THEOREM Refinement == Spec => LogSpec
<1>1. Init => Log!Init
  BY DEF Init, Log!Init, Keys, Log!Keys
<1>2. TypeOK /\ AttemptsReserved /\ [Next]_vars
        => [Log!Next]_<<students, attempts>>
  <2> SUFFICES ASSUME TypeOK, AttemptsReserved, [Next]_vars
      PROVE  Log!Next \/ UNCHANGED <<students, attempts>>
    OBVIOUS
  <2>1. ASSUME NEW s \in Students, DeleteStudent(s)
        PROVE  Log!Erase(s)
    BY <2>1 DEF DeleteStudent, Log!Erase, Keys, Log!Keys
  <2>2. CASE UNCHANGED vars
    BY <2>2 DEF vars
  <2>. QED
    BY <2>1, <2>2, StepRefines DEF Next, Log!Next
<1>. QED
  BY TypeCorrect, Reserved, <1>1, <1>2, PTL DEF Spec, LogSpec, Log!Spec

=============================================================================
