----------------------------- MODULE ViewsProofs ----------------------------
(***************************************************************************)
(* Theorems of ProgressViews.                                              *)
(***************************************************************************)
EXTENDS ProgressViews, SubmissionsProofs, WellFoundedInduction

LEMMA LeastNumber ==
  ASSUME NEW T \in SUBSET Nat, T # {}
  PROVE  \E n \in T : \A m \in T : n <= m
<1>. DEFINE R == OpToRel(<, Nat)
<1>1. IsWellFoundedOn(R, Nat)
  BY NatLessThanWellFounded, Zenon
<1>2. PICK n \in T : \A m \in T : <<m, n>> \notin R
  BY <1>1, WFMin
<1>3. \A m \in T : ~ (m < n)
  BY <1>2 DEF OpToRel
<1>. QED
  BY <1>3

(* Induction, over a set of numbers instead of a formula.                  *)
LEMMA NumbersFromZero ==
  ASSUME NEW T \in SUBSET Nat, 0 \in T, \A n \in T : n + 1 \in T
  PROVE  Nat = T
<1>. SUFFICES ASSUME Nat \ T # {}  PROVE FALSE
  OBVIOUS
<1>1. PICK n \in Nat \ T : \A m \in Nat \ T : n <= m
  BY LeastNumber
<1>2. n # 0 /\ n - 1 \in Nat /\ n - 1 \in T
  BY <1>1
<1>. QED
  BY <1>1, <1>2

Pick(s) == CHOOSE x \in s : TRUE

(* g is the function that MapThenSumSet builds of the summands h. *)
Sums(g, h, S) ==
  g = [s \in SUBSET S |-> IF s = {} THEN 0 ELSE h[Pick(s)] + g[s \ {Pick(s)}]]

LEMMA PickIn ==
  ASSUME NEW s, s # {}
  PROVE  Pick(s) \in s
  BY DEF Pick

LEMMA PickShrinks ==
  ASSUME NEW S, IsFiniteSet(S), NEW s \in SUBSET S, s # {}
  PROVE  /\ Cardinality(s) \in Nat
         /\ Cardinality(s \ {Pick(s)}) = Cardinality(s) - 1
         /\ Cardinality(s) > 0
<1>1. IsFiniteSet(s)
  BY FS_Subset
<1>2. Cardinality(s) \in Nat /\ Cardinality(s) # 0
  BY <1>1, FS_CardinalityType, FS_EmptySet
<1>3. Pick(s) \in s
  BY PickIn
<1>4. Cardinality(s \ {Pick(s)}) = Cardinality(s) - 1
  BY <1>1, <1>3, FS_RemoveElement
<1>. QED
  BY <1>2, <1>4

LEMMA SumsExist ==
  ASSUME NEW S, IsFiniteSet(S), NEW h
  PROVE  \E g : Sums(g, h, S)
<1>. DEFINE Small(n) == {s \in SUBSET S : Cardinality(s) <= n}
            Upto(g, n) ==
              \A s \in Small(n) :
                g[s] = IF s = {} THEN 0 ELSE h[Pick(s)] + g[s \ {Pick(s)}]
            T == {n \in Nat : \E g : Upto(g, n)}
<1>1. 0 \in T
  <2>1. Upto([s \in SUBSET S |-> 0], 0)
    <3>. SUFFICES ASSUME NEW s \in SUBSET S, Cardinality(s) <= 0  PROVE s = {}
      OBVIOUS
    <3>1. s # {} => Cardinality(s) \in Nat /\ Cardinality(s) > 0
      BY PickShrinks
    <3>. QED
      BY <3>1
  <2>. HIDE DEF Upto
  <2>. QED
    BY <2>1
<1>2. ASSUME NEW n \in T
      PROVE  n + 1 \in T
  <2>1. PICK g : Upto(g, n)
    OBVIOUS
  <2>. DEFINE gg == [s \in SUBSET S |->
                      IF Cardinality(s) <= n THEN g[s]
                      ELSE h[Pick(s)] + g[s \ {Pick(s)}]]
  <2>2. Upto(gg, n + 1)
    <3>. SUFFICES ASSUME NEW s \in SUBSET S, Cardinality(s) <= n + 1
         PROVE  gg[s] = IF s = {} THEN 0 ELSE h[Pick(s)] + gg[s \ {Pick(s)}]
      OBVIOUS
    <3>1. CASE s = {}
      BY <2>1, <3>1, FS_EmptySet
    <3>2. CASE s # {}
      <4>1. /\ Cardinality(s \ {Pick(s)}) <= n
            /\ s \ {Pick(s)} \in SUBSET S
        BY <3>2, PickShrinks
      <4>2. gg[s \ {Pick(s)}] = g[s \ {Pick(s)}]
        BY <4>1
      <4>3. gg[s] = h[Pick(s)] + g[s \ {Pick(s)}]
        BY <2>1, <3>2
      <4>. QED
        BY <3>2, <4>2, <4>3
    <3>. QED
      BY <3>1, <3>2
  <2>. HIDE DEF Upto, gg
  <2>. QED
    BY <2>2
<1>3. T = Nat
  BY <1>1, <1>2, NumbersFromZero
<1>4. Cardinality(S) \in Nat
  BY FS_CardinalityType
<1>5. PICK g : Upto(g, Cardinality(S))
  BY <1>3, <1>4
<1>6. \A s \in SUBSET S : Cardinality(s) <= Cardinality(S)
  BY FS_Subset
<1>. DEFINE gg == [s \in SUBSET S |-> g[s]]
<1>7. Sums(gg, h, S)
  BY <1>5, <1>6 DEF Sums
<1>. QED
  BY <1>7


LEMMA SumsMonotone ==
  ASSUME NEW S, IsFiniteSet(S), NEW h \in [S -> Nat], NEW k \in [S -> Nat],
         \A x \in S : h[x] <= k[x],
         NEW g, Sums(g, h, S), NEW f, Sums(f, k, S)
  PROVE  g[S] \in Nat /\ f[S] \in Nat /\ g[S] <= f[S]
<1>. DEFINE Below(s) == g[s] \in Nat /\ f[s] \in Nat /\ g[s] <= f[s]
            T == {n \in Nat : \A s \in SUBSET S : Cardinality(s) <= n => Below(s)}
<1>1. \A s \in SUBSET S : /\ g[s] = IF s = {} THEN 0 ELSE h[Pick(s)] + g[s \ {Pick(s)}]
                          /\ f[s] = IF s = {} THEN 0 ELSE k[Pick(s)] + f[s \ {Pick(s)}]
  BY DEF Sums
<1>2. Below({})
  BY <1>1
<1>3. ASSUME NEW s \in SUBSET S, s # {}, Below(s \ {Pick(s)})
      PROVE  Below(s)
  <2>1. /\ h[Pick(s)] \in Nat /\ g[s] = h[Pick(s)] + g[s \ {Pick(s)}]
        /\ k[Pick(s)] \in Nat /\ f[s] = k[Pick(s)] + f[s \ {Pick(s)}]
        /\ h[Pick(s)] <= k[Pick(s)]
    BY <1>1, <1>3, PickIn
  <2>. QED
    BY <1>3, <2>1
<1>4. ASSUME NEW s \in SUBSET S, s # {}
      PROVE  /\ s \ {Pick(s)} \in SUBSET S
             /\ \A n \in Nat : /\ ~(Cardinality(s) <= 0)
                               /\ Cardinality(s) <= n + 1 => Cardinality(s \ {Pick(s)}) <= n
  BY <1>4, PickShrinks
<1>. HIDE DEF Below
<1>5. 0 \in T
  BY <1>2, <1>4
<1>6. ASSUME NEW n \in T
      PROVE  n + 1 \in T
  <2>1. ASSUME NEW s \in SUBSET S, Cardinality(s) <= n + 1
        PROVE  Below(s)
    <3>1. CASE s = {}
      BY <1>2, <3>1
    <3>2. CASE s # {}
      BY <1>3, <1>4, <2>1, <3>2
    <3>. QED
      BY <3>1, <3>2
  <2>. QED
    BY <2>1
<1>7. T = Nat
  BY <1>5, <1>6, NumbersFromZero
<1>8. Cardinality(S) \in Nat
  BY FS_CardinalityType
<1>9. Below(S)
  BY <1>7, <1>8
<1>. QED
  BY <1>9 DEF Below

(* The two sums of the dashboard.                                          *)
SumOfCounts(v) == MapThenSumSet(LAMBDA l : v.count[l], Labs)

AllAttempts(s) == MapThenSumSet(LAMBDA l : Len(attempts[s, l]), Labs)

LEMMA CountsSummed ==
  ASSUME NEW v
  PROVE  \E g : Sums(g, [l \in Labs |-> v.count[l]], Labs) /\ SumOfCounts(v) = g[Labs]
<1>. DEFINE h == [l \in Labs |-> v.count[l]]
            iter[s \in SUBSET Labs] ==
              IF s = {} THEN 0
              ELSE v.count[CHOOSE x \in s : TRUE] + iter[s \ {CHOOSE x \in s : TRUE}]
<1>1. SumOfCounts(v) = iter[Labs]
  BY DEF SumOfCounts, MapThenSumSet, MapThenFoldSet
<1>2. PICK g : Sums(g, h, Labs)
  BY SumsExist, ViewsAssumption
<1>3. g = [s \in SUBSET Labs |->
             IF s = {} THEN 0
             ELSE v.count[CHOOSE x \in s : TRUE] + g[s \ {CHOOSE x \in s : TRUE}]]
  BY <1>2, PickIn DEF Sums, Pick
<1>4. iter = [s \in SUBSET Labs |->
                IF s = {} THEN 0
                ELSE v.count[CHOOSE x \in s : TRUE] + iter[s \ {CHOOSE x \in s : TRUE}]]
  BY <1>3
<1>5. Sums(iter, h, Labs)
  BY <1>4, PickIn DEF Sums, Pick
<1>. QED
  BY <1>1, <1>5

LEMMA AttemptsSummed ==
  ASSUME NEW s
  PROVE  \E g : Sums(g, [l \in Labs |-> Len(attempts[s, l])], Labs) /\ AllAttempts(s) = g[Labs]
<1>. DEFINE h == [l \in Labs |-> Len(attempts[s, l])]
            iter[t \in SUBSET Labs] ==
              IF t = {} THEN 0
              ELSE Len(attempts[s, CHOOSE x \in t : TRUE]) + iter[t \ {CHOOSE x \in t : TRUE}]
<1>1. AllAttempts(s) = iter[Labs]
  BY DEF AllAttempts, MapThenSumSet, MapThenFoldSet
<1>2. PICK g : Sums(g, h, Labs)
  BY SumsExist, ViewsAssumption
<1>3. g = [t \in SUBSET Labs |->
             IF t = {} THEN 0
             ELSE Len(attempts[s, CHOOSE x \in t : TRUE]) + g[t \ {CHOOSE x \in t : TRUE}]]
  BY <1>2, PickIn DEF Sums, Pick
<1>4. iter = [t \in SUBSET Labs |->
                IF t = {} THEN 0
                ELSE Len(attempts[s, CHOOSE x \in t : TRUE]) + iter[t \ {CHOOSE x \in t : TRUE}]]
  BY <1>3
<1>5. Sums(iter, h, Labs)
  BY <1>4, PickIn DEF Sums, Pick
<1>. QED
  BY <1>1, <1>5

LEMMA AttemptsCounted ==
  ASSUME TypeOK, NEW s \in Students, NEW l \in Labs
  PROVE  attempts[s, l] \in Seq(Results) /\ Len(attempts[s, l]) \in Nat
<1>1. attempts[<<s, l>>] \in Seq(Results)
  BY DEF TypeOK, Keys
<1>2. Len(attempts[<<s, l>>]) \in Nat
  BY <1>1
<1>. QED
  BY <1>1, <1>2

(* The total covers the counts, each number being what was on record when  *)
(* its query ran, or more.                                                 *)
LEMMA TotalCovers ==
  ASSUME TypeOK, NEW v \in Views, NEW s \in Students,
         \A l \in Labs : v.count[l] <= Len(attempts[s, l])
  PROVE  AllAttempts(s) \in Nat /\ SumOfCounts(v) <= AllAttempts(s)
<1>. DEFINE h == [l \in Labs |-> v.count[l]]
            k == [l \in Labs |-> Len(attempts[s, l])]
<1>1. h \in [Labs -> Nat]
  BY DEF Views
<1>2. k \in [Labs -> Nat]
  BY AttemptsCounted
<1>3. \A l \in Labs : h[l] <= k[l]
  OBVIOUS
<1>4. PICK g : Sums(g, h, Labs) /\ SumOfCounts(v) = g[Labs]
  BY CountsSummed
<1>5. PICK f : Sums(f, k, Labs) /\ AllAttempts(s) = f[Labs]
  BY AttemptsSummed
<1>6. IsFiniteSet(Labs)
  BY ViewsAssumption
<1>. HIDE DEF h, k
<1>7. g[Labs] \in Nat /\ f[Labs] \in Nat /\ g[Labs] <= f[Labs]
  BY <1>1, <1>2, <1>3, <1>4, <1>5, <1>6, SumsMonotone
<1>. QED
  BY <1>4, <1>5, <1>7

LEMMA AllCounted ==
  ASSUME TypeOK, NEW s \in Students
  PROVE  AllAttempts(s) \in Nat
<1>. DEFINE k == [l \in Labs |-> Len(attempts[s, l])]
<1>1. k \in [Labs -> Nat]
  BY AttemptsCounted
<1>2. PICK f : Sums(f, k, Labs) /\ AllAttempts(s) = f[Labs]
  BY AttemptsSummed
<1>3. IsFiniteSet(Labs)
  BY ViewsAssumption
<1>. HIDE DEF k
<1>4. \A l \in Labs : k[l] <= k[l]
  BY <1>1
<1>5. f[Labs] \in Nat
  BY <1>1, <1>2, <1>3, <1>4, SumsMonotone
<1>. QED
  BY <1>2, <1>5

(***************************************************************************)
(* The readings leave the requests of Submissions alone                    *)
(***************************************************************************)

(* The queries of LoadDashboard and LoadAdminOverview write nothing: a     *)
(* behaviour of the composition is one of the requests that write.         *)
THEOREM ReadersOnlyRead == ViewsSpec => Spec
<1>1. ViewsInit => Init
  BY DEF ViewsInit
<1>2. [ViewsNext]_ViewsVars => [Next]_vars
  BY DEF ViewsNext, ViewsVars
<1>. QED
  BY <1>1, <1>2, PTL DEF ViewsSpec, Spec

ViewsTyped == view \in [Readers -> Views \cup {NoView}]

LEMMA ResultsTyped ==
  ASSUME NEW v \in Results
  PROVE  v \in Verdicts /\ v # NoResult /\ v.score \in Nat /\ v.allPassed \in BOOLEAN
  BY ConstantsAssumption DEF Verdicts

(***************************************************************************)
(* What is read stays true as long as the student is there                 *)
(***************************************************************************)

(* Attempts are only added, at the end. *)
Extends(rows, earlier) ==
  /\ Len(rows) >= Len(earlier)
  /\ \A i \in 1 .. Len(earlier) : rows[i] = earlier[i]

LEMMA StepExtends ==
  ASSUME TypeOK, NEW w \in Workers, Step(w), NEW k \in Keys
  PROVE  Extends(attempts'[k], attempts[k])
<1>0. attempts[k] \in Seq(Results)
  BY DEF TypeOK
<1>1. CASE UNCHANGED attempts
  BY <1>0, <1>1 DEF Extends
<1>2. CASE InsertSubmission(w) /\ Exists(req[w].key)
  <2>1. /\ req[w].key \in Keys /\ req[w].result \in Results
        /\ attempts' = [attempts EXCEPT ![req[w].key] =
                          Append(attempts[req[w].key], req[w].result)]
    BY <1>2 DEF InsertSubmission, TypeOK, Requests
  <2>2. CASE k = req[w].key
    <3>1. attempts'[k] = Append(attempts[k], req[w].result)
      BY <2>1, <2>2 DEF TypeOK
    <3>. QED
      BY <1>0, <2>1, <3>1 DEF Extends
  <2>3. CASE k # req[w].key
    BY <1>0, <2>1, <2>3 DEF Extends, TypeOK
  <2>. QED
    BY <2>2, <2>3
<1>3. UNCHANGED attempts \/ (InsertSubmission(w) /\ Exists(req[w].key))
  BY DEF Step, StartValidate, StartSave, LoadCount, LoadBest, CheckLimit, InsertSubmission,
         SaveValidated, SaveRefused, PutWorkspace, Abandon, Save, SaveWorkspace, tables
<1>. QED
  BY <1>1, <1>2, <1>3

LEMMA AttemptsExtend ==
  ASSUME TypeOK, [Next]_vars
  PROVE  /\ students' \subseteq students
         /\ \A k \in Keys : k[1] \in students' => Extends(attempts'[k], attempts[k])
<1>1. ASSUME NEW w \in Workers, Step(w)
      PROVE  UNCHANGED students
  BY <1>1, StepGrows
<1>2. ASSUME NEW s \in Students, DeleteStudent(s)
      PROVE  /\ students' \subseteq students
             /\ \A k \in Keys : k[1] \in students' => attempts'[k] = attempts[k]
  BY <1>2 DEF DeleteStudent
<1>3. \A k \in Keys : Extends(attempts[k], attempts[k])
  BY DEF Extends, TypeOK
<1>4. CASE UNCHANGED vars
  BY <1>3, <1>4 DEF vars
<1>. QED
  BY <1>1, <1>2, <1>3, <1>4, StepExtends DEF Next

(***************************************************************************)
(* The list of the instructor                                              *)
(***************************************************************************)

(* A step of a request that writes, with the history of what drafts claim. *)
Written == (Next /\ Claim) \/ UNCHANGED <<vars, claimed>>

LEMMA ViewsWritten ==
  /\ ViewsInit => Init /\ claimed = {}
  /\ [ViewsNext]_ViewsVars => Written
  BY DEF ViewsInit, ViewsNext, ViewsVars, Written

(* What request w holds is founded, or a draft has claimed it.             *)
Held(w) ==
  Exists(req[w].key) /\ Passed(req[w].keep) =>
    /\ pc[w] \in {"check", "insert"} => Passed(req[w].result) \/ AttemptPassed(req[w].key)
    /\ pc[w] = "save" => AttemptPassed(req[w].key)
    /\ pc[w] = "put" =>
         AttemptPassed(req[w].key) \/ UsedUp(req[w].key) \/ req[w].key \in claimed

(* OverviewFounded looks at the workspaces alone; what will be saved is    *)
(* held by the requests.                                                   *)
VerdictInv == OverviewFounded /\ \A w \in Workers : Held(w)

LEMMA FoundedForGood ==
  ASSUME TypeOK, TypeOK', [Next]_vars, NEW k \in Keys, k[1] \in students'
  PROVE  /\ AttemptPassed(k) => AttemptPassed(k)'
         /\ UsedUp(k) => UsedUp(k)'
<1>1. Extends(attempts'[k], attempts[k])
  BY AttemptsExtend
<1>2. attempts[k] \in Seq(Results) /\ attempts'[k] \in Seq(Results)
  BY DEF TypeOK
<1>3. UsedUp(k) => UsedUp(k)'
  BY <1>1, <1>2, ConstantsAssumption DEF Extends, UsedUp
<1>4. ASSUME NEW i \in DOMAIN attempts[k], attempts[k][i].allPassed
      PROVE  AttemptPassed(k)'
  <2>1. i \in 1 .. Len(attempts[k]) /\ i \in DOMAIN attempts'[k]
    BY <1>1, <1>2 DEF Extends
  <2>2. attempts'[k][i].allPassed
    BY <1>1, <1>4, <2>1 DEF Extends
  <2>. QED
    BY <2>1, <2>2 DEF AttemptPassed
<1>. QED
  BY <1>3, <1>4 DEF AttemptPassed

LEMMA ClaimedForGood == Written => [Next]_vars /\ claimed \subseteq claimed'
  BY DEF Written, Claim

LEMMA OtherHeld ==
  ASSUME TypeOK, TypeOK', VerdictInv, Written, NEW u \in Workers,
         pc[u] # "idle", pc'[u] = pc[u], req'[u] = req[u]
  PROVE  Held(u)'
<1>1. req[u].key \in Keys
  BY DEF TypeOK, Requests
<1>2. Exists(req[u].key)' => /\ Exists(req[u].key)
                             /\ AttemptPassed(req[u].key) => AttemptPassed(req[u].key)'
                             /\ UsedUp(req[u].key) => UsedUp(req[u].key)'
                             /\ req[u].key \in claimed => req[u].key \in claimed'
  BY <1>1, FoundedForGood, AttemptsExtend, ClaimedForGood DEF Exists
<1>. QED
  BY <1>2 DEF VerdictInv, Held, Exists, AttemptPassed, UsedUp

LEMMA BestIsAttempt ==
  ASSUME NEW k \in Keys, attempts[k] \in Seq(Results), NEW b \in Best(attempts[k])
  PROVE  Passed(b) => AttemptPassed(k)
  BY DEF Best, Passed, AttemptPassed

LEMMA OwnHeld ==
  ASSUME TypeOK, TypeOK', VerdictInv, NEW w \in Workers, Step(w), Claim
  PROVE  Held(w)'
<1>. SUFFICES ASSUME Exists(req[w].key)', Passed(req[w].keep)',
                     pc'[w] \in {"check", "insert", "save", "put"}
     PROVE  Held(w)'
  BY DEF Held
<1>0. req'[w].key \in Keys /\ req'[w] \in Requests
  BY DEF TypeOK, Requests
<1>1. ASSUME NEW k \in Keys, NEW v \in ClientVerdicts, NEW t \in SUBSET Tasks,
             StartSave(w, k, v, t)
      PROVE  Held(w)'
  <2>1. pc[w] = "idle" /\ pc'[w] = "put" /\ UNCHANGED attempts
    BY <1>1 DEF StartSave, TypeOK, tables
  <2>2. AttemptPassed(req'[w].key) \/ UsedUp(req'[w].key) \/ req'[w].key \in claimed'
    BY <2>1 DEF Claim, Claims
  <2>. QED
    BY <2>1, <2>2 DEF Held, AttemptPassed, UsedUp
<1>2. CASE LoadBest(w)
  <2>1. req[w] \in Requests /\ req[w].key \in Keys /\ attempts[req[w].key] \in Seq(Results)
    BY <1>2 DEF LoadBest, TypeOK, Requests
  <2>2. PICK best \in Best(attempts[req[w].key]) :
          req' = [req EXCEPT ![w].keep = Persist(best, req[w].result)]
    BY <1>2 DEF LoadBest
  <2>3. /\ req'[w].key = req[w].key /\ req'[w].result = req[w].result
        /\ req'[w].keep = Persist(best, req[w].result)
    BY <2>1, <2>2 DEF TypeOK, Requests
  <2>4. Passed(req[w].result) \/ AttemptPassed(req[w].key)
    BY <2>1, <2>2, <2>3, BestIsAttempt DEF Persist
  <2>5. pc'[w] \in {"refused", "check"} /\ UNCHANGED attempts
    BY <1>2 DEF LoadBest, Go, TypeOK, tables
  <2>. QED
    BY <2>3, <2>4, <2>5 DEF Held, AttemptPassed
<1>3. CASE CheckLimit(w)
  <2>1. UNCHANGED <<req, students, attempts>> /\ pc[w] = "check" /\ pc'[w] = "insert"
    BY <1>3 DEF CheckLimit, Answer, Go, TypeOK, tables
  <2>. QED
    BY <2>1 DEF Held, VerdictInv, Exists, AttemptPassed
<1>4. CASE InsertSubmission(w)
  <2>. DEFINE k == req[w].key
  <2>1. Exists(k) /\ UNCHANGED <<req, students>> /\ pc[w] = "insert" /\ pc'[w] = "save"
    BY <1>4 DEF InsertSubmission, Answer, Go, TypeOK
  <2>2. /\ k \in Keys /\ req[w].result \in Results /\ attempts[k] \in Seq(Results)
        /\ attempts'[k] = Append(attempts[k], req[w].result)
    BY <1>4, <2>1 DEF InsertSubmission, TypeOK, Requests
  <2>3. Passed(req[w].result) \/ AttemptPassed(k)
    BY <2>1 DEF VerdictInv, Held
  <2>4. Passed(req[w].result) => AttemptPassed(k)'
    <3>1. Len(attempts[k]) + 1 \in DOMAIN attempts'[k]
      BY <2>2
    <3>2. attempts'[k][Len(attempts[k]) + 1] = req[w].result
      BY <2>2
    <3>. QED
      BY <2>1, <3>1, <3>2 DEF AttemptPassed, Passed
  <2>5. AttemptPassed(k) => AttemptPassed(k)'
    BY <2>1, <2>2, FoundedForGood DEF Next, Exists
  <2>. QED
    BY <2>1, <2>3, <2>4, <2>5 DEF Held, AttemptPassed
<1>5. ASSUME ~(\E k \in Keys, v \in ClientVerdicts, t \in SUBSET Tasks : StartSave(w, k, v, t)),
             ~LoadBest(w), ~CheckLimit(w), ~InsertSubmission(w)
      PROVE  FALSE
  BY <1>5 DEF Step, StartValidate, LoadCount, SaveValidated, SaveRefused, PutWorkspace, Abandon,
              Save, SaveWorkspace, Answer, Go, TypeOK
<1>. QED
  BY <1>1, <1>2, <1>3, <1>4, <1>5

LEMMA OverviewKept ==
  ASSUME TypeOK, TypeOK', RefusalInv, DeletedForGood, DeletedForGood', VerdictInv, Written
  PROVE  OverviewFounded'
<1>. SUFFICES ASSUME NEW s \in Students, NEW l \in Labs, l \in OverviewValidated(s)'
     PROVE  AttemptPassed(<<s, l>>)' \/ UsedUp(<<s, l>>)' \/ <<s, l>> \in claimed'
  BY DEF OverviewFounded, OverviewValidated, AttemptPassed, UsedUp
<1>. DEFINE k == <<s, l>>
<1>0. [Next]_vars /\ claimed \subseteq claimed'
  BY ClaimedForGood
<1>1. k \in Keys /\ k[1] = s /\ workspace'[k] # NoRow /\ Passed(workspace'[k].verdict)
  BY DEF OverviewValidated, Keys
<1>2. s \in students' /\ s \in students
  BY <1>0, <1>1, AttemptsExtend DEF DeletedForGood, Exists
<1>3. CASE workspace'[k] = workspace[k]
  <2>1. AttemptPassed(k) \/ UsedUp(k) \/ k \in claimed
    BY <1>1, <1>3 DEF VerdictInv, OverviewFounded, OverviewValidated, AttemptPassed, UsedUp
  <2>. QED
    BY <1>0, <1>1, <1>2, <2>1, FoundedForGood
<1>4. CASE workspace'[k] # workspace[k]
  <2>1. PICK w \in Workers : Step(w)
    BY <1>0, <1>1, <1>2, <1>4 DEF Next, vars, DeleteStudent
  <2>2. /\ SaveWorkspace(req[w].key, req[w].keep, req[w].tasks)
        /\ pc[w] \in {"save", "refused", "put"}
    BY <1>4, <2>1 DEF Step, StartValidate, StartSave, LoadCount, LoadBest, CheckLimit,
          InsertSubmission, SaveValidated, SaveRefused, PutWorkspace, Abandon, Save, tables
  <2>3. req[w] \in Requests
    BY <2>2 DEF TypeOK
  <2>4. req[w].key = k /\ workspace'[k].verdict = req[w].keep
    BY <1>1, <1>4, <2>2, <2>3 DEF SaveWorkspace, TypeOK
  <2>5. AttemptPassed(k) \/ UsedUp(k) \/ k \in claimed
    BY <1>1, <1>2, <2>2, <2>4 DEF VerdictInv, Held, RefusalInv, RefusalFounded, UsedUp, Exists
  <2>. QED
    BY <1>0, <1>1, <1>2, <2>5, FoundedForGood
<1>. QED
  BY <1>3, <1>4

LEMMA VerdictStep ==
  /\ TypeOK /\ TypeOK' /\ RefusalInv /\ DeletedForGood /\ DeletedForGood'
  /\ VerdictInv /\ Written
  => VerdictInv'
<1>. SUFFICES ASSUME TypeOK, TypeOK', RefusalInv, DeletedForGood, DeletedForGood',
                     VerdictInv, Written
     PROVE  VerdictInv'
  OBVIOUS
<1>1. OverviewFounded'
  BY OverviewKept
<1>2. ASSUME NEW w \in Workers, pc'[w] = pc[w], req'[w] = req[w]
      PROVE  Held(w)'
  BY <1>2, OtherHeld DEF Held
<1>3. ASSUME NEW u \in Workers, Step(u), Claim, NEW w \in Workers
      PROVE  Held(w)'
  <2>1. CASE UNCHANGED vars
    BY <1>2, <2>1 DEF vars
  <2>2. CASE ~UNCHANGED vars
    BY <1>2, <1>3, <2>2, OwnHeld, StepGrows
  <2>. QED
    BY <2>1, <2>2
<1>4. ASSUME (\E s \in Students : DeleteStudent(s)) \/ UNCHANGED vars
      PROVE  UNCHANGED <<pc, req>>
  BY <1>4 DEF DeleteStudent, vars
<1>. QED
  BY <1>1, <1>2, <1>3, <1>4 DEF Next, VerdictInv, Written

(* A laboratory that the list of the instructor (LoadAdminOverview) counts *)
(* as validated has an attempt that passed, or the limit is used up, or a  *)
(* draft brought in a validation that had no foundation                    *)
(* (handleWorkspaceSave takes any): although the list reads the            *)
(* workspaces, which refused attempts and drafts overwrite.                *)
THEOREM OverviewsFounded == ViewsSpec => []OverviewFounded
<1>1. ViewsInit => VerdictInv
  BY DEF ViewsInit, Init, VerdictInv, OverviewFounded, OverviewValidated, Held, Keys
<1>2. /\ TypeOK /\ TypeOK' /\ RefusalInv /\ DeletedForGood /\ DeletedForGood'
      /\ VerdictInv /\ [ViewsNext]_ViewsVars
      => VerdictInv'
  BY ViewsWritten, VerdictStep
<1>3. VerdictInv => OverviewFounded
  BY DEF VerdictInv
<1>. QED
  BY <1>1, <1>2, <1>3, ReadersOnlyRead, TypeCorrect, RefusalsFounded, StoredWhole, PTL
     DEF ViewsSpec

(***************************************************************************)
(* The dashboard of the student                                            *)
(***************************************************************************)

(* The laboratories listed whose attempts have been counted, and those     *)
(* whose best attempt has been read too.                                   *)
Counted(v, l) ==
  /\ v.phase \notin {"rows", "tasks"}
  /\ l \in Listed(v)
  /\ l \notin v.todo \/ (v.phase = "best" /\ l = v.lab)

Bested(v, l) == v.phase \notin {"rows", "tasks"} /\ l \in Listed(v) \ v.todo

(* What a dashboard has read, next to the attempts as they are now: each   *)
(* number is that of a moment since it began, and attempts are only added. *)
ReadFrom(v, rows) ==
  /\ \A l \in Labs :
       /\ v.since[l] <= Len(rows[l])
       /\ v.count[l] <= Len(rows[l])
       /\ Counted(v, l) => v.since[l] <= v.count[l]
       /\ Bested(v, l) =>
            \A i \in 1 .. v.count[l] : v.best[l] \in Results /\ ~Better(rows[l][i], v.best[l])
  /\ v.phase = "best" => v.lab \in v.todo
  /\ v.phase \in {"total", "shown"} => v.todo = {}
  /\ v.phase = "shown" => SumOfCounts(v) <= v.total

AttemptsOf(s) == [l \in Labs |-> attempts[s, l]]

ReadersInv ==
  \A r \in Readers :
    view[r] # NoView =>
      /\ view[r] \in Views
      /\ view[r].student \in students => ReadFrom(view[r], AttemptsOf(view[r].student))

ViewsInv == ViewsTyped /\ ReadersInv

LEMMA RowsTyped ==
  ASSUME TypeOK, NEW s \in Students
  PROVE  AttemptsOf(s) \in [Labs -> Seq(Results)]
  BY AttemptsCounted DEF AttemptsOf

LEMMA RowsCounted ==
  ASSUME NEW rows \in [Labs -> Seq(Results)], NEW l \in Labs
  PROVE  Len(rows[l]) \in Nat
<1>1. rows[l] \in Seq(Results)
  OBVIOUS
<1>. QED
  BY <1>1

LEMMA ReadStays ==
  ASSUME NEW v \in Views, NEW rows \in [Labs -> Seq(Results)],
         NEW more \in [Labs -> Seq(Results)],
         \A l \in Labs : Extends(more[l], rows[l]),
         ReadFrom(v, rows)
  PROVE  ReadFrom(v, more)
<1>1. ASSUME NEW l \in Labs
      PROVE  /\ v.since[l] <= Len(more[l])
             /\ v.count[l] <= Len(more[l])
             /\ \A i \in 1 .. v.count[l] : more[l][i] = rows[l][i]
  <2>1. v.since[l] \in Nat /\ v.count[l] \in Nat
    BY DEF Views
  <2>2. Len(rows[l]) \in Nat /\ Len(more[l]) \in Nat
    BY RowsCounted
  <2>3. Len(more[l]) >= Len(rows[l]) /\ v.since[l] <= Len(rows[l]) /\ v.count[l] <= Len(rows[l])
    BY DEF Extends, ReadFrom
  <2>4. v.since[l] <= Len(more[l]) /\ v.count[l] <= Len(more[l])
    BY <2>1, <2>2, <2>3
  <2>5. \A i \in 1 .. v.count[l] : i \in 1 .. Len(rows[l])
    BY <2>1, <2>2, <2>3
  <2>. QED
    BY <2>4, <2>5 DEF Extends
<1>. QED
  BY <1>1 DEF ReadFrom

(* A step of a request changes no view, and only adds attempts.            *)
LEMMA WritersKeepReaders ==
  ASSUME TypeOK, TypeOK', ViewsInv, [Next]_vars, UNCHANGED view
  PROVE  ViewsInv'
<1>1. ASSUME NEW s \in students'
      PROVE  /\ s \in students
             /\ \A l \in Labs : Extends(AttemptsOf(s)'[l], AttemptsOf(s)[l])
             /\ AttemptsOf(s) \in [Labs -> Seq(Results)]
             /\ AttemptsOf(s)' \in [Labs -> Seq(Results)]
  <2>1. s \in students /\ s \in Students
    BY AttemptsExtend DEF TypeOK
  <2>2. ASSUME NEW l \in Labs
        PROVE  Extends(attempts'[<<s, l>>], attempts[<<s, l>>])
    <3>. DEFINE k == <<s, l>>
    <3>1. k \in Keys /\ k[1] \in students'
      BY <2>1 DEF Keys
    <3>. HIDE DEF k
    <3>2. Extends(attempts'[k], attempts[k])
      BY <3>1, AttemptsExtend
    <3>. QED
      BY <3>2 DEF k
  <2>3. \A l \in Labs : /\ AttemptsOf(s)'[l] = attempts'[<<s, l>>]
                        /\ AttemptsOf(s)[l] = attempts[<<s, l>>]
    BY DEF AttemptsOf
  <2>4. /\ AttemptsOf(s) \in [Labs -> Seq(Results)]
        /\ AttemptsOf(s)' \in [Labs -> Seq(Results)]
    <3>1. \A l \in Labs : <<s, l>> \in Keys
      BY <2>1 DEF Keys
    <3>. QED
      BY <3>1 DEF AttemptsOf, TypeOK
  <2>. QED
    BY <2>1, <2>2, <2>3, <2>4
<1>2. ASSUME NEW r \in Readers, view[r] # NoView, view[r].student \in students'
      PROVE  ReadFrom(view[r], AttemptsOf(view[r].student)')
  BY <1>1, <1>2, ReadStays DEF ViewsInv, ReadersInv
<1>. QED
  BY <1>2 DEF ViewsInv, ViewsTyped, ReadersInv

(* The steps of a reader, each as what it makes of the dashboard v while   *)
(* the attempts of its student are rows.                                   *)
LEMMA OpenReads ==
  ASSUME NEW s \in Students, NEW rows \in [Labs -> Seq(Results)],
         NEW since \in [Labs -> Nat], \A l \in Labs : since[l] = Len(rows[l]),
         NEW v, v = [phase |-> "rows", student |-> s,
           rows |-> [l \in Labs |-> NoRow], tasks |-> [l \in Labs |-> {}],
           todo |-> {}, lab |-> CHOOSE l \in Labs : TRUE,
           count |-> [l \in Labs |-> 0], best |-> [l \in Labs |-> NoResult],
           total |-> 0, since |-> since]
  PROVE  v \in Views /\ ReadFrom(v, rows)
<1>1. (CHOOSE l \in Labs : TRUE) \in Labs
  BY ViewsAssumption
<1>2. v \in Views
  BY <1>1 DEF Views, Verdicts
<1>3. ASSUME NEW l \in Labs
      PROVE  v.since[l] <= Len(rows[l]) /\ v.count[l] <= Len(rows[l])
  BY RowsCounted
<1>4. v.phase = "rows"
  OBVIOUS
<1>. QED
  BY <1>2, <1>3, <1>4 DEF ReadFrom, Counted, Bested

(* The queries on workspaces and on tasks. *)
LEMMA ListReads ==
  ASSUME NEW v \in Views, NEW rows \in [Labs -> Seq(Results)], ReadFrom(v, rows),
         NEW found \in [Labs -> SUBSET Tasks], v.phase = "tasks",
         NEW w \in Views,
         w = [v EXCEPT !.tasks = found,
                       !.todo = Listed([v EXCEPT !.tasks = found]),
                       !.phase = IF Listed([v EXCEPT !.tasks = found]) = {}
                                 THEN "total" ELSE "count"]
  PROVE  ReadFrom(w, rows)
<1>1. /\ w.since = v.since /\ w.count = v.count /\ w.rows = v.rows /\ w.tasks = found
      /\ w.phase \in {"total", "count"}
      /\ w.phase = "total" => w.todo = {}
      /\ w.todo = Listed(w)
  BY DEF Views, Listed
<1>. QED
  BY <1>1 DEF ReadFrom, Counted, Bested

LEMMA CountReads ==
  ASSUME NEW v \in Views, NEW rows \in [Labs -> Seq(Results)], ReadFrom(v, rows),
         v.phase = "count", NEW l \in v.todo, NEW w \in Views,
         w = [v EXCEPT !.lab = l, !.count[l] = Len(rows[l]), !.phase = "best"]
  PROVE  ReadFrom(w, rows)
<1>1. /\ w.since = v.since /\ w.rows = v.rows /\ w.tasks = v.tasks /\ w.todo = v.todo
      /\ w.best = v.best
      /\ w.phase = "best" /\ w.lab = l /\ l \in Labs
      /\ w.count = [v.count EXCEPT ![l] = Len(rows[l])]
  BY DEF Views
<1>2. w.count[l] = Len(rows[l]) /\ \A k \in Labs \ {l} : w.count[k] = v.count[k]
  BY <1>1 DEF Views
<1>3. ASSUME NEW k \in Labs \ {l}
      PROVE  (Counted(w, k) => Counted(v, k)) /\ (Bested(w, k) => Bested(v, k))
  BY <1>1 DEF Counted, Bested, Listed
<1>4. ~Bested(w, l)
  BY <1>1 DEF Bested
<1>5. Len(rows[l]) \in Nat
  BY <1>1, RowsCounted
<1>6. ASSUME NEW k \in Labs \ {l}
      PROVE  /\ w.since[k] <= Len(rows[k]) /\ w.count[k] <= Len(rows[k])
             /\ Counted(w, k) => w.since[k] <= w.count[k]
             /\ Bested(w, k) =>
                  \A i \in 1 .. w.count[k] :
                    w.best[k] \in Results /\ ~Better(rows[k][i], w.best[k])
  BY <1>1, <1>2, <1>3 DEF ReadFrom
<1>7. w.since[l] <= Len(rows[l]) /\ w.count[l] <= Len(rows[l]) /\ w.since[l] <= w.count[l]
  BY <1>1, <1>2, <1>5 DEF ReadFrom
<1>. QED
  BY <1>1, <1>4, <1>6, <1>7 DEF ReadFrom

LEMMA BestReads ==
  ASSUME NEW v \in Views, NEW rows \in [Labs -> Seq(Results)], ReadFrom(v, rows),
         v.phase = "best", NEW b \in Best(rows[v.lab]), NEW w \in Views,
         w = [v EXCEPT !.best[v.lab] = b, !.todo = @ \ {v.lab},
                       !.phase = IF v.todo = {v.lab} THEN "total" ELSE "count"]
  PROVE  ReadFrom(w, rows)
<1>. DEFINE l == v.lab
<1>1. /\ w.since = v.since /\ w.rows = v.rows /\ w.tasks = v.tasks /\ w.count = v.count
      /\ w.todo = v.todo \ {l} /\ l \in Labs /\ l \in v.todo
      /\ w.phase \in {"total", "count"} /\ (w.phase = "total" => w.todo = {})
      /\ w.best = [v.best EXCEPT ![l] = b]
  BY DEF Views, ReadFrom
<1>2. w.best[l] = b /\ \A k \in Labs \ {l} : w.best[k] = v.best[k]
  BY <1>1 DEF Views
<1>3. ASSUME NEW k \in Labs \ {l}
      PROVE  (Counted(w, k) => Counted(v, k)) /\ (Bested(w, k) => Bested(v, k))
  BY <1>1 DEF Counted, Bested, Listed
<1>4. Counted(w, l) => Counted(v, l)
  BY <1>1 DEF Counted, Listed
<1>5. ASSUME NEW i \in 1 .. v.count[l]
      PROVE  b \in Results /\ ~Better(rows[l][i], b)
  <2>1. rows[l] \in Seq(Results) /\ Len(rows[l]) \in Nat /\ v.count[l] \in Nat
    BY <1>1, RowsCounted DEF Views
  <2>2. i \in DOMAIN rows[l]
    BY <1>1, <2>1 DEF ReadFrom
  <2>. QED
    BY <2>1, <2>2 DEF Best
<1>. HIDE DEF l
<1>6. ASSUME NEW k \in Labs \ {l}
      PROVE  /\ w.since[k] <= Len(rows[k]) /\ w.count[k] <= Len(rows[k])
             /\ Counted(w, k) => w.since[k] <= w.count[k]
             /\ Bested(w, k) =>
                  \A i \in 1 .. w.count[k] :
                    w.best[k] \in Results /\ ~Better(rows[k][i], w.best[k])
  BY <1>1, <1>2, <1>3 DEF ReadFrom
<1>7. /\ w.since[l] <= Len(rows[l]) /\ w.count[l] <= Len(rows[l])
      /\ Counted(w, l) => w.since[l] <= w.count[l]
  BY <1>1, <1>4 DEF ReadFrom
<1>8. \A i \in 1 .. w.count[l] : w.best[l] \in Results /\ ~Better(rows[l][i], w.best[l])
  BY <1>1, <1>2, <1>5
<1>. QED
  BY <1>1, <1>6, <1>7, <1>8 DEF ReadFrom

LEMMA RowsRead ==
  ASSUME NEW v \in Views, NEW rows \in [Labs -> Seq(Results)], ReadFrom(v, rows),
         v.phase = "rows", NEW found \in [Labs -> Rows \cup {NoRow}],
         NEW w, w = [v EXCEPT !.rows = found, !.phase = "tasks"]
  PROVE  w \in Views /\ ReadFrom(w, rows)
<1>1. w \in Views
  BY DEF Views
<1>2. w.since = v.since /\ w.count = v.count /\ w.phase = "tasks"
  BY DEF Views
<1>. QED
  BY <1>1, <1>2 DEF ReadFrom, Counted, Bested

LEMMA TotalReads ==
  ASSUME TypeOK, NEW v \in Views, v.phase = "total",
         ReadFrom(v, AttemptsOf(v.student)),
         NEW w, w = [v EXCEPT !.total = AllAttempts(v.student), !.phase = "shown"]
  PROVE  w \in Views /\ ReadFrom(w, AttemptsOf(v.student))
<1>. DEFINE s == v.student
<1>1. s \in Students
  BY DEF Views
<1>2. \A l \in Labs : v.count[l] <= Len(attempts[s, l])
  BY DEF ReadFrom, AttemptsOf
<1>3. AllAttempts(s) \in Nat
  BY <1>1, <1>2, TotalCovers
<1>4. /\ w.since = v.since /\ w.count = v.count /\ w.rows = v.rows /\ w.tasks = v.tasks
      /\ w.todo = v.todo /\ w.lab = v.lab /\ w.best = v.best
      /\ w.phase = "shown" /\ w.total = AllAttempts(s)
  BY DEF Views
<1>5. w \in Views
  BY <1>3 DEF Views
<1>6. SumOfCounts(w) <= w.total
  BY <1>1, <1>2, <1>4, <1>5, TotalCovers
<1>7. ASSUME NEW l \in Labs
      PROVE  (Counted(w, l) => Counted(v, l)) /\ (Bested(w, l) => Bested(v, l))
  BY <1>4 DEF Counted, Bested, Listed
<1>. QED
  BY <1>4, <1>5, <1>6, <1>7 DEF ReadFrom

(* A reader disturbs no other.                                             *)
LEMMA ReaderMoves ==
  ASSUME ViewsInv, UNCHANGED vars, NEW r \in Readers, NEW w \in Views \cup {NoView},
         w # NoView => w \in Views
                       /\ (w.student \in students => ReadFrom(w, AttemptsOf(w.student))),
         view' = [view EXCEPT ![r] = w]
  PROVE  ViewsInv'
<1>1. ViewsTyped'
  BY DEF ViewsInv, ViewsTyped
<1>2. students' = students /\ \A s : AttemptsOf(s)' = AttemptsOf(s)
  BY DEF vars, AttemptsOf
<1>3. view'[r] = w /\ \A q \in Readers \ {r} : view'[q] = view[q]
  BY DEF ViewsInv, ViewsTyped
<1>. QED
  BY <1>1, <1>2, <1>3 DEF ViewsInv, ReadersInv

LEMMA ReaderStep ==
  ASSUME TypeOK, ViewsInv, NEW r \in Readers, Read(r), UNCHANGED vars
  PROVE  ViewsInv'
<1>. DEFINE v == view[r]
            s == v.student
            rows == AttemptsOf(s)
<1>0. v # NoView => /\ v \in Views /\ s \in Students
                    /\ rows \in [Labs -> Seq(Results)]
                    /\ s \in students => ReadFrom(v, rows)
  <2>1. v # NoView => v \in Views /\ (s \in students => ReadFrom(v, rows))
    BY DEF ViewsInv, ReadersInv
  <2>2. v \in Views => s \in Students
    BY DEF Views
  <2>. HIDE DEF v
  <2>. QED
    BY <2>1, <2>2, RowsTyped
<1>1. ASSUME NEW t \in Students, OpenDashboard(r, t)
      PROVE  ViewsInv'
  <2>. DEFINE w == [phase |-> "rows", student |-> t,
                    rows |-> [l \in Labs |-> NoRow], tasks |-> [l \in Labs |-> {}],
                    todo |-> {}, lab |-> CHOOSE l \in Labs : TRUE,
                    count |-> [l \in Labs |-> 0], best |-> [l \in Labs |-> NoResult],
                    total |-> 0,
                    since |-> [l \in Labs |-> Len(attempts[t, l])]]
  <2>1. w \in Views /\ ReadFrom(w, AttemptsOf(t))
    <3>1. [l \in Labs |-> Len(attempts[t, l])] \in [Labs -> Nat]
      BY AttemptsCounted
    <3>2. \A l \in Labs : Len(attempts[t, l]) = Len(AttemptsOf(t)[l])
      BY DEF AttemptsOf
    <3>3. AttemptsOf(t) \in [Labs -> Seq(Results)]
      BY RowsTyped
    <3>. QED
      BY <3>1, <3>2, <3>3, OpenReads
  <2>2. view' = [view EXCEPT ![r] = w]
    BY <1>1 DEF OpenDashboard
  <2>3. w.student = t
    OBVIOUS
  <2>. HIDE DEF w
  <2>. QED
    BY <2>1, <2>2, <2>3, ReaderMoves
<1>. HIDE DEF rows
<1>2. ASSUME ReadRows(r)
      PROVE  ViewsInv'
  <2>. DEFINE found == [l \in Labs |-> workspace[s, l]]
              w == [v EXCEPT !.rows = found, !.phase = "tasks"]
  <2>1. v # NoView /\ v.phase = "rows"
    BY <1>2 DEF ReadRows, InPhase
  <2>2. found \in [Labs -> Rows \cup {NoRow}]
    <3>1. \A l \in Labs : <<s, l>> \in Keys
      BY <1>0, <2>1 DEF Keys
    <3>. QED
      BY <3>1 DEF TypeOK
  <2>3. view' = [view EXCEPT ![r] = w]
    BY <1>2 DEF ReadRows, ViewsInv, ViewsTyped
  <2>4. w \in Views /\ w.student = s
    BY <1>0, <2>1, <2>2 DEF Views
  <2>5. s \in students => ReadFrom(w, rows)
    <3>. HIDE DEF found
    <3>. QED
      BY <1>0, <2>1, <2>2, RowsRead
  <2>. HIDE DEF w
  <2>. QED
    BY <2>3, <2>4, <2>5, ReaderMoves DEF rows
<1>3. ASSUME ReadTasks(r)
      PROVE  ViewsInv'
  <2>. DEFINE found == [l \in Labs |-> progress[s, l]]
              listed == Listed([v EXCEPT !.tasks = found])
              w == [v EXCEPT !.tasks = found, !.todo = listed,
                             !.phase = IF listed = {} THEN "total" ELSE "count"]
  <2>1. v # NoView /\ v.phase = "tasks"
    BY <1>3 DEF ReadTasks, InPhase
  <2>2. found \in [Labs -> SUBSET Tasks]
    <3>1. \A l \in Labs : <<s, l>> \in Keys
      BY <1>0, <2>1 DEF Keys
    <3>. QED
      BY <3>1 DEF TypeOK
  <2>3. view' = [view EXCEPT ![r] = w]
    BY <1>3 DEF ReadTasks, ViewsInv, ViewsTyped
  <2>. HIDE DEF found
  <2>4. listed \subseteq Labs
    BY DEF Listed
  <2>5. w \in Views /\ w.student = s
    <3>. HIDE DEF listed
    <3>. QED
      BY <1>0, <2>1, <2>2, <2>4 DEF Views
  <2>6. s \in students => ReadFrom(w, rows)
    BY <1>0, <2>1, <2>2, <2>5, ListReads
  <2>. HIDE DEF w
  <2>. QED
    BY <2>3, <2>5, <2>6, ReaderMoves DEF rows
<1>4. ASSUME NEW l \in Labs, ReadCount(r, l)
      PROVE  ViewsInv'
  <2>. DEFINE w == [v EXCEPT !.lab = l, !.count[l] = Len(rows[l]), !.phase = "best"]
  <2>1. v # NoView /\ v.phase = "count" /\ l \in v.todo
    BY <1>4 DEF ReadCount, InPhase
  <2>2. view' = [view EXCEPT ![r] = w]
    BY <1>4 DEF ReadCount, ViewsInv, ViewsTyped, rows, AttemptsOf
  <2>3. Len(rows[l]) \in Nat
    BY <1>0, <2>1, RowsCounted
  <2>4. w \in Views /\ w.student = s
    BY <1>0, <2>1, <2>3 DEF Views
  <2>5. s \in students => ReadFrom(w, rows)
    BY <1>0, <2>1, <2>4, CountReads
  <2>. HIDE DEF w
  <2>. QED
    BY <2>2, <2>4, <2>5, ReaderMoves DEF rows
<1>5. ASSUME ReadBest(r)
      PROVE  ViewsInv'
  <2>. DEFINE l == v.lab
  <2>1. v # NoView /\ v.phase = "best"
    BY <1>5 DEF ReadBest, InPhase
  <2>2. l \in Labs
    BY <1>0, <2>1 DEF Views
  <2>3. PICK b \in Best(rows[l]) :
          view' = [view EXCEPT ![r].best[l] = b,
                               ![r].todo = @ \ {l},
                               ![r].phase = IF v.todo = {l} THEN "total" ELSE "count"]
    BY <1>5, <2>2 DEF ReadBest, rows, AttemptsOf
  <2>. DEFINE w == [v EXCEPT !.best[l] = b, !.todo = @ \ {l},
                             !.phase = IF v.todo = {l} THEN "total" ELSE "count"]
  <2>4. view' = [view EXCEPT ![r] = w]
    BY <2>3 DEF ViewsInv, ViewsTyped
  <2>5. b \in Verdicts
    <3>1. rows[l] \in Seq(Results)
      BY <1>0, <2>1, <2>2
    <3>. QED
      BY <2>3, <3>1 DEF Best, Verdicts
  <2>6. w \in Views /\ w.student = s
    BY <1>0, <2>1, <2>2, <2>5 DEF Views
  <2>7. s \in students => ReadFrom(w, rows)
    BY <1>0, <2>1, <2>3, <2>6, BestReads
  <2>. HIDE DEF w
  <2>. QED
    BY <2>4, <2>6, <2>7, ReaderMoves DEF rows
<1>6. ASSUME ReadTotal(r)
      PROVE  ViewsInv'
  <2>. DEFINE w == [v EXCEPT !.total = AllAttempts(s), !.phase = "shown"]
  <2>1. v # NoView /\ v.phase = "total"
    BY <1>6 DEF ReadTotal, InPhase
  <2>2. view' = [view EXCEPT ![r] = w]
    BY <1>6 DEF ReadTotal, AllAttempts, ViewsInv, ViewsTyped
  <2>3. w.student = s
    BY <1>0, <2>1 DEF Views
  <2>4. s \in students => ReadFrom(v, rows)
    BY <1>0, <2>1
  <2>5. s \in students => w \in Views /\ ReadFrom(w, rows)
    <3>. HIDE DEF v
    <3>. QED
      BY <1>0, <2>1, <2>4, TotalReads DEF rows
  <2>6. w \in Views
    <3>1. AllAttempts(s) \in Nat
      BY <1>0, <2>1, AllCounted
    <3>. QED
      BY <1>0, <2>1, <3>1 DEF Views
  <2>. HIDE DEF w
  <2>. QED
    BY <2>2, <2>3, <2>5, <2>6, ReaderMoves DEF rows
<1>7. ASSUME CloseDashboard(r)
      PROVE  ViewsInv'
  BY <1>7, ReaderMoves DEF CloseDashboard
<1>. QED
  BY <1>1, <1>2, <1>3, <1>4, <1>5, <1>6, <1>7 DEF Read

LEMMA ViewsStep ==
  ASSUME TypeOK, TypeOK', ViewsInv, [ViewsNext]_ViewsVars
  PROVE  ViewsInv'
<1>1. CASE Next /\ Claim /\ UNCHANGED view
  BY <1>1, WritersKeepReaders
<1>2. CASE (\E r \in Readers : Read(r)) /\ UNCHANGED <<vars, claimed>>
  BY <1>2, ReaderStep
<1>3. CASE UNCHANGED ViewsVars
  BY <1>3, WritersKeepReaders DEF ViewsVars
<1>. QED
  BY <1>1, <1>2, <1>3 DEF ViewsNext

LEMMA ViewsKept == ViewsSpec => [](TypeOK /\ ViewsInv)
<1>1. ViewsInit => ViewsInv
  BY DEF ViewsInit, ViewsInv, ViewsTyped, ReadersInv
<1>. QED
  BY <1>1, ReadersOnlyRead, TypeCorrect, ViewsStep, PTL DEF ViewsSpec

(* A passing result is only beaten by another.                             *)
LEMMA PassedBeaten ==
  ASSUME NEW a \in Results, NEW b \in Results, a.allPassed, ~Better(a, b)
  PROVE  b.allPassed
<1>1. a.score \in Nat /\ b.score \in Nat /\ b.score <= a.score
  BY ResultsTyped, ViewsAssumption
<1>. QED
  BY <1>1 DEF Better

(* However the queries of a dashboard (LoadDashboard) interleave with the  *)
(* requests that write, every laboratory it lists is shown with all the    *)
(* attempts that were on record when it began, and with a result no worse  *)
(* than any of them.                                                       *)
THEOREM DashboardsFresh == ViewsSpec => []DashboardFresh
<1>1. TypeOK /\ ViewsInv => DashboardFresh
  <2>. SUFFICES ASSUME TypeOK, ViewsInv, NEW r \in Readers, Shown(r),
                       NEW v, v = view[r], NEW l \in Listed(v)
       PROVE  /\ v.since[l] <= v.count[l] /\ v.count[l] <= Len(attempts[v.student, l])
              /\ \A i \in 1 .. v.count[l] :
                   /\ v.best[l] # NoResult
                   /\ ~Better(attempts[v.student, l][i], v.best[l])
                   /\ Passed(attempts[v.student, l][i]) => l \in DashboardValidated(v)
    BY DEF DashboardFresh
  <2>. DEFINE rows == AttemptsOf(v.student)
  <2>1. /\ v \in Views /\ v.phase = "shown"
        /\ ReadFrom(v, AttemptsOf(v.student))
    BY DEF Shown, InPhase, ViewsInv, ReadersInv
  <2>2. l \in Labs /\ v.student \in Students /\ v.todo = {}
    BY <2>1 DEF Listed, ReadFrom, Views
  <2>3. Counted(v, l) /\ Bested(v, l)
    BY <2>1, <2>2 DEF Counted, Bested
  <2>4. rows[l] = attempts[v.student, l]
    BY <2>2 DEF AttemptsOf
  <2>. HIDE DEF rows
  <2>5. v.since[l] <= v.count[l] /\ v.count[l] <= Len(rows[l])
    BY <2>1, <2>2, <2>3 DEF ReadFrom, rows
  <2>6. ASSUME NEW i \in 1 .. v.count[l]
        PROVE  /\ v.best[l] # NoResult
               /\ ~Better(rows[l][i], v.best[l])
               /\ Passed(rows[l][i]) => l \in DashboardValidated(v)
    <3>1. v.best[l] \in Results /\ ~Better(rows[l][i], v.best[l])
      BY <2>1, <2>2, <2>3 DEF ReadFrom, rows
    <3>2. v.best[l] # NoResult
      BY <3>1, ResultsTyped
    <3>3. rows[l][i] \in Results
      <4>1. rows \in [Labs -> Seq(Results)]
        BY <2>2, RowsTyped DEF rows
      <4>2. rows[l] \in Seq(Results) /\ Len(rows[l]) \in Nat /\ v.count[l] \in Nat
        BY <2>1, <2>2, <4>1, RowsCounted DEF Views
      <4>. QED
        BY <2>5, <4>2
    <3>4. Passed(rows[l][i]) => Passed(v.best[l])
      BY <3>1, <3>2, <3>3, PassedBeaten DEF Passed
    <3>. QED
      BY <2>2, <3>1, <3>2, <3>4 DEF DashboardValidated
  <2>. QED
    BY <2>4, <2>5, <2>6
<1>. QED
  BY <1>1, ViewsKept, PTL

(* The total of a dashboard covers the attempts it shows per laboratory,   *)
(* though LoadDashboard takes each number from a query of its own.         *)
THEOREM DashboardsAddUp == ViewsSpec => []DashboardAddsUp
<1>1. TypeOK /\ ViewsInv => DashboardAddsUp
  <2>. SUFFICES ASSUME TypeOK, ViewsInv, NEW r \in Readers, Shown(r)
       PROVE  view[r].total >= SumOfCounts(view[r])
    BY DEF DashboardAddsUp, SumOfCounts
  <2>1. /\ view[r] \in Views
        /\ view[r].student \in Students /\ view[r].total \in Nat
        /\ ReadFrom(view[r], AttemptsOf(view[r].student))
        /\ SumOfCounts(view[r]) <= view[r].total
    BY DEF Shown, InPhase, ViewsInv, ReadersInv, ReadFrom, Views
  <2>. QED
    BY <2>1
<1>. QED
  BY <1>1, ViewsKept, PTL

=============================================================================
