--------------------------- MODULE RuntimeProofs ----------------------------
(***************************************************************************)
(* Theorems of LabRuntime, for any students, laboratories and number of    *)
(* requests in flight, and whether or not calls fail.                      *)
(***************************************************************************)
EXTENDS LabRuntime, TLAPS

(***************************************************************************)
(* The state of the cluster, of the workers and of the two loops           *)
(***************************************************************************)

ClusterOK ==
  /\ ns \in [Keys -> Namespaces]
  /\ \A k \in Keys : ns[k].phase = "absent" => Bare(ns[k])
  /\ disturbed \subseteq Workers

WorkersOK ==
  /\ pc \in [Workers -> Labels]
  /\ job \in [Workers -> Jobs]
  /\ \A w \in Workers : pc[w] # "idle" => job[w] # Idle
  /\ \A w \in Workers : pc[w] \in {"stream", "reset"} => job[w].kind = "terminal"
  /\ reply \in [Workers -> {"none", "ready", "closed", "error", "timeout"}]

FreshOK == fresh \subseteq {w \in Workers : pc[w] = "update"}

LoopsOK ==
  /\ students \subseteq Students
  /\ gc \subseteq Keys
  /\ admin \in Deletions \cup {NoDeletion}

StateOK == ClusterOK /\ WorkersOK /\ FreshOK /\ LoopsOK

LEMMA StateTypes == StateOK <=> RuntimeTypeOK
  BY DEF StateOK, ClusterOK, WorkersOK, FreshOK, LoopsOK, RuntimeTypeOK

Busy(w) == pc[w] # "idle"

Served == [key : Keys, code : Codes, kind : Kinds]

LEMMA Nulls ==
  /\ Idle \notin Served
  /\ NoDeletion \notin Deletions
  BY RuntimeAssumption DEF Idle, Served, NoDeletion, Deletions

(* A request is about a namespace of a student and carries a code. *)
LEMMA KeyTyped ==
  ASSUME WorkersOK, NEW w \in Workers, Busy(w)
  PROVE  job[w] \in Served /\ Key(w) \in Keys /\ job[w].code \in Codes
  BY Nulls DEF WorkersOK, Busy, Jobs, Served, Key

LEMMA InitOK == Init => StateOK
  BY DEF Init, StateOK, ClusterOK, WorkersOK, FreshOK, LoopsOK, Namespaces, Absent, Bare, PodStates,
         Labels, Jobs

(***************************************************************************)
(* Namespaces                                                              *)
(***************************************************************************)

(* What the fields of a namespace are set to. *)
LEMMA FieldsSet ==
  ASSUME NEW n \in Namespaces
  PROVE  /\ \A p \in PodStates :
              /\ [n EXCEPT !.pod = p] \in Namespaces
              /\ [n EXCEPT !.pod = p].phase = n.phase
              /\ [n EXCEPT !.pod = p].access = n.access
              /\ n.pod = p => [n EXCEPT !.pod = p] = n
         /\ /\ [n EXCEPT !.phase = "terminating"] \in Namespaces
            /\ [n EXCEPT !.phase = "terminating"].phase = "terminating"
         /\ /\ [n EXCEPT !.access = TRUE] \in Namespaces
            /\ [n EXCEPT !.access = TRUE].phase = n.phase
            /\ [n EXCEPT !.access = TRUE].access
         /\ /\ [n EXCEPT !.old = TRUE] \in Namespaces
            /\ [n EXCEPT !.old = TRUE].phase = n.phase
            /\ [n EXCEPT !.old = TRUE].access = n.access
         /\ \A code \in Codes :
              /\ [n EXCEPT !.label = code] \in Namespaces
              /\ [n EXCEPT !.label = code].phase = n.phase
              /\ [n EXCEPT !.label = code].access = n.access
  BY DEF Namespaces

LEMMA FreshNamespace ==
  /\ Absent \in Namespaces /\ Absent.phase = "absent" /\ Bare(Absent)
  /\ \A code \in Codes : Fresh(code) \in Namespaces /\ Fresh(code).phase = "active"
  BY DEF Absent, Bare, Fresh, Namespaces, PodStates

Typed(n) == n \in Namespaces /\ (n.phase = "absent" => Bare(n))

(* A step that sets one namespace. *)
LEMMA NsSet ==
  ASSUME ClusterOK, NEW k \in Keys, NEW n, Typed(n), ns' = [ns EXCEPT ![k] = n]
  PROVE  /\ ns' \in [Keys -> Namespaces]
         /\ \A j \in Keys : ns'[j].phase = "absent" => Bare(ns'[j])
         /\ ns'[k] = n
         /\ \A j \in Keys \ {k} : ns'[j] = ns[j]
  BY DEF ClusterOK, Typed

(* The pod of a namespace changes: of one that is absent it does not.      *)
LEMMA PodSet ==
  ASSUME ClusterOK, NEW k \in Keys, NEW p \in PodStates, SetPod(k, p),
         ns[k].phase = "absent" => p = "none"
  PROVE  /\ ns' \in [Keys -> Namespaces]
         /\ \A j \in Keys : ns'[j].phase = "absent" => Bare(ns'[j])
         /\ \A j \in Keys : ns'[j].phase = ns[j].phase /\ ns'[j].access = ns[j].access
<1>. DEFINE n == [ns[k] EXCEPT !.pod = p]
<1>1. ns[k] \in Namespaces /\ (ns[k].phase = "absent" => Bare(ns[k]))
  BY DEF ClusterOK
<1>2. n \in Namespaces /\ n.phase = ns[k].phase /\ n.access = ns[k].access
  BY <1>1, FieldsSet
<1>3. ns[k].phase = "absent" => Bare(n)
  <2>1. ns[k].phase = "absent" => ns[k].pod = p /\ Bare(ns[k])
    BY <1>1 DEF Bare
  <2>. QED
    BY <1>1, <2>1, FieldsSet
<1>4. ns' = [ns EXCEPT ![k] = n]
  BY DEF SetPod
<1>. HIDE DEF n
<1>5. Typed(n)
  BY <1>1, <1>2, <1>3 DEF Typed
<1>. QED
  BY <1>2, <1>4, <1>5, NsSet DEF ClusterOK

LEMMA AfterDeleteTyped ==
  ASSUME NEW pod \in PodStates
  PROVE  /\ AfterDelete(pod) \subseteq PodStates
         /\ pod = "none" => AfterDelete(pod) = {"none"}
  BY DEF AfterDelete, PodStates

(* Purging a namespace that is active disturbs those it serves. *)
LEMMA PurgeSets ==
  ASSUME ClusterOK, NEW k \in Keys, Purge(k)
  PROVE  /\ ClusterOK'
         /\ fresh' \subseteq fresh
         /\ disturbed \subseteq disturbed'
         /\ \A j \in Keys : ns'[j] = ns[j] \/ (j = k /\ ns'[k].phase = "terminating")
         /\ ns'[k].phase # "active"
         /\ \/ UNCHANGED cluster
            \/ fresh' = fresh \ Serving(k) /\ disturbed' = disturbed \cup Serving(k)
<1>1. CASE ns[k].phase = "active"
  <2>. DEFINE n == [ns[k] EXCEPT !.phase = "terminating"]
  <2>1. Typed(n) /\ n.phase = "terminating"
    BY FieldsSet DEF ClusterOK, Typed
  <2>2. ns' = [ns EXCEPT ![k] = n]
    BY <1>1 DEF Purge
  <2>. HIDE DEF n
  <2>3. /\ ns' \in [Keys -> Namespaces]
        /\ \A j \in Keys : ns'[j].phase = "absent" => Bare(ns'[j])
        /\ ns'[k] = n
        /\ \A j \in Keys \ {k} : ns'[j] = ns[j]
    BY <2>1, <2>2, NsSet
  <2>4. fresh' = fresh \ Serving(k) /\ disturbed' = disturbed \cup Serving(k)
    BY <1>1 DEF Purge
  <2>. QED
    BY <2>1, <2>3, <2>4 DEF ClusterOK, Serving
<1>2. CASE ns[k].phase # "active"
  BY <1>2 DEF Purge, cluster, ClusterOK
<1>. QED
  BY <1>1, <1>2

(* An update writes at most the label; those that have read another label  *)
(* and wait to update are disturbed by it.                                 *)
LEMMA UpdateSets ==
  ASSUME ClusterOK, WorkersOK, FreshOK, NEW w \in Workers, UpdateNamespace(w)
  PROVE  /\ ClusterOK'
         /\ fresh' \subseteq fresh \ {w}
         /\ disturbed \subseteq disturbed'
         /\ \A j \in Keys : ns'[j].phase = ns[j].phase /\ ns'[j].access = ns[j].access
         /\ \A v \in fresh \ {w} : v \in fresh' \/ v \in disturbed'
<1>0. Key(w) \in Keys /\ job[w].code \in Codes
  BY KeyTyped DEF UpdateNamespace, Busy
<1>1. CASE w \in fresh /\ ns[Key(w)].label # job[w].code
  <2>. DEFINE n == [ns[Key(w)] EXCEPT !.label = job[w].code]
  <2>1. w \in Serving(Key(w)) /\ fresh \subseteq {v \in Workers : pc[v] = "update"}
    BY DEF Serving, Key, FreshOK
  <2>2. /\ fresh' = fresh \ Serving(Key(w))
        /\ disturbed' = disturbed \cup {v \in Serving(Key(w)) \ {w} : pc[v] = "update"}
        /\ ns' = [ns EXCEPT ![Key(w)] = n]
    BY <1>1 DEF UpdateNamespace, Relabel
  <2>3. n.phase = ns[Key(w)].phase /\ n.access = ns[Key(w)].access /\ n \in Namespaces
    BY <1>0, FieldsSet DEF ClusterOK
  <2>4. n.pod = ns[Key(w)].pod
    BY <1>0 DEF ClusterOK, Namespaces
  <2>5. Typed(n)
    BY <1>0, <2>3, <2>4 DEF ClusterOK, Typed, Bare
  <2>. HIDE DEF n
  <2>6. /\ ns' \in [Keys -> Namespaces]
        /\ \A j \in Keys : ns'[j].phase = "absent" => Bare(ns'[j])
        /\ ns'[Key(w)] = n
        /\ \A j \in Keys \ {Key(w)} : ns'[j] = ns[j]
    BY <1>0, <2>2, <2>5, NsSet
  <2>. QED
    BY <2>1, <2>2, <2>3, <2>6 DEF ClusterOK, Serving
<1>2. CASE ~(w \in fresh /\ ns[Key(w)].label # job[w].code)
  BY <1>2 DEF UpdateNamespace, Relabel, ClusterOK, cluster
<1>. QED
  BY <1>1, <1>2

(***************************************************************************)
(* Type correctness                                                        *)
(***************************************************************************)

Answers == {"none", "ready", "closed", "error", "timeout"}

LEMMA GoTyped ==
  ASSUME WorkersOK, FreshOK, NEW w \in Workers, Busy(w),
         NEW next \in Labels \ {"idle"}, Go(w, next),
         next \in {"stream", "reset"} => job[w].kind = "terminal",
         fresh' \subseteq (fresh \ {w}) \cup (IF next = "update" THEN {w} ELSE {})
  PROVE  WorkersOK' /\ FreshOK'
  BY DEF WorkersOK, FreshOK, Busy, Go

LEMMA AnswerTyped ==
  ASSUME WorkersOK, FreshOK, NEW w \in Workers, NEW a \in Answers, Answer(w, a),
         fresh' \subseteq fresh \ {w}
  PROVE  WorkersOK' /\ FreshOK'
  BY DEF WorkersOK, FreshOK, Answer, Answers, Labels, Jobs

(* The requests, up to the pod. *)
LEMMA NamespaceStepsTyped ==
  ASSUME StateOK, NEW w \in Workers,
         \/ GetNamespace(w) \/ AwaitGone(w) \/ CreateNamespace(w) \/ UpdateNamespace(w)
         \/ EnsureAccess(w)
  PROVE  StateOK'
<1>. USE DEF StateOK
<1>0. Busy(w) /\ Key(w) \in Keys /\ job[w] \in Served /\ job[w].code \in Codes
  BY KeyTyped DEF GetNamespace, AwaitGone, CreateNamespace, UpdateNamespace, EnsureAccess, Busy
<1>1. CASE GetNamespace(w)
  <2>1. ns[Key(w)].phase \in {"absent", "active", "terminating"}
    BY <1>0 DEF ClusterOK, Namespaces
  <2>2. PICK next \in {"create", "update", "gone"} :
          Go(w, next) /\ (next = "update" <=> ns[Key(w)].phase = "active")
    BY <1>1, <2>1 DEF GetNamespace
  <2>3. fresh' \subseteq (fresh \ {w}) \cup (IF next = "update" THEN {w} ELSE {})
    BY <1>1, <2>2 DEF GetNamespace, FreshOK
  <2>4. WorkersOK' /\ FreshOK'
    BY <1>0, <2>2, <2>3, GoTyped DEF Labels, Ensuring
  <2>. QED
    BY <1>1, <2>4 DEF GetNamespace, ClusterOK, LoopsOK, Rest
<1>2. CASE AwaitGone(w)
  <2>1. Go(w, "get") /\ UNCHANGED cluster /\ w \notin fresh
    BY <1>2 DEF AwaitGone, FreshOK
  <2>2. WorkersOK' /\ FreshOK'
    BY <1>0, <2>1, GoTyped DEF Labels, Ensuring, cluster
  <2>. QED
    BY <1>2, <2>1, <2>2 DEF AwaitGone, ClusterOK, LoopsOK, Rest, cluster
<1>3. CASE CreateNamespace(w)
  <2>0. w \notin fresh /\ UNCHANGED <<students, gc, fresh, disturbed>>
    BY <1>3 DEF CreateNamespace, FreshOK
  <2>1. PICK next \in {"access", "get"} : Go(w, next)
    BY <1>3 DEF CreateNamespace
  <2>2. WorkersOK' /\ FreshOK'
    BY <1>0, <2>0, <2>1, GoTyped DEF Labels, Ensuring
  <2>3. CASE NewNamespace(Key(w), job[w].code)
    <3>1. \E n : Typed(n) /\ ns' = [ns EXCEPT ![Key(w)] = n]
      BY <1>0, <2>3, FreshNamespace DEF NewNamespace, Typed
    <3>2. ClusterOK'
      BY <1>0, <2>0, <3>1, NsSet DEF ClusterOK
    <3>3. admin' \in Deletions \cup {NoDeletion}
      <4>1. admin \in Deletions =>
              [admin EXCEPT !.since = admin.since \cup {Key(w)}] \in Deletions
        BY <1>0 DEF Deletions
      <4>. QED
        BY <2>3, <4>1 DEF NewNamespace, LoopsOK
    <3>. QED
      BY <2>0, <2>2, <3>2, <3>3 DEF LoopsOK
  <2>4. CASE UNCHANGED <<ns, admin>>
    BY <2>0, <2>2, <2>4 DEF ClusterOK, LoopsOK
  <2>. QED
    BY <1>3, <2>3, <2>4 DEF CreateNamespace
<1>4. CASE UpdateNamespace(w)
  <2>1. ClusterOK' /\ fresh' \subseteq fresh \ {w}
    BY <1>4, UpdateSets
  <2>2. WorkersOK' /\ FreshOK'
    BY <1>0, <1>4, <2>1, GoTyped, AnswerTyped DEF UpdateNamespace, Labels, Ensuring, Answers
  <2>. QED
    BY <1>4, <2>1, <2>2 DEF UpdateNamespace, LoopsOK, Rest
<1>5. CASE EnsureAccess(w)
  <2>0. w \notin fresh /\ UNCHANGED <<Rest, fresh, disturbed>>
    BY <1>5 DEF EnsureAccess, FreshOK
  <2>1. WorkersOK' /\ FreshOK'
    BY <1>0, <1>5, <2>0, GoTyped, AnswerTyped DEF EnsureAccess, Labels, Ensuring, Answers
  <2>2. CASE UNCHANGED ns
    BY <2>0, <2>1, <2>2 DEF ClusterOK, LoopsOK, Rest
  <2>3. CASE ns[Key(w)].phase = "active" /\ ns' = [ns EXCEPT ![Key(w)].access = TRUE]
    <3>. DEFINE n == [ns[Key(w)] EXCEPT !.access = TRUE]
    <3>1. Typed(n) /\ ns' = [ns EXCEPT ![Key(w)] = n]
      BY <1>0, <2>3, FieldsSet DEF ClusterOK, Typed
    <3>. HIDE DEF n
    <3>2. ClusterOK'
      BY <1>0, <2>0, <3>1, NsSet DEF ClusterOK
    <3>. QED
      BY <2>0, <2>1, <3>2 DEF LoopsOK, Rest
  <2>. QED
    BY <1>5, <2>2, <2>3 DEF EnsureAccess
<1>. QED
  BY <1>1, <1>2, <1>3, <1>4, <1>5

(* The requests, from the pod on. *)
LEMMA PodStepsTyped ==
  ASSUME StateOK, NEW w \in Workers,
         \/ GetPod(w) \/ DeletePod(w) \/ CreatePod(w) \/ SeeReady(w) \/ TimeOut(w)
         \/ ResetLab(w) \/ Cancel(w) \/ TerminalFails(w) \/ CloseTerminal(w)
  PROVE  StateOK'
<1>. USE DEF StateOK
<1>0. Busy(w) /\ Key(w) \in Keys /\ job[w] \in Served /\ job[w].code \in Codes
  BY KeyTyped DEF GetPod, DeletePod, CreatePod, SeeReady, TimeOut, ResetLab, Cancel,
                  TerminalFails, CloseTerminal, Busy, Ensuring
<1>1. CASE GetPod(w)
  <2>1. ns[Key(w)].pod \in PodStates
    BY <1>0 DEF ClusterOK, Namespaces
  <2>2. PICK next \in {"make", "ready", "delete"} : Go(w, next)
    BY <1>1, <2>1 DEF GetPod, PodStates
  <2>3. UNCHANGED <<Rest, cluster>> /\ w \notin fresh
    BY <1>1 DEF GetPod, FreshOK
  <2>4. WorkersOK' /\ FreshOK'
    BY <1>0, <2>2, <2>3, GoTyped DEF Labels, Ensuring, cluster
  <2>. QED
    BY <2>3, <2>4 DEF ClusterOK, LoopsOK, Rest, cluster
<1>2. CASE DeletePod(w)
  <2>0. UNCHANGED <<Rest, fresh, disturbed>> /\ w \notin fresh
    BY <1>2 DEF DeletePod, FreshOK
  <2>1. WorkersOK' /\ FreshOK'
    BY <1>0, <1>2, <2>0, GoTyped DEF DeletePod, Labels, Ensuring
  <2>2. PICK p \in AfterDelete(ns[Key(w)].pod) : SetPod(Key(w), p)
    BY <1>2 DEF DeletePod, SetPod
  <2>3. p \in PodStates /\ (ns[Key(w)].phase = "absent" => p = "none")
    BY <1>0, <2>2, AfterDeleteTyped, FreshNamespace DEF ClusterOK, Namespaces, Bare
  <2>4. ClusterOK'
    BY <1>0, <2>0, <2>2, <2>3, PodSet DEF ClusterOK
  <2>. QED
    BY <2>0, <2>1, <2>4 DEF LoopsOK, Rest
<1>3. CASE CreatePod(w)
  <2>0. UNCHANGED <<Rest, fresh, disturbed>> /\ w \notin fresh
    BY <1>3 DEF CreatePod, FreshOK
  <2>1. WorkersOK' /\ FreshOK'
    BY <1>0, <1>3, <2>0, GoTyped, AnswerTyped DEF CreatePod, Labels, Ensuring, Answers
  <2>2. CASE UNCHANGED ns
    BY <2>0, <2>1, <2>2 DEF ClusterOK, LoopsOK, Rest
  <2>3. CASE ns' # ns
    <3>. DEFINE p == IF ns[Key(w)].pod = "none" THEN "pending" ELSE ns[Key(w)].pod
    <3>1. ns[Key(w)].phase = "active" /\ SetPod(Key(w), p)
      BY <1>3, <2>3 DEF CreatePod, SetPod
    <3>2. p \in PodStates
      BY <1>0 DEF ClusterOK, Namespaces, PodStates
    <3>. HIDE DEF p
    <3>3. ClusterOK'
      BY <1>0, <2>0, <3>1, <3>2, PodSet DEF ClusterOK
    <3>. QED
      BY <2>0, <2>1, <3>3 DEF LoopsOK, Rest
  <2>. QED
    BY <2>2, <2>3
<1>4. CASE SeeReady(w) \/ TimeOut(w) \/ TerminalFails(w) \/ CloseTerminal(w)
  <2>0. UNCHANGED <<Rest, cluster>> /\ w \notin fresh
    BY <1>4 DEF SeeReady, TimeOut, TerminalFails, CloseTerminal, FreshOK
  <2>1. \/ \E a \in Answers : Answer(w, a)
        \/ \E next \in {"stream", "reset"} : Go(w, next) /\ job[w].kind = "terminal"
    BY <1>0, <1>4, RuntimeAssumption
       DEF SeeReady, TimeOut, TerminalFails, CloseTerminal, Answers, Served, WorkersOK
  <2>2. WorkersOK' /\ FreshOK'
    BY <1>0, <2>0, <2>1, GoTyped, AnswerTyped DEF Labels, cluster
  <2>. QED
    BY <2>0, <2>2 DEF ClusterOK, LoopsOK, Rest, cluster
<1>5. CASE ResetLab(w)
  <2>1. ClusterOK' /\ fresh' \subseteq fresh /\ w \notin fresh
    BY <1>0, <1>5, PurgeSets DEF ResetLab, ClusterOK, cluster, FreshOK
  <2>2. WorkersOK' /\ FreshOK'
    BY <1>5, <2>1, AnswerTyped DEF ResetLab, Answers
  <2>. QED
    BY <1>5, <2>1, <2>2 DEF ResetLab, LoopsOK, Rest
<1>6. CASE Cancel(w)
  <2>1. WorkersOK' /\ FreshOK'
    BY <1>6, AnswerTyped DEF Cancel, Answers
  <2>. QED
    BY <1>6, <2>1 DEF Cancel, ClusterOK, LoopsOK, Rest
<1>. QED
  BY <1>1, <1>2, <1>3, <1>4, <1>5, <1>6

LEMMA OpenTyped ==
  ASSUME StateOK, NEW w \in Workers, NEW k \in Keys, NEW code \in Codes, NEW kind \in Kinds,
                Open(w, k, code, kind)
  PROVE  StateOK'
<1>1. [key |-> k, code |-> code, kind |-> kind] \in Served /\ Served \subseteq Jobs
  BY DEF Served, Jobs
<1>2. w \notin fresh
  BY DEF Open, StateOK, FreshOK
<1>3. WorkersOK' /\ FreshOK'
  BY <1>1, <1>2, Nulls DEF Open, StateOK, WorkersOK, FreshOK, Labels, Ensuring
<1>. QED
  BY <1>3 DEF Open, StateOK, ClusterOK, LoopsOK, Rest

(* The collector and the deletion of a student. *)
LEMMA LoopsTyped ==
  ASSUME StateOK,
         \/ CollectorLists
         \/ \E k \in Keys : CollectorPurges(k) \/ CollectorFails(k)
         \/ \E s \in Students : StartDeletion(s)
         \/ Deletion \/ AbandonDeletion
  PROVE  StateOK'
<1>. USE DEF StateOK
<1>0. ASSUME UNCHANGED workers, fresh' \subseteq fresh
      PROVE  WorkersOK' /\ FreshOK'
  BY <1>0 DEF WorkersOK, FreshOK, workers
<1>1. CASE CollectorLists \/ (\E k \in Keys : CollectorFails(k)) \/ AbandonDeletion
           \/ DeleteStudent
  BY <1>0, <1>1 DEF CollectorLists, CollectorFails, AbandonDeletion, DeleteStudent, cluster,
                    ClusterOK, LoopsOK
<1>2. ASSUME NEW k \in Keys, CollectorPurges(k)
      PROVE  StateOK'
  BY <1>0, <1>2, PurgeSets DEF CollectorPurges, LoopsOK
<1>3. ASSUME NEW s \in Students, StartDeletion(s)
      PROVE  StateOK'
  <2>1. admin' \in Deletions
    BY <1>3 DEF StartDeletion, Deletions
  <2>. QED
    BY <1>0, <1>3, <2>1 DEF StartDeletion, cluster, ClusterOK, LoopsOK
<1>4. CASE ListNamespaces \/ FinishPurge
  <2>1. admin \in Deletions
    BY <1>4 DEF ListNamespaces, FinishPurge, LoopsOK, NoDeletion
  <2>2. \A K \in SUBSET Keys :
          [admin EXCEPT !.phase = "purge", !.todo = K, !.since = {}] \in Deletions
    BY <2>1 DEF Deletions
  <2>3. [admin EXCEPT !.phase = "row"] \in Deletions
    BY <2>1 DEF Deletions
  <2>4. admin' \in Deletions \cup {NoDeletion}
    BY <1>4, <2>2, <2>3 DEF ListNamespaces, FinishPurge
  <2>. QED
    BY <1>0, <1>4, <2>4 DEF ListNamespaces, FinishPurge, cluster, ClusterOK, LoopsOK
<1>5. ASSUME NEW k \in Keys, PurgeListed(k)
      PROVE  StateOK'
  <2>1. admin \in Deletions
    BY <1>5 DEF PurgeListed, LoopsOK, NoDeletion
  <2>2. admin' \in Deletions
    BY <1>5, <2>1 DEF PurgeListed, Deletions
  <2>. QED
    BY <1>0, <1>5, <2>2, PurgeSets DEF PurgeListed, cluster, ClusterOK, LoopsOK
<1>. QED
  BY <1>1, <1>2, <1>3, <1>4, <1>5 DEF Deletion

(* The cluster and the server. *)
LEMMA EnvironmentTyped ==
  ASSUME StateOK, (\E k \in Keys : Cluster(k)) \/ Crash
  PROVE  StateOK'
<1>. USE DEF StateOK
<1>1. ASSUME NEW k \in Keys, PodStarts(k) \/ PodDeleted(k) \/ PodEvicted(k) \/ PodGone(k)
      PROVE  StateOK'
  <2>1. UNCHANGED <<Rest, fresh, disturbed>>
    BY <1>1 DEF PodStarts, PodDeleted, PodEvicted, PodGone
  <2>2. PICK p \in PodStates : SetPod(k, p)
    BY <1>1, AfterDeleteTyped
       DEF PodStarts, PodDeleted, PodEvicted, PodGone, PodStates, ClusterOK, Namespaces
  <2>3. ns[k].phase # "absent"
    BY <1>1, FreshNamespace DEF PodStarts, PodDeleted, PodEvicted, PodGone, ClusterOK, Bare
  <2>4. ClusterOK'
    BY <2>1, <2>2, <2>3, PodSet DEF ClusterOK
  <2>5. WorkersOK' /\ FreshOK'
    <3>1. CASE UNCHANGED workers
      BY <2>1, <3>1 DEF WorkersOK, FreshOK, workers
    <3>2. CASE PodEvicted(k) \/ PodGone(k)
      BY <2>1, <3>2 DEF PodEvicted, PodGone, WorkersOK, FreshOK, Labels
    <3>. QED
      BY <1>1, <3>1, <3>2 DEF PodStarts, PodDeleted
  <2>. QED
    BY <2>1, <2>4, <2>5 DEF LoopsOK, Rest
<1>2. ASSUME NEW k \in Keys, NamespaceGone(k) \/ NamespaceAges(k)
      PROVE  StateOK'
  <2>1. UNCHANGED <<Rest, fresh, disturbed, workers>>
    BY <1>2 DEF NamespaceGone, NamespaceAges
  <2>2. WorkersOK' /\ FreshOK'
    BY <2>1 DEF WorkersOK, FreshOK, workers
  <2>3. \E n : Typed(n) /\ ns' = [ns EXCEPT ![k] = n]
    <3>1. CASE NamespaceGone(k)
      BY <3>1, FreshNamespace DEF NamespaceGone, Typed
    <3>2. CASE NamespaceAges(k)
      <4>1. Typed([ns[k] EXCEPT !.old = TRUE])
        BY <3>2, FieldsSet DEF NamespaceAges, Typed, ClusterOK
      <4>2. ns' = [ns EXCEPT ![k] = [ns[k] EXCEPT !.old = TRUE]]
        BY <3>2 DEF NamespaceAges
      <4>. QED
        BY <4>1, <4>2
    <3>. QED
      BY <1>2, <3>1, <3>2
  <2>4. ClusterOK'
    BY <2>1, <2>3, NsSet DEF ClusterOK
  <2>. QED
    BY <2>1, <2>2, <2>4 DEF LoopsOK, Rest
<1>3. CASE Crash
  BY <1>3 DEF Crash, ClusterOK, WorkersOK, FreshOK, LoopsOK, Labels, Jobs
<1>. QED
  BY <1>1, <1>2, <1>3 DEF Cluster

LEMMA StateStepOK == StateOK /\ [Next]_vars => StateOK'
<1>1. StateOK /\ UNCHANGED vars => StateOK'
  BY DEF vars, StateOK, ClusterOK, WorkersOK, FreshOK, LoopsOK
<1>. QED
  BY <1>1, NamespaceStepsTyped, PodStepsTyped, OpenTyped, LoopsTyped, EnvironmentTyped
     DEF Next, Step

(* Every reachable state of the cluster and of the requests is well typed. *)
THEOREM RuntimeTypeCorrect == Spec => []RuntimeTypeOK
  BY InitOK, StateStepOK, StateTypes, PTL DEF Spec

(***************************************************************************)
(* Undisturbed requests                                                    *)
(***************************************************************************)

(* What a request that nothing has disturbed has found or made is still    *)
(* there: its namespace does not terminate, is at the version it has read, *)
(* and has kept its service account.                                       *)
Undisturbed(w) ==
  pc[w] \in Ensuring /\ w \notin disturbed =>
    /\ ns[Key(w)].phase # "terminating"
    /\ pc[w] = "update" => w \in fresh
    /\ pc[w] \in {"update", "access", "pod", "delete", "make"} => ns[Key(w)].phase = "active"
    /\ pc[w] \in {"pod", "delete", "make"} => ns[Key(w)].access

DisturbInv ==
  /\ \A w \in Workers : Busy(w) => reply[w] = "none"
  /\ \A w \in Workers : Undisturbed(w)

(***************************************************************************)
(* The deletion of a student                                               *)
(***************************************************************************)

(* A namespace of the student that is active still has to be purged, or    *)
(* was created since, unless a purge has failed.                           *)
PurgeInv ==
  /\ admin.phase \in {"purge", "row"} /\ ~admin.failed =>
       \A k \in Keys :
         k[1] = admin.student /\ ns[k].phase = "active" => k \in admin.todo \cup admin.since
  /\ admin.phase = "row" => admin.todo = {} /\ ~admin.failed

(* What a step does to a namespace, apart from its pod, label and age.     *)
Kept(k) == ns'[k].phase = ns[k].phase /\ (ns[k].access => ns'[k].access)

Made(k) ==
  /\ ns[k].phase = "absent" /\ ns'[k].phase = "active"
  /\ admin' = IF admin = NoDeletion THEN admin ELSE [admin EXCEPT !.since = @ \cup {k}]

Moves(k) ==
  \/ Kept(k)
  \/ ns'[k].phase = "terminating" /\ Serving(k) \subseteq disturbed'
  \/ ns[k].phase = "terminating" /\ ns'[k].phase = "absent"
  \/ Made(k)

LEMMA PurgeMoves ==
  ASSUME StateOK, NEW k \in Keys, Purge(k)
  PROVE  /\ \A j \in Keys : Moves(j)
         /\ ns'[k].phase # "active"
         /\ disturbed \subseteq disturbed'
<1>1. CASE UNCHANGED cluster
  BY <1>1, PurgeSets DEF StateOK, cluster, Moves, Kept
<1>2. CASE ~UNCHANGED cluster
  <2>1. disturbed' = disturbed \cup Serving(k)
    BY <1>2, PurgeSets DEF StateOK
  <2>. QED
    BY <2>1, PurgeSets DEF StateOK, Moves, Kept
<1>. QED
  BY <1>1, <1>2

LEMMA PodMoves ==
  ASSUME StateOK, NEW k \in Keys, NEW p \in PodStates, SetPod(k, p),
         ns[k].phase = "absent" => p = "none"
  PROVE  \A j \in Keys : Kept(j)
  BY PodSet DEF StateOK, Kept

LEMMA SomePodMoves ==
  ASSUME StateOK, NEW k \in Keys, PodStarts(k) \/ PodDeleted(k) \/ PodEvicted(k) \/ PodGone(k)
  PROVE  \A j \in Keys : Kept(j)
<1>1. PICK p \in PodStates : SetPod(k, p)
  BY AfterDeleteTyped
     DEF PodStarts, PodDeleted, PodEvicted, PodGone, PodStates, StateOK, ClusterOK, Namespaces
<1>2. ns[k].phase # "absent"
  BY FreshNamespace DEF PodStarts, PodDeleted, PodEvicted, PodGone, StateOK, ClusterOK, Bare
<1>. QED
  BY <1>1, <1>2, PodMoves

LEMMA DeletePodMoves ==
  ASSUME StateOK, NEW w \in Workers, DeletePod(w)
  PROVE  \A j \in Keys : Kept(j)
<1>1. Key(w) \in Keys
  BY KeyTyped DEF DeletePod, StateOK, Busy
<1>2. PICK p \in AfterDelete(ns[Key(w)].pod) : SetPod(Key(w), p)
  BY DEF DeletePod, SetPod
<1>3. p \in PodStates /\ (ns[Key(w)].phase = "absent" => p = "none")
  BY <1>1, <1>2, AfterDeleteTyped, FreshNamespace DEF StateOK, ClusterOK, Namespaces, Bare
<1>. QED
  BY <1>1, <1>2, <1>3, PodMoves

LEMMA CreatePodMoves ==
  ASSUME StateOK, NEW w \in Workers, CreatePod(w)
  PROVE  \A j \in Keys : Kept(j)
<1>1. Key(w) \in Keys
  BY KeyTyped DEF CreatePod, StateOK, Busy
<1>. DEFINE p == IF ns[Key(w)].pod = "none" THEN "pending" ELSE ns[Key(w)].pod
<1>2. UNCHANGED ns \/ (ns[Key(w)].phase = "active" /\ SetPod(Key(w), p))
  BY DEF CreatePod, SetPod
<1>3. p \in PodStates
  BY <1>1 DEF StateOK, ClusterOK, Namespaces, PodStates
<1>. HIDE DEF p
<1>. QED
  BY <1>1, <1>2, <1>3, PodMoves DEF Kept

LEMMA CreateMoves ==
  ASSUME StateOK, NEW w \in Workers, CreateNamespace(w)
  PROVE  /\ \A j \in Keys : Moves(j)
         /\ ns[Key(w)].phase = "absent" => ns'[Key(w)].phase = "active"
<1>1. Key(w) \in Keys
  BY KeyTyped DEF CreateNamespace, StateOK, Busy
<1>2. CASE NewNamespace(Key(w), job[w].code) /\ ns[Key(w)].phase = "absent"
  <2>0. job[w].code \in Codes
    BY KeyTyped DEF CreateNamespace, StateOK, Busy
  <2>1. ns' = [ns EXCEPT ![Key(w)] = Fresh(job[w].code)]
    BY <1>2 DEF NewNamespace
  <2>2. /\ ns'[Key(w)] = Fresh(job[w].code)
        /\ \A j \in Keys \ {Key(w)} : ns'[j] = ns[j]
    BY <1>1, <2>1 DEF StateOK, ClusterOK
  <2>. QED
    BY <1>2, <2>0, <2>2, FreshNamespace DEF NewNamespace, Moves, Made, Kept
<1>3. CASE UNCHANGED ns /\ ns[Key(w)].phase # "absent"
  BY <1>3 DEF Moves, Kept
<1>. QED
  BY <1>2, <1>3 DEF CreateNamespace

LEMMA AccessMoves ==
  ASSUME StateOK, NEW w \in Workers, EnsureAccess(w)
  PROVE  /\ \A j \in Keys : Kept(j)
         /\ ns[Key(w)].phase = "active" => ns'[Key(w)].access
<1>1. Key(w) \in Keys
  BY KeyTyped DEF EnsureAccess, StateOK, Busy
<1>2. CASE ns' = [ns EXCEPT ![Key(w)].access = TRUE]
  <2>. DEFINE n == [ns[Key(w)] EXCEPT !.access = TRUE]
  <2>1. n.phase = ns[Key(w)].phase /\ n.access
    BY <1>1, FieldsSet DEF StateOK, ClusterOK
  <2>2. ns' = [ns EXCEPT ![Key(w)] = n]
    BY <1>2
  <2>. HIDE DEF n
  <2>3. /\ ns'[Key(w)] = n
        /\ \A j \in Keys \ {Key(w)} : ns'[j] = ns[j]
    BY <1>1, <2>2 DEF StateOK, ClusterOK
  <2>. QED
    BY <2>1, <2>3 DEF Kept
<1>3. CASE UNCHANGED ns /\ ns[Key(w)].phase # "active"
  BY <1>3 DEF Kept
<1>. QED
  BY <1>2, <1>3 DEF EnsureAccess

LEMMA ClusterMoves ==
  ASSUME StateOK, NEW k \in Keys, NamespaceGone(k) \/ NamespaceAges(k)
  PROVE  \A j \in Keys : Moves(j)
<1>1. CASE NamespaceGone(k)
  <2>1. ns'[k] = Absent /\ \A j \in Keys \ {k} : ns'[j] = ns[j]
    BY <1>1 DEF NamespaceGone, StateOK, ClusterOK
  <2>. QED
    BY <1>1, <2>1, FreshNamespace DEF NamespaceGone, Moves, Kept
<1>2. CASE NamespaceAges(k)
  <2>. DEFINE n == [ns[k] EXCEPT !.old = TRUE]
  <2>1. n.phase = ns[k].phase /\ n.access = ns[k].access
    BY FieldsSet DEF StateOK, ClusterOK
  <2>2. ns' = [ns EXCEPT ![k] = n]
    BY <1>2 DEF NamespaceAges
  <2>. HIDE DEF n
  <2>3. ns'[k] = n /\ \A j \in Keys \ {k} : ns'[j] = ns[j]
    BY <2>2 DEF StateOK, ClusterOK
  <2>. QED
    BY <2>1, <2>3 DEF Moves, Kept
<1>. QED
  BY <1>1, <1>2

(* No step moves a namespace in another way, or forgets a disturbance but  *)
(* that of the worker which takes a new request.                           *)
LEMMA AllMoves ==
  ASSUME StateOK, Next
  PROVE  /\ \A j \in Keys : Moves(j)
         /\ \A v \in Workers : v \in disturbed /\ Busy(v) => v \in disturbed'
<1>. USE DEF StateOK
<1>1. ASSUME NEW w \in Workers, NEW k \in Keys, NEW code \in Codes, NEW kind \in Kinds,
                Open(w, k, code, kind)
      PROVE  /\ \A j \in Keys : Moves(j)
             /\ \A v \in Workers : v \in disturbed /\ Busy(v) => v \in disturbed'
  BY <1>1 DEF Open, Moves, Kept, Busy
<1>2. ASSUME NEW w \in Workers, Step(w) \/ Cancel(w) \/ TerminalFails(w) \/ CloseTerminal(w)
      PROVE  (\A j \in Keys : Moves(j)) /\ disturbed \subseteq disturbed'
  <2>0. CASE UpdateNamespace(w)
    BY <2>0, UpdateSets DEF Moves, Kept
  <2>1. CASE \/ GetNamespace(w) \/ AwaitGone(w) \/ GetPod(w)
             \/ SeeReady(w) \/ TimeOut(w) \/ Cancel(w) \/ TerminalFails(w)
             \/ CloseTerminal(w)
    <3>1. UNCHANGED ns /\ disturbed \subseteq disturbed'
      BY <2>1 DEF GetNamespace, AwaitGone, GetPod, SeeReady, TimeOut, Cancel,
                  TerminalFails, CloseTerminal, cluster
    <3>. QED
      BY <3>1 DEF Moves, Kept
  <2>2. CASE CreateNamespace(w)
    BY <2>2, CreateMoves DEF CreateNamespace
  <2>3. CASE EnsureAccess(w)
    BY <2>3, AccessMoves DEF EnsureAccess, Moves
  <2>4. CASE DeletePod(w)
    BY <2>4, DeletePodMoves DEF DeletePod, Moves
  <2>5. CASE CreatePod(w)
    BY <2>5, CreatePodMoves DEF CreatePod, Moves
  <2>6. CASE ResetLab(w)
    <3>1. Key(w) \in Keys
      BY <2>6, KeyTyped DEF ResetLab, Busy
    <3>2. Purge(Key(w)) \/ UNCHANGED cluster
      BY <2>6 DEF ResetLab
    <3>. QED
      BY <3>1, <3>2, PurgeMoves DEF cluster, Moves, Kept
  <2>. QED
    BY <1>2, <2>0, <2>1, <2>2, <2>3, <2>4, <2>5, <2>6 DEF Step
<1>3. ASSUME NEW k \in Keys, CollectorPurges(k) \/ PurgeListed(k)
      PROVE  (\A j \in Keys : Moves(j)) /\ disturbed \subseteq disturbed'
  <2>1. Purge(k) \/ UNCHANGED cluster
    BY <1>3 DEF CollectorPurges, PurgeListed
  <2>. QED
    BY <2>1, PurgeMoves DEF cluster, Moves, Kept
<1>4. ASSUME \/ CollectorLists \/ (\E k \in Keys : CollectorFails(k))
             \/ (\E s \in Students : StartDeletion(s))
             \/ ListNamespaces \/ FinishPurge \/ DeleteStudent \/ AbandonDeletion \/ Crash
      PROVE  (\A j \in Keys : Moves(j)) /\ disturbed \subseteq disturbed'
  <2>1. UNCHANGED <<ns, disturbed>>
    BY <1>4 DEF CollectorLists, CollectorFails, StartDeletion, ListNamespaces, FinishPurge,
                DeleteStudent, AbandonDeletion, Crash, cluster
  <2>. QED
    BY <2>1 DEF Moves, Kept
<1>5. ASSUME NEW k \in Keys, Cluster(k)
      PROVE  (\A j \in Keys : Moves(j)) /\ disturbed \subseteq disturbed'
  <2>1. UNCHANGED disturbed
    BY <1>5 DEF Cluster, PodStarts, PodDeleted, PodEvicted, PodGone, NamespaceGone, NamespaceAges
  <2>. QED
    BY <1>5, <2>1, SomePodMoves, ClusterMoves DEF Cluster, Moves
<1>. QED
  BY <1>1, <1>2, <1>3, <1>4, <1>5 DEF Next, Deletion

(* A read of a namespace ends with its call, or is disturbed. *)
LEMMA FreshMoves ==
  ASSUME StateOK, Next
  PROVE  \A v \in fresh : pc'[v] = pc[v] => v \in fresh' \/ v \in disturbed'
<1>. USE DEF StateOK
<1>0. ASSUME NEW k \in Keys, Purge(k)
      PROVE  \A v \in fresh : v \in fresh' \/ v \in disturbed'
  BY <1>0, PurgeSets DEF cluster
<1>1. ASSUME NEW w \in Workers, UpdateNamespace(w) \/ Cancel(w)
      PROVE  \A v \in fresh : pc'[v] = pc[v] => v \in fresh' \/ v \in disturbed'
  <2>1. pc[w] \in Ensuring /\ pc'[w] # pc[w]
    BY <1>1 DEF UpdateNamespace, Cancel, Go, Answer, WorkersOK, Ensuring
  <2>2. CASE UpdateNamespace(w)
    BY <2>1, <2>2, UpdateSets
  <2>3. CASE Cancel(w)
    BY <2>1, <2>3 DEF Cancel
  <2>. QED
    BY <1>1, <2>2, <2>3
<1>2. ASSUME NEW w \in Workers,
             \/ GetNamespace(w) \/ AwaitGone(w) \/ CreateNamespace(w) \/ EnsureAccess(w)
             \/ GetPod(w) \/ DeletePod(w) \/ CreatePod(w) \/ SeeReady(w) \/ TimeOut(w)
             \/ TerminalFails(w) \/ CloseTerminal(w)
             \/ \E k \in Keys, code \in Codes, kind \in Kinds : Open(w, k, code, kind)
      PROVE  fresh \subseteq fresh'
  BY <1>2 DEF GetNamespace, AwaitGone, CreateNamespace, EnsureAccess, GetPod, DeletePod,
              CreatePod, SeeReady, TimeOut, TerminalFails, CloseTerminal, Open, cluster
<1>3. ASSUME NEW w \in Workers, ResetLab(w)
      PROVE  \A v \in fresh : v \in fresh' \/ v \in disturbed'
  <2>1. Key(w) \in Keys
    BY <1>3, KeyTyped DEF ResetLab, Busy
  <2>. QED
    BY <1>0, <1>3, <2>1 DEF ResetLab, cluster
<1>4. ASSUME NEW k \in Keys, CollectorPurges(k) \/ PurgeListed(k)
      PROVE  \A v \in fresh : v \in fresh' \/ v \in disturbed'
  BY <1>0, <1>4 DEF CollectorPurges, PurgeListed, cluster
<1>5. ASSUME \/ CollectorLists \/ (\E k \in Keys : CollectorFails(k) \/ Cluster(k))
             \/ (\E s \in Students : StartDeletion(s))
             \/ ListNamespaces \/ FinishPurge \/ DeleteStudent \/ AbandonDeletion
      PROVE  UNCHANGED fresh
  BY <1>5 DEF CollectorLists, CollectorFails, Cluster, PodStarts, PodDeleted, PodEvicted, PodGone,
              NamespaceGone, NamespaceAges, StartDeletion, ListNamespaces, FinishPurge,
              DeleteStudent, AbandonDeletion, cluster
<1>6. CASE Crash
  BY <1>6 DEF Crash, FreshOK
<1>. QED
  BY <1>1, <1>2, <1>3, <1>4, <1>5, <1>6 DEF Next, Step, Deletion

(* A request that goes on with the same call. *)
LEMMA Waiting ==
  ASSUME StateOK, Next, NEW w \in Workers, Undisturbed(w), pc'[w] = pc[w], job'[w] = job[w]
  PROVE  Undisturbed(w)'
<1>. SUFFICES ASSUME pc[w] \in Ensuring, w \notin disturbed'
              PROVE  Undisturbed(w)'
  BY DEF Undisturbed
<1>1. Busy(w) /\ Key(w)' = Key(w)
  BY DEF Busy, Ensuring, Key
<1>2. /\ w \in Serving(Key(w)) /\ Key(w) \in Keys
  BY <1>1, KeyTyped DEF StateOK, Serving, Key
<1>3. w \notin disturbed /\ Moves(Key(w)) /\ (w \in fresh => w \in fresh')
  BY <1>1, <1>2, AllMoves, FreshMoves
<1>4. /\ ns[Key(w)].phase # "terminating"
      /\ pc[w] = "update" => w \in fresh
      /\ pc[w] \in {"update", "access", "pod", "delete", "make"} => ns[Key(w)].phase = "active"
      /\ pc[w] \in {"pod", "delete", "make"} => ns[Key(w)].access
  BY <1>3 DEF Undisturbed
<1>5. CASE Kept(Key(w))
  BY <1>1, <1>3, <1>4, <1>5 DEF Kept, Undisturbed
<1>6. CASE Made(Key(w))
  BY <1>1, <1>4, <1>6 DEF Made, Undisturbed
<1>. QED
  BY <1>2, <1>3, <1>4, <1>5, <1>6 DEF Moves

(* A request that takes its next step. *)
LEMMA Proceeding ==
  ASSUME StateOK, NEW w \in Workers, Undisturbed(w),
         Step(w) \/ (\E k \in Keys, code \in Codes, kind \in Kinds : Open(w, k, code, kind)),
         pc'[w] \in Ensuring
  PROVE  Undisturbed(w)'
<1>. SUFFICES ASSUME w \notin disturbed'
              PROVE  Undisturbed(w)'
  BY DEF Undisturbed
<1>1. ASSUME NEW k \in Keys, NEW code \in Codes, NEW kind \in Kinds,
                Open(w, k, code, kind)
      PROVE  Undisturbed(w)'
  <2>1. pc'[w] = "get" /\ Key(w)' = k
    BY <1>1 DEF Open, StateOK, WorkersOK, Key
  <2>2. ns'[k].phase # "terminating"
    BY <1>1 DEF Open, StateOK, ClusterOK
  <2>. QED
    BY <2>1, <2>2 DEF Undisturbed
<1>2. ASSUME NEW next, Go(w, next), disturbed \subseteq disturbed', pc[w] \in Ensuring
      PROVE  /\ pc'[w] = next /\ Key(w)' = Key(w) /\ Key(w) \in Keys
             /\ ns[Key(w)].phase # "terminating"
             /\ pc[w] = "update" => w \in fresh
             /\ pc[w] \in {"update", "access", "pod", "delete", "make"} =>
                  ns[Key(w)].phase = "active"
             /\ pc[w] \in {"pod", "delete", "make"} => ns[Key(w)].access
  BY <1>2, KeyTyped DEF Go, StateOK, WorkersOK, Key, Undisturbed, Busy, Ensuring
<1>3. CASE GetNamespace(w)
  <2>1. ns[Key(w)].phase \in {"absent", "active", "terminating"}
    BY <1>3, KeyTyped DEF GetNamespace, Busy, StateOK, ClusterOK, Namespaces
  <2>2. PICK next \in {"create", "update", "gone"} :
          Go(w, next) /\ (next = "update" => ns[Key(w)].phase = "active")
    BY <1>3, <2>1 DEF GetNamespace
  <2>3. UNCHANGED <<ns, disturbed>> /\ (next = "update" => w \in fresh')
    BY <1>3, <2>2 DEF GetNamespace
  <2>. QED
    BY <1>2, <1>3, <2>2, <2>3 DEF GetNamespace, Undisturbed, Ensuring
<1>4. CASE AwaitGone(w)
  BY <1>2, <1>4 DEF AwaitGone, Undisturbed, Ensuring, cluster
<1>5. CASE CreateNamespace(w)
  <2>1. PICK next \in {"access", "get"} :
          Go(w, next) /\ (next = "access" => ns[Key(w)].phase = "absent")
                     /\ (next = "get" => UNCHANGED ns)
    BY <1>5 DEF CreateNamespace
  <2>. QED
    BY <1>2, <1>5, <2>1, CreateMoves DEF CreateNamespace, Undisturbed, Ensuring
<1>6. CASE UpdateNamespace(w)
  <2>1. Go(w, "access")
    BY <1>6 DEF UpdateNamespace, Answer, StateOK, WorkersOK, Ensuring
  <2>2. /\ disturbed \subseteq disturbed'
        /\ \A j \in Keys : ns'[j].phase = ns[j].phase
    BY <1>6, UpdateSets DEF StateOK
  <2>. QED
    BY <1>2, <1>6, <2>1, <2>2 DEF UpdateNamespace, Undisturbed, Ensuring
<1>7. CASE EnsureAccess(w)
  <2>1. Go(w, "pod") /\ UNCHANGED disturbed
    BY <1>7 DEF EnsureAccess, Answer, StateOK, WorkersOK, Ensuring
  <2>2. /\ pc'[w] = "pod" /\ Key(w)' = Key(w) /\ Key(w) \in Keys
        /\ ns[Key(w)].phase = "active"
    BY <1>2, <1>7, <2>1 DEF EnsureAccess, Ensuring
  <2>. QED
    BY <1>7, <2>2, AccessMoves DEF Kept, Undisturbed
<1>8. CASE GetPod(w)
  <2>1. ns[Key(w)].pod \in PodStates
    BY <1>8, KeyTyped DEF GetPod, Busy, StateOK, ClusterOK, Namespaces
  <2>2. PICK next \in {"make", "ready", "delete"} : Go(w, next)
    BY <1>8, <2>1 DEF GetPod, PodStates
  <2>3. UNCHANGED <<ns, disturbed>>
    BY <1>8 DEF GetPod, cluster
  <2>. QED
    BY <1>2, <1>8, <2>2, <2>3 DEF GetPod, Undisturbed, Ensuring
<1>9. CASE DeletePod(w)
  <2>1. Go(w, "make") /\ UNCHANGED disturbed
    BY <1>9 DEF DeletePod
  <2>. QED
    BY <1>2, <1>9, <2>1, DeletePodMoves DEF DeletePod, Kept, Undisturbed, Ensuring
<1>10. CASE CreatePod(w)
  <2>1. Go(w, "ready") /\ UNCHANGED disturbed
    BY <1>10 DEF CreatePod, Answer, StateOK, WorkersOK, Ensuring
  <2>. QED
    BY <1>2, <1>10, <2>1, CreatePodMoves DEF CreatePod, Kept, Undisturbed, Ensuring
<1>11. CASE SeeReady(w) \/ TimeOut(w) \/ ResetLab(w)
  BY <1>11 DEF SeeReady, TimeOut, ResetLab, Go, Answer, StateOK, WorkersOK, Ensuring
<1>. QED
  BY <1>1, <1>3, <1>4, <1>5, <1>6, <1>7, <1>8, <1>9, <1>10, <1>11 DEF Step

(* Who is not stepping waits, is free, or has left its shell. *)
LEMMA NextWorkers ==
  ASSUME StateOK, Next, NEW v \in Workers
  PROVE  \/ pc'[v] = pc[v] /\ job'[v] = job[v] /\ reply'[v] = reply[v]
         \/ pc'[v] = "idle"
         \/ pc'[v] = "reset" /\ reply'[v] = reply[v] /\ Busy(v)
         \/ pc'[v] = "stream" /\ reply'[v] = reply[v] /\ Busy(v)
         \/ Step(v) /\ reply'[v] = reply[v] /\ Busy(v)
         \/ /\ \E k \in Keys, code \in Codes, kind \in Kinds : Open(v, k, code, kind)
            /\ reply'[v] = "none"
<1>. USE DEF StateOK
<1>1. ASSUME NEW w \in Workers, NEW k \in Keys, NEW code \in Codes, NEW kind \in Kinds,
                Open(w, k, code, kind)
      PROVE  \/ pc'[v] = pc[v] /\ job'[v] = job[v] /\ reply'[v] = reply[v]
             \/ Open(v, k, code, kind) /\ reply'[v] = "none"
  BY <1>1 DEF Open, WorkersOK
<1>2. ASSUME NEW w \in Workers, NEW a, Answer(w, a)
      PROVE  \/ pc'[v] = pc[v] /\ job'[v] = job[v] /\ reply'[v] = reply[v]
             \/ pc'[v] = "idle"
  BY <1>2 DEF Answer, WorkersOK
<1>3. ASSUME NEW w \in Workers, NEW next, Go(w, next)
      PROVE  \/ pc'[v] = pc[v] /\ job'[v] = job[v] /\ reply'[v] = reply[v]
             \/ v = w /\ pc'[v] = next /\ reply'[v] = reply[v]
  BY <1>3 DEF Go, WorkersOK
<1>4. ASSUME NEW w \in Workers, Step(w) \/ Cancel(w) \/ TerminalFails(w) \/ CloseTerminal(w)
      PROVE  \/ \E a : Answer(w, a)
             \/ Busy(w) /\ Step(w) /\ \E next : Go(w, next)
             \/ Busy(w) /\ Go(w, "reset")
  BY <1>4 DEF Step, Busy, GetNamespace, AwaitGone, CreateNamespace, UpdateNamespace, EnsureAccess,
              GetPod, DeletePod, CreatePod, SeeReady, TimeOut, ResetLab, Cancel, TerminalFails,
              CloseTerminal
<1>5. ASSUME NEW w \in Workers, Step(w) \/ Cancel(w) \/ TerminalFails(w) \/ CloseTerminal(w)
      PROVE  \/ pc'[v] = pc[v] /\ job'[v] = job[v] /\ reply'[v] = reply[v]
             \/ pc'[v] = "idle"
             \/ pc'[v] = "reset" /\ reply'[v] = reply[v] /\ Busy(v)
             \/ Step(v) /\ reply'[v] = reply[v] /\ Busy(v)
  BY <1>2, <1>3, <1>4, <1>5
<1>6. ASSUME \/ CollectorLists \/ (\E k \in Keys : CollectorPurges(k) \/ CollectorFails(k))
             \/ (\E s \in Students : StartDeletion(s)) \/ Deletion \/ AbandonDeletion
             \/ (\E k \in Keys : PodStarts(k) \/ PodDeleted(k) \/ NamespaceGone(k)
                                  \/ NamespaceAges(k))
      PROVE  UNCHANGED workers
  BY <1>6 DEF CollectorLists, CollectorPurges, CollectorFails, StartDeletion, Deletion,
              ListNamespaces, PurgeListed, FinishPurge, DeleteStudent, AbandonDeletion,
              PodStarts, PodDeleted, NamespaceGone, NamespaceAges
<1>7. ASSUME NEW k \in Keys, PodEvicted(k) \/ PodGone(k)
      PROVE  \/ pc'[v] = pc[v] /\ job'[v] = job[v] /\ reply'[v] = reply[v]
             \/ pc'[v] = "reset" /\ reply'[v] = reply[v] /\ Busy(v)
  BY <1>7 DEF PodEvicted, PodGone, Busy
<1>8. CASE Crash
  BY <1>8 DEF Crash
<1>. QED
  BY <1>1, <1>5, <1>6, <1>7, <1>8 DEF Next, Cluster, workers

LEMMA DisturbStep == StateOK /\ DisturbInv /\ [Next]_vars => DisturbInv'
<1>1. ASSUME StateOK, DisturbInv, Next, NEW v \in Workers
      PROVE  (Busy(v)' => reply'[v] = "none") /\ Undisturbed(v)'
  <2>1. Undisturbed(v) /\ (Busy(v) => reply[v] = "none")
    BY <1>1 DEF DisturbInv
  <2>2. CASE pc'[v] \in {"idle", "stream", "reset"}
    BY <1>1, <2>1, <2>2, NextWorkers DEF Busy, Undisturbed, Ensuring
  <2>3. CASE pc'[v] \notin {"idle", "stream", "reset"}
    <3>1. pc'[v] \in Ensuring
      BY <1>1, <2>3, StateStepOK DEF StateOK, WorkersOK, Labels
    <3>. QED
      BY <1>1, <2>1, <2>3, <3>1, NextWorkers, Waiting, Proceeding DEF Busy
  <2>. QED
    BY <2>2, <2>3
<1>2. DisturbInv /\ UNCHANGED vars => DisturbInv'
  BY DEF DisturbInv, Undisturbed, Busy, Key, vars
<1>. QED
  BY <1>1, <1>2 DEF DisturbInv

(* EnsureLab answers with an error only when the request was disturbed. *)
LEMMA ErrorStep ==
  ASSUME StateOK, DisturbInv, Next, NEW w \in Workers, Busy(w), reply'[w] = "error"
  PROVE  w \in disturbed'
<1>. USE DEF StateOK
<1>1. reply[w] = "none"
  BY DEF DisturbInv
<1>2. ASSUME NEW v \in Workers, NEW a, Answer(v, a)
      PROVE  v = w /\ a = "error"
  BY <1>1, <1>2 DEF Answer, WorkersOK
<1>3. ~UNCHANGED reply
  BY <1>1
<1>4. ASSUME NEW v \in Workers, Step(v) \/ Cancel(v) \/ TerminalFails(v) \/ CloseTerminal(v)
      PROVE  /\ v = w
             /\ UpdateNamespace(w) \/ EnsureAccess(w) \/ CreatePod(w) \/ Cancel(w)
             /\ Answer(w, "error")
  BY <1>2, <1>3, <1>4
     DEF Step, GetNamespace, AwaitGone, CreateNamespace, UpdateNamespace, EnsureAccess,
         GetPod, DeletePod, CreatePod, SeeReady, TimeOut, ResetLab, Cancel, TerminalFails,
         CloseTerminal, Go
<1>5. ASSUME UpdateNamespace(w) \/ EnsureAccess(w) \/ CreatePod(w) \/ Cancel(w),
             Answer(w, "error")
      PROVE  w \in disturbed'
  <2>1. ~\E next \in Ensuring : Go(w, next)
    BY <1>3, <1>5 DEF Go
  <2>2. pc[w] \in Ensuring /\ Undisturbed(w)
    BY <1>5 DEF UpdateNamespace, EnsureAccess, CreatePod, Cancel, Ensuring, DisturbInv
  <2>3. disturbed \subseteq disturbed'
    BY <1>5, UpdateSets DEF EnsureAccess, CreatePod, Cancel
  <2>. QED
    BY <1>5, <2>1, <2>2, <2>3
       DEF UpdateNamespace, EnsureAccess, CreatePod, Cancel, Undisturbed, Ensuring
<1>6. ASSUME NEW v \in Workers, NEW k \in Keys, NEW code \in Codes,
              NEW kind \in Kinds, Open(v, k, code, kind)
      PROVE  FALSE
  BY <1>1, <1>6 DEF Open, WorkersOK
<1>7. ASSUME \/ CollectorLists \/ (\E k \in Keys : CollectorPurges(k) \/ CollectorFails(k))
             \/ (\E s \in Students : StartDeletion(s)) \/ Deletion \/ AbandonDeletion
             \/ (\E k \in Keys : Cluster(k))
      PROVE  UNCHANGED reply
  BY <1>7 DEF CollectorLists, CollectorPurges, CollectorFails, StartDeletion, Deletion,
              ListNamespaces, PurgeListed, FinishPurge, DeleteStudent, AbandonDeletion, Cluster,
              PodStarts, PodDeleted, PodEvicted, PodGone, NamespaceGone, NamespaceAges, workers
<1>8. ~Crash
  BY DEF Crash
<1>. QED
  BY <1>3, <1>4, <1>5, <1>6, <1>7, <1>8 DEF Next

(* However many requests open the same environment at once, none makes     *)
(* another fail but by another code of the cohort: an error means that the *)
(* namespace was being deleted meanwhile, that its label was changed       *)
(* between the Get and the Update of this request, or that the request was *)
(* cancelled or a call failed.                                             *)
THEOREM ErrorsDisturbed == Spec => ErrorsAreDisturbed
<1>1. Init => DisturbInv
  BY DEF Init, DisturbInv, Busy, Undisturbed, Ensuring
<1>2. StateOK /\ DisturbInv /\ [Next]_vars =>
        [\A w \in Workers :
           pc[w] # "idle" /\ reply'[w] = "error" => w \in disturbed']_vars
  BY ErrorStep DEF Busy
<1>. QED
  BY <1>1, <1>2, InitOK, StateStepOK, DisturbStep, PTL DEF Spec, ErrorsAreDisturbed

(***************************************************************************)
(* The deletion of a student                                               *)
(***************************************************************************)

LEMMA PurgeStep == StateOK /\ PurgeInv /\ [Next]_vars => PurgeInv'
<1>. SUFFICES ASSUME StateOK, PurgeInv, [Next]_vars  PROVE  PurgeInv'
  OBVIOUS
<1>1. CASE UNCHANGED vars
  BY <1>1 DEF vars, PurgeInv
<1>. SUFFICES ASSUME Next  PROVE  PurgeInv'
  BY <1>1
<1>2. CASE admin' = NoDeletion
  BY <1>2 DEF NoDeletion, PurgeInv
<1>3. ASSUME NEW s \in Students, StartDeletion(s)
      PROVE  PurgeInv'
  BY <1>3 DEF StartDeletion, PurgeInv
<1>4. admin # NoDeletion => admin \in Deletions
  BY DEF StateOK, LoopsOK
<1>5. \A k \in Keys : ns'[k].phase = "active" => ns[k].phase = "active" \/ Made(k)
  BY AllMoves DEF Moves, Kept
<1>6. CASE ListNamespaces
  <2>1. admin \in Deletions
    BY <1>4, <1>6 DEF ListNamespaces, NoDeletion
  <2>2. /\ admin'.phase = "purge" /\ admin'.student = admin.student
        /\ admin'.todo = {k \in Keys : k[1] = admin.student /\ ns[k].phase # "absent"}
    BY <1>6, <2>1 DEF ListNamespaces, Deletions
  <2>3. UNCHANGED ns
    BY <1>6 DEF ListNamespaces, cluster
  <2>. QED
    BY <2>2, <2>3 DEF PurgeInv
<1>7. ASSUME NEW j \in Keys, PurgeListed(j)
      PROVE  PurgeInv'
  <2>1. admin \in Deletions /\ admin.phase = "purge"
    BY <1>4, <1>7 DEF PurgeListed, NoDeletion
  <2>2. CASE Purge(j) /\ admin' = [admin EXCEPT !.todo = @ \ {j}]
    <3>1. /\ admin'.phase = "purge" /\ admin'.student = admin.student
          /\ admin'.failed = admin.failed /\ admin'.since = admin.since
          /\ admin'.todo = admin.todo \ {j}
      BY <2>1, <2>2 DEF Deletions
    <3>2. ns'[j].phase # "active" /\ \A k \in Keys : ns'[k] = ns[k] \/ ns'[k].phase = "terminating"
      BY <2>2, PurgeSets DEF StateOK
    <3>. QED
      BY <2>1, <3>1, <3>2 DEF PurgeInv
  <2>3. CASE admin' = [admin EXCEPT !.todo = @ \ {j}, !.failed = TRUE]
    <3>1. admin'.phase = "purge" /\ admin'.failed
      BY <2>1, <2>3 DEF Deletions
    <3>. QED
      BY <3>1 DEF PurgeInv
  <2>. QED
    BY <1>7, <2>2, <2>3 DEF PurgeListed
<1>8. CASE FinishPurge
  <2>1. admin \in Deletions /\ admin.phase = "purge" /\ UNCHANGED ns
    BY <1>4, <1>8 DEF FinishPurge, NoDeletion, cluster
  <2>2. CASE ~admin.failed
    <3>1. admin' = [admin EXCEPT !.phase = "row"] /\ admin.todo = {}
      BY <1>8, <2>2 DEF FinishPurge
    <3>2. /\ admin'.phase = "row" /\ admin'.student = admin.student
          /\ admin'.failed = admin.failed /\ admin'.since = admin.since
          /\ admin'.todo = {}
      BY <2>1, <3>1 DEF Deletions
    <3>. QED
      BY <2>1, <2>2, <3>1, <3>2 DEF PurgeInv
  <2>. QED
    BY <1>2, <1>8, <2>2 DEF FinishPurge
<1>9. ASSUME UNCHANGED admin
      PROVE  PurgeInv'
  <2>1. CASE admin = NoDeletion
    BY <1>2, <1>9, <2>1
  <2>2. CASE admin \in Deletions
    <3>1. ASSUME NEW k \in Keys, Made(k), admin # NoDeletion
          PROVE  k \in admin.since
      <4>1. admin = [admin EXCEPT !.since = @ \cup {k}]
        BY <1>9, <3>1 DEF Made
      <4>2. [admin EXCEPT !.since = @ \cup {k}].since = admin.since \cup {k}
        BY <2>2 DEF Deletions
      <4>. QED
        BY <4>1, <4>2
    <3>2. \A k \in Keys :
            ns'[k].phase = "active" => ns[k].phase = "active" \/ k \in admin.since
      BY <1>5, <2>2, <3>1, Nulls
    <3>. QED
      BY <1>9, <3>2 DEF PurgeInv
  <2>. QED
    BY <1>4, <2>1, <2>2
<1>10. ASSUME NEW w \in Workers, CreateNamespace(w)
       PROVE  PurgeInv'
  <2>1. CASE NewNamespace(Key(w), job[w].code) /\ admin # NoDeletion
    <3>1. admin \in Deletions
      BY <1>4, <2>1
    <3>2. admin' = [admin EXCEPT !.since = admin.since \cup {Key(w)}]
      BY <2>1 DEF NewNamespace
    <3>3. /\ admin'.phase = admin.phase /\ admin'.student = admin.student
          /\ admin'.failed = admin.failed /\ admin'.todo = admin.todo
          /\ admin'.since = admin.since \cup {Key(w)}
      BY <3>1, <3>2 DEF Deletions
    <3>4. Key(w) \in Keys
      BY <1>10, KeyTyped DEF CreateNamespace, StateOK, Busy
    <3>5. \A k \in Keys \ {Key(w)} : ns'[k] = ns[k]
      BY <2>1, <3>4 DEF NewNamespace, StateOK, ClusterOK
    <3>. QED
      BY <3>3, <3>5 DEF PurgeInv
  <2>2. CASE NewNamespace(Key(w), job[w].code) /\ admin = NoDeletion
    BY <1>2, <2>2 DEF NewNamespace
  <2>3. CASE UNCHANGED <<ns, admin>>
    BY <1>9, <2>3
  <2>. QED
    BY <1>10, <2>1, <2>2, <2>3 DEF CreateNamespace
<1>11. ASSUME NEW w \in Workers,
              \/ (\E k \in Keys, code \in Codes, kind \in Kinds : Open(w, k, code, kind))
              \/ Step(w) /\ ~CreateNamespace(w)
              \/ Cancel(w) \/ TerminalFails(w) \/ CloseTerminal(w)
       PROVE  UNCHANGED admin
  BY <1>11 DEF Open, Step, GetNamespace, AwaitGone, UpdateNamespace, EnsureAccess,
               GetPod, DeletePod, CreatePod, SeeReady, TimeOut, ResetLab, Cancel, TerminalFails,
               CloseTerminal, Rest
<1>12. ASSUME \/ CollectorLists \/ (\E k \in Keys : CollectorPurges(k) \/ CollectorFails(k))
              \/ (\E k \in Keys : Cluster(k))
       PROVE  UNCHANGED admin
  BY <1>12 DEF CollectorLists, CollectorPurges, CollectorFails, Cluster, PodStarts, PodDeleted,
               PodEvicted, PodGone, NamespaceGone, NamespaceAges, Rest
<1>13. CASE DeleteStudent \/ AbandonDeletion \/ Crash
  BY <1>2, <1>13 DEF DeleteStudent, AbandonDeletion, Crash
<1>. QED
  BY <1>3, <1>6, <1>7, <1>8, <1>9, <1>10, <1>11, <1>12, <1>13 DEF Next, Deletion

(* No failed purge is passed over: the row of a student goes only when     *)
(* each of the namespaces that were listed has been purged.                *)
THEOREM PurgedFirst == Spec => PurgedBeforeDeleted
<1>1. Init => PurgeInv
  BY DEF Init, PurgeInv, NoDeletion
<1>2. ASSUME PurgeInv, Next, NEW k \in Keys, k[1] \in students \ students',
             ns[k].phase = "active"
      PROVE  k \in admin.since
  <2>1. DeleteStudent
    <3>1. ~UNCHANGED students
      BY <1>2
    <3>2. ASSUME NEW w \in Workers,
                 \/ (\E j \in Keys, code \in Codes, kind \in Kinds : Open(w, j, code, kind))
                 \/ Step(w) \/ Cancel(w) \/ TerminalFails(w) \/ CloseTerminal(w)
          PROVE  UNCHANGED students
      BY <3>2 DEF Open, Step, GetNamespace, AwaitGone, CreateNamespace, UpdateNamespace,
                  EnsureAccess, GetPod, DeletePod, CreatePod, SeeReady, TimeOut, ResetLab,
                  Cancel, TerminalFails, CloseTerminal, Rest
    <3>3. ASSUME \/ CollectorLists \/ (\E j \in Keys : CollectorPurges(j) \/ CollectorFails(j))
                 \/ (\E j \in Keys : Cluster(j)) \/ (\E s \in Students : StartDeletion(s))
                 \/ ListNamespaces \/ (\E j \in Keys : PurgeListed(j)) \/ FinishPurge
                 \/ AbandonDeletion \/ Crash
          PROVE  UNCHANGED students
      BY <3>3 DEF CollectorLists, CollectorPurges, CollectorFails, Cluster, PodStarts,
                  PodDeleted, PodEvicted, PodGone, NamespaceGone, NamespaceAges, Rest,
                  StartDeletion, ListNamespaces, PurgeListed, FinishPurge, AbandonDeletion,
                  Crash
    <3>. QED
      BY <1>2, <3>1, <3>2, <3>3 DEF Next, Deletion
  <2>2. admin.phase = "row" /\ k[1] = admin.student
    BY <1>2, <2>1 DEF DeleteStudent
  <2>. QED
    BY <1>2, <2>2 DEF PurgeInv
<1>3. StateOK /\ PurgeInv /\ [Next]_vars =>
        [\A k \in Keys : k[1] \in students \ students' /\ ns[k].phase = "active"
                           => k \in admin.since]_vars
  BY <1>2
<1>. QED
  BY <1>1, <1>3, InitOK, StateStepOK, PurgeStep, PTL DEF Spec, PurgedBeforeDeleted

=============================================================================
