----------------------------- MODULE LabRuntime -----------------------------
(***************************************************************************)
(* The laboratory environments: one Kubernetes namespace per student and   *)
(* laboratory with one toolbox pod, opened by POST /api/runtime/open and   *)
(* by the terminal WebSocket (EnsureLab, ServeTerminal), and removed by    *)
(* the terminal that closes, by the periodic collector and by the deletion *)
(* of the student.                                                         *)
(*                                                                         *)
(* Nothing is locked: each call to the Kubernetes API is atomic, and       *)
(* requests, collector and administrator interleave between calls. A       *)
(* worker is a request in flight and each of its actions one call (or a    *)
(* get-then-create pair whose outcome the last call decides). The cluster  *)
(* is the environment: it removes what is deleted, some time later, and    *)
(* starts, stops and loses pods.                                           *)
(*                                                                         *)
(* Abstractions: the service account and the role binding are one flag; of *)
(* the labels, the student's is part of the key and the cohort's is kept   *)
(* (an update that writes the labels a namespace has already leaves its    *)
(* resource version alone); the code of a cohort may be changed and a      *)
(* student moved at any time, so a request carries any code; the deadlines *)
(* of 45 and 90 seconds may strike at any time; the runtime is enabled.    *)
(***************************************************************************)
EXTENDS Naturals, FiniteSets

CONSTANTS
  Students,    \* students enrolled at the start
  Labs,        \* laboratories with a terminal
  Codes,       \* codes of cohorts, as labels
  Workers,     \* how many requests may be in flight at once
  Kinds,       \* "open" (POST /api/runtime/open), "terminal" (WebSocket)
  MayFail,     \* may API calls fail, requests be cancelled, the server crash?
  NoKey        \* no namespace, no code, no student

Keys == Students \X Labs    \* namespaceNameFor is injective on these

ASSUME RuntimeAssumption ==
  /\ Kinds \subseteq {"open", "terminal"}
  /\ MayFail \in BOOLEAN
  /\ NoKey \notin Keys \cup Students \cup Codes

VARIABLES
  students,   \* rows of table students
  ns,         \* the namespace of each key, as the cluster stores it
  fresh,      \* workers whose read of the namespace is still its last version
  pc,         \* the next call of each worker
  job,        \* what each worker serves: a key, the cohort's code and a kind
  reply,      \* the answer of the last request of each worker
  disturbed,  \* history: workers whose namespace was deleted or relabelled meanwhile
  gc,         \* names the collector has listed and still has to purge
  admin       \* the deletion of a student in progress

cluster == <<ns, fresh, disturbed>>
workers == <<pc, job, reply>>
vars == <<students, ns, fresh, pc, job, reply, disturbed, gc, admin>>

(* A pod is being started ("pending"), runs and is Ready ("ready"), has a  *)
(* deletion timestamp and is still Ready ("leaving"), has one and is not   *)
(* ("stopping"), or ended in phase Failed or Succeeded ("ended").          *)
PodStates == {"none", "pending", "ready", "leaving", "stopping", "ended"}

Namespaces ==
  [phase  : {"absent", "active", "terminating"},
   label  : Codes \cup {NoKey},   \* kubeclass.io/cohort
   access : BOOLEAN,      \* the service account and the role binding exist
   pod    : PodStates,    \* the toolbox pod
   old    : BOOLEAN]      \* created at least maxAge ago

Absent == [phase |-> "absent", label |-> NoKey, access |-> FALSE,
           pod |-> "none", old |-> FALSE]
Bare(n) == n.pod = "none" /\ ~n.access
Fresh(code) == [Absent EXCEPT !.phase = "active", !.label = code]

(* The labels of pc, in the order of EnsureLab and ServeTerminal. *)
Ensuring == {"get", "gone", "create", "update", "access", "pod", "delete",
             "make", "ready"}
Labels == {"idle", "stream", "reset"} \cup Ensuring

Idle == [key |-> NoKey, code |-> NoKey, kind |-> "open"]

Jobs == [key : Keys, code : Codes, kind : Kinds] \cup {Idle}

NoDeletion == [phase |-> "idle", student |-> NoKey, todo |-> {},
               failed |-> FALSE, since |-> {}]

Deletions ==
  [phase   : {"list", "purge", "row"},
   student : Students,
   todo    : SUBSET Keys,     \* listed and not yet purged
   failed  : BOOLEAN,         \* len(failures) > 0
   since   : SUBSET Keys]     \* history: namespaces created since the listing

RuntimeTypeOK ==
  /\ students \subseteq Students
  /\ ns \in [Keys -> Namespaces]
  /\ \A k \in Keys : ns[k].phase = "absent" => Bare(ns[k])
  /\ pc \in [Workers -> Labels]
  /\ job \in [Workers -> Jobs]
  /\ \A w \in Workers : pc[w] # "idle" => job[w] # Idle
  /\ \A w \in Workers : pc[w] \in {"stream", "reset"} => job[w].kind = "terminal"
  /\ fresh \subseteq {w \in Workers : pc[w] = "update"}
  /\ reply \in [Workers -> {"none", "ready", "closed", "error", "timeout"}]
  /\ disturbed \subseteq Workers
  /\ gc \subseteq Keys
  /\ admin \in Deletions \cup {NoDeletion}

Init ==
  /\ students = Students
  /\ ns = [k \in Keys |-> Absent]
  /\ fresh = {}
  /\ pc = [w \in Workers |-> "idle"]
  /\ job = [w \in Workers |-> Idle]
  /\ reply = [w \in Workers |-> "none"]
  /\ disturbed = {}
  /\ gc = {}
  /\ admin = NoDeletion

-----------------------------------------------------------------------------
(* The Kubernetes API *)

Serving(k) == {w \in Workers : job[w].key = k}

(* Namespaces().Delete: an active namespace starts to terminate; deleting  *)
(* one that terminates or does not exist changes nothing.                  *)
Purge(k) ==
  IF ns[k].phase = "active"
  THEN /\ ns' = [ns EXCEPT ![k].phase = "terminating"]
       /\ fresh' = fresh \ Serving(k)
       /\ disturbed' = disturbed \cup Serving(k)
  ELSE UNCHANGED cluster

(* Namespaces().Update of worker w, at the last version: another label is  *)
(* a new version for every other request that has read the namespace.      *)
Relabel(k, code, w) ==
  IF ns[k].label = code
  THEN /\ fresh' = fresh \ {w}
       /\ UNCHANGED <<ns, disturbed>>
  ELSE /\ ns' = [ns EXCEPT ![k].label = code]
       /\ fresh' = fresh \ Serving(k)
       /\ disturbed' = disturbed \cup {v \in Serving(k) \ {w} : pc[v] = "update"}

(* Namespaces().Create, when it succeeds. *)
NewNamespace(k, code) ==
  /\ ns' = [ns EXCEPT ![k] = Fresh(code)]
  /\ admin' = IF admin = NoDeletion THEN admin
              ELSE [admin EXCEPT !.since = @ \cup {k}]

(* Pods().Delete: a pod that has ended or never started is removed at      *)
(* once, one that runs gets its grace period.                              *)
AfterDelete(pod) ==
  CASE pod \in {"none", "ended"} -> {"none"}
    [] pod = "pending" -> {"none", "stopping"}
    [] pod \in {"ready", "leaving"} -> {"leaving"}
    [] pod = "stopping" -> {"stopping"}

-----------------------------------------------------------------------------
(* EnsureLab *)

Key(w) == job[w].key

Go(w, next) ==
  /\ pc' = [pc EXCEPT ![w] = next]
  /\ UNCHANGED <<job, reply>>

Answer(w, a) ==
  /\ pc' = [pc EXCEPT ![w] = "idle"]
  /\ job' = [job EXCEPT ![w] = Idle]
  /\ reply' = [reply EXCEPT ![w] = a]

Rest == <<students, gc, admin>>

(* A student with a session asks for the environment of a laboratory; the  *)
(* code is that of the session's cohort.                                   *)
Open(w, k, code, kind) ==
  /\ pc[w] = "idle"
  /\ k[1] \in students
  /\ pc' = [pc EXCEPT ![w] = "get"]
  /\ job' = [job EXCEPT ![w] = [key |-> k, code |-> code, kind |-> kind]]
  /\ reply' = [reply EXCEPT ![w] = "none"]
  /\ disturbed' = IF ns[k].phase = "terminating"
                  THEN disturbed \cup {w} ELSE disturbed \ {w}
  /\ UNCHANGED <<Rest, ns, fresh>>

(* ensureNamespace, Get: wait for one that terminates, update the labels   *)
(* of an active one, create a missing one.                                 *)
GetNamespace(w) ==
  /\ pc[w] = "get"
  /\ Go(w, CASE ns[Key(w)].phase = "absent" -> "create"
             [] ns[Key(w)].phase = "active" -> "update"
             [] ns[Key(w)].phase = "terminating" -> "gone")
  /\ fresh' = IF ns[Key(w)].phase = "active" THEN fresh \cup {w} ELSE fresh
  /\ UNCHANGED <<Rest, ns, disturbed>>

(* waitForNamespaceDeletion polls until a Get finds no namespace of that   *)
(* name, then ensureNamespace starts over.                                 *)
AwaitGone(w) ==
  /\ pc[w] = "gone"
  /\ ns[Key(w)].phase = "absent"
  /\ Go(w, "get")
  /\ UNCHANGED <<Rest, cluster>>

(* Mutant of CreateNamespace: losing the race to create is an error. *)
CreateNamespace_NoRetry(w) ==
  /\ pc[w] = "create"
  /\ IF ns[Key(w)].phase = "absent"
     THEN NewNamespace(Key(w), job[w].code) /\ Go(w, "access")
     ELSE Answer(w, "error") /\ UNCHANGED <<ns, admin>>
  /\ UNCHANGED <<students, gc, fresh, disturbed>>

(* Create; when someone else was faster, start over. *)
CreateNamespace(w) ==
  /\ pc[w] = "create"
  /\ IF ns[Key(w)].phase = "absent"
     THEN NewNamespace(Key(w), job[w].code) /\ Go(w, "access")
     ELSE Go(w, "get") /\ UNCHANGED <<ns, admin>>
  /\ UNCHANGED <<students, gc, fresh, disturbed>>

(* Update of what Get returned, with the code of this request's cohort: a  *)
(* conflict, or nothing to update, if the namespace was deleted since or   *)
(* another request has changed its label.                                  *)
UpdateNamespace(w) ==
  /\ pc[w] = "update"
  /\ IF w \in fresh
     THEN Relabel(Key(w), job[w].code, w) /\ Go(w, "access")
     ELSE Answer(w, "error") /\ UNCHANGED cluster
  /\ UNCHANGED Rest

(* ensureServiceAccount and ensureRoleBinding. Nothing can be created in a *)
(* namespace that terminates, but what exists there may still be found.    *)
EnsureAccess(w) ==
  /\ pc[w] = "access"
  /\ \/ /\ ns[Key(w)].phase = "active"
        /\ ns' = [ns EXCEPT ![Key(w)].access = TRUE]
        /\ Go(w, "pod")
     \/ /\ ns[Key(w)].phase = "terminating" /\ ns[Key(w)].access
        /\ Go(w, "pod") /\ UNCHANGED ns
     \/ /\ ns[Key(w)].phase # "active"
        /\ Answer(w, "error") /\ UNCHANGED ns
  /\ UNCHANGED <<Rest, fresh, disturbed>>

(* ensureToolboxPod, Get. *)
GetPod(w) ==
  /\ pc[w] = "pod"
  /\ Go(w, CASE ns[Key(w)].pod = "none" -> "make"
             [] ns[Key(w)].pod \in {"pending", "ready"} -> "ready"
             [] ns[Key(w)].pod \in {"leaving", "stopping", "ended"} -> "delete")
  /\ UNCHANGED <<Rest, cluster>>

(* Delete the pod to recycle, whichever pod has the name by now. *)
DeletePod(w) ==
  /\ pc[w] = "delete"
  /\ \E p \in AfterDelete(ns[Key(w)].pod) : ns' = [ns EXCEPT ![Key(w)].pod = p]
  /\ Go(w, "make")
  /\ UNCHANGED <<Rest, fresh, disturbed>>

(* Create the pod; one that exists is as good. It needs an active          *)
(* namespace and its service account.                                      *)
CreatePod(w) ==
  /\ pc[w] = "make"
  /\ LET n == ns[Key(w)]
     IN IF n.phase = "active" /\ n.access
        THEN /\ ns' = [ns EXCEPT ![Key(w)].pod = IF @ = "none" THEN "pending" ELSE @]
             /\ Go(w, "ready")
        ELSE Answer(w, "error") /\ UNCHANGED ns
  /\ UNCHANGED <<Rest, fresh, disturbed>>

(* Mutant of SeeReady: the handler of /api/runtime/open goes on to the shell. *)
SeeReady_NoReturn(w) ==
  /\ pc[w] = "ready"
  /\ ns[Key(w)].pod \in {"ready", "leaving"}
  /\ Go(w, "stream")
  /\ UNCHANGED <<Rest, cluster>>

(* waitForToolboxReady looks at the phase and the Ready condition, which a *)
(* pod that is being stopped may still have. Then /api/runtime/open        *)
(* answers, or the WebSocket is upgraded and its shell starts.             *)
SeeReady(w) ==
  /\ pc[w] = "ready"
  /\ ns[Key(w)].pod \in {"ready", "leaving"}
  /\ IF job[w].kind = "open" THEN Answer(w, "ready") ELSE Go(w, "stream")
  /\ UNCHANGED <<Rest, cluster>>

(* The deadline of a wait: 45 seconds for the removal of a namespace, 90   *)
(* for the pod.                                                            *)
TimeOut(w) ==
  /\ pc[w] \in {"gone", "ready"}
  /\ Answer(w, "timeout")
  /\ UNCHANGED <<Rest, cluster>>

(* The client goes away while EnsureLab runs, or an API call fails. *)
Cancel(w) ==
  /\ MayFail
  /\ pc[w] \in Ensuring
  /\ Answer(w, "error")
  /\ disturbed' = disturbed \cup {w}
  /\ fresh' = fresh \ {w}
  /\ UNCHANGED <<Rest, ns>>

-----------------------------------------------------------------------------
(* ServeTerminal *)

(* The upgrade, the first message or the executor fails: ServeTerminal     *)
(* returns before it has deferred the reset.                               *)
TerminalFails(w) ==
  /\ MayFail
  /\ pc[w] = "stream"
  /\ Answer(w, "closed")
  /\ UNCHANGED <<Rest, cluster>>

(* The student closes the terminal, leaves its shell, or goes away. *)
CloseTerminal(w) ==
  /\ pc[w] = "stream"
  /\ Go(w, "reset")
  /\ UNCHANGED <<Rest, cluster>>

(* resetLabEnvironment, deferred: the namespace is purged by its name. *)
ResetLab(w) ==
  /\ pc[w] = "reset"
  /\ \/ Purge(Key(w))
     \/ MayFail /\ UNCHANGED cluster
  /\ Answer(w, "closed")
  /\ UNCHANGED Rest

Step(w) ==
  \/ GetNamespace(w) \/ AwaitGone(w) \/ CreateNamespace(w) \/ UpdateNamespace(w)
  \/ EnsureAccess(w) \/ GetPod(w) \/ DeletePod(w) \/ CreatePod(w)
  \/ SeeReady(w) \/ TimeOut(w) \/ ResetLab(w)

-----------------------------------------------------------------------------
(* The collector *)

(* Mutant of Stale: environments in use are spared. *)
Stale_Unused(k) == ns[k].phase # "absent" /\ ns[k].old /\ ns[k].pod # "ready"

(* Mutant of Stale: environments of students who are gone are not found. *)
Stale_Enrolled(k) == ns[k].phase # "absent" /\ ns[k].old /\ k[1] \in students

(* Listed by the collector, and as old as maxAge. *)
Stale(k) == ns[k].phase # "absent" /\ ns[k].old

(* collectStaleNamespaces, on a tick: list, and keep the old ones. *)
CollectorLists ==
  /\ gc = {}
  /\ gc' = {k \in Keys : Stale(k)}
  /\ gc' # {}
  /\ UNCHANGED <<students, cluster, workers, admin>>

(* One name of the list is purged. *)
CollectorPurges(k) ==
  /\ k \in gc
  /\ Purge(k)
  /\ gc' = gc \ {k}
  /\ UNCHANGED <<students, workers, admin>>

(* A purge that fails is logged and the loop goes on. *)
CollectorFails(k) ==
  /\ MayFail
  /\ k \in gc
  /\ gc' = gc \ {k}
  /\ UNCHANGED <<students, cluster, workers, admin>>

-----------------------------------------------------------------------------
(* DELETE /api/admin/students: DeleteStudentNamespaces, then the row *)

StartDeletion(s) ==
  /\ admin = NoDeletion
  /\ s \in students
  /\ admin' = [phase |-> "list", student |-> s, todo |-> {}, failed |-> FALSE,
               since |-> {}]
  /\ UNCHANGED <<students, cluster, workers, gc>>

(* List by the label of the student. *)
ListNamespaces ==
  /\ admin.phase = "list"
  /\ admin' = [admin EXCEPT
       !.phase = "purge",
       !.todo = {k \in Keys : k[1] = admin.student /\ ns[k].phase # "absent"},
       !.since = {}]
  /\ UNCHANGED <<students, cluster, workers, gc>>

(* Purge one of them; a failure is remembered and the loop goes on. *)
PurgeListed(k) ==
  /\ admin.phase = "purge"
  /\ k \in admin.todo
  /\ \/ /\ Purge(k)
        /\ admin' = [admin EXCEPT !.todo = @ \ {k}]
     \/ /\ MayFail
        /\ admin' = [admin EXCEPT !.todo = @ \ {k}, !.failed = TRUE]
        /\ UNCHANGED cluster
  /\ UNCHANGED <<students, workers, gc>>

(* Mutant of FinishPurge: the failures are logged and the student deleted. *)
FinishPurge_Logged ==
  /\ admin.phase = "purge" /\ admin.todo = {}
  /\ admin' = [admin EXCEPT !.phase = "row"]
  /\ UNCHANGED <<students, cluster, workers, gc>>

(* With a failure the request ends and the student stays. *)
FinishPurge ==
  /\ admin.phase = "purge" /\ admin.todo = {}
  /\ admin' = IF admin.failed THEN NoDeletion ELSE [admin EXCEPT !.phase = "row"]
  /\ UNCHANGED <<students, cluster, workers, gc>>

(* store.DeleteStudent: the sessions go with the row. *)
DeleteStudent ==
  /\ admin.phase = "row"
  /\ students' = students \ {admin.student}
  /\ admin' = NoDeletion
  /\ UNCHANGED <<cluster, workers, gc>>

(* The administrator goes away, or the listing or the row's DELETE fails. *)
AbandonDeletion ==
  /\ MayFail
  /\ admin # NoDeletion
  /\ admin' = NoDeletion
  /\ UNCHANGED <<students, cluster, workers, gc>>

Deletion ==
  \/ ListNamespaces
  \/ \E k \in Keys : PurgeListed(k)
  \/ FinishPurge
  \/ DeleteStudent

-----------------------------------------------------------------------------
(* The cluster and the server process *)

SetPod(k, p) == ns' = [ns EXCEPT ![k].pod = p]

PodStarts(k) ==
  /\ ns[k].pod = "pending"
  /\ SetPod(k, "ready")
  /\ UNCHANGED <<Rest, fresh, disturbed, workers>>

(* A terminating namespace deletes its pods; the student, whose role may   *)
(* edit the namespace, or a drained node may delete one at any time.       *)
PodDeleted(k) ==
  /\ ns[k].pod \in {"pending", "ready", "ended"}
  /\ \E p \in AfterDelete(ns[k].pod) : SetPod(k, p)
  /\ UNCHANGED <<Rest, fresh, disturbed, workers>>

(* The pod is evicted: it stays there in phase Failed. *)
PodEvicted(k) ==
  /\ MayFail
  /\ ns[k].pod = "ready"
  /\ SetPod(k, "ended")
  /\ pc' = [w \in Workers |->
             IF pc[w] = "stream" /\ Key(w) = k THEN "reset" ELSE pc[w]]
  /\ UNCHANGED <<Rest, fresh, disturbed, job, reply>>

(* A pod that is being stopped is gone, and the streams of the terminals   *)
(* attached to it end.                                                     *)
PodGone(k) ==
  /\ ns[k].pod \in {"leaving", "stopping"}
  /\ SetPod(k, "none")
  /\ pc' = [w \in Workers |->
             IF pc[w] = "stream" /\ Key(w) = k THEN "reset" ELSE pc[w]]
  /\ UNCHANGED <<Rest, fresh, disturbed, job, reply>>

(* The last content of a terminating namespace is removed, and it goes. *)
NamespaceGone(k) ==
  /\ ns[k].phase = "terminating" /\ ns[k].pod = "none"
  /\ ns' = [ns EXCEPT ![k] = Absent]
  /\ UNCHANGED <<Rest, fresh, disturbed, workers>>

(* The namespace reaches maxAge. *)
NamespaceAges(k) ==
  /\ ns[k].phase # "absent" /\ ~ns[k].old
  /\ ns' = [ns EXCEPT ![k].old = TRUE]
  /\ UNCHANGED <<Rest, fresh, disturbed, workers>>

(* The server stops and starts again: the requests in flight, the deferred *)
(* resets and the collector's list are lost.                               *)
Crash ==
  /\ MayFail
  /\ pc' = [w \in Workers |-> "idle"]
  /\ job' = [w \in Workers |-> Idle]
  /\ reply' = [w \in Workers |-> "none"]
  /\ fresh' = {} /\ gc' = {} /\ admin' = NoDeletion
  /\ UNCHANGED <<students, ns, disturbed>>

Cluster(k) ==
  \/ PodStarts(k) \/ PodDeleted(k) \/ PodEvicted(k) \/ PodGone(k)
  \/ NamespaceGone(k) \/ NamespaceAges(k)

Next ==
  \/ \E w \in Workers, k \in Keys, code \in Codes, kind \in Kinds :
       Open(w, k, code, kind)
  \/ \E w \in Workers : Step(w) \/ Cancel(w) \/ TerminalFails(w) \/ CloseTerminal(w)
  \/ CollectorLists
  \/ \E k \in Keys : CollectorPurges(k) \/ CollectorFails(k)
  \/ \E s \in Students : StartDeletion(s)
  \/ Deletion \/ AbandonDeletion
  \/ \E k \in Keys : Cluster(k)
  \/ Crash

Spec == Init /\ [][Next]_vars

(* The goroutines of the requests, of the collector and of a deletion keep *)
(* running, the waits have deadlines, the cluster removes what is deleted  *)
(* and time passes. The collector runs every half hour for as long as      *)
(* there is something to collect, so a purge that is tried again and again *)
(* is not refused or cut short each time. Nobody has to open or close a    *)
(* terminal.                                                               *)
Fairness ==
  /\ \A w \in Workers : WF_vars(Step(w))
  /\ WF_vars(Deletion)
  /\ WF_vars(CollectorLists)
  /\ \A k \in Keys :
       /\ SF_vars(CollectorPurges(k))
       /\ WF_vars(PodStarts(k))
       /\ WF_vars(ns[k].phase = "terminating" /\ PodDeleted(k))
       /\ WF_vars(PodGone(k))
       /\ WF_vars(NamespaceGone(k))
       /\ WF_vars(NamespaceAges(k))

FairSpec == Spec /\ Fairness

-----------------------------------------------------------------------------
(* Properties *)

(* However many requests open the same environment at once, none makes     *)
(* another fail unless they disagree on the code of the cohort: EnsureLab  *)
(* answers with an error, other than a deadline, only if its namespace was *)
(* being deleted meanwhile, another request changed the cohort label       *)
(* between its Get and its Update, or the request was cancelled or an API  *)
(* call failed. (AlreadyExists is never an error, whoever creates.)        *)
ErrorsAreDisturbed ==
  [][\A w \in Workers :
       pc[w] # "idle" /\ reply'[w] = "error" => w \in disturbed']_vars

(* When the row of a student is deleted each of their namespaces has been  *)
(* purged, unless it was created after they were listed: no failure of a   *)
(* purge is passed over (DeleteStudentNamespaces, handleAdminStudents).    *)
PurgedBeforeDeleted ==
  [][\A k \in Keys :
       k[1] \in students \ students' /\ ns[k].phase = "active"
         => k \in admin.since]_vars

(* docs/hosted-architecture.md, "Ao final da aula ou por timeout, o        *)
(* ambiente e limpo": every environment is removed in the end, even if its *)
(* terminal is never closed, the deferred reset fails or the server        *)
(* restarts.                                                               *)
EnvironmentsEnd ==
  \A k \in Keys : ns[k].phase = "active" ~> ns[k].phase = "absent"

(* A deleted student ends up with no environment for good, although a      *)
(* request in flight may still create one after the deletion has listed    *)
(* the namespaces: the collector finds it.                                 *)
DeletedLeaveNothing ==
  \A k \in Keys : k[1] \notin students ~> [](ns[k].phase = "absent")

=============================================================================
