------------------------- MODULE CpusetEntitlement -------------------------
(***************************************************************************)
(* Why a container's cpuset is its own, and why the annotation tells the   *)
(* truth: the assumptions on the configuration of the node, and the        *)
(* inductive invariants that imply WithinEntitlement,                      *)
(* PinnedBeforeAnnotation and AnnotatedMeansPinned (proved in              *)
(* CpusetEntitlement_proofs).                                              *)
(***************************************************************************)
EXTENDS CpusetIsolation, PoolNames

\* Pools and requests are named as the documents ask for, and there is a default
\* pool.  Beyond these names the result depends on Go's map order, and without a
\* default pool some containers and all infra containers are never set.
ASSUME NamesAssumption ==
  /\ UnambiguousNames(PoolConfig)
  /\ \A p \in Pods : \A i \in Containers(p) : ServableRequests(PoolConfig, Requested(p, i))

ASSUME DefaultPoolAssumption == DefaultCpus # {}

-----------------------------------------------------------------------------
(* WithinEntitlement.                                                       *)

\* From when a Pod is bound on, its allocation does not change.
Admitted(p) == phase[p] = "bound" \/ Ended(p)

Working(r) == r.pc \in {"determine", "apply", "infra", "annotate"}

\* The kubelet allocates what is requested.
EntriesRequested == \A e \in checkpoint : e.pool \in Requested(e.pod, e.cont)

\* Nobody works on a Pod that is not bound yet.
CopiesAdmitted ==
  /\ \A k \in DOMAIN queue : queue[k].bound => Admitted(queue[k].pod)
  /\ \A w \in Workers :
       /\ worker[w].bound => Admitted(worker[w].pod)
       /\ Working(worker[w]) => worker[w].bound
  /\ \A d \in rec.todo : Admitted(d[1])
  /\ rec.pc \in {"determine", "write"} => Admitted(rec.dir[1])

\* A set that was computed and not yet written is the container's, or its Pod has
\* ended since.
PendingEntitled ==
  /\ \A w \in Workers :
       LET r == worker[w]
       IN  r.pc = "apply" => r.set = Entitled(r.pod, r.cont) \/ Ended(r.pod)
  /\ rec.pc = "write" => rec.set = Entitled(rec.dir[1], rec.dir[2]) \/ Ended(rec.dir[1])

EntitlementInv ==
  /\ EntriesRequested
  /\ CopiesAdmitted
  /\ PendingEntitled
  /\ WithinEntitlement

-----------------------------------------------------------------------------
(* PinnedBeforeAnnotation.                                                  *)

\* Only the last incarnation of a container has a directory.
DirsLatest == \A d \in dirs : d[2] # 0 => d[3] = inc[d[1]][d[2]]

\* A copy of p's status tells of no incarnation that is still to come.
Behind(copy, p) == \A i \in Containers(p) : copy[i] <= inc[p][i]

CopiesBehind ==
  /\ \A p \in Pods : Behind(status[p], p)
  /\ \A k \in DOMAIN queue : Behind(queue[k].status, queue[k].pod)
  /\ \A w \in Workers :
       LET r == worker[w]
       IN  /\ r.pc # "idle" => Behind(r.status, r.pod)
           /\ Working(r) => \A i \in Containers(r.pod) : r.status[i] # 0

\* The directory of container i according to the copy that r works on.
CopyDir(r, i) == <<r.pod, i, r.status[i]>>

\* The containers of the copy that a worker is done with have their cpusets, if
\* they still run.
DoneWith(r, i) == r.pc \in {"infra", "annotate"} \/ i < r.cont

DonePinned ==
  \A w \in Workers :
    LET r == worker[w]
    IN  Working(r) =>
          \A i \in Containers(r.pod) :
            DoneWith(r, i) /\ CopyDir(r, i) \in dirs => Pinned(CopyDir(r, i))

AnnotationInv == DirsLatest /\ CopiesBehind /\ DonePinned

\* Two workers on one Pod work on the same incarnations; where they do not, one
\* takes the other's container for the infra container.
CopiesAgree ==
  \A v, w \in Workers :
    Working(worker[v]) /\ Working(worker[w]) /\ worker[v].pod = worker[w].pod
      => worker[v].status = worker[w].status

\* Three ways to be sure of it: no Pod gets the name of another...
NoNameReused == \A p, q \in Pods : NameOf[p] = NameOf[q] => p = q

\* ...or there is one worker, or no container restarts.
OneCopyAtATime ==
  \/ NoNameReused
  \/ \A v, w \in Workers : v = w
  \/ MaxRestarts = 0

\* With unique names, a Pod is at most once in the queue or with a worker: its
\* ADD is delivered once in the life of the process, and the copy a worker reads
\* is of the same Pod.
HeldOnce ==
  /\ \A k \in DOMAIN queue : queue[k].pod \in known
  /\ \A j, k \in DOMAIN queue : queue[j].pod = queue[k].pod => j = k
  /\ \A w \in Workers : worker[w].pc # "idle" =>
       /\ worker[w].pod \in known
       /\ \A k \in DOMAIN queue : queue[k].pod # worker[w].pod
       /\ \A v \in Workers : worker[v].pod = worker[w].pod => v = w

-----------------------------------------------------------------------------
(* AnnotatedMeansPinned, without restarts and with unique names.            *)

\* When a worker is about to annotate a Pod, its infra container has the default
\* set; all containers of an annotated Pod have been started.
Settled ==
  /\ \A w \in Workers :
       LET r == worker[w]
       IN  r.pc = "annotate" /\ Infra(r.pod) \in dirs => cpus[Infra(r.pod)] = DefaultCpus
  /\ \A p \in annotated : Admitted(p) /\ \A i \in Containers(p) : inc[p][i] # 0
  /\ AnnotatedMeansPinned
=============================================================================
