-------------------------- MODULE CpusetController --------------------------
(***************************************************************************)
(* The cpusets controller of one node (pkg/controller/controller.go):      *)
(* worker goroutines fed by a Pod informer through a work queue, and the   *)
(* periodic reconciliation goroutine, all writing cpuset.cpus files of the *)
(* same cgroup tree, while the kubelet creates, restarts and removes       *)
(* containers, and while the controller process itself dies and restarts.  *)
(*                                                                         *)
(* One action is one interaction of a goroutine with the outside world (an *)
(* API call, a read of the checkpoint, a write of a cgroup file) with all  *)
(* the local computation that surrounds it.  The goroutines share no       *)
(* memory, so finer steps would add no behaviour.                          *)
(*                                                                         *)
(* The kubelet, the container runtime and the API server are external:     *)
(* their actions say what the controller can see of them.                  *)
(***************************************************************************)
EXTENDS Naturals, FiniteSets, CpusetCalc

CONSTANTS
  Pods,           \* Pod UIDs, each used by at most one Pod
  NoPod,          \* held by a worker that holds no Pod
  Workers,        \* the worker goroutines (NumberOfWorkers in cpusets.go)
  NameOf,         \* NameOf[p]: namespace/name of p; a deleted Pod's is reusable
  LocalPods,      \* the Pods the scheduler binds to the controller's node
  Requests,       \* Requests[p][i]: requested pool -> quantity, container i of p
  PoolConfig,     \* the pool configuration selected for the node
  HTMap,          \* GetHTTopology() of the node
  NumCPU,         \* runtime.NumCPU()
  Inherited,      \* the cpuset a new container cgroup starts with
  PatchAllowed,   \* whether the API server lets the controller patch Pods
  MaxRetryCount,  \* 150 in const.go
  MaxRestarts,    \* bound: incarnations of a container after the first
  MaxFaults,      \* bound: transient failures of external calls
  MaxCrashes      \* bound: deaths of the controller process

CPU == Inherited \cup UNION {AddHTSiblingsToCPUSet(PoolConfig[n].cpus, HTMap) : n \in DOMAIN PoolConfig}

Containers(p)   == DOMAIN Requests[p]
Requested(p, i) == DOMAIN Requests[p][i]

\* The cgroup directory <<p, i, k>> is that of the k-th incarnation of container
\* i of Pod p; the infra (sandbox) container of p is <<p, 0, 1>>.
Incarnations == 1..(MaxRestarts + 1)
Infra(p)     == <<p, 0, 1>>
PodDirs(p)   == {Infra(p)} \cup {<<p, i, k>> : i \in Containers(p), k \in Incarnations}
Dirs         == UNION {PodDirs(p) : p \in Pods}

ASSUME ConstantsAssumption ==
  /\ NoPod \notin Pods
  /\ LocalPods \subseteq Pods
  /\ \A n \in DOMAIN PoolConfig : PoolConfig[n].ht \in {SingleThreadHTPolicy, MultiThreadHTPolicy}
  /\ \A p \in Pods : /\ Len(Requests[p]) \in Nat \ {0}
                     /\ Containers(p) = 1..Len(Requests[p])
  /\ \A p \in Pods : \A i \in Containers(p) : Requested(p, i) \subseteq DOMAIN PoolConfig
  /\ MaxRetryCount \in Nat \ {0}
  /\ MaxRestarts \in Nat /\ MaxFaults \in Nat /\ MaxCrashes \in Nat
  /\ NumCPU \in Nat
  /\ PatchAllowed \in BOOLEAN

VARIABLES
  phase,      \* API server: lifecycle of each Pod object
  status,     \* API server: incarnation per container in Pod.Status, 0: no ID
  annotated,  \* API server: Pods carrying the cpusets-configured annotation
  inc,        \* container runtime: the last incarnation created, 0: none
  dirs,       \* cgroupfs: the directories that exist
  cpus,       \* cgroupfs: cpuset.cpus of each directory, {} where there is none
  checkpoint, \* kubelet: device allocations
  up,         \* whether the controller process runs
  known,      \* informer cache: Pods whose ADD has been delivered
  queue,      \* work queue of Pod snapshots
  worker,     \* per worker: what it is doing, with the Pod copy it holds
  rec,        \* the reconciliation goroutine
  faults,     \* transient failures so far
  crashes     \* process deaths so far

apiVars  == <<phase, status, annotated>>
nodeVars == <<inc, dirs, cpus, checkpoint>>
procVars == <<up, known, queue, worker, rec>>
vars     == <<apiVars, nodeVars, procVars, faults, crashes>>

InAPI == {"pending", "bound", "finished"}   \* phases of a Pod the API server has

NotReported(p) == [i \in Containers(p) |-> 0]

\* A worker between two items, and the reconciler between two ticks.
Idle    == [pc |-> "idle", pod |-> NoPod, bound |-> FALSE, status |-> <<>>,
            try |-> 0, cont |-> 1, set |-> {}, path |-> FALSE]
Resting == [pc |-> "idle", todo |-> {}, dir |-> <<NoPod, 0, 1>>, set |-> {}]

Init ==
  /\ phase = [p \in Pods |-> "none"]
  /\ status = [p \in Pods |-> NotReported(p)]
  /\ annotated = {}
  /\ inc = [p \in Pods |-> NotReported(p)]
  /\ dirs = {}
  /\ cpus = [d \in Dirs |-> {}]
  /\ checkpoint = {}
  /\ up = FALSE
  /\ known = {}
  /\ queue = <<>>
  /\ worker = [w \in Workers |-> Idle]
  /\ rec = Resting
  /\ faults = 0
  /\ crashes = 0

-----------------------------------------------------------------------------
(* The cluster around the controller (external).                           *)

CreatePod(p) ==
  /\ phase[p] = "none"
  /\ \A q \in Pods : phase[q] \in InAPI => NameOf[q] # NameOf[p]
  /\ phase' = [phase EXCEPT ![p] = "pending"]
  /\ UNCHANGED <<status, annotated, nodeVars, procVars, faults, crashes>>

\* The kubelet drops the entries of Pods that ended when it next allocates.
LiveEntries == {e \in checkpoint : phase[e.pod] = "bound"}

\* The exclusive resources of p, and the entries the device manager may record
\* for them: as many devices of each pool as requested, none given out twice.
Claims(p) == {c \in {<<i, n>> : i \in Containers(p), n \in DOMAIN PoolConfig} :
                /\ c[2] \in Requested(p, c[1])
                /\ DeterminePoolType(c[2]) = ExclusivePoolID}

FreeDevices(n) == PoolConfig[n].cpus \ UNION {e.devices : e \in {x \in LiveEntries : x.pool = n}}

IsAllocation(p, alloc) ==
  \A c \in Claims(p) :
    /\ alloc[c] \subseteq FreeDevices(c[2])
    /\ Cardinality(alloc[c]) = Requests[p][c[1]][c[2]]
    /\ \A b \in Claims(p) : b # c /\ b[2] = c[2] => alloc[b] \cap alloc[c] = {}

Entries(p, alloc) ==
  {[pod |-> p, cont |-> c[1], pool |-> c[2], devices |-> alloc[c]] : c \in Claims(p)}

\* The scheduler binds p; on this node the kubelet admits it (allocating its
\* devices) and creates its sandbox.
BindPod(p) ==
  /\ phase[p] = "pending"
  /\ phase' = [phase EXCEPT ![p] = "bound"]
  /\ IF p \in LocalPods
     THEN /\ \E alloc \in [Claims(p) -> SUBSET CPU] :
               /\ IsAllocation(p, alloc)
               /\ checkpoint' = LiveEntries \cup Entries(p, alloc)
          /\ dirs' = dirs \cup {Infra(p)}
          /\ cpus' = [cpus EXCEPT ![Infra(p)] = Inherited]
     ELSE UNCHANGED <<checkpoint, dirs, cpus>>
  /\ UNCHANGED <<status, annotated, inc, procVars, faults, crashes>>

\* A container is created, or created again after its last incarnation ended.
StartContainer(p, i) ==
  LET d == <<p, i, inc[p][i] + 1>>
  IN  /\ phase[p] = "bound"
      /\ inc[p][i] <= MaxRestarts
      /\ <<p, i, inc[p][i]>> \notin dirs
      /\ inc' = [inc EXCEPT ![p][i] = @ + 1]
      /\ IF p \in LocalPods
         THEN dirs' = dirs \cup {d} /\ cpus' = [cpus EXCEPT ![d] = Inherited]
         ELSE UNCHANGED <<dirs, cpus>>
      /\ UNCHANGED <<apiVars, checkpoint, procVars, faults, crashes>>

RemoveDirs(ds) ==
  /\ dirs' = dirs \ ds
  /\ cpus' = [d \in Dirs |-> IF d \in ds THEN {} ELSE cpus[d]]

ExitContainer(p, i) ==
  LET d == <<p, i, inc[p][i]>>
  IN  /\ d \in dirs
      /\ inc[p][i] <= MaxRestarts
      /\ RemoveDirs({d})
      /\ UNCHANGED <<apiVars, inc, checkpoint, procVars, faults, crashes>>

ReportStatus(p) ==
  /\ phase[p] = "bound"
  /\ status[p] # inc[p]
  /\ status' = [status EXCEPT ![p] = inc[p]]
  /\ UNCHANGED <<phase, annotated, nodeVars, procVars, faults, crashes>>

\* The Pod runs to completion, or it is deleted.
EndPod(p, to) ==
  /\ \/ phase[p] = "bound" /\ to = "finished"
     \/ phase[p] \in InAPI /\ to = "deleted"
  /\ phase' = [phase EXCEPT ![p] = to]
  /\ RemoveDirs(PodDirs(p))
  /\ UNCHANGED <<status, annotated, inc, checkpoint, procVars, faults, crashes>>

ClusterStep ==
  \E p \in Pods :
    \/ CreatePod(p)
    \/ BindPod(p)
    \/ \E i \in Containers(p) : StartContainer(p, i) \/ ExitContainer(p, i)
    \/ ReportStatus(p)
    \/ \E to \in {"finished", "deleted"} : EndPod(p, to)

-----------------------------------------------------------------------------
(* Informer: only ADD has a handler.  The snapshot queued may be as old as  *)
(* the Pod's creation by the time a worker takes it.                        *)

Item(p) == [pod |-> p, bound |-> phase[p] # "pending", finished |-> phase[p] = "finished",
            status |-> status[p]]

PodAdded(p) ==
  /\ up
  /\ p \notin known
  /\ phase[p] \in InAPI
  /\ known' = known \cup {p}
  /\ queue' = Append(queue, Item(p))
  /\ UNCHANGED <<apiVars, nodeVars, up, worker, rec, faults, crashes>>

-----------------------------------------------------------------------------
(* Workers.                                                                 *)

\* A transient failure of an external call.
Fault     == faults < MaxFaults /\ faults' = faults + 1
NoFault   == UNCHANGED faults

Goto(w, r)     == worker' = [worker EXCEPT ![w] = r]
WorkerFrame    == UNCHANGED <<up, known, rec, crashes>>
OutsideFrame   == UNCHANGED <<apiVars, nodeVars>>

\* processNextWorkItem, and the first check of shouldPodBeHandled.
WorkerGet(w) ==
  /\ up
  /\ worker[w].pc = "idle"
  /\ queue # <<>>
  /\ queue' = Tail(queue)
  /\ LET item == Head(queue)
     IN  Goto(w, IF item.finished THEN Idle
                 ELSE [pc |-> "refresh", pod |-> item.pod, bound |-> item.bound,
                       status |-> item.status, try |-> 0, cont |-> 1, set |-> {}, path |-> FALSE])
  /\ NoFault /\ WorkerFrame /\ OutsideFrame

\* RefreshPod reads by name, so the answer may be another Pod of that name.
Refreshed(p) == {q \in Pods : NameOf[q] = NameOf[p] /\ phase[q] \in InAPI}

\* isPodReadyForProcessing, of the Pod as the API server has it.
IsPodReadyForProcessing(q) ==
  /\ phase[q] # "pending"
  /\ \A i \in Containers(q) : status[q][i] # 0

\* The rest of shouldPodBeHandled (is the Pod this node's?) and
\* gatherAllContainers (nothing to do unless every container has an ID): the
\* worker that continues with r's copy of its Pod, or drops it.
Accepted(r) ==
  IF r.bound /\ r.pod \in LocalPods /\ \A i \in Containers(r.pod) : r.status[i] # 0
  THEN [r EXCEPT !.pc = "determine", !.try = 0]
  ELSE Idle

\* One round of the polling loop; after the last the event's copy is used.
WorkerRefresh(w) ==
  LET r == worker[w]
  IN  /\ up
      /\ r.pc = "refresh"
      /\ \/ /\ NoFault
            /\ \E q \in Refreshed(r.pod) :
                 IF IsPodReadyForProcessing(q)
                 THEN Goto(w, Accepted([r EXCEPT !.pod = q, !.bound = TRUE, !.status = status[q]]))
                 ELSE Goto(w, IF r.try + 1 < MaxRetryCount
                              THEN [r EXCEPT !.try = @ + 1]
                              ELSE Accepted(r))
         \/ /\ IF Refreshed(r.pod) = {} THEN NoFault ELSE Fault
            /\ Goto(w, Idle)
      /\ UNCHANGED queue /\ WorkerFrame /\ OutsideFrame

\* Mutants of Retry: one round too many; rounds not counted.
RetryOnceMore(r) ==
  IF r.try < MaxRetryCount
  THEN [r EXCEPT !.pc = "determine", !.try = @ + 1, !.cont = 1, !.set = {}, !.path = FALSE]
  ELSE Idle

RetryForever(r) ==
  [r EXCEPT !.pc = "determine", !.cont = 1, !.set = {}, !.path = FALSE]

\* handlePods: adjustContainerSets failed.  Start over with the same copy of
\* the Pod, or give up after the last round.
Retry(r) ==
  IF r.try + 1 < MaxRetryCount
  THEN [r EXCEPT !.pc = "determine", !.try = @ + 1, !.cont = 1, !.set = {}, !.path = FALSE]
  ELSE Idle

\* What determineCorrectCpuset may return for container i of p, now.
CorrectSets(p, i) ==
  DetermineCorrectCpuset(PoolConfig, HTMap, checkpoint, p, i, Requested(p, i))

\* Only a container with an exclusive request makes it read the checkpoint.
ReadsCheckpoint(p, i) == \E n \in Requested(p, i) : IsExclusiveRequest(n)

WorkerDetermine(w) ==
  LET r == worker[w]
  IN  /\ up
      /\ r.pc = "determine"
      /\ \/ /\ NoFault
            /\ \E s \in CorrectSets(r.pod, r.cont) :
                 Goto(w, [r EXCEPT !.pc = "apply", !.set = s])
         \/ ReadsCheckpoint(r.pod, r.cont) /\ Fault /\ Goto(w, Retry(r))
      /\ UNCHANGED queue /\ WorkerFrame /\ OutsideFrame

\* Mutant of NextContainer: the loop ends one container early.
NextContainerButLast(r, path) ==
  IF r.cont + 2 \in Containers(r.pod)
  THEN [r EXCEPT !.pc = "determine", !.cont = @ + 1, !.set = {}, !.path = path]
  ELSE [r EXCEPT !.pc = "infra", !.cont = 1, !.set = {}, !.path = path]

\* The loop of adjustContainerSets moves on; path tells whether
\* applyCpusetToContainer returned the path it wrote to.
NextContainer(r, path) ==
  IF r.cont + 1 \in Containers(r.pod)
  THEN [r EXCEPT !.pc = "determine", !.cont = @ + 1, !.set = {}, !.path = path]
  ELSE [r EXCEPT !.pc = "infra", !.cont = 1, !.set = {}, !.path = path]

\* applyCpusetToContainer: the directory is found by the container ID of the
\* copy.  A walk of the cgroup tree may also fail on an unrelated directory.
WorkerApply(w) ==
  LET r == worker[w]
      d == <<r.pod, r.cont, r.status[r.cont]>>
  IN  /\ up
      /\ r.pc = "apply"
      /\ \/ r.set = {} /\ NoFault /\ Goto(w, NextContainer(r, FALSE)) /\ UNCHANGED cpus
         \/ /\ r.set # {} /\ d \in dirs /\ NoFault
            /\ cpus' = [cpus EXCEPT ![d] = r.set]
            /\ Goto(w, NextContainer(r, TRUE))
         \/ r.set # {} /\ d \notin dirs /\ NoFault /\ Goto(w, Retry(r)) /\ UNCHANGED cpus
         \/ r.set # {} /\ d \in dirs /\ Fault /\ Goto(w, Retry(r)) /\ UNCHANGED cpus
      /\ UNCHANGED <<queue, apiVars, inc, dirs, checkpoint>> /\ WorkerFrame

\* Mutant of InfraCandidates: the containers' own directories are not excluded.
InfraCandidatesAny(r) == dirs \cap PodDirs(r.pod)

\* getInfraContainerPath: any directory of the Pod whose name is not a container
\* ID of the copy (the last one in the order of names, which are random IDs).
InfraCandidates(r) ==
  {d \in dirs \cap PodDirs(r.pod) : ~ \E i \in Containers(r.pod) : d = <<r.pod, i, r.status[i]>>}

DefaultSets == {pool.cpus : pool \in SelectPoolConfig(PoolConfig, <<DefaultPoolID>>)}

\* applyCpusetToInfraContainer
WorkerInfra(w) ==
  LET r == worker[w]
  IN  /\ up
      /\ r.pc = "infra"
      /\ \E default \in DefaultSets :
           \/ default = {} /\ NoFault /\ Goto(w, [r EXCEPT !.pc = "annotate"]) /\ UNCHANGED cpus
           \/ /\ default # {} /\ r.path /\ NoFault
              /\ \E d \in InfraCandidates(r) : cpus' = [cpus EXCEPT ![d] = default]
              /\ Goto(w, [r EXCEPT !.pc = "annotate"])
           \/ /\ default # {}
              /\ IF r.path /\ InfraCandidates(r) # {} THEN Fault ELSE NoFault
              /\ Goto(w, Retry(r))
              /\ UNCHANGED cpus
      /\ UNCHANGED <<queue, apiVars, inc, dirs, checkpoint>> /\ WorkerFrame

\* SetPodAnnotation patches by name, like RefreshPod reads by name.
WorkerAnnotate(w) ==
  LET r == worker[w]
  IN  /\ up
      /\ r.pc = "annotate"
      /\ \/ /\ PatchAllowed /\ NoFault
            /\ \E q \in Refreshed(r.pod) : annotated' = annotated \cup {q}
            /\ Goto(w, Idle)
         \/ /\ IF PatchAllowed /\ Refreshed(r.pod) # {} THEN Fault ELSE NoFault
            /\ Goto(w, Retry(r))
            /\ UNCHANGED annotated
      /\ UNCHANGED <<queue, phase, status, nodeVars>> /\ WorkerFrame

WorkerStep(w) ==
  \/ WorkerGet(w) \/ WorkerRefresh(w) \/ WorkerDetermine(w)
  \/ WorkerApply(w) \/ WorkerInfra(w) \/ WorkerAnnotate(w)

-----------------------------------------------------------------------------
(* The reconciliation loop.                                                 *)

RecFrame == UNCHANGED <<apiVars, inc, dirs, checkpoint, up, known, queue, worker, crashes>>

\* The containers with an ID among the Pods the API server lists for the node.
ListedContainers ==
  UNION {{<<p, i, status[p][i]>> : i \in {j \in Containers(p) : status[p][j] # 0}} :
           p \in {q \in LocalPods : phase[q] \in {"bound", "finished"}}}

RecList ==
  /\ up
  /\ rec.pc = "idle"
  /\ rec' = [rec EXCEPT !.pc = "leaves", !.todo = ListedContainers]
  /\ UNCHANGED <<cpus, faults>> /\ RecFrame

\* getLeafCpusets; a listed container without a directory is skipped later.
RecLeaves ==
  /\ up
  /\ rec.pc = "leaves"
  /\ \/ NoFault /\ rec' = [rec EXCEPT !.pc = "read", !.todo = @ \cap dirs]
     \/ Fault /\ rec' = Resting
  /\ UNCHANGED cpus /\ RecFrame

\* Mutant of BadCpuset: off by one.
BadCpusetTooLarge == 0..NumCPU

\* The set meaning "nobody has set this cpuset yet".
BadCpuset == 0..(NumCPU - 1)

\* reconcileContainer reads the next leaf (a failed read gives the empty set).
RecRead ==
  /\ up
  /\ rec.pc = "read"
  /\ \/ rec.todo = {} /\ rec' = Resting
     \/ \E d \in rec.todo :
          rec' = IF cpus[d] = BadCpuset
                 THEN [rec EXCEPT !.pc = "determine", !.todo = @ \ {d}, !.dir = d]
                 ELSE [rec EXCEPT !.todo = @ \ {d}]
  /\ UNCHANGED <<cpus, faults>> /\ RecFrame

RecDetermine ==
  LET p == rec.dir[1]
      i == rec.dir[2]
  IN  /\ up
      /\ rec.pc = "determine"
      /\ \/ NoFault /\ \E s \in CorrectSets(p, i) : rec' = [rec EXCEPT !.pc = "write", !.set = s]
         \/ ReadsCheckpoint(p, i) /\ Fault /\ rec' = [Resting EXCEPT !.pc = "read", !.todo = rec.todo]
      /\ UNCHANGED cpus /\ RecFrame

\* The write fails if the directory is gone; the kernel refuses an empty cpuset
\* for a cgroup with tasks.
RecWrite ==
  /\ up
  /\ rec.pc = "write"
  /\ \/ /\ rec.dir \in dirs /\ rec.set # {} /\ NoFault
        /\ cpus' = [cpus EXCEPT ![rec.dir] = rec.set]
     \/ /\ IF rec.dir \in dirs /\ rec.set # {} THEN Fault ELSE NoFault
        /\ UNCHANGED cpus
  /\ rec' = [Resting EXCEPT !.pc = "read", !.todo = rec.todo]
  /\ RecFrame

RecStep == RecList \/ RecLeaves \/ RecRead \/ RecDetermine \/ RecWrite

-----------------------------------------------------------------------------
(* The process: it dies (a signal, WatchErrorHandler's os.Exit, a failure)  *)
(* and the DaemonSet starts it again, with everything in memory lost.       *)

Crash ==
  /\ up
  /\ crashes < MaxCrashes
  /\ crashes' = crashes + 1
  /\ up' = FALSE
  /\ known' = {}
  /\ queue' = <<>>
  /\ worker' = [w \in Workers |-> Idle]
  /\ rec' = Resting
  /\ UNCHANGED <<apiVars, nodeVars, faults>>

\* main and Run: the list that fills the cache will deliver every Pod.
Run ==
  /\ ~up
  /\ up' = TRUE
  /\ UNCHANGED <<apiVars, nodeVars, known, queue, worker, rec, faults, crashes>>

ControllerStep ==
  \/ \E p \in Pods : PodAdded(p)
  \/ \E w \in Workers : WorkerStep(w)
  \/ RecStep
  \/ Crash
  \/ Run

Next == ClusterStep \/ ControllerStep

Spec == Init /\ [][Next]_vars

\* The Go scheduler runs every goroutine, the informer delivers what it lists,
\* the DaemonSet restarts the process and the kubelet reports; nothing obliges
\* a Pod or a container to start or to end.
Fairness ==
  /\ \A w \in Workers : WF_vars(WorkerStep(w))
  /\ WF_vars(RecStep)
  /\ \A p \in Pods : WF_vars(PodAdded(p)) /\ WF_vars(ReportStatus(p))
  /\ WF_vars(Run)

FairSpec == Spec /\ Fairness

-----------------------------------------------------------------------------
(* What must hold.                                                          *)

Statuses(p) == [Containers(p) -> 0..(MaxRestarts + 1)]

\* A Pod's status as an item or a worker holds it, and the rounds of a retry loop.
Copies == UNION {Statuses(p) : p \in Pods}
Rounds == 0..(MaxRetryCount - 1)

\* A Pod snapshot, a worker, the reconciler and a device allocation: the Pod and
\* the container they speak of exist.
ItemRecords == [pod : Pods, bound : BOOLEAN, finished : BOOLEAN, status : Copies]
Items == {x \in ItemRecords : x.status \in Statuses(x.pod)}

JobRecords == [pc : {"refresh", "determine", "apply", "infra", "annotate"},
               pod : Pods, bound : BOOLEAN, status : Copies,
               try : Rounds, cont : Nat, set : SUBSET CPU, path : BOOLEAN]
Jobs == {r \in JobRecords : /\ r.status \in Statuses(r.pod)
                            /\ r.cont \in Containers(r.pod)
                            /\ r.pc = "refresh" => r.cont = 1}

ContainerDirs == {d \in Dirs : d[2] # 0}

Scans == {r \in [pc : {"idle", "leaves", "read", "determine", "write"}, todo : SUBSET ContainerDirs,
                 dir : ContainerDirs \cup {Resting.dir}, set : SUBSET CPU] :
            r.pc \in {"determine", "write"} => r.dir \in ContainerDirs}

Allocated == {e \in [pod : LocalPods, cont : Nat, pool : DOMAIN PoolConfig, devices : SUBSET CPU] :
                /\ e.cont \in Containers(e.pod)
                /\ DeterminePoolType(e.pool) = ExclusivePoolID
                /\ e.devices \subseteq PoolConfig[e.pool].cpus}

\* Every variable has its type; a worker between two items and a reconciler
\* between two ticks hold nothing.
TypeOK ==
  /\ phase \in [Pods -> {"none", "pending", "bound", "finished", "deleted"}]
  /\ DOMAIN status = Pods /\ \A p \in Pods : status[p] \in Statuses(p)
  /\ annotated \subseteq Pods
  /\ DOMAIN inc = Pods /\ \A p \in Pods : inc[p] \in Statuses(p)
  /\ dirs \subseteq Dirs
  /\ cpus \in [Dirs -> SUBSET CPU]
  /\ checkpoint \subseteq Allocated
  /\ up \in BOOLEAN
  /\ known \subseteq Pods
  /\ queue \in Seq(Items)
  /\ worker \in [Workers -> Jobs \cup {Idle}]
  /\ rec \in Scans
  /\ faults \in 0..MaxFaults
  /\ crashes \in 0..MaxCrashes

\* What a container is entitled to, said without the code's loops: the CPUs the
\* kubelet gave it, with their siblings where the pool shares cores between
\* threads, and the shared pool if it asks for it; the default pool otherwise.
Expanded(e) ==
  IF PoolConfig[e.pool].ht = MultiThreadHTPolicy
  THEN AddHTSiblingsToCPUSet(e.devices, HTMap)
  ELSE e.devices

PoolCpus(type) ==
  UNION {PoolConfig[n].cpus : n \in {m \in DOMAIN PoolConfig : DeterminePoolType(m) = type}}

SharedCpus  == PoolCpus(SharedPoolID)
DefaultCpus == PoolCpus(DefaultPoolID)

ExclusiveCpus(p, i) ==
  UNION {Expanded(e) : e \in {x \in checkpoint : x.pod = p /\ x.cont = i}}

Entitled(p, i) ==
  LET shared == IF \E n \in Requested(p, i) : DeterminePoolType(n) = SharedPoolID
                THEN SharedCpus ELSE {}
      own    == shared \cup ExclusiveCpus(p, i)
  IN  IF own = {} THEN DefaultCpus ELSE own

\* d is a container's directory and its cpuset is the container's.
Pinned(d) == d \in dirs /\ d[2] # 0 /\ cpus[d] = Entitled(d[1], d[2])

\* Once set by the controller, no other cgroup's cpuset ever holds a CPU (or a
\* sibling of it) that the kubelet gave exclusively to a container of a Pod on
\* the node: not of a Pod that got the device back from a deleted one, not
\* through a worker or a reconciliation that computed with older data
\* (determineCorrectCpuset, applyCpusetToContainer, reconcileContainer).
ExclusiveIsolation ==
  \A e \in LiveEntries, d \in dirs :
    (d[1] # e.pod \/ d[2] # e.cont) /\ cpus[d] # Inherited
      => cpus[d] \cap Expanded(e) = {}

\* Whatever the order of the workers' and the reconciler's writes, a directory
\* holds the set it was created with, its container's, or the default pool (the
\* infra container's set; a restarted container can be mistaken for it).
WithinEntitlement ==
  \A d \in dirs :
    \/ cpus[d] \in {Inherited, DefaultCpus}
    \/ Pinned(d)

\* When adjustContainerSets is about to annotate the Pod, every container of the
\* copy it works on that still runs has its own cpuset, although retries, the
\* reconciler and restarts came in between.
PinnedBeforeAnnotation ==
  \A w \in Workers :
    LET r == worker[w]
        d(i) == <<r.pod, i, r.status[i]>>
    IN  r.pc = "annotate" => \A i \in Containers(r.pod) : d(i) \in dirs => Pinned(d(i))

\* While no container restarts and names are not reused, the annotation tells
\* the truth for as long as the Pod lives: every container of an annotated Pod
\* has its cpuset, and the infra container the default one.
AnnotatedMeansPinned ==
  \A d \in dirs :
    d[1] \in annotated => Pinned(d) \/ (d[2] = 0 /\ cpus[d] = DefaultCpus)

\* Run's comment, of the reconciliation thread: "In case a container's observed
\* cpuset differs from the expected (i.e. container was restarted) the thread
\* resets it to the proper value".  So every container that runs long enough gets
\* its own cpuset, even if its worker dropped the Pod, gave up, or died.
EventuallyPinned ==
  \A d \in {x \in Dirs : x[2] # 0} :
    d \in dirs ~> d \notin dirs \/ Pinned(d)

\* Every queued Pod is taken, and no worker holds on to one: retries are bounded
\* even where the call that fails can never succeed.
ServiceReturns ==
  []<>(queue = <<>> /\ \A w \in Workers : worker[w] = Idle)

-----------------------------------------------------------------------------
(* What the documents say and the code does not do.                         *)

\* pod.go: SetPodAnnotation adds an annotation "for pod", its argument.  So a Pod
\* is annotated only by a worker that holds that Pod.
AnnotatesOwnPod ==
  [][\A p \in annotated' \ annotated : \E w \in Workers : worker[w].pod = p]_vars
=============================================================================
