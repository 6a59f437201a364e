---------------------- MODULE CpusetController_proofs ----------------------
(***************************************************************************)
(* Proofs about the controller: TypeOK, and that exclusive CPUs stay       *)
(* exclusive, for every set of Pods, workers and pools.                    *)
(***************************************************************************)
EXTENDS CpusetIsolation, TLAPS

-----------------------------------------------------------------------------
(* The sets of CPUs.                                                        *)

\* AddHTSiblingsToCPUSet keeps the CPUs it is given.
LEMMA ThreadsContain ==
  ASSUME NEW c
  PROVE  c \subseteq ThreadsOf(c)
  BY DEF ThreadsOf, AddHTSiblingsToCPUSet

\* AddHTSiblingsToCPUSet of a larger set is larger.
LEMMA ThreadsMonotone ==
  ASSUME NEW c, NEW d, c \subseteq d
  PROVE  ThreadsOf(c) \subseteq ThreadsOf(d)
  BY DEF ThreadsOf, AddHTSiblingsToCPUSet

\* The CPUs of a pool, and all their threads, are CPUs.
LEMMA PoolCpusType ==
  ASSUME NEW n \in DOMAIN PoolConfig
  PROVE  PoolConfig[n].cpus \subseteq CPU /\ ThreadsOf(PoolConfig[n].cpus) \subseteq CPU
<1>1. ThreadsOf(PoolConfig[n].cpus) \subseteq CPU
  BY DEF CPU, ThreadsOf
<1>2. QED
  BY <1>1, ThreadsContain

\* SelectPoolConfig returns a pool of the configuration or the empty pool.
LEMMA SelectType ==
  ASSUME NEW prefix, NEW pool \in SelectPoolConfig(PoolConfig, prefix)
  PROVE  pool.cpus \subseteq CPU
<1>1. CASE pool = EmptyPool
  BY <1>1 DEF EmptyPool
<1>2. CASE \E n \in DOMAIN PoolConfig : pool = PoolConfig[n]
  BY <1>2, PoolCpusType
<1>3. QED
  BY <1>1, <1>2 DEF SelectPoolConfig

\* No container may be given anything but CPUs.
LEMMA ReachType ==
  ASSUME NEW p, NEW i, checkpoint \subseteq Allocated
  PROVE  Reach(p, i) \subseteq CPU
<1>1. CommonCpus \subseteq CPU
  BY SelectType DEF CommonCpus
<1>2. \A e \in checkpoint : ThreadsOf(e.devices) \subseteq CPU
  <2> TAKE e \in checkpoint
  <2>1. e.pool \in DOMAIN PoolConfig /\ e.devices \subseteq PoolConfig[e.pool].cpus
    BY DEF Allocated
  <2>2. QED
    BY <2>1, ThreadsMonotone, PoolCpusType
<1>3. QED
  BY <1>1, <1>2 DEF Reach

\* The threads of the devices found for a container are those of its entries.
LEMMA AllocatedWithinReach ==
  ASSUME NEW p, NEW i, NEW n
  PROVE  ThreadsOf(AllocatedDevices(checkpoint, p, i, n)) \subseteq Reach(p, i)
<1> SUFFICES ASSUME NEW t \in ThreadsOf(AllocatedDevices(checkpoint, p, i, n))
             PROVE  t \in Reach(p, i)
  OBVIOUS
<1>1. PICK c \in AllocatedDevices(checkpoint, p, i, n) : t = c \/ (c \in DOMAIN HTMap /\ t \in HTMap[c])
  BY DEF ThreadsOf, AddHTSiblingsToCPUSet
<1>2. PICK e \in checkpoint : e.pod = p /\ e.cont = i /\ c \in e.devices
  BY <1>1 DEF AllocatedDevices
<1>3. t \in ThreadsOf(e.devices)
  BY <1>1, <1>2 DEF ThreadsOf, AddHTSiblingsToCPUSet
<1>4. QED
  BY <1>2, <1>3 DEF Reach

\* determineCorrectCpuset returns no more than the container may be given.
LEMMA DetermineWithinReach ==
  ASSUME NEW p, NEW i, NEW s \in CorrectSets(p, i)
  PROVE  s \subseteq Reach(p, i)
<1> DEFINE rs == Requested(p, i)
<1>1. \A x \in SharedResults(PoolConfig, rs) : x \subseteq CommonCpus
  BY DEF SharedResults, CommonCpus
<1>2. \A x \in ExclusiveResults(PoolConfig, HTMap, checkpoint, p, i, rs) : x \subseteq Reach(p, i)
  <2> SUFFICES ASSUME NEW x \in ExclusiveResults(PoolConfig, HTMap, checkpoint, p, i, rs), x # {}
               PROVE  x \subseteq Reach(p, i)
    OBVIOUS
  <2>1. PICK n \in rs :
          x \in ExclusiveResult(PoolConfig, HTMap, AllocatedDevices(checkpoint, p, i, n), n)
    BY DEF ExclusiveResults
  <2>2. x \subseteq ThreadsOf(AllocatedDevices(checkpoint, p, i, n))
    BY <2>1, ThreadsContain DEF ExclusiveResult, ThreadsOf
  <2>3. QED
    BY <2>2, AllocatedWithinReach
<1>3. \A pool \in SelectPoolConfig(PoolConfig, <<DefaultPoolID>>) : pool.cpus \subseteq CommonCpus
  BY DEF CommonCpus
<1>4. CommonCpus \subseteq Reach(p, i)
  BY DEF Reach
<1>5. s \in DetermineCorrectCpuset(PoolConfig, HTMap, checkpoint, p, i, rs)
  BY DEF CorrectSets
<1>6. QED
  BY <1>1, <1>2, <1>3, <1>4, <1>5 DEF DetermineCorrectCpuset

-----------------------------------------------------------------------------
(* Type correctness.                                                        *)

\* Containers are numbered from 1, and determineCorrectCpuset yields CPUs.
LEMMA ContainerType ==
  ASSUME NEW p \in Pods, NEW i \in Containers(p)
  PROVE  i \in Nat /\ i # 0
  BY ConstantsAssumption

LEMMA FirstContainer ==
  ASSUME NEW p \in Pods
  PROVE  1 \in Containers(p)
  BY ConstantsAssumption

LEMMA CorrectSetsType ==
  ASSUME NEW p, NEW i, NEW s \in CorrectSets(p, i), checkpoint \subseteq Allocated
  PROVE  s \subseteq CPU
  BY DetermineWithinReach, ReachType

\* The cgroup directories of a Pod are directories.
LEMMA DirType ==
  ASSUME NEW p \in Pods
  PROVE  /\ Infra(p) \in Dirs
         /\ PodDirs(p) \subseteq Dirs
         /\ \A i \in Containers(p), k \in Incarnations :
              <<p, i, k>> \in Dirs /\ <<p, i, k>> \in ContainerDirs
<1>1. Infra(p) \in PodDirs(p) /\ \A i \in Containers(p), k \in Incarnations : <<p, i, k>> \in PodDirs(p)
  BY DEF PodDirs
<1>2. PodDirs(p) \subseteq Dirs
  BY DEF Dirs
<1>3. QED
  BY <1>1, <1>2, ContainerType DEF ContainerDirs

\* A Pod's status copied into an item or a worker keeps its type.
LEMMA CopyType ==
  ASSUME NEW p \in Pods, NEW c \in Statuses(p)
  PROVE  c \in UNION {Statuses(q) : q \in Pods}
  OBVIOUS

LEMMA InheritedType == Inherited \subseteq CPU
  BY DEF CPU

LEMMA InitType == Init => TypeOK
<1> SUFFICES ASSUME Init PROVE TypeOK
  OBVIOUS
<1> USE ConstantsAssumption
<1>1. \A p \in Pods : NotReported(p) \in Statuses(p)
  BY DEF NotReported, Statuses
<1>2. rec \in Scans
  BY DEF Init, Resting, Scans
<1>3. queue \in Seq(Items)
  BY DEF Init
<1>4. worker \in [Workers -> Jobs \cup {Idle}]
  BY DEF Init
<1>5. /\ phase \in [Pods -> {"none", "pending", "bound", "finished", "deleted"}]
      /\ DOMAIN status = Pods /\ DOMAIN inc = Pods
      /\ cpus \in [Dirs -> SUBSET CPU]
  BY DEF Init
<1>6. \A p \in Pods : status[p] \in Statuses(p) /\ inc[p] \in Statuses(p)
  BY <1>1 DEF Init
<1>7. faults \in 0..MaxFaults /\ crashes \in 0..MaxCrashes
  BY DEF Init
<1>8. annotated \subseteq Pods /\ dirs \subseteq Dirs /\ checkpoint \subseteq Allocated /\ known \subseteq Pods
  BY DEF Init
<1>9. up \in BOOLEAN
  BY DEF Init
<1>10. QED
  BY <1>2, <1>3, <1>4, <1>5, <1>6, <1>7, <1>8, <1>9 DEF TypeOK

\* What the cluster does.
LEMMA ClusterType ==
  ASSUME TypeOK, ClusterStep
  PROVE  TypeOK'
<1> USE ConstantsAssumption DEF TypeOK
<1>0. UNCHANGED <<procVars, faults, crashes>>
  BY DEF ClusterStep, CreatePod, BindPod, StartContainer, ExitContainer, ReportStatus, EndPod, procVars
<1>1. PICK p \in Pods :
        \/ CreatePod(p)
        \/ BindPod(p)
        \/ \E i \in Containers(p) : StartContainer(p, i) \/ ExitContainer(p, i)
        \/ ReportStatus(p)
        \/ \E to \in {"finished", "deleted"} : EndPod(p, to)
  BY DEF ClusterStep
<1>2. CASE CreatePod(p)
  BY <1>0, <1>2 DEF CreatePod, nodeVars, procVars
<1>3. CASE BindPod(p)
  <2>1. checkpoint' \subseteq Allocated
    <3>1. CASE p \in LocalPods
      <4>1. PICK alloc \in [Claims(p) -> SUBSET CPU] :
              IsAllocation(p, alloc) /\ checkpoint' = LiveEntries \cup Entries(p, alloc)
        BY <1>3, <3>1 DEF BindPod
      <4>2. Entries(p, alloc) \subseteq Allocated
        <5> SUFFICES ASSUME NEW c \in Claims(p)
                     PROVE  [pod |-> p, cont |-> c[1], pool |-> c[2], devices |-> alloc[c]] \in Allocated
          BY DEF Entries
        <5>1. /\ c[1] \in Containers(p)
              /\ c[2] \in DOMAIN PoolConfig
              /\ DeterminePoolType(c[2]) = ExclusivePoolID
          BY DEF Claims
        <5>2. alloc[c] \subseteq PoolConfig[c[2]].cpus /\ alloc[c] \in SUBSET CPU
          BY <4>1 DEF IsAllocation, FreeDevices
        <5>3. QED
          BY <3>1, <5>1, <5>2, ContainerType DEF Allocated
      <4>3. QED
        BY <4>1, <4>2 DEF LiveEntries
    <3>2. CASE p \notin LocalPods
      BY <1>3, <3>2 DEF BindPod
    <3>3. QED
      BY <3>1, <3>2
  <2>2. dirs' \subseteq Dirs /\ cpus' \in [Dirs -> SUBSET CPU]
    BY <1>3, DirType, InheritedType DEF BindPod
  <2>3. phase' \in [Pods -> {"none", "pending", "bound", "finished", "deleted"}]
    BY <1>3 DEF BindPod
  <2>4. UNCHANGED <<status, annotated, inc>>
    BY <1>3 DEF BindPod
  <2>5. QED
    BY <1>0, <2>1, <2>2, <2>3, <2>4 DEF procVars
<1>4. ASSUME NEW i \in Containers(p), StartContainer(p, i)
      PROVE  TypeOK'
  <2>1. inc[p] \in Statuses(p) /\ inc[p][i] \in 0..MaxRestarts
    BY <1>4 DEF StartContainer, Statuses
  <2>2. DOMAIN inc' = Pods /\ \A q \in Pods : inc'[q] \in Statuses(q)
    <3>1. inc' = [inc EXCEPT ![p] = [inc[p] EXCEPT ![i] = inc[p][i] + 1]]
      BY <1>4 DEF StartContainer
    <3>2. [inc[p] EXCEPT ![i] = inc[p][i] + 1] \in Statuses(p)
      BY <1>4, <2>1 DEF Statuses
    <3>3. QED
      BY <3>1, <3>2
  <2>3. <<p, i, inc[p][i] + 1>> \in Dirs
    BY <2>1, DirType DEF Incarnations
  <2>4. dirs' \subseteq Dirs /\ cpus' \in [Dirs -> SUBSET CPU]
    <3>1. \/ dirs' = dirs \cup {<<p, i, inc[p][i] + 1>>}
             /\ cpus' = [cpus EXCEPT ![<<p, i, inc[p][i] + 1>>] = Inherited]
          \/ dirs' = dirs /\ cpus' = cpus
      BY <1>4 DEF StartContainer
    <3>2. QED
      BY <2>3, <3>1, InheritedType
  <2>5. UNCHANGED <<phase, status, annotated, checkpoint>>
    BY <1>4 DEF StartContainer, apiVars
  <2>6. QED
    BY <1>0, <2>2, <2>4, <2>5 DEF procVars
<1>5. ASSUME NEW i \in Containers(p), ExitContainer(p, i)
      PROVE  TypeOK'
  BY <1>0, <1>5 DEF ExitContainer, RemoveDirs, apiVars, procVars
<1>6. CASE ReportStatus(p)
  BY <1>0, <1>6 DEF ReportStatus, nodeVars, procVars
<1>7. ASSUME NEW to \in {"finished", "deleted"}, EndPod(p, to)
      PROVE  TypeOK'
  BY <1>0, <1>7 DEF EndPod, RemoveDirs, procVars
<1>8. QED
  BY <1>1, <1>2, <1>3, <1>4, <1>5, <1>6, <1>7

\* What a worker or the reconciler leaves alone of the types it cannot break.
LEMMA WorkerFrameType ==
  ASSUME NEW w \in Workers, TypeOK, WorkerStep(w)
  PROVE  UNCHANGED <<phase, status, inc, dirs, checkpoint, up, known, rec, crashes>>
<1> USE DEF WorkerFrame, OutsideFrame, apiVars, nodeVars
<1>1. CASE WorkerGet(w)
  BY <1>1 DEF WorkerGet
<1>2. CASE WorkerRefresh(w)
  BY <1>2 DEF WorkerRefresh
<1>3. CASE WorkerDetermine(w)
  BY <1>3 DEF WorkerDetermine
<1>4. CASE WorkerApply(w)
  BY <1>4 DEF WorkerApply
<1>5. CASE WorkerInfra(w)
  BY <1>5 DEF WorkerInfra
<1>6. CASE WorkerAnnotate(w)
  BY <1>6 DEF WorkerAnnotate
<1>7. QED
  BY <1>1, <1>2, <1>3, <1>4, <1>5, <1>6 DEF WorkerStep

LEMMA FaultType ==
  ASSUME TypeOK, Fault \/ NoFault
  PROVE  faults' \in 0..MaxFaults
  BY ConstantsAssumption DEF TypeOK, Fault, NoFault

\* The retry counter starts in range, and counting stays in range.
LEMMA RoundsType ==
  /\ 0 \in Rounds
  /\ \A t \in Rounds : t + 1 < MaxRetryCount => t + 1 \in Rounds
  BY ConstantsAssumption DEF Rounds

\* Retry and NextContainer yield a worker of the right type.
LEMMA RetryType ==
  ASSUME NEW r \in Jobs
  PROVE  Retry(r) \in Jobs \cup {Idle}
<1> SUFFICES ASSUME r.try + 1 < MaxRetryCount
             PROVE  Retry(r) \in Jobs
  BY DEF Retry
<1> DEFINE s == [r EXCEPT !.pc = "determine", !.try = @ + 1, !.cont = 1, !.set = {}, !.path = FALSE]
<1>1. r \in JobRecords /\ r.pod \in Pods /\ r.try + 1 \in Rounds
  BY RoundsType DEF Jobs, JobRecords
<1>2. s \in JobRecords
  BY <1>1 DEF JobRecords
<1>3. s.status = r.status /\ s.pod = r.pod /\ s.cont = 1 /\ s.pc = "determine"
  BY <1>1 DEF JobRecords
<1>4. s \in Jobs
  BY <1>1, <1>2, <1>3, FirstContainer DEF Jobs
<1>5. QED
  BY <1>4 DEF Retry

LEMMA NextContainerType ==
  ASSUME NEW r \in Jobs, NEW path \in BOOLEAN
  PROVE  NextContainer(r, path) \in Jobs
<1>1. r \in JobRecords /\ r.pod \in Pods /\ r.cont + 1 \in Nat
  BY DEF Jobs, JobRecords
<1>2. CASE r.cont + 1 \in Containers(r.pod)
  <2> DEFINE s == [r EXCEPT !.pc = "determine", !.cont = @ + 1, !.set = {}, !.path = path]
  <2>1. s \in JobRecords
    BY <1>1 DEF JobRecords
  <2>2. s.status = r.status /\ s.pod = r.pod /\ s.cont = r.cont + 1 /\ s.pc = "determine"
    BY <1>1 DEF JobRecords
  <2>3. QED
    BY <1>2, <2>1, <2>2 DEF Jobs, NextContainer
<1>3. CASE r.cont + 1 \notin Containers(r.pod)
  <2> DEFINE s == [r EXCEPT !.pc = "infra", !.cont = 1, !.set = {}, !.path = path]
  <2>1. s \in JobRecords
    BY <1>1 DEF JobRecords
  <2>2. s.status = r.status /\ s.pod = r.pod /\ s.cont = 1 /\ s.pc = "infra"
    BY <1>1 DEF JobRecords
  <2>3. s \in Jobs
    BY <1>1, <2>1, <2>2, FirstContainer DEF Jobs
  <2>4. QED
    BY <1>3, <2>3 DEF NextContainer
<1>4. QED
  BY <1>2, <1>3

\* So does a Pod copy that is accepted.
LEMMA AcceptedType ==
  ASSUME NEW r \in Jobs
  PROVE  Accepted(r) \in Jobs \cup {Idle}
<1> DEFINE s == [r EXCEPT !.pc = "determine", !.try = 0]
<1>1. r \in JobRecords
  BY DEF Jobs
<1>2. s \in JobRecords
  BY <1>1, RoundsType DEF JobRecords
<1>3. s.status = r.status /\ s.pod = r.pod /\ s.cont = r.cont /\ s.pc = "determine"
  BY <1>1 DEF JobRecords
<1>4. s \in Jobs
  BY <1>2, <1>3 DEF Jobs
<1>5. QED
  BY <1>4 DEF Accepted

\* A worker that is not idle holds a Pod.
LEMMA BusyType ==
  ASSUME NEW w \in Workers, TypeOK, worker[w].pc # "idle"
  PROVE  worker[w] \in Jobs /\ worker[w] \in JobRecords
<1>1. worker[w] \in Jobs \cup {Idle}
  BY DEF TypeOK
<1>2. Idle.pc = "idle"
  BY DEF Idle
<1>3. QED
  BY <1>1, <1>2 DEF Jobs

LEMMA RefreshType ==
  ASSUME NEW w \in Workers, TypeOK, WorkerRefresh(w)
  PROVE  /\ worker' \in [Workers -> Jobs \cup {Idle}]
         /\ UNCHANGED <<queue, annotated, cpus>>
<1> DEFINE r == worker[w]
<1>1. r \in Jobs /\ r.pc = "refresh" /\ r \in JobRecords
  BY BusyType DEF WorkerRefresh
<1>2. ASSUME NEW q \in Refreshed(r.pod)
      PROVE  Accepted([r EXCEPT !.pod = q, !.bound = TRUE, !.status = status[q]]) \in Jobs \cup {Idle}
  <2>1. q \in Pods /\ status[q] \in Statuses(q) /\ status[q] \in Copies
    BY DEF Refreshed, TypeOK, Copies
  <2> DEFINE s == [r EXCEPT !.pod = q, !.bound = TRUE, !.status = status[q]]
  <2>2. s \in JobRecords
    BY <1>1, <2>1 DEF JobRecords
  <2>3. s.status = status[q] /\ s.pod = q /\ s.cont = r.cont
    BY <1>1 DEF JobRecords
  <2>4. r.cont = 1
    BY <1>1 DEF Jobs
  <2>5. s \in Jobs
    BY <2>1, <2>2, <2>3, <2>4, FirstContainer DEF Jobs
  <2>6. QED
    BY <2>5, AcceptedType
<1>3. ASSUME r.try + 1 < MaxRetryCount
      PROVE  [r EXCEPT !.try = @ + 1] \in Jobs
  <2> DEFINE s == [r EXCEPT !.try = @ + 1]
  <2>1. s \in JobRecords
    BY <1>1, <1>3, RoundsType DEF JobRecords
  <2>2. s.status = r.status /\ s.pod = r.pod /\ s.cont = r.cont /\ s.pc = r.pc
    BY <1>1 DEF JobRecords
  <2>3. QED
    BY <1>1, <2>1, <2>2 DEF Jobs
<1>4. \E t \in Jobs \cup {Idle} : Goto(w, t)
  BY <1>1, <1>2, <1>3, AcceptedType DEF WorkerRefresh
<1>5. QED
  BY <1>4 DEF TypeOK, Goto, WorkerRefresh, OutsideFrame, apiVars, nodeVars

LEMMA GetType ==
  ASSUME NEW w \in Workers, TypeOK, WorkerGet(w)
  PROVE  /\ worker' \in [Workers -> Jobs \cup {Idle}]
         /\ queue' \in Seq(Items)
         /\ UNCHANGED <<annotated, cpus>>
<1> DEFINE item == Head(queue)
<1>1. item \in Items /\ Tail(queue) \in Seq(Items)
  BY DEF TypeOK, WorkerGet
<1>2. item \in ItemRecords /\ item.pod \in Pods /\ item.status \in Statuses(item.pod)
  BY <1>1 DEF Items, ItemRecords
<1> DEFINE s == [pc |-> "refresh", pod |-> item.pod, bound |-> item.bound,
                 status |-> item.status, try |-> 0, cont |-> 1, set |-> {}, path |-> FALSE]
<1>3. s \in JobRecords
  BY <1>2, RoundsType DEF JobRecords, ItemRecords
<1>4. 1 \in Containers(item.pod)
  BY <1>2, FirstContainer
<1>5. s \in Jobs
  BY <1>2, <1>3, <1>4 DEF Jobs
<1>6. \E t \in Jobs \cup {Idle} : Goto(w, t)
  BY <1>5 DEF WorkerGet
<1>7. QED
  BY <1>1, <1>6 DEF TypeOK, Goto, WorkerGet, OutsideFrame, apiVars, nodeVars

LEMMA DetermineType ==
  ASSUME NEW w \in Workers, TypeOK, WorkerDetermine(w)
  PROVE  /\ worker' \in [Workers -> Jobs \cup {Idle}]
         /\ UNCHANGED <<queue, annotated, cpus>>
<1> DEFINE r == worker[w]
<1>1. r \in Jobs /\ r \in JobRecords
  BY BusyType DEF WorkerDetermine
<1>2. ASSUME NEW s \in CorrectSets(r.pod, r.cont)
      PROVE  [r EXCEPT !.pc = "apply", !.set = s] \in Jobs
  <2>1. s \in SUBSET CPU
    BY CorrectSetsType DEF TypeOK
  <2> DEFINE t == [r EXCEPT !.pc = "apply", !.set = s]
  <2>2. t \in JobRecords
    BY <1>1, <2>1 DEF JobRecords
  <2>3. t.status = r.status /\ t.pod = r.pod /\ t.cont = r.cont /\ t.pc = "apply"
    BY <1>1 DEF JobRecords
  <2>4. QED
    BY <1>1, <2>2, <2>3 DEF Jobs
<1>3. \E t \in Jobs \cup {Idle} : Goto(w, t)
  BY <1>1, <1>2, RetryType DEF WorkerDetermine
<1>4. QED
  BY <1>3 DEF TypeOK, Goto, WorkerDetermine, OutsideFrame, apiVars, nodeVars

LEMMA ApplyType ==
  ASSUME NEW w \in Workers, TypeOK, WorkerApply(w)
  PROVE  /\ worker' \in [Workers -> Jobs \cup {Idle}]
         /\ cpus' \in [Dirs -> SUBSET CPU]
         /\ UNCHANGED <<queue, annotated>>
<1> DEFINE r == worker[w]
<1>1. r \in Jobs /\ r \in JobRecords
  BY BusyType DEF WorkerApply
<1>2. r.set \subseteq CPU
  BY <1>1 DEF JobRecords
<1>3. \E t \in Jobs \cup {Idle} : Goto(w, t)
  BY <1>1, RetryType, NextContainerType DEF WorkerApply
<1>4. cpus' \in [Dirs -> SUBSET CPU]
  BY <1>2 DEF TypeOK, WorkerApply
<1>5. QED
  BY <1>3, <1>4 DEF TypeOK, Goto, WorkerApply, apiVars

LEMMA DefaultSetsType ==
  ASSUME NEW s \in DefaultSets
  PROVE  s \subseteq CPU
  BY SelectType DEF DefaultSets

LEMMA InfraType ==
  ASSUME NEW w \in Workers, TypeOK, WorkerInfra(w)
  PROVE  /\ worker' \in [Workers -> Jobs \cup {Idle}]
         /\ cpus' \in [Dirs -> SUBSET CPU]
         /\ UNCHANGED <<queue, annotated>>
<1> DEFINE r == worker[w]
<1>1. r \in Jobs /\ r \in JobRecords
  BY BusyType DEF WorkerInfra
<1>2. [r EXCEPT !.pc = "annotate"] \in Jobs
  <2> DEFINE t == [r EXCEPT !.pc = "annotate"]
  <2>1. t \in JobRecords
    BY <1>1 DEF JobRecords
  <2>2. t.status = r.status /\ t.pod = r.pod /\ t.cont = r.cont /\ t.pc = "annotate"
    BY <1>1 DEF JobRecords
  <2>3. QED
    BY <1>1, <2>1, <2>2 DEF Jobs
<1>3. \E t \in Jobs \cup {Idle} : Goto(w, t)
  BY <1>1, <1>2, RetryType DEF WorkerInfra
<1>4. cpus' \in [Dirs -> SUBSET CPU]
  BY DefaultSetsType DEF TypeOK, WorkerInfra
<1>5. QED
  BY <1>3, <1>4 DEF TypeOK, Goto, WorkerInfra, apiVars

LEMMA AnnotateType ==
  ASSUME NEW w \in Workers, TypeOK, WorkerAnnotate(w)
  PROVE  /\ worker' \in [Workers -> Jobs \cup {Idle}]
         /\ annotated' \subseteq Pods
         /\ UNCHANGED <<queue, cpus>>
<1> DEFINE r == worker[w]
<1>1. r \in Jobs
  BY BusyType DEF WorkerAnnotate
<1>2. \E t \in Jobs \cup {Idle} : Goto(w, t)
  BY <1>1, RetryType DEF WorkerAnnotate
<1>3. annotated' \subseteq Pods
  BY DEF TypeOK, WorkerAnnotate, Refreshed
<1>4. QED
  BY <1>2, <1>3 DEF TypeOK, Goto, WorkerAnnotate, nodeVars

\* What a worker does.
LEMMA WorkerType ==
  ASSUME NEW w \in Workers, TypeOK, WorkerStep(w)
  PROVE  TypeOK'
<1>1. UNCHANGED <<phase, status, inc, dirs, checkpoint, up, known, rec, crashes>>
  BY WorkerFrameType
<1>2. faults' \in 0..MaxFaults
  <2>1. Fault \/ NoFault
    BY DEF WorkerStep, WorkerGet, WorkerRefresh, WorkerDetermine, WorkerApply, WorkerInfra, WorkerAnnotate
  <2>2. QED
    BY <2>1, FaultType
<1>3. /\ worker' \in [Workers -> Jobs \cup {Idle}]
      /\ queue' \in Seq(Items)
      /\ cpus' \in [Dirs -> SUBSET CPU]
      /\ annotated' \subseteq Pods
  <2>1. queue \in Seq(Items) /\ cpus \in [Dirs -> SUBSET CPU] /\ annotated \subseteq Pods
    BY DEF TypeOK
  <2>2. CASE WorkerGet(w)
    BY <2>1, <2>2, GetType
  <2>3. CASE WorkerRefresh(w)
    BY <2>1, <2>3, RefreshType
  <2>4. CASE WorkerDetermine(w)
    BY <2>1, <2>4, DetermineType
  <2>5. CASE WorkerApply(w)
    BY <2>1, <2>5, ApplyType
  <2>6. CASE WorkerInfra(w)
    BY <2>1, <2>6, InfraType
  <2>7. CASE WorkerAnnotate(w)
    BY <2>1, <2>7, AnnotateType
  <2>8. QED
    BY <2>2, <2>3, <2>4, <2>5, <2>6, <2>7 DEF WorkerStep
<1>4. QED
  BY <1>1, <1>2, <1>3 DEF TypeOK

LEMMA ListedType ==
  ASSUME TypeOK
  PROVE  ListedContainers \subseteq ContainerDirs
<1> SUFFICES ASSUME NEW p \in LocalPods, NEW i \in Containers(p), status[p][i] # 0
             PROVE  <<p, i, status[p][i]>> \in ContainerDirs
  BY DEF ListedContainers
<1>1. p \in Pods
  BY ConstantsAssumption
<1>2. status[p][i] \in 0..(MaxRestarts + 1)
  BY <1>1 DEF TypeOK, Statuses
<1>3. status[p][i] \in Incarnations
  BY <1>2, ConstantsAssumption DEF Incarnations
<1>4. QED
  BY <1>1, <1>3, DirType

\* What the reconciler does.
LEMMA RecType ==
  ASSUME TypeOK, RecStep
  PROVE  TypeOK'
<1>1. UNCHANGED <<phase, status, annotated, inc, dirs, checkpoint, up, known, queue, worker, crashes>>
  BY DEF RecStep, RecList, RecLeaves, RecRead, RecDetermine, RecWrite, RecFrame, apiVars
<1>2. faults' \in 0..MaxFaults
  <2>1. Fault \/ NoFault
    BY DEF RecStep, RecList, RecLeaves, RecRead, RecDetermine, RecWrite, NoFault
  <2>2. QED
    BY <2>1, FaultType
<1>3. rec \in Scans /\ checkpoint \subseteq Allocated /\ cpus \in [Dirs -> SUBSET CPU]
  BY DEF TypeOK
<1>4. /\ \A ds \in SUBSET ContainerDirs : [Resting EXCEPT !.pc = "read", !.todo = ds] \in Scans
      /\ Resting \in Scans
  BY DEF Scans, Resting
<1>5. rec' \in Scans /\ cpus' \in [Dirs -> SUBSET CPU]
  <2>1. CASE RecList
    <3>1. rec' = [rec EXCEPT !.pc = "leaves", !.todo = ListedContainers]
      BY <2>1 DEF RecList
    <3>2. ListedContainers \in SUBSET ContainerDirs
      BY ListedType
    <3>3. rec' \in Scans
      BY <1>3, <3>1, <3>2 DEF Scans
    <3>4. QED
      BY <1>3, <2>1, <3>3 DEF RecList
  <2>2. CASE RecLeaves
    <3>1. rec.todo \cap dirs \in SUBSET ContainerDirs
      BY <1>3 DEF Scans
    <3>2. [rec EXCEPT !.pc = "read", !.todo = @ \cap dirs] \in Scans
      BY <1>3, <3>1 DEF Scans
    <3>3. rec' \in Scans
      BY <1>4, <2>2, <3>2 DEF RecLeaves
    <3>4. QED
      BY <1>3, <2>2, <3>3 DEF RecLeaves
  <2>3. CASE RecRead
    <3>1. ASSUME NEW d \in rec.todo
          PROVE  /\ [rec EXCEPT !.pc = "determine", !.todo = @ \ {d}, !.dir = d] \in Scans
                 /\ [rec EXCEPT !.todo = @ \ {d}] \in Scans
      BY <1>3, <3>1 DEF Scans
    <3>2. rec' \in Scans
      BY <1>4, <2>3, <3>1 DEF RecRead
    <3>3. UNCHANGED cpus
      BY <2>3 DEF RecRead
    <3>4. QED
      BY <1>3, <3>2, <3>3
  <2>4. CASE RecDetermine
    <3>1. ASSUME NEW x \in CorrectSets(rec.dir[1], rec.dir[2])
          PROVE  [rec EXCEPT !.pc = "write", !.set = x] \in Scans
      <4>1. x \in SUBSET CPU
        BY <1>3, CorrectSetsType
      <4>2. rec.dir \in ContainerDirs
        BY <1>3, <2>4 DEF RecDetermine, Scans
      <4>3. QED
        BY <1>3, <4>1, <4>2 DEF Scans
    <3>2. rec.todo \in SUBSET ContainerDirs
      BY <1>3 DEF Scans
    <3>3. QED
      BY <1>3, <1>4, <2>4, <3>1, <3>2 DEF RecDetermine
  <2>5. CASE RecWrite
    <3>1. rec.set \in SUBSET CPU /\ rec.todo \in SUBSET ContainerDirs
      BY <1>3 DEF Scans
    <3>2. rec' \in Scans
      BY <1>4, <2>5, <3>1 DEF RecWrite
    <3>3. cpus' \in [Dirs -> SUBSET CPU]
      BY <1>3, <2>5, <3>1 DEF RecWrite
    <3>4. QED
      BY <3>2, <3>3
  <2>6. QED
    BY <2>1, <2>2, <2>3, <2>4, <2>5 DEF RecStep
<1>6. QED
  BY <1>1, <1>2, <1>5 DEF TypeOK

LEMMA PodAddedType ==
  ASSUME TypeOK, NEW p \in Pods, PodAdded(p)
  PROVE  TypeOK'
<1>1. Item(p) \in Items
  <2>1. status[p] \in Statuses(p) /\ status[p] \in Copies
    BY DEF TypeOK, Copies
  <2>2. Item(p) \in ItemRecords
    BY <2>1 DEF Item, ItemRecords
  <2>3. Item(p).pod = p /\ Item(p).status = status[p]
    BY DEF Item
  <2>4. QED
    BY <2>1, <2>2, <2>3 DEF Items
<1>2. queue' \in Seq(Items)
  BY <1>1 DEF TypeOK, PodAdded
<1>3. known' \subseteq Pods
  BY DEF TypeOK, PodAdded
<1>4. UNCHANGED <<phase, status, annotated, inc, dirs, cpus, checkpoint, up, worker, rec, faults, crashes>>
  BY DEF PodAdded, apiVars, nodeVars
<1>5. QED
  BY <1>2, <1>3, <1>4 DEF TypeOK

LEMMA ProcessType ==
  ASSUME TypeOK, Crash \/ Run
  PROVE  TypeOK'
<1>1. CASE Crash
  <2>1. crashes' \in 0..MaxCrashes
    BY <1>1, ConstantsAssumption DEF TypeOK, Crash
  <2>2. rec' \in Scans
    <3>1. Resting \in Scans
      BY DEF Scans, Resting
    <3>2. QED
      BY <1>1, <3>1 DEF Crash
  <2>3. up' \in BOOLEAN /\ known' \subseteq Pods /\ queue' \in Seq(Items)
    <3>1. up' = FALSE /\ known' = {} /\ queue' = <<>>
      BY <1>1, Zenon DEF Crash
    <3>2. up' \in BOOLEAN
      BY <3>1, Zenon
    <3>3. known' \subseteq Pods /\ queue' \in Seq(Items)
      BY <3>1
    <3>4. QED
      BY <3>2, <3>3
  <2>4. worker' \in [Workers -> Jobs \cup {Idle}]
    <3>1. worker' = [w \in Workers |-> Idle]
      BY <1>1 DEF Crash
    <3>2. QED
      BY <3>1, Zenon
  <2>5. UNCHANGED <<phase, status, annotated, inc, dirs, cpus, checkpoint, faults>>
    BY <1>1 DEF Crash, apiVars, nodeVars
  <2>6. QED
    BY <2>1, <2>2, <2>3, <2>4, <2>5 DEF TypeOK
<1>2. CASE Run
  BY <1>2 DEF TypeOK, Run, apiVars, nodeVars
<1>3. QED
  BY <1>1, <1>2

\* In every behaviour of the controller and of the cluster around it, for any
\* number of Pods, workers and pools, every variable keeps its type: no worker
\* ever holds a Pod or a container that does not exist, its retry counters stay
\* below MaxRetryCount, and every cpuset written consists of the node's CPUs.
THEOREM TypeCorrect == Spec => []TypeOK
<1>1. Init => TypeOK
  BY InitType
<1>2. TypeOK /\ [Next]_vars => TypeOK'
  <2> SUFFICES ASSUME TypeOK, [Next]_vars
               PROVE  TypeOK'
    OBVIOUS
  <2>1. CASE ClusterStep
    BY <2>1, ClusterType
  <2>2. ASSUME NEW p \in Pods, PodAdded(p)
        PROVE  TypeOK'
    BY <2>2, PodAddedType
  <2>3. ASSUME NEW w \in Workers, WorkerStep(w)
        PROVE  TypeOK'
    BY <2>3, WorkerType
  <2>4. CASE RecStep
    BY <2>4, RecType
  <2>5. CASE Crash \/ Run
    BY <2>5, ProcessType
  <2>6. CASE UNCHANGED vars
    BY <2>6 DEF TypeOK, vars, apiVars, nodeVars, procVars
  <2>7. QED
    BY <2>1, <2>2, <2>3, <2>4, <2>5, <2>6 DEF Next, ControllerStep
<1>3. QED
  BY <1>1, <1>2, PTL DEF Spec

-----------------------------------------------------------------------------
(* Exclusive CPUs stay exclusive (ExclusiveIsolation).                      *)

\* A directory belongs to the Pod its name says.
LEMMA DirOfPod ==
  ASSUME NEW d \in Dirs
  PROVE  d[1] \in Pods /\ d \in PodDirs(d[1])
<1>1. PICK p \in Pods : d \in PodDirs(p)
  BY DEF Dirs
<1>2. d[1] = p
  BY <1>1 DEF PodDirs, Infra
<1>3. QED
  BY <1>1, <1>2

-----------------------------------------------------------------------------
(* The invariant implies the property.                                      *)

\* A thread of a set of CPUs is a thread of one of them.
LEMMA ThreadOfOne ==
  ASSUME NEW c, NEW x \in ThreadsOf(c)
  PROVE  \E a \in c : x \in ThreadsOf({a})
  BY DEF ThreadsOf, AddHTSiblingsToCPUSet

\* Two live allocations of different containers have no thread in common.
LEMMA AllocationsApart ==
  ASSUME TypeOK, AllocationsSound, NEW e \in LiveEntries, NEW f \in LiveEntries, e # f
  PROVE  ThreadsOf(e.devices) \cap ThreadsOf(f.devices) = {}
<1>1. /\ e.pool \in ExclusivePools /\ e.devices \subseteq PoolConfig[e.pool].cpus
      /\ f.pool \in ExclusivePools /\ f.devices \subseteq PoolConfig[f.pool].cpus
  BY DEF TypeOK, LiveEntries, Allocated, ExclusivePools
<1>2. CASE e.pool # f.pool
  BY <1>1, <1>2, ThreadsMonotone, IsolationAssumption
<1>3. CASE e.pool = f.pool
  <2> SUFFICES ASSUME NEW x \in ThreadsOf(e.devices), x \in ThreadsOf(f.devices)
               PROVE  FALSE
    OBVIOUS
  <2>1. PICK a \in e.devices : x \in ThreadsOf({a})
    BY ThreadOfOne
  <2>2. PICK b \in f.devices : x \in ThreadsOf({b})
    BY ThreadOfOne
  <2>3. a # b
    BY <1>3 DEF AllocationsSound
  <2>4. QED
    BY <1>1, <1>3, <2>1, <2>2, <2>3, IsolationAssumption
<1>4. QED
  BY <1>2, <1>3

LEMMA InvImpliesIsolation == IsolationInv => ExclusiveIsolation
<1> SUFFICES ASSUME IsolationInv, NEW e \in LiveEntries, NEW d \in dirs,
                    d[1] # e.pod \/ d[2] # e.cont, cpus[d] # Inherited,
                    NEW x \in cpus[d], x \in Expanded(e)
             PROVE  FALSE
  BY DEF ExclusiveIsolation
<1> USE DEF IsolationInv
<1>1. x \in ThreadsOf(e.devices)
  BY ThreadsContain DEF Expanded, ThreadsOf
<1>2. x \in Reach(d[1], d[2])
  BY DEF SetsWithinReach
<1>3. CASE x \in CommonCpus
  <2>1. e.pool \in ExclusivePools /\ e.devices \subseteq PoolConfig[e.pool].cpus
    BY DEF TypeOK, LiveEntries, Allocated, ExclusivePools
  <2>2. QED
    BY <1>1, <1>3, <2>1, ThreadsMonotone, IsolationAssumption
<1>4. ASSUME NEW f \in checkpoint, f.pod = d[1], f.cont = d[2], x \in ThreadsOf(f.devices)
      PROVE  FALSE
  <2>1. f \in LiveEntries /\ f # e
    BY <1>4 DEF DirsLive, LiveEntries
  <2>2. QED
    BY <1>1, <1>4, <2>1, AllocationsApart
<1>5. QED
  BY <1>2, <1>3, <1>4 DEF Reach

-----------------------------------------------------------------------------
(* The cluster keeps the invariant.                                         *)

\* A Pod that has ended stays so.
LEMMA EndedStays ==
  ASSUME TypeOK, ClusterStep, NEW p \in Pods, Ended(p)
  PROVE  Ended(p)'
<1>1. \A q \in Pods : CreatePod(q) => Ended(p)'
  BY DEF TypeOK, CreatePod, Ended
<1>2. \A q \in Pods : BindPod(q) => Ended(p)'
  BY DEF TypeOK, BindPod, Ended
<1>3. \A q \in Pods : \A i \in Containers(q) : StartContainer(q, i) \/ ExitContainer(q, i) => Ended(p)'
  BY DEF TypeOK, StartContainer, ExitContainer, Ended, apiVars
<1>4. \A q \in Pods : ReportStatus(q) => Ended(p)'
  BY DEF TypeOK, ReportStatus, Ended
<1>5. \A q \in Pods : \A to \in {"finished", "deleted"} : EndPod(q, to) => Ended(p)'
  BY DEF TypeOK, EndPod, Ended
<1>6. QED
  BY <1>1, <1>2, <1>3, <1>4, <1>5 DEF ClusterStep

\* What a container may be given never shrinks while its Pod lives.
LEMMA ReachGrows ==
  ASSUME IsolationInv, ClusterStep, NEW p \in Pods, NEW i
  PROVE  Reach(p, i) \subseteq Reach(p, i)' \/ Ended(p)'
<1> USE DEF IsolationInv
<1> SUFFICES ASSUME ~Ended(p)
             PROVE  \A e \in checkpoint : e.pod = p => e \in checkpoint'
  BY EndedStays DEF Reach
<1> SUFFICES ASSUME NEW e \in checkpoint, e.pod = p
             PROVE  e \in checkpoint'
  OBVIOUS
<1>1. e \in LiveEntries
  BY DEF AllocationsSound, LiveEntries
<1>2. CASE \E q \in Pods : BindPod(q)
  BY <1>1, <1>2 DEF BindPod
<1>3. CASE ~ \E q \in Pods : BindPod(q)
  BY <1>3 DEF ClusterStep, CreatePod, StartContainer, ExitContainer, ReportStatus, EndPod, nodeVars
<1>4. QED
  BY <1>2, <1>3

\* The kubelet's allocations stay sound.
LEMMA ClusterAllocations ==
  ASSUME IsolationInv, ClusterStep
  PROVE  AllocationsSound'
<1> USE DEF IsolationInv
<1>1. CASE checkpoint' = checkpoint
  <2>1. \A e \in checkpoint : phase'[e.pod] = "bound" \/ Ended(e.pod)'
    <3> SUFFICES ASSUME NEW e \in checkpoint, phase[e.pod] = "bound"
                 PROVE  phase'[e.pod] = "bound" \/ Ended(e.pod)'
      <4>1. \A f \in checkpoint : f.pod \in Pods
        BY ConstantsAssumption DEF TypeOK, Allocated
      <4>2. QED
        BY <4>1, EndedStays DEF AllocationsSound
    <3>1. e.pod \in Pods
      BY ConstantsAssumption DEF TypeOK, Allocated
    <3>2. PICK p \in Pods :
            \/ CreatePod(p)
            \/ BindPod(p)
            \/ \E i \in Containers(p) : StartContainer(p, i) \/ ExitContainer(p, i)
            \/ ReportStatus(p)
            \/ \E to \in {"finished", "deleted"} : EndPod(p, to)
      BY DEF ClusterStep
    <3>3. CASE \E to \in {"finished", "deleted"} : EndPod(p, to)
      BY <3>1, <3>3 DEF EndPod, Ended, TypeOK
    <3>4. CASE CreatePod(p) \/ BindPod(p)
      BY <3>1, <3>4 DEF CreatePod, BindPod, TypeOK
    <3>5. CASE ReportStatus(p) \/ \E i \in Containers(p) : StartContainer(p, i) \/ ExitContainer(p, i)
      BY <3>1, <3>5 DEF ReportStatus, StartContainer, ExitContainer, apiVars
    <3>6. QED
      BY <3>2, <3>3, <3>4, <3>5
  <2>2. \A e \in checkpoint : phase'[e.pod] = "bound" => phase[e.pod] = "bound"
    <3> SUFFICES ASSUME NEW e \in checkpoint, phase'[e.pod] = "bound", Ended(e.pod)
                 PROVE  FALSE
      BY DEF AllocationsSound
    <3>1. e.pod \in Pods
      BY ConstantsAssumption DEF TypeOK, Allocated
    <3>2. QED
      BY <3>1, EndedStays DEF Ended
  <2>3. QED
    BY <1>1, <2>1, <2>2 DEF AllocationsSound, LiveEntries
<1>2. CASE checkpoint' # checkpoint
  <2>0. PICK p \in Pods : BindPod(p) /\ p \in LocalPods
    BY <1>2 DEF ClusterStep, CreatePod, BindPod, StartContainer, ExitContainer, ReportStatus, EndPod, nodeVars
  <2>1. PICK alloc \in [Claims(p) -> SUBSET CPU] :
          /\ phase[p] = "pending"
          /\ phase' = [phase EXCEPT ![p] = "bound"]
          /\ IsAllocation(p, alloc)
          /\ checkpoint' = LiveEntries \cup Entries(p, alloc)
    BY <2>0 DEF BindPod
  <2>2. \A e \in LiveEntries : e.pod \in Pods /\ e.pod # p /\ phase'[e.pod] = "bound"
    BY <2>1, ConstantsAssumption DEF TypeOK, Allocated, LiveEntries
  <2>3. \A e \in Entries(p, alloc) : e.pod = p /\ phase'[p] = "bound"
    BY <2>1, ConstantsAssumption DEF TypeOK, Entries
  <2>4. ASSUME NEW e \in LiveEntries, NEW c \in Claims(p), e.pool = c[2]
        PROVE  e.devices \cap alloc[c] = {}
    BY <2>1, <2>4 DEF IsAllocation, FreeDevices
  <2>5. ASSUME NEW b \in Claims(p), NEW c \in Claims(p), b # c, b[2] = c[2]
        PROVE  alloc[b] \cap alloc[c] = {}
    BY <2>1, <2>5 DEF IsAllocation
  <2>6. ASSUME NEW e \in checkpoint', NEW f \in checkpoint', e.pool = f.pool, e # f
        PROVE  e.devices \cap f.devices = {}
    <3>1. CASE e \in LiveEntries /\ f \in LiveEntries
      BY <2>6, <3>1 DEF AllocationsSound
    <3>2. CASE e \in LiveEntries /\ f \in Entries(p, alloc)
      BY <2>4, <2>6, <3>2 DEF Entries
    <3>3. CASE e \in Entries(p, alloc) /\ f \in LiveEntries
      BY <2>4, <2>6, <3>3 DEF Entries
    <3>4. CASE e \in Entries(p, alloc) /\ f \in Entries(p, alloc)
      BY <2>5, <2>6, <3>4 DEF Entries
    <3>5. QED
      BY <2>1, <3>1, <3>2, <3>3, <3>4
  <2>7. \A e \in checkpoint' : phase'[e.pod] = "bound"
    BY <2>1, <2>2, <2>3
  <2>8. QED
    BY <2>6, <2>7 DEF AllocationsSound, LiveEntries
<1>3. QED
  BY <1>1, <1>2

\* A directory of the next state is one of this state with the same cpuset, or
\* a new one that starts with the inherited cpuset; either way its Pod is bound.
LEMMA ClusterDirs ==
  ASSUME IsolationInv, ClusterStep, NEW d \in dirs'
  PROVE  /\ phase'[d[1]] = "bound"
         /\ \/ d \in dirs /\ cpus'[d] = cpus[d]
            \/ cpus'[d] = Inherited
<1> USE DEF IsolationInv
<1>0. \A x \in Dirs : x[1] \in Pods /\ x \in PodDirs(x[1])
  BY DirOfPod
<1>1. dirs \subseteq Dirs /\ DOMAIN cpus = Dirs /\ DOMAIN phase = Pods
  BY DEF TypeOK
<1>2. PICK p \in Pods :
        \/ CreatePod(p)
        \/ BindPod(p)
        \/ \E i \in Containers(p) : StartContainer(p, i) \/ ExitContainer(p, i)
        \/ ReportStatus(p)
        \/ \E to \in {"finished", "deleted"} : EndPod(p, to)
  BY DEF ClusterStep
<1>3. CASE CreatePod(p) \/ ReportStatus(p)
  <2>1. dirs' = dirs /\ cpus' = cpus
    BY <1>3 DEF CreatePod, ReportStatus, nodeVars
  <2>2. phase'[d[1]] = "bound"
    BY <1>0, <1>1, <1>3, <2>1 DEF CreatePod, ReportStatus, DirsLive
  <2>3. QED
    BY <2>1, <2>2
<1>4. CASE BindPod(p)
  <2>1. \/ d \in dirs /\ dirs' = dirs /\ cpus' = cpus
        \/ dirs' = dirs \cup {Infra(p)} /\ cpus' = [cpus EXCEPT ![Infra(p)] = Inherited]
    BY <1>4 DEF BindPod
  <2>2. \/ d \in dirs /\ cpus'[d] = cpus[d]
        \/ cpus'[d] = Inherited /\ (d \in dirs \/ d = Infra(p))
    BY <1>1, <2>1, DirType
  <2>3. phase' = [phase EXCEPT ![p] = "bound"]
    BY <1>4 DEF BindPod
  <2>4. Infra(p)[1] = p
    BY DEF Infra
  <2>5. phase'[d[1]] = "bound"
    BY <1>0, <1>1, <2>2, <2>3, <2>4 DEF DirsLive
  <2>6. QED
    BY <2>2, <2>5
<1>5. ASSUME NEW i \in Containers(p), StartContainer(p, i)
      PROVE  /\ phase'[d[1]] = "bound"
             /\ \/ d \in dirs /\ cpus'[d] = cpus[d]
                \/ cpus'[d] = Inherited
  <2> DEFINE x == <<p, i, inc[p][i] + 1>>
  <2>1. phase' = phase /\ phase[p] = "bound"
    BY <1>5 DEF StartContainer, apiVars
  <2>2. \/ dirs' = dirs /\ cpus' = cpus
        \/ dirs' = dirs \cup {x} /\ cpus' = [cpus EXCEPT ![x] = Inherited]
    BY <1>5 DEF StartContainer
  <2>3. x[1] = p
    OBVIOUS
  <2>4. x \in Dirs
    <3>1. inc[p][i] \in 0..MaxRestarts
      BY <1>5, ConstantsAssumption DEF StartContainer, TypeOK, Statuses
    <3>2. QED
      BY <3>1, DirType, ConstantsAssumption DEF Incarnations
  <2> HIDE DEF x
  <2>5. QED
    BY <1>1, <2>1, <2>2, <2>3, <2>4 DEF DirsLive
<1>6. ASSUME NEW i \in Containers(p), ExitContainer(p, i)
      PROVE  phase'[d[1]] = "bound" /\ d \in dirs /\ cpus'[d] = cpus[d]
  BY <1>1, <1>6 DEF ExitContainer, RemoveDirs, DirsLive, apiVars
<1>7. ASSUME NEW to \in {"finished", "deleted"}, EndPod(p, to)
      PROVE  phase'[d[1]] = "bound" /\ d \in dirs /\ cpus'[d] = cpus[d]
  <2>1. d \in dirs /\ d \notin PodDirs(p)
    BY <1>7 DEF EndPod, RemoveDirs
  <2>2. d[1] # p /\ d[1] \in Pods
    BY <1>0, <1>1, <2>1
  <2>3. QED
    BY <1>1, <1>7, <2>1, <2>2 DEF EndPod, RemoveDirs, DirsLive
<1>8. QED
  BY <1>2, <1>3, <1>4, <1>5, <1>6, <1>7

LEMMA ClusterKeepsInv ==
  ASSUME IsolationInv, ClusterStep
  PROVE  IsolationInv'
<1>1. TypeOK'
  BY ClusterType DEF IsolationInv
<1>2. AllocationsSound'
  BY ClusterAllocations
<1>3. DirsLive'
  BY ClusterDirs DEF DirsLive
<1>4. SetsWithinReach'
  <2> SUFFICES ASSUME NEW d \in dirs', cpus'[d] # Inherited
               PROVE  cpus'[d] \subseteq Reach(d[1], d[2])'
    BY DEF SetsWithinReach
  <2>1. phase'[d[1]] = "bound" /\ d \in dirs /\ cpus'[d] = cpus[d]
    BY ClusterDirs
  <2>2. d[1] \in Pods
    BY <2>1, DirOfPod DEF IsolationInv, TypeOK
  <2>3. cpus[d] \subseteq Reach(d[1], d[2])
    BY <2>1 DEF IsolationInv, SetsWithinReach
  <2>4. ~Ended(d[1])'
    BY <2>1 DEF Ended
  <2>5. QED
    BY <2>1, <2>2, <2>3, <2>4, ReachGrows
<1>5. PendingWithinReach'
  <2>1. UNCHANGED <<worker, rec>>
    BY DEF ClusterStep, CreatePod, BindPod, StartContainer, ExitContainer, ReportStatus, EndPod, procVars
  <2>2. ASSUME NEW w \in Workers, worker[w].pc = "apply"
        PROVE  worker[w].set \subseteq Reach(worker[w].pod, worker[w].cont)' \/ Ended(worker[w].pod)'
    <3>1. worker[w].pod \in Pods
      BY <2>2, BusyType DEF IsolationInv, JobRecords
    <3>2. worker[w].set \subseteq Reach(worker[w].pod, worker[w].cont) \/ Ended(worker[w].pod)
      BY <2>2 DEF IsolationInv, PendingWithinReach
    <3>3. QED
      BY <2>1, <3>1, <3>2, ReachGrows, EndedStays DEF IsolationInv
  <2>3. ASSUME rec.pc = "write"
        PROVE  rec.set \subseteq Reach(rec.dir[1], rec.dir[2])' \/ Ended(rec.dir[1])'
    <3>1. rec.dir[1] \in Pods
      BY <2>3, DirOfPod DEF IsolationInv, TypeOK, Scans, ContainerDirs
    <3>2. rec.set \subseteq Reach(rec.dir[1], rec.dir[2]) \/ Ended(rec.dir[1])
      BY <2>3 DEF IsolationInv, PendingWithinReach
    <3>3. QED
      BY <2>1, <3>1, <3>2, ReachGrows, EndedStays DEF IsolationInv
  <2>4. QED
    BY <2>1, <2>2, <2>3 DEF PendingWithinReach
<1>6. QED
  BY <1>1, <1>2, <1>3, <1>4, <1>5 DEF IsolationInv

-----------------------------------------------------------------------------
(* The controller keeps the invariant.                                      *)

\* Workers, the reconciler and the process change neither Pods nor allocations
\* nor directories, only cpusets: the rest of the invariant is about those.
LEMMA ControllerKeepsInv ==
  ASSUME IsolationInv, TypeOK', UNCHANGED <<phase, dirs, checkpoint>>,
         \A d \in dirs : cpus'[d] # cpus[d] => cpus'[d] \subseteq Reach(d[1], d[2]),
         PendingWithinReach'
  PROVE  IsolationInv'
<1>1. AllocationsSound' /\ DirsLive'
  BY DEF IsolationInv, AllocationsSound, LiveEntries, DirsLive, Ended
<1>2. SetsWithinReach'
  BY DEF IsolationInv, SetsWithinReach, Reach
<1>3. QED
  BY <1>1, <1>2 DEF IsolationInv

\* A worker that turns to applying a set has just determined it.
LEMMA WorkerPending ==
  ASSUME IsolationInv, NEW w \in Workers, WorkerStep(w)
  PROVE  PendingWithinReach'
<1>1. UNCHANGED <<phase, checkpoint, rec>>
  BY WorkerFrameType DEF IsolationInv
<1>2. \A p, i : Reach(p, i)' = Reach(p, i) /\ Ended(p)' = Ended(p)
  BY <1>1 DEF Reach, Ended
<1> DEFINE r == worker[w]
<1>3. \A v \in Workers : v # w => worker'[v] = worker[v]
  BY DEF IsolationInv, TypeOK, WorkerStep, WorkerGet, WorkerRefresh, WorkerDetermine, WorkerApply,
         WorkerInfra, WorkerAnnotate, Goto
<1>4. worker'[w].pc = "apply" => worker'[w].set \subseteq Reach(worker'[w].pod, worker'[w].cont)
  <2>1. \A t : Goto(w, t) => worker'[w] = t
    BY DEF IsolationInv, TypeOK, Goto
  <2>2. Idle.pc # "apply"
    BY DEF Idle
  <2>3. ASSUME NEW t \in Jobs
        PROVE  Retry(t).pc # "apply" /\ Accepted(t).pc # "apply"
    BY <2>2 DEF Retry, Accepted, Jobs, JobRecords
  <2>4. ASSUME NEW t \in Jobs, NEW path
        PROVE  NextContainer(t, path).pc # "apply"
    BY DEF NextContainer, Jobs, JobRecords
  <2>5. CASE WorkerGet(w)
    BY <2>1, <2>2, <2>5 DEF WorkerGet
  <2>6. CASE WorkerRefresh(w)
    <3>1. r \in Jobs /\ r \in JobRecords /\ r.pc = "refresh"
      BY <2>6, BusyType DEF IsolationInv, WorkerRefresh
    <3>2. ASSUME NEW q
          PROVE  Accepted([r EXCEPT !.pod = q, !.bound = TRUE, !.status = status[q]]).pc # "apply"
      BY <2>2, <3>1 DEF Accepted, JobRecords
    <3>3. [r EXCEPT !.try = @ + 1].pc = "refresh"
      BY <3>1 DEF JobRecords
    <3>4. QED
      BY <2>1, <2>2, <2>3, <2>6, <3>1, <3>2, <3>3 DEF WorkerRefresh
  <2>7. CASE WorkerDetermine(w)
    <3>1. r \in Jobs /\ r \in JobRecords
      BY <2>7, BusyType DEF IsolationInv, WorkerDetermine
    <3>2. CASE Goto(w, Retry(r))
      BY <2>1, <2>3, <3>1, <3>2
    <3>3. ASSUME NEW s \in CorrectSets(r.pod, r.cont), Goto(w, [r EXCEPT !.pc = "apply", !.set = s])
          PROVE  worker'[w].set \subseteq Reach(worker'[w].pod, worker'[w].cont)
      <4>1. worker'[w] = [r EXCEPT !.pc = "apply", !.set = s]
        BY <2>1, <3>3
      <4>2. worker'[w].set = s /\ worker'[w].pod = r.pod /\ worker'[w].cont = r.cont
        BY <3>1, <4>1 DEF JobRecords
      <4>3. QED
        BY <4>2, DetermineWithinReach
    <3>4. QED
      BY <2>7, <3>2, <3>3 DEF WorkerDetermine
  <2>8. CASE WorkerApply(w)
    <3>1. r \in Jobs
      BY <2>8, BusyType DEF IsolationInv, WorkerApply
    <3>2. QED
      BY <2>1, <2>3, <2>4, <2>8, <3>1 DEF WorkerApply
  <2>9. CASE WorkerInfra(w)
    <3>1. r \in Jobs
      BY <2>9, BusyType DEF IsolationInv, WorkerInfra
    <3>2. [r EXCEPT !.pc = "annotate"].pc = "annotate"
      BY <3>1 DEF Jobs, JobRecords
    <3>3. QED
      BY <2>1, <2>3, <2>9, <3>1, <3>2 DEF WorkerInfra
  <2>10. CASE WorkerAnnotate(w)
    <3>1. r \in Jobs
      BY <2>10, BusyType DEF IsolationInv, WorkerAnnotate
    <3>2. QED
      BY <2>1, <2>2, <2>3, <2>10, <3>1 DEF WorkerAnnotate
  <2>11. QED
    BY <2>5, <2>6, <2>7, <2>8, <2>9, <2>10 DEF WorkerStep
<1>5. QED
  BY <1>1, <1>2, <1>3, <1>4 DEF IsolationInv, PendingWithinReach

\* What a worker writes to a cgroup is within reach of the container there.
LEMMA WorkerWrites ==
  ASSUME IsolationInv, NEW w \in Workers, WorkerStep(w), NEW d \in dirs, cpus'[d] # cpus[d]
  PROVE  cpus'[d] \subseteq Reach(d[1], d[2])
<1> DEFINE r == worker[w]
<1>1. DOMAIN cpus = Dirs /\ dirs \subseteq Dirs
  BY DEF IsolationInv, TypeOK
<1>2. WorkerApply(w) \/ WorkerInfra(w)
  BY DEF WorkerStep, WorkerGet, WorkerRefresh, WorkerDetermine, WorkerAnnotate, OutsideFrame, nodeVars
<1>3. CASE WorkerApply(w)
  <2> DEFINE x == <<r.pod, r.cont, r.status[r.cont]>>
  <2>1. r.pc = "apply" /\ x \in dirs /\ cpus' = [cpus EXCEPT ![x] = r.set]
    BY <1>3 DEF WorkerApply
  <2>2. x[1] = r.pod /\ x[2] = r.cont
    OBVIOUS
  <2>3. d = x /\ cpus'[d] = r.set
    BY <1>1, <2>1
  <2>4. phase[r.pod] = "bound"
    BY <2>1, <2>2 DEF IsolationInv, DirsLive
  <2>5. r.set \subseteq Reach(r.pod, r.cont)
    BY <2>1, <2>4 DEF IsolationInv, PendingWithinReach, Ended
  <2>6. QED
    BY <2>2, <2>3, <2>5
<1>4. CASE WorkerInfra(w)
  <2>1. PICK default \in DefaultSets, x \in InfraCandidates(r) : cpus' = [cpus EXCEPT ![x] = default]
    BY <1>4 DEF WorkerInfra
  <2>2. cpus'[d] = default
    BY <1>1, <2>1
  <2>3. default \subseteq CommonCpus
    BY DEF DefaultSets, CommonCpus
  <2>4. QED
    BY <2>2, <2>3 DEF Reach
<1>5. QED
  BY <1>2, <1>3, <1>4

LEMMA WorkerKeepsInv ==
  ASSUME IsolationInv, NEW w \in Workers, WorkerStep(w)
  PROVE  IsolationInv'
<1>1. TypeOK'
  BY WorkerType DEF IsolationInv
<1>2. UNCHANGED <<phase, dirs, checkpoint>>
  BY WorkerFrameType DEF IsolationInv
<1>3. QED
  BY <1>1, <1>2, WorkerPending, WorkerWrites, ControllerKeepsInv

\* The same two facts about the reconciler.
LEMMA RecKeepsInv ==
  ASSUME IsolationInv, RecStep
  PROVE  IsolationInv'
<1>1. TypeOK'
  BY RecType DEF IsolationInv
<1>2. UNCHANGED <<phase, dirs, checkpoint, worker>>
  BY DEF RecStep, RecList, RecLeaves, RecRead, RecDetermine, RecWrite, RecFrame, apiVars
<1>3. \A p, i : Reach(p, i)' = Reach(p, i) /\ Ended(p)' = Ended(p)
  BY <1>2 DEF Reach, Ended
<1>4. rec \in Scans
  BY DEF IsolationInv, TypeOK
<1>5. ASSUME NEW d \in dirs, cpus'[d] # cpus[d]
      PROVE  cpus'[d] \subseteq Reach(d[1], d[2])
  <2>1. RecWrite /\ rec.pc = "write"
    BY <1>5 DEF RecStep, RecList, RecLeaves, RecRead, RecDetermine, RecWrite
  <2>2. rec.dir \in dirs /\ cpus' = [cpus EXCEPT ![rec.dir] = rec.set]
    BY <1>5, <2>1 DEF RecWrite
  <2>3. d = rec.dir /\ cpus'[d] = rec.set
    BY <1>5, <2>2 DEF IsolationInv, TypeOK
  <2>4. phase[d[1]] = "bound"
    BY DEF IsolationInv, DirsLive
  <2>5. QED
    BY <2>1, <2>3, <2>4 DEF IsolationInv, PendingWithinReach, Ended
<1>6. rec'.pc = "write" => rec'.set \subseteq Reach(rec'.dir[1], rec'.dir[2])
  <2> SUFFICES ASSUME rec'.pc = "write"
               PROVE  rec'.set \subseteq Reach(rec'.dir[1], rec'.dir[2])
    OBVIOUS
  <2>1. RecDetermine
    <3>1. Resting.pc = "idle" /\ \A ds : [Resting EXCEPT !.pc = "read", !.todo = ds].pc = "read"
      BY DEF Resting
    <3>2. ~RecList /\ ~RecLeaves
      BY <1>4, <3>1 DEF RecList, RecLeaves, Scans
    <3>3. ~RecWrite
      BY <3>1 DEF RecWrite
    <3>4. ~RecRead
      BY <1>4, <3>1 DEF RecRead, Scans
    <3>5. QED
      BY <3>2, <3>3, <3>4 DEF RecStep
  <2>2. PICK s \in CorrectSets(rec.dir[1], rec.dir[2]) : rec' = [rec EXCEPT !.pc = "write", !.set = s]
    BY <2>1 DEF RecDetermine, Resting
  <2>3. rec'.set = s /\ rec'.dir = rec.dir
    BY <1>4, <2>2 DEF Scans
  <2>4. QED
    BY <2>3, DetermineWithinReach
<1>7. PendingWithinReach'
  BY <1>2, <1>3, <1>6 DEF IsolationInv, PendingWithinReach
<1>8. QED
  BY <1>1, <1>2, <1>5, <1>7, ControllerKeepsInv

\* The informer and the process hold no sets.
LEMMA OthersKeepInv ==
  ASSUME IsolationInv, (\E p \in Pods : PodAdded(p)) \/ Crash \/ Run
  PROVE  IsolationInv'
<1>1. TypeOK'
  BY PodAddedType, ProcessType DEF IsolationInv
<1>2. UNCHANGED <<phase, dirs, checkpoint, cpus>>
  BY DEF PodAdded, Crash, Run, apiVars, nodeVars
<1>3. \A p, i : Reach(p, i)' = Reach(p, i) /\ Ended(p)' = Ended(p)
  BY <1>2 DEF Reach, Ended
<1>4. PendingWithinReach'
  <2>1. CASE UNCHANGED <<worker, rec>>
    BY <1>3, <2>1 DEF IsolationInv, PendingWithinReach
  <2>2. CASE Crash
    <3>1. worker' = [w \in Workers |-> Idle] /\ rec' = Resting
      BY <2>2 DEF Crash
    <3>2. Idle.pc = "idle" /\ Resting.pc = "idle"
      BY DEF Idle, Resting
    <3>3. QED
      BY <3>1, <3>2 DEF PendingWithinReach
  <2>3. QED
    BY <2>1, <2>2 DEF PodAdded, Run
<1>5. QED
  BY <1>1, <1>2, <1>4, ControllerKeepsInv

-----------------------------------------------------------------------------
\* IsolationInv is inductive: it holds initially and every step keeps it.
LEMMA IsolationKept ==
  ASSUME IsolationInv, [Next]_vars
  PROVE  IsolationInv'
<1>1. CASE ClusterStep
  BY <1>1, ClusterKeepsInv
<1>2. ASSUME NEW w \in Workers, WorkerStep(w)
      PROVE  IsolationInv'
  BY <1>2, WorkerKeepsInv
<1>3. CASE RecStep
  BY <1>3, RecKeepsInv
<1>4. CASE (\E p \in Pods : PodAdded(p)) \/ Crash \/ Run
  BY <1>4, OthersKeepInv
<1>5. CASE UNCHANGED vars
  <2>1. UNCHANGED <<phase, status, annotated, inc, dirs, cpus, checkpoint,
                    up, known, queue, worker, rec, faults, crashes>>
    BY <1>5 DEF vars, apiVars, nodeVars, procVars
  <2>2. TypeOK'
    BY <2>1 DEF IsolationInv, TypeOK
  <2>3. PendingWithinReach'
    BY <2>1 DEF IsolationInv, PendingWithinReach, Reach, Ended
  <2>4. QED
    BY <2>1, <2>2, <2>3, ControllerKeepsInv
<1>6. QED
  BY <1>1, <1>2, <1>3, <1>4, <1>5 DEF Next, ControllerStep

LEMMA IsolationAtFirst == Init => IsolationInv
  BY InitType DEF Init, IsolationInv, AllocationsSound, LiveEntries, DirsLive, SetsWithinReach,
     PendingWithinReach, Idle, Resting

\* Every set that was written or is about to be is within its container's reach,
\* and the CPUs allocated to live containers are disjoint.
THEOREM IsolationInvariant == Spec => []IsolationInv
<1>1. IsolationInv /\ [Next]_vars => IsolationInv'
  BY IsolationKept
<1>2. QED
  BY <1>1, IsolationAtFirst, PTL DEF Spec

\* For any number of Pods, containers, workers and pools, whatever fails, crashes
\* or restarts, and however names are reused: no cgroup whose cpuset the
\* controller has set holds a CPU, or a sibling thread of one, that the kubelet
\* has allocated to a live container other than its own.
THEOREM Isolation == Spec => []ExclusiveIsolation
<1>1. IsolationInv => ExclusiveIsolation
  BY InvImpliesIsolation
<1>2. QED
  BY <1>1, IsolationInvariant, PTL
=============================================================================
