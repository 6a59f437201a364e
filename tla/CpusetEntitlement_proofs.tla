---------------------- MODULE CpusetEntitlement_proofs ----------------------
(***************************************************************************)
(* Proofs that cpusets are the containers' own (WithinEntitlement), and    *)
(* that annotations are earned (PinnedBeforeAnnotation) and true           *)
(* (AnnotatedMeansPinned).                                                 *)
(***************************************************************************)
EXTENDS CpusetEntitlement, CpusetController_proofs, PoolNames_proofs

-----------------------------------------------------------------------------
(* What a container is entitled to.                                         *)

LEMMA PoolCpusOfType == \A t : PoolCpus(t) = CpusOfType(PoolConfig, t)
  BY DEF PoolCpus, CpusOfType

\* The default pool is the one set the infra container can be given.
LEMMA DefaultSet == DefaultSets = {DefaultCpus}
  BY NamesAssumption, SelectDefault, PoolCpusOfType DEF DefaultSets, DefaultCpus

\* The devices of a container, pool by pool or entry by entry, are the same CPUs.
LEMMA ExclusivePartIs ==
  ASSUME TypeOK, EntriesRequested, NEW p \in Pods, NEW i \in Containers(p)
  PROVE  ExclusivePart(PoolConfig, HTMap, checkpoint, p, i, Requested(p, i)) = ExclusiveCpus(p, i)
<1> DEFINE own == {x \in checkpoint : x.pod = p /\ x.cont = i}
           devices(n) == AllocatedDevices(checkpoint, p, i, n)
           pools == {n \in Requested(p, i) : DeterminePoolType(n) = ExclusivePoolID}
<1>1. \A e \in own : e.pool \in pools
  BY DEF EntriesRequested, TypeOK, Allocated
<1>2. ASSUME NEW n \in pools
      PROVE  UnderPolicy(PoolConfig, HTMap, n, devices(n)) = UNION {Expanded(e) : e \in {x \in own : x.pool = n}}
  <2>1. devices(n) = UNION {e.devices : e \in {x \in own : x.pool = n}}
    BY DEF AllocatedDevices
  <2>2. CASE PoolConfig[n].ht = MultiThreadHTPolicy
    <3>1. UnderPolicy(PoolConfig, HTMap, n, devices(n)) = AddHTSiblingsToCPUSet(devices(n), HTMap)
      BY <2>2 DEF UnderPolicy
    <3>2. \A e \in own : e.pool = n => Expanded(e) = AddHTSiblingsToCPUSet(e.devices, HTMap)
      BY <2>2 DEF Expanded
    <3>3. AddHTSiblingsToCPUSet(devices(n), HTMap)
            = UNION {AddHTSiblingsToCPUSet(c, HTMap) : c \in {e.devices : e \in {x \in own : x.pool = n}}}
      BY <2>1, SiblingsOfUnion
    <3>4. QED
      BY <3>1, <3>2, <3>3
  <2>3. CASE PoolConfig[n].ht # MultiThreadHTPolicy
    BY <2>1, <2>3 DEF UnderPolicy, Expanded
  <2>4. QED
    BY <2>2, <2>3
<1> HIDE DEF own, pools, devices
<1>3. UNION {UnderPolicy(PoolConfig, HTMap, n, devices(n)) : n \in pools} = UNION {Expanded(e) : e \in own}
  BY <1>1, <1>2
<1>4. QED
  BY <1>3 DEF ExclusivePart, ExclusiveCpus, own, pools, devices

\* determineCorrectCpuset has one outcome, the set the container is entitled to.
LEMMA CorrectIsEntitled ==
  ASSUME TypeOK, EntriesRequested, NEW p \in Pods, NEW i \in Containers(p)
  PROVE  CorrectSets(p, i) = {Entitled(p, i)}
<1> DEFINE rs == Requested(p, i)
           s == SharedPart(PoolConfig, rs)
           e == ExclusivePart(PoolConfig, HTMap, checkpoint, p, i, rs)
<1>1. UnambiguousNames(PoolConfig) /\ ServableRequests(PoolConfig, rs)
  BY NamesAssumption
<1>2. CorrectSets(p, i) = {IF s \cup e # {} THEN s \cup e ELSE CpusOfType(PoolConfig, DefaultPoolID)}
  BY <1>1, OneCpuset DEF CorrectSets
<1>3. s = IF \E n \in rs : DeterminePoolType(n) = SharedPoolID THEN SharedCpus ELSE {}
  BY PoolCpusOfType DEF SharedPart, SharedCpus
<1>4. e = ExclusiveCpus(p, i)
  BY ExclusivePartIs
<1>5. CpusOfType(PoolConfig, DefaultPoolID) = DefaultCpus
  BY PoolCpusOfType DEF DefaultCpus
<1> HIDE DEF s, e
<1>6. QED
  BY <1>2, <1>3, <1>4, <1>5 DEF Entitled

\* It is never empty, so applyCpusetToContainer skips no container.
LEMMA EntitledNonempty ==
  ASSUME NEW p, NEW i
  PROVE  Entitled(p, i) # {}
  BY DefaultPoolAssumption DEF Entitled

\* The name of a directory: its Pod, its container, the incarnation.
LEMMA NameOfDir ==
  ASSUME NEW d \in Dirs
  PROVE  /\ d[1] \in Pods /\ d = <<d[1], d[2], d[3]>>
         /\ IF d[2] = 0 THEN d = Infra(d[1])
            ELSE d[2] \in Containers(d[1]) /\ d[3] \in Incarnations
<1>1. d[1] \in Pods /\ d \in PodDirs(d[1])
  BY DirOfPod
<1>2. CASE d = Infra(d[1])
  BY <1>1, <1>2 DEF Infra
<1>3. CASE \E i \in Containers(d[1]), k \in Incarnations : d = <<d[1], i, k>>
  BY <1>1, <1>3, ContainerType
<1>4. QED
  BY <1>1, <1>2, <1>3 DEF PodDirs

-----------------------------------------------------------------------------
(* What the cluster does to a Pod that is bound.                            *)

LEMMA EntitledOf ==
  ASSUME NEW p, NEW i,
         {x \in checkpoint' : x.pod = p /\ x.cont = i} = {x \in checkpoint : x.pod = p /\ x.cont = i}
  PROVE  Entitled(p, i)' = Entitled(p, i)
<1>1. ExclusiveCpus(p, i)' = ExclusiveCpus(p, i)
  BY DEF ExclusiveCpus, Expanded
<1>2. SharedCpus' = SharedCpus /\ DefaultCpus' = DefaultCpus
  BY DEF SharedCpus, DefaultCpus, PoolCpus
<1>3. QED
  BY <1>1, <1>2 DEF Entitled

\* It stays bound until it ends, and its allocation stays what it is.
LEMMA AllocationStays ==
  ASSUME IsolationInv, ClusterStep, NEW p \in Pods, Admitted(p), ~Ended(p)'
  PROVE  phase'[p] = "bound" /\ \A x : x.pod = p => (x \in checkpoint' <=> x \in checkpoint)
<1> USE DEF IsolationInv
<1>1. phase[p] = "bound"
  BY EndedStays DEF Admitted
<1>2. PICK q \in Pods :
        \/ CreatePod(q)
        \/ BindPod(q)
        \/ \E i \in Containers(q) : StartContainer(q, i) \/ ExitContainer(q, i)
        \/ ReportStatus(q)
        \/ \E to \in {"finished", "deleted"} : EndPod(q, to)
  BY DEF ClusterStep
<1>3. CASE BindPod(q)
  <2>1. phase'[p] = "bound" /\ p # q
    BY <1>1, <1>3 DEF BindPod, TypeOK
  <2>2. \A x : x.pod = p => (x \in checkpoint' <=> x \in checkpoint)
    <3>1. CASE q \notin LocalPods
      BY <1>3, <3>1 DEF BindPod
    <3>2. CASE q \in LocalPods
      <4>1. PICK alloc \in [Claims(q) -> SUBSET CPU] : checkpoint' = LiveEntries \cup Entries(q, alloc)
        BY <1>3, <3>2 DEF BindPod
      <4>2. QED
        BY <1>1, <2>1, <4>1 DEF LiveEntries, Entries
    <3>3. QED
      BY <3>1, <3>2
  <2>3. QED
    BY <2>1, <2>2
<1>4. CASE CreatePod(q) \/ ReportStatus(q)
  <2>1. phase'[p] = "bound" /\ checkpoint' = checkpoint
    BY <1>1, <1>4 DEF CreatePod, ReportStatus, nodeVars, TypeOK
  <2>2. QED
    BY <2>1
<1>5. CASE \E i \in Containers(q) : StartContainer(q, i) \/ ExitContainer(q, i)
  <2>1. phase'[p] = "bound" /\ checkpoint' = checkpoint
    BY <1>1, <1>5 DEF StartContainer, ExitContainer, apiVars
  <2>2. QED
    BY <2>1
<1>6. CASE \E to \in {"finished", "deleted"} : EndPod(q, to)
  <2>1. phase'[p] = "bound" /\ checkpoint' = checkpoint
    BY <1>1, <1>6 DEF EndPod, TypeOK, Ended
  <2>2. QED
    BY <2>1
<1>7. QED
  BY <1>2, <1>3, <1>4, <1>5, <1>6

LEMMA AdmittedStays ==
  ASSUME IsolationInv, ClusterStep, NEW p \in Pods, Admitted(p)
  PROVE  Admitted(p)' /\ (Ended(p)' \/ \A i : Entitled(p, i)' = Entitled(p, i))
<1> SUFFICES ASSUME ~Ended(p)'
             PROVE  phase'[p] = "bound" /\ \A i : Entitled(p, i)' = Entitled(p, i)
  BY DEF Admitted
<1>1. phase'[p] = "bound" /\ \A x : x.pod = p => (x \in checkpoint' <=> x \in checkpoint)
  BY AllocationStays
<1>2. QED
  BY <1>1, EntitledOf

-----------------------------------------------------------------------------
(* What a step of a worker does to the job it has.                          *)

SameCopy(s, r) == s.pod = r.pod /\ s.bound = r.bound /\ s.status = r.status

\* It takes a Pod from the queue, waits for it to be ready, and begins with the
\* copy it has or with the API server's.
Took(s) ==
  LET item == Head(queue)
  IN  queue # <<>> /\ s.pc = "refresh" /\ s.pod = item.pod /\ s.bound = item.bound /\ s.status = item.status

Waited(r, s) == r.pc = "refresh" /\ s.pc = "refresh" /\ SameCopy(s, r)

Began(r, s) ==
  /\ r.pc = "refresh" /\ s.pc = "determine" /\ s.cont = 1 /\ s.bound
  /\ \A i \in Containers(s.pod) : s.status[i] # 0
  /\ \/ SameCopy(s, r)
     \/ s.pod \in Refreshed(r.pod) /\ phase[s.pod] # "pending" /\ s.status = status[s.pod]

\* It starts over, computes the next container's set, or is done with a container
\* or with the infra container.
StartedOver(r, s) == Working(r) /\ s.pc = "determine" /\ s.cont = 1 /\ SameCopy(s, r)

Computed(r, s) ==
  /\ r.pc = "determine" /\ s.pc = "apply" /\ SameCopy(s, r) /\ s.cont = r.cont
  /\ s.set \in CorrectSets(r.pod, r.cont)

DidContainer(r, s) ==
  /\ r.pc = "apply" /\ SameCopy(s, r)
  /\ IF r.cont + 1 \in Containers(r.pod)
     THEN s.pc = "determine" /\ s.cont = r.cont + 1
     ELSE s.pc = "infra"

DidInfra(r, s) == r.pc = "infra" /\ s.pc = "annotate" /\ SameCopy(s, r)

LEMMA IdleFields ==
  Idle.pc = "idle" /\ Idle.bound = FALSE /\ ~Working(Idle)
  BY DEF Idle, Working

LEMMA RetryMove ==
  ASSUME NEW r \in JobRecords, Working(r)
  PROVE  Retry(r) = Idle \/ StartedOver(r, Retry(r))
  BY DEF Retry, StartedOver, SameCopy, JobRecords

LEMMA NextContainerMove ==
  ASSUME NEW r \in JobRecords, NEW path, r.pc = "apply"
  PROVE  DidContainer(r, NextContainer(r, path))
  BY DEF NextContainer, DidContainer, SameCopy, JobRecords

LEMMA AcceptedMove ==
  ASSUME NEW r \in JobRecords, r.pc = "refresh", r.cont = 1
  PROVE  Accepted(r) = Idle \/ Began(r, Accepted(r))
  BY DEF Accepted, Began, SameCopy, JobRecords

LEMMA RefreshMove ==
  ASSUME NEW w \in Workers, TypeOK, WorkerRefresh(w)
  PROVE  LET r == worker[w]
             s == worker'[w]
         IN  s = Idle \/ Waited(r, s) \/ Began(r, s)
<1> DEFINE r == worker[w]
           s == worker'[w]
<1>1. r \in JobRecords /\ r.pc = "refresh" /\ r.cont = 1
  BY BusyType DEF WorkerRefresh, Jobs
<1>2. \A t : Goto(w, t) => s = t
  BY DEF TypeOK, Goto
<1>3. ASSUME NEW q \in Refreshed(r.pod), IsPodReadyForProcessing(q),
             s = Accepted([r EXCEPT !.pod = q, !.bound = TRUE, !.status = status[q]])
      PROVE  s = Idle \/ Began(r, s)
  <2> DEFINE c == [r EXCEPT !.pod = q, !.bound = TRUE, !.status = status[q]]
  <2>1. c.pod = q /\ c.bound = TRUE /\ c.status = status[q] /\ c.cont = 1
    BY <1>1 DEF JobRecords
  <2>2. CASE \A i \in Containers(c.pod) : c.status[i] # 0
    <3>1. s = Idle \/ s = [c EXCEPT !.pc = "determine", !.try = 0]
      BY <1>3 DEF Accepted
    <3>2. CASE s = [c EXCEPT !.pc = "determine", !.try = 0]
      <4>1. s.pc = "determine" /\ s.cont = 1 /\ s.bound /\ s.pod = q /\ s.status = status[q]
        BY <1>1, <3>2 DEF JobRecords
      <4>2. QED
        BY <1>1, <1>3, <2>1, <2>2, <4>1 DEF Began, IsPodReadyForProcessing
    <3>3. QED
      BY <3>1, <3>2
  <2>3. CASE ~ \A i \in Containers(c.pod) : c.status[i] # 0
    BY <1>3, <2>3 DEF Accepted
  <2>4. QED
    BY <2>2, <2>3
<1>4. Waited(r, [r EXCEPT !.try = @ + 1])
  BY <1>1 DEF Waited, SameCopy, JobRecords
<1>5. Accepted(r) = Idle \/ Began(r, Accepted(r))
  BY <1>1, AcceptedMove
<1>6. CASE Goto(w, Idle)
  BY <1>2, <1>6
<1>7. CASE \E q \in Refreshed(r.pod) :
             IF IsPodReadyForProcessing(q)
             THEN Goto(w, Accepted([r EXCEPT !.pod = q, !.bound = TRUE, !.status = status[q]]))
             ELSE Goto(w, IF r.try + 1 < MaxRetryCount
                          THEN [r EXCEPT !.try = @ + 1]
                          ELSE Accepted(r))
  <2>1. PICK q \in Refreshed(r.pod) :
             IF IsPodReadyForProcessing(q)
             THEN Goto(w, Accepted([r EXCEPT !.pod = q, !.bound = TRUE, !.status = status[q]]))
             ELSE Goto(w, IF r.try + 1 < MaxRetryCount
                          THEN [r EXCEPT !.try = @ + 1]
                          ELSE Accepted(r))
    BY <1>7
  <2>2. CASE IsPodReadyForProcessing(q)
    BY <1>2, <1>3, <2>1, <2>2
  <2>3. CASE ~IsPodReadyForProcessing(q)
    BY <1>2, <1>4, <1>5, <2>1, <2>3
  <2>4. QED
    BY <2>2, <2>3
<1>8. QED
  BY <1>6, <1>7 DEF WorkerRefresh

LEMMA GetMove ==
  ASSUME NEW w \in Workers, TypeOK, WorkerGet(w)
  PROVE  /\ worker'[w] = Idle \/ Took(worker'[w])
         /\ queue # <<>> /\ queue' = Tail(queue)
         /\ UNCHANGED <<cpus, annotated>>
<1>1. \A t : Goto(w, t) => worker'[w] = t
  BY DEF TypeOK, Goto
<1>2. QED
  BY <1>1 DEF WorkerGet, Took, OutsideFrame, apiVars, nodeVars

LEMMA DetermineMove ==
  ASSUME NEW w \in Workers, TypeOK, WorkerDetermine(w)
  PROVE  LET r == worker[w]
             s == worker'[w]
         IN  /\ s = Idle \/ StartedOver(r, s) \/ Computed(r, s)
             /\ UNCHANGED <<queue, cpus, annotated>>
<1> DEFINE r == worker[w]
           s == worker'[w]
<1>1. r \in JobRecords /\ r.pc = "determine" /\ Working(r)
  BY BusyType DEF WorkerDetermine, Working
<1>2. \A t : Goto(w, t) => s = t
  BY DEF TypeOK, Goto
<1>3. ASSUME NEW x \in CorrectSets(r.pod, r.cont), s = [r EXCEPT !.pc = "apply", !.set = x]
      PROVE  Computed(r, s)
  BY <1>1, <1>3 DEF Computed, SameCopy, JobRecords
<1>4. Retry(r) = Idle \/ StartedOver(r, Retry(r))
  BY <1>1, RetryMove
<1>5. s = Idle \/ StartedOver(r, s) \/ Computed(r, s)
  BY <1>2, <1>3, <1>4 DEF WorkerDetermine
<1>6. QED
  BY <1>5 DEF WorkerDetermine, OutsideFrame, apiVars, nodeVars

LEMMA ApplyMove ==
  ASSUME NEW w \in Workers, TypeOK, WorkerApply(w)
  PROVE  LET r == worker[w]
             s == worker'[w]
             d == CopyDir(r, r.cont)
         IN  /\ \/ UNCHANGED cpus /\ (s = Idle \/ StartedOver(r, s))
                \/ UNCHANGED cpus /\ r.set = {} /\ DidContainer(r, s)
                \/ d \in dirs /\ cpus' = [cpus EXCEPT ![d] = r.set] /\ DidContainer(r, s)
             /\ UNCHANGED <<queue, annotated>>
<1> DEFINE r == worker[w]
           s == worker'[w]
           d == CopyDir(r, r.cont)
<1>1. r \in JobRecords /\ r.pc = "apply" /\ Working(r)
  BY BusyType DEF WorkerApply, Working
<1>2. \A t : Goto(w, t) => s = t
  BY DEF TypeOK, Goto
<1>3. \A path : DidContainer(r, NextContainer(r, path))
  BY <1>1, NextContainerMove
<1>4. Retry(r) = Idle \/ StartedOver(r, Retry(r))
  BY <1>1, RetryMove
<1>5. \/ UNCHANGED cpus /\ (s = Idle \/ StartedOver(r, s))
      \/ UNCHANGED cpus /\ r.set = {} /\ DidContainer(r, s)
      \/ d \in dirs /\ cpus' = [cpus EXCEPT ![d] = r.set] /\ DidContainer(r, s)
  BY <1>2, <1>3, <1>4 DEF WorkerApply, CopyDir
<1>6. QED
  BY <1>5 DEF WorkerApply, apiVars

LEMMA InfraMove ==
  ASSUME NEW w \in Workers, TypeOK, WorkerInfra(w)
  PROVE  LET r == worker[w]
             s == worker'[w]
         IN  /\ \/ UNCHANGED cpus /\ (s = Idle \/ StartedOver(r, s))
                \/ /\ \E d \in InfraCandidates(r) : cpus' = [cpus EXCEPT ![d] = DefaultCpus]
                   /\ DidInfra(r, s)
             /\ UNCHANGED <<queue, annotated>>
<1> DEFINE r == worker[w]
           s == worker'[w]
<1>1. r \in JobRecords /\ r.pc = "infra" /\ Working(r)
  BY BusyType DEF WorkerInfra, Working
<1>2. \A t : Goto(w, t) => s = t
  BY DEF TypeOK, Goto
<1>3. DidInfra(r, [r EXCEPT !.pc = "annotate"])
  BY <1>1 DEF DidInfra, SameCopy, JobRecords
<1>4. Retry(r) = Idle \/ StartedOver(r, Retry(r))
  BY <1>1, RetryMove
<1>5. \/ UNCHANGED cpus /\ (s = Idle \/ StartedOver(r, s))
      \/ /\ \E d \in InfraCandidates(r) : cpus' = [cpus EXCEPT ![d] = DefaultCpus]
         /\ DidInfra(r, s)
  BY <1>2, <1>3, <1>4, DefaultSet, DefaultPoolAssumption DEF WorkerInfra
<1>6. QED
  BY <1>5 DEF WorkerInfra, apiVars

LEMMA AnnotateMove ==
  ASSUME NEW w \in Workers, TypeOK, WorkerAnnotate(w)
  PROVE  LET r == worker[w]
             s == worker'[w]
         IN  /\ s = Idle \/ StartedOver(r, s)
             /\ \/ UNCHANGED annotated
                \/ r.pc = "annotate" /\ \E q \in Refreshed(r.pod) : annotated' = annotated \cup {q}
             /\ UNCHANGED <<queue, cpus>>
<1> DEFINE r == worker[w]
           s == worker'[w]
<1>1. r \in JobRecords /\ r.pc = "annotate" /\ Working(r)
  BY BusyType DEF WorkerAnnotate, Working
<1>2. \A t : Goto(w, t) => s = t
  BY DEF TypeOK, Goto
<1>3. Retry(r) = Idle \/ StartedOver(r, Retry(r))
  BY <1>1, RetryMove
<1>4. s = Idle \/ StartedOver(r, s)
  BY <1>2, <1>3 DEF WorkerAnnotate
<1>5. QED
  BY <1>1, <1>4 DEF WorkerAnnotate, nodeVars

\* All of it together.
Moved(r, s) ==
  \/ s = Idle \/ Waited(r, s) \/ Began(r, s) \/ StartedOver(r, s)
  \/ Computed(r, s) \/ DidContainer(r, s) \/ DidInfra(r, s)

LEMMA WorkerMoves ==
  ASSUME NEW w \in Workers, TypeOK, WorkerStep(w)
  PROVE  LET r == worker[w]
             s == worker'[w]
         IN  /\ \A v \in Workers : v # w => worker'[v] = worker[v]
             /\ \/ queue' = queue /\ Moved(r, s)
                \/ /\ queue # <<>> /\ queue' = Tail(queue)
                   /\ s = Idle \/ Took(s)
                   /\ UNCHANGED <<cpus, annotated>>
<1>1. \A v \in Workers : v # w => worker'[v] = worker[v]
  BY DEF TypeOK, WorkerStep, WorkerGet, WorkerRefresh, WorkerDetermine, WorkerApply,
         WorkerInfra, WorkerAnnotate, Goto
<1>2. CASE WorkerGet(w)
  BY <1>1, <1>2, GetMove
<1>3. CASE WorkerRefresh(w)
  BY <1>1, <1>3, RefreshMove, RefreshType DEF Moved
<1>4. CASE WorkerDetermine(w)
  BY <1>1, <1>4, DetermineMove DEF Moved
<1>5. CASE WorkerApply(w)
  BY <1>1, <1>5, ApplyMove DEF Moved
<1>6. CASE WorkerInfra(w)
  BY <1>1, <1>6, InfraMove DEF Moved
<1>7. CASE WorkerAnnotate(w)
  BY <1>1, <1>7, AnnotateMove DEF Moved
<1>8. QED
  BY <1>2, <1>3, <1>4, <1>5, <1>6, <1>7 DEF WorkerStep

\* The cpuset files are written in two places.
LEMMA WorkerWritesWhat ==
  ASSUME NEW w \in Workers, TypeOK, WorkerStep(w)
  PROVE  LET r == worker[w]
             d == CopyDir(r, r.cont)
         IN  \/ UNCHANGED cpus
             \/ r.pc = "apply" /\ d \in dirs /\ cpus' = [cpus EXCEPT ![d] = r.set]
             \/ r.pc = "infra" /\ \E x \in InfraCandidates(r) : cpus' = [cpus EXCEPT ![x] = DefaultCpus]
<1>1. CASE WorkerApply(w)
  BY <1>1, ApplyMove DEF WorkerApply
<1>2. CASE WorkerInfra(w)
  BY <1>2, InfraMove DEF WorkerInfra
<1>3. QED
  BY <1>1, <1>2, GetMove, RefreshType, DetermineMove, AnnotateMove DEF WorkerStep

-----------------------------------------------------------------------------
(* Every step keeps EntitlementInv.                                         *)

LEMMA ClusterKeepsEntitlement ==
  ASSUME IsolationInv, EntitlementInv, ClusterStep
  PROVE  EntitlementInv'
<1> USE DEF IsolationInv
<1>0. UNCHANGED <<queue, worker, rec>>
  BY DEF ClusterStep, CreatePod, BindPod, StartContainer, ExitContainer, ReportStatus, EndPod, procVars
<1>1. EntriesRequested'
  <2>1. CASE \E p \in Pods : BindPod(p)
    <3>1. PICK p \in Pods : BindPod(p)
      BY <2>1
    <3>2. \A e \in LiveEntries : e.pool \in Requested(e.pod, e.cont)
      BY DEF EntitlementInv, EntriesRequested, LiveEntries
    <3>3. \A c \in Claims(p) : c[2] \in Requested(p, c[1])
      BY DEF Claims
    <3>4. ASSUME NEW alloc
          PROVE  \A e \in Entries(p, alloc) : e.pool \in Requested(e.pod, e.cont)
      BY <3>3 DEF Entries
    <3>5. checkpoint' = checkpoint \/ \E alloc : checkpoint' = LiveEntries \cup Entries(p, alloc)
      BY <3>1 DEF BindPod
    <3>6. QED
      BY <3>2, <3>4, <3>5 DEF EntitlementInv, EntriesRequested
  <2>2. CASE ~ \E p \in Pods : BindPod(p)
    <3>1. checkpoint' = checkpoint
      BY <2>2 DEF ClusterStep, CreatePod, StartContainer, ExitContainer, ReportStatus, EndPod, nodeVars
    <3>2. QED
      BY <3>1 DEF EntitlementInv, EntriesRequested
  <2>3. QED
    BY <2>1, <2>2
<1>2. CopiesAdmitted'
  <2>1. \A k \in DOMAIN queue : queue[k].pod \in Pods
    BY DEF TypeOK, Items, ItemRecords
  <2>2. \A w \in Workers : worker[w].bound => worker[w].pod \in Pods
    BY IdleFields DEF TypeOK, Jobs, JobRecords
  <2>3. \A d \in rec.todo : d[1] \in Pods
    BY DirOfPod DEF TypeOK, Scans, ContainerDirs
  <2>4. rec.pc \in {"determine", "write"} => rec.dir[1] \in Pods
    BY DirOfPod DEF TypeOK, Scans, ContainerDirs
  <2>5. \A p \in Pods : Admitted(p) => Admitted(p)'
    BY AdmittedStays
  <2>6. QED
    BY <1>0, <2>1, <2>2, <2>3, <2>4, <2>5 DEF EntitlementInv, CopiesAdmitted
<1>3. PendingEntitled'
  <2>1. ASSUME NEW p \in Pods, NEW i, NEW s, Admitted(p), s = Entitled(p, i) \/ Ended(p)
        PROVE  s = Entitled(p, i)' \/ Ended(p)'
    BY <2>1, AdmittedStays, EndedStays
  <2>2. ASSUME NEW w \in Workers, worker[w].pc = "apply"
        PROVE  worker[w].pod \in Pods /\ Admitted(worker[w].pod)
    BY <2>2, BusyType DEF JobRecords, EntitlementInv, CopiesAdmitted, Working
  <2>3. rec.pc = "write" => rec.dir[1] \in Pods /\ Admitted(rec.dir[1])
    BY DirOfPod DEF TypeOK, Scans, ContainerDirs, EntitlementInv, CopiesAdmitted
  <2>4. QED
    BY <1>0, <2>1, <2>2, <2>3 DEF EntitlementInv, PendingEntitled
<1>4. WithinEntitlement'
  <2> SUFFICES ASSUME NEW d \in dirs', cpus'[d] # Inherited, cpus'[d] # DefaultCpus
               PROVE  Pinned(d)'
    <3>1. DefaultCpus' = DefaultCpus
      BY DEF DefaultCpus, PoolCpus
    <3>2. QED
      BY <3>1 DEF WithinEntitlement
  <2>1. phase'[d[1]] = "bound" /\ d \in dirs /\ cpus'[d] = cpus[d]
    BY ClusterDirs
  <2>2. d[1] \in Pods
    BY <2>1, DirOfPod DEF TypeOK
  <2>3. Pinned(d)
    BY <2>1 DEF EntitlementInv, WithinEntitlement
  <2>4. Admitted(d[1]) /\ ~Ended(d[1])'
    BY <2>1 DEF DirsLive, Admitted, Ended
  <2>5. Entitled(d[1], d[2])' = Entitled(d[1], d[2])
    BY <2>2, <2>4, AdmittedStays
  <2>6. QED
    BY <2>1, <2>3, <2>5 DEF Pinned
<1>5. QED
  BY <1>1, <1>2, <1>3, <1>4 DEF EntitlementInv

\* The controller changes neither Pods nor allocations nor directories.
LEMMA NothingElseMoves ==
  ASSUME UNCHANGED <<phase, checkpoint>>
  PROVE  /\ \A p, i : Entitled(p, i)' = Entitled(p, i)
         /\ \A p : Admitted(p)' = Admitted(p) /\ Ended(p)' = Ended(p)
         /\ DefaultCpus' = DefaultCpus
<1>1. \A p, i : Entitled(p, i)' = Entitled(p, i)
  BY EntitledOf
<1>2. QED
  BY <1>1 DEF Admitted, Ended, DefaultCpus, PoolCpus

LEMMA ControllerKeepsEntitlement ==
  ASSUME EntitlementInv, UNCHANGED <<phase, dirs, checkpoint>>, CopiesAdmitted', PendingEntitled',
         \A d \in dirs : cpus'[d] # cpus[d] =>
           cpus'[d] = DefaultCpus \/ (d[2] # 0 /\ cpus'[d] = Entitled(d[1], d[2]))
  PROVE  EntitlementInv'
<1>1. EntriesRequested'
  BY DEF EntitlementInv, EntriesRequested
<1>2. WithinEntitlement'
  BY NothingElseMoves DEF EntitlementInv, WithinEntitlement, Pinned
<1>3. QED
  BY <1>1, <1>2 DEF EntitlementInv

\* A worker that applies to a directory that exists has the container's set.
LEMMA ApplySets ==
  ASSUME IsolationInv, EntitlementInv, NEW w \in Workers, worker[w].pc = "apply",
         CopyDir(worker[w], worker[w].cont) \in dirs
  PROVE  /\ worker[w].set = Entitled(worker[w].pod, worker[w].cont)
         /\ worker[w].cont # 0
<1> DEFINE r == worker[w]
<1>1. phase[r.pod] = "bound"
  BY DEF IsolationInv, DirsLive, CopyDir
<1>2. r.set = Entitled(r.pod, r.cont)
  BY <1>1 DEF EntitlementInv, PendingEntitled, Ended
<1>3. r.pod \in Pods /\ r.cont \in Containers(r.pod)
  BY BusyType DEF IsolationInv, Jobs, JobRecords
<1>4. QED
  BY <1>2, <1>3, ContainerType

\* What a worker sets a directory to.
LEMMA WorkerSets ==
  ASSUME IsolationInv, EntitlementInv, NEW w \in Workers, WorkerStep(w), NEW d \in dirs, cpus'[d] # cpus[d]
  PROVE  cpus'[d] = DefaultCpus \/ (d[2] # 0 /\ cpus'[d] = Entitled(d[1], d[2]))
<1> DEFINE r == worker[w]
           x == CopyDir(r, r.cont)
<1> USE DEF IsolationInv
<1>1. d \in DOMAIN cpus
  BY DEF TypeOK
<1>2. CASE r.pc = "apply" /\ x \in dirs /\ cpus' = [cpus EXCEPT ![x] = r.set]
  <2>1. d = x /\ cpus'[d] = r.set
    BY <1>1, <1>2
  <2>2. x[1] = r.pod /\ x[2] = r.cont
    BY DEF CopyDir
  <2>3. QED
    BY <1>2, <2>1, <2>2, ApplySets
<1>3. CASE \E y \in InfraCandidates(r) : cpus' = [cpus EXCEPT ![y] = DefaultCpus]
  BY <1>1, <1>3
<1>4. QED
  BY <1>2, <1>3, WorkerWritesWhat

LEMMA WorkerKeepsEntitlement ==
  ASSUME IsolationInv, EntitlementInv, NEW w \in Workers, WorkerStep(w)
  PROVE  EntitlementInv'
<1> USE DEF IsolationInv
<1> DEFINE r == worker[w]
           s == worker'[w]
<1>1. UNCHANGED <<phase, dirs, checkpoint, rec>>
  BY WorkerFrameType
<1>2. /\ \A v \in Workers : v # w => worker'[v] = worker[v]
      /\ \/ queue' = queue /\ Moved(r, s)
         \/ queue # <<>> /\ queue' = Tail(queue) /\ (s = Idle \/ Took(s))
  BY WorkerMoves
<1>3. \A p : Admitted(p)' = Admitted(p) /\ Ended(p)' = Ended(p)
  BY <1>1, NothingElseMoves
<1>4. CopiesAdmitted
  BY DEF EntitlementInv
<1>5. CopiesAdmitted'
  <2>1. \A k \in DOMAIN queue' : queue'[k].bound => Admitted(queue'[k].pod)
    <3>1. CASE queue' = queue
      BY <1>4, <3>1 DEF CopiesAdmitted
    <3>2. CASE queue # <<>> /\ queue' = Tail(queue)
      <4>1. \A k \in DOMAIN queue' : k + 1 \in DOMAIN queue /\ queue'[k] = queue[k + 1]
        BY <3>2 DEF TypeOK
      <4>2. QED
        BY <1>4, <4>1 DEF CopiesAdmitted
    <3>3. QED
      BY <1>2, <3>1, <3>2
  <2>2. (s.bound => Admitted(s.pod)) /\ (Working(s) => s.bound)
    <3>1. (r.bound => Admitted(r.pod)) /\ (Working(r) => r.bound)
      BY <1>4 DEF CopiesAdmitted
    <3>2. CASE s = Idle
      BY <3>2, IdleFields
    <3>3. CASE Took(s) /\ queue # <<>>
      <4>1. 1 \in DOMAIN queue /\ Head(queue) = queue[1]
        BY <3>3 DEF TypeOK
      <4>2. QED
        BY <1>4, <3>3, <4>1 DEF CopiesAdmitted, Took, Working
    <3>4. CASE Waited(r, s)
      BY <3>1, <3>4 DEF Waited, SameCopy, Working
    <3>5. CASE Began(r, s)
      BY <3>1, <3>5 DEF Began, SameCopy, Working, Refreshed, InAPI, Admitted, Ended
    <3>6. CASE StartedOver(r, s) \/ Computed(r, s) \/ DidContainer(r, s) \/ DidInfra(r, s)
      BY <3>1, <3>6 DEF StartedOver, Computed, DidContainer, DidInfra, SameCopy, Working
    <3>7. QED
      BY <1>2, <3>2, <3>3, <3>4, <3>5, <3>6 DEF Moved
  <2>3. QED
    BY <1>1, <1>2, <1>3, <1>4, <2>1, <2>2 DEF CopiesAdmitted
<1>6. PendingEntitled'
  <2>1. s.pc = "apply" => s.set = Entitled(s.pod, s.cont)
    <3> SUFFICES ASSUME s.pc = "apply"
                 PROVE  s.set = Entitled(s.pod, s.cont)
      OBVIOUS
    <3>1. Computed(r, s)
      BY <1>2, IdleFields DEF Moved, Took, Waited, Began, StartedOver, DidContainer, DidInfra
    <3>2. r.pod \in Pods /\ r.cont \in Containers(r.pod)
      BY <3>1, BusyType DEF Computed, Jobs, JobRecords
    <3>3. QED
      BY <3>1, <3>2, CorrectIsEntitled DEF Computed, SameCopy, EntitlementInv
  <2>2. QED
    BY <1>1, <1>2, <2>1, NothingElseMoves DEF EntitlementInv, PendingEntitled
<1>7. QED
  BY <1>1, <1>5, <1>6, WorkerSets, ControllerKeepsEntitlement

\* What the reconciler does with its list of containers.
LEMMA RecMoves ==
  ASSUME IsolationInv, EntitlementInv, RecStep
  PROVE  /\ UNCHANGED <<phase, dirs, checkpoint, worker, queue, known, annotated, status, inc>>
         /\ CopiesAdmitted'
         /\ rec'.pc = "write" => rec'.set = Entitled(rec'.dir[1], rec'.dir[2])
<1> USE DEF IsolationInv
<1>1. UNCHANGED <<phase, dirs, checkpoint, worker, queue, known, annotated, status, inc>>
  BY DEF RecStep, RecList, RecLeaves, RecRead, RecDetermine, RecWrite, RecFrame, apiVars
<1>2. rec \in Scans
  BY DEF TypeOK
<1>3. /\ \A d \in rec.todo : Admitted(d[1])
      /\ rec.pc \in {"determine", "write"} => Admitted(rec.dir[1])
  BY DEF EntitlementInv, CopiesAdmitted
<1>4. /\ Resting.pc = "idle" /\ Resting.todo = {}
      /\ \A ds : LET t == [Resting EXCEPT !.pc = "read", !.todo = ds] IN t.pc = "read" /\ t.todo = ds
  BY DEF Resting
<1> DEFINE Fine ==
             /\ \A d \in rec'.todo : Admitted(d[1])
             /\ rec'.pc \in {"determine", "write"} => Admitted(rec'.dir[1])
             /\ rec'.pc = "write" => rec'.set = Entitled(rec'.dir[1], rec'.dir[2])
<1> SUFFICES Fine
  BY <1>1, NothingElseMoves DEF EntitlementInv, CopiesAdmitted
<1>5. CASE RecList
  <2>1. rec'.pc = "leaves" /\ rec'.todo = ListedContainers
    BY <1>2, <1>5 DEF RecList, Scans
  <2>2. \A d \in ListedContainers : Admitted(d[1])
    BY DEF ListedContainers, Admitted, Ended
  <2>3. QED
    BY <2>1, <2>2
<1>6. CASE RecLeaves
  <2>1. (rec'.pc = "read" /\ rec'.todo \subseteq rec.todo) \/ rec' = Resting
    BY <1>2, <1>6 DEF RecLeaves, Scans
  <2>2. QED
    BY <1>3, <1>4, <2>1
<1>7. CASE RecRead
  <2>1. CASE rec' = Resting
    BY <1>4, <2>1
  <2>2. CASE rec' # Resting
    <3>1. PICK d \in rec.todo :
            rec' = IF cpus[d] = BadCpuset
                   THEN [rec EXCEPT !.pc = "determine", !.todo = @ \ {d}, !.dir = d]
                   ELSE [rec EXCEPT !.todo = @ \ {d}]
      BY <1>7, <2>2 DEF RecRead
    <3>2. /\ rec'.todo \subseteq rec.todo
          /\ (rec'.pc = "determine" /\ rec'.dir = d) \/ rec'.pc = "read"
      BY <1>2, <1>7, <3>1 DEF RecRead, Scans
    <3>3. QED
      BY <1>3, <3>2
  <2>3. QED
    BY <2>1, <2>2
<1>8. CASE RecDetermine
  <2>1. rec.dir \in ContainerDirs /\ rec.pc = "determine"
    BY <1>2, <1>8 DEF RecDetermine, Scans
  <2>2. rec.dir[1] \in Pods /\ rec.dir[2] \in Containers(rec.dir[1])
    BY <2>1, NameOfDir DEF ContainerDirs
  <2>3. CASE \E s \in CorrectSets(rec.dir[1], rec.dir[2]) : rec' = [rec EXCEPT !.pc = "write", !.set = s]
    <3>1. PICK s \in CorrectSets(rec.dir[1], rec.dir[2]) : rec' = [rec EXCEPT !.pc = "write", !.set = s]
      BY <2>3
    <3>2. rec'.pc = "write" /\ rec'.set = s /\ rec'.dir = rec.dir /\ rec'.todo = rec.todo
      BY <1>2, <3>1 DEF Scans
    <3>3. s = Entitled(rec.dir[1], rec.dir[2])
      BY <2>2, CorrectIsEntitled DEF EntitlementInv
    <3>4. QED
      BY <1>3, <2>1, <3>2, <3>3
  <2>4. CASE rec' = [Resting EXCEPT !.pc = "read", !.todo = rec.todo]
    BY <1>3, <1>4, <2>4
  <2>5. QED
    BY <1>8, <2>3, <2>4 DEF RecDetermine
<1>9. CASE RecWrite
  BY <1>3, <1>4, <1>9 DEF RecWrite
<1>10. QED
  BY <1>5, <1>6, <1>7, <1>8, <1>9 DEF RecStep

\* The cpuset files are written in one more place.
LEMMA RecWritesWhat ==
  ASSUME IsolationInv, EntitlementInv, RecStep, NEW d \in dirs, cpus'[d] # cpus[d]
  PROVE  d[2] # 0 /\ cpus'[d] = Entitled(d[1], d[2])
<1> USE DEF IsolationInv
<1>1. RecWrite /\ rec.pc = "write"
  BY DEF RecStep, RecList, RecLeaves, RecRead, RecDetermine, RecWrite
<1>2. rec.dir \in dirs /\ cpus' = [cpus EXCEPT ![rec.dir] = rec.set]
  BY <1>1 DEF RecWrite
<1>3. d = rec.dir /\ cpus'[d] = rec.set
  BY <1>2 DEF TypeOK
<1>4. phase[d[1]] = "bound"
  BY DEF DirsLive
<1>5. rec.set = Entitled(d[1], d[2])
  BY <1>1, <1>3, <1>4 DEF EntitlementInv, PendingEntitled, Ended
<1>6. d[2] # 0
  BY <1>1, <1>3 DEF TypeOK, Scans, ContainerDirs
<1>7. QED
  BY <1>3, <1>5, <1>6

LEMMA RecKeepsEntitlement ==
  ASSUME IsolationInv, EntitlementInv, RecStep
  PROVE  EntitlementInv'
<1>1. UNCHANGED <<phase, dirs, checkpoint, worker>>
  BY RecMoves
<1>2. PendingEntitled'
  BY <1>1, RecMoves, NothingElseMoves DEF EntitlementInv, PendingEntitled
<1>3. QED
  BY <1>1, <1>2, RecMoves, RecWritesWhat, ControllerKeepsEntitlement

LEMMA OthersKeepEntitlement ==
  ASSUME IsolationInv, EntitlementInv, (\E p \in Pods : PodAdded(p)) \/ Crash \/ Run
  PROVE  EntitlementInv'
<1> USE DEF IsolationInv
<1>1. UNCHANGED <<phase, dirs, checkpoint, cpus>>
  BY DEF PodAdded, Crash, Run, apiVars, nodeVars
<1>2. \A p : Admitted(p)' = Admitted(p)
  BY <1>1, NothingElseMoves
<1>3. CASE \E p \in Pods : PodAdded(p)
  <2>1. PICK p \in Pods : PodAdded(p)
    BY <1>3
  <2>2. UNCHANGED <<worker, rec>>
    BY <2>1 DEF PodAdded
  <2>3. \A k \in DOMAIN queue' : queue'[k] = Item(p) \/ (k \in DOMAIN queue /\ queue'[k] = queue[k])
    BY <2>1 DEF PodAdded, TypeOK
  <2>4. Item(p).bound => Admitted(Item(p).pod)
    BY <2>1 DEF PodAdded, Item, InAPI, Admitted, Ended
  <2>5. CopiesAdmitted'
    BY <1>2, <2>2, <2>3, <2>4 DEF EntitlementInv, CopiesAdmitted
  <2>6. PendingEntitled'
    BY <1>1, <2>2, NothingElseMoves DEF EntitlementInv, PendingEntitled
  <2>7. QED
    BY <1>1, <2>5, <2>6, ControllerKeepsEntitlement
<1>4. CASE Crash
  <2>1. queue' = <<>> /\ worker' = [w \in Workers |-> Idle] /\ rec' = Resting
    BY <1>4 DEF Crash
  <2>2. Resting.pc = "idle" /\ Resting.todo = {}
    BY DEF Resting
  <2>3. CopiesAdmitted' /\ PendingEntitled'
    BY <2>1, <2>2, IdleFields DEF CopiesAdmitted, PendingEntitled
  <2>4. QED
    BY <1>1, <2>3, ControllerKeepsEntitlement
<1>5. CASE Run
  <2>1. UNCHANGED <<queue, worker, rec>>
    BY <1>5 DEF Run
  <2>2. CopiesAdmitted' /\ PendingEntitled'
    BY <1>1, <1>2, <2>1, NothingElseMoves DEF EntitlementInv, CopiesAdmitted, PendingEntitled
  <2>3. QED
    BY <1>1, <2>2, ControllerKeepsEntitlement
<1>6. QED
  BY <1>3, <1>4, <1>5

\* EntitlementInv is inductive relative to IsolationInv.
LEMMA EntitlementKept ==
  ASSUME IsolationInv, EntitlementInv, [Next]_vars
  PROVE  EntitlementInv'
<1>1. CASE UNCHANGED vars
  <2>1. UNCHANGED <<phase, dirs, cpus, checkpoint, queue, worker, rec>>
    BY <1>1 DEF vars, apiVars, nodeVars, procVars
  <2>2. CopiesAdmitted' /\ PendingEntitled'
    BY <2>1, NothingElseMoves DEF EntitlementInv, CopiesAdmitted, PendingEntitled
  <2>3. QED
    BY <2>1, <2>2, ControllerKeepsEntitlement
<1>2. QED
  BY <1>1, ClusterKeepsEntitlement, WorkerKeepsEntitlement, RecKeepsEntitlement,
     OthersKeepEntitlement DEF Next, ControllerStep

LEMMA EntitlementAtFirst == Init => EntitlementInv
<1> SUFFICES ASSUME Init
             PROVE  EntitlementInv
  OBVIOUS
<1>1. /\ dirs = {} /\ checkpoint = {} /\ queue = <<>> /\ rec = Resting
      /\ worker = [w \in Workers |-> Idle]
  BY DEF Init
<1>2. Resting.pc = "idle" /\ Resting.todo = {}
  BY DEF Resting
<1>3. QED
  BY <1>1, <1>2, IdleFields
     DEF EntitlementInv, EntriesRequested, CopiesAdmitted, PendingEntitled, WithinEntitlement

\* What a worker or the reconciler has computed stays right until it is written:
\* no allocation that it can have read changes while its container's Pod is live.
THEOREM EntitlementInvariant == Spec => []EntitlementInv
<1>1. IsolationInv /\ EntitlementInv /\ [Next]_vars => EntitlementInv'
  BY EntitlementKept
<1>2. QED
  BY <1>1, EntitlementAtFirst, IsolationInvariant, PTL DEF Spec

\* For any number of Pods, containers and workers, whatever fails, crashes or
\* restarts, and however names are reused: what the controller writes to a
\* directory is the set its container is entitled to, or the default pool.
THEOREM Entitlement == Spec => []WithinEntitlement
<1>1. EntitlementInv => WithinEntitlement
  BY DEF EntitlementInv
<1>2. QED
  BY <1>1, EntitlementInvariant, PTL

-----------------------------------------------------------------------------
(* Which directories are new, and what a container's past is.               *)

Started(d) ==
  /\ d[2] \in Containers(d[1]) /\ inc[d[1]][d[2]] <= MaxRestarts
  /\ d[3] = inc[d[1]][d[2]] + 1
  /\ <<d[1], d[2], inc[d[1]][d[2]]>> \notin dirs

\* A step of the cluster that leaves Pods' containers alone, or starts one.
LEMMA ClusterStarts ==
  ASSUME IsolationInv, ClusterStep
  PROVE  \/ inc' = inc
         \/ \E p \in Pods : \E i \in Containers(p) :
              /\ phase[p] = "bound" /\ inc[p][i] <= MaxRestarts
              /\ <<p, i, inc[p][i]>> \notin dirs
              /\ inc' = [inc EXCEPT ![p][i] = @ + 1]
              /\ dirs' \subseteq dirs \cup {<<p, i, inc[p][i] + 1>>}
              /\ \A d \in Dirs : d # <<p, i, inc[p][i] + 1>> => cpus'[d] = cpus[d]
<1>1. CASE \E p \in Pods : \E i \in Containers(p) : StartContainer(p, i)
  <2>1. PICK p \in Pods : \E i \in Containers(p) : StartContainer(p, i)
    BY <1>1
  <2>2. PICK i \in Containers(p) : StartContainer(p, i)
    BY <2>1
  <2>3. DOMAIN cpus = Dirs
    BY DEF IsolationInv, TypeOK
  <2>4. QED
    BY <2>2, <2>3 DEF StartContainer
<1>2. CASE ~ \E p \in Pods : \E i \in Containers(p) : StartContainer(p, i)
  BY <1>2 DEF ClusterStep, CreatePod, BindPod, ExitContainer, ReportStatus, EndPod, nodeVars
<1>3. QED
  BY <1>1, <1>2

\* A directory is one of before, unchanged, that of the sandbox of a Pod that was
\* not bound, or that of a container's next incarnation.
LEMMA ClusterCreates ==
  ASSUME IsolationInv, ClusterStep, NEW d \in dirs'
  PROVE  \/ d \in dirs /\ cpus'[d] = cpus[d]
         \/ d = Infra(d[1]) /\ phase[d[1]] = "pending" /\ cpus'[d] = Inherited
         \/ Started(d) /\ inc'[d[1]][d[2]] = d[3] /\ cpus'[d] = Inherited
<1> USE DEF IsolationInv
<1>1. DOMAIN cpus = Dirs /\ dirs \subseteq Dirs
  BY DEF TypeOK
<1>2. PICK p \in Pods :
        \/ CreatePod(p)
        \/ BindPod(p)
        \/ \E i \in Containers(p) : StartContainer(p, i) \/ ExitContainer(p, i)
        \/ ReportStatus(p)
        \/ \E to \in {"finished", "deleted"} : EndPod(p, to)
  BY DEF ClusterStep
<1>3. CASE CreatePod(p) \/ ReportStatus(p)
  BY <1>3 DEF CreatePod, ReportStatus, nodeVars
<1>4. CASE BindPod(p)
  <2>1. Infra(p)[1] = p /\ Infra(p) \in Dirs
    BY DirType DEF Infra
  <2>2. CASE d = Infra(p)
    BY <1>1, <1>4, <2>1, <2>2 DEF BindPod
  <2>3. CASE d # Infra(p)
    BY <1>1, <1>4, <2>3 DEF BindPod
  <2>4. QED
    BY <2>2, <2>3
<1>5. ASSUME NEW i \in Containers(p), StartContainer(p, i)
      PROVE  \/ d \in dirs /\ cpus'[d] = cpus[d]
             \/ Started(d) /\ inc'[d[1]][d[2]] = d[3] /\ cpus'[d] = Inherited
  <2> DEFINE x == <<p, i, inc[p][i] + 1>>
  <2>1. d \in Dirs
    BY ClusterType DEF TypeOK
  <2>2. CASE d = x /\ p \in LocalPods
    <3>1. d[1] = p /\ d[2] = i /\ d[3] = inc[p][i] + 1
      BY <2>2
    <3>2. cpus'[d] = Inherited
      BY <1>1, <1>5, <2>1, <2>2 DEF StartContainer
    <3>3. inc'[p][i] = inc[p][i] + 1
      BY <1>5 DEF StartContainer, TypeOK, Statuses
    <3>4. QED
      BY <1>5, <3>1, <3>2, <3>3 DEF StartContainer, Started
  <2>3. CASE ~ (d = x /\ p \in LocalPods)
    BY <1>1, <1>5, <2>3 DEF StartContainer
  <2>4. QED
    BY <2>2, <2>3
<1>6. ASSUME NEW i \in Containers(p), ExitContainer(p, i)
      PROVE  d \in dirs /\ cpus'[d] = cpus[d]
  BY <1>1, <1>6 DEF ExitContainer, RemoveDirs
<1>7. ASSUME NEW to \in {"finished", "deleted"}, EndPod(p, to)
      PROVE  d \in dirs /\ cpus'[d] = cpus[d]
  BY <1>1, <1>7 DEF EndPod, RemoveDirs
<1>8. QED
  BY <1>2, <1>3, <1>4, <1>5, <1>6, <1>7

\* Incarnations only follow one another.
LEMMA IncGrows ==
  ASSUME IsolationInv, ClusterStep, NEW p \in Pods, NEW i \in Containers(p)
  PROVE  /\ inc[p][i] \in Nat /\ inc'[p][i] \in Nat
         /\ inc[p][i] <= inc'[p][i]
         /\ inc'[p][i] # inc[p][i] =>
              inc'[p][i] = inc[p][i] + 1 /\ inc[p][i] <= MaxRestarts /\ <<p, i, inc[p][i]>> \notin dirs
<1>1. inc[p] \in Statuses(p) /\ inc'[p] \in Statuses(p) /\ DOMAIN inc = Pods
  BY ClusterType DEF IsolationInv, TypeOK
<1>2. inc[p][i] \in Nat /\ inc'[p][i] \in Nat /\ DOMAIN inc[p] = Containers(p)
  BY <1>1, ConstantsAssumption DEF Statuses
<1>3. CASE inc' = inc
  BY <1>2, <1>3
<1>4. CASE inc' # inc
  <2>0. PICK q \in Pods : \E j \in Containers(q) :
          /\ inc[q][j] <= MaxRestarts /\ <<q, j, inc[q][j]>> \notin dirs
          /\ inc' = [inc EXCEPT ![q][j] = @ + 1]
    BY <1>4, ClusterStarts
  <2>1. PICK j \in Containers(q) :
          /\ inc[q][j] <= MaxRestarts /\ <<q, j, inc[q][j]>> \notin dirs
          /\ inc' = [inc EXCEPT ![q][j] = @ + 1]
    BY <2>0
  <2>2. inc'[p][i] = IF p = q /\ i = j THEN inc[p][i] + 1 ELSE inc[p][i]
    BY <1>1, <1>2, <2>1
  <2>3. QED
    BY <1>2, <2>1, <2>2
<1>5. QED
  BY <1>3, <1>4

LEMMA ControllerFrame ==
  ASSUME IsolationInv, EntitlementInv, ControllerStep
  PROVE  UNCHANGED <<phase, dirs, checkpoint, status, inc>>
<1>1. ASSUME NEW w \in Workers, WorkerStep(w)
      PROVE  UNCHANGED <<phase, dirs, checkpoint, status, inc>>
  BY <1>1, WorkerFrameType DEF IsolationInv
<1>2. QED
  BY <1>1, RecMoves DEF ControllerStep, PodAdded, Crash, Run, apiVars, nodeVars

\* A container that has a directory is in its last incarnation.
LEMMA LatestKept ==
  ASSUME IsolationInv, EntitlementInv, DirsLatest, Next
  PROVE  DirsLatest'
<1> USE DEF IsolationInv
<1>1. CASE ClusterStep
  <2> SUFFICES ASSUME NEW d \in dirs', d[2] # 0
               PROVE  d[3] = inc'[d[1]][d[2]]
    BY DEF DirsLatest
  <2>1. d \in Dirs
    BY <1>1, ClusterType DEF TypeOK
  <2>2. /\ d[1] \in Pods /\ d[2] \in Containers(d[1])
        /\ d = <<d[1], d[2], d[3]>>
    BY <2>1, NameOfDir
  <2> DEFINE p == d[1]
             i == d[2]
  <2> HIDE DEF p, i
  <2>3. CASE d \in dirs
    <3>1. d = <<p, i, inc[p][i]>>
      BY <2>2, <2>3 DEF DirsLatest, p, i
    <3>2. inc'[p][i] = inc[p][i]
      BY <1>1, <2>2, <2>3, <3>1, IncGrows DEF p, i
    <3>3. QED
      BY <3>1, <3>2 DEF p, i
  <2>4. CASE d \notin dirs
    BY <1>1, <2>4, ClusterCreates DEF Infra
  <2>5. QED
    BY <2>3, <2>4
<1>2. CASE ControllerStep
  BY <1>2, ControllerFrame DEF DirsLatest
<1>3. QED
  BY <1>1, <1>2 DEF Next

\* No copy tells of an incarnation to come, and nobody works on a copy without
\* all container IDs.
LEMMA BehindStays ==
  ASSUME IsolationInv, ClusterStep, NEW p \in Pods, NEW c \in Statuses(p), NEW i \in Containers(p),
         c[i] <= inc[p][i]
  PROVE  c[i] <= inc'[p][i]
<1>1. c[i] \in Nat
  BY ConstantsAssumption DEF Statuses
<1>2. inc[p][i] \in Nat /\ inc'[p][i] \in Nat /\ inc[p][i] <= inc'[p][i]
  BY IncGrows
<1>3. QED
  BY <1>1, <1>2

LEMMA ClusterKeepsCopies ==
  ASSUME IsolationInv, CopiesBehind, ClusterStep
  PROVE  CopiesBehind'
<1> USE DEF IsolationInv
<1>1. UNCHANGED <<queue, worker>>
  BY DEF ClusterStep, CreatePod, BindPod, StartContainer, ExitContainer, ReportStatus, EndPod, procVars
<1>2. ASSUME NEW p \in Pods
      PROVE  \A i \in Containers(p) : status'[p][i] <= inc'[p][i]
  <2>1. status'[p] = status[p] \/ (status'[p] = inc[p] /\ inc' = inc)
    BY DEF ClusterStep, CreatePod, BindPod, StartContainer, ExitContainer, ReportStatus, EndPod, apiVars,
           nodeVars, TypeOK
  <2>2. CASE status'[p] = status[p]
    <3>1. status[p] \in Statuses(p) /\ \A i \in Containers(p) : status[p][i] <= inc[p][i]
      BY DEF TypeOK, CopiesBehind, Behind
    <3>2. QED
      BY <2>2, <3>1, BehindStays
  <2>3. CASE status'[p] = inc[p] /\ inc' = inc
    BY <2>3, IncGrows
  <2>4. QED
    BY <2>1, <2>2, <2>3
<1>3. ASSUME NEW k \in DOMAIN queue
      PROVE  \A i \in Containers(queue[k].pod) : queue[k].status[i] <= inc'[queue[k].pod][i]
  <2>1. queue[k].pod \in Pods /\ queue[k].status \in Statuses(queue[k].pod)
    BY DEF TypeOK, Items, ItemRecords
  <2>2. QED
    BY <1>1, <2>1, BehindStays DEF CopiesBehind, Behind
<1>4. ASSUME NEW w \in Workers, worker[w].pc # "idle"
      PROVE  \A i \in Containers(worker[w].pod) : worker[w].status[i] <= inc'[worker[w].pod][i]
  <2>1. worker[w].pod \in Pods /\ worker[w].status \in Statuses(worker[w].pod)
    BY <1>4, BusyType DEF Jobs, JobRecords
  <2>2. QED
    BY <1>1, <1>4, <2>1, BehindStays DEF CopiesBehind, Behind
<1>5. QED
  BY <1>1, <1>2, <1>3, <1>4 DEF CopiesBehind, Behind

\* A job after a step of its worker: who works after it worked before it on the
\* same copy, or just began.
LEMMA JobAfter ==
  ASSUME IsolationInv, NEW w \in Workers, WorkerStep(w)
  PROVE  LET r == worker[w]
             s == worker'[w]
         IN  /\ UNCHANGED <<phase, status, inc, dirs, checkpoint, known, rec>>
             /\ \A v \in Workers : v # w => worker'[v] = worker[v]
             /\ \/ s = Idle \/ Waited(r, s) \/ Began(r, s)
                \/ Took(s) /\ queue # <<>> /\ queue' = Tail(queue)
                \/ Working(r) /\ Working(s) /\ SameCopy(s, r)
  BY WorkerFrameType, WorkerMoves
     DEF IsolationInv, Moved, StartedOver, Computed, DidContainer, DidInfra, Working

\* An item of the queue is an older one, or that of a Pod just seen.
LEMMA QueueAfter ==
  ASSUME IsolationInv, NEW k \in DOMAIN queue'
  PROVE  /\ \A w \in Workers : WorkerStep(w) =>
              \/ queue' = queue
              \/ k + 1 \in DOMAIN queue /\ queue' = Tail(queue) /\ queue'[k] = queue[k + 1]
         /\ \A p \in Pods : PodAdded(p) =>
              IF k \in DOMAIN queue THEN queue'[k] = queue[k] ELSE queue'[k] = Item(p)
<1> USE DEF IsolationInv
<1>1. ASSUME NEW w \in Workers, WorkerStep(w), queue' # queue
      PROVE  k + 1 \in DOMAIN queue /\ queue' = Tail(queue) /\ queue'[k] = queue[k + 1]
  <2>1. queue # <<>> /\ queue' = Tail(queue)
    BY <1>1, WorkerMoves
  <2>2. QED
    BY <2>1 DEF TypeOK
<1>2. ASSUME NEW p \in Pods, PodAdded(p)
      PROVE  IF k \in DOMAIN queue THEN queue'[k] = queue[k] ELSE queue'[k] = Item(p)
  BY <1>2 DEF PodAdded, TypeOK
<1>3. QED
  BY <1>1, <1>2

LEMMA ControllerKeepsCopies ==
  ASSUME IsolationInv, EntitlementInv, CopiesBehind, ControllerStep
  PROVE  CopiesBehind'
<1> USE DEF IsolationInv
<1> DEFINE Old(c, p) == \A i \in Containers(p) : c[i] <= inc[p][i]
           Fine(r) == /\ r.pc # "idle" => Old(r.status, r.pod)
                      /\ Working(r) => \A i \in Containers(r.pod) : r.status[i] # 0
<1>1. status' = status /\ inc' = inc
  BY ControllerFrame
<1>2. /\ \A p \in Pods : Old(status[p], p)
      /\ \A k \in DOMAIN queue : Old(queue[k].status, queue[k].pod)
      /\ \A w \in Workers : Fine(worker[w])
  BY DEF CopiesBehind, Behind
<1> SUFFICES /\ \A k \in DOMAIN queue' : Old(queue'[k].status, queue'[k].pod)
             /\ \A w \in Workers : Fine(worker'[w])
  BY <1>1, <1>2 DEF CopiesBehind, Behind, Working
<1>3. ASSUME NEW w \in Workers, WorkerStep(w)
      PROVE  /\ \A k \in DOMAIN queue' : Old(queue'[k].status, queue'[k].pod)
             /\ \A v \in Workers : Fine(worker'[v])
  <2> DEFINE r == worker[w]
             s == worker'[w]
  <2> HIDE DEF Old
  <2>1. \A k \in DOMAIN queue' : Old(queue'[k].status, queue'[k].pod)
    BY <1>2, <1>3, QueueAfter
  <2>2. Fine(s)
    <3>1. CASE s = Idle
      BY <3>1, IdleFields
    <3>2. CASE Waited(r, s)
      BY <1>2, <3>2 DEF Waited, SameCopy, Working
    <3>3. CASE Began(r, s)
      BY <1>2, <3>3 DEF Began, SameCopy, Working, Refreshed
    <3>4. CASE Took(s) /\ queue # <<>>
      <4>1. 1 \in DOMAIN queue /\ Head(queue) = queue[1]
        BY <3>4 DEF TypeOK
      <4>2. QED
        BY <1>2, <3>4, <4>1 DEF Took, Working
    <3>5. CASE Working(r) /\ Working(s) /\ SameCopy(s, r)
      BY <1>2, <3>5 DEF Working, SameCopy
    <3>6. QED
      BY <1>3, <3>1, <3>2, <3>3, <3>4, <3>5, JobAfter
  <2> HIDE DEF Fine
  <2>3. QED
    BY <1>2, <1>3, <2>1, <2>2, JobAfter
<1>4. ASSUME NEW p \in Pods, PodAdded(p)
      PROVE  /\ \A k \in DOMAIN queue' : Old(queue'[k].status, queue'[k].pod)
             /\ \A v \in Workers : Fine(worker'[v])
  <2> HIDE DEF Old, Fine
  <2>1. Item(p).status = status[p] /\ Item(p).pod = p
    BY DEF Item
  <2>2. QED
    BY <1>2, <1>4, <2>1, QueueAfter DEF PodAdded
<1>5. CASE Crash
  BY <1>5, IdleFields DEF Crash
<1>6. CASE RecStep \/ Run
  <2> HIDE DEF Old, Fine
  <2>1. QED
    BY <1>2, <1>6, RecMoves DEF Run
<1>7. QED
  BY <1>3, <1>4, <1>5, <1>6 DEF ControllerStep

\* Only a container that was restarted is mistaken for the infra container.
LEMMA CandidatesRestarted ==
  ASSUME IsolationInv, DirsLatest, CopiesBehind, NEW w \in Workers, worker[w].pc = "infra",
         NEW d \in InfraCandidates(worker[w])
  PROVE  d \in dirs /\ (d[2] = 0 \/ d[3] > 1)
<1> DEFINE r == worker[w]
<1>1. d \in dirs /\ d \in Dirs /\ d[1] = r.pod
  BY DEF InfraCandidates, PodDirs, Infra, IsolationInv, TypeOK
<1>2. ASSUME d[2] # 0
      PROVE  d[3] > 1
  <2> DEFINE i == d[2]
  <2>1. i \in Containers(r.pod) /\ d = <<r.pod, i, d[3]>> /\ r.pod \in Pods
    BY <1>1, <1>2, NameOfDir
  <2>2. d[3] = inc[r.pod][i] /\ d[3] # r.status[i]
    BY <1>1, <1>2, <2>1 DEF DirsLatest, InfraCandidates
  <2>3. r.status[i] # 0 /\ r.status[i] <= inc[r.pod][i]
    BY <2>1 DEF CopiesBehind, Behind, Working
  <2>4. r.status \in Statuses(r.pod) /\ inc[r.pod] \in Statuses(r.pod)
    BY BusyType DEF IsolationInv, TypeOK, Jobs, JobRecords
  <2> HIDE DEF r, i
  <2>5. r.status[i] \in Nat /\ inc[r.pod][i] \in Nat
    BY <2>1, <2>4, ConstantsAssumption DEF Statuses
  <2>6. QED
    BY <2>2, <2>3, <2>5
<1>3. QED
  BY <1>1, <1>2

-----------------------------------------------------------------------------
(* One copy at a time.                                                      *)

\* With unique names, no Pod is twice in the hands of the process.
LEMMA HeldOnceKept ==
  ASSUME NoNameReused, IsolationInv, EntitlementInv, HeldOnce, Next
  PROVE  HeldOnce'
<1> USE DEF IsolationInv
<1>1. ASSUME UNCHANGED <<queue, worker, known>>
      PROVE  HeldOnce'
  BY <1>1 DEF HeldOnce
<1>2. ASSUME NEW w \in Workers, WorkerStep(w)
      PROVE  HeldOnce'
  <2> DEFINE r == worker[w]
             s == worker'[w]
  <2>1. known' = known /\ \A v \in Workers : v # w => worker'[v] = worker[v]
    BY <1>2, JobAfter
  <2>2. CASE s.pc # "idle" /\ r.pc # "idle" /\ s.pod = r.pod /\ queue' = queue
    BY <2>1, <2>2 DEF HeldOnce
  <2>3. CASE s = Idle /\ queue' = queue
    <3>1. \A v \in Workers : worker[v].pc # "idle" => worker[v].pod # Idle.pod
      BY BusyType, ConstantsAssumption DEF JobRecords, Idle
    <3>2. QED
      BY <2>1, <2>3, <3>1, IdleFields DEF HeldOnce
  <2>4. CASE queue # <<>> /\ queue' = Tail(queue)
    <3>1. \A k \in DOMAIN queue' : k + 1 \in DOMAIN queue /\ queue'[k] = queue[k + 1] /\ k + 1 # 1
      BY <2>4 DEF TypeOK
    <3>2. 1 \in DOMAIN queue /\ Head(queue) = queue[1]
      BY <2>4 DEF TypeOK
    <3>3. \A j, k \in DOMAIN queue' : j + 1 = k + 1 => j = k
      BY <2>4 DEF TypeOK
    <3>4. /\ \A k \in DOMAIN queue' : queue'[k].pod \in known
          /\ \A j, k \in DOMAIN queue' : queue'[j].pod = queue'[k].pod => j = k
      BY <3>1, <3>3 DEF HeldOnce
    <3>5. \A v \in Workers : worker[v].pc # "idle" => \A k \in DOMAIN queue' : queue'[k].pod # worker[v].pod
      BY <3>1 DEF HeldOnce
    <3>6. CASE s = Idle
      <4>1. \A v \in Workers : worker[v].pc # "idle" => worker[v].pod # Idle.pod
        BY BusyType, ConstantsAssumption DEF JobRecords, Idle
      <4>2. QED
        BY <2>1, <3>4, <3>5, <3>6, <4>1, IdleFields DEF HeldOnce
    <3>7. CASE Took(s)
      <4>1. s.pod = queue[1].pod /\ s.pc = "refresh"
        BY <3>2, <3>7 DEF Took
      <4>2. s.pod \in known /\ \A k \in DOMAIN queue' : queue'[k].pod # s.pod
        BY <3>1, <3>2, <4>1 DEF HeldOnce
      <4>3. \A v \in Workers : v # w => worker[v].pod # s.pod
        <5>1. \A v \in Workers : worker[v].pc # "idle" => worker[v].pod # s.pod
          BY <3>2, <4>1 DEF HeldOnce
        <5>2. \A v \in Workers : worker[v].pc = "idle" => worker[v].pod = NoPod
          BY DEF TypeOK, Jobs, JobRecords, Idle
        <5>3. s.pod \in Pods
          BY <4>2 DEF TypeOK
        <5>4. QED
          BY <5>1, <5>2, <5>3, ConstantsAssumption
      <4>4. QED
        BY <2>1, <3>4, <3>5, <4>1, <4>2, <4>3 DEF HeldOnce
    <3>8. QED
      BY <1>2, <2>4, <3>6, <3>7, WorkerMoves
  <2>5. CASE queue' = queue /\ Moved(r, s) /\ s # Idle
    <3>1. CASE Began(r, s)
      <4>1. s.pc = "determine" /\ r.pc = "refresh"
        BY <3>1 DEF Began
      <4>2. s.pod = r.pod
        BY <3>1, <4>1, BusyType DEF Began, SameCopy, Refreshed, NoNameReused, JobRecords
      <4>3. QED
        BY <2>2, <2>5, <4>1, <4>2
    <3>2. CASE ~Began(r, s)
      BY <2>2, <2>5, <3>2 DEF Moved, Waited, StartedOver, Computed, DidContainer, DidInfra, SameCopy, Working
    <3>3. QED
      BY <3>1, <3>2
  <2>6. QED
    BY <1>2, <2>3, <2>4, <2>5, WorkerMoves
<1>3. ASSUME NEW p \in Pods, PodAdded(p)
      PROVE  HeldOnce'
  <2>1. known' = known \cup {p} /\ p \notin known /\ worker' = worker /\ queue' = Append(queue, Item(p))
    BY <1>3 DEF PodAdded
  <2>2. Item(p).pod = p
    BY DEF Item
  <2>3. \A k \in DOMAIN queue' : IF k \in DOMAIN queue THEN queue'[k] = queue[k] ELSE queue'[k] = Item(p)
    BY <1>3, QueueAfter
  <2>4. \A j, k \in DOMAIN queue' : j \notin DOMAIN queue /\ k \notin DOMAIN queue => j = k
    BY <2>1 DEF TypeOK
  <2>5. \A k \in DOMAIN queue' : queue'[k].pod \in known'
    BY <2>1, <2>2, <2>3 DEF HeldOnce
  <2>6. \A j, k \in DOMAIN queue' : queue'[j].pod = queue'[k].pod => j = k
    BY <2>1, <2>2, <2>3, <2>4 DEF HeldOnce
  <2>7. ASSUME NEW w \in Workers, worker[w].pc # "idle"
        PROVE  \A k \in DOMAIN queue' : queue'[k].pod # worker[w].pod
    BY <2>1, <2>2, <2>3, <2>7 DEF HeldOnce
  <2>8. QED
    BY <2>1, <2>5, <2>6, <2>7 DEF HeldOnce
<1>4. CASE Crash
  BY <1>4, IdleFields DEF Crash, HeldOnce
<1>5. CASE ClusterStep
  BY <1>1, <1>5 DEF ClusterStep, CreatePod, BindPod, StartContainer, ExitContainer, ReportStatus, EndPod, procVars
<1>6. CASE RecStep \/ Run
  BY <1>1, <1>6, RecMoves DEF Run
<1>7. QED
  BY <1>2, <1>3, <1>4, <1>5, <1>6 DEF Next, ControllerStep

LEMMA OneCopy ==
  ASSUME OneCopyAtATime, TypeOK, CopiesBehind, NoNameReused => HeldOnce
  PROVE  CopiesAgree
<1> SUFFICES ASSUME NEW v \in Workers, NEW w \in Workers, Working(worker[v]), Working(worker[w]),
                    worker[v].pod = worker[w].pod
             PROVE  worker[v].status = worker[w].status
  BY DEF CopiesAgree
<1>1. CASE NoNameReused \/ v = w
  BY <1>1 DEF HeldOnce, Working
<1>2. CASE MaxRestarts = 0
  <2> DEFINE p == worker[v].pod
  <2>1. worker[v].status \in Statuses(p) /\ worker[w].status \in Statuses(p)
    BY BusyType DEF Working, Jobs, JobRecords
  <2>2. \A i \in Containers(p) : worker[v].status[i] # 0 /\ worker[w].status[i] # 0
    BY DEF CopiesBehind
  <2>3. \A i \in Containers(p) : worker[v].status[i] = worker[w].status[i]
    BY <1>2, <2>1, <2>2 DEF Statuses
  <2>4. QED
    BY <2>1, <2>3 DEF Statuses
<1>3. QED
  BY <1>1, <1>2 DEF OneCopyAtATime

-----------------------------------------------------------------------------
(* A worker that is done with a container leaves it with its cpuset.        *)

LEMMA ClusterKeepsDone ==
  ASSUME IsolationInv, EntitlementInv, AnnotationInv, ClusterStep
  PROVE  DonePinned'
<1> USE DEF IsolationInv
<1>1. worker' = worker
  BY DEF ClusterStep, CreatePod, BindPod, StartContainer, ExitContainer, ReportStatus, EndPod, procVars
<1>2. ASSUME NEW w \in Workers, Working(worker[w]), NEW i \in Containers(worker[w].pod),
             DoneWith(worker[w], i), CopyDir(worker[w], i) \in dirs'
      PROVE  cpus'[CopyDir(worker[w], i)] = Entitled(worker[w].pod, i)'
  <2> DEFINE r == worker[w]
             p == r.pod
             d == CopyDir(r, i)
  <2>1. p \in Pods /\ r.status \in Statuses(p) /\ r.status[i] <= inc[p][i] /\ Admitted(p)
    BY <1>2, BusyType DEF Working, Jobs, JobRecords, AnnotationInv, CopiesBehind, Behind,
                          EntitlementInv, CopiesAdmitted
  <2>2. d[1] = p /\ d[2] = i /\ d[3] = r.status[i] /\ i # 0
    BY <1>2, <2>1, ContainerType DEF CopyDir
  <2>3. d # Infra(d[1]) /\ ~Started(d)
    <3> HIDE DEF r, d
    <3>1. inc[p] \in Statuses(p) /\ i \in Containers(p)
      BY <1>2, <2>1 DEF TypeOK, r
    <3>2. inc[p][i] \in Nat /\ r.status[i] \in Nat
      BY <2>1, <3>1, ConstantsAssumption DEF Statuses
    <3>3. r.status[i] # inc[p][i] + 1
      BY <2>1, <3>2
    <3>4. QED
      BY <2>2, <3>3 DEF Infra, Started
  <2>4. d \in dirs /\ cpus'[d] = cpus[d] /\ phase'[p] = "bound"
    BY <1>2, <2>2, <2>3, ClusterCreates, ClusterDirs
  <2>5. cpus[d] = Entitled(p, i)
    BY <1>2, <2>2, <2>4 DEF AnnotationInv, DonePinned, Pinned
  <2>6. \A q \in Pods : Admitted(q) /\ phase'[q] = "bound" => Entitled(q, i)' = Entitled(q, i)
    BY AdmittedStays DEF Ended
  <2>7. QED
    BY <1>1, <2>1, <2>4, <2>5, <2>6
<1>3. \A w \in Workers : \A i : CopyDir(worker[w], i)[1] = worker[w].pod /\ CopyDir(worker[w], i)[2] = i
  BY DEF CopyDir
<1>4. \A w \in Workers : Working(worker[w]) => \A i \in Containers(worker[w].pod) : i # 0
  BY BusyType, ContainerType DEF Working, JobRecords
<1>5. QED
  BY <1>1, <1>2, <1>3, <1>4 DEF DonePinned, Pinned, Working, DoneWith, CopyDir

\* Only a worker that takes it for the infra container takes a container's cpuset
\* away.
LEMMA PinnedStays ==
  ASSUME IsolationInv, EntitlementInv, ControllerStep, NEW d, Pinned(d)
  PROVE  \/ Pinned(d)'
         \/ /\ cpus'[d] = DefaultCpus
            /\ \E w \in Workers : worker[w].pc = "infra" /\ d \in InfraCandidates(worker[w])
<1> USE DEF IsolationInv
<1>1. UNCHANGED <<phase, dirs, checkpoint>>
  BY ControllerFrame
<1>2. d \in DOMAIN cpus /\ d \in dirs
  BY DEF Pinned, TypeOK
<1>3. CASE cpus'[d] = cpus[d]
  BY <1>1, <1>3, NothingElseMoves DEF Pinned
<1>4. ASSUME NEW w \in Workers, WorkerStep(w), cpus'[d] # cpus[d]
      PROVE  \/ Pinned(d)'
             \/ cpus'[d] = DefaultCpus /\ worker[w].pc = "infra" /\ d \in InfraCandidates(worker[w])
  <2> DEFINE r == worker[w]
             x == CopyDir(r, r.cont)
  <2>1. CASE r.pc = "apply" /\ x \in dirs /\ cpus' = [cpus EXCEPT ![x] = r.set]
    <3>1. d = x /\ cpus'[d] = r.set
      BY <1>2, <1>4, <2>1
    <3>2. x[1] = r.pod /\ x[2] = r.cont
      BY DEF CopyDir
    <3>3. cpus'[d] = Entitled(d[1], d[2])
      BY <2>1, <3>1, <3>2, ApplySets
    <3>4. QED
      BY <1>1, <3>3, NothingElseMoves DEF Pinned
  <2>2. CASE r.pc = "infra" /\ \E y \in InfraCandidates(r) : cpus' = [cpus EXCEPT ![y] = DefaultCpus]
    BY <1>2, <1>4, <2>2
  <2>3. QED
    BY <1>4, <2>1, <2>2, WorkerWritesWhat
<1>5. CASE RecStep
  BY <1>1, <1>2, <1>3, <1>5, RecWritesWhat, NothingElseMoves DEF Pinned
<1>6. CASE (\E p \in Pods : PodAdded(p)) \/ Crash \/ Run
  BY <1>3, <1>6 DEF PodAdded, Crash, Run, nodeVars
<1>7. QED
  BY <1>3, <1>4, <1>5, <1>6 DEF ControllerStep

\* No worker takes it for the infra container as long as copies agree.
LEMMA DoneStays ==
  ASSUME IsolationInv, EntitlementInv, AnnotationInv, CopiesAgree, ControllerStep,
         NEW w \in Workers, Working(worker[w]), NEW i \in Containers(worker[w].pod),
         DoneWith(worker[w], i), CopyDir(worker[w], i) \in dirs
  PROVE  Pinned(<<worker[w].pod, i, worker[w].status[i]>>)
         /\ \A d : d = CopyDir(worker[w], i) => Pinned(d)'
<1> DEFINE r == worker[w]
<1> SUFFICES ASSUME NEW d, d = CopyDir(r, i)
             PROVE  Pinned(d) /\ Pinned(d)'
  BY DEF CopyDir
<1>1. Pinned(d)
  BY DEF AnnotationInv, DonePinned
<1>2. ASSUME NEW v \in Workers, worker[v].pc = "infra", d \in InfraCandidates(worker[v])
      PROVE  FALSE
  <2>1. d[1] = r.pod
    BY DEF CopyDir
  <2>2. \A x \in PodDirs(worker[v].pod) : x[1] = worker[v].pod
    BY DEF PodDirs, Infra
  <2>3. worker[v].pod = r.pod
    BY <1>2, <2>1, <2>2 DEF InfraCandidates
  <2>4. worker[v].status = r.status
    BY <1>2, <2>3 DEF CopiesAgree, Working
  <2>5. QED
    BY <1>2, <2>3, <2>4 DEF InfraCandidates, CopyDir
<1>3. QED
  BY <1>1, <1>2, PinnedStays

LEMMA WorkerKeepsDone ==
  ASSUME IsolationInv, EntitlementInv, AnnotationInv, CopiesAgree, NEW w \in Workers, WorkerStep(w)
  PROVE  DonePinned'
<1> USE DEF IsolationInv
<1> DEFINE r == worker[w]
           s == worker'[w]
           Right(t, i) == LET d == CopyDir(t, i) IN d \in dirs => cpus'[d] = Entitled(t.pod, i)
<1>1. /\ UNCHANGED <<phase, dirs, checkpoint>>
      /\ \A v \in Workers : v # w => worker'[v] = worker[v]
  BY JobAfter
<1>2. ControllerStep
  BY DEF ControllerStep
<1>3. ASSUME NEW v \in Workers, Working(worker[v]), NEW i \in Containers(worker[v].pod), DoneWith(worker[v], i)
      PROVE  Right(worker[v], i)
  <2>1. ASSUME NEW d, d = CopyDir(worker[v], i), d \in dirs
        PROVE  cpus'[d] = Entitled(d[1], d[2])
    <3>1. Pinned(d)'
      BY <1>2, <1>3, <2>1, DoneStays
    <3>2. QED
      BY <1>1, <3>1, NothingElseMoves DEF Pinned
  <2>2. QED
    BY <2>1 DEF CopyDir
<1>4. ASSUME Working(s), NEW i \in Containers(s.pod), DoneWith(s, i)
      PROVE  Right(s, i)
  <2>1. CASE Began(r, s) \/ StartedOver(r, s)
    <3>1. s.pc = "determine" /\ s.cont = 1
      BY <2>1 DEF Began, StartedOver
    <3>2. s.pod \in Pods
      BY <3>1, WorkerType DEF TypeOK, Jobs, JobRecords, Idle
    <3>3. QED
      BY <1>4, <3>1, <3>2, ConstantsAssumption DEF DoneWith
  <2>2. CASE Computed(r, s) \/ DidInfra(r, s)
    <3>1. Working(r) /\ SameCopy(s, r) /\ DoneWith(r, i)
      BY <1>4, <2>2 DEF Computed, DidInfra, Working, DoneWith
    <3>2. QED
      BY <1>3, <1>4, <3>1 DEF SameCopy, CopyDir
  <2>3. CASE DidContainer(r, s)
    <3>1. Working(r) /\ SameCopy(s, r) /\ r.pc = "apply" /\ r.pod \in Pods /\ r.cont \in Containers(r.pod)
      BY <2>3, BusyType DEF DidContainer, Working, Jobs, JobRecords
    <3>2. CASE i = r.cont
      <4> DEFINE d == CopyDir(r, i)
      <4>1. SUFFICES ASSUME d \in dirs
                     PROVE  cpus'[d] = Entitled(r.pod, i)
        BY <3>1 DEF SameCopy, CopyDir
      <4>2. r.set = Entitled(r.pod, i) /\ r.set # {}
        BY <3>1, <3>2, <4>1, ApplySets, EntitledNonempty
      <4>3. cpus' = [cpus EXCEPT ![d] = r.set]
        <5>1. WorkerApply(w)
          BY <3>1 DEF WorkerStep, WorkerGet, WorkerRefresh, WorkerDetermine, WorkerInfra, WorkerAnnotate
        <5>2. s # Idle /\ ~StartedOver(r, s)
          BY <2>3, <3>1, IdleFields, ConstantsAssumption DEF DidContainer, StartedOver
        <5>3. QED
          BY <3>2, <4>2, <5>1, <5>2, ApplyMove
      <4>4. QED
        BY <4>1, <4>2, <4>3 DEF TypeOK
    <3>3. CASE i # r.cont
      <4>1. DoneWith(r, i)
        BY <1>4, <2>3, <3>1, <3>3, ConstantsAssumption DEF DidContainer, DoneWith, SameCopy
      <4>2. QED
        BY <1>3, <1>4, <3>1, <4>1 DEF SameCopy, CopyDir
    <3>4. QED
      BY <3>2, <3>3
  <2>4. QED
    BY <1>4, <2>1, <2>2, <2>3, WorkerMoves, IdleFields DEF Moved, Took, Waited, Working
<1>5. \A v \in Workers : Working(worker'[v]) => worker'[v].pod \in Pods
  BY WorkerType DEF TypeOK, Jobs, JobRecords, Idle, Working
<1>6. ASSUME NEW v \in Workers, Working(worker'[v]), NEW i \in Containers(worker'[v].pod), DoneWith(worker'[v], i)
      PROVE  Right(worker'[v], i)
  BY <1>1, <1>3, <1>4, <1>6
<1>7. QED
  BY <1>1, <1>5, <1>6, NothingElseMoves, ContainerType DEF DonePinned, Pinned, Working, DoneWith, CopyDir

LEMMA ControllerKeepsDone ==
  ASSUME IsolationInv, EntitlementInv, AnnotationInv, CopiesAgree, ControllerStep
  PROVE  DonePinned'
<1>1. CASE \E w \in Workers : WorkerStep(w)
  BY <1>1, WorkerKeepsDone
<1>2. CASE worker' = worker
  <2>1. ASSUME NEW w \in Workers, Working(worker[w]), NEW i \in Containers(worker[w].pod),
               DoneWith(worker[w], i), NEW d, d = CopyDir(worker[w], i), d \in dirs
        PROVE  Pinned(d)'
    BY <2>1, DoneStays
  <2>2. dirs' = dirs
    BY ControllerFrame
  <2>3. QED
    BY <1>2, <2>1, <2>2 DEF DonePinned, Pinned, Working, DoneWith, CopyDir
<1>3. CASE Crash
  BY <1>3, IdleFields DEF Crash, DonePinned
<1>4. QED
  BY <1>1, <1>2, <1>3, RecMoves DEF ControllerStep, PodAdded, Run

\* The invariant of the annotations: with it, HeldOnce where names are unique.
AnnotationWholeInv == AnnotationInv /\ (NoNameReused => HeldOnce)

\* It is inductive relative to IsolationInv and EntitlementInv, if there is never
\* more than one copy of a Pod's incarnations at work.
THEOREM AnnotationInvariant ==
  ASSUME OneCopyAtATime
  PROVE  Spec => []AnnotationWholeInv
<1>1. Init => AnnotationWholeInv
  <2> SUFFICES ASSUME Init
               PROVE  AnnotationWholeInv
    OBVIOUS
  <2>1. /\ dirs = {} /\ queue = <<>> /\ worker = [w \in Workers |-> Idle]
        /\ status = [p \in Pods |-> NotReported(p)] /\ inc = status
    BY DEF Init
  <2>2. \A p \in Pods : Behind(status[p], p)
    BY <2>1 DEF Behind, NotReported
  <2>3. QED
    BY <2>1, <2>2, IdleFields DEF AnnotationWholeInv, AnnotationInv, DirsLatest, CopiesBehind, DonePinned, HeldOnce
<1>2. IsolationInv /\ EntitlementInv /\ AnnotationWholeInv /\ [Next]_vars => AnnotationWholeInv'
  <2> SUFFICES ASSUME IsolationInv, EntitlementInv, AnnotationWholeInv, [Next]_vars
               PROVE  AnnotationWholeInv'
    OBVIOUS
  <2>1. AnnotationInv /\ CopiesAgree
    BY OneCopy DEF AnnotationWholeInv, AnnotationInv, IsolationInv
  <2>2. CASE Next
    <3>1. DirsLatest'
      BY <2>1, <2>2, LatestKept DEF AnnotationInv
    <3>2. CopiesBehind'
      BY <2>1, <2>2, ClusterKeepsCopies, ControllerKeepsCopies DEF AnnotationInv, Next
    <3>3. DonePinned'
      BY <2>1, <2>2, ClusterKeepsDone, ControllerKeepsDone DEF Next
    <3>4. NoNameReused => HeldOnce'
      BY <2>2, HeldOnceKept DEF AnnotationWholeInv
    <3>5. NoNameReused' = NoNameReused
      BY DEF NoNameReused
    <3>6. QED
      BY <3>1, <3>2, <3>3, <3>4, <3>5 DEF AnnotationWholeInv, AnnotationInv
  <2>3. CASE UNCHANGED vars
    <3>1. UNCHANGED <<phase, status, inc, dirs, cpus, checkpoint, known, queue, worker>>
      BY <2>3 DEF vars, apiVars, nodeVars, procVars
    <3>2. DirsLatest' /\ CopiesBehind' /\ HeldOnce' = HeldOnce /\ NoNameReused' = NoNameReused
      BY <2>1, <3>1 DEF AnnotationInv, DirsLatest, CopiesBehind, Behind, Working, HeldOnce, NoNameReused
    <3>3. DonePinned'
      BY <2>1, <3>1, NothingElseMoves DEF AnnotationInv, DonePinned, Pinned, Working, DoneWith, CopyDir
    <3>4. QED
      BY <3>2, <3>3 DEF AnnotationWholeInv, AnnotationInv
  <2>4. QED
    BY <2>2, <2>3
<1>3. QED
  BY <1>1, <1>2, IsolationInvariant, EntitlementInvariant, PTL DEF Spec

\* Only the last incarnation of a container has a directory, no copy of a status
\* tells of one still to come, and a container that a worker has passed has its
\* cpuset for as long as the directory named by the worker's copy exists.
THEOREM AnnotationInductive ==
  ASSUME OneCopyAtATime
  PROVE  Spec => []AnnotationInv
<1>1. AnnotationWholeInv => AnnotationInv
  BY DEF AnnotationWholeInv
<1>2. QED
  BY <1>1, AnnotationInvariant, PTL

\* If no Pod takes the name of a deleted one, or there is one worker, or
\* containers do not restart: when a worker is about to annotate its Pod, every
\* container of its copy that still runs has its own cpuset.
THEOREM AnnotationsEarned ==
  ASSUME OneCopyAtATime
  PROVE  Spec => []PinnedBeforeAnnotation
<1>1. AnnotationWholeInv => PinnedBeforeAnnotation
  BY DEF AnnotationWholeInv, AnnotationInv, DonePinned, PinnedBeforeAnnotation, Working, DoneWith, CopyDir
<1>2. QED
  BY <1>1, AnnotationInvariant, PTL

-----------------------------------------------------------------------------
(* Annotations stay true.                                                   *)

\* Without restarts, a Pod's directories are those of its copy.
LEMMA OnlyIncarnation ==
  ASSUME MaxRestarts = 0, IsolationInv, AnnotationInv, NEW w \in Workers, Working(worker[w]),
         NEW d \in dirs, d[1] = worker[w].pod
  PROVE  \/ d = Infra(d[1]) /\ d[2] = 0
         \/ d[2] # 0 /\ d[2] \in Containers(d[1]) /\ d = CopyDir(worker[w], d[2])
<1> DEFINE r == worker[w]
<1>1. d \in Dirs
  BY DEF IsolationInv, TypeOK
<1>2. CASE d[2] = 0
  BY <1>1, <1>2, NameOfDir
<1>3. CASE d[2] # 0
  <2>1. d[2] \in Containers(r.pod) /\ d[3] = 1 /\ d = <<r.pod, d[2], d[3]>>
    BY <1>1, <1>3, NameOfDir DEF Incarnations
  <2>2. r.status \in Statuses(r.pod) /\ r.status[d[2]] # 0
    BY <2>1, BusyType DEF Working, Jobs, JobRecords, AnnotationInv, CopiesBehind, IsolationInv
  <2>3. r.status[d[2]] = 1
    BY <2>1, <2>2 DEF Statuses
  <2>4. QED
    BY <1>3, <2>1, <2>3 DEF CopyDir
<1>4. QED
  BY <1>2, <1>3

LEMMA ClusterKeepsSettled ==
  ASSUME MaxRestarts = 0, IsolationInv, EntitlementInv, AnnotationInv, Settled, ClusterStep
  PROVE  Settled'
<1> USE DEF IsolationInv
<1>1. UNCHANGED <<worker, annotated>>
  BY DEF ClusterStep, CreatePod, BindPod, StartContainer, ExitContainer, ReportStatus, EndPod, procVars, apiVars
<1>2. annotated \subseteq Pods
  BY DEF TypeOK
<1>3. ASSUME NEW p \in annotated, NEW d \in dirs', d[1] = p
      PROVE  d \in dirs /\ cpus'[d] = cpus[d] /\ Entitled(d[1], d[2])' = Entitled(d[1], d[2])
  <2>1. d \in Dirs
    BY ClusterType DEF TypeOK
  <2>2. Admitted(p) /\ p \in Pods /\ \A i \in Containers(p) : inc[p][i] # 0
    BY <1>2 DEF Settled
  <2>3. phase[p] # "pending"
    BY <2>2 DEF Admitted, Ended
  <2>4. ~Started(d)
    BY <1>3, <2>1, <2>2, ConstantsAssumption DEF Started, TypeOK, Statuses
  <2>5. d \in dirs /\ cpus'[d] = cpus[d]
    BY <1>3, <2>3, <2>4, ClusterCreates
  <2>6. ~Ended(p)'
    BY <1>3, ClusterDirs DEF Ended
  <2>7. QED
    BY <1>3, <2>2, <2>5, <2>6, AdmittedStays
<1>4. AnnotatedMeansPinned'
  <2>1. DefaultCpus' = DefaultCpus
    BY DEF DefaultCpus, PoolCpus
  <2>2. QED
    BY <1>1, <1>3, <2>1 DEF Settled, AnnotatedMeansPinned, Pinned
<1>5. ASSUME NEW w \in Workers, worker[w].pc = "annotate", Infra(worker[w].pod) \in dirs'
      PROVE  cpus'[Infra(worker[w].pod)] = DefaultCpus
  <2> DEFINE d == Infra(worker[w].pod)
  <2>1. d[1] = worker[w].pod /\ d[2] = 0 /\ worker[w].pod \in Pods
    BY <1>5, BusyType DEF Infra, JobRecords
  <2>2. Admitted(worker[w].pod)
    BY <1>5 DEF EntitlementInv, CopiesAdmitted, Working
  <2>3. phase[worker[w].pod] # "pending"
    BY <2>2 DEF Admitted, Ended
  <2>4. ~Started(d)
    BY <2>1, ContainerType DEF Started
  <2>5. d \in dirs /\ cpus'[d] = cpus[d]
    BY <1>5, <2>1, <2>3, <2>4, ClusterCreates
  <2>6. QED
    BY <1>5, <2>5 DEF Settled
<1>6. ASSUME NEW p \in annotated
      PROVE  Admitted(p)' /\ \A i \in Containers(p) : inc'[p][i] # 0
  <2>1. Admitted(p) /\ p \in Pods /\ \A i \in Containers(p) : inc[p][i] # 0
    BY <1>2 DEF Settled
  <2>2. Admitted(p)'
    BY <2>1, AdmittedStays
  <2>3. ASSUME NEW i \in Containers(p)
        PROVE  inc'[p][i] # 0
    <3>1. inc[p][i] # 0 /\ inc[p][i] \in Nat /\ inc'[p][i] \in Nat /\ inc[p][i] <= inc'[p][i]
      BY <2>1, IncGrows
    <3>2. QED
      BY <3>1
  <2>4. QED
    BY <2>2, <2>3
<1>7. DefaultCpus' = DefaultCpus
  BY DEF DefaultCpus, PoolCpus
<1>8. QED
  BY <1>1, <1>4, <1>5, <1>6, <1>7 DEF Settled, Infra

LEMMA WorkerKeepsSettled ==
  ASSUME NoNameReused, MaxRestarts = 0, IsolationInv, EntitlementInv, AnnotationInv, Settled,
         NEW w \in Workers, WorkerStep(w)
  PROVE  Settled'
<1> USE DEF IsolationInv
<1> DEFINE r == worker[w]
           s == worker'[w]
<1>1. /\ UNCHANGED <<phase, dirs, checkpoint, inc>>
      /\ \A v \in Workers : v # w => worker'[v] = worker[v]
  BY JobAfter
<1>2. ControllerStep
  BY DEF ControllerStep
\* The infra container keeps the default set...
<1>3. ASSUME NEW d \in dirs, d[2] = 0, cpus[d] = DefaultCpus
      PROVE  cpus'[d] = DefaultCpus
  BY <1>3, WorkerSets
\* ...which is set where it should be.
<1>4. ASSUME NEW v \in Workers, worker[v].pc = "infra", NEW d \in InfraCandidates(worker[v])
      PROVE  d \in dirs /\ d = Infra(worker[v].pod) /\ d[2] = 0
  <2>1. d \in dirs /\ d[1] = worker[v].pod
    BY DEF InfraCandidates, PodDirs, Infra
  <2>2. Working(worker[v])
    BY <1>4 DEF Working
  <2>3. CASE d[2] # 0 /\ d[2] \in Containers(d[1]) /\ d = CopyDir(worker[v], d[2])
    BY <2>1, <2>3 DEF InfraCandidates, CopyDir
  <2>4. QED
    BY <2>1, <2>2, <2>3, OnlyIncarnation
<1>5. ASSUME s.pc = "annotate", Infra(s.pod) \in dirs
      PROVE  cpus'[Infra(s.pod)] = DefaultCpus
  <2>1. DidInfra(r, s)
    BY <1>5, WorkerMoves, IdleFields DEF Moved, Took, Waited, Began, StartedOver, Computed, DidContainer
  <2>2. WorkerInfra(w)
    BY <2>1 DEF DidInfra, WorkerStep, WorkerGet, WorkerRefresh, WorkerDetermine, WorkerApply, WorkerAnnotate
  <2>3. s # Idle /\ ~StartedOver(r, s)
    BY <1>5, IdleFields DEF StartedOver
  <2>4. PICK d \in InfraCandidates(r) : cpus' = [cpus EXCEPT ![d] = DefaultCpus]
    BY <2>2, <2>3, InfraMove
  <2>5. d = Infra(s.pod) /\ d \in DOMAIN cpus
    BY <1>4, <2>1 DEF DidInfra, SameCopy, TypeOK
  <2>6. QED
    BY <2>4, <2>5
<1>6. ASSUME NEW v \in Workers, worker'[v].pc = "annotate", Infra(worker'[v].pod) \in dirs
      PROVE  cpus'[Infra(worker'[v].pod)] = DefaultCpus
  <2>1. CASE v = w
    BY <1>5, <1>6, <2>1
  <2>2. CASE v # w
    <3>1. worker'[v] = worker[v] /\ Infra(worker[v].pod)[2] = 0
      BY <1>1, <2>2 DEF Infra
    <3>2. QED
      BY <1>3, <1>6, <3>1 DEF Settled
  <2>3. QED
    BY <2>1, <2>2
\* The Pod that is annotated is the worker's.
<1>7. ASSUME NEW p \in annotated', p \notin annotated
      PROVE  r.pc = "annotate" /\ p = r.pod /\ p \in Pods /\ UNCHANGED cpus
  <2>1. WorkerAnnotate(w)
    BY <1>7, GetMove, RefreshType, DetermineMove, ApplyMove, InfraMove DEF WorkerStep
  <2>2. r.pc = "annotate" /\ (\E q \in Refreshed(r.pod) : annotated' = annotated \cup {q}) /\ UNCHANGED cpus
    BY <1>7, <2>1, AnnotateMove
  <2>3. r.pod \in Pods
    BY <2>2, BusyType DEF JobRecords
  <2>4. QED
    BY <1>7, <2>2, <2>3 DEF Refreshed, NoNameReused
<1>8. ASSUME NEW p \in annotated'
      PROVE  Admitted(p) /\ \A i \in Containers(p) : inc[p][i] # 0
  <2>1. CASE p \in annotated
    BY <2>1 DEF Settled
  <2>2. CASE p \notin annotated
    <3>1. p = r.pod /\ p \in Pods /\ Working(r)
      BY <1>7, <2>2 DEF Working
    <3>2. Admitted(p)
      BY <3>1 DEF EntitlementInv, CopiesAdmitted
    <3>3. \A i \in Containers(p) : r.status[i] # 0 /\ r.status[i] <= inc[p][i]
      BY <3>1 DEF AnnotationInv, CopiesBehind, Behind, Working
    <3>4. r.status \in Statuses(p) /\ inc[p] \in Statuses(p)
      BY <3>1, BusyType DEF Working, Jobs, JobRecords, TypeOK
    <3>5. \A i \in Containers(p) : r.status[i] \in Nat /\ inc[p][i] \in Nat
      BY <3>4, ConstantsAssumption DEF Statuses
    <3>6. QED
      BY <3>2, <3>3, <3>5
  <2>3. QED
    BY <2>1, <2>2
<1>9. ASSUME NEW d \in dirs, d[1] \in annotated'
      PROVE  Pinned(d)' \/ (d[2] = 0 /\ cpus'[d] = DefaultCpus)
  <2>1. CASE d[1] \in annotated
    <3>1. CASE Pinned(d)
      <4>1. d[2] # 0
        BY <3>1 DEF Pinned
      <4>2. QED
        BY <1>2, <1>4, <3>1, <4>1, PinnedStays
    <3>2. CASE ~Pinned(d)
      BY <1>3, <2>1, <3>2 DEF Settled, AnnotatedMeansPinned
    <3>3. QED
      BY <3>1, <3>2
  <2>2. CASE d[1] \notin annotated
    <3>1. d[1] = r.pod /\ r.pc = "annotate" /\ cpus' = cpus /\ Working(r)
      BY <1>7, <1>9, <2>2 DEF Working
    <3>2. CASE d = Infra(d[1]) /\ d[2] = 0
      BY <3>1, <3>2 DEF Settled
    <3>3. CASE d[2] # 0 /\ d[2] \in Containers(d[1]) /\ d = CopyDir(r, d[2])
      <4>1. Pinned(d)
        BY <3>1, <3>3 DEF AnnotationInv, DonePinned, DoneWith
      <4>2. QED
        BY <1>1, <3>1, <4>1, NothingElseMoves DEF Pinned
    <3>4. QED
      BY <3>1, <3>2, <3>3, OnlyIncarnation
  <2>3. QED
    BY <2>1, <2>2
<1>10. QED
  BY <1>1, <1>6, <1>8, <1>9, NothingElseMoves DEF Settled, AnnotatedMeansPinned, Infra

LEMMA OthersKeepSettled ==
  ASSUME MaxRestarts = 0, IsolationInv, EntitlementInv, AnnotationInv, Settled, ControllerStep,
         ~ \E w \in Workers : WorkerStep(w)
  PROVE  Settled'
<1> USE DEF IsolationInv
<1>1. UNCHANGED <<phase, dirs, checkpoint, inc, annotated>>
  BY ControllerFrame, RecMoves DEF ControllerStep, PodAdded, Crash, Run, apiVars
<1>2. \A w \in Workers : worker'[w] = worker[w] \/ worker'[w] = Idle
  BY RecMoves DEF ControllerStep, PodAdded, Crash, Run
<1>3. ASSUME NEW d \in dirs, cpus'[d] # cpus[d]
      PROVE  d[2] # 0 /\ cpus'[d] = Entitled(d[1], d[2])
  BY <1>3, RecWritesWhat DEF ControllerStep, PodAdded, Crash, Run, nodeVars
<1>4. \A d \in dirs : Pinned(d) => Pinned(d)'
  BY <1>1, <1>3, NothingElseMoves DEF Pinned
<1>5. AnnotatedMeansPinned'
  BY <1>1, <1>3, <1>4, NothingElseMoves DEF Settled, AnnotatedMeansPinned
<1>6. ASSUME NEW w \in Workers, worker'[w].pc = "annotate", Infra(worker'[w].pod) \in dirs
      PROVE  cpus'[Infra(worker'[w].pod)] = DefaultCpus
  <2>1. worker'[w] = worker[w] /\ Infra(worker[w].pod)[2] = 0
    BY <1>2, <1>6, IdleFields DEF Infra
  <2>2. QED
    BY <1>3, <1>6, <2>1 DEF Settled
<1>7. QED
  BY <1>1, <1>5, <1>6, NothingElseMoves DEF Settled, Infra

\* If no Pod takes the name of a deleted one and containers do not restart, what
\* an annotation says stays true for as long as the Pod runs.
THEOREM AnnotationsTrue ==
  ASSUME NoNameReused, MaxRestarts = 0
  PROVE  Spec => []AnnotatedMeansPinned
<1>1. Init => Settled
  <2> SUFFICES ASSUME Init
               PROVE  Settled
    OBVIOUS
  <2>1. dirs = {} /\ annotated = {} /\ worker = [w \in Workers |-> Idle]
    BY DEF Init
  <2>2. QED
    BY <2>1, IdleFields DEF Settled, AnnotatedMeansPinned
<1>2. IsolationInv /\ EntitlementInv /\ AnnotationWholeInv /\ Settled /\ [Next]_vars => Settled'
  <2> SUFFICES ASSUME IsolationInv, EntitlementInv, AnnotationInv, Settled, [Next]_vars
               PROVE  Settled'
    BY DEF AnnotationWholeInv
  <2>1. CASE UNCHANGED vars
    <3>1. UNCHANGED <<phase, annotated, inc, dirs, cpus, checkpoint, worker>>
      BY <2>1 DEF vars, apiVars, nodeVars, procVars
    <3>2. QED
      BY <3>1, NothingElseMoves DEF Settled, AnnotatedMeansPinned, Pinned
  <2>2. QED
    BY <2>1, ClusterKeepsSettled, WorkerKeepsSettled, OthersKeepSettled DEF Next
<1>3. Settled => AnnotatedMeansPinned
  BY DEF Settled
<1>4. Spec => []AnnotationWholeInv
  BY AnnotationInvariant DEF OneCopyAtATime
<1>5. QED
  BY <1>1, <1>2, <1>3, <1>4, IsolationInvariant, EntitlementInvariant, PTL DEF Spec
=============================================================================
