---------------------- MODULE CpusetRefinement_proofs ----------------------
(***************************************************************************)
(* The proof that the controller implements CpusetPromise.                 *)
(***************************************************************************)
EXTENDS CpusetRefinement, CpusetEntitlement_proofs

-----------------------------------------------------------------------------
(* Sandboxes.                                                               *)

LEMMA SandboxesKept ==
  ASSUME IsolationInv, EntitlementInv, Sandboxes, Next
  PROVE  Sandboxes'
<1> USE DEF IsolationInv
<1>1. CASE ControllerStep
  BY <1>1, ControllerFrame DEF Sandboxes
<1>2. CASE ClusterStep
  <2>1. PICK p \in Pods :
          \/ CreatePod(p)
          \/ BindPod(p)
          \/ \E i \in Containers(p) : StartContainer(p, i) \/ ExitContainer(p, i)
          \/ ReportStatus(p)
          \/ \E to \in {"finished", "deleted"} : EndPod(p, to)
    BY <1>2 DEF ClusterStep
  <2>2. DOMAIN phase = Pods /\ LocalPods \subseteq Pods /\ dirs \subseteq Dirs
    BY ConstantsAssumption DEF TypeOK
  <2>3. CASE CreatePod(p) \/ ReportStatus(p)
    BY <2>2, <2>3 DEF CreatePod, ReportStatus, nodeVars, Sandboxes
  <2>4. CASE BindPod(p)
    BY <2>2, <2>4 DEF BindPod, Sandboxes, Infra
  <2>5. ASSUME NEW i \in Containers(p), StartContainer(p, i)
        PROVE  Sandboxes'
    BY <2>5 DEF StartContainer, Sandboxes, apiVars
  <2>6. ASSUME NEW i \in Containers(p), ExitContainer(p, i)
        PROVE  Sandboxes'
    <3>1. \A q : Infra(q) # <<p, i, inc[p][i]>>
      BY ContainerType DEF Infra
    <3>2. QED
      BY <2>6, <3>1 DEF ExitContainer, RemoveDirs, Sandboxes, apiVars
  <2>7. ASSUME NEW to \in {"finished", "deleted"}, EndPod(p, to)
        PROVE  Sandboxes'
    <3>1. \A q \in Pods : Infra(q) \in PodDirs(p) => q = p
      BY DEF PodDirs, Infra
    <3>2. QED
      BY <2>2, <2>7, <3>1 DEF EndPod, RemoveDirs, Sandboxes
  <2>8. QED
    BY <2>1, <2>3, <2>4, <2>5, <2>6, <2>7
<1>3. QED
  BY <1>1, <1>2 DEF Next

LEMMA SandboxesInvariant == Spec => []Sandboxes
<1>1. Init => Sandboxes
  BY ConstantsAssumption DEF Init, Sandboxes
<1>2. IsolationInv /\ EntitlementInv /\ Sandboxes /\ [Next]_vars => Sandboxes'
  <2>1. Sandboxes /\ UNCHANGED vars => Sandboxes'
    BY DEF vars, apiVars, nodeVars, Sandboxes
  <2>2. QED
    BY <2>1, SandboxesKept
<1>3. QED
  BY <1>1, <1>2, IsolationInvariant, EntitlementInvariant, PTL DEF Spec

-----------------------------------------------------------------------------
(* The gifts.                                                               *)

LEMMA DefaultIsCommon == DefaultCpus \subseteq CommonCpus
  BY DefaultSet DEF DefaultSets, CommonCpus

\* Whatever the controller gives is not what a cgroup starts with.
LEMMA GivenIsNotInherited ==
  ASSUME TypeOK, NEW p, NEW i
  PROVE  Entitled(p, i) # Inherited /\ DefaultCpus # Inherited
<1> SUFFICES ASSUME Entitled(p, i) # DefaultCpus
             PROVE  Entitled(p, i) # Inherited
  BY InheritedAssumption
<1>1. PICK x \in DefaultCpus : TRUE
  BY DefaultPoolAssumption
<1>2. x \in Inherited /\ x \notin SharedCpus
  BY InheritedAssumption
<1>3. ASSUME NEW e \in checkpoint
      PROVE  x \notin Expanded(e)
  <2>1. e.pool \in ExclusivePools /\ e.devices \subseteq PoolConfig[e.pool].cpus
    BY DEF TypeOK, Allocated, ExclusivePools
  <2>2. Expanded(e) \subseteq ThreadsOf(e.devices)
    BY ThreadsContain DEF Expanded, ThreadsOf
  <2>3. Expanded(e) \subseteq ThreadsOf(PoolConfig[e.pool].cpus)
    BY <2>1, <2>2, ThreadsMonotone
  <2>4. QED
    BY <2>1, <2>3, DefaultIsCommon, IsolationAssumption
<1>4. x \notin Entitled(p, i)
  BY <1>2, <1>3 DEF Entitled, ExclusiveCpus
<1>5. QED
  BY <1>2, <1>4

LEMMA GivenBar ==
  /\ DOMAIN givenBar = Dirs /\ DOMAIN givenBar' = Dirs
  /\ \A d \in Dirs : givenBar[d] = Given(d) /\ givenBar'[d] = Given(d)'
  BY DEF givenBar

\* What a directory has, in the words of the promise.
LEMMA Gifts ==
  ASSUME IsolationInv, EntitlementInv, NEW d \in Dirs
  PROVE  /\ Given(d) \in {"none", "inherited", "own", "default"}
         /\ Given(d) = "none" <=> d \notin dirs
         /\ Given(d) = "inherited" <=> d \in dirs /\ cpus[d] = Inherited
         /\ Given(d) = "own" <=> Pinned(d)
         /\ d \in dirs /\ cpus[d] = DefaultCpus => Given(d) \in {"own", "default"}
<1>1. \A p, i : Entitled(p, i) # Inherited /\ DefaultCpus # Inherited
  BY GivenIsNotInherited DEF IsolationInv
<1>2. QED
  BY <1>1 DEF Given, Pinned, EntitlementInv, WithinEntitlement

\* A directory that is left alone keeps what it has.
LEMMA GiftStays ==
  ASSUME NEW d \in Dirs, d \in dirs' <=> d \in dirs, d \in dirs => cpus'[d] = cpus[d],
         d \in dirs => Entitled(d[1], d[2])' = Entitled(d[1], d[2])
  PROVE  givenBar'[d] = givenBar[d]
<1>1. DefaultCpus' = DefaultCpus
  BY DEF DefaultCpus, PoolCpus
<1>2. Given(d)' = Given(d)
  BY <1>1 DEF Given
<1>3. QED
  BY <1>2, GivenBar

-----------------------------------------------------------------------------
(* Every step is one of the promise.                                        *)

\* The step of the promise in which one cgroup gets something.
LEMMA OneGift ==
  ASSUME NEW x \in Dirs, UNCHANGED annotated,
         \A c \in Dirs \ {x} : givenBar'[c] = givenBar[c],
         \/ givenBar'[x] = givenBar[x]
         \/ givenBar[x] = "none" /\ givenBar'[x] = "inherited"
         \/ givenBar[x] \in {"inherited", "default"} /\ x[2] # 0 /\ givenBar'[x] = "own"
         \/ givenBar[x] \in {"inherited", "own"} /\ (x[2] = 0 \/ x[3] > 1) /\ givenBar'[x] = "default"
  PROVE  [Promise!Next]_(Promise!vars)
<1>1. DOMAIN givenBar = Dirs /\ DOMAIN givenBar' = Dirs
  BY GivenBar
<1>2. CASE givenBar'[x] = givenBar[x]
  <2>1. givenBar' = givenBar
    BY <1>2 DEF givenBar
  <2>2. QED
    BY <2>1 DEF Promise!vars
<1>3. CASE givenBar'[x] # givenBar[x]
  <2>1. Promise!Create(x) \/ Promise!Provide(x) \/ Promise!Default(x)
    BY <1>1, <1>3 DEF Promise!Create, Promise!Provide, Promise!Default, Promise!Give
  <2>2. QED
    BY <1>3, <2>1 DEF Promise!Next
<1>4. QED
  BY <1>2, <1>3

LEMMA NoGift ==
  ASSUME UNCHANGED annotated, \A c \in Dirs : givenBar'[c] = givenBar[c]
  PROVE  UNCHANGED Promise!vars
<1>1. givenBar' = givenBar
  BY DEF givenBar
<1>2. QED
  BY <1>1 DEF Promise!vars

\* The container runtime creates a cgroup.
LEMMA CreateGives ==
  ASSUME IsolationInv, ClusterStep, NEW x \in Dirs, x \notin dirs, UNCHANGED annotated,
         dirs' = dirs \cup {x}, cpus' = [cpus EXCEPT ![x] = Inherited],
         \A c \in dirs : phase'[c[1]] = "bound"
  PROVE  [Promise!Next]_(Promise!vars)
<1> USE DEF IsolationInv
<1>1. givenBar[x] = "none" /\ givenBar'[x] = "inherited"
  BY GivenBar DEF TypeOK, Given
<1>2. ASSUME NEW c \in Dirs \ {x}
      PROVE  givenBar'[c] = givenBar[c]
  <2>1. c \in dirs' <=> c \in dirs
    OBVIOUS
  <2>2. cpus'[c] = cpus[c]
    BY DEF TypeOK
  <2>3. c \in dirs => Entitled(c[1], c[2])' = Entitled(c[1], c[2])
    BY DirOfPod, AdmittedStays DEF DirsLive, Admitted, Ended
  <2>4. QED
    BY <2>1, <2>2, <2>3, GiftStays
<1>3. QED
  BY <1>1, <1>2, OneGift

\* It removes one, or all of a Pod's.
LEMMA RemoveGives ==
  ASSUME IsolationInv, NEW ds, RemoveDirs(ds), NEW x \in dirs, UNCHANGED <<checkpoint, annotated>>,
         \A c \in Dirs : c \in dirs => (c \in ds <=> c = x \/ (x[2] = 0 /\ c[1] = x[1]))
  PROVE  [Promise!Next]_(Promise!vars)
<1> USE DEF IsolationInv
<1>1. x \in Dirs /\ givenBar[x] # "none"
  BY GivenBar DEF TypeOK, Given
<1>2. ASSUME NEW c \in Dirs
      PROVE  givenBar'[c] = IF c = x \/ (x[2] = 0 /\ c[1] = x[1]) THEN "none" ELSE givenBar[c]
  <2>1. CASE c \in dirs /\ (c = x \/ (x[2] = 0 /\ c[1] = x[1]))
    BY <2>1, GivenBar DEF RemoveDirs, Given
  <2>2. CASE c \notin dirs
    BY <2>2, GivenBar DEF RemoveDirs, Given
  <2>3. CASE c \in dirs /\ ~ (c = x \/ (x[2] = 0 /\ c[1] = x[1]))
    <3>1. c \in dirs' /\ cpus'[c] = cpus[c]
      BY <2>3 DEF RemoveDirs
    <3>2. Entitled(c[1], c[2])' = Entitled(c[1], c[2])
      BY EntitledOf
    <3>3. QED
      BY <2>3, <3>1, <3>2, GiftStays
  <2>4. QED
    BY <2>1, <2>2, <2>3
<1>3. givenBar'[x] # givenBar[x]
  BY <1>1, <1>2
<1>4. Promise!Remove(x)
  BY <1>1, <1>2, GivenBar DEF Promise!Remove
<1>5. QED
  BY <1>1, <1>3, <1>4 DEF Promise!Next

LEMMA ClusterImplements ==
  ASSUME IsolationInv, AnnotationInv, Sandboxes, ClusterStep
  PROVE  [Promise!Next]_(Promise!vars)
<1> USE DEF IsolationInv
<1>1. PICK p \in Pods :
        \/ CreatePod(p)
        \/ BindPod(p)
        \/ \E i \in Containers(p) : StartContainer(p, i) \/ ExitContainer(p, i)
        \/ ReportStatus(p)
        \/ \E to \in {"finished", "deleted"} : EndPod(p, to)
  BY DEF ClusterStep
<1>2. dirs \subseteq Dirs /\ DOMAIN phase = Pods
  BY DEF TypeOK
<1>3. ASSUME UNCHANGED <<dirs, cpus, checkpoint, annotated>>
      PROVE  [Promise!Next]_(Promise!vars)
  BY <1>3, EntitledOf, GiftStays, NoGift
<1>4. CASE CreatePod(p) \/ ReportStatus(p)
  BY <1>3, <1>4 DEF CreatePod, ReportStatus, nodeVars
<1>5. CASE BindPod(p)
  <2>1. CASE p \notin LocalPods
    BY <1>3, <1>5, <2>1 DEF BindPod
  <2>2. CASE p \in LocalPods
    <3>1. Infra(p)[1] = p /\ Infra(p) \in Dirs
      BY DirType DEF Infra
    <3>2. Infra(p) \notin dirs
      BY <1>5, <3>1 DEF BindPod, DirsLive
    <3>3. \A c \in dirs : phase'[c[1]] = "bound"
      BY <1>2, <1>5, DirOfPod DEF BindPod, DirsLive
    <3>4. QED
      BY <1>5, <2>2, <3>1, <3>2, <3>3, CreateGives DEF BindPod
  <2>3. QED
    BY <2>1, <2>2
<1>6. ASSUME NEW i \in Containers(p), StartContainer(p, i)
      PROVE  [Promise!Next]_(Promise!vars)
  <2> DEFINE x == <<p, i, inc[p][i] + 1>>
  <2>1. UNCHANGED <<phase, annotated, checkpoint>>
    BY <1>6 DEF StartContainer, apiVars
  <2>2. CASE p \notin LocalPods
    BY <1>3, <1>6, <2>1, <2>2 DEF StartContainer
  <2>3. CASE p \in LocalPods
    <3>1. inc[p][i] \in Nat /\ inc[p][i] <= MaxRestarts /\ i # 0
      BY <1>6, ConstantsAssumption, ContainerType DEF StartContainer, TypeOK, Statuses
    <3>2. x \in Dirs
      BY <3>1, DirType, ConstantsAssumption DEF Incarnations
    <3>3. x \notin dirs
      BY <3>1 DEF AnnotationInv, DirsLatest
    <3>4. QED
      BY <1>6, <2>1, <2>3, <3>2, <3>3, CreateGives DEF StartContainer, DirsLive
  <2>4. QED
    BY <2>2, <2>3
<1>7. ASSUME NEW i \in Containers(p), ExitContainer(p, i)
      PROVE  [Promise!Next]_(Promise!vars)
  <2> DEFINE x == <<p, i, inc[p][i]>>
  <2>1. x \in dirs /\ x[2] # 0 /\ RemoveDirs({x}) /\ UNCHANGED <<checkpoint, annotated>>
    BY <1>7, ContainerType DEF ExitContainer, apiVars
  <2> HIDE DEF x
  <2>2. QED
    BY <2>1, RemoveGives
<1>8. ASSUME NEW to \in {"finished", "deleted"}, EndPod(p, to)
      PROVE  [Promise!Next]_(Promise!vars)
  <2>1. RemoveDirs(PodDirs(p)) /\ UNCHANGED <<checkpoint, annotated>>
    BY <1>8 DEF EndPod
  <2>2. \A c \in Dirs : c \in PodDirs(p) <=> c[1] = p
    BY DirOfPod DEF PodDirs, Infra
  <2>3. CASE \A c \in dirs : c[1] # p
    <3>1. dirs' = dirs /\ \A c \in dirs : cpus'[c] = cpus[c]
      BY <1>2, <2>1, <2>2, <2>3 DEF RemoveDirs
    <3>2. QED
      BY <2>1, <3>1, EntitledOf, GiftStays, NoGift
  <2>4. CASE \E c \in dirs : c[1] = p
    <3> DEFINE x == Infra(p)
    <3>1. x \in dirs
      BY <2>4 DEF Sandboxes, DirsLive
    <3>2. x[1] = p /\ x[2] = 0
      BY DEF Infra
    <3> HIDE DEF x
    <3>3. QED
      BY <2>1, <2>2, <3>1, <3>2, RemoveGives
  <2>5. QED
    BY <2>3, <2>4
<1>9. QED
  BY <1>1, <1>4, <1>5, <1>6, <1>7, <1>8

\* A worker or the reconciler writes one cpuset.
LEMMA WriteGives ==
  ASSUME IsolationInv, EntitlementInv, UNCHANGED <<phase, dirs, checkpoint, annotated>>, NEW x \in dirs,
         \A c \in Dirs \ {x} : cpus'[c] = cpus[c],
         \/ cpus'[x] = cpus[x]
         \/ x[2] # 0 /\ cpus'[x] = Entitled(x[1], x[2])
         \/ cpus'[x] = DefaultCpus /\ (x[2] = 0 \/ x[3] > 1)
  PROVE  [Promise!Next]_(Promise!vars)
<1> USE DEF IsolationInv
<1>1. x \in Dirs
  BY DEF TypeOK
<1>2. \A c \in Dirs \ {x} : givenBar'[c] = givenBar[c]
  BY EntitledOf, GiftStays
<1>3. givenBar[x] \in {"inherited", "own", "default"} /\ (givenBar[x] = "own" <=> Pinned(x))
  BY <1>1, Gifts, GivenBar
<1>4. Entitled(x[1], x[2])' = Entitled(x[1], x[2]) /\ DefaultCpus' = DefaultCpus
  BY NothingElseMoves
<1>5. Entitled(x[1], x[2]) # Inherited /\ DefaultCpus # Inherited
  BY GivenIsNotInherited
<1>6. CASE cpus'[x] = cpus[x]
  <2>1. givenBar'[x] = givenBar[x]
    BY <1>1, <1>4, <1>6, GiftStays
  <2>2. QED
    BY <1>1, <1>2, <2>1, OneGift
<1>7. CASE x[2] # 0 /\ cpus'[x] = Entitled(x[1], x[2])
  <2>1. givenBar'[x] = "own"
    BY <1>1, <1>4, <1>5, <1>7, GivenBar DEF Given
  <2>2. QED
    BY <1>1, <1>2, <1>3, <1>7, <2>1, OneGift
<1>8. CASE cpus'[x] = DefaultCpus /\ (x[2] = 0 \/ x[3] > 1) /\ ~ (x[2] # 0 /\ cpus'[x] = Entitled(x[1], x[2]))
  <2>1. givenBar'[x] = "default"
    BY <1>1, <1>4, <1>5, <1>8, GivenBar DEF Given
  <2>2. QED
    BY <1>1, <1>2, <1>3, <1>8, <2>1, OneGift
<1>9. QED
  BY <1>6, <1>7, <1>8

LEMMA AnnotateGives ==
  ASSUME NoNameReused, IsolationInv, EntitlementInv, AnnotationInv, NEW w \in Workers, WorkerAnnotate(w)
  PROVE  [Promise!Next]_(Promise!vars)
<1> USE DEF IsolationInv
<1> DEFINE r == worker[w]
           p == r.pod
<1>1. r.pc = "annotate" /\ UNCHANGED <<phase, dirs, cpus, checkpoint>>
  BY DEF WorkerAnnotate, nodeVars
<1>2. r \in JobRecords /\ r \in Jobs /\ p \in Pods
  BY <1>1, BusyType DEF JobRecords
<1>3. givenBar' = givenBar
  <2>1. \A c \in Dirs : givenBar'[c] = givenBar[c]
    BY <1>1, EntitledOf, GiftStays
  <2>2. QED
    BY <2>1 DEF givenBar
<1>4. annotated' = annotated \/ annotated' = annotated \cup {p}
  BY <1>2, AnnotateMove DEF Refreshed, NoNameReused
<1>5. CASE annotated' = annotated
  BY <1>3, <1>5 DEF Promise!vars
<1>6. CASE annotated' = annotated \cup {p} /\ p \notin annotated
  <2>1. ASSUME NEW d \in Dirs, d[1] = p, d[2] # 0, d[3] = 1, d \in dirs
        PROVE  Pinned(d)
    <3> DEFINE i == d[2]
    <3>1. i \in Containers(p) /\ d = <<p, i, 1>>
      BY <2>1, NameOfDir
    <3>2. inc[p][i] = 1
      BY <2>1 DEF AnnotationInv, DirsLatest
    <3>3. r.status[i] # 0 /\ r.status[i] <= inc[p][i]
      BY <1>1, <3>1 DEF AnnotationInv, CopiesBehind, Behind, Working
    <3>4. r.status[i] \in Nat
      BY <1>2, <3>1, ConstantsAssumption DEF Jobs, Statuses
    <3>5. d = CopyDir(r, i)
      <4>1. r.status[i] = 1
        BY <3>2, <3>3, <3>4
      <4>2. QED
        BY <3>1, <4>1 DEF CopyDir
    <3>6. QED
      BY <1>1, <2>1, <3>1, <3>5 DEF AnnotationInv, DonePinned, Working, DoneWith
  <2>2. ASSUME NEW d \in Dirs, d[1] = p, d[2] # 0, d[3] = 1
        PROVE  givenBar[d] \in {"none", "own"}
    BY <2>1, <2>2, Gifts, GivenBar
  <2>3. p \in {d[1] : d \in Dirs}
    <3>1. Infra(p) \in Dirs /\ Infra(p)[1] = p
      BY <1>2, DirType DEF Infra
    <3>2. QED
      BY <3>1
  <2> HIDE DEF p
  <2>4. Promise!Annotate(p)
    BY <1>3, <1>6, <2>2 DEF Promise!Annotate
  <2>5. QED
    BY <2>3, <2>4 DEF Promise!Next
<1>7. QED
  BY <1>4, <1>5, <1>6

LEMMA ControllerImplements ==
  ASSUME NoNameReused, IsolationInv, EntitlementInv, AnnotationInv, ControllerStep
  PROVE  [Promise!Next]_(Promise!vars)
<1> USE DEF IsolationInv
<1>1. UNCHANGED <<phase, dirs, checkpoint>>
  BY ControllerFrame
<1>2. DOMAIN cpus = Dirs /\ dirs \subseteq Dirs
  BY DEF TypeOK
<1>3. ASSUME UNCHANGED <<cpus, annotated>>
      PROVE  [Promise!Next]_(Promise!vars)
  BY <1>1, <1>3, EntitledOf, GiftStays, NoGift
<1>4. ASSUME NEW w \in Workers, WorkerStep(w), annotated' = annotated
      PROVE  [Promise!Next]_(Promise!vars)
  <2> DEFINE r == worker[w]
             x == CopyDir(r, r.cont)
  <2>1. CASE UNCHANGED cpus
    BY <1>3, <1>4, <2>1
  <2>2. CASE r.pc = "apply" /\ x \in dirs /\ cpus' = [cpus EXCEPT ![x] = r.set]
    <3>1. x[1] = r.pod /\ x[2] = r.cont
      BY DEF CopyDir
    <3>2. cpus'[x] = Entitled(x[1], x[2]) /\ x[2] # 0
      BY <1>2, <2>2, <3>1, ApplySets
    <3>3. \A c \in Dirs \ {x} : cpus'[c] = cpus[c]
      BY <1>2, <2>2
    <3> HIDE DEF x
    <3>4. QED
      BY <1>1, <1>4, <2>2, <3>2, <3>3, WriteGives
  <2>3. ASSUME r.pc = "infra", NEW d \in InfraCandidates(r), cpus' = [cpus EXCEPT ![d] = DefaultCpus]
        PROVE  [Promise!Next]_(Promise!vars)
    <3>1. d \in dirs /\ (d[2] = 0 \/ d[3] > 1)
      BY <2>3, CandidatesRestarted DEF AnnotationInv
    <3>2. cpus'[d] = DefaultCpus /\ \A c \in Dirs \ {d} : cpus'[c] = cpus[c]
      BY <1>2, <2>3, <3>1
    <3>3. QED
      BY <1>1, <1>4, <3>1, <3>2, WriteGives
  <2>4. QED
    BY <1>4, <2>1, <2>2, <2>3, WorkerWritesWhat
<1>5. ASSUME NEW w \in Workers, WorkerStep(w), annotated' # annotated
      PROVE  WorkerAnnotate(w)
  BY <1>5, GetMove, RefreshType, DetermineMove, ApplyMove, InfraMove DEF WorkerStep
<1>6. CASE RecStep
  <2>1. CASE UNCHANGED cpus
    BY <1>3, <1>6, <2>1, RecMoves
  <2>2. CASE cpus' # cpus
    <3>1. RecWrite
      BY <1>6, <2>2 DEF RecStep, RecList, RecLeaves, RecRead, RecDetermine
    <3> DEFINE x == rec.dir
    <3>2. x \in dirs /\ cpus' = [cpus EXCEPT ![x] = rec.set]
      BY <2>2, <3>1 DEF RecWrite
    <3>3. \A c \in Dirs \ {x} : cpus'[c] = cpus[c]
      BY <1>2, <3>2
    <3>4. cpus'[x] = cpus[x] \/ (x[2] # 0 /\ cpus'[x] = Entitled(x[1], x[2]))
      BY <1>6, <3>2, RecWritesWhat
    <3>5. annotated' = annotated
      BY <1>6, RecMoves
    <3> HIDE DEF x
    <3>6. QED
      BY <1>1, <3>2, <3>3, <3>4, <3>5, WriteGives
  <2>3. QED
    BY <2>1, <2>2
<1>7. CASE (\E p \in Pods : PodAdded(p)) \/ Crash \/ Run
  BY <1>3, <1>7 DEF PodAdded, Crash, Run, apiVars, nodeVars
<1>8. QED
  BY <1>4, <1>5, <1>6, <1>7, AnnotateGives DEF ControllerStep

\* For any number of Pods, containers and workers, whatever fails, crashes or
\* restarts, if no Pod takes the name of a deleted one: every behaviour of the
\* controller and its cluster is one that CpusetPromise allows.
THEOREM Implements ==
  ASSUME NoNameReused
  PROVE  Spec => ImplementsPromise
<1>1. Init => Promise!Init
  <2> SUFFICES ASSUME Init
               PROVE  Promise!Init
    OBVIOUS
  <2>1. dirs = {} /\ annotated = {}
    BY DEF Init
  <2>2. givenBar = [d \in Dirs |-> "none"]
    BY <2>1 DEF givenBar, Given
  <2>3. QED
    BY <2>1, <2>2 DEF Promise!Init
<1>2. IsolationInv /\ EntitlementInv /\ AnnotationWholeInv /\ Sandboxes /\ [Next]_vars
        => [Promise!Next]_(Promise!vars)
  <2> SUFFICES ASSUME IsolationInv, EntitlementInv, AnnotationInv, Sandboxes, [Next]_vars
               PROVE  [Promise!Next]_(Promise!vars)
    BY DEF AnnotationWholeInv
  <2>1. CASE UNCHANGED vars
    <3>1. UNCHANGED <<dirs, cpus, checkpoint, annotated>>
      BY <2>1 DEF vars, apiVars, nodeVars
    <3>2. QED
      BY <3>1, EntitledOf, GiftStays, NoGift
  <2>2. QED
    BY <2>1, ClusterImplements, ControllerImplements DEF Next
<1>3. Spec => []AnnotationWholeInv
  BY AnnotationInvariant DEF OneCopyAtATime
<1>4. QED
  BY <1>1, <1>2, <1>3, IsolationInvariant, EntitlementInvariant, SandboxesInvariant, PTL
     DEF Spec, ImplementsPromise, Promise!Spec
=============================================================================
