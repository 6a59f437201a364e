------------------------ MODULE ProcessStarter_proofs ------------------------
(***************************************************************************)
(* The proof that an application keeps the cpuset it was started on        *)
(* (AffinityKept).  The controller's invariants are those of               *)
(* CpusetEntitlement; a starter disturbs none of them, since all it does   *)
(* to the node is to end its own container.                                *)
(***************************************************************************)
EXTENDS ProcessStarter, CpusetEntitlement_proofs

NodeInv == IsolationInv /\ EntitlementInv /\ DirsLatest /\ CopiesBehind

\* The end of a container, whatever incarnation it is.
Leaves(d) == RemoveDirs({d}) /\ UNCHANGED <<apiVars, inc, checkpoint, procVars, faults, crashes>>

-----------------------------------------------------------------------------
(* Steps keep the node's invariants.                                        *)

LEMMA LeavingKeepsInv ==
  ASSUME NodeInv, NEW d, Leaves(d)
  PROVE  NodeInv'
<1> USE DEF NodeInv
<1>1. UNCHANGED <<phase, status, annotated, inc, checkpoint, up, known, queue, worker, rec, faults, crashes>>
  BY DEF Leaves, apiVars, procVars
<1>2. /\ dirs' = dirs \ {d} /\ cpus' \in [Dirs -> SUBSET CPU]
      /\ \A x \in dirs' : cpus'[x] = cpus[x]
  BY DEF Leaves, RemoveDirs, IsolationInv, TypeOK
<1>3. \A p, i : Reach(p, i)' = Reach(p, i)
  BY <1>1 DEF Reach
<1>4. IsolationInv'
  <2>1. TypeOK'
    BY <1>1, <1>2 DEF IsolationInv, TypeOK
  <2>2. AllocationsSound' /\ DirsLive'
    BY <1>1, <1>2 DEF IsolationInv, AllocationsSound, LiveEntries, Ended, DirsLive
  <2>3. SetsWithinReach' /\ PendingWithinReach'
    BY <1>1, <1>2, <1>3 DEF IsolationInv, SetsWithinReach, PendingWithinReach, Ended
  <2>4. QED
    BY <2>1, <2>2, <2>3 DEF IsolationInv
<1>5. EntitlementInv'
  <2>1. EntriesRequested'
    BY <1>1 DEF EntitlementInv, EntriesRequested
  <2>2. CopiesAdmitted' /\ PendingEntitled'
    BY <1>1, NothingElseMoves DEF EntitlementInv, CopiesAdmitted, PendingEntitled
  <2>3. WithinEntitlement'
    BY <1>1, <1>2, NothingElseMoves DEF EntitlementInv, WithinEntitlement, Pinned
  <2>4. QED
    BY <2>1, <2>2, <2>3 DEF EntitlementInv
<1>6. DirsLatest' /\ CopiesBehind'
  BY <1>1, <1>2 DEF DirsLatest, CopiesBehind, Behind, Working
<1>7. QED
  BY <1>4, <1>5, <1>6

LEMMA NextKeepsInv ==
  ASSUME NodeInv, [Next]_vars
  PROVE  NodeInv'
<1> USE DEF NodeInv
<1>1. IsolationInv' /\ EntitlementInv'
  BY IsolationKept, EntitlementKept
<1>2. CASE Next
  <2>1. DirsLatest'
    BY <1>2, LatestKept
  <2>2. CopiesBehind'
    BY <1>2, ClusterKeepsCopies, ControllerKeepsCopies DEF Next
  <2>3. QED
    BY <1>1, <2>1, <2>2
<1>3. CASE UNCHANGED vars
  <2>1. UNCHANGED <<status, inc, dirs, queue, worker>>
    BY <1>3 DEF vars, apiVars, nodeVars, procVars
  <2>2. QED
    BY <1>1, <2>1 DEF DirsLatest, CopiesBehind, Behind, Working
<1>4. QED
  BY <1>2, <1>3

\* What a poll does: it only waits, or it starts the application, or it ends the
\* container.
LEMMA PollDoes ==
  ASSUME NEW d \in StarterDirs, Poll(d)
  PROVE  /\ d \in dirs \ started
         /\ \/ UNCHANGED vars /\ started' = started
            \/ UNCHANGED vars /\ started' = started \cup {d} /\ CpusAreRight(d)
            \/ Leaves(d) /\ started' = started
  BY DEF Poll, StartApplication, Wait, GiveUp, Leaves

-----------------------------------------------------------------------------
(* What a starter waits for, and what the controller computes.              *)

\* The environment does not change while the allocation does not.
LEMMA ExpectedStays ==
  ASSUME NEW d, \A x : x.pod = d[1] => (x \in checkpoint' <=> x \in checkpoint)
  PROVE  Expected(d)' = Expected(d)
<1>1. \A n : AllocatedDevices(checkpoint', d[1], d[2], n) = AllocatedDevices(checkpoint, d[1], d[2], n)
  BY DEF AllocatedDevices
<1>2. EnvironmentOf(PoolConfig, HTMap, checkpoint', d[1], d[2], Requested(d[1], d[2]))
        = EnvironmentOf(PoolConfig, HTMap, checkpoint, d[1], d[2], Requested(d[1], d[2]))
  BY <1>1 DEF EnvironmentOf
<1>3. QED
  BY <1>2 DEF Expected

\* A container that was given CPUs waits for the set it is entitled to.
LEMMA ExpectedIsEntitled ==
  ASSUME NodeInv, NEW d \in StarterDirs, Expected(d) # {}
  PROVE  Expected(d) = Entitled(d[1], d[2])
<1> DEFINE p == d[1]
           i == d[2]
           s == SharedPart(PoolConfig, Requested(p, i))
           e == ExclusivePart(PoolConfig, HTMap, checkpoint, p, i, Requested(p, i))
<1>1. p \in Pods /\ i \in Containers(p)
  BY NameOfDir DEF StarterDirs
<1> HIDE DEF p, i
<1>2. Expected(d) = s \cup e
  BY ExpectedIsOwn DEF Expected, p, i
<1>3. e = ExclusiveCpus(p, i)
  BY <1>1, ExclusivePartIs DEF NodeInv, IsolationInv, EntitlementInv
<1>4. s = IF \E n \in Requested(p, i) : DeterminePoolType(n) = SharedPoolID THEN SharedCpus ELSE {}
  BY PoolCpusOfType DEF SharedPart, SharedCpus
<1>5. QED
  BY <1>2, <1>3, <1>4 DEF Entitled, p, i

-----------------------------------------------------------------------------
(* Steps keep what the starters saw.                                        *)

\* A directory whose starter has started the application, as StarterInv has it.
Runs(d) ==
  /\ Expected(d) # {}
  /\ cpus[d] = Expected(d) \/ (d[3] > 1 /\ cpus[d] = DefaultCpus)

LEMMA ClusterKeepsRunning ==
  ASSUME NodeInv, StarterInv, ClusterStep, NEW d \in started, d \in dirs'
  PROVE  d \in dirs /\ Runs(d)'
<1> USE DEF NodeInv
<1> DEFINE p == d[1]
           i == d[2]
<1>1. d \in Dirs /\ d[2] # 0 /\ d[3] <= inc[p][i]
  BY DEF StarterInv, StarterDirs
<1>2. p \in Pods /\ i \in Containers(p)
  BY <1>1, NameOfDir
<1>3. d \in dirs /\ cpus'[d] = cpus[d]
  <2>1. inc[p][i] \in Nat
    BY <1>2, IncGrows
  <2>2. ~Started(d)
    BY <1>1, <2>1 DEF Started
  <2>3. QED
    BY <1>1, <2>2, ClusterCreates DEF Infra
<1>4. Admitted(p) /\ ~Ended(p)'
  <2>1. IsolationInv'
    BY ClusterKeepsInv
  <2>2. QED
    BY <1>3, <2>1 DEF IsolationInv, DirsLive, Admitted, Ended
<1>5. Expected(d)' = Expected(d)
  BY <1>2, <1>4, AllocationStays, ExpectedStays
<1>6. QED
  BY <1>3, <1>5, NothingElseMoves DEF StarterInv, Runs, DefaultCpus, PoolCpus

LEMMA ControllerKeepsRunning ==
  ASSUME NodeInv, StarterInv, ControllerStep, NEW d \in started, d \in dirs'
  PROVE  d \in dirs /\ Runs(d)'
<1> USE DEF NodeInv
<1>1. d \in StarterDirs /\ d \in dirs /\ UNCHANGED checkpoint
  BY ControllerFrame DEF StarterInv
<1>2. Expected(d)' = Expected(d) /\ DefaultCpus' = DefaultCpus
  BY <1>1, ExpectedStays DEF DefaultCpus, PoolCpus
<1>3. Runs(d) /\ Entitled(d[1], d[2]) = Expected(d)
  BY <1>1, ExpectedIsEntitled DEF StarterInv, Runs
<1>4. Entitled(d[1], d[2])' = Entitled(d[1], d[2])
  BY <1>1, EntitledOf
<1>5. ASSUME NEW w \in Workers, WorkerStep(w), cpus'[d] # cpus[d]
      PROVE  cpus'[d] = Expected(d) \/ (d[3] > 1 /\ cpus'[d] = DefaultCpus)
  <2> DEFINE r == worker[w]
             x == CopyDir(r, r.cont)
  <2>1. TypeOK /\ cpus \in [Dirs -> SUBSET CPU]
    BY DEF IsolationInv, TypeOK
  <2>2. CASE r.pc = "apply" /\ x \in dirs /\ cpus' = [cpus EXCEPT ![x] = r.set]
    <3>1. d = x /\ cpus'[d] = r.set
      BY <1>5, <2>1, <2>2 DEF TypeOK
    <3>2. r.set = Entitled(r.pod, r.cont)
      BY <2>2, ApplySets
    <3>3. d[1] = r.pod /\ d[2] = r.cont
      BY <3>1 DEF CopyDir
    <3>4. QED
      BY <1>3, <3>1, <3>2, <3>3
  <2>3. ASSUME r.pc = "infra", NEW c \in InfraCandidates(r), cpus' = [cpus EXCEPT ![c] = DefaultCpus]
        PROVE  d[3] > 1 /\ cpus'[d] = DefaultCpus
    <3>1. d = c /\ cpus'[d] = DefaultCpus
      BY <1>5, <1>1, <2>1, <2>3 DEF TypeOK
    <3>2. d[3] > 1
      BY <1>1, <2>3, <3>1, CandidatesRestarted DEF StarterDirs
    <3>3. QED
      BY <3>1, <3>2
  <2>4. QED
    BY <1>5, <2>1, <2>2, <2>3, WorkerWritesWhat
<1>6. ASSUME RecStep, cpus'[d] # cpus[d]
      PROVE  cpus'[d] = Expected(d)
  BY <1>1, <1>3, <1>4, <1>6, RecWritesWhat
<1>7. CASE cpus'[d] = cpus[d]
  BY <1>1, <1>2, <1>3, <1>7 DEF Runs
<1>8. CASE cpus'[d] # cpus[d]
  <2>1. (\E w \in Workers : WorkerStep(w)) \/ RecStep
    BY <1>8 DEF ControllerStep, PodAdded, Crash, Run, nodeVars
  <2>2. QED
    BY <1>1, <1>2, <1>3, <1>5, <1>6, <1>8, <2>1 DEF Runs
<1>9. QED
  BY <1>7, <1>8

\* Incarnations only follow one another, whoever moves.
LEMMA NextIncGrows ==
  ASSUME NodeInv, Next, NEW p \in Pods, NEW i \in Containers(p), NEW k \in Nat, k <= inc[p][i]
  PROVE  k <= inc'[p][i]
<1>1. CASE ClusterStep
  <2>1. inc[p][i] \in Nat /\ inc'[p][i] \in Nat /\ inc[p][i] <= inc'[p][i]
    BY <1>1, IncGrows DEF NodeInv
  <2>2. QED
    BY <2>1
<1>2. CASE ControllerStep
  BY <1>2, ControllerFrame DEF NodeInv
<1>3. QED
  BY <1>1, <1>2 DEF Next

LEMMA AroundKeepsStarters ==
  ASSUME NodeInv, StarterInv, Next, UNCHANGED started
  PROVE  StarterInv'
<1> SUFFICES ASSUME NEW d \in started
             PROVE  /\ d \in StarterDirs
                    /\ d[3] <= inc'[d[1]][d[2]]
                    /\ d \in dirs' => Runs(d)'
  BY DEF StarterInv, Runs, StarterDirs
<1>1. d \in StarterDirs /\ d[3] <= inc[d[1]][d[2]]
  BY DEF StarterInv
<1>2. d[1] \in Pods /\ d[2] \in Containers(d[1]) /\ d[3] \in Nat
  BY <1>1, NameOfDir DEF StarterDirs, Incarnations
<1>3. d[3] <= inc'[d[1]][d[2]]
  BY <1>1, <1>2, NextIncGrows
<1>4. d \in dirs' => Runs(d)'
  BY ClusterKeepsRunning, ControllerKeepsRunning DEF Next
<1>5. QED
  BY <1>1, <1>3, <1>4

LEMMA PollKeepsStarters ==
  ASSUME NodeInv, StarterInv, NEW d \in StarterDirs, Poll(d)
  PROVE  StarterInv'
<1>1. CASE UNCHANGED vars
  <2>1. UNCHANGED <<inc, dirs, cpus, checkpoint>>
    BY <1>1 DEF vars, nodeVars
  <2>2. \A x : Expected(x)' = Expected(x) /\ (x \in StarterDirs' <=> x \in StarterDirs)
    BY <2>1, ExpectedStays DEF StarterDirs
  <2>3. DefaultCpus' = DefaultCpus
    BY DEF DefaultCpus, PoolCpus
  <2>4. ASSUME CpusAreRight(d)
        PROVE  d[3] <= inc[d[1]][d[2]] /\ Runs(d)
    <3>1. d \in dirs /\ d[2] # 0
      BY PollDoes DEF StarterDirs
    <3>2. d[3] = inc[d[1]][d[2]] /\ d[3] \in Nat
      BY <3>1, NameOfDir DEF NodeInv, DirsLatest, StarterDirs, Incarnations
    <3>3. QED
      BY <2>4, <3>2 DEF CpusAreRight, Runs
  <2>5. started' = started \/ (started' = started \cup {d} /\ CpusAreRight(d))
    <3>1. ASSUME Leaves(d), d \in dirs
          PROVE  FALSE
      BY <2>1, <3>1 DEF Leaves, RemoveDirs
    <3>2. QED
      BY <3>1, PollDoes
  <2>6. QED
    BY <2>1, <2>2, <2>3, <2>4, <2>5 DEF StarterInv, Runs
<1>2. CASE Leaves(d) /\ started' = started
  <2>1. UNCHANGED <<inc, checkpoint>> /\ dirs' = dirs \ {d}
    BY <1>2 DEF Leaves, RemoveDirs
  <2>2. \A x \in dirs' : cpus'[x] = cpus[x]
    BY <1>2 DEF Leaves, RemoveDirs, NodeInv, IsolationInv, TypeOK
  <2>3. \A x : Expected(x)' = Expected(x) /\ (x \in StarterDirs' <=> x \in StarterDirs)
    BY <2>1, ExpectedStays DEF StarterDirs
  <2>4. DefaultCpus' = DefaultCpus
    BY DEF DefaultCpus, PoolCpus
  <2>5. QED
    BY <1>2, <2>1, <2>2, <2>3, <2>4 DEF StarterInv
<1>3. QED
  BY <1>1, <1>2, PollDoes

-----------------------------------------------------------------------------
\* The invariants of the node and of the starters are kept together.
THEOREM StarterInvariant == SpecWithStarters => [](NodeInv /\ StarterInv)
<1>1. InitStarters => NodeInv /\ StarterInv
  <2> SUFFICES ASSUME InitStarters
               PROVE  NodeInv /\ StarterInv
    OBVIOUS
  <2>1. Init /\ started = {}
    BY DEF InitStarters
  <2>2. IsolationInv /\ EntitlementInv
    BY <2>1, IsolationAtFirst, EntitlementAtFirst
  <2>3. DirsLatest /\ CopiesBehind
    <3>1. /\ dirs = {} /\ queue = <<>> /\ worker = [w \in Workers |-> Idle]
          /\ status = [p \in Pods |-> NotReported(p)] /\ inc = status
      BY <2>1 DEF Init
    <3>2. \A p \in Pods : Behind(status[p], p)
      BY <3>1 DEF Behind, NotReported
    <3>3. QED
      BY <3>1, <3>2, IdleFields DEF DirsLatest, CopiesBehind
  <2>4. QED
    BY <2>1, <2>2, <2>3 DEF NodeInv, StarterInv
<1>2. NodeInv /\ StarterInv /\ [NextWithStarters]_allVars => (NodeInv /\ StarterInv)'
  <2> SUFFICES ASSUME NodeInv, StarterInv, [NextWithStarters]_allVars
               PROVE  NodeInv' /\ StarterInv'
    OBVIOUS
  <2>1. CASE AroundStarters
    BY <2>1, NextKeepsInv, AroundKeepsStarters DEF AroundStarters
  <2>2. ASSUME NEW d \in StarterDirs, Poll(d)
        PROVE  NodeInv' /\ StarterInv'
    BY <2>2, PollDoes, NextKeepsInv, LeavingKeepsInv, PollKeepsStarters
  <2>3. CASE UNCHANGED allVars
    <3>1. UNCHANGED vars /\ UNCHANGED started
      BY <2>3 DEF allVars, starterVars
    <3>2. UNCHANGED <<inc, dirs, cpus, checkpoint>>
      BY <3>1 DEF vars, nodeVars
    <3>3. \A x : Expected(x)' = Expected(x) /\ (x \in StarterDirs' <=> x \in StarterDirs)
      BY <3>2, ExpectedStays DEF StarterDirs
    <3>4. DefaultCpus' = DefaultCpus
      BY DEF DefaultCpus, PoolCpus
    <3>5. StarterInv'
      BY <3>1, <3>2, <3>3, <3>4 DEF StarterInv
    <3>6. QED
      BY <3>1, <3>5, NextKeepsInv
  <2>4. QED
    BY <2>1, <2>2, <2>3 DEF NextWithStarters
<1>3. QED
  BY <1>1, <1>2, PTL DEF SpecWithStarters

\* What is proved of the controller alone holds beside any number of starters that
\* end their containers at any time: CPUs given exclusively stay exclusive, and no
\* cpuset is another container's.
THEOREM NodeWithStarters == SpecWithStarters => [](ExclusiveIsolation /\ WithinEntitlement)
<1>1. NodeInv => ExclusiveIsolation /\ WithinEntitlement
  BY InvImpliesIsolation DEF NodeInv, EntitlementInv
<1>2. QED
  BY <1>1, StarterInvariant, PTL

\* For any number of Pods, containers, workers, polls and restarts, however names
\* are reused and whatever fails or dies: from the moment its starter starts it, an
\* application runs on its own cpuset; or, in a container that had been restarted,
\* on the default pool.
THEOREM Affinity == SpecWithStarters => []AffinityKept
<1>1. StarterInv => AffinityKept
  BY DEF StarterInv, AffinityKept
<1>2. QED
  BY <1>1, StarterInvariant, PTL
=============================================================================
