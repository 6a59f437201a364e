--------------------------- MODULE DetermineCpuset ---------------------------
(***************************************************************************)
(* determineCorrectCpuset (pkg/controller/controller.go) step by step: one *)
(* pass over the map of a container's resource requests, in whatever order *)
(* Go yields its keys, with two local variables that every iteration may   *)
(* overwrite.  CpusetCalc gives the set of its results in closed form, as  *)
(* CpusetController uses it; here the loop is checked against that form,   *)
(* and against what the container is entitled to.                          *)
(***************************************************************************)
EXTENDS PoolNames

CONSTANT Inputs   \* the situations in which the function is called

VARIABLES
  input,      \* [conf, coreOf, checkpoint, pod, cont, requests]
  todo,       \* resource names the loop has not visited
  shared,     \* sharedCPUSet
  exclusive,  \* exclusiveCPUSet
  result      \* {} until the function returns, then {the cpuset returned}

vars == <<input, todo, shared, exclusive, result>>

Init ==
  /\ input \in Inputs
  /\ todo = input.requests
  /\ shared = {}
  /\ exclusive = {}
  /\ result = {}

VisitShared(r) ==
  /\ IsSharedRequest(r)
  /\ \E pool \in SelectPoolConfig(input.conf, <<SharedPoolID>>) : shared' = pool.cpus
  /\ UNCHANGED exclusive

\* Mutant of VisitExclusive: the shared set is lost.
VisitExclusiveForgettingShared(r) ==
  /\ IsExclusiveRequest(r)
  /\ LET devices == AllocatedDevices(input.checkpoint, input.pod, input.cont, r)
     IN  \E pool \in SelectPoolConfig(input.conf, r) :
           exclusive' = IF pool.ht = MultiThreadHTPolicy
                        THEN AddHTSiblingsToCPUSet(devices, GetHTTopology(input.coreOf))
                        ELSE devices
  /\ shared' = {}

VisitExclusive(r) ==
  /\ IsExclusiveRequest(r)
  /\ LET devices == AllocatedDevices(input.checkpoint, input.pod, input.cont, r)
     IN  \E pool \in SelectPoolConfig(input.conf, r) :
           exclusive' = IF pool.ht = MultiThreadHTPolicy
                        THEN AddHTSiblingsToCPUSet(devices, GetHTTopology(input.coreOf))
                        ELSE devices
  /\ UNCHANGED shared

VisitOther(r) ==
  /\ ~IsSharedRequest(r) /\ ~IsExclusiveRequest(r)
  /\ UNCHANGED <<shared, exclusive>>

Visit(r) ==
  /\ VisitShared(r) \/ VisitExclusive(r) \/ VisitOther(r)
  /\ todo' = todo \ {r}
  /\ UNCHANGED <<input, result>>

\* Mutant of Return: the default pool unless there is a shared set.
ReturnUnlessShared ==
  /\ todo = {}
  /\ result = {}
  /\ IF shared # {}
     THEN result' = {shared \cup exclusive}
     ELSE \E pool \in SelectPoolConfig(input.conf, <<DefaultPoolID>>) : result' = {pool.cpus}
  /\ UNCHANGED <<input, todo, shared, exclusive>>

Return ==
  /\ todo = {}
  /\ result = {}
  /\ IF shared \cup exclusive # {}
     THEN result' = {shared \cup exclusive}
     ELSE \E pool \in SelectPoolConfig(input.conf, <<DefaultPoolID>>) : result' = {pool.cpus}
  /\ UNCHANGED <<input, todo, shared, exclusive>>

Next == (\E r \in todo : Visit(r)) \/ Return

Spec == Init /\ [][Next]_vars

-----------------------------------------------------------------------------
\* The threads of the cores that the CPUs belong to, from lscpu's map.
ThreadsOf(coreOf, cpus) ==
  {t \in DOMAIN coreOf : \E c \in cpus \cap DOMAIN coreOf : coreOf[t] = coreOf[c]}

\* What a request for the pool r gives the container: of an exclusive pool the
\* CPUs allocated to it, under the policy of that very pool; of a shared pool
\* all its CPUs.
Share(r) ==
  LET devices == AllocatedDevices(input.checkpoint, input.pod, input.cont, r)
  IN  IF DeterminePoolType(r) = SharedPoolID THEN input.conf[r].cpus
      ELSE IF DeterminePoolType(r) = ExclusivePoolID
      THEN IF input.conf[r].ht = MultiThreadHTPolicy
           THEN devices \cup ThreadsOf(input.coreOf, devices)
           ELSE devices
      ELSE {}

\* In whatever order the requests are visited, the container gets everything it
\* asked for and nothing else, and the default pool when that is nothing.
ExactlyEntitled ==
  LET own == UNION {Share(r) : r \in input.requests}
  IN  result # {} => result = {IF own # {} THEN own ELSE CpusOfType(input.conf, DefaultPoolID)}

\* What the device plugin told the container (EXCLUSIVE_CPUS and SHARED_CPUS).
Environment ==
  EnvironmentOf(input.conf, GetHTTopology(input.coreOf), input.checkpoint, input.pod,
    input.cont, input.requests)

\* Device plugin and controller, which compute it apart and by different code,
\* agree: the cpuset returned is the one that a process starter in the container
\* waits for (Allocate, determineCorrectCpuset, pollCPUSetCompletion).
EnvironmentAgrees ==
  result # {} /\ ExpectedCpus(Environment) # {} => result = {ExpectedCpus(Environment)}

\* The loop returns only what CpusetCalc's closed form contains.
ReturnsDetermined ==
  result \subseteq DetermineCorrectCpuset(input.conf, GetHTTopology(input.coreOf),
                     input.checkpoint, input.pod, input.cont, input.requests)

\* What the two local variables hold at any point of the loop is what the closed
\* form says of the requests visited so far: the inductive invariant from which
\* DetermineCpuset_proofs shows ReturnsDetermined.
Visited == input.requests \ todo

LoopInv ==
  /\ todo \subseteq input.requests
  /\ shared \in SharedResults(input.conf, Visited)
  /\ exclusive \in ExclusiveResults(input.conf, GetHTTopology(input.coreOf),
                      input.checkpoint, input.pod, input.cont, Visited)
  /\ ReturnsDetermined

-----------------------------------------------------------------------------
(* The situations in which the answer is exact.  None of this is checked by  *)
(* the code; adjacent_threads.cfg and the other inputs of MCDetermineCpuset  *)
(* show what happens elsewhere.                                              *)

\* Names are unambiguous, and no container asks for two exclusive pools.
Unambiguous(in) ==
  /\ UnambiguousNames(in.conf)
  /\ ServableRequests(in.conf, in.requests)

\* The kubelet allocates the CPUs of a pool to those who ask for it, and a pool
\* whose threads are shared out together lists CPUs whose number is that of
\* their core (README of the forked CPU-Pooler, line 119: "For exclusive pools only
\* configure physical CPU core IDs").
PhysicalCores(in) ==
  /\ \A e \in in.checkpoint : e.pool \in DOMAIN in.conf /\ e.devices \subseteq in.conf[e.pool].cpus
  /\ \A n \in DOMAIN in.conf :
       DeterminePoolType(n) = ExclusivePoolID /\ in.conf[n].ht = MultiThreadHTPolicy =>
         \A c \in in.conf[n].cpus : c \in DOMAIN in.coreOf /\ in.coreOf[c] = c
=============================================================================
