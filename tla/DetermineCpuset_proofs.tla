----------------------- MODULE DetermineCpuset_proofs -----------------------
(***************************************************************************)
(* The loop of determineCorrectCpuset computes the closed form of          *)
(* CpusetCalc; where names are unambiguous that is what the container is   *)
(* entitled to and what the device plugin tells it.                        *)
(***************************************************************************)
EXTENDS DetermineCpuset, PoolNames_proofs

HTOf(in)        == GetHTTopology(in.coreOf)
DevicesOf(in, r) == AllocatedDevices(in.checkpoint, in.pod, in.cont, r)
SharedOf(in, rs) == SharedResults(in.conf, rs)
ExclusiveOf(in, rs) == ExclusiveResults(in.conf, HTOf(in), in.checkpoint, in.pod, in.cont, rs)
DeterminedOf(in) ==
  DetermineCorrectCpuset(in.conf, HTOf(in), in.checkpoint, in.pod, in.cont, in.requests)

-----------------------------------------------------------------------------
(* The loop.                                                                *)

\* Requests of another kind do not change what the closed form says.
LEMMA SharedUnchanged ==
  ASSUME NEW in, NEW rs, NEW r, ~IsSharedRequest(r)
  PROVE  SharedOf(in, rs \cup {r}) = SharedOf(in, rs)
  BY DEF SharedOf, SharedResults

LEMMA ExclusiveUnchanged ==
  ASSUME NEW in, NEW rs, NEW r, ~IsExclusiveRequest(r)
  PROVE  ExclusiveOf(in, rs \cup {r}) = ExclusiveOf(in, rs)
<1>1. {x \in rs \cup {r} : IsExclusiveRequest(x)} = {x \in rs : IsExclusiveRequest(x)}
  OBVIOUS
<1>2. QED
  BY <1>1 DEF ExclusiveOf, ExclusiveResults

\* The exclusive request visited last may decide.
LEMMA ExclusiveVisited ==
  ASSUME NEW in, NEW rs, NEW r, IsExclusiveRequest(r),
         NEW e \in ExclusiveResult(in.conf, HTOf(in), DevicesOf(in, r), r)
  PROVE  e \in ExclusiveOf(in, rs \cup {r})
<1>1. r \in {x \in rs \cup {r} : IsExclusiveRequest(x)}
  OBVIOUS
<1>2. QED
  BY <1>1 DEF ExclusiveOf, ExclusiveResults, DevicesOf

LEMMA VisitKeepsLoop ==
  ASSUME LoopInv, NEW r \in todo, Visit(r)
  PROVE  LoopInv'
<1>1. UNCHANGED <<input, result>> /\ todo' = todo \ {r} /\ r \in input.requests
  BY DEF Visit, LoopInv
<1>2. Visited' = Visited \cup {r}
  BY <1>1 DEF Visited, LoopInv
<1>3. shared \in SharedOf(input, Visited) /\ exclusive \in ExclusiveOf(input, Visited)
  BY DEF LoopInv, SharedOf, ExclusiveOf, HTOf
<1>4. shared' \in SharedOf(input, Visited \cup {r}) /\ exclusive' \in ExclusiveOf(input, Visited \cup {r})
  <2>1. CASE VisitShared(r)
    <3>1. shared' \in SharedOf(input, Visited \cup {r})
      BY <2>1 DEF VisitShared, SharedOf, SharedResults
    <3>2. ~IsExclusiveRequest(r) /\ UNCHANGED exclusive
      BY <2>1 DEF VisitShared, IsExclusiveRequest
    <3>3. QED
      BY <1>3, <3>1, <3>2, ExclusiveUnchanged
  <2>2. CASE VisitExclusive(r)
    <3>1. exclusive' \in ExclusiveResult(input.conf, HTOf(input), DevicesOf(input, r), r)
      BY <2>2 DEF VisitExclusive, ExclusiveResult, HTOf, DevicesOf
    <3>2. IsExclusiveRequest(r) /\ ~IsSharedRequest(r) /\ UNCHANGED shared
      BY <2>2 DEF VisitExclusive, IsExclusiveRequest
    <3>3. QED
      BY <1>3, <3>1, <3>2, ExclusiveVisited, SharedUnchanged
  <2>3. CASE VisitOther(r)
    BY <1>3, <2>3, SharedUnchanged, ExclusiveUnchanged DEF VisitOther
  <2>4. QED
    BY <2>1, <2>2, <2>3 DEF Visit
<1>5. todo' \subseteq input.requests /\ ReturnsDetermined'
  BY <1>1 DEF LoopInv, ReturnsDetermined
<1>6. QED
  BY <1>1, <1>2, <1>4, <1>5 DEF LoopInv, SharedOf, ExclusiveOf, HTOf

LEMMA ReturnKeepsLoop ==
  ASSUME LoopInv, Return
  PROVE  LoopInv'
<1>1. UNCHANGED <<input, todo, shared, exclusive>> /\ todo = {}
  BY DEF Return
<1>2. shared \in SharedOf(input, input.requests) /\ exclusive \in ExclusiveOf(input, input.requests)
  BY <1>1 DEF LoopInv, Visited, SharedOf, ExclusiveOf, HTOf
<1> DEFINE Outcome(a, b) == IF a \cup b # {} THEN {a \cup b}
                            ELSE {pool.cpus : pool \in SelectPoolConfig(input.conf, <<DefaultPoolID>>)}
<1>3. result' \subseteq DeterminedOf(input)
  <2>1. result' \subseteq Outcome(shared, exclusive)
    BY DEF Return
  <2>2. DeterminedOf(input)
          = UNION {Outcome(a, b) : a \in SharedOf(input, input.requests), b \in ExclusiveOf(input, input.requests)}
    BY DEF DeterminedOf, DetermineCorrectCpuset, SharedOf, ExclusiveOf
  <2> HIDE DEF Outcome
  <2>3. QED
    BY <1>2, <2>1, <2>2
<1>4. QED
  BY <1>1, <1>3 DEF LoopInv, Visited, ReturnsDetermined, DeterminedOf, HTOf

\* In whatever order the loop takes the requests, its two sets are at any moment
\* the result for those that it has visited.
THEOREM LoopInvariant == Spec => []LoopInv
<1>1. Init => LoopInv
  <2> SUFFICES ASSUME Init PROVE LoopInv
    OBVIOUS
  <2>1. Visited = {} /\ todo \subseteq input.requests
    BY DEF Init, Visited
  <2>2. SharedResults(input.conf, {}) = {{}}
    BY DEF SharedResults
  <2>3. ExclusiveOf(input, {}) = {{}}
    BY DEF ExclusiveOf, ExclusiveResults
  <2>4. QED
    BY <2>1, <2>2, <2>3 DEF Init, LoopInv, ReturnsDetermined, ExclusiveOf, HTOf
<1>2. LoopInv /\ [Next]_vars => LoopInv'
  <2> SUFFICES ASSUME LoopInv, [Next]_vars PROVE LoopInv'
    OBVIOUS
  <2>1. CASE UNCHANGED vars
    BY <2>1 DEF vars, LoopInv, Visited, ReturnsDetermined
  <2>2. QED
    BY <2>1, VisitKeepsLoop, ReturnKeepsLoop DEF Next
<1>3. QED
  BY <1>1, <1>2, PTL DEF Spec

\* Whatever the configuration, the requests and the order in which Go yields
\* them, determineCorrectCpuset returns a set that the closed form contains,
\* which CpusetController uses in its place.
THEOREM LoopCorrect == Spec => []ReturnsDetermined
<1>1. LoopInv => ReturnsDetermined
  BY DEF LoopInv
<1>2. QED
  BY <1>1, LoopInvariant, PTL

-----------------------------------------------------------------------------
(* Documented configurations.                                               *)

\* The function was called in one of the given situations and returned at most
\* one set, so LoopCorrect says which.
Called == input \in Inputs /\ \A x, y \in result : x = y

LEMMA CalledAlways == Spec => []Called
<1>1. Init => Called
  BY DEF Init, Called
<1>2. Called /\ [Next]_vars => Called'
  BY DEF Called, Next, Visit, Return, vars
<1>3. QED
  BY <1>1, <1>2, PTL DEF Spec

\* What is returned where names are unambiguous.
LEMMA ReturnedSet ==
  ASSUME LoopInv, Called, Unambiguous(input), result # {}
  PROVE  LET own == SharedPart(input.conf, input.requests)
                      \cup ExclusivePart(input.conf, HTOf(input), input.checkpoint, input.pod,
                                         input.cont, input.requests)
         IN  result = {IF own # {} THEN own ELSE CpusOfType(input.conf, DefaultPoolID)}
<1> DEFINE own == SharedPart(input.conf, input.requests)
                    \cup ExclusivePart(input.conf, HTOf(input), input.checkpoint, input.pod,
                                       input.cont, input.requests)
<1>1. DeterminedOf(input) = {IF own # {} THEN own ELSE CpusOfType(input.conf, DefaultPoolID)}
  BY OneCpuset DEF DeterminedOf, Unambiguous
<1>2. result \subseteq DeterminedOf(input)
  BY DEF LoopInv, ReturnsDetermined, DeterminedOf, HTOf
<1> HIDE DEF own
<1>3. QED
  BY <1>1, <1>2 DEF own

LEMMA Agrees ==
  ASSUME LoopInv, Called, \A in \in Inputs : Unambiguous(in)
  PROVE  EnvironmentAgrees
<1> SUFFICES ASSUME result # {}, ExpectedCpus(Environment) # {}
             PROVE  result = {ExpectedCpus(Environment)}
  BY DEF EnvironmentAgrees
<1> DEFINE own == SharedPart(input.conf, input.requests)
                    \cup ExclusivePart(input.conf, HTOf(input), input.checkpoint, input.pod,
                                       input.cont, input.requests)
<1>1. result = {IF own # {} THEN own ELSE CpusOfType(input.conf, DefaultPoolID)}
  BY ReturnedSet DEF Called
<1>2. ExpectedCpus(Environment) = own
  BY ExpectedIsOwn DEF Environment, HTOf
<1>3. QED
  BY <1>1, <1>2

\* The siblings that AddHTSiblingsToCPUSet adds to first threads are all the
\* threads of their cores.
LEMMA SiblingsAreThreads ==
  ASSUME NEW coreOf, NEW devices, \A c \in devices : c \in DOMAIN coreOf /\ coreOf[c] = c
  PROVE  AddHTSiblingsToCPUSet(devices, GetHTTopology(coreOf)) = devices \cup ThreadsOf(coreOf, devices)
<1> DEFINE htMap == GetHTTopology(coreOf)
<1>1. \A c \in devices : c \in DOMAIN htMap => htMap[c] = {t \in DOMAIN coreOf : coreOf[t] = c /\ t # c}
  BY DEF GetHTTopology
<1>2. \A c \in devices, t \in DOMAIN coreOf : coreOf[t] = c /\ t # c => c \in DOMAIN htMap
  BY DEF GetHTTopology
<1> HIDE DEF htMap
<1>3. AddHTSiblingsToCPUSet(devices, htMap) \subseteq devices \cup ThreadsOf(coreOf, devices)
  BY <1>1 DEF AddHTSiblingsToCPUSet, ThreadsOf
<1>4. devices \cup ThreadsOf(coreOf, devices) \subseteq AddHTSiblingsToCPUSet(devices, htMap)
  BY <1>1, <1>2 DEF AddHTSiblingsToCPUSet, ThreadsOf
<1>5. QED
  BY <1>3, <1>4 DEF htMap

LEMMA Entitles ==
  ASSUME LoopInv, Called, \A in \in Inputs : Unambiguous(in) /\ PhysicalCores(in)
  PROVE  ExactlyEntitled
<1> DEFINE requests == input.requests
           s == SharedPart(input.conf, requests)
           e == ExclusivePart(input.conf, HTOf(input), input.checkpoint, input.pod, input.cont, requests)
<1>0. UnambiguousNames(input.conf) /\ ServableRequests(input.conf, requests) /\ PhysicalCores(input)
  BY DEF Called, Unambiguous
<1>1. ASSUME NEW r \in requests, DeterminePoolType(r) = SharedPoolID
      PROVE  Share(r) = s
  <2>1. \A n \in DOMAIN input.conf : DeterminePoolType(n) = SharedPoolID => n = r
    BY <1>0, <1>1, TypesDiffer DEF UnambiguousNames, ServableRequests
  <2>2. CpusOfType(input.conf, SharedPoolID) = input.conf[r].cpus
    BY <1>0, <1>1, <2>1 DEF CpusOfType, ServableRequests
  <2>3. QED
    BY <1>1, <2>2 DEF Share, SharedPart
<1>2. ASSUME NEW r \in requests, DeterminePoolType(r) = ExclusivePoolID
      PROVE  Share(r) = UnderPolicy(input.conf, HTOf(input), r, DevicesOf(input, r))
  <2>1. r \in DOMAIN input.conf
    BY <1>0 DEF ServableRequests
  <2>2. DevicesOf(input, r) \subseteq input.conf[r].cpus
    BY <1>0 DEF PhysicalCores, DevicesOf, AllocatedDevices
  <2>3. CASE input.conf[r].ht = MultiThreadHTPolicy
    <3>1. AddHTSiblingsToCPUSet(DevicesOf(input, r), HTOf(input))
            = DevicesOf(input, r) \cup ThreadsOf(input.coreOf, DevicesOf(input, r))
      BY <1>0, <1>2, <2>1, <2>2, <2>3, SiblingsAreThreads DEF PhysicalCores, HTOf
    <3>2. QED
      BY <1>2, <2>3, <3>1, TypesDiffer DEF Share, UnderPolicy, DevicesOf
  <2>4. CASE input.conf[r].ht # MultiThreadHTPolicy
    BY <1>2, <2>4, TypesDiffer DEF Share, UnderPolicy, DevicesOf
  <2>5. QED
    BY <2>3, <2>4
<1>3. ASSUME NEW r \in requests, DeterminePoolType(r) = DefaultPoolID
      PROVE  Share(r) = {}
  BY <1>3, TypesDiffer DEF Share
<1>4. \A r \in requests : DeterminePoolType(r) \in {SharedPoolID, ExclusivePoolID, DefaultPoolID}
  BY DEF DeterminePoolType
<1>5. UNION {Share(r) : r \in requests} = s \cup e
  <2>1. UNION {Share(r) : r \in requests} \subseteq s \cup e
    <3> SUFFICES ASSUME NEW r \in requests
                 PROVE  Share(r) \subseteq s \cup e
      OBVIOUS
    <3>1. CASE DeterminePoolType(r) = ExclusivePoolID
      BY <1>2, <3>1 DEF ExclusivePart, DevicesOf
    <3>2. QED
      BY <1>1, <1>3, <1>4, <3>1
  <2>2. s \subseteq UNION {Share(r) : r \in requests}
    BY <1>1 DEF SharedPart
  <2>3. e \subseteq UNION {Share(r) : r \in requests}
    BY <1>2 DEF ExclusivePart, DevicesOf
  <2>4. QED
    BY <2>1, <2>2, <2>3
<1>6. result # {} => result = {IF s \cup e # {} THEN s \cup e ELSE CpusOfType(input.conf, DefaultPoolID)}
  BY <1>0, ReturnedSet DEF Unambiguous
<1>7. QED
  BY <1>5, <1>6 DEF ExactlyEntitled

\* In every situation with unambiguous names, for any number of pools, CPUs and
\* entries of the checkpoint: the cpuset that determineCorrectCpuset returns is
\* the one the process starter waits for, given what the device plugin told it.
THEOREM Agreement ==
  ASSUME \A in \in Inputs : Unambiguous(in)
  PROVE  Spec => []EnvironmentAgrees
<1>1. LoopInv /\ Called => EnvironmentAgrees
  BY Agrees
<1>2. QED
  BY <1>1, LoopInvariant, CalledAlways, PTL

\* If besides the pools list physical cores, it is exactly what the container
\* asked for: all CPUs allocated to it, with the other threads of their cores
\* where the policy says so, and the shared pool; or else the default pool.
THEOREM Exactness ==
  ASSUME \A in \in Inputs : Unambiguous(in) /\ PhysicalCores(in)
  PROVE  Spec => []ExactlyEntitled
<1>1. LoopInv /\ Called => ExactlyEntitled
  BY Entitles
<1>2. QED
  BY <1>1, LoopInvariant, CalledAlways, PTL
=============================================================================
