-------------------------- MODULE PoolNames_proofs --------------------------
(***************************************************************************)
(* What determineCorrectCpuset returns where names are unambiguous: its    *)
(* searches through Go maps have one outcome, the same for every order.    *)
(***************************************************************************)
EXTENDS PoolNames, TLAPS

\* The three pool types are different strings.
LEMMA TypesDiffer ==
  SharedPoolID # ExclusivePoolID /\ SharedPoolID # DefaultPoolID /\ ExclusivePoolID # DefaultPoolID
  BY DEF SharedPoolID, ExclusivePoolID, DefaultPoolID

\* A name has the prefix "shared" exactly if its type is shared.
LEMMA SharedPrefix ==
  ASSUME NEW n
  PROVE  IsPrefix(<<SharedPoolID>>, n) <=> DeterminePoolType(n) = SharedPoolID
  BY TypesDiffer DEF DeterminePoolType

\* SelectPoolConfig finds the CPUs of the shared pool, and those of the default
\* pool; where there is no such pool, none.
LEMMA SelectShared ==
  ASSUME NEW conf, UnambiguousNames(conf)
  PROVE  {pool.cpus : pool \in SelectPoolConfig(conf, <<SharedPoolID>>)} = {CpusOfType(conf, SharedPoolID)}
<1> DEFINE matching == {n \in DOMAIN conf : IsPrefix(<<SharedPoolID>>, n)}
<1>1. matching = {n \in DOMAIN conf : DeterminePoolType(n) = SharedPoolID}
  BY SharedPrefix
<1>2. CASE matching = {}
  BY <1>1, <1>2 DEF SelectPoolConfig, EmptyPool, CpusOfType
<1>3. ASSUME NEW n \in matching
      PROVE  matching = {n}
  BY <1>1, TypesDiffer DEF UnambiguousNames
<1>4. CASE matching # {}
  <2>1. PICK n \in matching : matching = {n}
    BY <1>3, <1>4
  <2>2. SelectPoolConfig(conf, <<SharedPoolID>>) = {conf[n]}
    BY <2>1 DEF SelectPoolConfig
  <2>3. CpusOfType(conf, SharedPoolID) = conf[n].cpus
    BY <1>1, <2>1 DEF CpusOfType
  <2>4. QED
    BY <2>2, <2>3
<1>5. QED
  BY <1>2, <1>4

LEMMA SelectDefault ==
  ASSUME NEW conf, UnambiguousNames(conf)
  PROVE  {pool.cpus : pool \in SelectPoolConfig(conf, <<DefaultPoolID>>)} = {CpusOfType(conf, DefaultPoolID)}
<1> DEFINE matching == {n \in DOMAIN conf : IsPrefix(<<DefaultPoolID>>, n)}
<1>1. matching = {n \in DOMAIN conf : DeterminePoolType(n) = DefaultPoolID}
  BY DEF UnambiguousNames
<1>2. CASE matching = {}
  BY <1>1, <1>2 DEF SelectPoolConfig, EmptyPool, CpusOfType
<1>3. ASSUME NEW n \in matching
      PROVE  matching = {n}
  BY <1>1, TypesDiffer DEF UnambiguousNames
<1>4. CASE matching # {}
  <2>1. PICK n \in matching : matching = {n}
    BY <1>3, <1>4
  <2>2. SelectPoolConfig(conf, <<DefaultPoolID>>) = {conf[n]}
    BY <2>1 DEF SelectPoolConfig
  <2>3. CpusOfType(conf, DefaultPoolID) = conf[n].cpus
    BY <1>1, <2>1 DEF CpusOfType
  <2>4. QED
    BY <2>2, <2>3
<1>5. QED
  BY <1>2, <1>4

\* The policy of an exclusive pool is its own.
LEMMA SelectExclusive ==
  ASSUME NEW conf, UnambiguousNames(conf), NEW n \in DOMAIN conf, DeterminePoolType(n) = ExclusivePoolID
  PROVE  SelectPoolConfig(conf, n) = {conf[n]}
<1>1. {m \in DOMAIN conf : IsPrefix(n, m)} = {n}
  BY DEF UnambiguousNames
<1>2. QED
  BY <1>1 DEF SelectPoolConfig

LEMMA ExclusiveIsUnderPolicy ==
  ASSUME NEW conf, UnambiguousNames(conf), NEW htMap, NEW devices,
         NEW n \in DOMAIN conf, DeterminePoolType(n) = ExclusivePoolID
  PROVE  ExclusiveResult(conf, htMap, devices, n) = {UnderPolicy(conf, htMap, n, devices)}
  BY SelectExclusive DEF ExclusiveResult, UnderPolicy

\* AddHTSiblingsToCPUSet works CPU by CPU.
LEMMA SiblingsOfUnion ==
  ASSUME NEW S, NEW htMap
  PROVE  AddHTSiblingsToCPUSet(UNION S, htMap) = UNION {AddHTSiblingsToCPUSet(c, htMap) : c \in S}
  BY DEF AddHTSiblingsToCPUSet

-----------------------------------------------------------------------------
\* The shared part of a container's set.
SharedPart(conf, requests) ==
  IF \E n \in requests : DeterminePoolType(n) = SharedPoolID
  THEN CpusOfType(conf, SharedPoolID)
  ELSE {}

\* Its exclusive part: its devices of all exclusive pools it asks for.
ExclusivePart(conf, htMap, checkpoint, pod, cont, requests) ==
  UNION {UnderPolicy(conf, htMap, n, AllocatedDevices(checkpoint, pod, cont, n)) :
           n \in {m \in requests : DeterminePoolType(m) = ExclusivePoolID}}

LEMMA SharedDetermined ==
  ASSUME NEW conf, NEW requests, UnambiguousNames(conf), ServableRequests(conf, requests)
  PROVE  SharedResults(conf, requests) = {SharedPart(conf, requests)}
<1>1. \A n \in requests : IsSharedRequest(n) <=> DeterminePoolType(n) = SharedPoolID
  BY DEF UnambiguousNames, ServableRequests
<1>2. QED
  BY <1>1, SelectShared DEF SharedResults, SharedPart

LEMMA ExclusiveDetermined ==
  ASSUME NEW conf, NEW htMap, NEW checkpoint, NEW pod, NEW cont, NEW requests,
         UnambiguousNames(conf), ServableRequests(conf, requests)
  PROVE  ExclusiveResults(conf, htMap, checkpoint, pod, cont, requests)
           = {ExclusivePart(conf, htMap, checkpoint, pod, cont, requests)}
<1> DEFINE exclusive == {n \in requests : IsExclusiveRequest(n)}
           devices(n) == AllocatedDevices(checkpoint, pod, cont, n)
<1>1. exclusive = {n \in requests : DeterminePoolType(n) = ExclusivePoolID}
  BY DEF UnambiguousNames, ServableRequests
<1>2. CASE exclusive = {}
  BY <1>1, <1>2 DEF ExclusiveResults, ExclusivePart
<1>3. CASE exclusive # {}
  <2>1. PICK n \in exclusive : exclusive = {n}
    BY <1>1, <1>3 DEF ServableRequests
  <2>2. n \in DOMAIN conf /\ DeterminePoolType(n) = ExclusivePoolID
    BY <1>1, <2>1 DEF ServableRequests
  <2>3. ExclusiveResult(conf, htMap, devices(n), n) = {UnderPolicy(conf, htMap, n, devices(n))}
    BY <2>2, ExclusiveIsUnderPolicy
  <2>4. ExclusiveResults(conf, htMap, checkpoint, pod, cont, requests)
          = ExclusiveResult(conf, htMap, devices(n), n)
    BY <2>1 DEF ExclusiveResults
  <2>5. ExclusivePart(conf, htMap, checkpoint, pod, cont, requests) = UnderPolicy(conf, htMap, n, devices(n))
    BY <1>1, <2>1 DEF ExclusivePart
  <2>6. QED
    BY <2>3, <2>4, <2>5
<1>4. QED
  BY <1>2, <1>3

\* Where names are unambiguous and no container asks for two exclusive pools,
\* determineCorrectCpuset returns one set whatever the order in which Go yields
\* the requests and the pools: the shared and the exclusive part together, or
\* the default pool if both are empty.
THEOREM OneCpuset ==
  ASSUME NEW conf, NEW htMap, NEW checkpoint, NEW pod, NEW cont, NEW requests,
         UnambiguousNames(conf), ServableRequests(conf, requests)
  PROVE  DetermineCorrectCpuset(conf, htMap, checkpoint, pod, cont, requests)
           = LET own == SharedPart(conf, requests)
                          \cup ExclusivePart(conf, htMap, checkpoint, pod, cont, requests)
             IN  {IF own # {} THEN own ELSE CpusOfType(conf, DefaultPoolID)}
<1> DEFINE s == SharedPart(conf, requests)
           e == ExclusivePart(conf, htMap, checkpoint, pod, cont, requests)
<1>1. SharedResults(conf, requests) = {s}
  BY SharedDetermined
<1>2. ExclusiveResults(conf, htMap, checkpoint, pod, cont, requests) = {e}
  BY ExclusiveDetermined
<1> HIDE DEF s, e
<1> DEFINE Outcome(a, b) == IF a \cup b # {} THEN {a \cup b}
                            ELSE {pool.cpus : pool \in SelectPoolConfig(conf, <<DefaultPoolID>>)}
<1>3. DetermineCorrectCpuset(conf, htMap, checkpoint, pod, cont, requests) = Outcome(s, e)
  <2>1. DetermineCorrectCpuset(conf, htMap, checkpoint, pod, cont, requests)
          = UNION {Outcome(a, b) : a \in {s}, b \in {e}}
    BY <1>1, <1>2 DEF DetermineCorrectCpuset
  <2> HIDE DEF Outcome
  <2>2. QED
    BY <2>1
<1>4. QED
  BY <1>3, SelectDefault DEF s, e

-----------------------------------------------------------------------------
\* What the plugin says for a pool that is requested: for the shared pool the
\* shared part, for an exclusive one the devices under the pool's policy.
LEMMA AllocateShared ==
  ASSUME NEW conf, NEW htMap, NEW devices, NEW n, DeterminePoolType(n) = SharedPoolID
  PROVE  Allocate(conf, htMap, n, devices) = CpusOfType(conf, SharedPoolID)
  BY DEF Allocate, CpusOfType

LEMMA AllocateExclusive ==
  ASSUME NEW conf, NEW htMap, NEW devices, NEW n, DeterminePoolType(n) = ExclusivePoolID
  PROVE  Allocate(conf, htMap, n, devices) = UnderPolicy(conf, htMap, n, devices)
  BY TypesDiffer DEF Allocate, UnderPolicy

\* The set that a process starter waits for, if it waits for one, is that of the
\* container's shared and exclusive part together.
LEMMA ExpectedIsOwn ==
  ASSUME NEW conf, NEW htMap, NEW checkpoint, NEW pod, NEW cont, NEW requests
  PROVE  LET env == EnvironmentOf(conf, htMap, checkpoint, pod, cont, requests)
         IN  ExpectedCpus(env) # {} =>
               ExpectedCpus(env) = SharedPart(conf, requests)
                                     \cup ExclusivePart(conf, htMap, checkpoint, pod, cont, requests)
<1> DEFINE devices(n) == AllocatedDevices(checkpoint, pod, cont, n)
           pools == {m \in requests : DeterminePoolType(m) # DefaultPoolID}
           env == [n \in pools |-> Allocate(conf, htMap, n, devices(n))]
           s == SharedPart(conf, requests)
           e == ExclusivePart(conf, htMap, checkpoint, pod, cont, requests)
<1>1. \A n \in pools : DeterminePoolType(n) \in {SharedPoolID, ExclusivePoolID}
  BY DEF DeterminePoolType
<1>2. \A n \in pools : IF DeterminePoolType(n) = SharedPoolID
                       THEN env[n] = CpusOfType(conf, SharedPoolID)
                       ELSE env[n] = UnderPolicy(conf, htMap, n, devices(n))
  BY <1>1, AllocateShared, AllocateExclusive
<1>3. {n \in requests : DeterminePoolType(n) = ExclusivePoolID}
        = {n \in pools : DeterminePoolType(n) # SharedPoolID}
  BY <1>1, TypesDiffer
<1>4. \A n \in requests : DeterminePoolType(n) = SharedPoolID => n \in pools
  BY TypesDiffer
<1>5. DOMAIN env = pools
  OBVIOUS
<1> HIDE DEF env, pools
<1>6. UNION {env[n] : n \in pools} \subseteq s \cup e
  <2> SUFFICES ASSUME NEW n \in pools
               PROVE  env[n] \subseteq s \cup e
    OBVIOUS
  <2>1. CASE DeterminePoolType(n) = SharedPoolID
    <3>1. n \in requests
      BY DEF pools
    <3>2. QED
      BY <1>2, <2>1, <3>1 DEF SharedPart
  <2>2. CASE DeterminePoolType(n) # SharedPoolID
    BY <1>2, <1>3, <2>2 DEF ExclusivePart
  <2>3. QED
    BY <2>1, <2>2
<1>7. s \cup e \subseteq UNION {env[n] : n \in pools}
  <2>1. s \subseteq UNION {env[n] : n \in pools}
    BY <1>2, <1>4 DEF SharedPart
  <2>2. e \subseteq UNION {env[n] : n \in pools}
    BY <1>2, <1>3 DEF ExclusivePart
  <2>3. QED
    BY <2>1, <2>2
<1>8. ExpectedCpus(env) # {} => ExpectedCpus(env) = s \cup e
  BY <1>5, <1>6, <1>7 DEF ExpectedCpus
<1>9. QED
  BY <1>8 DEF env, pools, EnvironmentOf
=============================================================================
