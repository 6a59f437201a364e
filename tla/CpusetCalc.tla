----------------------------- MODULE CpusetCalc -----------------------------
(***************************************************************************)
(* How a container's cpuset is computed from its resource requests, the    *)
(* pool configuration of the node, and the devices the kubelet recorded in *)
(* its checkpoint (pkg/controller/controller.go, pkg/types/pool.go,        *)
(* pkg/topology/topology.go).                                              *)
(*                                                                         *)
(* Go's map iteration order is unspecified, and the code lets the result   *)
(* depend on it.  Operators therefore return the SET of results the code   *)
(* may produce.                                                            *)
(*                                                                         *)
(* A pool name is a sequence of tokens, <<"exclusive", "1">> standing for  *)
(* "exclusive1", so that strings.HasPrefix is the prefix relation on       *)
(* sequences and strings.Contains(name, "shared") asks whether the token   *)
(* occurs.  Only resources whose name contains "cmss.cn" are represented:  *)
(* a request IS the pool name in the resource name.                        *)
(***************************************************************************)
EXTENDS Naturals, SequencesExt

SharedPoolID    == "shared"
ExclusivePoolID == "exclusive"
DefaultPoolID   == "default"

\* The two hyperthreading policies, and what the zero value of Pool holds.
SingleThreadHTPolicy == "singleThreaded"
MultiThreadHTPolicy  == "multiThreaded"

\* Pool{}: what SelectPoolConfig returns when no pool has the prefix.
EmptyPool == [cpus |-> {}, ht |-> "none"]

-----------------------------------------------------------------------------
(* Pool configuration: a function from pool names to [cpus, ht].           *)

\* DeterminePoolType: used by the device plugin and the webhook.
DeterminePoolType(poolName) ==
  IF IsPrefix(<<SharedPoolID>>, poolName) THEN SharedPoolID
  ELSE IF IsPrefix(<<ExclusivePoolID>>, poolName) THEN ExclusivePoolID
  ELSE DefaultPoolID

\* SelectPoolConfig: the first pool, in map order, whose name has the prefix.
SelectPoolConfig(conf, prefix) ==
  LET matching == {name \in DOMAIN conf : IsPrefix(prefix, name)}
  IN  IF matching = {} THEN {EmptyPool} ELSE {conf[name] : name \in matching}

\* parsePoolConfigFile: a pool without a policy is single threaded.
DefaultedPolicy(policy) == IF policy = "" THEN SingleThreadHTPolicy ELSE policy

\* DeterminePoolConfig and parsePoolConfigs: confs are the configurations in the
\* order of their files' names, [pools, selector].  The first one that has any
\* label of the node is taken, the first of all if the node has none; {} is the
\* error that none matches.
DeterminePoolConfig(labels, confs) ==
  LET matching == {k \in DOMAIN confs :
                     \/ DOMAIN labels = {}
                     \/ \E l \in DOMAIN labels \cap DOMAIN confs[k].selector :
                          labels[l] = confs[k].selector[l]}
  IN  {confs[k].pools : k \in {j \in matching : \A i \in matching : j <= i}}

-----------------------------------------------------------------------------
(* Hyperthreading: coreOf is lscpu's map from logical CPU to core ID.      *)

\* GetHTTopology: core ID -> the logical CPUs of that core, except the one
\* whose number equals the core ID.  Cores with no such CPU have no entry.
GetHTTopology(coreOf) ==
  LET others(core) == {cpu \in DOMAIN coreOf : coreOf[cpu] = core /\ cpu # core}
      cores        == {coreOf[cpu] : cpu \in DOMAIN coreOf}
  IN  [core \in {k \in cores : others(k) # {}} |-> others(core)]

\* AddHTSiblingsToCPUSet: the set, and the siblings listed for each member.
AddHTSiblingsToCPUSet(cpus, htMap) ==
  cpus \cup UNION {htMap[cpu] : cpu \in cpus \cap DOMAIN htMap}

-----------------------------------------------------------------------------
(* The kubelet's checkpoint: a set of entries [pod, cont, pool, devices].  *)

\* Mutant of TranslateNewCheckpointToOld: the devices of one NUMA node only.
TranslateOneNUMANode(checkpoint) ==
  {[e EXCEPT !.devices = CHOOSE devices \in Range(@) : TRUE] : e \in checkpoint}

\* TranslateNewCheckpointToOld: since 1.21 the kubelet writes an entry's devices
\* per NUMA node; they are merged.
TranslateNewCheckpointToOld(checkpoint) ==
  {[e EXCEPT !.devices = UNION Range(@)] : e \in checkpoint}

\* Mutant of AllocatedDevices: entries of any Pod.
AllocatedDevicesOfAnyPod(checkpoint, pod, cont, pool) ==
  UNION {e.devices : e \in {x \in checkpoint : x.cont = cont /\ x.pool = pool}}

\* getListOfAllocatedExclusiveCpus: the devices of every entry that names
\* this Pod UID, this container and this resource; none is not an error.
AllocatedDevices(checkpoint, pod, cont, pool) ==
  UNION {e.devices : e \in {x \in checkpoint : /\ x.pod = pod
                                               /\ x.cont = cont
                                               /\ x.pool = pool}}

-----------------------------------------------------------------------------
(* determineCorrectCpuset.  requests is the set of pools the container     *)
(* names in resources.requests.                                            *)

IsSharedRequest(pool)    == Contains(pool, SharedPoolID)
IsExclusiveRequest(pool) == ~IsSharedRequest(pool) /\ Contains(pool, ExclusivePoolID)

\* One iteration of the loop for a shared resource.
SharedResults(conf, requests) ==
  IF \E r \in requests : IsSharedRequest(r)
  THEN {pool.cpus : pool \in SelectPoolConfig(conf, <<SharedPoolID>>)}
  ELSE {{}}

\* Mutant of ExclusiveResult: siblings are never added.
ExclusiveResultNoSiblings(conf, htMap, devices, r) == {devices}

\* One iteration for the exclusive resource r: the policy is looked up by
\* prefix, so any pool whose name extends r may decide it.
ExclusiveResult(conf, htMap, devices, r) ==
  {IF pool.ht = MultiThreadHTPolicy
   THEN AddHTSiblingsToCPUSet(devices, htMap)
   ELSE devices : pool \in SelectPoolConfig(conf, r)}

\* The loop assigns exclusiveCPUSet, it does not accumulate: the exclusive
\* resource visited last decides.
ExclusiveResults(conf, htMap, checkpoint, pod, cont, requests) ==
  LET exclusive == {r \in requests : IsExclusiveRequest(r)}
  IN  IF exclusive = {} THEN {{}}
      ELSE UNION {ExclusiveResult(conf, htMap,
                    AllocatedDevices(checkpoint, pod, cont, r), r) : r \in exclusive}

DetermineCorrectCpuset(conf, htMap, checkpoint, pod, cont, requests) ==
  UNION {IF s \cup e # {}
         THEN {s \cup e}
         ELSE {pool.cpus : pool \in SelectPoolConfig(conf, <<DefaultPoolID>>)} :
           s \in SharedResults(conf, requests),
           e \in ExclusiveResults(conf, htMap, checkpoint, pod, cont, requests)}

-----------------------------------------------------------------------------
(* What the container is told: the device plugin puts the CPUs of a pool   *)
(* into its environment, and the process starter waits until its cgroup    *)
(* holds exactly these.                                                    *)

\* ListAndWatch: how many devices the plugin of a pool advertises, a thousandth of
\* a CPU being one of a shared pool.
AdvertisedDevices(conf, pool) ==
  IF DeterminePoolType(pool) = SharedPoolID
  THEN 1000 * Cardinality(conf[pool].cpus)
  ELSE Cardinality(conf[pool].cpus)

\* Mutant of Allocate: siblings are never added.
AllocateNoSiblings(conf, htMap, pool, devices) ==
  IF DeterminePoolType(pool) = SharedPoolID
  THEN UNION {conf[n].cpus : n \in {m \in DOMAIN conf : DeterminePoolType(m) = SharedPoolID}}
  ELSE devices

\* cpuDeviceManager.Allocate: SHARED_CPUS is what validatePools found, the CPUs
\* of the one shared pool; EXCLUSIVE_CPUS the devices, under the pool's policy.
Allocate(conf, htMap, pool, devices) ==
  IF DeterminePoolType(pool) = SharedPoolID
  THEN UNION {conf[n].cpus : n \in {m \in DOMAIN conf : DeterminePoolType(m) = SharedPoolID}}
  ELSE IF conf[pool].ht = MultiThreadHTPolicy
  THEN AddHTSiblingsToCPUSet(devices, htMap)
  ELSE devices

\* pollCPUSetCompletion: the union of what the environment says for the types in
\* CPU_POOLS; {} while one of them is empty, when it does not look at the cgroup.
ExpectedCpus(env) ==
  IF \E pool \in DOMAIN env : env[pool] = {} THEN {} ELSE UNION {env[pool] : pool \in DOMAIN env}
=============================================================================
