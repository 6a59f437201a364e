-------------------------- MODULE CpusetIsolation --------------------------
(***************************************************************************)
(* Why exclusive CPUs stay exclusive: the assumption on the configuration  *)
(* of the node, and the inductive invariant that implies                   *)
(* ExclusiveIsolation (proved in CpusetController_proofs, model-checked in *)
(* isolation.cfg).                                                         *)
(***************************************************************************)
EXTENDS CpusetController

ThreadsOf(cpuset) == AddHTSiblingsToCPUSet(cpuset, HTMap)

ExclusivePools == {n \in DOMAIN PoolConfig : DeterminePoolType(n) = ExclusivePoolID}

\* What any container may be given beside its devices.
CommonCpus ==
  UNION {pool.cpus : pool \in SelectPoolConfig(PoolConfig, <<SharedPoolID>>)
                         \cup SelectPoolConfig(PoolConfig, <<DefaultPoolID>>)}

\* The configuration the documents ask for: pools are distinct sets of CPUs,
\* an exclusive pool lists one thread of each of its cores, and the other
\* threads of those cores are in no pool.  The code checks none of it.
ASSUME IsolationAssumption ==
  /\ \A n \in ExclusivePools : CommonCpus \cap ThreadsOf(PoolConfig[n].cpus) = {}
  /\ \A n, m \in ExclusivePools :
       n # m => ThreadsOf(PoolConfig[n].cpus) \cap ThreadsOf(PoolConfig[m].cpus) = {}
  /\ \A n \in ExclusivePools : \A a, b \in PoolConfig[n].cpus :
       a # b => ThreadsOf({a}) \cap ThreadsOf({b}) = {}

\* The most that determineCorrectCpuset can return for container i of p.
Reach(p, i) ==
  CommonCpus \cup UNION {ThreadsOf(e.devices) : e \in {x \in checkpoint : x.pod = p /\ x.cont = i}}

Ended(p) == phase[p] \in {"finished", "deleted"}

\* The kubelet allocates to Pods it admitted, and no device twice.
AllocationsSound ==
  /\ \A e \in checkpoint : phase[e.pod] = "bound" \/ Ended(e.pod)
  /\ \A e, f \in LiveEntries : e.pool = f.pool /\ e # f => e.devices \cap f.devices = {}

\* Only a Pod bound to this node has cgroup directories.
DirsLive == \A d \in dirs : phase[d[1]] = "bound"

\* No directory was set to more than its container may be given...
SetsWithinReach ==
  \A d \in dirs : cpus[d] = Inherited \/ cpus[d] \subseteq Reach(d[1], d[2])

\* ...and nothing that a worker or the reconciler has computed, and not yet
\* written, is more than that, unless the Pod has ended (and its directories
\* with it) since.
PendingWithinReach ==
  /\ \A w \in Workers :
       LET r == worker[w]
       IN  r.pc = "apply" => r.set \subseteq Reach(r.pod, r.cont) \/ Ended(r.pod)
  /\ rec.pc = "write" => rec.set \subseteq Reach(rec.dir[1], rec.dir[2]) \/ Ended(rec.dir[1])

IsolationInv ==
  /\ TypeOK
  /\ AllocationsSound
  /\ DirsLive
  /\ SetsWithinReach
  /\ PendingWithinReach
=============================================================================
