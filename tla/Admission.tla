------------------------------ MODULE Admission ------------------------------
(***************************************************************************)
(* A Pod's way through the admission webhook (cmd/webhook/webhook.go) to a *)
(* node, where the device plugin and the controller serve what it was      *)
(* given.                                                                  *)
(*                                                                         *)
(* The webhook is called when the Pod is created, again when other         *)
(* admission plugins changed it (reinvocation), and on every later update  *)
(* of the object, such as the controller's own annotation: each time with  *)
(* the result of its earlier calls.  It keeps no state; a call reads the   *)
(* pool configurations, which may fail.                                    *)
(***************************************************************************)
EXTENDS WebhookCalc

CONSTANTS
  Submitted,   \* the Pods that users create
  Quotas,      \* values of the flag cfs-quotas
  Confs,       \* the pool configurations: see DeterminePoolConfig
  Nodes,       \* the label maps of the nodes
  HTMap,       \* GetHTTopology() of every node
  NUMANodeOf,  \* the NUMA node of each CPU
  Sidecars,    \* containers that another webhook adds
  MaxCalls     \* bound: calls of the webhook for one Pod

VARIABLES
  stage,       \* where the Pod is: "review", "patching", "refused", "broken", "placed"
  quota,       \* cfsQuotas
  submitted,   \* the Pod without the webhook's patches
  pod,         \* the Pod as the API server has it
  patches,     \* the webhook's patches that are still to be applied
  readable,    \* whether the last call could read the pool configurations
  calls,       \* calls so far
  stored,      \* [pod, readable] when it was created, <<>> before
  conf,        \* the pools of the node where it is placed, <<>> before
  grant        \* the kubelet's devices per container and exclusive pool

apiVars  == <<submitted, pod, stored>>
callVars == <<patches, readable, calls>>
nodeVars == <<conf, grant>>
vars     == <<stage, quota, apiVars, callVars, nodeVars>>

Init ==
  /\ stage = "review"
  /\ quota \in Quotas
  /\ submitted \in Submitted
  /\ pod = submitted
  /\ patches = <<>>
  /\ readable = TRUE
  /\ calls = 1
  /\ stored = <<>>
  /\ conf = <<>>
  /\ grant = <<>>

-----------------------------------------------------------------------------
(* The webhook.                                                             *)

Refuse ==
  /\ stage = "review"
  /\ Refuses(pod)
  /\ stage' = "refused"
  /\ UNCHANGED <<quota, apiVars, callVars, nodeVars>>

\* A limit for every container, as the iteration orders of the maps have it.
Limits(ok) ==
  LET limits(c) == CfsLimits(c, quota, Confs, ok)
  IN  {l \in [DOMAIN pod.containers -> UNION {limits(c) : c \in Range(pod.containers)}] :
         \A i \in DOMAIN l : l[i] \in limits(pod.containers[i])}

Mutate ==
  /\ stage = "review"
  /\ ~Refuses(pod)
  /\ \E ok \in BOOLEAN :
       /\ readable' = ok
       /\ \E limits \in Limits(ok) : patches' = MutatePods(pod, limits)
  /\ stage' = "patching"
  /\ UNCHANGED <<quota, apiVars, calls, nodeVars>>

-----------------------------------------------------------------------------
(* The API server, the other webhooks and the kubelet (external).           *)

ApplyPatch ==
  /\ stage = "patching"
  /\ \E k \in DOMAIN patches :
       /\ patches[k] # <<>>
       /\ \A j \in 1..k-1 : patches[j] = <<>>
       /\ IF Applies(pod, Head(patches[k]))
          THEN /\ pod' = Applied(pod, Head(patches[k]))
               /\ patches' = [patches EXCEPT ![k] = Tail(@)]
               /\ UNCHANGED stage
          ELSE stage' = "broken" /\ UNCHANGED <<pod, patches>>
  /\ UNCHANGED <<quota, submitted, readable, calls, stored, nodeVars>>

Patched == stage = "patching" /\ \A k \in DOMAIN patches : patches[k] = <<>>

CallAgain == calls < MaxCalls /\ calls' = calls + 1 /\ stage' = "review"

\* Another webhook adds a container, or a variable to a container; the API server
\* calls this one again (reinvocationPolicy IfNeeded).
InjectedVar == [name |-> "INJECTED", value |-> <<"v">>]

WithSidecar(p, c) == [p EXCEPT !.containers = Append(@, c)]
WithVar(p, i)     == [p EXCEPT !.containers[i].env = Append(@, InjectedVar)]

Edit ==
  /\ Patched
  /\ stored = <<>>
  /\ \/ \E c \in Sidecars :
          /\ \A d \in Range(pod.containers) : d.name # c.name
          /\ pod' = WithSidecar(pod, c) /\ submitted' = WithSidecar(submitted, c)
     \/ \E i \in DOMAIN pod.containers :
          /\ ~HasVar(pod.containers[i], "INJECTED")
          /\ pod' = WithVar(pod, i) /\ submitted' = WithVar(submitted, i)
  /\ CallAgain
  /\ UNCHANGED <<quota, patches, readable, stored, nodeVars>>

\* The devices the Pod's containers claim of exclusive pools.
Claims ==
  {k \in UNION {{<<i, pool>> : pool \in DOMAIN pod.containers[i].limits} : i \in DOMAIN pod.containers} :
     DeterminePoolType(k[2]) = ExclusivePoolID}

TotalRequest(pool) ==
  SumFunction([i \in DOMAIN pod.containers |->
                 LET limits == pod.containers[i].limits
                 IN  IF pool \in DOMAIN limits THEN limits[pool] ELSE 0])

\* The node advertises enough of every pool that is requested.
Fits(pools) ==
  \A pool \in UNION {DOMAIN c.limits : c \in Range(pod.containers)} :
    /\ pool \in DOMAIN pools /\ DeterminePoolType(pool) # DefaultPoolID
    /\ TotalRequest(pool) <= AdvertisedDevices(pools, pool)

Grants(pools) ==
  {g \in [Claims -> SUBSET UNION {pools[n].cpus : n \in DOMAIN pools}] :
     \A k \in Claims :
       /\ g[k] \subseteq pools[k[2]].cpus
       /\ Cardinality(g[k]) = pod.containers[k[1]].limits[k[2]]
       /\ \A l \in Claims \ {k} : l[2] = k[2] => g[l] \cap g[k] = {}}

\* The API server's validation, after the last call.
MountsValid(p) == \A c \in Range(p.containers) : Range(c.mounts) \subseteq Range(p.volumes)

\* The Pod is created and bound to a node with the labels, where the plugin, the
\* controller and the kubelet serve it.
Place ==
  /\ Patched
  /\ stored = <<>>
  /\ MountsValid(pod)
  /\ stored' = <<[pod |-> pod, readable |-> readable]>>
  /\ \E labels \in Nodes : \E pools \in DeterminePoolConfig(labels, Confs) :
       /\ Fits(pools)
       /\ conf' = pools
       /\ grant' \in Grants(pools)
  /\ stage' = "placed"
  /\ UNCHANGED <<quota, submitted, pod, callVars>>

\* The Pod's metadata are updated, for example by SetPodAnnotation.
Update ==
  /\ stage = "placed"
  /\ CallAgain
  /\ UNCHANGED <<quota, apiVars, patches, readable, nodeVars>>

\* The API server refuses an update that changes the Pod's containers.
FinishUpdate ==
  /\ Patched
  /\ stored # <<>>
  /\ pod' = stored[1].pod
  /\ readable' = stored[1].readable
  /\ stage' = "placed"
  /\ UNCHANGED <<quota, submitted, patches, calls, stored, nodeVars>>

Next == Refuse \/ Mutate \/ ApplyPatch \/ Edit \/ Place \/ Update \/ FinishUpdate

Spec == Init /\ [][Next]_vars

-----------------------------------------------------------------------------
(* What the node does with the Pod.                                         *)

\* The kubelet's checkpoint, devices per NUMA node.
Checkpoint ==
  {[pod |-> "pod", cont |-> k[1], pool |-> k[2],
    devices |-> [node \in {NUMANodeOf[cpu] : cpu \in grant[k]} |->
                   {cpu \in grant[k] : NUMANodeOf[cpu] = node}]] : k \in DOMAIN grant}

\* The cpusets that the controller may set for container i.
CpusetsOf(i) ==
  DetermineCorrectCpuset(conf, HTMap, TranslateNewCheckpointToOld(Checkpoint), "pod", i,
    DOMAIN pod.containers[i].limits)

\* What the starter in container i reads from its environment: the CPUs of the
\* pools of the types in CPU_POOLS.
StarterEnv(i) ==
  LET c     == pod.containers[i]
      types == UNION {Range(var.value) : var \in {v \in Range(c.env) : v.name = "CPU_POOLS"}}
  IN  [pool \in {n \in DOMAIN c.limits : DeterminePoolType(n) \in types} |->
         Allocate(conf, HTMap, pool, IF <<i, pool>> \in DOMAIN grant THEN grant[<<i, pool>>] ELSE {})]

Started(i) == pod.containers[i].command = <<ProcessStarter>>

\* EXCLUSIVE_CPUS of container i.
ExclusiveCpus(i) ==
  LET env == StarterEnv(i)
  IN  UNION {env[pool] : pool \in {n \in DOMAIN env : DeterminePoolType(n) = ExclusivePoolID}}

ExclusivePolicies(i) ==
  {conf[k[2]].ht : k \in {l \in DOMAIN grant : l[1] = i}}

-----------------------------------------------------------------------------
(* What must hold.                                                          *)

\* The environment of c has the variable exactly once, with this value.
VarOnce(c, name, value) ==
  \E k \in DOMAIN c.env :
    /\ c.env[k] = [name |-> name, value |-> value]
    /\ \A l \in DOMAIN c.env : c.env[l].name = name => l = k

\* The lists that patchContainerForPinning and patchVolumesForPinning append to without
\* looking whether they are there: the mounts of every container that needs pinning
\* and the volumes of its Pod; and its environment, if it mounts a podinfo of its own,
\* since mutatePods then takes the environment for patched.
ListsThere(p) ==
  \A c \in Range(p.containers) :
    PinningPatchNeeded(p, c) =>
      /\ c.mounts # <<>> /\ p.volumes # <<>>
      /\ Contains(c.mounts, "podinfo") /\ (SharedRequest(c) > 0 \/ ExclusiveRequest(c) > 0) =>
           c.env # <<>>

\* However often the webhook is called, and whatever others add in between: exactly the
\* Pods that lack one of these lists fail by its patches.  All other Pods can be
\* patched, since no patch of patchContainerEnv or of a later call appends to a list that
\* neither the object nor an earlier patch of the call has.
PatchesApply ==
  /\ stage = "broken" => ~ListsThere(submitted)
  /\ Patched \/ stage = "placed" => ListsThere(submitted)

\* Nothing in c has a name that the webhook gives to what it adds, and would take for
\* its own.
Fresh(c) ==
  /\ Range(c.mounts) \cap {"podinfo", "hostbin"} = {}
  /\ ~HasVar(c, "CONTAINER_NAME") /\ ~HasVar(c, "CPU_POOLS")
  /\ c.command # <<ProcessStarter>>

NamesFree(p) ==
  /\ Range(p.volumes) \cap {"podinfo", "hostbin"} = {}
  /\ \A i \in DOMAIN p.containers : Fresh(p.containers[i])

\* After any number of calls with changes by others in between, a container that
\* needs pinning starts the process starter once, with all it needs, each thing
\* once: its own name, the types of its pools, two mounts and their volumes; the
\* submitted command is in its arguments, and nothing else is lost.
StarterReady ==
  NamesFree(submitted) /\ (Patched \/ stage = "placed") =>
    \A i \in DOMAIN submitted.containers :
      LET was == submitted.containers[i]
          is  == pod.containers[i]
      IN  PinningPatchNeeded(submitted, was) =>
            /\ is.command = <<ProcessStarter>>
            /\ is.args = IF Annotated(submitted, was) THEN was.args ELSE was.command \o was.args
            /\ VarOnce(is, "CONTAINER_NAME", <<was.name>>)
            /\ IF PoolTypes(was) = <<DefaultPoolID>> THEN ~HasVar(is, "CPU_POOLS")
               ELSE VarOnce(is, "CPU_POOLS", PoolTypes(was))
            /\ Range(was.env) \subseteq Range(is.env)
            /\ {"podinfo", "hostbin"} \cup Range(was.mounts) = Range(is.mounts)
            /\ {"podinfo", "hostbin"} \cup Range(submitted.volumes) = Range(pod.volumes)

\* A later call with the Pod changes none of its containers, so that updates of
\* it (the controller's annotation is one) are not refused; except for a mixed
\* container whose limit depended on what could be read, or on a map's order.
UpdateChangesNothing ==
  NamesFree(submitted) /\ Patched /\ stored # <<>> =>
    /\ pod.volumes = stored[1].pod.volumes
    /\ \A i \in DOMAIN pod.containers :
         LET c == pod.containers[i]
         IN  \/ c = stored[1].pod.containers[i]
             \/ /\ quota = QuotaAll /\ ExclusiveRequest(c) > 0 /\ SharedRequest(c) > 0
                /\ readable # stored[1].readable \/ Cardinality(SharedPoolNames(c)) > 1

\* A shared pool requested with quantity 0 is a request for the controller, which
\* looks for its key, and none for the webhook, which adds quantities up.
SharesCounted(c) ==
  \A pool \in DOMAIN c.limits : DeterminePoolType(pool) = SharedPoolID => c.limits[pool] > 0

NaturalCounts(processes) == \A p \in Range(processes) : p.cpus >= 0

\* Every process of the annotation has a natural number of CPUs: Decode refuses 0 only.
Counted(p) == \A entries \in Range(p.annotation) : \A k \in DOMAIN entries : NaturalCounts(entries[k].processes)

\* On the node, the cpuset that the controller computes for a container with the
\* starter is the one the starter waits for: whatever the annotation and the
\* requests are, and whichever configuration the node's labels select.  (Only an
\* annotation with a negative number of CPUs brings the starter into a container that
\* requests none, where it would wait for no CPUs at all.)
WaitsForItsCpuset ==
  NamesFree(submitted) /\ stage = "placed" =>
    \A i \in DOMAIN pod.containers :
      LET c == pod.containers[i]
      IN  /\ Started(i) /\ SharesCounted(c)
          /\ Counted(pod) \/ SharedRequest(c) > 0 \/ ExclusiveRequest(c) > 0
          => /\ ExpectedCpus(StarterEnv(i)) # {}
             /\ CpusetsOf(i) = {ExpectedCpus(StarterEnv(i))}

\* With cfs-quotas=all, the limit of a container with exclusive CPUs of a
\* single-threaded pool leaves room for all of them and for the node's whole shared pool
\* ("we need to include the full size of the shared pool"); for its shared request
\* alone if the webhook could not read the configurations, or cannot tell the
\* shared pool by its quantity.  (A multi-threaded pool gives siblings as well, which
\* the limit does not count.)
QuotaCovers ==
  NamesFree(submitted) /\ stage = "placed" /\ quota = QuotaAll =>
    \A i \in DOMAIN pod.containers :
      LET c      == pod.containers[i]
          shared == {pool \in DOMAIN c.limits : DeterminePoolType(pool) = SharedPoolID}
          known  == readable /\ SharedPoolNames(c) = shared
      IN  ExclusiveRequest(c) > 0 /\ ExclusivePolicies(i) = {SingleThreadHTPolicy} /\ SharesCounted(c) =>
            c.cpu[1] >= 1000 * Cardinality(ExclusiveCpus(i))
                        + IF known THEN 1000 * Cardinality(UNION {conf[pool].cpus : pool \in shared})
                          ELSE SharedRequest(c)

\* The starter never runs out of CPUs (setAffinity, "Not enough cpus free") when it
\* starts the processes of a valid annotation in a container whose exclusive CPUs
\* come in pairs of threads, if the annotation has one entry for the container and no
\* negative number of CPUs.  (Decode refuses 0 only, and of sums with negative terms
\* validateAnnotation sees only that they are not too large.)
StarterPinsAll ==
  NamesFree(submitted) /\ stage = "placed" =>
    \A i \in DOMAIN pod.containers : \A entries \in Range(pod.annotation) :
      LET c  == pod.containers[i]
          of == {k \in DOMAIN entries : entries[k].name = c.name}
      IN  ExclusivePolicies(i) = {MultiThreadHTPolicy} /\ Cardinality(of) = 1 =>
            \A k \in of :
              NaturalCounts(entries[k].processes) =>
                CpusOfProcesses(entries[k].processes, {l[2] : l \in DOMAIN grant})
                  <= Cardinality(ExclusiveCpus(i))

-----------------------------------------------------------------------------
(* What the documents say and the code does not do.                         *)

\* webhook.go: "'shared' - CPUSets doesn't provision quotas for containers using
\* exclusive pools" (the flag cfs-quotas).
NoQuotaForExclusive ==
  Patched /\ quota = QuotaShared =>
    \A i \in DOMAIN pod.containers :
      ExclusiveRequest(pod.containers[i]) > 0 => pod.containers[i].cpu = submitted.containers[i].cpu
=============================================================================
