----------------------------- MODULE WebhookCalc -----------------------------
(***************************************************************************)
(* What the admission webhook computes from a Pod (cmd/webhook/webhook.go  *)
(* and pkg/types/annotation.go): the CPUs its containers request, whether  *)
(* its CPU annotation is valid, and the JSON patches.                      *)
(*                                                                         *)
(* A Pod is [containers, volumes, annotation]: volumes are named by a      *)
(* sequence, annotation is <<>> or <<entries>>, the value of "cmss.cn/cpus"*)
(* as a sequence of [name, processes] with processes a sequence of         *)
(* [process, pool, cpus].  A container is [name, limits, cpu, env, mounts, *)
(* command, args]: limits maps the pools in resources.limits to quantities,*)
(* cpu is <<>> or <<limit, request>> of the resource "cpu" in milli-CPUs,  *)
(* env a sequence of [name, value], mounts the volumes mounted.  <<>> is a *)
(* field the object does not have (empty ones are left out of its JSON).   *)
(***************************************************************************)
EXTENDS CpusetCalc

QuotaAll    == "all"
QuotaShared == "shared"

ProcessStarter == "/opt/bin/process-starter"

-----------------------------------------------------------------------------
(* Requests.                                                               *)

\* getCPUPoolRequests: what c requests of the pools of a type.
CpuRequest(c, type) ==
  SumFunctionOnSet(c.limits, {pool \in DOMAIN c.limits : IsPrefix(<<type>>, pool)})

SharedRequest(c)    == CpuRequest(c, SharedPoolID)
ExclusiveRequest(c) == CpuRequest(c, ExclusivePoolID)

\* value.String() writes a quantity with the largest suffix that fits; the code
\* turns "k" back into thousands and cannot convert what ends in "M" or more.
Convertible(quantity) == quantity = 0 \/ quantity % 1000000 # 0

-----------------------------------------------------------------------------
(* The annotation: entries is its decoded JSON array.                      *)

ContainerNames(entries) == {entries[k].name : k \in DOMAIN entries}

\* Decode builds a map: of several entries for one container the last remains.
Processes(entries, name) ==
  entries[Max({k \in DOMAIN entries : entries[k].name = name})].processes

DecodeFails(entries) ==
  \E name \in ContainerNames(entries) :
    \/ name = ""
    \/ Processes(entries, name) = <<>>
    \/ \E p \in Range(Processes(entries, name)) : p.process = "" \/ p.cpus = 0

ContainerPools(entries, name) == {p.pool : p \in Range(Processes(entries, name))}

CpusOfProcesses(processes, pools) ==
  SumFunction([k \in DOMAIN processes |-> IF processes[k].pool \in pools THEN processes[k].cpus ELSE 0])

ContainerTotalCPURequest(entries, pool, name) ==
  CpusOfProcesses(Processes(entries, name), {pool})

ContainerSharedCPUTime(entries, name) ==
  CpusOfProcesses(Processes(entries, name),
    {pool \in ContainerPools(entries, name) : IsPrefix(<<SharedPoolID>>, pool)})

\* Mutant of ValidAnnotation: the number of CPUs is not compared.
ValidAnnotationOfAnySize(containers, entries) ==
  \A name \in ContainerNames(entries) : \A pool \in ContainerPools(entries, name) :
    \E c \in Range(containers) : c.name = name /\ pool \in DOMAIN c.limits

\* validateAnnotation: every entry names a container, pools it requests, all of
\* the shared CPU time it requests, and at most twice the CPUs of each pool.
ValidAnnotation(containers, entries) ==
  \A name \in ContainerNames(entries) : \A pool \in ContainerPools(entries, name) :
    \E c \in Range(containers) :
      /\ c.name = name
      /\ ContainerSharedCPUTime(entries, name) = SharedRequest(c)
      /\ pool \in DOMAIN c.limits
      /\ ContainerTotalCPURequest(entries, pool, name) <= 2 * c.limits[pool]

-----------------------------------------------------------------------------
(* CFS limits.  confs is what ReadAllPoolConfigs returns, if it succeeds.  *)

\* The pools that getMaxSharedPoolLimit may take for the shared one, by quantity.
SharedPoolNames(c) == {pool \in DOMAIN c.limits : c.limits[pool] = SharedRequest(c)}

\* getMaxSharedPoolLimit: the largest pool of that name in any configuration.
MaxSharedPoolLimits(c, confs, readable) ==
  LET sizes(name) == {1000 * Cardinality(conf.pools[name].cpus) :
                        conf \in {x \in Range(confs) : name \in DOMAIN x.pools}}
  IN  IF ~readable THEN {SharedRequest(c)}
      ELSE IF SharedPoolNames(c) = {} THEN {0}
      ELSE {Max(sizes(name) \cup {0}) : name \in SharedPoolNames(c)}

\* Mutant of CfsLimits: a mixed container gets what it requests, not the pool.
CfsLimitsOfRequests(c, quota, confs, readable) ==
  IF quota = QuotaAll THEN {1000 * ExclusiveRequest(c) + SharedRequest(c)} ELSE {SharedRequest(c)}

\* setRequestLimit: the totals it may arrive at; 0 sets no limit.
CfsLimits(c, quota, confs, readable) ==
  IF ExclusiveRequest(c) > 0 /\ quota = QuotaAll
  THEN IF SharedRequest(c) > 0
       THEN {1000 * ExclusiveRequest(c) + max : max \in MaxSharedPoolLimits(c, confs, readable)}
       ELSE {1000 * ExclusiveRequest(c) + 100}
  ELSE {SharedRequest(c)}

-----------------------------------------------------------------------------
(* Patches.  A patch appends value to a field of container number at (0:    *)
(* of the Pod), or sets the field to it.  JSON Patch cannot append to a     *)
(* field that the object does not have.                                     *)

Patch(op, at, field, value) == [op |-> op, at |-> at, field |-> field, value |-> value]
AppendTo(at, field, x)      == Patch("append", at, field, <<x>>)
SetTo(at, field, value)     == Patch("set", at, field, value)

\* patchCPULimit sets the limit, and the request to zero.
PatchCPULimit(i, total) == IF total > 0 THEN <<SetTo(i, "cpu", <<total, 0>>)>> ELSE <<>>

\* The types of pool that CPU_POOLS names, "exclusive&shared" being two.
PoolTypes(c) ==
  IF ExclusiveRequest(c) > 0
  THEN IF SharedRequest(c) > 0 THEN <<ExclusivePoolID, SharedPoolID>> ELSE <<ExclusivePoolID>>
  ELSE IF SharedRequest(c) > 0 THEN <<SharedPoolID>> ELSE <<DefaultPoolID>>

PatchEnv(c, i, present, var) ==
  IF present \/ c.env # <<>> THEN AppendTo(i, "env", var) ELSE SetTo(i, "env", <<var>>)

HasVar(c, name) == \E k \in DOMAIN c.env : c.env[k].name = name

\* Mutants of PatchContainerEnv: always appending; adding the variable every time.
PatchContainerEnvAppending(c, i, envPatched) ==
  IF HasVar(c, "CPU_POOLS") THEN <<>>
  ELSE <<AppendTo(i, "env", [name |-> "CPU_POOLS", value |-> PoolTypes(c)])>>

PatchContainerEnvAgain(c, i, envPatched) ==
  <<PatchEnv(c, i, envPatched, [name |-> "CPU_POOLS", value |-> PoolTypes(c)])>>

\* envPatched: an earlier patch of this call gives the container an environment.
PatchContainerEnv(c, i, envPatched) ==
  IF HasVar(c, "CPU_POOLS") THEN <<>>
  ELSE <<PatchEnv(c, i, envPatched, [name |-> "CPU_POOLS", value |-> PoolTypes(c)])>>

\* patchContainerForPinning; a container that mounts podinfo has been patched.
PatchContainerForPinning(c, i, annotated) ==
  IF Contains(c.mounts, "podinfo") THEN <<>>
  ELSE <<AppendTo(i, "mounts", "podinfo"), AppendTo(i, "mounts", "hostbin"),
         PatchEnv(c, i, FALSE, [name |-> "CONTAINER_NAME", value |-> <<c.name>>]),
         SetTo(i, "command", <<ProcessStarter>>)>>
       \o (IF c.command # <<>> /\ ~annotated
           THEN <<SetTo(i, "args", c.command \o c.args)>> ELSE <<>>)

\* cpuAnnotation.IsContainerExists
Annotated(pod, c) == \E k \in DOMAIN pod.annotation : c.name \in ContainerNames(pod.annotation[k])

PinningPatchNeeded(pod, c) == Annotated(pod, c) \/ (ExclusiveRequest(c) > 0 /\ c.command # <<>>)

\* Mutant of ContainerPatches: that pinning gave the container an environment is lost.
ContainerPatchesForgettingEnv(pod, i, limit) ==
  LET c       == pod.containers[i]
      pinning == PinningPatchNeeded(pod, c)
      pooled  == SharedRequest(c) > 0 \/ ExclusiveRequest(c) > 0
  IN  PatchCPULimit(i, limit)
      \o (IF pinning THEN PatchContainerForPinning(c, i, Annotated(pod, c)) ELSE <<>>)
      \o (IF pooled THEN PatchContainerEnv(c, i, FALSE) ELSE <<>>)

\* An iteration of mutatePods's loop.
ContainerPatches(pod, i, limit) ==
  LET c       == pod.containers[i]
      pinning == PinningPatchNeeded(pod, c)
      pooled  == SharedRequest(c) > 0 \/ ExclusiveRequest(c) > 0
  IN  PatchCPULimit(i, limit)
      \o (IF pinning THEN PatchContainerForPinning(c, i, Annotated(pod, c)) ELSE <<>>)
      \o (IF pooled THEN PatchContainerEnv(c, i, pinning) ELSE <<>>)

PinningPatchAdded(pod) == \E c \in Range(pod.containers) : PinningPatchNeeded(pod, c)

\* patchVolumesForPinning, unless one of the two volumes is there.
VolumePatches(pod) ==
  IF PinningPatchAdded(pod) /\ ~Contains(pod.volumes, "hostbin") /\ ~Contains(pod.volumes, "podinfo")
  THEN <<AppendTo(0, "volumes", "podinfo"), AppendTo(0, "volumes", "hostbin")>>
  ELSE <<>>

\* mutatePods: the Pods it refuses, and the patches for one that it accepts.
Refuses(pod) ==
  \/ \E c \in Range(pod.containers) : \E pool \in DOMAIN c.limits : ~Convertible(c.limits[pool])
  \/ \E entries \in Range(pod.annotation) :
       DecodeFails(entries) \/ ~ValidAnnotation(pod.containers, entries) \/ ~PinningPatchAdded(pod)

\* The patches are kept as one list per container, in the order in which they are
\* applied, and a last one for the volumes.
MutatePods(pod, limits) ==
  Append([i \in DOMAIN pod.containers |-> ContainerPatches(pod, i, limits[i])], VolumePatches(pod))

-----------------------------------------------------------------------------
(* Applying a patch (external: the API server).                             *)

CurrentValue(pod, patch) ==
  IF patch.at = 0 THEN pod[patch.field] ELSE pod.containers[patch.at][patch.field]

Applies(pod, patch) == patch.op = "append" => CurrentValue(pod, patch) # <<>>

Applied(pod, patch) ==
  LET value == IF patch.op = "append" THEN CurrentValue(pod, patch) \o patch.value ELSE patch.value
  IN  IF patch.at = 0 THEN [pod EXCEPT ![patch.field] = value]
      ELSE [pod EXCEPT !.containers[patch.at][patch.field] = value]
=============================================================================
