------------------------- MODULE AdmissionInvariant -------------------------
(***************************************************************************)
(* What the proofs about Admission assume of Pods, pools and nodes, and    *)
(* the inductive invariant: how far the webhook's patches have come, what  *)
(* stays of them when it is called again, and what the node was given.     *)
(***************************************************************************)
EXTENDS Admission, PoolNames

-----------------------------------------------------------------------------
(* Assumptions.                                                             *)

IsSequence(s) == s \in Seq(Range(s))

\* A container's fields; in the names of pools, STRING stands for words.
IsContainer(c) ==
  /\ c = [name |-> c.name, limits |-> c.limits, cpu |-> c.cpu, env |-> c.env, mounts |-> c.mounts,
          command |-> c.command, args |-> c.args]
  /\ IsSequence(c.env) /\ IsSequence(c.mounts) /\ IsSequence(c.command) /\ IsSequence(c.args)
  /\ c.limits \in [DOMAIN c.limits -> Nat]
  /\ IsFiniteSet(DOMAIN c.limits)
  /\ DOMAIN c.limits \subseteq Seq(STRING)

\* A Pod's fields.
IsPod(p) ==
  /\ p = [containers |-> p.containers, volumes |-> p.volumes, annotation |-> p.annotation]
  /\ IsSequence(p.containers) /\ IsSequence(p.volumes)
  /\ \A i \in DOMAIN p.containers : IsContainer(p.containers[i])

\* A container asks for one exclusive pool at most: of several the controller takes
\* the CPUs of one (see PoolNames).
OneExclusivePool(c) ==
  \A m, n \in DOMAIN c.limits :
    DeterminePoolType(m) = ExclusivePoolID /\ DeterminePoolType(n) = ExclusivePoolID => m = n

ProcessEntry == [process : STRING, pool : Seq(STRING), cpus : Int]

AnnotationEntry == [name : STRING, processes : Seq(ProcessEntry)]

IsAnnotation(entries) == entries \in Seq(AnnotationEntry)

\* What every Pod is, with or without the fields that may be missing: its containers
\* have names of their own, and its annotation is a list of entries.
WellFormed(p) ==
  /\ IsPod(p)
  /\ \A entries \in Range(p.annotation) : IsAnnotation(entries)
  /\ \A i \in DOMAIN p.containers : OneExclusivePool(p.containers[i])
  /\ \A i, j \in DOMAIN p.containers : p.containers[i].name = p.containers[j].name => i = j

ASSUME PodsAssumption ==
  /\ \A p \in Submitted : WellFormed(p)
  /\ \A c \in Sidecars : IsContainer(c) /\ OneExclusivePool(c)

\* A Pod that the webhook can patch and that has none of its names.
ProperPod(p) == WellFormed(p) /\ NamesFree(p) /\ ListsThere(p)

ASSUME ConfsAssumption ==
  /\ Confs \in Seq(Range(Confs))
  /\ \A x \in Range(Confs) :
       /\ UnambiguousNames(x.pools)
       /\ \A n \in DOMAIN x.pools : n \in Seq(STRING) /\ IsFiniteSet(x.pools[n].cpus)

\* GetHTTopology gives no CPU to two cores; a multi-threaded pool lists CPUs with
\* the numbers of their cores, and every such core has a second thread.
ASSUME ThreadsAssumption ==
  /\ \A m, n \in DOMAIN HTMap : m # n => HTMap[m] \cap HTMap[n] = {}
  /\ \A cpu \in DOMAIN HTMap : IsFiniteSet(HTMap[cpu])
  /\ \A x \in Range(Confs) : \A n \in DOMAIN x.pools :
       x.pools[n].ht = MultiThreadHTPolicy =>
         \A cpu \in x.pools[n].cpus :
           cpu \in DOMAIN HTMap /\ HTMap[cpu] \ x.pools[n].cpus # {}

-----------------------------------------------------------------------------
(* The patches of one container; sub is the Pod without patches.            *)

ContainerVar(was) == [name |-> "CONTAINER_NAME", value |-> <<was.name>>]
PoolsVar(was)     == [name |-> "CPU_POOLS", value |-> PoolTypes(was)]

\* What a patch changes: a field, or the volume or variable of a name.
Kind(p) ==
  IF p.field = "env" THEN p.value[1].name
  ELSE IF p.field \in {"mounts", "volumes"} THEN p.value[1]
  ELSE p.field

Kinds(list) == {Kind(list[k]) : k \in DOMAIN list}

\* The order in which mutatePods writes a container's patches, and the volumes'.
Rank(kind) ==
  CASE kind = "cpu"            -> 1
    [] kind = "podinfo"        -> 2
    [] kind = "hostbin"        -> 3
    [] kind = "CONTAINER_NAME" -> 4
    [] kind = "command"        -> 5
    [] kind = "args"           -> 6
    [] kind = "CPU_POOLS"      -> 7

InOrder(list) == \A j, k \in DOMAIN list : j < k => Rank(Kind(list[j])) < Rank(Kind(list[k]))

Pinned(sub, i) == PinningPatchNeeded(sub, sub.containers[i])
Pooled(sub, i) == SharedRequest(sub.containers[i]) > 0 \/ ExclusiveRequest(sub.containers[i]) > 0
Moved(sub, i)  == Pinned(sub, i) /\ ~Annotated(sub, sub.containers[i])

MovedArgs(was) == was.command \o was.args

EnvPatch(p, i, var) == p \in {AppendTo(i, "env", var), SetTo(i, "env", <<var>>)}

IsLimitPatch(p, i) == p = SetTo(i, "cpu", <<p.value[1], 0>>)

\* The patches that mutatePods may make for container i.
PossiblePatch(sub, p, i) ==
  LET was == sub.containers[i]
  IN  \/ p.field = "cpu" /\ IsLimitPatch(p, i)
      \/ p.field = "mounts" /\ Pinned(sub, i) /\ \E name \in {"podinfo", "hostbin"} : p = AppendTo(i, "mounts", name)
      \/ p.field = "env" /\ Pinned(sub, i) /\ EnvPatch(p, i, ContainerVar(was))
      \/ p.field = "env" /\ Pooled(sub, i) /\ EnvPatch(p, i, PoolsVar(was))
      \/ p.field = "command" /\ Pinned(sub, i) /\ p = SetTo(i, "command", <<ProcessStarter>>)
      \/ p.field = "args" /\ Moved(sub, i) /\ p = SetTo(i, "args", MovedArgs(was))

\* Container i is what it was, and all its patches but those of the kinds left are in it.
FieldsPatched(sub, i, is, left) ==
  LET was == sub.containers[i]
      done(kind, needed) == needed /\ kind \notin left
  IN  /\ is.name = was.name /\ is.limits = was.limits
      /\ Range(is.mounts) = Range(was.mounts) \cup {m \in {"podinfo", "hostbin"} : done(m, Pinned(sub, i))}
      /\ is.command = IF done("command", Pinned(sub, i)) THEN <<ProcessStarter>> ELSE was.command
      /\ is.args = IF done("args", Moved(sub, i)) THEN MovedArgs(was) ELSE was.args
      /\ Range(was.env) \subseteq Range(is.env)
      /\ IF done("CONTAINER_NAME", Pinned(sub, i)) THEN VarOnce(is, "CONTAINER_NAME", <<was.name>>)
         ELSE ~HasVar(is, "CONTAINER_NAME")
      /\ IF done("CPU_POOLS", Pooled(sub, i)) THEN VarOnce(is, "CPU_POOLS", PoolTypes(was))
         ELSE ~HasVar(is, "CPU_POOLS")

\* The list sets the environment where there will be none, and appends where there is.
EnvReady(is, list) ==
  \A k \in DOMAIN list : list[k].field = "env" =>
    IF list[k].op = "set"
    THEN is.env = <<>> /\ (Kind(list[k]) = "CPU_POOLS" => "CONTAINER_NAME" \notin Kinds(list))
    ELSE is.env # <<>> \/ (Kind(list[k]) = "CPU_POOLS" /\ "CONTAINER_NAME" \in Kinds(list))

\* All the patches of container i but those of the list are in it.
PatchedBut(sub, i, is, list) ==
  /\ \A k \in DOMAIN list : PossiblePatch(sub, list[k], i)
  /\ FieldsPatched(sub, i, is, Kinds(list))
  /\ EnvReady(is, list)

-----------------------------------------------------------------------------
(* The invariant.                                                           *)

Conts == DOMAIN submitted.containers

\* The list of the volumes' patches comes after those of the containers.
VolumesAt == Len(submitted.containers) + 1

Left(k) == IF stage = "patching" THEN patches[k] ELSE <<>>

\* The Pod is the submitted one but for what the patches change.
PodShape ==
  /\ ProperPod(submitted)
  /\ IsPod(pod) /\ pod.annotation = submitted.annotation /\ DOMAIN pod.containers = Conts

IsList(s) == Len(s) \in Nat /\ s = [k \in 1..Len(s) |-> s[k]]

\* While patches are applied there is a list for each container and one for the
\* volumes, in their order.
PatchLists ==
  stage = "patching" =>
    /\ IsList(patches)
    /\ DOMAIN patches = Conts \cup {VolumesAt}
    /\ \A k \in DOMAIN patches : IsList(patches[k]) /\ InOrder(patches[k])

\* Before a call a container is as submitted or has all its patches.
ContainersPatched ==
  \A i \in Conts :
    \/ stage \in {"review", "refused"} /\ pod.containers[i] = submitted.containers[i]
    \/ PatchedBut(submitted, i, pod.containers[i], Left(i))

SomePinned == \E i \in Conts : Pinned(submitted, i)

\* The volumes come when a container is pinned.
VolumesPatched ==
  LET added == Range(pod.volumes) \ Range(submitted.volumes)
      list  == Left(VolumesAt)
  IN  /\ Range(submitted.volumes) \subseteq Range(pod.volumes)
      /\ \A k \in DOMAIN list : \E name \in {"podinfo", "hostbin"} : list[k] = AppendTo(0, "volumes", name)
      /\ list # <<>> => SomePinned
      /\ stage \in {"review", "refused"} =>
           added = {} \/ (SomePinned /\ added = {"podinfo", "hostbin"})
      /\ stage \in {"patching", "placed"} =>
           added = IF SomePinned THEN {"podinfo", "hostbin"} \ Kinds(list) ELSE {}

\* A Pod that was accepted has a valid annotation.
AnnotationAccepted ==
  stage \in {"patching", "placed"} =>
    \A entries \in Range(submitted.annotation) :
      ~DecodeFails(entries) /\ ValidAnnotation(submitted.containers, entries)

\* The limit of c is one that a call with ok may set, or what c had if that is none.
LimitSet(c, q, ok) == \E t \in CfsLimits(c, q, Confs, ok) : t > 0 => c.cpu = <<t, 0>>

\* A pending limit is one that the call may set; if none is pending, it is set.
LimitRight(c, list, q, ok) ==
  LET pending == {k \in DOMAIN list : list[k].field = "cpu"}
  IN  /\ pending = {} => LimitSet(c, q, ok)
      /\ \A k \in pending : \E t \in CfsLimits(c, q, Confs, ok) : list[k].value = <<t, 0>>

LimitsSet ==
  stage \in {"patching", "placed"} =>
    \A i \in Conts : LimitRight(pod.containers[i], Left(i), quota, readable)

\* Two calls, with ok and with first, may come to different limits for c.
MayDiffer(c, q, ok, first) ==
  /\ q = QuotaAll /\ ExclusiveRequest(c) > 0 /\ SharedRequest(c) > 0
  /\ ok # first \/ Cardinality(SharedPoolNames(c)) > 1

\* What is left for container c, stored as s, is to set the limit that it has.
OnlyItsLimit(c, s, list, may) ==
  /\ c = [s EXCEPT !.cpu = c.cpu]
  /\ c.cpu = s.cpu \/ may
  /\ \A k \in DOMAIN list : list[k].field = "cpu" /\ (list[k].value = s.cpu \/ may)

\* A stored Pod has its limits, and a call with it leaves only limits to be set:
\* the ones that it has, if the call could read what the first could.
StoredStays ==
  stored # <<>> =>
    /\ stored[1].pod.volumes = pod.volumes
    /\ IsPod(stored[1].pod) /\ stored[1].pod.annotation = submitted.annotation
    /\ DOMAIN stored[1].pod.containers = Conts
    /\ Left(VolumesAt) = <<>>
    /\ SomePinned => {"podinfo", "hostbin"} \subseteq Range(pod.volumes)
    /\ stage # "patching" => pod = stored[1].pod
    /\ stage = "placed" => readable = stored[1].readable
    /\ \A i \in Conts :
         LET c == pod.containers[i]
             s == stored[1].pod.containers[i]
         IN  /\ PatchedBut(submitted, i, c, Left(i))
             /\ LimitSet(s, quota, stored[1].readable)
             /\ OnlyItsLimit(c, s, Left(i), MayDiffer(c, quota, readable, stored[1].readable))

\* The containers' claims of exclusive pools, as submitted.
SubmittedClaims ==
  {k \in UNION {{<<i, n>> : n \in DOMAIN submitted.containers[i].limits} : i \in Conts} :
     DeterminePoolType(k[2]) = ExclusivePoolID}

\* The node has the pools that are asked for, with CPUs enough for each, and the
\* kubelet has granted every claim.
Granted ==
  stored # <<>> =>
    /\ \E x \in Range(Confs) : conf = x.pools
    /\ \A i \in Conts : \A n \in DOMAIN submitted.containers[i].limits :
         /\ n \in DOMAIN conf /\ DeterminePoolType(n) # DefaultPoolID
         /\ submitted.containers[i].limits[n] <= AdvertisedDevices(conf, n)
    /\ DOMAIN grant = SubmittedClaims
    /\ \A k \in SubmittedClaims :
         /\ grant[k] \subseteq conf[k[2]].cpus
         /\ Cardinality(grant[k]) = submitted.containers[k[1]].limits[k[2]]

\* What is so for a Pod that can be patched and has none of the webhook's names.
OrdinaryInv ==
  /\ stage \in {"review", "patching", "refused", "placed"}
  /\ stage = "placed" => stored # <<>>
  /\ PodShape /\ PatchLists /\ ContainersPatched /\ VolumesPatched
  /\ AnnotationAccepted /\ LimitsSet /\ StoredStays /\ Granted

-----------------------------------------------------------------------------
(* The lists that patches append to, for every Pod.                         *)

\* Every patch of the list finds what it appends to, in p or by an earlier patch.
FindsLists(p, list) ==
  \A k \in DOMAIN list :
    list[k].op = "append" =>
      CurrentValue(p, list[k]) # <<>> \/ \E j \in 1..k-1 : list[j].field = list[k].field

\* Where p, some state of the Pod, differs from the submitted one, it needs the same
\* patches, and no list is missing that was there.
SameNeeds(p) ==
  /\ IsPod(p) /\ p.annotation = submitted.annotation /\ DOMAIN p.containers = Conts
  /\ p.volumes = <<>> <=> submitted.volumes = <<>>
  /\ \A i \in Conts :
       LET was == submitted.containers[i]
           is  == p.containers[i]
       IN  /\ is.name = was.name /\ is.limits = was.limits
           /\ Pinned(p, i) <=> Pinned(submitted, i)
           /\ is.mounts = <<>> <=> was.mounts = <<>>

\* A patch of container i: what it appends or sets is not empty.
PatchOfContainer(p, i) ==
  /\ p.at = i /\ p.value # <<>> /\ IsSequence(p.value)
  /\ p.field \in {"cpu", "mounts", "env", "command", "args"}
  /\ p.field = "mounts" => p.op = "append"
  /\ p.field \in {"cpu", "command", "args"} => p.op = "set"

\* List k is of container k, or of the volumes.  Only a container that needs pinning
\* gets another command.
PatchOfList(p, k) ==
  \/ k = VolumesAt /\ p = AppendTo(0, "volumes", p.value[1])
  \/ k \in Conts /\ PatchOfContainer(p, k) /\ (p.field = "command" => Pinned(submitted, k))

\* All lists are there for the patches that are left if they were in the submitted Pod.
\* A container with a pool has an environment at last.
PatchesFindLists ==
  stage = "patching" =>
    /\ IsList(patches) /\ DOMAIN patches = Conts \cup {VolumesAt}
    /\ \A k \in DOMAIN patches :
         IsList(patches[k]) /\ \A n \in DOMAIN patches[k] : PatchOfList(patches[k][n], k)
    /\ ListsThere(submitted) <=> \A k \in DOMAIN patches : FindsLists(pod, patches[k])
    /\ \A i \in Conts : Pooled(submitted, i) =>
         pod.containers[i].env # <<>> \/ \E n \in DOMAIN patches[i] : patches[i][n].field = "env"

\* A later call finds the lists if the first did.
ListsInv ==
  /\ stage \in {"review", "patching", "refused", "broken", "placed"}
  /\ WellFormed(submitted) /\ SameNeeds(pod) /\ PatchesFindLists
  /\ stage = "review" => (ListsThere(pod) <=> ListsThere(submitted))
  /\ stage = "broken" => ~ListsThere(submitted)
  /\ stage = "placed" => stored # <<>> /\ pod = stored[1].pod
  /\ stored # <<>> =>
       SameNeeds(stored[1].pod) /\ ListsThere(stored[1].pod) /\ ListsThere(submitted)

AdmissionInv == ListsInv /\ (NamesFree(submitted) /\ ListsThere(submitted) => OrdinaryInv)
=============================================================================
