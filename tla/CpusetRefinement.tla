-------------------------- MODULE CpusetRefinement --------------------------
(***************************************************************************)
(* The controller implements CpusetPromise: what the abstract cgroups are  *)
(* given is read off the cpuset files.                                     *)
(***************************************************************************)
EXTENDS CpusetController

\* A new cgroup has the cpuset of its parent, where the default pool is part of the
\* CPUs and not all of them, and the pools are distinct: otherwise no one could
\* tell, from its cpuset, a cgroup that was set from one that was not.
ASSUME InheritedAssumption ==
  /\ DefaultCpus \subseteq Inherited /\ DefaultCpus # Inherited
  /\ DefaultCpus \cap SharedCpus = {}

\* A Pod bound to this node has its sandbox, and only such a Pod has directories.
Sandboxes ==
  /\ \A p \in LocalPods : phase[p] = "bound" => Infra(p) \in dirs
  /\ \A d \in dirs : d[1] \in LocalPods

\* A set that is none of the others is not a gift of the promise's: no step of it
\* leads to "wrong".
Given(d) ==
  IF d \notin dirs THEN "none"
  ELSE IF cpus[d] = Inherited THEN "inherited"
  ELSE IF d[2] # 0 /\ cpus[d] = Entitled(d[1], d[2]) THEN "own"
  ELSE IF cpus[d] = DefaultCpus THEN "default"
  ELSE "wrong"

givenBar == [d \in Dirs |-> Given(d)]

Promise == INSTANCE CpusetPromise WITH Cgroups <- Dirs, given <- givenBar

\* Every behaviour of the controller and its cluster is one of the promise: however
\* copies age, workers retry and die, and the reconciler races with them, a
\* container's cpuset only ever becomes its own, or, once it was restarted, the
\* default pool; it never goes back to the initial one; what a container has
\* before its first restart it keeps; and annotations come after the cpusets
\* (adjustContainerSets, applyCpusetToInfraContainer, reconcileContainer).
ImplementsPromise == Promise!Spec
=============================================================================
