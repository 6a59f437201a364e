---------------------------- MODULE CpusetPromise ----------------------------
(***************************************************************************)
(* What the cpusets controller promises about the cgroups of a node, and   *)
(* nothing of how: no queue, workers, copies, devices or names.  A cgroup  *)
(* <<p, i, k>> is that of the k-th incarnation of container i of Pod p; 0  *)
(* is the infra container.                                                 *)
(***************************************************************************)
EXTENDS Naturals

CONSTANTS
  Cgroups  \* the cgroups that may come to exist

VARIABLES
  given,     \* what each holds: see Gifts
  annotated  \* the Pods said to be completely set

vars == <<given, annotated>>

\* No such cgroup now; the cpuset of its parent; its container's; the default pool.
Gifts == {"none", "inherited", "own", "default"}

Init ==
  /\ given = [d \in Cgroups |-> "none"]
  /\ annotated = {}

\* Only d changes.
Give(d, gift) ==
  /\ given'[d] = gift
  /\ \A c \in Cgroups \ {d} : given'[c] = given[c]
  /\ DOMAIN given' = Cgroups
  /\ UNCHANGED annotated

\* The container runtime creates cgroups.
Create(d) == given[d] = "none" /\ Give(d, "inherited")

\* A container gets its cpuset, whatever it had.
Provide(d) == given[d] \in {"inherited", "default"} /\ d[2] # 0 /\ Give(d, "own")

\* The infra container gets the default pool.  So may a container that was
\* restarted, even if it has its own already; one that never was does not.
Default(d) == given[d] \in {"inherited", "own"} /\ (d[2] = 0 \/ d[3] > 1) /\ Give(d, "default")

\* A container's cgroup is removed, or with the infra container's all of the Pod's.
Remove(d) ==
  /\ given[d] # "none"
  /\ \A c \in Cgroups :
       given'[c] = IF c = d \/ (d[2] = 0 /\ c[1] = d[1]) THEN "none" ELSE given[c]
  /\ DOMAIN given' = Cgroups
  /\ UNCHANGED annotated

\* A Pod is annotated when those of its containers that run, and never were
\* restarted, have their cpusets.
Annotate(p) ==
  /\ p \notin annotated
  /\ annotated' = annotated \cup {p}
  /\ \A d \in Cgroups : d[1] = p /\ d[2] # 0 /\ d[3] = 1 => given[d] \in {"none", "own"}
  /\ UNCHANGED given

\* (That d changes is said first because it is quick to check.)
Next ==
  \/ \E d \in Cgroups :
       /\ given'[d] # given[d]
       /\ Create(d) \/ Provide(d) \/ Default(d) \/ Remove(d)
  \/ \E p \in {d[1] : d \in Cgroups} : Annotate(p)

Spec == Init /\ [][Next]_vars
=============================================================================
