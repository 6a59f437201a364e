----------------------------- MODULE PoolNames -----------------------------
(***************************************************************************)
(* The code finds pools by prefixes and substrings of their names.  This   *)
(* module says which configurations and requests leave these searches      *)
(* without a choice: what the forked CPU-Pooler's README asks for (lines   *)
(* 114-115, 130), and a bit more.  The code checks none of it but the      *)
(* single shared pool (validatePools in device-plugin.go), and that in the *)
(* device plugin only.                                                     *)
(***************************************************************************)
EXTENDS CpusetCalc

\* "shared" and "exclusive" occur in the names that begin with them and in no
\* others; pools of the default type, and only they, have names that begin with
\* "default"; there is one shared and one default pool at most; and the name of
\* an exclusive pool is a prefix of no other pool's.
UnambiguousNames(conf) ==
  /\ \A n \in DOMAIN conf :
       /\ IsSharedRequest(n) <=> DeterminePoolType(n) = SharedPoolID
       /\ IsExclusiveRequest(n) <=> DeterminePoolType(n) = ExclusivePoolID
       /\ IsPrefix(<<DefaultPoolID>>, n) <=> DeterminePoolType(n) = DefaultPoolID
  /\ \A m, n \in DOMAIN conf :
       IF DeterminePoolType(m) = ExclusivePoolID
       THEN IsPrefix(m, n) <=> m = n
       ELSE DeterminePoolType(m) = DeterminePoolType(n) => m = n

\* A container asks for pools of the configuration, one exclusive pool at most.
ServableRequests(conf, requests) ==
  /\ requests \subseteq DOMAIN conf
  /\ \A m, n \in requests :
       DeterminePoolType(m) = ExclusivePoolID /\ DeterminePoolType(n) = ExclusivePoolID => m = n

\* All CPUs of the pools of a type.
CpusOfType(conf, type) ==
  UNION {conf[n].cpus : n \in {m \in DOMAIN conf : DeterminePoolType(m) = type}}

\* What devices of the pool n stand for under its own policy.
UnderPolicy(conf, htMap, n, devices) ==
  IF conf[n].ht = MultiThreadHTPolicy THEN AddHTSiblingsToCPUSet(devices, htMap) ELSE devices

\* The variables that the device plugin sets for the pools a container asks for,
\* under the allocation that the kubelet recorded.
EnvironmentOf(conf, htMap, checkpoint, pod, cont, requests) ==
  [n \in {m \in requests : DeterminePoolType(m) # DefaultPoolID} |->
     Allocate(conf, htMap, n, AllocatedDevices(checkpoint, pod, cont, n))]
=============================================================================
