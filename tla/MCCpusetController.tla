------------------------ MODULE MCCpusetController ------------------------
EXTENDS CpusetEntitlement, CpusetRefinement

CONSTANTS p1, p2, w1, w2

\* Four cores; cores 1 and 2 have a second thread, 4 and 5.
CoreOf == [cpu \in 0..5 |-> IF cpu < 4 THEN cpu ELSE cpu - 3]
MCHTMap == GetHTTopology(CoreOf)
MCInherited == 0..5

Exclusive == <<"exclusive">>
Shared    == <<"shared">>
Default   == <<"default">>

MCPoolConfig ==
  (Exclusive :> [cpus |-> {1, 2}, ht |-> MultiThreadHTPolicy]) @@
  (Shared    :> [cpus |-> {3},    ht |-> SingleThreadHTPolicy]) @@
  (Default   :> [cpus |-> {0},    ht |-> SingleThreadHTPolicy])

\* One container each, exclusive, the second with a shared request as well.
OneContainer == (p1 :> <<(Exclusive :> 1)>>) @@ (p2 :> <<(Exclusive :> 1) @@ (Shared :> 1)>>)

\* A container of every kind in one Pod.
TwoContainers == (p1 :> <<(Exclusive :> 1) @@ (Shared :> 1), (Default :> 1)>>)

UniqueNames == (p1 :> "a") @@ (p2 :> "b")
SameName == (p1 :> "a") @@ (p2 :> "a")
WorkerSymmetry == Permutations(Workers)
=============================================================================
