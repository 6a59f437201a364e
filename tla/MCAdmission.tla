---------------------------- MODULE MCAdmission ----------------------------
EXTENDS AdmissionInvariant

Exclusive == <<"exclusive">>
Shared    == <<"shared">>
Default   == <<"default">>

\* Cores 1 and 2 are on different NUMA nodes and have second threads 5 and 6.
MCHTMap      == (1 :> {5}) @@ (2 :> {6})
MCNUMANodeOf == [cpu \in 0..6 |-> IF cpu \in {2, 4, 6} THEN 1 ELSE 0]

Pool(cpus, ht) == [cpus |-> cpus, ht |-> ht]
Pools(ht, shared) ==
  (Exclusive :> Pool({1, 2}, ht)) @@ (Shared :> Pool(shared, SingleThreadHTPolicy)) @@
  (Default :> Pool({0}, SingleThreadHTPolicy))

\* Two kinds of nodes; some match both configurations, some none, some have no labels.
MCConfs ==
  <<[pools |-> Pools(SingleThreadHTPolicy, {3, 4}), selector |-> ("kind" :> "single")],
    [pools |-> Pools(MultiThreadHTPolicy, {3}),     selector |-> ("kind" :> "multi") @@ ("zone" :> "z")]>>

MCNodes == {("kind" :> "single"), ("kind" :> "multi"), ("kind" :> "single") @@ ("zone" :> "z"),
            ("zone" :> "y"), <<>>}

Cont(name, limits, env, command, args) ==
  [name |-> name, limits |-> limits, cpu |-> <<>>, env |-> env, mounts |-> <<"token">>,
   command |-> command, args |-> args]

\* Every kind of request; the shared quantity of the fourth is also its exclusive
\* one, that of the sixth cannot be converted, and the last two have a quantity 0.
Requested ==
  {(Exclusive :> 1), (Exclusive :> 2), (Exclusive :> 1) @@ (Shared :> 1500),
   (Exclusive :> 1) @@ (Shared :> 1), (Shared :> 500), (Shared :> 1000000), (Default :> 1), <<>>,
   (Exclusive :> 1) @@ (Shared :> 0), (Exclusive :> 0) @@ (Shared :> 500)}

Var == [name |-> "USER", value |-> <<"v">>]

\* <<command, args>>, each there or not.
Commands == {<<<<>>, <<>>>>, <<<<>>, <<"a">>>>, <<<<"app">>, <<>>>>, <<<<"app">>, <<"a">>>>}

Process(pool, cpus) == [process |-> "proc", pool |-> pool, cpus |-> cpus]
Entry(name, processes) == [name |-> name, processes |-> processes]

\* Right and wrong annotations: sums that are right, too large, too small; an
\* empty list, no processes, no CPUs, an unknown container, two entries.
Annotations ==
  {<<>>, << <<>> >>, << <<Entry("c", <<>>)>> >>, << <<Entry("c", <<Process(Exclusive, 0)>>)>> >>,
   << <<Entry("x", <<Process(Exclusive, 1)>>)>> >>,
   << <<Entry("c", <<Process(Exclusive, 1), Process(Exclusive, 1)>>)>> >>,
   << <<Entry("c", <<Process(Exclusive, 2), Process(Exclusive, 1)>>)>> >>,
   << <<Entry("c", <<Process(Exclusive, 2), Process(Shared, 1500)>>)>> >>,
   << <<Entry("c", <<Process(Shared, 500)>>)>> >>, << <<Entry("c", <<Process(Default, 1)>>)>> >>,
   << <<Entry("c", <<Process(Exclusive, 3)>>), Entry("c", <<Process(Exclusive, 1)>>)>> >>}

\* Negative numbers of CPUs, with sums that are right.
NegativeAnnotations ==
  {<< <<Entry("c", <<Process(Exclusive, 5), Process(Exclusive, -4)>>)>> >>,
   << <<Entry("c", <<Process(Exclusive, 2), Process(Exclusive, -1)>>)>> >>,
   << <<Entry("c", <<Process(Shared, 600), Process(Shared, -100)>>)>> >>}

\* Usually every container has the service account's token mounted.
MCPod(containers, annotation) ==
  [containers |-> containers, volumes |-> <<"token">>, annotation |-> annotation]

\* The third sidecar has no mounts.
MCSidecars ==
  {Cont("s", (Exclusive :> 1), <<>>, <<"side">>, <<>>), Cont("s", (Shared :> 500), <<Var>>, <<>>, <<>>),
   [Cont("s", (Exclusive :> 1), <<>>, <<"side">>, <<>>) EXCEPT !.mounts = <<>>]}

OrdinaryPods ==
  {MCPod(<<Cont("c", limits, env, command[1], command[2])>>, annotation) :
     limits \in Requested, env \in {<<>>, <<Var>>}, command \in Commands,
     annotation \in Annotations \cup NegativeAnnotations}

\* The service account's token is not mounted, or the user has volumes, mounts and
\* variables with the webhook's names.
OddPods ==
  {[containers |-> <<[Cont("c", limits, env, command, <<>>) EXCEPT !.mounts = odd[1]]>>,
    volumes |-> odd[2], annotation |-> annotation] :
     limits \in {(Exclusive :> 1), (Shared :> 500), <<>>},
     env \in {<<>>, <<Var>>, <<[name |-> "CPU_POOLS", value |-> <<"v">>]>>,
              <<[name |-> "CONTAINER_NAME", value |-> <<"v">>]>>},
     command \in {<<>>, <<"app">>},
     odd \in {<<<<>>, <<>>>>, <<<<>>, <<"token">>>>, <<<<"podinfo">>, <<"podinfo">>>>,
              <<<<"token", "hostbin">>, <<"token", "hostbin">>>>},
     annotation \in {<<>>, << <<Entry("c", <<Process(Exclusive, 1)>>)>> >>,
                     << <<Entry("c", <<Process(Shared, 500)>>)>> >>}}

\* A negative number of CPUs is all the annotation has of a pool with quantity 0.
EmptyHandedPods ==
  {MCPod(<<Cont("c", (Exclusive :> 0), <<>>, command, <<>>)>>,
         << <<Entry("c", <<Process(Exclusive, -1)>>)>> >>) : command \in {<<>>, <<"app">>}}

MCSubmitted == OrdinaryPods \cup OddPods \cup EmptyHandedPods

\* A container with both kinds of CPUs is enough to show it.
MixedPod == {MCPod(<<Cont("c", (Exclusive :> 1) @@ (Shared :> 1500), <<>>, <<"app">>, <<>>)>>, <<>>)}
=============================================================================
