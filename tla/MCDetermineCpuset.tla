------------------------- MODULE MCDetermineCpuset -------------------------
EXTENDS DetermineCpuset

Shared     == <<"shared">>
Default    == <<"default">>
Exclusive1 == <<"exclusive", "1">>
Exclusive2 == <<"exclusive", "2">>
Exclusive10 == <<"exclusive", "1", "0">>
Unshared   == <<"exclusive", "un", "shared">>

\* Eight threads on four cores.  The two numberings Linux uses: all first
\* threads before all second ones, or the threads of a core side by side.
FarSiblings  == [cpu \in 0..7 |-> cpu % 4]
NearSiblings == [cpu \in 0..7 |-> cpu \div 2]
NoSiblings   == [cpu \in 0..7 |-> cpu]

Pool(cpus, ht) == [cpus |-> cpus, ht |-> ht]
Policies == {SingleThreadHTPolicy, MultiThreadHTPolicy}

\* Two exclusive pools of first threads, a shared and a default pool; each
\* policy attribute may be left out of the file.
Config(name1, ht1, name2, ht2) ==
  (name1 :> Pool({1}, ht1)) @@ (name2 :> Pool({2, 3}, ht2)) @@
  (Shared :> Pool({4}, DefaultedPolicy(""))) @@ (Default :> Pool({0}, DefaultedPolicy("")))

Entry(pod, cont, pool, devices) == [pod |-> pod, cont |-> cont, pool |-> pool, devices |-> devices]

\* What the kubelet gave this container of each pool it requests, if it gave it
\* anything yet; the rest belongs to others.
Given(name, cpus, requests, pending) ==
  IF name \in requests THEN (SUBSET cpus) \ (IF pending THEN {} ELSE {{}}) ELSE {{}}

Checkpoints(name1, name2, requests, pending) ==
  {{Entry("pod", "c", name1, d1), Entry("pod", "c", name2, d2),
    Entry("pod", "other", name2, {2, 3} \ d2), Entry("gone", "c", name1, {1} \ d1)} :
      d1 \in Given(name1, {1}, requests, pending), d2 \in Given(name2, {2, 3}, requests, pending)}

Situations(name1, name2, layouts, requested, pending) ==
  UNION {{[conf |-> Config(name1, ht1, name2, ht2), coreOf |-> l, checkpoint |-> cp,
    pod |-> "pod", cont |-> "c", requests |-> rs] :
      ht1 \in Policies, ht2 \in Policies, l \in layouts,
      cp \in Checkpoints(name1, name2, rs, pending)} : rs \in requested}

AtMostOne(r, name1, name2) == ~ {name1, name2} \subseteq r

\* Names none of which is a prefix of another, at most one exclusive request.
SoundInputs ==
  Situations(Exclusive1, Exclusive2, {FarSiblings, NoSiblings},
    {r \in SUBSET {Exclusive1, Exclusive2, Shared, Default} : AtMostOne(r, Exclusive1, Exclusive2)},
    TRUE)

\* They are what the theorems about the function assume.
ASSUME SoundInputsAssumption == \A in \in SoundInputs : Unambiguous(in) /\ PhysicalCores(in)

\* What breaks it, one thing at a time (adjacent_threads.cfg runs the second; the
\* others take its place there).
TwoExclusives   == Situations(Exclusive1, Exclusive2, {NoSiblings}, {{Exclusive1, Exclusive2}}, FALSE)
AdjacentThreads == Situations(Exclusive1, Exclusive2, {NearSiblings}, {{Exclusive2}}, FALSE)
PrefixNames     == Situations(Exclusive1, Exclusive10, {FarSiblings}, {{Exclusive1}}, FALSE)
SharedInName    == Situations(Exclusive1, Unshared, {NoSiblings}, {{Unshared}}, FALSE)
=============================================================================
