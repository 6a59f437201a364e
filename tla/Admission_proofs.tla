-------------------------- MODULE Admission_proofs --------------------------
(***************************************************************************)
(* Proofs about the webhook and the node that serves its Pods, for every   *)
(* set of Pods, configurations and nodes, and any number of calls.         *)
(*                                                                         *)
(* The requests are sums over sets of pools.  Their properties need        *)
(* inductions, which are made here over the sets of finite sets: a         *)
(* nonempty one has a minimal element (WFMin), and that theorem takes no   *)
(* operator as a parameter.                                                *)
(***************************************************************************)
EXTENDS AdmissionInvariant, PoolNames_proofs, FiniteSetTheorems, TLAPS

-----------------------------------------------------------------------------
(* Induction.                                                               *)

\* Of subsets of a finite set, one is minimal.
LEMMA MinimalSet ==
  ASSUME NEW S, IsFiniteSet(S), NEW Bad \in SUBSET SUBSET S, Bad # {}
  PROVE  \E T \in Bad : \A U \in Bad : U \subseteq T => U = T
<1>1. IsWellFoundedOn(StrictSubsetOrdering(S), FiniteSubsetsOf(S))
  BY FS_StrictSubsetOrderingWellFounded
<1>2. Bad \subseteq FiniteSubsetsOf(S)
  BY FS_FiniteSubsetsOfFinite
<1>3. PICK T \in Bad : \A U \in Bad : ~(<<U, T>> \in StrictSubsetOrdering(S))
  <2> HIDE DEF FiniteSubsetsOf
  <2> QED
    BY <1>1, <1>2, WFMin
<1>4. \A U \in Bad : U \subseteq T => U = T
  BY <1>3 DEF StrictSubsetOrdering
<1>5. QED
  BY <1>4

\* Induction over the natural numbers, for a set of them.
LEMMA NatSetInduction ==
  ASSUME NEW Good, 0 \in Good, \A n \in Nat : n \in Good => n + 1 \in Good
  PROVE  Nat \subseteq Good
<1> SUFFICES ASSUME NEW n \in Nat, n \notin Good
             PROVE  FALSE
  OBVIOUS
<1> DEFINE all == 1..n
           Bad == {T \in SUBSET all : \E k \in 0..n : T = 1..k /\ k \notin Good}
<1>1. PICK T \in Bad : \A U \in Bad : U \subseteq T => U = T
  <2>1. 1..n \in Bad
    OBVIOUS
  <2>2. Bad # {} /\ Bad \in SUBSET SUBSET all
    BY <2>1
  <2>3. IsFiniteSet(all)
    BY FS_Interval
  <2> HIDE DEF Bad, all
  <2>4. QED
    BY <2>2, <2>3, MinimalSet
<1>2. PICK k \in 0..n : T = 1..k /\ k \notin Good
  OBVIOUS
<1>3. k # 0
  BY <1>2
<1>4. k - 1 \in 0..n /\ k - 1 \notin Good
  <2>1. k - 1 \in Nat /\ (k - 1) + 1 = k
    BY <1>3
  <2>2. QED
    BY <2>1, <1>2
<1>5. 1..(k - 1) \in Bad /\ 1..(k - 1) \subseteq 1..k /\ 1..(k - 1) # 1..k
  BY <1>3, <1>4
<1>6. QED
  BY <1>1, <1>2, <1>5

\* Induction over the subsets of a finite set, for a set of sets.
LEMMA SetInduction ==
  ASSUME NEW S, IsFiniteSet(S), NEW Good, {} \in Good,
         \A T \in SUBSET S : \A x \in S \ T : T \in Good => T \cup {x} \in Good
  PROVE  S \in Good
<1> SUFFICES ASSUME S \notin Good
             PROVE  FALSE
  OBVIOUS
<1> DEFINE Bad == {T \in SUBSET S : T \notin Good}
<1>1. PICK T \in Bad : \A U \in Bad : U \subseteq T => U = T
  <2>1. Bad # {} /\ Bad \in SUBSET SUBSET S
    OBVIOUS
  <2> HIDE DEF Bad
  <2>2. QED
    BY <2>1, MinimalSet
<1>2. PICK x \in T : TRUE
  OBVIOUS
<1>3. T \ {x} \in Good /\ (T \ {x}) \cup {x} = T
  BY <1>1
<1>4. QED
  BY <1>3

-----------------------------------------------------------------------------
(* Sums.                                                                    *)

Chosen(s) == CHOOSE x \in s : TRUE

\* The equation by which SumFunctionOnSet defines the sums over subsets of S.
Sums(fun, S, iter) ==
  iter = [s \in SUBSET S |-> IF s = {} THEN 0 ELSE fun[Chosen(s)] + iter[s \ {Chosen(s)}]]

LEMMA SumFolds ==
  ASSUME NEW fun, NEW S
  PROVE  SumFunctionOnSet(fun, S) = (CHOOSE iter : Sums(fun, S, iter))[S]
  BY DEF SumFunctionOnSet, FoldFunctionOnSet, MapThenFoldSet, Sums, Chosen

LEMMA ChosenIn == \A s : s # {} => Chosen(s) \in s
  BY DEF Chosen

\* There are such sums: those over sets of n + 1 elements from those over sets of n.
LEMMA SumsExist ==
  ASSUME NEW fun, NEW S, IsFiniteSet(S)
  PROVE  \E iter : Sums(fun, S, iter)
<1> DEFINE upTo(n) == {s \in SUBSET S : Cardinality(s) <= n}
           SumsUpTo(n, g) ==
             g = [s \in upTo(n) |-> IF s = {} THEN 0 ELSE fun[Chosen(s)] + g[s \ {Chosen(s)}]]
           Good == {n \in Nat : \E g : SumsUpTo(n, g)}
<1>1. \A s \in SUBSET S : IsFiniteSet(s) /\ Cardinality(s) \in Nat /\ (Cardinality(s) = 0 <=> s = {})
  BY FS_Subset, FS_CardinalityType, FS_EmptySet
<1>2. \A s \in SUBSET S : s # {} => /\ s \ {Chosen(s)} \in SUBSET S
                                    /\ Cardinality(s \ {Chosen(s)}) = Cardinality(s) - 1
  BY <1>1, ChosenIn, FS_RemoveElement
<1>3. 0 \in Good
  <2>1. upTo(0) = {{}}
    BY <1>1
  <2>2. SumsUpTo(0, [s \in upTo(0) |-> 0])
    BY <2>1
  <2>3. QED
    BY <2>2
<1>4. ASSUME NEW n \in Nat, n \in Good
      PROVE  n + 1 \in Good
  <2>1. PICK g : SumsUpTo(n, g)
    BY <1>4
  <2> DEFINE h == [s \in upTo(n + 1) |-> IF s = {} THEN 0 ELSE fun[Chosen(s)] + g[s \ {Chosen(s)}]]
  <2>2. \A s \in upTo(n) : s \in upTo(n + 1) /\ h[s] = g[s]
    <3>1. \A s \in upTo(n) : s \in upTo(n + 1)
      BY <1>1
    <3> HIDE DEF upTo
    <3>2. QED
      BY <2>1, <3>1
  <2>3. \A s \in upTo(n + 1) : s # {} => s \ {Chosen(s)} \in upTo(n)
    BY <1>1, <1>2
  <2>4. \A s \in upTo(n + 1) : h[s] = IF s = {} THEN 0 ELSE fun[Chosen(s)] + h[s \ {Chosen(s)}]
    <3> HIDE DEF upTo
    <3>1. QED
      BY <2>2, <2>3
  <2>5. SumsUpTo(n + 1, h)
    <3>1. h = [s \in upTo(n + 1) |-> h[s]]
      OBVIOUS
    <3> HIDE DEF h, upTo
    <3>2. QED
      BY <2>4, <3>1
  <2> HIDE DEF h, SumsUpTo
  <2>6. QED
    BY <2>5
<1>5. Cardinality(S) \in Good
  <2>1. Nat \subseteq Good
    <3> HIDE DEF Good
    <3>1. QED
      BY <1>3, <1>4, NatSetInduction
  <2>2. QED
    BY <1>1, <2>1
<1>6. upTo(Cardinality(S)) = SUBSET S
  BY FS_Subset
<1> HIDE DEF upTo
<1>7. QED
  BY <1>5, <1>6 DEF Sums

\* Sums over subsets of S and over subsets of T agree on what they share.
LEMMA SumsAgree ==
  ASSUME NEW fun, NEW S, NEW T, NEW f, NEW g, IsFiniteSet(S), T \subseteq S, Sums(fun, S, f), Sums(fun, T, g)
  PROVE  f[T] = g[T]
<1> DEFINE Bad == {s \in SUBSET T : f[s] # g[s]}
<1> SUFFICES ASSUME Bad # {}
             PROVE  FALSE
  OBVIOUS
<1>1. PICK s \in Bad : \A u \in Bad : u \subseteq s => u = s
  <2>1. IsFiniteSet(T) /\ Bad \in SUBSET SUBSET T
    BY FS_Subset
  <2> HIDE DEF Bad
  <2>2. QED
    BY <2>1, MinimalSet
<1>2. f[s] = IF s = {} THEN 0 ELSE fun[Chosen(s)] + f[s \ {Chosen(s)}]
  BY DEF Sums
<1>3. g[s] = IF s = {} THEN 0 ELSE fun[Chosen(s)] + g[s \ {Chosen(s)}]
  BY DEF Sums
<1>4. s # {} => s \ {Chosen(s)} \notin Bad
  BY <1>1, ChosenIn
<1>5. QED
  BY <1>2, <1>3, <1>4

LEMMA SumEquation ==
  ASSUME NEW fun, NEW S, IsFiniteSet(S)
  PROVE  SumFunctionOnSet(fun, S)
           = IF S = {} THEN 0 ELSE fun[Chosen(S)] + SumFunctionOnSet(fun, S \ {Chosen(S)})
<1> DEFINE f == CHOOSE iter : Sums(fun, S, iter)
           T == S \ {Chosen(S)}
           g == CHOOSE iter : Sums(fun, T, iter)
<1>1. IsFiniteSet(T) /\ T \subseteq S
  BY FS_Subset
<1>2. Sums(fun, S, f) /\ Sums(fun, T, g)
  BY <1>1, SumsExist
<1>3. f[T] = g[T]
  <2> HIDE DEF f, g, T
  <2>1. QED
    BY <1>1, <1>2, SumsAgree
<1>4. f[S] = IF S = {} THEN 0 ELSE fun[Chosen(S)] + f[T]
  <2> HIDE DEF f
  <2>1. QED
    BY <1>2 DEF Sums
<1>5. SumFunctionOnSet(fun, S) = f[S] /\ SumFunctionOnSet(fun, T) = g[T]
  BY SumFolds
<1> HIDE DEF f, g
<1>6. QED
  BY <1>3, <1>4, <1>5

\* A sum of natural numbers is one, and its terms can be taken in any order.
LEMMA SumOfNats ==
  ASSUME NEW fun, NEW S, IsFiniteSet(S), \A x \in S : fun[x] \in Nat
  PROVE  /\ SumFunctionOnSet(fun, S) \in Nat
         /\ S = {} => SumFunctionOnSet(fun, S) = 0
         /\ \A x \in S : SumFunctionOnSet(fun, S) = fun[x] + SumFunctionOnSet(fun, S \ {x})
<1> DEFINE sum(T) == SumFunctionOnSet(fun, T)
           Splits(T) == \A x \in T : sum(T) = fun[x] + sum(T \ {x})
           Bad == {T \in SUBSET S : ~(sum(T) \in Nat /\ Splits(T))}
<1>1. \A T \in SUBSET S : sum(T) = IF T = {} THEN 0 ELSE fun[Chosen(T)] + sum(T \ {Chosen(T)})
  BY SumEquation, FS_Subset
<1>2. Bad = {}
  <2> SUFFICES ASSUME Bad # {}
               PROVE  FALSE
    OBVIOUS
  <2>1. PICK T \in Bad : \A U \in Bad : U \subseteq T => U = T
    <3>1. Bad \in SUBSET SUBSET S
      OBVIOUS
    <3> HIDE DEF Bad
    <3>2. QED
      BY <3>1, MinimalSet
  <2>2. \A U \in SUBSET T : U # T => sum(U) \in Nat /\ Splits(U)
    BY <2>1
  <2>3. T # {}
    <3>1. sum({}) = 0
      BY <1>1
    <3>2. sum({}) \in Nat /\ Splits({})
      BY <3>1
    <3>3. QED
      BY <2>1, <3>2
  <2> DEFINE c == Chosen(T)
  <2>4. c \in T /\ sum(T) = fun[c] + sum(T \ {c})
    BY <1>1, <2>3, ChosenIn
  <2> HIDE DEF c
  <2>5. sum(T \ {c}) \in Nat /\ Splits(T \ {c})
    BY <2>2, <2>4
  <2>6. sum(T) \in Nat
    BY <2>4, <2>5
  <2>7. ASSUME NEW x \in T, x # c
        PROVE  sum(T) = fun[x] + sum(T \ {x})
    <3>1. (T \ {c}) \ {x} = (T \ {x}) \ {c}
      OBVIOUS
    <3>2. sum(T \ {c}) = fun[x] + sum((T \ {x}) \ {c})
      BY <2>5, <2>7, <3>1
    <3>3. sum(T \ {x}) = fun[c] + sum((T \ {x}) \ {c})
      BY <2>2, <2>4, <2>7
    <3>4. sum((T \ {x}) \ {c}) \in Nat
      BY <2>2, <2>7
    <3>5. fun[c] \in Nat /\ fun[x] \in Nat
      BY <2>4
    <3> HIDE DEF sum
    <3>6. QED
      BY <2>4, <3>2, <3>3, <3>4, <3>5
  <2>8. Splits(T)
    BY <2>4, <2>7
  <2>9. QED
    BY <2>6, <2>8
<1>3. QED
  BY <1>1, <1>2

\* A sum is at least each of its terms, and it is 0 if they are.
LEMMA SumAtLeast ==
  ASSUME NEW fun, NEW S, IsFiniteSet(S), \A x \in S : fun[x] \in Nat, NEW y \in S
  PROVE  fun[y] <= SumFunctionOnSet(fun, S)
<1>1. SumFunctionOnSet(fun, S) = fun[y] + SumFunctionOnSet(fun, S \ {y})
  BY SumOfNats
<1>2. SumFunctionOnSet(fun, S \ {y}) \in Nat
  BY SumOfNats, FS_Subset
<1>3. QED
  BY <1>1, <1>2

LEMMA SumOfZeros ==
  ASSUME NEW fun, NEW S, IsFiniteSet(S), \A x \in S : fun[x] = 0
  PROVE  SumFunctionOnSet(fun, S) = 0
<1> DEFINE Good == {T \in SUBSET S : SumFunctionOnSet(fun, T) = 0}
<1>1. \A T \in SUBSET S : IsFiniteSet(T)
  BY FS_Subset
<1>2. {} \in Good
  BY <1>1, SumOfNats
<1>3. ASSUME NEW T \in SUBSET S, NEW x \in S \ T, T \in Good
      PROVE  T \cup {x} \in Good
  <2>1. (T \cup {x}) \ {x} = T
    BY <1>3
  <2>2. SumFunctionOnSet(fun, T \cup {x}) = fun[x] + SumFunctionOnSet(fun, T)
    <3>1. IsFiniteSet(T \cup {x}) /\ \A y \in T \cup {x} : fun[y] \in Nat
      BY <1>1
    <3>2. QED
      BY <2>1, <3>1, SumOfNats
  <2>3. QED
    BY <1>3, <2>2
<1>4. S \in Good
  <2> HIDE DEF Good
  <2>1. QED
    BY <1>2, <1>3, SetInduction
<1>5. QED
  BY <1>4

LEMMA SumOfOne ==
  ASSUME NEW fun, NEW y, fun[y] \in Nat
  PROVE  SumFunctionOnSet(fun, {y}) = fun[y]
<1>1. IsFiniteSet({y}) /\ IsFiniteSet({}) /\ {y} \ {y} = {}
  BY FS_Singleton, FS_EmptySet
<1>2. SumFunctionOnSet(fun, {y}) = fun[y] + SumFunctionOnSet(fun, {})
  BY <1>1, SumOfNats
<1>3. SumFunctionOnSet(fun, {}) = 0
  BY <1>1, SumOfNats
<1>4. QED
  BY <1>2, <1>3

\* The largest element of a finite set of numbers.
LEMMA MaxOfSet ==
  ASSUME NEW S, IsFiniteSet(S), S \subseteq Nat, S # {}
  PROVE  Max(S) \in S /\ \A y \in S : y <= Max(S)
<1> DEFINE Good == {T \in SUBSET S : T = {} \/ \E x \in T : \A y \in T : x >= y}
<1>1. {} \in Good
  OBVIOUS
<1>2. ASSUME NEW T \in SUBSET S, NEW x \in S \ T, T \in Good
      PROVE  T \cup {x} \in Good
  <2>1. CASE T = {}
    BY <2>1
  <2>2. CASE T # {}
    <3>1. PICK m \in T : \A y \in T : m >= y
      BY <1>2, <2>2
    <3>2. \/ \A y \in T \cup {x} : m >= y
          \/ \A y \in T \cup {x} : x >= y
      BY <3>1
    <3>3. QED
      BY <3>1, <3>2
  <2>3. QED
    BY <2>1, <2>2
<1>3. S \in Good
  <2> HIDE DEF Good
  <2>1. QED
    BY <1>1, <1>2, SetInduction
<1>4. \E x \in S : \A y \in S : x >= y
  BY <1>3
<1>5. Max(S) \in S /\ \A y \in S : Max(S) >= y
  BY <1>4 DEF Max
<1>6. QED
  BY <1>5

-----------------------------------------------------------------------------
(* Requests.                                                                *)

\* A name has the prefix "exclusive" exactly if its type is exclusive.
LEMMA ExclusivePrefix ==
  ASSUME NEW n \in Seq(STRING)
  PROVE  IsPrefix(<<ExclusivePoolID>>, n) <=> DeterminePoolType(n) = ExclusivePoolID
<1>1. ASSUME IsPrefix(<<ExclusivePoolID>>, n), IsPrefix(<<SharedPoolID>>, n)
      PROVE  FALSE
  BY <1>1, TypesDiffer DEF IsPrefix
<1>2. QED
  BY <1>1, TypesDiffer DEF DeterminePoolType

\* The pools of a type that c asks for.
PoolsOf(c, type) == {n \in DOMAIN c.limits : DeterminePoolType(n) = type}

LEMMA RequestIsSum ==
  ASSUME NEW c, IsContainer(c), NEW type \in {SharedPoolID, ExclusivePoolID}
  PROVE  /\ CpuRequest(c, type) = SumFunctionOnSet(c.limits, PoolsOf(c, type))
         /\ IsFiniteSet(PoolsOf(c, type))
         /\ \A n \in PoolsOf(c, type) : c.limits[n] \in Nat
<1>1. {n \in DOMAIN c.limits : IsPrefix(<<type>>, n)} = PoolsOf(c, type)
  BY SharedPrefix, ExclusivePrefix DEF PoolsOf, IsContainer
<1>2. IsFiniteSet(PoolsOf(c, type))
  BY FS_Subset DEF PoolsOf, IsContainer
<1>3. QED
  BY <1>1, <1>2 DEF CpuRequest, PoolsOf, IsContainer

\* A container requests at least what it asks of each pool of the type, and nothing
\* if it asks nothing of any.
LEMMA RequestBounds ==
  ASSUME NEW c, IsContainer(c), NEW type \in {SharedPoolID, ExclusivePoolID}
  PROVE  /\ CpuRequest(c, type) \in Nat
         /\ \A n \in PoolsOf(c, type) : c.limits[n] <= CpuRequest(c, type)
         /\ CpuRequest(c, type) > 0 <=> \E n \in PoolsOf(c, type) : c.limits[n] > 0
<1>1. CpuRequest(c, type) \in Nat
  BY RequestIsSum, SumOfNats
<1>2. \A n \in PoolsOf(c, type) : c.limits[n] <= CpuRequest(c, type)
  BY RequestIsSum, SumAtLeast
<1>3. ASSUME \A n \in PoolsOf(c, type) : ~(c.limits[n] > 0)
      PROVE  CpuRequest(c, type) = 0
  <2>1. \A n \in PoolsOf(c, type) : c.limits[n] = 0
    BY <1>3, RequestIsSum
  <2>2. QED
    BY <2>1, RequestIsSum, SumOfZeros
<1>4. \A n \in PoolsOf(c, type) : c.limits[n] \in Nat
  BY RequestIsSum
<1>5. QED
  BY <1>1, <1>2, <1>3, <1>4

LEMMA RequestOfOne ==
  ASSUME NEW c, IsContainer(c), NEW type \in {SharedPoolID, ExclusivePoolID},
         NEW n \in PoolsOf(c, type), \A m \in PoolsOf(c, type) : m = n
  PROVE  CpuRequest(c, type) = c.limits[n]
<1>1. PoolsOf(c, type) = {n}
  OBVIOUS
<1>2. QED
  BY <1>1, RequestIsSum, SumOfOne

-----------------------------------------------------------------------------
(* Lists.                                                                   *)

LEMMA ListDomain ==
  ASSUME NEW s, IsList(s)
  PROVE  /\ DOMAIN s = 1..Len(s) /\ Len(s) \in Nat /\ s \in Seq(Range(s))
         /\ s # <<>> => 1 \in DOMAIN s
<1>1. DOMAIN s = 1..Len(s) /\ Len(s) \in Nat
  BY DEF IsList
<1>2. s \in [1..Len(s) -> Range(s)]
  BY <1>1 DEF IsList, Range
<1>3. s \in Seq(Range(s))
  BY <1>1, <1>2
<1>4. QED
  BY <1>1, <1>3

LEMMA FunctionIsSequence ==
  ASSUME NEW S, NEW n \in Nat, NEW s \in [1..n -> S]
  PROVE  s \in Seq(S)
  OBVIOUS

LEMMA SequenceIsList ==
  ASSUME NEW S, NEW s \in Seq(S)
  PROVE  IsList(s) /\ DOMAIN s = 1..Len(s) /\ Len(s) \in Nat
<1>1. Len(s) \in Nat /\ DOMAIN s = 1..Len(s)
  OBVIOUS
<1>2. s \in [1..Len(s) -> S]
  OBVIOUS
<1>3. s = [k \in 1..Len(s) |-> s[k]]
  BY <1>2
<1>4. QED
  BY <1>1, <1>3 DEF IsList

\* What is left of a list after its first element: the kinds but the first one's, all
\* of them later ones.
LEMMA TailOfList ==
  ASSUME NEW s, IsList(s), s # <<>>, InOrder(s),
         \A k \in DOMAIN s : Rank(Kind(s[k])) \in Nat
  PROVE  /\ 1 \in DOMAIN s /\ Head(s) = s[1]
         /\ IsList(Tail(s)) /\ InOrder(Tail(s))
         /\ \A k \in DOMAIN Tail(s) : /\ k + 1 \in DOMAIN s /\ Tail(s)[k] = s[k + 1]
                                      /\ Rank(Kind(s[1])) < Rank(Kind(Tail(s)[k]))
         /\ \A k \in DOMAIN s : k = 1 \/ \E j \in DOMAIN Tail(s) : s[k] = Tail(s)[j]
         /\ Kinds(Tail(s)) = Kinds(s) \ {Kind(s[1])}
<1>1. DOMAIN s = 1..Len(s) /\ Len(s) \in Nat /\ s \in Seq(Range(s)) /\ 1 \in DOMAIN s
  BY ListDomain
<1>2. Head(s) = s[1] /\ Tail(s) \in Seq(Range(s)) /\ Len(Tail(s)) = Len(s) - 1
  BY <1>1
<1>3. DOMAIN Tail(s) = 1..(Len(s) - 1) /\ IsList(Tail(s))
  BY <1>1, <1>2, SequenceIsList
<1>4. \A k \in DOMAIN Tail(s) : k + 1 \in DOMAIN s /\ 1 < k + 1 /\ Tail(s)[k] = s[k + 1]
  BY <1>1, <1>3
<1>5. \A k \in DOMAIN Tail(s) : Rank(Kind(s[1])) < Rank(Kind(Tail(s)[k]))
  BY <1>1, <1>4 DEF InOrder
<1>6. InOrder(Tail(s))
  <2> SUFFICES ASSUME NEW j \in DOMAIN Tail(s), NEW k \in DOMAIN Tail(s), j < k
               PROVE  Rank(Kind(Tail(s)[j])) < Rank(Kind(Tail(s)[k]))
    BY DEF InOrder
  <2>1. j + 1 < k + 1
    BY <1>3
  <2>2. QED
    BY <1>4, <2>1 DEF InOrder
<1>7. ASSUME NEW kind
      PROVE  kind \in Kinds(Tail(s)) <=> kind \in Kinds(s) /\ kind # Kind(s[1])
  <2>1. ASSUME NEW k \in DOMAIN Tail(s), kind = Kind(Tail(s)[k])
        PROVE  kind \in Kinds(s) /\ kind # Kind(s[1])
    BY <1>1, <1>4, <1>5, <2>1 DEF Kinds
  <2>2. ASSUME NEW k \in DOMAIN s, kind = Kind(s[k]), kind # Kind(s[1])
        PROVE  kind \in Kinds(Tail(s))
    <3>1. k # 1
      BY <2>2
    <3>2. k - 1 \in DOMAIN Tail(s) /\ (k - 1) + 1 = k
      BY <1>1, <1>3, <3>1
    <3>3. QED
      BY <1>4, <2>2, <3>2 DEF Kinds
  <2>3. QED
    BY <2>1, <2>2 DEF Kinds
<1>8. \A k \in DOMAIN s : k = 1 \/ \E j \in DOMAIN Tail(s) : s[k] = Tail(s)[j]
  <2>1. \A k \in DOMAIN s : k # 1 => k - 1 \in DOMAIN Tail(s) /\ (k - 1) + 1 = k
    BY <1>1, <1>3
  <2>2. QED
    BY <1>4, <2>1
<1>9. QED
  BY <1>1, <1>2, <1>3, <1>4, <1>5, <1>6, <1>7, <1>8

\* Two lists in order make one, if the kinds of the second are later ones.
LEMMA ListsInOrder ==
  ASSUME NEW s, NEW t, IsList(s), IsList(t), InOrder(s), InOrder(t),
         \A j \in DOMAIN s, k \in DOMAIN t : Rank(Kind(s[j])) < Rank(Kind(t[k]))
  PROVE  /\ IsList(s \o t) /\ InOrder(s \o t)
         /\ Kinds(s \o t) = Kinds(s) \cup Kinds(t)
         /\ \A k \in DOMAIN (s \o t) : \/ \E j \in DOMAIN s : (s \o t)[k] = s[j]
                                       \/ \E j \in DOMAIN t : (s \o t)[k] = t[j]
<1>1. /\ DOMAIN s = 1..Len(s) /\ Len(s) \in Nat /\ s \in Seq(Range(s))
      /\ DOMAIN t = 1..Len(t) /\ Len(t) \in Nat /\ t \in Seq(Range(t))
  BY ListDomain
<1> DEFINE st == s \o t
           m == Len(s)
           n == Len(t)
<1>2. st \in Seq(Range(s) \cup Range(t)) /\ Len(st) = m + n /\ DOMAIN st = 1..(m + n)
  BY <1>1
<1>3. /\ \A k \in 1..m : st[k] = s[k]
      /\ \A k \in 1..n : st[m + k] = t[k]
  BY <1>1
<1>4. IsList(st)
  BY <1>2, SequenceIsList
<1> HIDE DEF st
<1>5. \A k \in DOMAIN st : /\ k <= m => k \in DOMAIN s /\ st[k] = s[k]
                           /\ k > m => k - m \in DOMAIN t /\ st[k] = t[k - m]
  <2> SUFFICES ASSUME NEW k \in DOMAIN st
               PROVE  /\ k <= m => k \in DOMAIN s /\ st[k] = s[k]
                      /\ k > m => k - m \in DOMAIN t /\ st[k] = t[k - m]
    OBVIOUS
  <2>1. k <= m => k \in 1..m
    BY <1>1, <1>2
  <2>2. k > m => k - m \in 1..n /\ m + (k - m) = k
    BY <1>1, <1>2
  <2>3. k <= m => k \in DOMAIN s /\ st[k] = s[k]
    BY <1>1, <1>3, <2>1
  <2>4. k > m => k - m \in DOMAIN t /\ st[k] = t[k - m]
    <3>1. k > m => st[m + (k - m)] = t[k - m]
      BY <1>3, <2>2
    <3>2. QED
      BY <1>1, <2>2, <3>1
  <2>5. QED
    BY <2>3, <2>4
<1>6. InOrder(st)
  <2> SUFFICES ASSUME NEW j \in DOMAIN st, NEW k \in DOMAIN st, j < k
               PROVE  Rank(Kind(st[j])) < Rank(Kind(st[k]))
    BY DEF InOrder
  <2>1. CASE j <= m /\ k <= m
    BY <1>1, <1>2, <1>3, <2>1 DEF InOrder
  <2>2. CASE j <= m /\ k > m
    BY <1>1, <1>2, <1>5, <2>2
  <2>3. CASE j > m
    <3>1. j - m \in DOMAIN t /\ k - m \in DOMAIN t /\ j - m < k - m
      BY <1>1, <1>2, <2>3
    <3>2. st[j] = t[j - m] /\ st[k] = t[k - m]
      BY <1>1, <1>2, <1>5, <2>3
    <3>3. QED
      BY <3>1, <3>2 DEF InOrder
  <2>4. QED
    BY <1>1, <1>2, <2>1, <2>2, <2>3
<1>7. Kinds(st) = Kinds(s) \cup Kinds(t)
  <2>1. Kinds(st) \subseteq Kinds(s) \cup Kinds(t)
    BY <1>1, <1>2, <1>5 DEF Kinds
  <2>2. \A k \in DOMAIN s : k \in DOMAIN st /\ st[k] = s[k]
    BY <1>1, <1>2, <1>3
  <2>3. \A k \in DOMAIN t : m + k \in DOMAIN st /\ st[m + k] = t[k]
    BY <1>1, <1>2, <1>3
  <2>4. QED
    BY <2>1, <2>2, <2>3 DEF Kinds
<1>8. \A k \in DOMAIN st : (\E j \in DOMAIN s : st[k] = s[j]) \/ (\E j \in DOMAIN t : st[k] = t[j])
  BY <1>1, <1>2, <1>5
<1>9. QED
  BY <1>4, <1>6, <1>7, <1>8 DEF st

\* The sequence t is s and one element more.
OneMore(t, s, x) ==
  /\ IsSequence(t) /\ t # <<>>
  /\ DOMAIN t = 1..(Len(s) + 1) /\ DOMAIN s = 1..Len(s) /\ Len(s) \in Nat
  /\ \A k \in DOMAIN s : t[k] = s[k]
  /\ t[Len(s) + 1] = x
  /\ Range(t) = Range(s) \cup {x}

LEMMA Appended ==
  ASSUME NEW s, IsSequence(s), NEW x, NEW t, t = s \o <<x>>
  PROVE  OneMore(t, s, x)
<1> DEFINE S == Range(s) \cup {x}
<1>1. s \in Seq(S)
  BY DEF IsSequence
<1>2. x \in S
  OBVIOUS
<1> HIDE DEF S
<1>3. /\ t \in Seq(S) /\ Len(t) = Len(s) + 1 /\ Len(s) \in Nat
      /\ DOMAIN t = 1..(Len(s) + 1) /\ DOMAIN s = 1..Len(s)
  BY <1>1, <1>2
<1>4. (\A k \in DOMAIN s : t[k] = s[k]) /\ t[Len(s) + 1] = x
  BY <1>1, <1>2
<1>5. t # <<>>
  BY <1>3
<1>6. /\ \A k \in DOMAIN t : k \in DOMAIN s \/ k = Len(s) + 1
      /\ \A k \in DOMAIN s : k \in DOMAIN t
      /\ Len(s) + 1 \in DOMAIN t
  BY <1>3
<1>7. Range(t) = S
  BY <1>4, <1>6 DEF Range, S
<1>8. IsSequence(t)
  BY <1>3, <1>7 DEF IsSequence
<1>9. QED
  BY <1>3, <1>4, <1>5, <1>7, <1>8 DEF S, OneMore

LEMMA ConcatIsSequence ==
  ASSUME NEW s, NEW t, IsSequence(s), IsSequence(t)
  PROVE  IsSequence(s \o t)
<1> DEFINE S == Range(s) \cup Range(t)
<1>1. s \in Seq(S) /\ t \in Seq(S)
  BY DEF IsSequence
<1> HIDE DEF S
<1>2. s \o t \in Seq(S)
  BY <1>1
<1>3. QED
  BY <1>2, SequenceIsList, ListDomain DEF IsSequence

\* A variable that was not there is there once after it was appended; the others stay.
OneVarMore(d, c, v) ==
  /\ IsSequence(d.env) /\ d.env # <<>> /\ Range(d.env) = Range(c.env) \cup {v}
  /\ \A name : HasVar(d, name) <=> HasVar(c, name) \/ name = v.name
  /\ ~HasVar(c, v.name) => VarOnce(d, v.name, v.value)
  /\ \A name, value : name # v.name /\ VarOnce(c, name, value) => VarOnce(d, name, value)

LEMMA VarAppended ==
  ASSUME NEW c, NEW d, NEW v, v = [name |-> v.name, value |-> v.value], IsSequence(c.env),
         d.env = c.env \o <<v>>
  PROVE  OneVarMore(d, c, v)
<1> DEFINE s == c.env
           t == d.env
           n == Len(s) + 1
<1>1. /\ IsSequence(t) /\ t # <<>> /\ Range(t) = Range(s) \cup {v}
      /\ DOMAIN t = 1..n /\ DOMAIN s = 1..Len(s) /\ Len(s) \in Nat
      /\ \A k \in DOMAIN s : t[k] = s[k]
      /\ t[n] = v
  <2>1. OneMore(d.env, c.env, v)
    BY Appended
  <2>2. QED
    BY <2>1 DEF OneMore
<1> HIDE DEF s, t
<1>2. (\A k \in DOMAIN s : k \in DOMAIN t) /\ n \in DOMAIN t /\ n \notin DOMAIN s
  BY <1>1
<1>3. \A k \in DOMAIN t : k \in DOMAIN s \/ k = n
  BY <1>1
<1>4. \A name : (\E k \in DOMAIN t : t[k].name = name) <=> (\E k \in DOMAIN s : s[k].name = name) \/ name = v.name
  BY <1>1, <1>2, <1>3
<1>5. v = [name |-> v.name, value |-> v.value]
  OBVIOUS
<1>6. ASSUME ~(\E k \in DOMAIN s : s[k].name = v.name)
      PROVE  \A l \in DOMAIN t : t[l].name = v.name => l = n
  BY <1>1, <1>3, <1>6
<1>7. ASSUME NEW name, NEW value, name # v.name, NEW k \in DOMAIN s, s[k] = [name |-> name, value |-> value],
             \A l \in DOMAIN s : s[l].name = name => l = k
      PROVE  t[k] = [name |-> name, value |-> value] /\ \A l \in DOMAIN t : t[l].name = name => l = k
  BY <1>1, <1>3, <1>7
<1>8. /\ \A name : HasVar(c, name) <=> \E k \in DOMAIN s : s[k].name = name
      /\ \A name : HasVar(d, name) <=> \E k \in DOMAIN t : t[k].name = name
  BY DEF HasVar, s, t
<1>9. /\ \A name, value : VarOnce(c, name, value) <=>
           \E k \in DOMAIN s : /\ s[k] = [name |-> name, value |-> value]
                              /\ \A l \in DOMAIN s : s[l].name = name => l = k
      /\ \A name, value : VarOnce(d, name, value) <=>
           \E k \in DOMAIN t : /\ t[k] = [name |-> name, value |-> value]
                              /\ \A l \in DOMAIN t : t[l].name = name => l = k
  BY DEF VarOnce, s, t
<1>10. ~HasVar(c, v.name) => VarOnce(d, v.name, v.value)
  BY <1>1, <1>2, <1>5, <1>6, <1>8, <1>9
<1>11. \A name, value : name # v.name /\ VarOnce(c, name, value) => VarOnce(d, name, value)
  BY <1>2, <1>7, <1>9
<1>12. QED
  BY <1>1, <1>4, <1>8, <1>10, <1>11 DEF OneVarMore, s, t

-----------------------------------------------------------------------------
(* The patches of one container.                                            *)

\* What a patch can be, by its kind.
OfItsKind(sub, p, i) ==
  LET was == sub.containers[i]
  IN  /\ p.at = i /\ p.op \in {"append", "set"} /\ Rank(Kind(p)) \in 1..7
      /\ \/ Kind(p) = "cpu" /\ p.field = "cpu" /\ p = SetTo(i, "cpu", <<p.value[1], 0>>)
         \/ Kind(p) = "podinfo" /\ Pinned(sub, i) /\ p = AppendTo(i, "mounts", "podinfo")
         \/ Kind(p) = "hostbin" /\ Pinned(sub, i) /\ p = AppendTo(i, "mounts", "hostbin")
         \/ Kind(p) = "CONTAINER_NAME" /\ Pinned(sub, i) /\ EnvPatch(p, i, ContainerVar(was))
         \/ Kind(p) = "CPU_POOLS" /\ Pooled(sub, i) /\ EnvPatch(p, i, PoolsVar(was))
         \/ Kind(p) = "command" /\ Pinned(sub, i) /\ p = SetTo(i, "command", <<ProcessStarter>>)
         \/ Kind(p) = "args" /\ Moved(sub, i) /\ p = SetTo(i, "args", MovedArgs(was))

LEMMA KindsOfPatches ==
  ASSUME NEW sub, NEW i, NEW p, PossiblePatch(sub, p, i)
  PROVE  OfItsKind(sub, p, i)
<1> DEFINE was == sub.containers[i]
<1>1. CASE p.field = "cpu" /\ IsLimitPatch(p, i)
  BY <1>1 DEF IsLimitPatch, SetTo, Patch, Kind, Rank, OfItsKind
<1>2. CASE p.field = "mounts" /\ Pinned(sub, i) /\ \E name \in {"podinfo", "hostbin"} : p = AppendTo(i, "mounts", name)
  <2>1. PICK name \in {"podinfo", "hostbin"} : p = AppendTo(i, "mounts", name)
    BY <1>2
  <2>2. Kind(p) = name /\ p.at = i /\ p.op = "append"
    BY <2>1 DEF AppendTo, Patch, Kind, OfItsKind
  <2>3. QED
    BY <1>2, <2>1, <2>2 DEF Rank, OfItsKind
<1>3. ASSUME NEW var, EnvPatch(p, i, var)
      PROVE  Kind(p) = var.name /\ p.at = i /\ p.op \in {"append", "set"}
  BY <1>3 DEF EnvPatch, AppendTo, SetTo, Patch, Kind
<1>4. CASE Pinned(sub, i) /\ EnvPatch(p, i, ContainerVar(was))
  <2>1. Kind(p) = "CONTAINER_NAME" /\ p.at = i /\ p.op \in {"append", "set"}
    BY <1>3, <1>4 DEF ContainerVar
  <2>2. QED
    BY <1>4, <2>1 DEF Rank, OfItsKind
<1>5. CASE Pooled(sub, i) /\ EnvPatch(p, i, PoolsVar(was))
  <2>1. Kind(p) = "CPU_POOLS" /\ p.at = i /\ p.op \in {"append", "set"}
    BY <1>3, <1>5 DEF PoolsVar
  <2>2. QED
    BY <1>5, <2>1 DEF Rank, OfItsKind
<1>6. CASE Pinned(sub, i) /\ p = SetTo(i, "command", <<ProcessStarter>>)
  BY <1>6 DEF SetTo, Patch, Kind, Rank, OfItsKind
<1>7. CASE Moved(sub, i) /\ p = SetTo(i, "args", MovedArgs(was))
  BY <1>7 DEF SetTo, Patch, Kind, Rank, OfItsKind
<1>8. QED
  BY <1>1, <1>2, <1>4, <1>5, <1>6, <1>7 DEF PossiblePatch

\* A container that differs from the submitted one in what patches change asks for
\* the same CPUs.
LEMMA SameRequests ==
  ASSUME NEW c, NEW d, c.limits = d.limits
  PROVE  /\ SharedRequest(c) = SharedRequest(d) /\ ExclusiveRequest(c) = ExclusiveRequest(d)
         /\ PoolTypes(c) = PoolTypes(d) /\ SharedPoolNames(c) = SharedPoolNames(d)
         /\ \A q, ok : CfsLimits(c, q, Confs, ok) = CfsLimits(d, q, Confs, ok)
<1>1. /\ SharedRequest(c) = SharedRequest(d) /\ ExclusiveRequest(c) = ExclusiveRequest(d)
  BY DEF SharedRequest, ExclusiveRequest, CpuRequest
<1>2. PoolTypes(c) = PoolTypes(d) /\ SharedPoolNames(c) = SharedPoolNames(d)
  BY <1>1 DEF PoolTypes, SharedPoolNames
<1>3. \A ok : MaxSharedPoolLimits(c, Confs, ok) = MaxSharedPoolLimits(d, Confs, ok)
  BY <1>1, <1>2 DEF MaxSharedPoolLimits
<1>4. QED
  BY <1>1, <1>2, <1>3 DEF CfsLimits

\* Whatever of its patches a container has, the webhook pins it as the submitted one.
LEMMA SamePinning ==
  ASSUME NEW sub, NEW p, NEW i, NEW is, NEW left, FieldsPatched(sub, i, is, left),
         p.annotation = sub.annotation
  PROVE  /\ PinningPatchNeeded(p, is) <=> Pinned(sub, i)
         /\ Annotated(p, is) <=> Annotated(sub, sub.containers[i])
<1> DEFINE was == sub.containers[i]
<1>1. is.name = was.name /\ is.limits = was.limits
  BY DEF FieldsPatched
<1>2. ExclusiveRequest(is) = ExclusiveRequest(was)
  BY <1>1, SameRequests
<1>3. Annotated(p, is) <=> Annotated(sub, was)
  BY <1>1 DEF Annotated
<1>4. \/ is.command = was.command
      \/ is.command = <<ProcessStarter>> /\ Pinned(sub, i)
  BY DEF FieldsPatched
<1>5. <<ProcessStarter>> # <<>>
  OBVIOUS
<1>6. QED
  BY <1>2, <1>3, <1>4, <1>5 DEF PinningPatchNeeded, Pinned

\* The lists that the patch functions return are in order, and of these kinds.
LEMMA LimitList ==
  ASSUME NEW sub, NEW i, NEW total
  PROVE  LET list == PatchCPULimit(i, total)
         IN  /\ IsList(list) /\ InOrder(list) /\ Kinds(list) \subseteq {"cpu"}
             /\ total > 0 => Kinds(list) = {"cpu"}
             /\ ~(total > 0) => list = <<>>
             /\ \A k \in DOMAIN list : list[k] = SetTo(i, "cpu", <<total, 0>>) /\ PossiblePatch(sub, list[k], i)
<1> DEFINE p == SetTo(i, "cpu", <<total, 0>>)
           list == PatchCPULimit(i, total)
<1>1. p.field = "cpu" /\ Kind(p) = "cpu" /\ p.value[1] = total
  BY DEF SetTo, Patch, Kind
<1>2. PossiblePatch(sub, p, i)
  BY <1>1 DEF PossiblePatch, IsLimitPatch
<1>3. CASE total > 0
  <2>1. list = <<p>>
    BY <1>3 DEF PatchCPULimit
  <2> HIDE DEF p, list
  <2>2. IsList(list) /\ DOMAIN list = {1} /\ list[1] = p
    BY <2>1 DEF IsList
  <2>3. InOrder(list) /\ Kinds(list) = {"cpu"}
    BY <1>1, <2>2 DEF InOrder, Kinds
  <2>4. QED
    BY <1>2, <1>3, <2>2, <2>3 DEF p, list
<1>4. CASE ~(total > 0)
  <2>1. list = <<>>
    BY <1>4 DEF PatchCPULimit
  <2> HIDE DEF list
  <2>2. IsList(list) /\ DOMAIN list = {}
    BY <2>1 DEF IsList
  <2>3. InOrder(list) /\ Kinds(list) = {}
    BY <2>2 DEF InOrder, Kinds
  <2>4. QED
    BY <1>4, <2>1, <2>2, <2>3 DEF list
<1>5. QED
  BY <1>3, <1>4

LEMMA EmptyList ==
  IsList(<<>>) /\ InOrder(<<>>) /\ Kinds(<<>>) = {} /\ DOMAIN <<>> = {}
<1>1. IsList(<<>>) /\ DOMAIN <<>> = {}
  BY DEF IsList
<1>2. QED
  BY <1>1 DEF InOrder, Kinds

LEMMA OneElementList ==
  ASSUME NEW p
  PROVE  IsList(<<p>>) /\ InOrder(<<p>>) /\ Kinds(<<p>>) = {Kind(p)} /\ DOMAIN <<p>> = {1} /\ <<p>>[1] = p
<1>1. IsList(<<p>>) /\ DOMAIN <<p>> = {1} /\ <<p>>[1] = p
  BY DEF IsList
<1>2. QED
  BY <1>1 DEF InOrder, Kinds

LEMMA EnvPatches ==
  ASSUME NEW i, NEW var
  PROVE  /\ LET p == SetTo(i, "env", <<var>>)
            IN  Kind(p) = var.name /\ p.field = "env" /\ p.op = "set" /\ EnvPatch(p, i, var)
         /\ LET p == AppendTo(i, "env", var)
            IN  Kind(p) = var.name /\ p.field = "env" /\ p.op = "append" /\ EnvPatch(p, i, var)
  BY DEF EnvPatch, AppendTo, SetTo, Patch, Kind

\* patchContainerForPinning of a container that was not pinned.
LEMMA PinningList ==
  ASSUME NEW sub, NEW i, NEW c, NEW annotated \in BOOLEAN, c = sub.containers[i], Fresh(c), IsContainer(c),
         Pinned(sub, i), annotated <=> Annotated(sub, c)
  PROVE  LET list == PatchContainerForPinning(c, i, annotated)
         IN  /\ IsList(list) /\ InOrder(list)
             /\ Kinds(list) = {"podinfo", "hostbin", "CONTAINER_NAME", "command"}
                                \cup (IF Moved(sub, i) THEN {"args"} ELSE {})
             /\ \A k \in DOMAIN list :
                  /\ PossiblePatch(sub, list[k], i)
                  /\ list[k].field = "env" => list[k].op = IF c.env = <<>> THEN "set" ELSE "append"
<1> DEFINE p1 == AppendTo(i, "mounts", "podinfo")
           p2 == AppendTo(i, "mounts", "hostbin")
           p3 == PatchEnv(c, i, FALSE, ContainerVar(c))
           p4 == SetTo(i, "command", <<ProcessStarter>>)
           p5 == SetTo(i, "args", c.command \o c.args)
           four == <<p1, p2, p3, p4>>
           rest == IF Moved(sub, i) THEN <<p5>> ELSE <<>>
<1>1. ~Contains(c.mounts, "podinfo")
  <2>1. \A k \in 1..Len(c.mounts) : k \in DOMAIN c.mounts
    BY DEF IsContainer, IsSequence
  <2>2. QED
    BY <2>1 DEF Fresh, Contains, Range
<1>2. Moved(sub, i) <=> c.command # <<>> /\ ~annotated
  BY DEF Moved, Pinned, PinningPatchNeeded
<1>3. PatchContainerForPinning(c, i, annotated) = four \o rest
  BY <1>1, <1>2 DEF PatchContainerForPinning, ContainerVar
<1>4. Kind(p1) = "podinfo" /\ Kind(p2) = "hostbin" /\ Kind(p4) = "command" /\ Kind(p5) = "args"
  BY DEF AppendTo, SetTo, Patch, Kind
<1>5. p3 = IF c.env = <<>> THEN SetTo(i, "env", <<ContainerVar(c)>>) ELSE AppendTo(i, "env", ContainerVar(c))
  BY DEF PatchEnv
<1>6. Kind(p3) = "CONTAINER_NAME" /\ EnvPatch(p3, i, ContainerVar(c)) /\ p3.field = "env"
      /\ p3.op = IF c.env = <<>> THEN "set" ELSE "append"
  <2>1. ContainerVar(c).name = "CONTAINER_NAME"
    BY DEF ContainerVar
  <2> HIDE DEF p3
  <2>2. QED
    BY <1>5, <2>1, EnvPatches
<1>7. /\ PossiblePatch(sub, p1, i) /\ PossiblePatch(sub, p2, i) /\ PossiblePatch(sub, p3, i) /\ PossiblePatch(sub, p4, i)
      /\ Moved(sub, i) => PossiblePatch(sub, p5, i)
  <2>1. p1.field = "mounts" /\ p2.field = "mounts" /\ p4.field = "command" /\ p5.field = "args"
    BY DEF AppendTo, SetTo, Patch
  <2>2. p5 = SetTo(i, "args", MovedArgs(c))
    BY DEF MovedArgs
  <2> HIDE DEF p3
  <2>3. QED
    BY <1>6, <2>1, <2>2 DEF PossiblePatch
<1>8. p1.field # "env" /\ p2.field # "env" /\ p4.field # "env" /\ p5.field # "env"
  BY DEF AppendTo, SetTo, Patch
<1> HIDE DEF p1, p2, p3, p4, p5
<1>9. /\ IsList(four) /\ InOrder(four) /\ Kinds(four) = {"podinfo", "hostbin", "CONTAINER_NAME", "command"}
      /\ DOMAIN four = 1..4
  <2>1. IsList(four) /\ DOMAIN four = 1..4
    BY DEF IsList
  <2>2. four[1] = p1 /\ four[2] = p2 /\ four[3] = p3 /\ four[4] = p4
    OBVIOUS
  <2> HIDE DEF four
  <2>3. \A k \in 1..4 : k = 1 \/ k = 2 \/ k = 3 \/ k = 4
    OBVIOUS
  <2>4. Rank("podinfo") = 2 /\ Rank("hostbin") = 3 /\ Rank("CONTAINER_NAME") = 4 /\ Rank("command") = 5
    BY DEF Rank
  <2>5. \A k \in 1..4 : Rank(Kind(four[k])) = k + 1
    BY <1>4, <1>6, <2>2, <2>3, <2>4
  <2>6. InOrder(four)
    BY <2>1, <2>5 DEF InOrder
  <2>7. Kinds(four) = {Kind(four[1]), Kind(four[2]), Kind(four[3]), Kind(four[4])}
    <3>1. 1 \in 1..4 /\ 2 \in 1..4 /\ 3 \in 1..4 /\ 4 \in 1..4
      OBVIOUS
    <3>2. QED
      BY <2>1, <2>3, <3>1 DEF Kinds
  <2>8. QED
    BY <1>4, <1>6, <2>1, <2>2, <2>6, <2>7
<1>10. four[1] = p1 /\ four[2] = p2 /\ four[3] = p3 /\ four[4] = p4
  OBVIOUS
<1>11. \A k \in DOMAIN four : four[k] \in {p1, p2, p3, p4}
  <2> HIDE DEF four
  <2>1. QED
    BY <1>9, <1>10
<1> HIDE DEF four
<1>12. /\ IsList(rest) /\ InOrder(rest) /\ Kinds(rest) = (IF Moved(sub, i) THEN {"args"} ELSE {})
       /\ \A k \in DOMAIN rest : rest[k] = p5 /\ Moved(sub, i)
  BY <1>4, EmptyList, OneElementList
<1>13. \A j \in DOMAIN four, k \in DOMAIN rest : Rank(Kind(four[j])) < Rank(Kind(rest[k]))
  <2>1. \A kind \in {"podinfo", "hostbin", "CONTAINER_NAME", "command"} : Rank(kind) < Rank("args")
    BY DEF Rank
  <2>2. QED
    BY <1>4, <1>9, <1>12, <2>1 DEF Kinds
<1> HIDE DEF rest
<1>14. /\ IsList(four \o rest) /\ InOrder(four \o rest) /\ Kinds(four \o rest) = Kinds(four) \cup Kinds(rest)
       /\ \A k \in DOMAIN (four \o rest) : \/ \E j \in DOMAIN four : (four \o rest)[k] = four[j]
                                           \/ \E j \in DOMAIN rest : (four \o rest)[k] = rest[j]
  BY <1>9, <1>12, <1>13, ListsInOrder
<1>15. \A k \in DOMAIN (four \o rest) : (four \o rest)[k] \in {p1, p2, p3, p4} \/ ((four \o rest)[k] = p5 /\ Moved(sub, i))
  BY <1>11, <1>12, <1>14
<1>16. \A k \in DOMAIN (four \o rest) :
         /\ PossiblePatch(sub, (four \o rest)[k], i)
         /\ (four \o rest)[k].field = "env" => (four \o rest)[k].op = IF c.env = <<>> THEN "set" ELSE "append"
  BY <1>6, <1>7, <1>8, <1>15
<1>17. QED
  BY <1>3, <1>9, <1>12, <1>14, <1>16

LEMMA PoolsList ==
  ASSUME NEW sub, NEW i, NEW envPatched \in BOOLEAN, Pooled(sub, i), ~HasVar(sub.containers[i], "CPU_POOLS")
  PROVE  LET c    == sub.containers[i]
             list == PatchContainerEnv(c, i, envPatched)
         IN  /\ IsList(list) /\ InOrder(list) /\ Kinds(list) = {"CPU_POOLS"}
             /\ \A k \in DOMAIN list :
                  /\ PossiblePatch(sub, list[k], i)
                  /\ list[k].op = IF envPatched \/ c.env # <<>> THEN "append" ELSE "set"
<1> DEFINE c == sub.containers[i]
           p == PatchEnv(c, i, envPatched, PoolsVar(c))
<1>1. PatchContainerEnv(c, i, envPatched) = <<p>>
  BY DEF PatchContainerEnv, PoolsVar
<1>2. p = IF envPatched \/ c.env # <<>> THEN AppendTo(i, "env", PoolsVar(c)) ELSE SetTo(i, "env", <<PoolsVar(c)>>)
  BY DEF PatchEnv
<1>3. PoolsVar(c).name = "CPU_POOLS"
  BY DEF PoolsVar
<1> HIDE DEF p
<1>4. /\ Kind(p) = "CPU_POOLS" /\ p.field = "env" /\ EnvPatch(p, i, PoolsVar(c))
      /\ p.op = IF envPatched \/ c.env # <<>> THEN "append" ELSE "set"
  BY <1>2, <1>3, EnvPatches
<1>5. PossiblePatch(sub, p, i)
  BY <1>4 DEF PossiblePatch
<1>6. QED
  BY <1>1, <1>4, <1>5, OneElementList

\* A container without any patch gets all that it needs, in order.
LEMMA FirstPatches ==
  ASSUME NEW sub, NEW p, NEW i, NEW limit, p.containers[i] = sub.containers[i], p.annotation = sub.annotation,
         Fresh(sub.containers[i]), IsContainer(sub.containers[i])
  PROVE  LET list == ContainerPatches(p, i, limit)
         IN  /\ IsList(list) /\ InOrder(list) /\ PatchedBut(sub, i, sub.containers[i], list)
             /\ limit > 0 => "cpu" \in Kinds(list)
             /\ \A k \in DOMAIN list : list[k].field = "cpu" => list[k].value = <<limit, 0>>
<1> DEFINE c == sub.containers[i]
           annotated == Annotated(p, c)
           cpu  == PatchCPULimit(i, limit)
           pin  == IF Pinned(sub, i) THEN PatchContainerForPinning(c, i, annotated) ELSE <<>>
           pool == IF Pooled(sub, i) THEN PatchContainerEnv(c, i, Pinned(sub, i)) ELSE <<>>
<1>1. (annotated <=> Annotated(sub, c)) /\ (PinningPatchNeeded(p, c) <=> Pinned(sub, i))
  BY DEF Annotated, PinningPatchNeeded, Pinned
<1>2. ContainerPatches(p, i, limit) = (cpu \o pin) \o pool
  <2>1. PinningPatchNeeded(p, c) = Pinned(sub, i)
    BY DEF Annotated, PinningPatchNeeded, Pinned
  <2>2. p.containers[i] = c
    OBVIOUS
  <2> HIDE DEF c
  <2>3. QED
    BY <2>1, <2>2 DEF ContainerPatches, Pooled, c
<1>3. /\ IsList(cpu) /\ InOrder(cpu) /\ Kinds(cpu) \subseteq {"cpu"} /\ (limit > 0 => Kinds(cpu) = {"cpu"})
      /\ \A k \in DOMAIN cpu : cpu[k] = SetTo(i, "cpu", <<limit, 0>>) /\ PossiblePatch(sub, cpu[k], i)
  BY LimitList
<1>4. /\ IsList(pin) /\ InOrder(pin)
      /\ Kinds(pin) = (IF Pinned(sub, i) THEN {"podinfo", "hostbin", "CONTAINER_NAME", "command"} ELSE {})
                        \cup (IF Moved(sub, i) THEN {"args"} ELSE {})
      /\ \A k \in DOMAIN pin :
           PossiblePatch(sub, pin[k], i) /\ (pin[k].field = "env" => pin[k].op = IF c.env = <<>> THEN "set" ELSE "append")
  <2>1. CASE Pinned(sub, i)
    <3>1. annotated \in BOOLEAN
      BY DEF Annotated
    <3>2. IsContainer(c) /\ Fresh(c) /\ c = sub.containers[i] /\ (annotated <=> Annotated(sub, c))
      BY <1>1
    <3>3. pin = PatchContainerForPinning(c, i, annotated)
      BY <2>1
    <3> HIDE DEF pin, c, annotated
    <3>4. QED
      BY <2>1, <3>1, <3>2, <3>3, PinningList
  <2>2. CASE ~Pinned(sub, i)
    BY <2>2, EmptyList DEF Moved
  <2>3. QED
    BY <2>1, <2>2
<1>5. /\ IsList(pool) /\ InOrder(pool) /\ Kinds(pool) = IF Pooled(sub, i) THEN {"CPU_POOLS"} ELSE {}
      /\ \A k \in DOMAIN pool :
           PossiblePatch(sub, pool[k], i) /\ pool[k].op = IF Pinned(sub, i) \/ c.env # <<>> THEN "append" ELSE "set"
  <2>1. CASE Pooled(sub, i)
    <3>1. Pinned(sub, i) \in BOOLEAN /\ ~HasVar(c, "CPU_POOLS")
      BY DEF Pinned, PinningPatchNeeded, Annotated, Fresh
    <3>2. PICK pinned \in BOOLEAN : pinned = Pinned(sub, i)
      BY <3>1
    <3>3. pool = PatchContainerEnv(c, i, pinned)
      BY <2>1, <3>2
    <3> HIDE DEF pool
    <3>4. QED
      BY <2>1, <3>1, <3>2, <3>3, PoolsList
  <2>2. CASE ~Pooled(sub, i)
    BY <2>2, EmptyList
  <2>3. QED
    BY <2>1, <2>2
<1> HIDE DEF cpu, pin, pool
<1>6. \A a \in {"cpu"}, b \in {"podinfo", "hostbin", "CONTAINER_NAME", "command", "args"} :
        Rank(a) < Rank(b) /\ Rank(a) < Rank("CPU_POOLS") /\ Rank(b) < Rank("CPU_POOLS")
  BY DEF Rank
<1>7. \A j \in DOMAIN cpu, k \in DOMAIN pin : Rank(Kind(cpu[j])) < Rank(Kind(pin[k]))
  <2>1. \A j \in DOMAIN cpu : Kind(cpu[j]) \in {"cpu"}
    BY <1>3 DEF Kinds
  <2>2. \A k \in DOMAIN pin : Kind(pin[k]) \in {"podinfo", "hostbin", "CONTAINER_NAME", "command", "args"}
    BY <1>4 DEF Kinds
  <2>3. QED
    BY <1>6, <2>1, <2>2
<1> DEFINE two == cpu \o pin
<1>8. /\ IsList(two) /\ InOrder(two) /\ Kinds(two) = Kinds(cpu) \cup Kinds(pin)
      /\ \A k \in DOMAIN two : (\E j \in DOMAIN cpu : two[k] = cpu[j]) \/ (\E j \in DOMAIN pin : two[k] = pin[j])
  BY <1>3, <1>4, <1>7, ListsInOrder
<1> HIDE DEF two
<1>9. \A j \in DOMAIN two, k \in DOMAIN pool : Rank(Kind(two[j])) < Rank(Kind(pool[k]))
  <2>1. \A j \in DOMAIN two : Kind(two[j]) \in {"cpu", "podinfo", "hostbin", "CONTAINER_NAME", "command", "args"}
    BY <1>3, <1>4, <1>8 DEF Kinds
  <2>2. \A k \in DOMAIN pool : Kind(pool[k]) = "CPU_POOLS"
    BY <1>5 DEF Kinds
  <2>3. QED
    BY <1>6, <2>1, <2>2
<1> DEFINE list == two \o pool
<1>10. /\ IsList(list) /\ InOrder(list) /\ Kinds(list) = Kinds(two) \cup Kinds(pool)
       /\ \A k \in DOMAIN list : (\E j \in DOMAIN two : list[k] = two[j]) \/ (\E j \in DOMAIN pool : list[k] = pool[j])
  BY <1>5, <1>8, <1>9, ListsInOrder
<1> HIDE DEF list
<1>11. \A k \in DOMAIN list : \/ \E j \in DOMAIN cpu : list[k] = cpu[j]
                              \/ \E j \in DOMAIN pin : list[k] = pin[j]
                              \/ \E j \in DOMAIN pool : list[k] = pool[j]
  BY <1>8, <1>10
<1>12. \A k \in DOMAIN list : PossiblePatch(sub, list[k], i)
  BY <1>3, <1>4, <1>5, <1>11
<1>13. \A k \in DOMAIN cpu : cpu[k].field = "cpu" /\ cpu[k].value = <<limit, 0>>
  BY <1>3 DEF SetTo, Patch
<1>14. \A k \in DOMAIN list : list[k].field = "cpu" => list[k].value = <<limit, 0>>
  <2> SUFFICES ASSUME NEW k \in DOMAIN list, list[k].field = "cpu"
               PROVE  list[k].value = <<limit, 0>>
    OBVIOUS
  <2>1. Kind(list[k]) = "cpu"
    BY DEF Kind
  <2>2. \A j \in DOMAIN pin : Kind(pin[j]) # "cpu"
    BY <1>4 DEF Kinds
  <2>3. \A j \in DOMAIN pool : Kind(pool[j]) # "cpu"
    BY <1>5 DEF Kinds
  <2>4. QED
    BY <1>11, <1>13, <2>1, <2>2, <2>3
<1>15. Kinds(list) = Kinds(cpu) \cup Kinds(pin) \cup Kinds(pool)
  BY <1>8, <1>10
<1>16. FieldsPatched(sub, i, c, Kinds(list))
  <2>1. Pinned(sub, i) => {"podinfo", "hostbin", "CONTAINER_NAME", "command"} \subseteq Kinds(list)
    BY <1>4, <1>15
  <2>2. Moved(sub, i) => "args" \in Kinds(list)
    BY <1>4, <1>15
  <2>3. Pooled(sub, i) => "CPU_POOLS" \in Kinds(list)
    BY <1>5, <1>15
  <2>4. QED
    BY <2>1, <2>2, <2>3 DEF FieldsPatched, Fresh
<1>17. EnvReady(c, list)
  <2> SUFFICES ASSUME NEW k \in DOMAIN list, list[k].field = "env"
               PROVE  IF list[k].op = "set"
                      THEN c.env = <<>> /\ (Kind(list[k]) = "CPU_POOLS" => "CONTAINER_NAME" \notin Kinds(list))
                      ELSE c.env # <<>> \/ (Kind(list[k]) = "CPU_POOLS" /\ "CONTAINER_NAME" \in Kinds(list))
    BY DEF EnvReady
  <2>1. \A j \in DOMAIN cpu : list[k] # cpu[j]
    BY <1>13
  <2>2. CASE \E j \in DOMAIN pin : list[k] = pin[j]
    <3>1. Kind(list[k]) # "CPU_POOLS" /\ list[k].op = IF c.env = <<>> THEN "set" ELSE "append"
      BY <1>4, <2>2 DEF Kinds
    <3>2. QED
      BY <3>1
  <2>3. CASE \E j \in DOMAIN pool : list[k] = pool[j]
    <3>1. Kind(list[k]) = "CPU_POOLS" /\ list[k].op = IF Pinned(sub, i) \/ c.env # <<>> THEN "append" ELSE "set"
      BY <1>5, <2>3 DEF Kinds
    <3>2. Pinned(sub, i) <=> "CONTAINER_NAME" \in Kinds(list)
      BY <1>3, <1>4, <1>5, <1>15
    <3>3. QED
      BY <3>1, <3>2
  <2>4. QED
    BY <1>11, <2>1, <2>2, <2>3
<1>18. PatchedBut(sub, i, c, list)
  BY <1>12, <1>16, <1>17 DEF PatchedBut
<1>19. QED
  BY <1>2, <1>3, <1>10, <1>14, <1>15, <1>18 DEF list, two

\* A container that has all its patches gets none but the limit.
LEMMA LaterPatches ==
  ASSUME NEW sub, NEW p, NEW i, NEW limit, IsContainer(p.containers[i]), p.annotation = sub.annotation,
         FieldsPatched(sub, i, p.containers[i], {})
  PROVE  LET list == ContainerPatches(p, i, limit)
         IN  /\ IsList(list) /\ InOrder(list) /\ PatchedBut(sub, i, p.containers[i], list)
             /\ limit > 0 => "cpu" \in Kinds(list)
             /\ limit > 0 \/ list = <<>>
             /\ \A k \in DOMAIN list : list[k].field = "cpu" /\ list[k].value = <<limit, 0>>
<1> DEFINE c    == p.containers[i]
           was  == sub.containers[i]
           list == PatchCPULimit(i, limit)
<1>1. (PinningPatchNeeded(p, c) <=> Pinned(sub, i)) /\ c.limits = was.limits
  <2>1. c.limits = was.limits
    BY DEF FieldsPatched
  <2>2. PinningPatchNeeded(p, c) <=> Pinned(sub, i)
    BY SamePinning
  <2>3. QED
    BY <2>1, <2>2
<1>2. SharedRequest(c) = SharedRequest(was) /\ ExclusiveRequest(c) = ExclusiveRequest(was)
  BY <1>1, SameRequests
<1>3. Pinned(sub, i) => Contains(c.mounts, "podinfo")
  <2>1. Pinned(sub, i) => "podinfo" \in Range(c.mounts)
    BY DEF FieldsPatched
  <2>2. c.mounts \in Seq(Range(c.mounts))
    BY DEF IsContainer, IsSequence
  <2>3. \A k \in DOMAIN c.mounts : k \in 1..Len(c.mounts)
    BY <2>2
  <2>4. QED
    BY <2>1, <2>3 DEF Contains, Range
<1>4. Pooled(sub, i) => HasVar(c, "CPU_POOLS")
  BY DEF FieldsPatched, VarOnce, HasVar
<1>5. ContainerPatches(p, i, limit) = (list \o <<>>) \o <<>>
  BY <1>1, <1>2, <1>3, <1>4 DEF ContainerPatches, PatchContainerForPinning, PatchContainerEnv, Pooled
<1>6. /\ IsList(list) /\ InOrder(list) /\ Kinds(list) \subseteq {"cpu"} /\ (limit > 0 => Kinds(list) = {"cpu"})
      /\ ~(limit > 0) => list = <<>>
      /\ \A k \in DOMAIN list : list[k] = SetTo(i, "cpu", <<limit, 0>>) /\ PossiblePatch(sub, list[k], i)
  BY LimitList
<1> HIDE DEF list
<1>7. ContainerPatches(p, i, limit) = list
  <2>1. list \in Seq(Range(list))
    BY <1>6, ListDomain
  <2>2. QED
    BY <1>5, <2>1
<1>8. \A k \in DOMAIN list : list[k].field = "cpu" /\ list[k].value = <<limit, 0>>
  BY <1>6 DEF SetTo, Patch
<1>9. FieldsPatched(sub, i, c, Kinds(list))
  <2>1. \A kind \in {"podinfo", "hostbin", "command", "args", "CONTAINER_NAME", "CPU_POOLS"} : kind \notin Kinds(list)
    BY <1>6
  <2>2. QED
    BY <2>1 DEF FieldsPatched
<1>10. EnvReady(c, list)
  BY <1>8 DEF EnvReady
<1>11. QED
  BY <1>6, <1>7, <1>8, <1>9, <1>10 DEF PatchedBut

-----------------------------------------------------------------------------
(* Applying a patch to a container.                                         *)

Written(c, p) == IF p.op = "append" THEN c[p.field] \o p.value ELSE p.value
Updated(c, p) == [c EXCEPT ![p.field] = Written(c, p)]

LEMMA LongerNotEmpty ==
  ASSUME NEW s, IsSequence(s), NEW t, IsSequence(t), Range(s) \subseteq Range(t), s # <<>>
  PROVE  t # <<>>
<1>1. 1 \in DOMAIN s
  BY DEF IsSequence
<1>2. s[1] \in Range(t)
  BY <1>1 DEF Range
<1>3. QED
  BY <1>2, EmptyList DEF Range

LEMMA ContainerFields ==
  ASSUME NEW c, IsContainer(c)
  PROVE  /\ DOMAIN c = {"name", "limits", "cpu", "env", "mounts", "command", "args"}
         /\ c = [f \in DOMAIN c |-> c[f]]
         /\ IsSequence(c.env) /\ IsSequence(c.mounts) /\ IsSequence(c.command) /\ IsSequence(c.args)
<1>1. c = [name |-> c.name, limits |-> c.limits, cpu |-> c.cpu, env |-> c.env, mounts |-> c.mounts,
           command |-> c.command, args |-> c.args]
  BY DEF IsContainer
<1>2. DOMAIN c = {"name", "limits", "cpu", "env", "mounts", "command", "args"}
  BY <1>1
<1>3. c = [f \in DOMAIN c |-> c[f]]
  BY <1>1
<1>4. QED
  BY <1>2, <1>3 DEF IsContainer

\* What an update of one field is.
FieldUpdated(d, c, p) ==
  /\ IsContainer(d) /\ d.name = c.name /\ d.limits = c.limits
  /\ d.cpu = IF p.field = "cpu" THEN Written(c, p) ELSE c.cpu
  /\ d.env = IF p.field = "env" THEN Written(c, p) ELSE c.env
  /\ d.mounts = IF p.field = "mounts" THEN Written(c, p) ELSE c.mounts
  /\ d.command = IF p.field = "command" THEN Written(c, p) ELSE c.command
  /\ d.args = IF p.field = "args" THEN Written(c, p) ELSE c.args

LEMMA UpdatedField ==
  ASSUME NEW c, IsContainer(c), NEW p,
         p.field \in {"cpu", "env", "mounts", "command", "args"},
         p.field # "cpu" => IsSequence(Written(c, p))
  PROVE  FieldUpdated(Updated(c, p), c, p)
<1> DEFINE d == Updated(c, p)
           v == Written(c, p)
<1> HIDE DEF v
<1>1. d = [c EXCEPT ![p.field] = v]
  BY DEF Updated, v
<1>2. DOMAIN d = DOMAIN c /\ \A f \in DOMAIN c : d[f] = IF f = p.field THEN v ELSE c[f]
  BY <1>1, ContainerFields
<1>3. /\ d.name = c.name /\ d.limits = c.limits
      /\ d.cpu = (IF p.field = "cpu" THEN v ELSE c.cpu)
      /\ d.env = (IF p.field = "env" THEN v ELSE c.env)
      /\ d.mounts = (IF p.field = "mounts" THEN v ELSE c.mounts)
      /\ d.command = (IF p.field = "command" THEN v ELSE c.command)
      /\ d.args = IF p.field = "args" THEN v ELSE c.args
  BY <1>2, ContainerFields
<1>4. d = [name |-> d.name, limits |-> d.limits, cpu |-> d.cpu, env |-> d.env, mounts |-> d.mounts,
           command |-> d.command, args |-> d.args]
  <2>1. d = [f \in DOMAIN c |-> d[f]]
    BY <1>1, ContainerFields
  <2> HIDE DEF d
  <2>2. QED
    BY <2>1, ContainerFields
<1> HIDE DEF d
<1>5. IsContainer(d)
  <2>1. p.field # "cpu" => IsSequence(v)
    BY DEF v
  <2>2. IsSequence(d.env) /\ IsSequence(d.mounts) /\ IsSequence(d.command) /\ IsSequence(d.args)
    BY <1>3, <2>1, ContainerFields
  <2>3. QED
    BY <1>3, <1>4, <2>2 DEF IsContainer
<1>6. QED
  BY <1>3, <1>5 DEF d, v, FieldUpdated

\* A patch of a kind that is left does what FieldsPatched says of it.
FieldDone(sub, d, i, is, left, p) ==
  /\ IsContainer(d) /\ FieldsPatched(sub, i, d, left \ {Kind(p)})
  /\ p.field # "env" => d.env = is.env
  /\ p.field = "env" => d.env # <<>>
  /\ p.field # "cpu" => d.cpu = is.cpu
  /\ p.field = "cpu" => d = [is EXCEPT !.cpu = p.value]

LEMMA FieldPatched ==
  ASSUME NEW sub, NEW i, NEW is, NEW left, NEW p, IsContainer(is), IsContainer(sub.containers[i]),
         FieldsPatched(sub, i, is, left), PossiblePatch(sub, p, i), Kind(p) \in left,
         p.field = "env" /\ p.op = "set" => is.env = <<>>
  PROVE  FieldDone(sub, Updated(is, p), i, is, left, p)
<1> DEFINE was   == sub.containers[i]
           d     == Updated(is, p)
           v     == Written(is, p)
           left1 == left \ {Kind(p)}
<1>1. /\ is.name = was.name /\ is.limits = was.limits
      /\ IsSequence(is.mounts) /\ IsSequence(is.env)
  BY ContainerFields DEF FieldsPatched
<1>2. CASE Kind(p) = "cpu" /\ p.field = "cpu" /\ p = SetTo(i, "cpu", <<p.value[1], 0>>)
  <2>1. p.op = "set" /\ v = p.value
    BY <1>2 DEF SetTo, Patch, Written
  <2> HIDE DEF v
  <2>2. /\ IsContainer(d) /\ d.name = is.name /\ d.limits = is.limits /\ d.env = is.env /\ d.mounts = is.mounts
        /\ d.command = is.command /\ d.args = is.args
    BY <1>2, UpdatedField DEF v, d, FieldUpdated
  <2>3. d = [is EXCEPT !.cpu = p.value]
    BY <1>2, <2>1 DEF Updated, v
  <2> HIDE DEF d
  <2>4. FieldsPatched(sub, i, d, left1)
    <3>1. \A kind \in {"podinfo", "hostbin", "command", "args", "CONTAINER_NAME", "CPU_POOLS"} :
            kind \in left1 <=> kind \in left
      BY <1>2
    <3> HIDE DEF left1
    <3>2. QED
      BY <2>2, <3>1 DEF FieldsPatched, VarOnce, HasVar
  <2>5. QED
    BY <1>2, <2>2, <2>3, <2>4 DEF d, FieldDone
<1>3. CASE Pinned(sub, i) /\ \E name \in {"podinfo", "hostbin"} : Kind(p) = name /\ p = AppendTo(i, "mounts", name)
  <2>1. PICK name \in {"podinfo", "hostbin"} : Kind(p) = name /\ p = AppendTo(i, "mounts", name)
    BY <1>3
  <2>2. p.op = "append" /\ p.field = "mounts" /\ p.value = <<name>> /\ v = is.mounts \o <<name>>
    BY <2>1 DEF AppendTo, Patch, Written
  <2> HIDE DEF v
  <2>3. IsSequence(v) /\ v # <<>> /\ Range(v) = Range(is.mounts) \cup {name}
    <3>1. OneMore(v, is.mounts, name)
      BY <1>1, <2>2, Appended
    <3>2. QED
      BY <3>1 DEF OneMore
  <2>4. /\ IsContainer(d) /\ d.name = is.name /\ d.limits = is.limits /\ d.env = is.env /\ d.mounts = v
        /\ d.command = is.command /\ d.args = is.args /\ d.cpu = is.cpu
    <3>1. p.field = "mounts" /\ IsSequence(Written(is, p))
      BY <2>2, <2>3 DEF v
    <3>2. FieldUpdated(d, is, p)
      BY <3>1, UpdatedField DEF d
    <3>3. QED
      BY <3>1, <3>2 DEF FieldUpdated, v
  <2> HIDE DEF d
  <2>5. FieldsPatched(sub, i, d, left1)
    <3>1. \A kind \in {"command", "args", "CONTAINER_NAME", "CPU_POOLS"} : kind \in left1 <=> kind \in left
      BY <2>1
    <3>2. {m \in {"podinfo", "hostbin"} : Pinned(sub, i) /\ m \notin left1}
            = {m \in {"podinfo", "hostbin"} : Pinned(sub, i) /\ m \notin left} \cup {name}
      BY <1>3, <2>1
    <3>3. Range(is.mounts) = Range(was.mounts) \cup {m \in {"podinfo", "hostbin"} : Pinned(sub, i) /\ m \notin left}
      BY DEF FieldsPatched
    <3>4. Range(v) = Range(was.mounts) \cup {m \in {"podinfo", "hostbin"} : Pinned(sub, i) /\ m \notin left1}
      BY <2>3, <3>2, <3>3
    <3> HIDE DEF left1
    <3>5. QED
      BY <2>3, <2>4, <3>1, <3>4 DEF FieldsPatched, VarOnce, HasVar
  <2>6. QED
    BY <2>2, <2>4, <2>5 DEF d, FieldDone
<1>4. ASSUME NEW var, EnvPatch(p, i, var)
      PROVE  /\ p.field = "env" /\ Kind(p) = var.name
             /\ IsContainer(d) /\ d.name = is.name /\ d.limits = is.limits /\ d.mounts = is.mounts
             /\ d.command = is.command /\ d.args = is.args /\ d.cpu = is.cpu
             /\ d.env = is.env \o <<var>>
  <2>1. p.field = "env" /\ p.value = <<var>> /\ p.op \in {"append", "set"} /\ Kind(p) = var.name
    BY <1>4 DEF EnvPatch, AppendTo, SetTo, Patch, Kind
  <2>2. p.op = "set" => is.env = <<>>
    BY <2>1
  <2>3. v = is.env \o <<var>>
    <3>1. <<var>> = <<>> \o <<var>>
      OBVIOUS
    <3>2. QED
      BY <2>1, <2>2, <3>1 DEF Written
  <2> HIDE DEF v
  <2>4. IsSequence(v)
    <3>1. OneMore(v, is.env, var)
      BY <1>1, <2>3, Appended
    <3>2. QED
      BY <3>1 DEF OneMore
  <2>5. IsSequence(Written(is, p))
    BY <2>4 DEF v
  <2>6. FieldUpdated(d, is, p)
    BY <2>1, <2>5, UpdatedField DEF d
  <2> HIDE DEF d
  <2>7. QED
    BY <2>1, <2>3, <2>6 DEF FieldUpdated, v
<1>5. CASE Pinned(sub, i) /\ Kind(p) = "CONTAINER_NAME" /\ EnvPatch(p, i, ContainerVar(was))
  <2>1. ContainerVar(was) = [name |-> "CONTAINER_NAME", value |-> <<was.name>>] /\ ContainerVar(was).name = "CONTAINER_NAME"
        /\ ContainerVar(was).value = <<was.name>>
    BY DEF ContainerVar
  <2>2. /\ p.field = "env"
        /\ IsContainer(d) /\ d.name = is.name /\ d.limits = is.limits /\ d.mounts = is.mounts
        /\ d.command = is.command /\ d.args = is.args /\ d.cpu = is.cpu
        /\ d.env = is.env \o <<ContainerVar(was)>>
    BY <1>4, <1>5, <2>1
  <2> HIDE DEF d
  <2>3. /\ d.env # <<>> /\ Range(d.env) = Range(is.env) \cup {ContainerVar(was)}
        /\ \A name : HasVar(d, name) <=> HasVar(is, name) \/ name = "CONTAINER_NAME"
        /\ ~HasVar(is, "CONTAINER_NAME") => VarOnce(d, "CONTAINER_NAME", <<was.name>>)
        /\ \A name, value : name # "CONTAINER_NAME" /\ VarOnce(is, name, value) => VarOnce(d, name, value)
    <3>1. OneVarMore(d, is, ContainerVar(was))
      BY <1>1, <2>1, <2>2, VarAppended
    <3>2. QED
      BY <2>1, <3>1 DEF OneVarMore
  <2>4. FieldsPatched(sub, i, d, left1)
    <3>1. "CONTAINER_NAME" \in left /\ "CONTAINER_NAME" \notin left1
      BY <1>5
    <3>2. \A kind \in {"podinfo", "hostbin", "command", "args", "CPU_POOLS"} : kind \in left1 <=> kind \in left
      BY <1>5
    <3> HIDE DEF left1
    <3>3. QED
      BY <1>5, <2>2, <2>3, <3>1, <3>2 DEF FieldsPatched
  <2>5. QED
    BY <2>2, <2>3, <2>4 DEF d, FieldDone
<1>6. CASE Pooled(sub, i) /\ Kind(p) = "CPU_POOLS" /\ EnvPatch(p, i, PoolsVar(was))
  <2>1. PoolsVar(was) = [name |-> "CPU_POOLS", value |-> PoolTypes(was)] /\ PoolsVar(was).name = "CPU_POOLS" /\ PoolsVar(was).value = PoolTypes(was)
    BY DEF PoolsVar
  <2>2. /\ p.field = "env"
        /\ IsContainer(d) /\ d.name = is.name /\ d.limits = is.limits /\ d.mounts = is.mounts
        /\ d.command = is.command /\ d.args = is.args /\ d.cpu = is.cpu
        /\ d.env = is.env \o <<PoolsVar(was)>>
    BY <1>4, <1>6, <2>1
  <2> HIDE DEF d
  <2>3. /\ d.env # <<>> /\ Range(d.env) = Range(is.env) \cup {PoolsVar(was)}
        /\ \A name : HasVar(d, name) <=> HasVar(is, name) \/ name = "CPU_POOLS"
        /\ ~HasVar(is, "CPU_POOLS") => VarOnce(d, "CPU_POOLS", PoolTypes(was))
        /\ \A name, value : name # "CPU_POOLS" /\ VarOnce(is, name, value) => VarOnce(d, name, value)
    <3>1. OneVarMore(d, is, PoolsVar(was))
      BY <1>1, <2>1, <2>2, VarAppended
    <3>2. QED
      BY <2>1, <3>1 DEF OneVarMore
  <2>4. FieldsPatched(sub, i, d, left1)
    <3>1. "CPU_POOLS" \in left /\ "CPU_POOLS" \notin left1
      BY <1>6
    <3>2. \A kind \in {"podinfo", "hostbin", "command", "args", "CONTAINER_NAME"} : kind \in left1 <=> kind \in left
      BY <1>6
    <3> HIDE DEF left1
    <3>3. QED
      BY <1>6, <2>2, <2>3, <3>1, <3>2 DEF FieldsPatched
  <2>5. QED
    BY <2>2, <2>3, <2>4 DEF d, FieldDone
<1>7. CASE Pinned(sub, i) /\ Kind(p) = "command" /\ p = SetTo(i, "command", <<ProcessStarter>>)
  <2>1. p.op = "set" /\ p.field = "command" /\ v = <<ProcessStarter>>
    BY <1>7 DEF SetTo, Patch, Written
  <2>2. IsSequence(v)
    <3>1. <<ProcessStarter>>[1] = ProcessStarter /\ DOMAIN <<ProcessStarter>> = {1}
      OBVIOUS
    <3>2. ProcessStarter \in Range(<<ProcessStarter>>)
      BY <3>1 DEF Range
    <3>3. QED
      BY <2>1, <3>2 DEF IsSequence
  <2> HIDE DEF v
  <2>3. /\ IsContainer(d) /\ d.name = is.name /\ d.limits = is.limits /\ d.env = is.env /\ d.mounts = is.mounts
        /\ d.command = v /\ d.args = is.args /\ d.cpu = is.cpu
    BY <2>1, <2>2, UpdatedField DEF v, d, FieldUpdated
  <2> HIDE DEF d
  <2>4. FieldsPatched(sub, i, d, left1)
    <3>1. "command" \notin left1
      BY <1>7
    <3>2. \A kind \in {"podinfo", "hostbin", "args", "CPU_POOLS", "CONTAINER_NAME"} : kind \in left1 <=> kind \in left
      BY <1>7
    <3> HIDE DEF left1
    <3>3. QED
      BY <1>7, <2>1, <2>3, <3>1, <3>2 DEF FieldsPatched, VarOnce, HasVar
  <2>5. QED
    BY <2>1, <2>3, <2>4 DEF d, FieldDone
<1>8. CASE Moved(sub, i) /\ Kind(p) = "args" /\ p = SetTo(i, "args", MovedArgs(was))
  <2>1. p.op = "set" /\ p.field = "args" /\ v = MovedArgs(was)
    BY <1>8 DEF SetTo, Patch, Written
  <2>2. IsSequence(v)
    BY <2>1, ContainerFields, ConcatIsSequence DEF MovedArgs
  <2> HIDE DEF v
  <2>3. /\ IsContainer(d) /\ d.name = is.name /\ d.limits = is.limits /\ d.env = is.env /\ d.mounts = is.mounts
        /\ d.command = is.command /\ d.args = v /\ d.cpu = is.cpu
    BY <2>1, <2>2, UpdatedField DEF v, d, FieldUpdated
  <2> HIDE DEF d
  <2>4. FieldsPatched(sub, i, d, left1)
    <3>1. "args" \notin left1
      BY <1>8
    <3>2. \A kind \in {"podinfo", "hostbin", "command", "CPU_POOLS", "CONTAINER_NAME"} : kind \in left1 <=> kind \in left
      BY <1>8
    <3> HIDE DEF left1
    <3>3. QED
      BY <1>8, <2>1, <2>3, <3>1, <3>2 DEF FieldsPatched, VarOnce, HasVar
  <2>5. QED
    BY <2>1, <2>3, <2>4 DEF d, FieldDone
<1>9. QED
  <2>1. \/ Kind(p) = "cpu" /\ p.field = "cpu" /\ p = SetTo(i, "cpu", <<p.value[1], 0>>)
        \/ Pinned(sub, i) /\ \E name \in {"podinfo", "hostbin"} : Kind(p) = name /\ p = AppendTo(i, "mounts", name)
        \/ Pinned(sub, i) /\ Kind(p) = "CONTAINER_NAME" /\ EnvPatch(p, i, ContainerVar(was))
        \/ Pooled(sub, i) /\ Kind(p) = "CPU_POOLS" /\ EnvPatch(p, i, PoolsVar(was))
        \/ Pinned(sub, i) /\ Kind(p) = "command" /\ p = SetTo(i, "command", <<ProcessStarter>>)
        \/ Moved(sub, i) /\ Kind(p) = "args" /\ p = SetTo(i, "args", MovedArgs(was))
    BY KindsOfPatches DEF OfItsKind
  <2> HIDE DEF d, v, left1
  <2>2. QED
    BY <1>2, <1>3, <1>5, <1>6, <1>7, <1>8, <2>1 DEF d, left1

\* The next patch of a container applies, and then all patches but the rest are in it.
HeadDone(sub, i, is, list, d) ==
  /\ IsContainer(d) /\ d.limits = is.limits
  /\ PatchedBut(sub, i, d, Tail(list)) /\ IsList(Tail(list)) /\ InOrder(Tail(list))
  /\ \A k \in DOMAIN Tail(list) : k + 1 \in DOMAIN list /\ Tail(list)[k] = list[k + 1]
  /\ \A k \in DOMAIN list : k = 1 \/ \E j \in DOMAIN Tail(list) : list[k] = Tail(list)[j]
  /\ 1 \in DOMAIN list /\ Head(list) = list[1]
  /\ Head(list).field # "cpu" => d.cpu = is.cpu
  /\ Head(list).field = "cpu" => /\ d = [is EXCEPT !.cpu = Head(list).value]
                                 /\ \A k \in DOMAIN Tail(list) : Tail(list)[k].field # "cpu"

LEMMA HeadPatched ==
  ASSUME NEW sub, NEW i, NEW is, NEW list, IsContainer(is), IsContainer(sub.containers[i]),
         PatchedBut(sub, i, is, list), IsList(list), InOrder(list), list # <<>>,
         Pinned(sub, i) => sub.containers[i].mounts # <<>>
  PROVE  /\ Head(list).at = i
         /\ Head(list).op = "append" => is[Head(list).field] # <<>>
         /\ HeadDone(sub, i, is, list, Updated(is, Head(list)))
<1> DEFINE p    == Head(list)
           d    == Updated(is, p)
           rest == Tail(list)
<1>1. /\ \A k \in DOMAIN list : PossiblePatch(sub, list[k], i)
      /\ FieldsPatched(sub, i, is, Kinds(list)) /\ EnvReady(is, list)
  BY DEF PatchedBut
<1>2. \A k \in DOMAIN list : Rank(Kind(list[k])) \in Nat
  <2>1. \A q : PossiblePatch(sub, q, i) => Rank(Kind(q)) \in 1..7
    BY KindsOfPatches DEF OfItsKind
  <2>2. QED
    BY <1>1, <2>1
<1>3. /\ 1 \in DOMAIN list /\ p = list[1]
      /\ IsList(rest) /\ InOrder(rest)
      /\ \A k \in DOMAIN rest : k + 1 \in DOMAIN list /\ rest[k] = list[k + 1] /\ Rank(Kind(p)) < Rank(Kind(rest[k]))
      /\ \A k \in DOMAIN list : k = 1 \/ \E j \in DOMAIN rest : list[k] = rest[j]
      /\ Kinds(rest) = Kinds(list) \ {Kind(p)}
  BY <1>2, TailOfList
<1> HIDE DEF p, rest
<1>4. PossiblePatch(sub, p, i) /\ Kind(p) \in Kinds(list)
  BY <1>1, <1>3 DEF Kinds
<1>5. p.field = "env" =>
        IF p.op = "set"
        THEN is.env = <<>> /\ (Kind(p) = "CPU_POOLS" => "CONTAINER_NAME" \notin Kinds(list))
        ELSE is.env # <<>> \/ (Kind(p) = "CPU_POOLS" /\ "CONTAINER_NAME" \in Kinds(list))
  BY <1>1, <1>3 DEF EnvReady
<1>6. /\ IsContainer(d) /\ FieldsPatched(sub, i, d, Kinds(list) \ {Kind(p)})
      /\ p.field # "env" => d.env = is.env
      /\ p.field = "env" => d.env # <<>>
      /\ p.field # "cpu" => d.cpu = is.cpu
      /\ p.field = "cpu" => d = [is EXCEPT !.cpu = p.value]
  <2>1. p.field = "env" /\ p.op = "set" => is.env = <<>>
    BY <1>5
  <2>2. FieldDone(sub, d, i, is, Kinds(list), p)
    BY <1>1, <1>4, <2>1, FieldPatched
  <2> HIDE DEF d
  <2>3. QED
    BY <2>2 DEF FieldDone
<1> HIDE DEF d
<1>7. \A k \in DOMAIN rest : PossiblePatch(sub, rest[k], i) /\ Rank(Kind(rest[k])) \in Nat /\ Rank(Kind(p)) \in Nat
  BY <1>1, <1>2, <1>3
<1>8. Kind(p) = "CPU_POOLS" => "CONTAINER_NAME" \notin Kinds(list)
  <2>1. Kinds(list) = Kinds(rest) \cup {Kind(p)}
    BY <1>3, <1>4
  <2>2. Rank("CPU_POOLS") = 7 /\ Rank("CONTAINER_NAME") = 4
    BY DEF Rank
  <2>3. Kind(p) = "CPU_POOLS" => "CONTAINER_NAME" \notin Kinds(rest)
    BY <1>3, <2>2 DEF Kinds
  <2>4. QED
    BY <2>1, <2>3
<1>9. p.op = "append" => is[p.field] # <<>>
  <2>1. p.field = "mounts" => is.mounts # <<>>
    <3>1. PossiblePatch(sub, p, i) /\ p.field = "mounts" => Pinned(sub, i)
      BY DEF PossiblePatch
    <3>2. FieldsPatched(sub, i, is, Kinds(list)) => Range(sub.containers[i].mounts) \subseteq Range(is.mounts)
      BY DEF FieldsPatched
    <3>3. IsSequence(is.mounts) /\ IsSequence(sub.containers[i].mounts)
      BY ContainerFields
    <3>4. QED
      BY <1>1, <1>4, <3>1, <3>2, <3>3, LongerNotEmpty
  <2>2. p.op = "append" => p.field \in {"mounts", "env"}
    <3>1. PossiblePatch(sub, p, i) => (p.op = "append" => p.field \in {"mounts", "env"})
      BY DEF PossiblePatch, IsLimitPatch, SetTo, Patch
    <3>2. QED
      BY <1>4, <3>1
  <2>3. p.field = "env" /\ p.op = "append" => is.env # <<>>
    BY <1>5, <1>8
  <2>4. QED
    BY <1>1, <2>1, <2>2, <2>3
<1>10. EnvReady(d, rest)
  <2> SUFFICES ASSUME NEW k \in DOMAIN rest, rest[k].field = "env"
               PROVE  IF rest[k].op = "set"
                      THEN d.env = <<>> /\ (Kind(rest[k]) = "CPU_POOLS" => "CONTAINER_NAME" \notin Kinds(rest))
                      ELSE d.env # <<>> \/ (Kind(rest[k]) = "CPU_POOLS" /\ "CONTAINER_NAME" \in Kinds(rest))
    BY DEF EnvReady
  <2>1. IF rest[k].op = "set"
        THEN is.env = <<>> /\ (Kind(rest[k]) = "CPU_POOLS" => "CONTAINER_NAME" \notin Kinds(list))
        ELSE is.env # <<>> \/ (Kind(rest[k]) = "CPU_POOLS" /\ "CONTAINER_NAME" \in Kinds(list))
    BY <1>1, <1>3 DEF EnvReady
  <2>2. CASE p.field # "env"
    <3>1. Kind(p) # "CONTAINER_NAME"
      BY <1>4, <2>2, KindsOfPatches DEF EnvPatch, AppendTo, SetTo, Patch, OfItsKind
    <3>2. "CONTAINER_NAME" \in Kinds(rest) <=> "CONTAINER_NAME" \in Kinds(list)
      BY <1>3, <3>1
    <3>3. QED
      BY <1>6, <2>1, <2>2, <3>2
  <2>3. CASE p.field = "env"
    <3>1. Kind(p) \in {"CONTAINER_NAME", "CPU_POOLS"} /\ Kind(rest[k]) \in {"CONTAINER_NAME", "CPU_POOLS"}
      <4>1. \A q : PossiblePatch(sub, q, i) /\ q.field = "env" => Kind(q) \in {"CONTAINER_NAME", "CPU_POOLS"}
        BY KindsOfPatches DEF SetTo, AppendTo, Patch, OfItsKind
      <4>2. QED
        BY <1>4, <1>7, <2>3, <4>1
    <3>2. Rank("CPU_POOLS") = 7 /\ Rank("CONTAINER_NAME") = 4
      BY DEF Rank
    <3>3. Kind(p) = "CONTAINER_NAME" /\ Kind(rest[k]) = "CPU_POOLS"
      BY <1>3, <3>1, <3>2
    <3>4. "CONTAINER_NAME" \in Kinds(list)
      BY <1>4, <3>3
    <3>5. rest[k].op # "set" /\ d.env # <<>>
      BY <1>6, <2>1, <2>3, <3>3, <3>4
    <3>6. QED
      BY <3>5
  <2>4. QED
    BY <2>2, <2>3
<1>11. p.field = "cpu" => \A k \in DOMAIN rest : rest[k].field # "cpu"
  <2>1. \A q : q.field = "cpu" => Kind(q) = "cpu"
    BY DEF Kind
  <2>2. QED
    BY <1>3, <1>7, <2>1
<1>12. d.limits = is.limits
  BY <1>1, <1>6 DEF FieldsPatched
<1>13. p.at = i
  <2>1. OfItsKind(sub, p, i)
    BY <1>4, KindsOfPatches
  <2>2. QED
    BY <2>1 DEF OfItsKind
<1>14. PatchedBut(sub, i, d, rest)
  BY <1>3, <1>6, <1>7, <1>10 DEF PatchedBut
<1>15. HeadDone(sub, i, is, list, d)
  BY <1>3, <1>6, <1>11, <1>12, <1>14 DEF HeadDone, p, rest
<1>16. QED
  BY <1>9, <1>13, <1>15 DEF p, d

\* A container with another limit has the same patches.
LEMMA OtherLimit ==
  ASSUME NEW s, IsContainer(s), NEW c, c = [s EXCEPT !.cpu = c.cpu]
  PROVE  /\ IsContainer(c) /\ c.limits = s.limits
         /\ \A sub, i, left : FieldsPatched(sub, i, c, left) <=> FieldsPatched(sub, i, s, left)
<1>1. DOMAIN c = DOMAIN s /\ c = [f \in DOMAIN c |-> c[f]] /\ \A f \in DOMAIN s : f # "cpu" => c[f] = s[f]
  BY ContainerFields
<1>2. /\ c.name = s.name /\ c.limits = s.limits /\ c.env = s.env /\ c.mounts = s.mounts
      /\ c.command = s.command /\ c.args = s.args
  BY <1>1, ContainerFields
<1>3. c = [name |-> c.name, limits |-> c.limits, cpu |-> c.cpu, env |-> c.env, mounts |-> c.mounts,
           command |-> c.command, args |-> c.args]
  BY <1>1, ContainerFields
<1>4. IsContainer(c)
  BY <1>2, <1>3 DEF IsContainer
<1>5. \A sub, i, left : FieldsPatched(sub, i, c, left) <=> FieldsPatched(sub, i, s, left)
  BY <1>2 DEF FieldsPatched, VarOnce, HasVar
<1>6. QED
  BY <1>2, <1>4, <1>5

-----------------------------------------------------------------------------
(* Applying a patch to a Pod.                                               *)

LEMMA PodFields ==
  ASSUME NEW q, IsPod(q)
  PROVE  /\ DOMAIN q = {"containers", "volumes", "annotation"}
         /\ q = [f \in DOMAIN q |-> q[f]]
         /\ IsSequence(q.containers) /\ DOMAIN q.containers = 1..Len(q.containers) /\ Len(q.containers) \in Nat
         /\ IsSequence(q.volumes)
         /\ \A i \in DOMAIN q.containers : IsContainer(q.containers[i]) /\ i \in Nat /\ i # 0
<1>1. q = [containers |-> q.containers, volumes |-> q.volumes, annotation |-> q.annotation]
  BY DEF IsPod
<1>2. DOMAIN q = {"containers", "volumes", "annotation"}
  BY <1>1
<1>3. q = [f \in DOMAIN q |-> q[f]]
  BY <1>1
<1>4. IsSequence(q.containers) /\ IsSequence(q.volumes) /\ \A i \in DOMAIN q.containers : IsContainer(q.containers[i])
  BY DEF IsPod
<1>5. DOMAIN q.containers = 1..Len(q.containers) /\ Len(q.containers) \in Nat
  BY <1>4 DEF IsSequence
<1>6. QED
  BY <1>2, <1>3, <1>4, <1>5

\* The Pod r is q but for container i, which is c.
OneContainer(r, q, i, c) ==
  /\ IsPod(r) /\ r.annotation = q.annotation /\ r.volumes = q.volumes
  /\ DOMAIN r.containers = DOMAIN q.containers
  /\ r.containers[i] = c
  /\ \A j \in DOMAIN q.containers : j # i => r.containers[j] = q.containers[j]

LEMMA ContainerReplaced ==
  ASSUME NEW q, IsPod(q), NEW i \in DOMAIN q.containers, NEW c, IsContainer(c),
         NEW r, r = [q EXCEPT !.containers = [@ EXCEPT ![i] = c]]
  PROVE  OneContainer(r, q, i, c)
<1> DEFINE s == q.containers
           t == [s EXCEPT ![i] = c]
<1>1. DOMAIN s = 1..Len(s) /\ Len(s) \in Nat /\ s \in Seq(Range(s))
  BY PodFields DEF IsSequence
<1>2. DOMAIN t = DOMAIN s /\ t[i] = c /\ \A j \in DOMAIN s : j # i => t[j] = s[j]
  OBVIOUS
<1>3. t \in [1..Len(s) -> Range(t)]
  BY <1>1, <1>2 DEF Range
<1>4. IsSequence(t)
  <2> HIDE DEF t, s
  <2>1. QED
    BY <1>1, <1>3 DEF IsSequence
<1>5. r = [q EXCEPT !.containers = t]
  OBVIOUS
<1> HIDE DEF t, s
<1>6. /\ r.containers = t /\ r.volumes = q.volumes /\ r.annotation = q.annotation
      /\ r = [containers |-> r.containers, volumes |-> r.volumes, annotation |-> r.annotation]
  BY <1>5, PodFields
<1>7. \A j \in DOMAIN t : IsContainer(t[j])
  BY <1>2, PodFields DEF s
<1>8. IsPod(r)
  BY <1>4, <1>6, <1>7, PodFields DEF IsPod
<1>9. QED
  BY <1>2, <1>6, <1>8 DEF OneContainer, s

LEMMA AppliedToContainer ==
  ASSUME NEW q, IsPod(q), NEW i \in DOMAIN q.containers, NEW p, p.at = i,
         IsContainer(Updated(q.containers[i], p))
  PROVE  /\ Applies(q, p) <=> (p.op = "append" => q.containers[i][p.field] # <<>>)
         /\ OneContainer(Applied(q, p), q, i, Updated(q.containers[i], p))
<1>1. i # 0
  BY PodFields
<1>2. CurrentValue(q, p) = q.containers[i][p.field]
  BY <1>1 DEF CurrentValue
<1>3. Applied(q, p) = [q EXCEPT !.containers = [@ EXCEPT ![i] = Updated(q.containers[i], p)]]
  BY <1>1, <1>2 DEF Applied, Updated, Written
<1>4. QED
  BY <1>2, <1>3, ContainerReplaced DEF Applies

\* The Pod r is q with a volume more.
OneVolume(r, q, name) ==
  /\ IsPod(r) /\ r.containers = q.containers /\ r.annotation = q.annotation
  /\ r.volumes # <<>> /\ Range(r.volumes) = Range(q.volumes) \cup {name}

LEMMA AppliedToVolumes ==
  ASSUME NEW q, IsPod(q), q.volumes # <<>>, NEW p, NEW name, p = AppendTo(0, "volumes", name)
  PROVE  Applies(q, p) /\ OneVolume(Applied(q, p), q, name)
<1>1. p.at = 0 /\ p.field = "volumes" /\ p.op = "append" /\ p.value = <<name>>
  BY DEF AppendTo, Patch
<1>2. CurrentValue(q, p) = q.volumes
  BY <1>1 DEF CurrentValue
<1>3. PICK v : v = q.volumes \o <<name>>
  OBVIOUS
<1>4. OneMore(v, q.volumes, name)
  BY <1>3, PodFields, Appended
<1>5. Applied(q, p) = [q EXCEPT !.volumes = v]
  BY <1>1, <1>2, <1>3 DEF Applied
<1>6. PICK r : r = Applied(q, p)
  OBVIOUS
<1>7. /\ r.containers = q.containers /\ r.volumes = v /\ r.annotation = q.annotation
      /\ r = [containers |-> r.containers, volumes |-> r.volumes, annotation |-> r.annotation]
  BY <1>5, <1>6, PodFields
<1>8. IsPod(r)
  BY <1>4, <1>7, PodFields DEF IsPod, OneMore
<1>9. QED
  BY <1>1, <1>2, <1>4, <1>6, <1>7, <1>8 DEF Applies, OneMore, OneVolume

\* The list of the volumes' patches.
LEMMA VolumeList ==
  ASSUME NEW q, IsPod(q)
  PROVE  LET list == VolumePatches(q)
             both == {"podinfo", "hostbin"}
         IN  /\ IsList(list) /\ InOrder(list)
             /\ \A k \in DOMAIN list : \E name \in both : list[k] = AppendTo(0, "volumes", name)
             /\ PinningPatchAdded(q) /\ Range(q.volumes) \cap both = {} => Kinds(list) = both
             /\ ~PinningPatchAdded(q) \/ "podinfo" \in Range(q.volumes) => list = <<>>
<1> DEFINE p1   == AppendTo(0, "volumes", "podinfo")
           p2   == AppendTo(0, "volumes", "hostbin")
           two  == <<p1, p2>>
           list == VolumePatches(q)
<1>1. \A name : Contains(q.volumes, name) <=> name \in Range(q.volumes)
  <2>1. q.volumes \in Seq(Range(q.volumes))
    BY PodFields DEF IsSequence
  <2>2. DOMAIN q.volumes = 1..Len(q.volumes)
    BY <2>1
  <2>3. QED
    BY <2>2 DEF Contains, Range
<1>2. list = IF PinningPatchAdded(q) /\ "hostbin" \notin Range(q.volumes) /\ "podinfo" \notin Range(q.volumes)
             THEN two ELSE <<>>
  BY <1>1 DEF VolumePatches
<1>3. Kind(p1) = "podinfo" /\ Kind(p2) = "hostbin"
  BY DEF AppendTo, Patch, Kind
<1>4. /\ IsList(two) /\ InOrder(two) /\ Kinds(two) = {"podinfo", "hostbin"}
      /\ \A k \in DOMAIN two : two[k] \in {p1, p2}
  <2> HIDE DEF p1, p2
  <2>1. IsList(two) /\ DOMAIN two = 1..2 /\ two[1] = p1 /\ two[2] = p2
    BY DEF IsList
  <2> HIDE DEF two
  <2>2. \A k \in 1..2 : k = 1 \/ k = 2
    OBVIOUS
  <2>3. Rank(Kind(p1)) < Rank(Kind(p2))
    BY <1>3 DEF Rank
  <2>4. InOrder(two)
    BY <2>1, <2>2, <2>3 DEF InOrder
  <2>5. Kinds(two) = {Kind(p1), Kind(p2)}
    <3>1. 1 \in 1..2 /\ 2 \in 1..2
      OBVIOUS
    <3>2. QED
      BY <2>1, <2>2, <3>1 DEF Kinds
  <2>6. QED
    BY <1>3, <2>1, <2>2, <2>4, <2>5
<1> HIDE DEF two, list
<1>5. QED
  BY <1>2, <1>4, EmptyList DEF list

-----------------------------------------------------------------------------
(* The invariant: the initial states.                                       *)

LEMMA OrdinaryInit ==
  ASSUME Init, NamesFree(submitted), ListsThere(submitted)
  PROVE  OrdinaryInv
<1>1. ProperPod(submitted)
  BY PodsAssumption DEF Init, ProperPod
<1>2. pod = submitted /\ stage = "review" /\ stored = <<>>
  BY DEF Init
<1>3. IsPod(pod)
  BY <1>1, <1>2 DEF ProperPod, WellFormed
<1>4. PodShape
  BY <1>1, <1>2, <1>3 DEF PodShape, Conts
<1>5. \A k : Left(k) = <<>>
  BY <1>2 DEF Left
<1>6. ContainersPatched
  BY <1>2 DEF ContainersPatched
<1>7. VolumesPatched
  <2>1. Range(pod.volumes) \ Range(submitted.volumes) = {}
    BY <1>2
  <2>2. QED
    BY <1>2, <1>5, <2>1, EmptyList DEF VolumesPatched
<1>8. PatchLists /\ AnnotationAccepted /\ LimitsSet /\ StoredStays /\ Granted
  BY <1>2 DEF PatchLists, AnnotationAccepted, LimitsSet, StoredStays, Granted
<1>9. QED
  BY <1>2, <1>4, <1>6, <1>7, <1>8 DEF OrdinaryInv

-----------------------------------------------------------------------------
(* The invariant: the steps.                                                *)

\* What the invariant says of the Pod in every state.
LEMMA PodFacts ==
  ASSUME OrdinaryInv
  PROVE  /\ IsPod(pod) /\ IsPod(submitted) /\ pod.annotation = submitted.annotation
         /\ DOMAIN pod.containers = Conts /\ Conts = 1..Len(submitted.containers)
         /\ Len(submitted.containers) \in Nat /\ VolumesAt \notin Conts
         /\ \A i \in Conts : /\ i \in DOMAIN pod.containers /\ i \in DOMAIN submitted.containers
                             /\ IsContainer(pod.containers[i]) /\ IsContainer(submitted.containers[i])
                             /\ Fresh(submitted.containers[i])
                             /\ pod.containers[i].limits = submitted.containers[i].limits
                             /\ pod.containers[i].name = submitted.containers[i].name
<1>1. /\ IsPod(pod) /\ ProperPod(submitted) /\ pod.annotation = submitted.annotation
      /\ DOMAIN pod.containers = Conts
  BY DEF OrdinaryInv, PodShape
<1>2. IsPod(submitted) /\ \A i \in Conts : Fresh(submitted.containers[i])
  BY <1>1 DEF ProperPod, WellFormed, NamesFree, Conts
<1>3. Conts = 1..Len(submitted.containers) /\ Len(submitted.containers) \in Nat
  BY <1>2, PodFields DEF Conts
<1>4. VolumesAt \notin Conts
  BY <1>3 DEF VolumesAt
<1>5. ASSUME NEW i \in Conts
      PROVE  /\ pod.containers[i].limits = submitted.containers[i].limits
             /\ pod.containers[i].name = submitted.containers[i].name
  BY DEF OrdinaryInv, ContainersPatched, PatchedBut, FieldsPatched
<1>6. QED
  BY <1>1, <1>2, <1>3, <1>4, <1>5, PodFields DEF Conts

LEMMA NeededLists ==
  ASSUME OrdinaryInv
  PROVE  /\ \A i \in Conts : Pinned(submitted, i) => submitted.containers[i].mounts # <<>>
         /\ SomePinned => pod.volumes # <<>>
<1>1. ASSUME NEW i \in Conts, Pinned(submitted, i)
      PROVE  submitted.containers[i].mounts # <<>> /\ submitted.volumes # <<>>
  <2>1. submitted.containers[i] \in Range(submitted.containers)
    BY DEF Conts, Range
  <2>2. QED
    BY <1>1, <2>1 DEF OrdinaryInv, PodShape, ProperPod, ListsThere, Pinned
<1>2. submitted.volumes # <<>> => pod.volumes # <<>>
  <2>1. Range(submitted.volumes) \subseteq Range(pod.volumes)
    BY DEF OrdinaryInv, VolumesPatched
  <2>2. QED
    BY <2>1, PodFacts, PodFields, LongerNotEmpty
<1>3. QED
  BY <1>1, <1>2 DEF SomePinned

LEMMA RefuseKeeps ==
  ASSUME OrdinaryInv, Refuse
  PROVE  OrdinaryInv'
<1>1. /\ stage = "review" /\ stage' = "refused"
      /\ UNCHANGED <<quota, submitted, pod, stored, patches, readable, calls, conf, grant>>
  BY DEF Refuse, apiVars, callVars, nodeVars
<1>2. \A k : Left(k)' = Left(k)
  BY <1>1 DEF Left
<1>3. PodShape' /\ PatchLists' /\ AnnotationAccepted' /\ LimitsSet' /\ Granted'
  BY <1>1 DEF OrdinaryInv, PodShape, Conts, PatchLists, AnnotationAccepted, LimitsSet, Granted,
     SubmittedClaims
<1>4. ContainersPatched'
  BY <1>1, <1>2 DEF OrdinaryInv, ContainersPatched, Conts, Left
<1>5. VolumesPatched'
  BY <1>1, <1>2 DEF OrdinaryInv, VolumesPatched, SomePinned, Conts, VolumesAt, Left
<1>6. StoredStays'
  BY <1>1, <1>2 DEF OrdinaryInv, StoredStays, Conts, VolumesAt, Left, SomePinned
<1>7. QED
  BY <1>1, <1>3, <1>4, <1>5, <1>6 DEF OrdinaryInv

LEMMA StutterKeeps ==
  ASSUME OrdinaryInv, UNCHANGED vars
  PROVE  OrdinaryInv'
<1>1. UNCHANGED <<stage, quota, submitted, pod, stored, patches, readable, calls, conf, grant>>
  BY DEF vars, apiVars, callVars, nodeVars
<1>2. PodShape' /\ PatchLists' /\ AnnotationAccepted' /\ LimitsSet' /\ Granted'
  <2>1. PodShape' /\ AnnotationAccepted'
    BY <1>1 DEF OrdinaryInv, PodShape, Conts, AnnotationAccepted
  <2>2. PatchLists'
    BY <1>1 DEF OrdinaryInv, PatchLists, Conts, VolumesAt
  <2>3. Granted'
    BY <1>1 DEF OrdinaryInv, Conts, Granted, SubmittedClaims
  <2>4. LimitsSet'
    BY <1>1 DEF OrdinaryInv, Conts, LimitsSet, Left
  <2>5. QED
    BY <2>1, <2>2, <2>3, <2>4
<1>3. ContainersPatched'
  BY <1>1 DEF OrdinaryInv, ContainersPatched, Conts, Left
<1>4. VolumesPatched'
  BY <1>1 DEF OrdinaryInv, VolumesPatched, SomePinned, Conts, VolumesAt, Left
<1>5. StoredStays'
  BY <1>1 DEF OrdinaryInv, StoredStays, Conts, VolumesAt, Left, SomePinned
<1>6. QED
  BY <1>1, <1>2, <1>3, <1>4, <1>5 DEF OrdinaryInv

LEMMA UpdateKeeps ==
  ASSUME OrdinaryInv, Update
  PROVE  OrdinaryInv'
<1>1. /\ stage = "placed" /\ stage' = "review"
      /\ UNCHANGED <<quota, submitted, pod, stored, patches, readable, conf, grant>>
  BY DEF Update, CallAgain, apiVars, nodeVars
<1>2. \A k : Left(k) = <<>> /\ Left(k)' = <<>>
  BY <1>1 DEF Left
<1>3. PodShape' /\ PatchLists' /\ AnnotationAccepted' /\ LimitsSet' /\ Granted'
  BY <1>1 DEF OrdinaryInv, PodShape, Conts, PatchLists, AnnotationAccepted, LimitsSet, Granted,
     SubmittedClaims
<1>4. ContainersPatched'
  BY <1>1, <1>2 DEF OrdinaryInv, ContainersPatched, Conts
<1>5. VolumesPatched'
  BY <1>1, <1>2, EmptyList DEF OrdinaryInv, VolumesPatched, SomePinned, Conts
<1>6. StoredStays'
  BY <1>1, <1>2 DEF OrdinaryInv, StoredStays, Conts, SomePinned
<1>7. QED
  BY <1>1, <1>3, <1>4, <1>5, <1>6 DEF OrdinaryInv

\* When all patches are applied, no list has one left.
LEMMA NoneLeft ==
  ASSUME OrdinaryInv, Patched \/ stage = "placed"
  PROVE  /\ \A k \in Conts \cup {VolumesAt} : Left(k) = <<>>
         /\ \A i \in Conts : FieldsPatched(submitted, i, pod.containers[i], {})
         /\ \A i \in Conts : LimitSet(pod.containers[i], quota, readable)
         /\ Range(pod.volumes) \ Range(submitted.volumes) = IF SomePinned THEN {"podinfo", "hostbin"} ELSE {}
         /\ Range(submitted.volumes) \subseteq Range(pod.volumes)
<1>1. \A k \in Conts \cup {VolumesAt} : Left(k) = <<>>
  BY DEF OrdinaryInv, PatchLists, Patched, Left
<1>2. stage \in {"patching", "placed"}
  BY DEF Patched
<1>3. \A i \in Conts : FieldsPatched(submitted, i, pod.containers[i], {})
  BY <1>1, <1>2, EmptyList DEF OrdinaryInv, ContainersPatched, PatchedBut
<1>4. \A i \in Conts : LimitSet(pod.containers[i], quota, readable)
  BY <1>1, <1>2, EmptyList DEF OrdinaryInv, LimitsSet, LimitRight
<1>5. QED
  BY <1>1, <1>2, <1>3, <1>4, EmptyList DEF OrdinaryInv, VolumesPatched

LEMMA FinishUpdateKeeps ==
  ASSUME OrdinaryInv, FinishUpdate
  PROVE  OrdinaryInv'
<1>1. /\ Patched /\ stored # <<>> /\ stage = "patching" /\ stage' = "placed"
      /\ pod' = stored[1].pod /\ readable' = stored[1].readable
      /\ UNCHANGED <<quota, submitted, stored, patches, conf, grant>>
  BY DEF FinishUpdate, Patched, nodeVars
<1>2. Conts' = Conts /\ VolumesAt' = VolumesAt /\ \A k : Left(k)' = <<>>
  BY <1>1 DEF Conts, VolumesAt, Left
<1>3. /\ pod'.volumes = pod.volumes /\ IsPod(pod') /\ pod'.annotation = submitted.annotation
      /\ DOMAIN pod'.containers = Conts
      /\ \A i \in Conts : /\ pod.containers[i] = [pod'.containers[i] EXCEPT !.cpu = pod.containers[i].cpu]
                          /\ LimitSet(pod'.containers[i], quota, readable')
  BY <1>1 DEF OrdinaryInv, StoredStays, OnlyItsLimit
<1>4. ASSUME NEW i \in Conts
      PROVE  /\ PatchedBut(submitted, i, pod'.containers[i], <<>>)
             /\ pod'.containers[i] = [pod'.containers[i] EXCEPT !.cpu = pod'.containers[i].cpu]
  <2> DEFINE c == pod.containers[i]
             s == pod'.containers[i]
  <2>1. IsContainer(s)
    BY <1>3 DEF IsPod
  <2>2. c = [s EXCEPT !.cpu = c.cpu]
    BY <1>3
  <2>3. FieldsPatched(submitted, i, c, {})
    BY <1>1, NoneLeft
  <2> HIDE DEF c, s
  <2>4. FieldsPatched(submitted, i, s, {})
    BY <2>1, <2>2, <2>3, OtherLimit
  <2>5. PatchedBut(submitted, i, s, <<>>)
    BY <2>4, EmptyList DEF PatchedBut, EnvReady
  <2>6. s = [s EXCEPT !.cpu = s.cpu]
    BY <2>1, ContainerFields
  <2>7. QED
    BY <2>5, <2>6 DEF s
<1>5. PodShape'
  BY <1>1, <1>2, <1>3 DEF OrdinaryInv, PodShape
<1>6. PatchLists' /\ Granted'
  BY <1>1, <1>2 DEF OrdinaryInv, PatchLists, Granted, SubmittedClaims
<1>7. ContainersPatched'
  BY <1>1, <1>2, <1>4 DEF ContainersPatched
<1>8. VolumesPatched'
  <2>1. SomePinned' <=> SomePinned
    BY <1>1, <1>2 DEF SomePinned
  <2>2. QED
    BY <1>1, <1>2, <1>3, <2>1, NoneLeft, EmptyList DEF VolumesPatched
<1>9. AnnotationAccepted'
  BY <1>1 DEF OrdinaryInv, AnnotationAccepted
<1>10. LimitsSet'
  BY <1>1, <1>2, <1>3, EmptyList DEF LimitsSet, LimitRight
<1>11. StoredStays'
  <2>1. SomePinned' => {"podinfo", "hostbin"} \subseteq Range(pod'.volumes)
    BY <1>1, <1>3 DEF OrdinaryInv, StoredStays, SomePinned, Conts
  <2>2. \A i \in Conts : LimitSet(stored[1].pod.containers[i], quota, stored[1].readable)'
    BY <1>1, <1>3
  <2>3. QED
    BY <1>1, <1>2, <1>3, <1>4, <2>1, <2>2, EmptyList DEF StoredStays, OnlyItsLimit
<1>12. QED
  BY <1>1, <1>5, <1>6, <1>7, <1>8, <1>9, <1>10, <1>11 DEF OrdinaryInv

\* The pools of a node: those of one of the configurations, all of them finite.
LEMMA NodeConf ==
  ASSUME NEW labels, NEW pools \in DeterminePoolConfig(labels, Confs)
  PROVE  \E x \in Range(Confs) : pools = x.pools
  BY DEF DeterminePoolConfig, Range

LEMMA ConfFacts ==
  ASSUME NEW pools, \E x \in Range(Confs) : pools = x.pools
  PROVE  /\ UnambiguousNames(pools)
         /\ \A n \in DOMAIN pools : /\ n \in Seq(STRING) /\ IsFiniteSet(pools[n].cpus)
                                    /\ Cardinality(pools[n].cpus) \in Nat
                                    /\ AdvertisedDevices(pools, n) \in Nat
<1>1. UnambiguousNames(pools) /\ \A n \in DOMAIN pools : n \in Seq(STRING) /\ IsFiniteSet(pools[n].cpus)
  BY ConfsAssumption
<1>2. \A n \in DOMAIN pools : Cardinality(pools[n].cpus) \in Nat
  BY <1>1, FS_CardinalityType
<1>3. QED
  BY <1>1, <1>2 DEF AdvertisedDevices

\* What one container asks of a pool is part of the Pod's request.
LEMMA PartOfTotal ==
  ASSUME OrdinaryInv, NEW i \in Conts, NEW n \in DOMAIN submitted.containers[i].limits
  PROVE  /\ submitted.containers[i].limits[n] \in Nat /\ TotalRequest(n) \in Nat
         /\ submitted.containers[i].limits[n] <= TotalRequest(n)
<1> DEFINE f == [j \in DOMAIN pod.containers |->
                   LET limits == pod.containers[j].limits
                   IN  IF n \in DOMAIN limits THEN limits[n] ELSE 0]
<1>1. TotalRequest(n) = SumFunctionOnSet(f, DOMAIN f)
  BY DEF TotalRequest, SumFunction
<1>2. \A j \in Conts : \A m \in DOMAIN pod.containers[j].limits : pod.containers[j].limits[m] \in Nat
  BY PodFacts DEF IsContainer
<1>3. DOMAIN f = Conts /\ IsFiniteSet(DOMAIN f)
  <2>1. DOMAIN f = 1..Len(submitted.containers) /\ Len(submitted.containers) \in Nat
    BY PodFacts
  <2>2. QED
    BY <2>1, PodFacts, FS_Interval
<1>4. \A j \in DOMAIN f : f[j] \in Nat
  BY <1>2, <1>3
<1>5. f[i] = submitted.containers[i].limits[n]
  BY <1>3, PodFacts
<1> HIDE DEF f
<1>6. SumFunctionOnSet(f, DOMAIN f) \in Nat
  BY <1>3, <1>4, SumOfNats
<1>7. f[i] <= SumFunctionOnSet(f, DOMAIN f)
  BY <1>3, <1>4, SumAtLeast
<1>8. QED
  BY <1>1, <1>3, <1>4, <1>5, <1>6, <1>7

LEMMA ClaimsAsSubmitted ==
  ASSUME OrdinaryInv
  PROVE  Claims = SubmittedClaims
  BY PodFacts DEF Claims, SubmittedClaims

LEMMA PlaceKeeps ==
  ASSUME OrdinaryInv, Place
  PROVE  OrdinaryInv'
<1>1. /\ Patched /\ stored = <<>> /\ stage = "patching" /\ stage' = "placed"
      /\ stored' = <<[pod |-> pod, readable |-> readable]>>
      /\ UNCHANGED <<quota, submitted, pod, patches, readable, calls>>
  BY DEF Place, Patched, callVars
<1>2. /\ Conts' = Conts /\ VolumesAt' = VolumesAt /\ SubmittedClaims' = SubmittedClaims
      /\ \A k : Left(k)' = <<>>
  BY <1>1 DEF Conts, VolumesAt, SubmittedClaims, Left
<1>3. stored' # <<>> /\ stored'[1].pod = pod /\ stored'[1].readable = readable
  BY <1>1
<1>4. PICK labels \in Nodes : \E pools \in DeterminePoolConfig(labels, Confs) :
        Fits(pools) /\ conf' = pools /\ grant' \in Grants(pools)
  BY DEF Place
<1>5. PodShape' /\ PatchLists' /\ AnnotationAccepted'
  BY <1>1, <1>2 DEF OrdinaryInv, PodShape, PatchLists, AnnotationAccepted
<1>6. \A i \in Conts : PatchedBut(submitted, i, pod.containers[i], <<>>)
  BY <1>1, NoneLeft, EmptyList DEF PatchedBut, EnvReady
<1>7. ContainersPatched'
  BY <1>1, <1>2, <1>6 DEF ContainersPatched
<1>8. SomePinned' <=> SomePinned
  BY <1>1, <1>2 DEF SomePinned
<1>9. VolumesPatched'
  BY <1>1, <1>2, <1>8, NoneLeft, EmptyList DEF VolumesPatched
<1>10. LimitsSet'
  <2>1. \A i \in Conts : LimitSet(pod.containers[i], quota, readable)
    BY <1>1, NoneLeft
  <2>2. QED
    BY <1>1, <1>2, <2>1, EmptyList DEF LimitsSet, LimitRight
<1>11. StoredStays'
  <2>1. \A i \in Conts : LimitSet(pod.containers[i], quota, readable)
    BY <1>1, NoneLeft
  <2>2. \A i \in Conts : pod.containers[i] = [pod.containers[i] EXCEPT !.cpu = pod.containers[i].cpu]
    BY PodFacts, ContainerFields
  <2>3. SomePinned => {"podinfo", "hostbin"} \subseteq Range(pod.volumes)
    BY <1>1, NoneLeft
  <2>4. IsPod(pod) /\ pod.annotation = submitted.annotation /\ DOMAIN pod.containers = Conts
    BY PodFacts
  <2>5. QED
    BY <1>1, <1>2, <1>3, <1>6, <1>8, <2>1, <2>2, <2>3, <2>4, EmptyList DEF StoredStays, OnlyItsLimit
<1>12. Granted'
  <2> PICK pools \in DeterminePoolConfig(labels, Confs) :
        Fits(pools) /\ conf' = pools /\ grant' \in Grants(pools)
    BY <1>4
  <2>1. \E x \in Range(Confs) : conf' = x.pools
    BY NodeConf
  <2>2. ASSUME NEW i \in Conts, NEW n \in DOMAIN submitted.containers[i].limits
        PROVE  /\ n \in DOMAIN conf' /\ DeterminePoolType(n) # DefaultPoolID
               /\ submitted.containers[i].limits[n] <= AdvertisedDevices(conf', n)
    <3>1. n \in UNION {DOMAIN c.limits : c \in Range(pod.containers)}
      BY PodFacts DEF Range
    <3>2. n \in DOMAIN conf' /\ DeterminePoolType(n) # DefaultPoolID /\ TotalRequest(n) <= AdvertisedDevices(conf', n)
      BY <3>1 DEF Fits
    <3>3. AdvertisedDevices(conf', n) \in Nat
      BY <2>1, <3>2, ConfFacts
    <3>4. QED
      BY <3>2, <3>3, PartOfTotal
  <2>3. /\ DOMAIN grant' = SubmittedClaims
        /\ \A k \in SubmittedClaims :
             /\ grant'[k] \subseteq conf'[k[2]].cpus
             /\ Cardinality(grant'[k]) = pod.containers[k[1]].limits[k[2]]
    BY ClaimsAsSubmitted DEF Grants
  <2>4. \A k \in SubmittedClaims : k[1] \in Conts
    BY DEF SubmittedClaims
  <2>5. \A k \in SubmittedClaims : Cardinality(grant'[k]) = submitted.containers[k[1]].limits[k[2]]
    BY <2>3, <2>4, PodFacts
  <2>6. QED
    BY <1>1, <1>2, <2>1, <2>2, <2>3, <2>5 DEF Granted
<1>13. QED
  BY <1>1, <1>3, <1>5, <1>7, <1>9, <1>10, <1>11, <1>12 DEF OrdinaryInv

\* Applying the next patch of container i, and what it leaves.
ContainerStep(i) ==
  LET is == pod.containers[i]
      d  == pod'.containers[i]
  IN  /\ patches[i] # <<>>
      /\ OneContainer(pod', pod, i, d)
      /\ HeadDone(submitted, i, is, patches[i], d)
      /\ patches' = [patches EXCEPT ![i] = Tail(patches[i])]

\* Applying the next patch of the volumes.
VolumesStep ==
  /\ patches[VolumesAt] # <<>>
  /\ \E name \in {"podinfo", "hostbin"} :
       Head(patches[VolumesAt]) = AppendTo(0, "volumes", name) /\ OneVolume(pod', pod, name)
  /\ patches' = [patches EXCEPT ![VolumesAt] = Tail(patches[VolumesAt])]

\* Every patch applies.
LEMMA PatchStep ==
  ASSUME OrdinaryInv, ApplyPatch
  PROVE  /\ stage = "patching" /\ stage' = "patching"
         /\ UNCHANGED <<quota, submitted, readable, calls, stored, conf, grant>>
         /\ VolumesStep \/ \E i \in Conts : ContainerStep(i)
<1>1. /\ stage = "patching" /\ UNCHANGED <<quota, submitted, readable, calls, stored, conf, grant>>
  BY DEF ApplyPatch, nodeVars
<1>2. PICK k \in DOMAIN patches :
        /\ patches[k] # <<>>
        /\ IF Applies(pod, Head(patches[k]))
           THEN /\ pod' = Applied(pod, Head(patches[k]))
                /\ patches' = [patches EXCEPT ![k] = Tail(@)]
                /\ UNCHANGED stage
           ELSE stage' = "broken" /\ UNCHANGED <<pod, patches>>
  BY DEF ApplyPatch
<1>3. /\ DOMAIN patches = Conts \cup {VolumesAt}
      /\ IsList(patches[k]) /\ InOrder(patches[k])
      /\ Left(k) = patches[k]
  BY <1>1 DEF OrdinaryInv, PatchLists, Left
<1>4. CASE k \in Conts
  <2> DEFINE is == pod.containers[k]
             p  == Head(patches[k])
             d  == Updated(is, p)
  <2>1. PatchedBut(submitted, k, is, patches[k])
    BY <1>1, <1>3, <1>4 DEF OrdinaryInv, ContainersPatched
  <2>2. IsContainer(is) /\ IsContainer(submitted.containers[k]) /\ IsPod(pod) /\ k \in DOMAIN pod.containers
    BY <1>4, PodFacts
  <2>3. /\ p.at = k
        /\ p.op = "append" => is[p.field] # <<>>
        /\ HeadDone(submitted, k, is, patches[k], d)
    BY <1>2, <1>3, <1>4, <2>1, <2>2, HeadPatched, NeededLists
  <2>4. IsContainer(d)
    BY <2>3 DEF HeadDone
  <2> HIDE DEF p, is
  <2>5. Applies(pod, p) <=> (p.op = "append" => is[p.field] # <<>>)
    BY <2>2, <2>3, <2>4, AppliedToContainer DEF is
  <2>6. OneContainer(Applied(pod, p), pod, k, d)
    BY <2>2, <2>3, <2>4, AppliedToContainer DEF is
  <2>7. /\ stage' = "patching" /\ OneContainer(pod', pod, k, d)
        /\ patches' = [patches EXCEPT ![k] = Tail(patches[k])]
    BY <1>1, <1>2, <2>3, <2>5, <2>6 DEF p
  <2>8. pod'.containers[k] = d
    BY <2>7 DEF OneContainer
  <2>9. ContainerStep(k)
    BY <1>2, <2>3, <2>7, <2>8 DEF ContainerStep, is
  <2>10. QED
    BY <1>1, <1>4, <2>7, <2>9
<1>5. CASE k = VolumesAt
  <2>1. 1 \in DOMAIN patches[k] /\ Head(patches[k]) = patches[k][1]
    BY <1>2, <1>3, ListDomain
  <2>2. PICK name \in {"podinfo", "hostbin"} : Head(patches[k]) = AppendTo(0, "volumes", name)
    BY <1>3, <1>5, <2>1 DEF OrdinaryInv, VolumesPatched
  <2>3. IsPod(pod) /\ pod.volumes # <<>>
    <3>1. SomePinned
      BY <1>2, <1>3, <1>5 DEF OrdinaryInv, VolumesPatched
    <3>2. QED
      BY <3>1, PodFacts, NeededLists
  <2>4. Applies(pod, Head(patches[k])) /\ OneVolume(Applied(pod, Head(patches[k])), pod, name)
    BY <2>2, <2>3, AppliedToVolumes
  <2>5. /\ stage' = "patching" /\ pod' = Applied(pod, Head(patches[k]))
        /\ patches' = [patches EXCEPT ![k] = Tail(patches[k])]
    BY <1>1, <1>2, <2>4
  <2>6. VolumesStep
    BY <1>2, <1>5, <2>2, <2>4, <2>5 DEF VolumesStep
  <2>7. QED
    BY <1>1, <2>5, <2>6
<1>6. QED
  BY <1>3, <1>4, <1>5

\* The lists that are left: one is shorter, the others are the same.
LEMMA ListsLeft ==
  ASSUME OrdinaryInv, stage = "patching", NEW k \in DOMAIN patches, patches[k] # <<>>,
         patches' = [patches EXCEPT ![k] = Tail(patches[k])], IsList(Tail(patches[k])), InOrder(Tail(patches[k])),
         stage' = "patching", submitted' = submitted
  PROVE  /\ PatchLists'
         /\ Left(k) = patches[k] /\ Left(k)' = Tail(patches[k])
         /\ \A j \in DOMAIN patches : j # k => Left(j)' = Left(j)
<1>1. /\ IsList(patches) /\ DOMAIN patches = Conts \cup {VolumesAt}
      /\ \A j \in DOMAIN patches : IsList(patches[j]) /\ InOrder(patches[j])
  BY DEF OrdinaryInv, PatchLists
<1>2. DOMAIN patches' = DOMAIN patches /\ patches'[k] = Tail(patches[k])
      /\ \A j \in DOMAIN patches : j # k => patches'[j] = patches[j]
  BY <1>1
<1>3. IsList(patches')
  <2>1. PICK n \in Nat : DOMAIN patches = 1..n
    BY <1>1, ListDomain
  <2> DEFINE t == patches'
  <2>2. DOMAIN t = 1..n /\ t = [j \in DOMAIN t |-> t[j]]
    BY <2>1
  <2> HIDE DEF t
  <2>3. t \in [1..n -> Range(t)]
    BY <2>2 DEF Range
  <2>4. t \in Seq(Range(t))
    BY <2>3, FunctionIsSequence
  <2>5. QED
    BY <2>4, SequenceIsList DEF t
<1>4. Conts' = Conts /\ VolumesAt' = VolumesAt
  BY DEF Conts, VolumesAt
<1>5. PatchLists'
  BY <1>1, <1>2, <1>3, <1>4 DEF PatchLists
<1>6. QED
  BY <1>2, <1>5 DEF Left

\* What the invariant says of a container's limit depends on what it requests.
LEMMA SameLimits ==
  ASSUME NEW c, NEW d, d.limits = c.limits, NEW q, NEW ok, NEW first
  PROVE  /\ CfsLimits(d, q, Confs, ok) = CfsLimits(c, q, Confs, ok)
         /\ MayDiffer(d, q, ok, first) <=> MayDiffer(c, q, ok, first)
         /\ d.cpu = c.cpu => (LimitSet(d, q, ok) <=> LimitSet(c, q, ok))
<1>1. /\ SharedRequest(d) = SharedRequest(c) /\ ExclusiveRequest(d) = ExclusiveRequest(c)
      /\ SharedPoolNames(d) = SharedPoolNames(c)
      /\ CfsLimits(d, q, Confs, ok) = CfsLimits(c, q, Confs, ok)
  BY SameRequests
<1>2. MayDiffer(d, q, ok, first) <=> MayDiffer(c, q, ok, first)
  BY <1>1 DEF MayDiffer
<1>3. QED
  BY <1>1, <1>2 DEF LimitSet

\* The limit is set, or it is still to be set, after a patch as before.
LEMMA LimitStaysRight ==
  ASSUME NEW sub, NEW i, NEW is, NEW list, NEW d, HeadDone(sub, i, is, list, d), IsContainer(is),
         NEW q, NEW ok, LimitRight(is, list, q, ok)
  PROVE  LimitRight(d, Tail(list), q, ok)
<1> DEFINE p == Head(list)
           tail == Tail(list)
           OneOf(v) == \E t \in CfsLimits(is, q, Confs, ok) : v = <<t, 0>>
<1>1. /\ d.limits = is.limits
      /\ \A k \in DOMAIN tail : k + 1 \in DOMAIN list /\ tail[k] = list[k + 1]
      /\ \A k \in DOMAIN list : k = 1 \/ \E j \in DOMAIN tail : list[k] = tail[j]
      /\ 1 \in DOMAIN list /\ p = list[1]
      /\ p.field # "cpu" => d.cpu = is.cpu
      /\ p.field = "cpu" => d = [is EXCEPT !.cpu = p.value] /\ \A k \in DOMAIN tail : tail[k].field # "cpu"
  BY DEF HeadDone
<1>2. /\ CfsLimits(d, q, Confs, ok) = CfsLimits(is, q, Confs, ok)
      /\ d.cpu = is.cpu => (LimitSet(d, q, ok) <=> LimitSet(is, q, ok))
  BY <1>1, SameLimits
<1>3. /\ {k \in DOMAIN list : list[k].field = "cpu"} = {} => LimitSet(is, q, ok)
      /\ \A k \in DOMAIN list : list[k].field = "cpu" => OneOf(list[k].value)
  BY DEF LimitRight
<1> HIDE DEF p, tail, OneOf
<1>4. \A k \in DOMAIN tail : tail[k].field = "cpu" => OneOf(tail[k].value)
  BY <1>1, <1>3
<1>5. (\A k \in DOMAIN tail : tail[k].field # "cpu") => LimitSet(d, q, ok)
  <2>1. CASE p.field = "cpu"
    <3>1. OneOf(p.value)
      BY <1>1, <1>3, <2>1
    <3>2. d.cpu = p.value
      BY <1>1, <2>1, ContainerFields
    <3>3. QED
      BY <1>2, <3>1, <3>2 DEF LimitSet, OneOf
  <2>2. CASE p.field # "cpu"
    BY <1>1, <1>2, <1>3, <2>2
  <2>3. QED
    BY <2>1, <2>2
<1>6. QED
  BY <1>2, <1>4, <1>5 DEF LimitRight, OneOf, tail

\* If only the stored limit was left to be set, it is the patch that is applied.
LEMMA OnlyItsLimitStays ==
  ASSUME NEW sub, NEW i, NEW is, NEW list, NEW d, HeadDone(sub, i, is, list, d),
         IsContainer(is), IsContainer(d), NEW s, IsContainer(s),
         NEW may \in BOOLEAN, OnlyItsLimit(is, s, list, may)
  PROVE  OnlyItsLimit(d, s, Tail(list), may)
<1> DEFINE p == Head(list)
<1>1. /\ \A k \in DOMAIN Tail(list) : k + 1 \in DOMAIN list /\ Tail(list)[k] = list[k + 1]
      /\ 1 \in DOMAIN list /\ p = list[1]
      /\ p.field = "cpu" => d = [is EXCEPT !.cpu = p.value]
  BY DEF HeadDone
<1>2. /\ is = [s EXCEPT !.cpu = is.cpu]
      /\ \A k \in DOMAIN list : list[k].field = "cpu" /\ (list[k].value = s.cpu \/ may)
  BY DEF OnlyItsLimit
<1>3. p.field = "cpu" /\ (p.value = s.cpu \/ may) /\ d = [is EXCEPT !.cpu = p.value]
  BY <1>1, <1>2
<1>4. \A k \in DOMAIN Tail(list) : Tail(list)[k].field = "cpu" /\ (Tail(list)[k].value = s.cpu \/ may)
  BY <1>1, <1>2
<1> HIDE DEF p
<1>5. d.cpu = p.value
  BY <1>3, ContainerFields
<1>6. d = [s EXCEPT !.cpu = d.cpu]
  BY <1>2, <1>3, <1>5, ContainerFields
<1>7. QED
  BY <1>3, <1>4, <1>5, <1>6 DEF OnlyItsLimit

LEMMA ContainerStepKeeps ==
  ASSUME OrdinaryInv, stage = "patching", stage' = "patching",
         UNCHANGED <<quota, submitted, readable, calls, stored, conf, grant>>,
         NEW i \in Conts, ContainerStep(i)
  PROVE  OrdinaryInv'
<1> DEFINE is   == pod.containers[i]
           d    == pod'.containers[i]
           list == patches[i]
           p    == Head(list)
<1>1. /\ IsPod(pod') /\ pod'.annotation = pod.annotation /\ pod'.volumes = pod.volumes
      /\ DOMAIN pod'.containers = Conts
      /\ \A j \in Conts : j # i => pod'.containers[j] = pod.containers[j]
  BY PodFacts DEF ContainerStep, OneContainer
<1>2. /\ IsContainer(d) /\ d.limits = is.limits
      /\ PatchedBut(submitted, i, d, Tail(list)) /\ IsList(Tail(list)) /\ InOrder(Tail(list))
      /\ \A k \in DOMAIN Tail(list) : k + 1 \in DOMAIN list /\ Tail(list)[k] = list[k + 1]
      /\ \A k \in DOMAIN list : k = 1 \/ \E j \in DOMAIN Tail(list) : list[k] = Tail(list)[j]
      /\ 1 \in DOMAIN list /\ p = list[1]
      /\ p.field # "cpu" => d.cpu = is.cpu
      /\ p.field = "cpu" => d = [is EXCEPT !.cpu = p.value] /\ \A k \in DOMAIN Tail(list) : Tail(list)[k].field # "cpu"
  BY DEF ContainerStep, HeadDone
<1>3. /\ list # <<>> /\ patches' = [patches EXCEPT ![i] = Tail(list)] /\ i \in DOMAIN patches
      /\ DOMAIN patches = Conts \cup {VolumesAt}
  BY DEF ContainerStep, OrdinaryInv, PatchLists
<1>4. Conts' = Conts /\ VolumesAt' = VolumesAt /\ SubmittedClaims' = SubmittedClaims
  BY DEF Conts, VolumesAt, SubmittedClaims
<1>5. /\ PatchLists' /\ Left(i) = list /\ Left(i)' = Tail(list)
      /\ \A j \in Conts \cup {VolumesAt} : j # i => Left(j)' = Left(j)
  BY <1>2, <1>3, ListsLeft
<1>6. PodShape' /\ AnnotationAccepted' /\ Granted'
  BY <1>1, <1>4 DEF OrdinaryInv, PodShape, AnnotationAccepted, Granted
<1>7. ContainersPatched'
  <2>1. \A j \in Conts : PatchedBut(submitted, j, pod.containers[j], Left(j))
    BY DEF OrdinaryInv, ContainersPatched
  <2>2. \A j \in Conts : PatchedBut(submitted, j, pod'.containers[j], Left(j)')
    <3> SUFFICES ASSUME NEW j \in Conts
                 PROVE  PatchedBut(submitted, j, pod'.containers[j], Left(j)')
      OBVIOUS
    <3>1. CASE j = i
      BY <1>2, <1>5, <3>1
    <3>2. CASE j # i
      <4>1. pod'.containers[j] = pod.containers[j] /\ Left(j)' = Left(j)
        BY <1>1, <1>5, <3>2
      <4>2. QED
        BY <2>1, <4>1
    <3>3. QED
      BY <3>1, <3>2
  <2>3. QED
    BY <1>4, <2>2 DEF ContainersPatched
<1>8. VolumesPatched'
  <2>1. Left(VolumesAt)' = Left(VolumesAt)
    BY <1>3, <1>4, <1>5, PodFacts DEF Left
  <2>2. SomePinned' <=> SomePinned
    BY <1>4 DEF SomePinned
  <2>3. QED
    BY <1>1, <1>4, <2>1, <2>2 DEF OrdinaryInv, VolumesPatched
<1>9. HeadDone(submitted, i, is, list, d) /\ IsContainer(is)
  BY PodFacts DEF ContainerStep
<1>10. LimitsSet'
  <2>1. \A j \in Conts : LimitRight(pod.containers[j], Left(j), quota, readable)
    BY DEF OrdinaryInv, LimitsSet
  <2>2. LimitRight(d, Tail(list), quota, readable)
    BY <1>5, <1>9, <2>1, LimitStaysRight
  <2>3. \A j \in Conts : LimitRight(pod'.containers[j], Left(j)', quota', readable')
    BY <1>1, <1>5, <2>1, <2>2
  <2>4. QED
    BY <1>4, <2>3 DEF LimitsSet
<1>11. StoredStays'
  <2> DEFINE s(j) == stored[1].pod.containers[j]
             may(c) == MayDiffer(c, quota, readable, stored[1].readable)
  <2> SUFFICES ASSUME stored # <<>>
               PROVE  StoredStays'
    BY DEF StoredStays
  <2>1. /\ stored[1].pod.volumes = pod.volumes
        /\ IsPod(stored[1].pod) /\ stored[1].pod.annotation = submitted.annotation
        /\ DOMAIN stored[1].pod.containers = Conts
        /\ Left(VolumesAt) = <<>>
        /\ SomePinned => {"podinfo", "hostbin"} \subseteq Range(pod.volumes)
        /\ \A j \in Conts : /\ LimitSet(s(j), quota, stored[1].readable)
                            /\ OnlyItsLimit(pod.containers[j], s(j), Left(j), may(pod.containers[j]))
    BY DEF OrdinaryInv, StoredStays
  <2>2. IsContainer(s(i))
    BY <2>1 DEF IsPod
  <2>3. OnlyItsLimit(d, s(i), Tail(list), may(is))
    <3>1. PICK b \in BOOLEAN : b = may(is)
      BY DEF MayDiffer
    <3>2. OnlyItsLimit(is, s(i), list, b)
      BY <1>5, <2>1, <3>1
    <3>3. QED
      BY <1>2, <1>9, <2>2, <3>1, <3>2, OnlyItsLimitStays
  <2>4. may(d) <=> may(is)
    BY <1>2, SameLimits
  <2>5. OnlyItsLimit(d, s(i), Tail(list), may(d))
    BY <2>3, <2>4 DEF OnlyItsLimit
  <2>6. \A j \in Conts : /\ OnlyItsLimit(pod'.containers[j], s(j), Left(j)', may(pod'.containers[j]))
                         /\ PatchedBut(submitted, j, pod'.containers[j], Left(j)')
    <3> SUFFICES ASSUME NEW j \in Conts
                 PROVE  /\ OnlyItsLimit(pod'.containers[j], s(j), Left(j)', may(pod'.containers[j]))
                        /\ PatchedBut(submitted, j, pod'.containers[j], Left(j)')
      OBVIOUS
    <3>1. PatchedBut(submitted, j, pod.containers[j], Left(j))
      BY DEF OrdinaryInv, ContainersPatched
    <3>2. CASE j = i
      BY <1>2, <1>5, <2>5, <3>2
    <3>3. CASE j # i
      <4>1. pod'.containers[j] = pod.containers[j] /\ Left(j)' = Left(j)
        BY <1>1, <1>5, <3>3
      <4>2. OnlyItsLimit(pod.containers[j], s(j), Left(j), may(pod.containers[j]))
        BY <2>1
      <4>3. QED
        BY <3>1, <4>1, <4>2
    <3>4. QED
      BY <3>2, <3>3
  <2>7. Left(VolumesAt)' = <<>>
    BY <1>3, <1>4, <1>5, <2>1, PodFacts DEF Left
  <2>8. SomePinned' <=> SomePinned
    BY <1>4 DEF SomePinned
  <2>9. QED
    BY <1>1, <1>4, <2>1, <2>6, <2>7, <2>8 DEF StoredStays
<1>12. QED
  BY <1>5, <1>6, <1>7, <1>8, <1>10, <1>11 DEF OrdinaryInv

LEMMA VolumesStepKeeps ==
  ASSUME OrdinaryInv, stage = "patching", stage' = "patching",
         UNCHANGED <<quota, submitted, readable, calls, stored, conf, grant>>, VolumesStep
  PROVE  OrdinaryInv'
<1> DEFINE list == patches[VolumesAt]
           tail == Tail(list)
<1>1. /\ list # <<>> /\ patches' = [patches EXCEPT ![VolumesAt] = tail]
      /\ DOMAIN patches = Conts \cup {VolumesAt} /\ IsList(list) /\ InOrder(list)
      /\ Left(VolumesAt) = list
  BY DEF VolumesStep, OrdinaryInv, PatchLists, Left
<1>2. PICK name \in {"podinfo", "hostbin"} : Head(list) = AppendTo(0, "volumes", name) /\ OneVolume(pod', pod, name)
  BY DEF VolumesStep
<1>3. /\ IsPod(pod') /\ pod'.annotation = pod.annotation /\ pod'.containers = pod.containers
      /\ pod'.volumes # <<>> /\ Range(pod'.volumes) = Range(pod.volumes) \cup {name}
  BY <1>2 DEF OneVolume
<1>4. Conts' = Conts /\ VolumesAt' = VolumesAt /\ SubmittedClaims' = SubmittedClaims
      /\ (SomePinned' <=> SomePinned)
  BY DEF Conts, VolumesAt, SubmittedClaims, SomePinned
<1>5. /\ \A k \in DOMAIN list : \E n \in {"podinfo", "hostbin"} : list[k] = AppendTo(0, "volumes", n)
      /\ Range(submitted.volumes) \subseteq Range(pod.volumes) /\ SomePinned
      /\ Range(pod.volumes) \ Range(submitted.volumes) = {"podinfo", "hostbin"} \ Kinds(list)
  BY <1>1 DEF OrdinaryInv, VolumesPatched
<1>6. Range(submitted.volumes) \cap {"podinfo", "hostbin"} = {}
  BY DEF OrdinaryInv, PodShape, ProperPod, NamesFree
<1>7. \A k \in DOMAIN list : Rank(Kind(list[k])) \in Nat
  <2>1. \A n \in {"podinfo", "hostbin"} : Rank(Kind(AppendTo(0, "volumes", n))) \in Nat
    BY DEF AppendTo, Patch, Kind, Rank
  <2>2. QED
    BY <1>5, <2>1
<1>8. Kind(Head(list)) = name
  BY <1>2 DEF AppendTo, Patch, Kind
<1> HIDE DEF list
<1>9. /\ IsList(tail) /\ InOrder(tail) /\ 1 \in DOMAIN list /\ Head(list) = list[1]
      /\ \A k \in DOMAIN tail : k + 1 \in DOMAIN list /\ tail[k] = list[k + 1]
      /\ Kinds(tail) = Kinds(list) \ {name}
  BY <1>1, <1>7, <1>8, TailOfList
<1>10. name \in Kinds(list)
  BY <1>8, <1>9 DEF Kinds
<1> HIDE DEF tail
<1>11. /\ PatchLists' /\ Left(VolumesAt) = list
       /\ \A j \in DOMAIN patches : j # VolumesAt => Left(j)' = Left(j)
       /\ patches'[VolumesAt'] = tail
  <2>1. VolumesAt \in DOMAIN patches /\ patches[VolumesAt] # <<>> /\ IsList(Tail(patches[VolumesAt]))
        /\ InOrder(Tail(patches[VolumesAt])) /\ patches' = [patches EXCEPT ![VolumesAt] = Tail(patches[VolumesAt])]
    BY <1>1, <1>9 DEF list, tail
  <2>2. PICK v : v = VolumesAt
    OBVIOUS
  <2>3. /\ PatchLists' /\ \A j \in DOMAIN patches : j # v => Left(j)' = Left(j)
    BY <2>1, <2>2, ListsLeft
  <2>4. patches'[VolumesAt'] = tail
    BY <1>4, <2>1 DEF tail, list
  <2>5. QED
    BY <1>1, <2>2, <2>3, <2>4
<1>12. Left(VolumesAt)' = tail
  BY <1>11 DEF Left
<1>13. \A i \in Conts : Left(i)' = Left(i)
  BY <1>1, <1>11, PodFacts
<1>14. PodShape' /\ AnnotationAccepted' /\ Granted'
  <2>1. DOMAIN pod'.containers = Conts
    BY <1>3, PodFacts
  <2>2. QED
    BY <1>3, <1>4, <2>1 DEF OrdinaryInv, PodShape, AnnotationAccepted, Granted
<1>15. ContainersPatched'
  <2>1. \A j \in Conts : PatchedBut(submitted, j, pod.containers[j], Left(j))
    BY DEF OrdinaryInv, ContainersPatched
  <2>2. \A j \in Conts : PatchedBut(submitted, j, pod'.containers[j], Left(j)')
    BY <1>3, <1>13, <2>1
  <2>3. QED
    BY <1>4, <2>2 DEF ContainersPatched
<1>16. VolumesPatched'
  <2>1. Range(pod'.volumes) \ Range(submitted.volumes) = {"podinfo", "hostbin"} \ Kinds(tail)
    BY <1>3, <1>5, <1>6, <1>9, <1>10
  <2>2. \A k \in DOMAIN tail : \E n \in {"podinfo", "hostbin"} : tail[k] = AppendTo(0, "volumes", n)
    BY <1>5, <1>9
  <2>3. Range(submitted.volumes) \subseteq Range(pod'.volumes)
    BY <1>3, <1>5
  <2>4. QED
    BY <1>3, <1>4, <1>5, <1>12, <2>1, <2>2, <2>3 DEF VolumesPatched
<1>17. LimitsSet'
  <2>1. \A j \in Conts : LimitRight(pod.containers[j], Left(j), quota, readable)
    BY DEF OrdinaryInv, LimitsSet
  <2>2. \A j \in Conts : LimitRight(pod'.containers[j], Left(j)', quota', readable')
    BY <1>3, <1>13, <2>1
  <2>3. QED
    BY <1>4, <2>2 DEF LimitsSet
<1>18. StoredStays'
  <2>1. stored = <<>>
    BY <1>1 DEF OrdinaryInv, StoredStays
  <2>2. QED
    BY <2>1 DEF StoredStays
<1>19. QED
  BY <1>11, <1>14, <1>15, <1>16, <1>17, <1>18 DEF OrdinaryInv

LEMMA ApplyPatchKeeps ==
  ASSUME OrdinaryInv, ApplyPatch
  PROVE  OrdinaryInv'
  BY PatchStep, ContainerStepKeeps, VolumesStepKeeps

\* Unless two calls may come to different limits, they come to the same.
LEMMA OneLimit ==
  ASSUME NEW c, IsContainer(c), NEW q, NEW ok, NEW first, ~MayDiffer(c, q, ok, first),
         NEW t \in CfsLimits(c, q, Confs, ok), NEW u \in CfsLimits(c, q, Confs, first)
  PROVE  t = u
<1>1. IsFiniteSet(SharedPoolNames(c))
  BY FS_Subset DEF SharedPoolNames, IsContainer
<1>2. CASE ExclusiveRequest(c) > 0 /\ q = QuotaAll /\ SharedRequest(c) > 0
  <2>1. ok = first /\ ~(Cardinality(SharedPoolNames(c)) > 1)
    BY <1>2 DEF MayDiffer
  <2>2. \A m, n \in SharedPoolNames(c) : m = n
    <3> SUFFICES ASSUME NEW m \in SharedPoolNames(c), NEW n \in SharedPoolNames(c), m # n
                 PROVE  FALSE
      OBVIOUS
    <3>1. Cardinality({m, n}) = 2
      <4>1. IsFiniteSet({n}) /\ Cardinality({n}) = 1 /\ m \notin {n}
        BY FS_Singleton
      <4>2. PICK S : S = {n}
        OBVIOUS
      <4>3. Cardinality(S \cup {m}) = 2
        <5>1. IsFiniteSet(S) /\ Cardinality(S) = 1 /\ m \notin S
          BY <4>1, <4>2
        <5>2. Cardinality(S \cup {m}) = IF m \in S THEN Cardinality(S) ELSE Cardinality(S) + 1
          BY <5>1, FS_AddElement
        <5>3. QED
          BY <5>1, <5>2
      <4>4. S \cup {m} = {m, n}
        BY <4>2
      <4>5. QED
        BY <4>3, <4>4
    <3>2. Cardinality({m, n}) <= Cardinality(SharedPoolNames(c))
      BY <1>1, FS_Subset
    <3>3. Cardinality(SharedPoolNames(c)) \in Nat
      BY <1>1, FS_CardinalityType
    <3>4. QED
      BY <2>1, <3>1, <3>2, <3>3
  <2>3. \A x, y \in MaxSharedPoolLimits(c, Confs, ok) : x = y
    <3> DEFINE sizes(name) == {1000 * Cardinality(x.pools[name].cpus) :
                                 x \in {y \in Range(Confs) : name \in DOMAIN y.pools}}
               most(name)  == Max(sizes(name) \cup {0})
    <3>1. MaxSharedPoolLimits(c, Confs, ok) =
            IF ~ok THEN {SharedRequest(c)}
            ELSE IF SharedPoolNames(c) = {} THEN {0}
            ELSE {most(name) : name \in SharedPoolNames(c)}
      BY DEF MaxSharedPoolLimits
    <3> HIDE DEF most
    <3>2. QED
      BY <2>2, <3>1
  <2>4. CfsLimits(c, q, Confs, ok) = {1000 * ExclusiveRequest(c) + max : max \in MaxSharedPoolLimits(c, Confs, ok)}
    BY <1>2 DEF CfsLimits
  <2>5. QED
    BY <2>1, <2>3, <2>4
<1>3. CASE ~(ExclusiveRequest(c) > 0 /\ q = QuotaAll /\ SharedRequest(c) > 0)
  BY <1>3 DEF CfsLimits
<1>4. QED
  BY <1>2, <1>3

\* The patches that a call computes for a container.
ListComputed(list, i, c, s, first, ok) ==
  /\ IsList(list) /\ InOrder(list) /\ PatchedBut(submitted, i, c, list)
  /\ LimitRight(c, list, quota, ok)
  /\ stored # <<>> => OnlyItsLimit(c, s, list, MayDiffer(c, quota, ok, first))

LEMMA ContainerList ==
  ASSUME OrdinaryInv, stage = "review", NEW i \in Conts, NEW ok \in BOOLEAN,
         NEW limit \in CfsLimits(pod.containers[i], quota, Confs, ok)
  PROVE  ListComputed(ContainerPatches(pod, i, limit), i, pod.containers[i],
                      stored[1].pod.containers[i], stored[1].readable, ok)
<1> DEFINE c == pod.containers[i]
           list == ContainerPatches(pod, i, limit)
<1>1. /\ IsContainer(c) /\ Fresh(submitted.containers[i]) /\ IsContainer(submitted.containers[i])
      /\ pod.annotation = submitted.annotation
      /\ Left(i) = <<>>
  BY PodFacts DEF Left
<1>2. \/ c = submitted.containers[i]
      \/ FieldsPatched(submitted, i, c, {})
  BY <1>1, EmptyList DEF OrdinaryInv, ContainersPatched, PatchedBut
<1>3. /\ IsList(list) /\ InOrder(list) /\ PatchedBut(submitted, i, c, list)
      /\ limit > 0 => "cpu" \in Kinds(list)
      /\ \A k \in DOMAIN list : list[k].field = "cpu" => list[k].value = <<limit, 0>>
  <2>1. CASE c = submitted.containers[i]
    BY <1>1, <2>1, FirstPatches
  <2>2. CASE FieldsPatched(submitted, i, c, {})
    BY <1>1, <2>2, LaterPatches
  <2>3. QED
    BY <1>2, <2>1, <2>2
<1>4. LimitRight(c, list, quota, ok)
  <2>1. \A k \in DOMAIN list : Kind(list[k]) = "cpu" => list[k].field = "cpu"
    <3>1. \A k \in DOMAIN list : OfItsKind(submitted, list[k], i)
      BY <1>3, KindsOfPatches DEF PatchedBut
    <3> HIDE DEF list
    <3>2. QED
      BY <3>1 DEF OfItsKind
  <2> HIDE DEF list
  <2>2. (\A k \in DOMAIN list : list[k].field # "cpu") => ~(limit > 0)
    BY <1>3, <2>1 DEF Kinds
  <2>3. (\A k \in DOMAIN list : list[k].field # "cpu") => LimitSet(c, quota, ok)
    BY <2>2 DEF LimitSet
  <2>4. QED
    BY <1>3, <2>3 DEF LimitRight
<1>5. ASSUME stored # <<>>
      PROVE  OnlyItsLimit(c, stored[1].pod.containers[i], list, MayDiffer(c, quota, ok, stored[1].readable))
  <2>1. /\ pod = stored[1].pod
        /\ PatchedBut(submitted, i, c, Left(i))
        /\ LimitSet(stored[1].pod.containers[i], quota, stored[1].readable)
    BY <1>5 DEF OrdinaryInv, StoredStays
  <2>2. LimitSet(c, quota, stored[1].readable) /\ stored[1].pod.containers[i] = c
    BY <2>1
  <2>3. FieldsPatched(submitted, i, c, {})
    BY <1>1, <2>1, EmptyList DEF PatchedBut
  <2>4. \A k \in DOMAIN list : list[k].field = "cpu" /\ list[k].value = <<limit, 0>>
    BY <1>1, <2>3, LaterPatches
  <2>5. limit > 0 \/ list = <<>>
    BY <1>1, <2>3, LaterPatches
  <2>6. PICK t \in CfsLimits(c, quota, Confs, stored[1].readable) : t > 0 => c.cpu = <<t, 0>>
    BY <2>2 DEF LimitSet
  <2>7. MayDiffer(c, quota, ok, stored[1].readable) \/ t = limit
    BY <1>1, OneLimit
  <2>8. c = [c EXCEPT !.cpu = c.cpu]
    BY <1>1, ContainerFields
  <2> HIDE DEF c, list
  <2>9. \A k \in DOMAIN list : list[k].value = c.cpu \/ MayDiffer(c, quota, ok, stored[1].readable)
    BY <2>4, <2>5, <2>6, <2>7, EmptyList
  <2>10. QED
    BY <2>2, <2>4, <2>8, <2>9 DEF OnlyItsLimit
<1>6. QED
  BY <1>3, <1>4, <1>5 DEF ListComputed

\* The annotation is judged by the containers' names and what they request.
LEMMA SameValidity ==
  ASSUME NEW cs, NEW ds, DOMAIN cs = DOMAIN ds, NEW entries,
         \A i \in DOMAIN cs : cs[i].name = ds[i].name /\ cs[i].limits = ds[i].limits,
         ValidAnnotation(cs, entries)
  PROVE  ValidAnnotation(ds, entries)
<1> SUFFICES ASSUME NEW name \in ContainerNames(entries), NEW pool \in ContainerPools(entries, name)
             PROVE  \E d \in Range(ds) : /\ d.name = name
                                         /\ ContainerSharedCPUTime(entries, name) = SharedRequest(d)
                                         /\ pool \in DOMAIN d.limits
                                         /\ ContainerTotalCPURequest(entries, pool, name) <= 2 * d.limits[pool]
  BY DEF ValidAnnotation
<1>1. PICK c \in Range(cs) : /\ c.name = name
                             /\ ContainerSharedCPUTime(entries, name) = SharedRequest(c)
                             /\ pool \in DOMAIN c.limits
                             /\ ContainerTotalCPURequest(entries, pool, name) <= 2 * c.limits[pool]
  BY DEF ValidAnnotation
<1>2. PICK i \in DOMAIN cs : c = cs[i]
  BY DEF Range
<1>3. ds[i] \in Range(ds) /\ ds[i].name = c.name /\ ds[i].limits = c.limits
  BY <1>2 DEF Range
<1>4. SharedRequest(ds[i]) = SharedRequest(c)
  BY <1>3, SameRequests
<1>5. QED
  BY <1>1, <1>3, <1>4

\* The webhook decides as for the submitted Pod whether a container is pinned.
LEMMA PinnedAsSubmitted ==
  ASSUME OrdinaryInv, stage = "review"
  PROVE  PinningPatchAdded(pod) <=> SomePinned
<1>1. ASSUME NEW i \in Conts
      PROVE  PinningPatchNeeded(pod, pod.containers[i]) <=> Pinned(submitted, i)
  <2>1. pod.annotation = submitted.annotation /\ Left(i) = <<>>
    BY PodFacts DEF Left
  <2>2. CASE pod.containers[i] = submitted.containers[i]
    BY <2>1, <2>2 DEF PinningPatchNeeded, Pinned, Annotated
  <2>3. CASE PatchedBut(submitted, i, pod.containers[i], Left(i))
    BY <2>1, <2>3, SamePinning DEF PatchedBut
  <2>4. QED
    BY <2>2, <2>3 DEF OrdinaryInv, ContainersPatched
<1>2. QED
  BY <1>1, PodFacts DEF PinningPatchAdded, SomePinned, Range

LEMMA ListsOf ==
  ASSUME NEW n \in Nat, NEW f, f = [i \in 1..n |-> f[i]], NEW v
  PROVE  /\ IsList(Append(f, v)) /\ DOMAIN Append(f, v) = 1..(n + 1)
         /\ \A i \in 1..n : Append(f, v)[i] = f[i]
         /\ Append(f, v)[n + 1] = v
<1> DEFINE S == {f[i] : i \in 1..n} \cup {v}
<1>1. f \in [1..n -> S] /\ v \in S
  OBVIOUS
<1> HIDE DEF S
<1>2. f \in Seq(S) /\ Len(f) = n
  BY <1>1, FunctionIsSequence
<1>3. Append(f, v) \in Seq(S) /\ Len(Append(f, v)) = n + 1
  BY <1>1, <1>2
<1>4. IsList(Append(f, v)) /\ DOMAIN Append(f, v) = 1..(n + 1)
  BY <1>3, SequenceIsList
<1>5. (\A i \in 1..n : Append(f, v)[i] = f[i]) /\ Append(f, v)[n + 1] = v
  BY <1>1, <1>2
<1>6. QED
  BY <1>4, <1>5

LEMMA MutateKeeps ==
  ASSUME OrdinaryInv, Mutate
  PROVE  OrdinaryInv'
<1>1. /\ stage = "review" /\ ~Refuses(pod) /\ stage' = "patching"
      /\ UNCHANGED <<quota, submitted, pod, stored, calls, conf, grant>>
  BY DEF Mutate, apiVars, nodeVars
<1>2. PICK ok \in BOOLEAN : /\ readable' = ok
                            /\ \E limits \in Limits(ok) : patches' = MutatePods(pod, limits)
  BY DEF Mutate
<1>3. PICK limits \in Limits(ok) : patches' = MutatePods(pod, limits)
  BY <1>2
<1>4. \A i \in Conts : limits[i] \in CfsLimits(pod.containers[i], quota, Confs, ok)
  BY PodFacts DEF Limits
<1>5. /\ IsList(patches') /\ DOMAIN patches' = Conts \cup {VolumesAt}
      /\ \A i \in Conts : patches'[i] = ContainerPatches(pod, i, limits[i])
      /\ patches'[VolumesAt] = VolumePatches(pod)
  <2> DEFINE n == Len(submitted.containers)
             f == [i \in 1..n |-> ContainerPatches(pod, i, limits[i])]
  <2>1. n \in Nat /\ Conts = 1..n /\ DOMAIN pod.containers = 1..n /\ VolumesAt = n + 1
    BY PodFacts DEF VolumesAt
  <2>2. patches' = Append(f, VolumePatches(pod))
    BY <1>3, <2>1 DEF MutatePods
  <2>3. f = [i \in 1..n |-> f[i]] /\ \A i \in 1..n : f[i] = ContainerPatches(pod, i, limits[i])
    OBVIOUS
  <2> HIDE DEF f, n
  <2>4. /\ IsList(patches') /\ DOMAIN patches' = 1..(n + 1)
        /\ \A i \in 1..n : patches'[i] = f[i]
        /\ patches'[n + 1] = VolumePatches(pod)
    BY <2>1, <2>2, <2>3, ListsOf
  <2>5. 1..(n + 1) = (1..n) \cup {n + 1}
    BY <2>1
  <2>6. QED
    BY <2>1, <2>3, <2>4, <2>5
<1>6. \A i \in Conts : ListComputed(patches'[i], i, pod.containers[i], stored[1].pod.containers[i],
                                    stored[1].readable, ok)
  BY <1>1, <1>4, <1>5, ContainerList
<1>7. IsPod(pod) /\ (PinningPatchAdded(pod) <=> SomePinned)
  BY <1>1, PodFacts, PinnedAsSubmitted
<1> DEFINE list == VolumePatches(pod)
           both == {"podinfo", "hostbin"}
<1>8. /\ IsList(list) /\ InOrder(list)
      /\ \A k \in DOMAIN list : \E name \in both : list[k] = AppendTo(0, "volumes", name)
      /\ SomePinned /\ Range(pod.volumes) \cap both = {} => Kinds(list) = both
      /\ ~SomePinned \/ "podinfo" \in Range(pod.volumes) => list = <<>>
  BY <1>7, VolumeList
<1>9. Conts' = Conts /\ VolumesAt' = VolumesAt /\ SubmittedClaims' = SubmittedClaims
      /\ (SomePinned' <=> SomePinned)
  BY <1>1 DEF Conts, VolumesAt, SubmittedClaims, SomePinned
<1>10. Left(VolumesAt)' = list /\ \A i \in Conts : Left(i)' = patches'[i]
  BY <1>1, <1>5, <1>9 DEF Left
<1> HIDE DEF list
<1>11. PodShape' /\ Granted'
  BY <1>1, <1>9 DEF OrdinaryInv, PodShape, Granted
<1>12. PatchLists'
  <2>1. \A k \in DOMAIN patches' : k \in Conts \/ k = VolumesAt
    BY <1>5
  <2>2. patches'[VolumesAt] = list
    BY <1>5 DEF list
  <2>3. \A k \in DOMAIN patches' : IsList(patches'[k]) /\ InOrder(patches'[k])
    BY <1>6, <1>8, <2>1, <2>2 DEF ListComputed
  <2>4. QED
    BY <1>5, <1>9, <2>3 DEF PatchLists
<1>13. ContainersPatched'
  <2>1. \A i \in Conts : PatchedBut(submitted, i, pod.containers[i], patches'[i])
    BY <1>6 DEF ListComputed
  <2>2. QED
    BY <1>1, <1>9, <1>10, <2>1 DEF ContainersPatched
<1>14. VolumesPatched'
  <2>1. /\ Range(submitted.volumes) \subseteq Range(pod.volumes)
        /\ LET added == Range(pod.volumes) \ Range(submitted.volumes)
           IN  added = {} \/ (SomePinned /\ added = both)
        /\ Range(submitted.volumes) \cap both = {}
    BY <1>1 DEF OrdinaryInv, VolumesPatched, PodShape, ProperPod, NamesFree
  <2>2. Range(pod.volumes) \ Range(submitted.volumes) = IF SomePinned THEN both \ Kinds(list) ELSE {}
    <3>1. CASE Range(pod.volumes) \ Range(submitted.volumes) = {}
      BY <1>8, <2>1, <3>1
    <3>2. CASE SomePinned /\ Range(pod.volumes) \ Range(submitted.volumes) = both
      BY <1>8, <3>2, EmptyList
    <3>3. QED
      BY <2>1, <3>1, <3>2
  <2>3. QED
    BY <1>1, <1>8, <1>9, <1>10, <2>1, <2>2 DEF VolumesPatched
<1>15. AnnotationAccepted'
  <2>1. /\ DOMAIN pod.containers = DOMAIN submitted.containers /\ pod.annotation = submitted.annotation
        /\ \A i \in DOMAIN pod.containers : /\ pod.containers[i].name = submitted.containers[i].name
                                            /\ pod.containers[i].limits = submitted.containers[i].limits
    BY PodFacts DEF Conts
  <2>2. \A entries \in Range(submitted.annotation) : ~DecodeFails(entries) /\ ValidAnnotation(pod.containers, entries)
    BY <1>1, <2>1 DEF Refuses
  <2>3. \A entries \in Range(submitted.annotation) : ValidAnnotation(submitted.containers, entries)
    BY <2>1, <2>2, SameValidity
  <2>4. QED
    BY <1>1, <2>2, <2>3 DEF AnnotationAccepted
<1>16. LimitsSet'
  <2>1. \A i \in Conts : LimitRight(pod.containers[i], patches'[i], quota, ok)
    BY <1>6 DEF ListComputed
  <2>2. QED
    BY <1>1, <1>2, <1>9, <1>10, <2>1 DEF LimitsSet
<1>17. StoredStays'
  <2> SUFFICES ASSUME stored # <<>>
               PROVE  StoredStays'
    BY <1>1 DEF StoredStays
  <2>1. /\ stored[1].pod.volumes = pod.volumes
        /\ IsPod(stored[1].pod) /\ stored[1].pod.annotation = submitted.annotation
        /\ DOMAIN stored[1].pod.containers = Conts
        /\ SomePinned => both \subseteq Range(pod.volumes)
        /\ \A i \in Conts : LimitSet(stored[1].pod.containers[i], quota, stored[1].readable)
    BY DEF OrdinaryInv, StoredStays
  <2>2. Left(VolumesAt)' = <<>>
    BY <1>8, <1>10, <2>1
  <2>3. \A i \in Conts : /\ PatchedBut(submitted, i, pod.containers[i], patches'[i])
                         /\ OnlyItsLimit(pod.containers[i], stored[1].pod.containers[i], patches'[i],
                                         MayDiffer(pod.containers[i], quota, ok, stored[1].readable))
    BY <1>6 DEF ListComputed
  <2>4. QED
    BY <1>1, <1>2, <1>9, <1>10, <2>1, <2>2, <2>3 DEF StoredStays
<1>18. QED
  BY <1>1, <1>11, <1>12, <1>13, <1>14, <1>15, <1>16, <1>17 DEF OrdinaryInv

-----------------------------------------------------------------------------
(* The invariant: what others add.                                          *)

LEMMA AppendedByOne ==
  ASSUME NEW s, IsSequence(s), NEW x
  PROVE  Append(s, x) = s \o <<x>>
<1> DEFINE S == Range(s) \cup {x}
<1>1. s \in Seq(S) /\ x \in S
  BY DEF IsSequence
<1> HIDE DEF S
<1>2. QED
  BY <1>1

\* The container d is c with the variable v more.
WithOneVar(d, c, v) ==
  /\ IsContainer(d) /\ d.name = c.name /\ d.limits = c.limits /\ d.mounts = c.mounts
  /\ d.command = c.command /\ d.args = c.args
  /\ OneVarMore(d, c, v)

LEMMA PodWithVar ==
  ASSUME NEW q, IsPod(q), NEW i \in DOMAIN q.containers, NEW r, r = WithVar(q, i)
  PROVE  OneContainer(r, q, i, r.containers[i]) /\ WithOneVar(r.containers[i], q.containers[i], InjectedVar)
<1> DEFINE c == q.containers[i]
           e == c.env \o <<InjectedVar>>
           d == [c EXCEPT !.env = e]
<1>1. IsContainer(c)
  BY PodFields
<1>2. Append(c.env, InjectedVar) = e
  BY <1>1, ContainerFields, AppendedByOne
<1>3. r = [q EXCEPT !.containers = [@ EXCEPT ![i] = d]]
  BY <1>2 DEF WithVar
<1> HIDE DEF c
<1>4. OneMore(e, c.env, InjectedVar)
  BY <1>1, ContainerFields, Appended
<1> HIDE DEF e
<1>5. /\ d.name = c.name /\ d.limits = c.limits /\ d.cpu = c.cpu /\ d.mounts = c.mounts
      /\ d.command = c.command /\ d.args = c.args /\ d.env = e
      /\ d = [name |-> d.name, limits |-> d.limits, cpu |-> d.cpu, env |-> d.env, mounts |-> d.mounts,
              command |-> d.command, args |-> d.args]
  BY <1>1, ContainerFields
<1> HIDE DEF d
<1>6. IsContainer(d)
  BY <1>1, <1>4, <1>5 DEF IsContainer, OneMore
<1>7. OneVarMore(d, c, InjectedVar)
  <2>1. InjectedVar = [name |-> InjectedVar.name, value |-> InjectedVar.value]
    BY DEF InjectedVar
  <2>2. QED
    BY <1>1, <1>5, <2>1, VarAppended, ContainerFields DEF e
<1>8. OneContainer(r, q, i, d)
  BY <1>3, <1>6, ContainerReplaced
<1>9. r.containers[i] = d
  BY <1>8 DEF OneContainer
<1>10. QED
  BY <1>5, <1>6, <1>7, <1>8, <1>9 DEF WithOneVar, c

\* The Pod r is q with the container c more.
OneContainerMore(r, q, c) ==
  /\ IsPod(r) /\ r.annotation = q.annotation /\ r.volumes = q.volumes
  /\ DOMAIN r.containers = 1..(Len(q.containers) + 1) /\ DOMAIN q.containers = 1..Len(q.containers)
  /\ Len(q.containers) \in Nat
  /\ r.containers[Len(q.containers) + 1] = c
  /\ \A j \in DOMAIN q.containers : r.containers[j] = q.containers[j]

LEMMA PodWithSidecar ==
  ASSUME NEW q, IsPod(q), NEW c, IsContainer(c), NEW r, r = WithSidecar(q, c)
  PROVE  OneContainerMore(r, q, c)
<1>1. PICK s : s = q.containers \o <<c>>
  OBVIOUS
<1>2. r = [q EXCEPT !.containers = s]
  BY <1>1, PodFields, AppendedByOne DEF WithSidecar
<1>3. OneMore(s, q.containers, c)
  BY <1>1, PodFields, Appended
<1>4. /\ r.containers = s /\ r.volumes = q.volumes /\ r.annotation = q.annotation
      /\ r = [containers |-> r.containers, volumes |-> r.volumes, annotation |-> r.annotation]
  BY <1>2, PodFields
<1>5. \A j \in DOMAIN s : IsContainer(s[j])
  <2>1. \A j \in DOMAIN s : j \in DOMAIN q.containers \/ j = Len(q.containers) + 1
    BY <1>3 DEF OneMore
  <2>2. QED
    BY <1>3, <2>1, PodFields DEF OneMore
<1>6. IsPod(r)
  BY <1>3, <1>4, <1>5, PodFields DEF IsPod, OneMore
<1>7. QED
  BY <1>3, <1>4, <1>6 DEF OneContainerMore, OneMore

\* A variable of another name changes nothing of what the webhook's patches are about.
LEMMA VarBesides ==
  ASSUME NEW sub, NEW sub2, NEW i, NEW is, NEW d, FieldsPatched(sub, i, is, {}),
         sub2.annotation = sub.annotation,
         WithOneVar(sub2.containers[i], sub.containers[i], InjectedVar), WithOneVar(d, is, InjectedVar)
  PROVE  FieldsPatched(sub2, i, d, {}) /\ (Pinned(sub2, i) <=> Pinned(sub, i))
<1> DEFINE was == sub.containers[i]
           new == sub2.containers[i]
<1>1. /\ new.name = was.name /\ new.limits = was.limits /\ new.mounts = was.mounts
      /\ new.command = was.command /\ new.args = was.args
      /\ Range(new.env) = Range(was.env) \cup {InjectedVar}
  BY DEF WithOneVar, OneVarMore
<1>2. ExclusiveRequest(new) = ExclusiveRequest(was) /\ SharedRequest(new) = SharedRequest(was)
      /\ PoolTypes(new) = PoolTypes(was)
  BY <1>1, SameRequests
<1>3. Annotated(sub2, new) <=> Annotated(sub, was)
  BY <1>1 DEF Annotated
<1>4. (Pinned(sub2, i) <=> Pinned(sub, i)) /\ (Pooled(sub2, i) <=> Pooled(sub, i)) /\ (Moved(sub2, i) <=> Moved(sub, i))
  BY <1>1, <1>2, <1>3 DEF Pinned, Pooled, Moved, PinningPatchNeeded
<1>5. /\ d.name = is.name /\ d.limits = is.limits /\ d.mounts = is.mounts
      /\ d.command = is.command /\ d.args = is.args
      /\ Range(d.env) = Range(is.env) \cup {InjectedVar}
      /\ \A name \in {"CONTAINER_NAME", "CPU_POOLS"} : HasVar(d, name) <=> HasVar(is, name)
      /\ \A name \in {"CONTAINER_NAME", "CPU_POOLS"} : \A value : VarOnce(is, name, value) => VarOnce(d, name, value)
  BY DEF WithOneVar, OneVarMore, InjectedVar
<1>6. MovedArgs(new) = MovedArgs(was)
  BY <1>1 DEF MovedArgs
<1>7. /\ is.name = was.name /\ is.limits = was.limits
      /\ Range(is.mounts) = Range(was.mounts) \cup {m \in {"podinfo", "hostbin"} : Pinned(sub, i)}
      /\ is.command = IF Pinned(sub, i) THEN <<ProcessStarter>> ELSE was.command
      /\ is.args = IF Moved(sub, i) THEN MovedArgs(was) ELSE was.args
      /\ Range(was.env) \subseteq Range(is.env)
      /\ IF Pinned(sub, i) THEN VarOnce(is, "CONTAINER_NAME", <<was.name>>)
         ELSE ~HasVar(is, "CONTAINER_NAME")
      /\ IF Pooled(sub, i) THEN VarOnce(is, "CPU_POOLS", PoolTypes(was))
         ELSE ~HasVar(is, "CPU_POOLS")
  BY DEF FieldsPatched
<1> HIDE DEF was, new
<1>8. FieldsPatched(sub2, i, d, {})
  BY <1>1, <1>2, <1>4, <1>5, <1>6, <1>7 DEF FieldsPatched, new
<1>9. QED
  BY <1>4, <1>8

LEMMA SameContainer ==
  ASSUME NEW sub, NEW sub2, NEW i, sub2.annotation = sub.annotation, sub2.containers[i] = sub.containers[i]
  PROVE  /\ \A is, left : FieldsPatched(sub2, i, is, left) <=> FieldsPatched(sub, i, is, left)
         /\ Pinned(sub2, i) <=> Pinned(sub, i)
<1>1. /\ Pinned(sub2, i) <=> Pinned(sub, i)
      /\ Pooled(sub2, i) <=> Pooled(sub, i)
      /\ Moved(sub2, i) <=> Moved(sub, i)
  BY DEF Pinned, Pooled, Moved, PinningPatchNeeded, Annotated
<1>2. QED
  BY <1>1 DEF FieldsPatched

\* What an addition by others leaves: containers as submitted, or with all patches.
Extended ==
  /\ IsPod(pod')
  /\ submitted'.annotation = submitted.annotation /\ pod'.annotation = submitted.annotation
  /\ submitted'.volumes = submitted.volumes /\ pod'.volumes = pod.volumes
  /\ DOMAIN pod'.containers = Conts'
  /\ \A i \in Conts' : \/ pod'.containers[i] = submitted'.containers[i]
                       \/ FieldsPatched(submitted', i, pod'.containers[i], {})
  /\ SomePinned => SomePinned'

LEMMA SidecarExtends ==
  ASSUME OrdinaryInv, Patched, NEW c \in Sidecars, \A d \in Range(pod.containers) : d.name # c.name,
         pod' = WithSidecar(pod, c), submitted' = WithSidecar(submitted, c)
  PROVE  Extended
<1>1. IsContainer(c)
  BY PodsAssumption
<1>2. OneContainerMore(pod', pod, c) /\ OneContainerMore(submitted', submitted, c)
  BY <1>1, PodFacts, PodWithSidecar
<1> DEFINE n == Len(submitted.containers) + 1
<1>4. /\ Conts = 1..Len(submitted.containers) /\ Len(submitted.containers) \in Nat
      /\ DOMAIN pod.containers = Conts
  BY PodFacts
<1>5. Len(pod.containers) = Len(submitted.containers)
  <2>1. 1..Len(pod.containers) = 1..Len(submitted.containers) /\ Len(pod.containers) \in Nat
    BY <1>2, <1>4 DEF OneContainerMore
  <2>2. QED
    BY <1>4, <2>1
<1>6. Conts' = Conts \cup {n} /\ n \notin Conts /\ DOMAIN pod'.containers = Conts'
  BY <1>2, <1>4, <1>5 DEF Conts, OneContainerMore
<1>7. /\ \A i \in Conts : /\ pod'.containers[i] = pod.containers[i]
                          /\ submitted'.containers[i] = submitted.containers[i]
      /\ pod'.containers[n] = c /\ submitted'.containers[n] = c
  BY <1>2, <1>4, <1>5 DEF Conts, OneContainerMore
<1> HIDE DEF n
<1>8. /\ IsPod(pod') /\ IsPod(submitted')
      /\ submitted'.annotation = submitted.annotation /\ pod'.annotation = submitted.annotation
      /\ submitted'.volumes = submitted.volumes /\ pod'.volumes = pod.volumes
  BY <1>2, PodFacts DEF OneContainerMore
<1>10. ASSUME NEW i \in Conts
       PROVE  /\ FieldsPatched(submitted', i, pod'.containers[i], {})
              /\ Pinned(submitted', i) <=> Pinned(submitted, i)
  <2>1. FieldsPatched(submitted, i, pod.containers[i], {})
    BY NoneLeft
  <2>2. QED
    BY <1>7, <1>8, <2>1, SameContainer
<1>11. SomePinned => SomePinned'
  BY <1>6, <1>10 DEF SomePinned
<1>12. QED
  BY <1>6, <1>7, <1>8, <1>10, <1>11 DEF Extended

LEMMA VarExtends ==
  ASSUME OrdinaryInv, Patched, NEW i \in Conts, pod' = WithVar(pod, i), submitted' = WithVar(submitted, i)
  PROVE  Extended
<1>1. /\ OneContainer(pod', pod, i, pod'.containers[i])
      /\ WithOneVar(pod'.containers[i], pod.containers[i], InjectedVar)
      /\ OneContainer(submitted', submitted, i, submitted'.containers[i])
      /\ WithOneVar(submitted'.containers[i], submitted.containers[i], InjectedVar)
  BY PodFacts, PodWithVar
<1>3. /\ IsPod(pod') /\ IsPod(submitted')
      /\ submitted'.annotation = submitted.annotation /\ pod'.annotation = submitted.annotation
      /\ submitted'.volumes = submitted.volumes /\ pod'.volumes = pod.volumes
      /\ DOMAIN pod'.containers = Conts /\ DOMAIN submitted'.containers = Conts
      /\ \A j \in Conts : j # i => /\ pod'.containers[j] = pod.containers[j]
                                   /\ submitted'.containers[j] = submitted.containers[j]
  BY <1>1, PodFacts DEF OneContainer, Conts
<1>4. Conts' = Conts
  BY <1>3 DEF Conts
<1>7. ASSUME NEW j \in Conts
      PROVE  /\ FieldsPatched(submitted', j, pod'.containers[j], {})
             /\ Pinned(submitted', j) <=> Pinned(submitted, j)
  <2>1. FieldsPatched(submitted, j, pod.containers[j], {})
    BY NoneLeft
  <2>2. CASE j = i
    BY <1>1, <1>3, <2>1, <2>2, VarBesides
  <2>3. CASE j # i
    BY <1>3, <2>1, <2>3, SameContainer
  <2>4. QED
    BY <2>2, <2>3
<1>8. SomePinned => SomePinned'
  BY <1>4, <1>7 DEF SomePinned
<1>9. QED
  BY <1>3, <1>4, <1>7, <1>8 DEF Extended

LEMMA EditKeeps ==
  ASSUME OrdinaryInv, Edit, ProperPod(submitted')
  PROVE  OrdinaryInv'
<1>1. /\ Patched /\ stored = <<>> /\ stage' = "review"
      /\ UNCHANGED <<quota, patches, readable, stored, conf, grant>>
  BY DEF Edit, CallAgain, nodeVars
<1>2. Extended
  BY <1>1, SidecarExtends, VarExtends, PodFacts DEF Edit
<1>3. \A k : Left(k)' = <<>>
  BY <1>1 DEF Left
<1>4. PodShape'
  BY <1>2 DEF Extended, OrdinaryInv, PodShape
<1>5. ContainersPatched'
  <2>1. \A i \in Conts' : \/ pod'.containers[i] = submitted'.containers[i]
                          \/ PatchedBut(submitted', i, pod'.containers[i], <<>>)
    BY <1>2, EmptyList DEF Extended, PatchedBut, EnvReady
  <2>2. QED
    BY <1>1, <1>3, <2>1 DEF ContainersPatched
<1>6. VolumesPatched'
  <2>1. /\ Range(pod.volumes) \ Range(submitted.volumes) = IF SomePinned THEN {"podinfo", "hostbin"} ELSE {}
        /\ Range(submitted.volumes) \subseteq Range(pod.volumes)
    BY <1>1, NoneLeft
  <2>2. pod'.volumes = pod.volumes /\ submitted'.volumes = submitted.volumes /\ (SomePinned => SomePinned')
    BY <1>2 DEF Extended
  <2>3. LET added == Range(pod'.volumes) \ Range(submitted'.volumes)
        IN  added = {} \/ (SomePinned' /\ added = {"podinfo", "hostbin"})
    BY <2>1, <2>2
  <2>4. Left(VolumesAt)' = <<>>
    BY <1>1 DEF Left
  <2>5. QED
    BY <1>1, <2>1, <2>2, <2>3, <2>4, EmptyList DEF VolumesPatched
<1>7. PatchLists' /\ AnnotationAccepted' /\ LimitsSet' /\ StoredStays' /\ Granted'
  BY <1>1 DEF PatchLists, AnnotationAccepted, LimitsSet, StoredStays, Granted
<1>8. QED
  BY <1>1, <1>4, <1>5, <1>6, <1>7 DEF OrdinaryInv

-----------------------------------------------------------------------------
(* The lists that patches append to: lists of patches.                      *)

LEMMA TailIsList ==
  ASSUME NEW s, IsList(s), s # <<>>
  PROVE  /\ 1 \in DOMAIN s /\ Head(s) = s[1] /\ DOMAIN s = 1..Len(s) /\ Len(s) \in Nat
         /\ IsList(Tail(s)) /\ DOMAIN Tail(s) = 1..(Len(s) - 1)
         /\ \A k \in DOMAIN Tail(s) : k + 1 \in DOMAIN s /\ Tail(s)[k] = s[k + 1]
<1>1. DOMAIN s = 1..Len(s) /\ Len(s) \in Nat /\ s \in Seq(Range(s)) /\ 1 \in DOMAIN s
  BY ListDomain
<1>2. Head(s) = s[1] /\ Tail(s) \in Seq(Range(s)) /\ Len(Tail(s)) = Len(s) - 1
  BY <1>1
<1>3. DOMAIN Tail(s) = 1..(Len(s) - 1) /\ IsList(Tail(s))
  BY <1>1, <1>2, SequenceIsList
<1>4. \A k \in DOMAIN Tail(s) : k + 1 \in DOMAIN s /\ Tail(s)[k] = s[k + 1]
  BY <1>1, <1>3
<1>5. QED
  BY <1>1, <1>2, <1>3, <1>4

LEMMA FindsFirst ==
  ASSUME NEW q, NEW list, IsList(list), list # <<>>, FindsLists(q, list)
  PROVE  Applies(q, Head(list))
<1>1. 1 \in DOMAIN list /\ Head(list) = list[1]
  BY TailIsList
<1>2. list[1].op = "append" => CurrentValue(q, list[1]) # <<>>
  BY <1>1 DEF FindsLists
<1>3. QED
  BY <1>1, <1>2 DEF Applies

\* When the first patch is applied, and its field is not empty then, the rest of the
\* list finds its lists if the whole list did.
LEMMA FindsRest ==
  ASSUME NEW q, NEW r, NEW list, IsList(list), list # <<>>, Applies(q, Head(list)),
         \A n \in DOMAIN list :
           CurrentValue(r, list[n]) # <<>>
             <=> CurrentValue(q, list[n]) # <<>> \/ list[n].field = Head(list).field
  PROVE  FindsLists(q, list) <=> FindsLists(r, Tail(list))
<1> DEFINE rest == Tail(list)
           found(k) == CurrentValue(q, list[k]) # <<>> \/ \E j \in 1..k-1 : list[j].field = list[k].field
<1>1. /\ 1 \in DOMAIN list /\ Head(list) = list[1] /\ DOMAIN list = 1..Len(list) /\ Len(list) \in Nat
      /\ DOMAIN rest = 1..(Len(list) - 1)
      /\ \A k \in DOMAIN rest : k + 1 \in DOMAIN list /\ rest[k] = list[k + 1]
  BY TailIsList
<1> HIDE DEF rest
<1>2. list[1].op = "append" => found(1)
  BY <1>1 DEF Applies
<1>3. ASSUME NEW k \in DOMAIN rest
      PROVE  found(k + 1) <=> CurrentValue(r, rest[k]) # <<>> \/ \E j \in 1..k-1 : rest[j].field = rest[k].field
  <2>1. k \in Nat /\ k # 0 /\ k + 1 \in DOMAIN list /\ rest[k] = list[k + 1]
    BY <1>1
  <2>2. (\E j \in 1..(k + 1)-1 : list[j].field = list[k + 1].field)
          <=> list[1].field = list[k + 1].field \/ \E j \in 1..k-1 : rest[j].field = rest[k].field
    <3>1. ASSUME NEW j \in 1..(k + 1)-1, list[j].field = list[k + 1].field, j # 1
          PROVE  \E l \in 1..k-1 : rest[l].field = rest[k].field
      <4>1. j - 1 \in 1..k-1 /\ j - 1 \in DOMAIN rest /\ (j - 1) + 1 = j
        BY <1>1, <2>1, <3>1
      <4>2. rest[j - 1].field = rest[k].field
        BY <1>1, <2>1, <3>1, <4>1
      <4>3. QED
        BY <4>1, <4>2
    <3>2. ASSUME NEW j \in 1..k-1, rest[j].field = rest[k].field
          PROVE  \E l \in 1..(k + 1)-1 : list[l].field = list[k + 1].field
      <4>1. j + 1 \in 1..(k + 1)-1 /\ j \in DOMAIN rest
        BY <1>1, <2>1
      <4>2. list[j + 1].field = list[k + 1].field
        BY <1>1, <2>1, <3>2, <4>1
      <4>3. QED
        BY <4>1, <4>2
    <3>3. 1 \in 1..(k + 1)-1
      BY <2>1
    <3>4. QED
      BY <3>1, <3>2, <3>3
  <2>3. CurrentValue(r, rest[k]) # <<>> <=> CurrentValue(q, list[k + 1]) # <<>> \/ list[k + 1].field = list[1].field
    BY <1>1, <2>1
  <2>4. QED
    BY <2>2, <2>3
<1>4. \A k \in DOMAIN list : k = 1 \/ (k - 1 \in DOMAIN rest /\ (k - 1) + 1 = k)
  BY <1>1
<1>5. FindsLists(q, list) <=> \A k \in DOMAIN list : list[k].op = "append" => found(k)
  BY DEF FindsLists
<1>6. FindsLists(r, rest) <=>
        \A k \in DOMAIN rest : list[k + 1].op = "append" => found(k + 1)
  BY <1>1, <1>3 DEF FindsLists
<1> HIDE DEF found
<1>7. FindsLists(q, list) <=> FindsLists(r, rest)
  <2>1. ASSUME \A k \in DOMAIN list : list[k].op = "append" => found(k), NEW k \in DOMAIN rest
        PROVE  list[k + 1].op = "append" => found(k + 1)
    BY <1>1, <2>1
  <2>2. ASSUME \A k \in DOMAIN rest : list[k + 1].op = "append" => found(k + 1), NEW k \in DOMAIN list
        PROVE  list[k].op = "append" => found(k)
    <3>1. CASE k = 1
      BY <1>2, <3>1
    <3>2. CASE k # 1
      <4>1. PICK j \in DOMAIN rest : j + 1 = k
        BY <1>4, <3>2
      <4>2. QED
        BY <2>2, <4>1
    <3>3. QED
      BY <3>1, <3>2
  <2>3. QED
    BY <1>5, <1>6, <2>1, <2>2
<1>8. QED
  BY <1>7 DEF rest

\* What a list finds does not change with fields that it does not append to.
LEMMA FindsSame ==
  ASSUME NEW q, NEW r, NEW list,
         \A n \in DOMAIN list : CurrentValue(r, list[n]) # <<>> <=> CurrentValue(q, list[n]) # <<>>
  PROVE  FindsLists(q, list) <=> FindsLists(r, list)
  BY DEF FindsLists

LEMMA ListsJoined ==
  ASSUME NEW s, NEW t, IsList(s), IsList(t)
  PROVE  /\ IsList(s \o t)
         /\ DOMAIN s = 1..Len(s) /\ Len(s) \in Nat /\ DOMAIN t = 1..Len(t) /\ Len(t) \in Nat
         /\ DOMAIN (s \o t) = 1..(Len(s) + Len(t))
         /\ \A k \in DOMAIN s : (s \o t)[k] = s[k]
         /\ \A k \in DOMAIN t : (s \o t)[Len(s) + k] = t[k]
<1> DEFINE S == Range(s) \cup Range(t)
<1>1. /\ DOMAIN s = 1..Len(s) /\ Len(s) \in Nat /\ s \in Seq(Range(s))
      /\ DOMAIN t = 1..Len(t) /\ Len(t) \in Nat /\ t \in Seq(Range(t))
  BY ListDomain
<1>2. s \in Seq(S) /\ t \in Seq(S)
  BY <1>1
<1> HIDE DEF S
<1>3. s \o t \in Seq(S) /\ Len(s \o t) = Len(s) + Len(t)
  BY <1>2
<1>4. IsList(s \o t) /\ DOMAIN (s \o t) = 1..(Len(s) + Len(t))
  BY <1>3, SequenceIsList
<1>5. /\ \A k \in DOMAIN s : (s \o t)[k] = s[k]
      /\ \A k \in DOMAIN t : (s \o t)[Len(s) + k] = t[k]
  BY <1>1, <1>2
<1>6. QED
  BY <1>1, <1>4, <1>5

\* The patches of two lists, joined.
Joined(u, s, t) ==
  /\ \A k \in DOMAIN u : (\E j \in DOMAIN s : u[k] = s[j]) \/ (\E j \in DOMAIN t : u[k] = t[j])
  /\ \A j \in DOMAIN s : \E k \in DOMAIN u : u[k] = s[j]
  /\ \A j \in DOMAIN t : \E k \in DOMAIN u : u[k] = t[j]

\* A joined list finds its lists if the first one does, and the second one with what the
\* first one makes.
LEMMA JoinedFinds ==
  ASSUME NEW q, NEW s, NEW t, IsList(s), IsList(t)
  PROVE  /\ IsList(s \o t) /\ Joined(s \o t, s, t)
         /\ FindsLists(q, s \o t)
              <=> /\ FindsLists(q, s)
                  /\ \A k \in DOMAIN t : t[k].op = "append" =>
                       \/ CurrentValue(q, t[k]) # <<>>
                       \/ \E j \in 1..k-1 : t[j].field = t[k].field
                       \/ \E j \in DOMAIN s : s[j].field = t[k].field
<1> DEFINE u == s \o t
           n == Len(s)
           m == Len(t)
           found(k) == CurrentValue(q, u[k]) # <<>> \/ \E j \in 1..k-1 : u[j].field = u[k].field
           after(k) == \/ CurrentValue(q, t[k]) # <<>>
                       \/ \E j \in 1..k-1 : t[j].field = t[k].field
                       \/ \E j \in DOMAIN s : s[j].field = t[k].field
<1>1. /\ DOMAIN s = 1..n /\ n \in Nat /\ DOMAIN t = 1..m /\ m \in Nat /\ DOMAIN u = 1..(n + m)
      /\ \A k \in DOMAIN s : u[k] = s[k]
      /\ \A k \in DOMAIN t : u[n + k] = t[k]
  BY ListsJoined
<1> HIDE DEF u, n, m
<1>2. \A k \in DOMAIN u : k \in DOMAIN s \/ (k - n \in DOMAIN t /\ n + (k - n) = k)
  BY <1>1
<1>3. /\ \A k \in DOMAIN s : k \in DOMAIN u
      /\ \A k \in DOMAIN t : n + k \in DOMAIN u
  BY <1>1
<1>4. \A k \in DOMAIN s : found(k) <=> CurrentValue(q, s[k]) # <<>> \/ \E j \in 1..k-1 : s[j].field = s[k].field
  <2>1. \A k \in DOMAIN s : \A j \in 1..k-1 : j \in DOMAIN s
    BY <1>1
  <2>2. QED
    BY <1>1, <2>1
<1>5. ASSUME NEW k \in DOMAIN t
      PROVE  found(n + k) <=> after(k)
  <2>1. \A j \in 1..(n + k)-1 : j \in DOMAIN s \/ (j - n \in 1..k-1 /\ j - n \in DOMAIN t /\ n + (j - n) = j)
    BY <1>1
  <2>2. /\ \A j \in DOMAIN s : j \in 1..(n + k)-1
        /\ \A j \in 1..k-1 : n + j \in 1..(n + k)-1 /\ j \in DOMAIN t
    <3>1. k \in 1..m /\ n \in Nat /\ m \in Nat /\ DOMAIN s = 1..n /\ DOMAIN t = 1..m
      BY <1>1
    <3>2. \A j \in 1..n : j \in 1..(n + k)-1
      BY <3>1
    <3>3. \A j \in 1..k-1 : n + j \in 1..(n + k)-1 /\ j \in 1..m
      BY <3>1
    <3>4. QED
      BY <3>1, <3>2, <3>3
  <2>3. (\E j \in 1..(n + k)-1 : u[j].field = u[n + k].field)
          <=> (\E j \in 1..k-1 : t[j].field = t[k].field) \/ (\E j \in DOMAIN s : s[j].field = t[k].field)
    <3>1. ASSUME NEW j \in 1..(n + k)-1, u[j].field = u[n + k].field
          PROVE  (\E l \in 1..k-1 : t[l].field = t[k].field) \/ (\E l \in DOMAIN s : s[l].field = t[k].field)
      <4>1. CASE j \in DOMAIN s
        BY <1>1, <3>1, <4>1
      <4>2. CASE j \notin DOMAIN s
        <5>1. PICK l \in 1..k-1 : l \in DOMAIN t /\ n + l = j
          BY <2>1, <4>2
        <5>2. QED
          BY <1>1, <3>1, <5>1
      <4>3. QED
        BY <4>1, <4>2
    <3>2. ASSUME NEW j \in 1..k-1, t[j].field = t[k].field
          PROVE  \E l \in 1..(n + k)-1 : u[l].field = u[n + k].field
      BY <1>1, <2>2, <3>2
    <3>3. ASSUME NEW j \in DOMAIN s, s[j].field = t[k].field
          PROVE  \E l \in 1..(n + k)-1 : u[l].field = u[n + k].field
      BY <1>1, <2>2, <3>3
    <3>4. QED
      BY <3>1, <3>2, <3>3
  <2>4. u[n + k] = t[k]
    BY <1>1
  <2>5. QED
    BY <2>3, <2>4
<1>6. FindsLists(q, u) <=> \A k \in DOMAIN u : u[k].op = "append" => found(k)
  BY DEF FindsLists
<1>7. FindsLists(q, s) <=> \A k \in DOMAIN s : u[k].op = "append" => found(k)
  BY <1>1, <1>4 DEF FindsLists
<1>8. (\A k \in DOMAIN t : t[k].op = "append" => after(k))
        <=> \A k \in DOMAIN t : u[n + k].op = "append" => found(n + k)
  <2> HIDE DEF found, after
  <2>1. ASSUME NEW k \in DOMAIN t
        PROVE  u[n + k].op = t[k].op /\ (found(n + k) <=> after(k))
    BY <1>1, <1>5
  <2>2. QED
    BY <2>1
<1> HIDE DEF found, after
<1>9. FindsLists(q, u) <=> FindsLists(q, s) /\ \A k \in DOMAIN t : t[k].op = "append" => after(k)
  <2>1. ASSUME \A k \in DOMAIN s : u[k].op = "append" => found(k),
               \A k \in DOMAIN t : u[n + k].op = "append" => found(n + k), NEW k \in DOMAIN u
        PROVE  u[k].op = "append" => found(k)
    <3>1. CASE k \in DOMAIN s
      BY <2>1, <3>1
    <3>2. CASE k \notin DOMAIN s
      <4>1. PICK l \in DOMAIN t : n + l = k
        BY <1>2, <3>2
      <4>2. QED
        BY <2>1, <4>1
    <3>3. QED
      BY <3>1, <3>2
  <2>2. QED
    BY <1>3, <1>6, <1>7, <1>8, <2>1
<1>10. \A k \in DOMAIN u : (\E j \in DOMAIN s : u[k] = s[j]) \/ (\E j \in DOMAIN t : u[k] = t[j])
  <2> SUFFICES ASSUME NEW k \in DOMAIN u, k \notin DOMAIN s
               PROVE  \E j \in DOMAIN t : u[k] = t[j]
    BY <1>1
  <2>1. PICK l \in DOMAIN t : n + l = k
    BY <1>2
  <2>2. QED
    BY <1>1, <2>1
<1>11. /\ \A j \in DOMAIN s : \E k \in DOMAIN u : u[k] = s[j]
       /\ \A j \in DOMAIN t : \E k \in DOMAIN u : u[k] = t[j]
  BY <1>1, <1>3
<1>12. Joined(u, s, t) /\ IsList(u)
  BY <1>10, <1>11, ListsJoined DEF Joined, u
<1>13. QED
  BY <1>9, <1>12 DEF u, after

-----------------------------------------------------------------------------
(* The lists that patches append to: what the webhook computes.             *)

LEMMA ConcatNotEmpty ==
  ASSUME NEW s, NEW t, IsSequence(s), IsSequence(t), s # <<>> \/ t # <<>>
  PROVE  IsSequence(s \o t) /\ s \o t # <<>>
<1>1. Len(s) \in Nat /\ Len(t) \in Nat /\ Len(s \o t) = Len(s) + Len(t)
  BY DEF IsSequence
<1>2. (s # <<>> => Len(s) # 0) /\ (t # <<>> => Len(t) # 0)
  BY DEF IsSequence
<1>3. Len(s \o t) # 0
  BY <1>1, <1>2
<1>4. Len(<<>>) = 0
  OBVIOUS
<1>5. QED
  BY <1>3, <1>4, ConcatIsSequence

\* Container c of the Pod q has the lists that its patches append to.
Provided(q, c) ==
  PinningPatchNeeded(q, c) =>
    /\ c.mounts # <<>>
    /\ Contains(c.mounts, "podinfo") /\ (SharedRequest(c) > 0 \/ ExclusiveRequest(c) > 0) => c.env # <<>>

LEMMA ContainerPatch ==
  ASSUME NEW i
  PROVE  /\ \A total : PatchOfContainer(SetTo(i, "cpu", <<total, 0>>), i)
         /\ \A name : PatchOfContainer(AppendTo(i, "mounts", name), i)
         /\ \A var : PatchOfContainer(AppendTo(i, "env", var), i) /\ PatchOfContainer(SetTo(i, "env", <<var>>), i)
         /\ \A s : IsSequence(s) /\ s # <<>> => /\ PatchOfContainer(SetTo(i, "command", s), i)
                                                /\ PatchOfContainer(SetTo(i, "args", s), i)
<1>1. ASSUME NEW x
      PROVE  IsSequence(<<x>>) /\ <<x>> # <<>>
  <2>1. <<x>>[1] = x /\ DOMAIN <<x>> = {1}
    OBVIOUS
  <2>2. x \in Range(<<x>>)
    BY <2>1 DEF Range
  <2>3. <<x>> # <<>>
    OBVIOUS
  <2>4. QED
    BY <2>2, <2>3 DEF IsSequence
<1>2. ASSUME NEW x, NEW y
      PROVE  IsSequence(<<x, y>>) /\ <<x, y>> # <<>>
  <2>1. <<x, y>>[1] = x /\ <<x, y>>[2] = y /\ DOMAIN <<x, y>> = 1..2
    OBVIOUS
  <2>2. x \in Range(<<x, y>>) /\ y \in Range(<<x, y>>)
    BY <2>1 DEF Range
  <2>3. <<x, y>> # <<>>
    OBVIOUS
  <2>4. QED
    BY <2>2, <2>3 DEF IsSequence
<1>3. QED
  BY <1>1, <1>2 DEF PatchOfContainer, SetTo, AppendTo, Patch

\* patchContainerForPinning: it appends to the mounts, which must be there.
LEMMA PinningFinds ==
  ASSUME NEW q, IsPod(q), NEW i \in DOMAIN q.containers, NEW c, c = q.containers[i], NEW annotated \in BOOLEAN
  PROVE  LET list == PatchContainerForPinning(c, i, annotated)
         IN  /\ IsList(list)
             /\ \A k \in DOMAIN list : PatchOfContainer(list[k], i)
             /\ Contains(c.mounts, "podinfo") => list = <<>>
             /\ ~Contains(c.mounts, "podinfo") => \E k \in DOMAIN list : list[k].field = "env"
             /\ FindsLists(q, list) <=> Contains(c.mounts, "podinfo") \/ c.mounts # <<>>
<1> DEFINE p1 == AppendTo(i, "mounts", "podinfo")
           p2 == AppendTo(i, "mounts", "hostbin")
           p3 == PatchEnv(c, i, FALSE, ContainerVar(c))
           p4 == SetTo(i, "command", <<ProcessStarter>>)
           p5 == SetTo(i, "args", c.command \o c.args)
           four == <<p1, p2, p3, p4>>
           rest == IF c.command # <<>> /\ ~annotated THEN <<p5>> ELSE <<>>
           list == PatchContainerForPinning(c, i, annotated)
<1>1. CASE Contains(c.mounts, "podinfo")
  <2>1. list = <<>>
    BY <1>1 DEF PatchContainerForPinning
  <2> HIDE DEF list
  <2>2. QED
    BY <1>1, <2>1, EmptyList DEF FindsLists, list
<1>2. CASE ~Contains(c.mounts, "podinfo")
  <2>1. list = four \o rest
    BY <1>2 DEF PatchContainerForPinning, ContainerVar
  <2>2. i # 0 /\ IsContainer(c)
    BY PodFields
  <2>3. \A p : p.at = i => CurrentValue(q, p) = c[p.field]
    BY <2>2 DEF CurrentValue
  <2>4. p3 = IF c.env = <<>> THEN SetTo(i, "env", <<ContainerVar(c)>>) ELSE AppendTo(i, "env", ContainerVar(c))
    BY DEF PatchEnv
  <2> HIDE DEF p3, list
  <2>5. /\ p1.at = i /\ p1.op = "append" /\ p1.field = "mounts"
        /\ p2.at = i /\ p2.op = "append" /\ p2.field = "mounts"
        /\ p3.at = i /\ p3.field = "env" /\ (p3.op = "append" => c.env # <<>>)
        /\ p4.op = "set" /\ p4.field = "command" /\ p5.op = "set"
    BY <2>4 DEF AppendTo, SetTo, Patch
  <2>6. /\ PatchOfContainer(p1, i) /\ PatchOfContainer(p2, i) /\ PatchOfContainer(p3, i)
        /\ PatchOfContainer(p4, i)
        /\ c.command # <<>> => PatchOfContainer(p5, i)
    <3>1. PatchOfContainer(p1, i) /\ PatchOfContainer(p2, i) /\ PatchOfContainer(p3, i)
      BY <2>4, ContainerPatch
    <3>2. IsSequence(<<ProcessStarter>>)
      <4>1. PatchOfContainer(AppendTo(i, "mounts", ProcessStarter), i)
        BY ContainerPatch
      <4>2. QED
        BY <4>1 DEF PatchOfContainer, AppendTo, Patch
    <3>3. PatchOfContainer(p4, i)
      BY <3>2, ContainerPatch
    <3>4. ASSUME c.command # <<>>
          PROVE  PatchOfContainer(p5, i)
      <4>1. IsSequence(c.command) /\ IsSequence(c.args)
        BY <2>2 DEF IsContainer
      <4>2. IsSequence(c.command \o c.args) /\ c.command \o c.args # <<>>
        BY <3>4, <4>1, ConcatNotEmpty
      <4>3. QED
        BY <4>2, ContainerPatch
    <3>5. QED
      BY <3>1, <3>3, <3>4
  <2> HIDE DEF p1, p2, p4, p5
  <2>7. IsList(four) /\ DOMAIN four = 1..4
    BY DEF IsList
  <2>8. four[1] = p1 /\ four[2] = p2 /\ four[3] = p3 /\ four[4] = p4
    OBVIOUS
  <2> HIDE DEF four
  <2>9. \A k \in DOMAIN four : k = 1 \/ k = 2 \/ k = 3 \/ k = 4
    BY <2>7
  <2>10. 1 \in DOMAIN four /\ 2 \in DOMAIN four /\ 3 \in DOMAIN four /\ 4 \in DOMAIN four
         /\ 1 \in 1..2-1
    BY <2>7
  <2>11. FindsLists(q, four) <=> c.mounts # <<>>
    <3>1. FindsLists(q, four) => CurrentValue(q, four[1]) # <<>>
      <4>1. ~ \E j \in 1..1-1 : TRUE
        OBVIOUS
      <4>2. QED
        BY <2>5, <2>8, <2>10, <4>1 DEF FindsLists
    <3>2. CurrentValue(q, p1) = c.mounts /\ CurrentValue(q, p2) = c.mounts /\ CurrentValue(q, p3) = c.env
      BY <2>3, <2>5
    <3>3. c.mounts # <<>> => \A k \in DOMAIN four : four[k].op = "append" => CurrentValue(q, four[k]) # <<>>
      BY <2>5, <2>8, <2>9, <3>2
    <3>4. QED
      BY <2>8, <3>1, <3>2, <3>3 DEF FindsLists
  <2>12. IsList(rest) /\ \A k \in DOMAIN rest : rest[k] = p5 /\ c.command # <<>>
    BY EmptyList, OneElementList
  <2> HIDE DEF rest
  <2>13. IsList(four \o rest) /\ Joined(four \o rest, four, rest)
    BY <2>7, <2>12, JoinedFinds
  <2>14. FindsLists(q, four \o rest) <=> FindsLists(q, four)
    <3>1. \A k \in DOMAIN rest : rest[k].op # "append"
      BY <2>5, <2>12
    <3>2. QED
      BY <2>7, <2>12, <3>1, JoinedFinds
  <2>15. \A k \in DOMAIN list : PatchOfContainer(list[k], i)
    <3>1. \A j \in DOMAIN four : PatchOfContainer(four[j], i)
      BY <2>6, <2>8, <2>9
    <3>2. \A j \in DOMAIN rest : PatchOfContainer(rest[j], i)
      BY <2>6, <2>12
    <3>3. QED
      BY <2>1, <2>13, <3>1, <3>2 DEF Joined
  <2>16. \E k \in DOMAIN list : list[k].field = "env"
    BY <2>1, <2>5, <2>8, <2>10, <2>13 DEF Joined
  <2>17. QED
    BY <1>2, <2>1, <2>11, <2>13, <2>14, <2>15, <2>16 DEF list
<1>3. QED
  BY <1>1, <1>2

LEMMA ContainerFinds ==
  ASSUME NEW q, IsPod(q), NEW i \in DOMAIN q.containers, NEW limit
  PROVE  LET list == ContainerPatches(q, i, limit)
             c    == q.containers[i]
         IN  /\ IsList(list)
             /\ \A k \in DOMAIN list :
                  PatchOfContainer(list[k], i) /\ (list[k].field = "command" => PinningPatchNeeded(q, c))
             /\ SharedRequest(c) > 0 \/ ExclusiveRequest(c) > 0 =>
                  c.env # <<>> \/ \E k \in DOMAIN list : list[k].field = "env"
             /\ FindsLists(q, list) <=> Provided(q, c)
<1> DEFINE c       == q.containers[i]
           needed  == PinningPatchNeeded(q, c)
           pooled  == SharedRequest(c) > 0 \/ ExclusiveRequest(c) > 0
           mounted == Contains(c.mounts, "podinfo")
           has     == HasVar(c, "CPU_POOLS")
           cpu     == PatchCPULimit(i, limit)
           pin     == IF needed THEN PatchContainerForPinning(c, i, Annotated(q, c)) ELSE <<>>
           pool    == IF pooled THEN PatchContainerEnv(c, i, needed) ELSE <<>>
           one     == PatchEnv(c, i, needed, PoolsVar(c))
           two     == cpu \o pin
<1>1. ContainerPatches(q, i, limit) = two \o pool
  BY DEF ContainerPatches
<1>2. i # 0 /\ IsContainer(c)
  BY PodFields
<1>3. /\ mounted => c.mounts # <<>>
      /\ has => c.env # <<>>
  <2>1. mounted => 1..Len(c.mounts) # {}
    BY DEF Contains
  <2>2. has => DOMAIN c.env # {}
    BY DEF HasVar
  <2>3. c.mounts = <<>> => 1..Len(c.mounts) = {}
    OBVIOUS
  <2>4. c.env = <<>> => DOMAIN c.env = {}
    BY EmptyList
  <2>5. QED
    BY <2>1, <2>2, <2>3, <2>4
<1>4. IsList(cpu) /\ \A k \in DOMAIN cpu : cpu[k] = SetTo(i, "cpu", <<limit, 0>>)
  BY LimitList
<1>5. /\ IsList(pin) /\ \A k \in DOMAIN pin : PatchOfContainer(pin[k], i) /\ needed
      /\ (\E k \in DOMAIN pin : pin[k].field = "env") <=> needed /\ ~mounted
      /\ FindsLists(q, pin) <=> (needed => mounted \/ c.mounts # <<>>)
  <2>1. CASE needed
    <3>1. PICK annotated \in BOOLEAN : annotated = Annotated(q, c)
      BY DEF Annotated
    <3>2. pin = PatchContainerForPinning(c, i, annotated)
      BY <2>1, <3>1
    <3>3. PICK d : d = c
      OBVIOUS
    <3> HIDE DEF pin, c
    <3>4. d = q.containers[i]
      BY <3>3 DEF c
    <3>5. /\ IsList(pin)
          /\ \A k \in DOMAIN pin : PatchOfContainer(pin[k], i)
          /\ Contains(d.mounts, "podinfo") => pin = <<>>
          /\ ~Contains(d.mounts, "podinfo") => \E k \in DOMAIN pin : pin[k].field = "env"
          /\ FindsLists(q, pin) <=> Contains(d.mounts, "podinfo") \/ d.mounts # <<>>
      BY <3>2, <3>3, <3>4, PinningFinds
    <3>6. QED
      BY <2>1, <3>3, <3>5, EmptyList
  <2>2. CASE ~needed
    <3>1. pin = <<>>
      BY <2>2
    <3> HIDE DEF pin
    <3>2. QED
      BY <2>2, <3>1, EmptyList DEF FindsLists
  <2>3. QED
    BY <2>1, <2>2
<1>6. one = IF needed \/ c.env # <<>> THEN AppendTo(i, "env", PoolsVar(c)) ELSE SetTo(i, "env", <<PoolsVar(c)>>)
  BY DEF PatchEnv
<1>7. /\ PatchOfContainer(one, i) /\ one.field = "env" /\ one.at = i
      /\ one.op = "append" <=> needed \/ c.env # <<>>
  <2> HIDE DEF one
  <2>1. PatchOfContainer(one, i)
    BY <1>6, ContainerPatch
  <2>2. QED
    BY <1>6, <2>1 DEF AppendTo, SetTo, Patch
<1>8. pool = IF pooled /\ ~has THEN <<one>> ELSE <<>>
  BY DEF PatchContainerEnv, PoolsVar
<1> HIDE DEF one
<1>9. /\ IsList(pool) /\ \A k \in DOMAIN pool : pool[k] = one /\ k = 1
      /\ pooled /\ ~has => 1 \in DOMAIN pool /\ pool[1] = one
      /\ ~(pooled /\ ~has) => DOMAIN pool = {}
  <2>1. CASE pooled /\ ~has
    <3>1. pool = <<one>>
      BY <1>8, <2>1
    <3> HIDE DEF pool
    <3>2. QED
      BY <2>1, <3>1, OneElementList
  <2>2. CASE ~(pooled /\ ~has)
    <3>1. pool = <<>>
      BY <1>8, <2>2
    <3> HIDE DEF pool
    <3>2. QED
      BY <2>2, <3>1, EmptyList
  <2>3. QED
    BY <2>1, <2>2
<1> HIDE DEF cpu, pin, pool
<1>10. \A k \in DOMAIN cpu : PatchOfContainer(cpu[k], i) /\ cpu[k].field = "cpu" /\ cpu[k].op = "set"
  <2>1. PatchOfContainer(SetTo(i, "cpu", <<limit, 0>>), i)
    BY ContainerPatch
  <2>2. SetTo(i, "cpu", <<limit, 0>>).field = "cpu" /\ SetTo(i, "cpu", <<limit, 0>>).op = "set"
    BY DEF SetTo, Patch
  <2>3. QED
    BY <1>4, <2>1, <2>2
<1>11. /\ IsList(two) /\ Joined(two, cpu, pin)
       /\ FindsLists(q, two) <=>
            /\ FindsLists(q, cpu)
            /\ \A k \in DOMAIN pin : pin[k].op = "append" =>
                 \/ CurrentValue(q, pin[k]) # <<>>
                 \/ \E j \in 1..k-1 : pin[j].field = pin[k].field
                 \/ \E j \in DOMAIN cpu : cpu[j].field = pin[k].field
  BY <1>4, <1>5, JoinedFinds
<1> HIDE DEF two
<1>12. FindsLists(q, two) <=> FindsLists(q, pin)
  <2>1. FindsLists(q, cpu)
    BY <1>10 DEF FindsLists
  <2>2. \A k \in DOMAIN pin : pin[k].op = "append" => ~ \E j \in DOMAIN cpu : cpu[j].field = pin[k].field
    BY <1>5, <1>10 DEF PatchOfContainer
  <2>3. QED
    BY <1>11, <2>1, <2>2 DEF FindsLists
<1>13. (\E k \in DOMAIN two : two[k].field = "env") <=> needed /\ ~mounted
  <2>1. ASSUME NEW k \in DOMAIN two, two[k].field = "env"
        PROVE  \E j \in DOMAIN pin : pin[j].field = "env"
    BY <1>10, <1>11, <2>1 DEF Joined
  <2>2. ASSUME NEW j \in DOMAIN pin, pin[j].field = "env"
        PROVE  \E k \in DOMAIN two : two[k].field = "env"
    BY <1>11, <2>2 DEF Joined
  <2>3. QED
    BY <1>5, <2>1, <2>2
<1> DEFINE list == two \o pool
<1>14. /\ IsList(list) /\ Joined(list, two, pool)
       /\ FindsLists(q, list) <=>
            /\ FindsLists(q, two)
            /\ \A k \in DOMAIN pool : pool[k].op = "append" =>
                 \/ CurrentValue(q, pool[k]) # <<>>
                 \/ \E j \in 1..k-1 : pool[j].field = pool[k].field
                 \/ \E j \in DOMAIN two : two[j].field = pool[k].field
  BY <1>9, <1>11, JoinedFinds
<1> HIDE DEF list
<1>15. CurrentValue(q, one) = c.env
  BY <1>2, <1>7 DEF CurrentValue
<1>16. (\A k \in DOMAIN pool : pool[k].op = "append" =>
          \/ CurrentValue(q, pool[k]) # <<>>
          \/ \E j \in 1..k-1 : pool[j].field = pool[k].field
          \/ \E j \in DOMAIN two : two[j].field = pool[k].field)
         <=> (pooled /\ ~has /\ needed => c.env # <<>> \/ ~mounted)
  <2>1. ~ \E j \in 1..1-1 : pool[j].field = pool[1].field
    OBVIOUS
  <2>2. (\E j \in DOMAIN two : two[j].field = one.field) <=> needed /\ ~mounted
    BY <1>7, <1>13
  <2>3. CASE pooled /\ ~has
    BY <1>7, <1>9, <1>15, <2>1, <2>2, <2>3
  <2>4. CASE ~(pooled /\ ~has)
    BY <1>9, <2>4
  <2>5. QED
    BY <2>3, <2>4
<1>17. FindsLists(q, list) <=> Provided(q, c)
  <2> HIDE DEF needed, mounted, pooled, has, c
  <2>1. FindsLists(q, list) <=> (needed => c.mounts # <<>> /\ (mounted /\ pooled => c.env # <<>>))
    BY <1>3, <1>5, <1>12, <1>14, <1>16
  <2>2. QED
    BY <2>1 DEF Provided, needed, mounted, pooled
<1>18. \A k \in DOMAIN two : PatchOfContainer(two[k], i) /\ (two[k].field = "command" => needed)
  BY <1>5, <1>10, <1>11 DEF Joined
<1>19. \A k \in DOMAIN list : PatchOfContainer(list[k], i) /\ (list[k].field = "command" => needed)
  BY <1>7, <1>9, <1>14, <1>18 DEF Joined
<1>20. pooled => c.env # <<>> \/ \E k \in DOMAIN list : list[k].field = "env"
  <2>1. pooled /\ ~has => \E k \in DOMAIN list : list[k] = one
    BY <1>9, <1>14 DEF Joined
  <2>2. QED
    BY <1>3, <1>7, <2>1
<1>21. QED
  BY <1>1, <1>14, <1>17, <1>19, <1>20 DEF list

\* patchVolumesForPinning appends to the volumes, which must be there.
LEMMA VolumesFind ==
  ASSUME NEW q, IsPod(q)
  PROVE  LET list == VolumePatches(q)
         IN  /\ IsList(list)
             /\ \A k \in DOMAIN list : list[k] = AppendTo(0, "volumes", list[k].value[1])
             /\ FindsLists(q, list) <=> (PinningPatchAdded(q) => q.volumes # <<>>)
<1> DEFINE list == VolumePatches(q)
<1>1. /\ IsList(list)
      /\ \A k \in DOMAIN list : \E name \in {"podinfo", "hostbin"} : list[k] = AppendTo(0, "volumes", name)
  BY VolumeList
<1>2. \A k \in DOMAIN list : /\ list[k] = AppendTo(0, "volumes", list[k].value[1])
                             /\ list[k].op = "append" /\ CurrentValue(q, list[k]) = q.volumes
  <2> HIDE DEF list
  <2>1. ASSUME NEW k \in DOMAIN list
        PROVE  /\ list[k] = AppendTo(0, "volumes", list[k].value[1])
               /\ list[k].op = "append" /\ list[k].at = 0 /\ list[k].field = "volumes"
    <3>1. PICK name \in {"podinfo", "hostbin"} : list[k] = AppendTo(0, "volumes", name)
      BY <1>1
    <3>2. QED
      BY <3>1 DEF AppendTo, Patch
  <2>2. QED
    BY <2>1 DEF CurrentValue
<1>3. list # <<>> \/ ~PinningPatchAdded(q) \/ q.volumes # <<>>
  <2>1. q.volumes = <<>> => ~Contains(q.volumes, "hostbin") /\ ~Contains(q.volumes, "podinfo")
    BY DEF Contains
  <2>2. PinningPatchAdded(q) /\ q.volumes = <<>> =>
          list = <<AppendTo(0, "volumes", "podinfo"), AppendTo(0, "volumes", "hostbin")>>
    BY <2>1 DEF VolumePatches
  <2>3. <<AppendTo(0, "volumes", "podinfo"), AppendTo(0, "volumes", "hostbin")>> # <<>>
    OBVIOUS
  <2>4. QED
    BY <2>2, <2>3
<1>4. ~PinningPatchAdded(q) => list = <<>>
  BY DEF VolumePatches
<1> HIDE DEF list
<1>5. FindsLists(q, list) => list = <<>> \/ q.volumes # <<>>
  <2>1. ASSUME FindsLists(q, list), list # <<>>
        PROVE  q.volumes # <<>>
    <3>1. 1 \in DOMAIN list /\ Head(list) = list[1] /\ Applies(q, Head(list))
      BY <1>1, <2>1, TailIsList, FindsFirst
    <3>2. QED
      BY <1>2, <3>1 DEF Applies
  <2>2. QED
    BY <2>1
<1>6. list = <<>> \/ q.volumes # <<>> => FindsLists(q, list)
  BY <1>2, EmptyList DEF FindsLists
<1>7. QED
  BY <1>1, <1>2, <1>3, <1>4, <1>5, <1>6 DEF list

-----------------------------------------------------------------------------
(* The lists that patches append to: the Pods that have them.               *)

LEMMA ListsByContainer ==
  ASSUME NEW q
  PROVE  ListsThere(q) <=> /\ \A i \in DOMAIN q.containers : Provided(q, q.containers[i])
                           /\ PinningPatchAdded(q) => q.volumes # <<>>
<1>1. \A c : c \in Range(q.containers) <=> \E i \in DOMAIN q.containers : c = q.containers[i]
  BY DEF Range
<1>2. QED
  BY <1>1 DEF ListsThere, Provided, PinningPatchAdded

\* The patches of a call, and that they find their lists exactly in the Pods that have
\* the lists that the webhook takes for granted.
LEMMA MutatePodsFind ==
  ASSUME NEW q, IsPod(q), NEW limits, NEW lists, lists = MutatePods(q, limits)
  PROVE  /\ IsList(lists) /\ DOMAIN lists = DOMAIN q.containers \cup {Len(q.containers) + 1}
         /\ \A i \in DOMAIN q.containers : lists[i] = ContainerPatches(q, i, limits[i])
         /\ lists[Len(q.containers) + 1] = VolumePatches(q)
         /\ ListsThere(q) <=> \A k \in DOMAIN lists : FindsLists(q, lists[k])
<1> DEFINE n == Len(q.containers)
           f == [i \in 1..n |-> ContainerPatches(q, i, limits[i])]
<1>1. DOMAIN q.containers = 1..n /\ n \in Nat
  BY PodFields
<1>2. lists = Append(f, VolumePatches(q))
  BY <1>1 DEF MutatePods
<1>3. f = [i \in 1..n |-> f[i]] /\ \A i \in 1..n : f[i] = ContainerPatches(q, i, limits[i])
  OBVIOUS
<1> HIDE DEF f, n
<1>4. /\ IsList(lists) /\ DOMAIN lists = 1..(n + 1)
      /\ \A i \in 1..n : lists[i] = ContainerPatches(q, i, limits[i])
      /\ lists[n + 1] = VolumePatches(q)
  BY <1>1, <1>2, <1>3, ListsOf
<1>5. 1..(n + 1) = (1..n) \cup {n + 1}
  BY <1>1
<1>6. \A i \in 1..n : FindsLists(q, lists[i]) <=> Provided(q, q.containers[i])
  BY <1>1, <1>4, ContainerFinds
<1>7. FindsLists(q, lists[n + 1]) <=> (PinningPatchAdded(q) => q.volumes # <<>>)
  BY <1>4, VolumesFind
<1>8. ListsThere(q) <=> \A k \in DOMAIN lists : FindsLists(q, lists[k])
  BY <1>1, <1>4, <1>5, <1>6, <1>7, ListsByContainer
<1>9. QED
  BY <1>1, <1>4, <1>5, <1>8 DEF n

\* Whether a container is pinned depends on its name, what it requests and whether it
\* has a command.
LEMMA PinnedAlike ==
  ASSUME NEW q, NEW r, NEW i, r.annotation = q.annotation,
         r.containers[i].name = q.containers[i].name, r.containers[i].limits = q.containers[i].limits,
         \/ r.containers[i].command = q.containers[i].command
         \/ Pinned(q, i) /\ r.containers[i].command # <<>>
  PROVE  Pinned(r, i) <=> Pinned(q, i)
<1>1. ExclusiveRequest(r.containers[i]) = ExclusiveRequest(q.containers[i])
  BY SameRequests
<1>2. Annotated(r, r.containers[i]) <=> Annotated(q, q.containers[i])
  BY DEF Annotated
<1>3. QED
  BY <1>1, <1>2 DEF Pinned, PinningPatchNeeded

ContainerLists == {"cpu", "mounts", "env", "command", "args"}

\* After a patch p of list k, the fields of r are empty where those of q were, but for
\* the one that it changed.
FieldsFilled(r, q, k, p) ==
  /\ r.volumes = <<>> <=> q.volumes = <<>>
  /\ \A i \in Conts : \A f \in ContainerLists :
       r.containers[i][f] # <<>> <=> q.containers[i][f] # <<>> \/ (i = k /\ f = p.field)

LEMMA ContainerPatchFills ==
  ASSUME NEW q, SameNeeds(q), NEW k \in Conts, NEW p, PatchOfContainer(p, k),
         p.field = "command" => Pinned(submitted, k), Applies(q, p), NEW r, r = Applied(q, p)
  PROVE  SameNeeds(r) /\ FieldsFilled(r, q, k, p)
<1> DEFINE c == q.containers[k]
           d == Updated(c, p)
<1>1. IsPod(q) /\ q.annotation = submitted.annotation /\ DOMAIN q.containers = Conts /\ IsContainer(c)
  BY PodFields DEF SameNeeds
<1>2. p.at = k /\ p.field \in ContainerLists
  BY DEF PatchOfContainer, ContainerLists
<1>3. Written(c, p) # <<>> /\ (p.field # "cpu" => IsSequence(Written(c, p)))
  <2>1. CASE p.op = "append"
    <3>1. p.field \in {"mounts", "env"}
      BY <2>1 DEF PatchOfContainer
    <3>2. IsSequence(c[p.field])
      BY <1>1, <3>1, ContainerFields
    <3>3. IsSequence(p.value) /\ p.value # <<>> /\ Written(c, p) = c[p.field] \o p.value
      BY <2>1 DEF PatchOfContainer, Written
    <3>4. QED
      BY <3>2, <3>3, ConcatNotEmpty
  <2>2. CASE p.op # "append"
    BY <2>2 DEF PatchOfContainer, Written
  <2>3. QED
    BY <2>1, <2>2
<1>4. FieldUpdated(d, c, p)
  BY <1>1, <1>2, <1>3, UpdatedField DEF ContainerLists
<1>5. OneContainer(r, q, k, d) /\ (p.op = "append" => c[p.field] # <<>>)
  BY <1>1, <1>2, <1>4, AppliedToContainer DEF FieldUpdated
<1>6. /\ r.containers[k] = d
      /\ \A i \in Conts : i # k => r.containers[i] = q.containers[i]
      /\ r.annotation = q.annotation /\ r.volumes = q.volumes /\ IsPod(r) /\ DOMAIN r.containers = Conts
  BY <1>1, <1>5 DEF OneContainer
<1> HIDE DEF d
<1>7. \A f \in ContainerLists : d[f] # <<>> <=> c[f] # <<>> \/ f = p.field
  BY <1>3, <1>4 DEF FieldUpdated, ContainerLists
<1>8. FieldsFilled(r, q, k, p)
  BY <1>6, <1>7 DEF FieldsFilled, c
<1>9. ASSUME NEW i \in Conts
      PROVE  /\ r.containers[i].name = submitted.containers[i].name
             /\ r.containers[i].limits = submitted.containers[i].limits
             /\ Pinned(r, i) <=> Pinned(submitted, i)
             /\ r.containers[i].mounts = <<>> <=> submitted.containers[i].mounts = <<>>
  <2>1. /\ q.containers[i].name = submitted.containers[i].name
        /\ q.containers[i].limits = submitted.containers[i].limits
        /\ Pinned(q, i) <=> Pinned(submitted, i)
        /\ q.containers[i].mounts = <<>> <=> submitted.containers[i].mounts = <<>>
    BY DEF SameNeeds
  <2>2. CASE i # k
    <3>1. Pinned(r, i) <=> Pinned(q, i)
      BY <1>6, <2>2, PinnedAlike
    <3>2. QED
      BY <1>6, <2>1, <2>2, <3>1
  <2>3. CASE i = k
    <3>1. d.name = c.name /\ d.limits = c.limits
      BY <1>4 DEF FieldUpdated
    <3>2. d.command = c.command \/ (Pinned(q, k) /\ d.command # <<>>)
      <4>1. CASE p.field = "command"
        BY <1>3, <1>4, <2>1, <2>3, <4>1 DEF FieldUpdated
      <4>2. CASE p.field # "command"
        BY <1>4, <4>2 DEF FieldUpdated
      <4>3. QED
        BY <4>1, <4>2
    <3>3. Pinned(r, k) <=> Pinned(q, k)
      BY <1>6, <3>1, <3>2, PinnedAlike
    <3>4. d.mounts = <<>> <=> c.mounts = <<>>
      <4>1. CASE p.field = "mounts"
        BY <1>3, <1>4, <1>5, <4>1 DEF FieldUpdated, PatchOfContainer
      <4>2. CASE p.field # "mounts"
        BY <1>4, <4>2 DEF FieldUpdated
      <4>3. QED
        BY <4>1, <4>2
    <3>5. QED
      BY <1>6, <2>1, <2>3, <3>1, <3>3, <3>4
  <2>4. QED
    BY <2>2, <2>3
<1>10. SameNeeds(r)
  BY <1>1, <1>6, <1>9 DEF SameNeeds
<1>11. QED
  BY <1>8, <1>10

LEMMA PatchFills ==
  ASSUME NEW q, SameNeeds(q), NEW k, NEW p, PatchOfList(p, k), Applies(q, p), NEW r, r = Applied(q, p),
         VolumesAt \notin Conts
  PROVE  /\ SameNeeds(r) /\ FieldsFilled(r, q, k, p)
         /\ \A j, s : PatchOfList(s, j) =>
              (CurrentValue(r, s) # <<>> <=> CurrentValue(q, s) # <<>> \/ (j = k /\ s.field = p.field))
<1>1. SameNeeds(r) /\ FieldsFilled(r, q, k, p) /\ (k = VolumesAt => q.volumes # <<>> /\ p.field = "volumes")
  <2>1. CASE k \in Conts /\ PatchOfContainer(p, k) /\ (p.field = "command" => Pinned(submitted, k))
    BY <2>1, ContainerPatchFills
  <2>2. CASE k = VolumesAt /\ p = AppendTo(0, "volumes", p.value[1])
    <3>1. PICK name : name = p.value[1] /\ p = AppendTo(0, "volumes", name)
      BY <2>2
    <3>2. p.at = 0 /\ p.field = "volumes" /\ p.op = "append"
      BY <3>1 DEF AppendTo, Patch
    <3>3. q.volumes # <<>>
      BY <3>2 DEF Applies, CurrentValue
    <3>4. OneVolume(r, q, name)
      BY <3>1, <3>3, AppliedToVolumes DEF SameNeeds
    <3>5. /\ r.containers = q.containers /\ r.annotation = q.annotation /\ IsPod(r)
          /\ r.volumes # <<>> /\ q.volumes # <<>>
      BY <3>3, <3>4 DEF OneVolume
    <3>6. \A i \in Conts : Pinned(r, i) <=> Pinned(q, i)
      BY <3>5, PinnedAlike
    <3>7. SameNeeds(r)
      BY <3>5, <3>6 DEF SameNeeds
    <3>8. FieldsFilled(r, q, k, p)
      BY <2>2, <3>5 DEF FieldsFilled
    <3>9. QED
      BY <3>2, <3>5, <3>7, <3>8
  <2>3. QED
    BY <2>1, <2>2 DEF PatchOfList
<1>2. ASSUME NEW j, NEW s, PatchOfList(s, j)
      PROVE  CurrentValue(r, s) # <<>> <=> CurrentValue(q, s) # <<>> \/ (j = k /\ s.field = p.field)
  <2>1. CASE j = VolumesAt /\ s = AppendTo(0, "volumes", s.value[1])
    <3>1. s.at = 0 /\ s.field = "volumes"
      <4>1. PICK name : s = AppendTo(0, "volumes", name)
        BY <2>1
      <4>2. QED
        BY <4>1 DEF AppendTo, Patch
    <3>2. CurrentValue(r, s) = r.volumes /\ CurrentValue(q, s) = q.volumes
      BY <3>1 DEF CurrentValue
    <3>3. QED
      BY <1>1, <2>1, <3>2 DEF FieldsFilled
  <2>2. CASE j \in Conts /\ PatchOfContainer(s, j)
    <3>1. s.at = j /\ s.field \in ContainerLists /\ j # 0
      BY <2>2, PodFields DEF PatchOfContainer, ContainerLists, SameNeeds
    <3>2. CurrentValue(r, s) = r.containers[j][s.field] /\ CurrentValue(q, s) = q.containers[j][s.field]
      BY <3>1 DEF CurrentValue
    <3>3. QED
      BY <1>1, <2>2, <3>1, <3>2 DEF FieldsFilled
  <2>3. QED
    BY <1>2, <2>1, <2>2 DEF PatchOfList
<1>3. QED
  BY <1>1, <1>2

-----------------------------------------------------------------------------
(* The lists that patches append to: the steps.                             *)

\* Some facts of ListsInv in every state.
LEMMA NeedsFacts ==
  ASSUME WellFormed(submitted), SameNeeds(pod)
  PROVE  /\ IsPod(submitted) /\ IsPod(pod) /\ pod.annotation = submitted.annotation
         /\ DOMAIN pod.containers = Conts /\ DOMAIN submitted.containers = Conts
         /\ Len(pod.containers) = Len(submitted.containers) /\ Len(submitted.containers) \in Nat
         /\ Conts = 1..Len(submitted.containers) /\ VolumesAt \notin Conts
<1>1. IsPod(submitted) /\ IsPod(pod) /\ pod.annotation = submitted.annotation /\ DOMAIN pod.containers = Conts
  BY DEF WellFormed, SameNeeds
<1>2. /\ Conts = 1..Len(submitted.containers) /\ Len(submitted.containers) \in Nat
      /\ Conts = 1..Len(pod.containers) /\ Len(pod.containers) \in Nat
  BY <1>1, PodFields DEF Conts
<1>3. QED
  BY <1>1, <1>2 DEF VolumesAt, Conts

\* A Pod needs as submitted what it needs.
LEMMA NeedsOfSubmitted ==
  ASSUME WellFormed(submitted)
  PROVE  SameNeeds(submitted)
  BY DEF WellFormed, SameNeeds, Conts

LEMMA ListsInit ==
  ASSUME Init
  PROVE  ListsInv
<1>1. WellFormed(submitted) /\ pod = submitted /\ stage = "review" /\ stored = <<>>
  BY PodsAssumption DEF Init
<1>2. QED
  BY <1>1, NeedsOfSubmitted DEF ListsInv, PatchesFindLists

\* When all patches are applied, the submitted Pod had the lists, and the Pod has them.
LEMMA ListsOfPatched ==
  ASSUME ListsInv, Patched
  PROVE  ListsThere(submitted) /\ ListsThere(pod)
<1>1. /\ WellFormed(submitted) /\ SameNeeds(pod) /\ PatchesFindLists /\ stage = "patching"
      /\ \A k \in DOMAIN patches : patches[k] = <<>>
  BY DEF ListsInv, Patched
<1>2. ListsThere(submitted)
  BY <1>1, EmptyList DEF PatchesFindLists, FindsLists
<1>3. /\ DOMAIN pod.containers = Conts /\ DOMAIN submitted.containers = Conts
      /\ \A i \in Conts : Provided(submitted, submitted.containers[i])
      /\ PinningPatchAdded(submitted) => submitted.volumes # <<>>
  BY <1>1, <1>2, NeedsFacts, ListsByContainer
<1>4. ASSUME NEW i \in Conts
      PROVE  /\ Provided(pod, pod.containers[i])
             /\ PinningPatchNeeded(pod, pod.containers[i]) => PinningPatchNeeded(submitted, submitted.containers[i])
  <2> DEFINE was == submitted.containers[i]
             is  == pod.containers[i]
  <2>1. is.limits = was.limits /\ (is.mounts = <<>> <=> was.mounts = <<>>)
        /\ (PinningPatchNeeded(pod, is) <=> PinningPatchNeeded(submitted, was))
    BY <1>1 DEF SameNeeds, Pinned
  <2>2. SharedRequest(is) = SharedRequest(was) /\ ExclusiveRequest(is) = ExclusiveRequest(was)
    BY <2>1, SameRequests
  <2>3. SharedRequest(was) > 0 \/ ExclusiveRequest(was) > 0 => is.env # <<>>
    BY <1>1, EmptyList DEF PatchesFindLists, Pooled
  <2>4. PinningPatchNeeded(submitted, was) => was.mounts # <<>>
    BY <1>3 DEF Provided
  <2>5. QED
    BY <2>1, <2>2, <2>3, <2>4 DEF Provided
<1>5. PinningPatchAdded(pod) => pod.volumes # <<>>
  <2>1. PinningPatchAdded(pod) => PinningPatchAdded(submitted)
    BY <1>3, <1>4 DEF PinningPatchAdded, Range
  <2>2. QED
    BY <1>1, <1>3, <2>1 DEF SameNeeds
<1>6. QED
  BY <1>2, <1>3, <1>4, <1>5, ListsByContainer

LEMMA MutateKeepsLists ==
  ASSUME ListsInv, Mutate
  PROVE  ListsInv'
<1>1. /\ stage = "review" /\ stage' = "patching" /\ UNCHANGED <<submitted, pod, stored>>
      /\ WellFormed(submitted) /\ SameNeeds(pod) /\ (ListsThere(pod) <=> ListsThere(submitted))
  BY DEF Mutate, apiVars, ListsInv
<1>2. PICK limits, lists : lists = patches' /\ lists = MutatePods(pod, limits)
  BY DEF Mutate
<1>3. /\ IsPod(pod) /\ DOMAIN pod.containers = Conts /\ VolumesAt = Len(pod.containers) + 1
  BY <1>1, NeedsFacts DEF VolumesAt
<1>4. /\ IsList(lists) /\ DOMAIN lists = Conts \cup {VolumesAt}
      /\ \A i \in Conts : lists[i] = ContainerPatches(pod, i, limits[i])
      /\ lists[VolumesAt] = VolumePatches(pod)
      /\ ListsThere(pod) <=> \A k \in DOMAIN lists : FindsLists(pod, lists[k])
  <2>1. /\ IsList(lists) /\ DOMAIN lists = DOMAIN pod.containers \cup {Len(pod.containers) + 1}
        /\ \A i \in DOMAIN pod.containers : lists[i] = ContainerPatches(pod, i, limits[i])
        /\ lists[Len(pod.containers) + 1] = VolumePatches(pod)
        /\ ListsThere(pod) <=> \A k \in DOMAIN lists : FindsLists(pod, lists[k])
    BY <1>2, <1>3, MutatePodsFind
  <2>2. QED
    BY <1>3, <2>1
<1>5. ASSUME NEW i \in Conts
      PROVE  /\ IsList(lists[i]) /\ \A n \in DOMAIN lists[i] : PatchOfList(lists[i][n], i)
             /\ Pooled(submitted, i) =>
                  pod.containers[i].env # <<>> \/ \E n \in DOMAIN lists[i] : lists[i][n].field = "env"
  <2>1. /\ IsList(lists[i])
        /\ \A n \in DOMAIN lists[i] :
             /\ PatchOfContainer(lists[i][n], i)
             /\ lists[i][n].field = "command" => PinningPatchNeeded(pod, pod.containers[i])
        /\ SharedRequest(pod.containers[i]) > 0 \/ ExclusiveRequest(pod.containers[i]) > 0 =>
             pod.containers[i].env # <<>> \/ \E n \in DOMAIN lists[i] : lists[i][n].field = "env"
    BY <1>3, <1>4, ContainerFinds
  <2>2. pod.containers[i].limits = submitted.containers[i].limits /\ (Pinned(pod, i) <=> Pinned(submitted, i))
    BY <1>1 DEF SameNeeds
  <2>3. /\ SharedRequest(pod.containers[i]) = SharedRequest(submitted.containers[i])
        /\ ExclusiveRequest(pod.containers[i]) = ExclusiveRequest(submitted.containers[i])
    BY <2>2, SameRequests
  <2>4. \A n \in DOMAIN lists[i] : PatchOfList(lists[i][n], i)
    BY <2>1, <2>2 DEF PatchOfList, Pinned
  <2>5. QED
    BY <2>1, <2>3, <2>4 DEF Pooled
<1>6. IsList(lists[VolumesAt]) /\ \A n \in DOMAIN lists[VolumesAt] : PatchOfList(lists[VolumesAt][n], VolumesAt)
  BY <1>3, <1>4, VolumesFind DEF PatchOfList
<1>7. Conts' = Conts /\ VolumesAt' = VolumesAt
  BY <1>1 DEF Conts, VolumesAt
<1>8. \A k \in DOMAIN lists : IsList(lists[k]) /\ \A n \in DOMAIN lists[k] : PatchOfList(lists[k][n], k)
  BY <1>4, <1>5, <1>6
<1>9. (\A k \in DOMAIN patches : IsList(patches[k]) /\ \A n \in DOMAIN patches[k] : PatchOfList(patches[k][n], k))'
  BY <1>1, <1>2, <1>7, <1>8 DEF PatchOfList
<1>10. PatchesFindLists'
  BY <1>1, <1>2, <1>4, <1>5, <1>7, <1>9 DEF PatchesFindLists
<1>11. QED
  BY <1>1, <1>7, <1>10 DEF ListsInv, SameNeeds

LEMMA ListReplaced ==
  ASSUME NEW lists, IsList(lists), NEW k \in DOMAIN lists, NEW v, NEW t, t = [lists EXCEPT ![k] = v]
  PROVE  /\ IsList(t) /\ DOMAIN t = DOMAIN lists /\ t[k] = v
         /\ \A j \in DOMAIN lists : j # k => t[j] = lists[j]
<1>1. PICK n \in Nat : DOMAIN lists = 1..n
  BY ListDomain
<1>2. /\ DOMAIN t = 1..n /\ t = [j \in DOMAIN t |-> t[j]] /\ t[k] = v
      /\ \A j \in DOMAIN lists : j # k => t[j] = lists[j]
  BY <1>1
<1>3. t \in [1..n -> Range(t)]
  BY <1>2 DEF Range
<1>4. t \in Seq(Range(t))
  BY <1>3, FunctionIsSequence
<1>5. QED
  BY <1>1, <1>2, <1>4, SequenceIsList

\* A patch leaves a Pod that the patches after it fit as they did; one that fails is of
\* a Pod that lacked a list when it was submitted.
LEMMA ApplyPatchKeepsLists ==
  ASSUME ListsInv, ApplyPatch
  PROVE  ListsInv'
<1>1. /\ stage = "patching" /\ UNCHANGED <<submitted, stored>>
      /\ WellFormed(submitted) /\ SameNeeds(pod) /\ PatchesFindLists
  BY DEF ApplyPatch, ListsInv
<1>2. PICK k \in DOMAIN patches :
        /\ patches[k] # <<>>
        /\ IF Applies(pod, Head(patches[k]))
           THEN /\ pod' = Applied(pod, Head(patches[k]))
                /\ patches' = [patches EXCEPT ![k] = Tail(patches[k])]
                /\ UNCHANGED stage
           ELSE stage' = "broken" /\ UNCHANGED <<pod, patches>>
  BY DEF ApplyPatch
<1>3. /\ IsList(patches) /\ DOMAIN patches = Conts \cup {VolumesAt}
      /\ \A j \in DOMAIN patches :
           IsList(patches[j]) /\ \A n \in DOMAIN patches[j] : PatchOfList(patches[j][n], j)
      /\ ListsThere(submitted) <=> \A j \in DOMAIN patches : FindsLists(pod, patches[j])
  BY <1>1 DEF PatchesFindLists
<1>4. Conts' = Conts /\ VolumesAt' = VolumesAt
  BY <1>1 DEF Conts, VolumesAt
<1>5. CASE ~Applies(pod, Head(patches[k]))
  <2>1. stage' = "broken" /\ UNCHANGED <<pod, patches>>
    BY <1>2, <1>5
  <2>2. ~ListsThere(submitted)
    BY <1>2, <1>3, <1>5, FindsFirst
  <2>3. QED
    BY <1>1, <1>4, <2>1, <2>2 DEF ListsInv, SameNeeds, PatchesFindLists
<1>6. CASE Applies(pod, Head(patches[k]))
  <2>1. PICK list, p, r, lists : list = patches[k] /\ p = Head(list) /\ r = pod' /\ lists = patches'
    OBVIOUS
  <2>2. /\ r = Applied(pod, p) /\ lists = [patches EXCEPT ![k] = Tail(list)] /\ stage' = "patching"
        /\ IsList(list) /\ list # <<>> /\ Applies(pod, p)
    BY <1>1, <1>2, <1>3, <1>6, <2>1
  <2>3. /\ 1 \in DOMAIN list /\ p = list[1] /\ IsList(Tail(list))
        /\ \A n \in DOMAIN Tail(list) : n + 1 \in DOMAIN list /\ Tail(list)[n] = list[n + 1]
    BY <2>1, <2>2, TailIsList
  <2>4. \A n \in DOMAIN list : PatchOfList(list[n], k)
    BY <1>3, <2>1
  <2>5. PatchOfList(p, k) /\ VolumesAt \notin Conts
    BY <1>1, <2>3, <2>4, NeedsFacts
  <2>6. /\ SameNeeds(r) /\ FieldsFilled(r, pod, k, p)
        /\ \A j, s : PatchOfList(s, j) =>
             (CurrentValue(r, s) # <<>> <=> CurrentValue(pod, s) # <<>> \/ (j = k /\ s.field = p.field))
    BY <1>1, <2>2, <2>5, PatchFills
  <2>7. /\ IsList(lists) /\ DOMAIN lists = DOMAIN patches /\ lists[k] = Tail(list)
        /\ \A j \in DOMAIN patches : j # k => lists[j] = patches[j]
    BY <1>3, <2>2, ListReplaced
  <2>8. FindsLists(pod, list) <=> FindsLists(r, Tail(list))
    BY <2>1, <2>2, <2>4, <2>6, FindsRest
  <2>9. ASSUME NEW j \in DOMAIN patches
        PROVE  /\ FindsLists(r, lists[j]) <=> FindsLists(pod, patches[j])
               /\ IsList(lists[j]) /\ \A n \in DOMAIN lists[j] : PatchOfList(lists[j][n], j)
    <3>1. CASE j = k
      <4>1. lists[j] = Tail(list) /\ patches[j] = list
        BY <2>1, <2>7, <3>1
      <4>2. \A n \in DOMAIN Tail(list) : PatchOfList(Tail(list)[n], j)
        BY <2>3, <2>4, <3>1
      <4>3. QED
        BY <2>3, <2>8, <4>1, <4>2
    <3>2. CASE j # k
      <4>1. \A n \in DOMAIN patches[j] : CurrentValue(r, patches[j][n]) # <<>> <=> CurrentValue(pod, patches[j][n]) # <<>>
        BY <1>3, <2>6, <3>2
      <4>2. FindsLists(pod, patches[j]) <=> FindsLists(r, patches[j])
        BY <4>1, FindsSame
      <4>3. QED
        BY <1>3, <2>7, <3>2, <4>2
    <3>3. QED
      BY <3>1, <3>2
  <2>10. ASSUME NEW i \in Conts, Pooled(submitted, i)
         PROVE  r.containers[i].env # <<>> \/ \E n \in DOMAIN lists[i] : lists[i][n].field = "env"
    <3>1. pod.containers[i].env # <<>> \/ \E n \in DOMAIN patches[i] : patches[i][n].field = "env"
      BY <1>1, <2>10 DEF PatchesFindLists
    <3>2. r.containers[i].env # <<>> <=> pod.containers[i].env # <<>> \/ (i = k /\ p.field = "env")
      <4>1. "env" \in ContainerLists
        BY DEF ContainerLists
      <4>2. r.containers[i]["env"] # <<>> <=> pod.containers[i]["env"] # <<>> \/ (i = k /\ "env" = p.field)
        BY <2>6, <4>1 DEF FieldsFilled
      <4>3. QED
        BY <4>2
    <3>3. CASE i # k
      BY <1>3, <2>7, <3>1, <3>2, <3>3
    <3>4. CASE i = k
      <4>1. ASSUME NEW n \in DOMAIN list, list[n].field = "env", p.field # "env"
            PROVE  \E m \in DOMAIN lists[i] : lists[i][m].field = "env"
        <5>1. n # 1
          BY <2>3, <4>1
        <5>2. n - 1 \in DOMAIN Tail(list) /\ (n - 1) + 1 = n
          BY <2>2, <5>1, TailIsList
        <5>3. QED
          BY <2>3, <2>7, <3>4, <4>1, <5>2
      <4>2. QED
        BY <2>1, <3>1, <3>2, <3>4, <4>1
    <3>5. QED
      BY <3>3, <3>4
  <2>11. SameNeeds(pod)'
    BY <1>1, <1>4, <2>1, <2>6 DEF SameNeeds
  <2>12. (\A j \in DOMAIN patches : IsList(patches[j]) /\ \A n \in DOMAIN patches[j] : PatchOfList(patches[j][n], j))'
    BY <1>1, <1>4, <2>1, <2>7, <2>9 DEF PatchOfList
  <2>13. ListsThere(submitted) <=> \A j \in DOMAIN lists : FindsLists(r, lists[j])
    BY <1>3, <2>7, <2>9
  <2>14. PatchesFindLists'
    BY <1>1, <1>3, <1>4, <2>1, <2>2, <2>7, <2>10, <2>12, <2>13 DEF PatchesFindLists
  <2>15. (stored # <<>> => SameNeeds(stored[1].pod) /\ ListsThere(stored[1].pod) /\ ListsThere(submitted))'
    BY <1>1, <1>4 DEF ListsInv, SameNeeds
  <2>16. QED
    BY <1>1, <2>2, <2>11, <2>14, <2>15 DEF ListsInv
<1>7. QED
  BY <1>5, <1>6

\* A variable that others add takes no list away, and gives no container other needs.
LEMMA VarProvides ==
  ASSUME NEW q, IsPod(q), NEW i \in DOMAIN q.containers, NEW r, r = WithVar(q, i)
  PROVE  /\ IsPod(r) /\ r.annotation = q.annotation /\ r.volumes = q.volumes
         /\ DOMAIN r.containers = DOMAIN q.containers
         /\ \A j \in DOMAIN q.containers :
              /\ r.containers[j].name = q.containers[j].name /\ r.containers[j].limits = q.containers[j].limits
              /\ r.containers[j].mounts = q.containers[j].mounts
              /\ Pinned(r, j) <=> Pinned(q, j)
         /\ ListsThere(q) => ListsThere(r)
<1>1. OneContainer(r, q, i, r.containers[i]) /\ WithOneVar(r.containers[i], q.containers[i], InjectedVar)
  BY PodWithVar
<1>2. /\ IsPod(r) /\ r.annotation = q.annotation /\ r.volumes = q.volumes
      /\ DOMAIN r.containers = DOMAIN q.containers
  BY <1>1 DEF OneContainer
<1>3. ASSUME NEW j \in DOMAIN q.containers
      PROVE  /\ r.containers[j].name = q.containers[j].name /\ r.containers[j].limits = q.containers[j].limits
             /\ r.containers[j].mounts = q.containers[j].mounts
             /\ r.containers[j].command = q.containers[j].command
             /\ r.containers[j].env = q.containers[j].env \/ r.containers[j].env # <<>>
  <2>1. CASE j = i
    BY <1>1, <2>1 DEF WithOneVar, OneVarMore
  <2>2. CASE j # i
    BY <1>1, <2>2 DEF OneContainer
  <2>3. QED
    BY <2>1, <2>2
<1>4. \A j \in DOMAIN q.containers : Pinned(r, j) <=> Pinned(q, j)
  BY <1>2, <1>3, PinnedAlike
<1>5. ASSUME ListsThere(q)
      PROVE  ListsThere(r)
  <2>1. /\ \A j \in DOMAIN q.containers : Provided(q, q.containers[j])
        /\ PinningPatchAdded(q) => q.volumes # <<>>
    BY <1>5, ListsByContainer
  <2>2. ASSUME NEW j \in DOMAIN q.containers
        PROVE  Provided(r, r.containers[j])
    <3>1. /\ SharedRequest(r.containers[j]) = SharedRequest(q.containers[j])
          /\ ExclusiveRequest(r.containers[j]) = ExclusiveRequest(q.containers[j])
      BY <1>3, SameRequests
    <3>2. Provided(q, q.containers[j])
      BY <2>1
    <3>3. QED
      BY <1>3, <1>4, <3>1, <3>2 DEF Provided, Pinned
  <2>3. PinningPatchAdded(r) => PinningPatchAdded(q)
    BY <1>2, <1>4 DEF PinningPatchAdded, Pinned, Range
  <2>4. QED
    BY <1>2, <2>1, <2>2, <2>3, ListsByContainer
<1>6. QED
  BY <1>2, <1>3, <1>4, <1>5

\* A container that others add brings its own needs.
LEMMA SidecarProvides ==
  ASSUME NEW q, IsPod(q), NEW c, IsContainer(c), NEW r, r = WithSidecar(q, c), ListsThere(q)
  PROVE  /\ OneContainerMore(r, q, c)
         /\ \A j \in DOMAIN q.containers : Pinned(r, j) <=> Pinned(q, j)
         /\ ListsThere(r) <=> Provided(q, c) /\ (PinningPatchNeeded(q, c) => q.volumes # <<>>)
<1> DEFINE n == Len(q.containers) + 1
<1>1. OneContainerMore(r, q, c)
  BY PodWithSidecar
<1>2. /\ IsPod(r) /\ r.annotation = q.annotation /\ r.volumes = q.volumes
      /\ DOMAIN r.containers = DOMAIN q.containers \cup {n} /\ n \notin DOMAIN q.containers
      /\ r.containers[n] = c
      /\ \A j \in DOMAIN q.containers : r.containers[j] = q.containers[j]
  BY <1>1 DEF OneContainerMore
<1> HIDE DEF n
<1>3. \A d : PinningPatchNeeded(r, d) <=> PinningPatchNeeded(q, d)
  BY <1>2 DEF PinningPatchNeeded, Annotated
<1>4. \A d : Provided(r, d) <=> Provided(q, d)
  BY <1>3 DEF Provided
<1>5. \A j \in DOMAIN q.containers : Pinned(r, j) <=> Pinned(q, j)
  BY <1>2, <1>3 DEF Pinned
<1>6. /\ \A j \in DOMAIN q.containers : Provided(q, q.containers[j])
      /\ PinningPatchAdded(q) => q.volumes # <<>>
  BY ListsByContainer
<1>7. PinningPatchAdded(r) <=> PinningPatchAdded(q) \/ PinningPatchNeeded(q, c)
  BY <1>2, <1>3 DEF PinningPatchAdded, Range
<1>8. ListsThere(r) <=> /\ \A j \in DOMAIN r.containers : Provided(r, r.containers[j])
                        /\ PinningPatchAdded(r) => r.volumes # <<>>
  BY ListsByContainer
<1>9. (\A j \in DOMAIN r.containers : Provided(r, r.containers[j])) <=> Provided(q, c)
  BY <1>2, <1>4, <1>6
<1>10. QED
  BY <1>1, <1>2, <1>5, <1>6, <1>7, <1>8, <1>9

LEMMA VarKeepsLists ==
  ASSUME ListsInv, Patched, NEW i \in Conts, pod' = WithVar(pod, i), submitted' = WithVar(submitted, i)
  PROVE  WellFormed(submitted') /\ SameNeeds(pod)' /\ ListsThere(pod') /\ ListsThere(submitted')
<1>1. /\ WellFormed(submitted) /\ SameNeeds(pod) /\ ListsThere(pod) /\ ListsThere(submitted)
      /\ IsPod(pod) /\ IsPod(submitted) /\ DOMAIN pod.containers = Conts /\ DOMAIN submitted.containers = Conts
  BY ListsOfPatched, NeedsFacts DEF ListsInv
<1>2. PICK r, s : r = pod' /\ s = submitted'
  OBVIOUS
<1>3. /\ IsPod(r) /\ r.annotation = pod.annotation /\ r.volumes = pod.volumes
      /\ DOMAIN r.containers = Conts
      /\ \A j \in Conts :
           /\ r.containers[j].name = pod.containers[j].name /\ r.containers[j].limits = pod.containers[j].limits
           /\ r.containers[j].mounts = pod.containers[j].mounts
           /\ Pinned(r, j) <=> Pinned(pod, j)
      /\ ListsThere(r)
  BY <1>1, <1>2, VarProvides
<1>4. /\ IsPod(s) /\ s.annotation = submitted.annotation /\ s.volumes = submitted.volumes
      /\ DOMAIN s.containers = Conts
      /\ \A j \in Conts :
           /\ s.containers[j].name = submitted.containers[j].name
           /\ s.containers[j].limits = submitted.containers[j].limits
           /\ s.containers[j].mounts = submitted.containers[j].mounts
           /\ Pinned(s, j) <=> Pinned(submitted, j)
      /\ ListsThere(s)
  BY <1>1, <1>2, VarProvides
<1>5. Conts' = Conts
  BY <1>2, <1>4 DEF Conts
<1>6. WellFormed(s)
  BY <1>1, <1>4 DEF WellFormed, OneExclusivePool
<1>7. SameNeeds(pod)'
  BY <1>1, <1>2, <1>3, <1>4, <1>5 DEF SameNeeds
<1>8. QED
  BY <1>2, <1>3, <1>4, <1>6, <1>7

LEMMA SidecarKeepsLists ==
  ASSUME ListsInv, Patched, NEW c \in Sidecars, \A d \in Range(pod.containers) : d.name # c.name,
         pod' = WithSidecar(pod, c), submitted' = WithSidecar(submitted, c)
  PROVE  WellFormed(submitted') /\ SameNeeds(pod)' /\ (ListsThere(pod') <=> ListsThere(submitted'))
<1>1. /\ WellFormed(submitted) /\ SameNeeds(pod) /\ ListsThere(pod) /\ ListsThere(submitted)
      /\ IsPod(pod) /\ IsPod(submitted) /\ DOMAIN pod.containers = Conts /\ DOMAIN submitted.containers = Conts
      /\ pod.annotation = submitted.annotation
      /\ Len(pod.containers) = Len(submitted.containers) /\ Len(submitted.containers) \in Nat
  BY ListsOfPatched, NeedsFacts DEF ListsInv
<1>2. IsContainer(c) /\ OneExclusivePool(c)
  BY PodsAssumption
<1>3. PICK r, s, n : r = pod' /\ s = submitted' /\ n = Len(submitted.containers) + 1
  OBVIOUS
<1>4. /\ OneContainerMore(r, pod, c)
      /\ \A j \in Conts : Pinned(r, j) <=> Pinned(pod, j)
      /\ ListsThere(r) <=> Provided(pod, c) /\ (PinningPatchNeeded(pod, c) => pod.volumes # <<>>)
  BY <1>1, <1>2, <1>3, SidecarProvides
<1>5. /\ OneContainerMore(s, submitted, c)
      /\ \A j \in Conts : Pinned(s, j) <=> Pinned(submitted, j)
      /\ ListsThere(s) <=> Provided(submitted, c) /\ (PinningPatchNeeded(submitted, c) => submitted.volumes # <<>>)
  BY <1>1, <1>2, <1>3, SidecarProvides
<1>6. /\ IsPod(r) /\ r.annotation = pod.annotation /\ r.volumes = pod.volumes
      /\ DOMAIN r.containers = Conts \cup {n} /\ r.containers[n] = c
      /\ \A j \in Conts : r.containers[j] = pod.containers[j]
  BY <1>1, <1>3, <1>4 DEF OneContainerMore
<1>7. /\ IsPod(s) /\ s.annotation = submitted.annotation /\ s.volumes = submitted.volumes
      /\ DOMAIN s.containers = Conts \cup {n} /\ s.containers[n] = c /\ n \notin Conts
      /\ \A j \in Conts : s.containers[j] = submitted.containers[j]
  BY <1>1, <1>3, <1>5 DEF OneContainerMore
<1>8. Conts' = Conts \cup {n}
  BY <1>3, <1>7 DEF Conts
<1>9. PinningPatchNeeded(pod, c) <=> PinningPatchNeeded(submitted, c)
  BY <1>1 DEF PinningPatchNeeded, Annotated
<1>10. ListsThere(r) <=> ListsThere(s)
  BY <1>1, <1>4, <1>5, <1>9 DEF Provided, SameNeeds
<1>11. \A j \in Conts : submitted.containers[j].name # c.name
  <2>1. ASSUME NEW j \in Conts
        PROVE  submitted.containers[j].name # c.name
    <3>1. pod.containers[j] \in Range(pod.containers)
      BY <1>1 DEF Range
    <3>2. pod.containers[j].name = submitted.containers[j].name
      BY <1>1 DEF SameNeeds
    <3>3. QED
      BY <3>1, <3>2
  <2>2. QED
    BY <2>1
<1>12. WellFormed(s)
  <2>1. \A i, j \in DOMAIN s.containers : s.containers[i].name = s.containers[j].name => i = j
    BY <1>1, <1>7, <1>11 DEF WellFormed
  <2>2. QED
    BY <1>1, <1>2, <1>7, <2>1 DEF WellFormed
<1>13. Pinned(r, n) <=> Pinned(s, n)
  BY <1>1, <1>6, <1>7, PinnedAlike
<1>14. ASSUME NEW j \in Conts \cup {n}
       PROVE  /\ r.containers[j].name = s.containers[j].name /\ r.containers[j].limits = s.containers[j].limits
              /\ Pinned(r, j) <=> Pinned(s, j)
              /\ r.containers[j].mounts = <<>> <=> s.containers[j].mounts = <<>>
  BY <1>1, <1>4, <1>5, <1>6, <1>7, <1>13 DEF SameNeeds
<1>15. SameNeeds(pod)'
  BY <1>1, <1>3, <1>6, <1>7, <1>8, <1>14 DEF SameNeeds
<1>16. QED
  BY <1>3, <1>10, <1>12, <1>15

LEMMA EditKeepsLists ==
  ASSUME ListsInv, Edit
  PROVE  ListsInv' /\ ListsThere(submitted)
<1>1. /\ Patched /\ stored = <<>> /\ stage' = "review" /\ stored' = stored
      /\ DOMAIN pod.containers = Conts
  BY NeedsFacts DEF Edit, CallAgain, ListsInv
<1>2. WellFormed(submitted') /\ SameNeeds(pod)' /\ (ListsThere(pod') <=> ListsThere(submitted'))
  BY <1>1, SidecarKeepsLists, VarKeepsLists DEF Edit
<1>3. PatchesFindLists'
  BY <1>1 DEF PatchesFindLists
<1>4. QED
  BY <1>1, <1>2, <1>3, ListsOfPatched DEF ListsInv

\* The other steps change no patch and no Pod but for the stored one.
LEMMA ListsInvInductive ==
  ASSUME ListsInv, [Next]_vars
  PROVE  ListsInv'
<1>1. CASE Refuse
  <2>1. stage' = "refused" /\ UNCHANGED <<submitted, pod, stored, patches>>
    BY <1>1 DEF Refuse, apiVars, callVars
  <2>2. Conts' = Conts
    BY <2>1 DEF Conts
  <2>3. QED
    BY <2>1, <2>2 DEF ListsInv, SameNeeds, PatchesFindLists
<1>2. CASE Place
  <2>1. /\ Patched /\ stage' = "placed" /\ UNCHANGED <<submitted, pod>>
        /\ stored' = <<[pod |-> pod, readable |-> readable]>>
    BY <1>2 DEF Place
  <2>2. Conts' = Conts /\ stored'[1].pod = pod /\ stored' # <<>>
    BY <2>1 DEF Conts
  <2>3. QED
    BY <2>1, <2>2, ListsOfPatched DEF ListsInv, SameNeeds, PatchesFindLists
<1>3. CASE Update
  <2>1. stage = "placed" /\ stage' = "review" /\ UNCHANGED <<submitted, pod, stored>>
    BY <1>3 DEF Update, CallAgain, apiVars
  <2>2. Conts' = Conts
    BY <2>1 DEF Conts
  <2>3. QED
    BY <2>1, <2>2 DEF ListsInv, SameNeeds, PatchesFindLists
<1>4. CASE FinishUpdate
  <2>1. stored # <<>> /\ pod' = stored[1].pod /\ stage' = "placed" /\ UNCHANGED <<submitted, stored>>
    BY <1>4 DEF FinishUpdate
  <2>2. Conts' = Conts
    BY <2>1 DEF Conts
  <2>3. QED
    BY <2>1, <2>2 DEF ListsInv, SameNeeds, PatchesFindLists
<1>5. CASE UNCHANGED vars
  <2>1. UNCHANGED <<stage, submitted, pod, stored, patches>>
    BY <1>5 DEF vars, apiVars, callVars
  <2>2. Conts' = Conts /\ VolumesAt' = VolumesAt
    BY <2>1 DEF Conts, VolumesAt
  <2>3. PatchesFindLists'
    BY <2>1, <2>2 DEF ListsInv, PatchesFindLists, PatchOfList
  <2>4. QED
    BY <2>1, <2>2, <2>3 DEF ListsInv, SameNeeds
<1>6. QED
  BY <1>1, <1>2, <1>3, <1>4, <1>5, MutateKeepsLists, ApplyPatchKeepsLists, EditKeepsLists DEF Next

-----------------------------------------------------------------------------
(* The theorems.                                                            *)

\* Only others add containers and variables, so that what is free of the webhook's names
\* now was so before, and had the lists if it has them now.
LEMMA OrdinaryBefore ==
  ASSUME ListsInv, [Next]_vars, NamesFree(submitted'), ListsThere(submitted')
  PROVE  NamesFree(submitted) /\ ListsThere(submitted)
<1>1. CASE Edit
  <2>1. ListsThere(submitted) /\ WellFormed(submitted) /\ SameNeeds(pod)
    BY <1>1, EditKeepsLists DEF ListsInv
  <2>2. IsPod(submitted) /\ DOMAIN pod.containers = Conts /\ DOMAIN submitted.containers = Conts
    BY <2>1, NeedsFacts
  <2>3. PICK s : s = submitted'
    OBVIOUS
  <2>4. /\ s.volumes = submitted.volumes
        /\ \A j \in Conts : /\ j \in DOMAIN s.containers
                            /\ Fresh(s.containers[j]) => Fresh(submitted.containers[j])
    <3>1. CASE \E c \in Sidecars : submitted' = WithSidecar(submitted, c)
      <4>1. PICK c \in Sidecars : s = WithSidecar(submitted, c)
        BY <2>3, <3>1
      <4>2. OneContainerMore(s, submitted, c)
        BY <2>2, <4>1, PodsAssumption, PodWithSidecar
      <4>3. QED
        BY <2>2, <4>2 DEF OneContainerMore
    <3>2. CASE \E i \in DOMAIN pod.containers : submitted' = WithVar(submitted, i)
      <4>1. PICK i \in Conts : s = WithVar(submitted, i)
        BY <2>2, <2>3, <3>2
      <4>2. OneContainer(s, submitted, i, s.containers[i])
            /\ WithOneVar(s.containers[i], submitted.containers[i], InjectedVar)
        BY <2>2, <4>1, PodWithVar
      <4>3. Fresh(s.containers[i]) => Fresh(submitted.containers[i])
        BY <4>2 DEF WithOneVar, OneVarMore, Fresh
      <4>4. QED
        BY <2>2, <4>2, <4>3 DEF OneContainer
    <3>3. QED
      BY <1>1, <3>1, <3>2 DEF Edit
  <2>5. NamesFree(submitted)
    <3>1. NamesFree(s)
      BY <2>3 DEF NamesFree
    <3>2. Range(submitted.volumes) \cap {"podinfo", "hostbin"} = {}
      BY <2>4, <3>1 DEF NamesFree
    <3>3. ASSUME NEW j \in DOMAIN submitted.containers
          PROVE  Fresh(submitted.containers[j])
      <4>1. j \in DOMAIN s.containers /\ (Fresh(s.containers[j]) => Fresh(submitted.containers[j]))
        BY <2>2, <2>4
      <4>2. Fresh(s.containers[j])
        BY <3>1, <4>1, Zenon DEF NamesFree
      <4>3. QED
        BY <4>1, <4>2
    <3>4. QED
      BY <3>2, <3>3, Zenon DEF NamesFree
  <2>6. QED
    BY <2>1, <2>5
<1>2. CASE ~Edit
  <2>1. submitted' = submitted
    BY <1>2 DEF Next, Refuse, Mutate, ApplyPatch, Place, Update, FinishUpdate, vars, apiVars
  <2>2. QED
    BY <2>1
<1>3. QED
  BY <1>1, <1>2

\* AdmissionInv is inductive: it holds initially, and every call of the webhook,
\* every applied patch, every addition by others and every update keeps it.
THEOREM AdmissionInvariant == Spec => []AdmissionInv
<1>1. Init => AdmissionInv
  BY ListsInit, OrdinaryInit DEF AdmissionInv
<1>2. ASSUME AdmissionInv, [Next]_vars
      PROVE  AdmissionInv'
  <2>1. ListsInv /\ ListsInv'
    BY <1>2, ListsInvInductive DEF AdmissionInv
  <2>2. ASSUME NamesFree(submitted'), ListsThere(submitted')
        PROVE  OrdinaryInv'
    <3>1. OrdinaryInv
      BY <1>2, <2>1, <2>2, OrdinaryBefore DEF AdmissionInv
    <3>2. ProperPod(submitted')
      BY <2>1, <2>2 DEF ListsInv, ProperPod
    <3>3. QED
      BY <1>2, <3>1, <3>2, RefuseKeeps, MutateKeeps, ApplyPatchKeeps, EditKeeps, PlaceKeeps, UpdateKeeps,
         FinishUpdateKeeps, StutterKeeps DEF Next
  <2>3. QED
    BY <2>1, <2>2 DEF AdmissionInv
<1>3. QED
  BY <1>1, <1>2, PTL DEF Spec

\* The patches that mutatePods returns fit the objects that they are applied to, except
\* for the Pods without a list that patchContainerForPinning or patchVolumesForPinning
\* appends to: these fail, and only these.
THEOREM EveryPatchApplies == Spec => []PatchesApply
<1>1. ASSUME ListsInv
      PROVE  PatchesApply
  <2>1. stage = "broken" => ~ListsThere(submitted)
    BY <1>1 DEF ListsInv
  <2>2. Patched \/ stage = "placed" => ListsThere(submitted)
    BY <1>1, ListsOfPatched DEF ListsInv
  <2>3. QED
    BY <2>1, <2>2 DEF PatchesApply
<1>2. AdmissionInv => PatchesApply
  BY <1>1 DEF AdmissionInv
<1>3. QED
  BY AdmissionInvariant, <1>2, PTL

\* A Pod with all its patches had the lists; without names of the webhook's it is
\* ordinary.
LEMMA PatchedIsOrdinary ==
  ASSUME AdmissionInv, NamesFree(submitted), Patched \/ stage = "placed"
  PROVE  OrdinaryInv
<1>1. ListsThere(submitted)
  BY ListsOfPatched DEF AdmissionInv, ListsInv
<1>2. QED
  BY <1>1 DEF AdmissionInv

\* After any calls and additions a pinned container has everything once.
THEOREM StartersAreReady == Spec => []StarterReady
<1>1. ASSUME OrdinaryInv, Patched \/ stage = "placed", NEW i \in Conts, Pinned(submitted, i)
      PROVE  LET was == submitted.containers[i]
                 is  == pod.containers[i]
             IN  /\ is.command = <<ProcessStarter>>
                 /\ is.args = IF Annotated(submitted, was) THEN was.args ELSE was.command \o was.args
                 /\ VarOnce(is, "CONTAINER_NAME", <<was.name>>)
                 /\ IF PoolTypes(was) = <<DefaultPoolID>> THEN ~HasVar(is, "CPU_POOLS")
                    ELSE VarOnce(is, "CPU_POOLS", PoolTypes(was))
                 /\ Range(was.env) \subseteq Range(is.env)
                 /\ {"podinfo", "hostbin"} \cup Range(was.mounts) = Range(is.mounts)
                 /\ {"podinfo", "hostbin"} \cup Range(submitted.volumes) = Range(pod.volumes)
  <2> DEFINE was == submitted.containers[i]
             is  == pod.containers[i]
  <2>1. FieldsPatched(submitted, i, is, {})
    BY <1>1, NoneLeft
  <2>2. PoolTypes(was) = <<DefaultPoolID>> <=> ~Pooled(submitted, i)
    BY TypesDiffer DEF PoolTypes, Pooled
  <2>3. is.args = IF Annotated(submitted, was) THEN was.args ELSE was.command \o was.args
    BY <1>1, <2>1 DEF FieldsPatched, Moved, MovedArgs
  <2>4. /\ is.command = <<ProcessStarter>>
        /\ VarOnce(is, "CONTAINER_NAME", <<was.name>>)
        /\ IF PoolTypes(was) = <<DefaultPoolID>> THEN ~HasVar(is, "CPU_POOLS")
           ELSE VarOnce(is, "CPU_POOLS", PoolTypes(was))
        /\ Range(was.env) \subseteq Range(is.env)
        /\ {"podinfo", "hostbin"} \cup Range(was.mounts) = Range(is.mounts)
    BY <1>1, <2>1, <2>2 DEF FieldsPatched
  <2>5. /\ SomePinned
        /\ Range(submitted.volumes) \subseteq Range(pod.volumes)
        /\ Range(pod.volumes) \ Range(submitted.volumes) = IF SomePinned THEN {"podinfo", "hostbin"} ELSE {}
    BY <1>1, NoneLeft DEF SomePinned
  <2>6. QED
    BY <2>3, <2>4, <2>5
<1>2. AdmissionInv => StarterReady
  BY <1>1, PatchedIsOrdinary DEF StarterReady, Pinned, Conts
<1>3. QED
  BY AdmissionInvariant, <1>2, PTL

\* A later call leaves a stored Pod's containers as they are, but for limits that
\* depend on what the call could read or on a map's order.
THEOREM UpdatesChangeNothing == Spec => []UpdateChangesNothing
<1>1. ASSUME OrdinaryInv, Patched, stored # <<>>, NEW i \in Conts
      PROVE  LET c == pod.containers[i]
             IN  \/ c = stored[1].pod.containers[i]
                 \/ MayDiffer(c, quota, readable, stored[1].readable)
  <2> DEFINE c == pod.containers[i]
             s == stored[1].pod.containers[i]
  <2>1. /\ IsPod(stored[1].pod) /\ DOMAIN stored[1].pod.containers = Conts
        /\ OnlyItsLimit(c, s, Left(i), MayDiffer(c, quota, readable, stored[1].readable))
    BY <1>1 DEF OrdinaryInv, StoredStays
  <2>2. IsContainer(s)
    BY <2>1 DEF IsPod
  <2>3. c = [s EXCEPT !.cpu = c.cpu]
    BY <2>1 DEF OnlyItsLimit
  <2>4. c.cpu = s.cpu \/ MayDiffer(c, quota, readable, stored[1].readable)
    BY <2>1 DEF OnlyItsLimit
  <2> HIDE DEF c, s
  <2>5. c.cpu = s.cpu => c = s
    BY <2>2, <2>3, ContainerFields
  <2>6. QED
    BY <2>4, <2>5 DEF c, s
<1>2. OrdinaryInv /\ Patched /\ stored # <<>> => pod.volumes = stored[1].pod.volumes
  BY DEF OrdinaryInv, StoredStays
<1>3. AdmissionInv => UpdateChangesNothing
  BY <1>1, <1>2, PodFacts, PatchedIsOrdinary DEF UpdateChangesNothing, MayDiffer
<1>4. QED
  BY AdmissionInvariant, <1>3, PTL

-----------------------------------------------------------------------------
(* On the node.                                                             *)

\* The devices that the kubelet gave container i of the pool n.
GrantOf(i, n) == IF <<i, n>> \in DOMAIN grant THEN grant[<<i, n>>] ELSE {}

\* A container of a placed Pod: its pools are the node's, and it has its devices.
Served(i, c) ==
  /\ IsContainer(c) /\ OneExclusivePool(c)
  /\ \A n \in DOMAIN c.limits :
       /\ n \in DOMAIN conf /\ n \in Seq(STRING) /\ c.limits[n] \in Nat
       /\ DeterminePoolType(n) \in {SharedPoolID, ExclusivePoolID}
       /\ c.limits[n] <= AdvertisedDevices(conf, n)
       /\ DeterminePoolType(n) = ExclusivePoolID =>
            /\ GrantOf(i, n) \subseteq conf[n].cpus
            /\ Cardinality(GrantOf(i, n)) = c.limits[n]
            /\ IsFiniteSet(GrantOf(i, n))

LEMMA PlacedConf ==
  ASSUME OrdinaryInv, stage = "placed"
  PROVE  /\ stored # <<>> /\ UnambiguousNames(conf) /\ \E x \in Range(Confs) : conf = x.pools
         /\ \A n \in DOMAIN conf : /\ IsFiniteSet(conf[n].cpus) /\ Cardinality(conf[n].cpus) \in Nat
                                   /\ n \in Seq(STRING)
         /\ DOMAIN grant = SubmittedClaims
<1>1. stored # <<>>
  BY DEF OrdinaryInv
<1>2. (\E x \in Range(Confs) : conf = x.pools) /\ DOMAIN grant = SubmittedClaims
  BY <1>1 DEF OrdinaryInv, Granted
<1>3. QED
  BY <1>1, <1>2, ConfFacts

LEMMA PlacedContainer ==
  ASSUME OrdinaryInv, stage = "placed", NEW i \in Conts
  PROVE  Served(i, pod.containers[i])
<1> DEFINE c == pod.containers[i]
           was == submitted.containers[i]
<1>1. IsContainer(c) /\ c.limits = was.limits
  BY PodFacts
<1>2. OneExclusivePool(was)
  BY DEF OrdinaryInv, PodShape, ProperPod, WellFormed, Conts
<1>3. OneExclusivePool(c)
  BY <1>1, <1>2 DEF OneExclusivePool
<1>4. \A n \in DOMAIN was.limits : /\ n \in DOMAIN conf /\ DeterminePoolType(n) # DefaultPoolID
                                   /\ was.limits[n] <= AdvertisedDevices(conf, n)
  BY PlacedConf DEF OrdinaryInv, Granted
<1>5. ASSUME NEW n \in DOMAIN was.limits, DeterminePoolType(n) = ExclusivePoolID
      PROVE  /\ GrantOf(i, n) \subseteq conf[n].cpus
             /\ Cardinality(GrantOf(i, n)) = was.limits[n]
             /\ IsFiniteSet(GrantOf(i, n))
  <2>1. <<i, n>> \in SubmittedClaims
    BY <1>5 DEF SubmittedClaims
  <2>2. PICK k : k = <<i, n>>
    OBVIOUS
  <2>3. GrantOf(i, n) = grant[k] /\ k \in SubmittedClaims /\ k[1] = i /\ k[2] = n
    BY <2>1, <2>2, PlacedConf DEF GrantOf
  <2>4. grant[k] \subseteq conf[k[2]].cpus /\ Cardinality(grant[k]) = submitted.containers[k[1]].limits[k[2]]
    BY <2>3, PlacedConf DEF OrdinaryInv, Granted
  <2>5. GrantOf(i, n) \subseteq conf[n].cpus /\ Cardinality(GrantOf(i, n)) = was.limits[n]
    BY <2>3, <2>4
  <2>6. IsFiniteSet(GrantOf(i, n))
    BY <1>4, <2>5, PlacedConf, FS_Subset
  <2>7. QED
    BY <2>5, <2>6
<1>6. \A n \in DOMAIN was.limits : /\ n \in Seq(STRING) /\ was.limits[n] \in Nat
                                   /\ DeterminePoolType(n) \in {SharedPoolID, ExclusivePoolID}
  BY <1>1, <1>4, PlacedConf DEF DeterminePoolType, IsContainer
<1> HIDE DEF c, was
<1>7. QED
  BY <1>1, <1>3, <1>4, <1>5, <1>6 DEF Served, c

\* The CPUs of S by their value of f.
ByValue(S, f) == [x \in {f[cpu] : cpu \in S} |-> {cpu \in S : f[cpu] = x}]

LEMMA UnionByValue ==
  ASSUME NEW S, NEW f
  PROVE  UNION Range(ByValue(S, f)) = S
<1> DEFINE g == [x \in {f[cpu] : cpu \in S} |-> {cpu \in S : f[cpu] = x}]
<1>1. \A cpu \in S : f[cpu] \in DOMAIN g /\ cpu \in g[f[cpu]]
  OBVIOUS
<1>2. \A x \in DOMAIN g : g[x] \subseteq S
  OBVIOUS
<1> HIDE DEF g
<1>3. UNION Range(g) = S
  BY <1>1, <1>2 DEF Range
<1>4. QED
  BY <1>3 DEF g, ByValue

\* An entry of the checkpoint in the format of old kubelets.
OldEntry(k) == [pod |-> "pod", cont |-> k[1], pool |-> k[2], devices |-> grant[k]]

\* The controller reads from the checkpoint the devices that the kubelet gave.
LEMMA DevicesRecorded ==
  ASSUME OrdinaryInv, stage = "placed", NEW i, NEW n
  PROVE  AllocatedDevices(TranslateNewCheckpointToOld(Checkpoint), "pod", i, n) = GrantOf(i, n)
<1> DEFINE perNode(k) == ByValue(grant[k], NUMANodeOf)
           entry(k) == [pod |-> "pod", cont |-> k[1], pool |-> k[2], devices |-> perNode(k)]
           Old == {OldEntry(k) : k \in DOMAIN grant}
<1>1. \A k : UNION Range(perNode(k)) = grant[k]
  BY UnionByValue
<1>2. ASSUME NEW k
      PROVE  [entry(k) EXCEPT !.devices = UNION Range(@)] = OldEntry(k)
  <2>1. PICK p : p = perNode(k)
    OBVIOUS
  <2>2. UNION Range(p) = grant[k]
    BY <1>1, <2>1
  <2>3. entry(k) = [pod |-> "pod", cont |-> k[1], pool |-> k[2], devices |-> p]
    BY <2>1
  <2>4. [entry(k) EXCEPT !.devices = UNION Range(@)]
          = [pod |-> "pod", cont |-> k[1], pool |-> k[2], devices |-> UNION Range(p)]
    <3> HIDE DEF entry
    <3>1. QED
      BY <2>3
  <2>5. QED
    BY <2>2, <2>4 DEF OldEntry
<1>3. TranslateNewCheckpointToOld(Checkpoint) = Old
  <2>1. Checkpoint = {entry(k) : k \in DOMAIN grant}
    BY DEF Checkpoint, ByValue
  <2> HIDE DEF entry
  <2>2. TranslateNewCheckpointToOld(Checkpoint)
          = {[entry(k) EXCEPT !.devices = UNION Range(@)] : k \in DOMAIN grant}
    BY <2>1 DEF TranslateNewCheckpointToOld
  <2>3. QED
    BY <1>2, <2>2
<1>4. \A k \in DOMAIN grant : k[1] = i /\ k[2] = n <=> k = <<i, n>>
  BY PlacedConf DEF SubmittedClaims
<1>5. \A k : /\ OldEntry(k).pod = "pod" /\ OldEntry(k).cont = k[1] /\ OldEntry(k).pool = k[2]
             /\ OldEntry(k).devices = grant[k]
  BY DEF OldEntry
<1>6. {e \in Old : e.pod = "pod" /\ e.cont = i /\ e.pool = n} = {OldEntry(k) : k \in {l \in DOMAIN grant : l = <<i, n>>}}
  BY <1>4, <1>5
<1>7. AllocatedDevices(Old, "pod", i, n) = UNION {grant[k] : k \in {l \in DOMAIN grant : l = <<i, n>>}}
  <2>1. AllocatedDevices(Old, "pod", i, n)
          = UNION {e.devices : e \in {OldEntry(k) : k \in {l \in DOMAIN grant : l = <<i, n>>}}}
    BY <1>6 DEF AllocatedDevices
  <2> HIDE DEF Old
  <2>2. QED
    BY <1>5, <2>1
<1>8. UNION {grant[k] : k \in {l \in DOMAIN grant : l = <<i, n>>}} = GrantOf(i, n)
  BY DEF GrantOf
<1>9. QED
  BY <1>3, <1>7, <1>8

\* The CPUs of some processes are at least those of each of them.
LEMMA SumOfProcesses ==
  ASSUME NEW processes \in Seq(ProcessEntry), NaturalCounts(processes), NEW pools
  PROVE  /\ CpusOfProcesses(processes, pools) \in Nat
         /\ \A k \in DOMAIN processes :
              processes[k].pool \in pools => processes[k].cpus <= CpusOfProcesses(processes, pools)
<1> DEFINE f == [k \in DOMAIN processes |-> IF processes[k].pool \in pools THEN processes[k].cpus ELSE 0]
<1>1. CpusOfProcesses(processes, pools) = SumFunctionOnSet(f, DOMAIN f)
  BY DEF CpusOfProcesses, SumFunction
<1>2. DOMAIN f = 1..Len(processes) /\ Len(processes) \in Nat
  OBVIOUS
<1>3. IsFiniteSet(DOMAIN f)
  BY <1>2, FS_Interval
<1>4. \A k \in DOMAIN processes : processes[k].cpus \in Nat
  <2>1. \A k \in DOMAIN processes : processes[k] \in ProcessEntry /\ processes[k] \in Range(processes)
    BY DEF Range
  <2>2. \A k \in DOMAIN processes : processes[k].cpus \in Int /\ processes[k].cpus >= 0
    BY <2>1 DEF ProcessEntry, NaturalCounts
  <2>3. QED
    BY <2>2
<1>5. \A k \in DOMAIN f : f[k] \in Nat
  BY <1>4
<1>6. \A k \in DOMAIN processes : processes[k].pool \in pools => f[k] = processes[k].cpus /\ k \in DOMAIN f
  OBVIOUS
<1> HIDE DEF f
<1>7. SumFunctionOnSet(f, DOMAIN f) \in Nat
  BY <1>3, <1>5, SumOfNats
<1>8. \A k \in DOMAIN f : f[k] <= SumFunctionOnSet(f, DOMAIN f)
  BY <1>3, <1>5, SumAtLeast
<1>9. QED
  BY <1>1, <1>6, <1>7, <1>8

\* Decode's map has the processes of the last entry for a container.
LEMMA LastEntry ==
  ASSUME NEW entries \in Seq(AnnotationEntry), NEW name \in ContainerNames(entries)
  PROVE  \E k \in DOMAIN entries : /\ Processes(entries, name) = entries[k].processes
                                   /\ entries[k].name = name /\ entries[k] \in AnnotationEntry
<1> DEFINE of == {k \in DOMAIN entries : entries[k].name = name}
<1>1. DOMAIN entries = 1..Len(entries) /\ Len(entries) \in Nat
  OBVIOUS
<1>2. of # {} /\ of \subseteq Nat
  BY <1>1 DEF ContainerNames
<1>3. IsFiniteSet(of)
  <2>1. IsFiniteSet(1..Len(entries)) /\ of \subseteq 1..Len(entries)
    BY <1>1, FS_Interval
  <2>2. QED
    BY <2>1, FS_Subset
<1>4. Max(of) \in of
  BY <1>2, <1>3, MaxOfSet
<1>5. \A k \in DOMAIN entries : entries[k] \in AnnotationEntry
  OBVIOUS
<1>6. QED
  BY <1>4, <1>5 DEF Processes

\* What an accepted annotation says of a container.
LEMMA AcceptedEntry ==
  ASSUME OrdinaryInv, stage = "placed", NEW i \in Conts, NEW entries \in Range(submitted.annotation),
         NEW name, name = submitted.containers[i].name, name \in ContainerNames(entries)
  PROVE  /\ Processes(entries, name) \in Seq(ProcessEntry)
         /\ Processes(entries, name) # <<>>
         /\ \A p \in Range(Processes(entries, name)) : p.cpus # 0
         /\ \A pool \in ContainerPools(entries, name) :
              /\ pool \in DOMAIN submitted.containers[i].limits
              /\ ContainerTotalCPURequest(entries, pool, name) <= 2 * submitted.containers[i].limits[pool]
<1> DEFINE ps == Processes(entries, name)
<1>1. entries \in Seq(AnnotationEntry)
  BY DEF OrdinaryInv, PodShape, ProperPod, WellFormed, IsAnnotation
<1>2. ~DecodeFails(entries) /\ ValidAnnotation(submitted.containers, entries)
  BY DEF OrdinaryInv, AnnotationAccepted
<1>3. ps # <<>> /\ \A p \in Range(ps) : p.cpus # 0
  BY <1>2 DEF DecodeFails
<1>4. ps \in Seq(ProcessEntry)
  <2>1. PICK k \in DOMAIN entries : ps = entries[k].processes /\ entries[k] \in AnnotationEntry
    BY <1>1, LastEntry
  <2>2. QED
    BY <2>1 DEF AnnotationEntry
<1>5. ASSUME NEW pool \in ContainerPools(entries, name)
      PROVE  /\ pool \in DOMAIN submitted.containers[i].limits
             /\ ContainerTotalCPURequest(entries, pool, name) <= 2 * submitted.containers[i].limits[pool]
  <2>1. PICK c \in Range(submitted.containers) :
          /\ c.name = name
          /\ pool \in DOMAIN c.limits
          /\ ContainerTotalCPURequest(entries, pool, name) <= 2 * c.limits[pool]
    BY <1>2 DEF ValidAnnotation
  <2>2. PICK j \in Conts : c = submitted.containers[j]
    BY DEF Range, Conts
  <2>3. i = j
    BY <2>1, <2>2 DEF OrdinaryInv, PodShape, ProperPod, WellFormed, Conts
  <2>4. QED
    BY <2>1, <2>2, <2>3
<1>6. QED
  BY <1>3, <1>4, <1>5

\* A container that an accepted annotation without negative numbers names requests CPUs.
LEMMA AnnotatedIsPooled ==
  ASSUME OrdinaryInv, stage = "placed", NEW i \in Conts, NEW entries \in Range(submitted.annotation),
         NEW name, name = submitted.containers[i].name, name \in ContainerNames(entries),
         NaturalCounts(Processes(entries, name))
  PROVE  Pooled(submitted, i)
<1> DEFINE was == submitted.containers[i]
<1> DEFINE ps == Processes(entries, name)
<1>1. /\ ps \in Seq(ProcessEntry) /\ ps # <<>>
      /\ \A p \in Range(ps) : p.cpus # 0
      /\ \A pool \in ContainerPools(entries, name) :
           pool \in DOMAIN was.limits /\ ContainerTotalCPURequest(entries, pool, name) <= 2 * was.limits[pool]
  BY AcceptedEntry
<1> DEFINE pool == ps[1].pool
<1>2. 1 \in DOMAIN ps /\ ps[1] \in Range(ps) /\ ps[1].cpus \in Nat
  <2> HIDE DEF ps
  <2>1. 1 \in DOMAIN ps /\ ps[1] \in ProcessEntry
    BY <1>1
  <2>2. QED
    BY <2>1 DEF Range, ProcessEntry, NaturalCounts, ps
<1>3. pool \in ContainerPools(entries, name)
  BY <1>2 DEF ContainerPools
<1>4. ContainerTotalCPURequest(entries, pool, name) \in Nat
      /\ ps[1].cpus <= ContainerTotalCPURequest(entries, pool, name)
  <2> HIDE DEF ps
  <2>1. pool \in {pool}
    OBVIOUS
  <2>2. QED
    BY <1>1, <1>2, <2>1, SumOfProcesses DEF ContainerTotalCPURequest, ps
<1>5. ps[1].cpus # 0
  BY <1>1, <1>2
<1> HIDE DEF ps, pool
<1>6. /\ IsContainer(was) /\ was.limits = pod.containers[i].limits /\ Served(i, pod.containers[i])
  BY PodFacts, PlacedContainer
<1>7. pool \in DOMAIN was.limits /\ was.limits[pool] \in Nat /\ was.limits[pool] > 0
  <2>1. pool \in DOMAIN was.limits /\ was.limits[pool] \in Nat
    BY <1>1, <1>3, <1>6 DEF Served
  <2>2. ContainerTotalCPURequest(entries, pool, name) <= 2 * was.limits[pool]
    BY <1>1, <1>3
  <2>3. QED
    BY <1>2, <1>4, <1>5, <2>1, <2>2
<1>8. DeterminePoolType(pool) \in {SharedPoolID, ExclusivePoolID}
  BY <1>6, <1>7 DEF Served
<1>9. CpuRequest(was, DeterminePoolType(pool)) > 0
  BY <1>6, <1>7, <1>8, RequestBounds DEF PoolsOf
<1>10. QED
  BY <1>8, <1>9 DEF Pooled, SharedRequest, ExclusiveRequest

\* The numbers of CPUs that the annotation names for container i are natural, or it
\* requests CPUs.
CountedOrPooled(i) == Counted(submitted) \/ Pooled(submitted, i)

\* A container that is pinned has CPUs of some pool.
LEMMA PinnedIsPooled ==
  ASSUME OrdinaryInv, stage = "placed", NEW i \in Conts, Pinned(submitted, i), CountedOrPooled(i)
  PROVE  Pooled(submitted, i)
<1> DEFINE was == submitted.containers[i]
<1>1. CASE ExclusiveRequest(was) > 0
  BY <1>1 DEF Pooled
<1>2. CASE Annotated(submitted, was) /\ Counted(submitted)
  <2>1. PICK entries \in Range(submitted.annotation) : was.name \in ContainerNames(entries)
    BY <1>2 DEF Annotated, Range
  <2>2. PICK name : name = was.name
    OBVIOUS
  <2>3. NaturalCounts(Processes(entries, name))
    <3>1. entries \in Seq(AnnotationEntry)
      BY <2>1 DEF OrdinaryInv, PodShape, ProperPod, WellFormed, IsAnnotation
    <3>2. PICK k \in DOMAIN entries : Processes(entries, name) = entries[k].processes
      BY <2>1, <2>2, <3>1, LastEntry
    <3>3. QED
      BY <1>2, <3>2 DEF Counted
  <2>4. QED
    BY <2>1, <2>2, <2>3, AnnotatedIsPooled
<1>3. QED
  BY <1>1, <1>2 DEF Pinned, PinningPatchNeeded, CountedOrPooled

\* The pools whose CPUs the starter in a container reads.
PoolsRead(c) == {n \in DOMAIN c.limits : CpuRequest(c, DeterminePoolType(n)) > 0}

\* The starter's environment names the CPUs of the pools that are asked for.
LEMMA EnvironmentRead ==
  ASSUME OrdinaryInv, stage = "placed", NEW i \in Conts, NEW c, c = pod.containers[i],
         Pooled(submitted, i)
  PROVE  /\ StarterEnv(i) = [n \in PoolsRead(c) |-> Allocate(conf, HTMap, n, GrantOf(i, n))]
         /\ \E n \in PoolsRead(c) : TRUE
<1> DEFINE was == submitted.containers[i]
           types == UNION {Range(var.value) : var \in {v \in Range(c.env) : v.name = "CPU_POOLS"}}
<1>1. Served(i, c) /\ c.limits = was.limits /\ IsContainer(c)
  BY PlacedContainer, PodFacts
<1>2. SharedRequest(c) = SharedRequest(was) /\ ExclusiveRequest(c) = ExclusiveRequest(was)
      /\ PoolTypes(c) = PoolTypes(was)
  BY <1>1, SameRequests
<1>3. VarOnce(c, "CPU_POOLS", PoolTypes(c))
  BY <1>2, NoneLeft DEF FieldsPatched
<1>4. types = Range(PoolTypes(c))
  <2>1. PICK k \in DOMAIN c.env : /\ c.env[k] = [name |-> "CPU_POOLS", value |-> PoolTypes(c)]
                                  /\ \A l \in DOMAIN c.env : c.env[l].name = "CPU_POOLS" => l = k
    BY <1>3 DEF VarOnce
  <2>2. {v \in Range(c.env) : v.name = "CPU_POOLS"} = {c.env[k]} /\ c.env[k].value = PoolTypes(c)
    BY <2>1 DEF Range
  <2>3. QED
    BY <2>2
<1>5. /\ SharedPoolID \in Range(PoolTypes(c)) <=> SharedRequest(c) > 0
      /\ ExclusivePoolID \in Range(PoolTypes(c)) <=> ExclusiveRequest(c) > 0
  <2>1. SharedRequest(c) > 0 \/ ExclusiveRequest(c) > 0
    BY <1>2 DEF Pooled
  <2>2. /\ Range(<<ExclusivePoolID, SharedPoolID>>) = {ExclusivePoolID, SharedPoolID}
        /\ Range(<<ExclusivePoolID>>) = {ExclusivePoolID}
        /\ Range(<<SharedPoolID>>) = {SharedPoolID}
    BY DEF Range
  <2>3. QED
    BY <2>1, <2>2, TypesDiffer DEF PoolTypes
<1>6. \A n \in DOMAIN c.limits : DeterminePoolType(n) \in Range(PoolTypes(c))
                                   <=> CpuRequest(c, DeterminePoolType(n)) > 0
  BY <1>1, <1>5 DEF Served, SharedRequest, ExclusiveRequest
<1>7. {n \in DOMAIN c.limits : DeterminePoolType(n) \in types} = PoolsRead(c)
  BY <1>4, <1>6 DEF PoolsRead
<1>8. StarterEnv(i) = [n \in {m \in DOMAIN c.limits : DeterminePoolType(m) \in types} |->
                         Allocate(conf, HTMap, n, GrantOf(i, n))]
  BY DEF StarterEnv, GrantOf
<1>9. \E n \in PoolsRead(c) : TRUE
  <2>1. \E type \in {SharedPoolID, ExclusivePoolID} : CpuRequest(c, type) > 0
    BY <1>2 DEF Pooled, SharedRequest, ExclusiveRequest
  <2>2. PICK type \in {SharedPoolID, ExclusivePoolID} : CpuRequest(c, type) > 0
    BY <2>1
  <2>3. PICK n \in PoolsOf(c, type) : c.limits[n] > 0
    BY <1>1, <2>2, RequestBounds
  <2>4. QED
    BY <2>2, <2>3 DEF PoolsOf, PoolsRead
<1> HIDE DEF types
<1>10. QED
  BY <1>7, <1>8, <1>9

\* On the node, only containers that needed pinning have the starter, and they have pools.
LEMMA StartedIsPooled ==
  ASSUME OrdinaryInv, stage = "placed", NEW i \in Conts, Started(i), CountedOrPooled(i)
  PROVE  Pinned(submitted, i) /\ Pooled(submitted, i)
<1>1. FieldsPatched(submitted, i, pod.containers[i], {}) /\ Fresh(submitted.containers[i])
  BY NoneLeft, PodFacts
<1>2. Pinned(submitted, i)
  BY <1>1 DEF FieldsPatched, Started, Fresh
<1>3. QED
  BY <1>2, PinnedIsPooled

\* The pools of the types that a starter reads are asked for with positive quantities.
LEMMA QuantityOfRead ==
  ASSUME NEW i, NEW c, Served(i, c), SharesCounted(c), NEW n \in PoolsRead(c)
  PROVE  c.limits[n] > 0
<1>1. n \in DOMAIN c.limits /\ CpuRequest(c, DeterminePoolType(n)) > 0
      /\ DeterminePoolType(n) \in {SharedPoolID, ExclusivePoolID}
  BY DEF PoolsRead, Served
<1>2. CASE DeterminePoolType(n) = SharedPoolID
  BY <1>1, <1>2 DEF SharesCounted
<1>3. CASE DeterminePoolType(n) = ExclusivePoolID
  <2>1. IsContainer(c) /\ n \in PoolsOf(c, ExclusivePoolID)
    BY <1>1, <1>3 DEF Served, PoolsOf
  <2>2. \A m \in PoolsOf(c, ExclusivePoolID) : m = n
    BY <1>3, <2>1 DEF Served, OneExclusivePool, PoolsOf
  <2>3. CpuRequest(c, ExclusivePoolID) = c.limits[n]
    BY <2>1, <2>2, RequestOfOne
  <2>4. QED
    BY <1>1, <1>3, <2>3
<1>4. QED
  BY <1>1, <1>2, <1>3

\* What the plugin tells a container of a pool that it asks for is not empty.
LEMMA SomethingAllocated ==
  ASSUME OrdinaryInv, stage = "placed", NEW i, NEW c, Served(i, c), NEW n \in DOMAIN c.limits,
         c.limits[n] > 0
  PROVE  Allocate(conf, HTMap, n, GrantOf(i, n)) # {}
<1>1. /\ n \in DOMAIN conf /\ DeterminePoolType(n) \in {SharedPoolID, ExclusivePoolID}
      /\ c.limits[n] \in Nat /\ c.limits[n] <= AdvertisedDevices(conf, n)
      /\ DeterminePoolType(n) = ExclusivePoolID => Cardinality(GrantOf(i, n)) = c.limits[n]
  BY DEF Served
<1>2. Cardinality({}) = 0
  BY FS_EmptySet
<1>3. CASE DeterminePoolType(n) = SharedPoolID
  <2>1. AdvertisedDevices(conf, n) = 1000 * Cardinality(conf[n].cpus) /\ Cardinality(conf[n].cpus) \in Nat
    BY <1>1, <1>3, PlacedConf DEF AdvertisedDevices
  <2>2. conf[n].cpus # {}
    <3>1. conf[n].cpus = {} => Cardinality(conf[n].cpus) = 0
      BY <1>2
    <3>2. Cardinality(conf[n].cpus) # 0
      BY <1>1, <2>1
    <3>3. QED
      BY <3>1, <3>2
  <2>3. CpusOfType(conf, SharedPoolID) # {}
    BY <1>1, <1>3, <2>2 DEF CpusOfType
  <2>4. QED
    BY <1>3, <2>3, AllocateShared
<1>4. CASE DeterminePoolType(n) = ExclusivePoolID
  <2>1. GrantOf(i, n) # {}
    BY <1>1, <1>2, <1>4
  <2>2. UnderPolicy(conf, HTMap, n, GrantOf(i, n)) # {}
    BY <2>1 DEF UnderPolicy, AddHTSiblingsToCPUSet
  <2>3. QED
    BY <1>4, <2>2, AllocateExclusive
<1>5. QED
  BY <1>1, <1>3, <1>4

\* What a container is told of its pools is what the controller counts as its own.
LEMMA ToldIsOwn ==
  ASSUME OrdinaryInv, stage = "placed", NEW i \in Conts, NEW c, Served(i, c), SharesCounted(c),
         NEW told, told = UNION {Allocate(conf, HTMap, n, GrantOf(i, n)) : n \in PoolsRead(c)}
  PROVE  told = SharedPart(conf, DOMAIN c.limits)
                  \cup ExclusivePart(conf, HTMap, TranslateNewCheckpointToOld(Checkpoint), "pod", i, DOMAIN c.limits)
<1> DEFINE A(n) == Allocate(conf, HTMap, n, GrantOf(i, n))
           s == SharedPart(conf, DOMAIN c.limits)
           e == ExclusivePart(conf, HTMap, TranslateNewCheckpointToOld(Checkpoint), "pod", i, DOMAIN c.limits)
<1>1. e = UNION {UnderPolicy(conf, HTMap, n, GrantOf(i, n)) :
                   n \in {m \in DOMAIN c.limits : DeterminePoolType(m) = ExclusivePoolID}}
  BY DevicesRecorded DEF ExclusivePart
<1>2. /\ \A n \in DOMAIN c.limits : DeterminePoolType(n) \in {SharedPoolID, ExclusivePoolID}
      /\ IsContainer(c)
      /\ \A n \in DOMAIN c.limits : c.limits[n] \in Nat
  BY DEF Served
<1>3. /\ \A n \in DOMAIN c.limits : DeterminePoolType(n) = SharedPoolID => A(n) = CpusOfType(conf, SharedPoolID)
      /\ \A n \in DOMAIN c.limits :
           DeterminePoolType(n) = ExclusivePoolID => A(n) = UnderPolicy(conf, HTMap, n, GrantOf(i, n))
  BY AllocateShared, AllocateExclusive
<1>4. \A n \in DOMAIN c.limits : c.limits[n] <= CpuRequest(c, DeterminePoolType(n))
                                 /\ CpuRequest(c, DeterminePoolType(n)) \in Nat
  BY <1>2, RequestBounds DEF PoolsOf
<1>5. ASSUME NEW n \in DOMAIN c.limits, n \notin PoolsRead(c)
      PROVE  DeterminePoolType(n) = ExclusivePoolID /\ A(n) = {}
  <2>1. c.limits[n] = 0
    BY <1>2, <1>4, <1>5 DEF PoolsRead
  <2>2. DeterminePoolType(n) = ExclusivePoolID
    BY <1>2, <2>1 DEF SharesCounted
  <2>3. IsFiniteSet(GrantOf(i, n)) /\ Cardinality(GrantOf(i, n)) = 0
    BY <2>1, <2>2 DEF Served
  <2>4. GrantOf(i, n) = {}
    BY <2>3, FS_EmptySet
  <2>5. QED
    BY <1>3, <2>2, <2>4 DEF UnderPolicy, AddHTSiblingsToCPUSet
<1> HIDE DEF A, e
<1>6. told = UNION {A(n) : n \in DOMAIN c.limits}
  <2>1. PoolsRead(c) \subseteq DOMAIN c.limits
    BY DEF PoolsRead
  <2>2. told = UNION {A(n) : n \in PoolsRead(c)}
    BY DEF A
  <2>3. QED
    BY <1>5, <2>1, <2>2
<1>7. UNION {A(n) : n \in DOMAIN c.limits} = s \cup e
  <2>1. ASSUME NEW x \in UNION {A(n) : n \in DOMAIN c.limits}
        PROVE  x \in s \cup e
    BY <1>1, <1>2, <1>3 DEF SharedPart
  <2>2. ASSUME NEW x \in s
        PROVE  x \in UNION {A(n) : n \in DOMAIN c.limits}
    BY <1>3, <2>2 DEF SharedPart
  <2>3. ASSUME NEW x \in e
        PROVE  x \in UNION {A(n) : n \in DOMAIN c.limits}
    BY <1>1, <1>3, <2>3
  <2>4. QED
    BY <2>1, <2>2, <2>3
<1>8. QED
  BY <1>6, <1>7 DEF e

\* On the node, the starter waits for the cpuset that the controller computes.
THEOREM StartersWaitForTheirCpusets == Spec => []WaitsForItsCpuset
<1>1. ASSUME OrdinaryInv, stage = "placed", NEW i \in Conts, Started(i), SharesCounted(pod.containers[i]),
             CountedOrPooled(i)
      PROVE  /\ ExpectedCpus(StarterEnv(i)) # {}
             /\ CpusetsOf(i) = {ExpectedCpus(StarterEnv(i))}
  <2>1. PICK c : c = pod.containers[i]
    OBVIOUS
  <2>2. Served(i, c) /\ SharesCounted(c) /\ Pooled(submitted, i)
    BY <1>1, <2>1, PlacedContainer, StartedIsPooled
  <2> DEFINE A(n) == Allocate(conf, HTMap, n, GrantOf(i, n))
             requests == DOMAIN c.limits
             checkpoint == TranslateNewCheckpointToOld(Checkpoint)
             own == SharedPart(conf, requests) \cup ExclusivePart(conf, HTMap, checkpoint, "pod", i, requests)
  <2>3. StarterEnv(i) = [n \in PoolsRead(c) |-> A(n)] /\ \E n \in PoolsRead(c) : TRUE
    BY <1>1, <2>1, <2>2, EnvironmentRead
  <2>4. \A n \in PoolsRead(c) : A(n) # {}
    <3>1. \A n \in PoolsRead(c) : n \in DOMAIN c.limits /\ c.limits[n] > 0
      BY <2>2, QuantityOfRead DEF PoolsRead
    <3>2. QED
      BY <1>1, <2>2, <3>1, SomethingAllocated
  <2>5. UNION {A(n) : n \in PoolsRead(c)} = own
    BY <1>1, <2>2, ToldIsOwn
  <2> HIDE DEF A, own
  <2>6. ExpectedCpus(StarterEnv(i)) = own /\ own # {}
    BY <2>3, <2>4, <2>5 DEF ExpectedCpus
  <2>7. UnambiguousNames(conf) /\ ServableRequests(conf, requests)
    BY <1>1, <2>2, PlacedConf DEF Served, OneExclusivePool, ServableRequests
  <2>8. DetermineCorrectCpuset(conf, HTMap, checkpoint, "pod", i, requests) = {own}
    BY <2>6, <2>7, OneCpuset DEF own
  <2>9. QED
    BY <2>1, <2>6, <2>8 DEF CpusetsOf
<1>2. ASSUME OrdinaryInv, NEW i \in DOMAIN pod.containers, NEW c, c = pod.containers[i],
             Counted(pod) \/ SharedRequest(c) > 0 \/ ExclusiveRequest(c) > 0
      PROVE  i \in Conts /\ CountedOrPooled(i)
  <2>1. i \in Conts /\ c.limits = submitted.containers[i].limits /\ pod.annotation = submitted.annotation
    BY <1>2, PodFacts
  <2>2. Counted(pod) => Counted(submitted)
    BY <2>1 DEF Counted
  <2>3. QED
    BY <1>2, <2>1, <2>2, SameRequests DEF CountedOrPooled, Pooled
<1>3. AdmissionInv => WaitsForItsCpuset
  <2> SUFFICES ASSUME AdmissionInv, NamesFree(submitted), stage = "placed", NEW i \in DOMAIN pod.containers,
                      Started(i), SharesCounted(pod.containers[i]),
                      \/ Counted(pod)
                      \/ SharedRequest(pod.containers[i]) > 0
                      \/ ExclusiveRequest(pod.containers[i]) > 0
               PROVE  /\ ExpectedCpus(StarterEnv(i)) # {}
                      /\ CpusetsOf(i) = {ExpectedCpus(StarterEnv(i))}
    BY DEF WaitsForItsCpuset
  <2>1. OrdinaryInv
    BY PatchedIsOrdinary
  <2>2. i \in Conts /\ CountedOrPooled(i)
    BY <1>2, <2>1
  <2>3. QED
    BY <1>1, <2>1, <2>2
<1>4. QED
  BY AdmissionInvariant, <1>3, PTL

-----------------------------------------------------------------------------
(* The quota of a container with exclusive CPUs.                            *)

\* EXCLUSIVE_CPUS of a container is what the policy of its one pool makes of its devices.
LEMMA ExclusiveRead ==
  ASSUME OrdinaryInv, stage = "placed", NEW i \in Conts, NEW c, c = pod.containers[i],
         NEW n \in DOMAIN c.limits, DeterminePoolType(n) = ExclusivePoolID, c.limits[n] > 0
  PROVE  /\ ExclusiveCpus(i) = UnderPolicy(conf, HTMap, n, GrantOf(i, n))
         /\ ExclusiveRequest(c) = c.limits[n]
         /\ conf[n].ht \in ExclusivePolicies(i)
<1>1. Served(i, c) /\ IsContainer(c)
  BY PlacedContainer, PodFacts
<1>2. n \in PoolsOf(c, ExclusivePoolID) /\ \A m \in PoolsOf(c, ExclusivePoolID) : m = n
  BY <1>1 DEF PoolsOf, Served, OneExclusivePool
<1>3. ExclusiveRequest(c) = c.limits[n]
  BY <1>1, <1>2, RequestOfOne DEF ExclusiveRequest
<1>4. Pooled(submitted, i)
  <2>1. ExclusiveRequest(submitted.containers[i]) = ExclusiveRequest(c)
    BY PodFacts, SameRequests
  <2>2. QED
    BY <1>3, <2>1 DEF Pooled
<1> DEFINE A(m) == Allocate(conf, HTMap, m, GrantOf(i, m))
<1>5. StarterEnv(i) = [m \in PoolsRead(c) |-> A(m)]
  BY <1>4, EnvironmentRead
<1>6. A(n) = UnderPolicy(conf, HTMap, n, GrantOf(i, n))
  BY AllocateExclusive
<1>7. {m \in PoolsRead(c) : DeterminePoolType(m) = ExclusivePoolID} = {n}
  BY <1>2, <1>3 DEF PoolsOf, PoolsRead, ExclusiveRequest
<1> HIDE DEF A
<1>8. ExclusiveCpus(i) = A(n)
  BY <1>5, <1>7 DEF ExclusiveCpus
<1>9. conf[n].ht \in ExclusivePolicies(i)
  <2>1. PICK k : k = <<i, n>>
    OBVIOUS
  <2>2. n \in DOMAIN submitted.containers[i].limits
    BY PodFacts
  <2>3. k \in SubmittedClaims /\ k[1] = i /\ k[2] = n
    BY <2>1, <2>2 DEF SubmittedClaims
  <2>4. k \in DOMAIN grant
    BY <2>3, PlacedConf
  <2>5. QED
    BY <2>3, <2>4 DEF ExclusivePolicies
<1>10. QED
  BY <1>3, <1>6, <1>8, <1>9

\* The sizes that a pool of this name has in the configurations.
PoolSizes(name) ==
  {1000 * Cardinality(x.pools[name].cpus) : x \in {y \in Range(Confs) : name \in DOMAIN y.pools}}

LEMMA LargestPool ==
  ASSUME NEW name, NEW x \in Range(Confs), name \in DOMAIN x.pools
  PROVE  /\ Max(PoolSizes(name) \cup {0}) \in Nat
         /\ 1000 * Cardinality(x.pools[name].cpus) <= Max(PoolSizes(name) \cup {0})
<1>1. \A y \in Range(Confs) : name \in DOMAIN y.pools => Cardinality(y.pools[name].cpus) \in Nat
  BY ConfsAssumption, FS_CardinalityType
<1>2. IsFiniteSet(Range(Confs))
  <2>1. DOMAIN Confs = 1..Len(Confs) /\ Len(Confs) \in Nat
    BY ConfsAssumption
  <2>2. IsFiniteSet(DOMAIN Confs)
    BY <2>1, FS_Interval
  <2>3. Confs \in [DOMAIN Confs -> Range(Confs)] /\ \A y \in Range(Confs) : \E k \in DOMAIN Confs : Confs[k] = y
    BY <2>1, ConfsAssumption DEF Range
  <2>4. Confs \in Surjection(DOMAIN Confs, Range(Confs))
    BY <2>3 DEF Surjection
  <2>5. QED
    BY <2>2, <2>4, FS_Surjection
<1> DEFINE Y == {y \in Range(Confs) : name \in DOMAIN y.pools}
           g == [y \in Y |-> 1000 * Cardinality(y.pools[name].cpus)]
           S == PoolSizes(name)
<1>3. IsFiniteSet(S)
  <2>1. IsFiniteSet(Y)
    BY <1>2, FS_Subset
  <2>2. g \in Surjection(Y, S)
    BY DEF PoolSizes, Surjection
  <2>3. QED
    BY <2>1, <2>2, FS_Surjection
<1>4. S \subseteq Nat /\ 1000 * Cardinality(x.pools[name].cpus) \in S
  BY <1>1 DEF PoolSizes
<1> HIDE DEF S
<1>5. IsFiniteSet(S \cup {0}) /\ S \cup {0} \subseteq Nat /\ S \cup {0} # {}
  BY <1>3, <1>4, FS_AddElement
<1>6. PICK T : T = S \cup {0}
  OBVIOUS
<1>7. Max(T) \in T /\ \A y \in T : y <= Max(T)
  BY <1>5, <1>6, MaxOfSet
<1>8. Max(T) \in Nat /\ 1000 * Cardinality(x.pools[name].cpus) <= Max(T)
  <2>1. PICK v : v = 1000 * Cardinality(x.pools[name].cpus)
    OBVIOUS
  <2>2. v \in T
    BY <1>4, <1>6, <2>1
  <2>3. v <= Max(T)
    BY <1>7, <2>2
  <2>4. Max(T) \in Nat
    BY <1>5, <1>6, <1>7
  <2>5. 1000 * Cardinality(x.pools[name].cpus) <= Max(T)
    BY <2>1, <2>3
  <2>6. QED
    BY <2>4, <2>5
<1>9. QED
  BY <1>6, <1>8 DEF S

\* The CPUs of the shared pools that c requests.
SharedCpus(c) == UNION {conf[n].cpus : n \in PoolsOf(c, SharedPoolID)}

\* The webhook knows the pools and can tell the shared one by its quantity.
SharedKnown(c) == readable /\ SharedPoolNames(c) = PoolsOf(c, SharedPoolID)

\* What the webhook adds for the shared CPUs of a mixed container.
LEMMA SharedLimitCovers ==
  ASSUME OrdinaryInv, stage = "placed", NEW i, NEW c, Served(i, c), SharesCounted(c), SharedRequest(c) > 0,
         NEW max \in MaxSharedPoolLimits(c, Confs, readable)
  PROVE  /\ max \in Nat /\ Cardinality(SharedCpus(c)) \in Nat
         /\ SharedKnown(c) => 1000 * Cardinality(SharedCpus(c)) <= max
         /\ ~SharedKnown(c) => SharedRequest(c) <= max
<1> DEFINE shared == PoolsOf(c, SharedPoolID)
<1>1. IsContainer(c) /\ SharedRequest(c) \in Nat
  BY RequestBounds DEF Served, SharedRequest
<1>2. PICK n \in PoolsOf(c, SharedPoolID) : c.limits[n] > 0
  BY <1>1, RequestBounds DEF SharedRequest
<1>3. \A m \in PoolsOf(c, SharedPoolID) : m = n
  BY <1>2, PlacedConf, TypesDiffer DEF PoolsOf, Served, UnambiguousNames
<1>4. SharedRequest(c) = c.limits[n]
  BY <1>1, <1>2, <1>3, RequestOfOne DEF SharedRequest
<1>5. n \in SharedPoolNames(c) /\ shared = {n}
  BY <1>1, <1>2, <1>3, <1>4 DEF SharedPoolNames, PoolsOf
<1>6. SharedCpus(c) = conf[n].cpus
  BY <1>5 DEF SharedCpus
<1>7. Cardinality(SharedCpus(c)) \in Nat
  <2>1. n \in DOMAIN conf
    BY <1>2 DEF PoolsOf, Served
  <2>2. QED
    BY <1>6, <2>1, PlacedConf
<1>8. CASE ~readable
  BY <1>1, <1>7, <1>8 DEF MaxSharedPoolLimits, SharedKnown
<1>9. CASE readable
  <2>1. PICK name \in SharedPoolNames(c) : max = Max(PoolSizes(name) \cup {0})
    <3>1. MaxSharedPoolLimits(c, Confs, readable) = {Max(PoolSizes(m) \cup {0}) : m \in SharedPoolNames(c)}
      BY <1>5, <1>9 DEF MaxSharedPoolLimits, PoolSizes
    <3>2. QED
      BY <3>1
  <2>2. /\ name \in DOMAIN c.limits /\ c.limits[name] = SharedRequest(c)
        /\ name \in DOMAIN conf /\ c.limits[name] <= AdvertisedDevices(conf, name)
    BY <2>1 DEF SharedPoolNames, Served
  <2>3. PICK x \in Range(Confs) : conf = x.pools
    BY PlacedConf
  <2>4. max \in Nat /\ 1000 * Cardinality(conf[name].cpus) <= max /\ Cardinality(conf[name].cpus) \in Nat
    <3>1. /\ Max(PoolSizes(name) \cup {0}) \in Nat
          /\ 1000 * Cardinality(x.pools[name].cpus) <= Max(PoolSizes(name) \cup {0})
      BY <2>2, <2>3, LargestPool
    <3>2. Cardinality(conf[name].cpus) \in Nat
      BY <2>2, PlacedConf
    <3>3. QED
      BY <2>1, <2>3, <3>1, <3>2
  <2>5. AdvertisedDevices(conf, name) <= 1000 * Cardinality(conf[name].cpus)
    BY <2>4 DEF AdvertisedDevices
  <2>6. SharedRequest(c) <= max
    BY <1>1, <2>2, <2>4, <2>5 DEF AdvertisedDevices
  <2>7. SharedKnown(c) => name = n
    BY <1>5, <2>1 DEF SharedKnown
  <2>8. QED
    BY <1>6, <1>7, <2>4, <2>6, <2>7
<1>10. QED
  BY <1>8, <1>9

\* With cfs-quotas=all, a limit leaves room for all exclusive and shared CPUs.
THEOREM QuotasCover == Spec => []QuotaCovers
<1>1. ASSUME OrdinaryInv, stage = "placed", quota = QuotaAll, NEW i \in Conts, NEW c, c = pod.containers[i],
             ExclusiveRequest(c) > 0, ExclusivePolicies(i) = {SingleThreadHTPolicy}, SharesCounted(c)
      PROVE  c.cpu[1] >= 1000 * Cardinality(ExclusiveCpus(i))
                         + IF SharedKnown(c) THEN 1000 * Cardinality(SharedCpus(c)) ELSE SharedRequest(c)
  <2> DEFINE sizes == 1000 * Cardinality(SharedCpus(c))
  <2>1. Served(i, c) /\ IsContainer(c)
    BY <1>1, PlacedContainer, PodFacts
  <2>2. PICK n \in DOMAIN c.limits : DeterminePoolType(n) = ExclusivePoolID /\ c.limits[n] > 0
    BY <1>1, <2>1, RequestBounds DEF ExclusiveRequest, PoolsOf
  <2>3. /\ ExclusiveCpus(i) = UnderPolicy(conf, HTMap, n, GrantOf(i, n))
        /\ ExclusiveRequest(c) = c.limits[n]
        /\ conf[n].ht = SingleThreadHTPolicy
    BY <1>1, <2>2, ExclusiveRead
  <2>4. ExclusiveCpus(i) = GrantOf(i, n)
    BY <2>3 DEF UnderPolicy, SingleThreadHTPolicy, MultiThreadHTPolicy
  <2>5. Cardinality(ExclusiveCpus(i)) = ExclusiveRequest(c) /\ ExclusiveRequest(c) \in Nat
    BY <2>1, <2>2, <2>3, <2>4 DEF Served
  <2>6. PICK t \in CfsLimits(c, quota, Confs, readable) : t > 0 => c.cpu = <<t, 0>>
    BY <1>1, NoneLeft DEF LimitSet
  <2> HIDE DEF sizes
  <2>7. SharedRequest(c) \in Nat
    BY <2>1, RequestBounds DEF SharedRequest
  <2>8. /\ sizes \in Nat
        /\ \E more \in Nat : /\ t = 1000 * ExclusiveRequest(c) + more
                             /\ SharedKnown(c) => sizes <= more
                             /\ ~SharedKnown(c) => SharedRequest(c) <= more
    <3>1. CASE SharedRequest(c) > 0
      <4>1. PICK max \in MaxSharedPoolLimits(c, Confs, readable) : t = 1000 * ExclusiveRequest(c) + max
        BY <1>1, <2>6, <3>1 DEF CfsLimits
      <4>2. /\ max \in Nat /\ sizes \in Nat
            /\ SharedKnown(c) => sizes <= max
            /\ ~SharedKnown(c) => SharedRequest(c) <= max
        <5>1. /\ max \in Nat /\ Cardinality(SharedCpus(c)) \in Nat
              /\ SharedKnown(c) => 1000 * Cardinality(SharedCpus(c)) <= max
              /\ ~SharedKnown(c) => SharedRequest(c) <= max
          BY <1>1, <2>1, <3>1, SharedLimitCovers
        <5>2. QED
          BY <5>1 DEF sizes
      <4>3. QED
        BY <4>1, <4>2
    <3>2. CASE ~(SharedRequest(c) > 0)
      <4>1. t = 1000 * ExclusiveRequest(c) + 100
        BY <1>1, <2>6, <3>2 DEF CfsLimits
      <4>2. \A m \in PoolsOf(c, SharedPoolID) : ~(c.limits[m] > 0)
        BY <2>1, <3>2, RequestBounds DEF SharedRequest
      <4>3. PoolsOf(c, SharedPoolID) = {}
        BY <1>1, <4>2 DEF PoolsOf, SharesCounted
      <4>4. SharedCpus(c) = {}
        BY <4>3 DEF SharedCpus
      <4>5. sizes = 0
        BY <4>4, FS_EmptySet DEF sizes
      <4>6. QED
        BY <2>7, <3>2, <4>1, <4>5
    <3>3. QED
      BY <3>1, <3>2
  <2>9. t > 0 /\ c.cpu[1] = t
    <3>1. t > 0
      BY <1>1, <2>5, <2>8
    <3>2. QED
      BY <2>6, <3>1
  <2>10. c.cpu[1] >= 1000 * Cardinality(ExclusiveCpus(i)) + IF SharedKnown(c) THEN sizes ELSE SharedRequest(c)
    BY <2>5, <2>7, <2>8, <2>9
  <2>11. QED
    BY <2>10 DEF sizes
<1> DEFINE Covered(i) ==
             LET c      == pod.containers[i]
                 shared == {n \in DOMAIN c.limits : DeterminePoolType(n) = SharedPoolID}
                 known  == readable /\ SharedPoolNames(c) = shared
             IN  c.cpu[1] >= 1000 * Cardinality(ExclusiveCpus(i))
                             + IF known THEN 1000 * Cardinality(UNION {conf[pool].cpus : pool \in shared})
                               ELSE SharedRequest(c)
           NeedsCover(i) == /\ ExclusiveRequest(pod.containers[i]) > 0
                            /\ ExclusivePolicies(i) = {SingleThreadHTPolicy}
                            /\ SharesCounted(pod.containers[i])
<1>2. ASSUME OrdinaryInv, stage = "placed", quota = QuotaAll, NEW i \in DOMAIN pod.containers, NeedsCover(i)
      PROVE  Covered(i)
  <2>1. i \in Conts
    BY <1>2, PodFacts
  <2>2. PICK c : c = pod.containers[i]
    OBVIOUS
  <2>3. c.cpu[1] >= 1000 * Cardinality(ExclusiveCpus(i))
                    + IF SharedKnown(c) THEN 1000 * Cardinality(SharedCpus(c)) ELSE SharedRequest(c)
    BY <1>1, <1>2, <2>1, <2>2
  <2>4. QED
    BY <2>2, <2>3 DEF SharedKnown, SharedCpus, PoolsOf
<1>3. QuotaCovers <=> (NamesFree(submitted) /\ stage = "placed" /\ quota = QuotaAll =>
                         \A i \in DOMAIN pod.containers : NeedsCover(i) => Covered(i))
  BY DEF QuotaCovers
<1> HIDE DEF Covered, NeedsCover
<1>4. AdmissionInv => QuotaCovers
  BY <1>2, <1>3, PatchedIsOrdinary
<1>5. QED
  BY AdmissionInvariant, <1>4, PTL

-----------------------------------------------------------------------------
(* The starter's CPUs.                                                      *)

\* The siblings of CPUs of a multi-threaded pool double them.
LEMMA SiblingsDouble ==
  ASSUME NEW x \in Range(Confs), NEW n \in DOMAIN x.pools, x.pools[n].ht = MultiThreadHTPolicy,
         NEW D, D \subseteq x.pools[n].cpus, IsFiniteSet(D)
  PROVE  /\ Cardinality(AddHTSiblingsToCPUSet(D, HTMap)) \in Nat
         /\ 2 * Cardinality(D) <= Cardinality(AddHTSiblingsToCPUSet(D, HTMap))
<1> DEFINE all == AddHTSiblingsToCPUSet(D, HTMap)
           f   == [cpu \in D |-> CHOOSE y \in HTMap[cpu] \ x.pools[n].cpus : TRUE]
           S   == {f[cpu] : cpu \in D}
<1>1. \A cpu \in D : /\ cpu \in DOMAIN HTMap /\ f[cpu] \in HTMap[cpu] /\ f[cpu] \notin D
  <2>1. \A cpu \in D : cpu \in DOMAIN HTMap /\ HTMap[cpu] \ x.pools[n].cpus # {}
    BY ThreadsAssumption
  <2>2. \A cpu \in D : f[cpu] \in HTMap[cpu] \ x.pools[n].cpus
    BY <2>1
  <2>3. QED
    BY <2>1, <2>2
<1>2. f \in [D -> S]
  OBVIOUS
<1>3. \A s \in S : \E cpu \in D : f[cpu] = s
  OBVIOUS
<1> HIDE DEF f
<1>4. \A a, b \in D : f[a] = f[b] => a = b
  BY <1>1, ThreadsAssumption
<1>5. f \in Bijection(D, S)
  BY <1>2, <1>3, <1>4 DEF Bijection, Injection, Surjection, IsInjective
<1>6. S \cap D = {} /\ S \cup D \subseteq all
  BY <1>1 DEF AddHTSiblingsToCPUSet
<1> HIDE DEF S
<1>7. IsFiniteSet(S) /\ Cardinality(S) = Cardinality(D) /\ Cardinality(D) \in Nat
  <2>1. ExistsBijection(D, S)
    BY <1>5 DEF ExistsBijection
  <2>2. QED
    BY <2>1, FS_Bijection, FS_CardinalityType
<1>8. Cardinality(S \cup D) = Cardinality(S) + Cardinality(D)
  <2>1. Cardinality(S \cup D) = Cardinality(S) + Cardinality(D) - Cardinality(S \cap D)
    BY <1>7, FS_Union
  <2>2. Cardinality(S \cap D) = 0
    BY <1>6, FS_EmptySet
  <2>3. QED
    BY <1>7, <2>1, <2>2
<1>9. IsFiniteSet(all)
  <2> DEFINE sets == {HTMap[cpu] : cpu \in D \cap DOMAIN HTMap}
  <2>1. IsFiniteSet(sets)
    <3>1. PICK g : g = [cpu \in D |-> HTMap[cpu]]
      OBVIOUS
    <3>2. D \cap DOMAIN HTMap = D
      BY <1>1
    <3>3. g \in Surjection(D, sets)
      BY <3>1, <3>2 DEF Surjection
    <3>4. QED
      BY <3>3, FS_Surjection
  <2>2. \A s \in sets : IsFiniteSet(s)
    BY ThreadsAssumption
  <2> HIDE DEF sets
  <2>3. IsFiniteSet(UNION sets)
    BY <2>1, <2>2, FS_UNION
  <2>4. IsFiniteSet(D \cup UNION sets)
    BY <2>3, FS_Union
  <2>5. QED
    BY <2>4 DEF AddHTSiblingsToCPUSet, sets
<1> HIDE DEF all
<1>10. Cardinality(S \cup D) <= Cardinality(all) /\ Cardinality(all) \in Nat
  BY <1>6, <1>9, FS_Subset, FS_CardinalityType
<1>11. QED
  BY <1>7, <1>8, <1>10 DEF all

\* The processes of an accepted annotation get twice the CPUs that are asked for at most.
LEMMA ProcessesFit ==
  ASSUME OrdinaryInv, stage = "placed", NEW i \in Conts, NEW entries \in Range(submitted.annotation),
         NEW name, name = submitted.containers[i].name, name \in ContainerNames(entries),
         NaturalCounts(Processes(entries, name)),
         NEW n \in DOMAIN submitted.containers[i].limits, DeterminePoolType(n) = ExclusivePoolID
  PROVE  /\ CpusOfProcesses(Processes(entries, name), {l[2] : l \in DOMAIN grant}) \in Nat
         /\ CpusOfProcesses(Processes(entries, name), {l[2] : l \in DOMAIN grant})
              <= 2 * submitted.containers[i].limits[n]
<1> DEFINE ps    == Processes(entries, name)
           was   == submitted.containers[i]
           pools == {l[2] : l \in DOMAIN grant}
           f(of) == [k \in DOMAIN ps |-> IF ps[k].pool \in of THEN ps[k].cpus ELSE 0]
<1>1. /\ ps \in Seq(ProcessEntry)
      /\ \A pool \in ContainerPools(entries, name) :
           pool \in DOMAIN was.limits /\ ContainerTotalCPURequest(entries, pool, name) <= 2 * was.limits[pool]
  BY AcceptedEntry
<1>2. OneExclusivePool(was) /\ was.limits[n] \in Nat
  BY PlacedContainer, PodFacts DEF Served, OneExclusivePool
<1>3. n \in pools
  <2>1. PICK k : k = <<i, n>>
    OBVIOUS
  <2>2. k \in SubmittedClaims /\ k[2] = n
    BY <2>1 DEF SubmittedClaims
  <2>3. QED
    BY <2>2, PlacedConf
<1>4. \A pool \in pools : DeterminePoolType(pool) = ExclusivePoolID
  BY PlacedConf DEF SubmittedClaims
<1>5. \A k \in DOMAIN ps : ps[k].pool \in ContainerPools(entries, name)
  BY DEF ContainerPools, Range
<1>6. \A k \in DOMAIN ps : ps[k].pool \in pools <=> ps[k].pool \in {n}
  BY <1>1, <1>2, <1>3, <1>4, <1>5 DEF OneExclusivePool
<1> HIDE DEF pools, ps
<1>7. CpusOfProcesses(ps, pools) = CpusOfProcesses(ps, {n})
  <2>1. f(pools) = f({n})
    BY <1>6
  <2>2. QED
    BY <2>1 DEF CpusOfProcesses
<1>8. CpusOfProcesses(ps, {n}) \in Nat
  BY <1>1, SumOfProcesses DEF ps
<1>9. CASE n \in ContainerPools(entries, name)
  BY <1>1, <1>7, <1>8, <1>9 DEF ContainerTotalCPURequest, ps, pools
<1>10. CASE n \notin ContainerPools(entries, name)
  <2>1. PICK g : g = f({n})
    OBVIOUS
  <2>2. DOMAIN g = DOMAIN ps /\ \A k \in DOMAIN g : g[k] = 0
    BY <1>5, <1>10, <2>1
  <2>3. IsFiniteSet(DOMAIN g)
    <3>1. DOMAIN ps = 1..Len(ps) /\ Len(ps) \in Nat
      BY <1>1
    <3>2. QED
      BY <2>2, <3>1, FS_Interval
  <2>4. CpusOfProcesses(ps, {n}) = SumFunctionOnSet(g, DOMAIN g)
    BY <2>1 DEF CpusOfProcesses, SumFunction
  <2>5. CpusOfProcesses(ps, {n}) = 0
    BY <2>2, <2>3, <2>4, SumOfZeros
  <2>6. QED
    BY <1>2, <1>7, <1>8, <2>5 DEF ps, pools
<1>11. QED
  BY <1>9, <1>10

\* setAffinity has CPUs for all the processes of an accepted annotation that has no
\* negative number of CPUs.
THEOREM StartersPinAll == Spec => []StarterPinsAll
<1> DEFINE pools == {l[2] : l \in DOMAIN grant}
           Entries(entries, name) == {k \in DOMAIN entries : entries[k].name = name}
<1>1. ASSUME OrdinaryInv, stage = "placed", NEW i \in Conts, NEW entries \in Range(pod.annotation),
             ExclusivePolicies(i) = {MultiThreadHTPolicy},
             Cardinality(Entries(entries, pod.containers[i].name)) = 1,
             NEW k \in Entries(entries, pod.containers[i].name), NaturalCounts(entries[k].processes)
      PROVE  CpusOfProcesses(entries[k].processes, pools) <= Cardinality(ExclusiveCpus(i))
  <2> DEFINE was == submitted.containers[i]
  <2>1. PICK c : c = pod.containers[i]
    OBVIOUS
  <2>2. PICK name : name = was.name
    OBVIOUS
  <2>3. /\ Served(i, c) /\ IsContainer(c) /\ c.limits = was.limits /\ c.name = name
        /\ entries \in Range(submitted.annotation)
    BY <1>1, <2>1, <2>2, PlacedContainer, PodFacts
  <2>4. k \in DOMAIN entries /\ entries[k].name = name /\ name \in ContainerNames(entries)
    BY <2>1, <2>3, <1>1 DEF ContainerNames
  <2>5. Processes(entries, name) = entries[k].processes
    <3>1. entries \in Seq(AnnotationEntry)
      BY <1>1, <2>3 DEF OrdinaryInv, PodShape, ProperPod, WellFormed, IsAnnotation
    <3>2. PICK of : of = Entries(entries, name)
      OBVIOUS
    <3>3. Cardinality(of) = 1 /\ k \in of /\ of \subseteq Nat
      <4>1. \A j \in DOMAIN entries : j \in Nat
        BY <3>1
      <4>2. QED
        BY <1>1, <2>1, <2>3, <3>2, <4>1
    <3>4. IsFiniteSet(of)
      <4>1. DOMAIN entries = 1..Len(entries) /\ Len(entries) \in Nat
        BY <3>1
      <4>2. IsFiniteSet(1..Len(entries)) /\ of \subseteq 1..Len(entries)
        BY <3>2, <4>1, FS_Interval
      <4>3. QED
        BY <4>2, FS_Subset
    <3>5. of = {k}
      <4>1. Cardinality(of \ {k}) = 0 /\ IsFiniteSet(of \ {k})
        BY <3>3, <3>4, FS_RemoveElement
      <4>2. of \ {k} = {}
        BY <4>1, FS_EmptySet
      <4>3. QED
        BY <3>3, <4>2
    <3>6. Max(of) = k
      BY <3>3, <3>4, <3>5, MaxOfSet
    <3>7. QED
      BY <3>2, <3>6 DEF Processes
  <2>6. PICK l \in DOMAIN grant : l[1] = i /\ conf[l[2]].ht = MultiThreadHTPolicy
    BY <1>1 DEF ExclusivePolicies
  <2>7. PICK n : n = l[2]
    OBVIOUS
  <2>8. /\ n \in DOMAIN was.limits /\ DeterminePoolType(n) = ExclusivePoolID
        /\ conf[n].ht = MultiThreadHTPolicy
    BY <2>6, <2>7, PlacedConf, <1>1 DEF SubmittedClaims
  <2>9. /\ CpusOfProcesses(entries[k].processes, pools) \in Nat
        /\ CpusOfProcesses(entries[k].processes, pools) <= 2 * was.limits[n]
    BY <1>1, <2>2, <2>3, <2>4, <2>5, <2>8, ProcessesFit
  <2> HIDE DEF pools, Entries
  <2>10. n \in DOMAIN c.limits /\ c.limits[n] = was.limits[n] /\ was.limits[n] \in Nat
    BY <2>3, <2>8 DEF Served
  <2>11. CASE was.limits[n] > 0
    <3>1. ExclusiveCpus(i) = UnderPolicy(conf, HTMap, n, GrantOf(i, n))
      BY <1>1, <2>1, <2>8, <2>10, <2>11, ExclusiveRead
    <3>2. ExclusiveCpus(i) = AddHTSiblingsToCPUSet(GrantOf(i, n), HTMap)
      BY <2>8, <3>1 DEF UnderPolicy
    <3>3. /\ GrantOf(i, n) \subseteq conf[n].cpus /\ IsFiniteSet(GrantOf(i, n))
          /\ Cardinality(GrantOf(i, n)) = was.limits[n] /\ n \in DOMAIN conf
      BY <2>3, <2>8, <2>10 DEF Served
    <3>4. PICK x \in Range(Confs) : conf = x.pools
      BY <1>1, PlacedConf
    <3>5. /\ Cardinality(ExclusiveCpus(i)) \in Nat
          /\ 2 * Cardinality(GrantOf(i, n)) <= Cardinality(ExclusiveCpus(i))
      BY <2>8, <3>2, <3>3, <3>4, SiblingsDouble
    <3>6. QED
      BY <2>9, <2>10, <3>3, <3>5
  <2>12. CASE ~(was.limits[n] > 0)
    <3>1. NaturalCounts(Processes(entries, name))
      BY <1>1, <2>5
    <3>2. Pooled(submitted, i)
      BY <1>1, <2>2, <2>3, <2>4, <3>1, AnnotatedIsPooled
    <3>3. StarterEnv(i) = [m \in PoolsRead(c) |-> Allocate(conf, HTMap, m, GrantOf(i, m))]
      BY <1>1, <2>1, <3>2, EnvironmentRead
    <3>4. CpuRequest(c, ExclusivePoolID) = 0
      <4>1. n \in PoolsOf(c, ExclusivePoolID) /\ \A m \in PoolsOf(c, ExclusivePoolID) : m = n
        BY <2>3, <2>8, <2>10 DEF PoolsOf, Served, OneExclusivePool
      <4>2. CpuRequest(c, ExclusivePoolID) = c.limits[n]
        BY <2>3, <4>1, RequestOfOne
      <4>3. QED
        BY <2>10, <2>12, <4>2
    <3>5. \A m \in PoolsRead(c) : DeterminePoolType(m) # ExclusivePoolID
      BY <3>4 DEF PoolsRead
    <3>6. ExclusiveCpus(i) = {}
      BY <3>3, <3>5 DEF ExclusiveCpus
    <3>7. Cardinality(ExclusiveCpus(i)) = 0
      BY <3>6, FS_EmptySet
    <3>8. QED
      BY <2>9, <2>10, <2>12, <3>7
  <2>13. QED
    BY <2>11, <2>12
<1>2. AdmissionInv => StarterPinsAll
  BY <1>1, PodFacts, PatchedIsOrdinary DEF StarterPinsAll
<1>3. QED
  BY AdmissionInvariant, <1>2, PTL
=============================================================================
