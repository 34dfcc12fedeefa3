---------------------------- MODULE SumTheorems ----------------------------
(***************************************************************************)
(* Facts about the sums SumFunctionOnSet and SumFunction of the community  *)
(* module Functions, for finite index sets of any size.  The library's     *)
(* induction theorems take an operator; here induction over a finite set   *)
(* is stated for a set of its subsets (SubsetInduction), and follows from  *)
(* the well-foundedness of < on the natural numbers.                       *)
(***************************************************************************)
EXTENDS Integers, Functions, FiniteSetTheorems, WellFoundedInduction, TLAPS

\* The element a sum takes first.
Pick(s) == CHOOSE x \in s : TRUE

\* it computes the sum of f over every subset of S.
IsSum(it, f, S) ==
  it = [s \in SUBSET S |-> IF s = {} THEN 0 ELSE f[Pick(s)] + it[s \ {Pick(s)}]]

\* Every value of f on S is a number.
Summable(f, S) == IsFiniteSet(S) /\ \A x \in S : f[x] \in Int

-----------------------------------------------------------------------------
(* Induction.                                                               *)

\* The least-number principle.
LEMMA LeastNatural ==
  ASSUME NEW T, T \subseteq Nat, T # {}
  PROVE  \E x \in T : \A y \in T : x <= y
<1> DEFINE R == {ss \in Nat \X Nat : ss[1] < ss[2]}
<1>1. IsWellFoundedOn(R, Nat)
  BY NatLessThanWellFounded DEF OpToRel
<1> HIDE DEF R
<1>2. PICK x \in T : \A y \in T : ~(<<y, x>> \in R)
  BY <1>1, WFMin
<1>3. \A y \in T : y \in Nat /\ x \in Nat /\ ~(y < x)
  BY <1>2 DEF R
<1> QED BY <1>3

\* A set of subsets of a finite S contains all of them when it contains each one whose proper
\* subsets it contains.
LEMMA SubsetInduction ==
  ASSUME NEW S, IsFiniteSet(S), NEW G,
         \A s \in SUBSET S : (\A u \in SUBSET s : u # s => u \in G) => s \in G
  PROVE  \A s \in SUBSET S : s \in G
<1> DEFINE Bad == {s \in SUBSET S : s \notin G}
           T == {Cardinality(s) : s \in Bad}
<1>1. SUFFICES ASSUME Bad # {} PROVE FALSE
  OBVIOUS
<1>2. \A s \in SUBSET S : IsFiniteSet(s) /\ Cardinality(s) \in Nat
  BY FS_Subset, FS_CardinalityType
<1>3. T \subseteq Nat /\ T # {}
  BY <1>1, <1>2
<1>4. PICK n \in T : \A m \in T : n <= m
  BY <1>3, LeastNatural
<1>5. PICK s \in Bad : Cardinality(s) = n
  BY <1>4
<1>6. ASSUME NEW u \in SUBSET s, u # s
      PROVE  u \in G
  <2>1. Cardinality(u) < Cardinality(s)
    BY <1>2, <1>6, FS_Subset
  <2>2. Cardinality(u) \in Nat /\ Cardinality(s) \in Nat
    BY <1>2
  <2>3. u \in Bad => n <= Cardinality(u)
    BY <1>4
  <2> QED BY <1>5, <2>1, <2>2, <2>3
<1> QED BY <1>5, <1>6

-----------------------------------------------------------------------------
(* The recursive function behind a sum exists, and is unique.               *)

LEMMA SumsAgree ==
  ASSUME NEW f, NEW S, NEW T, IsFiniteSet(S), NEW it, NEW jt,
         IsSum(it, f, S), IsSum(jt, f, T)
  PROVE  \A s \in SUBSET S : s \in SUBSET T => it[s] = jt[s]
<1> DEFINE G == {s \in SUBSET S : s \in SUBSET T => it[s] = jt[s]}
<1>1. ASSUME NEW s \in SUBSET S, \A u \in SUBSET s : u # s => u \in G
      PROVE  s \in G
  <2>1. SUFFICES ASSUME s \in SUBSET T PROVE it[s] = jt[s]
    OBVIOUS
  <2>2. CASE s = {}
    BY <2>1, <2>2 DEF IsSum
  <2>3. CASE s # {}
    <3> DEFINE v == s \ {Pick(s)}
    <3>1. Pick(s) \in s
      BY <2>3 DEF Pick
    <3>2. v \in SUBSET s /\ v # s
      BY <3>1
    <3>3. it[v] = jt[v]
      BY <3>2, <1>1, <2>1
    <3>4. it[s] = f[Pick(s)] + it[v] /\ jt[s] = f[Pick(s)] + jt[v]
      BY <2>1, <2>3 DEF IsSum
    <3> QED BY <3>3, <3>4
  <2> QED BY <2>2, <2>3
<1> HIDE DEF G
<1>2. \A s \in SUBSET S : s \in G
  BY <1>1, SubsetInduction
<1> QED BY <1>2 DEF G

LEMMA SumExists ==
  ASSUME NEW f, NEW S, IsFiniteSet(S)
  PROVE  \E it : IsSum(it, f, S)
<1> DEFINE G == {s \in SUBSET S : \E it : IsSum(it, f, s)}
           E(s) == CHOOSE it : IsSum(it, f, s)
<1>1. ASSUME NEW s \in SUBSET S, \A u \in SUBSET s : u # s => u \in G
      PROVE  s \in G
  <2> DEFINE Rest(u) == u \ {Pick(u)}
             jt == [u \in SUBSET s |-> IF u = {} THEN 0 ELSE f[Pick(u)] + E(Rest(u))[Rest(u)]]
  <2>1. ASSUME NEW u \in SUBSET s, u # s
        PROVE  IsSum(E(u), f, u)
    <3>1. \E it : IsSum(it, f, u)
      BY <1>1, <2>1
    <3> QED BY <3>1
  <2>2. ASSUME NEW u \in SUBSET s, u # {}
        PROVE  Rest(u) \in SUBSET s /\ Rest(u) # s /\ Pick(u) \in u
    BY <2>2 DEF Pick
  <2> HIDE DEF E
  <2>3. ASSUME NEW v \in SUBSET s, v # s
        PROVE  jt[v] = E(v)[v]
    <3>1. CASE v = {}
      BY <2>1, <2>3, <3>1 DEF IsSum
    <3>2. CASE v # {}
      <4>1. jt[v] = f[Pick(v)] + E(Rest(v))[Rest(v)]
        BY <3>2
      <4>2. E(v)[v] = f[Pick(v)] + E(v)[Rest(v)]
        BY <2>1, <2>3, <3>2 DEF IsSum
      <4>3. Rest(v) \in SUBSET v /\ Rest(v) \in SUBSET s /\ Rest(v) # s
        BY <2>2, <3>2
      <4>4. IsSum(E(v), f, v) /\ IsSum(E(Rest(v)), f, Rest(v))
        BY <2>1, <2>3, <4>3
      <4>5. IsFiniteSet(Rest(v))
        BY <4>3, FS_Subset
      <4> DEFINE w == Rest(v)
      <4> HIDE DEF Rest, jt, w
      <4>6. \A x \in SUBSET w : x \in SUBSET v => E(w)[x] = E(v)[x]
        BY <4>4, <4>5, SumsAgree DEF w
      <4>7. E(w)[w] = E(v)[w]
        BY <4>3, <4>6 DEF w
      <4> QED BY <4>1, <4>2, <4>7 DEF w
    <3> QED BY <3>1, <3>2
  <2>4. ASSUME NEW u \in SUBSET s, u # {}
        PROVE  E(Rest(u))[Rest(u)] = jt[Rest(u)]
    BY <2>2, <2>3, <2>4
  <2>5. jt = [u \in SUBSET s |-> IF u = {} THEN 0 ELSE f[Pick(u)] + jt[Rest(u)]]
    <3>1. \A u \in SUBSET s : jt[u] = IF u = {} THEN 0 ELSE f[Pick(u)] + jt[Rest(u)]
      <4> SUFFICES ASSUME NEW u \in SUBSET s
                   PROVE  jt[u] = IF u = {} THEN 0 ELSE f[Pick(u)] + jt[Rest(u)]
        OBVIOUS
      <4>1. jt[u] = IF u = {} THEN 0 ELSE f[Pick(u)] + E(Rest(u))[Rest(u)]
        OBVIOUS
      <4> QED BY <2>4, <4>1
    <3>2. DOMAIN jt = SUBSET s /\ jt = [u \in DOMAIN jt |-> jt[u]]
      OBVIOUS
    <3> HIDE DEF jt
    <3> QED BY <3>1, <3>2
  <2>6. IsSum(jt, f, s)
    BY <2>5 DEF IsSum
  <2> QED BY <2>6
<1> HIDE DEF G
<1>2. \A s \in SUBSET S : s \in G
  BY <1>1, SubsetInduction
<1> QED BY <1>2 DEF G

-----------------------------------------------------------------------------
(* What a sum is.                                                           *)

\* A sum is the value at S of a function that computes the sums over all subsets of S.
LEMMA SumValue ==
  ASSUME NEW f, NEW S, IsFiniteSet(S), NEW it, IsSum(it, f, S)
  PROVE  SumFunctionOnSet(f, S) = it[S]
<1> DEFINE E == CHOOSE e : IsSum(e, f, S)
<1>1. IsSum(E, f, S)
  BY Zenon
<1>2. SumFunctionOnSet(f, S) = E[S]
  BY DEF SumFunctionOnSet, FoldFunctionOnSet, MapThenFoldSet, IsSum, Pick
<1> HIDE DEF E
<1>3. \A s \in SUBSET S : s \in SUBSET S => E[s] = it[s]
  BY <1>1, SumsAgree
<1> QED BY <1>2, <1>3

LEMMA SumOverNone ==
  ASSUME NEW f
  PROVE  SumFunctionOnSet(f, {}) = 0
<1>1. IsFiniteSet({})
  BY FS_EmptySet
<1>2. PICK it : IsSum(it, f, {})
  BY <1>1, SumExists
<1>3. SumFunctionOnSet(f, {}) = it[{}]
  BY <1>1, <1>2, SumValue
<1> QED BY <1>2, <1>3 DEF IsSum

LEMMA SumUnfolds ==
  ASSUME NEW f, NEW S, IsFiniteSet(S), S # {}
  PROVE  /\ Pick(S) \in S
         /\ SumFunctionOnSet(f, S) = f[Pick(S)] + SumFunctionOnSet(f, S \ {Pick(S)})
<1> DEFINE T == S \ {Pick(S)}
<1>1. Pick(S) \in S
  BY DEF Pick
<1>2. IsFiniteSet(T)
  BY FS_Subset
<1>3. PICK it : IsSum(it, f, S)
  BY SumExists
<1>4. PICK jt : IsSum(jt, f, T)
  BY <1>2, SumExists
<1>5. it[S] = f[Pick(S)] + it[T]
  BY <1>3 DEF IsSum
<1> HIDE DEF T
<1>6. \A s \in SUBSET T : s \in SUBSET S => jt[s] = it[s]
  BY <1>2, <1>3, <1>4, SumsAgree
<1>7. jt[T] = it[T]
  BY <1>6 DEF T
<1>8. SumFunctionOnSet(f, S) = it[S] /\ SumFunctionOnSet(f, T) = jt[T]
  BY <1>2, <1>3, <1>4, SumValue
<1> QED BY <1>1, <1>5, <1>7, <1>8 DEF T

LEMMA SumIsInt ==
  ASSUME NEW f, NEW S, Summable(f, S)
  PROVE  SumFunctionOnSet(f, S) \in Int
<1> DEFINE G == {s \in SUBSET S : SumFunctionOnSet(f, s) \in Int}
<1>1. ASSUME NEW s \in SUBSET S, \A u \in SUBSET s : u # s => u \in G
      PROVE  s \in G
  <2>1. CASE s = {}
    BY <2>1, SumOverNone
  <2>2. CASE s # {}
    <3>1. IsFiniteSet(s)
      BY FS_Subset DEF Summable
    <3>2. Pick(s) \in s /\ SumFunctionOnSet(f, s) = f[Pick(s)] + SumFunctionOnSet(f, s \ {Pick(s)})
      BY <2>2, <3>1, SumUnfolds
    <3>3. SumFunctionOnSet(f, s \ {Pick(s)}) \in Int
      BY <1>1, <3>2
    <3>4. f[Pick(s)] \in Int
      BY <3>2 DEF Summable
    <3> QED BY <3>2, <3>3, <3>4
  <2> QED BY <2>1, <2>2
<1> HIDE DEF G
<1>2. \A s \in SUBSET S : s \in G
  BY <1>1, SubsetInduction DEF Summable
<1> QED BY <1>2 DEF G

\* Any element may be taken first.
LEMMA SumTakesAny ==
  ASSUME NEW f, NEW S, Summable(f, S), NEW x \in S
  PROVE  SumFunctionOnSet(f, S) = f[x] + SumFunctionOnSet(f, S \ {x})
<1> DEFINE Sum(s) == SumFunctionOnSet(f, s)
           G == {s \in SUBSET S : \A y \in s : Sum(s) = f[y] + Sum(s \ {y})}
<1>1. ASSUME NEW s \in SUBSET S
      PROVE  Summable(f, s) /\ IsFiniteSet(s) /\ Sum(s) \in Int
  <2>1. Summable(f, s) /\ IsFiniteSet(s)
    BY FS_Subset DEF Summable
  <2> QED BY <2>1, SumIsInt
<1> HIDE DEF Sum
<1>2. ASSUME NEW s \in SUBSET S, \A u \in SUBSET s : u # s => u \in G
      PROVE  s \in G
  <2> SUFFICES ASSUME NEW y \in s PROVE Sum(s) = f[y] + Sum(s \ {y})
    OBVIOUS
  <2> DEFINE p == Pick(s)
  <2>1. p \in s /\ Sum(s) = f[p] + Sum(s \ {p})
    BY <1>1, SumUnfolds DEF Sum
  <2> HIDE DEF p
  <2>2. CASE y = p
    BY <2>1, <2>2
  <2>3. CASE y # p
    <3> DEFINE v == (s \ {p}) \ {y}
    <3>1. Sum(s \ {p}) = f[y] + Sum(v)
      BY <1>2, <2>1, <2>3
    <3>2. Sum(s \ {y}) = f[p] + Sum((s \ {y}) \ {p})
      BY <1>2, <2>1, <2>3
    <3>3. (s \ {y}) \ {p} = v
      OBVIOUS
    <3>4. f[p] \in Int /\ f[y] \in Int /\ Sum(v) \in Int
      <4>1. v \in SUBSET S
        OBVIOUS
      <4> HIDE DEF v
      <4> QED BY <1>1, <2>1, <4>1 DEF Summable
    <3>5. Sum(s \ {y}) = f[p] + Sum(v)
      BY <3>2, <3>3
    <3> HIDE DEF v
    <3> QED BY <2>1, <3>1, <3>5, <3>4
  <2> QED BY <2>2, <2>3
<1> HIDE DEF G
<1>3. \A s \in SUBSET S : s \in G
  BY <1>2, SubsetInduction DEF Summable
<1> QED BY <1>3 DEF G, Sum

-----------------------------------------------------------------------------
(* Comparing sums.                                                          *)

\* Sums of equal values are equal.
LEMMA SumAgrees ==
  ASSUME NEW f, NEW g, NEW S, IsFiniteSet(S), \A x \in S : f[x] = g[x]
  PROVE  SumFunctionOnSet(f, S) = SumFunctionOnSet(g, S)
<1> DEFINE G == {s \in SUBSET S : SumFunctionOnSet(f, s) = SumFunctionOnSet(g, s)}
<1>1. ASSUME NEW s \in SUBSET S, \A u \in SUBSET s : u # s => u \in G
      PROVE  s \in G
  <2>1. CASE s = {}
    BY <2>1, SumOverNone
  <2>2. CASE s # {}
    <3>1. IsFiniteSet(s)
      BY FS_Subset
    <3>2. /\ Pick(s) \in s
          /\ SumFunctionOnSet(f, s) = f[Pick(s)] + SumFunctionOnSet(f, s \ {Pick(s)})
          /\ SumFunctionOnSet(g, s) = g[Pick(s)] + SumFunctionOnSet(g, s \ {Pick(s)})
      BY <2>2, <3>1, SumUnfolds
    <3>3. s \ {Pick(s)} \in G /\ f[Pick(s)] = g[Pick(s)]
      BY <1>1, <3>2
    <3> QED BY <3>2, <3>3
  <2> QED BY <2>1, <2>2
<1> HIDE DEF G
<1>2. \A s \in SUBSET S : s \in G
  BY <1>1, SubsetInduction
<1> QED BY <1>2 DEF G

\* A sum of sums is the sum of the summands.
LEMMA SumAdds ==
  ASSUME NEW f, NEW g, NEW h, NEW S, Summable(f, S), Summable(g, S),
         \A x \in S : h[x] = f[x] + g[x]
  PROVE  SumFunctionOnSet(h, S) = SumFunctionOnSet(f, S) + SumFunctionOnSet(g, S)
<1> DEFINE Sf(s) == SumFunctionOnSet(f, s)
           Sg(s) == SumFunctionOnSet(g, s)
           Sh(s) == SumFunctionOnSet(h, s)
           G == {s \in SUBSET S : Sh(s) = Sf(s) + Sg(s)}
<1>1. ASSUME NEW s \in SUBSET S
      PROVE  IsFiniteSet(s) /\ Sf(s) \in Int /\ Sg(s) \in Int
  <2>1. Summable(f, s) /\ Summable(g, s) /\ IsFiniteSet(s)
    BY FS_Subset DEF Summable
  <2> QED BY <2>1, SumIsInt
<1>2. Sh({}) = 0 /\ Sf({}) = 0 /\ Sg({}) = 0
  BY SumOverNone
<1>3. ASSUME NEW s \in SUBSET S, s # {}
      PROVE  /\ Pick(s) \in s
             /\ Sf(s) = f[Pick(s)] + Sf(s \ {Pick(s)})
             /\ Sg(s) = g[Pick(s)] + Sg(s \ {Pick(s)})
             /\ Sh(s) = h[Pick(s)] + Sh(s \ {Pick(s)})
  BY <1>1, <1>3, SumUnfolds
<1> HIDE DEF Sf, Sg, Sh
<1>4. ASSUME NEW s \in SUBSET S, \A u \in SUBSET s : u # s => u \in G
      PROVE  s \in G
  <2>1. CASE s = {}
    BY <1>2, <2>1
  <2>2. CASE s # {}
    <3> DEFINE p == Pick(s)
               v == s \ {p}
    <3>1. p \in s /\ v \in SUBSET s /\ v # s /\ v \in SUBSET S
      BY <1>3, <2>2
    <3>2. Sf(s) = f[p] + Sf(v) /\ Sg(s) = g[p] + Sg(v) /\ Sh(s) = h[p] + Sh(v)
      BY <1>3, <2>2
    <3> HIDE DEF p, v
    <3>3. Sh(v) = Sf(v) + Sg(v)
      BY <1>4, <3>1
    <3>4. f[p] \in Int /\ g[p] \in Int /\ h[p] = f[p] + g[p]
      BY <3>1 DEF Summable
    <3>5. Sf(v) \in Int /\ Sg(v) \in Int
      BY <1>1, <3>1
    <3> QED BY <3>2, <3>3, <3>4, <3>5
  <2> QED BY <2>1, <2>2
<1> HIDE DEF G
<1>5. \A s \in SUBSET S : s \in G
  BY <1>4, SubsetInduction DEF Summable
<1> QED BY <1>5 DEF G, Sf, Sg, Sh

\* A sum of natural numbers is one, and at least each of them.
LEMMA SumOfNaturals ==
  ASSUME NEW f, NEW S, IsFiniteSet(S), \A x \in S : f[x] \in Nat
  PROVE  /\ SumFunctionOnSet(f, S) \in Nat
         /\ \A x \in S : f[x] <= SumFunctionOnSet(f, S)
<1> DEFINE G == {s \in SUBSET S : SumFunctionOnSet(f, s) \in Nat}
<1>1. ASSUME NEW s \in SUBSET S, \A u \in SUBSET s : u # s => u \in G
      PROVE  s \in G
  <2>1. CASE s = {}
    BY <2>1, SumOverNone
  <2>2. CASE s # {}
    <3>1. IsFiniteSet(s)
      BY FS_Subset
    <3>2. Pick(s) \in s /\ SumFunctionOnSet(f, s) = f[Pick(s)] + SumFunctionOnSet(f, s \ {Pick(s)})
      BY <2>2, <3>1, SumUnfolds
    <3>3. SumFunctionOnSet(f, s \ {Pick(s)}) \in Nat
      BY <1>1, <3>2
    <3>4. f[Pick(s)] \in Nat
      BY <3>2
    <3> QED BY <3>2, <3>3, <3>4
  <2> QED BY <2>1, <2>2
<1> HIDE DEF G
<1>2. \A s \in SUBSET S : s \in G
  BY <1>1, SubsetInduction
<1>3. \A s \in SUBSET S : SumFunctionOnSet(f, s) \in Nat
  BY <1>2 DEF G
<1>4. Summable(f, S)
  BY DEF Summable
<1>5. ASSUME NEW x \in S
      PROVE  f[x] <= SumFunctionOnSet(f, S)
  <2>1. SumFunctionOnSet(f, S) = f[x] + SumFunctionOnSet(f, S \ {x})
    BY <1>4, SumTakesAny
  <2>2. SumFunctionOnSet(f, S \ {x}) \in Nat /\ f[x] \in Nat
    BY <1>3
  <2> QED BY <2>1, <2>2
<1> QED BY <1>3, <1>5

\* A sum does not grow when no summand does.
LEMMA SumMonotone ==
  ASSUME NEW f, NEW g, NEW S, Summable(f, S), Summable(g, S), \A x \in S : f[x] <= g[x]
  PROVE  SumFunctionOnSet(f, S) <= SumFunctionOnSet(g, S)
<1> DEFINE d == [x \in S |-> g[x] - f[x]]
<1>1. \A x \in S : d[x] \in Nat /\ d[x] \in Int /\ g[x] = f[x] + d[x]
  BY DEF Summable
<1> HIDE DEF d
<1>2. Summable(d, S) /\ IsFiniteSet(S)
  BY <1>1 DEF Summable
<1>3. SumFunctionOnSet(g, S) = SumFunctionOnSet(f, S) + SumFunctionOnSet(d, S)
  BY <1>1, <1>2, SumAdds
<1>4. SumFunctionOnSet(d, S) \in Nat
  BY <1>1, <1>2, SumOfNaturals
<1>5. SumFunctionOnSet(f, S) \in Int
  BY SumIsInt
<1> QED BY <1>3, <1>4, <1>5

\* When one summand changes, the sum changes by as much.
LEMMA SumDiffersAt ==
  ASSUME NEW f, NEW g, NEW S, Summable(f, S), Summable(g, S), NEW x \in S,
         \A y \in S \ {x} : g[y] = f[y]
  PROVE  SumFunctionOnSet(g, S) = SumFunctionOnSet(f, S) + (g[x] - f[x])
<1> DEFINE T == S \ {x}
<1>1. IsFiniteSet(T) /\ T \subseteq S
  BY FS_Subset DEF Summable
<1>2. /\ SumFunctionOnSet(f, S) = f[x] + SumFunctionOnSet(f, T)
      /\ SumFunctionOnSet(g, S) = g[x] + SumFunctionOnSet(g, T)
  BY SumTakesAny
<1>3. \A y \in T : g[y] = f[y]
  OBVIOUS
<1> HIDE DEF T
<1>4. SumFunctionOnSet(g, T) = SumFunctionOnSet(f, T)
  BY <1>1, <1>3, SumAgrees
<1>5. Summable(f, T)
  BY <1>1 DEF Summable
<1>6. SumFunctionOnSet(f, T) \in Int
  BY <1>5, SumIsInt
<1>7. f[x] \in Int /\ g[x] \in Int
  BY DEF Summable
<1> QED BY <1>2, <1>4, <1>6, <1>7

\* Summands that are zero may be left out.
LEMMA SumOverSupport ==
  ASSUME NEW f, NEW S, NEW A \in SUBSET S, Summable(f, S), \A x \in S \ A : f[x] = 0
  PROVE  SumFunctionOnSet(f, S) = SumFunctionOnSet(f, A)
<1> DEFINE Sum(s) == SumFunctionOnSet(f, s)
           B == S \ A
           G == {s \in SUBSET B : Sum(A \cup s) = Sum(A)}
<1>1. IsFiniteSet(B) /\ B \subseteq S
  BY FS_Subset DEF Summable
<1>2. ASSUME NEW s \in SUBSET B, \A u \in SUBSET s : u # s => u \in G
      PROVE  s \in G
  <2>1. CASE s = {}
    <3>1. A \cup s = A
      BY <2>1
    <3> QED BY <3>1
  <2>2. CASE s # {}
    <3>1. PICK x \in s : TRUE
      BY <2>2
    <3>2. Summable(f, A \cup s)
      BY FS_Subset DEF Summable
    <3>3. (A \cup s) \ {x} = A \cup (s \ {x})
      OBVIOUS
    <3>4. Sum(A \cup s) = f[x] + Sum((A \cup s) \ {x})
      BY <3>2, SumTakesAny
    <3>5. f[x] = 0
      OBVIOUS
    <3>6. Sum(A \cup (s \ {x})) = Sum(A)
      BY <1>2
    <3>7. Sum(A) \in Int
      <4>1. Summable(f, A)
        BY FS_Subset DEF Summable
      <4> QED BY <4>1, SumIsInt
    <3>8. Sum(A \cup s) = 0 + Sum(A)
      BY <3>3, <3>4, <3>5, <3>6
    <3> HIDE DEF Sum
    <3> QED BY <3>7, <3>8
  <2> QED BY <2>1, <2>2
<1> HIDE DEF G
<1>3. \A s \in SUBSET B : s \in G
  BY <1>1, <1>2, SubsetInduction
<1>4. A \cup B = S
  OBVIOUS
<1>5. Sum(A \cup B) = Sum(A)
  BY <1>3 DEF G
<1> QED BY <1>4, <1>5

LEMMA SumOfZeros ==
  ASSUME NEW f, NEW S, IsFiniteSet(S), \A x \in S : f[x] = 0
  PROVE  SumFunctionOnSet(f, S) = 0
<1>1. Summable(f, S)
  BY DEF Summable
<1>2. SumFunctionOnSet(f, S) = SumFunctionOnSet(f, {})
  BY <1>1, SumOverSupport
<1> QED BY <1>2, SumOverNone

\* The sums of a table by rows and by columns agree.
LEMMA SumSwaps ==
  ASSUME NEW h, NEW S, NEW T, IsFiniteSet(S), IsFiniteSet(T),
         \A x \in S, y \in T : h[x][y] \in Int,
         NEW t, \A x \in S, y \in T : t[y][x] = h[x][y],
         NEW row, \A x \in S : row[x] = SumFunctionOnSet(h[x], T),
         NEW col, \A y \in T : col[y] = SumFunctionOnSet(t[y], S)
  PROVE  SumFunctionOnSet(row, S) = SumFunctionOnSet(col, T)
<1> DEFINE Column(y) == t[y]
           Part(s) == [y \in T |-> SumFunctionOnSet(Column(y), s)]
           G == {s \in SUBSET S : SumFunctionOnSet(row, s) = SumFunctionOnSet(Part(s), T)}
<1>1. ASSUME NEW s \in SUBSET S
      PROVE  Summable(Part(s), T) /\ \A y \in T : Part(s)[y] = SumFunctionOnSet(Column(y), s)
  <2>1. ASSUME NEW y \in T PROVE Summable(Column(y), s)
    BY FS_Subset DEF Summable
  <2> HIDE DEF Column
  <2>2. \A y \in T : SumFunctionOnSet(Column(y), s) \in Int
    BY <2>1, SumIsInt
  <2> QED BY <2>2 DEF Summable
<1>2. ASSUME NEW x \in S PROVE Summable(h[x], T)
  BY DEF Summable
<1>3. Summable(row, S)
  <2>1. \A x \in S : SumFunctionOnSet(h[x], T) \in Int
    BY <1>2, SumIsInt
  <2> QED BY <2>1 DEF Summable
<1>4. ASSUME NEW s \in SUBSET S, \A u \in SUBSET s : u # s => u \in G
      PROVE  s \in G
  <2>1. CASE s = {}
    <3>1. \A y \in T : Part(s)[y] = 0
      BY <2>1, SumOverNone
    <3>2. SumFunctionOnSet(Part(s), T) = 0
      <4> HIDE DEF Part
      <4> QED BY <3>1, SumOfZeros
    <3> QED BY <2>1, <3>2, SumOverNone
  <2>2. CASE s # {}
    <3>1. PICK p \in s : TRUE
      BY <2>2
    <3> DEFINE v == s \ {p}
    <3>2. v \in SUBSET s /\ v # s /\ v \in SUBSET S /\ p \in S
      OBVIOUS
    <3>3. Summable(row, s)
      BY <1>3, FS_Subset DEF Summable
    <3>4. SumFunctionOnSet(row, s) = row[p] + SumFunctionOnSet(row, v)
      BY <3>3, SumTakesAny
    <3>5. ASSUME NEW y \in T
          PROVE  Part(s)[y] = h[p][y] + Part(v)[y]
      <4>1. Summable(Column(y), s)
        BY FS_Subset DEF Summable
      <4>2. Column(y)[p] = h[p][y]
        BY <3>2
      <4> HIDE DEF Column
      <4>3. SumFunctionOnSet(Column(y), s) = Column(y)[p] + SumFunctionOnSet(Column(y), v)
        BY <4>1, SumTakesAny
      <4> HIDE DEF v
      <4> QED BY <4>2, <4>3
    <3> HIDE DEF v
    <3>6. SumFunctionOnSet(row, v) = SumFunctionOnSet(Part(v), T)
      BY <1>4, <3>2
    <3>7. Summable(Part(v), T)
      BY <1>1, <3>2
    <3> HIDE DEF Part
    <3>8. Summable(h[p], T)
      BY <1>2, <3>2
    <3> DEFINE hp == h[p]
               pv == Part(v)
               ps == Part(s)
    <3>9. \A y \in T : ps[y] = hp[y] + pv[y]
      BY <3>5
    <3>10. Summable(hp, T) /\ Summable(pv, T)
      BY <3>7, <3>8
    <3> HIDE DEF hp, pv, ps
    <3>11. SumFunctionOnSet(ps, T) = SumFunctionOnSet(hp, T) + SumFunctionOnSet(pv, T)
      BY <3>9, <3>10, SumAdds
    <3>12. row[p] = SumFunctionOnSet(hp, T)
      BY <3>2 DEF hp
    <3> QED BY <3>4, <3>6, <3>11, <3>12 DEF pv, ps
  <2> QED BY <2>1, <2>2
<1> HIDE DEF G
<1>5. \A s \in SUBSET S : s \in G
  BY <1>4, SubsetInduction
<1>6. SumFunctionOnSet(row, S) = SumFunctionOnSet(Part(S), T)
  BY <1>5 DEF G
<1>7. \A y \in T : Part(S)[y] = col[y]
  OBVIOUS
<1> HIDE DEF Part
<1>8. SumFunctionOnSet(Part(S), T) = SumFunctionOnSet(col, T)
  BY <1>7, SumAgrees
<1> QED BY <1>6, <1>8

=============================================================================
