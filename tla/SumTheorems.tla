----------------------------- MODULE SumTheorems -----------------------------
(***************************************************************************)
(* Facts the proofs about the wallet need and the library does not state.  *)
(* A set of naturals has a least element and, below a bound, a greatest;   *)
(* the sum of a function over a finite set, SumFunctionOnSet of the        *)
(* community modules, does not depend on the order CHOOSE picks, grows by  *)
(* the value of an added index and moves by what one value moves.          *)
(*                                                                         *)
(* The library states induction with an operator as the predicate, which   *)
(* no prover here can instantiate: NatSetInduction takes the SET of the    *)
(* naturals that satisfy it, which is first order.                         *)
(***************************************************************************)
EXTENDS Integers, FiniteSets, FiniteSetsExt, Functions,
        FiniteSetTheorems, WellFoundedInduction, TLAPS

(* Naturals.                                                                *)

\* Every inhabited set of naturals has a least element.
LEMMA LeastNat ==
  ASSUME NEW T \in SUBSET Nat, T # {}
  PROVE  \E m \in T : \A x \in T : m <= x
<1> DEFINE R == {ss \in Nat \X Nat : ss[1] < ss[2]}
<1>1. OpToRel(<, Nat) = R
  BY DEF OpToRel
<1>2. IsWellFoundedOn(R, Nat)
  BY <1>1, NatLessThanWellFounded
<1>3. PICK m \in T : \A x \in T : ~ (<<x, m>> \in R)
  <2> HIDE DEF R
  <2> QED
    BY <1>2, WFMin
<1>4. ASSUME NEW x \in T PROVE ~(x < m)
  BY <1>3
<1> QED
  BY <1>4

\* Induction over the naturals, with the predicate as a set.
LEMMA NatSetInduction ==
  ASSUME NEW T, 0 \in T, \A n \in Nat : n \in T => n + 1 \in T
  PROVE  Nat \subseteq T
<1> SUFFICES ASSUME Nat \ T # {} PROVE FALSE
  OBVIOUS
<1>1. PICK m \in Nat \ T : \A x \in Nat \ T : m <= x
  BY LeastNat
<1>2. m # 0
  OBVIOUS
<1>3. m - 1 \in Nat /\ m - 1 \in T
  BY <1>1, <1>2
<1> QED
  BY <1>1, <1>3

\* Every inhabited set of naturals below a bound has a greatest element.
LEMMA GreatestBelow ==
  ASSUME NEW S \in SUBSET Nat, S # {}, NEW n \in Nat, \A x \in S : x <= n
  PROVE  \E m \in S : \A x \in S : x <= m
<1> DEFINE T == {k \in Nat : n - k \in S}
<1>1. T \in SUBSET Nat /\ T # {}
  <2>1. PICK x \in S : TRUE
    OBVIOUS
  <2>2. n - x \in Nat /\ n - (n - x) = x
    BY <2>1
  <2> QED
    BY <2>1, <2>2
<1>2. PICK m \in T : \A x \in T : m <= x
  BY <1>1, LeastNat
<1>3. n - m \in S
  BY <1>2
<1>4. ASSUME NEW x \in S PROVE x <= n - m
  <2>1. n - x \in Nat /\ n - (n - x) = x
    OBVIOUS
  <2>2. n - x \in T
    BY <2>1
  <2>3. m <= n - x
    BY <1>2, <2>2
  <2> QED
    BY <1>2, <2>1, <2>3
<1> QED
  BY <1>3, <1>4

-----------------------------------------------------------------------------
(* The recursion behind a sum.                                              *)

\* The element the recursion takes out of a set first.
First(s) == CHOOSE x \in s : TRUE

\* F is the recursive function whose value at S is the sum of f over S.
Sums(F, f, S) ==
  F = [s \in SUBSET S |-> IF s = {} THEN 0 ELSE f[First(s)] + F[s \ {First(s)}]]

\* The sets a set loses its first element to are smaller.
LEMMA FirstRemoved ==
  ASSUME NEW S, IsFiniteSet(S), NEW s \in SUBSET S, NEW x \in s
  PROVE  /\ IsFiniteSet(s) /\ Cardinality(s) \in Nat
         /\ s \ {x} \in SUBSET S
         /\ Cardinality(s \ {x}) = Cardinality(s) - 1
         /\ Cardinality(s \ {x}) \in Nat
<1>1. IsFiniteSet(s)
  BY FS_Subset
<1> QED
  BY <1>1, FS_RemoveElement, FS_CardinalityType

LEMMA FirstIn ==
  ASSUME NEW s, s # {}
  PROVE  First(s) \in s
BY DEF First

\* The sets of no elements and the empty set are the same.
LEMMA NoElements ==
  ASSUME NEW S, IsFiniteSet(S), NEW s \in SUBSET S, Cardinality(s) <= 0
  PROVE  s = {}
<1>1. IsFiniteSet(s) /\ Cardinality(s) \in Nat
  BY FS_Subset, FS_CardinalityType
<1> QED
  BY <1>1, FS_EmptySet

\* The recursion has a solution over every finite set.
LEMMA SumsExist ==
  ASSUME NEW S, IsFiniteSet(S), NEW f
  PROVE  \E F : Sums(F, f, S)
<1> DEFINE Body(F, s) == IF s = {} THEN 0 ELSE f[First(s)] + F[s \ {First(s)}]
           Upto(F, n) == \A s \in SUBSET S : Cardinality(s) <= n => F[s] = Body(F, s)
           T == {n \in Nat : \E F : F = [s \in SUBSET S |-> F[s]] /\ Upto(F, n)}
<1>1. 0 \in T
  <2> DEFINE Z == [s \in SUBSET S |-> 0]
  <2>1. Upto(Z, 0)
    BY NoElements
  <2>2. Z = [s \in SUBSET S |-> Z[s]]
    OBVIOUS
  <2> HIDE DEF Z, Body
  <2> QED
    BY <2>1, <2>2
<1>2. ASSUME NEW n \in Nat, n \in T PROVE n + 1 \in T
  <2>1. PICK F : F = [s \in SUBSET S |-> F[s]] /\ Upto(F, n)
    BY <1>2
  <2> DEFINE G == [s \in SUBSET S |-> Body(F, s)]
  <2>2. ASSUME NEW s \in SUBSET S, Cardinality(s) <= n + 1 PROVE G[s] = Body(G, s)
    <3>1. CASE s = {}
      BY <3>1
    <3>2. CASE s # {}
      <4> DEFINE r == s \ {First(s)}
      <4>1. r \in SUBSET S /\ Cardinality(r) <= n
        BY <3>2, <2>2, FirstRemoved, FirstIn
      <4>2. F[r] = Body(F, r)
        BY <2>1, <4>1
      <4>3. G[r] = Body(F, r)
        BY <4>1
      <4>4. G[s] = f[First(s)] + F[r] /\ Body(G, s) = f[First(s)] + G[r]
        BY <3>2
      <4> QED
        BY <4>2, <4>3, <4>4
    <3> QED
      BY <3>1, <3>2
  <2>3. G = [s \in SUBSET S |-> G[s]]
    OBVIOUS
  <2>4. Upto(G, n + 1)
    <3> HIDE DEF G, Body
    <3> QED
      BY <2>2
  <2>5. \E H : H = [s \in SUBSET S |-> H[s]] /\ Upto(H, n + 1)
    <3> HIDE DEF G, Upto
    <3> QED
      BY <2>3, <2>4
  <2> HIDE DEF G, Upto
  <2> QED
    BY <2>5
<1>3. Cardinality(S) \in T
  <2> HIDE DEF T
  <2> QED
    BY <1>1, <1>2, NatSetInduction, FS_CardinalityType
<1>4. PICK F : F = [s \in SUBSET S |-> F[s]] /\ Upto(F, Cardinality(S))
  BY <1>3
<1>5. ASSUME NEW s \in SUBSET S PROVE F[s] = Body(F, s)
  BY <1>4, FS_Subset
<1> HIDE DEF Body
<1>6. F = [s \in SUBSET S |-> Body(F, s)]
  BY <1>4, <1>5
<1> QED
  BY <1>6 DEF Sums, Body

\* Its values are integers when f's are.
LEMMA SumsAreInt ==
  ASSUME NEW S, IsFiniteSet(S), NEW f \in [S -> Int], NEW F, Sums(F, f, S)
  PROVE  F \in [SUBSET S -> Int]
<1> DEFINE T == {n \in Nat : \A s \in SUBSET S : Cardinality(s) <= n => F[s] \in Int}
<1>0. F[{}] = 0
  BY DEF Sums
<1>1. 0 \in T
  BY <1>0, NoElements
<1>2. ASSUME NEW n \in Nat, n \in T PROVE n + 1 \in T
  <2> SUFFICES ASSUME NEW s \in SUBSET S, Cardinality(s) <= n + 1
               PROVE  F[s] \in Int
    OBVIOUS
  <2>1. CASE s = {}
    BY <1>0, <2>1
  <2>2. CASE s # {}
    <3>1. First(s) \in s /\ s \ {First(s)} \in SUBSET S /\ Cardinality(s \ {First(s)}) <= n
      BY <2>2, FirstIn, FirstRemoved
    <3>2. F[s] = f[First(s)] + F[s \ {First(s)}]
      BY <2>2 DEF Sums
    <3> QED
      BY <1>2, <3>1, <3>2
  <2> QED
    BY <2>1, <2>2
<1>3. Cardinality(S) \in T
  <2> HIDE DEF T
  <2> QED
    BY <1>1, <1>2, NatSetInduction, FS_CardinalityType
<1> QED
  BY <1>3, FS_Subset DEF Sums

LEMMA Swap ==
  ASSUME NEW a \in Int, NEW b \in Int, NEW r \in Int, NEW p, NEW q,
         p = a + (b + r), q = a + r
  PROVE  p = b + q
OBVIOUS

\* It takes out any element, not only the one CHOOSE picks.
LEMMA SumsAnyOrder ==
  ASSUME NEW S, IsFiniteSet(S), NEW f \in [S -> Int], NEW F, Sums(F, f, S),
         NEW u \in SUBSET S, NEW y \in u
  PROVE  F[u] = f[y] + F[u \ {y}]
<1> DEFINE T == {n \in Nat : \A s \in SUBSET S : \A x \in s :
                   Cardinality(s) <= n => F[s] = f[x] + F[s \ {x}]}
<1>1. 0 \in T
  BY NoElements
<1>2. ASSUME NEW n \in Nat, n \in T PROVE n + 1 \in T
  <2> SUFFICES ASSUME NEW s \in SUBSET S, NEW x \in s, Cardinality(s) <= n + 1
               PROVE  F[s] = f[x] + F[s \ {x}]
    OBVIOUS
  <2> DEFINE c == First(s)
  <2>1. c \in s /\ F[s] = f[c] + F[s \ {c}]
    BY FirstIn DEF Sums
  <2>2. CASE x = c
    BY <2>1, <2>2
  <2>3. CASE x # c
    <3> HIDE DEF c
    <3>1. /\ s \ {c} \in SUBSET S /\ Cardinality(s \ {c}) <= n
          /\ s \ {x} \in SUBSET S /\ Cardinality(s \ {x}) <= n
      BY <2>1, FirstRemoved
    <3>2. F[s \ {c}] = f[x] + F[(s \ {c}) \ {x}]
      BY <1>2, <2>3, <3>1
    <3>3. F[s \ {x}] = f[c] + F[(s \ {x}) \ {c}]
      BY <1>2, <2>1, <2>3, <3>1
    <3>4. (s \ {c}) \ {x} = (s \ {x}) \ {c}
      OBVIOUS
    <3>5. F \in [SUBSET S -> Int]
      BY SumsAreInt
    <3>6. F[(s \ {x}) \ {c}] \in Int
      BY <3>5
    <3>7. f[x] \in Int /\ f[c] \in Int
      BY <2>1
    <3>8. F[s] = f[c] + (f[x] + F[(s \ {x}) \ {c}])
      BY <2>1, <3>2, <3>4
    <3> HIDE DEF T
    <3> QED
      BY <3>3, <3>6, <3>7, <3>8, Swap
  <2> QED
    BY <2>2, <2>3
<1>3. Cardinality(S) \in T
  <2> HIDE DEF T
  <2> QED
    BY <1>1, <1>2, NatSetInduction, FS_CardinalityType
<1> QED
  BY <1>3, FS_Subset

\* Two solutions agree on a set on which the functions they add up agree.
LEMMA SumsAgree ==
  ASSUME NEW S, IsFiniteSet(S), NEW f, NEW F, Sums(F, f, S),
         NEW R, NEW g, NEW G, Sums(G, g, R),
         NEW u \in SUBSET (S \cap R), \A x \in u : f[x] = g[x]
  PROVE  F[u] = G[u]
<1> DEFINE T == {n \in Nat : \A s \in SUBSET u : Cardinality(s) <= n => F[s] = G[s]}
<1>0. F[{}] = G[{}]
  BY DEF Sums
<1>1. 0 \in T
  BY <1>0, NoElements
<1>2. ASSUME NEW n \in Nat, n \in T PROVE n + 1 \in T
  <2> SUFFICES ASSUME NEW s \in SUBSET u, Cardinality(s) <= n + 1, s # {}
               PROVE  F[s] = G[s]
    BY <1>0
  <2>1. First(s) \in s /\ s \ {First(s)} \in SUBSET u /\ Cardinality(s \ {First(s)}) <= n
    BY FirstIn, FirstRemoved
  <2>2. F[s] = f[First(s)] + F[s \ {First(s)}]
    BY DEF Sums
  <2>3. G[s] = g[First(s)] + G[s \ {First(s)}]
    BY DEF Sums
  <2> QED
    BY <1>2, <2>1, <2>2, <2>3
<1>3. IsFiniteSet(u)
  BY FS_Subset
<1>4. Cardinality(u) \in T
  <2> HIDE DEF T
  <2> QED
    BY <1>1, <1>2, <1>3, NatSetInduction, FS_CardinalityType
<1> QED
  BY <1>4, <1>3, FS_Subset

-----------------------------------------------------------------------------
(* The sum of a function over a finite set.                                 *)

\* The operator of the community modules is a solution's value.
LEMMA SumIsSums ==
  ASSUME NEW S, IsFiniteSet(S), NEW f
  PROVE  \E F : Sums(F, f, S) /\ SumFunctionOnSet(f, S) = F[S]
<1> DEFINE H == CHOOSE F : Sums(F, f, S)
<1>1. Sums(H, f, S)
  BY SumsExist
<1>2. SumFunctionOnSet(f, S) = H[S]
  BY DEF SumFunctionOnSet, FoldFunctionOnSet, MapThenFoldSet, Sums, First
<1> QED
  BY <1>1, <1>2

\* A sum of integers is an integer; the sum over no index is 0.
LEMMA SumType ==
  ASSUME NEW S, IsFiniteSet(S), NEW f \in [S -> Int]
  PROVE  SumFunctionOnSet(f, S) \in Int
<1>1. PICK F : Sums(F, f, S) /\ SumFunctionOnSet(f, S) = F[S]
  BY SumIsSums
<1>2. F \in [SUBSET S -> Int]
  BY <1>1, SumsAreInt
<1> QED
  BY <1>1, <1>2

LEMMA SumEmpty ==
  ASSUME NEW f
  PROVE  SumFunctionOnSet(f, {}) = 0
<1>1. PICK F : Sums(F, f, {}) /\ SumFunctionOnSet(f, {}) = F[{}]
  BY SumIsSums, FS_EmptySet
<1> QED
  BY <1>1 DEF Sums

\* Only the values at the indices count.
LEMMA SumAgree ==
  ASSUME NEW S, IsFiniteSet(S), NEW f, NEW g, \A x \in S : f[x] = g[x]
  PROVE  SumFunctionOnSet(f, S) = SumFunctionOnSet(g, S)
<1>1. PICK F : Sums(F, f, S) /\ SumFunctionOnSet(f, S) = F[S]
  BY SumIsSums
<1>2. PICK G : Sums(G, g, S) /\ SumFunctionOnSet(g, S) = G[S]
  BY SumIsSums
<1> QED
  BY <1>1, <1>2, SumsAgree

\* A new index adds its value.
LEMMA SumAdd ==
  ASSUME NEW S, IsFiniteSet(S), NEW x, x \notin S,
         NEW f, NEW g \in [S \cup {x} -> Int], \A y \in S : f[y] = g[y]
  PROVE  SumFunctionOnSet(g, S \cup {x}) = SumFunctionOnSet(f, S) + g[x]
<1> DEFINE R == S \cup {x}
<1>1. IsFiniteSet(R)
  BY FS_AddElement
<1>2. PICK F : Sums(F, f, S) /\ SumFunctionOnSet(f, S) = F[S]
  BY SumIsSums
<1>3. PICK G : Sums(G, g, R) /\ SumFunctionOnSet(g, R) = G[R]
  BY <1>1, SumIsSums
<1>4. G[R] = g[x] + G[R \ {x}]
  BY <1>1, <1>3, SumsAnyOrder
<1>5. R \ {x} = S
  OBVIOUS
<1>6. F[S] = G[S]
  BY <1>2, <1>3, SumsAgree
<1>7. G \in [SUBSET R -> Int]
  BY <1>1, <1>3, SumsAreInt
<1>8. G[S] \in Int /\ g[x] \in Int
  BY <1>7
<1>9. SumFunctionOnSet(g, R) = g[x] + G[S]
  BY <1>3, <1>4, <1>5
<1> QED
  BY <1>2, <1>6, <1>8, <1>9

\* A value that moves moves the sum by as much.
LEMMA SumMove ==
  ASSUME NEW S, IsFiniteSet(S), NEW x \in S,
         NEW f \in [S -> Int], NEW g \in [S -> Int],
         \A y \in S \ {x} : f[y] = g[y]
  PROVE  SumFunctionOnSet(g, S) = SumFunctionOnSet(f, S) + (g[x] - f[x])
<1> DEFINE R == S \ {x}
<1>1. PICK F : Sums(F, f, S) /\ SumFunctionOnSet(f, S) = F[S]
  BY SumIsSums
<1>2. PICK G : Sums(G, g, S) /\ SumFunctionOnSet(g, S) = G[S]
  BY SumIsSums
<1>0. S \in SUBSET S
  OBVIOUS
<1>3. F[S] = f[x] + F[R]
  <2>1. Sums(F, f, S)
    BY <1>1
  <2> QED
    BY <1>0, <2>1, SumsAnyOrder
<1>6. G[S] = g[x] + G[R]
  <2>1. Sums(G, g, S)
    BY <1>2
  <2> QED
    BY <1>0, <2>1, SumsAnyOrder
<1>4. F[R] = G[R]
  BY <1>1, <1>2, SumsAgree
<1>5. F \in [SUBSET S -> Int]
  BY <1>1, SumsAreInt
<1>7. F[R] \in Int /\ f[x] \in Int /\ g[x] \in Int
  BY <1>5
<1> QED
  BY <1>1, <1>2, <1>3, <1>4, <1>6, <1>7
=============================================================================
