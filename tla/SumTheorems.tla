----------------------------- MODULE SumTheorems -----------------------------
(***************************************************************************)
(* Least and greatest numbers, and sums over finite sets.  The library's   *)
(* induction theorems take a predicate as parameter, which no prover here  *)
(* can instantiate: these proofs take a least counterexample instead.      *)
(***************************************************************************)
EXTENDS Integers, Functions, FiniteSetTheorems, WellFoundedInduction, TLAPS

(***************************************************************************)
(* Numbers.                                                                *)
(***************************************************************************)
LEMMA LeastNumber ==
  ASSUME NEW T \in SUBSET Nat, T # {}
  PROVE  \E n \in T : \A m \in T : n <= m
<1>1. PICK n \in T : \A m \in T : ~(<<m, n>> \in OpToRel(<, Nat))
  BY NatLessThanWellFounded, WFMin
<1>2. \A m \in T : ~(m < n)
  BY <1>1 DEF OpToRel
<1>3. QED BY <1>2

LEMMA GreatestNumber ==
  ASSUME NEW b \in Nat, NEW T \in SUBSET (0..b), T # {}
  PROVE  \E n \in T : \A m \in T : n >= m
<1> DEFINE U == {n \in Nat : \A m \in T : n >= m}
<1>1. b \in U
  OBVIOUS
<1>2. PICK n \in U : \A m \in U : n <= m
  <2>1. U \in SUBSET Nat /\ U # {}
    BY <1>1
  <2> HIDE DEF U
  <2>2. QED BY <2>1, LeastNumber
<1>3. CASE n \in T
  BY <1>2, <1>3
<1>4. CASE n \notin T
  <2>1. \A m \in T : n > m /\ n - 1 >= m /\ n - 1 \in Nat
    BY <1>2, <1>4
  <2>2. n - 1 \in U
    BY <2>1
  <2>3. QED BY <1>2, <2>2
<1>5. QED BY <1>3, <1>4

(***************************************************************************)
(* Sums.                                                                   *)
(***************************************************************************)
LEMMA SmallestSubset ==
  ASSUME NEW S, IsFiniteSet(S), NEW T \in SUBSET (SUBSET S), T # {}
  PROVE  \E s \in T : \A t \in T : t \subseteq s => t = s
<1> DEFINE sizes == {Cardinality(t) : t \in T}
<1>1. \A t \in T : IsFiniteSet(t) /\ Cardinality(t) \in Nat
  BY FS_Subset, FS_CardinalityType
<1>2. PICK n \in sizes : \A m \in sizes : n <= m
  <2>1. sizes \in SUBSET Nat /\ sizes # {}
    BY <1>1
  <2> HIDE DEF sizes
  <2>2. QED BY <2>1, LeastNumber
<1>3. PICK s \in T : n = Cardinality(s)
  BY <1>2
<1>4. ASSUME NEW t \in T, t \subseteq s PROVE t = s
  <2>1. Cardinality(t) <= Cardinality(s) /\ (Cardinality(s) = Cardinality(t) => s = t)
    BY <1>1, <1>4, FS_Subset
  <2>2. Cardinality(s) <= Cardinality(t)
    BY <1>2, <1>3
  <2>3. QED BY <1>1, <2>1, <2>2
<1>5. QED BY <1>4

Member(s) == CHOOSE x \in s : TRUE

(* The function that the library's sum unfolds to.                         *)
Unfolds(g, F, S) ==
  g = [s \in SUBSET S |-> IF s = {} THEN 0 ELSE F[Member(s)] + g[s \ {Member(s)}]]

LEMMA MemberType == \A s : s # {} => Member(s) \in s
BY DEF Member

LEMMA UnfoldsEqually ==
  ASSUME NEW F, NEW G, NEW S, IsFiniteSet(S), NEW R \in SUBSET S,
         \A x \in R : F[x] = G[x],
         NEW g, Unfolds(g, F, S), NEW h, Unfolds(h, G, R)
  PROVE  \A s \in SUBSET R : g[s] = h[s]
<1> DEFINE T == {s \in SUBSET R : g[s] # h[s]}
<1>1. SUFFICES ASSUME T # {} PROVE FALSE
  OBVIOUS
<1>2. PICK s \in T : \A t \in T : t \subseteq s => t = s
  <2>1. T \in SUBSET (SUBSET S)
    OBVIOUS
  <2> HIDE DEF T
  <2>2. QED BY <1>1, <2>1, SmallestSubset
<1>3. s # {}
  BY DEF Unfolds
<1>4. PICK r : r = s \ {Member(s)}
  OBVIOUS
<1>5. Member(s) \in R /\ r \in SUBSET R /\ g[r] = h[r]
  BY <1>2, <1>3, <1>4, MemberType
<1>6. g[s] = F[Member(s)] + g[r] /\ h[s] = G[Member(s)] + h[r]
  BY <1>3, <1>4 DEF Unfolds
<1>7. QED BY <1>5, <1>6

LEMMA UnfoldsAlike ==
  ASSUME NEW F, NEW S, IsFiniteSet(S), NEW R \in SUBSET S,
         NEW g, Unfolds(g, F, S), NEW h, Unfolds(h, F, R)
  PROVE  g[R] = h[R]
<1>1. PICK G : G = F
  OBVIOUS
<1>2. Unfolds(h, G, R) /\ \A x \in R : F[x] = G[x]
  BY <1>1
<1>3. /\ IsFiniteSet(S) /\ R \in SUBSET S /\ \A x \in R : F[x] = G[x]
      /\ Unfolds(g, F, S) /\ Unfolds(h, G, R)
  BY <1>2
<1>4. \A s \in SUBSET R : g[s] = h[s]
  BY <1>3, UnfoldsEqually
<1>5. QED BY <1>4

LEMMA UnfoldingExists ==
  ASSUME NEW F, NEW S, IsFiniteSet(S)
  PROVE  \E g : Unfolds(g, F, S)
<1> DEFINE Unfold(g, s) == IF s = {} THEN 0 ELSE F[Member(s)] + g[s \ {Member(s)}]
           UpTo(g, n) == \A s \in SUBSET S : Cardinality(s) <= n => g[s] = Unfold(g, s)
           T == {n \in Nat : \A g : ~UpTo(g, n)}
<1>1. T = {}
  <2>1. SUFFICES ASSUME T # {} PROVE FALSE
    OBVIOUS
  <2>2. PICK n \in T : \A m \in T : n <= m
    BY <2>1, LeastNumber
  <2>3. \A s \in SUBSET S : Cardinality(s) \in Nat /\ IsFiniteSet(s)
    BY FS_Subset, FS_CardinalityType
  <2>4. n # 0
    <3>1. \A s \in SUBSET S : Cardinality(s) <= 0 => s = {}
      BY <2>3, FS_EmptySet
    <3>2. UpTo([s \in SUBSET S |-> 0], 0)
      BY <3>1
    <3>3. QED BY <3>2
  <2>5. PICK g : UpTo(g, n - 1)
    <3>1. n \in Nat /\ n - 1 \in Nat /\ ~(n <= n - 1)
      BY <2>4
    <3>2. n - 1 \notin T
      BY <2>2, <3>1
    <3>3. QED BY <3>1, <3>2
  <2>6. PICK h : h = [s \in SUBSET S |-> Unfold(g, s)]
    OBVIOUS
  <2>7. ASSUME NEW s \in SUBSET S, Cardinality(s) <= n PROVE h[s] = Unfold(h, s)
    <3>1. CASE s = {}
      BY <2>6, <3>1
    <3>2. CASE s # {}
      <4>1. PICK r : r = s \ {Member(s)}
        OBVIOUS
      <4>2. r \in SUBSET S /\ Cardinality(r) = Cardinality(s) - 1
        BY <2>3, <3>2, <4>1, MemberType, FS_RemoveElement
      <4>3. Cardinality(r) <= n - 1
        BY <2>3, <2>7, <4>2
      <4>4. h[r] = g[r]
        BY <2>5, <2>6, <4>2, <4>3
      <4>5. QED BY <2>6, <3>2, <4>1, <4>4
    <3>3. QED BY <3>1, <3>2
  <2>8. QED BY <2>7
<1>2. Cardinality(S) \in Nat /\ \A s \in SUBSET S : Cardinality(s) <= Cardinality(S)
  BY FS_Subset, FS_CardinalityType
<1>3. PICK g : UpTo(g, Cardinality(S))
  BY <1>1, <1>2
<1>4. PICK h : h = [s \in SUBSET S |-> g[s]]
  OBVIOUS
<1>5. \A s \in SUBSET S : h[s] = Unfold(h, s)
  BY <1>2, <1>3, <1>4
<1>6. Unfolds(h, F, S)
  BY <1>4, <1>5 DEF Unfolds
<1>7. QED BY <1>6

LEMMA SumUnfolds ==
  ASSUME NEW F, NEW S, IsFiniteSet(S)
  PROVE  \E g : Unfolds(g, F, S) /\ \A s \in SUBSET S : SumFunctionOnSet(F, s) = g[s]
<1>1. \A R : SumFunctionOnSet(F, R) = (CHOOSE g : Unfolds(g, F, R))[R]
  BY DEF SumFunctionOnSet, FoldFunctionOnSet, MapThenFoldSet, Unfolds, Member
<1>2. PICK g : Unfolds(g, F, S)
  BY UnfoldingExists
<1>3. ASSUME NEW s \in SUBSET S PROVE SumFunctionOnSet(F, s) = g[s]
  <2>1. PICK h : h = CHOOSE k : Unfolds(k, F, s)
    OBVIOUS
  <2>2. Unfolds(h, F, s)
    BY <2>1, UnfoldingExists, FS_Subset
  <2>3. g[s] = h[s]
    BY <1>2, <2>2, UnfoldsAlike
  <2>4. QED BY <1>1, <2>1, <2>3
<1>4. QED BY <1>2, <1>3

LEMMA SumRecursion ==
  ASSUME NEW F, NEW S, IsFiniteSet(S)
  PROVE  /\ SumFunctionOnSet(F, {}) = 0
         /\ \A s \in SUBSET S : s # {} =>
              SumFunctionOnSet(F, s) = F[Member(s)] + SumFunctionOnSet(F, s \ {Member(s)})
<1>1. PICK g : Unfolds(g, F, S) /\ \A s \in SUBSET S : SumFunctionOnSet(F, s) = g[s]
  BY SumUnfolds
<1>2. g[{}] = 0 /\ \A s \in SUBSET S : s # {} => g[s] = F[Member(s)] + g[s \ {Member(s)}]
  BY <1>1 DEF Unfolds
<1>3. QED BY <1>1, <1>2

LEMMA SumType ==
  ASSUME NEW F, NEW S, IsFiniteSet(S), \A x \in S : F[x] \in Nat
  PROVE  \A s \in SUBSET S : SumFunctionOnSet(F, s) \in Nat
<1> DEFINE T == {s \in SUBSET S : SumFunctionOnSet(F, s) \notin Nat}
<1>1. SUFFICES ASSUME T # {} PROVE FALSE
  OBVIOUS
<1>2. PICK s \in T : \A t \in T : t \subseteq s => t = s
  <2>1. T \in SUBSET (SUBSET S)
    OBVIOUS
  <2> HIDE DEF T
  <2>2. QED BY <1>1, <2>1, SmallestSubset
<1>3. s # {}
  BY SumRecursion
<1>4. PICK r : r = s \ {Member(s)}
  OBVIOUS
<1>5. Member(s) \in S /\ SumFunctionOnSet(F, r) \in Nat
  BY <1>2, <1>3, <1>4, MemberType
<1>6. SumFunctionOnSet(F, s) = F[Member(s)] + SumFunctionOnSet(F, r)
  BY <1>3, <1>4, SumRecursion
<1>7. QED BY <1>5, <1>6

(* Whichever element is taken first.                                       *)
LEMMA SumStep ==
  ASSUME NEW F, NEW S, IsFiniteSet(S), \A x \in S : F[x] \in Nat
  PROVE  \A s \in SUBSET S : \A x \in s :
           SumFunctionOnSet(F, s) = F[x] + SumFunctionOnSet(F, s \ {x})
<1> DEFINE Sum(s) == SumFunctionOnSet(F, s)
           Good(s) == \A x \in s : Sum(s) = F[x] + Sum(s \ {x})
           T == {s \in SUBSET S : ~Good(s)}
<1>1. SUFFICES ASSUME T # {} PROVE FALSE
  OBVIOUS
<1>2. PICK s \in T : \A t \in T : t \subseteq s => t = s
  <2>1. T \in SUBSET (SUBSET S)
    OBVIOUS
  <2> HIDE DEF T
  <2>2. QED BY <1>1, <2>1, SmallestSubset
<1>3. PICK x \in s : Sum(s) # F[x] + Sum(s \ {x})
  OBVIOUS
<1>4. PICK y, t, u, v : /\ y = Member(s) /\ t = s \ {y} /\ u = s \ {x}
                       /\ v = s \ {x, y}
  OBVIOUS
<1>5. /\ y \in s /\ x # y /\ x \in t /\ y \in u /\ t \ {x} = v /\ u \ {y} = v
      /\ s \subseteq S /\ t \subseteq S /\ u \subseteq S /\ v \subseteq S
      /\ t # s /\ u # s /\ t \subseteq s /\ u \subseteq s
      /\ Sum(s) = F[y] + Sum(t)
  BY <1>3, <1>4, MemberType, SumRecursion
<1>6. Good(t) /\ Good(u)
  BY <1>2, <1>5
<1>7. Sum(t) = F[x] + Sum(v) /\ Sum(u) = F[y] + Sum(v)
  BY <1>5, <1>6
<1>8. /\ Sum(s) \in Nat /\ Sum(t) \in Nat /\ Sum(u) \in Nat /\ Sum(v) \in Nat
      /\ F[x] \in Nat /\ F[y] \in Nat
  BY <1>5, SumType
<1>9. Sum(s) # F[x] + Sum(u)
  BY <1>3, <1>4
<1> HIDE DEF Sum
<1>10. QED BY <1>5, <1>7, <1>8, <1>9

LEMMA SumSame ==
  ASSUME NEW F, NEW G, NEW S, IsFiniteSet(S), \A x \in S : F[x] = G[x]
  PROVE  SumFunctionOnSet(F, S) = SumFunctionOnSet(G, S)
<1>1. PICK g : Unfolds(g, F, S) /\ SumFunctionOnSet(F, S) = g[S]
  BY SumUnfolds
<1>2. PICK h : Unfolds(h, G, S) /\ SumFunctionOnSet(G, S) = h[S]
  BY SumUnfolds
<1>3. S \in SUBSET S
  OBVIOUS
<1>4. g[S] = h[S]
  BY <1>1, <1>2, <1>3, UnfoldsEqually
<1>5. QED BY <1>1, <1>2, <1>4

(* One value grows.                                                        *)
LEMMA SumMore ==
  ASSUME NEW S, IsFiniteSet(S), NEW F, NEW G, \A x \in S : F[x] \in Nat /\ G[x] \in Nat,
         NEW r \in S, NEW a \in Nat, G[r] = F[r] + a, \A x \in S \ {r} : F[x] = G[x]
  PROVE  SumFunctionOnSet(G, S) = SumFunctionOnSet(F, S) + a
<1>1. PICK R : R = S \ {r}
  OBVIOUS
<1>2. IsFiniteSet(R) /\ S \in SUBSET S /\ R \in SUBSET S
  BY <1>1, FS_Subset
<1>3. /\ SumFunctionOnSet(F, S) = F[r] + SumFunctionOnSet(F, R)
      /\ SumFunctionOnSet(G, S) = G[r] + SumFunctionOnSet(G, R)
  BY <1>1, <1>2, SumStep
<1>4. SumFunctionOnSet(F, R) = SumFunctionOnSet(G, R) /\ SumFunctionOnSet(F, R) \in Nat
  BY <1>1, <1>2, SumSame, SumType
<1>5. QED BY <1>3, <1>4


LEMMA SumSplit ==
  ASSUME NEW F, NEW S, IsFiniteSet(S), \A x \in S : F[x] \in Nat
  PROVE  \A a, b \in SUBSET S : a \cap b = {} =>
           SumFunctionOnSet(F, a \cup b) = SumFunctionOnSet(F, a) + SumFunctionOnSet(F, b)
<1> DEFINE Sum(s) == SumFunctionOnSet(F, s)
           Bad(a, b) == a \cap b = {} /\ Sum(a \cup b) # Sum(a) + Sum(b)
           T == {b \in SUBSET S : \E a \in SUBSET S : Bad(a, b)}
<1>1. SUFFICES ASSUME T # {} PROVE FALSE
  OBVIOUS
<1>2. PICK b \in T : \A t \in T : t \subseteq b => t = b
  <2>1. T \in SUBSET (SUBSET S)
    OBVIOUS
  <2> HIDE DEF T
  <2>2. QED BY <1>1, <2>1, SmallestSubset
<1>3. PICK a \in SUBSET S : Bad(a, b)
  OBVIOUS
<1>4. Sum({}) = 0 /\ \A s \in SUBSET S : Sum(s) \in Nat
  BY SumRecursion, SumType
<1>5. b # {}
  <2>1. a \cup {} = a
    OBVIOUS
  <2>2. Sum(a) \in Nat
    BY <1>4
  <2> HIDE DEF Sum
  <2>3. QED BY <1>3, <1>4, <2>1, <2>2
<1>6. PICK x, c : x \in b /\ c = b \ {x}
  BY <1>5
<1>7. /\ c \in SUBSET S /\ c \subseteq b /\ c # b /\ a \cap c = {}
      /\ x \in S /\ x \in a \cup b /\ (a \cup b) \ {x} = a \cup c
      /\ b \in SUBSET S /\ a \cup b \in SUBSET S /\ a \cup c \in SUBSET S
  BY <1>3, <1>6
<1>8. Sum(a \cup c) = Sum(a) + Sum(c)
  BY <1>2, <1>7
<1>9. Sum(b) = F[x] + Sum(c) /\ Sum(a \cup b) = F[x] + Sum(a \cup c)
  BY <1>6, <1>7, SumStep
<1>10. Sum(a \cup b) # Sum(a) + Sum(b) /\ F[x] \in Nat /\ Sum(a) \in Nat /\ Sum(c) \in Nat
  BY <1>3, <1>4, <1>7
<1> HIDE DEF Sum
<1>11. QED BY <1>8, <1>9, <1>10

LEMMA SumLess ==
  ASSUME NEW F, NEW G, NEW S, IsFiniteSet(S),
         \A x \in S : F[x] \in Nat /\ G[x] \in Nat /\ F[x] <= G[x]
  PROVE  SumFunctionOnSet(F, S) <= SumFunctionOnSet(G, S)
<1> DEFINE Less(s) == SumFunctionOnSet(F, s) <= SumFunctionOnSet(G, s)
           T == {s \in SUBSET S : ~Less(s)}
<1>1. SUFFICES ASSUME T # {} PROVE FALSE
  OBVIOUS
<1>2. PICK s \in T : \A t \in T : t \subseteq s => t = s
  <2>1. T \in SUBSET (SUBSET S)
    OBVIOUS
  <2> HIDE DEF T
  <2>2. QED BY <1>1, <2>1, SmallestSubset
<1>3. s # {}
  BY <1>2, SumRecursion
<1>4. PICK x, r : x \in s /\ r = s \ {x}
  BY <1>3
<1>5. r \in SUBSET S /\ r \subseteq s /\ r # s /\ x \in S /\ s \in SUBSET S
  BY <1>4
<1>6. /\ SumFunctionOnSet(F, s) = F[x] + SumFunctionOnSet(F, r)
      /\ SumFunctionOnSet(G, s) = G[x] + SumFunctionOnSet(G, r)
      /\ SumFunctionOnSet(F, r) \in Nat /\ SumFunctionOnSet(G, r) \in Nat
  BY <1>4, <1>5, SumStep, SumType
<1>7. Less(r)
  BY <1>2, <1>5
<1>8. F[x] \in Nat /\ G[x] \in Nat /\ F[x] <= G[x]
  BY <1>5
<1>9. Less(s)
  BY <1>6, <1>7, <1>8
<1>10. QED BY <1>2, <1>9

(* A part of a sum is no greater.                                          *)
LEMMA SumPart ==
  ASSUME NEW F, NEW S, IsFiniteSet(S), \A x \in S : F[x] \in Nat,
         NEW b \in SUBSET S, NEW a \in SUBSET b
  PROVE  SumFunctionOnSet(F, a) <= SumFunctionOnSet(F, b)
<1>1. PICK c : c = b \ a
  OBVIOUS
<1>2. a \in SUBSET S /\ c \in SUBSET S /\ a \cap c = {} /\ a \cup c = b
  BY <1>1
<1>3. SumFunctionOnSet(F, b) = SumFunctionOnSet(F, a) + SumFunctionOnSet(F, c)
  BY <1>2, SumSplit
<1>4. SumFunctionOnSet(F, a) \in Nat /\ SumFunctionOnSet(F, c) \in Nat
  BY <1>2, SumType
<1>5. QED BY <1>3, <1>4

(* Summing group by group: x belongs to group k[x], whose sum is H.        *)
Group(S, k, y) == {x \in S : k[x] = y}

LEMMA SumByGroups ==
  ASSUME NEW F, NEW S, IsFiniteSet(S), \A x \in S : F[x] \in Nat, NEW k,
         NEW Y, IsFiniteSet(Y), NEW H,
         \A x \in S : k[x] \in Y,
         \A y \in Y : H[y] = SumFunctionOnSet(F, Group(S, k, y))
  PROVE  SumFunctionOnSet(H, Y) = SumFunctionOnSet(F, S)
<1> DEFINE In(Z) == {x \in S : k[x] \in Z}
           Same(Z) == SumFunctionOnSet(H, Z) = SumFunctionOnSet(F, In(Z))
           T == {Z \in SUBSET Y : ~Same(Z)}
<1>1. SUFFICES ASSUME T # {} PROVE FALSE
  <2>1. In(Y) = S
    OBVIOUS
  <2>2. T = {} => Same(Y)
    OBVIOUS
  <2>3. QED BY <2>1, <2>2
<1>2. PICK Z \in T : \A t \in T : t \subseteq Z => t = Z
  <2>1. T \in SUBSET (SUBSET Y)
    OBVIOUS
  <2> HIDE DEF T
  <2>2. QED BY <1>1, <2>1, SmallestSubset
<1>3. \A y \in Y : H[y] \in Nat
  <2>1. ASSUME NEW y \in Y, NEW g, g = Group(S, k, y) PROVE H[y] \in Nat
    <3>1. g \in SUBSET S /\ H[y] = SumFunctionOnSet(F, g)
      BY <2>1 DEF Group
    <3>2. QED BY <3>1, SumType
  <2>2. QED BY <2>1
<1>4. Z # {}
  <2>1. In({}) = {}
    OBVIOUS
  <2>2. SumFunctionOnSet(F, {}) = 0 /\ SumFunctionOnSet(H, {}) = 0
    BY SumRecursion
  <2>3. QED BY <1>2, <2>1, <2>2
<1>5. PICK y, W : y \in Z /\ W = Z \ {y}
  BY <1>4
<1>6. W \in SUBSET Y /\ W \subseteq Z /\ W # Z /\ y \in Y /\ Z \in SUBSET Y
  BY <1>5
<1>7. SumFunctionOnSet(H, Z) = H[y] + SumFunctionOnSet(H, W)
  BY <1>3, <1>5, <1>6, SumStep
<1>8. SumFunctionOnSet(H, W) = SumFunctionOnSet(F, In(W))
  BY <1>2, <1>6
<1>9. PICK g : g = Group(S, k, y)
  OBVIOUS
<1>10. /\ g \in SUBSET S /\ In(W) \in SUBSET S
       /\ g \cap In(W) = {} /\ g \cup In(W) = In(Z)
  BY <1>5, <1>9 DEF Group
<1>11. SumFunctionOnSet(F, In(Z)) = SumFunctionOnSet(F, g) + SumFunctionOnSet(F, In(W))
  <2> HIDE DEF In
  <2>1. SumFunctionOnSet(F, g \cup In(W)) = SumFunctionOnSet(F, g) + SumFunctionOnSet(F, In(W))
    BY <1>10, SumSplit
  <2>2. QED BY <1>10, <2>1
<1>12. Same(Z)
  BY <1>6, <1>7, <1>8, <1>9, <1>11
<1>13. QED BY <1>2, <1>12
=============================================================================
