-------------------------- MODULE FiniteSumProofs --------------------------
(***************************************************************************)
(* What the ledgers of this project need of sums over finite sets.  The    *)
(* counters of the code (a limit's current_value, the tokens an account    *)
(* has leased) are compared with MapThenSumSet over the records that are   *)
(* charged; the lemmas here say how such a sum changes when a record comes,*)
(* goes or changes its weight.                                             *)
(*                                                                         *)
(* The weights are a function f.  A sum is the value at S of the function  *)
(* on SUBSET S that takes one element after the other away (IsFold); that  *)
(* it exists, is unique and does not depend on the order is shown with the *)
(* least-element principle of the strict subset ordering.                  *)
(***************************************************************************)
EXTENDS Integers, FiniteSets, FiniteSetTheorems, WellFoundedInduction, TLAPS

Pick(s) == CHOOSE x \in s : TRUE

IsFold(g, f, S) ==
    g = [s \in SUBSET S |-> IF s = {} THEN 0 ELSE f[Pick(s)] + g[s \ {Pick(s)}]]

SumOf(f, S) == (CHOOSE g : IsFold(g, f, S))[S]

\* Among some subsets of a finite set one has no other of them inside.
LEMMA LeastSubset ==
    ASSUME NEW S, IsFiniteSet(S), NEW B, B \subseteq SUBSET S, B # {}
    PROVE  \E b \in B : \A c \in B : c \subseteq b => c = b
<1>1. IsWellFoundedOn(StrictSubsetOrdering(S), SUBSET S)
  BY FS_StrictSubsetOrderingWellFounded, FS_FiniteSubsetsOfFinite
<1>2. PICK b \in B : \A c \in B : ~(<<c, b>> \in StrictSubsetOrdering(S))
  BY <1>1, WFMin
<1>3. ASSUME NEW c \in B, c \subseteq b, c # b
      PROVE  <<c, b>> \in StrictSubsetOrdering(S)
  BY <1>3 DEF StrictSubsetOrdering
<1>4. \A c \in B : c \subseteq b => c = b
  BY <1>2, <1>3
<1> QED BY <1>4

\* Induction over the subsets of a finite set, with the good ones as a set.
LEMMA SubsetInduction ==
    ASSUME NEW S, IsFiniteSet(S), NEW G,
           \A T \in SUBSET S : (\A U \in SUBSET T : U # T => U \in G) => T \in G
    PROVE  \A T \in SUBSET S : T \in G
<1> DEFINE B == {T \in SUBSET S : T \notin G}
<1> SUFFICES ASSUME B # {} PROVE FALSE
  OBVIOUS
<1>1. PICK b \in B : \A c \in B : c \subseteq b => c = b
  <2>1. B \subseteq SUBSET S
    OBVIOUS
  <2> HIDE DEF B
  <2> QED BY <2>1, LeastSubset
<1>2. \A U \in SUBSET b : U # b => U \in G
  BY <1>1
<1> QED BY <1>2

LEMMA PickIn ==
    ASSUME NEW s, s # {}
    PROVE  Pick(s) \in s
BY DEF Pick

LEMMA FoldAt ==
    ASSUME NEW f, NEW S, NEW g, IsFold(g, f, S), NEW s \in SUBSET S
    PROVE  /\ s = {} => g[s] = 0
           /\ s # {} => g[s] = f[Pick(s)] + g[s \ {Pick(s)}]
BY DEF IsFold

\* Two folds agree on what both have, if their weights do.
LEMMA FoldUnique ==
    ASSUME NEW S, IsFiniteSet(S), NEW f, NEW D, IsFiniteSet(D), NEW g, IsFold(g, f, D),
           NEW e, NEW C, NEW h, IsFold(h, e, C),
           S \subseteq D, S \subseteq C, \A x \in S : f[x] = e[x]
    PROVE  g[S] = h[S]
<1>a. ASSUME NEW s \in SUBSET D
      PROVE  /\ s = {} => g[s] = 0
             /\ s # {} => g[s] = f[Pick(s)] + g[s \ {Pick(s)}]
  BY FoldAt
<1>b. ASSUME NEW s \in SUBSET C
      PROVE  /\ s = {} => h[s] = 0
             /\ s # {} => h[s] = e[Pick(s)] + h[s \ {Pick(s)}]
  <2>1. IsFold(h, e, C)
    OBVIOUS
  <2> QED BY ONLY <2>1, <1>b, FoldAt
<1> DEFINE G == {T \in SUBSET S : g[T] = h[T]}
<1>1. ASSUME NEW T \in SUBSET S, \A U \in SUBSET T : U # T => U \in G
      PROVE  T \in G
  <2>1. T \in SUBSET D /\ T \in SUBSET C
    OBVIOUS
  <2>2. CASE T = {}
    BY <1>a, <1>b, <2>1, <2>2
  <2>3. CASE T # {}
    <3>1. PICK x : x = Pick(T)
      OBVIOUS
    <3>2. x \in T /\ f[x] = e[x]
      BY <2>3, <3>1, PickIn
    <3>3. g[T \ {x}] = h[T \ {x}]
      BY <1>1, <3>2
    <3>4. g[T] = f[x] + g[T \ {x}]
      <4>1. g[T] = f[Pick(T)] + g[T \ {Pick(T)}]
        BY <1>a, <2>1, <2>3
      <4> QED BY <3>1, <4>1
    <3>5. h[T] = e[x] + h[T \ {x}]
      <4>1. h[T] = e[Pick(T)] + h[T \ {Pick(T)}]
        BY <1>b, <2>1, <2>3
      <4> QED BY <3>1, <4>1
    <3> QED BY <3>2, <3>3, <3>4, <3>5
  <2> QED BY <2>2, <2>3
<1>2. S \in G
  <2> HIDE DEF G
  <2>1. \A T \in SUBSET S : (\A U \in SUBSET T : U # T => U \in G) => T \in G
    BY <1>1
  <2>2. \A T \in SUBSET S : T \in G
    BY <2>1, SubsetInduction
  <2> QED BY <2>2
<1> QED BY <1>2

LEMMA FoldExists ==
    ASSUME NEW S, IsFiniteSet(S), NEW f
    PROVE  \E g : IsFold(g, f, S)
<1> DEFINE G == {T \in SUBSET S : \E g : IsFold(g, f, T)}
<1>1. ASSUME NEW T \in SUBSET S, \A U \in SUBSET T : U # T => U \in G
      PROVE  T \in G
  <2> DEFINE h == [s \in SUBSET T |-> IF s = {} THEN 0
                     ELSE f[Pick(s)] + SumOf(f, s \ {Pick(s)})]
  <2>1. ASSUME NEW u \in SUBSET T, u # T
        PROVE  IsFold(CHOOSE g : IsFold(g, f, u), f, u)
    <3>1. \E g : IsFold(g, f, u)
      BY <1>1, <2>1
    <3> QED BY <3>1
  <2>2. ASSUME NEW u \in SUBSET T, u # T
        PROVE  h[u] = SumOf(f, u)
    <3>1. PICK g : g = CHOOSE q : IsFold(q, f, u)
      OBVIOUS
    <3>2. IsFold(g, f, u) /\ SumOf(f, u) = g[u]
      BY <2>1, <2>2, <3>1 DEF SumOf
    <3>3. CASE u = {}
      <4>1. g[u] = 0
        BY <3>2, <3>3, FoldAt
      <4>2. h[u] = 0
        BY <3>3
      <4> QED BY <3>2, <4>1, <4>2
    <3>4. CASE u # {}
      <4>1. PICK x : x = Pick(u)
        OBVIOUS
      <4>2. x \in u /\ u \ {x} \in SUBSET T /\ u \ {x} # T
        BY <3>4, <4>1, PickIn
      <4>3. PICK k : k = CHOOSE q : IsFold(q, f, u \ {x})
        OBVIOUS
      <4>4. IsFold(k, f, u \ {x}) /\ SumOf(f, u \ {x}) = k[u \ {x}]
        BY <2>1, <4>2, <4>3 DEF SumOf
      <4>5. IsFiniteSet(u) /\ IsFiniteSet(u \ {x})
        BY FS_Subset
      <4>6. g[u \ {x}] = k[u \ {x}]
        BY <3>2, <4>4, <4>5, FoldUnique
      <4>7. g[u] = f[x] + g[u \ {x}]
        BY <3>2, <3>4, <4>1, FoldAt
      <4>8. h[u] = f[x] + SumOf(f, u \ {x})
        BY <3>4, <4>1
      <4> QED BY <3>2, <4>4, <4>6, <4>7, <4>8
    <3> QED BY <3>3, <3>4
  <2>3. \A s \in SUBSET T : s # {} =>
          SumOf(f, s \ {Pick(s)}) = h[s \ {Pick(s)}]
    <3>1. ASSUME NEW s \in SUBSET T, s # {}
          PROVE  SumOf(f, s \ {Pick(s)}) = h[s \ {Pick(s)}]
      <4>1. PICK x : x = Pick(s)
        OBVIOUS
      <4>2. x \in s /\ s \ {x} \in SUBSET T /\ s \ {x} # T
        BY <3>1, <4>1, PickIn
      <4> HIDE DEF h
      <4> QED BY <2>2, <4>1, <4>2
    <3> QED BY <3>1
  <2>4. h = [s \in SUBSET T |-> IF s = {} THEN 0
               ELSE f[Pick(s)] + h[s \ {Pick(s)}]]
    BY <2>3
  <2> HIDE DEF h
  <2>5. IsFold(h, f, T)
    BY <2>4 DEF IsFold
  <2> QED BY <2>5
<1>2. S \in G
  <2> HIDE DEF G
  <2>1. \A T \in SUBSET S : (\A U \in SUBSET T : U # T => U \in G) => T \in G
    BY <1>1
  <2>2. \A T \in SUBSET S : T \in G
    BY <2>1, SubsetInduction
  <2> QED BY <2>2
<1> QED BY <1>2

\* A sum is the value of any fold that has the set.
LEMMA SumIsFold ==
    ASSUME NEW S, IsFiniteSet(S), NEW f, NEW D, IsFiniteSet(D), NEW g, IsFold(g, f, D),
           S \subseteq D
    PROVE  g[S] = SumOf(f, S)
<1>1. PICK k : k = CHOOSE q : IsFold(q, f, S)
  OBVIOUS
<1>2. IsFold(k, f, S) /\ SumOf(f, S) = k[S]
  BY <1>1, FoldExists DEF SumOf
<1> QED BY <1>2, FoldUnique

LEMMA SumEmpty ==
    ASSUME NEW f
    PROVE  SumOf(f, {}) = 0
<1>1. IsFiniteSet({})
  BY FS_EmptySet
<1>2. PICK g : IsFold(g, f, {})
  BY <1>1, FoldExists
<1>3. g[{}] = 0
  BY <1>2, FoldAt
<1> QED BY <1>1, <1>2, <1>3, SumIsFold

LEMMA SumChosen ==
    ASSUME NEW S, IsFiniteSet(S), S # {}, NEW f
    PROVE  SumOf(f, S) = f[Pick(S)] + SumOf(f, S \ {Pick(S)})
<1>1. PICK g : IsFold(g, f, S)
  BY FoldExists
<1>2. PICK x : x = Pick(S)
  OBVIOUS
<1>3. g[S] = f[x] + g[S \ {x}]
  BY <1>1, <1>2, FoldAt
<1>4. IsFiniteSet(S \ {x})
  BY FS_Subset
<1>5. g[S] = SumOf(f, S) /\ g[S \ {x}] = SumOf(f, S \ {x})
  BY <1>1, <1>4, SumIsFold
<1> QED BY <1>2, <1>3, <1>5

\* Only the weights of the elements count.
LEMMA SumSame ==
    ASSUME NEW S, IsFiniteSet(S), NEW f, NEW e, \A x \in S : f[x] = e[x]
    PROVE  SumOf(f, S) = SumOf(e, S)
<1>1. PICK g : IsFold(g, f, S)
  BY FoldExists
<1>2. PICK h : IsFold(h, e, S)
  BY FoldExists
<1>3. g[S] = h[S]
  BY <1>1, <1>2, FoldUnique
<1> QED BY <1>1, <1>2, <1>3, SumIsFold

LEMMA SumType ==
    ASSUME NEW S, IsFiniteSet(S), NEW f, \A x \in S : f[x] \in Nat
    PROVE  SumOf(f, S) \in Nat
<1> DEFINE G == {T \in SUBSET S : SumOf(f, T) \in Nat}
<1>1. ASSUME NEW T \in SUBSET S, \A U \in SUBSET T : U # T => U \in G
      PROVE  T \in G
  <2>1. CASE T = {}
    BY <2>1, SumEmpty
  <2>2. CASE T # {}
    <3>1. PICK x : x = Pick(T)
      OBVIOUS
    <3>2. x \in T /\ f[x] \in Nat
      BY <2>2, <3>1, PickIn
    <3>3. SumOf(f, T \ {x}) \in Nat
      BY <1>1, <3>2
    <3>4. IsFiniteSet(T)
      BY FS_Subset
    <3>5. SumOf(f, T) = f[x] + SumOf(f, T \ {x})
      BY <2>2, <3>1, <3>4, SumChosen
    <3> QED BY <3>2, <3>3, <3>5
  <2> QED BY <2>1, <2>2
<1>2. S \in G
  <2> HIDE DEF G
  <2>1. \A T \in SUBSET S : (\A U \in SUBSET T : U # T => U \in G) => T \in G
    BY <1>1
  <2>2. \A T \in SUBSET S : T \in G
    BY <2>1, SubsetInduction
  <2> QED BY <2>2
<1> QED BY <1>2

\* The order does not matter: any element may be taken out.
LEMMA SumRemove ==
    ASSUME NEW S, IsFiniteSet(S), NEW f, \A x \in S : f[x] \in Nat, NEW y \in S
    PROVE  SumOf(f, S) = f[y] + SumOf(f, S \ {y})
<1> DEFINE G == {T \in SUBSET S : \A z \in T : SumOf(f, T) = f[z] + SumOf(f, T \ {z})}
<1>1. ASSUME NEW T \in SUBSET S, \A U \in SUBSET T : U # T => U \in G
      PROVE  T \in G
  <2>1. ASSUME NEW z \in T PROVE SumOf(f, T) = f[z] + SumOf(f, T \ {z})
    <3>1. PICK x : x = Pick(T)
      OBVIOUS
    <3>2. x \in T /\ IsFiniteSet(T) /\ T # {}
      BY <3>1, PickIn, FS_Subset
    <3>3. SumOf(f, T) = f[x] + SumOf(f, T \ {x})
      BY <3>1, <3>2, SumChosen
    <3>4. CASE x = z
      BY <3>3, <3>4
    <3>5. CASE x # z
      <4>1. SumOf(f, T \ {x}) = f[z] + SumOf(f, (T \ {x}) \ {z})
        BY <1>1, <3>2, <3>5
      <4>2. SumOf(f, T \ {z}) = f[x] + SumOf(f, (T \ {z}) \ {x})
        BY <1>1, <3>2, <3>5
      <4>3. PICK R : R = (T \ {x}) \ {z} /\ R = (T \ {z}) \ {x}
        OBVIOUS
      <4>4. IsFiniteSet(R) /\ SumOf(f, R) \in Nat
        BY <4>3, FS_Subset, SumType
      <4>5. f[x] \in Nat /\ f[z] \in Nat
        BY <3>2
      <4>6. SumOf(f, T \ {x}) = f[z] + SumOf(f, R) /\ SumOf(f, T \ {z}) = f[x] + SumOf(f, R)
        BY <4>1, <4>2, <4>3
      <4>7. f[x] + (f[z] + SumOf(f, R)) = f[z] + (f[x] + SumOf(f, R))
        BY <4>4, <4>5
      <4> QED BY <3>3, <4>6, <4>7
    <3> QED BY <3>4, <3>5
  <2> QED BY <2>1
<1>2. S \in G
  <2> HIDE DEF G
  <2>1. \A T \in SUBSET S : (\A U \in SUBSET T : U # T => U \in G) => T \in G
    BY <1>1
  <2>2. \A T \in SUBSET S : T \in G
    BY <2>1, SubsetInduction
  <2> QED BY <2>2
<1> QED BY <1>2

LEMMA SumAdd ==
    ASSUME NEW S, IsFiniteSet(S), NEW f, NEW y, y \notin S, \A x \in S \cup {y} : f[x] \in Nat
    PROVE  /\ IsFiniteSet(S \cup {y})
           /\ SumOf(f, S \cup {y}) = f[y] + SumOf(f, S)
<1>1. IsFiniteSet(S \cup {y})
  BY FS_AddElement
<1>2. (S \cup {y}) \ {y} = S
  OBVIOUS
<1>3. y \in S \cup {y}
  OBVIOUS
<1>4. SumOf(f, S \cup {y}) = f[y] + SumOf(f, (S \cup {y}) \ {y})
  BY <1>1, <1>3, SumRemove
<1> QED BY <1>1, <1>2, <1>4

\* One weight changes.
LEMMA SumChange ==
    ASSUME NEW S, IsFiniteSet(S), NEW f, NEW e, NEW y \in S,
           \A x \in S : f[x] \in Nat /\ e[x] \in Nat,
           \A x \in S \ {y} : f[x] = e[x]
    PROVE  SumOf(e, S) = SumOf(f, S) - f[y] + e[y]
<1>1. IsFiniteSet(S \ {y})
  BY FS_Subset
<1>2. SumOf(f, S \ {y}) = SumOf(e, S \ {y}) /\ SumOf(f, S \ {y}) \in Nat
  BY <1>1, SumSame, SumType
<1>3. SumOf(f, S) = f[y] + SumOf(f, S \ {y})
  BY SumRemove
<1>4. SumOf(e, S) = e[y] + SumOf(e, S \ {y})
  BY SumRemove
<1> QED BY <1>2, <1>3, <1>4

\* A part of a set, with weights that are no larger, sums up to no more.
LEMMA SumMonotone ==
    ASSUME NEW S, IsFiniteSet(S), NEW f, NEW R \in SUBSET S, NEW e,
           \A x \in S : f[x] \in Nat, \A x \in R : e[x] \in Nat /\ e[x] <= f[x]
    PROVE  SumOf(e, R) <= SumOf(f, S)
<1> DEFINE G == {T \in SUBSET S : SumOf(e, T \cap R) <= SumOf(f, T)}
<1>1. ASSUME NEW T \in SUBSET S, \A U \in SUBSET T : U # T => U \in G
      PROVE  T \in G
  <2>1. CASE T = {}
    <3>1. T \cap R = {}
      BY <2>1
    <3> QED BY <2>1, <3>1, SumEmpty
  <2>2. CASE T # {}
    <3>1. PICK x \in T : TRUE
      BY <2>2
    <3>2. SumOf(e, (T \ {x}) \cap R) <= SumOf(f, T \ {x})
      BY <1>1
    <3>3. IsFiniteSet(T) /\ IsFiniteSet(T \cap R) /\ IsFiniteSet(T \ {x}) /\ IsFiniteSet((T \ {x}) \cap R)
      BY FS_Subset
    <3>4. SumOf(f, T) = f[x] + SumOf(f, T \ {x})
      BY <3>3, SumRemove
    <3>5. /\ SumOf(f, T \ {x}) \in Nat /\ SumOf(e, (T \ {x}) \cap R) \in Nat /\ f[x] \in Nat
      BY <3>3, SumType
    <3>6. CASE x \in R
      <4>1. SumOf(e, T \cap R) = e[x] + SumOf(e, (T \cap R) \ {x})
        BY <3>3, <3>6, SumRemove
      <4>2. (T \cap R) \ {x} = (T \ {x}) \cap R
        OBVIOUS
      <4>3. e[x] \in Nat /\ e[x] <= f[x]
        BY <3>6
      <4>4. SumOf(e, T \cap R) = e[x] + SumOf(e, (T \ {x}) \cap R)
        BY <4>1, <4>2
      <4>5. SumOf(e, T \cap R) <= SumOf(f, T)
        BY <3>2, <3>4, <3>5, <4>3, <4>4
      <4> QED BY <4>5
    <3>7. CASE x \notin R
      <4>1. T \cap R = (T \ {x}) \cap R
        BY <3>7
      <4>2. SumOf(e, T \cap R) = SumOf(e, (T \ {x}) \cap R)
        BY <4>1
      <4>3. SumOf(e, T \cap R) <= SumOf(f, T)
        BY <3>2, <3>4, <3>5, <4>2
      <4> QED BY <4>3
    <3> QED BY <3>6, <3>7
  <2> QED BY <2>1, <2>2
<1>2. S \in G
  <2> HIDE DEF G
  <2>1. \A T \in SUBSET S : (\A U \in SUBSET T : U # T => U \in G) => T \in G
    BY <1>1
  <2>2. \A T \in SUBSET S : T \in G
    BY <2>1, SubsetInduction
  <2> QED BY <2>2
<1>3. S \cap R = R
  OBVIOUS
<1> QED BY <1>2, <1>3

\* One element weighs no more than all of them.
LEMMA SumBounds ==
    ASSUME NEW S, IsFiniteSet(S), NEW f, \A x \in S : f[x] \in Nat, NEW y \in S
    PROVE  f[y] <= SumOf(f, S)
<1>1. IsFiniteSet(S \ {y})
  BY FS_Subset
<1>2. SumOf(f, S \ {y}) \in Nat
  BY <1>1, SumType
<1> QED BY <1>2, SumRemove

\* A sum splits into that of a part and that of the rest.
LEMMA SumParts ==
    ASSUME NEW S, IsFiniteSet(S), NEW f, \A x \in S : f[x] \in Nat, NEW R \in SUBSET S
    PROVE  SumOf(f, S) = SumOf(f, R) + SumOf(f, S \ R)
<1> DEFINE G == {T \in SUBSET S : SumOf(f, T) = SumOf(f, T \cap R) + SumOf(f, T \ R)}
<1>1. ASSUME NEW T \in SUBSET S, \A U \in SUBSET T : U # T => U \in G
      PROVE  T \in G
  <2>1. CASE T = {}
    <3>1. T \cap R = {} /\ T \ R = {}
      BY <2>1
    <3> QED BY <2>1, <3>1, SumEmpty
  <2>2. CASE T # {}
    <3>1. PICK x \in T : TRUE
      BY <2>2
    <3> DEFINE U == T \ {x}
    <3>2. SumOf(f, U) = SumOf(f, U \cap R) + SumOf(f, U \ R)
      BY <1>1
    <3>3. IsFiniteSet(T) /\ IsFiniteSet(T \cap R) /\ IsFiniteSet(T \ R)
          /\ IsFiniteSet(U \cap R) /\ IsFiniteSet(U \ R)
      BY FS_Subset
    <3>4. SumOf(f, T) = f[x] + SumOf(f, U)
      BY <3>3, SumRemove
    <3>5. SumOf(f, U \ R) \in Nat /\ SumOf(f, U \cap R) \in Nat /\ f[x] \in Nat
      BY <3>3, SumType
    <3>6. CASE x \in R
      <4>1. SumOf(f, T \cap R) = f[x] + SumOf(f, (T \cap R) \ {x})
        BY <3>3, <3>6, SumRemove
      <4>2. (T \cap R) \ {x} = U \cap R /\ T \ R = U \ R
        BY <3>6
      <4>3. SumOf(f, T \cap R) = f[x] + SumOf(f, U \cap R) /\ SumOf(f, T \ R) = SumOf(f, U \ R)
        BY <4>1, <4>2
      <4> HIDE DEF U
      <4>4. SumOf(f, T) = SumOf(f, T \cap R) + SumOf(f, T \ R)
        BY <3>2, <3>4, <3>5, <4>3
      <4> QED BY <4>4
    <3>7. CASE x \notin R
      <4>1. SumOf(f, T \ R) = f[x] + SumOf(f, (T \ R) \ {x})
        BY <3>3, <3>7, SumRemove
      <4>2. (T \ R) \ {x} = U \ R /\ T \cap R = U \cap R
        BY <3>7
      <4>3. SumOf(f, T \ R) = f[x] + SumOf(f, U \ R) /\ SumOf(f, T \cap R) = SumOf(f, U \cap R)
        BY <4>1, <4>2
      <4> HIDE DEF U
      <4>4. SumOf(f, T) = SumOf(f, T \cap R) + SumOf(f, T \ R)
        BY <3>2, <3>4, <3>5, <4>3
      <4> QED BY <4>4
    <3> QED BY <3>6, <3>7
  <2> QED BY <2>1, <2>2
<1>2. S \in G
  <2> HIDE DEF G
  <2>1. \A T \in SUBSET S : (\A U \in SUBSET T : U # T => U \in G) => T \in G
    BY <1>1
  <2>2. \A T \in SUBSET S : T \in G
    BY <2>1, SubsetInduction
  <2> QED BY <2>2
<1>3. S \cap R = R
  OBVIOUS
<1> QED BY <1>2, <1>3

=============================================================================
