------------------------ MODULE AccountLeasesProofs ------------------------
(***************************************************************************)
(* Theorems about AccountLeases, for any number of accounts, requests and  *)
(* leases, any caps, budgets and times to live.  The argument is on the    *)
(* books: each section under _runtime_lock is a composition of the book    *)
(* operators, so it is enough that each operator keeps BookOK.             *)
(***************************************************************************)
EXTENDS AccountLeases, FiniteSumProofs

\* What the leases of an account weigh.
Weight == [l \in Leases |-> l.tokens]

HeldBy(leases, a) == {l \in leases : l.account = a}

\* The leases are finite, the counters count them and the token pressure is
\* what they weigh.
BookOK(b) ==
    /\ b \in Books
    /\ IsFiniteSet(b.leases)
    /\ \A a \in Accounts, k \in Kinds :
          b.inflight[a][k] = Cardinality(LeasesOf(b.leases, a, k))
    /\ \A a \in Accounts : b.leased_tokens[a] = SumOf(Weight, HeldBy(b.leases, a))

CapOK(b) ==
    \A a \in Accounts, k \in Kinds :
        CapOf[k] > 0 => b.inflight[a][k] <= CapOf[k]

\* Counting is additive: taking leases away takes their number away.
LEMMA CountDifference ==
    ASSUME NEW S, IsFiniteSet(S), NEW T \in SUBSET S, NEW a, NEW k
    PROVE  /\ Cardinality(LeasesOf(S, a, k)) \in Nat
           /\ Cardinality(LeasesOf(T, a, k)) \in Nat
           /\ Cardinality(LeasesOf(S \ T, a, k)) \in Nat
           /\ Cardinality(LeasesOf(S \ T, a, k)) =
                Cardinality(LeasesOf(S, a, k)) - Cardinality(LeasesOf(T, a, k))
<1> DEFINE A == LeasesOf(S \ T, a, k)
           B == LeasesOf(T, a, k)
<1>1. LeasesOf(S, a, k) = A \cup B /\ A \cap B = {}
  BY DEF LeasesOf
<1>2. A \in SUBSET S /\ B \in SUBSET S
  BY DEF LeasesOf
<1>3. IsFiniteSet(A) /\ IsFiniteSet(B)
  BY <1>2, FS_Subset
<1>4. Cardinality(A \cup B) = Cardinality(A) + Cardinality(B) - Cardinality(A \cap B)
  BY <1>3, FS_Union
<1>5. Cardinality(A \cap B) = 0
  BY <1>1, FS_EmptySet
<1>6. Cardinality(A) \in Nat /\ Cardinality(B) \in Nat
  BY <1>3, FS_CardinalityType
<1> HIDE DEF A, B
<1>7. Cardinality(A \cup B) = Cardinality(A) + Cardinality(B)
  BY <1>4, <1>5, <1>6
<1>8. Cardinality(LeasesOf(S, a, k)) = Cardinality(A) + Cardinality(B)
  BY <1>1, <1>7
<1> QED BY <1>6, <1>8 DEF A, B

\* A new lease adds one to its own counter and to no other.
LEMMA CountAdd ==
    ASSUME NEW S, IsFiniteSet(S), NEW l, l \notin S, NEW a, NEW k
    PROVE  Cardinality(LeasesOf(S \cup {l}, a, k)) =
             IF l.account = a /\ l.kind = k
             THEN Cardinality(LeasesOf(S, a, k)) + 1
             ELSE Cardinality(LeasesOf(S, a, k))
<1>1. IsFiniteSet(LeasesOf(S, a, k))
  <2>1. LeasesOf(S, a, k) \in SUBSET S
    BY DEF LeasesOf
  <2> QED BY <2>1, FS_Subset
<1>2. CASE l.account = a /\ l.kind = k
  <2>1. LeasesOf(S \cup {l}, a, k) = LeasesOf(S, a, k) \cup {l}
    BY <1>2 DEF LeasesOf
  <2>2. l \notin LeasesOf(S, a, k)
    BY DEF LeasesOf
  <2>3. Cardinality(LeasesOf(S, a, k) \cup {l}) = Cardinality(LeasesOf(S, a, k)) + 1
    <3> HIDE DEF LeasesOf
    <3> QED BY <1>1, <2>2, FS_AddElement
  <2> QED BY <1>2, <2>1, <2>3
<1>3. CASE ~(l.account = a /\ l.kind = k)
  <2>1. LeasesOf(S \cup {l}, a, k) = LeasesOf(S, a, k)
    BY <1>3 DEF LeasesOf
  <2> QED BY <1>3, <2>1
<1> QED BY <1>2, <1>3

\* The token pressure of the model is that sum.
LEMMA TokensAreSum ==
    ASSUME NEW leases \in SUBSET Leases, IsFiniteSet(leases), NEW a
    PROVE  /\ TokensOf(leases, a) = SumOf(Weight, HeldBy(leases, a))
           /\ SumOf(Weight, HeldBy(leases, a)) \in Nat
           /\ IsFiniteSet(HeldBy(leases, a))
<1> DEFINE S == HeldBy(leases, a)
           F(h) == [s \in SUBSET S |->
               IF s = {} THEN 0
               ELSE (CHOOSE x \in s : TRUE).tokens + h[s \ {CHOOSE x \in s : TRUE}]]
           i == CHOOSE h : h = F(h)
<1>1. S \subseteq Leases /\ IsFiniteSet(S)
  BY FS_Subset DEF HeldBy
<1>2. TokensOf(leases, a) = i[S]
  BY DEF TokensOf, MapThenSumSet, MapThenFoldSet, HeldBy
<1>3. \A x \in S : Weight[x] \in Nat
  BY <1>1 DEF Weight, Leases
<1> HIDE DEF S
<1>4. ASSUME NEW h PROVE IsFold(h, Weight, S) <=> h = F(h)
  <2>1. \A s \in SUBSET S : s # {} => Weight[Pick(s)] = (CHOOSE x \in s : TRUE).tokens
    BY <1>1, PickIn DEF Weight, Pick
  <2> QED BY <2>1 DEF IsFold, Pick
<1>5. PICK g : IsFold(g, Weight, S)
  BY <1>1, FoldExists
<1>6. i = F(i)
  <2>1. g = F(g)
    BY <1>4, <1>5
  <2> HIDE DEF F
  <2> QED BY <2>1
<1> HIDE DEF i, F
<1>7. i[S] = SumOf(Weight, S)
  BY <1>1, <1>4, <1>6, SumIsFold
<1>8. SumOf(Weight, S) \in Nat
  BY <1>1, <1>3, SumType
<1> QED BY <1>1, <1>2, <1>7, <1>8 DEF S

\* Taking leases away takes their tokens away.
LEMMA TokensDifference ==
    ASSUME NEW S \in SUBSET Leases, IsFiniteSet(S), NEW T \in SUBSET S, NEW a
    PROVE  /\ SumOf(Weight, HeldBy(S, a)) \in Nat
           /\ SumOf(Weight, HeldBy(S \ T, a)) \in Nat
           /\ TokensOf(T, a) \in Nat
           /\ SumOf(Weight, HeldBy(S \ T, a)) = SumOf(Weight, HeldBy(S, a)) - TokensOf(T, a)
<1>1. IsFiniteSet(T) /\ IsFiniteSet(S \ T) /\ T \in SUBSET Leases /\ S \ T \in SUBSET Leases
  BY FS_Subset
<1>2. /\ TokensOf(T, a) = SumOf(Weight, HeldBy(T, a))
      /\ SumOf(Weight, HeldBy(T, a)) \in Nat
      /\ SumOf(Weight, HeldBy(S, a)) \in Nat /\ IsFiniteSet(HeldBy(S, a))
      /\ SumOf(Weight, HeldBy(S \ T, a)) \in Nat
  BY <1>1, TokensAreSum
<1>3. /\ HeldBy(T, a) \in SUBSET HeldBy(S, a)
      /\ HeldBy(S, a) \ HeldBy(T, a) = HeldBy(S \ T, a)
      /\ \A x \in HeldBy(S, a) : Weight[x] \in Nat
  BY DEF HeldBy, Weight, Leases
<1>4. SumOf(Weight, HeldBy(S, a))
        = SumOf(Weight, HeldBy(T, a)) + SumOf(Weight, HeldBy(S, a) \ HeldBy(T, a))
  BY <1>2, <1>3, SumParts
<1>5. SumOf(Weight, HeldBy(S, a)) = TokensOf(T, a) + SumOf(Weight, HeldBy(S \ T, a))
  BY <1>2, <1>3, <1>4
<1>6. \A x, y, z \in Nat : x = y + z => z = x - y
  OBVIOUS
<1> QED BY <1>2, <1>5, <1>6

\* A new lease adds its tokens to its account and to no other.
LEMMA TokensAdd ==
    ASSUME NEW S \in SUBSET Leases, IsFiniteSet(S), NEW l \in Leases, l \notin S, NEW a
    PROVE  SumOf(Weight, HeldBy(S \cup {l}, a)) =
             IF l.account = a THEN SumOf(Weight, HeldBy(S, a)) + l.tokens
                              ELSE SumOf(Weight, HeldBy(S, a))
<1>1. CASE l.account = a
  <2>1. HeldBy(S \cup {l}, a) = HeldBy(S, a) \cup {l} /\ l \notin HeldBy(S, a)
    BY <1>1 DEF HeldBy
  <2>2. IsFiniteSet(HeldBy(S, a)) /\ SumOf(Weight, HeldBy(S, a)) \in Nat
    BY TokensAreSum
  <2>3. \A x \in HeldBy(S, a) \cup {l} : Weight[x] \in Nat
    BY DEF HeldBy, Weight, Leases
  <2>4. SumOf(Weight, HeldBy(S, a) \cup {l}) = Weight[l] + SumOf(Weight, HeldBy(S, a))
    BY <2>1, <2>2, <2>3, SumAdd
  <2>5. Weight[l] = l.tokens /\ l.tokens \in Nat
    BY DEF Weight, Leases
  <2>6. SumOf(Weight, HeldBy(S \cup {l}, a)) = l.tokens + SumOf(Weight, HeldBy(S, a))
    BY <2>1, <2>4, <2>5
  <2>7. \A x, y \in Nat : x + y = y + x
    OBVIOUS
  <2> QED BY <1>1, <2>2, <2>5, <2>6, <2>7
<1>2. CASE l.account # a
  <2>1. HeldBy(S \cup {l}, a) = HeldBy(S, a)
    BY <1>2 DEF HeldBy
  <2> QED BY <1>2, <2>1
<1> QED BY <1>1, <1>2

\* A lease may live for its time to live, and a stream for longer than the
\* request budget (stale_ttl_seconds).
LEMMA StaleTtlBounds ==
    /\ \A k \in Kinds : StaleTtl(k) \in Nat
    /\ StaleTtl("stream") > RequestBudget
<1> DEFINE S == {LeaseTtl, RequestBudget}
<1>1. LeaseTtl \in Nat /\ RequestBudget \in Nat /\ BudgetMargin \in Nat \ {0}
  BY LeaseAssumption
<1>2. \E x \in S : \A y \in S : x >= y
  <2>1. CASE LeaseTtl >= RequestBudget
    BY <1>1, <2>1
  <2>2. CASE ~(LeaseTtl >= RequestBudget)
    BY <1>1, <2>2
  <2> QED BY <2>1, <2>2
<1>3. Max(S) \in S /\ \A y \in S : Max(S) >= y
  BY <1>2 DEF Max
<1>4. Max(S) \in Nat /\ Max(S) >= RequestBudget
  BY <1>1, <1>3
<1>5. StaleTtl("stream") = Max(S) + BudgetMargin
  BY DEF StaleTtl
<1>6. StaleTtl("response_create") = LeaseTtl
  BY DEF StaleTtl
<1> HIDE DEF S
<1> QED BY <1>1, <1>4, <1>5, <1>6 DEF Kinds

-----------------------------------------------------------------------------
(* The book operators. *)

\* Dropping leases, present or not, keeps the books right and frees only
\* capacity (_release_account_lease_locked).
LEMMA DropOK ==
    ASSUME NEW b, BookOK(b), NEW d
    PROVE  /\ BookOK(Drop(b, d))
           /\ CapOK(b) => CapOK(Drop(b, d))
           /\ Drop(b, d).leases = b.leases \ d
<1> DEFINE popped == d \cap b.leases
           c == Drop(b, d)
<1>1. popped \in SUBSET b.leases
  OBVIOUS
<1>2. /\ c.leases = b.leases \ popped
      /\ c.inflight = [a \in Accounts |-> [k \in Kinds |->
            FloorAtZero(b.inflight[a][k] - Cardinality(LeasesOf(popped, a, k)))]]
      /\ c.leased_tokens = [a \in Accounts |->
            FloorAtZero(b.leased_tokens[a] - TokensOf(popped, a))]
      /\ c.runtime = b.runtime
      /\ c = [runtime |-> c.runtime, leases |-> c.leases, inflight |-> c.inflight,
              leased_tokens |-> c.leased_tokens]
  BY DEF Drop, Deduct
<1>3. ASSUME NEW a \in Accounts, NEW k \in Kinds
      PROVE  /\ c.inflight[a][k] = Cardinality(LeasesOf(c.leases, a, k))
             /\ c.inflight[a][k] \in Nat
             /\ c.inflight[a][k] <= b.inflight[a][k]
  <2>1. b.inflight[a][k] = Cardinality(LeasesOf(b.leases, a, k)) /\ IsFiniteSet(b.leases)
    BY DEF BookOK
  <2> HIDE DEF popped, c
  <2>2. /\ Cardinality(LeasesOf(b.leases \ popped, a, k)) =
             b.inflight[a][k] - Cardinality(LeasesOf(popped, a, k))
        /\ Cardinality(LeasesOf(b.leases \ popped, a, k)) \in Nat
        /\ Cardinality(LeasesOf(popped, a, k)) \in Nat
        /\ b.inflight[a][k] \in Nat
    BY <1>1, <2>1, CountDifference
  <2>3. c.inflight[a][k] = FloorAtZero(b.inflight[a][k] - Cardinality(LeasesOf(popped, a, k)))
    BY <1>2
  <2> QED BY <1>2, <2>2, <2>3 DEF FloorAtZero
<1>4. IsFiniteSet(c.leases)
  <2>1. c.leases \in SUBSET b.leases
    BY <1>2
  <2> QED BY <2>1, FS_Subset DEF BookOK
<1>5. c.inflight \in [Accounts -> [Kinds -> Nat]]
  <2> HIDE DEF c
  <2> QED BY <1>2, <1>3
<1>t. ASSUME NEW a \in Accounts
      PROVE  /\ c.leased_tokens[a] = SumOf(Weight, HeldBy(c.leases, a))
             /\ c.leased_tokens[a] \in Nat
  <2>1. /\ b.leased_tokens[a] = SumOf(Weight, HeldBy(b.leases, a))
        /\ IsFiniteSet(b.leases) /\ b.leases \in SUBSET Leases
    BY DEF BookOK, Books
  <2> HIDE DEF popped, c
  <2>2. /\ SumOf(Weight, HeldBy(b.leases \ popped, a)) = b.leased_tokens[a] - TokensOf(popped, a)
        /\ SumOf(Weight, HeldBy(b.leases \ popped, a)) \in Nat
        /\ TokensOf(popped, a) \in Nat
        /\ b.leased_tokens[a] \in Nat
    BY <1>1, <2>1, TokensDifference
  <2>3. c.leased_tokens[a] = FloorAtZero(b.leased_tokens[a] - TokensOf(popped, a))
    BY <1>2
  <2> QED BY <1>2, <2>2, <2>3 DEF FloorAtZero
<1>u. c.leased_tokens \in [Accounts -> Nat]
  <2> HIDE DEF c
  <2> QED BY <1>2, <1>t
<1>6. BookOK(c)
  <2>1. b.leases \in SUBSET Leases /\ b.runtime \in SUBSET Accounts
    BY DEF BookOK, Books
  <2>2. c \in Books
    <3> HIDE DEF c
    <3> QED BY <1>2, <1>5, <1>u, <2>1 DEF Books
  <2> HIDE DEF c
  <2> QED BY <1>3, <1>4, <1>t, <2>2 DEF BookOK
<1>7. CapOK(b) => CapOK(c)
  <2> HIDE DEF c
  <2> SUFFICES ASSUME CapOK(b), NEW a \in Accounts, NEW k \in Kinds, CapOf[k] > 0
               PROVE  c.inflight[a][k] <= CapOf[k]
    BY DEF CapOK
  <2>1. b.inflight[a][k] \in Nat /\ CapOf[k] \in Nat
    BY LeaseAssumption DEF BookOK, Books
  <2> QED BY <1>3, <2>1 DEF CapOK
<1>8. c.leases = b.leases \ d
  BY <1>2
<1> QED BY <1>6, <1>7, <1>8

\* Forgetting accounts without leases keeps the books right (_prune_runtime).
LEMMA PruneOK ==
    ASSUME NEW b, BookOK(b), NEW keep
    PROVE  /\ BookOK(Prune(b, keep))
           /\ CapOK(b) => CapOK(Prune(b, keep))
           /\ Prune(b, keep).leases = b.leases
<1> DEFINE gone == {a \in b.runtime \ keep : \A l \in b.leases : l.account # a}
           c == Prune(b, keep)
<1>1. /\ c.leases = {l \in b.leases : l.account \notin gone}
      /\ c.inflight = [a \in Accounts |->
            IF a \in gone THEN [k \in Kinds |-> 0] ELSE b.inflight[a]]
      /\ c.leased_tokens = [a \in Accounts |-> IF a \in gone THEN 0 ELSE b.leased_tokens[a]]
      /\ c.runtime = b.runtime \ gone
      /\ c = [runtime |-> c.runtime, leases |-> c.leases, inflight |-> c.inflight,
              leased_tokens |-> c.leased_tokens]
  BY DEF Prune, Forget
<1>l. c.leases = b.leases
  BY <1>1
<1>2. ASSUME NEW a \in Accounts, NEW k \in Kinds
      PROVE  c.inflight[a][k] = b.inflight[a][k]
  <2>1. CASE a \in gone
    <3>1. LeasesOf(b.leases, a, k) = {}
      BY <2>1 DEF LeasesOf
    <3>2. b.inflight[a][k] = 0
      BY <3>1, FS_EmptySet DEF BookOK
    <3> QED BY <1>1, <2>1, <3>2
  <2>2. CASE a \notin gone
    BY <1>1, <2>2
  <2> QED BY <2>1, <2>2
<1>t. ASSUME NEW a \in Accounts
      PROVE  c.leased_tokens[a] = b.leased_tokens[a]
  <2>1. CASE a \in gone
    <3>1. HeldBy(b.leases, a) = {}
      BY <2>1 DEF HeldBy
    <3>2. b.leased_tokens[a] = 0
      BY <3>1, SumEmpty DEF BookOK
    <3> QED BY <1>1, <2>1, <3>2
  <2>2. CASE a \notin gone
    BY <1>1, <2>2
  <2> QED BY <2>1, <2>2
<1>3. c \in Books
  <2>1. /\ b.inflight \in [Accounts -> [Kinds -> Nat]] /\ b.leased_tokens \in [Accounts -> Nat]
        /\ b.runtime \in SUBSET Accounts /\ b.leases \in SUBSET Leases
    BY DEF BookOK, Books
  <2>2. c.inflight \in [Accounts -> [Kinds -> Nat]]
    BY <1>1, <2>1
  <2>3. c.leased_tokens \in [Accounts -> Nat]
    BY <1>1, <2>1
  <2>4. c.runtime \in SUBSET Accounts
    BY <1>1, <2>1
  <2> HIDE DEF c
  <2> QED BY <1>1, <1>l, <2>1, <2>2, <2>3, <2>4 DEF Books
<1> HIDE DEF c, gone
<1>4. BookOK(c)
  BY <1>l, <1>2, <1>3, <1>t DEF BookOK
<1>5. CapOK(b) => CapOK(c)
  BY <1>2 DEF CapOK
<1> QED BY <1>l, <1>4, <1>5 DEF c

LEMMA TouchOK ==
    ASSUME NEW b, BookOK(b), NEW S \in SUBSET Accounts
    PROVE  /\ BookOK(Touch(b, S))
           /\ CapOK(b) => CapOK(Touch(b, S))
           /\ Touch(b, S).leases = b.leases
           /\ Touch(b, S).inflight = b.inflight
<1>1. /\ Touch(b, S).leases = b.leases /\ Touch(b, S).inflight = b.inflight
      /\ Touch(b, S).leased_tokens = b.leased_tokens
  BY DEF Touch
<1>2. Touch(b, S) \in Books
  BY DEF Touch, BookOK, Books
<1> QED BY <1>1, <1>2 DEF BookOK, CapOK

\* A new lease on an account below its cap keeps the books and the cap
\* (_acquire_account_lease_locked after the cap check).
LEMMA AcquireOK ==
    ASSUME NEW b, BookOK(b), CapOK(b), NEW l \in Leases, l \notin b.leases,
           BelowCap(b, l.account, l.kind)
    PROVE  /\ BookOK(Acquire(b, l))
           /\ CapOK(Acquire(b, l))
           /\ Acquire(b, l).leases = b.leases \cup {l}
<1> DEFINE c == Acquire(b, l)
<1>1. /\ c.leases = b.leases \cup {l}
      /\ c.inflight = [b.inflight EXCEPT ![l.account][l.kind] = @ + 1]
      /\ c.leased_tokens = [b.leased_tokens EXCEPT ![l.account] = @ + l.tokens]
      /\ c.runtime = b.runtime \cup {l.account}
      /\ c = [runtime |-> c.runtime, leases |-> c.leases, inflight |-> c.inflight,
              leased_tokens |-> c.leased_tokens]
  BY DEF Acquire
<1>2. /\ b.inflight \in [Accounts -> [Kinds -> Nat]] /\ b.leased_tokens \in [Accounts -> Nat]
      /\ b.runtime \in SUBSET Accounts /\ b.leases \in SUBSET Leases
      /\ l.account \in Accounts /\ l.kind \in Kinds /\ l.tokens \in Nat
  BY DEF BookOK, Books, Leases
<1> HIDE DEF c
<1>3. c.inflight \in [Accounts -> [Kinds -> Nat]]
  BY <1>1, <1>2
<1>4. ASSUME NEW a \in Accounts, NEW k \in Kinds
      PROVE  c.inflight[a][k] = IF l.account = a /\ l.kind = k
                                THEN b.inflight[a][k] + 1 ELSE b.inflight[a][k]
  BY <1>1, <1>2
<1>5. ASSUME NEW a \in Accounts, NEW k \in Kinds
      PROVE  c.inflight[a][k] = Cardinality(LeasesOf(c.leases, a, k))
  <2>1. b.inflight[a][k] = Cardinality(LeasesOf(b.leases, a, k)) /\ IsFiniteSet(b.leases)
    BY DEF BookOK
  <2>2. Cardinality(LeasesOf(b.leases \cup {l}, a, k)) =
             IF l.account = a /\ l.kind = k
             THEN Cardinality(LeasesOf(b.leases, a, k)) + 1
             ELSE Cardinality(LeasesOf(b.leases, a, k))
    BY <2>1, CountAdd
  <2> QED BY <1>1, <1>4, <2>1, <2>2
<1>6. IsFiniteSet(c.leases)
  BY <1>1, FS_AddElement DEF BookOK
<1>t. ASSUME NEW a \in Accounts
      PROVE  c.leased_tokens[a] = SumOf(Weight, HeldBy(c.leases, a))
  <2>1. b.leased_tokens[a] = SumOf(Weight, HeldBy(b.leases, a)) /\ IsFiniteSet(b.leases)
    BY DEF BookOK
  <2>2. SumOf(Weight, HeldBy(b.leases \cup {l}, a)) =
             IF l.account = a THEN SumOf(Weight, HeldBy(b.leases, a)) + l.tokens
                              ELSE SumOf(Weight, HeldBy(b.leases, a))
    BY <1>2, <2>1, TokensAdd
  <2>3. c.leased_tokens[a] = IF l.account = a THEN b.leased_tokens[a] + l.tokens
                                              ELSE b.leased_tokens[a]
    BY <1>1, <1>2
  <2> QED BY <1>1, <2>1, <2>2, <2>3
<1>u. c \in Books
  <2>1. c.leased_tokens \in [Accounts -> Nat]
    BY <1>1, <1>2
  <2>2. c.runtime \in SUBSET Accounts /\ c.leases \in SUBSET Leases
    BY <1>1, <1>2
  <2> QED BY <1>1, <1>3, <2>1, <2>2 DEF Books
<1>7. BookOK(c)
  BY <1>1, <1>5, <1>6, <1>t, <1>u DEF BookOK
<1>8. CapOK(c)
  <2> SUFFICES ASSUME NEW a \in Accounts, NEW k \in Kinds, CapOf[k] > 0
               PROVE  c.inflight[a][k] <= CapOf[k]
    BY DEF CapOK
  <2>1. b.inflight[a][k] \in Nat /\ CapOf[k] \in Nat /\ b.inflight[a][k] <= CapOf[k]
    BY <1>2, LeaseAssumption DEF CapOK
  <2>2. CASE l.account = a /\ l.kind = k
    <3>1. b.inflight[a][k] < CapOf[k]
      BY <2>1, <2>2 DEF BelowCap
    <3> QED BY <1>4, <2>1, <2>2, <3>1
  <2>3. CASE ~(l.account = a /\ l.kind = k)
    BY <1>4, <2>1, <2>3
  <2> QED BY <2>2, <2>3
<1> QED BY <1>1, <1>7, <1>8 DEF c

LEMMA ReclaimOK ==
    ASSUME NEW b, BookOK(b)
    PROVE  /\ BookOK(ReclaimStale(b))
           /\ CapOK(b) => CapOK(ReclaimStale(b))
           /\ ReclaimStale(b).leases = {l \in b.leases : ~Stale(l)}
<1> DEFINE d == {l \in b.leases : Stale(l)}
<1>1. /\ BookOK(Drop(b, d))
      /\ CapOK(b) => CapOK(Drop(b, d))
      /\ Drop(b, d).leases = b.leases \ d
  BY DropOK
<1>2. b.leases \ d = {l \in b.leases : ~Stale(l)}
  OBVIOUS
<1> QED BY <1>1, <1>2 DEF ReclaimStale

\* What a selection does first keeps the books and takes only stale leases.
LEMMA RefreshOK ==
    ASSUME NEW b, BookOK(b), CapOK(b), NEW S, NEW T \in SUBSET Accounts
    PROVE  /\ BookOK(Refresh(b, S, T))
           /\ CapOK(Refresh(b, S, T))
           /\ Refresh(b, S, T).leases = {l \in b.leases : ~Stale(l)}
<1> DEFINE c == ReclaimStale(b)
           d == Prune(c, S)
<1>1. BookOK(c) /\ CapOK(c) /\ c.leases = {l \in b.leases : ~Stale(l)}
  BY ReclaimOK
<1> HIDE DEF c
<1>2. BookOK(d) /\ CapOK(d) /\ d.leases = c.leases
  BY <1>1, PruneOK
<1> HIDE DEF d
<1>3. BookOK(Touch(d, T)) /\ CapOK(Touch(d, T)) /\ Touch(d, T).leases = d.leases
  BY <1>2, TouchOK
<1> QED BY <1>1, <1>2, <1>3 DEF Refresh, c, d

LEMMA ReleaseOK ==
    ASSUME NEW b, BookOK(b), CapOK(b), NEW l
    PROVE  /\ BookOK(Release(b, l))
           /\ CapOK(Release(b, l))
           /\ Release(b, l).leases = IF l = None THEN b.leases ELSE b.leases \ {l}
  BY DropOK DEF Release

-----------------------------------------------------------------------------
(* The inductive invariant. *)

\* What the requests hold: leases handed out before, each to one request.
HandlesOK ==
    /\ \A l \in lb.leases : l.id < nextId
    /\ \A r \in Requests : req[r].lease # None =>
          /\ req[r].lease.id < nextId
          /\ req[r].lease.kind = KindOf[r]
    /\ \A r1, r2 \in Requests :
          r1 # r2 /\ req[r1].lease # None => req[r1].lease # req[r2].lease

\* A request that is still selecting holds no lease.
SelectingOK ==
    \A r \in Requests :
        req[r].pc \in {"idle", "loaded", "sticky"} => req[r].lease = None

\* A request that uses its lease still has it, unless it is stale.
KeepsOK ==
    \A r \in Requests :
        req[r].pc \in {"persist", "held"} /\ req[r].lease # None
        => req[r].lease \in lb.leases \/ Stale(req[r].lease)

Shape ==
    /\ now \in Nat /\ now <= MaxTime
    /\ known \in SUBSET Accounts
    /\ nextId \in Nat /\ nextId <= MaxLeases
    /\ req \in [Requests -> RequestStates]

IInv ==
    /\ Shape
    /\ BookOK(lb)
    /\ CapOK(lb)
    /\ HandlesOK
    /\ SelectingOK
    /\ KeepsOK

\* A step that only drops leases that are stale or held by r, which no
\* longer uses it, and gives r a lease it may hold, preserves the invariant.
LEMMA QuietStep ==
    ASSUME IInv, NEW r \in Requests, NEW q \in RequestStates,
           now' = now, known' = known, nextId' = nextId,
           req' = [req EXCEPT ![r] = q],
           q.lease \in {None, req[r].lease},
           q.pc \in {"idle", "loaded", "sticky"} => q.lease = None,
           BookOK(lb'), CapOK(lb'),
           \A l \in lb.leases : l \in lb'.leases \/ Stale(l) \/ l = req[r].lease,
           lb'.leases \subseteq lb.leases,
           /\ q.pc \in {"persist", "held"} /\ q.lease # None
           => \/ Stale(q.lease)
              \/ q.lease \in lb'.leases
    PROVE  IInv'
<1>1. Shape'
  BY DEF IInv, Shape
<1>2. HandlesOK'
  BY DEF IInv, Shape, HandlesOK
<1>3. KeepsOK'
  BY DEF IInv, Shape, HandlesOK, KeepsOK, Stale
<1>4. SelectingOK'
  BY DEF IInv, Shape, SelectingOK
<1> QED BY <1>1, <1>2, <1>3, <1>4 DEF IInv

\* A step that reclaims stale leases and gives r, which held none, a new one.
LEMMA GrantStep ==
    ASSUME IInv, NEW r \in Requests, NEW a \in Accounts, NEW q \in RequestStates,
           NEW b, BookOK(b), CapOK(b), BelowCap(b, a, KindOf[r]),
           \A l \in lb.leases : l \in b.leases \/ Stale(l),
           b.leases \subseteq lb.leases,
           now' = now, known' = known, nextId < MaxLeases, nextId' = nextId + 1,
           lb' = Acquire(b, NewLease(r, a)),
           req' = [req EXCEPT ![r] = q],
           q.lease = NewLease(r, a), q.pc \in {"persist", "held"}
    PROVE  IInv'
<1> DEFINE l == NewLease(r, a)
<1>1. l \in Leases /\ l.id = nextId /\ l.account = a /\ l.kind = KindOf[r]
  BY LeaseAssumption DEF NewLease, Leases, IInv, Shape
<1> HIDE DEF l
<1>2. l \notin lb.leases /\ l \notin b.leases
  <2>1. \A m \in lb.leases : m.id < nextId
    BY DEF IInv, HandlesOK
  <2> QED BY <1>1, <2>1 DEF IInv, Shape
<1>3. BookOK(lb') /\ CapOK(lb') /\ lb'.leases = b.leases \cup {l}
  BY <1>1, <1>2, AcquireOK DEF l
<1>4. Shape'
  BY LeaseAssumption DEF IInv, Shape
<1>5. \A s \in Requests : req[s].lease # None => req[s].lease # l
  BY <1>1 DEF IInv, HandlesOK, Shape
<1>6. q.lease = l /\ l # None
  BY <1>1, LeaseAssumption DEF l, Leases
<1>7. HandlesOK'
  <2>1. \A m \in lb'.leases : m.id < nextId'
    <3> SUFFICES ASSUME NEW m \in lb'.leases PROVE m.id < nextId'
      OBVIOUS
    <3>1. CASE m = l
      BY <1>1, <3>1 DEF IInv, Shape
    <3>2. CASE m \in lb.leases
      <4>1. m.id \in Nat /\ m.id < nextId
        BY <3>2 DEF IInv, HandlesOK, BookOK, Books, Leases
      <4> QED BY <4>1 DEF IInv, Shape
    <3> QED BY <1>3, <3>1, <3>2
  <2>2. ASSUME NEW s \in Requests, req'[s].lease # None
        PROVE  req'[s].lease.id < nextId' /\ req'[s].lease.kind = KindOf[s]
    <3>1. CASE s = r
      BY <1>1, <1>6, <3>1 DEF IInv, Shape
    <3>2. CASE s # r
      <4>1. req'[s] = req[s]
        BY <3>2 DEF IInv, Shape
      <4>2. req[s].lease \in Leases
        BY <2>2, <4>1 DEF IInv, Shape, RequestStates
      <4>3. req[s].lease.id \in Nat /\ req[s].lease.id < nextId
        BY <2>2, <4>1, <4>2 DEF IInv, HandlesOK, Leases
      <4>4. req[s].lease.kind = KindOf[s]
        BY <2>2, <4>1 DEF IInv, HandlesOK
      <4> QED BY <4>1, <4>3, <4>4 DEF IInv, Shape
    <3> QED BY <3>1, <3>2
  <2>3. ASSUME NEW s \in Requests, NEW t \in Requests, s # t, req'[s].lease # None
        PROVE  req'[s].lease # req'[t].lease
    BY <1>5, <1>6, <2>3 DEF IInv, Shape, HandlesOK
  <2> QED BY <2>1, <2>2, <2>3 DEF HandlesOK
<1>8. KeepsOK'
  <2> SUFFICES ASSUME NEW s \in Requests,
                      req'[s].pc \in {"persist", "held"}, req'[s].lease # None
               PROVE  req'[s].lease \in lb'.leases \/ Stale(req[s].lease)'
    BY DEF KeepsOK
  <2>1. CASE s = r
    BY <1>3, <1>6, <2>1 DEF IInv, Shape
  <2>2. CASE s # r
    BY <1>3, <2>2 DEF IInv, Shape, KeepsOK, Stale
  <2> QED BY <2>1, <2>2
<1>9. SelectingOK'
  BY DEF IInv, Shape, SelectingOK
<1> QED BY <1>3, <1>4, <1>7, <1>8, <1>9 DEF IInv

-----------------------------------------------------------------------------
(* One lemma per action. *)

LEMMA StatesTyped ==
    ASSUME IInv, NEW r \in Requests
    PROVE  /\ req[r] \in RequestStates
           /\ Idle \in RequestStates
           /\ Failed \in RequestStates /\ [Failed EXCEPT !.capped = TRUE] \in RequestStates
           /\ \A m \in Modes, n \in Nat : Loaded(r, m, n) \in RequestStates
           /\ \A l \in Leases : Holding(l) \in RequestStates /\ Chosen(r, l) \in RequestStates
           /\ \A c \in BOOLEAN : NotChosen(r, c) \in RequestStates
           /\ \A a \in Accounts : NewLease(r, a) \in Leases
           /\ InScope(r) \in SUBSET Accounts
<1>1. req[r] \in RequestStates
  BY DEF IInv, Shape
<1>2. Idle \in RequestStates
  BY DEF Idle, RequestStates, Phases, Modes
<1>3. Failed \in RequestStates /\ [Failed EXCEPT !.capped = TRUE] \in RequestStates
  BY DEF Failed, Idle, RequestStates, Phases, Modes
<1>4. \A m \in Modes, n \in Nat : Loaded(r, m, n) \in RequestStates
  BY DEF IInv, Shape, Loaded, Idle, RequestStates, Phases
<1>5. \A l \in Leases : Holding(l) \in RequestStates
  BY DEF Holding, Idle, RequestStates, Phases, Modes
<1>6. \A l \in Leases : Chosen(r, l) \in RequestStates
  BY <1>1 DEF Chosen, RequestStates, Phases
<1>7. \A c \in BOOLEAN : NotChosen(r, c) \in RequestStates
  BY <1>1 DEF NotChosen, RequestStates, Phases
<1>8. \A a \in Accounts : NewLease(r, a) \in Leases
  BY LeaseAssumption DEF IInv, Shape, NewLease, Leases
<1>9. InScope(r) \in SUBSET Accounts
  BY <1>1 DEF InScope, RequestStates
<1> QED BY <1>1, <1>2, <1>3, <1>4, <1>5, <1>6, <1>7, <1>8, <1>9

\* Steps that leave the books alone.
LEMMA LoadStep ==
    ASSUME IInv, NEW r \in Requests, LoadSelectionInputs(r)
    PROVE  IInv'
<1>1. PICK q \in {Loaded(r, m, 1) : m \in Modes} \cup {Failed} :
        req' = [req EXCEPT ![r] = q]
  BY DEF LoadSelectionInputs
<1>2. q \in RequestStates
  BY StatesTyped
<1>3. q.lease = None /\ q.pc \in {"loaded", "failed"}
  BY DEF Loaded, Failed, Idle
<1> QED BY <1>1, <1>2, <1>3, QuietStep DEF LoadSelectionInputs, IInv

LEMMA SelectStep ==
    ASSUME IInv, NEW r \in Requests, Select(r)
    PROVE  IInv'
<1> DEFINE b == Refresh(lb, req[r].inputs, InScope(r))
           open == {a \in InScope(r) : BelowCap(b, a, KindOf[r])}
           capped == open = {} /\ InScope(r) # {}
<1>1. BookOK(b) /\ CapOK(b) /\ b.leases = {l \in lb.leases : ~Stale(l)}
  BY RefreshOK, StatesTyped DEF IInv
<1>2. now' = now /\ known' = known /\ req[r].pc = "loaded"
  BY DEF Select
<1>3. CASE \E a \in open :
             /\ nextId < MaxLeases
             /\ lb' = Acquire(b, NewLease(r, a))
             /\ nextId' = nextId + 1
             /\ req' = [req EXCEPT ![r] = Chosen(r, NewLease(r, a))]
  <2> HIDE DEF b
  <2>1. PICK a \in open :
             /\ nextId < MaxLeases
             /\ lb' = Acquire(b, NewLease(r, a))
             /\ nextId' = nextId + 1
             /\ req' = [req EXCEPT ![r] = Chosen(r, NewLease(r, a))]
    BY <1>3
  <2>2. a \in Accounts /\ BelowCap(b, a, KindOf[r])
    BY StatesTyped DEF RequestStates, InScope
  <2>3. Chosen(r, NewLease(r, a)) \in RequestStates
    BY <2>2, StatesTyped
  <2>4. /\ Chosen(r, NewLease(r, a)).lease = NewLease(r, a)
        /\ Chosen(r, NewLease(r, a)).pc = "persist"
    BY StatesTyped DEF Chosen, RequestStates
  <2> QED BY <1>1, <1>2, <2>1, <2>2, <2>3, <2>4, GrantStep
<1>4. CASE /\ lb' = b
           /\ req' = [req EXCEPT ![r] = NotChosen(r, capped)]
           /\ nextId' = nextId
  <2>1. capped \in BOOLEAN
    OBVIOUS
  <2> HIDE DEF capped, open, b
  <2>2. NotChosen(r, capped) \in RequestStates
    BY <2>1, StatesTyped
  <2>3. NotChosen(r, capped).lease = None
    BY <1>2, StatesTyped DEF NotChosen, RequestStates, IInv, SelectingOK
  <2> QED BY <1>1, <1>2, <1>4, <2>2, <2>3, QuietStep
<1> QED BY <1>3, <1>4 DEF Select

\* The two sections of a sticky selection.
LEMMA StickyBeginStep ==
    ASSUME IInv, NEW r \in Requests, StickyBegin(r)
    PROVE  IInv'
<1>1. /\ BookOK(lb') /\ CapOK(lb') /\ lb'.leases = {l \in lb.leases : ~Stale(l)}
  BY RefreshOK, StatesTyped DEF IInv, StickyBegin
<1> DEFINE C == {a \in InScope(r) : \/ req[r].mode = "hard_sticky"
                                    \/ BelowCap(lb', a, KindOf[r])}
           q == [req[r] EXCEPT !.pc = "sticky", !.candidates = C]
<1>2. req' = [req EXCEPT ![r] = q]
  BY DEF StickyBegin, IInv, Shape
<1>3. C \in SUBSET Accounts
  BY StatesTyped DEF RequestStates, InScope
<1> HIDE DEF C
<1>4. q \in RequestStates /\ q.lease = req[r].lease /\ q.pc = "sticky"
  BY <1>3, StatesTyped DEF RequestStates, Phases
<1>5. req[r].lease = None
  BY DEF StickyBegin, IInv, SelectingOK
<1> HIDE DEF q
<1> QED BY <1>1, <1>2, <1>4, <1>5, QuietStep DEF StickyBegin

LEMMA StickyCommitStep ==
    ASSUME IInv, NEW r \in Requests, NEW a \in Accounts, StickyCommit(r, a)
    PROVE  IInv'
<1> DEFINE b == Touch(lb, InScope(r))
<1>1. BookOK(b) /\ CapOK(b) /\ b.leases = lb.leases
  BY TouchOK, StatesTyped DEF IInv
<1>2. now' = now /\ known' = known /\ req[r].lease = None
  BY DEF StickyCommit, IInv, SelectingOK
<1>3. CASE /\ BelowCap(b, a, KindOf[r])
           /\ nextId < MaxLeases
           /\ lb' = Acquire(b, NewLease(r, a))
           /\ nextId' = nextId + 1
           /\ req' = [req EXCEPT ![r] = Chosen(r, NewLease(r, a))]
  <2> HIDE DEF b
  <2>1. Chosen(r, NewLease(r, a)) \in RequestStates
    BY StatesTyped
  <2>2. /\ Chosen(r, NewLease(r, a)).lease = NewLease(r, a)
        /\ Chosen(r, NewLease(r, a)).pc = "persist"
    BY StatesTyped DEF Chosen, RequestStates
  <2> QED BY <1>1, <1>2, <1>3, <2>1, <2>2, GrantStep
<1>4. CASE /\ lb' = b
           /\ req' = [req EXCEPT ![r] = NotChosen(r, TRUE)]
           /\ nextId' = nextId
  <2> HIDE DEF b
  <2>1. NotChosen(r, TRUE) \in RequestStates /\ NotChosen(r, TRUE).lease = None
    BY <1>2, StatesTyped DEF NotChosen, RequestStates
  <2> QED BY <1>1, <1>2, <1>4, <2>1, QuietStep
<1> QED BY <1>3, <1>4 DEF StickyCommit

LEMMA StickyNoneStep ==
    ASSUME IInv, NEW r \in Requests, StickyNone(r)
    PROVE  IInv'
<1>1. BookOK(lb') /\ CapOK(lb') /\ lb'.leases = lb.leases
  BY TouchOK, StatesTyped DEF IInv, StickyNone
<1> DEFINE empty == req[r].candidates = {} /\ InScope(r) # {}
<1>2. empty \in BOOLEAN
  OBVIOUS
<1>3. req' = [req EXCEPT ![r] = NotChosen(r, empty)]
  BY DEF StickyNone
<1> HIDE DEF empty
<1>4. NotChosen(r, empty) \in RequestStates /\ NotChosen(r, empty).lease = None
  BY <1>2, StatesTyped DEF NotChosen, RequestStates, StickyNone, IInv, SelectingOK
<1> QED BY <1>1, <1>3, <1>4, QuietStep DEF StickyNone

\* The three ways a selection ends.
LEMMA PersistStep ==
    ASSUME IInv, NEW r \in Requests,
           PersistDone(r) \/ PersistRetry(r) \/ PersistRaises(r)
    PROVE  IInv'
<1>1. req[r].lease \in Leases \cup {None} /\ req[r].pc = "persist" /\ req[r].mode \in Modes
      /\ req[r].attempt \in Nat
  BY StatesTyped DEF RequestStates, PersistDone, PersistRetry, PersistRaises
<1>2. Failed \in RequestStates /\ Failed.lease = None /\ Failed.pc = "failed"
  BY StatesTyped DEF Failed, Idle
<1>3. /\ BookOK(Release(lb, req[r].lease)) /\ CapOK(Release(lb, req[r].lease))
      /\ Release(lb, req[r].lease).leases =
           IF req[r].lease = None THEN lb.leases ELSE lb.leases \ {req[r].lease}
  BY ReleaseOK DEF IInv
<1>4. CASE PersistDone(r)
  <2>1. CASE req[r].lease = None
    <3>1. req' = [req EXCEPT ![r] = Failed]
      BY <1>4, <2>1 DEF PersistDone
    <3> QED BY <1>2, <1>4, <3>1, QuietStep DEF PersistDone, IInv
  <2>2. CASE req[r].lease # None
    <3>1. req' = [req EXCEPT ![r] = Holding(req[r].lease)]
      BY <1>4, <2>2 DEF PersistDone
    <3>2. Holding(req[r].lease) \in RequestStates
      BY <1>1, <2>2, StatesTyped
    <3>3. Holding(req[r].lease).lease = req[r].lease /\ Holding(req[r].lease).pc = "held"
      BY DEF Holding, Idle
    <3>4. req[r].lease \in lb.leases \/ Stale(req[r].lease)
      BY <1>1, <2>2 DEF IInv, KeepsOK
    <3> QED BY <1>4, <3>1, <3>2, <3>3, <3>4, QuietStep DEF PersistDone, IInv
  <2> QED BY <2>1, <2>2
<1>5. CASE PersistRetry(r)
  <2>1. PICK q \in {Loaded(r, m, req[r].attempt + 1) : m \in Modes} \cup {Failed} :
          req' = [req EXCEPT ![r] = q]
    BY <1>5 DEF PersistRetry
  <2>2. q \in RequestStates
    BY <1>1, StatesTyped
  <2>3. q.lease = None /\ q.pc \in {"loaded", "failed"}
    BY DEF Loaded, Failed, Idle
  <2> QED BY <1>3, <1>5, <2>1, <2>2, <2>3, QuietStep DEF PersistRetry
<1>6. CASE PersistRaises(r)
  BY <1>2, <1>3, <1>6, QuietStep DEF PersistRaises
<1> QED BY <1>4, <1>5, <1>6

LEMMA AcquireStep ==
    ASSUME IInv, NEW r \in Requests, NEW a \in Accounts, AcquireAccountLease(r, a)
    PROVE  IInv'
<1> DEFINE b == Touch(ReclaimStale(lb), {a})
<1>1. BookOK(b) /\ CapOK(b) /\ b.leases = {l \in lb.leases : ~Stale(l)}
  BY ReclaimOK, TouchOK DEF IInv
<1>2. now' = now /\ known' = known /\ req[r].lease = None
  BY DEF AcquireAccountLease, IInv, SelectingOK
<1>3. CASE /\ BelowCap(b, a, KindOf[r])
           /\ nextId < MaxLeases
           /\ lb' = Acquire(b, NewLease(r, a))
           /\ nextId' = nextId + 1
           /\ req' = [req EXCEPT ![r] = Holding(NewLease(r, a))]
  <2> HIDE DEF b
  <2>1. Holding(NewLease(r, a)) \in RequestStates
    BY StatesTyped
  <2>2. /\ Holding(NewLease(r, a)).lease = NewLease(r, a)
        /\ Holding(NewLease(r, a)).pc = "held"
    BY DEF Holding, Idle
  <2> QED BY <1>1, <1>2, <1>3, <2>1, <2>2, GrantStep
<1>4. CASE /\ lb' = b
           /\ req' = [req EXCEPT ![r] = [Failed EXCEPT !.capped = TRUE]]
           /\ nextId' = nextId
  <2> HIDE DEF b
  <2> DEFINE q == [Failed EXCEPT !.capped = TRUE]
  <2>1. q \in RequestStates /\ q.lease = None /\ q.pc = "failed"
    BY StatesTyped DEF Failed, Idle
  <2> HIDE DEF q
  <2>2. req' = [req EXCEPT ![r] = q]
    BY <1>4 DEF q
  <2> QED BY <1>1, <1>2, <1>4, <2>1, <2>2, QuietStep
<1> QED BY <1>3, <1>4 DEF AcquireAccountLease

\* A release takes the caller's own lease, if it is still there.
LEMMA ReleaseStep ==
    ASSUME IInv, NEW r \in Requests, ReleaseAccountLease(r)
    PROVE  IInv'
<1>1. /\ BookOK(lb') /\ CapOK(lb')
      /\ lb'.leases = IF req[r].lease = None THEN lb.leases ELSE lb.leases \ {req[r].lease}
  BY ReleaseOK DEF IInv, ReleaseAccountLease
<1> DEFINE q == [req[r] EXCEPT !.pc = "released"]
<1>2. q \in RequestStates /\ q.lease = req[r].lease /\ q.pc = "released"
  BY StatesTyped DEF RequestStates, Phases
<1>3. req' = [req EXCEPT ![r] = q]
  BY DEF ReleaseAccountLease, IInv, Shape
<1> HIDE DEF q
<1> QED BY <1>1, <1>2, <1>3, QuietStep DEF ReleaseAccountLease

LEMMA LeaveStep ==
    ASSUME IInv, NEW r \in Requests, Finish(r) \/ Abandon(r)
    PROVE  IInv'
<1>1. Idle \in RequestStates /\ Idle.lease = None
  BY StatesTyped DEF Idle
<1>2. /\ req' = [req EXCEPT ![r] = Idle]
      /\ now' = now /\ known' = known /\ lb' = lb /\ nextId' = nextId
  BY DEF Finish, Abandon
<1> QED BY <1>1, <1>2, QuietStep DEF IInv

LEMMA EnvironmentStep ==
    ASSUME IInv, Tick \/ (\E a \in Accounts : ChangeAccounts(a)) \/ UNCHANGED vars
    PROVE  IInv'
<1>1. lb' = lb /\ nextId' = nextId /\ req' = req
  BY DEF Tick, ChangeAccounts, vars
<1>2. now' \in Nat /\ now' >= now /\ now' <= MaxTime /\ known' \in SUBSET Accounts
  BY LeaseAssumption DEF Tick, ChangeAccounts, vars, IInv, Shape
<1>3. Shape' /\ HandlesOK' /\ SelectingOK'
  BY <1>1, <1>2 DEF IInv, Shape, HandlesOK, SelectingOK
<1>4. BookOK(lb') /\ CapOK(lb')
  BY <1>1 DEF IInv
<1>5. KeepsOK'
  <2> SUFFICES ASSUME NEW r \in Requests,
                      req[r].pc \in {"persist", "held"}, req[r].lease # None,
                      req[r].lease \notin lb.leases
               PROVE  Stale(req[r].lease)'
    BY <1>1 DEF KeepsOK
  <2>1. req[r].lease \in Leases
    BY DEF IInv, Shape, RequestStates
  <2>2. StaleTtl(req[r].lease.kind) \in Nat
    BY StaleTtlBounds, <2>1 DEF Leases
  <2>3. now - req[r].lease.acquired_at >= StaleTtl(req[r].lease.kind)
    BY DEF IInv, KeepsOK, Stale
  <2>4. now' - req[r].lease.acquired_at >= StaleTtl(req[r].lease.kind)
    BY <1>2, <2>1, <2>2, <2>3 DEF IInv, Shape, Leases
  <2> QED BY <1>1, <2>4 DEF Stale, StaleTtl
<1> QED BY <1>3, <1>4, <1>5 DEF IInv

LEMMA InitOK == Init => IInv
<1> SUFFICES ASSUME Init PROVE IInv
  OBVIOUS
<1>1. Shape
  BY LeaseAssumption DEF Init, Shape, Idle, RequestStates, Phases, Modes
<1>2. \A r \in Requests : req[r].lease = None
  BY DEF Init, Idle
<1>3. HandlesOK /\ SelectingOK /\ KeepsOK
  BY <1>2 DEF Init, HandlesOK, SelectingOK, KeepsOK
<1>4. /\ lb.leases = {} /\ lb.inflight = [a \in Accounts |-> [k \in Kinds |-> 0]]
      /\ lb.leased_tokens = [a \in Accounts |-> 0] /\ lb \in Books
  BY DEF Init, Books
<1>5. \A a, k : LeasesOf(lb.leases, a, k) = {} /\ HeldBy(lb.leases, a) = {}
  BY <1>4 DEF LeasesOf, HeldBy
<1>6. IsFiniteSet({}) /\ Cardinality({}) = 0
  BY FS_EmptySet
<1>7. BookOK(lb)
  BY <1>4, <1>5, <1>6, SumEmpty DEF BookOK
<1>8. CapOK(lb)
  BY <1>4, LeaseAssumption DEF CapOK
<1> QED BY <1>1, <1>3, <1>7, <1>8 DEF IInv

LEMMA StepOK == IInv /\ [Next]_vars => IInv'
<1> SUFFICES ASSUME IInv, [Next]_vars PROVE IInv'
  OBVIOUS
<1>1. ASSUME NEW r \in Requests, LoadSelectionInputs(r) PROVE IInv'
  BY <1>1, LoadStep
<1>2. ASSUME NEW r \in Requests, Select(r) PROVE IInv'
  BY <1>2, SelectStep
<1>3. ASSUME NEW r \in Requests, StickyBegin(r) PROVE IInv'
  BY <1>3, StickyBeginStep
<1>4. ASSUME NEW r \in Requests, StickyNone(r) PROVE IInv'
  BY <1>4, StickyNoneStep
<1>5. ASSUME NEW r \in Requests, PersistDone(r) \/ PersistRetry(r) \/ PersistRaises(r)
      PROVE IInv'
  BY <1>5, PersistStep
<1>6. ASSUME NEW r \in Requests, ReleaseAccountLease(r) PROVE IInv'
  BY <1>6, ReleaseStep
<1>7. ASSUME NEW r \in Requests, Finish(r) \/ Abandon(r) PROVE IInv'
  BY <1>7, LeaveStep
<1>8. ASSUME NEW r \in Requests, NEW a \in Accounts, StickyCommit(r, a) PROVE IInv'
  BY <1>8, StickyCommitStep
<1>9. ASSUME NEW r \in Requests, NEW a \in Accounts, AcquireAccountLease(r, a) PROVE IInv'
  BY <1>9, AcquireStep
<1>10. CASE Tick \/ (\E a \in Accounts : ChangeAccounts(a)) \/ UNCHANGED vars
  BY <1>10, EnvironmentStep
<1> QED
  BY <1>1, <1>2, <1>3, <1>4, <1>5, <1>6, <1>7, <1>8, <1>9, <1>10 DEF Next

LEMMA Inductive == Spec => []IInv
  BY InitOK, StepOK, PTL DEF Spec

-----------------------------------------------------------------------------
(* The theorems. *)

\* Every reachable state of the balancer's books and of the requests is
\* well-formed.
THEOREM TypeCorrect == Spec => []TypeOK
<1>1. IInv => TypeOK
  BY LeaseAssumption DEF IInv, Shape, BookOK, TypeOK
<1> QED BY <1>1, Inductive, PTL

\* The token pressure of every account is exactly that of the leases that are
\* out: repeated releases, reclaims and prunes neither leave an estimate
\* behind nor take one off twice, and the floor at zero is never needed.
THEOREM TokensAlwaysMatch == Spec => []TokensMatchLeases
<1>1. IInv => TokensMatchLeases
  <2> SUFFICES ASSUME IInv, NEW a \in Accounts
               PROVE  lb.leased_tokens[a] = TokensOf(lb.leases, a)
    BY DEF TokensMatchLeases
  <2>1. /\ lb.leases \in SUBSET Leases /\ IsFiniteSet(lb.leases)
        /\ lb.leased_tokens[a] = SumOf(Weight, HeldBy(lb.leases, a))
    BY DEF IInv, BookOK, Books
  <2> QED BY <2>1, TokensAreSum
<1> QED BY <1>1, Inductive, PTL

\* The counters that decide about the caps count exactly the leases that are
\* out, after any interleaving of selections, releases, reclaims and prunes.
THEOREM CountersAlwaysMatch == Spec => []CountersMatchLeases
<1>1. IInv => CountersMatchLeases
  BY DEF IInv, BookOK, CountersMatchLeases
<1> QED BY <1>1, Inductive, PTL

\* No account ever has more leases of a kind than a configured cap allows,
\* sticky selections with their two sections included.
THEOREM CapsAlwaysRespected == Spec => []CapRespected
<1>1. IInv => CapRespected
  BY DEF IInv, BookOK, CapOK, CapRespected
<1> QED BY <1>1, Inductive, PTL

\* A stream within its request budget keeps its lease: stale_ttl_seconds
\* leaves it the budget and a margin, and no release but its own takes it.
THEOREM StreamsKeepLeases == Spec => []LiveStreamKeepsLease
<1>1. IInv => LiveStreamKeepsLease
  <2> SUFFICES ASSUME IInv, NEW r \in Requests,
                      req[r].pc \in {"persist", "held"}, req[r].lease # None,
                      KindOf[r] = "stream",
                      now - req[r].lease.acquired_at <= RequestBudget
               PROVE  req[r].lease \in lb.leases
    BY DEF LiveStreamKeepsLease
  <2>1. req[r].lease \in Leases /\ req[r].lease.kind = "stream"
    BY DEF IInv, Shape, RequestStates, HandlesOK
  <2>2. StaleTtl("stream") \in Nat /\ StaleTtl("stream") > RequestBudget
    BY StaleTtlBounds DEF Kinds
  <2>3. ~Stale(req[r].lease)
    BY <2>1, <2>2, LeaseAssumption DEF Stale, Leases, IInv, Shape
  <2> QED BY <2>3 DEF IInv, KeepsOK
<1> QED BY <1>1, Inductive, PTL

\* A request that is turned away for the cap.
TurnedAway(r) ==
    /\ req[r].pc \in {"idle", "loaded"}
    /\ req'[r].pc \in {"failed", "persist"}
    /\ ~req[r].capped /\ req'[r].capped

LEMMA TurnedAwayFresh ==
    ASSUME IInv, [Next]_vars, NEW r \in Requests, TurnedAway(r)
    PROVE  \A l \in lb'.leases : ~Stale(l)
<1>0. req[r] \in RequestStates /\ req \in [Requests -> RequestStates]
  BY DEF IInv, Shape
<1>1. ASSUME NEW q \in Requests, NEW s, req' = [req EXCEPT ![q] = s]
      PROVE  q = r /\ req'[r] = s
  BY <1>0, <1>1 DEF TurnedAway
<1>2. /\ Failed.capped = FALSE
      /\ \A l : Holding(l).pc = "held" /\ Holding(l).capped = FALSE
      /\ \A m, n : Loaded(r, m, n).pc = "loaded" /\ Idle.pc = "idle"
      /\ \A l : Chosen(r, l).capped = req[r].capped
  BY <1>0 DEF Failed, Idle, Holding, Loaded, Chosen, RequestStates
<1>3. ASSUME NEW q \in Requests, Select(q) PROVE \A l \in lb'.leases : ~Stale(l)
  <2> DEFINE b == Refresh(lb, req[q].inputs, InScope(q))
             open == {a \in InScope(q) : BelowCap(b, a, KindOf[q])}
             capped == open = {} /\ InScope(q) # {}
  <2>1. b.leases = {l \in lb.leases : ~Stale(l)}
    BY RefreshOK, StatesTyped DEF IInv
  <2>2. \/ \E a \in open : req' = [req EXCEPT ![q] = Chosen(q, NewLease(q, a))]
        \/ lb' = b
    BY <1>3 DEF Select
  <2> HIDE DEF b, open
  <2>3. CASE \E a \in open : req' = [req EXCEPT ![q] = Chosen(q, NewLease(q, a))]
    <3>1. PICK a \in open : req' = [req EXCEPT ![q] = Chosen(q, NewLease(q, a))]
      BY <2>3
    <3>2. q = r /\ req'[r] = Chosen(q, NewLease(q, a))
      BY <1>1, <3>1
    <3>3. req'[r].capped = req[r].capped
      BY <1>2, <3>2
    <3> QED BY <3>3 DEF TurnedAway
  <2> QED BY <2>1, <2>2, <2>3
<1>4. ASSUME NEW q \in Requests, NEW a \in Accounts, AcquireAccountLease(q, a)
      PROVE  \A l \in lb'.leases : ~Stale(l)
  <2> DEFINE b == Touch(ReclaimStale(lb), {a})
  <2>1. b.leases = {l \in lb.leases : ~Stale(l)}
    BY ReclaimOK, TouchOK DEF IInv
  <2>2. \/ req' = [req EXCEPT ![q] = Holding(NewLease(q, a))]
        \/ lb' = b
    BY <1>4 DEF AcquireAccountLease
  <2> HIDE DEF b
  <2>3. CASE req' = [req EXCEPT ![q] = Holding(NewLease(q, a))]
    <3>1. req'[r] = Holding(NewLease(q, a))
      BY <1>1, <2>3
    <3>2. req'[r].capped = FALSE
      BY <1>2, <3>1
    <3> QED BY <3>2 DEF TurnedAway
  <2> QED BY <2>1, <2>2, <2>3
<1>5. ASSUME NEW q \in Requests, LoadSelectionInputs(q) PROVE FALSE
  <2>1. PICK s \in {Loaded(q, m, 1) : m \in Modes} \cup {Failed} : req' = [req EXCEPT ![q] = s]
    BY <1>5 DEF LoadSelectionInputs
  <2>2. q = r /\ req'[r] = s
    BY <1>1, <2>1
  <2>3. s.pc = "loaded" \/ s.capped = FALSE
    BY <1>2, <2>2
  <2> QED BY <2>2, <2>3 DEF TurnedAway
<1>6. ASSUME NEW q \in Requests, StickyBegin(q) PROVE FALSE
  <2>1. req'[r].capped = req[r].capped
    BY <1>0, <1>6 DEF StickyBegin, RequestStates
  <2> QED BY <2>1 DEF TurnedAway
<1>7. ASSUME NEW q \in Requests, req[q].pc \notin {"idle", "loaded"}, NEW s,
             req' = [req EXCEPT ![q] = s]
      PROVE FALSE
  BY <1>1, <1>7 DEF TurnedAway
<1>8. ASSUME req' = req PROVE FALSE
  BY <1>8 DEF TurnedAway
<1>9. ASSUME NEW q \in Requests, \/ StickyNone(q) \/ PersistDone(q) \/ PersistRetry(q)
                                 \/ PersistRaises(q) \/ Finish(q) \/ Abandon(q)
                                 \/ \E a \in Accounts : StickyCommit(q, a)
      PROVE  FALSE
  BY <1>7, <1>9 DEF StickyNone, PersistDone, PersistRetry, PersistRaises, Finish, Abandon,
                    StickyCommit
<1>10. ASSUME NEW q \in Requests, ReleaseAccountLease(q) PROVE FALSE
  <2>1. req'[r].capped = req[r].capped
    BY <1>0, <1>10 DEF ReleaseAccountLease, RequestStates
  <2> QED BY <2>1 DEF TurnedAway
<1>11. ASSUME Tick \/ (\E a \in Accounts : ChangeAccounts(a)) \/ UNCHANGED vars PROVE FALSE
  BY <1>8, <1>11 DEF Tick, ChangeAccounts, vars
<1> QED BY <1>3, <1>4, <1>5, <1>6, <1>9, <1>10, <1>11 DEF Next

\* A plain selection and a direct acquisition reclaim before they look at the
\* cap: whoever they turn away for it is turned away by leases in time.
THEOREM RejectionsAreFresh == Spec => CapRejectionIsFresh
<1> DEFINE Fresh == \A r \in Requests : TurnedAway(r) => \A l \in lb'.leases : ~Stale(l)
<1>1. IInv /\ [Next]_vars => Fresh
  BY TurnedAwayFresh
<1>2. Spec => [][Fresh]_vars
  BY <1>1, Inductive, PTL DEF Spec
<1> QED BY <1>2 DEF CapRejectionIsFresh, TurnedAway

=============================================================================
