------------------------------ MODULE Counting ------------------------------
(***************************************************************************)
(* Where the members of a set stand in a sequence, and how many there are. *)
(* The servers' inboxes and queues are sequences, and what their           *)
(* invariants say is that each task has one message or one place in them.  *)
(* Sequences are put in a row, and rings and counters wrap once.           *)
(***************************************************************************)
EXTENDS SequenceTheorems, FiniteSetTheorems, FunctionTheorems, NaturalsInduction,
        WellFoundedInduction, TLAPS

Places(q, S) == {i \in 1 .. Len(q) : q[i] \in S}
Count(q, S)  == Cardinality(Places(q, S))

One(b) == IF b THEN 1 ELSE 0

LEMMA PlacesFinite ==
  ASSUME NEW T, NEW q \in Seq(T), NEW S
  PROVE  IsFiniteSet(Places(q, S)) /\ Count(q, S) \in Nat
<1>1. Len(q) \in Nat
  BY LenProperties
<1>2. IsFiniteSet(1 .. Len(q))
  BY <1>1, FS_Interval
<1>3. Places(q, S) \in SUBSET (1 .. Len(q))
  BY DEF Places
<1>4. IsFiniteSet(Places(q, S))
  BY <1>2, <1>3, FS_Subset
<1> QED BY <1>4, FS_CardinalityType DEF Count

LEMMA CountEmpty ==
  ASSUME NEW S
  PROVE  Places(<<>>, S) = {} /\ Count(<<>>, S) = 0
<1>1. Places(<<>>, S) = {}
  BY DEF Places
<1> QED BY <1>1, FS_EmptySet DEF Count

LEMMA CountAppend ==
  ASSUME NEW T, NEW q \in Seq(T), NEW x \in T, NEW S
  PROVE  Count(Append(q, x), S) = Count(q, S) + One(x \in S)
<1> DEFINE n == Len(q)
<1>1. /\ n \in Nat /\ Len(Append(q, x)) = n + 1 /\ Append(q, x)[n + 1] = x
      /\ \A i \in 1 .. n : Append(q, x)[i] = q[i]
  BY AppendProperties, LenProperties
<1>2. n + 1 \notin Places(q, S)
  BY <1>1 DEF Places
<1>3. IsFiniteSet(Places(q, S)) /\ Count(q, S) \in Nat
  BY PlacesFinite
<1>4. CASE x \in S
  <2>1. Places(Append(q, x), S) = Places(q, S) \cup {n + 1}
    BY <1>1, <1>4 DEF Places
  <2>2. Cardinality(Places(q, S) \cup {n + 1}) = Cardinality(Places(q, S)) + 1
    BY <1>2, <1>3, FS_AddElement
  <2> QED BY <1>4, <2>1, <2>2 DEF Count, One
<1>5. CASE x \notin S
  <2>1. Places(Append(q, x), S) = Places(q, S)
    BY <1>1, <1>5 DEF Places
  <2> QED BY <1>3, <1>5, <2>1 DEF Count, One
<1> QED BY <1>4, <1>5

LEMMA CountTail ==
  ASSUME NEW T, NEW q \in Seq(T), q # <<>>, NEW S
  PROVE  Count(Tail(q), S) = Count(q, S) - One(Head(q) \in S)
<1> DEFINE n == Len(q)
           P == Places(q, S)
           R == Places(Tail(q), S)
           f == [i \in R |-> i + 1]
<1>1. /\ n \in Nat \ {0} /\ Len(Tail(q)) = n - 1 /\ Head(q) = q[1]
      /\ \A i \in 1 .. n - 1 : Tail(q)[i] = q[i + 1]
  BY HeadTailProperties, LenProperties
<1>2. IsFiniteSet(P) /\ Count(q, S) \in Nat /\ P \subseteq 1 .. n
  BY PlacesFinite DEF Places
<1>3. Tail(q) \in Seq(T)
  BY HeadTailProperties
<1>4. IsFiniteSet(R)
  BY <1>3, PlacesFinite
<1>5. R \subseteq 1 .. n - 1 /\ \A i \in 1 .. n - 1 : i \in R <=> i + 1 \in P
  BY <1>1 DEF Places
<1>6. f \in Bijection(R, P \ {1})
  <2>1. f \in [R -> P \ {1}]
    BY <1>1, <1>5
  <2>2. \A i, j \in R : f[i] = f[j] => i = j
    BY <1>1, <1>5
  <2>3. \A k \in P \ {1} : \E i \in R : f[i] = k
    <3> SUFFICES ASSUME NEW k \in P \ {1} PROVE \E i \in R : f[i] = k
      OBVIOUS
    <3>1. k \in 2 .. n
      BY <1>1, <1>2
    <3>2. k - 1 \in R
      BY <1>1, <1>5, <3>1
    <3> QED BY <3>1, <3>2
  <2> QED BY <2>1, <2>2, <2>3, Fun_IsBij
<1>7. Cardinality(P \ {1}) = Cardinality(R)
  BY <1>4, <1>6, FS_Bijection DEF ExistsBijection
<1>8. Cardinality(P \ {1}) = IF 1 \in P THEN Cardinality(P) - 1 ELSE Cardinality(P)
  BY <1>2, FS_RemoveElement
<1>9. 1 \in P <=> Head(q) \in S
  BY <1>1 DEF Places
<1> QED BY <1>2, <1>7, <1>8, <1>9 DEF Count, One

LEMMA CountZero ==
  ASSUME NEW T, NEW q \in Seq(T), NEW S
  PROVE  Count(q, S) = 0 <=> \A i \in 1 .. Len(q) : q[i] \notin S
<1>1. Count(q, S) = 0 <=> Places(q, S) = {}
  BY PlacesFinite, FS_EmptySet DEF Count
<1> QED BY <1>1 DEF Places

\* The first member of S at the head of q, and no other, is what Count of at most 1 says.
LEMMA NoneBehind ==
  ASSUME NEW T, NEW q \in Seq(T), q # <<>>, NEW S, Head(q) \in S, Count(q, S) <= 1
  PROVE  Count(q, S) = 1 /\ Count(Tail(q), S) = 0
<1>1. Tail(q) \in Seq(T)
  BY HeadTailProperties
<1>2. Count(q, S) \in Nat /\ Count(Tail(q), S) \in Nat
  BY <1>1, PlacesFinite
<1>3. Count(Tail(q), S) = Count(q, S) - 1
  BY CountTail DEF One
<1> QED BY <1>2, <1>3

\* Sequences that repeat nothing are no longer than the set of their members is large.
LEMMA CountBound ==
  ASSUME NEW A, IsFiniteSet(A), NEW q \in Seq(A), \A x \in A : Count(q, {x}) <= 1
  PROVE  Len(q) <= Cardinality(A)
<1>1. Len(q) \in Nat /\ q \in [1 .. Len(q) -> A]
  BY LenProperties
<1>2. ASSUME NEW i \in 1 .. Len(q), NEW j \in 1 .. Len(q), q[i] = q[j], i # j
      PROVE  FALSE
  <2>1. q[i] \in A /\ {i, j} \in SUBSET Places(q, {q[i]})
    BY <1>1, <1>2 DEF Places
  <2>2. IsFiniteSet(Places(q, {q[i]}))
    BY PlacesFinite
  <2>3. Cardinality({i, j}) = 2
    <3>1. {i, j} = {i} \cup {j} /\ j \notin {i}
      BY <1>2
    <3>2. IsFiniteSet({i}) /\ Cardinality({i}) = 1
      BY FS_Singleton
    <3>3. Cardinality({i} \cup {j}) = Cardinality({i}) + 1
      BY <3>1, <3>2, FS_AddElement
    <3>4. Cardinality({i} \cup {j}) = 1 + 1
      BY <3>2, <3>3
    <3>5. Cardinality({i, j}) = Cardinality({i} \cup {j})
      BY <3>1, Zenon
    <3>6. Cardinality({i, j}) = 1 + 1
      BY <3>4, <3>5, Zenon
    <3> QED BY <3>6
  <2>4. Cardinality({i, j}) <= Count(q, {q[i]})
    BY <2>1, <2>2, FS_Subset DEF Count
  <2>5. Count(q, {q[i]}) <= 1 /\ Count(q, {q[i]}) \in Nat
    BY <2>1, PlacesFinite
  <2> QED BY <2>3, <2>4, <2>5
<1>3. q \in Injection(1 .. Len(q), A)
  BY <1>1, <1>2, Fun_IsInj
<1>4. IsFiniteSet(1 .. Len(q)) /\ Cardinality(1 .. Len(q)) = Len(q)
  BY <1>1, FS_Interval
<1> QED BY <1>3, <1>4, FS_Injection DEF ExistsInjection

-----------------------------------------------------------------------------
\* Sequences in a row.
LEMMA Regrouped ==
  ASSUME NEW T
  PROVE  \A x, y, z \in Seq(T) : x \o (y \o z) = (x \o y) \o z
BY ConcatAssociative

\* What stands first in a sequence stands first in one that it begins.
LEMMA HeadOfConcat ==
  ASSUME NEW T, NEW a \in Seq(T), NEW b \in Seq(T), a # <<>>
  PROVE  a \o b # <<>> /\ Head(a \o b) = Head(a) /\ Tail(a \o b) = Tail(a) \o b
<1>1. /\ Head(a) \in T /\ Tail(a) \in Seq(T) /\ a = <<Head(a)>> \o Tail(a)
  BY HeadTailProperties
<1>2. PICK x \in T : x = Head(a)
  BY <1>1
<1>3. PICK r \in Seq(T) : r = Tail(a)
  BY <1>1
<1>4. <<x>> \in Seq(T)
  OBVIOUS
<1>5. a \o b = <<x>> \o (r \o b)
  BY <1>1, <1>2, <1>3, <1>4, Regrouped
<1>6. r \o b \in Seq(T)
  BY ConcatProperties
<1>7. PICK s \in Seq(T) : s = r \o b
  BY <1>6
<1>8. Head(<<x>> \o s) = x /\ Tail(<<x>> \o s) = s /\ <<x>> \o s # <<>>
  OBVIOUS
<1> QED BY <1>2, <1>3, <1>5, <1>7, <1>8

-----------------------------------------------------------------------------
\* The least of some numbers, which is where an argument by induction starts.
LEMMA LeastOf ==
  ASSUME NEW S \in SUBSET Nat, S # {}
  PROVE  \E n \in S : \A i \in S : n <= i
<1>1. \E p \in S : \A r \in S : ~ (<<r, p>> \in OpToRel(<, Nat))
  BY NatLessThanWellFounded, WFMin
<1>2. ASSUME NEW m \in Nat, NEW n \in Nat, m < n
      PROVE  <<m, n>> \in OpToRel(<, Nat)
  BY <1>2 DEF OpToRel
<1>3. PICK p \in S : \A r \in S : ~ (<<r, p>> \in OpToRel(<, Nat))
  BY <1>1
<1>4. \A r \in S : p <= r
  <2> SUFFICES ASSUME NEW r \in S PROVE ~ (r < p)
    OBVIOUS
  <2> QED BY <1>2, <1>3
<1> QED BY <1>4

-----------------------------------------------------------------------------
\* A number that wraps at most once.
LEMMA Wrapped ==
  ASSUME NEW N \in Nat \ {0}, NEW n \in -N .. 2 * N - 1
  PROVE  /\ n % N = IF n < 0 THEN n + N ELSE IF n < N THEN n ELSE n - N
         /\ n % N \in 0 .. N - 1
<1>1. n \in Int /\ N \in Int /\ N > 0
  OBVIOUS
<1>2. PICK d \in Int : n = N * d + (n % N)
  <2>1. n = N * (n \div N) + (n % N) /\ n \div N \in Int
    BY <1>1
  <2> QED BY <2>1
<1>3. (n % N) \in 0 .. N - 1
  BY <1>1
<1>4. d \in {-1, 0, 1}
  <2>1. CASE d <= -2
    <3>1. N * d <= N * (-2)
      BY <1>1, <2>1
    <3> QED BY <1>1, <1>2, <1>3, <3>1
  <2>2. CASE d >= 2
    <3>1. N * d >= N * 2
      BY <1>1, <2>2
    <3> QED BY <1>1, <1>2, <1>3, <3>1
  <2> QED BY <2>1, <2>2
<1>5. CASE d = -1
  BY <1>1, <1>2, <1>3, <1>5
<1>6. CASE d = 0
  BY <1>1, <1>2, <1>3, <1>6
<1>7. CASE d = 1
  BY <1>1, <1>2, <1>3, <1>7
<1> QED BY <1>4, <1>5, <1>6, <1>7
=============================================================================
