---------------------------- MODULE PartsProofs -----------------------------
(***************************************************************************)
(* The containers of common/ keep what they promise under every sequence   *)
(* of their calls, for every size of theirs and all values: the rings of   *)
(* PriorityQueue are the bounded FIFOs of ReadyQueueSpec, and the queue,   *)
(* the list and the heap of Containers are those of BoundedSequence and    *)
(* CostBag.  The search for paths of PathFind, which draws from the same   *)
(* heap, finds the shortest ones in every graph that it can hold.          *)
(*                                                                         *)
(* A ring is described by its head and the number n of its values: the     *)
(* tail is n slots further round, and they are full and empty rings (n is  *)
(* PRIORITY_LENGTH or 0) whose head and tail meet.  The lemmas about       *)
(* Around, Values and Holds speak of one ring; the theorems say of which.  *)
(* The queue is one more ring, with a count of its own.                    *)
(*                                                                         *)
(* The list is described by two sequences of nodes, those from its head    *)
(* and those from the free one: no node is in both or twice in one.        *)
(*                                                                         *)
(* The heap is a tree in which no slot costs less than the one above it;   *)
(* the free list is exactly its vacant slots, and a slot comes before all  *)
(* below it.  A push moves up what costs more along the way to the root, a *)
(* pop moves up the cheaper child along a way to a leaf: what a way is,    *)
(* and that it ends, is shown once for both.                               *)
(*                                                                         *)
(* The search is described by the nodes D that have been expanded, each of *)
(* them once under its lowest cost: a node in the heap is either one that  *)
(* waits, or what is left of a higher cost, and costs no less than all in  *)
(* D.  The heap has room because only branches add more nodes to it than   *)
(* the one it gave, and a cost fits its width because it is no more than   *)
(* all the millimetres behind D.                                           *)
(*                                                                         *)
(* The last theorem says that all parts of MCParts keep what is promised   *)
(* of each, with the theorems on the switch office and the trains.         *)
(***************************************************************************)
EXTENDS MCParts, SwitchOfficeProofs, LocomotivesProofs, Counting

-----------------------------------------------------------------------------
(* The rings of the ready tasks.                                           *)

L == PRIORITY_LENGTH

LEMMA LengthPositive == L \in Nat \ {0}
<1> SUFFICES L # 0
  BY PriorityQueueAssumption DEF L
<1> SUFFICES ASSUME L = 0 PROVE FALSE
  OBVIOUS
<1>1. \A k \in 0 .. L : k = 0
  OBVIOUS
<1>2. 2 ^ 0 = 1
  OBVIOUS
<1> QED BY <1>1, <1>2, PriorityQueueAssumption DEF L

\* Once round the ring and not more.
LEMMA Remainder ==
  ASSUME NEW n \in 0 .. 2 * L - 1
  PROVE  /\ n % L = IF n < L THEN n ELSE n - L
         /\ n % L \in Slot
<1> USE LengthPositive
<1>1. CASE n < L
  BY <1>1 DEF Slot, L
<1>2. CASE n >= L
  <2>1. n = L * (n \div L) + (n % L) /\ (n % L) \in 0 .. L - 1 /\ n \div L \in Int
    OBVIOUS
  <2>2. n \div L >= 1
    BY <1>2, <2>1
  <2>3. n \div L < 2
    BY <2>1
  <2>4. n \div L = 1
    BY <2>1, <2>2, <2>3
  <2> QED BY <1>2, <2>1, <2>4 DEF Slot, L
<1> QED BY <1>1, <1>2

-----------------------------------------------------------------------------
(* One ring.                                                               *)

Around(h, n) == (h + n) % L

Values(d, h, n) == [i \in 1 .. n |-> d[(h + i - 1) % L]]

LEMMA AroundFacts ==
  ASSUME NEW h \in Slot, NEW n \in 0 .. L
  PROVE  /\ Around(h, n) \in Slot
         /\ Around(h, n) = IF h + n < L THEN h + n ELSE h + n - L
         /\ Wrap(h) = IF h + 1 < L THEN h + 1 ELSE 0
         /\ Wrap(h) \in Slot
<1>0. h \in Nat /\ n \in Nat /\ L \in Nat \ {0}
  BY LengthPositive DEF Slot, L
<1>1. h + n \in 0 .. 2 * L - 1 /\ h + 1 \in 0 .. 2 * L - 1
  BY LengthPositive DEF Slot, L
<1>2. /\ (h + n) % L = IF h + n < L THEN h + n ELSE h + n - L
      /\ (h + n) % L \in Slot
  <2> DEFINE m == h + n
  <2>1. m \in 0 .. 2 * L - 1
    BY <1>1
  <2> HIDE DEF m
  <2>2. (m % L = IF m < L THEN m ELSE m - L) /\ m % L \in Slot
    BY <2>1, Remainder
  <2> QED BY <1>0, <2>2 DEF m
<1>3. /\ (h + 1) % L = IF h + 1 < L THEN h + 1 ELSE h + 1 - L
      /\ (h + 1) % L \in Slot
  <2> DEFINE m == h + 1
  <2>1. m \in 0 .. 2 * L - 1
    BY <1>1
  <2> HIDE DEF m
  <2>2. (m % L = IF m < L THEN m ELSE m - L) /\ m % L \in Slot
    BY <2>1, Remainder
  <2> QED BY <1>0, <2>2 DEF m
<1> QED BY <1>2, <1>3, LengthPositive DEF Around, Wrap, L, Slot

\* The slots of the values are distinct and the tail is none of them.
LEMMA SlotFacts ==
  ASSUME NEW h \in Slot, NEW n \in 0 .. L, NEW i \in 1 .. n
  PROVE  /\ (h + i - 1) % L \in Slot
         /\ (h + i - 1) % L = IF h + i - 1 < L THEN h + i - 1 ELSE h + i - 1 - L
         /\ n < L => (h + i - 1) % L # Around(h, n)
<1>0. h \in Nat /\ i \in Nat /\ L \in Nat \ {0}
  BY LengthPositive DEF Slot, L
<1>1. h + i - 1 \in 0 .. 2 * L - 1
  BY LengthPositive DEF Slot, L
<1>2. /\ (h + i - 1) % L = IF h + i - 1 < L THEN h + i - 1 ELSE h + i - 1 - L
      /\ (h + i - 1) % L \in Slot
  <2> DEFINE m == h + i - 1
  <2>1. m \in 0 .. 2 * L - 1
    BY <1>1
  <2> HIDE DEF m
  <2>2. (m % L = IF m < L THEN m ELSE m - L) /\ m % L \in Slot
    BY <2>1, Remainder
  <2> QED BY <1>0, <2>2 DEF m
<1>3. Around(h, n) = IF h + n < L THEN h + n ELSE h + n - L
  BY AroundFacts
<1> QED BY <1>2, <1>3, LengthPositive DEF Slot, L

LEMMA PushRing ==
  ASSUME NEW V, NEW d \in [Slot -> V], NEW h \in Slot, NEW n \in 0 .. L - 1, NEW v \in V
  PROVE  /\ Around(h, n + 1) = Wrap(Around(h, n))
         /\ Values([d EXCEPT ![Around(h, n)] = v], h, n + 1) = Append(Values(d, h, n), v)
<1> DEFINE t == Around(h, n)
           e == [d EXCEPT ![t] = v]
<1>0. n \in 0 .. L /\ n + 1 \in 0 .. L /\ n + 1 \in 1 .. n + 1 /\ n \in Nat
  BY LengthPositive
<1>1. t \in Slot /\ t = IF h + n < L THEN h + n ELSE h + n - L
  BY <1>0, AroundFacts
<1>2. Around(h, n + 1) = IF h + (n + 1) < L THEN h + (n + 1) ELSE h + (n + 1) - L
  BY <1>0, AroundFacts
<1>3. Wrap(t) = IF t + 1 < L THEN t + 1 ELSE 0
  BY <1>0, <1>1, AroundFacts
<1>4. Around(h, n + 1) = Wrap(t)
  BY <1>1, <1>2, <1>3, LengthPositive DEF Slot, L
<1>5. \A i \in 1 .. n : (h + i - 1) % L \in Slot \ {t}
  <2> SUFFICES ASSUME NEW i \in 1 .. n PROVE (h + i - 1) % L \in Slot \ {t}
    OBVIOUS
  <2>1. n < L
    BY LengthPositive
  <2> QED BY <1>0, <2>1, SlotFacts
<1> HIDE DEF t
<1>6. e[t] = v /\ \A i \in 1 .. n : e[(h + i - 1) % L] = d[(h + i - 1) % L]
  BY <1>1, <1>5
<1>7. (h + (n + 1) - 1) % L = t
  BY <1>0 DEF t, Around, Slot
<1>8. Values(d, h, n) \in Seq(V) /\ Len(Values(d, h, n)) = n
  <2>1. \A i \in 1 .. n : d[(h + i - 1) % L] \in V
    BY <1>5
  <2> QED BY <1>0, <2>1 DEF Values
<1>9. Values(e, h, n + 1) \in Seq(V) /\ Len(Values(e, h, n + 1)) = n + 1
  <2>1. \A i \in 1 .. n + 1 : e[(h + i - 1) % L] \in V
    <3> SUFFICES ASSUME NEW i \in 1 .. n + 1 PROVE e[(h + i - 1) % L] \in V
      OBVIOUS
    <3>1. i \in 1 .. n \/ i = n + 1
      BY <1>0
    <3> QED BY <1>5, <1>6, <1>7, <3>1
  <2> QED BY <1>0, <2>1 DEF Values
<1>10. \A i \in 1 .. n + 1 : Values(e, h, n + 1)[i] = Append(Values(d, h, n), v)[i]
  <2> SUFFICES ASSUME NEW i \in 1 .. n + 1
               PROVE  Values(e, h, n + 1)[i] = Append(Values(d, h, n), v)[i]
    OBVIOUS
  <2>1. CASE i = n + 1
    <3>1. Values(e, h, n + 1)[i] = v
      BY <1>6, <1>7, <2>1 DEF Values
    <3> QED BY <1>8, <2>1, <3>1
  <2>2. CASE i # n + 1
    <3>1. i \in 1 .. n
      BY <1>0, <2>2
    <3>2. Values(e, h, n + 1)[i] = Values(d, h, n)[i]
      BY <1>6, <3>1 DEF Values
    <3> QED BY <1>8, <3>1, <3>2
  <2> QED BY <2>1, <2>2
<1>11. Append(Values(d, h, n), v) \in Seq(V) /\ Len(Append(Values(d, h, n), v)) = n + 1
  BY <1>8
<1>12. Values(e, h, n + 1) = Append(Values(d, h, n), v)
  BY <1>9, <1>10, <1>11, SeqEqual
<1> QED BY <1>4, <1>12 DEF t

LEMMA PopRing ==
  ASSUME NEW V, NEW d \in [Slot -> V], NEW h \in Slot, NEW n \in 1 .. L
  PROVE  /\ Around(Wrap(h), n - 1) = Around(h, n)
         /\ Values(d, h, n) # <<>>
         /\ Head(Values(d, h, n)) = d[h]
         /\ Values(d, Wrap(h), n - 1) = Tail(Values(d, h, n))
<1> DEFINE g == Wrap(h)
<1>0. n \in 0 .. L /\ n - 1 \in 0 .. L /\ 1 \in 1 .. n /\ n \in Nat /\ n - 1 \in Nat
  BY LengthPositive
<1>1. g \in Slot /\ g = IF h + 1 < L THEN h + 1 ELSE 0
  BY <1>0, AroundFacts
<1>2. Around(h, n) = IF h + n < L THEN h + n ELSE h + n - L
  BY <1>0, AroundFacts
<1>3. Around(g, n - 1) = IF g + (n - 1) < L THEN g + (n - 1) ELSE g + (n - 1) - L
  BY <1>0, <1>1, AroundFacts
<1>4. Around(g, n - 1) = Around(h, n)
  BY <1>0, <1>1, <1>2, <1>3, LengthPositive DEF Slot, L
<1>5. \A i \in 1 .. n :
        /\ (h + i - 1) % L \in Slot
        /\ (h + i - 1) % L = IF h + i - 1 < L THEN h + i - 1 ELSE h + i - 1 - L
  BY <1>0, SlotFacts
<1>6. \A i \in 1 .. n - 1 :
        /\ (g + i - 1) % L \in Slot
        /\ (g + i - 1) % L = IF g + i - 1 < L THEN g + i - 1 ELSE g + i - 1 - L
  BY <1>0, <1>1, SlotFacts
<1>7. \A i \in 1 .. n - 1 : (g + i - 1) % L = (h + (i + 1) - 1) % L
  <2> SUFFICES ASSUME NEW i \in 1 .. n - 1
               PROVE  (g + i - 1) % L = (h + (i + 1) - 1) % L
    OBVIOUS
  <2>1. i + 1 \in 1 .. n
    BY <1>0
  <2>2. (h + (i + 1) - 1) % L =
          IF h + (i + 1) - 1 < L THEN h + (i + 1) - 1 ELSE h + (i + 1) - 1 - L
    BY <1>5, <2>1
  <2> QED BY <1>0, <1>1, <1>6, <2>2, LengthPositive DEF Slot, L
<1> HIDE DEF g
<1>8. (h + 1 - 1) % L = h
  <2>1. (h + 1 - 1) % L = IF h + 1 - 1 < L THEN h + 1 - 1 ELSE h + 1 - 1 - L
    BY <1>0, <1>5
  <2> QED BY <2>1, LengthPositive DEF Slot, L
<1>9. Values(d, h, n) \in Seq(V) /\ Len(Values(d, h, n)) = n
  <2>1. \A i \in 1 .. n : d[(h + i - 1) % L] \in V
    BY <1>5
  <2> QED BY <1>0, <2>1 DEF Values
<1>10. Values(d, g, n - 1) \in Seq(V) /\ Len(Values(d, g, n - 1)) = n - 1
  <2> DEFINE m == n - 1
  <2>1. \A i \in 1 .. m : d[(g + i - 1) % L] \in V
    BY <1>6
  <2>2. m \in Nat
    BY <1>0
  <2> HIDE DEF m
  <2>3. Values(d, g, m) \in Seq(V) /\ Len(Values(d, g, m)) = m
    BY <2>1, <2>2 DEF Values
  <2> QED BY <2>3 DEF m
<1>11. Values(d, h, n) # <<>> /\ Head(Values(d, h, n)) = d[h]
  <2>1. Values(d, h, n)[1] = d[h]
    BY <1>0, <1>8 DEF Values
  <2> QED BY <1>0, <1>9, <2>1
<1>12. /\ Tail(Values(d, h, n)) \in Seq(V)
       /\ Len(Tail(Values(d, h, n))) = n - 1
       /\ \A i \in 1 .. n - 1 : Tail(Values(d, h, n))[i] = Values(d, h, n)[i + 1]
  BY <1>9, <1>11, HeadTailProperties
<1>13. \A i \in 1 .. n - 1 : Values(d, g, n - 1)[i] = Tail(Values(d, h, n))[i]
  <2> SUFFICES ASSUME NEW i \in 1 .. n - 1
               PROVE  Values(d, g, n - 1)[i] = Tail(Values(d, h, n))[i]
    OBVIOUS
  <2>1. i + 1 \in 1 .. n
    BY <1>0
  <2>2. Values(d, h, n)[i + 1] = d[(h + (i + 1) - 1) % L]
    BY <2>1 DEF Values
  <2>3. Values(d, g, n - 1)[i] = d[(g + i - 1) % L]
    BY DEF Values
  <2> QED BY <1>7, <1>12, <2>2, <2>3
<1>14. Values(d, g, n - 1) = Tail(Values(d, h, n))
  BY <1>10, <1>12, <1>13, SeqEqual
<1> QED BY <1>4, <1>11, <1>14 DEF g

-----------------------------------------------------------------------------
(* The rings of a state.                                                   *)

Queues == [p \in Priority |-> Contents(p)]

\* What Stored says of a ring that is RingOK.
LEMMA CountFacts ==
  ASSUME RingOK, NEW p \in Priority
  PROVE  /\ Stored(p) \in 0 .. L
         /\ tail[p] = Around(head[p], Stored(p))
         /\ Stored(p) = 0 <=> p \notin priorityBits
         /\ Stored(p) = L <=> p \in priorityBits /\ head[p] = tail[p]
         /\ Contents(p) = Values(data[p], head[p], Stored(p))
         /\ Len(Contents(p)) = Stored(p)
         /\ Contents(p) = <<>> <=> p \notin priorityBits
<1>1. /\ head[p] \in Slot /\ tail[p] \in Slot
      /\ p \notin priorityBits => head[p] = tail[p]
  BY DEF RingOK
<1>2. head[p] \in Nat /\ tail[p] \in Nat /\ head[p] < L /\ tail[p] < L /\ L \in Nat \ {0}
  BY <1>1, LengthPositive DEF Slot, L
<1>3. /\ Stored(p) \in 0 .. L
      /\ Stored(p) = 0 <=> p \notin priorityBits
      /\ Stored(p) = L <=> p \in priorityBits /\ head[p] = tail[p]
  BY <1>1, <1>2 DEF Stored, L
<1>4. tail[p] = Around(head[p], Stored(p))
  <2>1. Around(head[p], Stored(p)) =
          IF head[p] + Stored(p) < L THEN head[p] + Stored(p) ELSE head[p] + Stored(p) - L
    BY <1>1, <1>3, AroundFacts
  <2> QED BY <1>1, <1>2, <2>1 DEF Stored, L
<1>5. Contents(p) = Values(data[p], head[p], Stored(p))
  BY DEF Contents, Values, L
<1>6. Len(Contents(p)) = Stored(p)
  BY <1>3 DEF Contents
<1>7. Contents(p) = <<>> <=> Stored(p) = 0
  <2>1. Contents(p) = <<>> => Stored(p) = 0
    BY <1>6
  <2>2. Stored(p) = 0 => Contents(p) = <<>>
    BY DEF Contents
  <2> QED BY <2>1, <2>2
<1> QED BY <1>3, <1>4, <1>5, <1>6, <1>7

\* A ring whose tail is n slots after its head holds n values.
LEMMA CountIs ==
  ASSUME NEW h \in Slot, NEW n \in 0 .. L
  PROVE  LET t == Around(h, n)
         IN  /\ n # 0 => n = IF t > h THEN t - h ELSE t + L - h
             /\ t = h <=> n \in {0, L}
<1>1. h \in Nat /\ h < L /\ L \in Nat \ {0}
  BY LengthPositive DEF Slot, L
<1>2. Around(h, n) = IF h + n < L THEN h + n ELSE h + n - L
  BY AroundFacts
<1> QED BY <1>1, <1>2

\* The same in the next state.
LEMMA NextContents ==
  ASSUME RingOK', NEW p \in Priority, NEW n \in 0 .. L,
         tail'[p] = Around(head'[p], n), n = 0 <=> p \notin priorityBits'
  PROVE  Contents(p)' = Values(data'[p], head'[p], n)
<1>1. head'[p] \in Slot
  BY DEF RingOK
<1>2. Stored(p)' = n
  BY <1>1, CountIs DEF Stored, L
<1> QED BY <1>2 DEF Contents, Values, L

LEMMA LevelsAreBits ==
  ASSUME RingOK
  PROVE  /\ Fifo!Levels(Queues) = priorityBits
         /\ priorityBits \subseteq Priority
<1>1. \A p \in Priority : Queues[p] # <<>> <=> p \in priorityBits
  BY CountFacts DEF Queues
<1>2. priorityBits \subseteq Priority
  BY DEF RingOK
<1> QED BY <1>1, <1>2 DEF Fifo!Levels, Fifo!Priority, Priority

LEMMA FullIsNoRoom ==
  ASSUME RingOK, NEW p \in 0 .. PRIORITY_COUNT
  PROVE  Full(p) <=> ~Fifo!HasRoom(Queues, p)
<1>1. CASE p \notin Priority
  BY <1>1 DEF Full, Fifo!HasRoom, Fifo!Priority, Priority
<1>2. CASE p \in Priority
  <2>1. Queues[p] = Contents(p) /\ Len(Contents(p)) = Stored(p) /\ Stored(p) \in 0 .. L
    BY <1>2, CountFacts DEF Queues
  <2>2. Full(p) <=> Stored(p) = L
    BY <1>2, CountFacts DEF Full
  <2>3. Fifo!HasRoom(Queues, p) <=> Stored(p) < L
    BY <1>2, <2>1 DEF Fifo!HasRoom, Fifo!Priority, Priority, L
  <2> QED BY <2>1, <2>2, <2>3, LengthPositive
<1> QED BY <1>1, <1>2

\* A non-empty word has a least bit.
LEMMA LeastIsLeast ==
  ASSUME NEW bits, bits \subseteq Priority, bits # {}
  PROVE  Least(bits) \in bits /\ \A r \in bits : Least(bits) <= r
<1>1. bits \subseteq Nat
  BY PriorityQueueAssumption DEF Priority
<1>2. PICK p \in bits : \A r \in bits : ~ (<<r, p>> \in OpToRel(<, Nat))
  BY <1>1, NatLessThanWellFounded, WFMin
<1>3. ASSUME NEW m \in Nat, NEW n \in Nat, m < n
      PROVE  <<m, n>> \in OpToRel(<, Nat)
  BY <1>3 DEF OpToRel
<1>4. \A r \in bits : p <= r
  <2> SUFFICES ASSUME NEW r \in bits PROVE ~ (r < p)
    BY <1>1
  <2> QED BY <1>1, <1>2, <1>3
<1> QED
  BY <1>4 DEF Least

LEMMA UrgentIsLess ==
  ASSUME RingOK, NEW p \in Priority
  PROVE  Fifo!MoreUrgent(Queues, p) <=> p < Least(priorityBits)
<1>1. Fifo!MoreUrgent(Queues, p) <=> \A l \in priorityBits : p < l
  BY LevelsAreBits DEF Fifo!MoreUrgent
<1>2. CASE priorityBits = {}
  BY <1>1, <1>2, PriorityQueueAssumption DEF Least, Priority
<1>3. CASE priorityBits # {}
  <2>1. /\ Least(priorityBits) \in priorityBits
        /\ \A r \in priorityBits : Least(priorityBits) <= r
        /\ priorityBits \subseteq Nat
    BY <1>3, LevelsAreBits, LeastIsLeast, PriorityQueueAssumption DEF Priority
  <2>2. p \in Nat
    BY PriorityQueueAssumption DEF Priority
  <2> DEFINE m == Least(priorityBits)
  <2>3. m \in priorityBits /\ m \in Nat /\ \A r \in priorityBits : m <= r
    BY <2>1
  <2> HIDE DEF m
  <2>4. (\A l \in priorityBits : p < l) <=> p < m
    BY <2>1, <2>2, <2>3
  <2> QED BY <1>1, <2>4 DEF m
<1> QED BY <1>2, <1>3

-----------------------------------------------------------------------------
(* One call.                                                               *)

\* Where ring r, r # p, is left alone its contents are too.
LEMMA OtherRing ==
  ASSUME RingOK, RingOK', NEW r \in Priority,
         data'[r] = data[r], head'[r] = head[r], tail'[r] = tail[r],
         r \in priorityBits' <=> r \in priorityBits
  PROVE  Contents(r)' = Contents(r)
<1>1. Stored(r)' = Stored(r)
  BY DEF Stored
<1> QED BY <1>1 DEF Contents

\* A ring with a value written at its tail.
LEMMA WrittenRing ==
  ASSUME RingOK, NEW p \in Priority, NEW v \in Value, ~Full(p)
  PROVE  LET d == [data[p] EXCEPT ![tail[p]] = v]
             n == Stored(p)
         IN  /\ d \in [Slot -> Value \cup {Garbage}]
             /\ n \in Nat /\ n + 1 \in 1 .. L
             /\ Around(head[p], n + 1) = Wrap(tail[p])
             /\ Values(d, head[p], n + 1) = Append(Contents(p), v)
<1> DEFINE V == Value \cup {Garbage}
           d == data[p]
           h == head[p]
           n == Stored(p)
<1>1. /\ n \in 0 .. L /\ n # L
      /\ tail[p] = Around(h, n)
      /\ Contents(p) = Values(d, h, n)
  BY CountFacts DEF Full
<1>2. n \in 0 .. L - 1 /\ n \in Nat /\ n + 1 \in 1 .. L
  BY <1>1, LengthPositive
<1>3. d \in [Slot -> V] /\ h \in Slot /\ tail[p] \in Slot /\ v \in V
  BY DEF RingOK
<1> HIDE DEF V, d, h, n
<1>4. /\ Around(h, n + 1) = Wrap(Around(h, n))
      /\ Values([d EXCEPT ![Around(h, n)] = v], h, n + 1) = Append(Values(d, h, n), v)
  BY <1>2, <1>3, PushRing
<1>5. [d EXCEPT ![tail[p]] = v] \in [Slot -> V]
  BY <1>3
<1> QED BY <1>1, <1>2, <1>4, <1>5 DEF V, d, h, n

\* Writing at the tail is a push.
LEMMA PushesRing ==
  ASSUME RingOK, RingOK', NEW p \in Priority, NEW v \in Value, ~Full(p),
         data'[p] = [data[p] EXCEPT ![tail[p]] = v],
         tail'[p] = Wrap(tail[p]), head'[p] = head[p], p \in priorityBits'
  PROVE  Contents(p)' = Append(Contents(p), v)
<1> DEFINE n == Stored(p)
<1>1. /\ n \in Nat /\ n + 1 \in 1 .. L
      /\ Around(head[p], n + 1) = Wrap(tail[p])
      /\ Values(data'[p], head[p], n + 1) = Append(Contents(p), v)
  BY WrittenRing
<1> HIDE DEF n
<1>2. n + 1 \in 0 .. L /\ n + 1 # 0
  BY <1>1, LengthPositive
<1>3. tail'[p] = Around(head'[p], n + 1)
  BY <1>1
<1>4. Contents(p)' = Values(data'[p], head'[p], n + 1)
  BY <1>2, <1>3, NextContents
<1> QED BY <1>1, <1>4

\* Moving the head on is a pop.
LEMMA PopsRing ==
  ASSUME RingOK, RingOK', NEW p \in Priority, p \in priorityBits,
         data'[p] = data[p], tail'[p] = tail[p], head'[p] = Wrap(head[p]),
         p \in priorityBits' <=> head'[p] # tail'[p]
  PROVE  /\ Contents(p)' = Tail(Contents(p))
         /\ Contents(p) # <<>>
         /\ Head(Contents(p)) = data[p][head[p]]
<1> DEFINE n == Stored(p)
<1>1. /\ n \in 0 .. L /\ n # 0
      /\ tail[p] = Around(head[p], n)
      /\ Contents(p) = Values(data[p], head[p], n)
  BY CountFacts
<1>2. n \in 1 .. L /\ n - 1 \in 0 .. L /\ n - 1 # L
  BY <1>1, LengthPositive
<1> HIDE DEF n
<1>3. data[p] \in [Slot -> Value \cup {Garbage}] /\ head[p] \in Slot /\ head'[p] \in Slot
  BY DEF RingOK
<1>4. /\ Around(Wrap(head[p]), n - 1) = Around(head[p], n)
      /\ Values(data[p], head[p], n) # <<>>
      /\ Head(Values(data[p], head[p], n)) = data[p][head[p]]
      /\ Values(data[p], Wrap(head[p]), n - 1) = Tail(Values(data[p], head[p], n))
  BY <1>2, <1>3, PopRing
<1>5. tail'[p] = Around(head'[p], n - 1)
  BY <1>1, <1>4
<1>6. n - 1 = 0 <=> head'[p] = tail'[p]
  <2>1. Around(head'[p], n - 1) =
          IF head'[p] + (n - 1) < L THEN head'[p] + (n - 1) ELSE head'[p] + (n - 1) - L
    BY <1>2, <1>3, AroundFacts
  <2>2. head'[p] \in Nat /\ head'[p] < L
    BY <1>3, LengthPositive DEF Slot, L
  <2> QED BY <1>2, <1>5, <2>1, <2>2, LengthPositive
<1>7. Contents(p)' = Values(data'[p], head'[p], n - 1)
  BY <1>2, <1>5, <1>6, NextContents
<1> QED BY <1>1, <1>4, <1>7

-----------------------------------------------------------------------------
(* The indices.                                                            *)

LEMMA LeastInRange ==
  ASSUME RingOK, priorityBits # {}
  PROVE  Least(priorityBits) \in priorityBits /\ Least(priorityBits) \in Priority
BY LevelsAreBits, LeastIsLeast

LEMMA WrapSlot ==
  ASSUME NEW h \in Slot
  PROVE  Wrap(h) \in Slot
BY AroundFacts, LengthPositive

LEMMA PushOK ==
  ASSUME RingOK, NEW p, NEW v \in Value, Push(p, v)
  PROVE  RingOK'
<1>1. CASE UNCHANGED ring
  BY <1>1 DEF ring, RingOK
<1>2. CASE ~UNCHANGED ring
  <2>1. /\ p \in Priority
        /\ data' = [data EXCEPT ![p][tail[p]] = v]
        /\ tail' = [tail EXCEPT ![p] = Wrap(@)]
        /\ priorityBits' = priorityBits \cup {p}
        /\ UNCHANGED head
    BY <1>2 DEF Push, Full
  <2>2. Wrap(tail[p]) \in Slot
    BY <2>1, WrapSlot DEF RingOK
  <2> QED BY <2>1, <2>2 DEF RingOK
<1> QED BY <1>1, <1>2

LEMMA PopOK ==
  ASSUME RingOK, Pop
  PROVE  RingOK'
<1>1. CASE UNCHANGED ring
  BY <1>1 DEF ring, RingOK
<1>2. CASE ~UNCHANGED ring
  <2> DEFINE p == Least(priorityBits)
  <2>1. p \in priorityBits /\ p \in Priority
    BY <1>2, LeastInRange DEF Pop
  <2>2. /\ head' = [head EXCEPT ![p] = Wrap(@)]
        /\ priorityBits' = BitsAfterPop(priorityBits, p, Wrap(head[p]) = tail[p])
        /\ UNCHANGED <<data, tail>>
    BY <1>2 DEF Pop
  <2> HIDE DEF p
  <2>3. Wrap(head[p]) \in Slot
    BY <2>1, WrapSlot DEF RingOK
  <2>4. priorityBits' = IF Wrap(head[p]) = tail[p] THEN priorityBits \ {p} ELSE priorityBits
    BY <2>1, <2>2 DEF BitsAfterPop
  <2> QED BY <2>1, <2>2, <2>3, <2>4 DEF RingOK
<1> QED BY <1>1, <1>2

\* What PushPop does when it does not return early.
PushesAndPops(p, v, f) ==
  /\ p \in Priority /\ f \in priorityBits /\ f \in Priority
  /\ data' = [data EXCEPT ![p][tail[p]] = v]
  /\ tail' = [tail EXCEPT ![p] = Wrap(@)]
  /\ head' = [head EXCEPT ![f] = Wrap(@)]
  /\ priorityBits' = IF head'[f] = tail'[f] THEN (priorityBits \cup {p}) \ {f}
                     ELSE priorityBits \cup {p}
  /\ result' = Popped("pushpop", p, data'[f][head[f]])

LEMMA PushPopCases ==
  ASSUME RingOK, NEW p \in Priority, NEW v \in Value, PushPop(p, v)
  PROVE  \/ /\ p < Least(priorityBits)
            /\ result' = Returned("pushpop", p, "same")
            /\ UNCHANGED ring
         \/ /\ ~(p < Least(priorityBits)) /\ Full(p)
            /\ result' = Returned("pushpop", p, "full")
            /\ UNCHANGED ring
         \/ /\ ~(p < Least(priorityBits)) /\ ~Full(p)
            /\ priorityBits # {}
            /\ PushesAndPops(p, v, Least(priorityBits))
<1> DEFINE f == Least(priorityBits)
<1>1. priorityBits = {} => p < f
  BY PriorityQueueAssumption DEF Least, Priority
<1>2. p \in Nat /\ f \in Nat
  <2>1. priorityBits # {} => f \in Nat
    BY LeastInRange, PriorityQueueAssumption DEF Priority
  <2>2. priorityBits = {} => f = PRIORITY_COUNT
    BY DEF Least
  <2> QED BY <2>1, <2>2, PriorityQueueAssumption DEF Priority
<1>3. CASE p < f
  BY <1>2, <1>3 DEF PushPop
<1>4. CASE ~(p < f) /\ Full(p)
  BY <1>2, <1>4 DEF PushPop
<1>5. CASE ~(p < f) /\ ~Full(p)
  <2>1. f \in priorityBits /\ f \in Priority
    BY <1>1, <1>5, LeastInRange
  <2>2. /\ data' = [data EXCEPT ![p][tail[p]] = v]
        /\ tail' = [tail EXCEPT ![p] = Wrap(@)]
        /\ head' = [head EXCEPT ![f] = Wrap(@)]
        /\ result' = Popped("pushpop", p, data'[f][head[f]])
        /\ priorityBits' = BitsAfterPop(priorityBits \cup {p}, f, head'[f] = tail'[f])
    BY <1>2, <1>5 DEF PushPop
  <2> HIDE DEF f
  <2>3. priorityBits' = IF head'[f] = tail'[f] THEN (priorityBits \cup {p}) \ {f}
                        ELSE priorityBits \cup {p}
    BY <2>1, <2>2 DEF BitsAfterPop
  <2> QED BY <1>5, <2>1, <2>2, <2>3 DEF PushesAndPops, f
<1> QED BY <1>3, <1>4, <1>5

LEMMA PushPopOK ==
  ASSUME RingOK, NEW p \in Priority, NEW v \in Value, PushPop(p, v)
  PROVE  RingOK'
<1>1. CASE UNCHANGED ring
  BY <1>1 DEF ring, RingOK
<1>2. CASE \E f : PushesAndPops(p, v, f)
  <2>1. PICK f : PushesAndPops(p, v, f)
    BY <1>2
  <2>2. f \in Priority /\ Wrap(tail[p]) \in Slot /\ Wrap(head[f]) \in Slot
    BY <2>1, WrapSlot DEF RingOK, PushesAndPops
  <2> QED BY <2>1, <2>2 DEF RingOK, PushesAndPops
<1> QED BY <1>1, <1>2, PushPopCases

\* The indices stay in the rings for ever, and a level without its bit is empty
\* (priorityQueue.c:5-108).
THEOREM RingTheorem == Spec => []RingOK
<1>1. Init => RingOK
  BY LengthPositive DEF Init, RingOK, Slot, L
<1>2. RingOK /\ [Next]_vars => RingOK'
  <2> SUFFICES ASSUME RingOK, [Next]_vars PROVE RingOK'
    OBVIOUS
  <2>1. CASE UNCHANGED vars
    BY <2>1 DEF vars, RingOK
  <2>2. CASE Next
    BY <2>2, PushOK, PopOK, PushPopOK DEF Next
  <2> QED BY <2>1, <2>2
<1> QED
  BY <1>1, <1>2, PTL DEF Spec

-----------------------------------------------------------------------------
(* Every call is the call of ReadyQueueSpec.                               *)

LEMMA SameContents ==
  ASSUME UNCHANGED ring
  PROVE  Queues' = Queues
BY DEF ring, Queues, Contents, Stored

LEMMA PushCalls ==
  ASSUME RingOK, RingOK', NEW p \in 0 .. PRIORITY_COUNT, NEW v \in Value, Push(p, v)
  PROVE  \/ /\ Fifo!HasRoom(Queues, p)
            /\ Queues' = Fifo!Push(Queues, p, v)
            /\ result' = Returned("push", p, "ok")
         \/ /\ ~Fifo!HasRoom(Queues, p)
            /\ result' = Returned("push", p, "full")
            /\ Queues' = Queues
<1>1. CASE Full(p)
  BY <1>1, SameContents, FullIsNoRoom DEF Push
<1>2. CASE ~Full(p)
  <2>1. /\ p \in Priority
        /\ data' = [data EXCEPT ![p][tail[p]] = v]
        /\ tail' = [tail EXCEPT ![p] = Wrap(@)]
        /\ priorityBits' = priorityBits \cup {p}
        /\ UNCHANGED head
        /\ result' = Returned("push", p, "ok")
    BY <1>2 DEF Push, Full
  <2>2. Contents(p)' = Append(Contents(p), v)
    <3>1. /\ data'[p] = [data[p] EXCEPT ![tail[p]] = v]
          /\ tail'[p] = Wrap(tail[p]) /\ head'[p] = head[p] /\ p \in priorityBits'
      BY <2>1 DEF RingOK
    <3> QED BY <1>2, <2>1, <3>1, PushesRing
  <2>3. \A r \in Priority \ {p} : Contents(r)' = Contents(r)
    <3> SUFFICES ASSUME NEW r \in Priority \ {p} PROVE Contents(r)' = Contents(r)
      OBVIOUS
    <3>1. /\ data'[r] = data[r] /\ head'[r] = head[r] /\ tail'[r] = tail[r]
          /\ r \in priorityBits' <=> r \in priorityBits
      BY <2>1 DEF RingOK
    <3> QED BY <3>1, OtherRing
  <2>4. Queues' = [Queues EXCEPT ![p] = Append(@, v)]
    BY <2>1, <2>2, <2>3 DEF Queues
  <2> QED BY <1>2, <2>1, <2>4, FullIsNoRoom DEF Fifo!Push
<1> QED BY <1>1, <1>2

\* The queues when one of them changed.
LEMMA NextQueues ==
  ASSUME RingOK, RingOK', NEW p \in Priority, NEW s,
         \A r \in Priority \ {p} : /\ data'[r] = data[r] /\ head'[r] = head[r]
                                   /\ tail'[r] = tail[r]
                                   /\ r \in priorityBits' <=> r \in priorityBits,
         Contents(p)' = s
  PROVE  Queues' = [Queues EXCEPT ![p] = s]
<1>1. \A r \in Priority \ {p} : Contents(r)' = Contents(r)
  BY OtherRing
<1> QED BY <1>1 DEF Queues

LEMMA PopCalls ==
  ASSUME RingOK, RingOK', Pop
  PROVE  \/ /\ Fifo!Levels(Queues) = {}
            /\ result' = Returned("pop", 0, "empty")
            /\ Queues' = Queues
         \/ LET p == Fifo!Highest(Queues)
            IN  /\ Fifo!Levels(Queues) # {}
                /\ result' = Popped("pop", 0, Head(Queues[p]))
                /\ Queues' = [Queues EXCEPT ![p] = Tail(@)]
<1>1. CASE priorityBits = {}
  BY <1>1, SameContents, LevelsAreBits DEF Pop
<1>2. CASE priorityBits # {}
  <2>1. PICK p \in Priority : p = Least(priorityBits)
    BY <1>2, LeastInRange
  <2>2. p \in priorityBits /\ Fifo!Highest(Queues) = p
    BY <1>2, <2>1, LeastInRange, LevelsAreBits DEF Fifo!Highest, Least
  <2>3. /\ result' = Popped("pop", 0, data[p][head[p]])
        /\ head' = [head EXCEPT ![p] = Wrap(@)]
        /\ priorityBits' = BitsAfterPop(priorityBits, p, Wrap(head[p]) = tail[p])
        /\ UNCHANGED <<data, tail>>
    BY <1>2, <2>1 DEF Pop
  <2>4. /\ data'[p] = data[p] /\ tail'[p] = tail[p] /\ head'[p] = Wrap(head[p])
        /\ p \in priorityBits' <=> head'[p] # tail'[p]
    BY <2>2, <2>3 DEF RingOK, BitsAfterPop
  <2>5. /\ Contents(p)' = Tail(Contents(p))
        /\ Head(Contents(p)) = data[p][head[p]]
    BY <2>2, <2>4, PopsRing
  <2>6. \A r \in Priority \ {p} : /\ data'[r] = data[r] /\ head'[r] = head[r]
                                  /\ tail'[r] = tail[r]
                                  /\ r \in priorityBits' <=> r \in priorityBits
    BY <2>3 DEF RingOK, BitsAfterPop
  <2>7. /\ Queues' = [Queues EXCEPT ![p] = Tail(Contents(p))]
        /\ Queues[p] = Contents(p)
    <3>1. Queues[p] = Contents(p)
      BY DEF Queues
    <3> QED BY <2>5, <2>6, <3>1, NextQueues
  <2>8. priorityBits = Fifo!Levels(Queues)
    BY LevelsAreBits
  <2> QED BY <1>2, <2>2, <2>3, <2>5, <2>7, <2>8
<1> QED BY <1>1, <1>2

\* A value pushed and popped by one call, into ring p and out of ring f.
LEMMA PushPopQueues ==
  ASSUME RingOK, RingOK', NEW p \in Priority, NEW v \in Value, NEW f \in Priority,
         ~Full(p), PushesAndPops(p, v, f)
  PROVE  LET q == [Queues EXCEPT ![p] = Append(@, v)]
         IN  /\ q[f] # <<>>
             /\ result' = Popped("pushpop", p, Head(q[f]))
             /\ Queues' = [q EXCEPT ![f] = Tail(@)]
<1>0. \A r \in Priority : Queues[r] = Contents(r)
  BY DEF Queues
<1>1. /\ f \in priorityBits
      /\ data' = [data EXCEPT ![p][tail[p]] = v]
      /\ tail' = [tail EXCEPT ![p] = Wrap(@)]
      /\ head' = [head EXCEPT ![f] = Wrap(@)]
      /\ priorityBits' = IF head'[f] = tail'[f] THEN (priorityBits \cup {p}) \ {f}
                         ELSE priorityBits \cup {p}
      /\ result' = Popped("pushpop", p, data'[f][head[f]])
  BY DEF PushesAndPops
<1>2. /\ data'[p] = [data[p] EXCEPT ![tail[p]] = v]
      /\ tail'[p] = Wrap(tail[p])
      /\ head'[f] = Wrap(head[f])
      /\ f \in priorityBits' <=> head'[f] # tail'[f]
  BY <1>1 DEF RingOK
<1>3. CASE p = f
  <2> DEFINE d == data'[p]
             h == head[p]
             m == Stored(p) + 1
             V == Value \cup {Garbage}
             s == Append(Contents(p), v)
  <2>1. /\ d \in [Slot -> V] /\ m \in 1 .. L /\ m \in Nat
        /\ Around(h, m) = tail'[p]
        /\ Values(d, h, m) = s
    BY <1>2, WrittenRing
  <2>2. h \in Slot /\ head'[p] = Wrap(h) /\ Wrap(h) \in Slot
    BY <1>2, <1>3, WrapSlot DEF RingOK
  <2>3. result' = Popped("pushpop", p, d[h])
    BY <1>1, <1>3
  <2> HIDE DEF V, s
  <2>4. PICK e, g, n : e = d /\ g = h /\ n = m
    OBVIOUS
  <2> HIDE DEF d, h, m
  <2>5. /\ Around(Wrap(g), n - 1) = Around(g, n)
        /\ Values(e, g, n) # <<>>
        /\ Head(Values(e, g, n)) = e[g]
        /\ Values(e, Wrap(g), n - 1) = Tail(Values(e, g, n))
    BY <2>1, <2>2, <2>4, PopRing
  <2>6. data'[p] = e /\ head'[p] = Wrap(g) /\ tail'[p] = Around(Wrap(g), n - 1)
    BY <2>1, <2>2, <2>4, <2>5 DEF d
  <2>7. n - 1 \in 0 .. L /\ n - 1 # L /\ n \in 1 .. L
    BY <2>1, <2>4, LengthPositive
  <2>8. n - 1 = 0 <=> p \notin priorityBits'
    <3>1. n - 1 = 0 <=> head'[p] = tail'[p]
      <4>1. Around(Wrap(g), n - 1) =
              IF Wrap(g) + (n - 1) < L THEN Wrap(g) + (n - 1) ELSE Wrap(g) + (n - 1) - L
        BY <2>2, <2>4, <2>7, AroundFacts
      <4>2. Wrap(g) \in Nat /\ Wrap(g) < L
        BY <2>2, <2>4, LengthPositive DEF Slot, L
      <4> QED BY <2>6, <2>7, <4>1, <4>2, LengthPositive
    <3> QED BY <1>2, <1>3, <3>1
  <2>9. Contents(p)' = Values(e, Wrap(g), n - 1)
    <3>1. tail'[p] = Around(head'[p], n - 1)
      BY <2>6
    <3> QED BY <2>6, <2>7, <2>8, <3>1, NextContents
  <2>10. Contents(p)' = Tail(Append(Contents(p), v))
         /\ Head(Append(Contents(p), v)) = d[h]
         /\ Append(Contents(p), v) # <<>>
    BY <2>1, <2>4, <2>5, <2>9 DEF s
  <2>11. Queues' = [Queues EXCEPT ![p] = Tail(Append(Contents(p), v))]
    <3>1. \A r \in Priority \ {p} : /\ data'[r] = data[r] /\ head'[r] = head[r]
                                    /\ tail'[r] = tail[r]
                                    /\ r \in priorityBits' <=> r \in priorityBits
      BY <1>1, <1>3 DEF RingOK
    <3> QED BY <2>10, <3>1, NextQueues
  <2>12. /\ [Queues EXCEPT ![p] = Append(@, v)][p] = Append(Contents(p), v)
         /\ [[Queues EXCEPT ![p] = Append(@, v)] EXCEPT ![p] = Tail(@)]
              = [Queues EXCEPT ![p] = Tail(Append(Contents(p), v))]
    BY <1>0 DEF Queues
  <2> QED BY <1>3, <2>3, <2>10, <2>11, <2>12
<1>4. CASE p # f
  <2>1. Contents(p)' = Append(Contents(p), v)
    <3>1. head'[p] = head[p] /\ p \in priorityBits'
      BY <1>1, <1>4 DEF RingOK
    <3> QED BY <1>2, <3>1, PushesRing
  <2>2. /\ Contents(f)' = Tail(Contents(f))
        /\ Contents(f) # <<>>
        /\ Head(Contents(f)) = data[f][head[f]]
    <3>1. data'[f] = data[f] /\ tail'[f] = tail[f]
      BY <1>1, <1>4 DEF RingOK
    <3> QED BY <1>1, <1>2, <3>1, PopsRing
  <2>3. \A r \in Priority \ {p, f} : Contents(r)' = Contents(r)
    <3> SUFFICES ASSUME NEW r \in Priority \ {p, f} PROVE Contents(r)' = Contents(r)
      OBVIOUS
    <3>1. /\ data'[r] = data[r] /\ head'[r] = head[r] /\ tail'[r] = tail[r]
          /\ r \in priorityBits' <=> r \in priorityBits
      BY <1>1 DEF RingOK
    <3> QED BY <3>1, OtherRing
  <2>4. result' = Popped("pushpop", p, data[f][head[f]])
    BY <1>1, <1>4 DEF RingOK
  <2> DEFINE q == [Queues EXCEPT ![p] = Append(@, v)]
  <2>5. q[f] = Contents(f)
    BY <1>0, <1>4 DEF Queues
  <2>6. Queues' = [q EXCEPT ![f] = Tail(@)]
    <3>1. Queues' = [r \in Priority |-> IF r = p THEN Append(Contents(p), v)
                                        ELSE IF r = f THEN Tail(Contents(f))
                                        ELSE Contents(r)]
      BY <1>4, <2>1, <2>2, <2>3 DEF Queues
    <3>2. q = [r \in Priority |-> IF r = p THEN Append(Contents(p), v) ELSE Contents(r)]
      BY DEF Queues
    <3> QED BY <1>4, <3>1, <3>2
  <2> QED BY <2>2, <2>4, <2>5, <2>6
<1> QED BY <1>3, <1>4

LEMMA PushPopCalls ==
  ASSUME RingOK, RingOK', NEW p \in Priority, NEW v \in Value, PushPop(p, v)
  PROVE  \/ /\ Fifo!MoreUrgent(Queues, p)
            /\ result' = Returned("pushpop", p, "same")
            /\ Queues' = Queues
         \/ /\ ~Fifo!MoreUrgent(Queues, p)
            /\ ~Fifo!HasRoom(Queues, p)
            /\ result' = Returned("pushpop", p, "full")
            /\ Queues' = Queues
         \/ /\ ~Fifo!MoreUrgent(Queues, p)
            /\ Fifo!HasRoom(Queues, p)
            /\ LET q == Fifo!Push(Queues, p, v)
                   f == Fifo!Highest(q)
               IN  /\ result' = Popped("pushpop", p, Head(q[f]))
                   /\ Queues' = [q EXCEPT ![f] = Tail(@)]
<1>0. p \in 0 .. PRIORITY_COUNT
  BY PriorityQueueAssumption DEF Priority
<1>1. Fifo!MoreUrgent(Queues, p) <=> p < Least(priorityBits)
  BY UrgentIsLess
<1>2. Full(p) <=> ~Fifo!HasRoom(Queues, p)
  BY <1>0, FullIsNoRoom
<1>3. CASE UNCHANGED ring /\ p < Least(priorityBits) /\ result' = Returned("pushpop", p, "same")
  BY <1>1, <1>3, SameContents
<1>4. CASE /\ UNCHANGED ring /\ ~(p < Least(priorityBits)) /\ Full(p)
           /\ result' = Returned("pushpop", p, "full")
  BY <1>1, <1>2, <1>4, SameContents
<1>5. CASE /\ ~(p < Least(priorityBits)) /\ ~Full(p) /\ priorityBits # {}
           /\ PushesAndPops(p, v, Least(priorityBits))
  <2>1. PICK f \in Priority : f = Least(priorityBits) /\ f \in priorityBits
    BY <1>5, LeastInRange
  <2>2. \A r \in priorityBits : f <= r
    BY <1>5, <2>1, LeastIsLeast, LevelsAreBits
  <2>3. PICK q : q = [Queues EXCEPT ![p] = Append(@, v)]
    OBVIOUS
  <2>4. q = Fifo!Push(Queues, p, v)
    BY <2>3 DEF Fifo!Push
  <2>5. /\ q[f] # <<>>
        /\ result' = Popped("pushpop", p, Head(q[f]))
        /\ Queues' = [q EXCEPT ![f] = Tail(@)]
    BY <1>5, <2>1, <2>3, PushPopQueues
  <2>6. f \in Fifo!Levels(q)
    BY <2>1, <2>5 DEF Fifo!Levels, Fifo!Priority, Priority
  <2>7. \A r \in Fifo!Levels(q) : f <= r
    <3> SUFFICES ASSUME NEW r \in Fifo!Levels(q) PROVE f <= r
      OBVIOUS
    <3>1. r \in Priority /\ q[r] # <<>>
      BY DEF Fifo!Levels, Fifo!Priority, Priority
    <3>2. CASE r = p
      BY <1>5, <2>1, <3>2, PriorityQueueAssumption DEF Priority
    <3>3. CASE r # p
      <4>1. Queues[r] # <<>>
        BY <2>3, <3>1, <3>3 DEF Queues
      <4>2. r \in priorityBits
        BY <3>1, <4>1, LevelsAreBits DEF Fifo!Levels, Fifo!Priority, Priority
      <4> QED BY <2>2, <4>2
    <3> QED BY <3>2, <3>3
  <2>8. Fifo!Highest(q) = f
    <3>1. \A r \in Fifo!Levels(q) : r \in Nat
      BY PriorityQueueAssumption DEF Fifo!Levels, Fifo!Priority
    <3>2. \A r \in Fifo!Levels(q) : (\A s \in Fifo!Levels(q) : r <= s) <=> r = f
      BY <2>6, <2>7, <3>1
    <3> QED BY <2>6, <3>2 DEF Fifo!Highest
  <2> QED BY <1>1, <1>2, <1>5, <2>4, <2>5, <2>8
<1> QED BY <1>3, <1>4, <1>5, PushPopCases

\* The rings implement bounded FIFOs under every call (priorityQueue.c:5-108).
THEOREM Refinement == Spec => ImplementsReadyQueue
<1>1. Init => Fifo!Init
  <2> SUFFICES ASSUME Init PROVE Fifo!Init
    OBVIOUS
  <2>1. \A p \in Priority : Contents(p) = <<>>
    BY DEF Init, Contents, Stored
  <2> QED BY <2>1 DEF Init, Fifo!Init, Fifo!Priority, Priority, Returned, Fifo!Returned
<1>2. RingOK /\ RingOK' /\ [Next]_vars => [Fifo!Next]_(Fifo!vars)
  <2> SUFFICES ASSUME RingOK, RingOK', [Next]_vars PROVE [Fifo!Next]_(Fifo!vars)
    OBVIOUS
  <2>0. Fifo!vars = <<Queues, result>>
    BY DEF Fifo!vars, Queues
  <2>1. CASE UNCHANGED vars
    <3>1. UNCHANGED ring /\ UNCHANGED result
      BY <2>1 DEF vars, ring
    <3> QED BY <3>1, SameContents DEF Fifo!vars, Queues
  <2>2. CASE \E p \in 0 .. PRIORITY_COUNT, v \in Value : Push(p, v)
    <3>1. PICK p \in 0 .. PRIORITY_COUNT, v \in Value : Push(p, v)
      BY <2>2
    <3>2. Fifo!PushCall(p, v)
      BY <3>1, PushCalls DEF Fifo!PushCall, Returned, Fifo!Returned, Queues
    <3> QED BY <3>2 DEF Fifo!Next
  <2>3. CASE Pop
    <3>1. Fifo!PopCall
      BY <2>3, PopCalls DEF Fifo!PopCall, Fifo!PopFrom, Returned, Fifo!Returned,
         Popped, Fifo!Popped, Queues
    <3> QED BY <3>1 DEF Fifo!Next
  <2>4. CASE \E p \in Priority, v \in Value : PushPop(p, v)
    <3>1. PICK p \in Priority, v \in Value : PushPop(p, v)
      BY <2>4
    <3>2. Fifo!PushPopCall(p, v)
      BY <3>1, PushPopCalls DEF Fifo!PushPopCall, Fifo!PopFrom, Returned, Fifo!Returned,
         Popped, Fifo!Popped, Queues
    <3>3. p \in Fifo!Priority
      BY DEF Priority, Fifo!Priority
    <3> QED BY <3>2, <3>3 DEF Fifo!Next
  <2> QED BY <2>1, <2>2, <2>3, <2>4 DEF Next
<1> QED BY <1>1, <1>2, RingTheorem, PTL DEF Spec, Fifo!Spec, ImplementsReadyQueue

-----------------------------------------------------------------------------
(* The queue.                                                              *)

LEMMA QueueLengthPositive == QUEUE_LENGTH \in Nat \ {0}
<1> SUFFICES ASSUME QUEUE_LENGTH = 0 PROVE FALSE
  BY ContainersAssumption
<1>1. \A k \in 0 .. QUEUE_LENGTH : k = 0
  OBVIOUS
<1>2. 2 ^ 0 = 1
  OBVIOUS
<1> QED BY <1>1, <1>2, ContainersAssumption

QueueValue == Item \cup {CHOOSE v \in Item : TRUE}

\* The tail is as many slots behind the head as there are values.
QueueRing ==
  /\ queueData \in [QueueSlot -> QueueValue]
  /\ queueHead \in QueueSlot
  /\ queueCount \in 0 .. QUEUE_LENGTH
  /\ queueTail = (queueHead + queueCount) % QUEUE_LENGTH

\* What the queue holds, as InQueue maps it.
QueueContents == [i \in 1 .. queueCount |-> queueData[(queueHead + i - 1) % QUEUE_LENGTH]]

LEMMA QueueInitially == QueueInit => QueueRing /\ InQueue!Init
<1> SUFFICES ASSUME QueueInit PROVE QueueRing /\ InQueue!Init
  OBVIOUS
<1>1. QUEUE_LENGTH \in Nat \ {0}
  BY QueueLengthPositive
<1>2. 0 % QUEUE_LENGTH = 0
  BY <1>1
<1>3. queueData \in [QueueSlot -> QueueValue]
  BY DEF QueueInit, QueueValue
<1>4. QueueRing
  BY <1>1, <1>2, <1>3 DEF QueueInit, QueueRing, QueueSlot
<1>5. QueueContents = <<>>
  BY DEF QueueInit, QueueContents
<1>6. InQueue!Init
  BY <1>1, <1>5 DEF QueueInit, InQueue!Init, QueueContents
<1> QED BY <1>4, <1>6

LEMMA QueueRingFacts ==
  ASSUME QueueRing
  PROVE  /\ QUEUE_LENGTH \in Nat \ {0}
         /\ queueTail \in QueueSlot
         /\ NextSlot(queueHead) \in QueueSlot
         /\ NextSlot(queueTail) \in QueueSlot
         /\ QueueContents \in Seq(QueueValue)
         /\ Len(QueueContents) = queueCount
         /\ \A i \in 1 .. QUEUE_LENGTH : (queueHead + i - 1) % QUEUE_LENGTH \in QueueSlot
<1>1. /\ QUEUE_LENGTH \in Nat \ {0}
      /\ queueHead \in 0 .. QUEUE_LENGTH - 1 /\ queueCount \in 0 .. QUEUE_LENGTH
  BY QueueLengthPositive DEF QueueRing, QueueSlot
<1>2. ASSUME NEW n \in 0 .. 2 * QUEUE_LENGTH - 1 PROVE n % QUEUE_LENGTH \in QueueSlot
  <2>1. n \in - QUEUE_LENGTH .. 2 * QUEUE_LENGTH - 1
    BY <1>1
  <2> QED BY <1>1, <2>1, Wrapped DEF QueueSlot
<1>3. queueTail \in QueueSlot
  BY <1>1, <1>2 DEF QueueRing
<1>4. \A i \in 1 .. QUEUE_LENGTH : (queueHead + i - 1) % QUEUE_LENGTH \in QueueSlot
  <2> SUFFICES ASSUME NEW i \in 1 .. QUEUE_LENGTH
               PROVE  (queueHead + i - 1) % QUEUE_LENGTH \in QueueSlot
    OBVIOUS
  <2>1. queueHead + i - 1 \in 0 .. 2 * QUEUE_LENGTH - 1
    BY <1>1
  <2> QED BY <1>2, <2>1
<1>5. NextSlot(queueHead) \in QueueSlot /\ NextSlot(queueTail) \in QueueSlot
  <2>1. queueHead + 1 \in 0 .. 2 * QUEUE_LENGTH - 1 /\ queueTail + 1 \in 0 .. 2 * QUEUE_LENGTH - 1
    BY <1>1, <1>3 DEF QueueSlot
  <2> QED BY <1>2, <2>1 DEF NextSlot
<1>6. \A i \in 1 .. queueCount : queueData[(queueHead + i - 1) % QUEUE_LENGTH] \in QueueValue
  <2> SUFFICES ASSUME NEW i \in 1 .. queueCount
               PROVE  queueData[(queueHead + i - 1) % QUEUE_LENGTH] \in QueueValue
    OBVIOUS
  <2>1. i \in 1 .. QUEUE_LENGTH
    BY <1>1
  <2>2. (queueHead + i - 1) % QUEUE_LENGTH \in QueueSlot
    BY <1>4, <2>1
  <2> QED BY <2>2 DEF QueueRing
<1>7. QueueContents \in Seq(QueueValue) /\ Len(QueueContents) = queueCount
  BY <1>1, <1>6 DEF QueueContents
<1> QED BY <1>1, <1>3, <1>4, <1>5, <1>7

\* A place at most one round behind the head.
LEMMA QueueWraps ==
  ASSUME NEW n \in Int, - QUEUE_LENGTH <= n, n < 2 * QUEUE_LENGTH
  PROVE  /\ n % QUEUE_LENGTH = IF n < 0 THEN n + QUEUE_LENGTH
                               ELSE IF n < QUEUE_LENGTH THEN n ELSE n - QUEUE_LENGTH
         /\ n % QUEUE_LENGTH \in QueueSlot
<1>1. QUEUE_LENGTH \in Nat \ {0}
  BY QueueLengthPositive
<1>2. n \in - QUEUE_LENGTH .. 2 * QUEUE_LENGTH - 1
  BY <1>1
<1> QED BY <1>1, <1>2, Wrapped DEF QueueSlot

\* Places at most one round behind the head differ.
LEMMA QueuePlaces ==
  ASSUME QueueRing, NEW i \in 1 .. QUEUE_LENGTH, NEW j \in 1 .. QUEUE_LENGTH, i # j
  PROVE  (queueHead + i - 1) % QUEUE_LENGTH # (queueHead + j - 1) % QUEUE_LENGTH
<1> DEFINE N == QUEUE_LENGTH
<1>1. N \in Nat \ {0} /\ queueHead \in 0 .. N - 1
  BY QueueRingFacts DEF QueueRing, QueueSlot
<1>2. queueHead + i - 1 \in - N .. 2 * N - 1 /\ queueHead + j - 1 \in - N .. 2 * N - 1
  BY <1>1
<1>3. /\ (queueHead + i - 1) % N = IF queueHead + i - 1 < N THEN queueHead + i - 1
                                   ELSE queueHead + i - 1 - N
      /\ (queueHead + j - 1) % N = IF queueHead + j - 1 < N THEN queueHead + j - 1
                                   ELSE queueHead + j - 1 - N
  BY <1>1, <1>2, QueueWraps
<1>4. i \in 1 .. N /\ j \in 1 .. N
  OBVIOUS
<1>5. (queueHead + i - 1) % N # (queueHead + j - 1) % N
  BY <1>1, <1>3, <1>4
<1> QED BY <1>5

\* A place counted from the next slot is the following one counted from the head.
LEMMA QueueOneOn ==
  ASSUME QueueRing, NEW i \in 1 .. QUEUE_LENGTH
  PROVE  /\ (NextSlot(queueHead) + i - 1) % QUEUE_LENGTH = (queueHead + i) % QUEUE_LENGTH
         /\ (NextSlot(queueHead) + i - 1) % QUEUE_LENGTH \in QueueSlot
<1> DEFINE N == QUEUE_LENGTH
           h == NextSlot(queueHead)
<1>1. N \in Nat \ {0} /\ queueHead \in 0 .. N - 1 /\ h \in 0 .. N - 1
  BY QueueRingFacts DEF QueueRing, QueueSlot
<1>2. queueHead + 1 \in - N .. 2 * N - 1 /\ queueHead + i \in - N .. 2 * N - 1
      /\ h + i - 1 \in - N .. 2 * N - 1
  BY <1>1
<1>3. h = (queueHead + 1) % N
  BY DEF NextSlot
<1>4. i \in 1 .. N
  OBVIOUS
<1>5. (h + i - 1) % N \in QueueSlot
  BY <1>1, <1>2, QueueWraps DEF QueueSlot
<1> HIDE DEF h
<1>6. h = IF queueHead + 1 < N THEN queueHead + 1 ELSE queueHead + 1 - N
  BY <1>1, <1>2, <1>3, QueueWraps
<1>7. (queueHead + i) % N = IF queueHead + i < N THEN queueHead + i ELSE queueHead + i - N
  BY <1>1, <1>2, <1>4, QueueWraps
<1>8. (h + i - 1) % N = IF h + i - 1 < N THEN h + i - 1 ELSE h + i - 1 - N
  BY <1>1, <1>2, <1>4, QueueWraps
<1>9. (h + i - 1) % N = (queueHead + i) % N
  BY <1>1, <1>4, <1>6, <1>7, <1>8
<1> QED BY <1>5, <1>9 DEF h

\* A value goes behind the last (queue.c:18-30).
LEMMA QueuePushes ==
  ASSUME QueueRing, NEW v \in Item, QueuePush(v)
  PROVE  QueueRing' /\ InQueue!PushBack(v)
<1> DEFINE N == QUEUE_LENGTH
<1>1. /\ N \in Nat \ {0} /\ queueCount \in 0 .. N /\ queueHead \in 0 .. N - 1
      /\ queueData \in [QueueSlot -> QueueValue] /\ queueTail \in QueueSlot
      /\ NextSlot(queueTail) \in QueueSlot
      /\ QueueContents \in Seq(QueueValue) /\ Len(QueueContents) = queueCount
  BY QueueRingFacts DEF QueueRing, QueueSlot
<1>2. CASE QueueIsFull
  <2>1. queueCount = N /\ queueResult' = "full"
        /\ UNCHANGED <<queueData, queueHead, queueTail, queueCount>>
    BY <1>2 DEF QueuePush, QueueIsFull
  <2>2. QueueRing'
    BY <2>1 DEF QueueRing
  <2>3. InQueue!Refused
    BY <1>1, <2>1 DEF InQueue!Refused
  <2> QED BY <2>2, <2>3 DEF InQueue!PushBack
<1>3. CASE ~QueueIsFull
  <2>1. /\ queueCount # N
        /\ queueData' = [queueData EXCEPT ![queueTail] = v]
        /\ queueTail' = NextSlot(queueTail) /\ queueHead' = queueHead
        /\ queueCount' = queueCount + 1 /\ queueResult' = "ok"
    BY <1>3 DEF QueuePush, QueueIsFull
  <2>2. queueCount + 1 \in 1 .. N
    BY <1>1, <2>1
  <2>3. v \in QueueValue
    BY DEF QueueValue
  <2>4. queueData' \in [QueueSlot -> QueueValue]
    BY <1>1, <2>1, <2>3
  <2>5. NextSlot(queueTail) = (queueHead + (queueCount + 1)) % N
    <3>0. N \in Nat \ {0} /\ queueHead \in 0 .. N - 1 /\ queueCount \in 0 .. N - 1
          /\ queueTail \in 0 .. N - 1
      BY <1>1, <2>1 DEF QueueSlot
    <3>1. queueTail = (queueHead + queueCount) % N
      BY DEF QueueRing
    <3>2. queueHead + queueCount \in - N .. 2 * N - 1
      BY <1>1, <2>2
    <3>3. queueHead + (queueCount + 1) \in - N .. 2 * N - 1
      BY <1>1, <2>2
    <3>4. queueTail + 1 \in - N .. 2 * N - 1
      BY <1>1 DEF QueueSlot
    <3>5. NextSlot(queueTail) = (queueTail + 1) % N
      BY DEF NextSlot
    <3>6. queueTail = IF queueHead + queueCount < N THEN queueHead + queueCount
                      ELSE queueHead + queueCount - N
      BY <3>0, <3>1, <3>2, QueueWraps
    <3>7. NextSlot(queueTail) = IF queueTail + 1 < N THEN queueTail + 1 ELSE queueTail + 1 - N
      BY <3>0, <3>4, <3>5, QueueWraps
    <3>8. (queueHead + (queueCount + 1)) % N
            = IF queueHead + (queueCount + 1) < N THEN queueHead + (queueCount + 1)
              ELSE queueHead + (queueCount + 1) - N
      BY <3>0, <3>3, QueueWraps
    <3> QED BY <3>0, <3>6, <3>7, <3>8
  <2>6. QueueRing'
    BY <1>1, <2>1, <2>2, <2>4, <2>5 DEF QueueRing, QueueSlot
  <2>7. QueueContents' = Append(QueueContents, v)
    <3>1. QueueContents' = [i \in 1 .. queueCount + 1 |-> queueData'[(queueHead + i - 1) % N]]
      BY <2>1 DEF QueueContents
    <3>2. \A i \in 1 .. queueCount :
            queueData'[(queueHead + i - 1) % N] = QueueContents[i]
      <4> SUFFICES ASSUME NEW i \in 1 .. queueCount
                   PROVE  queueData'[(queueHead + i - 1) % N] = QueueContents[i]
        OBVIOUS
      <4>1. i \in 1 .. N /\ queueCount + 1 \in 1 .. N /\ i # queueCount + 1
        BY <1>1, <2>2
      <4>2. (queueHead + i - 1) % N # (queueHead + (queueCount + 1) - 1) % N
        BY <4>1, QueuePlaces
      <4>3. queueHead + (queueCount + 1) - 1 = queueHead + queueCount
        BY <1>1
      <4>4. (queueHead + i - 1) % N # queueTail
        BY <4>2, <4>3 DEF QueueRing
      <4>5. (queueHead + i - 1) % N \in QueueSlot
        BY <4>1, QueueRingFacts
      <4> QED BY <1>1, <2>1, <4>4, <4>5 DEF QueueContents
    <3>3. queueData'[(queueHead + (queueCount + 1) - 1) % N] = v
      <4>1. queueHead + (queueCount + 1) - 1 = queueHead + queueCount
        BY <1>1
      <4> QED BY <1>1, <2>1, <4>1 DEF QueueRing
    <3>4. QueueContents' \in Seq(QueueValue) /\ Len(QueueContents') = queueCount + 1
      <4>1. queueCount + 1 \in Nat
        BY <1>1
      <4>2. \A i \in 1 .. queueCount + 1 : queueData'[(queueHead + i - 1) % N] \in QueueValue
        <5>1. \A i \in 1 .. queueCount : QueueContents[i] \in QueueValue
          BY <1>1, ElementOfSeq
        <5>2. ASSUME NEW i \in 1 .. queueCount + 1
              PROVE  queueData'[(queueHead + i - 1) % N] \in QueueValue
          <6>1. i \in 1 .. queueCount \/ i = queueCount + 1
            BY <1>1
          <6>2. CASE i \in 1 .. queueCount
            BY <3>2, <5>1, <6>2
          <6>3. CASE i = queueCount + 1
            BY <2>3, <3>3, <6>3
          <6> QED BY <6>1, <6>2, <6>3
        <5> QED BY <5>2
      <4> QED BY <3>1, <4>1, <4>2
    <3>5. /\ Append(QueueContents, v) \in Seq(QueueValue)
          /\ Len(Append(QueueContents, v)) = queueCount + 1
          /\ \A i \in 1 .. queueCount : Append(QueueContents, v)[i] = QueueContents[i]
          /\ Append(QueueContents, v)[queueCount + 1] = v
      BY <1>1, <2>3, AppendProperties
    <3>6. \A i \in 1 .. queueCount + 1 : QueueContents'[i] = Append(QueueContents, v)[i]
      <4> SUFFICES ASSUME NEW i \in 1 .. queueCount + 1
                   PROVE  QueueContents'[i] = Append(QueueContents, v)[i]
        OBVIOUS
      <4>1. i \in 1 .. queueCount \/ i = queueCount + 1
        BY <1>1
      <4>2. QueueContents'[i] = queueData'[(queueHead + i - 1) % N]
        BY <3>1
      <4>3. CASE i \in 1 .. queueCount
        BY <3>2, <3>5, <4>2, <4>3
      <4>4. CASE i = queueCount + 1
        BY <3>3, <3>5, <4>2, <4>4
      <4> QED BY <4>1, <4>3, <4>4
    <3> QED BY <3>4, <3>5, <3>6, SeqEqual
  <2>8. InQueue!Added(Append(QueueContents, v))
    <3>1. N - queueCount > 0 /\ N - queueCount' = (N - queueCount) - 1
      BY <1>1, <2>1
    <3> QED BY <2>1, <2>7, <3>1 DEF InQueue!Added, QueueContents
  <2> QED BY <2>6, <2>8 DEF InQueue!PushBack, QueueContents
<1> QED BY <1>2, <1>3

\* The first value leaves (queue.c:32-43).
LEMMA QueuePops ==
  ASSUME QueueRing, QueuePop
  PROVE  QueueRing' /\ InQueue!Pop
<1> DEFINE N == QUEUE_LENGTH
<1>1. /\ N \in Nat \ {0} /\ queueCount \in 0 .. N /\ queueHead \in 0 .. N - 1
      /\ queueData \in [QueueSlot -> QueueValue] /\ queueTail \in QueueSlot
      /\ NextSlot(queueHead) \in QueueSlot
      /\ QueueContents \in Seq(QueueValue) /\ Len(QueueContents) = queueCount
  BY QueueRingFacts DEF QueueRing, QueueSlot
<1>2. QueueContents = <<>> <=> queueCount = 0
  BY <1>1, EmptySeq
<1>3. CASE queueCount = 0
  <2>1. queueResult' = "empty" /\ UNCHANGED <<queueData, queueHead, queueTail, queueCount>>
    BY <1>3 DEF QueuePop
  <2>2. QueueRing'
    BY <2>1 DEF QueueRing
  <2>3. QueueContents' = QueueContents /\ (N - queueCount)' = N - queueCount
    BY <2>1 DEF QueueContents
  <2> QED BY <1>2, <1>3, <2>1, <2>2, <2>3 DEF InQueue!Pop, QueueContents
<1>4. CASE queueCount # 0
  <2>1. /\ queueCount' = queueCount - 1 /\ queueResult' = queueData[queueHead]
        /\ queueHead' = NextSlot(queueHead) /\ UNCHANGED <<queueData, queueTail>>
    BY <1>4 DEF QueuePop
  <2>2. queueCount \in 1 .. N /\ queueCount - 1 \in 0 .. N
    BY <1>1, <1>4
  <2>3. (NextSlot(queueHead) + (queueCount - 1)) % N = (queueHead + queueCount) % N
    <3>1. NextSlot(queueHead) + (queueCount - 1) = NextSlot(queueHead) + queueCount - 1
      BY <1>1 DEF QueueSlot
    <3> QED BY <2>2, <3>1, QueueOneOn
  <2>4. QueueRing'
    BY <1>1, <2>1, <2>2, <2>3 DEF QueueRing
  <2>5. QueueContents' = Tail(QueueContents)
    <3>1. QueueContents' = [i \in 1 .. queueCount - 1 |->
                              queueData[(NextSlot(queueHead) + i - 1) % N]]
      BY <2>1 DEF QueueContents
    <3>2. \A i \in 1 .. queueCount - 1 :
            queueData[(NextSlot(queueHead) + i - 1) % N] = QueueContents[i + 1]
      <4> SUFFICES ASSUME NEW i \in 1 .. queueCount - 1
                   PROVE  queueData[(NextSlot(queueHead) + i - 1) % N] = QueueContents[i + 1]
        OBVIOUS
      <4>1. i \in 1 .. N /\ i + 1 \in 1 .. queueCount
        BY <1>1
      <4>2. (NextSlot(queueHead) + i - 1) % N = (queueHead + i) % N
        BY <4>1, QueueOneOn
      <4>3. queueHead + i = queueHead + (i + 1) - 1
        BY <1>1
      <4> QED BY <4>1, <4>2, <4>3 DEF QueueContents
    <3>3. QueueContents' \in Seq(QueueValue) /\ Len(QueueContents') = queueCount - 1
      <4>1. \A i \in 1 .. queueCount - 1 : QueueContents[i + 1] \in QueueValue
        BY <1>1, ElementOfSeq
      <4> QED BY <1>1, <2>2, <3>1, <3>2, <4>1
    <3>4. /\ Tail(QueueContents) \in Seq(QueueValue)
          /\ Len(Tail(QueueContents)) = queueCount - 1
          /\ \A i \in 1 .. queueCount - 1 : Tail(QueueContents)[i] = QueueContents[i + 1]
      BY <1>1, <1>2, <1>4, HeadTailProperties
    <3> QED BY <3>1, <3>2, <3>3, <3>4, SeqEqual
  <2>6. Head(QueueContents) = queueData[queueHead]
    <3>1. Head(QueueContents) = QueueContents[1]
      BY <1>1, <1>2, <1>4, HeadTailProperties
    <3>2. 1 \in 1 .. queueCount /\ queueHead + 1 - 1 = queueHead
      BY <1>1, <2>2
    <3>3. queueHead % N = queueHead
      BY <1>1
    <3> QED BY <3>1, <3>2, <3>3 DEF QueueContents
  <2>7. N - queueCount' = (N - queueCount) + 1
    BY <1>1, <2>1
  <2> QED BY <1>2, <1>4, <2>1, <2>4, <2>5, <2>6, <2>7
     DEF InQueue!Pop, QueueContents, QueueRoom
<1> QED BY <1>3, <1>4

\* The first value is shown (queue.c:45-55).
LEMMA QueuePeeks ==
  ASSUME QueueRing, QueuePeek
  PROVE  QueueRing' /\ InQueue!Peek
<1>1. /\ UNCHANGED <<queueData, queueHead, queueTail, queueCount>>
      /\ queueResult' = IF queueCount = 0 THEN "empty" ELSE queueData[queueHead]
  BY DEF QueuePeek
<1>2. QueueRing'
  BY <1>1 DEF QueueRing
<1>3. QueueContents' = QueueContents /\ (QUEUE_LENGTH - queueCount)' = QUEUE_LENGTH - queueCount
  BY <1>1 DEF QueueContents
<1>4. /\ QueueContents \in Seq(QueueValue) /\ Len(QueueContents) = queueCount
      /\ QUEUE_LENGTH \in Nat \ {0} /\ queueHead \in 0 .. QUEUE_LENGTH - 1 /\ queueCount \in Nat
  BY QueueRingFacts DEF QueueRing, QueueSlot
<1>5. QueueContents = <<>> <=> queueCount = 0
  BY <1>4, EmptySeq
<1>6. queueCount # 0 => Head(QueueContents) = queueData[queueHead]
  <2> SUFFICES ASSUME queueCount # 0 PROVE Head(QueueContents) = queueData[queueHead]
    OBVIOUS
  <2>1. Head(QueueContents) = QueueContents[1]
    BY <1>4, <1>5, HeadTailProperties
  <2>2. /\ 1 \in 1 .. queueCount
        /\ queueHead + 1 - 1 = queueHead /\ queueHead % QUEUE_LENGTH = queueHead
    BY <1>4
  <2> QED BY <2>1, <2>2 DEF QueueContents
<1> QED BY <1>1, <1>2, <1>3, <1>5, <1>6 DEF InQueue!Peek, QueueContents

\* The slots of the queue are a bounded sequence under every call, whatever its length
\* (queue.c:18-55).
THEOREM QueueKeeps == QueueInit /\ [][QueueNext]_QueueVars => InQueue!Spec
<1>1. QueueInit => QueueRing /\ InQueue!Init
  BY QueueInitially
<1>2. QueueRing /\ [QueueNext]_QueueVars => QueueRing' /\ [InQueue!Next]_(InQueue!vars)
  <2> SUFFICES ASSUME QueueRing, [QueueNext]_QueueVars
               PROVE  QueueRing' /\ [InQueue!Next]_(InQueue!vars)
    OBVIOUS
  <2>1. CASE UNCHANGED QueueVars
    <3>1. UNCHANGED <<queueData, queueHead, queueTail, queueCount, queueResult>>
      BY <2>1 DEF QueueVars
    <3>2. QueueContents' = QueueContents
      BY <3>1 DEF QueueContents
    <3> QED BY <3>1, <3>2 DEF QueueRing, InQueue!vars, QueueContents
  <2>2. ASSUME NEW v \in Item, QueuePush(v)
        PROVE  QueueRing' /\ [InQueue!Next]_(InQueue!vars)
    BY <2>2, QueuePushes DEF InQueue!Next
  <2>3. CASE QueuePop
    BY <2>3, QueuePops DEF InQueue!Next
  <2>4. CASE QueuePeek
    BY <2>4, QueuePeeks DEF InQueue!Next
  <2> QED BY <2>1, <2>2, <2>3, <2>4 DEF QueueNext
<1> QED BY <1>1, <1>2, PTL DEF InQueue!Spec

-----------------------------------------------------------------------------
(* The list.                                                               *)

ListLinks == ListNode \cup {Null}

LEMMA ListNodes ==
  /\ LIST_LENGTH \in Nat \ {0} /\ Null \notin ListNode
  /\ IsFiniteSet(ListNode) /\ Cardinality(ListNode) = LIST_LENGTH
<1>1. LIST_LENGTH \in Nat \ {0} /\ Null \notin ListNode
  BY ContainersAssumption DEF ListNode, Null
<1>2. IsFiniteSet(0 .. LIST_LENGTH - 1) /\ Cardinality(0 .. LIST_LENGTH - 1) = LIST_LENGTH
  <2>1. 0 \in Int /\ LIST_LENGTH - 1 \in Int
    BY <1>1
  <2>2. /\ IsFiniteSet(0 .. LIST_LENGTH - 1)
        /\ Cardinality(0 .. LIST_LENGTH - 1)
             = IF 0 > LIST_LENGTH - 1 THEN 0 ELSE LIST_LENGTH - 1 - 0 + 1
    BY <2>1, FS_Interval
  <2> QED BY <1>1, <2>2
<1> QED BY <1>1, <1>2 DEF ListNode

\* The nodes of s follow each other in the links from n on, and nothing follows the last.
Chained(s, links, n) ==
  /\ n = IF s = <<>> THEN Null ELSE s[1]
  /\ \A i \in 1 .. Len(s) : links[s[i]] = IF i = Len(s) THEN Null ELSE s[i + 1]

\* What Chain unfolds to.
Unrolled(links, from, size) ==
  from = [fuel \in 0 .. size |->
            [k \in ListLinks |->
               IF k = Null \/ fuel = 0 THEN <<>> ELSE <<k>> \o from[fuel - 1][links[k]]]]

LEMMA UnrolledExists ==
  ASSUME NEW links
  PROVE  \A size \in Nat : \E from : Unrolled(links, from, size)
<1> DEFINE Short == {size \in Nat : ~ \E from : Unrolled(links, from, size)}
<1> SUFFICES ASSUME Short # {} PROVE FALSE
  OBVIOUS
<1>1. PICK m \in Short : \A i \in Short : m <= i
  BY LeastOf
<1>2. CASE m = 0
  <2> DEFINE from == [fuel \in 0 .. 0 |-> [k \in ListLinks |-> <<>>]]
  <2>1. Unrolled(links, from, 0)
    BY DEF Unrolled
  <2> QED BY <1>1, <1>2, <2>1
<1>3. CASE m # 0
  <2>1. m \in Nat /\ m - 1 \in Nat /\ m - 1 \notin Short
    BY <1>1, <1>3
  <2>2. PICK less : Unrolled(links, less, m - 1)
    BY <2>1
  <2> DEFINE After(f, fuel) ==
               [k \in ListLinks |->
                  IF k = Null \/ fuel = 0 THEN <<>> ELSE <<k>> \o f[fuel - 1][links[k]]]
             from == [fuel \in 0 .. m |-> After(less, fuel)]
  <2>3. \A fuel \in 0 .. m - 1 : from[fuel] = less[fuel]
    <3> SUFFICES ASSUME NEW fuel \in 0 .. m - 1 PROVE from[fuel] = less[fuel]
      OBVIOUS
    <3>1. fuel \in 0 .. m
      BY <2>1
    <3>2. less[fuel] = After(less, fuel)
      BY <2>2 DEF Unrolled
    <3> QED BY <3>1, <3>2
  <2>4. \A fuel \in 0 .. m : After(less, fuel) = After(from, fuel)
    <3> SUFFICES ASSUME NEW fuel \in 0 .. m PROVE After(less, fuel) = After(from, fuel)
      OBVIOUS
    <3>1. CASE fuel = 0
      BY <3>1
    <3>2. CASE fuel # 0
      <4>1. fuel - 1 \in 0 .. m - 1
        BY <2>1, <3>2
      <4>2. from[fuel - 1] = less[fuel - 1]
        BY <2>3, <4>1
      <4> HIDE DEF from
      <4> QED BY <4>2
    <3> QED BY <3>1, <3>2
  <2>5. from = [fuel \in 0 .. m |-> After(from, fuel)]
    BY <2>4
  <2>6. Unrolled(links, from, m)
    BY <2>5 DEF Unrolled
  <2> QED BY <1>1, <2>6
<1> QED BY <1>2, <1>3

\* Nodes that follow each other are what is read, when there is fuel for them.
LEMMA UnrolledValue ==
  ASSUME NEW links \in [ListNode -> ListLinks], NEW size \in Nat, NEW from,
         Unrolled(links, from, size),
         NEW fuel \in 0 .. size, NEW s \in Seq(ListNode), NEW n, Len(s) <= fuel,
         Chained(s, links, n)
  PROVE  from[fuel][n] = s
<1> DEFINE Wrong == {d \in Nat : \E f \in 0 .. size, t \in Seq(ListNode) : \E k :
                       /\ Len(t) = d /\ d <= f /\ Chained(t, links, k) /\ from[f][k] # t}
<1> SUFFICES ASSUME Wrong # {} PROVE FALSE
  <2>1. Len(s) \in Nat
    BY LenProperties
  <2> QED BY <2>1
<1>1. PICK d \in Wrong : \A i \in Wrong : d <= i
  BY LeastOf
<1>2. PICK f \in 0 .. size, t \in Seq(ListNode) : \E k :
        Len(t) = d /\ d <= f /\ Chained(t, links, k) /\ from[f][k] # t
  BY <1>1
<1>3. PICK k :
        Len(t) = d /\ d <= f /\ Chained(t, links, k) /\ from[f][k] # t
  BY <1>2
<1>4. /\ Null \notin ListNode
      /\ \A j \in ListLinks :
           from[f][j] = IF j = Null \/ f = 0 THEN <<>> ELSE <<j>> \o from[f - 1][links[j]]
  <2>1. from[f] = [j \in ListLinks |->
                     IF j = Null \/ f = 0 THEN <<>> ELSE <<j>> \o from[f - 1][links[j]]]
    BY DEF Unrolled
  <2> QED BY <2>1, ListNodes
<1>5. CASE t = <<>>
  <2>1. k = Null /\ k \in ListLinks
    BY <1>3, <1>5 DEF Chained, ListLinks
  <2> QED BY <1>3, <1>4, <1>5, <2>1
<1>6. CASE t # <<>>
  <2>1. /\ d \in Nat \ {0} /\ Tail(t) \in Seq(ListNode) /\ Len(Tail(t)) = d - 1
        /\ t = <<Head(t)>> \o Tail(t) /\ Head(t) = t[1] /\ Head(t) \in ListNode
        /\ \A i \in 1 .. d - 1 : Tail(t)[i] = t[i + 1]
    BY <1>3, <1>6, HeadTailProperties, LenProperties
  <2>2. k = t[1] /\ k \in ListNode
    BY <1>3, <1>6, <2>1 DEF Chained
  <2>3. Chained(Tail(t), links, links[k])
    <3>1. \A i \in 1 .. d : links[t[i]] = IF i = d THEN Null ELSE t[i + 1]
      BY <1>3 DEF Chained
    <3>2. \A i \in 1 .. d - 1 : links[Tail(t)[i]] = IF i = d - 1 THEN Null ELSE Tail(t)[i + 1]
      <4> SUFFICES ASSUME NEW i \in 1 .. d - 1
                   PROVE  links[Tail(t)[i]] = IF i = d - 1 THEN Null ELSE Tail(t)[i + 1]
        OBVIOUS
      <4>1. i + 1 \in 1 .. d /\ (i # d - 1 => i + 1 \in 1 .. d - 1) /\ (i + 1 = d <=> i = d - 1)
        BY <2>1
      <4> QED BY <2>1, <3>1, <4>1
    <3>3. Tail(t) = <<>> <=> d - 1 = 0
      BY <2>1, EmptySeq
    <3>4. links[k] = IF Tail(t) = <<>> THEN Null ELSE Tail(t)[1]
      <4>1. 1 \in 1 .. d /\ (d - 1 # 0 => 1 \in 1 .. d - 1)
        BY <2>1
      <4> QED BY <2>1, <2>2, <3>1, <3>3, <4>1
    <3> QED BY <2>1, <3>2, <3>4 DEF Chained
  <2>4. f - 1 \in 0 .. size /\ d - 1 <= f - 1 /\ f # 0 /\ d - 1 \in Nat
    BY <1>3, <2>1
  <2>5. d - 1 \notin Wrong
    BY <1>1, <2>1
  <2>6. from[f - 1][links[k]] = Tail(t)
    BY <2>1, <2>3, <2>4, <2>5
  <2>7. from[f][k] = <<k>> \o Tail(t)
    BY <1>4, <2>2, <2>4, <2>6 DEF ListLinks
  <2> QED BY <1>3, <2>1, <2>2, <2>7
<1> QED BY <1>5, <1>6

ChainIn(links, n) ==
  LET from[fuel \in 0 .. LIST_LENGTH] ==
        [k \in ListNode \cup {Null} |->
           IF k = Null \/ fuel = 0 THEN <<>> ELSE <<k>> \o from[fuel - 1][links[k]]]
  IN  from[LIST_LENGTH][n]

LEMMA ChainRead ==
  ASSUME NEW links \in [ListNode -> ListLinks], NEW s \in Seq(ListNode), NEW n,
         Len(s) <= LIST_LENGTH, Chained(s, links, n)
  PROVE  ChainIn(links, n) = s
<1> DEFINE from == CHOOSE from : Unrolled(links, from, LIST_LENGTH)
<1>1. LIST_LENGTH \in Nat
  BY ListNodes
<1>2. Unrolled(links, from, LIST_LENGTH)
  BY <1>1, UnrolledExists
<1>3. ChainIn(links, n) = from[LIST_LENGTH][n]
  BY DEF ChainIn, Unrolled, ListLinks
<1> HIDE DEF from
<1> QED BY <1>1, <1>2, <1>3, UnrolledValue

LEMMA ChainNow == /\ \A n : Chain(n) = ChainIn(listNext, n)
                  /\ Chain(listHead)' = ChainIn(listNext', listHead')
                  /\ Chain(freeList)' = ChainIn(listNext', freeList')
BY DEF Chain, ChainIn

\* No node stands twice.
Once(s) == \A i, j \in 1 .. Len(s) : s[i] = s[j] => i = j
Apart(s, t) == \A i \in 1 .. Len(s), j \in 1 .. Len(t) : s[i] # t[j]

\* The nodes from the first on are h and the free ones f, and they share none.
ListHolds(links, first, free, h, f) ==
  /\ links \in [ListNode -> ListLinks]
  /\ h \in Seq(ListNode) /\ f \in Seq(ListNode)
  /\ Chained(h, links, first) /\ Chained(f, links, free)
  /\ Once(h) /\ Once(f) /\ Apart(h, f)

LEMMA OnceBounds ==
  ASSUME NEW s \in Seq(ListNode), Once(s)
  PROVE  Len(s) <= LIST_LENGTH
<1>1. Len(s) \in Nat /\ s \in [1 .. Len(s) -> ListNode]
  BY LenProperties
<1>2. s \in Injection(1 .. Len(s), ListNode)
  BY <1>1, Fun_IsInj DEF Once
<1>3. IsFiniteSet(1 .. Len(s)) /\ Cardinality(1 .. Len(s)) = Len(s)
  BY <1>1, FS_Interval
<1> QED BY <1>2, <1>3, ListNodes, FS_Injection DEF ExistsInjection

LEMMA HoldsRead ==
  ASSUME NEW links, NEW first, NEW free, NEW h, NEW f, ListHolds(links, first, free, h, f)
  PROVE  ChainIn(links, first) = h /\ ChainIn(links, free) = f
<1>1. Len(h) <= LIST_LENGTH /\ Len(f) <= LIST_LENGTH
  BY OnceBounds DEF ListHolds
<1> QED BY <1>1, ChainRead DEF ListHolds

\* Links of other nodes do not matter.
LEMMA StillChained ==
  ASSUME NEW links, NEW other, NEW s, NEW n, Chained(s, links, n),
         \A i \in 1 .. Len(s) : other[s[i]] = links[s[i]]
  PROVE  Chained(s, other, n)
BY DEF Chained

\* The first node taken from a chain.
LEMMA FirstTaken ==
  ASSUME NEW links \in [ListNode -> ListLinks], NEW s \in Seq(ListNode), NEW n,
         Chained(s, links, n), Once(s), n # Null
  PROVE  /\ s # <<>> /\ n = Head(s) /\ n \in ListNode
         /\ Tail(s) \in Seq(ListNode) /\ Len(s) \in Nat \ {0} /\ Len(Tail(s)) = Len(s) - 1
         /\ \A i \in 1 .. Len(s) - 1 : Tail(s)[i] = s[i + 1] /\ Tail(s)[i] # n
         /\ n = s[1]
         /\ Chained(Tail(s), links, links[n]) /\ Once(Tail(s))
<1>1. s # <<>>
  BY DEF Chained
<1>2. PICK d \in Nat \ {0} : d = Len(s)
  BY <1>1, EmptySeq, LenProperties
<1>3. /\ Tail(s) \in Seq(ListNode) /\ Len(Tail(s)) = d - 1
      /\ Head(s) = s[1] /\ Head(s) \in ListNode
      /\ \A i \in 1 .. d - 1 : Tail(s)[i] = s[i + 1]
  BY <1>1, <1>2, HeadTailProperties
<1>4. n = s[1] /\ \A i \in 1 .. d : links[s[i]] = IF i = d THEN Null ELSE s[i + 1]
  BY <1>1, <1>2 DEF Chained
<1>5. \A i \in 1 .. d - 1 : i + 1 \in 1 .. d /\ i + 1 # 1
  BY <1>2
<1>6. \A i, j \in 1 .. d : s[i] = s[j] => i = j
  BY <1>2 DEF Once
<1>7. \A i \in 1 .. d - 1 : Tail(s)[i] # n
  <2> SUFFICES ASSUME NEW i \in 1 .. d - 1 PROVE Tail(s)[i] # n
    OBVIOUS
  <2>1. 1 \in 1 .. d /\ i + 1 \in 1 .. d /\ i + 1 # 1
    BY <1>2
  <2>2. s[i + 1] # s[1]
    BY <1>6, <2>1
  <2> QED BY <1>3, <1>4, <2>2
<1>8. Once(Tail(s))
  <2> SUFFICES ASSUME NEW i \in 1 .. d - 1, NEW j \in 1 .. d - 1, Tail(s)[i] = Tail(s)[j]
               PROVE  i = j
    BY <1>3 DEF Once
  <2>1. i + 1 = j + 1
    BY <1>3, <1>5, <1>6
  <2> QED BY <2>1
<1>9. Chained(Tail(s), links, links[n])
  <2>1. \A i \in 1 .. d - 1 : links[Tail(s)[i]] = IF i = d - 1 THEN Null ELSE Tail(s)[i + 1]
    <3> SUFFICES ASSUME NEW i \in 1 .. d - 1
                 PROVE  links[Tail(s)[i]] = IF i = d - 1 THEN Null ELSE Tail(s)[i + 1]
      OBVIOUS
    <3>1. i + 1 \in 1 .. d /\ (i # d - 1 => i + 1 \in 1 .. d - 1) /\ (i + 1 = d <=> i = d - 1)
      BY <1>2
    <3> QED BY <1>3, <1>4, <3>1
  <2>2. Tail(s) = <<>> <=> d - 1 = 0
    BY <1>3, EmptySeq
  <2>3. 1 \in 1 .. d /\ (d - 1 # 0 => 1 \in 1 .. d - 1)
    BY <1>2
  <2>4. links[n] = IF Tail(s) = <<>> THEN Null ELSE Tail(s)[1]
    BY <1>3, <1>4, <2>2, <2>3
  <2> QED BY <1>3, <2>1, <2>4 DEF Chained
<1> QED BY <1>1, <1>2, <1>3, <1>4, <1>7, <1>8, <1>9

\* The first free node, which the list does not hold.
LEMMA FreeTaken ==
  ASSUME NEW links, NEW first, NEW free, NEW h, NEW f, ListHolds(links, first, free, h, f),
         free # Null
  PROVE  /\ free \in ListNode /\ links[free] \in ListLinks
         /\ \A i \in 1 .. Len(h) : h[i] \in ListNode /\ h[i] # free
         /\ Tail(f) \in Seq(ListNode) /\ Len(f) \in Nat \ {0} /\ Len(Tail(f)) = Len(f) - 1
         /\ \A i \in 1 .. Len(Tail(f)) : Tail(f)[i] \in ListNode /\ Tail(f)[i] # free
         /\ Chained(Tail(f), links, links[free]) /\ Once(Tail(f)) /\ Apart(h, Tail(f))
<1>1. /\ f # <<>> /\ free = Head(f) /\ free \in ListNode
      /\ Tail(f) \in Seq(ListNode) /\ Len(f) \in Nat \ {0} /\ Len(Tail(f)) = Len(f) - 1
      /\ \A i \in 1 .. Len(f) - 1 : Tail(f)[i] = f[i + 1] /\ Tail(f)[i] # free
      /\ free = f[1]
      /\ Chained(Tail(f), links, links[free]) /\ Once(Tail(f))
  BY FirstTaken DEF ListHolds
<1>2. PICK d \in Nat \ {0} : d = Len(f)
  BY <1>1
<1>3. 1 \in 1 .. d /\ \A i \in 1 .. d - 1 : i + 1 \in 1 .. d
  BY <1>2
<1>4. \A i \in 1 .. Len(h), j \in 1 .. d : h[i] # f[j]
  BY <1>2 DEF ListHolds, Apart
<1>5. \A i \in 1 .. Len(h) : h[i] \in ListNode /\ h[i] # free
  BY <1>1, <1>3, <1>4, ElementOfSeq DEF ListHolds
<1>6. Apart(h, Tail(f))
  BY <1>1, <1>2, <1>3, <1>4 DEF Apart
<1>7. \A i \in 1 .. Len(Tail(f)) : Tail(f)[i] \in ListNode /\ Tail(f)[i] # free
  BY <1>1, <1>2, ElementOfSeq
<1>8. links[free] \in ListLinks
  BY <1>1 DEF ListHolds
<1> QED BY <1>1, <1>5, <1>6, <1>7, <1>8

\* A free node is linked behind the last one (list.c:17-38).
LEMMA LinkedBack ==
  ASSUME NEW links, NEW first, NEW free, NEW h, NEW f, ListHolds(links, first, free, h, f),
         free # Null, NEW other,
         other = IF first = Null THEN [links EXCEPT ![free] = Null]
                 ELSE [[links EXCEPT ![free] = Null] EXCEPT ![LastOf(h)] = free]
  PROVE  ListHolds(other, IF first = Null THEN free ELSE first, links[free],
                   Append(h, free), Tail(f))
<1> DEFINE x == free
           r == Tail(f)
           b == Append(h, x)
<1>1. /\ x \in ListNode /\ links[x] \in ListLinks
      /\ \A i \in 1 .. Len(h) : h[i] \in ListNode /\ h[i] # x
      /\ r \in Seq(ListNode) /\ Len(r) \in Nat
      /\ \A i \in 1 .. Len(r) : r[i] \in ListNode /\ r[i] # x
      /\ Chained(r, links, links[x]) /\ Once(r) /\ Apart(h, r)
  <2>1. /\ free \in ListNode /\ links[free] \in ListLinks
        /\ \A i \in 1 .. Len(h) : h[i] \in ListNode /\ h[i] # free
        /\ Tail(f) \in Seq(ListNode) /\ Len(f) \in Nat \ {0} /\ Len(Tail(f)) = Len(f) - 1
        /\ \A i \in 1 .. Len(Tail(f)) : Tail(f)[i] \in ListNode /\ Tail(f)[i] # free
        /\ Chained(Tail(f), links, links[free]) /\ Once(Tail(f)) /\ Apart(h, Tail(f))
    BY FreeTaken
  <2>2. Len(Tail(f)) \in Nat
    BY <2>1
  <2> QED BY <2>1, <2>2
<1>2. /\ links \in [ListNode -> ListLinks] /\ Null \notin ListNode /\ Null \in ListLinks
      /\ h \in Seq(ListNode) /\ Chained(h, links, first) /\ Once(h)
  BY ListNodes DEF ListHolds, ListLinks
<1>3. PICK d \in Nat : d = Len(h)
  BY <1>2, LenProperties
<1>4. /\ b \in Seq(ListNode) /\ Len(b) = d + 1 /\ b[d + 1] = x
      /\ \A i \in 1 .. d : b[i] = h[i]
  BY <1>1, <1>2, <1>3, AppendProperties
<1>5. /\ first = Null <=> d = 0
      /\ d # 0 => first = h[1] /\ LastOf(h) = h[d] /\ h[1] \in ListNode /\ h[d] \in ListNode
  <2>1. h = <<>> <=> d = 0
    BY <1>2, <1>3, EmptySeq
  <2>2. d # 0 => 1 \in 1 .. d /\ d \in 1 .. d
    BY <1>3
  <2> QED BY <1>1, <1>2, <1>3, <2>1, <2>2 DEF Chained, LastOf
<1>6. /\ other \in [ListNode -> ListLinks]
      /\ other[x] = Null
      /\ d # 0 => other[h[d]] = x
      /\ \A k \in ListNode : k # x /\ (d # 0 => k # h[d]) => other[k] = links[k]
  <2>1. x \in ListLinks
    BY <1>1 DEF ListLinks
  <2>2. CASE d = 0
    BY <1>1, <1>2, <1>5, <2>1, <2>2
  <2>3. CASE d # 0
    <3>1. h[d] # x
      BY <1>1, <1>3, <2>3
    <3> QED BY <1>1, <1>2, <1>5, <2>1, <2>3, <3>1
  <2> QED BY <2>2, <2>3
<1>7. \A i \in 1 .. d : links[h[i]] = IF i = d THEN Null ELSE h[i + 1]
  BY <1>2, <1>3 DEF Chained
<1>8. \A i \in 1 .. d : i # d => h[i] # h[d]
  BY <1>2, <1>3 DEF Once
<1>9. Chained(b, other, IF first = Null THEN x ELSE first)
  <2>1. \A i \in 1 .. d + 1 : other[b[i]] = IF i = d + 1 THEN Null ELSE b[i + 1]
    <3> SUFFICES ASSUME NEW i \in 1 .. d + 1
                 PROVE  other[b[i]] = IF i = d + 1 THEN Null ELSE b[i + 1]
      OBVIOUS
    <3>1. CASE i = d + 1
      BY <1>4, <1>6, <3>1
    <3>2. CASE i = d /\ d # 0
      BY <1>3, <1>4, <1>6, <3>2
    <3>3. CASE i # d /\ i # d + 1
      <4>1. i \in 1 .. d /\ i + 1 \in 1 .. d /\ d # 0
        BY <1>3, <3>3
      <4>2. other[h[i]] = links[h[i]]
        BY <1>1, <1>3, <1>6, <1>8, <3>3, <4>1
      <4> QED BY <1>3, <1>4, <1>7, <3>3, <4>1, <4>2
    <3> QED BY <1>3, <3>1, <3>2, <3>3
  <2>2. b # <<>> /\ (IF first = Null THEN x ELSE first) = b[1]
    <3>1. d + 1 \in 1 .. d + 1 /\ d + 1 # 0
      BY <1>3
    <3>2. b # <<>>
      BY <1>4, <3>1, EmptySeq
    <3>3. CASE d = 0
      BY <1>4, <1>5, <3>2, <3>3
    <3>4. CASE d # 0
      <4>1. 1 \in 1 .. d
        BY <1>3, <3>4
      <4> QED BY <1>4, <1>5, <3>2, <3>4, <4>1
    <3> QED BY <3>3, <3>4
  <2> QED BY <1>4, <2>1, <2>2 DEF Chained
<1>10. Chained(r, other, links[x])
  <2>1. ASSUME NEW i \in 1 .. Len(r) PROVE other[r[i]] = links[r[i]]
    <3>1. r[i] \in ListNode /\ r[i] # x
      BY <1>1
    <3>2. d # 0 => h[d] # r[i]
      BY <1>1, <1>3 DEF Apart
    <3> QED BY <1>6, <3>1, <3>2
  <2> QED BY <1>1, <2>1, StillChained
<1>11. Once(b)
  <2>1. \A i, j \in 1 .. d : h[i] = h[j] => i = j
    BY <1>2, <1>3 DEF Once
  <2> SUFFICES ASSUME NEW i \in 1 .. d + 1, NEW j \in 1 .. d + 1, b[i] = b[j]
               PROVE  i = j
    BY <1>4 DEF Once
  <2>2. i \in 1 .. d \/ i = d + 1
    BY <1>3
  <2>3. j \in 1 .. d \/ j = d + 1
    BY <1>3
  <2> QED BY <1>1, <1>3, <1>4, <2>1, <2>2, <2>3
<1>12. Apart(b, r)
  <2> SUFFICES ASSUME NEW i \in 1 .. d + 1, NEW j \in 1 .. Len(r) PROVE b[i] # r[j]
    BY <1>4 DEF Apart
  <2>1. i \in 1 .. d \/ i = d + 1
    BY <1>3
  <2> QED BY <1>1, <1>3, <1>4, <2>1 DEF Apart
<1> HIDE DEF x, r, b
<1>13. ListHolds(other, IF first = Null THEN x ELSE first, links[x], b, r)
  BY <1>1, <1>4, <1>6, <1>9, <1>10, <1>11, <1>12 DEF ListHolds
<1> QED BY <1>13 DEF x, r, b

\* A free node is linked before the first one (list.c:40-54).
LEMMA LinkedFront ==
  ASSUME NEW links, NEW first, NEW free, NEW h, NEW f, ListHolds(links, first, free, h, f),
         free # Null, NEW other, other = [links EXCEPT ![free] = first]
  PROVE  ListHolds(other, free, links[free], <<free>> \o h, Tail(f))
<1> DEFINE x == free
           r == Tail(f)
           b == <<x>> \o h
<1>1. /\ x \in ListNode /\ links[x] \in ListLinks
      /\ \A i \in 1 .. Len(h) : h[i] \in ListNode /\ h[i] # x
      /\ r \in Seq(ListNode) /\ Len(r) \in Nat
      /\ \A i \in 1 .. Len(r) : r[i] \in ListNode /\ r[i] # x
      /\ Chained(r, links, links[x]) /\ Once(r) /\ Apart(h, r)
  <2>1. /\ free \in ListNode /\ links[free] \in ListLinks
        /\ \A i \in 1 .. Len(h) : h[i] \in ListNode /\ h[i] # free
        /\ Tail(f) \in Seq(ListNode) /\ Len(f) \in Nat \ {0} /\ Len(Tail(f)) = Len(f) - 1
        /\ \A i \in 1 .. Len(Tail(f)) : Tail(f)[i] \in ListNode /\ Tail(f)[i] # free
        /\ Chained(Tail(f), links, links[free]) /\ Once(Tail(f)) /\ Apart(h, Tail(f))
    BY FreeTaken
  <2>2. Len(Tail(f)) \in Nat
    BY <2>1
  <2> QED BY <2>1, <2>2
<1>2. /\ links \in [ListNode -> ListLinks] /\ Null \notin ListNode /\ Null \in ListLinks
      /\ h \in Seq(ListNode) /\ Chained(h, links, first) /\ Once(h)
  BY ListNodes DEF ListHolds, ListLinks
<1>3. PICK d \in Nat : d = Len(h)
  BY <1>2, LenProperties
<1>4. /\ b \in Seq(ListNode) /\ Len(b) = d + 1 /\ b[1] = x
      /\ \A i \in 2 .. d + 1 : b[i] = h[i - 1]
  <2>1. <<x>> \in Seq(ListNode) /\ Len(<<x>>) = 1 /\ <<x>>[1] = x
    BY <1>1
  <2>2. /\ b \in Seq(ListNode) /\ Len(b) = 1 + d
        /\ \A i \in 1 .. 1 + d : b[i] = IF i <= 1 THEN <<x>>[i] ELSE h[i - 1]
    BY <1>2, <1>3, <2>1, ConcatProperties
  <2>3. 1 \in 1 .. 1 + d
    BY <1>3
  <2> QED BY <1>3, <2>1, <2>2, <2>3
<1>5. (d = 0 => first = Null) /\ (d # 0 => first = h[1] /\ h[1] \in ListNode) /\ first \in ListLinks
  <2>1. h = <<>> <=> d = 0
    BY <1>2, <1>3, EmptySeq
  <2>2. d # 0 => 1 \in 1 .. d
    BY <1>3
  <2> QED BY <1>1, <1>2, <1>3, <2>1, <2>2 DEF Chained, ListLinks
<1>6. /\ other \in [ListNode -> ListLinks] /\ other[x] = first
      /\ \A k \in ListNode : k # x => other[k] = links[k]
  BY <1>1, <1>2, <1>5
<1>7. \A i \in 1 .. d : links[h[i]] = IF i = d THEN Null ELSE h[i + 1]
  BY <1>2, <1>3 DEF Chained
<1>8. Chained(b, other, x)
  <2>1. \A i \in 1 .. d + 1 : other[b[i]] = IF i = d + 1 THEN Null ELSE b[i + 1]
    <3> SUFFICES ASSUME NEW i \in 1 .. d + 1
                 PROVE  other[b[i]] = IF i = d + 1 THEN Null ELSE b[i + 1]
      OBVIOUS
    <3>1. CASE i = 1
      <4>1. CASE d = 0
        BY <1>4, <1>5, <1>6, <3>1, <4>1
      <4>2. CASE d # 0
        <5>1. 2 \in 2 .. d + 1 /\ i + 1 = 2 /\ i # d + 1 /\ 2 - 1 = 1
          BY <1>3, <3>1, <4>2
        <5> QED BY <1>4, <1>5, <1>6, <3>1, <4>2, <5>1
      <4> QED BY <4>1, <4>2
    <3>2. CASE i # 1
      <4>1. i \in 2 .. d + 1 /\ i - 1 \in 1 .. d
        BY <1>3, <3>2
      <4>2. other[h[i - 1]] = IF i - 1 = d THEN Null ELSE h[i - 1 + 1]
        BY <1>1, <1>3, <1>6, <1>7, <4>1
      <4>3. CASE i = d + 1
        BY <1>3, <1>4, <4>1, <4>2, <4>3
      <4>4. CASE i # d + 1
        <5>1. i + 1 \in 2 .. d + 1 /\ (i + 1) - 1 = i - 1 + 1 /\ i - 1 # d
          BY <1>3, <4>1, <4>4
        <5> QED BY <1>4, <4>1, <4>2, <4>4, <5>1
      <4> QED BY <4>3, <4>4
    <3> QED BY <3>1, <3>2
  <2>2. b # <<>>
    BY <1>3, <1>4, EmptySeq
  <2> QED BY <1>4, <2>1, <2>2 DEF Chained
<1>9. Chained(r, other, links[x])
  BY <1>1, <1>6, StillChained
<1>10. Once(b)
  <2>1. \A i, j \in 1 .. d : h[i] = h[j] => i = j
    BY <1>2, <1>3 DEF Once
  <2> SUFFICES ASSUME NEW i \in 1 .. d + 1, NEW j \in 1 .. d + 1, b[i] = b[j]
               PROVE  i = j
    BY <1>4 DEF Once
  <2>2. i = 1 \/ (i \in 2 .. d + 1 /\ i - 1 \in 1 .. d)
    BY <1>3
  <2>3. j = 1 \/ (j \in 2 .. d + 1 /\ j - 1 \in 1 .. d)
    BY <1>3
  <2>4. CASE i # 1 /\ j # 1
    <3>1. i - 1 = j - 1
      BY <1>4, <2>1, <2>2, <2>3, <2>4
    <3> QED BY <3>1
  <2> QED BY <1>1, <1>3, <1>4, <2>2, <2>3, <2>4
<1>11. Apart(b, r)
  <2> SUFFICES ASSUME NEW i \in 1 .. d + 1, NEW j \in 1 .. Len(r) PROVE b[i] # r[j]
    BY <1>4 DEF Apart
  <2>1. i = 1 \/ (i \in 2 .. d + 1 /\ i - 1 \in 1 .. d)
    BY <1>3
  <2> QED BY <1>1, <1>3, <1>4, <2>1 DEF Apart
<1> HIDE DEF x, r, b
<1>12. ListHolds(other, x, links[x], b, r)
  BY <1>1, <1>4, <1>6, <1>8, <1>9, <1>10, <1>11 DEF ListHolds
<1> QED BY <1>12 DEF x, r, b

\* The first node is linked behind the first free one, and nothing behind it (list.c:56-74).
LEMMA LinkedFree ==
  ASSUME NEW links, NEW first, NEW free, NEW h, NEW f, ListHolds(links, first, free, h, f),
         first # Null, NEW other,
         other = IF free = Null THEN [links EXCEPT ![first] = Null]
                 ELSE [[links EXCEPT ![first] = Null] EXCEPT ![free] = first]
  PROVE  ListHolds(other, links[first], IF free = Null THEN first ELSE free,
                   Tail(h), IF free = Null THEN <<first>> ELSE <<free, first>>)
<1> DEFINE x == first
           r == Tail(h)
<1>1. /\ h # <<>> /\ x \in ListNode
      /\ r \in Seq(ListNode) /\ Len(h) \in Nat \ {0} /\ Len(r) = Len(h) - 1
      /\ \A i \in 1 .. Len(h) - 1 : r[i] = h[i + 1] /\ r[i] # x
      /\ x = h[1] /\ Chained(r, links, links[x]) /\ Once(r)
  BY FirstTaken DEF ListHolds
<1>2. /\ links \in [ListNode -> ListLinks] /\ Null \notin ListNode /\ Null \in ListLinks
      /\ x \in ListLinks
  BY <1>1, ListNodes DEF ListHolds, ListLinks
<1>3. PICK d \in Nat : d = Len(r) /\ d + 1 = Len(h)
  <2>1. Len(h) - 1 \in Nat /\ (Len(h) - 1) + 1 = Len(h)
    BY <1>1
  <2> QED BY <1>1, <2>1
<1>4. \A i \in 1 .. d : r[i] = h[i + 1] /\ r[i] # x /\ r[i] \in ListNode
  BY <1>1, <1>3, ElementOfSeq
<1>5. CASE free = Null
  <2>1. other = [links EXCEPT ![x] = Null]
    BY <1>5
  <2>2. other \in [ListNode -> ListLinks] /\ other[x] = Null
        /\ \A k \in ListNode : k # x => other[k] = links[k]
    BY <1>1, <1>2, <2>1
  <2>3. Chained(r, other, links[x])
    <3>1. \A i \in 1 .. Len(r) : other[r[i]] = links[r[i]]
      BY <1>3, <1>4, <2>2
    <3>2. Chained(r, links, links[x])
      BY <1>1
    <3> QED BY <3>1, <3>2, StillChained
  <2>4. <<x>> \in Seq(ListNode) /\ Len(<<x>>) = 1 /\ <<x>>[1] = x /\ <<x>> # <<>>
    BY <1>1
  <2>5. Chained(<<x>>, other, x)
    BY <2>2, <2>4 DEF Chained
  <2>6. Once(<<x>>) /\ Apart(r, <<x>>)
    BY <1>3, <1>4, <2>4 DEF Once, Apart
  <2> HIDE DEF x, r
  <2>7. ListHolds(other, links[x], x, r, <<x>>)
    BY <1>1, <2>2, <2>3, <2>4, <2>5, <2>6 DEF ListHolds
  <2> QED BY <1>5, <2>7 DEF x, r
<1>6. CASE free # Null
  <2> DEFINE y == free
             s == <<y, x>>
  <2>1. /\ y \in ListNode
        /\ \A i \in 1 .. Len(h) : h[i] \in ListNode /\ h[i] # y
    BY <1>6, FreeTaken
  <2>2. x # y
    <3>1. 1 \in 1 .. Len(h)
      BY <1>1
    <3> QED BY <1>1, <2>1, <3>1
  <2>3. \A i \in 1 .. d : r[i] # y
    <3> SUFFICES ASSUME NEW i \in 1 .. d PROVE r[i] # y
      OBVIOUS
    <3>1. i + 1 \in 1 .. Len(h)
      BY <1>3
    <3> QED BY <1>4, <2>1, <3>1
  <2>4. other = [[links EXCEPT ![x] = Null] EXCEPT ![y] = x]
    BY <1>6
  <2>5. other \in [ListNode -> ListLinks] /\ other[x] = Null /\ other[y] = x
        /\ \A k \in ListNode : k # x /\ k # y => other[k] = links[k]
    BY <1>1, <1>2, <2>1, <2>2, <2>4
  <2>6. Chained(r, other, links[x])
    <3>1. \A i \in 1 .. Len(r) : other[r[i]] = links[r[i]]
      BY <1>3, <1>4, <2>3, <2>5
    <3>2. Chained(r, links, links[x])
      BY <1>1
    <3> QED BY <3>1, <3>2, StillChained
  <2>7. s \in Seq(ListNode) /\ Len(s) = 2 /\ s[1] = y /\ s[2] = x /\ s # <<>>
    BY <1>1, <2>1
  <2>8. Chained(s, other, y)
    BY <2>5, <2>7 DEF Chained
  <2>9. Once(s)
    BY <2>2, <2>7 DEF Once
  <2>10. Apart(r, s)
    <3> SUFFICES ASSUME NEW i \in 1 .. d, NEW j \in 1 .. 2 PROVE r[i] # s[j]
      BY <1>3, <2>7 DEF Apart
    <3>1. j = 1 \/ j = 2
      OBVIOUS
    <3> QED BY <1>4, <2>3, <2>7, <3>1
  <2> HIDE DEF x, r, y, s
  <2>11. ListHolds(other, links[x], y, r, s)
    BY <1>1, <2>5, <2>6, <2>7, <2>8, <2>9, <2>10 DEF ListHolds
  <2> QED BY <1>6, <2>11 DEF x, r, y, s
<1> QED BY <1>5, <1>6

-----------------------------------------------------------------------------
\* The values in nodes.
Read(values, s) == [i \in 1 .. Len(s) |-> values[s[i]]]

ListValue == Item \cup {CHOOSE v \in Item : TRUE}

LEMMA ReadType ==
  ASSUME NEW values \in [ListNode -> ListValue], NEW s \in Seq(ListNode)
  PROVE  Read(values, s) \in Seq(ListValue) /\ Len(Read(values, s)) = Len(s)
<1>1. Len(s) \in Nat /\ \A i \in 1 .. Len(s) : s[i] \in ListNode
  BY ElementOfSeq, LenProperties
<1> QED BY <1>1 DEF Read

LEMMA ReadBack ==
  ASSUME NEW values \in [ListNode -> ListValue], NEW s \in Seq(ListNode), NEW x \in ListNode,
         NEW v \in ListValue, \A i \in 1 .. Len(s) : s[i] # x
  PROVE  Read([values EXCEPT ![x] = v], Append(s, x)) = Append(Read(values, s), v)
<1> DEFINE e == [values EXCEPT ![x] = v]
<1>1. PICK d \in Nat : d = Len(s)
  BY LenProperties
<1>2. e \in [ListNode -> ListValue] /\ e[x] = v /\ \A k \in ListNode : k # x => e[k] = values[k]
  OBVIOUS
<1>3. Append(s, x) \in Seq(ListNode) /\ Len(Append(s, x)) = d + 1 /\ Append(s, x)[d + 1] = x
      /\ \A i \in 1 .. d : Append(s, x)[i] = s[i] /\ s[i] \in ListNode
  BY <1>1, AppendProperties, ElementOfSeq
<1>4. Read(values, s) \in Seq(ListValue) /\ Len(Read(values, s)) = d
  BY <1>1, ReadType
<1> HIDE DEF e
<1>5. Read(e, Append(s, x)) \in Seq(ListValue) /\ Len(Read(e, Append(s, x))) = d + 1
  BY <1>2, <1>3, ReadType
<1>6. /\ Append(Read(values, s), v) \in Seq(ListValue) /\ Len(Append(Read(values, s), v)) = d + 1
      /\ Append(Read(values, s), v)[d + 1] = v
      /\ \A i \in 1 .. d : Append(Read(values, s), v)[i] = Read(values, s)[i]
  BY <1>4, AppendProperties
<1>7. ASSUME NEW i \in 1 .. d + 1
      PROVE  Read(e, Append(s, x))[i] = Append(Read(values, s), v)[i]
  <2>1. Read(e, Append(s, x))[i] = e[Append(s, x)[i]]
    BY <1>3 DEF Read
  <2>2. CASE i = d + 1
    BY <1>2, <1>3, <1>6, <2>1, <2>2
  <2>3. CASE i \in 1 .. d
    <3>1. Read(values, s)[i] = values[s[i]]
      BY <1>1, <2>3 DEF Read
    <3>2. e[s[i]] = values[s[i]]
      BY <1>1, <1>2, <1>3, <2>3
    <3> QED BY <1>3, <1>6, <2>1, <2>3, <3>1, <3>2
  <2>4. i = d + 1 \/ i \in 1 .. d
    BY <1>1
  <2> QED BY <2>2, <2>3, <2>4
<1>8. Read(e, Append(s, x)) = Append(Read(values, s), v)
  BY <1>5, <1>6, <1>7, SeqEqual
<1> QED BY <1>8 DEF e

LEMMA ReadFront ==
  ASSUME NEW values \in [ListNode -> ListValue], NEW s \in Seq(ListNode), NEW x \in ListNode,
         NEW v \in ListValue, \A i \in 1 .. Len(s) : s[i] # x
  PROVE  Read([values EXCEPT ![x] = v], <<x>> \o s) = <<v>> \o Read(values, s)
<1> DEFINE e == [values EXCEPT ![x] = v]
           b == <<x>> \o s
           c == <<v>> \o Read(values, s)
<1>1. PICK d \in Nat : d = Len(s)
  BY LenProperties
<1>2. e \in [ListNode -> ListValue] /\ e[x] = v /\ \A k \in ListNode : k # x => e[k] = values[k]
  OBVIOUS
<1>3. Read(values, s) \in Seq(ListValue) /\ Len(Read(values, s)) = d
  BY <1>1, ReadType
<1>4. b \in Seq(ListNode) /\ Len(b) = 1 + d
      /\ \A i \in 1 .. 1 + d : b[i] = IF i <= 1 THEN x ELSE s[i - 1]
  <2>1. <<x>> \in Seq(ListNode) /\ Len(<<x>>) = 1 /\ <<x>>[1] = x
    OBVIOUS
  <2>2. \A i \in 1 .. 1 + d : b[i] = IF i <= 1 THEN <<x>>[i] ELSE s[i - 1]
    BY <1>1, <2>1, ConcatProperties
  <2>3. b \in Seq(ListNode) /\ Len(b) = 1 + d
    BY <1>1, <2>1, ConcatProperties
  <2>4. \A i \in 1 .. 1 + d : i <= 1 => i = 1
    BY <1>1
  <2> HIDE DEF b
  <2> QED BY <2>1, <2>2, <2>3, <2>4
<1>5. c \in Seq(ListValue) /\ Len(c) = 1 + d
      /\ \A i \in 1 .. 1 + d : c[i] = IF i <= 1 THEN v ELSE Read(values, s)[i - 1]
  <2>1. <<v>> \in Seq(ListValue) /\ Len(<<v>>) = 1 /\ <<v>>[1] = v
    OBVIOUS
  <2>2. \A i \in 1 .. 1 + d : c[i] = IF i <= 1 THEN <<v>>[i] ELSE Read(values, s)[i - 1]
    BY <1>3, <2>1, ConcatProperties
  <2>3. c \in Seq(ListValue) /\ Len(c) = 1 + d
    BY <1>3, <2>1, ConcatProperties
  <2>4. \A i \in 1 .. 1 + d : i <= 1 => i = 1
    BY <1>1
  <2> HIDE DEF c
  <2> QED BY <2>1, <2>2, <2>3, <2>4
<1> HIDE DEF e, b, c
<1>6. Read(e, b) \in Seq(ListValue) /\ Len(Read(e, b)) = 1 + d
  BY <1>2, <1>4, ReadType
<1>7. ASSUME NEW i \in 1 .. 1 + d PROVE Read(e, b)[i] = c[i]
  <2>1. Read(e, b)[i] = e[b[i]]
    BY <1>4 DEF Read
  <2>2. CASE i <= 1
    BY <1>2, <1>4, <1>5, <2>1, <2>2
  <2>3. CASE ~ (i <= 1)
    <3>1. i - 1 \in 1 .. d
      BY <1>1, <2>3
    <3>2. Read(values, s)[i - 1] = values[s[i - 1]]
      BY <1>1, <3>1 DEF Read
    <3>3. s[i - 1] \in ListNode /\ s[i - 1] # x
      BY <1>1, <3>1, ElementOfSeq
    <3> QED BY <1>2, <1>4, <1>5, <2>1, <2>3, <3>2, <3>3
  <2> QED BY <2>2, <2>3
<1>8. Read(e, b) = c
  BY <1>5, <1>6, <1>7, SeqEqual
<1> QED BY <1>8 DEF e, b, c

LEMMA ReadTail ==
  ASSUME NEW values \in [ListNode -> ListValue], NEW s \in Seq(ListNode), s # <<>>
  PROVE  /\ Read(values, Tail(s)) = Tail(Read(values, s))
         /\ Read(values, s) # <<>> /\ Head(Read(values, s)) = values[s[1]]
<1>1. PICK d \in Nat \ {0} : d = Len(s)
  BY EmptySeq, LenProperties
<1>2. Read(values, s) \in Seq(ListValue) /\ Len(Read(values, s)) = d
  BY <1>1, ReadType
<1>3. Read(values, s) # <<>>
  BY <1>1, <1>2, EmptySeq
<1>4. /\ Tail(s) \in Seq(ListNode) /\ Len(Tail(s)) = d - 1
      /\ \A i \in 1 .. d - 1 : Tail(s)[i] = s[i + 1]
  BY <1>1, HeadTailProperties
<1>5. /\ Head(Read(values, s)) = Read(values, s)[1]
      /\ Tail(Read(values, s)) \in Seq(ListValue) /\ Len(Tail(Read(values, s))) = d - 1
      /\ \A i \in 1 .. d - 1 : Tail(Read(values, s))[i] = Read(values, s)[i + 1]
  BY <1>2, <1>3, HeadTailProperties
<1>6. Read(values, Tail(s)) \in Seq(ListValue) /\ Len(Read(values, Tail(s))) = d - 1
  BY <1>4, ReadType
<1>7. \A i \in 1 .. d : Read(values, s)[i] = values[s[i]]
  BY <1>1 DEF Read
<1>8. ASSUME NEW i \in 1 .. d - 1 PROVE Read(values, Tail(s))[i] = Tail(Read(values, s))[i]
  <2>1. i + 1 \in 1 .. d
    BY <1>1
  <2>2. Read(values, Tail(s))[i] = values[Tail(s)[i]]
    BY <1>4 DEF Read
  <2> QED BY <1>4, <1>5, <1>7, <2>1, <2>2
<1>9. 1 \in 1 .. d
  BY <1>1
<1>10. Read(values, Tail(s)) = Tail(Read(values, s))
  BY <1>5, <1>6, <1>8, SeqEqual
<1> QED BY <1>3, <1>5, <1>7, <1>9, <1>10

-----------------------------------------------------------------------------
\* The invariant of the list, and what InList is given of it.
ListKept ==
  /\ listData \in [ListNode -> ListValue]
  /\ \E h, f \in Seq(ListNode) : ListHolds(listNext, listHead, freeList, h, f)

ListContents == [i \in 1 .. Len(Chain(listHead)) |-> listData[Chain(listHead)[i]]]

LEMMA ListSeen ==
  ASSUME NEW h, NEW f, ListHolds(listNext, listHead, freeList, h, f)
  PROVE  ListContents = Read(listData, h) /\ Len(Chain(freeList)) = Len(f)
<1>1. Chain(listHead) = h /\ Chain(freeList) = f
  BY ChainNow, HoldsRead
<1> QED BY <1>1 DEF ListContents, Read

LEMMA ListSeenNext ==
  ASSUME NEW h, NEW f, ListHolds(listNext', listHead', freeList', h, f)
  PROVE  ListContents' = Read(listData', h) /\ Len(Chain(freeList))' = Len(f)
<1>1. Chain(listHead)' = h /\ Chain(freeList)' = f
  BY ChainNow, HoldsRead
<1> QED BY <1>1 DEF ListContents, Read

LEMMA ListEnds ==
  ASSUME NEW links, NEW first, NEW free, NEW h, NEW f, ListHolds(links, first, free, h, f)
  PROVE  /\ first = Null <=> h = <<>>
         /\ free = Null <=> f = <<>>
         /\ free = Null <=> Len(f) = 0
         /\ Len(f) \in Nat
<1>1. /\ h \in Seq(ListNode) /\ f \in Seq(ListNode)
      /\ Chained(h, links, first) /\ Chained(f, links, free)
  BY DEF ListHolds
<1>2. ASSUME NEW s \in Seq(ListNode), s # <<>> PROVE s[1] # Null
  <2>1. Len(s) \in Nat /\ Len(s) # 0
    BY <1>2, EmptySeq, LenProperties
  <2>2. 1 \in 1 .. Len(s)
    BY <2>1
  <2> QED BY <2>2, ElementOfSeq, ListNodes
<1>3. f = <<>> <=> Len(f) = 0
  BY <1>1, EmptySeq
<1>4. Len(f) \in Nat
  BY <1>1, LenProperties
<1> QED BY <1>1, <1>2, <1>3, <1>4 DEF Chained

LEMMA ListInitially == ListInit => ListKept /\ InList!Init
<1> SUFFICES ASSUME ListInit PROVE ListKept /\ InList!Init
  OBVIOUS
<1> DEFINE f == [i \in 1 .. LIST_LENGTH |-> i - 1]
<1>1. /\ listData \in [ListNode -> ListValue] /\ listHead = Null /\ freeList = 0
      /\ listNext = [n \in ListNode |-> IF n = LIST_LENGTH - 1 THEN Null ELSE n + 1]
      /\ listResult = "none"
  BY DEF ListInit, ListValue
<1>2. LIST_LENGTH \in Nat \ {0} /\ Null = -1
  BY ListNodes DEF Null
<1>3. listNext \in [ListNode -> ListLinks]
  BY <1>1, <1>2 DEF ListLinks, ListNode
<1>4. f \in Seq(ListNode) /\ Len(f) = LIST_LENGTH /\ f # <<>>
  <2>1. f \in Seq(ListNode) /\ Len(f) = LIST_LENGTH
    BY <1>2 DEF ListNode
  <2> QED BY <1>2, <2>1, EmptySeq
<1>5. Chained(f, listNext, freeList)
  <2>1. \A i \in 1 .. LIST_LENGTH : listNext[f[i]] = IF i = LIST_LENGTH THEN Null ELSE f[i + 1]
    <3> SUFFICES ASSUME NEW i \in 1 .. LIST_LENGTH
                 PROVE  listNext[f[i]] = IF i = LIST_LENGTH THEN Null ELSE f[i + 1]
      OBVIOUS
    <3>1. f[i] = i - 1 /\ i - 1 \in ListNode
      BY <1>2 DEF ListNode
    <3>2. i # LIST_LENGTH => f[i + 1] = i
      BY <1>2
    <3> HIDE DEF f
    <3> QED BY <1>1, <1>2, <3>1, <3>2
  <2>2. f[1] = 0
    BY <1>2
  <2> HIDE DEF f
  <2> QED BY <1>1, <1>4, <2>1, <2>2 DEF Chained
<1>6. Once(f)
  BY <1>2, <1>4 DEF Once
<1>7. /\ <<>> \in Seq(ListNode) /\ Chained(<<>>, listNext, listHead)
      /\ Once(<<>>) /\ Apart(<<>>, f)
  BY <1>1 DEF Chained, Once, Apart
<1> HIDE DEF f
<1>8. ListHolds(listNext, listHead, freeList, <<>>, f)
  BY <1>3, <1>4, <1>5, <1>6, <1>7 DEF ListHolds
<1>9. ListKept
  BY <1>1, <1>4, <1>7, <1>8 DEF ListKept
<1>10. ListContents = <<>> /\ Len(Chain(freeList)) = LIST_LENGTH
  BY <1>4, <1>8, ListSeen DEF Read
<1>11. InList!Init
  BY <1>1, <1>10 DEF InList!Init, ListContents
<1> QED BY <1>9, <1>11

\* A call that is refused, or finds nothing.
LEMMA ListStays ==
  ASSUME ListKept, UNCHANGED <<listData, listNext, freeList, listHead>>
  PROVE  /\ ListKept'
         /\ ListContents' = ListContents /\ Len(Chain(freeList))' = Len(Chain(freeList))
<1>1. ListKept'
  BY DEF ListKept
<1>2. Chain(listHead)' = Chain(listHead) /\ Chain(freeList)' = Chain(freeList)
  BY ChainNow
<1> QED BY <1>1, <1>2 DEF ListContents

\* A push that finds a free node.
LEMMA ListGrows ==
  ASSUME NEW h \in Seq(ListNode), NEW f \in Seq(ListNode),
         ListHolds(listNext, listHead, freeList, h, f), freeList # Null,
         NEW g \in Seq(ListNode), ListHolds(listNext', listHead', freeList', g, Tail(f)),
         listData' \in [ListNode -> ListValue]
  PROVE  /\ ListKept' /\ ListContents' = Read(listData', g)
         /\ Len(Chain(freeList)) > 0 /\ Len(Chain(freeList))' = Len(Chain(freeList)) - 1
<1>1. Len(Tail(f)) = Len(f) - 1 /\ Tail(f) \in Seq(ListNode) /\ Len(f) \in Nat \ {0}
  BY FreeTaken
<1>2. ListKept'
  BY <1>1 DEF ListKept
<1>3. /\ ListContents' = Read(listData', g)
      /\ Len(Chain(freeList))' = Len(f) - 1 /\ Len(Chain(freeList)) = Len(f)
  BY <1>1, ListSeen, ListSeenNext
<1>4. Len(f) > 0
  BY <1>1
<1> QED BY <1>2, <1>3, <1>4

\* A push that finds none.
LEMMA ListRefuses ==
  ASSUME ListKept, freeList = Null, listResult' = "full",
         UNCHANGED <<listData, listNext, freeList, listHead>>
  PROVE  ListKept' /\ InList!Refused
<1>1. PICK h, f \in Seq(ListNode) : ListHolds(listNext, listHead, freeList, h, f)
  BY DEF ListKept
<1>2. Len(Chain(freeList)) = 0
  BY <1>1, ListEnds, ListSeen
<1> QED BY <1>2, ListStays DEF InList!Refused, ListContents

LEMMA ListPushesBack ==
  ASSUME ListKept, NEW v \in Item, ListPushBack(v)
  PROVE  ListKept' /\ InList!PushBack(v)
<1>1. CASE freeList = Null
  <2>1. listResult' = "full" /\ UNCHANGED <<listData, listNext, freeList, listHead>>
    BY <1>1 DEF ListPushBack, ListPush
  <2> QED BY <1>1, <2>1, ListRefuses DEF InList!PushBack
<1>2. CASE freeList # Null
  <2>1. PICK h, f \in Seq(ListNode) : ListHolds(listNext, listHead, freeList, h, f)
    BY DEF ListKept
  <2>2. /\ freeList' = listNext[freeList]
        /\ listData' = [listData EXCEPT ![freeList] = v]
        /\ listNext' = BehindTail(freeList)
        /\ listHead' = IF listHead = Null THEN freeList ELSE listHead
        /\ listResult' = "ok"
    BY <1>2 DEF ListPushBack, ListPush
  <2>3. Chain(listHead) = h
    BY <2>1, ChainNow, HoldsRead
  <2>4. listNext' = IF listHead = Null THEN [listNext EXCEPT ![freeList] = Null]
                    ELSE [[listNext EXCEPT ![freeList] = Null] EXCEPT ![LastOf(h)] = freeList]
    BY <2>2, <2>3 DEF BehindTail, Linked
  <2>5. ListHolds(listNext', listHead', freeList', Append(h, freeList), Tail(f))
    BY <1>2, <2>1, <2>2, <2>4, LinkedBack
  <2>6. freeList \in ListNode /\ \A i \in 1 .. Len(h) : h[i] # freeList
    BY <1>2, <2>1, FreeTaken
  <2>7. listData \in [ListNode -> ListValue] /\ v \in ListValue
    BY DEF ListKept, ListValue
  <2>8. Read(listData', Append(h, freeList)) = Append(ListContents, v)
    <3>1. ListContents = Read(listData, h)
      BY <2>1, ListSeen
    <3>2. Read([listData EXCEPT ![freeList] = v], Append(h, freeList))
            = Append(Read(listData, h), v)
      BY <2>6, <2>7, ReadBack
    <3> QED BY <2>2, <3>1, <3>2
  <2>9. listData' \in [ListNode -> ListValue] /\ Append(h, freeList) \in Seq(ListNode)
    BY <2>2, <2>5, <2>6, <2>7 DEF ListHolds
  <2>10. ListKept' /\ InList!Added(Append(ListContents, v))
    <3>1. PICK g \in Seq(ListNode) : g = Append(h, freeList)
      BY <2>9
    <3>2. ListHolds(listNext', listHead', freeList', g, Tail(f))
      BY <2>5, <3>1
    <3>3. Read(listData', g) = Append(ListContents, v)
      BY <2>8, <3>1
    <3>4. /\ ListKept' /\ ListContents' = Read(listData', g)
          /\ Len(Chain(freeList)) > 0 /\ Len(Chain(freeList))' = Len(Chain(freeList)) - 1
      BY <1>2, <2>1, <2>9, <3>2, ListGrows
    <3> QED BY <2>2, <3>3, <3>4 DEF InList!Added, ListContents
  <2> QED BY <2>10 DEF InList!PushBack, ListContents
<1> QED BY <1>1, <1>2

LEMMA ListPushesFront ==
  ASSUME ListKept, NEW v \in Item, ListPushFront(v)
  PROVE  ListKept' /\ InList!PushFront(v)
<1>1. CASE freeList = Null
  <2>1. listResult' = "full" /\ UNCHANGED <<listData, listNext, freeList, listHead>>
    BY <1>1 DEF ListPushFront, ListPush
  <2> QED BY <1>1, <2>1, ListRefuses DEF InList!PushFront
<1>2. CASE freeList # Null
  <2>1. PICK h, f \in Seq(ListNode) : ListHolds(listNext, listHead, freeList, h, f)
    BY DEF ListKept
  <2>2. /\ freeList' = listNext[freeList]
        /\ listData' = [listData EXCEPT ![freeList] = v]
        /\ listNext' = [listNext EXCEPT ![freeList] = listHead]
        /\ listHead' = freeList
        /\ listResult' = "ok"
    BY <1>2 DEF ListPushFront, ListPush, Linked
  <2>3. ListHolds(listNext', listHead', freeList', <<freeList>> \o h, Tail(f))
    BY <1>2, <2>1, <2>2, LinkedFront
  <2>4. freeList \in ListNode /\ \A i \in 1 .. Len(h) : h[i] # freeList
    BY <1>2, <2>1, FreeTaken
  <2>5. listData \in [ListNode -> ListValue] /\ v \in ListValue
    BY DEF ListKept, ListValue
  <2>6. Read(listData', <<freeList>> \o h) = <<v>> \o ListContents
    <3>1. ListContents = Read(listData, h)
      BY <2>1, ListSeen
    <3>2. Read([listData EXCEPT ![freeList] = v], <<freeList>> \o h) = <<v>> \o Read(listData, h)
      BY <2>4, <2>5, ReadFront
    <3> QED BY <2>2, <3>1, <3>2
  <2>7. listData' \in [ListNode -> ListValue] /\ <<freeList>> \o h \in Seq(ListNode)
    BY <2>2, <2>3, <2>4, <2>5 DEF ListHolds
  <2>8. ListKept' /\ InList!Added(<<v>> \o ListContents)
    <3>1. PICK g \in Seq(ListNode) : g = <<freeList>> \o h
      BY <2>7
    <3>2. ListHolds(listNext', listHead', freeList', g, Tail(f))
      BY <2>3, <3>1
    <3>3. Read(listData', g) = <<v>> \o ListContents
      BY <2>6, <3>1
    <3>4. /\ ListKept' /\ ListContents' = Read(listData', g)
          /\ Len(Chain(freeList)) > 0 /\ Len(Chain(freeList))' = Len(Chain(freeList)) - 1
      BY <1>2, <2>1, <2>7, <3>2, ListGrows
    <3> QED BY <2>2, <3>3, <3>4 DEF InList!Added, ListContents
  <2> QED BY <2>8 DEF InList!PushFront, ListContents
<1> QED BY <1>1, <1>2

LEMMA ListPops ==
  ASSUME ListKept, ListPopFront
  PROVE  ListKept' /\ InList!Pop
<1>1. PICK h, f \in Seq(ListNode) : ListHolds(listNext, listHead, freeList, h, f)
  BY DEF ListKept
<1>2. ListContents = Read(listData, h) /\ Len(Chain(freeList)) = Len(f)
  BY <1>1, ListSeen
<1>3. listData \in [ListNode -> ListValue]
  BY DEF ListKept
<1>4. CASE listHead = Null
  <2>1. listResult' = "empty" /\ UNCHANGED <<listData, listNext, freeList, listHead>>
    BY <1>4 DEF ListPopFront
  <2>2. h = <<>>
    BY <1>1, <1>4, ListEnds
  <2>3. ListContents = <<>>
    BY <1>2, <2>2 DEF Read
  <2> QED BY <2>1, <2>3, ListStays DEF InList!Pop, ListContents
<1>5. CASE listHead # Null
  <2>1. /\ listResult' = listData[listHead] /\ listHead' = listNext[listHead]
        /\ listNext' = FreedLinks(listHead)
        /\ freeList' = IF freeList = Null THEN listHead ELSE freeList
        /\ listData' = listData
    BY <1>5 DEF ListPopFront
  <2>2. listNext' = IF freeList = Null THEN [listNext EXCEPT ![listHead] = Null]
                    ELSE [[listNext EXCEPT ![listHead] = Null] EXCEPT ![freeList] = listHead]
    BY <2>1 DEF FreedLinks, Linked
  <2> DEFINE g == IF freeList = Null THEN <<listHead>> ELSE <<freeList, listHead>>
  <2>3. ListHolds(listNext', listHead', freeList', Tail(h), g)
    BY <1>1, <1>5, <2>1, <2>2, LinkedFree
  <2>4. h # <<>> /\ listHead = h[1]
    BY <1>1, <1>5, FirstTaken DEF ListHolds
  <2>5. /\ Read(listData, Tail(h)) = Tail(ListContents)
        /\ ListContents # <<>> /\ Head(ListContents) = listData[listHead]
    BY <1>2, <1>3, <2>4, ReadTail
  <2>6. ListContents' = Tail(ListContents) /\ Len(Chain(freeList))' = Len(g)
    BY <2>1, <2>3, <2>5, ListSeenNext
  <2>7. Len(g) = ListRoom(Len(f))
    <3>1. freeList = Null <=> Len(f) = 0
      BY <1>1, ListEnds
    <3>2. Len(<<listHead>>) = 1 /\ Len(<<freeList, listHead>>) = 2
      OBVIOUS
    <3> QED BY <3>1, <3>2 DEF ListRoom
  <2>8. ListKept'
    <3>1. Tail(h) \in Seq(ListNode) /\ g \in Seq(ListNode)
      BY <2>3 DEF ListHolds
    <3> HIDE DEF g
    <3> QED BY <1>3, <2>1, <2>3, <3>1 DEF ListKept
  <2>9. InList!Pop
    BY <1>2, <2>1, <2>5, <2>6, <2>7 DEF InList!Pop, ListContents
  <2> QED BY <2>8, <2>9
<1> QED BY <1>4, <1>5

\* The nodes of the list are a bounded sequence under every call, whatever their number, with
\* room for two after a pop, or one when it was full (list.c:17-74).
THEOREM ListKeeps == ListInit /\ [][ListNextCall]_ListVars => InList!Spec
<1>1. ListInit => ListKept /\ InList!Init
  BY ListInitially
<1>2. ListKept /\ [ListNextCall]_ListVars => ListKept' /\ [InList!Next]_(InList!vars)
  <2> SUFFICES ASSUME ListKept, [ListNextCall]_ListVars
               PROVE  ListKept' /\ [InList!Next]_(InList!vars)
    OBVIOUS
  <2>1. CASE UNCHANGED ListVars
    <3>1. UNCHANGED <<listData, listNext, freeList, listHead, listResult>>
      BY <2>1 DEF ListVars
    <3> QED BY <3>1, ListStays DEF InList!vars, ListContents
  <2>2. ASSUME NEW v \in Item, ListPushBack(v)
        PROVE  ListKept' /\ [InList!Next]_(InList!vars)
    BY <2>2, ListPushesBack DEF InList!Next
  <2>3. ASSUME NEW v \in Item, ListPushFront(v)
        PROVE  ListKept' /\ [InList!Next]_(InList!vars)
    BY <2>3, ListPushesFront DEF InList!Next
  <2>4. CASE ListPopFront
    BY <2>4, ListPops DEF InList!Next
  <2> QED BY <2>1, <2>2, <2>3, <2>4 DEF ListNextCall
<1> QED BY <1>1, <1>2, PTL DEF InList!Spec

-----------------------------------------------------------------------------
(* Ways through the tree.  A way goes on from the members of Go, each to   *)
(* one other, and ends at a member of D that is not in Go.                 *)

Ways(D, Go, onTo, way) ==
  way = [i \in D |-> IF i \in Go THEN {i} \cup way[onTo[i]] ELSE {i}]

\* What is on a way from i is in every set that has i and all that follows its members.
Closed(S, Go, onTo, i) == i \in S /\ \A j \in S \cap Go : onTo[j] \in S

LEMMA WaysExist ==
  ASSUME NEW D, NEW Go \in SUBSET D, NEW onTo \in [Go -> D]
  PROVE  \E way : Ways(D, Go, onTo, way)
<1> DEFINE way == [i \in D |-> {k \in D : \A S \in SUBSET D : Closed(S, Go, onTo, i) => k \in S}]
<1>1. ASSUME NEW i \in Go PROVE way[i] = {i} \cup way[onTo[i]]
  <2>1. i \in D /\ onTo[i] \in D
    OBVIOUS
  <2>2. ASSUME NEW S \in SUBSET D, Closed(S, Go, onTo, i)
        PROVE  Closed(S, Go, onTo, onTo[i])
    BY <2>2 DEF Closed
  <2>3. way[onTo[i]] \subseteq way[i]
    BY <2>1, <2>2
  <2>4. i \in way[i]
    BY <2>1 DEF Closed
  <2> DEFINE T == {i} \cup way[onTo[i]]
  <2>5. T \in SUBSET D
    BY <2>1
  <2>6. onTo[i] \in way[onTo[i]]
    BY <2>1 DEF Closed
  <2>7. ASSUME NEW j \in way[onTo[i]] \cap Go PROVE onTo[j] \in way[onTo[i]]
    <3>1. onTo[j] \in D
      OBVIOUS
    <3>2. ASSUME NEW S \in SUBSET D, Closed(S, Go, onTo, onTo[i]) PROVE onTo[j] \in S
      <4>1. j \in S
        BY <2>1, <2>7, <3>2
      <4> QED BY <3>2, <4>1 DEF Closed
    <3> QED BY <2>1, <3>1, <3>2
  <2>8. Closed(T, Go, onTo, i)
    BY <2>6, <2>7 DEF Closed
  <2>9. way[i] \subseteq T
    BY <2>1, <2>5, <2>8
  <2> QED BY <2>3, <2>4, <2>9
<1>2. ASSUME NEW i \in D \ Go PROVE way[i] = {i}
  <2>1. Closed({i}, Go, onTo, i)
    BY DEF Closed
  <2>2. way[i] \subseteq {i}
    BY <2>1
  <2>3. i \in way[i]
    BY DEF Closed
  <2> QED BY <2>2, <2>3
<1>3. way = [i \in D |-> IF i \in Go THEN {i} \cup way[onTo[i]] ELSE {i}]
  BY <1>1, <1>2
<1> QED BY <1>3 DEF Ways

\* A way W from i to e: what follows its members are its members but i, each once.
Leads(W, D, Go, onTo, i, e) ==
  /\ W \subseteq D /\ i \in W /\ e \in W \ Go /\ W \ {e} \subseteq Go
  /\ \A j \in W \ {e} : onTo[j] \in W \ {i}
  /\ \A j, k \in W \ {e} : onTo[j] = onTo[k] => j = k
  /\ \A k \in W \ {i} : \E j \in W \ {e} : onTo[j] = k
  /\ \A S \in SUBSET D : Closed(S, Go, onTo, i) => W \subseteq S

\* When what follows has a lower rank, a way ends.
LEMMA WaysEnd ==
  ASSUME NEW D, NEW Go \in SUBSET D, NEW onTo \in [Go -> D], NEW rank \in [D -> Nat],
         \A i \in Go : rank[onTo[i]] < rank[i],
         NEW way, Ways(D, Go, onTo, way), NEW from \in D
  PROVE  \E e : Leads(way[from], D, Go, onTo, from, e)
<1> DEFINE Endless == {n \in Nat : \E i \in D :
                         rank[i] = n /\ ~ \E e : Leads(way[i], D, Go, onTo, i, e)}
<1> SUFFICES ASSUME Endless # {} PROVE FALSE
  OBVIOUS
<1>1. PICK n \in Endless : \A m \in Endless : n <= m
  BY LeastOf
<1>2. PICK i \in D : rank[i] = n /\ ~ \E e : Leads(way[i], D, Go, onTo, i, e)
  BY <1>1
<1>3. way[i] = IF i \in Go THEN {i} \cup way[onTo[i]] ELSE {i}
  BY DEF Ways
<1>4. CASE i \notin Go
  <2>1. way[i] = {i}
    BY <1>3, <1>4
  <2>2. Leads({i}, D, Go, onTo, i, i)
    BY <1>4 DEF Leads, Closed
  <2> QED BY <1>2, <2>1, <2>2
<1>5. CASE i \in Go
  <2> DEFINE k == onTo[i]
             V == way[k]
             W == {i} \cup V
  <2>1. k \in D /\ rank[k] \in Nat /\ rank[k] < n /\ n \in Nat
    BY <1>2, <1>5
  <2>2. rank[k] \notin Endless
    BY <1>1, <2>1
  <2>3. PICK e : Leads(V, D, Go, onTo, k, e)
    BY <2>1, <2>2
  <2> HIDE DEF V
  <2>4. i \notin V
    <3> DEFINE S == {j \in D : rank[j] <= rank[k]}
    <3>1. ASSUME NEW j \in S \cap Go PROVE onTo[j] \in S
      <4>1. j \in D /\ onTo[j] \in D /\ rank[j] \in Nat /\ rank[onTo[j]] \in Nat
        OBVIOUS
      <4>2. rank[onTo[j]] < rank[j] /\ rank[j] <= rank[k]
        OBVIOUS
      <4> QED BY <2>1, <4>1, <4>2
    <3>2. Closed(S, Go, onTo, k)
      BY <2>1, <3>1 DEF Closed
    <3>3. V \subseteq S
      BY <2>3, <3>2 DEF Leads
    <3> QED BY <1>2, <2>1, <3>3
  <2>5. /\ V \subseteq D /\ k \in V /\ e \in V \ Go /\ V \ {e} \subseteq Go
        /\ \A j \in V \ {e} : onTo[j] \in V \ {k}
        /\ \A j, l \in V \ {e} : onTo[j] = onTo[l] => j = l
        /\ \A l \in V \ {k} : \E j \in V \ {e} : onTo[j] = l
        /\ \A S \in SUBSET D : Closed(S, Go, onTo, k) => V \subseteq S
    BY <2>3 DEF Leads
  <2>6. W \subseteq D /\ i \in W /\ e \in W \ Go /\ W \ {e} \subseteq Go
    BY <1>5, <2>5
  <2>7. \A j \in W \ {e} : onTo[j] \in W \ {i}
    BY <2>4, <2>5
  <2>8. \A j, l \in W \ {e} : onTo[j] = onTo[l] => j = l
    BY <2>5
  <2>9. \A l \in W \ {i} : \E j \in W \ {e} : onTo[j] = l
    BY <1>5, <2>4, <2>5
  <2>10. ASSUME NEW S \in SUBSET D, Closed(S, Go, onTo, i) PROVE W \subseteq S
    <3>1. i \in S /\ Closed(S, Go, onTo, k)
      BY <1>5, <2>10 DEF Closed
    <3> QED BY <2>5, <3>1
  <2> HIDE DEF W
  <2>11. Leads(W, D, Go, onTo, i, e)
    BY <2>6, <2>7, <2>8, <2>9, <2>10 DEF Leads
  <2>12. way[i] = W
    BY <1>3, <1>5 DEF W, V
  <2> QED BY <1>2, <2>11, <2>12
<1> QED BY <1>4, <1>5

\* How often a value is there.
Often(D, f, v) == Cardinality({i \in D : f[i] = v})

\* All values but one move on, each to a place of its own.
Moves(D, a, b, moved, old, new) ==
  /\ a \in D /\ b \in D /\ moved \in Bijection(D \ {a}, D \ {b})
  /\ \A i \in D \ {a} : new[i] = old[moved[i]]

\* When all values but one move on, each is there as often as before, the
\* one that is dropped and the one that is new apart.
LEMMA MovedAlong ==
  ASSUME NEW D, IsFiniteSet(D), NEW a, NEW b, NEW moved, NEW old, NEW new,
         Moves(D, a, b, moved, old, new), NEW v
  PROVE  /\ Often(D, new, v) \in Nat /\ Often(D, old, v) \in Nat
         /\ Often(D, new, v) - One(new[a] = v) = Often(D, old, v) - One(old[b] = v)
<1> DEFINE A == {i \in D : new[i] = v}
           B == {i \in D : old[i] = v}
           f == [i \in A \ {a} |-> moved[i]]
<1>1. IsFiniteSet(A) /\ IsFiniteSet(B)
  BY FS_Subset
<1>2. Cardinality(A) \in Nat /\ Cardinality(B) \in Nat
  BY <1>1, FS_CardinalityType
<1>3. /\ moved \in [D \ {a} -> D \ {b}]
      /\ \A i, j \in D \ {a} : moved[i] = moved[j] => i = j
      /\ \A k \in D \ {b} : \E i \in D \ {a} : moved[i] = k
  BY DEF Moves, Bijection, Injection, Surjection, IsInjective
<1>4. a \in D /\ b \in D /\ \A i \in D \ {a} : new[i] = old[moved[i]]
  BY DEF Moves
<1>5. f \in Bijection(A \ {a}, B \ {b})
  <2>1. f \in [A \ {a} -> B \ {b}]
    BY <1>4, <1>3
  <2>2. \A i, j \in A \ {a} : f[i] = f[j] => i = j
    BY <1>4, <1>3
  <2>3. \A k \in B \ {b} : \E i \in A \ {a} : f[i] = k
    BY <1>4, <1>3
  <2> QED BY <2>1, <2>2, <2>3, Fun_IsBij
<1>6. IsFiniteSet(A \ {a})
  BY <1>1, FS_RemoveElement
<1>7. Cardinality(B \ {b}) = Cardinality(A \ {a})
  BY <1>5, <1>6, FS_Bijection DEF ExistsBijection
<1>8. /\ Cardinality(A \ {a}) = IF a \in A THEN Cardinality(A) - 1 ELSE Cardinality(A)
      /\ Cardinality(B \ {b}) = IF b \in B THEN Cardinality(B) - 1 ELSE Cardinality(B)
  BY <1>1, FS_RemoveElement
<1>9. (a \in A <=> new[a] = v) /\ (b \in B <=> old[b] = v)
  BY <1>4
<1> HIDE DEF A, B, f
<1>10. Cardinality(A) - One(new[a] = v) = Cardinality(B) - One(old[b] = v)
  BY <1>2, <1>7, <1>8, <1>9 DEF One
<1> QED BY <1>2, <1>10 DEF A, B, Often

-----------------------------------------------------------------------------
(* A heap of some size, with nodes of some set.                            *)

\* A heap of some size, for nodes of some set, all with a cost.
Sized(size, nodes) == size \in Nat \ {0} /\ \A m \in nodes : m.cost \in Nat /\ m # Vacant

HeapSlot(size) == 0 .. size - 1

LEMMA HeapSlots ==
  ASSUME NEW size, NEW nodes, Sized(size, nodes)
  PROVE  /\ size \in Nat \ {0} /\ 0 \in HeapSlot(size)
         /\ IsFiniteSet(HeapSlot(size)) /\ Cardinality(HeapSlot(size)) = size
<1>1. size \in Nat \ {0}
  BY DEF Sized
<1>2. /\ IsFiniteSet(0 .. size - 1)
      /\ Cardinality(0 .. size - 1)
           = IF 0 > size - 1 THEN 0 ELSE size - 1 - 0 + 1
  <2>1. 0 \in Int /\ size - 1 \in Int
    BY <1>1
  <2> QED BY <2>1, FS_Interval
<1> QED BY <1>1, <1>2 DEF HeapSlot

LEMMA HeapNodes ==
  ASSUME NEW size, NEW nodes, Sized(size, nodes),
         NEW m \in nodes
  PROVE  m.cost \in Nat /\ m # Vacant
BY DEF Sized

LEMMA Parents ==
  ASSUME NEW i \in Nat \ {0}
  PROVE  /\ ParentSlot(i) \in Nat /\ ParentSlot(i) < i
         /\ i = LeftChild(ParentSlot(i)) \/ i = RightChild(ParentSlot(i))
<1>1. i % 2 \in {0, 1} /\ i = 2 * (i \div 2) + (i % 2) /\ i \div 2 \in Nat
  OBVIOUS
<1>2. PICK h \in Nat : h = i \div 2
  BY <1>1
<1>3. CASE i % 2 = 0
  <2>1. i = 2 * h /\ h # 0 /\ ParentSlot(i) = h - 1
    BY <1>1, <1>2, <1>3 DEF ParentSlot
  <2> QED BY <1>2, <2>1 DEF LeftChild, RightChild
<1>4. CASE i % 2 = 1
  <2>1. i = 2 * h + 1
    BY <1>1, <1>2, <1>4
  <2>2. (i + 1) \div 2 = h + 1
    BY <1>2, <2>1
  <2>3. ParentSlot(i) = h
    BY <1>2, <1>4, <2>2 DEF ParentSlot
  <2> QED BY <1>2, <2>1, <2>3 DEF LeftChild, RightChild
<1> QED BY <1>1, <1>3, <1>4

LEMMA Children ==
  ASSUME NEW i \in Nat
  PROVE  /\ LeftChild(i) \in Nat /\ LeftChild(i) > i /\ ParentSlot(LeftChild(i)) = i
         /\ RightChild(i) \in Nat /\ RightChild(i) > i /\ ParentSlot(RightChild(i)) = i
         /\ LeftChild(i) # RightChild(i)
<1>1. LeftChild(i) \in Nat /\ RightChild(i) \in Nat /\ LeftChild(i) > i /\ RightChild(i) > i
      /\ LeftChild(i) # RightChild(i)
  BY DEF LeftChild, RightChild
<1>2. (2 * i + 1) % 2 = 1 /\ (2 * i + 2) % 2 = 0 /\ (2 * i + 2) \div 2 = i + 1
  <2>1. PICK h \in Nat : h = 2 * i
    OBVIOUS
  <2>2. (h + 1) % 2 = 1
    BY <2>1
  <2>3. (h + 2) % 2 = 0
    BY <2>1
  <2>4. (h + 2) \div 2 = i + 1
    BY <2>1
  <2> QED BY <2>1, <2>2, <2>3, <2>4
<1>3. ParentSlot(2 * i + 1) = i
  <2>1. 2 * i + 1 + 1 = 2 * i + 2
    OBVIOUS
  <2>2. ParentSlot(2 * i + 1) = (2 * i + 2) \div 2 - 1
    BY <1>2, <2>1 DEF ParentSlot
  <2> QED BY <1>2, <2>2
<1>4. ParentSlot(2 * i + 2) = i
  BY <1>2 DEF ParentSlot
<1> QED BY <1>1, <1>3, <1>4 DEF LeftChild, RightChild

\* A child is filled after its parent, is emptied before it, and costs as much at least.
Ordered(size, slot) ==
  \A i \in HeapSlot(size) \ {0} : slot[i] # Vacant =>
    slot[ParentSlot(i)] # Vacant /\ slot[ParentSlot(i)].cost <= slot[i].cost

\* The free slots are those that are vacant, each once.
FreeExact(size, slot, free) ==
  /\ Once(free)
  /\ \A i \in HeapSlot(size) : slot[i] = Vacant <=> \E j \in 1 .. Len(free) : free[j] = i

\* A free slot comes after the one above it, when that is free as well.
TopDown(slot, free) ==
  \A j \in 1 .. Len(free) : free[j] # 0 /\ slot[ParentSlot(free[j])] = Vacant =>
    \E k \in 1 .. j - 1 : free[k] = ParentSlot(free[j])

HeapHolds(size, nodes, slot, free) ==
  /\ slot \in [HeapSlot(size) -> nodes \cup {Vacant}] /\ free \in Seq(HeapSlot(size))
  /\ Ordered(size, slot) /\ FreeExact(size, slot, free) /\ TopDown(slot, free)

LEMMA ParentSlots ==
  ASSUME NEW size, NEW nodes, Sized(size, nodes),
         NEW i \in HeapSlot(size), i # 0
  PROVE  ParentSlot(i) \in HeapSlot(size) /\ ParentSlot(i) < i /\ i \in Nat
<1>1. i \in Nat \ {0} /\ i <= size - 1 /\ size \in Nat
  BY HeapSlots DEF HeapSlot
<1>2. ParentSlot(i) \in Nat /\ ParentSlot(i) < i
  BY <1>1, Parents
<1> QED BY <1>1, <1>2 DEF HeapSlot

\* The root is filled unless nothing is, and none costs less.
LEMMA RootFirst ==
  ASSUME NEW size, NEW nodes, Sized(size, nodes),
         NEW slot \in [HeapSlot(size) -> nodes \cup {Vacant}], Ordered(size, slot),
         NEW i \in HeapSlot(size), slot[i] # Vacant
  PROVE  slot[0] # Vacant /\ slot[0].cost <= slot[i].cost
<1> DEFINE Under == {j \in HeapSlot(size) :
                      slot[j] # Vacant /\ ~ (slot[0] # Vacant /\ slot[0].cost <= slot[j].cost)}
<1> SUFFICES ASSUME Under # {} PROVE FALSE
  OBVIOUS
<1>1. Under \in SUBSET Nat
  BY HeapSlots DEF HeapSlot
<1>2. PICK j \in Under : \A k \in Under : j <= k
  BY <1>1, LeastOf
<1>3. 0 \in HeapSlot(size) /\ j \in HeapSlot(size) /\ slot[j] # Vacant
  BY HeapSlots
<1>4. CASE j = 0
  <2>1. slot[0].cost \in Nat
    BY <1>3, <1>4, HeapNodes
  <2> QED BY <1>3, <1>4, <2>1
<1>5. CASE j # 0
  <2> DEFINE p == ParentSlot(j)
  <2>1. p \in HeapSlot(size) /\ p < j /\ j \in Nat /\ p \in Nat
    BY <1>3, <1>5, ParentSlots DEF HeapSlot
  <2>2. slot[p] # Vacant /\ slot[p].cost <= slot[j].cost
    BY <1>3, <1>5 DEF Ordered
  <2>3. p \notin Under
    BY <1>2, <2>1
  <2>4. slot[0] # Vacant /\ slot[0].cost <= slot[p].cost
    BY <2>1, <2>2, <2>3
  <2>5. slot[0].cost \in Nat /\ slot[p].cost \in Nat /\ slot[j].cost \in Nat
    BY <1>3, <2>1, <2>2, <2>4, HeapNodes
  <2>6. slot[0].cost <= slot[j].cost
    BY <2>2, <2>4, <2>5
  <2> QED BY <1>2, <2>4, <2>6
<1> QED BY <1>4, <1>5

\* An empty heap has all its slots in the free list.
LEMMA AllFree ==
  ASSUME NEW size, NEW nodes, Sized(size, nodes),
         NEW slot, NEW free, HeapHolds(size, nodes, slot, free), slot[0] = Vacant
  PROVE  Len(free) = size /\ \A i \in HeapSlot(size) : slot[i] = Vacant
<1>1. \A i \in HeapSlot(size) : slot[i] = Vacant
  BY RootFirst DEF HeapHolds
<1>2. Len(free) \in Nat /\ free \in [1 .. Len(free) -> HeapSlot(size)]
  BY LenProperties DEF HeapHolds
<1>3. \A i, j \in 1 .. Len(free) : free[i] = free[j] => i = j
  BY DEF HeapHolds, FreeExact, Once
<1>4. \A i \in HeapSlot(size) : \E j \in 1 .. Len(free) : free[j] = i
  BY <1>1 DEF HeapHolds, FreeExact
<1>5. free \in Bijection(1 .. Len(free), HeapSlot(size))
  BY <1>2, <1>3, <1>4, Fun_IsBij
<1>6. IsFiniteSet(1 .. Len(free)) /\ Cardinality(1 .. Len(free)) = Len(free)
  BY <1>2, FS_Interval
<1>7. Cardinality(HeapSlot(size)) = Cardinality(1 .. Len(free))
  BY <1>5, <1>6, FS_Bijection DEF ExistsBijection
<1> QED BY <1>1, <1>6, <1>7, HeapSlots

-----------------------------------------------------------------------------
(* What is pushed climbs from the first free slot.                         *)

Climbing(size, slot, cost) == {i \in HeapSlot(size) : i # 0 /\ Passes(cost, slot[ParentSlot(i)])}
Above(size, slot, cost)    == [i \in Climbing(size, slot, cost) |-> ParentSlot(i)]

LEMMA ClimbLeads ==
  ASSUME NEW size, NEW nodes, Sized(size, nodes),
         NEW slot \in [HeapSlot(size) -> nodes \cup {Vacant}], NEW cost, NEW from \in HeapSlot(size)
  PROVE  \E e : Leads(Climb(slot, cost, from), HeapSlot(size), Climbing(size, slot, cost),
                      Above(size, slot, cost), from, e)
<1> DEFINE Go == Climbing(size, slot, cost)
           onTo == Above(size, slot, cost)
           rank == [i \in HeapSlot(size) |-> i]
           up == CHOOSE way : Ways(HeapSlot(size), Go, onTo, way)
<1>1. Go \in SUBSET HeapSlot(size)
  BY DEF Climbing
<1>2. \A i \in Go : onTo[i] = ParentSlot(i) /\ onTo[i] \in HeapSlot(size) /\ rank[onTo[i]] < rank[i]
  BY ParentSlots DEF Climbing, Above
<1>3. onTo \in [Go -> HeapSlot(size)]
  BY <1>2 DEF Above
<1>4. rank \in [HeapSlot(size) -> Nat]
  BY HeapSlots DEF HeapSlot
<1>5. Climb(slot, cost, from) = up[from]
  <2>1. DOMAIN slot = HeapSlot(size)
    OBVIOUS
  <2>2. ASSUME NEW way
        PROVE  Ways(HeapSlot(size), Go, onTo, way) <=>
                 way = [i \in DOMAIN slot |->
                          IF i # 0 /\ Passes(cost, slot[ParentSlot(i)])
                          THEN {i} \cup way[ParentSlot(i)] ELSE {i}]
    <3>1. [i \in HeapSlot(size) |-> IF i \in Go THEN {i} \cup way[onTo[i]] ELSE {i}]
            = [i \in DOMAIN slot |-> IF i # 0 /\ Passes(cost, slot[ParentSlot(i)])
                                     THEN {i} \cup way[ParentSlot(i)] ELSE {i}]
      BY <2>1 DEF Climbing, Above
    <3> QED BY <3>1 DEF Ways
  <2> DEFINE Is(way) == way = [i \in DOMAIN slot |->
                          IF i # 0 /\ Passes(cost, slot[ParentSlot(i)])
                          THEN {i} \cup way[ParentSlot(i)] ELSE {i}]
  <2>3. Climb(slot, cost, from) = (CHOOSE way : Is(way))[from]
    BY DEF Climb
  <2>4. \A way : Ways(HeapSlot(size), Go, onTo, way) <=> Is(way)
    BY <2>2
  <2> HIDE DEF Is, Go, onTo
  <2>5. (CHOOSE way : Is(way)) = CHOOSE way : Ways(HeapSlot(size), Go, onTo, way)
    BY <2>4
  <2> QED BY <2>3, <2>5
<1> HIDE DEF Go, onTo, rank
<1>6. Ways(HeapSlot(size), Go, onTo, up)
  BY <1>1, <1>3, WaysExist
<1> HIDE DEF up
<1>7. \E e : Leads(up[from], HeapSlot(size), Go, onTo, from, e)
  BY <1>1, <1>2, <1>3, <1>4, <1>6, WaysEnd
<1> QED BY <1>5, <1>7 DEF Go, onTo

\* After the push the way W from the slot f is moved down by one, to make room at e.
Raised(size, nodes, slot, new, W, f, e, node) ==
  /\ W \subseteq HeapSlot(size) /\ f \in W /\ e \in W
  /\ new \in [HeapSlot(size) -> nodes \cup {Vacant}] /\ new[e] = node
  /\ e # 0 => ParentSlot(e) \notin W /\ ~ Passes(node.cost, slot[ParentSlot(e)])
  /\ \A i \in W \ {e} : /\ i # 0 /\ ParentSlot(i) \in W \ {f}
                        /\ Passes(node.cost, slot[ParentSlot(i)])
                        /\ new[i] = slot[ParentSlot(i)]
  /\ \A i, j \in W \ {e} : ParentSlot(i) = ParentSlot(j) => i = j
  /\ \A k \in W \ {f} : slot[k] # Vacant /\ \E i \in W \ {e} : ParentSlot(i) = k
  /\ \A i \in HeapSlot(size) \ W : new[i] = slot[i]

LEMMA PushRaises ==
  ASSUME NEW size, NEW nodes, Sized(size, nodes),
         NEW hp, HeapHolds(size, nodes, hp.slot, hp.free), hp.free # <<>>, NEW node \in nodes
  PROVE  \E W, e : Raised(size, nodes, hp.slot, HeapPush(hp, node).slot, W, Head(hp.free), e, node)
<1> DEFINE slot == hp.slot
           f == Head(hp.free)
           W == Climb(slot, node.cost, f)
           new == [i \in DOMAIN slot |->
                     IF i \notin W THEN slot[i]
                     ELSE IF i # 0 /\ ParentSlot(i) \in W THEN slot[ParentSlot(i)]
                     ELSE node]
           Go == Climbing(size, slot, node.cost)
           onTo == Above(size, slot, node.cost)
<1>1. /\ slot \in [HeapSlot(size) -> nodes \cup {Vacant}] /\ hp.free \in Seq(HeapSlot(size))
      /\ Ordered(size, slot) /\ FreeExact(size, slot, hp.free) /\ TopDown(slot, hp.free)
  BY DEF HeapHolds
<1>2. f \in HeapSlot(size) /\ f = hp.free[1] /\ 1 \in 1 .. Len(hp.free)
  <2>1. Len(hp.free) \in Nat /\ Len(hp.free) # 0
    BY <1>1, EmptySeq, LenProperties
  <2> QED BY <1>1, <2>1, HeadTailProperties
<1>3. slot[f] = Vacant
  BY <1>1, <1>2 DEF FreeExact
<1>4. f # 0 => slot[ParentSlot(f)] # Vacant
  <2>1. \A k \in 1 .. 1 - 1 : FALSE
    OBVIOUS
  <2> QED BY <1>1, <1>2, <2>1 DEF TopDown
<1>5. PICK e : Leads(W, HeapSlot(size), Go, onTo, f, e)
  BY <1>1, <1>2, ClimbLeads
<1>6. HeapPush(hp, node).slot = new
  BY DEF HeapPush
<1> HIDE DEF slot, f, W
<1>7. /\ W \subseteq HeapSlot(size) /\ f \in W /\ e \in W \ Go /\ W \ {e} \subseteq Go
      /\ \A j \in W \ {e} : onTo[j] \in W \ {f}
      /\ \A j, k \in W \ {e} : onTo[j] = onTo[k] => j = k
      /\ \A k \in W \ {f} : \E j \in W \ {e} : onTo[j] = k
      /\ \A S \in SUBSET HeapSlot(size) : Closed(S, Go, onTo, f) => W \subseteq S
  BY <1>5 DEF Leads
<1>8. \A i \in Go : /\ i \in HeapSlot(size) /\ i # 0 /\ onTo[i] = ParentSlot(i)
                    /\ Passes(node.cost, slot[ParentSlot(i)]) /\ ParentSlot(i) \in HeapSlot(size)
                    /\ ParentSlot(i) < i
  BY ParentSlots DEF Climbing, Above
<1>9. \A i \in HeapSlot(size) : i # 0 /\ Passes(node.cost, slot[ParentSlot(i)]) => i \in Go
  BY DEF Climbing
<1> HIDE DEF Go, onTo
<1>10. W \subseteq {i \in HeapSlot(size) : i <= f}
  <2> DEFINE S == {i \in HeapSlot(size) : i <= f}
  <2>1. ASSUME NEW j \in S \cap Go PROVE onTo[j] \in S
    <3>1. onTo[j] \in HeapSlot(size) /\ onTo[j] < j /\ j <= f /\ j \in HeapSlot(size)
      BY <1>8
    <3> QED BY <1>2, <3>1, HeapSlots DEF HeapSlot
  <2>2. Closed(S, Go, onTo, f)
    BY <1>2, <2>1, HeapSlots DEF Closed, HeapSlot
  <2> QED BY <1>7, <2>2
<1>11. \A k \in W \ {f} : slot[k] # Vacant
  <2> DEFINE S == {i \in HeapSlot(size) : i = f \/ slot[i] # Vacant}
  <2>1. ASSUME NEW j \in S \cap Go PROVE onTo[j] \in S
    BY <1>1, <1>4, <1>8 DEF Ordered
  <2>2. Closed(S, Go, onTo, f)
    BY <1>2, <2>1 DEF Closed
  <2> QED BY <1>7, <2>2
<1>12. ASSUME e # 0
       PROVE  ParentSlot(e) \notin W /\ ~ Passes(node.cost, slot[ParentSlot(e)])
  <2>1. /\ e \in HeapSlot(size) /\ e <= f /\ ParentSlot(e) < e /\ e \in Nat
        /\ ParentSlot(e) \in HeapSlot(size)
    BY <1>7, <1>10, <1>12, ParentSlots
  <2>2. ~ Passes(node.cost, slot[ParentSlot(e)])
    BY <1>7, <1>9, <1>12, <2>1
  <2>3. ParentSlot(e) # f
    BY <1>2, <2>1, HeapSlots DEF HeapSlot
  <2>4. ASSUME ParentSlot(e) \in W PROVE FALSE
    <3>1. PICK j \in W \ {e} : onTo[j] = ParentSlot(e)
      BY <1>7, <2>3, <2>4
    <3> QED BY <1>7, <1>8, <2>2, <3>1
  <2> QED BY <2>2, <2>4
<1>13. \A i \in W \ {e} : /\ i \in HeapSlot(size) /\ i # 0 /\ ParentSlot(i) \in W \ {f}
                          /\ Passes(node.cost, slot[ParentSlot(i)])
                          /\ ParentSlot(i) = onTo[i]
  BY <1>7, <1>8
<1>14. DOMAIN slot = HeapSlot(size)
  BY <1>1
<1>15. /\ \A i \in HeapSlot(size) \ W : new[i] = slot[i]
       /\ \A i \in W \ {e} : new[i] = slot[ParentSlot(i)]
       /\ new[e] = node
  BY <1>7, <1>12, <1>13, <1>14
<1>16. new \in [HeapSlot(size) -> nodes \cup {Vacant}]
  <2>1. ASSUME NEW i \in HeapSlot(size) PROVE new[i] \in nodes \cup {Vacant}
    <3>1. i \in HeapSlot(size) \ W \/ i = e \/ i \in W \ {e}
      OBVIOUS
    <3>2. i \in W \ {e} => ParentSlot(i) \in HeapSlot(size)
      BY <1>7, <1>13
    <3> HIDE DEF new
    <3> QED BY <1>1, <1>15, <3>1, <3>2
  <2> QED BY <1>14, <2>1
<1> HIDE DEF new
<1>17. \A k \in W \ {f} : \E i \in W \ {e} : ParentSlot(i) = k
  BY <1>7, <1>13
<1>18. \A i, j \in W \ {e} : ParentSlot(i) = ParentSlot(j) => i = j
  BY <1>7, <1>13
<1>19. Raised(size, nodes, slot, new, W, f, e, node)
  BY <1>7, <1>11, <1>12, <1>13, <1>15, <1>16, <1>17, <1>18 DEF Raised
<1> QED BY <1>6, <1>19 DEF slot, f

\* The invariant holds after a push (heap.c:29-55).
LEMMA PushHolds ==
  ASSUME NEW size, NEW nodes, Sized(size, nodes),
         NEW slot, NEW free, HeapHolds(size, nodes, slot, free), free # <<>>,
         NEW node \in nodes,
         NEW new, NEW W, NEW e, Raised(size, nodes, slot, new, W, Head(free), e, node)
  PROVE  /\ HeapHolds(size, nodes, new, Tail(free))
         /\ Len(Tail(free)) = Len(free) - 1 /\ Len(free) \in Nat \ {0}
<1> DEFINE f == Head(free)
           t == Tail(free)
<1>1. /\ slot \in [HeapSlot(size) -> nodes \cup {Vacant}] /\ free \in Seq(HeapSlot(size))
      /\ Ordered(size, slot) /\ FreeExact(size, slot, free) /\ TopDown(slot, free)
  BY DEF HeapHolds
<1>2. /\ Len(free) \in Nat \ {0} /\ t \in Seq(HeapSlot(size)) /\ Len(t) = Len(free) - 1
      /\ f = free[1] /\ f \in HeapSlot(size)
      /\ \A j \in 1 .. Len(free) - 1 : t[j] = free[j + 1]
  BY <1>1, EmptySeq, LenProperties, HeadTailProperties
<1>3. PICK n \in Nat : n = Len(t) /\ n + 1 = Len(free)
  <2>1. Len(free) - 1 \in Nat /\ (Len(free) - 1) + 1 = Len(free)
    BY <1>2
  <2> QED BY <1>2, <2>1
<1> HIDE DEF f, t
<1>4. /\ W \subseteq HeapSlot(size) /\ f \in W /\ e \in W
      /\ new \in [HeapSlot(size) -> nodes \cup {Vacant}] /\ new[e] = node
      /\ e # 0 => ParentSlot(e) \notin W /\ ~ Passes(node.cost, slot[ParentSlot(e)])
      /\ \A i \in W \ {e} : /\ i # 0 /\ ParentSlot(i) \in W \ {f}
                            /\ Passes(node.cost, slot[ParentSlot(i)])
                            /\ new[i] = slot[ParentSlot(i)]
      /\ \A k \in W \ {f} : slot[k] # Vacant /\ \E i \in W \ {e} : ParentSlot(i) = k
      /\ \A i \in HeapSlot(size) \ W : new[i] = slot[i]
  BY DEF Raised, f
<1>5. node # Vacant /\ node.cost \in Nat
  BY HeapNodes
<1>6. \A i, j \in 1 .. n + 1 : free[i] = free[j] => i = j
  BY <1>1, <1>3 DEF FreeExact, Once
<1>7. \A i \in HeapSlot(size) : slot[i] = Vacant <=> \E j \in 1 .. n + 1 : free[j] = i
  BY <1>1, <1>3 DEF FreeExact
<1>8. 1 \in 1 .. n + 1 /\ \A j \in 1 .. n : j + 1 \in 1 .. n + 1 /\ j + 1 # 1
  BY <1>3
<1>9. \A j \in 1 .. n : t[j] = free[j + 1]
  BY <1>2, <1>3
<1>10. slot[f] = Vacant
  BY <1>2, <1>7, <1>8
<1>11. \A i \in HeapSlot(size) : new[i] = Vacant <=> (slot[i] = Vacant /\ i # f)
  <2> SUFFICES ASSUME NEW i \in HeapSlot(size)
               PROVE  new[i] = Vacant <=> (slot[i] = Vacant /\ i # f)
    OBVIOUS
  <2>1. CASE i \notin W
    BY <1>4, <2>1
  <2>2. CASE i = e
    BY <1>4, <1>5, <2>2
  <2>3. CASE i \in W \ {e}
    <3>1. ParentSlot(i) \in W \ {f} /\ new[i] = slot[ParentSlot(i)]
      BY <1>4, <2>3
    <3>2. new[i] # Vacant
      BY <1>4, <3>1
    <3> QED BY <1>4, <2>3, <3>2
  <2> QED BY <2>1, <2>2, <2>3
<1>12. Once(t)
  <2> SUFFICES ASSUME NEW i \in 1 .. n, NEW j \in 1 .. n, t[i] = t[j] PROVE i = j
    BY <1>3 DEF Once
  <2>1. i + 1 = j + 1
    BY <1>6, <1>8, <1>9
  <2> QED BY <2>1
<1>13. \A i \in HeapSlot(size) : new[i] = Vacant <=> \E j \in 1 .. n : t[j] = i
  <2> SUFFICES ASSUME NEW i \in HeapSlot(size) PROVE new[i] = Vacant <=> \E j \in 1 .. n : t[j] = i
    OBVIOUS
  <2>1. ASSUME new[i] = Vacant PROVE \E j \in 1 .. n : t[j] = i
    <3>1. PICK j \in 1 .. n + 1 : free[j] = i
      BY <1>7, <1>11, <2>1
    <3>2. j # 1
      BY <1>2, <1>11, <2>1, <3>1
    <3>3. j - 1 \in 1 .. n /\ (j - 1) + 1 = j
      BY <1>3, <3>2
    <3> QED BY <1>9, <3>1, <3>3
  <2>2. ASSUME NEW j \in 1 .. n, t[j] = i PROVE new[i] = Vacant
    <3>1. free[j + 1] = i /\ j + 1 \in 1 .. n + 1 /\ j + 1 # 1
      BY <1>8, <1>9, <2>2
    <3>2. free[1] # i
      BY <1>6, <1>8, <3>1
    <3> QED BY <1>2, <1>7, <1>11, <3>1, <3>2
  <2> QED BY <2>1, <2>2
<1>14. FreeExact(size, new, t)
  BY <1>3, <1>12, <1>13 DEF FreeExact
<1>15. TopDown(new, t)
  <2> SUFFICES ASSUME NEW j \in 1 .. n, t[j] # 0, new[ParentSlot(t[j])] = Vacant
               PROVE  \E k \in 1 .. j - 1 : t[k] = ParentSlot(t[j])
    BY <1>3 DEF TopDown
  <2>1. t[j] = free[j + 1] /\ j + 1 \in 1 .. Len(free) /\ t[j] \in HeapSlot(size)
    BY <1>1, <1>3, <1>8, <1>9, ElementOfSeq
  <2>2. ParentSlot(t[j]) \in HeapSlot(size)
    BY <2>1, ParentSlots
  <2>3. slot[ParentSlot(t[j])] = Vacant /\ ParentSlot(t[j]) # f
    BY <1>11, <2>2
  <2>4. PICK k \in 1 .. (j + 1) - 1 : free[k] = ParentSlot(t[j])
    BY <1>1, <2>1, <2>3 DEF TopDown
  <2>5. k # 1
    BY <1>2, <2>3, <2>4
  <2>6. k - 1 \in 1 .. j - 1 /\ k - 1 \in 1 .. n /\ (k - 1) + 1 = k
    BY <1>3, <2>5
  <2> QED BY <1>9, <2>4, <2>6
<1>16. Ordered(size, new)
  <2> SUFFICES ASSUME NEW j \in HeapSlot(size) \ {0}, new[j] # Vacant
               PROVE  new[ParentSlot(j)] # Vacant /\ new[ParentSlot(j)].cost <= new[j].cost
    BY DEF Ordered
  <2> DEFINE p == ParentSlot(j)
  <2>1. p \in HeapSlot(size)
    BY ParentSlots
  <2>2. ASSUME NEW i \in HeapSlot(size), i # 0, slot[i] # Vacant
        PROVE  /\ ParentSlot(i) \in HeapSlot(size) /\ slot[ParentSlot(i)] # Vacant
               /\ slot[ParentSlot(i)].cost <= slot[i].cost
               /\ slot[ParentSlot(i)].cost \in Nat /\ slot[i].cost \in Nat
    <3>1. ParentSlot(i) \in HeapSlot(size)
      BY <2>2, ParentSlots
    <3>2. slot[ParentSlot(i)] # Vacant /\ slot[ParentSlot(i)].cost <= slot[i].cost
      BY <1>1, <2>2 DEF Ordered
    <3>3. slot[ParentSlot(i)] \in nodes /\ slot[i] \in nodes
      BY <1>1, <2>2, <3>1, <3>2
    <3> QED BY <3>1, <3>2, <3>3, HeapNodes
  <2>3. ASSUME NEW i \in W, slot[i] # Vacant
        PROVE  new[i] # Vacant /\ new[i].cost <= slot[i].cost /\ new[i].cost \in Nat
               /\ slot[i].cost \in Nat
    <3>1. i \in HeapSlot(size) /\ i # f
      BY <1>4, <1>10, <2>3
    <3>2. slot[i].cost \in Nat
      BY <1>1, <2>3, <3>1, HeapNodes
    <3>3. CASE i = e
      <4>1. PICK k \in W \ {e} : ParentSlot(k) = i
        BY <1>4, <3>1
      <4>2. Passes(node.cost, slot[i])
        BY <1>4, <4>1
      <4> QED BY <1>4, <1>5, <3>2, <3>3, <4>2 DEF Passes
    <3>4. CASE i # e
      <4>1. i # 0 /\ new[i] = slot[ParentSlot(i)]
        BY <1>4, <3>4
      <4> QED BY <2>2, <2>3, <3>1, <3>2, <4>1
    <3> QED BY <3>3, <3>4
  <2>4. CASE j \in W /\ j # e
    <3>1. p \in W \ {f} /\ new[j] = slot[p]
      BY <1>4, <2>4
    <3>2. slot[p] # Vacant
      BY <1>4, <3>1
    <3> QED BY <2>3, <3>1, <3>2
  <2>5. CASE j = e
    <3>1. p \notin W /\ ~ Passes(node.cost, slot[p]) /\ new[p] = slot[p] /\ new[j] = node
      BY <1>4, <2>1, <2>5
    <3>2. slot[p] # Vacant
      <4>1. CASE e = f
        <5>1. 1 \in 1 .. Len(free) /\ free[1] # 0
          BY <1>2, <1>3, <1>8, <2>5, <4>1
        <5>2. \A k \in 1 .. 1 - 1 : FALSE
          OBVIOUS
        <5> QED BY <1>1, <1>2, <2>5, <4>1, <5>1, <5>2 DEF TopDown
      <4>2. CASE e # f
        BY <1>4, <2>2, <2>5, <4>2
      <4> QED BY <4>1, <4>2
    <3>3. slot[p].cost \in Nat
      BY <1>1, <2>1, <3>2, HeapNodes
    <3> QED BY <1>5, <3>1, <3>2, <3>3 DEF Passes
  <2>6. CASE j \notin W
    <3>1. new[j] = slot[j] /\ slot[j] # Vacant /\ j \in HeapSlot(size) /\ j # 0
      BY <1>4, <2>6
    <3>2. slot[p] # Vacant /\ slot[p].cost <= slot[j].cost
          /\ slot[p].cost \in Nat /\ slot[j].cost \in Nat
      BY <2>2, <3>1
    <3>3. CASE p \notin W
      BY <1>4, <2>1, <3>1, <3>2, <3>3
    <3>4. CASE p \in W
      <4>1. new[p] # Vacant /\ new[p].cost <= slot[p].cost /\ new[p].cost \in Nat
        BY <2>3, <3>2, <3>4
      <4> QED BY <3>1, <3>2, <4>1
    <3> QED BY <3>3, <3>4
  <2> QED BY <2>4, <2>5, <2>6
<1>17. HeapHolds(size, nodes, new, t)
  BY <1>2, <1>4, <1>14, <1>15, <1>16 DEF HeapHolds
<1> QED BY <1>2, <1>17 DEF t

\* A push adds one copy of what is pushed.
LEMMA PushAdds ==
  ASSUME NEW size, NEW nodes, Sized(size, nodes),
         NEW slot, NEW free, HeapHolds(size, nodes, slot, free), free # <<>>,
         NEW node \in nodes,
         NEW new, NEW W, NEW e, Raised(size, nodes, slot, new, W, Head(free), e, node),
         NEW m \in nodes
  PROVE  /\ Often(HeapSlot(size), new, m) = Often(HeapSlot(size), slot, m) + One(m = node)
         /\ Often(HeapSlot(size), slot, m) \in Nat
<1> DEFINE f == Head(free)
           moved == [i \in HeapSlot(size) \ {e} |-> IF i \in W THEN ParentSlot(i) ELSE i]
<1>1. f \in HeapSlot(size) /\ slot[f] = Vacant
  <2>1. free \in Seq(HeapSlot(size)) /\ FreeExact(size, slot, free)
    BY DEF HeapHolds
  <2>2. Len(free) \in Nat \ {0} /\ f = free[1] /\ f \in HeapSlot(size)
    BY <2>1, EmptySeq, LenProperties, HeadTailProperties
  <2>3. 1 \in 1 .. Len(free)
    BY <2>2
  <2> QED BY <2>1, <2>2, <2>3 DEF FreeExact
<1> HIDE DEF f
<1>2. /\ W \subseteq HeapSlot(size) /\ f \in W /\ e \in W /\ new[e] = node
      /\ \A i \in W \ {e} : /\ i # 0 /\ ParentSlot(i) \in W \ {f}
                            /\ new[i] = slot[ParentSlot(i)]
      /\ \A i, j \in W \ {e} : ParentSlot(i) = ParentSlot(j) => i = j
      /\ \A k \in W \ {f} : \E i \in W \ {e} : ParentSlot(i) = k
      /\ \A i \in HeapSlot(size) \ W : new[i] = slot[i]
  BY DEF Raised, f
<1>3. moved \in Bijection(HeapSlot(size) \ {e}, HeapSlot(size) \ {f})
  <2>1. moved \in [HeapSlot(size) \ {e} -> HeapSlot(size) \ {f}]
    BY <1>2
  <2>2. \A i, j \in HeapSlot(size) \ {e} : moved[i] = moved[j] => i = j
    BY <1>2
  <2>3. \A k \in HeapSlot(size) \ {f} : \E i \in HeapSlot(size) \ {e} : moved[i] = k
    <3> SUFFICES ASSUME NEW k \in HeapSlot(size) \ {f}
                 PROVE  \E i \in HeapSlot(size) \ {e} : moved[i] = k
      OBVIOUS
    <3>1. CASE k \in W
      BY <1>2, <3>1
    <3>2. CASE k \notin W
      BY <1>2, <3>2
    <3> QED BY <3>1, <3>2
  <2> QED BY <2>1, <2>2, <2>3, Fun_IsBij
<1>4. \A i \in HeapSlot(size) \ {e} : new[i] = slot[moved[i]]
  BY <1>2
<1>5. e \in HeapSlot(size)
  BY <1>2
<1> HIDE DEF moved
<1>6. /\ Often(HeapSlot(size), new, m) \in Nat /\ Often(HeapSlot(size), slot, m) \in Nat
      /\ Often(HeapSlot(size), new, m) - One(new[e] = m)
           = Often(HeapSlot(size), slot, m) - One(slot[f] = m)
  <2>1. Moves(HeapSlot(size), e, f, moved, slot, new)
    BY <1>1, <1>3, <1>4, <1>5 DEF Moves
  <2> QED BY <2>1, HeapSlots, MovedAlong
<1>7. One(slot[f] = m) = 0
  BY <1>1, HeapNodes DEF One
<1>8. One(new[e] = m) = One(m = node) /\ One(m = node) \in {0, 1}
  BY <1>2 DEF One
<1> QED BY <1>6, <1>7, <1>8

-----------------------------------------------------------------------------
(* What is popped leaves a hole that sinks from the root.                  *)

Parental(size, hp) == {i \in HeapSlot(size) : HasChild(hp, i)}
Pulled(size, hp)   == [i \in Parental(size, hp) |-> PulledChild(hp, i)]

\* The child that is pulled up is one of the cheapest.
LEMMA PulledUp ==
  ASSUME NEW size, NEW nodes, Sized(size, nodes),
         NEW hp, hp.slot \in [HeapSlot(size) -> nodes \cup {Vacant}], NEW i \in Parental(size, hp)
  PROVE  LET c == PulledChild(hp, i)
         IN  /\ i \in HeapSlot(size) /\ c \in HeapSlot(size) /\ c > i /\ c # 0
             /\ hp.slot[c] # Vacant
             /\ ParentSlot(c) = i
             /\ \A j \in HeapSlot(size) \ {0} : hp.slot[j] # Vacant /\ ParentSlot(j) = i
                  => hp.slot[c].cost <= hp.slot[j].cost
<1> DEFINE c == PulledChild(hp, i)
           l == LeftChild(i)
           r == RightChild(i)
<1>1. i \in HeapSlot(size) /\ i \in Nat /\ HasChild(hp, i)
  BY HeapSlots DEF Parental, HeapSlot
<1>2. /\ l \in Nat /\ r \in Nat /\ l > i /\ r > i /\ ParentSlot(l) = i /\ ParentSlot(r) = i
      /\ l = 2 * i + 1 /\ r = 2 * i + 2
  BY <1>1, Children DEF LeftChild, RightChild
<1>3. DOMAIN hp.slot = HeapSlot(size)
  OBVIOUS
<1>4. /\ Filled(hp, l) <=> l \in HeapSlot(size) /\ hp.slot[l] # Vacant
      /\ Filled(hp, r) <=> r \in HeapSlot(size) /\ hp.slot[r] # Vacant
  BY <1>3 DEF Filled
<1>5. Filled(hp, l) \/ Filled(hp, r)
  BY <1>1 DEF HasChild
<1>6. \A j \in HeapSlot(size) \ {0} : ParentSlot(j) = i => j = l \/ j = r
  <2> SUFFICES ASSUME NEW j \in HeapSlot(size) \ {0}, ParentSlot(j) = i PROVE j = l \/ j = r
    OBVIOUS
  <2>1. j \in Nat \ {0}
    BY HeapSlots DEF HeapSlot
  <2> QED BY <2>1, Parents
<1>7. ASSUME NEW j \in HeapSlot(size), hp.slot[j] # Vacant PROVE hp.slot[j].cost \in Nat
  BY <1>7, HeapNodes
<1>8. /\ c = l \/ c = r
      /\ Filled(hp, c)
      /\ Filled(hp, l) => hp.slot[c].cost <= hp.slot[l].cost
      /\ Filled(hp, r) => hp.slot[c].cost <= hp.slot[r].cost
  <2>1. CASE Filled(hp, l) /\ Filled(hp, r)
    <3>1. hp.slot[l].cost \in Nat /\ hp.slot[r].cost \in Nat
      BY <1>4, <1>7, <2>1
    <3>2. c = 2 * i + Smaller(hp.slot[l], hp.slot[r])
      BY <2>1 DEF PulledChild
    <3>3. c = IF hp.slot[r].cost <= hp.slot[l].cost THEN r ELSE l
      BY <1>1, <1>2, <3>2 DEF Smaller
    <3> HIDE DEF c, l, r
    <3> QED BY <2>1, <3>1, <3>3
  <2>2. CASE Filled(hp, l) /\ ~ Filled(hp, r)
    <3>1. c = l
      BY <2>2 DEF PulledChild
    <3>2. hp.slot[l].cost \in Nat
      BY <1>4, <1>7, <2>2
    <3> HIDE DEF c, l, r
    <3> QED BY <2>2, <3>1, <3>2
  <2>3. CASE ~ Filled(hp, l) /\ Filled(hp, r)
    <3>1. c = r
      BY <2>3 DEF PulledChild
    <3>2. hp.slot[r].cost \in Nat
      BY <1>4, <1>7, <2>3
    <3> HIDE DEF c, l, r
    <3> QED BY <2>3, <3>1, <3>2
  <2> QED BY <1>5, <2>1, <2>2, <2>3
<1> HIDE DEF c, l, r
<1>9. c \in HeapSlot(size) /\ c > i /\ c # 0 /\ hp.slot[c] # Vacant /\ ParentSlot(c) = i
  BY <1>1, <1>2, <1>4, <1>8
<1>10. \A j \in HeapSlot(size) \ {0} : hp.slot[j] # Vacant /\ ParentSlot(j) = i
         => hp.slot[c].cost <= hp.slot[j].cost
  BY <1>4, <1>6, <1>8
<1> QED BY <1>1, <1>9, <1>10 DEF c

LEMMA DescentLeads ==
  ASSUME NEW size, NEW nodes, Sized(size, nodes),
         NEW hp, hp.slot \in [HeapSlot(size) -> nodes \cup {Vacant}]
  PROVE  \E e : Leads(Descent(hp), HeapSlot(size), Parental(size, hp), Pulled(size, hp), 0, e)
<1> DEFINE Go == Parental(size, hp)
           onTo == Pulled(size, hp)
           rank == [i \in HeapSlot(size) |-> size - i]
           down == CHOOSE way : Ways(HeapSlot(size), Go, onTo, way)
<1>1. Go \in SUBSET HeapSlot(size)
  BY DEF Parental
<1>2. \A i \in HeapSlot(size) : rank[i] = size - i /\ size - i \in Nat
  BY HeapSlots DEF HeapSlot
<1>3. \A i \in Go : /\ onTo[i] = PulledChild(hp, i) /\ onTo[i] \in HeapSlot(size)
                    /\ rank[onTo[i]] < rank[i]
  <2> SUFFICES ASSUME NEW i \in Go
               PROVE  /\ onTo[i] = PulledChild(hp, i) /\ onTo[i] \in HeapSlot(size)
                      /\ rank[onTo[i]] < rank[i]
    OBVIOUS
  <2>1. onTo[i] = PulledChild(hp, i)
    BY DEF Pulled
  <2>2. i \in HeapSlot(size) /\ onTo[i] \in HeapSlot(size) /\ onTo[i] > i
    BY <2>1, PulledUp
  <2>3. size - onTo[i] < size - i
    BY <2>2, HeapSlots DEF HeapSlot
  <2> QED BY <1>2, <2>1, <2>2, <2>3
<1>4. onTo \in [Go -> HeapSlot(size)]
  BY <1>3 DEF Pulled
<1>5. rank \in [HeapSlot(size) -> Nat]
  BY <1>2
<1>6. Descent(hp) = down[0]
  <2> DEFINE Is(way) == way = [i \in DOMAIN hp.slot |->
                          IF HasChild(hp, i) THEN {i} \cup way[PulledChild(hp, i)] ELSE {i}]
  <2>1. DOMAIN hp.slot = HeapSlot(size)
    OBVIOUS
  <2>2. ASSUME NEW way PROVE Ways(HeapSlot(size), Go, onTo, way) <=> Is(way)
    <3>1. [i \in HeapSlot(size) |-> IF i \in Go THEN {i} \cup way[onTo[i]] ELSE {i}]
            = [i \in DOMAIN hp.slot |->
                 IF HasChild(hp, i) THEN {i} \cup way[PulledChild(hp, i)] ELSE {i}]
      BY <2>1 DEF Parental, Pulled
    <3> QED BY <3>1 DEF Ways
  <2>3. Descent(hp) = (CHOOSE way : Is(way))[0]
    BY DEF Descent
  <2>4. \A way : Ways(HeapSlot(size), Go, onTo, way) <=> Is(way)
    BY <2>2
  <2> HIDE DEF Is, Go, onTo
  <2>5. (CHOOSE way : Is(way)) = CHOOSE way : Ways(HeapSlot(size), Go, onTo, way)
    BY <2>4
  <2> QED BY <2>3, <2>5
<1> HIDE DEF Go, onTo, rank
<1>7. Ways(HeapSlot(size), Go, onTo, down)
  BY <1>1, <1>4, WaysExist
<1> HIDE DEF down
<1>8. \E e : Leads(down[0], HeapSlot(size), Go, onTo, 0, e)
  BY <1>1, <1>3, <1>4, <1>5, <1>7, HeapSlots, WaysEnd
<1> QED BY <1>6, <1>8 DEF Go, onTo

\* After the pop the way W from the root is moved up by one, and its end e is vacant.
Sunk(size, nodes, slot, new, W, e) ==
  /\ W \subseteq HeapSlot(size) /\ 0 \in W /\ e \in W
  /\ new \in [HeapSlot(size) -> nodes \cup {Vacant}] /\ new[e] = Vacant
  /\ \A i \in W : slot[i] # Vacant
  /\ \A j \in HeapSlot(size) \ {0} : ParentSlot(j) = e => slot[j] = Vacant
  /\ \A k \in W \ {0} : ParentSlot(k) \in W \ {e} /\ new[ParentSlot(k)] = slot[k]
  /\ \A i \in W \ {e} : \E k \in W \ {0} : ParentSlot(k) = i
  /\ \A k, l \in W \ {0} : ParentSlot(k) = ParentSlot(l) => k = l
  /\ \A k \in W \ {0} : \A j \in HeapSlot(size) \ {0} :
       slot[j] # Vacant /\ ParentSlot(j) = ParentSlot(k) => slot[k].cost <= slot[j].cost
  /\ \A i \in HeapSlot(size) \ W : new[i] = slot[i]

LEMMA PopSinks ==
  ASSUME NEW size, NEW nodes, Sized(size, nodes),
         NEW hp, HeapHolds(size, nodes, hp.slot, hp.free), hp.slot[0] # Vacant
  PROVE  \E W, e : /\ Sunk(size, nodes, hp.slot, HeapPop(hp).slot, W, e)
                   /\ HeapPop(hp).free = <<e>> \o hp.free
<1> DEFINE slot == hp.slot
           W == Descent(hp)
           hole == CHOOSE i \in W : ~ HasChild(hp, i)
           new == [i \in DOMAIN slot |->
                     IF i \notin W THEN slot[i]
                     ELSE IF i = hole THEN Vacant ELSE slot[PulledChild(hp, i)]]
           Go == Parental(size, hp)
           onTo == Pulled(size, hp)
<1>1. slot \in [HeapSlot(size) -> nodes \cup {Vacant}] /\ DOMAIN slot = HeapSlot(size)
  BY DEF HeapHolds
<1>2. PICK e : Leads(W, HeapSlot(size), Go, onTo, 0, e)
  BY <1>1, DescentLeads
<1>3. HeapPop(hp).slot = new /\ HeapPop(hp).free = <<hole>> \o hp.free
  BY DEF HeapPop
<1> HIDE DEF W
<1>4. /\ W \subseteq HeapSlot(size) /\ 0 \in W /\ e \in W \ Go /\ W \ {e} \subseteq Go
      /\ \A j \in W \ {e} : onTo[j] \in W \ {0}
      /\ \A j, k \in W \ {e} : onTo[j] = onTo[k] => j = k
      /\ \A k \in W \ {0} : \E j \in W \ {e} : onTo[j] = k
      /\ \A S \in SUBSET HeapSlot(size) : Closed(S, Go, onTo, 0) => W \subseteq S
  BY <1>2 DEF Leads
<1>5. \A i \in HeapSlot(size) : i \in Go <=> HasChild(hp, i)
  BY DEF Parental
<1>6. hole = e
  <2>1. \A i \in W : ~ HasChild(hp, i) <=> i = e
    BY <1>4, <1>5
  <2>2. hole \in W /\ ~ HasChild(hp, hole)
    BY <1>4, <2>1
  <2> QED BY <2>1, <2>2
<1>7. ASSUME NEW i \in Go
      PROVE  /\ onTo[i] = PulledChild(hp, i) /\ onTo[i] \in HeapSlot(size) /\ onTo[i] # 0
             /\ slot[onTo[i]] # Vacant /\ ParentSlot(onTo[i]) = i
             /\ \A j \in HeapSlot(size) \ {0} : slot[j] # Vacant /\ ParentSlot(j) = i
                  => slot[onTo[i]].cost <= slot[j].cost
  <2>1. onTo[i] = PulledChild(hp, i)
    BY DEF Pulled
  <2> QED BY <1>1, <2>1, PulledUp
<1>8. \A j \in HeapSlot(size) \ {0} : ParentSlot(j) = e => slot[j] = Vacant
  <2> SUFFICES ASSUME NEW j \in HeapSlot(size) \ {0}, ParentSlot(j) = e, slot[j] # Vacant
               PROVE  FALSE
    OBVIOUS
  <2>1. j \in Nat \ {0}
    BY HeapSlots DEF HeapSlot
  <2>2. j = LeftChild(e) \/ j = RightChild(e)
    BY <2>1, Parents
  <2>3. HasChild(hp, e)
    BY <1>1, <2>2 DEF HasChild, Filled
  <2> QED BY <1>4, <1>5, <2>3
<1> HIDE DEF Go, onTo, hole
<1>9. \A i \in W : slot[i] # Vacant
  <2> DEFINE S == {i \in HeapSlot(size) : slot[i] # Vacant}
  <2>1. Closed(S, Go, onTo, 0)
    BY <1>7, HeapSlots DEF Closed
  <2> QED BY <1>4, <2>1
<1>10. /\ \A i \in HeapSlot(size) \ W : new[i] = slot[i]
       /\ new[e] = Vacant
       /\ \A i \in W \ {e} : new[i] = slot[onTo[i]]
  BY <1>1, <1>4, <1>6, <1>7
<1>11. new \in [HeapSlot(size) -> nodes \cup {Vacant}]
  <2>1. ASSUME NEW i \in HeapSlot(size) PROVE new[i] \in nodes \cup {Vacant}
    <3>1. i \in HeapSlot(size) \ W \/ i = e \/ i \in W \ {e}
      OBVIOUS
    <3>2. i \in W \ {e} => onTo[i] \in HeapSlot(size)
      BY <1>4
    <3> HIDE DEF new
    <3> QED BY <1>1, <1>10, <3>1, <3>2
  <2> QED BY <1>1, <2>1
<1> HIDE DEF new, slot
<1>12. ASSUME NEW k \in W \ {0}
       PROVE  /\ ParentSlot(k) \in W \ {e} /\ new[ParentSlot(k)] = slot[k]
              /\ k = onTo[ParentSlot(k)]
              /\ \A j \in HeapSlot(size) \ {0} : slot[j] # Vacant /\ ParentSlot(j) = ParentSlot(k)
                   => slot[k].cost <= slot[j].cost
  <2>1. PICK i \in W \ {e} : onTo[i] = k
    BY <1>4
  <2>2. i \in Go /\ ParentSlot(k) = i
    BY <1>4, <1>7, <2>1
  <2> QED BY <1>7, <1>10, <2>1, <2>2
<1>13. \A i \in W \ {e} : \E k \in W \ {0} : ParentSlot(k) = i
  BY <1>4, <1>7
<1>14. \A k, l \in W \ {0} : ParentSlot(k) = ParentSlot(l) => k = l
  BY <1>12
<1>15. Sunk(size, nodes, slot, new, W, e)
  BY <1>4, <1>8, <1>9, <1>10, <1>11, <1>12, <1>13, <1>14 DEF Sunk
<1> QED BY <1>3, <1>6, <1>15 DEF slot

\* The invariant holds after a pop (heap.c:57-103).
LEMMA PopHolds ==
  ASSUME NEW size, NEW nodes, Sized(size, nodes),
         NEW slot, NEW free, HeapHolds(size, nodes, slot, free), NEW new, NEW W, NEW e,
         Sunk(size, nodes, slot, new, W, e)
  PROVE  HeapHolds(size, nodes, new, <<e>> \o free) /\ Len(<<e>> \o free) = Len(free) + 1
<1> DEFINE t == <<e>> \o free
<1>1. /\ slot \in [HeapSlot(size) -> nodes \cup {Vacant}] /\ free \in Seq(HeapSlot(size))
      /\ Ordered(size, slot) /\ FreeExact(size, slot, free) /\ TopDown(slot, free)
  BY DEF HeapHolds
<1>2. /\ W \subseteq HeapSlot(size) /\ 0 \in W /\ e \in W
      /\ new \in [HeapSlot(size) -> nodes \cup {Vacant}] /\ new[e] = Vacant
      /\ \A i \in W : slot[i] # Vacant
      /\ \A j \in HeapSlot(size) \ {0} : ParentSlot(j) = e => slot[j] = Vacant
      /\ \A k \in W \ {0} : ParentSlot(k) \in W \ {e} /\ new[ParentSlot(k)] = slot[k]
      /\ \A i \in W \ {e} : \E k \in W \ {0} : ParentSlot(k) = i
      /\ \A k \in W \ {0} : \A j \in HeapSlot(size) \ {0} :
           slot[j] # Vacant /\ ParentSlot(j) = ParentSlot(k) => slot[k].cost <= slot[j].cost
      /\ \A i \in HeapSlot(size) \ W : new[i] = slot[i]
  BY DEF Sunk
<1>3. PICK n \in Nat : n = Len(free)
  BY <1>1, LenProperties
<1>4. /\ t \in Seq(HeapSlot(size)) /\ Len(t) = n + 1 /\ t[1] = e
      /\ \A j \in 1 .. n : t[j + 1] = free[j] /\ free[j] \in HeapSlot(size)
  <2>1. <<e>> \in Seq(HeapSlot(size)) /\ Len(<<e>>) = 1 /\ <<e>>[1] = e
    BY <1>2
  <2>2. /\ t \in Seq(HeapSlot(size)) /\ Len(t) = 1 + n
        /\ \A i \in 1 .. 1 + n : t[i] = IF i <= 1 THEN <<e>>[i] ELSE free[i - 1]
    BY <1>1, <1>3, <2>1, ConcatProperties
  <2> HIDE DEF t
  <2>3. /\ 1 \in 1 .. 1 + n
        /\ \A j \in 1 .. n : j + 1 \in 1 .. 1 + n /\ ~ (j + 1 <= 1) /\ (j + 1) - 1 = j
    BY <1>3
  <2>4. \A j \in 1 .. n : free[j] \in HeapSlot(size)
    BY <1>1, <1>3, ElementOfSeq
  <2>5. t[1] = e
    BY <2>1, <2>2, <2>3
  <2>6. \A j \in 1 .. n : t[j + 1] = free[j]
    BY <2>2, <2>3
  <2> QED BY <1>3, <2>2, <2>4, <2>5, <2>6
<1> HIDE DEF t
<1>5. \A i, j \in 1 .. n : free[i] = free[j] => i = j
  BY <1>1, <1>3 DEF FreeExact, Once
<1>6. \A i \in HeapSlot(size) : slot[i] = Vacant <=> \E j \in 1 .. n : free[j] = i
  BY <1>1, <1>3 DEF FreeExact
<1>7. \A j \in 1 .. n + 1 : j = 1 \/ (j - 1 \in 1 .. n /\ t[j] = free[j - 1])
  <2> SUFFICES ASSUME NEW j \in 1 .. n + 1, j # 1 PROVE j - 1 \in 1 .. n /\ t[j] = free[j - 1]
    OBVIOUS
  <2>1. j - 1 \in 1 .. n /\ (j - 1) + 1 = j
    BY <1>3
  <2> QED BY <1>4, <2>1
<1>8. slot[e] # Vacant /\ \A j \in 1 .. n : free[j] # e
  BY <1>2, <1>6
<1>9. \A i \in HeapSlot(size) : new[i] = Vacant <=> slot[i] = Vacant \/ i = e
  <2> SUFFICES ASSUME NEW i \in HeapSlot(size) PROVE new[i] = Vacant <=> slot[i] = Vacant \/ i = e
    OBVIOUS
  <2>1. CASE i \notin W
    BY <1>2, <2>1
  <2>2. CASE i = e
    BY <1>2, <2>2
  <2>3. CASE i \in W \ {e}
    <3>1. PICK k \in W \ {0} : ParentSlot(k) = i
      BY <1>2, <2>3
    <3> QED BY <1>2, <2>3, <3>1
  <2> QED BY <2>1, <2>2, <2>3
<1>10. Once(t)
  <2> SUFFICES ASSUME NEW i \in 1 .. n + 1, NEW j \in 1 .. n + 1, t[i] = t[j] PROVE i = j
    BY <1>4 DEF Once
  <2>1. CASE i = 1 \/ j = 1
    BY <1>4, <1>7, <1>8, <2>1
  <2>2. CASE i # 1 /\ j # 1
    <3>1. i - 1 = j - 1
      BY <1>5, <1>7, <2>2
    <3> QED BY <3>1
  <2> QED BY <2>1, <2>2
<1>11. \A i \in HeapSlot(size) : new[i] = Vacant <=> \E j \in 1 .. n + 1 : t[j] = i
  <2> SUFFICES ASSUME NEW i \in HeapSlot(size)
               PROVE  new[i] = Vacant <=> \E j \in 1 .. n + 1 : t[j] = i
    OBVIOUS
  <2>1. 1 \in 1 .. n + 1 /\ \A j \in 1 .. n : j + 1 \in 1 .. n + 1
    BY <1>3
  <2>2. ASSUME new[i] = Vacant PROVE \E j \in 1 .. n + 1 : t[j] = i
    <3>1. CASE i = e
      BY <1>4, <2>1, <3>1
    <3>2. CASE i # e
      <4>1. PICK j \in 1 .. n : free[j] = i
        BY <1>6, <1>9, <2>2, <3>2
      <4> QED BY <1>4, <2>1, <4>1
    <3> QED BY <3>1, <3>2
  <2>3. ASSUME NEW j \in 1 .. n + 1, t[j] = i PROVE new[i] = Vacant
    <3>1. CASE j = 1
      BY <1>4, <1>9, <2>3, <3>1
    <3>2. CASE j # 1
      BY <1>6, <1>7, <1>9, <2>3, <3>2
    <3> QED BY <3>1, <3>2
  <2> QED BY <2>2, <2>3
<1>12. FreeExact(size, new, t)
  BY <1>4, <1>10, <1>11 DEF FreeExact
<1>13. TopDown(new, t)
  <2> SUFFICES ASSUME NEW j \in 1 .. n + 1, t[j] # 0, new[ParentSlot(t[j])] = Vacant
               PROVE  \E k \in 1 .. j - 1 : t[k] = ParentSlot(t[j])
    BY <1>4 DEF TopDown
  <2> DEFINE p == ParentSlot(t[j])
  <2>1. t[j] \in HeapSlot(size)
    BY <1>4, ElementOfSeq
  <2>2. p \in HeapSlot(size)
    BY <2>1, ParentSlots
  <2>3. j # 1
    <3> SUFFICES ASSUME j = 1 PROVE FALSE
      OBVIOUS
    <3>1. t[j] = e /\ e \in W \ {0}
      BY <1>2, <1>4
    <3>2. PICK i \in W \ {e} : i = p
      BY <1>2, <3>1
    <3> QED BY <1>2, <1>9, <2>2, <3>2
  <2>4. j - 1 \in 1 .. n /\ t[j] = free[j - 1]
    BY <1>7, <2>3
  <2>5. CASE p = e
    <3>1. 1 \in 1 .. j - 1
      BY <2>4
    <3> QED BY <1>4, <2>5, <3>1
  <2>6. CASE p # e
    <3>1. slot[p] = Vacant
      BY <1>9, <2>2, <2>6
    <3>2. PICK k \in 1 .. (j - 1) - 1 : free[k] = p
      BY <1>1, <1>3, <2>4, <3>1 DEF TopDown
    <3>3. k \in 1 .. n /\ k + 1 \in 1 .. j - 1
      BY <1>3, <2>4
    <3> QED BY <1>4, <3>2, <3>3
  <2> QED BY <2>5, <2>6
<1>14. Ordered(size, new)
  <2> SUFFICES ASSUME NEW j \in HeapSlot(size) \ {0}, new[j] # Vacant
               PROVE  new[ParentSlot(j)] # Vacant /\ new[ParentSlot(j)].cost <= new[j].cost
    BY DEF Ordered
  <2> DEFINE p == ParentSlot(j)
  <2>1. p \in HeapSlot(size) /\ j # e /\ slot[j] # Vacant
    BY <1>2, <1>9, ParentSlots
  <2>2. \A i \in HeapSlot(size) \ {0} : slot[i] # Vacant =>
          slot[ParentSlot(i)] # Vacant /\ slot[ParentSlot(i)].cost <= slot[i].cost
    BY <1>1 DEF Ordered
  <2>3. CASE j \in W
    <3>1. PICK q \in W \ {0} : ParentSlot(q) = j
      BY <1>2, <2>1, <2>3
    <3>2. new[j] = slot[q] /\ slot[q] # Vacant /\ q \in HeapSlot(size) \ {0}
      BY <1>2, <3>1
    <3>3. slot[j].cost <= slot[q].cost
      BY <2>2, <3>1, <3>2
    <3>4. p \in W \ {e} /\ new[p] = slot[j]
      BY <1>2, <2>3
    <3> QED BY <2>1, <3>2, <3>3, <3>4
  <2>4. CASE j \notin W
    <3>1. new[j] = slot[j]
      BY <1>2, <2>4
    <3>2. slot[p] # Vacant /\ slot[p].cost <= slot[j].cost
      BY <2>1, <2>2
    <3>3. CASE p \notin W
      BY <1>2, <2>1, <3>1, <3>2, <3>3
    <3>4. CASE p \in W
      <4>1. p # e
        BY <1>2, <2>1
      <4>2. PICK k \in W \ {0} : ParentSlot(k) = p
        BY <1>2, <3>4, <4>1
      <4>3. new[p] = slot[k] /\ slot[k] # Vacant /\ slot[k].cost <= slot[j].cost
        BY <1>2, <2>1, <4>2
      <4> QED BY <3>1, <4>3
    <3> QED BY <3>3, <3>4
  <2> QED BY <2>3, <2>4
<1>15. HeapHolds(size, nodes, new, t)
  BY <1>2, <1>4, <1>12, <1>13, <1>14 DEF HeapHolds
<1> QED BY <1>3, <1>4, <1>15 DEF t

\* A pop takes one copy of what was at the root.
LEMMA PopTakes ==
  ASSUME NEW size, NEW nodes, Sized(size, nodes),
         NEW slot, NEW new, NEW W, NEW e, Sunk(size, nodes, slot, new, W, e), NEW m \in nodes
  PROVE  /\ Often(HeapSlot(size), new, m) = Often(HeapSlot(size), slot, m) - One(m = slot[0])
         /\ Often(HeapSlot(size), slot, m) \in Nat
<1> DEFINE moved == [i \in HeapSlot(size) \ {e} |->
                       IF i \in W THEN CHOOSE k \in W \ {0} : ParentSlot(k) = i ELSE i]
<1>1. /\ W \subseteq HeapSlot(size) /\ 0 \in W /\ e \in W /\ new[e] = Vacant
      /\ \A k \in W \ {0} : ParentSlot(k) \in W \ {e} /\ new[ParentSlot(k)] = slot[k]
      /\ \A i \in W \ {e} : \E k \in W \ {0} : ParentSlot(k) = i
      /\ \A k, l \in W \ {0} : ParentSlot(k) = ParentSlot(l) => k = l
      /\ \A i \in HeapSlot(size) \ W : new[i] = slot[i]
  BY DEF Sunk
<1>2. \A i \in W \ {e} : moved[i] \in W \ {0} /\ ParentSlot(moved[i]) = i
  <2> SUFFICES ASSUME NEW i \in W \ {e} PROVE moved[i] \in W \ {0} /\ ParentSlot(moved[i]) = i
    OBVIOUS
  <2>1. moved[i] = CHOOSE k \in W \ {0} : ParentSlot(k) = i
    BY <1>1
  <2>2. \E k \in W \ {0} : ParentSlot(k) = i
    BY <1>1
  <2> HIDE DEF moved
  <2> QED BY <2>1, <2>2
<1>3. \A i \in HeapSlot(size) \ W : moved[i] = i
  BY <1>1
<1>4. moved = [i \in HeapSlot(size) \ {e} |-> moved[i]]
  OBVIOUS
<1> HIDE DEF moved
<1>5. moved \in Bijection(HeapSlot(size) \ {e}, HeapSlot(size) \ {0})
  <2>1. moved \in [HeapSlot(size) \ {e} -> HeapSlot(size) \ {0}]
    <3>1. \A i \in HeapSlot(size) \ {e} : moved[i] \in HeapSlot(size) \ {0}
      BY <1>1, <1>2, <1>3
    <3> QED BY <1>4, <3>1
  <2>2. \A i, j \in HeapSlot(size) \ {e} : moved[i] = moved[j] => i = j
    BY <1>1, <1>2, <1>3
  <2>3. \A k \in HeapSlot(size) \ {0} : \E i \in HeapSlot(size) \ {e} : moved[i] = k
    <3> SUFFICES ASSUME NEW k \in HeapSlot(size) \ {0}
                 PROVE  \E i \in HeapSlot(size) \ {e} : moved[i] = k
      OBVIOUS
    <3>1. CASE k \in W
      <4>1. ParentSlot(k) \in W \ {e} /\ ParentSlot(k) \in HeapSlot(size) \ {e}
        BY <1>1, <3>1
      <4>2. moved[ParentSlot(k)] = k
        BY <1>1, <1>2, <3>1, <4>1
      <4> QED BY <4>1, <4>2
    <3>2. CASE k \notin W
      BY <1>1, <1>3, <3>2
    <3> QED BY <3>1, <3>2
  <2> QED BY <2>1, <2>2, <2>3, Fun_IsBij
<1>6. \A i \in HeapSlot(size) \ {e} : new[i] = slot[moved[i]]
  <2> SUFFICES ASSUME NEW i \in HeapSlot(size) \ {e} PROVE new[i] = slot[moved[i]]
    OBVIOUS
  <2>1. CASE i \in W
    BY <1>1, <1>2, <2>1
  <2>2. CASE i \notin W
    BY <1>1, <1>3, <2>2
  <2> QED BY <2>1, <2>2
<1>7. Moves(HeapSlot(size), e, 0, moved, slot, new)
  BY <1>1, <1>5, <1>6, HeapSlots DEF Moves
<1>8. /\ Often(HeapSlot(size), new, m) \in Nat /\ Often(HeapSlot(size), slot, m) \in Nat
      /\ Often(HeapSlot(size), new, m) - One(new[e] = m)
           = Often(HeapSlot(size), slot, m) - One(slot[0] = m)
  BY <1>7, HeapSlots, MovedAlong
<1>9. One(new[e] = m) = 0 /\ One(slot[0] = m) = One(m = slot[0]) /\ One(m = slot[0]) \in {0, 1}
  BY <1>1, HeapNodes DEF One
<1> QED BY <1>8, <1>9

-----------------------------------------------------------------------------
(* A heap as a bag: what its users need to know.                           *)

LEMMA OftenIs ==
  ASSUME NEW size, NEW nodes, Sized(size, nodes), NEW slot, NEW m
  PROVE  /\ Often(HeapSlot(size), slot, m) \in Nat
         /\ Often(HeapSlot(size), slot, m) > 0 <=> \E i \in HeapSlot(size) : slot[i] = m
<1> DEFINE P == {i \in HeapSlot(size) : slot[i] = m}
<1>1. IsFiniteSet(P)
  BY HeapSlots, FS_Subset
<1>2. Cardinality(P) \in Nat /\ (Cardinality(P) = 0 <=> P = {})
  BY <1>1, FS_CardinalityType, FS_EmptySet
<1>3. Often(HeapSlot(size), slot, m) = Cardinality(P)
  BY DEF Often
<1> QED BY <1>2, <1>3

LEMMA HeapMade ==
  ASSUME NEW size, NEW nodes, Sized(size, nodes)
  PROVE  /\ HeapHolds(size, nodes, EmptyHeap(size).slot, EmptyHeap(size).free)
         /\ Len(EmptyHeap(size).free) = size
         /\ \A i \in HeapSlot(size) : EmptyHeap(size).slot[i] = Vacant
<1> DEFINE slot == [i \in HeapSlot(size) |-> Vacant]
           free == [i \in 1 .. size |-> i - 1]
<1>1. EmptyHeap(size).slot = slot /\ EmptyHeap(size).free = free
  BY DEF EmptyHeap, HeapSlot
<1>2. size \in Nat \ {0}
  BY HeapSlots
<1>3. free \in Seq(HeapSlot(size)) /\ Len(free) = size
  BY <1>2 DEF HeapSlot
<1>4. \A i \in 1 .. size : free[i] = i - 1
  OBVIOUS
<1>5. slot \in [HeapSlot(size) -> nodes \cup {Vacant}] /\ \A i \in HeapSlot(size) : slot[i] = Vacant
  OBVIOUS
<1> HIDE DEF slot, free
<1>6. Once(free)
  BY <1>2, <1>3, <1>4 DEF Once
<1>7. \A i \in HeapSlot(size) : i + 1 \in 1 .. size /\ (i + 1) - 1 = i
  BY <1>2 DEF HeapSlot
<1>8. FreeExact(size, slot, free)
  BY <1>3, <1>4, <1>5, <1>6, <1>7 DEF FreeExact
<1>9. Ordered(size, slot)
  BY <1>5 DEF Ordered
<1>10. TopDown(slot, free)
  <2> SUFFICES ASSUME NEW j \in 1 .. size, free[j] # 0
               PROVE  \E k \in 1 .. j - 1 : free[k] = ParentSlot(free[j])
    BY <1>3 DEF TopDown
  <2>1. free[j] = j - 1 /\ j - 1 \in HeapSlot(size)
    BY <1>2, <1>4 DEF HeapSlot
  <2>2. ParentSlot(j - 1) \in HeapSlot(size) /\ ParentSlot(j - 1) < j - 1
    BY <2>1, ParentSlots
  <2>3. ParentSlot(j - 1) + 1 \in 1 .. j - 1
    BY <2>2, HeapSlots DEF HeapSlot
  <2> QED BY <1>4, <1>7, <2>1, <2>2, <2>3
<1> QED BY <1>1, <1>3, <1>5, <1>8, <1>9, <1>10 DEF HeapHolds

LEMMA HeapPushed ==
  ASSUME NEW size, NEW nodes, Sized(size, nodes),
         NEW hp, HeapHolds(size, nodes, hp.slot, hp.free), ~ HeapFull(hp), NEW node \in nodes
  PROVE  /\ HeapHolds(size, nodes, HeapPush(hp, node).slot, HeapPush(hp, node).free)
         /\ Len(HeapPush(hp, node).free) = Len(hp.free) - 1 /\ Len(hp.free) \in Nat \ {0}
         /\ \A m \in nodes : Often(HeapSlot(size), HeapPush(hp, node).slot, m)
                               = Often(HeapSlot(size), hp.slot, m) + One(m = node)
<1>1. hp.free # <<>>
  BY DEF HeapFull
<1>2. PICK W, e : Raised(size, nodes, hp.slot, HeapPush(hp, node).slot, W, Head(hp.free), e, node)
  BY <1>1, PushRaises
<1>3. HeapPush(hp, node).free = Tail(hp.free)
  BY DEF HeapPush
<1>4. /\ HeapHolds(size, nodes, HeapPush(hp, node).slot, Tail(hp.free))
      /\ Len(Tail(hp.free)) = Len(hp.free) - 1 /\ Len(hp.free) \in Nat \ {0}
  BY <1>1, <1>2, PushHolds
<1>5. \A m \in nodes : Often(HeapSlot(size), HeapPush(hp, node).slot, m)
                         = Often(HeapSlot(size), hp.slot, m) + One(m = node)
  <2> SUFFICES ASSUME NEW m \in nodes
               PROVE  Often(HeapSlot(size), HeapPush(hp, node).slot, m)
                        = Often(HeapSlot(size), hp.slot, m) + One(m = node)
    OBVIOUS
  <2> DEFINE slot == hp.slot
             free == hp.free
             new == HeapPush(hp, node).slot
  <2>1. /\ HeapHolds(size, nodes, slot, free) /\ free # <<>>
        /\ Raised(size, nodes, slot, new, W, Head(free), e, node)
    BY <1>1, <1>2
  <2> HIDE DEF slot, free, new
  <2>2. /\ Often(HeapSlot(size), new, m) = Often(HeapSlot(size), slot, m) + One(m = node)
        /\ Often(HeapSlot(size), slot, m) \in Nat
    BY <2>1, PushAdds
  <2> QED BY <2>2 DEF slot, new
<1> QED BY <1>3, <1>4, <1>5

LEMMA HeapPopped ==
  ASSUME NEW size, NEW nodes, Sized(size, nodes),
         NEW hp, HeapHolds(size, nodes, hp.slot, hp.free), ~ HeapEmpty(hp)
  PROVE  /\ HeapFirst(hp) \in nodes
         /\ \A i \in HeapSlot(size) : hp.slot[i] # Vacant => HeapFirst(hp).cost <= hp.slot[i].cost
         /\ Often(HeapSlot(size), hp.slot, HeapFirst(hp)) > 0
         /\ HeapHolds(size, nodes, HeapPop(hp).slot, HeapPop(hp).free)
         /\ Len(HeapPop(hp).free) = Len(hp.free) + 1 /\ Len(hp.free) \in Nat
         /\ \A m \in nodes : Often(HeapSlot(size), HeapPop(hp).slot, m)
                               = Often(HeapSlot(size), hp.slot, m) - One(m = HeapFirst(hp))
<1>1. /\ hp.slot \in [HeapSlot(size) -> nodes \cup {Vacant}] /\ DOMAIN hp.slot = HeapSlot(size)
      /\ Ordered(size, hp.slot) /\ 0 \in HeapSlot(size) /\ Len(hp.free) \in Nat
  BY HeapSlots, LenProperties DEF HeapHolds
<1>2. hp.slot[0] # Vacant /\ HeapFirst(hp) = hp.slot[0]
  BY <1>1 DEF HeapEmpty, Filled, HeapFirst
<1>3. \A i \in HeapSlot(size) : hp.slot[i] # Vacant => hp.slot[0].cost <= hp.slot[i].cost
  BY <1>1, RootFirst
<1>4. PICK W, e : /\ Sunk(size, nodes, hp.slot, HeapPop(hp).slot, W, e)
                  /\ HeapPop(hp).free = <<e>> \o hp.free
  BY <1>2, PopSinks
<1>5. /\ HeapHolds(size, nodes, HeapPop(hp).slot, <<e>> \o hp.free)
      /\ Len(<<e>> \o hp.free) = Len(hp.free) + 1
  BY <1>4, PopHolds
<1>6. \A m \in nodes : Often(HeapSlot(size), HeapPop(hp).slot, m)
                         = Often(HeapSlot(size), hp.slot, m) - One(m = hp.slot[0])
  BY <1>4, PopTakes
<1>7. Often(HeapSlot(size), hp.slot, hp.slot[0]) > 0
  BY <1>1, OftenIs
<1> QED BY <1>1, <1>2, <1>3, <1>4, <1>5, <1>6, <1>7

\* An empty heap has all its slots in the free list.
LEMMA HeapEmptied ==
  ASSUME NEW size, NEW nodes, Sized(size, nodes),
         NEW hp, HeapHolds(size, nodes, hp.slot, hp.free), HeapEmpty(hp)
  PROVE  Len(hp.free) = size /\ \A i \in HeapSlot(size) : hp.slot[i] = Vacant
<1>1. DOMAIN hp.slot = HeapSlot(size) /\ 0 \in HeapSlot(size)
  BY HeapSlots DEF HeapHolds
<1>2. hp.slot[0] = Vacant
  BY <1>1 DEF HeapEmpty, Filled
<1> QED BY <1>2, AllFree

-----------------------------------------------------------------------------
(* The heap of Containers.                                                 *)

LEMMA HeapSized == Sized(HEAP_SIZE, HeapNode)
<1>1. HEAP_SIZE \in Nat \ {0}
  BY ContainersAssumption
<1>2. ASSUME NEW m \in HeapNode PROVE m.cost \in Nat /\ m # Vacant
  <2>1. PICK v \in {1, 2}, c \in Cost : m = [value |-> v, cost |-> c]
    BY DEF HeapNode, HEAP_NODE
  <2>2. m.cost = c /\ m.value = v /\ v # -1 /\ Vacant.value = -1
    BY <2>1 DEF Vacant
  <2>3. m # Vacant
    BY <2>2
  <2> QED BY <2>2, <2>3, ContainersAssumption
<1> QED BY <1>1, <1>2 DEF Sized

\* The invariant of the heap.
HeapKept == HeapHolds(HEAP_SIZE, HeapNode, heap.slot, heap.free)

HeapBag == [node \in HeapNode |-> Copies(node)]

LEMMA BagCounts ==
  ASSUME HeapKept
  PROVE  \A m \in HeapNode : /\ Copies(m) = Often(HeapSlot(HEAP_SIZE), heap.slot, m)
                             /\ Copies(m) \in Nat
<1>1. DOMAIN heap.slot = HeapSlot(HEAP_SIZE)
  BY DEF HeapKept, HeapHolds
<1>2. \A m \in HeapNode : Copies(m) = Often(HeapSlot(HEAP_SIZE), heap.slot, m)
  BY <1>1 DEF Copies, Often
<1> QED BY <1>2, HeapSized, OftenIs

LEMMA BagCountsNext ==
  ASSUME HeapKept'
  PROVE  \A m \in HeapNode : Copies(m)' = Often(HeapSlot(HEAP_SIZE), heap'.slot, m)
<1>1. DOMAIN heap'.slot = HeapSlot(HEAP_SIZE)
  BY DEF HeapKept, HeapHolds
<1> QED BY <1>1 DEF Copies, Often

LEMMA HeapInitially == HeapInit => HeapKept /\ CheapestFirst!Init
<1> SUFFICES ASSUME HeapInit PROVE HeapKept /\ CheapestFirst!Init
  OBVIOUS
<1>1. heap = EmptyHeap(HEAP_SIZE) /\ heapResult = <<"none">>
  BY DEF HeapInit
<1>2. /\ HeapKept /\ Len(heap.free) = HEAP_SIZE
      /\ \A i \in HeapSlot(HEAP_SIZE) : heap.slot[i] = Vacant
  BY <1>1, HeapSized, HeapMade DEF HeapKept
<1>3. ASSUME NEW m \in HeapNode PROVE Copies(m) = 0
  <2>1. m # Vacant
    BY HeapSized DEF Sized
  <2>2. /\ Often(HeapSlot(HEAP_SIZE), heap.slot, m) \in Nat
        /\ ~ (Often(HeapSlot(HEAP_SIZE), heap.slot, m) > 0)
    BY <1>2, <2>1, HeapSized, OftenIs
  <2> QED BY <1>2, <2>2, BagCounts
<1>4. HEAP_SIZE \in Nat
  BY HeapSized, HeapSlots
<1>5. HeapBag = [n \in HeapNode |-> 0] /\ HEAP_SIZE - Len(heap.free) = 0
  BY <1>2, <1>3, <1>4 DEF HeapBag
<1> QED BY <1>1, <1>2, <1>5 DEF CheapestFirst!Init, HeapBag

LEMMA HeapPushes ==
  ASSUME HeapKept, NEW node \in HeapNode, HeapPushCall(node)
  PROVE  HeapKept' /\ CheapestFirst!Push(node)
<1> DEFINE held == HEAP_SIZE - Len(heap.free)
<1>1. heap.free \in Seq(HeapSlot(HEAP_SIZE)) /\ Len(heap.free) \in Nat
      /\ (heap.free = <<>> <=> Len(heap.free) = 0)
  BY EmptySeq, LenProperties DEF HeapKept, HeapHolds
<1>2. HEAP_SIZE \in Nat
  BY HeapSized, HeapSlots
<1>3. CASE HeapFull(heap)
  <2>1. heapResult' = <<"full">> /\ heap' = heap /\ Len(heap.free) = 0
    BY <1>1, <1>3 DEF HeapPushCall, HeapFull
  <2>2. HeapKept'
    BY <2>1 DEF HeapKept
  <2>3. HeapBag' = HeapBag /\ held' = held
    BY <2>1 DEF HeapBag, Copies
  <2>4. held = HEAP_SIZE
    BY <1>2, <2>1
  <2> QED BY <2>1, <2>2, <2>3, <2>4 DEF CheapestFirst!Push, HeapBag
<1>4. CASE ~ HeapFull(heap)
  <2>1. heap' = HeapPush(heap, node) /\ heapResult' = <<"ok">>
    BY <1>4 DEF HeapPushCall
  <2>2. /\ HeapHolds(HEAP_SIZE, HeapNode, heap'.slot, heap'.free)
        /\ Len(heap'.free) = Len(heap.free) - 1 /\ Len(heap.free) \in Nat \ {0}
        /\ \A m \in HeapNode : Often(HeapSlot(HEAP_SIZE), heap'.slot, m)
                                 = Often(HeapSlot(HEAP_SIZE), heap.slot, m) + One(m = node)
    BY <1>4, <2>1, HeapSized, HeapPushed DEF HeapKept
  <2>3. HeapKept'
    BY <2>2 DEF HeapKept
  <2>4. \A m \in HeapNode : Copies(m)' = IF m = node THEN Copies(m) + 1 ELSE Copies(m)
    <3> SUFFICES ASSUME NEW m \in HeapNode
                 PROVE  Copies(m)' = IF m = node THEN Copies(m) + 1 ELSE Copies(m)
      OBVIOUS
    <3>1. Copies(m)' = Copies(m) + One(m = node) /\ Copies(m) \in Nat
      BY <2>2, <2>3, BagCounts, BagCountsNext
    <3> QED BY <3>1 DEF One
  <2>5. HeapBag' = [HeapBag EXCEPT ![node] = @ + 1]
    <3>1. HeapBag' = [m \in HeapNode |-> Copies(m)']
      BY DEF HeapBag
    <3>2. [HeapBag EXCEPT ![node] = @ + 1]
            = [m \in HeapNode |-> IF m = node THEN Copies(m) + 1 ELSE Copies(m)]
      BY DEF HeapBag
    <3> QED BY <2>4, <3>1, <3>2
  <2>6. held < HEAP_SIZE /\ held' = held + 1
    <3>1. PICK left \in Nat \ {0} : Len(heap.free) = left
      BY <2>2
    <3>2. PICK size \in Nat : HEAP_SIZE = size
      BY <1>2
    <3>3. Len(heap'.free) = left - 1
      BY <2>2, <3>1
    <3>4. held = size - left /\ held' = size - (left - 1)
      BY <3>1, <3>2, <3>3
    <3>5. size - left < size /\ size - (left - 1) = size - left + 1
      BY <3>1, <3>2
    <3> QED BY <3>2, <3>4, <3>5
  <2> QED BY <2>1, <2>3, <2>5, <2>6 DEF CheapestFirst!Push, HeapBag
<1> QED BY <1>3, <1>4

LEMMA HeapPops ==
  ASSUME HeapKept, HeapPopCall
  PROVE  HeapKept' /\ CheapestFirst!Pop
<1> DEFINE held == HEAP_SIZE - Len(heap.free)
<1>1. Len(heap.free) \in Nat /\ HEAP_SIZE \in Nat
  BY HeapSized, HeapSlots, LenProperties DEF HeapKept, HeapHolds
<1>2. CASE HeapEmpty(heap)
  <2>1. heapResult' = <<"empty">> /\ heap' = heap
    BY <1>2 DEF HeapPopCall
  <2>2. HeapKept'
    BY <2>1 DEF HeapKept
  <2>3. HeapBag' = HeapBag /\ held' = held
    BY <2>1 DEF HeapBag, Copies
  <2>4. Len(heap.free) = HEAP_SIZE
    BY <1>2, HeapSized, HeapEmptied DEF HeapKept
  <2>5. held = 0
    BY <1>1, <2>4
  <2> QED BY <2>1, <2>2, <2>3, <2>5 DEF CheapestFirst!Pop, HeapBag
<1>3. CASE ~ HeapEmpty(heap)
  <2> DEFINE n == HeapFirst(heap)
  <2>1. heap' = HeapPop(heap) /\ heapResult' = <<"node", n>>
    BY <1>3 DEF HeapPopCall
  <2>2. /\ n \in HeapNode /\ Often(HeapSlot(HEAP_SIZE), heap.slot, n) > 0
        /\ \A i \in HeapSlot(HEAP_SIZE) : heap.slot[i] # Vacant => n.cost <= heap.slot[i].cost
        /\ HeapHolds(HEAP_SIZE, HeapNode, heap'.slot, heap'.free)
        /\ Len(heap'.free) = Len(heap.free) + 1
        /\ \A m \in HeapNode : Often(HeapSlot(HEAP_SIZE), heap'.slot, m)
                                 = Often(HeapSlot(HEAP_SIZE), heap.slot, m) - One(m = n)
    BY <1>3, <2>1, HeapSized, HeapPopped DEF HeapKept
  <2> HIDE DEF n
  <2>3. HeapKept'
    BY <2>2 DEF HeapKept
  <2>4. \A m \in HeapNode : Copies(m)' = IF m = n THEN Copies(m) - 1 ELSE Copies(m)
    <3> SUFFICES ASSUME NEW m \in HeapNode
                 PROVE  Copies(m)' = IF m = n THEN Copies(m) - 1 ELSE Copies(m)
      OBVIOUS
    <3>1. Copies(m)' = Copies(m) - One(m = n) /\ Copies(m) \in Nat
      BY <2>2, <2>3, BagCounts, BagCountsNext
    <3> QED BY <3>1 DEF One
  <2>5. HeapBag' = [HeapBag EXCEPT ![n] = @ - 1]
    <3>1. HeapBag' = [m \in HeapNode |-> Copies(m)']
      BY DEF HeapBag
    <3>2. [HeapBag EXCEPT ![n] = @ - 1]
            = [m \in HeapNode |-> IF m = n THEN Copies(m) - 1 ELSE Copies(m)]
      BY DEF HeapBag
    <3> QED BY <2>4, <3>1, <3>2
  <2>6. held' = held - 1
    BY <1>1, <2>2
  <2>7. CheapestFirst!Cheapest(n)
    <3>1. \A m \in HeapNode : HeapBag[m] = Copies(m)
      BY DEF HeapBag
    <3>2. Copies(n) > 0
      BY <2>2, BagCounts
    <3>3. ASSUME NEW m \in HeapNode, Copies(m) > 0 PROVE n.cost <= m.cost
      <4>1. Often(HeapSlot(HEAP_SIZE), heap.slot, m) > 0
        BY <3>3, BagCounts
      <4>2. PICK i \in HeapSlot(HEAP_SIZE) : heap.slot[i] = m
        BY <4>1, HeapSized, OftenIs
      <4>3. heap.slot[i] # Vacant
        BY <4>2, HeapSized DEF Sized
      <4> QED BY <2>2, <4>2, <4>3
    <3> QED BY <2>2, <3>1, <3>2, <3>3 DEF CheapestFirst!Cheapest, HeapBag
  <2>8. n \in HeapNode /\ heapResult' = <<"node", n>>
    BY <2>1, <2>2 DEF n
  <2>9. CheapestFirst!Pop
    BY <2>5, <2>6, <2>7, <2>8 DEF CheapestFirst!Pop, HeapBag
  <2> QED BY <2>3, <2>9
<1> QED BY <1>2, <1>3

\* The slots of the heap are a bag that gives back one of the cheapest, under every call, for
\* every odd number of slots and all costs (heap.c:29-103).
THEOREM HeapKeeps == HeapInit /\ [][HeapNext]_HeapVars => CheapestFirst!Spec
<1>1. HeapInit => HeapKept /\ CheapestFirst!Init
  BY HeapInitially
<1>2. HeapKept /\ [HeapNext]_HeapVars => HeapKept' /\ [CheapestFirst!Next]_(CheapestFirst!vars)
  <2> SUFFICES ASSUME HeapKept, [HeapNext]_HeapVars
               PROVE  HeapKept' /\ [CheapestFirst!Next]_(CheapestFirst!vars)
    OBVIOUS
  <2>1. CASE UNCHANGED HeapVars
    <3>1. heap' = heap /\ heapResult' = heapResult
      BY <2>1 DEF HeapVars
    <3>2. HeapKept' /\ HeapBag' = HeapBag
      BY <3>1 DEF HeapKept, HeapBag, Copies
    <3> QED BY <3>1, <3>2 DEF CheapestFirst!vars, HeapBag
  <2>2. ASSUME NEW node \in HeapNode, HeapPushCall(node)
        PROVE  HeapKept' /\ [CheapestFirst!Next]_(CheapestFirst!vars)
    BY <2>2, HeapPushes DEF CheapestFirst!Next
  <2>3. CASE HeapPopCall
    BY <2>3, HeapPops DEF CheapestFirst!Next
  <2> QED BY <2>1, <2>2, <2>3 DEF HeapNext
<1> QED BY <1>1, <1>2, PTL DEF CheapestFirst!Spec

-----------------------------------------------------------------------------
\* The heap, the list and the queue of common/, each under its own calls, are the containers
\* that their abstract specifications describe: a bag that gives back one of the cheapest, and
\* two sequences that give back in order (heap.c:29-103, list.c:17-74, queue.c:18-55).
THEOREM ContainersTheorem ==
  /\ HeapInit /\ [][HeapNext]_HeapVars
  /\ ListInit /\ [][ListNextCall]_ListVars
  /\ QueueInit /\ [][QueueNext]_QueueVars
  => ContainersKeep
BY HeapKeeps, ListKeeps, QueueKeeps DEF ContainersKeep
-----------------------------------------------------------------------------
(* The search for paths.                                                   *)

OpenNode == [value : TrackNode, cost : Nat]

\* How often each node is in the heap.
BagOf(open) == [m \in OpenNode |-> Often(HeapSlot(OPEN_LENGTH), open.slot, m)]

\* The cost under which a node is expanded: the start is when nothing has been paid.
Price(s, cost, n) == IF n = s THEN 0 ELSE cost[n]
Known(s, cost, n) == n = s \/ cost[n] # NoPath
Far(g, D) == Cardinality(Millimetres(g, D))

\* The tables, when the search from s has expanded the nodes D.
Tabled(s, D, cost, came) ==
  /\ s \in TrackNode /\ D \in SUBSET TrackNode
  /\ cost \in [TrackNode -> Nat] /\ came \in [TrackNode -> TrackNode \cup {NoWay}]
  /\ \A k \in TrackNode : cost[k] = NoPath <=> came[k] = NoWay
  /\ \A k \in D : Known(s, cost, k)

\* A node that is known waits once under its cost until it is expanded.  All others in the
\* heap cost as much as any that has been expanded, at least.
Pending(g, s, D, cost, bag) ==
  /\ bag \in [OpenNode -> Nat]
  /\ \A k \in TrackNode : Known(s, cost, k) =>
       bag[HEAP_NODE(k, Price(s, cost, k))] = IF k \in D THEN 0 ELSE 1
  /\ \A m \in OpenNode : bag[m] > 0 =>
       /\ Known(s, cost, m.value) /\ Price(s, cost, m.value) <= m.cost
       /\ m.cost <= Far(g, D)
       /\ \A k \in D : Price(s, cost, k) <= m.cost

\* A cost is that of the node before and of an edge from there.
Traced(g, s, D, cost, came) ==
  \A k \in TrackNode \ {s} : cost[k] # NoPath =>
    /\ came[k] \in D
    /\ \E d \in Edges(g[came[k]]) :
         /\ g[came[k]].edge[d].dest = k
         /\ cost[k] = Price(s, cost, came[k]) + g[came[k]].edge[d].dist

\* No edge of an expanded node improves a cost, but those that are left.
Relaxed(g, s, D, cost, left) ==
  \A k \in D : \A d \in Edges(g[k]) :
    \/ <<k, d>> \in left
    \/ /\ cost[g[k].edge[d].dest] < NoPath
       /\ cost[g[k].edge[d].dest] <= Price(s, cost, k) + g[k].edge[d].dist

Search(g, s, D, cost, came, bag, left) ==
  /\ Tabled(s, D, cost, came) /\ Pending(g, s, D, cost, bag)
  /\ Traced(g, s, D, cost, came) /\ Relaxed(g, s, D, cost, left)

\* Of the nodes that have been expanded n costs most, and its edges are within reach.
Leading(g, s, D, cost, n) ==
  /\ n \in D /\ Price(s, cost, n) \in Nat
  /\ \A k \in D : Price(s, cost, k) <= Price(s, cost, n)
  /\ \A d \in Edges(g[n]) : Price(s, cost, n) + g[n].edge[d].dist <= Far(g, D)

-----------------------------------------------------------------------------
\* The constants of the search are numbers, and NoPath is one below the range of costs.
LEMMA PathNumbers ==
  /\ OPEN_LENGTH \in Nat \ {0} /\ COST_RANGE \in Nat /\ NoWay \notin TrackNode
  /\ IsFiniteSet(TrackNode) /\ TrackNode \subseteq Nat /\ NoPath + 1 = COST_RANGE
<1>1. OPEN_LENGTH \in Nat \ {0} /\ COST_RANGE \in Nat
  BY PathAssumption
<1>2. TrackNode = 0 .. 143
  BY DEF TrackNode, TRACK_MAX
<1>3. IsFiniteSet(0 .. 143)
  <2>1. 0 \in Int /\ 143 \in Int
    OBVIOUS
  <2> QED BY <2>1, FS_Interval
<1>4. NoWay \notin TrackNode /\ TrackNode \subseteq Nat
  BY <1>2 DEF NoWay
<1> QED BY <1>1, <1>2, <1>3, <1>4 DEF NoPath

\* The heap of the search is one that the lemmas about heaps speak of.
LEMMA OpenNodes ==
  /\ Sized(OPEN_LENGTH, OpenNode)
  /\ \A k \in TrackNode, c \in Nat : /\ HEAP_NODE(k, c) \in OpenNode
                                     /\ HEAP_NODE(k, c).value = k /\ HEAP_NODE(k, c).cost = c
  /\ \A m \in OpenNode : /\ m.value \in TrackNode /\ m.cost \in Nat
                         /\ m = HEAP_NODE(m.value, m.cost)
<1>1. ASSUME NEW m \in OpenNode PROVE m # Vacant
  <2>1. m.value \in Nat
    BY PathNumbers DEF OpenNode
  <2>2. Vacant.value = -1
    BY DEF Vacant
  <2> QED BY <2>1, <2>2
<1>2. \A m \in OpenNode : m.cost \in Nat
  BY DEF OpenNode
<1>3. Sized(OPEN_LENGTH, OpenNode)
  BY <1>1, <1>2, PathNumbers DEF Sized
<1> QED BY <1>3 DEF OpenNode, HEAP_NODE

LEMMA BagsOfNodes ==
  ASSUME NEW open
  PROVE  BagOf(open) \in [OpenNode -> Nat]
<1>1. \A m \in OpenNode : Often(HeapSlot(OPEN_LENGTH), open.slot, m) \in Nat
  BY OpenNodes, OftenIs
<1> QED BY <1>1 DEF BagOf

\* The edges that a step of the search follows.
LEMMA EdgesOf ==
  ASSUME NEW node
  PROVE  /\ Edges(node) \subseteq {AHEAD, CURVED}
         /\ node.type # "branch" => CURVED \notin Edges(node)
         /\ Degree(node) = IF node.type = "branch" THEN 2 ELSE 1
BY DEF Edges, Degree, AHEAD, CURVED

-----------------------------------------------------------------------------
(* Costs are bounded by the track behind the nodes that are expanded.      *)

LEMMA UpTo ==
  ASSUME NEW n \in Nat
  PROVE  IsFiniteSet(1 .. n) /\ Cardinality(1 .. n) = n
<1>1. 1 \in Int /\ n \in Int
  OBVIOUS
<1>2. IsFiniteSet(1 .. n) /\ Cardinality(1 .. n) = IF 1 > n THEN 0 ELSE n - 1 + 1
  BY <1>1, FS_Interval
<1> QED BY <1>2

\* The millimetres behind a set of nodes can be counted.
LEMMA MillimetresFinite ==
  ASSUME NEW g, Searchable(g), NEW D \in SUBSET TrackNode
  PROVE  IsFiniteSet(Millimetres(g, D)) /\ Far(g, D) \in Nat
<1> DEFINE Part(n, d) == {n} \X (1 .. g[n].edge[d].dist)
           Parts == {Part(n, d) : n \in D, d \in {AHEAD, CURVED}}
           part == [p \in D \X {AHEAD, CURVED} |-> Part(p[1], p[2])]
<1>1. IsFiniteSet(D \X {AHEAD, CURVED})
  <2>1. IsFiniteSet(D)
    BY PathNumbers, FS_Subset
  <2>2. IsFiniteSet({AHEAD, CURVED})
    <3>1. IsFiniteSet({AHEAD}) /\ IsFiniteSet({CURVED})
      BY FS_Singleton
    <3>2. {AHEAD, CURVED} = {AHEAD} \cup {CURVED}
      OBVIOUS
    <3> QED BY <3>1, <3>2, FS_Union
  <2> QED BY <2>1, <2>2, FS_Product
<1>2. IsFiniteSet(Parts)
  <2> HIDE DEF Part
  <2>1. part \in [D \X {AHEAD, CURVED} -> Parts]
    OBVIOUS
  <2>2. ASSUME NEW T \in Parts
        PROVE  \E p \in D \X {AHEAD, CURVED} : part[p] = T
    <3>1. PICK n \in D, d \in {AHEAD, CURVED} : T = Part(n, d)
      BY DEF Part
    <3>2. <<n, d>> \in D \X {AHEAD, CURVED} /\ part[<<n, d>>] = Part(n, d)
      OBVIOUS
    <3> QED BY <3>1, <3>2
  <2> HIDE DEF Parts, part
  <2>3. part \in Surjection(D \X {AHEAD, CURVED}, Parts)
    BY <2>1, <2>2, Fun_IsSurj
  <2> QED BY <1>1, <2>3, FS_Surjection
<1>3. ASSUME NEW n \in D, NEW d \in {AHEAD, CURVED}
      PROVE  IsFiniteSet(Part(n, d))
  <2>1. g[n].edge[d].dist \in Nat
    BY DEF Searchable
  <2>2. IsFiniteSet(1 .. g[n].edge[d].dist)
    BY <2>1, UpTo
  <2>3. IsFiniteSet({n})
    BY FS_Singleton
  <2> QED BY <2>2, <2>3, FS_Product
<1>4. \A T \in Parts : IsFiniteSet(T)
  <2> HIDE DEF Part
  <2> QED BY <1>3
<1>5. IsFiniteSet(UNION Parts)
  BY <1>2, <1>4, FS_UNION
<1>6. UNION Parts = Millimetres(g, D)
  BY DEF Millimetres
<1>7. IsFiniteSet(Millimetres(g, D))
  <2> HIDE DEF Parts
  <2> QED BY <1>5, <1>6
<1> QED BY <1>7, FS_CardinalityType DEF Far

\* No set of nodes lies farther than the whole graph, so that its costs are below NoPath.
LEMMA NotFarther ==
  ASSUME NEW g, Searchable(g), NEW D \in SUBSET TrackNode
  PROVE  \A n \in TrackNode, d \in {AHEAD, CURVED} : Far(g, D) + g[n].edge[d].dist < NoPath
<1>1. Millimetres(g, D) \subseteq Millimetres(g, TrackNode)
  BY DEF Millimetres
<1>2. IsFiniteSet(Millimetres(g, TrackNode)) /\ Far(g, TrackNode) \in Nat /\ Far(g, D) \in Nat
  BY MillimetresFinite
<1>3. Far(g, D) <= Far(g, TrackNode)
  BY <1>1, <1>2, FS_Subset DEF Far
<1> SUFFICES ASSUME NEW n \in TrackNode, NEW d \in {AHEAD, CURVED}
             PROVE  Far(g, D) + g[n].edge[d].dist < NoPath
  OBVIOUS
<1>4. Far(g, TrackNode) + g[n].edge[d].dist < NoPath /\ g[n].edge[d].dist \in Nat
  BY DEF Searchable, Far
<1> QED BY <1>2, <1>3, <1>4, PathNumbers DEF NoPath

\* A node that is expanded adds each of its edges to what a cost can be.
LEMMA FartherByOne ==
  ASSUME NEW g, Searchable(g), NEW D \in SUBSET TrackNode, NEW n \in TrackNode \ D
  PROVE  /\ Far(g, D) <= Far(g, D \cup {n})
         /\ \A d \in {AHEAD, CURVED} : Far(g, D) + g[n].edge[d].dist <= Far(g, D \cup {n})
<1>1. D \cup {n} \in SUBSET TrackNode
  OBVIOUS
<1>2. /\ IsFiniteSet(Millimetres(g, D)) /\ Far(g, D) \in Nat
      /\ IsFiniteSet(Millimetres(g, D \cup {n})) /\ Far(g, D \cup {n}) \in Nat
  BY <1>1, MillimetresFinite
<1>3. ASSUME NEW d \in {AHEAD, CURVED}
      PROVE  Far(g, D) + g[n].edge[d].dist <= Far(g, D \cup {n})
  <2> DEFINE dist == g[n].edge[d].dist
             New == {n} \X (1 .. dist)
  <2>1. dist \in Nat
    BY DEF Searchable
  <2>2. IsFiniteSet(New) /\ Cardinality(New) = dist
    <3>1. IsFiniteSet({n}) /\ Cardinality({n}) = 1
      BY FS_Singleton
    <3>2. IsFiniteSet(1 .. dist) /\ Cardinality(1 .. dist) = dist
      BY <2>1, UpTo
    <3>3. IsFiniteSet(New) /\ Cardinality(New) = Cardinality({n}) * Cardinality(1 .. dist)
      BY <3>1, <3>2, FS_Product
    <3> QED BY <2>1, <3>1, <3>2, <3>3
  <2>3. New \cap Millimetres(g, D) = {}
    BY DEF Millimetres
  <2>4. New \cup Millimetres(g, D) \subseteq Millimetres(g, D \cup {n})
    <3> DEFINE Parts == {{k} \X (1 .. g[k].edge[e].dist) : k \in D \cup {n}, e \in {AHEAD, CURVED}}
    <3>1. New \in Parts /\ UNION Parts = Millimetres(g, D \cup {n})
      BY DEF Millimetres
    <3>2. New \subseteq Millimetres(g, D \cup {n})
      <4> HIDE DEF Parts, New
      <4> QED BY <3>1
    <3>3. Millimetres(g, D) \subseteq Millimetres(g, D \cup {n})
      BY DEF Millimetres
    <3> QED BY <3>2, <3>3
  <2>5. Cardinality(New \cup Millimetres(g, D)) = dist + Far(g, D)
    <3> HIDE DEF New, dist
    <3>1. Cardinality(New \cup Millimetres(g, D))
            = Cardinality(New) + Cardinality(Millimetres(g, D))
                - Cardinality(New \cap Millimetres(g, D))
      BY <1>2, <2>2, FS_Union
    <3>2. Cardinality(New \cap Millimetres(g, D)) = 0
      BY <2>3, FS_EmptySet
    <3> QED BY <1>2, <2>1, <2>2, <3>1, <3>2 DEF Far
  <2>6. Cardinality(New \cup Millimetres(g, D)) <= Far(g, D \cup {n})
    BY <1>2, <2>4, FS_Subset DEF Far
  <2> QED BY <1>2, <2>1, <2>5, <2>6
<1>4. Far(g, D) <= Far(g, D \cup {n})
  <2>1. Millimetres(g, D) \subseteq Millimetres(g, D \cup {n})
    BY DEF Millimetres
  <2> QED BY <1>2, <2>1, FS_Subset DEF Far
<1> QED BY <1>3, <1>4

-----------------------------------------------------------------------------
(* A node is taken from the heap.                                          *)

\* From what is in the heap, m is taken, one of the cheapest, and the rest is left.
TakesFirst(bag, m, rest) ==
  /\ m \in OpenNode /\ bag[m] > 0 /\ \A x \in OpenNode : bag[x] > 0 => m.cost <= x.cost
  /\ rest \in [OpenNode -> Nat] /\ \A x \in OpenNode : rest[x] = bag[x] - One(x = m)

\* The first of the heap has been expanded before, or waits under its cost.
LEMMA FirstWaits ==
  ASSUME NEW g, NEW s, NEW D, NEW cost, NEW bag,
         s \in TrackNode, D \in SUBSET TrackNode, cost \in [TrackNode -> Nat],
         Pending(g, s, D, cost, bag),
         NEW m \in OpenNode, bag[m] > 0, \A x \in OpenNode : bag[x] > 0 => m.cost <= x.cost,
         m.value \notin D
  PROVE  m.cost = Price(s, cost, m.value) /\ m = HEAP_NODE(m.value, Price(s, cost, m.value))
<1> DEFINE k == m.value
           due == Price(s, cost, k)
<1>1. k \in TrackNode /\ m.cost \in Nat /\ m = HEAP_NODE(k, m.cost)
  BY OpenNodes
<1>2. due \in Nat
  BY <1>1 DEF Price
<1>3. Known(s, cost, k) /\ due <= m.cost
  BY DEF Pending
<1>4. bag[HEAP_NODE(k, due)] = 1 /\ HEAP_NODE(k, due) \in OpenNode /\ HEAP_NODE(k, due).cost = due
  BY <1>1, <1>2, <1>3, OpenNodes DEF Pending
<1>5. m.cost <= due
  BY <1>4
<1>6. m.cost = due
  BY <1>1, <1>2, <1>3, <1>5
<1> QED BY <1>1, <1>6

\* A node that has been expanded is taken again: all edges lead to nodes that cost no more.
LEMMA TakenAgain ==
  ASSUME NEW g, Searchable(g), NEW s, NEW D, NEW cost, NEW came, NEW bag,
         Search(g, s, D, cost, came, bag, {}),
         NEW m, NEW rest, TakesFirst(bag, m, rest), m.value \in D
  PROVE  /\ Search(g, s, D, cost, came, rest, {})
         /\ \A d \in Edges(g[m.value]) :
              /\ m.cost + g[m.value].edge[d].dist < NoPath
              /\ cost[g[m.value].edge[d].dest] <= m.cost + g[m.value].edge[d].dist
<1>1. /\ Tabled(s, D, cost, came) /\ Pending(g, s, D, cost, bag)
      /\ Traced(g, s, D, cost, came) /\ Relaxed(g, s, D, cost, {})
  BY DEF Search
<1> USE DEF TakesFirst
<1>2. s \in TrackNode /\ D \in SUBSET TrackNode /\ cost \in [TrackNode -> Nat]
  BY <1>1 DEF Tabled
<1>3. bag \in [OpenNode -> Nat] /\ \A x \in OpenNode : rest[x] > 0 => bag[x] > 0
  <2>1. bag \in [OpenNode -> Nat]
    BY <1>1 DEF Pending
  <2> QED BY <2>1 DEF One
<1>4. Pending(g, s, D, cost, rest)
  <2>1. ASSUME NEW k \in TrackNode, Known(s, cost, k)
        PROVE  rest[HEAP_NODE(k, Price(s, cost, k))] = IF k \in D THEN 0 ELSE 1
    <3> DEFINE x == HEAP_NODE(k, Price(s, cost, k))
    <3>1. bag[x] = IF k \in D THEN 0 ELSE 1
      BY <1>1, <2>1 DEF Pending
    <3>2. Price(s, cost, k) \in Nat
      BY <1>2 DEF Price
    <3>3. x \in OpenNode /\ x.value = k
      BY <3>2, OpenNodes
    <3>4. x # m
      BY <3>1, <3>3
    <3> QED BY <1>3, <3>1, <3>3, <3>4 DEF One
  <2>2. \A x \in OpenNode : rest[x] > 0 =>
          /\ Known(s, cost, x.value) /\ Price(s, cost, x.value) <= x.cost
          /\ x.cost <= Far(g, D)
          /\ \A k \in D : Price(s, cost, k) <= x.cost
    BY <1>1, <1>3 DEF Pending
  <2> QED BY <2>1, <2>2 DEF Pending
<1>5. Search(g, s, D, cost, came, rest, {})
  BY <1>1, <1>4 DEF Search
<1>6. ASSUME NEW d \in Edges(g[m.value])
      PROVE  /\ m.cost + g[m.value].edge[d].dist < NoPath
             /\ cost[g[m.value].edge[d].dest] <= m.cost + g[m.value].edge[d].dist
  <2> DEFINE k == m.value
             dist == g[k].edge[d].dist
             dest == g[k].edge[d].dest
  <2>1. d \in {AHEAD, CURVED} /\ k \in TrackNode /\ m.cost \in Nat
    BY <1>2, EdgesOf, OpenNodes
  <2>2. dist \in Nat /\ dest \in TrackNode
    BY <2>1 DEF Searchable
  <2>3. m.cost <= Far(g, D) /\ Price(s, cost, k) <= m.cost /\ Price(s, cost, k) \in Nat
    BY <1>1, <1>2, <2>1 DEF Pending, Price
  <2>4. Far(g, D) + dist < NoPath /\ Far(g, D) \in Nat
    BY <1>2, <2>1, NotFarther, MillimetresFinite
  <2>5. cost[dest] <= Price(s, cost, k) + dist /\ cost[dest] \in Nat
    BY <1>1, <1>2, <2>2 DEF Relaxed
  <2> HIDE DEF k, dist, dest
  <2>6. m.cost + dist < NoPath
    BY <2>1, <2>2, <2>3, <2>4, PathNumbers DEF NoPath
  <2>7. cost[dest] <= m.cost + dist
    BY <2>1, <2>2, <2>3, <2>5
  <2> QED BY <2>6, <2>7 DEF k, dist, dest
<1> QED BY <1>5, <1>6

\* A node is expanded: both its edges are left.
LEMMA Taken ==
  ASSUME NEW g, Searchable(g), NEW s, NEW D, NEW cost, NEW came, NEW bag,
         Search(g, s, D, cost, came, bag, {}),
         NEW m, NEW rest, TakesFirst(bag, m, rest), m.value \notin D
  PROVE  /\ m.cost = Price(s, cost, m.value)
         /\ Search(g, s, D \cup {m.value}, cost, came, rest, {m.value} \X {AHEAD, CURVED})
         /\ Leading(g, s, D \cup {m.value}, cost, m.value)
<1> DEFINE n == m.value
           E == D \cup {n}
<1>1. /\ Tabled(s, D, cost, came) /\ Pending(g, s, D, cost, bag)
      /\ Traced(g, s, D, cost, came) /\ Relaxed(g, s, D, cost, {})
  BY DEF Search
<1> USE DEF TakesFirst
<1>2. /\ s \in TrackNode /\ D \in SUBSET TrackNode /\ cost \in [TrackNode -> Nat]
      /\ bag \in [OpenNode -> Nat]
  BY <1>1 DEF Tabled, Pending
<1>3. n \in TrackNode \ D /\ E \in SUBSET TrackNode
  BY <1>2, OpenNodes
<1>4. m.cost = Price(s, cost, n) /\ m = HEAP_NODE(n, Price(s, cost, n)) /\ m.cost \in Nat
  <2>1. m.cost = Price(s, cost, m.value) /\ m = HEAP_NODE(m.value, Price(s, cost, m.value))
    BY <1>1, <1>2, FirstWaits
  <2> QED BY <2>1, OpenNodes
<1>5. Known(s, cost, n) /\ bag[m] = 1 /\ m.cost <= Far(g, D)
  BY <1>1, <1>3, <1>4 DEF Pending
<1>6. \A k \in D : Price(s, cost, k) <= m.cost
  BY <1>1 DEF Pending
<1>7. Far(g, D) \in Nat /\ Far(g, E) \in Nat /\ Far(g, D) <= Far(g, E)
  BY <1>2, <1>3, MillimetresFinite, FartherByOne
<1>8. Tabled(s, E, cost, came)
  BY <1>1, <1>3, <1>5 DEF Tabled
<1>9. Pending(g, s, E, cost, rest)
  <2>1. ASSUME NEW k \in TrackNode, Known(s, cost, k)
        PROVE  rest[HEAP_NODE(k, Price(s, cost, k))] = IF k \in E THEN 0 ELSE 1
    <3> DEFINE x == HEAP_NODE(k, Price(s, cost, k))
    <3>1. bag[x] = IF k \in D THEN 0 ELSE 1
      BY <1>1, <2>1 DEF Pending
    <3>2. Price(s, cost, k) \in Nat
      BY <1>2 DEF Price
    <3>3. x \in OpenNode /\ x.value = k
      BY <3>2, OpenNodes
    <3>4. rest[x] = bag[x] - One(x = m)
      BY <3>3
    <3>5. CASE k = n
      BY <1>3, <1>4, <3>1, <3>4, <3>5 DEF One
    <3>6. CASE k # n
      <4>1. x # m
        BY <3>3, <3>6
      <4> QED BY <3>1, <3>4, <3>6, <4>1 DEF One
    <3> QED BY <3>5, <3>6
  <2>2. ASSUME NEW x \in OpenNode, rest[x] > 0
        PROVE  /\ Known(s, cost, x.value) /\ Price(s, cost, x.value) <= x.cost
               /\ x.cost <= Far(g, E)
               /\ \A k \in E : Price(s, cost, k) <= x.cost
    <3>1. bag[x] > 0
      BY <1>2, <2>2 DEF One
    <3>2. /\ Known(s, cost, x.value) /\ Price(s, cost, x.value) <= x.cost
          /\ x.cost <= Far(g, D) /\ \A k \in D : Price(s, cost, k) <= x.cost
      BY <1>1, <3>1 DEF Pending
    <3>3. Price(s, cost, n) <= x.cost
      BY <1>4, <3>1
    <3>4. x.cost <= Far(g, E)
      <4>1. x.cost \in Nat
        BY OpenNodes
      <4> QED BY <1>7, <3>2, <4>1
    <3> QED BY <3>2, <3>3, <3>4
  <2> QED BY <2>1, <2>2 DEF Pending
<1>10. Traced(g, s, E, cost, came)
  BY <1>1 DEF Traced
<1>11. Relaxed(g, s, E, cost, {n} \X {AHEAD, CURVED})
  <2> SUFFICES ASSUME NEW k \in E, NEW d \in Edges(g[k]), <<k, d>> \notin {n} \X {AHEAD, CURVED}
               PROVE  /\ cost[g[k].edge[d].dest] < NoPath
                      /\ cost[g[k].edge[d].dest] <= Price(s, cost, k) + g[k].edge[d].dist
    BY DEF Relaxed
  <2>1. k \in D
    BY EdgesOf
  <2> QED BY <1>1, <2>1 DEF Relaxed
<1>12. Leading(g, s, E, cost, n)
  <2>1. \A k \in E : Price(s, cost, k) <= Price(s, cost, n)
    BY <1>4, <1>6
  <2>2. ASSUME NEW d \in Edges(g[n])
        PROVE  Price(s, cost, n) + g[n].edge[d].dist <= Far(g, E)
    <3>1. d \in {AHEAD, CURVED}
      BY EdgesOf
    <3>2. Far(g, D) + g[n].edge[d].dist <= Far(g, E)
      BY <1>2, <1>3, <3>1, FartherByOne
    <3>3. g[n].edge[d].dist \in Nat
      BY <1>3, <3>1 DEF Searchable
    <3> QED BY <1>4, <1>5, <1>7, <3>2, <3>3
  <2> QED BY <1>4, <2>1, <2>2 DEF Leading
<1> QED BY <1>4, <1>8, <1>9, <1>10, <1>11, <1>12 DEF Search

-----------------------------------------------------------------------------
(* An edge of the node that has been taken is followed.                    *)

\* It does not lead on, or to a node that costs no more.
LEMMA EdgeWorse ==
  ASSUME NEW g, Searchable(g), NEW s, NEW D, NEW cost, NEW came, NEW bag, NEW left,
         Search(g, s, D, cost, came, bag, left), NEW n, Leading(g, s, D, cost, n), NEW d,
         d \in Edges(g[n]) => cost[g[n].edge[d].dest] <= Price(s, cost, n) + g[n].edge[d].dist
  PROVE  Search(g, s, D, cost, came, bag, left \ {<<n, d>>})
<1>1. /\ Tabled(s, D, cost, came) /\ Pending(g, s, D, cost, bag)
      /\ Traced(g, s, D, cost, came) /\ Relaxed(g, s, D, cost, left)
  BY DEF Search
<1>2. n \in D /\ n \in TrackNode /\ D \in SUBSET TrackNode /\ cost \in [TrackNode -> Nat]
  BY <1>1 DEF Tabled, Leading
<1>3. ASSUME d \in Edges(g[n]) PROVE cost[g[n].edge[d].dest] < NoPath
  <2>1. d \in {AHEAD, CURVED}
    BY <1>3, EdgesOf
  <2>2. g[n].edge[d].dist \in Nat /\ g[n].edge[d].dest \in TrackNode
    BY <1>2, <1>3, <2>1 DEF Searchable
  <2>3. Pending(g, s, D, cost, bag) /\ Price(s, cost, n) + g[n].edge[d].dist <= Far(g, D)
    BY <1>1, <1>3 DEF Leading
  <2>4. Far(g, D) + g[n].edge[d].dist < NoPath /\ Far(g, D) \in Nat
    BY <1>2, <2>1, NotFarther, MillimetresFinite
  <2>5. cost[g[n].edge[d].dest] \in Nat /\ Price(s, cost, n) \in Nat
    BY <1>2, <2>2 DEF Leading
  <2> QED BY <1>3, <2>2, <2>3, <2>4, <2>5, PathNumbers DEF NoPath
<1>4. Relaxed(g, s, D, cost, left \ {<<n, d>>})
  <2> SUFFICES ASSUME NEW k \in D, NEW e \in Edges(g[k]), <<k, e>> \notin left \ {<<n, d>>}
               PROVE  /\ cost[g[k].edge[e].dest] < NoPath
                      /\ cost[g[k].edge[e].dest] <= Price(s, cost, k) + g[k].edge[e].dist
    BY DEF Relaxed
  <2>1. CASE <<k, e>> = <<n, d>>
    BY <1>3, <2>1
  <2>2. CASE <<k, e>> # <<n, d>>
    BY <1>1, <2>2 DEF Relaxed
  <2> QED BY <2>1, <2>2
<1> QED BY <1>1, <1>4 DEF Search

\* It leads to a node that costs more, and has not been expanded, or to the start.
LEMMA EdgeBetter ==
  ASSUME NEW g, Searchable(g), NEW s, NEW D, NEW cost, NEW came, NEW bag, NEW left,
         Search(g, s, D, cost, came, bag, left), NEW n, Leading(g, s, D, cost, n),
         NEW d \in Edges(g[n]), NEW dest, dest = g[n].edge[d].dest,
         NEW less, less = Price(s, cost, n) + g[n].edge[d].dist, cost[dest] > less,
         NEW more, more \in [OpenNode -> Nat],
         \A x \in OpenNode : more[x] = bag[x] + One(x = HEAP_NODE(dest, less))
  PROVE  /\ Search(g, s, D, [cost EXCEPT ![dest] = less], [came EXCEPT ![dest] = n], more,
                   left \ {<<n, d>>})
         /\ Leading(g, s, D, [cost EXCEPT ![dest] = less], n)
         /\ Price(s, [cost EXCEPT ![dest] = less], n) = Price(s, cost, n)
<1> DEFINE fall == [cost EXCEPT ![dest] = less]
           from == [came EXCEPT ![dest] = n]
           new  == HEAP_NODE(dest, less)
<1>1. /\ Tabled(s, D, cost, came) /\ Pending(g, s, D, cost, bag)
      /\ Traced(g, s, D, cost, came) /\ Relaxed(g, s, D, cost, left)
  BY DEF Search
<1>2. /\ s \in TrackNode /\ D \in SUBSET TrackNode /\ cost \in [TrackNode -> Nat]
      /\ came \in [TrackNode -> TrackNode \cup {NoWay}]
      /\ \A k \in TrackNode : cost[k] = NoPath <=> came[k] = NoWay
      /\ \A k \in D : Known(s, cost, k)
      /\ bag \in [OpenNode -> Nat] /\ n \in D /\ n \in TrackNode
  BY <1>1 DEF Tabled, Pending, Leading
<1>3. d \in {AHEAD, CURVED} /\ dest \in TrackNode /\ g[n].edge[d].dist \in Nat \ {0}
  <2>1. d \in {AHEAD, CURVED}
    BY EdgesOf
  <2> QED BY <1>2, <2>1 DEF Searchable
<1>4. /\ Price(s, cost, n) \in Nat /\ less \in Nat /\ Price(s, cost, n) < less
      /\ less <= Far(g, D) /\ less < NoPath
  <2>1. Price(s, cost, n) \in Nat /\ less <= Far(g, D)
    BY DEF Leading
  <2>2. Far(g, D) + g[n].edge[d].dist < NoPath /\ Far(g, D) \in Nat
    BY <1>2, <1>3, NotFarther, MillimetresFinite
  <2> QED BY <1>3, <2>1, <2>2, PathNumbers DEF NoPath
<1>5. \A k \in D : Price(s, cost, k) \in Nat /\ Price(s, cost, k) < less
  <2> SUFFICES ASSUME NEW k \in D
               PROVE  Price(s, cost, k) \in Nat /\ Price(s, cost, k) < less
    OBVIOUS
  <2>1. Price(s, cost, k) \in Nat
    BY <1>2 DEF Price
  <2>2. Price(s, cost, k) <= Price(s, cost, n)
    BY DEF Leading
  <2> QED BY <1>4, <2>1, <2>2
<1>6. dest \notin D \/ dest = s
  <2> SUFFICES ASSUME dest \in D, dest # s PROVE FALSE
    OBVIOUS
  <2>1. Price(s, cost, dest) = cost[dest] /\ cost[dest] \in Nat
    BY <1>2, <1>3 DEF Price
  <2> QED BY <1>4, <1>5, <2>1
<1>7. /\ fall \in [TrackNode -> Nat] /\ from \in [TrackNode -> TrackNode \cup {NoWay}]
      /\ fall[dest] = less /\ from[dest] = n
      /\ \A k \in TrackNode \ {dest} : fall[k] = cost[k] /\ from[k] = came[k]
      /\ \A k \in TrackNode : fall[k] <= cost[k]
  BY <1>2, <1>3, <1>4
<1>8. less # NoPath /\ n # NoWay
  BY <1>2, <1>4, PathNumbers DEF NoPath
<1> HIDE DEF fall, from
<1>9. \A k \in TrackNode : Known(s, cost, k) => Known(s, fall, k)
  BY <1>7, <1>8 DEF Known
<1>10. \A k \in D : Price(s, fall, k) = Price(s, cost, k)
  BY <1>2, <1>6, <1>7 DEF Price
<1>11. Known(s, fall, dest)
  BY <1>7, <1>8 DEF Known
<1>12. \A k \in TrackNode : /\ Price(s, fall, k) \in Nat /\ Price(s, cost, k) \in Nat
                            /\ Price(s, fall, k) <= Price(s, cost, k)
  BY <1>2, <1>7 DEF Price
<1>13. Tabled(s, D, fall, from)
  <2>1. \A k \in TrackNode : fall[k] = NoPath <=> from[k] = NoWay
    BY <1>2, <1>7, <1>8
  <2>2. \A k \in D : Known(s, fall, k)
    BY <1>2, <1>9
  <2> QED BY <1>2, <1>7, <2>1, <2>2 DEF Tabled
<1>14. new \in OpenNode /\ new.value = dest /\ new.cost = less
  BY <1>3, <1>4, OpenNodes
<1>15. Pending(g, s, D, fall, more)
  <2>1. ASSUME NEW k \in TrackNode, Known(s, fall, k)
        PROVE  more[HEAP_NODE(k, Price(s, fall, k))] = IF k \in D THEN 0 ELSE 1
    <3> DEFINE x == HEAP_NODE(k, Price(s, fall, k))
    <3>1. x \in OpenNode /\ x.value = k /\ x.cost = Price(s, fall, k)
      BY <1>12, OpenNodes
    <3>2. more[x] = bag[x] + One(x = new) /\ bag[x] \in Nat
      BY <1>2, <3>1
    <3>3. CASE k = dest /\ k # s
      <4>1. Price(s, fall, k) = less /\ x = new /\ k \notin D
        BY <1>6, <1>7, <3>3 DEF Price
      <4>2. ~ (bag[new] > 0)
        <5> SUFFICES ASSUME bag[new] > 0 PROVE FALSE
          OBVIOUS
        <5>1. Price(s, cost, dest) <= less
          BY <1>1, <1>14 DEF Pending
        <5>2. Price(s, cost, dest) = cost[dest] /\ cost[dest] \in Nat
          BY <1>2, <1>3, <3>3 DEF Price
        <5> QED BY <1>4, <5>1, <5>2
      <4> QED BY <3>2, <4>1, <4>2 DEF One
    <3>4. CASE k # dest \/ k = s
      <4>1. Price(s, fall, k) = Price(s, cost, k) /\ Known(s, cost, k)
        BY <1>7, <2>1, <3>4 DEF Price, Known
      <4>2. bag[x] = IF k \in D THEN 0 ELSE 1
        BY <1>1, <4>1 DEF Pending
      <4>3. x # new
        <5>1. CASE k # dest
          BY <1>14, <3>1, <5>1
        <5>2. CASE k = s
          <6>1. Price(s, fall, k) = 0
            BY <5>2 DEF Price
          <6> QED BY <1>4, <1>14, <3>1, <6>1
        <5> QED BY <3>4, <5>1, <5>2
      <4> QED BY <3>2, <4>2, <4>3 DEF One
    <3> QED BY <3>3, <3>4
  <2>2. ASSUME NEW x \in OpenNode, more[x] > 0
        PROVE  /\ Known(s, fall, x.value) /\ Price(s, fall, x.value) <= x.cost
               /\ x.cost <= Far(g, D)
               /\ \A k \in D : Price(s, fall, k) <= x.cost
    <3>1. CASE x = new
      <4>1. Price(s, fall, dest) <= less
        BY <1>4, <1>7 DEF Price
      <4>2. \A k \in D : Price(s, fall, k) <= less
        BY <1>4, <1>5, <1>10
      <4> QED BY <1>4, <1>11, <1>14, <3>1, <4>1, <4>2
    <3>2. CASE x # new
      <4>1. bag[x] > 0
        BY <1>2, <2>2, <3>2 DEF One
      <4>2. /\ Known(s, cost, x.value) /\ Price(s, cost, x.value) <= x.cost
            /\ x.cost <= Far(g, D) /\ \A k \in D : Price(s, cost, k) <= x.cost
        BY <1>1, <4>1 DEF Pending
      <4>3. x.value \in TrackNode /\ x.cost \in Nat
        BY OpenNodes
      <4>4. Price(s, fall, x.value) <= x.cost
        BY <1>12, <4>2, <4>3
      <4> QED BY <1>9, <1>10, <4>2, <4>3, <4>4
    <3> QED BY <3>1, <3>2
  <2> QED BY <2>1, <2>2 DEF Pending
<1>16. Traced(g, s, D, fall, from)
  <2> SUFFICES ASSUME NEW k \in TrackNode \ {s}, fall[k] # NoPath
               PROVE  /\ from[k] \in D
                      /\ \E e \in Edges(g[from[k]]) :
                           /\ g[from[k]].edge[e].dest = k
                           /\ fall[k] = Price(s, fall, from[k]) + g[from[k]].edge[e].dist
    BY DEF Traced
  <2>1. CASE k = dest
    <3>1. from[k] = n /\ fall[k] = less /\ Price(s, fall, n) = Price(s, cost, n)
      BY <1>2, <1>7, <1>10, <2>1
    <3>2. g[n].edge[d].dest = k /\ fall[k] = Price(s, fall, n) + g[n].edge[d].dist
      BY <2>1, <3>1
    <3> QED BY <1>2, <3>1, <3>2
  <2>2. CASE k # dest
    <3>1. fall[k] = cost[k] /\ from[k] = came[k]
      BY <1>7, <2>2
    <3>2. came[k] \in D /\ \E e \in Edges(g[came[k]]) :
             /\ g[came[k]].edge[e].dest = k
             /\ cost[k] = Price(s, cost, came[k]) + g[came[k]].edge[e].dist
      BY <1>1, <3>1 DEF Traced
    <3> QED BY <1>10, <3>1, <3>2
  <2> QED BY <2>1, <2>2
<1>17. Relaxed(g, s, D, fall, left \ {<<n, d>>})
  <2> SUFFICES ASSUME NEW k \in D, NEW e \in Edges(g[k]), <<k, e>> \notin left \ {<<n, d>>}
               PROVE  /\ fall[g[k].edge[e].dest] < NoPath
                      /\ fall[g[k].edge[e].dest] <= Price(s, fall, k) + g[k].edge[e].dist
    BY DEF Relaxed
  <2>1. CASE <<k, e>> = <<n, d>>
    <3>1. Price(s, fall, n) = Price(s, cost, n)
      BY <1>2, <1>10
    <3> QED BY <1>4, <1>7, <2>1, <3>1
  <2>2. CASE <<k, e>> # <<n, d>>
    <3> DEFINE to == g[k].edge[e].dest
               dist == g[k].edge[e].dist
    <3>1. e \in {AHEAD, CURVED} /\ k \in TrackNode
      BY <1>2, EdgesOf
    <3>2. to \in TrackNode /\ dist \in Nat
      BY <3>1 DEF Searchable
    <3>3. cost[to] < NoPath /\ cost[to] <= Price(s, cost, k) + dist
      BY <1>1, <2>2 DEF Relaxed
    <3>4. fall[to] <= cost[to] /\ fall[to] \in Nat /\ cost[to] \in Nat
      BY <1>2, <1>7, <3>2
    <3>5. Price(s, fall, k) = Price(s, cost, k) /\ Price(s, cost, k) \in Nat
      BY <1>10, <1>12, <3>1
    <3> HIDE DEF to, dist
    <3>6. fall[to] < NoPath /\ fall[to] <= Price(s, fall, k) + dist
      BY <3>2, <3>3, <3>4, <3>5, PathNumbers DEF NoPath
    <3> QED BY <3>6 DEF to, dist
  <2> QED BY <2>1, <2>2
<1>18. Leading(g, s, D, fall, n) /\ Price(s, fall, n) = Price(s, cost, n)
  BY <1>2, <1>10 DEF Leading
<1> QED BY <1>13, <1>15, <1>16, <1>17, <1>18 DEF Search, fall, from

-----------------------------------------------------------------------------
(* The heap has room.                                                      *)

\* With more nodes to come, the heap holds no more than one, and one for each branch that has
\* been expanded.
Opened(g, D, open, more) ==
  /\ HeapHolds(OPEN_LENGTH, OpenNode, open.slot, open.free)
  /\ OPEN_LENGTH - Len(open.free) + more <= 1 + Cardinality(BranchesOf(g, D))

\* Only a branch that is expanded needs one more slot than it gave.
LEMMA BranchesCount ==
  ASSUME NEW g, NEW D \in SUBSET TrackNode
  PROVE  /\ IsFiniteSet(BranchesOf(g, D)) /\ Cardinality(BranchesOf(g, D)) \in Nat
         /\ Searchable(g) => Cardinality(BranchesOf(g, D)) < OPEN_LENGTH
         /\ \A n \in TrackNode \ D : Cardinality(BranchesOf(g, D \cup {n}))
                                       = Cardinality(BranchesOf(g, D)) + Degree(g[n]) - 1
<1>1. IsFiniteSet(BranchesOf(g, TrackNode))
  BY PathNumbers, FS_Subset DEF BranchesOf
<1>2. BranchesOf(g, D) \subseteq BranchesOf(g, TrackNode)
  BY DEF BranchesOf
<1>3. /\ IsFiniteSet(BranchesOf(g, D)) /\ Cardinality(BranchesOf(g, D)) \in Nat
      /\ Cardinality(BranchesOf(g, TrackNode)) \in Nat
      /\ Cardinality(BranchesOf(g, D)) <= Cardinality(BranchesOf(g, TrackNode))
  BY <1>1, <1>2, FS_Subset, FS_CardinalityType
<1>4. Searchable(g) => Cardinality(BranchesOf(g, D)) < OPEN_LENGTH
  <2> SUFFICES ASSUME Searchable(g) PROVE Cardinality(BranchesOf(g, D)) < OPEN_LENGTH
    OBVIOUS
  <2>1. Cardinality(BranchesOf(g, TrackNode)) < OPEN_LENGTH
    BY DEF Searchable
  <2> QED BY <1>3, <2>1, PathNumbers
<1>5. ASSUME NEW n \in TrackNode \ D
      PROVE  Cardinality(BranchesOf(g, D \cup {n}))
               = Cardinality(BranchesOf(g, D)) + Degree(g[n]) - 1
  <2>1. CASE g[n].type = "branch"
    <3>1. BranchesOf(g, D \cup {n}) = BranchesOf(g, D) \cup {n} /\ n \notin BranchesOf(g, D)
      BY <2>1 DEF BranchesOf
    <3>2. Cardinality(BranchesOf(g, D) \cup {n}) = Cardinality(BranchesOf(g, D)) + 1
      BY <1>3, <3>1, FS_AddElement
    <3>3. Degree(g[n]) = 2
      BY <2>1 DEF Degree
    <3> QED BY <1>3, <3>1, <3>2, <3>3
  <2>2. CASE g[n].type # "branch"
    <3>1. BranchesOf(g, D \cup {n}) = BranchesOf(g, D)
      BY <2>2 DEF BranchesOf
    <3>2. Degree(g[n]) = 1
      BY <2>2 DEF Degree
    <3> QED BY <1>3, <3>1, <3>2
  <2> QED BY <2>1, <2>2
<1> QED BY <1>3, <1>4, <1>5

\* What a pop does to the nodes that wait.
LEMMA OpenPopped ==
  ASSUME NEW g, NEW D, NEW open, Opened(g, D, open, 0), D \in SUBSET TrackNode, ~ HeapEmpty(open)
  PROVE  /\ TakesFirst(BagOf(open), HeapFirst(open), BagOf(HeapPop(open)))
         /\ HeapHolds(OPEN_LENGTH, OpenNode, HeapPop(open).slot, HeapPop(open).free)
         /\ OPEN_LENGTH - Len(HeapPop(open).free) \in Int
         /\ OPEN_LENGTH - Len(HeapPop(open).free) <= Cardinality(BranchesOf(g, D))
<1> DEFINE m == HeapFirst(open)
<1>1. HeapHolds(OPEN_LENGTH, OpenNode, open.slot, open.free)
  BY DEF Opened
<1>2. /\ m \in OpenNode
      /\ \A i \in HeapSlot(OPEN_LENGTH) : open.slot[i] # Vacant => m.cost <= open.slot[i].cost
      /\ Often(HeapSlot(OPEN_LENGTH), open.slot, m) > 0
      /\ HeapHolds(OPEN_LENGTH, OpenNode, HeapPop(open).slot, HeapPop(open).free)
      /\ Len(HeapPop(open).free) = Len(open.free) + 1 /\ Len(open.free) \in Nat
      /\ \A x \in OpenNode : Often(HeapSlot(OPEN_LENGTH), HeapPop(open).slot, x)
                               = Often(HeapSlot(OPEN_LENGTH), open.slot, x) - One(x = m)
  BY <1>1, OpenNodes, HeapPopped
<1> HIDE DEF m
<1>3. ASSUME NEW x \in OpenNode, BagOf(open)[x] > 0 PROVE m.cost <= x.cost
  <2>1. Often(HeapSlot(OPEN_LENGTH), open.slot, x) > 0
    BY <1>3 DEF BagOf
  <2>2. PICK i \in HeapSlot(OPEN_LENGTH) : open.slot[i] = x
    BY <2>1, OpenNodes, OftenIs
  <2>3. open.slot[i] # Vacant
    BY <2>2, OpenNodes, HeapNodes
  <2> QED BY <1>2, <2>2, <2>3
<1>4. BagOf(open)[m] > 0
  BY <1>2 DEF BagOf
<1>5. \A x \in OpenNode : BagOf(HeapPop(open))[x] = BagOf(open)[x] - One(x = m)
  BY <1>2 DEF BagOf
<1>6. /\ OPEN_LENGTH - Len(HeapPop(open).free) \in Int
      /\ OPEN_LENGTH - Len(HeapPop(open).free) <= Cardinality(BranchesOf(g, D))
  <2>1. OPEN_LENGTH - Len(open.free) + 0 <= 1 + Cardinality(BranchesOf(g, D))
    BY DEF Opened
  <2>2. PICK left \in Nat : Len(open.free) = left
    BY <1>2
  <2>3. PICK count \in Nat : Cardinality(BranchesOf(g, D)) = count
    BY BranchesCount
  <2>4. Len(HeapPop(open).free) = left + 1
    BY <1>2, <2>2
  <2> QED BY <2>1, <2>2, <2>3, <2>4, PathNumbers
<1> QED BY <1>2, <1>3, <1>4, <1>5, <1>6, BagsOfNodes DEF m, TakesFirst

\* What a push does to them.
LEMMA OpenPushed ==
  ASSUME NEW g, Searchable(g), NEW D, NEW open, NEW more \in Nat \ {0}, Opened(g, D, open, more),
         D \in SUBSET TrackNode, NEW node \in OpenNode
  PROVE  /\ ~ HeapFull(open) /\ Opened(g, D, HeapPush(open, node), more - 1)
         /\ BagOf(HeapPush(open, node)) \in [OpenNode -> Nat]
         /\ \A x \in OpenNode : BagOf(HeapPush(open, node))[x] = BagOf(open)[x] + One(x = node)
<1>1. /\ HeapHolds(OPEN_LENGTH, OpenNode, open.slot, open.free)
      /\ OPEN_LENGTH - Len(open.free) + more <= 1 + Cardinality(BranchesOf(g, D))
  BY DEF Opened
<1>2. PICK count \in Nat : Cardinality(BranchesOf(g, D)) = count /\ count < OPEN_LENGTH
  BY BranchesCount
<1>3. open.free \in Seq(HeapSlot(OPEN_LENGTH))
  BY <1>1 DEF HeapHolds
<1>4. PICK left \in Nat : Len(open.free) = left
  BY <1>3, LenProperties
<1>5. left # 0
  BY <1>1, <1>2, <1>4, PathNumbers
<1>6. ~ HeapFull(open)
  BY <1>3, <1>4, <1>5, EmptySeq DEF HeapFull
<1>7. /\ HeapHolds(OPEN_LENGTH, OpenNode, HeapPush(open, node).slot, HeapPush(open, node).free)
      /\ Len(HeapPush(open, node).free) = Len(open.free) - 1
      /\ \A x \in OpenNode : Often(HeapSlot(OPEN_LENGTH), HeapPush(open, node).slot, x)
                               = Often(HeapSlot(OPEN_LENGTH), open.slot, x) + One(x = node)
  BY <1>1, <1>6, OpenNodes, HeapPushed
<1>8. OPEN_LENGTH - Len(HeapPush(open, node).free) + (more - 1)
        <= 1 + Cardinality(BranchesOf(g, D))
  <2>1. Len(HeapPush(open, node).free) = left - 1
    BY <1>4, <1>7
  <2> QED BY <1>1, <1>2, <1>4, <2>1, PathNumbers
<1>9. \A x \in OpenNode : BagOf(HeapPush(open, node))[x] = BagOf(open)[x] + One(x = node)
  BY <1>7 DEF BagOf
<1> QED BY <1>6, <1>7, <1>8, <1>9, BagsOfNodes DEF Opened

-----------------------------------------------------------------------------
(* Steps of the search.                                                    *)

\* The search so far, on its way along the edges of the node that m stands for.
Following(search, D, m, left, more) ==
  /\ search.failed = FALSE /\ m \in OpenNode /\ m.cost = Price(start, search.cost, m.value)
  /\ Search(graph, start, D, search.cost, search.came, BagOf(search.open), left)
  /\ Leading(graph, start, D, search.cost, m.value)
  /\ Opened(graph, D, search.open, more)

\* One edge of the node that has been taken, on all of the search.
LEMMA OneEdge ==
  ASSUME Searchable(graph),
         NEW search, NEW D \in SUBSET TrackNode, NEW m, NEW left, NEW more \in Nat,
         Following(search, D, m, left, more),
         NEW d, d \in Edges(graph[m.value]) => more # 0
  PROVE  Following(RelaxedBy(search, m, d), D, m, left \ {<<m.value, d>>},
                   IF d \in Edges(graph[m.value]) THEN more - 1 ELSE more)
<1> DEFINE n == m.value
           after == RelaxedBy(search, m, d)
           dest == graph[n].edge[d].dest
           less == m.cost + graph[n].edge[d].dist
<1>1. /\ search.failed = FALSE /\ m \in OpenNode /\ m.cost = Price(start, search.cost, n)
      /\ Search(graph, start, D, search.cost, search.came, BagOf(search.open), left)
      /\ Leading(graph, start, D, search.cost, n)
      /\ Opened(graph, D, search.open, more)
  BY DEF Following
<1>2. n \in D /\ n \in TrackNode /\ search.cost \in [TrackNode -> Nat]
  BY <1>1 DEF Leading, Search, Tabled
<1>3. CASE d \notin Edges(graph[n])
  <2>1. after = search
    BY <1>3 DEF RelaxedBy
  <2>2. Search(graph, start, D, search.cost, search.came, BagOf(search.open), left \ {<<n, d>>})
    BY <1>1, <1>3, EdgeWorse
  <2> QED BY <1>1, <1>3, <2>1, <2>2 DEF Following
<1>4. CASE d \in Edges(graph[n])
  <2>1. d \in {AHEAD, CURVED} /\ dest \in TrackNode /\ graph[n].edge[d].dist \in Nat
    <3>1. d \in {AHEAD, CURVED}
      BY <1>4, EdgesOf
    <3> QED BY <1>2, <1>4, <3>1 DEF Searchable
  <2>2. NewCost(m, d) = less /\ less \in Nat
    <3>1. m.cost \in Nat /\ less <= Far(graph, D)
      BY <1>1, <1>4, OpenNodes DEF Leading
    <3>2. Far(graph, D) + graph[n].edge[d].dist < NoPath /\ Far(graph, D) \in Nat
      BY <1>2, <2>1, NotFarther, MillimetresFinite
    <3>3. less \in Nat /\ less < COST_RANGE
      BY <2>1, <3>1, <3>2, PathNumbers DEF NoPath
    <3>4. less % COST_RANGE = less
      BY <3>3, PathNumbers
    <3> QED BY <3>3, <3>4 DEF NewCost
  <2>3. more \in Nat \ {0}
    BY <1>4
  <2>4. CASE search.cost[dest] > less
    <3> DEFINE node == HEAP_NODE(dest, less)
    <3>1. node \in OpenNode
      BY <2>1, <2>2, OpenNodes
    <3>2. /\ ~ HeapFull(search.open) /\ Opened(graph, D, HeapPush(search.open, node), more - 1)
          /\ BagOf(HeapPush(search.open, node)) \in [OpenNode -> Nat]
          /\ \A x \in OpenNode : BagOf(HeapPush(search.open, node))[x]
                                   = BagOf(search.open)[x] + One(x = node)
      BY <1>1, <2>3, <3>1, OpenPushed
    <3>3. /\ after.came = [search.came EXCEPT ![dest] = n]
          /\ after.cost = [search.cost EXCEPT ![dest] = less]
          /\ after.failed = FALSE
          /\ after.open = HeapPush(search.open, node)
      BY <1>1, <1>4, <2>2, <2>4, <3>2 DEF RelaxedBy, BetterThan
    <3>4. /\ dest = graph[n].edge[d].dest
          /\ less = Price(start, search.cost, n) + graph[n].edge[d].dist
      BY <1>1
    <3> DEFINE cost == search.cost
               came == search.came
               bag  == BagOf(search.open)
               rest == BagOf(HeapPush(search.open, node))
               fall == [cost EXCEPT ![dest] = less]
               from == [came EXCEPT ![dest] = n]
    <3>5. /\ Search(graph, start, D, fall, from, rest, left \ {<<n, d>>})
          /\ Leading(graph, start, D, fall, n)
          /\ Price(start, fall, n) = Price(start, cost, n)
      <4> HIDE DEF dest, less, after
      <4>1. /\ Search(graph, start, D, cost, came, bag, left) /\ Leading(graph, start, D, cost, n)
            /\ d \in Edges(graph[n]) /\ cost[dest] > less
            /\ rest \in [OpenNode -> Nat]
            /\ \A x \in OpenNode : rest[x] = bag[x] + One(x = HEAP_NODE(dest, less))
        BY <1>1, <1>4, <2>4, <3>2
      <4>2. less = Price(start, cost, n) + graph[n].edge[d].dist
        BY <3>4
      <4>3. dest = graph[n].edge[d].dest
        BY <3>4
      <4> HIDE DEF cost, came, bag, rest, n
      <4> QED BY <4>1, <4>2, <4>3, EdgeBetter
    <3>6. Following(after, D, m, left \ {<<n, d>>}, more - 1)
      <4> HIDE DEF dest, less, after
      <4> QED BY <1>1, <3>2, <3>3, <3>5 DEF Following
    <3> QED BY <1>4, <3>6
  <2>5. CASE ~ (search.cost[dest] > less)
    <3>1. after = search
      BY <1>4, <2>2, <2>5 DEF RelaxedBy, BetterThan
    <3>2. search.cost[dest] <= Price(start, search.cost, n) + graph[n].edge[d].dist
      BY <1>1, <1>2, <2>1, <2>2, <2>5
    <3>3. Search(graph, start, D, search.cost, search.came, BagOf(search.open), left \ {<<n, d>>})
      BY <1>1, <3>2, EdgeWorse
    <3>4. Opened(graph, D, search.open, more - 1)
      <4>1. /\ HeapHolds(OPEN_LENGTH, OpenNode, search.open.slot, search.open.free)
            /\ OPEN_LENGTH - Len(search.open.free) + more <= 1 + Cardinality(BranchesOf(graph, D))
        BY <1>1 DEF Opened
      <4>2. PICK free \in Nat : Len(search.open.free) = free
        BY <4>1, LenProperties DEF HeapHolds
      <4>3. PICK count \in Nat : Cardinality(BranchesOf(graph, D)) = count
        BY BranchesCount
      <4>4. OPEN_LENGTH - free + (more - 1) <= 1 + count
        BY <2>3, <4>1, <4>2, <4>3, PathNumbers
      <4> QED BY <4>1, <4>2, <4>3, <4>4 DEF Opened
    <3>5. Following(search, D, m, left \ {<<n, d>>}, more - 1)
      BY <1>1, <3>3, <3>4 DEF Following
    <3> QED BY <1>4, <3>1, <3>5
  <2> QED BY <2>4, <2>5
<1> QED BY <1>3, <1>4

\* A search that has expanded the nodes D.
Explored(D) ==
  /\ Search(graph, start, D, costToNode, mapCameFrom, BagOf(qOpen), {})
  /\ Opened(graph, D, qOpen, 0)

\* Some nodes have been expanded, and no assertion has failed.
PathKept ==
  /\ layout \in DOMAIN Graph /\ pathFailed = FALSE
  /\ \E D \in SUBSET TrackNode : Explored(D)

\* Nothing has been expanded, and the start waits.
LEMMA PathInitially == PathInit => PathKept
<1> SUFFICES ASSUME PathInit PROVE PathKept
  OBVIOUS
<1> DEFINE made == EmptyHeap(OPEN_LENGTH)
           node == HEAP_NODE(start, 0)
<1>1. /\ layout \in DOMAIN Graph /\ start \in TrackNode /\ pathFailed = FALSE
      /\ mapCameFrom = [n \in TrackNode |-> NoWay] /\ costToNode = [n \in TrackNode |-> NoPath]
      /\ qOpen = HeapPush(made, node)
  BY PathAssumption DEF PathInit
<1>2. Searchable(graph)
  BY <1>1, PathAssumption DEF graph
<1>3. Far(graph, {}) \in Nat /\ NoPath \in Nat
  <2>1. Far(graph, {}) \in Nat
    BY <1>2, MillimetresFinite
  <2>2. /\ Far(graph, {}) + graph[start].edge[AHEAD].dist < NoPath
        /\ graph[start].edge[AHEAD].dist \in Nat
    BY <1>1, <1>2, NotFarther DEF Searchable
  <2> QED BY <2>1, <2>2, PathNumbers DEF NoPath
<1>4. /\ HeapHolds(OPEN_LENGTH, OpenNode, made.slot, made.free)
      /\ Len(made.free) = OPEN_LENGTH
      /\ \A i \in HeapSlot(OPEN_LENGTH) : made.slot[i] = Vacant
  BY OpenNodes, HeapMade
<1> HIDE DEF made
<1>5. Opened(graph, {}, made, 1)
  <2>1. Cardinality(BranchesOf(graph, {})) \in Nat
    BY BranchesCount
  <2> QED BY <1>4, <2>1, PathNumbers DEF Opened
<1>6. \A x \in OpenNode : BagOf(made)[x] = 0
  <2> SUFFICES ASSUME NEW x \in OpenNode PROVE BagOf(made)[x] = 0
    OBVIOUS
  <2>1. x # Vacant
    BY OpenNodes, HeapNodes
  <2>2. /\ Often(HeapSlot(OPEN_LENGTH), made.slot, x) \in Nat
        /\ ~ (Often(HeapSlot(OPEN_LENGTH), made.slot, x) > 0)
    BY <1>4, <2>1, OpenNodes, OftenIs
  <2> QED BY <2>2 DEF BagOf
<1>7. node \in OpenNode /\ node.value = start /\ node.cost = 0
  BY <1>1, OpenNodes
<1>8. /\ Opened(graph, {}, qOpen, 0) /\ BagOf(qOpen) \in [OpenNode -> Nat]
      /\ \A x \in OpenNode : BagOf(qOpen)[x] = One(x = node)
  <2>1. /\ Opened(graph, {}, HeapPush(made, node), 1 - 1)
        /\ BagOf(HeapPush(made, node)) \in [OpenNode -> Nat]
        /\ \A x \in OpenNode : BagOf(HeapPush(made, node))[x] = BagOf(made)[x] + One(x = node)
    BY <1>2, <1>5, <1>7, OpenPushed
  <2>2. \A x \in OpenNode : BagOf(HeapPush(made, node))[x] = One(x = node)
    BY <1>6, <2>1 DEF One
  <2> QED BY <1>1, <2>1, <2>2
<1>9. Tabled(start, {}, costToNode, mapCameFrom)
  BY <1>1, <1>3 DEF Tabled
<1>10. Pending(graph, start, {}, costToNode, BagOf(qOpen))
  <2>1. \A k \in TrackNode : Known(start, costToNode, k) <=> k = start
    BY <1>1 DEF Known
  <2>2. Price(start, costToNode, start) = 0
    BY DEF Price
  <2>3. BagOf(qOpen)[node] = 1
    BY <1>7, <1>8 DEF One
  <2>4. \A x \in OpenNode : BagOf(qOpen)[x] > 0 => x = node
    BY <1>8 DEF One
  <2>5. node.cost <= Far(graph, {})
    BY <1>3, <1>7
  <2> QED BY <1>1, <1>7, <1>8, <2>1, <2>2, <2>3, <2>4, <2>5 DEF Pending
<1>11. Traced(graph, start, {}, costToNode, mapCameFrom)
  BY <1>1 DEF Traced
<1>12. Relaxed(graph, start, {}, costToNode, {})
  BY DEF Relaxed
<1> QED BY <1>1, <1>8, <1>9, <1>10, <1>11, <1>12 DEF PathKept, Explored, Search

\* The room that was not needed may be given up.
LEMMA RoomLeft ==
  ASSUME NEW g, NEW D \in SUBSET TrackNode, NEW open, NEW more \in Nat, Opened(g, D, open, more)
  PROVE  Opened(g, D, open, 0)
<1>1. /\ HeapHolds(OPEN_LENGTH, OpenNode, open.slot, open.free)
      /\ OPEN_LENGTH - Len(open.free) + more <= 1 + Cardinality(BranchesOf(g, D))
  BY DEF Opened
<1>2. PICK free \in Nat : Len(open.free) = free
  BY <1>1, LenProperties DEF HeapHolds
<1>3. PICK count \in Nat : Cardinality(BranchesOf(g, D)) = count
  BY BranchesCount
<1>4. OPEN_LENGTH - free + 0 <= 1 + count
  BY <1>1, <1>2, <1>3, PathNumbers
<1> QED BY <1>1, <1>2, <1>3, <1>4 DEF Opened

\* A node is taken from the heap and both its edges are followed.
LEMMA PathStep == PathKept /\ Expand => PathKept'
<1> SUFFICES ASSUME PathKept, Expand PROVE PathKept'
  OBVIOUS
<1> DEFINE m == HeapFirst(qOpen)
           n == m.value
           rest == HeapPop(qOpen)
           search == [came |-> mapCameFrom, cost |-> costToNode, failed |-> FALSE, open |-> rest]
           ahead == RelaxedBy(search, m, AHEAD)
           after == RelaxedBy(ahead, m, CURVED)
<1>1. /\ layout \in DOMAIN Graph /\ Searchable(graph)
      /\ layout' = layout /\ start' = start /\ graph' = graph
  BY PathAssumption DEF PathKept, Expand, graph
<1>2. PICK D \in SUBSET TrackNode : Explored(D)
  BY DEF PathKept
<1>3. /\ mapCameFrom' = after.came /\ costToNode' = after.cost
      /\ qOpen' = after.open /\ pathFailed' = after.failed
  BY DEF Expand
<1>4. /\ Search(graph, start, D, costToNode, mapCameFrom, BagOf(qOpen), {})
      /\ Opened(graph, D, qOpen, 0) /\ ~ HeapEmpty(qOpen)
  BY <1>2 DEF Explored, Expand
<1>5. /\ TakesFirst(BagOf(qOpen), m, BagOf(rest)) /\ m \in OpenNode
      /\ HeapHolds(OPEN_LENGTH, OpenNode, rest.slot, rest.free)
      /\ OPEN_LENGTH - Len(rest.free) \in Int
      /\ OPEN_LENGTH - Len(rest.free) <= Cardinality(BranchesOf(graph, D))
  BY <1>4, OpenPopped DEF TakesFirst
<1>6. /\ search.came = mapCameFrom /\ search.cost = costToNode
      /\ search.failed = FALSE /\ search.open = rest
  OBVIOUS
<1>7. n \in TrackNode /\ m.cost \in Nat
  BY <1>5, OpenNodes
<1> SUFFICES \E E \in SUBSET TrackNode :
               /\ Search(graph, start, E, after.cost, after.came, BagOf(after.open), {})
               /\ Opened(graph, E, after.open, 0) /\ after.failed = FALSE
  <2> HIDE DEF after
  <2> QED BY <1>1, <1>3 DEF PathKept, Explored
<1> HIDE DEF m, n, rest, search
<1>8. CASE n \in D
  <2>1. /\ Search(graph, start, D, costToNode, mapCameFrom, BagOf(rest), {})
        /\ \A d \in Edges(graph[n]) :
             /\ m.cost + graph[n].edge[d].dist < NoPath
             /\ costToNode[graph[n].edge[d].dest] <= m.cost + graph[n].edge[d].dist
    BY <1>1, <1>4, <1>5, <1>8, TakenAgain DEF n
  <2>2. ASSUME NEW d PROVE RelaxedBy(search, m, d) = search
    <3>1. CASE d \notin Edges(graph[n])
      BY <3>1 DEF RelaxedBy, n
    <3>2. CASE d \in Edges(graph[n])
      <4> DEFINE less == m.cost + graph[n].edge[d].dist
                 dest == graph[n].edge[d].dest
      <4>1. d \in {AHEAD, CURVED} /\ dest \in TrackNode /\ graph[n].edge[d].dist \in Nat
        <5>1. d \in {AHEAD, CURVED}
          BY <3>2, EdgesOf
        <5> QED BY <1>1, <1>7, <3>2, <5>1 DEF Searchable
      <4>2. less \in Nat /\ less < COST_RANGE
        BY <1>7, <2>1, <3>2, <4>1, PathNumbers DEF NoPath
      <4>3. less % COST_RANGE = less
        <5> HIDE DEF less
        <5> QED BY <4>2, PathNumbers
      <4>4. NewCost(m, d) = less
        BY <4>3 DEF NewCost, n
      <4>5. ~ BetterThan(NewCost(m, d), search.cost[dest])
        <5>1. costToNode[dest] <= less /\ costToNode[dest] \in Nat
          BY <1>4, <2>1, <3>2, <4>1 DEF Search, Tabled
        <5> HIDE DEF less
        <5> QED BY <1>6, <4>2, <4>4, <5>1 DEF BetterThan
      <4> QED BY <3>2, <4>5 DEF RelaxedBy, n
    <3> QED BY <3>1, <3>2
  <2>3. after = search
    BY <2>2
  <2>4. Opened(graph, D, rest, 0)
    <3>1. PICK count \in Nat : Cardinality(BranchesOf(graph, D)) = count
      BY BranchesCount
    <3>2. PICK fill \in Int : OPEN_LENGTH - Len(rest.free) = fill
      BY <1>5
    <3>3. fill + 0 <= 1 + count
      BY <1>5, <3>1, <3>2
    <3> QED BY <1>5, <3>1, <3>2, <3>3 DEF Opened
  <2> QED BY <1>6, <2>1, <2>3, <2>4
<1>9. CASE n \notin D
  <2> DEFINE E == D \cup {n}
             both == {n} \X {AHEAD, CURVED}
             more == Degree(graph[n])
             less == IF AHEAD \in Edges(graph[n]) THEN more - 1 ELSE more
             least == IF CURVED \in Edges(graph[n]) THEN less - 1 ELSE less
  <2>1. /\ m.cost = Price(start, costToNode, n)
        /\ Search(graph, start, E, costToNode, mapCameFrom, BagOf(rest), both)
        /\ Leading(graph, start, E, costToNode, n)
    BY <1>1, <1>4, <1>5, <1>9, Taken DEF n
  <2>2. E \in SUBSET TrackNode
    BY <1>7
  <2>3. /\ more \in Nat /\ less \in Nat /\ least \in Nat
        /\ AHEAD \in Edges(graph[n]) => more # 0
        /\ CURVED \in Edges(graph[n]) => less # 0
    <3>1. more \in {1, 2} /\ (CURVED \in Edges(graph[n]) => more = 2)
      BY EdgesOf
    <3> QED BY <3>1
  <2>4. Opened(graph, E, rest, more)
    <3>1. PICK count \in Nat : Cardinality(BranchesOf(graph, D)) = count
      BY BranchesCount
    <3>2. PICK fill \in Int : OPEN_LENGTH - Len(rest.free) = fill
      BY <1>5
    <3>3. Cardinality(BranchesOf(graph, E)) = count + more - 1
      BY <1>7, <1>9, <3>1, BranchesCount
    <3>4. fill + more <= 1 + (count + more - 1)
      BY <1>5, <2>3, <3>1, <3>2
    <3> QED BY <1>5, <3>2, <3>3, <3>4 DEF Opened
  <2>5. Following(search, E, m, both, more)
    BY <1>5, <1>6, <2>1, <2>4 DEF Following, n
  <2> HIDE DEF E, more
  <2>6. Following(ahead, E, m, both \ {<<n, AHEAD>>}, less)
    <3> HIDE DEF after, both, least
    <3> QED BY <1>1, <2>2, <2>3, <2>5, OneEdge DEF n
  <2>7. Following(after, E, m, (both \ {<<n, AHEAD>>}) \ {<<n, CURVED>>}, least)
    <3> HIDE DEF ahead, less, both
    <3> QED BY <1>1, <2>2, <2>3, <2>6, OneEdge DEF n
  <2>8. (both \ {<<n, AHEAD>>}) \ {<<n, CURVED>>} = {}
    OBVIOUS
  <2> HIDE DEF after, both
  <2>9. /\ after.failed = FALSE
        /\ Search(graph, start, E, after.cost, after.came, BagOf(after.open), {})
        /\ Opened(graph, E, after.open, least)
    BY <2>7, <2>8 DEF Following
  <2>10. Opened(graph, E, after.open, 0)
    <3> HIDE DEF least
    <3> QED BY <2>2, <2>3, <2>9, RoomLeft
  <2> QED BY <2>2, <2>9, <2>10
<1> QED BY <1>8, <1>9

\* When the heap is empty, all that is known has been expanded.
LEMMA PathFound == PathKept => PathsAreShortest
<1> SUFFICES ASSUME PathKept PROVE PathsAreShortest
  OBVIOUS
<1>1. pathFailed = FALSE /\ layout \in DOMAIN Graph /\ Searchable(graph)
  BY PathAssumption DEF PathKept, graph
<1>2. PICK D \in SUBSET TrackNode : Explored(D)
  BY DEF PathKept
<1>3. /\ Tabled(start, D, costToNode, mapCameFrom)
      /\ Pending(graph, start, D, costToNode, BagOf(qOpen))
      /\ Traced(graph, start, D, costToNode, mapCameFrom)
      /\ Relaxed(graph, start, D, costToNode, {})
      /\ HeapHolds(OPEN_LENGTH, OpenNode, qOpen.slot, qOpen.free)
  BY <1>2 DEF Explored, Search, Opened
<1> SUFFICES ASSUME Searched
             PROVE  /\ \A n \in TrackNode : Reached(n) =>
                         \A d \in Edges(graph[n]) :
                           /\ Reached(graph[n].edge[d].dest)
                           /\ CostTo(graph[n].edge[d].dest) <= CostTo(n) + graph[n].edge[d].dist
                    /\ \A n \in TrackNode \ {start} : Reached(n) =>
                         /\ Reached(CameFrom(n))
                         /\ \E d \in Edges(graph[CameFrom(n)]) :
                              /\ graph[CameFrom(n)].edge[d].dest = n
                              /\ graph[CameFrom(n)].edge[d].dist > 0
                              /\ CostTo(n) = CostTo(CameFrom(n)) + graph[CameFrom(n)].edge[d].dist
  BY <1>1 DEF PathsAreShortest
<1>4. HeapEmpty(qOpen)
  BY <1>1 DEF Searched
<1>5. /\ start \in TrackNode /\ costToNode \in [TrackNode -> Nat]
      /\ \A k \in TrackNode : Reached(k) <=> Known(start, costToNode, k)
      /\ \A k \in TrackNode : CostTo(k) = Price(start, costToNode, k) /\ CostTo(k) \in Nat
      /\ \A k \in D : Reached(k)
  BY <1>3 DEF Tabled, Reached, Known, CostTo, Price
<1>6. \A x \in OpenNode : BagOf(qOpen)[x] = 0
  <2> SUFFICES ASSUME NEW x \in OpenNode PROVE BagOf(qOpen)[x] = 0
    OBVIOUS
  <2>1. \A i \in HeapSlot(OPEN_LENGTH) : qOpen.slot[i] = Vacant
    BY <1>3, <1>4, OpenNodes, HeapEmptied
  <2>2. x # Vacant
    BY OpenNodes, HeapNodes
  <2>3. /\ Often(HeapSlot(OPEN_LENGTH), qOpen.slot, x) \in Nat
        /\ ~ (Often(HeapSlot(OPEN_LENGTH), qOpen.slot, x) > 0)
    BY <2>1, <2>2, OpenNodes, OftenIs
  <2> QED BY <2>3 DEF BagOf
<1>7. \A k \in TrackNode : Reached(k) => k \in D
  <2> SUFFICES ASSUME NEW k \in TrackNode, Reached(k), k \notin D PROVE FALSE
    OBVIOUS
  <2>1. BagOf(qOpen)[HEAP_NODE(k, CostTo(k))] = 1
    BY <1>3, <1>5 DEF Pending
  <2>2. HEAP_NODE(k, CostTo(k)) \in OpenNode
    BY <1>5, OpenNodes
  <2> QED BY <1>6, <2>1, <2>2
<1>8. ASSUME NEW n \in TrackNode, Reached(n), NEW d \in Edges(graph[n])
      PROVE  /\ Reached(graph[n].edge[d].dest)
             /\ CostTo(graph[n].edge[d].dest) <= CostTo(n) + graph[n].edge[d].dist
  <2> DEFINE dest == graph[n].edge[d].dest
             dist == graph[n].edge[d].dist
  <2>1. n \in D /\ d \in {AHEAD, CURVED}
    BY <1>7, <1>8, EdgesOf
  <2>2. dest \in TrackNode /\ dist \in Nat
    BY <1>1, <2>1 DEF Searchable
  <2>3. costToNode[dest] < NoPath /\ costToNode[dest] <= Price(start, costToNode, n) + dist
    BY <1>3, <2>1 DEF Relaxed
  <2> HIDE DEF dest, dist
  <2>4. Reached(dest)
    <3>1. costToNode[dest] # NoPath
      BY <1>5, <2>2, <2>3, PathNumbers DEF NoPath
    <3> QED BY <1>5, <2>2, <3>1 DEF Known
  <2>5. CostTo(dest) <= CostTo(n) + dist
    <3>1. CASE dest = start
      <4>1. CostTo(dest) = 0
        BY <3>1 DEF CostTo
      <4> QED BY <1>5, <2>2, <4>1
    <3>2. CASE dest # start
      <4>1. CostTo(dest) = costToNode[dest]
        BY <3>2 DEF CostTo
      <4> QED BY <1>5, <2>3, <4>1
    <3> QED BY <3>1, <3>2
  <2> QED BY <2>4, <2>5 DEF dest, dist
<1>9. ASSUME NEW n \in TrackNode \ {start}, Reached(n)
      PROVE  /\ Reached(CameFrom(n))
             /\ \E d \in Edges(graph[CameFrom(n)]) :
                  /\ graph[CameFrom(n)].edge[d].dest = n
                  /\ graph[CameFrom(n)].edge[d].dist > 0
                  /\ CostTo(n) = CostTo(CameFrom(n)) + graph[CameFrom(n)].edge[d].dist
  <2> DEFINE from == mapCameFrom[n]
  <2>1. CameFrom(n) = from /\ CostTo(n) = costToNode[n] /\ costToNode[n] # NoPath
    BY <1>5, <1>9 DEF CameFrom, CostTo, Known
  <2>2. PICK d \in Edges(graph[from]) :
          /\ graph[from].edge[d].dest = n
          /\ costToNode[n] = Price(start, costToNode, from) + graph[from].edge[d].dist
    BY <1>3, <2>1 DEF Traced
  <2>3. from \in D
    BY <1>3, <2>1 DEF Traced
  <2>4. Reached(from) /\ Price(start, costToNode, from) = CostTo(from)
    BY <1>5, <2>3
  <2>5. graph[from].edge[d].dist > 0
    BY <1>1, <2>3 DEF Searchable
  <2> HIDE DEF from
  <2> QED BY <2>1, <2>2, <2>4, <2>5
<1> QED BY <1>8, <1>9

\* In every graph with fewer branches than the heap has slots, and no longer than a cost can
\* be, and from every start: the heap never fills up, no cost wraps, and when the heap is
\* empty the path to each node that can be reached is a shortest one (trackGraph.c:5-62).
THEOREM PathsTheorem == PathSpec => []PathsAreShortest
<1>1. PathKept /\ [PathNext]_PathVars => PathKept'
  <2> SUFFICES ASSUME PathKept, [PathNext]_PathVars PROVE PathKept'
    OBVIOUS
  <2>1. CASE UNCHANGED PathVars
    BY <2>1 DEF PathVars, PathKept, Explored, graph
  <2>2. CASE Expand
    BY <2>2, PathStep
  <2>3. CASE PathDone
    BY <2>1, <2>3 DEF PathDone
  <2> QED BY <2>1, <2>2, <2>3 DEF PathNext
<1> QED BY <1>1, PathInitially, PathFound, PTL DEF PathSpec

-----------------------------------------------------------------------------
(* All parts of MCParts: each behaves as it does by itself.                *)

\* A part that waits stutters, so whatever moves, all parts keep what is promised of each: types,
\* rings, containers, paths, the switch office, and the trains with their track.
THEOREM PartsTheorem ==
  MCSpec => /\ []PartsTypeOK /\ []PathsAreShortest
            /\ []OfficeExact /\ []LocomotivesExact
            /\ ImplementsReadyQueue /\ ContainersKeep
<1>1. MCInit => /\ Init /\ HeapInit /\ ListInit /\ QueueInit
                /\ PathInit /\ OfficeInit /\ LocoInit
  BY DEF MCInit
<1>2. [MCNext]_MCVars =>
        /\ [Next]_vars /\ [HeapNext]_HeapVars /\ [ListNextCall]_ListVars /\ [QueueNext]_QueueVars
        /\ [PathNext]_PathVars /\ [OfficeNext]_OfficeVars /\ [LocoNext]_LocoVars
  BY DEF MCNext, MCVars
<1>3. MCSpec => Spec
  BY <1>1, <1>2, PTL DEF MCSpec, Spec
<1>4. MCSpec => ContainersKeep
  BY <1>1, <1>2, ContainersTheorem, PTL DEF MCSpec
<1>5. MCSpec => PathSpec
  BY <1>1, <1>2, PTL DEF MCSpec, PathSpec
<1>6. MCSpec => OfficeSpec
  BY <1>1, <1>2, PTL DEF MCSpec, OfficeSpec
<1>7. MCSpec => LocoSpec
  BY <1>1, <1>2, PTL DEF MCSpec, LocoSpec
<1>8. RingOK /\ OfficeTypeOK /\ LocoTypeOK => PartsTypeOK
  BY DEF PartsTypeOK
<1>9. MCSpec => []PartsTypeOK
  BY <1>3, <1>6, <1>7, <1>8, RingTheorem, OfficeTypeCorrect, TrainsAreTyped, PTL
<1> QED
  BY <1>3, <1>4, <1>5, <1>6, <1>7, <1>9, Refinement, PathsTheorem,
     OfficeStaysExact, TrainsKnowTheirTrack, PTL
=============================================================================
