---------------------------- MODULE PriorityQueue ----------------------------
(***************************************************************************)
(* common/priorityQueue.c: one ring of PRIORITY_LENGTH slots for each      *)
(* priority.  A ring stores no count.  Its bit in priorityBits tells a     *)
(* full ring from an empty one, as head and tail are equal in both.        *)
(*                                                                         *)
(* The kernel calls it with interrupts masked, so a call is one step.      *)
(***************************************************************************)
EXTENDS Naturals, Sequences, FiniteSets

CONSTANTS PRIORITY_COUNT, PRIORITY_LENGTH,
          Value,    \* what is queued: task ids
          Garbage   \* what a slot holds before it is written

Priority == 0 .. PRIORITY_COUNT - 1
Slot     == 0 .. PRIORITY_LENGTH - 1

\* The mask (PRIORITY_LENGTH - 1) takes the remainder of a power of two.
ASSUME PriorityQueueAssumption ==
  /\ PRIORITY_COUNT \in Nat \ {0}
  /\ PRIORITY_LENGTH \in Nat
  /\ \E k \in 0 .. PRIORITY_LENGTH : PRIORITY_LENGTH = 2 ^ k
  /\ Garbage \notin Value

VARIABLES data, head, tail, priorityBits, result

ring == <<data, head, tail, priorityBits>>
vars == <<data, head, tail, priorityBits, result>>

Returned(op, p, code) == [op |-> op, level |-> p, code |-> code]
Popped(op, p, v) == [op |-> op, level |-> p, code |-> "ok", value |-> v]

\* 1 << p is outside the word for the first priority out of range, and no ring.
FullWithoutBit(p) == p \in Priority => head[p] = tail[p]
Full(p) == p \notin Priority \/ (p \in priorityBits /\ head[p] = tail[p])

\* The number of trailing zeros, 32 (more than any priority) for 0.
Least(bits) == IF bits = {} THEN PRIORITY_COUNT
               ELSE CHOOSE p \in bits : \A r \in bits : p <= r

WrapLate(i) == IF i = PRIORITY_LENGTH THEN 0 ELSE i + 1
Wrap(i) == (i + 1) % PRIORITY_LENGTH

BitsAfterPop(bits, p, empty) == IF empty THEN (bits \ {p}) \cup ({p} \ bits) ELSE bits

-----------------------------------------------------------------------------
Init ==
  /\ data = [p \in Priority |-> [i \in Slot |-> Garbage]]
  /\ head = [p \in Priority |-> 0]
  /\ tail = [p \in Priority |-> 0]
  /\ priorityBits = {}
  /\ result = Returned("init", 0, "ok")

Push(p, v) ==
  \/ /\ Full(p)
     /\ result' = Returned("push", p, "full")
     /\ UNCHANGED ring
  \/ /\ ~Full(p)
     /\ data' = [data EXCEPT ![p][tail[p]] = v]
     /\ tail' = [tail EXCEPT ![p] = Wrap(@)]
     /\ priorityBits' = priorityBits \cup {p}
     /\ result' = Returned("push", p, "ok")
     /\ UNCHANGED head

Pop ==
  \/ /\ priorityBits = {}
     /\ result' = Returned("pop", 0, "empty")
     /\ UNCHANGED ring
  \/ /\ priorityBits # {}
     /\ LET p == Least(priorityBits)
        IN  /\ result' = Popped("pop", 0, data[p][head[p]])
            /\ head' = [head EXCEPT ![p] = Wrap(@)]
            /\ priorityBits' = BitsAfterPop(priorityBits, p, Wrap(head[p]) = tail[p])
     /\ UNCHANGED <<data, tail>>

\* `free' is chosen before the value is pushed.
PushPop(p, v) ==
  LET free == Least(priorityBits)
  IN  \/ /\ p < free
         /\ result' = Returned("pushpop", p, "same")
         /\ UNCHANGED ring
      \/ /\ p >= free
         /\ Full(p)
         /\ result' = Returned("pushpop", p, "full")
         /\ UNCHANGED ring
      \/ /\ p >= free
         /\ ~Full(p)
         /\ data' = [data EXCEPT ![p][tail[p]] = v]
         /\ tail' = [tail EXCEPT ![p] = Wrap(@)]
         /\ result' = Popped("pushpop", p, data'[free][head[free]])
         /\ head' = [head EXCEPT ![free] = Wrap(@)]
         /\ priorityBits' = BitsAfterPop(priorityBits \cup {p}, free,
                                         head'[free] = tail'[free])

Next ==
  \/ \E p \in 0 .. PRIORITY_COUNT, v \in Value : Push(p, v)
  \/ Pop
  \/ \E p \in Priority, v \in Value : PushPop(p, v)

Spec == Init /\ [][Next]_vars

-----------------------------------------------------------------------------
\* How many values ring p holds, and which.
Stored(p) == IF p \notin priorityBits THEN 0
            ELSE IF tail[p] > head[p] THEN tail[p] - head[p]
            ELSE tail[p] + PRIORITY_LENGTH - head[p]

Contents(p) == [i \in 1 .. Stored(p) |-> data[p][(head[p] + i - 1) % PRIORITY_LENGTH]]

\* Indices stay inside the rings, and a level without its bit is empty.
RingOK ==
  /\ data \in [Priority -> [Slot -> Value \cup {Garbage}]]
  /\ head \in [Priority -> Slot]
  /\ tail \in [Priority -> Slot]
  /\ priorityBits \subseteq Priority
  /\ \A p \in Priority \ priorityBits : head[p] = tail[p]

\* The rings with their bits are bounded FIFOs: values come out in order and once, the
\* most urgent level first, never a slot that was not written; a full ring is not taken
\* for an empty one, also when PushPop pushes and pops the same ring
\* (priorityQueue.c:21-108).
Fifo == INSTANCE ReadyQueueSpec WITH queues <- [p \in Priority |-> Contents(p)]

ImplementsReadyQueue == Fifo!Spec
=============================================================================
