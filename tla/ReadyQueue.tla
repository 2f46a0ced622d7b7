----------------------------- MODULE ReadyQueue -----------------------------
(***************************************************************************)
(* The ready queues as the kernel uses them: a bounded FIFO for each       *)
(* priority, and the most urgent level that holds somebody.  The priority  *)
(* queue of common/ stores them in rings (PriorityQueue).                  *)
(***************************************************************************)
EXTENDS Naturals, Sequences

CONSTANTS
  PRIORITY_COUNT,      \* priority levels, 0 is the most urgent
  PRIORITY_LENGTH      \* slots of one level

Priority == 0 .. PRIORITY_COUNT - 1

Levels(q) == {p \in Priority : q[p] # <<>>}

HighestAsLowest(q) == CHOOSE p \in Levels(q) : \A r \in Levels(q) : r <= p
Highest(q) == CHOOSE p \in Levels(q) : \A r \in Levels(q) : p <= r

HasRoom(q, p) == p \in Priority /\ Len(q[p]) < PRIORITY_LENGTH

PushAtZero(q, p, t) == [q EXCEPT ![0] = Append(@, t)]
Push(q, p, t) == [q EXCEPT ![p] = Append(@, t)]

\* Nothing at level p or above it waits.
MoreUrgentWrong(q, p) == \A l \in Levels(q) : p <= l
MoreUrgent(q, p) == \A l \in Levels(q) : p < l
=============================================================================
