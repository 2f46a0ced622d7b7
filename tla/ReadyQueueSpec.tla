--------------------------- MODULE ReadyQueueSpec ---------------------------
(***************************************************************************)
(* What the scheduler expects of the priority queue: every call, on        *)
(* bounded FIFOs.  `result' is the last call and the level it named, what  *)
(* it returned, and the value it popped if it popped one.                  *)
(***************************************************************************)
EXTENDS ReadyQueue

CONSTANT Value

VARIABLES
  queues,   \* a sequence of values for each priority
  result

vars == <<queues, result>>

Returned(op, p, code) == [op |-> op, level |-> p, code |-> code]
Popped(op, p, v) == [op |-> op, level |-> p, code |-> "ok", value |-> v]

Init ==
  /\ queues = [p \in Priority |-> <<>>]
  /\ result = Returned("init", 0, "ok")

PushCall(p, v) ==
  \/ /\ HasRoom(queues, p)
     /\ queues' = Push(queues, p, v)
     /\ result' = Returned("push", p, "ok")
  \/ /\ ~HasRoom(queues, p)
     /\ result' = Returned("push", p, "full")
     /\ UNCHANGED queues

PopFrom(op, l, q) ==
  LET p == Highest(q)
  IN  /\ result' = Popped(op, l, Head(q[p]))
      /\ queues' = [q EXCEPT ![p] = Tail(@)]

PopCall ==
  \/ /\ Levels(queues) = {}
     /\ result' = Returned("pop", 0, "empty")
     /\ UNCHANGED queues
  \/ /\ Levels(queues) # {}
     /\ PopFrom("pop", 0, queues)

\* The caller keeps running if it is more urgent than all of the queue.
PushPopCall(p, v) ==
  \/ /\ MoreUrgent(queues, p)
     /\ result' = Returned("pushpop", p, "same")
     /\ UNCHANGED queues
  \/ /\ ~MoreUrgent(queues, p)
     /\ ~HasRoom(queues, p)
     /\ result' = Returned("pushpop", p, "full")
     /\ UNCHANGED queues
  \/ /\ ~MoreUrgent(queues, p)
     /\ HasRoom(queues, p)
     /\ PopFrom("pushpop", p, Push(queues, p, v))

Next ==
  \/ \E p \in 0 .. PRIORITY_COUNT, v \in Value : PushCall(p, v)
  \/ PopCall
  \/ \E p \in Priority, v \in Value : PushPopCall(p, v)

Spec == Init /\ [][Next]_vars
=============================================================================
