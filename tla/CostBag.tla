------------------------------- MODULE CostBag -------------------------------
(***************************************************************************)
(* What the search for paths relies on in the heap: a bag of nodes that    *)
(* gives back one of the cheapest, and refuses a node only when SIZE of    *)
(* them are in it.                                                         *)
(***************************************************************************)
EXTENDS Integers, FiniteSets

CONSTANTS Node, SIZE

VARIABLES bag, held, result   \* how often each node is there, and how many there are

vars == <<bag, held, result>>

Init == bag = [n \in Node |-> 0] /\ held = 0 /\ result = <<"none">>

Push(n) ==
  \/ /\ held < SIZE
     /\ bag' = [bag EXCEPT ![n] = @ + 1]
     /\ held' = held + 1
     /\ result' = <<"ok">>
  \/ /\ held = SIZE
     /\ result' = <<"full">>
     /\ UNCHANGED <<bag, held>>

Cheapest(n) == bag[n] > 0 /\ \A m \in Node : bag[m] > 0 => n.cost <= m.cost

Pop ==
  \/ /\ held = 0
     /\ result' = <<"empty">>
     /\ UNCHANGED <<bag, held>>
  \/ \E n \in Node :
       /\ Cheapest(n)
       /\ bag' = [bag EXCEPT ![n] = @ - 1]
       /\ held' = held - 1
       /\ result' = <<"node", n>>

Next == (\E n \in Node : Push(n)) \/ Pop

Spec == Init /\ [][Next]_vars
=============================================================================
