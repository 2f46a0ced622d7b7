-------------------------------- MODULE Heap --------------------------------
(***************************************************************************)
(* common/heap.c: nodes with a cost in an array.  Pop pulls children up    *)
(* and leaves a hole where the last of them was, which becomes the first   *)
(* of the free slots; Push fills the first free slot.                      *)
(*                                                                         *)
(* The number of slots is odd, or the last node would have a right child   *)
(* outside the array.                                                      *)
(***************************************************************************)
EXTENDS Integers, Sequences

\* isFilled is 0
Vacant == [value |-> -1, cost |-> -1]
HEAP_NODE(value, cost) == [value |-> value, cost |-> cost]

EmptyHeap(size) ==
  [slot |-> [i \in 0 .. size - 1 |-> Vacant], free |-> [i \in 1 .. size |-> i - 1]]

LeftChild(i)  == 2 * i + 1
RightChild(i) == 2 * i + 2
ParentSlot(i) == (i + (i % 2)) \div 2 - 1

Filled(heap, i) == i \in DOMAIN heap.slot /\ heap.slot[i] # Vacant

-----------------------------------------------------------------------------
HeapFull(heap)  == heap.free = <<>>
HeapEmpty(heap) == ~Filled(heap, 0)

\* Equal costs let the newer node pass.
Passes(cost, parent) == cost <= parent.cost

\* The slots on the way up that a node of this cost takes over.
Climb(slot, cost, from) ==
  LET up[i \in DOMAIN slot] ==
        IF i # 0 /\ Passes(cost, slot[ParentSlot(i)]) THEN {i} \cup up[ParentSlot(i)] ELSE {i}
  IN  up[from]

HeapPush(heap, node) ==
  LET way == Climb(heap.slot, node.cost, Head(heap.free))
  IN  [slot |-> [i \in DOMAIN heap.slot |->
                   IF i \notin way THEN heap.slot[i]
                   ELSE IF i # 0 /\ ParentSlot(i) \in way THEN heap.slot[ParentSlot(i)]
                   ELSE node],
       free |-> Tail(heap.free)]

\* The child that is pulled up, the right one of two that are equal.
Larger(left, right) == IF right.cost <= left.cost THEN 1 ELSE 2
Smaller(left, right) == IF right.cost <= left.cost THEN 2 ELSE 1
PulledChild(heap, i) ==
  IF Filled(heap, LeftChild(i)) /\ Filled(heap, RightChild(i))
  THEN 2 * i + Smaller(heap.slot[LeftChild(i)], heap.slot[RightChild(i)])
  ELSE IF Filled(heap, LeftChild(i)) THEN LeftChild(i) ELSE RightChild(i)

HasChild(heap, i) == Filled(heap, LeftChild(i)) \/ Filled(heap, RightChild(i))

\* The slots on the way down from the root.
Descent(heap) ==
  LET down[i \in DOMAIN heap.slot] ==
        IF HasChild(heap, i) THEN {i} \cup down[PulledChild(heap, i)] ELSE {i}
  IN  down[0]

HeapFirst(heap) == heap.slot[0]

HeapPop(heap) ==
  LET way  == Descent(heap)
      hole == CHOOSE i \in way : ~HasChild(heap, i)
  IN  [slot |-> [i \in DOMAIN heap.slot |->
                   IF i \notin way THEN heap.slot[i]
                   ELSE IF i = hole THEN Vacant
                   ELSE heap.slot[PulledChild(heap, i)]],
       free |-> <<hole>> \o heap.free]
=============================================================================
