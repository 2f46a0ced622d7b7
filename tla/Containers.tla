----------------------------- MODULE Containers -----------------------------
(***************************************************************************)
(* The heap, the list and the queue of common/, each under every sequence  *)
(* of its calls.  They belong to one task each, so a call is one step.     *)
(***************************************************************************)
EXTENDS Heap, FiniteSets

CONSTANTS
  HEAP_SIZE, Cost,           \* slots of the heap, and costs of what is pushed
  LIST_LENGTH, QUEUE_LENGTH, \* nodes of the list, slots of the queue
  Item                       \* values in the list and the queue

ASSUME ContainersAssumption ==
  /\ HEAP_SIZE \in Nat /\ HEAP_SIZE % 2 = 1
  /\ Cost \subseteq Nat
  /\ LIST_LENGTH \in Nat \ {0}
  /\ QUEUE_LENGTH \in Nat
  /\ \E k \in 0 .. QUEUE_LENGTH : QUEUE_LENGTH = 2 ^ k
  /\ Item \cap {"none", "ok", "full", "empty"} = {}

HeapNode == {HEAP_NODE(v, c) : v \in {1, 2}, c \in Cost}
ListNode == 0 .. LIST_LENGTH - 1
QueueSlot == 0 .. QUEUE_LENGTH - 1
Null == -1

VARIABLES
  heap, heapResult,
  listData, listNext, freeList, listHead, listResult,
  queueData, queueHead, queueTail, queueCount, queueResult

HeapVars  == <<heap, heapResult>>
ListVars  == <<listData, listNext, freeList, listHead, listResult>>
QueueVars == <<queueData, queueHead, queueTail, queueCount, queueResult>>

-----------------------------------------------------------------------------
HeapInit == heap = EmptyHeap(HEAP_SIZE) /\ heapResult = <<"none">>

HeapPushCall(node) ==
  \/ /\ HeapFull(heap)
     /\ heapResult' = <<"full">>
     /\ UNCHANGED heap
  \/ /\ ~HeapFull(heap)
     /\ heap' = HeapPush(heap, node)
     /\ heapResult' = <<"ok">>

HeapPopCall ==
  \/ /\ HeapEmpty(heap)
     /\ heapResult' = <<"empty">>
     /\ UNCHANGED heap
  \/ /\ ~HeapEmpty(heap)
     /\ heapResult' = <<"node", HeapFirst(heap)>>
     /\ heap' = HeapPop(heap)

HeapNext == (\E node \in HeapNode : HeapPushCall(node)) \/ HeapPopCall

-----------------------------------------------------------------------------
ListInit ==
  /\ listData \in [ListNode -> {CHOOSE v \in Item : TRUE}]
  /\ listNext = [n \in ListNode |-> IF n = LIST_LENGTH - 1 THEN Null ELSE n + 1]
  /\ freeList = 0
  /\ listHead = Null
  /\ listResult = "none"

\* The nodes from one on.
Chain(n) ==
  LET from[fuel \in 0 .. LIST_LENGTH] ==
        [k \in ListNode \cup {Null} |->
           IF k = Null \/ fuel = 0 THEN <<>> ELSE <<k>> \o from[fuel - 1][listNext[k]]]
  IN  from[LIST_LENGTH][n]

LastOf(s) == s[Len(s)]

Linked(at, node) == [listNext EXCEPT ![at] = node]

ListPush(v, Links(_), first) ==
  \/ /\ freeList = Null
     /\ listResult' = "full"
     /\ UNCHANGED <<listData, listNext, freeList, listHead>>
  \/ /\ freeList # Null
     /\ freeList' = listNext[freeList]
     /\ listData' = [listData EXCEPT ![freeList] = v]
     /\ listNext' = Links(freeList)
     /\ listHead' = first
     /\ listResult' = "ok"

\* The tail is found by walking from the head.
BehindHead(node) ==
  IF listHead = Null THEN Linked(node, Null) ELSE [Linked(node, Null) EXCEPT ![listHead] = node]
BehindTail(node) ==
  IF listHead = Null THEN Linked(node, Null)
  ELSE [Linked(node, Null) EXCEPT ![LastOf(Chain(listHead))] = node]

ListPushBack(v) ==
  ListPush(v, BehindTail, IF listHead = Null THEN freeList ELSE listHead)

ListPushFront(v) ==
  LET BeforeHead(node) == Linked(node, listHead) IN ListPush(v, BeforeHead, freeList)

\* The node is linked behind the first free one: the rest of the free list is cut off.
FreedLinks(node) ==
  IF freeList = Null THEN Linked(node, Null)
  ELSE [Linked(node, Null) EXCEPT ![freeList] = node]

ListPopFront ==
  \/ /\ listHead = Null
     /\ listResult' = "empty"
     /\ UNCHANGED <<listData, listNext, freeList, listHead>>
  \/ /\ listHead # Null
     /\ listResult' = listData[listHead]
     /\ listHead' = listNext[listHead]
     /\ listNext' = FreedLinks(listHead)
     /\ freeList' = IF freeList = Null THEN listHead ELSE freeList
     /\ UNCHANGED listData

ListNextCall ==
  (\E v \in Item : ListPushBack(v) \/ ListPushFront(v)) \/ ListPopFront

-----------------------------------------------------------------------------
QueueInit ==
  /\ queueData \in [QueueSlot -> {CHOOSE v \in Item : TRUE}]
  /\ queueHead = 0 /\ queueTail = 0 /\ queueCount = 0
  /\ queueResult = "none"

\* (length - 1) masks a power of two
NextSlot(i) == (i + 1) % QUEUE_LENGTH
QueueIsFull == queueCount = QUEUE_LENGTH

QueuePush(v) ==
  \/ /\ QueueIsFull
     /\ queueResult' = "full"
     /\ UNCHANGED <<queueData, queueHead, queueTail, queueCount>>
  \/ /\ ~QueueIsFull
     /\ queueData' = [queueData EXCEPT ![queueTail] = v]
     /\ queueTail' = NextSlot(queueTail)
     /\ queueCount' = queueCount + 1
     /\ queueResult' = "ok"
     /\ UNCHANGED queueHead

QueuePop ==
  \/ /\ queueCount = 0
     /\ queueResult' = "empty"
     /\ UNCHANGED <<queueData, queueHead, queueTail, queueCount>>
  \/ /\ queueCount # 0
     /\ queueCount' = queueCount - 1
     /\ queueResult' = queueData[queueHead]
     /\ queueHead' = NextSlot(queueHead)
     /\ UNCHANGED <<queueData, queueTail>>

QueuePeek ==
  /\ queueResult' = IF queueCount = 0 THEN "empty" ELSE queueData[queueHead]
  /\ UNCHANGED <<queueData, queueHead, queueTail, queueCount>>

QueueNext == (\E v \in Item : QueuePush(v)) \/ QueuePop \/ QueuePeek

-----------------------------------------------------------------------------
Copies(node) == Cardinality({i \in DOMAIN heap.slot : heap.slot[i] = node})

CheapestFirst == INSTANCE CostBag
  WITH Node <- HeapNode, SIZE <- HEAP_SIZE, result <- heapResult,
       bag <- [node \in HeapNode |-> Copies(node)], held <- HEAP_SIZE - Len(heap.free)

ListRoom(room) == IF room = 0 THEN 1 ELSE 2

InList == INSTANCE BoundedSequence
  WITH LENGTH <- LIST_LENGTH, RoomAfterPop <- ListRoom, result <- listResult,
       contents <- [i \in 1 .. Len(Chain(listHead)) |-> listData[Chain(listHead)[i]]],
       room <- Len(Chain(freeList))

QueueRoom(room) == room + 1

InQueue == INSTANCE BoundedSequence
  WITH LENGTH <- QUEUE_LENGTH, RoomAfterPop <- QueueRoom, result <- queueResult,
       contents <- [i \in 1 .. queueCount |-> queueData[(queueHead + i - 1) % QUEUE_LENGTH]],
       room <- QUEUE_LENGTH - queueCount

\* The heap gives back every node that was pushed once, one of the cheapest each time, and
\* refuses one only when all slots are taken, though holes move and fill up again in the
\* order of the free list.  Values leave a list and a queue once and in order, whatever was
\* pushed, popped and refused before; a queue takes as many as it has slots, but a list has
\* room for at most two more after a value has been taken from it, whatever its length was:
\* the other free nodes are cut off (heap.c:29-103, list.c:17-74, queue.c:18-55).
ContainersKeep == CheapestFirst!Spec /\ InList!Spec /\ InQueue!Spec
=============================================================================
