------------------------------ MODULE PathFind ------------------------------
(***************************************************************************)
(* trains/trackGraph.c: the search for the shortest paths from a node to   *)
(* all others.  The end of the path matters only after the search, so one  *)
(* search is checked for every end.  A step takes one node from the heap.  *)
(***************************************************************************)
EXTENDS Heap, Track, FiniteSets

CONSTANTS
  Graph,          \* the graphs by name: of each node of TrackNode the record that Node makes
  Journey,        \* each a name of a graph, and a node from which a path is looked for
  OPEN_LENGTH,    \* slots of the heap
  COST_RANGE      \* 2^16: costs are U16, and the largest one means no path

NoPath == COST_RANGE - 1
NoWay  == 255     \* 0xFF: no node before this one

BranchesOf(track, nodes) == {n \in nodes : track[n].type = "branch"}

\* All the millimetres that lie behind some nodes, those of the longer edge behind a branch.
Millimetres(track, nodes) ==
  UNION {{n} \X (1 .. track[n].edge[d].dist) : n \in nodes, d \in {AHEAD, CURVED}}

\* The graph has fewer branches than the heap has slots, and is no longer than a cost can be.
Searchable(track) ==
  LET far == Cardinality(Millimetres(track, TrackNode))
  IN  /\ Cardinality(BranchesOf(track, TrackNode)) < OPEN_LENGTH
      /\ \A n \in TrackNode :
           /\ \A d \in {AHEAD, CURVED} : /\ track[n].edge[d].dist \in Nat
                                         /\ far + track[n].edge[d].dist < NoPath
           /\ \A d \in Edges(track[n]) : /\ track[n].edge[d].dest \in TrackNode
                                         /\ track[n].edge[d].dist > 0

ASSUME PathAssumption ==
  /\ OPEN_LENGTH \in Nat /\ OPEN_LENGTH % 2 = 1
  /\ COST_RANGE \in Nat
  /\ Journey \subseteq (DOMAIN Graph) \X TrackNode
  /\ \A name \in DOMAIN Graph : Searchable(Graph[name])

VARIABLES
  layout, start,
  qOpen,
  mapCameFrom,    \* the node before each node that was found
  costToNode,     \* of the nodes found; of the start, the way around and back to it
  pathFailed      \* an assertion failed: the heap is full

PathVars == <<layout, start, qOpen, mapCameFrom, costToNode, pathFailed>>

graph == Graph[layout]

PathInit ==
  /\ \E j \in Journey : layout = j[1] /\ start = j[2]
  /\ qOpen = HeapPush(EmptyHeap(OPEN_LENGTH), HEAP_NODE(start, 0))
  /\ mapCameFrom = [n \in TrackNode |-> NoWay]
  /\ costToNode = [n \in TrackNode |-> NoPath]
  /\ pathFailed = FALSE

-----------------------------------------------------------------------------
\* The edge d of the node `from' leads to a node that had been more costly.
NewCost(from, d) == (from.cost + graph[from.value].edge[d].dist) % COST_RANGE
FirstFound(cost, old) == old = NoPath
BetterThan(cost, old) == old > cost

\* One edge after the other, on the search so far.
RelaxedBy(search, from, d) ==
  LET dest == graph[from.value].edge[d].dest
      cost == NewCost(from, d)
  IN  IF d \notin Edges(graph[from.value]) \/ ~BetterThan(cost, search.cost[dest])
      THEN search
      ELSE [came   |-> [search.came EXCEPT ![dest] = from.value],
            cost   |-> [search.cost EXCEPT ![dest] = cost],
            failed |-> search.failed \/ HeapFull(search.open),
            open   |-> IF HeapFull(search.open) THEN search.open
                       ELSE HeapPush(search.open, HEAP_NODE(dest, cost))]

Expand ==
  /\ ~pathFailed
  /\ ~HeapEmpty(qOpen)
  /\ LET search  == [came |-> mapCameFrom, cost |-> costToNode, failed |-> FALSE,
                     open |-> HeapPop(qOpen)]
         current == HeapFirst(qOpen)
         after   == RelaxedBy(RelaxedBy(search, current, AHEAD), current, CURVED)
     IN  /\ mapCameFrom' = after.came
         /\ costToNode' = after.cost
         /\ qOpen' = after.open
         /\ pathFailed' = after.failed
  /\ UNCHANGED <<layout, start>>

Searched == HeapEmpty(qOpen) \/ pathFailed

PathDone == Searched /\ UNCHANGED PathVars

PathNext == Expand \/ PathDone

PathSpec == PathInit /\ [][PathNext]_PathVars

-----------------------------------------------------------------------------
\* The path to a node, from its end back to the start, once there is one.
CameFrom(n) == IF n = start THEN start ELSE mapCameFrom[n]
Reached(n) == n = start \/ mapCameFrom[n] # NoWay
CostTo(n) == IF n = start THEN 0 ELSE costToNode[n]

\* The goals that a train may pick at random when it has arrived.
AnySensor == 0 .. 79
Goal == (0 .. 79) \ {1, 5, 6, 8, 12, 13, 14, 23, 27, 25, 34, 39}
A12 == 11

-----------------------------------------------------------------------------
\* The search ends with shortest paths, though a node stays in the heap under costs that have
\* become too high and the start has no cost: the heap never fills up and no cost wraps,
\* every node that can be reached has a cost that no edge improves, and its path leads back to
\* the start with that cost (trackGraph.c:20-62).
PathsAreShortest ==
  /\ ~pathFailed
  /\ Searched =>
       /\ \A n \in TrackNode : Reached(n) =>
            \A d \in Edges(graph[n]) :
              /\ Reached(graph[n].edge[d].dest)
              /\ CostTo(graph[n].edge[d].dest) <= CostTo(n) + graph[n].edge[d].dist
       /\ \A n \in TrackNode \ {start} : Reached(n) =>
            /\ Reached(CameFrom(n))
            /\ \E d \in Edges(graph[CameFrom(n)]) :
                 /\ graph[CameFrom(n)].edge[d].dest = n
                 /\ graph[CameFrom(n)].edge[d].dist > 0
                 /\ CostTo(n) = CostTo(CameFrom(n)) + graph[CameFrom(n)].edge[d].dist

\* On the track that is used a train that has come to a goal can reach another one, so that it
\* finds one when it draws again until a search finds a path, with one exception: the list of
\* the sensors that are no goals lacks A12, where a train can only draw the place where it
\* stands (locomotiveState.c:498-510).
GoalsLeadOn ==
  Searched /\ layout = "A" /\ start \in Goal =>
    (start = A12 <=> \A n \in Goal \ {start} : ~Reached(n))
=============================================================================
