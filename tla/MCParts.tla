------------------------------ MODULE MCParts -------------------------------
(***************************************************************************)
(* Small instances of parts that are checked for safety alone: the ring of *)
(* ready tasks, the containers of src/common, the search for paths on the  *)
(* two tracks, the switch office, and the locomotives with the track       *)
(* manager.  They share nothing, so one run checks each by itself:         *)
(* `subject' says which of them moves.                                     *)
(***************************************************************************)
EXTENDS PriorityQueue, Containers, PathFind, SwitchOffice, Locomotives

VARIABLE subject

BothTracks == [A |-> TrackA, B |-> TrackB]

\* A search starts at the sensor where a train is.
SensorsOf(track) == {n \in TrackNode : track[n].type = "sensor"}
AllJourneys == ({"A"} \X SensorsOf(TrackA)) \cup ({"B"} \X SensorsOf(TrackB))

\* The branch that is thrown with another.
BranchPair == [b \in {"b156"} |-> "b155"]
Thrown     == [b155 |-> "curved", b156 |-> "straight"]

\* A ring of three pairs of sensors, 0 to 5, of which even ones face one way round; and a loop
\* that turns trains, 8 and 9, on a stem, 6 and 7, that ends at an exit, 10, where trains come
\* in at 11.
RingSegment  == 0 .. 5
RingNode     == 0 .. 11
RingOpposite == [n \in RingNode |-> IF n % 2 = 0 THEN n + 1 ELSE n - 1]
RingPair     == [n \in RingNode |-> n \div 2]
Stem         == (6 :> {8, 9}) @@ (8 :> {7}) @@ (9 :> {7}) @@ (7 :> {10}) @@ (10 :> {})
                @@ (11 :> {6})
RingAhead    == [n \in RingNode |-> IF n >= 6 THEN Stem[n]
                                  ELSE {IF n % 2 = 0 THEN (n + 2) % 6 ELSE (n + 4) % 6}]
RingSensors  == [n \in RingNode |-> RingAhead[n] \ {10, 11}]
RingFoundAt  == [t1 |-> {0, 1, 8, 9}, t2 |-> {2, 3, 4, 5, 6, 7}]

\* What can be come to in at most k steps.
Within[k \in 1 .. 12] ==
  IF k = 1 THEN RingAhead
  ELSE [n \in RingNode |-> RingAhead[n] \cup UNION {Within[k - 1][m] : m \in RingAhead[n]}]
RingBeyond == Within[12]

\* Two trains that drive on, or one that stops while the other stands.
BothDrive  == [t1 |-> <<"goto", "goto">>, t2 |-> <<"goto">>]
OneStops   == [t1 |-> <<"stop", "zero">>, t2 |-> <<>>]
RingOrders == {BothDrive, OneStops}

-----------------------------------------------------------------------------
\* A part whose turn it is not stays in one initial state.
Waits(s) == subject # s

MCInit ==
  /\ subject \in {"rings", "heap", "list", "queue", "path", "office", "trains"}
  /\ Init /\ HeapInit /\ ListInit /\ QueueInit
  /\ PathInit
  /\ Waits("path") => <<layout, start>> = <<"A", 0>>
  /\ OfficeInit
  /\ LocoInit
  /\ Waits("trains") => orders = BothDrive

MCNext ==
  /\ UNCHANGED subject
  /\ IF Waits("rings") THEN UNCHANGED vars ELSE Next
  /\ IF Waits("heap") THEN UNCHANGED HeapVars ELSE HeapNext
  /\ IF Waits("list") THEN UNCHANGED ListVars ELSE ListNextCall
  /\ IF Waits("queue") THEN UNCHANGED QueueVars ELSE QueueNext
  /\ IF Waits("path") THEN UNCHANGED PathVars ELSE PathNext
  /\ IF Waits("office") THEN UNCHANGED OfficeVars ELSE OfficeNext
  /\ IF Waits("trains") THEN UNCHANGED LocoVars ELSE LocoNext

MCVars == <<subject, vars, HeapVars, ListVars, QueueVars, PathVars, OfficeVars, LocoVars>>

MCSpec == MCInit /\ [][MCNext]_MCVars

\* The types of the rings, whose indices stay in range and meet at a level without its bit, of
\* the switch office and of the locomotives.
PartsTypeOK == RingOK /\ OfficeTypeOK /\ LocoTypeOK
=============================================================================
