-------------------------------- MODULE Track --------------------------------
(***************************************************************************)
(* The two tracks of the laboratory, as trains/trackData.c describes them: *)
(* a graph of 144 nodes, one for each direction in which a place can be    *)
(* passed.  Node n of a track is element n of a function from 0 on.        *)
(***************************************************************************)
EXTENDS Integers, Sequences

AHEAD  == 0   \* also the way straight on at a branch
CURVED == 1

\* Every node has two edges.  To(dest, dist, node, dir) leads to dest, dist millimetres
\* away, and is the way back of edge dir of node.  NoEdge has the address 0 as its dest.
To(dest, dist, node, dir) == [dest |-> dest, dist |-> dist, back |-> <<node, dir>>]
NoEdge == [dest |-> -1, dist |-> 0, back |-> <<-1, AHEAD>>]

Node(type, num, reverse, ahead, curved) ==
  [type |-> type, num |-> num, reverse |-> reverse,
   edge |-> [d \in {AHEAD, CURVED} |-> IF d = AHEAD THEN ahead ELSE curved]]

Sensor(num, reverse, ahead) == Node("sensor", num, reverse, ahead, NoEdge)
Branch(num, reverse, straight, curved) == Node("branch", num, reverse, straight, curved)
Merge(num, reverse, ahead) == Node("merge", num, reverse, ahead, NoEdge)
Enter(reverse, ahead) == Node("enter", 0, reverse, ahead, NoEdge)
Exit(reverse) == Node("exit", 0, reverse, NoEdge, NoEdge)
None == Node("none", 0, -1, NoEdge, NoEdge)

TRACK_MAX == 144
TrackNode == 0 .. TRACK_MAX - 1

\* memset leaves the nodes that a track does not have without a type.
Indexed(nodes) == [n \in TrackNode |-> IF n < Len(nodes) THEN nodes[n + 1] ELSE None]

-----------------------------------------------------------------------------
TrackA0to17 == <<
  Sensor(0, 1, To(103, 218, 102, AHEAD)), Sensor(1, 0, To(133, 500, 132, AHEAD)),
  Sensor(2, 3, To(106, 62, 107, AHEAD)), Sensor(3, 2, To(31, 440, 30, AHEAD)),
  Sensor(4, 5, To(85, 216, 84, AHEAD)), Sensor(5, 4, To(25, 649, 24, AHEAD)),
  Sensor(6, 7, To(27, 473, 26, AHEAD)), Sensor(7, 6, To(83, 211, 82, CURVED)),
  Sensor(8, 9, To(23, 289, 22, AHEAD)), Sensor(9, 8, To(81, 210, 80, CURVED)),
  Sensor(10, 11, To(81, 410, 80, AHEAD)), Sensor(11, 10, To(139, 60, 138, AHEAD)),
  Sensor(12, 13, To(87, 215, 86, CURVED)), Sensor(13, 12, To(131, 320, 130, AHEAD)),
  Sensor(14, 15, To(135, 145, 134, AHEAD)), Sensor(15, 14, To(87, 394, 86, AHEAD)),
  Sensor(16, 17, To(61, 398, 60, AHEAD)), Sensor(17, 16, To(111, 225, 110, AHEAD))>>

TrackA18to35 == <<
  Sensor(18, 19, To(33, 230, 32, AHEAD)), Sensor(19, 18, To(111, 220, 110, CURVED)),
  Sensor(20, 21, To(50, 405, 51, AHEAD)), Sensor(21, 20, To(105, 214, 104, AHEAD)),
  Sensor(22, 23, To(9, 289, 8, AHEAD)), Sensor(23, 22, To(137, 60, 136, AHEAD)),
  Sensor(24, 25, To(4, 649, 5, AHEAD)), Sensor(25, 24, To(141, 70, 140, AHEAD)),
  Sensor(26, 27, To(7, 473, 6, AHEAD)), Sensor(27, 26, To(143, 70, 142, AHEAD)),
  Sensor(28, 29, To(119, 224, 118, CURVED)), Sensor(29, 28, To(63, 202, 62, AHEAD)),
  Sensor(30, 31, To(2, 440, 3, AHEAD)), Sensor(31, 30, To(108, 70, 109, AHEAD)),
  Sensor(32, 33, To(19, 230, 18, AHEAD)), Sensor(33, 32, To(117, 228, 116, CURVED)),
  Sensor(34, 35, To(129, 410, 128, AHEAD)), Sensor(35, 34, To(89, 226, 88, AHEAD))>>

TrackA36to53 == <<
  Sensor(36, 37, To(90, 79, 91, AHEAD)), Sensor(37, 36, To(109, 411, 108, AHEAD)),
  Sensor(38, 39, To(115, 215, 114, AHEAD)), Sensor(39, 38, To(84, 145, 85, AHEAD)),
  Sensor(40, 41, To(109, 305, 108, CURVED)), Sensor(41, 40, To(110, 146, 111, AHEAD)),
  Sensor(42, 43, To(104, 140, 105, AHEAD)), Sensor(43, 42, To(107, 314, 106, CURVED)),
  Sensor(44, 45, To(70, 877, 71, AHEAD)), Sensor(45, 44, To(100, 60, 101, AHEAD)),
  Sensor(46, 47, To(59, 405, 58, AHEAD)), Sensor(47, 46, To(91, 223, 90, AHEAD)),
  Sensor(48, 49, To(121, 227, 120, CURVED)), Sensor(49, 48, To(67, 200, 66, AHEAD)),
  Sensor(50, 51, To(99, 223, 98, AHEAD)), Sensor(51, 50, To(21, 405, 20, AHEAD)),
  Sensor(52, 53, To(69, 375, 68, AHEAD)), Sensor(53, 52, To(97, 213, 96, CURVED))>>

TrackA54to71 == <<
  Sensor(54, 55, To(97, 290, 96, AHEAD)), Sensor(55, 54, To(71, 375, 70, AHEAD)),
  Sensor(56, 57, To(75, 361, 74, AHEAD)), Sensor(57, 56, To(95, 291, 94, AHEAD)),
  Sensor(58, 59, To(47, 405, 46, AHEAD)), Sensor(59, 58, To(93, 220, 92, AHEAD)),
  Sensor(60, 61, To(17, 398, 16, AHEAD)), Sensor(61, 60, To(113, 225, 112, AHEAD)),
  Sensor(62, 63, To(28, 202, 29, AHEAD)), Sensor(63, 62, To(113, 230, 112, CURVED)),
  Sensor(64, 65, To(123, 222, 122, CURVED)), Sensor(65, 64, To(78, 203, 79, AHEAD)),
  Sensor(66, 67, To(48, 200, 49, AHEAD)), Sensor(67, 66, To(99, 220, 98, CURVED)),
  Sensor(68, 69, To(53, 375, 52, AHEAD)), Sensor(69, 68, To(98, 74, 99, AHEAD)),
  Sensor(70, 71, To(54, 375, 55, AHEAD)), Sensor(71, 70, To(45, 877, 44, AHEAD))>>

TrackA72to87 == <<
  Sensor(72, 73, To(95, 215, 94, CURVED)), Sensor(73, 72, To(76, 375, 77, AHEAD)),
  Sensor(74, 75, To(57, 361, 56, AHEAD)), Sensor(75, 74, To(92, 65, 93, AHEAD)),
  Sensor(76, 77, To(112, 62, 113, AHEAD)), Sensor(77, 76, To(72, 375, 73, AHEAD)),
  Sensor(78, 79, To(105, 230, 104, CURVED)), Sensor(79, 78, To(64, 203, 65, AHEAD)),
  Branch(1, 81, To(11, 410, 10, AHEAD), To(8, 210, 9, AHEAD)),
  Merge(1, 80, To(83, 191, 82, AHEAD)),
  Branch(2, 83, To(80, 191, 81, AHEAD), To(6, 211, 7, AHEAD)),
  Merge(2, 82, To(85, 182, 84, CURVED)),
  Branch(3, 85, To(5, 216, 4, AHEAD), To(82, 182, 83, AHEAD)),
  Merge(3, 84, To(38, 145, 39, AHEAD)),
  Branch(4, 87, To(14, 394, 15, AHEAD), To(13, 215, 12, AHEAD)),
  Merge(4, 86, To(103, 185, 102, CURVED))>>

TrackA88to101 == <<
  Branch(5, 89, To(34, 226, 35, AHEAD), To(93, 334, 92, CURVED)),
  Merge(5, 88, To(114, 187, 115, AHEAD)),
  Branch(6, 91, To(46, 223, 47, AHEAD), To(115, 338, 114, CURVED)),
  Merge(6, 90, To(37, 79, 36, AHEAD)),
  Branch(7, 93, To(58, 220, 59, AHEAD), To(89, 334, 88, CURVED)),
  Merge(7, 92, To(74, 65, 75, AHEAD)),
  Branch(8, 95, To(56, 291, 57, AHEAD), To(73, 215, 72, AHEAD)),
  Merge(8, 94, To(96, 193, 97, AHEAD)),
  Branch(9, 97, To(55, 290, 54, AHEAD), To(52, 213, 53, AHEAD)),
  Merge(9, 96, To(94, 193, 95, AHEAD)),
  Branch(10, 99, To(51, 223, 50, AHEAD), To(66, 220, 67, AHEAD)),
  Merge(10, 98, To(68, 74, 69, AHEAD)),
  Branch(11, 101, To(102, 190, 103, AHEAD), To(107, 445, 106, AHEAD)),
  Merge(11, 100, To(44, 60, 45, AHEAD))>>

TrackA102to115 == <<
  Branch(12, 103, To(1, 218, 0, AHEAD), To(86, 185, 87, AHEAD)),
  Merge(12, 102, To(101, 190, 100, AHEAD)),
  Branch(13, 105, To(20, 214, 21, AHEAD), To(79, 230, 78, AHEAD)),
  Merge(13, 104, To(43, 140, 42, AHEAD)),
  Branch(14, 107, To(101, 445, 100, CURVED), To(42, 314, 43, AHEAD)),
  Merge(14, 106, To(3, 62, 2, AHEAD)),
  Branch(15, 109, To(36, 411, 37, AHEAD), To(41, 305, 40, AHEAD)),
  Merge(15, 108, To(30, 70, 31, AHEAD)),
  Branch(16, 111, To(16, 225, 17, AHEAD), To(18, 220, 19, AHEAD)),
  Merge(16, 110, To(40, 146, 41, AHEAD)),
  Branch(17, 113, To(60, 225, 61, AHEAD), To(62, 230, 63, AHEAD)),
  Merge(17, 112, To(77, 62, 76, AHEAD)),
  Branch(18, 115, To(39, 215, 38, AHEAD), To(91, 338, 90, CURVED)),
  Merge(18, 114, To(88, 187, 89, AHEAD))>>

TrackA116to137 == <<
  Branch(153, 117, To(125, 230, 124, AHEAD), To(32, 228, 33, AHEAD)),
  Merge(153, 116, To(119, 24, 118, AHEAD)),
  Branch(154, 119, To(116, 24, 117, AHEAD), To(29, 224, 28, AHEAD)),
  Merge(154, 118, To(122, 32, 123, AHEAD)),
  Branch(155, 121, To(127, 247, 126, AHEAD), To(49, 227, 48, AHEAD)),
  Merge(155, 120, To(123, 24, 122, AHEAD)),
  Branch(156, 123, To(120, 24, 121, AHEAD), To(65, 222, 64, AHEAD)),
  Merge(156, 122, To(118, 32, 119, AHEAD)), Enter(125, To(117, 230, 116, AHEAD)), Exit(124),
  Enter(127, To(121, 247, 120, AHEAD)), Exit(126), Enter(129, To(35, 410, 34, AHEAD)),
  Exit(128), Enter(131, To(12, 320, 13, AHEAD)), Exit(130), Enter(133, To(0, 500, 1, AHEAD)),
  Exit(132), Enter(135, To(15, 145, 14, AHEAD)), Exit(134), Enter(137, To(22, 60, 23, AHEAD)),
  Exit(136)>>

TrackA138to143 == <<
  Enter(139, To(10, 60, 11, AHEAD)), Exit(138), Enter(141, To(24, 70, 25, AHEAD)), Exit(140),
  Enter(143, To(26, 70, 27, AHEAD)), Exit(142)>>

TrackB0to17 == <<
  Sensor(0, 1, To(103, 218, 102, AHEAD)), Sensor(1, 0, To(133, 500, 132, AHEAD)),
  Sensor(2, 3, To(106, 62, 107, AHEAD)), Sensor(3, 2, To(31, 440, 30, AHEAD)),
  Sensor(4, 5, To(85, 216, 84, AHEAD)), Sensor(5, 4, To(25, 649, 24, AHEAD)),
  Sensor(6, 7, To(27, 473, 26, AHEAD)), Sensor(7, 6, To(83, 211, 82, CURVED)),
  Sensor(8, 9, To(23, 289, 22, AHEAD)), Sensor(9, 8, To(81, 210, 80, CURVED)),
  Sensor(10, 11, To(81, 265, 80, AHEAD)), Sensor(11, 10, To(15, 774, 14, AHEAD)),
  Sensor(12, 13, To(87, 215, 86, CURVED)), Sensor(13, 12, To(131, 320, 130, AHEAD)),
  Sensor(14, 15, To(10, 774, 11, AHEAD)), Sensor(15, 14, To(87, 260, 86, AHEAD)),
  Sensor(16, 17, To(61, 398, 60, AHEAD)), Sensor(17, 16, To(111, 225, 110, AHEAD))>>

TrackB18to35 == <<
  Sensor(18, 19, To(33, 230, 32, AHEAD)), Sensor(19, 18, To(111, 220, 110, CURVED)),
  Sensor(20, 21, To(50, 405, 51, AHEAD)), Sensor(21, 20, To(105, 214, 104, AHEAD)),
  Sensor(22, 23, To(9, 289, 8, AHEAD)), Sensor(23, 22, To(135, 60, 134, AHEAD)),
  Sensor(24, 25, To(4, 649, 5, AHEAD)), Sensor(25, 24, To(137, 70, 136, AHEAD)),
  Sensor(26, 27, To(7, 473, 6, AHEAD)), Sensor(27, 26, To(139, 70, 138, AHEAD)),
  Sensor(28, 29, To(119, 224, 118, CURVED)), Sensor(29, 28, To(63, 202, 62, AHEAD)),
  Sensor(30, 31, To(2, 440, 3, AHEAD)), Sensor(31, 30, To(108, 70, 109, AHEAD)),
  Sensor(32, 33, To(19, 230, 18, AHEAD)), Sensor(33, 32, To(117, 228, 116, CURVED)),
  Sensor(34, 35, To(129, 410, 128, AHEAD)), Sensor(35, 34, To(89, 226, 88, AHEAD))>>

TrackB36to53 == <<
  Sensor(36, 37, To(90, 79, 91, AHEAD)), Sensor(37, 36, To(109, 411, 108, AHEAD)),
  Sensor(38, 39, To(115, 215, 114, AHEAD)), Sensor(39, 38, To(84, 145, 85, AHEAD)),
  Sensor(40, 41, To(109, 305, 108, CURVED)), Sensor(41, 40, To(110, 146, 111, AHEAD)),
  Sensor(42, 43, To(104, 140, 105, AHEAD)), Sensor(43, 42, To(107, 314, 106, CURVED)),
  Sensor(44, 45, To(70, 785, 71, AHEAD)), Sensor(45, 44, To(100, 60, 101, AHEAD)),
  Sensor(46, 47, To(59, 405, 58, AHEAD)), Sensor(47, 46, To(91, 223, 90, AHEAD)),
  Sensor(48, 49, To(121, 227, 120, CURVED)), Sensor(49, 48, To(67, 200, 66, AHEAD)),
  Sensor(50, 51, To(99, 223, 98, AHEAD)), Sensor(51, 50, To(21, 405, 20, AHEAD)),
  Sensor(52, 53, To(69, 275, 68, AHEAD)), Sensor(53, 52, To(97, 213, 96, CURVED))>>

TrackB54to71 == <<
  Sensor(54, 55, To(97, 290, 96, AHEAD)), Sensor(55, 54, To(71, 375, 70, AHEAD)),
  Sensor(56, 57, To(75, 284, 74, AHEAD)), Sensor(57, 56, To(95, 291, 94, AHEAD)),
  Sensor(58, 59, To(47, 405, 46, AHEAD)), Sensor(59, 58, To(93, 220, 92, AHEAD)),
  Sensor(60, 61, To(17, 398, 16, AHEAD)), Sensor(61, 60, To(113, 225, 112, AHEAD)),
  Sensor(62, 63, To(28, 202, 29, AHEAD)), Sensor(63, 62, To(113, 230, 112, CURVED)),
  Sensor(64, 65, To(123, 222, 122, CURVED)), Sensor(65, 64, To(78, 203, 79, AHEAD)),
  Sensor(66, 67, To(48, 200, 49, AHEAD)), Sensor(67, 66, To(99, 220, 98, CURVED)),
  Sensor(68, 69, To(53, 275, 52, AHEAD)), Sensor(69, 68, To(98, 74, 99, AHEAD)),
  Sensor(70, 71, To(54, 375, 55, AHEAD)), Sensor(71, 70, To(45, 785, 44, AHEAD))>>

TrackB72to87 == <<
  Sensor(72, 73, To(95, 215, 94, CURVED)), Sensor(73, 72, To(76, 275, 77, AHEAD)),
  Sensor(74, 75, To(57, 284, 56, AHEAD)), Sensor(75, 74, To(92, 65, 93, AHEAD)),
  Sensor(76, 77, To(112, 62, 113, AHEAD)), Sensor(77, 76, To(72, 275, 73, AHEAD)),
  Sensor(78, 79, To(105, 230, 104, CURVED)), Sensor(79, 78, To(64, 203, 65, AHEAD)),
  Branch(1, 81, To(11, 265, 10, AHEAD), To(8, 210, 9, AHEAD)),
  Merge(1, 80, To(83, 191, 82, AHEAD)),
  Branch(2, 83, To(80, 191, 81, AHEAD), To(6, 211, 7, AHEAD)),
  Merge(2, 82, To(85, 182, 84, CURVED)),
  Branch(3, 85, To(5, 216, 4, AHEAD), To(82, 182, 83, AHEAD)),
  Merge(3, 84, To(38, 145, 39, AHEAD)),
  Branch(4, 87, To(14, 260, 15, AHEAD), To(13, 215, 12, AHEAD)),
  Merge(4, 86, To(103, 185, 102, CURVED))>>

TrackB88to101 == <<
  Branch(5, 89, To(34, 226, 35, AHEAD), To(93, 334, 92, CURVED)),
  Merge(5, 88, To(114, 187, 115, AHEAD)),
  Branch(6, 91, To(46, 223, 47, AHEAD), To(115, 338, 114, CURVED)),
  Merge(6, 90, To(37, 79, 36, AHEAD)),
  Branch(7, 93, To(58, 220, 59, AHEAD), To(89, 334, 88, CURVED)),
  Merge(7, 92, To(74, 65, 75, AHEAD)),
  Branch(8, 95, To(56, 291, 57, AHEAD), To(73, 215, 72, AHEAD)),
  Merge(8, 94, To(96, 193, 97, AHEAD)),
  Branch(9, 97, To(55, 290, 54, AHEAD), To(52, 213, 53, AHEAD)),
  Merge(9, 96, To(94, 193, 95, AHEAD)),
  Branch(10, 99, To(51, 223, 50, AHEAD), To(66, 220, 67, AHEAD)),
  Merge(10, 98, To(68, 74, 69, AHEAD)),
  Branch(11, 101, To(102, 190, 103, AHEAD), To(107, 445, 106, AHEAD)),
  Merge(11, 100, To(44, 60, 45, AHEAD))>>

TrackB102to115 == <<
  Branch(12, 103, To(1, 218, 0, AHEAD), To(86, 185, 87, AHEAD)),
  Merge(12, 102, To(101, 190, 100, AHEAD)),
  Branch(13, 105, To(20, 214, 21, AHEAD), To(79, 230, 78, AHEAD)),
  Merge(13, 104, To(43, 140, 42, AHEAD)),
  Branch(14, 107, To(101, 445, 100, CURVED), To(42, 314, 43, AHEAD)),
  Merge(14, 106, To(3, 62, 2, AHEAD)),
  Branch(15, 109, To(36, 411, 37, AHEAD), To(41, 305, 40, AHEAD)),
  Merge(15, 108, To(30, 70, 31, AHEAD)),
  Branch(16, 111, To(16, 225, 17, AHEAD), To(18, 220, 19, AHEAD)),
  Merge(16, 110, To(40, 146, 41, AHEAD)),
  Branch(17, 113, To(60, 225, 61, AHEAD), To(62, 230, 63, AHEAD)),
  Merge(17, 112, To(77, 62, 76, AHEAD)),
  Branch(18, 115, To(39, 215, 38, AHEAD), To(91, 338, 90, CURVED)),
  Merge(18, 114, To(88, 187, 89, AHEAD))>>

TrackB116to137 == <<
  Branch(153, 117, To(125, 230, 124, AHEAD), To(32, 228, 33, AHEAD)),
  Merge(153, 116, To(119, 24, 118, AHEAD)),
  Branch(154, 119, To(116, 24, 117, AHEAD), To(29, 224, 28, AHEAD)),
  Merge(154, 118, To(122, 32, 123, AHEAD)),
  Branch(155, 121, To(127, 247, 126, AHEAD), To(49, 227, 48, AHEAD)),
  Merge(155, 120, To(123, 24, 122, AHEAD)),
  Branch(156, 123, To(120, 24, 121, AHEAD), To(65, 222, 64, AHEAD)),
  Merge(156, 122, To(118, 32, 119, AHEAD)), Enter(125, To(117, 230, 116, AHEAD)), Exit(124),
  Enter(127, To(121, 247, 120, AHEAD)), Exit(126), Enter(129, To(35, 410, 34, AHEAD)),
  Exit(128), Enter(131, To(12, 320, 13, AHEAD)), Exit(130), Enter(133, To(0, 500, 1, AHEAD)),
  Exit(132), Enter(135, To(22, 60, 23, AHEAD)), Exit(134), Enter(137, To(24, 70, 25, AHEAD)),
  Exit(136)>>

TrackB138to139 == <<
  Enter(139, To(26, 70, 27, AHEAD)), Exit(138)>>
-----------------------------------------------------------------------------
TrackA == Indexed(
  TrackA0to17 \o TrackA18to35 \o TrackA36to53 \o TrackA54to71 \o TrackA72to87
  \o TrackA88to101 \o TrackA102to115 \o TrackA116to137 \o TrackA138to143)

TrackB == Indexed(
  TrackB0to17 \o TrackB18to35 \o TrackB36to53 \o TrackB54to71 \o TrackB72to87
  \o TrackB88to101 \o TrackB102to115 \o TrackB116to137 \o TrackB138to139)

-----------------------------------------------------------------------------
\* The edges that a train can take from a node: the second one is for branches only.
Degree(node) == IF node.type = "branch" THEN 2 ELSE 1
Edges(node) == {d \in 0 .. Degree(node) - 1 : node.edge[d].dest # -1}

\* Who goes along an edge, turns around and takes its way back is where he was, after the same
\* distance; only an exit leads nowhere, and the reverse of a branch is a merge.
ASSUME TrackAssumption ==
  \A track \in {TrackA, TrackB} : \A n \in TrackNode :
    LET node == track[n] IN
    node.type # "none" =>
      /\ node.reverse # n /\ track[node.reverse].reverse = n
      /\ node.type = "branch" <=> track[node.reverse].type = "merge"
      /\ node.type = "exit" <=> Edges(node) = {}
      /\ \A d \in Edges(node) :
           LET edge == node.edge[d]
               back == track[edge.back[1]].edge[edge.back[2]]
           IN  /\ edge.back[1] = track[edge.dest].reverse
               /\ back.dest = node.reverse
               /\ back.dist = edge.dist
               /\ back.back = <<n, d>>
=============================================================================
