---------------------------- MODULE MCTrainLine ----------------------------
(* A small instance of TrainLine for TLC. *)
EXTENDS TrainLine
=============================================================================
