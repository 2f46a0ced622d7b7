------------------------------ MODULE Solenoid ------------------------------
(***************************************************************************)
(* What the track sees of the switch server: the switches are thrown in    *)
(* the order in which the orders were taken, and the current through the   *)
(* coils is switched off at most once after each.                          *)
(***************************************************************************)
EXTENDS Sequences

CONSTANT Turn

VARIABLES
  pending,   \* switches to be thrown
  live       \* the last command on the track

vars == <<pending, live>>

Init == pending = <<>> /\ live = "none"

Order(t) == pending' = Append(pending, t) /\ UNCHANGED live

Throw ==
  /\ pending # <<>>
  /\ live' = Head(pending)
  /\ pending' = Tail(pending)

TurnOff == live # "off" /\ live' = "off" /\ UNCHANGED pending

Next == (\E t \in Turn : Order(t)) \/ Throw \/ TurnOff

Spec == Init /\ [][Next]_vars
=============================================================================
