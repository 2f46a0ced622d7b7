---------------------------- MODULE MCClockServer ----------------------------
(* A small instance of ClockServer for TLC. *)
EXTENDS ClockServer

\* Targets that have passed, are due, and are ahead.
SomeAhead == {-1, 0, 2}
=============================================================================
