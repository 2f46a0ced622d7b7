------------------------------ MODULE ByteLine ------------------------------
(***************************************************************************)
(* What the train driver promises about the bytes on the line: those of a  *)
(* command leave together, and commands leave in the order in which the    *)
(* driver accepts them.                                                    *)
(***************************************************************************)
EXTENDS Sequences

CONSTANTS Command, Bytes(_)   \* the bytes of each command

VARIABLES
  line,   \* the bytes that are still to leave
  sent    \* the last one that left

vars == <<line, sent>>

Init == line = <<>> /\ sent = <<>>

Accept(c) ==
  /\ line' = line \o Bytes(c)
  /\ UNCHANGED sent

Transmit ==
  /\ line # <<>>
  /\ sent' = Head(line)
  /\ line' = Tail(line)

Next == Transmit \/ \E c \in Command : Accept(c)

Spec == Init /\ [][Next]_vars
=============================================================================
