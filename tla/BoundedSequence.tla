--------------------------- MODULE BoundedSequence ---------------------------
(***************************************************************************)
(* What the users of a list and of a queue rely on: values in order, with  *)
(* room for so many more.  How much room there is after a value has been   *)
(* taken is up to the container.                                           *)
(***************************************************************************)
EXTENDS Naturals, Sequences

CONSTANTS Item, LENGTH, RoomAfterPop(_)

VARIABLES contents, room, result

vars == <<contents, room, result>>

Init == contents = <<>> /\ room = LENGTH /\ result = "none"

Added(s) ==
  /\ room > 0
  /\ contents' = s
  /\ room' = room - 1
  /\ result' = "ok"

Refused == room = 0 /\ result' = "full" /\ UNCHANGED <<contents, room>>

PushBack(v)  == Added(Append(contents, v)) \/ Refused
PushFront(v) == Added(<<v>> \o contents) \/ Refused

Pop ==
  \/ /\ contents = <<>>
     /\ result' = "empty"
     /\ UNCHANGED <<contents, room>>
  \/ /\ contents # <<>>
     /\ result' = Head(contents)
     /\ contents' = Tail(contents)
     /\ room' = RoomAfterPop(room)

Peek ==
  /\ result' = IF contents = <<>> THEN "empty" ELSE Head(contents)
  /\ UNCHANGED <<contents, room>>

Next == (\E v \in Item : PushBack(v) \/ PushFront(v)) \/ Pop \/ Peek

Spec == Init /\ [][Next]_vars
=============================================================================
