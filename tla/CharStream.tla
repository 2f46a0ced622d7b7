----------------------------- MODULE CharStream -----------------------------
(***************************************************************************)
(* What the terminal driver promises of the characters: the screen shows   *)
(* the strings one after the other, in the order in which they are         *)
(* accepted; keys are read in the order in which they were struck, and     *)
(* one is dropped only when DEPTH others are waiting to be read.  An empty *)
(* string that comes when all is shown ends what is promised of the        *)
(* screen, but not of the keys.                                            *)
(***************************************************************************)
EXTENDS Naturals, Sequences, SequencesExt

CONSTANTS Str, Key, DEPTH

VARIABLES
  unshown,  \* characters accepted and not yet on the screen
  screen,   \* the last one on the screen
  unread,   \* keys struck and not yet read
  read,     \* the last one that was read
  stray     \* whether the screen may show anything

vars == <<unshown, screen, unread, read, stray>>

Init == unshown = <<>> /\ screen = <<>> /\ unread = <<>> /\ read = <<>> /\ stray = FALSE

Accept(s) ==
  /\ unshown' = unshown \o s
  /\ UNCHANGED <<screen, unread, read, stray>>

Show ==
  /\ unshown # <<>>
  /\ screen' = <<Head(unshown)>>
  /\ unshown' = Tail(unshown)
  /\ UNCHANGED <<unread, read, stray>>

\* The empty string takes along what is not there, and from then on nothing is sure.
GoAstray ==
  /\ <<>> \in Str /\ unshown = <<>> /\ stray' = TRUE
  /\ UNCHANGED <<screen, unread, read>>

Astray == stray /\ UNCHANGED <<unread, read, stray>>

Strike(k) ==
  /\ unread' = Append(unread, k)
  /\ UNCHANGED <<unshown, screen, read, stray>>

Drop ==
  /\ Len(unread) > DEPTH
  /\ unread' = Front(unread)
  /\ UNCHANGED <<unshown, screen, read, stray>>

Read ==
  /\ unread # <<>>
  /\ read' = <<Head(unread)>>
  /\ unread' = Tail(unread)
  /\ UNCHANGED <<unshown, screen, stray>>

Next ==
  \/ \E s \in Str : Accept(s)
  \/ \E k \in Key : Strike(k)
  \/ Show \/ GoAstray \/ Astray
  \/ Drop \/ Read

Spec == Init /\ [][Next]_vars
=============================================================================
