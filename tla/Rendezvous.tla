---------------------------- MODULE Rendezvous ----------------------------
(***************************************************************************)
(* What the kernel promises about messages: a Send takes part in one       *)
(* rendezvous, it waits its turn at the receiver, the receiver takes it,   *)
(* and it is answered after that.  Ready queues, events, memory and the    *)
(* recycling of descriptors are left out, except that a recycled receiver  *)
(* forgets who waits for it.                                               *)
(***************************************************************************)
EXTENDS Naturals, Sequences

CONSTANT Task

VARIABLES
  waiting,   \* the senders that wait for each receiver, oldest first
  serving    \* <<sender, receiver>>: the message is taken and not answered

vars == <<waiting, serving>>

Init ==
  /\ waiting = [r \in Task |-> <<>>]
  /\ serving = {}

Involved(s) ==
  \/ \E r \in Task : \E i \in 1 .. Len(waiting[r]) : waiting[r][i] = s
  \/ \E r \in Task : <<s, r>> \in serving

\* The receiver is busy: the sender queues up.
Post(s, r) ==
  /\ ~Involved(s)
  /\ waiting' = [waiting EXCEPT ![r] = Append(@, s)]
  /\ UNCHANGED serving

\* The receiver was waiting, so nobody else was.
HandOver(s, r) ==
  /\ ~Involved(s)
  /\ waiting[r] = <<>>
  /\ serving' = serving \cup {<<s, r>>}
  /\ UNCHANGED waiting

\* The receiver takes the oldest message.
Take(r) ==
  /\ waiting[r] # <<>>
  /\ serving' = serving \cup {<<Head(waiting[r]), r>>}
  /\ waiting' = [waiting EXCEPT ![r] = Tail(@)]

Answer(s, r) ==
  /\ <<s, r>> \in serving
  /\ serving' = serving \ {<<s, r>>}
  /\ UNCHANGED waiting

Forget(r) ==
  /\ waiting' = [waiting EXCEPT ![r] = <<>>]
  /\ UNCHANGED serving

Next ==
  \E r \in Task :
    \/ Take(r)
    \/ Forget(r)
    \/ \E s \in Task : Post(s, r) \/ HandOver(s, r) \/ Answer(s, r)

Spec == Init /\ [][Next]_vars
=============================================================================
