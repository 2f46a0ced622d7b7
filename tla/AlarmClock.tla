----------------------------- MODULE AlarmClock -----------------------------
(***************************************************************************)
(* What the clock server promises: who asks to sleep for d ticks of a      *)
(* clock is woken by the d-th tick after that, and by no other.            *)
(***************************************************************************)
EXTENDS Naturals

CONSTANTS Client, Clock, Delay

VARIABLE remaining   \* for each clock, the ticks each of its sleepers has left

Asleep(c) == \E k \in Clock : c \in DOMAIN remaining[k]

Init == remaining = [k \in Clock |-> [c \in {} |-> 0]]

Sleep(k, c, d) ==
  /\ ~Asleep(c)
  /\ remaining' = [remaining EXCEPT ![k] =
                     [x \in DOMAIN @ \cup {c} |-> IF x = c THEN d ELSE @[x]]]

Tick(k) ==
  remaining' = [remaining EXCEPT ![k] =
                  [c \in {x \in DOMAIN @ : @[x] > 1} |-> @[c] - 1]]

Next ==
  \E k \in Clock : Tick(k) \/ \E c \in Client, d \in Delay : Sleep(k, c, d)

Spec == Init /\ [][Next]_remaining
=============================================================================
