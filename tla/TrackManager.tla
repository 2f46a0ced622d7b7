---------------------------- MODULE TrackManager ----------------------------
(***************************************************************************)
(* The track manager's table of owners, and what a call of                 *)
(* trainAllocateTrack does to it and returns.  The caller is blocked while *)
(* the server works and other tasks only read the table, so a call is one  *)
(* step.  A pair of nodes, one for each direction, is a segment.           *)
(***************************************************************************)
EXTENDS Integers, Sequences, SequencesExt

CONSTANTS Segment, Train, Free

ASSUME TrackManagerAssumption == Segment \subseteq Nat /\ Free \notin Train

VARIABLE ownershipGraph

NobodyOwns == ownershipGraph = [s \in Segment |-> Free]
Owned(t) == {s \in Segment : ownershipGraph[s] = t}

Conflict(t, s) == ownershipGraph[s] \notin {t, Free}
Conflicts(t, list) == {i \in 1 .. Len(list) : Conflict(t, list[i])}
Granted(t, list) == Conflicts(t, list) = {}

\* Pass 1 leaves the table alone when it finds a conflict; otherwise everything that the train
\* owned is revoked and pass 2 allocates the list.
NothingRevoked(t) == ownershipGraph
Revoked(t) == [s \in Segment |-> IF ownershipGraph[s] = t THEN Free ELSE ownershipGraph[s]]
Allocate(t, list) ==
  ownershipGraph' = IF Granted(t, list)
                    THEN [s \in Segment |-> IF s \in ToSet(list) THEN t ELSE Revoked(t)[s]]
                    ELSE ownershipGraph

\* The caller is told the segment of the first conflict, negated: segment 0 tells it nothing.
Result(t, list) ==
  IF Granted(t, list) THEN 0
  ELSE -list[Min(Conflicts(t, list))]

\* trainWhoOwnsTrack
WhoOwns(s) == ownershipGraph[s]
=============================================================================
