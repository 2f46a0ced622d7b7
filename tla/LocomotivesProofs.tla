------------------------- MODULE LocomotivesProofs --------------------------
(***************************************************************************)
(* What a locomotive holds true of its track, of its place and of its      *)
(* direction is so, for every number of trains, every track, exits and     *)
(* loops that turn trains included, every list of commands and every       *)
(* length of a claim.                                                      *)
(***************************************************************************)
EXTENDS Locomotives, SequenceTheorems, WellFoundedInduction, TLAPS

-----------------------------------------------------------------------------
(* Sequences of segments.                                                  *)

\* A set of numbers that has a member has a least one, which Min chooses.
LEMMA MinIsLeast ==
  ASSUME NEW S \in SUBSET Nat, S # {}
  PROVE  Min(S) \in S /\ \A i \in S : Min(S) <= i
<1>1. \E p \in S : \A r \in S : ~ (<<r, p>> \in OpToRel(<, Nat))
  BY NatLessThanWellFounded, WFMin
<1>2. ASSUME NEW m \in Nat, NEW n \in Nat, m < n
      PROVE  <<m, n>> \in OpToRel(<, Nat)
  BY <1>2 DEF OpToRel
<1>3. PICK p \in S : \A r \in S : ~ (<<r, p>> \in OpToRel(<, Nat))
  BY <1>1
<1>4. \A r \in S : p <= r
  <2> SUFFICES ASSUME NEW r \in S PROVE ~ (r < p)
    OBVIOUS
  <2> QED BY <1>2, <1>3
<1> QED
  BY <1>4 DEF Min

\* What locomotiveSensorUpdate keeps of its track is a list of segments.
LEMMA RestType ==
  ASSUME NEW list \in Seq(Segment), NEW s \in ToSet(list)
  PROVE  Rest(list, s) \in Seq(Segment)
<1> DEFINE I == {i \in DOMAIN list : list[i] = s}
<1>1. I # {} /\ I \in SUBSET Nat
  BY DEF ToSet
<1>2. Min(I) \in I
  BY <1>1, MinIsLeast
<1>3. Min(I) \in 1 .. Len(list)
  BY <1>2
<1>4. \A i \in Min(I) .. Len(list) : list[i] \in Segment
  BY <1>3
<1> QED
  BY <1>3, <1>4, SubSeqProperties DEF Rest

\* So is every claim.
LEMMA ClaimsType ==
  ASSUME NEW t \in Train, NEW list \in Claims(t)
  PROVE  list \in Seq(Segment)
<1>1. PICK w \in Walks : list = [i \in DOMAIN w |-> SegmentOf[w[i]]]
  BY DEF Claims
<1>2. PICK k \in 1 .. LONGEST : w \in [1 .. k -> TrackNodeId]
  BY DEF Walks
<1>3. k \in Nat
  BY LocomotivesAssumption
<1>4. list \in [1 .. k -> Segment]
  BY <1>1, <1>2, LocomotivesAssumption
<1> QED
  BY <1>3, <1>4, SeqDef

-----------------------------------------------------------------------------
(* The table of owners.                                                    *)

\* A call of trainAllocateTrack gives a train all of its list or nothing, and leaves the
\* track of the others alone.
LEMMA AllocationFacts ==
  ASSUME ownershipGraph \in [Segment -> Train \cup {Free}],
         NEW t \in Train, NEW list \in Seq(Segment), Allocate(t, list)
  PROVE  /\ ownershipGraph' \in [Segment -> Train \cup {Free}]
         /\ \A u \in Train \ {t} : Owned(u)' = Owned(u)
         /\ Granted(t, list) => Owned(t)' = ToSet(list) /\ Result(t, list) = 0
         /\ ~Granted(t, list) => Owned(t)' = Owned(t)
<1>1. ToSet(list) \subseteq Segment
  BY DEF ToSet
<1>2. CASE ~Granted(t, list)
  BY <1>2 DEF Allocate, Owned
<1>3. CASE Granted(t, list)
  <2>1. ownershipGraph' = [s \in Segment |-> IF s \in ToSet(list) THEN t ELSE Revoked(t)[s]]
    BY <1>3 DEF Allocate
  <2>2. \A s \in ToSet(list) : ownershipGraph[s] \in {t, Free}
    BY <1>3 DEF Granted, Conflicts, Conflict, ToSet
  <2>3. \A s \in Segment :
          ownershipGraph'[s] = IF s \in ToSet(list) THEN t
                               ELSE IF ownershipGraph[s] = t THEN Free ELSE ownershipGraph[s]
    BY <2>1 DEF Revoked
  <2>4. Free \notin Train
    BY TrackManagerAssumption
  <2>5. ownershipGraph' \in [Segment -> Train \cup {Free}]
    BY <2>1, <2>3
  <2>6. \A u \in Train \ {t} : Owned(u)' = Owned(u)
    BY <2>2, <2>3, <2>4 DEF Owned
  <2>7. Owned(t)' = ToSet(list)
    BY <1>1, <2>3, <2>4 DEF Owned
  <2> QED BY <1>3, <2>5, <2>6, <2>7 DEF Result
<1> QED BY <1>2, <1>3

-----------------------------------------------------------------------------
(* The inductive invariant.  A train whose task has noted a sensor has run *)
(* over one, and one that has not found itself has nothing to turn back    *)
(* from: without that its first sensor would show it facing the wrong way. *)
(* A task takes a speed only when one was asked for: without that the      *)
(* types would not be kept.                                                *)

\* What is noted in l is so of a train that ran last over p, unless a loop turned it.
Placed(l, p, lost) ==
  l.sensor # NoSensor =>
    /\ p \in TrackNodeId
    /\ IF lost THEN TurningLoop
       ELSE l.sensor = IF l.isReversing THEN Opposite[p] ELSE p

SettledBeforeFound(l) == l.sensor = NoSensor => ~l.isReversing
SpeedAsked(l) == l.at = "speed" => l.gotoSpeed # Silent

IInv ==
  /\ LocoTypeOK
  /\ \A t \in Train : /\ KnowsItsTrack(t) /\ Placed(loco[t], passed[t], t \in astray)
                      /\ SettledBeforeFound(loco[t]) /\ SpeedAsked(loco[t])

\* The state l follows k, and says the same of the train's track and direction.
SameTrack(l, k) ==
  /\ l \in LocomotiveState
  /\ l.allocated = k.allocated /\ l.sensor = k.sensor /\ l.isReversing = k.isReversing

\* Every step changes one train: what the others know of themselves stays, if their track,
\* their direction and their refusals do.
LEMMA OneTrain ==
  ASSUME IInv, NEW t \in Train, NEW l \in LocomotiveState, Becomes(t, l),
         ownershipGraph' \in [Segment -> Train \cup {Free}],
         \A u \in Train \ {t} : Owned(u)' = Owned(u),
         misled' \subseteq Train, \A u \in Train \ {t} : u \in misled' <=> u \in misled,
         t \notin misled' => Owned(t)' = ToSet(l.allocated),
         passed' \in [Train -> TrackNodeId \cup {NoSensor}], astray' \subseteq Train,
         \A u \in Train \ {t} : passed'[u] = passed[u] /\ (u \in astray' <=> u \in astray),
         Placed(l, passed'[t], t \in astray'),
         SettledBeforeFound(l), SpeedAsked(l),
         radio' \in [Train -> Command \cup {Silent, "polling"}],
         orders' \in [Train -> Seq(Command)], failed' \in BOOLEAN
  PROVE  IInv'
<1>1. loco \in [Train -> LocomotiveState]
  BY DEF IInv, LocoTypeOK
<1>2. /\ loco' \in [Train -> LocomotiveState]
      /\ loco'[t] = l
      /\ \A u \in Train \ {t} : loco'[u] = loco[u]
  BY <1>1 DEF Becomes
<1>3. LocoTypeOK'
  BY <1>2 DEF LocoTypeOK
<1>4. ASSUME NEW u \in Train PROVE KnowsItsTrack(u)'
  <2>1. CASE u = t
    BY <1>2, <2>1 DEF KnowsItsTrack
  <2>2. CASE u # t
    <3>1. KnowsItsTrack(u)
      BY DEF IInv
    <3> QED BY <1>2, <2>2, <3>1 DEF KnowsItsTrack
  <2> QED BY <2>1, <2>2
<1>5. ASSUME NEW u \in Train PROVE Placed(loco[u], passed[u], u \in astray)'
  <2>1. CASE u = t
    BY <1>2, <2>1 DEF Placed
  <2>2. CASE u # t
    <3>1. Placed(loco[u], passed[u], u \in astray)
      BY DEF IInv
    <3> QED BY <1>2, <2>2, <3>1 DEF Placed
  <2> QED BY <2>1, <2>2
<1>6. ASSUME NEW u \in Train PROVE SettledBeforeFound(loco'[u]) /\ SpeedAsked(loco'[u])
  BY <1>2 DEF IInv
<1> QED BY <1>3, <1>4, <1>5, <1>6 DEF IInv

\* A step that leaves a train's track, its sensor and its direction alone.
LEMMA QuietStep ==
  ASSUME IInv, NEW t \in Train, NEW l, Becomes(t, l), SameTrack(l, loco[t]), SpeedAsked(l),
         UNCHANGED <<ownershipGraph, historyVars, misled, failed>>,
         radio' \in [Train -> Command \cup {Silent, "polling"}],
         orders' \in [Train -> Seq(Command)]
  PROVE  IInv'
<1> USE DEF SameTrack
<1>1. LocoTypeOK /\ KnowsItsTrack(t) /\ Placed(loco[t], passed[t], t \in astray)
  BY DEF IInv
<1>2. \A u \in Train : Owned(u)' = Owned(u)
  BY DEF Owned
<1>3. t \notin misled' => Owned(t)' = ToSet(l.allocated)
  BY <1>1, <1>2 DEF KnowsItsTrack
<1>4. /\ Placed(l, passed'[t], t \in astray')
      /\ passed' = passed /\ astray' = astray
  BY <1>1 DEF historyVars, Placed
<1>5. SettledBeforeFound(l)
  BY DEF IInv, SettledBeforeFound
<1> QED BY <1>1, <1>2, <1>3, <1>4, <1>5, OneTrain DEF LocoTypeOK

-----------------------------------------------------------------------------
(* The steps.                                                              *)

\* Neither a speed nor a stop says anything of the track.
LEMMA SpeedFacts ==
  ASSUME NEW l \in LocomotiveState
  PROVE  /\ \A v \in {"zero", "run"} :
              /\ SameTrack(Throttled(l, v), l)
              /\ Throttled(l, v).at = l.at /\ Throttled(l, v).gotoSpeed = l.gotoSpeed
         /\ SameTrack(Braked(l), l) /\ Braked(l).at = l.at /\ Braked(l).gotoSpeed = l.gotoSpeed
<1> USE DEF SameTrack, LocomotiveState
<1>1. ASSUME NEW v \in {"zero", "run"}
      PROVE  /\ SameTrack(Throttled(l, v), l)
             /\ Throttled(l, v).at = l.at /\ Throttled(l, v).gotoSpeed = l.gotoSpeed
  BY DEF Throttled
<1>2. SameTrack(Braked(l), l) /\ Braked(l).at = l.at /\ Braked(l).gotoSpeed = l.gotoSpeed
  BY DEF Braked
<1> QED BY <1>1, <1>2

\* Nor does a step by itself; it takes a speed next only if one was asked for.
LEMMA SteppedFacts ==
  ASSUME IInv, NEW t \in Train
  PROVE  SameTrack(Stepped(t), loco[t]) /\ SpeedAsked(Stepped(t))
<1> DEFINE a == IF loco[t].at = "step" /\ loco[t].gotoSpeed # Silent THEN "speed" ELSE "idle"
           k == [loco[t] EXCEPT !.at = a]
<1>1. loco[t] \in LocomotiveState /\ a \in {"speed", "idle"}
  BY DEF IInv, LocoTypeOK
<1>2. Stepped(t) = [k EXCEPT !.stopping = "no"]
  BY <1>1 DEF Stepped, LocomotiveState
<1>3. a = "speed" => loco[t].gotoSpeed # Silent
  OBVIOUS
<1> HIDE DEF a
<1>4. SameTrack(k, loco[t]) /\ k.at = a /\ k.gotoSpeed = loco[t].gotoSpeed
  BY <1>1 DEF SameTrack, LocomotiveState
<1> HIDE DEF k
<1>5. /\ SameTrack(Stepped(t), k)
      /\ Stepped(t).at = k.at /\ Stepped(t).gotoSpeed = k.gotoSpeed
  BY <1>2, <1>4 DEF SameTrack, LocomotiveState
<1> QED BY <1>3, <1>4, <1>5 DEF SameTrack, SpeedAsked

\* The yard, the commander and the radio leave the track alone.
LEMMA CommandStep ==
  ASSUME IInv, NEW t \in Train,
         Launch(t) \/ Stands(t) \/ PushCommand(t) \/ SetGoal(t) \/ SetSpeed(t)
  PROVE  IInv'
<1>0. /\ loco[t] \in LocomotiveState /\ SpeedAsked(loco[t])
      /\ radio \in [Train -> Command \cup {Silent, "polling"}]
      /\ orders \in [Train -> Seq(Command)]
  BY DEF IInv, LocoTypeOK
<1>1. CASE Launch(t)
  <2> DEFINE k == Throttled(loco[t], "run")
             l == [k EXCEPT !.at = "idle"]
  <2>1. SameTrack(k, loco[t])
    BY <1>0, SpeedFacts
  <2>2. Becomes(t, l)
    BY <1>1 DEF Launch
  <2> HIDE DEF k
  <2>3. SameTrack(l, loco[t]) /\ SpeedAsked(l)
    BY <2>1 DEF LocomotiveState, SameTrack, SpeedAsked
  <2> HIDE DEF l
  <2> QED BY <1>0, <1>1, <2>2, <2>3, QuietStep DEF Launch
<1>2. CASE Stands(t)
  <2> DEFINE l == [loco[t] EXCEPT !.stopping = "stands"]
  <2>1. SameTrack(l, loco[t]) /\ SpeedAsked(l)
    BY <1>0 DEF LocomotiveState, SameTrack, SpeedAsked
  <2>2. Becomes(t, l)
    BY <1>2 DEF Stands
  <2> HIDE DEF l
  <2> QED BY <1>0, <1>2, <2>1, <2>2, QuietStep DEF Stands
<1>3. CASE PushCommand(t)
  <2>1. Becomes(t, loco[t])
    BY <1>3 DEF PushCommand, Becomes, IInv, LocoTypeOK
  <2>2. Head(orders[t]) \in Command /\ Tail(orders[t]) \in Seq(Command)
    BY <1>0, <1>3 DEF PushCommand
  <2>3. radio' \in [Train -> Command \cup {Silent, "polling"}]
    BY <1>0, <1>3, <2>2 DEF PushCommand
  <2>4. orders' \in [Train -> Seq(Command)]
    BY <1>0, <1>3, <2>2 DEF PushCommand
  <2> QED BY <1>0, <1>3, <2>1, <2>3, <2>4, QuietStep DEF PushCommand, SameTrack
<1>4. CASE SetGoal(t)
  <2> DEFINE k == [loco[t] EXCEPT !.goal = TRUE, !.shouldStop = (radio[t] = "stop")]
             l == IF k.speed = "zero" THEN Throttled(k, "run") ELSE k
  <2>1. SameTrack(k, loco[t]) /\ SpeedAsked(k)
    BY <1>0 DEF LocomotiveState, SameTrack, SpeedAsked
  <2>2. Becomes(t, l)
    BY <1>4 DEF SetGoal
  <2> HIDE DEF k
  <2>3. SameTrack(l, loco[t]) /\ SpeedAsked(l)
    BY <2>1, SpeedFacts DEF SameTrack, SpeedAsked
  <2> HIDE DEF l
  <2> QED BY <1>0, <1>4, <2>2, <2>3, QuietStep DEF SetGoal, Radioed
<1>5. CASE SetSpeed(t)
  <2> DEFINE l == IF loco[t].speed = "zero" THEN Throttled(loco[t], radio[t])
                  ELSE [loco[t] EXCEPT !.gotoSpeed = radio[t]]
  <2>1. radio[t] \in {"zero", "run"}
    BY <1>5 DEF SetSpeed
  <2>2. SameTrack(l, loco[t]) /\ SpeedAsked(l)
    <3>1. CASE loco[t].speed = "zero"
      BY <1>0, <2>1, <3>1, SpeedFacts DEF SpeedAsked
    <3>2. CASE loco[t].speed # "zero"
      BY <1>0, <2>1, <3>2 DEF LocomotiveState, SameTrack, SpeedAsked, Silent
    <3> QED BY <3>1, <3>2
  <2>3. Becomes(t, l)
    BY <1>5 DEF SetSpeed
  <2> HIDE DEF l
  <2> QED BY <1>0, <1>5, <2>2, <2>3, QuietStep DEF SetSpeed, Radioed
<1> QED BY <1>1, <1>2, <1>3, <1>4, <1>5

\* So does a locomotive that rolls on, waits, has no goal or takes a speed.
LEMMA AloneSteps ==
  ASSUME IInv, NEW t \in Train,
         StopsOn(t) \/ WaitsForOthers(t) \/ HasNoGoal(t) \/ TakesSpeed(t)
  PROVE  IInv'
<1>0. /\ loco[t] \in LocomotiveState /\ SpeedAsked(loco[t])
      /\ radio \in [Train -> Command \cup {Silent, "polling"}]
      /\ orders \in [Train -> Seq(Command)]
  BY DEF IInv, LocoTypeOK
<1>1. ASSUME NEW l, AloneStep(t, l), SameTrack(l, loco[t]), SpeedAsked(l)
      PROVE  IInv'
  BY <1>0, <1>1, QuietStep DEF AloneStep, Steps
<1>2. CASE StopsOn(t)
  <2> DEFINE l == [Stepped(t) EXCEPT !.stopping = "rolls"]
  <2>1. SameTrack(l, loco[t]) /\ SpeedAsked(l)
    BY SteppedFacts DEF LocomotiveState, SameTrack, SpeedAsked
  <2> QED BY <1>1, <1>2, <2>1 DEF StopsOn
<1>3. CASE WaitsForOthers(t)
  <2> DEFINE l == [Stepped(t) EXCEPT !.hasConflict = 2]
  <2>1. SameTrack(l, loco[t]) /\ SpeedAsked(l)
    BY SteppedFacts DEF LocomotiveState, SameTrack, SpeedAsked
  <2> QED BY <1>1, <1>3, <2>1 DEF WaitsForOthers
<1>4. CASE HasNoGoal(t)
  BY <1>1, <1>4, SteppedFacts DEF HasNoGoal
<1>5. CASE TakesSpeed(t)
  <2> DEFINE k == [loco[t] EXCEPT !.at = "idle", !.gotoSpeed = Silent]
             v == loco[t].gotoSpeed
             l == IF v = "zero" THEN Braked(k) ELSE Throttled(k, v)
  <2>1. SameTrack(k, loco[t]) /\ k.at = "idle"
    BY <1>0 DEF LocomotiveState, SameTrack
  <2>2. v \in {"zero", "run"}
    BY <1>0, <1>5 DEF TakesSpeed, LocomotiveState, SpeedAsked
  <2>3. Becomes(t, l)
    BY <1>5 DEF TakesSpeed
  <2> HIDE DEF k, v
  <2>4. SameTrack(l, loco[t]) /\ SpeedAsked(l)
    BY <2>1, <2>2, SpeedFacts DEF SameTrack, SpeedAsked
  <2> HIDE DEF l
  <2> QED BY <1>0, <1>5, <2>3, <2>4, QuietStep DEF TakesSpeed
<1> QED BY <1>2, <1>3, <1>4, <1>5

\* locomotiveAllocateTrack: what is noted is what was granted; a refusal is either noticed, and
\* then nothing is noted, or it misleads.
LEMMA ClaimFacts ==
  ASSUME IInv, NEW t \in Train, NEW list \in Seq(Segment), StepClaims(t, list)
  PROVE  /\ ownershipGraph' \in [Segment -> Train \cup {Free}]
         /\ \A u \in Train \ {t} : Owned(u)' = Owned(u)
         /\ misled' \subseteq Train /\ \A u \in Train \ {t} : u \in misled' <=> u \in misled
         /\ t \notin misled' => Owned(t)' = ToSet(Claimed(t, list).allocated)
         /\ Claimed(t, list) \in LocomotiveState /\ SpeedAsked(Claimed(t, list))
         /\ Claimed(t, list).sensor = loco[t].sensor /\ loco[t].sensor # NoSensor
         /\ Claimed(t, list).isReversing = loco[t].isReversing
         /\ UNCHANGED <<radio, orders, failed>>
<1>1. /\ ownershipGraph \in [Segment -> Train \cup {Free}]
      /\ misled \subseteq Train /\ KnowsItsTrack(t)
  BY DEF IInv, LocoTypeOK
<1>2. Allocate(t, list) /\ Steps(t)
  BY DEF StepClaims
<1>3. misled' = IF Granted(t, list) THEN misled \ {t}
                ELSE IF Result(t, list) < 0 THEN misled ELSE misled \cup {t}
  BY DEF StepClaims
<1>4. /\ ownershipGraph' \in [Segment -> Train \cup {Free}]
      /\ \A u \in Train \ {t} : Owned(u)' = Owned(u)
      /\ Granted(t, list) => Owned(t)' = ToSet(list) /\ Result(t, list) = 0
      /\ ~Granted(t, list) => Owned(t)' = Owned(t)
  BY <1>1, <1>2, AllocationFacts
<1>5. SameTrack(Stepped(t), loco[t]) /\ SpeedAsked(Stepped(t))
  BY SteppedFacts
<1>6. /\ Claimed(t, list) \in LocomotiveState /\ SpeedAsked(Claimed(t, list))
      /\ Claimed(t, list).sensor = loco[t].sensor
      /\ Claimed(t, list).isReversing = loco[t].isReversing
      /\ Claimed(t, list).allocated = IF Result(t, list) < 0 THEN loco[t].allocated ELSE list
  <2> HIDE DEF Stepped
  <2>1. CASE Result(t, list) < 0
    BY <1>5, <2>1 DEF Claimed, SameTrack
  <2>2. CASE ~(Result(t, list) < 0)
    BY <1>5, <2>2 DEF Claimed, SameTrack, SpeedAsked, LocomotiveState
  <2> QED BY <2>1, <2>2
<1>7. t \notin misled' => Owned(t)' = ToSet(Claimed(t, list).allocated)
  <2>1. CASE Granted(t, list)
    BY <1>4, <1>6, <2>1
  <2>2. CASE ~Granted(t, list) /\ Result(t, list) < 0
    BY <1>1, <1>3, <1>4, <1>6, <2>2 DEF KnowsItsTrack
  <2>3. CASE ~Granted(t, list) /\ ~(Result(t, list) < 0)
    BY <1>3, <2>3
  <2> QED BY <2>1, <2>2, <2>3
<1>8. misled' \subseteq Train /\ \A u \in Train \ {t} : u \in misled' <=> u \in misled
  BY <1>1, <1>3
<1> QED BY <1>2, <1>4, <1>6, <1>7, <1>8 DEF Steps

\* A claim keeps what a locomotive knows: when it gives way it turns its sensor and means to
\* turn the train, and when it may go on again it has turned it.
LEMMA ClaimSteps ==
  ASSUME IInv, NEW t \in Train, NEW list \in Claims(t),
         StopsAtGoal(t, list) \/ StopsNow(t, list) \/ Yields(t, list) \/ Continues(t, list)
  PROVE  IInv'
<1> DEFINE c == Claimed(t, list)
<1>0. StepClaims(t, list) /\ list \in Seq(Segment)
  BY ClaimsType DEF StopsAtGoal, StopsNow, Yields, Continues
<1>1. /\ ownershipGraph' \in [Segment -> Train \cup {Free}]
      /\ \A u \in Train \ {t} : Owned(u)' = Owned(u)
      /\ misled' \subseteq Train /\ \A u \in Train \ {t} : u \in misled' <=> u \in misled
      /\ t \notin misled' => Owned(t)' = ToSet(c.allocated)
      /\ c \in LocomotiveState /\ SpeedAsked(c)
      /\ c.sensor = loco[t].sensor /\ loco[t].sensor # NoSensor
      /\ c.isReversing = loco[t].isReversing
      /\ UNCHANGED <<radio, orders, failed>>
  BY <1>0, ClaimFacts
<1>2. /\ passed \in [Train -> TrackNodeId \cup {NoSensor}] /\ astray \subseteq Train
      /\ radio' \in [Train -> Command \cup {Silent, "polling"}]
      /\ orders' \in [Train -> Seq(Command)] /\ failed' \in BOOLEAN
  BY <1>1 DEF IInv, LocoTypeOK
<1>3. c.sensor \in TrackNodeId /\ c.isReversing \in BOOLEAN
  BY <1>1 DEF LocomotiveState
<1>4. Placed(c, passed[t], t \in astray) /\ passed[t] \in TrackNodeId
  <2>1. Placed(loco[t], passed[t], t \in astray)
    BY DEF IInv
  <2> QED BY <1>1, <2>1 DEF Placed
<1>5. Braked(c) \in LocomotiveState /\ SameTrack(Braked(c), c) /\ SpeedAsked(Braked(c))
  BY <1>1, SpeedFacts DEF SameTrack, SpeedAsked
<1>6. /\ Throttled(c, "run") \in LocomotiveState /\ SameTrack(Throttled(c, "run"), c)
      /\ SpeedAsked(Throttled(c, "run"))
  BY <1>1, SpeedFacts DEF SameTrack, SpeedAsked
<1> HIDE DEF c
<1>7. ASSUME NEW l, Becomes(t, l), SameTrack(l, c), SpeedAsked(l), UNCHANGED historyVars
      PROVE  IInv'
  <2>1. /\ l \in LocomotiveState /\ l.sensor # NoSensor
        /\ Placed(l, passed'[t], t \in astray')
        /\ passed' = passed /\ astray' = astray
        /\ t \notin misled' => Owned(t)' = ToSet(l.allocated)
    BY <1>1, <1>4, <1>7 DEF SameTrack, historyVars, Placed
  <2>2. SettledBeforeFound(l)
    BY <2>1 DEF SettledBeforeFound
  <2> QED BY <1>1, <1>2, <1>7, <2>1, <2>2, OneTrain
<1>8. CASE StopsAtGoal(t, list)
  <2> DEFINE l == [Braked(c) EXCEPT !.goal = FALSE]
  <2>1. Becomes(t, l) /\ UNCHANGED historyVars
    BY <1>8 DEF StopsAtGoal, c
  <2>2. SameTrack(l, c) /\ SpeedAsked(l)
    BY <1>5 DEF SameTrack, SpeedAsked, LocomotiveState
  <2> QED BY <1>7, <2>1, <2>2
<1>9. CASE StopsNow(t, list)
  <2>1. Becomes(t, Braked(c)) /\ UNCHANGED historyVars
    BY <1>9 DEF StopsNow, c
  <2> QED BY <1>5, <1>7, <2>1
<1>10. CASE Yields(t, list)
  <2> DEFINE l == [c EXCEPT !.hasConflict = 1]
  <2>1. /\ IF l.speed = "zero" THEN Becomes(t, Turned(l)) \/ Becomes(t, l)
           ELSE Becomes(t, Braked(l))
        /\ UNCHANGED historyVars
    BY <1>10 DEF Yields, c
  <2>2. SameTrack(l, c) /\ SpeedAsked(l) /\ l \in LocomotiveState
    BY <1>1 DEF SameTrack, SpeedAsked, LocomotiveState
  <2> HIDE DEF l
  <2>3. SameTrack(Braked(l), c) /\ SpeedAsked(Braked(l))
    BY <2>2, SpeedFacts DEF SameTrack, SpeedAsked
  <2>4. CASE Becomes(t, Turned(l))
    <3> DEFINE o == Opposite[c.sensor]
    <3>1. o \in TrackNodeId /\ o # NoSensor /\ Opposite[Opposite[passed[t]]] = passed[t]
      BY <1>3, <1>4, LocomotivesAssumption
    <3>2. /\ Turned(l) \in LocomotiveState
          /\ Turned(l).allocated = c.allocated /\ Turned(l).sensor = o
          /\ Turned(l).isReversing = ~c.isReversing
          /\ SpeedAsked(Turned(l))
      BY <1>3, <2>2, <3>1 DEF Turned, SameTrack, SpeedAsked, LocomotiveState
    <3>3. Placed(Turned(l), passed[t], t \in astray)
      BY <1>1, <1>3, <1>4, <3>1, <3>2 DEF Placed
    <3> HIDE DEF o
    <3>4. SettledBeforeFound(Turned(l))
      BY <3>1, <3>2 DEF SettledBeforeFound
    <3>5. t \notin misled' => Owned(t)' = ToSet(Turned(l).allocated)
      BY <1>1, <3>2
    <3>6. passed' = passed /\ astray' = astray
      BY <2>1 DEF historyVars
    <3> QED BY <1>1, <1>2, <2>4, <3>2, <3>3, <3>4, <3>5, <3>6, OneTrain
  <2> QED BY <1>7, <2>1, <2>2, <2>3, <2>4
<1>11. CASE Continues(t, list)
  <2>1. CASE c.hasConflict = 2
    <3> DEFINE h == IF c.isReversing THEN Opposite[passed[t]] ELSE passed[t]
               k == Throttled(c, "run")
               l == [k EXCEPT !.hasConflict = 0, !.isReversing = FALSE]
    <3>1. Becomes(t, l) /\ passed' = [passed EXCEPT ![t] = h] /\ astray' = astray
      BY <1>11, <2>1 DEF Continues, c
    <3> HIDE DEF k
    <3>2. /\ l \in LocomotiveState /\ SpeedAsked(l)
          /\ l.allocated = c.allocated /\ l.sensor = c.sensor /\ l.isReversing = FALSE
      <4>1. SameTrack(k, c) /\ SpeedAsked(k)
        BY <1>6 DEF k
      <4>2. [k EXCEPT !.hasConflict = 0] \in LocomotiveState
        BY <4>1 DEF SameTrack, LocomotiveState
      <4>3. l \in LocomotiveState
        BY <4>2 DEF LocomotiveState
      <4>4. /\ l.at = k.at /\ l.gotoSpeed = k.gotoSpeed /\ l.allocated = k.allocated
            /\ l.sensor = k.sensor /\ l.isReversing = FALSE
        BY <4>1 DEF SameTrack, LocomotiveState
      <4> QED BY <4>1, <4>3, <4>4 DEF SameTrack, SpeedAsked
    <3>3. h \in TrackNodeId /\ (IF t \in astray THEN TurningLoop ELSE c.sensor = h)
      BY <1>1, <1>3, <1>4, LocomotivesAssumption DEF Placed
    <3> HIDE DEF h, l
    <3>4. passed' \in [Train -> TrackNodeId \cup {NoSensor}] /\ passed'[t] = h
          /\ \A u \in Train \ {t} : passed'[u] = passed[u]
      BY <1>2, <3>1, <3>3
    <3>5. Placed(l, passed'[t], t \in astray')
      BY <3>1, <3>2, <3>3, <3>4 DEF Placed
    <3>6. SettledBeforeFound(l) /\ (t \notin misled' => Owned(t)' = ToSet(l.allocated))
      BY <1>1, <3>2 DEF SettledBeforeFound
    <3> QED BY <1>1, <1>2, <3>1, <3>2, <3>4, <3>5, <3>6, OneTrain
  <2>2. CASE c.hasConflict # 2
    <3>1. Becomes(t, c) /\ UNCHANGED historyVars
      BY <1>11, <2>2 DEF Continues, c
    <3>2. SameTrack(c, c)
      BY <1>1 DEF SameTrack
    <3> QED BY <1>1, <1>7, <3>1, <3>2
  <2> QED BY <2>1, <2>2
<1> QED BY <1>0, <1>8, <1>9, <1>10, <1>11

\* locomotiveSensorUpdate: the track behind a train is given up whole, or its task is misled.
LEMMA GivingUpTrack ==
  ASSUME IInv, NEW t \in Train, NEW k \in LocomotiveState, NEW v, GivesUpTrack(t, k, v),
         k.allocated = loco[t].allocated
  PROVE  /\ ownershipGraph' \in [Segment -> Train \cup {Free}]
         /\ \A u \in Train \ {t} : Owned(u)' = Owned(u)
         /\ misled' \subseteq Train /\ \A u \in Train \ {t} : u \in misled' <=> u \in misled
         /\ failed' \in BOOLEAN
         /\ \E l \in LocomotiveState :
              /\ Becomes(t, l)
              /\ t \notin misled' => Owned(t)' = ToSet(l.allocated)
              /\ l.sensor = k.sensor /\ l.isReversing = k.isReversing
              /\ l.at = k.at /\ l.gotoSpeed = k.gotoSpeed
<1>1. /\ ownershipGraph \in [Segment -> Train \cup {Free}]
      /\ misled \subseteq Train /\ failed \in BOOLEAN /\ KnowsItsTrack(t)
  BY DEF IInv, LocoTypeOK
<1>2. CASE SegmentOf[v] \notin ToSet(k.allocated)
  <2>1. Becomes(t, k) /\ UNCHANGED <<ownershipGraph, misled, failed>>
    BY <1>2 DEF GivesUpTrack
  <2>2. \A u \in Train : Owned(u)' = Owned(u)
    BY <2>1 DEF Owned
  <2>3. t \notin misled' => Owned(t)' = ToSet(k.allocated)
    BY <1>1, <2>1, <2>2 DEF KnowsItsTrack
  <2> QED BY <1>1, <2>1, <2>2, <2>3
<1>3. CASE SegmentOf[v] \in ToSet(k.allocated)
  <2> DEFINE rest == Rest(k.allocated, SegmentOf[v])
             l == [k EXCEPT !.allocated = rest]
  <2>1. /\ Allocate(t, rest)
        /\ failed' = (Result(t, rest) < 0)
        /\ misled' = IF Granted(t, rest) THEN misled \ {t} ELSE misled \cup {t}
        /\ Becomes(t, l)
    BY <1>3 DEF GivesUpTrack
  <2>2. rest \in Seq(Segment)
    BY <1>3, RestType DEF LocomotiveState
  <2> HIDE DEF rest
  <2>3. /\ l \in LocomotiveState /\ l.allocated = rest
        /\ l.sensor = k.sensor /\ l.isReversing = k.isReversing
        /\ l.at = k.at /\ l.gotoSpeed = k.gotoSpeed
    BY <2>2 DEF LocomotiveState
  <2>4. /\ ownershipGraph' \in [Segment -> Train \cup {Free}]
        /\ \A u \in Train \ {t} : Owned(u)' = Owned(u)
        /\ Granted(t, rest) => Owned(t)' = ToSet(rest)
    BY <1>1, <2>1, <2>2, AllocationFacts
  <2>5. misled' \subseteq Train /\ \A u \in Train \ {t} : u \in misled' <=> u \in misled
    BY <1>1, <2>1
  <2>6. t \notin misled' => Owned(t)' = ToSet(l.allocated)
    BY <2>1, <2>3, <2>4
  <2>7. failed' \in BOOLEAN
    BY <2>1
  <2> HIDE DEF l
  <2> QED BY <2>1, <2>3, <2>4, <2>5, <2>6, <2>7
<1> QED BY <1>2, <1>3

\* A train comes over a sensor that is predicted behind the other end of its node only where a
\* loop turns it.
LEMMA LoopTurns ==
  ASSUME NEW p \in TrackNodeId, NEW v \in Predicted(Opposite[p]), v \in Beyond[p]
  PROVE  TurningLoop
<1> DEFINE n == Opposite[p]
<1>1. n \in TrackNodeId /\ v \in Predicted(n)
  BY LocomotivesAssumption
<1> HIDE DEF n
<1>3. ASSUME NEW m \in NextSensors[n], v \in NextSensors[m] PROVE v \in Beyond[n]
  <2>1. m \in TrackNodeId /\ m \in Beyond[n]
    BY <1>1, LocomotivesAssumption
  <2>2. v \in Beyond[m] /\ Beyond[m] \subseteq Beyond[n]
    BY <1>1, <1>3, <2>1, LocomotivesAssumption
  <2> QED BY <2>2
<1>4. v \in Beyond[n]
  <2>1. CASE v \in NextSensors[n]
    BY <1>1, <2>1, LocomotivesAssumption
  <2> QED BY <1>1, <1>3, <2>1 DEF Predicted
<1> QED BY <1>4 DEF n, TurningLoop

\* A sensor keeps what a locomotive knows: the first one shows where the train is, and so does a
\* later one to a task that has no turn pending.
LEMMA SensorStep ==
  ASSUME IInv, NEW t \in Train, NEW v \in TrackNodeId, SensorHit(t, v)
  PROVE  IInv'
<1> DEFINE first == loco[t].sensor = NoSensor
           seen  == [loco[t] EXCEPT !.sensor = v, !.at = IF first THEN "idle" ELSE "step"]
           k     == IF first THEN Throttled(seen, "zero") ELSE seen
<1>1. /\ loco[t] \in LocomotiveState
      /\ radio \in [Train -> Command \cup {Silent, "polling"}]
      /\ orders \in [Train -> Seq(Command)]
      /\ passed \in [Train -> TrackNodeId \cup {NoSensor}] /\ astray \subseteq Train
      /\ SettledBeforeFound(loco[t]) /\ Placed(loco[t], passed[t], t \in astray)
  BY DEF IInv, LocoTypeOK
<1>2. /\ GivesUpTrack(t, k, v)
      /\ ~first => v \in Beyond[passed[t]]
      /\ Attributed(t, v)
      /\ radio' = IF first THEN [radio EXCEPT ![t] = "polling"] ELSE radio
      /\ passed' = [passed EXCEPT ![t] = v]
      /\ astray' = IF loco[t].isReversing THEN astray \cup {t} ELSE astray \ {t}
      /\ UNCHANGED orders
  BY DEF SensorHit
<1>3. /\ seen \in LocomotiveState /\ seen.allocated = loco[t].allocated
      /\ seen.sensor = v /\ seen.isReversing = loco[t].isReversing /\ seen.at # "speed"
  BY <1>1 DEF LocomotiveState
<1> HIDE DEF seen
<1>4. /\ k \in LocomotiveState /\ k.allocated = loco[t].allocated
      /\ k.sensor = v /\ k.isReversing = loco[t].isReversing /\ k.at # "speed"
  BY <1>3, SpeedFacts DEF SameTrack
<1> HIDE DEF k
<1>5. PICK l \in LocomotiveState :
        /\ Becomes(t, l)
        /\ t \notin misled' => Owned(t)' = ToSet(l.allocated)
        /\ l.sensor = v /\ l.isReversing = loco[t].isReversing /\ SpeedAsked(l)
  BY <1>2, <1>4, GivingUpTrack DEF SpeedAsked
<1>6. /\ ownershipGraph' \in [Segment -> Train \cup {Free}]
      /\ \A u \in Train \ {t} : Owned(u)' = Owned(u)
      /\ misled' \subseteq Train /\ \A u \in Train \ {t} : u \in misled' <=> u \in misled
      /\ failed' \in BOOLEAN
  BY <1>2, <1>4, GivingUpTrack
<1>7. v # NoSensor /\ loco[t].isReversing \in BOOLEAN
  BY <1>1, LocomotivesAssumption DEF LocomotiveState
<1>8. Placed(l, passed'[t], t \in astray')
  <2>0. passed'[t] = v /\ (t \in astray' <=> loco[t].isReversing)
    BY <1>1, <1>2, <1>7
  <2>1. CASE ~loco[t].isReversing
    BY <1>5, <2>0, <2>1 DEF Placed
  <2>2. CASE loco[t].isReversing
    <3>1. loco[t].sensor # NoSensor
      BY <1>1, <2>2 DEF SettledBeforeFound
    <3>2. passed[t] \in TrackNodeId /\ v \in Beyond[passed[t]] /\ v \in Predicted(loco[t].sensor)
      BY <1>1, <1>2, <3>1 DEF Attributed, Placed
    <3>3. t \notin astray => loco[t].sensor = Opposite[passed[t]]
      BY <1>1, <2>2, <3>1 DEF Placed
    <3>4. t \in astray => TurningLoop
      BY <1>1, <3>1 DEF Placed
    <3>5. TurningLoop
      BY <3>2, <3>3, <3>4, LoopTurns
    <3> QED BY <1>5, <2>0, <2>2, <3>5 DEF Placed
  <2> QED BY <2>1, <2>2
<1>9. /\ passed' \in [Train -> TrackNodeId \cup {NoSensor}] /\ astray' \subseteq Train
      /\ \A u \in Train \ {t} : passed'[u] = passed[u] /\ (u \in astray' <=> u \in astray)
      /\ radio' \in [Train -> Command \cup {Silent, "polling"}]
      /\ orders' \in [Train -> Seq(Command)]
  BY <1>1, <1>2, <1>7
<1>10. SettledBeforeFound(l)
  BY <1>5, <1>7 DEF SettledBeforeFound
<1> QED BY <1>5, <1>6, <1>7, <1>8, <1>9, <1>10, OneTrain

-----------------------------------------------------------------------------
(* The theorems.                                                           *)

\* At the start nobody owns track, and no train has found itself.
LEMMA LocoInitIInv == LocoInit => IInv
<1> SUFFICES ASSUME LocoInit PROVE IInv
  OBVIOUS
<1>1. LocoTypeOK
  <2>1. \A t \in Train : loco[t] \in LocomotiveState
    BY DEF LocoInit, LocomotiveState
  <2>2. loco \in [Train -> LocomotiveState]
    BY <2>1 DEF LocoInit
  <2>3. orders \in [Train -> Seq(Command)]
    BY LocomotivesAssumption DEF LocoInit, Command
  <2>4. /\ ownershipGraph \in [Segment -> Train \cup {Free}]
        /\ radio \in [Train -> Command \cup {Silent, "polling"}]
        /\ passed \in [Train -> TrackNodeId \cup {NoSensor}] /\ astray \subseteq Train
        /\ misled \subseteq Train /\ failed \in BOOLEAN
    BY DEF LocoInit, NobodyOwns
  <2> QED BY <2>2, <2>3, <2>4 DEF LocoTypeOK
<1>2. ASSUME NEW t \in Train
      PROVE  /\ KnowsItsTrack(t) /\ Placed(loco[t], passed[t], t \in astray)
             /\ SettledBeforeFound(loco[t]) /\ SpeedAsked(loco[t])
  <2>1. /\ loco[t].sensor = NoSensor /\ loco[t].at = "none"
        /\ loco[t].isReversing = FALSE /\ loco[t].allocated = <<>>
    BY DEF LocoInit
  <2>2. Owned(t) = {}
    BY TrackManagerAssumption DEF LocoInit, NobodyOwns, Owned
  <2>3. ToSet(<<>>) = {}
    BY DEF ToSet
  <2> QED BY <2>1, <2>2, <2>3
          DEF KnowsItsTrack, Placed, SettledBeforeFound, SpeedAsked
<1> QED BY <1>1, <1>2 DEF IInv

\* Every step of a locomotive keeps the invariant.
LEMMA LocoStepIInv == IInv /\ [LocoNext]_LocoVars => IInv'
<1> SUFFICES ASSUME IInv, [LocoNext]_LocoVars PROVE IInv'
  OBVIOUS
<1>1. CASE UNCHANGED LocoVars
  BY <1>1 DEF LocoVars, historyVars, IInv, LocoTypeOK, KnowsItsTrack, Placed,
       SettledBeforeFound, SpeedAsked, Owned
<1>2. ASSUME NEW t \in Train, LocoStep(t) PROVE IInv'
  <2>1. CASE Launch(t) \/ Stands(t) \/ PushCommand(t) \/ SetGoal(t) \/ SetSpeed(t)
    BY <2>1, CommandStep
  <2>2. CASE \E v \in TrackNodeId : SensorHit(t, v)
    BY <2>2, SensorStep
  <2>3. CASE StopsOn(t) \/ WaitsForOthers(t) \/ HasNoGoal(t) \/ TakesSpeed(t)
    BY <2>3, AloneSteps
  <2>4. CASE \E list \in Claims(t) :
               StopsAtGoal(t, list) \/ StopsNow(t, list) \/ Yields(t, list) \/ Continues(t, list)
    BY <2>4, ClaimSteps
  <2> QED BY <1>2, <2>1, <2>2, <2>3, <2>4 DEF LocoStep
<1> QED BY <1>1, <1>2 DEF LocoNext

\* Every variable of the trains keeps its type: what a locomotive has noted is a list of
\* segments, and the owners of track are trains (locomotiveState.c:176-192, TrackManager.c:75-118).
THEOREM TrainsAreTyped == LocoSpec => []LocoTypeOK
<1>1. IInv => LocoTypeOK
  BY DEF IInv
<1> QED BY <1>1, LocoInitIInv, LocoStepIInv, PTL DEF LocoSpec

\* What a locomotive has noted as its own is what the track manager's table says; and its train
\* is at the node where it believes it is and faces that way, or is about to be told to turn, on
\* every track: only a train that is driven on through a turning loop while a turn is pending is
\* believed elsewhere (locomotiveState.c:176-192, :205-341, :470-490, TrackManager.c:75-118).
THEOREM TrainsKnowTheirTrack == LocoSpec => []LocomotivesExact
<1>1. IInv => LocomotivesExact
  BY DEF IInv, LocomotivesExact, FacesAsBelieved, Placed
<1> QED BY <1>1, LocoInitIInv, LocoStepIInv, PTL DEF LocoSpec
=============================================================================
