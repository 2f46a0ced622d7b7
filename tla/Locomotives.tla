---------------------------- MODULE Locomotives -----------------------------
(***************************************************************************)
(* The tasks that drive trains, as they claim track, yield to each other,  *)
(* turn round and obey commands.  Distances and times are abstracted to    *)
(* what may come of them: how far ahead a claim reaches, whether a train   *)
(* still rolls, whether its goal is near.  A locomotive handles one        *)
(* message at a time; its calls of the track manager are the points where  *)
(* locomotives meet.                                                       *)
(***************************************************************************)
EXTENDS TrackManager, FiniteSets

CONSTANTS
  TrackNodeId,     \* nodes of the track
  Ahead,           \* the nodes that may follow each: none follows an exit
  NextSensors,     \* the sensors that may come next, for all ways in which branches may stand
  Beyond,          \* all nodes that a train may come to without being turned by its task
  Opposite,        \* the node of the other direction
  SegmentOf,       \* the pair that a node belongs to
  NoSensor,
  FoundAt,         \* the sensors at which each train may find itself, apart from others
  Orders,          \* a bound: the commands that are pushed for each train, in their order
  SHORTEST, LONGEST  \* bounds of the number of nodes of a claim

ASSUME LocomotivesAssumption ==
  /\ Ahead \in [TrackNodeId -> SUBSET TrackNodeId]
  /\ NextSensors \in [TrackNodeId -> SUBSET TrackNodeId]
  /\ Beyond \in [TrackNodeId -> SUBSET TrackNodeId]
  /\ \A n \in TrackNodeId : /\ Ahead[n] \cup NextSensors[n] \subseteq Beyond[n]
                            /\ \A m \in Beyond[n] : Beyond[m] \subseteq Beyond[n]
  /\ Opposite \in [TrackNodeId -> TrackNodeId]
  /\ \A n \in TrackNodeId : Opposite[Opposite[n]] = n
  /\ SegmentOf \in [TrackNodeId -> Segment]
  /\ NoSensor \notin TrackNodeId
  /\ FoundAt \in [Train -> SUBSET TrackNodeId]
  /\ Orders \subseteq [Train -> Seq({"goto", "stop", "zero", "run"})]
  /\ SHORTEST \in Nat \ {0} /\ LONGEST \in Nat

\* Some sensor can be come to from both ends of a node, as behind every loop that turns trains:
\* both tracks of the laboratory have some.
TurningLoop == \E n \in TrackNodeId : Beyond[n] \cap Beyond[Opposite[n]] # {}

VARIABLES
  loco,       \* LocomotiveState of each train, with where its task is in its loop
  radio,      \* the radio of each train: none, polling, or the command that it brings
  orders,     \* what is still to be pushed
  passed,     \* history: the node that each train ran over last, as it faces now
  astray,     \* history: trains that ran over a predicted sensor while a turn was pending
  misled,     \* trains whose last refusal read as a grant
  failed      \* an assertion has stopped the board

historyVars == <<passed, astray>>
LocoVars == <<ownershipGraph, loco, radio, orders, historyVars, misled, failed>>

Silent == "none"

LocoInit ==
  /\ NobodyOwns
  /\ loco = [t \in Train |->
       [at |-> "none", sensor |-> NoSensor, speed |-> "zero", stopping |-> "no",
        isReversing |-> FALSE, hasConflict |-> 0, goal |-> FALSE, shouldStop |-> FALSE,
        gotoSpeed |-> Silent, allocated |-> <<>>]]
  /\ radio = [t \in Train |-> Silent] /\ orders \in Orders
  /\ misled = {}
  /\ passed = [t \in Train |-> NoSensor] /\ astray = {}
  /\ failed = FALSE

Becomes(t, l) == loco' = [loco EXCEPT ![t] = l]

\* Whether a locomotive waits for its train to stand (isStopping), and whether it rolls still.
StillStopping(t) == loco[t].stopping = "rolls"

\* locomotiveThrottle; a train that is driven off while it stops never comes to a stand.
Throttled(l, v) ==
  [l EXCEPT !.speed = v, !.stopping = IF v = "run" /\ @ # "no" THEN "rolls" ELSE @]

\* The same with speed 0, and isStopping set.
Braked(l) ==
  [l EXCEPT !.speed = "zero",
            !.stopping = IF l.speed = "run" \/ @ = "rolls" THEN "rolls" ELSE "stands"]

\* With speed 0 a train comes to a stand in the end.
Stands(t) ==
  /\ StillStopping(t) /\ loco[t].speed = "zero"
  /\ Becomes(t, [loco[t] EXCEPT !.stopping = "stands"])
  /\ UNCHANGED <<ownershipGraph, radio, orders, historyVars, misled, failed>>

-----------------------------------------------------------------------------
(* The yard, the commander and the radio.                                  *)

\* The yard creates the locomotive, which registers and creeps off to find itself.
Launch(t) ==
  /\ loco[t].at = "none"
  /\ Becomes(t, [Throttled(loco[t], "run") EXCEPT !.at = "idle"])
  /\ UNCHANGED <<ownershipGraph, radio, orders, historyVars, misled, failed>>

\* The commander gives a command to the radio that polls; with none it refuses.
PushCommand(t) ==
  /\ orders[t] # <<>>
  /\ radio' = IF radio[t] = "polling" THEN [radio EXCEPT ![t] = Head(orders[t])] ELSE radio
  /\ orders' = [orders EXCEPT ![t] = Tail(@)]
  /\ UNCHANGED <<ownershipGraph, loco, historyVars, misled, failed>>

\* The radio brings it, is answered at once and polls again.
Radioed(t) ==
  /\ loco[t].at = "idle"
  /\ radio[t] \notin {Silent, "polling"}
  /\ radio' = [radio EXCEPT ![t] = "polling"]
  /\ UNCHANGED <<ownershipGraph, orders, historyVars, misled, failed>>

\* MESSAGE_TRAIN_GOTO and MESSAGE_TRAIN_STOP; the path is there or the assertion stops all.
SetGoal(t) ==
  LET l == [loco[t] EXCEPT !.goal = TRUE, !.shouldStop = (radio[t] = "stop")]
  IN  /\ Radioed(t)
      /\ radio[t] \in {"goto", "stop"}
      /\ Becomes(t, IF l.speed = "zero" THEN Throttled(l, "run") ELSE l)

SetSpeed(t) ==
  /\ Radioed(t)
  /\ radio[t] \in {"zero", "run"}
  /\ Becomes(t, IF loco[t].speed = "zero" THEN Throttled(loco[t], radio[t])
                ELSE [loco[t] EXCEPT !.gotoSpeed = radio[t]])

-----------------------------------------------------------------------------
(* Sensors.                                                                *)

\* The next two sensors, or those behind a branch that stands otherwise.
Predicted(n) == NextSensors[n] \cup UNION {NextSensors[m] : m \in NextSensors[n]}

Attributed(t, v) ==
  /\ WhoOwns(SegmentOf[v]) \in {t, Free}
  /\ v \in IF loco[t].sensor = NoSensor THEN FoundAt[t] ELSE Predicted(loco[t].sensor)

Rest(list, s) == SubSeq(list, Min({i \in DOMAIN list : list[i] = s}), Len(list))

\* locomotiveSensorUpdate: the track behind is given up, and the assertion expects that the
\* track ahead is granted again.
GivesUpTrack(t, l, v) ==
  IF SegmentOf[v] \in ToSet(l.allocated)
  THEN LET rest == Rest(l.allocated, SegmentOf[v])
       IN  /\ Allocate(t, rest)
           /\ failed' = (Result(t, rest) < 0)
           /\ misled' = IF Granted(t, rest) THEN misled \ {t} ELSE misled \cup {t}
           /\ Becomes(t, [l EXCEPT !.allocated = rest])
  ELSE Becomes(t, l) /\ UNCHANGED <<ownershipGraph, misled, failed>>

\* A train that finds itself stops and gets its radio; others make a step next.  It runs over
\* sensors the way that it faces, and not the way that its task may believe: with a turn pending
\* it comes over one that is predicted only where a loop turns it.
SensorHit(t, v) ==
  LET first == loco[t].sensor = NoSensor
      seen  == [loco[t] EXCEPT !.sensor = v, !.at = IF first THEN "idle" ELSE "step"]
  IN  /\ loco[t].at = "idle"
      /\ Attributed(t, v)
      /\ ~first => v \in Beyond[passed[t]]
      /\ GivesUpTrack(t, IF first THEN Throttled(seen, "zero") ELSE seen, v)
      /\ radio' = IF first THEN [radio EXCEPT ![t] = "polling"] ELSE radio
      /\ passed' = [passed EXCEPT ![t] = v]
      /\ astray' = IF loco[t].isReversing THEN astray \cup {t} ELSE astray \ {t}
      /\ UNCHANGED orders

\* The last thing of a sensor update: a speed that was asked for before, if one was.
TakesSpeed(t) ==
  LET l == [loco[t] EXCEPT !.at = "idle", !.gotoSpeed = Silent]
      v == loco[t].gotoSpeed
  IN  /\ loco[t].at = "speed"
      /\ Becomes(t, IF v = "zero" THEN Braked(l) ELSE Throttled(l, v))
      /\ UNCHANGED <<ownershipGraph, radio, orders, historyVars, misled, failed>>

-----------------------------------------------------------------------------
(* locomotiveStep, at a tick of the physics or in a sensor update.         *)

Stepped(t) ==
  [loco[t] EXCEPT !.at = IF @ = "step" /\ loco[t].gotoSpeed # Silent THEN "speed" ELSE "idle",
                  !.stopping = "no"]

Steps(t) ==
  /\ loco[t].at \in {"idle", "step"} /\ loco[t].sensor # NoSensor
  /\ UNCHANGED <<radio, orders, failed>>

AloneStep(t, l) ==
  /\ Steps(t)
  /\ Becomes(t, l)
  /\ UNCHANGED <<ownershipGraph, historyVars, misled>>

StopsOn(t) == StillStopping(t) /\ AloneStep(t, [Stepped(t) EXCEPT !.stopping = "rolls"])

\* After a random delay it will try again.
WaitsForOthers(t) ==
  /\ ~StillStopping(t) /\ loco[t].hasConflict = 1
  /\ AloneStep(t, [Stepped(t) EXCEPT !.hasConflict = 2])

HasNoGoal(t) ==
  /\ ~StillStopping(t) /\ loco[t].hasConflict # 1 /\ ~loco[t].goal
  /\ AloneStep(t, Stepped(t))

\* locomotiveAllocateTrack: segments of nodes in a row from the last sensor on, down to an exit
\* if one is near.
Walks == UNION {{w \in [1 .. k -> TrackNodeId] :
                   /\ \A i \in 1 .. k - 1 : w[i + 1] \in Ahead[w[i]]
                   /\ k >= SHORTEST \/ Ahead[w[k]] = {}} : k \in 1 .. LONGEST}

Claims(t) == {[i \in DOMAIN w |-> SegmentOf[w[i]]] : w \in {x \in Walks : x[1] = loco[t].sensor}}

Claimed(t, list) ==
  IF Result(t, list) < 0 THEN Stepped(t) ELSE [Stepped(t) EXCEPT !.allocated = list]

StepClaims(t, list) ==
  /\ ~StillStopping(t) /\ loco[t].hasConflict # 1 /\ loco[t].goal
  /\ Steps(t)
  /\ Allocate(t, list)
  /\ misled' = IF Granted(t, list) THEN misled \ {t}
               ELSE IF Result(t, list) < 0 THEN misled ELSE misled \cup {t}

\* Its goal is as near as its way to stop is long.
StopsAtGoal(t, list) ==
  /\ StepClaims(t, list)
  /\ loco[t].shouldStop
  /\ Becomes(t, [Braked(Claimed(t, list)) EXCEPT !.goal = FALSE])
  /\ UNCHANGED historyVars

\* The track it was granted is too short for it.
StopsNow(t, list) ==
  /\ StepClaims(t, list)
  /\ Result(t, list) >= 0 /\ loco[t].shouldStop
  /\ Becomes(t, Braked(Claimed(t, list)))
  /\ UNCHANGED historyVars

\* A refusal: it stops, or if it stands and there is a way back, it will turn.
Turned(l) == [l EXCEPT !.isReversing = ~@, !.sensor = Opposite[@]]
Yields(t, list) ==
  LET l == [Claimed(t, list) EXCEPT !.hasConflict = 1]
  IN  /\ StepClaims(t, list)
      /\ Result(t, list) < 0
      /\ IF l.speed = "zero"
         THEN Becomes(t, Turned(l)) \/ Becomes(t, l)
         ELSE Becomes(t, Braked(l))
      /\ UNCHANGED historyVars

Continues(t, list) ==
  LET l == Claimed(t, list)
  IN  /\ StepClaims(t, list)
      /\ Result(t, list) >= 0
      /\ IF l.hasConflict = 2
         THEN /\ Becomes(t, [Throttled(l, "run") EXCEPT !.hasConflict = 0, !.isReversing = FALSE])
              /\ passed' = [passed EXCEPT ![t] = IF l.isReversing THEN Opposite[@] ELSE @]
              /\ UNCHANGED astray
         ELSE Becomes(t, l) /\ UNCHANGED historyVars

-----------------------------------------------------------------------------
LocoStep(t) ==
  \/ Launch(t) \/ Stands(t)
  \/ PushCommand(t) \/ SetGoal(t) \/ SetSpeed(t)
  \/ \E v \in TrackNodeId : SensorHit(t, v)
  \/ TakesSpeed(t)
  \/ StopsOn(t) \/ WaitsForOthers(t) \/ HasNoGoal(t)
  \/ \E list \in Claims(t) :
       StopsAtGoal(t, list) \/ StopsNow(t, list) \/ Yields(t, list) \/ Continues(t, list)

LocoNext == ~failed /\ \E t \in Train : LocoStep(t)

LocoSpec == LocoInit /\ [][LocoNext]_LocoVars

-----------------------------------------------------------------------------
Command == {"goto", "stop", "zero", "run"}

LocomotiveState ==
  [at: {"none", "idle", "step", "speed"}, sensor: TrackNodeId \cup {NoSensor},
   speed: {"zero", "run"}, stopping: {"no", "rolls", "stands"}, isReversing: BOOLEAN,
   hasConflict: 0 .. 2, goal: BOOLEAN, shouldStop: BOOLEAN, gotoSpeed: {Silent, "zero", "run"},
   allocated: Seq(Segment)]

\* Types.
LocoTypeOK ==
  /\ ownershipGraph \in [Segment -> Train \cup {Free}]
  /\ loco \in [Train -> LocomotiveState]
  /\ radio \in [Train -> Command \cup {Silent, "polling"}]
  /\ orders \in [Train -> Seq(Command)]
  /\ passed \in [Train -> TrackNodeId \cup {NoSensor}] /\ astray \subseteq Train
  /\ misled \subseteq Train /\ failed \in BOOLEAN

\* What a locomotive has noted as its own is what it owns, unless the first conflict of its
\* claim was segment 0.
KnowsItsTrack(t) == t \notin misled => Owned(t) = ToSet(loco[t].allocated)

\* Where a task believes its train is, the train is: it ran last over the node that the task
\* noted, in that direction, or in the other if the task has still to tell it to turn.  Only a
\* train that a loop turned before it was told to is believed elsewhere, down to the next sensor.
FacesAsBelieved(t) ==
  loco[t].sensor # NoSensor =>
    IF t \in astray THEN TurningLoop
    ELSE loco[t].sensor = IF loco[t].isReversing THEN Opposite[passed[t]] ELSE passed[t]

\* What a locomotive holds true of its track, of its place and of its direction is so, whatever
\* the order of claims, refusals, commands and sensors
\* (locomotiveState.c:176-192, :205-341, :470-490, TrackManager.c:75-118).
LocomotivesExact == \A t \in Train : KnowsItsTrack(t) /\ FacesAsBelieved(t)

\* The assertion of locomotiveState.c:488: what is left of a train's track can be allocated
\* to it again.
TrackKept == ~failed
=============================================================================
