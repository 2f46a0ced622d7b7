---------------------------- MODULE SwitchOffice ----------------------------
(***************************************************************************)
(* The switch office.  It keeps a calendar of requests for each branch: a  *)
(* list of nodes taken from one free list.  For each request that it       *)
(* enters it creates a worker, which waits for the time of the request,    *)
(* throws the switch and reports back; the office then takes the first     *)
(* node out of the calendar.  The office answers a client alike whether    *)
(* the request was entered or not.                                         *)
(*                                                                         *)
(* A worker is more urgent than the office, so the office receives nothing *)
(* while one has something to do.                                          *)
(***************************************************************************)
EXTENDS Naturals, Sequences, FiniteSets, Functions

CONSTANTS
  Turnout,         \* branches of the track
  Opposed,         \* function from the branches 154 and 156 to 153 and 155
  Direction,       \* eStraight and eCurved
  Initially,       \* how the office throws each branch when it starts
  Prompt, Driver,  \* tasks that ask for switches
  NODES,           \* nodes of all calendars
  LEAD, HOLD,      \* the `sw' command asks from now + LEAD on, and for HOLD ticks
  Delay,           \* delays that the `sd' command may be given
  LAST_TICK,       \* the clock stops here
  ASKS             \* and so many messages are sent by clients

ASSUME SwitchOfficeAssumption ==
  /\ Opposed \in [DOMAIN Opposed -> Turnout] /\ DOMAIN Opposed \subseteq Turnout
  /\ NODES \in Nat /\ LAST_TICK \in Nat /\ ASKS \in Nat
  /\ LEAD \in Nat /\ HOLD \in Nat \ {0} /\ Delay \subseteq Nat
  /\ Cardinality(Direction) = 2 /\ Initially \in [Turnout -> Direction]

Client == Prompt \cup Driver

VARIABLES
  switchCalendar,   \* the requests of each branch
  switchFreeList,   \* how many nodes are free
  switches,         \* what a client is told of each branch
  officeInbox,      \* messages sent to the office, oldest first
  office,           \* run, or spin in a loop, or hang in a failed assertion
  workers,          \* the requests whose workers wait for their time
  asker,            \* where each client is
  tick,
  asked,            \* how many messages clients have sent
  position,         \* how each branch was thrown last
  early             \* was a request entered for an earlier time than others of its branch:
                    \* none, between two others, or behind a later first one

calendarVars == <<switchCalendar, switchFreeList>>
OfficeVars == <<calendarVars, switches, officeInbox, office, workers, asker, tick, asked,
                position, early>>

SwitchRequest == [branch : Turnout, direction : Direction, start : Nat, end : Nat]

OfficeInit ==
  /\ switchCalendar = [b \in Turnout |-> <<>>]
  /\ switchFreeList = NODES
  /\ switches = Initially /\ position = Initially
  /\ officeInbox = <<>>
  /\ office = "run"
  /\ workers = {}
  /\ asker = [c \in Client |-> "run"]
  /\ tick = 0 /\ asked = 0
  /\ early = "none"

-----------------------------------------------------------------------------
(* Clients: the commands of the prompt and the trains.                     *)

Asks(c, message) ==
  /\ office # "hang"
  /\ asker[c] = "run"
  /\ asked < ASKS
  /\ asked' = asked + 1
  /\ asker' = [asker EXCEPT ![c] = "sent"]
  /\ officeInbox' = Append(officeInbox, message)
  /\ UNCHANGED <<calendarVars, switches, office, workers, tick, position, early>>

Request(b, d, from, to) == [branch |-> b, direction |-> d, start |-> from, end |-> to]
AllocateMessage(c, request) == [type |-> "allocate", from |-> c, request |-> request]

\* dispatchSystemCommand
CommandSw(c, b, d) == Asks(c, AllocateMessage(c, Request(b, d, tick + LEAD, tick + LEAD + HOLD)))
CommandSd(c, b, d, wait) ==
  Asks(c, AllocateMessage(c, Request(b, d, tick + wait, tick + wait + HOLD)))

\* locomotiveStep, locomotiveAllocateTrack
TrainThrows(c, b, d) == Asks(c, AllocateMessage(c, Request(b, d, tick, tick)))
TrainReads(c, b) == Asks(c, [type |-> "read", from |-> c, branch |-> b])

-----------------------------------------------------------------------------
(* Workers.                                                                *)

Due(w) == w.start <= tick

\* The clock server wakes the one with the earliest start first.
ThrownAlong(f, w) ==
  IF w.branch \in DOMAIN Opposed
  THEN [f EXCEPT ![Opposed[w.branch]] = CHOOSE d \in Direction : d # w.direction]
  ELSE f

WorkerThrows(w) ==
  /\ office # "hang"
  /\ Due(w)
  /\ \A v \in workers : w.start <= v.start
  /\ workers' = workers \ {w}
  /\ position' = ThrownAlong([position EXCEPT ![w.branch] = w.direction], w)
  /\ switches' = ThrownAlong(switches, w)
  /\ officeInbox' = Append(officeInbox, [type |-> "worker", request |-> w])
  /\ UNCHANGED <<calendarVars, office, asker, tick, asked, early>>

-----------------------------------------------------------------------------
(* The office.                                                             *)

Answered(c) == asker' = [asker EXCEPT ![c] = "run"]

TakesHead(b) == [switchCalendar EXCEPT ![b] = Tail(@)]

ServeWorker(m) ==
  LET calendar == switchCalendar[m.request.branch] IN
  /\ m.type = "worker"
  /\ switchCalendar' = TakesHead(m.request.branch)
  /\ IF Head(calendar).start = m.request.start
     THEN switchFreeList' = switchFreeList + 1 /\ UNCHANGED office
     ELSE office' = "hang" /\ UNCHANGED switchFreeList
  /\ UNCHANGED <<switches, workers, asker, early>>

ServeRead(m) ==
  /\ m.type = "read"
  /\ Answered(m.from)
  /\ UNCHANGED <<calendarVars, switches, office, workers, early>>

\* A worker starts by storing the direction, before it waits.
Enters(m, calendar) ==
  IF switchFreeList = 0
  THEN office' = "hang" /\ UNCHANGED <<calendarVars, switches, workers, asker>>
  ELSE /\ switchCalendar' = [switchCalendar EXCEPT ![m.request.branch] = calendar]
       /\ switchFreeList' = switchFreeList - 1
       /\ switches' = [switches EXCEPT ![m.request.branch] = m.request.direction]
       /\ workers' = workers \cup {m.request}
       /\ Answered(m.from)
       /\ UNCHANGED office

Overlap(a, b) == a.start <= b.end /\ a.end >= b.start

EnterFirst(m) ==
  /\ switchCalendar[m.request.branch] = <<>>
  /\ Enters(m, <<m.request>>)
  /\ UNCHANGED early

Refuse(m) ==
  /\ Overlap(switchCalendar[m.request.branch][1], m.request)
  /\ Answered(m.from)
  /\ UNCHANGED <<calendarVars, switches, office, workers, early>>

Behind(a, b) == a.start >= b.end
Before(a, b) == b.start >= a.end

\* The request goes behind the first node, or the loop looks at the second node for ever:
\* it does not come to a third.
EnterSecond(m) ==
  LET calendar == switchCalendar[m.request.branch] IN
  /\ ~Overlap(calendar[1], m.request)
  /\ Len(calendar) > 1 => Before(m.request, calendar[2])
  /\ Enters(m, <<Head(calendar), m.request>> \o Tail(calendar))
  /\ early' = IF early = "behind" \/ m.request.start < calendar[1].start THEN "behind"
              ELSE IF Len(calendar) > 1 /\ m.request.start < calendar[2].start THEN "between"
              ELSE early

Spins(m) ==
  LET calendar == switchCalendar[m.request.branch] IN
  /\ ~Overlap(calendar[1], m.request)
  /\ Len(calendar) > 1 /\ ~Before(m.request, calendar[2])
  /\ office' = "spin"
  /\ UNCHANGED <<calendarVars, switches, workers, asker, early>>

ServeAllocate(m) ==
  /\ m.type = "allocate"
  /\ \/ EnterFirst(m)
     \/ /\ switchCalendar[m.request.branch] # <<>>
        /\ Refuse(m) \/ EnterSecond(m) \/ Spins(m)

ServeOffice ==
  /\ office = "run"
  /\ \A w \in workers : ~Due(w)
  /\ officeInbox # <<>>
  /\ officeInbox' = Tail(officeInbox)
  /\ LET m == Head(officeInbox) IN ServeWorker(m) \/ ServeRead(m) \/ ServeAllocate(m)
  /\ UNCHANGED <<tick, asked, position>>

Tick ==
  /\ office # "hang"
  /\ tick < LAST_TICK
  /\ tick' = tick + 1
  /\ UNCHANGED <<calendarVars, switches, officeInbox, office, workers, asker, asked, position,
                 early>>

\* assertHandler hangs the board; or the clock and the clients have come to their bounds.
OfficeStops ==
  /\ office = "hang" \/ (tick = LAST_TICK /\ (asked = ASKS \/ office = "spin"))
  /\ UNCHANGED OfficeVars

OfficeNext ==
  \/ \E c \in Prompt, b \in Turnout, d \in Direction :
       CommandSw(c, b, d) \/ \E wait \in Delay : CommandSd(c, b, d, wait)
  \/ \E c \in Driver, b \in Turnout :
       TrainReads(c, b) \/ \E d \in Direction : TrainThrows(c, b, d)
  \/ \E w \in workers : WorkerThrows(w)
  \/ ServeOffice
  \/ Tick
  \/ OfficeStops

OfficeSpec == OfficeInit /\ [][OfficeNext]_OfficeVars

-----------------------------------------------------------------------------
\* Types.
OfficeTypeOK ==
  /\ \A b \in Turnout : \A i \in 1 .. Len(switchCalendar[b]) : switchCalendar[b][i].branch = b
  /\ switchFreeList \in 0 .. NODES
  /\ office \in {"run", "spin", "hang"}
  /\ asker \in [Client -> {"run", "sent"}]

\* How many workers for branch b and time s have not reported, or not been heard.
Unheard(b, s) ==
  Cardinality({w \in workers : w.branch = b /\ w.start = s})
    + Cardinality({i \in 1 .. Len(officeInbox) :
                     /\ officeInbox[i].type = "worker"
                     /\ officeInbox[i].request.branch = b
                     /\ officeInbox[i].request.start = s})

\* No node is lost and none is in two calendars.  And as long as no request was entered behind
\* a later one, each calendar is in the order of time, and for each time it holds as many
\* requests as there are workers that have not reported.  If requests came in the order of
\* their times, a branch without work is as the office says, except for one that is thrown
\* along with another (SwitchOffice.c:43-62, :111-204).
OfficeExact ==
  office # "hang" =>
    /\ switchFreeList = NODES - Cardinality({x \in Turnout \X (1 .. NODES) :
                                               x[2] <= Len(switchCalendar[x[1]])})
    /\ early # "behind" =>
         \A b \in Turnout :
           LET calendar == switchCalendar[b] IN
           /\ \A i \in 2 .. Len(calendar) : calendar[i - 1].start <= calendar[i].start
           /\ \A s \in 0 .. LAST_TICK :
                Cardinality({i \in 1 .. Len(calendar) : calendar[i].start = s}) = Unheard(b, s)
           /\ (early = "none" /\ calendar = <<>> /\ b \notin Range(Opposed)) =>
                position[b] = switches[b]
=============================================================================
