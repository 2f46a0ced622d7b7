---------------------------- MODULE ClockServer ----------------------------
(***************************************************************************)
(* The clock server with its two notifiers, the timer interrupts that      *)
(* drive them, and the tasks that call clockDelayBy, clockLongDelayBy,     *)
(* clockTime and clockDelayUntil.                                          *)
(*                                                                         *)
(* The server answers a tick, or a question for the time, at once; who     *)
(* asks for a delay stays blocked in Send until the server replies.  Each  *)
(* clock has a delta list: a node holds the ticks to wait after the node   *)
(* before it.  The time wraps, as a U32 does.                              *)
(***************************************************************************)
EXTENDS Integers, Sequences, FiniteSets

CONSTANTS
  Client,       \* tasks that use the clocks
  Clock,        \* the clocks they use: "tick" of 10 ms, "lores" of 150 ms
  NODE_COUNT,   \* nodes of a delay queue
  TIME_COUNT,   \* values of the time, 2^32 for a U32
  MAX_DELAY,    \* the longest delay a client asks for
  Ahead         \* how far ahead of the time a target of clockDelayUntil is

ASSUME ClockAssumption ==
  /\ "tick" \in Clock
  /\ IsFiniteSet(Client)
  /\ NODE_COUNT \in Nat \ {0}
  /\ MAX_DELAY \in Nat \ {0}
  /\ TIME_COUNT \in Nat /\ TIME_COUNT > 2 * MAX_DELAY + 2
  /\ Ahead \subseteq -1 .. MAX_DELAY

Time  == 0 .. TIME_COUNT - 1
Delay == 1 .. MAX_DELAY

VARIABLES
  absoluteTime,
  queue,      \* the delta list of each clock
  free,       \* nodes in the free list of each clock
  inbox,      \* messages sent to the server, oldest first
  notifier,   \* where the notifier of each clock is
  client,     \* where each client is
  target,     \* the time a client delays until, 0 outside clockDelayUntil
  reading,    \* the time it was told, 0 if it has no use for it any more
  failed,     \* an assertion failed and the system hangs
  owed,       \* history: timer interrupts that must come before a client wakes
  until       \* history: ticks the server must count before the client's target

serverVars == <<absoluteTime, queue, free>>
clientVars == <<client, target, reading>>
vars == <<serverVars, inbox, notifier, clientVars, failed, owed, until>>

DelayMessage(c, k, d) == [type |-> "delay", from |-> c, clock |-> k, ticks |-> d]
TimeMessage(c)        == [type |-> "time", from |-> c]
TickMessage(k)        == [type |-> "notify", clock |-> k]

\* What a conversion to S32 makes of a difference of two U32.
SignedAsUnsigned(n) == n % TIME_COUNT
Signed(n) == ((n + TIME_COUNT \div 2) % TIME_COUNT) - TIME_COUNT \div 2

-----------------------------------------------------------------------------
(* The delta list.                                                         *)

\* The ticks until the first i nodes have gone.
Until(q, i) ==
  LET sum[j \in 0 .. Len(q)] == IF j = 0 THEN 0 ELSE sum[j - 1] + q[j].delay
  IN  sum[i]

\* The place of a delay of d ticks: before the first node that goes no sooner.
PlaceLast(q, d) == Len(q) + 1
Place(q, d) ==
  CHOOSE i \in 1 .. Len(q) + 1 :
    /\ \A j \in 1 .. i - 1 : d > Until(q, j)
    /\ i <= Len(q) => d <= Until(q, i)

\* What is left of n, never less than nothing.
Less(n) == IF n > 0 THEN n - 1 ELSE 0

Node(c, d) == [task |-> c, delay |-> d]

\* delayQueuePush.  The node that follows waits so much less.
InsertedLost(q, c, d) ==
  LET i == Place(q, d)
  IN  IF i = 1 /\ q # <<>> THEN <<Node(q[1].task, q[1].delay - d)>> \o Tail(q)
      ELSE SubSeq(q, 1, i - 1) \o <<Node(c, d - Until(q, i - 1))>> \o SubSeq(q, i, Len(q))
InsertedUncorrected(q, c, d) ==
  LET i == Place(q, d)
  IN  SubSeq(q, 1, i - 1) \o <<Node(c, d - Until(q, i - 1))>> \o SubSeq(q, i, Len(q))
Inserted(q, c, d) ==
  LET i == Place(q, d)
      n == Node(c, d - Until(q, i - 1))
  IN  IF i > Len(q) THEN Append(q, n)
      ELSE SubSeq(q, 1, i - 1) \o <<n, Node(q[i].task, q[i].delay - n.delay)>>
             \o SubSeq(q, i + 1, Len(q))

\* A tick: the first node waits one less.
AgedAll(q) == [i \in 1 .. Len(q) |-> Node(q[i].task, Less(q[i].delay))]
Aged(q) == IF q = <<>> THEN q ELSE <<Node(q[1].task, q[1].delay - 1)>> \o Tail(q)

\* How many nodes the loop after a tick takes from the front.
Due(q) ==
  CHOOSE n \in 0 .. Len(q) :
    /\ \A i \in 1 .. n : q[i].delay <= 0
    /\ n < Len(q) => q[n + 1].delay > 0

Sleepers(q) == {q[i].task : i \in 1 .. Len(q)}

-----------------------------------------------------------------------------
Init ==
  /\ absoluteTime = 0
  /\ queue = [k \in Clock |-> <<>>]
  /\ free = [k \in Clock |-> NODE_COUNT]
  /\ inbox = <<>>
  /\ notifier = [k \in Clock |-> "start"]
  /\ client = [c \in Client |-> "run"]
  /\ target = [c \in Client |-> 0]
  /\ reading = [c \in Client |-> 0]
  /\ failed = FALSE
  /\ owed = [c \in Client |-> 0]
  /\ until = [c \in Client |-> 0]

Posts(m) == inbox' = Append(inbox, m)

-----------------------------------------------------------------------------
(* Clients.  The service passes on a delay of zero or less.                *)

AsksDelay(c, k, d) ==
  /\ Posts(DelayMessage(c, k, d))
  /\ client' = [client EXCEPT ![c] = "sleep"]
  /\ owed' = [owed EXCEPT ![c] = d - 1]

\* clockDelayBy and clockLongDelayBy
DelayBy(c, k, d) ==
  /\ ~failed
  /\ client[c] = "run"
  /\ AsksDelay(c, k, d)
  /\ UNCHANGED <<serverVars, notifier, target, reading, failed, until>>

ClockTime(c) ==
  /\ ~failed
  /\ client[c] = "run"
  /\ Posts(TimeMessage(c))
  /\ client' = [client EXCEPT ![c] = "time"]
  /\ UNCHANGED <<serverVars, notifier, target, reading, failed, owed, until>>

\* clockDelayUntil asks for the time first, here x ticks before its target ...
DelayUntil(c, x) ==
  /\ ~failed
  /\ client[c] = "run"
  /\ Posts(TimeMessage(c))
  /\ client' = [client EXCEPT ![c] = "until"]
  /\ target' = [target EXCEPT ![c] = (absoluteTime + x) % TIME_COUNT]
  /\ until' = [until EXCEPT ![c] = IF x > 0 THEN x ELSE 0]
  /\ UNCHANGED <<serverVars, notifier, reading, failed, owed>>

\* ... and then for the delay that was left when it was told.
DelayTheRest(c) ==
  LET d == Signed(target[c] - reading[c])
  IN  /\ ~failed
      /\ client[c] = "told"
      /\ \/ /\ d > 0
            /\ AsksDelay(c, "tick", d)
         \/ /\ d <= 0
            /\ client' = [client EXCEPT ![c] = "run"]
            /\ UNCHANGED <<inbox, owed>>
      /\ target' = [target EXCEPT ![c] = 0]
      /\ reading' = [reading EXCEPT ![c] = 0]
      /\ UNCHANGED <<serverVars, notifier, failed, until>>

-----------------------------------------------------------------------------
(* Timers and notifiers.                                                   *)

Sleeping(c, k) ==
  \/ c \in Sleepers(queue[k])
  \/ \E i \in 1 .. Len(inbox) :
       inbox[i].type = "delay" /\ inbox[i].from = c /\ inbox[i].clock = k

\* An interrupt that finds no notifier waiting is lost.
TimerInterrupt(k) ==
  /\ ~failed
  /\ notifier' = [notifier EXCEPT ![k] = IF @ = "await" THEN "woken" ELSE @]
  /\ owed' = [c \in Client |-> IF Sleeping(c, k) THEN Less(owed[c]) ELSE owed[c]]
  /\ UNCHANGED <<serverVars, inbox, clientVars, failed, until>>

NotifierAwait(k) ==
  /\ ~failed
  /\ notifier[k] = "start"
  /\ notifier' = [notifier EXCEPT ![k] = "await"]
  /\ UNCHANGED <<serverVars, inbox, clientVars, failed, owed, until>>

NotifierSend(k) ==
  /\ ~failed
  /\ notifier[k] = "woken"
  /\ notifier' = [notifier EXCEPT ![k] = "sent"]
  /\ Posts(TickMessage(k))
  /\ UNCHANGED <<serverVars, clientVars, failed, owed, until>>

-----------------------------------------------------------------------------
(* The server.                                                             *)

ServeDelay(m) ==
  /\ m.type = "delay"
  /\ \/ /\ free[m.clock] = 0
        /\ failed' = TRUE
        /\ UNCHANGED <<queue, free>>
     \/ /\ free[m.clock] > 0
        /\ queue' = [queue EXCEPT ![m.clock] = Inserted(@, m.from, m.ticks)]
        /\ free' = [free EXCEPT ![m.clock] = @ - 1]
        /\ UNCHANGED failed
  /\ UNCHANGED <<absoluteTime, notifier, clientVars, until>>

ServeTime(m) ==
  /\ m.type = "time"
  /\ \/ /\ client[m.from] = "time"
        /\ client' = [client EXCEPT ![m.from] = "run"]
        /\ UNCHANGED reading
     \/ /\ client[m.from] = "until"
        /\ client' = [client EXCEPT ![m.from] = "told"]
        /\ reading' = [reading EXCEPT ![m.from] = absoluteTime]
  /\ UNCHANGED <<serverVars, notifier, target, failed, until>>

\* Freed nodes go back to the free list.
FreeAfterLeaky(n, due) == n
FreeAfter(n, due) == n + due

ServeTick(m) ==
  /\ m.type = "notify"
  /\ LET k   == m.clock
         q   == Aged(queue[k])
         due == Due(q)
     IN  /\ notifier' = [notifier EXCEPT ![k] = "start"]
         /\ queue' = [queue EXCEPT ![k] = SubSeq(q, due + 1, Len(q))]
         /\ free' = [free EXCEPT ![k] = FreeAfter(@, due)]
         /\ client' = [c \in Client |-> IF c \in Sleepers(SubSeq(q, 1, due))
                                        THEN "run" ELSE client[c]]
         /\ absoluteTime' = IF k = "tick" THEN (absoluteTime + 1) % TIME_COUNT
                            ELSE absoluteTime
         /\ until' = [c \in Client |-> IF k = "tick" THEN Less(until[c]) ELSE until[c]]
  /\ UNCHANGED <<target, reading, failed>>

Serve ==
  /\ ~failed
  /\ inbox # <<>>
  /\ inbox' = Tail(inbox)
  /\ LET m == Head(inbox) IN ServeDelay(m) \/ ServeTime(m) \/ ServeTick(m)
  /\ UNCHANGED owed

\* assertHandler hangs the board.
Hung == failed /\ UNCHANGED vars

Next ==
  \/ \E c \in Client :
       \/ \E k \in Clock, d \in Delay : DelayBy(c, k, d)
       \/ ClockTime(c)
       \/ \E x \in Ahead : DelayUntil(c, x)
       \/ DelayTheRest(c)
  \/ \E k \in Clock : TimerInterrupt(k) \/ NotifierAwait(k) \/ NotifierSend(k)
  \/ Serve
  \/ Hung

Spec == Init /\ [][Next]_vars

\* The timers run for ever, and the notifiers and the server have the CPU before the
\* clients: their priorities are 0, 1 and 2.
FairSpec ==
  /\ Spec
  /\ \A k \in Clock : WF_vars(TimerInterrupt(k)) /\ WF_vars(NotifierAwait(k))
                        /\ WF_vars(NotifierSend(k))
  /\ WF_vars(Serve)

-----------------------------------------------------------------------------
\* Types.
TypeOK ==
  /\ absoluteTime \in Time
  /\ \A k \in Clock : \A i \in 1 .. Len(queue[k]) :
       queue[k][i] \in [task : Client, delay : Nat]
  /\ free \in [Clock -> 0 .. NODE_COUNT]
  /\ notifier \in [Clock -> {"start", "await", "woken", "sent"}]
  /\ client \in [Client -> {"run", "time", "until", "told", "sleep"}]
  /\ target \in [Client -> Time]
  /\ reading \in [Client -> Time]
  /\ failed \in BOOLEAN

\* The messages under way are those of the tasks that wait for the server, and a client
\* that sleeps has one node, in one list, or its request is under way: nobody is
\* answered who does not wait, nobody who waits is forgotten, and no node leaks
\* (ClockServer.c:43-158).
SleepersExact ==
  /\ \A c \in Client :
       LET asked == {i \in 1 .. Len(inbox) :
                       inbox[i].type # "notify" /\ inbox[i].from = c}
           nodes == {p \in Clock \X (1 .. Cardinality(Client)) :
                       p[2] <= Len(queue[p[1]]) /\ queue[p[1]][p[2]].task = c}
       IN  ~failed => Cardinality(asked) + Cardinality(nodes) =
                        IF client[c] \in {"time", "until", "sleep"} THEN 1 ELSE 0
  /\ \A k \in Clock : free[k] + Len(queue[k]) = NODE_COUNT
  /\ \A k \in Clock :
       Cardinality({i \in 1 .. Len(inbox) : inbox[i] = TickMessage(k)}) =
         IF notifier[k] = "sent" THEN 1 ELSE 0

\* No sleeper is due and left behind, and none has more ticks to wait than anybody asks
\* for: clockDelayUntil with a target that has passed, or on either side of the wrap of
\* the time, does not sleep for the rest of the range (clockService.c:41-44).
DelaysBounded ==
  \A k \in Clock : queue[k] # <<>> =>
    queue[k][1].delay > 0 /\ Until(queue[k], Len(queue[k])) <= MAX_DELAY

\* A client returns from clockDelayBy or clockLongDelayBy no earlier than d - 1 whole
\* periods of the timer, and from clockDelayUntil not before its target, though the time
\* it computes with is old and wraps (clockService.c:5-47, ClockServer.c:67-108).
NeverEarly ==
  \A c \in Client : client[c] = "run" => owed[c] = 0 /\ until[c] = 0

\* The delta lists are alarm clocks (ClockServer.c:50-158).
Remaining(k) ==
  [c \in Sleepers(queue[k]) |->
     Until(queue[k], CHOOSE i \in 1 .. Len(queue[k]) : queue[k][i].task = c)]

Alarms == INSTANCE AlarmClock WITH remaining <- [k \in Clock |-> Remaining(k)]

ImplementsAlarmClock == Alarms!Spec

\* Who sleeps is woken, however many ticks are lost and whoever else asks for delays.
Woken == \A c \in Client : client[c] = "sleep" ~> client[c] = "run" \/ failed
=============================================================================
