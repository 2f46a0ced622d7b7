-------------------------- MODULE SwitchOfficeProofs --------------------------
(***************************************************************************)
(* What the switch office promises holds for every track, every number of  *)
(* clients and nodes, and however long the clock runs.                     *)
(*                                                                         *)
(* The argument: a request is entered once, because an equal one that is   *)
(* not yet due would overlap it; so workers and nodes of a branch answer   *)
(* to each other, time for time.  From the second node on a calendar is in *)
(* order whatever is asked, and as long as nothing was entered early the   *)
(* nodes from there on are all for one time, so that the worker whose      *)
(* direction the office tells to its clients is the last to throw.         *)
(***************************************************************************)
EXTENDS SwitchOffice, Counting

\* A request lasts, or it is a train's and was due when it was made.
Sensible(r) == r.start < r.end \/ (r.start = r.end /\ r.start <= tick)

OfficeMessage ==
  [type : {"allocate"}, from : Client, request : SwitchRequest]
    \cup [type : {"read"}, from : Client, branch : Turnout]
    \cup [type : {"worker"}, request : SwitchRequest]

OfficeTypes ==
  /\ switchCalendar \in [Turnout -> Seq(SwitchRequest)]
  /\ switchFreeList \in 0 .. NODES
  /\ switches \in [Turnout -> Direction] /\ position \in [Turnout -> Direction]
  /\ officeInbox \in Seq(OfficeMessage)
  /\ office \in {"run", "spin", "hang"}
  /\ workers \in SUBSET SwitchRequest /\ IsFiniteSet(workers)
  /\ asker \in [Client -> {"run", "sent"}]
  /\ tick \in Nat
  /\ early \in {"none", "between", "behind"}

\* Every request was made by a command or a train, and stands in its branch's calendar.
RequestsSensible ==
  /\ \A w \in workers : Sensible(w)
  /\ \A i \in 1 .. Len(officeInbox) :
       officeInbox[i].type = "allocate" => Sensible(officeInbox[i].request)
  /\ \A b \in Turnout : \A i \in 1 .. Len(switchCalendar[b]) :
       switchCalendar[b][i].branch = b /\ Sensible(switchCalendar[b][i])

Nodes == {x \in Turnout \X (1 .. NODES) : x[2] <= Len(switchCalendar[x[1]])}

NodesKept ==
  /\ IsFiniteSet(Nodes) /\ switchFreeList + Cardinality(Nodes) = NODES
  /\ \A b \in Turnout : Len(switchCalendar[b]) <= NODES

StartingAt(s)  == {r \in SwitchRequest : r.start = s}
Waiting(b, s)  == {w \in workers : w.branch = b /\ w.start = s}
ReportOf(b, s) == {m \in OfficeMessage : /\ m.type = "worker"
                                         /\ m.request.branch = b /\ m.request.start = s}

WorkersMatch ==
  \A b \in Turnout, s \in Nat :
    Count(switchCalendar[b], StartingAt(s))
      = Cardinality(Waiting(b, s)) + Count(officeInbox, ReportOf(b, s))

\* Nodes are in the order of time: from the second on, and all of them unless a request was
\* entered behind a later one.
InOrder ==
  \A b \in Turnout : \A i, j \in 1 .. Len(switchCalendar[b]) :
    i < j /\ (i = 1 => early # "behind") =>
      switchCalendar[b][i].start <= switchCalendar[b][j].start

\* What the office tells of a branch is what the last worker will do, or has done.
FinalOf(b, w) ==
  /\ w.branch = b /\ w.direction = switches[b]
  /\ \A v \in workers : v.branch = b /\ v # w => v.start < w.start

Told(b) ==
  \/ \E w \in workers : FinalOf(b, w)
  \/ position[b] = switches[b] /\ \A w \in workers : w.branch # b

ToldRight ==
  early = "none" =>
    /\ \A b \in Turnout : \A i, j \in 2 .. Len(switchCalendar[b]) :
         switchCalendar[b][i].start = switchCalendar[b][j].start
    /\ \A b \in Turnout \ Range(Opposed) : Told(b)

OfficeInv ==
  /\ OfficeTypes /\ RequestsSensible
  /\ office # "hang" => NodesKept /\ WorkersMatch /\ InOrder /\ ToldRight

-----------------------------------------------------------------------------
(* Requests and messages.                                                  *)

LEMMA RequestShape ==
  ASSUME NEW b \in Turnout, NEW d \in Direction, NEW from \in Nat, NEW to \in Nat
  PROVE  /\ Request(b, d, from, to) \in SwitchRequest
         /\ Request(b, d, from, to).start = from /\ Request(b, d, from, to).end = to
BY DEF Request, SwitchRequest

LEMMA RequestFields ==
  ASSUME NEW r \in SwitchRequest
  PROVE  r.branch \in Turnout /\ r.direction \in Direction /\ r.start \in Nat /\ r.end \in Nat
BY DEF SwitchRequest

LEMMA MessageKinds ==
  ASSUME NEW m \in OfficeMessage
  PROVE  /\ m.type \in {"allocate", "read", "worker"}
         /\ m.type = "allocate" => m.from \in Client /\ m.request \in SwitchRequest
         /\ m.type = "worker" => m.request \in SwitchRequest
BY DEF OfficeMessage

LEMMA MessageShape ==
  /\ \A c \in Client, r \in SwitchRequest :
       /\ AllocateMessage(c, r) \in OfficeMessage
       /\ AllocateMessage(c, r).type = "allocate" /\ AllocateMessage(c, r).request = r
  /\ \A c \in Client, b \in Turnout :
       /\ [type |-> "read", from |-> c, branch |-> b] \in OfficeMessage
       /\ [type |-> "read", from |-> c, branch |-> b].type = "read"
  /\ \A r \in SwitchRequest :
       /\ [type |-> "worker", request |-> r] \in OfficeMessage
       /\ [type |-> "worker", request |-> r].type = "worker"
       /\ [type |-> "worker", request |-> r].request = r
BY DEF OfficeMessage, AllocateMessage

\* What may stand in the inbox: a worker's report, or a request that makes sense.
Proper(m) == m.type = "allocate" => Sensible(m.request)

LEMMA SensibleStays ==
  ASSUME NEW r \in SwitchRequest, Sensible(r), tick \in Nat, tick' \in Nat, tick <= tick'
  PROVE  Sensible(r)'
BY RequestFields DEF Sensible

LEMMA InboxTail ==
  ASSUME OfficeTypes, RequestsSensible, officeInbox # <<>>
  PROVE  /\ Head(officeInbox) \in OfficeMessage /\ Proper(Head(officeInbox))
         /\ Tail(officeInbox) \in Seq(OfficeMessage)
         /\ \A i \in 1 .. Len(Tail(officeInbox)) : Proper(Tail(officeInbox)[i])
<1>1. officeInbox \in Seq(OfficeMessage)
  BY DEF OfficeTypes
<1>2. /\ Head(officeInbox) \in OfficeMessage /\ Tail(officeInbox) \in Seq(OfficeMessage)
      /\ Len(Tail(officeInbox)) = Len(officeInbox) - 1
      /\ \A i \in 1 .. Len(Tail(officeInbox)) : Tail(officeInbox)[i] = officeInbox[i + 1]
  BY <1>1, HeadTailProperties
<1>3. Len(officeInbox) \in Nat /\ Len(officeInbox) > 0 /\ Head(officeInbox) = officeInbox[1]
  BY <1>1, LenProperties, EmptySeq
<1>4. \A i \in 1 .. Len(officeInbox) : Proper(officeInbox[i])
  BY DEF RequestsSensible, Proper
<1>5. Proper(Head(officeInbox))
  BY <1>3, <1>4
<1>6. ASSUME NEW i \in 1 .. Len(Tail(officeInbox))
      PROVE  Proper(Tail(officeInbox)[i])
  <2>1. i + 1 \in 1 .. Len(officeInbox) /\ Tail(officeInbox)[i] = officeInbox[i + 1]
    BY <1>2, <1>3, <1>6
  <2> QED BY <1>4, <2>1
<1> QED BY <1>2, <1>5, <1>6

\* A message more in the inbox.
LEMMA InboxAppend ==
  ASSUME OfficeTypes, RequestsSensible, NEW m \in OfficeMessage, Proper(m)
  PROVE  /\ Append(officeInbox, m) \in Seq(OfficeMessage)
         /\ \A i \in 1 .. Len(Append(officeInbox, m)) : Proper(Append(officeInbox, m)[i])
<1>1. officeInbox \in Seq(OfficeMessage) /\ Len(officeInbox) \in Nat
  BY LenProperties DEF OfficeTypes
<1>2. /\ Append(officeInbox, m) \in Seq(OfficeMessage)
      /\ Len(Append(officeInbox, m)) = Len(officeInbox) + 1
      /\ \A i \in 1 .. Len(officeInbox) : Append(officeInbox, m)[i] = officeInbox[i]
      /\ Append(officeInbox, m)[Len(officeInbox) + 1] = m
  BY <1>1, AppendProperties
<1>3. \A i \in 1 .. Len(officeInbox) : Proper(officeInbox[i])
  BY DEF RequestsSensible, Proper
<1> QED BY <1>1, <1>2, <1>3

-----------------------------------------------------------------------------
(* What the invariant says of one branch.                                  *)

LEMMA CalendarShape ==
  ASSUME OfficeTypes, RequestsSensible, NEW b \in Turnout
  PROVE  /\ switchCalendar[b] \in Seq(SwitchRequest) /\ Len(switchCalendar[b]) \in Nat
         /\ \A i \in 1 .. Len(switchCalendar[b]) :
              /\ switchCalendar[b][i] \in SwitchRequest
              /\ switchCalendar[b][i].branch = b /\ Sensible(switchCalendar[b][i])
<1>1. switchCalendar[b] \in Seq(SwitchRequest)
  BY DEF OfficeTypes
<1> QED BY <1>1, LenProperties, ElementOfSeq DEF RequestsSensible

LEMMA WaitingFinite ==
  ASSUME OfficeTypes, NEW b, NEW s
  PROVE  IsFiniteSet(Waiting(b, s)) /\ Cardinality(Waiting(b, s)) \in Nat
<1>1. Waiting(b, s) \subseteq workers /\ IsFiniteSet(workers)
  BY DEF OfficeTypes, Waiting
<1> QED BY <1>1, FS_Subset, FS_CardinalityType

\* A worker that waits has its node.
LEMMA WorkerPlaced ==
  ASSUME OfficeTypes, RequestsSensible, WorkersMatch, NEW w \in workers
  PROVE  \E i \in 1 .. Len(switchCalendar[w.branch]) :
           switchCalendar[w.branch][i].start = w.start
<1>1. PICK b \in Turnout, s \in Nat : b = w.branch /\ s = w.start
  BY RequestFields DEF OfficeTypes
<1>2. switchCalendar[b] \in Seq(SwitchRequest)
  BY CalendarShape
<1>3. Waiting(b, s) # {}
  BY <1>1 DEF Waiting
<1>4. Cardinality(Waiting(b, s)) \in Nat /\ Cardinality(Waiting(b, s)) # 0
  BY <1>3, WaitingFinite, FS_EmptySet
<1>5. Count(officeInbox, ReportOf(b, s)) \in Nat
  BY PlacesFinite DEF OfficeTypes
<1>6. Count(switchCalendar[b], StartingAt(s)) # 0
  BY <1>4, <1>5 DEF WorkersMatch
<1>7. PICK i \in 1 .. Len(switchCalendar[b]) : switchCalendar[b][i] \in StartingAt(s)
  BY <1>2, <1>6, CountZero
<1> QED BY <1>1, <1>7 DEF StartingAt

LEMMA EmptyIdle ==
  ASSUME OfficeTypes, RequestsSensible, WorkersMatch, NEW b, switchCalendar[b] = <<>>
  PROVE  \A w \in workers : w.branch # b
BY WorkerPlaced

\* A worker that is not due waits for another time than a request that goes behind the first
\* node; and for an earlier one, as long as nothing is entered early.
LEMMA SecondApart ==
  ASSUME OfficeTypes, RequestsSensible, WorkersMatch, InOrder,
         NEW r \in SwitchRequest, Sensible(r),
         NEW c, c = switchCalendar[r.branch], c # <<>>,
         ~Overlap(c[1], r), Len(c) > 1 => Before(r, c[2]),
         NEW v \in workers, v.branch = r.branch, ~Due(v)
  PROVE  /\ v.start # r.start
         /\ (ToldRight /\ early = "none" /\ r.start >= c[1].start
               /\ (Len(c) > 1 => r.start >= c[2].start)) => v.start < r.start
<1>1. PICK b \in Turnout : b = r.branch
  BY RequestFields
<1>2. /\ c \in Seq(SwitchRequest) /\ Len(c) \in Nat /\ Len(c) > 0
      /\ \A i \in 1 .. Len(c) : /\ c[i] \in SwitchRequest /\ c[i].start \in Nat
                                /\ c[i].end \in Nat /\ c[i].start <= c[i].end
  <2>1. c \in Seq(SwitchRequest) /\ Len(c) \in Nat
        /\ \A i \in 1 .. Len(c) : c[i] \in SwitchRequest /\ Sensible(c[i])
    BY <1>1, CalendarShape
  <2>2. Len(c) > 0
    BY <2>1, EmptySeq
  <2>3. ASSUME NEW i \in 1 .. Len(c)
        PROVE  /\ c[i] \in SwitchRequest /\ c[i].start \in Nat
               /\ c[i].end \in Nat /\ c[i].start <= c[i].end
    BY <2>1, RequestFields DEF Sensible
  <2> QED BY <2>1, <2>2, <2>3
<1>3. PICK i \in 1 .. Len(c) : c[i].start = v.start
  BY WorkerPlaced
<1>4. /\ v.start \in Nat /\ r.start \in Nat /\ r.end \in Nat /\ tick \in Nat
      /\ v.start > tick
  BY RequestFields DEF OfficeTypes, Due
<1>5. r.start < r.end \/ (r.start = r.end /\ r.start <= tick)
  BY DEF Sensible
<1>6. c[1].start > r.end \/ c[1].end < r.start
  BY <1>2, <1>4 DEF Overlap
<1>7. CASE i = 1
  <2>1. c[1].start = v.start /\ c[1].start <= c[1].end /\ c[1].start \in Nat /\ c[1].end \in Nat
    BY <1>2, <1>3, <1>7
  <2> QED BY <1>4, <1>5, <1>6, <2>1
<1>8. CASE i # 1
  <2>1. 2 \in 1 .. Len(c) /\ Len(c) > 1 /\ i \in 2 .. Len(c) /\ 2 \in 2 .. Len(c)
    BY <1>2, <1>8
  <2>2. c[2].start \in Nat /\ r.end <= c[2].start
    BY <1>2, <1>4, <2>1 DEF Before
  <2>3. c[2].start <= c[i].start
    <3>1. CASE i = 2
      BY <2>2, <3>1
    <3>2. CASE i # 2
      <4>1. 2 < i
        BY <1>2, <1>8, <3>2
      <4> QED BY <1>1, <2>1, <4>1 DEF InOrder
    <3> QED BY <3>1, <3>2
  <2>4. v.start # r.start
    BY <1>3, <1>4, <1>5, <2>2, <2>3
  <2>5. ASSUME ToldRight, early = "none", r.start >= c[2].start
        PROVE  v.start < r.start
    <3>1. c[i].start = c[2].start
      BY <1>1, <2>1, <2>5 DEF ToldRight
    <3> QED BY <1>3, <1>4, <2>4, <2>5, <3>1
  <2> QED BY <2>1, <2>4, <2>5
<1> QED BY <1>7, <1>8

-----------------------------------------------------------------------------
(* A request in its calendar.                                              *)

\* The second place in a sequence.
Second(q, x) == <<Head(q), x>> \o Tail(q)

LEMMA SecondShape ==
  ASSUME NEW T, NEW q \in Seq(T), q # <<>>, NEW x \in T
  PROVE  /\ Second(q, x) \in Seq(T) /\ Len(Second(q, x)) = Len(q) + 1
         /\ Second(q, x)[1] = q[1] /\ Second(q, x)[2] = x
         /\ \A i \in 3 .. Len(q) + 1 : Second(q, x)[i] = q[i - 1]
         /\ \A S : Count(Second(q, x), S) = Count(q, S) + One(x \in S)
<1>1. /\ Len(q) \in Nat /\ Len(q) > 0 /\ Head(q) \in T /\ Head(q) = q[1]
      /\ Tail(q) \in Seq(T) /\ Len(Tail(q)) = Len(q) - 1
      /\ \A i \in 1 .. Len(Tail(q)) : Tail(q)[i] = q[i + 1]
  BY EmptySeq, LenProperties, HeadTailProperties
<1>2. PICK h \in T : h = Head(q)
  BY <1>1
<1>3. PICK t \in Seq(T) : t = Tail(q)
  BY <1>1
<1> DEFINE u == <<h, x>>
           s == u \o t
<1>4. Second(q, x) = s
  BY <1>2, <1>3 DEF Second
<1>5. u \in Seq(T) /\ Len(u) = 2 /\ u[1] = h /\ u[2] = x
  OBVIOUS
<1>6. /\ s \in Seq(T) /\ Len(s) = 2 + Len(t)
      /\ \A i \in 1 .. Len(s) : s[i] = IF i <= 2 THEN u[i] ELSE t[i - 2]
  BY <1>5, ConcatProperties
<1> HIDE DEF u, s
<1>7. Len(t) = Len(q) - 1 /\ \A i \in 1 .. Len(t) : t[i] = q[i + 1]
  BY <1>1, <1>3
<1>8. Len(s) = Len(q) + 1 /\ s[1] = q[1] /\ s[2] = x
  BY <1>1, <1>2, <1>5, <1>6, <1>7
<1>9. ASSUME NEW i \in 3 .. Len(q) + 1
      PROVE  s[i] = q[i - 1]
  <2>1. s[i] = t[i - 2]
    BY <1>1, <1>6, <1>8
  <2>2. PICK k : k = i - 2
    OBVIOUS
  <2>3. k \in 1 .. Len(t) /\ k + 1 = i - 1
    BY <1>1, <1>7, <2>2
  <2> QED BY <1>7, <2>1, <2>2, <2>3
<1>10. ASSUME NEW S
       PROVE  Count(s, S) = Count(q, S) + One(x \in S)
  <2>1. PICK y \in Seq(T) : y = <<x>> \o t
    <3>1. <<x>> \in Seq(T)
      OBVIOUS
    <3> QED BY <3>1, ConcatProperties
  <2>2. s # <<>> /\ Head(s) = h /\ Tail(s) = y
    <3>1. u = <<h>> \o <<x>> /\ <<h>> \in Seq(T) /\ <<x>> \in Seq(T)
      BY DEF u
    <3>2. s = <<h>> \o y
      BY <2>1, <3>1, Regrouped DEF s
    <3>3. <<h>> # <<>> /\ Head(<<h>>) = h /\ Tail(<<h>>) = <<>>
      OBVIOUS
    <3>4. s # <<>> /\ Head(s) = h /\ Tail(s) = <<>> \o y
      BY <3>1, <3>2, <3>3, HeadOfConcat
    <3> QED BY <3>4, ConcatEmptySeq
  <2>3. y # <<>> /\ Head(y) = x /\ Tail(y) = t
    <3>1. <<x>> \in Seq(T) /\ <<x>> # <<>> /\ Head(<<x>>) = x /\ Tail(<<x>>) = <<>>
      OBVIOUS
    <3>2. y # <<>> /\ Head(y) = x /\ Tail(y) = <<>> \o t
      BY <2>1, <3>1, HeadOfConcat
    <3> QED BY <3>2, ConcatEmptySeq
  <2>4. Count(y, S) = Count(s, S) - One(h \in S)
    BY <1>6, <2>2, CountTail
  <2>5. Count(t, S) = Count(y, S) - One(x \in S)
    BY <2>3, CountTail
  <2>6. Count(t, S) = Count(q, S) - One(h \in S)
    BY <1>2, <1>3, CountTail
  <2>7. Count(t, S) \in Nat /\ Count(y, S) \in Nat /\ Count(s, S) \in Nat /\ Count(q, S) \in Nat
    BY <1>6, PlacesFinite
  <2>8. PICK a \in Nat : a = One(h \in S)
    BY DEF One
  <2>9. PICK b \in Nat : b = One(x \in S)
    BY DEF One
  <2>10. /\ Count(y, S) = Count(s, S) - a /\ Count(t, S) = Count(y, S) - b
         /\ Count(t, S) = Count(q, S) - a
    BY <2>4, <2>5, <2>6, <2>8, <2>9
  <2>11. Count(s, S) = Count(q, S) + b
    BY <2>7, <2>10
  <2> QED BY <2>9, <2>11
<1> QED BY <1>4, <1>6, <1>8, <1>9, <1>10

-----------------------------------------------------------------------------
(* The steps of clients and of the clock.                                  *)

LEMMA OfficeInvInit == OfficeInit => OfficeInv
<1> SUFFICES ASSUME OfficeInit PROVE OfficeInv
  OBVIOUS
<1> USE SwitchOfficeAssumption
<1>1. OfficeTypes
  <2>1. switchCalendar \in [Turnout -> Seq(SwitchRequest)]
    BY DEF OfficeInit
  <2>2. IsFiniteSet({})
    BY FS_EmptySet
  <2> QED BY <2>1, <2>2 DEF OfficeInit, OfficeTypes
<1>2. /\ \A b : b \in Turnout => switchCalendar[b] = <<>> /\ Len(switchCalendar[b]) = 0
      /\ officeInbox = <<>> /\ Len(officeInbox) = 0 /\ workers = {}
  BY EmptySeq DEF OfficeInit
<1>3. RequestsSensible
  BY <1>2 DEF RequestsSensible
<1>4. NodesKept
  <2>1. Nodes = {}
    BY <1>2 DEF Nodes
  <2> QED BY <1>2, <2>1, FS_EmptySet DEF NodesKept, OfficeInit
<1>5. WorkersMatch
  <2> SUFFICES ASSUME NEW b \in Turnout, NEW s \in Nat
               PROVE  Count(switchCalendar[b], StartingAt(s))
                        = Cardinality(Waiting(b, s)) + Count(officeInbox, ReportOf(b, s))
    BY DEF WorkersMatch
  <2>1. Waiting(b, s) = {}
    BY <1>2 DEF Waiting
  <2> QED BY <1>2, <2>1, CountEmpty, FS_EmptySet
<1>6. InOrder
  BY <1>2 DEF InOrder
<1>7. ToldRight
  <2>1. \A b \in Turnout : position[b] = switches[b]
    BY DEF OfficeInit
  <2> QED BY <1>2, <2>1 DEF ToldRight, Told
<1> QED BY <1>1, <1>3, <1>4, <1>5, <1>6, <1>7 DEF OfficeInv

\* Nodes, order and directions are as the calendars and the workers are.
LEMMA CalendarsSame ==
  ASSUME UNCHANGED <<calendarVars, switches, workers, position, early>>
  PROVE  /\ NodesKept => NodesKept'
         /\ InOrder => InOrder'
         /\ ToldRight => ToldRight'
         /\ \A b, s : Waiting(b, s)' = Waiting(b, s)
<1> USE DEF calendarVars
<1>1. NodesKept => NodesKept'
  BY DEF NodesKept, Nodes
<1>2. InOrder => InOrder'
  BY DEF InOrder
<1>3. ToldRight => ToldRight'
  BY DEF ToldRight, Told, FinalOf
<1>4. \A b, s : Waiting(b, s)' = Waiting(b, s)
  BY DEF Waiting
<1> QED BY <1>1, <1>2, <1>3, <1>4

LEMMA InvAsks ==
  ASSUME OfficeInv, NEW c \in Client, NEW m \in OfficeMessage, m.type # "worker", Proper(m),
         Asks(c, m)
  PROVE  OfficeInv'
<1>1. OfficeTypes /\ RequestsSensible /\ NodesKept /\ WorkersMatch /\ InOrder /\ ToldRight
  BY DEF OfficeInv, Asks
<1>2. /\ UNCHANGED <<calendarVars, switches, workers, position, early, office, tick>>
      /\ officeInbox' = Append(officeInbox, m)
      /\ asker' = [asker EXCEPT ![c] = "sent"]
  BY DEF Asks
<1>3. NodesKept' /\ InOrder' /\ ToldRight'
  BY <1>1, <1>2, CalendarsSame
<1>4. /\ officeInbox' \in Seq(OfficeMessage)
      /\ \A i \in 1 .. Len(officeInbox') : Proper(officeInbox'[i])
  BY <1>1, <1>2, InboxAppend
<1>5. OfficeTypes'
  BY <1>1, <1>2, <1>4 DEF OfficeTypes, OfficeMessage, calendarVars
<1>6. RequestsSensible'
  BY <1>1, <1>2, <1>4 DEF RequestsSensible, Proper, Sensible, calendarVars
<1>7. WorkersMatch'
  <2> SUFFICES ASSUME NEW b \in Turnout, NEW s \in Nat
               PROVE  Count(switchCalendar'[b], StartingAt(s))
                        = Cardinality(Waiting(b, s)') + Count(officeInbox', ReportOf(b, s))
    BY DEF WorkersMatch, StartingAt, ReportOf
  <2>1. Count(officeInbox', ReportOf(b, s)) = Count(officeInbox, ReportOf(b, s))
    <3>1. m \notin ReportOf(b, s)
      BY DEF ReportOf
    <3>2. One(m \in ReportOf(b, s)) = 0
      BY <3>1 DEF One
    <3>3. Count(officeInbox, ReportOf(b, s)) \in Nat
      BY <1>1, PlacesFinite DEF OfficeTypes
    <3>4. Count(officeInbox', ReportOf(b, s))
            = Count(officeInbox, ReportOf(b, s)) + One(m \in ReportOf(b, s))
      BY <1>1, <1>2, CountAppend DEF OfficeTypes
    <3> QED BY <3>2, <3>3, <3>4
  <2>2. Waiting(b, s)' = Waiting(b, s) /\ switchCalendar' = switchCalendar
    BY <1>2, CalendarsSame DEF calendarVars
  <2>3. Count(switchCalendar[b], StartingAt(s))
          = Cardinality(Waiting(b, s)) + Count(officeInbox, ReportOf(b, s))
    BY <1>1 DEF WorkersMatch
  <2> QED BY <2>1, <2>2, <2>3
<1> QED BY <1>3, <1>5, <1>6, <1>7 DEF OfficeInv

LEMMA InvCommands ==
  ASSUME OfficeInv, NEW c \in Prompt, NEW b \in Turnout, NEW d \in Direction,
         CommandSw(c, b, d) \/ \E wait \in Delay : CommandSd(c, b, d, wait)
  PROVE  OfficeInv'
<1>1. c \in Client /\ tick \in Nat /\ LEAD \in Nat /\ HOLD \in Nat /\ HOLD > 0
  BY SwitchOfficeAssumption DEF Client, OfficeInv, OfficeTypes
<1>2. ASSUME NEW from \in Nat,
             Asks(c, AllocateMessage(c, Request(b, d, from, from + HOLD)))
      PROVE  OfficeInv'
  <2>1. PICK r : r = Request(b, d, from, from + HOLD)
    OBVIOUS
  <2>2. r \in SwitchRequest /\ r.start = from /\ r.end = from + HOLD
    BY <1>1, <2>1, RequestShape
  <2>3. Sensible(r)
    BY <1>1, <2>2 DEF Sensible
  <2>4. PICK m : m = AllocateMessage(c, r)
    OBVIOUS
  <2>5. m \in OfficeMessage /\ m.type = "allocate" /\ m.request = r
    BY <1>1, <2>2, <2>4, MessageShape
  <2> QED BY <1>1, <1>2, <2>1, <2>3, <2>4, <2>5, InvAsks DEF Proper
<1>3. CASE CommandSw(c, b, d)
  <2>1. tick + LEAD \in Nat
    BY <1>1
  <2> QED BY <1>2, <1>3, <2>1 DEF CommandSw
<1>4. ASSUME NEW wait \in Delay, CommandSd(c, b, d, wait)
      PROVE  OfficeInv'
  <2>1. tick + wait \in Nat
    BY <1>1, SwitchOfficeAssumption
  <2> QED BY <1>2, <1>4, <2>1 DEF CommandSd
<1> QED BY <1>3, <1>4

LEMMA InvTrains ==
  ASSUME OfficeInv, NEW c \in Driver, NEW b \in Turnout,
         TrainReads(c, b) \/ \E d \in Direction : TrainThrows(c, b, d)
  PROVE  OfficeInv'
<1>1. c \in Client /\ tick \in Nat
  BY DEF Client, OfficeInv, OfficeTypes
<1>2. CASE TrainReads(c, b)
  <2>1. PICK m : m = [type |-> "read", from |-> c, branch |-> b]
    OBVIOUS
  <2>2. m \in OfficeMessage /\ m.type = "read"
    BY <1>1, <2>1, MessageShape
  <2> QED BY <1>1, <1>2, <2>1, <2>2, InvAsks DEF TrainReads, Proper
<1>3. ASSUME NEW d \in Direction, TrainThrows(c, b, d)
      PROVE  OfficeInv'
  <2>1. PICK r : r = Request(b, d, tick, tick)
    OBVIOUS
  <2>2. r \in SwitchRequest /\ r.start = tick /\ r.end = tick
    BY <1>1, <2>1, RequestShape
  <2>3. Sensible(r)
    BY <1>1, <2>2 DEF Sensible
  <2>4. PICK m : m = AllocateMessage(c, r)
    OBVIOUS
  <2>5. m \in OfficeMessage /\ m.type = "allocate" /\ m.request = r
    BY <1>1, <2>2, <2>4, MessageShape
  <2> QED BY <1>1, <1>3, <2>1, <2>3, <2>4, <2>5, InvAsks DEF TrainThrows, Proper
<1> QED BY <1>2, <1>3

LEMMA InvTick == OfficeInv /\ Tick => OfficeInv'
<1> SUFFICES ASSUME OfficeInv, Tick PROVE OfficeInv'
  OBVIOUS
<1>1. OfficeTypes /\ RequestsSensible /\ NodesKept /\ WorkersMatch /\ InOrder /\ ToldRight
  BY DEF OfficeInv, Tick
<1>2. /\ UNCHANGED <<calendarVars, switches, officeInbox, office, workers, asker, position, early>>
      /\ tick' = tick + 1
  BY DEF Tick
<1>3. NodesKept' /\ InOrder' /\ ToldRight' /\ \A b, s : Waiting(b, s)' = Waiting(b, s)
  BY <1>1, <1>2, CalendarsSame
<1>4. OfficeTypes'
  BY <1>1, <1>2 DEF OfficeTypes, OfficeMessage, calendarVars
<1>5. WorkersMatch'
  BY <1>1, <1>2, <1>3 DEF WorkersMatch, StartingAt, ReportOf, calendarVars
<1>6. \A r \in SwitchRequest : Sensible(r) => Sensible(r)'
  <2>1. tick \in Nat /\ tick' \in Nat /\ tick <= tick'
    BY <1>1, <1>2 DEF OfficeTypes
  <2> QED BY <2>1, SensibleStays
<1>7. RequestsSensible'
  <2>1. \A w \in workers' : w \in SwitchRequest /\ Sensible(w)
    BY <1>1, <1>2 DEF OfficeTypes, RequestsSensible
  <2>2. ASSUME NEW i \in 1 .. Len(officeInbox'), officeInbox'[i].type = "allocate"
        PROVE  officeInbox'[i].request \in SwitchRequest /\ Sensible(officeInbox'[i].request)
    <3>1. officeInbox[i] \in OfficeMessage /\ Sensible(officeInbox[i].request)
      BY <1>1, <1>2, <2>2, ElementOfSeq DEF OfficeTypes, RequestsSensible
    <3> QED BY <1>2, <2>2, <3>1, MessageKinds
  <2>3. ASSUME NEW b \in Turnout, NEW i \in 1 .. Len(switchCalendar'[b])
        PROVE  /\ switchCalendar'[b][i] \in SwitchRequest
               /\ switchCalendar'[b][i].branch = b /\ Sensible(switchCalendar'[b][i])
    BY <1>1, <1>2, CalendarShape DEF calendarVars
  <2> QED BY <1>6, <2>1, <2>2, <2>3 DEF RequestsSensible
<1> QED BY <1>3, <1>4, <1>5, <1>7 DEF OfficeInv

-----------------------------------------------------------------------------
(* A worker throws.                                                        *)

LEMMA OtherState ==
  ASSUME NEW d \in Direction
  PROVE  \E e \in Direction : e # d
<1> SUFFICES ASSUME \A e \in Direction : e = d PROVE FALSE
  OBVIOUS
<1>1. Direction = {d}
  OBVIOUS
<1>2. Cardinality(Direction) = 1
  BY <1>1, FS_Singleton
<1> QED BY <1>2, SwitchOfficeAssumption

LEMMA Along ==
  ASSUME NEW f \in [Turnout -> Direction], NEW w \in SwitchRequest
  PROVE  /\ ThrownAlong(f, w) \in [Turnout -> Direction]
         /\ \A b \in Turnout \ Range(Opposed) : ThrownAlong(f, w)[b] = f[b]
<1>1. CASE w.branch \in DOMAIN Opposed
  <2>1. PICK o : o = Opposed[w.branch]
    OBVIOUS
  <2>2. o \in Range(Opposed)
    BY <1>1, <2>1 DEF Range
  <2>3. PICK d : d = CHOOSE e \in Direction : e # w.direction
    OBVIOUS
  <2>4. d \in Direction
    <3>1. w.direction \in Direction
      BY RequestFields
    <3>2. \E e \in Direction : e # w.direction
      BY <3>1, OtherState
    <3> QED BY <2>3, <3>2
  <2>5. ThrownAlong(f, w) = [f EXCEPT ![o] = d]
    BY <1>1, <2>1, <2>3 DEF ThrownAlong
  <2> QED BY <2>2, <2>4, <2>5
<1>2. CASE w.branch \notin DOMAIN Opposed
  BY <1>2 DEF ThrownAlong
<1> QED BY <1>1, <1>2

LEMMA InvThrows ==
  ASSUME OfficeInv, NEW w \in workers, WorkerThrows(w)
  PROVE  OfficeInv'
<1>1. OfficeTypes /\ RequestsSensible /\ NodesKept /\ WorkersMatch /\ InOrder /\ ToldRight
  BY DEF OfficeInv, WorkerThrows
<1>2. PICK m : m = [type |-> "worker", request |-> w]
  OBVIOUS
<1>3. /\ UNCHANGED <<switchCalendar, switchFreeList, office, asker, tick, early>>
      /\ workers' = workers \ {w}
      /\ officeInbox' = Append(officeInbox, m)
      /\ switches' = ThrownAlong(switches, w)
      /\ position' = ThrownAlong([position EXCEPT ![w.branch] = w.direction], w)
      /\ \A v \in workers : w.start <= v.start
  BY <1>2 DEF WorkerThrows, calendarVars
<1>4. w \in SwitchRequest /\ workers \in SUBSET SwitchRequest /\ IsFiniteSet(workers)
  BY <1>1 DEF OfficeTypes
<1>5. m \in OfficeMessage /\ m.type = "worker" /\ m.request = w
  BY <1>2, <1>4, MessageShape
<1>6. /\ officeInbox' \in Seq(OfficeMessage)
      /\ \A i \in 1 .. Len(officeInbox') : Proper(officeInbox'[i])
  BY <1>1, <1>3, <1>5, InboxAppend DEF Proper
<1>7. PICK p \in [Turnout -> Direction] : p = [position EXCEPT ![w.branch] = w.direction]
  BY <1>1, <1>4, RequestFields DEF OfficeTypes
<1>8. /\ switches' \in [Turnout -> Direction] /\ position' \in [Turnout -> Direction]
      /\ \A b \in Turnout \ Range(Opposed) : switches'[b] = switches[b] /\ position'[b] = p[b]
  <2>1. switches \in [Turnout -> Direction]
    BY <1>1 DEF OfficeTypes
  <2>2. switches' = ThrownAlong(switches, w) /\ position' = ThrownAlong(p, w)
    BY <1>3, <1>7
  <2> QED BY <1>4, <2>1, <2>2, Along
<1>9. workers' \in SUBSET SwitchRequest /\ IsFiniteSet(workers')
  BY <1>3, <1>4, FS_RemoveElement
<1>10. OfficeTypes'
  BY <1>1, <1>3, <1>6, <1>8, <1>9 DEF OfficeTypes, OfficeMessage
<1>11. RequestsSensible'
  BY <1>1, <1>3, <1>6 DEF RequestsSensible, Proper, Sensible
<1>12. NodesKept' /\ InOrder'
  BY <1>1, <1>3 DEF NodesKept, Nodes, InOrder
<1>13. WorkersMatch'
  <2> SUFFICES ASSUME NEW b \in Turnout, NEW s \in Nat
               PROVE  Count(switchCalendar'[b], StartingAt(s))
                        = Cardinality(Waiting(b, s)') + Count(officeInbox', ReportOf(b, s))
    BY DEF WorkersMatch, StartingAt, ReportOf
  <2>1. PICK k \in Nat : k = Count(officeInbox, ReportOf(b, s))
    BY <1>1, PlacesFinite DEF OfficeTypes
  <2>2. Count(officeInbox', ReportOf(b, s)) = k + One(m \in ReportOf(b, s))
    BY <1>1, <1>3, <1>5, <2>1, CountAppend DEF OfficeTypes
  <2>3. PICK n \in Nat : n = Cardinality(Waiting(b, s))
    BY <1>1, WaitingFinite
  <2>4. Count(switchCalendar[b], StartingAt(s)) = n + k
    BY <1>1, <2>1, <2>3 DEF WorkersMatch
  <2>5. CASE w.branch = b /\ w.start = s
    <3>1. m \in ReportOf(b, s)
      BY <1>5, <2>5 DEF ReportOf
    <3>2. w \in Waiting(b, s) /\ Waiting(b, s)' = Waiting(b, s) \ {w}
      BY <1>3, <2>5 DEF Waiting
    <3>3. Cardinality(Waiting(b, s)') = n - 1
      BY <1>1, <2>3, <3>2, WaitingFinite, FS_RemoveElement
    <3>4. Count(officeInbox', ReportOf(b, s)) = k + 1
      BY <2>2, <3>1 DEF One
    <3> QED BY <1>3, <2>4, <3>3, <3>4
  <2>6. CASE ~(w.branch = b /\ w.start = s)
    <3>1. m \notin ReportOf(b, s)
      BY <1>5, <2>6 DEF ReportOf
    <3>2. Waiting(b, s)' = Waiting(b, s)
      BY <1>3, <2>6 DEF Waiting
    <3>3. Count(officeInbox', ReportOf(b, s)) = k
      BY <2>2, <3>1 DEF One
    <3> QED BY <1>3, <2>3, <2>4, <3>2, <3>3
  <2> QED BY <2>5, <2>6
<1>14. ToldRight'
  <2> SUFFICES ASSUME early = "none", NEW b \in Turnout \ Range(Opposed)
               PROVE  Told(b)'
    BY <1>1, <1>3 DEF ToldRight
  <2>1. Told(b)
    BY <1>1 DEF ToldRight
  <2>2. \A v \in workers : v.start \in Nat
    BY <1>4, RequestFields
  <2>3. CASE w.branch = b
    <3>1. PICK u \in workers : FinalOf(b, u)
      BY <2>1, <2>3 DEF Told
    <3>2. CASE u = w
      <4>1. \A v \in workers' : v.branch # b
        BY <1>3, <2>2, <3>1, <3>2 DEF FinalOf
      <4>2. position'[b] = w.direction
        BY <1>7, <1>8, <2>3
      <4>3. switches'[b] = w.direction
        BY <1>8, <3>1, <3>2 DEF FinalOf
      <4> QED BY <4>1, <4>2, <4>3 DEF Told
    <3>3. CASE u # w
      BY <1>3, <1>8, <3>1, <3>3 DEF Told, FinalOf
    <3> QED BY <3>2, <3>3
  <2>4. CASE w.branch # b
    <3>1. position'[b] = position[b] /\ switches'[b] = switches[b]
      BY <1>7, <1>8, <2>4
    <3> QED BY <1>3, <2>1, <2>4, <3>1 DEF Told, FinalOf
  <2> QED BY <2>3, <2>4
<1> QED BY <1>10, <1>11, <1>12, <1>13, <1>14 DEF OfficeInv

-----------------------------------------------------------------------------
(* The office takes a message that changes no calendar.                    *)

LEMMA ReportsLeft ==
  ASSUME OfficeTypes, officeInbox # <<>>, NEW b, NEW s
  PROVE  Count(Tail(officeInbox), ReportOf(b, s))
           = Count(officeInbox, ReportOf(b, s)) - One(Head(officeInbox) \in ReportOf(b, s))
BY CountTail DEF OfficeTypes

LEMMA AskerAnswered ==
  ASSUME OfficeTypes, NEW c
  PROVE  [asker EXCEPT ![c] = "run"] \in [Client -> {"run", "sent"}]
BY DEF OfficeTypes

LEMMA InvQuiet ==
  ASSUME OfficeInv, office = "run", officeInbox # <<>>, officeInbox' = Tail(officeInbox),
         Head(officeInbox).type # "worker",
         UNCHANGED <<calendarVars, switches, workers, early, tick, position>>,
         office' \in {"run", "spin"}, asker' \in [Client -> {"run", "sent"}]
  PROVE  OfficeInv'
<1>1. OfficeTypes /\ RequestsSensible /\ NodesKept /\ WorkersMatch /\ InOrder /\ ToldRight
  BY DEF OfficeInv
<1>2. NodesKept' /\ InOrder' /\ ToldRight' /\ \A b, s : Waiting(b, s)' = Waiting(b, s)
  BY <1>1, CalendarsSame
<1>3. /\ officeInbox' \in Seq(OfficeMessage)
      /\ \A i \in 1 .. Len(officeInbox') : Proper(officeInbox'[i])
  BY <1>1, InboxTail
<1>4. OfficeTypes'
  BY <1>1, <1>3 DEF OfficeTypes, OfficeMessage, calendarVars
<1>5. RequestsSensible'
  BY <1>1, <1>3 DEF RequestsSensible, Proper, Sensible, calendarVars
<1>6. WorkersMatch'
  <2> SUFFICES ASSUME NEW b \in Turnout, NEW s \in Nat
               PROVE  Count(switchCalendar'[b], StartingAt(s))
                        = Cardinality(Waiting(b, s)') + Count(officeInbox', ReportOf(b, s))
    BY DEF WorkersMatch, StartingAt, ReportOf
  <2>1. Head(officeInbox) \notin ReportOf(b, s)
    BY DEF ReportOf
  <2>2. One(Head(officeInbox) \in ReportOf(b, s)) = 0
    BY <2>1 DEF One
  <2>3. Count(officeInbox, ReportOf(b, s)) \in Nat
    BY <1>1, PlacesFinite DEF OfficeTypes
  <2>4. Count(officeInbox', ReportOf(b, s)) = Count(officeInbox, ReportOf(b, s))
    BY <1>1, <2>2, <2>3, ReportsLeft
  <2>5. Count(switchCalendar[b], StartingAt(s))
          = Cardinality(Waiting(b, s)) + Count(officeInbox, ReportOf(b, s))
    BY <1>1 DEF WorkersMatch
  <2> QED BY <1>2, <2>4, <2>5 DEF calendarVars
<1> QED BY <1>2, <1>4, <1>5, <1>6 DEF OfficeInv

-----------------------------------------------------------------------------
(* The office hears a worker.                                              *)

LEMMA InvServeWorker ==
  ASSUME OfficeInv, office = "run", officeInbox # <<>>, officeInbox' = Tail(officeInbox),
         ServeWorker(Head(officeInbox)), UNCHANGED <<tick, position>>
  PROVE  OfficeInv'
<1>1. OfficeTypes /\ RequestsSensible /\ NodesKept /\ WorkersMatch /\ InOrder /\ ToldRight
  BY DEF OfficeInv
<1>2. PICK m : m = Head(officeInbox)
  OBVIOUS
<1>3. m \in OfficeMessage /\ m.type = "worker" /\ m.request \in SwitchRequest
  BY <1>1, <1>2, InboxTail, MessageKinds DEF ServeWorker
<1>4. PICK b \in Turnout, s \in Nat : b = m.request.branch /\ s = m.request.start
  BY <1>3, RequestFields
<1>5. PICK c \in Seq(SwitchRequest) : c = switchCalendar[b]
  BY <1>1, CalendarShape
<1>6. /\ switchCalendar' = [switchCalendar EXCEPT ![b] = Tail(c)]
      /\ \/ Head(c).start = s /\ switchFreeList' = switchFreeList + 1 /\ office' = office
         \/ office' = "hang" /\ switchFreeList' = switchFreeList
      /\ UNCHANGED <<switches, workers, asker, early>>
  BY <1>2, <1>4, <1>5 DEF ServeWorker, TakesHead
<1>7. /\ \A b2 \in Turnout \ {b} : switchCalendar'[b2] = switchCalendar[b2]
      /\ switchCalendar'[b] = Tail(c)
  BY <1>1, <1>6 DEF OfficeTypes
<1>8. c # <<>>
  <2>1. m \in ReportOf(b, s)
    BY <1>3, <1>4 DEF ReportOf
  <2>2. officeInbox \in Seq(OfficeMessage) /\ 1 \in 1 .. Len(officeInbox) /\ officeInbox[1] = m
    <3>1. officeInbox \in Seq(OfficeMessage)
      BY <1>1 DEF OfficeTypes
    <3> QED BY <1>2, <3>1, LenProperties, EmptySeq
  <2>3. Count(officeInbox, ReportOf(b, s)) # 0 /\ Count(officeInbox, ReportOf(b, s)) \in Nat
    BY <2>1, <2>2, CountZero, PlacesFinite
  <2>4. Cardinality(Waiting(b, s)) \in Nat
    BY <1>1, WaitingFinite
  <2>5. Count(switchCalendar[b], StartingAt(s)) # 0
    BY <1>1, <2>3, <2>4 DEF WorkersMatch
  <2> QED BY <1>5, <2>5, CountEmpty
<1>9. /\ Len(c) \in Nat /\ Len(c) > 0 /\ Head(c) = c[1] /\ Head(c) \in SwitchRequest
      /\ Tail(c) \in Seq(SwitchRequest) /\ Len(Tail(c)) = Len(c) - 1
      /\ \A i \in 1 .. Len(Tail(c)) : Tail(c)[i] = c[i + 1] /\ i + 1 \in 1 .. Len(c)
  <2>1. Len(c) \in Nat /\ Len(c) > 0
    BY <1>8, LenProperties, EmptySeq
  <2>2. /\ Head(c) = c[1] /\ Head(c) \in SwitchRequest
        /\ Tail(c) \in Seq(SwitchRequest) /\ Len(Tail(c)) = Len(c) - 1
        /\ \A i \in 1 .. Len(Tail(c)) : Tail(c)[i] = c[i + 1]
    BY <1>8, HeadTailProperties
  <2> QED BY <2>1, <2>2
<1>10. /\ officeInbox' \in Seq(OfficeMessage)
       /\ \A i \in 1 .. Len(officeInbox') : Proper(officeInbox'[i])
  BY <1>1, InboxTail
<1>11. RequestsSensible'
  <2>1. ASSUME NEW b2 \in Turnout, NEW i \in 1 .. Len(switchCalendar'[b2])
        PROVE  switchCalendar'[b2][i].branch = b2 /\ Sensible(switchCalendar'[b2][i])
    <3>1. CASE b2 = b
      <4>1. PICK k : k = i + 1
        OBVIOUS
      <4>2. k \in 1 .. Len(c) /\ switchCalendar'[b2][i] = c[k]
        BY <1>7, <1>9, <2>1, <3>1, <4>1
      <4>3. c[k].branch = b /\ Sensible(c[k])
        BY <1>1, <1>5, <4>2, CalendarShape
      <4> QED BY <3>1, <4>2, <4>3
    <3>2. CASE b2 # b
      BY <1>1, <1>7, <2>1, <3>2, CalendarShape
    <3> QED BY <3>1, <3>2
  <2>2. \A r : Sensible(r) => Sensible(r)'
    BY DEF Sensible
  <2>3. \A w \in workers' : Sensible(w)
    BY <1>1, <1>6 DEF RequestsSensible
  <2> QED BY <1>10, <2>1, <2>2, <2>3 DEF RequestsSensible, Proper
<1> DEFINE x == <<b, Len(c)>>
<1>12. /\ x \in Nodes
       /\ Nodes' = Nodes \ {x}
  <2>1. Len(c) \in 1 .. NODES
    BY <1>1, <1>5, <1>9, SwitchOfficeAssumption DEF NodesKept
  <2>2. x \in Nodes
    BY <1>5, <1>9, <2>1 DEF Nodes
  <2>3. ASSUME NEW y \in Turnout \X (1 .. NODES)
        PROVE  y[2] <= Len(switchCalendar'[y[1]]) <=> y[2] <= Len(switchCalendar[y[1]]) /\ y # x
    <3>1. CASE y[1] = b
      <4>1. PICK n \in 1 .. NODES : y = <<b, n>> /\ y[2] = n
        BY <3>1
      <4>2. y = x <=> n = Len(c)
        BY <4>1
      <4>3. Len(switchCalendar'[b]) = Len(c) - 1 /\ Len(switchCalendar[b]) = Len(c) /\ n \in Nat
        BY <1>5, <1>7, <1>9, SwitchOfficeAssumption
      <4>4. n <= Len(c) - 1 <=> n <= Len(c) /\ n # Len(c)
        <5>1. PICK p \in Nat : p = Len(c)
          BY <1>9
        <5>2. n <= p - 1 <=> n <= p /\ n # p
          BY <4>3
        <5> QED BY <5>1, <5>2
      <4> QED BY <3>1, <4>1, <4>2, <4>3, <4>4
    <3>2. CASE y[1] # b
      BY <1>7, <3>2
    <3> QED BY <3>1, <3>2
  <2> QED BY <2>2, <2>3 DEF Nodes
<1> HIDE DEF x
<1>13. /\ IsFiniteSet(Nodes') /\ Cardinality(Nodes') = Cardinality(Nodes) - 1
       /\ Cardinality(Nodes) \in Nat /\ Cardinality(Nodes') \in Nat
  <2>1. IsFiniteSet(Nodes) /\ Cardinality(Nodes) \in Nat
    BY <1>1, FS_CardinalityType DEF NodesKept
  <2>2. IsFiniteSet(Nodes \ {x}) /\ Cardinality(Nodes \ {x}) = Cardinality(Nodes) - 1
    BY <1>12, <2>1, FS_RemoveElement
  <2>3. Cardinality(Nodes \ {x}) \in Nat
    BY <2>2, FS_CardinalityType
  <2> QED BY <1>12, <2>1, <2>2, <2>3
<1>14. OfficeTypes'
  <2>1. switchFreeList' \in 0 .. NODES
    <3>1. PICK f \in Nat : f = switchFreeList
      BY <1>1, SwitchOfficeAssumption DEF OfficeTypes
    <3>2. PICK k \in Nat : k = Cardinality(Nodes) /\ k >= 1
      BY <1>13
    <3>3. f + k = NODES
      BY <1>1, <3>1, <3>2 DEF NodesKept
    <3>4. f \in 0 .. NODES /\ f + 1 \in 0 .. NODES
      BY <3>2, <3>3, SwitchOfficeAssumption
    <3> QED BY <1>6, <3>1, <3>4
  <2>2. switchCalendar' \in [Turnout -> Seq(SwitchRequest)]
    BY <1>1, <1>6, <1>9 DEF OfficeTypes
  <2> QED BY <1>1, <1>6, <1>10, <2>1, <2>2 DEF OfficeTypes, OfficeMessage
<1>15. ASSUME office' # "hang"
       PROVE  NodesKept' /\ WorkersMatch' /\ InOrder' /\ ToldRight'
  <2>1. Head(c).start = s /\ switchFreeList' = switchFreeList + 1
    BY <1>6, <1>15
  <2>2. NodesKept'
    <3>1. switchFreeList' + Cardinality(Nodes') = NODES
      BY <1>1, <1>13, <2>1, SwitchOfficeAssumption DEF NodesKept, OfficeTypes
    <3>2. ASSUME NEW b2 \in Turnout
          PROVE  Len(switchCalendar'[b2]) <= NODES
      <4>1. CASE b2 = b
        <5>1. Len(c) <= NODES
          BY <1>1, <1>5 DEF NodesKept
        <5>2. Len(switchCalendar'[b2]) = Len(c) - 1
          BY <1>7, <1>9, <4>1
        <5>3. PICK p \in Nat : p = Len(c)
          BY <1>9
        <5>4. p <= NODES => p - 1 <= NODES
          BY SwitchOfficeAssumption
        <5> QED BY <5>1, <5>2, <5>3, <5>4
      <4>2. CASE b2 # b
        BY <1>1, <1>7, <4>2 DEF NodesKept
      <4> QED BY <4>1, <4>2
    <3> QED BY <1>13, <3>1, <3>2 DEF NodesKept
  <2>3. WorkersMatch'
    <3> SUFFICES ASSUME NEW b2 \in Turnout, NEW s2 \in Nat
                 PROVE  Count(switchCalendar'[b2], StartingAt(s2))
                          = Cardinality(Waiting(b2, s2)') + Count(officeInbox', ReportOf(b2, s2))
      BY DEF WorkersMatch, StartingAt, ReportOf
    <3>1. PICK k \in Nat : k = Count(officeInbox, ReportOf(b2, s2))
      BY <1>1, PlacesFinite DEF OfficeTypes
    <3>2. PICK n \in Nat : n = Cardinality(Waiting(b2, s2))
      BY <1>1, WaitingFinite
    <3>3. Count(switchCalendar[b2], StartingAt(s2)) = n + k
      BY <1>1, <3>1, <3>2 DEF WorkersMatch
    <3>4. Waiting(b2, s2)' = Waiting(b2, s2)
      BY <1>6 DEF Waiting
    <3>5. Count(officeInbox', ReportOf(b2, s2)) = k - One(m \in ReportOf(b2, s2))
      BY <1>1, <1>2, <3>1, ReportsLeft
    <3>6. CASE b2 = b
      <4>1. Count(switchCalendar'[b], StartingAt(s2))
              = Count(c, StartingAt(s2)) - One(Head(c) \in StartingAt(s2))
        BY <1>7, <1>8, CountTail
      <4>2. Head(c) \in StartingAt(s2) <=> m \in ReportOf(b2, s2)
        BY <1>3, <1>4, <1>9, <2>1, <3>6 DEF StartingAt, ReportOf
      <4>3. CASE m \in ReportOf(b2, s2)
        <5>1. One(m \in ReportOf(b2, s2)) = 1 /\ One(Head(c) \in StartingAt(s2)) = 1
          BY <4>2, <4>3 DEF One
        <5> QED BY <1>5, <3>2, <3>3, <3>4, <3>5, <3>6, <4>1, <5>1
      <4>4. CASE m \notin ReportOf(b2, s2)
        <5>1. One(m \in ReportOf(b2, s2)) = 0 /\ One(Head(c) \in StartingAt(s2)) = 0
          BY <4>2, <4>4 DEF One
        <5> QED BY <1>5, <3>2, <3>3, <3>4, <3>5, <3>6, <4>1, <5>1
      <4> QED BY <4>3, <4>4
    <3>7. CASE b2 # b
      <4>1. m \notin ReportOf(b2, s2)
        BY <1>4, <3>7 DEF ReportOf
      <4>2. One(m \in ReportOf(b2, s2)) = 0
        BY <4>1 DEF One
      <4> QED BY <1>7, <3>2, <3>3, <3>4, <3>5, <3>7, <4>2
    <3> QED BY <3>6, <3>7
  <2>4. InOrder'
    <3> SUFFICES ASSUME NEW b2 \in Turnout, NEW i \in 1 .. Len(switchCalendar'[b2]),
                        NEW j \in 1 .. Len(switchCalendar'[b2]),
                        i < j, i = 1 => early # "behind"
                 PROVE  switchCalendar'[b2][i].start <= switchCalendar'[b2][j].start
      BY <1>6 DEF InOrder
    <3>1. CASE b2 = b
      <4>1. PICK i1, j1 : i1 = i + 1 /\ j1 = j + 1
        OBVIOUS
      <4>2. /\ i1 \in 1 .. Len(c) /\ j1 \in 1 .. Len(c) /\ i1 < j1 /\ i1 # 1
            /\ Tail(c)[i] = c[i1] /\ Tail(c)[j] = c[j1]
        BY <1>7, <1>9, <3>1, <4>1
      <4>3. c[i1].start <= c[j1].start
        BY <1>1, <1>5, <4>2 DEF InOrder
      <4> QED BY <1>7, <3>1, <4>2, <4>3
    <3>2. CASE b2 # b
      BY <1>1, <1>7, <3>2 DEF InOrder
    <3> QED BY <3>1, <3>2
  <2>5. ToldRight'
    <3> SUFFICES ASSUME early = "none"
                 PROVE  /\ \A b2 \in Turnout : \A i, j \in 2 .. Len(switchCalendar'[b2]) :
                             switchCalendar'[b2][i].start = switchCalendar'[b2][j].start
                        /\ \A b2 \in Turnout \ Range(Opposed) : Told(b2)'
      BY <1>6 DEF ToldRight
    <3>1. ASSUME NEW b2 \in Turnout, NEW i \in 2 .. Len(switchCalendar'[b2]),
                 NEW j \in 2 .. Len(switchCalendar'[b2])
          PROVE  switchCalendar'[b2][i].start = switchCalendar'[b2][j].start
      <4>1. CASE b2 = b
        <5>1. PICK i1, j1 : i1 = i + 1 /\ j1 = j + 1
          OBVIOUS
        <5>2. /\ i1 \in 2 .. Len(c) /\ j1 \in 2 .. Len(c)
              /\ Tail(c)[i] = c[i1] /\ Tail(c)[j] = c[j1]
          BY <1>7, <1>9, <3>1, <4>1, <5>1
        <5>3. c[i1].start = c[j1].start
          BY <1>1, <1>5, <5>2 DEF ToldRight
        <5> QED BY <1>7, <4>1, <5>2, <5>3
      <4>2. CASE b2 # b
        BY <1>1, <1>7, <3>1, <4>2 DEF ToldRight
      <4> QED BY <4>1, <4>2
    <3>2. ASSUME NEW b2 \in Turnout \ Range(Opposed)
          PROVE  Told(b2)'
      BY <1>1, <1>6 DEF ToldRight, Told, FinalOf
    <3> QED BY <3>1, <3>2
  <2> QED BY <2>2, <2>3, <2>4, <2>5
<1> QED BY <1>11, <1>14, <1>15 DEF OfficeInv

-----------------------------------------------------------------------------
(* The office enters a request.                                            *)

\* `new' is the branch's calendar with the request in it.
Enlarged(r, c, new) ==
  /\ new \in Seq(SwitchRequest) /\ Len(new) = Len(c) + 1
  /\ \A i \in 1 .. Len(new) : new[i] = r \/ \E j \in 1 .. Len(c) : new[i] = c[j]
  /\ \A S : Count(new, S) = Count(c, S) + One(r \in S)

LEMMA SecondRequest ==
  ASSUME NEW c \in Seq(SwitchRequest), c # <<>>, NEW r \in SwitchRequest
  PROVE  /\ Second(c, r) \in Seq(SwitchRequest) /\ Len(Second(c, r)) = Len(c) + 1
         /\ Second(c, r)[1] = c[1] /\ Second(c, r)[2] = r
         /\ \A i \in 3 .. Len(c) + 1 : Second(c, r)[i] = c[i - 1]
         /\ Enlarged(r, c, Second(c, r))
<1>1. /\ Second(c, r) \in Seq(SwitchRequest) /\ Len(Second(c, r)) = Len(c) + 1
      /\ Second(c, r)[1] = c[1] /\ Second(c, r)[2] = r
      /\ \A i \in 3 .. Len(c) + 1 : Second(c, r)[i] = c[i - 1]
  BY SecondShape
<1>2. \A S : Count(Second(c, r), S) = Count(c, S) + One(r \in S)
  BY SecondShape
<1>3. PICK n \in Nat : n = Len(c) /\ n > 0
  BY LenProperties, EmptySeq
<1>4. ASSUME NEW i \in 1 .. Len(Second(c, r))
      PROVE  Second(c, r)[i] = r \/ \E j \in 1 .. Len(c) : Second(c, r)[i] = c[j]
  <2>1. i \in 1 .. n + 1
    BY <1>1, <1>3
  <2>2. CASE i = 1
    <3>1. 1 \in 1 .. Len(c)
      BY <1>3
    <3> QED BY <1>1, <2>2, <3>1
  <2>3. CASE i = 2
    BY <1>1, <2>3
  <2>4. CASE i # 1 /\ i # 2
    <3>1. i \in 3 .. Len(c) + 1 /\ i - 1 \in 1 .. Len(c)
      BY <1>3, <2>1, <2>4
    <3> QED BY <1>1, <3>1
  <2> QED BY <2>2, <2>3, <2>4
<1> QED BY <1>1, <1>2, <1>4 DEF Enlarged

\* What stays true in any case: the order of the nodes is another matter.
LEMMA EnterKeeps ==
  ASSUME OfficeInv, office = "run", officeInbox # <<>>, officeInbox' = Tail(officeInbox),
         Head(officeInbox).type = "allocate",
         NEW r, r = Head(officeInbox).request, NEW new,
         Enlarged(r, switchCalendar[r.branch], new), r \notin workers,
         Enters(Head(officeInbox), new), switchFreeList # 0,
         UNCHANGED <<tick, position>>, early' \in {"none", "between", "behind"}
  PROVE  OfficeTypes' /\ RequestsSensible' /\ NodesKept' /\ WorkersMatch'
<1>1. OfficeTypes /\ RequestsSensible /\ NodesKept /\ WorkersMatch /\ InOrder /\ ToldRight
  BY DEF OfficeInv
<1>2. PICK m : m = Head(officeInbox)
  OBVIOUS
<1>3. m \in OfficeMessage /\ m.type = "allocate" /\ r \in SwitchRequest /\ Sensible(r)
  BY <1>1, <1>2, InboxTail, MessageKinds DEF Proper
<1>4. PICK b \in Turnout : b = r.branch
  BY <1>3, RequestFields
<1>5. PICK c \in Seq(SwitchRequest) : c = switchCalendar[b]
  BY <1>1, CalendarShape
<1>6. /\ switchCalendar' = [switchCalendar EXCEPT ![b] = new]
      /\ switchFreeList' = switchFreeList - 1
      /\ switches' = [switches EXCEPT ![b] = r.direction]
      /\ workers' = workers \cup {r}
      /\ asker' = [asker EXCEPT ![m.from] = "run"]
      /\ office' = office
  BY <1>2, <1>4 DEF Enters, Answered
<1>7. /\ new \in Seq(SwitchRequest) /\ Len(new) = Len(c) + 1 /\ Len(c) \in Nat
      /\ \A i \in 1 .. Len(new) : new[i] = r \/ \E j \in 1 .. Len(c) : new[i] = c[j]
      /\ \A S : Count(new, S) = Count(c, S) + One(r \in S)
  BY <1>4, <1>5, LenProperties DEF Enlarged
<1>8. /\ \A b2 \in Turnout \ {b} : switchCalendar'[b2] = switchCalendar[b2]
      /\ switchCalendar'[b] = new
  BY <1>1, <1>6 DEF OfficeTypes
<1>9. /\ officeInbox' \in Seq(OfficeMessage)
      /\ \A i \in 1 .. Len(officeInbox') : Proper(officeInbox'[i])
  BY <1>1, InboxTail
<1>10. OfficeTypes'
  <2>1. switchFreeList' \in 0 .. NODES
    BY <1>1, <1>6, SwitchOfficeAssumption DEF OfficeTypes
  <2>2. switchCalendar' \in [Turnout -> Seq(SwitchRequest)]
    BY <1>1, <1>6, <1>7 DEF OfficeTypes
  <2>3. switches' \in [Turnout -> Direction]
    BY <1>1, <1>3, <1>6, RequestFields DEF OfficeTypes
  <2>4. workers' \in SUBSET SwitchRequest /\ IsFiniteSet(workers')
    BY <1>1, <1>3, <1>6, FS_AddElement DEF OfficeTypes
  <2>5. asker' \in [Client -> {"run", "sent"}]
    BY <1>1, <1>6, AskerAnswered
  <2> QED BY <1>1, <1>6, <1>9, <2>1, <2>2, <2>3, <2>4, <2>5 DEF OfficeTypes, OfficeMessage
<1>11. RequestsSensible'
  <2>1. \A q : Sensible(q) => Sensible(q)'
    BY DEF Sensible
  <2>2. \A w \in workers' : Sensible(w)
    BY <1>1, <1>3, <1>6 DEF RequestsSensible
  <2>3. ASSUME NEW b2 \in Turnout, NEW i \in 1 .. Len(switchCalendar'[b2])
        PROVE  switchCalendar'[b2][i].branch = b2 /\ Sensible(switchCalendar'[b2][i])
    <3>1. CASE b2 = b
      <4>1. \A j \in 1 .. Len(c) : c[j].branch = b /\ Sensible(c[j])
        BY <1>1, <1>5, CalendarShape
      <4> QED BY <1>3, <1>4, <1>7, <1>8, <2>3, <3>1, <4>1
    <3>2. CASE b2 # b
      BY <1>1, <1>8, <2>3, <3>2, CalendarShape
    <3> QED BY <3>1, <3>2
  <2> QED BY <1>9, <2>1, <2>2, <2>3 DEF RequestsSensible, Proper
<1>12. NodesKept'
  <2>1. PICK p \in Nat : p = Len(c)
    BY <1>7
  <2>2. IsFiniteSet(Nodes) /\ Cardinality(Nodes) \in Nat
        /\ switchFreeList + Cardinality(Nodes) = NODES
    BY <1>1, FS_CardinalityType DEF NodesKept
  <2>3. p <= Cardinality(Nodes)
    <3>1. p <= NODES
      BY <1>1, <1>5, <2>1 DEF NodesKept
    <3>2. {b} \X (1 .. p) \in SUBSET Nodes
      BY <1>5, <2>1, <3>1, SwitchOfficeAssumption DEF Nodes
    <3>3. IsFiniteSet({b}) /\ Cardinality({b}) = 1
      BY FS_Singleton
    <3>4. IsFiniteSet(1 .. p) /\ Cardinality(1 .. p) = p
      <4>1. 1 \in Int /\ p \in Int
        OBVIOUS
      <4>2. IsFiniteSet(1 .. p) /\ Cardinality(1 .. p) = IF 1 > p THEN 0 ELSE p - 1 + 1
        BY <4>1, FS_Interval
      <4> QED BY <4>2
    <3>5. Cardinality({b} \X (1 .. p)) = p
      <4>1. Cardinality({b} \X (1 .. p)) = Cardinality({b}) * Cardinality(1 .. p)
        BY <3>3, <3>4, FS_Product, Zenon
      <4> QED BY <3>3, <3>4, <4>1
    <3>6. Cardinality({b} \X (1 .. p)) <= Cardinality(Nodes)
      BY <2>2, <3>2, FS_Subset
    <3> QED BY <3>5, <3>6
  <2>4. switchFreeList \in Nat /\ switchFreeList > 0
    BY <1>1, SwitchOfficeAssumption DEF OfficeTypes
  <2>5. p + 1 \in 1 .. NODES
    BY <2>2, <2>3, <2>4, SwitchOfficeAssumption
  <2> DEFINE x == <<b, p + 1>>
  <2>6. Nodes' = Nodes \cup {x} /\ x \notin Nodes
    <3>1. x \notin Nodes
      BY <1>5, <2>1 DEF Nodes
    <3>2. ASSUME NEW y \in Turnout \X (1 .. NODES)
          PROVE  y[2] <= Len(switchCalendar'[y[1]]) <=> y[2] <= Len(switchCalendar[y[1]]) \/ y = x
      <4>1. CASE y[1] = b
        <5>1. PICK n \in 1 .. NODES : y = <<b, n>> /\ y[2] = n
          BY <4>1
        <5>2. y = x <=> n = p + 1
          BY <5>1
        <5>3. Len(switchCalendar'[b]) = p + 1 /\ Len(switchCalendar[b]) = p /\ n \in Nat
          BY <1>5, <1>7, <1>8, <2>1, SwitchOfficeAssumption
        <5>4. n <= p + 1 <=> n <= p \/ n = p + 1
          BY <5>3
        <5> QED BY <4>1, <5>1, <5>2, <5>3, <5>4
      <4>2. CASE y[1] # b
        BY <1>8, <4>2
      <4> QED BY <4>1, <4>2
    <3>3. x \in Turnout \X (1 .. NODES)
      BY <2>5
    <3> HIDE DEF x
    <3> QED BY <3>1, <3>2, <3>3 DEF Nodes
  <2> HIDE DEF x
  <2>7. IsFiniteSet(Nodes') /\ Cardinality(Nodes') = Cardinality(Nodes) + 1
    BY <2>2, <2>6, FS_AddElement
  <2>8. switchFreeList' + Cardinality(Nodes') = NODES
    BY <1>6, <2>2, <2>4, <2>7
  <2>9. ASSUME NEW b2 \in Turnout
        PROVE  Len(switchCalendar'[b2]) <= NODES
    <3>1. CASE b2 = b
      <4>1. Len(switchCalendar'[b2]) = p + 1
        BY <1>7, <1>8, <2>1, <3>1
      <4> QED BY <2>5, <4>1, SwitchOfficeAssumption
    <3>2. CASE b2 # b
      BY <1>1, <1>8, <3>2 DEF NodesKept
    <3> QED BY <3>1, <3>2
  <2> QED BY <2>7, <2>8, <2>9 DEF NodesKept
<1>13. WorkersMatch'
  <2> SUFFICES ASSUME NEW b2 \in Turnout, NEW s \in Nat
               PROVE  Count(switchCalendar'[b2], StartingAt(s))
                        = Cardinality(Waiting(b2, s)') + Count(officeInbox', ReportOf(b2, s))
    BY DEF WorkersMatch, StartingAt, ReportOf
  <2>1. PICK k \in Nat : k = Count(officeInbox, ReportOf(b2, s))
    BY <1>1, PlacesFinite DEF OfficeTypes
  <2>2. PICK n \in Nat : n = Cardinality(Waiting(b2, s))
    BY <1>1, WaitingFinite
  <2>3. Count(switchCalendar[b2], StartingAt(s)) = n + k
    BY <1>1, <2>1, <2>2 DEF WorkersMatch
  <2>4. Count(officeInbox', ReportOf(b2, s)) = k
    <3>1. Head(officeInbox) \notin ReportOf(b2, s)
      BY <1>2, <1>3 DEF ReportOf
    <3>2. One(Head(officeInbox) \in ReportOf(b2, s)) = 0
      BY <3>1 DEF One
    <3> QED BY <1>1, <2>1, <3>2, ReportsLeft
  <2>5. CASE b2 = b /\ r.start = s
    <3>1. Waiting(b2, s)' = Waiting(b2, s) \cup {r} /\ r \notin Waiting(b2, s)
      BY <1>4, <1>6, <2>5 DEF Waiting
    <3>2. Cardinality(Waiting(b2, s)') = n + 1
      BY <1>1, <2>2, <3>1, WaitingFinite, FS_AddElement
    <3>3. r \in StartingAt(s)
      BY <1>3, <2>5 DEF StartingAt
    <3>4. One(r \in StartingAt(s)) = 1
      BY <3>3 DEF One
    <3>5. Count(new, StartingAt(s)) = Count(c, StartingAt(s)) + 1
      BY <1>7, <3>4
    <3>6. Count(switchCalendar'[b2], StartingAt(s)) = n + k + 1
      BY <1>5, <1>8, <2>3, <2>5, <3>5
    <3> QED BY <2>4, <3>2, <3>6
  <2>6. CASE ~(b2 = b /\ r.start = s)
    <3>1. Waiting(b2, s)' = Waiting(b2, s)
      BY <1>4, <1>6, <2>6 DEF Waiting
    <3>2. Count(switchCalendar'[b2], StartingAt(s)) = Count(switchCalendar[b2], StartingAt(s))
      <4>1. CASE b2 = b
        <5>1. r \notin StartingAt(s)
          BY <2>6, <4>1 DEF StartingAt
        <5>2. One(r \in StartingAt(s)) = 0
          BY <5>1 DEF One
        <5>3. Count(c, StartingAt(s)) \in Nat
          BY PlacesFinite
        <5>4. Count(new, StartingAt(s)) = Count(c, StartingAt(s))
          BY <1>7, <5>2, <5>3
        <5> QED BY <1>5, <1>8, <4>1, <5>4
      <4>2. CASE b2 # b
        BY <1>8, <4>2
      <4> QED BY <4>1, <4>2
    <3> QED BY <2>2, <2>3, <2>4, <3>1, <3>2
  <2> QED BY <2>5, <2>6
<1> QED BY <1>10, <1>11, <1>12, <1>13

\* No free node: the assertion stops the board.
LEMMA EnterFails ==
  ASSUME OfficeInv, office = "run", officeInbox # <<>>, officeInbox' = Tail(officeInbox),
         switchFreeList = 0, NEW new, Enters(Head(officeInbox), new),
         UNCHANGED <<tick, position>>, early' \in {"none", "between", "behind"}
  PROVE  OfficeInv'
<1>1. OfficeTypes /\ RequestsSensible
  BY DEF OfficeInv
<1>2. office' = "hang" /\ UNCHANGED <<calendarVars, switches, workers, asker>>
  BY DEF Enters
<1>3. /\ officeInbox' \in Seq(OfficeMessage)
      /\ \A i \in 1 .. Len(officeInbox') : Proper(officeInbox'[i])
  BY <1>1, InboxTail
<1>4. OfficeTypes'
  BY <1>1, <1>2, <1>3 DEF OfficeTypes, OfficeMessage, calendarVars
<1>5. RequestsSensible'
  BY <1>1, <1>2, <1>3 DEF RequestsSensible, Proper, Sensible, calendarVars
<1> QED BY <1>2, <1>4, <1>5 DEF OfficeInv

\* The new worker is the last of its branch.
LEMMA EnterTold ==
  ASSUME OfficeTypes, NEW r \in SwitchRequest,
         switches' = [switches EXCEPT ![r.branch] = r.direction],
         workers' = workers \cup {r}, UNCHANGED position,
         \A v \in workers : v.branch = r.branch => v.start < r.start,
         NEW b \in Turnout, Told(b)
  PROVE  Told(b)'
<1>1. CASE b = r.branch
  <2>1. switches'[b] = r.direction
    BY <1>1 DEF OfficeTypes
  <2>2. FinalOf(b, r)'
    BY <1>1, <2>1 DEF FinalOf
  <2> QED BY <2>2 DEF Told
<1>2. CASE b # r.branch
  <2>1. switches'[b] = switches[b]
    BY <1>2 DEF OfficeTypes
  <2>2. ASSUME NEW w \in workers, FinalOf(b, w)
        PROVE  FinalOf(b, w)'
    BY <1>2, <2>1, <2>2 DEF FinalOf
  <2> QED BY <1>2, <2>1, <2>2 DEF Told
<1> QED BY <1>1, <1>2

LEMMA InvEnterFirst ==
  ASSUME OfficeInv, office = "run", officeInbox # <<>>, officeInbox' = Tail(officeInbox),
         Head(officeInbox).type = "allocate", EnterFirst(Head(officeInbox)),
         UNCHANGED <<tick, position>>
  PROVE  OfficeInv'
<1>1. OfficeTypes /\ RequestsSensible /\ NodesKept /\ WorkersMatch /\ InOrder /\ ToldRight
  BY DEF OfficeInv
<1>2. PICK r : r = Head(officeInbox).request
  OBVIOUS
<1>3. r \in SwitchRequest
  BY <1>1, <1>2, InboxTail, MessageKinds
<1>4. PICK b \in Turnout : b = r.branch
  BY <1>3, RequestFields
<1>5. /\ switchCalendar[b] = <<>> /\ early' = early
      /\ Enters(Head(officeInbox), <<r>>)
  BY <1>2, <1>4 DEF EnterFirst
<1>6. early' \in {"none", "between", "behind"}
  BY <1>1, <1>5 DEF OfficeTypes
<1>7. CASE switchFreeList = 0
  BY <1>5, <1>6, <1>7, EnterFails
<1>8. CASE switchFreeList # 0
  <2>1. \A w \in workers : w.branch # b
    BY <1>1, <1>5, EmptyIdle
  <2>2. Enlarged(r, <<>>, <<r>>)
    <3>1. /\ <<>> \in Seq(SwitchRequest) /\ <<r>> \in Seq(SwitchRequest)
          /\ <<r>> = Append(<<>>, r) /\ Len(<<>>) = 0 /\ Len(<<r>>) = 1 /\ <<r>>[1] = r
      BY <1>3
    <3>2. \A S : Count(<<r>>, S) = Count(<<>>, S) + One(r \in S)
      <4>1. \A q \in Seq(SwitchRequest) : \A S :
              Count(Append(q, r), S) = Count(q, S) + One(r \in S)
        BY <1>3, CountAppend
      <4> QED BY <3>1, <4>1
    <3> QED BY <3>1, <3>2 DEF Enlarged
  <2>3. OfficeTypes' /\ RequestsSensible' /\ NodesKept' /\ WorkersMatch'
    BY <1>2, <1>4, <1>5, <1>6, <1>8, <2>1, <2>2, EnterKeeps
  <2>4. /\ switchCalendar' = [switchCalendar EXCEPT ![b] = <<r>>]
        /\ switches' = [switches EXCEPT ![b] = r.direction]
        /\ workers' = workers \cup {r}
    BY <1>2, <1>4, <1>5, <1>8 DEF Enters
  <2>5. /\ \A b2 \in Turnout \ {b} : switchCalendar'[b2] = switchCalendar[b2]
        /\ switchCalendar'[b] = <<r>> /\ Len(<<r>>) = 1
    BY <1>1, <2>4 DEF OfficeTypes
  <2>6. InOrder'
    <3> SUFFICES ASSUME NEW b2 \in Turnout, NEW i \in 1 .. Len(switchCalendar'[b2]),
                        NEW j \in 1 .. Len(switchCalendar'[b2]),
                        i < j, i = 1 => early # "behind"
                 PROVE  switchCalendar'[b2][i].start <= switchCalendar'[b2][j].start
      BY <1>5 DEF InOrder
    <3>1. b2 # b
      <4> SUFFICES ASSUME b2 = b PROVE FALSE
        OBVIOUS
      <4>1. i \in 1 .. 1 /\ j \in 1 .. 1
        BY <2>5
      <4> QED BY <4>1
    <3> QED BY <1>1, <2>5, <3>1 DEF InOrder
  <2>7. ToldRight'
    <3> SUFFICES ASSUME early = "none"
                 PROVE  /\ \A b2 \in Turnout : \A i, j \in 2 .. Len(switchCalendar'[b2]) :
                             switchCalendar'[b2][i].start = switchCalendar'[b2][j].start
                        /\ \A b2 \in Turnout \ Range(Opposed) : Told(b2)'
      BY <1>5 DEF ToldRight
    <3>1. ASSUME NEW b2 \in Turnout, NEW i \in 2 .. Len(switchCalendar'[b2]),
                 NEW j \in 2 .. Len(switchCalendar'[b2])
          PROVE  switchCalendar'[b2][i].start = switchCalendar'[b2][j].start
      <4>1. b2 # b
        <5> SUFFICES ASSUME b2 = b PROVE FALSE
          OBVIOUS
        <5>1. i \in 2 .. 1
          BY <2>5, <3>1
        <5> QED BY <5>1
      <4> QED BY <1>1, <2>5, <3>1, <4>1 DEF ToldRight
    <3>2. ASSUME NEW b2 \in Turnout \ Range(Opposed)
          PROVE  Told(b2)'
      <4>1. Told(b2)
        BY <1>1, <3>2 DEF ToldRight
      <4> QED BY <1>1, <1>3, <1>4, <2>1, <2>4, <4>1, EnterTold
    <3> QED BY <3>1, <3>2
  <2> QED BY <2>3, <2>6, <2>7 DEF OfficeInv
<1> QED BY <1>7, <1>8

LEMMA InvEnterSecond ==
  ASSUME OfficeInv, office = "run", officeInbox # <<>>, officeInbox' = Tail(officeInbox),
         Head(officeInbox).type = "allocate", EnterSecond(Head(officeInbox)),
         switchCalendar[Head(officeInbox).request.branch] # <<>>,
         \A w \in workers : ~Due(w), UNCHANGED <<tick, position>>
  PROVE  OfficeInv'
<1>1. OfficeTypes /\ RequestsSensible /\ NodesKept /\ WorkersMatch /\ InOrder /\ ToldRight
  BY DEF OfficeInv
<1>2. PICK r : r = Head(officeInbox).request
  OBVIOUS
<1>3. r \in SwitchRequest /\ Sensible(r)
  BY <1>1, <1>2, InboxTail, MessageKinds DEF Proper
<1>4. PICK b \in Turnout : b = r.branch
  BY <1>3, RequestFields
<1>5. PICK c \in Seq(SwitchRequest) : c = switchCalendar[b]
  BY <1>1, CalendarShape
<1>6. c # <<>> /\ ~Overlap(c[1], r) /\ (Len(c) > 1 => Before(r, c[2]))
  BY <1>2, <1>4, <1>5 DEF EnterSecond
<1>7. PICK new : new = Second(c, r)
  OBVIOUS
<1>8. Enters(Head(officeInbox), new)
  BY <1>2, <1>4, <1>5, <1>7 DEF EnterSecond, Second
<1>9. early' = IF early = "behind" \/ r.start < c[1].start THEN "behind"
               ELSE IF Len(c) > 1 /\ r.start < c[2].start THEN "between"
               ELSE early
  BY <1>2, <1>4, <1>5 DEF EnterSecond
<1>10. early' \in {"none", "between", "behind"}
  BY <1>1, <1>9 DEF OfficeTypes
<1>11. CASE switchFreeList = 0
  BY <1>8, <1>10, <1>11, EnterFails
<1>12. CASE switchFreeList # 0
  <2>1. \A v \in workers : v.branch = r.branch => v.start # r.start
    BY <1>1, <1>3, <1>4, <1>5, <1>6, SecondApart
  <2>2. r \notin workers
    BY <2>1
  <2>3. /\ new \in Seq(SwitchRequest) /\ Len(new) = Len(c) + 1
        /\ new[1] = c[1] /\ new[2] = r
        /\ \A i \in 3 .. Len(c) + 1 : new[i] = c[i - 1]
        /\ Enlarged(r, c, new)
    BY <1>3, <1>6, <1>7, SecondRequest
  <2>4. PICK n \in Nat : n = Len(c) /\ n > 0
    BY <1>6, LenProperties, EmptySeq
  <2>5. /\ \A i \in 1 .. n : /\ c[i].start \in Nat /\ c[i].end \in Nat
                             /\ c[i].start <= c[i].end
        /\ r.start \in Nat /\ r.end \in Nat /\ r.start <= r.end
    <3>1. ASSUME NEW i \in 1 .. n
          PROVE  c[i] \in SwitchRequest /\ Sensible(c[i])
      BY <1>1, <1>5, <2>4, <3>1, CalendarShape
    <3>2. \A q \in SwitchRequest :
            Sensible(q) => q.start \in Nat /\ q.end \in Nat /\ q.start <= q.end
      BY RequestFields DEF Sensible
    <3> QED BY <1>3, <3>1, <3>2
  <2>7. OfficeTypes' /\ RequestsSensible' /\ NodesKept' /\ WorkersMatch'
    BY <1>2, <1>4, <1>5, <1>8, <1>10, <1>12, <2>2, <2>3, EnterKeeps
  <2>8. /\ switchCalendar' = [switchCalendar EXCEPT ![b] = new]
        /\ switches' = [switches EXCEPT ![b] = r.direction]
        /\ workers' = workers \cup {r}
    BY <1>2, <1>4, <1>8, <1>12 DEF Enters
  <2>9. /\ \A b2 \in Turnout \ {b} : switchCalendar'[b2] = switchCalendar[b2]
        /\ switchCalendar'[b] = new
    BY <1>1, <2>8 DEF OfficeTypes
  <2>10. n > 1 => 2 \in 1 .. n /\ r.end <= c[2].start
    <3>1. n > 1 => 2 \in 1 .. n /\ c[2].start >= r.end
      BY <1>6, <2>4 DEF Before
    <3> QED BY <2>5, <3>1
  <2>11. early' # "behind" => early # "behind" /\ c[1].start <= r.start
    <3>1. 1 \in 1 .. n
      BY <2>4
    <3> QED BY <1>9, <2>5, <3>1
  <2>12. early' = "none" =>
           /\ early = "none" /\ r.start >= c[1].start
           /\ n > 1 => r.start >= c[2].start
    <3>1. 1 \in 1 .. n /\ (n > 1 => 2 \in 1 .. n)
      BY <2>4
    <3> QED BY <1>9, <2>4, <2>5, <3>1
  <2>13. InOrder'
    <3> SUFFICES ASSUME NEW b2 \in Turnout, NEW i \in 1 .. Len(switchCalendar'[b2]),
                        NEW j \in 1 .. Len(switchCalendar'[b2]),
                        i < j, i = 1 => early' # "behind"
                 PROVE  switchCalendar'[b2][i].start <= switchCalendar'[b2][j].start
      BY DEF InOrder
    <3>1. CASE b2 # b
      BY <1>1, <2>9, <2>11, <3>1 DEF InOrder
    <3>2. CASE b2 = b
      <4>1. i \in 1 .. n + 1 /\ j \in 1 .. n + 1
        BY <2>3, <2>4, <2>9, <3>2
      <4>2. PICK k : k = j - 1
        OBVIOUS
      <4>3. CASE i = 1 /\ j = 2
        BY <2>3, <2>9, <2>11, <3>2, <4>3
      <4>4. CASE i = 1 /\ j > 2
        <5>1. new[j] = c[k] /\ 1 \in 1 .. Len(c) /\ k \in 1 .. Len(c) /\ 1 < k
          BY <2>3, <2>4, <4>1, <4>2, <4>4
        <5>2. c[1].start <= c[k].start
          BY <1>1, <1>5, <2>11, <4>4, <5>1 DEF InOrder
        <5> QED BY <2>3, <2>9, <3>2, <4>4, <5>1, <5>2
      <4>5. CASE i = 2
        <5>1. new[j] = c[k] /\ k \in 1 .. n /\ k >= 2 /\ n > 1
          BY <2>3, <2>4, <4>1, <4>2, <4>5
        <5>2. c[2].start <= c[k].start
          <6>1. CASE k = 2
            BY <2>5, <5>1, <6>1
          <6>2. CASE k # 2
            <7>1. 2 < k /\ k \in 1 .. Len(c) /\ 2 \in 1 .. Len(c)
              BY <2>4, <5>1, <6>2
            <7> QED BY <1>1, <1>5, <7>1 DEF InOrder
          <6> QED BY <6>1, <6>2
        <5>3. r.start <= c[k].start
          BY <2>5, <2>10, <5>1, <5>2
        <5> QED BY <2>3, <2>9, <3>2, <4>5, <5>1, <5>3
      <4>6. CASE i > 2
        <5>1. PICK h : h = i - 1
          OBVIOUS
        <5>2. /\ new[i] = c[h] /\ new[j] = c[k]
              /\ h \in 1 .. Len(c) /\ k \in 1 .. Len(c) /\ h < k /\ h # 1
          BY <2>3, <2>4, <4>1, <4>2, <4>6, <5>1
        <5>3. c[h].start <= c[k].start
          BY <1>1, <1>5, <5>2 DEF InOrder
        <5> QED BY <2>9, <3>2, <5>2, <5>3
      <4> QED BY <4>1, <4>3, <4>4, <4>5, <4>6
    <3> QED BY <3>1, <3>2
  <2>14. ToldRight'
    <3> SUFFICES ASSUME early' = "none"
                 PROVE  /\ \A b2 \in Turnout : \A i, j \in 2 .. Len(switchCalendar'[b2]) :
                             switchCalendar'[b2][i].start = switchCalendar'[b2][j].start
                        /\ \A b2 \in Turnout \ Range(Opposed) : Told(b2)'
      BY DEF ToldRight
    <3>1. \A b2 \in Turnout : \A i, j \in 2 .. Len(switchCalendar[b2]) :
            switchCalendar[b2][i].start = switchCalendar[b2][j].start
      BY <1>1, <2>12 DEF ToldRight
    <3>2. ASSUME NEW i \in 2 .. n + 1
          PROVE  new[i].start = r.start
      <4>1. CASE i = 2
        BY <2>3, <4>1
      <4>2. CASE i # 2
        <5>1. PICK k : k = i - 1
          OBVIOUS
        <5>2. new[i] = c[k] /\ k \in 2 .. Len(c) /\ 2 \in 2 .. Len(c) /\ n > 1
          BY <2>3, <2>4, <4>2, <5>1
        <5>3. c[k].start = c[2].start
          BY <1>5, <3>1, <5>2
        <5>4. c[2].start = r.start
          BY <2>5, <2>10, <2>12, <5>2
        <5> QED BY <5>2, <5>3, <5>4
      <4> QED BY <4>1, <4>2
    <3>3. ASSUME NEW b2 \in Turnout, NEW i \in 2 .. Len(switchCalendar'[b2]),
                 NEW j \in 2 .. Len(switchCalendar'[b2])
          PROVE  switchCalendar'[b2][i].start = switchCalendar'[b2][j].start
      <4>1. CASE b2 = b
        <5>1. i \in 2 .. n + 1 /\ j \in 2 .. n + 1
          BY <2>3, <2>4, <2>9, <3>3, <4>1
        <5> QED BY <2>9, <3>2, <4>1, <5>1
      <4>2. CASE b2 # b
        BY <2>9, <3>1, <3>3, <4>2
      <4> QED BY <4>1, <4>2
    <3>4. \A v \in workers : v.branch = r.branch => v.start < r.start
      BY <1>1, <1>3, <1>4, <1>5, <1>6, <2>4, <2>12, SecondApart
    <3>5. ASSUME NEW b2 \in Turnout \ Range(Opposed)
          PROVE  Told(b2)'
      <4>1. Told(b2)
        BY <1>1, <2>12, <3>5 DEF ToldRight
      <4> QED BY <1>1, <1>3, <1>4, <2>8, <3>4, <4>1, EnterTold
    <3> QED BY <3>3, <3>5
  <2> QED BY <2>7, <2>13, <2>14 DEF OfficeInv
<1> QED BY <1>11, <1>12

LEMMA InvServe == OfficeInv /\ ServeOffice => OfficeInv'
<1> SUFFICES ASSUME OfficeInv, ServeOffice PROVE OfficeInv'
  OBVIOUS
<1>1. PICK m : m = Head(officeInbox)
  OBVIOUS
<1>2. /\ office = "run" /\ officeInbox # <<>> /\ officeInbox' = Tail(officeInbox)
      /\ \A w \in workers : ~Due(w)
      /\ UNCHANGED <<tick, position>>
      /\ ServeWorker(m) \/ ServeRead(m) \/ ServeAllocate(m)
  BY <1>1 DEF ServeOffice
<1>3. OfficeTypes
  BY DEF OfficeInv
<1>4. [asker EXCEPT ![m.from] = "run"] \in [Client -> {"run", "sent"}]
  BY <1>3, AskerAnswered
<1>5. CASE ServeWorker(m)
  BY <1>1, <1>2, <1>5, InvServeWorker
<1>6. CASE ServeRead(m)
  <2>1. /\ m.type # "worker" /\ UNCHANGED <<calendarVars, switches, workers, early>>
        /\ office' = "run" /\ asker' = [asker EXCEPT ![m.from] = "run"]
    BY <1>2, <1>6 DEF ServeRead, Answered
  <2> QED BY <1>1, <1>2, <1>4, <2>1, InvQuiet
<1>7. CASE ServeAllocate(m)
  <2>1. m.type = "allocate"
    BY <1>7 DEF ServeAllocate
  <2>2. CASE EnterFirst(m)
    BY <1>1, <1>2, <2>1, <2>2, InvEnterFirst
  <2>3. CASE switchCalendar[m.request.branch] # <<>> /\ Refuse(m)
    <3>1. /\ UNCHANGED <<calendarVars, switches, workers, early>>
          /\ office' = "run" /\ asker' = [asker EXCEPT ![m.from] = "run"]
      BY <1>2, <2>3 DEF Refuse, Answered
    <3> QED BY <1>1, <1>2, <1>4, <2>1, <3>1, InvQuiet
  <2>4. CASE switchCalendar[m.request.branch] # <<>> /\ EnterSecond(m)
    BY <1>1, <1>2, <2>1, <2>4, InvEnterSecond
  <2>5. CASE switchCalendar[m.request.branch] # <<>> /\ Spins(m)
    <3>1. /\ UNCHANGED <<calendarVars, switches, workers, early>>
          /\ office' = "spin" /\ asker' = asker
      BY <2>5 DEF Spins
    <3>2. asker' \in [Client -> {"run", "sent"}]
      BY <1>3, <3>1 DEF OfficeTypes
    <3> QED BY <1>1, <1>2, <2>1, <3>1, <3>2, InvQuiet
  <2> QED BY <1>7, <2>2, <2>3, <2>4, <2>5 DEF ServeAllocate
<1> QED BY <1>2, <1>5, <1>6, <1>7

-----------------------------------------------------------------------------
(* The theorems.                                                           *)

LEMMA OfficeInvStep == OfficeInv /\ [OfficeNext]_OfficeVars => OfficeInv'
<1> SUFFICES ASSUME OfficeInv, [OfficeNext]_OfficeVars PROVE OfficeInv'
  OBVIOUS
<1>1. CASE UNCHANGED OfficeVars
  <2>1. \A q : Sensible(q)' <=> Sensible(q)
    BY <1>1 DEF Sensible, OfficeVars
  <2>2. OfficeTypes' /\ RequestsSensible'
    BY <1>1, <2>1 DEF OfficeInv, OfficeTypes, OfficeMessage, RequestsSensible, OfficeVars,
                      calendarVars
  <2>3. office' # "hang" => NodesKept' /\ InOrder' /\ ToldRight' /\ WorkersMatch'
    <3> SUFFICES ASSUME office # "hang"
                 PROVE  NodesKept' /\ InOrder' /\ ToldRight' /\ WorkersMatch'
      BY <1>1 DEF OfficeVars
    <3>1. NodesKept /\ InOrder /\ ToldRight /\ WorkersMatch
      BY DEF OfficeInv
    <3>2. UNCHANGED <<calendarVars, switches, workers, position, early>> /\ UNCHANGED officeInbox
      BY <1>1 DEF OfficeVars
    <3>3. NodesKept' /\ InOrder' /\ ToldRight' /\ \A b, s : Waiting(b, s)' = Waiting(b, s)
      BY <3>1, <3>2, CalendarsSame
    <3>4. WorkersMatch'
      BY <3>1, <3>2, <3>3 DEF WorkersMatch, StartingAt, ReportOf, calendarVars
    <3> QED BY <3>3, <3>4
  <2> QED BY <2>2, <2>3 DEF OfficeInv
<1>2. ASSUME NEW c \in Prompt, NEW b \in Turnout, NEW d \in Direction,
             CommandSw(c, b, d) \/ \E wait \in Delay : CommandSd(c, b, d, wait)
      PROVE  OfficeInv'
  BY <1>2, InvCommands
<1>3. ASSUME NEW c \in Driver, NEW b \in Turnout,
             TrainReads(c, b) \/ \E d \in Direction : TrainThrows(c, b, d)
      PROVE  OfficeInv'
  BY <1>3, InvTrains
<1>4. ASSUME NEW w \in workers, WorkerThrows(w)
      PROVE  OfficeInv'
  BY <1>4, InvThrows
<1>5. CASE ServeOffice
  BY <1>5, InvServe
<1>6. CASE Tick
  BY <1>6, InvTick
<1>7. CASE OfficeStops
  BY <1>1, <1>7 DEF OfficeStops
<1> QED BY <1>1, <1>2, <1>3, <1>4, <1>5, <1>6, <1>7 DEF OfficeNext

LEMMA OfficeInvAlways == OfficeSpec => []OfficeInv
<1>1. OfficeInit => OfficeInv
  BY OfficeInvInit
<1>2. OfficeInv /\ [OfficeNext]_OfficeVars => OfficeInv'
  BY OfficeInvStep
<1> QED BY <1>1, <1>2, PTL DEF OfficeSpec

\* A calendar holds requests of its own branch, and no node too many is free or in use.
THEOREM OfficeTypeCorrect == OfficeSpec => []OfficeTypeOK
<1>1. OfficeInv => OfficeTypeOK
  BY DEF OfficeInv, OfficeTypes, RequestsSensible, OfficeTypeOK
<1> QED BY <1>1, OfficeInvAlways, PTL

\* However many clients ask, and for whatever times: until the board stops no node is lost;
\* and unless a request was entered behind a later one (SwitchOffice.c:160-204) the nodes are
\* in the order of time, each for a worker that has not reported, and a branch without work
\* is as the office says.
THEOREM OfficeStaysExact == OfficeSpec => []OfficeExact
<1>1. OfficeInv => OfficeExact
  <2> SUFFICES ASSUME OfficeInv, office # "hang" PROVE OfficeExact
    BY DEF OfficeExact
  <2>1. OfficeTypes /\ RequestsSensible /\ NodesKept /\ WorkersMatch /\ InOrder /\ ToldRight
    BY DEF OfficeInv
  <2>2. switchFreeList = NODES - Cardinality(Nodes)
    <3>1. IsFiniteSet(Nodes) /\ Cardinality(Nodes) \in Nat
      BY <2>1, FS_CardinalityType DEF NodesKept
    <3> QED BY <2>1, <3>1, SwitchOfficeAssumption DEF NodesKept, OfficeTypes
  <2>3. ASSUME early # "behind", NEW b \in Turnout, NEW i \in 2 .. Len(switchCalendar[b])
        PROVE  switchCalendar[b][i - 1].start <= switchCalendar[b][i].start
    <3>1. Len(switchCalendar[b]) \in Nat
      BY <2>1, CalendarShape
    <3>2. i - 1 \in 1 .. Len(switchCalendar[b]) /\ i \in 1 .. Len(switchCalendar[b]) /\ i - 1 < i
      BY <3>1
    <3> QED BY <2>1, <2>3, <3>2 DEF InOrder
  <2>4. ASSUME NEW b \in Turnout, NEW s \in 0 .. LAST_TICK
        PROVE  Cardinality({i \in 1 .. Len(switchCalendar[b]) : switchCalendar[b][i].start = s})
                 = Unheard(b, s)
    <3>1. s \in Nat
      BY SwitchOfficeAssumption
    <3>2. {i \in 1 .. Len(switchCalendar[b]) : switchCalendar[b][i].start = s}
            = Places(switchCalendar[b], StartingAt(s))
      <4>1. \A i \in 1 .. Len(switchCalendar[b]) : switchCalendar[b][i] \in SwitchRequest
        BY <2>1, CalendarShape
      <4> QED BY <4>1 DEF Places, StartingAt
    <3>3. {i \in 1 .. Len(officeInbox) : /\ officeInbox[i].type = "worker"
                                         /\ officeInbox[i].request.branch = b
                                         /\ officeInbox[i].request.start = s}
            = Places(officeInbox, ReportOf(b, s))
      <4>1. \A i \in 1 .. Len(officeInbox) : officeInbox[i] \in OfficeMessage
        BY <2>1, ElementOfSeq DEF OfficeTypes
      <4> QED BY <4>1 DEF Places, ReportOf
    <3>4. Unheard(b, s) = Cardinality(Waiting(b, s)) + Count(officeInbox, ReportOf(b, s))
      BY <3>3 DEF Unheard, Waiting, Count
    <3>5. Count(switchCalendar[b], StartingAt(s))
            = Cardinality(Waiting(b, s)) + Count(officeInbox, ReportOf(b, s))
      BY <2>1, <3>1 DEF WorkersMatch
    <3> QED BY <3>2, <3>4, <3>5 DEF Count
  <2>5. ASSUME early = "none", NEW b \in Turnout, switchCalendar[b] = <<>>, b \notin Range(Opposed)
        PROVE  position[b] = switches[b]
    <3>1. \A w \in workers : w.branch # b
      BY <2>1, <2>5, EmptyIdle
    <3>2. Told(b)
      BY <2>1, <2>5 DEF ToldRight
    <3> QED BY <3>1, <3>2 DEF Told, FinalOf
  <2> QED BY <2>2, <2>3, <2>4, <2>5 DEF OfficeExact, Nodes
<1> QED BY <1>1, OfficeInvAlways, PTL
=============================================================================
