---------------------------- MODULE ServerProofs ----------------------------
(***************************************************************************)
(* What the servers promise holds for every number of tasks, every length  *)
(* of their queues and every size of their tables: the train switch        *)
(* server, the terminal driver, the name server and the train sensor       *)
(* server, one after the other.  Each has an inductive invariant that says *)
(* where every task that waits for it is: in a message, in a queue, or in  *)
(* the server's hands.                                                     *)
(***************************************************************************)
EXTENDS MCServers, Counting

-----------------------------------------------------------------------------
(* Train switch server.  The courier is in one place: on its way with a    *)
(* command, in a message, or kept waiting; and while the solenoids are     *)
(* off, the server knows it or sends an order next.                        *)

CourierMail   == [type |-> "courier"]
SwitchMessage == [type : {"switch"}, from : Thrower, body : Turn] \cup {CourierMail}

SwitchTypes ==
  /\ SwitchTypeOK
  /\ qMsg \in Seq(Turn)
  /\ switchInbox \in Seq(SwitchMessage)
  /\ onTrack \in Turn \cup {"none", "off"}
  /\ switchFailed \in BOOLEAN

CourierOnce ==
  /\ Count(switchInbox, {CourierMail}) = One(courier = "asked" /\ ~isCourierWaiting)
  /\ isCourierWaiting => courier = "asked" /\ qMsg = <<>>
  /\ carried # "none" <=> courier = "deliver"

SolenoidKnown ==
  /\ carried = "off" => onTrack # "off" /\ turningOffSolenoid
  /\ onTrack = "off" => turningOffSolenoid \/ isCourierWaiting \/ carried \in Turn

SwitchInv == SwitchTypes /\ CourierOnce /\ SolenoidKnown

LEMMA SwitchInvInit == SwitchInit => SwitchInv
<1> SUFFICES ASSUME SwitchInit PROVE SwitchInv
  OBVIOUS
<1>1. SwitchTypes
  <2>1. /\ qMsg = <<>> /\ switchInbox = <<>> /\ Len(qMsg) = 0
        /\ qMsg \in Seq(Turn) /\ switchInbox \in Seq(SwitchMessage)
    BY EmptySeq DEF SwitchInit
  <2>2. thrower \in [Thrower -> {"run", "sent"}]
    BY DEF SwitchInit
  <2>3. Len(qMsg) <= SWITCH_LENGTH
    BY <2>1, SwitchAssumption
  <2> QED
    BY <2>1, <2>2, <2>3 DEF SwitchInit, SwitchTypes, SwitchTypeOK
<1>2. CourierOnce /\ SolenoidKnown
  BY CountEmpty DEF SwitchInit, CourierOnce, SolenoidKnown, One
<1> QED BY <1>1, <1>2 DEF SwitchInv

\* The courier's message is under way when the server receives it.
LEMMA CourierAsked ==
  ASSUME SwitchInv, switchInbox # <<>>, Head(switchInbox) = CourierMail
  PROVE  courier = "asked" /\ ~isCourierWaiting /\ carried = "none"
<1>1. switchInbox \in Seq(SwitchMessage) /\ Tail(switchInbox) \in Seq(SwitchMessage)
  BY HeadTailProperties DEF SwitchInv, SwitchTypes
<1>2. /\ Count(Tail(switchInbox), {CourierMail}) \in Nat
      /\ Count(Tail(switchInbox), {CourierMail}) = Count(switchInbox, {CourierMail}) - 1
  BY <1>1, CountTail, PlacesFinite DEF One
<1>3. Count(switchInbox, {CourierMail}) >= 1
  BY <1>1, <1>2, PlacesFinite
<1> QED
  BY <1>3 DEF SwitchInv, CourierOnce, One

LEMMA SwitchInvNext == SwitchInv /\ [SwitchNext]_SwitchVars => SwitchInv'
<1> SUFFICES ASSUME SwitchInv, [SwitchNext]_SwitchVars PROVE SwitchInv'
  OBVIOUS
<1> USE SwitchAssumption DEF SwitchInv
<1>0. CASE UNCHANGED SwitchVars
  BY <1>0 DEF SwitchVars, serverVars, courierVars, SwitchTypes, SwitchTypeOK, CourierOnce,
              SolenoidKnown, Count, Places
<1>1. ASSUME NEW c \in Thrower, NEW t \in Turn, TrainSwitch(c, t) PROVE SwitchInv'
  <2> DEFINE m == [type |-> "switch", from |-> c, body |-> t]
  <2>1. m \in SwitchMessage /\ m # CourierMail
    BY DEF SwitchMessage, CourierMail
  <2>2. switchInbox' \in Seq(SwitchMessage)
    BY <1>1, <2>1, AppendProperties DEF TrainSwitch, SwitchTypes
  <2>3. Count(switchInbox, {CourierMail})' = Count(switchInbox, {CourierMail})
    BY <1>1, <2>1, CountAppend, PlacesFinite DEF TrainSwitch, SwitchTypes, One
  <2> QED
    BY <1>1, <2>2, <2>3 DEF TrainSwitch, serverVars, courierVars, SwitchTypes, SwitchTypeOK,
                            CourierOnce, SolenoidKnown
<1>2. CASE CourierAsk
  <2>1. switchInbox' = Append(switchInbox, CourierMail) /\ CourierMail \in SwitchMessage
    BY <1>2 DEF CourierAsk, CourierMail, SwitchMessage
  <2>2. switchInbox' \in Seq(SwitchMessage)
    BY <2>1, AppendProperties DEF SwitchTypes
  <2>3. Count(switchInbox, {CourierMail})' = Count(switchInbox, {CourierMail}) + 1
    BY <2>1, CountAppend DEF SwitchTypes, One
  <2>4. courier = "ask" /\ courier' = "asked" /\ ~isCourierWaiting /\ carried = "none"
    BY <1>2 DEF CourierAsk, CourierOnce
  <2>5. CourierOnce'
    BY <1>2, <2>3, <2>4 DEF CourierAsk, CourierOnce, serverVars, One
  <2> QED
    BY <1>2, <2>2, <2>4, <2>5 DEF CourierAsk, serverVars, SwitchTypes, SwitchTypeOK,
                                  SolenoidKnown
<1>3. CASE CourierDeliver
  BY <1>3 DEF CourierDeliver, serverVars, SwitchTypes, SwitchTypeOK, CourierOnce,
              SolenoidKnown, One, Count, Places
<1>4. CASE ServeSwitches
  <2> DEFINE m == Head(switchInbox)
  <2>1. /\ switchInbox # <<>> /\ switchInbox' = Tail(switchInbox) /\ onTrack' = onTrack
        /\ ServeCourier(m) \/ ServeSwitch(m)
    BY <1>4 DEF ServeSwitches
  <2>2. m \in SwitchMessage /\ switchInbox' \in Seq(SwitchMessage)
    BY <2>1, HeadTailProperties DEF SwitchTypes
  <2>3. Count(switchInbox, {CourierMail})' =
          Count(switchInbox, {CourierMail}) - One(m = CourierMail)
    BY <2>1, CountTail DEF SwitchTypes
  <2>4. Count(switchInbox, {CourierMail})' \in Nat
    BY <2>2, PlacesFinite
  <2>5. CASE ServeCourier(m)
    <3>1. m = CourierMail
      BY <2>2, <2>5 DEF ServeCourier, SwitchMessage
    <3>2. courier = "asked" /\ ~isCourierWaiting /\ carried = "none"
      BY <2>1, <3>1, CourierAsked
    <3>3. Count(switchInbox, {CourierMail})' = 0
      BY <2>3, <3>1, <3>2 DEF CourierOnce, One
    <3> HIDE DEF m
    <3>4. CASE qMsg # <<>>
      <4>1. Head(qMsg) \in Turn /\ Tail(qMsg) \in Seq(Turn) /\ Len(Tail(qMsg)) = Len(qMsg) - 1
        BY <3>4, HeadTailProperties DEF SwitchTypes
      <4>2. /\ qMsg' = Tail(qMsg) /\ courier' = "deliver" /\ carried' = Head(qMsg)
            /\ turningOffSolenoid' = FALSE /\ isCourierWaiting' = FALSE
            /\ UNCHANGED <<thrower, switchFailed>>
        BY <2>5, <3>4 DEF ServeCourier, GivesCourier, SolenoidUnmarked
      <4>3. Len(qMsg) \in Nat /\ Len(qMsg') <= SWITCH_LENGTH
        BY <4>1, <4>2, LenProperties DEF SwitchTypes, SwitchTypeOK
      <4>4. SwitchTypes'
        BY <2>1, <2>2, <4>1, <4>2, <4>3 DEF SwitchTypes, SwitchTypeOK
      <4> QED
        BY <2>1, <3>3, <4>1, <4>2, <4>4 DEF CourierOnce, SolenoidKnown, One
    <3>5. CASE qMsg = <<>> /\ turningOffSolenoid
      BY <2>1, <2>2, <2>5, <3>2, <3>3, <3>5
      DEF ServeCourier, courierVars, SwitchTypes, SwitchTypeOK, CourierOnce, SolenoidKnown, One
    <3>6. CASE qMsg = <<>> /\ ~turningOffSolenoid
      BY <2>1, <2>2, <2>5, <3>2, <3>3, <3>6
      DEF ServeCourier, GivesCourier, SwitchTypes, SwitchTypeOK, CourierOnce, SolenoidKnown, One
    <3> QED BY <3>4, <3>5, <3>6
  <2>6. CASE ServeSwitch(m)
    <3>1. m # CourierMail /\ m.from \in Thrower /\ m.body \in Turn
      BY <2>2, <2>6 DEF ServeSwitch, SwitchMessage, CourierMail
    <3>2. Count(switchInbox, {CourierMail})' = Count(switchInbox, {CourierMail})
      BY <2>3, <3>1, PlacesFinite DEF SwitchTypes, One
    <3> HIDE DEF m
    <3>3. CASE isCourierWaiting
      BY <2>1, <2>2, <2>6, <3>1, <3>2, <3>3
      DEF ServeSwitch, GivesCourier, Answers, SwitchTypes, SwitchTypeOK, CourierOnce,
          SolenoidKnown, One
    <3>4. CASE ~isCourierWaiting /\ Len(qMsg) < SWITCH_LENGTH
      <4>1. qMsg' = Append(qMsg, m.body) /\ thrower' = [thrower EXCEPT ![m.from] = "run"]
        BY <2>6, <3>4 DEF ServeSwitch, Answers
      <4>2. qMsg' \in Seq(Turn) /\ Len(qMsg') = Len(qMsg) + 1
        BY <3>1, <4>1, AppendProperties DEF SwitchTypes
      <4> QED
        BY <2>1, <2>2, <2>6, <3>1, <3>2, <3>4, <4>1, <4>2, LenProperties
        DEF ServeSwitch, courierVars, SwitchTypes, SwitchTypeOK, CourierOnce, SolenoidKnown
    <3>5. CASE ~isCourierWaiting /\ ~(Len(qMsg) < SWITCH_LENGTH)
      <4>1. switchFailed' = TRUE /\ UNCHANGED <<serverVars, courierVars, thrower>>
        BY <2>6, <3>5 DEF ServeSwitch, serverVars, courierVars
      <4> QED
        BY <2>1, <2>2, <3>2, <4>1
        DEF serverVars, courierVars, SwitchTypes, SwitchTypeOK, CourierOnce, SolenoidKnown
    <3> QED BY <3>3, <3>4, <3>5
  <2> QED BY <2>1, <2>5, <2>6
<1> QED
  BY <1>0, <1>1, <1>2, <1>3, <1>4 DEF SwitchNext, SwitchesHung

\* Types are kept by the switch server (TrainSwitchServer.c:39-120).
THEOREM SwitchTypeCorrect == SwitchSpec => []SwitchTypeOK
<1>1. SwitchInv => SwitchTypeOK
  BY DEF SwitchInv, SwitchTypes
<1> QED BY <1>1, SwitchInvInit, SwitchInvNext, PTL DEF SwitchSpec

\* What reaches the track is what was ordered, in its order, and the solenoids are switched
\* off at most once after each, whoever comes while the courier is on its way
\* (TrainSwitchServer.c:62-113).
THEOREM SwitchImplementsSolenoid == SwitchSpec => ImplementsSolenoid
<1>1. SwitchInit => OnTheTrack!Init
  BY SwitchAssumption, ConcatEmptySeq, EmptySeq DEF SwitchInit, OnTheTrack!Init, ToThrow
<1>2. SwitchInv /\ [SwitchNext]_SwitchVars => [OnTheTrack!Next]_(OnTheTrack!vars)
  <2> SUFFICES ASSUME SwitchInv, [SwitchNext]_SwitchVars
               PROVE  [OnTheTrack!Next]_(OnTheTrack!vars)
    OBVIOUS
  <2> USE SwitchAssumption DEF SwitchInv
  <2>0. qMsg \in Seq(Turn)
    BY DEF SwitchTypes
  <2>1. CASE UNCHANGED SwitchVars
    BY <2>1 DEF SwitchVars, serverVars, courierVars, OnTheTrack!vars, ToThrow
  <2>2. ASSUME NEW c \in Thrower, NEW t \in Turn, TrainSwitch(c, t)
        PROVE  UNCHANGED OnTheTrack!vars
    BY <2>2 DEF TrainSwitch, serverVars, courierVars, OnTheTrack!vars, ToThrow
  <2>3. CASE CourierAsk
    BY <2>3 DEF CourierAsk, serverVars, OnTheTrack!vars, ToThrow
  <2>4. CASE CourierDeliver
    <3>1. /\ carried # "none" /\ onTrack' = carried /\ carried' = "none" /\ qMsg' = qMsg
          /\ ToThrow' = <<>> \o qMsg /\ <<>> \o qMsg = qMsg
      BY <2>0, <2>4, ConcatEmptySeq
      DEF CourierDeliver, serverVars, ToThrow, CourierOnce
    <3>2. CASE carried \in Turn
      <4>1. ToThrow = <<carried>> \o qMsg
        BY <3>2 DEF ToThrow
      <4>2. ToThrow # <<>> /\ Head(ToThrow) = carried /\ Tail(ToThrow) = qMsg
        BY <2>0, <3>2, <4>1
      <4> QED BY <3>1, <4>2 DEF OnTheTrack!Next, OnTheTrack!Throw
    <3>3. CASE carried = "off"
      BY <3>1, <3>3 DEF OnTheTrack!Next, OnTheTrack!TurnOff, ToThrow, SolenoidKnown
    <3> QED BY <3>1, <3>2, <3>3 DEF SwitchTypes, SwitchTypeOK
  <2>5. CASE ServeSwitches
    <3> DEFINE m == Head(switchInbox)
    <3>1. /\ switchInbox # <<>> /\ onTrack' = onTrack
          /\ ServeCourier(m) \/ ServeSwitch(m)
      BY <2>5 DEF ServeSwitches
    <3>2. m \in SwitchMessage
      BY <3>1, HeadTailProperties DEF SwitchTypes
    <3>3. <<>> \o qMsg = qMsg
      BY <2>0, ConcatEmptySeq
    <3>4. CASE ServeCourier(m)
      <4>1. m = CourierMail
        BY <3>2, <3>4 DEF ServeCourier, SwitchMessage
      <4>2. carried = "none"
        BY <3>1, <4>1, CourierAsked
      <4>3. ToThrow = qMsg
        BY <3>3, <4>2 DEF ToThrow
      <4> HIDE DEF m
      <4>4. CASE qMsg # <<>>
        <5>1. carried' = Head(qMsg) /\ qMsg' = Tail(qMsg) /\ Head(qMsg) \in Turn
          BY <2>0, <3>4, <4>4, HeadTailProperties DEF ServeCourier, GivesCourier
        <5>2. ToThrow' = <<Head(qMsg)>> \o Tail(qMsg)
          BY <5>1 DEF ToThrow
        <5>3. <<Head(qMsg)>> \o Tail(qMsg) = qMsg
          BY <2>0, <4>4
        <5> QED BY <3>1, <4>3, <5>2, <5>3 DEF OnTheTrack!vars
      <4>5. CASE qMsg = <<>>
        <5>1. qMsg' = qMsg /\ carried' \in {"none", "off"}
          BY <3>4, <4>2, <4>5 DEF ServeCourier, GivesCourier, courierVars
        <5>2. ToThrow' = qMsg
          BY <3>3, <5>1 DEF ToThrow
        <5> QED BY <3>1, <4>3, <5>2 DEF OnTheTrack!vars
      <4> QED BY <4>4, <4>5
    <3>5. CASE ServeSwitch(m)
      <4>1. m.body \in Turn
        BY <3>2, <3>5 DEF ServeSwitch, SwitchMessage, CourierMail
      <4> HIDE DEF m
      <4>2. CASE isCourierWaiting
        <5>1. carried = "none" /\ qMsg = <<>> /\ carried' = m.body /\ qMsg' = qMsg
          BY <3>5, <4>2 DEF ServeSwitch, GivesCourier, CourierOnce
        <5>2. ToThrow = <<>> /\ ToThrow' = <<m.body>> \o qMsg
          BY <3>3, <4>1, <5>1 DEF ToThrow
        <5>3. ToThrow' = Append(ToThrow, m.body)
          BY <5>1, <5>2
        <5> QED BY <3>1, <4>1, <5>3 DEF OnTheTrack!Next, OnTheTrack!Order
      <4>3. CASE ~isCourierWaiting /\ Len(qMsg) < SWITCH_LENGTH
        <5>1. carried' = carried /\ qMsg' = Append(qMsg, m.body)
          BY <3>5, <4>3 DEF ServeSwitch, courierVars
        <5> DEFINE front == IF carried \in Turn THEN <<carried>> ELSE <<>>
        <5>2. ToThrow = front \o qMsg /\ ToThrow' = front \o Append(qMsg, m.body)
          BY <5>1 DEF ToThrow
        <5>3. front \in Seq(Turn)
          BY EmptySeq
        <5> HIDE DEF front
        <5>4. front \o Append(qMsg, m.body) = Append(front \o qMsg, m.body)
          BY <2>0, <4>1, <5>3
        <5> QED BY <3>1, <4>1, <5>2, <5>4 DEF OnTheTrack!Next, OnTheTrack!Order
      <4>4. CASE ~isCourierWaiting /\ ~(Len(qMsg) < SWITCH_LENGTH)
        BY <3>1, <3>5, <4>4 DEF ServeSwitch, courierVars, OnTheTrack!vars, ToThrow
      <4> QED BY <4>2, <4>3, <4>4
    <3> QED BY <3>1, <3>4, <3>5
  <2> QED
    BY <2>1, <2>2, <2>3, <2>4, <2>5 DEF SwitchNext, SwitchesHung
<1> QED
  BY <1>1, <1>2, SwitchInvInit, SwitchInvNext, PTL
  DEF SwitchSpec, ImplementsSolenoid, OnTheTrack!Spec

-----------------------------------------------------------------------------
(* Name server.  A task that waits for it stands at the step that it asks  *)
(* for, in one message or one place of the two queues; a step that creates *)
(* or registers is done once; and the registrations that are left are the  *)
(* names that nobody has.                                                  *)

NamesMessage == [from : Task, op : {"register", "whoIs"}, name : Name]
MailFrom(t)  == {m \in NamesMessage : m.from = t}
WaitingPlaces(t)   == Count(nsInbox, MailFrom(t)) + Count(whoIsClients, {t})

\* t waits, and s is what it waits for.
InPlace(t, s) == place[t] <= Len(Script[t]) /\ Step(t) = s

\* The task u has done step s.
HasDone(u, s) == \E i \in 1 .. Len(Script[u]) : i < place[u] /\ Script[u][i] = s

NamesTypes ==
  /\ NamesTypeOK
  /\ nsInbox \in Seq(NamesMessage)
  /\ whoIsClients \in Seq(Askers) /\ whoIsRequests \in Seq(Name)
  /\ place \in [Task -> Nat \ {0}]
  /\ told \in [Task -> Task \cup {NoOwner}]
  /\ overflow \in BOOLEAN

WaitsInOnePlace ==
  \A t \in Task : ~overflow => WaitingPlaces(t) = One(run[t] = "blocked")

WaitsAtStep ==
  /\ Len(whoIsRequests) = Len(whoIsClients)
  /\ \A i \in 1 .. Len(nsInbox) :
       InPlace(nsInbox[i].from, [op |-> nsInbox[i].op, name |-> nsInbox[i].name])
  /\ \A i \in 1 .. Len(whoIsClients) : InPlace(whoIsClients[i], Ask(whoIsRequests[i]))

CreatedOnce ==
  \A u \in Task : run[u] # "none" => u = InitialTask \/ \E t \in Task : HasDone(t, Make(u))

Unknown == {n \in Name : nameTable[n] = NoOwner}

NamesKnown ==
  /\ registrationLeft = Cardinality(Unknown)
  /\ \A n \in Name \ Unknown : HasDone(nameTable[n], Reg(n))

ToldTheTruth ==
  \A t \in Task :
    LET asked == Script[t][place[t] - 1]
    IN  place[t] > 1 /\ asked.op = "whoIs" =>
          told[t] \in Task /\ asked.name \in Registers(told[t])

NamesInv ==
  /\ NamesTypes /\ WaitsInOnePlace /\ WaitsAtStep
  /\ CreatedOnce /\ NamesKnown /\ ToldTheTruth

\* The steps of the scripts.
LEMMA StepCases ==
  ASSUME NEW t \in Task, NEW i \in 1 .. Len(Script[t])
  PROVE  LET s == Script[t][i]
         IN  /\ s.op \in {"create", "register", "whoIs"}
             /\ s.op = "create" => s.task \in Task /\ s = Make(s.task)
             /\ s.op = "register" => s.name \in Name /\ s = Reg(s.name)
             /\ s.op = "whoIs" => s.name \in Name /\ s = Ask(s.name)
<1> DEFINE S == {Make(u) : u \in Task} \cup {Reg(n) : n \in Name} \cup {Ask(n) : n \in Name}
<1>1. Script[t] \in Seq(S)
  BY NameServerAssumption
<1>2. Script[t][i] \in S
  BY <1>1, ElementOfSeq
<1>3. CASE \E u \in Task : Script[t][i] = Make(u)
  BY <1>3 DEF Make
<1>4. CASE \E n \in Name : Script[t][i] = Reg(n)
  BY <1>4 DEF Reg
<1>5. CASE \E n \in Name : Script[t][i] = Ask(n)
  BY <1>5 DEF Ask
<1> QED BY <1>2, <1>3, <1>4, <1>5

LEMMA ScriptLength ==
  ASSUME NEW t \in Task
  PROVE  Len(Script[t]) \in Nat
BY NameServerAssumption, LenProperties

\* What NamesExact counts.
LEMMA CountsMail ==
  ASSUME NamesTypes, NEW t \in Task
  PROVE  /\ Cardinality({i \in 1 .. Len(nsInbox) : nsInbox[i].from = t}) =
              Count(nsInbox, MailFrom(t))
         /\ Cardinality({i \in 1 .. Len(whoIsClients) : whoIsClients[i] = t}) =
              Count(whoIsClients, {t})
<1>1. {i \in 1 .. Len(nsInbox) : nsInbox[i].from = t} = Places(nsInbox, MailFrom(t))
  BY ElementOfSeq DEF NamesTypes, Places, MailFrom
<1>2. {i \in 1 .. Len(whoIsClients) : whoIsClients[i] = t} = Places(whoIsClients, {t})
  BY DEF Places
<1> QED BY <1>1, <1>2 DEF Count

LEMMA NamesInvExact == NamesInv => NamesTypeOK /\ NamesExact
<1> SUFFICES ASSUME NamesInv PROVE NamesTypeOK /\ NamesExact
  OBVIOUS
<1>1. \A i \in 1 .. Len(whoIsClients) : whoIsRequests[i] = Step(whoIsClients[i]).name
  <2> SUFFICES ASSUME NEW i \in 1 .. Len(whoIsClients)
               PROVE  whoIsRequests[i] = Step(whoIsClients[i]).name
    OBVIOUS
  <2>1. Step(whoIsClients[i]) = Ask(whoIsRequests[i])
    BY DEF NamesInv, WaitsAtStep, InPlace
  <2> QED BY <2>1 DEF Ask
<1>2. \A t \in Task :
       ~overflow =>
         Cardinality({i \in 1 .. Len(nsInbox) : nsInbox[i].from = t})
           + Cardinality({i \in 1 .. Len(whoIsClients) : whoIsClients[i] = t}) =
         IF run[t] = "blocked" THEN 1 ELSE 0
  BY CountsMail DEF NamesInv, WaitsInOnePlace, WaitingPlaces, One
<1>3. NamesTypeOK
  BY DEF NamesInv, NamesTypes
<1> QED BY <1>1, <1>2, <1>3 DEF NamesExact, NamesInv, WaitsAtStep, ToldTheTruth

LEMMA NamesInvInit == NamesInit => NamesInv
<1> SUFFICES ASSUME NamesInit PROVE NamesInv
  OBVIOUS
<1> USE DEF NamesInit
<1>1. IsFiniteSet(Name) /\ Cardinality(Name) \in Nat
  BY ScriptsAssumption, FS_CardinalityType
<1>2. Len(nsInbox) = 0 /\ Len(whoIsClients) = 0 /\ Len(whoIsRequests) = 0
  OBVIOUS
<1>3. run \in [Task -> {"none", "ready", "blocked"}]
  OBVIOUS
<1>4. nsInbox \in Seq(NamesMessage) /\ whoIsClients \in Seq(Askers) /\ whoIsRequests \in Seq(Name)
  BY EmptySeq
<1>5. NamesTypeOK
  BY <1>1, <1>2, <1>3, ScriptsAssumption DEF NamesTypeOK, NamesToRegister
<1>6. NamesTypes
  <2>1. place \in [Task -> Nat \ {0}] /\ told \in [Task -> Task \cup {NoOwner}]
    OBVIOUS
  <2> QED BY <1>4, <1>5, <2>1 DEF NamesTypes
<1>7. WaitsInOnePlace /\ WaitsAtStep
  BY <1>2, CountEmpty DEF WaitsInOnePlace, WaitingPlaces, WaitsAtStep, One
<1>8. CreatedOnce
  BY DEF CreatedOnce
<1>9. Unknown = Name
  BY DEF Unknown
<1>10. NamesKnown
  BY <1>9 DEF NamesKnown, NamesToRegister
<1>11. ToldTheTruth
  BY DEF ToldTheTruth
<1> QED BY <1>6, <1>7, <1>8, <1>10, <1>11 DEF NamesInv

\* The place of a task moves on: what others wait for and what was done stays.
LEMMA OthersInPlace ==
  ASSUME NamesTypes, NEW t \in Task, place' = [place EXCEPT ![t] = @ + 1],
         NEW u \in Task \ {t}
  PROVE  place'[u] = place[u] /\ (Step(u))' = Step(u)
BY DEF NamesTypes, Step

LEMMA DoneStays ==
  ASSUME NamesTypes, NEW t \in Task, place' = [place EXCEPT ![t] = @ + 1],
         NEW u \in Task, NEW s, HasDone(u, s)
  PROVE  HasDone(u, s)'
<1>1. PICK i \in 1 .. Len(Script[u]) : i < place[u] /\ Script[u][i] = s
  BY DEF HasDone
<1>2. place[u] \in Nat /\ place'[u] \in Nat /\ place[u] <= place'[u] /\ Len(Script[u]) \in Nat
  BY ScriptLength DEF NamesTypes
<1>3. i < place'[u]
  BY <1>1, <1>2
<1> QED BY <1>1, <1>3 DEF HasDone

LEMMA StepDone ==
  ASSUME NamesTypes, NEW t \in Task, place' = [place EXCEPT ![t] = @ + 1],
         place[t] <= Len(Script[t]), NEW s, Step(t) = s
  PROVE  HasDone(t, s)'
<1>1. place[t] \in Nat \ {0} /\ place'[t] = place[t] + 1 /\ Len(Script[t]) \in Nat
  BY ScriptLength DEF NamesTypes
<1>2. place[t] \in 1 .. Len(Script[t]) /\ place[t] < place'[t]
  BY <1>1
<1> QED BY <1>2 DEF HasDone, Step

\* A step that is not a question has not been done before.
LEMMA NotDoneBefore ==
  ASSUME NamesTypes, NEW t \in Task, place[t] <= Len(Script[t]), Step(t).op # "whoIs",
         NEW u \in Task, NEW s, Step(t) = s
  PROVE  ~HasDone(u, s)
<1> SUFFICES ASSUME HasDone(u, s) PROVE FALSE
  OBVIOUS
<1>1. PICK i \in 1 .. Len(Script[u]) : i < place[u] /\ Script[u][i] = s
  BY DEF HasDone
<1>2. place[t] \in 1 .. Len(Script[t])
  BY ScriptLength DEF NamesTypes
<1>3. u = t /\ i = place[t]
  BY <1>1, <1>2, ScriptsAssumption DEF Step
<1> QED BY <1>1, <1>3, ScriptLength DEF NamesTypes

\* A task that does not wait has no message and no question.
LEMMA NotWaiting ==
  ASSUME NamesInv, ~overflow, NEW t \in Task, run[t] # "blocked"
  PROVE  /\ \A i \in 1 .. Len(nsInbox) : nsInbox[i].from # t
         /\ \A i \in 1 .. Len(whoIsClients) : whoIsClients[i] # t
<1>1. /\ nsInbox \in Seq(NamesMessage) /\ whoIsClients \in Seq(Askers)
      /\ Count(nsInbox, MailFrom(t)) \in Nat /\ Count(whoIsClients, {t}) \in Nat
  BY PlacesFinite DEF NamesInv, NamesTypes
<1>2. Count(nsInbox, MailFrom(t)) + Count(whoIsClients, {t}) = 0
  BY DEF NamesInv, WaitsInOnePlace, WaitingPlaces, One
<1>3. Count(nsInbox, MailFrom(t)) = 0 /\ Count(whoIsClients, {t}) = 0
  BY <1>1, <1>2
<1>4. \A i \in 1 .. Len(nsInbox) : nsInbox[i] \notin MailFrom(t)
  BY <1>1, <1>3, CountZero
<1>5. \A i \in 1 .. Len(nsInbox) : nsInbox[i].from # t
  BY <1>1, <1>4, ElementOfSeq DEF MailFrom
<1>6. \A i \in 1 .. Len(whoIsClients) : whoIsClients[i] \notin {t}
  BY <1>1, <1>3, CountZero
<1> QED BY <1>5, <1>6

LEMMA KnownStays ==
  ASSUME NamesInv, NEW t \in Task, place' = [place EXCEPT ![t] = @ + 1],
         UNCHANGED <<nameTable, registrationLeft>>
  PROVE  NamesKnown'
<1>1. Unknown' = Unknown
  BY DEF Unknown
<1>2. \A n \in Name \ Unknown : nameTable[n] \in Task
  BY DEF NamesInv, NamesTypes, NamesTypeOK, Unknown
<1>3. ASSUME NEW n \in Name \ Unknown PROVE HasDone(nameTable[n], Reg(n))'
  <2>1. HasDone(nameTable[n], Reg(n))
    BY <1>3 DEF NamesInv, NamesKnown
  <2>2. \A w \in Task : HasDone(w, Reg(n)) => HasDone(w, Reg(n))'
    BY DoneStays DEF NamesInv
  <2> QED BY <1>2, <2>1, <2>2 DEF HasDone
<1> QED BY <1>1, <1>3 DEF NamesInv, NamesKnown, HasDone

-----------------------------------------------------------------------------
\* A step of a script that creates a task.
LEMMA CreatesKeeps ==
  ASSUME NamesInv, NEW t \in Task \ {Server}, Chosen(t), Creates(t)
  PROVE  NamesInv'
<1> DEFINE s == Step(t)
           u == s.task
<1>1. ~overflow /\ run[t] = "ready" /\ place[t] <= Len(Script[t])
  BY ScriptLength DEF Chosen, Ready, Done, NamesInv, NamesTypes
<1>2. place[t] \in 1 .. Len(Script[t])
  BY <1>1, ScriptLength DEF NamesInv, NamesTypes
<1>3. s.op = "create" /\ u \in Task /\ s = Make(u)
  BY <1>2, StepCases DEF Creates, Step
<1> HIDE DEF s, u
<1>4. /\ run' = [run EXCEPT ![u] = "ready"] /\ place' = [place EXCEPT ![t] = @ + 1]
      /\ UNCHANGED <<nsVars, nsInbox, told, overflow>>
  BY DEF Creates, s, u
<1>5. NamesTypes
  BY DEF NamesInv
<1>6. run[u] = "none"
  <2>1. u # InitialTask
    BY <1>2, <1>3, ScriptsAssumption DEF s, Step
  <2>2. \A v \in Task : ~HasDone(v, Make(u))
    <3> SUFFICES ASSUME NEW v \in Task PROVE ~HasDone(v, Make(u))
      OBVIOUS
    <3>1. \A r : Step(t) = r => ~HasDone(v, r)
      BY <1>1, <1>3, <1>5, NotDoneBefore DEF s
    <3> QED BY <3>1, <1>3 DEF s
  <2> QED BY <1>3, <2>1, <2>2 DEF NamesInv, CreatedOnce
<1>7. /\ \A i \in 1 .. Len(nsInbox) : nsInbox[i].from # t
      /\ \A i \in 1 .. Len(whoIsClients) : whoIsClients[i] # t
  BY <1>1, NotWaiting
<1>8. NamesTypes'
  <2>1. run' \in [Task -> {"none", "ready", "blocked"}] /\ place' \in [Task -> Nat \ {0}]
    BY <1>3, <1>4, <1>5 DEF NamesTypes, NamesTypeOK
  <2> QED BY <1>4, <1>5, <2>1 DEF NamesTypes, NamesTypeOK, nsVars
<1>9. WaitsInOnePlace'
  <2>1. \A v \in Task : run'[v] = "blocked" <=> run[v] = "blocked"
    BY <1>3, <1>4, <1>5, <1>6 DEF NamesTypes, NamesTypeOK
  <2> QED BY <1>4, <2>1 DEF NamesInv, WaitsInOnePlace, WaitingPlaces, Count, Places, nsVars, One
<1>10. WaitsAtStep'
  <2>1. \A v \in Task \ {t} : place'[v] = place[v] /\ (Step(v))' = Step(v)
    BY <1>4, <1>5, OthersInPlace
  <2>2. /\ \A i \in 1 .. Len(nsInbox) : nsInbox[i].from \in Task \ {t}
        /\ \A i \in 1 .. Len(whoIsClients) : whoIsClients[i] \in Task \ {t}
    <3>1. \A i \in 1 .. Len(nsInbox) : nsInbox[i] \in NamesMessage
      BY <1>5, ElementOfSeq DEF NamesTypes
    <3>2. \A i \in 1 .. Len(whoIsClients) : whoIsClients[i] \in Askers
      BY <1>5, ElementOfSeq DEF NamesTypes
    <3> QED BY <1>7, <3>1, <3>2 DEF NamesMessage, Askers
  <2> QED BY <1>4, <2>1, <2>2 DEF NamesInv, WaitsAtStep, InPlace, nsVars
<1>11. CreatedOnce'
  <2> SUFFICES ASSUME NEW v \in Task, run'[v] # "none", v # InitialTask
               PROVE  \E w \in Task : HasDone(w, Make(v))'
    BY DEF CreatedOnce
  <2>1. CASE v = u
    BY <1>1, <1>3, <1>4, <1>5, <2>1, StepDone DEF s
  <2>2. CASE v # u
    <3>1. PICK w \in Task : HasDone(w, Make(v))
      BY <1>4, <1>5, <2>2 DEF NamesInv, CreatedOnce, NamesTypes, NamesTypeOK
    <3> QED BY <1>4, <1>5, <3>1, DoneStays
  <2> QED BY <2>1, <2>2
<1>12. NamesKnown'
  BY <1>4, KnownStays DEF nsVars
<1>13. ToldTheTruth'
  <2> SUFFICES ASSUME NEW v \in Task, place'[v] > 1, Script[v][place'[v] - 1].op = "whoIs"
               PROVE  /\ told[v] \in Task
                      /\ Script[v][place'[v] - 1].name \in Registers(told[v])
    BY <1>4 DEF ToldTheTruth
  <2>1. v # t
    <3>1. place'[t] - 1 = place[t]
      BY <1>4, <1>5 DEF NamesTypes
    <3> QED BY <1>3, <3>1 DEF s, Step
  <2> QED BY <1>4, <1>5, <2>1 DEF NamesInv, ToldTheTruth, NamesTypes
<1> QED BY <1>8, <1>9, <1>10, <1>11, <1>12, <1>13 DEF NamesInv

\* A step that asks the name server.
LEMMA SendsKeep ==
  ASSUME NamesInv, NEW t \in Task \ {Server}, Chosen(t), SendsToServer(t)
  PROVE  NamesInv'
<1> DEFINE s == Step(t)
           m == [from |-> t, op |-> s.op, name |-> s.name]
<1>1. ~overflow /\ run[t] = "ready" /\ place[t] <= Len(Script[t])
  BY ScriptLength DEF Chosen, Ready, Done, NamesInv, NamesTypes
<1>2. place[t] \in 1 .. Len(Script[t])
  BY <1>1, ScriptLength DEF NamesInv, NamesTypes
<1>3. /\ s.op \in {"register", "whoIs"} /\ s.name \in Name
      /\ s = [op |-> s.op, name |-> s.name]
  <2>1. s.op \in {"register", "whoIs"}
    BY DEF SendsToServer
  <2>2. s.name \in Name /\ (s = Reg(s.name) \/ s = Ask(s.name))
    BY <1>2, <2>1, StepCases DEF Step
  <2> QED BY <2>1, <2>2 DEF Reg, Ask
<1>4. m \in NamesMessage /\ m.from = t /\ m.op = s.op /\ m.name = s.name
  BY <1>3 DEF NamesMessage
<1>5. /\ run' = [run EXCEPT ![t] = "blocked"] /\ UNCHANGED <<nsVars, place, told>>
      /\ overflow' = (Len(nsInbox) = SEND_QUEUE_LENGTH)
      /\ nsInbox' = IF overflow' THEN nsInbox ELSE Append(nsInbox, m)
  BY DEF SendsToServer
<1> HIDE DEF s, m
<1>6. NamesTypes
  BY DEF NamesInv
<1>7. run' \in [Task -> {"none", "ready", "blocked"}]
  BY <1>5, <1>6 DEF NamesTypes, NamesTypeOK
<1>8. CreatedOnce' /\ NamesKnown' /\ ToldTheTruth'
  <2>1. \A v \in Task : run'[v] # "none" => run[v] # "none"
    BY <1>1, <1>5, <1>6 DEF NamesTypes, NamesTypeOK
  <2>2. CreatedOnce'
    BY <1>5, <2>1 DEF NamesInv, CreatedOnce, HasDone
  <2>3. NamesKnown'
    BY <1>5 DEF NamesInv, NamesKnown, Unknown, HasDone, nsVars
  <2>4. ToldTheTruth'
    BY <1>5 DEF NamesInv, ToldTheTruth
  <2> QED BY <2>2, <2>3, <2>4
<1>9. CASE overflow'
  <2>1. NamesTypes'
    BY <1>5, <1>6, <1>7, <1>9 DEF NamesTypes, NamesTypeOK, nsVars
  <2>2. WaitsInOnePlace'
    BY <1>9 DEF WaitsInOnePlace
  <2>3. WaitsAtStep'
    BY <1>5, <1>9 DEF NamesInv, WaitsAtStep, InPlace, Step, nsVars
  <2> QED BY <1>8, <2>1, <2>2, <2>3 DEF NamesInv
<1>10. CASE ~overflow'
  <2>1. nsInbox' = Append(nsInbox, m) /\ Len(nsInbox) # SEND_QUEUE_LENGTH
    BY <1>5, <1>10
  <2>2. nsInbox \in Seq(NamesMessage) /\ Len(nsInbox) \in Nat
    BY <1>6, LenProperties DEF NamesTypes
  <2>3. nsInbox' \in Seq(NamesMessage) /\ Len(nsInbox') = Len(nsInbox) + 1
        /\ nsInbox'[Len(nsInbox) + 1] = m
        /\ \A i \in 1 .. Len(nsInbox) : nsInbox'[i] = nsInbox[i]
    BY <1>4, <2>1, <2>2, AppendProperties
  <2>4. Len(nsInbox') <= SEND_QUEUE_LENGTH
    BY <1>6, <2>1, <2>2, <2>3, ScriptsAssumption DEF NamesTypes, NamesTypeOK
  <2>5. NamesTypes'
    <3>1. overflow' \in BOOLEAN
      BY <1>5
    <3> QED BY <1>5, <1>6, <1>7, <2>3, <2>4, <3>1 DEF NamesTypes, NamesTypeOK, nsVars
  <2>6. WaitsInOnePlace'
    <3> SUFFICES ASSUME NEW v \in Task PROVE WaitingPlaces(v)' = One(run'[v] = "blocked")
      BY DEF WaitsInOnePlace
    <3>1. Count(nsInbox, MailFrom(v))' = Count(nsInbox, MailFrom(v)) + One(v = t)
      <4>1. m \in MailFrom(v) <=> v = t
        BY <1>4 DEF MailFrom
      <4>2. Count(nsInbox', MailFrom(v)) = Count(nsInbox, MailFrom(v)) + One(m \in MailFrom(v))
        BY <1>4, <2>1, <2>2, CountAppend
      <4>3. Count(nsInbox, MailFrom(v))' = Count(nsInbox', MailFrom(v))
        BY DEF Count, Places, MailFrom
      <4> QED BY <4>1, <4>2, <4>3 DEF One
    <3>2. Count(whoIsClients, {v})' = Count(whoIsClients, {v})
      BY <1>5 DEF nsVars, Count, Places
    <3>3. WaitingPlaces(v) = One(run[v] = "blocked")
      BY <1>1 DEF NamesInv, WaitsInOnePlace
    <3>4. Count(nsInbox, MailFrom(v)) \in Nat /\ Count(whoIsClients, {v}) \in Nat
      BY <1>6, PlacesFinite DEF NamesTypes
    <3>5. CASE v = t
      <4>1. run[v] # "blocked" /\ run'[v] = "blocked"
        BY <1>1, <1>5, <1>6, <3>5 DEF NamesTypes, NamesTypeOK
      <4> QED BY <3>1, <3>2, <3>3, <3>4, <3>5, <4>1 DEF WaitingPlaces, One
    <3>6. CASE v # t
      <4>1. run'[v] = run[v]
        BY <1>5, <1>6, <3>6 DEF NamesTypes, NamesTypeOK
      <4> QED BY <3>1, <3>2, <3>3, <3>4, <3>6, <4>1 DEF WaitingPlaces, One
    <3> QED BY <3>5, <3>6
  <2>7. WaitsAtStep'
    <3>1. InPlace(t, [op |-> m.op, name |-> m.name])
      BY <1>1, <1>3, <1>4 DEF InPlace, s
    <3>2. ASSUME NEW i \in 1 .. Len(nsInbox')
          PROVE  InPlace(nsInbox'[i].from, [op |-> nsInbox'[i].op, name |-> nsInbox'[i].name])
      <4>1. CASE i = Len(nsInbox) + 1
        BY <1>4, <2>3, <3>1, <4>1
      <4>2. CASE i # Len(nsInbox) + 1
        <5>1. i \in 1 .. Len(nsInbox)
          BY <2>2, <2>3, <4>2
        <5> QED BY <2>3, <5>1 DEF NamesInv, WaitsAtStep
      <4> QED BY <4>1, <4>2
    <3>3. \A v, r : InPlace(v, r)' <=> InPlace(v, r)
      BY <1>5 DEF InPlace, Step
    <3> QED
      BY <1>5, <3>2, <3>3 DEF NamesInv, WaitsAtStep, nsVars, InPlace, Step
  <2> QED BY <1>8, <2>5, <2>6, <2>7 DEF NamesInv
<1> QED BY <1>9, <1>10

-----------------------------------------------------------------------------
\* The message that the server takes is all that its sender has under way.
LEMMA TakenMail ==
  ASSUME NamesInv, ~overflow, nsInbox # <<>>
  PROVE  LET m == Head(nsInbox)
             q == Tail(nsInbox)
         IN  /\ m \in NamesMessage /\ run[m.from] = "blocked"
             /\ InPlace(m.from, [op |-> m.op, name |-> m.name])
             /\ q \in Seq(NamesMessage) /\ Len(q) <= SEND_QUEUE_LENGTH
             /\ \A i \in 1 .. Len(q) :
                  /\ q[i].from # m.from
                  /\ InPlace(q[i].from, [op |-> q[i].op, name |-> q[i].name])
             /\ Count(q, MailFrom(m.from)) = 0 /\ Count(whoIsClients, {m.from}) = 0
             /\ \A u \in Task \ {m.from} : Count(q, MailFrom(u)) = Count(nsInbox, MailFrom(u))
<1> DEFINE m == Head(nsInbox)
           q == Tail(nsInbox)
           t == m.from
<1>1. /\ nsInbox \in Seq(NamesMessage) /\ whoIsClients \in Seq(Askers)
      /\ Len(nsInbox) <= SEND_QUEUE_LENGTH
  BY DEF NamesInv, NamesTypes, NamesTypeOK
<1>2. /\ Len(nsInbox) \in Nat /\ m = nsInbox[1] /\ m \in NamesMessage
      /\ q \in Seq(NamesMessage) /\ Len(q) = Len(nsInbox) - 1
      /\ \A i \in 1 .. Len(q) : q[i] = nsInbox[i + 1]
  BY <1>1, HeadTailProperties, LenProperties
<1>3. 1 \in 1 .. Len(nsInbox) /\ \A i \in 1 .. Len(q) : i + 1 \in 1 .. Len(nsInbox)
  BY <1>1, <1>2, LenProperties
<1>4. /\ InPlace(m.from, [op |-> m.op, name |-> m.name])
      /\ \A i \in 1 .. Len(q) : InPlace(q[i].from, [op |-> q[i].op, name |-> q[i].name])
  BY <1>2, <1>3 DEF NamesInv, WaitsAtStep
<1>5. t \in Task /\ m \in MailFrom(t)
  BY <1>2 DEF NamesMessage, MailFrom
<1> HIDE DEF m, q, t
<1>6. /\ Count(nsInbox, MailFrom(t)) \in Nat /\ Count(q, MailFrom(t)) \in Nat
      /\ Count(whoIsClients, {t}) \in Nat
  BY <1>1, <1>2, PlacesFinite
<1>7. Count(q, MailFrom(t)) = Count(nsInbox, MailFrom(t)) - 1
  BY <1>1, <1>5, CountTail DEF One, m, q
<1>8. Count(nsInbox, MailFrom(t)) + Count(whoIsClients, {t}) = One(run[t] = "blocked")
  BY <1>5 DEF NamesInv, WaitsInOnePlace, WaitingPlaces
<1>9. run[t] = "blocked" /\ Count(q, MailFrom(t)) = 0 /\ Count(whoIsClients, {t}) = 0
  BY <1>6, <1>7, <1>8 DEF One
<1>10. \A i \in 1 .. Len(q) : q[i].from # t
  <2>1. \A i \in 1 .. Len(q) : q[i] \notin MailFrom(t)
    BY <1>2, <1>9, CountZero
  <2> QED BY <1>2, <2>1, ElementOfSeq DEF MailFrom
<1>11. ASSUME NEW u \in Task \ {t} PROVE Count(q, MailFrom(u)) = Count(nsInbox, MailFrom(u))
  <2>1. m \notin MailFrom(u)
    BY DEF MailFrom, t
  <2> QED BY <1>1, <2>1, CountTail, PlacesFinite DEF One, m, q
<1>12. Len(q) <= SEND_QUEUE_LENGTH
  BY <1>1, <1>2, ScriptsAssumption
<1>13. /\ t \in Task /\ \A i \in 1 .. Len(q) :
            /\ q[i].from # t
            /\ InPlace(q[i].from, [op |-> q[i].op, name |-> q[i].name])
  BY <1>4, <1>5, <1>10
<1> QED
  BY <1>2, <1>4, <1>9, <1>11, <1>12, <1>13 DEF m, q, t

\* So is the question at the head of the queues.
LEMMA TakenQuestion ==
  ASSUME NamesInv, ~overflow, whoIsClients # <<>>
  PROVE  LET t == Head(whoIsClients)
             q == Tail(whoIsClients)
             r == Tail(whoIsRequests)
         IN  /\ t \in Task /\ run[t] = "blocked" /\ InPlace(t, Ask(Head(whoIsRequests)))
             /\ Head(whoIsRequests) \in Name /\ whoIsRequests # <<>>
             /\ q \in Seq(Askers) /\ r \in Seq(Name) /\ Len(r) = Len(q)
             /\ Len(q) <= WHOIS_LENGTH
             /\ \A i \in 1 .. Len(q) : q[i] # t /\ InPlace(q[i], Ask(r[i]))
             /\ \A i \in 1 .. Len(nsInbox) : nsInbox[i].from # t
             /\ Count(q, {t}) = 0 /\ Count(nsInbox, MailFrom(t)) = 0
             /\ \A u \in Task \ {t} : Count(q, {u}) = Count(whoIsClients, {u})
<1> DEFINE t == Head(whoIsClients)
           q == Tail(whoIsClients)
           r == Tail(whoIsRequests)
<1>1. /\ nsInbox \in Seq(NamesMessage) /\ whoIsClients \in Seq(Askers)
      /\ whoIsRequests \in Seq(Name) /\ Len(whoIsClients) <= WHOIS_LENGTH
      /\ Len(whoIsRequests) = Len(whoIsClients)
  BY DEF NamesInv, NamesTypes, NamesTypeOK, WaitsAtStep
<1>2. /\ Len(whoIsClients) \in Nat \ {0} /\ t = whoIsClients[1] /\ t \in Askers
      /\ q \in Seq(Askers) /\ Len(q) = Len(whoIsClients) - 1
      /\ \A i \in 1 .. Len(q) : q[i] = whoIsClients[i + 1]
  BY <1>1, HeadTailProperties, LenProperties
<1>3. /\ whoIsRequests # <<>> /\ Head(whoIsRequests) = whoIsRequests[1]
      /\ Head(whoIsRequests) \in Name
      /\ r \in Seq(Name) /\ Len(r) = Len(whoIsRequests) - 1
      /\ \A i \in 1 .. Len(r) : r[i] = whoIsRequests[i + 1]
  <2>1. whoIsRequests # <<>>
    BY <1>1, <1>2, LenProperties
  <2> QED BY <1>1, <2>1, HeadTailProperties
<1>4. InPlace(t, Ask(Head(whoIsRequests)))
  BY <1>1, <1>2, <1>3 DEF NamesInv, WaitsAtStep
<1>5. \A i \in 1 .. Len(q) : InPlace(q[i], Ask(r[i]))
  <2> SUFFICES ASSUME NEW i \in 1 .. Len(q) PROVE InPlace(q[i], Ask(r[i]))
    OBVIOUS
  <2>1. i + 1 \in 1 .. Len(whoIsClients) /\ i \in 1 .. Len(r)
    BY <1>1, <1>2, <1>3
  <2>2. InPlace(whoIsClients[i + 1], Ask(whoIsRequests[i + 1]))
    BY <2>1 DEF NamesInv, WaitsAtStep
  <2> QED BY <1>2, <1>3, <2>1, <2>2
<1>6. t \in Task
  BY <1>2 DEF Askers
<1> HIDE DEF q, r, t
<1>7. /\ Count(nsInbox, MailFrom(t)) \in Nat /\ Count(q, {t}) \in Nat
      /\ Count(whoIsClients, {t}) \in Nat
  BY <1>1, <1>2, PlacesFinite
<1>8. Count(q, {t}) = Count(whoIsClients, {t}) - 1
  BY <1>1, CountTail DEF One, t, q
<1>9. Count(nsInbox, MailFrom(t)) + Count(whoIsClients, {t}) = One(run[t] = "blocked")
  BY <1>6 DEF NamesInv, WaitsInOnePlace, WaitingPlaces
<1>10. run[t] = "blocked" /\ Count(q, {t}) = 0 /\ Count(nsInbox, MailFrom(t)) = 0
  BY <1>7, <1>8, <1>9 DEF One
<1>11. \A i \in 1 .. Len(nsInbox) : nsInbox[i].from # t
  <2>1. \A i \in 1 .. Len(nsInbox) : nsInbox[i] \notin MailFrom(t)
    BY <1>1, <1>10, CountZero
  <2> QED BY <1>1, <2>1, ElementOfSeq DEF MailFrom
<1>12. \A i \in 1 .. Len(q) : q[i] # t
  BY <1>2, <1>10, CountZero
<1>13. ASSUME NEW u \in Task \ {t} PROVE Count(q, {u}) = Count(whoIsClients, {u})
  BY <1>1, CountTail, PlacesFinite DEF One, t, q
<1>14. Len(q) <= WHOIS_LENGTH /\ Len(r) = Len(q)
  BY <1>1, <1>2, <1>3, ScriptsAssumption
<1> QED
  BY <1>2, <1>3, <1>4, <1>5, <1>6, <1>10, <1>11, <1>12, <1>13, <1>14 DEF q, r, t

\* An answer: its task moves on, knows the truth, and no other is touched.
LEMMA RepliedKeeps ==
  ASSUME NamesInv, NEW t \in Task, NEW answer \in Task, Replies(t, answer),
         run[t] = "blocked", place[t] <= Len(Script[t]),
         Step(t).op = "whoIs" => Step(t).name \in Registers(answer)
  PROVE  /\ run' \in [Task -> {"none", "ready", "blocked"}] /\ place' \in [Task -> Nat \ {0}]
         /\ told' \in [Task -> Task \cup {NoOwner}]
         /\ run'[t] = "ready" /\ \A u \in Task \ {t} : run'[u] = run[u]
         /\ CreatedOnce' /\ ToldTheTruth'
<1>1. NamesTypes
  BY DEF NamesInv
<1>2. /\ run' = [run EXCEPT ![t] = "ready"] /\ place' = [place EXCEPT ![t] = @ + 1]
      /\ told' = [told EXCEPT ![t] = answer]
  BY DEF Replies
<1>3. /\ run' \in [Task -> {"none", "ready", "blocked"}] /\ place' \in [Task -> Nat \ {0}]
      /\ told' \in [Task -> Task \cup {NoOwner}]
  BY <1>1, <1>2 DEF NamesTypes, NamesTypeOK
<1>4. run'[t] = "ready" /\ \A u \in Task \ {t} : run'[u] = run[u]
  BY <1>1, <1>2 DEF NamesTypes, NamesTypeOK
<1>5. CreatedOnce'
  <2> SUFFICES ASSUME NEW v \in Task, run'[v] # "none", v # InitialTask
               PROVE  \E w \in Task : HasDone(w, Make(v))'
    BY DEF CreatedOnce
  <2>1. run[v] # "none"
    BY <1>4
  <2>2. PICK w \in Task : HasDone(w, Make(v))
    BY <2>1 DEF NamesInv, CreatedOnce
  <2> QED BY <1>1, <1>2, <2>2, DoneStays
<1>6. ToldTheTruth'
  <2> SUFFICES ASSUME NEW v \in Task, place'[v] > 1, Script[v][place'[v] - 1].op = "whoIs"
               PROVE  /\ told'[v] \in Task
                      /\ Script[v][place'[v] - 1].name \in Registers(told'[v])
    BY DEF ToldTheTruth, Registers
  <2>1. CASE v = t
    <3>1. place'[t] - 1 = place[t] /\ told'[t] = answer
      BY <1>1, <1>2 DEF NamesTypes
    <3> QED BY <2>1, <3>1 DEF Step
  <2>2. CASE v # t
    BY <1>1, <1>2, <2>2 DEF NamesInv, ToldTheTruth, NamesTypes
  <2> QED BY <2>1, <2>2
<1> QED BY <1>3, <1>4, <1>5, <1>6

\* Every name has an owner, who registers it, when questions are answered.
LEMMA AllKnown ==
  ASSUME NamesInv, ~Starting, NEW n \in Name
  PROVE  nameTable[n] \in Task /\ n \in Registers(nameTable[n])
<1>1. IsFiniteSet(Unknown)
  BY ScriptsAssumption, FS_Subset DEF Unknown
<1>2. registrationLeft = 0
  BY DEF NamesInv, NamesTypes, NamesTypeOK, Starting
<1>3. Unknown = {}
  BY <1>1, <1>2, FS_EmptySet DEF NamesInv, NamesKnown
<1>4. nameTable[n] \in Task
  BY <1>3 DEF NamesInv, NamesTypes, NamesTypeOK, Unknown
<1>5. HasDone(nameTable[n], Reg(n))
  BY <1>3 DEF NamesInv, NamesKnown
<1>6. PICK i \in 1 .. Len(Script[nameTable[n]]) : Script[nameTable[n]][i] = Reg(n)
  BY <1>5 DEF HasDone
<1> QED BY <1>4, <1>6 DEF Registers, Reg

\* Who sent a message that is answered waits no more, and the others wait where they did.
LEMMA MailServed ==
  ASSUME NamesInv, ~overflow, nsInbox # <<>>, nsInbox' = Tail(nsInbox),
         NEW m, m = Head(nsInbox), UNCHANGED <<whoIsClients, whoIsRequests>>,
         place' = [place EXCEPT ![m.from] = @ + 1], run'[m.from] = "ready",
         \A u \in Task \ {m.from} : run'[u] = run[u]
  PROVE  WaitsInOnePlace' /\ WaitsAtStep'
<1> DEFINE t == m.from
<1>1. /\ m \in NamesMessage /\ nsInbox' \in Seq(NamesMessage)
      /\ \A i \in 1 .. Len(nsInbox') :
           /\ nsInbox'[i].from # t
           /\ InPlace(nsInbox'[i].from, [op |-> nsInbox'[i].op, name |-> nsInbox'[i].name])
      /\ Count(nsInbox', MailFrom(t)) = 0 /\ Count(whoIsClients, {t}) = 0
      /\ \A u \in Task \ {t} : Count(nsInbox', MailFrom(u)) = Count(nsInbox, MailFrom(u))
  BY TakenMail
<1>2. t \in Task
  BY <1>1 DEF NamesMessage
<1> HIDE DEF t
<1>3. run'[t] = "ready" /\ \A u \in Task \ {t} : run'[u] = run[u]
  BY DEF t
<1>4. NamesTypes /\ place' = [place EXCEPT ![t] = @ + 1]
  BY DEF NamesInv, t
<1>5. WaitsInOnePlace'
  <2> SUFFICES ASSUME NEW u \in Task PROVE WaitingPlaces(u)' = One(run'[u] = "blocked")
    BY DEF WaitsInOnePlace
  <2>1. /\ Count(nsInbox, MailFrom(u))' = Count(nsInbox', MailFrom(u))
        /\ Count(whoIsClients, {u})' = Count(whoIsClients, {u})
    BY DEF Count, Places, MailFrom
  <2>2. CASE u = t
    BY <1>1, <1>3, <2>1, <2>2 DEF WaitingPlaces, One
  <2>3. CASE u # t
    BY <1>1, <1>3, <2>1, <2>3 DEF WaitingPlaces, NamesInv, WaitsInOnePlace
  <2> QED BY <2>2, <2>3
<1>6. WaitsAtStep'
  <2>1. \A u \in Task \ {t} : place'[u] = place[u] /\ (Step(u))' = Step(u)
    BY <1>2, <1>4, OthersInPlace
  <2>2. \A i \in 1 .. Len(nsInbox') : nsInbox'[i].from \in Task \ {t}
    <3>1. \A i \in 1 .. Len(nsInbox') : nsInbox'[i] \in NamesMessage
      BY <1>1, ElementOfSeq
    <3> QED BY <1>1, <3>1 DEF NamesMessage
  <2>3. \A i \in 1 .. Len(whoIsClients) : whoIsClients[i] \in Task \ {t}
    <3>1. \A i \in 1 .. Len(whoIsClients) : whoIsClients[i] \in Askers
      BY <1>4, ElementOfSeq DEF NamesTypes
    <3>2. \A i \in 1 .. Len(whoIsClients) : whoIsClients[i] \notin {t}
      BY <1>1, <1>4, CountZero DEF NamesTypes
    <3> QED BY <3>1, <3>2 DEF Askers
  <2> QED BY <1>1, <2>1, <2>2, <2>3 DEF NamesInv, WaitsAtStep, InPlace
<1> QED BY <1>5, <1>6

LEMMA RegisterKeeps ==
  ASSUME NamesInv, ~overflow, nsInbox # <<>>, nsInbox' = Tail(nsInbox),
         NEW m, m = Head(nsInbox), ServeRegister(m), UNCHANGED overflow
  PROVE  NamesInv'
<1> DEFINE t == m.from
           n == m.name
<1>1. /\ m \in NamesMessage /\ run[t] = "blocked" /\ InPlace(t, [op |-> m.op, name |-> n])
      /\ nsInbox' \in Seq(NamesMessage) /\ Len(nsInbox') <= SEND_QUEUE_LENGTH
      /\ \A i \in 1 .. Len(nsInbox') :
           /\ nsInbox'[i].from # t
           /\ InPlace(nsInbox'[i].from, [op |-> nsInbox'[i].op, name |-> nsInbox'[i].name])
      /\ Count(nsInbox', MailFrom(t)) = 0 /\ Count(whoIsClients, {t}) = 0
      /\ \A u \in Task \ {t} : Count(nsInbox', MailFrom(u)) = Count(nsInbox, MailFrom(u))
  BY TakenMail
<1>2. t \in Task /\ n \in Name /\ m.op = "register"
  BY <1>1 DEF NamesMessage, ServeRegister
<1>3. /\ nameTable' = [nameTable EXCEPT ![n] = t]
      /\ registrationLeft' = IF Starting THEN registrationLeft - 1 ELSE 0
      /\ Replies(t, t) /\ UNCHANGED <<whoIsClients, whoIsRequests>>
  BY DEF ServeRegister
<1> HIDE DEF t, n
<1>4. place[t] <= Len(Script[t]) /\ Step(t) = Reg(n)
  BY <1>1, <1>2 DEF InPlace, Reg
<1>5. Step(t).op = "register"
  BY <1>4 DEF Reg
<1>6. NamesTypes /\ place' = [place EXCEPT ![t] = @ + 1]
  BY <1>3 DEF NamesInv, Replies
<1>7. /\ run' \in [Task -> {"none", "ready", "blocked"}] /\ place' \in [Task -> Nat \ {0}]
      /\ told' \in [Task -> Task \cup {NoOwner}]
      /\ run'[t] = "ready" /\ \A u \in Task \ {t} : run'[u] = run[u]
      /\ CreatedOnce' /\ ToldTheTruth'
  BY <1>1, <1>2, <1>3, <1>4, <1>5, RepliedKeeps
<1>8. n \in Unknown
  <2> SUFFICES ASSUME n \notin Unknown PROVE FALSE
    OBVIOUS
  <2>1. nameTable[n] \in Task
    BY <1>2, <1>6 DEF NamesTypes, NamesTypeOK, Unknown
  <2>2. HasDone(nameTable[n], Reg(n))
    BY <1>2 DEF NamesInv, NamesKnown
  <2>3. \A u \in Task : ~HasDone(u, Reg(n))
    <3>1. \A r : Step(t) = r => \A u \in Task : ~HasDone(u, r)
      BY <1>2, <1>4, <1>5, <1>6, NotDoneBefore
    <3> QED BY <1>4, <3>1
  <2> QED BY <2>1, <2>2, <2>3
<1>9. /\ Unknown' = Unknown \ {n} /\ nameTable' \in [Name -> Task \cup {NoOwner}]
      /\ nameTable'[n] = t /\ \A k \in Name \ {n} : nameTable'[k] = nameTable[k]
  BY <1>2, <1>3, <1>6, NameServerAssumption DEF NamesTypes, NamesTypeOK, Unknown
<1>10. /\ IsFiniteSet(Unknown) /\ Cardinality(Unknown) \in Nat
       /\ Cardinality(Unknown \ {n}) = Cardinality(Unknown) - 1
       /\ Cardinality(Unknown \ {n}) \in Nat
  <2>1. IsFiniteSet(Unknown)
    BY ScriptsAssumption, FS_Subset DEF Unknown
  <2>2. IsFiniteSet(Unknown \ {n}) /\ Cardinality(Unknown \ {n}) = Cardinality(Unknown) - 1
    BY <1>8, <2>1, FS_RemoveElement
  <2> QED BY <2>1, <2>2, FS_CardinalityType
<1>11. /\ registrationLeft' = Cardinality(Unknown')
       /\ registrationLeft' \in 0 .. Cardinality(Name)
  <2>1. registrationLeft = Cardinality(Unknown) /\ registrationLeft \in 0 .. Cardinality(Name)
    BY <1>6 DEF NamesInv, NamesKnown, NamesTypes, NamesTypeOK
  <2>2. registrationLeft' = registrationLeft - 1
    BY <1>3, <1>10, <2>1 DEF Starting
  <2>3. Cardinality(Name) \in Nat
    BY ScriptsAssumption, FS_CardinalityType
  <2> QED BY <1>9, <1>10, <2>1, <2>2, <2>3
<1>12. NamesTypes'
  BY <1>1, <1>3, <1>6, <1>7, <1>9, <1>11 DEF NamesTypes, NamesTypeOK
<1>13. NamesKnown'
  <2> SUFFICES ASSUME NEW k \in Name \ (Unknown') PROVE HasDone(nameTable[k], Reg(k))'
    BY <1>11 DEF NamesKnown
  <2>1. CASE k = n
    <3>1. \A r : Step(t) = r => HasDone(t, r)'
      BY <1>2, <1>4, <1>6, StepDone
    <3>2. HasDone(t, Reg(n))'
      BY <1>4, <3>1
    <3> QED BY <1>9, <2>1, <3>2 DEF HasDone
  <2>2. CASE k # n
    <3>1. nameTable[k] \in Task /\ HasDone(nameTable[k], Reg(k)) /\ nameTable'[k] = nameTable[k]
      BY <1>6, <1>9, <2>2 DEF NamesInv, NamesKnown, NamesTypes, NamesTypeOK, Unknown
    <3>2. \A u \in Task : HasDone(u, Reg(k)) => HasDone(u, Reg(k))'
      BY <1>2, <1>6, DoneStays
    <3> QED BY <3>1, <3>2 DEF HasDone
  <2> QED BY <2>1, <2>2
<1>14. WaitsInOnePlace' /\ WaitsAtStep'
  BY <1>3, <1>6, <1>7, MailServed DEF t
<1> QED BY <1>7, <1>12, <1>13, <1>14 DEF NamesInv

LEMMA AnswerKeeps ==
  ASSUME NamesInv, ~overflow, nsInbox # <<>>, nsInbox' = Tail(nsInbox),
         NEW m, m = Head(nsInbox), AnswerWhoIs(m), UNCHANGED overflow
  PROVE  NamesInv'
<1> DEFINE t == m.from
           n == m.name
<1>1. /\ m \in NamesMessage /\ run[t] = "blocked" /\ InPlace(t, [op |-> m.op, name |-> n])
      /\ nsInbox' \in Seq(NamesMessage) /\ Len(nsInbox') <= SEND_QUEUE_LENGTH
  BY TakenMail
<1>2. t \in Task /\ n \in Name /\ m.op = "whoIs"
  BY <1>1 DEF NamesMessage, AnswerWhoIs
<1>3. Replies(t, nameTable[n]) /\ ~Starting /\ UNCHANGED nsVars
  BY DEF AnswerWhoIs
<1>4. nameTable[n] \in Task /\ n \in Registers(nameTable[n])
  BY <1>2, <1>3, AllKnown
<1>5. place[t] <= Len(Script[t]) /\ Step(t).name = n
  BY <1>1 DEF InPlace
<1> HIDE DEF n
<1>6. /\ run' \in [Task -> {"none", "ready", "blocked"}] /\ place' \in [Task -> Nat \ {0}]
      /\ told' \in [Task -> Task \cup {NoOwner}]
      /\ run'[t] = "ready" /\ \A u \in Task \ {t} : run'[u] = run[u]
      /\ CreatedOnce' /\ ToldTheTruth'
  BY <1>1, <1>2, <1>3, <1>4, <1>5, RepliedKeeps
<1>7. NamesTypes'
  BY <1>1, <1>3, <1>6 DEF NamesInv, NamesTypes, NamesTypeOK, nsVars
<1>8. NamesKnown'
  BY <1>2, <1>3, KnownStays DEF Replies, nsVars
<1>9. WaitsInOnePlace' /\ WaitsAtStep'
  BY <1>3, <1>6, MailServed DEF Replies, nsVars
<1> QED BY <1>6, <1>7, <1>8, <1>9 DEF NamesInv

\* A question comes too early: there is room for it, for no other is of the same task.
LEMMA QueueKeeps ==
  ASSUME NamesInv, ~overflow, nsInbox # <<>>, nsInbox' = Tail(nsInbox),
         NEW m, m = Head(nsInbox), QueueWhoIs(m), UNCHANGED overflow
  PROVE  NamesInv'
<1> DEFINE t == m.from
           n == m.name
<1>1. /\ m \in NamesMessage /\ run[t] = "blocked" /\ InPlace(t, [op |-> m.op, name |-> n])
      /\ nsInbox' \in Seq(NamesMessage) /\ Len(nsInbox') <= SEND_QUEUE_LENGTH
      /\ \A i \in 1 .. Len(nsInbox') :
           InPlace(nsInbox'[i].from, [op |-> nsInbox'[i].op, name |-> nsInbox'[i].name])
      /\ Count(nsInbox', MailFrom(t)) = 0 /\ Count(whoIsClients, {t}) = 0
      /\ \A u \in Task \ {t} : Count(nsInbox', MailFrom(u)) = Count(nsInbox, MailFrom(u))
  BY TakenMail
<1>2. t \in Task /\ n \in Name /\ m.op = "whoIs"
  BY <1>1 DEF NamesMessage, QueueWhoIs
<1>3. InPlace(t, Ask(n))
  BY <1>1, <1>2 DEF Ask
<1>4. t \in Askers
  <2>1. place[t] \in 1 .. Len(Script[t]) /\ Script[t][place[t]] = Ask(n)
    BY <1>2, <1>3, ScriptLength DEF NamesInv, NamesTypes, InPlace, Step
  <2> QED BY <1>2, <2>1 DEF Askers, Ask
<1>5. /\ whoIsClients' = Pushed(whoIsClients, t) /\ whoIsRequests' = Pushed(whoIsRequests, n)
      /\ UNCHANGED <<nameTable, registrationLeft, taskVars>>
  BY DEF QueueWhoIs
<1> HIDE DEF t, n
<1>6. /\ whoIsClients \in Seq(Askers) /\ whoIsRequests \in Seq(Name) /\ NamesTypes
      /\ Len(whoIsRequests) = Len(whoIsClients) /\ Len(whoIsClients) \in Nat
  BY LenProperties DEF NamesInv, NamesTypes, WaitsAtStep
<1>7. Len(whoIsClients) < WHOIS_LENGTH
  <2>1. \A i \in 1 .. Len(whoIsClients) : whoIsClients[i] \in Askers \ {t}
    <3>1. \A i \in 1 .. Len(whoIsClients) : whoIsClients[i] \notin {t}
      BY <1>1, <1>6, CountZero
    <3> QED BY <1>6, <3>1, ElementOfSeq
  <2>2. whoIsClients \in Seq(Askers \ {t})
    BY <1>6, <2>1, SeqDef
  <2>3. \A u \in Askers \ {t} : Count(whoIsClients, {u}) <= 1
    <3> SUFFICES ASSUME NEW u \in Askers \ {t} PROVE Count(whoIsClients, {u}) <= 1
      OBVIOUS
    <3>1. Count(nsInbox, MailFrom(u)) \in Nat /\ Count(whoIsClients, {u}) \in Nat
      BY <1>6, PlacesFinite DEF NamesTypes
    <3>2. Count(nsInbox, MailFrom(u)) + Count(whoIsClients, {u}) = One(run[u] = "blocked")
      BY DEF NamesInv, WaitsInOnePlace, WaitingPlaces, Askers
    <3> QED BY <3>1, <3>2 DEF One
  <2>4. /\ IsFiniteSet(Askers \ {t}) /\ Cardinality(Askers) \in Nat
        /\ Cardinality(Askers \ {t}) = Cardinality(Askers) - 1
    BY <1>4, ScriptsAssumption, FS_RemoveElement, FS_CardinalityType
  <2>5. Len(whoIsClients) <= Cardinality(Askers \ {t})
    BY <2>2, <2>3, <2>4, CountBound
  <2> QED BY <1>6, <2>4, <2>5, ScriptsAssumption
<1>8. whoIsClients' = Append(whoIsClients, t) /\ whoIsRequests' = Append(whoIsRequests, n)
  BY <1>5, <1>6, <1>7 DEF Pushed
<1>9. /\ whoIsClients' \in Seq(Askers) /\ Len(whoIsClients') = Len(whoIsClients) + 1
      /\ whoIsClients'[Len(whoIsClients) + 1] = t
      /\ \A i \in 1 .. Len(whoIsClients) : whoIsClients'[i] = whoIsClients[i]
      /\ whoIsRequests' \in Seq(Name) /\ Len(whoIsRequests') = Len(whoIsClients) + 1
      /\ whoIsRequests'[Len(whoIsClients) + 1] = n
      /\ \A i \in 1 .. Len(whoIsClients) : whoIsRequests'[i] = whoIsRequests[i]
  BY <1>2, <1>4, <1>6, <1>8, AppendProperties
<1>10. Len(whoIsClients') <= WHOIS_LENGTH
  BY <1>6, <1>7, <1>9, ScriptsAssumption
<1>11. NamesTypes'
  BY <1>1, <1>5, <1>6, <1>9, <1>10 DEF NamesTypes, NamesTypeOK, taskVars
<1>12. CreatedOnce' /\ NamesKnown' /\ ToldTheTruth'
  BY <1>5 DEF NamesInv, CreatedOnce, NamesKnown, ToldTheTruth, Unknown, HasDone, taskVars
<1>13. WaitsInOnePlace'
  <2> SUFFICES ASSUME NEW u \in Task PROVE WaitingPlaces(u)' = One(run[u] = "blocked")
    BY <1>5 DEF WaitsInOnePlace, taskVars
  <2>1. /\ Count(nsInbox, MailFrom(u))' = Count(nsInbox', MailFrom(u))
        /\ Count(whoIsClients, {u})' = Count(whoIsClients', {u})
    BY DEF Count, Places, MailFrom
  <2>2. /\ Count(whoIsClients', {u}) = Count(whoIsClients, {u}) + One(t \in {u})
        /\ Count(whoIsClients, {u}) \in Nat
    BY <1>4, <1>6, <1>8, CountAppend, PlacesFinite
  <2>3. CASE u = t
    BY <1>1, <2>1, <2>2, <2>3 DEF WaitingPlaces, One, t
  <2>4. CASE u # t
    BY <1>1, <2>1, <2>2, <2>4 DEF WaitingPlaces, NamesInv, WaitsInOnePlace, One
  <2> QED BY <2>3, <2>4
<1>14. WaitsAtStep'
  <2>1. \A v, r : InPlace(v, r)' <=> InPlace(v, r)
    BY <1>5 DEF InPlace, Step, taskVars
  <2>2. ASSUME NEW i \in 1 .. Len(whoIsClients')
        PROVE  InPlace(whoIsClients'[i], Ask(whoIsRequests'[i]))
    <3>1. CASE i = Len(whoIsClients) + 1
      BY <1>3, <1>9, <3>1 DEF t, n
    <3>2. CASE i # Len(whoIsClients) + 1
      <4>1. i \in 1 .. Len(whoIsClients)
        BY <1>6, <1>9, <3>2
      <4> QED BY <1>9, <4>1 DEF NamesInv, WaitsAtStep
    <3> QED BY <3>1, <3>2
  <2> QED BY <1>1, <1>5, <1>9, <2>1, <2>2 DEF WaitsAtStep, InPlace, Step, taskVars
<1> QED BY <1>11, <1>12, <1>13, <1>14 DEF NamesInv

LEMMA CatchingKeeps ==
  ASSUME NamesInv, ~overflow, AnswerQueued, UNCHANGED overflow
  PROVE  NamesInv'
<1> SUFFICES ASSUME NEW t, t = Head(whoIsClients), NEW n, n = Head(whoIsRequests)
             PROVE  NamesInv'
  OBVIOUS
<1>1. /\ ~Starting /\ whoIsClients # <<>> /\ Replies(t, nameTable[n])
      /\ whoIsClients' = Tail(whoIsClients) /\ whoIsRequests' = Tail(whoIsRequests)
      /\ UNCHANGED <<nameTable, registrationLeft, nsInbox>>
  BY DEF AnswerQueued, Catching, OtherRequests
<1>2. /\ t \in Task /\ run[t] = "blocked" /\ InPlace(t, Ask(n)) /\ n \in Name
      /\ whoIsClients' \in Seq(Askers) /\ whoIsRequests' \in Seq(Name)
      /\ Len(whoIsRequests') = Len(whoIsClients') /\ Len(whoIsClients') <= WHOIS_LENGTH
      /\ \A i \in 1 .. Len(whoIsClients') :
           whoIsClients'[i] # t /\ InPlace(whoIsClients'[i], Ask(whoIsRequests'[i]))
      /\ \A i \in 1 .. Len(nsInbox) : nsInbox[i].from # t
      /\ Count(whoIsClients', {t}) = 0 /\ Count(nsInbox, MailFrom(t)) = 0
      /\ \A u \in Task \ {t} : Count(whoIsClients', {u}) = Count(whoIsClients, {u})
  BY <1>1, TakenQuestion
<1>3. nameTable[n] \in Task /\ n \in Registers(nameTable[n])
  BY <1>1, <1>2, AllKnown
<1>4. place[t] <= Len(Script[t]) /\ Step(t).name = n
  BY <1>2 DEF InPlace, Ask
<1>5. /\ run' \in [Task -> {"none", "ready", "blocked"}] /\ place' \in [Task -> Nat \ {0}]
      /\ told' \in [Task -> Task \cup {NoOwner}]
      /\ run'[t] = "ready" /\ \A u \in Task \ {t} : run'[u] = run[u]
      /\ CreatedOnce' /\ ToldTheTruth'
  BY <1>1, <1>2, <1>3, <1>4, RepliedKeeps
<1>6. NamesTypes /\ place' = [place EXCEPT ![t] = @ + 1]
  BY <1>1 DEF NamesInv, Replies
<1>7. NamesTypes'
  BY <1>1, <1>2, <1>5, <1>6 DEF NamesTypes, NamesTypeOK
<1>8. NamesKnown'
  BY <1>1, <1>2, <1>6, KnownStays
<1>9. WaitsInOnePlace'
  <2> SUFFICES ASSUME NEW u \in Task PROVE WaitingPlaces(u)' = One(run'[u] = "blocked")
    BY DEF WaitsInOnePlace
  <2>1. /\ Count(nsInbox, MailFrom(u))' = Count(nsInbox, MailFrom(u))
        /\ Count(whoIsClients, {u})' = Count(whoIsClients', {u})
    BY <1>1 DEF Count, Places, MailFrom
  <2>2. CASE u = t
    BY <1>2, <1>5, <2>1, <2>2 DEF WaitingPlaces, One
  <2>3. CASE u # t
    BY <1>2, <1>5, <2>1, <2>3 DEF WaitingPlaces, NamesInv, WaitsInOnePlace
  <2> QED BY <2>2, <2>3
<1>10. WaitsAtStep'
  <2>1. \A u \in Task \ {t} : place'[u] = place[u] /\ (Step(u))' = Step(u)
    BY <1>2, <1>6, OthersInPlace
  <2>2. \A i \in 1 .. Len(nsInbox) : nsInbox[i].from \in Task \ {t}
    <3>1. \A i \in 1 .. Len(nsInbox) : nsInbox[i] \in NamesMessage
      BY <1>6, ElementOfSeq DEF NamesTypes
    <3> QED BY <1>2, <3>1 DEF NamesMessage
  <2>3. \A i \in 1 .. Len(whoIsClients') : whoIsClients'[i] \in Task \ {t}
    <3>1. \A i \in 1 .. Len(whoIsClients') : whoIsClients'[i] \in Askers
      BY <1>2, ElementOfSeq
    <3> QED BY <1>2, <3>1 DEF Askers
  <2> QED BY <1>1, <1>2, <2>1, <2>2, <2>3 DEF NamesInv, WaitsAtStep, InPlace
<1> QED BY <1>5, <1>7, <1>8, <1>9, <1>10 DEF NamesInv

LEMMA NamesInvNext == NamesInv /\ [NamesNext]_NamesVars => NamesInv'
<1> SUFFICES ASSUME NamesInv, [NamesNext]_NamesVars PROVE NamesInv'
  OBVIOUS
<1>1. CASE UNCHANGED NamesVars
  <2>1. NamesTypes' /\ CreatedOnce' /\ NamesKnown' /\ ToldTheTruth'
    BY <1>1 DEF NamesVars, nsVars, taskVars, NamesInv, NamesTypes, NamesTypeOK, CreatedOnce,
                NamesKnown, Unknown, HasDone, ToldTheTruth
  <2>2. WaitsInOnePlace' /\ WaitsAtStep'
    BY <1>1 DEF NamesVars, nsVars, taskVars, NamesInv, WaitsInOnePlace, WaitingPlaces, Count,
         Places,
                WaitsAtStep, InPlace, Step
  <2> QED BY <2>1, <2>2 DEF NamesInv
<1>2. ASSUME NEW t \in Task \ {Server}, Chosen(t), Creates(t) \/ SendsToServer(t)
      PROVE  NamesInv'
  BY <1>2, CreatesKeeps, SendsKeep
<1>3. CASE Chosen(Server) /\ (AnswerQueued \/ Receives) /\ UNCHANGED overflow
  <2>1. ~overflow
    BY <1>3 DEF Chosen
  <2>2. CASE AnswerQueued
    BY <1>3, <2>1, <2>2, CatchingKeeps
  <2>3. CASE Receives
    <3>1. PICK m : m = Head(nsInbox)
      OBVIOUS
    <3>2. /\ nsInbox # <<>> /\ nsInbox' = Tail(nsInbox)
          /\ ServeRegister(m) \/ QueueWhoIs(m) \/ AnswerWhoIs(m)
      BY <2>3, <3>1 DEF Receives
    <3> QED BY <1>3, <2>1, <3>1, <3>2, RegisterKeeps, QueueKeeps, AnswerKeeps
  <2> QED BY <1>3, <2>2, <2>3
<1> QED BY <1>1, <1>2, <1>3 DEF NamesNext, Quiet

\* Types are kept by the name server and its clients (NameServer.c:24-85).
THEOREM NamesTypeCorrect == NamesSpec => []NamesTypeOK
BY NamesInvInit, NamesInvNext, NamesInvExact, PTL DEF NamesSpec

\* While the system starts each task waits in one place, the two queues keep their pairs
\* together, and who asks for a name is told the task that registers it, whatever the order
\* in which the kernel runs the tasks (NameServer.c:24-85, nameService.c:5-26).
THEOREM NamesStayExact == NamesSpec => []NamesExact
BY NamesInvInit, NamesInvNext, NamesInvExact, PTL DEF NamesSpec

-----------------------------------------------------------------------------
(* Terminal driver: the ring of characters.                                *)

\* Round the ring.
At(n) == n % OUTPUT_LENGTH

LEMMA AtWraps ==
  ASSUME NEW n \in -OUTPUT_LENGTH .. 2 * OUTPUT_LENGTH - 1
  PROVE  /\ At(n) = IF n < 0 THEN n + OUTPUT_LENGTH
                    ELSE IF n < OUTPUT_LENGTH THEN n ELSE n - OUTPUT_LENGTH
         /\ At(n) \in Slot
<1>1. OUTPUT_LENGTH \in Nat \ {0}
  BY TerminalAssumption
<1> QED BY <1>1, Wrapped DEF At, Slot

Rings(V) == [Slot -> V]

\* The n characters of ring d from h on.
Ring(d, h, n) == [i \in 1 .. n |-> d[At(h + i - 1)]]

\* n slots further, and a ring that is changed in one slot.
Further(t, h, n)  == t = At(h + n)
ButFor(e, d, h) == \A k \in Slot \ {h} : e[k] = d[k]

\* Ring d with s written from t on, WithText of any ring.
Written(d, t, s) ==
  [k \in Slot |->
     IF \E i \in 1 .. Len(s) : At(t + i - 1) = k
     THEN s[At(k - t) + 1]
     ELSE d[k]]

LEMMA RingIsSeq ==
  ASSUME NEW V, NEW d \in Rings(V), NEW h \in Slot, NEW n \in 0 .. OUTPUT_LENGTH
  PROVE  /\ Ring(d, h, n) \in Seq(V) /\ Len(Ring(d, h, n)) = n
         /\ \A i \in 1 .. n : /\ At(h + i - 1) \in Slot
                              /\ Ring(d, h, n)[i] = d[At(h + i - 1)]
<1>1. OUTPUT_LENGTH \in Nat \ {0}
  BY TerminalAssumption
<1>2. ASSUME NEW i \in 1 .. n PROVE At(h + i - 1) \in Slot
  <2>1. h + i - 1 \in -OUTPUT_LENGTH .. 2 * OUTPUT_LENGTH - 1
    BY <1>1 DEF Slot
  <2> QED BY <1>1, <2>1, AtWraps DEF Slot
<1>3. Ring(d, h, n) \in [1 .. n -> V]
  BY <1>2 DEF Ring, Rings
<1>4. n \in Nat
  OBVIOUS
<1> QED BY <1>2, <1>3, <1>4, SeqDef, LenProperties DEF Ring

LEMMA RingTail ==
  ASSUME NEW V, NEW d \in Rings(V), NEW h \in Slot, NEW n \in 1 .. OUTPUT_LENGTH - 1,
         NEW g, Further(g, h, 1), NEW e \in Rings(V), ButFor(e, d, h)
  PROVE  /\ g \in Slot
         /\ Ring(d, h, n) # <<>> /\ Head(Ring(d, h, n)) = d[h]
         /\ Ring(e, g, n - 1) = Tail(Ring(d, h, n))
<1> DEFINE N == OUTPUT_LENGTH
           l == n - 1
           r == Ring(d, h, n)
           q == Ring(e, g, l)
<1>1. N \in Nat \ {0} /\ h \in 0 .. N - 1 /\ n \in 1 .. N - 1 /\ e \in Rings(V)
      /\ l \in 0 .. OUTPUT_LENGTH /\ n \in 0 .. OUTPUT_LENGTH /\ l = n - 1
  BY TerminalAssumption DEF Slot, Rings
<1>2. g \in Slot /\ g \in 0 .. N - 1 /\ g = IF h + 1 < N THEN h + 1 ELSE h + 1 - N
  <2>1. h + 1 \in -N .. 2 * N - 1
    BY <1>1
  <2> QED BY <1>1, <2>1, AtWraps DEF Slot, Further
<1> HIDE DEF l
<1>3. /\ r \in Seq(V) /\ Len(r) = n /\ \A i \in 1 .. n : r[i] = d[At(h + i - 1)]
  BY <1>1, RingIsSeq
<1>4. /\ q \in Seq(V) /\ Len(q) = l /\ \A i \in 1 .. l : q[i] = e[At(g + i - 1)]
  <2>1. g \in Slot /\ l \in 0 .. OUTPUT_LENGTH
    BY <1>1, <1>2
  <2> QED BY <2>1, RingIsSeq
<1> HIDE DEF r, q
<1>5. r # <<>> /\ Head(r) = d[h]
  <2>1. At(h + 1 - 1) = h
    <3>1. h + 1 - 1 \in -N .. 2 * N - 1 /\ h + 1 - 1 = h
      BY <1>1
    <3> QED BY <1>1, <3>1, AtWraps
  <2>2. r[1] = d[h]
    BY <1>1, <1>3, <2>1
  <2> QED BY <1>1, <1>3, <2>2, HeadTailProperties, LenProperties
<1>6. Tail(r) \in Seq(V) /\ Len(Tail(r)) = l /\ \A i \in 1 .. l : Tail(r)[i] = r[i + 1]
  BY <1>1, <1>3, <1>5, HeadTailProperties
<1>7. ASSUME NEW i \in 1 .. l PROVE q[i] = Tail(r)[i]
  <2> DEFINE k == At(g + i - 1)
             m == h + (i + 1) - 1
  <2>0. i \in 1 .. N - 2 /\ i + 1 \in 1 .. n
    BY <1>1
  <2>1. k \in Slot /\ k = IF g + i - 1 < N THEN g + i - 1 ELSE g + i - 1 - N
    <3> DEFINE a == g + i - 1
    <3>1. a \in -N .. 2 * N - 1 /\ a >= 0
      BY <1>1, <1>2, <2>0
    <3> HIDE DEF a
    <3>2. At(a) \in Slot /\ At(a) = IF a < N THEN a ELSE a - N
      BY <1>1, <3>1, AtWraps DEF Slot
    <3> QED BY <1>1, <1>2, <2>0, <3>2 DEF a
  <2>2. m \in -N .. 2 * N - 1 /\ m = h + i /\ m >= 0
    BY <1>1, <2>0
  <2> HIDE DEF k, m
  <2>3. At(m) = IF h + i < N THEN h + i ELSE h + i - N
    BY <1>1, <2>2, AtWraps
  <2>4. k = At(m) /\ k # h
    BY <1>1, <1>2, <2>0, <2>1, <2>3
  <2>5. q[i] = d[k]
    BY <1>4, <2>1, <2>4 DEF k, ButFor
  <2>6. r[i + 1] = d[k]
    BY <1>3, <2>0, <2>4 DEF m
  <2> QED BY <1>6, <2>5, <2>6
<1>8. q = Tail(r)
  BY <1>4, <1>6, <1>7, SeqEqual
<1> QED BY <1>2, <1>5, <1>8 DEF q, r, l

LEMMA RingWritten ==
  ASSUME NEW V, NEW d \in Rings(V), NEW h \in Slot, NEW n \in Nat, NEW s \in Seq(V),
         n + Len(s) < OUTPUT_LENGTH, NEW t, Further(t, h, n)
  PROVE  /\ Written(d, t, s) \in Rings(V) /\ t \in Slot
         /\ At(t + Len(s)) = At(h + n + Len(s))
         /\ Ring(Written(d, t, s), h, n + Len(s)) = Ring(d, h, n) \o s
<1> DEFINE N == OUTPUT_LENGTH
           l == Len(s)
           c == n + l
           e == Written(d, t, s)
           r == Ring(d, h, n)
           q == Ring(e, h, c)
<1>1. /\ N \in Nat \ {0} /\ h \in 0 .. N - 1 /\ n \in 0 .. N - 1 /\ l \in 0 .. N - 1 /\ n + l < N
      /\ c = n + l /\ c \in 0 .. OUTPUT_LENGTH /\ n \in 0 .. OUTPUT_LENGTH
  BY TerminalAssumption, LenProperties DEF Slot
<1>2. t \in 0 .. N - 1 /\ t = IF h + n < N THEN h + n ELSE h + n - N
  <2>1. h + n \in -N .. 2 * N - 1 /\ h + n >= 0
    BY <1>1
  <2> QED BY <1>1, <2>1, AtWraps DEF Further
<1>3. At(t + l) = At(h + n + l)
  <2>1. h + n + l \in -N .. 2 * N - 1 /\ h + n + l >= 0 /\ t + l \in -N .. 2 * N - 1 /\ t + l >= 0
    BY <1>1, <1>2
  <2>2. At(h + n + l) = IF h + n + l < N THEN h + n + l ELSE h + n + l - N
    BY <1>1, <2>1, AtWraps
  <2>3. At(t + l) = IF t + l < N THEN t + l ELSE t + l - N
    <3> DEFINE a == t + l
    <3>1. a \in -N .. 2 * N - 1 /\ a >= 0
      BY <2>1
    <3> HIDE DEF a
    <3>2. At(a) = IF a < N THEN a ELSE a - N
      BY <1>1, <3>1, AtWraps
    <3> QED BY <1>1, <1>2, <3>2 DEF a
  <2> QED BY <1>1, <1>2, <2>2, <2>3
<1>4. ASSUME NEW i \in 1 .. l
      PROVE  /\ At(t + i - 1) = IF t + i - 1 < N THEN t + i - 1 ELSE t + i - 1 - N
             /\ At(t + i - 1) \in Slot
             /\ At(At(t + i - 1) - t) + 1 = i
  <2> DEFINE k == At(t + i - 1)
             a == k - t
  <2>0. i \in 1 .. N - 1 /\ i \in Int /\ N \in Int /\ t \in Int
    BY <1>1, <1>2
  <2>1. t + i - 1 \in -N .. 2 * N - 1 /\ t + i - 1 >= 0
    BY <1>1, <1>2, <2>0
  <2>2. /\ k = IF t + i - 1 < N THEN t + i - 1 ELSE t + i - 1 - N
        /\ k \in Slot
    <3> DEFINE b == t + i - 1
    <3>1. b \in -N .. 2 * N - 1 /\ b >= 0
      BY <2>1
    <3> HIDE DEF b
    <3>2. At(b) \in Slot /\ At(b) = IF b < N THEN b ELSE b - N
      BY <1>1, <3>1, AtWraps
    <3> QED BY <1>1, <1>2, <2>0, <3>2 DEF b
  <2> HIDE DEF k
  <2>3. a = IF t + i - 1 < N THEN i - 1 ELSE i - 1 - N
    BY <1>1, <1>2, <2>0, <2>2
  <2>4. a \in -N .. 2 * N - 1
    BY <1>1, <2>0, <2>3
  <2> HIDE DEF a
  <2>5. At(a) = IF a < 0 THEN a + N ELSE IF a < N THEN a ELSE a - N
    BY <2>4, AtWraps
  <2>6. At(a) = i - 1
    BY <1>1, <1>2, <2>0, <2>3, <2>5
  <2>7. At(a) + 1 = i
    BY <2>0, <2>6
  <2> QED BY <2>2, <2>7 DEF k, a
<1>5. ASSUME NEW i \in 1 .. l PROVE e[At(t + i - 1)] = s[i]
  BY <1>4 DEF Written
<1>6. e \in Rings(V)
  <2> SUFFICES ASSUME NEW k \in Slot PROVE e[k] \in V
    BY DEF Written, Rings
  <2>1. CASE \E i \in 1 .. l : At(t + i - 1) = k
    BY <1>5, <2>1, ElementOfSeq
  <2>2. CASE ~\E i \in 1 .. l : At(t + i - 1) = k
    BY <2>2 DEF Written, Rings
  <2> QED BY <2>1, <2>2
<1>7. \A k \in Slot : (\A i \in 1 .. l : At(t + i - 1) # k) => e[k] = d[k]
  BY DEF Written
<1> HIDE DEF e, c
<1>8. r \in Seq(V) /\ Len(r) = n /\ \A i \in 1 .. n : r[i] = d[At(h + i - 1)]
  BY <1>1, RingIsSeq
<1>9. q \in Seq(V) /\ Len(q) = c /\ \A i \in 1 .. c : q[i] = e[At(h + i - 1)]
  BY <1>1, <1>6, RingIsSeq
<1> HIDE DEF r, q
<1>10. /\ r \o s \in Seq(V) /\ Len(r \o s) = n + l
       /\ \A i \in 1 .. n + l : (r \o s)[i] = IF i <= n THEN r[i] ELSE s[i - n]
  BY <1>8, ConcatProperties
<1>11. ASSUME NEW i \in 1 .. c PROVE q[i] = (r \o s)[i]
  <2> DEFINE k == At(h + i - 1)
             j == i - n
  <2>0. i \in 1 .. N - 1 /\ i <= n + l
    BY <1>1
  <2>1. k \in Slot /\ k = IF h + i - 1 < N THEN h + i - 1 ELSE h + i - 1 - N
    <3>1. h + i - 1 \in -N .. 2 * N - 1 /\ h + i - 1 >= 0
      BY <1>1, <2>0
    <3> QED BY <1>1, <3>1, AtWraps DEF Slot
  <2>2. q[i] = e[k] /\ (r \o s)[i] = IF i <= n THEN r[i] ELSE s[j]
    BY <1>1, <1>9, <1>10
  <2>3. CASE i <= n
    <3>1. r[i] = d[k]
      <4>1. i \in 1 .. n
        BY <1>1, <2>0, <2>3
      <4> QED BY <1>8, <4>1
    <3> HIDE DEF k
    <3>2. ASSUME NEW f \in 1 .. l PROVE At(t + f - 1) # k
      <4>1. f \in 1 .. N - 1 /\ f <= l /\ At(t + f - 1) = IF t + f - 1 < N THEN t + f - 1 ELSE t + f - 1 - N
        BY <1>1, <1>4
      <4>2. t + f - 1 = IF h + n < N THEN h + n + f - 1 ELSE h + n + f - 1 - N
        BY <1>1, <1>2, <4>1
      <4>3. CASE h + n < N
        BY <1>1, <1>2, <2>0, <2>1, <2>3, <4>1, <4>2, <4>3
      <4>4. CASE ~(h + n < N)
        BY <1>1, <1>2, <2>0, <2>1, <2>3, <4>1, <4>2, <4>4
      <4> QED BY <4>3, <4>4
    <3> QED BY <1>7, <2>1, <2>2, <2>3, <3>1, <3>2
  <2>4. CASE i > n
    <3>1. j \in 1 .. l /\ i = n + j
      BY <1>1, <2>0, <2>4
    <3> HIDE DEF k, j
    <3>2. At(t + j - 1) = IF t + j - 1 < N THEN t + j - 1 ELSE t + j - 1 - N
      BY <1>4, <3>1
    <3>3. At(t + j - 1) = k
      BY <1>1, <1>2, <2>0, <2>1, <3>1, <3>2
    <3>4. e[k] = s[j]
      BY <1>5, <3>1, <3>3
    <3> QED BY <1>1, <2>0, <2>2, <2>4, <3>4
  <2>5. i <= n \/ i > n
    BY <1>1, <2>0
  <2> QED BY <2>3, <2>4, <2>5
<1>12. q = r \o s
  BY <1>1, <1>9, <1>10, <1>11, SeqEqual
<1> QED BY <1>2, <1>3, <1>6, <1>12 DEF q, r, e, c, Slot

-----------------------------------------------------------------------------
(* Terminal driver.  Each notifier is in one place: in a message, marked   *)
(* ready or about its own work; a key is with its notifier until the       *)
(* driver has taken it; and the counter of the ring is the distance from   *)
(* its head to its tail, or near it once an empty string went astray.      *)

TxMail   == [type |-> "tx"]
TextMail == UNION {{[type |-> "putstr", from |-> p, body |-> Text(p, n)] : n \in Lengths[p]} :
                     p \in Printer}
GetCMail == [type : {"getc"}, from : Reader]
KeyMail  == [type : {"rcv"}, body : Key]
TermMessage == TextMail \cup GetCMail \cup KeyMail \cup {TxMail}

Calls(c) == {m \in TextMail \cup GetCMail : m.from = c}

AsksToWrite == Count(termInbox, {TxMail})
KeysSent    == Count(termInbox, KeyMail)
CallsOf(c)  == Count(termInbox, Calls(c))
KeysMatch   == \A i \in 1 .. Len(termInbox) :
                 termInbox[i] \in KeyMail => inKey = <<termInbox[i].body>>

TerminalTypes ==
  /\ TerminalTypeOK
  /\ termInbox \in Seq(TermMessage)
  /\ qInput \in Seq(Key)
  /\ inKey \in {<<>>} \cup {<<k>> : k \in Key}
  /\ outChar \in {<<>>} \cup {<<x>> : x \in Char \cup {NoChar}}
  /\ isOutputNotifierReady \in BOOLEAN /\ termFailed \in BOOLEAN /\ strayed \in BOOLEAN

Mark == Char \cup {NoChar}

\* Equal but for rounds of the ring.
Near(a, b) == \E k \in Int : a = b + OUTPUT_LENGTH * k

RingCounted ==
  /\ ~strayed => outputCount = At(outputTail - outputHead)
  /\ Near(outputCount, outputTail - outputHead)
  /\ isOutputNotifierReady => outputHead = outputTail

OutNotifierOnce ==
  /\ AsksToWrite + One(isOutputNotifierReady) = One(termOut = "asked")
  /\ outChar # <<>> <=> termOut \in {"write", "writing"}

InNotifierOnce ==
  /\ KeysSent = One(termIn = "sent")
  /\ inKey # <<>> <=> termIn \in {"send", "sent"}
  /\ KeysMatch

CallersOnce ==
  ~termFailed =>
    \A c \in Printer \cup Reader : CallsOf(c) + One(getcTask = c) = One(caller[c] = "sent")

TerminalInv ==
  /\ TerminalTypes /\ RingCounted /\ OutNotifierOnce /\ InNotifierOnce /\ CallersOnce
  /\ getcTask # NoTask => qInput = <<>>

\* The messages are of four kinds.
LEMMA MailKinds ==
  ASSUME NEW m \in TermMessage
  PROVE  /\ m.type \in {"putstr", "getc", "rcv", "tx"}
         /\ m.type = "putstr" => /\ m.from \in Printer /\ m \in TextMail
                                 /\ \E n \in Lengths[m.from] : m.body = Text(m.from, n)
         /\ m.type = "getc" => m.from \in Reader /\ m \in GetCMail
         /\ m.type = "rcv" <=> m \in KeyMail
         /\ m.type = "rcv" => m.body \in Key
         /\ m.type = "tx" <=> m = TxMail
         /\ m.type \in {"rcv", "tx"} => \A c : m \notin Calls(c)
         /\ m.type \in {"putstr", "getc"} => \A c : m \in Calls(c) <=> c = m.from
<1>1. CASE m \in TextMail
  BY <1>1 DEF TextMail, KeyMail, TxMail, GetCMail, Calls
<1>2. CASE m \in GetCMail
  BY <1>2 DEF TextMail, KeyMail, TxMail, GetCMail, Calls
<1>3. CASE m \in KeyMail
  BY <1>3 DEF TextMail, KeyMail, TxMail, GetCMail, Calls
<1>4. CASE m = TxMail
  <2>1. m.type = "tx"
    BY <1>4 DEF TxMail
  <2>2. /\ \A k \in TextMail : k.type = "putstr"
        /\ \A k \in GetCMail : k.type = "getc"
        /\ \A k \in KeyMail : k.type = "rcv"
    BY DEF TextMail, GetCMail, KeyMail
  <2>3. m \notin TextMail /\ m \notin GetCMail /\ m \notin KeyMail
    BY <2>1, <2>2
  <2>4. \A c : \A k \in Calls(c) : k.type \in {"putstr", "getc"}
    BY <2>2 DEF Calls
  <2> QED BY <1>4, <2>1, <2>3, <2>4
<1> QED BY <1>1, <1>2, <1>3, <1>4 DEF TermMessage

LEMMA CountsAreNat ==
  ASSUME termInbox \in Seq(TermMessage)
  PROVE  AsksToWrite \in Nat /\ KeysSent \in Nat /\ \A c : CallsOf(c) \in Nat
BY PlacesFinite DEF AsksToWrite, KeysSent, CallsOf

LEMMA MailSent ==
  ASSUME NEW m \in TermMessage, termInbox \in Seq(TermMessage), termInbox' = Append(termInbox, m)
  PROVE  /\ termInbox' \in Seq(TermMessage)
         /\ AsksToWrite' = AsksToWrite + One(m.type = "tx")
         /\ KeysSent' = KeysSent + One(m.type = "rcv")
         /\ \A c : CallsOf(c)' = CallsOf(c) + One(m.type \in {"putstr", "getc"} /\ m.from = c)
         /\ (KeysMatch /\ inKey' = inKey /\ (m.type = "rcv" => inKey = <<m.body>>)) => KeysMatch'
<1>1. termInbox' \in Seq(TermMessage)
  BY AppendProperties
<1>2. /\ AsksToWrite' = AsksToWrite + One(m \in {TxMail})
      /\ KeysSent' = KeysSent + One(m \in KeyMail)
      /\ \A c : CallsOf(c)' = CallsOf(c) + One(m \in Calls(c))
  BY CountAppend DEF AsksToWrite, KeysSent, CallsOf
<1>3. ASSUME KeysMatch, inKey' = inKey, m.type = "rcv" => inKey = <<m.body>> PROVE KeysMatch'
  <2> SUFFICES ASSUME NEW i \in 1 .. Len(termInbox'), termInbox'[i] \in KeyMail
               PROVE  inKey' = <<termInbox'[i].body>>
    BY DEF KeysMatch
  <2>1. /\ Len(termInbox) \in Nat /\ Len(termInbox') = Len(termInbox) + 1
        /\ \A j \in 1 .. Len(termInbox) : termInbox'[j] = termInbox[j]
        /\ termInbox'[Len(termInbox) + 1] = m
    BY AppendProperties, LenProperties
  <2>2. CASE i \in 1 .. Len(termInbox)
    BY <1>3, <2>1, <2>2 DEF KeysMatch
  <2>3. CASE i = Len(termInbox) + 1
    BY <1>3, <2>1, <2>3, MailKinds
  <2> QED BY <2>1, <2>2, <2>3
<1>4. /\ m.type = "tx" <=> m \in {TxMail}
      /\ m.type = "rcv" <=> m \in KeyMail
      /\ \A c : (m.type \in {"putstr", "getc"} /\ m.from = c) <=> m \in Calls(c)
  BY MailKinds
<1> QED BY <1>1, <1>2, <1>3, <1>4 DEF One

LEMMA MailReceived ==
  ASSUME NEW m, termInbox \in Seq(TermMessage), termInbox # <<>>, m = Head(termInbox),
         termInbox' = Tail(termInbox)
  PROVE  /\ m \in TermMessage /\ termInbox' \in Seq(TermMessage)
         /\ AsksToWrite' = AsksToWrite - One(m.type = "tx")
         /\ KeysSent' = KeysSent - One(m.type = "rcv")
         /\ \A c : CallsOf(c)' = CallsOf(c) - One(m.type \in {"putstr", "getc"} /\ m.from = c)
         /\ (KeysMatch /\ inKey' = inKey) => KeysMatch'
         /\ (KeysMatch /\ m.type = "rcv") => inKey = <<m.body>>
<1>1. m \in TermMessage /\ termInbox' \in Seq(TermMessage)
  BY HeadTailProperties
<1>2. /\ AsksToWrite' = AsksToWrite - One(m \in {TxMail})
      /\ KeysSent' = KeysSent - One(m \in KeyMail)
      /\ \A c : CallsOf(c)' = CallsOf(c) - One(m \in Calls(c))
  BY CountTail DEF AsksToWrite, KeysSent, CallsOf
<1>3. /\ Len(termInbox) \in Nat \ {0} /\ Len(termInbox') = Len(termInbox) - 1
      /\ \A j \in 1 .. Len(termInbox) - 1 : termInbox'[j] = termInbox[j + 1]
      /\ m = termInbox[1]
  BY HeadTailProperties, LenProperties
<1>4. ASSUME KeysMatch, inKey' = inKey PROVE KeysMatch'
  BY <1>3, <1>4 DEF KeysMatch
<1>5. ASSUME KeysMatch, m.type = "rcv" PROVE inKey = <<m.body>>
  <2>1. m \in KeyMail
    BY <1>1, <1>5, MailKinds
  <2> QED BY <1>3, <1>5, <2>1 DEF KeysMatch
<1>6. /\ m.type = "tx" <=> m \in {TxMail}
      /\ m.type = "rcv" <=> m \in KeyMail
      /\ \A c : (m.type \in {"putstr", "getc"} /\ m.from = c) <=> m \in Calls(c)
  BY <1>1, MailKinds
<1> QED BY <1>1, <1>2, <1>4, <1>5, <1>6 DEF One

\* Keys that are not sent need not match.
LEMMA NoKeyMail ==
  ASSUME termInbox \in Seq(TermMessage), KeysSent = 0
  PROVE  KeysMatch
BY CountZero DEF KeysSent, KeysMatch

LEMMA TerminalInvInit == TerminalInit => TerminalInv
<1> SUFFICES ASSUME TerminalInit PROVE TerminalInv
  OBVIOUS
<1>0. termInbox = <<>> /\ qInput = <<>> /\ Len(qInput) = 0 /\ Len(termInbox) = 0
  BY DEF TerminalInit
<1>1. termInbox \in Seq(TermMessage) /\ qInput \in Seq(Key)
  BY <1>0, EmptySeq
<1>2. 0 \in Slot /\ At(0 - 0) = 0 /\ 0 \in 0 .. COUNT_RANGE - 1
  <2>1. 0 - 0 \in -OUTPUT_LENGTH .. 2 * OUTPUT_LENGTH - 1 /\ 0 - 0 = 0
    BY TerminalAssumption
  <2> QED BY <2>1, AtWraps, TerminalAssumption DEF Slot
<1>3. Len(qInput) <= INPUT_LENGTH
  BY <1>0, TerminalAssumption
<1>4. outputBuffer \in [Slot -> Char \cup {NoChar}]
  BY DEF TerminalInit
<1>5. caller \in [Printer \cup Reader -> {"run", "sent"}]
  BY DEF TerminalInit
<1>6. TerminalTypes
  BY <1>1, <1>2, <1>3, <1>4, <1>5 DEF TerminalInit, TerminalTypes, TerminalTypeOK
<1>7. AsksToWrite = 0 /\ KeysSent = 0 /\ (\A c : CallsOf(c) = 0) /\ KeysMatch
  BY <1>0, <1>1, CountEmpty, NoKeyMail DEF AsksToWrite, KeysSent, CallsOf
<1>8. RingCounted
  <2>1. 0 = 0 - 0 + OUTPUT_LENGTH * 0 /\ 0 \in Int
    BY TerminalAssumption
  <2> QED BY <1>2, <2>1 DEF TerminalInit, RingCounted, Near
<1>9. OutNotifierOnce /\ InNotifierOnce /\ CallersOnce
  BY <1>7, TerminalAssumption
  DEF TerminalInit, OutNotifierOnce, InNotifierOnce, CallersOnce, One
<1> QED BY <1>0, <1>6, <1>8, <1>9 DEF TerminalInv

\* Distances round the ring: the distance from h to t, and the distances beyond t.
Away(c, t, h)  == c = At(t - h)
Grows(c, t, h) == At(h + c) = t /\ \A n \in Nat : c + n < OUTPUT_LENGTH =>
                                       At(t + n) \in Slot /\ At(At(t + n) - h) = c + n

LEMMA Distance ==
  ASSUME NEW h \in Slot, NEW t \in Slot, NEW c, Away(c, t, h)
  PROVE  /\ c \in 0 .. OUTPUT_LENGTH - 1 /\ (c = 0 <=> h = t) /\ Grows(c, t, h)
         /\ c > 0 => At(h + 1) \in Slot /\ At(t - At(h + 1)) = c - 1
<1> DEFINE N == OUTPUT_LENGTH
<1>1. N \in Nat \ {0} /\ h \in 0 .. N - 1 /\ t \in 0 .. N - 1 /\ Slot = 0 .. N - 1
  BY TerminalAssumption DEF Slot
<1> HIDE DEF N
<1>2. ASSUME NEW n \in Int, n >= -N, n < 2 * N
      PROVE  /\ At(n) = IF n < 0 THEN n + N ELSE IF n < N THEN n ELSE n - N
             /\ At(n) \in Slot
  BY <1>1, <1>2, AtWraps DEF N
<1>3. c = IF t < h THEN t - h + N ELSE t - h
  <2> DEFINE a == t - h
  <2>1. a \in Int /\ a >= -N /\ a < N /\ a = t - h
    BY <1>1
  <2>2. c = At(a)
    BY DEF Away
  <2> HIDE DEF a
  <2>3. At(a) = IF a < 0 THEN a + N ELSE a
    BY <1>1, <1>2, <2>1
  <2> QED BY <1>1, <2>1, <2>2, <2>3
<1>4. c \in 0 .. N - 1 /\ (c = 0 <=> h = t)
  BY <1>1, <1>3
<1>5. At(h + c) = t
  <2> DEFINE a == h + c
  <2>1. a \in Int /\ a >= 0 /\ a < 2 * N /\ a = h + c
    BY <1>1, <1>4
  <2> HIDE DEF a
  <2>2. At(a) = IF a < N THEN a ELSE a - N
    BY <1>1, <1>2, <2>1
  <2>3. At(a) = t
    BY <1>1, <1>3, <2>1, <2>2
  <2> QED BY <2>3 DEF a
<1>6. ASSUME NEW n \in Nat, c + n < N PROVE At(t + n) \in Slot /\ At(At(t + n) - h) = c + n
  <2> DEFINE u == At(t + n)
             a == u - h
  <2>1. u \in Slot /\ u = IF t + n < N THEN t + n ELSE t + n - N
    <3>1. t + n \in Int /\ t + n >= 0 /\ t + n < 2 * N
      BY <1>1, <1>4, <1>6
    <3> QED BY <1>1, <1>2, <3>1
  <2> HIDE DEF u
  <2>2. a \in Int /\ a >= -N /\ a < N /\ a = u - h
    BY <1>1, <2>1
  <2> HIDE DEF a
  <2>3. At(a) = IF a < 0 THEN a + N ELSE a
    BY <1>1, <1>2, <2>2
  <2>4. At(a) = c + n
    BY <1>1, <1>3, <1>6, <2>1, <2>2, <2>3
  <2> QED BY <2>1, <2>4 DEF u, a
<1>7. ASSUME c > 0 PROVE At(h + 1) \in Slot /\ At(t - At(h + 1)) = c - 1
  <2> DEFINE g == At(h + 1)
             a == t - g
  <2>1. g \in Slot /\ g = IF h + 1 < N THEN h + 1 ELSE h + 1 - N
    <3>1. h + 1 \in Int /\ h + 1 >= 0 /\ h + 1 < 2 * N
      BY <1>1
    <3> QED BY <1>1, <1>2, <3>1
  <2> HIDE DEF g
  <2>2. a \in Int /\ a >= -N /\ a < N /\ a = t - g
    BY <1>1, <2>1
  <2> HIDE DEF a
  <2>3. At(a) = IF a < 0 THEN a + N ELSE a
    BY <1>1, <1>2, <2>2
  <2>4. At(a) = c - 1
    BY <1>1, <1>3, <1>7, <2>1, <2>2, <2>3
  <2> QED BY <2>1, <2>4 DEF g, a
<1>8. Grows(c, t, h)
  BY <1>5, <1>6 DEF N, Grows
<1> QED BY <1>4, <1>7, <1>8 DEF N

LEMMA DistanceBounds ==
  ASSUME NEW h \in Slot, NEW t \in Slot, NEW c, Away(c, t, h)
  PROVE  c \in 0 .. OUTPUT_LENGTH - 1 /\ (c = 0 <=> h = t)
BY Distance

\* Nearness is kept by what is added and by what wraps.
LEMMA NearWays ==
  ASSUME NEW a \in Int, NEW b \in Int, NEW c \in Int
  PROVE  /\ Near(a, b) => Near(b, a)
         /\ Near(a, b) /\ Near(b, c) => Near(a, c)
         /\ Near(a, b) => Near(a + c, b + c) /\ Near(a - c, b - c)
         /\ Near(a, b) => Near(c - a, c - b)
<1> DEFINE N == OUTPUT_LENGTH
<1>0. N \in Nat \ {0}
  BY TerminalAssumption
<1>1. ASSUME Near(a, b) PROVE  /\ Near(b, a) /\ Near(c - a, c - b)
                              /\ Near(a + c, b + c) /\ Near(a - c, b - c)
  <2>1. PICK k \in Int : a = b + N * k
    BY <1>1 DEF Near
  <2>2. -k \in Int /\ N * (-k) = -(N * k) /\ N * k \in Int
    BY <1>0
  <2>3. /\ b = a + N * (-k) /\ c - a = c - b + N * (-k)
        /\ a + c = b + c + N * k /\ a - c = b - c + N * k
    BY <2>1, <2>2
  <2> QED BY <2>2, <2>3 DEF Near
<1>2. ASSUME Near(a, b), Near(b, c) PROVE Near(a, c)
  <2>1. PICK k \in Int : a = b + N * k
    BY <1>2 DEF Near
  <2>2. PICK j \in Int : b = c + N * j
    BY <1>2 DEF Near
  <2>3. k + j \in Int /\ N * (k + j) = N * k + N * j /\ N * k \in Int /\ N * j \in Int
    BY <1>0
  <2>4. a = c + N * (k + j)
    BY <2>1, <2>2, <2>3
  <2> QED BY <2>3, <2>4 DEF Near
<1> QED BY <1>1, <1>2

LEMMA NearWrapped ==
  ASSUME NEW a \in Int
  PROVE  /\ At(a) \in Slot /\ Near(At(a), a)
         /\ a % COUNT_RANGE \in 0 .. COUNT_RANGE - 1 /\ Near(a % COUNT_RANGE, a)
<1> DEFINE N == OUTPUT_LENGTH
           R == COUNT_RANGE
<1>0. N \in Nat \ {0} /\ R \in Nat \ {0}
  BY TerminalAssumption
<1>1. PICK k \in Int : a = N * k + At(a)
  <2>1. a = N * (a \div N) + (a % N) /\ a \div N \in Int
    BY <1>0
  <2> QED BY <2>1 DEF At
<1>2. At(a) \in 0 .. N - 1
  BY <1>0 DEF At
<1>3. Near(At(a), a)
  <2>1. -k \in Int /\ N * (-k) = -(N * k) /\ N * k \in Int
    BY <1>0
  <2>2. At(a) = a + N * (-k)
    BY <1>1, <1>2, <2>1
  <2> QED BY <2>1, <2>2 DEF Near
<1>4. PICK j \in Int : a = R * j + (a % R)
  <2>1. a = R * (a \div R) + (a % R) /\ a \div R \in Int
    BY <1>0
  <2> QED BY <2>1
<1>5. PICK d \in Int : R = N * d
  <2>1. R = N * (R \div N) + (R % N) /\ R \div N \in Int
    BY <1>0
  <2>2. R = N * (R \div N)
    BY <1>0, <2>1, StringsAssumption
  <2> QED BY <2>1, <2>2
<1>6. a % R \in 0 .. R - 1
  BY <1>0
<1>7. Near(a % R, a)
  <2>1. -(d * j) \in Int /\ N * (-(d * j)) = -((N * d) * j)
    BY <1>0
  <2>2. R * j = (N * d) * j /\ R * j \in Int
    BY <1>0, <1>5
  <2> HIDE DEF R
  <2>3. a % R = a - R * j
    BY <1>4, <1>6, <2>2
  <2>4. a % R = a + N * (-(d * j))
    BY <2>1, <2>2, <2>3
  <2> QED BY <2>1, <2>4 DEF Near, R
<1> QED BY <1>2, <1>3, <1>6, <1>7 DEF Slot

\* What is near wraps to the same slot.
LEMMA NearMeans ==
  ASSUME NEW a \in Int, NEW b \in Int, Near(a, b)
  PROVE  At(a) = At(b)
<1> DEFINE N == OUTPUT_LENGTH
<1>0. N \in Nat \ {0} /\ At(a) \in 0 .. N - 1 /\ At(b) \in 0 .. N - 1
  BY TerminalAssumption, NearWrapped DEF Slot
<1>1. At(a) \in Int /\ At(b) \in Int /\ Near(At(a), a) /\ Near(b, At(b))
  BY <1>0, NearWrapped, NearWays
<1>2. Near(At(a), b)
  BY <1>1, NearWays
<1>3. Near(At(a), At(b))
  BY <1>1, <1>2, NearWays
<1>4. PICK k \in Int : At(a) = At(b) + N * k
  BY <1>3 DEF Near
<1>5. k >= 1 => N * k >= N
  BY <1>0
<1>6. k <= -1 => N * k <= -N
  BY <1>0
<1>7. N * k \in Int /\ (k = 0 => N * k = 0)
  BY <1>0
<1> QED BY <1>0, <1>4, <1>5, <1>6, <1>7

\* The counter stays near the distance, whatever is put or taken.
LEMMA CountStaysNear ==
  ASSUME NEW c \in Int, NEW t \in Slot, NEW h \in Slot, NEW n \in Nat, Near(c, t - h)
  PROVE  /\ Near((c + n) % COUNT_RANGE, At(t + n) - h)
         /\ Near((c + n - 1) % COUNT_RANGE, At(t + n) - At(h + 1))
         /\ Near((c - 1) % COUNT_RANGE, t - At(h + 1))
<1>0. t \in Int /\ h \in Int /\ n \in Int /\ \A x \in Slot : x \in Int
  BY TerminalAssumption DEF Slot
<1>1. ASSUME NEW z \in Int PROVE z % COUNT_RANGE \in Int /\ Near(z % COUNT_RANGE, z)
  <2>1. z % COUNT_RANGE \in 0 .. COUNT_RANGE - 1
    BY NearWrapped
  <2> QED BY <2>1, NearWrapped, TerminalAssumption
<1>2. ASSUME NEW z \in Int PROVE At(z) \in Int /\ Near(At(z), z)
  BY <1>0, NearWrapped
<1>3. ASSUME NEW u \in Int, NEW g \in Int, NEW x \in Int, NEW y \in Int, NEW d \in Int,
             NEW e \in Int, Near(u, x), Near(g, y), e = c + d, x - y = t - h + d
      PROVE  Near(e % COUNT_RANGE, u - g)
  <2> PICK w \in Int : w = x - y
    OBVIOUS
  <2>1. Near(u - g, x - g)
    BY <1>3, NearWays
  <2>2. Near(x - g, x - y)
    BY <1>3, NearWays
  <2>3. Near(u - g, w)
    BY <2>1, <2>2, NearWays
  <2>4. Near(e, w)
    <3> PICK z : z = t - h
      OBVIOUS
    <3>1. z \in Int
      BY <1>0
    <3>2. Near(c, z) /\ c \in Int /\ d \in Int
      BY <1>3
    <3>3. Near(c + d, z + d)
      BY <3>1, <3>2, NearWays, ZenonT(30)
    <3> QED BY <1>3, <3>3
  <2>5. e % COUNT_RANGE \in Int /\ Near(e % COUNT_RANGE, e)
    BY <1>1
  <2>6. Near(e % COUNT_RANGE, w)
    BY <2>4, <2>5, NearWays
  <2>7. Near(w, u - g)
    BY <2>3, NearWays
  <2> QED BY <2>5, <2>6, <2>7, NearWays
<1>4. h = h + OUTPUT_LENGTH * 0 /\ t = t + OUTPUT_LENGTH * 0
  BY <1>0, TerminalAssumption
<1>5. Near(h, h) /\ Near(t, t)
  BY <1>4 DEF Near
<1>6. Near((c + n) % COUNT_RANGE, At(t + n) - h)
  <2>1. t + n \in Int /\ c + n \in Int /\ (t + n) - h = t - h + n
    BY <1>0
  <2>2. At(t + n) \in Int /\ Near(At(t + n), t + n)
    BY <1>2, <2>1
  <2> QED BY <1>0, <1>3, <1>5, <2>1, <2>2
<1>7. Near((c + n - 1) % COUNT_RANGE, At(t + n) - At(h + 1))
  <2>1. /\ t + n \in Int /\ h + 1 \in Int /\ c + n - 1 \in Int /\ n - 1 \in Int
        /\ c + n - 1 = c + (n - 1) /\ (t + n) - (h + 1) = t - h + (n - 1)
    BY <1>0
  <2>2. At(t + n) \in Int /\ Near(At(t + n), t + n) /\ At(h + 1) \in Int /\ Near(At(h + 1), h + 1)
    BY <1>2, <2>1
  <2> QED BY <1>3, <2>1, <2>2
<1>8. Near((c - 1) % COUNT_RANGE, t - At(h + 1))
  <2>1. /\ h + 1 \in Int /\ c - 1 \in Int /\ c - 1 = c + (-1) /\ t - (h + 1) = t - h + (-1)
    BY <1>0
  <2>2. At(h + 1) \in Int /\ Near(At(h + 1), h + 1)
    BY <1>2, <2>1
  <2> QED BY <1>0, <1>3, <1>5, <2>1, <2>2
<1> QED BY <1>6, <1>7, <1>8

\* What a task prints.
LEMMA TextFacts ==
  ASSUME NEW p \in Printer, NEW n \in Lengths[p]
  PROVE  /\ n \in Nat /\ n < OUTPUT_LENGTH
         /\ Text(p, n) \in Seq(Char) /\ Text(p, n) \in Seq(Mark) /\ Len(Text(p, n)) = n
<1>1. n \in Nat /\ n < OUTPUT_LENGTH
  BY TerminalAssumption, StringsAssumption
<1>2. Text(p, n) \in [1 .. n -> Char]
  BY <1>1 DEF Text, Char
<1>3. Text(p, n) \in [1 .. n -> Mark]
  BY <1>2 DEF Mark
<1>4. Text(p, n) \in Seq(Char) /\ Text(p, n) \in Seq(Mark)
  BY <1>1, <1>2, <1>3, SeqDef
<1>5. Len(Text(p, n)) = n
  BY <1>1, <1>2, LenProperties
<1> QED BY <1>1, <1>4, <1>5

\* The counter does not wrap before the driver compares it.
LEMMA CountFits ==
  ASSUME TerminalTypes, RingCounted, ~strayed, NEW p \in Printer, NEW n \in Lengths[p], Fits(n)
  PROVE  /\ outputCount + n < OUTPUT_LENGTH
         /\ (outputCount + n) % COUNT_RANGE = outputCount + n
         /\ n > 0 => (outputCount + n - 1) % COUNT_RANGE = outputCount + n - 1
<1>1. /\ OUTPUT_LENGTH \in Nat \ {0} /\ COUNT_RANGE \in Nat \ {0}
      /\ COUNT_RANGE > 2 * OUTPUT_LENGTH
  BY TerminalAssumption
<1>2. outputCount \in 0 .. OUTPUT_LENGTH - 1
  <2>1. outputHead \in Slot /\ outputTail \in Slot /\ Away(outputCount, outputTail, outputHead)
    BY DEF TerminalTypes, TerminalTypeOK, RingCounted, Away
  <2> QED BY <2>1, DistanceBounds
<1>3. n \in Nat /\ n < OUTPUT_LENGTH
  BY TextFacts
<1> DEFINE a == outputCount + n
           b == outputCount + n - 1
<1>6. a \in 0 .. COUNT_RANGE - 1 /\ (n > 0 => b \in 0 .. COUNT_RANGE - 1)
  BY <1>1, <1>2, <1>3
<1>7. ASSUME NEW x \in 0 .. COUNT_RANGE - 1 PROVE x % COUNT_RANGE = x
  <2>1. x \in -COUNT_RANGE .. 2 * COUNT_RANGE - 1
    BY <1>1
  <2> QED BY <1>1, <2>1, Wrapped
<1>8. a % COUNT_RANGE = a /\ (n > 0 => b % COUNT_RANGE = b)
  BY <1>6, <1>7
<1> QED BY <1>3, <1>8 DEF Fits

\* And it does not run below zero when a character leaves.
LEMMA CountLess ==
  ASSUME TerminalTypes, RingCounted, ~strayed, outputHead # outputTail
  PROVE  outputCount \in 1 .. OUTPUT_LENGTH - 1 /\ CountAfterTx = outputCount - 1
<1>1. outputCount \in 1 .. OUTPUT_LENGTH - 1
  <2>1. outputCount \in 0 .. OUTPUT_LENGTH - 1 /\ outputCount # 0
    <3>1. /\ outputHead \in Slot /\ outputTail \in Slot
          /\ Away(outputCount, outputTail, outputHead)
      BY DEF TerminalTypes, TerminalTypeOK, RingCounted, Away
    <3> QED BY <3>1, DistanceBounds
  <2> QED BY <2>1, TerminalAssumption
<1> DEFINE a == outputCount - 1
<1>2. a \in -COUNT_RANGE .. 2 * COUNT_RANGE - 1 /\ a >= 0 /\ a < COUNT_RANGE
      /\ COUNT_RANGE \in Nat \ {0}
  BY <1>1, TerminalAssumption
<1> HIDE DEF a
<1>3. a % COUNT_RANGE = a
  BY <1>2, Wrapped
<1> QED BY <1>1, <1>3 DEF a, CountAfterTx

\* A ring without what was at h.
Emptied(e, d, h) == e = [d EXCEPT ![h] = NoChar]

\* A string is written from the tail on.
LEMMA TextPlaced ==
  ASSUME TerminalTypes, NEW p \in Printer, NEW n \in Lengths[p],
         NEW w, w = WithText(Text(p, n)), NEW t, t = (outputTail + n) % OUTPUT_LENGTH
  PROVE  w \in Rings(Mark) /\ t \in Slot
<1>1. outputBuffer \in Rings(Mark) /\ outputTail \in Slot
  BY DEF TerminalTypes, TerminalTypeOK, Rings, Mark
<1>2. /\ n \in Nat /\ n < OUTPUT_LENGTH /\ Text(p, n) \in Seq(Mark)
      /\ 0 + Len(Text(p, n)) < OUTPUT_LENGTH /\ 0 \in Nat
  BY TextFacts
<1>3. w = Written(outputBuffer, outputTail, Text(p, n))
  BY DEF WithText, Written, At
<1>4. Further(outputTail, outputTail, 0)
  <2>1. outputTail + 0 = outputTail /\ outputTail \in -OUTPUT_LENGTH .. 2 * OUTPUT_LENGTH - 1
        /\ outputTail >= 0 /\ outputTail < OUTPUT_LENGTH
    BY <1>1, TerminalAssumption DEF Slot
  <2>2. At(outputTail) = outputTail
    BY <2>1, AtWraps
  <2> QED BY <2>1, <2>2 DEF Further
<1>5. w \in Rings(Mark)
  BY <1>1, <1>2, <1>3, <1>4, RingWritten
<1>6. t \in Slot
  <2>1. outputTail + n \in Int
    BY <1>1, <1>2, TerminalAssumption DEF Slot
  <2> QED BY <2>1, NearWrapped DEF At
<1> QED BY <1>5, <1>6

\* It is written behind what is stored.
LEMMA TextWritten ==
  ASSUME TerminalTypes, RingCounted, ~strayed, NEW p \in Printer, NEW n \in Lengths[p], Fits(n),
         NEW w, w = WithText(Text(p, n)), NEW t, t = (outputTail + n) % OUTPUT_LENGTH
  PROVE  /\ outputCount + n = At(t - outputHead)
         /\ Ring(w, outputHead, outputCount + n) =
              Ring(outputBuffer, outputHead, outputCount) \o Text(p, n)
<1>1. /\ outputBuffer \in Rings(Mark) /\ outputHead \in Slot /\ outputTail \in Slot
      /\ outputCount = At(outputTail - outputHead) /\ t = At(outputTail + n)
  BY DEF TerminalTypes, TerminalTypeOK, RingCounted, Rings, Mark, At
<1>2. n \in Nat /\ Len(Text(p, n)) = n /\ outputCount + n < OUTPUT_LENGTH
  BY CountFits, TextFacts
<1>3. Text(p, n) \in Seq(Mark)
  BY TextFacts
<1>4. w = Written(outputBuffer, outputTail, Text(p, n))
  BY DEF WithText, Written, At
<1>5. /\ outputCount \in Nat /\ At(outputHead + outputCount) = outputTail
      /\ t \in Slot /\ At(t - outputHead) = outputCount + n
  <2>1. /\ outputCount \in 0 .. OUTPUT_LENGTH - 1 /\ At(outputHead + outputCount) = outputTail
        /\ \A k \in Nat : outputCount + k < OUTPUT_LENGTH =>
             /\ At(outputTail + k) \in Slot
             /\ At(At(outputTail + k) - outputHead) = outputCount + k
    <3>1. Away(outputCount, outputTail, outputHead)
      BY <1>1 DEF Away
    <3>2. outputCount \in 0 .. OUTPUT_LENGTH - 1
      BY <1>1, <3>1, DistanceBounds
    <3>3. Grows(outputCount, outputTail, outputHead)
      BY <1>1, <3>1, Distance
    <3> QED BY <3>2, <3>3 DEF Grows
  <2> QED BY <1>1, <1>2, <2>1
<1>6. Further(outputTail, outputHead, outputCount)
  BY <1>5 DEF Further
<1>7. outputCount + Len(Text(p, n)) < OUTPUT_LENGTH
  BY <1>2
<1>8. /\ Written(outputBuffer, outputTail, Text(p, n)) \in Rings(Mark)
      /\ Ring(Written(outputBuffer, outputTail, Text(p, n)), outputHead, outputCount + Len(Text(p, n))) =
           Ring(outputBuffer, outputHead, outputCount) \o Text(p, n)
  <2>1. outputBuffer \in Rings(Mark) /\ outputHead \in Slot /\ outputCount \in Nat
    BY <1>1, <1>5
  <2> QED BY <1>3, <1>6, <1>7, <2>1, RingWritten
<1> QED BY <1>2, <1>4, <1>5, <1>8

\* The slot at the head is emptied.
LEMMA SlotEmptied ==
  ASSUME NEW d \in Rings(Mark), NEW h \in Slot, NEW g, Further(g, h, 1), NEW e, Emptied(e, d, h)
  PROVE  e \in Rings(Mark) /\ g \in Slot /\ d[h] \in Mark
<1>1. e \in Rings(Mark) /\ d[h] \in Mark
  BY DEF Rings, Mark, Emptied
<1>2. g \in Slot
  <2>1. h + 1 \in Int
    BY TerminalAssumption DEF Slot
  <2> QED BY <2>1, NearWrapped DEF Further
<1> QED BY <1>1, <1>2

\* The first character leaves.
LEMMA CharTaken ==
  ASSUME NEW d \in Rings(Mark), NEW h \in Slot, NEW t \in Slot, NEW c, Away(c, t, h), c > 0,
         NEW g, Further(g, h, 1), NEW e, Emptied(e, d, h)
  PROVE  /\ e \in Rings(Mark) /\ g \in Slot /\ d[h] \in Mark
         /\ Away(c - 1, t, g)
         /\ Ring(d, h, c) # <<>> /\ Head(Ring(d, h, c)) = d[h]
         /\ Ring(e, g, c - 1) = Tail(Ring(d, h, c))
<1>2. c \in 1 .. OUTPUT_LENGTH - 1 /\ g \in Slot /\ Away(c - 1, t, g)
  <2>1. c \in 0 .. OUTPUT_LENGTH - 1
    BY Distance
  <2>2. c \in 1 .. OUTPUT_LENGTH - 1
    BY <2>1, TerminalAssumption
  <2>3. c > 0 => At(h + 1) \in Slot /\ At(t - At(h + 1)) = c - 1
    BY Distance
  <2> QED BY <2>2, <2>3 DEF Away, Further
<1>3. e \in Rings(Mark) /\ d[h] \in Mark /\ ButFor(e, d, h)
  BY DEF Rings, Mark, ButFor, Emptied
<1>4. /\ Ring(d, h, c) # <<>> /\ Head(Ring(d, h, c)) = d[h]
      /\ Ring(e, g, c - 1) = Tail(Ring(d, h, c))
  <2>1. c \in 1 .. OUTPUT_LENGTH - 1
    BY <1>2
  <2> QED BY <1>3, <2>1, RingTail
<1> QED BY <1>2, <1>3, <1>4

LEMMA TerminalInvNext == TerminalInv /\ [TerminalNext]_TerminalVars => TerminalInv'
<1> SUFFICES ASSUME TerminalInv, [TerminalNext]_TerminalVars PROVE TerminalInv'
  OBVIOUS
<1>a. termInbox \in Seq(TermMessage) /\ (\A c : CallsOf(c) \in Nat)
      /\ AsksToWrite \in Nat /\ KeysSent \in Nat
  BY CountsAreNat DEF TerminalInv, TerminalTypes
<1>b. termInbox' = termInbox => /\ AsksToWrite' = AsksToWrite /\ KeysSent' = KeysSent
                                /\ \A c : CallsOf(c)' = CallsOf(c)
  BY DEF AsksToWrite, KeysSent, CallsOf, Count, Places
<1>c. termInbox' = termInbox /\ inKey' = inKey => (KeysMatch => KeysMatch')
  BY DEF KeysMatch
<1>d. KeysSent' = 0 /\ termInbox' \in Seq(TermMessage) => KeysMatch'
  BY CountZero DEF KeysSent, KeysMatch
<1>0. CASE UNCHANGED TerminalVars
  BY <1>b, <1>c, <1>0 DEF TerminalVars, termVars, ringVars, outVars, inVars, TerminalInv,
       TerminalTypes,
    TerminalTypeOK, RingCounted, Near, OutNotifierOnce, InNotifierOnce, CallersOnce
<1>1. ASSUME NEW p \in Printer, NEW n \in Lengths[p], PutStr(p, n) PROVE TerminalInv'
  <2> DEFINE m == [type |-> "putstr", from |-> p, body |-> Text(p, n)]
  <2>1. m \in TermMessage /\ termInbox' = Append(termInbox, m) /\ m.type = "putstr" /\ m.from = p
    BY <1>1 DEF PutStr, SendsTerminal, TermMessage, TextMail
  <2>2. UNCHANGED <<termVars, outVars, inVars, shown, keyRead, termFailed>>
    BY <1>1 DEF PutStr
  <2> HIDE DEF m
  <2>3. /\ termInbox' \in Seq(TermMessage) /\ AsksToWrite' = AsksToWrite /\ KeysSent' = KeysSent
        /\ \A c : CallsOf(c)' = CallsOf(c) + One(c = p)
        /\ KeysMatch => KeysMatch'
    BY <1>a, <2>1, <2>2, MailSent DEF One, inVars
  <2>4. ~termFailed /\ caller[p] = "run" /\ caller' = [caller EXCEPT ![p] = "sent"]
    BY <1>1 DEF PutStr
  <2>5. CallersOnce'
    BY <1>a, <2>2, <2>3, <2>4 DEF TerminalInv, CallersOnce, termVars, One, TerminalTypes,
         TerminalTypeOK
  <2> QED
    BY <2>2, <2>3, <2>4, <2>5 DEF termVars, ringVars, outVars, inVars, TerminalInv, TerminalTypes,
      TerminalTypeOK, RingCounted, Near, OutNotifierOnce, InNotifierOnce
<1>2. ASSUME NEW r \in Reader, GetC(r) PROVE TerminalInv'
  <2> DEFINE m == [type |-> "getc", from |-> r]
  <2>1. m \in TermMessage /\ termInbox' = Append(termInbox, m) /\ m.type = "getc" /\ m.from = r
    BY <1>2 DEF GetC, SendsTerminal, TermMessage, GetCMail
  <2>2. UNCHANGED <<termVars, outVars, inVars, shown, keyRead, termFailed>>
    BY <1>2 DEF GetC
  <2> HIDE DEF m
  <2>3. /\ termInbox' \in Seq(TermMessage) /\ AsksToWrite' = AsksToWrite /\ KeysSent' = KeysSent
        /\ \A c : CallsOf(c)' = CallsOf(c) + One(c = r)
        /\ KeysMatch => KeysMatch'
    BY <1>a, <2>1, <2>2, MailSent DEF One, inVars
  <2>4. ~termFailed /\ caller[r] = "run" /\ caller' = [caller EXCEPT ![r] = "sent"]
    BY <1>2 DEF GetC
  <2>5. CallersOnce'
    BY <1>a, <2>2, <2>3, <2>4 DEF TerminalInv, CallersOnce, termVars, One, TerminalTypes,
         TerminalTypeOK
  <2> QED
    BY <2>2, <2>3, <2>4, <2>5 DEF termVars, ringVars, outVars, inVars, TerminalInv, TerminalTypes,
      TerminalTypeOK, RingCounted, Near, OutNotifierOnce, InNotifierOnce
<1>3. CASE OutNotifAsk
  <2>1. TxMail \in TermMessage /\ termInbox' = Append(termInbox, TxMail) /\ TxMail.type = "tx"
    BY <1>3 DEF OutNotifAsk, SendsTerminal, TermMessage, TxMail
  <2>2. /\ termOut = "ask" /\ termOut' = "asked"
        /\ UNCHANGED <<termVars, caller, outChar, inVars, shown, keyRead, termFailed>>
    BY <1>3 DEF OutNotifAsk
  <2>3. /\ termInbox' \in Seq(TermMessage) /\ AsksToWrite' = AsksToWrite + 1 /\ KeysSent' = KeysSent
        /\ \A c : CallsOf(c)' = CallsOf(c)
        /\ KeysMatch => KeysMatch'
    BY <1>a, <2>1, <2>2, MailSent DEF One, inVars
  <2> QED
    BY <1>a, <2>2, <2>3 DEF termVars, ringVars, inVars, TerminalInv, TerminalTypes,
      TerminalTypeOK, RingCounted, Near, OutNotifierOnce, InNotifierOnce, CallersOnce, One
<1>4. CASE OutNotifWrite
  BY <1>a, <1>b, <1>c, <1>4 DEF OutNotifWrite, termVars, ringVars, inVars, TerminalInv,
       TerminalTypes,
      TerminalTypeOK, RingCounted, Near, OutNotifierOnce, InNotifierOnce, CallersOnce, One
<1>5. CASE TransmitInterrupt
  BY <1>a, <1>b, <1>c, <1>5 DEF TransmitInterrupt, termVars, ringVars, inVars, TerminalInv,
       TerminalTypes,
      TerminalTypeOK, RingCounted, Near, OutNotifierOnce, InNotifierOnce, CallersOnce, One
<1>6. CASE InNotifRead
  BY <1>a, <1>b, <1>c, <1>6 DEF InNotifRead, termVars, ringVars, outVars, TerminalInv,
       TerminalTypes,
      TerminalTypeOK, RingCounted, Near, OutNotifierOnce, InNotifierOnce, CallersOnce, One
<1>7. CASE InNotifSend
  <2> DEFINE m == [type |-> "rcv", body |-> inKey[1]]
  <2>1. /\ termIn = "send" /\ termIn' = "sent" /\ termInbox' = Append(termInbox, m)
        /\ UNCHANGED <<termVars, caller, outVars, inKey, shown, keyRead, termFailed>>
    BY <1>7 DEF InNotifSend, SendsTerminal
  <2>2. PICK k \in Key : inKey = <<k>>
    BY <2>1 DEF TerminalInv, InNotifierOnce, TerminalTypes
  <2>3. m \in TermMessage /\ m.type = "rcv" /\ inKey = <<m.body>>
    BY <2>2 DEF TermMessage, KeyMail
  <2> HIDE DEF m
  <2>4. /\ termInbox' \in Seq(TermMessage) /\ AsksToWrite' = AsksToWrite /\ KeysSent' = KeysSent + 1
        /\ \A c : CallsOf(c)' = CallsOf(c)
        /\ KeysMatch => KeysMatch'
    <3>1. /\ termInbox' \in Seq(TermMessage)
          /\ AsksToWrite' = AsksToWrite + One(m.type = "tx")
          /\ KeysSent' = KeysSent + One(m.type = "rcv")
          /\ \A c : CallsOf(c)' = CallsOf(c) + One(m.type \in {"putstr", "getc"} /\ m.from = c)
          /\ (KeysMatch /\ inKey' = inKey /\ (m.type = "rcv" => inKey = <<m.body>>)) => KeysMatch'
      BY <1>a, <2>1, <2>3, MailSent
    <3>2. One(m.type = "tx") = 0 /\ One(m.type = "rcv") = 1
      BY <2>3 DEF One
    <3>3. ASSUME NEW c
          PROVE  CallsOf(c) + One(m.type \in {"putstr", "getc"} /\ m.from = c) = CallsOf(c)
      <4>1. One(m.type \in {"putstr", "getc"} /\ m.from = c) = 0
        BY <2>3 DEF One
      <4> QED BY <1>a, <4>1
    <3>4. AsksToWrite + 0 = AsksToWrite
      BY <1>a
    <3>5. inKey' = inKey
      BY <2>1
    <3> QED BY <2>3, <3>1, <3>2, <3>3, <3>4, <3>5
  <2> QED
    BY <1>a, <2>1, <2>4 DEF termVars, ringVars, outVars, TerminalInv, TerminalTypes,
      TerminalTypeOK, RingCounted, Near, OutNotifierOnce, InNotifierOnce, CallersOnce, One
<1>8. ASSUME NEW k \in Key, ReceiveInterrupt(k) PROVE TerminalInv'
  <2>1. /\ termIn = "reading" /\ termIn' = "send" /\ inKey' = <<k>> /\ termInbox' = termInbox
        /\ UNCHANGED <<termVars, caller, outVars, shown, keyRead, termFailed>>
    BY <1>8 DEF ReceiveInterrupt
  <2>2. KeysSent' = 0
    BY <1>b, <2>1 DEF TerminalInv, InNotifierOnce, One
  <2> QED
    BY <1>a, <1>b, <1>d, <2>1, <2>2 DEF termVars, ringVars, outVars, TerminalInv, TerminalTypes,
      TerminalTypeOK, RingCounted, Near, OutNotifierOnce, InNotifierOnce, CallersOnce, One
<1>9. ASSUME ServeTerminal PROVE TerminalInv'
  <2> PICK m : m = Head(termInbox)
    OBVIOUS
  <2>1. /\ ~termFailed /\ termInbox # <<>> /\ termInbox' = Tail(termInbox)
        /\ ServeGetC(m) \/ ServePutStr(m) \/ ServeTxChar(m) \/ ServeRcvChar(m)
    BY <1>9 DEF ServeTerminal
  <2>2. /\ m \in TermMessage /\ termInbox' \in Seq(TermMessage)
        /\ AsksToWrite' = AsksToWrite - One(m.type = "tx")
        /\ KeysSent' = KeysSent - One(m.type = "rcv")
        /\ \A c : CallsOf(c)' = CallsOf(c) - One(m.type \in {"putstr", "getc"} /\ m.from = c)
        /\ (KeysMatch /\ inKey' = inKey) => KeysMatch'
        /\ (KeysMatch /\ m.type = "rcv") => inKey = <<m.body>>
    BY <1>a, <2>1, MailReceived
  <2>3. /\ AsksToWrite' \in Nat /\ KeysSent' \in Nat /\ \A c : CallsOf(c)' \in Nat
    <3>1. \A c : Count(termInbox', Calls(c)) \in Nat
      BY <2>2, PlacesFinite
    <3>2. Count(termInbox', {TxMail}) \in Nat /\ Count(termInbox', KeyMail) \in Nat
      BY <2>2, PlacesFinite
    <3> QED BY <3>1, <3>2 DEF AsksToWrite, KeysSent, CallsOf
  <2>4. m.type = "putstr" =>
          m.from \in Printer /\ \E n \in Lengths[m.from] : m.body = Text(m.from, n)
    BY <2>2, MailKinds
  <2>5. m.type = "getc" => m.from \in Reader
    BY <2>2, MailKinds
  <2>6. m.type = "rcv" => m.body \in Key
    BY <2>2, MailKinds
  <2>7. CASE ServeGetC(m)
    <3>1. /\ m.type = "getc" /\ m.from \in Reader
          /\ UNCHANGED <<ringVars, isOutputNotifierReady, outVars, inVars, shown>>
      BY <2>5, <2>7 DEF ServeGetC
    <3>2. /\ AsksToWrite' = AsksToWrite /\ KeysSent' = KeysSent /\ KeysMatch'
          /\ \A c : CallsOf(c)' = CallsOf(c) - One(m.from = c)
      BY <1>a, <2>2, <3>1 DEF One, inVars, TerminalInv, InNotifierOnce
    <3>3. OutNotifierOnce' /\ InNotifierOnce' /\ RingCounted'
      BY <3>1, <3>2 DEF ringVars, outVars, inVars, TerminalInv, OutNotifierOnce,
           InNotifierOnce, RingCounted, Near
    <3>4. CallsOf(m.from) >= 1 /\ caller[m.from] = "sent" /\ getcTask # m.from
      BY <1>a, <2>1, <2>3, <3>1, <3>2 DEF TerminalInv, CallersOnce, One
    <3>5. CASE qInput = <<>>
      <4>1. /\ getcTask' = (IF getcTask = NoTask THEN m.from ELSE getcTask)
            /\ termFailed' = (getcTask # NoTask) /\ qInput' = qInput /\ caller' = caller
        BY <2>7, <3>5 DEF ServeGetC
      <4>2. CallersOnce'
        <5> SUFFICES ASSUME ~termFailed', NEW c \in Printer \cup Reader
                     PROVE  CallsOf(c)' + One(getcTask' = c) = One(caller'[c] = "sent")
          BY DEF CallersOnce
        <5>1. getcTask = NoTask /\ getcTask' = m.from /\ c # NoTask
          BY <4>1, TerminalAssumption
        <5>2. CallsOf(c) + One(getcTask = c) = One(caller[c] = "sent")
          BY <2>1 DEF TerminalInv, CallersOnce
        <5> QED BY <1>a, <2>3, <3>2, <4>1, <5>1, <5>2 DEF One
      <4> QED
        BY <2>2, <3>1, <3>3, <3>5, <4>1, <4>2 DEF ringVars, outVars, inVars, TerminalInv,
             TerminalTypes, TerminalTypeOK
    <3>6. CASE qInput # <<>>
      <4>1. /\ qInput' = Tail(qInput) /\ caller' = [caller EXCEPT ![m.from] = "run"]
            /\ getcTask' = getcTask /\ termFailed' = termFailed
        BY <2>7, <3>6 DEF ServeGetC, RepliesTo
      <4>2. getcTask = NoTask
        BY <3>6 DEF TerminalInv
      <4>3. Tail(qInput) \in Seq(Key) /\ Len(Tail(qInput)) = Len(qInput) - 1 /\ Len(qInput) \in Nat
        BY <3>6, HeadTailProperties, LenProperties DEF TerminalInv, TerminalTypes
      <4>4. CallersOnce'
        BY <1>a, <2>1, <2>3, <3>1, <3>2, <3>4, <4>1, <4>2 DEF TerminalInv, CallersOnce, One,
             TerminalTypes, TerminalTypeOK
      <4> QED
        BY <2>2, <3>1, <3>3, <4>1, <4>2, <4>3, <4>4, TerminalAssumption
        DEF ringVars, outVars, inVars, TerminalInv, TerminalTypes, TerminalTypeOK
    <3> QED BY <3>5, <3>6
  <2>8. CASE ServePutStr(m)
    <3> DEFINE p == m.from
    <3>0. p \in Printer /\ \E n \in Lengths[p] : m.body = Text(p, n)
      BY <2>4, <2>8 DEF ServePutStr
    <3> PICK n \in Lengths[p] : m.body = Text(p, n)
      BY <3>0
    <3>1. /\ m.type = "putstr" /\ p \in Printer /\ Len(m.body) = n /\ n \in Nat
          /\ UNCHANGED <<qInput, getcTask, inVars, shown, keyRead>>
      BY <2>8, <3>0, TextFacts DEF ServePutStr
    <3>2. /\ AsksToWrite' = AsksToWrite /\ KeysSent' = KeysSent /\ KeysMatch'
          /\ \A c : CallsOf(c)' = CallsOf(c) - One(p = c)
      BY <1>a, <2>2, <3>1 DEF One, inVars, TerminalInv, InNotifierOnce
    <3>3. InNotifierOnce'
      BY <3>1, <3>2 DEF inVars, TerminalInv, InNotifierOnce
    <3>4. CASE ~Fits(n)
      <4>1. termFailed' = TRUE /\ UNCHANGED <<ringVars, isOutputNotifierReady, outVars, caller>>
        BY <2>8, <3>1, <3>4 DEF ServePutStr
      <4> QED
        BY <2>2, <3>1, <3>2, <3>3, <4>1 DEF ringVars, outVars, inVars, TerminalInv, TerminalTypes,
          TerminalTypeOK, RingCounted, Near, OutNotifierOnce, CallersOnce
    <3>5. CASE Fits(n)
      <4> PICK w : w = WithText(Text(p, n))
        OBVIOUS
      <4>1. /\ outputTail' = (outputTail + n) % OUTPUT_LENGTH
            /\ caller' = [caller EXCEPT ![p] = "run"] /\ isOutputNotifierReady' = FALSE
            /\ termFailed' = termFailed
            /\ IF isOutputNotifierReady
               THEN /\ Dequeued(w)
                    /\ outputCount' = (outputCount + n - 1) % COUNT_RANGE
                    /\ strayed' = (strayed \/ n = 0)
               ELSE /\ outputBuffer' = w
                    /\ outputCount' = (outputCount + n) % COUNT_RANGE
                    /\ UNCHANGED <<outputHead, strayed, outVars>>
        BY <2>8, <3>1, <3>5 DEF ServePutStr, RepliesTo
      <4>2. /\ outputCount \in Int /\ outputHead \in Slot /\ outputTail \in Slot /\ n \in Nat
            /\ Near(outputCount, outputTail - outputHead) /\ strayed \in BOOLEAN
            /\ \A x \in Slot : x \in Int
        BY <3>1, TerminalAssumption
        DEF TerminalInv, TerminalTypes, TerminalTypeOK, RingCounted, Slot
      <4>3. w \in Rings(Mark) /\ outputTail' \in Slot
        BY <3>1, <4>1, TextPlaced DEF TerminalInv
      <4>4. CallersOnce'
        <5> SUFFICES ASSUME NEW c \in Printer \cup Reader
                     PROVE  CallsOf(c)' + One(getcTask' = c) = One(caller'[c] = "sent")
          BY DEF CallersOnce
        <5>1. CallsOf(c) + One(getcTask = c) = One(caller[c] = "sent") /\ getcTask' = getcTask
          BY <2>1, <3>1 DEF TerminalInv, CallersOnce
        <5>2. caller'[c] = IF c = p THEN "run" ELSE caller[c]
          BY <4>1 DEF TerminalInv, TerminalTypes, TerminalTypeOK
        <5>3. CallsOf(c)' = CallsOf(c) - One(p = c)
          BY <3>2
        <5> PICK k : k = CallsOf(c)
          OBVIOUS
        <5>4. k \in Nat
          BY <1>a
        <5> QED BY <2>3, <5>1, <5>2, <5>3, <5>4 DEF One
      <4>5. /\ (outputCount + n) % COUNT_RANGE \in 0 .. COUNT_RANGE - 1
            /\ (outputCount + n - 1) % COUNT_RANGE \in 0 .. COUNT_RANGE - 1
        <5>1. outputCount + n \in Int /\ outputCount + n - 1 \in Int
          BY <4>2
        <5> QED BY <5>1, NearWrapped
      <4>6. CASE isOutputNotifierReady
        <5>1. /\ outChar' = <<w[outputHead]>>
              /\ outputBuffer' = [w EXCEPT ![outputHead] = NoChar]
              /\ outputHead' = (outputHead + 1) % OUTPUT_LENGTH
              /\ termOut' = "write" /\ outputCount' = (outputCount + n - 1) % COUNT_RANGE
              /\ strayed' = (strayed \/ n = 0)
          BY <4>1, <4>6 DEF Dequeued
        <5>2. Further(outputHead', outputHead, 1) /\ Emptied(outputBuffer', w, outputHead)
          BY <5>1 DEF Further, Emptied, At
        <5>3. /\ outputBuffer' \in Rings(Mark) /\ outputHead' \in Slot /\ w[outputHead] \in Mark
          BY <4>2, <4>3, <5>2, SlotEmptied
        <5>4. AsksToWrite' = 0
          BY <1>a, <3>2, <4>6 DEF TerminalInv, OutNotifierOnce, One
        <5>5. TerminalTypes'
          BY <2>2, <3>1, <4>1, <4>2, <4>3, <4>5, <5>1, <5>3
          DEF inVars, TerminalInv, TerminalTypes, TerminalTypeOK, Rings, Mark
        <5>6. Near(outputCount, outputTail - outputHead)'
          <6>1. outputTail' = At(outputTail + n) /\ outputHead' = At(outputHead + 1)
            BY <4>1, <5>1 DEF At
          <6>2. Near((outputCount + n - 1) % COUNT_RANGE, At(outputTail + n) - At(outputHead + 1))
            BY <4>2, CountStaysNear
          <6> QED BY <5>1, <6>1, <6>2 DEF Near
        <5>7. ASSUME ~strayed' PROVE outputCount' = At(outputTail' - outputHead')
          <6>1. ~strayed /\ n > 0
            <7>1. n # 0 /\ ~strayed
              BY <5>1, <5>7
            <7> QED BY <3>1, <7>1
          <6>2. /\ (outputCount + n - 1) % COUNT_RANGE = outputCount + n - 1
                /\ outputCount + n = At(outputTail' - outputHead)
            <7>1. TerminalTypes /\ RingCounted
              BY DEF TerminalInv
            <7>2. outputCount + n = At(outputTail' - outputHead)
              BY <3>1, <3>5, <4>1, <6>1, <7>1, TextWritten
            <7>3. (outputCount + n - 1) % COUNT_RANGE = outputCount + n - 1
              BY <3>1, <3>5, <6>1, <7>1, CountFits
            <7> QED BY <7>2, <7>3
          <6> PICK c : c = outputCount + n
            OBVIOUS
          <6>3. outputCount \in Nat
            BY TerminalAssumption DEF TerminalInv, TerminalTypes, TerminalTypeOK
          <6>4. c > 0 /\ Away(c, outputTail', outputHead)
            BY <3>1, <6>1, <6>2, <6>3 DEF Away
          <6>5. Away(c - 1, outputTail', outputHead')
            BY <4>2, <4>3, <5>2, <6>4, CharTaken
          <6>6. outputCount' = c - 1
            <7>1. outputCount + n - 1 = c - 1
              BY <4>2
            <7> QED BY <5>1, <6>2, <7>1
          <6> QED BY <6>5, <6>6 DEF Away
        <5>8. RingCounted'
          BY <4>1, <5>6, <5>7 DEF RingCounted
        <5>9. OutNotifierOnce'
          BY <4>1, <5>1, <5>4 DEF OutNotifierOnce, One
        <5> QED BY <3>1, <3>3, <4>4, <5>5, <5>8, <5>9 DEF TerminalInv
      <4>7. CASE ~isOutputNotifierReady
        <5>1. /\ outputBuffer' = w /\ outputHead' = outputHead /\ strayed' = strayed
              /\ outputCount' = (outputCount + n) % COUNT_RANGE /\ UNCHANGED outVars
          BY <4>1, <4>7
        <5>2. TerminalTypes'
          BY <2>2, <3>1, <4>1, <4>2, <4>3, <4>5, <5>1
          DEF inVars, outVars, TerminalInv, TerminalTypes, TerminalTypeOK, Rings, Mark
        <5>3. Near(outputCount, outputTail - outputHead)'
          <6>1. outputTail' = At(outputTail + n)
            BY <4>1 DEF At
          <6>2. Near((outputCount + n) % COUNT_RANGE, At(outputTail + n) - outputHead)
            BY <4>2, CountStaysNear
          <6> QED BY <5>1, <6>1, <6>2 DEF Near
        <5>4. ASSUME ~strayed' PROVE outputCount' = At(outputTail' - outputHead')
          <6>1. ~strayed
            BY <5>1, <5>4
          <6>2. /\ (outputCount + n) % COUNT_RANGE = outputCount + n
                /\ outputCount + n = At(outputTail' - outputHead)
            BY <3>1, <3>5, <4>1, <6>1, CountFits, TextWritten DEF TerminalInv
          <6> QED BY <5>1, <6>2
        <5>5. RingCounted'
          BY <4>1, <5>3, <5>4 DEF RingCounted
        <5>6. OutNotifierOnce'
          BY <3>2, <4>1, <4>7, <5>1 DEF TerminalInv, OutNotifierOnce, One, outVars
        <5> QED BY <3>1, <3>3, <4>4, <5>2, <5>5, <5>6 DEF TerminalInv
      <4> QED BY <4>6, <4>7
    <3> QED BY <3>4, <3>5
  <2>9. CASE ServeTxChar(m)
    <3>1. /\ m.type = "tx"
          /\ UNCHANGED <<qInput, outputTail, strayed, getcTask, caller, inVars, shown, keyRead,
                         termFailed>>
      BY <2>9 DEF ServeTxChar
    <3>2. /\ AsksToWrite' = AsksToWrite - 1 /\ KeysSent' = KeysSent /\ KeysMatch'
          /\ \A c : CallsOf(c)' = CallsOf(c)
      BY <1>a, <2>2, <3>1 DEF One, inVars, TerminalInv, InNotifierOnce
    <3>3. InNotifierOnce' /\ CallersOnce'
      BY <3>1, <3>2 DEF inVars, TerminalInv, InNotifierOnce, CallersOnce
    <3>4. AsksToWrite' = 0 /\ AsksToWrite = 1 /\ ~isOutputNotifierReady /\ termOut = "asked"
      BY <1>a, <2>3, <3>2 DEF TerminalInv, OutNotifierOnce, One
    <3>5. CASE outputHead # outputTail
      <4>1. /\ outChar' = <<outputBuffer[outputHead]>>
            /\ outputBuffer' = [outputBuffer EXCEPT ![outputHead] = NoChar]
            /\ outputHead' = (outputHead + 1) % OUTPUT_LENGTH
            /\ termOut' = "write" /\ outputCount' = CountAfterTx
            /\ isOutputNotifierReady' = isOutputNotifierReady
        BY <2>9, <3>5 DEF ServeTxChar, Dequeued
      <4>2. /\ outputBuffer \in Rings(Mark) /\ outputHead \in Slot /\ outputTail \in Slot
            /\ outputCount \in Int /\ Near(outputCount, outputTail - outputHead)
        BY TerminalAssumption
        DEF TerminalInv, TerminalTypes, TerminalTypeOK, Rings, Mark, RingCounted
      <4>3. Further(outputHead', outputHead, 1) /\ Emptied(outputBuffer', outputBuffer, outputHead)
        BY <4>1 DEF Further, Emptied, At
      <4>4. /\ outputBuffer' \in Rings(Mark) /\ outputHead' \in Slot
            /\ outputBuffer[outputHead] \in Mark
        BY <4>2, <4>3, SlotEmptied
      <4>5. outputCount' \in 0 .. COUNT_RANGE - 1
        <5>1. outputCount - 1 \in Int
          BY <4>2
        <5> QED BY <4>1, <5>1, NearWrapped DEF CountAfterTx
      <4>6. TerminalTypes'
        BY <2>2, <3>1, <4>1, <4>4, <4>5
        DEF inVars, TerminalInv, TerminalTypes, TerminalTypeOK, Rings, Mark
      <4>7. Near(outputCount, outputTail - outputHead)'
        <5>1. outputTail' = outputTail /\ outputHead' = At(outputHead + 1) /\ 0 \in Nat
          BY <3>1, <4>1 DEF At
        <5>2. Near((outputCount - 1) % COUNT_RANGE, outputTail - At(outputHead + 1))
          BY <4>2, <5>1, CountStaysNear
        <5> QED BY <4>1, <5>1, <5>2 DEF Near, CountAfterTx
      <4>8. ASSUME ~strayed' PROVE outputCount' = At(outputTail' - outputHead')
        <5>1. ~strayed /\ outputCount = At(outputTail - outputHead)
          BY <3>1, <4>8 DEF TerminalInv, RingCounted
        <5>2. outputCount \in 1 .. OUTPUT_LENGTH - 1 /\ CountAfterTx = outputCount - 1
          BY <3>5, <5>1, CountLess DEF TerminalInv
        <5>3. Away(outputCount, outputTail, outputHead) /\ outputCount > 0
          BY <5>1, <5>2 DEF Away
        <5>4. Away(outputCount - 1, outputTail, outputHead')
          BY <4>2, <4>3, <5>3, CharTaken
        <5> QED BY <3>1, <4>1, <5>2, <5>4 DEF Away
      <4>9. RingCounted' /\ OutNotifierOnce'
        BY <3>4, <4>1, <4>7, <4>8 DEF RingCounted, OutNotifierOnce, One
      <4> QED BY <3>1, <3>3, <4>6, <4>9 DEF TerminalInv
    <3>6. CASE outputHead = outputTail
      <4>1. isOutputNotifierReady' = TRUE /\ UNCHANGED <<outputBuffer, outputHead, outputCount, outVars>>
        BY <2>9, <3>6 DEF ServeTxChar, Marked
      <4> QED
        BY <2>2, <3>1, <3>2, <3>3, <3>4, <3>6, <4>1 DEF outVars, inVars, TerminalInv,
             TerminalTypes, TerminalTypeOK,
          RingCounted, Near, OutNotifierOnce, One
    <3> QED BY <3>5, <3>6
  <2>10. CASE ServeRcvChar(m)
    <3>1. /\ m.type = "rcv" /\ m.body \in Key /\ termIn' = "read" /\ inKey' = <<>>
          /\ UNCHANGED <<ringVars, isOutputNotifierReady, outVars, shown, termFailed>>
      BY <2>6, <2>10 DEF ServeRcvChar
    <3>2. /\ AsksToWrite' = AsksToWrite /\ KeysSent' = KeysSent - 1
          /\ \A c : CallsOf(c)' = CallsOf(c)
      BY <1>a, <2>2, <3>1 DEF One
    <3>3. KeysSent' = 0 /\ KeysMatch'
      BY <1>a, <1>d, <2>2, <2>3, <3>2 DEF One, TerminalInv, InNotifierOnce
    <3>4. InNotifierOnce' /\ OutNotifierOnce' /\ RingCounted'
      BY <3>1, <3>2, <3>3 DEF ringVars, outVars, TerminalInv, InNotifierOnce, OutNotifierOnce,
           RingCounted, Near, One
    <3>5. CASE getcTask # NoTask
      <4>1. /\ caller' = [caller EXCEPT ![getcTask] = "run"] /\ getcTask' = NoTask /\ qInput' = qInput
        BY <2>10, <3>5 DEF ServeRcvChar, RepliesTo
      <4>2. CallersOnce'
        <5> SUFFICES ASSUME NEW c \in Printer \cup Reader
                     PROVE  CallsOf(c)' + One(getcTask' = c) = One(caller'[c] = "sent")
          BY DEF CallersOnce
        <5>1. CallsOf(c) + One(getcTask = c) = One(caller[c] = "sent") /\ c # NoTask
          BY <2>1, TerminalAssumption DEF TerminalInv, CallersOnce
        <5>2. caller'[c] = IF c = getcTask THEN "run" ELSE caller[c]
          BY <4>1 DEF TerminalInv, TerminalTypes, TerminalTypeOK
        <5> QED BY <1>a, <3>2, <4>1, <5>1, <5>2 DEF One
      <4> QED
        BY <2>2, <3>1, <3>4, <4>1, <4>2 DEF ringVars, outVars, TerminalInv, TerminalTypes,
             TerminalTypeOK
    <3>6. CASE getcTask = NoTask
      <4>1. qInput' = WithKey(m.body) /\ UNCHANGED <<caller, getcTask>>
        BY <2>10, <3>6 DEF ServeRcvChar
      <4>2. qInput' \in Seq(Key) /\ Len(qInput') <= INPUT_LENGTH
        <5>1. CASE Len(qInput) < INPUT_LENGTH
          <6>1. qInput' = Append(qInput, m.body)
            BY <4>1, <5>1 DEF WithKey, WithKeyAnyway
          <6>2. qInput' \in Seq(Key) /\ Len(qInput') = Len(qInput) + 1 /\ Len(qInput) \in Nat
            BY <3>1, <6>1, AppendProperties, LenProperties DEF TerminalInv, TerminalTypes
          <6> QED BY <5>1, <6>2, TerminalAssumption
        <5>2. CASE ~(Len(qInput) < INPUT_LENGTH)
          BY <4>1, <5>2 DEF WithKey, TerminalInv, TerminalTypes, TerminalTypeOK
        <5> QED BY <5>1, <5>2
      <4> QED
        BY <2>2, <3>1, <3>2, <3>4, <3>6, <4>1, <4>2
        DEF ringVars, outVars, TerminalInv, TerminalTypes, TerminalTypeOK, CallersOnce
    <3> QED BY <3>5, <3>6
  <2> QED BY <2>1, <2>7, <2>8, <2>9, <2>10
<1>10. CASE TerminalHung
  BY <1>0, <1>10 DEF TerminalHung
<1> QED
  BY <1>0, <1>1, <1>2, <1>3, <1>4, <1>5, <1>6, <1>7, <1>8, <1>9, <1>10 DEF TerminalNext

\* What is stored, the ring from its head to its tail.
Between == At(outputTail - outputHead)

LEMMA StoredIsRing ==
  ASSUME TerminalTypes
  PROVE  /\ Stored = Ring(outputBuffer, outputHead, Between)
         /\ Stored \in Seq(Mark) /\ Len(Stored) = Between
         /\ outputHead = outputTail => Stored = <<>>
<1>1. Stored = Ring(outputBuffer, outputHead, Between)
  BY DEF Stored, Ring, Between, At
<1>2. /\ outputBuffer \in Rings(Mark) /\ outputHead \in Slot /\ outputTail \in Slot
  BY DEF TerminalTypes, TerminalTypeOK, Rings, Mark
<1>3. Between \in 0 .. OUTPUT_LENGTH - 1 /\ (outputHead = outputTail => Between = 0)
  <2>1. Away(Between, outputTail, outputHead)
    BY DEF Between, Away
  <2> QED BY <1>2, <2>1, DistanceBounds
<1>4. Between \in 0 .. OUTPUT_LENGTH
  BY <1>3, TerminalAssumption
<1>5. Stored \in Seq(Mark) /\ Len(Stored) = Between
  BY <1>1, <1>2, <1>4, RingIsSeq
<1> QED BY <1>1, <1>3, <1>5, EmptySeq

\* Types are kept by the terminal driver (TerminalDriver.c:13-118).
THEOREM TerminalTypeCorrect == TerminalSpec => []TerminalTypeOK
<1>1. TerminalInv => TerminalTypeOK
  BY DEF TerminalInv, TerminalTypes
<1> QED BY <1>1, TerminalInvInit, TerminalInvNext, PTL DEF TerminalSpec

\* The ring's counter is what is between its indices, or that and rounds of the ring once an
\* empty string has found the notifier ready; the output notifier and every task that waits for
\* the driver are in one place, and a reader waits only while there is no key
\* (TerminalDriver.c:31-118).
THEOREM TerminalStaysExact == TerminalSpec => []TerminalExact
<1>1. TerminalInv => TerminalExact
  <2> SUFFICES ASSUME TerminalInv, ~termFailed PROVE TerminalExact
    BY DEF TerminalExact
  <2>0. /\ Len(Stored) = Between /\ (~strayed => outputCount = Between)
        /\ isOutputNotifierReady => Stored = <<>>
    BY StoredIsRing DEF TerminalInv, RingCounted, Between
  <2>1. outputCount % OUTPUT_LENGTH = Len(Stored)
    <3>1. outputCount \in Int /\ outputTail - outputHead \in Int
      BY TerminalAssumption DEF TerminalInv, TerminalTypes, TerminalTypeOK, Slot
    <3>2. Near(outputCount, outputTail - outputHead)
      BY DEF TerminalInv, RingCounted
    <3>3. At(outputCount) = Between
      BY <3>1, <3>2, NearMeans DEF Between
    <3> QED BY <2>0, <3>3 DEF At
  <2>2. termInbox \in Seq(TermMessage)
    BY DEF TerminalInv, TerminalTypes
  <2>3. ASSUME NEW i \in 1 .. Len(termInbox)
        PROVE  /\ termInbox[i].type = "tx" <=> termInbox[i] \in {TxMail}
               /\ \A c : (termInbox[i].type \in {"putstr", "getc"} /\ termInbox[i].from = c) <=>
                           termInbox[i] \in Calls(c)
    <3>1. termInbox[i] \in TermMessage
      BY <2>2, ElementOfSeq
    <3> QED BY <3>1, MailKinds
  <2>4. {i \in 1 .. Len(termInbox) : termInbox[i].type = "tx"} = Places(termInbox, {TxMail})
    BY <2>3 DEF Places
  <2>5. ASSUME NEW c
        PROVE  {i \in 1 .. Len(termInbox) :
                  termInbox[i].type \in {"putstr", "getc"} /\ termInbox[i].from = c} =
                 Places(termInbox, Calls(c))
    BY <2>3 DEF Places
  <2>6. Cardinality({i \in 1 .. Len(termInbox) : termInbox[i].type = "tx"}) +
          (IF isOutputNotifierReady THEN 1 ELSE 0) = IF termOut = "asked" THEN 1 ELSE 0
    BY <2>4 DEF TerminalInv, OutNotifierOnce, AsksToWrite, Count, One
  <2>7. ASSUME NEW c \in Printer \cup Reader
        PROVE  Cardinality({i \in 1 .. Len(termInbox) :
                    termInbox[i].type \in {"putstr", "getc"} /\ termInbox[i].from = c}) +
                 (IF getcTask = c THEN 1 ELSE 0) = IF caller[c] = "sent" THEN 1 ELSE 0
    BY <2>5 DEF TerminalInv, CallersOnce, CallsOf, Count, One
  <2>8. getcTask # NoTask => qInput = <<>>
    BY DEF TerminalInv
  <2> QED BY <2>0, <2>1, <2>6, <2>7, <2>8 DEF TerminalExact
<1> QED BY <1>1, TerminalInvInit, TerminalInvNext, PTL DEF TerminalSpec

StoredShape == Stored = Ring(outputBuffer, outputHead, Between) /\ Stored \in Seq(Mark)

LEMMA StoredAsRing == TerminalInv => StoredShape
BY StoredIsRing DEF TerminalInv, StoredShape

\* Each step shows the promise of the driver one step of its own, or none.
LEMMA CharStep ==
  TerminalInv /\ [TerminalNext]_TerminalVars => [Chars!Next]_(Chars!vars)
<1> SUFFICES ASSUME TerminalInv, [TerminalNext]_TerminalVars PROVE [Chars!Next]_(Chars!vars)
  OBVIOUS
<1> DEFINE unshown == outChar \o Stored
           unread  == qInput \o inKey
<1>a. /\ Stored = Ring(outputBuffer, outputHead, Between)
      /\ Stored \in Seq(Mark) /\ Len(Stored) = Between
      /\ outputHead = outputTail => Stored = <<>>
  BY StoredIsRing DEF TerminalInv
<1>b. /\ Stored' = Ring(outputBuffer', outputHead', Between')
      /\ Stored' \in Seq(Mark)
  <2>1. TerminalInv'
    BY TerminalInvNext
  <2>2. TerminalInv' => StoredShape'
    BY StoredAsRing, PTL
  <2> QED BY <2>1, <2>2 DEF StoredShape
<1>c. /\ outChar \in Seq(Mark) /\ inKey \in Seq(Key) /\ qInput \in Seq(Key)
      /\ <<>> \o Stored = Stored /\ <<>> \o Stored' = Stored'
      /\ qInput \o <<>> = qInput
  <2>1. outChar \in Seq(Mark)
    <3>1. outChar = <<>> \/ \E x \in Mark : outChar = <<x>>
      BY DEF TerminalInv, TerminalTypes, Mark
    <3>2. CASE outChar = <<>>
      BY <3>2, EmptySeq
    <3>3. ASSUME NEW x \in Mark, outChar = <<x>> PROVE outChar \in Seq(Mark)
      <4>1. <<x>> \in Seq(Mark)
        OBVIOUS
      <4> QED BY <3>3, <4>1
    <3> QED BY <3>1, <3>2, <3>3
  <2>2. inKey \in Seq(Key)
    <3>1. inKey = <<>> \/ \E k \in Key : inKey = <<k>>
      BY DEF TerminalInv, TerminalTypes
    <3>2. CASE inKey = <<>>
      BY <3>2, EmptySeq
    <3>3. ASSUME NEW k \in Key, inKey = <<k>> PROVE inKey \in Seq(Key)
      <4>1. <<k>> \in Seq(Key)
        OBVIOUS
      <4> QED BY <3>3, <4>1
    <3> QED BY <3>1, <3>2, <3>3
  <2>3. qInput \in Seq(Key) /\ qInput \o <<>> = qInput
    BY ConcatEmptySeq DEF TerminalInv, TerminalTypes
  <2>4. <<>> \o Stored = Stored /\ <<>> \o Stored' = Stored'
    BY <1>a, <1>b, ConcatEmptySeq
  <2> QED BY <2>1, <2>2, <2>3, <2>4
<1>d. UNCHANGED ringVars => Stored' = Stored /\ strayed' = strayed
  BY DEF ringVars, Stored
<1>0. CASE UNCHANGED TerminalVars
  BY <1>d, <1>0 DEF TerminalVars, termVars, outVars, inVars, Chars!vars
<1>1. ASSUME NEW p \in Printer, NEW n \in Lengths[p], PutStr(p, n) PROVE UNCHANGED Chars!vars
  BY <1>d, <1>1 DEF PutStr, termVars, outVars, inVars, Chars!vars
<1>2. ASSUME NEW r \in Reader, GetC(r) PROVE UNCHANGED Chars!vars
  BY <1>d, <1>2 DEF GetC, termVars, outVars, inVars, Chars!vars
<1>3. CASE OutNotifAsk
  BY <1>d, <1>3 DEF OutNotifAsk, termVars, inVars, Chars!vars
<1>4. CASE OutNotifWrite
  BY <1>d, <1>4 DEF OutNotifWrite, termVars, inVars, Chars!vars
<1>5. CASE TransmitInterrupt
  <2>1. /\ termOut = "writing" /\ shown' = outChar /\ outChar' = <<>> /\ Stored' = Stored
        /\ UNCHANGED <<qInput, inKey, keyRead, strayed>>
    BY <1>d, <1>5 DEF TransmitInterrupt, termVars, inVars
  <2>2. PICK x \in Mark : outChar = <<x>>
    BY <2>1 DEF TerminalInv, TerminalTypes, OutNotifierOnce, Mark
  <2>3. unshown # <<>> /\ Head(unshown) = x /\ Tail(unshown) = <<>> \o Stored
    <3>1. <<x>> \in Seq(Mark) /\ <<x>> # <<>> /\ Head(<<x>>) = x /\ Tail(<<x>>) = <<>>
      OBVIOUS
    <3> QED BY <1>a, <2>2, <3>1, HeadOfConcat
  <2> QED BY <2>1, <2>2, <2>3 DEF Chars!Next, Chars!Show
<1>6. CASE InNotifRead
  BY <1>d, <1>6 DEF InNotifRead, termVars, outVars, Chars!vars
<1>7. CASE InNotifSend
  BY <1>d, <1>7 DEF InNotifSend, termVars, outVars, Chars!vars
<1>8. ASSUME NEW k \in Key, ReceiveInterrupt(k) PROVE Chars!Strike(k)
  <2>1. /\ termIn = "reading" /\ inKey' = <<k>> /\ Stored' = Stored
        /\ UNCHANGED <<qInput, outChar, shown, keyRead, strayed>>
    BY <1>d, <1>8 DEF ReceiveInterrupt, termVars, outVars
  <2>2. inKey = <<>>
    BY <2>1 DEF TerminalInv, InNotifierOnce
  <2>3. qInput \o <<k>> = Append(qInput, k)
    BY <1>c
  <2> QED BY <1>c, <2>1, <2>2, <2>3 DEF Chars!Strike
<1>9. CASE ServeTerminal
  <2> PICK m : m = Head(termInbox)
    OBVIOUS
  <2>1. /\ ~termFailed /\ termInbox # <<>> /\ termInbox' = Tail(termInbox)
        /\ ServeGetC(m) \/ ServePutStr(m) \/ ServeTxChar(m) \/ ServeRcvChar(m)
    BY <1>9 DEF ServeTerminal
  <2>2. /\ m \in TermMessage /\ (m.type = "rcv" => inKey = <<m.body>>)
        /\ AsksToWrite' = AsksToWrite - One(m.type = "tx") /\ AsksToWrite' \in Nat
    <3>1. termInbox \in Seq(TermMessage) /\ KeysMatch
      BY DEF TerminalInv, TerminalTypes, InNotifierOnce
    <3>2. /\ m \in TermMessage /\ (m.type = "rcv" => inKey = <<m.body>>)
          /\ AsksToWrite' = AsksToWrite - One(m.type = "tx") /\ termInbox' \in Seq(TermMessage)
      BY <2>1, <3>1, MailReceived
    <3>3. Count(termInbox', {TxMail}) \in Nat
      BY <3>2, PlacesFinite
    <3> QED BY <3>2, <3>3 DEF AsksToWrite
  <2>3. AsksToWrite \in Nat
    BY CountsAreNat DEF TerminalInv, TerminalTypes
  <2>4. CASE ServeGetC(m)
    <3>1. Stored' = Stored /\ UNCHANGED <<outChar, inKey, shown, strayed>>
      BY <1>d, <2>4 DEF ServeGetC, outVars, inVars
    <3>2. CASE qInput = <<>>
      BY <2>4, <3>1, <3>2 DEF ServeGetC, Chars!vars
    <3>3. CASE qInput # <<>>
      <4>1. keyRead' = <<Head(qInput)>> /\ qInput' = Tail(qInput)
        BY <2>4, <3>3 DEF ServeGetC
      <4>2. unread # <<>> /\ Head(unread) = Head(qInput) /\ Tail(unread) = Tail(qInput) \o inKey
        BY <1>c, <3>3, HeadOfConcat
      <4> QED BY <3>1, <4>1, <4>2 DEF Chars!Next, Chars!Read
    <3> QED BY <3>2, <3>3
  <2>5. CASE ServePutStr(m)
    <3> DEFINE p == m.from
    <3>0. p \in Printer /\ \E n \in Lengths[p] : m.body = Text(p, n)
      BY <2>2, <2>5, MailKinds DEF ServePutStr
    <3> PICK n \in Lengths[p] : m.body = Text(p, n)
      BY <3>0
    <3> DEFINE s == Text(p, n)
    <3>1. /\ p \in Printer /\ Len(m.body) = n /\ n \in Nat /\ n < OUTPUT_LENGTH
          /\ s \in Seq(Char) /\ s \in Seq(Mark) /\ Len(s) = n
          /\ s \in UNION {{Text(q, l) : l \in Lengths[q]} : q \in Printer}
          /\ UNCHANGED <<qInput, inKey, shown, keyRead>>
      BY <2>5, <3>0, TextFacts DEF ServePutStr, inVars
    <3>2. CASE ~Fits(n)
      BY <1>d, <2>5, <3>1, <3>2 DEF ServePutStr, outVars, Chars!vars
    <3>3. CASE Fits(n)
      <4> PICK w : w = WithText(s)
        OBVIOUS
      <4>1. /\ outputTail' = (outputTail + n) % OUTPUT_LENGTH
            /\ IF isOutputNotifierReady
               THEN Dequeued(w) /\ strayed' = (strayed \/ n = 0)
               ELSE /\ outputBuffer' = w
                    /\ UNCHANGED <<outputHead, strayed, outVars>>
        BY <2>5, <3>1, <3>3 DEF ServePutStr
      <4>2. /\ strayed \in BOOLEAN /\ outputHead \in Slot
            /\ isOutputNotifierReady => outChar = <<>> /\ Stored = <<>>
        BY <1>a, <2>3 DEF TerminalInv, TerminalTypes, TerminalTypeOK, RingCounted,
             OutNotifierOnce, One
      <4> HIDE DEF s
      <4>3. CASE strayed
        <5>1. strayed' = strayed
          BY <4>1, <4>2, <4>3
        <5> QED BY <3>1, <4>3, <5>1 DEF Chars!Next, Chars!Astray
      <4>4. CASE ~strayed /\ isOutputNotifierReady /\ n = 0
        <5>1. s = <<>>
          BY <3>1, <4>4, EmptySeq
        <5>2. strayed' = TRUE /\ <<>> \in UNION {{Text(q, l) : l \in Lengths[q]} : q \in Printer}
          BY <3>1, <4>1, <4>4, <5>1
        <5>3. outChar \o Stored = <<>>
          BY <1>c, <4>2, <4>4
        <5> QED BY <3>1, <5>2, <5>3 DEF Chars!Next, Chars!GoAstray
      <4>5. ASSUME ~strayed PROVE /\ w \in Rings(Mark) /\ outputTail' \in Slot
                                  /\ Between \in Nat /\ Between + n = At(outputTail' - outputHead)
                                  /\ Ring(w, outputHead, Between + n) = Stored \o s
        <5>1. outputCount = Between /\ outputCount \in Nat
          BY <4>5, TerminalAssumption
          DEF TerminalInv, TerminalTypes, TerminalTypeOK, RingCounted, Between
        <5>2. w \in Rings(Mark) /\ outputTail' \in Slot
          BY <3>1, <4>1, TextPlaced DEF TerminalInv, s
        <5>3. /\ outputCount + n = At(outputTail' - outputHead)
              /\ Ring(w, outputHead, outputCount + n) =
                   Ring(outputBuffer, outputHead, outputCount) \o s
          BY <3>1, <3>3, <4>1, <4>5, TextWritten DEF TerminalInv, s
        <5> QED BY <1>a, <5>1, <5>2, <5>3
      <4>6. CASE ~strayed /\ isOutputNotifierReady /\ n # 0
        <5>1. /\ outChar' = <<w[outputHead]>>
              /\ outputBuffer' = [w EXCEPT ![outputHead] = NoChar]
              /\ outputHead' = (outputHead + 1) % OUTPUT_LENGTH
              /\ strayed' = strayed
          BY <4>1, <4>2, <4>6 DEF Dequeued
        <5>2. /\ w[outputHead] = Head(s) /\ Stored' = Tail(s) /\ s # <<>>
          <6> PICK c : c = Between + n
            OBVIOUS
          <6>1. c > 0 /\ Away(c, outputTail', outputHead)
            BY <3>1, <4>5, <4>6 DEF Away
          <6>2. Further(outputHead', outputHead, 1) /\ Emptied(outputBuffer', w, outputHead)
            BY <5>1 DEF Further, Emptied, At
          <6>3. /\ Ring(w, outputHead, c) # <<>> /\ Head(Ring(w, outputHead, c)) = w[outputHead]
                /\ Ring(outputBuffer', outputHead', c - 1) = Tail(Ring(w, outputHead, c))
                /\ Away(c - 1, outputTail', outputHead')
            BY <4>2, <4>5, <4>6, <6>1, <6>2, CharTaken
          <6>4. Ring(w, outputHead, c) = s
            BY <3>1, <4>2, <4>5, <4>6, ConcatEmptySeq
          <6>5. Between' = c - 1
            BY <6>3 DEF Between, Away, At
          <6> QED BY <1>b, <6>3, <6>4, <6>5
        <5>3. outChar' \o Stored' = s
          BY <3>1, <5>1, <5>2
        <5>4. unshown = <<>> /\ <<>> \o s = s
          BY <1>c, <3>1, <4>2, <4>6, ConcatEmptySeq
        <5> QED BY <3>1, <5>1, <5>3, <5>4 DEF Chars!Next, Chars!Accept
      <4>7. CASE ~strayed /\ ~isOutputNotifierReady
        <5>1. outputBuffer' = w /\ outputHead' = outputHead /\ outChar' = outChar
              /\ strayed' = strayed
          BY <4>1, <4>7 DEF outVars
        <5>2. Between' = Between + n
          BY <4>5, <4>7, <5>1 DEF Between, At
        <5>3. Stored' = Stored \o s
          BY <1>b, <4>5, <4>7, <5>1, <5>2
        <5>4. outChar \o (Stored \o s) = (outChar \o Stored) \o s
          <6>1. outChar \in Seq(Mark) /\ Stored \in Seq(Mark) /\ s \in Seq(Mark)
            BY <1>a, <1>c, <3>1
          <6> HIDE DEF unshown, unread
          <6>2. \A q, x, y \in Seq(Mark) : q \o (x \o y) = (q \o x) \o y
            BY ConcatAssociative
          <6> QED BY <6>1, <6>2
        <5> QED BY <3>1, <5>1, <5>3, <5>4 DEF Chars!Next, Chars!Accept
      <4> QED BY <4>2, <4>3, <4>4, <4>6, <4>7
    <3> QED BY <3>2, <3>3
  <2>6. CASE ServeTxChar(m)
    <3>1. m.type = "tx" /\ UNCHANGED <<qInput, outputTail, strayed, inKey, shown, keyRead>>
      BY <2>6 DEF ServeTxChar, inVars
    <3>2. outChar = <<>>
      BY <2>2, <2>3, <3>1 DEF TerminalInv, OutNotifierOnce, One
    <3>3. CASE outputHead # outputTail
      <4>1. /\ outChar' = <<outputBuffer[outputHead]>>
            /\ outputBuffer' = [outputBuffer EXCEPT ![outputHead] = NoChar]
            /\ outputHead' = (outputHead + 1) % OUTPUT_LENGTH
        BY <2>6, <3>3 DEF ServeTxChar, Dequeued
      <4>2. Between \in Nat /\ Between > 0
        <5>1. Away(Between, outputTail, outputHead)
          BY DEF Between, Away
        <5>2. outputHead \in Slot /\ outputTail \in Slot
          BY DEF TerminalInv, TerminalTypes, TerminalTypeOK
        <5>3. Between \in 0 .. OUTPUT_LENGTH - 1 /\ Between # 0
          BY <3>3, <5>1, <5>2, DistanceBounds
        <5> QED BY <5>3, TerminalAssumption
      <4>3. Stored # <<>> /\ Head(Stored) = outputBuffer[outputHead] /\ Stored' = Tail(Stored)
        <5>1. /\ outputBuffer \in Rings(Mark) /\ outputHead \in Slot /\ outputTail \in Slot
              /\ Away(Between, outputTail, outputHead) /\ Between > 0
          BY <4>2 DEF TerminalInv, TerminalTypes, TerminalTypeOK, Rings, Mark, Away, Between
        <5>2. Further(outputHead', outputHead, 1) /\ Emptied(outputBuffer', outputBuffer, outputHead)
          BY <4>1 DEF Further, Emptied, At
        <5>3. /\ Ring(outputBuffer, outputHead, Between) # <<>>
              /\ Head(Ring(outputBuffer, outputHead, Between)) = outputBuffer[outputHead]
              /\ Ring(outputBuffer', outputHead', Between - 1) =
                   Tail(Ring(outputBuffer, outputHead, Between))
              /\ Away(Between - 1, outputTail, outputHead')
          BY <5>1, <5>2, CharTaken
        <5>4. Between' = Between - 1
          BY <3>1, <5>3 DEF Between, Away, At
        <5> QED BY <1>a, <1>b, <5>3, <5>4
      <4>4. outChar' \o Stored' = Stored
        BY <1>a, <4>1, <4>3
      <4> QED BY <1>c, <3>1, <3>2, <4>4 DEF Chars!vars
    <3>4. CASE outputHead = outputTail
      BY <2>6, <3>1, <3>4 DEF ServeTxChar, outVars, Stored, Chars!vars
    <3> QED BY <3>3, <3>4
  <2>7. CASE ServeRcvChar(m)
    <3>1. /\ m.type = "rcv" /\ inKey' = <<>> /\ inKey = <<m.body>> /\ Stored' = Stored
          /\ UNCHANGED <<outChar, shown, strayed>>
      BY <1>d, <2>2, <2>7 DEF ServeRcvChar, outVars
    <3>2. m.body \in Key
      BY <2>2, <3>1, MailKinds
    <3>3. CASE getcTask # NoTask
      <4>1. qInput = <<>> /\ qInput' = qInput /\ keyRead' = <<m.body>>
        BY <2>7, <3>3 DEF ServeRcvChar, TerminalInv
      <4>2. unread = <<m.body>> /\ (qInput \o <<>>) = <<>>
        BY <1>c, <3>1, <4>1, ConcatEmptySeq
      <4>3. unread # <<>> /\ Head(unread) = m.body /\ Tail(unread) = <<>>
        BY <3>2, <4>2
      <4>4. qInput' \o inKey' = <<>>
        BY <3>1, <4>1, <4>2
      <4> HIDE DEF unread
      <4> QED BY <3>1, <4>1, <4>3, <4>4 DEF Chars!Next, Chars!Read, unread
    <3>4. CASE getcTask = NoTask
      <4>1. qInput' = WithKey(m.body) /\ keyRead' = keyRead
        BY <2>7, <3>4 DEF ServeRcvChar
      <4>2. unread = Append(qInput, m.body)
        BY <1>c, <3>1, <3>2
      <4>3. CASE Len(qInput) < INPUT_LENGTH
        <5>1. qInput' = Append(qInput, m.body)
          BY <4>1, <4>3 DEF WithKey, WithKeyAnyway
        <5>2. qInput' \o <<>> = Append(qInput, m.body)
          BY <1>c, <3>2, <5>1, ConcatEmptySeq, AppendProperties
        <5> QED BY <3>1, <4>1, <4>2, <5>2 DEF Chars!vars
      <4>4. CASE ~(Len(qInput) < INPUT_LENGTH)
        <5>1. qInput' = qInput /\ Len(qInput) = INPUT_LENGTH
          BY <4>1, <4>4, TerminalAssumption, LenProperties
          DEF WithKey, TerminalInv, TerminalTypes, TerminalTypeOK
        <5>2. Len(unread) = Len(qInput) + 1 /\ unread \in Seq(Key) /\ Len(qInput) \in Nat
          BY <1>c, <3>2, <4>2, AppendProperties, LenProperties
        <5>3. Len(unread) > INPUT_LENGTH
          BY <5>1, <5>2
        <5>4. SubSeq(unread, 1, Len(unread) - 1) = qInput
          BY <1>c, <3>2, <4>2
        <5>5. qInput' \o inKey' = SubSeq(unread, 1, Len(unread) - 1)
          BY <1>c, <3>1, <5>1, <5>4
        <5> HIDE DEF unread
        <5> QED BY <3>1, <4>1, <5>3, <5>5 DEF Chars!Next, Chars!Drop, Chars!Front, unread
      <4> QED BY <4>3, <4>4
    <3> QED BY <3>3, <3>4
  <2> QED BY <2>1, <2>4, <2>5, <2>6, <2>7
<1>10. CASE TerminalHung
  BY <1>0, <1>10 DEF TerminalHung
<1> QED
  BY <1>0, <1>1, <1>2, <1>3, <1>4, <1>5, <1>6, <1>7, <1>8, <1>9, <1>10
  DEF TerminalNext, Chars!Next

\* Strings appear whole and in the order in which they were accepted, at least until an empty
\* one comes while nothing is left to show, and keys are read in the order in which they were
\* struck, whoever is ready first: the notifier or a string, a key or
\* its reader (TerminalDriver.c:36-116).
THEOREM TerminalImplementsCharStream == TerminalSpec => ImplementsCharStream
<1>1. TerminalInit => Chars!Init
  <2> SUFFICES ASSUME TerminalInit PROVE Chars!Init
    OBVIOUS
  <2>1. TerminalInv
    BY TerminalInvInit
  <2>2. Stored = <<>>
    BY <2>1, StoredIsRing DEF TerminalInit, TerminalInv
  <2>3. outChar \o Stored = <<>> /\ qInput \o inKey = <<>>
    BY <2>2, EmptySeq, ConcatEmptySeq DEF TerminalInit
  <2> QED BY <2>3 DEF TerminalInit, Chars!Init
<1> QED
  BY <1>1, CharStep, TerminalInvInit, TerminalInvNext, PTL
  DEF TerminalSpec, ImplementsCharStream, Chars!Spec

-----------------------------------------------------------------------------
(* Train sensor server.  The free slots and those in use are, one after    *)
(* the other, all slots once; every reader is in one place, and so is      *)
(* every task that waits for one sensor unless another took its place.     *)

Index == 0 .. READS - 1
ReadMail(r)   == [type : {"readAll"}, from : {r}]
WaitMail(w)   == [type : {"wait"}, from : {w}, sensor : Watched]
SensorMessage == [type : {"courier", "notify"}] \cup [type : {"readAll"}, from : ReadTask]
                   \cup [type : {"wait"}, from : WaitTask, sensor : Watched]

Reads(r) == Count(sensorInbox, ReadMail(r))
Waits(w) == Count(sensorInbox, WaitMail(w))
Spots(w) == {s \in Sensor : aTaskSensorBlocked[s] = w}
Slots    == qBodyFree \o qBodyIndex

SensorTypes ==
  /\ SensorsTypeOK
  /\ courierAt = "scanning" => received < GROUPS
  /\ sensorInbox \in Seq(SensorMessage)
  /\ qTask \in Seq(ReadTask) /\ qBodyIndex \in Seq(Index) /\ qBodyFree \in Seq(Index)
  /\ qBodyBuffer \in [Index -> ReadTask \cup {NoReader}]
  /\ filled \subseteq ReadTask

SlotsExact ==
  /\ Len(qTask) = Len(qBodyIndex)
  /\ \A i \in 1 .. Len(qTask) : qBodyBuffer[qBodyIndex[i]] = qTask[i]
  /\ Len(Slots) = READS
  /\ {Slots[i] : i \in 1 .. READS} = Index

ReadersExact ==
  \A r \in ReadTask : /\ reader[r] = "run" <=> r \in filled
                      /\ Reads(r) + Count(qTask, {r}) = One(reader[r] = "sent")

WaitersExact ==
  \A w \in WaitTask :
    /\ Waits(w) + Cardinality(Spots(w)) <= One(waiter[w] = "sent")
    /\ waiter[w] = "sent" /\ Waits(w) + Cardinality(Spots(w)) = 0 => Cardinality(WaitTask) > 1

SensorsInv == SensorTypes /\ SlotsExact /\ ReadersExact /\ WaitersExact

LEMMA SensorMailKinds ==
  ASSUME NEW m \in SensorMessage
  PROVE  /\ m.type \in {"courier", "notify", "readAll", "wait"}
         /\ m.type = "readAll" => m.from \in ReadTask
         /\ m.type = "wait" => m.from \in WaitTask /\ m.sensor \in Watched
         /\ \A r : m \in ReadMail(r) <=> m.type = "readAll" /\ m.from = r
         /\ \A w : m \in WaitMail(w) <=> m.type = "wait" /\ m.from = w
<1>1. CASE m \in [type : {"courier", "notify"}]
  BY <1>1 DEF ReadMail, WaitMail
<1>2. CASE m \in [type : {"readAll"}, from : ReadTask]
  BY <1>2 DEF ReadMail, WaitMail
<1>3. CASE m \in [type : {"wait"}, from : WaitTask, sensor : Watched]
  BY <1>3 DEF ReadMail, WaitMail
<1> QED BY <1>1, <1>2, <1>3 DEF SensorMessage

LEMMA SensorMailSent ==
  ASSUME NEW m \in SensorMessage, sensorInbox \in Seq(SensorMessage),
         sensorInbox' = Append(sensorInbox, m)
  PROVE  /\ sensorInbox' \in Seq(SensorMessage)
         /\ \A r : Reads(r)' = Reads(r) + One(m.type = "readAll" /\ m.from = r)
         /\ \A w : Waits(w)' = Waits(w) + One(m.type = "wait" /\ m.from = w)
<1>1. sensorInbox' \in Seq(SensorMessage)
  BY AppendProperties
<1>2. /\ \A r : Reads(r)' = Reads(r) + One(m \in ReadMail(r))
      /\ \A w : Waits(w)' = Waits(w) + One(m \in WaitMail(w))
  BY CountAppend DEF Reads, Waits
<1> QED BY <1>1, <1>2, SensorMailKinds DEF One

LEMMA SensorMailReceived ==
  ASSUME NEW m, sensorInbox \in Seq(SensorMessage), sensorInbox # <<>>, m = Head(sensorInbox),
         sensorInbox' = Tail(sensorInbox)
  PROVE  /\ m \in SensorMessage /\ sensorInbox' \in Seq(SensorMessage)
         /\ \A r : Reads(r)' = Reads(r) - One(m.type = "readAll" /\ m.from = r)
         /\ \A w : Waits(w)' = Waits(w) - One(m.type = "wait" /\ m.from = w)
<1>1. m \in SensorMessage /\ sensorInbox' \in Seq(SensorMessage)
  BY HeadTailProperties
<1>2. /\ \A r : Reads(r)' = Reads(r) - One(m \in ReadMail(r))
      /\ \A w : Waits(w)' = Waits(w) - One(m \in WaitMail(w))
  BY CountTail DEF Reads, Waits
<1> QED BY <1>1, <1>2, SensorMailKinds DEF One

LEMMA SensorCounts ==
  ASSUME NEW box \in Seq(SensorMessage), NEW q \in Seq(ReadTask)
  PROVE  \A x : /\ Count(box, ReadMail(x)) \in Nat
                /\ Count(box, WaitMail(x)) \in Nat
                /\ Count(q, {x}) \in Nat
BY PlacesFinite

LEMMA SpotsFinite ==
  ASSUME NEW S \in SUBSET Sensor
  PROVE  IsFiniteSet(S) /\ Cardinality(S) \in Nat /\ (Cardinality(S) = 0 <=> S = {})
<1>1. GROUPS * PER_GROUP - 1 \in Int
  BY SensorsAssumption
<1>2. IsFiniteSet(Sensor)
  BY <1>1, FS_Interval DEF Sensor
<1> QED BY <1>2, FS_Subset, FS_CardinalityType, FS_EmptySet

\* The slots that are free and those in use are all different.
LEMMA SlotsDiffer ==
  ASSUME qBodyFree \in Seq(Index), qBodyIndex \in Seq(Index), Len(Slots) = READS,
         {Slots[i] : i \in 1 .. READS} = Index
  PROVE  \A i, j \in 1 .. READS : Slots[i] = Slots[j] => i = j
<1>1. READS \in Nat
  BY SensorsAssumption
<1>2. Slots \in Seq(Index)
  BY ConcatProperties DEF Slots
<1>3. Slots \in [1 .. READS -> Index]
  BY <1>2, LenProperties
<1>4. /\ IsFiniteSet(1 .. READS) /\ Cardinality(1 .. READS) = READS
      /\ IsFiniteSet(Index) /\ Cardinality(Index) = READS
  <2> DEFINE k == READS - 1
  <2>1. k \in Int /\ 0 \in Int
    BY <1>1
  <2>2. /\ IsFiniteSet(1 .. READS)
        /\ Cardinality(1 .. READS) = IF 1 > READS THEN 0 ELSE READS - 1 + 1
    <3>1. 1 \in Int /\ READS \in Int
      BY <1>1
    <3> QED BY <3>1, FS_Interval
  <2> HIDE DEF k
  <2>3. IsFiniteSet(0 .. k) /\ Cardinality(0 .. k) = IF 0 > k THEN 0 ELSE k - 0 + 1
    BY <2>1, FS_Interval
  <2> QED BY <1>1, <2>2, <2>3 DEF Index, k
<1>5. Slots \in Surjection(1 .. READS, Index)
  BY <1>3, Fun_IsSurj
<1>6. Slots \in Injection(1 .. READS, Index)
  BY <1>4, <1>5, FS_SurjSameCardinalityImpliesInj
<1> QED BY <1>6 DEF Injection, IsInjective

\* Where the queues are as they were, the slots are exact as they were.
LEMMA SlotsKeep ==
  ASSUME SlotsExact, UNCHANGED queueVars
  PROVE  SlotsExact'
BY DEF SlotsExact, queueVars, Slots

LEMMA SensorsInvInit == SensorsInit => SensorsInv
<1> SUFFICES ASSUME SensorsInit PROVE SensorsInv
  OBVIOUS
<1> USE SensorsAssumption
<1>0. READS \in Nat /\ sensorInbox = <<>> /\ qTask = <<>> /\ qBodyIndex = <<>> /\ Len(<<>>) = 0
  BY DEF SensorsInit
<1>1. /\ sensorInbox \in Seq(SensorMessage) /\ qTask \in Seq(ReadTask) /\ qBodyIndex \in Seq(Index)
  BY <1>0, EmptySeq
<1>2. /\ qBodyFree \in [1 .. READS -> Index] /\ \A i \in 1 .. READS : qBodyFree[i] = i - 1
  BY <1>0 DEF SensorsInit, Index
<1>3. qBodyFree \in Seq(Index) /\ Len(qBodyFree) = READS
  BY <1>0, <1>2, SeqDef, LenProperties
<1>4. Slots = qBodyFree
  BY <1>0, <1>3, ConcatEmptySeq DEF Slots
<1>5. {Slots[i] : i \in 1 .. READS} = Index
  <2>1. \A k \in Index : k + 1 \in 1 .. READS /\ qBodyFree[k + 1] = k
    BY <1>0, <1>2 DEF Index
  <2> QED BY <1>2, <1>4, <2>1
<1>6. SlotsExact
  BY <1>0, <1>3, <1>4, <1>5 DEF SlotsExact
<1>7. SensorTypes
  <2>1. sensorBuffer \subseteq Sensor /\ changed \in BOOLEAN /\ scan \subseteq Sensor
    BY DEF SensorsInit
  <2>2. comparing \in Idle .. GROUPS /\ received \in 0 .. GROUPS /\ received < GROUPS
    BY DEF SensorsInit, Idle
  <2>3. /\ aTaskSensorBlocked \in [Sensor -> WaitTask \cup {NoWaiter}]
        /\ reader \in [ReadTask -> {"run", "sent"}] /\ waiter \in [WaitTask -> {"run", "sent"}]
    BY DEF SensorsInit
  <2>4. SensorsTypeOK
    BY <2>1, <2>2, <2>3 DEF SensorsInit, SensorsTypeOK
  <2> QED BY <1>1, <1>3, <2>2, <2>4 DEF SensorsInit, SensorTypes, Index
<1>8. ReadersExact
  <2>1. \A r : Reads(r) = 0 /\ Count(qTask, {r}) = 0
    BY <1>0, CountEmpty DEF Reads
  <2> QED BY <2>1 DEF SensorsInit, ReadersExact, One
<1>9. WaitersExact
  <2>1. ASSUME NEW w \in WaitTask PROVE Waits(w) = 0 /\ Cardinality(Spots(w)) = 0
    <3>1. Spots(w) = {}
      BY DEF SensorsInit, Spots
    <3> QED BY <1>0, <3>1, CountEmpty, FS_EmptySet DEF Waits
  <2> QED BY <2>1 DEF SensorsInit, WaitersExact, One
<1> QED BY <1>6, <1>7, <1>8, <1>9 DEF SensorsInv

\* A reader whose message comes has a free slot.
LEMMA SlotIsFree ==
  ASSUME SensorsInv, NEW r \in ReadTask, Count(qTask, {r}) = 0
  PROVE  qBodyFree # <<>>
<1>1. /\ qTask \in Seq(ReadTask) /\ qBodyIndex \in Seq(Index) /\ qBodyFree \in Seq(Index)
      /\ sensorInbox \in Seq(SensorMessage)
  BY DEF SensorsInv, SensorTypes
<1> DEFINE q == Append(qTask, r)
<1>2. q \in Seq(ReadTask) /\ Len(q) = Len(qTask) + 1 /\ Len(qTask) \in Nat
  BY <1>1, AppendProperties, LenProperties
<1>3. ASSUME NEW x \in ReadTask PROVE Count(q, {x}) <= 1
  <2>1. Count(q, {x}) = Count(qTask, {x}) + One(r \in {x})
    BY <1>1, CountAppend
  <2>2. Reads(x) \in Nat /\ Count(qTask, {x}) \in Nat
    BY <1>1, SensorCounts DEF Reads
  <2>3. Count(qTask, {x}) <= 1
    BY <2>2 DEF SensorsInv, ReadersExact, One
  <2> QED BY <2>1, <2>2, <2>3 DEF One
<1> HIDE DEF q
<1>4. Len(q) <= Cardinality(ReadTask)
  BY <1>2, <1>3, CountBound, SensorsAssumption
<1>5. Cardinality(ReadTask) \in Nat
  BY SensorsAssumption, FS_CardinalityType
<1>6. Len(qBodyIndex) < READS
  BY <1>2, <1>4, <1>5, SensorsAssumption DEF SensorsInv, SlotsExact
<1>7. Len(qBodyFree) + Len(qBodyIndex) = READS
  BY <1>1, ConcatProperties DEF SensorsInv, SlotsExact, Slots
<1> QED BY <1>6, <1>7, SensorsAssumption

\* A slot moves from the front of the free ones to the back of those in use.
LEMMA SlotTaken ==
  ASSUME SensorsInv, NEW m, ServeReadAll(m), m.from \in ReadTask, qBodyFree # <<>>
  PROVE  /\ SlotsExact'
         /\ qTask' \in Seq(ReadTask) /\ qBodyIndex' \in Seq(Index) /\ qBodyFree' \in Seq(Index)
         /\ qBodyBuffer' \in [Index -> ReadTask \cup {NoReader}]
<1> DEFINE n == Len(qBodyFree)
           l == Len(qBodyIndex)
           x == Head(qBodyFree)
<1>1. /\ qTask \in Seq(ReadTask) /\ qBodyIndex \in Seq(Index) /\ qBodyFree \in Seq(Index)
      /\ qBodyBuffer \in [Index -> ReadTask \cup {NoReader}]
  BY DEF SensorsInv, SensorTypes
<1>2. /\ n \in Nat \ {0} /\ x = qBodyFree[1] /\ x \in Index /\ Tail(qBodyFree) \in Seq(Index)
      /\ Len(Tail(qBodyFree)) = n - 1
      /\ \A i \in 1 .. n - 1 : Tail(qBodyFree)[i] = qBodyFree[i + 1]
  BY <1>1, HeadTailProperties, LenProperties
<1>3. /\ l \in Nat /\ Len(qTask) = l
      /\ \A i \in 1 .. l : qBodyIndex[i] \in Index /\ qBodyBuffer[qBodyIndex[i]] = qTask[i]
  BY <1>1, LenProperties, ElementOfSeq DEF SensorsInv, SlotsExact
<1>4. /\ qTask' = Append(qTask, m.from) /\ qBodyBuffer' = [qBodyBuffer EXCEPT ![x] = m.from]
      /\ qBodyIndex' = Append(qBodyIndex, x) /\ qBodyFree' = Tail(qBodyFree)
  BY DEF ServeReadAll
<1> HIDE DEF x
<1>5. /\ qTask' \in Seq(ReadTask) /\ Len(qTask') = l + 1 /\ qTask'[l + 1] = m.from
      /\ \A i \in 1 .. l : qTask'[i] = qTask[i]
  BY <1>1, <1>3, <1>4, AppendProperties
<1>6. /\ qBodyIndex' \in Seq(Index) /\ Len(qBodyIndex') = l + 1 /\ qBodyIndex'[l + 1] = x
      /\ \A i \in 1 .. l : qBodyIndex'[i] = qBodyIndex[i]
  BY <1>1, <1>2, <1>4, AppendProperties
<1>7. /\ Len(Slots) = n + l /\ READS = n + l
      /\ \A i \in 1 .. n + l : Slots[i] = IF i <= n THEN qBodyFree[i] ELSE qBodyIndex[i - n]
  BY <1>1, ConcatProperties DEF Slots, SensorsInv, SlotsExact
<1>8. /\ Len(Slots') = n - 1 + (l + 1)
      /\ \A i \in 1 .. n - 1 + (l + 1) :
           Slots'[i] = IF i <= n - 1 THEN Tail(qBodyFree)[i] ELSE qBodyIndex'[i - (n - 1)]
  <2>1. Slots' = Tail(qBodyFree) \o qBodyIndex'
    BY <1>4 DEF Slots
  <2> DEFINE f == Tail(qBodyFree)
             u == qBodyIndex'
  <2>2. f \in Seq(Index) /\ u \in Seq(Index)
    BY <1>2, <1>6
  <2> HIDE DEF f, u, n, l
  <2>3. /\ Len(f \o u) = Len(f) + Len(u)
        /\ \A i \in 1 .. Len(f) + Len(u) :
             (f \o u)[i] = IF i <= Len(f) THEN f[i] ELSE u[i - Len(f)]
    BY <2>2, ConcatProperties
  <2>4. Slots' = f \o u /\ Len(f) = n - 1 /\ Len(u) = l + 1
    BY <1>2, <1>6, <2>1 DEF f, u
  <2> QED BY <2>3, <2>4 DEF f, u
<1>9. \A i, j \in 1 .. READS : Slots[i] = Slots[j] => i = j
  BY <1>1, SlotsDiffer DEF SensorsInv, SlotsExact
<1> HIDE DEF n, l
<1>10. ASSUME NEW i \in 1 .. l PROVE qBodyIndex[i] # x
  <2>1. i + n \in 1 .. n + l /\ 1 \in 1 .. n + l /\ i + n # 1 /\ ~(i + n <= n) /\ i + n - n = i /\ 1 <= n
    BY <1>2, <1>3
  <2>2. Slots[i + n] = qBodyIndex[i] /\ Slots[1] = x
    BY <1>2, <1>7, <2>1
  <2> QED BY <1>7, <1>9, <2>1, <2>2
<1>11. qBodyBuffer' \in [Index -> ReadTask \cup {NoReader}]
  BY <1>1, <1>2, <1>4
<1>12. \A i \in 1 .. Len(qTask') : qBodyBuffer'[qBodyIndex'[i]] = qTask'[i]
  <2> SUFFICES ASSUME NEW i \in 1 .. l + 1 PROVE qBodyBuffer'[qBodyIndex'[i]] = qTask'[i]
    BY <1>5
  <2>1. CASE i \in 1 .. l
    BY <1>1, <1>3, <1>4, <1>5, <1>6, <1>10, <2>1
  <2>2. CASE i = l + 1
    BY <1>1, <1>2, <1>4, <1>5, <1>6, <2>2
  <2> QED BY <1>3, <2>1, <2>2
<1>13. Len(Slots') = READS
  BY <1>2, <1>3, <1>7, <1>8
<1>14. ASSUME NEW i \in 1 .. READS PROVE Slots'[i] = IF i < READS THEN Slots[i + 1] ELSE x
  <2>0. i \in 1 .. n + l /\ i \in 1 .. n - 1 + (l + 1) /\ n \in Nat /\ l \in Nat /\ n > 0
    BY <1>2, <1>3, <1>7
  <2>1. CASE i <= n - 1
    <3>1. Slots'[i] = qBodyFree[i + 1]
      BY <1>2, <1>8, <2>0, <2>1
    <3>2. Slots[i + 1] = qBodyFree[i + 1] /\ i < READS
      BY <1>7, <2>0, <2>1
    <3> QED BY <3>1, <3>2
  <2>2. CASE i >= n /\ i < n + l
    <3>1. i - (n - 1) = i + 1 - n /\ i - (n - 1) \in 1 .. l
      BY <2>0, <2>2
    <3>2. Slots'[i] = qBodyIndex[i - (n - 1)]
      BY <1>6, <1>8, <2>0, <2>2, <3>1
    <3>3. i + 1 \in 1 .. n + l /\ ~(i + 1 <= n) /\ i < READS
      BY <1>7, <2>0, <2>2
    <3>4. Slots[i + 1] = qBodyIndex[i + 1 - n]
      BY <1>7, <2>0, <3>3
    <3> QED BY <3>1, <3>2, <3>3, <3>4
  <2>3. CASE i = n + l
    <3>1. i - (n - 1) = l + 1 /\ ~(i <= n - 1) /\ ~(i < READS)
      BY <1>7, <2>0, <2>3
    <3>2. Slots'[i] = qBodyIndex'[l + 1]
      BY <1>8, <2>0, <3>1
    <3> QED BY <1>6, <3>1, <3>2
  <2> QED BY <2>0, <2>1, <2>2, <2>3
<1>15. {Slots'[i] : i \in 1 .. READS} = Index
  <2>0. READS \in Nat \ {0} /\ Slots[1] = x
    BY <1>2, <1>3, <1>7
  <2>1. {Slots[i] : i \in 1 .. READS} = Index
    BY DEF SensorsInv, SlotsExact
  <2>2. ASSUME NEW i \in 1 .. READS PROVE Slots'[i] \in Index
    <3>1. i < READS => i + 1 \in 1 .. READS
      BY <2>0
    <3> QED BY <1>2, <1>14, <2>1, <3>1
  <2>3. ASSUME NEW k \in Index PROVE \E i \in 1 .. READS : Slots'[i] = k
    <3>1. PICK j \in 1 .. READS : Slots[j] = k
      BY <2>1
    <3>2. CASE j = 1
      <4>1. READS \in 1 .. READS /\ ~(READS < READS)
        BY <2>0
      <4>2. Slots'[READS] = k
        BY <1>14, <2>0, <3>1, <3>2, <4>1
      <4> QED BY <4>1, <4>2
    <3>3. CASE j # 1
      <4>1. j - 1 \in 1 .. READS /\ j - 1 < READS /\ j - 1 + 1 = j
        BY <2>0, <3>3
      <4>2. Slots'[j - 1] = Slots[j]
        BY <1>14, <4>1
      <4> QED BY <3>1, <4>1, <4>2
    <3> QED BY <3>2, <3>3
  <2> QED BY <2>2, <2>3
<1> QED
  BY <1>2, <1>4, <1>5, <1>6, <1>11, <1>12, <1>13, <1>15 DEF SlotsExact

\* All readers in the queue are answered, and no other, and their arrays were filled.
LEMMA ReadersAnswered ==
  ASSUME SensorsInv, EndComparison, changed
  PROVE  SlotsExact' /\ ReadersExact'
         /\ qTask' \in Seq(ReadTask) /\ qBodyIndex' \in Seq(Index) /\ qBodyFree' \in Seq(Index)
         /\ reader' \in [ReadTask -> {"run", "sent"}] /\ filled' \subseteq ReadTask
<1>1. /\ qTask \in Seq(ReadTask) /\ qBodyIndex \in Seq(Index) /\ qBodyFree \in Seq(Index)
      /\ sensorInbox \in Seq(SensorMessage) /\ reader \in [ReadTask -> {"run", "sent"}]
      /\ filled \subseteq ReadTask
  BY DEF SensorsInv, SensorTypes, SensorsTypeOK
<1>2. /\ reader' = [r \in ReadTask |-> IF r \in Woken THEN "run" ELSE reader[r]]
      /\ filled' = filled \cup Arrays /\ qTask' = <<>> /\ qBodyIndex' = <<>>
      /\ qBodyFree' = Slots /\ qBodyBuffer' = qBodyBuffer /\ sensorInbox' = sensorInbox
  BY DEF EndComparison, SlotsFreed, Slots
<1>3. Arrays = Woken /\ Woken \subseteq ReadTask
  <2>1. Len(qTask) = Len(qBodyIndex) /\ \A i \in 1 .. Len(qTask) : qBodyBuffer[qBodyIndex[i]] = qTask[i]
    BY DEF SensorsInv, SlotsExact
  <2>2. \A i \in 1 .. Len(qTask) : qTask[i] \in ReadTask
    BY <1>1, ElementOfSeq
  <2> QED BY <2>1, <2>2 DEF Arrays, Woken
<1>4. Slots \in Seq(Index) /\ Len(<<>>) = 0
  BY <1>1, ConcatProperties DEF Slots
<1>5. Slots' = Slots
  BY <1>2, <1>4, ConcatEmptySeq DEF Slots
<1>6. SlotsExact'
  BY <1>2, <1>4, <1>5 DEF SensorsInv, SlotsExact
<1>7. ASSUME NEW r \in ReadTask
      PROVE  /\ reader'[r] = "run" <=> r \in filled'
             /\ Reads(r)' + Count(qTask, {r})' = One(reader'[r] = "sent")
  <2>1. Reads(r)' = Reads(r) /\ Reads(r) \in Nat /\ Count(qTask, {r}) \in Nat
    BY <1>1, <1>2, SensorCounts DEF Reads
  <2>2. Count(qTask, {r})' = 0
    BY <1>2, CountEmpty
  <2>3. r \in Woken <=> Count(qTask, {r}) # 0
    BY <1>1, CountZero DEF Woken
  <2>4. /\ reader[r] = "run" <=> r \in filled
        /\ Reads(r) + Count(qTask, {r}) = One(reader[r] = "sent")
    BY DEF SensorsInv, ReadersExact
  <2>5. reader'[r] = IF r \in Woken THEN "run" ELSE reader[r]
    BY <1>2
  <2>6. reader'[r] = "run" <=> r \in filled'
    BY <1>2, <1>3, <2>4, <2>5
  <2>7. Reads(r)' + Count(qTask, {r})' = One(reader'[r] = "sent")
    BY <2>1, <2>2, <2>3, <2>4, <2>5 DEF One
  <2> QED BY <2>6, <2>7
<1>8. ReadersExact'
  BY <1>7 DEF ReadersExact
<1> QED BY <1>1, <1>2, <1>3, <1>4, <1>6, <1>8, EmptySeq

\* A task that waits for a sensor is answered, or it stays where it was.
LEMMA WaitersAnswered ==
  ASSUME SensorsInv, CompareGroup
  PROVE  WaitersExact' /\ waiter' \in [WaitTask -> {"run", "sent"}]
         /\ aTaskSensorBlocked' \in [Sensor -> WaitTask \cup {NoWaiter}]
<1> PICK served :
      /\ served = {s \in Rising(InGroup(sensorBuffer, comparing), InGroup(scan, comparing)) :
                     aTaskSensorBlocked[s] # NoWaiter}
  OBVIOUS
<1>1. /\ waiter' = [w \in WaitTask |->
                      IF \E s \in served : aTaskSensorBlocked[s] = w THEN "run" ELSE waiter[w]]
      /\ aTaskSensorBlocked' = [s \in Sensor |->
                                  IF s \in served THEN NoWaiter ELSE aTaskSensorBlocked[s]]
      /\ sensorInbox' = sensorInbox
  BY DEF CompareGroup
<1>2. served \subseteq Sensor
  BY DEF Rising, InGroup, SensorsInv, SensorTypes, SensorsTypeOK
<1>3. /\ waiter \in [WaitTask -> {"run", "sent"}] /\ sensorInbox \in Seq(SensorMessage)
      /\ aTaskSensorBlocked \in [Sensor -> WaitTask \cup {NoWaiter}]
  BY DEF SensorsInv, SensorTypes, SensorsTypeOK
<1>4. ASSUME NEW w \in WaitTask
      PROVE  /\ Waits(w)' + Cardinality(Spots(w)') <= One(waiter'[w] = "sent")
             /\ waiter'[w] = "sent" /\ Waits(w)' + Cardinality(Spots(w)') = 0 =>
                  Cardinality(WaitTask) > 1
  <2>1. Waits(w)' = Waits(w) /\ Waits(w) \in Nat
    <3>1. Count(sensorInbox, WaitMail(w)) \in Nat
      BY <1>3, PlacesFinite
    <3> QED BY <1>1, <3>1 DEF Waits
  <2>2. w # NoWaiter
    BY SensorsAssumption
  <2>3. /\ Spots(w) \subseteq Sensor /\ Cardinality(Spots(w)) \in Nat
        /\ Cardinality(Spots(w)) = 0 <=> Spots(w) = {}
    BY SpotsFinite DEF Spots
  <2>4. /\ Waits(w) + Cardinality(Spots(w)) <= One(waiter[w] = "sent")
        /\ waiter[w] = "sent" /\ Waits(w) + Cardinality(Spots(w)) = 0 => Cardinality(WaitTask) > 1
    BY DEF SensorsInv, WaitersExact
  <2>5. Spots(w)' = Spots(w) \ served
    BY <1>1, <2>2 DEF Spots
  <2>6. CASE \E s \in served : aTaskSensorBlocked[s] = w
    <3> PICK s \in served : aTaskSensorBlocked[s] = w
      BY <2>6
    <3>1. s \in Spots(w) /\ IsFiniteSet(Spots(w))
      BY <1>2, <2>3, SpotsFinite DEF Spots
    <3>2. Cardinality(Spots(w)) = 1 /\ Waits(w) = 0
      BY <2>1, <2>3, <2>4, <3>1 DEF One
    <3>3. Cardinality(Spots(w) \ {s}) = 0
      <4>1. Cardinality(Spots(w) \ {s}) = Cardinality(Spots(w)) - 1
        BY <3>1, FS_RemoveElement
      <4> QED BY <3>2, <4>1
    <3>4. Spots(w) \ {s} = {}
      BY <2>3, <3>3, SpotsFinite
    <3>5. Spots(w)' = {}
      BY <2>5, <3>4
    <3>6. Cardinality(Spots(w)') = 0 /\ waiter'[w] = "run"
      BY <1>1, <2>6, <3>5, FS_EmptySet
    <3> QED BY <2>1, <3>2, <3>6 DEF One
  <2>7. CASE ~\E s \in served : aTaskSensorBlocked[s] = w
    <3>1. Spots(w)' = Spots(w) /\ waiter'[w] = waiter[w]
      BY <1>1, <2>5, <2>7 DEF Spots
    <3> QED BY <2>1, <2>4, <3>1
  <2> QED BY <2>6, <2>7
<1>5. WaitersExact'
  BY <1>4 DEF WaitersExact
<1> QED BY <1>1, <1>2, <1>3, <1>5

\* A task that takes the place of another is not that task.
LEMMA WaiterReplaces ==
  ASSUME SensorsInv, NEW m, m = Head(sensorInbox), sensorInbox # <<>>, m.type = "wait",
         sensorInbox' = Tail(sensorInbox), waiter' = waiter,
         aTaskSensorBlocked' = [aTaskSensorBlocked EXCEPT ![m.sensor] = m.from]
  PROVE  WaitersExact' /\ aTaskSensorBlocked' \in [Sensor -> WaitTask \cup {NoWaiter}]
<1> DEFINE v == m.from
           z == m.sensor
<1>1. /\ sensorInbox \in Seq(SensorMessage)
      /\ aTaskSensorBlocked \in [Sensor -> WaitTask \cup {NoWaiter}]
  BY DEF SensorsInv, SensorTypes, SensorsTypeOK
<1>2. /\ m \in SensorMessage /\ sensorInbox' \in Seq(SensorMessage)
      /\ \A w : Waits(w)' = Waits(w) - One(w = v)
  <2>1. /\ m \in SensorMessage /\ sensorInbox' \in Seq(SensorMessage)
        /\ \A w : Waits(w)' = Waits(w) - One(m.type = "wait" /\ m.from = w)
    BY <1>1, SensorMailReceived
  <2> QED BY <2>1 DEF One
<1>3. v \in WaitTask /\ z \in Sensor /\ v # NoWaiter
  BY <1>2, SensorMailKinds, SensorsAssumption
<1> HIDE DEF v, z
<1>4. \A s \in Sensor : aTaskSensorBlocked'[s] = IF s = z THEN v ELSE aTaskSensorBlocked[s]
  BY <1>1, <1>3 DEF v, z
<1>5. ASSUME NEW w \in WaitTask
      PROVE  /\ Waits(w) \in Nat /\ Waits(w)' \in Nat
             /\ Spots(w) \subseteq Sensor /\ IsFiniteSet(Spots(w)) /\ Cardinality(Spots(w)) \in Nat
             /\ Waits(w) + Cardinality(Spots(w)) <= One(waiter[w] = "sent")
             /\ waiter[w] = "sent" /\ Waits(w) + Cardinality(Spots(w)) = 0 =>
                  Cardinality(WaitTask) > 1
  <2>1. Count(sensorInbox, WaitMail(w)) \in Nat /\ Count(sensorInbox', WaitMail(w)) \in Nat
    BY <1>1, <1>2, PlacesFinite
  <2>2. Spots(w) \subseteq Sensor
    BY DEF Spots
  <2>3. IsFiniteSet(Spots(w)) /\ Cardinality(Spots(w)) \in Nat
    BY <2>2, SpotsFinite
  <2> QED BY <2>1, <2>2, <2>3 DEF Waits, SensorsInv, WaitersExact
<1>6. /\ Spots(v) = {} /\ Waits(v) = 1 /\ waiter[v] = "sent"
  <2>1. Waits(v)' = Waits(v) - 1
    BY <1>2 DEF One
  <2>2. Waits(v) = 1 /\ Cardinality(Spots(v)) = 0 /\ waiter[v] = "sent"
    BY <1>3, <1>5, <2>1 DEF One
  <2> QED BY <1>3, <1>5, <2>2, SpotsFinite
<1>7. ASSUME NEW w \in WaitTask
      PROVE  /\ Waits(w)' + Cardinality(Spots(w)') <= One(waiter'[w] = "sent")
             /\ waiter'[w] = "sent" /\ Waits(w)' + Cardinality(Spots(w)') = 0 =>
                  Cardinality(WaitTask) > 1
  <2>1. CASE w = v
    <3>1. Spots(w)' = {z}
      BY <1>3, <1>4, <1>6, <2>1 DEF Spots
    <3>2. Cardinality({z}) = 1
      BY FS_Singleton
    <3>3. Waits(w)' = 0
      BY <1>2, <1>6, <2>1 DEF One
    <3> QED BY <1>6, <2>1, <3>1, <3>2, <3>3 DEF One
  <2>2. CASE w # v /\ z \in Spots(w)
    <3>1. Spots(w)' = Spots(w) \ {z}
      BY <1>4, <2>2 DEF Spots
    <3>2. Cardinality(Spots(w)') = Cardinality(Spots(w)) - 1
      BY <1>5, <2>2, <3>1, FS_RemoveElement
    <3>3. Waits(w)' = Waits(w)
      BY <1>2, <1>5, <2>2 DEF One
    <3>4. Cardinality(WaitTask) > 1
      <4>1. v \in WaitTask \ {w} /\ IsFiniteSet(WaitTask)
        BY <1>3, <2>2, SensorsAssumption
      <4>2. /\ Cardinality(WaitTask \ {w}) = Cardinality(WaitTask) - 1
            /\ IsFiniteSet(WaitTask \ {w}) /\ Cardinality(WaitTask) \in Nat
        BY <4>1, FS_RemoveElement, FS_CardinalityType
      <4>3. Cardinality(WaitTask \ {w}) \in Nat /\ Cardinality(WaitTask \ {w}) # 0
        BY <4>1, <4>2, FS_CardinalityType, FS_EmptySet
      <4> QED BY <4>2, <4>3
    <3> QED BY <1>5, <3>2, <3>3, <3>4 DEF One
  <2>3. CASE w # v /\ z \notin Spots(w)
    <3>1. Spots(w)' = Spots(w)
      BY <1>3, <1>4, <2>3 DEF Spots
    <3>2. Waits(w)' = Waits(w)
      BY <1>2, <1>5, <2>3 DEF One
    <3> QED BY <1>5, <3>1, <3>2
  <2> QED BY <2>1, <2>2, <2>3
<1>8. aTaskSensorBlocked' \in [Sensor -> WaitTask \cup {NoWaiter}]
  BY <1>1, <1>3 DEF v
<1> QED BY <1>7, <1>8 DEF WaitersExact

LEMMA SensorsInvNext == SensorsInv /\ [SensorsNext]_SensorVars => SensorsInv'
<1> SUFFICES ASSUME SensorsInv, [SensorsNext]_SensorVars PROVE SensorsInv'
  OBVIOUS
<1> USE SensorsAssumption
<1>a. /\ sensorInbox \in Seq(SensorMessage) /\ qTask \in Seq(ReadTask)
      /\ qBodyIndex \in Seq(Index) /\ qBodyFree \in Seq(Index)
      /\ reader \in [ReadTask -> {"run", "sent"}] /\ waiter \in [WaitTask -> {"run", "sent"}]
  BY DEF SensorsInv, SensorTypes, SensorsTypeOK
<1>b. \A x : /\ Reads(x) \in Nat /\ Waits(x) \in Nat /\ Count(qTask, {x}) \in Nat
  BY <1>a, SensorCounts DEF Reads, Waits
<1>c. UNCHANGED sensorInbox => \A x : Reads(x)' = Reads(x) /\ Waits(x)' = Waits(x)
  BY DEF Reads, Waits
<1>d. UNCHANGED <<sensorInbox, qTask, reader, filled>> => ReadersExact'
  BY <1>c DEF SensorsInv, ReadersExact
<1>e. UNCHANGED <<sensorInbox, aTaskSensorBlocked, waiter>> => WaitersExact'
  BY <1>c DEF SensorsInv, WaitersExact, Spots
<1>f. UNCHANGED queueVars => SlotsExact'
  BY SlotsKeep DEF SensorsInv
<1>0. CASE UNCHANGED SensorVars
  <2>1. SensorTypes'
    BY <1>0 DEF SensorVars, compareVars, scanVars, queueVars, SensorsInv, SensorTypes, SensorsTypeOK
  <2> QED BY <1>0, <1>d, <1>e, <1>f, <2>1 DEF SensorVars, queueVars, SensorsInv
<1>1. CASE DriverReceives
  <2>1. PICK pressed \in SUBSET InGroup(Sensor, received) :
          scan' = (scan \ InGroup(Sensor, received)) \cup pressed
    BY <1>1 DEF DriverReceives
  <2>2. scan' \subseteq Sensor
    BY <2>1 DEF InGroup, SensorsInv, SensorTypes, SensorsTypeOK
  <2>3. SensorTypes'
    <3>1. received' \in 0 .. GROUPS /\ (courierAt' = "scanning" => received' < GROUPS)
          /\ courierAt' \in {"scanning", "bring", "brought"}
      BY <1>1 DEF DriverReceives, SensorsInv, SensorTypes, SensorsTypeOK
    <3> QED
      BY <1>1, <2>2, <3>1 DEF DriverReceives, compareVars, queueVars, SensorsInv, SensorTypes,
           SensorsTypeOK
  <2> QED BY <1>1, <1>d, <1>e, <1>f, <2>3 DEF DriverReceives, queueVars, SensorsInv
<1>2. ASSUME NEW m \in SensorMessage, m.type \in {"courier", "notify"},
             CourierBrings \/ StartupDelayEnds, SendsSensors(m)
      PROVE  SensorsInv'
  <2>1. /\ sensorInbox' \in Seq(SensorMessage)
        /\ \A r : Reads(r)' = Reads(r) + One(m.type = "readAll" /\ m.from = r)
        /\ \A w : Waits(w)' = Waits(w) + One(m.type = "wait" /\ m.from = w)
    BY <1>2, <1>a, SensorMailSent DEF SendsSensors
  <2>2. ASSUME NEW x PROVE Reads(x)' = Reads(x) /\ Waits(x)' = Waits(x)
    <3>1. Reads(x)' = Reads(x) + 0 /\ Waits(x)' = Waits(x) + 0
      BY <1>2, <2>1 DEF One
    <3>2. Reads(x) \in Nat /\ Waits(x) \in Nat
      BY <1>b
    <3> QED BY <3>1, <3>2
  <2>3. /\ UNCHANGED <<compareVars, startupStage, queueVars, aTaskSensorBlocked, scanVars>>
        /\ UNCHANGED <<reader, filled, waiter>>
        /\ courierAt' \in {courierAt, "brought"}
    BY <1>2 DEF CourierBrings, StartupDelayEnds, SendsSensors
  <2>4. SensorTypes'
    BY <2>1, <2>3 DEF compareVars, scanVars, queueVars, SensorsInv, SensorTypes, SensorsTypeOK
  <2>5. ReadersExact'
    BY <2>2, <2>3 DEF queueVars, SensorsInv, ReadersExact
  <2>6. WaitersExact'
    BY <2>2, <2>3 DEF SensorsInv, WaitersExact, Spots
  <2> QED BY <1>f, <2>3, <2>4, <2>5, <2>6 DEF SensorsInv
<1>3. ASSUME NEW r \in ReadTask, ReadAllSensors(r) PROVE SensorsInv'
  <2> DEFINE m == [type |-> "readAll", from |-> r]
  <2>1. m \in SensorMessage /\ m.type = "readAll" /\ m.from = r
    BY DEF SensorMessage
  <2>2. /\ sensorInbox' = Append(sensorInbox, m) /\ reader[r] = "run"
        /\ reader' = [reader EXCEPT ![r] = "sent"] /\ filled' = filled \ {r}
        /\ UNCHANGED <<compareVars, startupStage, queueVars, aTaskSensorBlocked, scanVars>>
        /\ UNCHANGED <<courierAt, delay, waiter>>
    BY <1>3 DEF ReadAllSensors, SendsSensors
  <2> HIDE DEF m
  <2>3. /\ sensorInbox' \in Seq(SensorMessage)
        /\ \A x : Reads(x)' = Reads(x) + One(m.type = "readAll" /\ m.from = x)
        /\ \A w : Waits(w)' = Waits(w) + One(m.type = "wait" /\ m.from = w)
    BY <1>a, <2>1, <2>2, SensorMailSent
  <2>4. SensorTypes'
    <3>1. reader' \in [ReadTask -> {"run", "sent"}] /\ filled' \subseteq ReadTask
      BY <1>a, <2>2 DEF SensorsInv, SensorTypes
    <3> QED
      BY <2>2, <2>3, <3>1 DEF compareVars, scanVars, queueVars, SensorsInv, SensorTypes,
           SensorsTypeOK
  <2>5. ReadersExact'
    <3> SUFFICES ASSUME NEW x \in ReadTask
                 PROVE  /\ reader'[x] = "run" <=> x \in filled'
                        /\ Reads(x)' + Count(qTask', {x}) = One(reader'[x] = "sent")
      BY DEF ReadersExact
    <3>1. /\ reader[x] = "run" <=> x \in filled
          /\ Reads(x) + Count(qTask, {x}) = One(reader[x] = "sent")
      BY DEF SensorsInv, ReadersExact
    <3>2. Reads(x)' = Reads(x) + One(r = x) /\ qTask' = qTask
      BY <2>1, <2>2, <2>3 DEF One, queueVars
    <3>3. reader'[x] = IF x = r THEN "sent" ELSE reader[x]
      BY <1>a, <2>2
    <3> QED BY <1>b, <2>2, <3>1, <3>2, <3>3 DEF One
  <2>6. WaitersExact'
    <3>1. ASSUME NEW w PROVE Waits(w)' = Waits(w)
      <4>1. Waits(w)' = Waits(w) + 0
        BY <2>1, <2>3 DEF One
      <4>2. Waits(w) \in Nat
        BY <1>b
      <4> QED BY <4>1, <4>2
    <3> QED BY <2>2, <3>1 DEF SensorsInv, WaitersExact, Spots
  <2> QED BY <1>f, <2>2, <2>4, <2>5, <2>6 DEF SensorsInv
<1>4. ASSUME NEW w \in WaitTask, NEW s \in Watched, WaitForSensor(w, s) PROVE SensorsInv'
  <2> DEFINE m == [type |-> "wait", from |-> w, sensor |-> s]
  <2>1. m \in SensorMessage /\ m.type = "wait" /\ m.from = w
    BY DEF SensorMessage
  <2>2. /\ sensorInbox' = Append(sensorInbox, m) /\ waiter[w] = "run"
        /\ waiter' = [waiter EXCEPT ![w] = "sent"]
        /\ UNCHANGED <<compareVars, startupStage, queueVars, aTaskSensorBlocked, scanVars>>
        /\ UNCHANGED <<courierAt, delay, reader, filled>>
    BY <1>4 DEF WaitForSensor, SendsSensors
  <2> HIDE DEF m
  <2>3. /\ sensorInbox' \in Seq(SensorMessage)
        /\ \A x : Reads(x)' = Reads(x) + One(m.type = "readAll" /\ m.from = x)
        /\ \A x : Waits(x)' = Waits(x) + One(m.type = "wait" /\ m.from = x)
    BY <1>a, <2>1, <2>2, SensorMailSent
  <2>4. SensorTypes'
    <3>1. waiter' \in [WaitTask -> {"run", "sent"}]
      BY <1>a, <2>2
    <3> QED
      BY <2>2, <2>3, <3>1 DEF compareVars, scanVars, queueVars, SensorsInv, SensorTypes,
           SensorsTypeOK
  <2>5. WaitersExact'
    <3> SUFFICES ASSUME NEW x \in WaitTask
                 PROVE  /\ Waits(x)' + Cardinality(Spots(x)') <= One(waiter'[x] = "sent")
                        /\ waiter'[x] = "sent" /\ Waits(x)' + Cardinality(Spots(x)') = 0 =>
                             Cardinality(WaitTask) > 1
      BY DEF WaitersExact
    <3>1. /\ Waits(x) + Cardinality(Spots(x)) <= One(waiter[x] = "sent")
          /\ waiter[x] = "sent" /\ Waits(x) + Cardinality(Spots(x)) = 0 => Cardinality(WaitTask) > 1
      BY DEF SensorsInv, WaitersExact
    <3>2. Waits(x)' = Waits(x) + One(w = x) /\ Spots(x)' = Spots(x)
      BY <2>1, <2>2, <2>3 DEF One, Spots
    <3>3. waiter'[x] = IF x = w THEN "sent" ELSE waiter[x]
      BY <1>a, <2>2
    <3>4. Cardinality(Spots(x)) \in Nat
      BY SpotsFinite DEF Spots
    <3>5. Waits(x) \in Nat
      BY <1>b
    <3>6. CASE x = w
      <4>1. Waits(x) + Cardinality(Spots(x)) = 0 /\ waiter'[x] = "sent" /\ Waits(x)' = Waits(x) + 1
        BY <2>2, <3>1, <3>2, <3>3, <3>4, <3>5, <3>6 DEF One
      <4> QED BY <3>2, <3>4, <3>5, <4>1 DEF One
    <3>7. CASE x # w
      <4>1. Waits(x)' = Waits(x) + 0 /\ waiter'[x] = waiter[x]
        BY <3>2, <3>3, <3>7 DEF One
      <4> QED BY <3>1, <3>2, <3>5, <4>1
    <3> QED BY <3>6, <3>7
  <2>6. ReadersExact'
    <3>1. ASSUME NEW x PROVE Reads(x)' = Reads(x)
      <4>1. Reads(x)' = Reads(x) + 0
        BY <2>1, <2>3 DEF One
      <4>2. Reads(x) \in Nat
        BY <1>b
      <4> QED BY <4>1, <4>2
    <3> QED BY <2>2, <3>1 DEF SensorsInv, ReadersExact, queueVars
  <2> QED BY <1>f, <2>2, <2>4, <2>5, <2>6 DEF SensorsInv
<1>5. CASE ServeSensors
  <2> PICK m : m = Head(sensorInbox)
    OBVIOUS
  <2>1. /\ sensorInbox # <<>> /\ sensorInbox' = Tail(sensorInbox) /\ comparing = Idle
        /\ ServeNotify(m) \/ ServeBuffer(m) \/ ServeReadAll(m) \/ ServeWait(m)
        /\ UNCHANGED <<sensorBuffer, scan, delay, reader, filled, waiter>>
    BY <1>5 DEF ServeSensors
  <2>2. /\ m \in SensorMessage /\ sensorInbox' \in Seq(SensorMessage)
        /\ \A x : Reads(x)' = Reads(x) - One(m.type = "readAll" /\ m.from = x)
        /\ \A x : Waits(x)' = Waits(x) - One(m.type = "wait" /\ m.from = x)
    BY <1>a, <2>1, SensorMailReceived
  <2>3. \A x : Reads(x)' \in Nat /\ Waits(x)' \in Nat
    BY <2>2, PlacesFinite DEF Reads, Waits
  <2>4. ASSUME m.type # "wait", UNCHANGED aTaskSensorBlocked PROVE WaitersExact'
    <3>1. ASSUME NEW x PROVE Waits(x)' = Waits(x)
      <4>1. Waits(x)' = Waits(x) - 0
        BY <2>2, <2>4 DEF One
      <4>2. Waits(x) \in Nat
        BY <1>b
      <4> QED BY <4>1, <4>2
    <3> QED BY <2>1, <2>4, <3>1 DEF SensorsInv, WaitersExact, Spots
  <2>5. ASSUME m.type # "readAll", UNCHANGED queueVars PROVE ReadersExact' /\ SlotsExact'
    <3>1. ASSUME NEW x PROVE Reads(x)' = Reads(x)
      <4>1. Reads(x)' = Reads(x) - 0
        BY <2>2, <2>5 DEF One
      <4>2. Reads(x) \in Nat
        BY <1>b
      <4> QED BY <4>1, <4>2
    <3> QED BY <1>f, <2>1, <2>5, <3>1 DEF SensorsInv, ReadersExact, queueVars
  <2>6. CASE ServeNotify(m)
    <3>1. SensorTypes'
      BY <2>1, <2>2, <2>6 DEF ServeNotify, queueVars, SensorsInv, SensorTypes, SensorsTypeOK
    <3> QED BY <2>4, <2>5, <2>6, <3>1 DEF ServeNotify, SensorsInv
  <2>7. CASE ServeBuffer(m)
    <3>1. comparing' \in Idle .. GROUPS /\ changed' \in BOOLEAN /\ received' = 0 /\ courierAt' = "scanning"
      <4>1. 0 \in Idle .. GROUPS
        BY DEF Idle
      <4> QED BY <2>7, <4>1 DEF ServeBuffer, SensorsInv, SensorTypes, SensorsTypeOK
    <3>2. SensorTypes'
      BY <2>1, <2>2, <2>7, <3>1 DEF ServeBuffer, queueVars, SensorsInv, SensorTypes, SensorsTypeOK
    <3> QED BY <2>4, <2>5, <2>7, <3>2 DEF ServeBuffer, SensorsInv
  <2>8. CASE ServeReadAll(m)
    <3>1. m.type = "readAll" /\ m.from \in ReadTask
      BY <2>2, <2>8, SensorMailKinds DEF ServeReadAll
    <3>2. \A x : Reads(x)' = Reads(x) - One(m.from = x)
      BY <2>2, <3>1 DEF One
    <3>3. ASSUME NEW x \in ReadTask
          PROVE  Reads(x) + Count(qTask, {x}) = One(reader[x] = "sent")
      BY DEF SensorsInv, ReadersExact
    <3>4. Count(qTask, {m.from}) = 0
      <4>1. Reads(m.from)' = Reads(m.from) - 1
        BY <3>2 DEF One
      <4>2. /\ Reads(m.from) \in Nat /\ Reads(m.from)' \in Nat /\ Count(qTask, {m.from}) \in Nat
            /\ Reads(m.from) + Count(qTask, {m.from}) <= 1
        BY <1>b, <2>3, <3>1, <3>3 DEF One
      <4> QED BY <4>1, <4>2
    <3>5. qBodyFree # <<>>
      BY <3>1, <3>4, SlotIsFree
    <3>6. /\ SlotsExact'
          /\ qTask' \in Seq(ReadTask) /\ qBodyIndex' \in Seq(Index) /\ qBodyFree' \in Seq(Index)
          /\ qBodyBuffer' \in [Index -> ReadTask \cup {NoReader}]
      BY <2>8, <3>1, <3>5, SlotTaken
    <3>7. ReadersExact'
      <4> SUFFICES ASSUME NEW x \in ReadTask
                   PROVE  /\ reader'[x] = "run" <=> x \in filled'
                          /\ Reads(x)' + Count(qTask', {x}) = One(reader'[x] = "sent")
        BY DEF ReadersExact
      <4>1. qTask' = Append(qTask, m.from)
        BY <2>8 DEF ServeReadAll
      <4>2. Count(qTask', {x}) = Count(qTask, {x}) + One(m.from = x)
        <5>1. Count(Append(qTask, m.from), {x}) = Count(qTask, {x}) + One(m.from \in {x})
          BY <1>a, <3>1, CountAppend
        <5> QED BY <4>1, <5>1 DEF One
      <4>3. /\ reader[x] = "run" <=> x \in filled
            /\ Reads(x) + Count(qTask, {x}) = One(reader[x] = "sent")
        BY DEF SensorsInv, ReadersExact
      <4> QED BY <1>b, <2>1, <3>2, <4>2, <4>3 DEF One
    <3>8. SensorTypes'
      BY <2>1, <2>2, <2>8, <3>6 DEF ServeReadAll, SensorsInv, SensorTypes, SensorsTypeOK
    <3> QED BY <2>4, <2>8, <3>1, <3>6, <3>7, <3>8 DEF ServeReadAll, SensorsInv
  <2>9. CASE ServeWait(m)
    <3>1. WaitersExact' /\ aTaskSensorBlocked' \in [Sensor -> WaitTask \cup {NoWaiter}]
      BY <2>1, <2>9, WaiterReplaces DEF ServeWait
    <3>2. SensorTypes'
      BY <2>1, <2>2, <2>9, <3>1 DEF ServeWait, queueVars, SensorsInv, SensorTypes, SensorsTypeOK
    <3> QED BY <2>5, <2>9, <3>1, <3>2 DEF ServeWait, SensorsInv
  <2> QED BY <2>1, <2>6, <2>7, <2>8, <2>9
<1>6. CASE CompareGroup
  <2>1. WaitersExact' /\ waiter' \in [WaitTask -> {"run", "sent"}]
        /\ aTaskSensorBlocked' \in [Sensor -> WaitTask \cup {NoWaiter}]
    BY <1>6, WaitersAnswered
  <2>2. /\ comparing \in Group /\ comparing' = comparing + 1 /\ changed' \in BOOLEAN
        /\ sensorBuffer' = (sensorBuffer \ InGroup(sensorBuffer, comparing)) \cup InGroup(scan, comparing)
        /\ UNCHANGED <<startupStage, queueVars, scanVars, courierAt, delay, sensorInbox, reader,
                       filled>>
    BY <1>6 DEF CompareGroup, SensorsInv, SensorTypes, SensorsTypeOK
  <2>3. comparing' \in Idle .. GROUPS
    BY <2>2 DEF Group, Idle
  <2>4. sensorBuffer' \subseteq Sensor
    BY <2>2 DEF InGroup, SensorsInv, SensorTypes, SensorsTypeOK
  <2>5. SensorTypes'
    BY <2>1, <2>2, <2>3, <2>4 DEF queueVars, scanVars, SensorsInv, SensorTypes, SensorsTypeOK
  <2> QED BY <1>d, <1>f, <2>1, <2>2, <2>5 DEF queueVars, SensorsInv
<1>7. CASE EndComparison
  <2>1. /\ comparing' = Idle /\ changed' = FALSE
        /\ UNCHANGED <<sensorBuffer, startupStage, qBodyBuffer, aTaskSensorBlocked, scanVars,
                       courierAt, delay, sensorInbox, waiter>>
    BY <1>7 DEF EndComparison
  <2>2. comparing' \in Idle .. GROUPS
    BY <2>1 DEF Idle
  <2>3. CASE changed
    <3>1. /\ SlotsExact' /\ ReadersExact'
          /\ qTask' \in Seq(ReadTask) /\ qBodyIndex' \in Seq(Index) /\ qBodyFree' \in Seq(Index)
          /\ reader' \in [ReadTask -> {"run", "sent"}] /\ filled' \subseteq ReadTask
      BY <1>7, <2>3, ReadersAnswered
    <3>2. SensorTypes'
      BY <2>1, <2>2, <3>1 DEF scanVars, SensorsInv, SensorTypes, SensorsTypeOK
    <3> QED BY <1>e, <2>1, <3>1, <3>2 DEF SensorsInv
  <2>4. CASE ~changed
    <3>1. UNCHANGED <<queueVars, reader, filled>>
      BY <1>7, <2>4 DEF EndComparison, queueVars
    <3>2. SensorTypes'
      BY <2>1, <2>2, <3>1 DEF scanVars, queueVars, SensorsInv, SensorTypes, SensorsTypeOK
    <3> QED BY <1>d, <1>e, <1>f, <2>1, <3>1, <3>2 DEF queueVars, SensorsInv
  <2> QED BY <2>3, <2>4
<1>8. CASE CourierBrings
  <2>1. [type |-> "courier"] \in SensorMessage /\ SendsSensors([type |-> "courier"])
    BY <1>8 DEF SensorMessage, CourierBrings
  <2> QED BY <1>2, <1>8, <2>1
<1>9. CASE StartupDelayEnds
  <2>1. [type |-> "notify"] \in SensorMessage /\ SendsSensors([type |-> "notify"])
    BY <1>9 DEF SensorMessage, StartupDelayEnds
  <2> QED BY <1>2, <1>9, <2>1
<1> QED
  BY <1>0, <1>1, <1>3, <1>4, <1>5, <1>6, <1>7, <1>8, <1>9 DEF SensorsNext

\* Types are kept by the train sensor server (TrainSensorServer.c:38-147).
THEOREM SensorsTypeCorrect == SensorsSpec => []SensorsTypeOK
<1>1. SensorsInv => SensorsTypeOK
  BY DEF SensorsInv, SensorTypes
<1> QED BY <1>1, SensorsInvInit, SensorsInvNext, PTL DEF SensorsSpec

\* The three queues of the readers stay in step, every slot is free or one reader's, and a
\* task that waits is in one place unless another took it (TrainSensorServer.c:86-140).
THEOREM SensorsStayExact == SensorsSpec => []SensorsExact
<1>1. SensorsInv => SensorsExact
  <2> SUFFICES ASSUME SensorsInv PROVE SensorsExact
    OBVIOUS
  <2>1. /\ sensorInbox \in Seq(SensorMessage) /\ qTask \in Seq(ReadTask)
        /\ qBodyIndex \in Seq(Index) /\ qBodyFree \in Seq(Index)
    BY DEF SensorsInv, SensorTypes
  <2>2. ASSUME NEW i \in 1 .. Len(sensorInbox), NEW x
        PROVE  /\ sensorInbox[i] \in ReadMail(x) <=>
                    sensorInbox[i].type = "readAll" /\ sensorInbox[i].from = x
               /\ sensorInbox[i] \in WaitMail(x) <=>
                    sensorInbox[i].type = "wait" /\ sensorInbox[i].from = x
    <3>1. sensorInbox[i] \in SensorMessage
      BY <2>1, ElementOfSeq
    <3> QED BY <3>1, SensorMailKinds
  <2>3. ASSUME NEW x PROVE Mails("readAll", x) = Reads(x) /\ Mails("wait", x) = Waits(x)
    BY <2>2 DEF Mails, Reads, Waits, Count, Places
  <2>4. ASSUME NEW r PROVE Cardinality({i \in 1 .. Len(qTask) : qTask[i] = r}) = Count(qTask, {r})
    BY DEF Count, Places
  <2>5. Len(qBodyFree) + Len(qBodyIndex) = READS
    BY <2>1, ConcatProperties DEF SensorsInv, SlotsExact, Slots
  <2>6. \A r \in ReadTask :
          Mails("readAll", r) + Cardinality({i \in 1 .. Len(qTask) : qTask[i] = r}) =
            IF reader[r] = "sent" THEN 1 ELSE 0
    BY <2>3, <2>4 DEF SensorsInv, ReadersExact, One
  <2>7. \A w \in WaitTask :
          LET places == Mails("wait", w) + Cardinality({s \in Sensor : aTaskSensorBlocked[s] = w})
          IN  /\ places <= IF waiter[w] = "sent" THEN 1 ELSE 0
              /\ waiter[w] = "sent" /\ places = 0 => Cardinality(WaitTask) > 1
    BY <2>3 DEF SensorsInv, WaitersExact, Spots, One
  <2>8. {(qBodyFree \o qBodyIndex)[i] : i \in 1 .. READS} = 0 .. READS - 1
    BY DEF SensorsInv, SlotsExact, Slots, Index
  <2>9. \A r \in ReadTask : reader[r] = "run" <=> r \in filled
    BY DEF SensorsInv, ReadersExact
  <2> QED BY <2>5, <2>6, <2>7, <2>8, <2>9 DEF SensorsInv, SlotsExact, SensorsExact
<1> QED BY <1>1, SensorsInvInit, SensorsInvNext, PTL DEF SensorsSpec

-----------------------------------------------------------------------------
(* All servers of MCServers: each behaves as it does by itself.            *)

\* A server whose turn it is not stutters, so whatever moves, all keep their types and what is
\* promised of each.
THEOREM ServersTheorem ==
  MCSpec => /\ []ServersTypeOK /\ []TerminalExact /\ []NamesExact /\ []SensorsExact
            /\ ImplementsCharStream /\ ImplementsSolenoid
<1>1. MCInit => TerminalInit /\ NamesInit /\ SwitchInit /\ SensorsInit
  BY DEF MCInit
<1>2. [MCNext]_MCVars => /\ [TerminalNext]_TerminalVars /\ [NamesNext]_NamesVars
                         /\ [SwitchNext]_SwitchVars /\ [SensorsNext]_SensorVars
  BY DEF MCNext, MCVars
<1>3. MCSpec => TerminalSpec
  BY <1>1, <1>2, PTL DEF MCSpec, TerminalSpec
<1>4. MCSpec => NamesSpec
  BY <1>1, <1>2, PTL DEF MCSpec, NamesSpec
<1>5. MCSpec => SwitchSpec
  BY <1>1, <1>2, PTL DEF MCSpec, SwitchSpec
<1>6. MCSpec => SensorsSpec
  BY <1>1, <1>2, PTL DEF MCSpec, SensorsSpec
<1>7. TerminalTypeOK /\ NamesTypeOK /\ SwitchTypeOK /\ SensorsTypeOK => ServersTypeOK
  BY DEF ServersTypeOK
<1>8. MCSpec => []ServersTypeOK
  BY <1>3, <1>4, <1>5, <1>6, <1>7, TerminalTypeCorrect, NamesTypeCorrect, SwitchTypeCorrect,
     SensorsTypeCorrect, PTL
<1> QED
  BY <1>3, <1>4, <1>5, <1>6, <1>8, TerminalStaysExact, NamesStayExact, SensorsStayExact,
     TerminalImplementsCharStream, SwitchImplementsSolenoid, PTL
=============================================================================
