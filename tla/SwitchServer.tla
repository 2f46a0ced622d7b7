---------------------------- MODULE SwitchServer ----------------------------
(***************************************************************************)
(* The train switch server with its courier.  Orders are answered at once  *)
(* and kept in a queue; the courier fetches one at a time and waits until  *)
(* the train driver has passed it on.  When it comes back and nothing is   *)
(* queued, it is sent to switch the solenoids off, once, and then waits    *)
(* for the next order.                                                     *)
(***************************************************************************)
EXTENDS Naturals, Sequences

CONSTANTS
  Turn,              \* a switch with the direction it is thrown to
  Thrower,           \* tasks that throw switches
  SWITCH_LENGTH      \* slots of the queue

\* The two commands that throw no switch are told from those that do.
ASSUME SwitchAssumption ==
  /\ SWITCH_LENGTH \in Nat
  /\ "none" \notin Turn /\ "off" \notin Turn

VARIABLES
  \* the server
  qMsg, isCourierWaiting, turningOffSolenoid,
  \* everything around it
  switchInbox,       \* messages sent to the server, oldest first
  thrower,           \* where each task that throws switches is
  courier, carried,  \* where the courier is in its loop, and its command
  onTrack,           \* the last command that went through the driver
  switchFailed       \* an assertion failed and the system hangs

courierVars == <<courier, carried>>
serverVars  == <<qMsg, isCourierWaiting, turningOffSolenoid>>
SwitchVars  == <<serverVars, switchInbox, thrower, courierVars, onTrack, switchFailed>>

SwitchInit ==
  /\ qMsg = <<>>
  /\ isCourierWaiting = FALSE /\ turningOffSolenoid = FALSE
  /\ switchInbox = <<>>
  /\ thrower = [c \in Thrower |-> "run"]
  /\ courier = "ask" /\ carried = "none"
  /\ onTrack = "none"
  /\ switchFailed = FALSE

-----------------------------------------------------------------------------
\* trainSwitch
TrainSwitch(c, t) ==
  /\ thrower[c] = "run"
  /\ thrower' = [thrower EXCEPT ![c] = "sent"]
  /\ switchInbox' = Append(switchInbox, [type |-> "switch", from |-> c, body |-> t])
  /\ UNCHANGED <<serverVars, courierVars, onTrack, switchFailed>>

CourierAsk ==
  /\ courier = "ask"
  /\ courier' = "asked"
  /\ switchInbox' = Append(switchInbox, [type |-> "courier"])
  /\ UNCHANGED <<serverVars, thrower, carried, onTrack, switchFailed>>

\* The command passes the train driver, which answers when it has been given to the line.
CourierDeliver ==
  /\ courier = "deliver"
  /\ onTrack' = carried
  /\ carried' = "none"
  /\ courier' = "ask"
  /\ UNCHANGED <<serverVars, switchInbox, thrower, switchFailed>>

-----------------------------------------------------------------------------
GivesCourier(command) == courier' = "deliver" /\ carried' = command

SolenoidStaysMarked == turningOffSolenoid
SolenoidUnmarked == FALSE

ServeCourier(m) ==
  /\ m.type = "courier"
  /\ \/ /\ qMsg # <<>>
        /\ GivesCourier(Head(qMsg))
        /\ qMsg' = Tail(qMsg)
        /\ turningOffSolenoid' = SolenoidUnmarked
        /\ isCourierWaiting' = FALSE
     \/ /\ qMsg = <<>>
        /\ turningOffSolenoid
        /\ isCourierWaiting' = TRUE
        /\ turningOffSolenoid' = FALSE
        /\ UNCHANGED <<qMsg, courierVars>>
     \/ /\ qMsg = <<>>
        /\ ~turningOffSolenoid
        /\ GivesCourier("off")
        /\ isCourierWaiting' = FALSE
        /\ turningOffSolenoid' = TRUE
        /\ UNCHANGED qMsg
  /\ UNCHANGED <<thrower, switchFailed>>

Answers(c) == thrower' = [thrower EXCEPT ![c] = "run"]

ServeSwitch(m) ==
  /\ m.type = "switch"
  /\ \/ /\ isCourierWaiting
        /\ GivesCourier(m.body)
        /\ isCourierWaiting' = FALSE
        /\ Answers(m.from)
        /\ UNCHANGED <<qMsg, switchFailed>>
     \/ /\ ~isCourierWaiting
        /\ IF Len(qMsg) < SWITCH_LENGTH
           THEN /\ qMsg' = Append(qMsg, m.body)
                /\ Answers(m.from)
                /\ UNCHANGED switchFailed
           ELSE /\ switchFailed' = TRUE
                /\ UNCHANGED <<qMsg, thrower>>
        /\ UNCHANGED <<isCourierWaiting, courierVars>>
  /\ UNCHANGED turningOffSolenoid

ServeSwitches ==
  /\ switchInbox # <<>>
  /\ switchInbox' = Tail(switchInbox)
  /\ ServeCourier(Head(switchInbox)) \/ ServeSwitch(Head(switchInbox))
  /\ UNCHANGED onTrack

SwitchesHung == switchFailed /\ UNCHANGED SwitchVars

SwitchNext ==
  \/ /\ ~switchFailed
     /\ \/ \E c \in Thrower, t \in Turn : TrainSwitch(c, t)
        \/ CourierAsk \/ CourierDeliver
        \/ ServeSwitches
  \/ SwitchesHung

SwitchSpec == SwitchInit /\ [][SwitchNext]_SwitchVars

-----------------------------------------------------------------------------
\* Types.
SwitchTypeOK ==
  /\ Len(qMsg) <= SWITCH_LENGTH
  /\ isCourierWaiting \in BOOLEAN /\ turningOffSolenoid \in BOOLEAN
  /\ thrower \in [Thrower -> {"run", "sent"}]
  /\ courier \in {"ask", "asked", "deliver"}
  /\ carried \in Turn \cup {"none", "off"}

ToThrow == (IF carried \in Turn THEN <<carried>> ELSE <<>>) \o qMsg

OnTheTrack == INSTANCE Solenoid WITH pending <- ToThrow, live <- onTrack

ImplementsSolenoid == OnTheTrack!Spec

\* Switches are thrown in the order of the orders, each once, and the solenoids are switched
\* off between two orders at most once; and when the orders end, they stay off, though an
\* order may come while the courier is on its way to switch them off, or back
\* (TrainSwitchServer.c:62-113).
SolenoidFollows ==
  /\ ImplementsSolenoid
  /\ <>[](\A c \in Thrower : thrower[c] = "run") =>
       <>[](ToThrow = <<>> /\ onTrack \in {"none", "off"})
=============================================================================
