----------------------------- MODULE NameServer -----------------------------
(***************************************************************************)
(* The name server and the tasks that register with it and ask it, while   *)
(* the system starts.  Each task runs a script of three kinds of steps:    *)
(* create a task, register a name, ask for a name.                         *)
(*                                                                         *)
(* Until as many registrations have been made as there are names, the      *)
(* server only queues questions; then it answers those, and from then on   *)
(* every question at once.  The kernel runs one of the most urgent tasks   *)
(* that are ready.                                                         *)
(***************************************************************************)
EXTENDS Naturals, Sequences, FiniteSets

CONSTANTS
  Task, Name,
  Script,              \* the steps of each task
  Urgency,             \* the priority of each task, 0 the most urgent
  InitialTask,         \* the task that is there when the system starts
  Server,              \* the name server
  NoOwner,             \* an entry of the table that was never written
  WHOIS_LENGTH,        \* slots of each of the two queues of questions
  SEND_QUEUE_LENGTH    \* senders that the kernel queues for one task

Make(t)   == [op |-> "create", task |-> t]
Reg(n)    == [op |-> "register", name |-> n]
Ask(n)    == [op |-> "whoIs", name |-> n]

Registers(t) == {Script[t][i].name : i \in {j \in 1 .. Len(Script[t]) :
                                              Script[t][j].op = "register"}}

ASSUME NameServerAssumption ==
  /\ InitialTask \in Task /\ Server \in Task /\ NoOwner \notin Task
  /\ Script \in [Task -> Seq({Make(t) : t \in Task} \cup {Reg(n) : n \in Name}
                               \cup {Ask(n) : n \in Name})]
  /\ Urgency \in [Task -> Nat]

Askers == {t \in Task : \E i \in 1 .. Len(Script[t]) : Script[t][i].op = "whoIs"}

\* No task is created twice and no name registered twice, and the queues of questions have
\* room for all who ask.
ASSUME ScriptsAssumption ==
  /\ IsFiniteSet(Name) /\ WHOIS_LENGTH \in Nat /\ SEND_QUEUE_LENGTH \in Nat
  /\ IsFiniteSet(Askers) /\ Cardinality(Askers) <= WHOIS_LENGTH
  /\ \A t, u \in Task : \A i \in 1 .. Len(Script[t]), j \in 1 .. Len(Script[u]) :
       Script[t][i] = Script[u][j] /\ Script[t][i].op # "whoIs" => t = u /\ i = j
  /\ \A t \in Task : \A i \in 1 .. Len(Script[t]) : Script[t][i] # Make(InitialTask)

VARIABLES
  nameTable,
  registrationLeft,            \* counts registrations, not names
  whoIsClients, whoIsRequests, \* questions that came before the last registration
  nsInbox,                     \* messages in the send queue of the server
  place,                       \* the step of its script that each task is at
  run,                         \* none before it is created, ready, or blocked in Send
  told,                        \* what each task was answered last
  overflow                     \* an assertion failed: a sender found no slot

nsVars    == <<nameTable, registrationLeft, whoIsClients, whoIsRequests>>
taskVars  == <<place, run, told>>
NamesVars == <<nsVars, nsInbox, taskVars, overflow>>

NamesToRegisterPlusOne == Cardinality(Name) + 1
NamesToRegister == Cardinality(Name)

NamesInit ==
  /\ nameTable = [n \in Name |-> NoOwner]
  /\ registrationLeft = NamesToRegister
  /\ whoIsClients = <<>> /\ whoIsRequests = <<>>
  /\ nsInbox = <<>>
  /\ place = [t \in Task |-> 1]
  /\ run = [t \in Task |-> IF t = InitialTask THEN "ready" ELSE "none"]
  /\ told = [t \in Task |-> NoOwner]
  /\ overflow = FALSE

-----------------------------------------------------------------------------
(* The kernel's choice.  The server is ready when there is work for it: it *)
(* answers the queued questions without receiving in between.              *)

Starting == registrationLeft > 0
Catching == ~Starting /\ whoIsClients # <<>>
Done(t)  == place[t] > Len(Script[t])

Ready(t) ==
  /\ run[t] = "ready"
  /\ IF t = Server THEN nsInbox # <<>> \/ Catching ELSE ~Done(t)

Chosen(t) ==
  /\ ~overflow
  /\ Ready(t)
  /\ \A u \in Task : Ready(u) => Urgency[t] <= Urgency[u]

-----------------------------------------------------------------------------
(* Steps of the scripts.                                                   *)

Step(t) == Script[t][place[t]]

Creates(t) ==
  /\ Step(t).op = "create"
  /\ run' = [run EXCEPT ![Step(t).task] = "ready"]
  /\ place' = [place EXCEPT ![t] = @ + 1]
  /\ UNCHANGED <<nsVars, nsInbox, told, overflow>>

\* nsRegister and nsWhoIs
SendsToServer(t) ==
  /\ Step(t).op \in {"register", "whoIs"}
  /\ overflow' = (Len(nsInbox) = SEND_QUEUE_LENGTH)
  /\ nsInbox' = IF overflow' THEN nsInbox
                ELSE Append(nsInbox, [from |-> t, op |-> Step(t).op, name |-> Step(t).name])
  /\ run' = [run EXCEPT ![t] = "blocked"]
  /\ UNCHANGED <<nsVars, place, told>>

-----------------------------------------------------------------------------
(* The server.                                                             *)

Replies(t, answer) ==
  /\ run' = [run EXCEPT ![t] = "ready"]
  /\ place' = [place EXCEPT ![t] = @ + 1]
  /\ told' = [told EXCEPT ![t] = answer]

ServeRegister(m) ==
  /\ m.op = "register"
  /\ nameTable' = [nameTable EXCEPT ![m.name] = m.from]
  /\ registrationLeft' = IF Starting THEN registrationLeft - 1 ELSE 0
  /\ Replies(m.from, m.from)
  /\ UNCHANGED <<whoIsClients, whoIsRequests>>

\* A push to a full queue is lost without notice.
Pushed(q, x) == IF Len(q) < WHOIS_LENGTH THEN Append(q, x) ELSE q

QueueWhoIs(m) ==
  /\ m.op = "whoIs"
  /\ Starting
  /\ whoIsClients' = Pushed(whoIsClients, m.from)
  /\ whoIsRequests' = Pushed(whoIsRequests, m.name)
  /\ UNCHANGED <<nameTable, registrationLeft, taskVars>>

AnswerWhoIs(m) ==
  /\ m.op = "whoIs"
  /\ ~Starting
  /\ Replies(m.from, nameTable[m.name])
  /\ UNCHANGED nsVars

RequestsKept == whoIsRequests
OtherRequests == Tail(whoIsRequests)

AnswerQueued ==
  /\ Catching
  /\ Replies(Head(whoIsClients), nameTable[Head(whoIsRequests)])
  /\ whoIsClients' = Tail(whoIsClients)
  /\ whoIsRequests' = OtherRequests
  /\ UNCHANGED <<nameTable, registrationLeft, nsInbox>>

Receives ==
  /\ ~Catching
  /\ nsInbox # <<>>
  /\ nsInbox' = Tail(nsInbox)
  /\ LET m == Head(nsInbox) IN ServeRegister(m) \/ QueueWhoIs(m) \/ AnswerWhoIs(m)

\* All scripts are done, or all tasks wait for ever.
Quiet == (overflow \/ \A t \in Task : ~Ready(t)) /\ UNCHANGED NamesVars

NamesNext ==
  \/ \E t \in Task \ {Server} : Chosen(t) /\ (Creates(t) \/ SendsToServer(t))
  \/ Chosen(Server) /\ (AnswerQueued \/ Receives) /\ UNCHANGED overflow
  \/ Quiet

NamesSpec == NamesInit /\ [][NamesNext]_NamesVars

-----------------------------------------------------------------------------
\* Types.
NamesTypeOK ==
  /\ nameTable \in [Name -> Task \cup {NoOwner}]
  /\ registrationLeft \in 0 .. Cardinality(Name)
  /\ Len(whoIsClients) <= WHOIS_LENGTH
  /\ Len(nsInbox) <= SEND_QUEUE_LENGTH
  /\ run \in [Task -> {"none", "ready", "blocked"}]

\* A task that waits for the name server has one message under way or one question queued,
\* the two queues keep their pairs together, and nobody has been told anything but the task
\* that registers the name it asked for (NameServer.c:24-85, nameService.c:5-26).
NamesExact ==
  /\ Len(whoIsRequests) = Len(whoIsClients)
  /\ \A i \in 1 .. Len(whoIsClients) : whoIsRequests[i] = Step(whoIsClients[i]).name
  /\ \A t \in Task :
       ~overflow =>
         Cardinality({i \in 1 .. Len(nsInbox) : nsInbox[i].from = t})
           + Cardinality({i \in 1 .. Len(whoIsClients) : whoIsClients[i] = t}) =
         IF run[t] = "blocked" THEN 1 ELSE 0
  /\ \A t \in Task :
       LET asked == Script[t][place[t] - 1]
       IN  place[t] > 1 /\ asked.op = "whoIs" =>
             told[t] \in Task /\ asked.name \in Registers(told[t])

\* A start that begins ends: every task gets to the end of its script, so nobody asks before
\* the name server can ever know, no send queue and no queue of questions is too short, and
\* every name has been registered (services.c:8-16, trains.c:8-14, InitialTask.c:14-20,
\* NameServer.c:24-62).
StartUpEnds ==
  (\E t \in Task : place[t] > 1) ~>
    (/\ \A t \in Task : run[t] = "ready" /\ Done(t)
     /\ \A n \in Name : nameTable[n] # NoOwner)
=============================================================================
