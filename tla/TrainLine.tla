----------------------------- MODULE TrainLine -----------------------------
(***************************************************************************)
(* The train driver with its two notifiers, the tasks that send it train   *)
(* commands, the kernel's handler for UART 1, and the line with its flow   *)
(* control to the train box.                                               *)
(*                                                                         *)
(* Tasks, interrupts and the box interleave; the handler runs with         *)
(* interrupts masked and is one step.  It reads the interrupt status and   *)
(* then clears it; the box may be ready again between the two if           *)
(* EdgeInHandler says so.                                                  *)
(***************************************************************************)
EXTENDS Naturals, Sequences, FiniteSets, SequencesExt

CONSTANTS
  ByteClient,     \* tasks that send commands of one byte: the solenoids, go and stop
  PairClient,     \* tasks that send commands of two bytes: speeds and switches
  Courier,        \* TrainSensorCourier, the task that asks for the sensors
  QUEUE_LENGTH,   \* slots of the driver's queues
  GROUPS,         \* groups of sensors, each a reading of two bytes
  EdgeInHandler   \* CTS may rise between the handler's read and its clear of the status

ASSUME TrainLineAssumption ==
  /\ Courier \notin ByteClient \cup PairClient
  /\ "nobody" \notin ByteClient \cup PairClient \cup {Courier}
  /\ QUEUE_LENGTH \in Nat \ {0}
  /\ GROUPS \in Nat \ {0}
  /\ EdgeInHandler \in BOOLEAN

Sender  == ByteClient \cup PairClient \cup {Courier}
NoTask  == "nobody"
NoByte  == <<>>
Command == [type : {"byte"}, from : ByteClient] \cup [type : {"pair"}, from : PairClient]
             \cup {[type |-> "sensors", from |-> Courier]}
Reading == 1 .. GROUPS

VARIABLES
  sender,         \* "run" or, until the driver replies, "sent"
  inbox,          \* messages sent to the driver, oldest first
  commands,       \* blockedTaskCommands
  tasks,          \* blockedTasks
  types,          \* blockedTaskOriginalType
  outputWaiting,  \* isOutputWaiting
  request,        \* activeSensorRequestId
  count,          \* sensorReceivedCount
  buffer,         \* sensorBuffer
  failed,         \* an assertion failed and the system hangs
  output,         \* where TrainOutputNotifier is
  bytes,          \* what it has still to write
  input,          \* where TrainInputNotifier is
  got,            \* the bytes it has read of a reading
  cts,            \* kernel.cts
  txEnabled,      \* the transmit interrupt is enabled
  modem,          \* the modem status interrupt is pending
  wire,           \* "idle", "sending" a byte, or the box is "busy": CTS is low
  sent,           \* the last byte written to the UART
  rx,             \* the byte that was received and not read
  answer,         \* what the box has still to send
  epoch           \* which of its snapshots the box sent last

driverVars   == <<commands, tasks, types, outputWaiting, request, count, buffer, failed>>
notifierVars == <<output, bytes, input, got>>
kernelVars   == <<cts, txEnabled>>
lineVars     == <<modem, wire, sent, rx, answer, epoch>>
vars == <<sender, inbox, driverVars, notifierVars, kernelVars, lineVars>>

-----------------------------------------------------------------------------
\* A byte of a command.  The low byte of the driver's word goes first.
Bytes(c) ==
  IF c.type = "pair" THEN <<<<c, "low">>, <<c, "high">>>> ELSE <<<<c, "low">>>>

\* What the box sends of snapshot e.
Half(e, g, h) == <<e, g, h>>
Snapshot(e) == [g \in Reading |-> <<Half(e, g, 1), Half(e, g, 2)>>]
Datum(e, i) == Half(e, (i + 1) \div 2, 2 - (i % 2))
SnapshotBytes(e) == [i \in 1 .. 2 * GROUPS |-> Datum(e, i)]

Init ==
  /\ sender = [s \in Sender |-> "run"]
  /\ inbox = <<>>
  /\ commands = <<>> /\ tasks = <<>> /\ types = <<>>
  /\ outputWaiting = FALSE
  /\ request = NoTask
  /\ count = 0
  /\ buffer = [g \in Reading |-> NoByte]
  /\ failed = FALSE
  /\ output = "ask" /\ bytes = <<>>
  /\ input = "read" /\ got = <<>>
  /\ wire \in {"idle", "busy"}
  /\ cts = (wire = "idle")
  /\ txEnabled = FALSE
  /\ modem = FALSE
  /\ sent = NoByte /\ rx = NoByte
  /\ answer = <<>>
  /\ epoch = 0

Posts(m) == inbox' = Append(inbox, m)

-----------------------------------------------------------------------------
(* trainSetSpeed, trainGo, trainStop, and the couriers of the switch and   *)
(* sensor servers.                                                         *)

SendCommand(c) ==
  /\ ~failed
  /\ sender[c.from] = "run"
  /\ Posts(c)
  /\ sender' = [sender EXCEPT ![c.from] = "sent"]
  /\ UNCHANGED <<driverVars, notifierVars, kernelVars, lineVars>>

-----------------------------------------------------------------------------
(* TrainOutputNotifier                                                     *)

OutputAsk ==
  /\ ~failed
  /\ output = "ask"
  /\ Posts([type |-> "tx"])
  /\ output' = "asked"
  /\ UNCHANGED <<sender, driverVars, bytes, input, got, kernelVars, lineVars>>

\* sysWrite enables the transmit interrupt and blocks.
OutputWrite ==
  /\ ~failed
  /\ output = "write"
  /\ output' = "writing"
  /\ txEnabled' = TRUE
  /\ UNCHANGED <<sender, inbox, driverVars, bytes, input, got, cts, lineVars>>

(* TrainInputNotifier                                                      *)

InputRead ==
  /\ ~failed
  /\ input = "read"
  /\ input' = "reading"
  /\ UNCHANGED <<sender, inbox, driverVars, output, bytes, got, kernelVars, lineVars>>

InputSend ==
  /\ ~failed
  /\ input = "send"
  /\ Posts([type |-> "reading", body |-> got])
  /\ input' = "sent"
  /\ got' = <<>>
  /\ UNCHANGED <<sender, driverVars, output, bytes, kernelVars, lineVars>>

-----------------------------------------------------------------------------
(* TrainDriver                                                             *)

Failed ==
  /\ failed' = TRUE
  /\ UNCHANGED <<sender, commands, tasks, types, outputWaiting, buffer, output, bytes,
                 input>>

\* The reply to TrainOutputNotifier is the command.
HandOver(c) ==
  /\ output' = "write"
  /\ bytes' = Bytes(c)

Replied(s) == sender' = [sender EXCEPT ![s] = "run"]

QueuedInFront(q, x) == <<x>> \o q
Queued(q, x) == Append(q, x)

CountKept == count
CountReset == 0

\* A request for the sensors is answered by its readings.
ServeCommand(c) ==
  /\ c \in Command
  /\ request' = IF c.type = "sensors" /\ request = NoTask THEN c.from ELSE request
  /\ count' = IF c.type = "sensors" /\ request = NoTask THEN CountReset ELSE count
  /\ \/ /\ c.type = "sensors" => request = NoTask
        /\ outputWaiting
        /\ HandOver(c)
        /\ IF c.type = "sensors" THEN UNCHANGED sender ELSE Replied(c.from)
        /\ outputWaiting' = FALSE
        /\ UNCHANGED <<commands, tasks, types, buffer, failed, input>>
     \/ /\ c.type = "sensors" => request = NoTask
        /\ ~outputWaiting
        /\ Len(commands) < QUEUE_LENGTH
        /\ commands' = Queued(commands, c)
        /\ tasks' = Append(tasks, c.from)
        /\ types' = Append(types, c.type)
        /\ UNCHANGED <<sender, outputWaiting, buffer, failed, output, bytes, input>>
     \/ /\ \/ c.type = "sensors" /\ request # NoTask
           \/ ~outputWaiting /\ Len(commands) = QUEUE_LENGTH
        /\ Failed

TypesKept == types
OtherTypes == Tail(types)

\* The notifier asks for a command.
ServeOutput(m) ==
  /\ m.type = "tx"
  /\ \/ /\ commands = <<>>
        /\ outputWaiting' = TRUE
        /\ UNCHANGED <<sender, commands, tasks, types, failed, output, bytes>>
     \/ /\ commands # <<>>
        /\ HandOver(Head(commands))
        /\ commands' = Tail(commands)
        /\ tasks' = Tail(tasks)
        /\ types' = OtherTypes
        /\ IF Head(types) # "sensors"
           THEN Replied(Head(tasks)) /\ UNCHANGED failed
           ELSE failed' = (Head(tasks) # request) /\ UNCHANGED sender
        /\ UNCHANGED outputWaiting
  /\ UNCHANGED <<request, count, buffer, input>>

CompleteEarly(n) == n >= GROUPS - 1
Complete(n) == n = GROUPS

\* A reading; nobody may have asked for it.
ServeInput(m) ==
  /\ m.type = "reading"
  /\ input' = "read"
  /\ IF request = NoTask
     THEN UNCHANGED <<sender, request, count, buffer>>
     ELSE /\ count' = count + 1
          /\ buffer' = [buffer EXCEPT ![count + 1] = m.body]
          /\ IF Complete(count + 1)
             THEN Replied(request) /\ request' = NoTask
             ELSE UNCHANGED <<sender, request>>
  /\ UNCHANGED <<commands, tasks, types, outputWaiting, failed, output, bytes>>

Serve ==
  /\ ~failed
  /\ inbox # <<>>
  /\ inbox' = Tail(inbox)
  /\ LET m == Head(inbox) IN ServeCommand(m) \/ ServeOutput(m) \/ ServeInput(m)
  /\ UNCHANGED <<got, kernelVars, lineVars>>

-----------------------------------------------------------------------------
(* eventHandler, the part for UART 1                                       *)

Pending ==
  (IF modem THEN {"modem"} ELSE {}) \cup (IF txEnabled THEN {"tx"} ELSE {})
    \cup (IF rx # NoByte THEN {"rx"} ELSE {})

CtsAfterWriteKept(clear, writes) == clear
CtsAfterWrite(clear, writes) == clear /\ ~writes

TxAfterModemKept(clear) == txEnabled
TxAfterModem(clear) == clear

\* The write to the status register clears the modem interrupt, also one that came after
\* the read; the other two last as long as their cause does.
WireWhenCleared == {wire} \cup (IF EdgeInHandler /\ wire = "busy" THEN {"idle"} ELSE {})

ServeUart == \E now \in WireWhenCleared :
  LET status == Pending
      clear  == IF "modem" \in status THEN now # "busy" ELSE cts
      writes == "tx" \in status /\ output = "writing" /\ clear
      reads  == "rx" \in status /\ input = "reading"
  IN  /\ ~failed
      /\ status # {}
      /\ modem' = FALSE
      /\ cts' = CtsAfterWrite(clear, writes)
      /\ txEnabled' = ("tx" \notin status /\ "modem" \in status /\ TxAfterModem(clear))
      /\ IF writes
         THEN /\ sent' = Head(bytes)
              /\ bytes' = Tail(bytes)
              /\ output' = IF Tail(bytes) = <<>> THEN "ask" ELSE "write"
              /\ wire' = "sending"
         ELSE wire' = now /\ UNCHANGED <<sent, bytes, output>>
      /\ rx' = NoByte
      /\ IF reads
         THEN /\ got' = Append(got, rx)
              /\ input' = IF Len(got') = 2 THEN "send" ELSE "read"
         ELSE UNCHANGED <<got, input>>
      /\ UNCHANGED <<sender, inbox, driverVars, answer, epoch>>

-----------------------------------------------------------------------------
(* The line and the train box.                                             *)

\* The byte has arrived and the box is busy with it.
BoxTakesByte ==
  /\ ~failed
  /\ wire = "sending"
  /\ wire' = "busy"
  /\ modem' = TRUE
  /\ IF sent[1].type = "sensors"
     THEN epoch' = 1 - epoch /\ answer' = answer \o SnapshotBytes(epoch')
     ELSE UNCHANGED <<epoch, answer>>
  /\ UNCHANGED <<sender, inbox, driverVars, notifierVars, kernelVars, sent, rx>>

BoxIsReady ==
  /\ ~failed
  /\ wire = "busy"
  /\ wire' = "idle"
  /\ modem' = TRUE
  /\ UNCHANGED <<sender, inbox, driverVars, notifierVars, kernelVars, sent, rx, answer,
                 epoch>>

\* A byte takes 4 ms on the line: the notifier is back in sysRead by then.
BoxAnswers ==
  /\ ~failed
  /\ answer # <<>> /\ rx = NoByte /\ input = "reading"
  /\ rx' = Head(answer)
  /\ answer' = Tail(answer)
  /\ UNCHANGED <<sender, inbox, driverVars, notifierVars, kernelVars, modem, wire, sent,
                 epoch>>

\* assertHandler hangs the board.
Hung == failed /\ UNCHANGED vars

Next ==
  \/ \E c \in Command : SendCommand(c)
  \/ OutputAsk \/ OutputWrite
  \/ InputRead \/ InputSend
  \/ Serve
  \/ ServeUart
  \/ BoxTakesByte \/ BoxIsReady \/ BoxAnswers
  \/ Hung

Spec == Init /\ [][Next]_vars

\* The driver and its notifiers have priorities 2 and 1, interrupts come before all tasks,
\* and the box goes on.
FairSpec ==
  /\ Spec
  /\ WF_vars(OutputAsk \/ OutputWrite) /\ WF_vars(InputRead \/ InputSend) /\ WF_vars(Serve)
  /\ WF_vars(ServeUart)
  /\ WF_vars(BoxTakesByte \/ BoxIsReady) /\ WF_vars(BoxAnswers)

-----------------------------------------------------------------------------
\* Types.
TypeOK ==
  /\ sender \in [Sender -> {"run", "sent"}]
  /\ \A i \in 1 .. Len(commands) : commands[i] \in Command
  /\ request \in Sender \cup {NoTask}
  /\ count \in 0 .. GROUPS
  /\ outputWaiting \in BOOLEAN /\ failed \in BOOLEAN
  /\ output \in {"ask", "asked", "write", "writing"}
  /\ input \in {"read", "reading", "send", "sent"}
  /\ Len(got) <= 2
  /\ wire \in {"idle", "sending", "busy"}
  /\ cts \in BOOLEAN /\ txEnabled \in BOOLEAN /\ modem \in BOOLEAN

\* manual.tex:87 "If a modem status interrupt is triggered, the interrupt handler queries the
\* UART's CTS register and updates the kernel's CTS flag."
ModemChangesSeen == wire = "idle" /\ ~cts => modem

\* The kernel's CTS flag is set only while a byte may be sent, so no byte is written to a
\* busy box; and if it is not set though one may be sent, the interrupt that will set it is
\* on its way (event.c:20-56).
CtsFollowsLine ==
  /\ cts => wire = "idle"
  /\ ModemChangesSeen

\* The three queues stay in step, and every task that waits for the driver is in exactly one
\* place: its message is under way, it is queued, or it is the one that waits for readings
\* (TrainDriver.c:65-182).
SendersExact ==
  ~failed =>
    /\ Len(tasks) = Len(commands) /\ Len(types) = Len(commands)
    /\ \A i \in 1 .. Len(commands) :
         commands[i].from = tasks[i] /\ commands[i].type = types[i]
    /\ \A s \in Sender :
         LET messages == {i \in 1 .. Len(inbox) : inbox[i] \in Command /\ inbox[i].from = s}
             places   == {i \in 1 .. Len(tasks) : tasks[i] = s}
                           \cup (IF request = s THEN {0} ELSE {})
         IN  /\ sender[s] = "run" => messages = {} /\ places = {}
             /\ sender[s] = "sent" =>
                  \/ Cardinality(messages) = 1 /\ places = {}
                  \/ messages = {} /\ IF s = Courier THEN 0 \in places
                                      ELSE Cardinality(places) = 1

\* The sensor courier is answered with a whole snapshot, the one its request caused: every
\* group in its place and no half of another (TrainDriver.c:75-81, :162-176, :206-219).
AnswersWhole ==
  sender[Courier] = "run" =>
    buffer \in {Snapshot(epoch), [g \in Reading |-> NoByte]}

\* The bytes that leave are those of the commands accepted, in their order, whatever the
\* flow control and the notifier do (TrainDriver.c:93-160, :185-204, event.c:37-56).
Line == INSTANCE ByteLine
  WITH line <- bytes \o FlattenSeq([i \in 1 .. Len(commands) |-> Bytes(commands[i])])

ImplementsByteLine == Line!Spec

\* Every command is answered, the request for the sensors by its readings: the wake-ups of the
\* two notifiers, of flow control and of the driver never all wait for each other.
Answered == \A s \in Sender : sender[s] = "sent" ~> sender[s] = "run" \/ failed
=============================================================================
