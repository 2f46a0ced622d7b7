-------------------------- MODULE TrainLineProofs --------------------------
(***************************************************************************)
(* What TrainLine promises, for any numbers of tasks, of sensor groups and *)
(* of slots in the driver's queues.                                        *)
(*                                                                         *)
(* LineBasics gives the types, keeps the three queues in step and each     *)
(* notifier and the flow control where they belong.  LineInv adds to it    *)
(* where each task that waits for the driver is, where the request for the *)
(* sensors is until the box has its byte, and where each byte of the box's *)
(* answer is from then on.                                                 *)
(***************************************************************************)
EXTENDS TrainLine, Counting

-----------------------------------------------------------------------------
(* What is sent to the driver, what is queued and what is on the line.      *)

Kind == {"byte", "pair", "sensors"}

Byte           == {Half(e, g, h) : e \in {0, 1}, g \in Reading, h \in {1, 2}}
TxRequest      == [type |-> "tx"]
ReadingMessage == [type : {"reading"}, body : Seq(Byte)]
Message        == Command \cup {TxRequest} \cup ReadingMessage

LowByte(c)  == <<c, "low">>
HighByte(c) == <<c, "high">>
LineByte    == {LowByte(c) : c \in Command}
                 \cup {HighByte(c) : c \in [type : {"pair"}, from : PairClient]}
\* What the notifier may have still to write.
Rest        == {<<>>} \cup {Bytes(c) : c \in Command}
                 \cup {<<HighByte(c)>> : c \in [type : {"pair"}, from : PairClient]}

LEMMA CommandFields ==
  ASSUME NEW c \in Command
  PROVE  /\ c.type \in Kind /\ c.from \in Sender
         /\ c.type = "sensors" => c = [type |-> "sensors", from |-> Courier]
         /\ c.type = "sensors" <=> c.from = Courier
         /\ c.type = "pair" <=> c \in [type : {"pair"}, from : PairClient]
<1>1. CASE c \in [type : {"byte"}, from : ByteClient]
  BY <1>1, TrainLineAssumption DEF Kind, Sender
<1>2. CASE c \in [type : {"pair"}, from : PairClient]
  BY <1>2, TrainLineAssumption DEF Kind, Sender
<1>3. CASE c = [type |-> "sensors", from |-> Courier]
  BY <1>3, TrainLineAssumption DEF Kind, Sender
<1> QED BY <1>1, <1>2, <1>3 DEF Command

LEMMA MessageKinds ==
  ASSUME NEW m \in Message
  PROVE  /\ m.type \in Kind \cup {"tx", "reading"}
         /\ m.type \in Kind <=> m \in Command
         /\ m.type = "tx" <=> m = TxRequest
         /\ m.type = "reading" <=> m \in ReadingMessage
         /\ m \in ReadingMessage => m.body \in Seq(Byte)
<1>1. CASE m \in Command
  BY <1>1, CommandFields DEF Kind, TxRequest, ReadingMessage
<1>2. CASE m = TxRequest
  <2>1. m.type = "tx" /\ m \notin ReadingMessage
    BY <1>2 DEF TxRequest, ReadingMessage
  <2>2. m \notin Command
    BY <2>1, CommandFields DEF Kind
  <2> QED BY <1>2, <2>1, <2>2 DEF Kind
<1>3. CASE m \in ReadingMessage
  <2>1. m.type = "reading" /\ m.body \in Seq(Byte)
    BY <1>3 DEF ReadingMessage
  <2>2. m \notin Command
    BY <2>1, CommandFields DEF Kind
  <2>3. m # TxRequest
    BY <2>1 DEF TxRequest
  <2> QED BY <1>3, <2>1, <2>2, <2>3 DEF Kind
<1> QED BY <1>1, <1>2, <1>3 DEF Message

LEMMA BytesShape ==
  ASSUME NEW c \in Command
  PROVE  /\ Bytes(c) \in Seq(LineByte) /\ Bytes(c) # <<>>
         /\ Head(Bytes(c)) = LowByte(c)
         /\ Tail(Bytes(c)) = IF c.type = "pair" THEN <<HighByte(c)>> ELSE <<>>
         /\ Bytes(c) \in Rest
<1>1. LowByte(c) \in LineByte /\ Bytes(c) \in Rest
  BY DEF LineByte, Rest
<1>2. CASE c.type = "pair"
  <2>1. HighByte(c) \in LineByte
    BY <1>2, CommandFields DEF LineByte
  <2>2. Bytes(c) = <<LowByte(c), HighByte(c)>>
    BY <1>2 DEF Bytes, LowByte, HighByte
  <2> HIDE DEF LowByte, HighByte, LineByte
  <2>3. <<LowByte(c), HighByte(c)>> \in Seq(LineByte)
    BY <1>1, <2>1
  <2>4. Tail(<<LowByte(c), HighByte(c)>>) = <<HighByte(c)>>
    OBVIOUS
  <2>5. Head(<<LowByte(c), HighByte(c)>>) = LowByte(c) /\ <<LowByte(c), HighByte(c)>> # <<>>
    OBVIOUS
  <2> QED BY <1>1, <1>2, <2>2, <2>3, <2>4, <2>5
<1>3. CASE c.type # "pair"
  <2>2. Bytes(c) = <<LowByte(c)>>
    BY <1>3 DEF Bytes, LowByte, HighByte
  <2> HIDE DEF LowByte, HighByte, LineByte
  <2>3. <<LowByte(c)>> \in Seq(LineByte)
    BY <1>1
  <2>4. Tail(<<LowByte(c)>>) = <<>>
    OBVIOUS
  <2>5. Head(<<LowByte(c)>>) = LowByte(c) /\ <<LowByte(c)>> # <<>>
    OBVIOUS
  <2> QED BY <1>1, <1>3, <2>2, <2>3, <2>4, <2>5
<1> QED BY <1>2, <1>3

LEMMA RestShape ==
  ASSUME NEW b \in Rest
  PROVE  /\ b \in Seq(LineByte)
         /\ b # <<>> => Head(b) \in LineByte /\ Tail(b) \in Rest
<1>1. CASE b = <<>>
  BY <1>1, EmptySeq
<1>2. ASSUME NEW c \in Command, b = Bytes(c)
      PROVE  b \in Seq(LineByte) /\ Head(b) \in LineByte /\ Tail(b) \in Rest
  <2>1. LowByte(c) \in LineByte
    BY DEF LineByte
  <2>2. (IF c.type = "pair" THEN <<HighByte(c)>> ELSE <<>>) \in Rest
    BY CommandFields DEF Rest
  <2> QED BY <1>2, <2>1, <2>2, BytesShape
<1>3. ASSUME NEW c \in [type : {"pair"}, from : PairClient], b = <<HighByte(c)>>
      PROVE  b \in Seq(LineByte) /\ Head(b) \in LineByte /\ Tail(b) \in Rest
  <2>1. HighByte(c) \in LineByte
    BY DEF LineByte
  <2> HIDE DEF HighByte, LineByte
  <2>2. <<HighByte(c)>> \in Seq(LineByte) /\ Head(<<HighByte(c)>>) = HighByte(c)
    BY <2>1
  <2>3. Tail(<<HighByte(c)>>) = <<>> /\ <<>> \in Rest
    BY DEF Rest
  <2> QED BY <1>3, <2>1, <2>2, <2>3
<1> QED BY <1>1, <1>2, <1>3 DEF Rest

-----------------------------------------------------------------------------
(* The types of the variables, with what each notifier holds where it is.   *)

LineTypes ==
  /\ sender \in [Sender -> {"run", "sent"}]
  /\ inbox \in Seq(Message)
  /\ commands \in Seq(Command) /\ tasks \in Seq(Sender) /\ types \in Seq(Kind)
  /\ request \in {Courier, NoTask}
  /\ count \in Nat /\ buffer \in [Reading -> Seq(Byte)]
  /\ outputWaiting \in BOOLEAN /\ failed \in BOOLEAN
  /\ output \in {"ask", "asked", "write", "writing"} /\ bytes \in Rest
  /\ input \in {"read", "reading", "send", "sent"} /\ got \in Seq(Byte)
  /\ wire \in {"idle", "sending", "busy"}
  /\ cts \in BOOLEAN /\ txEnabled \in BOOLEAN /\ modem \in BOOLEAN
  /\ sent \in LineByte \cup {NoByte} /\ rx \in Byte \cup {NoByte}
  /\ answer \in Seq(Byte) /\ epoch \in {0, 1}

QueuesInStep ==
  /\ Len(tasks) = Len(commands) /\ Len(types) = Len(commands)
  /\ \A i \in 1 .. Len(commands) : commands[i].from = tasks[i] /\ commands[i].type = types[i]

NotifiersHold ==
  /\ bytes # <<>> <=> output \in {"write", "writing"}
  /\ rx # NoByte => input = "reading"
  /\ input \in {"read", "reading"} => Len(got) \in {0, 1}
  /\ input = "send" => Len(got) = 2
  /\ input = "sent" => got = <<>>

\* While a byte is under way the box has not lowered CTS yet, and no interrupt of its is
\* pending.
FlowControl ==
  /\ wire = "sending" => ~cts /\ ~modem /\ sent \in LineByte
  /\ cts => wire = "idle"

TxMessages == Count(inbox, {TxRequest})
Readings   == Count(inbox, ReadingMessage)

NotifiersOnce ==
  /\ TxMessages + One(outputWaiting) = One(output = "asked")
  /\ outputWaiting => commands = <<>>
  /\ Readings = One(input = "sent")

LineBasics == LineTypes /\ QueuesInStep /\ NotifiersHold /\ FlowControl /\ NotifiersOnce

LEMMA ByteFacts ==
  /\ NoByte \notin Byte /\ <<>> \in Seq(Byte) /\ <<>> \in Rest
  /\ \A b \in Byte : <<b>> # <<>>
<1>1. ASSUME NEW e, NEW g, NEW h PROVE Half(e, g, h) # <<>>
  BY DEF Half
<1> QED BY <1>1, EmptySeq DEF Byte, NoByte, Rest

LEMMA DatumIsByte ==
  ASSUME NEW e \in {0, 1}, NEW i \in 1 .. 2 * GROUPS
  PROVE  Datum(e, i) \in Byte
<1>1. GROUPS \in Nat
  BY TrainLineAssumption
<1>2. (i + 1) \div 2 \in 1 .. GROUPS /\ 2 - (i % 2) \in {1, 2}
  BY <1>1, SMTT(30)
<1> QED BY <1>2 DEF Datum, Byte, Reading

LEMMA SnapshotBytesType ==
  ASSUME NEW e \in {0, 1}
  PROVE  /\ SnapshotBytes(e) \in Seq(Byte) /\ Len(SnapshotBytes(e)) = 2 * GROUPS
         /\ \A i \in 1 .. 2 * GROUPS : SnapshotBytes(e)[i] = Datum(e, i)
<1>1. GROUPS \in Nat /\ 2 * GROUPS \in Nat
  BY TrainLineAssumption
<1> DEFINE n == 2 * GROUPS
           s == [i \in 1 .. n |-> Datum(e, i)]
<1>2. s \in [1 .. n -> Byte]
  BY DatumIsByte
<1>3. s \in Seq(Byte)
  BY <1>1, <1>2, SeqDef
<1>4. DOMAIN s = 1 .. n
  OBVIOUS
<1>5. Len(s) = n
  <2> HIDE DEF s
  <2> QED BY <1>1, <1>3, <1>4, LenProperties
<1> QED BY <1>3, <1>5 DEF SnapshotBytes

LEMMA MailSent ==
  ASSUME LineTypes, NEW m \in Message, Posts(m), NEW S
  PROVE  /\ inbox' \in Seq(Message)
         /\ Count(inbox', S) = Count(inbox, S) + One(m \in S)
         /\ Count(inbox, S) \in Nat
<1>1. inbox \in Seq(Message) /\ inbox' = Append(inbox, m)
  BY DEF LineTypes, Posts
<1>2. Append(inbox, m) \in Seq(Message)
  BY <1>1, AppendProperties
<1> QED BY <1>1, <1>2, CountAppend, PlacesFinite

LEMMA MailReceived ==
  ASSUME LineTypes, inbox # <<>>, inbox' = Tail(inbox), NEW S
  PROVE  /\ inbox' \in Seq(Message) /\ Head(inbox) \in Message
         /\ Count(inbox', S) = Count(inbox, S) - One(Head(inbox) \in S)
         /\ Count(inbox, S) \in Nat /\ Count(inbox', S) \in Nat
<1>1. inbox \in Seq(Message)
  BY DEF LineTypes
<1>2. Tail(inbox) \in Seq(Message) /\ Head(inbox) \in Message
  BY <1>1, HeadTailProperties
<1> QED BY <1>1, <1>2, CountTail, PlacesFinite

LEMMA BasicsInit ==
  ASSUME Init
  PROVE  LineBasics
<1>1. /\ inbox = <<>> /\ commands = <<>> /\ tasks = <<>> /\ types = <<>> /\ bytes = <<>>
      /\ got = <<>> /\ answer = <<>>
  BY DEF Init
<1>2. /\ inbox \in Seq(Message) /\ commands \in Seq(Command) /\ tasks \in Seq(Sender)
      /\ types \in Seq(Kind) /\ got \in Seq(Byte) /\ answer \in Seq(Byte)
  BY <1>1, EmptySeq
<1>3. Len(commands) = 0 /\ Len(tasks) = 0 /\ Len(types) = 0 /\ Len(got) = 0
  BY <1>1
<1>4. buffer \in [Reading -> Seq(Byte)] /\ bytes \in Rest
  BY <1>1, ByteFacts DEF Init, NoByte
<1>5. sender \in [Sender -> {"run", "sent"}]
  BY DEF Init
<1>6. /\ request \in {Courier, NoTask} /\ count \in Nat
      /\ outputWaiting \in BOOLEAN /\ failed \in BOOLEAN
      /\ output \in {"ask", "asked", "write", "writing"}
      /\ input \in {"read", "reading", "send", "sent"}
      /\ wire \in {"idle", "sending", "busy"}
      /\ cts \in BOOLEAN /\ txEnabled \in BOOLEAN /\ modem \in BOOLEAN
      /\ sent \in LineByte \cup {NoByte} /\ rx \in Byte \cup {NoByte} /\ epoch \in {0, 1}
  BY DEF Init
<1>7. LineTypes
  BY <1>2, <1>4, <1>5, <1>6 DEF LineTypes
<1>8. TxMessages = 0 /\ Readings = 0
  BY <1>1, CountEmpty DEF TxMessages, Readings
<1>9. QueuesInStep
  BY <1>3 DEF QueuesInStep
<1>10. NotifiersHold
  BY <1>1, <1>3 DEF Init, NotifiersHold
<1>11. FlowControl
  BY DEF Init, FlowControl
<1>12. NotifiersOnce
  BY <1>1, <1>8 DEF Init, NotifiersOnce, One
<1> QED BY <1>7, <1>9, <1>10, <1>11, <1>12 DEF LineBasics

-----------------------------------------------------------------------------
(* What keeps those parts, action by action.                                *)

LEMMA TxMail ==
  ASSUME NEW m \in Message
  PROVE  /\ m \in {TxRequest} <=> m.type = "tx"
         /\ m \in ReadingMessage <=> m.type = "reading"
BY MessageKinds

LEMMA BasicsSendCommand ==
  ASSUME LineBasics, NEW c \in Command, SendCommand(c)
  PROVE  LineBasics'
<1>1. c \in Message /\ c \notin {TxRequest} /\ c \notin ReadingMessage /\ c.from \in Sender
  BY MessageKinds, CommandFields DEF Message, Kind
<1>2. LineTypes /\ Posts(c)
  BY DEF LineBasics, SendCommand
<1>3. inbox' \in Seq(Message) /\ TxMessages' = TxMessages + 0 /\ Readings' = Readings + 0
  BY <1>1, <1>2, MailSent DEF TxMessages, Readings, One
<1>4. TxMessages \in Nat /\ Readings \in Nat
  BY <1>1, <1>2, MailSent DEF TxMessages, Readings
<1>5. sender' \in [Sender -> {"run", "sent"}]
  BY <1>1 DEF LineBasics, LineTypes, SendCommand
<1>6. UNCHANGED <<driverVars, notifierVars, kernelVars, lineVars>>
  BY DEF SendCommand
<1>7. LineTypes'
  BY <1>3, <1>5, <1>6
     DEF LineBasics, LineTypes, driverVars, notifierVars, kernelVars, lineVars
<1>8. QueuesInStep' /\ NotifiersHold' /\ FlowControl'
  BY <1>6 DEF LineBasics, QueuesInStep, NotifiersHold, FlowControl, driverVars, notifierVars,
              kernelVars, lineVars
<1>9. NotifiersOnce'
  BY <1>3, <1>4, <1>6 DEF LineBasics, NotifiersOnce, driverVars, notifierVars
<1> QED BY <1>7, <1>8, <1>9 DEF LineBasics

LEMMA BasicsOutputAsk ==
  ASSUME LineBasics, OutputAsk
  PROVE  LineBasics'
<1>1. TxRequest \in Message /\ TxRequest \in {TxRequest} /\ TxRequest \notin ReadingMessage
  BY DEF Message, TxRequest, ReadingMessage
<1>2. LineTypes /\ Posts(TxRequest)
  BY DEF LineBasics, OutputAsk, TxRequest
<1>3. inbox' \in Seq(Message) /\ TxMessages' = TxMessages + 1 /\ Readings' = Readings + 0
  BY <1>1, <1>2, MailSent DEF TxMessages, Readings, One
<1>4. TxMessages \in Nat /\ Readings \in Nat
  BY <1>1, <1>2, MailSent DEF TxMessages, Readings
<1>5. /\ output = "ask" /\ output' = "asked"
      /\ UNCHANGED <<sender, driverVars, bytes, input, got, kernelVars, lineVars>>
  BY DEF OutputAsk
<1>6. LineTypes'
  BY <1>3, <1>5 DEF LineBasics, LineTypes, driverVars, kernelVars, lineVars
<1>7. QueuesInStep' /\ NotifiersHold' /\ FlowControl'
  BY <1>5 DEF LineBasics, QueuesInStep, NotifiersHold, FlowControl, driverVars, kernelVars, lineVars
<1>8. One(outputWaiting) = 0 /\ TxMessages = 0
  <2>1. TxMessages + One(outputWaiting) = 0
    BY <1>5 DEF LineBasics, NotifiersOnce, One
  <2>2. One(outputWaiting) \in {0, 1}
    BY DEF One
  <2> QED BY <1>4, <2>1, <2>2
<1>9. NotifiersOnce'
  <2>1. outputWaiting' = outputWaiting /\ commands' = commands /\ input' = input
    BY <1>5 DEF driverVars
  <2>2. One(outputWaiting') = 0 /\ One(output' = "asked") = 1
    BY <1>5, <1>8, <2>1 DEF One
  <2>3. TxMessages' + One(outputWaiting') = One(output' = "asked")
    BY <1>3, <1>8, <2>2
  <2> QED BY <1>3, <1>4, <2>1, <2>3 DEF LineBasics, NotifiersOnce
<1> QED BY <1>6, <1>7, <1>9 DEF LineBasics

LEMMA BasicsInputSend ==
  ASSUME LineBasics, InputSend
  PROVE  LineBasics'
<1> DEFINE m == [type |-> "reading", body |-> got]
<1>1. m \in Message /\ m \notin {TxRequest} /\ m \in ReadingMessage
  BY DEF Message, TxRequest, ReadingMessage, LineBasics, LineTypes
<1>2. LineTypes /\ Posts(m)
  BY DEF LineBasics, InputSend
<1> HIDE DEF m
<1>3. inbox' \in Seq(Message) /\ TxMessages' = TxMessages + 0 /\ Readings' = Readings + 1
  BY <1>1, <1>2, MailSent DEF TxMessages, Readings, One
<1>4. TxMessages \in Nat /\ Readings \in Nat
  BY <1>1, <1>2, MailSent DEF TxMessages, Readings
<1>5. /\ input = "send" /\ input' = "sent" /\ got' = <<>>
      /\ UNCHANGED <<sender, driverVars, output, bytes, kernelVars, lineVars>>
  BY DEF InputSend
<1>6. LineTypes'
  BY <1>3, <1>5, ByteFacts DEF LineBasics, LineTypes, driverVars, kernelVars, lineVars
<1>7. QueuesInStep' /\ FlowControl'
  BY <1>5 DEF LineBasics, QueuesInStep, FlowControl, driverVars, kernelVars, lineVars
<1>8. NotifiersHold'
  BY <1>5 DEF LineBasics, NotifiersHold, lineVars
<1>9. Readings = 0
  BY <1>5 DEF LineBasics, NotifiersOnce, One
<1>10. NotifiersOnce'
  <2>1. outputWaiting' = outputWaiting /\ commands' = commands /\ output' = output
    BY <1>5 DEF driverVars
  <2>2. Readings' = One(input' = "sent")
    BY <1>3, <1>5, <1>9 DEF One
  <2> QED BY <1>3, <1>4, <2>1, <2>2 DEF LineBasics, NotifiersOnce
<1> QED BY <1>6, <1>7, <1>8, <1>10 DEF LineBasics

\* The steps that leave the inbox and the driver's variables alone.
LEMMA BasicsOther ==
  ASSUME LineBasics, OutputWrite \/ InputRead \/ BoxIsReady
  PROVE  LineBasics'
<1>1. UNCHANGED <<sender, inbox, driverVars, bytes, got, sent, rx, answer, epoch>>
  BY DEF OutputWrite, InputRead, BoxIsReady, notifierVars, lineVars
<1>2. One(output' = "asked") = One(output = "asked") /\ One(input' = "sent") = One(input = "sent")
  BY DEF OutputWrite, InputRead, BoxIsReady, notifierVars, One
<1>8. /\ output' \in {"ask", "asked", "write", "writing"}
      /\ input' \in {"read", "reading", "send", "sent"}
      /\ wire' \in {"idle", "sending", "busy"}
      /\ cts' \in BOOLEAN /\ txEnabled' \in BOOLEAN /\ modem' \in BOOLEAN
  <2>1. CASE OutputWrite
    BY <2>1 DEF LineBasics, LineTypes, OutputWrite, lineVars
  <2>2. CASE InputRead
    BY <2>2 DEF LineBasics, LineTypes, InputRead, kernelVars, lineVars
  <2>3. CASE BoxIsReady
    BY <2>3 DEF LineBasics, LineTypes, BoxIsReady, notifierVars, kernelVars
  <2> QED BY <2>1, <2>2, <2>3
<1>3. LineTypes'
  BY <1>1, <1>8 DEF LineBasics, LineTypes, driverVars
<1>4. QueuesInStep'
  BY <1>1 DEF LineBasics, QueuesInStep, driverVars
<1>5. NotifiersHold'
  BY <1>1 DEF LineBasics, NotifiersHold, OutputWrite, InputRead, BoxIsReady, notifierVars
<1>6. FlowControl'
  BY <1>1 DEF LineBasics, FlowControl, OutputWrite, InputRead, BoxIsReady, kernelVars, lineVars
<1>7. NotifiersOnce'
  BY <1>1, <1>2 DEF LineBasics, NotifiersOnce, TxMessages, Readings, driverVars
<1> QED BY <1>3, <1>4, <1>5, <1>6, <1>7 DEF LineBasics

LEMMA BasicsBoxTakesByte ==
  ASSUME LineBasics, BoxTakesByte
  PROVE  LineBasics'
<1>1. /\ wire = "sending" /\ wire' = "busy" /\ modem' = TRUE
      /\ UNCHANGED <<sender, inbox, driverVars, notifierVars, kernelVars, sent, rx>>
  BY DEF BoxTakesByte
<1>2. epoch' \in {0, 1} /\ answer' \in Seq(Byte)
  <2>1. answer \in Seq(Byte) /\ epoch \in {0, 1}
    BY DEF LineBasics, LineTypes
  <2>2. CASE sent[1].type = "sensors"
    <3>1. epoch' = 1 - epoch /\ answer' = answer \o SnapshotBytes(epoch')
      BY <2>2 DEF BoxTakesByte
    <3>2. epoch' \in {0, 1}
      BY <2>1, <3>1
    <3>3. SnapshotBytes(epoch') \in Seq(Byte)
      BY <3>2, SnapshotBytesType
    <3> QED BY <2>1, <3>1, <3>2, <3>3, ConcatProperties
  <2>3. CASE sent[1].type # "sensors"
    BY <2>1, <2>3 DEF BoxTakesByte
  <2> QED BY <2>2, <2>3
<1>3. LineTypes'
  BY <1>1, <1>2 DEF LineBasics, LineTypes, driverVars, notifierVars, kernelVars
<1>4. QueuesInStep' /\ NotifiersHold' /\ FlowControl'
  BY <1>1 DEF LineBasics, QueuesInStep, NotifiersHold, FlowControl, driverVars, notifierVars,
       kernelVars
<1>5. NotifiersOnce'
  BY <1>1 DEF LineBasics, NotifiersOnce, TxMessages, Readings, driverVars, notifierVars
<1> QED BY <1>3, <1>4, <1>5 DEF LineBasics

LEMMA BasicsBoxAnswers ==
  ASSUME LineBasics, BoxAnswers
  PROVE  LineBasics'
<1>1. /\ answer # <<>> /\ input = "reading" /\ rx' = Head(answer) /\ answer' = Tail(answer)
      /\ UNCHANGED <<sender, inbox, driverVars, notifierVars, kernelVars, modem, wire, sent, epoch>>
  BY DEF BoxAnswers
<1>2. rx' \in Byte /\ answer' \in Seq(Byte)
  BY <1>1, HeadTailProperties DEF LineBasics, LineTypes
<1>3. LineTypes'
  BY <1>1, <1>2 DEF LineBasics, LineTypes, driverVars, notifierVars, kernelVars
<1>4. QueuesInStep' /\ NotifiersHold' /\ FlowControl'
  BY <1>1 DEF LineBasics, QueuesInStep, NotifiersHold, FlowControl, driverVars, notifierVars,
       kernelVars
<1>5. NotifiersOnce'
  BY <1>1 DEF LineBasics, NotifiersOnce, TxMessages, Readings, driverVars, notifierVars
<1> QED BY <1>3, <1>4, <1>5 DEF LineBasics

\* What the driver takes from its inbox, and what that leaves.
LEMMA Received ==
  ASSUME LineBasics, Serve, NEW m, m = Head(inbox)
  PROVE  /\ m \in Message /\ inbox' \in Seq(Message)
         /\ ServeCommand(m) \/ ServeOutput(m) \/ ServeInput(m)
         /\ TxMessages' = TxMessages - One(m = TxRequest)
         /\ Readings' = Readings - One(m \in ReadingMessage)
         /\ TxMessages \in Nat /\ Readings \in Nat /\ TxMessages' \in Nat /\ Readings' \in Nat
         /\ UNCHANGED <<got, kernelVars, lineVars>>
<1>1. LineTypes /\ inbox # <<>> /\ inbox' = Tail(inbox)
  BY DEF LineBasics, Serve
<1>2. m \in {TxRequest} <=> m = TxRequest
  OBVIOUS
<1>3. /\ m \in Message /\ inbox' \in Seq(Message)
      /\ TxMessages' = TxMessages - One(m = TxRequest)
      /\ TxMessages \in Nat /\ TxMessages' \in Nat
  BY <1>1, <1>2, MailReceived DEF TxMessages, One
<1>4. /\ Readings' = Readings - One(m \in ReadingMessage)
      /\ Readings \in Nat /\ Readings' \in Nat
  BY <1>1, MailReceived DEF Readings
<1> QED BY <1>3, <1>4 DEF Serve

LEMMA BasicsServeCommand ==
  ASSUME LineBasics, Serve, NEW m, m = Head(inbox), ServeCommand(m)
  PROVE  LineBasics'
<1>1. m \in Command
  BY DEF ServeCommand
<1>2. m.type \in Kind /\ m.from \in Sender
  BY <1>1, CommandFields
<1>3. m # TxRequest /\ m \notin ReadingMessage
  <2>1. m.type # "tx" /\ m.type # "reading" /\ m \in Message
    BY <1>1, <1>2 DEF Kind, Message
  <2> QED BY <2>1, MessageKinds
<1>4. /\ inbox' \in Seq(Message) /\ TxMessages' = TxMessages /\ Readings' = Readings
      /\ TxMessages \in Nat /\ Readings \in Nat
      /\ UNCHANGED <<got, kernelVars, lineVars>>
  BY <1>3, Received DEF One
<1>5. request' \in {Courier, NoTask} /\ count' \in Nat
  BY <1>1, CommandFields DEF ServeCommand, CountReset, LineBasics, LineTypes
<1>6. UNCHANGED <<buffer, input>>
  BY DEF ServeCommand, Failed
<1>8. /\ FlowControl'
      /\ rx # NoByte => input' = "reading"
      /\ input' \in {"read", "reading"} => Len(got') \in {0, 1}
      /\ input' = "send" => Len(got') = 2
      /\ input' = "sent" => got' = <<>>
  BY <1>4, <1>6 DEF LineBasics, NotifiersHold, FlowControl, kernelVars, lineVars
<1>9. CASE /\ outputWaiting
           /\ HandOver(m)
           /\ IF m.type = "sensors" THEN UNCHANGED sender ELSE Replied(m.from)
           /\ outputWaiting' = FALSE
           /\ UNCHANGED <<commands, tasks, types, buffer, failed, input>>
  <2>1. output' = "write" /\ bytes' = Bytes(m) /\ bytes' \in Rest /\ bytes' # <<>>
    BY <1>1, <1>9, BytesShape DEF HandOver
  <2>2. sender' \in [Sender -> {"run", "sent"}]
    BY <1>2, <1>9 DEF Replied, LineBasics, LineTypes
  <2>3. LineTypes'
    BY <1>4, <1>5, <1>9, <2>1, <2>2 DEF LineBasics, LineTypes, kernelVars, lineVars
  <2>4. QueuesInStep'
    BY <1>9 DEF LineBasics, QueuesInStep
  <2>5. NotifiersHold'
    BY <1>4, <1>8, <2>1 DEF NotifiersHold, lineVars
  <2>6. TxMessages = 0
    <3>1. TxMessages + One(outputWaiting) = One(output = "asked")
      BY DEF LineBasics, NotifiersOnce
    <3>2. One(outputWaiting) = 1 /\ One(output = "asked") \in {0, 1}
      BY <1>9 DEF One
    <3> QED BY <1>4, <3>1, <3>2
  <2>7. One(outputWaiting') = 0 /\ One(output' = "asked") = 0
    BY <1>9, <2>1 DEF One
  <2>8. TxMessages' + One(outputWaiting') = One(output' = "asked")
    BY <1>4, <2>6, <2>7
  <2>9. NotifiersOnce'
    BY <1>4, <1>9, <2>8 DEF LineBasics, NotifiersOnce
  <2> QED BY <1>8, <2>3, <2>4, <2>5, <2>9 DEF LineBasics
<1>10. CASE /\ ~outputWaiting
            /\ commands' = Queued(commands, m)
            /\ tasks' = Append(tasks, m.from)
            /\ types' = Append(types, m.type)
            /\ UNCHANGED <<sender, outputWaiting, buffer, failed, output, bytes, input>>
  <2>1. /\ commands \in Seq(Command) /\ tasks \in Seq(Sender) /\ types \in Seq(Kind)
        /\ Len(tasks) = Len(commands) /\ Len(types) = Len(commands)
    BY DEF LineBasics, LineTypes, QueuesInStep
  <2>2. /\ commands' \in Seq(Command) /\ Len(commands') = Len(commands) + 1
        /\ commands'[Len(commands) + 1] = m
        /\ \A i \in 1 .. Len(commands) : commands'[i] = commands[i]
    BY <1>1, <1>10, <2>1, AppendProperties DEF Queued
  <2>3. /\ tasks' \in Seq(Sender) /\ Len(tasks') = Len(tasks) + 1
        /\ tasks'[Len(tasks) + 1] = m.from
        /\ \A i \in 1 .. Len(tasks) : tasks'[i] = tasks[i]
    BY <1>2, <1>10, <2>1, AppendProperties
  <2>4. /\ types' \in Seq(Kind) /\ Len(types') = Len(types) + 1
        /\ types'[Len(types) + 1] = m.type
        /\ \A i \in 1 .. Len(types) : types'[i] = types[i]
    BY <1>2, <1>10, <2>1, AppendProperties
  <2>5. Len(commands) \in Nat
    BY <2>1, LenProperties
  <2>6. LineTypes'
    BY <1>4, <1>5, <1>10, <2>2, <2>3, <2>4 DEF LineBasics, LineTypes, kernelVars, lineVars
  <2>7. QueuesInStep'
    <3>1. Len(tasks') = Len(commands') /\ Len(types') = Len(commands')
      BY <2>1, <2>2, <2>3, <2>4
    <3>2. ASSUME NEW i \in 1 .. Len(commands')
          PROVE  commands'[i].from = tasks'[i] /\ commands'[i].type = types'[i]
      <4>1. CASE i = Len(commands) + 1
        BY <2>1, <2>2, <2>3, <2>4, <4>1
      <4>2. CASE i # Len(commands) + 1
        <5>1. i \in 1 .. Len(commands)
          BY <2>2, <2>5, <4>2
        <5>2. commands[i].from = tasks[i] /\ commands[i].type = types[i]
          BY <5>1 DEF LineBasics, QueuesInStep
        <5>3. commands'[i] = commands[i] /\ tasks'[i] = tasks[i] /\ types'[i] = types[i]
          BY <2>1, <2>2, <2>3, <2>4, <5>1
        <5> QED BY <5>2, <5>3
      <4> QED BY <4>1, <4>2
    <3> QED BY <3>1, <3>2 DEF QueuesInStep
  <2>8. NotifiersHold'
    BY <1>4, <1>8, <1>10 DEF LineBasics, NotifiersHold, lineVars
  <2>9. NotifiersOnce'
    BY <1>4, <1>10 DEF LineBasics, NotifiersOnce
  <2> QED BY <1>8, <2>6, <2>7, <2>8, <2>9 DEF LineBasics
<1>11. CASE Failed
  <2>1. LineTypes'
    BY <1>4, <1>5, <1>11 DEF Failed, LineBasics, LineTypes, kernelVars, lineVars
  <2>2. QueuesInStep' /\ NotifiersHold'
    BY <1>4, <1>8, <1>11 DEF Failed, LineBasics, QueuesInStep, NotifiersHold, lineVars
  <2>3. NotifiersOnce'
    BY <1>4, <1>11 DEF Failed, LineBasics, NotifiersOnce
  <2> QED BY <1>8, <2>1, <2>2, <2>3 DEF LineBasics
<1> QED BY <1>9, <1>10, <1>11 DEF ServeCommand

LEMMA BasicsServeOutput ==
  ASSUME LineBasics, Serve, NEW m, m = Head(inbox), ServeOutput(m)
  PROVE  LineBasics'
<1>1. m \in Message /\ m.type = "tx" /\ m = TxRequest /\ m \notin ReadingMessage
  BY Received, MessageKinds DEF ServeOutput
<1>2. /\ inbox' \in Seq(Message) /\ TxMessages' = TxMessages - 1 /\ Readings' = Readings
      /\ TxMessages \in Nat /\ Readings \in Nat /\ TxMessages' \in Nat
      /\ UNCHANGED <<got, kernelVars, lineVars>>
  BY <1>1, Received DEF One
<1>3. UNCHANGED <<request, count, buffer, input>>
  BY DEF ServeOutput
<1>4. output = "asked" /\ ~outputWaiting /\ TxMessages' = 0
  <2>1. TxMessages + One(outputWaiting) = One(output = "asked")
    BY DEF LineBasics, NotifiersOnce
  <2>2. One(outputWaiting) \in {0, 1} /\ One(output = "asked") \in {0, 1}
    BY DEF One
  <2>3. One(outputWaiting) = 0 /\ One(output = "asked") = 1 /\ TxMessages' = 0
    BY <1>2, <2>1, <2>2
  <2> QED BY <2>3 DEF One, LineBasics, LineTypes
<1>5. bytes = <<>>
  BY <1>4 DEF LineBasics, NotifiersHold
<1>6. /\ FlowControl'
      /\ rx # NoByte => input' = "reading"
      /\ input' \in {"read", "reading"} => Len(got') \in {0, 1}
      /\ input' = "send" => Len(got') = 2
      /\ input' = "sent" => got' = <<>>
  BY <1>2, <1>3 DEF LineBasics, NotifiersHold, FlowControl, kernelVars, lineVars
<1>7. CASE /\ commands = <<>>
           /\ outputWaiting' = TRUE
           /\ UNCHANGED <<sender, commands, tasks, types, failed, output, bytes>>
  <2>1. LineTypes'
    BY <1>2, <1>3, <1>7 DEF LineBasics, LineTypes, kernelVars, lineVars
  <2>2. QueuesInStep' /\ NotifiersHold'
    BY <1>2, <1>6, <1>7 DEF LineBasics, QueuesInStep, NotifiersHold, lineVars
  <2>3. One(outputWaiting') = 1 /\ One(output' = "asked") = 1
    BY <1>4, <1>7 DEF One
  <2>4. NotifiersOnce'
    BY <1>2, <1>3, <1>4, <1>7, <2>3 DEF LineBasics, NotifiersOnce
  <2> QED BY <1>6, <2>1, <2>2, <2>4 DEF LineBasics
<1>8. CASE /\ commands # <<>>
           /\ HandOver(Head(commands))
           /\ commands' = Tail(commands)
           /\ tasks' = Tail(tasks)
           /\ types' = OtherTypes
           /\ IF Head(types) # "sensors"
              THEN Replied(Head(tasks)) /\ UNCHANGED failed
              ELSE failed' = (Head(tasks) # request) /\ UNCHANGED sender
           /\ UNCHANGED outputWaiting
  <2>1. /\ commands \in Seq(Command) /\ tasks \in Seq(Sender) /\ types \in Seq(Kind)
        /\ Len(tasks) = Len(commands) /\ Len(types) = Len(commands) /\ Len(commands) \in Nat
    BY LenProperties DEF LineBasics, LineTypes, QueuesInStep
  <2>2. Len(commands) # 0
    BY <1>8, <2>1, EmptySeq
  <2>3. tasks # <<>> /\ types # <<>>
    BY <2>1, <2>2, EmptySeq
  <2>4. /\ commands' \in Seq(Command) /\ Len(commands') = Len(commands) - 1
        /\ Head(commands) \in Command
        /\ \A i \in 1 .. Len(commands') : commands'[i] = commands[i + 1]
    BY <1>8, <2>1, <2>2, HeadTailProperties
  <2>5. /\ tasks' \in Seq(Sender) /\ Len(tasks') = Len(tasks) - 1
        /\ Head(tasks) \in Sender
        /\ \A i \in 1 .. Len(tasks') : tasks'[i] = tasks[i + 1]
    BY <1>8, <2>1, <2>3, HeadTailProperties
  <2>6. /\ types' \in Seq(Kind) /\ Len(types') = Len(types) - 1
        /\ \A i \in 1 .. Len(types') : types'[i] = types[i + 1]
    BY <1>8, <2>1, <2>3, HeadTailProperties DEF OtherTypes
  <2>7. output' = "write" /\ bytes' = Bytes(Head(commands)) /\ bytes' \in Rest /\ bytes' # <<>>
    BY <1>8, <2>4, BytesShape DEF HandOver
  <2>8. sender' \in [Sender -> {"run", "sent"}] /\ failed' \in BOOLEAN
    <3>1. sender \in [Sender -> {"run", "sent"}] /\ failed \in BOOLEAN
      BY DEF LineBasics, LineTypes
    <3>2. CASE Head(types) # "sensors"
      BY <1>8, <2>5, <3>1, <3>2 DEF Replied
    <3>3. CASE Head(types) = "sensors"
      BY <1>8, <3>1, <3>3
    <3> QED BY <3>2, <3>3
  <2>9. LineTypes'
    BY <1>2, <1>3, <1>8, <2>4, <2>5, <2>6, <2>7, <2>8
       DEF LineBasics, LineTypes, kernelVars, lineVars
  <2>10. QueuesInStep'
    <3>1. Len(tasks') = Len(commands') /\ Len(types') = Len(commands')
      BY <2>1, <2>4, <2>5, <2>6
    <3>2. ASSUME NEW i \in 1 .. Len(commands')
          PROVE  commands'[i].from = tasks'[i] /\ commands'[i].type = types'[i]
      <4>1. i + 1 \in 1 .. Len(commands)
        BY <2>1, <2>2, <2>4
      <4>2. commands[i + 1].from = tasks[i + 1] /\ commands[i + 1].type = types[i + 1]
        BY <4>1 DEF LineBasics, QueuesInStep
      <4>3. commands'[i] = commands[i + 1] /\ tasks'[i] = tasks[i + 1] /\ types'[i] = types[i + 1]
        BY <2>4, <2>5, <2>6, <3>1
      <4> QED BY <4>2, <4>3
    <3> QED BY <3>1, <3>2 DEF QueuesInStep
  <2>11. NotifiersHold'
    BY <1>2, <1>6, <2>7 DEF NotifiersHold, lineVars
  <2>12. One(outputWaiting') = 0 /\ One(output' = "asked") = 0
    BY <1>4, <1>8, <2>7 DEF One
  <2>13. TxMessages' + One(outputWaiting') = One(output' = "asked")
    BY <1>4, <2>12
  <2>14. outputWaiting' = FALSE
    BY <1>4, <1>8 DEF LineBasics, LineTypes
  <2>15. NotifiersOnce'
    BY <1>2, <1>3, <2>13, <2>14 DEF LineBasics, NotifiersOnce
  <2> QED BY <1>6, <2>9, <2>10, <2>11, <2>15 DEF LineBasics
<1> QED BY <1>7, <1>8 DEF ServeOutput

LEMMA BasicsServeInput ==
  ASSUME LineBasics, Serve, NEW m, m = Head(inbox), ServeInput(m)
  PROVE  LineBasics' /\ input = "sent" /\ m \in ReadingMessage /\ m.body \in Seq(Byte)
<1>1. m \in Message /\ m.type = "reading" /\ m # TxRequest /\ m \in ReadingMessage
      /\ m.body \in Seq(Byte)
  BY Received, MessageKinds DEF ServeInput
<1>2. /\ inbox' \in Seq(Message) /\ TxMessages' = TxMessages /\ Readings' = Readings - 1
      /\ TxMessages \in Nat /\ Readings \in Nat /\ Readings' \in Nat
      /\ UNCHANGED <<got, kernelVars, lineVars>>
  BY <1>1, Received DEF One
<1>3. /\ input' = "read"
      /\ UNCHANGED <<commands, tasks, types, outputWaiting, failed, output, bytes>>
  BY DEF ServeInput
<1>4. input = "sent" /\ Readings' = 0
  <2>1. Readings = One(input = "sent")
    BY DEF LineBasics, NotifiersOnce
  <2>2. One(input = "sent") = 1
    BY <1>2, <2>1 DEF One
  <2> QED BY <1>2, <2>1, <2>2 DEF One
<1>5. got = <<>> /\ rx = NoByte
  BY <1>4 DEF LineBasics, NotifiersHold
<1>6. /\ request' \in {Courier, NoTask} /\ count' \in Nat /\ buffer' \in [Reading -> Seq(Byte)]
      /\ sender' \in [Sender -> {"run", "sent"}]
  <2>1. /\ request \in {Courier, NoTask} /\ count \in Nat /\ buffer \in [Reading -> Seq(Byte)]
        /\ sender \in [Sender -> {"run", "sent"}] /\ Courier \in Sender
    BY DEF LineBasics, LineTypes, Sender
  <2>2. CASE request = NoTask
    BY <2>1, <2>2 DEF ServeInput
  <2>3. CASE request # NoTask
    <3>1. count' = count + 1 /\ buffer' = [buffer EXCEPT ![count + 1] = m.body]
      BY <2>3 DEF ServeInput
    <3>2. buffer' \in [Reading -> Seq(Byte)]
      <4> DEFINE k == count + 1
                 S == Seq(Byte)
      <4>1. buffer \in [Reading -> S] /\ m.body \in S /\ buffer' = [buffer EXCEPT ![k] = m.body]
        BY <1>1, <2>1, <3>1
      <4> HIDE DEF k, S
      <4>2. buffer' \in [Reading -> S]
        BY <4>1
      <4> QED BY <4>2 DEF S
    <3>3. count' \in Nat
      BY <2>1, <3>1
    <3>4. CASE Complete(count + 1)
      <4>1. request' = NoTask /\ sender' = [sender EXCEPT ![request] = "run"]
        BY <2>3, <3>4 DEF ServeInput, Replied
      <4> QED BY <2>1, <2>3, <3>2, <3>3, <4>1
    <3>5. CASE ~Complete(count + 1)
      <4>1. UNCHANGED <<sender, request>>
        BY <2>3, <3>5 DEF ServeInput
      <4> QED BY <2>1, <3>2, <3>3, <4>1
    <3> QED BY <3>4, <3>5
  <2> QED BY <2>2, <2>3
<1>7. LineTypes'
  BY <1>2, <1>3, <1>6 DEF LineBasics, LineTypes, kernelVars, lineVars
<1>8. QueuesInStep' /\ FlowControl'
  BY <1>2, <1>3 DEF LineBasics, QueuesInStep, FlowControl, kernelVars, lineVars
<1>9. Len(<<>>) = 0
  OBVIOUS
<1>10. NotifiersHold'
  <2>1. got' = <<>> /\ rx' = NoByte /\ Len(got') = 0
    BY <1>2, <1>5, <1>9 DEF lineVars
  <2> QED BY <1>3, <2>1 DEF LineBasics, NotifiersHold
<1>11. NotifiersOnce'
  BY <1>2, <1>3, <1>4 DEF LineBasics, NotifiersOnce, One
<1> QED BY <1>1, <1>4, <1>7, <1>8, <1>10, <1>11 DEF LineBasics

FlagSeen == ~EdgeInHandler => ModemChangesSeen

\* What the handler does: it may read a byte and it may write one, and a byte that is on the
\* line stays there.
Reads ==
  /\ rx # NoByte
  /\ input = "reading" /\ got' = Append(got, rx)
  /\ input' = IF Len(got') = 2 THEN "send" ELSE "read"

Writes ==
  /\ output = "writing" /\ bytes # <<>> /\ wire # "sending"
  /\ sent' = Head(bytes) /\ bytes' = Tail(bytes)
  /\ output' = IF Tail(bytes) = <<>> THEN "ask" ELSE "write"
  /\ wire' = "sending" /\ cts' = FALSE

LEMMA UartStep ==
  ASSUME LineBasics, ServeUart
  PROVE  /\ UNCHANGED <<sender, inbox, driverVars, answer, epoch>>
         /\ rx' = NoByte /\ modem' = FALSE
         /\ cts' \in BOOLEAN /\ txEnabled' \in BOOLEAN
         /\ Reads \/ (rx = NoByte /\ UNCHANGED <<got, input>>)
         /\ \/ Writes
            \/ /\ UNCHANGED <<sent, bytes, output>>
               /\ wire' = wire \/ (wire = "busy" /\ wire' = "idle" /\ EdgeInHandler)
               /\ cts' => wire' = "idle"
               /\ FlagSeen => FlagSeen'
<1> DEFINE status == Pending
<1>1. PICK now \in WireWhenCleared :
        LET clear  == IF "modem" \in status THEN now # "busy" ELSE cts
            writes == "tx" \in status /\ output = "writing" /\ clear
            reads  == "rx" \in status /\ input = "reading"
        IN  /\ modem' = FALSE
            /\ cts' = CtsAfterWrite(clear, writes)
            /\ txEnabled' = ("tx" \notin status /\ "modem" \in status /\ TxAfterModem(clear))
            /\ IF writes
               THEN /\ sent' = Head(bytes)
                    /\ bytes' = Tail(bytes)
                    /\ output' = IF Tail(bytes) = <<>> THEN "ask" ELSE "write"
                    /\ wire' = "sending"
               ELSE wire' = now /\ UNCHANGED <<sent, bytes, output>>
            /\ rx' = NoByte
            /\ IF reads
               THEN /\ got' = Append(got, rx)
                    /\ input' = IF Len(got') = 2 THEN "send" ELSE "read"
               ELSE UNCHANGED <<got, input>>
            /\ UNCHANGED <<sender, inbox, driverVars, answer, epoch>>
  BY DEF ServeUart
<1> DEFINE clear  == IF "modem" \in status THEN now # "busy" ELSE cts
           writes == "tx" \in status /\ output = "writing" /\ clear
           reads  == "rx" \in status /\ input = "reading"
<1>2. now = wire \/ (wire = "busy" /\ now = "idle" /\ EdgeInHandler)
  BY DEF WireWhenCleared
<1>3. /\ "modem" \in status <=> modem
      /\ "rx" \in status <=> rx # NoByte
      /\ status \subseteq {"modem", "tx", "rx"}
  BY DEF Pending
<1>4. /\ wire \in {"idle", "sending", "busy"} /\ cts \in BOOLEAN /\ modem \in BOOLEAN
      /\ wire = "sending" => ~cts /\ ~modem
      /\ cts => wire = "idle"
      /\ rx # NoByte => input = "reading"
      /\ output = "writing" => bytes # <<>>
  BY DEF LineBasics, LineTypes, FlowControl, NotifiersHold
<1> HIDE DEF status
<1>5. clear \in BOOLEAN
  BY <1>2, <1>3, <1>4
<1>6. (clear => now = "idle") /\ (clear => wire # "sending")
  BY <1>2, <1>3, <1>4
<1>7. cts' = (clear /\ ~writes) /\ txEnabled' \in BOOLEAN
  BY <1>1 DEF CtsAfterWrite, TxAfterModem
<1>8. /\ UNCHANGED <<sender, inbox, driverVars, answer, epoch>>
      /\ rx' = NoByte /\ modem' = FALSE
  BY <1>1
<1>9. Reads \/ (rx = NoByte /\ UNCHANGED <<got, input>>)
  <2>1. CASE rx # NoByte
    <3>1. reads
      BY <1>3, <1>4, <2>1
    <3>2. got' = Append(got, rx) /\ input' = IF Len(got') = 2 THEN "send" ELSE "read"
      BY <1>1, <3>1
    <3> QED BY <1>4, <2>1, <3>2 DEF Reads
  <2>2. CASE rx = NoByte
    <3>1. ~reads
      BY <1>3, <2>2
    <3>2. UNCHANGED <<got, input>>
      BY <1>1, <3>1
    <3> QED BY <2>2, <3>2
  <2> QED BY <2>1, <2>2
<1>10. CASE writes
  <2>1. /\ sent' = Head(bytes) /\ bytes' = Tail(bytes) /\ wire' = "sending"
        /\ output' = IF Tail(bytes) = <<>> THEN "ask" ELSE "write"
    BY <1>1, <1>10
  <2>2. output = "writing" /\ clear /\ cts' = FALSE
    BY <1>7, <1>10
  <2>3. Writes
    BY <1>4, <1>6, <2>1, <2>2 DEF Writes
  <2> QED BY <1>7, <1>8, <1>9, <2>3
<1>11. CASE ~writes
  <2>1. wire' = now /\ UNCHANGED <<sent, bytes, output>>
    BY <1>1, <1>11
  <2>2. cts' = clear
    BY <1>5, <1>7, <1>11
  <2>3. cts' => wire' = "idle"
    BY <1>6, <2>1, <2>2
  <2>4. FlagSeen => FlagSeen'
    <3> SUFFICES ASSUME ~EdgeInHandler, wire = "idle" /\ ~cts => modem, wire' = "idle"
                 PROVE  cts'
      BY DEF FlagSeen, ModemChangesSeen
    <3>1. now = wire /\ wire = "idle"
      BY <1>2, <2>1
    <3>2. clear
      BY <1>3, <1>4, <3>1
    <3> QED BY <2>2, <3>2
  <2> QED BY <1>2, <1>5, <1>7, <1>8, <1>9, <2>1, <2>2, <2>3, <2>4
<1> QED BY <1>10, <1>11

LEMMA BasicsServeUart ==
  ASSUME LineBasics, ServeUart
  PROVE  LineBasics'
<1>1. /\ UNCHANGED <<sender, inbox, driverVars, answer, epoch>>
      /\ rx' = NoByte /\ modem' = FALSE
      /\ cts' \in BOOLEAN /\ txEnabled' \in BOOLEAN
  BY UartStep
<1>2. /\ got \in Seq(Byte) /\ bytes \in Rest /\ wire \in {"idle", "sending", "busy"}
      /\ rx \in Byte \cup {NoByte} /\ sent \in LineByte \cup {NoByte}
      /\ output \in {"ask", "asked", "write", "writing"}
      /\ input \in {"read", "reading", "send", "sent"}
  BY DEF LineBasics, LineTypes
<1>3. /\ got' \in Seq(Byte) /\ input' \in {"read", "reading", "send", "sent"}
      /\ input' \in {"read", "reading"} => Len(got') \in {0, 1}
      /\ input' = "send" => Len(got') = 2
      /\ input' = "sent" => got' = <<>>
      /\ One(input' = "sent") = One(input = "sent")
  <2>1. CASE Reads
    <3>1. got' \in Seq(Byte) /\ Len(got') = Len(got) + 1 /\ Len(got) \in {0, 1}
      <4>1. rx \in Byte /\ Len(got) \in {0, 1}
        BY <1>2, <2>1 DEF Reads, LineBasics, NotifiersHold
      <4>2. got' = Append(got, rx)
        BY <2>1 DEF Reads
      <4> QED BY <1>2, <4>1, <4>2, AppendProperties
    <3>2. input = "reading" /\ input' = IF Len(got') = 2 THEN "send" ELSE "read"
      BY <2>1 DEF Reads
    <3>3. got' \in Seq(Byte) /\ Len(got') \in {1, 2}
      <4>1. CASE Len(got) = 0
        BY <3>1, <4>1
      <4>2. CASE Len(got) = 1
        BY <3>1, <4>2
      <4> QED BY <3>1, <4>1, <4>2
    <3>4. CASE Len(got') = 2
      <4>1. input' = "send"
        BY <3>2, <3>4
      <4> QED BY <3>2, <3>3, <3>4, <4>1 DEF One
    <3>5. CASE Len(got') = 1
      <4>1. input' = "read"
        BY <3>2, <3>5
      <4> QED BY <3>2, <3>3, <3>5, <4>1 DEF One
    <3> QED BY <3>3, <3>4, <3>5
  <2>2. CASE rx = NoByte /\ UNCHANGED <<got, input>>
    BY <1>2, <2>2 DEF LineBasics, NotifiersHold
  <2> QED BY <2>1, <2>2, UartStep
<1>4. /\ bytes' \in Rest /\ wire' \in {"idle", "sending", "busy"}
      /\ sent' \in LineByte \cup {NoByte}
      /\ output' \in {"ask", "asked", "write", "writing"}
      /\ bytes' # <<>> <=> output' \in {"write", "writing"}
      /\ One(output' = "asked") = One(output = "asked")
      /\ FlowControl'
  <2>1. CASE Writes
    <3>1. Head(bytes) \in LineByte /\ Tail(bytes) \in Rest
      BY <1>2, <2>1, RestShape DEF Writes
    <3>2. FlowControl'
      BY <1>1, <2>1, <3>1 DEF Writes, FlowControl
    <3> QED BY <1>2, <2>1, <3>1, <3>2 DEF Writes, One
  <2>2. CASE /\ UNCHANGED <<sent, bytes, output>>
             /\ wire' = wire \/ (wire = "busy" /\ wire' = "idle" /\ EdgeInHandler)
             /\ cts' => wire' = "idle"
    <3>1. FlowControl'
      BY <1>1, <2>2 DEF LineBasics, FlowControl
    <3> QED BY <1>2, <2>2, <3>1 DEF LineBasics, NotifiersHold
  <2> QED BY <2>1, <2>2, UartStep
<1>5. LineTypes'
  BY <1>1, <1>3, <1>4 DEF LineBasics, LineTypes, driverVars
<1>6. QueuesInStep'
  BY <1>1 DEF LineBasics, QueuesInStep, driverVars
<1>7. NotifiersHold'
  BY <1>1, <1>3, <1>4 DEF NotifiersHold
<1>8. NotifiersOnce'
  BY <1>1, <1>3, <1>4 DEF LineBasics, NotifiersOnce, TxMessages, Readings, driverVars
<1> QED BY <1>4, <1>5, <1>6, <1>7, <1>8 DEF LineBasics

LEMMA BasicsStep ==
  ASSUME LineBasics, [Next]_vars
  PROVE  LineBasics'
<1>1. CASE UNCHANGED vars
  BY <1>1 DEF LineBasics, LineTypes, QueuesInStep, NotifiersHold, FlowControl, NotifiersOnce,
              TxMessages, Readings, vars, driverVars, notifierVars, kernelVars, lineVars
<1>2. CASE \E c \in Command : SendCommand(c)
  BY <1>2, BasicsSendCommand
<1>3. CASE Serve
  <2>1. PICK m : m = Head(inbox)
    OBVIOUS
  <2> QED BY <1>3, <2>1, Received, BasicsServeCommand, BasicsServeOutput, BasicsServeInput
<1> QED BY <1>1, <1>2, <1>3, BasicsOutputAsk, BasicsInputSend, BasicsOther, BasicsServeUart,
           BasicsBoxTakesByte, BasicsBoxAnswers DEF Next, Hung

-----------------------------------------------------------------------------
(* Flow control.                                                            *)

LEMMA FlagStep ==
  ASSUME LineBasics, FlagSeen, [Next]_vars
  PROVE  FlagSeen'
<1>1. CASE ServeUart
  <2>1. CASE Writes
    BY <2>1 DEF Writes, FlagSeen, ModemChangesSeen
  <2> QED BY <1>1, <2>1, UartStep
<1>2. CASE BoxTakesByte \/ BoxIsReady
  BY <1>2 DEF BoxTakesByte, BoxIsReady, FlagSeen, ModemChangesSeen
<1>3. CASE UNCHANGED <<wire, cts, modem>>
  BY <1>3 DEF FlagSeen, ModemChangesSeen
<1>4. ASSUME [Next]_vars, ~ServeUart, ~BoxTakesByte, ~BoxIsReady
      PROVE  UNCHANGED <<wire, cts, modem>>
  BY <1>4 DEF Next, vars, SendCommand, OutputAsk, OutputWrite, InputRead, InputSend, Serve,
              BoxAnswers, Hung, kernelVars, lineVars
<1> QED BY <1>1, <1>2, <1>3, <1>4

-----------------------------------------------------------------------------
(* Where the tasks that wait for the driver are.  A request for the sensors *)
(* is counted once more: until the box has its byte it stands in the queue, *)
(* with the notifier or on the line.                                        *)

CommandsFrom(s) == {c \in Command : c.from = s}
MailFrom(s)     == Count(inbox, CommandsFrom(s))
PlacesOf(s)     == Count(tasks, {s})
Asks(s)         == IF s = Courier THEN One(request = Courier) ELSE PlacesOf(s)

SensorByte == LowByte([type |-> "sensors", from |-> Courier])
AtNotifier == One(bytes = <<SensorByte>>)
OnLine     == One(wire = "sending" /\ sent = SensorByte)
Ahead      == PlacesOf(Courier) + AtNotifier + OnLine

SendersOnce == \A s \in Sender : MailFrom(s) + Asks(s) = One(sender[s] = "sent")
RequestOnce == Ahead <= One(request = Courier)

LineSenders == LineBasics /\ (~failed => SendersOnce /\ RequestOnce)

LEMMA OneType ==
  ASSUME NEW b
  PROVE  One(b) \in {0, 1} /\ One(b) \in Nat
BY DEF One

LEMMA SenderCounts ==
  ASSUME LineBasics, NEW s \in Sender
  PROVE  MailFrom(s) \in Nat /\ PlacesOf(s) \in Nat /\ Asks(s) \in Nat
<1>1. inbox \in Seq(Message) /\ tasks \in Seq(Sender)
  BY DEF LineBasics, LineTypes
<1>2. MailFrom(s) \in Nat /\ PlacesOf(s) \in Nat
  BY <1>1, PlacesFinite DEF MailFrom, PlacesOf
<1> QED BY <1>2, OneType DEF Asks

LEMMA AheadType ==
  ASSUME LineBasics
  PROVE  Ahead \in Nat /\ AtNotifier \in {0, 1} /\ OnLine \in {0, 1} /\ PlacesOf(Courier) \in Nat
<1>1. PlacesOf(Courier) \in Nat
  BY SenderCounts DEF Sender
<1>2. AtNotifier \in {0, 1} /\ OnLine \in {0, 1}
  BY OneType DEF AtNotifier, OnLine
<1> QED BY <1>1, <1>2 DEF Ahead

LEMMA SensorBytes ==
  ASSUME NEW c \in Command
  PROVE  Bytes(c) = <<SensorByte>> <=> c.type = "sensors"
<1> DEFINE S == [type |-> "sensors", from |-> Courier]
<1>1. S \in Command /\ S.type = "sensors"
  BY DEF Command
<1>2. LowByte(c) = LowByte(S) => c = S
  BY DEF LowByte
<1>3. Bytes(c) = <<SensorByte>> => LowByte(c) = SensorByte
  <2>1. Head(Bytes(c)) = LowByte(c) /\ Head(<<SensorByte>>) = SensorByte
    BY BytesShape
  <2> QED BY <2>1
<1>4. c.type = "sensors" => c = S
  BY CommandFields
<1>5. Bytes(S) = <<SensorByte>>
  BY <1>1 DEF Bytes, SensorByte, LowByte
<1> QED BY <1>1, <1>2, <1>3, <1>4, <1>5 DEF SensorByte

LEMMA LineBytes ==
  ASSUME NEW b \in LineByte
  PROVE  b[1].type = "sensors" <=> b = SensorByte
<1> DEFINE S == [type |-> "sensors", from |-> Courier]
<1>1. SensorByte[1] = S /\ S.type = "sensors"
  BY DEF SensorByte, LowByte
<1>2. ASSUME NEW c \in Command, b = LowByte(c)
      PROVE  b[1].type = "sensors" <=> b = SensorByte
  <2>1. b[1] = c
    BY <1>2 DEF LowByte
  <2>2. c.type = "sensors" => c = S
    BY CommandFields
  <2> QED BY <1>1, <1>2, <2>1, <2>2 DEF SensorByte
<1>3. ASSUME NEW c \in [type : {"pair"}, from : PairClient], b = HighByte(c)
      PROVE  b[1].type = "sensors" <=> b = SensorByte
  <2>1. b[1] = c /\ c.type = "pair"
    BY <1>3 DEF HighByte
  <2> QED BY <1>1, <2>1
<1> QED BY <1>2, <1>3 DEF LineByte

\* The sensor byte is alone among what the notifier has still to write.
LEMMA RestSensor ==
  ASSUME NEW b \in Rest, b # <<>>
  PROVE  /\ Head(b) = SensorByte <=> b = <<SensorByte>>
         /\ Tail(b) # <<SensorByte>>
<1> DEFINE S == [type |-> "sensors", from |-> Courier]
<1>1. <<SensorByte>> # <<>> /\ Head(<<SensorByte>>) = SensorByte
  OBVIOUS
<1>2. ASSUME NEW c \in [type : {"pair"}, from : PairClient]
      PROVE  HighByte(c) # SensorByte
  <2>1. HighByte(c)[1] = c /\ SensorByte[1] = S /\ S.type = "sensors" /\ c.type = "pair"
    BY DEF HighByte, SensorByte, LowByte
  <2> QED BY <2>1
<1>3. ASSUME NEW c \in [type : {"pair"}, from : PairClient]
      PROVE  <<HighByte(c)>> # <<SensorByte>>
  <2>1. Head(<<HighByte(c)>>) = HighByte(c)
    OBVIOUS
  <2> QED BY <1>1, <1>2, <2>1
<1>4. ASSUME NEW c \in Command, b = Bytes(c)
      PROVE  /\ Head(b) = SensorByte <=> b = <<SensorByte>>
             /\ Tail(b) # <<SensorByte>>
  <2>1. Head(b) = LowByte(c)
    BY <1>4, BytesShape
  <2>2. Tail(b) = IF c.type = "pair" THEN <<HighByte(c)>> ELSE <<>>
    BY <1>4, BytesShape
  <2>3. Tail(b) # <<SensorByte>>
    BY <1>1, <1>3, <2>2, CommandFields
  <2>4. LowByte(c) = SensorByte => c.type = "sensors"
    <3>1. LowByte(c)[1] = c /\ SensorByte[1] = S /\ S.type = "sensors"
      BY DEF SensorByte, LowByte
    <3> QED BY <3>1
  <2> QED BY <1>1, <1>4, <2>1, <2>3, <2>4, SensorBytes
<1>5. ASSUME NEW c \in [type : {"pair"}, from : PairClient], b = <<HighByte(c)>>
      PROVE  /\ Head(b) = SensorByte <=> b = <<SensorByte>>
             /\ Tail(b) # <<SensorByte>>
  <2>1. Head(b) = HighByte(c) /\ Tail(b) = <<>>
    <3> HIDE DEF HighByte
    <3> QED BY <1>5
  <2> QED BY <1>1, <1>2, <1>5, <2>1
<1> QED BY <1>4, <1>5 DEF Rest

LEMMA TaskQueued ==
  ASSUME LineBasics, NEW x \in Sender, tasks' = Append(tasks, x), NEW s
  PROVE  PlacesOf(s)' = PlacesOf(s) + One(x = s)
<1>1. tasks \in Seq(Sender)
  BY DEF LineBasics, LineTypes
<1>2. x \in {s} <=> x = s
  OBVIOUS
<1>3. Count(tasks', {s}) = Count(tasks, {s}) + One(x \in {s})
  BY <1>1, CountAppend
<1> QED BY <1>2, <1>3 DEF PlacesOf, One

LEMMA TaskTaken ==
  ASSUME LineBasics, commands # <<>>, tasks' = Tail(tasks), NEW s
  PROVE  /\ PlacesOf(s)' = PlacesOf(s) - One(Head(tasks) = s)
         /\ PlacesOf(s)' \in Nat /\ PlacesOf(s) \in Nat
         /\ Head(tasks) \in Sender /\ Head(commands) \in Command
         /\ Head(commands).from = Head(tasks) /\ Head(commands).type = Head(types)
<1>1. /\ tasks \in Seq(Sender) /\ commands \in Seq(Command) /\ types \in Seq(Kind)
      /\ Len(tasks) = Len(commands) /\ Len(types) = Len(commands)
  BY DEF LineBasics, LineTypes, QueuesInStep
<1>2. Len(commands) \in Nat /\ Len(commands) # 0
  BY <1>1, LenProperties, EmptySeq
<1>3. tasks # <<>> /\ types # <<>>
  BY <1>1, <1>2, EmptySeq
<1>4. Tail(tasks) \in Seq(Sender) /\ Head(tasks) = tasks[1] /\ Head(tasks) \in Sender
  BY <1>1, <1>3, HeadTailProperties
<1>5. Head(commands) = commands[1] /\ Head(commands) \in Command
  BY <1>1, HeadTailProperties
<1>6. Head(types) = types[1]
  BY <1>1, <1>3, HeadTailProperties
<1>7. commands[1].from = tasks[1] /\ commands[1].type = types[1]
  BY <1>2 DEF LineBasics, QueuesInStep
<1>8. Head(tasks) \in {s} <=> Head(tasks) = s
  OBVIOUS
<1>9. /\ Count(tasks', {s}) = Count(tasks, {s}) - One(Head(tasks) \in {s})
      /\ Count(tasks', {s}) \in Nat /\ Count(tasks, {s}) \in Nat
  BY <1>1, <1>3, <1>4, CountTail, PlacesFinite
<1> QED BY <1>4, <1>5, <1>6, <1>7, <1>8, <1>9 DEF PlacesOf, One

LEMMA CommandReceived ==
  ASSUME LineBasics, Serve, NEW m, m = Head(inbox), NEW s
  PROVE  /\ MailFrom(s)' = MailFrom(s) - One(m \in CommandsFrom(s))
         /\ MailFrom(s) \in Nat /\ MailFrom(s)' \in Nat
<1>1. LineTypes /\ inbox # <<>> /\ inbox' = Tail(inbox)
  BY DEF LineBasics, Serve
<1> QED BY <1>1, MailReceived DEF MailFrom

LEMMA SendersInit ==
  ASSUME Init
  PROVE  LineSenders
<1>1. LineBasics
  BY BasicsInit
<1>2. inbox = <<>> /\ tasks = <<>> /\ bytes = <<>> /\ request = NoTask /\ wire # "sending"
  BY DEF Init
<1>3. NoTask # Courier
  BY TrainLineAssumption DEF NoTask
<1>4. PlacesOf(Courier) = 0 /\ AtNotifier = 0 /\ OnLine = 0 /\ One(request = Courier) = 0
  <2>1. <<>> # <<SensorByte>>
    OBVIOUS
  <2> QED BY <1>2, <1>3, <2>1, CountEmpty DEF PlacesOf, AtNotifier, OnLine, One
<1>5. RequestOnce
  BY <1>4 DEF RequestOnce, Ahead
<1>6. ASSUME NEW s \in Sender
      PROVE  MailFrom(s) + Asks(s) = One(sender[s] = "sent")
  <2>1. MailFrom(s) = 0 /\ PlacesOf(s) = 0
    BY <1>2, CountEmpty DEF MailFrom, PlacesOf
  <2>2. sender[s] # "sent"
    BY DEF Init
  <2> QED BY <1>4, <2>1, <2>2 DEF Asks, One
<1> QED BY <1>1, <1>5, <1>6 DEF LineSenders, SendersOnce

LEMMA SendersSendCommand ==
  ASSUME LineSenders, ~failed, NEW c \in Command, SendCommand(c)
  PROVE  SendersOnce'
<1>1. /\ LineTypes /\ Posts(c) /\ sender[c.from] = "run" /\ c.from \in Sender /\ c \in Message
      /\ sender' = [sender EXCEPT ![c.from] = "sent"]
      /\ request' = request /\ tasks' = tasks
      /\ sender \in [Sender -> {"run", "sent"}]
  BY CommandFields DEF LineSenders, LineBasics, LineTypes, SendCommand, driverVars, Message
<1>2. SUFFICES ASSUME NEW s \in Sender
               PROVE  MailFrom(s)' + Asks(s)' = One(sender[s] = "sent")'
  BY DEF SendersOnce
<1>3. MailFrom(s) + Asks(s) = One(sender[s] = "sent") /\ MailFrom(s) \in Nat /\ Asks(s) \in Nat
  BY SenderCounts DEF LineSenders, SendersOnce
<1>4. MailFrom(s)' = MailFrom(s) + One(c \in CommandsFrom(s))
  BY <1>1, MailSent DEF MailFrom
<1>5. Asks(s)' = Asks(s)
  BY <1>1 DEF Asks, PlacesOf
<1>6. c \in CommandsFrom(s) <=> c.from = s
  BY DEF CommandsFrom
<1>7. CASE c.from = s
  <2>1. One(c \in CommandsFrom(s)) = 1 /\ One(sender[s] = "sent") = 0
    BY <1>1, <1>6, <1>7 DEF One
  <2>2. One(sender[s] = "sent")' = 1
    BY <1>1, <1>7 DEF One
  <2> QED BY <1>3, <1>4, <1>5, <2>1, <2>2
<1>8. CASE c.from # s
  <2>1. One(c \in CommandsFrom(s)) = 0
    BY <1>6, <1>8 DEF One
  <2>2. One(sender[s] = "sent")' = One(sender[s] = "sent")
    BY <1>1, <1>8 DEF One
  <2> QED BY <1>3, <1>4, <1>5, <2>1, <2>2
<1> QED BY <1>7, <1>8

\* Other messages and the steps of the line.
LEMMA SendersOtherMail ==
  ASSUME LineSenders, ~failed, NEW m \in Message, m \notin Command, Posts(m),
         UNCHANGED <<sender, request, tasks>>
  PROVE  SendersOnce'
<1>1. LineTypes
  BY DEF LineSenders, LineBasics
<1>2. SUFFICES ASSUME NEW s \in Sender
               PROVE  MailFrom(s)' + Asks(s)' = One(sender[s] = "sent")'
  BY DEF SendersOnce
<1>3. MailFrom(s) + Asks(s) = One(sender[s] = "sent") /\ MailFrom(s) \in Nat /\ Asks(s) \in Nat
  BY SenderCounts DEF LineSenders, SendersOnce
<1>4. One(m \in CommandsFrom(s)) = 0
  BY DEF CommandsFrom, One
<1>5. MailFrom(s)' = MailFrom(s) + One(m \in CommandsFrom(s))
  BY <1>1, MailSent DEF MailFrom
<1>6. Asks(s)' = Asks(s) /\ One(sender[s] = "sent")' = One(sender[s] = "sent")
  BY DEF Asks, PlacesOf
<1> QED BY <1>3, <1>4, <1>5, <1>6

LEMMA SendersSame ==
  ASSUME LineSenders, ~failed, UNCHANGED <<inbox, sender, request, tasks>>
  PROVE  SendersOnce'
BY DEF LineSenders, SendersOnce, MailFrom, Asks, PlacesOf

LEMMA AheadSame ==
  ASSUME LineSenders, UNCHANGED <<tasks, bytes, wire, sent>>
  PROVE  Ahead' = Ahead
BY DEF Ahead, PlacesOf, AtNotifier, OnLine

LEMMA AheadServeUart ==
  ASSUME LineSenders, ServeUart
  PROVE  Ahead' = Ahead
<1>1. tasks' = tasks /\ LineBasics /\ bytes \in Rest
  BY UartStep DEF driverVars, LineSenders, LineBasics, LineTypes
<1>2. PlacesOf(Courier)' = PlacesOf(Courier)
  BY <1>1 DEF PlacesOf
<1>3. AtNotifier' + OnLine' = AtNotifier + OnLine
  <2>1. CASE Writes
    <3>1. /\ Head(bytes) = SensorByte <=> bytes = <<SensorByte>>
          /\ Tail(bytes) # <<SensorByte>>
      BY <1>1, <2>1, RestSensor DEF Writes
    <3>2. AtNotifier' = 0 /\ OnLine = 0
      BY <2>1, <3>1 DEF Writes, AtNotifier, OnLine, One
    <3>3. OnLine' = AtNotifier
      BY <2>1, <3>1 DEF Writes, AtNotifier, OnLine, One
    <3> QED BY <1>1, <3>2, <3>3, AheadType
  <2>2. CASE /\ UNCHANGED <<sent, bytes, output>>
             /\ wire' = wire \/ (wire = "busy" /\ wire' = "idle" /\ EdgeInHandler)
    BY <2>2 DEF AtNotifier, OnLine, One
  <2> QED BY <1>1, <2>1, <2>2, UartStep
<1>4. AtNotifier' \in {0, 1} /\ OnLine' \in {0, 1}
  BY OneType DEF AtNotifier, OnLine
<1> QED BY <1>1, <1>2, <1>3, <1>4, AheadType DEF Ahead

\* When the box has the byte of the request, the request is nowhere else.
LEMMA AheadBoxTakesByte ==
  ASSUME LineSenders, BoxTakesByte
  PROVE  /\ sent[1].type = "sensors" => Ahead >= 1 /\ Ahead' = Ahead - 1
         /\ sent[1].type # "sensors" => Ahead' = Ahead
<1>1. /\ wire = "sending" /\ wire' = "busy" /\ UNCHANGED <<tasks, bytes, sent>>
      /\ sent \in LineByte /\ LineBasics
  BY DEF BoxTakesByte, driverVars, notifierVars, LineSenders, LineBasics, FlowControl
<1>2. sent[1].type = "sensors" <=> sent = SensorByte
  BY <1>1, LineBytes
<1>3. PlacesOf(Courier)' = PlacesOf(Courier) /\ AtNotifier' = AtNotifier /\ OnLine' = 0
  BY <1>1 DEF PlacesOf, AtNotifier, OnLine, One
<1>4. CASE sent = SensorByte
  <2>1. OnLine = 1
    BY <1>1, <1>4 DEF OnLine, One
  <2> QED BY <1>1, <1>2, <1>3, <1>4, <2>1, AheadType DEF Ahead
<1>5. CASE sent # SensorByte
  <2>1. OnLine = 0
    BY <1>1, <1>5 DEF OnLine, One
  <2> QED BY <1>1, <1>2, <1>3, <1>5, <2>1, AheadType DEF Ahead
<1> QED BY <1>4, <1>5

LEMMA SendersServeCommand ==
  ASSUME LineSenders, ~failed, Serve, NEW m, m = Head(inbox), ServeCommand(m), ~failed'
  PROVE  /\ SendersOnce'
         /\ m.type = "sensors" => /\ request = NoTask /\ request' = Courier /\ count' = 0
                                  /\ Ahead' = Ahead + 1
         /\ m.type # "sensors" => request' = request /\ count' = count /\ Ahead' = Ahead
<1>1. /\ m \in Command /\ m.from \in Sender
      /\ m.type = "sensors" <=> m.from = Courier
      /\ LineBasics /\ sender \in [Sender -> {"run", "sent"}]
  BY CommandFields DEF ServeCommand, LineSenders, LineBasics, LineTypes
<1>2. NoTask # Courier
  BY TrainLineAssumption DEF NoTask
<1>3. UNCHANGED <<wire, sent>>
  BY DEF Serve, lineVars
<1>4. m.type = "sensors" => request = NoTask
  BY DEF ServeCommand, Failed
<1>5. /\ m.type = "sensors" => request = NoTask /\ request' = Courier /\ count' = 0
      /\ m.type # "sensors" => request' = request /\ count' = count
  BY <1>1, <1>4 DEF ServeCommand, CountReset
<1>6. CASE /\ outputWaiting
           /\ HandOver(m)
           /\ IF m.type = "sensors" THEN UNCHANGED sender ELSE Replied(m.from)
           /\ UNCHANGED tasks
  <2>1. bytes = <<>> /\ bytes' = Bytes(m)
    <3>1. TxMessages + One(outputWaiting) = One(output = "asked")
      BY <1>1 DEF LineBasics, NotifiersOnce
    <3>2. One(outputWaiting) = 1 /\ One(output = "asked") \in {0, 1} /\ TxMessages \in Nat
      BY <1>1, <1>6, OneType, Received DEF One
    <3>3. One(output = "asked") = 1
      BY <3>1, <3>2
    <3>4. output = "asked"
      BY <3>3 DEF One
    <3> QED BY <1>1, <1>6, <3>4 DEF LineBasics, NotifiersHold, HandOver
  <2>2. AtNotifier = 0
    <3>1. <<>> # <<SensorByte>>
      OBVIOUS
    <3> QED BY <2>1, <3>1 DEF AtNotifier, One
  <2>3. AtNotifier' = One(m.type = "sensors")
    BY <1>1, <2>1, SensorBytes DEF AtNotifier, One
  <2>4. /\ \A s \in Sender : PlacesOf(s)' = PlacesOf(s)
        /\ OnLine' = OnLine
    BY <1>3, <1>6 DEF PlacesOf, OnLine
  <2>5. Courier \in Sender
    BY DEF Sender
  <2>6. Ahead' = Ahead + One(m.type = "sensors")
    BY <1>1, <2>2, <2>3, <2>4, <2>5, AheadType, OneType DEF Ahead
  <2>7. ASSUME NEW s \in Sender
        PROVE  MailFrom(s)' + Asks(s)' = One(sender[s] = "sent")'
    <3>1. MailFrom(s) + Asks(s) = One(sender[s] = "sent") /\ Asks(s) \in Nat
      BY <1>1, SenderCounts DEF LineSenders, SendersOnce
    <3>2. /\ MailFrom(s)' = MailFrom(s) - One(m \in CommandsFrom(s))
          /\ MailFrom(s) \in Nat /\ MailFrom(s)' \in Nat
      BY <1>1, CommandReceived
    <3>3. CASE m.from # s
      <4>1. One(m \in CommandsFrom(s)) = 0
        BY <3>3 DEF CommandsFrom, One
      <4>2. Asks(s)' = Asks(s)
        BY <1>1, <1>5, <2>4, <3>3 DEF Asks
      <4>3. One(sender[s] = "sent")' = One(sender[s] = "sent")
        BY <1>1, <1>6, <3>3 DEF Replied, One
      <4> QED BY <3>1, <3>2, <4>1, <4>2, <4>3
    <3>4. CASE m.from = s /\ m.type = "sensors"
      <4>1. One(m \in CommandsFrom(s)) = 1
        BY <1>1, <3>4 DEF CommandsFrom, One
      <4>2. Asks(s)' = 1 /\ Asks(s) = 0
        BY <1>1, <1>2, <1>5, <3>4 DEF Asks, One
      <4>3. One(sender[s] = "sent")' = One(sender[s] = "sent")
        BY <1>6, <3>4 DEF One
      <4> QED BY <3>1, <3>2, <4>1, <4>2, <4>3
    <3>5. CASE m.from = s /\ m.type # "sensors"
      <4>1. One(m \in CommandsFrom(s)) = 1
        BY <1>1, <3>5 DEF CommandsFrom, One
      <4>2. Asks(s)' = Asks(s)
        BY <1>5, <2>4, <3>5 DEF Asks
      <4>3. One(sender[s] = "sent")' = 0
        BY <1>1, <1>6, <3>5 DEF Replied, One
      <4>4. One(sender[s] = "sent") \in {0, 1}
        BY OneType
      <4> QED BY <3>1, <3>2, <4>1, <4>2, <4>3, <4>4
    <3> QED BY <3>3, <3>4, <3>5
  <2>8. /\ m.type = "sensors" => Ahead' = Ahead + 1
        /\ m.type # "sensors" => Ahead' = Ahead + 0
    BY <2>6 DEF One
  <2>9. Ahead \in Nat
    BY <1>1, AheadType
  <2> QED BY <1>5, <2>7, <2>8, <2>9 DEF SendersOnce
<1>7. CASE tasks' = Append(tasks, m.from) /\ UNCHANGED <<sender, bytes>>
  <2>1. \A s \in Sender : PlacesOf(s)' = PlacesOf(s) + One(m.from = s)
    BY <1>1, <1>7, TaskQueued
  <2>2. AtNotifier' = AtNotifier /\ OnLine' = OnLine
    BY <1>3, <1>7 DEF AtNotifier, OnLine
  <2>3. Courier \in Sender
    BY DEF Sender
  <2>4. One(m.from = Courier) = One(m.type = "sensors")
    BY <1>1 DEF One
  <2>5. PlacesOf(Courier)' = PlacesOf(Courier) + One(m.type = "sensors")
    BY <2>1, <2>3, <2>4
  <2>6. Ahead' = Ahead + One(m.type = "sensors")
    BY <1>1, <2>2, <2>5, AheadType, OneType DEF Ahead
  <2>7. ASSUME NEW s \in Sender
        PROVE  MailFrom(s)' + Asks(s)' = One(sender[s] = "sent")'
    <3>1. /\ MailFrom(s) + Asks(s) = One(sender[s] = "sent") /\ Asks(s) \in Nat
          /\ PlacesOf(s) \in Nat
      BY <1>1, SenderCounts DEF LineSenders, SendersOnce
    <3>2. /\ MailFrom(s)' = MailFrom(s) - One(m \in CommandsFrom(s))
          /\ MailFrom(s) \in Nat /\ MailFrom(s)' \in Nat
      BY <1>1, CommandReceived
    <3>3. One(sender[s] = "sent")' = One(sender[s] = "sent")
      BY <1>7
    <3>4. One(m \in CommandsFrom(s)) = One(m.from = s)
      BY <1>1 DEF CommandsFrom, One
    <3>5. Asks(s)' = Asks(s) + One(m.from = s)
      <4>1. CASE s = Courier /\ m.from = s
        <5>1. Asks(s)' = 1 /\ Asks(s) = 0 /\ One(m.from = s) = 1
          BY <1>1, <1>2, <1>5, <4>1 DEF Asks, One
        <5> QED BY <5>1
      <4>2. CASE s = Courier /\ m.from # s
        <5>1. Asks(s)' = Asks(s) /\ One(m.from = s) = 0
          BY <1>1, <1>5, <4>2 DEF Asks, One
        <5> QED BY <3>1, <5>1
      <4>3. CASE s # Courier
        BY <2>1, <4>3 DEF Asks
      <4> QED BY <4>1, <4>2, <4>3
    <3> QED BY <3>1, <3>2, <3>3, <3>4, <3>5, OneType
  <2>8. /\ m.type = "sensors" => Ahead' = Ahead + 1
        /\ m.type # "sensors" => Ahead' = Ahead + 0
    BY <2>6 DEF One
  <2>9. Ahead \in Nat
    BY <1>1, AheadType
  <2> QED BY <1>5, <2>7, <2>8, <2>9 DEF SendersOnce
<1> QED BY <1>6, <1>7 DEF ServeCommand, Failed

LEMMA SendersServeOutput ==
  ASSUME LineSenders, ~failed, Serve, NEW m, m = Head(inbox), ServeOutput(m), ~failed'
  PROVE  /\ SendersOnce'
         /\ request' = request /\ count' = count /\ Ahead' = Ahead
<1>1. /\ LineBasics /\ sender \in [Sender -> {"run", "sent"}]
      /\ request' = request /\ count' = count /\ UNCHANGED <<wire, sent>>
  BY DEF ServeOutput, LineSenders, LineBasics, LineTypes, Serve, lineVars
<1>2. m \in Message /\ m \notin Command /\ m = TxRequest
  BY <1>1, Received, MessageKinds DEF ServeOutput, Kind
<1>3. ASSUME NEW s \in Sender
      PROVE  /\ MailFrom(s)' = MailFrom(s) /\ MailFrom(s) \in Nat
             /\ MailFrom(s) + Asks(s) = One(sender[s] = "sent")
             /\ Asks(s) \in Nat /\ PlacesOf(s) \in Nat
  <2>1. One(m \in CommandsFrom(s)) = 0
    BY <1>2 DEF CommandsFrom, One
  <2>2. MailFrom(s)' = MailFrom(s) - One(m \in CommandsFrom(s)) /\ MailFrom(s) \in Nat
    BY <1>1, CommandReceived
  <2>3. MailFrom(s) + Asks(s) = One(sender[s] = "sent")
    BY DEF LineSenders, SendersOnce
  <2> QED BY <1>1, <2>1, <2>2, <2>3, SenderCounts
<1>4. CASE UNCHANGED <<sender, tasks, bytes>>
  <2>1. Ahead' = Ahead
    BY <1>1, <1>4, AheadSame
  <2>2. \A s \in Sender : Asks(s)' = Asks(s)
    BY <1>1, <1>4 DEF Asks, PlacesOf
  <2> QED BY <1>1, <1>3, <1>4, <2>1, <2>2 DEF SendersOnce
<1>5. CASE /\ commands # <<>>
           /\ HandOver(Head(commands))
           /\ tasks' = Tail(tasks)
           /\ IF Head(types) # "sensors"
              THEN Replied(Head(tasks)) /\ UNCHANGED failed
              ELSE failed' = (Head(tasks) # request) /\ UNCHANGED sender
  <2>1. /\ Head(tasks) \in Sender /\ Head(commands) \in Command
        /\ Head(commands).from = Head(tasks) /\ Head(commands).type = Head(types)
    BY <1>1, <1>5, TaskTaken
  <2>2. \A s \in Sender : /\ PlacesOf(s)' = PlacesOf(s) - One(Head(tasks) = s)
                          /\ PlacesOf(s)' \in Nat /\ PlacesOf(s) \in Nat
    BY <1>1, <1>5, TaskTaken
  <2>3. Head(types) = "sensors" <=> Head(tasks) = Courier
    BY <2>1, CommandFields
  <2>4. bytes = <<>> /\ bytes' = Bytes(Head(commands))
    <3>1. TxMessages + One(outputWaiting) = One(output = "asked")
      BY <1>1 DEF LineBasics, NotifiersOnce
    <3>2. TxMessages' = TxMessages - 1 /\ TxMessages' \in Nat /\ TxMessages \in Nat
      BY <1>1, <1>2, Received DEF One
    <3>3. One(output = "asked") = 1
      BY <3>1, <3>2, OneType
    <3>4. output = "asked"
      BY <3>3 DEF One
    <3> QED BY <1>1, <1>5, <3>4 DEF LineBasics, NotifiersHold, HandOver
  <2>5. AtNotifier = 0
    <3>1. <<>> # <<SensorByte>>
      OBVIOUS
    <3> QED BY <2>4, <3>1 DEF AtNotifier, One
  <2>6. AtNotifier' = One(Head(tasks) = Courier)
    BY <2>1, <2>3, <2>4, SensorBytes DEF AtNotifier, One
  <2>7. OnLine' = OnLine
    BY <1>1 DEF OnLine
  <2>8. Courier \in Sender
    BY DEF Sender
  <2>9. Ahead' = Ahead
    <3>1. PlacesOf(Courier)' = PlacesOf(Courier) - One(Head(tasks) = Courier)
      BY <2>2, <2>8
    <3> QED BY <1>1, <2>5, <2>6, <2>7, <3>1, AheadType, OneType DEF Ahead
  <2>10. ASSUME NEW s \in Sender
         PROVE  MailFrom(s)' + Asks(s)' = One(sender[s] = "sent")'
    <3>1. CASE Head(tasks) # s
      <4>1. One(sender[s] = "sent")' = One(sender[s] = "sent")
        BY <1>1, <1>5, <3>1 DEF Replied, One
      <4>2. One(Head(tasks) = s) = 0
        BY <3>1 DEF One
      <4>3. PlacesOf(s)' = PlacesOf(s) - 0
        BY <2>2, <4>2
      <4>4. PlacesOf(s)' = PlacesOf(s)
        BY <1>3, <4>3
      <4>5. Asks(s)' = Asks(s)
        BY <1>1, <4>4 DEF Asks
      <4> QED BY <1>3, <4>1, <4>5
    <3>2. CASE Head(tasks) = s /\ s = Courier
      <4>1. One(sender[s] = "sent")' = One(sender[s] = "sent")
        BY <1>5, <2>3, <3>2
      <4>2. Asks(s)' = Asks(s)
        BY <1>1, <3>2 DEF Asks
      <4> QED BY <1>3, <4>1, <4>2
    <3>3. CASE Head(tasks) = s /\ s # Courier
      <4>1. One(sender[s] = "sent")' = 0
        BY <1>1, <1>5, <2>1, <2>3, <3>3 DEF Replied, One
      <4>2. Asks(s) = PlacesOf(s) /\ Asks(s)' = PlacesOf(s)' /\ One(Head(tasks) = s) = 1
        BY <3>3 DEF Asks, One
      <4>3. PlacesOf(s)' = PlacesOf(s) - 1 /\ PlacesOf(s)' \in Nat
        BY <2>2, <4>2
      <4>4. One(sender[s] = "sent") \in {0, 1}
        BY OneType
      <4> QED BY <1>3, <4>1, <4>2, <4>3, <4>4
    <3> QED BY <3>1, <3>2, <3>3
  <2> QED BY <1>1, <2>9, <2>10 DEF SendersOnce
<1> QED BY <1>4, <1>5 DEF ServeOutput

LEMMA SendersServeInput ==
  ASSUME LineSenders, ~failed, Serve, NEW m, m = Head(inbox), ServeInput(m),
         request = NoTask \/ Ahead = 0
  PROVE  /\ SendersOnce' /\ RequestOnce' /\ Ahead' = Ahead
<1>1. /\ LineBasics /\ sender \in [Sender -> {"run", "sent"}] /\ request \in {Courier, NoTask}
      /\ UNCHANGED <<wire, sent, tasks, bytes>>
      /\ Courier \in Sender
  BY DEF ServeInput, LineSenders, LineBasics, LineTypes, Serve, lineVars, Sender
<1>2. m \in Message /\ m \notin Command
  BY <1>1, Received, MessageKinds DEF ServeInput, Kind
<1>3. NoTask # Courier
  BY TrainLineAssumption DEF NoTask
<1>4. Ahead' = Ahead
  BY <1>1, AheadSame
<1>5. ASSUME NEW s \in Sender
      PROVE  /\ MailFrom(s)' = MailFrom(s) /\ MailFrom(s) \in Nat
             /\ MailFrom(s) + Asks(s) = One(sender[s] = "sent")
             /\ Asks(s) \in Nat /\ PlacesOf(s)' = PlacesOf(s)
  <2>1. One(m \in CommandsFrom(s)) = 0
    BY <1>2 DEF CommandsFrom, One
  <2>2. MailFrom(s)' = MailFrom(s) - One(m \in CommandsFrom(s)) /\ MailFrom(s) \in Nat
    BY <1>1, CommandReceived
  <2>3. MailFrom(s) + Asks(s) = One(sender[s] = "sent")
    BY DEF LineSenders, SendersOnce
  <2>4. PlacesOf(s)' = PlacesOf(s)
    BY <1>1 DEF PlacesOf
  <2> QED BY <1>1, <2>1, <2>2, <2>3, <2>4, SenderCounts
<1>6. CASE UNCHANGED <<sender, request>>
  <2>1. \A s \in Sender : Asks(s)' = Asks(s)
    BY <1>5, <1>6 DEF Asks
  <2>2. SendersOnce'
    BY <1>5, <1>6, <2>1 DEF SendersOnce
  <2>3. RequestOnce'
    BY <1>4, <1>6 DEF LineSenders, RequestOnce
  <2> QED BY <1>4, <2>2, <2>3
<1>7. CASE request # NoTask /\ Replied(request) /\ request' = NoTask
  <2>1. request = Courier /\ Ahead = 0
    BY <1>1, <1>7
  <2>2. ASSUME NEW s \in Sender
        PROVE  MailFrom(s)' + Asks(s)' = One(sender[s] = "sent")'
    <3>1. CASE s = Courier
      <4>1. Asks(s) = 1 /\ Asks(s)' = 0
        BY <1>3, <1>7, <2>1, <3>1 DEF Asks, One
      <4>2. One(sender[s] = "sent")' = 0
        BY <1>1, <1>7, <2>1, <3>1 DEF Replied, One
      <4>3. One(sender[s] = "sent") \in {0, 1}
        BY OneType
      <4> QED BY <1>5, <4>1, <4>2, <4>3
    <3>2. CASE s # Courier
      <4>1. Asks(s)' = Asks(s)
        BY <1>5, <3>2 DEF Asks
      <4>2. One(sender[s] = "sent")' = One(sender[s] = "sent")
        BY <1>1, <1>7, <2>1, <3>2 DEF Replied, One
      <4> QED BY <1>5, <4>1, <4>2
    <3> QED BY <3>1, <3>2
  <2>3. RequestOnce'
    BY <1>4, <2>1, OneType DEF RequestOnce
  <2> QED BY <1>4, <2>2, <2>3 DEF SendersOnce
<1> QED BY <1>6, <1>7 DEF ServeInput

-----------------------------------------------------------------------------
(* Where the bytes of a snapshot are: in the driver's buffer, in a message, *)
(* with the input notifier, in the UART or still with the box.              *)

Arriving == IF rx = NoByte THEN <<>> ELSE <<rx>>
Coming   == got \o (Arriving \o answer)
Taken    == 2 * count + (IF input = "sent" THEN 2 ELSE 0)

PairOf(e, g) == <<Datum(e, 2 * g - 1), Datum(e, 2 * g)>>

MailIs(r) == \A i \in 1 .. Len(inbox) : inbox[i] \in ReadingMessage => inbox[i].body = r

Filled   == \A g \in 1 .. count : buffer[g] = PairOf(epoch, g)
Promised == /\ Taken + Len(Coming) = 2 * GROUPS
            /\ \A j \in 1 .. Len(Coming) : Coming[j] = Datum(epoch, Taken + j)
InOrder  == count < GROUPS /\ Filled /\ MailIs(PairOf(epoch, count + 1)) /\ Promised

Whole == buffer \in {Snapshot(epoch), [g \in Reading |-> NoByte]}
Quiet == /\ answer = <<>> /\ rx = NoByte /\ got = <<>> /\ input # "sent"
         /\ Whole
         /\ request = Courier => count = 0

\* The box has the byte of the request, and its answer is not complete.
Answering == request = Courier /\ Ahead = 0

LineInv ==
  /\ LineSenders
  /\ count \in 0 .. GROUPS
  /\ AnswersWhole
  /\ ~failed => (Answering => InOrder) /\ (~Answering => Quiet)

LEMMA DatumOfGroup ==
  ASSUME NEW e, NEW g \in Nat \ {0}
  PROVE  Datum(e, 2 * g - 1) = Half(e, g, 1) /\ Datum(e, 2 * g) = Half(e, g, 2)
<1>1. ((2 * g - 1) + 1) \div 2 = g /\ 2 - ((2 * g - 1) % 2) = 1
  BY SMTT(30)
<1>2. ((2 * g) + 1) \div 2 = g /\ 2 - ((2 * g) % 2) = 2
  BY SMTT(30)
<1> QED BY <1>1, <1>2 DEF Datum

LEMMA FullBuffer ==
  ASSUME NEW e, NEW b \in [Reading -> Seq(Byte)],
         \A g \in 1 .. GROUPS : b[g] = PairOf(e, g)
  PROVE  b = Snapshot(e)
<1>1. GROUPS \in Nat
  BY TrainLineAssumption
<1>2. ASSUME NEW g \in Reading
      PROVE  b[g] = <<Half(e, g, 1), Half(e, g, 2)>>
  <2>1. g \in 1 .. GROUPS /\ g \in Nat \ {0}
    BY <1>1 DEF Reading
  <2> QED BY <2>1, DatumOfGroup DEF PairOf
<1> QED BY <1>2 DEF Snapshot

LEMMA ComingType ==
  ASSUME LineBasics
  PROVE  /\ Arriving \in Seq(Byte) /\ Coming \in Seq(Byte)
         /\ Arriving \o answer \in Seq(Byte)
         /\ got \in Seq(Byte) /\ answer \in Seq(Byte) /\ rx \in Byte \cup {NoByte}
         /\ Len(Coming) \in Nat
<1>1. got \in Seq(Byte) /\ answer \in Seq(Byte) /\ rx \in Byte \cup {NoByte}
  BY DEF LineBasics, LineTypes
<1>2. Arriving \in Seq(Byte)
  <2>1. CASE rx = NoByte
    BY <2>1, EmptySeq DEF Arriving
  <2>2. CASE rx # NoByte
    <3>1. rx \in Byte
      BY <1>1, <2>2
    <3>2. <<rx>> \in Seq(Byte)
      BY <3>1
    <3> QED BY <2>2, <3>2 DEF Arriving
  <2> QED BY <2>1, <2>2
<1>3. Arriving \o answer \in Seq(Byte)
  BY <1>1, <1>2, ConcatProperties
<1>4. Coming \in Seq(Byte)
  BY <1>1, <1>3, ConcatProperties DEF Coming
<1> QED BY <1>1, <1>2, <1>3, <1>4, LenProperties

\* The handler moves a byte from the UART to the notifier.
LEMMA ComingRead ==
  ASSUME LineBasics, Reads, rx' = NoByte, answer' = answer
  PROVE  Coming' = Coming
<1>1. /\ got \in Seq(Byte) /\ answer \in Seq(Byte) /\ rx \in Byte
      /\ got' = Append(got, rx) /\ Arriving = <<rx>> /\ Arriving' = <<>>
  BY ComingType DEF Reads, Arriving
<1>2. <<rx>> \in Seq(Byte)
  BY <1>1
<1>3. Append(got, rx) = got \o <<rx>>
  BY <1>1, AppendIsConcat
<1>4. Arriving' \o answer' = answer
  BY <1>1, ConcatEmptySeq
<1>5. Coming' = (got \o <<rx>>) \o answer
  BY <1>1, <1>3, <1>4 DEF Coming
<1>6. (got \o <<rx>>) \o answer = got \o (<<rx>> \o answer)
  BY <1>1, <1>2, ConcatAssociative
<1> QED BY <1>1, <1>5, <1>6 DEF Coming

\* The box puts a byte into the UART.
LEMMA ComingAnswers ==
  ASSUME LineBasics, BoxAnswers
  PROVE  Coming' = Coming
<1>1. /\ answer \in Seq(Byte) /\ answer # <<>> /\ rx = NoByte
      /\ rx' = Head(answer) /\ answer' = Tail(answer) /\ got' = got
  BY ComingType DEF BoxAnswers, notifierVars
<1>2. /\ Head(answer) \in Byte /\ Tail(answer) \in Seq(Byte)
      /\ answer = <<Head(answer)>> \o Tail(answer)
  BY <1>1, HeadTailProperties
<1>3. rx' # NoByte
  BY <1>1, <1>2, ByteFacts
<1>4. Arriving \o answer = answer
  BY <1>1, ConcatEmptySeq DEF Arriving
<1>5. Arriving' \o answer' = <<Head(answer)>> \o Tail(answer)
  BY <1>1, <1>3 DEF Arriving
<1> QED BY <1>1, <1>2, <1>4, <1>5 DEF Coming

LEMMA ComingEmpty ==
  ASSUME LineBasics
  PROVE  Len(Coming) = 0 <=> got = <<>> /\ rx = NoByte /\ answer = <<>>
<1>1. /\ Arriving \in Seq(Byte) /\ Arriving \o answer \in Seq(Byte)
      /\ got \in Seq(Byte) /\ answer \in Seq(Byte)
  BY ComingType
<1>2. /\ Len(Coming) = Len(got) + Len(Arriving \o answer)
      /\ Len(Arriving \o answer) = Len(Arriving) + Len(answer)
      /\ Len(got) \in Nat /\ Len(Arriving) \in Nat /\ Len(answer) \in Nat
  BY <1>1, ConcatProperties, LenProperties DEF Coming
<1>3. Len(got) = 0 <=> got = <<>>
  BY <1>1, EmptySeq
<1>4. Len(answer) = 0 <=> answer = <<>>
  BY <1>1, EmptySeq
<1>5. Len(Arriving) = 0 <=> rx = NoByte
  BY DEF Arriving
<1> QED BY <1>2, <1>3, <1>4, <1>5

\* The notifier sends a reading.
LEMMA ComingSend ==
  ASSUME LineBasics, InputSend
  PROVE  /\ got = <<Coming[1], Coming[2]>>
         /\ Len(Coming) = Len(Coming') + 2
         /\ \A j \in 1 .. Len(Coming') : Coming'[j] = Coming[j + 2]
<1>1. /\ Arriving \o answer \in Seq(Byte) /\ got \in Seq(Byte) /\ Len(got) = 2
      /\ got' = <<>> /\ rx' = rx /\ answer' = answer
  BY ComingType DEF LineBasics, NotifiersHold, InputSend, lineVars
<1> DEFINE r == Arriving \o answer
<1>2. Coming = got \o r /\ r \in Seq(Byte)
  BY <1>1 DEF Coming
<1>3. Coming' = r
  <2>1. Arriving' \o answer' = r
    BY <1>1 DEF Arriving
  <2>2. Coming' = <<>> \o r
    BY <1>1, <2>1 DEF Coming
  <2> QED BY <1>2, <2>2, ConcatEmptySeq
<1> HIDE DEF r
<1>4. /\ Len(Coming) = 2 + Len(r) /\ Len(r) \in Nat
      /\ \A j \in 1 .. 2 + Len(r) : Coming[j] = IF j <= 2 THEN got[j] ELSE r[j - 2]
  <2>1. /\ Len(got \o r) = Len(got) + Len(r)
        /\ \A j \in 1 .. Len(got) + Len(r) :
             (got \o r)[j] = IF j <= Len(got) THEN got[j] ELSE r[j - Len(got)]
    BY <1>1, <1>2, ConcatProperties
  <2>2. Len(r) \in Nat
    BY <1>2, LenProperties
  <2> QED BY <1>1, <1>2, <2>1, <2>2
<1>5. Coming[1] = got[1] /\ Coming[2] = got[2]
  BY <1>4
<1>6. got = <<got[1], got[2]>>
  BY <1>1
<1>7. ASSUME NEW j \in 1 .. Len(r)
      PROVE  r[j] = Coming[j + 2]
  <2>1. j + 2 \in 1 .. 2 + Len(r) /\ ~(j + 2 <= 2) /\ (j + 2) - 2 = j
    BY <1>4
  <2> QED BY <1>4, <2>1
<1> QED BY <1>3, <1>4, <1>5, <1>6, <1>7

LEMMA MailSame ==
  ASSUME LineBasics, NEW r, MailIs(r), inbox # <<>>, inbox' = Tail(inbox)
  PROVE  MailIs(r)'
<1>1. inbox \in Seq(Message)
  BY DEF LineBasics, LineTypes
<1>2. /\ Len(inbox) \in Nat /\ Len(inbox') = Len(inbox) - 1
      /\ \A i \in 1 .. Len(inbox') : inbox'[i] = inbox[i + 1]
  BY <1>1, HeadTailProperties, LenProperties
<1>3. ASSUME NEW i \in 1 .. Len(inbox')
      PROVE  i + 1 \in 1 .. Len(inbox)
  BY <1>2
<1> QED BY <1>2, <1>3 DEF MailIs

LEMMA MailAdded ==
  ASSUME LineBasics, NEW r, MailIs(r), NEW m \in Message, Posts(m),
         m \in ReadingMessage => m.body = r
  PROVE  MailIs(r)'
<1>1. inbox \in Seq(Message) /\ inbox' = Append(inbox, m)
  BY DEF LineBasics, LineTypes, Posts
<1>2. /\ Len(inbox) \in Nat /\ Len(inbox') = Len(inbox) + 1 /\ inbox'[Len(inbox) + 1] = m
      /\ \A i \in 1 .. Len(inbox) : inbox'[i] = inbox[i]
  BY <1>1, AppendProperties, LenProperties
<1>3. ASSUME NEW i \in 1 .. Len(inbox')
      PROVE  i \in 1 .. Len(inbox) \/ i = Len(inbox) + 1
  BY <1>2
<1> QED BY <1>2, <1>3 DEF MailIs

LEMMA NoReadings ==
  ASSUME LineBasics, input # "sent", NEW r
  PROVE  MailIs(r)
<1>1. Count(inbox, ReadingMessage) = 0 /\ inbox \in Seq(Message)
  BY DEF LineBasics, LineTypes, NotifiersOnce, Readings, One
<1>2. \A i \in 1 .. Len(inbox) : inbox[i] \notin ReadingMessage
  BY <1>1, CountZero
<1> QED BY <1>2 DEF MailIs

AnswerPlace == (Answering => InOrder) /\ (~Answering => Quiet)

\* What keeps the bytes of a snapshot where they are.
LEMMA AnswersKeep ==
  ASSUME LineInv, ~failed, UNCHANGED <<count, buffer, epoch, request>>, Ahead' = Ahead,
         input' = "sent" <=> input = "sent",
         Coming' = Coming,
         Quiet => answer' = <<>> /\ rx' = NoByte /\ got' = <<>>,
         \/ inbox' = inbox
         \/ inbox # <<>> /\ inbox' = Tail(inbox)
         \/ \E m \in Message \ ReadingMessage : Posts(m)
  PROVE  AnswerPlace'
<1>1. LineBasics /\ Answering' = Answering
  BY DEF LineInv, LineSenders, Answering
<1>2. CASE Answering
  <2>1. InOrder
    BY <1>2 DEF LineInv
  <2>2. PICK r : r = PairOf(epoch, count + 1)
    OBVIOUS
  <2>3. r = PairOf(epoch', count' + 1)
    BY <2>2
  <2>4. MailIs(r)
    BY <2>1, <2>2 DEF InOrder
  <2>5. MailIs(r)'
    <3>1. CASE inbox' = inbox
      BY <2>4, <3>1 DEF MailIs
    <3>2. CASE inbox # <<>> /\ inbox' = Tail(inbox)
      BY <1>1, <2>4, <3>2, MailSame
    <3>3. ASSUME NEW m \in Message \ ReadingMessage, Posts(m)
          PROVE  MailIs(r)'
      BY <1>1, <2>4, <3>3, MailAdded
    <3> QED BY <3>1, <3>2, <3>3
  <2>6. MailIs(PairOf(epoch, count + 1))'
    BY <2>3, <2>5 DEF MailIs
  <2>7. Taken' = Taken
    BY DEF Taken
  <2>8. InOrder'
    BY <2>1, <2>6, <2>7 DEF InOrder, Filled, Promised
  <2> QED BY <1>1, <1>2, <2>8 DEF AnswerPlace
<1>3. CASE ~Answering
  <2>1. Quiet
    BY <1>3 DEF LineInv
  <2>2. Quiet'
    BY <2>1 DEF Quiet, Whole
  <2> QED BY <1>1, <1>3, <2>2 DEF AnswerPlace
<1> QED BY <1>2, <1>3

LEMMA AnswersOther ==
  ASSUME LineInv, ~failed,
         \/ \E c \in Command : SendCommand(c)
         \/ OutputAsk \/ OutputWrite \/ InputRead \/ BoxIsReady
  PROVE  AnswerPlace'
<1>1. LineSenders /\ LineBasics
  BY DEF LineInv, LineSenders
<1>2. /\ UNCHANGED <<count, buffer, epoch, request, tasks, got, rx, answer>>
  BY DEF SendCommand, OutputAsk, OutputWrite, InputRead, BoxIsReady, driverVars, notifierVars,
       lineVars
<1>3. Coming' = Coming
  BY <1>2 DEF Coming, Arriving
<1>4. Ahead' = Ahead
  <2>1. CASE BoxIsReady
    BY <1>2, <2>1 DEF BoxIsReady, notifierVars, Ahead, PlacesOf, AtNotifier, OnLine, One
  <2>2. CASE UNCHANGED <<bytes, wire, sent>>
    BY <1>1, <1>2, <2>2, AheadSame
  <2>3. BoxIsReady \/ UNCHANGED <<bytes, wire, sent>>
    BY DEF SendCommand, OutputAsk, OutputWrite, InputRead, notifierVars, lineVars
  <2> QED BY <2>1, <2>2, <2>3
<1>5. input' = "sent" <=> input = "sent"
  BY DEF SendCommand, OutputAsk, OutputWrite, InputRead, BoxIsReady, notifierVars
<1>6. Quiet => answer' = <<>> /\ rx' = NoByte /\ got' = <<>>
  BY <1>2 DEF Quiet
<1>7. inbox' = inbox \/ \E m \in Message \ ReadingMessage : Posts(m)
  <2>1. ASSUME NEW c \in Command, SendCommand(c)
        PROVE  \E m \in Message \ ReadingMessage : Posts(m)
    <3>1. c \in Message /\ c \notin ReadingMessage
      BY MessageKinds, CommandFields DEF Message, Kind
    <3> QED BY <2>1, <3>1 DEF SendCommand
  <2>2. CASE OutputAsk
    <3>1. TxRequest \in Message /\ TxRequest \notin ReadingMessage
      BY DEF Message, TxRequest, ReadingMessage
    <3> QED BY <2>2, <3>1 DEF OutputAsk, TxRequest
  <2>3. CASE OutputWrite \/ InputRead \/ BoxIsReady
    BY <2>3 DEF OutputWrite, InputRead, BoxIsReady
  <2> QED BY <2>1, <2>2, <2>3
<1> QED BY <1>2, <1>3, <1>4, <1>5, <1>6, <1>7, AnswersKeep

LEMMA AnswersServeUart ==
  ASSUME LineInv, ~failed, ServeUart
  PROVE  AnswerPlace'
<1>1. LineSenders /\ LineBasics
  BY DEF LineInv, LineSenders
<1>2. /\ UNCHANGED <<count, buffer, epoch, request, inbox, answer>> /\ rx' = NoByte
      /\ Reads \/ (rx = NoByte /\ UNCHANGED <<got, input>>)
  BY <1>1, UartStep DEF driverVars
<1>3. Ahead' = Ahead
  BY <1>1, AheadServeUart
<1>4. Coming' = Coming
  <2>1. CASE Reads
    BY <1>1, <1>2, <2>1, ComingRead
  <2>2. CASE rx = NoByte /\ UNCHANGED <<got, input>>
    BY <1>2, <2>2 DEF Coming, Arriving
  <2> QED BY <1>2, <2>1, <2>2
<1>5. input' = "sent" <=> input = "sent"
  BY <1>2 DEF Reads
<1>6. Quiet => answer' = <<>> /\ rx' = NoByte /\ got' = <<>>
  BY <1>2 DEF Quiet, Reads
<1> QED BY <1>2, <1>3, <1>4, <1>5, <1>6, AnswersKeep

LEMMA AnswersBoxAnswers ==
  ASSUME LineInv, ~failed, BoxAnswers
  PROVE  AnswerPlace'
<1>1. LineSenders /\ LineBasics
  BY DEF LineInv, LineSenders
<1>2. /\ UNCHANGED <<count, buffer, epoch, request, inbox, input, tasks, bytes, wire, sent>>
      /\ answer # <<>>
  BY DEF BoxAnswers, driverVars, notifierVars
<1>3. Ahead' = Ahead
  BY <1>1, <1>2, AheadSame
<1>4. Coming' = Coming
  BY <1>1, ComingAnswers
<1>5. ~Quiet
  BY <1>2 DEF Quiet
<1> QED BY <1>2, <1>3, <1>4, <1>5, AnswersKeep

LEMMA ComingLength == LineBasics => Len(Coming) \in Nat
BY ComingType

LEMMA AnswersInputSend ==
  ASSUME LineInv, ~failed, InputSend
  PROVE  AnswerPlace'
<1>1. LineSenders /\ LineBasics
  BY DEF LineInv, LineSenders
<1>2. /\ UNCHANGED <<count, buffer, epoch, request, tasks, bytes, wire, sent>>
      /\ input = "send" /\ input' = "sent" /\ Len(got) = 2
      /\ Posts([type |-> "reading", body |-> got])
  BY <1>1 DEF InputSend, driverVars, lineVars, LineBasics, NotifiersHold
<1>3. Ahead' = Ahead
  BY <1>1, <1>2, AheadSame
<1>4. got # <<>>
  BY <1>2
<1>5. Answering /\ Answering' /\ InOrder
  BY <1>2, <1>3, <1>4 DEF LineInv, Quiet, Answering
<1>6. /\ got = <<Coming[1], Coming[2]>>
      /\ Len(Coming) = Len(Coming') + 2
      /\ \A j \in 1 .. Len(Coming') : Coming'[j] = Coming[j + 2]
      /\ Len(Coming) \in Nat /\ Len(Coming') \in Nat
  <2>1. Len(Coming) \in Nat
    BY <1>1, ComingType
  <2>2. LineBasics'
    BY <1>1, BasicsInputSend
  <2>4. LineBasics' => (Len(Coming) \in Nat)'
    BY ComingLength, PTL
  <2> QED BY <1>1, <2>1, <2>2, <2>4, ComingSend
<1>7. count \in Nat /\ Taken = 2 * count + 0 /\ Taken' = 2 * count + 2
  BY <1>1, <1>2 DEF LineBasics, LineTypes, Taken
<1>8. /\ Taken + Len(Coming) = 2 * GROUPS
      /\ \A j \in 1 .. Len(Coming) : Coming[j] = Datum(epoch, Taken + j)
  BY <1>5 DEF InOrder, Promised
<1>9. got = PairOf(epoch, count + 1)
  <2>1. 1 \in 1 .. Len(Coming) /\ 2 \in 1 .. Len(Coming)
    BY <1>6
  <2>2. Coming[1] = Datum(epoch, Taken + 1) /\ Coming[2] = Datum(epoch, Taken + 2)
    BY <1>8, <2>1
  <2>3. Taken + 1 = 2 * (count + 1) - 1 /\ Taken + 2 = 2 * (count + 1)
    BY <1>7
  <2> QED BY <1>6, <2>2, <2>3 DEF PairOf
<1>10. Promised'
  <2>1. Taken' + Len(Coming') = 2 * GROUPS
    BY <1>6, <1>7, <1>8
  <2>2. ASSUME NEW j \in 1 .. Len(Coming')
        PROVE  Coming'[j] = Datum(epoch, Taken' + j)
    <3>1. j + 2 \in 1 .. Len(Coming) /\ Taken + (j + 2) = Taken' + j
      BY <1>6, <1>7
    <3>2. Coming[j + 2] = Datum(epoch, Taken + (j + 2))
      BY <1>8, <3>1
    <3> QED BY <1>6, <3>1, <3>2
  <2> QED BY <1>2, <2>1, <2>2 DEF Promised
<1>11. MailIs(PairOf(epoch, count + 1))'
  <2>1. PICK r : r = PairOf(epoch, count + 1)
    OBVIOUS
  <2>2. PICK m : m = [type |-> "reading", body |-> got]
    OBVIOUS
  <2>3. m \in Message /\ m.body = r /\ Posts(m)
    <3>1. got \in Seq(Byte) /\ m.body = got /\ m \in ReadingMessage
      BY <1>1, <2>2, ComingType DEF ReadingMessage
    <3> QED BY <1>2, <1>9, <2>1, <2>2, <3>1 DEF Message
  <2>4. MailIs(r)
    BY <1>1, <1>2, NoReadings
  <2>5. MailIs(r)'
    BY <1>1, <2>3, <2>4, MailAdded
  <2> QED BY <1>2, <2>1, <2>5 DEF MailIs
<1>12. InOrder'
  BY <1>2, <1>5, <1>10, <1>11 DEF InOrder, Filled
<1> QED BY <1>5, <1>12 DEF AnswerPlace

LEMMA AnswersBoxTakesByte ==
  ASSUME LineInv, ~failed, BoxTakesByte
  PROVE  AnswerPlace'
<1>1. LineSenders /\ LineBasics /\ LineBasics'
  BY BasicsBoxTakesByte DEF LineInv, LineSenders
<1>2. /\ UNCHANGED <<count, buffer, request, inbox, input, got, rx>>
  BY DEF BoxTakesByte, driverVars, notifierVars
<1>3. CASE sent[1].type # "sensors"
  <2>1. UNCHANGED <<epoch, answer>>
    BY <1>3 DEF BoxTakesByte
  <2>2. Ahead' = Ahead
    BY <1>1, <1>3, AheadBoxTakesByte
  <2>3. Coming' = Coming
    BY <1>2, <2>1 DEF Coming, Arriving
  <2>4. Quiet => answer' = <<>> /\ rx' = NoByte /\ got' = <<>>
    BY <1>2, <2>1 DEF Quiet
  <2> QED BY <1>2, <2>1, <2>2, <2>3, <2>4, AnswersKeep
<1>4. CASE sent[1].type = "sensors"
  <2>1. /\ epoch' = 1 - epoch /\ answer' = answer \o SnapshotBytes(epoch')
        /\ epoch \in {0, 1}
    BY <1>1, <1>4 DEF BoxTakesByte, LineBasics, LineTypes
  <2>2. Ahead >= 1 /\ Ahead' = Ahead - 1 /\ Ahead \in Nat
    BY <1>1, <1>4, AheadBoxTakesByte, AheadType
  <2>3. Ahead <= One(request = Courier)
    BY DEF LineInv, LineSenders, RequestOnce
  <2>4. request = Courier /\ Ahead' = 0
    BY <2>2, <2>3 DEF One
  <2>5. ~Answering
    BY <2>2 DEF Answering
  <2>6. Quiet
    BY <2>5 DEF LineInv
  <2>7. Answering'
    BY <1>2, <2>4 DEF Answering
  <2>8. count = 0 /\ answer = <<>> /\ rx = NoByte /\ got = <<>> /\ input # "sent"
    BY <2>4, <2>6 DEF Quiet
  <2>9. PICK e : e = epoch'
    OBVIOUS
  <2>10. /\ SnapshotBytes(e) \in Seq(Byte) /\ Len(SnapshotBytes(e)) = 2 * GROUPS
         /\ \A i \in 1 .. 2 * GROUPS : SnapshotBytes(e)[i] = Datum(e, i)
    <3>1. e \in {0, 1}
      BY <2>1, <2>9
    <3> QED BY <3>1, SnapshotBytesType
  <2>11. Coming' = SnapshotBytes(e)
    <3>1. answer' = SnapshotBytes(e)
      BY <2>1, <2>8, <2>9, <2>10, ConcatEmptySeq
    <3>2. Arriving' = <<>> /\ got' = <<>>
      BY <1>2, <2>8 DEF Arriving
    <3>3. Coming' = <<>> \o (<<>> \o SnapshotBytes(e))
      BY <3>1, <3>2 DEF Coming
    <3> QED BY <2>10, <3>3, ConcatEmptySeq
  <2>12. Taken' = 0
    BY <1>2, <2>8 DEF Taken
  <2>13. GROUPS \in Nat \ {0}
    BY TrainLineAssumption
  <2>14. Promised'
    <3>1. Taken' + Len(Coming') = 2 * GROUPS
      BY <2>10, <2>11, <2>12, <2>13
    <3>2. ASSUME NEW j \in 1 .. Len(Coming')
          PROVE  Coming'[j] = Datum(epoch', Taken' + j)
      <4>1. j \in 1 .. 2 * GROUPS /\ 0 + j = j
        BY <2>10, <2>11, <2>13
      <4>2. SnapshotBytes(e)[j] = Datum(e, j)
        BY <2>10, <4>1
      <4> QED BY <2>9, <2>11, <2>12, <4>1, <4>2
    <3> QED BY <3>1, <3>2 DEF Promised
  <2>15. MailIs(PairOf(epoch, count + 1))'
    <3>1. PICK r : r = PairOf(epoch', count' + 1)
      OBVIOUS
    <3>2. MailIs(r)
      BY <1>1, <2>8, NoReadings
    <3> QED BY <1>2, <3>1, <3>2 DEF MailIs
  <2>16. count' < GROUPS /\ Filled'
    BY <1>2, <2>8, <2>13 DEF Filled
  <2>17. InOrder'
    BY <2>14, <2>15, <2>16 DEF InOrder
  <2> QED BY <2>7, <2>17 DEF AnswerPlace
<1> QED BY <1>3, <1>4

EveryMail == \A r : MailIs(r)

NoneSent  == input # "sent"

LEMMA MailEmpty == LineBasics /\ NoneSent => EveryMail
BY NoReadings DEF EveryMail, NoneSent

LEMMA AnswersServeCommand ==
  ASSUME LineInv, ~failed, Serve, NEW m, m = Head(inbox), ServeCommand(m), ~failed'
  PROVE  AnswerPlace' /\ SendersOnce' /\ RequestOnce'
<1>1. LineSenders /\ LineBasics /\ Ahead \in Nat
  BY AheadType DEF LineInv, LineSenders
<1>2. /\ UNCHANGED <<got, rx, answer, epoch>> /\ inbox # <<>> /\ inbox' = Tail(inbox)
      /\ UNCHANGED <<buffer, input>>
  BY DEF Serve, ServeCommand, Failed, lineVars
<1>3. Coming' = Coming
  BY <1>2 DEF Coming, Arriving
<1>4. NoTask # Courier
  BY TrainLineAssumption DEF NoTask
<1>5. Ahead <= One(request = Courier)
  BY DEF LineInv, LineSenders, RequestOnce
<1>6. SendersOnce'
  BY <1>1, SendersServeCommand
<1>7. CASE m.type = "sensors"
  <2>1. request = NoTask /\ request' = Courier /\ count' = 0 /\ Ahead' = Ahead + 1
    BY <1>1, <1>7, SendersServeCommand
  <2>2. Ahead = 0
    BY <1>1, <1>4, <1>5, <2>1 DEF One
  <2>3. RequestOnce'
    BY <2>1, <2>2 DEF RequestOnce, One
  <2>4. Quiet
    BY <1>4, <2>1 DEF LineInv, Answering
  <2>5. ~Answering'
    BY <2>1, <2>2 DEF Answering
  <2>6. Quiet'
    BY <1>2, <2>1, <2>4 DEF Quiet, Whole
  <2> QED BY <1>6, <2>3, <2>5, <2>6 DEF AnswerPlace
<1>8. CASE m.type # "sensors"
  <2>1. request' = request /\ count' = count /\ Ahead' = Ahead
    BY <1>1, <1>8, SendersServeCommand
  <2>2. RequestOnce'
    BY <1>5, <2>1 DEF RequestOnce
  <2>3. AnswerPlace'
    BY <1>2, <1>3, <2>1, AnswersKeep DEF Quiet
  <2> QED BY <1>6, <2>2, <2>3
<1> QED BY <1>7, <1>8

LEMMA AnswersServeOutput ==
  ASSUME LineInv, ~failed, Serve, NEW m, m = Head(inbox), ServeOutput(m), ~failed'
  PROVE  AnswerPlace' /\ SendersOnce' /\ RequestOnce'
<1>1. LineSenders /\ LineBasics
  BY DEF LineInv, LineSenders
<1>2. /\ UNCHANGED <<got, rx, answer, epoch>> /\ inbox # <<>> /\ inbox' = Tail(inbox)
      /\ UNCHANGED <<buffer, input>>
  BY DEF Serve, ServeOutput, lineVars
<1>3. Coming' = Coming
  BY <1>2 DEF Coming, Arriving
<1>4. SendersOnce' /\ request' = request /\ count' = count /\ Ahead' = Ahead
  BY <1>1, SendersServeOutput
<1>5. RequestOnce'
  BY <1>4 DEF LineInv, LineSenders, RequestOnce
<1>6. AnswerPlace'
  BY <1>2, <1>3, <1>4, AnswersKeep DEF Quiet
<1> QED BY <1>4, <1>5, <1>6

LEMMA AnswersServeInput ==
  ASSUME LineInv, ~failed, Serve, NEW m, m = Head(inbox), ServeInput(m)
  PROVE  AnswerPlace' /\ SendersOnce' /\ RequestOnce' /\ count' \in 0 .. GROUPS
<1>1. LineSenders /\ LineBasics /\ input = "sent" /\ LineBasics'
      /\ m \in ReadingMessage /\ m.body \in Seq(Byte)
  BY BasicsServeInput DEF LineInv, LineSenders
<1>2. /\ UNCHANGED <<got, rx, answer, epoch>> /\ inbox # <<>> /\ inbox' = Tail(inbox)
      /\ input' = "read"
  BY DEF Serve, ServeInput, lineVars
<1>3. NoTask # Courier
  BY TrainLineAssumption DEF NoTask
<1>4. Answering /\ InOrder
  BY <1>1 DEF LineInv, Quiet
<1>5. request = Courier /\ Ahead = 0
  BY <1>4 DEF Answering
<1>6. SendersOnce' /\ RequestOnce' /\ Ahead' = 0
  BY <1>1, <1>5, SendersServeInput
<1>7. /\ count' = count + 1
      /\ buffer' = [buffer EXCEPT ![count + 1] = m.body]
      /\ IF Complete(count + 1)
         THEN Replied(request) /\ request' = NoTask
         ELSE UNCHANGED <<sender, request>>
  BY <1>3, <1>5 DEF ServeInput
<1>8. GROUPS \in Nat /\ count \in Nat /\ count < GROUPS
  BY <1>1, <1>4, TrainLineAssumption DEF LineBasics, LineTypes, InOrder
<1>9. m.body = PairOf(epoch, count + 1)
  <2>1. inbox \in Seq(Message)
    BY <1>1 DEF LineBasics, LineTypes
  <2>2. 1 \in 1 .. Len(inbox) /\ Head(inbox) = inbox[1]
    <3>1. Len(inbox) \in Nat /\ Len(inbox) # 0
      BY <1>2, <2>1, LenProperties, EmptySeq
    <3> QED BY <1>2, <2>1, <3>1, HeadTailProperties
  <2>3. MailIs(PairOf(epoch, count + 1))
    BY <1>4 DEF InOrder
  <2> QED BY <1>1, <2>2, <2>3 DEF MailIs
<1>10. Filled'
  <2>1. PICK k : k = count + 1
    OBVIOUS
  <2>2. k \in Nat /\ k \in 1 .. GROUPS
    BY <1>8, <2>1
  <2>3. buffer' = [buffer EXCEPT ![k] = m.body] /\ buffer \in [Reading -> Seq(Byte)]
    BY <1>1, <1>7, <2>1 DEF LineBasics, LineTypes
  <2>4. buffer'[k] = m.body
    BY <2>2, <2>3 DEF Reading
  <2>5. ASSUME NEW g \in 1 .. count
        PROVE  buffer'[g] = PairOf(epoch, g)
    <3>1. g \in 1 .. GROUPS /\ g # k
      BY <1>8, <2>1
    <3>2. buffer'[g] = buffer[g]
      BY <2>3, <3>1 DEF Reading
    <3>3. buffer[g] = PairOf(epoch, g)
      BY <1>4 DEF InOrder, Filled
    <3> QED BY <3>2, <3>3
  <2>6. ASSUME NEW g \in 1 .. count + 1
        PROVE  buffer'[g] = PairOf(epoch, g)
    <3>1. g \in 1 .. count \/ g = k
      BY <1>8, <2>1
    <3>2. CASE g = k
      BY <1>9, <2>1, <2>4, <3>2
    <3> QED BY <2>5, <3>1, <3>2
  <2> QED BY <1>2, <1>7, <2>6 DEF Filled
<1>11. Coming' = Coming /\ Taken' = Taken /\ Taken = 2 * count + 2
  <2>1. Taken = 2 * count + 2
    BY <1>1 DEF Taken
  <2>2. Taken' = 2 * (count + 1)
    BY <1>2, <1>7, <1>8 DEF Taken
  <2> QED BY <1>2, <1>8, <2>1, <2>2 DEF Coming, Arriving
<1>12. Promised'
  BY <1>2, <1>4, <1>11 DEF InOrder, Promised
<1>13. count' \in 0 .. GROUPS
  BY <1>7, <1>8
<1>14. CASE count + 1 = GROUPS
  <2>1. request' = NoTask
    BY <1>7, <1>14 DEF Complete
  <2>2. ~Answering'
    BY <1>3, <2>1 DEF Answering
  <2>3. Len(Coming) = 0
    <3>1. Taken + Len(Coming) = 2 * GROUPS
      BY <1>4 DEF InOrder, Promised
    <3>2. Taken = 2 * GROUPS
      BY <1>8, <1>11, <1>14
    <3>3. Len(Coming) \in Nat
      BY <1>1, ComingType
    <3> QED BY <1>8, <3>1, <3>2, <3>3
  <2>4. got = <<>> /\ rx = NoByte /\ answer = <<>>
    BY <1>1, <2>3, ComingEmpty
  <2>5. buffer' = Snapshot(epoch')
    <3>1. PICK b : b = buffer'
      OBVIOUS
    <3>2. PICK e : e = epoch'
      OBVIOUS
    <3>3. b \in [Reading -> Seq(Byte)]
      BY <1>1, <3>1 DEF LineBasics, LineTypes
    <3>4. \A g \in 1 .. GROUPS : b[g] = PairOf(e, g)
      BY <1>7, <1>10, <1>14, <3>1, <3>2 DEF Filled
    <3>5. b = Snapshot(e)
      BY <3>3, <3>4, FullBuffer
    <3> QED BY <3>1, <3>2, <3>5
  <2>6. Quiet'
    BY <1>2, <1>3, <2>1, <2>4, <2>5 DEF Quiet, Whole
  <2> QED BY <1>6, <1>13, <2>2, <2>6 DEF AnswerPlace
<1>15. CASE count + 1 # GROUPS
  <2>1. request' = request
    BY <1>7, <1>15 DEF Complete
  <2>2. Answering'
    BY <1>5, <1>6, <2>1 DEF Answering
  <2>3. count' < GROUPS
    BY <1>7, <1>8, <1>15
  <2>4. MailIs(PairOf(epoch, count + 1))'
    <3>1. PICK r : r = PairOf(epoch', count' + 1)
      OBVIOUS
    <3>2. (LineBasics /\ NoneSent)' => EveryMail'
      BY MailEmpty, PTL
    <3>3. NoneSent'
      BY <1>2 DEF NoneSent
    <3>4. MailIs(r)'
      BY <1>1, <3>2, <3>3 DEF EveryMail
    <3> QED BY <3>1, <3>4 DEF MailIs
  <2>5. InOrder'
    BY <1>10, <1>12, <2>3, <2>4 DEF InOrder
  <2> QED BY <1>6, <1>13, <2>2, <2>5 DEF AnswerPlace
<1> QED BY <1>14, <1>15

LEMMA AnswersInit ==
  ASSUME Init
  PROVE  LineInv
<1>1. LineSenders /\ LineBasics
  BY SendersInit, BasicsInit
<1>2. NoTask # Courier /\ GROUPS \in Nat
  BY TrainLineAssumption DEF NoTask
<1>3. Quiet /\ ~Answering
  BY <1>2 DEF Init, Quiet, Whole, Answering
<1>4. count \in 0 .. GROUPS
  BY <1>2 DEF Init
<1>5. AnswersWhole
  BY <1>3 DEF AnswersWhole, Quiet, Whole
<1> QED BY <1>1, <1>3, <1>4, <1>5 DEF LineInv

\* The courier runs only when nothing of a snapshot is on its way.
LEMMA CourierAnswered == SendersOnce /\ LineBasics /\ AnswerPlace => AnswersWhole
<1> SUFFICES ASSUME SendersOnce, LineBasics, AnswerPlace, sender[Courier] = "run"
             PROVE  Whole
  BY DEF AnswersWhole, Whole
<1>1. Courier \in Sender
  BY DEF Sender
<1>2. MailFrom(Courier) + Asks(Courier) = 0
  BY <1>1 DEF SendersOnce, One
<1>3. Asks(Courier) = 0
  BY <1>1, <1>2, SenderCounts
<1>4. request # Courier
  BY <1>3 DEF Asks, One
<1> QED BY <1>4 DEF AnswerPlace, Answering, Quiet

LEMMA LineInvStep ==
  ASSUME LineInv, [Next]_vars
  PROVE  LineInv'
<1>1. LineBasics /\ LineBasics'
  BY BasicsStep DEF LineInv, LineSenders
<1>2. CASE UNCHANGED vars
  <2>1. UNCHANGED <<sender, inbox, tasks, request, count, buffer, failed, bytes, input, got, wire,
                    sent, rx, answer, epoch>>
    BY <1>2 DEF vars, driverVars, notifierVars, lineVars
  <2>2. /\ \A s : MailFrom(s)' = MailFrom(s) /\ Asks(s)' = Asks(s)
        /\ Ahead' = Ahead /\ Coming' = Coming /\ Taken' = Taken
        /\ \A r : MailIs(r)' = MailIs(r)
    BY <2>1 DEF MailFrom, Asks, PlacesOf, Ahead, AtNotifier, OnLine, Coming, Arriving, Taken, MailIs
  <2>3. SendersOnce' = SendersOnce /\ RequestOnce' = RequestOnce /\ Quiet' = Quiet
        /\ Answering' = Answering /\ AnswersWhole' = AnswersWhole
    BY <2>1, <2>2 DEF SendersOnce, RequestOnce, Quiet, Whole, Answering, AnswersWhole
  <2>4. InOrder' = InOrder
    BY <2>1, <2>2 DEF InOrder, Filled, Promised
  <2> QED BY <1>1, <2>1, <2>3, <2>4 DEF LineInv, LineSenders
<1>3. CASE failed' /\ ~UNCHANGED vars
  <2>1. ~failed
    BY <1>3 DEF Next, SendCommand, OutputAsk, OutputWrite, InputRead, InputSend, Serve, ServeUart,
                BoxTakesByte, BoxIsReady, BoxAnswers, Hung
  <2>2. Serve
    <3>1. ~Serve => failed' = failed
      BY <1>3 DEF Next, SendCommand, OutputAsk, OutputWrite, InputRead, InputSend, ServeUart,
                  BoxTakesByte, BoxIsReady, BoxAnswers, Hung, driverVars
    <3> QED BY <1>3, <2>1, <3>1
  <2>3. PICK m : m = Head(inbox)
    OBVIOUS
  <2>4. ServeCommand(m) \/ ServeOutput(m) \/ ServeInput(m)
    BY <1>1, <2>2, <2>3, Received
  <2>5. UNCHANGED <<sender, buffer>> /\ count' \in 0 .. GROUPS
    <3>1. CASE ServeCommand(m)
      <4>1. UNCHANGED <<sender, buffer>>
        BY <1>3, <2>1, <3>1 DEF ServeCommand, Failed
      <4>2. count' \in {0, count} /\ GROUPS \in Nat
        BY <3>1, TrainLineAssumption DEF ServeCommand, CountReset
      <4> QED BY <4>1, <4>2 DEF LineInv
    <3>2. CASE ServeOutput(m)
      BY <1>3, <2>1, <3>2 DEF ServeOutput, LineInv
    <3>3. CASE ServeInput(m)
      BY <1>3, <2>1, <3>3 DEF ServeInput
    <3> QED BY <2>4, <3>1, <3>2, <3>3
  <2>6. epoch' = epoch
    BY <2>2 DEF Serve, lineVars
  <2>7. AnswersWhole'
    BY <2>5, <2>6 DEF LineInv, AnswersWhole
  <2> QED BY <1>1, <1>3, <2>5, <2>7 DEF LineInv, LineSenders
<1>4. CASE ~failed' /\ ~UNCHANGED vars
  <2>1. ~failed
    BY <1>4 DEF Next, SendCommand, OutputAsk, OutputWrite, InputRead, InputSend, Serve, ServeUart,
                BoxTakesByte, BoxIsReady, BoxAnswers, Hung
  <2>2. LineSenders /\ GROUPS \in Nat /\ SendersOnce /\ RequestOnce
    BY <2>1, TrainLineAssumption DEF LineInv, LineSenders
  <2>3. AnswerPlace' /\ SendersOnce' /\ RequestOnce' /\ count' \in 0 .. GROUPS
    <3>1. CASE Serve
      <4>1. PICK m : m = Head(inbox)
        OBVIOUS
      <4>2. CASE ServeCommand(m)
        <5>1. count' \in {0, count}
          BY <4>2 DEF ServeCommand, CountReset
        <5>2. count' \in 0 .. GROUPS
          BY <2>2, <5>1 DEF LineInv
        <5> QED BY <1>4, <2>1, <3>1, <4>1, <4>2, <5>2, AnswersServeCommand
      <4>3. CASE ServeOutput(m)
        <5>1. count' \in 0 .. GROUPS
          BY <4>3 DEF ServeOutput, LineInv
        <5> QED BY <1>4, <2>1, <3>1, <4>1, <4>3, <5>1, AnswersServeOutput
      <4>4. CASE ServeInput(m)
        BY <2>1, <3>1, <4>1, <4>4, AnswersServeInput
      <4> QED BY <1>1, <3>1, <4>1, <4>2, <4>3, <4>4, Received
    <3>2. CASE ~Serve
      <4>1. UNCHANGED <<tasks, request, count, buffer>>
        BY <1>4, <3>2 DEF Next, SendCommand, OutputAsk, OutputWrite, InputRead, InputSend,
             ServeUart,
                  BoxTakesByte, BoxIsReady, BoxAnswers, Hung, driverVars
      <4>2. count' \in 0 .. GROUPS
        BY <4>1 DEF LineInv
      <4>3. CASE \E c \in Command : SendCommand(c)
        <5>1. AnswerPlace' /\ SendersOnce'
          BY <2>1, <2>2, <4>3, AnswersOther, SendersSendCommand
        <5>2. Ahead' = Ahead
          BY <2>2, <4>3, AheadSame DEF SendCommand, driverVars, notifierVars, lineVars
        <5>3. RequestOnce'
          BY <2>2, <4>1, <5>2 DEF RequestOnce
        <5> QED BY <4>2, <5>1, <5>3
      <4>4. CASE OutputAsk
        <5>1. TxRequest \in Message /\ TxRequest \notin Command /\ Posts(TxRequest)
              /\ UNCHANGED <<sender, bytes, wire, sent>>
          <6>1. TxRequest \in Message /\ TxRequest.type \notin Kind
            BY DEF Message, TxRequest, Kind
          <6> QED BY <4>4, <6>1, MessageKinds DEF OutputAsk, TxRequest, lineVars
        <5>2. SendersOnce' /\ Ahead' = Ahead
          BY <2>1, <2>2, <4>1, <5>1, SendersOtherMail, AheadSame
        <5>3. RequestOnce'
          BY <2>2, <4>1, <5>2 DEF RequestOnce
        <5> QED BY <2>1, <4>2, <4>4, <5>2, <5>3, AnswersOther
      <4>5. CASE InputSend
        <5>1. PICK m : m = [type |-> "reading", body |-> got]
          OBVIOUS
        <5>2. m \in Message /\ m \notin Command /\ Posts(m) /\ UNCHANGED <<sender, bytes, wire, sent>>
          <6>1. got \in Seq(Byte) /\ m.type \notin Kind
            BY <1>1, <5>1, ComingType DEF Kind
          <6>2. m \in Message
            BY <5>1, <6>1 DEF Message, ReadingMessage
          <6> QED BY <4>5, <5>1, <6>1, <6>2, MessageKinds DEF InputSend, lineVars
        <5>3. SendersOnce' /\ Ahead' = Ahead
          BY <2>1, <2>2, <4>1, <5>2, SendersOtherMail, AheadSame
        <5>4. RequestOnce'
          BY <2>2, <4>1, <5>3 DEF RequestOnce
        <5> QED BY <2>1, <4>2, <4>5, <5>3, <5>4, AnswersInputSend
      <4>6. CASE OutputWrite \/ InputRead \/ BoxIsReady
        <5>1. UNCHANGED <<inbox, sender, bytes, sent>>
          BY <4>6 DEF OutputWrite, InputRead, BoxIsReady, notifierVars, lineVars
        <5>2. SendersOnce'
          BY <2>1, <2>2, <4>1, <5>1, SendersSame
        <5>3. OnLine' = OnLine
          BY <4>6, <5>1 DEF OutputWrite, InputRead, BoxIsReady, lineVars, OnLine, One
        <5>4. Ahead' = Ahead
          BY <4>1, <5>1, <5>3 DEF Ahead, PlacesOf, AtNotifier
        <5>5. RequestOnce'
          BY <2>2, <4>1, <5>4 DEF RequestOnce
        <5> QED BY <2>1, <4>2, <4>6, <5>2, <5>5, AnswersOther
      <4>7. CASE ServeUart
        <5>1. SendersOnce'
          <6>1. UNCHANGED <<inbox, sender>>
            BY <1>1, <4>7, UartStep
          <6> QED BY <2>1, <2>2, <4>1, <6>1, SendersSame
        <5>2. RequestOnce'
          BY <2>2, <4>1, <4>7, AheadServeUart DEF RequestOnce
        <5> QED BY <2>1, <4>2, <4>7, <5>1, <5>2, AnswersServeUart
      <4>8. CASE BoxTakesByte
        <5>1. SendersOnce'
          <6>1. UNCHANGED <<inbox, sender>>
            BY <4>8 DEF BoxTakesByte
          <6> QED BY <2>1, <2>2, <4>1, <6>1, SendersSame
        <5>2. Ahead' <= Ahead /\ Ahead \in Nat /\ Ahead' \in Int
          <6>1. Ahead \in Nat
            BY <1>1, AheadType
          <6> QED BY <2>2, <4>8, <6>1, AheadBoxTakesByte
        <5>3. One(request = Courier)' = One(request = Courier)
          BY <4>1
        <5>4. RequestOnce'
          BY <2>2, <5>2, <5>3, OneType DEF RequestOnce
        <5> QED BY <2>1, <4>2, <4>8, <5>1, <5>4, AnswersBoxTakesByte
      <4>9. CASE BoxAnswers
        <5>1. UNCHANGED <<inbox, sender, bytes, wire, sent>>
          BY <4>9 DEF BoxAnswers, notifierVars
        <5>2. SendersOnce' /\ Ahead' = Ahead
          BY <2>1, <2>2, <4>1, <5>1, SendersSame, AheadSame
        <5>3. RequestOnce'
          BY <2>2, <4>1, <5>2 DEF RequestOnce
        <5> QED BY <2>1, <4>2, <4>9, <5>2, <5>3, AnswersBoxAnswers
      <4> QED BY <1>4, <3>2, <4>3, <4>4, <4>5, <4>6, <4>7, <4>8, <4>9 DEF Next, Hung
    <3> QED BY <3>1, <3>2
  <2>4. (SendersOnce /\ LineBasics /\ AnswerPlace)' => AnswersWhole'
    BY CourierAnswered, PTL
  <2> QED BY <1>1, <2>3, <2>4 DEF LineInv, LineSenders, AnswerPlace
<1> QED BY <1>2, <1>3, <1>4

-----------------------------------------------------------------------------
\* The variables of the driver, its notifiers, the handler and the line have their types.
THEOREM LineTypeCorrect == Spec => []TypeOK
<1>1. Init => LineInv
  BY AnswersInit
<1>2. LineInv /\ [Next]_vars => LineInv'
  BY LineInvStep
<1>3. LineInv => TypeOK
  <2> SUFFICES ASSUME LineInv PROVE TypeOK
    OBVIOUS
  <2>1. LineTypes /\ NotifiersHold /\ count \in 0 .. GROUPS
    BY DEF LineInv, LineSenders, LineBasics
  <2>2. \A i \in 1 .. Len(commands) : commands[i] \in Command
    BY <2>1, ElementOfSeq DEF LineTypes
  <2>3. Len(got) <= 2
    <3>1. Len(got) \in {0, 1, 2}
      <4>1. got = <<>> => Len(got) = 0
        OBVIOUS
      <4> QED BY <2>1, <4>1 DEF NotifiersHold, LineTypes
    <3>2. \A n \in {0, 1, 2} : n <= 2
      OBVIOUS
    <3> QED BY <3>1, <3>2
  <2>4. request \in Sender \cup {NoTask}
    BY <2>1 DEF LineTypes, Sender
  <2> QED BY <2>1, <2>2, <2>3, <2>4 DEF TypeOK, LineTypes
<1> QED BY <1>1, <1>2, <1>3, PTL DEF Spec

\* The courier is answered with a whole snapshot, the one its request caused
\* (TrainDriver.c:75-81, :162-176, :206-219).
THEOREM AnswersStayWhole == Spec => []AnswersWhole
<1>1. Init => LineInv
  BY AnswersInit
<1>2. LineInv /\ [Next]_vars => LineInv'
  BY LineInvStep
<1>3. LineInv => AnswersWhole
  BY DEF LineInv
<1> QED BY <1>1, <1>2, <1>3, PTL DEF Spec

\* The flag that the kernel keeps of CTS is set only while the box can take a byte, and if
\* CTS does not rise within the handler it follows the line (event.c:20-56).
THEOREM FlagStaysRight ==
  ASSUME ~EdgeInHandler
  PROVE  Spec => []CtsFollowsLine
<1>1. Init => LineBasics /\ FlagSeen
  BY BasicsInit DEF Init, FlagSeen, ModemChangesSeen
<1>2. LineBasics /\ FlagSeen /\ [Next]_vars => (LineBasics /\ FlagSeen)'
  BY BasicsStep, FlagStep
<1>3. LineBasics /\ FlagSeen => CtsFollowsLine
  BY DEF LineBasics, FlowControl, FlagSeen, CtsFollowsLine
<1> QED BY <1>1, <1>2, <1>3, PTL DEF Spec

\* The three queues of the driver stay in step and a task that waits for it is in one place
\* (TrainDriver.c:65-182).
LEMMA SendersPlaced == LineInv => SendersExact
<1> SUFFICES ASSUME LineInv, ~failed PROVE
    /\ Len(tasks) = Len(commands) /\ Len(types) = Len(commands)
    /\ \A i \in 1 .. Len(commands) :
         commands[i].from = tasks[i] /\ commands[i].type = types[i]
    /\ \A s \in Sender :
         LET messages == {i \in 1 .. Len(inbox) : inbox[i] \in Command /\ inbox[i].from = s}
             places   == {i \in 1 .. Len(tasks) : tasks[i] = s}
                           \cup (IF request = s THEN {0} ELSE {})
         IN  /\ sender[s] = "run" => messages = {} /\ places = {}
             /\ sender[s] = "sent" =>
                  \/ Cardinality(messages) = 1 /\ places = {}
                  \/ messages = {} /\ IF s = Courier THEN 0 \in places
                                      ELSE Cardinality(places) = 1
  BY DEF SendersExact
<1>1. LineBasics /\ SendersOnce /\ RequestOnce
  BY DEF LineInv, LineSenders
<1>2. SUFFICES ASSUME NEW s \in Sender
      PROVE  LET messages == {i \in 1 .. Len(inbox) : inbox[i] \in Command /\ inbox[i].from = s}
                 places   == {i \in 1 .. Len(tasks) : tasks[i] = s}
                               \cup (IF request = s THEN {0} ELSE {})
             IN  /\ sender[s] = "run" => messages = {} /\ places = {}
                 /\ sender[s] = "sent" =>
                      \/ Cardinality(messages) = 1 /\ places = {}
                      \/ messages = {} /\ IF s = Courier THEN 0 \in places
                                          ELSE Cardinality(places) = 1
  BY <1>1 DEF LineBasics, QueuesInStep
<1> DEFINE messages == {i \in 1 .. Len(inbox) : inbox[i] \in Command /\ inbox[i].from = s}
           queued   == {i \in 1 .. Len(tasks) : tasks[i] = s}
           places   == queued \cup (IF request = s THEN {0} ELSE {})
<1>3. messages = Places(inbox, CommandsFrom(s)) /\ queued = Places(tasks, {s})
  BY DEF Places, CommandsFrom
<1>4. inbox \in Seq(Message) /\ tasks \in Seq(Sender) /\ request \in {Courier, NoTask}
  BY <1>1 DEF LineBasics, LineTypes
<1>5. /\ IsFiniteSet(messages) /\ MailFrom(s) = Cardinality(messages)
      /\ IsFiniteSet(queued) /\ PlacesOf(s) = Cardinality(queued)
  <2>1. IsFiniteSet(Places(inbox, CommandsFrom(s)))
    BY <1>4, PlacesFinite
  <2>2. IsFiniteSet(Places(tasks, {s}))
    BY <1>4, PlacesFinite
  <2> QED BY <1>3, <2>1, <2>2 DEF MailFrom, PlacesOf, Count
<1>6. /\ MailFrom(s) \in Nat /\ PlacesOf(s) \in Nat /\ Asks(s) \in Nat
      /\ MailFrom(s) + Asks(s) = One(sender[s] = "sent")
  BY <1>1, SenderCounts DEF SendersOnce
<1>7. /\ MailFrom(s) = 0 <=> messages = {}
      /\ PlacesOf(s) = 0 <=> queued = {}
  BY <1>5, FS_EmptySet
<1>8. s # NoTask /\ NoTask # Courier
  BY TrainLineAssumption DEF NoTask, Sender
<1>9. Asks(s) = 0 => places = {}
  <2>1. CASE s = Courier
    <3>1. ASSUME Asks(s) = 0 PROVE request # Courier
      BY <2>1, <3>1 DEF Asks, One
    <3>2. ASSUME request # Courier PROVE PlacesOf(s) = 0
      <4>1. Ahead <= 0
        BY <1>1, <3>2 DEF RequestOnce, One
      <4> QED BY <1>1, <2>1, <4>1, AheadType DEF Ahead
    <3> QED BY <1>7, <2>1, <3>1, <3>2
  <2>2. CASE s # Courier
    <3>1. request # s /\ Asks(s) = PlacesOf(s)
      BY <1>4, <1>8, <2>2 DEF Asks
    <3> QED BY <1>7, <3>1
  <2> QED BY <2>1, <2>2
<1>10. Asks(s) = 1 => IF s = Courier THEN 0 \in places ELSE Cardinality(places) = 1
  <2>1. CASE s = Courier
    <3>1. ASSUME Asks(s) = 1 PROVE request = Courier
      BY <2>1, <3>1 DEF Asks, One
    <3> QED BY <2>1, <3>1
  <2>2. CASE s # Courier
    <3>1. request # s /\ Asks(s) = PlacesOf(s)
      BY <1>4, <1>8, <2>2 DEF Asks
    <3>2. places = queued
      BY <3>1
    <3> QED BY <1>5, <2>2, <3>1, <3>2
  <2> QED BY <2>1, <2>2
<1>11. CASE sender[s] = "run"
  <2>1. MailFrom(s) = 0 /\ Asks(s) = 0
    <3>1. One(sender[s] = "sent") = 0
      BY <1>11 DEF One
    <3> QED BY <1>6, <3>1
  <2> QED BY <1>7, <1>9, <1>11, <2>1
<1>12. CASE sender[s] = "sent"
  <2>1. MailFrom(s) + Asks(s) = 1
    BY <1>6, <1>12 DEF One
  <2>2. CASE MailFrom(s) = 1 /\ Asks(s) = 0
    BY <1>5, <1>9, <1>12, <2>2
  <2>3. CASE MailFrom(s) = 0 /\ Asks(s) = 1
    BY <1>7, <1>10, <1>12, <2>3
  <2> QED BY <1>6, <2>1, <2>2, <2>3
<1>13. sender[s] \in {"run", "sent"}
  BY <1>1 DEF LineBasics, LineTypes
<1> QED BY <1>11, <1>12, <1>13

\* A task that waits for the driver has one message under way or one place in its queues,
\* the courier the request, and no other is answered (TrainDriver.c:65-126, :165-173).
THEOREM SendersStayExact == Spec => []SendersExact
<1>1. Init => LineInv
  BY AnswersInit
<1>2. LineInv /\ [Next]_vars => LineInv'
  BY LineInvStep
<1> QED BY <1>1, <1>2, SendersPlaced, PTL DEF Spec

-----------------------------------------------------------------------------
(* FlattenSeq of the community modules is a recursive function.  It exists, *)
(* is unique, and grows and shrinks with its argument.                      *)

Step(ss, f) == [i \in 1 .. Len(ss) |-> IF i = 1 THEN ss[i] ELSE f[i - 1] \o ss[i]]
IsFlat(ss, f) == f = Step(ss, f)

LEMMA FlatUnique ==
  ASSUME NEW T, NEW ss \in Seq(Seq(T)), NEW f, IsFlat(ss, f), NEW g, IsFlat(ss, g)
  PROVE  f = g
<1>1. Len(ss) \in Nat
  BY LenProperties
<1> DEFINE n == Len(ss)
           Differ == {i \in 1 .. n : f[i] # g[i]}
<1>2. /\ f = [i \in 1 .. n |-> IF i = 1 THEN ss[i] ELSE f[i - 1] \o ss[i]]
      /\ g = [i \in 1 .. n |-> IF i = 1 THEN ss[i] ELSE g[i - 1] \o ss[i]]
  BY DEF IsFlat, Step
<1>3. \A i \in 1 .. n : /\ f[i] = IF i = 1 THEN ss[i] ELSE f[i - 1] \o ss[i]
                        /\ g[i] = IF i = 1 THEN ss[i] ELSE g[i - 1] \o ss[i]
  BY <1>2
<1>4. Differ = {}
  <2> SUFFICES ASSUME Differ # {} PROVE FALSE
    OBVIOUS
  <2>1. Differ \in SUBSET Nat
    BY <1>1
  <2> HIDE DEF Differ
  <2>2. PICK m \in Differ : \A i \in Differ : m <= i
    BY <2>1, LeastOf
  <2> USE DEF Differ
  <2>3. m # 1
    BY <1>1, <1>3
  <2>4. m - 1 \in 1 .. n /\ ~(m <= m - 1)
    BY <1>1, <2>3
  <2>5. f[m - 1] = g[m - 1]
    BY <2>2, <2>4
  <2> QED BY <1>3, <2>3, <2>5
<1>5. /\ \A i \in 1 .. n : f[i] = g[i]
  BY <1>4
<1>6. f = [i \in 1 .. n |-> f[i]] /\ g = [i \in 1 .. n |-> g[i]]
  BY <1>2
<1> QED BY <1>5, <1>6

LEMMA FlatExists ==
  ASSUME NEW T, NEW ss \in Seq(Seq(T))
  PROVE  \E f \in [1 .. Len(ss) -> Seq(T)] : IsFlat(ss, f)
<1> DEFINE n == Len(ss)
           Upto(k) == \E f \in [1 .. k -> Seq(T)] :
                        \A i \in 1 .. k : f[i] = IF i = 1 THEN ss[i] ELSE f[i - 1] \o ss[i]
           Short == {k \in 0 .. n : ~Upto(k)}
<1>1. n \in Nat /\ \A i \in 1 .. n : ss[i] \in Seq(T)
  BY LenProperties, ElementOfSeq
<1>2. Upto(0)
  <2>1. [i \in 1 .. 0 |-> <<>>] \in [1 .. 0 -> Seq(T)]
    OBVIOUS
  <2>2. \A i \in 1 .. 0 : FALSE
    OBVIOUS
  <2> QED BY <2>1, <2>2
<1>3. ASSUME NEW k \in 1 .. n, Upto(k - 1)
      PROVE  Upto(k)
  <2>1. PICK f \in [1 .. k - 1 -> Seq(T)] :
             \A i \in 1 .. k - 1 : f[i] = IF i = 1 THEN ss[i] ELSE f[i - 1] \o ss[i]
    BY <1>3
  <2>2. PICK v \in Seq(T) : v = IF k = 1 THEN ss[k] ELSE f[k - 1] \o ss[k]
    <3>1. CASE k = 1
      BY <1>1, <3>1
    <3>2. CASE k # 1
      <4>1. k - 1 \in 1 .. k - 1
        BY <1>1, <3>2
      <4>2. f[k - 1] \in Seq(T) /\ ss[k] \in Seq(T)
        BY <1>1, <2>1, <4>1
      <4>3. f[k - 1] \o ss[k] \in Seq(T)
        BY <4>2, ConcatProperties
      <4> QED BY <3>2, <4>3
    <3> QED BY <3>1, <3>2
  <2> DEFINE g == [i \in 1 .. k |-> IF i = k THEN v ELSE f[i]]
  <2>3. ASSUME NEW i \in 1 .. k, i # k
        PROVE  i \in 1 .. k - 1
    BY <1>1, <2>3
  <2>4. g \in [1 .. k -> Seq(T)]
    BY <2>1, <2>2, <2>3
  <2>5. ASSUME NEW i \in 1 .. k
        PROVE  g[i] = IF i = 1 THEN ss[i] ELSE g[i - 1] \o ss[i]
    <3>1. CASE i = 1
      BY <2>1, <2>2, <2>3, <3>1
    <3>2. CASE i # 1
      <4>1. i - 1 \in 1 .. k /\ i - 1 # k
        BY <1>1, <3>2
      <4>2. g[i - 1] = f[i - 1]
        BY <4>1
      <4>3. g[i] = f[i - 1] \o ss[i]
        BY <2>1, <2>2, <2>3, <3>2
      <4> QED BY <3>2, <4>2, <4>3
    <3> QED BY <3>1, <3>2
  <2> HIDE DEF g
  <2> QED BY <2>4, <2>5
<1>4. Upto(n)
  <2> HIDE DEF n, Upto
  <2>1. CASE Short = {}
    <3>1. n \in 0 .. n
      BY <1>1
    <3> QED BY <2>1, <3>1
  <2>2. CASE Short # {}
    <3>1. Short \in SUBSET Nat
      BY <1>1
    <3> HIDE DEF Short
    <3>2. PICK m \in Short : \A i \in Short : m <= i
      BY <2>2, <3>1, LeastOf
    <3> USE DEF Short
    <3>3. m # 0
      BY <1>2, <3>2
    <3>4. m \in 1 .. n /\ m - 1 \in 0 .. n /\ ~(m <= m - 1)
      BY <1>1, <3>3
    <3>5. Upto(m - 1)
      BY <3>2, <3>4
    <3> QED BY <1>3, <3>4, <3>5
  <2> QED BY <2>1, <2>2
<1>5. PICK f \in [1 .. n -> Seq(T)] :
           \A i \in 1 .. n : f[i] = IF i = 1 THEN ss[i] ELSE f[i - 1] \o ss[i]
  BY <1>4
<1>6. f = [i \in 1 .. n |-> IF i = 1 THEN ss[i] ELSE f[i - 1] \o ss[i]]
  BY <1>5
<1> QED BY <1>6 DEF IsFlat, Step

LEMMA FlatValue ==
  ASSUME NEW T, NEW ss \in Seq(Seq(T)), Len(ss) # 0, NEW f, IsFlat(ss, f)
  PROVE  FlattenSeq(ss) = f[Len(ss)]
<1> DEFINE c == CHOOSE g : IsFlat(ss, g)
<1>1. IsFlat(ss, c)
  BY Zenon
<1>2. c = f
  <2> HIDE DEF c
  <2> QED BY <1>1, FlatUnique
<1>3. FlattenSeq(ss) = c[Len(ss)]
  BY DEF FlattenSeq, IsFlat, Step
<1> QED BY <1>2, <1>3

LEMMA FlattenType ==
  ASSUME NEW T, NEW ss \in Seq(Seq(T))
  PROVE  FlattenSeq(ss) \in Seq(T)
<1>1. CASE Len(ss) = 0
  BY <1>1, EmptySeq DEF FlattenSeq
<1>2. CASE Len(ss) # 0
  <2>1. PICK f \in [1 .. Len(ss) -> Seq(T)] : IsFlat(ss, f)
    BY FlatExists
  <2>2. Len(ss) \in 1 .. Len(ss)
    BY <1>2, LenProperties
  <2> QED BY <1>2, <2>1, <2>2, FlatValue
<1> QED BY <1>1, <1>2

LEMMA FlattenAppend ==
  ASSUME NEW T, NEW ss \in Seq(Seq(T)), NEW s \in Seq(T)
  PROVE  FlattenSeq(Append(ss, s)) = FlattenSeq(ss) \o s
<1> DEFINE n == Len(ss)
           tt == Append(ss, s)
<1>1. /\ n \in Nat /\ tt \in Seq(Seq(T)) /\ Len(tt) = n + 1 /\ tt[n + 1] = s
      /\ \A i \in 1 .. n : tt[i] = ss[i]
  BY AppendProperties, LenProperties
<1>2. PICK f \in [1 .. n -> Seq(T)] : IsFlat(ss, f)
  BY FlatExists
<1>3. PICK v : v = IF n = 0 THEN s ELSE f[n] \o s
  OBVIOUS
<1> DEFINE g == [i \in 1 .. n + 1 |-> IF i = n + 1 THEN v ELSE f[i]]
<1>4. \A i \in 1 .. n : f[i] = IF i = 1 THEN ss[i] ELSE f[i - 1] \o ss[i]
  <2>1. f = [i \in 1 .. n |-> IF i = 1 THEN ss[i] ELSE f[i - 1] \o ss[i]]
    BY <1>2 DEF IsFlat, Step
  <2> QED BY <2>1
<1> HIDE DEF tt
<1>5. ASSUME NEW i \in 1 .. n + 1
      PROVE  g[i] = IF i = 1 THEN tt[i] ELSE g[i - 1] \o tt[i]
  <2>1. CASE i = n + 1
    <3>1. CASE n = 0
      BY <1>1, <1>3, <2>1, <3>1
    <3>2. CASE n # 0
      <4>1. i - 1 \in 1 .. n + 1 /\ i - 1 # n + 1 /\ i - 1 = n /\ i # 1
        BY <1>1, <2>1, <3>2
      <4>2. g[i - 1] = f[n]
        BY <4>1
      <4>3. g[i] = f[n] \o s
        BY <1>3, <2>1, <3>2
      <4> QED BY <1>1, <2>1, <4>1, <4>2, <4>3
    <3> QED BY <3>1, <3>2
  <2>2. CASE i # n + 1
    <3>1. i \in 1 .. n /\ tt[i] = ss[i] /\ g[i] = f[i]
      BY <1>1, <2>2
    <3>2. CASE i = 1
      BY <1>4, <3>1, <3>2
    <3>3. CASE i # 1
      <4>1. i - 1 \in 1 .. n + 1 /\ i - 1 # n + 1
        BY <1>1, <3>1, <3>3
      <4>2. g[i - 1] = f[i - 1]
        BY <4>1
      <4>3. f[i] = f[i - 1] \o ss[i]
        BY <1>4, <3>1, <3>3
      <4> QED BY <3>1, <3>3, <4>2, <4>3
    <3> QED BY <3>2, <3>3
  <2> QED BY <2>1, <2>2
<1>6. IsFlat(tt, g)
  <2>1. g = [i \in 1 .. n + 1 |-> g[i]]
    OBVIOUS
  <2>2. [i \in 1 .. n + 1 |-> g[i]] = [i \in 1 .. n + 1 |-> IF i = 1 THEN tt[i] ELSE g[i - 1] \o tt[i]]
    <3> HIDE DEF g
    <3> QED BY <1>5
  <2> HIDE DEF g
  <2> QED BY <1>1, <2>1, <2>2 DEF IsFlat, Step
<1>7. g[n + 1] = v
  BY <1>1
<1> HIDE DEF g
<1>8. Len(tt) # 0
  BY <1>1
<1>9. FlattenSeq(tt) = g[Len(tt)]
  BY <1>1, <1>6, <1>8, FlatValue
<1>10. CASE n = 0
  <2>1. ss = <<>> /\ FlattenSeq(ss) = <<>>
    BY <1>10, EmptySeq DEF FlattenSeq
  <2> QED BY <1>1, <1>3, <1>7, <1>9, <1>10, <2>1, ConcatEmptySeq DEF tt
<1>11. CASE n # 0
  <2>1. FlattenSeq(ss) = f[n]
    BY <1>2, <1>11, FlatValue
  <2> QED BY <1>1, <1>3, <1>7, <1>9, <1>11, <2>1 DEF tt
<1> QED BY <1>10, <1>11

LEMMA FlattenTail ==
  ASSUME NEW T
  PROVE  \A ss \in Seq(Seq(T)) :
           ss # <<>> => FlattenSeq(ss) = Head(ss) \o FlattenSeq(Tail(ss))
<1>a. \A x, a, b \in Seq(T) : x \o (a \o b) = (x \o a) \o b
  BY Regrouped
<1> SUFFICES ASSUME NEW ss \in Seq(Seq(T)), ss # <<>>
             PROVE  FlattenSeq(ss) = Head(ss) \o FlattenSeq(Tail(ss))
  OBVIOUS
<1> DEFINE n == Len(ss)
           tt == Tail(ss)
<1>1. /\ n \in Nat \ {0} /\ tt \in Seq(Seq(T)) /\ Len(tt) = n - 1 /\ Head(ss) = ss[1]
      /\ \A i \in 1 .. n - 1 : tt[i] = ss[i + 1]
      /\ \A i \in 1 .. n : ss[i] \in Seq(T)
  <2>1. n \in Nat \ {0} /\ 1 \in 1 .. n
    BY LenProperties, EmptySeq
  <2>2. tt \in Seq(Seq(T)) /\ Len(tt) = n - 1
    BY HeadTailProperties
  <2>3. \A i \in 1 .. Len(tt) : tt[i] = ss[i + 1]
    BY HeadTailProperties
  <2>4. \A i \in 1 .. n : ss[i] \in Seq(T)
    BY ElementOfSeq
  <2>5. Head(ss) = ss[1]
    BY <2>1
  <2> QED BY <2>1, <2>2, <2>3, <2>4, <2>5
<1> HIDE DEF tt
<1>2. PICK x \in Seq(T) : x = ss[1]
  BY <1>1
<1>3. \A a, b \in Seq(T) : x \o (a \o b) = (x \o a) \o b
  BY <1>a, <1>2
<1>4. PICK h \in [1 .. Len(tt) -> Seq(T)] : IsFlat(tt, h)
  BY <1>1, FlatExists
<1>5. \A i \in 1 .. n - 1 : /\ h[i] = IF i = 1 THEN tt[i] ELSE h[i - 1] \o tt[i]
                            /\ h[i] \in Seq(T)
  <2>1. h = [i \in 1 .. n - 1 |-> IF i = 1 THEN tt[i] ELSE h[i - 1] \o tt[i]]
    BY <1>1, <1>4 DEF IsFlat, Step
  <2> QED BY <1>1, <1>4, <2>1
<1> DEFINE g == [i \in 1 .. n |-> IF i = 1 THEN x ELSE x \o h[i - 1]]
<1>6. ASSUME NEW i \in 1 .. n
      PROVE  g[i] = IF i = 1 THEN ss[i] ELSE g[i - 1] \o ss[i]
  <2>1. CASE i = 1
    BY <1>1, <1>2, <2>1
  <2>2. CASE i # 1
    <3>1. PICK k : k = i - 1
      OBVIOUS
    <3>2. k \in 1 .. n - 1 /\ k \in 1 .. n /\ ss[i] = tt[k]
      <4>1. k \in 1 .. n - 1 /\ k + 1 = i
        BY <1>1, <2>2, <3>1
      <4> QED BY <1>1, <4>1
    <3>3. g[i] = x \o h[k]
      BY <2>2, <3>1
    <3>4. CASE k = 1
      <4>1. g[k] = x /\ h[k] = tt[k]
        BY <1>5, <3>2, <3>4
      <4> QED BY <2>2, <3>1, <3>2, <3>3, <4>1
    <3>5. CASE k # 1
      <4>1. PICK j : j = k - 1
        OBVIOUS
      <4>2. j \in 1 .. n - 1
        BY <1>1, <3>2, <3>5, <4>1
      <4>3. h[k] = h[j] \o tt[k] /\ h[j] \in Seq(T) /\ tt[k] \in Seq(T)
        BY <1>1, <1>5, <3>2, <3>5, <4>1, <4>2
      <4>4. x \o (h[j] \o tt[k]) = (x \o h[j]) \o tt[k]
        BY <1>3, <4>3
      <4>5. g[k] = x \o h[j]
        BY <3>2, <3>5, <4>1
      <4> QED BY <2>2, <3>1, <3>2, <3>3, <4>3, <4>4, <4>5
    <3> QED BY <3>4, <3>5
  <2> QED BY <2>1, <2>2
<1>7. IsFlat(ss, g)
  <2>1. g = [i \in 1 .. n |-> g[i]]
    OBVIOUS
  <2>2. [i \in 1 .. n |-> g[i]] = [i \in 1 .. n |-> IF i = 1 THEN ss[i] ELSE g[i - 1] \o ss[i]]
    <3> HIDE DEF g
    <3> QED BY <1>6
  <2> HIDE DEF g
  <2> QED BY <2>1, <2>2 DEF IsFlat, Step
<1>8. g[n] = IF n = 1 THEN x ELSE x \o h[n - 1]
  BY <1>1
<1> HIDE DEF g
<1>9. FlattenSeq(ss) = g[n]
  BY <1>1, <1>7, FlatValue
<1>10. CASE n = 1
  <2>1. tt = <<>>
    BY <1>1, <1>10, EmptySeq
  <2>2. FlattenSeq(tt) = <<>>
    BY <2>1 DEF FlattenSeq
  <2> QED BY <1>1, <1>2, <1>8, <1>9, <1>10, <2>2, ConcatEmptySeq DEF tt
<1>11. CASE n # 1
  <2>1. Len(tt) # 0
    BY <1>1, <1>11
  <2>2. FlattenSeq(tt) = h[Len(tt)]
    BY <1>1, <1>4, <2>1, FlatValue
  <2> QED BY <1>1, <1>2, <1>8, <1>9, <1>11, <2>2 DEF tt
<1> QED BY <1>10, <1>11

-----------------------------------------------------------------------------
(* The driver's queue as bytes, and the step of ByteLine for each step.     *)

BytesOf(q) == [i \in 1 .. Len(q) |-> Bytes(q[i])]
Flat(q)    == FlattenSeq(BytesOf(q))

LEMMA BytesOfType ==
  ASSUME NEW q \in Seq(Command)
  PROVE  /\ BytesOf(q) \in Seq(Seq(LineByte)) /\ Len(BytesOf(q)) = Len(q)
         /\ \A i \in 1 .. Len(q) : BytesOf(q)[i] = Bytes(q[i])
<1>1. Len(q) \in Nat /\ \A i \in 1 .. Len(q) : q[i] \in Command
  BY LenProperties, ElementOfSeq
<1>2. BytesOf(q) \in [1 .. Len(q) -> Seq(LineByte)]
  BY <1>1, BytesShape DEF BytesOf
<1>3. BytesOf(q) \in Seq(Seq(LineByte))
  BY <1>1, <1>2, SeqDef
<1>4. DOMAIN BytesOf(q) = 1 .. Len(q)
  BY DEF BytesOf
<1>5. Len(BytesOf(q)) = Len(q)
  BY <1>1, <1>3, <1>4, LenProperties
<1> QED BY <1>3, <1>5 DEF BytesOf

LEMMA FlatType ==
  ASSUME NEW q \in Seq(Command)
  PROVE  Flat(q) \in Seq(LineByte)
BY BytesOfType, FlattenType DEF Flat

LEMMA FlatEmpty == Flat(<<>>) = <<>>
<1>1. Len(BytesOf(<<>>)) = 0 /\ BytesOf(<<>>) \in Seq(Seq(LineByte))
  <2>1. <<>> \in Seq(Command) /\ Len(<<>>) = 0
    BY EmptySeq
  <2> QED BY <2>1, BytesOfType
<1>2. BytesOf(<<>>) = <<>>
  BY <1>1, EmptySeq
<1> QED BY <1>1, <1>2 DEF Flat, FlattenSeq

LEMMA FlatAppend ==
  ASSUME NEW q \in Seq(Command), NEW c \in Command
  PROVE  Flat(Append(q, c)) = Flat(q) \o Bytes(c)
<1>1. /\ Append(q, c) \in Seq(Command) /\ Len(Append(q, c)) = Len(q) + 1 /\ Len(q) \in Nat
      /\ Append(q, c)[Len(q) + 1] = c
      /\ \A i \in 1 .. Len(q) : Append(q, c)[i] = q[i]
  BY AppendProperties, LenProperties
<1> DEFINE a == BytesOf(Append(q, c))
           b == Append(BytesOf(q), Bytes(c))
<1>2. /\ a \in Seq(Seq(LineByte)) /\ Len(a) = Len(q) + 1
      /\ \A i \in 1 .. Len(q) + 1 : a[i] = Bytes(Append(q, c)[i])
  BY <1>1, BytesOfType
<1>3. Bytes(c) \in Seq(LineByte)
  BY BytesShape
<1>4. /\ BytesOf(q) \in Seq(Seq(LineByte)) /\ Len(BytesOf(q)) = Len(q)
      /\ \A i \in 1 .. Len(q) : BytesOf(q)[i] = Bytes(q[i])
  BY BytesOfType
<1>5. /\ b \in Seq(Seq(LineByte)) /\ Len(b) = Len(q) + 1 /\ b[Len(q) + 1] = Bytes(c)
      /\ \A i \in 1 .. Len(q) : b[i] = BytesOf(q)[i]
  BY <1>3, <1>4, AppendProperties
<1> HIDE DEF a, b
<1>6. ASSUME NEW i \in 1 .. Len(q) + 1
      PROVE  a[i] = b[i]
  <2>1. CASE i \in 1 .. Len(q)
    BY <1>1, <1>2, <1>4, <1>5, <2>1
  <2>2. CASE i = Len(q) + 1
    BY <1>1, <1>2, <1>5, <2>2
  <2> QED BY <1>1, <2>1, <2>2
<1>7. a = b
  BY <1>2, <1>5, <1>6, SeqEqual
<1>8. FlattenSeq(b) = FlattenSeq(BytesOf(q)) \o Bytes(c)
  BY <1>3, <1>4, FlattenAppend DEF b
<1> QED BY <1>7, <1>8 DEF a, Flat

LEMMA FlatTail ==
  ASSUME NEW q \in Seq(Command), q # <<>>
  PROVE  Flat(q) = Bytes(Head(q)) \o Flat(Tail(q))
<1>1. /\ Tail(q) \in Seq(Command) /\ Len(Tail(q)) = Len(q) - 1 /\ Len(q) \in Nat \ {0}
      /\ Head(q) = q[1] /\ Head(q) \in Command
      /\ \A i \in 1 .. Len(q) - 1 : Tail(q)[i] = q[i + 1]
  BY HeadTailProperties, LenProperties, EmptySeq
<1> DEFINE s == BytesOf(q)
           a == BytesOf(Tail(q))
           b == Tail(s)
<1>2. s \in Seq(Seq(LineByte)) /\ Len(s) = Len(q) /\ \A i \in 1 .. Len(q) : s[i] = Bytes(q[i])
  BY BytesOfType
<1>3. /\ a \in Seq(Seq(LineByte)) /\ Len(a) = Len(q) - 1
      /\ \A i \in 1 .. Len(q) - 1 : a[i] = Bytes(Tail(q)[i])
  BY <1>1, BytesOfType
<1> HIDE DEF s, a
<1>4. s # <<>>
  BY <1>1, <1>2
<1>5. /\ b \in Seq(Seq(LineByte)) /\ Len(b) = Len(s) - 1 /\ Head(s) = s[1]
      /\ \A i \in 1 .. Len(s) - 1 : b[i] = s[i + 1]
  BY <1>2, <1>4, HeadTailProperties
<1> HIDE DEF b
<1>6. ASSUME NEW i \in 1 .. Len(q) - 1
      PROVE  a[i] = b[i]
  <2>1. i + 1 \in 1 .. Len(q)
    BY <1>1
  <2>2. b[i] = Bytes(q[i + 1])
    BY <1>2, <1>5, <2>1
  <2>3. a[i] = Bytes(q[i + 1])
    BY <1>1, <1>3
  <2> QED BY <2>2, <2>3
<1>7. a = b
  BY <1>1, <1>2, <1>3, <1>5, <1>6, SeqEqual
<1>8. FlattenSeq(s) = Head(s) \o FlattenSeq(Tail(s))
  BY <1>2, <1>4, FlattenTail
<1>9. Head(s) = Bytes(Head(q))
  <2>1. 1 \in 1 .. Len(q)
    BY <1>1
  <2> QED BY <1>1, <1>2, <1>5, <2>1
<1> QED BY <1>7, <1>8, <1>9 DEF s, a, b, Flat

LineBytesLeft == bytes \o Flat(commands)

LEMMA LineLeft ==
  bytes \o FlattenSeq([i \in 1 .. Len(commands) |-> Bytes(commands[i])]) = LineBytesLeft
BY DEF LineBytesLeft, Flat, BytesOf

LEMMA LineStep ==
  ASSUME LineBasics, [Next]_vars
  PROVE  \/ UNCHANGED <<LineBytesLeft, sent>>
         \/ /\ LineBytesLeft # <<>>
            /\ sent' = Head(LineBytesLeft) /\ LineBytesLeft' = Tail(LineBytesLeft)
         \/ \E c \in Command : LineBytesLeft' = LineBytesLeft \o Bytes(c) /\ sent' = sent
<1>1. /\ commands \in Seq(Command) /\ bytes \in Rest /\ bytes \in Seq(LineByte)
      /\ Flat(commands) \in Seq(LineByte)
  BY RestShape, FlatType DEF LineBasics, LineTypes
<1>2. CASE UNCHANGED <<bytes, commands, sent>>
  BY <1>2 DEF LineBytesLeft
<1>3. CASE ServeUart
  <2>1. CASE Writes
    <3>1. commands' = commands
      BY <1>3, UartStep DEF driverVars
    <3>2. bytes # <<>> /\ sent' = Head(bytes) /\ bytes' = Tail(bytes)
      BY <2>1 DEF Writes
    <3>3. PICK f \in Seq(LineByte) : f = Flat(commands)
      BY <1>1
    <3>4. /\ Head(bytes \o f) = Head(bytes) /\ Tail(bytes \o f) = Tail(bytes) \o f
          /\ bytes \o f # <<>>
      BY <1>1, <3>2, HeadOfConcat
    <3> QED BY <3>1, <3>2, <3>3, <3>4 DEF LineBytesLeft
  <2>2. CASE UNCHANGED <<sent, bytes, output>>
    BY <1>3, <2>2, UartStep DEF driverVars, LineBytesLeft
  <2> QED BY <1>3, <2>1, <2>2, UartStep
<1>4. CASE Serve
  <2>1. PICK m : m = Head(inbox)
    OBVIOUS
  <2>2. sent' = sent /\ m \in Message
    BY <1>4, <2>1, Received DEF lineVars
  <2>3. CASE ServeCommand(m)
    <3>1. m \in Command
      BY <2>3 DEF ServeCommand
    <3>2. CASE outputWaiting /\ HandOver(m) /\ UNCHANGED commands
      <4>1. commands = <<>> /\ bytes = <<>>
        <5>1. TxMessages + One(outputWaiting) = One(output = "asked")
          BY DEF LineBasics, NotifiersOnce
        <5>2. One(outputWaiting) = 1 /\ One(output = "asked") \in {0, 1} /\ TxMessages \in Nat
          BY <1>4, <2>1, <3>2, OneType, Received DEF One
        <5>3. One(output = "asked") = 1
          BY <5>1, <5>2
        <5>4. output = "asked"
          BY <5>3 DEF One
        <5> QED BY <3>2, <5>4 DEF LineBasics, NotifiersOnce, NotifiersHold
      <4>2. Bytes(m) \in Seq(LineByte)
        BY <3>1, BytesShape
      <4>3. LineBytesLeft = <<>>
        BY <4>1, FlatEmpty, EmptySeq, ConcatEmptySeq DEF LineBytesLeft
      <4>4. LineBytesLeft' = Bytes(m)
        <5>1. bytes' = Bytes(m) /\ commands' = <<>>
          BY <3>2, <4>1 DEF HandOver
        <5>2. Bytes(m) \o <<>> = Bytes(m)
          BY <4>2, ConcatEmptySeq
        <5> QED BY <5>1, <5>2, FlatEmpty DEF LineBytesLeft
      <4>5. <<>> \o Bytes(m) = Bytes(m)
        BY <4>2, ConcatEmptySeq
      <4> QED BY <2>2, <3>1, <4>3, <4>4, <4>5
    <3>3. CASE commands' = Queued(commands, m) /\ UNCHANGED bytes
      <4>1. Flat(commands') = Flat(commands) \o Bytes(m)
        BY <1>1, <3>1, <3>3, FlatAppend DEF Queued
      <4>2. bytes \o (Flat(commands) \o Bytes(m)) = (bytes \o Flat(commands)) \o Bytes(m)
        <5>1. Bytes(m) \in Seq(LineByte)
          BY <3>1, BytesShape
        <5> QED BY <1>1, <5>1, Regrouped
      <4>3. LineBytesLeft' = LineBytesLeft \o Bytes(m)
        BY <3>3, <4>1, <4>2 DEF LineBytesLeft
      <4> QED BY <2>2, <3>1, <4>3
    <3>4. CASE Failed
      BY <2>2, <3>4 DEF Failed, LineBytesLeft
    <3> QED BY <2>3, <3>2, <3>3, <3>4 DEF ServeCommand
  <2>4. CASE ServeOutput(m)
    <3>1. CASE UNCHANGED <<commands, bytes>>
      BY <2>2, <3>1 DEF LineBytesLeft
    <3>2. CASE commands # <<>> /\ HandOver(Head(commands)) /\ commands' = Tail(commands)
      <4>1. bytes = <<>>
        <5>1. m = TxRequest
          BY <2>2, <2>4, MessageKinds DEF ServeOutput
        <5>2. TxMessages + One(outputWaiting) = One(output = "asked")
          BY DEF LineBasics, NotifiersOnce
        <5>3. TxMessages' = TxMessages - 1 /\ TxMessages' \in Nat /\ TxMessages \in Nat
          BY <1>4, <2>1, <5>1, Received DEF One
        <5>4. One(output = "asked") = 1
          BY <5>2, <5>3, OneType
        <5>5. output = "asked"
          BY <5>4 DEF One
        <5> QED BY <5>5 DEF LineBasics, NotifiersHold
      <4>2. Flat(commands) = bytes' \o Flat(commands')
        BY <1>1, <3>2, FlatTail DEF HandOver
      <4>3. <<>> \o Flat(commands) = Flat(commands)
        BY <1>1, ConcatEmptySeq
      <4> QED BY <2>2, <4>1, <4>2, <4>3 DEF LineBytesLeft
    <3> QED BY <2>4, <3>1, <3>2 DEF ServeOutput
  <2>5. CASE ServeInput(m)
    BY <2>2, <2>5 DEF ServeInput, LineBytesLeft
  <2> QED BY <1>4, <2>1, <2>3, <2>4, <2>5, Received
<1>5. ~ServeUart /\ ~Serve => UNCHANGED <<bytes, commands, sent>>
  BY DEF Next, vars, SendCommand, OutputAsk, OutputWrite, InputRead, InputSend, BoxTakesByte,
         BoxIsReady, BoxAnswers, Hung, driverVars, notifierVars, lineVars
<1> QED BY <1>2, <1>3, <1>4, <1>5

\* The bytes that leave are those of the commands accepted, in their order
\* (TrainDriver.c:93-160, :185-204, event.c:37-56).
THEOREM LineImplementsByteLine == Spec => ImplementsByteLine
<1>1. Init => LineBasics /\ Line!Init
  <2> SUFFICES ASSUME Init PROVE LineBasics /\ Line!Init
    OBVIOUS
  <2>1. bytes = <<>> /\ commands = <<>> /\ sent = <<>>
    BY DEF Init, NoByte
  <2>2. LineBytesLeft = <<>>
    BY <2>1, FlatEmpty, EmptySeq, ConcatEmptySeq DEF LineBytesLeft
  <2> QED BY <2>1, <2>2, BasicsInit, LineLeft DEF Line!Init
<1>2. LineBasics /\ [Next]_vars => LineBasics' /\ [Line!Next]_(Line!vars)
  <2> SUFFICES ASSUME LineBasics, [Next]_vars
               PROVE  LineBasics' /\ [Line!Next]_(Line!vars)
    OBVIOUS
  <2>1. (bytes \o FlattenSeq([i \in 1 .. Len(commands) |-> Bytes(commands[i])]))' = LineBytesLeft'
    BY DEF LineBytesLeft, Flat, BytesOf
  <2>2. ASSUME UNCHANGED <<LineBytesLeft, sent>>
        PROVE  UNCHANGED Line!vars
    BY <2>1, <2>2, LineLeft DEF Line!vars
  <2>3. ASSUME LineBytesLeft # <<>>,
               sent' = Head(LineBytesLeft), LineBytesLeft' = Tail(LineBytesLeft)
        PROVE  Line!Transmit
    BY <2>1, <2>3, LineLeft DEF Line!Transmit
  <2>4. ASSUME NEW c \in Command, LineBytesLeft' = LineBytesLeft \o Bytes(c), sent' = sent
        PROVE  Line!Accept(c)
    BY <2>1, <2>4, LineLeft DEF Line!Accept
  <2>5. [Line!Next]_(Line!vars)
    BY <2>2, <2>3, <2>4, LineStep DEF Line!Next
  <2> QED BY <2>5, BasicsStep
<1> QED BY <1>1, <1>2, PTL DEF Spec, ImplementsByteLine, Line!Spec
=============================================================================
