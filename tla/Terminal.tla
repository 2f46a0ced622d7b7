------------------------------ MODULE Terminal ------------------------------
(***************************************************************************)
(* The terminal driver with its two notifiers, UART 2, the tasks that      *)
(* print and the task that reads keys.                                     *)
(*                                                                         *)
(* A string put is copied into a ring, and the task that put it is         *)
(* answered at once; characters leave the ring one at a time, each when    *)
(* the output notifier asks for it.  A key goes to the task that waits in  *)
(* getc, or else into a queue that drops it when it is full.               *)
(***************************************************************************)
EXTENDS Integers, Sequences, FiniteSets

CONSTANTS
  Printer,         \* tasks that print
  Reader,          \* tasks that read keys
  NoTask,          \* the value 0 of getcTask
  Key,             \* keys of the keyboard
  Lengths,         \* the lengths of the strings that each of them prints
  INPUT_LENGTH,    \* slots of the queue of keys
  OUTPUT_LENGTH,   \* slots of the output ring
  COUNT_RANGE      \* values of the counter of the ring, 2^32 for a U32

ASSUME TerminalAssumption ==
  /\ Lengths \in [Printer -> SUBSET Nat]
  /\ INPUT_LENGTH \in Nat \ {0}
  /\ OUTPUT_LENGTH \in Nat \ {0}
  /\ COUNT_RANGE \in Nat /\ COUNT_RANGE > 2 * OUTPUT_LENGTH
  /\ NoTask \notin Printer \cup Reader

\* A string may be empty, but none fills the ring: tprintf lets no more than 512 characters pass
\* (terminal.c:294).  The counter wraps at a multiple of the ring, 2^32 of 2^12.
ASSUME StringsAssumption ==
  /\ \A p \in Printer : \A n \in Lengths[p] : n < OUTPUT_LENGTH
  /\ COUNT_RANGE % OUTPUT_LENGTH = 0

\* Character i of a string of n that p prints.  NoChar is what is left in a slot that was read.
Char == Printer \X Nat
Text(p, n) == [i \in 1 .. n |-> <<p, i>>]
NoChar == <<NoTask, 0>>

Slot == 0 .. OUTPUT_LENGTH - 1

VARIABLES
  \* the driver
  qInput,
  outputBuffer, outputHead, outputTail, outputCount,
  strayed,        \* history: an empty string has taken the head past the tail
  getcTask, isOutputNotifierReady,
  \* everything around it
  termInbox,      \* messages sent to the driver, oldest first
  caller,         \* where each task that prints or reads is
  termOut,        \* where TermOutNotif is in its loop
  outChar,        \* the character that it holds
  termIn,         \* where TermInNotif is
  inKey,          \* the key that it holds
  shown, keyRead, \* the last character on the line and the last key that was read
  termFailed      \* an assertion failed and the system hangs

ringVars    == <<outputBuffer, outputHead, outputTail, outputCount, strayed>>
termVars    == <<qInput, ringVars, getcTask, isOutputNotifierReady>>
outVars     == <<termOut, outChar>>
inVars      == <<termIn, inKey>>
TerminalVars == <<termVars, termInbox, caller, outVars, inVars, shown, keyRead, termFailed>>

TerminalInit ==
  /\ qInput = <<>>
  /\ outputBuffer = [s \in Slot |-> NoChar]
  /\ outputHead = 0 /\ outputTail = 0 /\ outputCount = 0
  /\ strayed = FALSE
  /\ getcTask = NoTask
  /\ isOutputNotifierReady = FALSE
  /\ termInbox = <<>>
  /\ caller = [c \in Printer \cup Reader |-> "run"]
  /\ termOut = "ask" /\ outChar = <<>>
  /\ termIn = "read" /\ inKey = <<>>
  /\ shown = <<>> /\ keyRead = <<>>
  /\ termFailed = FALSE

SendsTerminal(m) == termInbox' = Append(termInbox, m)

-----------------------------------------------------------------------------
(* putStr, at the end of every printf, and getc                            *)

PutStr(p, n) ==
  /\ ~termFailed
  /\ caller[p] = "run"
  /\ SendsTerminal([type |-> "putstr", from |-> p, body |-> Text(p, n)])
  /\ caller' = [caller EXCEPT ![p] = "sent"]
  /\ UNCHANGED <<termVars, outVars, inVars, shown, keyRead, termFailed>>

GetC(r) ==
  /\ ~termFailed
  /\ caller[r] = "run"
  /\ SendsTerminal([type |-> "getc", from |-> r])
  /\ caller' = [caller EXCEPT ![r] = "sent"]
  /\ UNCHANGED <<termVars, outVars, inVars, shown, keyRead, termFailed>>

-----------------------------------------------------------------------------
(* TermOutNotif and TermInNotif, with the interrupts they wait for         *)

OutNotifAsk ==
  /\ ~termFailed
  /\ termOut = "ask"
  /\ SendsTerminal([type |-> "tx"])
  /\ termOut' = "asked"
  /\ UNCHANGED <<termVars, caller, outChar, inVars, shown, keyRead, termFailed>>

\* sysWrite enables the transmit interrupt and blocks.
OutNotifWrite ==
  /\ ~termFailed
  /\ termOut = "write"
  /\ termOut' = "writing"
  /\ UNCHANGED <<termVars, termInbox, caller, outChar, inVars, shown, keyRead, termFailed>>

\* The handler writes the character, wakes the notifier and disables the interrupt.
TransmitInterrupt ==
  /\ ~termFailed
  /\ termOut = "writing"
  /\ shown' = outChar
  /\ outChar' = <<>>
  /\ termOut' = "ask"
  /\ UNCHANGED <<termVars, termInbox, caller, inVars, keyRead, termFailed>>

InNotifRead ==
  /\ ~termFailed
  /\ termIn = "read"
  /\ termIn' = "reading"
  /\ UNCHANGED <<termVars, termInbox, caller, outVars, inKey, shown, keyRead, termFailed>>

\* The handler reads the key, and drops it if the notifier is not in sysRead.
ReceiveInterrupt(k) ==
  /\ ~termFailed
  /\ termIn = "reading"
  /\ inKey' = <<k>>
  /\ termIn' = "send"
  /\ UNCHANGED <<termVars, termInbox, caller, outVars, shown, keyRead, termFailed>>

InNotifSend ==
  /\ ~termFailed
  /\ termIn = "send"
  /\ SendsTerminal([type |-> "rcv", body |-> inKey[1]])
  /\ termIn' = "sent"
  /\ UNCHANGED <<termVars, caller, outVars, inKey, shown, keyRead, termFailed>>

-----------------------------------------------------------------------------
(* TerminalDriver                                                          *)

RepliesTo(c) == caller' = [caller EXCEPT ![c] = "run"]

ServeGetC(m) ==
  /\ m.type = "getc"
  /\ \/ /\ qInput = <<>>
        /\ getcTask' = IF getcTask = NoTask THEN m.from ELSE getcTask
        /\ termFailed' = (getcTask # NoTask)
        /\ UNCHANGED <<qInput, caller, keyRead>>
     \/ /\ qInput # <<>>
        /\ keyRead' = <<Head(qInput)>>
        /\ qInput' = Tail(qInput)
        /\ RepliesTo(m.from)
        /\ UNCHANGED <<getcTask, termFailed>>
  /\ UNCHANGED <<ringVars, isOutputNotifierReady, outVars, inVars, shown>>

\* The ring with s written from the tail on.
WithText(s) ==
  [k \in Slot |->
     IF \E i \in 1 .. Len(s) : (outputTail + i - 1) % OUTPUT_LENGTH = k
     THEN s[((k - outputTail) % OUTPUT_LENGTH) + 1]
     ELSE outputBuffer[k]]

FitsExactly(n) == (outputCount + n) % COUNT_RANGE <= OUTPUT_LENGTH
Fits(n) == (outputCount + n) % COUNT_RANGE < OUTPUT_LENGTH

\* The first character of the ring goes to the notifier.
Dequeued(ring) ==
  /\ outChar' = <<ring[outputHead]>>
  /\ outputBuffer' = [ring EXCEPT ![outputHead] = NoChar]
  /\ outputHead' = (outputHead + 1) % OUTPUT_LENGTH
  /\ termOut' = "write"

\* A notifier that is ready gets what the head is at.  If the string is empty that is no
\* character of it: the head passes the tail, and the ring seems to be full of stale ones.
ServePutStr(m) ==
  LET n == Len(m.body) IN
  /\ m.type = "putstr"
  /\ \/ /\ ~Fits(n)
        /\ termFailed' = TRUE
        /\ UNCHANGED <<ringVars, isOutputNotifierReady, outVars, caller>>
     \/ /\ Fits(n)
        /\ outputTail' = (outputTail + n) % OUTPUT_LENGTH
        /\ RepliesTo(m.from)
        /\ isOutputNotifierReady' = FALSE
        /\ IF isOutputNotifierReady
           THEN /\ Dequeued(WithText(m.body))
                /\ outputCount' = (outputCount + n - 1) % COUNT_RANGE
                /\ strayed' = (strayed \/ n = 0)
           ELSE /\ outputBuffer' = WithText(m.body)
                /\ outputCount' = (outputCount + n) % COUNT_RANGE
                /\ UNCHANGED <<outputHead, strayed, outVars>>
        /\ UNCHANGED termFailed
  /\ UNCHANGED <<qInput, getcTask, inVars, shown, keyRead>>

CountAfterTxKept == outputCount
CountAfterTx == (outputCount - 1) % COUNT_RANGE

NotMarked == isOutputNotifierReady
Marked == TRUE

ServeTxChar(m) ==
  /\ m.type = "tx"
  /\ IF outputHead # outputTail
     THEN /\ Dequeued(outputBuffer)
          /\ outputCount' = CountAfterTx
          /\ UNCHANGED isOutputNotifierReady
     ELSE /\ isOutputNotifierReady' = Marked
          /\ UNCHANGED <<outputBuffer, outputHead, outputCount, outVars>>
  /\ UNCHANGED <<qInput, outputTail, strayed, getcTask, caller, inVars, shown,
                 keyRead, termFailed>>

\* A key that comes to a full queue is dropped.
WithKeyAnyway(k) == Append(qInput, k)
WithKey(k) == IF Len(qInput) < INPUT_LENGTH THEN WithKeyAnyway(k) ELSE qInput

ServeRcvChar(m) ==
  /\ m.type = "rcv"
  /\ termIn' = "read" /\ inKey' = <<>>
  /\ IF getcTask # NoTask
     THEN /\ RepliesTo(getcTask)
          /\ keyRead' = <<m.body>>
          /\ getcTask' = NoTask
          /\ UNCHANGED qInput
     ELSE /\ qInput' = WithKey(m.body)
          /\ UNCHANGED <<caller, keyRead, getcTask>>
  /\ UNCHANGED <<ringVars, isOutputNotifierReady, outVars, shown, termFailed>>

ServeTerminal ==
  /\ ~termFailed
  /\ termInbox # <<>>
  /\ termInbox' = Tail(termInbox)
  /\ LET m == Head(termInbox)
     IN  ServeGetC(m) \/ ServePutStr(m) \/ ServeTxChar(m) \/ ServeRcvChar(m)

\* assertHandler hangs the board.
TerminalHung == termFailed /\ UNCHANGED TerminalVars

TerminalNext ==
  \/ \E p \in Printer : \E n \in Lengths[p] : PutStr(p, n)
  \/ \E r \in Reader : GetC(r)
  \/ OutNotifAsk \/ OutNotifWrite \/ TransmitInterrupt
  \/ InNotifRead \/ InNotifSend
  \/ \E k \in Key : ReceiveInterrupt(k)
  \/ ServeTerminal
  \/ TerminalHung

TerminalSpec == TerminalInit /\ [][TerminalNext]_TerminalVars

-----------------------------------------------------------------------------
\* The characters in the ring, oldest first.
Stored == [i \in 1 .. (outputTail - outputHead) % OUTPUT_LENGTH |->
             outputBuffer[(outputHead + i - 1) % OUTPUT_LENGTH]]

\* Types.
TerminalTypeOK ==
  /\ Len(qInput) <= INPUT_LENGTH
  /\ outputBuffer \in [Slot -> Char \cup {NoChar}]
  /\ outputHead \in Slot /\ outputTail \in Slot
  /\ outputCount \in 0 .. COUNT_RANGE - 1
  /\ getcTask \in Reader \cup {NoTask}
  /\ caller \in [Printer \cup Reader -> {"run", "sent"}]
  /\ termOut \in {"ask", "asked", "write", "writing"}
  /\ termIn \in {"read", "reading", "send", "sent"}

\* The counter and the two indices of the ring agree, though they are updated in three places,
\* and they agree but for rounds of the ring once an empty string has found the notifier ready;
\* a notifier is marked ready only while it waits and nothing is left to write; a reader waits
\* only while there is no key; and a task that waits for the driver waits in one place
\* (TerminalDriver.c:31-118).
TerminalExact ==
  LET messages(c) == {i \in 1 .. Len(termInbox) :
                        termInbox[i].type \in {"putstr", "getc"} /\ termInbox[i].from = c}
      asks == {i \in 1 .. Len(termInbox) : termInbox[i].type = "tx"}
  IN  ~termFailed =>
        /\ outputCount % OUTPUT_LENGTH = Len(Stored)
        /\ ~strayed => outputCount = Len(Stored)
        /\ isOutputNotifierReady => Stored = <<>>
        /\ Cardinality(asks) + (IF isOutputNotifierReady THEN 1 ELSE 0) =
             IF termOut = "asked" THEN 1 ELSE 0
        /\ getcTask # NoTask => qInput = <<>>
        /\ \A c \in Printer \cup Reader :
             Cardinality(messages(c)) + (IF getcTask = c THEN 1 ELSE 0) =
               IF caller[c] = "sent" THEN 1 ELSE 0

\* What is printed appears whole and in order, unless an empty string comes while nothing is
\* left to print; and so do the keys, always, whoever is ready first: the notifier or a string,
\* a key or its reader (TerminalDriver.c:36-116).
Chars == INSTANCE CharStream
  WITH Str <- UNION {{Text(p, n) : n \in Lengths[p]} : p \in Printer},
       DEPTH <- INPUT_LENGTH,
       unshown <- outChar \o Stored, screen <- shown, stray <- strayed,
       unread <- qInput \o inKey, read <- keyRead

ImplementsCharStream == Chars!Spec

\* Who prints is answered, what is stored keeps leaving for the screen, and a reader gets a
\* key if keys keep being struck: the driver and its notifiers never wait for each other
\* (TerminalDriver.c:70-98, :121-143).
TerminalGoesOn ==
  /\ \A p \in Printer : caller[p] = "sent" ~> caller[p] = "run" \/ termFailed
  /\ <>[](Stored # <<>> /\ ~termFailed) => []<><<TransmitInterrupt>>_TerminalVars
  /\ []<><<\E k \in Key : ReceiveInterrupt(k)>>_TerminalVars =>
       \A r \in Reader : caller[r] = "sent" ~> caller[r] = "run" \/ termFailed
=============================================================================
