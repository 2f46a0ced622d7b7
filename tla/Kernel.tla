------------------------------- MODULE Kernel -------------------------------
(***************************************************************************)
(* The burritOS kernel: the task table, the ready queues, message passing  *)
(* (Send / Receive / Reply), hardware events, memory blocks and shutdown.  *)
(*                                                                         *)
(* The kernel runs with interrupts masked.  A kernel entry is a system     *)
(* call of the active task or an interrupt; its handler runs (mode         *)
(* "sched" follows a system call, mode "irq" serves the pending interrupt  *)
(* sources one after the other), then `scheduler' chooses the next task    *)
(* and the CPU returns to mode "user".  start.s calls the handler and the  *)
(* scheduler in this order and nothing comes between them.                 *)
(*                                                                         *)
(* A failed assertion hangs the board, so it ends the behaviour.  Which    *)
(* assertion failed is kept in `mode':                                     *)
(*    "limit"      a queue is full or no memory block is left              *)
(*    "misuse"     Reply to a task that does not wait for a reply          *)
(*    "undefined"  the code read memory that holds no task or queue        *)
(*    "broken"     a consistency assertion of the kernel itself            *)
(***************************************************************************)
EXTENDS Naturals, Sequences, FiniteSets, ReadyQueue

CONSTANTS
  TASK_COUNT,          \* task descriptors
  SEND_QUEUE_LENGTH,   \* slots of a send queue
  MEMORY_BLOCK_COUNT,  \* memory blocks
  GENERATION_COUNT,    \* values of a generation, 256 for a U8
  INITIAL_PRIORITY,    \* priority IdleTask gives to InitialTask
  EVENT_COUNT,         \* events, numbered as eventHandler looks at them
  WriteEvents,         \* the events that sysWrite enables
  CtsEvents            \* those of a line with flow control: UART 1, the trains

ASSUME KernelAssumption ==
  /\ TASK_COUNT \in Nat \ {0}
  /\ PRIORITY_COUNT \in Nat \ {0}
  /\ PRIORITY_LENGTH \in Nat \ {0}
  /\ SEND_QUEUE_LENGTH \in Nat \ {0}
  /\ MEMORY_BLOCK_COUNT \in Nat \ {0}
  /\ GENERATION_COUNT \in Nat \ {0}
  /\ INITIAL_PRIORITY \in 0 .. PRIORITY_COUNT - 1
  /\ EVENT_COUNT \in Nat
  /\ WriteEvents \subseteq 0 .. EVENT_COUNT - 1
  /\ CtsEvents \subseteq WriteEvents

Task       == 0 .. TASK_COUNT - 1
Generation == 0 .. GENERATION_COUNT - 1
Event      == 0 .. EVENT_COUNT - 1
TaskID     == [id : Task, generation : Generation]

Idle   == 0               \* the first descriptor handed out
NoTask == TASK_COUNT      \* event table entry 0: nobody waits
Bogus  == TASK_COUNT + 1  \* id 0xFFFF, what a failed sysCreate returns

States == {"Zombie", "Ready", "SendBlocked", "ReceiveBlocked",
           "ReplyBlocked", "EventBlocked"}

Failures == {"limit", "misuse", "undefined", "broken"}
Modes    == {"user", "irq", "sched", "halted"} \cup Failures

VARIABLES
  state,            \* TaskState of each descriptor
  priority,         \* priority of each descriptor
  generation,       \* generation of each descriptor's tid
  sendQueue,        \* senders waiting for each descriptor
  used,             \* descriptors whose send queue was ever initialised
  sendTo,           \* the tid a blocked sender passed to sysSend
  allocationQueue,  \* free descriptors
  freeBlocks,       \* blocks in the allocator's queue
  userBlocks,       \* blocks that tasks got from sysAlloc and still use
  lostBlocks,       \* blocks that nobody refers to any more
  ready,            \* the ready queues
  eventTable,       \* the task that waits for each event
  txEnabled,        \* write events whose interrupt is enabled
  cts,              \* kernel.cts: the train line is clear to send
  systemRunning,    \* 1 running, 0 shut down, 2 killed
  activeTask,       \* the task that runs, or ran before the kernel entry
  idlePc,           \* where IdleTask is: "create", "test", "pass", "exit", "done"
  irqs,             \* interrupt sources this entry has still to serve
  mode              \* who runs: a task, a part of the kernel, nobody

descriptorVars == <<priority, generation, used, allocationQueue>>
memoryVars     == <<freeBlocks, userBlocks, lostBlocks>>
ipcVars        == <<sendQueue, sendTo>>
eventVars      == <<eventTable, txEnabled, cts>>
vars == <<state, descriptorVars, memoryVars, ipcVars, ready, eventVars,
          systemRunning, activeTask, idlePc, irqs, mode>>

NoTaskID == [id |-> NoTask, generation |-> 0]

-----------------------------------------------------------------------------
(* Send queues: FIFO for each receiver.                                    *)

FirstSenderLast(r) == sendQueue[r][Len(sendQueue[r])]
FirstSender(r) == Head(sendQueue[r])

OtherSendersAll(r)  == sendQueue[r]
OtherSendersNone(r) == <<>>
OtherSenders(r) == Tail(sendQueue[r])

(* The task table.                                                         *)

NextGenerationUnbounded(t) == generation[t] + 1
NextGeneration(t) == (generation[t] + 1) % GENERATION_COUNT

OtherDescriptorsAll == allocationQueue
OtherDescriptors == Tail(allocationQueue)

InitialDescriptorsAll == [i \in 1 .. TASK_COUNT |-> i - 1]
InitialDescriptors == [i \in 1 .. TASK_COUNT - 1 |-> i]

BlocksAfterReapLeaky == freeBlocks
BlocksAfterReap == freeBlocks + 1

(* The event table.  The tid value 0 (descriptor 0, generation 0) reads as  *)
(* an empty entry.                                                         *)

WaiterValue(t) == IF t = Idle /\ generation[t] = 0 THEN NoTask ELSE t

AfterWakeStale(e) == eventTable
AfterWake(e) == [eventTable EXCEPT ![e] = NoTask]

-----------------------------------------------------------------------------
(* bootstrap: the idle task is created and made active, it is not queued.  *)

Init ==
  /\ state = [t \in Task |-> IF t = Idle THEN "Ready" ELSE "Zombie"]
  /\ priority = [t \in Task |-> IF t = Idle THEN PRIORITY_COUNT - 1 ELSE 0]
  /\ generation = [t \in Task |-> 0]
  /\ sendQueue = [t \in Task |-> <<>>]
  /\ used = {Idle}
  /\ sendTo = [t \in Task |-> NoTaskID]
  /\ allocationQueue = InitialDescriptors
  /\ freeBlocks = MEMORY_BLOCK_COUNT - 1
  /\ userBlocks = 0
  /\ lostBlocks = 0
  /\ ready = [p \in Priority |-> <<>>]
  /\ eventTable = [e \in Event |-> NoTask]
  /\ txEnabled = {}
  /\ cts \in BOOLEAN
  /\ systemRunning = 1
  /\ activeTask = Idle
  /\ idlePc = "create"
  /\ irqs = {}
  /\ mode = "user"

Fail(failure) ==
  /\ mode' = failure
  /\ UNCHANGED <<state, descriptorVars, memoryVars, ipcVars, ready, eventVars,
                 systemRunning, activeTask, irqs>>

-----------------------------------------------------------------------------
(* systemCallHandler, called by the active task.                           *)

Returns == mode' = "sched" /\ UNCHANGED <<activeTask, irqs>>

Exit ==
  /\ state' = [state EXCEPT ![activeTask] = "Zombie"]
  /\ Returns
  /\ UNCHANGED <<descriptorVars, memoryVars, ipcVars, ready, eventVars,
                 systemRunning>>

\* sysPass and the calls that only read: sysRunning, sysTid, sysState, ...
Pass ==
  /\ Returns
  /\ UNCHANGED <<state, descriptorVars, memoryVars, ipcVars, ready, eventVars,
                 systemRunning>>

SetRunning(value) ==
  /\ systemRunning' = value
  /\ Returns
  /\ UNCHANGED <<state, descriptorVars, memoryVars, ipcVars, ready, eventVars>>

\* The result of taskTableAlloc is pushed whether it is a tid or -1.
Create(p) ==
  IF allocationQueue = <<>>
  THEN \/ /\ ~HasRoom(ready, p)
          /\ Fail("limit")
       \/ /\ HasRoom(ready, p)
          /\ ready' = Push(ready, p, Bogus)
          /\ Returns
          /\ UNCHANGED <<state, descriptorVars, memoryVars, ipcVars, eventVars,
                         systemRunning>>
  ELSE \/ /\ freeBlocks = 0 \/ ~HasRoom(ready, p)
          /\ Fail("limit")
       \/ /\ freeBlocks > 0 /\ HasRoom(ready, p)
          /\ LET t == Head(allocationQueue) IN
               /\ state' = [state EXCEPT ![t] = "Ready"]
               /\ priority' = [priority EXCEPT ![t] = p]
               /\ sendQueue' = [sendQueue EXCEPT ![t] = <<>>]
               /\ used' = used \cup {t}
               /\ ready' = Push(ready, p, t)
          /\ allocationQueue' = OtherDescriptors
          /\ freeBlocks' = freeBlocks - 1
          /\ Returns
          /\ UNCHANGED <<generation, userBlocks, lostBlocks, sendTo, eventVars,
                         systemRunning>>

\* Only the id of `to' selects the receiver.
Send(to) ==
  LET s == activeTask
      r == to.id
  IN  \/ /\ state[r] = "SendBlocked"
         /\ IF HasRoom(ready, priority[r])
            THEN /\ state' = [state EXCEPT ![s] = "ReplyBlocked", ![r] = "Ready"]
                 /\ ready' = Push(ready, priority[r], r)
                 /\ sendTo' = [sendTo EXCEPT ![s] = to]
                 /\ Returns
                 /\ UNCHANGED <<descriptorVars, memoryVars, sendQueue, eventVars,
                                systemRunning>>
            ELSE Fail("limit")
      \/ /\ state[r] # "SendBlocked"
         /\ r \notin used
         /\ Fail("undefined")
      \/ /\ state[r] # "SendBlocked"
         /\ r \in used
         /\ IF Len(sendQueue[r]) < SEND_QUEUE_LENGTH
            THEN /\ sendQueue' = [sendQueue EXCEPT ![r] = Append(@, s)]
                 /\ state' = [state EXCEPT ![s] = "ReceiveBlocked"]
                 /\ sendTo' = [sendTo EXCEPT ![s] = to]
                 /\ Returns
                 /\ UNCHANGED <<descriptorVars, memoryVars, ready, eventVars,
                                systemRunning>>
            ELSE Fail("limit")

Receive ==
  LET r == activeTask
      s == FirstSender(r)
  IN  \/ /\ sendQueue[r] = <<>>
         /\ state' = [state EXCEPT ![r] = "SendBlocked"]
         /\ Returns
         /\ UNCHANGED <<descriptorVars, memoryVars, ipcVars, ready, eventVars,
                        systemRunning>>
      \/ /\ sendQueue[r] # <<>>
         /\ IF state[s] = "ReceiveBlocked"
            THEN /\ sendQueue' = [sendQueue EXCEPT ![r] = OtherSenders(r)]
                 /\ state' = [state EXCEPT ![s] = "ReplyBlocked"]
                 /\ Returns
                 /\ UNCHANGED <<descriptorVars, memoryVars, sendTo, ready, eventVars,
                                systemRunning>>
            ELSE Fail("broken")

\* Nothing ties the caller to the message it answers.
Reply(s) ==
  \/ /\ state[s] # "ReplyBlocked"
     /\ Fail("misuse")
  \/ /\ state[s] = "ReplyBlocked"
     /\ ~HasRoom(ready, priority[s])
     /\ Fail("limit")
  \/ /\ state[s] = "ReplyBlocked"
     /\ HasRoom(ready, priority[s])
     /\ state' = [state EXCEPT ![s] = "Ready"]
     /\ ready' = Push(ready, priority[s], s)
     /\ sendTo' = [sendTo EXCEPT ![s] = NoTaskID]
     /\ Returns
     /\ UNCHANGED <<descriptorVars, memoryVars, sendQueue, eventVars, systemRunning>>

\* sysAwait, sysRead and, for the events of WriteEvents, sysWrite.
Await(e) ==
  /\ eventTable' = [eventTable EXCEPT ![e] = WaiterValue(activeTask)]
  /\ txEnabled' = txEnabled \cup ({e} \cap WriteEvents)
  /\ state' = [state EXCEPT ![activeTask] = "EventBlocked"]
  /\ Returns
  /\ UNCHANGED <<descriptorVars, memoryVars, ipcVars, ready, cts, systemRunning>>

\* The handler of SYS_CALL_ALLOC_ID, for a task that uses the block it gets.
Alloc ==
  /\ freeBlocks' = IF freeBlocks > 0 THEN freeBlocks - 1 ELSE 0
  /\ userBlocks' = IF freeBlocks > 0 THEN userBlocks + 1 ELSE userBlocks
  /\ UNCHANGED lostBlocks
  /\ Returns
  /\ UNCHANGED <<state, descriptorVars, ipcVars, ready, eventVars, systemRunning>>

\* The macro sysFree issues SYS_CALL_ALLOC_ID: the caller gives up its block and
\* drops the one it is handed.
Free ==
  /\ userBlocks > 0
  /\ userBlocks' = userBlocks - 1
  /\ freeBlocks' = IF freeBlocks > 0 THEN freeBlocks - 1 ELSE 0
  /\ lostBlocks' = IF freeBlocks > 0 THEN lostBlocks + 2 ELSE lostBlocks + 1
  /\ Returns
  /\ UNCHANGED <<state, descriptorVars, ipcVars, ready, eventVars, systemRunning>>

\* A tid a task may hold: one this descriptor has had.
KnownTaskIDs == {to \in TaskID : to.generation <= generation[to.id]}

-----------------------------------------------------------------------------
(* Kernel entries.                                                         *)

\* IdleTask: create InitialTask, pass while the system runs, exit.
IdleCall ==
  /\ mode = "user" /\ activeTask = Idle
  /\ \/ idlePc = "create" /\ Create(INITIAL_PRIORITY) /\ idlePc' = "test"
     \/ /\ idlePc = "test"
        /\ Pass
        /\ idlePc' = IF systemRunning # 0 THEN "pass" ELSE "exit"
     \/ idlePc = "pass" /\ Pass /\ idlePc' = "test"
     \/ idlePc = "exit" /\ Exit /\ idlePc' = "done"

\* Any other task may issue any call.  PRIORITY_COUNT stands for the priorities
\* out of range.
UserCall ==
  /\ mode = "user" /\ (activeTask = Idle => idlePc = "done")
  /\ UNCHANGED idlePc
  /\ \/ Exit
     \/ Pass
     \/ \E value \in {0, 2} : SetRunning(value)
     \/ \E p \in 0 .. PRIORITY_COUNT : Create(p)
     \/ \E to \in KnownTaskIDs : Send(to)
     \/ Receive
     \/ \E s \in Task : Reply(s)
     \/ \E e \in Event : Await(e)
     \/ Alloc
     \/ Free

\* The line's CTS input changed: the transmit interrupt follows it.
ModemStatus ==
  /\ cts' \in BOOLEAN
  /\ txEnabled' = IF cts' THEN txEnabled \cup CtsEvents ELSE txEnabled \ CtsEvents

\* An interrupt is taken: the enabled sources in S are pending, and perhaps the
\* modem status, which eventHandler looks at first.
Interrupt ==
  /\ mode = "user"
  /\ \E S \in SUBSET ((Event \ WriteEvents) \cup txEnabled) :
       /\ irqs' = S
       /\ \/ S # {} /\ UNCHANGED <<txEnabled, cts>>
          \/ CtsEvents # {} /\ ModemStatus
  /\ mode' = IF irqs' = {} THEN "sched" ELSE "irq"
  /\ UNCHANGED <<state, descriptorVars, memoryVars, ipcVars, ready, eventTable,
                 systemRunning, activeTask, idlePc>>

\* Somebody waits for e, and the line of a write to the trains is clear.
Wakes(e) == eventTable[e] # NoTask /\ (e \in CtsEvents => cts)

\* eventHandler looks at its sources in order and clears each one.
ServeIrq ==
  /\ mode = "irq"
  /\ \E e \in irqs :
       LET t == eventTable[e]
       IN  /\ \A f \in irqs : e <= f
           /\ \/ /\ Wakes(e)
                 /\ ~HasRoom(ready, priority[t])
                 /\ Fail("limit")
                 /\ UNCHANGED idlePc
              \/ /\ Wakes(e)
                 /\ HasRoom(ready, priority[t])
                 /\ state' = [state EXCEPT ![t] = "Ready"]
                 /\ ready' = Push(ready, priority[t], t)
                 /\ eventTable' = AfterWake(e)
                 /\ txEnabled' = txEnabled \ {e}
                 /\ cts' = (cts /\ e \notin CtsEvents)
                 /\ irqs' = irqs \ {e}
                 /\ mode' = IF irqs' = {} THEN "sched" ELSE "irq"
                 /\ UNCHANGED <<descriptorVars, memoryVars, ipcVars, systemRunning,
                                activeTask, idlePc>>
              \/ /\ ~Wakes(e)
                 /\ txEnabled' = txEnabled \ {e}
                 /\ irqs' = irqs \ {e}
                 /\ mode' = IF irqs' = {} THEN "sched" ELSE "irq"
                 /\ UNCHANGED <<state, ready, eventTable, cts, descriptorVars,
                                memoryVars, ipcVars, systemRunning, activeTask,
                                idlePc>>

-----------------------------------------------------------------------------
(* scheduler                                                               *)

\* The head of level p of q is popped.  Its id selects a descriptor, whose stack
\* block is verified before the task is entered.
Dispatch(q, p) ==
  LET t == Head(q[p])
  IN  IF t \in Task /\ state[t] # "Zombie"
      THEN /\ activeTask' = t
           /\ ready' = [q EXCEPT ![p] = Tail(@)]
           /\ mode' = "user"
      ELSE /\ mode' = IF t = Bogus THEN "undefined" ELSE "broken"
           /\ UNCHANGED <<ready, activeTask>>

Kill ==
  /\ mode = "sched" /\ systemRunning = 2
  /\ mode' = "halted"
  /\ UNCHANGED <<state, descriptorVars, memoryVars, ipcVars, ready, eventVars,
                 systemRunning, activeTask, idlePc, irqs>>

\* priorityQueuePushPop: the task runs on if it is more urgent than every other.
RunsOn(t) == MoreUrgent(ready, priority[t])

Yield ==
  LET t == activeTask
  IN  /\ mode = "sched" /\ systemRunning # 2 /\ state[t] = "Ready"
      /\ UNCHANGED <<state, descriptorVars, memoryVars, ipcVars, eventVars,
                     systemRunning, idlePc, irqs>>
      /\ \/ /\ RunsOn(t)
            /\ mode' = "user"
            /\ UNCHANGED <<ready, activeTask>>
         \/ /\ ~RunsOn(t)
            /\ IF HasRoom(ready, priority[t])
               THEN Dispatch(Push(ready, priority[t], t), Highest(ready))
               ELSE /\ mode' = "limit"
                    /\ UNCHANGED <<ready, activeTask>>

\* priorityQueuePop for a task that cannot run on.
Switch ==
  IF Levels(ready) = {}
  THEN /\ mode' = IF systemRunning = 0 THEN "halted" ELSE "broken"
       /\ UNCHANGED <<ready, activeTask>>
  ELSE Dispatch(ready, Highest(ready))

Block ==
  /\ mode = "sched" /\ systemRunning # 2
  /\ state[activeTask] \notin {"Ready", "Zombie"}
  /\ Switch
  /\ UNCHANGED <<state, descriptorVars, memoryVars, ipcVars, eventVars,
                 systemRunning, idlePc, irqs>>

\* taskTableFree recycles the descriptor and the stack of an exited task.
Reap ==
  /\ mode = "sched" /\ systemRunning # 2
  /\ state[activeTask] = "Zombie"
  /\ IF freeBlocks = MEMORY_BLOCK_COUNT
     THEN Fail("broken") /\ UNCHANGED idlePc
     ELSE /\ allocationQueue' = Append(allocationQueue, activeTask)
          /\ generation' = [generation EXCEPT ![activeTask] =
                              NextGeneration(activeTask)]
          /\ freeBlocks' = BlocksAfterReap
          /\ Switch
          /\ UNCHANGED <<state, priority, used, userBlocks, lostBlocks, ipcVars,
                         eventVars, systemRunning, idlePc, irqs>>

\* The board has been given back to RedBoot, or it hangs in assertHandler.
Stopped ==
  /\ mode \in Failures \cup {"halted"}
  /\ UNCHANGED vars

Scheduler == Kill \/ Yield \/ Block \/ Reap

Next == IdleCall \/ UserCall \/ Interrupt \/ ServeIrq \/ Scheduler \/ Stopped

Spec == Init /\ [][Next]_vars

\* The timer interrupts for ever, so the kernel is entered again and again.
FairSpec == Spec /\ WF_vars(Next)

-----------------------------------------------------------------------------
(* Properties.  A failed assertion leaves the state as it was before the    *)
(* failing call, so the invariants hold after it too; after "undefined" the *)
(* popped id names no descriptor.                                           *)

\* Every variable has its type.
TypeOK ==
  /\ state \in [Task -> States]
  /\ priority \in [Task -> Priority]
  /\ generation \in [Task -> Generation]
  /\ sendQueue \in [Task -> Seq(Task)]
  /\ used \subseteq Task
  /\ sendTo \in [Task -> TaskID \cup {NoTaskID}]
  /\ allocationQueue \in Seq(Task)
  /\ freeBlocks \in 0 .. MEMORY_BLOCK_COUNT
  /\ userBlocks \in Nat
  /\ lostBlocks \in Nat
  /\ ready \in [Priority -> Seq(Task \cup {Bogus})]
  /\ eventTable \in [Event -> Task \cup {NoTask}]
  /\ txEnabled \subseteq WriteEvents
  /\ cts \in BOOLEAN
  /\ systemRunning \in 0 .. 2
  /\ activeTask \in Task
  /\ idlePc \in {"create", "test", "pass", "exit", "done"}
  /\ irqs \subseteq Event
  /\ mode \in Modes

\* What the ready queues hold are Ready tasks, at their own priority, and not the
\* active one.
QueuedAreReady ==
  \A p \in Priority : \A i \in 1 .. Len(ready[p]) :
    ready[p][i] # Bogus =>
      /\ state[ready[p][i]] = "Ready"
      /\ priority[ready[p][i]] = p
      /\ ready[p][i] # activeTask

\* A task that can run is in the ready queue of its priority: whoever unblocked it
\* queued it, and nothing but the scheduler took it out.
ReadyAreQueued ==
  \A t \in Task \ {activeTask} :
    state[t] = "Ready" =>
      \E i \in 1 .. Len(ready[priority[t]]) : ready[priority[t]][i] = t

\* No task is queued twice.
QueuedOnce ==
  \A p \in Priority : \A i, j \in 1 .. Len(ready[p]) :
    ready[p][i] = ready[p][j] /\ ready[p][i] # Bogus => i = j

\* The ready queues hold exactly the Ready tasks other than the active one, once
\* each and at their priority, whatever mixture of Create, Send, Reply, interrupts
\* and rescheduling led here (systemCall.c:58-158, event.c, scheduler.c).
ReadyQueuesExact == QueuedAreReady /\ ReadyAreQueued /\ QueuedOnce

\* A task in a send queue is blocked in Send on that receiver, and is queued once.
QueuedAreSending ==
  \A r \in Task : \A i \in 1 .. Len(sendQueue[r]) :
    /\ state[sendQueue[r][i]] = "ReceiveBlocked"
    /\ sendTo[sendQueue[r][i]].id = r
    /\ \A j \in 1 .. Len(sendQueue[r]) : sendQueue[r][i] = sendQueue[r][j] => i = j

\* A task that waits in Receive has nothing in its send queue: a Send that raced the
\* Receive is neither missed nor left behind (systemCall.c:96, :125).
WaitingAreDrained ==
  \A r \in Task : state[r] = "SendBlocked" => sendQueue[r] = <<>>

\* The senders of a blocked or queued message are known by their tid.
SendersAddressed ==
  \A t \in Task :
    state[t] \in {"ReceiveBlocked", "ReplyBlocked"} => sendTo[t] # NoTaskID

\* Message passing keeps the task states and the send queues in step.
SendQueuesExact == QueuedAreSending /\ WaitingAreDrained /\ SendersAddressed

\* Whom the event table names is blocked on an event, and on one event only.  Who
\* waits to write has the transmit interrupt enabled, unless the train line is not
\* clear to send, so that no order of sysWrite, transmit and modem interrupts loses
\* its wake-up (systemCall.c:279-301, event.c:20-56, :137-156).
WaitersExact ==
  \A e \in Event : eventTable[e] # NoTask =>
    /\ state[eventTable[e]] = "EventBlocked"
    /\ e \in WriteEvents => e \in txEnabled \/ (e \in CtsEvents /\ ~cts)
    /\ \A f \in Event : eventTable[e] = eventTable[f] => e = f

\* The allocation queue holds exactly the descriptors of no live task, once each:
\* a descriptor in use is never handed out again.  The exception is the task that
\* has just exited and is not reaped yet.
DescriptorsExact ==
  /\ \A i \in 1 .. Len(allocationQueue) :
       /\ state[allocationQueue[i]] = "Zombie"
       /\ \A j \in 1 .. Len(allocationQueue) :
            allocationQueue[i] = allocationQueue[j] => i = j
  /\ \A t \in Task \ {activeTask} :
       state[t] = "Zombie" =>
         \E i \in 1 .. Len(allocationQueue) : allocationQueue[i] = t

\* Every memory block is free, a stack, in use by a task, or lost; stacks are as many
\* as descriptors in use (taskTable.c:38-49, :77-85, memoryAllocator.c).
BlocksConserved ==
  freeBlocks + (TASK_COUNT - Len(allocationQueue)) + userBlocks + lostBlocks
    = MEMORY_BLOCK_COUNT

\* The task that runs is Ready and no more urgent task waits.
MostUrgentRuns ==
  /\ mode \in {"user", "irq"} => state[activeTask] = "Ready"
  /\ mode = "user" => \A p \in Levels(ready) : priority[activeTask] <= p

\* The idle task can run until the system is shut down.
IdleAlive ==
  /\ idlePc # "done" =>
       /\ state[Idle] = "Ready"
       /\ priority[Idle] = PRIORITY_COUNT - 1
  /\ systemRunning = 1 => idlePc \notin {"exit", "done"}

\* The kernel's own consistency assertions never fail, whatever tasks call:
\* systemCall.c:134 (a queued sender is blocked in Send), scheduler.c:39 (a running
\* system has a task to run), scheduler.c:49 (the popped tid has a stack) and
\* memoryAllocator.c:40 (a returned block finds room).
KernelConsistent == mode # "broken"

\* A queued message leaves its send queue only by being received, or when the
\* receiver's descriptor is recycled for a new task (taskTable.c:59).
OnlyRecyclingForgets ==
  [][\A r \in Task : \A i \in 1 .. Len(sendQueue[r]) :
       LET s == sendQueue[r][i]
       IN  \/ \E j \in 1 .. Len(sendQueue'[r]) : sendQueue'[r][j] = s
           \/ state'[s] = "ReplyBlocked"
           \/ state[r] = "Zombie" /\ state'[r] = "Ready"]_vars

\* The kernel implements message passing as Rendezvous states it: a message is taken
\* once and in the order of arrival, and answered only after it was taken.
Messages == INSTANCE Rendezvous
  WITH waiting <- sendQueue,
       serving <- {<<s, sendTo[s].id>> : s \in {t \in Task : state[t] = "ReplyBlocked"}}

ImplementsRendezvous == Messages!Spec

\* Round robin: a Ready task runs unless a more urgent task becomes Ready.  (Or the
\* system stops.)
RoundRobin ==
  \A t \in Task :
    state[t] = "Ready" ~>
      \/ activeTask = t
      \/ \E u \in Task : state[u] = "Ready" /\ priority[u] < priority[t]
      \/ mode \in Failures \cup {"halted"}

\* manual.tex:235 "Frees a memory block pointer for reuse by the system."
FreedBlocksAreReusable == lostBlocks = 0

\* taskDescriptor.h:15 "a generation value for identifying whether a task id has
\* expired": a message is handed only to the task its tid names.
DeliveredToAddressee ==
  [][\A s \in Task :
       state[s] # "ReplyBlocked" /\ state'[s] = "ReplyBlocked" =>
         sendTo'[s].generation = generation[sendTo'[s].id]]_vars

\* manual.tex:186 sysCreate: "The new task's id is returned": what is scheduled are
\* tasks.
OnlyTasksScheduled == \A p \in Priority : Bogus \notin {ready[p][i] : i \in 1 .. Len(ready[p])}

=============================================================================
