---------------------------- MODULE KernelProofs ----------------------------
(***************************************************************************)
(* Type correctness of Kernel, the safety invariants of it and of its      *)
(* message passing, for every value of the constants.                      *)
(*                                                                         *)
(* None of them is inductive alone: who a wake-up makes Ready depends on   *)
(* the send queues and the event table, whether the popped task may run    *)
(* on the ready queues, whether a descriptor is free on who is active.     *)
(* IInv is their conjunction, with ActiveNotFree and the block count.      *)
(***************************************************************************)
EXTENDS Kernel, SequenceTheorems, FiniteSetTheorems, WellFoundedInduction, TLAPS

ReadyQueues == [Priority -> Seq(Task \cup {Bogus})]
IdlePcs     == {"create", "test", "pass", "exit", "done"}

-----------------------------------------------------------------------------
(* The operators on the ready queues.                                      *)

\* priorityQueuePop looks at the lowest set bit (__ctz): Highest is the least level
\* that holds a task.
LEMMA HighestIsLeast ==
  ASSUME NEW q, Levels(q) # {}
  PROVE  /\ Highest(q) \in Levels(q)
         /\ \A p \in Levels(q) : Highest(q) <= p
<1>1. Levels(q) \subseteq Nat
  BY KernelAssumption DEF Levels, Priority
<1>2. \E p \in Levels(q) : \A r \in Levels(q) : ~ (<<r, p>> \in OpToRel(<, Nat))
  BY <1>1, NatLessThanWellFounded, WFMin
<1>3. ASSUME NEW m \in Nat, NEW n \in Nat, m < n
      PROVE  <<m, n>> \in OpToRel(<, Nat)
  BY <1>3 DEF OpToRel
<1>4. PICK p \in Levels(q) : \A r \in Levels(q) : ~ (<<r, p>> \in OpToRel(<, Nat))
  BY <1>2
<1>5. \A r \in Levels(q) : p <= r
  <2> SUFFICES ASSUME NEW r \in Levels(q) PROVE ~ (r < p)
    BY <1>1
  <2> QED BY <1>1, <1>3, <1>4
<1> QED
  BY <1>5 DEF Highest

\* Push keeps the type of the ready queues.
LEMMA PushType ==
  ASSUME NEW q \in ReadyQueues, NEW p \in Priority, NEW t \in Task \cup {Bogus}
  PROVE  Push(q, p, t) \in ReadyQueues
BY DEF Push, ReadyQueues

\* Push appends to one level and leaves the others alone.
LEMMA PushFacts ==
  ASSUME NEW q \in ReadyQueues, NEW p \in Priority, NEW t \in Task \cup {Bogus}
  PROVE  /\ Len(Push(q, p, t)[p]) = Len(q[p]) + 1
         /\ Push(q, p, t)[p][Len(q[p]) + 1] = t
         /\ \A i \in 1 .. Len(q[p]) : Push(q, p, t)[p][i] = q[p][i]
         /\ \A r \in Priority \ {p} : Push(q, p, t)[r] = q[r]
         /\ \A r \in Priority : q[r] # <<>> => Push(q, p, t)[r] # <<>>
<1>1. Push(q, p, t)[p] = Append(q[p], t) /\ q[p] \in Seq(Task \cup {Bogus})
  BY DEF Push, ReadyQueues
<1>2. \A r \in Priority \ {p} : Push(q, p, t)[r] = q[r]
  BY DEF Push, ReadyQueues
<1>3. Append(q[p], t) # <<>>
  BY <1>1
<1> QED
  BY <1>1, <1>2, <1>3

\* A dispatch keeps the types of what it changes.
LEMMA DispatchType ==
  ASSUME TypeOK, NEW q \in ReadyQueues, NEW p \in Priority, q[p] # <<>>, Dispatch(q, p)
  PROVE  /\ ready' \in ReadyQueues
         /\ activeTask' \in Task
         /\ mode' \in {"user", "undefined", "broken"}
<1>1. Tail(q[p]) \in Seq(Task \cup {Bogus})
  BY DEF ReadyQueues
<1>2. CASE Head(q[p]) \in Task /\ state[Head(q[p])] # "Zombie"
  BY <1>1, <1>2 DEF Dispatch, ReadyQueues
<1>3. CASE ~(Head(q[p]) \in Task /\ state[Head(q[p])] # "Zombie")
  <2>1. UNCHANGED <<ready, activeTask>> /\ mode' \in {"undefined", "broken"}
    BY <1>3 DEF Dispatch
  <2> QED BY <2>1 DEF TypeOK, ReadyQueues
<1> QED BY <1>2, <1>3

\* So does the switch to another task.
LEMMA SwitchType ==
  ASSUME TypeOK, Switch
  PROVE  /\ ready' \in ReadyQueues
         /\ activeTask' \in Task
         /\ mode' \in {"user", "undefined", "broken", "halted"}
<1>1. CASE Levels(ready) = {}
  BY <1>1 DEF Switch, TypeOK, ReadyQueues
<1>2. CASE Levels(ready) # {}
  <2>1. Highest(ready) \in Priority /\ ready[Highest(ready)] # <<>>
    BY <1>2, HighestIsLeast DEF Levels
  <2>2. Dispatch(ready, Highest(ready))
    BY <1>2 DEF Switch
  <2>3. ready \in ReadyQueues
    BY DEF TypeOK, ReadyQueues
  <2> QED BY <2>1, <2>2, <2>3, DispatchType
<1> QED BY <1>1, <1>2

-----------------------------------------------------------------------------
(* One lemma for each action that changes more than a variable or two.     *)

LEMMA InitType == Init => TypeOK
<1> SUFFICES ASSUME Init PROVE TypeOK
  OBVIOUS
<1> USE KernelAssumption DEF Init, InitialDescriptors, Task
<1>1. Idle \in Task
  BY DEF Idle
<1>2. /\ state \in [Task -> States]
      /\ priority \in [Task -> Priority]
      /\ generation \in [Task -> Generation]
  BY DEF States, Priority, Generation
<1>3. sendQueue \in [Task -> Seq(Task)] /\ ready \in ReadyQueues
  BY DEF ReadyQueues
<1>4. allocationQueue \in Seq(Task)
  <2> DEFINE n == TASK_COUNT - 1
  <2>1. n \in Nat /\ \A i \in 1 .. n : i \in 0 .. n
    OBVIOUS
  <2> HIDE DEF n
  <2>2. [i \in 1 .. n |-> i] \in Seq(0 .. n)
    BY <2>1
  <2> QED BY <2>2 DEF n
<1>5. sendTo \in [Task -> TaskID \cup {NoTaskID}]
  OBVIOUS
<1>6. eventTable \in [Event -> Task \cup {NoTask}]
  OBVIOUS
<1>7. freeBlocks \in 0 .. MEMORY_BLOCK_COUNT
  OBVIOUS
<1>8. /\ used \subseteq Task
      /\ userBlocks \in Nat /\ lostBlocks \in Nat
      /\ txEnabled \subseteq WriteEvents
      /\ cts \in BOOLEAN
      /\ systemRunning \in 0 .. 2
      /\ activeTask \in Task
      /\ irqs \subseteq Event
  BY <1>1
<1>9. idlePc \in {"create", "test", "pass", "exit", "done"} /\ mode \in Modes
  BY DEF Modes
<1> HIDE DEF Init, InitialDescriptors, Task
<1> QED
  BY <1>2, <1>3, <1>4, <1>5, <1>6, <1>7, <1>8, <1>9 DEF TypeOK, ReadyQueues

LEMMA FailType ==
  ASSUME TypeOK, NEW f \in Failures, Fail(f), idlePc' \in IdlePcs
  PROVE  TypeOK'
BY DEF TypeOK, Fail, IdlePcs, Modes, descriptorVars, memoryVars, ipcVars, eventVars

LEMMA CreateType ==
  ASSUME TypeOK, NEW p, Create(p), idlePc' \in IdlePcs
  PROVE  TypeOK'
<1> USE DEF descriptorVars, memoryVars, ipcVars, eventVars
<1>0. ready \in ReadyQueues
  BY DEF TypeOK, ReadyQueues
<1>1. CASE Fail("limit")
  BY <1>1, FailType DEF Failures
<1>2. CASE HasRoom(ready, p) /\ allocationQueue = <<>> /\ ~Fail("limit")
  <2>1. /\ ready' = Push(ready, p, Bogus)
        /\ Returns
        /\ UNCHANGED <<state, descriptorVars, memoryVars, ipcVars, eventVars,
                       systemRunning>>
    BY <1>2 DEF Create
  <2>2. ready' \in ReadyQueues
    BY <1>0, <1>2, <2>1, PushType DEF HasRoom
  <2> QED
    BY <2>1, <2>2 DEF Returns, TypeOK, ReadyQueues, IdlePcs, Modes
<1>3. CASE HasRoom(ready, p) /\ allocationQueue # <<>> /\ ~Fail("limit")
  <2> DEFINE t == Head(allocationQueue)
  <2>1. p \in Priority /\ t \in Task
    BY <1>3 DEF HasRoom, TypeOK
  <2>2. /\ state' = [state EXCEPT ![t] = "Ready"]
        /\ priority' = [priority EXCEPT ![t] = p]
        /\ sendQueue' = [sendQueue EXCEPT ![t] = <<>>]
        /\ used' = used \cup {t}
        /\ ready' = Push(ready, p, t)
        /\ allocationQueue' = OtherDescriptors
        /\ freeBlocks > 0
        /\ freeBlocks' = freeBlocks - 1
        /\ Returns
        /\ UNCHANGED <<generation, userBlocks, lostBlocks, sendTo, eventVars,
                       systemRunning>>
    BY <1>3 DEF Create
  <2>3. ready' \in ReadyQueues
    BY <1>0, <2>1, <2>2, PushType
  <2>4. allocationQueue' \in Seq(Task)
    BY <1>3, <2>2 DEF OtherDescriptors, TypeOK
  <2>5. freeBlocks' \in 0 .. MEMORY_BLOCK_COUNT
    BY <2>2, KernelAssumption DEF TypeOK
  <2>6. /\ state' \in [Task -> States]
        /\ priority' \in [Task -> Priority]
        /\ sendQueue' \in [Task -> Seq(Task)]
        /\ used' \subseteq Task
    BY <2>1, <2>2 DEF TypeOK, States
  <2> HIDE DEF t
  <2> QED
    BY <2>2, <2>3, <2>4, <2>5, <2>6 DEF Returns, TypeOK, ReadyQueues, IdlePcs, Modes
<1> QED
  BY <1>1, <1>2, <1>3 DEF Create

LEMMA SendType ==
  ASSUME TypeOK, NEW to \in TaskID, Send(to), idlePc' \in IdlePcs
  PROVE  TypeOK'
<1> USE DEF descriptorVars, memoryVars, ipcVars, eventVars
<1> DEFINE r == to.id
           s == activeTask
<1>1. r \in Task /\ s \in Task /\ ready \in ReadyQueues
  BY DEF TypeOK, TaskID, ReadyQueues
<1>2. CASE \E f \in Failures : Fail(f)
  BY <1>2, FailType
<1>3. CASE /\ state' = [state EXCEPT ![s] = "ReplyBlocked", ![r] = "Ready"]
           /\ ready' = Push(ready, priority[r], r)
           /\ sendTo' = [sendTo EXCEPT ![s] = to]
           /\ Returns
           /\ UNCHANGED <<descriptorVars, memoryVars, sendQueue, eventVars,
                          systemRunning>>
  <2>1. ready' \in ReadyQueues
    BY <1>1, <1>3, PushType DEF TypeOK
  <2>2. state' \in [Task -> States] /\ sendTo' \in [Task -> TaskID \cup {NoTaskID}]
    BY <1>1, <1>3 DEF TypeOK, States
  <2> QED
    BY <1>3, <2>1, <2>2 DEF Returns, TypeOK, ReadyQueues, IdlePcs, Modes
<1>4. CASE /\ sendQueue' = [sendQueue EXCEPT ![r] = Append(@, s)]
           /\ state' = [state EXCEPT ![s] = "ReceiveBlocked"]
           /\ sendTo' = [sendTo EXCEPT ![s] = to]
           /\ Returns
           /\ UNCHANGED <<descriptorVars, memoryVars, ready, eventVars,
                          systemRunning>>
  <2>1. /\ state' \in [Task -> States]
        /\ sendTo' \in [Task -> TaskID \cup {NoTaskID}]
        /\ sendQueue' \in [Task -> Seq(Task)]
    BY <1>1, <1>4 DEF TypeOK, States
  <2> QED
    BY <1>4, <2>1 DEF Returns, TypeOK, IdlePcs, Modes
<1> QED
  BY <1>2, <1>3, <1>4 DEF Send, Failures

LEMMA ReceiveType ==
  ASSUME TypeOK, Receive, idlePc' \in IdlePcs
  PROVE  TypeOK'
<1> USE DEF descriptorVars, memoryVars, ipcVars, eventVars
<1> DEFINE r == activeTask
           s == FirstSender(r)
<1>1. CASE Fail("broken")
  BY <1>1, FailType DEF Failures
<1>2. CASE /\ state' = [state EXCEPT ![r] = "SendBlocked"]
           /\ Returns
           /\ UNCHANGED <<descriptorVars, memoryVars, ipcVars, ready, eventVars,
                          systemRunning>>
  BY <1>2 DEF Returns, TypeOK, States, IdlePcs, Modes
<1>3. CASE /\ sendQueue[r] # <<>>
           /\ sendQueue' = [sendQueue EXCEPT ![r] = OtherSenders(r)]
           /\ state' = [state EXCEPT ![s] = "ReplyBlocked"]
           /\ Returns
           /\ UNCHANGED <<descriptorVars, memoryVars, sendTo, ready, eventVars,
                          systemRunning>>
  <2>1. OtherSenders(r) \in Seq(Task)
    BY <1>3 DEF TypeOK, OtherSenders
  <2>2. state' \in [Task -> States] /\ sendQueue' \in [Task -> Seq(Task)]
    BY <1>3, <2>1 DEF TypeOK, States
  <2> QED
    BY <1>3, <2>2 DEF Returns, TypeOK, IdlePcs, Modes
<1> QED
  BY <1>1, <1>2, <1>3 DEF Receive

LEMMA ReplyType ==
  ASSUME TypeOK, NEW s \in Task, Reply(s), idlePc' \in IdlePcs
  PROVE  TypeOK'
<1> USE DEF descriptorVars, memoryVars, ipcVars, eventVars
<1>1. CASE \E f \in Failures : Fail(f)
  BY <1>1, FailType
<1>2. CASE /\ state' = [state EXCEPT ![s] = "Ready"]
           /\ ready' = Push(ready, priority[s], s)
           /\ sendTo' = [sendTo EXCEPT ![s] = NoTaskID]
           /\ Returns
           /\ UNCHANGED <<descriptorVars, memoryVars, sendQueue, eventVars,
                          systemRunning>>
  <2>1. ready' \in ReadyQueues
    BY <1>2, PushType DEF TypeOK, ReadyQueues
  <2>2. state' \in [Task -> States] /\ sendTo' \in [Task -> TaskID \cup {NoTaskID}]
    BY <1>2 DEF TypeOK, States
  <2> QED
    BY <1>2, <2>1, <2>2 DEF Returns, TypeOK, ReadyQueues, IdlePcs, Modes
<1> QED
  BY <1>1, <1>2 DEF Reply, Failures

LEMMA AwaitType ==
  ASSUME TypeOK, NEW e \in Event, Await(e), idlePc' \in IdlePcs
  PROVE  TypeOK'
<1> USE DEF descriptorVars, memoryVars, ipcVars, eventVars, Await
<1>1. WaiterValue(activeTask) \in Task \cup {NoTask}
  BY DEF TypeOK, WaiterValue
<1>2. eventTable' \in [Event -> Task \cup {NoTask}] /\ txEnabled' \subseteq WriteEvents
  BY <1>1 DEF TypeOK
<1> QED
  BY <1>2 DEF Returns, TypeOK, States, IdlePcs, Modes

\* The other system calls change a variable or two.
LEMMA SmallCallType ==
  ASSUME TypeOK, Exit \/ Pass \/ SetRunning(0) \/ SetRunning(2) \/ Alloc \/ Free,
         idlePc' \in IdlePcs
  PROVE  TypeOK'
<1> USE DEF descriptorVars, memoryVars, ipcVars, eventVars
<1>1. CASE Exit \/ Pass \/ SetRunning(0) \/ SetRunning(2)
  BY <1>1 DEF Exit, Pass, SetRunning, Returns, TypeOK, States, IdlePcs, Modes
<1>2. CASE Alloc \/ Free
  <2>1. /\ freeBlocks' \in 0 .. MEMORY_BLOCK_COUNT
        /\ userBlocks' \in Nat
        /\ lostBlocks' \in Nat
    BY <1>2, KernelAssumption DEF Alloc, Free, TypeOK
  <2> QED
    BY <1>2, <2>1 DEF Alloc, Free, Returns, TypeOK, IdlePcs, Modes
<1> QED BY <1>1, <1>2

LEMMA ServeIrqType ==
  ASSUME TypeOK, ServeIrq
  PROVE  TypeOK'
<1> USE DEF descriptorVars, memoryVars, ipcVars, eventVars
<1>0. PICK e \in irqs :
        LET t == eventTable[e]
        IN  \/ Fail("limit") /\ UNCHANGED idlePc
            \/ /\ t # NoTask
               /\ state' = [state EXCEPT ![t] = "Ready"]
               /\ ready' = Push(ready, priority[t], t)
               /\ eventTable' = AfterWake(e)
               /\ txEnabled' = txEnabled \ {e}
               /\ cts' = (cts /\ e \notin CtsEvents)
               /\ irqs' = irqs \ {e}
               /\ mode' = IF irqs' = {} THEN "sched" ELSE "irq"
               /\ UNCHANGED <<descriptorVars, memoryVars, ipcVars, systemRunning,
                              activeTask, idlePc>>
            \/ /\ txEnabled' = txEnabled \ {e}
               /\ irqs' = irqs \ {e}
               /\ mode' = IF irqs' = {} THEN "sched" ELSE "irq"
               /\ UNCHANGED <<state, ready, eventTable, cts, descriptorVars, memoryVars,
                              ipcVars, systemRunning, activeTask, idlePc>>
  BY DEF ServeIrq, Wakes
<1> DEFINE t == eventTable[e]
<1>1. e \in Event /\ t \in Task \cup {NoTask} /\ ready \in ReadyQueues
  BY DEF TypeOK, ReadyQueues
<1>2. CASE Fail("limit") /\ UNCHANGED idlePc
  BY <1>2, FailType DEF Failures, TypeOK, IdlePcs
<1>3. CASE /\ t # NoTask
           /\ state' = [state EXCEPT ![t] = "Ready"]
           /\ ready' = Push(ready, priority[t], t)
           /\ eventTable' = AfterWake(e)
           /\ txEnabled' = txEnabled \ {e}
           /\ cts' = (cts /\ e \notin CtsEvents)
           /\ irqs' = irqs \ {e}
           /\ mode' = IF irqs' = {} THEN "sched" ELSE "irq"
           /\ UNCHANGED <<descriptorVars, memoryVars, ipcVars, systemRunning,
                          activeTask, idlePc>>
  <2>1. ready' \in ReadyQueues
    BY <1>1, <1>3, PushType DEF TypeOK
  <2>2. state' \in [Task -> States]
    BY <1>1, <1>3 DEF TypeOK, States
  <2>3. eventTable' \in [Event -> Task \cup {NoTask}]
    BY <1>1, <1>3 DEF TypeOK, AfterWake
  <2>4. mode' \in Modes
    BY <1>3 DEF Modes
  <2> QED
    BY <1>3, <2>1, <2>2, <2>3, <2>4 DEF TypeOK, ReadyQueues
<1>4. CASE /\ txEnabled' = txEnabled \ {e}
           /\ irqs' = irqs \ {e}
           /\ mode' = IF irqs' = {} THEN "sched" ELSE "irq"
           /\ UNCHANGED <<state, ready, eventTable, cts, descriptorVars, memoryVars,
                          ipcVars, systemRunning, activeTask, idlePc>>
  <2>1. mode' \in Modes
    BY <1>4 DEF Modes
  <2> QED
    BY <1>4, <2>1 DEF TypeOK
<1> QED
  BY <1>0, <1>2, <1>3, <1>4

LEMMA SchedulerType ==
  ASSUME TypeOK, Scheduler
  PROVE  TypeOK'
<1> USE DEF descriptorVars, memoryVars, ipcVars, eventVars
<1>1. CASE Kill
  BY <1>1 DEF Kill, TypeOK, Modes
<1>2. CASE Yield
  <2> DEFINE t == activeTask
             q == Push(ready, priority[t], t)
  <2>1. /\ UNCHANGED <<state, descriptorVars, memoryVars, ipcVars, eventVars,
                       systemRunning, idlePc, irqs>>
        /\ \/ /\ mode' \in {"user", "limit"}
              /\ UNCHANGED <<ready, activeTask>>
           \/ /\ ~RunsOn(t)
              /\ Dispatch(q, Highest(ready))
    BY <1>2 DEF Yield
  <2>2. q \in ReadyQueues
    BY PushType DEF TypeOK, ReadyQueues
  <2>3. CASE ~RunsOn(t) /\ Dispatch(q, Highest(ready))
    <3>1. Levels(ready) # {}
      BY <2>3 DEF RunsOn, MoreUrgent
    <3>2. Highest(ready) \in Priority /\ ready[Highest(ready)] # <<>>
      BY <3>1, HighestIsLeast DEF Levels
    <3>3. q[Highest(ready)] # <<>>
      <4>1. priority[t] \in Priority /\ t \in Task /\ ready \in ReadyQueues
        BY DEF TypeOK, ReadyQueues
      <4> QED BY <3>2, <4>1, PushFacts
    <3>4. ready' \in ReadyQueues /\ activeTask' \in Task /\ mode' \in Modes
      BY <2>2, <2>3, <3>2, <3>3, DispatchType DEF Modes, Failures
    <3> QED
      BY <2>1, <3>4 DEF TypeOK, ReadyQueues
  <2> QED
    BY <2>1, <2>3 DEF TypeOK, Modes, Failures
<1>3. CASE Block
  <2>1. ready' \in ReadyQueues /\ activeTask' \in Task /\ mode' \in Modes
    BY <1>3, SwitchType DEF Block, Modes, Failures
  <2> QED
    BY <1>3, <2>1 DEF Block, TypeOK, ReadyQueues
<1>4. CASE Reap
  <2>1. CASE freeBlocks = MEMORY_BLOCK_COUNT
    BY <1>4, <2>1, FailType DEF Reap, Failures, TypeOK, IdlePcs
  <2>2. CASE freeBlocks # MEMORY_BLOCK_COUNT
    <3>1. /\ allocationQueue' = Append(allocationQueue, activeTask)
          /\ generation' = [generation EXCEPT ![activeTask] =
                              NextGeneration(activeTask)]
          /\ freeBlocks' = freeBlocks + 1
          /\ Switch
          /\ UNCHANGED <<state, priority, used, userBlocks, lostBlocks, ipcVars,
                         eventVars, systemRunning, idlePc, irqs>>
      BY <1>4, <2>2 DEF Reap, BlocksAfterReap
    <3>2. ready' \in ReadyQueues /\ activeTask' \in Task /\ mode' \in Modes
      BY <3>1, SwitchType DEF Modes, Failures
    <3>3. NextGeneration(activeTask) \in Generation
      BY KernelAssumption DEF NextGeneration, Generation, TypeOK
    <3>4. /\ generation' \in [Task -> Generation]
          /\ allocationQueue' \in Seq(Task)
      BY <3>1, <3>3 DEF TypeOK
    <3>5. freeBlocks' \in 0 .. MEMORY_BLOCK_COUNT
      BY <2>2, <3>1, KernelAssumption DEF TypeOK
    <3> QED
      BY <3>1, <3>2, <3>4, <3>5 DEF TypeOK, ReadyQueues
  <2> QED BY <2>1, <2>2
<1> QED
  BY <1>1, <1>2, <1>3, <1>4 DEF Scheduler

-----------------------------------------------------------------------------
LEMMA NextType ==
  ASSUME TypeOK, [Next]_vars
  PROVE  TypeOK'
<1>1. CASE IdleCall
  <2>1. idlePc' \in IdlePcs
    BY <1>1 DEF IdleCall, IdlePcs
  <2> QED
    BY <1>1, <2>1, CreateType, SmallCallType DEF IdleCall
<1>2. CASE UserCall
  <2>1. idlePc' \in IdlePcs
    BY <1>2 DEF UserCall, TypeOK, IdlePcs
  <2>2. CASE \/ Exit \/ Pass \/ Alloc \/ Free
             \/ \E value \in {0, 2} : SetRunning(value)
    BY <2>1, <2>2, SmallCallType
  <2>3. CASE \E p \in 0 .. PRIORITY_COUNT : Create(p)
    BY <2>1, <2>3, CreateType
  <2>4. CASE \E to \in KnownTaskIDs : Send(to)
    BY <2>1, <2>4, SendType DEF KnownTaskIDs
  <2>5. CASE Receive
    BY <2>1, <2>5, ReceiveType
  <2>6. CASE \E s \in Task : Reply(s)
    BY <2>1, <2>6, ReplyType
  <2>7. CASE \E e \in Event : Await(e)
    BY <2>1, <2>7, AwaitType
  <2> QED
    BY <1>2, <2>2, <2>3, <2>4, <2>5, <2>6, <2>7 DEF UserCall
<1>3. CASE Interrupt
  <2>1. irqs' \subseteq Event
    BY <1>3, KernelAssumption DEF Interrupt, TypeOK, Event
  <2>2. txEnabled' \subseteq WriteEvents /\ cts' \in BOOLEAN
    BY <1>3, KernelAssumption DEF Interrupt, ModemStatus, TypeOK
  <2> QED
    BY <1>3, <2>1, <2>2 DEF Interrupt, TypeOK, Modes, descriptorVars, memoryVars, ipcVars,
                      eventVars
<1>4. CASE ServeIrq
  BY <1>4, ServeIrqType
<1>5. CASE Scheduler
  BY <1>5, SchedulerType
<1>6. CASE UNCHANGED vars
  BY <1>6 DEF vars, TypeOK, descriptorVars, memoryVars, ipcVars, eventVars
<1> QED
  BY <1>1, <1>2, <1>3, <1>4, <1>5, <1>6 DEF Next, Stopped

\* Every variable of the kernel always has its type: no handler writes past a table,
\* and no count of blocks leaves its range.
THEOREM TypeCorrect == Spec => []TypeOK
<1>1. Init => TypeOK
  BY InitType
<1>2. TypeOK /\ [Next]_vars => TypeOK'
  BY NextType
<1> QED
  BY <1>1, <1>2, PTL DEF Spec

-----------------------------------------------------------------------------
(* What is to be shown.                                                    *)

\* Until the scheduler has reaped the active task its descriptor is not free.
ActiveNotFree ==
  mode \in {"user", "irq", "sched"} =>
    \A i \in 1 .. Len(allocationQueue) : allocationQueue[i] # activeTask

IInv ==
  /\ TypeOK
  /\ ReadyQueuesExact
  /\ SendQueuesExact
  /\ WaitersExact
  /\ DescriptorsExact
  /\ ActiveNotFree
  /\ BlocksConserved
  /\ MostUrgentRuns
  /\ IdleAlive
  /\ KernelConsistent

-----------------------------------------------------------------------------
(* Memory blocks.                                                          *)

LEMMA NextBlocks ==
  ASSUME TypeOK, BlocksConserved, [Next]_vars
  PROVE  BlocksConserved'
<1> USE DEF descriptorVars, memoryVars
<1> DEFINE Still == UNCHANGED <<allocationQueue, freeBlocks, userBlocks, lostBlocks>>
<1>n. /\ freeBlocks \in Nat /\ userBlocks \in Nat /\ lostBlocks \in Nat
      /\ Len(allocationQueue) \in Nat
      /\ TASK_COUNT \in Nat /\ MEMORY_BLOCK_COUNT \in Nat
  BY KernelAssumption DEF TypeOK
<1>0. Still => BlocksConserved'
  BY DEF BlocksConserved
<1>1. ASSUME NEW p, Create(p) PROVE BlocksConserved'
  <2>1. CASE Still
    BY <1>0, <2>1
  <2>2. CASE allocationQueue # <<>> /\ ~Still
    <3>1. /\ allocationQueue' = OtherDescriptors
          /\ freeBlocks' = freeBlocks - 1
          /\ UNCHANGED <<userBlocks, lostBlocks>>
      BY <1>1, <2>2 DEF Create, Fail
    <3>2. Len(allocationQueue') = Len(allocationQueue) - 1 /\ Len(allocationQueue) \in Nat
      BY <2>2, <3>1 DEF OtherDescriptors, TypeOK
    <3> QED BY <1>n, <3>1, <3>2 DEF BlocksConserved
  <2> QED BY <1>1, <2>1, <2>2 DEF Create, Fail
<1>2. ASSUME NEW f, Fail(f) PROVE Still
  BY <1>2 DEF Fail
<1>3. ASSUME NEW to, Send(to) PROVE Still
  BY <1>2, <1>3 DEF Send
<1>4. ASSUME Receive PROVE Still
  BY <1>2, <1>4 DEF Receive
<1>5. ASSUME NEW s, Reply(s) PROVE Still
  BY <1>2, <1>5 DEF Reply
<1>6. CASE Alloc \/ Free
  <2>1. UNCHANGED allocationQueue
    BY <1>6 DEF Alloc, Free
  <2>2. CASE Alloc
    BY <1>n, <2>1, <2>2 DEF Alloc, BlocksConserved
  <2>3. CASE Free
    BY <1>n, <2>1, <2>3 DEF Free, BlocksConserved
  <2> QED
    BY <1>6, <2>2, <2>3
<1>7. CASE IdleCall \/ UserCall
  BY <1>0, <1>1, <1>3, <1>4, <1>5, <1>6, <1>7
     DEF IdleCall, UserCall, Exit, Pass, SetRunning, Await
<1>8. CASE Interrupt \/ ServeIrq \/ Kill \/ Yield \/ Block \/ UNCHANGED vars
  BY <1>0, <1>2, <1>8 DEF Interrupt, ServeIrq, Kill, Yield, Block, vars
<1>9. CASE Reap
  <2>1. CASE freeBlocks = MEMORY_BLOCK_COUNT
    BY <1>0, <1>2, <1>9, <2>1 DEF Reap
  <2>2. CASE freeBlocks # MEMORY_BLOCK_COUNT
    <3>1. /\ allocationQueue' = Append(allocationQueue, activeTask)
          /\ freeBlocks' = freeBlocks + 1
          /\ UNCHANGED <<userBlocks, lostBlocks>>
      BY <1>9, <2>2 DEF Reap, BlocksAfterReap
    <3>2. Len(allocationQueue') = Len(allocationQueue) + 1 /\ Len(allocationQueue) \in Nat
      BY <3>1 DEF TypeOK
    <3> QED BY <1>n, <3>1, <3>2 DEF BlocksConserved
  <2> QED BY <2>1, <2>2
<1> QED
  BY <1>7, <1>8, <1>9 DEF Next, Scheduler, Stopped

LEMMA InitBlocks == Init => BlocksConserved
<1> SUFFICES ASSUME Init PROVE BlocksConserved
  OBVIOUS
<1>1. Len(allocationQueue) = TASK_COUNT - 1
  BY KernelAssumption DEF Init, InitialDescriptors
<1> QED
  BY <1>1, KernelAssumption DEF Init, BlocksConserved

\* Blocks are neither made nor do they vanish: the task table and the allocator agree on
\* how many stacks are in use, whatever tasks do (taskTable.c:26-90,
\* memoryAllocator.c:21-42).
THEOREM BlocksTheorem == Spec => []BlocksConserved
<1>1. Init => BlocksConserved
  BY InitBlocks
<1>2. TypeOK /\ BlocksConserved /\ [Next]_vars => BlocksConserved'
  BY NextBlocks
<1> QED
  BY <1>1, <1>2, TypeCorrect, PTL DEF Spec

-----------------------------------------------------------------------------
(* Frames: a step that disturbs nothing a part of the invariant speaks of. *)

Blocked == {"SendBlocked", "ReceiveBlocked", "ReplyBlocked", "EventBlocked"}

LEMMA SameReady ==
  ASSUME TypeOK, ReadyQueuesExact, UNCHANGED <<priority, ready, activeTask>>,
         \A t \in Task \ {activeTask} : state[t] = "Ready" <=> state'[t] = "Ready"
  PROVE  ReadyQueuesExact'
<1>1. QueuedAreReady'
  <2> SUFFICES ASSUME NEW p \in Priority, NEW i \in 1 .. Len(ready[p]), ready[p][i] # Bogus
               PROVE  /\ state'[ready[p][i]] = "Ready"
                      /\ priority[ready[p][i]] = p
                      /\ ready[p][i] # activeTask
    BY DEF QueuedAreReady
  <2>1. ready[p][i] \in Task
    BY DEF TypeOK
  <2> QED BY <2>1 DEF ReadyQueuesExact, QueuedAreReady
<1>2. ReadyAreQueued'
  BY DEF ReadyQueuesExact, ReadyAreQueued
<1>3. QueuedOnce'
  BY DEF ReadyQueuesExact, QueuedOnce
<1> QED BY <1>1, <1>2, <1>3 DEF ReadyQueuesExact

LEMMA SameSending ==
  ASSUME TypeOK, SendQueuesExact, UNCHANGED <<sendQueue, sendTo>>,
         \A t \in Task : state[t] = "ReceiveBlocked" => state'[t] = "ReceiveBlocked",
         \A t \in Task : state'[t] = "SendBlocked" =>
                           state[t] = "SendBlocked" \/ sendQueue[t] = <<>>,
         \A t \in Task : state'[t] \in {"ReceiveBlocked", "ReplyBlocked"} =>
                           state[t] \in {"ReceiveBlocked", "ReplyBlocked"}
  PROVE  SendQueuesExact'
<1>1. \A r \in Task : \A i \in 1 .. Len(sendQueue[r]) : sendQueue[r][i] \in Task
  BY DEF TypeOK
<1>2. QueuedAreSending'
  BY <1>1 DEF SendQueuesExact, QueuedAreSending
<1>3. WaitingAreDrained'
  BY DEF SendQueuesExact, WaitingAreDrained
<1>4. SendersAddressed'
  BY DEF SendQueuesExact, SendersAddressed
<1> QED BY <1>2, <1>3, <1>4 DEF SendQueuesExact

LEMMA SameWaiters ==
  ASSUME TypeOK, WaitersExact, UNCHANGED <<eventTable, txEnabled, cts>>,
         \A t \in Task : state[t] = "EventBlocked" => state'[t] = "EventBlocked"
  PROVE  WaitersExact'
<1>1. \A e \in Event : eventTable[e] # NoTask => eventTable[e] \in Task
  BY DEF TypeOK
<1> QED BY <1>1 DEF WaitersExact

LEMMA SameDescriptors ==
  ASSUME TypeOK, DescriptorsExact, UNCHANGED <<allocationQueue, activeTask>>,
         \A t \in Task : state[t] = "Zombie" => state'[t] = "Zombie",
         \A t \in Task \ {activeTask} : state'[t] = "Zombie" => state[t] = "Zombie"
  PROVE  DescriptorsExact'
<1>1. \A i \in 1 .. Len(allocationQueue) : allocationQueue[i] \in Task
  BY DEF TypeOK
<1> QED BY <1>1 DEF DescriptorsExact

LEMMA SameIdle ==
  ASSUME IdleAlive, UNCHANGED idlePc,
         systemRunning' = 1 => systemRunning = 1,
         state[Idle] = "Ready" /\ idlePc # "done" => state'[Idle] = "Ready",
         idlePc # "done" => priority'[Idle] = priority[Idle]
  PROVE  IdleAlive'
BY DEF IdleAlive

-----------------------------------------------------------------------------
(* Queueing and dispatching.                                               *)

LEMMA BogusIsNoTask == Bogus \notin Task /\ NoTask \notin Task
BY KernelAssumption DEF Bogus, NoTask, Task

\* A task that was not Ready and is pushed at its priority keeps the queues exact.
LEMMA PushedExact ==
  ASSUME TypeOK, ReadyQueuesExact, NEW t \in Task \ {activeTask},
         state[t] # "Ready", state'[t] = "Ready",
         priority'[t] \in Priority,
         ready' = Push(ready, priority'[t], t),
         UNCHANGED activeTask,
         \A u \in Task \ {t} : priority'[u] = priority[u],
         \A u \in Task \ {t, activeTask} : state[u] = "Ready" <=> state'[u] = "Ready"
  PROVE  ReadyQueuesExact'
<1> DEFINE p == priority'[t]
           n == Len(ready[p])
<1> ready \in ReadyQueues /\ p \in Priority /\ t \in Task \cup {Bogus}
  BY DEF TypeOK, ReadyQueues
<1>1. /\ Len(ready'[p]) = n + 1 /\ n \in Nat
      /\ ready'[p][n + 1] = t
      /\ \A i \in 1 .. n : ready'[p][i] = ready[p][i]
      /\ \A r \in Priority \ {p} : ready'[r] = ready[r]
  BY PushFacts DEF ReadyQueues
<1>2. \A r \in Priority : \A i \in 1 .. Len(ready[r]) :
        /\ ready[r][i] \in Task \cup {Bogus}
        /\ ready[r][i] # t
  <2> SUFFICES ASSUME NEW r \in Priority, NEW i \in 1 .. Len(ready[r])
               PROVE  ready[r][i] \in Task \cup {Bogus} /\ ready[r][i] # t
    OBVIOUS
  <2>1. ready[r][i] \in Task \cup {Bogus}
    BY DEF ReadyQueues
  <2> QED BY <2>1, BogusIsNoTask DEF ReadyQueuesExact, QueuedAreReady
<1> HIDE DEF p, n
<1>3. QueuedAreReady'
  <2> SUFFICES ASSUME NEW r \in Priority, NEW i \in 1 .. Len(ready'[r]), ready'[r][i] # Bogus
               PROVE  /\ state'[ready'[r][i]] = "Ready"
                      /\ priority'[ready'[r][i]] = r
                      /\ ready'[r][i] # activeTask
    BY DEF QueuedAreReady
  <2>1. CASE r = p /\ i = n + 1
    BY <1>1, <2>1 DEF p
  <2>2. CASE ~(r = p /\ i = n + 1)
    <3>1. i \in 1 .. Len(ready[r]) /\ ready'[r][i] = ready[r][i]
      BY <1>1, <2>2 DEF n
    <3>2. ready[r][i] \in Task \ {t}
      BY <1>2, <3>1
    <3> QED
      BY <3>1, <3>2 DEF ReadyQueuesExact, QueuedAreReady
  <2> QED BY <2>1, <2>2
<1>4. ReadyAreQueued'
  <2> SUFFICES ASSUME NEW u \in Task \ {activeTask}, state'[u] = "Ready"
               PROVE  \E i \in 1 .. Len(ready'[priority'[u]]) : ready'[priority'[u]][i] = u
    BY DEF ReadyAreQueued
  <2>1. CASE u = t
    BY <1>1, <2>1 DEF p
  <2>2. CASE u # t
    <3>1. state[u] = "Ready" /\ priority'[u] = priority[u] /\ priority[u] \in Priority
      BY <2>2 DEF TypeOK
    <3>2. PICK i \in 1 .. Len(ready[priority[u]]) : ready[priority[u]][i] = u
      BY <3>1 DEF ReadyQueuesExact, ReadyAreQueued
    <3> QED BY <1>1, <3>1, <3>2 DEF n
  <2> QED BY <2>1, <2>2
<1>5. QueuedOnce'
  <2> SUFFICES ASSUME NEW r \in Priority,
                      NEW i \in 1 .. Len(ready'[r]), NEW j \in 1 .. Len(ready'[r]),
                      ready'[r][i] = ready'[r][j], ready'[r][i] # Bogus
               PROVE  i = j
    BY DEF QueuedOnce
  <2>1. CASE r # p
    BY <1>1, <2>1 DEF ReadyQueuesExact, QueuedOnce
  <2>2. CASE r = p
    <3>1. \A k \in 1 .. n : ready'[r][k] # t
      BY <1>1, <1>2, <2>2 DEF n
    <3>2. \A k \in 1 .. n : ready'[r][k] = ready[r][k]
      BY <1>1, <2>2 DEF n
    <3>3. i \in 1 .. n + 1 /\ j \in 1 .. n + 1 /\ n \in Nat /\ ready'[r][n + 1] = t
      BY <1>1, <2>2 DEF n
    <3>4. CASE i \in 1 .. n /\ j \in 1 .. n
      <4>1. ready[r][i] = ready[r][j] /\ ready[r][i] # Bogus
        BY <3>2, <3>4
      <4> QED BY <2>2, <3>4, <4>1 DEF n, ReadyQueuesExact, QueuedOnce
    <3>5. CASE i = n + 1 \/ j = n + 1
      BY <3>1, <3>3, <3>5
    <3> QED BY <3>3, <3>4, <3>5
  <2> QED BY <2>1, <2>2
<1> QED BY <1>3, <1>4, <1>5 DEF ReadyQueuesExact

\* The queues q hold every Ready task once.  The active task is one of them when it
\* yields.
Holds(q) ==
  /\ \A p \in Priority : \A i \in 1 .. Len(q[p]) :
       q[p][i] # Bogus => state[q[p][i]] = "Ready" /\ priority[q[p][i]] = p
  /\ \A t \in Task : state[t] = "Ready" =>
       \E i \in 1 .. Len(q[priority[t]]) : q[priority[t]][i] = t
  /\ \A p \in Priority : \A i, j \in 1 .. Len(q[p]) :
       q[p][i] = q[p][j] /\ q[p][i] # Bogus => i = j

\* Popping the head of the most urgent level makes it the active task.
LEMMA PoppedExact ==
  ASSUME TypeOK, NEW q \in ReadyQueues, Holds(q), NEW p \in Priority, q[p] # <<>>,
         \A r \in Levels(q) : p <= r,
         Dispatch(q, p), UNCHANGED <<state, priority>>
  PROVE  \/ /\ mode' = "user"
            /\ ReadyQueuesExact'
            /\ MostUrgentRuns'
            /\ state'[activeTask'] = "Ready"
         \/ /\ mode' = "undefined"
            /\ UNCHANGED <<ready, activeTask>>
<1> DEFINE t == Head(q[p])
<1>1. /\ q[p] \in Seq(Task \cup {Bogus}) /\ Len(q[p]) \in Nat /\ Len(q[p]) >= 1
      /\ t = q[p][1] /\ t \in Task \cup {Bogus}
  BY DEF ReadyQueues
<1> HIDE DEF t
<1>2. CASE t = Bogus
  BY <1>2, BogusIsNoTask DEF Dispatch, t
<1>3. CASE t # Bogus
  <2>1. t \in Task /\ state[t] = "Ready" /\ priority[t] = p
    BY <1>1, <1>3 DEF Holds
  <2>2. /\ activeTask' = t
        /\ ready' = [q EXCEPT ![p] = Tail(@)]
        /\ mode' = "user"
    BY <2>1 DEF Dispatch, t
  <2>3. /\ Len(ready'[p]) = Len(q[p]) - 1
        /\ \A i \in 1 .. Len(ready'[p]) : ready'[p][i] = q[p][i + 1]
        /\ \A r \in Priority \ {p} : ready'[r] = q[r]
    BY <1>1, <2>2 DEF ReadyQueues
  <2>4. QueuedAreReady'
    <3> SUFFICES ASSUME NEW r \in Priority, NEW i \in 1 .. Len(ready'[r]),
                        ready'[r][i] # Bogus
                 PROVE  /\ state[ready'[r][i]] = "Ready"
                        /\ priority[ready'[r][i]] = r
                        /\ ready'[r][i] # t
      BY <2>2 DEF QueuedAreReady
    <3>1. CASE r = p
      <4>1. i + 1 \in 1 .. Len(q[p]) /\ i + 1 # 1 /\ 1 \in 1 .. Len(q[p])
        BY <1>1, <2>3, <3>1
      <4>2. ready'[p][i] = q[p][i + 1] /\ q[p][i + 1] # Bogus
        BY <2>3, <3>1
      <4>3. q[p][i + 1] # q[p][1]
        BY <4>1, <4>2 DEF Holds
      <4> QED BY <1>1, <3>1, <4>1, <4>2, <4>3 DEF Holds
    <3>2. CASE r # p
      BY <2>1, <2>3, <3>2 DEF Holds
    <3> QED BY <3>1, <3>2
  <2>5. ReadyAreQueued'
    <3> SUFFICES ASSUME NEW u \in Task \ {t}, state[u] = "Ready"
                 PROVE  \E i \in 1 .. Len(ready'[priority[u]]) : ready'[priority[u]][i] = u
      BY <2>2 DEF ReadyAreQueued
    <3>1. PICK i \in 1 .. Len(q[priority[u]]) : q[priority[u]][i] = u
      BY DEF Holds
    <3>2. priority[u] \in Priority
      BY DEF TypeOK
    <3>3. CASE priority[u] = p
      <4>1. i # 1
        BY <1>1, <3>1, <3>3
      <4>2. i - 1 \in 1 .. Len(ready'[p]) /\ ready'[p][i - 1] = u
        BY <1>1, <2>3, <3>1, <3>3, <4>1
      <4> QED BY <3>3, <4>2
    <3>4. CASE priority[u] # p
      BY <2>3, <3>1, <3>2, <3>4
    <3> QED BY <3>3, <3>4
  <2>6. QueuedOnce'
    <3> SUFFICES ASSUME NEW r \in Priority,
                        NEW i \in 1 .. Len(ready'[r]), NEW j \in 1 .. Len(ready'[r]),
                        ready'[r][i] = ready'[r][j], ready'[r][i] # Bogus
                 PROVE  i = j
      BY DEF QueuedOnce
    <3>1. CASE r = p
      <4>1. i + 1 \in 1 .. Len(q[p]) /\ j + 1 \in 1 .. Len(q[p])
        BY <1>1, <2>3, <3>1
      <4>2. q[p][i + 1] = q[p][j + 1] /\ q[p][i + 1] # Bogus
        BY <2>3, <3>1
      <4> QED BY <4>1, <4>2 DEF Holds
    <3>2. CASE r # p
      BY <2>3, <3>2 DEF Holds
    <3> QED BY <3>1, <3>2
  <2>7. MostUrgentRuns'
    <3>1. \A r \in Priority : ready'[r] # <<>> => p <= r
      <4> SUFFICES ASSUME NEW r \in Priority, ready'[r] # <<>> PROVE p <= r
        OBVIOUS
      <4>1. CASE r = p
        BY <4>1, KernelAssumption DEF Priority
      <4>2. CASE r # p
        BY <2>3, <4>2 DEF Levels
      <4> QED BY <4>1, <4>2
    <3> QED BY <2>1, <2>2, <3>1 DEF MostUrgentRuns, Levels
  <2> QED
    BY <2>1, <2>2, <2>4, <2>5, <2>6, <2>7 DEF ReadyQueuesExact
<1> QED BY <1>2, <1>3

-----------------------------------------------------------------------------
(* The part of IInv that the handlers keep together.                       *)

Core ==
  /\ ReadyQueuesExact
  /\ SendQueuesExact
  /\ WaitersExact
  /\ DescriptorsExact
  /\ ActiveNotFree
  /\ MostUrgentRuns
  /\ KernelConsistent

\* A failed assertion, a call that only reads, an interrupt that is taken.
LEMMA QuietKeeps ==
  ASSUME TypeOK, Core,
         UNCHANGED <<state, priority, sendQueue, sendTo, allocationQueue, ready,
                     eventTable, txEnabled, cts, activeTask>>,
         \/ mode' \in {"halted", "limit", "misuse", "undefined"}
         \/ mode' = "sched" /\ mode \in {"user", "irq"}
         \/ mode' = "irq" /\ mode \in {"user", "irq"}
  PROVE  Core'
<1>1. ReadyQueuesExact' /\ SendQueuesExact' /\ WaitersExact' /\ DescriptorsExact'
  BY SameReady, SameSending, SameWaiters, SameDescriptors DEF Core
<1>2. ActiveNotFree' /\ MostUrgentRuns' /\ KernelConsistent'
  BY DEF Core, ActiveNotFree, MostUrgentRuns, KernelConsistent
<1> QED BY <1>1, <1>2 DEF Core

LEMMA FailKeeps ==
  ASSUME TypeOK, Core, NEW f \in {"limit", "misuse", "undefined"}, Fail(f)
  PROVE  Core'
BY QuietKeeps DEF Fail, descriptorVars, memoryVars, ipcVars, eventVars

\* While a task runs it waits for nothing and is in no queue.
LEMMA ActiveIsFree ==
  ASSUME TypeOK, Core, mode = "user"
  PROVE  /\ activeTask \in Task
         /\ state[activeTask] = "Ready"
         /\ \A e \in Event : eventTable[e] # activeTask
         /\ \A r \in Task : \A i \in 1 .. Len(sendQueue[r]) : sendQueue[r][i] # activeTask
         /\ \A i \in 1 .. Len(allocationQueue) : allocationQueue[i] # activeTask
<1>1. activeTask \in Task /\ state[activeTask] = "Ready"
  BY DEF TypeOK, Core, MostUrgentRuns
<1>2. \A e \in Event : eventTable[e] # activeTask
  BY <1>1, BogusIsNoTask DEF Core, WaitersExact
<1>3. \A r \in Task : \A i \in 1 .. Len(sendQueue[r]) : sendQueue[r][i] # activeTask
  BY <1>1 DEF Core, SendQueuesExact, QueuedAreSending
<1>4. \A i \in 1 .. Len(allocationQueue) : allocationQueue[i] # activeTask
  BY DEF Core, ActiveNotFree
<1> QED BY <1>1, <1>2, <1>3, <1>4

\* The active task stops: it exits, waits for a message or waits for an event.
LEMMA StopKeeps ==
  ASSUME TypeOK, Core, mode = "user",
         NEW s \in {"Zombie", "SendBlocked", "EventBlocked"},
         state' = [state EXCEPT ![activeTask] = s],
         s = "SendBlocked" => sendQueue[activeTask] = <<>>,
         UNCHANGED <<priority, sendQueue, sendTo, allocationQueue, ready, activeTask>>,
         mode' = "sched"
  PROVE  /\ ReadyQueuesExact' /\ SendQueuesExact' /\ DescriptorsExact'
         /\ ActiveNotFree' /\ MostUrgentRuns' /\ KernelConsistent'
         /\ \A t \in Task : state[t] = "EventBlocked" => state'[t] = "EventBlocked"
<1>1. activeTask \in Task /\ state[activeTask] = "Ready"
  BY ActiveIsFree
<1>2. \A t \in Task : t # activeTask => state'[t] = state[t]
  BY <1>1 DEF TypeOK
<1>3. state'[activeTask] = s
  BY <1>1 DEF TypeOK
<1>4. ReadyQueuesExact'
  BY <1>2, SameReady DEF Core
<1>5. SendQueuesExact'
  BY <1>1, <1>2, <1>3, SameSending DEF Core
<1>6. DescriptorsExact'
  BY <1>1, <1>2, <1>3, SameDescriptors DEF Core
<1>7. ActiveNotFree' /\ MostUrgentRuns' /\ KernelConsistent'
  BY DEF Core, ActiveNotFree, MostUrgentRuns, KernelConsistent
<1> QED BY <1>1, <1>2, <1>3, <1>4, <1>5, <1>6, <1>7

LEMMA ExitKeeps ==
  ASSUME TypeOK, Core, mode = "user", Exit
  PROVE  Core'
<1> USE DEF Exit, Returns, descriptorVars, ipcVars, eventVars
<1>1. WaitersExact'
  BY StopKeeps, SameWaiters DEF Core
<1> QED BY <1>1, StopKeeps DEF Core

LEMMA AwaitKeeps ==
  ASSUME TypeOK, Core, mode = "user", NEW e \in Event, Await(e)
  PROVE  Core'
<1> USE DEF Await, Returns, descriptorVars, ipcVars
<1>1. \A t \in Task : state[t] = "EventBlocked" => state'[t] = "EventBlocked"
  BY StopKeeps
<1>2. /\ activeTask \in Task
      /\ state'[activeTask] = "EventBlocked"
      /\ \A f \in Event : eventTable[f] # activeTask
  BY ActiveIsFree DEF TypeOK
<1>3. eventTable'[e] \in {activeTask, NoTask}
  BY DEF TypeOK, WaiterValue
<1>4. \A f \in Event \ {e} : eventTable'[f] = eventTable[f]
  BY DEF TypeOK
<1>5. WaitersExact'
  <2> SUFFICES ASSUME NEW f \in Event, eventTable'[f] # NoTask
               PROVE  /\ state'[eventTable'[f]] = "EventBlocked"
                      /\ f \in WriteEvents => f \in txEnabled' \/ (f \in CtsEvents /\ ~cts')
                      /\ \A g \in Event : eventTable'[f] = eventTable'[g] => f = g
    BY DEF WaitersExact
  <2>1. CASE f = e
    BY <1>2, <1>3, <1>4, <2>1
  <2>2. CASE f # e
    <3>1. eventTable[f] \in Task /\ eventTable'[f] = eventTable[f]
      BY <1>4, <2>2 DEF TypeOK
    <3> QED
      BY <1>1, <1>2, <1>3, <1>4, <2>2, <3>1 DEF Core, WaitersExact
  <2> QED BY <2>1, <2>2
<1> QED BY <1>5, StopKeeps DEF Core

\* A new task takes a descriptor nobody uses.
LEMMA CreateKeeps ==
  ASSUME TypeOK, Core, mode = "user", NEW p, Create(p)
  PROVE  Core'
<1> USE DEF Returns, descriptorVars, ipcVars, eventVars
<1>1. CASE Fail("limit")
  BY <1>1, FailKeeps
<1>2. CASE HasRoom(ready, p) /\ allocationQueue = <<>> /\ ~Fail("limit")
  <2>1. /\ ready' = Push(ready, p, Bogus)
        /\ Returns
        /\ UNCHANGED <<state, descriptorVars, memoryVars, ipcVars, eventVars,
                       systemRunning>>
    BY <1>2 DEF Create
  <2>2. p \in Priority /\ ready \in ReadyQueues
    BY <1>2 DEF HasRoom, TypeOK, ReadyQueues
  <2>3. /\ Len(ready'[p]) = Len(ready[p]) + 1 /\ Len(ready[p]) \in Nat
        /\ ready'[p][Len(ready[p]) + 1] = Bogus
        /\ \A i \in 1 .. Len(ready[p]) : ready'[p][i] = ready[p][i]
        /\ \A r \in Priority \ {p} : ready'[r] = ready[r]
    BY <2>1, <2>2, PushFacts DEF ReadyQueues
  <2>4. \A r \in Priority : \A i \in 1 .. Len(ready'[r]) :
          ready'[r][i] # Bogus => i \in 1 .. Len(ready[r]) /\ ready'[r][i] = ready[r][i]
    <3> SUFFICES ASSUME NEW r \in Priority, NEW i \in 1 .. Len(ready'[r]), ready'[r][i] # Bogus
                 PROVE  i \in 1 .. Len(ready[r]) /\ ready'[r][i] = ready[r][i]
      OBVIOUS
    <3>1. CASE r = p
      BY <2>3, <3>1
    <3>2. CASE r # p
      BY <2>3, <3>2
    <3> QED BY <3>1, <3>2
  <2>5. QueuedAreReady'
    BY <2>1, <2>4 DEF Core, ReadyQueuesExact, QueuedAreReady
  <2>6. ReadyAreQueued'
    <3> SUFFICES ASSUME NEW u \in Task \ {activeTask}, state[u] = "Ready"
                 PROVE  \E i \in 1 .. Len(ready'[priority[u]]) : ready'[priority[u]][i] = u
      BY <2>1 DEF ReadyAreQueued
    <3>1. PICK i \in 1 .. Len(ready[priority[u]]) : ready[priority[u]][i] = u
      BY DEF Core, ReadyQueuesExact, ReadyAreQueued
    <3>2. priority[u] \in Priority
      BY DEF TypeOK
    <3> QED BY <2>2, <2>3, <3>1, <3>2
  <2>7. QueuedOnce'
    BY <2>4 DEF Core, ReadyQueuesExact, QueuedOnce
  <2>8. SendQueuesExact' /\ WaitersExact' /\ DescriptorsExact'
    BY <2>1, SameSending, SameWaiters, SameDescriptors DEF Core
  <2>9. ActiveNotFree' /\ MostUrgentRuns' /\ KernelConsistent'
    BY <2>1 DEF Core, ActiveNotFree, MostUrgentRuns, KernelConsistent
  <2> QED BY <2>5, <2>6, <2>7, <2>8, <2>9 DEF Core, ReadyQueuesExact
<1>3. CASE HasRoom(ready, p) /\ allocationQueue # <<>> /\ ~Fail("limit")
  <2> DEFINE t == Head(allocationQueue)
  <2>1. /\ state' = [state EXCEPT ![t] = "Ready"]
        /\ priority' = [priority EXCEPT ![t] = p]
        /\ sendQueue' = [sendQueue EXCEPT ![t] = <<>>]
        /\ ready' = Push(ready, p, t)
        /\ allocationQueue' = Tail(allocationQueue)
        /\ Returns
        /\ UNCHANGED <<sendTo, eventVars>>
    BY <1>3 DEF Create, OtherDescriptors
  <2>2. /\ p \in Priority
        /\ Len(allocationQueue) \in Nat /\ Len(allocationQueue) >= 1
        /\ t = allocationQueue[1] /\ t \in Task
        /\ \A i \in 1 .. Len(allocationQueue) : allocationQueue[i] \in Task
    BY <1>3 DEF HasRoom, TypeOK
  <2> HIDE DEF t
  <2>3. t # activeTask /\ state[t] = "Zombie"
    BY <2>2 DEF Core, ActiveNotFree, DescriptorsExact
  <2>4. /\ state'[t] = "Ready" /\ priority'[t] = p /\ sendQueue'[t] = <<>>
        /\ \A u \in Task \ {t} : /\ state'[u] = state[u]
                                 /\ priority'[u] = priority[u]
                                 /\ sendQueue'[u] = sendQueue[u]
    BY <2>1, <2>2 DEF TypeOK
  <2>5. ReadyQueuesExact'
    <3>1. \A u \in Task \ {t, activeTask} : state[u] = "Ready" <=> state'[u] = "Ready"
      BY <2>4
    <3> QED BY <2>1, <2>2, <2>3, <2>4, <3>1, PushedExact DEF Core
  <2>6. QueuedAreSending'
    <3> SUFFICES ASSUME NEW r \in Task, NEW i \in 1 .. Len(sendQueue'[r])
                 PROVE  /\ state'[sendQueue'[r][i]] = "ReceiveBlocked"
                        /\ sendTo'[sendQueue'[r][i]].id = r
                        /\ \A j \in 1 .. Len(sendQueue'[r]) :
                             sendQueue'[r][i] = sendQueue'[r][j] => i = j
      BY DEF QueuedAreSending
    <3>1. r # t /\ sendQueue'[r] = sendQueue[r]
      BY <2>4
    <3>2. sendQueue[r][i] \in Task /\ state[sendQueue[r][i]] = "ReceiveBlocked"
      BY <3>1 DEF TypeOK, Core, SendQueuesExact, QueuedAreSending
    <3> QED
      BY <2>1, <2>3, <2>4, <3>1, <3>2 DEF Core, SendQueuesExact, QueuedAreSending
  <2>7. WaitingAreDrained' /\ SendersAddressed'
    BY <2>1, <2>4 DEF Core, SendQueuesExact, WaitingAreDrained, SendersAddressed
  <2>8. WaitersExact'
    BY <2>1, <2>3, <2>4, SameWaiters DEF Core
  <2>9. /\ Len(allocationQueue') = Len(allocationQueue) - 1
        /\ \A i \in 1 .. Len(allocationQueue') :
             i + 1 \in 1 .. Len(allocationQueue) /\ allocationQueue'[i] = allocationQueue[i + 1]
    BY <1>3, <2>1, <2>2 DEF TypeOK
  <2>10. \A i \in 1 .. Len(allocationQueue') :
           /\ allocationQueue'[i] # t
           /\ \A j \in 1 .. Len(allocationQueue') :
                allocationQueue'[i] = allocationQueue'[j] => i = j
    <3> SUFFICES ASSUME NEW i \in 1 .. Len(allocationQueue')
                 PROVE  /\ allocationQueue'[i] # t
                        /\ \A j \in 1 .. Len(allocationQueue') :
                             allocationQueue'[i] = allocationQueue'[j] => i = j
      OBVIOUS
    <3>1. \A k, l \in 1 .. Len(allocationQueue) :
            allocationQueue[k] = allocationQueue[l] => k = l
      BY DEF Core, DescriptorsExact
    <3>2. 1 \in 1 .. Len(allocationQueue)
      BY <2>2
    <3>3. i + 1 \in 1 .. Len(allocationQueue) /\ i \in Nat
          /\ allocationQueue'[i] = allocationQueue[i + 1]
      BY <2>9
    <3>4. allocationQueue'[i] # t
      <4>1. allocationQueue[i + 1] = allocationQueue[1] => i + 1 = 1
        BY <3>1, <3>2, <3>3
      <4> QED BY <2>2, <3>3, <4>1
    <3>5. ASSUME NEW j \in 1 .. Len(allocationQueue'), allocationQueue'[i] = allocationQueue'[j]
          PROVE  i = j
      <4>1. j + 1 \in 1 .. Len(allocationQueue) /\ j \in Nat
            /\ allocationQueue'[j] = allocationQueue[j + 1]
        BY <2>9
      <4>2. i + 1 = j + 1
        BY <3>1, <3>3, <3>5, <4>1
      <4> QED BY <3>3, <4>1, <4>2
    <3> QED BY <3>4, <3>5
  <2>11. DescriptorsExact'
    <3>1. \A i \in 1 .. Len(allocationQueue') : state'[allocationQueue'[i]] = "Zombie"
      BY <2>2, <2>4, <2>9, <2>10 DEF Core, DescriptorsExact
    <3>2. ASSUME NEW u \in Task \ {activeTask}, state'[u] = "Zombie"
          PROVE  \E i \in 1 .. Len(allocationQueue') : allocationQueue'[i] = u
      <4>1. u # t /\ state[u] = "Zombie"
        BY <2>4, <3>2
      <4>2. PICK i \in 1 .. Len(allocationQueue) : allocationQueue[i] = u
        BY <4>1 DEF Core, DescriptorsExact
      <4>3. i # 1
        BY <2>2, <4>1, <4>2
      <4>4. i - 1 \in 1 .. Len(allocationQueue') /\ allocationQueue'[i - 1] = u
        BY <2>2, <2>9, <4>2, <4>3
      <4> QED BY <4>4
    <3> QED BY <2>1, <2>10, <3>1, <3>2 DEF DescriptorsExact
  <2>12. ActiveNotFree' /\ MostUrgentRuns' /\ KernelConsistent'
    BY <2>1, <2>9 DEF Core, ActiveNotFree, MostUrgentRuns, KernelConsistent
  <2> QED
    BY <2>5, <2>6, <2>7, <2>8, <2>11, <2>12 DEF Core, SendQueuesExact
<1> QED BY <1>1, <1>2, <1>3 DEF Create

\* The receiver waits, so the sender is handed over; or the sender queues up.
LEMMA SendKeeps ==
  ASSUME TypeOK, Core, mode = "user", NEW to \in TaskID, Send(to)
  PROVE  Core'
<1> USE DEF Returns, descriptorVars, ipcVars, eventVars
<1> DEFINE r == to.id
           s == activeTask
<1>1. /\ r \in Task /\ s \in Task /\ state[s] = "Ready"
      /\ \A q \in Task : \A i \in 1 .. Len(sendQueue[q]) :
           sendQueue[q][i] # s /\ sendQueue[q][i] \in Task
  <2>1. r \in Task
    BY DEF TaskID
  <2>2. \A q \in Task : \A i \in 1 .. Len(sendQueue[q]) : sendQueue[q][i] \in Task
    BY DEF TypeOK
  <2> QED BY <2>1, <2>2, ActiveIsFree
<1>2. to # NoTaskID
  BY BogusIsNoTask, <1>1 DEF NoTaskID
<1> HIDE DEF r
<1>3. CASE \E f \in {"limit", "undefined"} : Fail(f)
  BY <1>3, FailKeeps
<1>4. CASE /\ state[r] = "SendBlocked"
           /\ state' = [state EXCEPT ![s] = "ReplyBlocked", ![r] = "Ready"]
           /\ ready' = Push(ready, priority[r], r)
           /\ sendTo' = [sendTo EXCEPT ![s] = to]
           /\ Returns
           /\ UNCHANGED <<descriptorVars, memoryVars, sendQueue, eventVars,
                          systemRunning>>
  <2>1. r # s
    BY <1>1, <1>4
  <2>2. /\ state'[s] = "ReplyBlocked" /\ state'[r] = "Ready"
        /\ \A u \in Task \ {r, s} : state'[u] = state[u]
        /\ sendTo'[s] = to
        /\ \A u \in Task \ {s} : sendTo'[u] = sendTo[u]
    BY <1>1, <1>4, <2>1 DEF TypeOK
  <2>3. ReadyQueuesExact'
    <3>1. \A u \in Task \ {r, activeTask} : state[u] = "Ready" <=> state'[u] = "Ready"
      BY <2>2
    <3>2. priority[r] \in Priority /\ r \in Task \ {activeTask}
      BY <1>1, <2>1 DEF TypeOK
    <3> QED BY <1>4, <2>2, <3>1, <3>2, PushedExact DEF Core
  <2>4. QueuedAreSending'
    <3> SUFFICES ASSUME NEW q \in Task, NEW i \in 1 .. Len(sendQueue[q])
                 PROVE  /\ state'[sendQueue[q][i]] = "ReceiveBlocked"
                        /\ sendTo'[sendQueue[q][i]].id = q
                        /\ \A j \in 1 .. Len(sendQueue[q]) :
                             sendQueue[q][i] = sendQueue[q][j] => i = j
      <4>1. sendQueue' = sendQueue
        BY <1>4
      <4> QED BY <4>1 DEF QueuedAreSending
    <3>1. /\ sendQueue[q][i] \in Task \ {s}
          /\ state[sendQueue[q][i]] = "ReceiveBlocked"
          /\ sendTo[sendQueue[q][i]].id = q
          /\ \A j \in 1 .. Len(sendQueue[q]) : sendQueue[q][i] = sendQueue[q][j] => i = j
      BY <1>1 DEF Core, SendQueuesExact, QueuedAreSending
    <3>2. sendQueue[q][i] # r
      BY <1>4, <3>1
    <3> QED BY <2>2, <3>1, <3>2
  <2>5. WaitingAreDrained' /\ SendersAddressed'
    BY <1>2, <1>4, <2>2 DEF Core, SendQueuesExact, WaitingAreDrained, SendersAddressed
  <2>6. WaitersExact'
    BY <1>1, <1>4, <2>2, SameWaiters DEF Core
  <2>7. DescriptorsExact'
    BY <1>1, <1>4, <2>2, SameDescriptors DEF Core
  <2>8. ActiveNotFree' /\ MostUrgentRuns' /\ KernelConsistent'
    BY <1>4 DEF Core, ActiveNotFree, MostUrgentRuns, KernelConsistent
  <2> QED
    BY <2>3, <2>4, <2>5, <2>6, <2>7, <2>8 DEF Core, SendQueuesExact
<1>5. CASE /\ state[r] # "SendBlocked"
           /\ sendQueue' = [sendQueue EXCEPT ![r] = Append(@, s)]
           /\ state' = [state EXCEPT ![s] = "ReceiveBlocked"]
           /\ sendTo' = [sendTo EXCEPT ![s] = to]
           /\ Returns
           /\ UNCHANGED <<descriptorVars, memoryVars, ready, eventVars,
                          systemRunning>>
  <2>1. /\ state'[s] = "ReceiveBlocked"
        /\ \A u \in Task \ {s} : state'[u] = state[u]
        /\ sendTo'[s] = to
        /\ \A u \in Task \ {s} : sendTo'[u] = sendTo[u]
    BY <1>1, <1>5 DEF TypeOK
  <2>2. /\ \A q \in Task \ {r} : sendQueue'[q] = sendQueue[q]
        /\ Len(sendQueue'[r]) = Len(sendQueue[r]) + 1 /\ Len(sendQueue[r]) \in Nat
        /\ sendQueue'[r][Len(sendQueue[r]) + 1] = s
        /\ \A i \in 1 .. Len(sendQueue[r]) : sendQueue'[r][i] = sendQueue[r][i]
    BY <1>1, <1>5 DEF TypeOK
  <2>3. ReadyQueuesExact'
    BY <1>5, <2>1, SameReady DEF Core
  <2>4. QueuedAreSending'
    <3> SUFFICES ASSUME NEW q \in Task, NEW i \in 1 .. Len(sendQueue'[q])
                 PROVE  /\ state'[sendQueue'[q][i]] = "ReceiveBlocked"
                        /\ sendTo'[sendQueue'[q][i]].id = q
                        /\ \A j \in 1 .. Len(sendQueue'[q]) :
                             sendQueue'[q][i] = sendQueue'[q][j] => i = j
      BY DEF QueuedAreSending
    <3>1. \A k \in 1 .. Len(sendQueue[q]) :
            /\ sendQueue[q][k] \in Task \ {s}
            /\ state[sendQueue[q][k]] = "ReceiveBlocked"
            /\ sendTo[sendQueue[q][k]].id = q
            /\ \A j \in 1 .. Len(sendQueue[q]) : sendQueue[q][k] = sendQueue[q][j] => k = j
      BY <1>1 DEF Core, SendQueuesExact, QueuedAreSending
    <3>2. CASE q # r
      BY <2>1, <2>2, <3>1, <3>2
    <3>3. CASE q = r /\ i = Len(sendQueue[r]) + 1
      <4>1. to.id = r
        BY DEF r
      <4>2. \A j \in 1 .. Len(sendQueue[r]) : sendQueue'[r][j] # s
        BY <2>2, <3>1, <3>3
      <4> QED BY <2>1, <2>2, <3>3, <4>1, <4>2
    <3>4. CASE q = r /\ i # Len(sendQueue[r]) + 1
      <4>1. i \in 1 .. Len(sendQueue[r]) /\ sendQueue'[r][i] = sendQueue[r][i]
        BY <2>2, <3>4
      <4> QED BY <2>1, <2>2, <3>1, <3>4, <4>1
    <3> QED BY <3>2, <3>3, <3>4
  <2>5. WaitingAreDrained' /\ SendersAddressed'
    BY <1>1, <1>2, <1>5, <2>1, <2>2
       DEF Core, SendQueuesExact, WaitingAreDrained, SendersAddressed
  <2>6. WaitersExact'
    BY <1>1, <1>5, <2>1, SameWaiters DEF Core
  <2>7. DescriptorsExact'
    BY <1>1, <1>5, <2>1, SameDescriptors DEF Core
  <2>8. ActiveNotFree' /\ MostUrgentRuns' /\ KernelConsistent'
    BY <1>5 DEF Core, ActiveNotFree, MostUrgentRuns, KernelConsistent
  <2> QED
    BY <2>3, <2>4, <2>5, <2>6, <2>7, <2>8 DEF Core, SendQueuesExact
<1> QED BY <1>3, <1>4, <1>5 DEF Send, r

\* The receiver takes its oldest sender, who is blocked in Send on it.
LEMMA ReceiveKeeps ==
  ASSUME TypeOK, Core, mode = "user", Receive
  PROVE  Core'
<1> USE DEF Returns, descriptorVars, ipcVars, eventVars
<1> DEFINE r == activeTask
           s == FirstSender(r)
<1>1. r \in Task /\ state[r] = "Ready"
  BY ActiveIsFree
<1>2. CASE sendQueue[r] = <<>>
  <2>1. /\ state' = [state EXCEPT ![activeTask] = "SendBlocked"]
        /\ UNCHANGED <<priority, sendQueue, sendTo, allocationQueue, ready, activeTask,
                       eventTable, txEnabled, cts>>
        /\ mode' = "sched"
    BY <1>2 DEF Receive
  <2>2. WaitersExact'
    BY <1>2, <2>1, StopKeeps, SameWaiters DEF Core
  <2> QED BY <1>2, <2>1, <2>2, StopKeeps DEF Core
<1>3. CASE sendQueue[r] # <<>>
  <2>1. /\ Len(sendQueue[r]) \in Nat /\ Len(sendQueue[r]) >= 1
        /\ s = sendQueue[r][1]
        /\ \A q \in Task : \A i \in 1 .. Len(sendQueue[q]) : sendQueue[q][i] \in Task
    BY <1>1, <1>3 DEF TypeOK, FirstSender
  <2> HIDE DEF s
  <2>2. \A q \in Task : \A i \in 1 .. Len(sendQueue[q]) :
          /\ state[sendQueue[q][i]] = "ReceiveBlocked"
          /\ sendTo[sendQueue[q][i]].id = q
          /\ \A j \in 1 .. Len(sendQueue[q]) : sendQueue[q][i] = sendQueue[q][j] => i = j
    BY DEF Core, SendQueuesExact, QueuedAreSending
  <2>3. s \in Task /\ state[s] = "ReceiveBlocked" /\ sendTo[s].id = r
    BY <1>1, <2>1, <2>2
  <2>4. /\ sendQueue' = [sendQueue EXCEPT ![r] = Tail(sendQueue[r])]
        /\ state' = [state EXCEPT ![s] = "ReplyBlocked"]
        /\ UNCHANGED <<priority, sendTo, allocationQueue, ready, activeTask,
                       eventTable, txEnabled, cts>>
        /\ mode' = "sched"
    BY <1>3, <2>3 DEF Receive, OtherSenders, s
  <2>5. /\ state'[s] = "ReplyBlocked"
        /\ \A u \in Task \ {s} : state'[u] = state[u]
        /\ \A q \in Task \ {r} : sendQueue'[q] = sendQueue[q]
        /\ Len(sendQueue'[r]) = Len(sendQueue[r]) - 1
        /\ \A i \in 1 .. Len(sendQueue'[r]) : sendQueue'[r][i] = sendQueue[r][i + 1]
    BY <1>1, <1>3, <2>3, <2>4 DEF TypeOK
  <2>6. ReadyQueuesExact'
    BY <2>3, <2>4, <2>5, SameReady DEF Core
  <2>7. QueuedAreSending'
    <3> SUFFICES ASSUME NEW q \in Task, NEW i \in 1 .. Len(sendQueue'[q])
                 PROVE  /\ state'[sendQueue'[q][i]] = "ReceiveBlocked"
                        /\ sendTo[sendQueue'[q][i]].id = q
                        /\ \A j \in 1 .. Len(sendQueue'[q]) :
                             sendQueue'[q][i] = sendQueue'[q][j] => i = j
      BY <2>4 DEF QueuedAreSending
    <3>1. CASE q = r
      <4>1. 1 \in 1 .. Len(sendQueue[r]) /\ i + 1 \in 1 .. Len(sendQueue[r]) /\ i + 1 # 1
        BY <2>1, <2>5, <3>1
      <4>2. sendQueue'[r][i] = sendQueue[r][i + 1] /\ sendQueue[r][i + 1] \in Task \ {s}
        BY <1>1, <2>1, <2>2, <2>5, <3>1, <4>1
      <4>3. ASSUME NEW j \in 1 .. Len(sendQueue'[r]), sendQueue'[r][i] = sendQueue'[r][j]
            PROVE  i = j
        <5>1. j + 1 \in 1 .. Len(sendQueue[r]) /\ sendQueue'[r][j] = sendQueue[r][j + 1]
          BY <2>1, <2>5
        <5>2. sendQueue[r][i + 1] = sendQueue[r][j + 1]
          BY <4>2, <4>3, <5>1
        <5>3. i + 1 = j + 1
          BY <1>1, <2>2, <4>1, <5>1, <5>2
        <5> QED BY <2>1, <2>5, <3>1, <5>3
      <4> QED BY <1>1, <2>2, <2>5, <3>1, <4>1, <4>2, <4>3
    <3>2. CASE q # r
      <4>1. sendQueue[q][i] \in Task \ {s}
        BY <2>1, <2>2, <2>3, <2>5, <3>2
      <4> QED BY <2>2, <2>5, <3>2, <4>1
    <3> QED BY <3>1, <3>2
  <2>8. WaitingAreDrained' /\ SendersAddressed'
    BY <1>1, <2>3, <2>4, <2>5 DEF Core, SendQueuesExact, WaitingAreDrained, SendersAddressed
  <2>9. WaitersExact'
    BY <2>3, <2>4, <2>5, SameWaiters DEF Core
  <2>10. DescriptorsExact'
    BY <2>3, <2>4, <2>5, SameDescriptors DEF Core
  <2>11. ActiveNotFree' /\ MostUrgentRuns' /\ KernelConsistent'
    BY <2>4 DEF Core, ActiveNotFree, MostUrgentRuns, KernelConsistent
  <2> QED
    BY <2>6, <2>7, <2>8, <2>9, <2>10, <2>11 DEF Core, SendQueuesExact
<1> QED BY <1>2, <1>3

LEMMA ReplyKeeps ==
  ASSUME TypeOK, Core, mode = "user", NEW s \in Task, Reply(s)
  PROVE  Core'
<1> USE DEF Returns, descriptorVars, ipcVars, eventVars
<1>1. CASE \E f \in {"limit", "misuse"} : Fail(f)
  BY <1>1, FailKeeps
<1>2. CASE /\ state[s] = "ReplyBlocked"
           /\ state' = [state EXCEPT ![s] = "Ready"]
           /\ ready' = Push(ready, priority[s], s)
           /\ sendTo' = [sendTo EXCEPT ![s] = NoTaskID]
           /\ Returns
           /\ UNCHANGED <<descriptorVars, memoryVars, sendQueue, eventVars,
                          systemRunning>>
  <2>1. /\ state'[s] = "Ready"
        /\ \A u \in Task \ {s} : state'[u] = state[u] /\ sendTo'[u] = sendTo[u]
        /\ s # activeTask
        /\ priority[s] \in Priority
    BY <1>2, ActiveIsFree DEF TypeOK
  <2>2. ReadyQueuesExact'
    <3>1. \A u \in Task \ {s, activeTask} : state[u] = "Ready" <=> state'[u] = "Ready"
      BY <2>1
    <3> QED BY <1>2, <2>1, <3>1, PushedExact DEF Core
  <2>3. QueuedAreSending'
    <3> SUFFICES ASSUME NEW q \in Task, NEW i \in 1 .. Len(sendQueue[q])
                 PROVE  /\ state'[sendQueue[q][i]] = "ReceiveBlocked"
                        /\ sendTo'[sendQueue[q][i]].id = q
                        /\ \A j \in 1 .. Len(sendQueue[q]) :
                             sendQueue[q][i] = sendQueue[q][j] => i = j
      <4>1. sendQueue' = sendQueue
        BY <1>2
      <4> QED BY <4>1 DEF QueuedAreSending
    <3>1. /\ state[sendQueue[q][i]] = "ReceiveBlocked"
          /\ sendTo[sendQueue[q][i]].id = q
          /\ \A j \in 1 .. Len(sendQueue[q]) : sendQueue[q][i] = sendQueue[q][j] => i = j
      BY DEF Core, SendQueuesExact, QueuedAreSending
    <3>2. sendQueue[q][i] \in Task \ {s}
      BY <1>2, <3>1 DEF TypeOK
    <3> QED BY <2>1, <3>1, <3>2
  <2>4. WaitingAreDrained' /\ SendersAddressed'
    BY <1>2, <2>1 DEF Core, SendQueuesExact, WaitingAreDrained, SendersAddressed
  <2>5. WaitersExact'
    BY <1>2, <2>1, SameWaiters DEF Core
  <2>6. DescriptorsExact'
    BY <1>2, <2>1, SameDescriptors DEF Core
  <2>7. ActiveNotFree' /\ MostUrgentRuns' /\ KernelConsistent'
    BY <1>2 DEF Core, ActiveNotFree, MostUrgentRuns, KernelConsistent
  <2> QED
    BY <2>2, <2>3, <2>4, <2>5, <2>6, <2>7 DEF Core, SendQueuesExact
<1> QED BY <1>1, <1>2 DEF Reply

-----------------------------------------------------------------------------
(* Interrupts and the scheduler.                                           *)

\* A modem status interrupt may turn the transmit interrupt of the trains off, but only
\* when their line is not clear to send.
LEMMA InterruptKeeps ==
  ASSUME TypeOK, Core, Interrupt
  PROVE  Core'
<1>1. UNCHANGED <<state, priority, sendQueue, sendTo, allocationQueue, ready, eventTable,
                  activeTask>>
  BY DEF Interrupt, descriptorVars, ipcVars
<1>2. mode = "user" /\ mode' \in {"sched", "irq"}
  BY DEF Interrupt
<1>3. WaitersExact'
  <2>1. CASE UNCHANGED <<txEnabled, cts>>
    BY <1>1, <2>1, SameWaiters DEF Core
  <2>2. CASE ModemStatus
    BY <1>1, <2>2 DEF Core, WaitersExact, ModemStatus
  <2> QED BY <2>1, <2>2 DEF Interrupt
<1>4. ReadyQueuesExact' /\ SendQueuesExact' /\ DescriptorsExact'
  BY <1>1, SameReady, SameSending, SameDescriptors DEF Core
<1>5. ActiveNotFree' /\ MostUrgentRuns' /\ KernelConsistent'
  BY <1>1, <1>2 DEF Core, ActiveNotFree, MostUrgentRuns, KernelConsistent
<1> QED BY <1>3, <1>4, <1>5 DEF Core

\* An interrupt wakes the task that waits for it, and nobody else.
LEMMA ServeIrqKeeps ==
  ASSUME TypeOK, Core, ServeIrq
  PROVE  Core'
<1> USE DEF descriptorVars, ipcVars, eventVars
<1>0. PICK e \in irqs :
        LET t == eventTable[e]
        IN  \/ Fail("limit") /\ UNCHANGED idlePc
            \/ /\ t # NoTask
               /\ state' = [state EXCEPT ![t] = "Ready"]
               /\ ready' = Push(ready, priority[t], t)
               /\ eventTable' = AfterWake(e)
               /\ txEnabled' = txEnabled \ {e}
               /\ cts' = (cts /\ e \notin CtsEvents)
               /\ irqs' = irqs \ {e}
               /\ mode' = IF irqs' = {} THEN "sched" ELSE "irq"
               /\ UNCHANGED <<descriptorVars, memoryVars, ipcVars, systemRunning,
                              activeTask, idlePc>>
            \/ /\ ~Wakes(e)
               /\ txEnabled' = txEnabled \ {e}
               /\ irqs' = irqs \ {e}
               /\ mode' = IF irqs' = {} THEN "sched" ELSE "irq"
               /\ UNCHANGED <<state, ready, eventTable, cts, descriptorVars, memoryVars,
                              ipcVars, systemRunning, activeTask, idlePc>>
  BY DEF ServeIrq, Wakes
<1> DEFINE t == eventTable[e]
<1>1. e \in Event /\ mode = "irq" /\ activeTask \in Task /\ state[activeTask] = "Ready"
  BY DEF TypeOK, ServeIrq, Core, MostUrgentRuns
<1>2. CASE Fail("limit")
  BY <1>2, FailKeeps
<1>3. CASE /\ t # NoTask
           /\ state' = [state EXCEPT ![t] = "Ready"]
           /\ ready' = Push(ready, priority[t], t)
           /\ eventTable' = AfterWake(e)
           /\ txEnabled' = txEnabled \ {e}
           /\ cts' = (cts /\ e \notin CtsEvents)
           /\ irqs' = irqs \ {e}
           /\ mode' = IF irqs' = {} THEN "sched" ELSE "irq"
           /\ UNCHANGED <<descriptorVars, memoryVars, ipcVars, systemRunning,
                          activeTask, idlePc>>
  <2>1. t \in Task
    BY <1>1, <1>3 DEF TypeOK
  <2>2. state[t] = "EventBlocked" /\ t # activeTask /\ priority[t] \in Priority
    BY <1>1, <1>3, <2>1 DEF Core, WaitersExact, TypeOK
  <2> HIDE DEF t
  <2>3. /\ state'[t] = "Ready"
        /\ \A u \in Task \ {t} : state'[u] = state[u]
        /\ eventTable'[e] = NoTask
        /\ \A f \in Event \ {e} : eventTable'[f] = eventTable[f]
    BY <1>1, <1>3, <2>1 DEF TypeOK, AfterWake
  <2>4. ReadyQueuesExact'
    <3>1. \A u \in Task \ {t, activeTask} : state[u] = "Ready" <=> state'[u] = "Ready"
      BY <2>3
    <3> QED BY <1>3, <2>1, <2>2, <2>3, <3>1, PushedExact DEF Core
  <2>5. SendQueuesExact'
    BY <1>3, <2>1, <2>2, <2>3, SameSending DEF Core
  <2>6. WaitersExact'
    <3> SUFFICES ASSUME NEW f \in Event, eventTable'[f] # NoTask
                 PROVE  /\ state'[eventTable'[f]] = "EventBlocked"
                        /\ f \in WriteEvents => f \in txEnabled' \/ (f \in CtsEvents /\ ~cts')
                        /\ \A g \in Event : eventTable'[f] = eventTable'[g] => f = g
      BY DEF WaitersExact
    <3>1. f # e /\ eventTable'[f] = eventTable[f] /\ eventTable[f] \in Task
      BY <2>3 DEF TypeOK
    <3>2. /\ state[eventTable[f]] = "EventBlocked"
          /\ f \in WriteEvents => f \in txEnabled \/ (f \in CtsEvents /\ ~cts)
          /\ \A g \in Event : eventTable[f] = eventTable[g] => f = g
      BY <3>1 DEF Core, WaitersExact
    <3>3. eventTable[f] # t
      BY <1>1, <3>1, <3>2 DEF t
    <3> QED BY <1>3, <2>3, <3>1, <3>2, <3>3
  <2>7. DescriptorsExact'
    BY <1>3, <2>2, <2>3, SameDescriptors DEF Core
  <2>8. state'[activeTask'] = "Ready"
    BY <1>1, <1>3, <2>2, <2>3
  <2>9. ActiveNotFree' /\ MostUrgentRuns' /\ KernelConsistent'
    BY <1>1, <1>3, <2>8 DEF Core, ActiveNotFree, MostUrgentRuns, KernelConsistent
  <2> QED BY <2>4, <2>5, <2>6, <2>7, <2>9 DEF Core
<1>4. CASE /\ ~Wakes(e)
           /\ txEnabled' = txEnabled \ {e}
           /\ irqs' = irqs \ {e}
           /\ mode' = IF irqs' = {} THEN "sched" ELSE "irq"
           /\ UNCHANGED <<state, ready, eventTable, cts, descriptorVars, memoryVars,
                          ipcVars, systemRunning, activeTask, idlePc>>
  <2>1. ReadyQueuesExact' /\ SendQueuesExact' /\ DescriptorsExact'
    BY <1>4, SameReady, SameSending, SameDescriptors DEF Core
  <2>2. WaitersExact'
    BY <1>4 DEF Core, WaitersExact, Wakes
  <2>3. ActiveNotFree' /\ MostUrgentRuns' /\ KernelConsistent'
    BY <1>1, <1>4 DEF Core, ActiveNotFree, MostUrgentRuns, KernelConsistent
  <2> QED BY <2>1, <2>2, <2>3 DEF Core
<1> QED BY <1>0, <1>2, <1>3, <1>4

\* The active task yields: it joins the ready queues before the pop.
LEMMA YieldKeeps ==
  ASSUME TypeOK, Core, Yield
  PROVE  Core'
<1> USE DEF descriptorVars, ipcVars, eventVars
<1> DEFINE t == activeTask
           p == priority[t]
           q == Push(ready, p, t)
           h == Highest(ready)
<1>1. /\ t \in Task /\ p \in Priority /\ ready \in ReadyQueues /\ state[t] = "Ready"
      /\ mode = "sched" /\ t # Bogus
      /\ UNCHANGED <<state, priority, sendQueue, sendTo, allocationQueue, eventTable, txEnabled, cts>>
  BY BogusIsNoTask DEF TypeOK, ReadyQueues, Yield
<1>2. SendQueuesExact' /\ WaitersExact'
  BY <1>1, SameSending, SameWaiters DEF Core
<1>3. CASE mode' = "limit" /\ UNCHANGED <<ready, activeTask>>
  BY <1>1, <1>3, QuietKeeps
<1>4. CASE RunsOn(t) /\ mode' = "user" /\ UNCHANGED <<ready, activeTask>>
  <2>1. ReadyQueuesExact' /\ DescriptorsExact'
    BY <1>1, <1>4, SameReady, SameDescriptors DEF Core
  <2>2. MostUrgentRuns'
    <3>1. Levels(ready)' = Levels(ready)
      BY <1>4 DEF Levels
    <3>2. \A l \in Levels(ready) : priority[t] <= l
      BY <1>1, <1>4, KernelAssumption DEF RunsOn, MoreUrgent, Levels, Priority
    <3> QED BY <1>1, <1>4, <3>1, <3>2 DEF MostUrgentRuns
  <2>3. ActiveNotFree' /\ KernelConsistent'
    BY <1>1, <1>4 DEF Core, ActiveNotFree, KernelConsistent
  <2> QED BY <1>2, <2>1, <2>2, <2>3 DEF Core
<1>5. CASE ~RunsOn(t) /\ Dispatch(q, h)
  <2>1. /\ q \in ReadyQueues
        /\ Len(q[p]) = Len(ready[p]) + 1 /\ Len(ready[p]) \in Nat
        /\ q[p][Len(ready[p]) + 1] = t
        /\ \A i \in 1 .. Len(ready[p]) : q[p][i] = ready[p][i]
        /\ \A r \in Priority \ {p} : q[r] = ready[r]
        /\ \A r \in Priority : ready[r] # <<>> => q[r] # <<>>
    BY <1>1, PushFacts, PushType DEF ReadyQueues
  <2>2. PICK l \in Levels(ready) : ~(p < l)
    BY <1>5 DEF RunsOn, MoreUrgent
  <2>3. h \in Levels(ready) /\ \A r \in Levels(ready) : h <= r
    BY <2>2, HighestIsLeast
  <2> HIDE DEF p, q, h
  <2>4. /\ h \in Priority /\ q[h] # <<>> /\ h <= p
    BY <1>1, <2>1, <2>2, <2>3, KernelAssumption DEF Levels, Priority
  <2>5. \A r \in Levels(q) : h <= r
    <3> SUFFICES ASSUME NEW r \in Levels(q) PROVE h <= r
      OBVIOUS
    <3>1. CASE r = p
      BY <2>4, <3>1
    <3>2. CASE r # p
      BY <2>1, <2>3, <3>2 DEF Levels
    <3> QED BY <3>1, <3>2
  <2>6. Holds(q)
    <3>1. \A r \in Priority : \A i \in 1 .. Len(ready[r]) :
            /\ ready[r][i] # t
            /\ ready[r][i] # Bogus => state[ready[r][i]] = "Ready" /\ priority[ready[r][i]] = r
      BY <1>1 DEF Core, ReadyQueuesExact, QueuedAreReady
    <3>2. ASSUME NEW r \in Priority, NEW i \in 1 .. Len(q[r]), q[r][i] # Bogus
          PROVE  state[q[r][i]] = "Ready" /\ priority[q[r][i]] = r
      <4>1. CASE r = p /\ i = Len(ready[p]) + 1
        BY <1>1, <2>1, <4>1 DEF p
      <4>2. CASE ~(r = p /\ i = Len(ready[p]) + 1)
        <5>1. i \in 1 .. Len(ready[r]) /\ q[r][i] = ready[r][i]
          BY <2>1, <4>2
        <5> QED BY <3>1, <3>2, <5>1
      <4> QED BY <4>1, <4>2
    <3>3. ASSUME NEW u \in Task, state[u] = "Ready"
          PROVE  \E i \in 1 .. Len(q[priority[u]]) : q[priority[u]][i] = u
      <4>1. CASE u = t
        BY <2>1, <4>1 DEF p
      <4>2. CASE u # t
        <5>1. PICK i \in 1 .. Len(ready[priority[u]]) : ready[priority[u]][i] = u
          BY <3>3, <4>2 DEF Core, ReadyQueuesExact, ReadyAreQueued
        <5>2. priority[u] \in Priority
          BY DEF TypeOK
        <5> QED BY <2>1, <5>1, <5>2
      <4> QED BY <4>1, <4>2
    <3>4. ASSUME NEW r \in Priority, NEW i \in 1 .. Len(q[r]), NEW j \in 1 .. Len(q[r]),
                 q[r][i] = q[r][j], q[r][i] # Bogus
          PROVE  i = j
      <4>1. CASE r # p
        BY <2>1, <3>4, <4>1 DEF Core, ReadyQueuesExact, QueuedOnce
      <4>2. CASE r = p
        <5>1. \A k \in 1 .. Len(ready[p]) : q[p][k] # t
          <6>1. p \in Priority
            BY <1>1
          <6>2. \A k \in 1 .. Len(ready[p]) : ready[p][k] # t
            BY <3>1, <6>1
          <6>3. \A k \in 1 .. Len(ready[p]) : q[p][k] = ready[p][k]
            BY <2>1
          <6> QED BY <6>2, <6>3
        <5>2. CASE i = Len(ready[p]) + 1 \/ j = Len(ready[p]) + 1
          BY <2>1, <3>4, <4>2, <5>1, <5>2
        <5>3. CASE i # Len(ready[p]) + 1 /\ j # Len(ready[p]) + 1
          <6>1. i \in 1 .. Len(ready[p]) /\ j \in 1 .. Len(ready[p])
            BY <2>1, <4>2, <5>3
          <6> QED
            BY <1>1, <2>1, <3>4, <4>2, <6>1 DEF Core, ReadyQueuesExact, QueuedOnce
        <5> QED BY <5>2, <5>3
      <4> QED BY <4>1, <4>2
    <3> QED BY <3>2, <3>3, <3>4 DEF Holds
  <2>7. CASE mode' = "undefined" /\ UNCHANGED <<ready, activeTask>>
    BY <1>1, <2>7, QuietKeeps
  <2>8. CASE /\ mode' = "user"
             /\ ReadyQueuesExact'
             /\ MostUrgentRuns'
             /\ state'[activeTask'] = "Ready"
    <3>1. \A i \in 1 .. Len(allocationQueue) :
            allocationQueue[i] \in Task /\ state[allocationQueue[i]] = "Zombie"
      BY DEF TypeOK, Core, DescriptorsExact
    <3>2. DescriptorsExact'
      BY <1>1 DEF Core, DescriptorsExact
    <3>3. ActiveNotFree' /\ KernelConsistent'
      BY <1>1, <2>8, <3>1 DEF ActiveNotFree, KernelConsistent
    <3> QED BY <1>2, <2>8, <3>2, <3>3 DEF Core
  <2> QED
    BY <1>1, <1>5, <2>1, <2>4, <2>5, <2>6, <2>7, <2>8, PoppedExact
<1> QED BY <1>3, <1>4, <1>5 DEF Yield

\* The active task cannot run on, so another one is popped; there is one while the
\* system runs.
LEMMA SwitchKeeps ==
  ASSUME TypeOK, Core, IdleAlive, mode = "sched", systemRunning # 2,
         state[activeTask] # "Ready", Switch,
         UNCHANGED <<state, priority, sendQueue, sendTo, eventTable, txEnabled, cts>>
  PROVE  /\ ReadyQueuesExact' /\ SendQueuesExact' /\ WaitersExact' /\ MostUrgentRuns'
         /\ \/ mode' = "user" /\ state'[activeTask'] = "Ready"
            \/ mode' \in {"halted", "undefined"} /\ UNCHANGED activeTask
<1>1. SendQueuesExact' /\ WaitersExact'
  BY SameSending, SameWaiters DEF Core
<1>2. CASE /\ mode' \in {"halted", "undefined"}
           /\ UNCHANGED <<ready, activeTask>>
  BY <1>1, <1>2, SameReady DEF Core, MostUrgentRuns
<1>3. Holds(ready)
  <2>1. \A t \in Task : state[t] = "Ready" => t \in Task \ {activeTask}
    OBVIOUS
  <2> QED
    BY <2>1 DEF Core, ReadyQueuesExact, QueuedAreReady, ReadyAreQueued, QueuedOnce, Holds
<1>4. CASE Levels(ready) = {}
  <2>1. systemRunning = 0
    <3> SUFFICES ASSUME systemRunning = 1 PROVE FALSE
      BY DEF TypeOK
    <3>1. Idle \in Task
      BY KernelAssumption DEF Idle, Task
    <3>2. state[Idle] = "Ready" /\ Idle # activeTask
      BY DEF IdleAlive
    <3>3. PICK i \in 1 .. Len(ready[priority[Idle]]) : ready[priority[Idle]][i] = Idle
      BY <3>1, <3>2 DEF Core, ReadyQueuesExact, ReadyAreQueued
    <3>4. priority[Idle] \in Priority /\ ready[priority[Idle]] # <<>>
      BY <3>1, <3>3 DEF TypeOK
    <3> QED BY <1>4, <3>4 DEF Levels
  <2> QED BY <1>2, <1>4, <2>1 DEF Switch
<1>5. CASE Levels(ready) # {}
  <2>1. /\ Dispatch(ready, Highest(ready))
        /\ ready \in ReadyQueues
    BY <1>5 DEF Switch, TypeOK, ReadyQueues
  <2>2. /\ Highest(ready) \in Priority
        /\ ready[Highest(ready)] # <<>>
        /\ \A r \in Levels(ready) : Highest(ready) <= r
    BY <1>5, HighestIsLeast DEF Levels
  <2> QED BY <1>1, <1>2, <1>3, <2>1, <2>2, PoppedExact
<1> QED BY <1>4, <1>5

LEMMA BlockKeeps ==
  ASSUME TypeOK, Core, IdleAlive, Block
  PROVE  Core'
<1> USE DEF descriptorVars, ipcVars, eventVars
<1>1. /\ ReadyQueuesExact' /\ SendQueuesExact' /\ WaitersExact' /\ MostUrgentRuns'
      /\ \/ mode' = "user" /\ state'[activeTask'] = "Ready"
         \/ mode' \in {"halted", "undefined"} /\ UNCHANGED activeTask
  BY SwitchKeeps DEF Block
<1>2. DescriptorsExact'
  BY DEF Block, Core, DescriptorsExact
<1>3. \A i \in 1 .. Len(allocationQueue) :
        allocationQueue[i] \in Task /\ state[allocationQueue[i]] = "Zombie"
  BY DEF TypeOK, Core, DescriptorsExact
<1>4. ActiveNotFree' /\ KernelConsistent'
  BY <1>1, <1>3 DEF Block, ActiveNotFree, KernelConsistent
<1> QED BY <1>1, <1>2, <1>4 DEF Core

\* The allocation queue never holds every descriptor while the active task is not
\* reaped.
LEMMA RoomToReap ==
  ASSUME TypeOK, DescriptorsExact, ActiveNotFree, mode = "sched"
  PROVE  Len(allocationQueue) < TASK_COUNT
<1> DEFINE n == Len(allocationQueue)
           Others == Task \ {activeTask}
<1>1. n \in Nat /\ TASK_COUNT \in Nat \ {0} /\ activeTask \in Task
  BY KernelAssumption DEF TypeOK
<1>2. allocationQueue \in Injection(1 .. n, Others)
  <2>1. allocationQueue \in [1 .. n -> Task]
    BY DEF TypeOK
  <2>2. \A i \in 1 .. n : allocationQueue[i] \in Others
    BY <2>1 DEF ActiveNotFree
  <2> QED BY <2>1, <2>2 DEF DescriptorsExact, Injection, IsInjective
<1>3. IsFiniteSet(Task) /\ Cardinality(Task) = TASK_COUNT
  <2>1. 0 \in Int /\ TASK_COUNT - 1 \in Int
    BY <1>1
  <2> QED BY <1>1, <2>1, FS_Interval DEF Task
<1>4. IsFiniteSet(Others) /\ Cardinality(Others) = TASK_COUNT - 1
  BY <1>1, <1>3, FS_RemoveElement
<1> HIDE DEF n
<1>5. IsFiniteSet(1 .. n) /\ Cardinality(1 .. n) = n
  <2>1. 1 \in Int /\ n \in Int
    BY <1>1
  <2>2. Cardinality(1 .. n) = IF 1 > n THEN 0 ELSE n - 1 + 1
    BY <2>1, FS_Interval
  <2> QED BY <1>1, <2>1, <2>2, FS_Interval
<1>6. Cardinality(1 .. n) <= Cardinality(Others)
  BY <1>2, <1>4, FS_Injection DEF ExistsInjection
<1> QED BY <1>1, <1>4, <1>5, <1>6 DEF n

LEMMA ReapKeeps ==
  ASSUME TypeOK, Core, IdleAlive, BlocksConserved, Reap
  PROVE  Core'
<1> USE DEF descriptorVars, ipcVars, eventVars
<1>1. freeBlocks # MEMORY_BLOCK_COUNT
  <2>1. Len(allocationQueue) < TASK_COUNT /\ Len(allocationQueue) \in Nat
    BY RoomToReap DEF Core, Reap, TypeOK
  <2> QED BY <2>1, KernelAssumption DEF BlocksConserved, TypeOK
<1>2. /\ mode = "sched" /\ systemRunning # 2
      /\ state[activeTask] = "Zombie"
      /\ allocationQueue' = Append(allocationQueue, activeTask)
      /\ Switch
      /\ UNCHANGED <<state, priority, sendQueue, sendTo, eventTable, txEnabled, cts>>
  BY <1>1 DEF Reap
<1>3. /\ ReadyQueuesExact' /\ SendQueuesExact' /\ WaitersExact' /\ MostUrgentRuns'
      /\ \/ mode' = "user" /\ state'[activeTask'] = "Ready"
         \/ mode' \in {"halted", "undefined"} /\ UNCHANGED activeTask
  BY <1>2, SwitchKeeps
<1> DEFINE n == Len(allocationQueue)
<1>4. /\ n \in Nat /\ Len(allocationQueue') = n + 1
      /\ allocationQueue'[n + 1] = activeTask
      /\ \A i \in 1 .. n : /\ allocationQueue'[i] = allocationQueue[i]
                           /\ allocationQueue[i] \in Task
                           /\ allocationQueue[i] # activeTask
                           /\ state[allocationQueue[i]] = "Zombie"
  BY <1>2 DEF TypeOK, Core, ActiveNotFree, DescriptorsExact
<1> HIDE DEF n
<1>5. \A i \in 1 .. n + 1 :
        allocationQueue'[i] \in Task /\ state[allocationQueue'[i]] = "Zombie"
  BY <1>2, <1>4 DEF TypeOK
<1>6. \A i, j \in 1 .. n + 1 : allocationQueue'[i] = allocationQueue'[j] => i = j
  <2> SUFFICES ASSUME NEW i \in 1 .. n + 1, NEW j \in 1 .. n + 1,
                      allocationQueue'[i] = allocationQueue'[j]
               PROVE  i = j
    OBVIOUS
  <2>1. CASE i = n + 1 \/ j = n + 1
    BY <1>4, <2>1
  <2>2. CASE i # n + 1 /\ j # n + 1
    <3>1. i \in 1 .. n /\ j \in 1 .. n
      BY <1>4, <2>2
    <3> QED BY <1>4, <3>1 DEF Core, DescriptorsExact, n
  <2> QED BY <2>1, <2>2
<1>7. \A t \in Task : state[t] = "Zombie" =>
        \E i \in 1 .. n + 1 : allocationQueue'[i] = t
  <2> SUFFICES ASSUME NEW t \in Task, state[t] = "Zombie"
               PROVE  \E i \in 1 .. n + 1 : allocationQueue'[i] = t
    OBVIOUS
  <2>1. CASE t = activeTask
    BY <1>4, <2>1
  <2>2. CASE t # activeTask
    <3>1. PICK i \in 1 .. n : allocationQueue[i] = t
      BY <2>2 DEF Core, DescriptorsExact, n
    <3> QED BY <1>4, <3>1
  <2> QED BY <2>1, <2>2
<1>8. DescriptorsExact'
  BY <1>2, <1>4, <1>5, <1>6, <1>7 DEF DescriptorsExact
<1>9. ActiveNotFree' /\ KernelConsistent'
  BY <1>2, <1>3, <1>4, <1>5 DEF ActiveNotFree, KernelConsistent
<1> QED BY <1>3, <1>8, <1>9 DEF Core

-----------------------------------------------------------------------------
(* The idle task.                                                          *)

\* A call of one task leaves another Ready task alone.
LEMMA OthersStayReady ==
  ASSUME TypeOK, Core, mode = "user", NEW t \in Task, t # activeTask, state[t] = "Ready",
         UserCall
  PROVE  state'[t] = "Ready" /\ priority'[t] = priority[t]
<1> USE DEF descriptorVars
<1>1. ASSUME NEW f, Fail(f) PROVE state'[t] = "Ready" /\ priority'[t] = priority[t]
  BY <1>1 DEF Fail
<1>2. ASSUME NEW p, Create(p), ~Fail("limit")
      PROVE  state'[t] = "Ready" /\ priority'[t] = priority[t]
  <2>1. CASE allocationQueue = <<>>
    BY <1>2, <2>1 DEF Create
  <2>2. CASE allocationQueue # <<>>
    <3> DEFINE u == Head(allocationQueue)
    <3>1. u \in Task /\ state[u] = "Zombie"
      <4>1. u = allocationQueue[1] /\ Len(allocationQueue) >= 1 /\ Len(allocationQueue) \in Nat
        BY <2>2 DEF TypeOK
      <4>2. allocationQueue[1] \in Task
        BY <4>1 DEF TypeOK
      <4> QED BY <4>1, <4>2 DEF Core, DescriptorsExact
    <3>2. state' = [state EXCEPT ![u] = "Ready"] /\ priority' = [priority EXCEPT ![u] = p]
      BY <1>2, <2>2 DEF Create
    <3> QED BY <3>1, <3>2 DEF TypeOK
  <2> QED BY <2>1, <2>2
<1>3. ASSUME NEW to \in TaskID, Send(to), ~\E f \in Failures : Fail(f)
      PROVE  state'[t] = "Ready" /\ priority'[t] = priority[t]
  <2>1. UNCHANGED priority
    BY <1>3 DEF Send, Failures
  <2>2. \/ state' = [state EXCEPT ![activeTask] = "ReplyBlocked", ![to.id] = "Ready"]
        \/ state' = [state EXCEPT ![activeTask] = "ReceiveBlocked"]
    BY <1>3 DEF Send, Failures
  <2> QED BY <2>1, <2>2 DEF TypeOK
<1>4. ASSUME Receive, ~Fail("broken")
      PROVE  state'[t] = "Ready" /\ priority'[t] = priority[t]
  <2>1. UNCHANGED priority
    BY <1>4 DEF Receive
  <2>2. \/ state' = [state EXCEPT ![activeTask] = "SendBlocked"]
        \/ /\ state' = [state EXCEPT ![FirstSender(activeTask)] = "ReplyBlocked"]
           /\ state[FirstSender(activeTask)] = "ReceiveBlocked"
    BY <1>4 DEF Receive
  <2> QED BY <2>1, <2>2 DEF TypeOK
<1>5. ASSUME NEW s \in Task, Reply(s), ~\E f \in Failures : Fail(f)
      PROVE  state'[t] = "Ready" /\ priority'[t] = priority[t]
  BY <1>5 DEF Reply, Failures, TypeOK
<1>6. ASSUME \/ Exit \/ Pass \/ Alloc \/ Free
             \/ \E value \in {0, 2} : SetRunning(value)
             \/ \E e \in Event : Await(e)
      PROVE  state'[t] = "Ready" /\ priority'[t] = priority[t]
  BY <1>6 DEF Exit, Pass, Alloc, Free, SetRunning, Await, TypeOK
<1> QED
  BY <1>1, <1>2, <1>3, <1>4, <1>5, <1>6 DEF UserCall, KnownTaskIDs

LEMMA NextIdle ==
  ASSUME TypeOK, Core, IdleAlive, [Next]_vars
  PROVE  IdleAlive'
<1> USE DEF descriptorVars
<1>0. Idle \in Task
  BY KernelAssumption DEF Idle, Task
<1>1. ASSUME NEW f, Fail(f) PROVE UNCHANGED <<state, priority, systemRunning>>
  BY <1>1 DEF Fail
<1>2. CASE UserCall
  <2>1. UNCHANGED idlePc /\ mode = "user"
    BY <1>2 DEF UserCall
  <2>2. systemRunning' \in {systemRunning, 0, 2}
    BY <1>1, <1>2 DEF UserCall, Exit, Pass, SetRunning, Create, Send, Receive, Reply,
                      Await, Alloc, Free
  <2>3. idlePc # "done" => activeTask # Idle
    BY <1>2 DEF UserCall
  <2>4. idlePc # "done" => state'[Idle] = "Ready" /\ priority'[Idle] = priority[Idle]
    BY <1>0, <1>2, <2>1, <2>3, OthersStayReady DEF IdleAlive
  <2> QED BY <2>1, <2>2, <2>4, SameIdle
<1>3. CASE IdleCall
  <2>1. CASE idlePc = "create" /\ Create(INITIAL_PRIORITY) /\ idlePc' = "test"
    <3>1. UNCHANGED systemRunning
      BY <1>1, <2>1 DEF Create
    <3>2. CASE UNCHANGED <<state, priority>>
      BY <2>1, <3>1, <3>2 DEF IdleAlive
    <3>3. CASE ~UNCHANGED <<state, priority>>
      <4> DEFINE u == Head(allocationQueue)
      <4>1. /\ allocationQueue # <<>>
            /\ state' = [state EXCEPT ![u] = "Ready"]
            /\ priority' = [priority EXCEPT ![u] = INITIAL_PRIORITY]
        BY <1>1, <2>1, <3>3 DEF Create
      <4>2. u = allocationQueue[1] /\ Len(allocationQueue) >= 1 /\ Len(allocationQueue) \in Nat
        BY <4>1 DEF TypeOK
      <4>3. u # Idle
        BY <2>1, <4>2 DEF IdleAlive, Core, DescriptorsExact
      <4> QED BY <1>0, <2>1, <3>1, <4>1, <4>3 DEF IdleAlive, TypeOK
    <3> QED BY <3>2, <3>3
  <2>2. CASE idlePc \in {"test", "pass"} /\ Pass
    BY <1>3, <2>2 DEF IdleCall, Pass, IdleAlive
  <2>3. CASE idlePc = "exit" /\ Exit /\ idlePc' = "done"
    BY <2>3 DEF Exit, IdleAlive
  <2> QED BY <1>3, <2>1, <2>2, <2>3 DEF IdleCall
<1>4. CASE ServeIrq
  <2>1. UNCHANGED <<idlePc, priority, systemRunning>>
    BY <1>1, <1>4 DEF ServeIrq
  <2>2. UNCHANGED state \/ \E t \in Task \cup {NoTask} : state' = [state EXCEPT ![t] = "Ready"]
    BY <1>1, <1>4 DEF ServeIrq, TypeOK
  <2>3. state[Idle] = "Ready" => state'[Idle] = "Ready"
    BY <1>0, <2>2 DEF TypeOK
  <2> QED BY <2>1, <2>3, SameIdle
<1>5. CASE Interrupt \/ Scheduler \/ UNCHANGED vars
  <2>1. UNCHANGED <<idlePc, state, priority, systemRunning>>
    BY <1>1, <1>5 DEF Interrupt, Scheduler, Kill, Yield, Block, Reap, vars
  <2> QED BY <2>1, SameIdle
<1> QED BY <1>2, <1>3, <1>4, <1>5 DEF Next, Stopped

-----------------------------------------------------------------------------
LEMMA InitIInv == Init => IInv
<1> SUFFICES ASSUME Init PROVE IInv
  OBVIOUS
<1>1. TypeOK /\ BlocksConserved
  BY InitType, InitBlocks
<1>2. /\ TASK_COUNT \in Nat \ {0} /\ PRIORITY_COUNT \in Nat \ {0}
      /\ Idle \in Task /\ activeTask = Idle /\ mode = "user"
      /\ state = [t \in Task |-> IF t = Idle THEN "Ready" ELSE "Zombie"]
      /\ \A t \in Task : sendQueue[t] = <<>>
      /\ \A p \in Priority : ready[p] = <<>>
      /\ \A e \in Event : eventTable[e] = NoTask
  BY KernelAssumption DEF Init, Idle, Task
<1>3. ReadyQueuesExact
  BY <1>2 DEF ReadyQueuesExact, QueuedAreReady, ReadyAreQueued, QueuedOnce
<1>4. SendQueuesExact
  BY <1>2 DEF SendQueuesExact, QueuedAreSending, WaitingAreDrained, SendersAddressed
<1>5. WaitersExact
  BY <1>2 DEF WaitersExact
<1>6. /\ Len(allocationQueue) = TASK_COUNT - 1
      /\ \A i \in 1 .. TASK_COUNT - 1 : allocationQueue[i] = i
  BY <1>2 DEF Init, InitialDescriptors
<1>7. DescriptorsExact
  <2>1. \A t \in Task \ {Idle} : t \in 1 .. TASK_COUNT - 1
    BY <1>2 DEF Task, Idle
  <2>2. \A i \in 1 .. TASK_COUNT - 1 : i \in Task \ {Idle}
    BY <1>2 DEF Task, Idle
  <2> QED BY <1>2, <1>6, <2>1, <2>2 DEF DescriptorsExact
<1>8. ActiveNotFree
  BY <1>2, <1>6 DEF ActiveNotFree, Idle
<1>9. MostUrgentRuns
  BY <1>2 DEF MostUrgentRuns, Levels
<1>10. IdleAlive
  BY <1>2 DEF IdleAlive, Init
<1>11. KernelConsistent
  BY <1>2 DEF KernelConsistent
<1> QED
  BY <1>1, <1>3, <1>4, <1>5, <1>7, <1>8, <1>9, <1>10, <1>11 DEF IInv

LEMMA NextCore ==
  ASSUME TypeOK, Core, IdleAlive, BlocksConserved, [Next]_vars
  PROVE  Core'
<1> USE DEF descriptorVars, memoryVars, ipcVars, eventVars
<1>1. ASSUME mode = "user", Pass \/ Alloc \/ Free \/ \E v \in {0, 2} : SetRunning(v)
      PROVE  Core'
  BY <1>1, QuietKeeps DEF Pass, Alloc, Free, SetRunning, Returns
<1>2. CASE IdleCall
  BY <1>1, <1>2, CreateKeeps, ExitKeeps DEF IdleCall
<1>3. CASE UserCall
  <2>1. mode = "user"
    BY <1>3 DEF UserCall
  <2> QED
    BY <1>1, <1>3, <2>1, ExitKeeps, CreateKeeps, SendKeeps, ReceiveKeeps, ReplyKeeps,
       AwaitKeeps DEF UserCall, KnownTaskIDs
<1>4. CASE Interrupt
  BY <1>4, InterruptKeeps
<1>5. CASE ServeIrq
  BY <1>5, ServeIrqKeeps
<1>6. CASE Kill
  BY <1>6, QuietKeeps DEF Kill
<1>7. CASE Yield \/ Block \/ Reap
  BY <1>7, YieldKeeps, BlockKeeps, ReapKeeps
<1>8. CASE UNCHANGED vars
  <2>1. UNCHANGED <<state, priority, sendQueue, sendTo, allocationQueue, ready,
                    eventTable, txEnabled, cts, activeTask, mode>>
    BY <1>8 DEF vars
  <2>2. ReadyQueuesExact' /\ SendQueuesExact' /\ WaitersExact' /\ DescriptorsExact'
    BY <2>1, SameReady, SameSending, SameWaiters, SameDescriptors DEF Core
  <2>3. ActiveNotFree' /\ MostUrgentRuns' /\ KernelConsistent'
    BY <2>1 DEF Core, ActiveNotFree, MostUrgentRuns, KernelConsistent, Levels
  <2> QED BY <2>2, <2>3 DEF Core
<1> QED
  BY <1>2, <1>3, <1>4, <1>5, <1>6, <1>7, <1>8 DEF Next, Scheduler, Stopped

LEMMA NextIInv ==
  ASSUME IInv, [Next]_vars
  PROVE  IInv'
<1>1. TypeOK /\ Core /\ IdleAlive /\ BlocksConserved
  BY DEF IInv, Core
<1> QED
  BY <1>1, NextType, NextBlocks, NextIdle, NextCore DEF IInv, Core

THEOREM Inductive == Spec => []IInv
<1>1. Init => IInv
  BY InitIInv
<1>2. IInv /\ [Next]_vars => IInv'
  BY NextIInv
<1> QED
  BY <1>1, <1>2, PTL DEF Spec

\* The ready queues hold exactly the Ready tasks that are not running, once each and at
\* their priority: no handler, interrupt or reschedule loses or doubles a task.
THEOREM ReadyQueuesTheorem == Spec => []ReadyQueuesExact
<1>1. IInv => ReadyQueuesExact
  BY DEF IInv
<1> QED BY <1>1, Inductive, PTL

\* Send queues and task states agree: who is queued is blocked in Send on that receiver,
\* and a task that waits in Receive has left nobody queued (systemCall.c:91-161).
THEOREM SendQueuesTheorem == Spec => []SendQueuesExact
<1>1. IInv => SendQueuesExact
  BY DEF IInv
<1> QED BY <1>1, Inductive, PTL

\* Whom the event table names is blocked on that one event, and a writer's transmit
\* interrupt is enabled (systemCall.c:279-301, event.c:8-157).
THEOREM WaitersTheorem == Spec => []WaitersExact
<1>1. IInv => WaitersExact
  BY DEF IInv
<1> QED BY <1>1, Inductive, PTL

\* A descriptor in use is never handed out again (taskTable.c:26-90).
THEOREM DescriptorsTheorem == Spec => []DescriptorsExact
<1>1. IInv => DescriptorsExact
  BY DEF IInv
<1> QED BY <1>1, Inductive, PTL

\* The task that runs is Ready and no more urgent one waits (scheduler.c:8-59).
THEOREM MostUrgentTheorem == Spec => []MostUrgentRuns
<1>1. IInv => MostUrgentRuns
  BY DEF IInv
<1> QED BY <1>1, Inductive, PTL

\* The idle task stays Ready at the lowest priority until shutdown (IdleTask.c:6-13).
THEOREM IdleTheorem == Spec => []IdleAlive
<1>1. IInv => IdleAlive
  BY DEF IInv
<1> QED BY <1>1, Inductive, PTL

\* None of the kernel's own consistency assertions can fail (systemCall.c:134,
\* scheduler.c:39 and :49, memoryAllocator.c:40).
THEOREM ConsistentTheorem == Spec => []KernelConsistent
<1>1. IInv => KernelConsistent
  BY DEF IInv
<1> QED BY <1>1, Inductive, PTL

-----------------------------------------------------------------------------
(* Message passing implements Rendezvous: the refinement that the messages *)
(* run checks on a small instance.                                         *)

Serving == {<<s, sendTo[s].id>> : s \in {t \in Task : state[t] = "ReplyBlocked"}}

\* What a step leaves alone when it neither queues, takes nor answers a message.
LEMMA SameServing ==
  ASSUME \A t \in Task : state[t] = "ReplyBlocked" <=> state'[t] = "ReplyBlocked",
         \A t \in Task : state[t] = "ReplyBlocked" => sendTo'[t] = sendTo[t]
  PROVE  Serving' = Serving
BY DEF Serving

Silent == UNCHANGED <<sendQueue, Serving>>

LEMMA NobodyServed ==
  ASSUME TypeOK, NEW s \in Task, state[s] # "ReplyBlocked"
  PROVE  \A r : <<s, r>> \notin Serving
BY DEF Serving

\* The handed-over or taken message joins those being served.
LEMMA OneMoreServed ==
  ASSUME TypeOK, NEW s \in Task, state[s] # "ReplyBlocked", state'[s] = "ReplyBlocked",
         \A t \in Task \ {s} : /\ state[t] = "ReplyBlocked" <=> state'[t] = "ReplyBlocked"
                               /\ sendTo'[t] = sendTo[t]
  PROVE  Serving' = Serving \cup {<<s, sendTo'[s].id>>}
BY DEF Serving

\* The answered one leaves them.
LEMMA OneLessServed ==
  ASSUME TypeOK, NEW s \in Task, state[s] = "ReplyBlocked", state'[s] # "ReplyBlocked",
         \A t \in Task \ {s} : /\ state[t] = "ReplyBlocked" <=> state'[t] = "ReplyBlocked"
                               /\ sendTo'[t] = sendTo[t]
  PROVE  Serving' = Serving \ {<<s, sendTo[s].id>>}
BY DEF Serving

\* Rendezvous!Involved
Involved(s) ==
  \/ \E r \in Task : \E i \in 1 .. Len(sendQueue[r]) : sendQueue[r][i] = s
  \/ \E r \in Task : <<s, r>> \in Serving

-----------------------------------------------------------------------------
\* What a step of the kernel is in terms of sendQueue and Serving.
Step ==
  \/ Silent
  \/ \E r \in Task :
       \/ /\ sendQueue[r] # <<>>
          /\ Serving' = Serving \cup {<<Head(sendQueue[r]), r>>}
          /\ sendQueue' = [sendQueue EXCEPT ![r] = Tail(@)]
       \/ /\ sendQueue' = [sendQueue EXCEPT ![r] = <<>>]
          /\ UNCHANGED Serving
       \/ \E s \in Task :
            \/ /\ ~Involved(s)
               /\ sendQueue' = [sendQueue EXCEPT ![r] = Append(@, s)]
               /\ UNCHANGED Serving
            \/ /\ ~Involved(s)
               /\ sendQueue[r] = <<>>
               /\ Serving' = Serving \cup {<<s, r>>}
               /\ UNCHANGED sendQueue
            \/ /\ <<s, r>> \in Serving
               /\ Serving' = Serving \ {<<s, r>>}
               /\ UNCHANGED sendQueue

LEMMA FailStep ==
  ASSUME NEW f, Fail(f)
  PROVE  Silent
BY SameServing DEF Fail, Silent, ipcVars

\* The active task stops without sending, or only the kernel's own state changes.
LEMMA SilentStep ==
  ASSUME IInv, mode = "user",
         \/ Exit \/ Pass \/ Alloc \/ Free
         \/ \E value \in {0, 2} : SetRunning(value)
         \/ \E e \in Event : Await(e)
  PROVE  Silent
<1>1. activeTask \in Task /\ state[activeTask] = "Ready"
  BY ActiveIsFree DEF IInv, Core
<1>2. UNCHANGED <<sendQueue, sendTo>>
  BY DEF Exit, Pass, Alloc, Free, SetRunning, Await, ipcVars
<1>3. \A t \in Task : state[t] = "ReplyBlocked" <=> state'[t] = "ReplyBlocked"
  BY <1>1 DEF Exit, Pass, Alloc, Free, SetRunning, Await, IInv, TypeOK
<1> QED BY <1>2, <1>3, SameServing DEF Silent

LEMMA CreateStep ==
  ASSUME IInv, NEW p, Create(p)
  PROVE  Step
<1>1. CASE Fail("limit")
  BY <1>1, FailStep DEF Step
<1>2. CASE allocationQueue = <<>> /\ ~Fail("limit")
  <2>1. UNCHANGED <<state, sendQueue, sendTo>>
    BY <1>2 DEF Create, ipcVars
  <2> QED BY <2>1, SameServing DEF Step, Silent
<1>3. CASE allocationQueue # <<>> /\ ~Fail("limit")
  <2> DEFINE t == Head(allocationQueue)
  <2>1. t \in Task /\ state[t] = "Zombie"
    <3>1. t = allocationQueue[1] /\ Len(allocationQueue) >= 1 /\ Len(allocationQueue) \in Nat
      BY <1>3 DEF IInv, TypeOK
    <3>2. allocationQueue[1] \in Task
      BY <3>1 DEF IInv, TypeOK
    <3> QED BY <3>1, <3>2 DEF IInv, DescriptorsExact
  <2>2. /\ state' = [state EXCEPT ![t] = "Ready"]
        /\ sendQueue' = [sendQueue EXCEPT ![t] = <<>>]
        /\ UNCHANGED sendTo
    BY <1>3 DEF Create
  <2>3. Serving' = Serving
    BY <2>1, <2>2, SameServing DEF IInv, TypeOK
  <2> QED BY <2>1, <2>2, <2>3 DEF Step
<1> QED BY <1>1, <1>2, <1>3

LEMMA SendStep ==
  ASSUME IInv, mode = "user", NEW to \in TaskID, Send(to)
  PROVE  Step
<1> DEFINE s == activeTask
           r == to.id
<1>1. /\ s \in Task /\ r \in Task /\ state[s] = "Ready"
      /\ ~Involved(s)
  <2>1. /\ s \in Task /\ state[s] = "Ready"
        /\ \A q \in Task : \A i \in 1 .. Len(sendQueue[q]) : sendQueue[q][i] # s
    BY ActiveIsFree DEF IInv, Core
  <2>2. \A q : <<s, q>> \notin Serving
    BY <2>1, NobodyServed DEF IInv
  <2> QED BY <2>1, <2>2 DEF Involved, TaskID
<1>2. CASE \E f \in Failures : Fail(f)
  BY <1>2, FailStep DEF Step
<1>3. CASE /\ state[r] = "SendBlocked"
           /\ state' = [state EXCEPT ![s] = "ReplyBlocked", ![r] = "Ready"]
           /\ sendTo' = [sendTo EXCEPT ![s] = to]
           /\ UNCHANGED sendQueue
  <2>1. /\ state'[s] = "ReplyBlocked" /\ sendTo'[s] = to
        /\ \A t \in Task \ {s} : /\ state[t] = "ReplyBlocked" <=> state'[t] = "ReplyBlocked"
                                 /\ sendTo'[t] = sendTo[t]
    BY <1>1, <1>3 DEF IInv, TypeOK
  <2>2. Serving' = Serving \cup {<<s, r>>}
    BY <1>1, <2>1, OneMoreServed DEF IInv
  <2>3. sendQueue[r] = <<>>
    BY <1>1, <1>3 DEF IInv, SendQueuesExact, WaitingAreDrained
  <2> QED BY <1>1, <1>3, <2>2, <2>3 DEF Step
<1>4. CASE /\ sendQueue' = [sendQueue EXCEPT ![r] = Append(@, s)]
           /\ state' = [state EXCEPT ![s] = "ReceiveBlocked"]
           /\ sendTo' = [sendTo EXCEPT ![s] = to]
  <2>1. \A t \in Task : /\ state[t] = "ReplyBlocked" <=> state'[t] = "ReplyBlocked"
                        /\ state[t] = "ReplyBlocked" => sendTo'[t] = sendTo[t]
    BY <1>1, <1>4 DEF IInv, TypeOK
  <2>2. Serving' = Serving
    BY <2>1, SameServing
  <2> QED BY <1>1, <1>4, <2>2 DEF Step
<1> QED BY <1>2, <1>3, <1>4 DEF Send, Failures

LEMMA ReceiveStep ==
  ASSUME IInv, mode = "user", Receive
  PROVE  Step
<1> DEFINE r == activeTask
           s == FirstSender(r)
<1>1. r \in Task /\ state[r] = "Ready"
  BY ActiveIsFree DEF IInv, Core
<1>2. CASE sendQueue[r] = <<>>
  <2>1. state' = [state EXCEPT ![r] = "SendBlocked"] /\ UNCHANGED <<sendQueue, sendTo>>
    BY <1>2 DEF Receive, ipcVars
  <2>2. Serving' = Serving
    BY <1>1, <2>1, SameServing DEF IInv, TypeOK
  <2> QED BY <2>1, <2>2 DEF Step, Silent
<1>3. CASE sendQueue[r] # <<>>
  <2>1. s = sendQueue[r][1] /\ 1 \in 1 .. Len(sendQueue[r]) /\ s \in Task
    BY <1>1, <1>3 DEF IInv, TypeOK, FirstSender
  <2>2. state[s] = "ReceiveBlocked" /\ sendTo[s].id = r
    BY <1>1, <2>1 DEF IInv, SendQueuesExact, QueuedAreSending
  <2>3. /\ sendQueue' = [sendQueue EXCEPT ![r] = Tail(sendQueue[r])]
        /\ state' = [state EXCEPT ![s] = "ReplyBlocked"]
        /\ UNCHANGED sendTo
    BY <1>3, <2>2 DEF Receive, OtherSenders
  <2>4. Serving' = Serving \cup {<<s, r>>}
    <3>1. /\ state'[s] = "ReplyBlocked" /\ sendTo'[s].id = r
          /\ \A t \in Task \ {s} : /\ state[t] = "ReplyBlocked" <=> state'[t] = "ReplyBlocked"
                                   /\ sendTo'[t] = sendTo[t]
      BY <2>1, <2>2, <2>3 DEF IInv, TypeOK
    <3> QED BY <2>1, <2>2, <3>1, OneMoreServed DEF IInv
  <2>5. s = Head(sendQueue[r])
    BY DEF FirstSender
  <2> HIDE DEF s
  <2> QED BY <1>1, <1>3, <2>3, <2>4, <2>5 DEF Step
<1> QED BY <1>2, <1>3

LEMMA ReplyStep ==
  ASSUME IInv, NEW s \in Task, Reply(s)
  PROVE  Step
<1>1. CASE \E f \in Failures : Fail(f)
  BY <1>1, FailStep DEF Step
<1>2. CASE /\ state[s] = "ReplyBlocked"
           /\ state' = [state EXCEPT ![s] = "Ready"]
           /\ sendTo' = [sendTo EXCEPT ![s] = NoTaskID]
           /\ UNCHANGED sendQueue
  <2> DEFINE r == sendTo[s].id
  <2>1. r \in Task
    BY <1>2 DEF IInv, TypeOK, SendQueuesExact, SendersAddressed, TaskID
  <2>2. <<s, r>> \in Serving
    BY <1>2 DEF Serving
  <2>3. Serving' = Serving \ {<<s, r>>}
    <3>1. /\ state'[s] # "ReplyBlocked"
          /\ \A t \in Task \ {s} : /\ state[t] = "ReplyBlocked" <=> state'[t] = "ReplyBlocked"
                                   /\ sendTo'[t] = sendTo[t]
      BY <1>2 DEF IInv, TypeOK
    <3> QED BY <1>2, <3>1, OneLessServed DEF IInv
  <2> QED BY <1>2, <2>1, <2>2, <2>3 DEF Step
<1> QED BY <1>1, <1>2 DEF Reply, Failures

LEMMA ServeIrqStep ==
  ASSUME IInv, ServeIrq
  PROVE  Silent
<1>1. UNCHANGED <<sendQueue, sendTo>>
  BY FailStep DEF ServeIrq, Fail, ipcVars
<1>2. UNCHANGED state \/ \E e \in Event : /\ eventTable[e] # NoTask
                                          /\ state' = [state EXCEPT ![eventTable[e]] = "Ready"]
  BY DEF ServeIrq, Wakes, Fail, IInv, TypeOK
<1>3. \A e \in Event : eventTable[e] # NoTask =>
        eventTable[e] \in Task /\ state[eventTable[e]] = "EventBlocked"
  BY DEF IInv, TypeOK, WaitersExact
<1>4. \A t \in Task : state[t] = "ReplyBlocked" <=> state'[t] = "ReplyBlocked"
  BY <1>2, <1>3 DEF IInv, TypeOK
<1> QED BY <1>1, <1>4, SameServing DEF Silent

LEMMA NextStep ==
  ASSUME IInv, [Next]_vars
  PROVE  Step
<1>1. CASE IdleCall
  BY <1>1, CreateStep, SilentStep DEF IdleCall, Step
<1>2. CASE UserCall
  BY <1>2, CreateStep, SilentStep, SendStep, ReceiveStep, ReplyStep
     DEF UserCall, KnownTaskIDs, Step
<1>3. CASE ServeIrq
  BY <1>3, ServeIrqStep DEF Step
<1>4. CASE Interrupt \/ Scheduler \/ UNCHANGED vars
  <2>1. UNCHANGED <<state, sendQueue, sendTo>>
    BY <1>4 DEF Interrupt, Scheduler, Kill, Yield, Block, Reap, Fail, vars, ipcVars
  <2> QED BY <2>1, SameServing DEF Step, Silent
<1> QED BY <1>1, <1>2, <1>3, <1>4 DEF Next, Stopped

\* A queued message is not forgotten, except by recycling its receiver's descriptor
\* (systemCall.c:91-144, taskTable.c:59).
THEOREM ForgetsTheorem == Spec => OnlyRecyclingForgets
<1> DEFINE A == \A r \in Task : \A i \in 1 .. Len(sendQueue[r]) :
                  LET s == sendQueue[r][i]
                  IN  \/ \E j \in 1 .. Len(sendQueue'[r]) : sendQueue'[r][j] = s
                      \/ state'[s] = "ReplyBlocked"
                      \/ state[r] = "Zombie" /\ state'[r] = "Ready"
<1>1. IInv /\ [Next]_vars => [A]_vars
  <2> SUFFICES ASSUME IInv, [Next]_vars, NEW r \in Task, NEW i \in 1 .. Len(sendQueue[r])
               PROVE  \/ \E j \in 1 .. Len(sendQueue'[r]) : sendQueue'[r][j] = sendQueue[r][i]
                      \/ state'[sendQueue[r][i]] = "ReplyBlocked"
                      \/ state[r] = "Zombie" /\ state'[r] = "Ready"
    OBVIOUS
  <2>0. CASE UNCHANGED sendQueue
    BY <2>0
  <2>1. ASSUME NEW p, Create(p), ~UNCHANGED sendQueue
        PROVE  \/ sendQueue'[r] = sendQueue[r]
               \/ state[r] = "Zombie" /\ state'[r] = "Ready"
    <3> DEFINE t == Head(allocationQueue)
    <3>1. /\ allocationQueue # <<>>
          /\ state' = [state EXCEPT ![t] = "Ready"]
          /\ sendQueue' = [sendQueue EXCEPT ![t] = <<>>]
      BY <2>1 DEF Create, Fail, ipcVars
    <3>2. t = allocationQueue[1] /\ Len(allocationQueue) >= 1 /\ Len(allocationQueue) \in Nat
      BY <3>1 DEF IInv, TypeOK
    <3>3. t \in Task /\ state[t] = "Zombie"
      BY <3>2 DEF IInv, DescriptorsExact, TypeOK
    <3> QED BY <3>1, <3>3 DEF IInv, TypeOK
  <2>2. ASSUME NEW to \in TaskID, Send(to), mode = "user", ~UNCHANGED sendQueue
        PROVE  \E j \in 1 .. Len(sendQueue'[r]) : sendQueue'[r][j] = sendQueue[r][i]
    <3>1. /\ to.id \in Task /\ activeTask \in Task
          /\ sendQueue' = [sendQueue EXCEPT ![to.id] = Append(@, activeTask)]
      BY <2>2 DEF Send, Fail, ipcVars, TaskID, IInv, TypeOK
    <3>2. i \in 1 .. Len(sendQueue'[r]) /\ sendQueue'[r][i] = sendQueue[r][i]
      BY <3>1 DEF IInv, TypeOK
    <3> QED BY <3>2
  <2>3. ASSUME Receive, mode = "user", ~UNCHANGED sendQueue
        PROVE  \/ \E j \in 1 .. Len(sendQueue'[r]) : sendQueue'[r][j] = sendQueue[r][i]
               \/ state'[sendQueue[r][i]] = "ReplyBlocked"
    <3> DEFINE a == activeTask
               s == FirstSender(a)
    <3>1. /\ a \in Task
          /\ sendQueue[a] # <<>>
          /\ sendQueue' = [sendQueue EXCEPT ![a] = Tail(sendQueue[a])]
          /\ state' = [state EXCEPT ![s] = "ReplyBlocked"]
      BY <2>3 DEF Receive, OtherSenders, Fail, ipcVars, IInv, TypeOK
    <3>2. CASE r # a
      BY <3>1, <3>2 DEF IInv, TypeOK
    <3>3. CASE r = a /\ i = 1
      BY <3>1, <3>3 DEF IInv, TypeOK, FirstSender
    <3>4. CASE r = a /\ i # 1
      <4>1. i - 1 \in 1 .. Len(sendQueue'[r]) /\ sendQueue'[r][i - 1] = sendQueue[r][i]
        BY <3>1, <3>4 DEF IInv, TypeOK
      <4> QED BY <4>1
    <3> QED BY <3>2, <3>3, <3>4
  <2>4. CASE IdleCall \/ UserCall
    <3>1. ASSUME NEW s, Reply(s) PROVE UNCHANGED sendQueue
      BY <3>1 DEF Reply, Fail, ipcVars
    <3>2. UNCHANGED sendQueue \/ (\E p : Create(p)) \/ (mode = "user" /\ Receive)
          \/ (mode = "user" /\ \E to \in TaskID : Send(to))
      BY <2>4, <3>1 DEF IdleCall, UserCall, KnownTaskIDs, Exit, Pass, SetRunning, Await,
                        Alloc, Free, ipcVars
    <3> QED BY <2>0, <2>1, <2>2, <2>3, <3>2
  <2>5. CASE Interrupt \/ ServeIrq \/ Scheduler \/ UNCHANGED vars
    <3>1. UNCHANGED sendQueue
      BY <2>5 DEF Interrupt, ServeIrq, Scheduler, Kill, Yield, Block, Reap, Fail, vars,
                  ipcVars
    <3> QED BY <2>0, <3>1
  <2> QED BY <2>4, <2>5 DEF Next, Stopped
<1> QED BY <1>1, Inductive, PTL DEF Spec, OnlyRecyclingForgets

\* A Send takes part in one rendezvous, waits its turn, is taken once and answered after
\* that: the kernel implements Rendezvous (systemCall.c:91-161).
THEOREM Refinement == Spec => ImplementsRendezvous
<1>1. Init => Messages!Init
  <2>1. Init => \A t \in Task : state[t] # "ReplyBlocked"
    BY DEF Init
  <2> QED BY <2>1 DEF Init, Messages!Init
<1>2. IInv /\ [Next]_vars => [Messages!Next]_(Messages!vars)
  <2> SUFFICES ASSUME Step PROVE [Messages!Next]_(Messages!vars)
    BY NextStep
  <2> QED
    BY DEF Step, Silent, Serving, Involved, Messages!Next, Messages!vars, Messages!Post,
           Messages!HandOver, Messages!Take, Messages!Answer, Messages!Forget,
           Messages!Involved
<1> QED
  BY <1>1, <1>2, Inductive, PTL DEF Spec, ImplementsRendezvous, Messages!Spec
=============================================================================
