# burritOS in TLA+

burritOS is a microkernel for the TS-7200 board with a set of user tasks that drive a model
train set. This directory models it in TLA+, checks the models with TLC on small instances,
and proves theorems about the kernel, its ready queue, the clock server, the train line, the
other servers and the trains' track with TLAPS for every size. All paths below are relative
to `src/`.

## The system

| component | state | operations | interacts through |
|---|---|---|---|
| system calls, `kernel/systemCall.c` | task states, send queues | exit, pass, create, send, receive, reply, await, read, write, alloc, free, shutdown, kill | a software interrupt of the active task |
| scheduler, `kernel/scheduler.c` | active task, ready queues | one choice for each kernel entry | called by `start.s` after every handler |
| task table and allocator, `kernel/taskTable.c`, `memoryAllocator.c` | descriptors with generation, allocation queue, block queue | alloc, free | called by create and by the scheduler for a zombie |
| events, `kernel/event.c` | event table, transmit enables, CTS | one handler for all interrupt sources | wakes the one task that waits for an event |
| priority queue, `common/priorityQueue.c` | a ring and a bit for each priority | push, pop, push-and-pop | the kernel, with interrupts masked |
| clock server, `user/servers/ClockServer.c` | time, two delta lists, two pools of nodes | delay, long delay, time, two ticks | messages from clients and two notifier tasks |
| name server, `user/servers/NameServer.c` | table of names, queued questions | register, whoIs | messages; all servers register at start-up |
| terminal driver, `user/servers/TerminalDriver.c` | input queue, output ring, one waiting getc | getc, putstr, two notifier messages | UART 2 events through notifiers |
| train driver, `user/servers/TrainDriver.c` | command queues, sensor request | train commands, two notifier messages | UART 1 events with flow control |
| switch and sensor servers, `TrainSwitchServer.c`, `TrainSensorServer.c` | queues of commands and of waiting tasks | switch, wait for a sensor | a courier task each to the train driver |
| switch office, track manager, `user/trainservers/` | calendars of switches, owner of each segment | allocate, read, ask for the owner | messages; a worker task for each switch request |
| locomotives, yard, commander | state of each train, allocated track | step, sensor update, commands, launch | all servers above |
| containers, `common/` | lists, heap, queues | push, pop | called in their owner's task |
| devices, displays, formatting | registers, screen | | |

What is hard to get right in it, and hard to test:

* **Message passing.** Send and Receive meet in either order, between them any number of
  other calls and interrupts. A task state, a send queue and a ready queue change together
  in every call.
* **Wake-ups.** One kernel entry may wake several tasks; the write event of the train line
  is enabled and disabled from three places (sysWrite, transmit interrupt, modem interrupt).
* **Recycling.** Descriptors, stacks, tids and send queues are used again.
* **Limits.** Ready rings of 16, send queues of 8, 64 tasks, 32 clock nodes; a full queue is
  an assertion that stops the board.
* **Time.** Ticks are lost, requests are served late, the time wraps.
* **Order.** The drivers keep parallel queues in step, and the switch server must end a
  batch of switches with the command that turns the solenoid off.

What makes each component correct: for the kernel, that every task is exactly where its
state says (ready queue, send queue, event table, allocation queue) and that a message is
taken once, in order, and answered after it was taken; for the priority queue, that it is a
FIFO at each level and pops the most urgent one; for the clock server, that a sleeper wakes
at its tick, once and never early; for the drivers, that bytes leave in order and none is
lost; for the name server, that a question is answered once and with a registered task; for
the sensor server, that a newly pressed sensor answers who waits for it; for the switch
server, that switches are thrown in order and the solenoids are off in the end; for the
switch office, that calendars and workers agree; for the track manager and the trains, that
a train knows what it owns and no segment has two owners; for the search, that paths are
shortest.

## Modules

| module | what it is |
|---|---|
| `ReadyQueue` | bounded FIFOs by priority, as the scheduler sees them |
| `Kernel` | the kernel: every system call, interrupts, scheduler, idle task |
| `Rendezvous` | abstract: what Send, Receive and Reply promise |
| `KernelProofs` | theorems about `Kernel` |
| `ReadyQueueSpec` | abstract: each call of the priority queue and what it returns |
| `PriorityQueue` | the rings of `common/priorityQueue.c` |
| `ClockServer`, `AlarmClock`, `ClockServerProofs` | clock server with notifiers, timers and clients; what it promises; theorems |
| `TrainLine`, `ByteLine`, `TrainLineProofs` | train driver with notifiers, UART 1, flow control and train box; what it promises of the bytes; theorems |
| `Terminal`, `CharStream` | terminal driver with notifiers, UART 2, printers and readers; what it promises of the characters |
| `NameServer`, `Startup` | name server and the tasks that register and ask; the start-up scripts of all tasks |
| `SwitchServer`, `Solenoid` | switch server with its courier; what the track sees of it |
| `Sensors` | sensor server with courier, start-up delay, scans and waiting tasks |
| `ServerProofs` | theorems about `SwitchServer`, `NameServer`, `Terminal` and `Sensors`, and about `MCServers` |
| `Counting` | lemmas on how often a value is in a sequence, on least numbers and on remainders |
| `SwitchOffice`, `SwitchOfficeProofs` | switch office with calendars, workers and clients; theorems |
| `TrackManager`, `Locomotives`, `LocomotivesProofs` | table of owners; the tasks that drive trains and claim track; theorems |
| `Heap`, `Containers`, `CostBag`, `BoundedSequence` | the heap; heap, list and queue under all calls; what they promise |
| `Track`, `PathFind` | both tracks, edge by edge; the search for shortest paths |
| `PartsProofs` | theorems about `PriorityQueue`, `Containers` and `PathFind`, and about `MCParts` |
| `MCKernel`, `MCClockServer`, `MCTrainLine` | instances for TLC |
| `MCServers` | instances of `Terminal`, `Startup`, `SwitchServer` and `Sensors` |
| `MCParts` | instances of `PriorityQueue`, `Containers`, `PathFind`, `SwitchOffice` and `Locomotives` |

`MCServers` and `MCParts` hold several instances that share nothing: a variable `subject`
says which of them moves, so that one run explores each by itself and not their product. The
servers do meet in the code, in the kernel and in the train driver. Both have models of
their own, and the servers use what these promise: messages that are taken in order and
answered once (`Rendezvous`), and a driver that answers each command (`TrainLine`).

A few definitions stand just before the one they vary (`PushAtZero` before `Push`,
`AfterWakeStale` before `AfterWake`, ...). They are faulty on purpose: putting one in the
place of the right one must make TLC find a property violated, and PROJECT.json pairs each
property with the fault it catches.

### Kernel

The CPU takes turns between a task and the kernel, and the kernel is never interrupted.
`mode` says where it is: `user` (a task runs), `irq` (`eventHandler` serves what is
pending), `sched` (a handler has returned and `scheduler` comes next), `halted`, or a failed
assertion. `start.s` calls handler and scheduler in this order, and nothing can come between
them, so a system call is one step and the choice of the next task another. Interrupt
sources are served one step at a time in the order of `eventHandler`, as each may push a
task or fail.

* `state`, `priority`, `generation`, `sendQueue` are the fields of `TaskDescriptor`. The
  task that waits in Send is `ReceiveBlocked` and the one that waits in Receive is
  `SendBlocked`, as in the code. `eActive` is never assigned there and is no state here.
* `used` holds the descriptors whose send queue has been initialised: pushing to another one
  is undefined behaviour, and ends in mode `undefined`.
* `sendTo` is the argument of the pending `sysSend`, which lives on the sender's stack.
* `allocationQueue` and the three block counts are the task table's queue and the allocator.
  Blocks are interchangeable, so they are counted. `userBlocks` and `lostBlocks` record who
  has the ones that the kernel gave away.
* `ready` is the priority queue (`ReadyQueue`; `PriorityQueue` shows that the rings
  implement it). A failed `sysCreate` queues `Bogus`, the value 0xFFFF.
* The event table entry 0 means nobody. The tid of the idle task is 0 in its first
  generation, so an idle task that waited would not be found: `WaiterValue`.
* `UserCall` lets every task issue every call with every argument it could hold: any tid
  that a descriptor has had, any priority up to the first one out of range. `IdleCall` runs
  the code of `IdleTask`.
* A failed assertion hangs the board (`assertHandler`), so the behaviour ends in a mode that
  names the kind: `limit` (queue full, no block), `misuse` (Reply to a task that is not
  waiting), `undefined`, and `broken` for the assertions that only a fault of the kernel
  itself could fail. That `broken` is never reached is `KernelConsistent`.

Left out: message contents, performance counters, registers, the block that a task writes
to. Arguments that are no descriptor or no event are outside the model (the code indexes an
array with them).

`ClockServer` uses `Kernel` in the abstract form that `Rendezvous` gives it: an inbox of
messages in order of arrival, and clients that stay blocked until they are answered. Its
inbox is not bounded by the eight slots of a send queue. There are no more messages than
clients and notifiers.

### ClockServer

One action for each call of the clock service, for each notifier step, each timer interrupt,
and each message served. `queue[k]` is the delta list of a clock, `free[k]` the length of
its free list. The node that `delayQueuePush` inserts takes its delay from the node that
follows it; `Inserted` does that in one go for the loop in the code. A tick ages the first
node and takes all that are due, `Aged` and `Due`. The interrupt that finds no notifier
waiting in `sysAwait` is lost, as `event.c:84` does. `clockDelayUntil` is two messages with
a computation between them, and the time wraps at `TIME_COUNT`. `owed` and `until` are
history variables: they are read by one property only. `ClockAssumption` asks for a time
that wraps at more than twice the longest delay, so that a target that has passed can be
told from one that is to come (2^32 ticks are 497 days), and for finitely many clients (there
are 64 descriptors).

### TrainLine

The driver, its two notifiers, the tasks that send it commands, and the part of
`eventHandler` for UART 1, with messages in the abstract form that `ClockServer` also uses.
A command is a record with its sender and type. `Bytes` is what `getTrainDriverMessageType`
decides: one byte or two. Which train, switch and speed is left out. The three queues, the
request and the count of readings are the variables of `TrainDriver`. `output` and `input`
are the places of the notifiers in their loops; `bytes` and `got` are what they hold.

`ServeUart` is one run of the handler: the modem status first, then transmit, then receive.
`cts` and `txEnabled` change as in `event.c:24-78`. A run of the handler is one step, but
`uartInterruptStatus` reads the status register and then clears it, and the box does not
wait for that: `WireWhenCleared` lets CTS rise between the two if the constant
`EdgeInHandler` is true. The runs that must pass leave that out, and the finding below is
what it causes.

The box is outside the repository. `BoxTakesByte` and `BoxIsReady` lower and raise CTS
around each byte. To a request for the sensors the box answers with a snapshot, two bytes
for each group, and the two snapshots by turns, so that a mixture can be told. A byte takes
4 ms on the line, and the model assumes that `TrainInputNotifier` is back in `sysRead` by
then. `NoTask` stands for the 0 that `activeSensorRequestId` holds while no request is under
way (`TrainDriver.c:62`, `:77`, `:165`); it is no sender's tid, as tid 0 is the idle task.

### Terminal

`PutStr`, `GetC` are the calls, `OutNotif…` and `InNotif…` the loops of the two notifiers,
`TransmitInterrupt` and `ReceiveInterrupt` what `eventHandler` does for UART 2, and
`ServePutStr`, `ServeGetC`, `ServeTxChar`, `ServeRcvChar` the four cases of
`TerminalDriver`. The ring is modelled slot by slot: head and tail are equal in an empty and
in a full ring, and only the counter tells which, so the counter keeps its wrap
(`COUNT_RANGE`). A character is its printer and its place in the string. A client prints
strings of the lengths `Lengths` gives it, 0 among them: the prompt echoes each key with
`printf("%c", key)`, and a NUL key makes that an empty string (`PromptDisplay.c:152`).

An empty string that finds the notifier ready takes a character from the empty ring: the
head passes the tail, the counter goes below zero and wraps, and stale characters seem to be
stored (`TerminalDriver.c:70-80`). Then the assertion `// Buffer overflow!`
(`TerminalDriver.c:57`) compares a counter near 2^32, and a later string stops the board
unless it is as long as the counter is below zero; no run asks for that alone, but the
failure is a step of the model. The history variable `strayed` records that this has
happened. The code may then print anything, and `CharStream` says so (`GoAstray`, `Astray`):
what it promises of the screen ends with the first empty string that comes when all is
shown, and only with one. What it promises of the keys does not end, and neither does the
rest of `TerminalExact`: the counter and the two indices agree modulo the ring. For that the
counter must wrap at a multiple of the ring, 2^32 of 2^12, which `StringsAssumption` says;
that no string fills the ring holds by `tprintf`'s limit of 512 characters.

### NameServer and Startup

`Startup` holds what each task does before it enters its loop: whom it creates, what it
registers, whom it asks for, in the order of its code, with its priority. `NameServer` runs
these scripts under the kernel's rule that one of the most urgent ready tasks runs. Until as
many registrations have come as there are names the server queues questions, then it answers
the queued ones, then every question at once. A send queue of the kernel takes eight
senders; a ninth stops the board, and `StartUpEnds` says that this does not happen and that
every task gets through its script. `ScriptsAssumption` is what the scripts must be like for
`NamesExact` to hold: no task is created twice, no name registered twice, and the queues of
questions have room for all who ask. The scripts of `Startup` are like that.

### SwitchServer and Sensors

The courier of the switches fetches an order, waits until the driver has passed it on, and
is sent to turn the solenoids off when nothing is queued. `SolenoidFollows` is the
refinement of `Solenoid` with the obligation that current is switched off in the end.

The sensor server lets its courier go before it reads the driver's buffer
(`TrainSensorServer.c:90`), so `DriverReceives` may overwrite a group between two
`CompareGroup` steps. `EdgesAnswered` holds nevertheless, because each group is compared
with the copy that the server took itself. A task that waits for a sensor replaces an
earlier one that waits for the same; the only caller of this service would be
`trainWaitForSensor`, which nobody calls. A seventeenth reader would make the server use an
index that it did not read; `SensorsAssumption` leaves that out: the readers are two
displays and one task for each train. `SwitchAssumption` keeps the two marks for "no command"
and "solenoids off" apart from the orders: "no command" is no message at all, and the message
types of the others are 0x20, 0x21 and 0x22 (`user/messageTypes.h:35`).

### SwitchOffice

A calendar is a sequence of requests, the free list a number. A worker is more urgent than
the office, and `ServeOffice` waits until none has anything to do. The walk over a calendar
in `SwitchOffice.c:171-188` never moves on: a request goes behind the first node, is
refused, or the loop does not end (`Spins`). `early` records whether a request was entered
before its time's place. With it `OfficeExact` says what holds: no node is ever lost;
calendars are in the order of time and match the workers, unless a request went behind a
later first one, in which case the assertion at `SwitchOffice.c:124` may stop the board. A
refused client is answered like any other, and `switches`, which clients read, is set when a
worker starts and not when it throws. `SwitchOfficeAssumption` lets a command hold a switch
for some time (300 ticks, `trainCommand.c:34`); a train asks for no time at all.
`doc/manual.tex:331` calls the calendar deprecated, so these are listed as hazards and not
as findings.

### TrackManager and Locomotives

`trainAllocateTrack` is one step: the caller is blocked meanwhile and other tasks only read
the table. `loco[t]` is `LocomotiveState` without its numbers: `at` is the place of the task
in its loop (a sensor update makes a step and then takes a speed), `stopping` is
`isStopping` with whether the train still rolls. A claim is any walk of some number of nodes
from the last sensor on (`Claims`), which stands for all stopping distances and all settings
of branches. When a train may stop, stands, meets a sensor or reaches its goal is free.
`misled` are the trains whose last refusal named segment 0 and so read as a grant.

Where a train really is, the code knows only from sensors. `passed` is the truth that it
tries to follow: the node that the train ran over last, in the direction in which it faces.
A sensor comes from any node `Beyond` that one, which is to say that the train may go on,
over any setting of branches and any number of sensors that are not heard, but is turned
round by its task alone (`Continues`) or by the track. On both tracks of the laboratory
there are loops that turn a train (`TurningLoop`) and exits where no node follows (`Ahead` is
empty). The code copes with a loop as long as no turn is pending: the sensors behind it are
predicted like any other. With a turn pending the task predicts from the other end of its
node, and a train that is sent on meanwhile can come over such a sensor only through a loop
(`astray`): its task then notes a place at which it is, but with the turn still to be told,
until the next sensor. `FacesAsBelieved` says that this is the only way in which belief and
place can differ. `Ahead`, `NextSensors` and `Beyond` are parameters; the assumption only
asks that `Beyond` is closed, so they may be those of either track.

The model has some behaviour that no document judges: a speed or goal that comes during a
conflict drives the train off with its turn still pending; one that comes while a train
stops leaves `isStopping` set, and the train claims no track from then on; a speed without a
goal moves a train that claims nothing. A train launched twice and a goal that cannot be
reached (an assertion, `Locomotive.c:142`) are left out.

### Containers, Heap, Track and PathFind

`ContainersKeep` says that the heap implements a bag that gives back one of the cheapest
(`CostBag`), and list and queue a bounded sequence (`BoundedSequence`). The list has a fault
that this shows: a node that is freed while others are free is linked behind the first free
one and cuts off the rest (`list.c:70`). How much room there is after a pop is therefore a
parameter of `BoundedSequence`: two nodes at most for the list, one more than before for the
queue. `Track` transcribes `trackData.c`. `PathFind` is the search of `trackGraph.c` with a
heap of 63 slots and costs of 16 bits, and `PathsAreShortest` compares it with a definition
of shortest by edges, from each sensor of both tracks. The graph is a parameter (`Graph`),
as it is in the code; `PathAssumption` says what the code needs of it, and TLC evaluates
that on both tracks: fewer branches than the heap has slots (22 and 63), no edge of length
0, and a graph that, with the longer edge of each branch, is shorter in all than the largest
cost. The tables that the code fills with 0xFF are functions of all nodes (`NoPath`,
`NoWay`). `GoalsLeadOn` asks what the loop that draws goals (`locomotiveState.c:500-510`)
needs of the track in use: each goal but A12 leads to another.

## Runs

| run | cfg | bounds | what it shows |
|---|---|---|---|
| `kernel_safety` | `MCKernel.cfg` | 3 descriptors, 3 priorities of 2 slots, send queues of 2, 4 blocks, 1 generation, 2 events, both written, one with flow control | the invariants of the kernel and `OnlyRecyclingForgets` over 3.5 million states |
| `kernel_messages` | `MCKernelLive.cfg` | 3 descriptors, 2 priorities of 2 slots, send queues of 2, 3 blocks, one event | `ImplementsRendezvous`; `RoundRobin` under fairness |
| `parts` | `MCParts.cfg` | rings: 2 priorities of 2 slots, 2 values; heap of 7 slots, 2 costs; list and queue of 4; search from every sensor of both tracks with the 63 slots and 16-bit costs of the code; switch office: a pair of branches, 3 nodes, 2 clients, 3 messages, 2 ticks; trains: 2, on a ring of 3 segments and on a stem that ends in a loop and at an exit, claims of 2 nodes, at most two commands for each | `PartsTypeOK`, `ImplementsReadyQueue`, `ContainersKeep`, `PathsAreShortest`, `GoalsLeadOn`, `OfficeExact`, `LocomotivesExact` over 305 thousand states |
| `servers` | `MCServers.cfg` | terminal: a printer, a reader, 2 keys, input of 1, ring of 4, counter modulo 16, once with strings of 2 and once with strings of 0 and 2 while nobody reads; start-up: the real scripts, priorities and queue lengths without four displays that are like others; switches: 2 clients, queue of 2; sensors: one group of 2, 2 readers, 1 waiting task | `ServersTypeOK`, `TerminalExact`, `NamesExact`, `SensorsExact`, `ImplementsCharStream`; `TerminalGoesOn`, `StartUpEnds`, `SolenoidFollows`, `EdgesAnswered` under fairness; 177 thousand states |
| `clock_safety` | `MCClockServer.cfg` | 2 clients, both clocks, delays up to 2, time modulo 8, 2 nodes | types, `SleepersExact`, `DelaysBounded`, `NeverEarly`, `ImplementsAlarmClock` |
| `clock_wakes` | `MCClockServerLive.cfg` | 3 clients, 2 nodes, one clock | `Woken`; the pool of nodes runs out |
| `train_line` | `MCTrainLine.cfg` | a sender of one-byte and one of two-byte commands, the sensor courier, queues of 2, 2 sensor groups | `CtsFollowsLine`, `SendersExact`, `AnswersWhole`, `ImplementsByteLine`; `Answered` under fairness |
| `train_cts` | `MCTrainLineCts.cfg` | the same, with `EdgeInHandler` | finding: a rise of CTS is lost |
| `freed_blocks` | `MCKernelBlocks.cfg` | 2 descriptors, 3 blocks | finding: `sysFree` never frees |
| `bogus_id_scheduled` | `MCKernelIds.cfg` | 2 descriptors | finding: an error code is scheduled |
| `expired_tid` | `MCKernelExpired.cfg` | 3 descriptors, 2 generations | finding: a message reaches another task than its tid names |
| `track_kept` | `MCPartsTrack.cfg` | the trains of `parts` | finding: a refusal at segment 0 reads as a grant |

Why the bounds are enough. Three descriptors are the idle task, a sender and a receiver, or
two senders and a receiver once the idle task has exited; every descriptor is recycled, and
`sysCreate` fails when all are taken. Two senders, or one and the receiver itself, fill a
send queue; two tasks fill a ready ring; the fourth block is for `sysAlloc`. So every limit
is met. Three priorities put a task above, at and below another one. Two events give an
interrupt that wakes two tasks in one entry, one of them held up by the train line. The
generation only matters where tids are compared, which the kernel never does: the large run
keeps one value, and `expired_tid` has two. The clock's two or three clients give every
place in a delta list of length two, a tick that wakes two, and a pool that is exhausted;
with a time of eight values the wrap falls between reading and target. The proofs below lift
the safety results to every size, but for `GoalsLeadOn`, which is about one track; for it
and for all liveness the bounds are all there is. Three senders and two slots make the
driver's queue empty, full and overfull, with the sensor request in every place. Two groups
are the least that a reading can be missing from, and the two bytes of a reading the least
that a byte can shift. In `servers`, a ring of four slots takes strings of two, fills up and
wraps; with empty strings the head passes the tail, goes once round and meets it again. In
`parts`, the heap of seven has three levels, so a hole sinks twice; a calendar of three
meets every branch of the walk; three segments for two trains make claims meet head on, from
behind and at segment 0; and the loop is short enough that a train with a turn pending, sent
on by a command, comes back over the stem. The start-up needs no bound at all but the
displays left out, which would multiply the orders of the questions and nothing else; two
readers in a group of two sensors give a scan that comes between comparison and answer.

Symmetry is not used: descriptors differ by their initial place in the allocation queue, and
the liveness runs would not allow it. Deadlock is checked in the passing runs of kernel,
clock and line: a stopped system stutters there (`Stopped`, `Hung`). `parts` and `servers`
do not check it: when the clients of a part have done what they had to do, the part has no
step, and there it may stop.

### Fairness

`FairSpec` of `Kernel` is weak fairness of `Next`: the timers are started by `bootstrap` and
interrupt for ever, so a kernel entry always comes. It says nothing of which calls a task
makes. `RoundRobin` holds because each timer interrupt ends in the scheduler, which puts a
task that is not alone at its level behind the others.

`FairSpec` of `ClockServer` is weak fairness of the timers, of each notifier and of the
server. Their priorities are 0, 1 and 2 (`services.c`, `ClockServer.c:39-41`), and the tasks
above 2 all block in `sysReceive` or `sysAwait` at every turn. Clients get no fairness.

`FairSpec` of `TrainLine` is the same for its driver and notifiers (priorities 2 and 1) and
for the handler, and adds that the box goes on: it takes each byte, becomes ready again and
sends what it has to send. Senders get no fairness.

`MCFairness` of `MCServers` is weak fairness of the interrupts, of the notifiers and
couriers, and of the servers; clients get none, except in the start-up, where the kernel
always runs one of the most urgent ready tasks. Terminal driver and notifiers have
priorities 1 and 0, couriers 3, switch and sensor server 4. That the train driver answers a
courier is `Answered` of `TrainLine`, that a delay ends is `Woken` of `ClockServer`. The
instances of `parts` are checked for safety only.

### Findings

1. The macro `sysFree` issues `SYS_CALL_ALLOC_ID` (`kernel/systemCall.h:110`), so a freed
   block is never reusable and a further one is lost.
2. `sysCreate` queues the error code of a failed allocation (`kernel/systemCall.c:58`).
3. A tid's generation is never compared (`kernel/systemCall.c:93`), so a tid does not tell
   whether it has expired.
4. `uartInterruptStatus` clears modem changes it has not read
   (`hardware/ts7200/uart.c:157`). If CTS rises just then, `kernel.cts` stays 0 while the
   line is clear, and the writer waits.
5. `trainAllocateTrack` returns the negated segment of the first conflict
   (`user/trainservers/TrackManager.c:19`), 0 for segment 0, and `locomotiveState.c:179`
   takes that for a grant. The train drives on track that it does not own, against
   `doc/manual.tex:351`, and its next sensor fails the assertion of `locomotiveState.c:488`.

## Proofs

The only assumptions are the ones on the constants, which the modules name
(`KernelAssumption`, `ClockAssumption`, `TrainLineAssumption` and so on; TLC evaluates each on
its run) and which the sections above explain where they are more than types. Lengths,
counts, numbers of tasks, priorities, events, blocks, clocks, sensors, trains, nodes and
segments are arbitrary, and so is the range of the time. One theorem has a hypothesis,
`FlagStaysRight` below.

**Kernel.** `KernelProofs` begins with `Spec => []TypeOK`, one lemma for each action, and
with facts about sequences that the rest needs (what Append, Tail and EXCEPT do to membership
and order). It goes on to `Spec => []IInv` and from it all safety invariants that the run
checks. `IInv` is the conjunction of those invariants and `ActiveNotFree`, the active
task's descriptor is not in the allocation queue. Alone, most of the parts are not
inductive:

* `ReadyQueuesExact` needs `DescriptorsExact`: a descriptor that `sysCreate` takes must be a
  zombie, else it may be queued already. It needs `WaitersExact`: an event wakes a task that
  is blocked, so not queued.
* `SendQueuesExact` needs `sendTo` to name the queue that a sender is in: with that, one
  task is in no two queues, and the receiver finds every sender blocked in Send.
* `DescriptorsExact` excepts the active task, which is a zombie before it is reaped.
  `ActiveNotFree` closes the gap: reaping does not queue a descriptor that is queued
  already.
* `KernelConsistent` is not inductive at all: each of the four assertions needs one of the
  parts above. The empty ready queue needs the idle task to be ready, at the last priority
  and either active or queued.
* `BlocksConserved` is inductive by itself with `TypeOK`. It is also why a returned block
  finds room.

Last come the action property `OnlyRecyclingForgets` and the refinement `Spec =>
ImplementsRendezvous`: each action is a step of `Rendezvous` or leaves its variables
unchanged, under `IInv`. The step that matters is Send to a waiting receiver: the abstract
`HandOver` demands that nobody is queued there, which is `WaitingAreDrained`.

**Priority queue.** `RingOK`, a part of `PartsTypeOK`, is inductive. The refinement maps a ring to the sequence
between head and tail; the work is in lemmas on remainders (a push extends that sequence, a
pop drops its head, for a ring that wraps) and on the priority bit. The assumption that the
length is a power of two is the code's mask; the proof uses only that it is positive.

**Queue, list and heap.** `ContainersTheorem` says that each of them, under every sequence of
its own calls, implements its abstract specification, for every size and all values and
costs. `ContainersAssumption` is what the code needs: the heap has an odd number of slots (or
its last node had a right child outside the array), the queue's length is a power of two, and
costs are not negative (U16 in `heap.h`).

* The queue (`QueueRing`) is a ring with a count: the tail is as many slots behind the head
  as there are values.
* The list (`ListKept`) is two sequences of nodes, from the head and from the free one. No
  node is in both or twice in one, and each links to the next. `Chain` walks the links with
  fuel; `HoldsRead` says that it reads just these sequences, so that pushing at either end,
  popping, and cutting the free list off are statements about sequences.
* The heap (`HeapKept`) needs more than the order of costs. `FreeExact`: the free list holds
  the vacant slots, once each. `TopDown`: of two of them, one below the other in the tree,
  the upper one comes first. So the slot that a push fills has no gap above it, though pops
  leave their holes anywhere, and a pop may put the hole that it leaves in front. Which slots
  a push or a pop moves is a recursion over the tree. `WaysExist` and `WaysEnd` show once for
  both that such a way exists, is closed under its next slot and ends: a way is the least set
  that holds a slot and all that follow its members, and the slot of least rank whose way had
  no end is a contradiction. `MovedAlong` then says that moving every node one place along
  a way keeps each as often as it was, but for the one at the end.

**Search for paths.** `PathsTheorem` says `PathSpec => []PathsAreShortest` for every graph and
every start within `PathAssumption`. The search is no textbook one: it never lowers the cost
of a node in the heap but pushes the node again, so nodes come out more than once, and the
start has no cost until a way around finds one. The invariant (`PathKept`) is about the set D
of the nodes that have been expanded, which the program does not hold:

* `Pending`: a node that is known is in the heap under its cost exactly once until it is
  expanded, and never after; whatever else is in the heap costs more than its node does; and
  nothing in it costs less than a node of D. So a node that comes out a second time improves
  nothing, and D grows by nodes at their lowest cost.
* `Traced` and `Relaxed`: each cost is that of an expanded node and of an edge from it, and no
  edge of an expanded node improves a cost. At the end all known nodes are in D, and these two
  are `PathsAreShortest`.
* `Opened`: the heap holds at most one node more than D has branches, because a node has two
  edges only if it is a branch. So the assertion on the push holds (`trackGraph.c:42`).
* The cost of what is in the heap is at most the number of millimetres behind D (`Far`), so
  no cost wraps and none is mistaken for the 0xFFFF that means no path.

The lemmas on the heap (`HeapMade`, `HeapPushed`, `HeapPopped`, `HeapEmptied`) are stated for
any size and any nodes and serve `Containers` and the search alike. `Searchable` also asks
that every edge be longer than 0: a path that lost nothing on an edge might never end.

**Compositions.** `PartsTheorem` and `ServersTheorem` say that `MCSpec` of `MCParts` and of
`MCServers` implies all that is proved of the parts, whatever `subject` moves: a part that
waits stutters. `PartsTypeOK` and `ServersTypeOK` are among it.

**Clock server.** `ClockServerProofs` proves all safety properties of the run, and
`Spec => ImplementsAlarmClock`. A delta list is read as a function, `Left`: the ticks that
each of its sleepers has left. `Until`, the sum over a list, is defined by recursion, so the
first lemmas show that it exists, is unique and goes up step by step, each by looking at the
least place where it would not. `InsertedList` and `TickedList` then say what the server does
to `Left`: an insertion adds one sleeper and changes no other, a tick takes one from each and
drops who has none left. With these the refinement is immediate. `NeverEarly` needs the rest
of `ClockInv`:

* `ClientsOnce`: a client that waits has its message under way or sleeps in one list. Without
  it the server could insert a client that sleeps already. `RequestsFit` adds that a request
  for a delay is from one that waits for a delay.
* `TicksOnce`: a notifier has one tick under way while it waits for the answer.
* `OnTime`: a client with n ticks left is owed at most n interrupts, and at most n - 1 while a
  tick of its clock is under way, because that tick's interrupt may have come before the
  client asked. This is why `NeverEarly` speaks of d - 1 periods and not of d.
* `AwakeOnTime`: a client inside `clockDelayUntil` aims at a target that is r ticks after the
  time (or after the time it was told), with r at least -2. The time may pass the target by
  one tick while the question is under way, and by no more: a notifier has one message in
  the queue. `SignedDistance` shows that the conversion to S32 gives r back, wherever the
  time wraps.

**Train line.** `TrainLineProofs` has the invariant in two layers. `LineBasics` are the types,
that the driver's three queues stay in step, that each notifier has what its place in the
loop says, and that while a byte is on the line CTS has not gone down yet. `LineInv` adds
where each waiting task is, where the request for the sensors is until the box has its byte
(the queue, the notifier or the line, and in one of them), and where each byte of the box's
answer is from then on: `InOrder` puts what the box has still to send behind what is in the
UART, with the notifier, in a message and in the driver's buffer, and says that in a row
they are the snapshot. From these follow `TypeOK`, `SendersExact`, `AnswersWhole` and the
refinement of `ByteLine`, for which the lemmas on `FlattenSeq` are proved as those on `Until`
are. `FlagStaysRight` states `CtsFollowsLine` under the hypothesis that CTS does not rise
between reading and clearing the modem status. That hypothesis cannot be dropped: it is the
finding of the run `train_cts`.

**Servers.** `ServerProofs` takes four servers in turn. Each invariant counts, for every task,
the messages and the places in queues and variables that are its own, and says that there is
one while it waits and none while it runs (`Counting` has the lemmas).

* `SwitchServer`: the courier is in one place, and while the solenoids are off the server
  knows it or sends an order next. With that it implements `Solenoid`, which is the safety
  half of `SolenoidFollows`.
* `NameServer`: a task that waits stands at the step of its script that asks, a step that
  creates or registers is done once, and the registrations left are the names without an
  owner; so a question is answered with the task that registers the name, whatever the order
  in which the tasks run. It is proved for all scripts that meet `ScriptsAssumption`, not only
  for those of `Startup`.
* `Terminal`: the counter is the distance from head to tail, though it is stepped apart from
  both of them, and head and tail are equal in a full ring and in an empty one. A string
  written behind what is stored, and a character taken from the front, are then what the
  abstract `CharStream` does to its text. Strings may be empty. So the invariant
  (`RingCounted`) has the counter near the distance, which is equal to it but for rounds of
  the ring (`Near`), and equal to it until an empty string has found the notifier ready.
  `CountStaysNear` shows that each of the three places where the counter is stepped keeps it
  near, wraps below zero and all, since the counter's range is a whole number of rings.
* `Sensors`: free slots and slots in use, one after the other, are all slots once; every
  reader is in one place. `EdgesAnswered` is liveness and stays with TLC.

**Locomotives.** `LocomotivesProofs` proves `LocoSpec => []LocoTypeOK` and `LocoSpec =>
[]LocomotivesExact`. `AllocationFacts` says what a call of the track manager does: all of
the list or nothing, and nothing to the track of others. `OneTrain` says that a step keeps
what every train knows, if it keeps it for the one that moves, and each action is brought
under it. Two facts must be added to make this inductive. A train that has not found itself
has no turn pending: else its first sensor would show it facing the wrong way. A task takes
a speed only when one was asked for: else the types would not be kept. `FacesAsBelieved` is
the delicate part. A train that gives way turns its sensor and notes the turn (`Turned`),
and turns only when it may go on (`Continues`); between them any number of claims, commands
and sensors may come. The step that needs care is a sensor that comes while a turn is
pending. It is `Beyond` the node that the train passed, for there the train is, and it is
predicted, so `Beyond` the opposite one: `LoopTurns` concludes that the track has a loop that
turns trains. On a track without one no such sensor comes at all. `Placed` is the invariant:
the sensor that a task notes is the node passed or its opposite, as the flag says, but for a
train that has come through a loop in this way.

**Switch office.** `SwitchOfficeProofs` proves `OfficeSpec => []OfficeTypeOK` and `OfficeSpec =>
[]OfficeExact`, for any number of branches, nodes and clients and however long the clock runs.
`OfficeExact` speaks of the workers of a branch by their numbers, and `workers` is a set: so
the first thing to show is that no request is entered twice before its worker is done
(`SecondApart`). An equal one that is not due is refused by the first node, or would end before
the second node begins, and that node is no later than the one it equals. It needs that a
calendar is in order from its second node on (`InOrder`), which holds whatever is asked, and
that a request lasts for some time or was due when it was made (`Sensible`). With it nodes and
workers agree for each time (`WorkersMatch`), and a worker that reports finds a node. What a
client is told (`ToldRight`) rests on one more fact: as long as nothing was entered early, the
nodes from the second on are all for one time, so when a request is entered the workers of
the branch that still wait throw before it does.

**Only model-checked.** All liveness, which is out of the prover's reach: `RoundRobin`,
`Woken`, `Answered`, `TerminalGoesOn`, `StartUpEnds`, `EdgesAnswered` and the second half of
`SolenoidFollows`. `GoalsLeadOn`, which is a fact about the hundred and more nodes of one
given track, and not about the code for any track.

## Not modelled, and why

* Train physics: numeric fits of speeds and distances with tables for each train. The model
  of the locomotives lets anything happen that they could say.
* `PlayerLocomotive`: a train that a person steers; its own branches in `locomotiveStep`
  depend on distances and key strokes.
* Displays after their start-up, the prompt, formatting and printing: layout and I/O.
* Device access, and `timerSample`: reads and writes of registers.
* `trainWaitForSensor` has no caller, though the server's part of it is in `Sensors`.
* Smaller things left out: `sysAwait` on a write event, which no task calls; the list that
  the search fills with its path and the assertion on its length (`trackGraph.c:53-61`); the
  contents of the arrays that readers of all sensors get.
* A train launched twice, the table of the yard and the parser of the commander.

## Plan

Every safety property of the passing runs is proved but `GoalsLeadOn`, which is about one
track. What is left is liveness, which stays with TLC.
