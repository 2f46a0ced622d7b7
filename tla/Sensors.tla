------------------------------- MODULE Sensors -------------------------------
(***************************************************************************)
(* The train sensor server with its courier, the scans of the track, and   *)
(* the tasks that wait for sensors.                                        *)
(*                                                                         *)
(* The courier has the train driver scan the track, and brings the address *)
(* of the driver's buffer.  The server lets it go before it reads the      *)
(* buffer, so the next scan may overwrite a group before the server has    *)
(* come to it.  It looks for sensors that were not pressed and now are:    *)
(* such a sensor wakes the task that waits for it alone, or else all tasks *)
(* that wait for any change.                                               *)
(***************************************************************************)
EXTENDS Integers, Sequences, FiniteSets, FiniteSetsExt

CONSTANTS
  GROUPS,      \* groups of sensors: five pairs of bytes in a scan
  PER_GROUP,   \* sensors of a group
  ReadTask,    \* tasks that read all sensors
  WaitTask,    \* tasks that wait for one sensor
  Watched,     \* the sensors that they wait for
  NoWaiter,    \* 0xFFFF in the table of blocked tasks
  NoReader,    \* a pointer that no reader gave
  READS        \* slots of the three queues

Group  == 0 .. GROUPS - 1
Sensor == 0 .. GROUPS * PER_GROUP - 1
GroupOf(s) == s \div PER_GROUP
Idle   == -1

\* More tasks would find no slot, and the server would use an index that it has not read.
ASSUME SensorsAssumption ==
  /\ GROUPS \in Nat \ {0} /\ PER_GROUP \in Nat \ {0} /\ READS \in Nat
  /\ IsFiniteSet(ReadTask) /\ Cardinality(ReadTask) <= READS /\ IsFiniteSet(WaitTask)
  /\ Watched \subseteq Sensor /\ NoWaiter \notin WaitTask

VARIABLES
  \* the server
  sensorBuffer, startupStage,
  qTask, qBodyIndex, qBodyFree, qBodyBuffer,
  aTaskSensorBlocked,
  comparing,       \* the group that it looks at, GROUPS after the last, or Idle
  changed,         \* a sensor is newly pressed that nobody waited for alone
  \* everything around it
  scan, received,  \* the driver's buffer, and how many groups of this scan it has received
  courierAt, delay,
  sensorInbox,     \* messages sent to the server, oldest first
  reader, filled,  \* where each reader is; those whose array was filled since they asked
  waiter           \* where each task is that waits for one sensor

queueVars   == <<qTask, qBodyIndex, qBodyFree, qBodyBuffer>>
compareVars == <<sensorBuffer, comparing, changed>>
scanVars    == <<scan, received>>
SensorVars  == <<compareVars, startupStage, queueVars, aTaskSensorBlocked, scanVars, courierAt,
                 delay, sensorInbox, reader, filled, waiter>>

SensorsInit ==
  /\ sensorBuffer = {}
  /\ startupStage = TRUE
  /\ qTask = <<>> /\ qBodyIndex = <<>>
  /\ qBodyFree = [i \in 1 .. READS |-> i - 1]
  /\ qBodyBuffer = [i \in 0 .. READS - 1 |-> NoReader]
  /\ aTaskSensorBlocked = [s \in Sensor |-> NoWaiter]
  /\ comparing = Idle /\ changed = FALSE
  /\ scan = {} /\ received = 0
  /\ courierAt = "scanning" /\ delay = "wait"
  /\ sensorInbox = <<>>
  /\ reader = [r \in ReadTask |-> "run"] /\ filled = ReadTask
  /\ waiter = [w \in WaitTask |-> "run"]

-----------------------------------------------------------------------------
(* The driver's scans.                                                     *)

InGroup(set, g) == {s \in set : GroupOf(s) = g}

\* A group arrives, with the sensors pressed that the trains are on then.  With the last
\* group the courier is answered.
DriverReceives ==
  /\ courierAt = "scanning"
  /\ \E pressed \in SUBSET InGroup(Sensor, received) :
       scan' = (scan \ InGroup(Sensor, received)) \cup pressed
  /\ received' = received + 1
  /\ courierAt' = IF received' = GROUPS THEN "bring" ELSE "scanning"
  /\ UNCHANGED <<compareVars, startupStage, queueVars, aTaskSensorBlocked, delay, sensorInbox,
                 reader, filled, waiter>>

-----------------------------------------------------------------------------
(* What is sent to the server.                                             *)

SendsSensors(m) ==
  /\ sensorInbox' = Append(sensorInbox, m)
  /\ UNCHANGED <<compareVars, startupStage, queueVars, aTaskSensorBlocked, scanVars>>

CourierBrings ==
  /\ courierAt = "bring"
  /\ courierAt' = "brought"
  /\ SendsSensors([type |-> "courier"])
  /\ UNCHANGED <<delay, reader, filled, waiter>>

StartupDelayEnds ==
  /\ delay = "wait"
  /\ delay' = "over"
  /\ SendsSensors([type |-> "notify"])
  /\ UNCHANGED <<courierAt, reader, filled, waiter>>

ReadAllSensors(r) ==
  /\ reader[r] = "run"
  /\ reader' = [reader EXCEPT ![r] = "sent"] /\ filled' = filled \ {r}
  /\ SendsSensors([type |-> "readAll", from |-> r])
  /\ UNCHANGED <<courierAt, delay, waiter>>

WaitForSensor(w, s) ==
  /\ waiter[w] = "run"
  /\ waiter' = [waiter EXCEPT ![w] = "sent"]
  /\ SendsSensors([type |-> "wait", from |-> w, sensor |-> s])
  /\ UNCHANGED <<courierAt, delay, reader, filled>>

-----------------------------------------------------------------------------
(* The server.                                                             *)

ServeNotify(m) ==
  /\ m.type = "notify"
  /\ startupStage' = FALSE
  /\ UNCHANGED <<comparing, changed, queueVars, aTaskSensorBlocked, received, courierAt>>

ServeBuffer(m) ==
  /\ m.type = "courier"
  /\ courierAt' = "scanning" /\ received' = 0
  /\ IF startupStage THEN UNCHANGED <<comparing, changed>> ELSE comparing' = 0 /\ changed' = FALSE
  /\ UNCHANGED <<startupStage, queueVars, aTaskSensorBlocked>>

ServeReadAll(m) ==
  /\ m.type = "readAll"
  /\ qTask' = Append(qTask, m.from)
  /\ qBodyBuffer' = [qBodyBuffer EXCEPT ![Head(qBodyFree)] = m.from]
  /\ qBodyIndex' = Append(qBodyIndex, Head(qBodyFree))
  /\ qBodyFree' = Tail(qBodyFree)
  /\ UNCHANGED <<comparing, changed, startupStage, aTaskSensorBlocked, received, courierAt>>

\* The task that waited for the sensor before is forgotten.
ServeWait(m) ==
  /\ m.type = "wait"
  /\ aTaskSensorBlocked' = [aTaskSensorBlocked EXCEPT ![m.sensor] = m.from]
  /\ UNCHANGED <<comparing, changed, startupStage, queueVars, received, courierAt>>

ServeSensors ==
  /\ comparing = Idle
  /\ sensorInbox # <<>>
  /\ sensorInbox' = Tail(sensorInbox)
  /\ LET m == Head(sensorInbox)
     IN  ServeNotify(m) \/ ServeBuffer(m) \/ ServeReadAll(m) \/ ServeWait(m)
  /\ UNCHANGED <<sensorBuffer, scan, delay, reader, filled, waiter>>

\* Newly pressed sensors of a group, by the values before and now; and the newly free ones.
Falling(old, new) == old \ new
Rising(old, new) == new \ old

CompareGroup ==
  /\ comparing \in Group
  /\ LET old    == InGroup(sensorBuffer, comparing)
         new    == InGroup(scan, comparing)
         served == {s \in Rising(old, new) : aTaskSensorBlocked[s] # NoWaiter}
     IN  /\ waiter' = [w \in WaitTask |->
                         IF \E s \in served : aTaskSensorBlocked[s] = w THEN "run" ELSE waiter[w]]
         /\ aTaskSensorBlocked' = [s \in Sensor |->
                                     IF s \in served THEN NoWaiter ELSE aTaskSensorBlocked[s]]
         /\ changed' = (changed \/ Rising(old, new) \ served # {})
         /\ sensorBuffer' = (sensorBuffer \ old) \cup new
  /\ comparing' = comparing + 1
  /\ UNCHANGED <<startupStage, queueVars, scanVars, courierAt, delay, sensorInbox, reader,
                 filled>>

\* All of qTask gets the sensors, in the arrays that the readers named.
Woken == {qTask[i] : i \in 1 .. Len(qTask)}
Arrays == {qBodyBuffer[qBodyIndex[i]] : i \in 1 .. Len(qBodyIndex)}
SlotsKept == qBodyFree
SlotsFreed == qBodyFree \o qBodyIndex

EndComparison ==
  /\ comparing = GROUPS
  /\ comparing' = Idle
  /\ IF changed
     THEN /\ reader' = [r \in ReadTask |-> IF r \in Woken THEN "run" ELSE reader[r]]
          /\ filled' = filled \cup Arrays
          /\ qTask' = <<>> /\ qBodyIndex' = <<>>
          /\ qBodyFree' = SlotsFreed
     ELSE UNCHANGED <<reader, filled, qTask, qBodyIndex, qBodyFree>>
  /\ changed' = FALSE
  /\ UNCHANGED <<sensorBuffer, startupStage, qBodyBuffer, aTaskSensorBlocked, scanVars,
                 courierAt, delay, sensorInbox, waiter>>

SensorsNext ==
  \/ DriverReceives \/ CourierBrings \/ StartupDelayEnds
  \/ \E r \in ReadTask : ReadAllSensors(r)
  \/ \E w \in WaitTask, s \in Watched : WaitForSensor(w, s)
  \/ ServeSensors \/ CompareGroup \/ EndComparison

SensorsSpec == SensorsInit /\ [][SensorsNext]_SensorVars

-----------------------------------------------------------------------------
\* Types.
SensorsTypeOK ==
  /\ sensorBuffer \subseteq Sensor /\ changed \in BOOLEAN /\ scan \subseteq Sensor
  /\ comparing \in Idle .. GROUPS
  /\ received \in 0 .. GROUPS
  /\ courierAt \in {"scanning", "bring", "brought"}
  /\ aTaskSensorBlocked \in [Sensor -> WaitTask \cup {NoWaiter}]
  /\ reader \in [ReadTask -> {"run", "sent"}] /\ waiter \in [WaitTask -> {"run", "sent"}]

Mails(type, c) == Cardinality({i \in 1 .. Len(sensorInbox) :
                                 sensorInbox[i].type = type /\ sensorInbox[i].from = c})

\* The three queues stay in step: each slot is free or belongs to one reader, the one in the
\* same place of the other queue, so every reader gets its own array filled.  A reader waits
\* in one place, and what it has been given is what the server knows; a task that waits for
\* one sensor waits in one place, or was replaced (TrainSensorServer.c:86-140).
SensorsExact ==
  /\ Len(qTask) = Len(qBodyIndex)
  /\ \A i \in 1 .. Len(qTask) : qBodyBuffer[qBodyIndex[i]] = qTask[i]
  /\ Len(qBodyFree) + Len(qBodyIndex) = READS
  /\ {(qBodyFree \o qBodyIndex)[i] : i \in 1 .. READS} = 0 .. READS - 1
  /\ \A r \in ReadTask : reader[r] = "run" <=> r \in filled
  /\ \A r \in ReadTask :
       Mails("readAll", r) + Cardinality({i \in 1 .. Len(qTask) : qTask[i] = r}) =
         IF reader[r] = "sent" THEN 1 ELSE 0
  /\ \A w \in WaitTask :
       LET places == Mails("wait", w) + Cardinality({s \in Sensor : aTaskSensorBlocked[s] = w})
       IN  /\ places <= IF waiter[w] = "sent" THEN 1 ELSE 0
           /\ waiter[w] = "sent" /\ places = 0 => Cardinality(WaitTask) > 1

\* The readers in the queue are all answered once a scan finds a sensor newly pressed, whatever
\* the races of scans and comparison, unless the next scan finds it free again, or somebody
\* waits for that sensor alone (TrainSensorServer.c:77-124).
EdgesAnswered ==
  \A s \in Sensor :
    (Woken # {} /\ s \in scan \ sensorBuffer) ~>
      (Woken = {} \/ s \notin scan \/ aTaskSensorBlocked[s] # NoWaiter)
=============================================================================
