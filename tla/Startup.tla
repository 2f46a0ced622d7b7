------------------------------ MODULE Startup ------------------------------
(***************************************************************************)
(* The tasks of burritOS and what each does before it settles in its loop, *)
(* as far as the name server is concerned: whom it creates, with which     *)
(* priority, what it registers and whom it asks for, in the order of its   *)
(* code.                                                                   *)
(***************************************************************************)
EXTENDS NameServer, SequencesExt

\* Tasks left out of an instance: each display and its poll task adds questions to the queue
\* in all orders, and displays of one priority are alike.
CONSTANT LeftOut

Boots(level, script) == [level |-> level, script |-> script]

\* setupUserServices and setupTrainServices
UserServices == <<Make("NameServer"), Make("ClockServer"), Make("TerminalDriver"),
                  Make("TrainDriver"), Make("TrainSwitchServer"), Make("TrainSensorServer")>>
TrainServices == <<Make("SwitchExecutive"), Make("TrainYardServer"),
                   Make("TrainCommanderServer"), Make("TrackManagerServer")>>

Initial == [InitialTask |->
  Boots(2, UserServices \o TrainServices
             \o <<Make("PromptDisplay"), Ask("Clock"), Ask("Train")>>)]

Drivers == [
  NameServer     |-> Boots(0, <<>>),
  ClockServer    |-> Boots(2, <<Reg("Clock")>>),
  TerminalDriver |-> Boots(1, <<Reg("Terminal")>>),
  TrainDriver    |-> Boots(2, <<Reg("Train")>>)]

SwitchServer == [
  TrainSwitchServer  |-> Boots(4, <<Reg("TrainSwitches"), Make("TrainSwitchCourier")>>),
  TrainSwitchCourier |-> Boots(3, <<Ask("Train")>>)]

SensorServer == [
  TrainSensorServer       |-> Boots(4, <<Reg("TrainSensors"), Make("TrainSensorCourier"),
                                         Make("TrainSensorStartupDelay")>>),
  TrainSensorCourier      |-> Boots(3, <<Ask("Train")>>),
  TrainSensorStartupDelay |-> Boots(3, <<Ask("Clock")>>)]

TrainServers == [
  SwitchExecutive       |-> Boots(6, <<Reg("TrainSwitchOffice"), Ask("TrainSwitches"),
                                       Ask("TrainSwitches")>>),
  TrainYardServer       |-> Boots(2, <<Reg("TrainYard")>>),
  TrainCommanderServer  |-> Boots(5, <<Reg("TrainCommander")>>),
  TrackManagerServer    |-> Boots(5, <<Reg("TrackManager"), Make("NodeAttributionServer")>>),
  NodeAttributionServer |-> Boots(6, <<Reg("NodeAttribution")>>)]

Prompt == [PromptDisplay |-> Boots(2,
  <<Make("IdlePerformanceDisplay"), Make("DigitalClockDisplay"), Make("SensorDisplay"),
    Make("SwitchDisplay"), Make("OwnerDisplay"), Make("PerformanceDisplay"),
    Make("ProcessDisplay"), Make("LogDisplay"), Make("StackDisplay"), Make("ProjectDisplay"),
    Make("HydroDisplay"), Ask("Terminal")>>)]

Polled(level, poll) == Boots(level, <<Make(poll)>>)

\* TacoDisplay asks nobody.  The displays of performance figures have a poll task if the
\* kernel is built with KERNEL_PERF, as the makefile does.
Figures == [IdlePerformanceDisplay |-> Boots(2, <<Ask("Clock")>>)]
Time    == [DigitalClockDisplay |-> Boots(4, <<Ask("Clock")>>)]
SensorTasks == [
  SensorDisplay          |-> Polled(10, "SensorDisplayPoll"),
  SensorDisplayPoll      |-> Boots(9, <<Ask("TrainSensors"), Ask("NodeAttribution")>>)]
SwitchTasks == [
  SwitchDisplay          |-> Polled(10, "SwitchDisplayPoll"),
  SwitchDisplayPoll      |-> Boots(9, <<Ask("TrainSwitchOffice"), Ask("Clock")>>)]
OwnerTasks == [
  OwnerDisplay           |-> Polled(10, "OwnerDisplayPoll"),
  OwnerDisplayPoll       |-> Boots(9, <<Ask("TrackManager"), Ask("Clock")>>)]
PerformanceTasks == [
  PerformanceDisplay     |-> Polled(5, "PerformanceDisplayPoll"),
  PerformanceDisplayPoll |-> Boots(4, <<Ask("Clock")>>)]
ProcessTasks == [
  ProcessDisplay         |-> Polled(0, "ProcessDisplayPoll"),
  ProcessDisplayPoll     |-> Boots(0, <<Ask("Clock")>>)]
LogTasks == [
  LogDisplay             |-> Polled(10, "LogServer"),
  LogServer              |-> Boots(9, <<Reg("Logger")>>)]
StackTasks == [
  StackDisplay           |-> Polled(10, "StackDisplayPoll"),
  StackDisplayPoll       |-> Boots(10, <<Ask("Clock")>>)]
ProjectTasks == [
  ProjectDisplay         |-> Polled(10, "ProjectDisplayPoll"),
  ProjectDisplayPoll     |-> Boots(9, <<Ask("TrainSensors"), Ask("NodeAttribution")>>)]
HydroTasks == [
  HydroDisplay           |-> Polled(20, "HydroDisplayPoll"),
  HydroDisplayPoll       |-> Boots(20, <<Ask("Clock")>>)]

Displays == Figures @@ Time @@ SensorTasks @@ SwitchTasks @@ OwnerTasks @@ PerformanceTasks
              @@ ProcessTasks @@ LogTasks @@ StackTasks @@ ProjectTasks @@ HydroTasks

System == Initial @@ Drivers @@ SwitchServer @@ SensorServer @@ TrainServers @@ Prompt @@ Displays

BootTask    == DOMAIN System \ LeftOut
Present(step) == ~(step.op = "create" /\ step.task \in LeftOut)
BootScript  == [t \in BootTask |-> SelectSeq(System[t].script, Present)]
BootUrgency == [t \in BootTask |-> System[t].level]
TaskName    == {"Clock", "Terminal", "Train", "TrainSwitches", "TrainSensors",
                "TrainSwitchOffice", "TrainYard", "TrainCommander", "TrackManager",
                "NodeAttribution", "Logger"}
=============================================================================
