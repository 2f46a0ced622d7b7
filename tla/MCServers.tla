------------------------------ MODULE MCServers ------------------------------
(***************************************************************************)
(* Small instances of servers with the tasks around them: the terminal     *)
(* driver, the name server while the system starts, the train switch       *)
(* server and the train sensor server.  They meet only in the kernel and   *)
(* in the train driver, which have models of their own, so one run checks  *)
(* each by itself: `subject' says which of them moves.  The terminal is    *)
(* checked twice: with readers and strings that are not empty, and with    *)
(* empty ones among others while nobody reads.                             *)
(***************************************************************************)
EXTENDS Terminal, Startup, SwitchServer, Sensors

VARIABLE subject

\* Two letters, or the character NUL (PromptDisplay.c:152).
LettersOrNul == [p \in Printer |-> {0, 2}]

\* Displays that do no more than those that are left.
SimilarDisplays == {"StackDisplay", "StackDisplayPoll", "ProjectDisplay", "ProjectDisplayPoll",
              "OwnerDisplay", "OwnerDisplayPoll", "HydroDisplay", "HydroDisplayPoll"}

MCInit ==
  /\ subject \in {"letters", "nul", "names", "switches", "sensors"}
  /\ TerminalInit /\ NamesInit /\ SwitchInit /\ SensorsInit

Moves(s) == subject = s
TerminalMoves == Moves("letters") \/ Moves("nul")

NobodyReads == \A r \in Reader : caller[r] = "run"
NoneEmpty   == \A i \in 1 .. Len(termInbox) :
                 termInbox[i].type = "putstr" => termInbox[i].body # <<>>

MCNext ==
  /\ UNCHANGED subject
  /\ IF TerminalMoves THEN TerminalNext ELSE UNCHANGED TerminalVars
  /\ Moves("letters") => NoneEmpty'
  /\ Moves("nul") => NobodyReads'
  /\ IF Moves("names") THEN NamesNext ELSE UNCHANGED NamesVars
  /\ IF Moves("switches") THEN SwitchNext ELSE UNCHANGED SwitchVars
  /\ IF Moves("sensors") THEN SensorsNext ELSE UNCHANGED SensorVars

MCVars == <<subject, TerminalVars, NamesVars, SwitchVars, SensorVars>>

\* Interrupts come before all tasks; the terminal driver and its notifiers have priorities 1
\* and 0.  While the system starts the kernel always runs somebody.  The courier and the
\* server of the switches have priorities 3 and 4, as those of the sensors; the train driver
\* answers them, for the line takes every command in the end and the controller answers a
\* scan (TrainLine); and the delay of the clock server ends (ClockServer).
MCFairness ==
  /\ WF_TerminalVars(TerminalMoves /\ (OutNotifAsk \/ OutNotifWrite))
  /\ WF_TerminalVars(TerminalMoves /\ TransmitInterrupt)
  /\ WF_TerminalVars(TerminalMoves /\ (InNotifRead \/ InNotifSend))
  /\ WF_TerminalVars(TerminalMoves /\ ServeTerminal)
  /\ WF_NamesVars(Moves("names") /\ NamesNext)
  /\ WF_SwitchVars(Moves("switches") /\ ~switchFailed /\ (CourierAsk \/ CourierDeliver))
  /\ WF_SwitchVars(Moves("switches") /\ ~switchFailed /\ ServeSwitches)
  /\ WF_SensorVars(Moves("sensors") /\ DriverReceives)
  /\ WF_SensorVars(Moves("sensors") /\ CourierBrings)
  /\ WF_SensorVars(Moves("sensors") /\ StartupDelayEnds)
  /\ WF_SensorVars(Moves("sensors") /\ (ServeSensors \/ CompareGroup \/ EndComparison))

MCSpec == MCInit /\ [][MCNext]_MCVars /\ MCFairness

\* The types of all of them.
ServersTypeOK == TerminalTypeOK /\ NamesTypeOK /\ SwitchTypeOK /\ SensorsTypeOK
=============================================================================
