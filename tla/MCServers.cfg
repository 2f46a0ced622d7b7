SPECIFICATION MCSpec
CONSTANTS
  Printer = {p1}
  Reader = {r1}
  NoTask = none
  Key = {k1, k2}
  Lengths <- LettersOrNul
  INPUT_LENGTH = 1
  OUTPUT_LENGTH = 4
  COUNT_RANGE = 16
  LeftOut <- SimilarDisplays
  Task <- BootTask
  Name <- TaskName
  Script <- BootScript
  Urgency <- BootUrgency
  InitialTask = "InitialTask"
  Server = "NameServer"
  WHOIS_LENGTH = 32
  NoOwner = "nobody"
  SEND_QUEUE_LENGTH = 8
  Turn = {t1, t2}
  Thrower = {c1, c2}
  SWITCH_LENGTH = 2
  GROUPS = 1
  PER_GROUP = 2
  ReadTask = {d1, d2}
  WaitTask = {w1}
  Watched = {0}
  NoWaiter = nobody
  NoReader = nowhere
  READS = 2
INVARIANTS ServersTypeOK TerminalExact NamesExact SensorsExact
PROPERTIES ImplementsCharStream TerminalGoesOn StartUpEnds SolenoidFollows EdgesAnswered
CHECK_DEADLOCK FALSE
