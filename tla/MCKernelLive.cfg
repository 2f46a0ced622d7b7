SPECIFICATION FairSpec
CONSTANTS
  TASK_COUNT = 3
  PRIORITY_COUNT = 2
  PRIORITY_LENGTH = 2
  SEND_QUEUE_LENGTH = 2
  MEMORY_BLOCK_COUNT = 3
  GENERATION_COUNT = 1
  INITIAL_PRIORITY = 1
  EVENT_COUNT = 1
  WriteEvents = {}
  CtsEvents = {}
PROPERTIES RoundRobin ImplementsRendezvous
