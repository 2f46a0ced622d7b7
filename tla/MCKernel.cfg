SPECIFICATION Spec
CONSTANTS
  TASK_COUNT = 3
  PRIORITY_COUNT = 3
  PRIORITY_LENGTH = 2
  SEND_QUEUE_LENGTH = 2
  MEMORY_BLOCK_COUNT = 4
  GENERATION_COUNT = 1
  INITIAL_PRIORITY = 1
  EVENT_COUNT = 2
  WriteEvents = {0, 1}
  CtsEvents = {1}
INVARIANTS TypeOK ReadyQueuesExact SendQueuesExact WaitersExact DescriptorsExact BlocksConserved MostUrgentRuns IdleAlive KernelConsistent
PROPERTY OnlyRecyclingForgets
