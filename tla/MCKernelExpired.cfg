SPECIFICATION Spec
CONSTANTS
  TASK_COUNT = 3
  PRIORITY_COUNT = 2
  PRIORITY_LENGTH = 2
  SEND_QUEUE_LENGTH = 1
  MEMORY_BLOCK_COUNT = 3
  GENERATION_COUNT = 2
  INITIAL_PRIORITY = 0
  EVENT_COUNT = 1
  WriteEvents = {}
  CtsEvents = {}
PROPERTY DeliveredToAddressee
