SPECIFICATION MCSpec
CONSTANTS
  PRIORITY_COUNT = 2
  PRIORITY_LENGTH = 2
  Value = {v1, v2}
  Garbage = garbage
  HEAP_SIZE = 7
  Cost = {0, 1}
  LIST_LENGTH = 4
  QUEUE_LENGTH = 4
  Item = {a, b}
  Graph <- BothTracks
  Journey <- AllJourneys
  OPEN_LENGTH = 63
  COST_RANGE = 65536
  Turnout = {"b155", "b156"}
  Opposed <- BranchPair
  Direction = {"straight", "curved"}
  Initially <- Thrown
  Prompt = {"prompt"}
  Driver = {"driver"}
  NODES = 3
  LEAD = 1
  HOLD = 1
  Delay = {2}
  LAST_TICK = 2
  ASKS = 3
  Segment <- RingSegment
  Train = {"t1", "t2"}
  Free = "free"
  TrackNodeId <- RingNode
  Ahead <- RingAhead
  NextSensors <- RingSensors
  Opposite <- RingOpposite
  SegmentOf <- RingPair
  Beyond <- RingBeyond
  NoSensor = nowhere
  FoundAt <- RingFoundAt
  Orders <- RingOrders
  SHORTEST = 2
  LONGEST = 2
INVARIANT TrackKept
CHECK_DEADLOCK FALSE
