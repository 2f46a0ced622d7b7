SPECIFICATION Spec
CONSTANTS
  Client = {c1, c2}
  Clock = {"tick", "lores"}
  NODE_COUNT = 2
  TIME_COUNT = 8
  MAX_DELAY = 2
  Ahead <- SomeAhead
INVARIANTS TypeOK SleepersExact DelaysBounded NeverEarly
PROPERTY ImplementsAlarmClock
