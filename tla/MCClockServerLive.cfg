SPECIFICATION FairSpec
CONSTANTS
  Client = {c1, c2, c3}
  Clock = {"tick"}
  NODE_COUNT = 2
  TIME_COUNT = 8
  MAX_DELAY = 2
  Ahead = {}
PROPERTY Woken
