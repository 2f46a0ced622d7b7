SPECIFICATION Spec
CONSTANTS
  ByteClient = {c1}
  PairClient = {c2}
  Courier = courier
  QUEUE_LENGTH = 2
  GROUPS = 2
  EdgeInHandler = TRUE
INVARIANTS ModemChangesSeen
