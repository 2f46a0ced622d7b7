SPECIFICATION FairSpec
CONSTANTS
  ByteClient = {c1}
  PairClient = {c2}
  Courier = courier
  QUEUE_LENGTH = 2
  GROUPS = 2
  EdgeInHandler = FALSE
INVARIANTS TypeOK CtsFollowsLine SendersExact AnswersWhole
PROPERTIES ImplementsByteLine Answered
