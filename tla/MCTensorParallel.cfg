CONSTANTS
  Slots = {s1, s2, s3, s4, s5, s6}
  MaxSeqs = 2
  MaxSeq = 6
  BLOCK = 2
  Tokens <- MCTokens
  Images <- MCImages
  Pad = 0
  Prompts <- MCPrompts
  MaxTick = 20
  NumRequests = 3
  Asks <- MCAllAsks
  BatchTokens = 2
  MaxFaults = 1
  img = img

SPECIFICATION MCSpec
VIEW TPView

INVARIANTS
  TypeOK
  OneOwner
  LeasesHold
  CacheServesItsKey
  ReadsOwnKv
  SchedTypeOK
  NoRequestLost
  RowsAreRunning
  PlanFitsPool
  FedIsComputed
  PassFits
  InOrder
  GaugesSettle
  Lockstep

PROPERTIES
  AnsweredOnce
  Spec
  EveryRequestAnswered
  RowsComeBack
CHECK_DEADLOCK FALSE
