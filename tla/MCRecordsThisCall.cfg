SPECIFICATION RequestsSpec
CONSTANTS
  Callers = {"c1", "c2", "c3"}
  Keys <- MCKeys
  Bearer <- MCBearer
  Peer <- MCPeer
  Exempt = {"token"}
  None = None
  Limit = 1
  Window = 4
  Second = 2
  MaxTime = 8
  Replies <- MCReplies
  MaxToken = 2
  MaxLag = 0
  NoReply = NoReply
  Jobs <- MCJobs
  Vocabulary <- MCVocabulary
  Samples <- MCSamples
  Context = 12
  NoJob = NoJob
  BranchJobs <- MCBranchJobs
  Slots <- MCSlots
  MaxSeqs = 5
  MaxSeq = 10
  BatchTokens = 6
  MaxLogitRows = 2
  MaxBatch = 4
  NoBranchJob = NoBranchJob
  TokenIds <- MCTokenIds
  PictureRows = {"r1", "r2"}
  PictureAsks <- MCPictureAsks
  Patch = 1
  Merge = 2
  TemporalPatch = 2
  Ratio = 20
  MaxPatches = 32
  DropRedundant = TRUE
  MaxContext = 18
  PassTokens = 6
  Encoders = {"e1", "e2"}
  Vocabularies <- MCVocabularies
  EncodeAsks <- MCEncodeAsks
  Letters = {"a", "b"}
  Bos = Bos
  LongestCached = 3
  NoAsk = NoAsk
  GraphPasses <- MCGraphPasses
  SplitMixedBatch = TRUE
  KvBucket = 4
  LongestKv = 10
  MinPrefillRun = 4
  GraphCap = 2
  MaxOrphans = 1
  NoPass = NoPass
INVARIANT RecordsThisCall
CHECK_DEADLOCK FALSE
