CONSTANTS
  Slots = {s1, s2, s3, s4, s5, s6}
  MaxSeqs = 2
  MaxSeq = 6
  BLOCK = 2
  Tokens <- MCTokens
  Images = {}
  Pad = 0
  Prompts <- MCPrompts
  MaxTick = 20
  NumRequests = 2
  Asks <- MCAsks
  BatchTokens = 2
  MaxFaults = 1

SPECIFICATION AttachSpec
INVARIANT RecomputesPrompt
CHECK_DEADLOCK FALSE
