CONSTANTS
  Slots = {s1, s2, s3, s4, s5, s6}
  MaxSeqs = 2
  MaxSeq = 6
  BLOCK = 2
  Tokens <- MCTokens
  Images <- MCImages
  Pad = 0
  Prompts <- MCPrompts
  MaxTick = 20
  NumRequests = 2
  Asks <- MCAsks
  BatchTokens = 2
  MaxFaults = 1
  img = img

SPECIFICATION SchedSpec
VIEW View

INVARIANT PictureKept
CHECK_DEADLOCK FALSE
