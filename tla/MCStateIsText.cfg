CONSTANTS
  Slots = {s1, s2, s3, s4, s5, s6, s7}
  MaxSeqs = 2
  MaxSeq = 6
  NumRequests = 2
  Asks <- MCAsks
  Tokens <- MCTokens
  Eog <- MCEog
  Stops <- MCStops
  Support <- MCSupport
  K = 2
  FullKMax = 1
  SkipMin = 3
  BatchTokens = 3
  MaxFaults = 1

SPECIFICATION SpecSpec

INVARIANT StateIsText
CHECK_DEADLOCK FALSE
