CONSTANTS
  Slots = {s1, s2, s3, s4, s5}
  MaxSeqs = 2
  MaxSeq = 5
  BLOCK = 2
  Tokens <- MCTokens
  Images <- MCImages
  Pad = 0
  Prompts <- MCPrompts
  MaxTick = 5
  img = img

SPECIFICATION Spec
SYMMETRY SlotSymmetry
VIEW View

INVARIANT EverySlotAccounted
CHECK_DEADLOCK FALSE
