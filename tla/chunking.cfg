\* Every text of up to 7 characters, the largest small overlap.
CONSTANTS
  MaxText = 7
  Size = 4
  Overlap = 3
  Text <- MCText
SPECIFICATION FairSpec
INVARIANTS NothingLost
PROPERTY ChunkingEnds
CHECK_DEADLOCK FALSE
