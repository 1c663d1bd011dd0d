\* Chunks of 88 bytes, 32 of them for blocks: 12 and 20 bytes are small, 40 are
\* large.  A chunk with 8 or 16 bytes left has no room for 20, and cur stays at it.
SPECIFICATION Spec
CONSTANTS
  ChunkSize = 88
  RmdArg = 8
  Sizes = {12, 20, 40}
  SizeMod = 65536
  MaxChunks = 4
  MaxLarges = 3
INVARIANTS
  BlocksInBounds
  BlocksDisjoint
  WalkReadsHeap
  NothingLeaks
