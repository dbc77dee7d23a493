\* Two pages, from a break on a page boundary and from one off an ALIGN boundary.
CONSTANTS
  BrkStarts = {65536, 65544}
  BrkSpace = 8192
  Layouts <- MCLayouts
SPECIFICATION HeapSpec
INVARIANTS
  HeapTypeOK
  BlocksApart
  LiveInOwnBlock
  NoFreeNeighbours
  EmptyHeapIsWhole
PROPERTIES
  HeapMeetsContract
CHECK_DEADLOCK FALSE
