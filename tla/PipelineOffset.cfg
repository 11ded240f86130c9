CONSTANTS
  Global <- MCGlobal
  Allocs <- MCAllocs
  Loops <- OffsetLoops
SPECIFICATION Spec
INVARIANTS ReadsAsSequential
