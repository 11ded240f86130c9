CONSTANTS
  Global <- MCGlobal
  Allocs <- MCAllocs
  Loops <- OuterTileLoops
SPECIFICATION Spec
INVARIANTS ReadsAsSequential
