CONSTANTS
  Global <- MCGlobal
  Allocs <- MCAllocs
  Loops <- MCLoops
SPECIFICATION Spec
INVARIANTS ReadsAsSequential ExactlyOnce FinalMemory WaitIsTight
