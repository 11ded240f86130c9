CONSTANTS
  Global <- MCGlobal
  Allocs <- MCAllocs
  Loops <- ShortLoops
SPECIFICATION Spec
INVARIANTS ExactlyOnce
