CONSTANTS
  RingMax = 3
  FreeRun = 2
  BlockSamples = 2
  CounterMod = 6
  MaxSpins = 1
  Depths = {0, 1, 4}
  MaxBlocks = 7
  Exits = TRUE
SPECIFICATION Spec
INVARIANTS NoOverwrite PacedDropsOnlyOnTimeout
PROPERTIES ImplementsAudioFifo AlwaysReturns
CHECK_DEADLOCK FALSE
