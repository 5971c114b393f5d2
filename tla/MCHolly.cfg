CONSTANTS
  NumSources = 3
  MaxLevel = 3
  Reg <- MCReg
  IPR <- MCIPR
  Nibble <- MCNibble
  InterruptSourceList <- MCInterruptSourceList
  InitialPriority <- MCInitialPriority
  IPRValues <- MCIPRValues
  SRValues <- MCSRValues
  ResetSR <- MCResetSR
  Maskable = {2}
  NoEvent = NoEvent
  IRL = {0, 1}
  Channel = {2}
  Kind = {"NRM", "EXT"}
  Bit = {1}
SPECIFICATION HollySpec
INVARIANTS LinesFollow
PROPERTY NoSpuriousInterrupt
