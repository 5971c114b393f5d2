CONSTANTS
  NumSources = 3
  MaxLevel = 2
  Reg <- MCReg
  IPR <- MCIPR
  Nibble <- MCNibble
  InterruptSourceList <- MCInterruptSourceList
  InitialPriority <- MCInitialPriority
  IPRValues <- MCIPRValues
  SRValues <- MCSRValues
  ResetSR <- MCResetSR
  Maskable = {2}
  NoEvent = NoEvent
SPECIFICATION Spec
INVARIANTS Current PendingIsExact
PROPERTIES EventuallyServed ImplementsIntcSpec
