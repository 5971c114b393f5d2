CONSTANTS
  Id = {"CH2_DMA", "PVR_DMA", "SPU_DMA"}
  EndDelay = 2
  CyclesPerByte = 4
  MinG2Cycles = 1
  LineCycles = 10
  Lines = 2
  VblankOut = 1
  List = {"OPAQUE", "TRANS"}
  ListDelay = 2
  IspDelay = 8
  TspDelay = 9
  VdDelay = 12
  CntMod = 8
  Mode = {0, 1, 5}
  Prescale <- MCPrescale
  Slice = 5
  VSlow = 2
  Guests <- All
  G2Lens = {0, 2, 3}
  MapleCosts = {3, 14}
  RenderCosts = {6, 10}
  CntValues = {0, 2}
  CorValues = {0, 1, 2, 3}
SPECIFICATION Spec
INVARIANT BusyEnds
PROPERTIES EndsAreOwed TransfersEnd BulkIsCycleByCycle
CHECK_DEADLOCK FALSE
