CONSTANTS
  PcCount = 6
  AramWords = 3
  Instr <- MCInstr
  FiqVector = 2
  Targets = {0, 1}
  Slices = {4}
  IdleCost = 1
  Program <- MCProgram
  Uploads <- MCUploads
  MaxInsns = 3
  CodeWords = 13
  Reserve = 6
  Reprobe = 1
  DemoteAge = 2
  Presets = {0, 1, 3}
SPECIFICATION Spec
INVARIANT ChainsLeadHome
PROPERTY ImplementsArm
