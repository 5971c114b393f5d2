CONSTANTS
  Guests <- All
  Level <- MCLevel
  CountMod = 2
  MaxMd = 1
  Race = 3
  CallCycles = 4
  SampleCycles = 6
  Costs = {1, 2}
  MaxPosts = 1
SPECIFICATION Spec
INVARIANTS FiqFollows SpuLineFollows RaceHonoured
PROPERTY RequestsServed
