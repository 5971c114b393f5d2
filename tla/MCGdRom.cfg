CONSTANTS
  Games <- All
  SectorSize = 3
  MaxPio = 2
  MaxFill = 2
  MaxChunk = 4
  Align = 2
  MaxDma = 8
  PacketWords = 2
  ReplySizes = {0, 1, 4}
  Credits = {1, 3}
  HomeFAD = 1
  LastFAD = 5
  MaxFAD = 6
SPECIFICATION GdSpec
INVARIANTS DrqMeansData NeverHangs DataInOrder HeardAsAsked
PROPERTIES DmaLeavesOthersAlone EndsThePacket OneHead PlayEnds
CHECK_DEADLOCK FALSE
