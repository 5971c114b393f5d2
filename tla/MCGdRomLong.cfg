CONSTANTS
  Games <- Mixed
  SectorSize = 2
  MaxPio = 2
  MaxFill = 2
  MaxChunk = 3
  Align = 1
  MaxDma = 8
  PacketWords = 2
  ReplySizes = {0, 1, 4}
  Credits = {1, 3}
  HomeFAD = 1
  LastFAD = 5
  MaxFAD = 6
SPECIFICATION GdSafeSpec
PROPERTY DmaLeavesOthersAlone
