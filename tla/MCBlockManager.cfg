CONSTANTS
  p = p
  q = q
  r = r
  s = s
  x = x
  y = y
  Addr = {p, q, r, s}
  Code = {x, y}
  Index = {1, 2}
  Hash <- MCHash
  InitialCapacity = 1
  MaxPerBucket = 2
  Sentinel = Sentinel
  Dangling = Dangling
  MaxLookups = 6
SYMMETRY MCSymmetry
SPECIFICATION BmSpec
INVARIANT Mirrored
PROPERTY ImplementsBlockMap
