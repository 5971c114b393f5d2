CONSTANTS
  a = a
  b = b
  p = p
  q = q
  small = small
  large = large
  w1 = w1
  w2 = w2
  c1 = c1
  c2 = c2
  Address = {a, b}
  Shape = {small, large}
  Page = {p, q}
  Block = {1}
  BlockOf <- MCBlockOf
  Span <- MCSpan
  Size <- MCSize
  ArenaSize = 2
  SkimpSlot <- MCSkimpSlot
  Word = {w1, w2}
  Bank = {1}
  Colour = {c1, c2}
  Palettes <- MCPalettes
  MaxRenders = 3
  MaxWrites = 2
  MaxQueue = 2
SPECIFICATION Spec
INVARIANTS NeverStale SamplesWhatWasBound
CHECK_DEADLOCK FALSE
SYMMETRY MCSymmetry
