SPECIFICATION Spec
CONSTANTS
  a = a
  b = b
  c = c
  small = small
  large = large
  Keys = {a, b, c}
  Values = {small, large}
  Size <- Bytes12
  MaxEntries = 2
  MaxBytes = 3
  MaxPending = 2
  Policies <- Mixes
  NoValue = NoValue
  x = x
  y = y
  one = one
  two = two
  ColdKeys = {x, y}
  ColdValues = {one, two}
  Tombstone = Tombstone
  Length <- Lengths
  SegmentMax = 4
  Quota = 7
  MaxSegments = 3
  MaxCells = 5
  FaultSets <- Weather
INVARIANTS
  HotServes
  NothingLost
  ColdIsSound
SYMMETRY Symmetric
