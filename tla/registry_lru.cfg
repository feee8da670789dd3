SPECIFICATION Spec
CONSTANTS
  Requests = {r1, r2}
  Ids = {a, b, c}
  Gens = {g1}
  Addr = {p1, p2, p3, p4, p5}
  NoEntry = NoEntry
  SrcLen <- MCSrcLen
  MaxOpenArchives = 2
  MaxOps = 0
SYMMETRY MCSymmetry
INVARIANTS LRUExact MappedBound
PROPERTIES FirstInsertWins ReturnsTheCachedEntry
