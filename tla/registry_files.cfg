SPECIFICATION FairSpec
CONSTANTS
  Requests = {r1, r2}
  Ids = {a}
  Gens = {g1, g2}
  Addr = {p1, p2, p3}
  NoEntry = NoEntry
  SrcLen <- MCSrcLen
  MaxOpenArchives = 0
  MaxOps = 3
INVARIANTS TypeOK ServedPairsAgree QuietOutcome
PROPERTIES EveryGetReturns
