SPECIFICATION FairSpec
CONSTANTS
  Requests = {r1, r2, r3, r4}
  Permits = 2
  MaxSegmentSize = 1
  MaxChunks = 1
INVARIANTS PermitsConserved QueueIsWaiting RamBound
PROPERTIES KeepsGate WaitersAnswered EveryRequestEnds
