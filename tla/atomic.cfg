SPECIFICATION Spec
CONSTANTS
  Writers = {w1, w2, w3}
  Long = w1
  Inodes = {n1, n2, n3, n4}
  NoInode = NoInode
  Chunks <- MCChunks
  Concurrent = FALSE
SYMMETRY MCSymmetry
INVARIANTS DstWhole AckedSurvives OldUntilRename
PROPERTIES PublishedUnchanged
