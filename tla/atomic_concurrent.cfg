SPECIFICATION Spec
CONSTANTS
  Writers = {w1, w2}
  Long = w1
  Inodes = {n1, n2}
  NoInode = NoInode
  Chunks <- MCChunks
  Concurrent = TRUE
SYMMETRY MCSymmetry
INVARIANTS DstWhole
