SPECIFICATION Spec
CONSTANTS
  Inputs <- MCInputs
  Values <- MCValues
  Junk = {0, 1, 4, 9}
  U32Max = 600
  Unknown = "Unknown"
  EntryLens = {8, 9, 601}
  ElstLens = {0, 12}
  SampleCounts = {1, 2}
  PlaylistLens = {8, 13}
  InitLens = {3, 8}
CHECK_DEADLOCK FALSE
INVARIANTS RoundTrip CutIsSeen InBounds
