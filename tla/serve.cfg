SPECIFICATION Spec
CONSTANTS
  Ascii = 100000
  U32Max = 511
  I32Max = 255
  CopyBuf = 4
  Base = 2
  MinDigits = 2
  NumberMax = 9
  Decimals = 1000000
  Indexes <- MCIndexes
  Strays <- MCStrays
INVARIANTS PlaybackExact FitsBuffer NamesResolve PlaylistHonest RefusedOnlyByBuilder
