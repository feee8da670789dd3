SPECIFICATION Spec
CONSTANTS
  Sources <- MCSources
  None = None
  Ascii = 100000
  U16 = 16
  U8 = 4
  SizeForms = {"zero", "over", "under", "tiny", "large", "large0"}
  PairForms = {"zero", "large"}
  EdtsForms = {"large"}
INVARIANT AcceptsPlainPairs
INVARIANT RangesApart
INVARIANT InitReadsBack
PROPERTY ParseEnds
