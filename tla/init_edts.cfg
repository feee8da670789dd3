SPECIFICATION Spec
CONSTANTS
  Sources <- MCSources
  None = None
  Ascii = 100000
  U16 = 16
  U8 = 4
  SizeForms = {}
  PairForms = {}
  EdtsForms = {"zero"}
INVARIANT InitReadsBack
