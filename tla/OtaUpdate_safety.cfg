SPECIFICATION Spec
CONSTANTS
  Offers = {a, b}
  Factory = Factory
  Blank = Blank
  Garbled = Garbled
  None = None
  Tasks = {t1, t2}
  NumChunks = 2
  MaxRetries = 2
  ReportTicks = 2
  MaxOffers = 2
  MaxCuts = 1
  MaxRereads = 1
  MaxErasures = 0
SYMMETRY Symmetry
INVARIANTS AlwaysBootable RecordMatchesImage FailureNotLost
PROPERTIES NoSpuriousReport InformsInstalledVersionAlone ImplementsContract
