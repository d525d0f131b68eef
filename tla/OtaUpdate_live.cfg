SPECIFICATION FairSpec
CONSTANTS
  Offers = {a, b}
  Factory = Factory
  Blank = Blank
  Garbled = Garbled
  None = None
  Tasks = {t1}
  NumChunks = 2
  MaxRetries = 2
  ReportTicks = 2
  MaxOffers = 2
  MaxCuts = 0
  MaxRereads = 0
  MaxErasures = 1
PROPERTIES UpdateEnds FailureReported ImplementsStore
