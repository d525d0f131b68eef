SPECIFICATION FairSpec
CONSTANTS
  Requests = {p}
  None = None
  WifiMaximumRetry = 2
  Recorded = {}
PROPERTIES StationBootEnds ResetEnds
