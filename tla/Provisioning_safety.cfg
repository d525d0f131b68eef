SPECIFICATION Spec
CONSTANTS
  Requests = {p, q}
  None = None
  WifiMaximumRetry = 1
  Recorded = {"partial", "reread", "race", "unsaved"}
SYMMETRY Symmetry
INVARIANTS NormalModeProvisioned WifiPairTogether NormalModeHasIdentity
PROPERTIES ResetForgets PostTakesEffect ImplementsStore
