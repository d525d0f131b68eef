SPECIFICATION Spec
CONSTANTS
  Handles = {h1, h2, h3}
  NULL = NULL
  Senders = {"boot", "main"}
  MaxAttempts = 2
  MaxRefusals = 2
SYMMETRY Symmetry
INVARIANTS OneClient StatusTruthful
PROPERTIES DestroyedNotReused BootBounded WipeNeedsRefusals
