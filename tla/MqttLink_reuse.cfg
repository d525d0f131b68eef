SPECIFICATION Spec
CONSTANTS
  Handles = {h1, h2}
  NULL = NULL
  Senders = {"boot", "main", "ota", "uart"}
  MaxAttempts = 2
  MaxRefusals = 2
INVARIANT NullPreventsReuse
