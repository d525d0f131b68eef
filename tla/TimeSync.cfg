SPECIFICATION FairSpec
CONSTANTS
  Tasks = {"main", "mqtt", "uart"}
  RetryCount = 3
INVARIANTS NobodyWaitsInVain
PROPERTIES AbortNeedsOverlap CallEnds
