SPECIFICATION Spec
CONSTANTS
  Absent = Absent
  Unset = Unset
  Requests <- MixedRequests
  Replies <- WipeReplies
  NotFound <- UnknownReply
  MaxInbox = 1
  MaxOutbox = 0
  Recorded = {"window", "cut", "memory"}
INVARIANTS AcknowledgedIsDone AnsweredOnce  UpdateHasUrlAndVersion
