SPECIFICATION FairSpec
CONSTANTS
  Absent = Absent
  Unset = Unset
  Requests <- OneDelete
  Replies <- WipeReplies
  NotFound <- UnknownReply
  MaxInbox = 1
  MaxOutbox = 1
  Recorded = {"early", "overtaken", "expired", "deleted", "lost", "again", "window", "cut"}
INVARIANTS StrangerExplained NoGhost
PROPERTIES DeletionSticks ImplementsContract UnknownDeviceForgets
