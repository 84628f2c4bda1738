SPECIFICATION FairSpec
CONSTANTS
  RubySenders = {r1}
  GoSenders = {g1}
  Processors = {c1, c2}
  Events = {e1, e2, e3}
  Invalid = {e2}
  ArchiveEvents = TRUE
  ExitOnQueueEmpty = FALSE
  MaxFailures = 2
  Nothing = Nothing
INVARIANTS
  TypeOK
  NoLostWakeup
  ArchiveLosesNothing
PROPERTIES
  ProcessedOnce
  TokenDrainsQueue
  TakenInOrder
CHECK_DEADLOCK FALSE
