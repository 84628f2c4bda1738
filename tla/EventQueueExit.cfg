SPECIFICATION Spec
CONSTANTS
  RubySenders = {r1}
  GoSenders = {g1}
  Processors = {c1, c2}
  Events = {e1, e2, e3}
  Invalid = {e2}
  ArchiveEvents = FALSE
  ExitOnQueueEmpty = TRUE
  MaxFailures = 2
  Nothing = Nothing
INVARIANT LostByFailureOnly
PROPERTY ExitsWhenAllTaken
CHECK_DEADLOCK FALSE
