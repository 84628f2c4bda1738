SPECIFICATION Spec
CONSTANTS
  EventDelays <- MCEventDelays
  CheckDelays <- NoDelays
  ConfigDelays <- MCConfigDelays
  NcsmDuration = 1
  AckDurations = {1}
  DefaultAckDuration = 3
  ScheduledDurations = {2}
  MaxTime = 5
  MaxScheduled = 1
  Nil = Nil
INVARIANTS
  TypeOK
  RecordsAreTrue
  AcknowledgementsEnd
  DueIsNotified
PROPERTIES
  AnnouncesInOrder
  DelaysKept
  MaintenanceIsSilent
CHECK_DEADLOCK FALSE
