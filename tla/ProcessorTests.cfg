SPECIFICATION Spec
CONSTANTS
  EventDelays <- NoEventDelays
  CheckDelays <- NoDelays
  ConfigDelays <- MCConfigDelays
  NcsmDuration = 0
  AckDurations = {1}
  DefaultAckDuration = 3
  ScheduledDurations = {2}
  MaxTime = 4
  MaxScheduled = 0
  Nil = Nil
PROPERTY TestNotificationsAccepted
CHECK_DEADLOCK FALSE
