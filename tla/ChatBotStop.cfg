\* No text is given: the bot connects, joins its rooms, and is told to stop.
SPECIFICATION FairSpec
CONSTANTS
  r1 = r1
  r2 = r2
  private = private
  public = public
  alert = alert
  RoomList <- MCRoomList
  Commands = {}
  Actions = {}
  Alerts = {}
  RoomOf <- Nowhere
  Nil = Nil
  Attempts = 2
  MaxDrops = 0
  MaxRefusals = 1
PROPERTY StopIsObeyed
CHECK_DEADLOCK FALSE
