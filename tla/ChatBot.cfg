SPECIFICATION FairSpec
CONSTANTS
  r1 = r1
  r2 = r2
  private = private
  public = public
  alert = alert
  RoomList <- MCRoomList
  Commands = {private, public}
  Actions = {private}
  Alerts = {alert}
  RoomOf <- MCRoomOf
  Nil = Nil
  Attempts = 3
  MaxDrops = 1
  MaxRefusals = 1
INVARIANTS TypeOK SaidInOrder IdleInItsRooms
PROPERTIES CommandsAnswered StopsWhenTold
CHECK_DEADLOCK FALSE
