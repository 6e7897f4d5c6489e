SPECIFICATION Overtaken
CONSTANTS
  slow = slow
  desk = desk
  Racers = {1, 2, 3, 4, 5, 6, 7, 8, 9, 10, 11, 12, 13, 14, 15, 16, 17, 18, 19, 20, 21, 22, 23, 24, 25, 26, 27, 28, 29, 30}
  Early = {1, 2, 3, 4, 5, 6, 7, 8, 9, 10, 11, 12, 13, 14, 15, 16, 17, 18, 19, 20, 21, 22, 23, 24, 25, 26, 27, 28, 29, 30}
  MayLeave = {}
  Clients = {slow, desk}
  Capacity = 4
  FinalCapacity = 6
  MinimumHeatSize = 3
  MaxHeat = 7
  OvertakeReopening = FALSE
  OvertakeClosing = TRUE
  LeaveDuringPairing = FALSE
CHECK_DEADLOCK FALSE
INVARIANT SlotsContiguous
