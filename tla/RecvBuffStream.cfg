SPECIFICATION MCSpec
CONSTANTS
  Byte = {a, b}
  NoByte = NoByte
  Length = 3
  StreamBound = 7
  ReturnsAfterClear = {0}

INVARIANTS
  TypeOK
  NothingLost
  UsedRoomIsRoom
PROPERTY IsAPipe
