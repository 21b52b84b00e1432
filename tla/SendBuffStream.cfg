SPECIFICATION MCFairSpec
CONSTANTS
  Byte = {a, b}
  NoByte = NoByte
  Length = 3
  Messages <- MCMessages
  StreamBound = 7

INVARIANTS
  TypeOK
  NothingLost
  EmptyIsAllFree
PROPERTIES IsAPipe AcceptedIsSent
