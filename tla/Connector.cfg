SPECIFICATION Spec
CONSTANTS
  Byte = {0, 1}
  NoByte = NoByte
  MaxFd = 3
  RecvLength = 2
  SendLength = 1
  INTERVAL = 2
  is_reconnect = TRUE
  ConnectResults = {"progress", "fail"}
  DisconnConnects = FALSE
  HandlerFails = TRUE

INVARIANTS
  TypeOK
  NoStaleBytes
  AppKnows
  NoForgottenConnection
PROPERTIES
  RunClosesItsOwn
  AnnouncedIsEstablished
  RetriesArePaced
