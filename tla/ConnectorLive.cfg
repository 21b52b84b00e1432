SPECIFICATION FairSpec
CONSTANTS
  Byte = {0, 1}
  NoByte = NoByte
  MaxFd = 2
  RecvLength = 1
  SendLength = 1
  INTERVAL = 2
  is_reconnect = TRUE
  ConnectResults = {"progress", "fail", "ok"}
  DisconnConnects = FALSE
  HandlerFails = TRUE

PROPERTIES
  RetriesWhileDescriptorsLast
  EndIsNoticedWithRoom
