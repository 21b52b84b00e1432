\* Two clients; an application that answers in its callbacks, as an echo server.
SPECIFICATION FairSpec
CONSTANTS
  NULL = NULL
  NoByte = NoByte
  Client = {c1, c2}
  Byte = {c1, c2}
  Agent = {a1, a2}
  Fd = {1, 3, 5}
  s_min_hash_size = 2
  s_bucket_size = 3
  agent_size = 2
  RecvLength = 1
  SendLength = 1
  KernelRoom = 1
  MaxSends = 2
  WritesFrom = {"handler"}
  ClosesFrom = {"app"}
  Signals = FALSE
INVARIANT NothingIsMissed
PROPERTIES
  ClosedForCause
  WaitingIsAccepted
  EndIsNoticed
  WrittenIsSent
