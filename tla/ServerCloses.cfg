SPECIFICATION Spec
CONSTANTS
  NULL = NULL
  NoByte = NoByte
  Client = {c1, c2, c3}
  Byte = {c1, c2, c3}
  Agent = {a1, a2}
  Fd = {1, 2}
  s_min_hash_size = 2
  s_bucket_size = 2
  agent_size = 2
  RecvLength = 1
  SendLength = 1
  KernelRoom = 1
  MaxSends = 1
  WritesFrom = {"app", "conn", "handler", "again", "other"}
  ClosesFrom = {"app", "conn", "handler", "again"}
  Signals = TRUE
INVARIANT CloseEnds
