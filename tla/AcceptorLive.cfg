\* The application answers what it is given, as the acceptor test does.
SPECIFICATION ReadersSpec
CONSTANTS
  Client = {c1, c2}
  Agent = {a1, a2}
  Byte = {c1, c2}
  NoByte = NoByte
  NULL = NULL
  MaxFd = 2
  agent_max_num = 2
  RecvLength = 1
  SendLength = 1
  KernelRoom = 1
  WritesFrom = {"handler"}
PROPERTIES RunReturns EndIsNoticed
