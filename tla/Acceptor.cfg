\* Three clients for two agents.
SPECIFICATION Spec
SYMMETRY MCSymmetry
CONSTANTS
  Client = {c1, c2, c3}
  Agent = {a1, a2}
  Byte = {c1, c2, c3}
  NoByte = NoByte
  NULL = NULL
  MaxFd = 3
  agent_max_num = 2
  RecvLength = 1
  SendLength = 1
  KernelRoom = 1
  WritesFrom = {"app", "conn", "handler", "disconn"}
INVARIANTS TypeOK AgentsAreConnections EachHasItsTurn KnownAreLive NoCrossTalk NothingIsLeft
