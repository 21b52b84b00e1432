------------------------------ MODULE NetAgent ------------------------------
(* hs_net/src/hs_net_agent.c: what a server keeps for a client, as values  *)
(* of struct hs_net_agent.  An agent owns its two buffers.                 *)
EXTENDS SendBuff, RecvBuff

CONSTANTS RecvLength, SendLength   \* of the buffers of every agent

ASSUME NetAgentAssumption == {RecvLength, SendLength} \subseteq Nat \ {0}

NetAgents(Fd) ==
  [socket : Fd, recv_buff : RecvBuffs(RecvLength), send_buff : SendBuffs(SendLength)]

hs_net_new_agent(sock) ==
  [socket |-> sock, recv_buff |-> hs_recvbuff_init(RecvLength),
   send_buff |-> hs_sendbuff_init(SendLength)]

(* The content of memory that is not allocated, whatever it really is.     *)
Unallocated == hs_net_new_agent(0)

(* hs_net_agent_write: the data is taken whole or not at all.              *)
hs_net_agent_write(agent, data) ==
  [agent EXCEPT !.send_buff = hs_sendbuff_write(@, data)]
=============================================================================
