------------------------------ MODULE Acceptor ------------------------------
(***************************************************************************)
(* hs_net/src/hs_net_acceptor.c: a listening socket and an array of        *)
(* agents, one for each client, which hs_net_acceptor_run serves one after *)
(* the other in a single thread.  The application has control between two  *)
(* runs (pc = "app") and inside the three callbacks; the clients and the   *)
(* kernel act between any two system calls.  The sockets accept() returns  *)
(* block: only the listening one was made non-blocking.                    *)
(*                                                                         *)
(* A byte is tagged with the client that sent it or that it is meant for.  *)
(***************************************************************************)
EXTENDS Array, NetAgent, FiniteSets

CONSTANTS
  Client,          \* connections from outside
  Agent,           \* what malloc() may return for a struct hs_net_agent
  MaxFd,           \* descriptors 1 .. MaxFd are there for clients
  agent_max_num,
  KernelRoom,      \* bytes the kernel keeps for a connection, each way
  WritesFrom       \* where the application writes: values of pc in InApp

ASSUME AcceptorAssumption ==
  /\ {MaxFd, agent_max_num, KernelRoom} \subseteq Nat \ {0}
  /\ Byte = Client
  /\ NULL \notin Client \cup Agent
  /\ Agent \cap (0 .. MaxFd) = {}   \* no address is a small number
  /\ Cardinality(Agent) >= agent_max_num
  /\ WritesFrom \subseteq {"app", "conn", "handler", "disconn"}

VARIABLES
  (* struct hs_net_acceptor *)
  listening,  \* its socket is open
  agents,
  (* the heap *)
  live,       \* the agents that are allocated
  heap,       \* and what they hold
  (* control *)
  pc,
  i,          \* the loop variable of run() and of uninit()
  (* the kernel and the clients *)
  sock,       \* the client at the other end of each descriptor
  queue,      \* clients that wait to be accepted, first come first
  client,     \* what a client has done with its connection
  inq, outq,  \* bytes on their way from and to each client
  (* the application and history *)
  known,      \* the agents the application was told of
  turns       \* the times each agent was served in this run, 2 for many

acceptor == <<listening, agents>>
memory == <<live, heap>>
control == <<pc, i, turns>>
kernel == <<sock, queue, client, inq, outq>>
vars == <<acceptor, memory, control, kernel, known>>

Fd == 1 .. MaxFd

NoTurns == [a \in Agent |-> 0]

KnownAgents == [agent : Agent, fd : Fd, client : Client]

TypeOK ==
  /\ listening \in BOOLEAN
  /\ agents.elems \in Seq(Agent) /\ hs_array_elem_num(agents) <= agent_max_num
  /\ agents.capacity = agent_max_num
  /\ live \subseteq Agent
  /\ heap \in [Agent -> NetAgents(Fd \cup {0})]
  /\ pc \in {"app", "conn", "loop", "handler", "send", "disconn", "closing", "gone"}
  /\ i \in 0 .. agent_max_num
  /\ sock \in [Fd -> Client \cup {NULL}]
  /\ queue \in Seq(Client)
  /\ client \in [Client -> {"away", "up", "fin", "rst"}]
  /\ \A c \in Client : /\ inq[c] \in Seq(Byte) /\ Len(inq[c]) <= KernelRoom
                       /\ outq[c] \in Seq(Byte) /\ Len(outq[c]) <= KernelRoom
  /\ known \subseteq KnownAgents
  /\ turns \in [Agent -> 0 .. 2]

(* The acceptor as hs_net_acceptor_init leaves it.                         *)
Init ==
  /\ listening = TRUE
  /\ agents = hs_array_create(agent_max_num)
  /\ live = {} /\ heap = [a \in Agent |-> Unallocated]
  /\ pc = "app" /\ i = 0 /\ turns = NoTurns
  /\ sock = [f \in Fd |-> NULL]
  /\ queue = <<>> /\ client = [c \in Client |-> "away"]
  /\ inq = [c \in Client |-> <<>>] /\ outq = [c \in Client |-> <<>>]
  /\ known = {}

InApp == pc \in {"app", "conn", "handler", "disconn"}

FreeFds == {f \in Fd : sock[f] = NULL}

-----------------------------------------------------------------------------
(* _listen_socket_run, the first thing a run does                          *)

StartLoop == pc' = "loop" /\ i' = 0

(* select() fails: the run is over before any agent had its turn.          *)
ListenSelectFails ==
  /\ pc = "app" /\ listening
  /\ UNCHANGED vars

ListenNothing ==
  /\ pc = "app" /\ listening
  /\ queue = <<>>
  /\ StartLoop
  /\ UNCHANGED <<acceptor, memory, kernel, known, turns>>

(* No descriptor is left, or another reason: the client waits on.          *)
AcceptFails ==
  /\ pc = "app" /\ listening
  /\ queue # <<>>
  /\ StartLoop
  /\ UNCHANGED <<acceptor, memory, kernel, known, turns>>

HasPlace == hs_array_elem_num(agents) < hs_array_capacity(agents)

(* Accepted, and closed at once: the array is full.                        *)
TurnAway ==
  /\ pc = "app" /\ listening
  /\ queue # <<>> /\ FreeFds # {} /\ ~ HasPlace
  /\ queue' = Tail(queue)
  /\ client' = [client EXCEPT ![Head(queue)] = "away"]
  /\ inq' = [inq EXCEPT ![Head(queue)] = <<>>]
  /\ StartLoop
  /\ UNCHANGED <<acceptor, memory, sock, outq, known, turns>>

Accept ==
  /\ pc = "app" /\ listening
  /\ queue # <<>> /\ FreeFds # {} /\ HasPlace
  /\ queue' = Tail(queue)
  /\ \E a \in Agent \ live :
       LET new_fd == CHOOSE f \in FreeFds : \A g \in FreeFds : f <= g
           c == Head(queue)
       IN  /\ sock' = [sock EXCEPT ![new_fd] = c]
           /\ live' = live \cup {a}
           /\ heap' = [heap EXCEPT ![a] = hs_net_new_agent(new_fd)]
           /\ agents' = hs_array_push_elem(agents, a)
           /\ known' = known \cup {[agent |-> a, fd |-> new_fd, client |-> c]}
  /\ pc' = "conn"
  /\ UNCHANGED <<listening, i, client, inq, outq, turns>>

ConnReturns ==
  /\ pc = "conn"
  /\ StartLoop
  /\ UNCHANGED <<acceptor, memory, kernel, known, turns>>

-----------------------------------------------------------------------------
(* _agent_destroy, up to and with the disconnection callback               *)

(* Faulty variant: the agent itself is looked for.                         *)
WithoutAgent(a) == hs_array_delete_first(agents, a)

(* The socket number is looked for among the agents: none is found.        *)
WithoutSocket(a) == hs_array_delete_first(agents, heap[a].socket)

(* Faulty variant: the descriptor stays open.                              *)
StillOpen(f) == sock

Closed(f) == [sock EXCEPT ![f] = NULL]

(* Faulty variant: the application is not told.                            *)
NotTold(f) == known

(* The application forgets the agent whose socket the callback names.      *)
KnownWithout(f) == {k \in known : k.fd # f}

_agent_destroy(a) ==
  LET s == heap[a].socket
      c == sock[s]
  IN  /\ sock' = Closed(s)
      /\ client' = [client EXCEPT ![c] = "away"]
      /\ inq' = [inq EXCEPT ![c] = <<>>] /\ outq' = [outq EXCEPT ![c] = <<>>]
      /\ agents' = WithoutSocket(a)
      /\ live' = live \ {a}
      /\ heap' = [heap EXCEPT ![a] = Unallocated]
      /\ known' = KnownWithout(s)
      /\ pc' = "disconn"
      /\ UNCHANGED <<listening, queue>>

-----------------------------------------------------------------------------
(* hs_net_acceptor_run, the loop, and _agent_socket_run                    *)

agent == hs_array_get_elem(agents, i)
AtAgent == pc = "loop" /\ i < hs_array_elem_num(agents)
Peer == sock[heap[agent].socket]
Arrived == inq[Peer]
recv_buff == heap[agent].recv_buff
send_buff == heap[agent].send_buff

HasRoom == hs_recvbuff_leftwrite(recv_buff) > 0
Readable == Arrived # <<>> \/ client[Peer] # "up"
SelectSaysWritable == Len(outq[Peer]) < KernelRoom \/ client[Peer] = "rst"

ServeAgent == turns' = [turns EXCEPT ![agent] = IF @ = 0 THEN 1 ELSE 2]

(* Faulty variant: the path that goes on does not count.                   *)
SameAgent == i' = i

NextAgent == i' = i + 1

AgentSelectFails ==
  /\ AtAgent /\ ServeAgent
  /\ _agent_destroy(agent)
  /\ UNCHANGED i

AgentIdle ==
  /\ AtAgent /\ ServeAgent
  /\ ~ Readable /\ ~ SelectSaysWritable
  /\ NextAgent
  /\ UNCHANGED <<acceptor, memory, pc, kernel, known>>

AgentReadsNothing ==
  /\ AtAgent /\ ServeAgent
  /\ ~ Readable /\ SelectSaysWritable
  /\ pc' = "send"
  /\ UNCHANGED <<acceptor, memory, i, kernel, known>>

(* A full buffer is not received into; its content is offered once more.   *)
AgentReceives ==
  /\ AtAgent /\ ServeAgent /\ Readable
  /\ \/ /\ ~ HasRoom
        /\ UNCHANGED <<heap, inq>>
     \/ \E n \in 1 .. Len(Arrived) :
          /\ n <= hs_recvbuff_leftwrite(recv_buff)
          /\ heap' = [heap EXCEPT ![agent].recv_buff = Received(@, SubSeq(Arrived, 1, n))]
          /\ inq' = [inq EXCEPT ![Peer] = SubSeq(@, n + 1, Len(@))]
  /\ pc' = "handler"
  /\ UNCHANGED <<acceptor, live, i, sock, queue, client, outq, known>>

(* Faulty variant: the end of a connection is taken for an empty read.     *)
AgentIgnoresEnd ==
  /\ AtAgent /\ ServeAgent /\ Readable
  /\ HasRoom /\ Arrived = <<>>
  /\ pc' = "send"
  /\ UNCHANGED <<acceptor, memory, i, kernel, known>>

(* recv() returns 0 or -1.                                                 *)
AgentReceivesEnd ==
  /\ AtAgent /\ ServeAgent /\ Readable
  /\ HasRoom /\ Arrived = <<>>
  /\ _agent_destroy(agent)
  /\ UNCHANGED i

HandlerReturns ==
  /\ pc = "handler"
  /\ \E n \in 0 .. hs_recvbuff_leftread(recv_buff) :
       heap' = [heap EXCEPT ![agent].recv_buff = Handled(@, n)]
  /\ pc' = "send"
  /\ UNCHANGED <<acceptor, live, i, kernel, known, turns>>

HandlerFails ==
  /\ pc = "handler"
  /\ _agent_destroy(agent)
  /\ UNCHANGED <<i, turns>>

(* send() is called whether select() said writable or not, and blocks as   *)
(* long as the kernel has no room.                                         *)
AgentSends ==
  /\ pc = "send"
  /\ \/ /\ CanSend(send_buff) = 0
        /\ UNCHANGED <<heap, outq>>
     \/ /\ client[Peer] # "rst"
        /\ \E s \in 1 .. CanSend(send_buff) :
             /\ s <= KernelRoom - Len(outq[Peer])
             /\ outq' = [outq EXCEPT ![Peer] = @ \o SubSeq(Unsent(send_buff), 1, s)]
             /\ heap' = [heap EXCEPT ![agent].send_buff = Sent(@, s)]
  /\ pc' = "loop" /\ NextAgent
  /\ UNCHANGED <<acceptor, live, sock, queue, client, inq, known, turns>>

AgentSendFails ==
  /\ pc = "send"
  /\ CanSend(send_buff) > 0 /\ client[Peer] = "rst"
  /\ _agent_destroy(agent)
  /\ UNCHANGED <<i, turns>>

(* Faulty variant: the loop goes on behind the agent it has deleted.       *)
GoesOnBehind ==
  /\ agents' = hs_array_delete_byindex(agents, i)
  /\ i' = i + 1

DeletesAgent ==
  /\ agents' = hs_array_delete_byindex(agents, i)
  /\ i' = i

(* The callback of an agent destroyed by a run returns.                    *)
DisconnReturns ==
  /\ pc = "disconn" /\ listening
  /\ DeletesAgent
  /\ pc' = "loop"
  /\ UNCHANGED <<listening, memory, kernel, known, turns>>

RunEnds ==
  /\ pc = "loop"
  /\ i >= hs_array_elem_num(agents)
  /\ pc' = "app" /\ i' = 0 /\ turns' = NoTurns
  /\ UNCHANGED <<acceptor, memory, kernel, known>>

-----------------------------------------------------------------------------
(* hs_net_acceptor_uninit                                                  *)

Uninit ==
  /\ pc = "app" /\ listening
  /\ listening' = FALSE
  /\ queue' = <<>>
  /\ client' = [c \in Client |-> IF c \in Range(queue) THEN "away" ELSE client[c]]
  /\ inq' = [c \in Client |-> IF c \in Range(queue) THEN <<>> ELSE inq[c]]
  /\ pc' = "closing"
  /\ UNCHANGED <<agents, memory, i, sock, outq, known, turns>>

UninitAgent ==
  /\ pc = "closing"
  /\ i < hs_array_elem_num(agents)
  /\ _agent_destroy(agent)
  /\ UNCHANGED <<i, turns>>

UninitDisconnReturns ==
  /\ pc = "disconn" /\ ~ listening
  /\ pc' = "closing"
  /\ i' = i + 1
  /\ UNCHANGED <<acceptor, memory, kernel, known, turns>>

UninitEnds ==
  /\ pc = "closing"
  /\ i >= hs_array_elem_num(agents)
  /\ pc' = "gone"
  /\ UNCHANGED <<acceptor, memory, i, kernel, known, turns>>

-----------------------------------------------------------------------------
(* hs_net_agent_write, by the application, to an agent it was told of      *)

AppWrites ==
  /\ pc \in WritesFrom
  /\ \E k \in known :
       /\ Writable(heap[k.agent].send_buff, <<k.client>>)
       /\ heap' = [heap EXCEPT ![k.agent] = hs_net_agent_write(@, <<k.client>>)]
  /\ UNCHANGED <<acceptor, live, control, kernel, known>>

-----------------------------------------------------------------------------
(* The clients                                                             *)

ClientConnects(c) ==
  /\ listening
  /\ client[c] = "away"
  /\ client' = [client EXCEPT ![c] = "up"]
  /\ queue' = Append(queue, c)
  /\ UNCHANGED <<acceptor, memory, control, sock, inq, outq, known>>

ClientSends(c) ==
  /\ client[c] = "up" /\ Len(inq[c]) < KernelRoom
  /\ inq' = [inq EXCEPT ![c] = Append(@, c)]
  /\ UNCHANGED <<acceptor, memory, control, sock, queue, client, outq, known>>

ClientReads(c) ==
  /\ outq[c] # <<>>
  /\ outq' = [outq EXCEPT ![c] = Tail(@)]
  /\ UNCHANGED <<acceptor, memory, control, sock, queue, client, inq, known>>

ClientCloses(c) ==
  /\ client[c] = "up"
  /\ client' = [client EXCEPT ![c] = "fin"]
  /\ UNCHANGED <<acceptor, memory, control, sock, queue, inq, outq, known>>

ClientResets(c) ==
  /\ client[c] \in {"up", "fin"}
  /\ client' = [client EXCEPT ![c] = "rst"]
  /\ outq' = [outq EXCEPT ![c] = <<>>]
  /\ UNCHANGED <<acceptor, memory, control, sock, queue, inq, known>>

-----------------------------------------------------------------------------
Listen == ListenNothing \/ AcceptFails \/ TurnAway \/ Accept \/ ConnReturns

ServeAgents ==
  \/ AgentIdle \/ AgentReadsNothing \/ AgentReceives \/ AgentReceivesEnd
  \/ HandlerReturns \/ AgentSends \/ AgentSendFails \/ DisconnReturns \/ RunEnds

Close == UninitAgent \/ UninitDisconnReturns \/ UninitEnds

(* After uninit only the application is left.                              *)
Gone == pc = "gone" /\ UNCHANGED vars

Next ==
  \/ Listen \/ ListenSelectFails
  \/ ServeAgents \/ AgentSelectFails \/ HandlerFails
  \/ Uninit \/ Close \/ Gone
  \/ AppWrites
  \/ \E c \in Client : \/ ClientConnects(c) \/ ClientSends(c) \/ ClientReads(c)
                       \/ ClientCloses(c) \/ ClientResets(c)

Spec == Init /\ [][Next]_vars

(* The main loop calls run() until it calls uninit(), callbacks return,    *)
(* and accept() does not fail for ever.  Nothing is assumed of the         *)
(* clients,                                                                *)
Fairness ==
  /\ WF_vars(Listen) /\ WF_vars(ServeAgents) /\ WF_vars(Close)
  /\ SF_vars(Accept \/ TurnAway)

FairSpec == Spec /\ Fairness

(* or only that they read what they are sent.                              *)
ReadersSpec == FairSpec /\ \A c \in Client : WF_vars(ClientReads(c))

-----------------------------------------------------------------------------
Elems == Range(agents.elems)

(* Between two runs the array holds each allocated agent once, and their   *)
(* sockets are, one to one, the open descriptors: no descriptor or agent   *)
(* is leaked, closed twice or freed twice, although _agent_destroy looks   *)
(* for a socket among the agents, and the loop deletes at the index again. *)
AgentsAreConnections ==
  pc = "app" =>
    /\ IsInjective(agents.elems) /\ Elems = live
    /\ {heap[a].socket : a \in live} = Fd \ FreeFds
    /\ Cardinality(live) = Cardinality(Fd \ FreeFds)

(* When the loop ends every agent of the array has had its turn, and none  *)
(* had two, although agents were deleted under the loop's index.           *)
EachHasItsTurn ==
  pc = "loop" /\ i >= hs_array_elem_num(agents) =>
    \A a \in Agent : turns[a] <= 1 /\ (a \in Elems => turns[a] = 1)

(* Wherever the application has control, the agents it was told of are     *)
(* allocated and have the sockets it knows: it may write to any of them.   *)
KnownAreLive ==
  InApp => \A k \in known : k.agent \in live /\ heap[k.agent].socket = k.fd

(* Descriptors and agents are used again at once by the next client, and   *)
(* no byte of one client is taken for one of another, on either way.       *)
NoCrossTalk ==
  /\ \A a \in live :
       LET c == sock[heap[a].socket]
           x == heap[a].recv_buff
           y == heap[a].send_buff
       IN  Range(Offered(x)) \cup Range(Unsent(y)) \subseteq {c}
  /\ \A c \in Client : Range(inq[c]) \cup Range(outq[c]) \subseteq {c}

(* uninit() closes every socket and frees every agent (hs_net_acceptor.c:  *)
(* 97), and the application has heard of each.                             *)
NothingIsLeft == pc = "gone" => FreeFds = Fd /\ live = {} /\ known = {}

(* A run returns to the application.                                       *)
RunReturns == pc # "app" ~> pc \in {"app", "gone"}

AgentOf(c) == {a \in live : sock[heap[a].socket] = c}

(* The end of a connection is noticed, whatever the other clients do, as   *)
(* long as the handler leaves room to receive it - also for a client that  *)
(* ended before it was accepted.                                           *)
EndIsNoticed ==
  \A c \in Client :
    client[c] \in {"fin", "rst"}
      ~> \/ client[c] = "away"
         \/ \E a \in AgentOf(c) : hs_recvbuff_leftwrite(heap[a].recv_buff) = 0
=============================================================================
