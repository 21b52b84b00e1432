------------------------------- MODULE Server -------------------------------
(***************************************************************************)
(* hs_net/src/hs_net_server.c with hs_net_agent_close: a listening socket  *)
(* and a hash map of agents, served by the batches of edge-triggered       *)
(* events that epoll_wait hands out.  The application has control between  *)
(* two runs (pc = "app") and inside the callbacks of a new connection      *)
(* ("conn") and of received data ("handler", and "again" when the buffer   *)
(* was full and could not be received into).  Clients and kernel act       *)
(* between any two system calls.                                           *)
(*                                                                         *)
(* A byte is tagged with the client that sent it or that it is meant for.  *)
(***************************************************************************)
EXTENDS HashMap, NetAgent, SequencesExt

CONSTANTS
  Client,          \* connections from outside
  Agent,           \* what malloc() may return for a struct hs_net_agent
  Fd,              \* the descriptors that are there for clients
  agent_size,      \* what the map and the batch of events are created for
  KernelRoom,      \* bytes the kernel keeps for a connection, each way
  MaxSends,        \* bytes the clients send over their connections, together
  WritesFrom,      \* where the application writes: values of pc, and "other"
                   \*   for handlers that write to agents of other clients
  ClosesFrom,      \* where it closes agents, in a handler those of others
  Signals          \* whether accept() and recv() may be interrupted

(* With 128 buckets of 8 slots the descriptors below 1024, the usual limit  *)
(* of a process, never fill a bucket.                                      *)
EachHasASlot == \A f \in Fd :
  LET size == hs_hashmap_create(agent_size).size
  IN  Cardinality({g \in Fd : g % size = f % size}) <= s_bucket_size

ASSUME ServerAssumption ==
  /\ {agent_size, KernelRoom, MaxSends} \cup Fd \subseteq Nat \ {0}
  /\ IsFiniteSet(Fd) /\ IsFiniteSet(Client)
  /\ Byte = Client
  /\ NULL \notin Client \cup Agent
  /\ LET Pair == [key : Fd, value : Agent]
     IN  NULL \notin Pair \cup [Slot -> {NULL} \cup Pair]
  /\ Cardinality(Agent) >= Min({Cardinality(Fd), Cardinality(Client)})
  /\ EachHasASlot
  /\ WritesFrom \subseteq {"app", "conn", "handler", "again", "other"}
  /\ ClosesFrom \subseteq {"app", "conn", "handler", "again"}
  /\ Signals \in BOOLEAN

VARIABLES
  (* struct hs_net_server *)
  agents,     \* the agent of each descriptor
  events,     \* those of the batch that are not processed yet
  agent,      \* what process_event found for the first of them
  (* the heap *)
  live,       \* the agents whose buffers are allocated
  heap,       \* and what they hold
  (* control *)
  pc,
  (* the kernel and the clients *)
  sock,       \* the client at the other end of each descriptor
  ready,      \* descriptors with news for epoll_wait, oldest first
  queue,      \* clients that wait to be accepted, first come first
  client,     \* what a client has done with its connection
  sent,       \* the bytes it sent over it
  inq, outq,  \* bytes on their way from and to each client
  (* the application *)
  known       \* the agents it was told of

batch == <<events, agent>>
memory == <<agents, live, heap>>
links == <<sock, client, inq, outq>>
vars == <<memory, batch, pc, links, ready, queue, sent, known>>

listen_socket == 0

(* Faulty variant: the listening socket is counted, but has no place.      *)
AgentsAndListener == agent_size + 1

events_maxnum == agent_size

Mask == SUBSET {"IN", "OUT", "RDHUP", "ERR"}

Down == {"gone", "crashed", "hangs"}

TypeOK ==
  /\ agents \in HashMaps(agents.size, Fd, Agent) /\ ~ agents.dangling
  /\ events \in Seq([fd : Fd \cup {listen_socket}, events : Mask])
  /\ Len(events) <= agent_size   \* what is allocated for them
  /\ agent \in Agent \cup {NULL}
  /\ live \subseteq Agent
  /\ heap \in [Agent -> NetAgents(Fd \cup {0})]
  /\ pc \in {"app", "accept", "conn", "recv", "handler", "again", "send", "ends"}
            \cup Down
  /\ sock \in [Fd -> Client \cup {NULL}]
  /\ ready \in Seq(Fd \cup {listen_socket}) /\ IsInjective(ready)
  /\ queue \in Seq(Client)
  /\ client \in [Client -> {"away", "up", "fin", "rst"}]
  /\ sent \in [Client -> Nat]
  /\ \A c \in Client : /\ inq[c] \in Seq(Byte) /\ Len(inq[c]) <= KernelRoom
                       /\ outq[c] \in Seq(Byte) /\ Len(outq[c]) <= KernelRoom
  /\ known \subseteq [agent : Agent, fd : Fd, client : Client]

(* The server as hs_net_server_create leaves it, callbacks registered.     *)
Init ==
  /\ agents = hs_hashmap_create(agent_size)
  /\ events = <<>> /\ agent = NULL
  /\ live = {} /\ heap = [a \in Agent |-> Unallocated]
  /\ pc = "app"
  /\ sock = [f \in Fd |-> NULL]
  /\ ready = <<>> /\ queue = <<>>
  /\ client = [c \in Client |-> "away"] /\ sent = [c \in Client |-> 0]
  /\ inq = [c \in Client |-> <<>>] /\ outq = [c \in Client |-> <<>>]
  /\ known = {}

FreeFds == {f \in Fd : sock[f] = NULL}

-----------------------------------------------------------------------------
(* epoll, edge triggered: a descriptor with news becomes ready, and a wait *)
(* that reports it takes it from the list.  What it reports is the state   *)
(* of that moment.                                                         *)

Woken(fds) ==   \* for one descriptor or none
  LET new == {f \in fds : ~ Contains(ready, f)}
  IN  IF new = {} THEN ready ELSE Append(ready, CHOOSE f \in new : TRUE)

FdsOf(c) == {f \in Fd : sock[f] = c}

(* The mask of a descriptor now; EPOLLHUP comes with EPOLLERR.             *)
Reports(f) ==
  IF f = listen_socket THEN IF queue # <<>> THEN {"IN"} ELSE {}
  ELSE LET c == sock[f]
       IN  {e \in {"IN"} : inq[c] # <<>> \/ client[c] \in {"fin", "rst"}}
            \cup {e \in {"OUT"} : Len(outq[c]) < KernelRoom \/ client[c] = "rst"}
            \cup {e \in {"RDHUP"} : client[c] \in {"fin", "rst"}}
            \cup {e \in {"ERR"} : client[c] = "rst"}

-----------------------------------------------------------------------------
(* hs_net_agent_close                                                      *)

(* Faulty variant: the descriptor stays open.                              *)
StillOpen(f) == sock

Closed(f) == [sock EXCEPT ![f] = NULL]

WithoutAgent(f) == hs_hashmap_delete(agents, f)

(* Faulty variant: the application is not told.                            *)
NotTold(f) == known

(* The disconnection callback: the application forgets the agent whose     *)
(* socket it names.                                                        *)
KnownWithout(f) == {k \in known : k.fd # f}

(* The two buffers are freed.  The struct never is: each close leaks one,  *)
(* which keeps its socket and to which nothing refers any more.  Its name  *)
(* stands for a later agent here, so that few agents do; the next malloc() *)
(* gives another address.                                                  *)
hs_net_agent_close(a) ==
  LET s == heap[a].socket
      c == sock[s]
  IN  /\ sock' = Closed(s)
      /\ ready' = RemoveFirst(ready, s)
      /\ client' = [client EXCEPT ![c] = "away"]
      /\ inq' = [inq EXCEPT ![c] = <<>>] /\ outq' = [outq EXCEPT ![c] = <<>>]
      /\ agents' = WithoutAgent(s)
      /\ live' = live \ {a}
      /\ heap' = [heap EXCEPT ![a] = hs_net_new_agent(s)]
      /\ known' = KnownWithout(s)
      /\ sent' = [sent EXCEPT ![c] = 0]
      /\ UNCHANGED queue

-----------------------------------------------------------------------------
(* hs_net_server_close: the walk over the map asks the iterator for its    *)
(* pair and then whether there are more, until there are not.              *)

(* After the first agent `data' still points to it: it is closed again,    *)
(* with buffers that are freed.  Before there was any, it stays NULL.      *)
Walk ==
  LET first == hs_hashmap_iter_data(agents)
      more == hs_hashmap_iter_next(agents)
  IN  /\ pc' = CASE more = "crashes" -> "crashed"
                 [] more = "none" -> "gone"
                 [] more = "more" /\ first # NULL -> "crashed"
                 [] OTHER -> "hangs"
      /\ IF first # NULL THEN hs_net_agent_close(first)
         ELSE UNCHANGED <<memory, links, ready, queue, sent, known>>
      /\ events' = <<>> /\ agent' = NULL

(* Asked for by the application, or because epoll_wait failed.             *)
ServerCloses == pc = "app" /\ Walk

-----------------------------------------------------------------------------
(* hs_net_server_run and hs_net_server_process_event: one batch            *)

ee == Head(events)
Peer == sock[heap[agent].socket]
recv_buff == heap[agent].recv_buff
send_buff == heap[agent].send_buff

CanRecv(a) == IF hs_recvbuff_leftwrite(heap'[a].recv_buff) > 0 THEN "recv" ELSE "again"

(* Faulty variant: the event is not asked whether there is room.           *)
SendsAnyway(e, a) == CanSend(heap'[a].send_buff) > 0

HasToSend(e, a) == "OUT" \in e.events /\ CanSend(heap'[a].send_buff) > 0

IsEnd(e) == e.events \cap {"ERR", "RDHUP"} # {}

(* Whether an event makes the server do anything: its agent may have been  *)
(* closed since the wait (HS_NET_NOT_FOUND_AGENT), or have nothing to send.*)
Effective(e) ==
  \/ e.fd = listen_socket
  \/ LET a == hs_hashmap_find(agents', e.fd)
     IN  a # NULL /\ ("IN" \in e.events \/ HasToSend(e, a) \/ IsEnd(e))

(* The first system call or callback for an event that has an effect.      *)
Entry(e) ==
  CASE e.fd = listen_socket -> "accept"
    [] e.fd # listen_socket /\ "IN" \in e.events -> CanRecv(agent')
    [] e.fd # listen_socket /\ "IN" \notin e.events ->
         IF HasToSend(e, agent') THEN "send" ELSE "ends"

(* Goes on to the first event of es that has an effect, or returns.        *)
Process(es) ==
  \E n \in 0 .. Len(es) :
    /\ \A j \in 1 .. n : ~ Effective(es[j])
    /\ events' = SubSeq(es, n + 1, Len(es))
    /\ IF n = Len(es) THEN agent' = NULL /\ pc' = "app"
       ELSE /\ Effective(es[n + 1])
            /\ agent' = hs_hashmap_find(agents', es[n + 1].fd)
            /\ pc' = Entry(es[n + 1])

NextEvent == \E rest \in {Tail(events)} : Process(rest)

(* The list is walked from the oldest descriptor on, until the batch is    *)
(* full: those with nothing to report leave it, the others are reported.   *)
WaitEvents ==
  /\ pc = "app"
  /\ UNCHANGED <<memory, links, queue, sent, known>>
  /\ \E polled \in {{p \in 1 .. Len(ready) : Reports(ready[p]) # {}}} :
     \E n \in {Min({events_maxnum, Cardinality(polled)})} :
     \E at \in [1 .. n -> polled] :
       /\ \A j \in 1 .. n : Cardinality({q \in polled : q <= at[j]}) = j
       /\ ready' = IF n < events_maxnum THEN <<>> ELSE SubSeq(ready, at[n] + 1, Len(ready))
       /\ \E reported \in {[j \in 1 .. n |->
                              [fd |-> ready[at[j]], events |-> Reports(ready[at[j]])]]} :
            Process(reported)

-----------------------------------------------------------------------------
(* _accept_event                                                           *)

(* The kernel takes a descriptor before it looks for a client, so that     *)
(* EAGAIN needs one that is free.                                          *)
AcceptedAll ==
  /\ pc = "accept" /\ queue = <<>> /\ FreeFds # {}
  /\ UNCHANGED <<memory, links, ready, queue, sent, known>>
  /\ NextEvent

AcceptInterrupted ==
  /\ pc = "accept" /\ Signals
  /\ UNCHANGED <<memory, links, ready, queue, sent, known>>
  /\ NextEvent

(* No descriptor is left, or another error of one client's: the server is  *)
(* closed.                                                                 *)
AcceptFails ==
  /\ pc = "accept" /\ (queue # <<>> \/ FreeFds = {})
  /\ Walk

(* The descriptor can be written to at once, so that adding it to epoll    *)
(* makes it ready.                                                         *)
Accept ==
  /\ pc = "accept" /\ queue # <<>> /\ FreeFds # {}
  /\ LET a == CHOOSE x \in Agent : x \notin live
         new_fd == Min(FreeFds)
         c == Head(queue)
     IN  /\ sock' = [sock EXCEPT ![new_fd] = c]
         /\ ready' = Append(ready, new_fd)
         /\ live' = live \cup {a}
         /\ heap' = [heap EXCEPT ![a] = hs_net_new_agent(new_fd)]
         /\ agents' = hs_hashmap_insert(agents, new_fd, a)
         /\ IF Inserts(agents, new_fd)
            THEN /\ known' = known \cup {[agent |-> a, fd |-> new_fd, client |-> c]}
                 /\ pc' = "conn" /\ UNCHANGED batch
            ELSE UNCHANGED known /\ NextEvent
  /\ queue' = Tail(queue)
  /\ UNCHANGED <<client, inq, outq, sent>>

(* Faulty variant: one client is accepted for one event.                   *)
AcceptNoMore == NextEvent

AcceptOn == pc' = "accept" /\ UNCHANGED batch

ConnReturns ==
  /\ pc = "conn"
  /\ UNCHANGED <<memory, links, ready, queue, sent, known>>
  /\ AcceptOn

-----------------------------------------------------------------------------
(* _recv_event, with room in the buffer                                    *)

(* All there is, or all there is room for.                                 *)
Recv ==
  /\ pc = "recv"
  /\ inq[Peer] # <<>>
  /\ LET n == Min({Len(inq[Peer]), hs_recvbuff_leftwrite(recv_buff)})
     IN  /\ heap' = [heap EXCEPT ![agent].recv_buff = Received(@, SubSeq(inq[Peer], 1, n))]
         /\ inq' = [inq EXCEPT ![Peer] = SubSeq(@, n + 1, Len(@))]
  /\ pc' = "handler"
  /\ UNCHANGED <<agents, live, batch, sock, client, outq, ready, queue, sent, known>>

(* The end of process_event once sending is done or there is none to do.   *)
AfterSend ==
  IF IsEnd(ee) THEN pc' = "ends" /\ UNCHANGED batch ELSE NextEvent

(* Faulty variant: an event is for receiving or for sending, not both.    *)
NoSendAfterRecv == AfterSend

AfterRecv ==
  IF HasToSend(ee, agent) THEN pc' = "send" /\ UNCHANGED batch ELSE AfterSend

(* EAGAIN, or 0 for the end.                                               *)
RecvNothing ==
  /\ pc = "recv"
  /\ inq[Peer] = <<>> /\ client[Peer] # "rst"
  /\ UNCHANGED <<memory, links, ready, queue, sent, known>>
  /\ AfterRecv

(* The connection was reset, or a signal came.                             *)
RecvFails ==
  /\ pc = "recv"
  /\ Signals \/ (inq[Peer] = <<>> /\ client[Peer] = "rst")
  /\ hs_net_agent_close(agent)
  /\ NextEvent

(* Faulty variant: the loop of _recv_event ends with what one recv() got.  *)
RecvNoMore(n) == AfterRecv

(* The loop goes on, unless the handler used nothing of a full buffer.     *)
AfterHandler(n) ==
  IF pc = "again" /\ n = 0 THEN AfterRecv
  ELSE pc' = CanRecv(agent) /\ UNCHANGED batch

(* A full buffer is not received into; its content is offered once more.   *)
HandlerReturns ==
  /\ pc \in {"handler", "again"}
  /\ UNCHANGED <<agents, live, links, ready, queue, sent, known>>
  /\ \E n \in 0 .. hs_recvbuff_leftread(recv_buff) :
       /\ heap' = [heap EXCEPT ![agent].recv_buff = Handled(@, n)]
       /\ AfterHandler(n)

HandlerFails ==
  /\ pc \in {"handler", "again"}
  /\ hs_net_agent_close(agent)
  /\ NextEvent

-----------------------------------------------------------------------------
(* _send_event                                                             *)

Room == KernelRoom - Len(outq[Peer])

(* send() takes all, or all there is room for.                             *)
Send ==
  /\ pc = "send"
  /\ client[Peer] # "rst" /\ Room > 0
  /\ UNCHANGED <<agents, live, sock, client, inq, ready, queue, sent, known>>
  /\ LET s == Min({CanSend(send_buff), Room})
     IN  /\ outq' = [outq EXCEPT ![Peer] = @ \o SubSeq(Unsent(send_buff), 1, s)]
         /\ heap' = [heap EXCEPT ![agent].send_buff = Sent(@, s)]
  /\ AfterSend

SendFails ==
  /\ pc = "send"
  /\ client[Peer] = "rst" \/ Room = 0
  /\ hs_net_agent_close(agent)
  /\ NextEvent

(* Faulty variant: ending is left to recv(), which returned 0.             *)
EndIsLeftToRecv ==
  /\ pc = "ends"
  /\ UNCHANGED <<memory, links, ready, queue, sent, known>>
  /\ NextEvent

ClientDisconnect ==
  /\ pc = "ends"
  /\ hs_net_agent_close(agent)
  /\ NextEvent

-----------------------------------------------------------------------------
(* The application, with an agent it was told of                           *)

InHandler == pc \in {"handler", "again"}

AppWrites ==
  /\ pc \in WritesFrom
  /\ \E k \in known :
       /\ InHandler /\ "other" \notin WritesFrom => k.agent = agent
       /\ Writable(heap[k.agent].send_buff, <<k.client>>)
       /\ heap' = [heap EXCEPT ![k.agent] = hs_net_agent_write(@, <<k.client>>)]
  /\ UNCHANGED <<agents, live, batch, pc, links, ready, queue, sent, known>>

AppCloses ==
  /\ pc \in ClosesFrom
  /\ \E k \in known :
       /\ InHandler => k.agent # agent
       /\ hs_net_agent_close(k.agent)
  /\ UNCHANGED <<batch, pc>>

-----------------------------------------------------------------------------
(* The clients                                                             *)

ClientConnects(c) ==
  /\ client[c] = "away"
  /\ client' = [client EXCEPT ![c] = "up"]
  /\ queue' = Append(queue, c)
  /\ ready' = Woken({listen_socket})
  /\ UNCHANGED <<memory, batch, pc, sock, inq, outq, sent, known>>

ClientSends(c) ==
  /\ client[c] = "up"
  /\ Len(inq[c]) < KernelRoom
  /\ MapThenSumSet(LAMBDA d : sent[d], Client) < MaxSends
  /\ inq' = [inq EXCEPT ![c] = Append(@, c)]
  /\ sent' = [sent EXCEPT ![c] = @ + 1]
  /\ ready' = Woken(FdsOf(c))
  /\ UNCHANGED <<memory, batch, pc, sock, client, outq, queue, known>>

(* The descriptor is ready when there is room where there was none.        *)
ClientReads(c) ==
  /\ outq[c] # <<>>
  /\ outq' = [outq EXCEPT ![c] = Tail(@)]
  /\ ready' = IF Len(outq[c]) = KernelRoom THEN Woken(FdsOf(c)) ELSE ready
  /\ UNCHANGED <<memory, batch, pc, sock, client, inq, queue, sent, known>>

ClientCloses(c) ==
  /\ client[c] = "up"
  /\ client' = [client EXCEPT ![c] = "fin"]
  /\ ready' = Woken(FdsOf(c))
  /\ UNCHANGED <<memory, batch, pc, sock, inq, outq, queue, sent, known>>

ClientResets(c) ==
  /\ client[c] \in {"up", "fin"}
  /\ client' = [client EXCEPT ![c] = "rst"]
  /\ outq' = [outq EXCEPT ![c] = <<>>]
  /\ ready' = Woken(FdsOf(c))
  /\ UNCHANGED <<memory, batch, pc, sock, inq, queue, sent, known>>

-----------------------------------------------------------------------------
Run ==
  \/ WaitEvents
  \/ AcceptedAll \/ Accept \/ ConnReturns
  \/ Recv \/ RecvNothing \/ HandlerReturns
  \/ Send \/ SendFails \/ ClientDisconnect

Errors == AcceptInterrupted \/ AcceptFails \/ RecvFails \/ HandlerFails

Clients == \E c \in Client :
  \/ ClientConnects(c) \/ ClientSends(c) \/ ClientReads(c)
  \/ ClientCloses(c) \/ ClientResets(c)

(* What the clients do with a server that is down is of no interest.       *)
IsDown == pc \in Down /\ UNCHANGED vars

Next ==
  \/ Run \/ Errors \/ ServerCloses
  \/ AppWrites \/ AppCloses
  \/ pc \notin Down /\ Clients
  \/ IsDown

Spec == Init /\ [][Next]_vars

(* The main loop calls run() for ever, callbacks return, clients read what *)
(* they are sent.  Nothing else is assumed of the clients.                 *)
Fairness ==
  /\ WF_vars(Run \/ RecvFails)
  /\ \A c \in Client : WF_vars(pc \notin Down /\ ClientReads(c))

FairSpec == Spec /\ Fairness

-----------------------------------------------------------------------------
(* Wherever the application has control, the map holds the agent of each   *)
(* open descriptor and no other, with buffers that are allocated, and the  *)
(* application knows exactly these: it may write to any of them, or close  *)
(* it.  On none of the six paths that close an agent does a descriptor, a  *)
(* buffer or a pair of the map outlive the others, or go twice, also when  *)
(* callbacks close agents whose events are still to come in the batch.     *)
(* The structs are not counted: hs_net_agent_close leaks them.             *)
AgentsAreConnections ==
  pc \in {"app", "conn", "handler", "again"} =>
    /\ \A f \in Fd : (hs_hashmap_find(agents, f) # NULL) = (sock[f] # NULL)
    /\ live = {hs_hashmap_find(agents, f) : f \in Fd \ FreeFds}
    /\ \A f \in Fd \ FreeFds : heap[hs_hashmap_find(agents, f)].socket = f
    /\ known = {[agent |-> hs_hashmap_find(agents, f), fd |-> f, client |-> sock[f]]
                  : f \in Fd \ FreeFds}

(* Descriptors are used again at once, in the same batch even, and no byte *)
(* of one client is taken for one of another, on either way.               *)
NoCrossTalk ==
  /\ \A a \in live :
       Range(Offered(heap[a].recv_buff)) \cup Range(Unsent(heap[a].send_buff))
         \subseteq {sock[heap[a].socket]}
  /\ \A c \in Client : Range(inq[c]) \cup Range(outq[c]) \subseteq {c}

(* "Walk over all sockets and close them" (hs_net_server.c:106).           *)
CloseEnds == pc \notin {"crashed", "hangs"}

(* An edge is reported once.  Whenever the server waits for events, every  *)
(* connection that has bytes it could receive, or has ended, is still to   *)
(* be reported, and so is a client that wants to be accepted: no event and *)
(* no data is lost (hs_net_server.c:219).  It is about a server without    *)
(* signals: after one, accept() waits for the next client to come.         *)
NothingIsMissed ==
  pc = "app" =>
    /\ queue # <<>> => Contains(ready, listen_socket)
    /\ \A a \in live :
         LET c == sock[heap[a].socket]
             arrived == inq[c] # <<>> /\ hs_recvbuff_leftwrite(heap[a].recv_buff) > 0
         IN  arrived \/ client[c] \in {"fin", "rst"} => Contains(ready, heap[a].socket)

(* When neither handler nor signal is the reason, and the application      *)
(* closes no agent while a batch is processed, the server closes a         *)
(* connection only because the client has ended it: "the client            *)
(* disconnected of its own accord" (hs_net_server.c:296).  In particular   *)
(* it never calls send() where the kernel has no room, which would count   *)
(* as a failure (hs_net_server.c:284).                                     *)
ClosedForCause ==
  [][\A f \in Fd :
       pc \in {"recv", "send", "ends"} /\ sock[f] # NULL /\ sock'[f] = NULL
         => client[sock[f]] \in {"fin", "rst"}]_vars

(* Each client that waits is accepted, however the connections come and    *)
(* whatever is in the batch.                                               *)
WaitingIsAccepted == \A c \in Client :
  Contains(queue, c) ~> ~ Contains(queue, c) \/ pc \in Down

(* The end of a connection is noticed, with a full buffer too.             *)
EndIsNoticed == \A c \in Client :
  client[c] \in {"fin", "rst"} ~> client[c] = "away" \/ pc \in Down

(* What a data handler wrote to its own agent is sent, without a further   *)
(* call.                                                                   *)
WrittenIsSent == \A a \in Agent :
  CanSend(heap[a].send_buff) > 0 ~> CanSend(heap[a].send_buff) = 0 \/ pc \in Down
=============================================================================
