----------------------------- MODULE Connector -----------------------------
(***************************************************************************)
(* hs_net/src/hs_net_connector.c: one connector, driven by a single        *)
(* thread.  The library has control while hs_net_connector_run or another  *)
(* call is inside it; the application has it between calls (pc = "app")    *)
(* and inside the three callbacks, from which it may call the library      *)
(* again.  The kernel and the peer act at any moment, between any two      *)
(* system calls of the library.                                            *)
(*                                                                         *)
(* The bytes of a connection are tagged with its parity: that is all the   *)
(* properties tell apart.                                                  *)
(***************************************************************************)
EXTENDS SendBuff, RecvBuff, FiniteSets

CONSTANTS
  MaxFd,            \* descriptors 0 .. MaxFd; 0 is the standard input at first
  RecvLength,
  SendLength,
  INTERVAL,         \* HS_DEFAULT_CONNECTOR_RECONNECT_INTERVAL
  is_reconnect,
  ConnectResults,   \* how connect() may end at once: "progress", "fail", "ok"
  DisconnConnects,  \* may the disconnection callback connect again?
  HandlerFails      \* may the data handler report an error?

ASSUME ConnectorAssumption ==
  /\ MaxFd \in Nat \ {0} /\ INTERVAL \in Nat \ {0}
  /\ RecvLength \in Nat \ {0} /\ SendLength \in Nat \ {0}
  /\ Byte = {0, 1}
  /\ {is_reconnect, DisconnConnects, HandlerFails} \subseteq BOOLEAN
  /\ ConnectResults \subseteq {"progress", "fail", "ok"}

VARIABLES
  (* struct hs_net_connector *)
  state, socket, recv_buff, send_buff,
  waited,    \* time(NULL) - reconnect_start_time, up to INTERVAL
  (* control *)
  pc,        \* who has control, and where the library goes on when it has it
  after,     \* where it goes on after the disconnection callback
  wtfs,      \* what select() left in the set of writable descriptors
  (* the kernel and the peer *)
  sock,      \* what has become of each descriptor
  inq,       \* bytes that arrived for `socket' and were not received
  (* history *)
  parity,    \* of the connection there is, or the one there will be next
  appUp,     \* the application was told of a connection and not of its end
  sinceTry   \* time since the loop's last retry, up to INTERVAL

connector == <<state, socket, recv_buff, send_buff, waited>>
control == <<pc, after, wtfs>>
kernel == <<sock, inq>>
history == <<parity, appUp, sinceTry>>
vars == <<connector, control, kernel, history>>

Fd == 0 .. MaxFd

SockStates ==
  {"free", "foreign",               \* not open; open and not the library's
   "unconnected",                   \* connect() failed at once
   "progress", "refused", "failed", \* connecting, and how it may have ended
   "up", "fin", "rst"}              \* connected; closed or reset by the peer

InqBound == RecvLength + 1   \* of the bytes that wait in the kernel

TypeOK ==
  /\ state \in {"CONNECTING", "CONNECTED", "DISCONNECT", "RECONNECTING"}
  /\ socket \in Fd
  /\ recv_buff \in RecvBuffs(RecvLength)
  /\ send_buff \in SendBuffs(SendLength)
  /\ waited \in 0 .. INTERVAL
  /\ pc \in {"app", "failed", "conn", "handler", "send", "disconn"}
  /\ after \in {"app", "failed", "conn", "handler", "close"}
  /\ wtfs \subseteq Fd
  /\ sock \in [Fd -> SockStates]
  /\ inq \in Seq(Byte) /\ Len(inq) <= InqBound
  /\ parity \in Byte
  /\ appUp \in BOOLEAN
  /\ sinceTry \in 0 .. INTERVAL

(* hs_net_connector_init zeroes the structure: state 0 is CONNECTING, and  *)
(* a reconnect_start_time of 0 is long ago.                                *)
Init ==
  /\ state = "CONNECTING"
  /\ socket = 0
  /\ recv_buff = hs_recvbuff_init(RecvLength)
  /\ send_buff = hs_sendbuff_init(SendLength)
  /\ waited = INTERVAL
  /\ pc = "app" /\ after = "app" /\ wtfs = {}
  /\ sock = [f \in Fd |-> IF f = 0 THEN "foreign" ELSE "free"]
  /\ inq = <<>>
  /\ parity = 0
  /\ appUp = FALSE
  /\ sinceTry = INTERVAL

(* As initialised: no call has connected it yet.                           *)
Fresh == state = "CONNECTING" /\ sock[socket] = "foreign"

InApp == pc \in {"app", "failed", "conn", "handler", "disconn"}

(* A connection is over when the connector is connected no more, and what  *)
(* was begun when it is disconnected, whatever the code does on that path: *)
(* from then on bytes are those of the next.                               *)
Tag ==
  parity' = IF \/ state = "CONNECTED" /\ state' # "CONNECTED"
               \/ state # "DISCONNECT" /\ state' = "DISCONNECT"
            THEN 1 - parity ELSE parity

-----------------------------------------------------------------------------
(* hs_net_connector_connect *)

FreeFds == {f \in Fd : sock[f] = "free"}
LowestFree == CHOOSE f \in FreeFds : \A g \in FreeFds : f <= g

(* socket() fails when every descriptor is taken.                          *)
Outcomes == IF FreeFds = {} THEN {"nosocket"} ELSE ConnectResults

(* What the call changes, reconnect_start_time excepted.  The address it   *)
(* stores for hs_net_connector_reconnect is left out: there is one peer.   *)
Connect(outcome) ==
  IF outcome = "nosocket" THEN UNCHANGED <<state, socket, sock, inq>>
  ELSE
    /\ socket' = LowestFree
    /\ inq' = <<>>
    /\ sock' = [sock EXCEPT ![LowestFree] =
                  CASE outcome = "progress" -> "progress"
                    [] outcome = "fail" -> "unconnected"
                    [] outcome = "ok" -> "up"]
    /\ state' = CASE outcome = "progress" -> "CONNECTING"
                  [] outcome = "fail" -> IF is_reconnect THEN "RECONNECTING" ELSE state
                  [] outcome = "ok" -> "CONNECTED"

(* The application connects a connector that has no connection.            *)
AppConnect ==
  /\ Fresh \/ state = "DISCONNECT"
  /\ pc \in {"app", "conn", "handler"} \/ (pc = "disconn" /\ DisconnConnects)
  /\ \E outcome \in Outcomes :
       /\ Connect(outcome)
       /\ waited' = IF outcome = "fail" /\ is_reconnect THEN 0 ELSE waited
  /\ Tag
  /\ UNCHANGED <<recv_buff, send_buff, control, appUp, sinceTry>>

-----------------------------------------------------------------------------
(* hs_net_connector_disconnect: it closes the number it finds, also the 0  *)
(* of a connector without a socket.  When the callback returns, the        *)
(* library goes on at `next'.                                              *)

(* Faulty variant: the descriptor is shut down and stays open.             *)
NotClosed(f) == sock

Closed(f) == [sock EXCEPT ![f] = "free"]

(* Faulty variant: the state is not changed with the socket.               *)
StateIsKept == UNCHANGED state

Disconnected == state' = "DISCONNECT"

Disconnect(next) ==
  /\ sock' = Closed(socket)
  /\ inq' = <<>>
  /\ socket' = 0
  /\ Disconnected
  /\ recv_buff' = hs_recvbuff_clear(recv_buff)
  /\ send_buff' = hs_sendbuff_clear(send_buff)
  /\ Tag
  /\ appUp' = FALSE
  /\ pc' = "disconn"
  /\ after' = next
  /\ UNCHANGED <<waited, wtfs, sinceTry>>

AppDisconnect ==
  /\ pc \in {"app", "conn", "handler"}
  /\ Disconnect(pc)

(* After a return value of -1 the application closes, or goes on.          *)
AppCloses ==
  /\ pc = "failed"
  /\ Disconnect("app")

AppGoesOn ==
  /\ pc = "failed"
  /\ pc' = "app"
  /\ UNCHANGED <<connector, after, wtfs, kernel, history>>

(* When the peer closed, run() overwrites the state and sets the timer,    *)
(* whatever the callback did, and whatever is_reconnect says.              *)
DisconnReturns ==
  /\ pc = "disconn"
  /\ IF after = "close"
     THEN state' = "RECONNECTING" /\ waited' = 0 /\ pc' = "app"
     ELSE pc' = after /\ UNCHANGED <<state, waited>>
  /\ after' = "app"
  /\ wtfs' = IF after = "handler" THEN wtfs ELSE {}
  /\ Tag
  /\ UNCHANGED <<socket, recv_buff, send_buff, kernel, appUp, sinceTry>>

-----------------------------------------------------------------------------
(* hs_net_connector_write *)

AppWrite ==
  /\ InApp
  /\ Writable(send_buff, <<parity>>)
  /\ send_buff' = hs_sendbuff_write(send_buff, <<parity>>)
  /\ UNCHANGED <<state, socket, recv_buff, waited, control, kernel, history>>

-----------------------------------------------------------------------------
(* hs_net_connector_run.  The application runs a connector only after it   *)
(* has asked it to connect.                                                *)

InRun == pc = "app" /\ ~ Fresh

SelectFails ==
  /\ InRun
  /\ state \in {"CONNECTING", "CONNECTED"}
  /\ Disconnect("failed")

(* Faulty variant: the result of getsockopt() is tested and `error' not.   *)
NoErrorIsRead(s) == s # "progress"

(* getsockopt(SO_ERROR) gives 0 - also for a socket whose connect() failed *)
(* at once.                                                                *)
NoSoError(s) == s \in {"up", "fin", "unconnected"}

(* select() reports the socket and getsockopt() says how it went.  A       *)
(* refusal leaves the descriptor open and the timer as it is.              *)
RunConnecting ==
  /\ InRun
  /\ state = "CONNECTING"
  /\ \/ /\ NoSoError(sock[socket])
        /\ state' = "CONNECTED"
        /\ appUp' = TRUE
        /\ pc' = "conn"
        /\ UNCHANGED <<socket, recv_buff, send_buff, waited, after, wtfs, kernel,
                       parity, sinceTry>>
     \/ /\ sock[socket] = "refused"
        /\ state' = "RECONNECTING"
        /\ UNCHANGED <<socket, recv_buff, send_buff, waited, control, kernel, history>>
     \/ sock[socket] \in {"failed", "rst"} /\ Disconnect("failed")

ConnReturns ==
  /\ pc = "conn"
  /\ pc' = "app"
  /\ UNCHANGED <<connector, after, wtfs, kernel, history>>

HasRoom == hs_recvbuff_leftwrite(recv_buff) > 0

SelectWrites == wtfs' \in SUBSET {socket}

(* Nothing to read, or no room to read it into: the handler is not called. *)
RunReadsNothing ==
  /\ InRun /\ state = "CONNECTED"
  /\ \/ sock[socket] = "up" /\ inq = <<>>
     \/ ~ HasRoom
  /\ SelectWrites
  /\ pc' = "send"
  /\ UNCHANGED <<connector, after, kernel, history>>

(* recv() delivers some of what has arrived and the handler is called.     *)
RunReceives ==
  /\ InRun /\ state = "CONNECTED" /\ HasRoom
  /\ \E n \in 1 .. Len(inq) :
       /\ n <= hs_recvbuff_leftwrite(recv_buff)
       /\ recv_buff' = Received(recv_buff, SubSeq(inq, 1, n))
       /\ inq' = SubSeq(inq, n + 1, Len(inq))
  /\ SelectWrites
  /\ pc' = "handler"
  /\ UNCHANGED <<state, socket, send_buff, waited, after, sock, history>>

(* The socket was reported readable and recv() says EAGAIN: the handler is *)
(* called again with what it left, if anything.                            *)
RunReceivesEAGAIN ==
  /\ InRun /\ state = "CONNECTED" /\ HasRoom
  /\ sock[socket] = "up" /\ inq = <<>>
  /\ hs_recvbuff_leftread(recv_buff) > 0
  /\ SelectWrites
  /\ pc' = "handler"
  /\ UNCHANGED <<connector, after, kernel, history>>

RunReceivesError ==
  /\ InRun /\ state = "CONNECTED" /\ HasRoom
  /\ sock[socket] \in {"rst", "unconnected"} /\ inq = <<>>
  /\ Disconnect("failed")

(* Faulty variants: the end is taken for an empty read; the state changes  *)
(* and the connection is not given up.                                     *)
EndTakenForNothing ==
  /\ InRun /\ state = "CONNECTED" /\ HasRoom
  /\ sock[socket] = "fin" /\ inq = <<>> /\ SelectWrites /\ pc' = "send"
  /\ UNCHANGED <<connector, after, kernel, history>>
EndWithoutDisconnect ==
  /\ InRun /\ state = "CONNECTED" /\ HasRoom
  /\ sock[socket] = "fin" /\ inq = <<>> /\ state' = "RECONNECTING" /\ waited' = 0
  /\ Tag
  /\ UNCHANGED <<socket, recv_buff, send_buff, control, kernel, appUp, sinceTry>>

(* recv() returns 0: the peer has closed.                                  *)
RunReceivesEnd ==
  /\ InRun /\ state = "CONNECTED" /\ HasRoom
  /\ sock[socket] = "fin" /\ inq = <<>>
  /\ Disconnect("close")

(* The data handler returns.  One that disconnected is bound here to       *)
(* return 0 or an error (module RecvBuffStream covers the others).  After  *)
(* an error run() returns at once and leaves the connection as it is.      *)
HandlerReturns ==
  /\ pc = "handler"
  /\ \/ /\ HandlerFails
        /\ pc' = "failed" /\ wtfs' = {}
        /\ UNCHANGED recv_buff
     \/ /\ \E n \in 0 .. hs_recvbuff_leftread(recv_buff) :
             recv_buff' = Handled(recv_buff, n)
        /\ pc' = "send"
        /\ UNCHANGED wtfs
  /\ UNCHANGED <<state, socket, send_buff, waited, after, kernel, history>>

(* The end of run() in state CONNECTED.  FD_ISSET looks for the descriptor *)
(* the connector has now, which the handler may have replaced by another   *)
(* of the same number.                                                     *)
RunSends ==
  /\ pc = "send"
  /\ IF socket \in wtfs /\ CanSend(send_buff) > 0
     THEN \/ /\ sock[socket] \in {"up", "fin"}
             /\ \E s \in 1 .. CanSend(send_buff) : send_buff' = Sent(send_buff, s)
             /\ pc' = "app" /\ wtfs' = {}
             /\ UNCHANGED <<state, socket, recv_buff, waited, after, kernel, history>>
          \/ /\ sock[socket] \notin {"up", "fin"}
             /\ Disconnect("failed")
     ELSE /\ pc' = "app" /\ wtfs' = {}
          /\ UNCHANGED <<connector, after, kernel, history>>

(* Faulty variants: an off-by-one; a guard against a socket of 0.          *)
IsDueEarly == waited >= INTERVAL - 1
IsDueWithSocket == socket # 0 /\ waited >= INTERVAL

RetryIsDue == waited >= INTERVAL

RunReconnecting ==
  /\ InRun
  /\ state = "RECONNECTING"
  /\ RetryIsDue
  /\ \E outcome \in Outcomes : Connect(outcome)
  /\ waited' = 0
  /\ sinceTry' = 0
  /\ Tag
  /\ UNCHANGED <<recv_buff, send_buff, control, appUp>>

-----------------------------------------------------------------------------
(* The kernel and the peer, also for descriptors the connector forgot.     *)

ConnectEnds(f) ==
  /\ sock[f] = "progress"
  /\ \E s \in {"up", "refused", "failed"} : sock' = [sock EXCEPT ![f] = s]
  /\ UNCHANGED <<connector, control, inq, history>>

PeerSends ==
  /\ sock[socket] = "up" /\ Len(inq) < InqBound
  /\ inq' = Append(inq, parity)
  /\ UNCHANGED <<connector, control, sock, history>>

PeerCloses(f) ==
  /\ sock[f] = "up"
  /\ sock' = [sock EXCEPT ![f] = "fin"]
  /\ UNCHANGED <<connector, control, inq, history>>

PeerResets(f) ==
  /\ sock[f] \in {"up", "fin"}
  /\ sock' = [sock EXCEPT ![f] = "rst"]
  /\ UNCHANGED <<connector, control, inq, history>>

Tick ==
  /\ waited < INTERVAL \/ sinceTry < INTERVAL
  /\ waited' = IF waited < INTERVAL THEN waited + 1 ELSE waited
  /\ sinceTry' = IF sinceTry < INTERVAL THEN sinceTry + 1 ELSE sinceTry
  /\ UNCHANGED <<state, socket, recv_buff, send_buff, control, kernel,
                 parity, appUp>>

-----------------------------------------------------------------------------
Run ==
  \/ SelectFails \/ RunConnecting
  \/ RunReadsNothing \/ RunReceives \/ RunReceivesEAGAIN
  \/ RunReceivesError \/ RunReceivesEnd
  \/ RunSends \/ RunReconnecting

Returns == ConnReturns \/ HandlerReturns \/ DisconnReturns
AppContinues == AppCloses \/ AppGoesOn

Next ==
  \/ AppConnect \/ AppDisconnect \/ AppContinues \/ AppWrite
  \/ Run \/ Returns
  \/ \E f \in Fd : ConnectEnds(f) \/ PeerCloses(f) \/ PeerResets(f)
  \/ PeerSends
  \/ Tick

Spec == Init /\ [][Next]_vars

(* The main loop calls run() again and again, callbacks return, connection *)
(* attempts end, and time passes.  Nothing is assumed of the peer, nor of  *)
(* the application but that it does not stop calling run().                *)
Fairness ==
  /\ WF_vars(Run) /\ WF_vars(Returns) /\ WF_vars(AppContinues) /\ WF_vars(Tick)
  /\ \A f \in Fd : WF_vars(ConnectEnds(f))

FairSpec == Spec /\ Fairness

-----------------------------------------------------------------------------
(* What the handler is offered, and what waits to be sent, belongs to the  *)
(* present connection: no byte of one that is over, on whatever path it    *)
(* ended, is taken for one of the next, although the buffers are the same  *)
(* and only disconnect clears them (hs_net_connector.c:149).               *)
NoStaleInput == \A i \in DOMAIN Offered(recv_buff) : Offered(recv_buff)[i] = parity
NoStaleOutput == \A i \in DOMAIN Unsent(send_buff) : Unsent(send_buff)[i] = parity
NoStaleBytes == NoStaleInput /\ NoStaleOutput

(* Between two calls the application knows: it has been told of the        *)
(* connection when there is one and of its end when there is none, over    *)
(* all the paths that leave the state CONNECTED.                           *)
AppKnows == pc = "app" => (appUp <=> state = "CONNECTED")

(* The connection callback is called for an established connection, and    *)
(* not for an attempt that failed.                                         *)
AnnouncedIsEstablished ==
  [][~ appUp /\ appUp' => sock[socket] \in {"up", "fin"}]_vars

(* The descriptors run() forgets are dead: no established connection is    *)
(* left to a peer that believes in it and a connector that does not.       *)
NoForgottenConnection ==
  \A f \in Fd : f # socket => sock[f] \notin {"progress", "up", "fin"}

(* The loop does not hammer a peer that is down: two retries are INTERVAL  *)
(* apart, over refusals, failures, connections and calls of the            *)
(* application in between (hs_net_connector.c:282).  The first retry after *)
(* the application connected is not counted: if the peer refuses, it       *)
(* follows at once, since line 211 sets no timer.                          *)
RetriesArePaced == [][RunReconnecting => sinceTry >= INTERVAL]_vars

(* On no path does run() close a descriptor that is not the connector's,   *)
(* whatever it is in the middle of when a callback disconnects, writes and *)
(* returns.  Only a disconnect the application asks for can do that, when  *)
(* the connector has no socket (hs_net_connector.c:144-147).               *)
RunClosesItsOwn ==
  [][\A f \in Fd : sock[f] = "foreign" /\ sock'[f] # "foreign"
                    => AppDisconnect \/ AppCloses]_vars

(* "The peer refused; getting ready to reconnect" (hs_net_connector.c:212):*)
(* a connector that is to reconnect tries to, as long as the descriptors   *)
(* its refusals leave open (line 211) do not use up all there are.         *)
RetriesWhileDescriptorsLast ==
  state = "RECONNECTING" ~> (state # "RECONNECTING" \/ FreeFds = {})

(* "The peer has disconnected; set the timer to reconnect" (line 252): the *)
(* end of a connection is noticed, as long as the handler leaves room to   *)
(* receive it; with a full buffer run neither receives nor calls the       *)
(* handler again (line 240).                                               *)
EndIsNoticedWithRoom ==
  state = "CONNECTED" /\ sock[socket] \in {"fin", "rst"}
    ~> state # "CONNECTED" \/ ~ HasRoom
=============================================================================
