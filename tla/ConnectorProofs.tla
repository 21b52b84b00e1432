-------------------------- MODULE ConnectorProofs --------------------------
(***************************************************************************)
(* Proofs about Connector, for any number of descriptors, any length of    *)
(* the buffers and any interval.  What an application or a kernel may do   *)
(* is restricted where a theorem says so and nowhere else.                 *)
(***************************************************************************)
EXTENDS Connector, BufferLemmas

(* What run() closes is the connector's: it is connected by a socket of    *)
(* its own, and looks for no other in the set of select().                 *)
OwnSocket ==
  /\ state = "CONNECTED" => sock[socket] # "foreign"
  /\ \A f \in wtfs : sock[f] # "foreign"

(* The receive buffer holds bytes of the current connection only, and so   *)
(* does the kernel while there is one.  In the disconnection callback the  *)
(* buffer is empty, so that it does not matter if run() then gives up a    *)
(* connection the callback made.                                           *)
InputOfOne ==
  /\ RecvHolds(recv_buff, RecvLength, parity)
  /\ pc = "disconn" => recv_buff.curr_write = 0
  /\ state \in {"CONNECTING", "CONNECTED"} =>
       \A i \in 1 .. Len(inq) : inq[i] = parity

Inv == TypeOK /\ OwnSocket /\ InputOfOne /\ waited <= sinceTry

LEMMA Constants ==
  /\ MaxFd \in Nat /\ MaxFd # 0 /\ INTERVAL \in Nat /\ INTERVAL # 0
  /\ RecvLength \in Nat /\ RecvLength # 0 /\ SendLength \in Nat
  /\ Byte = {0, 1} /\ 0 \in Fd /\ InqBound \in Nat
  /\ is_reconnect \in BOOLEAN
  /\ ConnectResults \subseteq {"progress", "fail", "ok"}
BY ConnectorAssumption DEF ConnectorAssumption, Fd, InqBound

LEMMA LowestFreeIsFree ==
  ASSUME FreeFds # {} PROVE LowestFree \in FreeFds
<1>1. FreeFds \subseteq Nat
  BY DEF FreeFds, Fd
<1>2. \E f \in FreeFds : \A g \in FreeFds : f <= g
  BY <1>1, LeastExists
<1> QED BY <1>2 DEF LowestFree

-----------------------------------------------------------------------------
LEMMA InitInv == Init => Inv
<1> SUFFICES ASSUME Init PROVE Inv
  OBVIOUS
<1>1. RecvHolds(recv_buff, RecvLength, parity)
  BY Constants, RecvInitHolds DEF Init
<1>2. recv_buff \in RecvBuffs(RecvLength) /\ send_buff \in SendBuffs(SendLength)
  BY <1>1, Constants, SendInitHolds DEF RecvHolds, SendHolds, Init
<1>3. inq \in Seq(Byte) /\ Len(inq) = 0
  BY DEF Init
<1>4. sock \in [Fd -> SockStates]
  BY Constants DEF Init, SockStates
<1>5. TypeOK
  BY <1>2, <1>3, <1>4, Constants DEF Init, TypeOK
<1>6. OwnSocket
  BY DEF Init, OwnSocket
<1>7. InputOfOne
  BY <1>1, <1>3 DEF InputOfOne, Init
<1>8. waited <= sinceTry
  BY Constants DEF Init
<1> QED BY <1>5, <1>6, <1>7, <1>8 DEF Inv

(* The tag of the next byte is a byte, and changes only where a connection *)
(* ends.                                                                   *)
LEMMA TagIsByte ==
  ASSUME Inv, Tag PROVE parity' \in Byte
BY Constants DEF Inv, TypeOK, Tag

(* No descriptor becomes one that is not the library's.                    *)
NoneTurnsForeign == \A f \in Fd : sock'[f] = "foreign" => sock[f] = "foreign"

LEMMA DisconnectInv ==
  ASSUME Inv, NEW next \in {"app", "failed", "conn", "handler", "close"},
         Disconnect(next)
  PROVE  Inv'
<1> USE DEF Disconnect
<1>1. parity' \in Byte
  BY TagIsByte
<1>2. recv_buff \in RecvBuffs(RecvLength) /\ send_buff \in SendBuffs(SendLength)
  BY DEF Inv, TypeOK
<1>3. /\ RecvHolds(recv_buff', RecvLength, parity')
      /\ SendHolds(send_buff', SendLength, parity')
      /\ recv_buff'.curr_write = 0
  BY <1>2, Constants, RecvClearHolds, SendClearHolds DEF hs_recvbuff_clear, RecvBuffs
<1>4. recv_buff' \in RecvBuffs(RecvLength) /\ send_buff' \in SendBuffs(SendLength)
  BY <1>3 DEF RecvHolds, SendHolds
<1>5. sock' \in [Fd -> SockStates] /\ NoneTurnsForeign
  BY DEF Inv, TypeOK, Closed, SockStates, NoneTurnsForeign
<1>6. inq' \in Seq(Byte) /\ Len(inq') = 0
  OBVIOUS
<1>7. TypeOK'
  BY <1>1, <1>4, <1>5, <1>6, Constants DEF Inv, TypeOK, Disconnected
<1>8. OwnSocket'
  BY <1>5 DEF Inv, TypeOK, OwnSocket, Disconnected, NoneTurnsForeign
<1>9. InputOfOne'
  BY <1>3, <1>6 DEF InputOfOne
<1>10. (waited <= sinceTry)'
  BY DEF Inv
<1> QED BY <1>7, <1>8, <1>9, <1>10 DEF Inv

(* What a call to connect, by the application or the timer, leaves.        *)
LEMMA ConnectKeeps ==
  ASSUME Inv, NEW outcome \in Outcomes, Connect(outcome)
  PROVE  /\ state' \in {"CONNECTING", "CONNECTED", "DISCONNECT", "RECONNECTING"}
         /\ socket' \in Fd
         /\ sock' \in [Fd -> SockStates] /\ NoneTurnsForeign
         /\ state' = "CONNECTED" =>
              sock'[socket'] # "foreign" \/ UNCHANGED <<state, socket, sock>>
         /\ inq' \in Seq(Byte) /\ Len(inq') <= InqBound
         /\ Len(inq') = 0 \/ UNCHANGED <<state, inq>>
<1>1. CASE outcome = "nosocket"
  BY <1>1, Constants DEF Connect, Inv, TypeOK, NoneTurnsForeign
<1>2. CASE outcome # "nosocket"
  <2>1. FreeFds # {} /\ outcome \in {"progress", "fail", "ok"}
    BY <1>2, Constants DEF Outcomes
  <2>2. LowestFree \in Fd
    BY <2>1, LowestFreeIsFree DEF FreeFds
  <2>3. PICK s \in {"progress", "unconnected", "up"} :
               sock' = [sock EXCEPT ![LowestFree] = s]
    BY <1>2, <2>1 DEF Connect
  <2>4. sock' \in [Fd -> SockStates] /\ NoneTurnsForeign /\ sock'[LowestFree] = s
    BY <2>2, <2>3 DEF Inv, TypeOK, SockStates, NoneTurnsForeign
  <2>5. state' \in {"CONNECTING", "CONNECTED", "DISCONNECT", "RECONNECTING"}
    BY <1>2, <2>1 DEF Connect, Inv, TypeOK
  <2>6. socket' = LowestFree /\ inq' = <<>>
    BY <1>2 DEF Connect
  <2> QED BY <2>2, <2>4, <2>5, <2>6, Constants
<1> QED BY <1>1, <1>2

(* Where connect is called no connection ends.                             *)
LEMMA ConnectKeepsTag ==
  ASSUME Inv, Fresh \/ state \in {"DISCONNECT", "RECONNECTING"},
         NEW outcome \in Outcomes, Connect(outcome), Tag
  PROVE  parity' = parity
<1>1. state # "CONNECTED" /\ (state' = "DISCONNECT" => state = "DISCONNECT")
  BY Constants DEF Connect, Fresh, Outcomes
<1> QED BY <1>1 DEF Tag

(* The parts of the invariant, for actions that leave most of it alone.    *)
LEMMA ConnectInv ==
  ASSUME Inv, NEW outcome \in Outcomes, Connect(outcome),
         UNCHANGED <<recv_buff, send_buff, control, parity, appUp>>,
         waited' \in 0 .. INTERVAL, sinceTry' \in 0 .. INTERVAL, waited' <= sinceTry'
  PROVE  Inv'
<1>1. TypeOK'
  BY ConnectKeeps DEF Inv, TypeOK, control
<1>2. OwnSocket'
  BY ConnectKeeps DEF Inv, TypeOK, OwnSocket, control, NoneTurnsForeign
<1>3. InputOfOne'
  BY ConnectKeeps DEF Inv, InputOfOne, control
<1> QED BY <1>1, <1>2, <1>3 DEF Inv

LEMMA AppConnectInv == ASSUME Inv, AppConnect PROVE Inv'
<1>1. PICK outcome \in Outcomes :
             /\ Connect(outcome)
             /\ waited' = IF outcome = "fail" /\ is_reconnect THEN 0 ELSE waited
  BY DEF AppConnect
<1>2. /\ waited \in 0 .. INTERVAL /\ sinceTry \in 0 .. INTERVAL
      /\ waited <= sinceTry /\ sinceTry' = sinceTry
  BY DEF AppConnect, Inv, TypeOK
<1>3. /\ waited' \in 0 .. INTERVAL /\ sinceTry' \in 0 .. INTERVAL
      /\ waited' <= sinceTry'
  <2>1. CASE waited' = 0
    BY <1>2, <2>1, Constants
  <2>2. CASE waited' = waited
    BY <1>2, <2>2
  <2> QED BY <1>1, <2>1, <2>2
<1>4. parity' = parity
  BY <1>1, ConnectKeepsTag DEF AppConnect
<1> QED BY <1>1, <1>3, <1>4, ConnectInv DEF AppConnect

LEMMA RunReconnectingInv == ASSUME Inv, RunReconnecting PROVE Inv'
<1>1. PICK outcome \in Outcomes : Connect(outcome)
  BY DEF RunReconnecting
<1>2. waited' = 0 /\ sinceTry' = 0 /\ 0 \in 0 .. INTERVAL
  BY Constants DEF RunReconnecting
<1>3. parity' = parity
  BY <1>1, ConnectKeepsTag DEF RunReconnecting
<1> QED BY <1>1, <1>2, <1>3, ConnectInv DEF RunReconnecting

LEMMA DisconnectsInv ==
  ASSUME Inv, \/ AppDisconnect \/ AppCloses
              \/ SelectFails \/ RunReceivesError \/ RunReceivesEnd
  PROVE  Inv'
BY DisconnectInv DEF AppDisconnect, AppCloses, SelectFails, RunReceivesError,
   RunReceivesEnd

LEMMA DisconnReturnsInv == ASSUME Inv, DisconnReturns PROVE Inv'
<1>1. /\ parity' \in Byte
      /\ after = "close" \/ (UNCHANGED <<parity, state>>)
  BY TagIsByte DEF DisconnReturns, Tag
<1>2. TypeOK'
  BY <1>1, Constants DEF DisconnReturns, Inv, TypeOK, kernel
<1>3. OwnSocket'
  BY DEF DisconnReturns, Inv, OwnSocket, kernel
<1>4. recv_buff.curr_write = 0 /\ recv_buff' = recv_buff /\ inq' = inq
  BY DEF DisconnReturns, Inv, InputOfOne, kernel
<1>5. RecvHolds(recv_buff', RecvLength, parity')
  BY <1>4 DEF Inv, InputOfOne, RecvHolds
<1>6. state' \in {"CONNECTING", "CONNECTED"} => UNCHANGED <<parity, state>>
  BY <1>1 DEF DisconnReturns
<1>7. InputOfOne'
  BY <1>4, <1>5, <1>6 DEF Inv, InputOfOne
<1>8. waited' <= sinceTry'
  <2>1. waited' \in {0, waited} /\ sinceTry' = sinceTry
    BY DEF DisconnReturns
  <2>2. 0 <= sinceTry /\ waited <= sinceTry
    BY DEF Inv, TypeOK
  <2> QED BY <2>1, <2>2
<1> QED BY <1>2, <1>3, <1>7, <1>8 DEF Inv

LEMMA AppWriteInv == ASSUME Inv, AppWrite PROVE Inv'
<1>1. <<parity>> \in Seq(Byte)
  BY DEF Inv, TypeOK
<1>2. send_buff' \in SendBuffs(SendLength)
  BY <1>1, WrittenInBlock, Constants DEF AppWrite, Inv, TypeOK
<1>3. TypeOK'
  BY <1>2 DEF AppWrite, Inv, TypeOK, control, kernel, history
<1>4. OwnSocket'
  BY DEF AppWrite, Inv, OwnSocket, control, kernel
<1>5. InputOfOne'
  BY DEF AppWrite, Inv, InputOfOne, control, kernel, history
<1> QED BY <1>3, <1>4, <1>5 DEF Inv, AppWrite, history

LEMMA RunConnectingInv == ASSUME Inv, RunConnecting PROVE Inv'
<1>1. CASE /\ NoSoError(sock[socket])
           /\ state' = "CONNECTED"
           /\ appUp' = TRUE
           /\ pc' = "conn"
           /\ UNCHANGED <<socket, recv_buff, send_buff, waited, after, wtfs,
                          kernel, parity, sinceTry>>
  <2>1. TypeOK'
    BY <1>1 DEF Inv, TypeOK, kernel
  <2>2. OwnSocket'
    BY <1>1 DEF Inv, OwnSocket, kernel, NoSoError
  <2>3. InputOfOne'
    BY <1>1 DEF RunConnecting, Inv, InputOfOne, kernel
  <2> QED BY <1>1, <2>1, <2>2, <2>3 DEF Inv
<1>2. CASE /\ sock[socket] = "refused"
           /\ state' = "RECONNECTING"
           /\ UNCHANGED <<socket, recv_buff, send_buff, waited, control, kernel,
                          history>>
  <2>1. TypeOK'
    BY <1>2 DEF Inv, TypeOK, control, kernel, history
  <2>2. OwnSocket'
    BY <1>2 DEF Inv, OwnSocket, control, kernel
  <2>3. InputOfOne'
    BY <1>2 DEF Inv, InputOfOne, control, kernel, history
  <2> QED BY <1>2, <2>1, <2>2, <2>3 DEF Inv, history
<1>3. CASE sock[socket] \in {"failed", "rst"} /\ Disconnect("failed")
  BY <1>3, DisconnectInv
<1> QED BY <1>1, <1>2, <1>3 DEF RunConnecting

(* Only who has control changes, and what select() left.                   *)
LEMMA ControlInv ==
  ASSUME Inv, UNCHANGED <<connector, after, kernel, history>>,
         pc' \in {"app", "failed", "conn", "handler", "send"},
         wtfs' \subseteq Fd, \A f \in wtfs' : sock[f] # "foreign"
  PROVE  Inv'
<1>1. TypeOK'
  BY DEF Inv, TypeOK, connector, kernel, history
<1>2. OwnSocket'
  BY DEF Inv, OwnSocket, connector, kernel
<1>3. InputOfOne'
  BY DEF Inv, InputOfOne, connector, kernel, history
<1> QED BY <1>1, <1>2, <1>3 DEF Inv, connector, history

LEMMA SelectSet ==
  ASSUME Inv, state = "CONNECTED", SelectWrites
  PROVE  wtfs' \subseteq Fd /\ \A f \in wtfs' : sock[f] # "foreign"
BY DEF Inv, TypeOK, OwnSocket, SelectWrites

LEMMA ControlActionsInv ==
  ASSUME Inv, RunReadsNothing \/ RunReceivesEAGAIN \/ ConnReturns \/ AppGoesOn
  PROVE  Inv'
<1>1. CASE RunReadsNothing
  BY <1>1, SelectSet, ControlInv DEF RunReadsNothing
<1>2. CASE RunReceivesEAGAIN
  BY <1>2, SelectSet, ControlInv DEF RunReceivesEAGAIN
<1>3. CASE ConnReturns
  BY <1>3, ControlInv DEF ConnReturns, Inv, TypeOK, OwnSocket
<1>4. CASE AppGoesOn
  BY <1>4, ControlInv DEF AppGoesOn, Inv, TypeOK, OwnSocket
<1> QED BY <1>1, <1>2, <1>3, <1>4

LEMMA RunReceivesInv == ASSUME Inv, RunReceives PROVE Inv'
<1>1. PICK n \in 1 .. Len(inq) :
             /\ n <= hs_recvbuff_leftwrite(recv_buff)
             /\ recv_buff' = Received(recv_buff, SubSeq(inq, 1, n))
             /\ inq' = SubSeq(inq, n + 1, Len(inq))
  BY DEF RunReceives
<1>2. /\ inq \in Seq(Byte) /\ Len(inq) \in Nat /\ Len(inq) <= InqBound
      /\ \A i \in 1 .. Len(inq) : inq[i] = parity
  BY LenProperties DEF Inv, TypeOK, InputOfOne, RunReceives
<1>3. n \in 0 .. Len(inq)
  BY <1>2
<1>4. /\ SubSeq(inq, 1, n) \in Seq(Byte) /\ Len(SubSeq(inq, 1, n)) = n
      /\ \A i \in 1 .. n : SubSeq(inq, 1, n)[i] = parity
      /\ inq' \in Seq(Byte) /\ Len(inq') = Len(inq) - n
      /\ \A i \in 1 .. Len(inq) - n : inq'[i] = parity
  BY <1>1, <1>2, <1>3, CutOnly
<1>5. RecvHolds(recv_buff', RecvLength, parity)
  BY <1>1, <1>4, ReceivedHolds, Constants DEF Inv, InputOfOne
<1>6. recv_buff' \in RecvBuffs(RecvLength)
  BY <1>5 DEF RecvHolds
<1>7. Len(inq') <= InqBound
  BY <1>2, <1>3, <1>4, Constants
<1>8. wtfs' \subseteq Fd /\ \A f \in wtfs' : sock[f] # "foreign"
  BY SelectSet DEF RunReceives
<1>9. TypeOK'
  BY <1>4, <1>6, <1>7, <1>8 DEF RunReceives, Inv, TypeOK, history
<1>10. OwnSocket'
  BY <1>8 DEF RunReceives, Inv, OwnSocket
<1>11. InputOfOne'
  BY <1>4, <1>5 DEF RunReceives, InputOfOne, history
<1> QED BY <1>9, <1>10, <1>11 DEF Inv, RunReceives, history

LEMMA HandlerReturnsInv == ASSUME Inv, HandlerReturns PROVE Inv'
<1>1. RecvHolds(recv_buff', RecvLength, parity)
  BY HandledHolds, Constants DEF HandlerReturns, Inv, InputOfOne
<1>2. recv_buff' \in RecvBuffs(RecvLength)
  BY <1>1 DEF RecvHolds
<1>3. pc' \in {"failed", "send"} /\ wtfs' \in {{}, wtfs}
  BY DEF HandlerReturns
<1>4. TypeOK'
  BY <1>2, <1>3 DEF HandlerReturns, Inv, TypeOK, kernel, history
<1>5. OwnSocket'
  BY <1>3 DEF HandlerReturns, Inv, OwnSocket, kernel
<1>6. InputOfOne'
  BY <1>1, <1>3 DEF HandlerReturns, Inv, InputOfOne, kernel, history
<1> QED BY <1>4, <1>5, <1>6 DEF Inv, HandlerReturns, history

LEMMA RunSendsInv == ASSUME Inv, RunSends PROVE Inv'
<1>1. CASE /\ pc' = "app" /\ wtfs' = {}
           /\ UNCHANGED <<connector, after, kernel, history>>
  BY <1>1, ControlInv
<1>2. CASE Disconnect("failed")
  BY <1>2, DisconnectInv
<1>3. ASSUME NEW s \in 1 .. CanSend(send_buff),
             send_buff' = Sent(send_buff, s), pc' = "app", wtfs' = {},
             UNCHANGED <<state, socket, recv_buff, waited, after, kernel, history>>
      PROVE  Inv'
  <2>1. s \in 0 .. CanSend(send_buff)
    BY DEF CanSend
  <2>2. send_buff' \in SendBuffs(SendLength)
    BY <1>3, <2>1, SentInBlock, Constants DEF Inv, TypeOK
  <2>3. TypeOK'
    BY <1>3, <2>2 DEF Inv, TypeOK, kernel, history
  <2>4. OwnSocket'
    BY <1>3 DEF Inv, OwnSocket, kernel
  <2>5. InputOfOne'
    BY <1>3 DEF Inv, InputOfOne, kernel, history
  <2> QED BY <1>3, <2>3, <2>4, <2>5 DEF Inv, history
<1> QED BY <1>1, <1>2, <1>3 DEF RunSends

(* The kernel never touches a descriptor that is not the library's.        *)
LEMMA KernelInv ==
  ASSUME Inv, NEW f \in Fd, ConnectEnds(f) \/ PeerCloses(f) \/ PeerResets(f)
  PROVE  Inv'
<1>1. PICK s \in SockStates \ {"foreign"} : sock' = [sock EXCEPT ![f] = s]
  BY DEF ConnectEnds, PeerCloses, PeerResets, SockStates
<1>2. UNCHANGED <<connector, control, inq, history>>
  BY DEF ConnectEnds, PeerCloses, PeerResets
<1>3. sock' \in [Fd -> SockStates] /\ NoneTurnsForeign
  BY <1>1 DEF Inv, TypeOK, NoneTurnsForeign
<1>4. TypeOK'
  BY <1>2, <1>3 DEF Inv, TypeOK, connector, control, history
<1>5. OwnSocket'
  BY <1>2, <1>3 DEF Inv, TypeOK, OwnSocket, NoneTurnsForeign, connector, control
<1>6. InputOfOne'
  BY <1>2 DEF Inv, InputOfOne, connector, control, history
<1> QED BY <1>2, <1>4, <1>5, <1>6 DEF Inv, connector, history

LEMMA PeerSendsInv == ASSUME Inv, PeerSends PROVE Inv'
<1>1. /\ inq' = Append(inq, parity) /\ inq \in Seq(Byte) /\ Len(inq) \in Nat
      /\ parity \in Byte /\ Len(inq) < InqBound
  BY LenProperties DEF PeerSends, Inv, TypeOK
<1>2. inq' \in Seq(Byte) /\ Len(inq') = Len(inq) + 1
  BY <1>1, AppendProperties
<1>3. Len(inq') <= InqBound
  BY <1>1, <1>2, Constants
<1>4. TypeOK'
  BY <1>2, <1>3 DEF PeerSends, Inv, TypeOK, connector, control, history
<1>5. OwnSocket'
  BY DEF PeerSends, Inv, OwnSocket, connector, control
<1>6. (\A i \in 1 .. Len(inq) : inq[i] = parity)
        => \A i \in 1 .. Len(inq') : inq'[i] = parity
  BY <1>1, <1>2, AppendOnly
<1>7. InputOfOne'
  BY <1>6 DEF PeerSends, Inv, InputOfOne, connector, control, history
<1> QED BY <1>4, <1>5, <1>7 DEF Inv, PeerSends, connector, history

LEMMA TickInv == ASSUME Inv, Tick PROVE Inv'
<1>1. /\ waited \in 0 .. INTERVAL /\ sinceTry \in 0 .. INTERVAL
      /\ waited <= sinceTry
  BY DEF Inv, TypeOK
<1>2. /\ waited' \in 0 .. INTERVAL /\ sinceTry' \in 0 .. INTERVAL
      /\ waited' <= sinceTry'
  BY <1>1, Constants DEF Tick
<1>3. TypeOK'
  BY <1>2 DEF Tick, Inv, TypeOK, control, kernel
<1>4. OwnSocket'
  BY DEF Tick, Inv, OwnSocket, control, kernel
<1>5. InputOfOne'
  BY DEF Tick, Inv, InputOfOne, control, kernel
<1> QED BY <1>2, <1>3, <1>4, <1>5 DEF Inv

LEMMA NextInv == ASSUME Inv, [Next]_vars PROVE Inv'
<1>1. CASE AppConnect
  BY <1>1, AppConnectInv
<1>2. CASE AppDisconnect \/ AppContinues
  BY <1>2, DisconnectsInv, ControlActionsInv DEF AppContinues
<1>3. CASE AppWrite
  BY <1>3, AppWriteInv
<1>4. CASE Run
  BY <1>4, DisconnectsInv, RunConnectingInv, ControlActionsInv, RunReceivesInv,
     RunSendsInv, RunReconnectingInv DEF Run
<1>5. CASE Returns
  BY <1>5, ControlActionsInv, HandlerReturnsInv, DisconnReturnsInv DEF Returns
<1>6. ASSUME NEW f \in Fd, ConnectEnds(f) \/ PeerCloses(f) \/ PeerResets(f)
      PROVE  Inv'
  BY <1>6, KernelInv
<1>7. CASE PeerSends
  BY <1>7, PeerSendsInv
<1>8. CASE Tick
  BY <1>8, TickInv
<1>9. CASE UNCHANGED vars
  BY <1>9 DEF vars, connector, control, kernel, history, Inv, TypeOK, OwnSocket,
     InputOfOne
<1> QED BY <1>1, <1>2, <1>3, <1>4, <1>5, <1>6, <1>7, <1>8, <1>9 DEF Next

LEMMA SpecInv == Spec => []Inv
BY InitInv, NextInv, PTL DEF Spec

(* The state of the connector is always one of the four, its descriptor    *)
(* one there is, and the offsets of both buffers are inside their blocks.  *)
THEOREM TypeCorrect == Spec => []TypeOK
<1>1. Inv => TypeOK
  BY DEF Inv
<1> QED BY <1>1, SpecInv, PTL

-----------------------------------------------------------------------------
(* Only a disconnect closes a descriptor that is not the library's, and    *)
(* those of run() are of a socket the connector has.                       *)
LEMMA ConnectClosesNothing ==
  ASSUME Inv, NEW outcome \in Outcomes, Connect(outcome), NEW f \in Fd,
         sock[f] = "foreign"
  PROVE  sock'[f] = "foreign"
<1>1. CASE outcome = "nosocket"
  BY <1>1 DEF Connect
<1>2. CASE outcome # "nosocket"
  <2>1. FreeFds # {} /\ outcome \in {"progress", "fail", "ok"}
    BY <1>2, Constants DEF Outcomes
  <2>2. LowestFree \in Fd /\ sock[LowestFree] = "free"
    BY <2>1, LowestFreeIsFree DEF FreeFds
  <2>3. PICK s \in {"progress", "unconnected", "up"} :
               sock' = [sock EXCEPT ![LowestFree] = s]
    BY <1>2, <2>1 DEF Connect
  <2> QED BY <2>2, <2>3 DEF Inv, TypeOK
<1> QED BY <1>1, <1>2

LEMMA DisconnectClosesSocket ==
  ASSUME Inv, NEW next, Disconnect(next), sock[socket] # "foreign", NEW f \in Fd,
         sock[f] = "foreign"
  PROVE  sock'[f] = "foreign"
BY DEF Disconnect, Closed, Inv, TypeOK

(* run() disconnects a connector that has a socket.                        *)
LEMMA RunGivesUpItsOwn ==
  ASSUME Inv, SelectFails \/ RunReceivesError \/ RunReceivesEnd \/ RunSends \/ RunConnecting,
         NEW f \in Fd, sock[f] = "foreign"
  PROVE  sock'[f] = "foreign"
<1>1. CASE SelectFails
  <2>1. sock[socket] # "foreign"
    BY <1>1 DEF SelectFails, InRun, Fresh, Inv, OwnSocket
  <2> QED BY <1>1, <2>1, DisconnectClosesSocket DEF SelectFails
<1>2. CASE RunReceivesError
  BY <1>2, DisconnectClosesSocket DEF RunReceivesError
<1>3. CASE RunReceivesEnd
  BY <1>3, DisconnectClosesSocket DEF RunReceivesEnd
<1>4. CASE RunSends
  <2>1. CASE sock' = sock
    BY <2>1
  <2>2. CASE Disconnect("failed") /\ socket \in wtfs
    BY <2>2, DisconnectClosesSocket DEF Inv, OwnSocket
  <2> QED BY <1>4, <2>1, <2>2 DEF RunSends, kernel
<1>5. CASE RunConnecting
  <2>1. CASE sock' = sock
    BY <2>1
  <2>2. CASE Disconnect("failed") /\ sock[socket] \in {"failed", "rst"}
    BY <2>2, DisconnectClosesSocket
  <2> QED BY <1>5, <2>1, <2>2 DEF RunConnecting, kernel
<1> QED BY <1>1, <1>2, <1>3, <1>4, <1>5

(* On no path does run() close a descriptor that is not the connector's,   *)
(* whatever a callback of that very run did to the connector: only a call  *)
(* to disconnect by the application, when there is no socket, does         *)
(* (hs_net_connector.c:144-147).                                           *)
THEOREM RunClosesWhatItOpened == Spec => RunClosesItsOwn
<1> DEFINE Closes == \A f \in Fd : sock[f] = "foreign" /\ sock'[f] # "foreign"
                                     => AppDisconnect \/ AppCloses
<1>1. Inv /\ [Next]_vars => [Closes]_vars
  <2> SUFFICES ASSUME Inv, Next, ~ AppDisconnect, ~ AppCloses, NEW f \in Fd,
                      sock[f] = "foreign"
               PROVE  sock'[f] = "foreign"
    OBVIOUS
  <2>1. CASE AppConnect \/ RunReconnecting
    BY <2>1, ConnectClosesNothing DEF AppConnect, RunReconnecting
  <2>2. CASE SelectFails \/ RunReceivesError \/ RunReceivesEnd \/ RunSends \/ RunConnecting
    BY <2>2, RunGivesUpItsOwn
  <2>3. CASE sock' = sock
    BY <2>3
  <2>4. ASSUME NEW g \in Fd, ConnectEnds(g) \/ PeerCloses(g) \/ PeerResets(g)
        PROVE  sock'[f] = "foreign"
    BY <2>4 DEF ConnectEnds, PeerCloses, PeerResets, Inv, TypeOK
  <2>5. CASE AppGoesOn \/ AppWrite \/ PeerSends \/ Tick \/ Returns
    BY <2>3, <2>5 DEF AppGoesOn, AppWrite, PeerSends, Tick, Returns, ConnReturns,
       HandlerReturns, DisconnReturns, kernel
  <2>6. CASE RunReadsNothing \/ RunReceives \/ RunReceivesEAGAIN
    BY <2>3, <2>6 DEF RunReadsNothing, RunReceives, RunReceivesEAGAIN, kernel
  <2> QED BY <2>1, <2>2, <2>4, <2>5, <2>6 DEF Next, Run, AppContinues
<1> QED BY <1>1, SpecInv, PTL DEF Spec, RunClosesItsOwn

-----------------------------------------------------------------------------
(* The receive buffer is the same for all connections of a connector, and  *)
(* what the handler is offered belongs to the one it has now, on whatever  *)
(* path the one before ended and even if a callback made one that run()    *)
(* gave up.                                                                *)
THEOREM InputIsCurrent == Spec => []NoStaleInput
<1>1. Inv => NoStaleInput
  BY OfferedHolds, Constants DEF Inv, InputOfOne, NoStaleInput
<1> QED BY <1>1, SpecInv, PTL

(* The send buffer is not so safe: run() overwrites the state after the    *)
(* disconnection callback (hs_net_connector.c:253) and does not clear what *)
(* was written for a connection that callback made.  It is when there is   *)
(* no such connection.                                                     *)
KeepsItsConnection == ~ DisconnConnects \/ "ok" \notin ConnectResults

OutputOfOne ==
  /\ pc = "disconn" => state # "CONNECTED"
  /\ SendHolds(send_buff, SendLength, parity)

LEMMA DisconnectOutput ==
  ASSUME Inv, NEW next, Disconnect(next) PROVE OutputOfOne'
BY Constants, SendClearHolds DEF Disconnect, Disconnected, OutputOfOne, Inv, TypeOK

LEMMA ConnectOutput ==
  ASSUME KeepsItsConnection, Inv, OutputOfOne, AppConnect \/ RunReconnecting
  PROVE  OutputOfOne'
<1>1. PICK outcome \in Outcomes : Connect(outcome)
  BY DEF AppConnect, RunReconnecting
<1>2. Fresh \/ state \in {"DISCONNECT", "RECONNECTING"}
  BY DEF AppConnect, RunReconnecting
<1>3. parity' = parity
  BY <1>1, <1>2, ConnectKeepsTag DEF AppConnect, RunReconnecting
<1>4. pc' = pc /\ send_buff' = send_buff
  BY DEF AppConnect, RunReconnecting, control
<1>5. pc = "disconn" => DisconnConnects
  BY DEF AppConnect, RunReconnecting, InRun
<1>6. pc = "disconn" => state' # "CONNECTED"
  <2> SUFFICES ASSUME pc = "disconn" PROVE state' # "CONNECTED"
    OBVIOUS
  <2>1. outcome \in {"nosocket", "progress", "fail"}
    BY <1>5, Constants DEF KeepsItsConnection, Outcomes
  <2> QED BY <1>1, <1>2, <2>1 DEF Connect, Fresh
<1> QED BY <1>3, <1>4, <1>6 DEF OutputOfOne

LEMMA NextOutput ==
  ASSUME KeepsItsConnection, Inv, OutputOfOne, [Next]_vars
  PROVE  OutputOfOne'
<1>1. CASE AppConnect \/ RunReconnecting
  BY <1>1, ConnectOutput
<1>2. CASE \E next : Disconnect(next)
  BY <1>2, DisconnectOutput
<1>3. CASE UNCHANGED <<send_buff, parity>> /\ pc' # "disconn"
  BY <1>3 DEF OutputOfOne
<1>4. CASE UNCHANGED <<send_buff, parity, state, pc>>
  BY <1>4 DEF OutputOfOne
<1>5. CASE DisconnReturns
  <2>1. state # "CONNECTED" /\ pc' # "disconn" /\ send_buff' = send_buff
    BY <1>5 DEF DisconnReturns, OutputOfOne, Inv, TypeOK
  <2>2. state' = "DISCONNECT" => state = "DISCONNECT"
    BY <1>5 DEF DisconnReturns
  <2>3. parity' = parity
    BY <1>5, <2>1, <2>2 DEF DisconnReturns, Tag
  <2> QED BY <1>3, <2>1, <2>3
<1>6. CASE AppWrite
  <2>1. <<parity>> \in Seq(Byte) /\ \A i \in 1 .. Len(<<parity>>) : <<parity>>[i] = parity
    BY DEF Inv, TypeOK
  <2>2. SendHolds(send_buff', SendLength, parity)
    BY <1>6, <2>1, WrittenHolds, Constants DEF AppWrite, OutputOfOne
  <2> QED BY <1>6, <2>2 DEF AppWrite, OutputOfOne, control, history
<1>7. CASE RunSends
  <2>1. ASSUME NEW s \in 1 .. CanSend(send_buff), send_buff' = Sent(send_buff, s)
        PROVE  SendHolds(send_buff', SendLength, parity)
    <3>1. s \in 0 .. CanSend(send_buff)
      BY DEF CanSend
    <3> QED BY <2>1, <3>1, SentHolds, Constants DEF OutputOfOne
  <2>2. \/ \E next : Disconnect(next)
        \/ UNCHANGED <<send_buff, parity>> /\ pc' = "app"
        \/ /\ \E s \in 1 .. CanSend(send_buff) : send_buff' = Sent(send_buff, s)
           /\ parity' = parity /\ pc' = "app"
    BY <1>7 DEF RunSends, connector, history
  <2> QED BY <1>2, <1>3, <2>1, <2>2 DEF OutputOfOne
<1>8. CASE RunConnecting
  BY <1>2, <1>3, <1>8 DEF RunConnecting, InRun, control, history
<1>9. CASE AppDisconnect \/ AppContinues
  BY <1>2, <1>3, <1>9 DEF AppDisconnect, AppContinues, AppCloses, AppGoesOn,
     connector, history
<1>10. CASE PeerSends \/ Tick \/ UNCHANGED vars
  BY <1>4, <1>10 DEF PeerSends, Tick, vars, connector, control, history
<1>11. CASE ConnReturns \/ HandlerReturns
  BY <1>3, <1>11 DEF ConnReturns, HandlerReturns, connector, history
<1>12. CASE \/ SelectFails \/ RunReadsNothing \/ RunReceives \/ RunReceivesEAGAIN
            \/ RunReceivesError \/ RunReceivesEnd
  BY <1>2, <1>3, <1>12 DEF SelectFails, RunReadsNothing, RunReceives,
     RunReceivesEAGAIN, RunReceivesError, RunReceivesEnd, connector, history
<1>13. CASE \E f \in Fd : ConnectEnds(f) \/ PeerCloses(f) \/ PeerResets(f)
  BY <1>4, <1>13 DEF ConnectEnds, PeerCloses, PeerResets, connector, control, history
<1> QED BY <1>1, <1>5, <1>6, <1>7, <1>8, <1>9, <1>10, <1>11, <1>12, <1>13
        DEF Next, Run, Returns

(* No byte of a connection that is over is offered to the handler or sent  *)
(* on a later one, on whatever path it ended (hs_net_connector.c:149).     *)
THEOREM BytesAreCurrent ==
  ASSUME KeepsItsConnection PROVE Spec => []NoStaleBytes
<1>1. Init => OutputOfOne
  BY Constants, SendInitHolds DEF Init, OutputOfOne
<1>2. Spec => []OutputOfOne
  BY <1>1, NextOutput, SpecInv, PTL DEF Spec
<1>3. Inv /\ OutputOfOne => NoStaleBytes
  BY OfferedHolds, UnsentHolds, Constants
     DEF Inv, InputOfOne, OutputOfOne, NoStaleBytes, NoStaleInput, NoStaleOutput
<1> QED BY <1>2, <1>3, SpecInv, PTL

-----------------------------------------------------------------------------
(* The timer was never set before the last retry of the loop, so that two  *)
(* of its retries are INTERVAL apart (hs_net_connector.c:282).  An attempt *)
(* of the application's own does not count: it sets no timer, and when it  *)
(* is refused the loop retries at once (line 211).                         *)
THEOREM AttemptsArePaced == Spec => RetriesArePaced
<1>1. Inv /\ [Next]_vars => [RunReconnecting => sinceTry >= INTERVAL]_vars
  <2>1. ASSUME Inv, RunReconnecting
        PROVE  sinceTry >= INTERVAL
    <3>1. /\ waited \in 0 .. INTERVAL /\ sinceTry \in 0 .. INTERVAL
          /\ waited <= sinceTry /\ waited >= INTERVAL
      BY <2>1 DEF Inv, TypeOK, RunReconnecting, RetryIsDue
    <3> QED BY <3>1, Constants
  <2> QED BY <2>1
<1> QED BY <1>1, SpecInv, PTL DEF Spec, RetriesArePaced

-----------------------------------------------------------------------------
(* A disconnection callback that connects again loses its connection, and  *)
(* the property that none is lost is about the others.  It is inductive    *)
(* with two facts: in that callback the connector is disconnected, and     *)
(* wherever connect may overwrite the socket it is dead.                   *)
Dead == SockStates \ {"progress", "up", "fin"}

Forgets ==
  /\ pc = "disconn" => state = "DISCONNECT"
  /\ state \in {"DISCONNECT", "RECONNECTING"} => sock[socket] \in Dead
  /\ NoForgottenConnection

(* Where connect is called the descriptor it overwrites is a dead one.     *)
LEMMA ConnectForgets ==
  ASSUME Inv, Forgets, Fresh \/ state \in {"DISCONNECT", "RECONNECTING"},
         NEW outcome \in Outcomes, Connect(outcome), pc # "disconn", pc' = pc
  PROVE  Forgets'
<1>1. sock[socket] \in Dead
  BY DEF Forgets, Fresh, Dead, SockStates
<1>2. CASE outcome = "nosocket"
  BY <1>2 DEF Connect, Forgets, NoForgottenConnection
<1>3. CASE outcome # "nosocket"
  <2>1. /\ FreeFds # {} /\ outcome \in {"progress", "fail", "ok"}
        /\ LowestFree \in Fd /\ socket' = LowestFree
    BY <1>3, Constants, LowestFreeIsFree DEF Outcomes, FreeFds, Connect
  <2>2. \A f \in Fd : f # LowestFree => sock'[f] = sock[f]
    BY <1>3, <2>1 DEF Connect, Inv, TypeOK
  <2>3. NoForgottenConnection'
    BY <1>1, <2>1, <2>2 DEF Forgets, NoForgottenConnection, Dead
  <2>4. state' \in {"DISCONNECT", "RECONNECTING"} => outcome = "fail"
    BY <1>3, <2>1 DEF Connect
  <2>5. outcome = "fail" => sock'[socket'] = "unconnected"
    BY <1>3, <2>1 DEF Connect, Inv, TypeOK
  <2> QED BY <2>3, <2>4, <2>5 DEF Forgets, Dead, SockStates
<1> QED BY <1>2, <1>3

LEMMA DisconnectForgets ==
  ASSUME Inv, Forgets, NEW next, Disconnect(next)
  PROVE  Forgets'
<1>1. /\ socket' = 0 /\ state' = "DISCONNECT"
      /\ sock' = [sock EXCEPT ![socket] = "free"]
  BY DEF Disconnect, Disconnected, Closed
<1>2. /\ sock'[socket] = "free"
      /\ \A f \in Fd : f # socket => sock'[f] = sock[f]
  BY <1>1 DEF Inv, TypeOK
<1>3. NoForgottenConnection'
  BY <1>2 DEF Forgets, NoForgottenConnection
<1>4. sock'[0] \in Dead
  <2>1. 0 # socket => sock[0] \in Dead
    BY Constants DEF Inv, TypeOK, Forgets, NoForgottenConnection, Dead
  <2> QED BY <1>2, <2>1, Constants DEF Dead, SockStates
<1> QED BY <1>1, <1>3, <1>4 DEF Forgets

(* A descriptor that is dead stays dead.                                   *)
LEMMA KernelForgets ==
  ASSUME Inv, Forgets, NEW f \in Fd,
         ConnectEnds(f) \/ PeerCloses(f) \/ PeerResets(f)
  PROVE  Forgets'
<1>1. /\ sock[f] \in {"progress", "up", "fin"}
      /\ \A g \in Fd : g # f => sock'[g] = sock[g]
      /\ UNCHANGED <<connector, control>>
  BY DEF ConnectEnds, PeerCloses, PeerResets, Inv, TypeOK
<1>2. f = socket
  BY <1>1 DEF Forgets, NoForgottenConnection
<1>3. state \notin {"DISCONNECT", "RECONNECTING"}
  BY <1>1, <1>2 DEF Forgets, Dead
<1> QED BY <1>1, <1>2, <1>3 DEF Forgets, NoForgottenConnection, connector, control

LEMMA NextForgets ==
  ASSUME ~ DisconnConnects, Inv, Forgets, [Next]_vars
  PROVE  Forgets'
<1>1. CASE AppConnect
  BY <1>1, ConnectForgets DEF AppConnect, control
<1>2. CASE RunReconnecting
  BY <1>2, ConnectForgets DEF RunReconnecting, InRun, control
<1>3. CASE \E next \in {"app", "failed", "conn", "handler", "close"} : Disconnect(next)
  BY <1>3, DisconnectForgets
<1>4. ASSUME NEW f \in Fd, ConnectEnds(f) \/ PeerCloses(f) \/ PeerResets(f)
      PROVE  Forgets'
  BY <1>4, KernelForgets
<1>5. CASE DisconnReturns
  <2>1. /\ UNCHANGED <<socket, sock>> /\ pc' # "disconn"
        /\ state = "DISCONNECT"
    BY <1>5 DEF DisconnReturns, kernel, Forgets, Inv, TypeOK
  <2> QED BY <2>1 DEF Forgets, NoForgottenConnection
<1>6. CASE UNCHANGED <<state, socket, sock>> /\ pc' # "disconn"
  BY <1>6 DEF Forgets, NoForgottenConnection
<1>7. CASE UNCHANGED <<state, socket, sock, pc>>
  BY <1>7 DEF Forgets, NoForgottenConnection
<1>8. CASE RunConnecting
  <2>1. CASE UNCHANGED <<socket, sock>> /\ state' = "CONNECTED" /\ pc' = "conn"
    BY <2>1 DEF Forgets, NoForgottenConnection
  <2>2. CASE /\ UNCHANGED <<socket, sock, pc>> /\ state' = "RECONNECTING"
             /\ sock[socket] = "refused" /\ pc # "disconn"
    BY <2>2 DEF Forgets, NoForgottenConnection, Dead, SockStates
  <2> QED BY <1>3, <1>8, <2>1, <2>2
          DEF RunConnecting, InRun, kernel, control
<1>9. CASE AppDisconnect \/ AppContinues
  BY <1>3, <1>6, <1>9 DEF AppDisconnect, AppContinues, AppCloses, AppGoesOn,
     connector, kernel
<1>10. CASE AppWrite \/ PeerSends \/ Tick \/ UNCHANGED vars
  BY <1>7, <1>10 DEF AppWrite, PeerSends, Tick, vars, connector, control, kernel
<1>11. CASE ConnReturns \/ HandlerReturns
  BY <1>6, <1>11 DEF ConnReturns, HandlerReturns, connector, kernel
<1>12. CASE \/ SelectFails \/ RunReadsNothing \/ RunReceives \/ RunReceivesEAGAIN
            \/ RunReceivesError \/ RunReceivesEnd \/ RunSends
  BY <1>3, <1>6, <1>12 DEF SelectFails, RunReadsNothing, RunReceives,
     RunReceivesEAGAIN, RunReceivesError, RunReceivesEnd, RunSends, connector, kernel
<1> QED BY <1>1, <1>2, <1>4, <1>5, <1>8, <1>9, <1>10, <1>11, <1>12
        DEF Next, Run, Returns

(* Every established connection, and every attempt that may become one, is *)
(* on the descriptor the connector has.                                    *)
THEOREM NothingForgotten ==
  ASSUME ~ DisconnConnects PROVE Spec => []NoForgottenConnection
<1>1. Init => Forgets
  BY DEF Init, Forgets, NoForgottenConnection
<1>2. Spec => []Forgets
  BY <1>1, NextForgets, SpecInv, PTL DEF Spec
<1>3. Forgets => NoForgottenConnection
  BY DEF Forgets
<1> QED BY <1>2, <1>3, PTL

-----------------------------------------------------------------------------
(* A connect() that succeeds at once is not announced; without one, what   *)
(* the application was told is what the state says, also inside run().     *)
Knows ==
  /\ pc = "disconn" => state # "CONNECTED"
  /\ appUp <=> state = "CONNECTED"

LEMMA ConnectKnows ==
  ASSUME "ok" \notin ConnectResults, Knows, Inv,
         Fresh \/ state \in {"DISCONNECT", "RECONNECTING"},
         NEW outcome \in Outcomes, Connect(outcome), UNCHANGED <<pc, appUp>>
  PROVE  Knows'
<1>1. outcome \in {"nosocket", "progress", "fail"}
  BY Constants DEF Outcomes
<1>2. state # "CONNECTED" /\ state' # "CONNECTED"
  BY <1>1 DEF Connect, Fresh
<1> QED BY <1>2 DEF Knows

LEMMA NextKnows ==
  ASSUME "ok" \notin ConnectResults, Inv, Knows, [Next]_vars
  PROVE  Knows'
<1>0. ASSUME NEW next, Disconnect(next)
      PROVE  Knows'
  BY <1>0 DEF Disconnect, Disconnected, Knows
<1>1. CASE AppConnect
  BY <1>1, ConnectKnows DEF AppConnect, control
<1>2. CASE RunReconnecting
  BY <1>2, ConnectKnows DEF RunReconnecting, control
<1>3. CASE RunConnecting
  <2>1. pc = "app" /\ state = "CONNECTING"
    BY <1>3 DEF RunConnecting, InRun
  <2>2. CASE state' = "CONNECTED" /\ appUp' = TRUE /\ pc' = "conn"
    BY <2>2 DEF Knows
  <2>3. CASE state' = "RECONNECTING" /\ UNCHANGED <<pc, appUp>>
    BY <2>1, <2>3 DEF Knows
  <2> QED BY <1>0, <1>3, <2>2, <2>3 DEF RunConnecting, control, history
<1>4. CASE DisconnReturns
  <2>1. state # "CONNECTED" /\ appUp = FALSE
    BY <1>4 DEF DisconnReturns, Knows, Inv, TypeOK
  <2>2. state' \in {"RECONNECTING", state} /\ appUp' = FALSE
    BY <1>4, <2>1 DEF DisconnReturns
  <2> QED BY <2>1, <2>2 DEF Knows
<1>5. CASE UNCHANGED <<state, appUp>> /\ pc' # "disconn"
  BY <1>5 DEF Knows
<1>6. CASE UNCHANGED <<state, appUp, pc>>
  BY <1>6 DEF Knows
<1>7. CASE AppDisconnect \/ AppContinues
  BY <1>0, <1>5, <1>7 DEF AppDisconnect, AppContinues, AppCloses, AppGoesOn,
     connector, history
<1>8. CASE AppWrite \/ PeerSends \/ Tick \/ UNCHANGED vars
  BY <1>6, <1>8 DEF AppWrite, PeerSends, Tick, vars, connector, control, history
<1>9. CASE ConnReturns \/ HandlerReturns
  BY <1>5, <1>9 DEF ConnReturns, HandlerReturns, connector, history
<1>10. CASE \/ SelectFails \/ RunReadsNothing \/ RunReceives \/ RunReceivesEAGAIN
            \/ RunReceivesError \/ RunReceivesEnd \/ RunSends
  BY <1>0, <1>5, <1>10 DEF SelectFails, RunReadsNothing, RunReceives,
     RunReceivesEAGAIN, RunReceivesError, RunReceivesEnd, RunSends, connector, history
<1>11. CASE \E f \in Fd : ConnectEnds(f) \/ PeerCloses(f) \/ PeerResets(f)
  BY <1>6, <1>11 DEF ConnectEnds, PeerCloses, PeerResets, connector, control, history
<1> QED BY <1>1, <1>2, <1>3, <1>4, <1>7, <1>8, <1>9, <1>10, <1>11
        DEF Next, Run, Returns

(* Over all the paths into and out of CONNECTED the application is told,   *)
(* before it has control again.                                            *)
THEOREM AppIsTold ==
  ASSUME "ok" \notin ConnectResults PROVE Spec => []AppKnows
<1>1. Init => Knows
  BY DEF Init, Knows
<1>2. Spec => []Knows
  BY <1>1, NextKnows, SpecInv, PTL DEF Spec
<1>3. Knows => AppKnows
  BY DEF Knows, AppKnows
<1> QED BY <1>2, <1>3, PTL

-----------------------------------------------------------------------------
(* An attempt that failed at once does not stay in the state CONNECTING,   *)
(* in which its socket would be taken for an established one - unless the  *)
(* connector is not to reconnect.                                          *)
Attempted == state = "CONNECTING" => sock[socket] # "unconnected"

ReconnectsAfterFailure == is_reconnect \/ "fail" \notin ConnectResults

LEMMA ConnectAttempted ==
  ASSUME ReconnectsAfterFailure, Inv, Attempted, NEW outcome \in Outcomes,
         Connect(outcome)
  PROVE  Attempted'
<1>1. CASE outcome = "nosocket"
  BY <1>1 DEF Connect, Attempted
<1>2. CASE outcome # "nosocket"
  <2>1. /\ FreeFds # {} /\ outcome \in {"progress", "fail", "ok"}
        /\ LowestFree \in Fd /\ socket' = LowestFree
        /\ outcome \in ConnectResults
    BY <1>2, Constants, LowestFreeIsFree DEF Outcomes, FreeFds, Connect
  <2>2. state' = "CONNECTING" => outcome = "progress"
    BY <1>2, <2>1, Constants DEF Connect, ReconnectsAfterFailure
  <2>3. outcome = "progress" => sock'[socket'] = "progress"
    BY <1>2, <2>1 DEF Connect, Inv, TypeOK
  <2> QED BY <2>2, <2>3 DEF Attempted
<1> QED BY <1>1, <1>2

LEMMA NextAttempted ==
  ASSUME ReconnectsAfterFailure, Inv, Attempted, [Next]_vars
  PROVE  Attempted'
<1>0. ASSUME NEW next, Disconnect(next)
      PROVE  Attempted'
  BY <1>0 DEF Disconnect, Disconnected, Attempted
<1>1. CASE AppConnect \/ RunReconnecting
  BY <1>1, ConnectAttempted DEF AppConnect, RunReconnecting
<1>2. CASE RunConnecting
  <2>1. CASE state' \in {"CONNECTED", "RECONNECTING"}
    BY <2>1 DEF Attempted
  <2> QED BY <1>0, <1>2, <2>1 DEF RunConnecting
<1>3. CASE UNCHANGED <<state, socket, sock>>
  BY <1>3 DEF Attempted
<1>4. CASE DisconnReturns
  <2>1. UNCHANGED <<socket, sock>> /\ state' \in {"RECONNECTING", state}
    BY <1>4 DEF DisconnReturns, kernel
  <2> QED BY <2>1 DEF Attempted
<1>5. CASE AppDisconnect \/ AppContinues
  BY <1>0, <1>3, <1>5 DEF AppDisconnect, AppContinues, AppCloses, AppGoesOn,
     connector, kernel
<1>6. CASE AppWrite \/ PeerSends \/ Tick \/ UNCHANGED vars
  BY <1>3, <1>6 DEF AppWrite, PeerSends, Tick, vars, connector, kernel
<1>7. CASE ConnReturns \/ HandlerReturns
  BY <1>3, <1>7 DEF ConnReturns, HandlerReturns, connector, kernel
<1>8. CASE \/ SelectFails \/ RunReadsNothing \/ RunReceives \/ RunReceivesEAGAIN
           \/ RunReceivesError \/ RunReceivesEnd \/ RunSends
  BY <1>0, <1>3, <1>8 DEF SelectFails, RunReadsNothing, RunReceives,
     RunReceivesEAGAIN, RunReceivesError, RunReceivesEnd, RunSends, connector, kernel
<1>9. ASSUME NEW f \in Fd, ConnectEnds(f) \/ PeerCloses(f) \/ PeerResets(f)
      PROVE  Attempted'
  <2>1. /\ UNCHANGED <<state, socket>> /\ socket \in Fd
        /\ sock'[socket] = "unconnected" => sock[socket] = "unconnected"
    BY <1>9 DEF ConnectEnds, PeerCloses, PeerResets, connector, Inv, TypeOK
  <2> QED BY <2>1 DEF Attempted
<1> QED BY <1>1, <1>2, <1>4, <1>5, <1>6, <1>7, <1>8, <1>9 DEF Next, Run, Returns

(* The connection callback is called for an established connection.        *)
THEOREM AnnouncedConnections ==
  ASSUME ReconnectsAfterFailure PROVE Spec => AnnouncedIsEstablished
<1> DEFINE Announces == ~ appUp /\ appUp' => sock[socket] \in {"up", "fin"}
<1>1. Init => Attempted
  <2> SUFFICES ASSUME Init PROVE sock[socket] # "unconnected"
    BY DEF Attempted
  <2>1. sock[0] = "foreign" /\ socket = 0
    BY Constants DEF Init
  <2> QED BY <2>1
<1>2. Spec => []Attempted
  BY <1>1, NextAttempted, SpecInv, PTL DEF Spec
<1>3. Inv /\ Attempted /\ [Next]_vars => [Announces]_vars
  <2> SUFFICES ASSUME Inv, Attempted, Next, ~ appUp, appUp'
               PROVE  sock[socket] \in {"up", "fin"}
    OBVIOUS
  <2>1. \A next : ~ Disconnect(next)
    BY DEF Disconnect
  <2>2. RunConnecting
    BY <2>1 DEF Next, Run, Returns, AppConnect, AppDisconnect, AppContinues, AppCloses,
       AppGoesOn, AppWrite, SelectFails, RunReadsNothing, RunReceives,
       RunReceivesEAGAIN, RunReceivesError, RunReceivesEnd, RunSends,
       RunReconnecting, ConnReturns, HandlerReturns, DisconnReturns, ConnectEnds,
       PeerCloses, PeerResets, PeerSends, Tick, history
  <2>3. state = "CONNECTING" /\ NoSoError(sock[socket])
    BY <2>1, <2>2 DEF RunConnecting, history
  <2> QED BY <2>3 DEF Attempted, NoSoError
<1> QED BY <1>2, <1>3, SpecInv, PTL DEF Spec, AnnouncedIsEstablished
=============================================================================
