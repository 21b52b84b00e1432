--------------------------- MODULE SendBuffStream ---------------------------
(***************************************************************************)
(* A send buffer in the hands of its owner (a connector, or an agent of an *)
(* acceptor or of a server): the application writes messages, the main     *)
(* loop sends what the kernel takes, and the owner clears the buffer when  *)
(* the connection is gone.  History variables record the byte streams at   *)
(* both ends, so that the buffer can be compared with a pipe.              *)
(***************************************************************************)
EXTENDS SendBuff

CONSTANTS
  Length,        \* the length the buffer is created with
  Messages,      \* what the application may pass to hs_sendbuff_write
  StreamBound    \* how far into the stream AcceptedIsSent looks

ASSUME LengthAssumption == Length \in Nat \ {0}
ASSUME MessagesAssumption == Messages \subseteq Seq(Byte)

VARIABLES
  hs,          \* struct hs_sendbuff
  accepted,    \* bytes of the writes that succeeded on this connection
  handed       \* bytes send() has taken on this connection

vars == <<hs, accepted, handed>>

TypeOK ==
  /\ hs \in SendBuffs(Length)
  /\ accepted \in Seq(Byte)
  /\ handed \in Seq(Byte)

Init ==
  /\ hs = hs_sendbuff_init(Length)
  /\ accepted = <<>>
  /\ handed = <<>>

(* hs_net_connector_write or hs_net_agent_write; a refused write changes   *)
(* nothing and the caller is told.                                         *)
Write(data) ==
  /\ hs' = hs_sendbuff_write(hs, data)
  /\ accepted' = IF Writable(hs, data) THEN accepted \o data ELSE accepted
  /\ UNCHANGED handed

(* hs_sendbuff_send.  send() takes any non-empty prefix.  The call passes  *)
(* three arguments to a function of four: whatever the flags then are, it  *)
(* takes bytes or fails, and a failure leaves the buffer as it is.         *)
Send ==
  \E s \in 1 .. CanSend(hs) :
    /\ handed' = handed \o SubSeq(Unsent(hs), 1, s)
    /\ hs' = Sent(hs, s)
    /\ UNCHANGED accepted

(* hs_net_connector_disconnect, or the destruction of an agent: the next   *)
(* bytes belong to another connection.                                     *)
Clear ==
  /\ hs' = hs_sendbuff_clear(hs)
  /\ accepted' = <<>>
  /\ handed' = <<>>

Next ==
  \/ \E data \in Messages : Write(data)
  \/ Send
  \/ Clear

Spec == Init /\ [][Next]_vars

(* "This function is to be called in the main loop, to guarantee that the  *)
(* send buffer has enough room for data to be written" (hs_sendbuff.h:44): *)
(* the loop comes back to hs_sendbuff_send, and the kernel of a connection *)
(* that stays up takes something again and again.                          *)
Fairness == WF_vars(Send)

FairSpec == Spec /\ Fairness

-----------------------------------------------------------------------------
(* Conservation: the bytes accepted are the bytes handed to the kernel     *)
(* followed by the bytes still waiting - nothing lost, doubled, reordered  *)
(* or taken from a cell no write reached, over any mix of partial sends,   *)
(* refused writes and returns to the start.  It is the all-or-nothing      *)
(* promise of hs_sendbuff.h:40 seen from the stream.                       *)
NothingLost == accepted = handed \o Unsent(hs)

(* A drained buffer offers its whole length again (hs_sendbuff.c:81), so   *)
(* the branch that reports met offsets as an error is never taken.         *)
EmptyIsAllFree == CanSend(hs) = 0 => CanWrite(hs) = hs.length

(* The buffer implements a pipe of its length.                             *)
Pipe == INSTANCE BytePipe WITH Capacity <- Length, in <- accepted, out <- handed
IsAPipe == Pipe!Spec

(* In a main loop as hs_sendbuff.h:44 asks for, what a write accepted is   *)
(* handed to the kernel, unless the connection is given up, however many   *)
(* writes follow.                                                          *)
AcceptedIsSent ==
  \A n \in 1 .. StreamBound :
    Len(accepted) >= n ~> Len(handed) >= n \/ accepted = <<>>
=============================================================================
