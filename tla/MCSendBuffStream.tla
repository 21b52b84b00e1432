-------------------------- MODULE MCSendBuffStream --------------------------
(***************************************************************************)
(* SendBuffStream for TLC: the streams of one connection stop at           *)
(* StreamBound bytes, twice the length of the buffer and more, so that the *)
(* offsets return to the start several times; Clear starts a new stream.   *)
(***************************************************************************)
EXTENDS SendBuffStream, SequencesExt

MCMessages == SeqOf(Byte, Length + 1)

MCNext ==
  \/ \E data \in Messages :
       Len(accepted) + Len(data) <= StreamBound /\ Write(data)
  \/ Send
  \/ Clear

MCSpec == Init /\ [][MCNext]_vars

MCFairSpec == MCSpec /\ Fairness
=============================================================================
