-------------------------- MODULE MCRecvBuffStream --------------------------
(***************************************************************************)
(* RecvBuffStream for TLC: at most StreamBound bytes arrive on a           *)
(* connection, twice the length of the buffer and more.                    *)
(***************************************************************************)
EXTENDS RecvBuffStream

CONSTANT StreamBound

MCNext ==
  \/ WriteTo /\ Len(received') <= StreamBound
  \/ DataHandle
  \/ DataHandleClears
  \/ Clear

MCSpec == Init /\ [][MCNext]_vars
=============================================================================
