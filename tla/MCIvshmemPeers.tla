--------------------------- MODULE MCIvshmemPeers ---------------------------
(***************************************************************************)
(* Model of the connection between the two devices for TLC.                *)
(***************************************************************************)
EXTENDS IvshmemPeers

OnlySecond == {2}
Both == {1, 2}
=============================================================================
