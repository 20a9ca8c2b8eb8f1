---------------------------- MODULE MCSisciSession ----------------------------
(***************************************************************************)
(* SisciSession for TLC: VM1 receives, the module of VM2 may be loaded     *)
(* again once.                                                             *)
(***************************************************************************)
EXTENDS SisciSession

Loads == <<1, 2>>
Options == <<{7, 8}, {7}>>
=============================================================================
