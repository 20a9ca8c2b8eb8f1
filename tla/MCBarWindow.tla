----------------------------- MODULE MCBarWindow -----------------------------
(***************************************************************************)
(* BarWindow for TLC: BARs of two words at address 1, peer memory of three *)
(* words, so that a window of one word fits behind any base and one of two *)
(* words does not.                                                         *)
(***************************************************************************)
EXTENDS BarWindow
=============================================================================
