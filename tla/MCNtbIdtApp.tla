----------------------------- MODULE MCNtbIdtApp -----------------------------
(***************************************************************************)
(* Models of the ntb_idt_app driver for TLC.                               *)
(***************************************************************************)
EXTENDS NtbIdtApp

Once == [v \in VM |-> 1]
SecondReloads == [v \in VM |-> v]
=============================================================================
