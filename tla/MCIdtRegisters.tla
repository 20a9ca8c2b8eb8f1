--------------------------- MODULE MCIdtRegisters ---------------------------
(***************************************************************************)
(* Instances of IdtRegisters for TLC.                                      *)
(***************************************************************************)
EXTENDS IdtRegisters

NoMask == {{}}
\* Nothing masked, or the IN bit of register 0 masked.
SomeStsMasks == {{}, {In(0)}}

\* The Linux clients clear all their inbound or all their outbound bits.
ClearOut == {{Out(i) : i \in MsgIdx}}
ClearInOrOut == ClearOut \cup {{In(i) : i \in MsgIdx}}
AckOneOrAll == {Interrupts, {"MSG"}}

\* VM 1 writes every message register, VM 2 register 0 or none.
Sends == [v \in VM |-> IF v = 1 THEN MsgIdx ELSE {0}]
SendsOne == [v \in VM |-> IF v = 1 THEN MsgIdx ELSE {}]

\* Which other registers the guests write.
Clears == [v \in VM |-> {"MSGSTS"}]
Unmasks == [v \in VM |-> {"NTINTMSK", "MSGSTS"}]

\* VM 1 sends and rings, VM 2 serves, acknowledges and unmasks.
RingAndAck ==
  [v \in VM |-> IF v = 1 THEN {"OUTDBELLSET", "MSGSTSMSK"}
                ELSE {"NTINTSTS", "MSGSTS", "INDBELLSTS", "NTINTMSK"}]

\* VM 1 sends and changes its partition, VM 2 clears, signals and takes the
\* signal back.
SendAndSignal ==
  [v \in VM |-> IF v = 1 THEN {"MSGSTS", "OOF_TPART"}
                ELSE {"MSGSTS", "NTGSIGNAL", "GASAADDR", "GASADATA"}]
=============================================================================
