---------------------------- MODULE IdtRegisters ----------------------------
(***************************************************************************)
(* The message, doorbell, signal and interrupt registers of the emulated   *)
(* IDT switch (qemu_src/hw/misc/idt_ntb_ivshmem.c).                        *)
(*                                                                         *)
(* Two QEMU processes map the same ivshmem region.  Each one runs the MMIO *)
(* handlers of its own guest one at a time (they hold the QEMU lock), but  *)
(* the two processes run at the same time, and a handler of one of them    *)
(* reads and writes registers of the other in the shared region with plain *)
(* C loads and stores.  A handler is therefore a sequence of steps; a      *)
(* compound assignment (|=, &=) is a load and a store, and only the reads  *)
(* of the interrupt masks are taken together with the access next to them. *)
(***************************************************************************)
EXTENDS Naturals, FiniteSets

CONSTANTS
  MsgIdx,      \* message registers, 0..3 in the device
  MsgVal,      \* values a guest writes to an OUTMSG register
  Doorbells,   \* doorbell bits
  Parts,       \* partition numbers a guest writes to OOF_TPART
  StsClears,   \* values a guest writes to MSGSTS, to clear those bits
  StsMasks,    \* values a guest writes to MSGSTSMSK
  IntClears,   \* values a guest writes to NTINTSTS
  IntMasks,    \* values a guest writes to NTINTMSK
  OutMsgs,     \* OutMsgs[v]: the OUTMSG registers guest v writes
  Registers,   \* Registers[v]: the other registers guest v writes
  SingleCpu,   \* both QEMU processes share one host CPU
  MaxCrash     \* bound: how often a QEMU process is killed

VM == {1, 2}
Peer(v) == 3 - v

Interrupts == {"MSG", "DBELL", "SEVENT"}

\* Bits of MSGSTS: IN (bits 16-19) a message is waiting, OUT (bits 0-3) a
\* write was refused.
In(i)  == <<"IN", i>>
Out(i) == <<"OUT", i>>
StsBits == {"IN", "OUT"} \X MsgIdx

\* 0 is what a fresh shared region holds in every register.
ASSUME ConstantsOK ==
  /\ 0 \in MsgIdx /\ 0 \in MsgVal /\ 0 \in Parts
  /\ OutMsgs \in [VM -> SUBSET MsgIdx]
  /\ StsClears \subseteq SUBSET StsBits
  /\ StsMasks \subseteq SUBSET StsBits
  /\ IntClears \subseteq SUBSET Interrupts
  /\ IntMasks \subseteq SUBSET Interrupts
  /\ SingleCpu \in BOOLEAN
  /\ MaxCrash \in Nat

VARIABLES
  nt_int_mask,       \* global interrupt mask, one for both VMs
  segsigsts,         \* bit 0 of the global SEGSIGSTS
  msg,               \* msg[v]: inbound message registers of v
  msgsts,            \* msgsts[v]: set of status bits
  msgsts_mask,
  inb_msg_src,
  inbound_mw_part,
  intsts,            \* intsts[v]: set of interrupt causes
  db,                \* db[v]: inbound doorbell bits
  gasaaddr,          \* gasaaddr[v]: does GASAADDR select SEGSIGSTS?
  host_event,        \* host_event[v]: INTERRUPT_HOST eventfd of v is signalled
  msi,               \* msi[v]: an MSI is pending in guest v
  op,                \* op[v]: the handler v is executing and its locals
  crashes,
  unread,            \* history: accepted messages v's guest has not cleared
  owed               \* history: causes raised since v's guest took an interrupt

regs == <<nt_int_mask, segsigsts, msg, msgsts, msgsts_mask, inb_msg_src,
          inbound_mw_part, intsts, db, gasaaddr>>
vars == <<regs, host_event, msi, op, crashes, unread, owed>>

\* Program points.  At those in Loaded the handler has loaded a register for a
\* compound assignment and not yet stored it.
Loaded == {"sts_store", "refuse_store", "refuse_irq_store", "raise_store",
           "clr_msgsts", "clr_intsts", "clr_db"}
Points == Loaded \cup {"idle", "off", "msg_store", "sts_load", "src",
                       "refuse_load", "refuse_irq", "raise_load", "kick"}

\* sts, ints and dbs hold the value a compound assignment of MSGSTS, NTINTSTS
\* or INDBELLSTS is about to store.
IdleOp == [pc |-> "idle", i |-> 0, val |-> 0, cause |-> "MSG",
           sts |-> {}, ints |-> {}, dbs |-> {}]

OpType == [pc: Points, i: MsgIdx, val: MsgVal, cause: Interrupts,
           sts: SUBSET StsBits, ints: SUBSET Interrupts, dbs: SUBSET Doorbells]

At(v, point) == op[v].pc = point
GotoSts(v, point, new) ==
  op' = [op EXCEPT ![v] = [@ EXCEPT !.pc = point, !.sts = new]]
GotoInts(v, point, new) ==
  op' = [op EXCEPT ![v] = [@ EXCEPT !.pc = point, !.ints = new]]
GotoDbs(v, point, new) ==
  op' = [op EXCEPT ![v] = [@ EXCEPT !.pc = point, !.dbs = new]]
Return(v) == op' = [op EXCEPT ![v] = IdleOp]

\* On one host CPU the compiled read-modify-write instruction is not
\* interleaved with the other process; on several it is (no lock prefix).
CanRun(v) == SingleCpu => op[Peer(v)].pc \notin Loaded

\* Guest v starts a register write.
Idle(v) == At(v, "idle") /\ CanRun(v)
Starts(v, r) == r \in Registers[v] /\ Idle(v)
-----------------------------------------------------------------------------
\* The shared region after the first realize: zeroed, everything masked.
Init ==
  /\ nt_int_mask = Interrupts
  /\ segsigsts = FALSE
  /\ msg = [v \in VM |-> [i \in MsgIdx |-> 0]]
  /\ msgsts = [v \in VM |-> {}]
  /\ msgsts_mask = [v \in VM |-> {}]
  /\ inb_msg_src = [v \in VM |-> [i \in MsgIdx |-> 0]]
  /\ inbound_mw_part = [v \in VM |-> 0]
  /\ intsts = [v \in VM |-> {}]
  /\ db = [v \in VM |-> {}]
  /\ gasaaddr = [v \in VM |-> FALSE]
  /\ host_event = [v \in VM |-> FALSE]
  /\ msi = [v \in VM |-> FALSE]
  /\ op = [v \in VM |-> IdleOp]
  /\ crashes = 0
  /\ unread = [v \in VM |-> {}]
  /\ owed = [v \in VM |-> {}]
-----------------------------------------------------------------------------
(***************************************************************************)
(* write_outbound_msg: the status test, then the refusal or the delivery.  *)
(***************************************************************************)
\* Mutant: no status test.
OutMsgUnchecked(v, i, x) ==
  /\ i \in OutMsgs[v] /\ Idle(v)
  /\ op' = [op EXCEPT ![v] = [@ EXCEPT !.pc = "msg_store", !.i = i, !.val = x]]
  /\ UNCHANGED <<regs, host_event, msi, crashes, unread, owed>>

\* Mutant: the test is on the writer's own status.
OutMsgOwnStatus(v, i, x) ==
  /\ i \in OutMsgs[v] /\ Idle(v)
  /\ LET point == IF In(i) \in msgsts[v] THEN "refuse_load" ELSE "msg_store"
     IN  op' = [op EXCEPT ![v] = [@ EXCEPT !.pc = point, !.i = i, !.val = x]]
  /\ UNCHANGED <<regs, host_event, msi, crashes, unread, owed>>

OutMsg(v, i, x) ==
  /\ i \in OutMsgs[v] /\ Idle(v)
  /\ LET point == IF In(i) \in msgsts[Peer(v)] THEN "refuse_load"
                                                ELSE "msg_store"
     IN  op' = [op EXCEPT ![v] = [@ EXCEPT !.pc = point, !.i = i, !.val = x]]
  /\ UNCHANGED <<regs, host_event, msi, crashes, unread, owed>>

\* Mutant: the refusal is reported on register 0.
RefuseLoadWrongBit(v) ==
  /\ At(v, "refuse_load") /\ CanRun(v)
  /\ GotoSts(v, "refuse_store", msgsts[v] \cup {Out(0)})
  /\ UNCHANGED <<regs, host_event, msi, crashes, unread, owed>>

RefuseLoad(v) ==
  /\ At(v, "refuse_load") /\ CanRun(v)
  /\ GotoSts(v, "refuse_store", msgsts[v] \cup {Out(op[v].i)})
  /\ UNCHANGED <<regs, host_event, msi, crashes, unread, owed>>

RefuseStore(v) ==
  /\ At(v, "refuse_store") /\ CanRun(v)
  /\ msgsts' = [msgsts EXCEPT ![v] = op[v].sts]
  /\ GotoSts(v, "refuse_irq", {})
  /\ UNCHANGED <<nt_int_mask, segsigsts, msg, msgsts_mask, inb_msg_src,
                 inbound_mw_part, intsts, db, gasaaddr, host_event, msi,
                 crashes, unread, owed>>

\* The condition under which the sender's own guest is interrupted:
\* (msgsts_mask & ~OUTMSGSTSi) && (~nt_int_mask & MSG).
RefusalInterrupts(v) ==
  /\ msgsts_mask[v] \ {Out(op[v].i)} # {}
  /\ "MSG" \notin nt_int_mask

RefuseIrq(v) ==
  /\ At(v, "refuse_irq") /\ CanRun(v)
  /\ IF RefusalInterrupts(v)
     THEN /\ GotoInts(v, "refuse_irq_store", intsts[v] \cup {"MSG"})
          /\ owed' = [owed EXCEPT ![v] = @ \cup {"MSG"}]
     ELSE Return(v) /\ UNCHANGED owed
  /\ UNCHANGED <<regs, host_event, msi, crashes, unread>>

\* interrupt_notify of the own guest follows the store in the same process.
RefuseIrqStore(v) ==
  /\ At(v, "refuse_irq_store") /\ CanRun(v)
  /\ intsts' = [intsts EXCEPT ![v] = op[v].ints]
  /\ msi' = [msi EXCEPT ![v] = TRUE]
  /\ Return(v)
  /\ UNCHANGED <<nt_int_mask, segsigsts, msg, msgsts, msgsts_mask, inb_msg_src,
                 inbound_mw_part, db, gasaaddr, host_event, crashes, unread,
                 owed>>

MsgStore(v) ==
  /\ At(v, "msg_store") /\ CanRun(v)
  /\ msg' = [msg EXCEPT ![Peer(v)][op[v].i] = op[v].val]
  /\ op' = [op EXCEPT ![v] = [@ EXCEPT !.pc = "sts_load", !.val = 0]]
  /\ UNCHANGED <<nt_int_mask, segsigsts, msgsts, msgsts_mask, inb_msg_src,
                 inbound_mw_part, intsts, db, gasaaddr, host_event, msi,
                 crashes, unread, owed>>

\* Mutant: the status is assigned, not added to.
StsLoadAssigns(v) ==
  /\ At(v, "sts_load") /\ CanRun(v)
  /\ GotoSts(v, "sts_store", {In(op[v].i)})
  /\ UNCHANGED <<regs, host_event, msi, crashes, unread, owed>>

StsLoad(v) ==
  /\ At(v, "sts_load") /\ CanRun(v)
  /\ GotoSts(v, "sts_store", msgsts[Peer(v)] \cup {In(op[v].i)})
  /\ UNCHANGED <<regs, host_event, msi, crashes, unread, owed>>

StsStore(v) ==
  /\ At(v, "sts_store") /\ CanRun(v)
  /\ msgsts' = [msgsts EXCEPT ![Peer(v)] = op[v].sts]
  /\ unread' = [unread EXCEPT ![Peer(v)] = @ \cup {op[v].i}]
  /\ GotoSts(v, "src", {})
  /\ UNCHANGED <<nt_int_mask, segsigsts, msg, msgsts_mask, inb_msg_src,
                 inbound_mw_part, intsts, db, gasaaddr, host_event, msi,
                 crashes, owed>>

\* The handler decides to raise cause in the peer, or returns.
RaiseOrReturn(v, cause, unmasked) ==
  IF unmasked
  THEN /\ op' = [op EXCEPT ![v] = [@ EXCEPT !.pc = "raise_load", !.cause = cause]]
       /\ owed' = [owed EXCEPT ![Peer(v)] = @ \cup {cause}]
  ELSE Return(v) /\ UNCHANGED owed

\* Mutant: the source is the number of the VM, not its partition.
SrcVm(v) ==
  /\ At(v, "src") /\ CanRun(v)
  /\ inb_msg_src' = [inb_msg_src EXCEPT ![Peer(v)][op[v].i] = v]
  /\ RaiseOrReturn(v, "MSG", /\ In(op[v].i) \notin msgsts_mask[Peer(v)]
                             /\ "MSG" \notin nt_int_mask)
  /\ UNCHANGED <<nt_int_mask, segsigsts, msg, msgsts, msgsts_mask,
                 inbound_mw_part, intsts, db, gasaaddr, host_event, msi,
                 crashes, unread>>

Src(v) ==
  /\ At(v, "src") /\ CanRun(v)
  /\ inb_msg_src' = [inb_msg_src EXCEPT ![Peer(v)][op[v].i] =
                                                         inbound_mw_part[v]]
  /\ RaiseOrReturn(v, "MSG", /\ In(op[v].i) \notin msgsts_mask[Peer(v)]
                             /\ "MSG" \notin nt_int_mask)
  /\ UNCHANGED <<nt_int_mask, segsigsts, msg, msgsts, msgsts_mask,
                 inbound_mw_part, intsts, db, gasaaddr, host_event, msi,
                 crashes, unread>>
-----------------------------------------------------------------------------
(***************************************************************************)
(* idt_raise_peer_interrupt and idt_kick_peer_interrupt.                   *)
(***************************************************************************)
RaiseLoad(v) ==
  /\ At(v, "raise_load") /\ CanRun(v)
  /\ GotoInts(v, "raise_store", intsts[Peer(v)] \cup {op[v].cause})
  /\ UNCHANGED <<regs, host_event, msi, crashes, unread, owed>>

RaiseStore(v) ==
  /\ At(v, "raise_store") /\ CanRun(v)
  /\ intsts' = [intsts EXCEPT ![Peer(v)] = op[v].ints]
  /\ GotoInts(v, "kick", {})
  /\ UNCHANGED <<nt_int_mask, segsigsts, msg, msgsts, msgsts_mask, inb_msg_src,
                 inbound_mw_part, db, gasaaddr, host_event, msi, crashes,
                 unread, owed>>

\* Mutant: the sense of the interrupt mask is inverted.
KickMasked(v) ==
  /\ At(v, "kick") /\ CanRun(v)
  /\ host_event' = [host_event EXCEPT ![Peer(v)] =
       @ \/ (~At(Peer(v), "off") /\ intsts[Peer(v)] \cap nt_int_mask # {})]
  /\ Return(v)
  /\ UNCHANGED <<regs, msi, crashes, unread, owed>>

\* Both VMs are connected here, so idt_peer_eventfd_ready holds while the peer
\* is running; the eventfd of a dead peer takes the signal to nobody.
Kick(v) ==
  /\ At(v, "kick") /\ CanRun(v)
  /\ host_event' = [host_event EXCEPT ![Peer(v)] =
       @ \/ (~At(Peer(v), "off") /\ intsts[Peer(v)] \ nt_int_mask # {})]
  /\ Return(v)
  /\ UNCHANGED <<regs, msi, crashes, unread, owed>>

\* ivshmem_vector_notify, vector INTERRUPT_HOST: runs in the main loop under
\* the QEMU lock.
HostEvent(v) ==
  /\ host_event[v] /\ At(v, "idle") /\ CanRun(v)
  /\ host_event' = [host_event EXCEPT ![v] = FALSE]
  /\ msi' = [msi EXCEPT ![v] = TRUE]
  /\ UNCHANGED <<regs, op, crashes, unread, owed>>

\* The guest's interrupt handler starts.
TakeInterrupt(v) ==
  /\ msi[v] /\ CanRun(v)
  /\ msi' = [msi EXCEPT ![v] = FALSE]
  /\ owed' = [owed EXCEPT ![v] = {}]
  /\ UNCHANGED <<regs, host_event, op, crashes, unread>>
-----------------------------------------------------------------------------
(***************************************************************************)
(* The other writes of ivshmem_io_write.                                   *)
(***************************************************************************)
\* OUTDBELLSET stores the value, it does not add bits.
OutDbellSet(v, bits) ==
  /\ Starts(v, "OUTDBELLSET")
  /\ db' = [db EXCEPT ![Peer(v)] = bits]
  /\ RaiseOrReturn(v, "DBELL", "DBELL" \notin nt_int_mask)
  /\ UNCHANGED <<nt_int_mask, segsigsts, msg, msgsts, msgsts_mask, inb_msg_src,
                 inbound_mw_part, intsts, gasaaddr, host_event, msi, crashes,
                 unread>>

\* segsigsts |= 1 and, below, segsigsts &= ~1: what is stored in the bit does
\* not depend on what was loaded, so one step is enough.
NtgSignal(v) ==
  /\ Starts(v, "NTGSIGNAL")
  /\ segsigsts' = TRUE
  /\ RaiseOrReturn(v, "SEVENT", "SEVENT" \notin nt_int_mask)
  /\ UNCHANGED <<nt_int_mask, msg, msgsts, msgsts_mask, inb_msg_src,
                 inbound_mw_part, intsts, db, gasaaddr, host_event, msi,
                 crashes, unread>>

GasaAddr(v, segsig) ==
  /\ Starts(v, "GASAADDR")
  /\ gasaaddr' = [gasaaddr EXCEPT ![v] = segsig]
  /\ UNCHANGED <<nt_int_mask, segsigsts, msg, msgsts, msgsts_mask, inb_msg_src,
                 inbound_mw_part, intsts, db, host_event, msi, op, crashes,
                 unread, owed>>

\* write_gasadata with SEGSIGSTS selected clears the bit; the other selections
\* write registers nothing in the device reads.
GasaData(v) ==
  /\ Starts(v, "GASADATA")
  /\ segsigsts' = (segsigsts /\ ~gasaaddr[v])
  /\ UNCHANGED <<nt_int_mask, msg, msgsts, msgsts_mask, inb_msg_src,
                 inbound_mw_part, intsts, db, gasaaddr, host_event, msi, op,
                 crashes, unread, owed>>

\* Writes that clear bits of an own register: load, then store.
MsgStsClear(v, bits) ==
  /\ Starts(v, "MSGSTS")
  /\ GotoSts(v, "clr_msgsts", msgsts[v] \ bits)
  /\ unread' = [unread EXCEPT ![v] = {i \in @ : In(i) \notin bits}]
  /\ UNCHANGED <<regs, host_event, msi, crashes, owed>>

MsgStsClearStore(v) ==
  /\ At(v, "clr_msgsts") /\ CanRun(v)
  /\ msgsts' = [msgsts EXCEPT ![v] = op[v].sts]
  /\ Return(v)
  /\ UNCHANGED <<nt_int_mask, segsigsts, msg, msgsts_mask, inb_msg_src,
                 inbound_mw_part, intsts, db, gasaaddr, host_event, msi,
                 crashes, unread, owed>>

IntStsClear(v, bits) ==
  /\ Starts(v, "NTINTSTS")
  /\ GotoInts(v, "clr_intsts", intsts[v] \ bits)
  /\ UNCHANGED <<regs, host_event, msi, crashes, unread, owed>>

IntStsClearStore(v) ==
  /\ At(v, "clr_intsts") /\ CanRun(v)
  /\ intsts' = [intsts EXCEPT ![v] = op[v].ints]
  /\ Return(v)
  /\ UNCHANGED <<nt_int_mask, segsigsts, msg, msgsts, msgsts_mask, inb_msg_src,
                 inbound_mw_part, db, gasaaddr, host_event, msi, crashes,
                 unread, owed>>

DbellClear(v, bits) ==
  /\ Starts(v, "INDBELLSTS")
  /\ GotoDbs(v, "clr_db", db[v] \ bits)
  /\ UNCHANGED <<regs, host_event, msi, crashes, unread, owed>>

DbellClearStore(v) ==
  /\ At(v, "clr_db") /\ CanRun(v)
  /\ db' = [db EXCEPT ![v] = op[v].dbs]
  /\ Return(v)
  /\ UNCHANGED <<nt_int_mask, segsigsts, msg, msgsts, msgsts_mask, inb_msg_src,
                 inbound_mw_part, intsts, gasaaddr, host_event, msi, crashes,
                 unread, owed>>

\* Writes that are one store.
SetMsgStsMask(v, mask) ==
  /\ Starts(v, "MSGSTSMSK")
  /\ msgsts_mask' = [msgsts_mask EXCEPT ![v] = mask]
  /\ UNCHANGED <<nt_int_mask, segsigsts, msg, msgsts, inb_msg_src,
                 inbound_mw_part, intsts, db, gasaaddr, host_event, msi, op,
                 crashes, unread, owed>>

SetIntMask(v, mask) ==
  /\ Starts(v, "NTINTMSK")
  /\ nt_int_mask' = mask
  /\ UNCHANGED <<segsigsts, msg, msgsts, msgsts_mask, inb_msg_src,
                 inbound_mw_part, intsts, db, gasaaddr, host_event, msi, op,
                 crashes, unread, owed>>

SetPart(v, part) ==
  /\ Starts(v, "OOF_TPART")
  /\ inbound_mw_part' = [inbound_mw_part EXCEPT ![v] = part]
  /\ UNCHANGED <<nt_int_mask, segsigsts, msg, msgsts, msgsts_mask, inb_msg_src,
                 intsts, db, gasaaddr, host_event, msi, op, crashes, unread,
                 owed>>
-----------------------------------------------------------------------------
(***************************************************************************)
(* A QEMU process is killed, possibly inside a handler, and started again. *)
(* The shared region survives in ivshmem-server's memory.                  *)
(***************************************************************************)
Crash(v) ==
  /\ crashes < MaxCrash /\ ~At(v, "off") /\ CanRun(v)
  /\ crashes' = crashes + 1
  /\ op' = [op EXCEPT ![v] = [IdleOp EXCEPT !.pc = "off"]]
  /\ host_event' = [host_event EXCEPT ![v] = FALSE]
  /\ msi' = [msi EXCEPT ![v] = FALSE]
  /\ gasaaddr' = [gasaaddr EXCEPT ![v] = FALSE]
  /\ owed' = [owed EXCEPT ![v] = {}]
  /\ UNCHANGED <<nt_int_mask, segsigsts, msg, msgsts, msgsts_mask, inb_msg_src,
                 inbound_mw_part, intsts, db, unread>>

\* ivshmem_common_realize masks every interrupt of both VMs and leaves the
\* message, doorbell and status registers as it finds them.
Realize(v) ==
  /\ At(v, "off") /\ CanRun(v)
  /\ nt_int_mask' = Interrupts
  /\ Return(v)
  /\ UNCHANGED <<segsigsts, msg, msgsts, msgsts_mask, inb_msg_src,
                 inbound_mw_part, intsts, db, gasaaddr, host_event, msi,
                 crashes, unread, owed>>
-----------------------------------------------------------------------------
\* The rest of a handler that is under way.
Continue(v) ==
  \/ RefuseLoad(v) \/ RefuseStore(v) \/ RefuseIrq(v) \/ RefuseIrqStore(v)
  \/ MsgStore(v) \/ StsLoad(v) \/ StsStore(v) \/ Src(v)
  \/ RaiseLoad(v) \/ RaiseStore(v) \/ Kick(v)
  \/ MsgStsClearStore(v) \/ IntStsClearStore(v) \/ DbellClearStore(v)

GuestWrite(v) ==
  \/ \E i \in MsgIdx, x \in MsgVal : OutMsg(v, i, x)
  \/ \E bits \in SUBSET Doorbells : OutDbellSet(v, bits)
  \/ NtgSignal(v)
  \/ \E segsig \in BOOLEAN : GasaAddr(v, segsig)
  \/ GasaData(v)
  \/ \E bits \in StsClears : MsgStsClear(v, bits)
  \/ \E bits \in IntClears : IntStsClear(v, bits)
  \/ \E bits \in SUBSET Doorbells : DbellClear(v, bits)
  \/ \E mask \in StsMasks : SetMsgStsMask(v, mask)
  \/ \E mask \in IntMasks : SetIntMask(v, mask)
  \/ \E part \in Parts : SetPart(v, part)

Next ==
  \E v \in VM :
    \/ GuestWrite(v)
    \/ Continue(v)
    \/ HostEvent(v)
    \/ TakeInterrupt(v)
    \/ Crash(v)
    \/ Realize(v)

Spec == Init /\ [][Next]_vars
-----------------------------------------------------------------------------
TypeOK ==
  /\ nt_int_mask \subseteq Interrupts
  /\ segsigsts \in BOOLEAN
  /\ msg \in [VM -> [MsgIdx -> MsgVal]]
  /\ msgsts \in [VM -> SUBSET StsBits]
  /\ msgsts_mask \in [VM -> SUBSET StsBits]
  /\ inb_msg_src \in [VM -> [MsgIdx -> Parts]]
  /\ inbound_mw_part \in [VM -> Parts]
  /\ intsts \in [VM -> SUBSET Interrupts]
  /\ db \in [VM -> SUBSET Doorbells]
  /\ gasaaddr \in [VM -> BOOLEAN]
  /\ host_event \in [VM -> BOOLEAN]
  /\ msi \in [VM -> BOOLEAN]
  /\ op \in [VM -> OpType]
  /\ crashes \in 0..MaxCrash
  /\ unread \in [VM -> SUBSET MsgIdx]
  /\ owed \in [VM -> SUBSET Interrupts]

(***************************************************************************)
(* Properties.                                                             *)
(***************************************************************************)
\* A message register is never written while its INMSGSTS bit says that the
\* receiver still has a message in it, although write_outbound_msg tests the
\* bit in one step and stores the value in a later one, and both sides rewrite
\* the whole status word in between.
NoUnreadOverwrite ==
  [][\A v \in VM, i \in MsgIdx :
       msg'[v][i] # msg[v][i] => In(i) \notin msgsts[v]]_vars

\* Why the test and the later store agree.  A status word that its owner is
\* about to store holds no IN bit that memory lacks; one that the peer is about
\* to store holds every IN bit that memory has; so the IN bit that
\* write_outbound_msg found clear is still clear when the message is stored.
StatusOf(v) ==
  /\ op[v].pc \in {"refuse_store", "clr_msgsts"} =>
       \A i \in MsgIdx : In(i) \in op[v].sts => In(i) \in msgsts[v]
  /\ op[v].pc = "sts_store" =>
       \A i \in MsgIdx : In(i) \in msgsts[Peer(v)] => In(i) \in op[v].sts
  /\ op[v].pc \in {"msg_store", "sts_load", "sts_store"} =>
       In(op[v].i) \notin msgsts[Peer(v)]
StatusInv == \A v \in VM : StatusOf(v)

\* "INMSGSTSx fields of MSGSTS are set on a write to INMSGx and should be unset
\* by the client software on the peer": the bit of an accepted message stays
\* set until the receiving guest writes that bit to MSGSTS.
StatusKeptUntilCleared ==
  \A v \in VM : \A i \in unread[v] : In(i) \in msgsts[v]

\* "OUTMSGx is set and an interrupt is sent to host which attempts to write":
\* when nothing is masked, write_outbound_msg goes on from setting OUTMSGSTSi
\* to interrupting its own guest.
RefusalInterruptsWriter ==
  [][\A v \in VM :
       /\ At(v, "refuse_irq") /\ op'[v] # op[v]
       /\ msgsts_mask[v] = {} /\ nt_int_mask = {}
       => op'[v].pc = "refuse_irq_store"]_vars

\* An interrupt cause that a handler decided to raise, and that is still set
\* and unmasked, is on its way: the raising handler has not finished, or the
\* eventfd is signalled, or an MSI is pending in the guest.
WakeupPending ==
  \A v \in VM :
    (owed[v] \cap intsts[v]) \ nt_int_mask # {} =>
      \/ host_event[v]
      \/ msi[v]
      \/ op[Peer(v)].pc \in {"raise_load", "raise_store", "kick"}
      \/ op[v].pc = "refuse_irq_store"
-----------------------------------------------------------------------------
(***************************************************************************)
(* Refinement: on one host CPU the registers are a MessageChannel.  A      *)
(* mailbox is full when its IN bit is set, whatever the register holds.    *)
(***************************************************************************)
Waiting(v) == {i \in MsgIdx : In(i) \in msgsts[v]}

Chan == INSTANCE MessageChannel WITH
  box <- [v \in VM |-> [i \in Waiting(v) |-> msg[v][i]]],
  refused <- [v \in VM |-> {i \in MsgIdx : Out(i) \in msgsts[v]}],
  rejecting <- [v \in VM |-> IF op[v].pc \in {"refuse_load", "refuse_store"}
                             THEN {op[v].i} ELSE {}]

\* Every behaviour of write_outbound_msg, the MSGSTS write and the interrupt
\* path is one of the mailbox channel: no message vanishes, reappears or is
\* replaced, and a refusal is reported on the register it happened on.
ImplementsChannel == Chan!Spec
=============================================================================
