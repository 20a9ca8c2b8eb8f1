------------------------- MODULE IdtRegistersProofs -------------------------
(***************************************************************************)
(* Proofs about IdtRegisters, for every set of registers, values and masks *)
(* and every number of crashes.                                            *)
(***************************************************************************)
EXTENDS IdtRegisters, TLAPS

\* Most leaves are first-order; those that need arithmetic, records or sequences
\* cite SMT.
USE Zenon

\* Each VM has one peer, and is the peer of its peer.
LEMMA PeerFacts ==
  \A v \in VM : Peer(v) \in VM /\ Peer(v) # v /\ Peer(Peer(v)) = v
BY SMT DEF VM, Peer

\* There is no third VM.
LEMMA BothVMs == \A u, v \in VM : u = v \/ u = Peer(v)
BY SMT DEF VM, Peer

(***************************************************************************)
(* The handler locals: what the fields of op hold and that each way to     *)
(* move on keeps them typed.                                               *)
(***************************************************************************)
\* The fields of a handler's locals are of their declared types.
LEMMA OpFields ==
  \A o \in OpType :
    /\ o.pc \in Points /\ o.i \in MsgIdx /\ o.val \in MsgVal
    /\ o.cause \in Interrupts /\ o.sts \in SUBSET StsBits
    /\ o.ints \in SUBSET Interrupts /\ o.dbs \in SUBSET Doorbells
BY DEF OpType

\* The locals of an idle handler, and of a process that is off, are typed.
LEMMA IdleTyped == IdleOp \in OpType /\ [IdleOp EXCEPT !.pc = "off"] \in OpType
BY ConstantsOK DEF IdleOp, OpType, Points, Loaded, Interrupts

\* Moving a handler to its next point with a status word, an interrupt word or
\* doorbells to store keeps the locals typed.
LEMMA GotoTyped ==
  ASSUME op \in [VM -> OpType], NEW v \in VM, NEW point \in Points
  PROVE  /\ \A s \in SUBSET StsBits :
              GotoSts(v, point, s) => op' \in [VM -> OpType]
         /\ \A n \in SUBSET Interrupts :
              GotoInts(v, point, n) => op' \in [VM -> OpType]
         /\ \A d \in SUBSET Doorbells :
              GotoDbs(v, point, d) => op' \in [VM -> OpType]
<1>1. \A s \in SUBSET StsBits : [op[v] EXCEPT !.pc = point, !.sts = s] \in OpType
  BY DEF OpType
<1>2. \A n \in SUBSET Interrupts :
        [op[v] EXCEPT !.pc = point, !.ints = n] \in OpType
  BY DEF OpType
<1>3. \A d \in SUBSET Doorbells :
        [op[v] EXCEPT !.pc = point, !.dbs = d] \in OpType
  BY DEF OpType
<1> QED
  BY <1>1, <1>2, <1>3 DEF GotoSts, GotoInts, GotoDbs

\* So does returning from the handler.
LEMMA ReturnTyped ==
  ASSUME op \in [VM -> OpType], NEW v \in VM, Return(v)
  PROVE  op' \in [VM -> OpType]
BY IdleTyped DEF Return

\* So does starting or carrying out a message write.
LEMMA MsgTyped ==
  ASSUME NEW o \in OpType, NEW point \in Points, NEW i \in MsgIdx,
         NEW x \in MsgVal
  PROVE  /\ [o EXCEPT !.pc = point, !.i = i, !.val = x] \in OpType
         /\ [o EXCEPT !.pc = point, !.val = 0] \in OpType
BY ConstantsOK DEF OpType

\* So does deciding whether to interrupt the peer.
LEMMA RaiseTyped ==
  ASSUME op \in [VM -> OpType], owed \in [VM -> SUBSET Interrupts],
         NEW v \in VM, NEW c \in Interrupts, NEW unmasked \in BOOLEAN,
         RaiseOrReturn(v, c, unmasked)
  PROVE  op' \in [VM -> OpType] /\ owed' \in [VM -> SUBSET Interrupts]
<1>1. CASE unmasked
  <2>1. \A point \in Points : [op[v] EXCEPT !.pc = point, !.cause = c] \in OpType
    BY DEF OpType
  <2>2. "raise_load" \in Points
    BY DEF Points
  <2>3. [op[v] EXCEPT !.pc = "raise_load", !.cause = c] \in OpType
    BY <2>1, <2>2
  <2> QED
    BY <1>1, <2>3, PeerFacts, SMT DEF RaiseOrReturn
<1>2. CASE ~unmasked
  BY <1>2, ReturnTyped DEF RaiseOrReturn
<1> QED
  BY <1>1, <1>2

\* Every register and every handler local keeps its type, whatever the two
\* processes interleave.
THEOREM TypeCorrect == Spec => []TypeOK
<1>1. Init => TypeOK
  <2> SUFFICES ASSUME Init PROVE TypeOK
    OBVIOUS
  <2>1. op \in [VM -> OpType]
    BY IdleTyped DEF Init
  <2>2. crashes \in 0..MaxCrash
    BY ConstantsOK, SMT DEF Init
  <2> QED
    BY ConstantsOK, <2>1, <2>2 DEF Init, TypeOK
<1>2. TypeOK /\ [Next]_vars => TypeOK'
  <2> SUFFICES ASSUME TypeOK, [Next]_vars PROVE TypeOK'
    OBVIOUS
  <2> USE DEF TypeOK, regs
  <2>1. ASSUME NEW v \in VM, NEW i \in MsgIdx, NEW x \in MsgVal, OutMsg(v, i, x)
       PROVE  TypeOK'
    <3>1. \A point \in Points :
            [op[v] EXCEPT !.pc = point, !.i = i, !.val = x] \in OpType
      BY MsgTyped
    <3>2. op' \in [VM -> OpType]
      BY <2>1, <3>1 DEF OutMsg, Points
    <3> QED
      BY <2>1, <3>2 DEF OutMsg
  <2>2. ASSUME NEW v \in VM, RefuseLoad(v)
       PROVE  TypeOK'
    <3>1. msgsts[v] \cup {Out(op[v].i)} \in SUBSET StsBits
      <4>1. msgsts[v] \in SUBSET StsBits /\ op[v].i \in MsgIdx
        BY OpFields
      <4>2. \A i \in MsgIdx : Out(i) \in StsBits
        BY DEF StsBits, Out
      <4> QED
        BY <4>1, <4>2
    <3>2. op' \in [VM -> OpType]
      <4>1. GotoSts(v, "refuse_store", msgsts[v] \cup {Out(op[v].i)})
        BY <2>2 DEF RefuseLoad
      <4>2. "refuse_store" \in Points
        BY DEF Points, Loaded
      <4> QED
        BY <3>1, <4>1, <4>2, GotoTyped
    <3> QED
      BY <2>2, <3>2, OpFields, PeerFacts DEF RefuseLoad
  <2>3. ASSUME NEW v \in VM, RefuseStore(v)
       PROVE  TypeOK'
    <3>1. op' \in [VM -> OpType]
      <4>1. GotoSts(v, "refuse_irq", {})
        BY <2>3 DEF RefuseStore
      <4>2. "refuse_irq" \in Points
        BY DEF Points, Loaded
      <4> QED
        BY <4>1, <4>2, GotoTyped, SMT
    <3> QED
      BY <2>3, <3>1, OpFields, PeerFacts DEF RefuseStore
  <2>4. ASSUME NEW v \in VM, RefuseIrq(v)
       PROVE  TypeOK'
    <3>1. intsts[v] \cup {"MSG"} \in SUBSET Interrupts
      BY DEF Interrupts
    <3>2. op' \in [VM -> OpType]
      <4>1. CASE RefusalInterrupts(v)
        <5>1. GotoInts(v, "refuse_irq_store", intsts[v] \cup {"MSG"})
          BY <2>4, <4>1 DEF RefuseIrq
        <5>2. "refuse_irq_store" \in Points
          BY DEF Points, Loaded
        <5> QED
          BY <3>1, <5>1, <5>2, GotoTyped
      <4>2. CASE ~RefusalInterrupts(v)
        <5>1. Return(v)
          BY <2>4, <4>2 DEF RefuseIrq
        <5> QED
          BY <5>1, ReturnTyped
      <4> QED
        BY <4>1, <4>2
    <3>3. owed' \in [VM -> SUBSET Interrupts]
      <4>1. owed[v] \cup {"MSG"} \in SUBSET Interrupts
        BY DEF Interrupts
      <4>2. CASE RefusalInterrupts(v)
        <5>1. owed' = [owed EXCEPT ![v] = owed[v] \cup {"MSG"}]
          BY <2>4, <4>2 DEF RefuseIrq
        <5> QED
          BY <4>1, <5>1
      <4>3. CASE ~RefusalInterrupts(v)
        BY <2>4, <4>3 DEF RefuseIrq
      <4> QED
        BY <4>2, <4>3
    <3> QED
      BY <2>4, <3>2, <3>3 DEF RefuseIrq
  <2>5. ASSUME NEW v \in VM, RefuseIrqStore(v)
       PROVE  TypeOK'
    <3>1. op' \in [VM -> OpType]
      BY <2>5, ReturnTyped DEF RefuseIrqStore
    <3> QED
      BY <2>5, <3>1, OpFields, PeerFacts DEF RefuseIrqStore
  <2>6. ASSUME NEW v \in VM, MsgStore(v)
       PROVE  TypeOK'
    <3>1. [op[v] EXCEPT !.pc = "sts_load", !.val = 0] \in OpType
      BY MsgTyped, ConstantsOK DEF Points
    <3>2. op' \in [VM -> OpType]
      BY <2>6, <3>1 DEF MsgStore
    <3> QED
      BY <2>6, <3>2, OpFields, PeerFacts DEF MsgStore
  <2>7. ASSUME NEW v \in VM, StsLoad(v)
       PROVE  TypeOK'
    <3>1. msgsts[Peer(v)] \cup {In(op[v].i)} \in SUBSET StsBits
      <4>1. msgsts[Peer(v)] \in SUBSET StsBits /\ op[v].i \in MsgIdx
        BY OpFields, PeerFacts
      <4>2. \A i \in MsgIdx : In(i) \in StsBits
        BY DEF StsBits, In
      <4> QED
        BY <4>1, <4>2
    <3>2. op' \in [VM -> OpType]
      <4>1. GotoSts(v, "sts_store", msgsts[Peer(v)] \cup {In(op[v].i)})
        BY <2>7 DEF StsLoad
      <4>2. "sts_store" \in Points
        BY DEF Points, Loaded
      <4> QED
        BY <3>1, <4>1, <4>2, GotoTyped
    <3> QED
      BY <2>7, <3>2, OpFields, PeerFacts DEF StsLoad
  <2>8. ASSUME NEW v \in VM, StsStore(v)
       PROVE  TypeOK'
    <3>1. op' \in [VM -> OpType]
      <4>1. GotoSts(v, "src", {})
        BY <2>8 DEF StsStore
      <4>2. "src" \in Points
        BY DEF Points, Loaded
      <4> QED
        BY <4>1, <4>2, GotoTyped, SMT
    <3>2. /\ msgsts' \in [VM -> SUBSET StsBits]
          /\ unread' \in [VM -> SUBSET MsgIdx]
      <4>1. op[v].sts \in SUBSET StsBits /\ op[v].i \in MsgIdx
        BY OpFields
      <4> QED
        BY <2>8, <4>1, PeerFacts DEF StsStore
    <3> QED
      BY <2>8, <3>1, <3>2 DEF StsStore
  <2>9. ASSUME NEW v \in VM, Src(v)
       PROVE  TypeOK'
    <3>1. op' \in [VM -> OpType] /\ owed' \in [VM -> SUBSET Interrupts]
      BY <2>9, RaiseTyped DEF Src, Interrupts
    <3> QED
      BY <2>9, <3>1, OpFields, PeerFacts DEF Src
  <2>10. ASSUME NEW v \in VM, RaiseLoad(v)
       PROVE  TypeOK'
    <3>1. intsts[Peer(v)] \cup {op[v].cause} \in SUBSET Interrupts
      BY OpFields, PeerFacts
    <3>2. op' \in [VM -> OpType]
      <4>1. GotoInts(v, "raise_store", intsts[Peer(v)] \cup {op[v].cause})
        BY <2>10 DEF RaiseLoad
      <4>2. "raise_store" \in Points
        BY DEF Points, Loaded
      <4> QED
        BY <3>1, <4>1, <4>2, GotoTyped
    <3> QED
      BY <2>10, <3>2, OpFields, PeerFacts DEF RaiseLoad
  <2>11. ASSUME NEW v \in VM, RaiseStore(v)
       PROVE  TypeOK'
    <3>1. op' \in [VM -> OpType]
      <4>1. GotoInts(v, "kick", {})
        BY <2>11 DEF RaiseStore
      <4>2. "kick" \in Points
        BY DEF Points, Loaded
      <4> QED
        BY <4>1, <4>2, GotoTyped, SMT
    <3> QED
      BY <2>11, <3>1, OpFields, PeerFacts DEF RaiseStore
  <2>12. ASSUME NEW v \in VM, Kick(v)
       PROVE  TypeOK'
    <3>1. op' \in [VM -> OpType]
      BY <2>12, ReturnTyped DEF Kick
    <3> QED
      BY <2>12, <3>1, OpFields, PeerFacts DEF Kick
  <2>13. ASSUME NEW v \in VM, MsgStsClearStore(v)
       PROVE  TypeOK'
    <3>1. op' \in [VM -> OpType]
      BY <2>13, ReturnTyped DEF MsgStsClearStore
    <3> QED
      BY <2>13, <3>1, OpFields, PeerFacts DEF MsgStsClearStore
  <2>14. ASSUME NEW v \in VM, IntStsClearStore(v)
       PROVE  TypeOK'
    <3>1. op' \in [VM -> OpType]
      BY <2>14, ReturnTyped DEF IntStsClearStore
    <3> QED
      BY <2>14, <3>1, OpFields, PeerFacts DEF IntStsClearStore
  <2>15. ASSUME NEW v \in VM, DbellClearStore(v)
       PROVE  TypeOK'
    <3>1. op' \in [VM -> OpType]
      BY <2>15, ReturnTyped DEF DbellClearStore
    <3> QED
      BY <2>15, <3>1, OpFields, PeerFacts DEF DbellClearStore
  <2>16. ASSUME NEW v \in VM, NEW bits \in SUBSET Doorbells, OutDbellSet(v, bits)
       PROVE  TypeOK'
    <3>1. op' \in [VM -> OpType] /\ owed' \in [VM -> SUBSET Interrupts]
      BY <2>16, RaiseTyped DEF OutDbellSet, Interrupts
    <3> QED
      BY <2>16, <3>1, OpFields, PeerFacts DEF OutDbellSet
  <2>17. ASSUME NEW v \in VM, NtgSignal(v)
       PROVE  TypeOK'
    <3>1. op' \in [VM -> OpType] /\ owed' \in [VM -> SUBSET Interrupts]
      BY <2>17, RaiseTyped DEF NtgSignal, Interrupts
    <3> QED
      BY <2>17, <3>1, OpFields, PeerFacts DEF NtgSignal
  <2>18. ASSUME NEW v \in VM, NEW segsig \in BOOLEAN, GasaAddr(v, segsig)
       PROVE  TypeOK'
    BY <2>18, ConstantsOK DEF GasaAddr
  <2>19. ASSUME NEW v \in VM, GasaData(v)
       PROVE  TypeOK'
    BY <2>19, ConstantsOK DEF GasaData
  <2>20. ASSUME NEW v \in VM, NEW bits \in StsClears, MsgStsClear(v, bits)
       PROVE  TypeOK'
    <3>1. msgsts[v] \ bits \in SUBSET StsBits
      BY <2>20, ConstantsOK
    <3>2. op' \in [VM -> OpType]
      <4>1. GotoSts(v, "clr_msgsts", msgsts[v] \ bits)
        BY <2>20 DEF MsgStsClear
      <4>2. "clr_msgsts" \in Points
        BY DEF Points, Loaded
      <4> QED
        BY <3>1, <4>1, <4>2, GotoTyped
    <3> QED
      BY <2>20, <3>2, OpFields, PeerFacts DEF MsgStsClear
  <2>21. ASSUME NEW v \in VM, NEW bits \in IntClears, IntStsClear(v, bits)
       PROVE  TypeOK'
    <3>1. intsts[v] \ bits \in SUBSET Interrupts
      BY <2>21, ConstantsOK
    <3>2. op' \in [VM -> OpType]
      <4>1. GotoInts(v, "clr_intsts", intsts[v] \ bits)
        BY <2>21 DEF IntStsClear
      <4>2. "clr_intsts" \in Points
        BY DEF Points, Loaded
      <4> QED
        BY <3>1, <4>1, <4>2, GotoTyped
    <3> QED
      BY <2>21, <3>2, OpFields, PeerFacts DEF IntStsClear
  <2>22. ASSUME NEW v \in VM, NEW bits \in SUBSET Doorbells, DbellClear(v, bits)
       PROVE  TypeOK'
    <3>1. db[v] \ bits \in SUBSET Doorbells
      BY <2>22, ConstantsOK
    <3>2. op' \in [VM -> OpType]
      <4>1. GotoDbs(v, "clr_db", db[v] \ bits)
        BY <2>22 DEF DbellClear
      <4>2. "clr_db" \in Points
        BY DEF Points, Loaded
      <4> QED
        BY <3>1, <4>1, <4>2, GotoTyped
    <3> QED
      BY <2>22, <3>2, OpFields, PeerFacts DEF DbellClear
  <2>23. ASSUME NEW v \in VM, NEW mask \in StsMasks, SetMsgStsMask(v, mask)
       PROVE  TypeOK'
    BY <2>23, ConstantsOK DEF SetMsgStsMask
  <2>24. ASSUME NEW v \in VM, NEW mask \in IntMasks, SetIntMask(v, mask)
       PROVE  TypeOK'
    BY <2>24, ConstantsOK DEF SetIntMask
  <2>25. ASSUME NEW v \in VM, NEW part \in Parts, SetPart(v, part)
       PROVE  TypeOK'
    BY <2>25, ConstantsOK DEF SetPart
  <2>26. ASSUME NEW v \in VM, HostEvent(v)
       PROVE  TypeOK'
    BY <2>26, ConstantsOK DEF HostEvent
  <2>27. ASSUME NEW v \in VM, TakeInterrupt(v)
       PROVE  TypeOK'
    BY <2>27, ConstantsOK DEF TakeInterrupt
  <2>28. ASSUME NEW v \in VM, Crash(v)
       PROVE  TypeOK'
    <3>1. op' \in [VM -> OpType]
      BY <2>28, IdleTyped DEF Crash
    <3>2. crashes' \in 0..MaxCrash
      BY <2>28, ConstantsOK, SMT DEF Crash
    <3> QED
      BY <2>28, <3>1, <3>2 DEF Crash
  <2>29. ASSUME NEW v \in VM, Realize(v)
       PROVE  TypeOK'
    <3>1. op' \in [VM -> OpType]
      BY <2>29, ReturnTyped DEF Realize
    <3> QED
      BY <2>29, <3>1, OpFields, PeerFacts DEF Realize
  <2>30. CASE UNCHANGED vars
    BY <2>30 DEF vars
  <2> QED
    BY <2>1, <2>2, <2>3, <2>4, <2>5, <2>6, <2>7, <2>8, <2>9, <2>10,
       <2>11, <2>12, <2>13, <2>14, <2>15, <2>16, <2>17, <2>18, <2>19,
       <2>20, <2>21, <2>22, <2>23, <2>24, <2>25, <2>26, <2>27, <2>28,
       <2>29, <2>30
       DEF Next, GuestWrite, Continue
<1> QED
  BY <1>1, <1>2, PTL DEF Spec
-----------------------------------------------------------------------------
(***************************************************************************)
(* The message status words: StatusInv is inductive, and it gives          *)
(* NoUnreadOverwrite.                                                      *)
(***************************************************************************)
\* The points at which a handler relies on a status word.
MsgPoints == {"refuse_store", "clr_msgsts", "msg_store", "sts_load", "sts_store"}

\* What a handler's locals are after each way to move on; the other VM's
\* locals are as before.
LEMMA OpAfter ==
  ASSUME op \in [VM -> OpType], NEW v \in VM, NEW point, NEW new
  PROVE  /\ GotoSts(v, point, new) =>
              /\ op'[v].pc = point /\ op'[v].sts = new /\ op'[v].i = op[v].i
              /\ op'[Peer(v)] = op[Peer(v)]
         /\ GotoInts(v, point, new) =>
              op'[v].pc = point /\ op'[Peer(v)] = op[Peer(v)]
         /\ GotoDbs(v, point, new) =>
              op'[v].pc = point /\ op'[Peer(v)] = op[Peer(v)]
<1> DEFINE o == op[v]
<1>1. o \in OpType /\ Peer(v) \in VM /\ Peer(v) # v
  BY PeerFacts
<1>2. /\ [o EXCEPT !.pc = point, !.sts = new].pc = point
      /\ [o EXCEPT !.pc = point, !.sts = new].sts = new
      /\ [o EXCEPT !.pc = point, !.sts = new].i = o.i
      /\ [o EXCEPT !.pc = point, !.ints = new].pc = point
      /\ [o EXCEPT !.pc = point, !.dbs = new].pc = point
  <2> HIDE DEF o
  <2> QED
    BY <1>1 DEF OpType
<1> QED
  BY <1>1, <1>2 DEF GotoSts, GotoInts, GotoDbs

\* A handler that returns is idle.
LEMMA OpAfterReturn ==
  ASSUME op \in [VM -> OpType], NEW v \in VM, Return(v)
  PROVE  op'[v].pc = "idle" /\ op'[Peer(v)] = op[Peer(v)]
<1>1. IdleOp.pc = "idle"
  BY DEF IdleOp
<1> QED
  BY <1>1, PeerFacts DEF Return

\* A handler that is done with the status words goes on to interrupt the peer
\* or is idle.
LEMMA OpAfterRaise ==
  ASSUME op \in [VM -> OpType], NEW v \in VM, NEW c, NEW unmasked \in BOOLEAN,
         RaiseOrReturn(v, c, unmasked)
  PROVE  op'[v].pc \in {"raise_load", "idle"} /\ op'[Peer(v)] = op[Peer(v)]
<1>1. CASE unmasked
  <2> DEFINE o == op[v]
  <2>1. o \in OpType
    OBVIOUS
  <2>2. [o EXCEPT !.pc = "raise_load", !.cause = c].pc = "raise_load"
    <3> HIDE DEF o
    <3> QED
      BY <2>1 DEF OpType
  <2> QED
    BY <1>1, <2>2, PeerFacts DEF RaiseOrReturn
<1>2. CASE ~unmasked
  BY <1>2, OpAfterReturn DEF RaiseOrReturn
<1> QED
  BY <1>1, <1>2

\* A message write starts at a point at which its IN bit was found clear, or
\* at the refusal.
LEMMA OpAfterMsg ==
  ASSUME op \in [VM -> OpType], NEW v \in VM, NEW point, NEW i, NEW x
  PROVE  /\ op' = [op EXCEPT ![v] = [@ EXCEPT !.pc = point, !.i = i, !.val = x]] =>
              /\ op'[v].pc = point /\ op'[v].i = i
              /\ op'[Peer(v)] = op[Peer(v)]
         /\ op' = [op EXCEPT ![v] = [@ EXCEPT !.pc = point, !.val = x]] =>
              /\ op'[v].pc = point /\ op'[v].i = op[v].i
              /\ op'[Peer(v)] = op[Peer(v)]
<1> DEFINE o == op[v]
<1>1. o \in OpType /\ Peer(v) \in VM /\ Peer(v) # v
  BY PeerFacts
<1>2. /\ [o EXCEPT !.pc = point, !.i = i, !.val = x].pc = point
      /\ [o EXCEPT !.pc = point, !.i = i, !.val = x].i = i
      /\ [o EXCEPT !.pc = point, !.val = x].pc = point
      /\ [o EXCEPT !.pc = point, !.val = x].i = o.i
  <2> HIDE DEF o
  <2> QED
    BY <1>1 DEF OpType
<1> QED
  BY <1>1, <1>2

\* A step that touches no status word and leaves its handler at a point that
\* relies on none preserves StatusInv.
LEMMA QuietStep ==
  ASSUME StatusInv, msgsts' = msgsts, NEW v \in VM,
         op'[v].pc \notin MsgPoints, op'[Peer(v)] = op[Peer(v)]
  PROVE  StatusInv'
<1> SUFFICES ASSUME NEW u \in VM PROVE StatusOf(u)'
  BY DEF StatusInv
<1>1. CASE u = v
  BY <1>1 DEF MsgPoints, StatusOf
<1>2. CASE u = Peer(v)
  BY <1>2 DEF StatusInv, StatusOf
<1> QED
  BY <1>1, <1>2, BothVMs

\* A step that moves no handler and touches no status word preserves StatusInv.
LEMMA StillStep == StatusInv /\ UNCHANGED <<op, msgsts>> => StatusInv'
BY DEF StatusInv, StatusOf

\* StatusInv is preserved by every step, given the types.
LEMMA StatusStep == TypeOK /\ StatusInv /\ [Next]_vars => StatusInv'
<1> SUFFICES ASSUME TypeOK, StatusInv, [Next]_vars PROVE StatusInv'
  OBVIOUS
<1>0. op \in [VM -> OpType] /\ msgsts \in [VM -> SUBSET StsBits]
  BY DEF TypeOK
<1>1. ASSUME NEW v \in VM, NEW i \in MsgIdx, NEW x \in MsgVal, OutMsg(v, i, x)
     PROVE  StatusInv'
  <2>1. PICK point \in {"refuse_load", "msg_store"} :
          /\ point = "msg_store" => In(i) \notin msgsts[Peer(v)]
          /\ op' = [op EXCEPT ![v] = [@ EXCEPT !.pc = point, !.i = i, !.val = x]]
    BY <1>1 DEF OutMsg
  <2>2. /\ op'[v].pc = point /\ op'[v].i = i
        /\ op'[Peer(v)] = op[Peer(v)] /\ msgsts' = msgsts
    <3>1. msgsts' = msgsts
      BY <1>1 DEF OutMsg, regs
    <3>2. op' = [op EXCEPT ![v] = [@ EXCEPT !.pc = point, !.i = i, !.val = x]]
      BY <2>1
    <3>3. op'[v].pc = point /\ op'[v].i = i /\ op'[Peer(v)] = op[Peer(v)]
      BY <1>0, <3>2, OpAfterMsg
    <3> QED
      BY <3>1, <3>3
  <2>3. StatusOf(v)'
    BY <2>1, <2>2 DEF StatusOf
  <2>4. StatusOf(Peer(v))'
    BY <2>2, PeerFacts DEF StatusInv, StatusOf
  <2> QED
    BY <2>3, <2>4, BothVMs DEF StatusInv
<1>2. ASSUME NEW v \in VM, RefuseLoad(v)
     PROVE  StatusInv'
  <2>1. /\ op'[v].pc = "refuse_store"
        /\ op'[v].sts = msgsts[v] \cup {Out(op[v].i)}
        /\ op'[Peer(v)] = op[Peer(v)] /\ msgsts' = msgsts
    <3> DEFINE new == msgsts[v] \cup {Out(op[v].i)}
    <3>1. GotoSts(v, "refuse_store", new)
      BY <1>2 DEF RefuseLoad
    <3>2. msgsts' = msgsts
      BY <1>2 DEF RefuseLoad, regs
    <3>3. /\ op'[v].pc = "refuse_store" /\ op'[v].sts = new
          /\ op'[v].i = op[v].i /\ op'[Peer(v)] = op[Peer(v)]
      <4> HIDE DEF new
      <4> QED
        BY <1>0, <3>1, OpAfter
    <3> QED
      BY <3>2, <3>3
  <2>2. StatusOf(v)'
    BY <2>1 DEF In, Out, StatusOf
  <2>3. StatusOf(Peer(v))'
    BY <2>1, PeerFacts DEF StatusInv, StatusOf
  <2> QED
    BY <2>2, <2>3, BothVMs DEF StatusInv
<1>3. ASSUME NEW v \in VM, RefuseStore(v)
     PROVE  StatusInv'
  <2>1. /\ op[v].pc = "refuse_store" /\ op'[v].pc = "refuse_irq"
        /\ op'[Peer(v)] = op[Peer(v)]
        /\ msgsts'[v] = op[v].sts /\ msgsts'[Peer(v)] = msgsts[Peer(v)]
    <3>1. GotoSts(v, "refuse_irq", {})
      BY <1>3 DEF RefuseStore
    <3>2. op[v].pc = "refuse_store" /\ msgsts' = [msgsts EXCEPT ![v] = op[v].sts]
      BY <1>3 DEF RefuseStore, At
    <3>3. msgsts'[v] = op[v].sts /\ msgsts'[Peer(v)] = msgsts[Peer(v)]
      BY <1>0, <3>2, PeerFacts
    <3> QED
      BY <1>0, <3>1, <3>2, <3>3, OpAfter
  <2>2. StatusOf(v)'
    BY <2>1 DEF StatusOf
  <2>3. StatusOf(Peer(v))'
    <3>1. \A i \in MsgIdx : In(i) \in msgsts'[v] => In(i) \in msgsts[v]
      BY <2>1 DEF StatusInv, StatusOf
    <3>2. Peer(v) \in VM /\ Peer(Peer(v)) = v /\ op[Peer(v)].i \in MsgIdx
      BY <1>0, PeerFacts, OpFields
    <3>3. StatusOf(Peer(v))
      BY <3>2 DEF StatusInv
    <3> QED
      BY <2>1, <3>1, <3>2, <3>3 DEF StatusOf
  <2> QED
    BY <2>2, <2>3, BothVMs DEF StatusInv
<1>4. ASSUME NEW v \in VM, RefuseIrq(v)
     PROVE  StatusInv'
  <2>1. /\ op'[v].pc \in {"refuse_irq_store", "idle"}
        /\ op'[Peer(v)] = op[Peer(v)] /\ msgsts' = msgsts
    <3>1. CASE RefusalInterrupts(v)
      <4>1. GotoInts(v, "refuse_irq_store", intsts[v] \cup {"MSG"})
        BY <1>4, <3>1 DEF RefuseIrq
      <4>2. msgsts' = msgsts
        BY <1>4 DEF RefuseIrq, regs
      <4> QED
        BY <1>0, <4>1, <4>2, OpAfter
    <3>2. CASE ~RefusalInterrupts(v)
      BY <1>4, <1>0, <3>2, OpAfterReturn DEF RefuseIrq, regs
    <3> QED
      BY <3>1, <3>2
  <2> QED
    BY <2>1, QuietStep DEF MsgPoints
<1>5. ASSUME NEW v \in VM, RefuseIrqStore(v)
     PROVE  StatusInv'
  <2>1. /\ op'[v].pc = "idle"
        /\ op'[Peer(v)] = op[Peer(v)] /\ msgsts' = msgsts
    BY <1>5, <1>0, OpAfterReturn DEF RefuseIrqStore, regs
  <2> QED
    BY <2>1, QuietStep DEF MsgPoints
<1>6. ASSUME NEW v \in VM, MsgStore(v)
     PROVE  StatusInv'
  <2>1. /\ op[v].pc = "msg_store" /\ op'[v].pc = "sts_load"
        /\ op'[v].i = op[v].i
        /\ op'[Peer(v)] = op[Peer(v)] /\ msgsts' = msgsts
    BY <1>6, <1>0, OpAfterMsg DEF MsgStore, At
  <2>2. StatusOf(v)'
    BY <2>1 DEF StatusInv, StatusOf
  <2>3. StatusOf(Peer(v))'
    BY <2>1, PeerFacts DEF StatusInv, StatusOf
  <2> QED
    BY <2>2, <2>3, BothVMs DEF StatusInv
<1>7. ASSUME NEW v \in VM, StsLoad(v)
     PROVE  StatusInv'
  <2>1. /\ op[v].pc = "sts_load" /\ op'[v].pc = "sts_store"
        /\ op'[v].i = op[v].i
        /\ op'[v].sts = msgsts[Peer(v)] \cup {In(op[v].i)}
        /\ op'[Peer(v)] = op[Peer(v)] /\ msgsts' = msgsts
    <3> DEFINE new == msgsts[Peer(v)] \cup {In(op[v].i)}
    <3>1. GotoSts(v, "sts_store", new)
      BY <1>7 DEF StsLoad
    <3>2. msgsts' = msgsts /\ op[v].pc = "sts_load"
      BY <1>7 DEF StsLoad, At, regs
    <3>3. /\ op'[v].pc = "sts_store" /\ op'[v].sts = new
          /\ op'[v].i = op[v].i /\ op'[Peer(v)] = op[Peer(v)]
      <4> HIDE DEF new
      <4> QED
        BY <1>0, <3>1, OpAfter
    <3> QED
      BY <3>2, <3>3
  <2>2. StatusOf(v)'
    BY <2>1 DEF StatusInv, StatusOf
  <2>3. StatusOf(Peer(v))'
    BY <2>1, PeerFacts DEF StatusInv, StatusOf
  <2> QED
    BY <2>2, <2>3, BothVMs DEF StatusInv
<1>8. ASSUME NEW v \in VM, StsStore(v)
     PROVE  StatusInv'
  <2>1. /\ op[v].pc = "sts_store" /\ op'[v].pc = "src"
        /\ op'[Peer(v)] = op[Peer(v)]
        /\ msgsts'[Peer(v)] = op[v].sts /\ msgsts'[v] = msgsts[v]
    <3>1. GotoSts(v, "src", {})
      BY <1>8 DEF StsStore
    <3>2. op[v].pc = "sts_store" /\ msgsts' = [msgsts EXCEPT ![Peer(v)] = op[v].sts]
      BY <1>8 DEF StsStore, At
    <3>3. msgsts'[Peer(v)] = op[v].sts /\ msgsts'[v] = msgsts[v]
      BY <1>0, <3>2, PeerFacts
    <3> QED
      BY <1>0, <3>1, <3>2, <3>3, OpAfter
  <2>2. StatusOf(v)'
    BY <2>1 DEF StatusOf
  <2>3. StatusOf(Peer(v))'
    BY <2>1, PeerFacts DEF StatusInv, StatusOf
  <2> QED
    BY <2>2, <2>3, BothVMs DEF StatusInv
<1>9. ASSUME NEW v \in VM, Src(v)
     PROVE  StatusInv'
  <2>1. /\ op'[v].pc \in {"raise_load", "idle"}
        /\ op'[Peer(v)] = op[Peer(v)] /\ msgsts' = msgsts
    BY <1>9, <1>0, OpAfterRaise DEF Src
  <2> QED
    BY <2>1, QuietStep DEF MsgPoints
<1>10. ASSUME NEW v \in VM, RaiseLoad(v)
     PROVE  StatusInv'
  <2>1. /\ op'[v].pc = "raise_store"
        /\ op'[Peer(v)] = op[Peer(v)] /\ msgsts' = msgsts
    <3>1. GotoInts(v, "raise_store", intsts[Peer(v)] \cup {op[v].cause})
      BY <1>10 DEF RaiseLoad
    <3>2. msgsts' = msgsts
      BY <1>10 DEF RaiseLoad, regs
    <3> QED
      BY <1>0, <3>1, <3>2, OpAfter
  <2> QED
    BY <2>1, QuietStep DEF MsgPoints
<1>11. ASSUME NEW v \in VM, RaiseStore(v)
     PROVE  StatusInv'
  <2>1. /\ op'[v].pc = "kick"
        /\ op'[Peer(v)] = op[Peer(v)] /\ msgsts' = msgsts
    <3>1. GotoInts(v, "kick", {})
      BY <1>11 DEF RaiseStore
    <3>2. msgsts' = msgsts
      BY <1>11 DEF RaiseStore, regs
    <3> QED
      BY <1>0, <3>1, <3>2, OpAfter
  <2> QED
    BY <2>1, QuietStep DEF MsgPoints
<1>12. ASSUME NEW v \in VM, Kick(v)
     PROVE  StatusInv'
  <2>1. /\ op'[v].pc = "idle"
        /\ op'[Peer(v)] = op[Peer(v)] /\ msgsts' = msgsts
    BY <1>12, <1>0, OpAfterReturn DEF Kick, regs
  <2> QED
    BY <2>1, QuietStep DEF MsgPoints
<1>13. ASSUME NEW v \in VM, MsgStsClearStore(v)
     PROVE  StatusInv'
  <2>1. /\ op[v].pc = "clr_msgsts" /\ op'[v].pc = "idle"
        /\ op'[Peer(v)] = op[Peer(v)]
        /\ msgsts'[v] = op[v].sts /\ msgsts'[Peer(v)] = msgsts[Peer(v)]
    <3>1. Return(v)
      BY <1>13 DEF MsgStsClearStore
    <3>2. op[v].pc = "clr_msgsts" /\ msgsts' = [msgsts EXCEPT ![v] = op[v].sts]
      BY <1>13 DEF MsgStsClearStore, At
    <3>3. msgsts'[v] = op[v].sts /\ msgsts'[Peer(v)] = msgsts[Peer(v)]
      BY <1>0, <3>2, PeerFacts
    <3> QED
      BY <1>0, <3>1, <3>2, <3>3, OpAfterReturn
  <2>2. StatusOf(v)'
    BY <2>1 DEF StatusOf
  <2>3. StatusOf(Peer(v))'
    <3>1. \A i \in MsgIdx : In(i) \in msgsts'[v] => In(i) \in msgsts[v]
      BY <2>1 DEF StatusInv, StatusOf
    <3>2. Peer(v) \in VM /\ Peer(Peer(v)) = v /\ op[Peer(v)].i \in MsgIdx
      BY <1>0, PeerFacts, OpFields
    <3>3. StatusOf(Peer(v))
      BY <3>2 DEF StatusInv
    <3> QED
      BY <2>1, <3>1, <3>2, <3>3 DEF StatusOf
  <2> QED
    BY <2>2, <2>3, BothVMs DEF StatusInv
<1>14. ASSUME NEW v \in VM, IntStsClearStore(v)
     PROVE  StatusInv'
  <2>1. /\ op'[v].pc = "idle"
        /\ op'[Peer(v)] = op[Peer(v)] /\ msgsts' = msgsts
    BY <1>14, <1>0, OpAfterReturn DEF IntStsClearStore, regs
  <2> QED
    BY <2>1, QuietStep DEF MsgPoints
<1>15. ASSUME NEW v \in VM, DbellClearStore(v)
     PROVE  StatusInv'
  <2>1. /\ op'[v].pc = "idle"
        /\ op'[Peer(v)] = op[Peer(v)] /\ msgsts' = msgsts
    BY <1>15, <1>0, OpAfterReturn DEF DbellClearStore, regs
  <2> QED
    BY <2>1, QuietStep DEF MsgPoints
<1>16. ASSUME NEW v \in VM, NEW bits \in SUBSET Doorbells, OutDbellSet(v, bits)
     PROVE  StatusInv'
  <2>1. /\ op'[v].pc \in {"raise_load", "idle"}
        /\ op'[Peer(v)] = op[Peer(v)] /\ msgsts' = msgsts
    BY <1>16, <1>0, OpAfterRaise DEF OutDbellSet
  <2> QED
    BY <2>1, QuietStep DEF MsgPoints
<1>17. ASSUME NEW v \in VM, NtgSignal(v)
     PROVE  StatusInv'
  <2>1. /\ op'[v].pc \in {"raise_load", "idle"}
        /\ op'[Peer(v)] = op[Peer(v)] /\ msgsts' = msgsts
    BY <1>17, <1>0, OpAfterRaise DEF NtgSignal
  <2> QED
    BY <2>1, QuietStep DEF MsgPoints
<1>18. ASSUME NEW v \in VM, NEW segsig \in BOOLEAN, GasaAddr(v, segsig)
     PROVE  StatusInv'
  BY <1>18, StillStep DEF GasaAddr, regs
<1>19. ASSUME NEW v \in VM, GasaData(v)
     PROVE  StatusInv'
  BY <1>19, StillStep DEF GasaData, regs
<1>20. ASSUME NEW v \in VM, NEW bits \in StsClears, MsgStsClear(v, bits)
     PROVE  StatusInv'
  <2>1. /\ op'[v].pc = "clr_msgsts" /\ op'[v].sts = msgsts[v] \ bits
        /\ op'[Peer(v)] = op[Peer(v)] /\ msgsts' = msgsts
    <3> DEFINE new == msgsts[v] \ bits
    <3>1. GotoSts(v, "clr_msgsts", new)
      BY <1>20 DEF MsgStsClear
    <3>2. msgsts' = msgsts
      BY <1>20 DEF MsgStsClear, regs
    <3>3. /\ op'[v].pc = "clr_msgsts" /\ op'[v].sts = new
          /\ op'[v].i = op[v].i /\ op'[Peer(v)] = op[Peer(v)]
      <4> HIDE DEF new
      <4> QED
        BY <1>0, <3>1, OpAfter
    <3> QED
      BY <3>2, <3>3
  <2>2. StatusOf(v)'
    BY <2>1 DEF StatusOf
  <2>3. StatusOf(Peer(v))'
    BY <2>1, PeerFacts DEF StatusInv, StatusOf
  <2> QED
    BY <2>2, <2>3, BothVMs DEF StatusInv
<1>21. ASSUME NEW v \in VM, NEW bits \in IntClears, IntStsClear(v, bits)
     PROVE  StatusInv'
  <2>1. /\ op'[v].pc = "clr_intsts"
        /\ op'[Peer(v)] = op[Peer(v)] /\ msgsts' = msgsts
    <3>1. GotoInts(v, "clr_intsts", intsts[v] \ bits)
      BY <1>21 DEF IntStsClear
    <3>2. msgsts' = msgsts
      BY <1>21 DEF IntStsClear, regs
    <3> QED
      BY <1>0, <3>1, <3>2, OpAfter
  <2> QED
    BY <2>1, QuietStep DEF MsgPoints
<1>22. ASSUME NEW v \in VM, NEW bits \in SUBSET Doorbells, DbellClear(v, bits)
     PROVE  StatusInv'
  <2>1. /\ op'[v].pc = "clr_db"
        /\ op'[Peer(v)] = op[Peer(v)] /\ msgsts' = msgsts
    <3>1. GotoDbs(v, "clr_db", db[v] \ bits)
      BY <1>22 DEF DbellClear
    <3>2. msgsts' = msgsts
      BY <1>22 DEF DbellClear, regs
    <3> QED
      BY <1>0, <3>1, <3>2, OpAfter
  <2> QED
    BY <2>1, QuietStep DEF MsgPoints
<1>23. ASSUME NEW v \in VM, NEW mask \in StsMasks, SetMsgStsMask(v, mask)
     PROVE  StatusInv'
  BY <1>23, StillStep DEF SetMsgStsMask, regs
<1>24. ASSUME NEW v \in VM, NEW mask \in IntMasks, SetIntMask(v, mask)
     PROVE  StatusInv'
  BY <1>24, StillStep DEF SetIntMask, regs
<1>25. ASSUME NEW v \in VM, NEW part \in Parts, SetPart(v, part)
     PROVE  StatusInv'
  BY <1>25, StillStep DEF SetPart, regs
<1>26. ASSUME NEW v \in VM, HostEvent(v)
     PROVE  StatusInv'
  BY <1>26, StillStep DEF HostEvent, regs
<1>27. ASSUME NEW v \in VM, TakeInterrupt(v)
     PROVE  StatusInv'
  BY <1>27, StillStep DEF TakeInterrupt, regs
<1>28. ASSUME NEW v \in VM, Crash(v)
     PROVE  StatusInv'
  <2>1. [IdleOp EXCEPT !.pc = "off"].pc = "off"
    BY DEF IdleOp
  <2>2. op'[v].pc = "off" /\ op'[Peer(v)] = op[Peer(v)] /\ msgsts' = msgsts
    BY <1>28, <1>0, <2>1, PeerFacts DEF Crash
  <2> QED
    BY <2>2, QuietStep DEF MsgPoints
<1>29. ASSUME NEW v \in VM, Realize(v)
     PROVE  StatusInv'
  <2>1. /\ op'[v].pc = "idle"
        /\ op'[Peer(v)] = op[Peer(v)] /\ msgsts' = msgsts
    BY <1>29, <1>0, OpAfterReturn DEF Realize, regs
  <2> QED
    BY <2>1, QuietStep DEF MsgPoints
<1>30. CASE UNCHANGED vars
  BY <1>30, StillStep DEF vars, regs
<1> QED
  BY <1>1, <1>2, <1>3, <1>4, <1>5, <1>6, <1>7, <1>8, <1>9, <1>10,
     <1>11, <1>12, <1>13, <1>14, <1>15, <1>16, <1>17, <1>18, <1>19,
     <1>20, <1>21, <1>22, <1>23, <1>24, <1>25, <1>26, <1>27, <1>28,
     <1>29, <1>30
     DEF Next, GuestWrite, Continue

\* The status words that the handlers hold in their locals agree with memory as
\* StatusInv says, in every reachable state.
THEOREM StatusCorrect == Spec => []StatusInv
<1>1. Init => StatusInv
  <2>1. IdleOp.pc = "idle"
    BY DEF IdleOp
  <2> QED
    BY <2>1 DEF Init, StatusInv, StatusOf
<1> QED
  BY <1>1, StatusStep, TypeCorrect, PTL DEF Spec

\* No message register is written while its IN bit is set: of all the actions
\* only MsgStore changes msg, and StatusInv has the bit clear there.
THEOREM NoOverwrite == Spec => NoUnreadOverwrite
<1> DEFINE Kept == \A v \in VM, i \in MsgIdx :
                     msg'[v][i] # msg[v][i] => In(i) \notin msgsts[v]
<1>1. TypeOK /\ StatusInv /\ [Next]_vars => [Kept]_vars
  <2> SUFFICES ASSUME TypeOK, StatusInv, Next PROVE Kept
    BY DEF vars
  <2>1. CASE msg' = msg
    BY <2>1
  <2>2. ASSUME NEW v \in VM, MsgStore(v) PROVE Kept
    <3>1. /\ op[v].pc = "msg_store" /\ op[v].i \in MsgIdx
          /\ msg' = [msg EXCEPT ![Peer(v)][op[v].i] = op[v].val]
      BY <2>2, OpFields DEF MsgStore, At, TypeOK
    <3>2. In(op[v].i) \notin msgsts[Peer(v)]
      BY <3>1 DEF StatusInv, StatusOf
    <3>3. \A u \in VM, i \in MsgIdx :
            msg'[u][i] # msg[u][i] => u = Peer(v) /\ i = op[v].i
      BY <3>1, PeerFacts DEF TypeOK
    <3> QED
      BY <3>2, <3>3
  <2>3. PICK v \in VM : \/ GuestWrite(v) \/ Continue(v) \/ HostEvent(v)
                       \/ TakeInterrupt(v) \/ Crash(v) \/ Realize(v)
    BY DEF Next
  <2>4. GuestWrite(v) => msg' = msg
    BY DEF GuestWrite, regs, OutMsg, OutDbellSet, NtgSignal, GasaAddr, GasaData,
       MsgStsClear, IntStsClear, DbellClear, SetMsgStsMask, SetIntMask, SetPart
  <2>5. Continue(v) => msg' = msg \/ MsgStore(v)
    BY DEF Continue, regs, RefuseLoad, RefuseStore, RefuseIrq, RefuseIrqStore,
       StsLoad, StsStore, Src, RaiseLoad, RaiseStore, Kick, MsgStsClearStore,
       IntStsClearStore, DbellClearStore
  <2>6. HostEvent(v) \/ TakeInterrupt(v) \/ Crash(v) \/ Realize(v) => msg' = msg
    BY DEF regs, HostEvent, TakeInterrupt, Crash, Realize
  <2> QED
    BY <2>1, <2>2, <2>3, <2>4, <2>5, <2>6
<1>2. [][Kept]_vars => NoUnreadOverwrite
  BY PTL DEF NoUnreadOverwrite
<1> QED
  BY <1>1, <1>2, TypeCorrect, StatusCorrect, PTL DEF Spec
-----------------------------------------------------------------------------
(***************************************************************************)
(* On one host CPU.  A step of v leaves the messages and the status words  *)
(* alone, or it is one of write_outbound_msg or of a MSGSTS write.         *)
(***************************************************************************)
Locals == {"refuse_load", "refuse_store", "sts_store", "clr_msgsts"}
Moves(v, point) == CanRun(v) /\ op'[v].pc = point /\ op'[Peer(v)] = op[Peer(v)]
Quiet(v) ==
  /\ UNCHANGED <<msgsts, msg, unread>>
  /\ CanRun(v) /\ op'[v].pc \notin Locals /\ op'[Peer(v)] = op[Peer(v)]

\* The writes to other registers, and events.
LEMMA QuietWrites ==
  ASSUME TypeOK, NEW v \in VM,
         \/ \E bits \in SUBSET Doorbells : OutDbellSet(v, bits)
         \/ NtgSignal(v)
         \/ \E segsig \in BOOLEAN : GasaAddr(v, segsig)
         \/ GasaData(v)
         \/ \E bits \in IntClears : IntStsClear(v, bits)
         \/ \E bits \in SUBSET Doorbells : DbellClear(v, bits)
         \/ \E mask \in StsMasks : SetMsgStsMask(v, mask)
         \/ \E mask \in IntMasks : SetIntMask(v, mask)
         \/ \E part \in Parts : SetPart(v, part)
         \/ HostEvent(v) \/ Realize(v)
  PROVE  Quiet(v)
<1>0. op \in [VM -> OpType]
  BY DEF TypeOK
<1>1. ASSUME NEW bits, OutDbellSet(v, bits) PROVE Quiet(v)
  BY <1>0, <1>1, OpAfterRaise DEF OutDbellSet, Starts, Idle, Quiet, Locals
<1>2. CASE NtgSignal(v)
  BY <1>0, <1>2, OpAfterRaise DEF NtgSignal, Starts, Idle, Quiet, Locals
<1>3. ASSUME NEW bits, IntStsClear(v, bits) PROVE Quiet(v)
  <2>1. GotoInts(v, "clr_intsts", intsts[v] \ bits)
    BY <1>3 DEF IntStsClear
  <2>2. op'[v].pc = "clr_intsts" /\ op'[Peer(v)] = op[Peer(v)]
    BY <1>0, <2>1, OpAfter
  <2> QED
    BY <1>3, <2>2 DEF IntStsClear, Starts, Idle, Quiet, Locals, regs
<1>4. ASSUME NEW bits, DbellClear(v, bits) PROVE Quiet(v)
  <2>1. GotoDbs(v, "clr_db", db[v] \ bits)
    BY <1>4 DEF DbellClear
  <2>2. op'[v].pc = "clr_db" /\ op'[Peer(v)] = op[Peer(v)]
    BY <1>0, <2>1, OpAfter
  <2> QED
    BY <1>4, <2>2 DEF DbellClear, Starts, Idle, Quiet, Locals, regs
<1>5. CASE Realize(v)
  BY <1>0, <1>5, OpAfterReturn DEF Realize, Quiet, Locals
<1>6. ASSUME UNCHANGED <<msgsts, msg, unread, op>>, At(v, "idle"), CanRun(v) PROVE Quiet(v)
  BY <1>6 DEF Quiet, Locals, At
<1>7. CASE HostEvent(v) \/ GasaData(v)
  BY <1>6, <1>7 DEF HostEvent, GasaData, Starts, Idle, regs
<1>8. ASSUME NEW x, \/ GasaAddr(v, x) \/ SetMsgStsMask(v, x) \/ SetIntMask(v, x)
                    \/ SetPart(v, x)
      PROVE  Quiet(v)
  BY <1>6, <1>8 DEF GasaAddr, SetMsgStsMask, SetIntMask, SetPart, Starts, Idle
<1> QED
  BY <1>1, <1>2, <1>3, <1>4, <1>5, <1>7, <1>8

\* The rest of a handler that is past the status words.
LEMMA QuietContinues ==
  ASSUME TypeOK, NEW v \in VM,
         \/ RefuseIrq(v) \/ RefuseIrqStore(v) \/ Src(v) \/ RaiseLoad(v)
         \/ RaiseStore(v) \/ Kick(v) \/ IntStsClearStore(v) \/ DbellClearStore(v)
         \/ Crash(v)
  PROVE  Quiet(v)
<1>0. op \in [VM -> OpType]
  BY DEF TypeOK
<1>1. CASE RefuseIrq(v)
  <2>1. op'[v].pc \in {"refuse_irq_store", "idle"} /\ op'[Peer(v)] = op[Peer(v)]
    BY <1>0, <1>1, OpAfter, OpAfterReturn, SMT DEF RefuseIrq
  <2> QED
    BY <1>1, <2>1 DEF RefuseIrq, Quiet, Locals, regs
<1>2. CASE RefuseIrqStore(v)
  BY <1>0, <1>2, OpAfterReturn DEF RefuseIrqStore, Quiet, Locals
<1>3. CASE Src(v)
  BY <1>0, <1>3, OpAfterRaise DEF Src, Quiet, Locals
<1>4. CASE RaiseLoad(v)
  <2>1. GotoInts(v, "raise_store", intsts[Peer(v)] \cup {op[v].cause})
    BY <1>4 DEF RaiseLoad
  <2>2. op'[v].pc = "raise_store" /\ op'[Peer(v)] = op[Peer(v)]
    BY <1>0, <2>1, OpAfter
  <2> QED
    BY <1>4, <2>2 DEF RaiseLoad, Quiet, Locals, regs
<1>5. CASE RaiseStore(v)
  <2>1. GotoInts(v, "kick", {})
    BY <1>5 DEF RaiseStore
  <2>2. op'[v].pc = "kick" /\ op'[Peer(v)] = op[Peer(v)]
    BY <1>0, <2>1, OpAfter
  <2> QED
    BY <1>5, <2>2 DEF RaiseStore, Quiet, Locals
<1>6. CASE Kick(v)
  BY <1>0, <1>6, OpAfterReturn DEF Kick, Quiet, Locals, regs
<1>7. CASE IntStsClearStore(v) \/ DbellClearStore(v)
  BY <1>0, <1>7, OpAfterReturn DEF IntStsClearStore, DbellClearStore, Quiet, Locals
<1>8. CASE Crash(v)
  <2>1. [IdleOp EXCEPT !.pc = "off"].pc = "off"
    BY DEF IdleOp
  <2> QED
    BY <1>0, <1>8, <2>1, PeerFacts DEF Crash, Quiet, Locals
<1> QED
  BY <1>1, <1>2, <1>3, <1>4, <1>5, <1>6, <1>7, <1>8

\* What the steps of write_outbound_msg and of a MSGSTS write do.
Refuses(v) ==
  /\ UNCHANGED <<msgsts, msg, unread>> /\ Moves(v, "refuse_load")
  /\ op'[v].i \in MsgIdx /\ In(op'[v].i) \in msgsts[Peer(v)]
LoadsRefusal(v) ==
  /\ UNCHANGED <<msgsts, msg, unread>> /\ Moves(v, "refuse_store")
  /\ At(v, "refuse_load") /\ op'[v].i = op[v].i
  /\ op'[v].sts = msgsts[v] \cup {Out(op[v].i)}
StoresRefusal(v) ==
  /\ UNCHANGED <<msg, unread>> /\ Moves(v, "refuse_irq")
  /\ At(v, "refuse_store") /\ msgsts' = [msgsts EXCEPT ![v] = op[v].sts]
StoresMsg(v) ==
  /\ UNCHANGED <<msgsts, unread>> /\ Moves(v, "sts_load")
  /\ At(v, "msg_store") /\ msg' = [msg EXCEPT ![Peer(v)][op[v].i] = op[v].val]
LoadsSts(v) ==
  /\ UNCHANGED <<msgsts, msg, unread>> /\ Moves(v, "sts_store")
  /\ At(v, "sts_load") /\ op'[v].i = op[v].i
  /\ op'[v].sts = msgsts[Peer(v)] \cup {In(op[v].i)}
StoresSts(v) ==
  /\ UNCHANGED msg /\ Moves(v, "src")
  /\ At(v, "sts_store") /\ msgsts' = [msgsts EXCEPT ![Peer(v)] = op[v].sts]
  /\ unread' = [unread EXCEPT ![Peer(v)] = @ \cup {op[v].i}]
LoadsClear(v) ==
  /\ UNCHANGED <<msgsts, msg>> /\ Moves(v, "clr_msgsts")
  /\ \E bits : /\ op'[v].sts = msgsts[v] \ bits
               /\ unread' = [unread EXCEPT ![v] = {i \in @ : In(i) \notin bits}]
StoresClear(v) ==
  /\ UNCHANGED <<msg, unread>> /\ Moves(v, "idle")
  /\ At(v, "clr_msgsts") /\ msgsts' = [msgsts EXCEPT ![v] = op[v].sts]
Stays == UNCHANGED <<op, msgsts, msg, unread>>

Shape(v) ==
  \/ Quiet(v) \/ Stays \/ Refuses(v) \/ LoadsRefusal(v) \/ StoresRefusal(v)
  \/ StoresMsg(v) \/ LoadsSts(v) \/ StoresSts(v) \/ LoadsClear(v) \/ StoresClear(v)

\* Every step of either process is one of them.
LEMMA Shapes ==
  ASSUME TypeOK, [Next]_vars
  PROVE  \E v \in VM : Shape(v)
<1>0. op \in [VM -> OpType]
  BY DEF TypeOK
<1>1. CASE UNCHANGED vars
  <2>1. 1 \in VM /\ Stays
    BY <1>1 DEF VM, Stays, vars, regs
  <2> QED
    BY <2>1 DEF Shape
<1>2. CASE Next
  <2>1. PICK v \in VM : \/ GuestWrite(v) \/ Continue(v) \/ HostEvent(v)
                        \/ TakeInterrupt(v) \/ Crash(v) \/ Realize(v)
    BY <1>2 DEF Next
  <2>2. ASSUME NEW i \in MsgIdx, NEW x \in MsgVal, OutMsg(v, i, x) PROVE Shape(v)
    <3>1. PICK point : /\ point = IF In(i) \in msgsts[Peer(v)] THEN "refuse_load"
                                                               ELSE "msg_store"
                       /\ op' = [op EXCEPT ![v] =
                                   [@ EXCEPT !.pc = point, !.i = i, !.val = x]]
      BY <2>2 DEF OutMsg
    <3>2. op'[v].pc = point /\ op'[v].i = i /\ op'[Peer(v)] = op[Peer(v)]
      <4>1. op' = [op EXCEPT ![v] = [@ EXCEPT !.pc = point, !.i = i, !.val = x]]
        BY <3>1
      <4> QED
        BY <1>0, <4>1, OpAfterMsg
    <3>3. CanRun(v) /\ UNCHANGED <<msgsts, msg, unread>>
      BY <2>2 DEF OutMsg, Idle, regs
    <3>4. CASE In(i) \in msgsts[Peer(v)]
      BY <3>1, <3>2, <3>3, <3>4 DEF Shape, Refuses, Moves
    <3>5. CASE In(i) \notin msgsts[Peer(v)]
      BY <3>1, <3>2, <3>3, <3>5, SMT DEF Shape, Quiet, Locals
    <3> QED
      BY <3>4, <3>5
  <2>3. CASE RefuseLoad(v)
    <3>1. PICK new : new = msgsts[v] \cup {Out(op[v].i)} /\ GotoSts(v, "refuse_store", new)
      BY <2>3 DEF RefuseLoad
    <3>2. GotoSts(v, "refuse_store", new)
      BY <3>1
    <3>3. /\ op'[v].pc = "refuse_store" /\ op'[v].sts = new /\ op'[v].i = op[v].i
          /\ op'[Peer(v)] = op[Peer(v)]
      BY <1>0, <3>2, OpAfter
    <3> QED
      BY <2>3, <3>1, <3>3 DEF RefuseLoad, Shape, LoadsRefusal, Moves, regs
  <2>4. CASE RefuseStore(v)
    <3>1. GotoSts(v, "refuse_irq", {})
      BY <2>4 DEF RefuseStore
    <3>2. /\ op'[v].pc = "refuse_irq"
          /\ op'[Peer(v)] = op[Peer(v)]
      BY <1>0, <3>1, OpAfter
    <3> QED
      BY <2>4, <3>2 DEF RefuseStore, Shape, StoresRefusal, Moves
  <2>5. CASE MsgStore(v)
    <3>1. op'[v].pc = "sts_load" /\ op'[Peer(v)] = op[Peer(v)]
      BY <1>0, <2>5, OpAfterMsg DEF MsgStore
    <3> QED
      BY <2>5, <3>1 DEF MsgStore, Shape, StoresMsg, Moves
  <2>6. CASE StsLoad(v)
    <3>1. PICK new : new = msgsts[Peer(v)] \cup {In(op[v].i)} /\ GotoSts(v, "sts_store", new)
      BY <2>6 DEF StsLoad
    <3>2. GotoSts(v, "sts_store", new)
      BY <3>1
    <3>3. /\ op'[v].pc = "sts_store" /\ op'[v].sts = new /\ op'[v].i = op[v].i
          /\ op'[Peer(v)] = op[Peer(v)]
      BY <1>0, <3>2, OpAfter
    <3> QED
      BY <2>6, <3>1, <3>3 DEF StsLoad, Shape, LoadsSts, Moves, regs
  <2>7. CASE StsStore(v)
    <3>1. GotoSts(v, "src", {})
      BY <2>7 DEF StsStore
    <3>2. /\ op'[v].pc = "src"
          /\ op'[Peer(v)] = op[Peer(v)]
      BY <1>0, <3>1, OpAfter
    <3> QED
      BY <2>7, <3>2 DEF StsStore, Shape, StoresSts, Moves
  <2>8. ASSUME NEW bits, MsgStsClear(v, bits) PROVE Shape(v)
    <3>1. GotoSts(v, "clr_msgsts", msgsts[v] \ bits)
      BY <2>8 DEF MsgStsClear
    <3>2. /\ op'[v].pc = "clr_msgsts" /\ op'[v].sts = msgsts[v] \ bits
          /\ op'[Peer(v)] = op[Peer(v)]
      BY <1>0, <3>1, OpAfter
    <3>3. /\ CanRun(v) /\ UNCHANGED <<msgsts, msg>>
          /\ unread' = [unread EXCEPT ![v] = {i \in @ : In(i) \notin bits}]
      BY <2>8 DEF MsgStsClear, Starts, Idle, regs
    <3>4. LoadsClear(v)
      BY <3>2, <3>3 DEF LoadsClear, Moves
    <3> QED
      BY <3>4 DEF Shape
  <2>9. CASE MsgStsClearStore(v)
    BY <1>0, <2>9, OpAfterReturn DEF MsgStsClearStore, Shape, StoresClear, Moves
  <2>10. CASE TakeInterrupt(v)
    BY <2>10 DEF TakeInterrupt, Shape, Stays, regs
  <2>11. Quiet(v) => Shape(v)
    BY DEF Shape
  <2>12. CASE GuestWrite(v)
    BY <2>2, <2>8, <2>11, <2>12, QuietWrites DEF GuestWrite
  <2>13. CASE Continue(v)
    BY <2>3, <2>4, <2>5, <2>6, <2>7, <2>9, <2>11, <2>13, QuietContinues
    DEF Continue
  <2>14. CASE HostEvent(v) \/ Realize(v)
    BY <2>11, <2>14, QuietWrites
  <2>15. CASE Crash(v)
    BY <2>11, <2>15, QuietContinues
  <2> QED
    BY <2>1, <2>10, <2>12, <2>13, <2>14, <2>15
<1> QED
  BY <1>1, <1>2

\* IN and OUT bits of different registers differ.
LEMMA BitFacts ==
  \A i, j : /\ In(i) = In(j) => i = j
            /\ Out(i) = Out(j) => i = j
            /\ In(i) # Out(j)
BY DEF In, Out

(***************************************************************************)
(* What a handler has loaded is what memory still holds, and an unread     *)
(* message has its IN bit in memory and in what a MSGSTS write is about to *)
(* store.                                                                  *)
(***************************************************************************)
FreshOf(v) ==
  /\ At(v, "refuse_store") => op[v].sts = msgsts[v] \cup {Out(op[v].i)}
  /\ At(v, "sts_store") => op[v].sts = msgsts[Peer(v)] \cup {In(op[v].i)}
  /\ At(v, "clr_msgsts") => /\ op[v].sts \subseteq msgsts[v]
                            /\ \A i \in unread[v] : In(i) \in op[v].sts
KeptOf(v) == \A i \in unread[v] : In(i) \in msgsts[v]
FreshInv == \A v \in VM : FreshOf(v) /\ KeptOf(v)

\* On one CPU the peer is at no point between a load and its store when v runs.
LEMMA FreshStep ==
  ASSUME SingleCpu, TypeOK, FreshInv, NEW v \in VM, Shape(v)
  PROVE  FreshInv'
<1> DEFINE w == Peer(v)
<1>0. /\ w \in VM /\ w # v /\ Peer(w) = v
      /\ FreshOf(v) /\ KeptOf(v) /\ FreshOf(w) /\ KeptOf(w)
  BY PeerFacts DEF FreshInv
<1>1. /\ msgsts \in [VM -> SUBSET StsBits] /\ unread \in [VM -> SUBSET MsgIdx]
  BY DEF TypeOK
<1>2. SUFFICES FreshOf(v)' /\ KeptOf(v)' /\ FreshOf(w)' /\ KeptOf(w)'
  BY BothVMs DEF FreshInv
<1>3. CASE Stays
  BY <1>0, <1>3 DEF Stays, FreshOf, KeptOf, At
<1>4. ASSUME CanRun(v), op'[w] = op[w] PROVE FreshOf(w)'
  <2>1. op'[w].pc \notin Loaded
    BY <1>4 DEF CanRun
  <2> QED
    BY <2>1 DEF FreshOf, At, Loaded
<1>5. ASSUME op'[v].pc \notin {"refuse_store", "sts_store", "clr_msgsts"}
      PROVE  FreshOf(v)'
  BY <1>5 DEF FreshOf, At
<1>6. ASSUME UNCHANGED <<msgsts, unread>> PROVE KeptOf(v)' /\ KeptOf(w)'
  BY <1>0, <1>6 DEF KeptOf
<1> HIDE DEF w
<1>7. CASE Quiet(v) \/ Refuses(v) \/ StoresMsg(v)
  <2>1. /\ CanRun(v) /\ op'[w] = op[w] /\ UNCHANGED <<msgsts, unread>>
        /\ op'[v].pc \notin {"refuse_store", "sts_store", "clr_msgsts"}
    BY <1>7 DEF Quiet, Refuses, StoresMsg, Moves, Locals, w
  <2> QED
    BY <1>4, <1>5, <1>6, <2>1
<1>8. CASE LoadsRefusal(v) \/ LoadsSts(v)
  <2>1. CanRun(v) /\ op'[w] = op[w] /\ UNCHANGED <<msgsts, unread>>
    BY <1>8 DEF LoadsRefusal, LoadsSts, Moves, w
  <2>2. FreshOf(v)'
    BY <1>8 DEF LoadsRefusal, LoadsSts, Moves, FreshOf, At
  <2> QED
    BY <1>4, <1>6, <2>1, <2>2
<1>9. CASE StoresRefusal(v)
  <2>1. /\ CanRun(v) /\ op'[w] = op[w] /\ unread' = unread
        /\ op'[v].pc = "refuse_irq" /\ op[v].pc = "refuse_store"
        /\ msgsts' = [msgsts EXCEPT ![v] = op[v].sts]
    BY <1>9 DEF StoresRefusal, Moves, At, w
  <2>2. msgsts'[v] = msgsts[v] \cup {Out(op[v].i)} /\ msgsts'[w] = msgsts[w]
    BY <1>0, <1>1, <2>1 DEF FreshOf, At
  <2>3. KeptOf(v)' /\ KeptOf(w)'
    BY <1>0, <2>1, <2>2 DEF KeptOf
  <2> QED
    BY <1>4, <1>5, <2>1, <2>3
<1>10. CASE StoresSts(v)
  <2>1. /\ CanRun(v) /\ op'[w] = op[w]
        /\ op'[v].pc = "src" /\ op[v].pc = "sts_store"
        /\ msgsts' = [msgsts EXCEPT ![w] = op[v].sts]
        /\ unread' = [unread EXCEPT ![w] = @ \cup {op[v].i}]
    BY <1>10 DEF StoresSts, Moves, At, w
  <2>2. msgsts'[w] = msgsts[w] \cup {In(op[v].i)} /\ msgsts'[v] = msgsts[v]
    BY <1>0, <1>1, <2>1 DEF FreshOf, At, w
  <2>3. unread'[w] = unread[w] \cup {op[v].i} /\ unread'[v] = unread[v]
    BY <1>0, <1>1, <2>1
  <2>4. KeptOf(v)' /\ KeptOf(w)'
    BY <1>0, <2>2, <2>3 DEF KeptOf
  <2> QED
    BY <1>4, <1>5, <2>1, <2>4
<1>11. CASE LoadsClear(v)
  <2>1. /\ CanRun(v) /\ op'[w] = op[w]
        /\ op'[v].pc = "clr_msgsts" /\ msgsts' = msgsts
    BY <1>11 DEF LoadsClear, Moves, w
  <2>2. PICK bits : /\ op'[v].sts = msgsts[v] \ bits
                    /\ unread' = [unread EXCEPT ![v] = {i \in @ : In(i) \notin bits}]
    BY <1>11 DEF LoadsClear
  <2>3. /\ unread'[v] = {i \in unread[v] : In(i) \notin bits}
        /\ unread'[w] = unread[w]
    BY <1>0, <1>1, <2>2
  <2>4. KeptOf(v)' /\ KeptOf(w)'
    BY <1>0, <2>1, <2>3 DEF KeptOf
  <2>5. FreshOf(v)'
    BY <1>0, <2>1, <2>2, <2>3 DEF FreshOf, KeptOf, At
  <2> QED
    BY <1>4, <2>1, <2>4, <2>5
<1>12. CASE StoresClear(v)
  <2>1. /\ CanRun(v) /\ op'[w] = op[w] /\ unread' = unread
        /\ op'[v].pc = "idle" /\ op[v].pc = "clr_msgsts"
        /\ msgsts' = [msgsts EXCEPT ![v] = op[v].sts]
    BY <1>12 DEF StoresClear, Moves, At, w
  <2>2. msgsts'[v] = op[v].sts /\ msgsts'[w] = msgsts[w]
    BY <1>0, <1>1, <2>1
  <2>3. KeptOf(v)' /\ KeptOf(w)'
    BY <1>0, <2>1, <2>2 DEF KeptOf, FreshOf, At
  <2> QED
    BY <1>4, <1>5, <2>1, <2>3
<1> QED
  BY <1>3, <1>7, <1>8, <1>9, <1>10, <1>11, <1>12 DEF Shape

\* When the two QEMU processes share one host CPU, what a handler loaded is
\* never stale at its store.
LEMMA FreshAlways == ASSUME SingleCpu PROVE Spec => []FreshInv
<1>1. Init => FreshInv
  <2>1. IdleOp.pc = "idle"
    BY DEF IdleOp
  <2> QED
    BY <2>1 DEF Init, FreshInv, FreshOf, KeptOf, At
<1>2. TypeOK /\ FreshInv /\ [Next]_vars => FreshInv'
  BY Shapes, FreshStep
<1> QED
  BY <1>1, <1>2, TypeCorrect, PTL DEF Spec

\* On one CPU the bit of an accepted message stays set until the receiving
\* guest writes it to MSGSTS, as write_outbound_msg's comment says.
THEOREM StatusKept == ASSUME SingleCpu PROVE Spec => []StatusKeptUntilCleared
<1>1. FreshInv => StatusKeptUntilCleared
  BY DEF FreshInv, KeptOf, StatusKeptUntilCleared
<1> QED
  BY <1>1, FreshAlways, PTL
-----------------------------------------------------------------------------
(***************************************************************************)
(* The refinement of the mailbox channel: what each side of the channel is *)
(* read off.                                                               *)
(***************************************************************************)
FullOf(s) == {i \in MsgIdx : In(i) \in s}
MailOf(m, s) == [i \in FullOf(s) |-> m[i]]
FlagsOf(s) == {i \in MsgIdx : Out(i) \in s}
RejectingOf(o) == IF o.pc \in {"refuse_load", "refuse_store"} THEN {o.i} ELSE {}

Mails == [v \in VM |-> MailOf(msg[v], msgsts[v])]
Flags == [v \in VM |-> FlagsOf(msgsts[v])]
Rejections == [v \in VM |-> RejectingOf(op[v])]

\* A step of v in terms of the mailboxes: nothing, or one of the channel's.
LEMMA ChannelActions ==
  ASSUME NEW v \in VM,
         \/ /\ Mails' = Mails /\ Flags' = Flags
            /\ Rejections' = [Rejections EXCEPT ![v] = {}]
         \/ Mails' = Mails /\ Flags' = Flags /\ Rejections' = Rejections
         \/ \E i \in MsgIdx :
              /\ i \in DOMAIN Mails[Peer(v)]
              /\ Mails' = Mails /\ Flags' = Flags
              /\ Rejections' = [Rejections EXCEPT ![v] = {i}]
         \/ /\ Rejections[v] # {} /\ Mails' = Mails
            /\ Flags' = [Flags EXCEPT ![v] = @ \cup Rejections[v]]
            /\ Rejections' = [Rejections EXCEPT ![v] = {}]
         \/ \E i \in MsgIdx, x \in MsgVal :
              /\ i \notin DOMAIN Mails[Peer(v)]
              /\ Flags' = Flags /\ Rejections' = Rejections
              /\ Mails' = [Mails EXCEPT ![Peer(v)] =
                             [j \in DOMAIN Mails[Peer(v)] \cup {i} |->
                                IF j = i THEN x ELSE Mails[Peer(v)][j]]]
         \/ /\ Rejections' = Rejections
            /\ \E flags \in SUBSET Flags[v] : Flags' = [Flags EXCEPT ![v] = flags]
            /\ \E full \in SUBSET DOMAIN Mails[v] :
                 Mails' = [Mails EXCEPT ![v] = [j \in full |-> Mails[v][j]]]
  PROVE  [Chan!Next]_(Chan!chanVars)
BY DEF Chan!Next, Chan!chanVars, Chan!Deliver, Chan!Reject, Chan!Report,
       Chan!Abandon, Chan!Clear, Chan!Side, Chan!Other, VM, Peer, Mails, Flags,
       Rejections, MailOf, FullOf, FlagsOf, RejectingOf, Waiting

\* A step that changes no status word and no waiting message.
LEMMA SameMails ==
  ASSUME msgsts' = msgsts,
         \A u \in VM : \A i \in MsgIdx :
           In(i) \in msgsts[u] => msg'[u][i] = msg[u][i]
  PROVE  Mails' = Mails /\ Flags' = Flags
<1>1. ASSUME NEW u \in VM PROVE MailOf(msg[u], msgsts[u])' = MailOf(msg[u], msgsts[u])
  BY <1>1 DEF MailOf, FullOf
<1> QED
  BY <1>1 DEF Mails, Flags, FlagsOf

\* The refusals being reported after a step of v.
LEMMA RejectionsAfter ==
  ASSUME NEW v \in VM, op'[Peer(v)] = op[Peer(v)]
  PROVE  Rejections' = [Rejections EXCEPT ![v] = RejectingOf(op'[v])]
<1>1. \A u \in VM : u = v \/ op'[u] = op[u]
  BY BothVMs
<1> QED
  BY <1>1 DEF Rejections, RejectingOf

\* The mailboxes and flags after a step that stores one status word.
LEMMA MailsAfter ==
  ASSUME msgsts \in [VM -> SUBSET StsBits], NEW u \in VM, NEW s,
         msgsts' = [msgsts EXCEPT ![u] = s], msg' = msg
  PROVE  /\ Mails' = [Mails EXCEPT ![u] = MailOf(msg[u], s)]
         /\ Flags' = [Flags EXCEPT ![u] = FlagsOf(s)]
BY DEF Mails, Flags, MailOf, FullOf, FlagsOf

\* Under the invariants every step is one of the channel or leaves it alone.
LEMMA ChannelStep ==
  ASSUME TypeOK, StatusInv, FreshInv, NEW v \in VM, Shape(v)
  PROVE  [Chan!Next]_(Chan!chanVars)
<1> DEFINE w == Peer(v)
           i == op[v].i
<1>0. /\ w \in VM /\ w # v /\ op \in [VM -> OpType] /\ i \in MsgIdx
      /\ msgsts \in [VM -> SUBSET StsBits] /\ msg \in [VM -> [MsgIdx -> MsgVal]]
      /\ FreshOf(v) /\ StatusOf(v)
  BY PeerFacts, OpFields DEF TypeOK, FreshInv, StatusInv
<1> HIDE DEF w, i
<1>1. Rejections = [Rejections EXCEPT ![v] = RejectingOf(op[v])]
  BY DEF Rejections
<1>2. ASSUME UNCHANGED <<msgsts, msg>> PROVE Mails' = Mails /\ Flags' = Flags
  BY <1>2, SameMails
<1>3. CASE Stays
  <2>1. Mails' = Mails /\ Flags' = Flags /\ Rejections' = Rejections
    BY <1>2, <1>3 DEF Stays, Rejections
  <2> QED
    BY <2>1, ChannelActions
<1>4. ASSUME op'[w] = op[w], op'[v].pc \notin {"refuse_load", "refuse_store"}
      PROVE  Rejections' = [Rejections EXCEPT ![v] = {}]
  BY <1>4, RejectionsAfter DEF RejectingOf, w
<1>5. CASE Quiet(v) \/ LoadsSts(v) \/ LoadsClear(v)
  <2>1. /\ UNCHANGED <<msgsts, msg>> /\ op'[w] = op[w]
        /\ op'[v].pc \notin {"refuse_load", "refuse_store"}
    BY <1>5 DEF Quiet, LoadsSts, LoadsClear, Moves, Locals, w
  <2> QED
    BY <1>2, <1>4, <2>1, ChannelActions
<1>6. CASE StoresMsg(v)
  <2>1. /\ msgsts' = msgsts /\ op'[w] = op[w] /\ op'[v].pc = "sts_load"
        /\ op[v].pc = "msg_store" /\ msg' = [msg EXCEPT ![w][i] = op[v].val]
    BY <1>6 DEF StoresMsg, Moves, At, w, i
  <2>2. In(i) \notin msgsts[w]
    BY <1>0, <2>1 DEF StatusOf, w, i
  <2>3. \A u \in VM : \A j \in MsgIdx : In(j) \in msgsts[u] => msg'[u][j] = msg[u][j]
    BY <1>0, <2>1, <2>2
  <2>4. Mails' = Mails /\ Flags' = Flags
    BY <2>1, <2>3, SameMails
  <2> QED
    BY <1>4, <2>1, <2>4, ChannelActions
<1>7. CASE Refuses(v)
  <2>1. /\ UNCHANGED <<msgsts, msg>> /\ op'[w] = op[w] /\ op'[v].pc = "refuse_load"
        /\ op'[v].i \in MsgIdx /\ In(op'[v].i) \in msgsts[w]
    BY <1>7 DEF Refuses, Moves, w
  <2>2. op'[v].i \in DOMAIN Mails[w]
    BY <1>0, <2>1 DEF Mails, MailOf, FullOf
  <2>3. Rejections' = [Rejections EXCEPT ![v] = {op'[v].i}]
    BY <2>1, RejectionsAfter DEF RejectingOf, w
  <2> QED
    BY <1>2, <2>1, <2>2, <2>3, ChannelActions DEF w
<1>8. CASE LoadsRefusal(v)
  <2>1. /\ UNCHANGED <<msgsts, msg>> /\ op'[w] = op[w] /\ op'[v].pc = "refuse_store"
        /\ op[v].pc = "refuse_load" /\ op'[v].i = op[v].i
    BY <1>8 DEF LoadsRefusal, Moves, At, w
  <2>2. Rejections' = Rejections
    BY <1>1, <2>1, RejectionsAfter DEF RejectingOf, w
  <2> QED
    BY <1>2, <2>1, <2>2, ChannelActions
<1>9. CASE StoresRefusal(v)
  <2>1. /\ msg' = msg /\ op'[w] = op[w] /\ op'[v].pc = "refuse_irq"
        /\ op[v].pc = "refuse_store"
        /\ msgsts' = [msgsts EXCEPT ![v] = msgsts[v] \cup {Out(i)}]
    BY <1>0, <1>9 DEF StoresRefusal, Moves, At, FreshOf, w, i
  <2>2. /\ Mails' = [Mails EXCEPT ![v] = MailOf(msg[v], msgsts[v] \cup {Out(i)})]
        /\ Flags' = [Flags EXCEPT ![v] = FlagsOf(msgsts[v] \cup {Out(i)})]
    BY <1>0, <2>1, MailsAfter
  <2>3. /\ FullOf(msgsts[v] \cup {Out(i)}) = FullOf(msgsts[v])
        /\ FlagsOf(msgsts[v] \cup {Out(i)}) = FlagsOf(msgsts[v]) \cup {i}
    BY <1>0, BitFacts DEF FullOf, FlagsOf
  <2>4. Mails' = Mails
    <3>1. MailOf(msg[v], msgsts[v] \cup {Out(i)}) = Mails[v]
      BY <2>3 DEF Mails, MailOf
    <3>2. Mails = [Mails EXCEPT ![v] = Mails[v]]
      BY DEF Mails
    <3> QED
      BY <2>2, <3>1, <3>2
  <2>5. Rejections[v] = {i}
    BY <2>1 DEF Rejections, RejectingOf, i
  <2>6. Flags' = [Flags EXCEPT ![v] = @ \cup Rejections[v]]
    BY <2>2, <2>3, <2>5 DEF Flags
  <2> QED
    BY <1>4, <2>1, <2>4, <2>5, <2>6, ChannelActions
<1>10. CASE StoresSts(v)
  <2>1. /\ msg' = msg /\ op'[w] = op[w] /\ op'[v].pc = "src"
        /\ op[v].pc = "sts_store"
        /\ msgsts' = [msgsts EXCEPT ![w] = msgsts[w] \cup {In(i)}]
    BY <1>0, <1>10 DEF StoresSts, Moves, At, FreshOf, w, i
  <2>2. /\ Mails' = [Mails EXCEPT ![w] = MailOf(msg[w], msgsts[w] \cup {In(i)})]
        /\ Flags' = [Flags EXCEPT ![w] = FlagsOf(msgsts[w] \cup {In(i)})]
    BY <1>0, <2>1, MailsAfter
  <2>3. /\ FullOf(msgsts[w] \cup {In(i)}) = FullOf(msgsts[w]) \cup {i}
        /\ FlagsOf(msgsts[w] \cup {In(i)}) = FlagsOf(msgsts[w])
    BY <1>0, BitFacts DEF FullOf, FlagsOf
  <2>4. In(i) \notin msgsts[w]
    BY <1>0, <2>1 DEF StatusOf, w, i
  <2>5. i \notin DOMAIN Mails[w]
    BY <1>0, <2>4 DEF Mails, MailOf, FullOf
  <2>6. MailOf(msg[w], msgsts[w] \cup {In(i)}) =
          [j \in DOMAIN Mails[w] \cup {i} |-> IF j = i THEN msg[w][i] ELSE Mails[w][j]]
    BY <1>0, <2>3 DEF Mails, MailOf
  <2>7. Flags' = Flags
    BY <2>2, <2>3 DEF Flags
  <2>8. Rejections' = Rejections
    BY <1>1, <1>4, <2>1 DEF RejectingOf
  <2>9. msg[w][i] \in MsgVal
    BY <1>0
  <2>10. PICK x \in MsgVal : x = msg[w][i]
    BY <2>9
  <2>11. Mails' = [Mails EXCEPT ![w] =
                     [j \in DOMAIN Mails[w] \cup {i} |-> IF j = i THEN x ELSE Mails[w][j]]]
    BY <2>2, <2>6, <2>10
  <2>12. /\ i \in MsgIdx /\ i \notin DOMAIN Mails[Peer(v)]
         /\ Mails' = [Mails EXCEPT ![Peer(v)] =
                        [j \in DOMAIN Mails[Peer(v)] \cup {i} |->
                           IF j = i THEN x ELSE Mails[Peer(v)][j]]]
    BY <1>0, <2>5, <2>11 DEF w
  <2> QED
    BY <2>7, <2>8, <2>12, ChannelActions
<1>11. CASE StoresClear(v)
  <2>1. /\ msg' = msg /\ op'[w] = op[w] /\ op'[v].pc = "idle"
        /\ op[v].pc = "clr_msgsts" /\ op[v].sts \subseteq msgsts[v]
        /\ msgsts' = [msgsts EXCEPT ![v] = op[v].sts]
    BY <1>0, <1>11 DEF StoresClear, Moves, At, FreshOf, w
  <2>2. /\ Mails' = [Mails EXCEPT ![v] = MailOf(msg[v], op[v].sts)]
        /\ Flags' = [Flags EXCEPT ![v] = FlagsOf(op[v].sts)]
    BY <1>0, <2>1, MailsAfter
  <2>3. FlagsOf(op[v].sts) \in SUBSET Flags[v]
    BY <2>1 DEF Flags, FlagsOf
  <2>4. FullOf(op[v].sts) \in SUBSET DOMAIN Mails[v]
    BY <2>1 DEF Mails, MailOf, FullOf
  <2>5. MailOf(msg[v], op[v].sts) = [j \in FullOf(op[v].sts) |-> Mails[v][j]]
    BY <2>1 DEF Mails, MailOf, FullOf
  <2>6. Rejections' = Rejections
    BY <1>1, <1>4, <2>1 DEF RejectingOf
  <2> QED
    BY <2>2, <2>3, <2>4, <2>5, <2>6, ChannelActions
<1> QED
  BY <1>3, <1>5, <1>6, <1>7, <1>8, <1>9, <1>10, <1>11 DEF Shape

\* On one CPU the message registers implement the mailbox channel: whatever the
\* two guests write, mask and clear, and whenever a process dies, no message
\* vanishes, reappears or is replaced.
THEOREM RegistersImplementChannel == ASSUME SingleCpu PROVE Spec => ImplementsChannel
<1>1. Init => Chan!Init
  <2> SUFFICES ASSUME Init PROVE Chan!Init
    OBVIOUS
  <2>1. IdleOp.pc = "idle"
    BY DEF IdleOp
  <2>2. \A v \in VM : Waiting(v) = {}
    BY DEF Init, Waiting
  <2> QED
    BY <2>1, <2>2 DEF Init, Chan!Init, Chan!Side, VM
<1>2. TypeOK /\ StatusInv /\ FreshInv /\ [Next]_vars => [Chan!Next]_(Chan!chanVars)
  BY Shapes, ChannelStep
<1> QED
  BY <1>1, <1>2, TypeCorrect, StatusCorrect, FreshAlways, PTL
  DEF Spec, ImplementsChannel, Chan!Spec
-----------------------------------------------------------------------------
(***************************************************************************)
(* Wake-ups.  An owed interrupt with some cause in memory is on its way.   *)
(* The kick looks at the whole of intsts, so what must not happen is that  *)
(* it finds nothing there and a cause comes back later: an owner that is   *)
(* about to store causes has memory non-empty, because the peer only adds. *)
(***************************************************************************)
Coming(v) ==
  \/ host_event[v] \/ msi[v]
  \/ op[Peer(v)].pc \in {"raise_load", "raise_store", "kick"}
  \/ op[v].pc = "refuse_irq_store"
WakeOf(v) ==
  /\ ~At(v, "off")
  /\ At(v, "clr_intsts") /\ op[v].ints # {} => intsts[v] # {}
  /\ At(v, "raise_store") => op[v].ints # {}
  /\ owed[v] # {} => nt_int_mask = {}
  /\ owed[v] # {} /\ intsts[v] # {} => Coming(v)
WakeInv == nt_int_mask \in {Interrupts, {}} /\ \A v \in VM : WakeOf(v)

\* Steps that leave interrupts alone.
Silent(v) ==
  /\ UNCHANGED <<nt_int_mask, intsts, host_event, msi, owed>>
  /\ op[v].pc \notin {"raise_load", "raise_store", "kick", "refuse_irq_store"}
  /\ op'[v].pc \notin {"off", "clr_intsts", "raise_store"}
  /\ op'[Peer(v)] = op[Peer(v)]

\* Steps that decide to raise a cause in the peer.
Decides(v) ==
  /\ nt_int_mask # Interrupts
  /\ UNCHANGED <<nt_int_mask, intsts, host_event, msi>>
  /\ owed'[v] = owed[v] /\ owed' \in [VM -> SUBSET Interrupts]
  /\ op[v].pc # "refuse_irq_store"
  /\ op'[v].pc = "raise_load" /\ op'[Peer(v)] = op[Peer(v)]

\* A handler at the end of its own work decides, or is done.
LEMMA RaiseDecides ==
  ASSUME TypeOK, NEW v \in VM, NEW c \in Interrupts, NEW unmasked \in BOOLEAN,
         RaiseOrReturn(v, c, unmasked), unmasked => c \notin nt_int_mask,
         UNCHANGED <<nt_int_mask, intsts, host_event, msi>>,
         op[v].pc \notin {"raise_load", "raise_store", "kick", "refuse_irq_store"}
  PROVE  Silent(v) \/ Decides(v)
<1>0. op \in [VM -> OpType] /\ owed \in [VM -> SUBSET Interrupts]
  BY DEF TypeOK
<1>1. CASE unmasked
  <2>1. /\ op' = [op EXCEPT ![v] = [@ EXCEPT !.pc = "raise_load", !.cause = c]]
        /\ owed' = [owed EXCEPT ![Peer(v)] = @ \cup {c}]
    BY <1>1 DEF RaiseOrReturn
  <2>2. op'[v].pc = "raise_load" /\ op'[Peer(v)] = op[Peer(v)]
    <3> DEFINE o == op[v]
    <3>1. o \in OpType
      BY <1>0
    <3>2. [o EXCEPT !.pc = "raise_load", !.cause = c].pc = "raise_load"
      <4> HIDE DEF o
      <4> QED
        BY <3>1 DEF OpType
    <3> QED
      BY <1>0, <2>1, <3>2, PeerFacts
  <2>3. owed'[v] = owed[v] /\ owed' \in [VM -> SUBSET Interrupts]
    BY <1>0, <2>1, PeerFacts
  <2> QED
    BY <1>1, <2>2, <2>3 DEF Decides
<1>2. CASE ~unmasked
  <2>1. op'[v].pc = "idle" /\ op'[Peer(v)] = op[Peer(v)] /\ owed' = owed
    BY <1>0, <1>2, OpAfterReturn DEF RaiseOrReturn
  <2> QED
    BY <2>1 DEF Silent
<1> QED
  BY <1>1, <1>2

\* Both keep the invariant.
LEMMA SilentKeeps ==
  ASSUME TypeOK, WakeInv, NEW v \in VM, Silent(v) \/ Decides(v)
  PROVE  WakeInv'
<1> DEFINE w == Peer(v)
<1>0. w \in VM /\ w # v /\ Peer(w) = v /\ WakeOf(v) /\ WakeOf(w)
  BY PeerFacts DEF WakeInv
<1>1. SUFFICES WakeOf(v)' /\ WakeOf(w)' /\ (nt_int_mask \in {Interrupts, {}})'
  BY BothVMs DEF WakeInv
<1>2. CASE Silent(v)
  <2>1. WakeOf(v)'
    BY <1>0, <1>2 DEF Silent, WakeOf, Coming, At
  <2>2. WakeOf(w)'
    BY <1>0, <1>2 DEF Silent, WakeOf, Coming, At
  <2> QED
    BY <1>2, <2>1, <2>2 DEF Silent, WakeInv
<1>3. CASE Decides(v)
  <2>1. WakeOf(v)'
    BY <1>0, <1>3 DEF Decides, WakeOf, Coming, At
  <2>2. WakeOf(w)'
    BY <1>0, <1>3 DEF Decides, WakeOf, Coming, At, WakeInv
  <2> QED
    BY <1>3, <2>1, <2>2 DEF Decides, WakeInv
<1> QED
  BY <1>2, <1>3

\* Register writes and message steps are silent or decide.
LEMMA SilentSteps ==
  ASSUME TypeOK, NEW v \in VM,
         \/ \E i \in MsgIdx, x \in MsgVal : OutMsg(v, i, x)
         \/ \E bits \in SUBSET Doorbells : OutDbellSet(v, bits)
         \/ NtgSignal(v)
         \/ \E segsig \in BOOLEAN : GasaAddr(v, segsig)
         \/ GasaData(v)
         \/ \E bits \in StsClears : MsgStsClear(v, bits)
         \/ \E bits \in SUBSET Doorbells : DbellClear(v, bits)
         \/ \E mask \in StsMasks : SetMsgStsMask(v, mask)
         \/ \E part \in Parts : SetPart(v, part)
         \/ RefuseLoad(v) \/ RefuseStore(v) \/ MsgStore(v) \/ StsLoad(v)
         \/ StsStore(v) \/ Src(v) \/ MsgStsClearStore(v) \/ DbellClearStore(v)
  PROVE  Silent(v) \/ Decides(v)
<1>0. op \in [VM -> OpType]
  BY DEF TypeOK
<1>1. ASSUME NEW i \in MsgIdx, NEW x \in MsgVal, OutMsg(v, i, x) PROVE Silent(v)
  <2>1. PICK point \in {"refuse_load", "msg_store"} :
          op' = [op EXCEPT ![v] = [@ EXCEPT !.pc = point, !.i = i, !.val = x]]
    BY <1>1 DEF OutMsg
  <2>2. op' = [op EXCEPT ![v] = [@ EXCEPT !.pc = point, !.i = i, !.val = x]]
    BY <2>1
  <2>3. op'[v].pc = point /\ op'[Peer(v)] = op[Peer(v)]
    BY <1>0, <2>2, OpAfterMsg
  <2>4. UNCHANGED <<nt_int_mask, intsts, host_event, msi, owed>> /\ op[v].pc = "idle"
    BY <1>1 DEF OutMsg, Idle, At, regs
  <2> QED
    BY <2>1, <2>3, <2>4 DEF Silent
<1>2. ASSUME NEW bits, OutDbellSet(v, bits) PROVE Silent(v) \/ Decides(v)
  <2>1. /\ RaiseOrReturn(v, "DBELL", "DBELL" \notin nt_int_mask)
        /\ UNCHANGED <<nt_int_mask, intsts, host_event, msi>> /\ op[v].pc = "idle"
    BY <1>2 DEF OutDbellSet, Starts, Idle, At
  <2>2. "DBELL" \in Interrupts /\ ("DBELL" \notin nt_int_mask) \in BOOLEAN
    BY DEF Interrupts
  <2> QED
    BY <2>1, <2>2, RaiseDecides
<1>3. CASE NtgSignal(v)
  <2>1. /\ RaiseOrReturn(v, "SEVENT", "SEVENT" \notin nt_int_mask)
        /\ UNCHANGED <<nt_int_mask, intsts, host_event, msi>> /\ op[v].pc = "idle"
    BY <1>3 DEF NtgSignal, Starts, Idle, At
  <2>2. "SEVENT" \in Interrupts /\ ("SEVENT" \notin nt_int_mask) \in BOOLEAN
    BY DEF Interrupts
  <2> QED
    BY <2>1, <2>2, RaiseDecides
<1>4. CASE Src(v)
  <2> DEFINE unmasked == /\ In(op[v].i) \notin msgsts_mask[Peer(v)]
                         /\ "MSG" \notin nt_int_mask
  <2>1. /\ RaiseOrReturn(v, "MSG", unmasked)
        /\ UNCHANGED <<nt_int_mask, intsts, host_event, msi>> /\ op[v].pc = "src"
    BY <1>4 DEF Src, At
  <2>2. /\ "MSG" \in Interrupts /\ unmasked \in BOOLEAN
        /\ unmasked => "MSG" \notin nt_int_mask
    BY DEF Interrupts
  <2> HIDE DEF unmasked
  <2> QED
    BY <2>1, <2>2, RaiseDecides
<1>5. ASSUME UNCHANGED <<nt_int_mask, intsts, host_event, msi, owed, op>>, At(v, "idle")
      PROVE  Silent(v)
  BY <1>5 DEF Silent, At
<1>6. CASE GasaData(v)
  BY <1>5, <1>6 DEF GasaData, Starts, Idle
<1>7. ASSUME NEW x, GasaAddr(v, x) \/ SetMsgStsMask(v, x) \/ SetPart(v, x)
      PROVE  Silent(v)
  BY <1>5, <1>7 DEF GasaAddr, SetMsgStsMask, SetPart, Starts, Idle
<1>8. ASSUME NEW bits, MsgStsClear(v, bits) PROVE Silent(v)
  <2>1. GotoSts(v, "clr_msgsts", msgsts[v] \ bits)
    BY <1>8 DEF MsgStsClear
  <2>2. op'[v].pc = "clr_msgsts" /\ op'[Peer(v)] = op[Peer(v)]
    BY <1>0, <2>1, OpAfter
  <2> QED
    BY <1>8, <2>2 DEF MsgStsClear, Starts, Idle, At, Silent, regs
<1>9. ASSUME NEW bits, DbellClear(v, bits) PROVE Silent(v)
  <2>1. GotoDbs(v, "clr_db", db[v] \ bits)
    BY <1>9 DEF DbellClear
  <2>2. op'[v].pc = "clr_db" /\ op'[Peer(v)] = op[Peer(v)]
    BY <1>0, <2>1, OpAfter
  <2> QED
    BY <1>9, <2>2 DEF DbellClear, Starts, Idle, At, Silent, regs
<1>10. CASE RefuseLoad(v) \/ StsLoad(v)
  <2>1. op'[v].pc \in {"refuse_store", "sts_store"} /\ op'[Peer(v)] = op[Peer(v)]
    BY <1>0, <1>10, OpAfter DEF RefuseLoad, StsLoad
  <2> QED
    BY <1>10, <2>1 DEF RefuseLoad, StsLoad, At, Silent, regs
<1>11. CASE RefuseStore(v) \/ StsStore(v)
  <2>1. op'[v].pc \in {"refuse_irq", "src"} /\ op'[Peer(v)] = op[Peer(v)]
    BY <1>0, <1>11, OpAfter DEF RefuseStore, StsStore
  <2> QED
    BY <1>11, <2>1 DEF RefuseStore, StsStore, At, Silent
<1>12. CASE MsgStore(v)
  <2>1. op'[v].pc = "sts_load" /\ op'[Peer(v)] = op[Peer(v)]
    BY <1>0, <1>12, OpAfterMsg DEF MsgStore
  <2> QED
    BY <1>12, <2>1 DEF MsgStore, At, Silent
<1>13. CASE MsgStsClearStore(v) \/ DbellClearStore(v)
  BY <1>0, <1>13, OpAfterReturn DEF MsgStsClearStore, DbellClearStore, At, Silent
<1> QED
  BY <1>1, <1>2, <1>3, <1>4, <1>6, <1>7, <1>8, <1>9, <1>10, <1>11, <1>12, <1>13

\* The interrupt words a handler loads.
LEMMA IntsAfter ==
  ASSUME op \in [VM -> OpType], NEW v \in VM, NEW point, NEW new,
         GotoInts(v, point, new)
  PROVE  op'[v].pc = point /\ op'[v].ints = new /\ op'[Peer(v)] = op[Peer(v)]
<1> DEFINE o == op[v]
<1>1. o \in OpType /\ Peer(v) \in VM /\ Peer(v) # v
  BY PeerFacts
<1>2. /\ [o EXCEPT !.pc = point, !.ints = new].pc = point
      /\ [o EXCEPT !.pc = point, !.ints = new].ints = new
  <2> HIDE DEF o
  <2> QED
    BY <1>1 DEF OpType
<1> QED
  BY <1>1, <1>2 DEF GotoInts

\* One step per action that touches interrupts.
LEMMA WakeStep ==
  ASSUME MaxCrash = 0, IntMasks \subseteq {{}}, TypeOK, WakeInv, Next
  PROVE  WakeInv'
<1>0. /\ op \in [VM -> OpType] /\ intsts \in [VM -> SUBSET Interrupts]
      /\ owed \in [VM -> SUBSET Interrupts] /\ crashes \in 0..MaxCrash
      /\ host_event \in [VM -> BOOLEAN] /\ msi \in [VM -> BOOLEAN]
  BY DEF TypeOK
<1>1. PICK v \in VM : \/ GuestWrite(v) \/ Continue(v) \/ HostEvent(v)
                      \/ TakeInterrupt(v) \/ Crash(v) \/ Realize(v)
  BY DEF Next
<1> DEFINE w == Peer(v)
<1>2. w \in VM /\ w # v /\ Peer(w) = v /\ WakeOf(v) /\ WakeOf(w)
  BY PeerFacts DEF WakeInv
<1>3. ASSUME WakeOf(v)', WakeOf(w)', nt_int_mask' \in {Interrupts, {}} PROVE WakeInv'
  BY <1>3, BothVMs DEF WakeInv
<1>4. nt_int_mask \in {Interrupts, {}}
  BY DEF WakeInv
<1> HIDE DEF w
<1>5. CASE Silent(v) \/ Decides(v)
  BY <1>5, SilentKeeps
<1>6. CASE RefuseIrq(v)
  <2>1. CASE RefusalInterrupts(v)
    <3>1. /\ GotoInts(v, "refuse_irq_store", intsts[v] \cup {"MSG"})
          /\ owed' = [owed EXCEPT ![v] = @ \cup {"MSG"}]
          /\ UNCHANGED <<nt_int_mask, intsts, host_event, msi>>
          /\ op[v].pc = "refuse_irq" /\ "MSG" \notin nt_int_mask
      BY <1>6, <2>1 DEF RefuseIrq, RefusalInterrupts, At, regs
    <3>2. op'[v].pc = "refuse_irq_store" /\ op'[w] = op[w]
      BY <1>0, <3>1, IntsAfter DEF w
    <3>3. nt_int_mask = {}
      BY <1>4, <3>1 DEF Interrupts
    <3>4. owed'[w] = owed[w]
      BY <1>0, <1>2, <3>1
    <3>5. WakeOf(v)'
      BY <3>1, <3>2, <3>3 DEF WakeOf, Coming, At
    <3>6. WakeOf(w)'
      BY <1>2, <3>1, <3>2, <3>4 DEF WakeOf, Coming, At
    <3> QED
      BY <1>3, <1>4, <3>1, <3>5, <3>6
  <2>2. CASE ~RefusalInterrupts(v)
    <3>1. op'[v].pc = "idle" /\ op'[Peer(v)] = op[Peer(v)]
      BY <1>0, <1>6, <2>2, OpAfterReturn DEF RefuseIrq
    <3>2. Silent(v)
      BY <1>6, <2>2, <3>1 DEF RefuseIrq, Silent, At, regs
    <3> QED
      BY <3>2, SilentKeeps
  <2> QED
    BY <2>1, <2>2
<1>7. CASE RefuseIrqStore(v)
  <2>1. /\ intsts' = [intsts EXCEPT ![v] = op[v].ints]
        /\ msi' = [msi EXCEPT ![v] = TRUE]
        /\ UNCHANGED <<nt_int_mask, host_event, owed>>
        /\ op'[v].pc = "idle" /\ op'[w] = op[w] /\ op[v].pc = "refuse_irq_store"
    BY <1>0, <1>7, OpAfterReturn DEF RefuseIrqStore, At, w
  <2>2. intsts'[w] = intsts[w] /\ msi'[w] = msi[w] /\ msi'[v]
    BY <1>0, <1>2, <2>1
  <2>3. WakeOf(v)'
    BY <1>2, <2>1, <2>2 DEF WakeOf, Coming, At
  <2>4. WakeOf(w)'
    BY <1>2, <2>1, <2>2 DEF WakeOf, Coming, At
  <2> QED
    BY <1>3, <1>4, <2>1, <2>3, <2>4
<1>8. CASE RaiseLoad(v)
  <2>1. PICK new : new = intsts[w] \cup {op[v].cause} /\ GotoInts(v, "raise_store", new)
    BY <1>8 DEF RaiseLoad, w
  <2>2. op'[v].pc = "raise_store" /\ op'[w] = op[w] /\ op'[v].ints = new
    <3>1. GotoInts(v, "raise_store", new)
      BY <2>1
    <3> QED
      BY <1>0, <3>1, IntsAfter DEF w
  <2>3. UNCHANGED <<nt_int_mask, intsts, host_event, msi, owed>> /\ op[v].pc = "raise_load"
    BY <1>8 DEF RaiseLoad, At, regs
  <2>4. WakeOf(v)'
    BY <1>2, <2>1, <2>2, <2>3 DEF WakeOf, Coming, At, w
  <2>5. WakeOf(w)'
    BY <1>2, <2>2, <2>3 DEF WakeOf, Coming, At
  <2> QED
    BY <1>3, <1>4, <2>3, <2>4, <2>5
<1>9. CASE RaiseStore(v)
  <2>1. /\ intsts' = [intsts EXCEPT ![w] = op[v].ints]
        /\ UNCHANGED <<nt_int_mask, host_event, msi, owed>> /\ op[v].pc = "raise_store"
        /\ op'[v].pc = "kick" /\ op'[w] = op[w]
    BY <1>0, <1>9, IntsAfter DEF RaiseStore, At, w
  <2>2. intsts'[v] = intsts[v] /\ intsts'[w] = op[v].ints /\ op[v].ints # {}
    BY <1>0, <1>2, <2>1 DEF WakeOf, At
  <2>3. WakeOf(v)'
    BY <1>2, <2>1, <2>2 DEF WakeOf, Coming, At, w
  <2>4. WakeOf(w)'
    BY <1>2, <2>1, <2>2 DEF WakeOf, Coming, At
  <2> QED
    BY <1>3, <1>4, <2>1, <2>3, <2>4
<1>10. CASE Kick(v)
  <2>1. /\ host_event' = [host_event EXCEPT ![w] =
              @ \/ (~At(w, "off") /\ intsts[w] \ nt_int_mask # {})]
        /\ UNCHANGED <<nt_int_mask, intsts, msi, owed>> /\ op[v].pc = "kick"
        /\ op'[v].pc = "idle" /\ op'[w] = op[w]
    BY <1>0, <1>10, OpAfterReturn DEF Kick, At, regs, w
  <2>2. /\ host_event'[v] = host_event[v] /\ (host_event[w] => host_event'[w])
        /\ intsts[w] # {} /\ nt_int_mask = {} => host_event'[w]
    BY <1>0, <1>2, <2>1 DEF WakeOf
  <2>3. WakeOf(v)'
    BY <1>2, <2>1, <2>2 DEF WakeOf, Coming, At, w
  <2>4. WakeOf(w)'
    BY <1>2, <2>1, <2>2 DEF WakeOf, Coming, At
  <2> QED
    BY <1>3, <1>4, <2>1, <2>3, <2>4
<1>11. CASE HostEvent(v)
  <2>1. /\ host_event' = [host_event EXCEPT ![v] = FALSE]
        /\ msi' = [msi EXCEPT ![v] = TRUE]
        /\ UNCHANGED <<nt_int_mask, intsts, op, owed>>
    BY <1>11 DEF HostEvent, regs
  <2>2. host_event'[w] = host_event[w] /\ msi'[w] = msi[w] /\ msi'[v]
    BY <1>0, <1>2, <2>1
  <2>3. WakeOf(v)'
    BY <1>2, <2>1, <2>2 DEF WakeOf, Coming, At
  <2>4. WakeOf(w)'
    BY <1>2, <2>1, <2>2 DEF WakeOf, Coming, At
  <2> QED
    BY <1>3, <1>4, <2>1, <2>3, <2>4
<1>12. CASE TakeInterrupt(v)
  <2>1. /\ msi' = [msi EXCEPT ![v] = FALSE] /\ owed' = [owed EXCEPT ![v] = {}]
        /\ UNCHANGED <<nt_int_mask, intsts, op, host_event>>
    BY <1>12 DEF TakeInterrupt, regs
  <2>2. msi'[w] = msi[w] /\ owed'[w] = owed[w] /\ owed'[v] = {}
    BY <1>0, <1>2, <2>1
  <2>3. WakeOf(v)'
    BY <1>2, <2>1, <2>2 DEF WakeOf, Coming, At
  <2>4. WakeOf(w)'
    BY <1>2, <2>1, <2>2 DEF WakeOf, Coming, At
  <2> QED
    BY <1>3, <1>4, <2>1, <2>3, <2>4
<1>13. ASSUME NEW bits, IntStsClear(v, bits) PROVE WakeInv'
  <2>1. GotoInts(v, "clr_intsts", intsts[v] \ bits)
    BY <1>13 DEF IntStsClear
  <2>2. /\ op'[v].pc = "clr_intsts" /\ op'[w] = op[w]
        /\ op'[v].ints = intsts[v] \ bits
    BY <1>0, <2>1, IntsAfter DEF w
  <2>3. UNCHANGED <<nt_int_mask, intsts, host_event, msi, owed>> /\ op[v].pc = "idle"
    BY <1>13 DEF IntStsClear, Starts, Idle, At, regs
  <2>4. WakeOf(v)'
    BY <1>2, <2>2, <2>3 DEF WakeOf, Coming, At, w
  <2>5. WakeOf(w)'
    BY <1>2, <2>2, <2>3 DEF WakeOf, Coming, At
  <2> QED
    BY <1>3, <1>4, <2>3, <2>4, <2>5
<1>14. CASE IntStsClearStore(v)
  <2>1. /\ intsts' = [intsts EXCEPT ![v] = op[v].ints]
        /\ UNCHANGED <<nt_int_mask, host_event, msi, owed>> /\ op[v].pc = "clr_intsts"
        /\ op'[v].pc = "idle" /\ op'[w] = op[w]
    BY <1>0, <1>14, OpAfterReturn DEF IntStsClearStore, At, w
  <2>2. /\ intsts'[w] = intsts[w] /\ intsts'[v] = op[v].ints
        /\ op[v].ints # {} => intsts[v] # {}
    BY <1>0, <1>2, <2>1 DEF WakeOf, At
  <2>3. WakeOf(v)'
    BY <1>2, <2>1, <2>2 DEF WakeOf, Coming, At, w
  <2>4. WakeOf(w)'
    BY <1>2, <2>1, <2>2 DEF WakeOf, Coming, At
  <2> QED
    BY <1>3, <1>4, <2>1, <2>3, <2>4
<1>15. ASSUME NEW mask \in IntMasks, SetIntMask(v, mask) PROVE WakeInv'
  <2>1. nt_int_mask' = {} /\ UNCHANGED <<intsts, host_event, msi, owed, op>>
    BY <1>15 DEF SetIntMask
  <2>2. WakeOf(v)'
    BY <1>2, <2>1 DEF WakeOf, Coming, At
  <2>3. WakeOf(w)'
    BY <1>2, <2>1 DEF WakeOf, Coming, At
  <2> QED
    BY <1>3, <2>1, <2>2, <2>3
<1>16. ~Crash(v) /\ ~Realize(v)
  BY <1>0, <1>2, SMT DEF Crash, Realize, WakeOf
<1>17. CASE GuestWrite(v)
  BY <1>5, <1>13, <1>15, <1>17, SilentSteps DEF GuestWrite
<1>18. CASE Continue(v)
  BY <1>5, <1>6, <1>7, <1>8, <1>9, <1>10, <1>14, <1>18, SilentSteps DEF Continue
<1> QED
  BY <1>1, <1>11, <1>12, <1>16, <1>17, <1>18

\* With guests that unmask and do not mask again, and no restart, which masks
\* everything, an interrupt that a handler decided to raise is never forgotten:
\* on one CPU or several, the flag, the eventfd or the raising handler has it.
THEOREM WakeupsPending ==
  ASSUME MaxCrash = 0, IntMasks \subseteq {{}}
  PROVE  Spec => []WakeupPending
<1>1. Init => WakeInv
  <2>1. IdleOp.pc = "idle"
    BY DEF IdleOp
  <2> QED
    BY <2>1 DEF Init, WakeInv, WakeOf, At
<1>2. TypeOK /\ WakeInv /\ [Next]_vars => WakeInv'
  <2>1. CASE UNCHANGED vars
    BY <2>1 DEF vars, regs, WakeInv, WakeOf, Coming, At
  <2> QED
    BY <2>1, WakeStep
<1>3. WakeInv => WakeupPending
  BY DEF WakeInv, WakeOf, Coming, WakeupPending
<1> QED
  BY <1>1, <1>2, <1>3, TypeCorrect, PTL DEF Spec
=============================================================================
