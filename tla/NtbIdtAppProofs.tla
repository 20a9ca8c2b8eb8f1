--------------------------- MODULE NtbIdtAppProofs ---------------------------
(***************************************************************************)
(* Proofs about the ntb_idt_app driver: its state stays typed, and a       *)
(* command that recv_cmd takes is one that send_cmd sent, for any number   *)
(* of loads, frames and lengths, with failing windows and any give-ups.    *)
(***************************************************************************)
EXTENDS NtbIdtApp, TLAPS

\* Most leaves are first-order; those that need arithmetic, records or sequences
\* cite SMT.
USE Zenon

LEMMA PeerFacts == \A v \in VM : /\ Peer(v) \in VM /\ Peer(v) # v
                                  /\ Peer(Peer(v)) = v
  BY SMT DEF VM, Peer

LEMMA TwoVMs == \A v, w \in VM : w = v \/ w = Peer(v)
  BY SMT DEF VM, Peer

\* What typed structures contain, and what keeps them typed.
LEMMA RunFields ==
  ASSUME NEW x \in RunType
  PROVE  /\ x.cmd \in Commands
         /\ \A p \in {"idle", "drain", "low", "high", "cmd", "header"} :
              [x EXCEPT !.pc = p] \in RunType
         /\ \A p \in {"idle", "drain", "low", "high", "cmd", "header"},
               c \in Commands : [x EXCEPT !.pc = p, !.cmd = c] \in RunType
  BY DEF RunType

LEMMA CommandTyped ==
  /\ \A c \in {"none", "SIZE", "XLAT", "KICK"}, d \in Nat : Command(c, d) \in Commands
  /\ Empty \in Commands
  BY DEF Command, Commands, Empty

LEMMA FreeTyped ==
  /\ Free \in RunType
  /\ [Free EXCEPT !.by = "work", !.pc = "drain"] \in RunType
  /\ [Free EXCEPT !.by = "tx", !.pc = "header"] \in RunType
  BY CommandTyped DEF Free, RunType

LEMMA AppFields ==
  ASSUME NEW a \in AppType
  PROVE  a.rx_buf \in Nat
  BY DEF AppType

LEMMA AppSteps ==
  ASSUME NEW a \in AppType, NEW n \in Nat, NEW l \in Lens \cup {0}
  PROVE  /\ Unloaded \in AppType
         /\ [Unloaded EXCEPT !.loaded = TRUE] \in AppType
         /\ [a EXCEPT !.removed = TRUE, !.peer_ready = FALSE] \in AppType
         /\ [a EXCEPT !.link_up = FALSE, !.peer_ready = FALSE] \in AppType
         /\ [a EXCEPT !.link_up = TRUE] \in AppType
         /\ [a EXCEPT !.rx_buf = n] \in AppType
         /\ [a EXCEPT !.peer_size = n] \in AppType
         /\ [a EXCEPT !.peer_xlat = n] \in AppType
         /\ [a EXCEPT !.rx_avail = TRUE, !.rx_len = l] \in AppType
         /\ [a EXCEPT !.rx_avail = FALSE, !.rx_len = 0] \in AppType
<1>1. Unloaded \in AppType
  BY DEF AppType, Unloaded
<1>2. \A b \in AppType : [b EXCEPT !.loaded = TRUE] \in AppType
  BY DEF AppType
<1>3. /\ [a EXCEPT !.removed = TRUE, !.peer_ready = FALSE] \in AppType
      /\ [a EXCEPT !.link_up = FALSE, !.peer_ready = FALSE] \in AppType
      /\ [a EXCEPT !.link_up = TRUE] \in AppType
  BY DEF AppType
<1>4. /\ [a EXCEPT !.rx_buf = n] \in AppType
      /\ [a EXCEPT !.peer_size = n] \in AppType
      /\ [a EXCEPT !.peer_xlat = n] \in AppType
  BY DEF AppType
<1>5. [a EXCEPT !.rx_avail = TRUE, !.rx_len = l] \in AppType
  BY DEF AppType
<1>6. [a EXCEPT !.rx_avail = FALSE, !.rx_len = 0] \in AppType
  BY DEF AppType
<1> QED
  BY <1>1, <1>2, <1>3, <1>4, <1>5, <1>6

LEMMA SetupTyped ==
  ASSUME NEW a \in AppType, NEW ok \in BOOLEAN
  PROVE  TrySetupPeer(a, ok) \in AppType
<1>1. [a EXCEPT !.peer_ready = TRUE, !.peer_io = TRUE] \in AppType
  BY DEF AppType
<1>2. [a EXCEPT !.peer_io = FALSE, !.peer_size = 0, !.peer_xlat = 0] \in AppType
  BY DEF AppType
<1> QED BY <1>1, <1>2 DEF TrySetupPeer

LEMMA OutcomesTyped == Outcomes \subseteq BOOLEAN
  BY DEF Outcomes
-----------------------------------------------------------------------------
(***************************************************************************)
(* Types.                                                                  *)
(***************************************************************************)
LEMMA TypeInit == Init => TypeOK
<1> SUFFICES ASSUME Init PROVE TypeOK
  OBVIOUS
<1>1. Unloaded \in AppType
  BY DEF AppType, Unloaded
<1>2. app \in [VM -> AppType] /\ run \in [VM -> RunType]
  BY <1>1, FreeTyped DEF Init
<1>3. box \in [VM -> [Regs -> Commands]]
  BY CommandTyped DEF Init
<1>4. buf \in [VM -> [payload: Nat, len: Lens \cup {0}]]
  BY DEF Init, NoFrame
<1> QED BY <1>2, <1>3, <1>4 DEF Init, TypeOK, VM

LEMMA TypeStep == TypeOK /\ [Next]_vars => TypeOK'
<1> SUFFICES ASSUME TypeOK, [Next]_vars PROVE TypeOK'
  OBVIOUS
<1> USE PeerFacts
<1>0. CASE UNCHANGED vars
  BY <1>0 DEF TypeOK, vars
<1>h. ASSUME NEW v \in VM
      PROVE  /\ app[v] \in AppType /\ run[v] \in RunType
             /\ loads[v] \in Nat /\ writes[v] \in Nat /\ reads[v] \in Nat
             /\ app[v].rx_buf \in Nat
  BY AppFields DEF TypeOK
<1>1. ASSUME NEW v \in VM, Probe(v) PROVE TypeOK'
  <2>1. app' \in [VM -> AppType]
    BY <1>1, <1>h, AppSteps DEF Probe, TypeOK
  <2>2. box' \in [VM -> [Regs -> Commands]]
    BY <1>1, CommandTyped DEF Probe, TypeOK
  <2>3. buf' \in [VM -> [payload: Nat, len: Lens \cup {0}]]
    BY <1>1 DEF Probe, TypeOK, NoFrame
  <2>4. loads' \in [VM -> Nat]
    BY <1>1, <1>h, SMT DEF Probe, TypeOK
  <2>5. Attached(Peer(v)) \in BOOLEAN
    BY DEF Attached
  <2>6. irq' \in [VM -> BOOLEAN]
    BY <1>1, <2>5 DEF Probe, TypeOK
  <2> QED BY <1>1, <2>1, <2>2, <2>3, <2>4, <2>6 DEF Probe, TypeOK
<1>2. ASSUME NEW v \in VM, SetRemoved(v) PROVE TypeOK'
  <2>1. app' \in [VM -> AppType]
    <3>1. app' = [app EXCEPT ![v] = [app[v] EXCEPT !.removed = TRUE,
                                                   !.peer_ready = FALSE]]
      BY <1>2 DEF SetRemoved, TypeOK
    <3> QED BY <3>1, <1>h, AppSteps DEF TypeOK
  <2>2. Attached(Peer(v)) \in BOOLEAN
    BY DEF Attached
  <2>3. irq' \in [VM -> BOOLEAN]
    BY <1>2, <2>2 DEF SetRemoved, TypeOK
  <2> QED BY <1>2, <2>1, <2>3 DEF SetRemoved, TypeOK
<1>3. ASSUME NEW v \in VM, Remove(v) PROVE TypeOK'
  <2>1. app' \in [VM -> AppType]
    BY <1>3, <1>h, AppSteps DEF Remove, TypeOK
  <2> QED BY <1>3, <2>1 DEF Remove, TypeOK
<1>4. ASSUME NEW v \in VM, Event(v) PROVE TypeOK'
  BY <1>4 DEF Event, TypeOK
<1>5. ASSUME NEW v \in VM, WorkStart(v) PROVE TypeOK'
  <2>1. [app[v] EXCEPT !.link_up = TRUE] \in AppType
    BY <1>h, AppSteps
  <2>2. [[app[v] EXCEPT !.link_up = TRUE] EXCEPT !.rx_buf = loads[v]] \in AppType
    BY <2>1, <1>h, AppSteps
  <2>3. [app[v] EXCEPT !.link_up = FALSE, !.peer_ready = FALSE] \in AppType
    BY <1>h, AppSteps
  <2>4. \/ app' = app
        \/ \E a \in AppType : app' = [app EXCEPT ![v] = a]
    BY <1>5, <2>1, <2>2, <2>3 DEF WorkStart
  <2>5. app' \in [VM -> AppType]
    BY <2>4 DEF TypeOK
  <2>6. \/ run' = run
        \/ run' = [run EXCEPT ![v] = [Free EXCEPT !.by = "work", !.pc = "drain"]]
    BY <1>5 DEF WorkStart
  <2>7. run' \in [VM -> RunType]
    BY <2>6, FreeTyped DEF TypeOK
  <2> QED BY <1>5, <2>5, <2>7 DEF WorkStart, TypeOK
<1>6. ASSUME NEW v \in VM, Receive(v) PROVE TypeOK'
  <2>1. box[v]["LOW"].data \in Nat
    BY SMT DEF TypeOK, Regs, Commands
  <2>2. buf[v].len \in Lens \cup {0}
    BY DEF TypeOK
  <2> DEFINE data == box[v]["LOW"].data
  <2>3. CompleteRx(v, app[v], data) \in AppType
    <3>1. CASE buf[v].len = data
      <4>1. [app[v] EXCEPT !.rx_avail = TRUE, !.rx_len = data] \in AppType
        BY <3>1, <2>2, <1>h, AppSteps
      <4> QED BY <3>1, <4>1 DEF CompleteRx
    <3>2. CASE buf[v].len # data
      BY <3>2, <1>h DEF CompleteRx
    <3> QED BY <3>1, <3>2
  <2>4. /\ [app[v] EXCEPT !.peer_size = data] \in AppType
        /\ [app[v] EXCEPT !.peer_xlat = data] \in AppType
    BY <2>1, <1>h, AppSteps
  <2>5. ASSUME NEW ok \in Outcomes
        PROVE  Handled(v, box[v]["CMD"].cmd, data, ok) \in AppType
    <3>1. /\ TrySetupPeer([app[v] EXCEPT !.peer_size = data], ok) \in AppType
          /\ TrySetupPeer([app[v] EXCEPT !.peer_xlat = data], ok) \in AppType
      BY <2>4, OutcomesTyped, SetupTyped
    <3> HIDE DEF data
    <3> QED BY <3>1, <2>3, <1>h DEF Handled
  <2>6. app' \in [VM -> AppType]
    <3>1. PICK ok \in Outcomes :
            app' = [app EXCEPT ![v] = Handled(v, box[v]["CMD"].cmd, data, ok)]
      BY <1>6 DEF Receive
    <3>2. Handled(v, box[v]["CMD"].cmd, data, ok) \in AppType
      BY <2>5
    <3> QED BY <3>1, <3>2 DEF TypeOK
  <2>7. box' \in [VM -> [Regs -> Commands]]
    BY <1>6, CommandTyped DEF Receive, TypeOK
  <2> QED BY <1>6, <2>6, <2>7 DEF Receive, TypeOK
<1>7. ASSUME NEW v \in VM, Drained(v) PROVE TypeOK'
  <2>1. Command("SIZE", app[v].rx_buf) \in Commands
    BY <1>h, CommandTyped
  <2>2. run' \in [VM -> RunType]
    <3>1. CASE app[v].peer_ready
      BY <1>7, <3>1, FreeTyped DEF Drained, Release, TypeOK
    <3>2. CASE ~app[v].peer_ready
      <4>1. run' = [run EXCEPT ![v] = [run[v] EXCEPT !.pc = "low",
                                         !.cmd = Command("SIZE", app[v].rx_buf)]]
        BY <1>7, <3>2 DEF Drained, Send, TypeOK
      <4> QED BY <4>1, <2>1, <1>h, RunFields DEF TypeOK
    <3> QED BY <3>1, <3>2
  <2> QED BY <1>7, <2>2 DEF Drained, TypeOK
<1>g. ASSUME NEW v \in VM, NEW p \in {"idle", "drain", "low", "high", "cmd", "header"},
             Goto(v, p)
      PROVE  run' \in [VM -> RunType]
  <2>1. run' = [run EXCEPT ![v] = [run[v] EXCEPT !.pc = p]]
    BY <1>g DEF Goto, TypeOK
  <2> QED BY <2>1, <1>h, RunFields DEF TypeOK
<1>s. ASSUME NEW v \in VM, NEW r \in Regs, Store(v, r)
      PROVE  box' \in [VM -> [Regs -> Commands]]
  BY <1>s, <1>h, RunFields DEF Store, TypeOK
<1>8. ASSUME NEW v \in VM, SendLow(v) PROVE TypeOK'
  <2>1. run' \in [VM -> RunType] /\ box' \in [VM -> [Regs -> Commands]]
    BY <1>8, <1>g, <1>s DEF SendLow, Regs
  <2> QED BY <1>8, <2>1 DEF SendLow, TypeOK
<1>9. ASSUME NEW v \in VM, SendHigh(v) PROVE TypeOK'
  <2>1. run' \in [VM -> RunType]
    BY <1>9, <1>g DEF SendHigh
  <2>2. box' \in [VM -> [Regs -> Commands]]
    BY <1>9, <1>s DEF SendHigh, Regs, TypeOK
  <2> QED BY <1>9, <2>1, <2>2 DEF SendHigh, TypeOK
<1>10. ASSUME NEW v \in VM, SendCmd(v) PROVE TypeOK'
  <2>1. CASE Empties(v, "CMD")
    <3>1. Store(v, "CMD") /\ Sent(v)
      BY <1>10, <2>1 DEF SendCmd
    <3>2. box' \in [VM -> [Regs -> Commands]]
      BY <3>1, <1>s DEF Regs
    <3>3. Attached(Peer(v)) \in BOOLEAN
      BY DEF Attached
    <3>4. irq' \in [VM -> BOOLEAN]
      BY <3>1, <3>3 DEF Sent, TypeOK
    <3>5. run' \in [VM -> RunType]
      <4>1. CASE run[v].cmd.cmd = "SIZE"
        <5>1. run' = [run EXCEPT ![v] = [run[v] EXCEPT !.pc = "low",
                                         !.cmd = Command("XLAT", app[v].rx_buf)]]
          BY <3>1, <4>1 DEF Sent, Send, TypeOK
        <5>2. Command("XLAT", app[v].rx_buf) \in Commands
          BY <1>h, CommandTyped
        <5> QED BY <5>1, <5>2, <1>h, RunFields DEF TypeOK
      <4>2. CASE run[v].cmd.cmd # "SIZE"
        BY <3>1, <4>2, FreeTyped DEF Sent, Release, TypeOK
      <4> QED BY <4>1, <4>2
    <3>6. writes' \in [VM -> Nat] /\ turn' \in VM \cup {0}
      <4>1. writes[v] + 1 \in Nat
        BY <1>h, SMT
      <4>2. CASE run[v].by = "tx"
        <5>1. writes' = [writes EXCEPT ![v] = writes[v] + 1] /\ turn' = 0
          BY <3>1, <4>2 DEF Sent
        <5> QED BY <4>1, <5>1 DEF TypeOK
      <4>3. CASE run[v].by # "tx"
        BY <3>1, <4>3 DEF Sent, TypeOK
      <4> QED BY <4>2, <4>3
    <3> QED BY <1>10, <3>2, <3>4, <3>5, <3>6 DEF SendCmd, TypeOK
  <2>2. CASE ~Empties(v, "CMD")
    <3>1. run' \in [VM -> RunType]
      BY <1>10, <2>2, <1>g DEF SendCmd
    <3> QED BY <1>10, <2>2, <3>1 DEF SendCmd, TypeOK
  <2> QED BY <2>1, <2>2
<1>11. ASSUME NEW v \in VM, SendFail(v) PROVE TypeOK'
  <2>1. run' \in [VM -> RunType]
    BY <1>11, FreeTyped DEF SendFail, Release, TypeOK
  <2> QED BY <1>11, <2>1 DEF SendFail, TypeOK
<1>12. ASSUME NEW v \in VM, NEW len \in Lens, Commit(v, len) PROVE TypeOK'
  <2>0. buf[Peer(v)] \in [payload: Nat, len: Lens \cup {0}]
    BY DEF TypeOK
  <2>1. len \in Nat
    BY AppConstants
  <2>2. run' = [run EXCEPT ![v] = [run[v] EXCEPT !.pc = "low",
                                                 !.cmd = Command("KICK", len)]]
    BY <1>12 DEF Commit, Send, TypeOK
  <2>3. Command("KICK", len) \in Commands
    BY <2>1, CommandTyped
  <2>4. run' \in [VM -> RunType]
    BY <2>2, <2>3, <1>h, RunFields DEF TypeOK
  <2>5. buf' \in [VM -> [payload: Nat, len: Lens \cup {0}]]
    <3>1. [buf[Peer(v)] EXCEPT !.len = len] \in [payload: Nat, len: Lens \cup {0}]
      BY <2>0
    <3>2. CASE Reaches(v)
      <4>1. buf' = [buf EXCEPT ![Peer(v)] = [buf[Peer(v)] EXCEPT !.len = len]]
        BY <1>12, <3>2 DEF Commit
      <4> QED BY <4>1, <3>1 DEF TypeOK
    <3>3. CASE ~Reaches(v)
      BY <1>12, <3>3 DEF Commit, TypeOK
    <3> QED BY <3>2, <3>3
  <2> QED BY <1>12, <2>4, <2>5 DEF Commit, TypeOK
<1>13. ASSUME NEW v \in VM, Write(v) PROVE TypeOK'
  <2>1. run' \in [VM -> RunType]
    BY <1>13, FreeTyped DEF Write, TypeOK
  <2>2. buf' \in [VM -> [payload: Nat, len: Lens \cup {0}]]
    <3>1. /\ writes[v] + 1 \in Nat
          /\ buf[Peer(v)] \in [payload: Nat, len: Lens \cup {0}]
      BY <1>h, SMT DEF TypeOK
    <3>2. [buf[Peer(v)] EXCEPT !.payload = writes[v] + 1]
            \in [payload: Nat, len: Lens \cup {0}]
      BY <3>1
    <3>3. CASE Reaches(v)
      <4>1. buf' = [buf EXCEPT ![Peer(v)] =
                      [buf[Peer(v)] EXCEPT !.payload = writes[v] + 1]]
        BY <1>13, <3>3 DEF Write
      <4> QED BY <4>1, <3>2 DEF TypeOK
    <3>4. CASE ~Reaches(v)
      BY <1>13, <3>4 DEF Write, TypeOK
    <3> QED BY <3>3, <3>4
  <2> QED BY <1>13, <2>1, <2>2 DEF Write, TypeOK
<1>14. ASSUME NEW v \in VM, ReadCopy(v) PROVE TypeOK'
  BY <1>14 DEF ReadCopy, TypeOK
<1>15. ASSUME NEW v \in VM, ReadDone(v) PROVE TypeOK'
  <2>1. app' = [app EXCEPT ![v] = [app[v] EXCEPT !.rx_avail = FALSE, !.rx_len = 0]]
    BY <1>15 DEF ReadDone, TypeOK
  <2>2. app' \in [VM -> AppType]
    BY <2>1, <1>h, AppSteps DEF TypeOK
  <2> QED BY <1>15, <1>h, <2>2, SMT DEF ReadDone, TypeOK
<1> QED
  BY <1>0, <1>1, <1>2, <1>3, <1>4, <1>5, <1>6, <1>7, <1>8, <1>9, <1>10, <1>11,
     <1>12, <1>13, <1>14, <1>15 DEF Next, Holder, Reader

\* The driver's structures, the registers and the bookkeeping keep their types,
\* in particular rx_len is the length of a frame that a peer announced.
THEOREM AppTypeCorrect == Spec => []TypeOK
<1>1. Init => TypeOK
  BY TypeInit
<1>2. TypeOK /\ [Next]_vars => TypeOK'
  BY TypeStep
<1> QED BY <1>1, <1>2, PTL DEF Spec
-----------------------------------------------------------------------------
(***************************************************************************)
(* The registers.  RegistersInv is inductive with one more fact: nobody is *)
(* inside send_cmd without holding the lock.                               *)
(***************************************************************************)
LockInv == \A v \in VM : run[v].by = "none" => run[v].pc = "idle"

Inv == TypeOK /\ LockInv /\ RegistersInv

LEMMA LockStep == TypeOK /\ LockInv /\ [Next]_vars => LockInv'
<1> SUFFICES ASSUME TypeOK, LockInv, [Next]_vars PROVE LockInv'
  OBVIOUS
<1>0. /\ Free.by = "none" /\ Free.pc = "idle"
      /\ [Free EXCEPT !.by = "work", !.pc = "drain"].by = "work"
      /\ [Free EXCEPT !.by = "tx", !.pc = "header"].by = "tx"
  BY DEF Free
<1>1. ASSUME NEW v \in VM, run' = run \/ \E x : run' = [run EXCEPT ![v] = x] /\
                              (x.by = "none" => x.pc = "idle")
      PROVE  LockInv'
  BY <1>1 DEF LockInv, TypeOK
<1>2. ASSUME NEW v \in VM, NEW p, Goto(v, p), run[v].by # "none"
      PROVE  LockInv'
  <2>1. run' = [run EXCEPT ![v] = [run[v] EXCEPT !.pc = p]]
    BY <1>2 DEF Goto
  <2>2. [run[v] EXCEPT !.pc = p].by = run[v].by
    BY SMT DEF TypeOK, RunType
  <2> QED BY <1>2, <2>1, <2>2, <1>1
<1>3. ASSUME NEW v \in VM, NEW c, NEW d, Send(v, c, d), run[v].by # "none"
      PROVE  LockInv'
  <2>1. run' = [run EXCEPT ![v] = [run[v] EXCEPT !.pc = "low", !.cmd = Command(c, d)]]
    BY <1>3 DEF Send
  <2>2. [run[v] EXCEPT !.pc = "low", !.cmd = Command(c, d)].by = run[v].by
    BY SMT DEF TypeOK, RunType
  <2> QED BY <1>3, <2>1, <2>2, <1>1
<1>4. ASSUME NEW v \in VM, Release(v) PROVE LockInv'
  BY <1>4, <1>0, <1>1 DEF Release
<1>5. ASSUME NEW v \in VM, NEW p, At(v, p), p # "idle" PROVE run[v].by # "none"
  BY <1>5 DEF At, LockInv
<1>6. CASE UNCHANGED vars
  BY <1>6 DEF vars, LockInv
<1>7. ASSUME NEW v \in VM, WorkStart(v) PROVE LockInv'
  <2>1. \/ run' = run
        \/ run' = [run EXCEPT ![v] = [Free EXCEPT !.by = "work", !.pc = "drain"]]
    BY <1>7 DEF WorkStart
  <2> QED BY <2>1, <1>0, <1>1
<1>8. ASSUME NEW v \in VM, Write(v) PROVE LockInv'
  BY <1>8, <1>0, <1>1 DEF Write
<1>9. ASSUME NEW v \in VM, Holder(v) PROVE LockInv'
  <2>1. CASE Receive(v)
    BY <2>1, <1>1 DEF Receive
  <2>2. CASE Drained(v)
    BY <2>2, <1>3, <1>4, <1>5 DEF Drained
  <2>3. CASE SendLow(v)
    BY <2>3, <1>2, <1>5 DEF SendLow
  <2>4. CASE SendHigh(v)
    BY <2>4, <1>2, <1>5 DEF SendHigh
  <2>5. CASE SendCmd(v)
    BY <2>5, <1>2, <1>3, <1>4, <1>5 DEF SendCmd, Sent
  <2>6. CASE SendFail(v)
    BY <2>6, <1>4 DEF SendFail
  <2>7. ASSUME NEW len \in Lens, Commit(v, len) PROVE LockInv'
    BY <2>7, <1>3, <1>5 DEF Commit
  <2> QED BY <1>9, <2>1, <2>2, <2>3, <2>4, <2>5, <2>6, <2>7 DEF Holder
<1>10. ASSUME NEW v \in VM, \/ Probe(v) \/ SetRemoved(v) \/ Remove(v)
                            \/ Event(v) \/ Reader(v)
       PROVE  LockInv'
  <2>1. run' = run
    BY <1>10 DEF Probe, SetRemoved, Remove, Event, Reader, ReadCopy, ReadDone
  <2> QED BY <2>1, <1>1
<1> QED BY <1>6, <1>7, <1>8, <1>9, <1>10 DEF Next

\* RegistersInv for one set of registers b and the side s that writes them.
RegistersOk(b, s) ==
  /\ s.pc = "high" => b["LOW"] = s.cmd /\ b["HIGH"] = Empty /\ b["CMD"] = Empty
  /\ s.pc = "cmd" => b["LOW"] = s.cmd /\ b["HIGH"] = s.cmd /\ b["CMD"] = Empty
  /\ s.pc \notin {"high", "cmd"} => b["LOW"] = b["CMD"] /\ b["HIGH"] = b["CMD"]

LEMMA RegistersSplit ==
  RegistersInv <=> \A v \in VM : RegistersOk(box[v], run[Peer(v)])
  BY DEF RegistersInv, RegistersOk

LEMMA RegistersStep == Inv /\ [Next]_vars => RegistersInv'
<1> SUFFICES ASSUME Inv, [Next]_vars PROVE RegistersInv'
  OBVIOUS
<1> USE PeerFacts
<1>a. TypeOK /\ LockInv /\ \A v \in VM : RegistersOk(box[v], run[Peer(v)])
  BY RegistersSplit DEF Inv
<1>b. ASSUME \A v \in VM : RegistersOk(box'[v], run'[Peer(v)])
      PROVE  RegistersInv'
  BY <1>b DEF RegistersInv, RegistersOk
\* A step that leaves the registers alone and lets v go from one point outside
\* the writes to another.
<1>c. ASSUME NEW v \in VM, NEW x, run' = [run EXCEPT ![v] = x], UNCHANGED box,
             run[v].pc \notin {"high", "cmd"}, x.pc \notin {"high", "cmd"}
      PROVE  RegistersInv'
  <2>1. ASSUME NEW w \in VM PROVE RegistersOk(box'[w], run'[Peer(w)])
    <3>1. CASE w = v
      BY <1>a, <1>c, <3>1 DEF TypeOK
    <3>2. CASE w = Peer(v)
      <4>1. RegistersOk(box[w], run[v])
        BY <1>a, <3>2
      <4>2. box'[w] = box[w] /\ run'[Peer(w)] = x
        BY <1>c, <3>2 DEF TypeOK, Inv
      <4> QED BY <1>c, <4>1, <4>2 DEF RegistersOk
    <3> QED BY <3>1, <3>2, TwoVMs
  <2> QED BY <2>1, <1>b
\* A step that empties the registers of v while its peer is not writing them.
<1>d. ASSUME NEW v \in VM, UNCHANGED run,
             box' = [box EXCEPT ![v] = [r \in Regs |-> Empty]],
             run[Peer(v)].pc \notin {"high", "cmd"}
      PROVE  RegistersInv'
  <2>1. ASSUME NEW w \in VM PROVE RegistersOk(box'[w], run'[Peer(w)])
    <3>1. CASE w = v
      <4>1. box'[w] = [r \in Regs |-> Empty]
        BY <1>d, <3>1, <1>a DEF TypeOK
      <4> QED BY <4>1, <1>d, <3>1 DEF RegistersOk, Regs
    <3>2. CASE w = Peer(v)
      BY <1>a, <1>d, <3>2 DEF TypeOK
    <3> QED BY <3>1, <3>2, TwoVMs
  <2> QED BY <2>1, <1>b
\* A register write of v, which takes it to the next point.
<1>e. ASSUME NEW v \in VM, NEW r \in Regs, NEW x, Store(v, r),
             run' = [run EXCEPT ![v] = x],
             RegistersOk([box[Peer(v)] EXCEPT ![r] = run[v].cmd], x)
      PROVE  RegistersInv'
  <2>1. ASSUME NEW w \in VM PROVE RegistersOk(box'[w], run'[Peer(w)])
    <3>1. CASE w = v
      BY <1>a, <1>e, <3>1 DEF TypeOK, Store
    <3>2. CASE w = Peer(v)
      <4>1. /\ box'[w] = [box[Peer(v)] EXCEPT ![r] = run[v].cmd]
            /\ run'[Peer(w)] = x
        BY <1>a, <1>e, <3>2 DEF TypeOK, Store
      <4> QED BY <4>1, <1>e
    <3> QED BY <3>1, <3>2, TwoVMs
  <2> QED BY <2>1, <1>b
<1>f. ASSUME NEW v \in VM
      PROVE  /\ run[v] \in RunType
             /\ \A p : [run[v] EXCEPT !.pc = p].pc = p
             /\ \A p : [run[v] EXCEPT !.pc = p].cmd = run[v].cmd
             /\ \A p, c : [run[v] EXCEPT !.pc = p, !.cmd = c].pc = p
             /\ Free.pc = "idle" /\ [Free EXCEPT !.by = "work", !.pc = "drain"].pc = "drain"
             /\ [Free EXCEPT !.by = "tx", !.pc = "header"].pc = "header"
             /\ box[v] \in [Regs -> Commands]
  BY <1>a, SMT DEF TypeOK, RunType, Free
<1>g. ASSUME NEW v \in VM, Unlocked(v) PROVE run[v].pc = "idle"
  BY <1>a, <1>g DEF LockInv, Unlocked
<1>k. ASSUME UNCHANGED <<run, box>> PROVE RegistersInv'
  BY <1>a, <1>b, <1>k
<1>0. CASE UNCHANGED vars
  BY <1>0, <1>k DEF vars
<1>1. ASSUME NEW v \in VM, Probe(v) PROVE RegistersInv'
  BY <1>1, <1>d DEF Probe
<1>2. ASSUME NEW v \in VM, \/ SetRemoved(v) \/ Remove(v) \/ Event(v) \/ Reader(v)
      PROVE  RegistersInv'
  BY <1>2, <1>k DEF SetRemoved, Remove, Event, Reader, ReadCopy, ReadDone
<1>3. ASSUME NEW v \in VM, WorkStart(v) PROVE RegistersInv'
  <2>1. \/ run' = run
        \/ run' = [run EXCEPT ![v] = [Free EXCEPT !.by = "work", !.pc = "drain"]]
    BY <1>3 DEF WorkStart
  <2>2. UNCHANGED box /\ Unlocked(v)
    BY <1>3 DEF WorkStart
  <2> QED BY <2>1, <2>2, <1>c, <1>f, <1>g, <1>k
<1>4. ASSUME NEW v \in VM, Write(v) PROVE RegistersInv'
  BY <1>4, <1>c, <1>f, <1>g DEF Write
<1>5. ASSUME NEW v \in VM, Receive(v) PROVE RegistersInv'
  <2>1. RegistersOk(box[v], run[Peer(v)]) /\ box[v]["CMD"] # Empty
    BY <1>5, <1>a DEF Receive, Full, Regs
  <2>2. run[Peer(v)].pc \notin {"high", "cmd"}
    BY <2>1 DEF RegistersOk
  <2> QED BY <1>5, <2>2, <1>d DEF Receive
<1>6. ASSUME NEW v \in VM, NEW c, NEW d, Send(v, c, d), UNCHANGED box,
             run[v].pc \notin {"high", "cmd"}
      PROVE  RegistersInv'
  <2>1. run' = [run EXCEPT ![v] = [run[v] EXCEPT !.pc = "low", !.cmd = Command(c, d)]]
    BY <1>6 DEF Send
  <2>2. [run[v] EXCEPT !.pc = "low", !.cmd = Command(c, d)].pc = "low"
    BY <1>f DEF RunType
  <2> QED BY <1>6, <2>1, <2>2, <1>c
<1>7. ASSUME NEW v \in VM, Drained(v) PROVE RegistersInv'
  BY <1>7, <1>6, <1>c, <1>f DEF Drained, Release, At
<1>8. ASSUME NEW v \in VM, SendFail(v) PROVE RegistersInv'
  BY <1>8, <1>c, <1>f DEF SendFail, Release, At
<1>9. ASSUME NEW v \in VM, NEW len \in Lens, Commit(v, len) PROVE RegistersInv'
  BY <1>9, <1>6 DEF Commit, At
<1>10. ASSUME NEW v \in VM, SendLow(v) PROVE RegistersInv'
  <2> DEFINE x == [run[v] EXCEPT !.pc = "high"]
             b == [box[Peer(v)] EXCEPT !["LOW"] = run[v].cmd]
  <2>1. RegistersOk(box[Peer(v)], run[v]) /\ run[v].pc = "low"
    BY <1>10, <1>a DEF SendLow, At
  <2>2. box[Peer(v)]["HIGH"] = Empty /\ box[Peer(v)]["CMD"] = Empty
    BY <1>10, <2>1 DEF SendLow, Empties, RegistersOk
  <2>3. b["LOW"] = run[v].cmd /\ b["HIGH"] = Empty /\ b["CMD"] = Empty
    BY <2>2, <1>f, SMT DEF Regs
  <2>4. RegistersOk(b, x)
    BY <2>3, <1>f, SMT DEF RegistersOk
  <2> QED BY <1>10, <2>4, <1>e DEF SendLow, Goto, Regs
<1>11. ASSUME NEW v \in VM, SendHigh(v) PROVE RegistersInv'
  <2> DEFINE x == [run[v] EXCEPT !.pc = "cmd"]
             b == [box[Peer(v)] EXCEPT !["HIGH"] = run[v].cmd]
  <2>1. RegistersOk(box[Peer(v)], run[v]) /\ run[v].pc = "high"
    BY <1>11, <1>a DEF SendHigh, At
  <2>2. /\ box[Peer(v)]["LOW"] = run[v].cmd
        /\ box[Peer(v)]["HIGH"] = Empty /\ box[Peer(v)]["CMD"] = Empty
    BY <2>1 DEF RegistersOk
  <2>3. b["LOW"] = run[v].cmd /\ b["HIGH"] = run[v].cmd /\ b["CMD"] = Empty
    BY <2>2, <1>f, SMT DEF Regs
  <2>4. RegistersOk(b, x)
    BY <2>3, <1>f, SMT DEF RegistersOk
  <2> QED BY <1>11, <2>2, <2>4, <1>e DEF SendHigh, Empties, Goto, Regs
<1>12. ASSUME NEW v \in VM, SendCmd(v) PROVE RegistersInv'
  <2> DEFINE b == [box[Peer(v)] EXCEPT !["CMD"] = run[v].cmd]
  <2>1. RegistersOk(box[Peer(v)], run[v]) /\ run[v].pc = "cmd"
    BY <1>12, <1>a DEF SendCmd, At
  <2>2. /\ box[Peer(v)]["LOW"] = run[v].cmd
        /\ box[Peer(v)]["HIGH"] = run[v].cmd /\ box[Peer(v)]["CMD"] = Empty
    BY <2>1 DEF RegistersOk
  <2>3. b["LOW"] = run[v].cmd /\ b["HIGH"] = run[v].cmd /\ b["CMD"] = run[v].cmd
    BY <2>2, <1>f, SMT DEF Regs
  <2>4. ASSUME NEW x, x.pc \notin {"high", "cmd"} PROVE RegistersOk(b, x)
    BY <2>3, <2>4 DEF RegistersOk
  <2>5. PICK x : run' = [run EXCEPT ![v] = x] /\ x.pc \notin {"high", "cmd"}
    <3>1. \/ Release(v)
          \/ Send(v, "XLAT", app[v].rx_buf)
      BY <1>12, <2>2 DEF SendCmd, Sent, Empties
    <3>2. CASE Release(v)
      BY <3>2, <1>f DEF Release
    <3>3. CASE Send(v, "XLAT", app[v].rx_buf)
      <4>1. run' = [run EXCEPT ![v] = [run[v] EXCEPT !.pc = "low",
                                         !.cmd = Command("XLAT", app[v].rx_buf)]]
        BY <3>3 DEF Send
      <4>2. [run[v] EXCEPT !.pc = "low",
                           !.cmd = Command("XLAT", app[v].rx_buf)].pc = "low"
        BY <1>f DEF RunType
      <4> QED BY <4>1, <4>2
    <3> QED BY <3>1, <3>2, <3>3
  <2>6. Store(v, "CMD")
    BY <1>12, <2>2 DEF SendCmd, Empties
  <2> QED BY <2>4, <2>5, <2>6, <1>e DEF Regs
<1> QED
  BY <1>0, <1>1, <1>2, <1>3, <1>4, <1>5, <1>7, <1>8, <1>9, <1>10, <1>11, <1>12
     DEF Next, Holder

LEMMA InvAlways == Spec => []Inv
<1>1. Init => Inv
  <2> SUFFICES ASSUME Init PROVE Inv
    OBVIOUS
  <2>1. \A v \in VM : run[v] = Free /\ run[Peer(v)] = Free
    BY PeerFacts DEF Init
  <2>2. \A v \in VM, r \in Regs : box[v][r] = Empty
    BY DEF Init
  <2>3. Free.pc = "idle"
    BY DEF Free
  <2>4. LockInv
    BY <2>1, <2>3 DEF LockInv
  <2>5. \A v \in VM : RegistersOk(box[v], run[Peer(v)])
    BY <2>1, <2>2, <2>3 DEF RegistersOk, Regs
  <2> QED BY TypeInit, RegistersSplit, <2>4, <2>5 DEF Inv
<1>2. Inv /\ [Next]_vars => Inv'
  BY TypeStep, LockStep, RegistersStep DEF Inv
<1> QED BY <1>1, <1>2, PTL DEF Spec

\* The invariant behind CommandIntact: the three registers are written as one
\* unit by a sender that holds app->lock, and emptied as one unit by recv_cmd.
THEOREM RegistersCorrect == Spec => []RegistersInv
<1>1. Inv => RegistersInv
  BY DEF Inv
<1> QED BY <1>1, InvAlways, PTL

\* recv_cmd never assembles a command from registers of two different ones.
THEOREM CommandsIntact == Spec => []CommandIntact
<1>1. RegistersInv => CommandIntact
  BY PeerFacts DEF RegistersInv, CommandIntact, Full, Regs
<1> QED BY <1>1, RegistersCorrect, PTL
-----------------------------------------------------------------------------
(***************************************************************************)
(* Windows, for modules that are loaded once and stay.  h says that the    *)
(* peer has its inbound buffer: it gets one and keeps it, so what it       *)
(* announced stays true.                                                   *)
(***************************************************************************)
LoadedOnce == \A v \in VM : MaxLoads[v] <= 1

AppOk(a, n, h) ==
  /\ n \in {0, 1} /\ (a.loaded <=> n = 1) /\ ~a.removed
  /\ ~a.loaded => ~a.peer_io /\ ~a.peer_ready
  /\ a.rx_buf \in {0, n}
  /\ a.peer_size \in {0, 1} /\ a.peer_xlat \in {0, 1}
  /\ a.peer_size = 1 \/ a.peer_xlat = 1 => h
  /\ a.peer_io => a.peer_size = 1 /\ a.peer_xlat = 1
  /\ ~Faults /\ a.peer_ready => a.peer_io

\* What the holder of the lock is sending.
RunOk(x, a) ==
  /\ x.by # "none" => a.loaded
  /\ x.by = "work" =>
       /\ a.rx_buf = 1 /\ x.pc \in {"drain", "low", "high", "cmd"}
       /\ x.pc # "drain" => x.cmd.cmd \in {"SIZE", "XLAT"} /\ x.cmd.data = 1
  /\ x.by = "tx" =>
       /\ a.peer_io /\ x.pc \in {"header", "low", "high", "cmd"}
       /\ x.pc # "header" => x.cmd.cmd = "KICK"

BoxOk(b, h) == \A r \in Regs : b[r].cmd \in {"SIZE", "XLAT"} => b[r].data = 1 /\ h

Has(v) == app[v].rx_buf = 1
WinOf(v) ==
  /\ AppOk(app[v], loads[v], Has(Peer(v)))
  /\ RunOk(run[v], app[v])
  /\ BoxOk(box[v], Has(Peer(v)))
  /\ pending[v] \/ irq[v] => app[v].loaded
WinInv == \A v \in VM : WinOf(v)

\* A step of v: what it has to show for itself, and for the registers it writes.
LEMMA WinFrom ==
  ASSUME WinInv, NEW v \in VM,
         app'[Peer(v)] = app[Peer(v)], run'[Peer(v)] = run[Peer(v)],
         loads'[Peer(v)] = loads[Peer(v)],
         pending'[Peer(v)] \/ irq'[Peer(v)] => app[Peer(v)].loaded,
         BoxOk(box'[Peer(v)], Has(v)),
         Has(v) => Has(v)',
         AppOk(app'[v], loads'[v], Has(Peer(v))), RunOk(run'[v], app'[v]),
         BoxOk(box'[v], Has(Peer(v))),
         pending'[v] \/ irq'[v] => app'[v].loaded
  PROVE  WinInv'
<1> DEFINE w == Peer(v)
<1>1. w \in VM /\ Peer(w) = v /\ WinOf(w)
  BY PeerFacts DEF WinInv
<1>2. Has(w)' = Has(w)
  BY DEF Has
<1>3. WinOf(v)'
  BY <1>2 DEF WinOf
<1>4. AppOk(app'[w], loads'[w], Has(v)')
  BY <1>1 DEF WinOf, AppOk
<1>5. BoxOk(box'[w], Has(v)')
  BY <1>1 DEF BoxOk
<1>6. WinOf(w)'
  BY <1>1, <1>4, <1>5 DEF WinOf
<1> QED BY <1>3, <1>6, TwoVMs DEF WinInv

\* The driver's structure after each of its updates.
LEMMA AppOkSteps ==
  ASSUME NEW a \in AppType, NEW n, NEW h \in BOOLEAN, AppOk(a, n, h), a.loaded
  PROVE  /\ AppOk([a EXCEPT !.link_up = TRUE], n, h)
         /\ AppOk([a EXCEPT !.link_up = FALSE, !.peer_ready = FALSE], n, h)
         /\ AppOk([[a EXCEPT !.link_up = TRUE] EXCEPT !.rx_buf = n], n, h)
         /\ \A l : AppOk([a EXCEPT !.rx_avail = TRUE, !.rx_len = l], n, h)
         /\ h => AppOk([a EXCEPT !.peer_size = 1], n, h)
         /\ h => AppOk([a EXCEPT !.peer_xlat = 1], n, h)
BY DEF AppOk, AppType

LEMMA AppOkRead ==
  ASSUME NEW a \in AppType, NEW n, NEW h \in BOOLEAN, AppOk(a, n, h)
  PROVE  AppOk([a EXCEPT !.rx_avail = FALSE, !.rx_len = 0], n, h)
BY DEF AppOk, AppType

LEMMA SetupOk ==
  ASSUME NEW a \in AppType, NEW n, NEW h \in BOOLEAN, AppOk(a, n, h), a.loaded,
         NEW ok \in Outcomes
  PROVE  /\ AppOk(TrySetupPeer(a, ok), n, h)
         /\ TrySetupPeer(a, ok).rx_buf = a.rx_buf /\ TrySetupPeer(a, ok).loaded
<1>1. CASE a.peer_xlat = 0 \/ a.peer_size = 0
  BY <1>1 DEF TrySetupPeer
<1>2. CASE a.peer_xlat # 0 /\ a.peer_size # 0 /\ ok
  <2>1. TrySetupPeer(a, ok) = [a EXCEPT !.peer_ready = TRUE, !.peer_io = TRUE]
    BY <1>2 DEF TrySetupPeer
  <2> QED BY <1>2, <2>1 DEF AppOk, AppType
<1>3. CASE a.peer_xlat # 0 /\ a.peer_size # 0 /\ ~ok
  <2>1. TrySetupPeer(a, ok) = [a EXCEPT !.peer_io = FALSE, !.peer_size = 0, !.peer_xlat = 0]
    BY <1>3 DEF TrySetupPeer
  <2>2. Faults
    BY <1>3, OutcomesTyped DEF Outcomes
  <2> QED BY <2>1, <2>2 DEF AppOk, AppType
<1> QED BY <1>1, <1>2, <1>3

\* What recv_cmd hands on, when the registers hold one command.
LEMMA HandledOk ==
  ASSUME NEW v \in VM, app[v] \in AppType, NEW n, NEW h \in BOOLEAN,
         AppOk(app[v], n, h), app[v].loaded, NEW ok \in Outcomes,
         NEW c \in Commands, c.cmd \in {"SIZE", "XLAT"} => c.data = 1 /\ h
  PROVE  LET a == Handled(v, c.cmd, c.data, ok)
         IN  AppOk(a, n, h) /\ a.rx_buf = app[v].rx_buf /\ a.loaded
<1> DEFINE a == app[v]
<1>0. a \in AppType /\ AppOk(a, n, h) /\ a.loaded
  OBVIOUS
<1>1. CASE c.cmd = "SIZE"
  <2> DEFINE b == [a EXCEPT !.peer_size = 1]
  <2>1. b \in AppType /\ AppOk(b, n, h) /\ b.loaded /\ b.rx_buf = a.rx_buf
    <3> HIDE DEF a
    <3> QED BY <1>0, <1>1, AppOkSteps DEF AppType
  <2>2. Handled(v, c.cmd, c.data, ok) = TrySetupPeer(b, ok)
    BY <1>1 DEF Handled
  <2> HIDE DEF b
  <2> QED BY <2>1, <2>2, SetupOk, SMT
<1>2. CASE c.cmd = "XLAT"
  <2> DEFINE b == [a EXCEPT !.peer_xlat = 1]
  <2>1. b \in AppType /\ AppOk(b, n, h) /\ b.loaded /\ b.rx_buf = a.rx_buf
    <3> HIDE DEF a
    <3> QED BY <1>0, <1>2, AppOkSteps DEF AppType
  <2>2. Handled(v, c.cmd, c.data, ok) = TrySetupPeer(b, ok)
    BY <1>2 DEF Handled
  <2> HIDE DEF b
  <2> QED BY <2>1, <2>2, SetupOk, SMT
<1>3. CASE c.cmd = "KICK"
  <2> DEFINE b == [a EXCEPT !.rx_avail = TRUE, !.rx_len = c.data]
  <2>1. AppOk(b, n, h) /\ b.loaded /\ b.rx_buf = a.rx_buf
    <3> HIDE DEF a
    <3>1. AppOk(b, n, h)
      BY <1>0, AppOkSteps
    <3>2. b.loaded /\ b.rx_buf = a.rx_buf
      BY <1>0 DEF AppType
    <3> QED BY <3>1, <3>2
  <2>2. Handled(v, c.cmd, c.data, ok) \in {a, b}
    BY <1>3 DEF Handled, CompleteRx
  <2> QED BY <1>0, <2>1, <2>2
<1>4. CASE c.cmd = "none"
  BY <1>0, <1>4 DEF Handled
<1> QED BY <1>1, <1>2, <1>3, <1>4 DEF Commands

\* The holder of the lock as it moves on.
LEMMA RunOkSteps ==
  ASSUME NEW x \in RunType, NEW a, RunOk(x, a)
  PROVE  /\ RunOk(Free, a)
         /\ x.pc \in {"low", "high", "cmd"} /\ x.by # "none" =>
              \A p \in {"low", "high", "cmd"} : RunOk([x EXCEPT !.pc = p], a)
         /\ x.by = "work" => \A c \in {"SIZE", "XLAT"} :
              RunOk([x EXCEPT !.pc = "low", !.cmd = Command(c, 1)], a)
         /\ x.by = "tx" => \A d :
              RunOk([x EXCEPT !.pc = "low", !.cmd = Command("KICK", d)], a)
         /\ a.loaded /\ a.rx_buf = 1 =>
              RunOk([Free EXCEPT !.by = "work", !.pc = "drain"], a)
         /\ a.loaded /\ a.peer_io =>
              RunOk([Free EXCEPT !.by = "tx", !.pc = "header"], a)
<1>1. RunOk(Free, a)
  BY DEF RunOk, Free
<1>2. x.pc \in {"low", "high", "cmd"} /\ x.by # "none" =>
        \A p \in {"low", "high", "cmd"} : RunOk([x EXCEPT !.pc = p], a)
  BY DEF RunOk, RunType
<1>3. x.by = "work" => \A c \in {"SIZE", "XLAT"} :
        RunOk([x EXCEPT !.pc = "low", !.cmd = Command(c, 1)], a)
  BY DEF RunOk, RunType, Command
<1>4. x.by = "tx" => \A d : RunOk([x EXCEPT !.pc = "low", !.cmd = Command("KICK", d)], a)
  BY DEF RunOk, RunType, Command
<1>5. a.loaded /\ a.rx_buf = 1 => RunOk([Free EXCEPT !.by = "work", !.pc = "drain"], a)
  BY DEF RunOk, Free
<1>6. a.loaded /\ a.peer_io => RunOk([Free EXCEPT !.by = "tx", !.pc = "header"], a)
  BY DEF RunOk, Free
<1> QED BY <1>1, <1>2, <1>3, <1>4, <1>5, <1>6

\* Empty registers, and a register write of the holder of the lock.
LEMMA BoxOkSteps ==
  /\ \A h : BoxOk([r \in Regs |-> Empty], h)
  /\ \A b \in [Regs -> Commands], h, r \in Regs, c \in Commands :
       BoxOk(b, h) /\ (c.cmd \in {"SIZE", "XLAT"} => c.data = 1 /\ h)
         => BoxOk([b EXCEPT ![r] = c], h)
BY SMT DEF BoxOk, Empty, Command

\* WinInv is kept: one step per action, each with what it changes on its side.
LEMMA WinStep ==
  ASSUME LoadedOnce, Inv, WinInv, [Next]_vars
  PROVE  WinInv'
<1>a. TypeOK /\ LockInv /\ RegistersInv
  BY DEF Inv
<1>b. ASSUME NEW v \in VM
      PROVE  /\ app[v] \in AppType /\ run[v] \in RunType /\ loads[v] \in Nat
             /\ box[v] \in [Regs -> Commands] /\ run[v].cmd \in Commands
             /\ pending[v] \in BOOLEAN /\ irq[v] \in BOOLEAN
             /\ Has(v) \in BOOLEAN /\ app[v].loaded \in BOOLEAN
             /\ Peer(v) \in VM /\ Peer(v) # v
             /\ AppOk(app[v], loads[v], Has(Peer(v))) /\ RunOk(run[v], app[v])
             /\ BoxOk(box[v], Has(Peer(v)))
             /\ pending[v] \/ irq[v] => app[v].loaded
  BY <1>a, PeerFacts, RunFields DEF TypeOK, WinInv, WinOf, Has, AppType
<1>c. app \in [VM -> AppType] /\ run \in [VM -> RunType] /\ loads \in [VM -> Nat]
      /\ box \in [VM -> [Regs -> Commands]] /\ pending \in [VM -> BOOLEAN]
      /\ irq \in [VM -> BOOLEAN]
  BY <1>a DEF TypeOK
\* Steps that change only the program point of v, and may interrupt the peer.
<1>r. ASSUME NEW v \in VM, NEW x, run' = [run EXCEPT ![v] = x], RunOk(x, app[v]),
             UNCHANGED <<app, loads, pending>>,
             BoxOk(box'[v], Has(Peer(v))), BoxOk(box'[Peer(v)], Has(v)),
             irq' = irq \/ irq' = [irq EXCEPT ![Peer(v)] = Attached(Peer(v))]
      PROVE  WinInv'
  <2>1. run'[v] = x /\ run'[Peer(v)] = run[Peer(v)] /\ irq'[v] = irq[v]
    BY <1>b, <1>c, <1>r
  <2>2. irq'[Peer(v)] => app[Peer(v)].loaded
    BY <1>b, <1>c, <1>r DEF Attached
  <2>3. Has(v) => Has(v)'
    BY <1>r DEF Has
  <2>4. /\ AppOk(app[v], loads[v], Has(Peer(v))) /\ (pending[v] \/ irq[v] => app[v].loaded)
        /\ pending[Peer(v)] => app[Peer(v)].loaded
    BY <1>b
  <2>5. /\ app'[v] = app[v] /\ app'[Peer(v)] = app[Peer(v)] /\ loads'[v] = loads[v]
        /\ loads'[Peer(v)] = loads[Peer(v)] /\ pending'[v] = pending[v]
        /\ pending'[Peer(v)] = pending[Peer(v)]
    BY <1>r
  <2>6. /\ pending'[Peer(v)] \/ irq'[Peer(v)] => app[Peer(v)].loaded
        /\ pending'[v] \/ irq'[v] => app'[v].loaded
        /\ AppOk(app'[v], loads'[v], Has(Peer(v))) /\ RunOk(run'[v], app'[v])
        /\ BoxOk(box'[v], Has(Peer(v))) /\ BoxOk(box'[Peer(v)], Has(v))
    BY <1>r, <2>1, <2>2, <2>4, <2>5
  <2> QED BY <2>1, <2>3, <2>5, <2>6, WinFrom
\* Steps that change only the structure of v.
<1>s. ASSUME NEW v \in VM, NEW a, app' = [app EXCEPT ![v] = a],
             AppOk(a, loads[v], Has(Peer(v))), RunOk(run[v], a), a.loaded,
             Has(v) => a.rx_buf = 1, UNCHANGED <<run, loads, irq>>,
             pending'[Peer(v)] = pending[Peer(v)],
             BoxOk(box'[v], Has(Peer(v))), box'[Peer(v)] = box[Peer(v)]
      PROVE  WinInv'
  <2>1. app'[v] = a /\ app'[Peer(v)] = app[Peer(v)]
    BY <1>b, <1>c, <1>s
  <2>2. Has(v) => Has(v)'
    BY <1>s, <2>1 DEF Has
  <2>3. BoxOk(box'[Peer(v)], Has(v))
    BY <1>b, <1>s, PeerFacts
  <2>4. /\ pending[Peer(v)] \/ irq[Peer(v)] => app[Peer(v)].loaded
        /\ pending'[Peer(v)] = pending[Peer(v)]
    BY <1>b, <1>s
  <2>5. /\ run'[v] = run[v] /\ run'[Peer(v)] = run[Peer(v)] /\ loads'[v] = loads[v]
        /\ loads'[Peer(v)] = loads[Peer(v)] /\ irq'[Peer(v)] = irq[Peer(v)]
    BY <1>s
  <2>6. /\ pending'[Peer(v)] \/ irq'[Peer(v)] => app[Peer(v)].loaded
        /\ pending'[v] \/ irq'[v] => app'[v].loaded
        /\ AppOk(app'[v], loads'[v], Has(Peer(v))) /\ RunOk(run'[v], app'[v])
        /\ BoxOk(box'[v], Has(Peer(v)))
    BY <1>s, <2>1, <2>4, <2>5
  <2> QED BY <2>1, <2>2, <2>3, <2>5, <2>6, WinFrom
<1>0. CASE UNCHANGED vars
  BY <1>0 DEF vars, WinInv, WinOf, Has
<1>1. ASSUME NEW v \in VM, Probe(v) PROVE WinInv'
  <2> DEFINE w == Peer(v)
             a == [Unloaded EXCEPT !.loaded = TRUE]
  <2>1. ~app[v].loaded /\ loads[v] < MaxLoads[v] /\ MaxLoads[v] <= 1 /\ MaxLoads[v] \in Nat
    BY <1>1, AppConstants DEF Probe, LoadedOnce
  <2>2. loads[v] = 0
    BY <1>b, <2>1, SMT
  <2>3. /\ app'[v] = a /\ app'[w] = app[w] /\ loads'[v] = 1 /\ loads'[w] = loads[w]
        /\ box'[v] = [r \in Regs |-> Empty] /\ box'[w] = box[w]
        /\ run' = run /\ pending' = pending /\ irq'[w] = Attached(w)
    <3>1. w \in VM /\ w # v
      BY <1>b
    <3> HIDE DEF a, w
    <3>2. /\ app' = [app EXCEPT ![v] = a] /\ loads' = [loads EXCEPT ![v] = @ + 1]
          /\ box' = [box EXCEPT ![v] = [r \in Regs |-> Empty]]
          /\ run' = run /\ pending' = pending
          /\ irq' = [irq EXCEPT ![w] = Attached(w), ![v] = TRUE]
      BY <1>1 DEF Probe, a, w
    <3> QED BY <1>c, <2>2, <3>1, <3>2, SMT
  <2>4. AppOk(a, 1, Has(w)) /\ a.loaded
    <3>1. /\ a.loaded = TRUE /\ a.removed = FALSE /\ a.rx_buf = 0 /\ a.peer_size = 0
          /\ a.peer_xlat = 0 /\ a.peer_io = FALSE /\ a.peer_ready = FALSE
      BY DEF Unloaded
    <3> HIDE DEF a
    <3> QED BY <3>1, SMT DEF AppOk
  <2>5. run[v].by = "none"
    BY <1>b, <2>1 DEF RunOk
  <2>6. RunOk(run[v], a)
    BY <2>5 DEF RunOk
  <2>7. ~Has(v)
    <3>1. AppOk(app[v], loads[v], Has(Peer(v)))
      BY <1>b
    <3> QED BY <2>1, <2>2, <3>1 DEF AppOk, Has
  <2>8. BoxOk(box'[w], Has(v)) /\ BoxOk(box'[v], Has(w))
    BY <1>b, <2>3, PeerFacts, BoxOkSteps
  <2>9. pending'[w] \/ irq'[w] => app[w].loaded
    BY <1>b, <2>3 DEF Attached
  <2> QED BY <2>3, <2>4, <2>6, <2>7, <2>8, <2>9, WinFrom
<1>2. ASSUME NEW v \in VM, SetRemoved(v) \/ Remove(v) PROVE WinInv'
  <2>1. CASE SetRemoved(v)
    <3>1. app[v].loaded /\ loads[v] < MaxLoads[v] /\ MaxLoads[v] <= 1 /\ MaxLoads[v] \in Nat
      BY <2>1, AppConstants DEF SetRemoved, LoadedOnce
    <3>2. AppOk(app[v], loads[v], Has(Peer(v)))
      BY <1>b
    <3> QED BY <3>1, <3>2, SMT DEF AppOk
  <2>2. CASE Remove(v)
    BY <1>b, <2>2 DEF Remove, AppOk
  <2> QED BY <1>2, <2>1, <2>2
<1>3. ASSUME NEW v \in VM, Event(v) PROVE WinInv'
  <2> DEFINE w == Peer(v)
  <2>1. /\ UNCHANGED <<app, run, box, loads>> /\ irq[v]
        /\ pending'[w] = pending[w] /\ irq'[w] = irq[w]
    BY <1>3, <1>b, <1>c DEF Event
  <2>2. BoxOk(box'[w], Has(v)) /\ Has(v)' = Has(v)
    BY <1>b, <2>1, PeerFacts DEF Has
  <2> QED BY <1>b, <2>1, <2>2, WinFrom
<1>4. ASSUME NEW v \in VM, WorkStart(v) PROVE WinInv'
  <2> DEFINE w == Peer(v)
             a == app[v]
             up == [a EXCEPT !.link_up = TRUE]
             down == [a EXCEPT !.link_up = FALSE, !.peer_ready = FALSE]
             served == [up EXCEPT !.rx_buf = loads[v]]
  <2>1. /\ pending[v] /\ Unlocked(v) /\ UNCHANGED <<irq, box, loads>>
        /\ pending' = [pending EXCEPT ![v] = FALSE]
        /\ \/ UNCHANGED <<app, run>>
           \/ app' = [app EXCEPT ![v] = down] /\ UNCHANGED run
           \/ app' = [app EXCEPT ![v] = up] /\ UNCHANGED run
           \/ /\ app' = [app EXCEPT ![v] = served]
              /\ run' = [run EXCEPT ![v] = [Free EXCEPT !.by = "work", !.pc = "drain"]]
    BY <1>4 DEF WorkStart
  <2>2. /\ a \in AppType /\ AppOk(a, loads[v], Has(w)) /\ a.loaded /\ loads[v] = 1
        /\ Has(w) \in BOOLEAN
    BY <1>b, <2>1 DEF AppOk
  <2>3. /\ AppOk(up, loads[v], Has(w)) /\ AppOk(down, loads[v], Has(w))
        /\ AppOk(served, loads[v], Has(w))
    <3> HIDE DEF a
    <3> QED BY <2>2, AppOkSteps
  <2>4. /\ up.loaded /\ down.loaded /\ served.loaded /\ served.rx_buf = 1
        /\ up.rx_buf = a.rx_buf /\ down.rx_buf = a.rx_buf
    <3> HIDE DEF a
    <3> QED BY <2>2 DEF AppType
  <2>5. run[v].by = "none" /\ \A z : RunOk(run[v], z)
    BY <2>1 DEF Unlocked, RunOk
  <2>6. /\ pending'[w] = pending[w] /\ box'[w] = box[w]
        /\ BoxOk(box'[v], Has(w)) /\ BoxOk(box'[w], Has(v))
    BY <1>b, <1>c, <2>1, PeerFacts
  <2> HIDE DEF up, down, served
  <2>7. CASE UNCHANGED <<app, run>>
    <3>1. Has(v)' = Has(v)
      BY <2>7 DEF Has
    <3> QED BY <1>b, <2>1, <2>2, <2>6, <2>7, <3>1, WinFrom
  <2>8. CASE app' = [app EXCEPT ![v] = down] /\ UNCHANGED run
    BY <2>1, <2>3, <2>4, <2>5, <2>6, <2>8, <1>s DEF Has
  <2>9. CASE app' = [app EXCEPT ![v] = up] /\ UNCHANGED run
    BY <2>1, <2>3, <2>4, <2>5, <2>6, <2>9, <1>s DEF Has
  <2>10. CASE /\ app' = [app EXCEPT ![v] = served]
              /\ run' = [run EXCEPT ![v] = [Free EXCEPT !.by = "work", !.pc = "drain"]]
    <3>1. /\ app'[v] = served /\ app'[w] = app[w] /\ run'[w] = run[w]
          /\ run'[v] = [Free EXCEPT !.by = "work", !.pc = "drain"]
      BY <1>b, <1>c, <2>10
    <3>2. RunOk(run'[v], served)
      BY <1>b, <2>4, <2>5, <3>1, RunOkSteps
    <3>3. Has(v)'
      BY <2>4, <3>1 DEF Has
    <3> QED BY <1>b, <2>1, <2>3, <2>4, <2>6, <3>1, <3>2, <3>3, WinFrom
  <2> QED BY <2>1, <2>7, <2>8, <2>9, <2>10
<1>5. ASSUME NEW v \in VM, Receive(v) PROVE WinInv'
  <2> DEFINE w == Peer(v)
             c == box[v]["CMD"]
  <2>1. box[v]["LOW"] = c /\ c \in Commands /\ run[v].by = "work"
    BY <1>5, <1>a, <1>b DEF Receive, RegistersInv, Full, Regs
  <2>2. PICK ok \in Outcomes : app' = [app EXCEPT ![v] = Handled(v, c.cmd, c.data, ok)]
    BY <1>5, <2>1 DEF Receive
  <2>3. c.cmd \in {"SIZE", "XLAT"} => c.data = 1 /\ Has(w)
    BY <1>b DEF BoxOk, Regs
  <2>4. app[v].loaded /\ Has(v)
    BY <1>b, <2>1 DEF RunOk, Has
  <2>5. PICK a : /\ a = Handled(v, c.cmd, c.data, ok) /\ AppOk(a, loads[v], Has(w))
                 /\ a.rx_buf = app[v].rx_buf /\ a.loaded
    <3>1. ok \in Outcomes
      BY <2>2
    <3> HIDE DEF c
    <3>2. LET z == Handled(v, c.cmd, c.data, ok)
          IN  AppOk(z, loads[v], Has(w)) /\ z.rx_buf = app[v].rx_buf /\ z.loaded
      <4>1. AppOk(app[v], loads[v], Has(w)) /\ app[v] \in AppType
        BY <1>b
      <4>2. Has(w) \in BOOLEAN
        BY <1>b
      <4>3. \A n : \A h \in BOOLEAN :
              AppOk(app[v], n, h) /\ (c.cmd \in {"SIZE", "XLAT"} => c.data = 1 /\ h)
                => LET z == Handled(v, c.cmd, c.data, ok)
                   IN  AppOk(z, n, h) /\ z.rx_buf = app[v].rx_buf /\ z.loaded
        <5>1. app[v].loaded /\ c \in Commands
          BY <2>1, <2>4
        <5> QED BY <3>1, <4>1, <5>1, HandledOk
      <4> QED BY <2>3, <4>1, <4>2, <4>3
    <3> QED BY <3>2
  <2>6. RunOk(run[v], a)
    BY <1>b, <2>1, <2>5 DEF RunOk
  <2>7. /\ box'[v] = [r \in Regs |-> Empty] /\ box'[w] = box[w]
        /\ UNCHANGED <<run, loads, irq, pending>>
    BY <1>5, <1>b, <1>c DEF Receive
  <2>8. BoxOk(box'[v], Has(w))
    BY <2>7, BoxOkSteps
  <2> QED BY <2>2, <2>4, <2>5, <2>6, <2>7, <2>8, <1>s DEF Has
\* The registers of both sides are as they were.
<1>q. ASSUME NEW v \in VM, UNCHANGED box
      PROVE  BoxOk(box'[v], Has(Peer(v))) /\ BoxOk(box'[Peer(v)], Has(v))
  BY <1>b, <1>q, PeerFacts
<1>t. ASSUME NEW v \in VM, NEW r \in Regs, Store(v, r), run[v].pc \in {"low", "high", "cmd"}
      PROVE  BoxOk(box'[v], Has(Peer(v))) /\ BoxOk(box'[Peer(v)], Has(v))
  <2> DEFINE w == Peer(v)
             c == run[v].cmd
  <2>1. box'[v] = box[v] /\ box'[w] = [box[w] EXCEPT ![r] = c]
    BY <1>b, <1>c, <1>t DEF Store
  <2>2. run[v].by # "none"
    BY <1>a, <1>t DEF LockInv
  <2>3. c.cmd \in {"SIZE", "XLAT"} => c.data = 1 /\ Has(v)
    BY <1>b, <1>t, <2>2 DEF RunOk, RunType, Has
  <2>4. BoxOk(box[w], Has(v)) /\ box[w] \in [Regs -> Commands] /\ c \in Commands
    BY <1>b, PeerFacts
  <2>5. BoxOk([box[w] EXCEPT ![r] = c], Has(v))
    <3> HIDE DEF c, w
    <3> QED BY <1>t, <2>3, <2>4 DEF BoxOk
  <2> QED BY <1>b, <2>1, <2>5
<1>6. ASSUME NEW v \in VM, Drained(v) PROVE WinInv'
  <2>1. UNCHANGED <<app, loads, pending, irq, box>> /\ run[v].by = "work"
    BY <1>6 DEF Drained
  <2>2. \/ run' = [run EXCEPT ![v] = Free]
        \/ run' = [run EXCEPT ![v] = [run[v] EXCEPT !.pc = "low",
                                        !.cmd = Command("SIZE", app[v].rx_buf)]]
    BY <1>6 DEF Drained, Release, Send
  <2>3. app[v].rx_buf = 1
    BY <1>b, <2>1 DEF RunOk
  <2>4. /\ RunOk(Free, app[v])
        /\ RunOk([run[v] EXCEPT !.pc = "low", !.cmd = Command("SIZE", 1)], app[v])
    BY <1>b, <2>1, RunOkSteps
  <2> QED BY <1>q, <1>r, <2>1, <2>2, <2>3, <2>4
<1>g. ASSUME NEW v \in VM, NEW p \in {"low", "high", "cmd"}, Goto(v, p),
             run[v].pc \in {"low", "high", "cmd"},
             UNCHANGED <<app, loads, pending, irq>>,
             UNCHANGED box \/ \E r \in Regs : Store(v, r)
      PROVE  WinInv'
  <2>1. run[v].by # "none"
    BY <1>a, <1>g DEF LockInv
  <2>2. RunOk([run[v] EXCEPT !.pc = p], app[v])
    BY <1>b, <1>g, <2>1, RunOkSteps
  <2>3. run' = [run EXCEPT ![v] = [run[v] EXCEPT !.pc = p]]
    BY <1>g DEF Goto
  <2>4. BoxOk(box'[v], Has(Peer(v))) /\ BoxOk(box'[Peer(v)], Has(v))
    BY <1>g, <1>q, <1>t
  <2> QED BY <1>g, <1>r, <2>2, <2>3, <2>4
<1>7. ASSUME NEW v \in VM, SendLow(v) PROVE WinInv'
  BY <1>7, <1>g DEF SendLow, At, Regs
<1>8. ASSUME NEW v \in VM, SendHigh(v) PROVE WinInv'
  BY <1>8, <1>g DEF SendHigh, At, Regs
<1>9. ASSUME NEW v \in VM, SendCmd(v) PROVE WinInv'
  <2>1. CASE Goto(v, "low") /\ UNCHANGED <<box, irq>>
    BY <1>9, <2>1, <1>g DEF SendCmd, At
  <2>2. CASE Store(v, "CMD") /\ Sent(v)
    <3>1. /\ UNCHANGED <<app, loads, pending>> /\ run[v].pc = "cmd"
          /\ irq' = [irq EXCEPT ![Peer(v)] = Attached(Peer(v))]
      BY <1>9, <2>2 DEF SendCmd, Sent, At
    <3>2. \/ run' = [run EXCEPT ![v] = Free]
          \/ /\ run[v].cmd.cmd = "SIZE"
             /\ run' = [run EXCEPT ![v] = [run[v] EXCEPT !.pc = "low",
                                             !.cmd = Command("XLAT", app[v].rx_buf)]]
      BY <2>2 DEF Sent, Release, Send
    <3>3. run[v].cmd.cmd = "SIZE" => run[v].by = "work" /\ app[v].rx_buf = 1
      BY <1>a, <1>b, <3>1 DEF LockInv, RunOk, RunType
    <3>4. /\ RunOk(Free, app[v])
          /\ run[v].by = "work" =>
               RunOk([run[v] EXCEPT !.pc = "low", !.cmd = Command("XLAT", 1)], app[v])
      BY <1>b, RunOkSteps
    <3>5. BoxOk(box'[v], Has(Peer(v))) /\ BoxOk(box'[Peer(v)], Has(v))
      BY <2>2, <3>1, <1>t DEF Regs
    <3> QED BY <1>r, <3>1, <3>2, <3>3, <3>4, <3>5
  <2> QED BY <1>9, <2>1, <2>2 DEF SendCmd
<1>10. ASSUME NEW v \in VM, SendFail(v) PROVE WinInv'
  <2>1. RunOk(Free, app[v])
    BY <1>b, RunOkSteps
  <2> QED BY <1>10, <1>q, <1>r, <2>1 DEF SendFail, Release
<1>11. ASSUME NEW v \in VM, NEW len \in Lens, Commit(v, len) PROVE WinInv'
  <2>1. UNCHANGED <<app, loads, pending, irq, box>> /\ run[v].pc = "header"
    BY <1>11 DEF Commit, At
  <2>2. run[v].by = "tx"
    BY <1>a, <1>b, <2>1 DEF LockInv, RunOk, RunType
  <2>3. RunOk([run[v] EXCEPT !.pc = "low", !.cmd = Command("KICK", len)], app[v])
    BY <1>b, <2>2, RunOkSteps
  <2>4. run' = [run EXCEPT ![v] = [run[v] EXCEPT !.pc = "low", !.cmd = Command("KICK", len)]]
    BY <1>11 DEF Commit, Send
  <2> QED BY <1>q, <1>r, <2>1, <2>3, <2>4
<1>12. ASSUME NEW v \in VM, Write(v) PROVE WinInv'
  <2>1. /\ UNCHANGED <<app, loads, pending, irq, box>> /\ app[v].peer_io
        /\ run' = [run EXCEPT ![v] = [Free EXCEPT !.by = "tx", !.pc = "header"]]
    BY <1>12 DEF Write
  <2>2. app[v].loaded
    BY <1>b, <2>1 DEF AppOk, Unloaded
  <2>3. RunOk([Free EXCEPT !.by = "tx", !.pc = "header"], app[v])
    BY <1>b, <2>1, <2>2, RunOkSteps
  <2> QED BY <1>q, <1>r, <2>1, <2>3
<1>13. ASSUME NEW v \in VM, ReadCopy(v) PROVE WinInv'
  BY <1>13 DEF ReadCopy, WinInv, WinOf, Has
<1>14. ASSUME NEW v \in VM, ReadDone(v) PROVE WinInv'
  <2> DEFINE b == app[v]
             a == [b EXCEPT !.rx_avail = FALSE, !.rx_len = 0]
  <2>1. app' = [app EXCEPT ![v] = a] /\ UNCHANGED <<run, loads, irq, pending, box>>
    BY <1>14 DEF ReadDone
  <2>2. /\ b \in AppType /\ AppOk(b, loads[v], Has(Peer(v))) /\ RunOk(run[v], b)
        /\ pending[v] \/ irq[v] => b.loaded
    BY <1>b
  <2>3. Has(Peer(v)) \in BOOLEAN
    BY <1>b
  <2>4. /\ AppOk(a, loads[v], Has(Peer(v))) /\ a.rx_buf = b.rx_buf
        /\ a.loaded = b.loaded /\ a.peer_io = b.peer_io
    <3> HIDE DEF b
    <3> QED BY <2>2, <2>3, AppOkRead DEF AppType
  <2> HIDE DEF a
  <2>5. RunOk(run[v], a)
    BY <2>2, <2>4 DEF RunOk
  <2>6. app'[v] = a /\ app'[Peer(v)] = app[Peer(v)]
    BY <1>b, <1>c, <2>1
  <2>7. Has(v)' = Has(v)
    BY <2>4, <2>6 DEF Has
  <2>8. BoxOk(box'[v], Has(Peer(v))) /\ BoxOk(box'[Peer(v)], Has(v))
    BY <1>q, <2>1
  <2>9. pending[Peer(v)] \/ irq[Peer(v)] => app[Peer(v)].loaded
    BY <1>b
  <2> QED BY <2>1, <2>2, <2>4, <2>5, <2>6, <2>7, <2>8, <2>9, WinFrom
<1> QED
  BY <1>0, <1>1, <1>2, <1>3, <1>4, <1>5, <1>6, <1>7, <1>8, <1>9, <1>10, <1>11,
     <1>12, <1>13, <1>14 DEF Next, Holder, Reader

LEMMA WinInit == Init => WinInv
<1> SUFFICES ASSUME Init, NEW v \in VM PROVE WinOf(v)
  BY DEF WinInv
<1>1. /\ app[v] = Unloaded /\ app[Peer(v)] = Unloaded /\ run[v] = Free /\ loads[v] = 0
      /\ pending[v] = FALSE /\ irq[v] = FALSE /\ box[v] = [r \in Regs |-> Empty]
  BY PeerFacts DEF Init
<1>2. AppOk(Unloaded, 0, Has(Peer(v)))
  BY SMT DEF AppOk, Unloaded
<1>3. RunOk(Free, Unloaded)
  BY DEF RunOk, Free
<1>4. BoxOk(box[v], Has(Peer(v)))
  BY <1>1, BoxOkSteps
<1> QED BY <1>1, <1>2, <1>3, <1>4 DEF WinOf

LEMMA WinAlways == ASSUME LoadedOnce PROVE Spec => [](Inv /\ WinInv)
<1>1. Inv /\ WinInv /\ [Next]_vars => WinInv'
  BY WinStep
<1> QED BY <1>1, WinInit, InvAlways, PTL DEF Spec

\* A mapped outbound window (peer_io) is the peer's inbound buffer, and the size
\* that goes with it is that buffer's, whatever setup_peer_mw calls failed before.
MappedRight ==
  \A v \in VM :
    app[v].peer_io =>
      /\ app[v].peer_xlat = loads[Peer(v)] /\ app[v].peer_size = loads[Peer(v)]
      /\ app[Peer(v)].rx_buf = loads[Peer(v)]

LEMMA WinMeans == WinInv => MappedRight /\ (~Faults => WindowRight)
<1> SUFFICES ASSUME WinInv, NEW v \in VM
             PROVE  /\ app[v].peer_io =>
                         /\ app[v].peer_xlat = loads[Peer(v)]
                         /\ app[v].peer_size = loads[Peer(v)]
                         /\ app[Peer(v)].rx_buf = loads[Peer(v)]
                    /\ ~Faults /\ app[v].peer_ready => app[v].peer_io
  BY DEF MappedRight, WindowRight
<1>1. AppOk(app[v], loads[v], Has(Peer(v))) /\ Peer(v) \in VM
  BY PeerFacts DEF WinInv, WinOf
<1>2. AppOk(app[Peer(v)], loads[Peer(v)], Has(Peer(Peer(v))))
  BY <1>1 DEF WinInv, WinOf
<1>3. Has(Peer(v)) => loads[Peer(v)] = 1
  BY <1>2 DEF AppOk, Has
<1> QED BY <1>1, <1>3 DEF AppOk, Has

\* Modules that are loaded once: a mapped outbound window is the peer's inbound
\* buffer.  It holds with failing setups as well: one that fails unmaps the window
\* and forgets both halves of the announcement (setup_peer_mw).
THEOREM MappedWindowsRight == ASSUME LoadedOnce PROVE Spec => []MappedRight
BY WinAlways, WinMeans, PTL

\* Modules that are loaded once, and set up their windows without a failure: a
\* side that is ready has its window on the peer's inbound buffer, although size
\* and address come in two commands, are repeated, and are mixed with KICKs,
\* give-ups and restarted sends.
THEOREM WindowsRight == ASSUME LoadedOnce, ~Faults PROVE Spec => []WindowRight
<1>1. WinInv => WindowRight
  BY WinMeans
<1> QED BY <1>1, WinAlways, PTL
-----------------------------------------------------------------------------
(***************************************************************************)
(* Delivery, for modules that are loaded once and applications that take   *)
(* turns.  Either somebody has the turn and nothing is on its way, or the  *)
(* turn is with one frame: its KICK is in the registers, or it waits in    *)
(* the receiver's buffer.  The frame that is being written has reached the *)
(* peer's buffer, which WinInv is needed for.                              *)
(***************************************************************************)
CmdReg(u) == box[u]["CMD"]
Idle(u) ==
  /\ reads[u] = writes[Peer(u)] /\ ~app[u].rx_avail /\ reader[u] = 0
  /\ CmdReg(u).cmd # "KICK"
Sending(v) ==
  run[v].by = "tx" =>
    /\ turn = v /\ buf[Peer(v)].payload = writes[v] + 1
    /\ run[v].pc # "header" => buf[Peer(v)].len = run[v].cmd.data
UnderWay(u) ==
  /\ app[u].loaded /\ reads[u] + 1 = writes[Peer(u)]
  /\ buf[u].payload = writes[Peer(u)]
  /\ \/ /\ CmdReg(u).cmd = "KICK" /\ CmdReg(u).data = buf[u].len
        /\ ~app[u].rx_avail /\ reader[u] = 0
     \/ /\ CmdReg(u).cmd # "KICK" /\ app[u].rx_avail
        /\ reader[u] \in {0, writes[Peer(u)]}
DeliveryInv ==
  /\ \A v \in VM : Sending(v)
  /\ turn # 0 => \A u \in VM : Idle(u)
  /\ turn = 0 => \E u \in VM : UnderWay(u) /\ Idle(Peer(u))

\* A step that neither sends nor takes a KICK, and does not touch a buffer.
LEMMA DeliveryKeeps ==
  ASSUME DeliveryInv, UNCHANGED <<turn, reads, writes, reader, buf>>,
         \A u \in VM :
           /\ app'[u].rx_avail = app[u].rx_avail
           /\ app[u].loaded => app'[u].loaded
           /\ \/ CmdReg(u)' = CmdReg(u)
              \/ CmdReg(u).cmd # "KICK" /\ CmdReg(u)'.cmd # "KICK"
           /\ run'[u].by = "tx" =>
                /\ run[u].by = "tx"
                /\ run'[u].pc # "header" => run[u].pc # "header" /\ run'[u].cmd = run[u].cmd
  PROVE  DeliveryInv'
<1>1. ASSUME NEW v \in VM PROVE Sending(v)'
  BY <1>1 DEF DeliveryInv, Sending
<1>2. ASSUME NEW u \in VM, Idle(u) PROVE Idle(u)'
  BY <1>2 DEF Idle
<1>3. ASSUME NEW u \in VM, UnderWay(u) PROVE UnderWay(u)'
  BY <1>3 DEF UnderWay
<1>4. turn # 0 => \A u \in VM : Idle(u)'
  BY <1>2 DEF DeliveryInv
<1>5. ASSUME turn = 0 PROVE \E u \in VM : UnderWay(u)' /\ Idle(Peer(u))'
  <2>1. PICK u \in VM : UnderWay(u) /\ Idle(Peer(u))
    BY <1>5 DEF DeliveryInv
  <2>2. UnderWay(u)' /\ Idle(Peer(u))'
    BY <1>2, <1>3, <2>1, PeerFacts
  <2> QED BY <2>2
<1> QED BY <1>1, <1>4, <1>5 DEF DeliveryInv

\* What rx_avail becomes when recv_cmd hands a command on.
LEMMA HandledAvail ==
  ASSUME NEW v \in VM, app[v] \in AppType, NEW ok \in Outcomes, NEW c \in Commands
  PROVE  Handled(v, c.cmd, c.data, ok).rx_avail =
           IF c.cmd = "KICK" /\ buf[v].len = c.data THEN TRUE ELSE app[v].rx_avail
<1> DEFINE a == app[v]
<1>0. ASSUME NEW b \in AppType PROVE TrySetupPeer(b, ok).rx_avail = b.rx_avail
  BY DEF TrySetupPeer, AppType
<1>1. ASSUME c.cmd = "SIZE" PROVE Handled(v, c.cmd, c.data, ok).rx_avail = a.rx_avail
  <2> DEFINE b == [a EXCEPT !.peer_size = c.data]
  <2>1. b \in AppType /\ b.rx_avail = a.rx_avail
    BY DEF AppType, Commands
  <2>2. Handled(v, c.cmd, c.data, ok) = TrySetupPeer(b, ok)
    BY <1>1 DEF Handled
  <2> HIDE DEF b
  <2> QED BY <1>0, <2>1, <2>2
<1>2. ASSUME c.cmd = "XLAT" PROVE Handled(v, c.cmd, c.data, ok).rx_avail = a.rx_avail
  <2> DEFINE b == [a EXCEPT !.peer_xlat = c.data]
  <2>1. b \in AppType /\ b.rx_avail = a.rx_avail
    BY DEF AppType, Commands
  <2>2. Handled(v, c.cmd, c.data, ok) = TrySetupPeer(b, ok)
    BY <1>2 DEF Handled
  <2> HIDE DEF b
  <2> QED BY <1>0, <2>1, <2>2
<1>3. ASSUME c.cmd = "KICK", buf[v].len = c.data
      PROVE  Handled(v, c.cmd, c.data, ok).rx_avail = TRUE
  BY <1>3 DEF Handled, CompleteRx, AppType
<1>4. ASSUME c.cmd = "KICK", buf[v].len # c.data
      PROVE  Handled(v, c.cmd, c.data, ok).rx_avail = a.rx_avail
  BY <1>4 DEF Handled, CompleteRx
<1>5. ASSUME c.cmd = "none" PROVE Handled(v, c.cmd, c.data, ok).rx_avail = a.rx_avail
  BY <1>5 DEF Handled
<1> QED BY <1>1, <1>2, <1>3, <1>4, <1>5 DEF Commands

\* Nobody else than the one side sends, receives or reads a frame.
LEMMA OneFrame ==
  ASSUME DeliveryInv, NEW v \in VM
  PROVE  /\ turn # 0 => Idle(v)
         /\ ~Idle(v) => turn = 0 /\ UnderWay(v) /\ Idle(Peer(v))
         /\ \A u \in VM : run[u].by = "tx" /\ run[v].by = "tx" => u = v
         /\ turn = 0 => run[v].by # "tx"
<1>1. turn # 0 => Idle(v)
  BY DEF DeliveryInv
<1>2. ASSUME ~Idle(v) PROVE turn = 0 /\ UnderWay(v) /\ Idle(Peer(v))
  <2>1. turn = 0
    BY <1>1, <1>2
  <2>2. PICK u \in VM : UnderWay(u) /\ Idle(Peer(u))
    BY <2>1 DEF DeliveryInv
  <2>3. u = v
    BY <1>2, <2>2, PeerFacts, TwoVMs
  <2> QED BY <2>1, <2>2, <2>3
<1>3. \A u \in VM : run[u].by = "tx" => turn = u
  BY DEF DeliveryInv, Sending
<1> QED BY <1>1, <1>2, <1>3, SMT DEF VM

LEMMA DeliveryStep ==
  ASSUME LoadedOnce, Alternate, Inv, WinInv, WinInv', DeliveryInv, [Next]_vars
  PROVE  DeliveryInv'
<1>a. TypeOK /\ LockInv /\ RegistersInv /\ MappedRight
  BY WinMeans DEF Inv
<1>b. ASSUME NEW v \in VM
      PROVE  /\ app[v] \in AppType /\ run[v] \in RunType /\ run[v].cmd \in Commands
             /\ Peer(v) \in VM /\ Peer(v) # v /\ Peer(Peer(v)) = v
             /\ reads[v] \in Nat /\ writes[v] \in Nat /\ box[v]["CMD"] \in Commands
             /\ RunOk(run[v], app[v]) /\ (app[v].loaded <=> loads[v] = 1)
  BY <1>a, PeerFacts, RunFields DEF TypeOK, WinInv, WinOf, AppOk, Regs
<1>c. app \in [VM -> AppType] /\ run \in [VM -> RunType] /\ loads \in [VM -> Nat]
      /\ box \in [VM -> [Regs -> Commands]] /\ reader \in [VM -> Nat]
      /\ buf \in [VM -> [payload: Nat, len: Lens \cup {0}]]
      /\ reads \in [VM -> Nat] /\ writes \in [VM -> Nat]
  BY <1>a DEF TypeOK
\* A sender of frames has its window on the peer's buffer.
<1>d. ASSUME NEW v \in VM, app[v].peer_io
      PROVE  Reaches(v) /\ app[Peer(v)].loaded
  <2>1. AppOk(app[v], loads[v], Has(Peer(v)))
    BY DEF WinInv, WinOf
  <2>2. app[Peer(v)].rx_buf = 1
    BY <1>d, <2>1 DEF AppOk, Has
  <2>3. AppOk(app[Peer(v)], loads[Peer(v)], Has(v))
    BY <1>b DEF WinInv, WinOf
  <2>4. app[v].peer_xlat = 1
    BY <1>d, <2>1 DEF AppOk
  <2>5. app[Peer(v)].loaded /\ loads[Peer(v)] = 1
    BY <2>2, <2>3 DEF AppOk
  <2> QED BY <2>2, <2>4, <2>5, SMT DEF Reaches
<1>e. ASSUME NEW v \in VM, UNCHANGED loads PROVE app'[v].loaded <=> app[v].loaded
  <2>1. AppOk(app'[v], loads'[v], Has(Peer(v))')
    BY DEF WinInv, WinOf
  <2> QED BY <1>b, <1>e, <2>1 DEF AppOk
<1>0. CASE UNCHANGED vars
  BY <1>0, DeliveryKeeps DEF vars, CmdReg
<1>1. ASSUME NEW v \in VM, Probe(v) PROVE DeliveryInv'
  <2> DEFINE w == Peer(v)
  <2>1. /\ UNCHANGED <<run, reader, turn, writes, reads>> /\ ~app[v].loaded
        /\ app'[v].rx_avail = FALSE /\ app'[w] = app[w]
        /\ box'[v]["CMD"].cmd = "none" /\ box'[w] = box[w] /\ buf'[w] = buf[w]
    <3>1. [Unloaded EXCEPT !.loaded = TRUE].rx_avail = FALSE
      BY DEF Unloaded
    <3>2. /\ app' = [app EXCEPT ![v] = [Unloaded EXCEPT !.loaded = TRUE]]
          /\ box' = [box EXCEPT ![v] = [r \in Regs |-> Empty]]
          /\ buf' = [buf EXCEPT ![v] = NoFrame]
          /\ UNCHANGED <<run, reader, turn, writes, reads>> /\ ~app[v].loaded
      BY <1>1 DEF Probe
    <3> QED BY <1>b, <1>c, <3>1, <3>2 DEF Empty, Command, Regs
  <2>2. run[v].by # "tx"
    BY <1>b, <2>1 DEF RunOk
  <2>3. run[w].by # "tx"
    BY <1>b, <1>d, <2>1 DEF RunOk
  <2>4. \A z \in VM : Sending(z)'
    BY <2>1, <2>2, <2>3, TwoVMs DEF Sending
  <2>5. Idle(v) => Idle(v)'
    BY <2>1 DEF Idle, CmdReg
  <2>6. Idle(w) => Idle(w)'
    BY <2>1 DEF Idle, CmdReg
  <2>7. UnderWay(w) => UnderWay(w)'
    BY <2>1 DEF UnderWay, CmdReg
  <2>8. ~UnderWay(v)
    BY <2>1 DEF UnderWay
  <2>9. CASE turn # 0
    BY <2>1, <2>4, <2>5, <2>6, <2>9, TwoVMs DEF DeliveryInv
  <2>10. CASE turn = 0
    <3>1. Idle(v) /\ UnderWay(w)
      BY <1>b, <2>8, <2>10, TwoVMs DEF DeliveryInv
    <3>2. UnderWay(w)' /\ Idle(Peer(w))'
      BY <1>b, <2>5, <2>7, <3>1
    <3> QED BY <1>b, <2>1, <2>4, <2>10, <3>2 DEF DeliveryInv
  <2> QED BY <2>9, <2>10
<1>2. ASSUME NEW v \in VM, SetRemoved(v) \/ Remove(v) PROVE DeliveryInv'
  <2>1. ~app[v].removed /\ loads[v] \in {0, 1} /\ (app[v].loaded <=> loads[v] = 1)
    BY DEF WinInv, WinOf, AppOk
  <2>2. MaxLoads[v] \in Nat /\ MaxLoads[v] <= 1
    BY AppConstants DEF LoadedOnce
  <2>3. CASE SetRemoved(v)
    <3>1. app[v].loaded /\ loads[v] < MaxLoads[v]
      BY <2>3 DEF SetRemoved
    <3> QED BY <2>1, <2>2, <3>1, SMT
  <2>4. CASE Remove(v)
    BY <2>1, <2>4 DEF Remove
  <2> QED BY <1>2, <2>3, <2>4
\* Steps that leave the registers and the structures alone, and only move the
\* holder of the lock.
<1>m. ASSUME NEW v \in VM, NEW x, run' = [run EXCEPT ![v] = x],
             x.by = "tx" => /\ run[v].by = "tx"
                            /\ x.pc # "header" => run[v].pc # "header" /\ x.cmd = run[v].cmd,
             UNCHANGED <<app, turn, reads, writes, reader, buf>>,
             \A u \in VM : \/ CmdReg(u)' = CmdReg(u)
                           \/ CmdReg(u).cmd # "KICK" /\ CmdReg(u)'.cmd # "KICK"
      PROVE  DeliveryInv'
  <2>1. \A u \in VM : run'[u] = IF u = v THEN x ELSE run[u]
    BY <1>c, <1>m
  <2> QED BY <1>m, <2>1, DeliveryKeeps
<1>3. ASSUME NEW v \in VM, Event(v) PROVE DeliveryInv'
  BY <1>3, DeliveryKeeps DEF Event, CmdReg
<1>4. ASSUME NEW v \in VM, WorkStart(v) PROVE DeliveryInv'
  <2> DEFINE a == app[v]
             up == [a EXCEPT !.link_up = TRUE]
             down == [a EXCEPT !.link_up = FALSE, !.peer_ready = FALSE]
             served == [up EXCEPT !.rx_buf = loads[v]]
             new == [Free EXCEPT !.by = "work", !.pc = "drain"]
  <2>1. /\ UNCHANGED <<box, loads, turn, reads, writes, reader, buf>>
        /\ \/ UNCHANGED <<app, run>>
           \/ app' = [app EXCEPT ![v] = down] /\ UNCHANGED run
           \/ app' = [app EXCEPT ![v] = up] /\ UNCHANGED run
           \/ app' = [app EXCEPT ![v] = served] /\ run' = [run EXCEPT ![v] = new]
    BY <1>4 DEF WorkStart
  <2>2. down.rx_avail = a.rx_avail /\ up.rx_avail = a.rx_avail /\ served.rx_avail = a.rx_avail
    <3>1. a \in AppType
      BY <1>b
    <3> HIDE DEF a
    <3> QED BY <3>1 DEF AppType
  <2>3. new.by = "work"
    BY DEF Free
  <2> HIDE DEF down, up, served, new
  <2>4. \A u \in VM : app'[u].rx_avail = app[u].rx_avail
    BY <1>c, <2>1, <2>2
  <2>5. \A u \in VM : run'[u] = run[u] \/ run'[u].by = "work"
    BY <1>c, <2>1, <2>3
  <2>6. \A u \in VM : app[u].loaded => app'[u].loaded
    BY <1>e, <2>1
  <2> QED BY <2>1, <2>4, <2>5, <2>6, DeliveryKeeps DEF CmdReg
<1>5. ASSUME NEW v \in VM, Receive(v) PROVE DeliveryInv'
  <2> DEFINE w == Peer(v)
             c == CmdReg(v)
  <2>1. box[v]["LOW"] = c /\ c \in Commands
    BY <1>5, <1>a, <1>b DEF Receive, RegistersInv, Full, Regs, CmdReg
  <2>2. PICK ok \in Outcomes : app' = [app EXCEPT ![v] = Handled(v, c.cmd, c.data, ok)]
    BY <1>5, <2>1 DEF Receive, CmdReg
  <2>3. app'[w] = app[w] /\ app'[v] = Handled(v, c.cmd, c.data, ok)
    BY <1>b, <1>c, <2>2
  <2>4. app'[v].rx_avail =
          IF c.cmd = "KICK" /\ buf[v].len = c.data THEN TRUE ELSE app[v].rx_avail
    <3>1. ok \in Outcomes
      BY <2>2
    <3> HIDE DEF c
    <3>2. Handled(v, c.cmd, c.data, ok).rx_avail =
            IF c.cmd = "KICK" /\ buf[v].len = c.data THEN TRUE ELSE app[v].rx_avail
      <4>1. app[v] \in AppType
        BY <1>b
      <4> QED BY <2>1, <3>1, <4>1, HandledAvail
    <3> QED BY <2>3, <3>2
  <2>5. UNCHANGED <<run, loads, turn, reads, writes, reader, buf>>
    BY <1>5 DEF Receive
  <2>6. CmdReg(v)'.cmd = "none" /\ CmdReg(w)' = CmdReg(w)
    BY <1>5, <1>b, <1>c DEF Receive, CmdReg, Regs, Empty, Command
  <2>7. \A u \in VM : app[u].loaded => app'[u].loaded
    BY <1>e, <2>5
  <2>8. CASE c.cmd # "KICK"
    <3>1. \A u \in VM : app'[u].rx_avail = app[u].rx_avail
      BY <2>3, <2>4, <2>8, TwoVMs
    <3>2. \A u \in VM : \/ CmdReg(u)' = CmdReg(u)
                        \/ CmdReg(u).cmd # "KICK" /\ CmdReg(u)'.cmd # "KICK"
      BY <2>6, <2>8, TwoVMs
    <3> QED BY <2>5, <2>7, <3>1, <3>2, DeliveryKeeps
  <2>9. CASE c.cmd = "KICK"
    <3>1. turn = 0 /\ UnderWay(v) /\ Idle(w)
      BY <2>9, OneFrame DEF Idle
    <3>2. UnderWay(v)'
      BY <2>4, <2>5, <2>6, <2>7, <2>9, <3>1 DEF UnderWay
    <3>3. Idle(w)'
      BY <2>3, <2>5, <2>6, <3>1 DEF Idle
    <3>4. \A z \in VM : Sending(z)'
      BY <2>5 DEF DeliveryInv, Sending
    <3> QED BY <2>5, <3>1, <3>2, <3>3, <3>4 DEF DeliveryInv
  <2> QED BY <2>8, <2>9
<1>6. ASSUME NEW v \in VM, Drained(v) PROVE DeliveryInv'
  <2>1. UNCHANGED <<app, box, turn, reads, writes, reader, buf>> /\ run[v].by = "work"
    BY <1>6 DEF Drained
  <2>2. \/ run' = [run EXCEPT ![v] = Free]
        \/ run' = [run EXCEPT ![v] = [run[v] EXCEPT !.pc = "low",
                                        !.cmd = Command("SIZE", app[v].rx_buf)]]
    BY <1>6 DEF Drained, Release, Send
  <2>3. /\ Free.by = "none"
        /\ [run[v] EXCEPT !.pc = "low", !.cmd = Command("SIZE", app[v].rx_buf)].by = "work"
    BY <1>b, <2>1 DEF Free, RunType
  <2> QED BY <1>m, <2>1, <2>2, <2>3 DEF CmdReg
<1>g. ASSUME NEW v \in VM, NEW p \in {"low", "high", "cmd"}, Goto(v, p),
             run[v].pc \in {"low", "high", "cmd"},
             UNCHANGED <<app, turn, reads, writes, reader, buf>>,
             UNCHANGED box \/ Store(v, "LOW") \/ Store(v, "HIGH")
      PROVE  DeliveryInv'
  <2>1. run' = [run EXCEPT ![v] = [run[v] EXCEPT !.pc = p]]
    BY <1>g DEF Goto
  <2>2. LET x == [run[v] EXCEPT !.pc = p] IN x.by = run[v].by /\ x.cmd = run[v].cmd
    BY <1>b DEF RunType
  <2>3. \A u \in VM : CmdReg(u)' = CmdReg(u)
    <3>1. ASSUME NEW r \in {"LOW", "HIGH"}, Store(v, r), NEW u \in VM
          PROVE  CmdReg(u)' = CmdReg(u)
      <4>1. Peer(v) \in VM /\ box[Peer(v)] \in [Regs -> Commands]
        BY <1>b, <1>c
      <4>2. box' = [box EXCEPT ![Peer(v)] = [box[Peer(v)] EXCEPT ![r] = run[v].cmd]]
        BY <3>1 DEF Store
      <4> QED BY <1>c, <3>1, <4>1, <4>2 DEF CmdReg, Regs
    <3> QED BY <1>g, <3>1 DEF CmdReg
  <2> QED BY <1>g, <1>m, <2>1, <2>2, <2>3
<1>7. ASSUME NEW v \in VM, SendLow(v) PROVE DeliveryInv'
  BY <1>7, <1>g DEF SendLow, At
<1>8. ASSUME NEW v \in VM, SendHigh(v) PROVE DeliveryInv'
  BY <1>8, <1>g DEF SendHigh, At
<1>9. ASSUME NEW v \in VM, SendCmd(v) PROVE DeliveryInv'
  <2> DEFINE w == Peer(v)
  <2>0. run[v].pc = "cmd" /\ run[v].by \in {"work", "tx"}
    BY <1>9, <1>a, <1>b DEF SendCmd, At, LockInv, RunType
  <2>1. CASE ~Empties(v, "CMD")
    BY <1>9, <2>1, <1>g DEF SendCmd, At
  <2>2. CASE Empties(v, "CMD")
    <3>1. /\ Store(v, "CMD") /\ Sent(v) /\ UNCHANGED <<app, loads, buf, reader, reads>>
          /\ CmdReg(w) = Empty
      BY <1>9, <2>2 DEF SendCmd, Empties, CmdReg
    <3>2. CmdReg(v)' = CmdReg(v) /\ CmdReg(w)' = run[v].cmd
      <4>1. box' = [box EXCEPT ![w] = [box[w] EXCEPT !["CMD"] = run[v].cmd]]
        BY <3>1 DEF Store
      <4>2. box \in [VM -> [Regs -> Commands]] /\ w \in VM /\ w # v /\ "CMD" \in Regs
        BY <1>b, <1>c DEF Regs
      <4> QED BY <4>1, <4>2 DEF CmdReg
    <3>3. CmdReg(w).cmd = "none" /\ Free.by = "none"
      BY <3>1, SMT DEF Empty, Command, Free
    <3>4. CASE run[v].by = "work"
      <4>1. run[v].cmd.cmd # "KICK"
        BY <1>b, <2>0, <3>4 DEF RunOk
      <4>2. UNCHANGED <<turn, writes>>
        BY <3>1, <3>4 DEF Sent
      <4>3. \/ run' = [run EXCEPT ![v] = Free]
            \/ run' = [run EXCEPT ![v] = [run[v] EXCEPT !.pc = "low",
                                            !.cmd = Command("XLAT", app[v].rx_buf)]]
        BY <3>1 DEF Sent, Release, Send
      <4>4. [run[v] EXCEPT !.pc = "low", !.cmd = Command("XLAT", app[v].rx_buf)].by = "work"
        BY <1>b, <3>4 DEF RunType
      <4>5. \A u \in VM : \/ CmdReg(u)' = CmdReg(u)
                          \/ CmdReg(u).cmd # "KICK" /\ CmdReg(u)'.cmd # "KICK"
        BY <3>2, <3>3, <4>1, TwoVMs
      <4> QED BY <1>m, <3>1, <3>3, <4>2, <4>3, <4>4, <4>5
    <3>5. CASE run[v].by = "tx"
      <4>1. run[v].cmd.cmd = "KICK" /\ app[v].peer_io
        BY <1>b, <2>0, <3>5 DEF RunOk
      <4>2. /\ turn = v /\ buf[w].payload = writes[v] + 1 /\ buf[w].len = run[v].cmd.data
        BY <2>0, <3>5 DEF DeliveryInv, Sending
      <4>3. /\ turn' = 0 /\ writes'[v] = writes[v] + 1 /\ writes'[w] = writes[w]
            /\ run'[v] = Free /\ run'[w] = run[w]
        <5>1. /\ turn' = 0 /\ writes' = [writes EXCEPT ![v] = @ + 1]
              /\ run' = [run EXCEPT ![v] = Free]
          BY <3>1, <3>5, <4>1 DEF Sent, Release
        <5> QED BY <1>b, <1>c, <5>1
      <4>4. Idle(v) /\ Idle(w) /\ run[w].by # "tx"
        <5>1. turn # 0
          BY <4>2, SMT DEF VM
        <5> QED BY <1>b, <3>5, <5>1, OneFrame
      <4>5. \A z \in VM : Sending(z)'
        BY <3>3, <4>3, <4>4, TwoVMs DEF Sending
      <4>6. UnderWay(w)'
        <5>1. app'[w].loaded /\ Peer(w) = v
          BY <1>b, <1>d, <3>1, <4>1
        <5>2. reads'[w] + 1 = writes'[v] /\ buf'[w].payload = writes'[v]
          BY <1>b, <3>1, <4>2, <4>3, <4>4 DEF Idle
        <5>3. /\ CmdReg(w)'.cmd = "KICK" /\ CmdReg(w)'.data = buf'[w].len
              /\ ~app'[w].rx_avail /\ reader'[w] = 0
          BY <3>1, <3>2, <4>1, <4>2, <4>4 DEF Idle
        <5> QED BY <5>1, <5>2, <5>3 DEF UnderWay
      <4>7. Idle(v)'
        BY <3>1, <3>2, <4>3, <4>4 DEF Idle
      <4> QED BY <1>b, <4>3, <4>5, <4>6, <4>7 DEF DeliveryInv
    <3> QED BY <2>0, <3>4, <3>5
  <2> QED BY <2>1, <2>2
<1>10. ASSUME NEW v \in VM, SendFail(v) PROVE DeliveryInv'
  <2>1. Free.by = "none"
    BY DEF Free
  <2> QED BY <1>10, <1>m, <2>1 DEF SendFail, Release, CmdReg
\* A writer has the turn, so that no frame is under way.
<1>h. ASSUME NEW v \in VM, turn = v, UNCHANGED <<app, box, turn, reads, writes, reader>>,
             Sending(v)', run'[Peer(v)] = run[Peer(v)]
      PROVE  DeliveryInv'
  <2> DEFINE w == Peer(v)
  <2>a. turn # 0 /\ w \in VM
    BY <1>b, <1>h, SMT DEF VM
  <2>1. turn # 0 /\ Idle(v) /\ Idle(w)
    BY <2>a, OneFrame
  <2>2. Idle(v)' /\ Idle(w)'
    BY <1>h, <2>1 DEF Idle, CmdReg
  <2>3. run[w].by # "tx"
    BY <1>b, <1>h DEF DeliveryInv, Sending
  <2>4. \A z \in VM : Sending(z)'
    BY <1>h, <2>3, TwoVMs DEF Sending
  <2> QED BY <1>h, <2>1, <2>2, <2>4, TwoVMs DEF DeliveryInv
<1>11. ASSUME NEW v \in VM, NEW len \in Lens, Commit(v, len) PROVE DeliveryInv'
  <2> DEFINE w == Peer(v)
  <2>1. /\ run[v].pc = "header" /\ UNCHANGED <<app, box, turn, reads, writes, reader>>
        /\ run' = [run EXCEPT ![v] = [run[v] EXCEPT !.pc = "low", !.cmd = Command("KICK", len)]]
        /\ Reaches(v) => buf' = [buf EXCEPT ![w].len = len]
    BY <1>11 DEF Commit, At, Send
  <2>2. run[v].by = "tx"
    BY <1>a, <1>b, <2>1 DEF LockInv, RunOk, RunType
  <2>3. Reaches(v)
    BY <1>b, <1>d, <2>2 DEF RunOk
  <2>4. buf'[w].len = len /\ buf'[w].payload = buf[w].payload
    <3>1. w \in VM /\ buf[w] \in [payload: Nat, len: Lens \cup {0}]
      BY <1>b, <1>c
    <3>2. buf' = [buf EXCEPT ![w] = [buf[w] EXCEPT !.len = len]]
      BY <2>1, <2>3
    <3>3. buf'[w] = [buf[w] EXCEPT !.len = len]
      BY <1>c, <3>1, <3>2
    <3> QED BY <3>1, <3>3
  <2>5. run'[w] = run[w] /\ run'[v].cmd.data = len
    BY <1>b, <1>c, <2>1, SMT DEF RunType, Command
  <2>6. turn = v /\ buf[w].payload = writes[v] + 1
    BY <2>2 DEF DeliveryInv, Sending
  <2>7. Sending(v)'
    BY <2>1, <2>4, <2>5, <2>6 DEF Sending
  <2> QED BY <1>h, <2>1, <2>5, <2>6, <2>7
<1>12. ASSUME NEW v \in VM, Write(v) PROVE DeliveryInv'
  <2> DEFINE w == Peer(v)
  <2>1. /\ turn = v /\ UNCHANGED <<app, box, turn, reads, writes, reader>>
        /\ run' = [run EXCEPT ![v] = [Free EXCEPT !.by = "tx", !.pc = "header"]]
        /\ Reaches(v) => buf' = [buf EXCEPT ![w].payload = writes[v] + 1]
        /\ app[v].peer_io
    BY <1>12 DEF Write
  <2>2. buf'[w].payload = writes[v] + 1
    BY <1>b, <1>c, <1>d, <2>1, SMT
  <2>3. run'[v].pc = "header" /\ run'[w] = run[w]
    BY <1>b, <1>c, <2>1 DEF Free
  <2>4. Sending(v)'
    BY <2>1, <2>2, <2>3 DEF Sending
  <2> QED BY <1>h, <2>1, <2>3, <2>4
<1>13. ASSUME NEW v \in VM, ReadCopy(v) PROVE DeliveryInv'
  <2> DEFINE w == Peer(v)
  <2>1. /\ app[v].rx_avail /\ reader' = [reader EXCEPT ![v] = buf[v].payload]
        /\ UNCHANGED <<app, run, box, buf, turn, writes, reads>>
    BY <1>13 DEF ReadCopy
  <2>2. turn = 0 /\ UnderWay(v) /\ Idle(w)
    BY <2>1, OneFrame DEF Idle
  <2>3. reader'[v] = buf[v].payload /\ reader'[w] = reader[w]
    BY <1>b, <1>c, <2>1
  <2>4. UnderWay(v)'
    BY <2>1, <2>2, <2>3 DEF UnderWay, CmdReg
  <2>5. Idle(w)'
    BY <2>1, <2>2, <2>3 DEF Idle, CmdReg
  <2>6. \A z \in VM : Sending(z)'
    BY <2>1 DEF DeliveryInv, Sending
  <2> QED BY <2>1, <2>2, <2>4, <2>5, <2>6 DEF DeliveryInv
<1>14. ASSUME NEW v \in VM, ReadDone(v) PROVE DeliveryInv'
  <2> DEFINE w == Peer(v)
  <2>1. /\ reader[v] # 0 /\ reader' = [reader EXCEPT ![v] = 0] /\ turn' = v
        /\ reads' = [reads EXCEPT ![v] = @ + 1]
        /\ app' = [app EXCEPT ![v] = [app[v] EXCEPT !.rx_avail = FALSE, !.rx_len = 0]]
        /\ UNCHANGED <<run, box, buf, writes>>
    BY <1>14 DEF ReadDone
  <2>2. turn = 0 /\ UnderWay(v) /\ Idle(w)
    BY <2>1, OneFrame DEF Idle
  <2>3. /\ reader'[v] = 0 /\ reader'[w] = reader[w]
        /\ reads'[v] = reads[v] + 1 /\ reads'[w] = reads[w] /\ app'[w] = app[w]
        /\ app'[v] = [app[v] EXCEPT !.rx_avail = FALSE, !.rx_len = 0]
    BY <1>b, <1>c, <2>1
  <2>4. app'[v].rx_avail = FALSE
    BY <1>b, <2>3 DEF AppType
  <2>5. Idle(v)'
    BY <2>1, <2>2, <2>3, <2>4 DEF Idle, UnderWay, CmdReg
  <2>6. Idle(w)'
    BY <1>b, <2>1, <2>2, <2>3 DEF Idle, CmdReg
  <2>7. \A z \in VM : run[z].by # "tx"
    BY <2>2, OneFrame
  <2>8. \A z \in VM : Sending(z)'
    BY <2>1, <2>7 DEF Sending
  <2>9. v # 0
    BY SMT DEF VM
  <2> QED BY <2>1, <2>5, <2>6, <2>8, <2>9, TwoVMs DEF DeliveryInv
<1> QED
  BY <1>0, <1>1, <1>2, <1>3, <1>4, <1>5, <1>6, <1>7, <1>8, <1>9, <1>10, <1>11,
     <1>12, <1>13, <1>14 DEF Next, Holder, Reader

LEMMA DeliveryInit == Init => DeliveryInv
<1> SUFFICES ASSUME Init PROVE DeliveryInv
  OBVIOUS
<1>1. \A v \in VM : /\ app[v].rx_avail = FALSE /\ run[v].by = "none" /\ reader[v] = 0
                    /\ reads[v] = 0 /\ writes[Peer(v)] = 0 /\ CmdReg(v).cmd = "none"
  BY PeerFacts DEF Init, Unloaded, Free, Empty, Command, CmdReg, Regs
<1>2. turn = 1
  BY DEF Init
<1>3. \A v \in VM : Sending(v)
  BY <1>1 DEF Sending
<1>4. \A v \in VM : Idle(v)
  BY <1>1 DEF Idle
<1> QED BY <1>2, <1>3, <1>4, SMT DEF DeliveryInv

\* The frame that read() returns is the one the invariant speaks of.
LEMMA ReadsInOrder ==
  ASSUME Inv, DeliveryInv, [Next]_vars, NEW v \in VM, reads'[v] # reads[v]
  PROVE  reader[v] = reads'[v]
<1>1. PICK u \in VM : ReadDone(u)
  <2>1. ASSUME NEW u \in VM, Probe(u) \/ SetRemoved(u) \/ Remove(u) \/ Event(u)
        PROVE  reads' = reads
    BY <2>1 DEF Probe, SetRemoved, Remove, Event
  <2>2. ASSUME NEW u \in VM, WorkStart(u) PROVE reads' = reads
    BY <2>2 DEF WorkStart
  <2>3. ASSUME NEW u \in VM, Receive(u) \/ Drained(u) PROVE reads' = reads
    BY <2>3 DEF Receive, Drained
  <2>4. ASSUME NEW u \in VM, SendLow(u) \/ SendHigh(u) \/ SendCmd(u) \/ SendFail(u)
        PROVE  reads' = reads
    BY <2>4 DEF SendLow, SendHigh, SendCmd, SendFail
  <2>5. ASSUME NEW u \in VM, Write(u) \/ ReadCopy(u) \/ \E len \in Lens : Commit(u, len)
        PROVE  reads' = reads
    BY <2>5 DEF Write, ReadCopy, Commit
  <2>6. UNCHANGED vars => reads' = reads
    BY DEF vars
  <2> QED BY <2>1, <2>2, <2>3, <2>4, <2>5, <2>6 DEF Next, Holder, Reader
<1>2. reader[u] # 0 /\ reads' = [reads EXCEPT ![u] = @ + 1]
  BY <1>1 DEF ReadDone
<1>3. u = v /\ reads'[v] = reads[v] + 1
  BY <1>2 DEF Inv, TypeOK
<1>4. UnderWay(v)
  BY <1>2, <1>3, OneFrame DEF Idle
<1> QED BY <1>2, <1>3, <1>4 DEF UnderWay

\* Modules that are loaded once, applications that take turns: no frame is lost
\* and none is read twice, for any number of frames of any lengths, although
\* commands are refused, restarted and given up, read() copies without the lock,
\* and the announcements of both drivers share the registers with the KICKs.
THEOREM FramesExactlyOnce == ASSUME LoadedOnce, Alternate PROVE Spec => ExactlyOnce
<1>1. Inv /\ WinInv /\ WinInv' /\ DeliveryInv /\ [Next]_vars => DeliveryInv'
  BY DeliveryStep
<1>2. Inv /\ DeliveryInv /\ [Next]_vars
        => [\A v \in VM : reads'[v] # reads[v] => reader[v] = reads'[v]]_vars
  BY ReadsInOrder
<1> QED BY <1>1, <1>2, DeliveryInit, WinAlways, PTL DEF Spec, ExactlyOnce
=============================================================================
