------------------------------ MODULE NtbIdtApp ------------------------------
(***************************************************************************)
(* The ntb_idt_app kernel driver on both VMs                               *)
(* (kernel_src/ntb-idt-app/ntb-idt-app.c): how each side announces its     *)
(* inbound window with a SIZE and an XLAT command, sets up the outbound    *)
(* window from the peer's, and passes frames with KICK commands.           *)
(*                                                                         *)
(* A command takes three message registers; the registers behave as the    *)
(* mailboxes of MessageChannel (a write to a full one is refused, the      *)
(* receiver empties all of them at once).  app->lock is held by the worker *)
(* or by one writer at a time, and it is held while a command is sent.     *)
(***************************************************************************)
EXTENDS Naturals, FiniteSets

CONSTANTS
  MaxLoads,   \* bound: MaxLoads[v], how often the module is loaded on v
  MaxFrames,  \* bound: frames a side sends
  Lens,       \* payload lengths
  Alternate,  \* the two applications take turns: send, then wait for an answer
  Patient,    \* send_cmd gives up only when the peer cannot make room
  Faults      \* setting up a memory window may fail

VM == {1, 2}
Peer(v) == 3 - v

ASSUME AppConstants ==
  /\ MaxLoads \in [VM -> Nat] /\ MaxFrames \in Nat
  /\ Lens \subseteq Nat \ {0}
  /\ Alternate \in BOOLEAN /\ Patient \in BOOLEAN /\ Faults \in BOOLEAN

VARIABLES
  app,      \* app[v]: struct ntb_idt_app_dev, see App
  run,      \* run[v]: who holds app->lock, at which point, and the command sent
  pending,  \* pending[v]: service_work is queued
  irq,      \* irq[v]: a message or link event is on its way to v's driver
  box,      \* box[v]: inbound message registers; a register holds its command
  link,     \* the link is enabled (external: partition table of the switch)
  loads,    \* loads[v]: loads so far; names the inbound buffer of this load
  buf,      \* buf[v]: the frame in v's inbound buffer
  reader,   \* reader[v]: payload that read() has copied, 0 when outside read()
  turn,     \* the application that may send, 0 while a frame is under way
  writes,   \* writes[v]: frames whose write() succeeded
  reads     \* reads[v]: frames whose read() returned

vars == <<app, run, pending, irq, box, link, loads, buf, reader, turn, writes,
          reads>>

\* peer_size, peer_xlat and rx_buf name the load of the module they come from;
\* 0 stands for the zero of a fresh structure.
Unloaded == [loaded |-> FALSE, removed |-> FALSE, link_up |-> FALSE,
             peer_ready |-> FALSE, peer_size |-> 0, peer_xlat |-> 0,
             peer_io |-> FALSE, rx_buf |-> 0, rx_avail |-> FALSE, rx_len |-> 0]

Command(c, d) == [cmd |-> c, data |-> d]
Empty == Command("none", 0)
Free == [by |-> "none", pc |-> "idle", cmd |-> Empty]
NoFrame == [payload |-> 0, len |-> 0]

Regs == {"LOW", "HIGH", "CMD"}
Outcomes == IF Faults THEN BOOLEAN ELSE {TRUE}

\* The driver is called for events: between ntb_set_ctx and ntb_clear_ctx.
Attached(v) == app[v].loaded /\ ~app[v].removed

Unlocked(v) == run[v].by = "none"
At(v, point) == run[v].pc = point
Release(v) == run' = [run EXCEPT ![v] = Free]
Goto(v, point) == run' = [run EXCEPT ![v].pc = point]
Send(v, c, d) ==
  run' = [run EXCEPT ![v].pc = "low", ![v].cmd = Command(c, d)]
-----------------------------------------------------------------------------
Init ==
  /\ app = [v \in VM |-> Unloaded]
  /\ run = [v \in VM |-> Free]
  /\ pending = [v \in VM |-> FALSE]
  /\ irq = [v \in VM |-> FALSE]
  /\ box = [v \in VM |-> [r \in Regs |-> Empty]]
  /\ link = FALSE
  /\ loads = [v \in VM |-> 0]
  /\ buf = [v \in VM |-> NoFrame]
  /\ reader = [v \in VM |-> 0]
  /\ turn = 1
  /\ writes = [v \in VM |-> 0]
  /\ reads = [v \in VM |-> 0]
-----------------------------------------------------------------------------
(***************************************************************************)
(* Loading and unloading the module.                                       *)
(***************************************************************************)
\* ntb_idt_app_probe and _enable: clear the own message status, enable the
\* link, which signals the peer, and queue the first work.  A load that meets
\* the peer between the registers of one command is left out.
Probe(v) ==
  /\ ~app[v].loaded /\ loads[v] < MaxLoads[v]
  /\ run[Peer(v)].pc \notin {"high", "cmd"}
  /\ app' = [app EXCEPT ![v] = [Unloaded EXCEPT !.loaded = TRUE]]
  /\ loads' = [loads EXCEPT ![v] = @ + 1]
  /\ box' = [box EXCEPT ![v] = [r \in Regs |-> Empty]]
  /\ buf' = [buf EXCEPT ![v] = NoFrame]
  /\ link' = TRUE
  /\ irq' = [irq EXCEPT ![Peer(v)] = Attached(Peer(v)), ![v] = TRUE]
  /\ UNCHANGED <<run, pending, reader, turn, writes, reads>>

\* ntb_idt_app_set_removed and _disable.  The module is in use, and cannot be
\* unloaded, while an application has the device open.
SetRemoved(v) ==
  /\ app[v].loaded /\ ~app[v].removed
  /\ loads[v] < MaxLoads[v]
  /\ run[v].by # "tx" /\ reader[v] = 0
  /\ app' = [app EXCEPT ![v].removed = TRUE, ![v].peer_ready = FALSE]
  /\ link' = FALSE
  /\ irq' = [irq EXCEPT ![Peer(v)] = Attached(Peer(v)), ![v] = FALSE]
  /\ UNCHANGED <<run, pending, box, loads, buf, reader, turn, writes, reads>>

\* The rest of ntb_idt_app_remove, once cancel_work_sync has waited.
Remove(v) ==
  /\ app[v].removed /\ Unlocked(v)
  /\ app' = [app EXCEPT ![v] = Unloaded]
  /\ pending' = [pending EXCEPT ![v] = FALSE]
  /\ UNCHANGED <<run, irq, box, link, loads, buf, reader, turn, writes, reads>>

\* ntb_idt_app_link_event and _msg_event queue the work.
Event(v) ==
  /\ irq[v]
  /\ irq' = [irq EXCEPT ![v] = FALSE]
  /\ pending' = [pending EXCEPT ![v] = TRUE]
  /\ UNCHANGED <<app, run, box, link, loads, buf, reader, turn, writes, reads>>
-----------------------------------------------------------------------------
(***************************************************************************)
(* ntb_idt_app_service_work.                                               *)
(***************************************************************************)
\* Up to the inbound window: set_link, setup_inbound_mw.
WorkStart(v) ==
  /\ pending[v] /\ Unlocked(v)
  /\ pending' = [pending EXCEPT ![v] = FALSE]
  /\ \E ok \in Outcomes :
       LET a == app[v]
           up == [a EXCEPT !.link_up = TRUE]
       IN  CASE a.removed -> UNCHANGED <<app, run>>
             [] ~a.removed /\ ~link ->
                  /\ app' = [app EXCEPT ![v] = [a EXCEPT !.link_up = FALSE,
                                                         !.peer_ready = FALSE]]
                  /\ UNCHANGED run
             [] ~a.removed /\ link /\ a.rx_buf = 0 /\ ~ok ->
                  app' = [app EXCEPT ![v] = up] /\ UNCHANGED run
             [] OTHER ->
                  /\ app' = [app EXCEPT ![v] = [up EXCEPT !.rx_buf = loads[v]]]
                  /\ run' = [run EXCEPT ![v] = [Free EXCEPT !.by = "work",
                                                            !.pc = "drain"]]
  /\ UNCHANGED <<irq, box, link, loads, buf, reader, turn, writes, reads>>

\* Mutant: one of the two commands is enough.
TrySetupPeerEarly(a, ok) ==
  IF (a.peer_xlat # 0 \/ a.peer_size # 0) /\ ok
  THEN [a EXCEPT !.peer_ready = TRUE, !.peer_io = TRUE] ELSE a

\* try_setup_peer_locked and setup_peer_mw: a failure leaves the window
\* unmapped and forgets what the peer announced.
TrySetupPeer(a, ok) ==
  CASE a.peer_xlat = 0 \/ a.peer_size = 0 -> a
    [] a.peer_xlat # 0 /\ a.peer_size # 0 /\ ok ->
         [a EXCEPT !.peer_ready = TRUE, !.peer_io = TRUE]
    [] OTHER -> [a EXCEPT !.peer_io = FALSE, !.peer_size = 0, !.peer_xlat = 0]

\* Mutant: the frame header is counted in.
CompleteRxFrame(v, a, len) ==
  IF buf[v].len = len THEN [a EXCEPT !.rx_avail = TRUE, !.rx_len = len + 16] ELSE a

\* complete_rx: the frame header must agree with the KICK.
CompleteRx(v, a, len) ==
  IF buf[v].len = len THEN [a EXCEPT !.rx_avail = TRUE, !.rx_len = len] ELSE a

Full(v) == \A r \in Regs : box[v][r] # Empty

Handled(v, cmd, data, ok) ==
  LET a == app[v]
  IN  CASE cmd = "SIZE" -> TrySetupPeer([a EXCEPT !.peer_size = data], ok)
        [] cmd = "XLAT" -> TrySetupPeer([a EXCEPT !.peer_xlat = data], ok)
        [] cmd = "KICK" -> CompleteRx(v, a, data)
        [] OTHER -> a

\* Mutant: only the command register is emptied.
ReceiveKeepsData(v) ==
  /\ run[v].by = "work" /\ At(v, "drain") /\ Full(v)
  /\ \E ok \in Outcomes :
       app' = [app EXCEPT ![v] =
                 Handled(v, box[v]["CMD"].cmd, box[v]["LOW"].data, ok)]
  /\ box' = [box EXCEPT ![v]["CMD"] = Empty]
  /\ UNCHANGED <<run, pending, irq, link, loads, buf, reader, turn, writes,
                 reads>>

\* recv_cmd takes the command and empties the registers.
Receive(v) ==
  /\ run[v].by = "work" /\ At(v, "drain") /\ Full(v)
  /\ \E ok \in Outcomes :
       app' = [app EXCEPT ![v] =
                 Handled(v, box[v]["CMD"].cmd, box[v]["LOW"].data, ok)]
  /\ box' = [box EXCEPT ![v] = [r \in Regs |-> Empty]]
  /\ UNCHANGED <<run, pending, irq, link, loads, buf, reader, turn, writes,
                 reads>>

\* No (complete) command is left: publish_ready unless the peer is ready.
Drained(v) ==
  /\ run[v].by = "work" /\ At(v, "drain") /\ ~Full(v)
  /\ IF app[v].peer_ready THEN Release(v) ELSE Send(v, "SIZE", app[v].rx_buf)
  /\ UNCHANGED <<app, pending, irq, box, link, loads, buf, reader, turn,
                 writes, reads>>
-----------------------------------------------------------------------------
(***************************************************************************)
(* ntb_idt_app_send_cmd.  A try writes the registers in order; one that is *)
(* refused starts over after a pause.                                      *)
(***************************************************************************)
Empties(v, r) == box[Peer(v)][r] = Empty
Store(v, r) == box' = [box EXCEPT ![Peer(v)][r] = run[v].cmd]

\* Mutant: a refused first write goes unnoticed and takes effect.
SendLowUnchecked(v) ==
  /\ At(v, "low") /\ link
  /\ Store(v, "LOW") /\ Goto(v, "high")
  /\ UNCHANGED <<app, pending, irq, link, loads, buf, reader, turn, writes,
                 reads>>

SendLow(v) ==
  /\ At(v, "low") /\ link /\ Empties(v, "LOW")
  /\ Store(v, "LOW") /\ Goto(v, "high")
  /\ UNCHANGED <<app, pending, irq, link, loads, buf, reader, turn, writes,
                 reads>>

SendHigh(v) ==
  /\ At(v, "high")
  /\ IF Empties(v, "HIGH")
     THEN Store(v, "HIGH") /\ Goto(v, "cmd")
     ELSE Goto(v, "low") /\ UNCHANGED box
  /\ UNCHANGED <<app, pending, irq, link, loads, buf, reader, turn, writes,
                 reads>>

\* Mutant: a KICK does not interrupt the peer.
SentSilent(v) ==
  /\ irq' = IF run[v].by = "tx" THEN irq
            ELSE [irq EXCEPT ![Peer(v)] = Attached(Peer(v))]
  /\ IF run[v].cmd.cmd = "SIZE" THEN Send(v, "XLAT", app[v].rx_buf)
                                ELSE Release(v)
  /\ IF run[v].by = "tx"
     THEN writes' = [writes EXCEPT ![v] = @ + 1] /\ turn' = 0
     ELSE UNCHANGED <<writes, turn>>

\* The command register is the one whose arrival interrupts the peer.  The
\* worker goes on from SIZE to XLAT; a writer returns.
Sent(v) ==
  /\ irq' = [irq EXCEPT ![Peer(v)] = Attached(Peer(v))]
  /\ IF run[v].cmd.cmd = "SIZE" THEN Send(v, "XLAT", app[v].rx_buf)
                                ELSE Release(v)
  /\ IF run[v].by = "tx"
     THEN writes' = [writes EXCEPT ![v] = @ + 1] /\ turn' = 0
     ELSE UNCHANGED <<writes, turn>>

SendCmd(v) ==
  /\ At(v, "cmd")
  /\ IF Empties(v, "CMD")
     THEN Store(v, "CMD") /\ Sent(v)
     ELSE Goto(v, "low") /\ UNCHANGED <<box, irq, writes, turn>>
  /\ UNCHANGED <<app, pending, link, loads, buf, reader, reads>>

\* -ENOLINK, or -EAGAIN after 100 tries.  A patient sender runs out of tries
\* only when nobody can empty the peer's registers: its driver is not loaded,
\* or whoever holds its lock is waiting for room itself.
Blocked(v) == At(v, "low") /\ ~Empties(v, "LOW")
CannotMakeRoom(v) == ~Attached(v) \/ Blocked(v)
SendFail(v) ==
  /\ At(v, "low")
  /\ ~link \/ (Blocked(v) /\ (Patient => CannotMakeRoom(Peer(v))))
  /\ Release(v)
  /\ UNCHANGED <<app, pending, irq, box, link, loads, buf, reader, turn,
                 writes, reads>>
-----------------------------------------------------------------------------
(***************************************************************************)
(* The character device.                                                   *)
(***************************************************************************)
\* The outbound window reaches the peer's present buffer, or memory that the
\* peer has given back.
Reaches(v) == app[v].peer_xlat = loads[Peer(v)] /\ app[Peer(v)].rx_buf # 0

\* ntb_idt_app_write up to the payload copy.
Write(v) ==
  /\ Alternate => turn = v
  /\ writes[v] < MaxFrames
  /\ app[v].peer_ready /\ app[v].link_up /\ app[v].peer_io /\ ~app[v].removed
  /\ Unlocked(v)
  /\ run' = [run EXCEPT ![v] = [Free EXCEPT !.by = "tx", !.pc = "header"]]
  /\ buf' = IF Reaches(v)
            THEN [buf EXCEPT ![Peer(v)].payload = writes[v] + 1] ELSE buf
  /\ UNCHANGED <<app, pending, irq, box, link, loads, reader, turn, writes,
                 reads>>

\* ntb_idt_app_tx_commit_locked: the frame header, then the KICK.
Commit(v, len) ==
  /\ At(v, "header")
  /\ buf' = IF Reaches(v) THEN [buf EXCEPT ![Peer(v)].len = len] ELSE buf
  /\ Send(v, "KICK", len)
  /\ UNCHANGED <<app, pending, irq, box, link, loads, reader, turn, writes,
                 reads>>

\* ntb_idt_app_read copies without the lock and only then drops rx_avail.
ReadCopy(v) ==
  /\ app[v].rx_avail /\ ~app[v].removed /\ reader[v] = 0
  /\ reader' = [reader EXCEPT ![v] = buf[v].payload]
  /\ UNCHANGED <<app, run, pending, irq, box, link, loads, buf, turn, writes,
                 reads>>

\* Mutant: the frame stays available.
ReadDoneAgain(v) ==
  /\ reader[v] # 0
  /\ reader' = [reader EXCEPT ![v] = 0]
  /\ reads' = [reads EXCEPT ![v] = @ + 1]
  /\ turn' = v
  /\ UNCHANGED <<app, run, pending, irq, box, link, loads, buf, writes>>

ReadDone(v) ==
  /\ reader[v] # 0
  /\ app' = [app EXCEPT ![v].rx_avail = FALSE, ![v].rx_len = 0]
  /\ reader' = [reader EXCEPT ![v] = 0]
  /\ reads' = [reads EXCEPT ![v] = @ + 1]
  /\ turn' = v
  /\ UNCHANGED <<run, pending, irq, box, link, loads, buf, writes>>
-----------------------------------------------------------------------------
\* What the holder of the lock does next.
Holder(v) ==
  \/ Receive(v) \/ Drained(v)
  \/ SendLow(v) \/ SendHigh(v) \/ SendCmd(v) \/ SendFail(v)
  \/ \E len \in Lens : Commit(v, len)

Reader(v) == ReadCopy(v) \/ ReadDone(v)

Next ==
  \E v \in VM :
    \/ Probe(v) \/ SetRemoved(v) \/ Remove(v)
    \/ Event(v) \/ WorkStart(v) \/ Holder(v)
    \/ Write(v)
    \/ Reader(v)

Spec == Init /\ [][Next]_vars

\* The kernel runs queued work and interrupts; both modules are loaded, and an
\* application is reading on each side.
FairSpec ==
  /\ Spec
  /\ \A v \in VM : /\ WF_vars(Probe(v))
                   /\ WF_vars(Event(v))
                   /\ WF_vars(WorkStart(v))
                   /\ WF_vars(Holder(v))
                   /\ WF_vars(Reader(v))
-----------------------------------------------------------------------------
Commands == [cmd: {"none", "SIZE", "XLAT", "KICK"}, data: Nat]
AppType == [loaded: BOOLEAN, removed: BOOLEAN, link_up: BOOLEAN,
            peer_ready: BOOLEAN, peer_size: Nat, peer_xlat: Nat,
            peer_io: BOOLEAN, rx_buf: Nat, rx_avail: BOOLEAN,
            rx_len: Lens \cup {0}]
RunType == [by: {"none", "work", "tx"}, cmd: Commands,
            pc: {"idle", "drain", "low", "high", "cmd", "header"}]

TypeOK ==
  /\ app \in [VM -> AppType]
  /\ run \in [VM -> RunType]
  /\ pending \in [VM -> BOOLEAN]
  /\ irq \in [VM -> BOOLEAN]
  /\ box \in [VM -> [Regs -> Commands]]
  /\ link \in BOOLEAN
  /\ loads \in [VM -> Nat]
  /\ buf \in [VM -> [payload: Nat, len: Lens \cup {0}]]
  /\ reader \in [VM -> Nat]
  /\ turn \in VM \cup {0}
  /\ writes \in [VM -> Nat]
  /\ reads \in [VM -> Nat]

\* recv_cmd never assembles a command from registers of two different ones: a
\* sender that starts over, gives up or is overtaken by the other side leaves no
\* register behind that the next command would be mixed with.
CommandIntact ==
  \A v \in VM : Full(v) => \A r \in Regs : box[v][r] = box[v]["CMD"]

\* Why: outside the three writes of a command the registers are all empty or
\* hold one command, and inside them the rest is still empty, so that only the
\* first write of a try is ever refused.
RegistersInv ==
  \A v \in VM :
    LET sender == run[Peer(v)]
        low == box[v]["LOW"]
        high == box[v]["HIGH"]
        cmd == box[v]["CMD"]
    IN  /\ sender.pc = "high" => low = sender.cmd /\ high = Empty /\ cmd = Empty
        /\ sender.pc = "cmd" => low = sender.cmd /\ high = sender.cmd /\ cmd = Empty
        /\ sender.pc \notin {"high", "cmd"} => low = cmd /\ high = cmd

\* A side that is ready has the outbound window on the peer's inbound buffer,
\* with the size that belongs to it, although size and address come in two
\* commands, are repeated, and are mixed with KICKs and give-ups.
WindowRight ==
  \A v \in VM :
    app[v].peer_ready =>
      /\ app[v].peer_xlat = loads[Peer(v)] /\ app[v].peer_size = loads[Peer(v)]
      /\ app[v].peer_io
      /\ app[Peer(v)].rx_buf = loads[Peer(v)]

\* Two applications that take turns lose no frame and read none twice: the n-th
\* read returns the n-th frame that was written.
ExactlyOnce ==
  [][\A v \in VM : reads'[v] # reads[v] => reader[v] = reads'[v]]_vars

\* A frame whose write() succeeded is read.
FrameRead ==
  \A v \in VM : reads[v] < writes[Peer(v)] ~> reads[v] >= writes[Peer(v)]

\* "Load it on both VMs ... Then userspace applications can use ordinary
\* character-device I/O": once both modules are loaded, both sides become ready
\* to write.
BothReady == <>(\A v \in VM : app[v].peer_ready)
=============================================================================
