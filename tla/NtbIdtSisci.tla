----------------------------- MODULE NtbIdtSisci -----------------------------
(***************************************************************************)
(* The ntb_idt_sisci kernel driver on both VMs                             *)
(* (kernel_src/ntb-idt-sisci-app/ntb-idt-sisci-app.c): an application      *)
(* creates a segment, makes it available and removes it; the driver        *)
(* announces it to the peer, whose driver opens its memory window on it.   *)
(*                                                                         *)
(* A command is one message here: its three registers are written and read *)
(* by the protocol of ntb_idt_app, for which NtbIdtApp shows that commands *)
(* arrive whole.  The translation of a window is one shared register (BAR  *)
(* of BarWindow) that the drivers of both sides write.                     *)
(***************************************************************************)
EXTENDS Naturals, Sequences

CONSTANTS
  Exporters,  \* VMs whose application exports segments
  Ids,        \* segment ids
  MaxLoads,   \* bound: MaxLoads[v], how often the module is loaded on v
  MaxAllocs,  \* bound: buffers allocated on a VM
  Faults      \* allocations and window set-ups may fail

VM == {1, 2}
Peer(v) == 3 - v

ASSUME SisciConstants ==
  /\ Exporters \subseteq VM /\ Ids \subseteq Nat \ {0}
  /\ MaxLoads \in [VM -> Nat] /\ MaxAllocs \in Nat /\ Faults \in BOOLEAN

VARIABLES
  dev,      \* dev[v]: struct ntb_idt_sisci_dev, see Unloaded
  run,      \* run[v]: who holds app->lock, and what it has still to do
  pending,  \* pending[v]: an event is on its way to v, or service_work is queued
  box,      \* box[v]: inbound message registers
  link,     \* the link is enabled (external: partition table of the switch)
  win,      \* win[v]: the peer's buffer behind v's window, 0 when closed
  loads,    \* loads[v]: loads of the module so far
  allocs    \* allocs[v]: buffers so far; names the last one

vars == <<dev, run, pending, box, link, win, loads, allocs>>

\* A size or an address stands for the buffer that it belongs to.
Unloaded == [loaded |-> FALSE, removed |-> FALSE, link_up |-> FALSE,
             local_available |-> FALSE, local_published |-> FALSE,
             local_buf |-> 0, local_id |-> 0,
             remote_announced |-> FALSE, remote_id |-> 0, remote_size |-> 0,
             remote_xlat |-> 0, peer_ready |-> FALSE, peer_io |-> FALSE]

Command(c, d) == [cmd |-> c, data |-> d]
Empty == Command("none", 0)
Free == [by |-> "none", got |-> Empty, send |-> <<>>]

Attached(v) == dev[v].loaded /\ ~dev[v].removed
Unlocked(v) == run[v].by = "none"
Release(v) == run' = [run EXCEPT ![v] = Free]
Hold(v, by, cmds) == run' = [run EXCEPT ![v] = [Free EXCEPT !.by = by, !.send = cmds]]

\* A message or link event, if the driver is there: _link_event, _msg_event.
Notified(v) == pending[v] \/ Attached(v)

Outcome(ok) == ok \/ Faults
-----------------------------------------------------------------------------
(***************************************************************************)
(* Functions that work on the structure of one driver.                     *)
(***************************************************************************)
\* mark_peer_unready_locked; it also closes the window.
PeerUnready(d) == [d EXCEPT !.peer_io = FALSE, !.peer_ready = FALSE]

\* free_local_segment_locked; it also closes the peer's window.
FreeSegment(d) ==
  [d EXCEPT !.local_buf = 0, !.local_id = 0, !.local_available = FALSE,
            !.local_published = FALSE]

\* set_link and, on a link that is down, mark_peer_unready_locked.
LinkDown(d) ==
  [PeerUnready(d) EXCEPT !.link_up = FALSE, !.remote_announced = FALSE,
                         !.local_published = FALSE]

\* Mutant: the size is confused with the id.
AnnouncementId(d) ==
  IF d.link_up /\ d.local_available /\ d.local_buf # 0 /\ ~d.local_published
  THEN <<Command("SEGID", d.local_id), Command("SIZE", d.local_id),
         Command("XLAT", d.local_buf), Command("AVAIL", d.local_id)>>
  ELSE <<>>

\* Mutant: the address goes out after the segment is announced.
AnnouncementLate(d) ==
  IF d.link_up /\ d.local_available /\ d.local_buf # 0 /\ ~d.local_published
  THEN <<Command("SEGID", d.local_id), Command("SIZE", d.local_buf),
         Command("AVAIL", d.local_id), Command("XLAT", d.local_buf)>>
  ELSE <<>>

\* The commands that publish_available_locked sends.
Announcement(d) ==
  IF d.link_up /\ d.local_available /\ d.local_buf # 0 /\ ~d.local_published
  THEN <<Command("SEGID", d.local_id), Command("SIZE", d.local_buf),
         Command("XLAT", d.local_buf), Command("AVAIL", d.local_id)>>
  ELSE <<>>
-----------------------------------------------------------------------------
\* Both VMs have booted.
Init ==
  /\ dev = [v \in VM |-> Unloaded]
  /\ run = [v \in VM |-> Free]
  /\ pending = [v \in VM |-> FALSE]
  /\ box = [v \in VM |-> Empty]
  /\ link = FALSE
  /\ win = [v \in VM |-> 0]
  /\ loads = [v \in VM |-> 0]
  /\ allocs = [v \in VM |-> 0]
-----------------------------------------------------------------------------
(***************************************************************************)
(* Loading and unloading the module.                                       *)
(***************************************************************************)
\* ntb_idt_sisci_probe and _enable
Probe(v) ==
  /\ ~dev[v].loaded /\ loads[v] < MaxLoads[v]
  /\ dev' = [dev EXCEPT ![v] = [Unloaded EXCEPT !.loaded = TRUE]]
  /\ loads' = [loads EXCEPT ![v] = @ + 1]
  /\ box' = [box EXCEPT ![v] = Empty]
  /\ link' = TRUE
  /\ pending' = [pending EXCEPT ![Peer(v)] = Notified(Peer(v)), ![v] = TRUE]
  /\ UNCHANGED <<run, win, allocs>>

\* ntb_idt_sisci_set_removed and _disable; an application that has the device
\* open keeps the module loaded.
SetRemoved(v) ==
  /\ Attached(v) /\ loads[v] < MaxLoads[v]
  /\ run[v].by \in {"none", "drain", "work"}
  /\ dev' = [dev EXCEPT ![v].removed = TRUE, ![v].peer_ready = FALSE,
                        ![v].remote_announced = FALSE,
                        ![v].local_available = FALSE,
                        ![v].local_published = FALSE]
  /\ link' = FALSE
  /\ pending' = [pending EXCEPT ![Peer(v)] = Notified(Peer(v))]
  /\ UNCHANGED <<run, box, win, loads, allocs>>

\* The rest of ntb_idt_sisci_remove, once cancel_work_sync has waited.
Remove(v) ==
  /\ dev[v].removed /\ Unlocked(v)
  /\ dev' = [dev EXCEPT ![v] = Unloaded]
  /\ win' = [win EXCEPT ![v] = 0,
                        ![Peer(v)] = IF dev[v].local_buf # 0 THEN 0 ELSE @]
  /\ pending' = [pending EXCEPT ![v] = FALSE]
  /\ UNCHANGED <<run, box, link, loads, allocs>>
-----------------------------------------------------------------------------
(***************************************************************************)
(* ntb_idt_sisci_service_work.                                             *)
(***************************************************************************)
WorkStart(v) ==
  /\ pending[v] /\ Unlocked(v)
  /\ pending' = [pending EXCEPT ![v] = FALSE]
  /\ CASE dev[v].removed -> UNCHANGED <<dev, run, win>>
       [] ~dev[v].removed /\ ~link ->
            /\ dev' = [dev EXCEPT ![v] = LinkDown(@)]
            /\ win' = [win EXCEPT ![v] = 0]
            /\ UNCHANGED run
       [] OTHER ->
            /\ dev' = [dev EXCEPT ![v].link_up = TRUE]
            /\ Hold(v, "drain", <<>>)
            /\ UNCHANGED win
  /\ UNCHANGED <<box, link, loads, allocs>>

\* recv_cmd empties the registers before the command is handled.
Take(v) ==
  /\ run[v].by = "drain" /\ run[v].got = Empty /\ box[v] # Empty
  /\ run' = [run EXCEPT ![v].got = box[v]]
  /\ box' = [box EXCEPT ![v] = Empty]
  /\ UNCHANGED <<dev, pending, link, win, loads, allocs>>

Handling(v, c) == run[v].by = "drain" /\ run[v].got.cmd = c
Handled(v) ==
  /\ run' = [run EXCEPT ![v].got = Empty]
  /\ UNCHANGED <<pending, box, link, loads, allocs>>

HandleSegid(v) ==
  /\ Handling(v, "SEGID")
  /\ dev' = [dev EXCEPT ![v] = [PeerUnready(@) EXCEPT
               !.remote_id = run[v].got.data, !.remote_announced = FALSE]]
  /\ win' = [win EXCEPT ![v] = 0]
  /\ Handled(v)

HandleSize(v) ==
  /\ Handling(v, "SIZE")
  /\ dev' = [dev EXCEPT ![v].remote_size = run[v].got.data]
  /\ Handled(v) /\ UNCHANGED win

HandleXlat(v) ==
  /\ Handling(v, "XLAT")
  /\ dev' = [dev EXCEPT ![v].remote_xlat = run[v].got.data]
  /\ Handled(v) /\ UNCHANGED win

\* AVAIL, with setup_peer_mw_locked: the window opens unless it is open or the
\* segment is not known, or ioremap fails.
HandleAvail(v, ok) ==
  /\ Handling(v, "AVAIL")
  /\ LET d == [dev[v] EXCEPT !.remote_id = run[v].got.data,
                             !.remote_announced = TRUE]
     IN  IF d.peer_io \/ d.remote_xlat = 0 \/ d.remote_size = 0
         THEN /\ ok /\ dev' = [dev EXCEPT ![v] = d]
              /\ UNCHANGED win
         ELSE /\ Outcome(ok)
              /\ dev' = [dev EXCEPT ![v] =
                           [d EXCEPT !.peer_io = @ \/ ok, !.peer_ready = @ \/ ok]]
              /\ win' = [win EXCEPT ![v] = IF ok THEN d.remote_xlat ELSE 0]
  /\ Handled(v)

\* Mutant: the window stays open.
HandleUnavailOpen(v) ==
  /\ Handling(v, "UNAVAIL")
  /\ IF dev[v].remote_id = run[v].got.data
     THEN dev' = [dev EXCEPT ![v].remote_announced = FALSE]
     ELSE UNCHANGED dev
  /\ Handled(v) /\ UNCHANGED win

HandleUnavail(v) ==
  /\ Handling(v, "UNAVAIL")
  /\ IF dev[v].remote_id = run[v].got.data
     THEN /\ dev' = [dev EXCEPT ![v] =
                       [PeerUnready(@) EXCEPT !.remote_announced = FALSE]]
          /\ win' = [win EXCEPT ![v] = 0]
     ELSE UNCHANGED <<dev, win>>
  /\ Handled(v)

\* No command is left: publish_available_locked.
Drained(v) ==
  /\ run[v].by = "drain" /\ run[v].got = Empty /\ box[v] = Empty
  /\ IF Announcement(dev[v]) = <<>> THEN Release(v)
                                    ELSE Hold(v, "work", Announcement(dev[v]))
  /\ UNCHANGED <<dev, pending, box, link, win, loads, allocs>>
-----------------------------------------------------------------------------
(***************************************************************************)
(* ntb_idt_sisci_send_cmd, and what its caller does when all commands are  *)
(* out or one has failed.                                                  *)
(***************************************************************************)
Sending(v) == run[v].send # <<>>

\* Mutant: the peer is not interrupted.
SendCmdSilent(v) ==
  /\ Sending(v) /\ link /\ box[Peer(v)] = Empty
  /\ box' = [box EXCEPT ![Peer(v)] = Head(run[v].send)]
  /\ run' = [run EXCEPT ![v].send = Tail(@)]
  /\ UNCHANGED <<dev, pending, link, win, loads, allocs>>

SendCmd(v) ==
  /\ Sending(v) /\ link /\ box[Peer(v)] = Empty
  /\ box' = [box EXCEPT ![Peer(v)] = Head(run[v].send)]
  /\ pending' = [pending EXCEPT ![Peer(v)] = Notified(Peer(v))]
  /\ run' = [run EXCEPT ![v].send = Tail(@)]
  /\ UNCHANGED <<dev, link, win, loads, allocs>>

\* -ENOLINK, or -EAGAIN after 100 tries, which are enough unless nobody can
\* empty the peer's registers: its driver is not there, or holds its lock and
\* waits for room itself.
Blocked(v) == Sending(v) /\ box[Peer(v)] # Empty
SendFail(v) ==
  /\ Sending(v)
  /\ ~link \/ (Blocked(v) /\ (~Attached(Peer(v)) \/ Blocked(Peer(v))))
  /\ Release(v)
  /\ UNCHANGED <<dev, pending, box, link, win, loads, allocs>>

\* All commands are out.
SendDone(v) ==
  /\ run[v].by \in {"work", "avail", "unavail", "remove"} /\ ~Sending(v)
  /\ dev' = CASE run[v].by \in {"work", "avail"} ->
                   [dev EXCEPT ![v].local_published = TRUE]
              [] run[v].by = "remove" -> [dev EXCEPT ![v] = FreeSegment(@)]
              [] OTHER -> dev
  /\ win' = IF run[v].by = "remove" THEN [win EXCEPT ![Peer(v)] = 0] ELSE win
  /\ Release(v)
  /\ UNCHANGED <<pending, box, link, loads, allocs>>
-----------------------------------------------------------------------------
(***************************************************************************)
(* The ioctls of an exporting application.                                 *)
(***************************************************************************)
\* CREATE_SEGMENT, alloc_local_segment_locked: a segment that exists, is not
\* available and has another id or is too small, is freed first.
CreateSegment(v, id, ok) ==
  /\ Attached(v) /\ Unlocked(v) /\ allocs[v] < MaxAllocs
  /\ dev[v].local_buf # 0 => ~dev[v].local_available
  /\ Outcome(ok)
  /\ allocs' = [allocs EXCEPT ![v] = IF ok THEN @ + 1 ELSE @]
  /\ dev' = [dev EXCEPT ![v] =
               IF ok THEN [FreeSegment(@) EXCEPT !.local_buf = allocs[v] + 1,
                                                 !.local_id = id]
                     ELSE FreeSegment(@)]
  /\ win' = [win EXCEPT ![Peer(v)] = IF ok THEN allocs[v] + 1
                                     ELSE IF dev[v].local_buf # 0 THEN 0 ELSE @]
  /\ UNCHANGED <<run, pending, box, link, loads>>

HasSegment(v) == Attached(v) /\ Unlocked(v) /\ dev[v].local_buf # 0

\* SET_AVAILABLE
SetAvailable(v) ==
  LET d == [dev[v] EXCEPT !.local_available = TRUE, !.local_published = FALSE]
  IN  /\ HasSegment(v)
      /\ dev' = [dev EXCEPT ![v] = d]
      /\ IF Announcement(d) = <<>> THEN UNCHANGED run
                                   ELSE Hold(v, "avail", Announcement(d))
      /\ UNCHANGED <<pending, box, link, win, loads, allocs>>

\* SET_UNAVAILABLE and REMOVE_SEGMENT, with publish_unavailable_locked: the
\* peer is told if it was told of the segment, then REMOVE frees the segment.
Withdraw(v, by) ==
  LET d == [dev[v] EXCEPT !.local_available = FALSE, !.local_published = FALSE]
  IN  /\ HasSegment(v)
      /\ IF dev[v].link_up /\ dev[v].local_published
         THEN /\ dev' = [dev EXCEPT ![v] = d]
              /\ Hold(v, by, <<Command("UNAVAIL", d.local_id)>>)
              /\ UNCHANGED win
         ELSE /\ dev' = [dev EXCEPT ![v] = IF by = "remove" THEN FreeSegment(d) ELSE d]
              /\ win' = IF by = "remove" THEN [win EXCEPT ![Peer(v)] = 0] ELSE win
              /\ UNCHANGED run
      /\ UNCHANGED <<pending, box, link, loads, allocs>>
-----------------------------------------------------------------------------
Handle(v) ==
  \/ HandleSegid(v) \/ HandleSize(v) \/ HandleXlat(v)
  \/ \E ok \in BOOLEAN : HandleAvail(v, ok)
  \/ HandleUnavail(v)

\* What the holder of the lock does next.
Holder(v) ==
  \/ Take(v) \/ Handle(v) \/ Drained(v)
  \/ SendCmd(v) \/ SendFail(v) \/ SendDone(v)

Driver(v) == WorkStart(v) \/ Holder(v)

Application(v) ==
  \/ \E id \in Ids, ok \in BOOLEAN : CreateSegment(v, id, ok)
  \/ SetAvailable(v)
  \/ \E by \in {"unavail", "remove"} : Withdraw(v, by)

Next ==
  \/ \E v \in VM : Probe(v) \/ SetRemoved(v) \/ Remove(v) \/ Driver(v)
  \/ \E v \in Exporters : Application(v)

Spec == Init /\ [][Next]_vars
-----------------------------------------------------------------------------
Bufs == 0..MaxAllocs
IdsOr0 == Ids \cup {0}
Device ==
  [loaded: BOOLEAN, removed: BOOLEAN, link_up: BOOLEAN,
   local_available: BOOLEAN, local_published: BOOLEAN,
   local_buf: Bufs, local_id: IdsOr0,
   remote_announced: BOOLEAN, remote_id: IdsOr0, remote_size: Bufs,
   remote_xlat: Bufs, peer_ready: BOOLEAN, peer_io: BOOLEAN]
Commands ==
  {Empty} \cup [cmd: {"SEGID", "AVAIL", "UNAVAIL"}, data: IdsOr0]
          \cup [cmd: {"SIZE", "XLAT"}, data: Bufs]
Holding ==
  [by: {"none", "drain", "work", "avail", "unavail", "remove"},
   got: Commands, send: Seq(Commands)]

TypeOK ==
  /\ dev \in [VM -> Device] /\ run \in [VM -> Holding]
  /\ pending \in [VM -> BOOLEAN] /\ box \in [VM -> Commands]
  /\ link \in BOOLEAN /\ win \in [VM -> Bufs]
  /\ loads \in [VM -> Nat] /\ allocs \in [VM -> Bufs]

(***************************************************************************)
(* Whenever an application can get at it (app->lock is free), a window is  *)
(* closed or open on the segment that the peer has now, never on memory    *)
(* that free_local_segment_locked gave back, although the driver of either *)
(* side opens and closes it and a command is handled after its registers   *)
(* were emptied.                                                           *)
(***************************************************************************)
WindowLive ==
  \A v \in VM : Attached(v) /\ Unlocked(v) =>
                  win[v] \in {0, dev[Peer(v)].local_buf}

(***************************************************************************)
(* When no command, event or work is under way, a connected segment (what  *)
(* CONNECT_SEGMENT returns) is the one that the peer has made available:   *)
(* the same id, the size and the address of the same buffer, and a window  *)
(* on it.                                                                  *)
(***************************************************************************)
Quiet ==
  \A v \in VM : /\ box[v] = Empty /\ Unlocked(v) /\ ~pending[v]
                /\ ~dev[v].removed
Connected(v) ==
  LET d == dev[v]
      p == dev[Peer(v)]
  IN  /\ d.peer_ready /\ d.remote_id = p.local_id
      /\ {d.remote_size, d.remote_xlat, win[v]} = {p.local_buf}
SegmentAgreed ==
  Quiet => \A v \in VM : dev[v].peer_ready =>
             Connected(v) /\ dev[Peer(v)].local_available

(***************************************************************************)
(* A segment that is made available becomes connected on the peer, in      *)
(* whatever order the modules are loaded, unless it is withdrawn, the peer *)
(* unloads its module or cannot set up its window.  SET_AVAILABLE itself   *)
(* may fail while the peer is not loaded: service_work publishes later.    *)
(***************************************************************************)
SetupFailed(v) == dev[v].remote_announced /\ ~dev[v].peer_io
Connects ==
  \A v \in Exporters :
    (dev[v].local_available /\ Attached(Peer(v))) ~>
      \/ Connected(Peer(v))
      \/ ~dev[v].local_available
      \/ loads[Peer(v)] > 1 \/ dev[Peer(v)].removed \/ SetupFailed(Peer(v))
=============================================================================
