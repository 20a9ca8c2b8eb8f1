----------------------------- MODULE SisciSession -----------------------------
(***************************************************************************)
(* A run of ntb_profiling --backend sisci over the ntb_idt_sisci drivers:  *)
(* the receiver's process on an exporting VM, the sender's on the other.   *)
(* A process is the sequence of calls that user_src/ntb_profiling.c makes  *)
(* to the library user_src/ntb_sisci.c; each call is one ioctl, mmap,      *)
(* munmap or close on the driver of NtbIdtSisci, which does what it does   *)
(* there.  A process may be killed between any two of its steps (the       *)
(* driver has no release handler: what it set up stays) and started again. *)
(***************************************************************************)
EXTENDS NtbIdtSisci

CONSTANT Segments  \* Segments[v]: --segment options that processes on v are given

ASSUME SessionConstants == Segments \in [VM -> SUBSET Ids]

VARIABLE proc  \* proc[v]: the process on v, see Ended

sessionVars == <<vars, proc>>

(***************************************************************************)
(* struct ntb_sisci_profile_endpoint: the call that comes next, which says *)
(* what handles there are, the --segment option, and the buffer that the   *)
(* receiver has mapped, or that the sender is connected to (the size that  *)
(* CONNECT_SEGMENT returned); 0 for none.                                  *)
(***************************************************************************)
Ended == [call |-> "none", id |-> 0, buf |-> 0]

Calls(v, c) == proc[v].call = c
Becomes(v, p) == proc' = [proc EXCEPT ![v] = p]
Goes(v, c) == Becomes(v, [proc[v] EXCEPT !.call = c])

\* wake_up_interruptible (connect_wq)
Wake(v) == IF Calls(v, "sleep") THEN Goes(v, "wait") ELSE UNCHANGED proc

\* The process is in an ioctl that holds the lock and sends.
InIoctl(v) == run[v].by \in {"avail", "unavail", "remove"}
-----------------------------------------------------------------------------
SessionInit == Init /\ proc = [v \in VM |-> Ended]

\* SCIOpen finds the device.
Opens(v) == Attached(v)

\* open_sisci_desc; without the driver, modprobe is Probe.
Open(v, id) ==
  /\ Calls(v, "none") /\ Opens(v)
  /\ Becomes(v, [Ended EXCEPT !.call = IF v \in Exporters THEN "create" ELSE "wait",
                              !.id = id])
  /\ UNCHANGED vars

\* The process ends with SCIClose, the last call of sisci_endpoint_close, or
\* because open_sisci_desc or a call before any segment is held failed.
Ends(v) == Becomes(v, Ended)

\* The process dies; not inside an ioctl that waits for the message registers,
\* which it finishes first.  Also a failed calloc after a call that succeeded.
Kill(v) ==
  /\ ~Calls(v, "none") /\ ~InIoctl(v)
  /\ Ends(v) /\ UNCHANGED vars
-----------------------------------------------------------------------------
(***************************************************************************)
(* The receiver: sisci_open_local, sisci_publish_local, and                *)
(* sisci_endpoint_close, also when one of the calls fails.                 *)
(***************************************************************************)
Mine(v) == HasSegment(v) /\ dev[v].local_id = proc[v].id

\* SCICreateSegment: a segment with this id that is large enough is used as it
\* is, another one that is available is in the way (-EBUSY).
CreateReuse(v) ==
  /\ Calls(v, "create") /\ Mine(v)
  /\ Goes(v, "prepare")
  /\ UNCHANGED vars
CreateBusy(v) ==
  /\ Calls(v, "create") /\ HasSegment(v) /\ dev[v].local_available
  /\ Ends(v)
  /\ UNCHANGED vars
CreateNew(v, ok) ==
  /\ Calls(v, "create") /\ CreateSegment(v, proc[v].id, ok)
  /\ IF ok THEN Goes(v, "prepare") ELSE Ends(v)

\* SCIPrepareSegment
Prepare(v) ==
  /\ Calls(v, "prepare") /\ Unlocked(v)
  /\ Goes(v, IF Mine(v) THEN "map" ELSE "remove")
  /\ UNCHANGED vars

\* mmap of the local region takes the segment that is there, whatever its id.
LocalMappable(v) == Attached(v) /\ dev[v].local_buf # 0

\* SCIMapLocalSegment
MapLocal(v) ==
  /\ Calls(v, "map") /\ v \in Exporters /\ Unlocked(v)
  /\ IF LocalMappable(v)
     THEN Becomes(v, [proc[v] EXCEPT !.call = "publish", !.buf = dev[v].local_buf])
     ELSE Goes(v, "remove")
  /\ UNCHANGED vars

\* Mutant: SCIRemoveSegment comes before SCIUnmapSegment.
ReturnsEarly(p, ok) ==
  CASE p.call = "publish" -> [p EXCEPT !.call = IF ok THEN "serve" ELSE "remove"]
    [] p.call = "unavail" -> [p EXCEPT !.call = "remove"]
    [] p.call = "remove" -> [p EXCEPT !.call = "unmap"]

\* What follows when an ioctl returns, with or without an error: the order of
\* sisci_endpoint_close.
Returns(p, ok) ==
  CASE p.call = "publish" -> [p EXCEPT !.call = IF ok THEN "serve" ELSE "unmap"]
    [] p.call = "unavail" -> [p EXCEPT !.call = "unmap"]
    [] p.call = "remove" -> Ended

\* An ioctl that had nothing to send returns at once.
Issued(v) ==
  IF run'[v].by = "none" THEN Becomes(v, Returns(proc[v], TRUE)) ELSE UNCHANGED proc
Refused(v) ==
  /\ Unlocked(v) /\ ~Mine(v)
  /\ Becomes(v, Returns(proc[v], FALSE))
  /\ UNCHANGED vars

\* SCISetSegmentAvailable, SCISetSegmentUnavailable, SCIRemoveSegment
Publish(v) ==
  Calls(v, "publish") /\ IF Mine(v) THEN SetAvailable(v) /\ Issued(v) ELSE Refused(v)
Unpublish(v) ==
  Calls(v, "unavail") /\ IF Mine(v) THEN Withdraw(v, "unavail") /\ Issued(v) ELSE Refused(v)
RemoveSegment(v) ==
  Calls(v, "remove") /\ IF Mine(v) THEN Withdraw(v, "remove") /\ Issued(v) ELSE Refused(v)

\* The ioctl that had commands to send returns.
IoctlReturns(v) ==
  /\ InIoctl(v)
  /\ \/ SendDone(v) /\ Becomes(v, Returns(proc[v], TRUE))
     \/ SendFail(v) /\ Becomes(v, Returns(proc[v], FALSE))

\* run_rx is done or has timed out.
RxEnd(v) == Calls(v, "serve") /\ Goes(v, "unavail") /\ UNCHANGED vars

\* SCIUnmapSegment of the receiver
Unmap(v) ==
  /\ Calls(v, "unmap")
  /\ Becomes(v, [proc[v] EXCEPT !.call = "remove", !.buf = 0])
  /\ UNCHANGED vars
-----------------------------------------------------------------------------
(***************************************************************************)
(* The sender: sisci_open_remote and sisci_endpoint_close.                 *)
(***************************************************************************)
HasPeerSegment(v) ==
  dev[v].removed \/ (dev[v].peer_ready /\ dev[v].remote_id = proc[v].id)

\* SCIConnectSegment: wait_event_interruptible_timeout looks, without the lock,
\* and sleeps until it is woken up.
WaitCheck(v) ==
  /\ Calls(v, "wait")
  /\ Goes(v, IF HasPeerSegment(v) THEN "connect" ELSE "sleep")
  /\ UNCHANGED vars
WaitTimeout(v) ==
  Calls(v, "sleep") /\ ~HasPeerSegment(v) /\ Ends(v) /\ UNCHANGED vars

\* CONNECT_SEGMENT looks again with the lock held.
Connectable(v) ==
  Attached(v) /\ dev[v].peer_ready /\ dev[v].remote_id = proc[v].id

\* Mutant: CONNECT_SEGMENT trusts what it saw before it took the lock.
ConnectUnchecked(v) ==
  /\ Calls(v, "connect") /\ Unlocked(v)
  /\ Becomes(v, [proc[v] EXCEPT !.call = "map", !.buf = dev[v].remote_size])
  /\ UNCHANGED vars

\* Mutant: CONNECT_SEGMENT returns the id for the size.
ConnectId(v) ==
  /\ Calls(v, "connect") /\ Unlocked(v)
  /\ IF Connectable(v)
     THEN Becomes(v, [proc[v] EXCEPT !.call = "map", !.buf = dev[v].remote_id])
     ELSE Ends(v)
  /\ UNCHANGED vars

\* The end of SCIConnectSegment
Connect(v) ==
  /\ Calls(v, "connect") /\ Unlocked(v)
  /\ IF Connectable(v)
     THEN Becomes(v, [proc[v] EXCEPT !.call = "map", !.buf = dev[v].remote_size])
     ELSE Ends(v)
  /\ UNCHANGED vars

\* mmap of the remote region takes the segment that is connected now, if it is
\* not smaller than the one that CONNECT_SEGMENT saw.
RemoteMappable(v, fits) ==
  /\ Attached(v) /\ dev[v].peer_ready /\ dev[v].peer_io
  /\ fits

\* SCIMapRemoteSegment and SCICreateMapSequence
MapRemote(v, fits) ==
  /\ Calls(v, "map") /\ v \notin Exporters /\ Unlocked(v)
  /\ dev[v].remote_size = proc[v].buf => fits
  /\ IF RemoteMappable(v, fits) THEN Goes(v, "store") ELSE Ends(v)
  /\ UNCHANGED vars

\* run_tx is done or has timed out: SCIRemoveSequence, SCIUnmapSegment and
\* SCIDisconnectSegment.
TxEnd(v) ==
  /\ Calls(v, "store")
  /\ Ends(v)
  /\ UNCHANGED vars
-----------------------------------------------------------------------------
(***************************************************************************)
(* The drivers, and whom they wake up.                                     *)
(***************************************************************************)
\* An open device keeps the module loaded.
Unload(v) == Calls(v, "none") /\ SetRemoved(v) /\ UNCHANGED proc

\* service_work: set_link wakes up.
Work(v) == WorkStart(v) /\ IF dev[v].removed THEN UNCHANGED proc ELSE Wake(v)

\* mark_peer_unready_locked wakes up.
Segid(v) == HandleSegid(v) /\ Wake(v)
Unavail(v) ==
  /\ HandleUnavail(v)
  /\ IF dev[v].remote_id = run[v].got.data THEN Wake(v) ELSE UNCHANGED proc

\* Mutant: setup_peer_mw_locked wakes nobody up.
AvailSilent(v, ok) == HandleAvail(v, ok) /\ UNCHANGED proc

\* setup_peer_mw_locked wakes up when it has opened the window.
Avail(v, ok) ==
  /\ HandleAvail(v, ok)
  /\ IF dev'[v].peer_io # dev[v].peer_io THEN Wake(v) ELSE UNCHANGED proc

\* Steps of the driver that no process notices.
Silent(v) ==
  /\ \/ Probe(v) \/ Remove(v)
     \/ Take(v) \/ HandleSize(v) \/ HandleXlat(v) \/ Drained(v) \/ SendCmd(v)
     \/ ~InIoctl(v) /\ (SendDone(v) \/ SendFail(v))
  /\ UNCHANGED proc
-----------------------------------------------------------------------------
\* The calls of sisci_open_local, sisci_publish_local and sisci_endpoint_close
Receiver(v) ==
  \/ CreateReuse(v) \/ CreateBusy(v) \/ \E ok \in BOOLEAN : CreateNew(v, ok)
  \/ Prepare(v) \/ MapLocal(v) \/ Publish(v)
  \/ Unpublish(v) \/ Unmap(v) \/ RemoveSegment(v)

\* The calls of sisci_open_remote
Sender(v) == WaitCheck(v) \/ Connect(v) \/ \E fits \in BOOLEAN : MapRemote(v, fits)

\* What a process does next, apart from coming to its end.
Process(v) == Receiver(v) \/ Sender(v)

DriverStep(v) ==
  \/ Work(v)
  \/ Segid(v) \/ Unavail(v) \/ \E ok \in BOOLEAN : Avail(v, ok)
  \/ IoctlReturns(v)
  \/ Holder(v) /\ Silent(v)

SessionNext ==
  \E v \in VM :
    \/ \E id \in Segments[v] : Open(v, id)
    \/ Process(v) \/ RxEnd(v) \/ TxEnd(v) \/ WaitTimeout(v) \/ Kill(v)
    \/ Unload(v) \/ Work(v) \/ Segid(v) \/ Unavail(v)
    \/ \E ok \in BOOLEAN : Avail(v, ok)
    \/ IoctlReturns(v) \/ Silent(v)

SessionSpec == SessionInit /\ [][SessionNext]_sessionVars

(***************************************************************************)
(* A work that is queued runs, and what holds the lock of the driver goes  *)
(* on, or one of the two does; a sender that is not asleep goes on.        *)
(***************************************************************************)
FairSession ==
  /\ SessionSpec
  /\ \A v \in VM : WF_sessionVars(DriverStep(v))
  /\ \A v \in VM \ Exporters : WF_sessionVars(Sender(v))
-----------------------------------------------------------------------------
SessionTypeOK ==
  proc \in [VM -> [call: {"none", "create", "prepare", "map", "publish", "serve",
                          "unavail", "unmap", "remove", "wait", "sleep",
                          "connect", "store"},
                   id: Ids \cup {0}, buf: Bufs]]

(***************************************************************************)
(* The memory that a receiver has mapped is the driver's segment for as    *)
(* long as it is mapped: never memory that was given back, whatever a      *)
(* process that was killed left behind.                                    *)
(***************************************************************************)
LocalMapLive ==
  \A v \in Exporters : proc[v].buf # 0 => dev[v].local_buf = proc[v].buf

(***************************************************************************)
(* CONNECT_SEGMENT succeeds under a receiver that serves the segment only  *)
(* when the sender's window is open on the very buffer that the receiver   *)
(* has mapped, and from then on, until one of the two processes ends, it   *)
(* stays so: what ProfilingRing takes for granted.                         *)
(***************************************************************************)
Linked(v) ==
  /\ dev[v].peer_ready /\ dev[v].peer_io /\ win[v] = proc[Peer(v)].buf
  /\ dev[v].remote_xlat = proc[Peer(v)].buf /\ proc[v].buf = proc[Peer(v)].buf
Serves(v) == proc[v].call = "serve"
Uses(v) == proc[v].call \in {"map", "store"}
LinkStep(v) ==
  /\ Serves(Peer(v)) /\ Serves(Peer(v))' /\ Uses(v)'
  /\ Uses(v) => Linked(v)
  => Linked(v)'
StaysLinked == [][\A v \in VM \ Exporters : LinkStep(v)]_sessionVars

(***************************************************************************)
(* A sender that waits for the segment that a receiver serves gets         *)
(* connected, although it sleeps between the driver's wake-ups, unless it  *)
(* times out, either process ends, the module of the sender has been       *)
(* loaded twice or its window cannot be set up.                            *)
(***************************************************************************)
SenderConnects ==
  \A v \in VM \ Exporters :
    (proc[v].call \in {"wait", "sleep"} /\ Serves(Peer(v)) /\ proc[v].id = proc[Peer(v)].id) ~>
      \/ Uses(v) /\ Linked(v)
      \/ proc[v].call = "none" \/ ~Serves(Peer(v))
      \/ loads[v] > 1 \/ SetupFailed(v)
=============================================================================
