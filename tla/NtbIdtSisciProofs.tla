-------------------------- MODULE NtbIdtSisciProofs --------------------------
(***************************************************************************)
(* Proofs about NtbIdtSisci when one VM, x, exports segments and keeps its *)
(* module loaded, while the other may load and unload its own as often as  *)
(* it likes.                                                               *)
(***************************************************************************)
EXTENDS NtbIdtSisci, TLAPS

\* Most leaves are first-order; those that need arithmetic, records or sequences
\* cite SMT.
USE Zenon

(***************************************************************************)
(* What is left to send of an announcement when n commands are out.        *)
(***************************************************************************)
CmdSegid(d) == Command("SEGID", d.local_id)
CmdSize(d) == Command("SIZE", d.local_buf)
CmdXlat(d) == Command("XLAT", d.local_buf)
CmdAvail(d) == Command("AVAIL", d.local_id)
CmdUnavail(d) == Command("UNAVAIL", d.local_id)
Left0(d) == <<CmdSegid(d), CmdSize(d), CmdXlat(d), CmdAvail(d)>>
Left1(d) == <<CmdSize(d), CmdXlat(d), CmdAvail(d)>>
Left2(d) == <<CmdXlat(d), CmdAvail(d)>>
Left3(d) == <<CmdAvail(d)>>
Begun(d, s) == s \in {Left1(d), Left2(d), Left3(d)}

Announces(r) == r.by \in {"work", "avail"}
Withdraws(r) == r.by \in {"unavail", "remove"}

(***************************************************************************)
(* The driver of the exporter: its structure d and its run r.              *)
(***************************************************************************)
Exporter(d, r) ==
  /\ ~d.removed /\ ~d.peer_ready /\ (~d.loaded => ~d.link_up)
  /\ d.local_published => d.link_up /\ d.local_available
  /\ d.local_available => d.local_buf # 0
  /\ r.got.cmd = "none"
  /\ r.by \in {"none", "drain"} => r.send = <<>>
  /\ Announces(r) =>
       /\ d.link_up /\ d.local_available /\ ~d.local_published
       /\ r.send \in {Left0(d), <<>>} \/ Begun(d, r.send)
  /\ Withdraws(r) =>
       /\ d.link_up /\ d.local_buf # 0 /\ ~d.local_available /\ ~d.local_published
       /\ r.send \in {<<CmdUnavail(d)>>, <<>>}

\* The driver of the importer, which never has anything to send.
Importer(d, r) ==
  /\ ~d.local_available /\ ~d.local_published /\ d.local_buf = 0
  /\ d.peer_ready => d.peer_io
  /\ r.by \in {"none", "drain"} /\ r.send = <<>>
  /\ r.by = "none" => r.got.cmd = "none"
  /\ ~d.loaded => r.by = "none" /\ ~d.removed /\ ~d.peer_ready

(***************************************************************************)
(* The exporter will not free its segment before it has sent UNAVAIL.      *)
(***************************************************************************)
Owed(d, r) ==
  /\ d.local_buf # 0
  /\ d.local_published \/ Announces(r) \/ (Withdraws(r) /\ r.send # <<>>)

SizeOk(d, e) == e.remote_size \in {0, d.local_buf}
XlatOk(d, e) == e.remote_xlat \in {0, d.local_buf}

(***************************************************************************)
(* The commands on their way from the exporter (d, r) to the importer,     *)
(* whose structure is e: g was taken from the registers, c is in them.     *)
(***************************************************************************)
Parts(d, r, e, g, c) ==
  /\ c.cmd = "SIZE" => c.data = d.local_buf /\ r.send = Left2(d)
  /\ c.cmd = "XLAT" => c.data = d.local_buf /\ r.send = Left3(d)
  /\ g.cmd = "SIZE" => g.data = d.local_buf /\ (r.send = Left2(d) \/ c.cmd = "XLAT")
  /\ g.cmd = "XLAT" => g.data = d.local_buf /\ (r.send = Left3(d) \/ c.cmd = "AVAIL")
  /\ r.send = Left2(d) => c.cmd = "SIZE" \/ g.cmd = "SIZE" \/ SizeOk(d, e)
  /\ r.send = Left3(d) => \/ c.cmd = "XLAT" /\ (g.cmd = "SIZE" \/ SizeOk(d, e))
                          \/ (g.cmd = "XLAT" \/ XlatOk(d, e)) /\ SizeOk(d, e)

\* An AVAIL that arrives is of the segment that is there, or UNAVAIL follows.
Avails(d, r, e, g, c) ==
  /\ c.cmd = "AVAIL" =>
       /\ c.data = d.local_id /\ Owed(d, r) /\ ~Begun(d, r.send)
       /\ SizeOk(d, e) /\ (g.cmd = "XLAT" \/ XlatOk(d, e))
  /\ g.cmd = "AVAIL" =>
       /\ c.cmd \in {"none", "SEGID", "UNAVAIL"}
       /\ Begun(d, r.send) => c.cmd = "SEGID"
       /\ c.cmd = "UNAVAIL" => c.data = g.data
       /\ \/ g.data = d.local_id /\ Owed(d, r) /\ SizeOk(d, e) /\ XlatOk(d, e)
          \/ c.cmd = "UNAVAIL"

\* The window: open on freed memory only if UNAVAIL is there to close it.
Closes(e, k) == k.cmd = "UNAVAIL" /\ k.data = e.remote_id
WindowOk(d, e, g, c, w) == w \in {0, d.local_buf} \/ Closes(e, g) \/ Closes(e, c)

\* A connected segment is the announced one, or about to be disconnected.
Resets(e, k) == k.cmd = "SEGID" \/ Closes(e, k)
Agreed(d, r, e, w) ==
  /\ e.remote_id = d.local_id /\ Owed(d, r)
  /\ e.remote_size = d.local_buf /\ e.remote_xlat = d.local_buf /\ w = d.local_buf
Ready(d, r, e, g, c, w) ==
  /\ e.peer_ready => \/ Agreed(d, r, e, w)
                     \/ Resets(e, g) \/ Resets(e, c)
  /\ g.cmd \in {"SIZE", "XLAT"} => ~e.peer_ready
  /\ c.cmd \in {"SIZE", "XLAT"} => ~e.peer_ready \/ g.cmd = "SEGID"
  /\ Begun(d, r.send) => ~e.peer_ready \/ g.cmd = "SEGID" \/ c.cmd = "SEGID"

\* Nothing takes an announcement back once all of it is out, and nothing is
\* out while the exporter has not seen the link.
Clean(k) == k.cmd \notin {"SEGID", "UNAVAIL"}
Told(d, r) == d.local_published \/ (Announces(r) /\ r.send = <<>>)
Flow(d, r, e, g, c) ==
  /\ Told(d, r) \/ r.send = Left3(d) => Clean(g) /\ Clean(c)
  /\ r.send = Left2(d) => c.cmd = "SIZE" \/ (Clean(g) /\ Clean(c))
  /\ ~d.link_up => ~e.peer_ready /\ g.cmd = "none" /\ c.cmd = "none"

Body(d, r, e, g, c, w) ==
  /\ Parts(d, r, e, g, c) /\ Avails(d, r, e, g, c)
  /\ WindowOk(d, e, g, c, w) /\ Ready(d, r, e, g, c, w)
Stream(d, r, e, g, c, w) == Body(d, r, e, g, c, w) /\ Flow(d, r, e, g, c)

(***************************************************************************)
(* The inductive invariant, for the exporter x and the importer y.         *)
(***************************************************************************)
Quiescent(v) ==
  ~dev[v].loaded => /\ ~pending[v] /\ run[v].by = "none"
                    /\ dev[v].local_buf = 0

Inv(x, y) ==
  /\ Exporter(dev[x], run[x]) /\ Importer(dev[y], run[y])
  /\ Quiescent(x) /\ Quiescent(y)
  /\ dev[x].loaded => loads[x] > 0
  /\ box[x] = Empty /\ win[x] = 0
  /\ Attached(y) => link
  /\ run[y].by = "none" /\ ~dev[y].removed => win[y] \in {0, dev[x].local_buf}
  /\ Attached(y) =>
       Stream(dev[x], run[x], dev[y], run[y].got, box[y], win[y])
-----------------------------------------------------------------------------
(***************************************************************************)
(* Type correctness.                                                       *)
(***************************************************************************)
USE DEF VM

LEMMA EmptyType == Empty \in Commands
BY DEF Commands

LEMMA CommandType ==
  /\ \A d \in IdsOr0 : /\ Command("SEGID", d) \in Commands
                       /\ Command("AVAIL", d) \in Commands
                       /\ Command("UNAVAIL", d) \in Commands
  /\ \A d \in Bufs : Command("SIZE", d) \in Commands /\ Command("XLAT", d) \in Commands
BY DEF Commands, Command

LEMMA DataType ==
  ASSUME NEW c \in Commands
  PROVE  /\ c.cmd \in {"SEGID", "AVAIL", "UNAVAIL"} => c.data \in IdsOr0
         /\ c.cmd \in {"SIZE", "XLAT"} => c.data \in Bufs
BY SMT DEF Commands, Command, Empty

LEMMA FreeType == Free \in Holding
BY EmptyType, SMT DEF Free, Holding

LEMMA HoldType ==
  ASSUME NEW by \in {"none", "drain", "work", "avail", "unavail", "remove"},
         NEW cmds \in Seq(Commands)
  PROVE  [Free EXCEPT !.by = by, !.send = cmds] \in Holding
BY FreeType DEF Holding

LEMMA AnnouncementType ==
  ASSUME NEW d \in Device
  PROVE  Announcement(d) \in Seq(Commands)
<1>1. d.local_id \in IdsOr0 /\ d.local_buf \in Bufs
  BY DEF Device
<1>2. /\ Command("SEGID", d.local_id) \in Commands /\ Command("SIZE", d.local_buf) \in Commands
      /\ Command("XLAT", d.local_buf) \in Commands /\ Command("AVAIL", d.local_id) \in Commands
  BY <1>1, CommandType
<1> QED
  BY <1>2, SMT DEF Announcement

LEMMA DeviceTypes ==
  ASSUME NEW d \in Device, SisciConstants
  PROVE  /\ Unloaded \in Device /\ [Unloaded EXCEPT !.loaded = TRUE] \in Device
         /\ PeerUnready(d) \in Device /\ FreeSegment(d) \in Device /\ LinkDown(d) \in Device
<1>1. 0 \in Bufs /\ 0 \in IdsOr0
  BY SMT DEF SisciConstants, Bufs, IdsOr0
<1>2. Unloaded \in Device /\ [Unloaded EXCEPT !.loaded = TRUE] \in Device
  BY <1>1 DEF Device, Unloaded
<1>3. PeerUnready(d) \in Device
  BY DEF Device, PeerUnready
<1>4. FreeSegment(d) \in Device
  BY <1>1 DEF Device, FreeSegment
<1>5. LinkDown(d) \in Device
  BY <1>3 DEF Device, LinkDown
<1> QED
  BY <1>2, <1>3, <1>4, <1>5

(***************************************************************************)
(* Every step preserves the type invariant.  In most actions only dev or   *)
(* run changes.                                                            *)
(***************************************************************************)
LEMMA RunType ==
  ASSUME TypeOK, NEW v \in VM, NEW by \in {"none", "drain", "work", "avail", "unavail", "remove"},
         NEW cmds \in Seq(Commands), Hold(v, by, cmds) \/ Release(v)
  PROVE  run' \in [VM -> Holding]
<1>1. [Free EXCEPT !.by = by, !.send = cmds] \in Holding
  BY HoldType
<1>2. run \in [VM -> Holding]
  BY DEF TypeOK
<1> DEFINE new == [Free EXCEPT !.by = by, !.send = cmds]
<1>3. new \in Holding
  BY <1>1
<1>4. run' = [run EXCEPT ![v] = new] \/ run' = [run EXCEPT ![v] = Free]
  BY DEF Hold, Release
<1> HIDE DEF new
<1> QED
  BY <1>2, <1>3, <1>4, FreeType

LEMMA DevType ==
  ASSUME TypeOK, NEW v \in VM, NEW d \in Device, dev' = [dev EXCEPT ![v] = d]
  PROVE  dev' \in [VM -> Device]
BY DEF TypeOK

LEMMA GotType ==
  ASSUME TypeOK, NEW v \in VM, NEW c \in Commands, run' = [run EXCEPT ![v].got = c]
  PROVE  run' \in [VM -> Holding]
<1> DEFINE new == [run[v] EXCEPT !.got = c]
<1>1. run[v] \in Holding /\ run \in [VM -> Holding]
  BY DEF TypeOK
<1>2. new \in Holding
  BY <1>1 DEF Holding
<1>3. run' = [run EXCEPT ![v] = new]
  BY <1>1
<1> HIDE DEF new
<1> QED
  BY <1>1, <1>2, <1>3

LEMMA TypeProbe ==
  ASSUME TypeOK, SisciConstants, NEW v \in VM, Probe(v) \/ SetRemoved(v) \/ Remove(v)
  PROVE  TypeOK'
<1>1. dev[v] \in Device /\ dev \in [VM -> Device] /\ Peer(v) \in VM
  BY SMT DEF TypeOK, Peer
<1>2. 0 \in Bufs
  BY SMT DEF SisciConstants, Bufs
<1>3. CASE Probe(v)
  <2>1. dev' = [dev EXCEPT ![v] = [Unloaded EXCEPT !.loaded = TRUE]]
    BY <1>3 DEF Probe
  <2>2. dev' \in [VM -> Device]
    BY <2>1, <1>1, DeviceTypes, DevType
  <2>3. /\ box' \in [VM -> Commands] /\ link' \in BOOLEAN
        /\ loads' \in [VM -> Nat] /\ pending' \in [VM -> BOOLEAN]
    BY <1>1, <1>3, EmptyType, SMT DEF Probe, TypeOK, Notified, Attached, Device
  <2> QED
    BY <1>3, <2>2, <2>3 DEF Probe, TypeOK
<1>4. CASE SetRemoved(v)
  <2> DEFINE d == [dev[v] EXCEPT !.removed = TRUE, !.peer_ready = FALSE,
                     !.remote_announced = FALSE, !.local_available = FALSE,
                     !.local_published = FALSE]
  <2>1. d \in Device
    BY <1>1 DEF Device
  <2>2. dev' = [dev EXCEPT ![v] = d]
    BY <1>1, <1>4 DEF SetRemoved
  <2> HIDE DEF d
  <2>3. dev' \in [VM -> Device]
    BY <2>1, <2>2, DevType
  <2>4. pending' \in [VM -> BOOLEAN] /\ link' \in BOOLEAN
    BY <1>1, <1>4 DEF SetRemoved, TypeOK, Notified, Attached, Device
  <2> QED
    BY <1>4, <2>3, <2>4 DEF SetRemoved, TypeOK
<1>5. CASE Remove(v)
  <2>1. dev' \in [VM -> Device]
    BY <1>1, <1>5, DeviceTypes, DevType DEF Remove
  <2>2. win' \in [VM -> Bufs] /\ pending' \in [VM -> BOOLEAN]
    BY <1>1, <1>2, <1>5 DEF Remove, TypeOK
  <2> QED
    BY <1>5, <2>1, <2>2 DEF Remove, TypeOK
<1> QED
  BY <1>3, <1>4, <1>5

LEMMA TypeWork ==
  ASSUME TypeOK, SisciConstants, NEW v \in VM, WorkStart(v) \/ Take(v) \/ Drained(v)
  PROVE  TypeOK'
<1>1. dev[v] \in Device /\ dev \in [VM -> Device] /\ box[v] \in Commands
  BY DEF TypeOK
<1>2. 0 \in Bufs /\ <<>> \in Seq(Commands)
  BY SMT DEF SisciConstants, Bufs
<1>3. CASE WorkStart(v)
  <2>1. dev' \in [VM -> Device] /\ run' \in [VM -> Holding] /\ win' \in [VM -> Bufs]
    <3>1. CASE dev[v].removed
      BY <1>3, <3>1 DEF WorkStart, TypeOK
    <3>2. CASE ~dev[v].removed /\ ~link
      <4>1. /\ dev' = [dev EXCEPT ![v] = LinkDown(dev[v])] /\ win' = [win EXCEPT ![v] = 0]
            /\ run' = run
        BY <1>1, <1>3, <3>2 DEF WorkStart
      <4> QED
        BY <1>1, <1>2, <4>1, DeviceTypes DEF TypeOK
    <3>3. CASE ~dev[v].removed /\ link
      <4> DEFINE d == [dev[v] EXCEPT !.link_up = TRUE]
      <4>1. d \in Device
        BY <1>1 DEF Device
      <4>2. dev' = [dev EXCEPT ![v] = d] /\ win' = win /\ Hold(v, "drain", <<>>)
        BY <1>1, <1>3, <3>3 DEF WorkStart
      <4> HIDE DEF d
      <4> QED
        BY <1>2, <4>1, <4>2, DevType, RunType DEF TypeOK
    <3> QED
      BY <3>1, <3>2, <3>3 DEF TypeOK
  <2>2. pending' \in [VM -> BOOLEAN]
    BY <1>3 DEF WorkStart, TypeOK
  <2> QED
    BY <1>3, <2>1, <2>2 DEF WorkStart, TypeOK
<1>4. CASE Take(v)
  <2>1. run' \in [VM -> Holding]
    BY <1>1, <1>4, GotType DEF Take
  <2> QED
    BY <1>4, <2>1, EmptyType DEF Take, TypeOK
<1>5. CASE Drained(v)
  <2>1. Announcement(dev[v]) \in Seq(Commands)
    BY <1>1, AnnouncementType
  <2>2. Release(v) \/ Hold(v, "work", Announcement(dev[v]))
    BY <1>5 DEF Drained
  <2>3. run' \in [VM -> Holding]
    BY <2>1, <2>2, RunType
  <2> QED
    BY <1>5, <2>3 DEF Drained, TypeOK
<1> QED
  BY <1>3, <1>4, <1>5

LEMMA TypeHandle ==
  ASSUME TypeOK, SisciConstants, NEW v \in VM, Handle(v)
  PROVE  TypeOK'
<1>1. /\ dev[v] \in Device /\ run[v] \in Holding /\ run[v].got \in Commands
      /\ dev \in [VM -> Device] /\ win \in [VM -> Bufs]
  BY DEF TypeOK, Holding
<1>2. 0 \in Bufs
  BY SMT DEF SisciConstants, Bufs
<1> DEFINE data == run[v].got.data
<1> SUFFICES dev' \in [VM -> Device] /\ win' \in [VM -> Bufs]
  <2>1. Handled(v)
    BY DEF Handle, HandleSegid, HandleSize, HandleXlat, HandleAvail, HandleUnavail
  <2>2. run' \in [VM -> Holding]
    BY <2>1, EmptyType, GotType DEF Handled
  <2> QED
    BY <2>1, <2>2 DEF Handled, TypeOK
<1>3. CASE HandleSegid(v)
  <2>1. data \in IdsOr0
    BY <1>1, <1>3, DataType DEF HandleSegid, Handling
  <2> DEFINE d == [PeerUnready(dev[v]) EXCEPT !.remote_id = data, !.remote_announced = FALSE]
  <2>2. PeerUnready(dev[v]) \in Device
    BY <1>1, DeviceTypes
  <2>3. d \in Device
    BY <2>1, <2>2 DEF Device
  <2>4. dev' = [dev EXCEPT ![v] = d] /\ win' = [win EXCEPT ![v] = 0]
    BY <1>1, <1>3 DEF HandleSegid
  <2> HIDE DEF d, data
  <2> QED
    BY <1>1, <1>2, <2>3, <2>4
<1>4. CASE HandleSize(v)
  <2>1. data \in Bufs
    BY <1>1, <1>4, DataType DEF HandleSize, Handling
  <2> DEFINE d == [dev[v] EXCEPT !.remote_size = data]
  <2>2. d \in Device
    BY <1>1, <2>1 DEF Device
  <2>3. dev' = [dev EXCEPT ![v] = d] /\ win' = win
    BY <1>1, <1>4 DEF HandleSize
  <2> HIDE DEF d, data
  <2> QED
    BY <1>1, <2>2, <2>3
<1>5. CASE HandleXlat(v)
  <2>1. data \in Bufs
    BY <1>1, <1>5, DataType DEF HandleXlat, Handling
  <2> DEFINE d == [dev[v] EXCEPT !.remote_xlat = data]
  <2>2. d \in Device
    BY <1>1, <2>1 DEF Device
  <2>3. dev' = [dev EXCEPT ![v] = d] /\ win' = win
    BY <1>1, <1>5 DEF HandleXlat
  <2> HIDE DEF d, data
  <2> QED
    BY <1>1, <2>2, <2>3
<1>6. ASSUME NEW ok \in BOOLEAN, HandleAvail(v, ok)
      PROVE  dev' \in [VM -> Device] /\ win' \in [VM -> Bufs]
  <2>1. data \in IdsOr0
    BY <1>1, <1>6, DataType DEF HandleAvail, Handling
  <2> DEFINE d == [dev[v] EXCEPT !.remote_id = data, !.remote_announced = TRUE]
             io == d.peer_io \/ ok
             ready == d.peer_ready \/ ok
             e == [d EXCEPT !.peer_io = io, !.peer_ready = ready]
  <2>2. d \in Device
    BY <1>1, <2>1 DEF Device
  <2>3. e \in Device /\ d.remote_xlat \in Bufs
    <3>1. io \in BOOLEAN /\ ready \in BOOLEAN
      OBVIOUS
    <3> HIDE DEF io, ready, d
    <3> QED
      BY <2>2, <3>1 DEF Device
  <2>4. \/ dev' = [dev EXCEPT ![v] = d] /\ win' = win
        \/ /\ dev' = [dev EXCEPT ![v] = e]
           /\ win' = [win EXCEPT ![v] = IF ok THEN d.remote_xlat ELSE 0]
    BY <1>1, <1>6 DEF HandleAvail
  <2> HIDE DEF d, e, data
  <2> QED
    BY <1>1, <1>2, <2>2, <2>3, <2>4, SMT
<1>7. CASE HandleUnavail(v)
  <2> DEFINE d == [PeerUnready(dev[v]) EXCEPT !.remote_announced = FALSE]
  <2>1. PeerUnready(dev[v]) \in Device
    BY <1>1, DeviceTypes
  <2>2. d \in Device
    BY <2>1 DEF Device
  <2>3. \/ dev' = dev /\ win' = win
        \/ dev' = [dev EXCEPT ![v] = d] /\ win' = [win EXCEPT ![v] = 0]
    BY <1>1, <1>7 DEF HandleUnavail
  <2> HIDE DEF d
  <2> QED
    BY <1>1, <1>2, <2>2, <2>3, SMT
<1> QED
  BY <1>3, <1>4, <1>5, <1>6, <1>7 DEF Handle

LEMMA TypeSend ==
  ASSUME TypeOK, SisciConstants, NEW v \in VM, SendCmd(v) \/ SendFail(v) \/ SendDone(v)
  PROVE  TypeOK'
<1>1. /\ dev[v] \in Device /\ run[v] \in Holding /\ run[v].send \in Seq(Commands)
      /\ Peer(v) \in VM /\ run \in [VM -> Holding]
  BY SMT DEF TypeOK, Holding, Peer
<1>2. 0 \in Bufs /\ <<>> \in Seq(Commands)
  BY SMT DEF SisciConstants, Bufs
<1>3. CASE SendCmd(v)
  <2> DEFINE new == [run[v] EXCEPT !.send = Tail(run[v].send)]
  <2>1. Head(run[v].send) \in Commands /\ Tail(run[v].send) \in Seq(Commands)
    BY <1>1, <1>3, SMT DEF SendCmd, Sending
  <2>2. new \in Holding
    BY <1>1, <2>1 DEF Holding
  <2>3. run' = [run EXCEPT ![v] = new]
    BY <1>1, <1>3 DEF SendCmd
  <2> HIDE DEF new
  <2>4. box' \in [VM -> Commands]
    BY <1>1, <1>3, <2>1 DEF SendCmd, TypeOK
  <2>5. pending' \in [VM -> BOOLEAN]
    BY <1>1, <1>3 DEF SendCmd, TypeOK, Notified, Attached, Device
  <2>6. run' \in [VM -> Holding]
    BY <1>1, <2>2, <2>3
  <2> QED
    BY <1>3, <2>4, <2>5, <2>6 DEF SendCmd, TypeOK
<1>4. CASE SendFail(v)
  <2>1. run' \in [VM -> Holding]
    BY <1>2, <1>4, RunType DEF SendFail
  <2> QED
    BY <1>4, <2>1 DEF SendFail, TypeOK
<1>5. CASE SendDone(v)
  <2>1. run' \in [VM -> Holding]
    BY <1>2, <1>5, RunType DEF SendDone
  <2> DEFINE d == [dev[v] EXCEPT !.local_published = TRUE]
  <2>2. d \in Device /\ FreeSegment(dev[v]) \in Device
    BY <1>1, DeviceTypes DEF Device
  <2>3. \/ dev' = dev \/ dev' = [dev EXCEPT ![v] = d]
        \/ dev' = [dev EXCEPT ![v] = FreeSegment(dev[v])]
    BY <1>1, <1>5 DEF SendDone, TypeOK
  <2>4. dev' \in [VM -> Device]
    <3> HIDE DEF d
    <3> QED
      BY <2>2, <2>3, SMT DEF TypeOK
  <2>5. win' \in [VM -> Bufs]
    BY <1>1, <1>2, <1>5 DEF SendDone, TypeOK
  <2> QED
    BY <1>5, <2>1, <2>4, <2>5 DEF SendDone, TypeOK
<1> QED
  BY <1>3, <1>4, <1>5

LEMMA TypeApplication ==
  ASSUME TypeOK, SisciConstants, NEW v \in VM, Application(v)
  PROVE  TypeOK'
<1>1. /\ dev[v] \in Device /\ Peer(v) \in VM /\ dev \in [VM -> Device]
      /\ dev[v].local_id \in IdsOr0
  BY SMT DEF TypeOK, Peer, Device
<1>2. 0 \in Bufs /\ <<>> \in Seq(Commands)
  BY SMT DEF SisciConstants, Bufs
<1>3. ASSUME NEW id \in Ids, NEW ok \in BOOLEAN, CreateSegment(v, id, ok)
      PROVE  TypeOK'
  <2> DEFINE b == allocs[v] + 1
             d == [FreeSegment(dev[v]) EXCEPT !.local_buf = b, !.local_id = id]
  <2>1. b \in Bufs
    BY <1>3, SMT DEF CreateSegment, TypeOK, Bufs, SisciConstants
  <2>2. FreeSegment(dev[v]) \in Device /\ id \in IdsOr0
    BY <1>1, DeviceTypes DEF IdsOr0
  <2> HIDE DEF b
  <2>3. d \in Device
    BY <2>1, <2>2 DEF Device
  <2>4. /\ \/ dev' = [dev EXCEPT ![v] = d]
           \/ dev' = [dev EXCEPT ![v] = FreeSegment(dev[v])]
        /\ win' \in {[win EXCEPT ![Peer(v)] = b], [win EXCEPT ![Peer(v)] = 0], win}
        /\ allocs' \in {[allocs EXCEPT ![v] = b], allocs}
        /\ UNCHANGED <<run, pending, box, link, loads>>
    BY <1>1, <1>3 DEF CreateSegment, b, TypeOK
  <2> HIDE DEF d
  <2>5. dev' \in [VM -> Device]
    BY <1>1, <2>2, <2>3, <2>4
  <2>6. win' \in [VM -> Bufs] /\ allocs' \in [VM -> Bufs]
    BY <1>1, <1>2, <2>1, <2>4, SMT DEF TypeOK
  <2> QED
    BY <2>4, <2>5, <2>6 DEF TypeOK
<1>4. CASE SetAvailable(v)
  <2> DEFINE d == [dev[v] EXCEPT !.local_available = TRUE, !.local_published = FALSE]
  <2>1. d \in Device
    BY <1>1 DEF Device
  <2>2. /\ dev' = [dev EXCEPT ![v] = d]
        /\ run' = run \/ Hold(v, "avail", Announcement(d))
        /\ UNCHANGED <<pending, box, link, win, loads, allocs>>
    BY <1>4 DEF SetAvailable
  <2> HIDE DEF d
  <2>3. run' \in [VM -> Holding]
    BY <2>1, <2>2, AnnouncementType, RunType DEF TypeOK
  <2>4. dev' \in [VM -> Device]
    BY <2>1, <2>2, DevType
  <2> QED
    BY <2>2, <2>3, <2>4 DEF TypeOK
<1>5. ASSUME NEW by \in {"unavail", "remove"}, Withdraw(v, by)
      PROVE  TypeOK'
  <2> DEFINE d == [dev[v] EXCEPT !.local_available = FALSE, !.local_published = FALSE]
             cmds == <<Command("UNAVAIL", d.local_id)>>
  <2>1. d \in Device
    BY <1>1 DEF Device
  <2>2. d.local_id \in IdsOr0
    BY <2>1 DEF Device
  <2>3. Command("UNAVAIL", d.local_id) \in Commands
    BY <2>2, CommandType
  <2>4. cmds \in Seq(Commands)
    BY <2>3, SMT
  <2>5. /\ \/ dev' = [dev EXCEPT ![v] = d] \/ dev' = [dev EXCEPT ![v] = FreeSegment(d)]
        /\ run' = run \/ Hold(v, by, cmds)
        /\ win' = win \/ win' = [win EXCEPT ![Peer(v)] = 0]
        /\ UNCHANGED <<pending, box, link, loads, allocs>>
    BY <1>5 DEF Withdraw
  <2> HIDE DEF d, cmds
  <2>6. run' \in [VM -> Holding]
    BY <2>4, <2>5, RunType, SMT DEF TypeOK
  <2>7. dev' \in [VM -> Device]
    BY <2>1, <2>5, DeviceTypes, DevType
  <2>8. win' \in [VM -> Bufs]
    BY <1>1, <1>2, <2>5, SMT DEF TypeOK
  <2> QED
    BY <2>5, <2>6, <2>7, <2>8 DEF TypeOK
<1> QED
  BY <1>3, <1>4, <1>5 DEF Application

LEMMA TypeInit == ASSUME SisciConstants, Init PROVE TypeOK
<1>1. 0 \in Bufs /\ <<>> \in Seq(Commands)
  BY SMT DEF SisciConstants, Bufs
<1>2. Unloaded \in Device
  BY <1>1 DEF Unloaded, Device, IdsOr0
<1> QED
  BY <1>1, <1>2, EmptyType, FreeType DEF Init, TypeOK

LEMMA TypeNext == ASSUME TypeOK, SisciConstants, [Next]_vars PROVE TypeOK'
<1>1. CASE UNCHANGED vars
  BY <1>1 DEF vars, TypeOK
<1>2. ASSUME NEW v \in VM, Probe(v) \/ SetRemoved(v) \/ Remove(v) \/ Driver(v)
      PROVE  TypeOK'
  BY <1>2, TypeProbe, TypeWork, TypeHandle, TypeSend DEF Driver, Holder
<1>3. ASSUME NEW v \in Exporters, Application(v)
      PROVE  TypeOK'
  <2>1. v \in VM
    BY DEF SisciConstants
  <2> QED
    BY <1>3, <2>1, TypeApplication
<1> QED
  BY <1>1, <1>2, <1>3 DEF Next

(***************************************************************************)
(* Type correctness of the drivers, for all sets of ids and exporters and  *)
(* any number of loads and buffers: a size or an address is always that of *)
(* a buffer, an id that of a segment.                                      *)
(***************************************************************************)
THEOREM SisciTypeCorrect == Spec => []TypeOK
<1>1. Init => TypeOK
  BY TypeInit, SisciConstants
<1>2. TypeOK /\ [Next]_vars => TypeOK'
  BY TypeNext, SisciConstants
<1> QED
  BY <1>1, <1>2, PTL DEF Spec
-----------------------------------------------------------------------------
(***************************************************************************)
(* The commands of an announcement.                                        *)
(***************************************************************************)
LEMMA Lefts ==
  ASSUME NEW d
  PROVE  /\ Left0(d) # <<>> /\ Head(Left0(d)) = CmdSegid(d) /\ Tail(Left0(d)) = Left1(d)
         /\ Left1(d) # <<>> /\ Head(Left1(d)) = CmdSize(d) /\ Tail(Left1(d)) = Left2(d)
         /\ Left2(d) # <<>> /\ Head(Left2(d)) = CmdXlat(d) /\ Tail(Left2(d)) = Left3(d)
         /\ Left3(d) # <<>> /\ Head(Left3(d)) = CmdAvail(d) /\ Tail(Left3(d)) = <<>>
         /\ <<CmdUnavail(d)>> # <<>> /\ Head(<<CmdUnavail(d)>>) = CmdUnavail(d)
         /\ Tail(<<CmdUnavail(d)>>) = <<>>
BY SMT DEF Left0, Left1, Left2, Left3

LEMMA Commands5 ==
  ASSUME NEW d
  PROVE  /\ CmdSegid(d).cmd = "SEGID" /\ CmdSegid(d).data = d.local_id
         /\ CmdSize(d).cmd = "SIZE" /\ CmdSize(d).data = d.local_buf
         /\ CmdXlat(d).cmd = "XLAT" /\ CmdXlat(d).data = d.local_buf
         /\ CmdAvail(d).cmd = "AVAIL" /\ CmdAvail(d).data = d.local_id
         /\ CmdUnavail(d).cmd = "UNAVAIL" /\ CmdUnavail(d).data = d.local_id
         /\ Empty.cmd = "none"
BY DEF CmdSegid, CmdSize, CmdXlat, CmdAvail, CmdUnavail, Command, Empty

LEMMA LeftsDiffer ==
  ASSUME NEW d
  PROVE  /\ Left0(d) \notin {Left1(d), Left2(d), Left3(d), <<>>}
         /\ Left1(d) \notin {Left2(d), Left3(d), <<>>}
         /\ Left2(d) \notin {Left3(d), <<>>} /\ Left3(d) # <<>>
         /\ <<CmdUnavail(d)>> \notin {Left0(d), Left1(d), Left2(d), Left3(d), <<>>}
<1>1. /\ CmdSegid(d) # CmdSize(d) /\ CmdSegid(d) # CmdXlat(d) /\ CmdSegid(d) # CmdAvail(d)
      /\ CmdSize(d) # CmdXlat(d) /\ CmdSize(d) # CmdAvail(d) /\ CmdXlat(d) # CmdAvail(d)
      /\ CmdUnavail(d) # CmdSegid(d) /\ CmdUnavail(d) # CmdSize(d)
      /\ CmdUnavail(d) # CmdXlat(d) /\ CmdUnavail(d) # CmdAvail(d)
  BY Commands5
<1> QED
  BY <1>1, Lefts

LEMMA LeftsSame ==
  ASSUME NEW d, NEW f, f.local_id = d.local_id, f.local_buf = d.local_buf
  PROVE  /\ Left0(f) = Left0(d) /\ Left1(f) = Left1(d) /\ Left2(f) = Left2(d)
         /\ Left3(f) = Left3(d) /\ CmdUnavail(f) = CmdUnavail(d)
BY DEF Left0, Left1, Left2, Left3, CmdSegid, CmdSize, CmdXlat, CmdAvail, CmdUnavail
-----------------------------------------------------------------------------
(***************************************************************************)
(* Flow, for each of the steps below.                                      *)
(***************************************************************************)
LEMMA FlowTake ==
  ASSUME NEW d, NEW r, NEW e, NEW g, NEW c, g.cmd = "none", Flow(d, r, e, g, c)
  PROVE  Flow(d, r, e, c, Empty)
BY Commands5 DEF Flow, Clean

LEMMA FlowHandled ==
  ASSUME NEW d, NEW r, NEW e, NEW f, NEW g, NEW c, Flow(d, r, e, g, c), g.cmd # "none",
         f.peer_ready => e.peer_ready \/ g.cmd = "AVAIL"
  PROVE  Flow(d, r, f, Empty, c)
BY Commands5 DEF Flow, Clean

LEMMA FlowSame ==
  ASSUME NEW d, NEW r, NEW e, NEW f, NEW g, NEW c, Flow(d, r, e, g, c),
         f.peer_ready = e.peer_ready
  PROVE  Flow(d, r, f, g, c)
BY DEF Flow

LEMMA FlowStart ==
  ASSUME NEW d, NEW r, NEW e, ~e.peer_ready
  PROVE  Flow(d, r, e, Empty, Empty)
BY Commands5 DEF Flow, Clean

LEMMA FlowKeep ==
  ASSUME NEW d, NEW r, NEW f, NEW s, NEW e, NEW g, NEW c, Flow(d, r, e, g, c),
         ~Begun(f, s.send), Told(f, s) => Told(d, r), d.link_up => f.link_up
  PROVE  Flow(f, s, e, g, c)
BY DEF Flow, Begun

LEMMA FlowSend ==
  ASSUME NEW d, NEW r, NEW s, NEW e, NEW g, NEW c,
         Exporter(d, r), r.by \in {"none", "drain", "work", "avail", "unavail", "remove"},
         c.cmd = "none", Flow(d, r, e, g, c),
         r.send # <<>>, s.by = r.by, s.send = Tail(r.send)
  PROVE  Flow(d, s, e, g, Head(r.send))
<1> DEFINE k == Head(r.send)
<1> SUFFICES Flow(d, s, e, g, k)
  OBVIOUS
<1>0. d.link_up /\ ~d.local_published /\ (Announces(s) <=> Announces(r))
  BY DEF Exporter, Announces, Withdraws
<1>1. CASE Announces(r) /\ r.send = Left0(d)
  <2>1. s.send = Left1(d)
    BY <1>1, Lefts
  <2> QED
    BY <1>0, <2>1, LeftsDiffer DEF Flow, Told
<1>2. CASE Announces(r) /\ r.send = Left1(d)
  <2>0. k = CmdSize(d) /\ s.send = Left2(d)
    BY <1>2, Lefts
  <2>1. k.cmd = "SIZE" /\ s.send = Left2(d)
    BY <2>0, Commands5
  <2> QED
    BY <1>0, <2>1, LeftsDiffer DEF Flow, Told
<1>3. CASE Announces(r) /\ r.send = Left2(d)
  <2>0. k = CmdXlat(d) /\ s.send = Left3(d)
    BY <1>3, Lefts
  <2>1. k.cmd = "XLAT" /\ s.send = Left3(d)
    BY <2>0, Commands5
  <2> QED
    BY <1>0, <1>3, <2>1, LeftsDiffer DEF Flow, Told, Clean
<1>4. CASE Announces(r) /\ r.send = Left3(d)
  <2>0. k = CmdAvail(d) /\ s.send = <<>>
    BY <1>4, Lefts
  <2>1. k.cmd = "AVAIL" /\ s.send = <<>>
    BY <2>0, Commands5
  <2> QED
    BY <1>0, <1>4, <2>1, LeftsDiffer DEF Flow, Told, Clean
<1>5. CASE Withdraws(r) /\ r.send = <<CmdUnavail(d)>>
  <2>1. s.send = <<>> /\ ~Announces(s)
    BY <1>0, <1>5, Lefts DEF Announces, Withdraws
  <2> QED
    BY <1>0, <2>1, LeftsDiffer DEF Flow, Told
<1> QED
  BY <1>1, <1>2, <1>3, <1>4, <1>5 DEF Exporter, Announces, Withdraws, Begun

(***************************************************************************)
(* What the importer does with the commands: it takes one from the         *)
(* registers (Take) and handles it, f being its structure afterwards.      *)
(***************************************************************************)
LEMMA StreamTake ==
  ASSUME NEW d, NEW r, NEW e, NEW g, NEW c, NEW w,
         g.cmd = "none", Stream(d, r, e, g, c, w)
  PROVE  Stream(d, r, e, c, Empty, w)
<1>1. Body(d, r, e, c, Empty, w)
  BY Commands5, LeftsDiffer
    DEF Stream, Body, Parts, Avails, WindowOk, Ready,
        Agreed, Resets, Closes, SizeOk, XlatOk, Begun
<1> QED
  BY <1>1, FlowTake DEF Stream

LEMMA StreamSegid ==
  ASSUME NEW d, NEW r, NEW e, NEW f, NEW g, NEW c, NEW w,
         g.cmd = "SEGID", Stream(d, r, e, g, c, w), ~f.peer_ready,
         f.remote_size = e.remote_size, f.remote_xlat = e.remote_xlat
  PROVE  Stream(d, r, f, Empty, c, 0)
<1>1. Body(d, r, f, Empty, c, 0)
  BY Commands5, LeftsDiffer
    DEF Stream, Body, Parts, Avails, WindowOk, Ready,
        Agreed, Resets, Closes, SizeOk, XlatOk, Begun
<1> QED
  BY <1>1, FlowHandled DEF Stream

LEMMA StreamSize ==
  ASSUME NEW d, NEW r, NEW e, NEW f, NEW g, NEW c, NEW w,
         g.cmd = "SIZE", Stream(d, r, e, g, c, w),
         f.peer_ready = e.peer_ready, f.remote_id = e.remote_id,
         f.remote_size = g.data, f.remote_xlat = e.remote_xlat
  PROVE  Stream(d, r, f, Empty, c, w)
<1>1. Body(d, r, f, Empty, c, w)
  BY Commands5, LeftsDiffer
    DEF Stream, Body, Parts, Avails, WindowOk, Ready,
        Agreed, Resets, Closes, SizeOk, XlatOk, Begun
<1> QED
  BY <1>1, FlowHandled DEF Stream

LEMMA StreamXlat ==
  ASSUME NEW d, NEW r, NEW e, NEW f, NEW g, NEW c, NEW w,
         g.cmd = "XLAT", Stream(d, r, e, g, c, w),
         f.peer_ready = e.peer_ready, f.remote_id = e.remote_id,
         f.remote_size = e.remote_size, f.remote_xlat = g.data
  PROVE  Stream(d, r, f, Empty, c, w)
<1>1. Body(d, r, f, Empty, c, w)
  BY Commands5, LeftsDiffer
    DEF Stream, Body, Parts, Avails, WindowOk, Ready,
        Agreed, Resets, Closes, SizeOk, XlatOk, Begun
<1> QED
  BY <1>1, FlowHandled DEF Stream

LEMMA StreamAvail ==
  ASSUME NEW d, NEW r, NEW e, NEW f, NEW g, NEW c, NEW w, NEW u,
         g.cmd = "AVAIL", Stream(d, r, e, g, c, w), f.remote_id = g.data,
         f.remote_size = e.remote_size, f.remote_xlat = e.remote_xlat,
         \/ f.peer_ready = e.peer_ready /\ u = w
         \/ e.remote_size # 0 /\ e.remote_xlat # 0 /\ u = e.remote_xlat
         \/ ~f.peer_ready /\ u = 0
  PROVE  Stream(d, r, f, Empty, c, u)
<1>1. Parts(d, r, f, Empty, c)
  BY Commands5, LeftsDiffer
    DEF Stream, Body, Parts, Avails, WindowOk, Ready,
        Agreed, Resets, Closes, SizeOk, XlatOk, Begun
<1>2. Avails(d, r, f, Empty, c)
  BY Commands5, LeftsDiffer
    DEF Stream, Body, Parts, Avails, WindowOk, Ready,
        Agreed, Resets, Closes, SizeOk, XlatOk, Begun
<1>3. WindowOk(d, f, Empty, c, u)
  BY Commands5, LeftsDiffer
    DEF Stream, Body, Parts, Avails, WindowOk, Ready,
        Agreed, Resets, Closes, SizeOk, XlatOk, Begun
<1>4. Ready(d, r, f, Empty, c, u)
  BY Commands5, LeftsDiffer
    DEF Stream, Body, Parts, Avails, WindowOk, Ready,
        Agreed, Resets, Closes, SizeOk, XlatOk, Begun
<1> QED
  BY <1>1, <1>2, <1>3, <1>4, FlowHandled DEF Stream, Body

LEMMA StreamUnavail ==
  ASSUME NEW d, NEW r, NEW e, NEW f, NEW g, NEW c, NEW w, NEW u,
         g.cmd = "UNAVAIL", Stream(d, r, e, g, c, w), f.remote_id = e.remote_id,
         f.remote_size = e.remote_size, f.remote_xlat = e.remote_xlat,
         \/ e.remote_id # g.data /\ f.peer_ready = e.peer_ready /\ u = w
         \/ ~f.peer_ready /\ u = 0
  PROVE  Stream(d, r, f, Empty, c, u)
<1>1. Body(d, r, f, Empty, c, u)
  BY Commands5, LeftsDiffer
    DEF Stream, Body, Parts, Avails, WindowOk, Ready,
        Agreed, Resets, Closes, SizeOk, XlatOk, Begun
<1> QED
  BY <1>1, FlowHandled DEF Stream

(***************************************************************************)
(* What the exporter does: it sends the next command, ...                  *)
(***************************************************************************)
LEMMA StreamSend ==
  ASSUME NEW d, NEW r, NEW s, NEW e, NEW g, NEW c, NEW w,
         Exporter(d, r), r.by \in {"none", "drain", "work", "avail", "unavail", "remove"},
         c.cmd = "none", Stream(d, r, e, g, c, w),
         r.send # <<>>, s.by = r.by, s.send = Tail(r.send)
  PROVE  Stream(d, s, e, g, Head(r.send), w)
<1> DEFINE k == Head(r.send)
<1>9. Flow(d, s, e, g, k)
  BY FlowSend DEF Stream
<1> SUFFICES Body(d, s, e, g, k, w)
  BY <1>9 DEF Stream
<1>0. d.local_available => d.local_buf # 0
  BY DEF Exporter
<1>1. CASE Announces(r) /\ r.send = Left0(d)
  <2>1. k = CmdSegid(d) /\ s.send = Left1(d)
    BY <1>1, Lefts
  <2>2. k.cmd = "SEGID" /\ k.data = d.local_id
    BY <2>1, Commands5
  <2>3. d.local_buf # 0 /\ (Announces(s) <=> Announces(r)) /\ (Withdraws(s) <=> Withdraws(r))
    BY <1>0, <1>1 DEF Exporter, Announces, Withdraws
  <2> HIDE DEF k
  <2> QED
    BY ZenonT(40), <1>1, <2>1, <2>2, <2>3, LeftsDiffer
      DEF Stream, Body, Parts, Avails, WindowOk, Ready, Agreed, Resets, Closes,
          SizeOk, XlatOk, Begun, Owed
<1>2. CASE Announces(r) /\ r.send = Left1(d)
  <2>1. k = CmdSize(d) /\ s.send = Left2(d)
    BY <1>2, Lefts
  <2>2. k.cmd = "SIZE" /\ k.data = d.local_buf
    BY <2>1, Commands5
  <2>3. d.local_buf # 0 /\ (Announces(s) <=> Announces(r)) /\ (Withdraws(s) <=> Withdraws(r))
    BY <1>0, <1>2 DEF Exporter, Announces, Withdraws
  <2> HIDE DEF k
  <2> QED
    BY ZenonT(40), <1>2, <2>1, <2>2, <2>3, LeftsDiffer
      DEF Stream, Body, Parts, Avails, WindowOk, Ready, Agreed, Resets, Closes,
          SizeOk, XlatOk, Begun, Owed
<1>3. CASE Announces(r) /\ r.send = Left2(d)
  <2>1. k = CmdXlat(d) /\ s.send = Left3(d)
    BY <1>3, Lefts
  <2>2. k.cmd = "XLAT" /\ k.data = d.local_buf
    BY <2>1, Commands5
  <2>3. d.local_buf # 0 /\ (Announces(s) <=> Announces(r)) /\ (Withdraws(s) <=> Withdraws(r))
    BY <1>0, <1>3 DEF Exporter, Announces, Withdraws
  <2> HIDE DEF k
  <2> QED
    BY ZenonT(40), <1>3, <2>1, <2>2, <2>3, LeftsDiffer
      DEF Stream, Body, Parts, Avails, WindowOk, Ready, Agreed, Resets, Closes,
          SizeOk, XlatOk, Begun, Owed
<1>4. CASE Announces(r) /\ r.send = Left3(d)
  <2>1. k = CmdAvail(d) /\ s.send = <<>>
    BY <1>4, Lefts
  <2>2. k.cmd = "AVAIL" /\ k.data = d.local_id
    BY <2>1, Commands5
  <2>3. d.local_buf # 0 /\ (Announces(s) <=> Announces(r)) /\ (Withdraws(s) <=> Withdraws(r))
    BY <1>0, <1>4 DEF Exporter, Announces, Withdraws
  <2> HIDE DEF k
  <2> QED
    BY ZenonT(40), <1>4, <2>1, <2>2, <2>3, LeftsDiffer
      DEF Stream, Body, Parts, Avails, WindowOk, Ready, Agreed, Resets, Closes,
          SizeOk, XlatOk, Begun, Owed
<1>5. CASE Withdraws(r) /\ r.send = <<CmdUnavail(d)>>
  <2>1. k = CmdUnavail(d) /\ s.send = <<>>
    BY <1>5, Lefts
  <2>2. k.cmd = "UNAVAIL" /\ k.data = d.local_id
    BY <2>1, Commands5
  <2>3. d.local_buf # 0 /\ (Announces(s) <=> Announces(r)) /\ (Withdraws(s) <=> Withdraws(r))
    BY <1>0, <1>5 DEF Exporter, Announces, Withdraws
  <2> HIDE DEF k
  <2> QED
    BY ZenonT(40), <1>5, <2>1, <2>2, <2>3, LeftsDiffer
      DEF Stream, Body, Parts, Avails, WindowOk, Ready, Agreed, Resets, Closes,
          SizeOk, XlatOk, Begun, Owed
<1> QED
  BY <1>1, <1>2, <1>3, <1>4, <1>5 DEF Exporter, Announces, Withdraws, Begun

(***************************************************************************)
(* ... changes its structure to f and its run to s, but keeps the segment, *)
(***************************************************************************)
LEMMA StreamKeep ==
  ASSUME NEW d, NEW r, NEW f, NEW s, NEW e, NEW g, NEW c, NEW w,
         Stream(d, r, e, g, c, w),
         f.local_id = d.local_id, f.local_buf = d.local_buf,
         ~Begun(d, r.send), ~Begun(f, s.send), Owed(d, r) => Owed(f, s),
         Told(f, s) => Told(d, r), d.link_up => f.link_up
  PROVE  Stream(f, s, e, g, c, w)
<1>1. Body(f, s, e, g, c, w)
  BY LeftsSame
    DEF Stream, Body, Parts, Avails, WindowOk, Ready,
        Agreed, Resets, Closes, SizeOk, XlatOk, Begun
<1> QED
  BY <1>1, FlowKeep DEF Stream

(***************************************************************************)
(* ... or frees it and may have another one, which it does only when the   *)
(* importer has been told.                                                 *)
(***************************************************************************)
LEMMA StreamFree ==
  ASSUME NEW d, NEW r, NEW f, NEW s, NEW e, NEW g, NEW c, NEW w, NEW u,
         Stream(d, r, e, g, c, w),
         ~Owed(d, r), ~Begun(d, r.send), ~Begun(f, s.send),
         ~Told(f, s), d.link_up => f.link_up,
         u \in {0, f.local_buf} \/ (u = w /\ f.local_buf = d.local_buf)
  PROVE  Stream(f, s, e, g, c, u)
<1>1. Body(f, s, e, g, c, u)
  BY
    DEF Stream, Body, Parts, Avails, WindowOk, Ready,
        Agreed, Resets, Closes, SizeOk, XlatOk, Begun
<1> QED
  BY <1>1, FlowKeep DEF Stream

LEMMA StreamSame ==
  ASSUME NEW d, NEW r, NEW e, NEW f, NEW g, NEW c, NEW w, Stream(d, r, e, g, c, w),
         f.peer_ready = e.peer_ready, f.remote_id = e.remote_id,
         f.remote_size = e.remote_size, f.remote_xlat = e.remote_xlat
  PROVE  Stream(d, r, f, g, c, w)
<1>1. Body(d, r, f, g, c, w)
  BY DEF Stream, Body, Parts, Avails, WindowOk, Ready, Agreed, Resets, Closes, SizeOk, XlatOk
<1> QED
  BY <1>1, FlowSame DEF Stream

\* The module of the importer has just been loaded.
LEMMA StreamStart ==
  ASSUME NEW d, NEW r, NEW e, NEW w, w \in {0, d.local_buf},
         ~e.peer_ready, e.remote_size = 0, e.remote_xlat = 0
  PROVE  Stream(d, r, e, Empty, Empty, w)
<1>1. Body(d, r, e, Empty, Empty, w)
  BY Commands5
    DEF Stream, Body, Parts, Avails, WindowOk, Ready,
        Agreed, Resets, Closes, SizeOk, XlatOk, Begun
<1> QED
  BY <1>1, FlowStart DEF Stream-----------------------------------------------------------------------------
(***************************************************************************)
(* The invariant after a step of the exporter, whose structure, run and    *)
(* the importer's window become f, s and u, ...                            *)
(***************************************************************************)
LEMMA ExporterStep ==
  ASSUME TypeOK, NEW x \in VM, NEW y \in VM, x # y, Inv(x, y), NEW f, NEW s, NEW u,
         dev' = [dev EXCEPT ![x] = f], run' = [run EXCEPT ![x] = s],
         win' = [win EXCEPT ![y] = u],
         Exporter(f, s), f.loaded, loads'[x] > 0, box'[x] = Empty, link => link',
         pending'[y] => Notified(y),
         win[y] \in {0, dev[x].local_buf} => u \in {0, f.local_buf},
         Attached(y) => Stream(f, s, dev[y], run[y].got, box'[y], u)
  PROVE  Inv(x, y)'
<1>1. /\ dev'[x] = f /\ dev'[y] = dev[y] /\ run'[x] = s /\ run'[y] = run[y]
      /\ win'[x] = win[x] /\ win'[y] = u
  BY DEF TypeOK
<1>2. Attached(y)' = Attached(y) /\ Notified(y) = (pending[y] \/ Attached(y))
  BY <1>1 DEF Attached, Notified
<1> QED
  BY <1>1, <1>2 DEF Inv, Quiescent, Attached

(***************************************************************************)
(* ... and after a step of the importer.                                   *)
(***************************************************************************)
LEMMA ImporterStep ==
  ASSUME TypeOK, NEW x \in VM, NEW y \in VM, x # y, Inv(x, y), NEW f, NEW s, NEW u,
         dev' = [dev EXCEPT ![y] = f], run' = [run EXCEPT ![y] = s],
         win' = [win EXCEPT ![y] = u], loads'[x] = loads[x],
         Importer(f, s), box'[x] = Empty, pending'[x] => Notified(x),
         ~f.loaded => ~pending'[y],
         s.by = "none" /\ ~f.removed => u \in {0, dev[x].local_buf},
         f.loaded /\ ~f.removed =>
           link' /\ Stream(dev[x], run[x], f, s.got, box'[y], u)
  PROVE  Inv(x, y)'
<1>1. /\ dev'[y] = f /\ dev'[x] = dev[x] /\ run'[y] = s /\ run'[x] = run[x]
      /\ win'[x] = win[x] /\ win'[y] = u
  BY DEF TypeOK
<1>2. Attached(y)' = (f.loaded /\ ~f.removed)
  BY <1>1 DEF Attached
<1>3. Quiescent(y)'
  BY <1>1 DEF Quiescent, Importer
<1>4. Quiescent(x)'
  BY <1>1 DEF Inv, Quiescent, Notified, Attached
<1> QED
  BY <1>1, <1>2, <1>3, <1>4 DEF Inv

LEMMA Unframed ==
  ASSUME TypeOK, NEW v \in VM
  PROVE  /\ dev = [dev EXCEPT ![v] = dev[v]] /\ run = [run EXCEPT ![v] = run[v]]
         /\ win = [win EXCEPT ![v] = win[v]]
BY DEF TypeOK

LEMMA FreeFields ==
  /\ Free.by = "none" /\ Free.got.cmd = "none" /\ Free.got = Empty /\ Free.send = <<>>
  /\ \A by, cmds : /\ [Free EXCEPT !.by = by, !.send = cmds].by = by
                   /\ [Free EXCEPT !.by = by, !.send = cmds].send = cmds
                   /\ [Free EXCEPT !.by = by, !.send = cmds].got = Empty
                   /\ [Free EXCEPT !.by = by, !.send = cmds].got.cmd = "none"
BY DEF Free, Empty, Command

LEMMA NoneIsEmpty == ASSUME NEW c \in Commands, c.cmd = "none" PROVE c = Empty
BY DEF Commands, Command, Empty

\* Whoever has released the lock of the exporter leaves nothing behind.
LEMMA ExporterIdle ==
  ASSUME TypeOK, NEW x \in VM, NEW y, Inv(x, y), Unlocked(x)
  PROVE  run[x] = Free /\ run[x].send = <<>>
<1>1. run[x] \in Holding /\ run[x].got \in Commands /\ run[x].by = "none"
  BY DEF TypeOK, Holding, Unlocked
<1>2. run[x].got.cmd = "none" /\ run[x].send = <<>>
  BY <1>1 DEF Inv, Exporter
<1>3. run[x].got = Empty
  BY <1>1, <1>2, NoneIsEmpty
<1> QED
  BY <1>1, <1>2, <1>3 DEF Holding, Free

\* What publish_available_locked sends.
LEMMA AnnouncementLeft ==
  ASSUME NEW d
  PROVE  Announcement(d) =
           IF d.link_up /\ d.local_available /\ d.local_buf # 0 /\ ~d.local_published
           THEN Left0(d) ELSE <<>>
BY DEF Announcement, Left0, CmdSegid, CmdSize, CmdXlat, CmdAvail
-----------------------------------------------------------------------------
(***************************************************************************)
(* The steps of the exporter.                                              *)
(***************************************************************************)
LEMMA InvSendCmd ==
  ASSUME TypeOK, NEW x \in VM, NEW y \in VM, y = Peer(x), x # y, Inv(x, y), SendCmd(x)
  PROVE  Inv(x, y)'
<1> DEFINE d == dev[x]
           r == run[x]
           s == [run[x] EXCEPT !.send = Tail(run[x].send)]
<1>1. /\ r \in Holding /\ Exporter(d, r) /\ d.loaded /\ loads[x] > 0
  BY DEF TypeOK, Inv, Quiescent, SendCmd, Sending, Exporter
<1>2. s.by = r.by /\ s.got = r.got /\ s.send = Tail(r.send)
  BY <1>1 DEF Holding
<1>3. r.by \in {"none", "drain", "work", "avail", "unavail", "remove"}
  BY <1>1 DEF Holding
<1>4. /\ r.send # <<>> /\ box[y] = Empty
      /\ dev' = [dev EXCEPT ![x] = d] /\ run' = [run EXCEPT ![x] = s]
      /\ win' = [win EXCEPT ![y] = win[y]]
      /\ box'[x] = Empty /\ box'[y] = Head(r.send)
      /\ loads' = loads /\ link' = link /\ (pending'[y] => Notified(y))
  BY Unframed DEF SendCmd, Sending, TypeOK, Inv
<1> HIDE DEF d, r, s
<1>5. Exporter(d, s)
  <2>1. CASE Announces(r)
    <3>1. r.send \in {Left0(d), Left1(d), Left2(d), Left3(d)}
      BY <1>1, <1>4, <2>1 DEF Exporter, Begun
    <3>2. s.send = <<>> \/ Begun(d, s.send)
      BY <1>2, <3>1, Lefts DEF Begun
    <3> QED
      BY <1>1, <1>2, <2>1, <3>2 DEF Exporter, Announces, Withdraws
  <2>2. CASE Withdraws(r)
    <3>1. s.send = <<>>
      BY <1>1, <1>2, <1>4, <2>2, Lefts DEF Exporter
    <3> QED
      BY <1>1, <1>2, <2>2, <3>1 DEF Exporter, Announces, Withdraws
  <2> QED
    BY <1>1, <1>3, <1>4, <2>1, <2>2 DEF Exporter, Announces, Withdraws
<1>6. Attached(y) => Stream(d, s, dev[y], run[y].got, box'[y], win[y])
  <2> SUFFICES ASSUME Attached(y)
               PROVE  Stream(d, s, dev[y], run[y].got, Head(r.send), win[y])
    BY <1>4
  <2>1. Stream(d, r, dev[y], run[y].got, box[y], win[y])
    BY DEF Inv, d, r
  <2>2. box[y].cmd = "none" /\ s.by = r.by /\ s.send = Tail(r.send) /\ r.send # <<>>
    BY <1>2, <1>4, Commands5
  <2> QED
    BY <1>1, <1>3, <2>1, <2>2, StreamSend
<1>7. win[y] \in {0, dev[x].local_buf} => win[y] \in {0, d.local_buf}
  BY DEF d
<1> QED
  BY <1>1, <1>4, <1>5, <1>6, <1>7, ExporterStep

LEMMA InvSendFail ==
  ASSUME TypeOK, NEW x \in VM, NEW y \in VM, y = Peer(x), x # y, Inv(x, y), SendFail(x)
  PROVE  Inv(x, y)'
<1>1. ~Attached(y)
  BY DEF Inv, SendFail, Blocked, Sending, Importer
<1>2. /\ dev[x].loaded /\ loads[x] > 0 /\ Exporter(dev[x], run[x])
  BY DEF TypeOK, Inv, Quiescent, SendFail, Sending, Exporter
<1>3. Exporter(dev[x], Free)
  BY <1>2, FreeFields DEF Exporter, Announces, Withdraws
<1>4. /\ dev' = [dev EXCEPT ![x] = dev[x]] /\ run' = [run EXCEPT ![x] = Free]
      /\ win' = [win EXCEPT ![y] = win[y]]
      /\ box'[x] = Empty
      /\ loads' = loads /\ link' = link /\ (pending'[y] => Notified(y))
  BY Unframed DEF SendFail, Release, TypeOK, Inv, Notified
<1> QED
  BY <1>1, <1>2, <1>3, <1>4, ExporterStep

(***************************************************************************)
(* A step of the exporter that keeps the segment, its driver being loaded  *)
(* and having nothing to send before.                                      *)
(***************************************************************************)
LEMMA InvKeep ==
  ASSUME TypeOK, NEW x \in VM, NEW y \in VM, y = Peer(x), x # y, Inv(x, y),
         NEW f, NEW s,
         dev' = [dev EXCEPT ![x] = f], run' = [run EXCEPT ![x] = s],
         win' = [win EXCEPT ![y] = win[y]],
         UNCHANGED <<box, link, loads>>, pending'[y] = pending[y],
         dev[x].loaded, f.loaded, f.local_id = dev[x].local_id,
         f.local_buf = dev[x].local_buf,
         run[x].send = <<>>, ~Begun(f, s.send), Exporter(f, s),
         Owed(dev[x], run[x]) => Owed(f, s),
         Told(f, s) => Told(dev[x], run[x]), dev[x].link_up => f.link_up
  PROVE  Inv(x, y)'
<1>1. ~Begun(dev[x], run[x].send)
  BY LeftsDiffer DEF Begun
<1>2. ASSUME Attached(y) PROVE Stream(f, s, dev[y], run[y].got, box'[y], win[y])
  <2>1. Stream(dev[x], run[x], dev[y], run[y].got, box[y], win[y])
    BY <1>2 DEF Inv
  <2>2. Stream(f, s, dev[y], run[y].got, box[y], win[y])
    BY ZenonT(40), <1>1, <2>1, StreamKeep
  <2> QED
    BY <2>2
<1>3. /\ loads'[x] > 0 /\ box'[x] = Empty
      /\ (link => link') /\ (pending'[y] => Notified(y))
      /\ (win[y] \in {0, dev[x].local_buf} => win[y] \in {0, f.local_buf})
  BY DEF Inv, Notified
<1> QED
  BY <1>2, <1>3, ExporterStep

(***************************************************************************)
(* A step that frees the segment, or has a new one.                        *)
(***************************************************************************)
LEMMA InvFree ==
  ASSUME TypeOK, NEW x \in VM, NEW y \in VM, y = Peer(x), x # y, Inv(x, y),
         NEW f, NEW u,
         dev' = [dev EXCEPT ![x] = f], run' = [run EXCEPT ![x] = Free],
         win' = [win EXCEPT ![y] = u],
         UNCHANGED <<box, link, loads>>, pending'[y] = pending[y],
         dev[x].loaded, f.loaded,
         run[x].send = <<>>, ~Owed(dev[x], run[x]), Exporter(f, Free),
         ~f.local_published, dev[x].link_up => f.link_up,
         u \in {0, f.local_buf} \/ (u = win[y] /\ f.local_buf = dev[x].local_buf)
  PROVE  Inv(x, y)'
<1>1. ~Begun(dev[x], run[x].send) /\ ~Begun(f, Free.send) /\ ~Told(f, Free)
  BY LeftsDiffer, FreeFields, SMT DEF Begun, Told, Announces
<1>2. Attached(y) => Stream(f, Free, dev[y], run[y].got, box'[y], u)
  BY <1>1, StreamFree DEF Inv
<1>3. /\ loads'[x] > 0 /\ box'[x] = Empty
      /\ (link => link') /\ (pending'[y] => Notified(y))
      /\ (win[y] \in {0, dev[x].local_buf} => u \in {0, f.local_buf})
  BY DEF Inv, Notified
<1> QED
  BY <1>2, <1>3, ExporterStep

\* The run that publish_available_locked leaves when f is the structure.
Publishing(f, by) ==
  IF Announcement(f) = <<>> THEN Free
                            ELSE [Free EXCEPT !.by = by, !.send = Announcement(f)]

LEMMA PublishingExporter ==
  ASSUME NEW f, NEW by \in {"work", "avail"}, Exporter(f, Free),
         NEW s, s = Publishing(f, by)
  PROVE  /\ Exporter(f, s) /\ ~Begun(f, s.send)
         /\ f.link_up /\ f.local_available => Owed(f, s)
         /\ f.local_published => Owed(f, s)
         /\ Told(f, s) => f.local_published
<1>1. CASE Announcement(f) = <<>>
  <2>1. s = Free
    BY <1>1 DEF Publishing
  <2>2. ~Begun(f, s.send)
    BY <2>1, FreeFields, LeftsDiffer, SMT DEF Begun
  <2>3. f.link_up /\ f.local_available => f.local_published /\ f.local_buf # 0
    BY <1>1, AnnouncementLeft, LeftsDiffer DEF Exporter
  <2>4. f.local_published => f.local_buf # 0
    BY DEF Exporter
  <2>5. Told(f, s) => f.local_published
    BY <2>1, FreeFields DEF Told, Announces
  <2> QED
    BY <2>1, <2>2, <2>3, <2>4, <2>5 DEF Owed
<1>2. CASE Announcement(f) # <<>>
  <2>1. /\ Announcement(f) = Left0(f)
        /\ f.link_up /\ f.local_available /\ f.local_buf # 0 /\ ~f.local_published
    BY <1>2, AnnouncementLeft
  <2>2. s.by = by /\ s.send = Left0(f) /\ s.got.cmd = "none"
    BY <1>2, <2>1, FreeFields, SMT DEF Publishing
  <2>3. ~Begun(f, s.send) /\ (Told(f, s) => f.local_published)
    BY <2>2, LeftsDiffer DEF Begun, Told
  <2> QED
    BY <2>1, <2>2, <2>3 DEF Exporter, Owed, Announces, Withdraws
<1> QED
  BY <1>1, <1>2

LEMMA InvSendDone ==
  ASSUME TypeOK, NEW x \in VM, NEW y \in VM, y = Peer(x), x # y, Inv(x, y), SendDone(x)
  PROVE  Inv(x, y)'
<1> DEFINE d == dev[x]
           r == run[x]
<1>1. /\ d \in Device /\ Exporter(d, r) /\ d.loaded
  BY DEF TypeOK, Inv, Quiescent, SendDone
<1>2. /\ r.send = <<>> /\ UNCHANGED <<box, link, loads, pending>>
      /\ run' = [run EXCEPT ![x] = Free]
  BY DEF SendDone, Sending, Release
<1>3. ~Begun(d, Free.send) /\ ~Begun(d, r.send)
  BY <1>2, FreeFields, LeftsDiffer DEF Begun
<1>4. CASE r.by \in {"work", "avail"}
  <2> DEFINE f == [d EXCEPT !.local_published = TRUE]
  <2>1. /\ f.loaded /\ f.local_id = d.local_id /\ f.local_buf = d.local_buf
        /\ f.local_published /\ f.link_up = d.link_up
        /\ f.local_available = d.local_available /\ f.removed = d.removed
        /\ f.peer_ready = d.peer_ready
    BY <1>1 DEF Device
  <2>2. dev' = [dev EXCEPT ![x] = f] /\ win' = [win EXCEPT ![y] = win[y]]
    BY <1>4, Unframed DEF SendDone, TypeOK
  <2> HIDE DEF f
  <2>3. Exporter(f, Free) /\ Owed(f, Free)
    BY <1>1, <1>4, <2>1, FreeFields DEF Exporter, Owed, Announces, Withdraws
  <2>4. ~Begun(f, Free.send) /\ Told(d, r)
    BY <1>2, <1>4, FreeFields, LeftsDiffer DEF Begun, Told, Announces
  <2> QED
    BY <1>1, <1>2, <2>1, <2>2, <2>3, <2>4, InvKeep
<1>5. CASE r.by = "unavail"
  <2>1. dev' = [dev EXCEPT ![x] = d] /\ win' = [win EXCEPT ![y] = win[y]]
    BY <1>5, Unframed DEF SendDone
  <2>2. Exporter(d, Free) /\ ~Owed(d, r)
    BY <1>1, <1>2, <1>5, FreeFields DEF Exporter, Owed, Announces, Withdraws
  <2>3. Told(d, Free) => Told(d, r)
    BY FreeFields DEF Told, Announces
  <2> QED
    BY <1>1, <1>2, <1>3, <2>1, <2>2, <2>3, InvKeep
<1>6. CASE r.by = "remove"
  <2> DEFINE f == FreeSegment(d)
  <2>1. /\ f.loaded /\ f.local_buf = 0 /\ ~f.local_published /\ ~f.local_available
        /\ f.removed = d.removed /\ f.peer_ready = d.peer_ready /\ f.link_up = d.link_up
    BY <1>1 DEF Device, FreeSegment
  <2>2. dev' = [dev EXCEPT ![x] = f] /\ win' = [win EXCEPT ![y] = 0]
    BY <1>6 DEF SendDone, TypeOK
  <2> HIDE DEF f
  <2>3. Exporter(f, Free) /\ ~Owed(d, r)
    BY <1>1, <1>2, <1>6, <2>1, FreeFields DEF Exporter, Owed, Announces, Withdraws
  <2> QED
    BY <1>1, <1>2, <2>1, <2>2, <2>3, InvFree
<1> QED
  BY <1>4, <1>5, <1>6 DEF SendDone

LEMMA InvDrained ==
  ASSUME TypeOK, NEW x \in VM, NEW y \in VM, y = Peer(x), x # y, Inv(x, y), Drained(x)
  PROVE  Inv(x, y)'
<1> DEFINE s == Publishing(dev[x], "work")
<1>1. /\ Exporter(dev[x], run[x]) /\ dev[x].loaded /\ run[x].by = "drain"
  BY DEF TypeOK, Inv, Quiescent, Drained
<1>2. Exporter(dev[x], Free) /\ run[x].send = <<>>
  BY <1>1, FreeFields DEF Exporter, Announces, Withdraws
<1>3. /\ dev' = [dev EXCEPT ![x] = dev[x]] /\ run' = [run EXCEPT ![x] = s]
      /\ win' = [win EXCEPT ![y] = win[y]] /\ UNCHANGED <<box, link, loads, pending>>
  BY Unframed DEF Drained, Publishing, Release, Hold
<1> HIDE DEF s
<1>4. /\ Exporter(dev[x], s) /\ ~Begun(dev[x], s.send)
      /\ dev[x].local_published => Owed(dev[x], s)
      /\ Told(dev[x], s) => dev[x].local_published
  BY <1>2, PublishingExporter DEF s
<1>5. /\ Owed(dev[x], run[x]) => Owed(dev[x], s)
      /\ Told(dev[x], s) => Told(dev[x], run[x])
  BY <1>1, <1>4 DEF Owed, Told, Announces, Withdraws
<1> QED
  BY <1>1, <1>2, <1>3, <1>4, <1>5, InvKeep

LEMMA InvWorkStart ==
  ASSUME TypeOK, NEW x \in VM, NEW y \in VM, y = Peer(x), x # y, Inv(x, y), WorkStart(x)
  PROVE  Inv(x, y)'
<1> DEFINE d == dev[x]
<1>1. /\ d \in Device /\ Exporter(d, run[x]) /\ d.loaded /\ ~d.removed
      /\ run[x].by = "none" /\ run[x].send = <<>> /\ pending'[y] = pending[y]
      /\ UNCHANGED <<box, link, loads>> /\ loads[x] > 0
  BY DEF TypeOK, Inv, Quiescent, WorkStart, Unlocked, Exporter
<1>2. CASE ~link
  <2> DEFINE f == LinkDown(d)
  <2>1. /\ f.loaded /\ f.local_buf = d.local_buf /\ ~f.local_published
        /\ f.local_available = d.local_available
        /\ ~f.removed /\ ~f.peer_ready
    BY <1>1 DEF Device, LinkDown, PeerUnready
  <2>2. dev' = [dev EXCEPT ![x] = f] /\ run' = [run EXCEPT ![x] = run[x]]
    BY <1>1, <1>2, Unframed DEF WorkStart, TypeOK
  <2>3. win' = [win EXCEPT ![y] = win[y]]
    <3>1. win' = [win EXCEPT ![x] = 0]
      BY <1>1, <1>2 DEF WorkStart, TypeOK
    <3> QED
      BY <3>1 DEF Inv, TypeOK
  <2> HIDE DEF f
  <2>4. Exporter(f, run[x])
    BY <1>1, <2>1 DEF Exporter, Announces, Withdraws
  <2>5. Attached(y) => Stream(f, run[x], dev[y], run[y].got, box'[y], win[y])
    BY <1>2 DEF Inv
  <2>6. /\ loads'[x] > 0 /\ box'[x] = Empty
        /\ (link => link') /\ (pending'[y] => Notified(y))
        /\ (win[y] \in {0, dev[x].local_buf} => win[y] \in {0, f.local_buf})
    BY <1>1, <2>1 DEF Inv, Notified
  <2> QED
    BY <2>1, <2>2, <2>3, <2>4, <2>5, <2>6, ExporterStep
<1>3. CASE link
  <2> DEFINE f == [d EXCEPT !.link_up = TRUE]
             s == [Free EXCEPT !.by = "drain", !.send = <<>>]
  <2>1. /\ f.loaded /\ f.local_id = d.local_id /\ f.local_buf = d.local_buf
        /\ f.local_published = d.local_published /\ f.link_up
        /\ f.local_available = d.local_available /\ f.removed = d.removed
        /\ f.peer_ready = d.peer_ready
    BY <1>1 DEF Device
  <2>2. s.by = "drain" /\ s.send = <<>> /\ s.got.cmd = "none"
    BY FreeFields, SMT
  <2>3. /\ dev' = [dev EXCEPT ![x] = f] /\ run' = [run EXCEPT ![x] = s]
        /\ win' = [win EXCEPT ![y] = win[y]]
    BY <1>1, <1>3, Unframed DEF WorkStart, TypeOK, Hold
  <2> HIDE DEF f, s
  <2>4. Exporter(f, s) /\ (Owed(dev[x], run[x]) => Owed(f, s))
    BY <1>1, <2>1, <2>2 DEF Exporter, Owed, Announces, Withdraws
  <2>5. ~Begun(f, s.send) /\ (Told(f, s) => Told(dev[x], run[x]))
    BY <2>1, <2>2, LeftsDiffer DEF Begun, Told, Announces
  <2> QED
    BY <1>1, <2>1, <2>3, <2>4, <2>5, InvKeep
<1> QED
  BY <1>2, <1>3

LEMMA InvSetAvailable ==
  ASSUME TypeOK, NEW x \in VM, NEW y \in VM, y = Peer(x), x # y, Inv(x, y), SetAvailable(x)
  PROVE  Inv(x, y)'
<1> DEFINE d == dev[x]
           f == [d EXCEPT !.local_available = TRUE, !.local_published = FALSE]
           s == Publishing(f, "avail")
<1>1. /\ d \in Device /\ Exporter(d, run[x]) /\ d.loaded /\ d.local_buf # 0
      /\ run[x].by = "none"
  BY DEF TypeOK, Inv, SetAvailable, HasSegment, Unlocked, Attached
<1>2. run[x] = Free /\ run[x].send = <<>>
  BY ExporterIdle DEF SetAvailable, HasSegment
<1>3. /\ f.loaded /\ f.local_id = d.local_id /\ f.local_buf = d.local_buf
      /\ ~f.local_published /\ f.link_up = d.link_up
      /\ f.local_available /\ f.removed = d.removed
      /\ f.peer_ready = d.peer_ready
  BY <1>1 DEF Device
<1>4. /\ dev' = [dev EXCEPT ![x] = f] /\ run' = [run EXCEPT ![x] = s]
      /\ win' = [win EXCEPT ![y] = win[y]] /\ UNCHANGED <<box, link, loads, pending>>
  BY <1>2, Unframed DEF SetAvailable, Publishing, Hold, TypeOK
<1> HIDE DEF f
<1>5. Exporter(f, Free)
  BY <1>1, <1>3, FreeFields DEF Exporter, Announces, Withdraws
<1>6. Exporter(f, s) /\ ~Begun(f, s.send) /\ (f.link_up => Owed(f, s)) /\ ~Told(f, s)
  BY <1>3, <1>5, PublishingExporter
<1>7. Owed(dev[x], run[x]) => Owed(f, s)
  BY <1>1, <1>3, <1>6 DEF Owed, Announces, Withdraws, Exporter
<1> HIDE DEF s
<1> QED
  BY <1>1, <1>2, <1>3, <1>4, <1>6, <1>7, InvKeep

LEMMA InvCreateSegment ==
  ASSUME TypeOK, NEW x \in VM, NEW y \in VM, y = Peer(x), x # y, Inv(x, y),
         NEW id \in Ids, NEW ok \in BOOLEAN, CreateSegment(x, id, ok), SisciConstants
  PROVE  Inv(x, y)'
<1> DEFINE d == dev[x]
           b == allocs[x] + 1
<1>1. /\ d \in Device /\ Exporter(d, run[x]) /\ d.loaded /\ ~d.local_available
      /\ run[x].by = "none" /\ UNCHANGED <<box, link, loads, pending>>
  BY DEF TypeOK, Inv, CreateSegment, Unlocked, Attached, Exporter
<1>2. run' = [run EXCEPT ![x] = Free] /\ run[x].send = <<>>
  BY ExporterIdle, Unframed DEF CreateSegment
<1>3. ~Owed(d, run[x])
  BY <1>1 DEF Exporter, Owed, Announces, Withdraws
<1>4. CASE ok
  <2> DEFINE f == [FreeSegment(d) EXCEPT !.local_buf = b, !.local_id = id]
  <2>1. /\ f.loaded /\ f.local_buf = b /\ ~f.local_published /\ ~f.local_available
        /\ f.removed = d.removed /\ f.peer_ready = d.peer_ready /\ f.link_up = d.link_up
    BY <1>1 DEF Device, FreeSegment
  <2>2. dev' = [dev EXCEPT ![x] = f] /\ win' = [win EXCEPT ![y] = b]
    BY <1>4 DEF CreateSegment, TypeOK
  <2> HIDE DEF f, b
  <2>3. Exporter(f, Free)
    BY <1>1, <2>1, FreeFields DEF Exporter, Announces, Withdraws
  <2> QED
    BY <1>1, <1>2, <1>3, <2>1, <2>2, <2>3, InvFree
<1>5. CASE ~ok
  <2> DEFINE f == FreeSegment(d)
             u == IF d.local_buf # 0 THEN 0 ELSE win[y]
  <2>1. /\ f.loaded /\ f.local_buf = 0 /\ ~f.local_published /\ ~f.local_available
        /\ f.removed = d.removed /\ f.peer_ready = d.peer_ready /\ f.link_up = d.link_up
    BY <1>1 DEF Device, FreeSegment
  <2>2. dev' = [dev EXCEPT ![x] = f] /\ win' = [win EXCEPT ![y] = u]
    BY <1>5 DEF CreateSegment, TypeOK
  <2>3. u \in {0, f.local_buf} \/ (u = win[y] /\ f.local_buf = dev[x].local_buf)
    BY <2>1
  <2> HIDE DEF f, u
  <2>4. Exporter(f, Free)
    BY <1>1, <2>1, FreeFields DEF Exporter, Announces, Withdraws
  <2>5. f.loaded /\ ~f.local_published /\ (dev[x].link_up => f.link_up)
    BY <2>1
  <2> QED
    BY <1>1, <1>2, <1>3, <2>2, <2>3, <2>4, <2>5, InvFree
<1> QED
  BY <1>4, <1>5

LEMMA InvWithdraw ==
  ASSUME TypeOK, NEW x \in VM, NEW y \in VM, y = Peer(x), x # y, Inv(x, y),
         NEW by \in {"unavail", "remove"}, Withdraw(x, by)
  PROVE  Inv(x, y)'
<1> DEFINE d == dev[x]
           f == [d EXCEPT !.local_available = FALSE, !.local_published = FALSE]
<1>1. /\ d \in Device /\ Exporter(d, run[x]) /\ d.loaded /\ d.local_buf # 0
      /\ run[x].by = "none" /\ run[x].send = <<>>
      /\ UNCHANGED <<box, link, loads, pending>>
  BY DEF TypeOK, Inv, Withdraw, HasSegment, Unlocked, Attached, Exporter
<1>2. /\ f.loaded /\ f.local_id = d.local_id /\ f.local_buf = d.local_buf
      /\ ~f.local_published /\ f.link_up = d.link_up
      /\ ~f.local_available /\ f.removed = d.removed
      /\ f.peer_ready = d.peer_ready /\ f \in Device
  BY <1>1 DEF Device
<1>3. CASE d.link_up /\ d.local_published
  <2> DEFINE s == [Free EXCEPT !.by = by, !.send = <<CmdUnavail(f)>>]
  <2>1. /\ dev' = [dev EXCEPT ![x] = f] /\ run' = [run EXCEPT ![x] = s]
        /\ win' = [win EXCEPT ![y] = win[y]]
    BY <1>3, Unframed DEF Withdraw, Hold, CmdUnavail
  <2>2. s.by = by /\ s.send = <<CmdUnavail(f)>> /\ s.got.cmd = "none"
    BY FreeFields, SMT
  <2> HIDE DEF f, s
  <2>3. s.send # <<>> /\ ~Begun(f, s.send)
    BY <2>2, LeftsDiffer DEF Begun
  <2>4. Exporter(f, s) /\ Owed(f, s) /\ ~Told(f, s)
    BY <1>1, <1>2, <1>3, <2>2, <2>3 DEF Exporter, Owed, Told, Announces, Withdraws
  <2> QED
    BY <1>1, <1>2, <2>1, <2>3, <2>4, InvKeep
<1>4. CASE ~(d.link_up /\ d.local_published)
  <2>1. run' = [run EXCEPT ![x] = Free]
    <3>1. run[x] = Free
      BY ExporterIdle DEF Withdraw, HasSegment
    <3> QED
      BY <1>4, <3>1, Unframed DEF Withdraw
  <2>2. ~Owed(d, run[x])
    BY <1>1, <1>4 DEF Exporter, Owed, Announces, Withdraws
  <2>3. CASE by = "unavail"
    <3>1. dev' = [dev EXCEPT ![x] = f] /\ win' = [win EXCEPT ![y] = win[y]]
      BY <1>4, <2>3, Unframed DEF Withdraw
    <3> HIDE DEF f
    <3>2. Exporter(f, Free)
      BY <1>1, <1>2, FreeFields DEF Exporter, Announces, Withdraws
    <3> QED
      BY <1>1, <1>2, <2>1, <2>2, <3>1, <3>2, InvFree
  <2>4. CASE by = "remove"
    <3> DEFINE h == FreeSegment(f)
    <3>1. dev' = [dev EXCEPT ![x] = h] /\ win' = [win EXCEPT ![y] = 0]
      BY <1>4, <2>4 DEF Withdraw
    <3> HIDE DEF f
    <3>2. /\ h.loaded /\ h.local_buf = 0 /\ ~h.local_published /\ ~h.local_available
          /\ h.removed = f.removed /\ h.peer_ready = f.peer_ready
          /\ h.link_up = f.link_up
      BY <1>2 DEF Device, FreeSegment
    <3> HIDE DEF h
    <3>3. Exporter(h, Free)
      BY <1>1, <1>2, <3>2, FreeFields DEF Exporter, Announces, Withdraws
    <3>4. h.loaded /\ ~h.local_published /\ (dev[x].link_up => h.link_up)
      BY <1>2, <3>2
    <3> QED
      BY <1>1, <2>1, <2>2, <3>1, <3>3, <3>4, InvFree
  <2> QED
    BY <2>3, <2>4
<1> QED
  BY <1>3, <1>4

LEMMA ProbedFields ==
  ASSUME NEW f, f = [Unloaded EXCEPT !.loaded = TRUE]
  PROVE  /\ f.loaded /\ ~f.removed /\ ~f.peer_ready /\ ~f.local_published
         /\ ~f.local_available /\ f.local_buf = 0 /\ f.remote_size = 0 /\ f.remote_xlat = 0
BY DEF Unloaded

LEMMA InvProbe ==
  ASSUME TypeOK, NEW x \in VM, NEW y \in VM, y = Peer(x), x # y, Inv(x, y), Probe(x)
  PROVE  Inv(x, y)'
<1> DEFINE d == dev[x]
           f == [Unloaded EXCEPT !.loaded = TRUE]
<1>1. /\ Exporter(d, run[x]) /\ d.local_buf = 0 /\ run[x].by = "none" /\ run[x].send = <<>>
      /\ ~d.link_up
  BY DEF Inv, Quiescent, Probe, Exporter
<1>2. /\ dev' = [dev EXCEPT ![x] = f] /\ run' = [run EXCEPT ![x] = run[x]]
      /\ win' = [win EXCEPT ![y] = win[y]]
  BY Unframed DEF Probe
<1>3. f.loaded /\ ~f.removed /\ ~f.peer_ready /\ ~f.local_published /\ ~f.local_available
      /\ f.local_buf = 0
  BY ProbedFields
<1> HIDE DEF f
<1>4. Exporter(f, run[x])
  BY <1>1, <1>3 DEF Exporter, Announces, Withdraws
<1>5. /\ ~Owed(d, run[x]) /\ ~Begun(d, run[x].send) /\ ~Begun(f, run[x].send)
      /\ ~Told(f, run[x])
  BY <1>1, <1>3, LeftsDiffer DEF Owed, Begun, Told, Announces
<1>6. win[y] \in {0, f.local_buf} \/ (win[y] = win[y] /\ f.local_buf = d.local_buf)
  BY <1>1, <1>3
<1>7. box'[y] = box[y] /\ box'[x] = Empty /\ link' /\ loads'[x] > 0
  BY SMT DEF Probe, TypeOK
<1>8. Attached(y) => Stream(f, run[x], dev[y], run[y].got, box'[y], win[y])
  BY <1>1, <1>5, <1>6, <1>7, StreamFree DEF Inv
<1>9. pending'[y] => Notified(y)
  BY DEF Probe, TypeOK
<1>10. win[y] \in {0, dev[x].local_buf} => win[y] \in {0, f.local_buf}
  BY <1>1, <1>3
<1>11. f.loaded /\ loads'[x] > 0 /\ box'[x] = Empty /\ (link => link')
  BY <1>3, <1>7
<1> QED
  BY <1>2, <1>4, <1>8, <1>9, <1>10, <1>11, ExporterStep
-----------------------------------------------------------------------------
(***************************************************************************)
(* The steps of the importer.                                              *)
(***************************************************************************)
LEMMA InvLoad ==
  ASSUME TypeOK, NEW x \in VM, NEW y \in VM, x = Peer(y), x # y, Inv(x, y),
         Probe(y) \/ SetRemoved(y) \/ Remove(y)
  PROVE  Inv(x, y)'
<1>1. /\ dev[y] \in Device /\ run[y].got \in Commands /\ Importer(dev[y], run[y])
      /\ dev \in [VM -> Device] /\ win \in [VM -> Bufs]
  BY DEF TypeOK, Holding, Inv
<1>2. CASE Probe(y)
  <2> DEFINE f == [Unloaded EXCEPT !.loaded = TRUE]
  <2>1. /\ dev' = [dev EXCEPT ![y] = f] /\ run' = [run EXCEPT ![y] = run[y]]
        /\ win' = [win EXCEPT ![y] = win[y]]
    BY <1>2, Unframed DEF Probe
  <2>2. /\ f.loaded /\ ~f.removed /\ ~f.peer_ready /\ ~f.local_published
        /\ ~f.local_available /\ f.local_buf = 0 /\ f.remote_size = 0 /\ f.remote_xlat = 0
    BY ProbedFields
  <2> HIDE DEF f
  <2>3. Importer(f, run[y]) /\ run[y].got = Empty
    BY <1>1, <1>2, <2>2, NoneIsEmpty DEF Importer, Probe
  <2>4. /\ box'[x] = Empty /\ box'[y] = Empty /\ loads'[x] = loads[x] /\ link'
        /\ win[y] \in {0, dev[x].local_buf}
    BY <1>2 DEF Probe, TypeOK, Inv, Importer
  <2>5. pending'[x] => Notified(x)
    BY <1>2 DEF Probe, TypeOK
  <2>6. Stream(dev[x], run[x], f, run[y].got, box'[y], win[y])
    BY <2>2, <2>3, <2>4, StreamStart
  <2> QED
    BY <2>1, <2>2, <2>3, <2>4, <2>5, <2>6, ImporterStep
<1>3. CASE SetRemoved(y)
  <2> DEFINE f == [dev[y] EXCEPT !.removed = TRUE, !.peer_ready = FALSE,
                     !.remote_announced = FALSE, !.local_available = FALSE,
                     !.local_published = FALSE]
  <2>1. dev' = [dev EXCEPT ![y] = f]
    BY <1>1, <1>3 DEF SetRemoved
  <2>5. run' = [run EXCEPT ![y] = run[y]] /\ win' = [win EXCEPT ![y] = win[y]]
    BY <1>3, Unframed DEF SetRemoved
  <2>2. /\ f.loaded /\ f.removed /\ ~f.peer_ready /\ ~f.local_published
        /\ ~f.local_available /\ f.local_buf = dev[y].local_buf
    BY <1>1, <1>3 DEF Device, SetRemoved, Attached
  <2> HIDE DEF f
  <2>3. Importer(f, run[y])
    BY <1>1, <2>2 DEF Importer
  <2>4. /\ box'[x] = Empty /\ loads'[x] = loads[x] /\ (pending'[x] => Notified(x))
    BY <1>3 DEF SetRemoved, TypeOK, Inv
  <2> QED
    BY <2>1, <2>2, <2>3, <2>4, <2>5, ImporterStep
<1>4. CASE Remove(y)
  <2>1. dev' = [dev EXCEPT ![y] = Unloaded] /\ run' = [run EXCEPT ![y] = run[y]]
    BY <1>4, Unframed DEF Remove
  <2>4. win' = [win EXCEPT ![y] = 0]
    <3>1. win' = [win EXCEPT ![y] = 0, ![x] = IF dev[y].local_buf # 0 THEN 0 ELSE @]
      BY <1>4 DEF Remove
    <3>2. dev[y].local_buf = 0
      BY <1>1 DEF Importer
    <3> DEFINE closed == [win EXCEPT ![y] = 0]
    <3>3. /\ win' = [closed EXCEPT ![x] = IF dev[y].local_buf # 0 THEN 0 ELSE closed[x]]
          /\ closed = [v \in VM |-> closed[v]]
      BY <1>1, <3>1
    <3> HIDE DEF closed
    <3>4. win' = closed
      BY <3>2, <3>3
    <3> QED
      BY <3>4 DEF closed
  <2>2. Importer(Unloaded, run[y]) /\ ~Unloaded.loaded
    BY <1>1, <1>4 DEF Importer, Unloaded, Remove, Unlocked
  <2>3. /\ box'[x] = Empty /\ loads'[x] = loads[x] /\ (pending'[x] => Notified(x))
        /\ ~pending'[y]
    BY <1>4 DEF Remove, TypeOK, Inv, Notified
  <2> QED
    BY <2>1, <2>2, <2>3, <2>4, ImporterStep
<1> QED
  BY <1>2, <1>3, <1>4

LEMMA InvImporterWork ==
  ASSUME TypeOK, NEW x \in VM, NEW y \in VM, x = Peer(y), x # y, Inv(x, y),
         WorkStart(y) \/ Take(y) \/ Drained(y)
  PROVE  Inv(x, y)'
<1>1. /\ dev[y] \in Device /\ run[y] \in Holding /\ run[y].got \in Commands
      /\ Importer(dev[y], run[y])
      /\ dev \in [VM -> Device] /\ win \in [VM -> Bufs] /\ run \in [VM -> Holding]
      /\ dev[y].loaded
  BY DEF TypeOK, Holding, Inv, WorkStart, Take, Drained, Quiescent
<1>2. box'[x] = Empty /\ loads'[x] = loads[x] /\ (pending'[x] => Notified(x)) /\ link' = link
  BY DEF WorkStart, Take, Drained, TypeOK, Inv, Notified
<1>3. Attached(y) =>
        link /\ Stream(dev[x], run[x], dev[y], run[y].got, box[y], win[y])
  BY DEF Inv
<1>4. CASE WorkStart(y)
  <2>1. CASE dev[y].removed
    <3>1. /\ dev' = [dev EXCEPT ![y] = dev[y]] /\ run' = [run EXCEPT ![y] = run[y]]
          /\ win' = [win EXCEPT ![y] = win[y]]
      BY <1>4, <2>1, Unframed DEF WorkStart
    <3>2. Importer(dev[y], run[y]) /\ dev[y].loaded
      BY <1>1
    <3> QED
      BY <1>2, <2>1, <3>1, <3>2, ImporterStep
  <2>2. CASE ~dev[y].removed
    <3> DEFINE f == [dev[y] EXCEPT !.link_up = TRUE]
               s == [Free EXCEPT !.by = "drain", !.send = <<>>]
    <3>1. link /\ Stream(dev[x], run[x], dev[y], run[y].got, box[y], win[y])
      BY <1>1, <1>3, <2>2 DEF Attached
    <3>2. dev' = [dev EXCEPT ![y] = f] /\ run' = [run EXCEPT ![y] = s]
      BY <1>1, <1>4, <2>2, <3>1 DEF WorkStart, Hold
    <3>3. win' = [win EXCEPT ![y] = win[y]] /\ box' = box
      BY <1>4, <2>2, <3>1, Unframed DEF WorkStart
    <3>4. /\ f.loaded /\ ~f.removed /\ f.peer_ready = dev[y].peer_ready
          /\ f.local_published = dev[y].local_published
          /\ f.local_available = dev[y].local_available /\ f.peer_io = dev[y].peer_io
          /\ f.local_buf = dev[y].local_buf /\ f.remote_id = dev[y].remote_id
          /\ f.remote_size = dev[y].remote_size /\ f.remote_xlat = dev[y].remote_xlat
      BY <1>1, <2>2 DEF Device
    <3>5. s.by = "drain" /\ s.send = <<>> /\ s.got = Empty
      BY FreeFields, SMT
    <3>6. run[y].got = Empty
      BY <1>1, <1>4, NoneIsEmpty DEF WorkStart, Unlocked, Importer
    <3> HIDE DEF f, s
    <3>7. Importer(f, s)
      BY <1>1, <3>4, <3>5 DEF Importer
    <3>8. Stream(dev[x], run[x], f, s.got, box'[y], win[y])
      BY <3>1, <3>3, <3>4, <3>5, <3>6, StreamSame, SMT
    <3>9. link' /\ f.loaded /\ s.by # "none"
      BY <1>2, <3>1, <3>4, <3>5
    <3> QED
      BY <1>2, <3>2, <3>3, <3>7, <3>8, <3>9, ImporterStep
  <2> QED
    BY <2>1, <2>2
<1>5. CASE Take(y)
  <2> DEFINE s == [run[y] EXCEPT !.got = box[y]]
  <2>1. /\ dev' = [dev EXCEPT ![y] = dev[y]] /\ win' = [win EXCEPT ![y] = win[y]]
    BY <1>5, Unframed DEF Take
  <2>2. run' = [run EXCEPT ![y] = s] /\ box'[y] = Empty
    BY <1>1, <1>5 DEF Take, TypeOK
  <2>3. s.by = run[y].by /\ s.send = run[y].send /\ s.got = box[y] /\ run[y].by = "drain"
    BY <1>1, <1>5 DEF Holding, Take
  <2> HIDE DEF s
  <2>4. Importer(dev[y], s)
    BY <1>1, <2>3 DEF Importer
  <2>5. Attached(y) => link' /\ Stream(dev[x], run[x], dev[y], s.got, box'[y], win[y])
    <3> SUFFICES ASSUME Attached(y)
                 PROVE  link' /\ Stream(dev[x], run[x], dev[y], box[y], Empty, win[y])
      BY <2>2, <2>3
    <3>1. link' /\ Stream(dev[x], run[x], dev[y], run[y].got, box[y], win[y])
      BY <1>2, <1>3
    <3>2. run[y].got.cmd = "none"
      BY <1>5, Commands5 DEF Take
    <3> QED
      BY <3>1, <3>2, StreamTake
  <2>6. (dev[y].loaded /\ ~dev[y].removed => Attached(y)) /\ s.by # "none"
    BY <2>3 DEF Attached
  <2> QED
    BY <1>1, <1>2, <2>1, <2>2, <2>4, <2>5, <2>6, ImporterStep
<1>6. CASE Drained(y)
  <2>1. Announcement(dev[y]) = <<>>
    BY <1>1 DEF Importer, Announcement
  <2>2. /\ dev' = [dev EXCEPT ![y] = dev[y]] /\ win' = [win EXCEPT ![y] = win[y]]
        /\ run' = [run EXCEPT ![y] = Free] /\ box' = box
    BY <1>6, <2>1, Unframed DEF Drained, Release
  <2>3. run[y].got = Free.got
    BY <1>6, FreeFields DEF Drained
  <2>4. Importer(dev[y], Free)
    BY <1>1, FreeFields DEF Importer
  <2>5. dev[y].loaded /\ ~dev[y].removed =>
          link' /\ Stream(dev[x], run[x], dev[y], Free.got, box'[y], win[y])
    BY <1>2, <1>3, <2>2, <2>3 DEF Attached
  <2>6. ~dev[y].removed => win[y] \in {0, dev[x].local_buf}
    BY <1>1, <1>3, <1>6, Commands5 DEF Attached, Drained, Stream, Body, WindowOk, Closes
  <2> QED
    BY <1>1, <1>2, <2>2, <2>4, <2>5, <2>6, ImporterStep
<1> QED
  BY <1>4, <1>5, <1>6

(***************************************************************************)
(* A command has been handled: f and u are the structure and the window    *)
(* that the handler leaves.                                                *)
(***************************************************************************)
LEMMA InvHandled ==
  ASSUME TypeOK, NEW x \in VM, NEW y \in VM, x # y, Inv(x, y), Handled(y),
         run[y].by = "drain", NEW f, NEW u,
         dev' = [dev EXCEPT ![y] = f], win' = [win EXCEPT ![y] = u],
         f.loaded = dev[y].loaded, f.removed = dev[y].removed,
         f.local_published = dev[y].local_published,
         f.local_available = dev[y].local_available, f.local_buf = dev[y].local_buf,
         f.peer_ready => f.peer_io,
         Stream(dev[x], run[x], dev[y], run[y].got, box[y], win[y]) =>
           Stream(dev[x], run[x], f, Empty, box[y], u)
  PROVE  Inv(x, y)'
<1> DEFINE s == [run[y] EXCEPT !.got = Empty]
<1>1. /\ run[y] \in Holding /\ Importer(dev[y], run[y]) /\ run \in [VM -> Holding]
      /\ dev[y].loaded
  BY DEF TypeOK, Inv, Importer
<1>2. run' = [run EXCEPT ![y] = s]
  BY <1>1 DEF Handled
<1>3. s.by = "drain" /\ s.send = run[y].send /\ s.got = Empty
  BY <1>1 DEF Holding
<1> HIDE DEF s
<1>4. Importer(f, s)
  BY <1>1, <1>3 DEF Importer
<1>5. /\ box'[x] = Empty /\ loads'[x] = loads[x] /\ (pending'[x] => Notified(x))
      /\ box'[y] = box[y] /\ link' = link
  BY DEF Handled, Inv, Notified
<1>6. f.loaded /\ ~f.removed =>
        link' /\ Stream(dev[x], run[x], f, s.got, box'[y], u)
  BY <1>3, <1>5 DEF Inv, Attached
<1>7. f.loaded /\ s.by # "none"
  BY <1>1, <1>3
<1> QED
  BY <1>2, <1>4, <1>5, <1>6, <1>7, ImporterStep

LEMMA InvHandle ==
  ASSUME TypeOK, NEW x \in VM, NEW y \in VM, x # y, Inv(x, y), Handle(y)
  PROVE  Inv(x, y)'
<1> DEFINE d == dev[y]
           g == run[y].got
<1>1. d \in Device /\ dev \in [VM -> Device] /\ (d.peer_ready => d.peer_io)
  BY DEF TypeOK, Inv, Importer
<1>2. Handled(y) /\ run[y].by = "drain"
  BY DEF Handle, HandleSegid, HandleSize, HandleXlat, HandleAvail, HandleUnavail, Handling
<1>3. CASE HandleSegid(y)
  <2> DEFINE f == [PeerUnready(d) EXCEPT !.remote_id = g.data, !.remote_announced = FALSE]
  <2>1. dev' = [dev EXCEPT ![y] = f] /\ win' = [win EXCEPT ![y] = 0] /\ g.cmd = "SEGID"
    BY <1>1, <1>3 DEF HandleSegid, Handling
  <2>2. /\ f.loaded = d.loaded /\ f.removed = d.removed
        /\ f.local_published = d.local_published /\ f.local_available = d.local_available
        /\ f.local_buf = d.local_buf /\ ~f.peer_ready
        /\ f.remote_size = d.remote_size /\ f.remote_xlat = d.remote_xlat
    BY <1>1 DEF Device, PeerUnready
  <2> HIDE DEF f
  <2>3. Stream(dev[x], run[x], d, g, box[y], win[y]) =>
          Stream(dev[x], run[x], f, Empty, box[y], 0)
    BY <2>1, <2>2, StreamSegid
  <2> QED
    BY <1>2, <2>1, <2>2, <2>3, InvHandled
<1>4. CASE HandleSize(y)
  <2> DEFINE f == [d EXCEPT !.remote_size = g.data]
  <2>1. dev' = [dev EXCEPT ![y] = f] /\ g.cmd = "SIZE"
    BY <1>1, <1>4 DEF HandleSize, Handling
  <2>2. win' = [win EXCEPT ![y] = win[y]]
    BY <1>4, Unframed DEF HandleSize
  <2>3. /\ f.loaded = d.loaded /\ f.removed = d.removed
        /\ f.local_published = d.local_published /\ f.local_available = d.local_available
        /\ f.local_buf = d.local_buf /\ f.peer_ready = d.peer_ready /\ f.peer_io = d.peer_io
        /\ f.remote_id = d.remote_id
        /\ f.remote_size = g.data /\ f.remote_xlat = d.remote_xlat
    BY <1>1 DEF Device
  <2> HIDE DEF f
  <2>4. Stream(dev[x], run[x], d, g, box[y], win[y]) =>
          Stream(dev[x], run[x], f, Empty, box[y], win[y])
    BY <2>1, <2>3, StreamSize
  <2> QED
    BY <1>1, <1>2, <2>1, <2>2, <2>3, <2>4, InvHandled
<1>5. CASE HandleXlat(y)
  <2> DEFINE f == [d EXCEPT !.remote_xlat = g.data]
  <2>1. dev' = [dev EXCEPT ![y] = f] /\ g.cmd = "XLAT"
    BY <1>1, <1>5 DEF HandleXlat, Handling
  <2>2. win' = [win EXCEPT ![y] = win[y]]
    BY <1>5, Unframed DEF HandleXlat
  <2>3. /\ f.loaded = d.loaded /\ f.removed = d.removed
        /\ f.local_published = d.local_published /\ f.local_available = d.local_available
        /\ f.local_buf = d.local_buf /\ f.peer_ready = d.peer_ready /\ f.peer_io = d.peer_io
        /\ f.remote_id = d.remote_id
        /\ f.remote_size = d.remote_size /\ f.remote_xlat = g.data
    BY <1>1 DEF Device
  <2> HIDE DEF f
  <2>4. Stream(dev[x], run[x], d, g, box[y], win[y]) =>
          Stream(dev[x], run[x], f, Empty, box[y], win[y])
    BY <2>1, <2>3, StreamXlat
  <2> QED
    BY <1>1, <1>2, <2>1, <2>2, <2>3, <2>4, InvHandled
<1>6. ASSUME NEW ok \in BOOLEAN, HandleAvail(y, ok)
      PROVE  Inv(x, y)'
  <2> DEFINE e == [d EXCEPT !.remote_id = g.data, !.remote_announced = TRUE]
             h == [e EXCEPT !.peer_io = @ \/ ok, !.peer_ready = @ \/ ok]
             u == IF ok THEN e.remote_xlat ELSE 0
  <2>1. g.cmd = "AVAIL"
    BY <1>6 DEF HandleAvail, Handling
  <2>2. /\ e.loaded = d.loaded /\ e.removed = d.removed
        /\ e.local_published = d.local_published /\ e.local_available = d.local_available
        /\ e.local_buf = d.local_buf /\ e.peer_ready = d.peer_ready /\ e.peer_io = d.peer_io
        /\ e.remote_id = g.data
        /\ e.remote_size = d.remote_size /\ e.remote_xlat = d.remote_xlat
    BY <1>1 DEF Device
  <2>3. CASE d.peer_io \/ d.remote_xlat = 0 \/ d.remote_size = 0
    <3>1. dev' = [dev EXCEPT ![y] = e] /\ win' = [win EXCEPT ![y] = win[y]]
      BY <1>1, <1>6, <2>2, <2>3, Unframed DEF HandleAvail
    <3> HIDE DEF e
    <3>2. Stream(dev[x], run[x], d, g, box[y], win[y]) =>
            Stream(dev[x], run[x], e, Empty, box[y], win[y])
      BY <2>1, <2>2, StreamAvail
    <3> QED
      BY <1>1, <1>2, <2>2, <3>1, <3>2, InvHandled
  <2>4. CASE ~(d.peer_io \/ d.remote_xlat = 0 \/ d.remote_size = 0)
    <3>1. dev' = [dev EXCEPT ![y] = h] /\ win' = [win EXCEPT ![y] = u]
      BY <1>1, <1>6, <2>2, <2>4 DEF HandleAvail
    <3>2. /\ h.loaded = d.loaded /\ h.removed = d.removed
          /\ h.local_published = d.local_published
          /\ h.local_available = d.local_available /\ h.local_buf = d.local_buf
          /\ h.remote_id = g.data /\ h.remote_size = d.remote_size
          /\ h.remote_xlat = d.remote_xlat
          /\ h.peer_ready = (d.peer_ready \/ ok) /\ h.peer_io = (d.peer_io \/ ok)
      BY <1>1, <2>2 DEF Device
    <3>3. \/ d.remote_size # 0 /\ d.remote_xlat # 0 /\ u = d.remote_xlat
          \/ ~h.peer_ready /\ u = 0
      BY <1>1, <2>2, <2>4, <3>2
    <3> HIDE DEF h, u, e
    <3>4. Stream(dev[x], run[x], d, g, box[y], win[y]) =>
            Stream(dev[x], run[x], h, Empty, box[y], u)
      BY <2>1, <3>2, <3>3, StreamAvail
    <3> QED
      BY <1>1, <1>2, <3>1, <3>2, <3>4, InvHandled
  <2> QED
    BY <2>3, <2>4
<1>7. CASE HandleUnavail(y)
  <2> DEFINE f == [PeerUnready(d) EXCEPT !.remote_announced = FALSE]
  <2>1. g.cmd = "UNAVAIL"
    BY <1>7 DEF HandleUnavail, Handling
  <2>2. CASE d.remote_id = g.data
    <3>1. dev' = [dev EXCEPT ![y] = f] /\ win' = [win EXCEPT ![y] = 0]
      BY <1>1, <1>7, <2>2 DEF HandleUnavail
    <3>2. /\ f.loaded = d.loaded /\ f.removed = d.removed
          /\ f.local_published = d.local_published
          /\ f.local_available = d.local_available /\ f.local_buf = d.local_buf
          /\ ~f.peer_ready /\ f.remote_id = d.remote_id
          /\ f.remote_size = d.remote_size /\ f.remote_xlat = d.remote_xlat
      BY <1>1 DEF Device, PeerUnready
    <3> HIDE DEF f
    <3>3. Stream(dev[x], run[x], d, g, box[y], win[y]) =>
            Stream(dev[x], run[x], f, Empty, box[y], 0)
      BY <2>1, <3>2, StreamUnavail
    <3> QED
      BY <1>2, <3>1, <3>2, <3>3, InvHandled
  <2>3. CASE d.remote_id # g.data
    <3>1. dev' = [dev EXCEPT ![y] = d] /\ win' = [win EXCEPT ![y] = win[y]]
      BY <1>7, <2>3, Unframed DEF HandleUnavail
    <3>2. Stream(dev[x], run[x], d, g, box[y], win[y]) =>
            Stream(dev[x], run[x], d, Empty, box[y], win[y])
      BY <2>1, <2>3, StreamUnavail
    <3> QED
      BY <1>1, <1>2, <3>1, <3>2, InvHandled
  <2> QED
    BY <2>2, <2>3
<1> QED
  BY <1>3, <1>4, <1>5, <1>6, <1>7 DEF Handle
-----------------------------------------------------------------------------
(***************************************************************************)
(* One VM, x, exports segments, and its module is loaded once.             *)
(***************************************************************************)
Sole(x) == x \in VM /\ Exporters \subseteq {x} /\ MaxLoads[x] <= 1
OneExporter == \E x \in VM : Sole(x)

LEMMA InvInit ==
  ASSUME NEW x \in VM, NEW y \in VM, x # y, Init PROVE Inv(x, y)
<1>1. Exporter(Unloaded, Free) /\ Importer(Unloaded, Free)
  BY FreeFields DEF Exporter, Importer, Unloaded, Announces, Withdraws
<1>2. ~Unloaded.loaded /\ Unloaded.local_buf = 0
  BY DEF Unloaded
<1> QED
  BY <1>1, <1>2, FreeFields DEF Init, Inv, Quiescent, Attached

LEMMA InvNext ==
  ASSUME TypeOK, SisciConstants, NEW x, NEW y, Sole(x), y = Peer(x),
         Inv(x, y), [Next]_vars
  PROVE  Inv(x, y)'
<1>1. x \in VM /\ y \in VM /\ x # y /\ x = Peer(y) /\ VM = {x, y}
  BY SMT DEF Sole, Peer
<1>2. CASE UNCHANGED vars
  BY <1>2 DEF vars, Inv, Quiescent, Attached
<1>3. CASE Probe(x) \/ SetRemoved(x) \/ Remove(x)
  <2>1. ~Remove(x)
    BY DEF Inv, Exporter, Remove
  <2>2. ~SetRemoved(x)
    <3>1. loads[x] \in Nat /\ MaxLoads[x] \in Nat /\ MaxLoads[x] <= 1
      BY <1>1 DEF TypeOK, Sole, SisciConstants
    <3>2. dev[x].loaded => loads[x] > 0
      BY DEF Inv
    <3> QED
      BY <3>1, <3>2, SMT DEF SetRemoved, Attached
  <2> QED
    BY <1>1, <1>3, <2>1, <2>2, InvProbe
<1>4. CASE Driver(x)
  <2>1. ~Take(x)
    BY DEF Inv, Take
  <2>2. ~Handle(x)
    BY DEF Inv, Exporter, Handle, HandleSegid, HandleSize, HandleXlat, HandleAvail,
           HandleUnavail, Handling
  <2> QED
    BY <1>1, <1>4, <2>1, <2>2, InvWorkStart, InvDrained, InvSendCmd, InvSendFail,
       InvSendDone DEF Driver, Holder
<1>5. CASE Probe(y) \/ SetRemoved(y) \/ Remove(y)
  BY <1>1, <1>5, InvLoad
<1>6. CASE Driver(y)
  <2>1. ~SendCmd(y) /\ ~SendFail(y) /\ ~SendDone(y)
    BY DEF Inv, Importer, SendCmd, SendFail, SendDone, Sending
  <2> QED
    BY <1>1, <1>6, <2>1, InvImporterWork, InvHandle DEF Driver, Holder
<1>7. ASSUME NEW v \in Exporters, Application(v) PROVE Inv(x, y)'
  <2>1. v = x
    BY DEF Sole
  <2> QED
    BY <1>1, <1>7, <2>1, InvCreateSegment, InvSetAvailable, InvWithdraw DEF Application
<1> QED
  BY <1>1, <1>2, <1>3, <1>4, <1>5, <1>6, <1>7 DEF Next

(***************************************************************************)
(* With one exporter, the window of its peer is never open on a buffer     *)
(* that free_local_segment_locked gave back when an application can get at *)
(* it, however often the peer's module is loaded and unloaded.             *)
(***************************************************************************)
THEOREM WindowAlwaysLive ==
  ASSUME OneExporter
  PROVE  Spec => []WindowLive
<1> PICK x \in VM : Sole(x)
  BY DEF OneExporter
<1> DEFINE y == Peer(x)
<1>1. x \in VM /\ y \in VM /\ Peer(y) = x /\ VM = {x, y}
  BY SMT DEF Sole, Peer
<1>2. TypeOK /\ Inv(x, y) => WindowLive
  BY <1>1 DEF WindowLive, Inv, Attached, Unlocked
<1>3. Init => Inv(x, y)
  BY <1>1, InvInit, SMT
<1>4. TypeOK /\ Inv(x, y) /\ [Next]_vars => Inv(x, y)'
  BY InvNext, SisciConstants
<1> QED
  BY <1>2, <1>3, <1>4, SisciTypeCorrect, PTL DEF Spec

(***************************************************************************)
(* With one exporter, a segment that CONNECT_SEGMENT finds when no command *)
(* is under way is the one that is available: its id, size, address and    *)
(* window are those of the buffer that the exporter has.                   *)
(***************************************************************************)
THEOREM SegmentAlwaysAgreed ==
  ASSUME OneExporter
  PROVE  Spec => []SegmentAgreed
<1> PICK x \in VM : Sole(x)
  BY DEF OneExporter
<1> DEFINE y == Peer(x)
<1>1. x \in VM /\ y \in VM /\ Peer(y) = x /\ VM = {x, y}
  BY SMT DEF Sole, Peer
<1>2. TypeOK /\ Inv(x, y) => SegmentAgreed
  <2> SUFFICES ASSUME TypeOK, Inv(x, y), Quiet, dev[y].peer_ready
               PROVE  Connected(y) /\ dev[x].local_available
    BY <1>1 DEF SegmentAgreed, Inv, Exporter
  <2>1. Attached(y) /\ run[y].got.cmd = "none" /\ box[y].cmd = "none" /\ run[x].by = "none"
    BY <1>1, Commands5 DEF Inv, Importer, Quiet, Unlocked, Attached
  <2>2. Agreed(dev[x], run[x], dev[y], win[y])
    BY <2>1 DEF Inv, Stream, Body, Ready, Resets, Closes
  <2>3. dev[x].local_published
    BY <2>1, <2>2 DEF Agreed, Owed, Announces, Withdraws
  <2> QED
    <3>1. dev[x].local_available
      BY <2>3 DEF Inv, Exporter
    <3>2. Connected(y)
      BY <1>1, <2>2 DEF Connected, Agreed
    <3> QED
      BY <3>1, <3>2
<1>3. Init => Inv(x, y)
  BY <1>1, InvInit, SMT
<1>4. TypeOK /\ Inv(x, y) /\ [Next]_vars => Inv(x, y)'
  BY InvNext, SisciConstants
<1> QED
  BY <1>2, <1>3, <1>4, SisciTypeCorrect, PTL DEF Spec
=============================================================================
