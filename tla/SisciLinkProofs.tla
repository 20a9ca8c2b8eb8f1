---------------------------- MODULE SisciLinkProofs ----------------------------
(***************************************************************************)
(* The proof that SisciSession's StaysLinked holds when one VM exports:    *)
(* the link between its receiver and the sender of the other VM.           *)
(***************************************************************************)
EXTENDS SisciSessionProofs

\* Most leaves are first-order; those that need arithmetic, records or sequences
\* cite SMT.
USE Zenon

USE DEF ReceiverCalls, SenderCalls, Mapping

(***************************************************************************)
(* The link between a receiver on the exporter x and a sender on y.  While *)
(* the receiver serves its segment and the driver has not told the peer of *)
(* it (again), nothing is connected or being connected.                    *)
(***************************************************************************)
Waits(d, r, e, g, c) ==
  ~Told(d, r) => /\ ~e.peer_ready
                 /\ g.cmd \notin {"AVAIL", "UNAVAIL"} /\ c.cmd \notin {"AVAIL", "UNAVAIL"}
Serving(x, y) ==
  Attached(y) /\ Serves(x) => Waits(dev[x], run[x], dev[y], run[y].got, box[y])

\* A step of the importer's driver.
Imports(y) == WorkStart(y) \/ Take(y) \/ Handle(y) \/ Drained(y)
LEMMA ImportsFrame ==
  ASSUME TypeOK, NEW x \in VM, NEW y \in VM, x # y, Inv(x, y), Imports(y), Attached(y)
  PROVE  /\ dev'[x] = dev[x] /\ run'[x] = run[x]
         /\ dev'[y].peer_ready => dev[y].peer_ready \/ run[y].got.cmd = "AVAIL"
         /\ run'[y].got \in {Empty, run[y].got, box[y]} /\ box'[y] \in {Empty, box[y]}
         /\ dev[y].peer_ready /\ Clean(run[y].got) =>
              /\ dev'[y].peer_ready /\ dev'[y].peer_io = dev[y].peer_io
              /\ dev'[y].remote_xlat = dev[y].remote_xlat /\ win'[y] = win[y]
<1> DEFINE e == dev[y]
           g == run[y].got
<1>1. /\ e \in Device /\ dev \in [VM -> Device] /\ run[y] \in Holding /\ run \in [VM -> Holding]
      /\ win \in [VM -> Bufs] /\ box \in [VM -> Commands]
  BY DEF TypeOK
<1>2. /\ link /\ (e.peer_ready => e.peer_io)
      /\ (g.cmd \in {"SIZE", "XLAT"} => ~e.peer_ready) /\ ~e.removed
  BY DEF Inv, Importer, Stream, Body, Ready, Attached
<1>3. CASE WorkStart(y)
  <2> DEFINE f == [e EXCEPT !.link_up = TRUE]
             s == [Free EXCEPT !.by = "drain", !.send = <<>>]
  <2>1. /\ dev' = [dev EXCEPT ![y] = f] /\ run' = [run EXCEPT ![y] = s]
        /\ win' = win /\ box' = box
    BY <1>1, <1>2, <1>3 DEF WorkStart, Hold
  <2>2. /\ f.peer_ready = e.peer_ready /\ f.peer_io = e.peer_io
        /\ f.remote_xlat = e.remote_xlat /\ s.got = Empty
    BY <1>1, FreeFields, SMT DEF Device
  <2>3. /\ dev'[y] = f /\ dev'[x] = dev[x] /\ run'[y] = s /\ run'[x] = run[x]
    BY <1>1, <2>1
  <2> HIDE DEF f, s
  <2> QED
    BY <2>1, <2>2, <2>3
<1>4. CASE Take(y)
  BY <1>1, <1>4 DEF Take, Holding
<1>5. CASE Drained(y)
  <2> DEFINE s == [Free EXCEPT !.by = "work", !.send = Announcement(e)]
  <2>1. /\ dev' = dev /\ win' = win /\ box' = box
        /\ run' = [run EXCEPT ![y] = s] \/ run' = [run EXCEPT ![y] = Free]
    BY <1>5 DEF Drained, Release, Hold
  <2>2. s.got = Empty /\ Free.got = Empty
    BY FreeFields, SMT
  <2>3. run'[x] = run[x] /\ run'[y].got = Empty
    <3> HIDE DEF s
    <3> QED
      BY <1>1, <2>1, <2>2
  <2> QED
    BY <2>1, <2>3
<1>6. CASE Handle(y)
  <2>1. /\ run' = [run EXCEPT ![y].got = Empty] /\ box' = box
    BY <1>6 DEF Handle, HandleSegid, HandleSize, HandleXlat, HandleAvail, HandleUnavail, Handled
  <2>2. run'[x] = run[x] /\ run'[y].got = Empty
    BY <1>1, <2>1 DEF Holding
  <2>3. CASE HandleSegid(y)
    <3> DEFINE f == [PeerUnready(e) EXCEPT !.remote_id = g.data, !.remote_announced = FALSE]
    <3>1. dev' = [dev EXCEPT ![y] = f] /\ g.cmd = "SEGID" /\ ~f.peer_ready
      BY <1>1, <2>3 DEF HandleSegid, Handling, PeerUnready, Device
    <3> HIDE DEF f
    <3> QED
      BY <1>1, <2>1, <2>2, <3>1 DEF Clean
  <2>4. CASE HandleSize(y)
    <3> DEFINE f == [e EXCEPT !.remote_size = g.data]
    <3>1. dev' = [dev EXCEPT ![y] = f] /\ g.cmd = "SIZE" /\ f.peer_ready = e.peer_ready
      BY <1>1, <2>4 DEF HandleSize, Handling, Device
    <3> HIDE DEF f
    <3> QED
      BY <1>1, <1>2, <2>1, <2>2, <3>1
  <2>5. CASE HandleXlat(y)
    <3> DEFINE f == [e EXCEPT !.remote_xlat = g.data]
    <3>1. dev' = [dev EXCEPT ![y] = f] /\ g.cmd = "XLAT" /\ f.peer_ready = e.peer_ready
      BY <1>1, <2>5 DEF HandleXlat, Handling, Device
    <3> HIDE DEF f
    <3> QED
      BY <1>1, <1>2, <2>1, <2>2, <3>1
  <2>6. ASSUME NEW ok \in BOOLEAN, HandleAvail(y, ok)
        PROVE  /\ dev'[x] = dev[x] /\ g.cmd = "AVAIL"
               /\ e.peer_io => /\ dev'[y].peer_ready = e.peer_ready /\ dev'[y].peer_io = e.peer_io
                               /\ dev'[y].remote_xlat = e.remote_xlat /\ win'[y] = win[y]
    <3> DEFINE f == [e EXCEPT !.remote_id = g.data, !.remote_announced = TRUE]
               h == [f EXCEPT !.peer_io = @ \/ ok, !.peer_ready = @ \/ ok]
    <3>1. /\ f.peer_ready = e.peer_ready /\ f.peer_io = e.peer_io
          /\ f.remote_xlat = e.remote_xlat
      BY <1>1 DEF Device
    <3>2. /\ g.cmd = "AVAIL"
          /\ dev' = [dev EXCEPT ![y] = f] \/ dev' = [dev EXCEPT ![y] = h]
          /\ e.peer_io => dev' = [dev EXCEPT ![y] = f] /\ win' = win
      BY <1>1, <2>6, <3>1 DEF HandleAvail, Handling
    <3> HIDE DEF f, h
    <3> QED
      BY <1>1, <3>1, <3>2
  <2>7. CASE HandleUnavail(y)
    <3> DEFINE f == [PeerUnready(e) EXCEPT !.remote_announced = FALSE]
    <3>1. /\ dev' = [dev EXCEPT ![y] = f] \/ dev' = dev
          /\ g.cmd = "UNAVAIL" /\ ~f.peer_ready
      BY <1>1, <2>7 DEF HandleUnavail, Handling, PeerUnready, Device
    <3> HIDE DEF f
    <3> QED
      BY <1>1, <2>1, <2>2, <3>1 DEF Clean
  <2> QED
    BY <1>2, <1>6, <2>1, <2>2, <2>3, <2>4, <2>5, <2>6, <2>7 DEF Handle
<1> QED
  BY <1>3, <1>4, <1>5, <1>6 DEF Imports

\* A step of the exporter's driver while its process is in no ioctl that sends.
Exports(x) == WorkStart(x) \/ Drained(x) \/ SendCmd(x) \/ SendFail(x) \/ SendDone(x)
LEMMA ExportsFrame ==
  ASSUME TypeOK, NEW x \in VM, NEW y \in VM, x # y, y = Peer(x), Inv(x, y), Exports(x),
         Attached(y), ~InIoctl(x)
  PROVE  /\ dev'[y] = dev[y] /\ run'[y] = run[y] /\ win'[y] = win[y]
         /\ Waits(dev[x], run[x], dev[y], run[y].got, box[y]) =>
              Waits(dev'[x], run'[x], dev[y], run[y].got, box'[y])
<1> DEFINE d == dev[x]
           r == run[x]
<1>1. /\ d \in Device /\ dev \in [VM -> Device] /\ r \in Holding /\ run \in [VM -> Holding]
      /\ win \in [VM -> Bufs] /\ box \in [VM -> Commands] /\ r.by \in {"none", "drain", "work"}
  BY DEF TypeOK, Holding, InIoctl
<1>2. link /\ ~d.removed /\ Exporter(d, r)
  BY DEF Inv, Exporter
<1>3. CASE WorkStart(x)
  <2> DEFINE f == [d EXCEPT !.link_up = TRUE]
             s == [Free EXCEPT !.by = "drain", !.send = <<>>]
  <2>1. /\ dev' = [dev EXCEPT ![x] = f] /\ run' = [run EXCEPT ![x] = s]
        /\ win' = win /\ box' = box
    BY <1>1, <1>2, <1>3 DEF WorkStart, Hold
  <2>2. f.local_published = d.local_published /\ s.by = "drain" /\ r.by = "none"
    BY <1>1, <1>3, FreeFields, SMT DEF Device, WorkStart, Unlocked
  <2>3. dev'[x] = f /\ dev'[y] = dev[y] /\ run'[x] = s /\ run'[y] = run[y]
    BY <1>1, <2>1
  <2> HIDE DEF f, s
  <2> QED
    BY <2>1, <2>2, <2>3 DEF Waits, Told, Announces
<1>4. CASE Drained(x)
  <2> DEFINE s == Publishing(d, "work")
  <2>1. dev' = dev /\ win' = win /\ box' = box /\ run' = [run EXCEPT ![x] = s] /\ r.by = "drain"
    BY <1>4 DEF Drained, Publishing, Release, Hold
  <2>2. run'[x] = s /\ run'[y] = run[y]
    BY <1>1, <2>1
  <2> HIDE DEF s
  <2> QED
    BY <2>1, <2>2 DEF Waits, Told, Announces
<1>5. CASE SendCmd(x)
  <2> DEFINE s == [r EXCEPT !.send = Tail(r.send)]
  <2>1. /\ dev' = dev /\ win' = win /\ run' = [run EXCEPT ![x] = s]
        /\ box' = [box EXCEPT ![y] = Head(r.send)] /\ r.send # <<>>
    BY <1>1, <1>5 DEF SendCmd, Sending
  <2>2. s.by = r.by /\ s.send = Tail(r.send)
    BY <1>1 DEF Holding
  <2>3. run'[x] = s /\ run'[y] = run[y] /\ box'[y] = Head(r.send)
    BY <1>1, <2>1
  <2>4. Announces(r) /\ Announces(s) /\ ~d.local_published
        /\ r.send \in {Left0(d), Left1(d), Left2(d), Left3(d)}
    BY <1>1, <1>2, <2>1, <2>2 DEF Exporter, Announces, Begun
  <2> HIDE DEF s, r, d
  <2>5. Head(r.send).cmd \in {"SEGID", "SIZE", "XLAT"} \/ s.send = <<>>
    <3>1. CASE r.send = Left3(d)
      BY <2>2, <3>1, Lefts
    <3>2. CASE r.send \in {Left0(d), Left1(d), Left2(d)}
      <4>1. Head(r.send) \in {CmdSegid(d), CmdSize(d), CmdXlat(d)}
        BY <3>2, Lefts
      <4> QED
        BY <4>1, Commands5
    <3> QED
      BY <2>4, <3>1, <3>2
  <2> QED
    BY <2>1, <2>3, <2>4, <2>5 DEF Waits, Told, d, r
<1>6. CASE SendFail(x)
  BY <1>2, <1>6 DEF SendFail, Blocked, Sending, Inv, Importer
<1>7. CASE SendDone(x)
  <2> DEFINE f == [d EXCEPT !.local_published = TRUE]
  <2>1. /\ dev' = [dev EXCEPT ![x] = f] /\ win' = win /\ run' = [run EXCEPT ![x] = Free]
    BY <1>1, <1>7 DEF SendDone, Release
  <2>2. f.local_published
    BY <1>1 DEF Device
  <2>3. dev'[x] = f /\ dev'[y] = dev[y] /\ run'[y] = run[y]
    BY <1>1, <2>1
  <2> HIDE DEF f
  <2> QED
    BY <2>1, <2>2, <2>3 DEF Waits, Told
<1> QED
  BY <1>3, <1>4, <1>5, <1>6, <1>7 DEF Exports

(***************************************************************************)
(* A receiver comes to serve its segment: SET_AVAILABLE has told the peer, *)
(* or the driver has not seen the link and nothing is under way.           *)
(***************************************************************************)
LEMMA ServingBegins ==
  ASSUME TypeOK, proc \in [VM -> Proc], SessionInv, SisciConstants,
         NEW x \in VM, NEW y \in VM, x # y, y = Peer(x), Inv(x, y), Attached(y)',
         Publish(x) \/ IoctlReturns(x), Serves(x)'
  PROVE  Waits(dev[x], run[x], dev[y], run[y].got, box[y])'
<1> DEFINE d == dev[x]
           r == run[x]
<1>1. /\ d \in Device /\ dev \in [VM -> Device] /\ r \in Holding /\ run \in [VM -> Holding]
      /\ proc[x] \in Proc /\ ProcOk(x, d, r, proc[x])
  BY DEF TypeOK, SessionInv
<1>2. CASE Publish(x)
  <2>1. proc[x].call = "publish"
    BY <1>2 DEF Publish, Calls
  <2>2. Mine(x)
    <3> SUFFICES ASSUME ~Mine(x) PROVE FALSE
      OBVIOUS
    <3>1. proc' = [proc EXCEPT ![x] = Returns(proc[x], FALSE)]
      BY <1>2 DEF Publish, Refused, Becomes
    <3>2. Returns(proc[x], FALSE).call # "serve"
      BY <1>1, <2>1, ReturnsTo
    <3> QED
      BY <3>1, <3>2 DEF Serves
  <2>3. SetAvailable(x) /\ Issued(x) /\ d.local_buf # 0 /\ r.by = "none"
    BY <1>2, <2>2 DEF Publish, Mine, HasSegment, Unlocked
  <2>4. run'[x].by = "none"
    BY <2>1, <2>3 DEF Issued, Serves
  <2> DEFINE f == [d EXCEPT !.local_available = TRUE, !.local_published = FALSE]
             s == [Free EXCEPT !.by = "avail", !.send = Announcement(f)]
  <2>5. /\ f.local_available /\ ~f.local_published /\ f.link_up = d.link_up
        /\ f.local_buf = d.local_buf /\ s.by = "avail"
    BY <1>1, FreeFields, SMT DEF Device
  <2>6. /\ dev' = [dev EXCEPT ![x] = f] /\ box' = box
        /\ (IF Announcement(f) = <<>> THEN run' = run ELSE run' = [run EXCEPT ![x] = s])
    BY <2>3 DEF SetAvailable, Hold
  <2>7. dev'[y] = dev[y]
    BY <1>1, <2>6
  <2> HIDE DEF f, s
  <2>8. Announcement(f) = <<>> /\ run' = run
    BY <1>1, <2>4, <2>5, <2>6
  <2>9. ~d.link_up
    BY <2>3, <2>5, <2>8, AnnouncementLeft, LeftsDiffer
  <2>10. Attached(y)
    BY <2>7 DEF Attached
  <2>11. ~dev[y].peer_ready /\ run[y].got.cmd = "none" /\ box[y].cmd = "none"
    BY <2>9, <2>10 DEF Inv, Stream, Flow
  <2> QED
    BY <2>6, <2>7, <2>8, <2>11 DEF Waits
<1>3. CASE IoctlReturns(x)
  <2>1. /\ r.by \in {"avail", "unavail", "remove"} /\ proc[x].call = Sent(r.by)
        /\ proc[x].call \in {"publish", "unavail", "remove"}
        /\ proc[x].call = "publish" => r.by = "avail"
    BY <1>1, <1>3 DEF IoctlReturns, InIoctl, ProcOk, Sent
  <2>2. PICK ok \in BOOLEAN : /\ SendDone(x) \/ (SendFail(x) /\ ~ok)
                              /\ proc' = [proc EXCEPT ![x] = Returns(proc[x], ok)]
    BY <1>3 DEF IoctlReturns, Becomes
  <2>3. Returns(proc[x], ok).call = "serve"
    BY <2>2 DEF Serves
  <2>4. ok /\ r.by = "avail"
    BY <1>1, <2>1, <2>3, ReturnsTo
  <2>5. dev'[x].local_published
    BY <1>1, <2>2, <2>4, SMT DEF SendDone, Device
  <2> QED
    BY <2>5 DEF Waits, Told
<1> QED
  BY <1>2, <1>3

(***************************************************************************)
(* The steps of a process that leave the drivers alone: none makes a       *)
(* receiver serve, and only CONNECT_SEGMENT gives a sender its segment.    *)
(***************************************************************************)
Quietly(v) ==
  \/ \E id \in Segments[v] : Open(v, id)
  \/ CreateReuse(v) \/ CreateBusy(v) \/ Prepare(v) \/ MapLocal(v) \/ RxEnd(v) \/ Unmap(v)
  \/ Refused(v) /\ proc[v].call \in {"publish", "unavail", "remove"}
  \/ WaitCheck(v) \/ WaitTimeout(v) \/ Connect(v) \/ TxEnd(v) \/ Kill(v)
  \/ \E fits \in BOOLEAN : MapRemote(v, fits)
Using == {"map", "store"}
Unserved(v, p) ==
  /\ p.call # "serve"
  /\ \/ v \in Exporters \/ p.call \notin Using
     \/ proc[v].call \in Using /\ p.buf = proc[v].buf
     \/ Connectable(v) /\ p.buf = dev[v].remote_size

LEMMA QuietlyTo ==
  ASSUME proc \in [VM -> Proc], SessionInv, SisciConstants, NEW v \in VM, Quietly(v)
  PROVE  UNCHANGED vars /\ \E p : proc' = [proc EXCEPT ![v] = p] /\ Unserved(v, p)
<1> SUFFICES \E p : proc' = [proc EXCEPT ![v] = p] /\ Unserved(v, p)
  BY DEF Quietly, Open, CreateReuse, CreateBusy, Prepare, MapLocal, RxEnd, Unmap, Refused,
         WaitCheck, WaitTimeout, Connect, TxEnd, Kill, MapRemote
<1>1. proc[v] \in Proc /\ ProcOk(v, dev[v], run[v], proc[v])
  BY DEF SessionInv
<1>2. CASE Ends(v)
  BY <1>2, EndedFields DEF Ends, Becomes, Unserved, Using
<1>3. ASSUME NEW c, Goes(v, c), c # "serve",
             v \in Exporters \/ c \notin Using \/ proc[v].call \in Using
      PROVE  \E p : proc' = [proc EXCEPT ![v] = p] /\ Unserved(v, p)
  <2> DEFINE p == [proc[v] EXCEPT !.call = c]
  <2>1. p.call = c /\ p.buf = proc[v].buf
    BY <1>1 DEF Proc
  <2>2. proc' = [proc EXCEPT ![v] = p]
    BY <1>3 DEF Goes, Becomes
  <2> HIDE DEF p
  <2> QED
    BY <1>3, <2>1, <2>2 DEF Unserved
<1>4. ASSUME NEW c, NEW b, Becomes(v, [proc[v] EXCEPT !.call = c, !.buf = b]), c # "serve",
             v \in Exporters \/ (Connectable(v) /\ b = dev[v].remote_size)
      PROVE  \E p : proc' = [proc EXCEPT ![v] = p] /\ Unserved(v, p)
  <2> DEFINE p == [proc[v] EXCEPT !.call = c, !.buf = b]
  <2>1. p.call = c /\ p.buf = b
    BY <1>1 DEF Proc
  <2>2. proc' = [proc EXCEPT ![v] = p]
    BY <1>4 DEF Becomes
  <2> HIDE DEF p
  <2> QED
    BY <1>4, <2>1, <2>2 DEF Unserved
<1>5. ASSUME NEW id \in Segments[v], Open(v, id)
      PROVE  \E p : proc' = [proc EXCEPT ![v] = p] /\ Unserved(v, p)
  <2> DEFINE c == IF v \in Exporters THEN "create" ELSE "wait"
             p == [Ended EXCEPT !.call = c, !.id = id]
  <2>1. p.call = c /\ proc' = [proc EXCEPT ![v] = p]
    BY <1>5 DEF Open, Becomes, Ended
  <2>2. c \in {"create", "wait"}
    OBVIOUS
  <2> HIDE DEF p, c
  <2> QED
    BY <2>1, <2>2 DEF Unserved, Using
<1>6. CASE CreateReuse(v)
  BY <1>3, <1>6 DEF CreateReuse, Using
<1>7. CASE Prepare(v)
  <2>1. PICK c \in {"map", "remove"} : Goes(v, c)
    BY <1>7 DEF Prepare
  <2>2. v \in Exporters
    BY <1>1, <1>7 DEF Prepare, Calls, ProcOk
  <2> QED
    BY <1>3, <2>1, <2>2
<1>8. CASE MapLocal(v)
  <2>1. v \in Exporters
    BY <1>8 DEF MapLocal
  <2>2. CASE LocalMappable(v)
    BY <1>4, <1>8, <2>1, <2>2 DEF MapLocal
  <2>3. CASE ~LocalMappable(v)
    BY <1>3, <1>8, <2>1, <2>3 DEF MapLocal
  <2> QED
    BY <2>2, <2>3
<1>9. CASE RxEnd(v)
  BY <1>3, <1>9 DEF RxEnd, Using
<1>10. CASE Unmap(v)
  <2>1. v \in Exporters
    BY <1>1, <1>10 DEF Unmap, Calls, ProcOk
  <2> QED
    BY <1>4, <1>10, <2>1 DEF Unmap
<1>11. CASE Refused(v) /\ proc[v].call \in {"publish", "unavail", "remove"}
  <2>1. proc' = [proc EXCEPT ![v] = Returns(proc[v], FALSE)]
    BY <1>11 DEF Refused, Becomes
  <2>2. Returns(proc[v], FALSE).call \in {"unmap", "none"}
    BY <1>1, <1>11, ReturnsTo
  <2> QED
    BY <2>1, <2>2 DEF Unserved, Using
<1>12. CASE WaitCheck(v)
  <2>1. PICK c \in {"connect", "sleep"} : Goes(v, c)
    BY <1>12 DEF WaitCheck
  <2> QED
    BY <1>3, <2>1 DEF Using
<1>13. CASE Connect(v)
  <2>1. CASE Connectable(v)
    BY <1>4, <1>13, <2>1 DEF Connect
  <2> QED
    BY <1>2, <1>13, <2>1 DEF Connect
<1>14. ASSUME NEW fits \in BOOLEAN, MapRemote(v, fits)
       PROVE  \E p : proc' = [proc EXCEPT ![v] = p] /\ Unserved(v, p)
  <2>1. proc[v].call \in Using /\ (Goes(v, "store") \/ Ends(v))
    BY <1>14 DEF MapRemote, Calls, Using
  <2> QED
    BY <1>2, <1>3, <2>1
<1>15. CASE CreateBusy(v) \/ WaitTimeout(v) \/ TxEnd(v) \/ Kill(v)
  BY <1>2, <1>15 DEF CreateBusy, WaitTimeout, TxEnd, Kill
<1> QED
  BY <1>5, <1>6, <1>7, <1>8, <1>9, <1>10, <1>11, <1>12, <1>13, <1>14, <1>15 DEF Quietly

(***************************************************************************)
(* What else may happen: an ioctl of the receiver, or a step of a driver,  *)
(* which may wake up the process on its VM.                                *)
(***************************************************************************)
Ioctl(v) ==
  \/ (Publish(v) \/ Unpublish(v) \/ RemoveSegment(v)) /\ Mine(v)
  \/ \E ok \in BOOLEAN : CreateNew(v, ok)
Woken(v) == Wake(v) \/ UNCHANGED proc

LEMMA SessionCases ==
  ASSUME NEW v \in VM,
         \/ \E id \in Segments[v] : Open(v, id)
         \/ Process(v) \/ RxEnd(v) \/ TxEnd(v) \/ WaitTimeout(v) \/ Kill(v)
         \/ Unload(v) \/ Work(v) \/ Segid(v) \/ Unavail(v)
         \/ \E ok \in BOOLEAN : Avail(v, ok)
         \/ IoctlReturns(v) \/ Silent(v)
  PROVE  \/ Quietly(v) \/ Ioctl(v) \/ IoctlReturns(v)
         \/ Unload(v) \/ ((Probe(v) \/ Remove(v)) /\ UNCHANGED proc)
         \/ (Imports(v) \/ SendCmd(v)) /\ Woken(v)
         \/ ~InIoctl(v) /\ (SendDone(v) \/ SendFail(v)) /\ UNCHANGED proc
<1>1. CASE Process(v)
  <2>1. CASE Publish(v) \/ Unpublish(v) \/ RemoveSegment(v)
    BY <2>1 DEF Publish, Unpublish, RemoveSegment, Ioctl, Quietly, Calls
  <2> QED
    BY <1>1, <2>1 DEF Process, Receiver, Sender, Quietly, Ioctl
<1>2. CASE \/ RxEnd(v) \/ TxEnd(v) \/ WaitTimeout(v) \/ Kill(v)
           \/ \E id \in Segments[v] : Open(v, id)
  BY <1>2 DEF Quietly
<1>3. CASE Work(v) \/ Segid(v) \/ Unavail(v) \/ \E ok \in BOOLEAN : Avail(v, ok)
  BY <1>3 DEF Work, Segid, Unavail, Avail, Imports, Handle, Woken
<1>4. CASE Silent(v)
  BY <1>4 DEF Silent, Imports, Handle, Woken
<1> QED
  BY <1>1, <1>2, <1>3, <1>4

LEMMA WokenFrame ==
  ASSUME proc \in [VM -> Proc], NEW v \in VM, Woken(v)
  PROVE  /\ \A w \in VM \ {v} : proc'[w] = proc[w]
         /\ proc[v].call # "sleep" => proc'[v] = proc[v]
         /\ proc'[v].call = proc[v].call \/ proc'[v].call = "wait"
<1>1. proc[v] \in Proc
  OBVIOUS
<1> QED
  BY <1>1 DEF Woken, Wake, Goes, Becomes, Calls, Proc

(***************************************************************************)
(* A step of x or y, when x serves, y is there and neither has changed:    *)
(* only the drivers have moved, or the processes.                          *)
(***************************************************************************)
LEMMA LinkCases ==
  ASSUME TypeOK, proc \in [VM -> Proc], SessionInv, SisciConstants, NEW x, NEW y,
         Sole(x), y = Peer(x), Inv(x, y), [SessionNext]_sessionVars,
         Serves(x), Attached(y)
  PROVE  \/ UNCHANGED sessionVars
         \/ \E v \in VM : Quietly(v)
         \/ Imports(y) /\ Woken(y)
         \/ Exports(x) /\ ~InIoctl(x) /\ UNCHANGED proc
         \/ Unload(y)
<1>0. x \in VM /\ y \in VM /\ x # y /\ VM = {x, y}
  BY SMT DEF Sole, Peer, VM
<1>1. /\ proc[x] \in Proc /\ ProcOk(x, dev[x], run[x], proc[x])
      /\ proc[y] \in Proc /\ ProcOk(y, dev[y], run[y], proc[y])
  BY <1>0 DEF SessionInv
<1>2. /\ dev[x].loaded /\ ~dev[x].removed /\ ~InIoctl(x) /\ x \in Exporters /\ y \notin Exporters
  BY <1>0, <1>1 DEF ProcOk, Serves, Sole, InIoctl, Sent
<1>3. dev[y].loaded /\ ~dev[y].removed /\ ~InIoctl(y)
  BY <1>1 DEF Attached, Inv, Importer, InIoctl
<1> SUFFICES ASSUME NEW v \in VM,
                    \/ Ioctl(v) \/ IoctlReturns(v)
                    \/ Unload(v) \/ ((Probe(v) \/ Remove(v)) /\ UNCHANGED proc)
                    \/ (Imports(v) \/ SendCmd(v)) /\ Woken(v)
                    \/ ~InIoctl(v) /\ (SendDone(v) \/ SendFail(v)) /\ UNCHANGED proc
             PROVE  \/ Imports(y) /\ Woken(y)
                    \/ Exports(x) /\ ~InIoctl(x) /\ UNCHANGED proc
                    \/ Unload(y)
  BY SessionCases DEF SessionNext
<1>4. CASE v = x
  <2>1. ~Ioctl(x) /\ ~IoctlReturns(x) /\ ~Unload(x) /\ ~Probe(x) /\ ~Remove(x)
    BY <1>2 DEF Ioctl, Publish, Unpublish, RemoveSegment, CreateNew, IoctlReturns, Unload, Calls,
                Serves, Probe, Remove
  <2>2. ~Take(x)
    BY DEF Inv, Take
  <2>3. ~Handle(x)
    BY DEF Inv, Exporter, Handle, HandleSegid, HandleSize, HandleXlat, HandleAvail,
           HandleUnavail, Handling
  <2>4. Woken(x) => UNCHANGED proc
    BY DEF Woken, Wake, Calls, Serves
  <2> QED
    BY <1>2, <1>4, <2>1, <2>2, <2>3, <2>4 DEF Imports, Exports
<1>5. CASE v = y
  <2>1. ~Ioctl(y)
    BY <1>1, <1>2 DEF Ioctl, Publish, Unpublish, RemoveSegment, CreateNew, Calls, ProcOk
  <2>2. ~IoctlReturns(y) /\ ~Probe(y) /\ ~Remove(y)
    BY <1>3 DEF IoctlReturns, Probe, Remove
  <2>3. ~SendCmd(y) /\ ~SendFail(y) /\ ~SendDone(y)
    BY DEF Inv, Importer, SendCmd, SendFail, SendDone, Sending
  <2> QED
    BY <1>5, <2>1, <2>2, <2>3
<1> QED
  BY <1>0, <1>4, <1>5

\* Only loading the module makes a driver that was not there be there.
LEMMA AttachedKept ==
  ASSUME TypeOK, NEW v \in VM, NEW w \in VM, Attached(w)', ~Attached(w),
         \/ Imports(v) \/ SendCmd(v) \/ SendDone(v) \/ SendFail(v)
         \/ SetRemoved(v) \/ Remove(v) \/ Probe(v)
  PROVE  Probe(w)
<1>1. dev \in [VM -> Device] /\ dev[v] \in Device
  BY DEF TypeOK
<1>2. ASSUME NEW f, dev' = [dev EXCEPT ![v] = f],
             (f.loaded /\ ~f.removed) => (dev[v].loaded /\ ~dev[v].removed)
      PROVE  FALSE
  BY <1>1, <1>2 DEF Attached
<1>3. ~(Imports(v) \/ SendCmd(v) \/ SendDone(v) \/ SendFail(v))
  <2>1. ~WorkStart(v)
    BY <1>2, WorkSame DEF Same
  <2>2. ~Handle(v)
    BY <1>2, HandleSame DEF Same
  <2>3. ~(Take(v) \/ Drained(v) \/ SendCmd(v) \/ SendDone(v) \/ SendFail(v))
    BY <1>2, SendSame
  <2> QED
    BY <2>1, <2>2, <2>3 DEF Imports
<1>4. ~SetRemoved(v)
  BY <1>1 DEF SetRemoved, Attached, Device
<1>5. ~Remove(v)
  <2>1. ~Unloaded.loaded
    BY DEF Unloaded
  <2> QED
    BY <1>2, <2>1 DEF Remove
<1>6. Probe(v)
  BY <1>3, <1>4, <1>5
<1>7. v = w
  BY <1>1, <1>6 DEF Probe, Attached
<1> QED
  BY <1>6, <1>7

LEMMA ServingNext ==
  ASSUME TypeOK, proc \in [VM -> Proc], SessionInv, SisciConstants, NEW x, NEW y,
         Sole(x), y = Peer(x), Inv(x, y), Serving(x, y), [SessionNext]_sessionVars
  PROVE  Serving(x, y)'
<1> SUFFICES ASSUME Attached(y)', Serves(x)'
             PROVE  Waits(dev[x], run[x], dev[y], run[y].got, box[y])'
  BY DEF Serving
<1>0. x \in VM /\ y \in VM /\ x # y /\ VM = {x, y}
  BY SMT DEF Sole, Peer, VM
<1>1. /\ proc[x] \in Proc /\ ProcOk(x, dev[x], run[x], proc[x])
      /\ proc[y] \in Proc /\ ProcOk(y, dev[y], run[y], proc[y])
  BY <1>0 DEF SessionInv
<1>2. CASE UNCHANGED vars /\ Serves(x)
  BY <1>2 DEF vars, Serving, Attached
<1>3. CASE Serves(x) /\ Attached(y)
  <2>1. Waits(dev[x], run[x], dev[y], run[y].got, box[y])
    BY <1>3 DEF Serving
  <2>2. ASSUME NEW v \in VM, Quietly(v) PROVE UNCHANGED vars
    BY <2>2, QuietlyTo
  <2>3. CASE Imports(y)
    <3>1. /\ dev'[x] = dev[x] /\ run'[x] = run[x]
          /\ dev'[y].peer_ready => dev[y].peer_ready \/ run[y].got.cmd = "AVAIL"
          /\ run'[y].got \in {Empty, run[y].got, box[y]} /\ box'[y] \in {Empty, box[y]}
      BY <1>0, <1>3, <2>3, ImportsFrame
    <3> QED
      BY <2>1, <3>1, Commands5 DEF Waits
  <2>4. CASE Exports(x) /\ ~InIoctl(x)
    BY <1>0, <1>3, <2>1, <2>4, ExportsFrame
  <2>5. ~Unload(y)
    BY <1>0, SMT DEF Unload, SetRemoved, Attached, TypeOK, Device
  <2>6. UNCHANGED sessionVars => UNCHANGED vars
    BY DEF sessionVars
  <2> QED
    BY <1>2, <1>3, <2>2, <2>3, <2>4, <2>5, <2>6, LinkCases
<1>4. ASSUME NEW v \in VM, Quietly(v), ~Serves(x) PROVE FALSE
  <2>1. PICK p : proc' = [proc EXCEPT ![v] = p] /\ Unserved(v, p)
    BY <1>4, QuietlyTo
  <2> QED
    BY <1>0, <1>4, <2>1 DEF Serves, Unserved
<1>5. ASSUME NEW v \in VM, Woken(v), ~Serves(x) PROVE FALSE
  BY <1>0, <1>5, WokenFrame DEF Serves
<1>6. ~Ioctl(y) /\ ~IoctlReturns(y)
  <2>1. y \notin Exporters /\ ~InIoctl(y)
    BY <1>0 DEF Sole, Inv, Importer, InIoctl
  <2> QED
    BY <1>1, <2>1 DEF Ioctl, Publish, Unpublish, RemoveSegment, CreateNew, IoctlReturns,
                      Calls, ProcOk
<1>7. CASE Ioctl(x)
  <2>1. CASE Publish(x)
    BY <1>0, <2>1, ServingBegins
  <2>2. CASE (Unpublish(x) \/ RemoveSegment(x)) /\ Mine(x)
    <3>1. proc[x].call \in {"unavail", "remove"} /\ Issued(x)
      BY <2>2 DEF Unpublish, RemoveSegment, Calls
    <3>2. proc' = proc \/ proc' = [proc EXCEPT ![x] = Returns(proc[x], TRUE)]
      BY <3>1 DEF Issued, Becomes
    <3>3. Returns(proc[x], TRUE).call # "serve"
      BY <1>1, <3>1, ReturnsTo
    <3> QED
      BY <1>0, <3>1, <3>2, <3>3 DEF Serves
  <2>3. ASSUME NEW ok \in BOOLEAN, CreateNew(x, ok) PROVE FALSE
    <3>1. \/ proc' = [proc EXCEPT ![x] = [proc[x] EXCEPT !.call = "prepare"]]
          \/ proc' = [proc EXCEPT ![x] = Ended]
      BY <2>3 DEF CreateNew, Goes, Ends, Becomes
    <3> QED
      BY <1>0, <1>1, <3>1, EndedFields, SMT DEF Serves, Proc
  <2> QED
    BY <1>7, <2>1, <2>2, <2>3 DEF Ioctl
<1>8. CASE IoctlReturns(x)
  BY <1>0, <1>8, ServingBegins
<1>9. CASE Serves(x) /\ Probe(y)
  <2>1. dev'[y] = [Unloaded EXCEPT !.loaded = TRUE] /\ box'[y] = Empty /\ run' = run
    BY <1>0, <1>9 DEF Probe, TypeOK
  <2>2. ~dev'[y].peer_ready
    BY <2>1, ProbedFields
  <2>3. run[y].got.cmd = "none"
    BY <1>9 DEF Probe, Inv, Importer
  <2> QED
    BY <2>1, <2>2, <2>3, Commands5 DEF Waits
<1>10. ASSUME NEW v \in VM,
              \/ Unload(v) \/ ((Probe(v) \/ Remove(v)) /\ UNCHANGED proc)
              \/ (Imports(v) \/ SendCmd(v)) /\ Woken(v)
              \/ ~InIoctl(v) /\ (SendDone(v) \/ SendFail(v)) /\ UNCHANGED proc
       PROVE  Waits(dev[x], run[x], dev[y], run[y].got, box[y])'
  <2>1. Woken(v)
    BY <1>10 DEF Woken, Unload
  <2>2. Serves(x)
    BY <1>5, <2>1
  <2>3. CASE ~Attached(y)
    <3>1. Probe(y)
      BY <1>0, <1>10, <2>3, AttachedKept DEF Unload
    <3> QED
      BY <1>9, <2>2, <3>1
  <2> QED
    BY <1>3, <2>2, <2>3
<1>11. ASSUME NEW v \in VM, Quietly(v)
       PROVE  Waits(dev[x], run[x], dev[y], run[y].got, box[y])'
  <2>1. UNCHANGED vars
    BY <1>11, QuietlyTo
  <2> QED
    BY <1>2, <1>4, <1>11, <2>1
<1>12. CASE UNCHANGED sessionVars
  BY <1>2, <1>12 DEF sessionVars, Serves
<1>13. ASSUME NEW v \in VM, Ioctl(v) \/ IoctlReturns(v)
       PROVE  Waits(dev[x], run[x], dev[y], run[y].got, box[y])'
  BY <1>0, <1>6, <1>7, <1>8, <1>13
<1> QED
  BY <1>10, <1>11, <1>12, <1>13, SessionCases DEF SessionNext

(***************************************************************************)
(* A sender that becomes connected, or is, under a receiver that serves.   *)
(***************************************************************************)
LEMMA LinkConnects ==
  ASSUME TypeOK, NEW x \in VM, NEW y \in VM, x # y, Inv(x, y), Serving(x, y), SessionInv,
         Serves(x), Attached(y), dev[y].peer_ready
  PROVE  /\ Clean(run[y].got) /\ dev[y].peer_io
         /\ dev[y].remote_size = proc[x].buf /\ dev[y].remote_xlat = proc[x].buf
         /\ win[y] = proc[x].buf
<1>1. Told(dev[x], run[x])
  BY DEF Serving, Waits
<1>2. Clean(run[y].got) /\ Clean(box[y])
  BY <1>1 DEF Inv, Stream, Flow
<1>3. Agreed(dev[x], run[x], dev[y], win[y])
  BY <1>2 DEF Inv, Stream, Body, Ready, Resets, Closes, Clean
<1>4. dev[x].local_buf = proc[x].buf
  BY DEF SessionInv, ProcOk, Serves
<1> QED
  BY <1>2, <1>3, <1>4 DEF Agreed, Inv, Importer

LEMMA LinkNext ==
  ASSUME TypeOK, proc \in [VM -> Proc], SessionInv, SisciConstants, NEW x, NEW y,
         Sole(x), y = Peer(x), Inv(x, y), Serving(x, y), [SessionNext]_sessionVars,
         SessionInv', Serves(x), Serves(x)', Uses(y)', Uses(y) => Linked(y)
  PROVE  Linked(y)'
<1>0. x \in VM /\ y \in VM /\ x # y /\ VM = {x, y} /\ x = Peer(y) /\ y \notin Exporters
  BY SMT DEF Sole, Peer, VM
<1>1. /\ proc[x] \in Proc /\ ProcOk(x, dev[x], run[x], proc[x])
      /\ proc[y] \in Proc /\ ProcOk(y, dev[y], run[y], proc[y])
  BY <1>0 DEF SessionInv
<1>2. Attached(y)'
  BY <1>0 DEF SessionInv, ProcOk, Uses, Attached
<1>3. CASE Uses(y)
  <2>0. Attached(y) /\ Linked(y)
    BY <1>1, <1>3 DEF ProcOk, Uses, Attached
  <2>1. /\ Attached(y) /\ dev[y].peer_ready /\ dev[y].peer_io /\ win[y] = proc[x].buf
        /\ dev[y].remote_xlat = proc[x].buf /\ proc[y].buf = proc[x].buf
    BY <1>0, <2>0 DEF Linked
  <2>2. ASSUME dev'[y].peer_ready, dev'[y].peer_io, dev'[y].remote_xlat = dev[y].remote_xlat,
               win'[y] = win[y], proc'[x].buf = proc[x].buf, proc'[y].buf = proc[y].buf
        PROVE  Linked(y)'
    BY <1>0, <2>1, <2>2 DEF Linked
  <2>3. CASE UNCHANGED sessionVars
    BY <2>1, <2>2, <2>3 DEF sessionVars, vars
  <2>4. ASSUME NEW v \in VM, Quietly(v) PROVE Linked(y)'
    <3>1. UNCHANGED vars
      BY <2>4, QuietlyTo
    <3>2. PICK p : proc' = [proc EXCEPT ![v] = p] /\ Unserved(v, p)
      BY <2>4, QuietlyTo
    <3>3. v = y /\ proc'[x] = proc[x] /\ proc'[y] = p
      BY <1>0, <3>2 DEF Serves, Unserved
    <3>4. p.call \in Using
      BY <3>3 DEF Uses, Using
    <3>5. p.buf = proc[y].buf
      <4>1. CASE Connectable(y) /\ p.buf = dev[y].remote_size
        <5>1. dev[y].remote_size = proc[x].buf
          BY <1>0, <2>1, LinkConnects
        <5> QED
          BY <2>1, <4>1, <5>1
      <4> QED
        BY <1>0, <3>2, <3>3, <3>4, <4>1 DEF Unserved
    <3> QED
      BY <2>1, <2>2, <3>1, <3>3, <3>5 DEF vars
  <2>5. CASE Imports(y) /\ Woken(y)
    <3>1. Clean(run[y].got)
      BY <1>0, <2>1, LinkConnects
    <3>2. /\ dev'[y].peer_ready /\ dev'[y].peer_io = dev[y].peer_io
          /\ dev'[y].remote_xlat = dev[y].remote_xlat /\ win'[y] = win[y]
      BY <1>0, <2>1, <2>5, <3>1, ImportsFrame
    <3>3. proc'[x] = proc[x] /\ proc'[y] = proc[y]
      BY <1>0, <1>3, <2>5, WokenFrame DEF Uses
    <3> QED
      BY <2>1, <2>2, <3>2, <3>3
  <2>6. CASE Exports(x) /\ ~InIoctl(x) /\ UNCHANGED proc
    <3>1. dev'[y] = dev[y] /\ win'[y] = win[y]
      BY <1>0, <2>1, <2>6, ExportsFrame
    <3> QED
      BY <2>1, <2>2, <2>6, <3>1
  <2>7. ~Unload(y)
    BY <1>3 DEF Unload, Calls, Uses
  <2> QED
    BY <2>1, <2>3, <2>4, <2>5, <2>6, <2>7, LinkCases
<1>4. CASE ~Uses(y)
  <2>1. PICK v \in VM : Quietly(v)
    <3>1. ~UNCHANGED sessionVars
      BY <1>4 DEF sessionVars, Uses
    <3>2. ASSUME NEW v \in VM, Woken(v) PROVE FALSE
      BY <1>0, <1>4, <3>2, WokenFrame DEF Uses
    <3>3. ASSUME NEW v \in VM, Ioctl(v) \/ IoctlReturns(v) PROVE FALSE
      <4>1. v = y
        <5>1. ~InIoctl(x)
          BY <1>1 DEF ProcOk, Serves, InIoctl, Sent
        <5> QED
          BY <1>0, <3>3, <5>1 DEF Ioctl, Publish, Unpublish, RemoveSegment, CreateNew,
                                  IoctlReturns, Calls, Serves
      <4>2. ~InIoctl(y)
        BY DEF Inv, Importer, InIoctl
      <4> QED
        BY <1>0, <1>1, <3>3, <4>1, <4>2
          DEF Ioctl, Publish, Unpublish, RemoveSegment, CreateNew, IoctlReturns, Calls, ProcOk
    <3>4. PICK v \in VM :
            \/ Quietly(v) \/ Ioctl(v) \/ IoctlReturns(v)
            \/ Unload(v) \/ ((Probe(v) \/ Remove(v)) /\ UNCHANGED proc)
            \/ (Imports(v) \/ SendCmd(v)) /\ Woken(v)
            \/ ~InIoctl(v) /\ (SendDone(v) \/ SendFail(v)) /\ UNCHANGED proc
      BY <3>1, SessionCases DEF SessionNext
    <3> QED
      BY <3>2, <3>3, <3>4 DEF Woken, Unload
  <2>2. UNCHANGED vars
    BY <2>1, QuietlyTo
  <2>3. PICK p : proc' = [proc EXCEPT ![v] = p] /\ Unserved(v, p)
    BY <2>1, QuietlyTo
  <2>4. v = y /\ proc'[x] = proc[x] /\ proc'[y] = p
    BY <1>0, <1>4, <2>3 DEF Uses
  <2>5. Connectable(y) /\ p.buf = dev[y].remote_size
    BY <1>0, <1>4, <2>3, <2>4 DEF Unserved, Uses, Using
  <2>6. Attached(y) /\ dev[y].peer_ready
    BY <2>5 DEF Connectable
  <2>7. /\ dev[y].peer_io /\ dev[y].remote_size = proc[x].buf
        /\ dev[y].remote_xlat = proc[x].buf /\ win[y] = proc[x].buf
    BY <1>0, <2>6, LinkConnects
  <2>8. dev' = dev /\ win' = win
    BY <2>2 DEF vars
  <2> QED
    BY <1>0, <2>4, <2>5, <2>6, <2>7, <2>8 DEF Linked
<1> QED
  BY <1>3, <1>4

(***************************************************************************)
(* With one exporter, a sender that CONNECT_SEGMENT connects under a       *)
(* receiver that serves writes to the buffer that the receiver has mapped, *)
(* for as long as both go on: no late or repeated announcement, reload or  *)
(* leftover of a killed process closes or moves its window.                *)
(***************************************************************************)
THEOREM LinkAlwaysStays ==
  ASSUME OneExporter
  PROVE  SessionSpec => StaysLinked
<1> PICK x \in VM : Sole(x)
  BY DEF OneExporter
<1> DEFINE y == Peer(x)
           I == TypeOK /\ proc \in [VM -> Proc] /\ SessionInv /\ Inv(x, y) /\ Serving(x, y)
<1>1. x \in VM /\ y \in VM /\ x # y /\ VM = {x, y} /\ Peer(y) = x
  BY SMT DEF Sole, Peer, VM
<1>2. SessionInit => I
  <2> SUFFICES ASSUME SessionInit PROVE I
    OBVIOUS
  <2>1. TypeOK /\ proc \in [VM -> Proc] /\ SessionInv
    BY SessionStart, SisciConstants
  <2>2. Inv(x, y)
    BY <1>1, InvInit DEF SessionInit
  <2>3. Serving(x, y)
    BY <1>1, EndedFields, SisciConstants DEF SessionInit, Serving, Serves
  <2> QED
    BY <2>1, <2>2, <2>3
<1>3. I /\ [SessionNext]_sessionVars => I' /\ [\A v \in VM \ Exporters : LinkStep(v)]_sessionVars
  <2> SUFFICES ASSUME I, [SessionNext]_sessionVars
               PROVE  I' /\ \A v \in VM \ Exporters : LinkStep(v)
    OBVIOUS
  <2>1. TypeOK' /\ proc' \in [VM -> Proc] /\ SessionInv' /\ [Next]_vars
    BY SessionPreserved, SisciConstants, SessionConstants
  <2>2. Inv(x, y)'
    BY <2>1, InvNext, SisciConstants
  <2>3. Serving(x, y)'
    BY ServingNext, SisciConstants
  <2>4. ASSUME NEW v \in VM \ Exporters, Serves(Peer(v)), Serves(Peer(v))', Uses(v)',
               Uses(v) => Linked(v)
        PROVE  Linked(v)'
    <3>1. v = y
      <4>1. SUFFICES ASSUME v = x PROVE FALSE
        BY <1>1
      <4>2. y \in Exporters
        BY <1>1, <2>4, <4>1 DEF SessionInv, ProcOk, Serves
      <4> QED
        BY <1>1, <4>2 DEF Sole
    <3> QED
      BY <1>1, <2>1, <2>4, <3>1, LinkNext, SisciConstants
  <2> QED
    BY <2>1, <2>2, <2>3, <2>4 DEF LinkStep
<1> HIDE DEF I
<1> QED
  BY <1>2, <1>3, PTL DEF SessionSpec, StaysLinked

(***************************************************************************)
(* With one exporter, the processes find windows and segments as           *)
(* WindowLive and SegmentAgreed say, whenever they look.                   *)
(***************************************************************************)
THEOREM SessionSegmentsAgreed ==
  ASSUME OneExporter
  PROVE  SessionSpec => [](WindowLive /\ SegmentAgreed)
BY SessionImplementsDrivers, WindowAlwaysLive, SegmentAlwaysAgreed, PTL
=============================================================================
