-------------------------- MODULE SisciSessionProofs --------------------------
(***************************************************************************)
(* Proofs about SisciSession, for any number of processes started one      *)
(* after the other on either VM.                                           *)
(***************************************************************************)
EXTENDS SisciSession, NtbIdtSisciProofs

\* Most leaves are first-order; those that need arithmetic, records or sequences
\* cite SMT.
USE Zenon

Names ==
  {"none", "create", "prepare", "map", "publish", "serve", "unavail", "unmap",
   "remove", "wait", "sleep", "connect", "store"}
Proc == [call: Names, id: IdsOr0, buf: Bufs]

(***************************************************************************)
(* The inductive invariant, for one VM v with structure d, run r and       *)
(* process p: a process keeps its driver loaded, an ioctl that sends is    *)
(* the one its process is in, and the receiver has mapped what is there.   *)
(***************************************************************************)
ReceiverCalls == {"create", "prepare", "publish", "serve", "unavail", "unmap", "remove"}
SenderCalls == {"wait", "sleep", "connect", "store"}
Mapping == {"publish", "serve", "unavail", "unmap"}

Sent(by) == IF by = "avail" THEN "publish" ELSE by
ProcOk(v, d, r, p) ==
  /\ p.call # "none" => d.loaded /\ ~d.removed /\ p.id \in Ids
  /\ p.call \in ReceiverCalls => v \in Exporters
  /\ p.call \in SenderCalls => v \notin Exporters
  /\ r.by \in {"avail", "unavail", "remove"} => p.call = Sent(r.by)
  /\ v \in Exporters /\ p.buf # 0 => p.call \in Mapping /\ d.local_buf = p.buf
  /\ p.call \in Mapping => p.buf # 0
  /\ p.call = "serve" \/ r.by = "avail" => d.local_id = p.id

USE DEF ReceiverCalls, SenderCalls, Mapping

SessionInv ==
  \A v \in VM : proc[v] \in Proc /\ ProcOk(v, dev[v], run[v], proc[v])
-----------------------------------------------------------------------------
(***************************************************************************)
(* A step of v changes its own structure to f, its run to s and its        *)
(* process to p.                                                           *)
(***************************************************************************)
LEMMA SessionStep ==
  ASSUME TypeOK, proc \in [VM -> Proc], SessionInv, NEW v \in VM, NEW f, NEW s, NEW p \in Proc,
         dev' = [dev EXCEPT ![v] = f], run' = [run EXCEPT ![v] = s],
         proc' = [proc EXCEPT ![v] = p], ProcOk(v, f, s, p)
  PROVE  proc' \in [VM -> Proc] /\ SessionInv'
<1>1. /\ dev'[v] = f /\ run'[v] = s /\ proc'[v] = p
      /\ \A w \in VM \ {v} : dev'[w] = dev[w] /\ run'[w] = run[w] /\ proc'[w] = proc[w]
  BY DEF TypeOK
<1> QED
  BY <1>1 DEF SessionInv

(***************************************************************************)
(* What the steps of a driver leave alone.                                 *)
(***************************************************************************)
Same(d, f) ==
  /\ f.loaded = d.loaded /\ f.removed = d.removed
  /\ f.local_buf = d.local_buf /\ f.local_id = d.local_id

LEMMA WorkSame ==
  ASSUME TypeOK, NEW v \in VM, WorkStart(v)
  PROVE  \E f, s : /\ dev' = [dev EXCEPT ![v] = f] /\ run' = [run EXCEPT ![v] = s]
                   /\ Same(dev[v], f) /\ s.by \in {"none", "drain"}
<1>1. dev[v] \in Device /\ dev \in [VM -> Device] /\ run[v].by = "none"
  BY DEF TypeOK, WorkStart, Unlocked
<1>2. CASE dev[v].removed
  <2>1. dev' = [dev EXCEPT ![v] = dev[v]] /\ run' = [run EXCEPT ![v] = run[v]]
    BY <1>2, Unframed DEF WorkStart
  <2>2. Same(dev[v], dev[v])
    BY DEF Same
  <2> QED
    BY <1>1, <2>1, <2>2
<1>3. CASE ~dev[v].removed /\ ~link
  <2>1. /\ dev' = [dev EXCEPT ![v] = LinkDown(dev[v])] /\ run' = [run EXCEPT ![v] = run[v]]
    BY <1>1, <1>3, Unframed DEF WorkStart
  <2>2. Same(dev[v], LinkDown(dev[v]))
    BY <1>1 DEF Same, LinkDown, PeerUnready, Device
  <2> QED
    BY <1>1, <2>1, <2>2
<1>4. CASE ~dev[v].removed /\ link
  <2> DEFINE f == [dev[v] EXCEPT !.link_up = TRUE]
             s == [Free EXCEPT !.by = "drain", !.send = <<>>]
  <2>1. dev' = [dev EXCEPT ![v] = f] /\ run' = [run EXCEPT ![v] = s]
    BY <1>1, <1>4 DEF WorkStart, Hold
  <2>2. Same(dev[v], f) /\ s.by = "drain"
    BY <1>1, FreeFields, SMT DEF Same, Device
  <2> HIDE DEF f, s
  <2> QED
    BY <2>1, <2>2
<1> QED
  BY <1>2, <1>3, <1>4

LEMMA HandleSame ==
  ASSUME TypeOK, NEW v \in VM, Handle(v)
  PROVE  \E f, s : /\ dev' = [dev EXCEPT ![v] = f] /\ run' = [run EXCEPT ![v] = s]
                   /\ Same(dev[v], f) /\ s.by = "drain"
<1>1. dev[v] \in Device /\ dev \in [VM -> Device] /\ run[v] \in Holding /\ run \in [VM -> Holding]
  BY DEF TypeOK
<1> DEFINE s == [run[v] EXCEPT !.got = Empty]
           data == run[v].got.data
<1>2. run' = [run EXCEPT ![v] = s] /\ s.by = "drain"
  BY <1>1 DEF Holding, Handled, Handle, HandleSegid, HandleSize, HandleXlat, HandleAvail,
              HandleUnavail, Handling
<1> HIDE DEF s
<1> SUFFICES \E f : dev' = [dev EXCEPT ![v] = f] /\ Same(dev[v], f)
  BY <1>2
<1>3. CASE HandleSegid(v)
  <2> DEFINE f == [PeerUnready(dev[v]) EXCEPT !.remote_id = data, !.remote_announced = FALSE]
  <2>1. dev' = [dev EXCEPT ![v] = f] /\ Same(dev[v], f)
    BY <1>1, <1>3 DEF HandleSegid, Same, PeerUnready, Device
  <2> QED
    BY <2>1
<1>4. CASE HandleSize(v)
  <2> DEFINE f == [dev[v] EXCEPT !.remote_size = data]
  <2>1. dev' = [dev EXCEPT ![v] = f] /\ Same(dev[v], f)
    BY <1>1, <1>4 DEF HandleSize, Same, Device
  <2> QED
    BY <2>1
<1>5. CASE HandleXlat(v)
  <2> DEFINE f == [dev[v] EXCEPT !.remote_xlat = data]
  <2>1. dev' = [dev EXCEPT ![v] = f] /\ Same(dev[v], f)
    BY <1>1, <1>5 DEF HandleXlat, Same, Device
  <2> QED
    BY <2>1
<1>6. ASSUME NEW ok \in BOOLEAN, HandleAvail(v, ok)
      PROVE  \E f : dev' = [dev EXCEPT ![v] = f] /\ Same(dev[v], f)
  <2> DEFINE e == [dev[v] EXCEPT !.remote_id = data, !.remote_announced = TRUE]
             h == [e EXCEPT !.peer_io = @ \/ ok, !.peer_ready = @ \/ ok]
  <2>1. dev' = [dev EXCEPT ![v] = e] \/ dev' = [dev EXCEPT ![v] = h]
    BY <1>1, <1>6 DEF HandleAvail
  <2>2. Same(dev[v], e) /\ Same(dev[v], h)
    BY <1>1 DEF Same, Device
  <2> HIDE DEF e, h
  <2> QED
    BY <2>1, <2>2
<1>7. CASE HandleUnavail(v)
  <2> DEFINE f == [PeerUnready(dev[v]) EXCEPT !.remote_announced = FALSE]
  <2>1. dev' = [dev EXCEPT ![v] = f] \/ dev' = [dev EXCEPT ![v] = dev[v]]
    BY <1>1, <1>7, Unframed DEF HandleUnavail
  <2>2. Same(dev[v], f) /\ Same(dev[v], dev[v])
    BY <1>1 DEF Same, PeerUnready, Device
  <2> HIDE DEF f
  <2> QED
    BY <2>1, <2>2
<1> QED
  BY <1>3, <1>4, <1>5, <1>6, <1>7 DEF Handle

LEMMA SendSame ==
  ASSUME TypeOK, NEW v \in VM,
         Take(v) \/ Drained(v) \/ SendCmd(v) \/ SendFail(v) \/ SendDone(v)
  PROVE  \E f, s : /\ dev' = [dev EXCEPT ![v] = f] /\ run' = [run EXCEPT ![v] = s]
                   /\ f.loaded = dev[v].loaded /\ f.removed = dev[v].removed
                   /\ ~(SendDone(v) /\ run[v].by = "remove") => Same(dev[v], f)
                   /\ s.by \in {"none", "work"} \/ (s.by = run[v].by /\ (Take(v) \/ SendCmd(v)))
<1>1. dev[v] \in Device /\ dev \in [VM -> Device] /\ run[v] \in Holding /\ run \in [VM -> Holding]
  BY DEF TypeOK
<1>2. Same(dev[v], dev[v]) /\ dev = [dev EXCEPT ![v] = dev[v]]
  BY Unframed DEF Same
<1>3. CASE Take(v)
  <2> DEFINE s == [run[v] EXCEPT !.got = box[v]]
  <2>1. run' = [run EXCEPT ![v] = s] /\ s.by = run[v].by /\ dev' = dev
    BY <1>1, <1>3 DEF Take, Holding
  <2> HIDE DEF s
  <2> QED
    BY <1>2, <1>3, <2>1
<1>4. CASE Drained(v)
  <2> DEFINE s == [Free EXCEPT !.by = "work", !.send = Announcement(dev[v])]
  <2>1. (run' = [run EXCEPT ![v] = s] \/ run' = [run EXCEPT ![v] = Free]) /\ dev' = dev
    BY <1>4 DEF Drained, Release, Hold
  <2>2. s.by = "work" /\ Free.by = "none"
    BY FreeFields
  <2> HIDE DEF s
  <2> QED
    BY <1>2, <2>1, <2>2
<1>5. CASE SendCmd(v)
  <2> DEFINE s == [run[v] EXCEPT !.send = Tail(@)]
  <2>1. run' = [run EXCEPT ![v] = s] /\ s.by = run[v].by /\ dev' = dev
    BY <1>1, <1>5 DEF SendCmd, Holding
  <2> HIDE DEF s
  <2> QED
    BY <1>2, <1>5, <2>1
<1>6. CASE SendFail(v)
  <2>1. dev' = dev /\ run' = [run EXCEPT ![v] = Free] /\ Free.by = "none"
    BY <1>6, FreeFields DEF SendFail, Release
  <2> QED
    BY <1>2, <2>1
<1>7. CASE SendDone(v)
  <2> DEFINE e == [dev[v] EXCEPT !.local_published = TRUE]
             h == FreeSegment(dev[v])
  <2>1. /\ Same(dev[v], e) /\ h.loaded = dev[v].loaded /\ h.removed = dev[v].removed
        /\ e.loaded = dev[v].loaded /\ e.removed = dev[v].removed
    BY <1>1 DEF Same, FreeSegment, Device
  <2>2. /\ run' = [run EXCEPT ![v] = Free] /\ Free.by = "none"
        /\ \/ dev' = [dev EXCEPT ![v] = e]
           \/ dev' = [dev EXCEPT ![v] = dev[v]]
           \/ dev' = [dev EXCEPT ![v] = h] /\ run[v].by = "remove"
    BY <1>1, <1>2, <1>7, FreeFields DEF SendDone, Release
  <2> HIDE DEF e, h
  <2> QED
    BY <1>2, <1>7, <2>1, <2>2
<1> QED
  BY <1>3, <1>4, <1>5, <1>6, <1>7
-----------------------------------------------------------------------------
(***************************************************************************)
(* The steps of the processes that leave the drivers alone.                *)
(***************************************************************************)
LEMMA EndedFields ==
  ASSUME SisciConstants
  PROVE  Ended \in Proc /\ Ended.call = "none" /\ Ended.buf = 0
BY SMT DEF Ended, Proc, Names, IdsOr0, Bufs, SisciConstants

LEMMA SessionQuiet ==
  ASSUME TypeOK, proc \in [VM -> Proc], SessionInv, NEW v \in VM, NEW p \in Proc,
         UNCHANGED vars, proc' = [proc EXCEPT ![v] = p],
         ProcOk(v, dev[v], run[v], p)
  PROVE  proc' \in [VM -> Proc] /\ SessionInv'
<1>1. dev' = [dev EXCEPT ![v] = dev[v]] /\ run' = [run EXCEPT ![v] = run[v]]
  BY Unframed DEF vars
<1> QED
  BY <1>1, SessionStep

LEMMA QuietEnds ==
  ASSUME TypeOK, proc \in [VM -> Proc], SessionInv, SisciConstants, NEW v \in VM,
         UNCHANGED vars, Ends(v), ~InIoctl(v)
  PROVE  proc' \in [VM -> Proc] /\ SessionInv'
<1>1. ProcOk(v, dev[v], run[v], Ended)
  BY EndedFields DEF ProcOk, InIoctl
<1> QED
  BY <1>1, EndedFields, SessionQuiet DEF Ends, Becomes

LEMMA QuietBuf ==
  ASSUME TypeOK, proc \in [VM -> Proc], SessionInv, NEW v \in VM, NEW c \in Names,
         NEW b \in Bufs, UNCHANGED vars,
         Becomes(v, [proc[v] EXCEPT !.call = c, !.buf = b]) \/ (b = proc[v].buf /\ Goes(v, c)),
         proc[v].call # "none", ~InIoctl(v),
         c \in ReceiverCalls => v \in Exporters, c \in SenderCalls => v \notin Exporters,
         v \in Exporters /\ b # 0 => c \in Mapping /\ b = dev[v].local_buf,
         c \in Mapping => b # 0, c # "serve"
  PROVE  proc' \in [VM -> Proc] /\ SessionInv'
<1>1. proc[v] \in Proc /\ ProcOk(v, dev[v], run[v], proc[v])
  BY DEF SessionInv
<1>2. PICK p \in Proc : /\ proc' = [proc EXCEPT ![v] = p]
                        /\ p.call = c /\ p.id = proc[v].id /\ p.buf = b
  <2> DEFINE p1 == [proc[v] EXCEPT !.call = c, !.buf = b]
             p2 == [proc[v] EXCEPT !.call = c]
  <2>1. /\ p1 \in Proc /\ p1.call = c /\ p1.id = proc[v].id /\ p1.buf = b
        /\ p2 \in Proc /\ p2.call = c /\ p2.id = proc[v].id /\ p2.buf = proc[v].buf
    BY <1>1 DEF Proc
  <2>2. proc' = [proc EXCEPT ![v] = p1] \/ (b = proc[v].buf /\ proc' = [proc EXCEPT ![v] = p2])
    BY DEF Becomes, Goes
  <2> HIDE DEF p1, p2
  <2> QED
    BY <2>1, <2>2
<1>3. ProcOk(v, dev[v], run[v], p)
  BY <1>1, <1>2 DEF ProcOk, InIoctl
<1> QED
  BY <1>2, <1>3, SessionQuiet

\* A process that is not in a call that sends is not in an ioctl.
LEMMA NotInIoctl ==
  ASSUME SessionInv, NEW v \in VM
  PROVE  /\ proc[v].call \notin {"publish", "unavail", "remove"} => ~InIoctl(v)
         /\ Unlocked(v) => ~InIoctl(v)
BY DEF SessionInv, ProcOk, InIoctl, Unlocked, Sent

LEMMA SessionReceiver ==
  ASSUME TypeOK, proc \in [VM -> Proc], SessionInv, SisciConstants, NEW v \in VM,
         \/ CreateReuse(v) \/ CreateBusy(v) \/ Prepare(v) \/ MapLocal(v) \/ RxEnd(v) \/ Unmap(v)
  PROVE  proc' \in [VM -> Proc] /\ SessionInv' /\ UNCHANGED vars
<1>1. proc[v] \in Proc /\ ProcOk(v, dev[v], run[v], proc[v]) /\ dev[v].local_buf \in Bufs
      /\ proc[v].buf \in Bufs
  BY DEF SessionInv, TypeOK, Device, Proc
<1>2. 0 \in Bufs
  BY SMT DEF Bufs, SisciConstants
<1>3. CASE CreateReuse(v)
  BY <1>1, <1>3, NotInIoctl, QuietBuf
    DEF CreateReuse, Calls, ProcOk, Names
<1>4. CASE CreateBusy(v)
  BY <1>4, NotInIoctl, QuietEnds DEF CreateBusy, Calls
<1>5. CASE Prepare(v)
  <2>1. PICK c \in {"map", "remove"} : Goes(v, c)
    BY <1>5 DEF Prepare
  <2> QED
    BY <1>1, <1>5, <2>1, NotInIoctl, QuietBuf
      DEF Prepare, Calls, ProcOk, Names
<1>6. CASE MapLocal(v)
  <2>1. CASE LocalMappable(v)
    BY <1>1, <1>6, <2>1, NotInIoctl, QuietBuf
      DEF MapLocal, LocalMappable, Calls, Names
  <2>2. CASE ~LocalMappable(v)
    BY <1>1, <1>6, <2>2, NotInIoctl, QuietBuf
      DEF MapLocal, Calls, ProcOk, Names
  <2> QED
    BY <2>1, <2>2
<1>7. CASE RxEnd(v)
  BY <1>1, <1>7, NotInIoctl, QuietBuf
    DEF RxEnd, Calls, ProcOk, Names
<1>8. CASE Unmap(v)
  BY <1>1, <1>2, <1>8, NotInIoctl, QuietBuf
    DEF Unmap, Calls, ProcOk, Names
<1> QED
  BY <1>3, <1>4, <1>5, <1>6, <1>7, <1>8

LEMMA SessionSender ==
  ASSUME TypeOK, proc \in [VM -> Proc], SessionInv, SisciConstants, NEW v \in VM,
         WaitCheck(v) \/ WaitTimeout(v) \/ Connect(v) \/ TxEnd(v) \/ Kill(v)
         \/ \E fits \in BOOLEAN : MapRemote(v, fits)
  PROVE  proc' \in [VM -> Proc] /\ SessionInv' /\ UNCHANGED vars
<1>1. proc[v] \in Proc /\ ProcOk(v, dev[v], run[v], proc[v]) /\ dev[v].remote_size \in Bufs
      /\ proc[v].buf \in Bufs
  BY DEF SessionInv, TypeOK, Device, Proc
<1>2. CASE WaitCheck(v)
  <2>1. PICK c \in {"connect", "sleep"} : Goes(v, c)
    BY <1>2 DEF WaitCheck
  <2> QED
    BY <1>1, <1>2, <2>1, NotInIoctl, QuietBuf
      DEF WaitCheck, Calls, ProcOk, Names
<1>3. CASE WaitTimeout(v) \/ TxEnd(v) \/ Kill(v)
  BY <1>3, NotInIoctl, QuietEnds DEF WaitTimeout, TxEnd, Kill, Calls
<1>4. CASE Connect(v)
  <2>1. CASE Connectable(v)
    BY <1>1, <1>4, <2>1, NotInIoctl, QuietBuf
      DEF Connect, Calls, ProcOk, Names
  <2>2. CASE ~Connectable(v)
    BY <1>4, <2>2, NotInIoctl, QuietEnds DEF Connect
  <2> QED
    BY <2>1, <2>2
<1>5. ASSUME NEW fits \in BOOLEAN, MapRemote(v, fits)
      PROVE  proc' \in [VM -> Proc] /\ SessionInv' /\ UNCHANGED vars
  <2>1. CASE Goes(v, "store")
    BY <1>1, <1>5, <2>1, NotInIoctl, QuietBuf
      DEF MapRemote, Calls, Names
  <2>2. CASE Ends(v)
    BY <1>5, <2>2, NotInIoctl, QuietEnds DEF MapRemote
  <2> QED
    BY <1>5, <2>1, <2>2 DEF MapRemote
<1> QED
  BY <1>2, <1>3, <1>4, <1>5

LEMMA SessionOpen ==
  ASSUME TypeOK, proc \in [VM -> Proc], SessionInv, SisciConstants, SessionConstants,
         NEW v \in VM, NEW id \in Segments[v], Open(v, id)
  PROVE  proc' \in [VM -> Proc] /\ SessionInv' /\ UNCHANGED vars
<1> DEFINE c == IF v \in Exporters THEN "create" ELSE "wait"
           p == [Ended EXCEPT !.call = c, !.id = id]
<1>1. id \in Ids /\ id \in IdsOr0 /\ 0 \in Bufs
  BY SMT DEF SessionConstants, SisciConstants, IdsOr0, Bufs
<1>2. p \in Proc /\ p.call = c /\ p.id = id /\ p.buf = 0
  BY <1>1 DEF Ended, Proc, Names
<1>3. proc' = [proc EXCEPT ![v] = p] /\ UNCHANGED vars /\ Attached(v) /\ ~InIoctl(v)
  BY NotInIoctl DEF Open, Becomes, Opens, Calls
<1> HIDE DEF p
<1>4. ProcOk(v, dev[v], run[v], p)
  BY <1>1, <1>2, <1>3 DEF ProcOk, Attached, InIoctl
<1> QED
  BY <1>2, <1>3, <1>4, SessionQuiet
-----------------------------------------------------------------------------
(***************************************************************************)
(* The ioctls of the receiver.                                             *)
(***************************************************************************)
LEMMA CreateSame ==
  ASSUME TypeOK, NEW v \in VM, NEW id, NEW ok, CreateSegment(v, id, ok)
  PROVE  \E f : /\ dev' = [dev EXCEPT ![v] = f] /\ run' = [run EXCEPT ![v] = run[v]]
                /\ f.loaded = dev[v].loaded /\ f.removed = dev[v].removed
                /\ run[v].by = "none"
<1>1. dev[v] \in Device /\ dev \in [VM -> Device] /\ run[v].by = "none"
  BY DEF TypeOK, CreateSegment, Unlocked
<1> DEFINE f == FreeSegment(dev[v])
           h == [f EXCEPT !.local_buf = allocs[v] + 1, !.local_id = id]
<1>2. /\ f.loaded = dev[v].loaded /\ f.removed = dev[v].removed
      /\ h.loaded = dev[v].loaded /\ h.removed = dev[v].removed
  BY <1>1 DEF FreeSegment, Device
<1>3. dev' = [dev EXCEPT ![v] = f] \/ dev' = [dev EXCEPT ![v] = h]
  BY <1>1 DEF CreateSegment
<1>4. run' = [run EXCEPT ![v] = run[v]]
  BY Unframed DEF CreateSegment
<1> HIDE DEF f, h
<1> QED
  BY <1>1, <1>2, <1>3, <1>4

LEMMA AvailableSame ==
  ASSUME TypeOK, NEW v \in VM, SetAvailable(v)
  PROVE  \E f, s : /\ dev' = [dev EXCEPT ![v] = f] /\ run' = [run EXCEPT ![v] = s]
                   /\ Same(dev[v], f) /\ s.by \in {"none", "avail"}
<1>1. dev[v] \in Device /\ dev \in [VM -> Device] /\ run[v].by = "none"
  BY DEF TypeOK, SetAvailable, HasSegment, Unlocked
<1> DEFINE f == [dev[v] EXCEPT !.local_available = TRUE, !.local_published = FALSE]
           s == [Free EXCEPT !.by = "avail", !.send = Announcement(f)]
<1>2. Same(dev[v], f) /\ s.by = "avail"
  BY <1>1, FreeFields, SMT DEF Same, Device
<1>3. /\ dev' = [dev EXCEPT ![v] = f]
      /\ run' = [run EXCEPT ![v] = run[v]] \/ run' = [run EXCEPT ![v] = s]
  BY Unframed DEF SetAvailable, Hold
<1> HIDE DEF f, s
<1> QED
  BY <1>1, <1>2, <1>3

LEMMA WithdrawSame ==
  ASSUME TypeOK, NEW v \in VM, NEW by \in {"unavail", "remove"}, Withdraw(v, by)
  PROVE  \E f, s : /\ dev' = [dev EXCEPT ![v] = f] /\ run' = [run EXCEPT ![v] = s]
                   /\ f.loaded = dev[v].loaded /\ f.removed = dev[v].removed
                   /\ by = "unavail" => Same(dev[v], f)
                   /\ s.by \in {"none", by}
<1>1. dev[v] \in Device /\ dev \in [VM -> Device] /\ run[v].by = "none"
  BY DEF TypeOK, Withdraw, HasSegment, Unlocked
<1> DEFINE f == [dev[v] EXCEPT !.local_available = FALSE, !.local_published = FALSE]
           h == FreeSegment(f)
           s == [Free EXCEPT !.by = by, !.send = <<Command("UNAVAIL", f.local_id)>>]
<1>2. Same(dev[v], f) /\ s.by = by
  BY <1>1, FreeFields, SMT DEF Same, Device
<1>3. f \in Device
  BY <1>1 DEF Device
<1>4. h.loaded = dev[v].loaded /\ h.removed = dev[v].removed
  <2> HIDE DEF f
  <2> QED
    BY <1>2, <1>3 DEF FreeSegment, Device, Same
<1>5. /\ \/ dev' = [dev EXCEPT ![v] = f]
         \/ dev' = [dev EXCEPT ![v] = h] /\ by = "remove"
      /\ run' = [run EXCEPT ![v] = run[v]] \/ run' = [run EXCEPT ![v] = s]
  BY Unframed DEF Withdraw, Hold
<1> HIDE DEF f, h, s
<1> QED
  BY <1>1, <1>2, <1>4, <1>5, SMT DEF Same

\* What an ioctl returns to.
LEMMA ReturnsTo ==
  ASSUME SisciConstants, NEW p \in Proc, NEW ok \in BOOLEAN,
         p.call \in {"publish", "unavail", "remove"}
  PROVE  /\ Returns(p, ok) \in Proc
         /\ p.call = "remove" => Returns(p, ok).call = "none" /\ Returns(p, ok).buf = 0
         /\ Returns(p, ok).call = "serve" => ok /\ p.call = "publish"
         /\ p.call # "remove" => /\ Returns(p, ok).call \in {"serve", "unmap"}
                                 /\ Returns(p, ok).id = p.id /\ Returns(p, ok).buf = p.buf
<1>1. CASE p.call = "publish"
  <2>1. PICK c \in {"serve", "unmap"} :
          Returns(p, ok) = [p EXCEPT !.call = c] /\ (c = "serve" => ok)
    BY <1>1 DEF Returns
  <2> QED
    BY <1>1, <2>1 DEF Names, Proc
<1>2. CASE p.call = "unavail"
  <2>1. Returns(p, ok) = [p EXCEPT !.call = "unmap"]
    BY <1>2 DEF Returns
  <2> QED
    BY <1>2, <2>1 DEF Names, Proc
<1>3. CASE p.call = "remove"
  BY <1>3, EndedFields DEF Returns
<1> QED
  BY <1>1, <1>2, <1>3

(***************************************************************************)
(* An ioctl is issued, and returns at once if it has nothing to send.      *)
(***************************************************************************)
LEMMA SessionIssued ==
  ASSUME TypeOK, proc \in [VM -> Proc], SessionInv, SisciConstants, NEW v \in VM,
         NEW by \in {"avail", "unavail", "remove"}, proc[v].call = Sent(by),
         NEW f, NEW s, dev' = [dev EXCEPT ![v] = f], run' = [run EXCEPT ![v] = s],
         f.loaded = dev[v].loaded, f.removed = dev[v].removed,
         by # "remove" => Same(dev[v], f), s.by \in {"none", by}, Issued(v),
         by = "avail" => dev[v].local_id = proc[v].id
  PROVE  proc' \in [VM -> Proc] /\ SessionInv'
<1>1. proc[v] \in Proc /\ ProcOk(v, dev[v], run[v], proc[v])
  BY DEF SessionInv
<1>2. run'[v] = s
  BY DEF TypeOK
<1>3. proc[v].call \in {"publish", "unavail", "remove"}
  BY DEF Sent
<1>4. CASE s.by = "none"
  <2> DEFINE p == Returns(proc[v], TRUE)
  <2>1. proc' = [proc EXCEPT ![v] = p]
    BY <1>2, <1>4 DEF Issued, Becomes
  <2>2. /\ p \in Proc /\ (proc[v].call = "remove" => p.call = "none" /\ p.buf = 0)
        /\ (p.call = "serve" => proc[v].call = "publish")
        /\ (proc[v].call # "remove" =>
              p.call \in {"serve", "unmap"} /\ p.id = proc[v].id /\ p.buf = proc[v].buf)
    BY <1>1, <1>3, ReturnsTo
  <2> HIDE DEF p
  <2>3. ProcOk(v, f, s, p)
    BY <1>1, <1>3, <1>4, <2>2 DEF ProcOk, Same, Sent
  <2> QED
    BY <2>1, <2>2, <2>3, SessionStep
<1>5. CASE s.by = by
  <2>1. proc' = [proc EXCEPT ![v] = proc[v]]
    BY <1>2, <1>5 DEF Issued
  <2>2. ProcOk(v, f, s, proc[v])
    BY <1>1, <1>3, <1>5 DEF ProcOk, Same, Sent
  <2> QED
    BY <1>1, <2>1, <2>2, SessionStep
<1> QED
  BY <1>4, <1>5

LEMMA SessionRefused ==
  ASSUME TypeOK, proc \in [VM -> Proc], SessionInv, SisciConstants, NEW v \in VM,
         proc[v].call \in {"publish", "unavail", "remove"}, Refused(v)
  PROVE  proc' \in [VM -> Proc] /\ SessionInv' /\ UNCHANGED vars
<1> DEFINE p == Returns(proc[v], FALSE)
<1>1. proc[v] \in Proc /\ ProcOk(v, dev[v], run[v], proc[v]) /\ ~InIoctl(v)
  BY NotInIoctl DEF SessionInv, Refused
<1>2. proc' = [proc EXCEPT ![v] = p] /\ UNCHANGED vars
  BY DEF Refused, Becomes
<1>3. /\ p \in Proc /\ (proc[v].call = "remove" => p.call = "none" /\ p.buf = 0)
      /\ (proc[v].call # "remove" =>
            p.call = "unmap" /\ p.id = proc[v].id /\ p.buf = proc[v].buf)
  BY <1>1, ReturnsTo
<1> HIDE DEF p
<1>4. ProcOk(v, dev[v], run[v], p)
  BY <1>1, <1>3 DEF ProcOk, InIoctl
<1> QED
  BY <1>2, <1>3, <1>4, SessionQuiet

LEMMA SessionIoctl ==
  ASSUME TypeOK, proc \in [VM -> Proc], SessionInv, SisciConstants, NEW v \in VM,
         \/ Publish(v) \/ Unpublish(v) \/ RemoveSegment(v)
         \/ \E ok \in BOOLEAN : CreateNew(v, ok)
  PROVE  proc' \in [VM -> Proc] /\ SessionInv' /\ [Next]_vars
<1>1. proc[v] \in Proc /\ ProcOk(v, dev[v], run[v], proc[v])
  BY DEF SessionInv
<1>2. CASE Publish(v)
  <2>1. proc[v].call = "publish" /\ v \in Exporters
    BY <1>1, <1>2 DEF Publish, Calls, ProcOk
  <2>2. CASE Mine(v)
    <3>1. SetAvailable(v) /\ Issued(v)
      BY <1>2, <2>2 DEF Publish
    <3>2. PICK f, s : /\ dev' = [dev EXCEPT ![v] = f] /\ run' = [run EXCEPT ![v] = s]
                      /\ Same(dev[v], f) /\ s.by \in {"none", "avail"}
      BY <3>1, AvailableSame
    <3>3. proc[v].call = Sent("avail")
      BY <2>1 DEF Sent
    <3>4. proc' \in [VM -> Proc] /\ SessionInv'
      BY <2>2, <3>1, <3>2, <3>3, SessionIssued DEF Same, Mine
    <3> QED
      BY <2>1, <3>1, <3>4 DEF Next, Application
  <2>3. CASE ~Mine(v)
    BY <1>2, <2>1, <2>3, SessionRefused DEF Publish
  <2> QED
    BY <2>2, <2>3
<1>3. CASE Unpublish(v) \/ RemoveSegment(v)
  <2>1. PICK by \in {"unavail", "remove"} :
          /\ proc[v].call = by /\ (IF Mine(v) THEN Withdraw(v, by) /\ Issued(v) ELSE Refused(v))
    BY <1>3 DEF Unpublish, RemoveSegment, Calls
  <2>2. v \in Exporters /\ proc[v].call = Sent(by)
    BY <1>1, <2>1 DEF ProcOk, Sent
  <2>3. CASE Mine(v)
    <3>1. Withdraw(v, by) /\ Issued(v)
      BY <2>1, <2>3
    <3>2. PICK f, s : /\ dev' = [dev EXCEPT ![v] = f] /\ run' = [run EXCEPT ![v] = s]
                      /\ f.loaded = dev[v].loaded /\ f.removed = dev[v].removed
                      /\ (by = "unavail" => Same(dev[v], f))
                      /\ s.by \in {"none", by}
      BY <3>1, WithdrawSame
    <3>3. proc' \in [VM -> Proc] /\ SessionInv'
      BY <2>2, <3>1, <3>2, SessionIssued
    <3> QED
      BY <2>2, <3>1, <3>3 DEF Next, Application
  <2>4. CASE ~Mine(v)
    BY <2>1, <2>4, SessionRefused
  <2> QED
    BY <2>3, <2>4
<1>4. ASSUME NEW ok \in BOOLEAN, CreateNew(v, ok)
      PROVE  proc' \in [VM -> Proc] /\ SessionInv' /\ [Next]_vars
  <2>1. /\ CreateSegment(v, proc[v].id, ok) /\ proc[v].call = "create"
        /\ v \in Exporters /\ proc[v].id \in Ids /\ proc[v].buf = 0
    BY <1>1, <1>4 DEF CreateNew, Calls, ProcOk
  <2>2. PICK f : /\ dev' = [dev EXCEPT ![v] = f] /\ run' = [run EXCEPT ![v] = run[v]]
                 /\ f.loaded = dev[v].loaded /\ f.removed = dev[v].removed
                 /\ run[v].by = "none"
    BY <2>1, CreateSame
  <2>3. PICK p \in Proc : /\ proc' = [proc EXCEPT ![v] = p] /\ p.buf = 0
                          /\ p.call = "none" \/ (p.call = "prepare" /\ p.id = proc[v].id)
    <3>1. CASE ok
      <4> DEFINE p == [proc[v] EXCEPT !.call = "prepare"]
      <4>1. p \in Proc /\ p.call = "prepare" /\ p.id = proc[v].id /\ p.buf = 0
        BY <1>1, <2>1 DEF Proc, Names
      <4>2. proc' = [proc EXCEPT ![v] = p]
        BY <1>4, <3>1 DEF CreateNew, Goes, Becomes
      <4> HIDE DEF p
      <4> QED
        BY <4>1, <4>2
    <3>2. CASE ~ok
      BY <1>4, <3>2, EndedFields DEF CreateNew, Ends, Becomes
    <3> QED
      BY <3>1, <3>2
  <2>4. ProcOk(v, f, run[v], p)
    BY <1>1, <2>1, <2>2, <2>3 DEF ProcOk
  <2>5. proc' \in [VM -> Proc] /\ SessionInv'
    BY <2>2, <2>3, <2>4, SessionStep
  <2> QED
    BY <2>1, <2>5 DEF Next, Application
<1> QED
  BY <1>2, <1>3, <1>4
-----------------------------------------------------------------------------
(***************************************************************************)
(* The steps of the drivers.                                               *)
(***************************************************************************)
LEMMA SessionWoken ==
  ASSUME TypeOK, proc \in [VM -> Proc], SessionInv, NEW v \in VM,
         NEW f, NEW s, dev' = [dev EXCEPT ![v] = f], run' = [run EXCEPT ![v] = s],
         Same(dev[v], f), s.by \in {"none", "drain", "work"} \/ s.by = run[v].by,
         Wake(v) \/ UNCHANGED proc
  PROVE  proc' \in [VM -> Proc] /\ SessionInv'
<1>1. proc[v] \in Proc /\ ProcOk(v, dev[v], run[v], proc[v])
  BY DEF SessionInv
<1>2. PICK p \in Proc :
        /\ proc' = [proc EXCEPT ![v] = p] /\ p.id = proc[v].id /\ p.buf = proc[v].buf
        /\ p.call = proc[v].call \/ (proc[v].call = "sleep" /\ p.call = "wait")
  <2>1. CASE UNCHANGED proc
    <3>1. proc' = [proc EXCEPT ![v] = proc[v]]
      BY <2>1
    <3> QED
      BY <1>1, <3>1
  <2>2. CASE proc[v].call = "sleep" /\ Goes(v, "wait")
    <3> DEFINE p == [proc[v] EXCEPT !.call = "wait"]
    <3>1. p \in Proc /\ p.call = "wait" /\ p.id = proc[v].id /\ p.buf = proc[v].buf
      BY <1>1 DEF Proc, Names
    <3>2. proc' = [proc EXCEPT ![v] = p]
      BY <2>2 DEF Goes, Becomes
    <3> HIDE DEF p
    <3> QED
      BY <2>2, <3>1, <3>2
  <2> QED
    BY <2>1, <2>2 DEF Wake, Calls
<1>3. ProcOk(v, f, s, p)
  BY <1>1, <1>2 DEF ProcOk, Same, Sent
<1> QED
  BY <1>2, <1>3, SessionStep

LEMMA SessionLoad ==
  ASSUME TypeOK, proc \in [VM -> Proc], SessionInv, NEW v \in VM,
         Unload(v) \/ ((Probe(v) \/ Remove(v)) /\ UNCHANGED proc)
  PROVE  proc' \in [VM -> Proc] /\ SessionInv' /\ [Next]_vars
<1>1. proc[v] \in Proc /\ ProcOk(v, dev[v], run[v], proc[v]) /\ proc[v].call = "none"
  BY DEF SessionInv, ProcOk, Unload, Calls, Probe, Remove
<1>2. proc' = [proc EXCEPT ![v] = proc[v]] /\ run' = [run EXCEPT ![v] = run[v]]
  BY Unframed DEF Unload, SetRemoved, Probe, Remove
<1>3. \E f : dev' = [dev EXCEPT ![v] = f]
  <2>1. CASE Unload(v)
    <3> DEFINE f == [dev[v] EXCEPT !.removed = TRUE, !.peer_ready = FALSE,
                       !.remote_announced = FALSE, !.local_available = FALSE,
                       !.local_published = FALSE]
    <3>1. dev \in [VM -> Device]
      BY DEF TypeOK
    <3>2. dev' = [dev EXCEPT ![v] = f]
      BY <2>1, <3>1 DEF Unload, SetRemoved
    <3> HIDE DEF f
    <3> QED
      BY <3>2
  <2>2. CASE Probe(v)
    <3> DEFINE f == [Unloaded EXCEPT !.loaded = TRUE]
    <3>1. dev' = [dev EXCEPT ![v] = f]
      BY <2>2 DEF Probe
    <3> HIDE DEF f
    <3> QED
      BY <3>1
  <2>3. CASE Remove(v)
    BY <2>3 DEF Remove
  <2> QED
    BY <2>1, <2>2, <2>3
<1>4. PICK f : dev' = [dev EXCEPT ![v] = f]
  BY <1>3
<1>5. ProcOk(v, f, run[v], proc[v])
  BY <1>1 DEF ProcOk, Sent
<1>6. proc' \in [VM -> Proc] /\ SessionInv'
  BY <1>1, <1>2, <1>4, <1>5, SessionStep
<1> QED
  BY <1>6 DEF Unload, Next

LEMMA SessionDriver ==
  ASSUME TypeOK, proc \in [VM -> Proc], SessionInv, NEW v \in VM,
         \/ Work(v) \/ Segid(v) \/ Unavail(v) \/ \E ok \in BOOLEAN : Avail(v, ok)
         \/ Silent(v)
  PROVE  proc' \in [VM -> Proc] /\ SessionInv' /\ [Next]_vars
<1>1. CASE WorkStart(v) /\ (Wake(v) \/ UNCHANGED proc)
  <2>1. proc' \in [VM -> Proc] /\ SessionInv'
    BY <1>1, WorkSame, SessionWoken
  <2> QED
    BY <1>1, <2>1 DEF Next, Driver
<1>2. CASE Handle(v) /\ (Wake(v) \/ UNCHANGED proc)
  <2>1. proc' \in [VM -> Proc] /\ SessionInv'
    BY <1>2, HandleSame, SessionWoken
  <2> QED
    BY <1>2, <2>1 DEF Next, Driver, Holder
<1>3. CASE /\ Take(v) \/ Drained(v) \/ SendCmd(v) \/ SendFail(v) \/ SendDone(v)
           /\ SendDone(v) => ~InIoctl(v)
           /\ UNCHANGED proc
  <2>1. PICK f, s : /\ dev' = [dev EXCEPT ![v] = f] /\ run' = [run EXCEPT ![v] = s]
                    /\ Same(dev[v], f)
                    /\ s.by \in {"none", "work"} \/ s.by = run[v].by
    BY <1>3, SendSame DEF InIoctl
  <2>2. proc' \in [VM -> Proc] /\ SessionInv'
    BY <1>3, <2>1, SessionWoken
  <2> QED
    BY <1>3, <2>2 DEF Next, Driver, Holder
<1>4. CASE (Probe(v) \/ Remove(v)) /\ UNCHANGED proc
  BY <1>4, SessionLoad
<1>5. CASE Silent(v)
  <2>1. CASE HandleSize(v) \/ HandleXlat(v)
    BY <1>2, <1>5, <2>1 DEF Silent, Handle
  <2>2. CASE Probe(v) \/ Remove(v)
    BY <1>4, <1>5, <2>2 DEF Silent
  <2>3. CASE Take(v) \/ Drained(v) \/ SendCmd(v) \/ (~InIoctl(v) /\ (SendDone(v) \/ SendFail(v)))
    <3>1. SendDone(v) => ~InIoctl(v)
      BY <2>3 DEF Take, Drained, SendCmd, SendDone, Sending, InIoctl
    <3> QED
      BY <1>3, <1>5, <2>3, <3>1 DEF Silent
  <2> QED
    BY <1>5, <2>1, <2>2, <2>3 DEF Silent
<1>6. CASE Work(v) \/ Segid(v) \/ Unavail(v) \/ \E ok \in BOOLEAN : Avail(v, ok)
  BY <1>1, <1>2, <1>6 DEF Work, Segid, Unavail, Avail, Handle
<1> QED
  BY <1>5, <1>6

LEMMA SessionReturns ==
  ASSUME TypeOK, proc \in [VM -> Proc], SessionInv, SisciConstants, NEW v \in VM,
         IoctlReturns(v)
  PROVE  proc' \in [VM -> Proc] /\ SessionInv' /\ [Next]_vars
<1>1. proc[v] \in Proc /\ ProcOk(v, dev[v], run[v], proc[v])
  BY DEF SessionInv
<1>2. PICK ok \in BOOLEAN : /\ SendDone(v) \/ (SendFail(v) /\ ~ok)
                            /\ proc' = [proc EXCEPT ![v] = Returns(proc[v], ok)]
  BY DEF IoctlReturns, Becomes
<1>3. PICK f : /\ dev' = [dev EXCEPT ![v] = f]
               /\ f.loaded = dev[v].loaded /\ f.removed = dev[v].removed
               /\ run[v].by # "remove" => Same(dev[v], f)
  BY <1>2, SendSame
<1>4. run' = [run EXCEPT ![v] = Free] /\ Free.by = "none"
  BY <1>2, FreeFields DEF SendDone, SendFail, Release
<1>5. /\ run[v].by \in {"avail", "unavail", "remove"} /\ proc[v].call = Sent(run[v].by)
      /\ proc[v].call \in {"publish", "unavail", "remove"}
      /\ run[v].by = "remove" <=> proc[v].call = "remove"
      /\ proc[v].call = "publish" => run[v].by = "avail"
  BY <1>1 DEF IoctlReturns, InIoctl, ProcOk, Sent
<1> DEFINE p == Returns(proc[v], ok)
<1>6. /\ p \in Proc /\ (proc[v].call = "remove" => p.call = "none" /\ p.buf = 0)
      /\ (p.call = "serve" => proc[v].call = "publish")
      /\ (proc[v].call # "remove" =>
            p.call \in {"serve", "unmap"} /\ p.id = proc[v].id /\ p.buf = proc[v].buf)
  <2>1. proc[v] \in Proc /\ SisciConstants /\ ok \in BOOLEAN
    OBVIOUS
  <2>2. ASSUME NEW q, q = proc[v]
        PROVE  /\ Returns(q, ok) \in Proc
               /\ q.call = "remove" => Returns(q, ok).call = "none" /\ Returns(q, ok).buf = 0
               /\ Returns(q, ok).call = "serve" => ok /\ q.call = "publish"
               /\ q.call # "remove" => /\ Returns(q, ok).call \in {"serve", "unmap"}
                                       /\ Returns(q, ok).id = q.id /\ Returns(q, ok).buf = q.buf
    <3>1. q \in Proc /\ q.call \in {"publish", "unavail", "remove"}
      BY <1>5, <2>1, <2>2
    <3> QED
      BY ONLY <2>1, <3>1, ReturnsTo, SMT
  <2> QED
    BY <2>2
<1>7. proc' = [proc EXCEPT ![v] = p]
  BY <1>2
<1> HIDE DEF p
<1>8. ProcOk(v, f, Free, p)
  BY <1>1, <1>3, <1>4, <1>5, <1>6 DEF ProcOk, Same
<1>9. proc' \in [VM -> Proc] /\ SessionInv'
  BY <1>3, <1>4, <1>6, <1>7, <1>8, SessionStep
<1> QED
  BY <1>2, <1>9 DEF Next, Driver, Holder
-----------------------------------------------------------------------------
LEMMA SessionStart ==
  ASSUME SisciConstants, SessionInit
  PROVE  TypeOK /\ proc \in [VM -> Proc] /\ SessionInv
<1>1. TypeOK /\ proc = [v \in VM |-> Ended] /\ run = [v \in VM |-> Free]
  BY TypeInit DEF SessionInit, Init
<1>2. \A v \in VM : ProcOk(v, dev[v], run[v], proc[v])
  BY <1>1, EndedFields, FreeFields DEF ProcOk
<1> QED
  BY <1>1, <1>2, EndedFields DEF SessionInv

LEMMA SessionPreserved ==
  ASSUME SisciConstants, SessionConstants, TypeOK, proc \in [VM -> Proc], SessionInv,
         [SessionNext]_sessionVars
  PROVE  TypeOK' /\ proc' \in [VM -> Proc] /\ SessionInv' /\ [Next]_vars
<1>1. proc' \in [VM -> Proc] /\ SessionInv' /\ [Next]_vars
  <2>1. CASE UNCHANGED sessionVars
    BY <2>1 DEF sessionVars, vars, SessionInv
  <2>2. ASSUME NEW v \in VM, NEW id \in Segments[v], Open(v, id)
        PROVE  proc' \in [VM -> Proc] /\ SessionInv' /\ [Next]_vars
    BY <2>2, SessionOpen
  <2>3. ASSUME NEW v \in VM,
               \/ Process(v) \/ RxEnd(v) \/ TxEnd(v) \/ WaitTimeout(v) \/ Kill(v)
        PROVE  proc' \in [VM -> Proc] /\ SessionInv' /\ [Next]_vars
    BY <2>3, SessionReceiver, SessionSender, SessionIoctl DEF Process, Receiver, Sender
  <2>4. ASSUME NEW v \in VM,
               \/ Unload(v) \/ Work(v) \/ Segid(v) \/ Unavail(v)
               \/ (\E ok \in BOOLEAN : Avail(v, ok)) \/ IoctlReturns(v) \/ Silent(v)
        PROVE  proc' \in [VM -> Proc] /\ SessionInv' /\ [Next]_vars
    BY <2>4, SessionLoad, SessionDriver, SessionReturns
  <2> QED
    BY <2>1, <2>2, <2>3, <2>4 DEF SessionNext
<1> QED
  BY <1>1, TypeNext

(***************************************************************************)
(* Type correctness of the processes.                                      *)
(***************************************************************************)
THEOREM SessionTypeCorrect == SessionSpec => []SessionTypeOK
<1>1. proc \in [VM -> Proc] => SessionTypeOK
  BY DEF SessionTypeOK, Proc, Names, IdsOr0
<1>2. SessionInit => TypeOK /\ proc \in [VM -> Proc] /\ SessionInv
  BY SessionStart, SisciConstants
<1>3. TypeOK /\ proc \in [VM -> Proc] /\ SessionInv /\ [SessionNext]_sessionVars
        => (TypeOK /\ proc \in [VM -> Proc] /\ SessionInv)'
  BY SessionPreserved, SisciConstants, SessionConstants
<1> QED
  BY <1>1, <1>2, <1>3, PTL DEF SessionSpec

(***************************************************************************)
(* The library and its processes drive the driver only as an application   *)
(* of NtbIdtSisci may: what is proved of the drivers holds under them.     *)
(***************************************************************************)
THEOREM SessionImplementsDrivers == SessionSpec => Spec
<1>1. SessionInit => TypeOK /\ proc \in [VM -> Proc] /\ SessionInv /\ Init
  BY SessionStart, SisciConstants DEF SessionInit
<1>2. TypeOK /\ proc \in [VM -> Proc] /\ SessionInv /\ [SessionNext]_sessionVars
        => (TypeOK /\ proc \in [VM -> Proc] /\ SessionInv)' /\ [Next]_vars
  BY SessionPreserved, SisciConstants, SessionConstants
<1> QED
  BY <1>1, <1>2, PTL DEF SessionSpec, Spec

(***************************************************************************)
(* What the receiver has mapped is never freed under it, although a killed *)
(* process leaves its segment behind and the next one may remove it.       *)
(***************************************************************************)
THEOREM LocalMapAlwaysLive == SessionSpec => []LocalMapLive
<1>1. SessionInv => LocalMapLive
  BY SisciConstants DEF SessionInv, LocalMapLive, ProcOk, SisciConstants
<1>2. SessionInit => TypeOK /\ proc \in [VM -> Proc] /\ SessionInv
  BY SessionStart, SisciConstants
<1>3. TypeOK /\ proc \in [VM -> Proc] /\ SessionInv /\ [SessionNext]_sessionVars
        => (TypeOK /\ proc \in [VM -> Proc] /\ SessionInv)'
  BY SessionPreserved, SisciConstants, SessionConstants
<1> QED
  BY <1>1, <1>2, <1>3, PTL DEF SessionSpec
=============================================================================
