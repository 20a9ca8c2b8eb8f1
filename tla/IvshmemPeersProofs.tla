------------------------- MODULE IvshmemPeersProofs --------------------------
(***************************************************************************)
(* Proofs about IvshmemPeers, for every number of vectors and client ids,  *)
(* every size of the peer table and any restarts.                          *)
(***************************************************************************)
EXTENDS IvshmemPeers, TLAPS

\* Most leaves are first-order; those that need arithmetic, records or sequences
\* cite SMT.
USE Zenon

LEMMA PeerFacts == \A v \in VM : /\ Peer(v) \in VM /\ Peer(v) # v
                                 /\ Peer(Peer(v)) = v
BY SMT DEF VM, Peer

LEMMA TwoVMs == \A v, w \in VM : w = v \/ w = Peer(v)
BY SMT DEF VM, Peer

Phases == {"off", "setup", "run", "failed", "fault"}
DevType == [phase: Phases, id: Ids, other: Ids \cup {None}, nb_peers: Nat,
            nb: [Ids -> 0..Vectors], closed: SUBSET Ids]
EfdType == [Ids -> SUBSET {"VM_ID", "INTERRUPT_HOST"}]

LEMMA TypeSplit ==
  TypeOK <=> /\ dev \in [VM -> DevType] /\ inbox \in [VM -> Seq(Messages)]
             /\ id_shared \in [VM -> Ids] /\ masked \in BOOLEAN
             /\ intsts \in [VM -> BOOLEAN] /\ efd \in EfdType
             /\ next_id \in 0..MaxIds /\ owner \in [Ids -> VM \cup {0}]
             /\ waiting \in [VM -> BOOLEAN]
BY DEF TypeOK, DevType, Phases, EfdType

LEMMA TypeNext ==
  ASSUME dev' \in [VM -> DevType], inbox' \in [VM -> Seq(Messages)],
         id_shared' \in [VM -> Ids], masked' \in BOOLEAN, intsts' \in [VM -> BOOLEAN],
         efd' \in EfdType, next_id' \in 0..MaxIds, owner' \in [Ids -> VM \cup {0}],
         waiting' \in [VM -> BOOLEAN]
  PROVE  TypeOK'
BY DEF TypeOK, DevType, Phases, EfdType

LEMMA IdFacts == /\ 0 \in Ids /\ Ids \subseteq Nat /\ None \notin Ids
                 /\ \A i \in Ids : i < MaxIds /\ i + 1 \in 0..MaxIds
BY PeersConstants, SMT DEF Ids, None

LEMMA MessageFacts ==
  /\ Shm \in Messages /\ Shm.kind = "shm"
  /\ \A i \in Ids : /\ Conn(i) \in Messages /\ Conn(i).kind = "conn" /\ Conn(i).id = i
                    /\ Gone(i) \in Messages /\ Gone(i).kind = "gone" /\ Gone(i).id = i
  /\ \A m \in Messages : m.kind \in {"shm", "conn", "gone"} /\ m.id \in Ids
<1>1. Shm.kind = "shm" /\ Shm.id = 0
  BY DEF Shm
<1>2. \A i \in Ids : /\ Conn(i).kind = "conn" /\ Conn(i).id = i
                     /\ Gone(i).kind = "gone" /\ Gone(i).id = i
  BY DEF Conn, Gone
<1>3. Shm \in Messages /\ \A i \in Ids : Conn(i) \in Messages /\ Gone(i) \in Messages
  BY DEF Messages
<1>4. \A m \in Messages : m = Shm \/ \E i \in Ids : m = Conn(i) \/ m = Gone(i)
  BY DEF Messages
<1> QED BY <1>1, <1>2, <1>3, <1>4, IdFacts, SMT
-----------------------------------------------------------------------------
(***************************************************************************)
(* Messages.                                                               *)
(***************************************************************************)
\* The eventfds of one client.
LEMMA ConnAllFacts ==
  ASSUME NEW M, NEW i, Conn(i) \in M
  PROVE  /\ ConnAll(i) \in Seq(M) /\ Len(ConnAll(i)) = ServerVectors
         /\ \A k \in 1..ServerVectors : ConnAll(i)[k] = Conn(i)
BY PeersConstants, SMT DEF ConnAll

\* What ivshmem-server says first to v: the shared memory, and the eventfds of v
\* and of the client that is there.
Said(v) == {Shm, Conn(next_id)} \cup (IF Up(Peer(v)) THEN {Conn(dev[Peer(v)].id)} ELSE {})

LEMMA GreetingFacts ==
  ASSUME NEW v \in VM, NEW g \in Greetings(v)
  PROVE  g \in Seq(Said(v)) /\ (~AnyOrder => Len(g) > 0 /\ g[1] = Shm)
<1> DEFINE M == Said(v)
           rest == Others(v) \o ConnAll(next_id)
<1>1. Shm \in M /\ Conn(next_id) \in M /\ (Up(Peer(v)) => Conn(dev[Peer(v)].id) \in M)
  BY DEF Said
<1> HIDE DEF M
<1>2. ConnAll(next_id) \in Seq(M)
  BY <1>1, ConnAllFacts
<1>3. Others(v) \in Seq(M)
  BY <1>1, ConnAllFacts, SMT DEF Others
<1>4. rest \in Seq(M)
  BY <1>2, <1>3, SMT
<1>5. <<Shm>> \in Seq(M) /\ Len(<<Shm>>) = 1 /\ <<Shm>>[1] = Shm
  BY <1>1, SMT
<1> HIDE DEF rest
<1>6. CASE AnyOrder
  <2>1. PICK n \in 0..Len(rest) :
          g = SubSeq(rest, 1, n) \o <<Shm>> \o SubSeq(rest, n + 1, Len(rest))
    BY <1>6 DEF Greetings, rest
  <2>2. Len(rest) \in Nat /\ \A k \in 1..Len(rest) : rest[k] \in M
    BY <1>4, SMT
  <2>3. SubSeq(rest, 1, n) \in Seq(M)
    BY <2>1, <2>2, SMT
  <2>4. SubSeq(rest, n + 1, Len(rest)) \in Seq(M)
    BY <2>1, <2>2, SMT
  <2>5. SubSeq(rest, 1, n) \o <<Shm>> \in Seq(M)
    BY <1>5, <2>3, SMT
  <2> QED BY <1>6, <2>1, <2>4, <2>5, SMT DEF M
<1>7. CASE ~AnyOrder
  <2>1. g = <<Shm>> \o rest
    BY <1>7 DEF Greetings, rest
  <2>2. /\ g \in Seq(M) /\ Len(g) = Len(<<Shm>>) + Len(rest)
        /\ \A i \in 1..Len(<<Shm>>) + Len(rest) :
             g[i] = IF i <= Len(<<Shm>>) THEN <<Shm>>[i] ELSE rest[i - Len(<<Shm>>)]
    BY <1>4, <1>5, <2>1, SMT
  <2>3. Len(rest) \in Nat
    BY <1>4, SMT
  <2> QED BY <1>5, <2>2, <2>3, SMT DEF M
<1> QED BY <1>6, <1>7

\* A message that is taken: the rest of the queue is the queue, one further.
LEMMA TakenFacts ==
  ASSUME NEW M, NEW q \in Seq(M), q # <<>>
  PROVE  /\ Head(q) = q[1] /\ Head(q) \in M /\ Tail(q) \in Seq(M)
         /\ Len(q) \in Nat \ {0} /\ Len(Tail(q)) = Len(q) - 1
         /\ \A k \in 1..Len(Tail(q)) : k + 1 \in 2..Len(q) /\ Tail(q)[k] = q[k + 1]
<1>1. Len(q) \in Nat \ {0}
  BY SMT
<1>2. /\ Head(q) \in M /\ Tail(q) \in Seq(M) /\ Len(Tail(q)) = Len(q) - 1
      /\ \A k \in 1..Len(Tail(q)) : Tail(q)[k] = q[k + 1]
  BY SMT
<1>3. Head(q) = q[1]
  BY SMT
<1> QED BY <1>1, <1>2, <1>3, SMT

\* Messages that are added come behind the ones in the queue.
LEMMA AddedFacts ==
  ASSUME NEW M, NEW q \in Seq(M), NEW t \in Seq(M)
  PROVE  /\ q \o t \in Seq(M) /\ Len(q) \in Nat /\ Len(t) \in Nat
         /\ Len(q \o t) = Len(q) + Len(t)
         /\ \A k \in 1..Len(q) : (q \o t)[k] = q[k]
         /\ \A k \in 1..Len(q \o t) : k > Len(q) =>
              k - Len(q) \in 1..Len(t) /\ (q \o t)[k] = t[k - Len(q)]
<1>1. Len(q) \in Nat /\ Len(t) \in Nat
  BY SMT
<1> QED BY <1>1, SMT

LEMMA AppendFacts ==
  ASSUME NEW M, NEW q \in Seq(M), NEW m \in M
  PROVE  /\ Append(q, m) \in Seq(M) /\ Len(q) \in Nat /\ Len(Append(q, m)) = Len(q) + 1
         /\ \A k \in 1..Len(q) : Append(q, m)[k] = q[k]
         /\ Append(q, m)[Len(q) + 1] = m
<1>1. Len(q) \in Nat
  BY SMT
<1> QED BY <1>1, SMT
-----------------------------------------------------------------------------
(***************************************************************************)
(* Devices.                                                                *)
(***************************************************************************)
LEMMA OffTyped ==
  /\ Off \in DevType /\ Off.phase = "off" /\ Off.other = None /\ Off.closed = {}
  /\ Off.nb_peers = InitPeers /\ \A i \in Ids : Off.nb[i] = 0
BY PeersConstants, IdFacts, SMT DEF Off, DevType, Phases

\* A device that starts with id i.
LEMMA StartedFacts ==
  ASSUME NEW i \in Ids
  PROVE  LET d == [Off EXCEPT !.phase = "setup", !.id = i]
         IN  /\ d \in DevType /\ d.phase = "setup" /\ d.id = i /\ d.other = None
             /\ d.nb_peers = InitPeers /\ d.closed = {} /\ \A j \in Ids : d.nb[j] = 0
BY OffTyped DEF DevType, Phases

\* What a handler may do to a device and leaves alone.
LEMMA PhaseFacts ==
  ASSUME NEW d \in DevType, NEW p \in Phases
  PROVE  LET e == [d EXCEPT !.phase = p]
         IN  /\ e \in DevType /\ e.phase = p /\ e.id = d.id /\ e.other = d.other
             /\ e.nb_peers = d.nb_peers /\ e.nb = d.nb /\ e.closed = d.closed
BY DEF DevType

LEMMA OtherFacts ==
  ASSUME NEW d \in DevType, NEW i \in Ids
  PROVE  LET e == [d EXCEPT !.other = i]
         IN  /\ e \in DevType /\ e.phase = d.phase /\ e.id = d.id /\ e.other = i
             /\ e.nb_peers = d.nb_peers /\ e.nb = d.nb /\ e.closed = d.closed
BY DEF DevType

LEMMA ResizeFacts ==
  ASSUME NEW d \in DevType, NEW i \in Ids
  PROVE  LET e == Resize(d, i)
         IN  /\ e \in DevType /\ e.phase = d.phase /\ e.id = d.id /\ e.other = d.other
             /\ e.nb_peers >= d.nb_peers /\ i < e.nb_peers
             /\ e.nb = d.nb /\ e.closed = d.closed
BY IdFacts, SMT DEF DevType, Resize

LEMMA CountedFacts ==
  ASSUME NEW d \in DevType, NEW i \in Ids, d.nb[i] < Vectors
  PROVE  LET e == [d EXCEPT !.nb[i] = @ + 1]
         IN  /\ e \in DevType /\ e.phase = d.phase /\ e.id = d.id /\ e.other = d.other
             /\ e.nb_peers = d.nb_peers /\ e.closed = d.closed
             /\ \A j \in Ids : e.nb[j] = IF j = i THEN d.nb[i] + 1 ELSE d.nb[j]
<1> DEFINE n == [d.nb EXCEPT ![i] = @ + 1]
<1>1. d.nb \in [Ids -> 0..Vectors]
  BY DEF DevType
<1>2. n \in [Ids -> 0..Vectors] /\ \A j \in Ids : n[j] = IF j = i THEN d.nb[i] + 1 ELSE d.nb[j]
  BY <1>1, PeersConstants, SMT
<1>3. [d EXCEPT !.nb[i] = @ + 1] = [d EXCEPT !.nb = n]
  BY DEF DevType
<1> HIDE DEF n
<1> QED BY <1>2, <1>3 DEF DevType

LEMMA ConnectedFacts ==
  ASSUME NEW v \in VM, dev[v] \in DevType, NEW i \in Ids, dev[v].nb[i] < Vectors
  PROVE  LET e == Connected(v, i)
             d == dev[v]
         IN  /\ e \in DevType /\ e.phase = d.phase /\ e.id = d.id /\ e.other = d.other
             /\ e.nb_peers >= d.nb_peers /\ i < e.nb_peers /\ e.closed = d.closed
             /\ \A j \in Ids : e.nb[j] = IF j = i THEN d.nb[i] + 1 ELSE d.nb[j]
<1>1. PICK r : /\ r = Resize(dev[v], i) /\ r \in DevType /\ r.phase = dev[v].phase
               /\ r.id = dev[v].id /\ r.other = dev[v].other
               /\ r.nb_peers >= dev[v].nb_peers /\ i < r.nb_peers
               /\ r.nb = dev[v].nb /\ r.closed = dev[v].closed
  BY ResizeFacts, SMT
<1>2. Connected(v, i) = [r EXCEPT !.nb[i] = @ + 1]
  BY <1>1 DEF Connected
<1> QED BY <1>1, <1>2, CountedFacts, SMT

LEMMA ClosedFacts ==
  ASSUME NEW d \in DevType, NEW i \in Ids
  PROVE  LET e == Closed(d, i)
         IN  /\ e \in DevType /\ e.phase = d.phase /\ e.id = d.id /\ e.other = d.other
             /\ e.nb_peers = d.nb_peers /\ e.closed = d.closed \cup {i}
             /\ \A j \in Ids : e.nb[j] = IF j = i THEN 0 ELSE d.nb[j]
<1> DEFINE n == [d.nb EXCEPT ![i] = 0]
           c == d.closed \cup {i}
<1>1. d.nb \in [Ids -> 0..Vectors] /\ c \in SUBSET Ids
  BY DEF DevType
<1>2. n \in [Ids -> 0..Vectors] /\ \A j \in Ids : n[j] = IF j = i THEN 0 ELSE d.nb[j]
  BY <1>1, PeersConstants, SMT
<1>3. Closed(d, i) = [d EXCEPT !.nb = n, !.closed = c]
  BY DEF DevType, Closed
<1> HIDE DEF n, c
<1>4. LET e == [d EXCEPT !.nb = n, !.closed = c]
      IN  /\ e \in DevType /\ e.phase = d.phase /\ e.id = d.id /\ e.other = d.other
          /\ e.nb_peers = d.nb_peers /\ e.closed = c /\ e.nb = n
  BY <1>1, <1>2 DEF DevType
<1> QED BY <1>2, <1>3, <1>4 DEF c

\* idt_peer_eventfd_ready takes the other id only when it is not the own one.
LEMMA LearnFacts ==
  ASSUME NEW v \in VM, NEW d \in DevType, id_shared \in [VM -> Ids]
  PROVE  LET e == Learn(v, d)
         IN  /\ e \in DevType /\ e.phase = d.phase /\ e.id = d.id
             /\ e.nb_peers = d.nb_peers /\ e.nb = d.nb /\ e.closed = d.closed
             /\ e.other = d.other \/ e.other # d.id
<1>1. id_shared[Peer(v)] \in Ids
  BY PeerFacts
<1> QED BY <1>1, OtherFacts DEF Learn

LEMMA IntroducedFacts ==
  ASSUME NEW v \in VM, NEW d \in DevType, id_shared \in [VM -> Ids]
  PROVE  LET e == Introduced(v, d)
         IN  /\ e \in DevType /\ e.phase = d.phase /\ e.id = d.id
             /\ e.nb_peers = d.nb_peers /\ e.nb = d.nb /\ e.closed = d.closed
             /\ e.other = IF v = 2 THEN id_shared[Peer(v)] ELSE d.other
<1>1. id_shared[Peer(v)] \in Ids
  BY PeerFacts
<1> QED BY <1>1, OtherFacts, SMT DEF Introduced

\* The kick: the device has learned, and at most the eventfds of one client,
\* which the device takes for the peer, are signalled.
LEMMA KickFacts ==
  ASSUME NEW v \in VM, dev \in [VM -> DevType], NEW d \in DevType,
         id_shared \in [VM -> Ids], NEW e \in EfdType, NEW pending, Kick(v, d, e, pending)
  PROVE  /\ dev' = [dev EXCEPT ![v] = Learn(v, d)] /\ efd' \in EfdType
         /\ \A i \in Ids : "VM_ID" \in efd'[i] <=> "VM_ID" \in e[i]
<1>1. PICK l : l = Learn(v, d) /\ l \in DevType
  BY LearnFacts
<1>2. /\ dev' = [dev EXCEPT ![v] = l]
      /\ efd' = IF Ready(l, 1) /\ pending
                THEN [e EXCEPT ![l.other] = @ \cup {"INTERRUPT_HOST"}] ELSE e
  BY <1>1 DEF Kick
<1>3. Ready(l, 1) => l.other \in Ids
  BY <1>1 DEF Ready, DevType
<1> QED BY <1>1, <1>2, <1>3 DEF EfdType
-----------------------------------------------------------------------------
(***************************************************************************)
(* Types.                                                                  *)
(***************************************************************************)
LEMMA TypeInit == Init => TypeOK
<1> SUFFICES ASSUME Init PROVE TypeOK
  OBVIOUS
<1>1. <<>> \in Seq(Messages)
  BY SMT
<1> QED BY <1>1, OffTyped, IdFacts, TypeSplit, PeersConstants, SMT
        DEF Init, EfdType, NoneWaiting

\* The eventfd that is stored completes the own setup, the peer's, or nothing.
LEMMA ConnectFacts ==
  ASSUME TypeOK, NEW v \in VM, NEW i \in Ids, NEW d \in DevType, Connect(v, i, d)
  PROVE  \/ /\ i = d.id /\ d.nb[i] = 2
            /\ id_shared' = [id_shared EXCEPT ![v] = d.id]
            /\ dev' = [dev EXCEPT ![v] = Learn(v, Introduced(v, d))]
            /\ efd' \in EfdType
            /\ \A j \in Ids : "VM_ID" \in efd'[j] <=>
                 "VM_ID" \in efd[j] \/ (v = 2 /\ j = id_shared[1] /\ d.nb[j] > 0)
         \/ /\ i # d.id /\ dev' = [dev EXCEPT ![v] = Learn(v, d)]
            /\ efd' \in EfdType /\ UNCHANGED id_shared
            /\ \A j \in Ids : "VM_ID" \in efd'[j] <=> "VM_ID" \in efd[j]
         \/ /\ ~(i = d.id /\ d.nb[i] = 2)
            /\ dev' = [dev EXCEPT ![v] = d] /\ UNCHANGED <<id_shared, efd>>
<1>a. dev \in [VM -> DevType] /\ id_shared \in [VM -> Ids] /\ efd \in EfdType
  BY TypeSplit
<1>b. v = 2 => Peer(v) = 1
  BY SMT DEF Peer
<1>1. CASE d.nb[i] = 2 /\ i = d.id
  <2>1. /\ id_shared' = [id_shared EXCEPT ![v] = d.id]
        /\ Kick(v, Introduced(v, d), Introduce(v, d), PeerPending(v))
    BY <1>1 DEF Connect
  <2>2. Introduced(v, d) \in DevType
    BY <1>a, IntroducedFacts
  <2>3. id_shared[Peer(v)] \in Ids
    BY <1>a, PeerFacts
  <2>4. /\ Introduce(v, d) \in EfdType
        /\ \A j \in Ids : "VM_ID" \in Introduce(v, d)[j] <=>
             "VM_ID" \in efd[j] \/ (v = 2 /\ j = id_shared[1] /\ d.nb[j] > 0)
    BY <1>a, <1>b, <2>3, SMT DEF Introduce, EfdType
  <2>5. /\ dev' = [dev EXCEPT ![v] = Learn(v, Introduced(v, d))] /\ efd' \in EfdType
        /\ \A j \in Ids : "VM_ID" \in efd'[j] <=> "VM_ID" \in Introduce(v, d)[j]
    BY <1>a, <2>1, <2>2, <2>4, KickFacts
  <2> QED BY <1>1, <2>1, <2>4, <2>5
<1>2. CASE d.nb[i] = 2 /\ i # d.id /\ Running(v)
  <2>1. Kick(v, d, efd, PeerPending(v)) /\ UNCHANGED id_shared
    BY <1>2 DEF Connect
  <2> QED BY <1>a, <1>2, <2>1, KickFacts
<1>3. CASE ~(d.nb[i] = 2 /\ i = d.id) /\ ~(d.nb[i] = 2 /\ i # d.id /\ Running(v))
  BY <1>3 DEF Connect
<1> QED BY <1>1, <1>2, <1>3

\* A device is told of an eventfd: refused, a fault, or stored.
LEMMA MsgConnectFacts ==
  ASSUME TypeOK, NEW v \in VM, MsgConnect(v)
  PROVE  LET i == Head(inbox[v]).id
             q == dev[v]
         IN  /\ i \in Ids
             /\ \/ /\ q.nb[i] >= Vectors /\ UNCHANGED <<id_shared, efd>>
                   /\ \E p \in {q.phase, "failed"} : dev' = [dev EXCEPT ![v] = [q EXCEPT !.phase = p]]
                \/ /\ q.nb[i] < Vectors /\ ConnectFaults(v, i) /\ UNCHANGED <<id_shared, efd>>
                   /\ dev' = [dev EXCEPT ![v] = [q EXCEPT !.phase = "fault"]]
                \/ /\ q.nb[i] < Vectors /\ ~ConnectFaults(v, i)
                   /\ Connect(v, i, Connected(v, i))
<1> DEFINE i == Head(inbox[v]).id
<1>1. i \in Ids /\ dev[v] \in DevType
  <2>1. inbox[v] \in Seq(Messages) /\ inbox[v] # <<>> /\ dev[v] \in DevType
    BY TypeSplit DEF MsgConnect, Read
  <2>2. Head(inbox[v]) \in Messages
    BY <2>1, TakenFacts
  <2> QED BY <2>1, <2>2, MessageFacts
<1>2. dev[v].nb[i] \in 0..Vectors
  BY <1>1 DEF DevType
<1>3. CASE dev[v].nb[i] >= Vectors
  BY <1>1, <1>2, <1>3, PeersConstants DEF MsgConnect
<1>4. CASE dev[v].nb[i] < Vectors /\ ConnectFaults(v, i)
  BY <1>1, <1>2, <1>4, PeersConstants DEF MsgConnect
<1>5. CASE dev[v].nb[i] < Vectors /\ ~ConnectFaults(v, i)
  BY <1>1, <1>2, <1>5, PeersConstants DEF MsgConnect
<1>6. dev[v].nb[i] >= Vectors \/ dev[v].nb[i] < Vectors
  BY <1>2, PeersConstants, SMT
<1> QED BY <1>3, <1>4, <1>5, <1>6

LEMMA TypeStep == TypeOK /\ [Next]_vars => TypeOK'
<1> SUFFICES ASSUME TypeOK, [Next]_vars PROVE TypeOK'
  OBVIOUS
<1>a. /\ dev \in [VM -> DevType] /\ inbox \in [VM -> Seq(Messages)]
      /\ id_shared \in [VM -> Ids] /\ masked \in BOOLEAN
      /\ intsts \in [VM -> BOOLEAN] /\ efd \in EfdType
      /\ next_id \in 0..MaxIds /\ owner \in [Ids -> VM \cup {0}]
      /\ waiting \in [VM -> BOOLEAN]
  BY TypeSplit
<1>b. NoneWaiting \in [VM -> BOOLEAN]
  BY DEF NoneWaiting
<1>c. ASSUME NEW v \in VM, NEW kind, Read(v, kind), Consume(v)
      PROVE  inbox' \in [VM -> Seq(Messages)]
  <2>1. inbox[v] \in Seq(Messages) /\ inbox[v] # <<>>
    BY <1>a, <1>c DEF Read
  <2>2. Tail(inbox[v]) \in Seq(Messages)
    BY <2>1, TakenFacts
  <2> QED BY <1>a, <1>c, <2>2 DEF Consume
<1>d. ASSUME NEW v \in VM
      PROVE  dev[v] \in DevType /\ dev[v].id \in Ids
  BY <1>a DEF DevType
<1>0. CASE UNCHANGED vars
  BY <1>0, <1>a, TypeNext DEF vars, shared
<1>1. ASSUME NEW v \in VM, Start(v) PROVE TypeOK'
  <2>1. next_id \in Ids /\ next_id + 1 \in 0..MaxIds
    BY <1>1, IdFacts DEF Start
  <2>2. dev' \in [VM -> DevType]
    <3>1. [Off EXCEPT !.phase = "setup", !.id = next_id] \in DevType
      BY <2>1, StartedFacts
    <3> QED BY <1>a, <1>1, <3>1 DEF Start
  <2>3. PICK g \in Greetings(v) :
          inbox' = [inbox EXCEPT ![v] = g,
                      ![Peer(v)] = IF Up(Peer(v)) THEN @ \o ConnAll(next_id) ELSE @]
    BY <1>1 DEF Start
  <2>4. g \in Seq(Messages)
    <3>1. Said(v) \subseteq Messages
      BY <1>d, <2>1, MessageFacts, PeerFacts, SMT DEF Said
    <3> QED BY <2>3, <3>1, GreetingFacts, SMT
  <2>5. \A w \in VM : inbox[w] \o ConnAll(next_id) \in Seq(Messages)
    BY <1>a, <2>1, ConnAllFacts, MessageFacts, SMT
  <2>6. inbox' \in [VM -> Seq(Messages)]
    BY <1>a, <2>3, <2>4, <2>5, PeerFacts
  <2>7. owner' \in [Ids -> VM \cup {0}] /\ next_id' = next_id + 1
    BY <1>a, <1>1, <2>1 DEF Start
  <2>8. UNCHANGED <<id_shared, masked, intsts, efd, waiting>>
    BY <1>1 DEF Start, shared
  <2> QED BY <1>a, <2>1, <2>2, <2>6, <2>7, <2>8, TypeNext
<1>2. ASSUME NEW v \in VM, Kill(v) PROVE TypeOK'
  <2>1. dev' \in [VM -> DevType]
    BY <1>a, <1>2, OffTyped DEF Kill
  <2>2. \A w \in VM : Append(inbox[w], Gone(dev[v].id)) \in Seq(Messages)
    BY <1>a, <1>d, MessageFacts, AppendFacts
  <2>a. <<>> \in Seq(Messages)
    BY SMT
  <2>3. inbox' \in [VM -> Seq(Messages)]
    BY <1>a, <1>2, <2>2, <2>a, PeerFacts DEF Kill
  <2>4. waiting' = NoneWaiting /\ UNCHANGED <<id_shared, masked, intsts, efd, next_id, owner>>
    BY <1>2 DEF Kill, shared
  <2> QED BY <1>a, <1>b, <2>1, <2>3, <2>4, TypeNext
<1>3. ASSUME NEW v \in VM, MsgShmem(v) PROVE TypeOK'
  <2>1. inbox' \in [VM -> Seq(Messages)]
    BY <1>3, <1>c DEF MsgShmem
  <2>2. [dev[v] EXCEPT !.phase = "run"] \in DevType
    BY <1>d, PhaseFacts DEF Phases
  <2>3. dev' \in [VM -> DevType]
    BY <1>a, <1>3, <2>2 DEF MsgShmem
  <2>4. /\ waiting' = NoneWaiting /\ masked' = TRUE
        /\ UNCHANGED <<id_shared, intsts, efd, next_id, owner>>
    BY <1>3 DEF MsgShmem
  <2> QED BY <1>a, <1>b, <2>1, <2>3, <2>4, TypeNext
<1>4. ASSUME NEW v \in VM, MsgConnect(v) PROVE TypeOK'
  <2>1. inbox' \in [VM -> Seq(Messages)]
    BY <1>4, <1>c DEF MsgConnect
  <2>2. UNCHANGED <<masked, intsts, next_id, owner, waiting>>
    BY <1>4 DEF MsgConnect
  <2> DEFINE i == Head(inbox[v]).id
             q == dev[v]
             d == Connected(v, i)
  <2>3. /\ i \in Ids
        /\ \/ /\ UNCHANGED <<id_shared, efd>>
              /\ \E p \in {q.phase, "failed", "fault"} :
                   dev' = [dev EXCEPT ![v] = [q EXCEPT !.phase = p]]
           \/ q.nb[i] < Vectors /\ Connect(v, i, d)
    BY <1>4, MsgConnectFacts
  <2>4. /\ q \in DevType /\ \A p \in {q.phase, "failed", "fault"} : p \in Phases
    BY <1>d DEF DevType, Phases
  <2> HIDE DEF i
  <2>5. CASE /\ UNCHANGED <<id_shared, efd>>
             /\ \E p \in {q.phase, "failed", "fault"} :
                  dev' = [dev EXCEPT ![v] = [q EXCEPT !.phase = p]]
    <3>1. dev' \in [VM -> DevType]
      BY <1>a, <2>4, <2>5, PhaseFacts, SMT
    <3> QED BY <1>a, <2>1, <2>2, <2>5, <3>1, TypeNext
  <2>6. CASE q.nb[i] < Vectors /\ Connect(v, i, d)
    <3>1. d \in DevType
      BY <1>d, <2>3, <2>6, ConnectedFacts
    <3> HIDE DEF d
    <3>2. Learn(v, d) \in DevType /\ Learn(v, Introduced(v, d)) \in DevType /\ d.id \in Ids
      BY <1>a, <3>1, LearnFacts, IntroducedFacts DEF DevType
    <3>3. /\ \E x \in DevType : dev' = [dev EXCEPT ![v] = x]
          /\ id_shared' = id_shared \/ id_shared' = [id_shared EXCEPT ![v] = d.id]
          /\ efd' \in EfdType
      BY <1>a, <2>3, <2>6, <3>1, <3>2, ConnectFacts
    <3> QED BY <1>a, <2>1, <2>2, <3>2, <3>3, TypeNext
  <2> QED BY <2>3, <2>5, <2>6
<1>5. ASSUME NEW v \in VM, MsgDisconnect(v) PROVE TypeOK'
  <2>1. inbox' \in [VM -> Seq(Messages)]
    BY <1>5, <1>c DEF MsgDisconnect
  <2>2. inbox[v] \in Seq(Messages) /\ inbox[v] # <<>>
    BY <1>a, <1>5 DEF MsgDisconnect, Read
  <2>3. Head(inbox[v]).id \in Ids
    BY <2>2, TakenFacts, MessageFacts
  <2>4. Closed(Resize(dev[v], Head(inbox[v]).id), Head(inbox[v]).id) \in DevType
    BY <1>d, <2>3, ResizeFacts, ClosedFacts
  <2>5. dev' \in [VM -> DevType]
    BY <1>a, <1>5, <2>4 DEF MsgDisconnect
  <2>6. UNCHANGED <<id_shared, masked, intsts, efd, next_id, owner, waiting>>
    BY <1>5 DEF MsgDisconnect, shared
  <2> QED BY <1>a, <2>1, <2>5, <2>6, TypeNext
\* A device that kicks.
<1>e. ASSUME NEW v \in VM, NEW d \in DevType, NEW e \in EfdType, NEW pending,
             Kick(v, d, e, pending)
      PROVE  dev' \in [VM -> DevType] /\ efd' \in EfdType
  <2>1. dev' = [dev EXCEPT ![v] = Learn(v, d)] /\ efd' \in EfdType
    BY <1>a, <1>e, KickFacts
  <2>2. Learn(v, d) \in DevType
    BY <1>a, LearnFacts
  <2> QED BY <1>a, <2>1, <2>2
<1>6. ASSUME NEW v \in VM, VmIdEvent(v) PROVE TypeOK'
  <2>1. [dev[v] EXCEPT !.other = id_shared[Peer(v)]] \in DevType
    BY <1>a, <1>d, PeerFacts, OtherFacts
  <2>2. Cleared(v, "VM_ID") \in EfdType
    BY <1>a, <1>d DEF Cleared, EfdType
  <2>3. dev' \in [VM -> DevType] /\ efd' \in EfdType
    BY <1>6, <1>e, <2>1, <2>2 DEF VmIdEvent
  <2> QED BY <1>a, <1>6, <2>3, TypeNext DEF VmIdEvent, shared
<1>7. ASSUME NEW v \in VM, HostEvent(v) PROVE TypeOK'
  <2>1. efd' \in EfdType /\ waiting' \in [VM -> BOOLEAN]
    BY <1>a, <1>d, <1>7 DEF HostEvent, Cleared, EfdType
  <2> QED BY <1>a, <1>7, <2>1, TypeNext DEF HostEvent, shared
<1>8. ASSUME NEW v \in VM, Raise(v) PROVE TypeOK'
  <2>1. dev' \in [VM -> DevType] /\ efd' \in EfdType
    BY <1>a, <1>d, <1>8, <1>e DEF Raise
  <2>2. intsts' \in [VM -> BOOLEAN] /\ waiting' \in [VM -> BOOLEAN]
    BY <1>a, <1>8, PeerFacts DEF Raise, Running, FirstLife
  <2> QED BY <1>a, <1>8, <2>1, <2>2, TypeNext DEF Raise
<1>9. ASSUME NEW v \in VM, BarConfigChanged(v) PROVE TypeOK'
  <2>1. PICK l : l = Learn(v, dev[v]) /\ l \in DevType
    BY <1>a, <1>d, LearnFacts
  <2>2. Ready(l, 0) => l.other \in Ids
    BY <2>1 DEF Ready, DevType
  <2>3. /\ dev' = [dev EXCEPT ![v] = l]
        /\ efd' = IF Ready(l, 0) THEN [efd EXCEPT ![l.other] = @ \cup {"VM_ID"}] ELSE efd
        /\ UNCHANGED <<inbox, id_shared, masked, intsts, next_id, owner, waiting>>
    BY <1>9, <2>1 DEF BarConfigChanged, shared
  <2>4. efd' \in EfdType
    BY <1>a, <2>2, <2>3 DEF EfdType
  <2>5. dev' \in [VM -> DevType]
    BY <1>a, <2>1, <2>3
  <2> QED BY <1>a, <2>3, <2>4, <2>5, TypeNext
<1>10. ASSUME NEW v \in VM, NEW m \in BOOLEAN, SetIntMask(v, m) PROVE TypeOK'
  BY <1>a, <1>b, <1>10, TypeNext DEF SetIntMask
<1>11. ASSUME NEW v \in VM, IntStsClear(v) PROVE TypeOK'
  BY <1>a, <1>11, TypeNext DEF IntStsClear
<1> QED
  BY <1>0, <1>1, <1>2, <1>3, <1>4, <1>5, <1>6, <1>7, <1>8, <1>9, <1>10, <1>11
     DEF Next, MainLoop, Guest

\* The variables keep their types; in particular a device never counts more
\* eventfds of a client than its vectors, and other_vm_id is unset or an id.
THEOREM PeersTypeCorrect == Spec => []TypeOK
<1> QED BY TypeInit, TypeStep, PTL DEF Spec
-----------------------------------------------------------------------------
(***************************************************************************)
(* Who signals whom.  A device has the eventfds of its own client and of   *)
(* the peer's clients, so SignalsPeer needs that other_vm_id is never the  *)
(* own id.  What is read from the shared region is no evidence by itself:  *)
(* id_shared[2] is zero, the id of VM1, until VM2 has published its own.   *)
(* VM1 takes it on a VM_ID event, and that is raised only after VM2 has    *)
(* published; id_shared[1] is an id of VM1 from the start, since VM1       *)
(* connects first.                                                         *)
(***************************************************************************)
DevOk(v, d, q, o) ==
  /\ o[d.id] = v /\ d.other # d.id
  /\ \A i \in Ids : d.nb[i] > 0 => i = d.id \/ o[i] = Peer(v)
  /\ \A k \in 1..Len(q) : q[k].kind = "conn" => q[k].id = d.id \/ o[q[k].id] = Peer(v)

OwnersInv ==
  /\ \A i \in Ids : owner[i] # 0 => i < next_id
  /\ \A i \in Ids : owner[i] = 0 => "VM_ID" \notin efd[i]
  /\ next_id > 0 => owner[0] = 1 /\ owner[id_shared[1]] = 1
  /\ next_id = 0 => id_shared[1] = 0
PublishedInv ==
  /\ Up(2) /\ dev[2].nb[dev[2].id] >= 2 => owner[id_shared[2]] = 2
  /\ \A i \in Ids : owner[i] = 1 /\ "VM_ID" \in efd[i] => owner[id_shared[2]] = 2
DevicesInv == \A v \in VM : Up(v) => DevOk(v, dev[v], inbox[v], owner)
PairInv == OwnersInv /\ PublishedInv /\ DevicesInv

LEMMA PairMeans == TypeOK /\ PairInv => SignalsPeer
<1> SUFFICES ASSUME TypeOK, PairInv, NEW v \in VM, Running(v), Ready(dev[v], 0)
             PROVE  owner[dev[v].other] = Peer(v)
  BY DEF SignalsPeer
<1>1. dev[v] \in DevType /\ DevOk(v, dev[v], inbox[v], owner)
  BY TypeSplit DEF PairInv, DevicesInv, Up, Running
<1>2. dev[v].other \in Ids /\ dev[v].nb[dev[v].other] > 0
  BY <1>1 DEF Ready, DevType
<1> QED BY <1>1, <1>2 DEF DevOk

\* A step in which v's device becomes d and its queue q, the peer's device stays
\* and its queue as well, and the owners stay.
LEMMA DevicesFrom ==
  ASSUME DevicesInv, NEW v \in VM, dev'[Peer(v)] = dev[Peer(v)],
         inbox'[Peer(v)] = inbox[Peer(v)], UNCHANGED owner,
         Up(v)' => DevOk(v, dev'[v], inbox'[v], owner)
  PROVE  DevicesInv'
<1>1. Up(Peer(v))' = Up(Peer(v))
  BY DEF Up
<1>2. Up(Peer(v))' => DevOk(Peer(v), dev'[Peer(v)], inbox'[Peer(v)], owner)
  BY <1>1, PeerFacts DEF DevicesInv
<1> QED BY <1>2, TwoVMs DEF DevicesInv

\* Taking a message keeps the queue's promise.
LEMMA DevOkTaken ==
  ASSUME NEW v \in VM, NEW d, NEW q \in Seq(Messages), q # <<>>, NEW o, DevOk(v, d, q, o)
  PROVE  /\ DevOk(v, d, Tail(q), o)
         /\ Head(q).kind = "conn" => Head(q).id = d.id \/ o[Head(q).id] = Peer(v)
<1>1. /\ Head(q) = q[1] /\ Len(q) \in Nat \ {0}
      /\ \A k \in 1..Len(Tail(q)) : k + 1 \in 2..Len(q) /\ Tail(q)[k] = q[k + 1]
  BY TakenFacts
<1> QED BY <1>1, SMT DEF DevOk

\* A device that keeps its id and its counts, or gets one more eventfd.
LEMMA DevOkFrom ==
  ASSUME NEW v \in VM, NEW d, NEW e, NEW q, NEW o, DevOk(v, d, q, o), e.id = d.id,
         e.other # e.id,
         \A i \in Ids : e.nb[i] > 0 => d.nb[i] > 0 \/ i = d.id \/ o[i] = Peer(v)
  PROVE  DevOk(v, e, q, o)
BY DEF DevOk

\* The ids that v may take for the peer's.
LEMMA SharedIds ==
  ASSUME TypeOK, PairInv, NEW v \in VM, Up(v)
  PROVE  /\ next_id > 0
         /\ v = 2 => id_shared[1] # dev[v].id
         /\ v = 1 /\ "VM_ID" \in efd[dev[v].id] => id_shared[2] # dev[v].id
<1>1. dev[v].id \in Ids /\ owner[dev[v].id] = v /\ v # 0
  <2>1. dev[v] \in DevType
    BY TypeSplit
  <2>2. DevOk(v, dev[v], inbox[v], owner)
    BY DEF PairInv, DevicesInv
  <2> QED BY <2>1, <2>2, SMT DEF DevType, DevOk, VM
<1>2. next_id > 0
  <2>1. dev[v].id < next_id /\ dev[v].id \in Nat
    BY <1>1, IdFacts DEF PairInv, OwnersInv
  <2>2. next_id \in 0..MaxIds
    BY TypeSplit
  <2> QED BY <2>1, <2>2, PeersConstants, SMT
<1> QED BY <1>1, <1>2, SMT DEF PairInv, OwnersInv, PublishedInv

\* What a step of v's device has to show, when no id is given and none published.
LEMMA PairFrom ==
  ASSUME PairInv, NEW v \in VM, UNCHANGED <<owner, next_id, id_shared>>,
         dev'[Peer(v)] = dev[Peer(v)], inbox'[Peer(v)] = inbox[Peer(v)],
         Up(v)' => /\ DevOk(v, dev'[v], inbox'[v], owner)
                   /\ v = 2 /\ dev'[v].nb[dev'[v].id] >= 2 => owner[id_shared[2]] = 2,
         \A i \in Ids : "VM_ID" \in efd'[i] =>
           \/ "VM_ID" \in efd[i]
           \/ owner[i] = Peer(v) /\ (v = 2 => owner[id_shared[2]] = 2)
  PROVE  PairInv'
<1>1. DevicesInv'
  BY DevicesFrom DEF PairInv
<1>2. OwnersInv'
  BY PeerFacts, SMT DEF PairInv, OwnersInv, VM
<1>3. Up(2)' /\ dev'[2].nb[dev'[2].id] >= 2 => owner[id_shared[2]] = 2
  <2>1. CASE v = 2
    BY <2>1
  <2>2. CASE v = 1
    <3>1. Peer(v) = 2
      BY <2>2, SMT DEF Peer
    <3> QED BY <3>1 DEF PairInv, PublishedInv, Up
  <2> QED BY <2>1, <2>2 DEF VM
<1>4. ASSUME NEW i \in Ids, owner[i] = 1, "VM_ID" \in efd'[i]
      PROVE  owner[id_shared[2]] = 2
  <2>1. v = 1 => Peer(v) = 2
    BY SMT DEF Peer
  <2> QED BY <1>4, <2>1 DEF PairInv, PublishedInv, VM
<1> QED BY <1>1, <1>2, <1>3, <1>4 DEF PairInv, PublishedInv

\* An id is given out.
LEMMA PairStart ==
  ASSUME TypeOK, PairInv, NEW v \in VM, Start(v)
  PROVE  PairInv'
<1> DEFINE w == Peer(v)
           n == next_id
           d == [Off EXCEPT !.phase = "setup", !.id = n]
<1>a. /\ dev \in [VM -> DevType] /\ inbox \in [VM -> Seq(Messages)] /\ efd \in EfdType
      /\ id_shared \in [VM -> Ids] /\ owner \in [Ids -> VM \cup {0}] /\ next_id \in 0..MaxIds
      /\ w \in VM /\ w # v /\ Peer(w) = v
  BY TypeSplit, PeerFacts
<1>b. /\ n \in Ids /\ n \in Nat /\ (v = 1 \/ n > 0) /\ UNCHANGED <<id_shared, efd>>
      /\ next_id' = n + 1
  BY IdFacts DEF Start, shared
<1>c. owner[n] = 0 /\ \A i \in Ids : owner'[i] = IF i = n THEN v ELSE owner[i]
  <2>1. owner' = [owner EXCEPT ![n] = v]
    BY DEF Start
  <2> QED BY <1>a, <1>b, <2>1, SMT DEF PairInv, OwnersInv
<1>d. dev'[v] = d /\ dev'[w] = dev[w]
  BY <1>a DEF Start
<1>e. d.phase = "setup" /\ d.id = n /\ d.other = None /\ \A j \in Ids : d.nb[j] = 0
  BY <1>b, StartedFacts
<1>f. PICK g \in Greetings(v) :
        inbox' = [inbox EXCEPT ![v] = g,
                    ![w] = IF Up(w) THEN @ \o ConnAll(n) ELSE @]
  BY DEF Start
<1>g. inbox'[v] = g /\ inbox'[w] = IF Up(w) THEN inbox[w] \o ConnAll(n) ELSE inbox[w]
  BY <1>a, <1>f
<1>h. Up(w) => DevOk(w, dev[w], inbox[w], owner) /\ dev[w].id \in Ids
  BY <1>a DEF PairInv, DevicesInv, DevType
<1> HIDE DEF d
<1>1. OwnersInv'
  <2>1. \A i \in Ids : owner'[i] # 0 => i < n + 1
    <3>1. \A i \in Ids : owner'[i] # 0 => i < n \/ i = n
      BY <1>b, <1>c DEF PairInv, OwnersInv
    <3> QED BY <1>b, <3>1, IdFacts, SMT
  <2>2. \A i \in Ids : owner'[i] = 0 => "VM_ID" \notin efd[i]
    BY <1>c DEF PairInv, OwnersInv, VM
  <2>3. owner'[0] = 1 /\ owner'[id_shared[1]] = 1
    <3>1. id_shared[1] \in Ids
      BY <1>a DEF VM
    <3>2. CASE n = 0
      BY <1>b, <1>c, <3>1, <3>2, IdFacts, SMT DEF PairInv, OwnersInv
    <3>3. CASE n > 0
      <4>1. owner[0] = 1 /\ owner[id_shared[1]] = 1
        BY <3>3 DEF PairInv, OwnersInv
      <4>2. 0 # n /\ id_shared[1] # n
        BY <1>c, <3>3, <4>1, SMT
      <4> QED BY <1>c, <3>1, <4>1, <4>2, IdFacts
    <3> QED BY <1>b, <3>2, <3>3, SMT
  <2>4. n + 1 # 0
    BY <1>b, SMT
  <2> QED BY <1>b, <2>1, <2>2, <2>3, <2>4 DEF OwnersInv
<1>2. PublishedInv'
  <2>0. id_shared[2] \in Ids /\ (owner[id_shared[2]] = 2 => owner'[id_shared[2]] = 2)
    BY <1>a, <1>c, SMT DEF VM
  <2>1. ASSUME Up(2)', dev'[2].nb[dev'[2].id] >= 2 PROVE owner'[id_shared[2]] = 2
    <3>1. v # 2
      BY <1>b, <1>d, <1>e, <2>1, SMT
    <3>2. w = 2
      BY <3>1, SMT DEF VM, Peer
    <3> QED BY <1>d, <2>0, <2>1, <3>2 DEF PairInv, PublishedInv, Up
  <2>2. ASSUME NEW i \in Ids, owner'[i] = 1, "VM_ID" \in efd[i]
        PROVE  owner'[id_shared[2]] = 2
    BY <1>c, <2>0, <2>2 DEF PairInv, PublishedInv, OwnersInv
  <2> QED BY <1>b, <2>1, <2>2 DEF PublishedInv
<1>3. DevOk(v, d, g, owner')
  <2>1. g \in Seq(Said(v))
    BY <1>f, GreetingFacts
  <2>2. ASSUME NEW k \in 1..Len(g), g[k].kind = "conn"
        PROVE  g[k].id = n \/ owner'[g[k].id] = w
    <3>1. g[k] \in Said(v)
      BY <2>1, <2>2, SMT
    <3>2. CASE g[k] = Shm
      BY <2>2, <3>2, MessageFacts
    <3>3. CASE g[k] = Conn(n)
      BY <1>b, <3>3, MessageFacts
    <3>4. CASE Up(w) /\ g[k] = Conn(dev[w].id)
      <4>1. owner[dev[w].id] = w /\ g[k].id = dev[w].id /\ dev[w].id \in Ids
        BY <1>h, <3>4, MessageFacts DEF DevOk
      <4> QED BY <1>a, <1>c, <4>1 DEF VM
    <3> QED BY <3>1, <3>2, <3>3, <3>4 DEF Said
  <2>3. None # n
    BY <1>b, IdFacts
  <2> QED BY <1>b, <1>c, <1>e, <2>2, <2>3, SMT DEF DevOk
<1>4. ASSUME Up(w) PROVE DevOk(w, dev[w], inbox'[w], owner')
  <2> DEFINE q == inbox[w]
             t == ConnAll(n)
  <2>1. t \in Seq(Messages) /\ Len(t) = ServerVectors /\ \A k \in 1..ServerVectors : t[k] = Conn(n)
    BY <1>b, ConnAllFacts, MessageFacts, SMT
  <2>2. q \in Seq(Messages) /\ \A k \in 1..Len(q) : q[k] \in Messages
    BY <1>a, SMT
  <2>3. \A i \in Ids : i = dev[w].id \/ owner[i] = v => i = dev[w].id \/ owner'[i] = v
    BY <1>c
  <2>4. ASSUME NEW k \in 1..Len(q \o t), (q \o t)[k].kind = "conn"
        PROVE  (q \o t)[k].id = dev[w].id \/ owner'[(q \o t)[k].id] = v
    <3> HIDE DEF q, t
    <3>1. /\ Len(q) \in Nat /\ Len(q \o t) = Len(q) + Len(t)
          /\ k <= Len(q) => (q \o t)[k] = q[k]
          /\ k > Len(q) => k - Len(q) \in 1..Len(t) /\ (q \o t)[k] = t[k - Len(q)]
      <4>1. /\ Len(q) \in Nat /\ Len(t) \in Nat /\ Len(q \o t) = Len(q) + Len(t)
            /\ \A j \in 1..Len(q) : (q \o t)[j] = q[j]
            /\ \A j \in 1..Len(q \o t) : j > Len(q) =>
                 j - Len(q) \in 1..Len(t) /\ (q \o t)[j] = t[j - Len(q)]
        BY <2>1, <2>2, AddedFacts
      <4> QED BY <4>1, SMT
    <3>2. CASE k <= Len(q)
      <4>1. (q \o t)[k] = q[k] /\ q[k] \in Messages
        BY <2>2, <3>1, <3>2, SMT
      <4>2. q[k].id = dev[w].id \/ owner[q[k].id] = v
        BY <1>4, <1>a, <1>h, <2>4, <3>1, <3>2, <4>1, SMT DEF DevOk, q
      <4> QED BY <2>3, <4>1, <4>2, MessageFacts, SMT
    <3>3. CASE k > Len(q)
      <4>1. (q \o t)[k] = Conn(n)
        BY <2>1, <3>1, <3>3
      <4> QED BY <1>b, <1>c, <4>1, MessageFacts, SMT
    <3> QED BY <3>1, <3>2, <3>3, SMT
  <2>5. owner'[dev[w].id] = w /\ dev[w].other # dev[w].id
    BY <1>4, <1>a, <1>c, <1>h, SMT DEF DevOk, VM
  <2>6. \A i \in Ids : dev[w].nb[i] > 0 => i = dev[w].id \/ owner'[i] = v
    BY <1>4, <1>a, <1>h, <2>3 DEF DevOk
  <2>7. inbox'[w] = q \o t
    BY <1>4, <1>g
  <2> HIDE DEF q, t
  <2> QED BY <1>a, <2>4, <2>5, <2>6, <2>7 DEF DevOk
<1>5. DevicesInv'
  <2>1. Up(v)' => DevOk(v, dev'[v], inbox'[v], owner')
    BY <1>3, <1>d, <1>g
  <2>2. Up(w)' => DevOk(w, dev'[w], inbox'[w], owner')
    BY <1>4, <1>d DEF Up
  <2> QED BY <2>1, <2>2, TwoVMs DEF DevicesInv
<1> QED BY <1>1, <1>2, <1>5 DEF PairInv

\* The second eventfd of the own client: the id is published.
LEMMA PairPublish ==
  ASSUME TypeOK, PairInv, NEW v \in VM, Up(v), NEW d \in DevType,
         d.id = dev[v].id, d.phase = dev[v].phase, d.other = dev[v].other,
         \A j \in Ids : d.nb[j] > 0 => dev[v].nb[j] > 0 \/ j = d.id \/ owner[j] = Peer(v),
         inbox'[Peer(v)] = inbox[Peer(v)], DevOk(v, dev[v], inbox'[v], owner),
         id_shared' = [id_shared EXCEPT ![v] = d.id],
         dev' = [dev EXCEPT ![v] = Learn(v, Introduced(v, d))],
         \A j \in Ids : "VM_ID" \in efd'[j] <=>
           "VM_ID" \in efd[j] \/ (v = 2 /\ j = id_shared[1] /\ d.nb[j] > 0),
         UNCHANGED <<owner, next_id>>
  PROVE  PairInv'
<1> DEFINE w == Peer(v)
           e == Introduced(v, d)
           x == Learn(v, e)
<1>a. /\ dev \in [VM -> DevType] /\ id_shared \in [VM -> Ids] /\ w \in VM /\ w # v
      /\ d.id \in Ids /\ owner[d.id] = v
  <2>1. DevOk(v, dev[v], inbox[v], owner)
    BY DEF PairInv, DevicesInv
  <2> QED BY <2>1, TypeSplit, PeerFacts DEF DevType, DevOk
<1>b. /\ next_id > 0 /\ (v = 2 => id_shared[1] # d.id)
  BY SharedIds
<1>c. /\ e \in DevType /\ e.phase = d.phase /\ e.id = d.id /\ e.nb = d.nb
      /\ e.other = IF v = 2 THEN id_shared[w] ELSE d.other
  BY <1>a, IntroducedFacts, SMT
<1>d. e.other # d.id
  <2>1. v = 2 => w = 1
    BY SMT DEF Peer
  <2>2. dev[v].other # d.id
    BY DEF DevOk
  <2> HIDE DEF e
  <2> QED BY <1>b, <1>c, <2>1, <2>2
<1>e. x \in DevType /\ x.phase = d.phase /\ x.id = d.id /\ x.nb = d.nb /\ x.other # d.id
  <2> HIDE DEF e
  <2>1. /\ x \in DevType /\ x.phase = e.phase /\ x.id = e.id /\ x.nb = e.nb
        /\ x.other = e.other \/ x.other # e.id
    BY <1>a, <1>c, LearnFacts
  <2> HIDE DEF x
  <2> QED BY <1>c, <1>d, <2>1
<1> HIDE DEF x, e
<1>f. dev'[v] = x /\ dev'[w] = dev[w]
  BY <1>a DEF x, e
<1>g. id_shared'[v] = d.id /\ id_shared'[w] = id_shared[w]
  BY <1>a
<1>1. DevicesInv'
  <2>1. DevOk(v, x, inbox'[v], owner)
    BY <1>e, DevOkFrom, SMT
  <2> QED BY <1>f, <2>1, DevicesFrom DEF PairInv
<1>2. id_shared'[1] \in Ids /\ owner[id_shared'[1]] = 1 /\ owner[id_shared[1]] = 1
  <2>1. owner[id_shared[1]] = 1
    BY <1>b DEF PairInv, OwnersInv
  <2>2. v = 1 \/ w = 1
    BY SMT DEF VM, Peer
  <2> QED BY <1>a, <1>g, <2>1, <2>2 DEF VM
<1>3. OwnersInv'
  <2>1. \A i \in Ids : owner[i] = 0 => "VM_ID" \notin efd'[i]
    BY <1>2, SMT DEF PairInv, OwnersInv
  <2>2. next_id # 0 /\ owner[0] = 1 /\ \A i \in Ids : owner[i] # 0 => i < next_id
    BY <1>b, SMT DEF PairInv, OwnersInv
  <2> QED BY <1>2, <2>1, <2>2 DEF OwnersInv
<1>4. PublishedInv'
  <2>1. CASE v = 2
    BY <1>a, <1>g, <2>1 DEF PublishedInv
  <2>2. CASE v = 1
    <3>1. w = 2
      BY <2>2, SMT DEF Peer
    <3>2. dev'[2] = dev[2] /\ id_shared'[2] = id_shared[2]
      BY <1>f, <1>g, <3>1
    <3>3. \A j \in Ids : "VM_ID" \in efd'[j] => "VM_ID" \in efd[j]
      BY <2>2, SMT
    <3> QED BY <3>2, <3>3 DEF PairInv, PublishedInv, Up
  <2> QED BY <2>1, <2>2 DEF VM
<1> QED BY <1>1, <1>3, <1>4 DEF PairInv

LEMMA PairConnect ==
  ASSUME TypeOK, PairInv, NEW v \in VM, MsgConnect(v)
  PROVE  PairInv'
<1> DEFINE w == Peer(v)
           q == inbox[v]
           i == Head(q).id
           z == dev[v]
<1>a. /\ dev \in [VM -> DevType] /\ id_shared \in [VM -> Ids] /\ w \in VM /\ w # v
      /\ z \in DevType /\ q \in Seq(Messages) /\ inbox \in [VM -> Seq(Messages)]
  BY TypeSplit, PeerFacts
<1>b. /\ Up(v) /\ q # <<>> /\ Head(q).kind = "conn" /\ UNCHANGED <<owner, next_id>>
      /\ inbox'[v] = Tail(q) /\ inbox'[w] = inbox[w]
  BY <1>a DEF MsgConnect, Read, Consume
<1>c. DevOk(v, z, Tail(q), owner) /\ (i = z.id \/ owner[i] = w)
  <2>1. DevOk(v, z, q, owner)
    BY <1>b DEF PairInv, DevicesInv
  <2> HIDE DEF q, z
  <2> QED BY <1>a, <1>b, <2>1, DevOkTaken
<1>d. v = 2 /\ z.nb[z.id] >= 2 => owner[id_shared[2]] = 2
  BY <1>b DEF PairInv, PublishedInv
<1>e. /\ i \in Ids
      /\ \/ /\ UNCHANGED <<id_shared, efd>>
            /\ \E p \in {z.phase, "failed", "fault"} :
                 dev' = [dev EXCEPT ![v] = [z EXCEPT !.phase = p]]
         \/ z.nb[i] < Vectors /\ Connect(v, i, Connected(v, i))
  BY MsgConnectFacts
<1> HIDE DEF i
\* A step that keeps the counts, up to one eventfd of client i.
<1>f. ASSUME NEW x \in DevType, dev' = [dev EXCEPT ![v] = x], UNCHANGED id_shared,
             x.id = z.id, x.other # z.id,
             \A j \in Ids : x.nb[j] > 0 => z.nb[j] > 0 \/ j = i,
             x.nb[z.id] >= 2 => z.nb[z.id] >= 2,
             \A j \in Ids : "VM_ID" \in efd'[j] => "VM_ID" \in efd[j]
      PROVE  PairInv'
  <2>1. dev'[v] = x /\ dev'[w] = dev[w]
    BY <1>a, <1>f
  <2>2. DevOk(v, x, Tail(q), owner)
    BY <1>c, <1>f, DevOkFrom
  <2>3. v = 2 /\ x.nb[x.id] >= 2 => owner[id_shared[2]] = 2
    BY <1>d, <1>f
  <2> QED BY <1>b, <1>f, <2>1, <2>2, <2>3, PairFrom
<1>1. ASSUME NEW p \in {z.phase, "failed", "fault"},
             dev' = [dev EXCEPT ![v] = [z EXCEPT !.phase = p]], UNCHANGED <<id_shared, efd>>
      PROVE  PairInv'
  <2>1. p \in Phases
    BY <1>a DEF DevType, Phases
  <2>2. PICK x : /\ x = [z EXCEPT !.phase = p] /\ x \in DevType /\ x.id = z.id
                 /\ x.other = z.other /\ x.nb = z.nb
    <3>1. LET x == [z EXCEPT !.phase = p]
          IN  x \in DevType /\ x.id = z.id /\ x.other = z.other /\ x.nb = z.nb
      <4> HIDE DEF z
      <4> QED BY <1>a, <2>1, PhaseFacts
    <3> QED BY <3>1
  <2>3. z.other # z.id
    BY <1>c DEF DevOk
  <2> QED BY <1>1, <1>f, <2>2, <2>3
<1>2. ASSUME z.nb[i] < Vectors, Connect(v, i, Connected(v, i)) PROVE PairInv'
  <2>1. PICK d : /\ d = Connected(v, i) /\ d \in DevType /\ d.phase = z.phase
                 /\ d.id = z.id /\ d.other = z.other
                 /\ \A j \in Ids : d.nb[j] = IF j = i THEN z.nb[i] + 1 ELSE z.nb[j]
    BY <1>2, <1>a, <1>e, ConnectedFacts, SMT
  <2>2. z.other # z.id /\ z.id \in Ids /\ z.nb[i] \in 0..Vectors /\ z.nb[z.id] \in 0..Vectors
    BY <1>a, <1>c, <1>e DEF DevOk, DevType
  <2>3. Connect(v, i, d)
    BY <1>2, <2>1
  <2>4. \A j \in Ids : d.nb[j] > 0 => z.nb[j] > 0 \/ j = i
    BY <2>1
  <2>5. CASE /\ i = d.id
             /\ id_shared' = [id_shared EXCEPT ![v] = d.id]
             /\ dev' = [dev EXCEPT ![v] = Learn(v, Introduced(v, d))]
             /\ \A j \in Ids : "VM_ID" \in efd'[j] <=>
                  "VM_ID" \in efd[j] \/ (v = 2 /\ j = id_shared[1] /\ d.nb[j] > 0)
    <3>1. \A j \in Ids : d.nb[j] > 0 => z.nb[j] > 0 \/ j = d.id \/ owner[j] = w
      BY <2>4, <2>5
    <3>2. d \in DevType /\ d.id = dev[v].id /\ d.phase = dev[v].phase /\ d.other = dev[v].other
      BY <2>1
    <3>3. /\ DevOk(v, dev[v], inbox'[v], owner) /\ inbox'[Peer(v)] = inbox[Peer(v)] /\ Up(v)
          /\ UNCHANGED <<owner, next_id>>
      BY <1>b, <1>c
    <3> HIDE DEF q
    <3> QED BY <2>5, <3>1, <3>2, <3>3, PairPublish
  <2>6. CASE /\ i # d.id /\ dev' = [dev EXCEPT ![v] = Learn(v, d)] /\ UNCHANGED id_shared
             /\ \A j \in Ids : "VM_ID" \in efd'[j] <=> "VM_ID" \in efd[j]
    <3>1. PICK x : /\ x = Learn(v, d) /\ x \in DevType /\ x.id = d.id /\ x.nb = d.nb
                   /\ x.other = d.other \/ x.other # d.id
      <4>1. LET x == Learn(v, d)
            IN  /\ x \in DevType /\ x.id = d.id /\ x.nb = d.nb
                /\ x.other = d.other \/ x.other # d.id
        BY <1>a, <2>1, LearnFacts
      <4> QED BY <4>1
    <3>2. x.other # z.id
      BY <2>1, <2>2, <3>1
    <3>3. x.nb[z.id] = z.nb[z.id]
      BY <2>1, <2>2, <2>6, <3>1
    <3>4. /\ dev' = [dev EXCEPT ![v] = x] /\ x.id = z.id
          /\ \A j \in Ids : x.nb[j] > 0 => z.nb[j] > 0 \/ j = i
      BY <2>1, <2>4, <2>6, <3>1
    <3> HIDE DEF z
    <3> QED BY <1>f, <2>6, <3>1, <3>2, <3>3, <3>4
  <2>7. CASE /\ ~(i = d.id /\ d.nb[i] = 2)
             /\ dev' = [dev EXCEPT ![v] = d] /\ UNCHANGED <<id_shared, efd>>
    <3>1. d.nb[z.id] >= 2 => z.nb[z.id] >= 2
      BY <2>1, <2>2, <2>7, PeersConstants, SMT
    <3> QED BY <1>f, <2>1, <2>2, <2>4, <2>7, <3>1
  <2> QED BY <1>e, <2>1, <2>3, <2>5, <2>6, <2>7, ConnectFacts, SMT
<1> QED BY <1>1, <1>2, <1>e

LEMMA PairStep == TypeOK /\ PairInv /\ [Next]_vars => PairInv'
<1> SUFFICES ASSUME TypeOK, PairInv, [Next]_vars PROVE PairInv'
  OBVIOUS
<1>a. /\ dev \in [VM -> DevType] /\ id_shared \in [VM -> Ids] /\ efd \in EfdType
      /\ inbox \in [VM -> Seq(Messages)]
  BY TypeSplit
<1>b. ASSUME NEW v \in VM
      PROVE  /\ dev[v] \in DevType /\ inbox[v] \in Seq(Messages) /\ dev[v].id \in Ids
             /\ Peer(v) \in VM /\ Peer(v) # v /\ Peer(Peer(v)) = v
             /\ Up(v) => DevOk(v, dev[v], inbox[v], owner)
             /\ v = 2 /\ Up(v) /\ dev[v].nb[dev[v].id] >= 2 => owner[id_shared[2]] = 2
  BY <1>a, PeerFacts DEF DevType, PairInv, DevicesInv, PublishedInv
\* A step of a running device that keeps its counts.
<1>c. ASSUME NEW v \in VM, Up(v), UNCHANGED <<owner, next_id, id_shared>>,
             NEW x \in DevType, dev' = [dev EXCEPT ![v] = x], x.id = dev[v].id,
             x.other # x.id, \A i \in Ids : x.nb[i] > 0 => x.nb[i] = dev[v].nb[i],
             inbox'[Peer(v)] = inbox[Peer(v)],
             DevOk(v, dev[v], inbox'[v], owner),
             \A i \in Ids : "VM_ID" \in efd'[i] =>
               \/ "VM_ID" \in efd[i]
               \/ owner[i] = Peer(v) /\ (v = 2 => owner[id_shared[2]] = 2)
      PROVE  PairInv'
  <2>1. dev'[v] = x /\ dev'[Peer(v)] = dev[Peer(v)]
    BY <1>a, <1>b, <1>c
  <2>2. DevOk(v, x, inbox'[v], owner)
    BY <1>c, DevOkFrom
  <2>3. v = 2 /\ x.nb[x.id] >= 2 => owner[id_shared[2]] = 2
    <3>1. x.nb[x.id] >= 2 => x.nb[x.id] > 0
      BY <1>b, <1>c, SMT DEF DevType
    <3> QED BY <1>b, <1>c, <3>1, SMT
  <2> QED BY <1>c, <2>1, <2>2, <2>3, PairFrom
<1>d. ASSUME NEW v \in VM, NEW kind, Read(v, kind), Consume(v)
      PROVE  /\ Up(v) /\ inbox'[Peer(v)] = inbox[Peer(v)]
             /\ DevOk(v, dev[v], inbox'[v], owner) /\ Head(inbox[v]).id \in Ids
  <2>1. /\ Up(v) /\ inbox[v] # <<>> /\ inbox'[v] = Tail(inbox[v])
        /\ inbox'[Peer(v)] = inbox[Peer(v)]
    BY <1>a, <1>b, <1>d DEF Read, Consume
  <2>2. DevOk(v, dev[v], Tail(inbox[v]), owner)
    BY <1>b, <2>1, DevOkTaken
  <2>3. Head(inbox[v]) \in Messages
    BY <1>b, <2>1, TakenFacts
  <2> QED BY <2>1, <2>2, <2>3, MessageFacts
<1>0. CASE UNCHANGED vars
  BY <1>0 DEF vars, shared, PairInv, OwnersInv, PublishedInv, DevicesInv, Up
<1>1. ASSUME NEW v \in VM, Start(v) PROVE PairInv'
  BY <1>1, PairStart
<1>2. ASSUME NEW v \in VM, Kill(v) PROVE PairInv'
  <2> DEFINE w == Peer(v)
             m == Gone(dev[v].id)
  <2>1. /\ dev'[v] = Off /\ dev'[w] = dev[w] /\ UNCHANGED <<id_shared, efd, next_id, owner>>
        /\ inbox'[w] = IF Up(w) THEN Append(inbox[w], m) ELSE inbox[w]
    BY <1>a, <1>b, <1>2 DEF Kill, shared
  <2>2. ~Up(v)' /\ Up(w)' = Up(w)
    BY <2>1, OffTyped DEF Up
  <2>3. m \in Messages /\ m.kind = "gone"
    BY <1>b, MessageFacts
  <2>4. ASSUME Up(w) PROVE DevOk(w, dev[w], Append(inbox[w], m), owner)
    <3> HIDE DEF m
    <3>1. DevOk(w, dev[w], inbox[w], owner) /\ inbox[w] \in Seq(Messages)
      BY <1>b, <2>4
    <3>2. /\ Len(inbox[w]) \in Nat /\ Len(Append(inbox[w], m)) = Len(inbox[w]) + 1
          /\ \A k \in 1..Len(inbox[w]) : Append(inbox[w], m)[k] = inbox[w][k]
          /\ Append(inbox[w], m)[Len(inbox[w]) + 1] = m
      BY <2>3, <3>1, AppendFacts, SMT
    <3> QED BY <2>3, <3>1, <3>2, SMT DEF DevOk
  <2>5. DevicesInv'
    BY <2>1, <2>2, <2>4, TwoVMs DEF DevicesInv
  <2>6. OwnersInv'
    BY <2>1 DEF PairInv, OwnersInv
  <2>7. PublishedInv'
    <3>1. Up(2)' => Up(2) /\ dev'[2] = dev[2]
      BY <2>1, <2>2, TwoVMs DEF VM
    <3> QED BY <2>1, <3>1 DEF PairInv, PublishedInv
  <2> QED BY <2>5, <2>6, <2>7 DEF PairInv
<1>3. ASSUME NEW v \in VM, MsgShmem(v) PROVE PairInv'
  <2>1. /\ Read(v, "shm") /\ Consume(v) /\ UNCHANGED <<id_shared, efd, next_id, owner>>
        /\ dev' = [dev EXCEPT ![v] = [dev[v] EXCEPT !.phase = "run"]]
    BY <1>3 DEF MsgShmem
  <2>2. LET x == [dev[v] EXCEPT !.phase = "run"]
        IN  x \in DevType /\ x.id = dev[v].id /\ x.other = dev[v].other /\ x.nb = dev[v].nb
    BY <1>b, PhaseFacts DEF Phases
  <2>3. PICK x : /\ x = [dev[v] EXCEPT !.phase = "run"] /\ x \in DevType
                 /\ x.id = dev[v].id /\ x.other = dev[v].other /\ x.nb = dev[v].nb
    BY <2>2
  <2>4. /\ Up(v) /\ inbox'[Peer(v)] = inbox[Peer(v)] /\ DevOk(v, dev[v], inbox'[v], owner)
    BY <1>d, <2>1
  <2>5. x.other # x.id
    BY <2>3, <2>4 DEF DevOk
  <2> QED BY <1>c, <2>1, <2>3, <2>4, <2>5
<1>4. ASSUME NEW v \in VM, MsgConnect(v) PROVE PairInv'
  BY <1>4, PairConnect
<1>5. ASSUME NEW v \in VM, MsgDisconnect(v) PROVE PairInv'
  <2> DEFINE i == Head(inbox[v]).id
  <2>1. /\ Read(v, "gone") /\ Consume(v) /\ UNCHANGED <<id_shared, efd, next_id, owner>>
        /\ dev' = [dev EXCEPT ![v] = Closed(Resize(dev[v], i), i)]
    BY <1>5 DEF MsgDisconnect, shared
  <2>2. /\ Up(v) /\ inbox'[Peer(v)] = inbox[Peer(v)] /\ DevOk(v, dev[v], inbox'[v], owner)
        /\ i \in Ids
    BY <1>d, <2>1
  <2> HIDE DEF i
  <2>3. LET r == Resize(dev[v], i)
        IN  r \in DevType /\ r.id = dev[v].id /\ r.other = dev[v].other /\ r.nb = dev[v].nb
    BY <1>b, <2>2, ResizeFacts
  <2>4. PICK r : /\ r = Resize(dev[v], i) /\ r \in DevType /\ r.id = dev[v].id
                 /\ r.other = dev[v].other /\ r.nb = dev[v].nb
    BY <2>3
  <2>5. LET x == Closed(r, i)
        IN  /\ x \in DevType /\ x.id = r.id /\ x.other = r.other
            /\ \A j \in Ids : x.nb[j] = IF j = i THEN 0 ELSE r.nb[j]
    BY <2>2, <2>4, ClosedFacts
  <2>6. PICK x : /\ x = Closed(r, i) /\ x \in DevType /\ x.id = r.id /\ x.other = r.other
                 /\ \A j \in Ids : x.nb[j] = IF j = i THEN 0 ELSE r.nb[j]
    BY <2>5
  <2>7. x.id = dev[v].id /\ x.other # x.id
    BY <2>2, <2>4, <2>6 DEF DevOk
  <2>8. \A j \in Ids : x.nb[j] > 0 => x.nb[j] = dev[v].nb[j]
    BY <2>4, <2>6, SMT
  <2> QED BY <1>c, <2>1, <2>2, <2>4, <2>6, <2>7, <2>8
\* A kick: d is the device before, with another other_vm_id perhaps.
<1>e. ASSUME NEW v \in VM, Running(v), UNCHANGED <<owner, next_id, id_shared, inbox>>,
             NEW d \in DevType, d.id = dev[v].id, d.nb = dev[v].nb, d.other # d.id,
             NEW e \in EfdType, \A i \in Ids : "VM_ID" \in e[i] => "VM_ID" \in efd[i],
             NEW pending, Kick(v, d, e, pending)
      PROVE  PairInv'
  <2>1. /\ dev' = [dev EXCEPT ![v] = Learn(v, d)]
        /\ \A i \in Ids : "VM_ID" \in efd'[i] <=> "VM_ID" \in e[i]
    BY <1>a, <1>e, KickFacts
  <2>2. LET x == Learn(v, d)
        IN  /\ x \in DevType /\ x.id = d.id /\ x.nb = d.nb
            /\ x.other = d.other \/ x.other # d.id
    BY <1>a, LearnFacts
  <2>3. PICK x : /\ x = Learn(v, d) /\ x \in DevType /\ x.id = d.id /\ x.nb = d.nb
                 /\ x.other = d.other \/ x.other # d.id
    BY <2>2
  <2>4. Up(v) /\ DevOk(v, dev[v], inbox[v], owner)
    BY <1>b, <1>e DEF Up, Running
  <2> QED BY <1>c, <1>e, <2>1, <2>3, <2>4
<1>6. ASSUME NEW v \in VM, VmIdEvent(v) PROVE PairInv'
  <2> DEFINE w == Peer(v)
             d == [dev[v] EXCEPT !.other = id_shared[w]]
             e == Cleared(v, "VM_ID")
  <2>1. /\ Running(v) /\ "VM_ID" \in efd[dev[v].id] /\ Kick(v, d, e, PeerPending(v))
        /\ UNCHANGED <<owner, next_id, id_shared, inbox>>
    BY <1>6 DEF VmIdEvent, Signalled, shared
  <2>2. id_shared[w] \in Ids
    BY <1>a, <1>b
  <2>3. d \in DevType /\ d.id = dev[v].id /\ d.nb = dev[v].nb /\ d.other = id_shared[w]
    BY <1>b, <2>2, OtherFacts, SMT
  <2>4. id_shared[w] # dev[v].id
    <3>1. (v = 2 /\ w = 1) \/ (v = 1 /\ w = 2)
      BY SMT DEF VM, Peer
    <3>2. Up(v)
      BY <2>1 DEF Up, Running
    <3> QED BY <2>1, <3>1, <3>2, SharedIds
  <2>5. e \in EfdType /\ \A i \in Ids : "VM_ID" \in e[i] => "VM_ID" \in efd[i]
    BY <1>a, <1>b DEF Cleared, EfdType
  <2> HIDE DEF d, e
  <2> QED BY <1>e, <2>1, <2>3, <2>4, <2>5
<1>7. ASSUME NEW v \in VM, HostEvent(v) PROVE PairInv'
  <2>1. /\ UNCHANGED <<dev, inbox, id_shared, next_id, owner>>
        /\ \A i \in Ids : "VM_ID" \in efd'[i] <=> "VM_ID" \in efd[i]
    BY <1>a, <1>b, <1>7 DEF HostEvent, Cleared, EfdType, shared
  <2> QED BY <2>1 DEF PairInv, OwnersInv, PublishedInv, DevicesInv, Up
<1>8. ASSUME NEW v \in VM, Raise(v) PROVE PairInv'
  <2>1. /\ Running(v) /\ Kick(v, dev[v], efd, TRUE)
        /\ UNCHANGED <<owner, next_id, id_shared, inbox>>
    BY <1>8 DEF Raise, Booted
  <2>2. dev[v].other # dev[v].id
    BY <1>b, <2>1 DEF Up, Running, DevOk
  <2> QED BY <1>a, <1>b, <1>e, <2>1, <2>2
<1>9. ASSUME NEW v \in VM, BarConfigChanged(v) PROVE PairInv'
  <2>1. LET x == Learn(v, dev[v])
        IN  /\ x \in DevType /\ x.id = dev[v].id /\ x.nb = dev[v].nb
            /\ x.other = dev[v].other \/ x.other # dev[v].id
    BY <1>a, <1>b, LearnFacts
  <2>2. PICK x : /\ x = Learn(v, dev[v]) /\ x \in DevType /\ x.id = dev[v].id
                 /\ x.nb = dev[v].nb
                 /\ x.other = dev[v].other \/ x.other # dev[v].id
    BY <2>1
  <2>3. /\ dev' = [dev EXCEPT ![v] = x] /\ UNCHANGED <<inbox, id_shared, next_id, owner>>
        /\ efd' = IF Ready(x, 0) THEN [efd EXCEPT ![x.other] = @ \cup {"VM_ID"}] ELSE efd
        /\ Running(v) /\ dev[v].nb[dev[v].id] = Vectors
    BY <1>9, <2>2 DEF BarConfigChanged, shared, Booted
  <2>4. Up(v) /\ DevOk(v, dev[v], inbox[v], owner)
    BY <1>b, <2>3 DEF Up, Running
  <2>5. x.other # x.id
    BY <2>2, <2>4 DEF DevOk
  <2>6. Ready(x, 0) => x.other \in Ids /\ owner[x.other] = Peer(v)
    <3>1. Ready(x, 0) => x.other \in Ids /\ x.nb[x.other] > 0
      BY <2>2 DEF Ready, DevType
    <3> QED BY <2>2, <2>4, <2>5, <3>1 DEF DevOk
  <2>7. v = 2 => owner[id_shared[2]] = 2
    BY <1>b, <2>3, <2>4, PeersConstants
  <2>8. \A i \in Ids : "VM_ID" \in efd'[i] =>
          \/ "VM_ID" \in efd[i]
          \/ owner[i] = Peer(v) /\ (v = 2 => owner[id_shared[2]] = 2)
    BY <1>a, <2>3, <2>6, <2>7 DEF EfdType
  <2> QED BY <1>c, <2>2, <2>3, <2>4, <2>5, <2>8
<1>10. ASSUME NEW v \in VM, NEW m \in BOOLEAN, SetIntMask(v, m) PROVE PairInv'
  BY <1>10 DEF SetIntMask, PairInv, OwnersInv, PublishedInv, DevicesInv, Up
<1>11. ASSUME NEW v \in VM, IntStsClear(v) PROVE PairInv'
  BY <1>11 DEF IntStsClear, PairInv, OwnersInv, PublishedInv, DevicesInv, Up
<1> QED
  BY <1>0, <1>1, <1>2, <1>3, <1>4, <1>5, <1>6, <1>7, <1>8, <1>9, <1>10, <1>11
     DEF Next, MainLoop, Guest

LEMMA PairInit == Init => PairInv
<1> SUFFICES ASSUME Init PROVE PairInv
  OBVIOUS
<1>1. \A v \in VM : ~Up(v)
  BY OffTyped DEF Init, Up
<1>2. OwnersInv
  BY IdFacts, SMT DEF Init, OwnersInv, VM
<1>3. PublishedInv
  BY <1>1 DEF Init, PublishedInv, VM
<1> QED BY <1>1, <1>2, <1>3 DEF PairInv, DevicesInv

\* A device signals eventfds of the peer VM only, never its own: with any number
\* of vectors and clients, any size of the peer table, any order of the server's
\* messages, and any restarts of both VMs.
THEOREM OnlyPeersSignalled == Spec => []SignalsPeer
<1>1. Init => PairInv
  BY PairInit
<1>2. TypeOK /\ PairInv /\ [Next]_vars => PairInv'
  BY PairStep
<1>3. TypeOK /\ PairInv => SignalsPeer
  BY PairMeans
<1> QED BY <1>1, <1>2, <1>3, PeersTypeCorrect, PTL DEF Spec
-----------------------------------------------------------------------------
(***************************************************************************)
(* Connecting, with a server that sends the shared memory first and a peer *)
(* table with room for every id.  The queue of a device keeps the promises *)
(* that process_msg relies on without looking: the shared memory comes     *)
(* before any eventfd, no eventfd of a client follows its disconnect, and  *)
(* the device's own eventfds precede every disconnect.                     *)
(***************************************************************************)
MsgOk(d, q, n) ==
  /\ d.phase = "setup" => Len(q) > 0 /\ q[1].kind = "shm"
  /\ d.nb_peers >= InitPeers
  /\ \A i \in d.closed : i < n
  /\ \A k \in 1..Len(q) : q[k].kind # "shm" => q[k].id < n
  /\ \A k \in 1..Len(q) : q[k].kind = "conn" =>
       /\ q[k].id \notin d.closed
       /\ q[k].id = d.id => d.closed = {}
       /\ \A j \in 1..(k - 1) :
            q[j].kind = "gone" => q[j].id # q[k].id /\ q[k].id # d.id

SetupInv ==
  \A v \in VM : /\ dev[v].phase # "fault"
                /\ Up(v) => MsgOk(dev[v], inbox[v], next_id)

LEMMA MsgOkFrom ==
  ASSUME NEW d \in DevType, NEW e \in DevType, NEW q, NEW n, MsgOk(d, q, n),
         e.phase = d.phase \/ e.phase = "run", e.id = d.id, e.closed = d.closed,
         e.nb_peers >= d.nb_peers
  PROVE  MsgOk(e, q, n)
<1>1. e.nb_peers >= InitPeers
  BY PeersConstants, SMT DEF MsgOk, DevType
<1>2. e.phase = "setup" => d.phase = "setup"
  OBVIOUS
<1> QED BY <1>1, <1>2 DEF MsgOk

LEMMA MsgOkTaken ==
  ASSUME NEW d, NEW q \in Seq(Messages), q # <<>>, NEW n, MsgOk(d, q, n), d.phase = "run"
  PROVE  MsgOk(d, Tail(q), n)
<1> DEFINE t == Tail(q)
<1>1. /\ Len(q) \in Nat \ {0} /\ Len(t) = Len(q) - 1
      /\ \A k \in 1..Len(t) : k + 1 \in 2..Len(q) /\ t[k] = q[k + 1]
  BY TakenFacts
<1> HIDE DEF t
<1>2. ASSUME NEW k \in 1..Len(t), t[k].kind # "shm" PROVE t[k].id < n
  BY <1>1, <1>2, SMT DEF MsgOk
<1>3. ASSUME NEW k \in 1..Len(t), t[k].kind = "conn"
      PROVE  /\ t[k].id \notin d.closed /\ (t[k].id = d.id => d.closed = {})
             /\ \A j \in 1..(k - 1) :
                  t[j].kind = "gone" => t[j].id # t[k].id /\ t[k].id # d.id
  <2>1. k + 1 \in 1..Len(q) /\ t[k] = q[k + 1]
    BY <1>1, SMT
  <2>2. ASSUME NEW j \in 1..(k - 1), t[j].kind = "gone"
        PROVE  t[j].id # t[k].id /\ t[k].id # d.id
    <3>1. j \in 1..Len(t) /\ j + 1 \in 1..((k + 1) - 1)
      BY <1>1, SMT
    <3>2. t[j] = q[j + 1]
      BY <1>1, <3>1
    <3> QED BY <1>3, <2>1, <2>2, <3>1, <3>2 DEF MsgOk
  <2> QED BY <1>3, <2>1, <2>2 DEF MsgOk
<1> QED BY <1>2, <1>3 DEF MsgOk, t

\* Another message at the end: the news of a client that went, or an eventfd of
\* a client that nothing was said about before.
LEMMA MsgOkAdded ==
  ASSUME NEW d \in DevType, NEW q \in Seq(Messages), NEW t \in Seq(Messages),
         NEW n \in Nat, NEW m \in Nat, n <= m, MsgOk(d, q, n),
         \A k \in 1..Len(t) :
           \/ t[k].kind = "gone" /\ t[k].id < m /\ Len(t) = 1
           \/ t[k].kind = "conn" /\ t[k].id = n /\ n < m /\ d.id # n
  PROVE  MsgOk(d, q \o t, m)
<1> DEFINE s == q \o t
<1>a. /\ \A k \in 1..Len(q) : q[k] \in Messages
      /\ \A k \in 1..Len(t) : t[k] \in Messages
  BY SMT
<1>0. /\ \A k \in 1..Len(q) : q[k] \in Messages /\ q[k].id \in Nat
      /\ \A k \in 1..Len(t) : t[k] \in Messages /\ t[k].id \in Nat
  BY <1>a, MessageFacts, IdFacts
<1>1. /\ s \in Seq(Messages) /\ Len(q) \in Nat /\ Len(t) \in Nat /\ Len(s) = Len(q) + Len(t)
      /\ \A k \in 1..Len(q) : s[k] = q[k]
      /\ \A k \in 1..Len(s) : k > Len(q) =>
           k - Len(q) \in 1..Len(t) /\ s[k] = t[k - Len(q)]
  BY AddedFacts
<1> HIDE DEF s
<1>2. d.phase = "setup" => Len(s) > 0 /\ s[1].kind = "shm"
  <2>1. ASSUME d.phase = "setup" PROVE Len(s) > 0 /\ s[1].kind = "shm"
    <3>1. Len(q) > 0 /\ q[1].kind = "shm"
      BY <2>1 DEF MsgOk
    <3>2. s[1] = q[1] /\ Len(s) > 0
      BY <1>1, <3>1, SMT
    <3> QED BY <3>1, <3>2
  <2> QED BY <2>1
<1>3. \A i \in d.closed : i \in Nat /\ i < m /\ i < n
  BY IdFacts, SMT DEF MsgOk, DevType
<1>4. ASSUME NEW k \in 1..Len(s), s[k].kind # "shm"
      PROVE  s[k].id < m /\ (k <= Len(q) => s[k].id < n)
  <2>1. CASE k <= Len(q)
    <3>1. k \in 1..Len(q) /\ s[k] = q[k]
      BY <1>1, <2>1, SMT
    <3>2. q[k].id < n /\ q[k].id \in Nat
      BY <1>0, <1>4, <3>1 DEF MsgOk
    <3> QED BY <3>1, <3>2, SMT
  <2>2. CASE k > Len(q)
    <3>1. k - Len(q) \in 1..Len(t) /\ s[k] = t[k - Len(q)]
      BY <1>1, <2>2
    <3>2. t[k - Len(q)].id < m
      BY <3>1
    <3>3. Len(q) \in Nat /\ ~(k <= Len(q))
      BY <2>2, SMT
    <3> QED BY <3>1, <3>2, <3>3
  <2> QED BY <2>1, <2>2, SMT
<1>5. ASSUME NEW k \in 1..Len(s), s[k].kind = "conn"
      PROVE  /\ s[k].id \notin d.closed /\ (s[k].id = d.id => d.closed = {})
             /\ \A j \in 1..(k - 1) :
                  s[j].kind = "gone" => s[j].id # s[k].id /\ s[k].id # d.id
  <2>1. CASE k <= Len(q)
    <3>1. k \in 1..Len(q) /\ s[k] = q[k] /\ \A j \in 1..(k - 1) : s[j] = q[j]
      BY <1>1, <2>1, SMT
    <3>2. /\ q[k].id \notin d.closed /\ (q[k].id = d.id => d.closed = {})
          /\ \A j \in 1..(k - 1) :
               q[j].kind = "gone" => q[j].id # q[k].id /\ q[k].id # d.id
      BY <1>5, <3>1 DEF MsgOk
    <3> QED BY <3>1, <3>2
  <2>2. CASE k > Len(q)
    <3>1. k - Len(q) \in 1..Len(t) /\ s[k] = t[k - Len(q)]
      BY <1>1, <2>2
    <3>2. t[k - Len(q)].kind # "gone"
      BY <1>5, <3>1
    <3>3. s[k].id = n /\ d.id # n
      BY <3>1, <3>2
    <3>4. ASSUME NEW j \in 1..(k - 1), s[j].kind = "gone" PROVE s[j].id # n
      <4>1. CASE j <= Len(q)
        <5>1. j \in 1..Len(s)
          BY <1>1, SMT
        <5>2. s[j] = q[j] /\ q[j].id \in Nat /\ s[j].id < n
          BY <1>0, <1>1, <1>4, <3>4, <4>1, <5>1, SMT
        <5> QED BY <5>2, SMT
      <4>2. CASE j > Len(q)
        <5>1. j \in 1..Len(s) /\ j - Len(q) \in 1..Len(t) /\ s[j] = t[j - Len(q)]
          BY <1>1, <4>2, SMT
        <5>2. Len(t) = 1
          BY <3>4, <5>1
        <5> QED BY <1>1, <2>2, <3>1, <4>2, <5>1, <5>2, SMT
      <4> QED BY <1>1, <4>1, <4>2, SMT
    <3> QED BY <1>3, <3>3, <3>4, SMT
  <2> QED BY <1>1, <2>1, <2>2, SMT
<1> QED BY <1>2, <1>3, <1>4, <1>5 DEF MsgOk, s


\* A step of v that leaves the other device alone.
LEMMA SetupFrom ==
  ASSUME SetupInv, NEW v \in VM, UNCHANGED next_id,
         dev'[Peer(v)] = dev[Peer(v)], inbox'[Peer(v)] = inbox[Peer(v)],
         dev'[v].phase # "fault", Up(v)' => MsgOk(dev'[v], inbox'[v], next_id)
  PROVE  SetupInv'
<1> SUFFICES ASSUME NEW w \in VM
             PROVE  /\ dev'[w].phase # "fault"
                    /\ Up(w)' => MsgOk(dev'[w], inbox'[w], next_id')
  BY DEF SetupInv
<1>1. CASE w = v
  BY <1>1
<1>2. CASE w = Peer(v)
  BY <1>2 DEF SetupInv, Up
<1> QED BY <1>1, <1>2, TwoVMs

\* The ids in use were all given out before.
LEMMA IdsBelow ==
  ASSUME TypeOK, PairInv, NEW v \in VM, Up(v)
  PROVE  dev[v].id < next_id
<1>1. dev[v].id \in Ids /\ next_id \in Nat
  BY PeersConstants, SMT DEF TypeOK
<1>2. owner[dev[v].id] = v /\ v # 0
  BY SMT DEF PairInv, DevicesInv, DevOk, VM
<1> QED BY <1>1, <1>2, IdFacts DEF PairInv, OwnersInv

LEMMA SetupStart ==
  ASSUME TypeOK, PairInv, SetupInv, ~AnyOrder, NEW v \in VM, Start(v)
  PROVE  SetupInv'
<1> DEFINE w == Peer(v)
<1>a. /\ dev \in [VM -> DevType] /\ inbox \in [VM -> Seq(Messages)]
      /\ w \in VM /\ w # v /\ next_id \in Ids /\ next_id \in Nat
  BY TypeSplit, PeerFacts, IdFacts DEF Start
<1>1. PICK g \in Greetings(v) :
        inbox' = [inbox EXCEPT ![v] = g, ![w] = IF Up(w) THEN @ \o ConnAll(next_id) ELSE @]
  BY DEF Start
<1>2. /\ inbox'[v] = g
      /\ inbox'[w] = IF Up(w) THEN inbox[w] \o ConnAll(next_id) ELSE inbox[w]
      /\ dev'[v] = [Off EXCEPT !.phase = "setup", !.id = next_id]
      /\ dev'[w] = dev[w] /\ next_id' = next_id + 1
  BY <1>a, <1>1 DEF Start
<1>3. /\ dev'[v].phase = "setup" /\ dev'[v].id = next_id
      /\ dev'[v].nb_peers = InitPeers /\ dev'[v].closed = {}
  BY <1>a, <1>2, StartedFacts
<1>4. MsgOk(dev'[v], g, next_id + 1)
  <2>1. g \in Seq(Said(v)) /\ Len(g) > 0 /\ g[1] = Shm
    BY GreetingFacts
  <2>2. ASSUME NEW k \in 1..Len(g)
        PROVE  g[k].kind # "gone" /\ (g[k].kind # "shm" => g[k].id < next_id + 1)
    <3>1. g[k] \in Said(v)
      BY <2>1, SMT
    <3>2. Up(w) => dev[w].id \in Nat /\ dev[w].id < next_id
      BY <1>a, IdsBelow, IdFacts DEF DevType
    <3>3. \/ g[k] = Shm
          \/ g[k] = Conn(next_id)
          \/ Up(w) /\ g[k] = Conn(dev[w].id)
      BY <3>1 DEF Said
    <3>4. CASE g[k] = Shm
      BY <3>4, SMT DEF Shm
    <3>5. CASE g[k] = Conn(next_id)
      BY <1>a, <3>5, SMT DEF Conn
    <3>6. CASE Up(w) /\ g[k] = Conn(dev[w].id)
      BY <1>a, <3>2, <3>6, SMT DEF Conn
    <3> QED BY <3>3, <3>4, <3>5, <3>6
  <2>3. g[1].kind = "shm"
    BY <2>1, SMT DEF Shm
  <2>4. Len(g) \in Nat
    BY <2>1, SMT
  <2>5. \A k \in 1..Len(g) : \A j \in 1..(k - 1) : g[j].kind # "gone"
    BY <2>2, <2>4, SMT
  <2> QED BY <1>3, <2>1, <2>2, <2>3, <2>5, PeersConstants, SMT DEF MsgOk
<1>5. ASSUME Up(w) PROVE MsgOk(dev[w], inbox[w] \o ConnAll(next_id), next_id + 1)
  <2> DEFINE t == ConnAll(next_id)
  <2>1. Conn(next_id) \in Messages /\ Conn(next_id).kind = "conn" /\ Conn(next_id).id = next_id
    BY <1>a, MessageFacts
  <2>2. /\ t \in Seq(Messages) /\ Len(t) = ServerVectors
        /\ \A k \in 1..ServerVectors : t[k] = Conn(next_id)
    BY <2>1, ConnAllFacts
  <2> HIDE DEF t
  <2>3. dev[w].id # next_id
    BY <1>5, <1>a, IdsBelow, SMT
  <2>4. \A k \in 1..Len(t) : t[k].kind = "conn" /\ t[k].id = next_id
    BY <2>1, <2>2
  <2>5. MsgOk(dev[w], inbox[w], next_id) /\ dev[w] \in DevType /\ inbox[w] \in Seq(Messages)
    BY <1>5, <1>a DEF SetupInv
  <2>6. MsgOk(dev[w], inbox[w] \o t, next_id + 1)
    BY <1>a, <2>2, <2>3, <2>4, <2>5, MsgOkAdded, SMT
  <2> QED BY <2>6 DEF t
<1> SUFFICES ASSUME NEW x \in VM
             PROVE  /\ dev'[x].phase # "fault"
                    /\ Up(x)' => MsgOk(dev'[x], inbox'[x], next_id')
  BY DEF SetupInv
<1>6. CASE x = v
  BY <1>2, <1>3, <1>4, <1>6
<1>7. CASE x = w
  BY <1>a, <1>2, <1>5, <1>7 DEF SetupInv, Up
<1> QED BY <1>6, <1>7, TwoVMs

LEMMA SetupKill ==
  ASSUME TypeOK, PairInv, SetupInv, NEW v \in VM, Kill(v)
  PROVE  SetupInv'
<1> DEFINE w == Peer(v)
           m == Gone(dev[v].id)
<1>a. /\ dev \in [VM -> DevType] /\ inbox \in [VM -> Seq(Messages)]
      /\ w \in VM /\ w # v /\ next_id \in Nat /\ Up(v) /\ dev[v].id \in Ids
  BY TypeSplit, PeerFacts, IdFacts DEF Kill, DevType
<1>1. /\ dev'[v] = Off /\ dev'[w] = dev[w] /\ next_id' = next_id
      /\ inbox'[w] = IF Up(w) THEN Append(inbox[w], m) ELSE inbox[w]
  BY <1>a DEF Kill
<1>2. m \in Messages /\ m.kind = "gone" /\ m.id = dev[v].id /\ m.id < next_id
  BY <1>a, MessageFacts, IdsBelow
<1>3. ASSUME Up(w) PROVE MsgOk(dev[w], Append(inbox[w], m), next_id)
  <2> HIDE DEF m
  <2>1. MsgOk(dev[w], inbox[w], next_id) /\ dev[w] \in DevType /\ inbox[w] \in Seq(Messages)
    BY <1>3, <1>a DEF SetupInv
  <2>0. <<m>> \in Seq(Messages) /\ Len(<<m>>) = 1 /\ <<m>>[1] = m
    BY <1>2, SMT
  <2>2. PICK t : t = <<m>> /\ t \in Seq(Messages) /\ Len(t) = 1 /\ t[1] = m
    BY <2>0
  <2>3. MsgOk(dev[w], inbox[w] \o t, next_id)
    <3>1. \A k \in 1..Len(t) : t[k].kind = "gone" /\ t[k].id < next_id /\ Len(t) = 1
      BY <1>2, <2>2, SMT
    <3>2. next_id <= next_id
      BY <1>a, SMT
    <3> HIDE DEF w
    <3> QED BY <1>a, <2>1, <2>2, <3>1, <3>2, MsgOkAdded
  <2>4. inbox[w] \o <<m>> = Append(inbox[w], m)
    BY <1>2, <2>1, SMT
  <2> QED BY <2>2, <2>3, <2>4
<1> SUFFICES ASSUME NEW x \in VM
             PROVE  /\ dev'[x].phase # "fault"
                    /\ Up(x)' => MsgOk(dev'[x], inbox'[x], next_id')
  BY DEF SetupInv
<1>4. CASE x = v
  BY <1>1, <1>4, OffTyped DEF Up
<1>5. CASE x = w
  BY <1>a, <1>1, <1>3, <1>5 DEF SetupInv, Up
<1> QED BY <1>4, <1>5, TwoVMs

\* An id that has a place in the table is not refused.
LEMMA HasPlace ==
  /\ \A i, n \in Nat : i < n => ~(i >= n)
  /\ \A i \in Ids : \A z, n \in Nat :
       MaxIds <= InitPeers /\ z >= InitPeers /\ n >= z => i < n
BY PeersConstants, SMT DEF Ids

\* No connect message is read too early, or for a client that went.
LEMMA NoFault ==
  ASSUME TypeOK, SetupInv, MaxIds <= InitPeers, NEW v \in VM, Read(v, "conn"),
         NEW i \in Ids, i = Head(inbox[v]).id, dev[v].nb[i] < Vectors
  PROVE  Running(v) /\ ~ConnectFaults(v, i)
<1> DEFINE z == dev[v]
           q == inbox[v]
<1>1. /\ dev \in [VM -> DevType] /\ z \in DevType /\ q \in Seq(Messages)
      /\ id_shared \in [VM -> Ids] /\ Peer(v) \in VM
  BY TypeSplit, PeerFacts
<1>2. Len(q) \in Nat \ {0} /\ 1 \in 1..Len(q) /\ q[1] = Head(q)
  BY <1>1, TakenFacts, SMT DEF Read
<1>3. MsgOk(z, q, next_id) /\ q[1].kind = "conn" /\ q[1].id = i /\ Up(v)
  BY <1>2 DEF Read, SetupInv
<1> HIDE DEF z, q
<1>4. z.phase # "setup" /\ i \notin z.closed /\ (i = z.id => z.closed = {})
  BY <1>2, <1>3 DEF MsgOk
<1>5. Running(v)
  BY <1>3, <1>4 DEF Up, Running, z
<1>c. LET d == Connected(v, i)
      IN  /\ d \in DevType /\ d.id = z.id
          /\ d.nb_peers >= z.nb_peers /\ i < d.nb_peers /\ d.closed = z.closed
  BY <1>1, ConnectedFacts DEF z
<1>6. PICK d : /\ d = Connected(v, i) /\ d \in DevType /\ d.id = z.id
               /\ d.nb_peers >= z.nb_peers /\ i < d.nb_peers /\ d.closed = z.closed
  BY <1>c
<1>d. i \in Nat /\ d.nb_peers \in Nat /\ z.nb_peers \in Nat
  BY <1>1, <1>6, IdFacts DEF DevType
<1>7. ~BadPeer(d, i)
  BY <1>4, <1>6, <1>d, HasPlace DEF BadPeer
<1>8. i = d.id => ~BadPeer(d, id_shared[Peer(v)])
  <2>1. id_shared[Peer(v)] \in Ids /\ id_shared[Peer(v)] \in Nat
    BY <1>1, IdFacts
  <2>2. z.nb_peers >= InitPeers
    BY <1>3 DEF MsgOk
  <2>3. id_shared[Peer(v)] < d.nb_peers
    BY <1>6, <1>d, <2>1, <2>2, HasPlace
  <2> QED BY <1>4, <1>6, <1>d, <2>1, <2>3, HasPlace DEF BadPeer
<1> QED BY <1>5, <1>6, <1>7, <1>8 DEF ConnectFaults

LEMMA SetupConnect ==
  ASSUME TypeOK, SetupInv, MaxIds <= InitPeers, NEW v \in VM, MsgConnect(v)
  PROVE  SetupInv'
<1> DEFINE w == Peer(v)
           q == inbox[v]
           i == Head(q).id
           z == dev[v]
<1>a. /\ dev \in [VM -> DevType] /\ id_shared \in [VM -> Ids] /\ w \in VM /\ w # v
      /\ z \in DevType /\ q \in Seq(Messages) /\ inbox \in [VM -> Seq(Messages)]
  BY TypeSplit, PeerFacts
<1>b. /\ Read(v, "conn") /\ Up(v) /\ q # <<>> /\ next_id' = next_id
      /\ inbox'[v] = Tail(q) /\ inbox'[w] = inbox[w]
  BY <1>a DEF MsgConnect, Read, Consume
<1>c. MsgOk(z, q, next_id) /\ z.phase # "fault"
  BY <1>b DEF SetupInv
<1>d. /\ i \in Ids
      /\ \/ /\ z.nb[i] >= Vectors
            /\ \E p \in {z.phase, "failed"} : dev' = [dev EXCEPT ![v] = [z EXCEPT !.phase = p]]
         \/ z.nb[i] < Vectors /\ ConnectFaults(v, i)
         \/ z.nb[i] < Vectors /\ Connect(v, i, Connected(v, i))
  BY MsgConnectFacts
<1>e. z.nb[i] < Vectors => Running(v) /\ ~ConnectFaults(v, i)
  BY <1>b, <1>d, NoFault
<1>r. Running(v)
  <2>1. /\ Len(q) \in Nat \ {0} /\ 1 \in 1..Len(q) /\ q[1] = Head(q)
    BY <1>a, <1>b, TakenFacts, SMT
  <2>2. z.phase # "setup"
    BY <1>b, <1>c, <2>1 DEF MsgOk, Read
  <2> QED BY <1>b, <2>2 DEF Up, Running
<1>f. MsgOk(z, Tail(q), next_id)
  <2>1. z.phase = "run"
    BY <1>r DEF Running
  <2> HIDE DEF z, q
  <2> QED BY <1>a, <1>b, <1>c, <2>1, MsgOkTaken
<1> HIDE DEF i
<1>g. ASSUME NEW x \in DevType, dev' = [dev EXCEPT ![v] = x], x.id = z.id,
             x.phase \in {z.phase, "failed"}, x.closed = z.closed, x.nb_peers >= z.nb_peers
      PROVE  SetupInv'
  <2>1. dev'[v] = x /\ dev'[w] = dev[w]
    BY <1>a, <1>g
  <2>2. x.phase = z.phase => MsgOk(x, Tail(q), next_id)
    BY <1>a, <1>f, <1>g, MsgOkFrom
  <2>3. Up(v)' => x.phase = z.phase
    BY <1>g, <2>1 DEF Up
  <2>4. x.phase # "fault"
    BY <1>c, <1>g
  <2> QED BY <1>b, <2>1, <2>2, <2>3, <2>4, SetupFrom
<1>1. ASSUME NEW p \in {z.phase, "failed"}, dev' = [dev EXCEPT ![v] = [z EXCEPT !.phase = p]]
      PROVE  SetupInv'
  <2>1. p \in Phases
    BY <1>a DEF DevType, Phases
  <2>2. LET x == [z EXCEPT !.phase = p]
        IN  /\ x \in DevType /\ x.phase = p /\ x.id = z.id
            /\ x.nb_peers = z.nb_peers /\ x.closed = z.closed
    <3> HIDE DEF z
    <3> QED BY <1>a, <2>1, PhaseFacts
  <2>3. PICK x : /\ x = [z EXCEPT !.phase = p] /\ x \in DevType /\ x.phase = p /\ x.id = z.id
                 /\ x.nb_peers = z.nb_peers /\ x.closed = z.closed
    BY <2>2
  <2>4. x.nb_peers >= z.nb_peers
    BY <1>a, <2>3, SMT DEF DevType
  <2> HIDE DEF z
  <2> QED BY <1>1, <1>g, <2>3, <2>4
<1>2. ASSUME z.nb[i] < Vectors, Connect(v, i, Connected(v, i)) PROVE SetupInv'
  <2>1. PICK d : /\ d = Connected(v, i) /\ d \in DevType /\ d.phase = z.phase
                 /\ d.id = z.id /\ d.nb_peers >= z.nb_peers /\ d.closed = z.closed
    BY <1>2, <1>a, <1>d, ConnectedFacts, SMT
  <2>2. Connect(v, i, d)
    BY <1>2, <2>1
  <2>3. PICK n : /\ n = Introduced(v, d) /\ n \in DevType /\ n.phase = d.phase
                 /\ n.id = d.id /\ n.nb_peers = d.nb_peers /\ n.closed = d.closed
    <3>1. LET n == Introduced(v, d)
          IN  /\ n \in DevType /\ n.phase = d.phase /\ n.id = d.id
              /\ n.nb_peers = d.nb_peers /\ n.closed = d.closed
      BY <1>a, <2>1, IntroducedFacts
    <3> QED BY <3>1
  <2>4. ASSUME NEW y \in DevType, y.phase = d.phase, y.id = d.id,
               y.nb_peers = d.nb_peers, y.closed = d.closed,
               dev' = [dev EXCEPT ![v] = Learn(v, y)]
        PROVE  SetupInv'
    <3>1. LET x == Learn(v, y)
          IN  /\ x \in DevType /\ x.phase = y.phase /\ x.id = y.id
              /\ x.nb_peers = y.nb_peers /\ x.closed = y.closed
      BY <1>a, LearnFacts
    <3>2. PICK x : /\ x = Learn(v, y) /\ x \in DevType /\ x.phase = y.phase /\ x.id = y.id
                   /\ x.nb_peers = y.nb_peers /\ x.closed = y.closed
      BY <3>1
    <3> HIDE DEF z
    <3> QED BY <1>g, <2>1, <2>4, <3>2
  <2>5. CASE dev' = [dev EXCEPT ![v] = Learn(v, Introduced(v, d))]
    BY <2>3, <2>4, <2>5
  <2>6. CASE dev' = [dev EXCEPT ![v] = Learn(v, d)]
    BY <2>1, <2>4, <2>6
  <2>7. CASE dev' = [dev EXCEPT ![v] = d]
    BY <1>g, <2>1, <2>7
  <2> QED BY <1>d, <2>1, <2>2, <2>5, <2>6, <2>7, ConnectFacts, SMT
<1> QED BY <1>1, <1>2, <1>d, <1>e


LEMMA SetupStep ==
  ASSUME ~AnyOrder, MaxIds <= InitPeers, TypeOK, PairInv, SetupInv, [Next]_vars
  PROVE  SetupInv'
<1>a. /\ dev \in [VM -> DevType] /\ id_shared \in [VM -> Ids]
      /\ inbox \in [VM -> Seq(Messages)] /\ efd \in EfdType
  BY TypeSplit
<1>b. ASSUME NEW v \in VM
      PROVE  /\ dev[v] \in DevType /\ inbox[v] \in Seq(Messages) /\ dev[v].id \in Ids
             /\ Peer(v) \in VM /\ Peer(v) # v /\ dev[v].phase # "fault"
             /\ Up(v) => MsgOk(dev[v], inbox[v], next_id)
  BY <1>a, PeerFacts DEF DevType, SetupInv
<1>c. ASSUME NEW v \in VM, NEW kind, Read(v, kind), Consume(v)
      PROVE  /\ Up(v) /\ inbox[v] # <<>> /\ inbox'[v] = Tail(inbox[v])
             /\ inbox'[Peer(v)] = inbox[Peer(v)] /\ Head(inbox[v]).id \in Ids
             /\ Len(inbox[v]) \in Nat \ {0} /\ inbox[v][1] = Head(inbox[v])
  <2>1. /\ Up(v) /\ inbox[v] # <<>> /\ inbox'[v] = Tail(inbox[v])
        /\ inbox'[Peer(v)] = inbox[Peer(v)]
    BY <1>a, <1>b, <1>c DEF Read, Consume
  <2>2. /\ Head(inbox[v]) \in Messages /\ Len(inbox[v]) \in Nat \ {0}
        /\ inbox[v][1] = Head(inbox[v])
    BY <1>b, <2>1, TakenFacts
  <2> QED BY <2>1, <2>2, MessageFacts
\* Only other_vm_id of the device changes.
<1>d. ASSUME NEW v \in VM, UNCHANGED <<inbox, next_id>>, Running(v),
             NEW d \in DevType, d.phase = dev[v].phase, d.id = dev[v].id,
             d.nb_peers = dev[v].nb_peers, d.closed = dev[v].closed,
             dev' = [dev EXCEPT ![v] = Learn(v, d)]
      PROVE  SetupInv'
  <2>1. LET x == Learn(v, d)
        IN  /\ x \in DevType /\ x.phase = d.phase /\ x.id = d.id
            /\ x.nb_peers = d.nb_peers /\ x.closed = d.closed
    BY <1>a, LearnFacts
  <2>2. PICK x : /\ x = Learn(v, d) /\ x \in DevType /\ x.phase = d.phase /\ x.id = d.id
                 /\ x.nb_peers = d.nb_peers /\ x.closed = d.closed
    BY <2>1
  <2>3. dev'[v] = x /\ dev'[Peer(v)] = dev[Peer(v)]
    BY <1>a, <1>b, <1>d, <2>2
  <2>a. x.nb_peers = dev[v].nb_peers /\ x.nb_peers \in Nat
    BY <1>d, <2>2 DEF DevType
  <2>b. Up(v)
    BY <1>d DEF Up, Running
  <2>4. MsgOk(dev[v], inbox[v], next_id) /\ x.nb_peers >= dev[v].nb_peers
    BY <1>b, <2>a, <2>b, SMT
  <2>5. MsgOk(x, inbox[v], next_id)
    BY <1>b, <1>d, <2>2, <2>4, MsgOkFrom
  <2>6. x.phase # "fault"
    BY <1>b, <1>d, <2>2
  <2> QED BY <1>d, <2>3, <2>5, <2>6, SetupFrom
<1>0. CASE UNCHANGED vars
  BY <1>0 DEF vars, SetupInv, Up
<1>1. ASSUME NEW v \in VM, Start(v) PROVE SetupInv'
  BY <1>1, SetupStart
<1>2. ASSUME NEW v \in VM, Kill(v) PROVE SetupInv'
  BY <1>2, SetupKill
<1>3. ASSUME NEW v \in VM, MsgShmem(v) PROVE SetupInv'
  <2>1. /\ Read(v, "shm") /\ Consume(v) /\ next_id' = next_id
        /\ dev' = [dev EXCEPT ![v] = [dev[v] EXCEPT !.phase = "run"]]
    BY <1>3 DEF MsgShmem
  <2>2. LET x == [dev[v] EXCEPT !.phase = "run"]
        IN  /\ x \in DevType /\ x.phase = "run" /\ x.id = dev[v].id
            /\ x.nb_peers = dev[v].nb_peers /\ x.closed = dev[v].closed
    BY <1>b, PhaseFacts DEF Phases
  <2>3. PICK x : /\ x = [dev[v] EXCEPT !.phase = "run"] /\ x \in DevType /\ x.phase = "run"
                 /\ x.id = dev[v].id /\ x.nb_peers = dev[v].nb_peers
                 /\ x.closed = dev[v].closed
    BY <2>2
  <2>4. MsgOk(dev[v], inbox[v], next_id) /\ x.nb_peers >= dev[v].nb_peers
    BY <1>b, <1>c, <2>1, <2>3, SMT DEF DevType
  <2>5. MsgOk(x, inbox[v], next_id)
    BY <1>b, <2>3, <2>4, MsgOkFrom
  <2>6. MsgOk(x, Tail(inbox[v]), next_id)
    BY <1>b, <1>c, <2>1, <2>3, <2>5, MsgOkTaken
  <2>7. dev'[v] = x /\ dev'[Peer(v)] = dev[Peer(v)]
    BY <1>a, <1>b, <2>1, <2>3
  <2> QED BY <1>c, <2>1, <2>3, <2>6, <2>7, SetupFrom
<1>4. ASSUME NEW v \in VM, MsgConnect(v) PROVE SetupInv'
  BY <1>4, SetupConnect
<1>5. ASSUME NEW v \in VM, MsgDisconnect(v) PROVE SetupInv'
  <2> DEFINE i == Head(inbox[v]).id
             q == inbox[v]
             z == dev[v]
  <2>1. /\ Read(v, "gone") /\ Consume(v) /\ next_id' = next_id /\ Head(q).kind = "gone"
        /\ dev' = [dev EXCEPT ![v] = Closed(Resize(z, i), i)]
    BY <1>5 DEF MsgDisconnect, Read
  <2>2. /\ Up(v) /\ q # <<>> /\ inbox'[v] = Tail(q) /\ inbox'[Peer(v)] = inbox[Peer(v)]
        /\ i \in Ids /\ Len(q) \in Nat \ {0} /\ q[1].kind = "gone" /\ q[1].id = i
        /\ MsgOk(z, q, next_id) /\ z \in DevType /\ q \in Seq(Messages) /\ z.phase # "fault"
    BY <1>b, <1>c, <2>1
  <2> HIDE DEF i, q, z
  <2>3. LET r == Resize(z, i)
        IN  /\ r \in DevType /\ r.phase = z.phase /\ r.id = z.id
            /\ r.nb_peers >= z.nb_peers /\ r.closed = z.closed
    BY <2>2, ResizeFacts
  <2>4. PICK r : /\ r = Resize(z, i) /\ r \in DevType /\ r.phase = z.phase /\ r.id = z.id
                 /\ r.nb_peers >= z.nb_peers /\ r.closed = z.closed
    BY <2>3
  <2>5. LET x == Closed(r, i)
        IN  /\ x \in DevType /\ x.phase = r.phase /\ x.id = r.id
            /\ x.nb_peers = r.nb_peers /\ x.closed = r.closed \cup {i}
    BY <2>2, <2>4, ClosedFacts, SMT
  <2>6. PICK x : /\ x = Closed(r, i) /\ x \in DevType /\ x.phase = r.phase /\ x.id = r.id
                 /\ x.nb_peers = r.nb_peers /\ x.closed = r.closed \cup {i}
    BY <2>5
  <2>7. dev'[v] = x /\ dev'[Peer(v)] = dev[Peer(v)]
    BY <1>a, <1>b, <2>1, <2>4, <2>6
  <2>8. z.phase = "run"
    BY <2>2 DEF MsgOk, Up, z
  <2>9. MsgOk(r, q, next_id) /\ MsgOk(r, Tail(q), next_id)
    <3>1. MsgOk(r, q, next_id)
      BY <2>2, <2>4, MsgOkFrom
    <3> QED BY <2>2, <2>4, <2>8, <3>1, MsgOkTaken
  <2>10. /\ Len(Tail(q)) = Len(q) - 1
         /\ \A k \in 1..Len(Tail(q)) : k + 1 \in 2..Len(q) /\ Tail(q)[k] = q[k + 1]
    BY <2>2, TakenFacts
  <2>a. \A k \in 1..Len(q) : q[k].kind = "conn" =>
          \A j \in 1..(k - 1) : q[j].kind = "gone" => q[j].id # q[k].id /\ q[k].id # z.id
    BY <2>2 DEF MsgOk
  <2>b. q[1].kind = "gone" /\ q[1].id = i /\ x.id = z.id
    BY <2>2, <2>4, <2>6
  <2>11. ASSUME NEW k \in 1..Len(Tail(q)), Tail(q)[k].kind = "conn"
         PROVE  Tail(q)[k].id # i /\ Tail(q)[k].id # x.id
    <3>1. k + 1 \in 1..Len(q) /\ 1 \in 1..((k + 1) - 1) /\ Tail(q)[k] = q[k + 1]
      BY <2>2, <2>10, SMT
    <3>2. \A j \in 1..((k + 1) - 1) :
            q[j].kind = "gone" => q[j].id # q[k + 1].id /\ q[k + 1].id # z.id
      BY <2>a, <2>11, <3>1
    <3> QED BY <2>b, <3>1, <3>2
  <2>12. i < next_id
    BY <2>2, SMT DEF MsgOk
  <2>13. MsgOk(x, Tail(q), next_id)
    <3> DEFINE t == Tail(q)
    <3> HIDE DEF t
    <3>1. \A k \in 1..Len(t) : t[k].kind = "conn" =>
            /\ t[k].id \notin r.closed
            /\ \A j \in 1..(k - 1) : t[j].kind = "gone" => t[j].id # t[k].id /\ t[k].id # r.id
      BY <2>9 DEF MsgOk, t
    <3>2. \A k \in 1..Len(t) : t[k].kind = "conn" => t[k].id # i /\ t[k].id # x.id
      BY <2>11 DEF t
    <3>3. /\ x.phase # "setup" /\ x.nb_peers >= InitPeers
          /\ \A j \in x.closed : j < next_id
      BY <2>4, <2>6, <2>8, <2>9, <2>12 DEF MsgOk
    <3>4. \A k \in 1..Len(t) : t[k].kind # "shm" => t[k].id < next_id
      BY <2>9 DEF MsgOk, t
    <3>5. MsgOk(x, t, next_id)
      BY <2>6, <3>1, <3>2, <3>3, <3>4 DEF MsgOk
    <3> QED BY <3>5 DEF t
  <2> QED BY <2>1, <2>2, <2>4, <2>6, <2>7, <2>13, SetupFrom
<1>6. ASSUME NEW v \in VM, VmIdEvent(v) PROVE SetupInv'
  <2> DEFINE d == [dev[v] EXCEPT !.other = id_shared[Peer(v)]]
             e == Cleared(v, "VM_ID")
  <2>1. Running(v) /\ Kick(v, d, e, PeerPending(v)) /\ UNCHANGED <<inbox, next_id>>
    BY <1>6 DEF VmIdEvent, Signalled
  <2>2. /\ d \in DevType /\ d.phase = dev[v].phase /\ d.id = dev[v].id
        /\ d.nb_peers = dev[v].nb_peers /\ d.closed = dev[v].closed
    BY <1>a, <1>b, OtherFacts, SMT
  <2>3. dev' = [dev EXCEPT ![v] = Learn(v, d)]
    BY <2>1 DEF Kick
  <2> HIDE DEF d
  <2> QED BY <1>d, <2>1, <2>2, <2>3
<1>7. ASSUME NEW v \in VM, HostEvent(v) PROVE SetupInv'
  BY <1>7 DEF HostEvent, SetupInv, Up
<1>8. ASSUME NEW v \in VM, Raise(v) PROVE SetupInv'
  <2>1. /\ Running(v) /\ dev' = [dev EXCEPT ![v] = Learn(v, dev[v])]
        /\ UNCHANGED <<inbox, next_id>>
    BY <1>8 DEF Raise, Booted, Kick
  <2> QED BY <1>b, <1>d, <2>1
<1>9. ASSUME NEW v \in VM, BarConfigChanged(v) PROVE SetupInv'
  <2>1. /\ Running(v) /\ dev' = [dev EXCEPT ![v] = Learn(v, dev[v])]
        /\ UNCHANGED <<inbox, next_id>>
    BY <1>9 DEF BarConfigChanged, Booted
  <2> QED BY <1>b, <1>d, <2>1
<1>10. ASSUME NEW v \in VM, NEW m \in BOOLEAN, SetIntMask(v, m) PROVE SetupInv'
  BY <1>10 DEF SetIntMask, SetupInv, Up
<1>11. ASSUME NEW v \in VM, IntStsClear(v) PROVE SetupInv'
  BY <1>11 DEF IntStsClear, SetupInv, Up
<1> QED
  BY <1>0, <1>1, <1>2, <1>3, <1>4, <1>5, <1>6, <1>7, <1>8, <1>9, <1>10, <1>11
     DEF Next, MainLoop, Guest

LEMMA SetupInit == Init => SetupInv
BY OffTyped DEF Init, SetupInv, Up

\* With a server that sends the shared memory first, and a peer table that has a
\* place for every id, process_msg_connect never touches the interrupt vectors or
\* the shared registers before they exist, a peer that is not in the table, or
\* one whose eventfds were freed: for any number of restarts of both VMs.  Both
\* conditions are needed: the device accepts the messages in another order, and
\* an id published beyond the table is used as an index all the same.
THEOREM SetupAlwaysSafe ==
  ASSUME ~AnyOrder, MaxIds <= InitPeers
  PROVE  Spec => []SetupSafe
<1>1. Init => PairInv /\ SetupInv
  BY PairInit, SetupInit
<1>2. TypeOK /\ PairInv /\ SetupInv /\ [Next]_vars => PairInv' /\ SetupInv'
  BY PairStep, SetupStep
<1>3. SetupInv => SetupSafe
  BY DEF SetupInv, SetupSafe
<1> QED BY <1>1, <1>2, <1>3, PeersTypeCorrect, PTL DEF Spec
=============================================================================
