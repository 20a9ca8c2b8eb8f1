---------------------------- MODULE IvshmemPeers ----------------------------
(***************************************************************************)
(* How the two emulated switch ports find each other                       *)
(* (qemu_src/hw/misc/idt_ntb_ivshmem.c): the start of a device and its     *)
(* conversation with ivshmem-server, the exchange of client ids through    *)
(* the shared region, and the eventfds that carry interrupts.              *)
(*                                                                         *)
(* A client learns about the other one on three channels that are not      *)
(* ordered with each other: the server's socket (eventfds of a client that *)
(* came, or the news that it went), the shared region (its id), and its    *)
(* own eventfds.  A handler runs under the QEMU lock and reads each shared *)
(* word once, so one handler is one action.                                *)
(***************************************************************************)
EXTENDS Integers, Sequences

CONSTANTS
  Vectors,      \* eventfds the device takes from a client, its "vectors" property
  ServerVectors,  \* eventfds of a client in the server, its "-n" option
  InitPeers,    \* clients the peer table has room for at first; 16 in the code
  MaxIds,       \* bound: ids the server hands out
  Restartable,  \* VMs that may be killed and started again
  AnyOrder      \* the server sends the initial messages in some other order

VM == {1, 2}
Peer(v) == 3 - v
Ids == 0..(MaxIds - 1)
None == -1

ASSUME PeersConstants ==
  /\ Vectors \in Nat /\ Vectors >= 2
  /\ ServerVectors \in Nat /\ ServerVectors >= Vectors
  /\ InitPeers \in Nat \ {0}
  /\ MaxIds \in Nat \ {0}
  /\ Restartable \subseteq VM
  /\ AnyOrder \in BOOLEAN

VARIABLES
  dev,        \* dev[v]: the device of v, see Off
  inbox,      \* inbox[v]: server messages v has not read
  id_shared,  \* vm1.id and vm2.id of the shared region
  masked,     \* nt_int_mask: one cause stands for the three
  intsts,     \* intsts[v]: the cause is set
  efd,        \* efd[id]: eventfds of client id that are signalled
  next_id,    \* server: the next id
  owner,      \* history: the VM that was given an id
  waiting     \* history: v is owed an interrupt, see Raise

shared == <<id_shared, masked, intsts>>
vars == <<dev, inbox, shared, efd, next_id, owner, waiting>>

\* id: vm_id; other: other_vm_id; nb_peers: room in the peer table;
\* nb[i]: nb_eventfds of peer i; closed: peers whose eventfd array was freed.
Off == [phase |-> "off", id |-> 0, other |-> None, nb_peers |-> InitPeers,
        nb |-> [i \in Ids |-> 0], closed |-> {}]

Shm == [kind |-> "shm", id |-> 0]
Conn(i) == [kind |-> "conn", id |-> i]
Gone(i) == [kind |-> "gone", id |-> i]
Messages == {Shm} \cup {Conn(i) : i \in Ids} \cup {Gone(i) : i \in Ids}

Up(v) == dev[v].phase \in {"setup", "run"}
Running(v) == dev[v].phase = "run"
NoneWaiting == [v \in VM |-> FALSE]
-----------------------------------------------------------------------------
Init ==
  /\ dev = [v \in VM |-> Off]
  /\ inbox = [v \in VM |-> <<>>]
  /\ id_shared = [v \in VM |-> 0]
  /\ masked = TRUE
  /\ intsts = [v \in VM |-> FALSE]
  /\ efd = [i \in Ids |-> {}]
  /\ next_id = 0
  /\ owner = [i \in Ids |-> 0]
  /\ waiting = NoneWaiting
-----------------------------------------------------------------------------
(***************************************************************************)
(* idt_peer_eventfd_ready and idt_kick_peer_interrupt, for a device d of v.*)
(***************************************************************************)
\* Mutant: the own id is taken for the peer's.
LearnAny(v, d) ==
  IF d.other = None /\ id_shared[Peer(v)] < d.nb_peers
  THEN [d EXCEPT !.other = id_shared[Peer(v)]]
  ELSE d

Learn(v, d) ==
  IF /\ d.other = None
     /\ id_shared[Peer(v)] < d.nb_peers
     /\ id_shared[Peer(v)] # d.id
  THEN [d EXCEPT !.other = id_shared[Peer(v)]]
  ELSE d

Ready(d, vector) ==
  d.other # None /\ d.other < d.nb_peers /\ d.nb[d.other] > vector

\* The kick leaves device d behind; e is the state of the eventfds before it
\* and pending says whether the peer has an unmasked cause.
Kick(v, d, e, pending) ==
  LET l == Learn(v, d)
  IN  /\ dev' = [dev EXCEPT ![v] = l]
      /\ efd' = IF Ready(l, 1) /\ pending
                THEN [e EXCEPT ![l.other] = @ \cup {"INTERRUPT_HOST"}]
                ELSE e
PeerPending(v) == intsts[Peer(v)] /\ ~masked
-----------------------------------------------------------------------------
(***************************************************************************)
(* ivshmem-server accepts a client: an id, the shared memory, the eventfds *)
(* of the clients that are there, then those of the new client, which it   *)
(* also sends to the others.                                               *)
(***************************************************************************)
ConnAll(i) == [k \in 1..ServerVectors |-> Conn(i)]
Others(v) == IF Up(Peer(v)) THEN ConnAll(dev[Peer(v)].id) ELSE <<>>

Greetings(v) ==
  LET rest == Others(v) \o ConnAll(next_id)
  IN  IF AnyOrder
      THEN {SubSeq(rest, 1, n) \o <<Shm>> \o SubSeq(rest, n + 1, Len(rest)) :
              n \in 0..Len(rest)}
      ELSE {<<Shm>> \o rest}

\* QEMU of v starts and connects.  VM1 is started first.
Start(v) ==
  /\ dev[v].phase = "off" /\ next_id \in Ids
  /\ v = 1 \/ next_id > 0
  /\ dev' = [dev EXCEPT ![v] = [Off EXCEPT !.phase = "setup", !.id = next_id]]
  /\ \E greeting \in Greetings(v) :
       inbox' = [inbox EXCEPT
                   ![v] = greeting,
                   ![Peer(v)] = IF Up(Peer(v)) THEN @ \o ConnAll(next_id) ELSE @]
  /\ owner' = [owner EXCEPT ![next_id] = v]
  /\ next_id' = next_id + 1
  /\ UNCHANGED <<shared, efd, waiting>>

\* The process is killed, while an id is left to start it again with; the
\* server tells the other client.
Kill(v) ==
  /\ v \in Restartable /\ Up(v) /\ next_id \in Ids
  /\ dev' = [dev EXCEPT ![v] = Off]
  /\ inbox' = [inbox EXCEPT
                 ![v] = <<>>,
                 ![Peer(v)] = IF Up(Peer(v)) THEN Append(@, Gone(dev[v].id)) ELSE @]
  /\ waiting' = NoneWaiting
  /\ UNCHANGED <<shared, efd, next_id, owner>>
-----------------------------------------------------------------------------
(***************************************************************************)
(* process_msg.                                                            *)
(***************************************************************************)
Read(v, kind) == Up(v) /\ inbox[v] # <<>> /\ Head(inbox[v]).kind = kind
Consume(v) == inbox' = [inbox EXCEPT ![v] = Tail(@)]

\* The shared memory message ends ivshmem_recv_setup; the rest of
\* ivshmem_common_realize follows before the main loop runs again.
MsgShmem(v) ==
  /\ Read(v, "shm") /\ Consume(v)
  /\ dev' = [dev EXCEPT ![v].phase = "run"]
  /\ masked' = TRUE
  /\ waiting' = NoneWaiting
  /\ UNCHANGED <<id_shared, intsts, efd, next_id, owner>>

\* Mutant: the table may shrink.
ResizeAlways(d, i) == [d EXCEPT !.nb_peers = i + 1]

\* resize_peers when the id is beyond the table.
Resize(d, i) == IF i >= d.nb_peers THEN [d EXCEPT !.nb_peers = i + 1] ELSE d

\* process_msg_connect takes the next eventfd of client i.
Connected(v, i) ==
  LET d == Resize(dev[v], i) IN [d EXCEPT !.nb[i] = @ + 1]

\* Undefined behaviour: an eventfd array that was freed or is out of bounds;
\* msi_vectors and the shared pointers before the shared memory is mapped.
BadPeer(d, i) == i >= d.nb_peers \/ i \in d.closed
ConnectFaults(v, i) ==
  LET d == Connected(v, i)
  IN  \/ BadPeer(d, i)
      \/ i = d.id /\ ~Running(v)
      \/ i = d.id /\ v = 2 /\ d.nb[i] = 2 /\ BadPeer(d, id_shared[Peer(v)])

\* init_vm_ids: publish the id; the second VM takes the other's and wakes it.
\* Setting a notifier that was never initialised does nothing.
Introduced(v, d) == IF v = 2 THEN [d EXCEPT !.other = id_shared[Peer(v)]] ELSE d
Introduce(v, d) ==
  IF v = 2 /\ d.nb[id_shared[Peer(v)]] > 0
  THEN [efd EXCEPT ![id_shared[Peer(v)]] = @ \cup {"VM_ID"}]
  ELSE efd

\* Mutant: the kick is not repeated for the peer.
ConnectSilent(v, i, d) ==
  IF d.nb[i] = 2 /\ i = d.id
  THEN /\ id_shared' = [id_shared EXCEPT ![v] = d.id]
       /\ Kick(v, Introduced(v, d), Introduce(v, d), PeerPending(v))
  ELSE dev' = [dev EXCEPT ![v] = d] /\ UNCHANGED <<id_shared, efd>>

\* What a connect message does once the eventfd is stored: the second eventfd
\* of the own client completes the setup, the second one of the peer repeats
\* the kick (peer_regs is NULL before the device is realized).
Connect(v, i, d) ==
  CASE d.nb[i] = 2 /\ i = d.id ->
         /\ id_shared' = [id_shared EXCEPT ![v] = d.id]
         /\ Kick(v, Introduced(v, d), Introduce(v, d), PeerPending(v))
    [] d.nb[i] = 2 /\ i # d.id /\ Running(v) ->
         Kick(v, d, efd, PeerPending(v)) /\ UNCHANGED id_shared
    [] OTHER ->
         dev' = [dev EXCEPT ![v] = d] /\ UNCHANGED <<id_shared, efd>>

\* Mutant: every eventfd is taken.
MsgConnectAll(v) ==
  /\ Read(v, "conn") /\ Consume(v)
  /\ LET i == Head(inbox[v]).id IN Connect(v, i, Connected(v, i))
  /\ UNCHANGED <<masked, intsts, next_id, owner, waiting>>

\* An eventfd beyond the device's vectors is refused, which fails the start of
\* a device that is still waiting for the shared memory.
MsgConnect(v) ==
  /\ Read(v, "conn") /\ Consume(v)
  /\ LET i == Head(inbox[v]).id
     IN  CASE dev[v].nb[i] >= Vectors ->
                /\ dev' = [dev EXCEPT ![v].phase = IF Running(v) THEN @ ELSE "failed"]
                /\ UNCHANGED <<id_shared, efd>>
           [] dev[v].nb[i] < Vectors /\ ConnectFaults(v, i) ->
                /\ dev' = [dev EXCEPT ![v].phase = "fault"]
                /\ UNCHANGED <<id_shared, efd>>
           [] OTHER -> Connect(v, i, Connected(v, i))
  /\ UNCHANGED <<masked, intsts, next_id, owner, waiting>>

\* close_peer_eventfds frees the array and leaves the pointer.
Closed(d, i) == [d EXCEPT !.nb[i] = 0, !.closed = @ \cup {i}]

\* process_msg_disconnect
MsgDisconnect(v) ==
  /\ Read(v, "gone") /\ Consume(v)
  /\ LET i == Head(inbox[v]).id
     IN  dev' = [dev EXCEPT ![v] = Closed(Resize(dev[v], i), i)]
  /\ UNCHANGED <<shared, efd, next_id, owner, waiting>>
-----------------------------------------------------------------------------
(***************************************************************************)
(* ivshmem_vector_notify, for an eventfd that setup_interrupt has put into *)
(* the main loop.                                                          *)
(***************************************************************************)
Signalled(v, event, vector) ==
  /\ Running(v)
  /\ event \in efd[dev[v].id]
  /\ dev[v].nb[dev[v].id] > vector

Cleared(v, event) == [efd EXCEPT ![dev[v].id] = @ \ {event}]

VmIdEvent(v) ==
  /\ Signalled(v, "VM_ID", 0)
  /\ Kick(v, [dev[v] EXCEPT !.other = id_shared[Peer(v)]],
             Cleared(v, "VM_ID"), PeerPending(v))
  /\ UNCHANGED <<inbox, shared, next_id, owner, waiting>>

\* interrupt_notify gives the guest its MSI.
HostEvent(v) ==
  /\ Signalled(v, "INTERRUPT_HOST", 1)
  /\ efd' = Cleared(v, "INTERRUPT_HOST")
  /\ waiting' = [waiting EXCEPT ![v] = FALSE]
  /\ UNCHANGED <<dev, inbox, shared, next_id, owner>>
-----------------------------------------------------------------------------
(***************************************************************************)
(* What the guests do.  The initial messages are in the socket before the  *)
(* guest starts to boot, and its driver comes after the main loop has read *)
(* them.                                                                   *)
(***************************************************************************)
Booted(v) == Running(v) /\ dev[v].nb[dev[v].id] = Vectors

\* VM2 takes the id of VM1, and wakes that client, once, when it starts.  Nothing
\* repeats this when VM1 is started again, and no interrupt is owed from then on.
FirstLife == dev[1].id = 0

\* A register write that raises an unmasked cause in the peer
\* (idt_raise_peer_interrupt).
Raise(v) ==
  /\ Booted(v) /\ ~masked
  /\ intsts' = [intsts EXCEPT ![Peer(v)] = TRUE]
  /\ Kick(v, dev[v], efd, TRUE)
  /\ waiting' = [waiting EXCEPT ![Peer(v)] = @ \/ (Running(Peer(v)) /\ FirstLife)]
  /\ UNCHANGED <<inbox, id_shared, masked, next_id, owner>>

\* idt_notify_peer_bar_config_changed, after a write of the peer's window.
BarConfigChanged(v) ==
  /\ Booted(v)
  /\ LET l == Learn(v, dev[v])
     IN  /\ dev' = [dev EXCEPT ![v] = l]
         /\ efd' = IF Ready(l, 0)
                   THEN [efd EXCEPT ![l.other] = @ \cup {"VM_ID"}]
                   ELSE efd
  /\ UNCHANGED <<inbox, shared, next_id, owner, waiting>>

\* NTINTMSK: a cause that is masked meanwhile is not owed any more.
SetIntMask(v, m) ==
  /\ Booted(v)
  /\ masked' = m
  /\ waiting' = IF m THEN NoneWaiting ELSE waiting
  /\ UNCHANGED <<dev, inbox, id_shared, intsts, efd, next_id, owner>>

\* NTINTSTS: the guest clears its causes.
IntStsClear(v) ==
  /\ Booted(v)
  /\ intsts' = [intsts EXCEPT ![v] = FALSE]
  /\ waiting' = [waiting EXCEPT ![v] = FALSE]
  /\ UNCHANGED <<dev, inbox, id_shared, masked, efd, next_id, owner>>
-----------------------------------------------------------------------------
\* What the main loop of v has to do.
MainLoop(v) ==
  \/ MsgShmem(v) \/ MsgConnect(v) \/ MsgDisconnect(v)
  \/ VmIdEvent(v) \/ HostEvent(v)

Guest(v) ==
  \/ Raise(v) \/ BarConfigChanged(v) \/ IntStsClear(v)
  \/ \E m \in BOOLEAN : SetIntMask(v, m)

Next == \E v \in VM : Start(v) \/ Kill(v) \/ MainLoop(v) \/ Guest(v)

Spec == Init /\ [][Next]_vars

\* The main loop polls the socket and the eventfds and serves each of them.
FairSpec ==
  /\ Spec
  /\ \A v \in VM :
       /\ WF_vars(MsgShmem(v) \/ MsgConnect(v) \/ MsgDisconnect(v))
       /\ WF_vars(VmIdEvent(v))
       /\ WF_vars(HostEvent(v))
-----------------------------------------------------------------------------
TypeOK ==
  /\ dev \in [VM -> [phase: {"off", "setup", "run", "failed", "fault"}, id: Ids,
                     other: Ids \cup {None}, nb_peers: Nat,
                     nb: [Ids -> 0..Vectors], closed: SUBSET Ids]]
  /\ inbox \in [VM -> Seq(Messages)]
  /\ id_shared \in [VM -> Ids]
  /\ masked \in BOOLEAN
  /\ intsts \in [VM -> BOOLEAN]
  /\ efd \in [Ids -> SUBSET {"VM_ID", "INTERRUPT_HOST"}]
  /\ next_id \in 0..MaxIds
  /\ owner \in [Ids -> VM \cup {0}]
  /\ waiting \in [VM -> BOOLEAN]

\* A client whose eventfds a device would signal is one that the peer VM was
\* given: whatever other_vm_id holds in between (nothing, the zero of a fresh
\* region, an id from before a restart), idt_peer_eventfd_ready does not let a
\* device signal itself.
SignalsPeer ==
  \A v \in VM : Running(v) /\ Ready(dev[v], 0) => owner[dev[v].other] = Peer(v)

\* "the device has always accepted them in any order": whatever the order of
\* the initial messages, connecting does not touch the interrupt vectors or the
\* shared registers before they exist, nor a peer that is not in the table.
SetupSafe == \A v \in VM : dev[v].phase # "fault"

\* An interrupt raised while both devices run is delivered, although the
\* raising side may not know the peer's id yet, may know an old one (VM1, after
\* VM2 was started again), or may not have its eventfds: one of the later
\* messages or events repeats the kick.
InterruptDelivered == \A v \in VM : waiting[v] ~> ~waiting[v]
=============================================================================
