--------------------------- MODULE ProfilingRing ----------------------------
(***************************************************************************)
(* ntb_profiling (user_src/ntb_profiling.c): run_rx on one VM lays out a   *)
(* ring in its inbound memory window, run_tx on the other VM writes chunks *)
(* into the slots through the peer window.  Both only load and store the   *)
(* shared window; each load or store that the other side can see is a step *)
(* of its own.                                                             *)
(*                                                                         *)
(* The receiver is started first, as user_src/README.md asks: a sender     *)
(* never starts on, and a receiver never resets, a window that holds the   *)
(* ring of an earlier receiver the other process is using.  A sender that  *)
(* starts on a window without a ring waits for it.  What is in the slots   *)
(* of an earlier ring stays there.                                         *)
(***************************************************************************)
EXTENDS RingGeometry, Integers, Sequences

CONSTANTS
  Capacity,    \* bytes of the mapped window
  RxChunk,     \* --chunk of the receiver
  TxChunk,     \* --chunk of the sender
  Total,       \* --total of the sender
  MaxRuns      \* bound: how often each program is started

slot_size == SlotSize(Capacity, RxChunk)
N == SlotCount(Capacity, slot_size)

\* parse_options refuses a zero size.
ASSUME RingConstants ==
  /\ Capacity \in Nat /\ MaxRuns \in Nat
  /\ RxChunk \in Nat \ {0} /\ TxChunk \in Nat \ {0} /\ Total \in Nat \ {0}

VARIABLES
  magic, slot_count, flags, head, tail, total_bytes,  \* the ring header
  seq, len,             \* seq[j], len[j]: header of the slot in place j
  rx, rx_len, received, \* receiver: program point, loaded length, bytes accepted
  tx, tx_count, sent,   \* sender: program point, loaded slot_count, bytes sent
  rx_runs, tx_runs

header == <<magic, slot_count, flags, head, tail, total_bytes>>
rx_locals == <<rx_len, received>>
vars == <<header, seq, len, rx, rx_locals, tx, tx_count, sent, rx_runs, tx_runs>>

Ended == {"off", "ok", "failed"}
Reading == {"slot_len", "slot_seq", "accept"}
Receiving == Reading \cup {"poll", "flags", "last"}
Places == 0..N-1

\* The window is zeroed when the driver allocates it.
Init ==
  /\ magic = FALSE /\ slot_count = 0 /\ flags = FALSE
  /\ head = 0 /\ tail = 0 /\ total_bytes = 0
  /\ seq = [j \in Places |-> 0] /\ len = [j \in Places |-> 0]
  /\ rx = "off" /\ rx_len = 0 /\ received = 0
  /\ tx = "off" /\ tx_count = 0 /\ sent = 0
  /\ rx_runs = 0 /\ tx_runs = 0
-----------------------------------------------------------------------------
(***************************************************************************)
(* run_rx.                                                                 *)
(***************************************************************************)
\* Geometry check, then the magic of an earlier ring is taken away.
RxStart ==
  /\ rx \in Ended /\ rx_runs < MaxRuns /\ (tx \in Ended \/ ~magic)
  /\ rx_runs' = rx_runs + 1
  /\ IF N = 0
     THEN rx' = "failed" /\ UNCHANGED magic
     ELSE rx' = "reset" /\ magic' = FALSE
  /\ UNCHANGED <<slot_count, flags, head, tail, total_bytes, seq, len, rx_locals,
                 tx, tx_count, sent, tx_runs>>

\* Mutant: the DONE flag of the earlier run stays.
RxResetKeepsDone ==
  /\ rx = "reset"
  /\ rx' = "publish"
  /\ slot_count' = N /\ head' = 0 /\ tail' = 0
  /\ total_bytes' = 0 /\ received' = 0
  /\ UNCHANGED <<magic, flags, seq, len, rx_len, tx, tx_count, sent, rx_runs,
                 tx_runs>>

\* memset of the header and the geometry.  While magic is clear no sender
\* looks at the header, so the order of these stores is not visible.
RxReset ==
  /\ rx = "reset"
  /\ rx' = "publish"
  /\ slot_count' = N /\ flags' = FALSE /\ head' = 0 /\ tail' = 0
  /\ total_bytes' = 0 /\ received' = 0
  /\ UNCHANGED <<magic, seq, len, rx_len, tx, tx_count, sent, rx_runs,
                 tx_runs>>

RxPublish ==
  /\ rx = "publish"
  /\ rx' = "poll" /\ magic' = TRUE
  /\ UNCHANGED <<slot_count, flags, head, tail, total_bytes, seq, len, rx_locals,
                 tx, tx_count, sent, rx_runs, tx_runs>>

\* Mutant: an empty ring is read.
RxPollEmpty ==
  /\ rx = "poll"
  /\ rx' = IF tail <= head THEN "slot_len" ELSE "flags"
  /\ UNCHANGED <<header, seq, len, rx_locals, tx, tx_count, sent, rx_runs, tx_runs>>

\* Load tail (only the receiver stores it) and head.
RxPoll ==
  /\ rx = "poll"
  /\ rx' = IF tail < head THEN "slot_len" ELSE "flags"
  /\ UNCHANGED <<header, seq, len, rx_locals, tx, tx_count, sent, rx_runs, tx_runs>>

RxLen ==
  /\ rx = "slot_len"
  /\ rx_len' = len[tail % slot_count]
  /\ rx' = "slot_seq"
  /\ UNCHANGED <<header, seq, len, received, tx, tx_count, sent,
                 rx_runs, tx_runs>>

\* Load seq and check the slot.
RxSeq ==
  /\ rx = "slot_seq"
  /\ rx' = IF seq[tail % slot_count] # tail + 1 \/ rx_len > slot_size
           THEN "invalid" ELSE "accept"
  /\ UNCHANGED <<header, seq, len, rx_locals, tx, tx_count, sent, rx_runs,
                 tx_runs>>

\* Mutant: a whole slot is counted.
RxAcceptSlot ==
  /\ rx = "accept"
  /\ received' = received + slot_size
  /\ tail' = tail + 1
  /\ rx' = "poll"
  /\ UNCHANGED <<magic, slot_count, flags, head, total_bytes, seq, len,
                 rx_len, tx, tx_count, sent, rx_runs, tx_runs>>

RxAccept ==
  /\ rx = "accept"
  /\ received' = received + rx_len
  /\ tail' = tail + 1
  /\ rx' = "poll"
  /\ UNCHANGED <<magic, slot_count, flags, head, total_bytes, seq, len,
                 rx_len, tx, tx_count, sent, rx_runs, tx_runs>>

RxFlags ==
  /\ rx = "flags"
  /\ rx' = IF flags THEN "last" ELSE "poll"
  /\ UNCHANGED <<header, seq, len, rx_locals, tx, tx_count, sent, rx_runs, tx_runs>>

\* DONE is set: the receiver reports unless head has moved on.
RxLast ==
  /\ rx = "last"
  /\ rx' = IF tail = head THEN "ok" ELSE "poll"
  /\ UNCHANGED <<header, seq, len, rx_locals, tx, tx_count, sent, rx_runs, tx_runs>>

\* The slot check failed, or nothing came until the timeout.
RxFail ==
  /\ \/ rx = "invalid"
     \/ rx = "flags" /\ ~flags
     \/ rx = "last" /\ tail # head
  /\ rx' = "failed"
  /\ UNCHANGED <<header, seq, len, rx_locals, tx, tx_count, sent, rx_runs, tx_runs>>
-----------------------------------------------------------------------------
(***************************************************************************)
(* run_tx.                                                                 *)
(***************************************************************************)
TxStart ==
  /\ tx \in Ended /\ tx_runs < MaxRuns /\ (rx \notin Ended \/ ~magic)
  /\ tx_runs' = tx_runs + 1
  /\ tx' = "find" /\ sent' = 0
  /\ UNCHANGED <<header, seq, len, rx, rx_locals, tx_count, rx_runs>>

\* The loop that waits for a fresh ring.
RingFound == magic /\ ~flags /\ head = 0 /\ tail = 0

\* The geometry is loaded and must take the sender's chunks.
TxFind ==
  /\ tx = "find" /\ RingFound
  /\ tx_count' = slot_count
  /\ tx' = IF slot_count = 0 \/ TxChunk > slot_size THEN "failed" ELSE "space"
  /\ UNCHANGED <<header, seq, len, rx, rx_locals, sent, rx_runs, tx_runs>>

\* Mutant: the last chunk is not shortened.
PayloadWhole == TxChunk

Payload == IF Total - sent < TxChunk THEN Total - sent ELSE TxChunk

\* Mutant: off by one, a full ring has room.
TxSpaceFull ==
  /\ tx = "space"
  /\ head - tail <= tx_count
  /\ tx' = "fill"
  /\ UNCHANGED <<header, seq, len, rx, rx_locals, tx_count, sent, rx_runs, tx_runs>>

\* Load head (only the sender stores it) and tail; go on when a slot is free.
TxSpace ==
  /\ tx = "space"
  /\ head - tail < tx_count
  /\ tx' = "fill"
  /\ UNCHANGED <<header, seq, len, rx, rx_locals, tx_count, sent, rx_runs, tx_runs>>

\* Payload and length, followed by the store barrier.
TxFill ==
  /\ tx = "fill"
  /\ len' = [len EXCEPT ![head % slot_count] = Payload]
  /\ tx' = "seq"
  /\ UNCHANGED <<header, seq, rx, rx_locals, tx_count, sent, rx_runs, tx_runs>>

\* Mutant: sequence numbers start at 0.
TxSeqZero ==
  /\ tx = "seq"
  /\ seq' = [seq EXCEPT ![head % slot_count] = head]
  /\ tx' = "head"
  /\ UNCHANGED <<header, len, rx, rx_locals, tx_count, sent, rx_runs, tx_runs>>

TxSeq ==
  /\ tx = "seq"
  /\ seq' = [seq EXCEPT ![head % slot_count] = head + 1]
  /\ tx' = "head"
  /\ UNCHANGED <<header, len, rx, rx_locals, tx_count, sent, rx_runs, tx_runs>>

TxHead ==
  /\ tx = "head"
  /\ head' = head + 1
  /\ sent' = sent + Payload
  /\ tx' = IF sent + Payload < Total THEN "space" ELSE "drain"
  /\ UNCHANGED <<magic, slot_count, flags, tail, total_bytes, seq, len, rx,
                 rx_locals, tx_count, rx_runs, tx_runs>>

\* Mutant: the receiver is not waited for.
TxDrainSkipped ==
  /\ tx = "drain"
  /\ tx' = "totals"
  /\ UNCHANGED <<header, seq, len, rx, rx_locals, tx_count, sent, rx_runs, tx_runs>>

TxDrain ==
  /\ tx = "drain" /\ tail = head
  /\ tx' = "totals"
  /\ UNCHANGED <<header, seq, len, rx, rx_locals, tx_count, sent, rx_runs, tx_runs>>

TxTotals ==
  /\ tx = "totals"
  /\ total_bytes' = sent
  /\ tx' = "done"
  /\ UNCHANGED <<magic, slot_count, flags, head, tail, seq, len, rx, rx_locals,
                 tx_count, sent, rx_runs, tx_runs>>

\* Mutant: the DONE flag is forgotten.
TxDoneSilent ==
  /\ tx = "done"
  /\ tx' = "ok"
  /\ UNCHANGED <<header, seq, len, rx, rx_locals, tx_count, sent, rx_runs, tx_runs>>

TxDone ==
  /\ tx = "done"
  /\ flags' = TRUE
  /\ tx' = "ok"
  /\ UNCHANGED <<magic, slot_count, head, tail, total_bytes, seq, len, rx,
                 rx_locals, tx_count, sent, rx_runs, tx_runs>>

\* A wait timed out, or a store barrier failed (before seq, before done).
TxFail ==
  /\ \/ tx = "find" /\ ~RingFound
     \/ tx = "space" /\ head - tail >= tx_count
     \/ tx = "drain" /\ tail # head
     \/ tx \in {"seq", "done"}
  /\ tx' = "failed"
  /\ UNCHANGED <<header, seq, len, rx, rx_locals, tx_count, sent, rx_runs, tx_runs>>
-----------------------------------------------------------------------------
RxStep == \/ RxReset \/ RxPublish \/ RxPoll \/ RxLen \/ RxSeq \/ RxAccept
          \/ RxFlags \/ RxLast
TxStep == \/ TxFind \/ TxSpace \/ TxFill \/ TxSeq \/ TxHead \/ TxDrain
          \/ TxTotals \/ TxDone

Next == RxStart \/ RxStep \/ RxFail \/ TxStart \/ TxStep \/ TxFail

Spec == Init /\ [][Next]_vars

\* Both programs spin: the scheduler of each VM lets them run.  Starting them is
\* up to the users, and a timeout need not expire, so that a wait that only a
\* timeout would end counts as one without end.
FairSpec == Spec /\ WF_vars(RxStep) /\ WF_vars(TxStep)
-----------------------------------------------------------------------------
TypeOK ==
  /\ magic \in BOOLEAN /\ slot_count \in {0, N} /\ flags \in BOOLEAN
  /\ head \in Nat /\ tail \in Nat /\ total_bytes \in Nat
  /\ seq \in [Places -> Nat] /\ len \in [Places -> 0..Total]
  /\ rx \in Ended \cup {"reset", "publish", "poll", "slot_len", "slot_seq",
                        "accept", "invalid", "flags", "last"}
  /\ rx_len \in 0..Total /\ received \in Nat
  /\ tx \in Ended \cup {"find", "space", "fill", "seq", "head", "drain",
                        "totals", "done"}
  /\ tx_count \in {0, N} /\ sent \in 0..Total
  /\ rx_runs \in 0..MaxRuns /\ tx_runs \in 0..MaxRuns

(***************************************************************************)
(* Properties.                                                             *)
(***************************************************************************)
\* run_rx never meets "invalid ring slot": a slot below head carries the
\* sequence number of its position and a length that fits, although slots are
\* reused without being cleared, also across runs.
NoInvalidSlot == rx # "invalid"

\* No slot between tail and head is stored to: the sender's view of tail may be
\* old, never too new.
UnreadSlotsKept ==
  [][\A k \in tail..(head - 1) :
       /\ seq'[k % slot_count] = seq[k % slot_count]
       /\ len'[k % slot_count] = len[k % slot_count]]_vars

\* A receiver that returns 0 has accepted every byte the sender was asked to
\* send, and reports the same number for the sender.
ReceiverSuccess == rx = "ok" => received = Total /\ total_bytes = Total

\* A sender that sets DONE has seen the receiver accept every byte.
SenderSuccess == flags => tail = head /\ received = Total

\* A sender that has found a ring with a receiver gets every byte across and sets
\* DONE, unless a timeout or a failed barrier stops one of the two programs; no
\* interleaving makes both of them wait.  After DONE the receiver returns 0.
Completes ==
  /\ (tx = "space" /\ rx \in Receiving) ~> (flags \/ "failed" \in {rx, tx})
  /\ (flags /\ rx \in Receiving) ~> (rx = "ok")
-----------------------------------------------------------------------------
(***************************************************************************)
(* The inductive invariant.  SentAfter(k) is the number of bytes in the    *)
(* first k chunks.                                                         *)
(***************************************************************************)
SentAfter(k) == IF k * TxChunk < Total THEN k * TxChunk ELSE Total

Filling == {"fill", "seq", "head"}
Sending == Filling \cup {"space", "drain", "totals", "done"}

\* Which points of the two programs go together, and flow control.
PhaseInv ==
  /\ magic => slot_count = N /\ N > 0
  /\ rx \in Receiving => magic
  /\ rx \in {"reset", "publish"} => ~magic /\ N > 0
  /\ rx = "publish" => slot_count = N /\ head = 0 /\ ~flags
  /\ tx \in Sending => magic /\ ~flags /\ tx_count = N /\ TxChunk <= slot_size
  /\ tail <= head /\ head <= tail + N
  /\ tail < head => slot_count = N
  /\ tx \in Filling => head < tail + N
  /\ tx \in {"totals", "done"} => tail = head
  /\ rx \in Reading => tail < head
  /\ rx \in {"last", "ok"} => flags
  /\ flags => tail = head

\* The byte counts follow the positions.
BytesInv ==
  /\ received = SentAfter(tail)
  /\ tx = "find" => sent = 0
  /\ tx \in Sending => sent = SentAfter(head)
  /\ tx \in Filling \cup {"space"} => sent < Total
  /\ tx \in {"drain", "totals", "done"} => sent = Total
  /\ tx = "done" => total_bytes = Total
  /\ flags => received = Total /\ total_bytes = Total

\* What the slots between tail and head hold.
SlotsInv ==
  /\ \A k \in tail..(head - 1) :
       /\ seq[k % N] = k + 1
       /\ len[k % N] = SentAfter(k + 1) - SentAfter(k)
       /\ len[k % N] <= slot_size
  /\ tx \in {"seq", "head"} => len[head % N] = Payload
  /\ tx = "head" => seq[head % N] = head + 1
  /\ rx \in {"slot_seq", "accept"} => rx_len = len[tail % N]
  /\ rx # "invalid"

RingInv == PhaseInv /\ BytesInv /\ SlotsInv
-----------------------------------------------------------------------------
(***************************************************************************)
(* Refinement: the ring is a bounded FIFO of chunk lengths.                *)
(***************************************************************************)
Fifo == INSTANCE BoundedFifo WITH
  Item <- 0..Total,
  Bound <- N,
  queue <- [k \in 1..(head - tail) |-> len[(tail + k - 1) % slot_count]],
  delivered <- received

\* Every step of the two programs puts one chunk at the end of the queue, takes
\* the first one, starts a new ring, or changes nothing.
ImplementsFifo == Fifo!Spec
=============================================================================
