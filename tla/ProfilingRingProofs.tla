------------------------ MODULE ProfilingRingProofs -------------------------
(***************************************************************************)
(* Proofs about ProfilingRing, for every window, chunk and total size and  *)
(* every number of runs.                                                   *)
(***************************************************************************)
EXTENDS ProfilingRing, SequenceTheorems, TLAPS
-----------------------------------------------------------------------------
(***************************************************************************)
(* The layout of the ring.                                                 *)
(***************************************************************************)
\* Division rounds down.
LEMMA DivMod ==
  ASSUME NEW a \in Nat, NEW b \in Nat, b > 0
  PROVE  /\ a \div b \in Nat /\ a % b \in 0..(b - 1)
         /\ a % b = a - b * (a \div b)
<1>1. a \div b \in Nat /\ a % b \in 0..(b - 1)
  OBVIOUS
<1>2. a % b = a - b * (a \div b)
  OBVIOUS
<1> QED
  BY <1>1, <1>2

\* Positions less than n apart are in different places of a ring of n places.
LEMMA PlacesDiffer ==
  ASSUME NEW n \in Nat, n > 0, NEW a \in Nat, NEW b \in Nat,
         a < b, b < a + n
  PROVE  a % n # b % n
<1> SUFFICES ASSUME a % n = b % n PROVE FALSE
  OBVIOUS
<1> DEFINE qa == a \div n
           qb == b \div n
           r  == a % n
<1>1. /\ qa \in Nat /\ qb \in Nat /\ r \in 0..(n - 1)
      /\ r = a - n * qa /\ r = b - n * qb
  BY DivMod
<1> HIDE DEF qa, qb, r
<1>2. b - a = n * (qb - qa)
  BY <1>1
<1>3. qb - qa >= 1
  BY <1>1, <1>2
<1>4. n * (qb - qa) >= n
  BY <1>1, <1>3
<1> QED
  BY <1>2, <1>4

\* The slot size and the number of slots that run_rx chooses are numbers, and
\* the slot fits the window.
LEMMA GeometryTyped ==
  ASSUME NEW capacity \in Nat, NEW chunk \in Nat
  PROVE  /\ SlotSize(capacity, chunk) \in Nat
         /\ SlotSize(capacity, chunk) <= chunk
         /\ \A size \in Nat : SlotCount(capacity, size) \in 0..UINT32_MAX
<1>1. SlotSize(capacity, chunk) \in Nat /\ SlotSize(capacity, chunk) <= chunk
  BY DEF SlotSize, MaxSlotSize, HeaderSize, SlotHeaderSize
<1>2. ASSUME NEW size \in Nat, size # 0, capacity > HeaderSize
      PROVE  SlotCount(capacity, size) \in 0..UINT32_MAX
  <2>1. capacity - HeaderSize \in Nat /\ Stride(size) \in Nat /\ Stride(size) > 0
    BY <1>2 DEF HeaderSize, Stride, SlotHeaderSize
  <2>2. (capacity - HeaderSize) \div Stride(size) \in Nat
    BY <2>1, DivMod
  <2> QED
    BY <1>2, <2>2, FieldWidth DEF SlotCount, HeaderSize
<1>3. ASSUME NEW size \in Nat, ~(size # 0 /\ capacity > HeaderSize)
      PROVE  SlotCount(capacity, size) \in 0..UINT32_MAX
  BY <1>3, FieldWidth DEF SlotCount, HeaderSize
<1> QED
  BY <1>1, <1>2, <1>3

\* Every slot that ntb_ring_slot returns lies between the ring header and the
\* end of the window, whatever position it is asked for.
THEOREM SlotsInWindow ==
  ASSUME NEW capacity \in Nat, NEW size \in Nat, NEW index \in Nat,
         SlotCount(capacity, size) > 0
  PROVE  LET offset == SlotOffset(SlotCount(capacity, size), size, index)
         IN  /\ HeaderSize <= offset
             /\ offset + Stride(size) <= capacity
<1> DEFINE room   == capacity - HeaderSize
           stride == Stride(size)
           count  == SlotCount(capacity, size)
           place  == index % count
<1>1. room \in Nat /\ stride \in Nat /\ stride > 0
  BY FieldWidth DEF SlotCount, HeaderSize, Stride, SlotHeaderSize
<1>2. count \in Nat /\ count > 0 /\ count <= room \div stride
  <2>1. room \div stride \in Nat
    BY <1>1, DivMod
  <2> QED
    BY <1>1, <2>1, FieldWidth DEF SlotCount, HeaderSize
<1>3. stride * (room \div stride) <= room
  BY <1>1
<1>4. place \in 0..(count - 1)
  BY <1>2, DivMod
<1> DEFINE most == room \div stride
<1>5. most \in Nat
  BY <1>1, DivMod
<1>6. place * stride + stride <= stride * most /\ place * stride >= 0
  <2> HIDE DEF place, most, stride, count
  <2>1. place + 1 <= most
    BY <1>2, <1>4, <1>5 DEF most
  <2>2. (place + 1) * stride <= most * stride
    BY <1>1, <1>4, <1>5, <2>1
  <2> QED
    BY <1>1, <1>4, <1>5, <2>2
<1>7. SlotOffset(count, size, index) = HeaderSize + place * stride
  BY DEF SlotOffset
<1>8. place * stride \in Nat
  BY <1>1, <1>2, <1>4
<1> QED
  <2> HIDE DEF place, most, stride, count
  <2> DEFINE ps == place * stride
             sm == stride * most
  <2>1. /\ ps \in Nat /\ sm \in Nat
        /\ ps + stride <= sm /\ sm <= room
    BY <1>1, <1>3, <1>5, <1>6, <1>8 DEF most
  <2>2. SlotOffset(count, size, index) = HeaderSize + ps
    BY <1>7
  <2> HIDE DEF ps, sm
  <2>3. HeaderSize <= HeaderSize + ps /\ HeaderSize + ps + stride <= capacity
    BY <1>1, <2>1 DEF HeaderSize
  <2> QED
    BY <2>2, <2>3 DEF count, stride

\* ntb_ring_calc_slot_count returns the largest number of slots that fit behind
\* the header, as far as the slot_count field can hold it.
THEOREM MostSlots ==
  ASSUME NEW capacity \in Nat, NEW size \in Nat \ {0}
  PROVE  LET n == SlotCount(capacity, size)
         IN  /\ n > 0 => HeaderSize + n * Stride(size) <= capacity
             /\ n < UINT32_MAX => HeaderSize + (n + 1) * Stride(size) > capacity
<1> DEFINE stride == Stride(size)
           n      == SlotCount(capacity, size)
<1>1. stride \in Nat /\ stride > 64
  BY DEF Stride, SlotHeaderSize
<1>2. CASE capacity <= HeaderSize
  <2>1. n = 0
    BY <1>2 DEF SlotCount
  <2> QED
    BY <1>1, <1>2, <2>1 DEF HeaderSize
<1>3. CASE capacity > HeaderSize
  <2> DEFINE room == capacity - HeaderSize
             most == room \div stride
             rest == room % stride
  <2>1. room \in Nat
    BY <1>3 DEF HeaderSize
  <2>2. most \in Nat /\ rest \in 0..(stride - 1) /\ rest = room - stride * most
    BY <1>1, <2>1, DivMod
  <2>3. n = IF most > UINT32_MAX THEN UINT32_MAX ELSE most
    BY <1>3 DEF SlotCount, HeaderSize
  <2> HIDE DEF stride, most, rest, n, room
  <2>4. n \in Nat /\ n <= most
    BY <2>2, <2>3, FieldWidth
  <2>5. n * stride <= stride * most
    BY <1>1, <2>2, <2>4
  <2>6. n * stride <= room
    <3> DEFINE sm == stride * most
               ns == n * stride
    <3>1. sm \in Nat /\ ns \in Nat
      BY <1>1, <2>2, <2>4
    <3> QED
      BY <2>1, <2>2, <2>5, <3>1
  <2>7. ASSUME n < UINT32_MAX PROVE (n + 1) * stride > room
    <3>1. n = most
      BY <2>2, <2>3, <2>7, FieldWidth
    <3>2. (n + 1) * stride = stride * most + stride
      BY <1>1, <2>2, <3>1
    <3> QED
      BY <1>1, <2>1, <2>2, <3>2
  <2>8. n * stride \in Nat /\ (n + 1) * stride \in Nat
    BY <1>1, <2>4
  <2> DEFINE a == n * stride
             b == (n + 1) * stride
  <2>9. a \in Nat /\ b \in Nat /\ a <= room /\ (n < UINT32_MAX => b > room)
    BY <2>6, <2>7, <2>8
  <2> HIDE DEF a, b
  <2>10. HeaderSize + a <= capacity /\ (n < UINT32_MAX => HeaderSize + b > capacity)
    BY <2>1, <2>9 DEF room, HeaderSize
  <2> QED
    BY <2>10 DEF a, b, n, stride
<1> QED
  BY <1>2, <1>3 DEF HeaderSize

\* run_rx gets a ring with at least one slot from exactly the windows that have
\* room for the two headers and one byte, however large a chunk it is asked for.
THEOREM AlwaysASlot ==
  ASSUME NEW capacity \in Nat, NEW chunk \in Nat \ {0}
  PROVE  SlotCount(capacity, SlotSize(capacity, chunk)) > 0
           <=> capacity > HeaderSize + SlotHeaderSize
<1> DEFINE size == SlotSize(capacity, chunk)
           n    == SlotCount(capacity, size)
<1>1. size \in Nat /\ n \in 0..UINT32_MAX
  BY GeometryTyped
<1>2. CASE capacity <= HeaderSize + SlotHeaderSize
  <2>1. size = 0
    BY <1>2 DEF SlotSize, MaxSlotSize
  <2>2. n = 0
    BY <2>1 DEF SlotCount
  <2> QED
    BY <1>2, <2>2 DEF HeaderSize, SlotHeaderSize
<1>3. CASE capacity > HeaderSize + SlotHeaderSize
  <2>1. size \in Nat \ {0} /\ HeaderSize + Stride(size) <= capacity
    BY <1>3 DEF SlotSize, MaxSlotSize, Stride, HeaderSize, SlotHeaderSize
  <2>2. n < UINT32_MAX => HeaderSize + (n + 1) * Stride(size) > capacity
    BY <2>1, MostSlots
  <2>3. n # 0
    <3> SUFFICES ASSUME n = 0 PROVE FALSE
      OBVIOUS
    <3>1. (n + 1) * Stride(size) = Stride(size)
      BY <2>1 DEF Stride, SlotHeaderSize
    <3>2. n < UINT32_MAX
      BY FieldWidth
    <3>3. HeaderSize + Stride(size) > capacity
      BY <2>2, <3>1, <3>2
    <3> QED
      BY <2>1, <3>3 DEF Stride, SlotHeaderSize, HeaderSize
  <2> QED
    BY <1>1, <1>3, <2>3, FieldWidth
<1> QED
  BY <1>2, <1>3 DEF HeaderSize, SlotHeaderSize

\* The slots that ntb_ring_slot returns for positions less than slot_count apart
\* do not overlap.
THEOREM SlotsApart ==
  ASSUME NEW count \in Nat, count > 0, NEW size \in Nat,
         NEW i \in Nat, NEW j \in Nat, i < j, j < i + count
  PROVE  LET a == SlotOffset(count, size, i)
             b == SlotOffset(count, size, j)
         IN  a + Stride(size) <= b \/ b + Stride(size) <= a
<1> DEFINE p == i % count
           q == j % count
           stride == Stride(size)
<1>1. stride \in Nat
  BY DEF Stride, SlotHeaderSize
<1>2. p \in Nat /\ q \in Nat /\ p # q
  <2>1. p \in 0..(count - 1) /\ q \in 0..(count - 1)
    BY DivMod
  <2>2. p # q
    BY PlacesDiffer
  <2> QED
    BY <2>1, <2>2
<1>3. /\ SlotOffset(count, size, i) = HeaderSize + p * stride
      /\ SlotOffset(count, size, j) = HeaderSize + q * stride
  BY DEF SlotOffset
<1> HIDE DEF p, q, stride
<1>4. p * stride + stride <= q * stride \/ q * stride + stride <= p * stride
  <2>1. ASSUME NEW x \in Nat, NEW y \in Nat, x < y
        PROVE  x * stride + stride <= y * stride
    <3>1. (x + 1) * stride <= y * stride
      BY <1>1, <2>1
    <3> QED
      BY <1>1, <3>1
  <2>2. CASE p < q
    BY <1>2, <2>1, <2>2
  <2>3. CASE q < p
    BY <1>2, <2>1, <2>3
  <2> QED
    BY <1>2, <2>2, <2>3
<1> DEFINE ps == p * stride
           qs == q * stride
<1>5. ps \in Nat /\ qs \in Nat /\ (ps + stride <= qs \/ qs + stride <= ps)
  BY <1>1, <1>2, <1>4
<1> HIDE DEF ps, qs
<1>6. \/ HeaderSize + ps + stride <= HeaderSize + qs
      \/ HeaderSize + qs + stride <= HeaderSize + ps
  BY <1>1, <1>5 DEF HeaderSize
<1> QED
  BY <1>3, <1>6 DEF ps, qs, stride
-----------------------------------------------------------------------------
(***************************************************************************)
(* The two processes.                                                      *)
(***************************************************************************)
\* The geometry of the ring.
LEMMA RingTyped == N \in Nat /\ slot_size \in Nat
BY GeometryTyped, RingConstants, FieldWidth DEF N, slot_size

\* A position has a place in a ring that has slots.
LEMMA PlaceOf == ASSUME N > 0, NEW k \in Nat PROVE k % N \in Places
BY RingTyped, DivMod DEF Places

\* The bytes in the first k chunks: none in no chunk, and chunk k + 1 is what
\* run_tx computes as payload when it has sent k chunks.
LEMMA SentFacts ==
  /\ SentAfter(0) = 0
  /\ \A k \in Nat : SentAfter(k) \in 0..Total
  /\ \A k \in Nat : SentAfter(k + 1) = SentAfter(k) +
       (IF Total - SentAfter(k) < TxChunk THEN Total - SentAfter(k) ELSE TxChunk)
<1>1. SentAfter(0) = 0
  BY RingConstants DEF SentAfter
<1>2. ASSUME NEW k \in Nat PROVE SentAfter(k) \in 0..Total
  BY RingConstants DEF SentAfter
<1>3. ASSUME NEW k \in Nat
      PROVE  SentAfter(k + 1) = SentAfter(k) +
               (IF Total - SentAfter(k) < TxChunk THEN Total - SentAfter(k)
                                                  ELSE TxChunk)
  <2> DEFINE b == k * TxChunk
  <2>1. b \in Nat /\ (k + 1) * TxChunk = b + TxChunk
    BY RingConstants
  <2> HIDE DEF b
  <2>2. /\ SentAfter(k) = IF b < Total THEN b ELSE Total
        /\ SentAfter(k + 1) = IF b + TxChunk < Total THEN b + TxChunk ELSE Total
    BY <2>1 DEF SentAfter, b
  <2> QED
    BY <2>1, <2>2, RingConstants
<1> QED
  BY <1>1, <1>2, <1>3

\* The payload of the next chunk.
LEMMA PayloadFacts ==
  ASSUME sent \in 0..Total
  PROVE  /\ Payload \in 0..Total /\ sent + Payload \in 0..Total
         /\ Payload <= TxChunk
         /\ sent < Total => Payload > 0
BY RingConstants DEF Payload

Inv == TypeOK /\ RingInv

\* The types are preserved.
LEMMA TypeStep == Inv /\ [Next]_vars => TypeOK'
<1> SUFFICES ASSUME Inv, [Next]_vars PROVE TypeOK'
  OBVIOUS
<1> USE RingConstants, RingTyped
       DEF Inv, TypeOK, RingInv, header, rx_locals,
           Ended, Reading, Receiving, Filling, Sending
<1>1. CASE RxStart
  <2>1. CASE N = 0
    BY <1>1, <2>1 DEF RxStart, Ended
  <2>2. CASE N # 0
    <3>1. magic' = FALSE /\ rx' = "reset"
      BY <1>1, <2>2 DEF RxStart
    <3>2. rx_runs' \in 0..MaxRuns
      BY <1>1 DEF RxStart
    <3>3. UNCHANGED <<slot_count, flags, head, tail, total_bytes, seq, len,
                      rx_locals, tx, tx_count, sent, tx_runs>>
      BY <1>1 DEF RxStart
    <3> QED
      BY <3>1, <3>2, <3>3 DEF Ended
  <2> QED
    BY <2>1, <2>2
<1>2. CASE RxReset
  BY <1>2 DEF RxReset
<1>3. CASE RxPublish
  BY <1>3 DEF RxPublish
<1>4. CASE RxPoll
  BY <1>4 DEF RxPoll
<1>5. CASE RxLen
  BY <1>5, PlaceOf DEF RxLen, PhaseInv, Reading, Receiving
<1>6. CASE RxSeq
  BY <1>6 DEF RxSeq
<1>7. CASE RxAccept
  BY <1>7 DEF RxAccept
<1>8. CASE RxFlags
  BY <1>8 DEF RxFlags
<1>9. CASE RxLast
  BY <1>9 DEF RxLast
<1>10. CASE RxFail
  BY <1>10 DEF RxFail
<1>11. CASE TxStart
  BY <1>11 DEF TxStart
<1>12. CASE TxFind
  BY <1>12 DEF TxFind, RingFound
<1>13. CASE TxSpace
  BY <1>13 DEF TxSpace
<1>14. CASE TxFill
  BY <1>14, PayloadFacts DEF TxFill
<1>15. CASE TxSeq
  <2>1. seq' \in [Places -> Nat]
    <3>1. head + 1 \in Nat /\ seq \in [Places -> Nat]
      OBVIOUS
    <3>2. seq' = [seq EXCEPT ![head % slot_count] = head + 1]
      BY <1>15 DEF TxSeq
    <3> QED
      BY <3>1, <3>2, Zenon
  <2> QED
    BY <1>15, <2>1 DEF TxSeq, Ended
<1>16. CASE TxHead
  BY <1>16, PayloadFacts DEF TxHead
<1>17. CASE TxDrain
  BY <1>17 DEF TxDrain
<1>18. CASE TxTotals
  BY <1>18 DEF TxTotals
<1>19. CASE TxDone
  BY <1>19 DEF TxDone
<1>20. CASE TxFail
  BY <1>20 DEF TxFail
<1>21. CASE UNCHANGED vars
  BY <1>21 DEF vars, PhaseInv, BytesInv, SlotsInv, Payload
<1> QED
  BY <1>1, <1>2, <1>3, <1>4, <1>5, <1>6, <1>7, <1>8, <1>9, <1>10,
     <1>11, <1>12, <1>13, <1>14, <1>15, <1>16, <1>17, <1>18, <1>19,
     <1>20, <1>21 DEF Next, RxStep, TxStep

\* The phases and flow control are preserved.
LEMMA PhaseStep == Inv /\ [Next]_vars => PhaseInv'
<1> SUFFICES ASSUME Inv, [Next]_vars PROVE PhaseInv'
  OBVIOUS
<1> USE RingConstants, RingTyped
       DEF Inv, TypeOK, RingInv, header, rx_locals,
           Ended, Reading, Receiving, Filling, Sending
<1>1. CASE RxStart
  BY <1>1 DEF RxStart, PhaseInv
<1>2. CASE RxReset
  BY <1>2 DEF RxReset, PhaseInv
<1>3. CASE RxPublish
  BY <1>3 DEF RxPublish, PhaseInv
<1>4. CASE RxPoll
  BY <1>4 DEF RxPoll, PhaseInv
<1>5. CASE RxLen
  BY <1>5 DEF RxLen, PhaseInv
<1>6. CASE RxSeq
  BY <1>6 DEF RxSeq, PhaseInv
<1>7. CASE RxAccept
  BY <1>7 DEF RxAccept, PhaseInv
<1>8. CASE RxFlags
  BY <1>8 DEF RxFlags, PhaseInv
<1>9. CASE RxLast
  BY <1>9 DEF RxLast, PhaseInv
<1>10. CASE RxFail
  BY <1>10 DEF RxFail, PhaseInv
<1>11. CASE TxStart
  BY <1>11 DEF TxStart, PhaseInv
<1>12. CASE TxFind
  BY <1>12 DEF TxFind, PhaseInv, RingFound
<1>13. CASE TxSpace
  BY <1>13 DEF TxSpace, PhaseInv
<1>14. CASE TxFill
  BY <1>14 DEF TxFill, PhaseInv
<1>15. CASE TxSeq
  BY <1>15 DEF TxSeq, PhaseInv
<1>16. CASE TxHead
  BY <1>16 DEF TxHead, PhaseInv
<1>17. CASE TxDrain
  BY <1>17 DEF TxDrain, PhaseInv
<1>18. CASE TxTotals
  BY <1>18 DEF TxTotals, PhaseInv
<1>19. CASE TxDone
  BY <1>19 DEF TxDone, PhaseInv
<1>20. CASE TxFail
  BY <1>20 DEF TxFail, PhaseInv, RingFound
<1>21. CASE UNCHANGED vars
  BY <1>21 DEF vars, PhaseInv, BytesInv, SlotsInv, Payload
<1> QED
  BY <1>1, <1>2, <1>3, <1>4, <1>5, <1>6, <1>7, <1>8, <1>9, <1>10,
     <1>11, <1>12, <1>13, <1>14, <1>15, <1>16, <1>17, <1>18, <1>19,
     <1>20, <1>21 DEF Next, RxStep, TxStep

\* The byte counts are preserved.
LEMMA BytesStep == Inv /\ [Next]_vars => BytesInv'
<1> SUFFICES ASSUME Inv, [Next]_vars PROVE BytesInv'
  OBVIOUS
<1> USE RingConstants, RingTyped
       DEF Inv, TypeOK, RingInv, header, rx_locals,
           Ended, Reading, Receiving, Filling, Sending
<1>1. CASE RxStart
  BY <1>1 DEF RxStart, PhaseInv, BytesInv
<1>2. CASE RxReset
  BY <1>2, SentFacts DEF RxReset, PhaseInv, BytesInv
<1>3. CASE RxPublish
  BY <1>3 DEF RxPublish, PhaseInv, BytesInv
<1>4. CASE RxPoll
  BY <1>4 DEF RxPoll, PhaseInv, BytesInv
<1>5. CASE RxLen
  BY <1>5 DEF RxLen, PhaseInv, BytesInv
<1>6. CASE RxSeq
  BY <1>6 DEF RxSeq, PhaseInv, BytesInv
<1>7. CASE RxAccept
  <2>1. /\ received' = received + rx_len /\ tail' = tail + 1
        /\ UNCHANGED <<head, flags, total_bytes, tx, sent>>
    BY <1>7 DEF RxAccept
  <2>2. tail < head /\ rx_len = len[tail % N] /\ ~flags
    BY <1>7 DEF RxAccept, PhaseInv, SlotsInv
  <2>3. tail \in tail..(head - 1)
    BY <2>2
  <2>4. rx_len = SentAfter(tail + 1) - SentAfter(tail)
    BY <2>2, <2>3 DEF SlotsInv
  <2>5. SentAfter(tail) \in Nat /\ SentAfter(tail + 1) \in Nat
    BY SentFacts
  <2>6. received' = SentAfter(tail')
    BY <2>1, <2>4, <2>5 DEF BytesInv
  <2> QED
    BY <2>1, <2>2, <2>6 DEF BytesInv
<1>8. CASE RxFlags
  BY <1>8 DEF RxFlags, PhaseInv, BytesInv
<1>9. CASE RxLast
  BY <1>9 DEF RxLast, PhaseInv, BytesInv
<1>10. CASE RxFail
  BY <1>10 DEF RxFail, PhaseInv, BytesInv
<1>11. CASE TxStart
  BY <1>11 DEF TxStart, PhaseInv, BytesInv
<1>12. CASE TxFind
  BY <1>12, SentFacts DEF TxFind, PhaseInv, BytesInv, RingFound
<1>13. CASE TxSpace
  BY <1>13 DEF TxSpace, PhaseInv, BytesInv
<1>14. CASE TxFill
  BY <1>14 DEF TxFill, PhaseInv, BytesInv
<1>15. CASE TxSeq
  BY <1>15 DEF TxSeq, PhaseInv, BytesInv
<1>16. CASE TxHead
  <2>1. /\ tx = "head" /\ head' = head + 1 /\ sent' = sent + Payload
        /\ tx' = IF sent + Payload < Total THEN "space" ELSE "drain"
        /\ UNCHANGED <<tail, flags, total_bytes, received>>
    BY <1>16 DEF TxHead
  <2>2. sent = SentAfter(head) /\ ~flags
    BY <2>1 DEF PhaseInv, BytesInv
  <2>3. sent' = SentAfter(head')
    BY <2>1, <2>2, SentFacts DEF Payload
  <2>4. sent + Payload \in 0..Total
    BY PayloadFacts
  <2> QED
    BY <2>1, <2>2, <2>3, <2>4 DEF BytesInv
<1>17. CASE TxDrain
  BY <1>17 DEF TxDrain, PhaseInv, BytesInv
<1>18. CASE TxTotals
  BY <1>18 DEF TxTotals, PhaseInv, BytesInv
<1>19. CASE TxDone
  BY <1>19 DEF TxDone, PhaseInv, BytesInv
<1>20. CASE TxFail
  BY <1>20 DEF TxFail, PhaseInv, BytesInv, RingFound
<1>21. CASE UNCHANGED vars
  BY <1>21 DEF vars, PhaseInv, BytesInv, SlotsInv, Payload
<1> QED
  BY <1>1, <1>2, <1>3, <1>4, <1>5, <1>6, <1>7, <1>8, <1>9, <1>10,
     <1>11, <1>12, <1>13, <1>14, <1>15, <1>16, <1>17, <1>18, <1>19,
     <1>20, <1>21 DEF Next, RxStep, TxStep

\* The contents of the slots are preserved.
LEMMA SlotsStep == Inv /\ [Next]_vars => SlotsInv'
<1> SUFFICES ASSUME Inv, [Next]_vars PROVE SlotsInv'
  OBVIOUS
<1> USE RingConstants, RingTyped
       DEF Inv, TypeOK, RingInv, header, rx_locals,
           Ended, Reading, Receiving, Filling, Sending
<1>1. CASE RxStart
  BY <1>1 DEF RxStart, PhaseInv, SlotsInv, Payload
<1>2. CASE RxReset
  <2>1. head' = 0 /\ tail' = 0 /\ rx' = "publish" /\ tx' = tx
    BY <1>2 DEF RxReset
  <2>2. tx \notin {"seq", "head"}
    BY <1>2 DEF RxReset, PhaseInv
  <2>3. \A k \in tail'..(head' - 1) : FALSE
    BY <2>1
  <2> QED
    BY <2>1, <2>2, <2>3 DEF SlotsInv
<1>3. CASE RxPublish
  BY <1>3 DEF RxPublish, PhaseInv, SlotsInv, Payload
<1>4. CASE RxPoll
  BY <1>4 DEF RxPoll, PhaseInv, SlotsInv, Payload
<1>5. CASE RxLen
  BY <1>5, PlaceOf DEF RxLen, PhaseInv, SlotsInv, Payload
<1>6. CASE RxSeq
  <2>1. /\ slot_count = N /\ tail \in tail..(head - 1)
        /\ rx_len = len[tail % N] /\ rx' = "accept"
    <3>1. magic /\ slot_count = N /\ tail < head /\ rx_len = len[tail % N]
      BY <1>6 DEF RxSeq, PhaseInv, SlotsInv, Reading, Receiving
    <3>2. tail \in tail..(head - 1)
      BY <3>1
    <3>3. seq[tail % N] = tail + 1 /\ len[tail % N] <= slot_size
      BY <3>2 DEF SlotsInv
    <3>4. ~(seq[tail % slot_count] # tail + 1 \/ rx_len > slot_size)
      <4>1. len[tail % N] \in Nat
        BY <3>1, PlaceOf DEF PhaseInv
      <4> QED
        BY <3>1, <3>3, <4>1
    <3> QED
      BY <1>6, <3>1, <3>2, <3>4 DEF RxSeq
  <2> QED
    BY <1>6, <2>1 DEF RxSeq, SlotsInv, Payload
<1>7. CASE RxAccept
  <2>1. tail' = tail + 1 /\ rx' = "poll" /\ UNCHANGED <<head, seq, len, tx, sent>>
    BY <1>7 DEF RxAccept
  <2>2. \A k \in (tail + 1)..(head - 1) : k \in tail..(head - 1)
    OBVIOUS
  <2> QED
    BY <2>1, <2>2 DEF SlotsInv, Payload
<1>8. CASE RxFlags
  BY <1>8 DEF RxFlags, PhaseInv, SlotsInv, Payload
<1>9. CASE RxLast
  BY <1>9 DEF RxLast, PhaseInv, SlotsInv, Payload
<1>10. CASE RxFail
  BY <1>10 DEF RxFail, PhaseInv, SlotsInv, Payload
<1>11. CASE TxStart
  BY <1>11 DEF TxStart, PhaseInv, SlotsInv, Payload
<1>12. CASE TxFind
  BY <1>12 DEF TxFind, PhaseInv, SlotsInv, Payload
<1>13. CASE TxSpace
  BY <1>13 DEF TxSpace, PhaseInv, SlotsInv, Payload
<1>14. CASE TxFill
  <2> DEFINE h == head % N
  <2>1. /\ N > 0 /\ slot_count = N /\ tail <= head /\ head < tail + N
        /\ rx \in Reading => tail < head
    BY <1>14 DEF TxFill, PhaseInv, Filling, Sending
  <2>2. /\ len' = [len EXCEPT ![h] = Payload] /\ tx' = "seq"
        /\ UNCHANGED <<head, tail, seq, rx, rx_len, sent>>
    BY <1>14, <2>1 DEF TxFill
  <2>3. h \in Places
    BY <2>1, PlaceOf
  <2>4. ASSUME NEW k \in tail..(head - 1)
        PROVE  k % N # h /\ k % N \in Places
    <3>1. k \in Nat /\ k < head /\ head < k + N
      BY <2>1
    <3> QED
      BY <2>1, <3>1, PlacesDiffer, PlaceOf
  <2> HIDE DEF h
  <2>5. \A k \in tail..(head - 1) : len'[k % N] = len[k % N]
    BY <2>2, <2>4
  <2>6. len'[h] = Payload
    BY <2>2, <2>3
  <2>7. rx \in Reading => len'[tail % N] = len[tail % N]
    <3>1. rx \in Reading => tail \in tail..(head - 1)
      BY <2>1
    <3> QED
      BY <2>5, <3>1
  <2> QED
    BY <1>14, <2>2, <2>5, <2>6, <2>7 DEF TxFill, SlotsInv, Payload, h, Reading
<1>15. CASE TxSeq
  <2> DEFINE h == head % N
  <2>1. /\ N > 0 /\ slot_count = N /\ tail <= head /\ head < tail + N
        /\ rx \in Reading => tail < head
    BY <1>15 DEF TxSeq, PhaseInv, Filling, Sending
  <2>2. /\ seq' = [seq EXCEPT ![h] = head + 1] /\ tx' = "head"
        /\ UNCHANGED <<head, tail, len, rx, rx_len, sent>>
    BY <1>15, <2>1 DEF TxSeq
  <2>3. h \in Places
    BY <2>1, PlaceOf
  <2>4. ASSUME NEW k \in tail..(head - 1)
        PROVE  k % N # h /\ k % N \in Places
    <3>1. k \in Nat /\ k < head /\ head < k + N
      BY <2>1
    <3> QED
      BY <2>1, <3>1, PlacesDiffer, PlaceOf
  <2> HIDE DEF h
  <2>5. \A k \in tail..(head - 1) : seq'[k % N] = seq[k % N]
    BY <2>2, <2>4
  <2>6. seq'[h] = head + 1
    BY <2>2, <2>3
  <2>7. rx \in Reading => seq'[tail % N] = seq[tail % N]
    <3>1. rx \in Reading => tail \in tail..(head - 1)
      BY <2>1
    <3> QED
      BY <2>5, <3>1
  <2> QED
    BY <1>15, <2>2, <2>5, <2>6, <2>7 DEF TxSeq, SlotsInv, Payload, h, Reading
<1>16. CASE TxHead
  <2>1. /\ head' = head + 1 /\ tx' \in {"space", "drain"}
        /\ UNCHANGED <<tail, seq, len, rx, rx_len>>
    BY <1>16 DEF TxHead
  <2>2. /\ seq[head % N] = head + 1 /\ len[head % N] = Payload
        /\ Payload = SentAfter(head + 1) - SentAfter(head)
        /\ Payload <= slot_size
    <3>1. /\ seq[head % N] = head + 1 /\ len[head % N] = Payload
          /\ sent = SentAfter(head) /\ TxChunk <= slot_size
      BY <1>16 DEF TxHead, PhaseInv, BytesInv, SlotsInv, Filling, Sending
    <3>2. SentAfter(head) \in 0..Total /\ SentAfter(head + 1) = sent + Payload
      BY <3>1, SentFacts DEF Payload
    <3>3. Payload \in Nat /\ Payload <= TxChunk
      BY PayloadFacts
    <3> QED
      BY <3>1, <3>2, <3>3
  <2>3. \A k \in tail..((head + 1) - 1) : k = head \/ k \in tail..(head - 1)
    OBVIOUS
  <2> QED
    BY <2>1, <2>2, <2>3 DEF SlotsInv
<1>17. CASE TxDrain
  BY <1>17 DEF TxDrain, PhaseInv, SlotsInv, Payload
<1>18. CASE TxTotals
  BY <1>18 DEF TxTotals, PhaseInv, SlotsInv, Payload
<1>19. CASE TxDone
  BY <1>19 DEF TxDone, PhaseInv, SlotsInv, Payload
<1>20. CASE TxFail
  BY <1>20 DEF TxFail, PhaseInv, SlotsInv, RingFound, Payload
<1>21. CASE UNCHANGED vars
  BY <1>21 DEF vars, PhaseInv, BytesInv, SlotsInv, Payload
<1> QED
  BY <1>1, <1>2, <1>3, <1>4, <1>5, <1>6, <1>7, <1>8, <1>9, <1>10,
     <1>11, <1>12, <1>13, <1>14, <1>15, <1>16, <1>17, <1>18, <1>19,
     <1>20, <1>21 DEF Next, RxStep, TxStep

\* Types, phases, byte counts and slots hold in every reachable state.
THEOREM InvCorrect == Spec => []Inv
<1>1. Init => Inv
  <2> SUFFICES ASSUME Init PROVE Inv
    OBVIOUS
  <2>1. TypeOK
    <3>1. seq \in [Places -> Nat]
      BY DEF Init
    <3>2. 0 \in 0..Total /\ 0 \in 0..MaxRuns
      BY RingConstants
    <3>3. len \in [Places -> 0..Total]
      BY <3>2 DEF Init
    <3> QED
      BY <3>1, <3>2, <3>3 DEF Init, TypeOK, Ended
  <2>2. RingInv
    BY RingConstants, RingTyped, SentFacts
       DEF Init, RingInv, PhaseInv, BytesInv, SlotsInv, Ended, Reading, Receiving,
           Filling, Sending
  <2> QED
    BY <2>1, <2>2 DEF Inv
<1>2. Inv /\ [Next]_vars => Inv'
  BY TypeStep, PhaseStep, BytesStep, SlotsStep DEF Inv, RingInv
<1> QED
  BY <1>1, <1>2, PTL DEF Spec

\* The variables of both programs keep their types.
THEOREM RingTypeCorrect == Spec => []TypeOK
<1>1. Inv => TypeOK
  BY DEF Inv
<1> QED
  BY <1>1, InvCorrect, PTL

\* The phases, byte counts and slot contents that RingInv relates hold
\* throughout any number of runs.
THEOREM RingCorrect == Spec => []RingInv
<1>1. Inv => RingInv
  BY DEF Inv
<1> QED
  BY <1>1, InvCorrect, PTL

\* The receiver never takes the "invalid ring slot" exit.
THEOREM SlotsValid == Spec => []NoInvalidSlot
<1>1. Inv => NoInvalidSlot
  BY DEF Inv, RingInv, SlotsInv, NoInvalidSlot
<1> QED
  BY <1>1, InvCorrect, PTL

\* A receiver that returns 0 has accepted exactly Total bytes.
THEOREM ReceiverComplete == Spec => []ReceiverSuccess
<1>1. Inv => ReceiverSuccess
  BY DEF Inv, RingInv, PhaseInv, BytesInv, ReceiverSuccess
<1> QED
  BY <1>1, InvCorrect, PTL

\* When DONE is set the receiver has accepted exactly Total bytes.
THEOREM SenderComplete == Spec => []SenderSuccess
<1>1. Inv => SenderSuccess
  BY DEF Inv, RingInv, PhaseInv, BytesInv, SenderSuccess
<1> QED
  BY <1>1, InvCorrect, PTL

\* The sender stores to no slot that the receiver has yet to accept.
THEOREM UnreadKept == Spec => UnreadSlotsKept
<1> DEFINE Kept == \A k \in tail..(head - 1) :
                     /\ seq'[k % slot_count] = seq[k % slot_count]
                     /\ len'[k % slot_count] = len[k % slot_count]
<1>1. Inv /\ [Next]_vars => [Kept]_vars
  <2> SUFFICES ASSUME Inv, Next PROVE Kept
    BY DEF vars
  <2>1. CASE UNCHANGED <<seq, len>>
    BY <2>1
  <2>2. CASE TxFill \/ TxSeq
    <3>1. /\ N \in Nat /\ N > 0 /\ slot_count = N /\ head < tail + N
          /\ head \in Nat /\ tail \in Nat
          /\ seq \in [Places -> Nat] /\ len \in [Places -> 0..Total]
      BY <2>2, RingTyped
         DEF Inv, TypeOK, RingInv, PhaseInv, TxFill, TxSeq, Filling, Sending
    <3>2. ASSUME NEW k \in tail..(head - 1)
          PROVE  k % N # head % N /\ k % N \in Places
      <4>1. k \in Nat /\ k < head /\ head < k + N
        BY <3>1
      <4> QED
        BY <3>1, <4>1, PlacesDiffer, PlaceOf
    <3> DEFINE h == head % N
    <3>3. \/ len' = [len EXCEPT ![h] = Payload] /\ seq' = seq
          \/ seq' = [seq EXCEPT ![h] = head + 1] /\ len' = len
      BY <2>2, <3>1 DEF TxFill, TxSeq
    <3> HIDE DEF h
    <3> QED
      BY <3>1, <3>2, <3>3 DEF h
  <2> QED
    BY <2>1, <2>2
       DEF Next, RxStep, TxStep, RxStart, RxReset, RxPublish, RxPoll, RxLen, RxSeq,
           RxAccept, RxFlags, RxLast, RxFail, TxStart, TxFind, TxSpace, TxHead,
           TxDrain, TxTotals, TxDone, TxFail
<1>2. [][Kept]_vars => UnreadSlotsKept
  BY PTL DEF UnreadSlotsKept
<1> QED
  BY <1>1, <1>2, InvCorrect, PTL DEF Spec
-----------------------------------------------------------------------------
(***************************************************************************)
(* The chunks between tail a and head b, in the places of a ring of m      *)
(* slots: what the queue of BoundedFifo is for this ring.                  *)
(***************************************************************************)
Chunks(g, a, b, m) == [k \in 1..(b - a) |-> g[(a + k - 1) % m]]
Sizes == 0..Total

LEMMA ChunksSeq ==
  ASSUME NEW g, NEW a \in Nat, NEW b \in Nat, NEW m, a <= b,
         \A k \in a..(b - 1) : g[k % m] \in Sizes
  PROVE  Chunks(g, a, b, m) \in Seq(Sizes) /\ Len(Chunks(g, a, b, m)) = b - a
<1>1. b - a \in Nat
  OBVIOUS
<1>2. \A k \in 1..(b - a) : g[(a + k - 1) % m] \in Sizes
  <2>1. ASSUME NEW k \in 1..(b - a) PROVE a + k - 1 \in a..(b - 1)
    OBVIOUS
  <2> QED
    BY <2>1
<1> QED
  BY <1>1, <1>2 DEF Chunks

\* Another chunk behind the last one ...
LEMMA ChunksPut ==
  ASSUME NEW g, NEW a \in Nat, NEW b \in Nat, NEW m, a <= b,
         \A k \in a..b : g[k % m] \in Sizes
  PROVE  Chunks(g, a, b + 1, m) = Append(Chunks(g, a, b, m), g[b % m])
<1> DEFINE q == Chunks(g, a, b, m)
           r == Chunks(g, a, b + 1, m)
<1>1. q \in Seq(Sizes) /\ Len(q) = b - a
  BY ChunksSeq
<1>2. r \in Seq(Sizes) /\ Len(r) = b + 1 - a
  BY ChunksSeq
<1>3. ASSUME NEW k \in 1..(b - a) PROVE r[k] = q[k]
  BY DEF Chunks
<1>4. r[b + 1 - a] = g[b % m]
  BY DEF Chunks
<1> HIDE DEF q, r
<1>5. g[b % m] \in Sizes
  OBVIOUS
<1>6. /\ Append(q, g[b % m]) \in Seq(Sizes) /\ Len(Append(q, g[b % m])) = b + 1 - a
      /\ \A k \in 1..(b - a) : Append(q, g[b % m])[k] = q[k]
      /\ Append(q, g[b % m])[b + 1 - a] = g[b % m]
  BY <1>1, <1>5
<1>7. \A k \in 1..(b + 1 - a) : k = b + 1 - a \/ k \in 1..(b - a)
  OBVIOUS
<1>8. r = Append(q, g[b % m])
  BY <1>2, <1>3, <1>4, <1>6, <1>7, SeqEqual
<1> QED
  BY <1>8 DEF q, r

\* ... and the first one taken away.
LEMMA ChunksGet ==
  ASSUME NEW g, NEW a \in Nat, NEW b \in Nat, NEW m, a < b,
         \A k \in a..(b - 1) : g[k % m] \in Sizes
  PROVE  /\ Chunks(g, a, b, m) # <<>> /\ Head(Chunks(g, a, b, m)) = g[a % m]
         /\ Chunks(g, a + 1, b, m) = Tail(Chunks(g, a, b, m))
<1> DEFINE q == Chunks(g, a, b, m)
           r == Chunks(g, a + 1, b, m)
<1>1. q \in Seq(Sizes) /\ Len(q) = b - a
  BY ChunksSeq
<1>2. r \in Seq(Sizes) /\ Len(r) = b - (a + 1)
  BY ChunksSeq
<1>3. ASSUME NEW k \in 1..(b - (a + 1)) PROVE r[k] = q[k + 1]
  <2>1. k \in 1..(b - (a + 1)) /\ k + 1 \in 1..(b - a) /\ (a + 1) + k - 1 = a + (k + 1) - 1
    OBVIOUS
  <2> QED
    BY <2>1 DEF Chunks
<1>4. q[1] = g[a % m]
  BY DEF Chunks
<1> HIDE DEF q, r
<1>5. q # <<>> /\ Head(q) = q[1]
  BY <1>1
<1>6. /\ Tail(q) \in Seq(Sizes) /\ Len(Tail(q)) = b - (a + 1)
      /\ \A k \in 1..(b - (a + 1)) : Tail(q)[k] = q[k + 1]
  BY <1>1, <1>5, HeadTailProperties
<1>7. r = Tail(q)
  BY <1>2, <1>3, <1>6, SeqEqual
<1> QED
  BY <1>4, <1>5, <1>7 DEF q, r

\* The chunks that are under way are lengths of at most Total bytes.
LEMMA ChunksTyped ==
  ASSUME Inv
  PROVE  /\ head \in Nat /\ tail \in Nat /\ tail <= head /\ received \in Nat
         /\ \A k \in tail..(head - 1) : len[k % slot_count] \in Sizes
<1>1. head \in Nat /\ tail \in Nat /\ tail <= head /\ head <= tail + N /\ received \in Nat
  BY DEF Inv, TypeOK, RingInv, PhaseInv
<1>2. ASSUME NEW k \in tail..(head - 1) PROVE len[k % slot_count] \in Sizes
  <2>1. k \in Nat /\ N > 0
    BY <1>1, RingTyped
  <2>2. slot_count = N
    BY <1>1, <2>1 DEF Inv, TypeOK, RingInv, PhaseInv
  <2> QED
    BY <2>1, <2>2, PlaceOf DEF Inv, TypeOK, Sizes
<1> QED
  BY <1>1, <1>2

\* A step puts a chunk in, takes one out, starts over or leaves the queue alone.
LEMMA FifoStep ==
  ASSUME Inv, Inv', [Next]_vars
  PROVE  [Fifo!Next]_(Fifo!fifoVars)
<1> DEFINE q == Chunks(len, tail, head, slot_count)
<1>0. Fifo!fifoVars = <<q, received>> /\ Fifo!fifoVars' = <<q', received'>>
  BY DEF Fifo!fifoVars, Chunks
<1>1. CASE UNCHANGED <<head, tail, len, slot_count, received>>
  BY <1>0, <1>1
<1>2. CASE TxFill
  <2>1. /\ N > 0 /\ slot_count = N /\ head < tail + N
        /\ len \in [Places -> 0..Total] /\ head \in Nat /\ tail \in Nat
    BY <1>2 DEF TxFill, Inv, TypeOK, RingInv, PhaseInv, Filling, Sending
  <2>2. /\ len' = [len EXCEPT ![head % N] = Payload]
        /\ UNCHANGED <<head, tail, slot_count, received>>
    BY <1>2, <2>1 DEF TxFill, header, rx_locals
  <2>3. ASSUME NEW k \in 1..(head - tail)
        PROVE  len'[(tail + k - 1) % N] = len[(tail + k - 1) % N]
    <3> DEFINE j == tail + k - 1
    <3>1. j \in Nat /\ j < head /\ head < j + N
      BY <2>1, RingTyped
    <3> HIDE DEF j
    <3>2. j % N # head % N /\ j % N \in Places
      BY <2>1, <3>1, RingTyped, PlacesDiffer, PlaceOf
    <3>3. len'[j % N] = len[j % N]
      BY <2>1, <2>2, <3>2
    <3> QED
      BY <3>3 DEF j
  <2>4. q' = q
    BY <2>1, <2>2, <2>3 DEF Chunks
  <2> QED
    BY <1>0, <2>2, <2>4
<1>3. CASE TxHead
  <2>1. /\ slot_count = N /\ head \in Nat /\ tail \in Nat /\ tail <= head /\ head < tail + N
        /\ len[head % N] = Payload /\ Payload \in Sizes
    BY <1>3, PayloadFacts
      DEF TxHead, Inv, TypeOK, RingInv, PhaseInv, SlotsInv, Filling, Sending, Sizes
  <2>2. head' = head + 1 /\ UNCHANGED <<tail, len, slot_count, received>>
    BY <1>3 DEF TxHead, rx_locals
  <2>3. \A k \in tail..head : len[k % N] \in Sizes
    <3>1. \A k \in tail..head : k = head \/ k \in tail..(head - 1)
      BY <2>1
    <3> QED
      BY <2>1, <3>1, ChunksTyped
  <2>4. Chunks(len, tail, head + 1, N) = Append(Chunks(len, tail, head, N), len[head % N])
    BY <2>1, <2>3, ChunksPut
  <2>5. q' = Append(q, Payload)
    BY <2>1, <2>2, <2>4
  <2>6. Len(q) = head - tail
    BY <2>1, ChunksTyped, ChunksSeq
  <2> HIDE DEF q
  <2>7. Len(q) < N
    BY <2>1, <2>6, RingTyped
  <2>8. PICK size \in Sizes : size = Payload
    BY <2>1
  <2>9. Fifo!Put(size)
    BY <2>2, <2>5, <2>7, <2>8 DEF Fifo!Put, q, Chunks
  <2> QED
    BY <2>9 DEF Fifo!Next, Sizes
<1>4. CASE RxAccept
  <2>1. /\ slot_count = N /\ head \in Nat /\ tail \in Nat /\ tail < head
        /\ rx_len = len[tail % N]
    BY <1>4 DEF RxAccept, Inv, TypeOK, RingInv, PhaseInv, SlotsInv, Reading
  <2>2. /\ tail' = tail + 1 /\ received' = received + rx_len
        /\ UNCHANGED <<head, len, slot_count>>
    BY <1>4 DEF RxAccept
  <2>3. /\ Chunks(len, tail, head, N) # <<>>
        /\ Head(Chunks(len, tail, head, N)) = len[tail % N]
        /\ Chunks(len, tail + 1, head, N) = Tail(Chunks(len, tail, head, N))
    <3>1. \A k \in tail..(head - 1) : len[k % N] \in Sizes
      BY <2>1, ChunksTyped
    <3> HIDE DEF q
    <3> QED
      BY ONLY <2>1, <3>1, ChunksGet
  <2>4. q # <<>> /\ Head(q) = len[tail % N] /\ q' = Tail(q)
    BY <2>1, <2>2, <2>3
  <2> HIDE DEF q
  <2>5. Fifo!Get
    BY <2>1, <2>2, <2>4 DEF Fifo!Get, q, Chunks
  <2> QED
    BY <2>5 DEF Fifo!Next
<1>5. CASE RxReset
  <2>1. head' = 0 /\ tail' = 0 /\ received' = 0
    BY <1>5 DEF RxReset
  <2>2. q' = <<>>
    BY <2>1 DEF Chunks
  <2>3. Fifo!Restart
    BY <2>1, <2>2 DEF Fifo!Restart, Chunks
  <2> QED
    BY <2>3 DEF Fifo!Next
<1> QED
  BY <1>1, <1>2, <1>3, <1>4, <1>5
    DEF Next, RxStep, TxStep, RxStart, RxPublish, RxPoll, RxLen, RxSeq, RxFlags, RxLast,
        RxFail, TxStart, TxFind, TxSpace, TxSeq, TxDrain, TxTotals, TxDone, TxFail,
        vars, header, rx_locals

(***************************************************************************)
(* The ring that run_rx and run_tx share, their loads and stores           *)
(* interleaved in any way and the programs restarted, is a bounded queue   *)
(* of chunks: BoundedFifo, for every geometry and total.                   *)
(***************************************************************************)
THEOREM RingImplementsFifo == Spec => ImplementsFifo
<1>1. Init => Fifo!Init
  BY DEF Init, Fifo!Init
<1>2. Inv /\ Inv' /\ [Next]_vars => [Fifo!Next]_(Fifo!fifoVars)
  BY FifoStep
<1> QED
  BY <1>1, <1>2, InvCorrect, PTL DEF Spec, ImplementsFifo, Fifo!Spec
=============================================================================
