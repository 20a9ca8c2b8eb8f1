---------------------------- MODULE RingGeometry ----------------------------
(***************************************************************************)
(* The layout of the profiling ring in a mapped window                     *)
(* (user_src/ntb_utils.c, ntb_utils.h): one header, then slots of a header *)
(* and slot_size payload bytes each.                                       *)
(***************************************************************************)
EXTENDS Naturals

\* The largest value of the slot_count field.
CONSTANT UINT32_MAX

ASSUME FieldWidth == UINT32_MAX \in Nat \ {0}

\* sizeof(struct ntb_profile_ring_header), sizeof(struct ntb_profile_ring_slot)
HeaderSize == 64
SlotHeaderSize == 64

\* ntb_ring_max_slot_size
MaxSlotSize(capacity) ==
  IF capacity <= HeaderSize + SlotHeaderSize
  THEN 0
  ELSE capacity - HeaderSize - SlotHeaderSize

Stride(slot_size) == SlotHeaderSize + slot_size

\* ntb_ring_calc_slot_count
SlotCount(capacity, slot_size) ==
  IF slot_size = 0 \/ capacity <= HeaderSize
  THEN 0
  ELSE LET slots == (capacity - HeaderSize) \div Stride(slot_size)
       IN  IF slots > UINT32_MAX THEN UINT32_MAX ELSE slots

\* The slot size run_rx chooses for the requested chunk; 0 when it gives up.
SlotSize(capacity, chunk) ==
  IF chunk > MaxSlotSize(capacity) THEN MaxSlotSize(capacity) ELSE chunk

\* ntb_ring_slot: where slot number index starts in the window.
SlotOffset(count, slot_size, index) ==
  HeaderSize + (index % count) * Stride(slot_size)
=============================================================================
