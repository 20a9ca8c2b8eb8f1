--------------------------- MODULE MCProfilingRing --------------------------
(***************************************************************************)
(* Instances of ProfilingRing for TLC.  The window sizes keep the 64-byte  *)
(* headers of the real ring.                                               *)
(***************************************************************************)
EXTENDS ProfilingRing

\* "With a 1 MiB slot, the 4 MiB MW holds three DATA slots"; "A very large
\* --window such as 4 MiB is clamped to a single slot" (user_src/README.md).
ASSUME ReadmeSlots ==
  LET MiB == 1048576
  IN  /\ SlotCount(4 * MiB, SlotSize(4 * MiB, MiB)) = 3
      /\ SlotCount(4 * MiB, SlotSize(4 * MiB, 4 * MiB)) = 1
=============================================================================
