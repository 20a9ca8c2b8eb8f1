----------------------------- MODULE BoundedFifo ----------------------------
(***************************************************************************)
(* What a profiling run promises: chunks come out in the order they went   *)
(* in, none is lost or duplicated, and at most Bound are under way.  The   *)
(* receiver adds up the sizes of what it takes out.                        *)
(***************************************************************************)
EXTENDS Naturals, Sequences

CONSTANTS Item, Bound

VARIABLES queue, delivered

fifoVars == <<queue, delivered>>

Init == queue = <<>> /\ delivered = 0

Put(size) ==
  /\ Len(queue) < Bound
  /\ queue' = Append(queue, size)
  /\ UNCHANGED delivered

Get ==
  /\ queue # <<>>
  /\ queue' = Tail(queue)
  /\ delivered' = delivered + Head(queue)

\* A new run starts.
Restart == queue' = <<>> /\ delivered' = 0

Next == (\E size \in Item : Put(size)) \/ Get \/ Restart

Spec == Init /\ [][Next]_fifoVars
=============================================================================
