--------------------------- MODULE MessageChannel ---------------------------
(***************************************************************************)
(* What the message registers promise to the two guests: one single-place  *)
(* mailbox per register and direction.  A write to a full mailbox is       *)
(* refused and reported to its writer, a message stays until its receiver  *)
(* clears it, and nothing else happens to either side's status.            *)
(***************************************************************************)
EXTENDS Naturals

CONSTANTS MsgIdx, MsgVal

VARIABLES
  box,       \* box[v]: the waiting messages of v, a function on their registers
  refused,   \* refused[v]: registers on which a write of v was reported refused
  rejecting  \* rejecting[v]: the refused write of v that is being reported

chanVars == <<box, refused, rejecting>>

Side == {1, 2}
Other(v) == 3 - v

Init ==
  /\ box = [v \in Side |-> [i \in {} |-> 0]]
  /\ refused = [v \in Side |-> {}]
  /\ rejecting = [v \in Side |-> {}]

\* A message enters an empty mailbox.
Deliver(v, i, x) ==
  /\ i \notin DOMAIN box[Other(v)]
  /\ UNCHANGED <<refused, rejecting>>
  /\ box' = [box EXCEPT ![Other(v)] =
               [j \in DOMAIN box[Other(v)] \cup {i} |->
                  IF j = i THEN x ELSE box[Other(v)][j]]]

\* A write finds its mailbox full; the writer learns of it in a later step.
Reject(v, i) ==
  /\ i \in DOMAIN box[Other(v)]
  /\ rejecting' = [rejecting EXCEPT ![v] = {i}]
  /\ UNCHANGED <<box, refused>>

Report(v) ==
  /\ rejecting[v] # {}
  /\ refused' = [refused EXCEPT ![v] = @ \cup rejecting[v]]
  /\ rejecting' = [rejecting EXCEPT ![v] = {}]
  /\ UNCHANGED box

\* The writer dies before the refusal is reported.
Abandon(v) ==
  /\ rejecting' = [rejecting EXCEPT ![v] = {}]
  /\ UNCHANGED <<box, refused>>

\* The receiver clears mailboxes and refusal flags.
Clear(v) ==
  /\ UNCHANGED rejecting
  /\ \E flags \in SUBSET refused[v] : refused' = [refused EXCEPT ![v] = flags]
  /\ \E full \in SUBSET DOMAIN box[v] :
       box' = [box EXCEPT ![v] = [j \in full |-> box[v][j]]]

Next ==
  \E v \in Side :
    \/ \E i \in MsgIdx, x \in MsgVal : Deliver(v, i, x)
    \/ \E i \in MsgIdx : Reject(v, i)
    \/ Report(v)
    \/ Abandon(v)
    \/ Clear(v)

Spec == Init /\ [][Next]_chanVars
=============================================================================
