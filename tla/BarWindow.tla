------------------------------ MODULE BarWindow ------------------------------
(***************************************************************************)
(* The memory windows of one device: BARs through which its guest reaches  *)
(* the memory of the peer VM (qemu_src/hw/misc/idt_ntb_ivshmem.c).         *)
(*                                                                         *)
(* The translation of a BAR is in the shared region.  The peer's guest     *)
(* sets it through the out-of-specification registers, one field per       *)
(* register write, the own guest through the BAR registers.  An access is  *)
(* served by idt_bar_read and idt_bar_write, which look at the translation *)
(* each time, unless an alias of the peer's memory is mapped over the BAR. *)
(* The alias is a copy of the translation and has to follow it: the peer   *)
(* signals the VM_ID eventfd after each store.                             *)
(*                                                                         *)
(* The device is the one of VM2 and the peer is VM1, which finds the       *)
(* device again after a restart (IvshmemPeers).  BAR addresses are those   *)
(* that the firmware has assigned.                                         *)
(***************************************************************************)
EXTENDS Integers, FiniteSets

CONSTANTS
  Bars,       \* BAR 0 holds the registers, BARs 2..4 are windows
  BarAddr,    \* address of every BAR, s->bars[idx].addr
  Aperture,   \* IDT_BAR_APERTURE_SIZE
  RamSize,    \* size of the peer's memory
  LowRange,   \* values of a 32-bit half of an address, 2^32 in the device
  Limits, Lows, Highs,  \* values the guests write to limit, ltbase and utbase
  MaxRestart  \* bound: restarts of the device

ASSUME BarConstants ==
  /\ Bars \subseteq 0..5 /\ 0 \in Bars
  /\ BarAddr \in Nat /\ Aperture \in Nat \ {0} /\ RamSize \in Nat /\ LowRange \in Nat
  /\ Limits \subseteq Nat /\ Lows \subseteq Nat /\ Highs \subseteq Nat
  /\ 0 \in Limits /\ 0 \in Lows /\ 0 \in Highs
  /\ MaxRestart \in Nat

VARIABLES
  bar_config,      \* bar_config[b]: translation in the shared region
  inbound_mw_bar,  \* peer: the BAR that LUTOFF selected
  notifying,       \* peer: a field is stored and the event not yet signalled
  known,           \* peer: it has the id and the eventfds of this device
  event,           \* the VM_ID eventfd of the device is signalled
  alias,           \* alias[b]: what is mapped over the BAR
  peer_ram,        \* peer_ram_initialized
  todo,            \* BARs whose alias the running handler has to update
  loaded,          \* the translations that the handler has loaded
  restarts

peerVars == <<inbound_mw_bar, notifying>>
vars == <<bar_config, peerVars, known, event, alias, peer_ram, todo, loaded,
          restarts>>

Windows == Bars \cap 2..4

\* setup: BARSETUP says that the BAR is enabled and is a memory window.
BARConfig == [setup: BOOLEAN, limit: Limits, ltbase: Lows, utbase: Highs]
Fresh(b) == [setup |-> b \in 2..4, limit |-> 0, ltbase |-> 0, utbase |-> 0]

Unmapped == [mapped |-> FALSE, offset |-> 0, size |-> 0]
Mapped(offset, size) == [mapped |-> TRUE, offset |-> offset, size |-> size]
Aliases == [mapped: BOOLEAN, offset: Nat, size: Nat]

Idle == todo = {}
-----------------------------------------------------------------------------
(***************************************************************************)
(* Translation.                                                            *)
(***************************************************************************)
PeerOffset(c) == c.utbase * LowRange + c.ltbase
WindowSize(c) ==
  IF c.limit - BarAddr < Aperture THEN c.limit - BarAddr ELSE Aperture

\* Mutant: does not compare the limit with the address of the BAR.
ActiveNoLimit(c) == c.setup
\* idt_bar_update_peer_ram_alias: is there an alias for translation c?
Active(c) == c.setup /\ c.limit > BarAddr
\* Mutant: checks only where the window begins.
FitsBase(c) == PeerOffset(c) < RamSize
\* Does the window lie in the peer's memory?
Fits(c) ==
  PeerOffset(c) < RamSize /\ WindowSize(c) <= RamSize - PeerOffset(c)
AliasOf(c) ==
  IF Active(c) /\ Fits(c) THEN Mapped(PeerOffset(c), WindowSize(c)) ELSE Unmapped

\* idt_bar_read and idt_bar_write: where an access at addr in BAR b goes in the
\* peer's memory; the empty set when it is refused.
SlowPath(b, addr) ==
  LET c == bar_config[b]
  IN  IF c.limit = 0 \/ BarAddr + addr > c.limit
      THEN {} ELSE {PeerOffset(c) + addr}

\* Where the access goes with the alias mapped over the BAR.
Access(b, addr) ==
  IF alias[b].mapped /\ addr < alias[b].size
  THEN {alias[b].offset + addr} ELSE SlowPath(b, addr)
-----------------------------------------------------------------------------
\* A region whose devices are started and not configured yet.
Init ==
  /\ bar_config = [b \in Bars |-> Fresh(b)]
  /\ inbound_mw_bar = 0 /\ notifying = FALSE /\ known = TRUE
  /\ event = FALSE
  /\ alias = [b \in Windows |-> Unmapped]
  /\ peer_ram = FALSE
  /\ todo = {} /\ loaded = {}
  /\ restarts = 0
-----------------------------------------------------------------------------
(***************************************************************************)
(* The peer: ivshmem_io_write of the out-of-specification registers.       *)
(***************************************************************************)
LutOff(b) ==
  /\ ~notifying
  /\ inbound_mw_bar' = b
  /\ UNCHANGED <<bar_config, notifying, known, event, alias, peer_ram, todo,
                 loaded, restarts>>

\* LDATA, HDATA, LLIMIT or HLIMIT: the field of the selected BAR.
PeerStore(field, x) ==
  /\ ~notifying
  /\ bar_config' = [bar_config EXCEPT ![inbound_mw_bar][field] = x]
  /\ notifying' = TRUE
  /\ UNCHANGED <<inbound_mw_bar, known, event, alias, peer_ram, todo, loaded,
                 restarts>>

\* idt_notify_peer_bar_config_changed
Notify ==
  /\ notifying
  /\ notifying' = FALSE
  /\ event' = (event \/ known)
  /\ UNCHANGED <<bar_config, inbound_mw_bar, known, alias, peer_ram, todo,
                 loaded, restarts>>

\* The peer handles the introduction of a device that was started again.
Learn ==
  /\ ~known
  /\ known' = TRUE
  /\ UNCHANGED <<bar_config, peerVars, event, alias, peer_ram, todo, loaded,
                 restarts>>
-----------------------------------------------------------------------------
(***************************************************************************)
(* The device.  Its handlers run one at a time.                            *)
(***************************************************************************)
\* Mutant: the loop over the BARs ends too early.
VmIdEventShort ==
  /\ event /\ Idle
  /\ event' = FALSE
  /\ todo' = Bars \cap 2..3
  /\ UNCHANGED <<bar_config, peerVars, known, alias, peer_ram, loaded, restarts>>

\* ivshmem_vector_notify, vector VM_ID, clears the event and then refreshes all
\* aliases.
VmIdEvent ==
  /\ event /\ Idle
  /\ event' = FALSE
  /\ todo' = Windows
  /\ UNCHANGED <<bar_config, peerVars, known, alias, peer_ram, loaded, restarts>>

\* A BAR register of the own guest: store the field and update the alias.  The
\* guest boots after the peer has handled the introduction.
BarReg(b, field, x) ==
  /\ Idle /\ known
  /\ bar_config' = [bar_config EXCEPT ![b][field] = x]
  /\ todo' = {b} \cap Windows
  /\ UNCHANGED <<peerVars, known, event, alias, peer_ram, loaded, restarts>>

\* idt_bar_refresh_peer_ram_aliases goes through the BARs in order.
First(b) == b \in todo /\ \A other \in todo : b <= other

\* idt_bar_update_peer_ram_alias loads the translation ...
Load(b) ==
  /\ First(b) /\ loaded = {}
  /\ loaded' = {bar_config[b]}
  /\ UNCHANGED <<bar_config, peerVars, known, event, alias, peer_ram, todo,
                 restarts>>

Stays(c) == peer_ram /\ Active(c) /\ Fits(c)

\* An alias that is mapped gets its new offset first: for a moment it has the
\* old size, and the memory core cuts off what is past the peer's memory.
Move(b) ==
  /\ First(b)
  /\ \E c \in loaded :
       /\ alias[b].mapped /\ Stays(c) /\ alias[b].offset # PeerOffset(c)
       /\ alias' = [alias EXCEPT ![b].offset = PeerOffset(c)]
  /\ UNCHANGED <<bar_config, peerVars, known, event, peer_ram, todo, loaded,
                 restarts>>

\* Mutant: the event is cleared when the handler ends.
ApplyThenClear(b, opened) ==
  /\ First(b)
  /\ \E c \in loaded :
       /\ alias[b].mapped /\ Stays(c) => alias[b].offset = PeerOffset(c)
       /\ peer_ram' = (peer_ram \/ (opened /\ Active(c)))
       /\ alias' = [alias EXCEPT ![b] = IF peer_ram' THEN AliasOf(c) ELSE Unmapped]
  /\ todo' = todo \ {b} /\ loaded' = {} /\ event' = FALSE
  /\ UNCHANGED <<bar_config, peerVars, known, restarts>>

\* ... and maps or removes the alias.  The peer's memory is opened when it is
\* first needed, which fails while its file is not there.
Apply(b, opened) ==
  /\ First(b)
  /\ \E c \in loaded :
       /\ alias[b].mapped /\ Stays(c) => alias[b].offset = PeerOffset(c)
       /\ peer_ram' = (peer_ram \/ (opened /\ Active(c)))
       /\ alias' = [alias EXCEPT ![b] = IF peer_ram' THEN AliasOf(c) ELSE Unmapped]
  /\ todo' = todo \ {b} /\ loaded' = {}
  /\ UNCHANGED <<bar_config, peerVars, known, event, restarts>>

\* The QEMU process of the device is killed and started again: the aliases and
\* its eventfd are gone, the translations stay, ivshmem_common_realize enables
\* the BARs.
Restart ==
  /\ restarts < MaxRestart
  /\ restarts' = restarts + 1
  /\ bar_config' = [b \in Bars |->
                     [bar_config[b] EXCEPT !.setup = (b \in 2..4) \/ @]]
  /\ alias' = [b \in Windows |-> Unmapped]
  /\ event' = FALSE /\ known' = FALSE /\ peer_ram' = FALSE
  /\ todo' = {} /\ loaded' = {}
  /\ UNCHANGED peerVars
-----------------------------------------------------------------------------
Stores ==
  ({"limit"} \X Limits) \cup ({"ltbase"} \X Lows) \cup ({"utbase"} \X Highs)

Peer ==
  \/ \E b \in Bars : LutOff(b)
  \/ \E s \in Stores : PeerStore(s[1], s[2])
  \/ Notify
  \/ Learn
Guest ==
  \E b \in Windows, s \in Stores \cup ({"setup"} \X BOOLEAN) : BarReg(b, s[1], s[2])
Update ==
  \E b \in Windows : Load(b) \/ Move(b) \/ \E opened \in BOOLEAN : Apply(b, opened)

Next == Peer \/ VmIdEvent \/ Guest \/ Update \/ Restart

Spec == Init /\ [][Next]_vars

(***************************************************************************)
(* A handler that has started finishes.  The main loop gets the lock of    *)
(* QEMU again and again, however often the guest takes it.                 *)
(***************************************************************************)
FairSpec ==
  Spec /\ WF_vars(Notify) /\ WF_vars(Update) /\ SF_vars(VmIdEvent)
-----------------------------------------------------------------------------
TypeOK ==
  /\ bar_config \in [Bars -> BARConfig]
  /\ inbound_mw_bar \in Bars
  /\ notifying \in BOOLEAN /\ known \in BOOLEAN /\ event \in BOOLEAN
  /\ alias \in [Windows -> Aliases]
  /\ peer_ram \in BOOLEAN
  /\ todo \subseteq Windows
  /\ loaded \in SUBSET BARConfig
  /\ restarts \in 0..MaxRestart

(***************************************************************************)
(* Nothing is on its way from the registers to the aliases.                *)
(***************************************************************************)
Quiet == ~event /\ ~notifying /\ Idle

(***************************************************************************)
(* The alias is only an acceleration: once the stores of both guests have  *)
(* been handled, every access through a BAR goes where idt_bar_read and    *)
(* idt_bar_write would send it, whatever the peer stored while             *)
(* idt_bar_refresh_peer_ram_aliases was running.                           *)
(***************************************************************************)
AliasTransparent ==
  Quiet => \A b \in Windows, addr \in 0..(Aperture - 1) :
             Access(b, addr) = SlowPath(b, addr)

(***************************************************************************)
(* An alias never reaches past the end of the peer's memory or of the      *)
(* BAR once it is set up, also when idt_bar_update_peer_ram_alias loaded a *)
(* translation that is half written: a new base with the old limit.        *)
(***************************************************************************)
AliasInRam ==
  \A b \in Windows \ todo :
    alias[b].mapped => /\ alias[b].size \in 1..Aperture
                       /\ alias[b].offset + alias[b].size <= RamSize

(***************************************************************************)
(* A window whose limit is set to zero (mw_clear_trans) closes: accesses   *)
(* to it end up refused, unless a guest opens it again.                    *)
(***************************************************************************)
Closed(b) == \A addr \in 0..(Aperture - 1) : Access(b, addr) = {}
ClearedCloses ==
  \A b \in Windows :
    bar_config[b].limit = 0 ~> Closed(b) \/ bar_config[b].limit # 0
=============================================================================
