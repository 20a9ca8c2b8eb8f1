--------------------------- MODULE BarWindowProofs ---------------------------
(***************************************************************************)
(* The alias over a BAR is transparent and stays in the peer's memory, for *)
(* every set of BARs, every BAR size and address and every memory size.    *)
(***************************************************************************)
EXTENDS BarWindow, TLAPS

(***************************************************************************)
(* A store that has not reached the alias of b is announced: it is about   *)
(* to be signalled, it is signalled, or the running handler has still to   *)
(* update b.  What the handler has loaded is current in the same sense.    *)
(***************************************************************************)
Current(b) == alias[b] = Unmapped \/ alias[b] = AliasOf(bar_config[b])
Announced == event \/ notifying
FollowInv ==
  /\ \A b \in Windows : Current(b) \/ Announced \/ b \in todo
  /\ \A b \in Windows, c \in loaded :
       First(b) => c = bar_config[b] \/ Announced
  /\ Idle => loaded = {}
  /\ ~known => ~event /\ Idle /\ \A b \in Windows : alias[b] = Unmapped

IInv == TypeOK /\ AliasInRam /\ FollowInv
-----------------------------------------------------------------------------
\* What AliasOf says of a translation, in the words of AliasInRam.
LEMMA AliasOfBounds ==
  ASSUME NEW c \in BARConfig
  PROVE  /\ PeerOffset(c) \in Nat
         /\ AliasOf(c) \in Aliases
         /\ AliasOf(c).mapped => /\ AliasOf(c).size \in 1..Aperture
                                 /\ AliasOf(c).offset + AliasOf(c).size <= RamSize
<1>1. PeerOffset(c) \in Nat
  <2>1. c.utbase \in Nat /\ c.ltbase \in Nat
    BY BarConstants DEF BARConfig
  <2>2. \A m, n \in Nat : m * n \in Nat
    OBVIOUS
  <2>3. c.utbase * LowRange \in Nat
    BY <2>1, <2>2, BarConstants
  <2> QED
    BY <2>1, <2>3 DEF PeerOffset
<1>2. CASE Active(c) /\ Fits(c)
  <2>0. c.limit \in Nat /\ c.limit > BarAddr
    BY <1>2, BarConstants DEF Active, BARConfig
  <2>1. WindowSize(c) \in 1..Aperture
    BY <2>0, BarConstants DEF WindowSize
  <2>2. PeerOffset(c) + WindowSize(c) <= RamSize
    BY <1>1, <1>2, <2>1, BarConstants DEF Fits
  <2>3. AliasOf(c) = Mapped(PeerOffset(c), WindowSize(c))
    BY <1>2 DEF AliasOf
  <2> QED
    BY <1>1, <2>1, <2>2, <2>3, BarConstants DEF Mapped, Aliases
<1>3. CASE ~(Active(c) /\ Fits(c))
  BY <1>1, <1>3 DEF AliasOf, Unmapped, Aliases
<1> QED
  BY <1>1, <1>2, <1>3

\* A field of a translation takes the values that Stores and setup allow.
LEMMA FieldTyped ==
  ASSUME NEW c \in BARConfig,
         NEW s \in Stores \cup ({"setup"} \X BOOLEAN)
  PROVE  [c EXCEPT ![s[1]] = s[2]] \in BARConfig
<1>1. CASE s \in {"limit"} \X Limits
  BY <1>1 DEF BARConfig
<1>2. CASE s \in {"ltbase"} \X Lows
  BY <1>2 DEF BARConfig
<1>3. CASE s \in {"utbase"} \X Highs
  BY <1>3 DEF BARConfig
<1>4. CASE s \in {"setup"} \X BOOLEAN
  BY <1>4 DEF BARConfig
<1> QED
  BY <1>1, <1>2, <1>3, <1>4 DEF Stores

\* The invariant holds when both devices have started.
LEMMA InitInv == Init => IInv
<1> SUFFICES ASSUME Init PROVE IInv
  OBVIOUS
<1>1. \A b \in Bars : Fresh(b) \in BARConfig
  BY BarConstants DEF Fresh, BARConfig
<1>2. Unmapped \in Aliases
  BY DEF Unmapped, Aliases
<1>3. TypeOK
  <2>1. bar_config \in [Bars -> BARConfig]
    BY <1>1 DEF Init
  <2>2. alias \in [Windows -> Aliases]
    BY <1>2 DEF Init
  <2>3. inbound_mw_bar \in Bars /\ restarts \in 0..MaxRestart
    BY BarConstants DEF Init
  <2>4. todo \subseteq Windows /\ loaded \in SUBSET BARConfig
    BY DEF Init
  <2> QED
    BY <2>1, <2>2, <2>3, <2>4 DEF Init, TypeOK
<1>4. AliasInRam
  BY DEF Init, AliasInRam, Unmapped
<1>5. FollowInv
  BY DEF Init, FollowInv, Current, First, Idle
<1> QED
  BY <1>3, <1>4, <1>5 DEF IInv
-----------------------------------------------------------------------------
(***************************************************************************)
(* Every step keeps the invariant: one lemma for the steps that leave the  *)
(* translations and the aliases alone, one for each kind of store, one for *)
(* the update and one for the restart.                                     *)
(***************************************************************************)
LEMMA QuietSteps ==
  ASSUME IInv, UNCHANGED <<bar_config, alias, peer_ram, restarts>>,
         \/ \E b \in Bars : LutOff(b)
         \/ Notify
         \/ Learn
         \/ VmIdEvent
         \/ UNCHANGED vars
  PROVE  IInv'
<1>1. TypeOK'
  BY DEF IInv, TypeOK, LutOff, Notify, Learn, VmIdEvent, vars, peerVars
<1>2. AliasInRam'
  <2>1. todo \subseteq todo'
    BY DEF LutOff, Notify, Learn, VmIdEvent, Idle, vars
  <2> QED
    BY <2>1 DEF IInv, AliasInRam
<1>3. FollowInv'
  <2>1. CASE \E b \in Bars : LutOff(b)
    BY <2>1 DEF IInv, FollowInv, Current, First, Announced, Idle, LutOff
  <2>2. CASE Notify
    <3>1. CASE known
      BY <2>2, <3>1 DEF IInv, FollowInv, Announced, Idle, Notify
    <3>2. CASE ~known
      BY <2>2, <3>2 DEF IInv, FollowInv, Current, Announced, First, Idle, Notify
    <3> QED
      BY <3>1, <3>2
  <2>3. CASE Learn
    BY <2>3 DEF IInv, FollowInv, Current, First, Announced, Idle, Learn
  <2>4. CASE VmIdEvent
    BY <2>4 DEF IInv, FollowInv, Current, First, Announced, Idle, VmIdEvent
  <2>5. CASE UNCHANGED vars
    BY <2>5 DEF IInv, FollowInv, Current, First, Announced, Idle, vars, peerVars
  <2> QED
    BY <2>1, <2>2, <2>3, <2>4, <2>5
<1> QED
  BY <1>1, <1>2, <1>3 DEF IInv
\* A store to one field leaves a table of translations.
LEMMA StoreTyped ==
  ASSUME TypeOK, NEW b \in Bars, NEW s \in Stores \cup ({"setup"} \X BOOLEAN)
  PROVE  [bar_config EXCEPT ![b][s[1]] = s[2]] \in [Bars -> BARConfig]
<1>1. [bar_config[b] EXCEPT ![s[1]] = s[2]] \in BARConfig
  BY FieldTyped DEF TypeOK
<1> QED
  BY <1>1, Zenon DEF TypeOK

\* The peer stores a field: the store is announced.
LEMMA PeerStoreStep ==
  ASSUME IInv, NEW s \in Stores, PeerStore(s[1], s[2])
  PROVE  IInv'
<1>1. TypeOK'
  <2>1. bar_config' \in [Bars -> BARConfig]
    BY StoreTyped DEF IInv, TypeOK, PeerStore
  <2> QED
    BY <2>1 DEF IInv, TypeOK, PeerStore
<1>2. AliasInRam'
  BY DEF IInv, AliasInRam, PeerStore
<1>3. FollowInv'
  BY DEF IInv, FollowInv, Announced, Idle, PeerStore
<1> QED
  BY <1>1, <1>2, <1>3 DEF IInv

\* The own guest stores a field: the handler has to update that BAR.
LEMMA BarRegStep ==
  ASSUME IInv, NEW b \in Windows, NEW s \in Stores \cup ({"setup"} \X BOOLEAN),
         BarReg(b, s[1], s[2])
  PROVE  IInv'
<1>0. b \in Bars
  BY DEF Windows
<1>1. TypeOK'
  <2>1. bar_config' \in [Bars -> BARConfig]
    BY <1>0, StoreTyped DEF IInv, BarReg
  <2> QED
    BY <2>1 DEF IInv, TypeOK, BarReg, peerVars
<1>2. AliasInRam'
  BY DEF IInv, AliasInRam, BarReg, Idle
<1>3. FollowInv'
  <2>1. loaded' = {} /\ todo' = {b} /\ known'
    BY DEF IInv, FollowInv, BarReg
  <2>2. ASSUME NEW o \in Windows, o # b
        PROVE  Current(o)' \/ Announced'
    <3>1. Current(o) \/ Announced
      BY DEF IInv, FollowInv, BarReg, Idle
    <3>2. bar_config'[o] = bar_config[o]
      BY <2>2 DEF IInv, TypeOK, BarReg, Windows
    <3> QED
      BY <3>1, <3>2 DEF Current, Announced, BarReg, peerVars
  <2> QED
    BY <2>1, <2>2 DEF FollowInv, Idle
<1> QED
  BY <1>1, <1>2, <1>3 DEF IInv

\* The handler loads a translation.
LEMMA LoadStep ==
  ASSUME IInv, NEW b \in Windows, Load(b)
  PROVE  IInv'
<1>1. TypeOK'
  <2>1. bar_config[b] \in BARConfig
    BY DEF IInv, TypeOK, Windows
  <2> QED
    BY <2>1 DEF IInv, TypeOK, Load, peerVars
<1>2. AliasInRam'
  BY DEF IInv, AliasInRam, Load
<1>3. FollowInv'
  <2>1. ASSUME NEW o \in Windows, First(o)'
        PROVE  o = b
    BY <2>1 DEF First, Load, Windows
  <2> QED
    BY <2>1 DEF IInv, FollowInv, Current, Announced, First, Idle, Load, peerVars
<1> QED
  BY <1>1, <1>2, <1>3 DEF IInv

\* The handler moves a mapped alias: it is still busy with that BAR.
LEMMA MoveStep ==
  ASSUME IInv, NEW b \in Windows, Move(b)
  PROVE  IInv'
<1> PICK c \in loaded : alias' = [alias EXCEPT ![b].offset = PeerOffset(c)]
  BY DEF Move
<1>0. c \in BARConfig /\ b \in todo
  BY DEF IInv, TypeOK, Move, First
<1>1. PeerOffset(c) \in Nat
  BY <1>0, AliasOfBounds
<1>2. alias' \in [Windows -> Aliases] /\ \A o \in Windows : o # b => alias'[o] = alias[o]
  <2>1. alias[b] \in Aliases
    BY DEF IInv, TypeOK
  <2>2. [alias[b] EXCEPT !.offset = PeerOffset(c)] \in Aliases
    BY <1>1, <2>1 DEF Aliases
  <2> QED
    BY <2>2 DEF IInv, TypeOK
<1>3. TypeOK'
  BY <1>2 DEF IInv, TypeOK, Move, peerVars
<1>4. AliasInRam'
  BY <1>0, <1>2 DEF IInv, AliasInRam, Move
<1>5. FollowInv'
  BY <1>0, <1>2 DEF IInv, FollowInv, Current, Announced, First, Idle, Move, peerVars
<1> QED
  BY <1>3, <1>4, <1>5 DEF IInv

\* The handler maps or removes the alias.
LEMMA ApplyStep ==
  ASSUME IInv, NEW b \in Windows, NEW opened \in BOOLEAN, Apply(b, opened)
  PROVE  IInv'
<1> PICK c \in loaded :
      /\ peer_ram' = (peer_ram \/ (opened /\ Active(c)))
      /\ alias' = [alias EXCEPT ![b] = IF peer_ram' THEN AliasOf(c) ELSE Unmapped]
  BY DEF Apply
<1>0. c \in BARConfig /\ First(b) /\ b \in todo
  BY DEF IInv, TypeOK, Apply, First
<1>1. AliasOf(c) \in Aliases /\ Unmapped \in Aliases
  BY <1>0, AliasOfBounds DEF Unmapped, Aliases
<1>2. /\ alias' \in [Windows -> Aliases]
      /\ alias'[b] \in {AliasOf(c), Unmapped}
      /\ \A o \in Windows : o # b => alias'[o] = alias[o]
  BY <1>1 DEF IInv, TypeOK
<1>3. TypeOK'
  BY <1>2 DEF IInv, TypeOK, Apply, peerVars
<1>4. AliasInRam'
  <2>1. ASSUME NEW o \in Windows \ todo', o # b, alias'[o].mapped
        PROVE  /\ alias'[o].size \in 1..Aperture
               /\ alias'[o].offset + alias'[o].size <= RamSize
    BY <1>2, <2>1 DEF IInv, AliasInRam, Apply
  <2>2. ASSUME alias'[b].mapped
        PROVE  /\ alias'[b].size \in 1..Aperture
               /\ alias'[b].offset + alias'[b].size <= RamSize
    BY <1>0, <1>2, <2>2, AliasOfBounds DEF Unmapped
  <2> QED
    BY <2>1, <2>2 DEF AliasInRam
<1>5. FollowInv'
  <2>1. /\ loaded' = {} /\ known' /\ bar_config' = bar_config
        /\ Announced' = Announced /\ todo' = todo \ {b}
    BY <1>0 DEF IInv, FollowInv, Apply, Announced, Idle, peerVars
  <2>2. Current(b)' \/ Announced'
    BY <1>0, <1>2, <2>1 DEF IInv, FollowInv, Current
  <2>3. ASSUME NEW o \in Windows, o # b
        PROVE  Current(o)' \/ Announced' \/ o \in todo'
    BY <1>2, <2>1, <2>3 DEF IInv, FollowInv, Current
  <2> QED
    BY <2>1, <2>2, <2>3 DEF FollowInv, Idle
<1> QED
  BY <1>3, <1>4, <1>5 DEF IInv

\* The device starts again without aliases.
LEMMA RestartStep ==
  ASSUME IInv, Restart
  PROVE  IInv'
<1>1. Unmapped \in Aliases
  BY DEF Unmapped, Aliases
<1>2. TypeOK'
  <2>1. \A b \in Bars : [bar_config[b] EXCEPT !.setup = (b \in 2..4) \/ @] \in BARConfig
    <3>1. \A c \in BARConfig, s \in BOOLEAN : [c EXCEPT !.setup = s] \in BARConfig
      BY DEF BARConfig
    <3>2. \A b \in Bars : bar_config[b] \in BARConfig
      BY DEF IInv, TypeOK
    <3>3. \A c \in BARConfig, b \in Bars : ((b \in 2..4) \/ c.setup) \in BOOLEAN
      OBVIOUS
    <3> QED
      BY <3>1, <3>2, <3>3
  <2>2. bar_config' \in [Bars -> BARConfig]
    BY <2>1 DEF Restart
  <2>3. alias' \in [Windows -> Aliases] /\ restarts' \in 0..MaxRestart
    BY <1>1, BarConstants DEF IInv, TypeOK, Restart
  <2> QED
    BY <2>2, <2>3 DEF IInv, TypeOK, Restart, peerVars
<1>3. AliasInRam'
  BY DEF AliasInRam, Restart, Unmapped
<1>4. FollowInv'
  BY DEF FollowInv, Current, Idle, Restart
<1> QED
  BY <1>2, <1>3, <1>4 DEF IInv

\* The invariant is inductive.
LEMMA StepInv == IInv /\ [Next]_vars => IInv'
<1> SUFFICES ASSUME IInv, [Next]_vars PROVE IInv'
  OBVIOUS
<1>1. CASE \E b \in Bars : LutOff(b)
  BY <1>1, QuietSteps DEF LutOff
<1>2. CASE \E s \in Stores : PeerStore(s[1], s[2])
  BY <1>2, PeerStoreStep
<1>3. CASE Notify
  BY <1>3, QuietSteps DEF Notify
<1>4. CASE Learn
  BY <1>4, QuietSteps DEF Learn
<1>5. CASE VmIdEvent
  BY <1>5, QuietSteps DEF VmIdEvent
<1>6. CASE Guest
  BY <1>6, BarRegStep DEF Guest
<1>7. CASE Update
  BY <1>7, LoadStep, MoveStep, ApplyStep DEF Update
<1>8. CASE Restart
  BY <1>8, RestartStep
<1>9. CASE UNCHANGED vars
  BY <1>9, QuietSteps DEF vars
<1> QED
  BY <1>1, <1>2, <1>3, <1>4, <1>5, <1>6, <1>7, <1>8, <1>9 DEF Next, Peer
-----------------------------------------------------------------------------
\* An alias made from the translation sends an access where the slow path does.
LEMMA SameTarget ==
  ASSUME NEW b \in Windows, NEW addr \in Nat, TypeOK,
         alias[b] = AliasOf(bar_config[b]), alias[b].mapped, addr < alias[b].size
  PROVE  SlowPath(b, addr) = {alias[b].offset + addr}
<1> DEFINE c == bar_config[b]
<1>1. c \in BARConfig
  BY DEF TypeOK, Windows
<1>2. Active(c) /\ alias[b] = Mapped(PeerOffset(c), WindowSize(c))
  BY DEF AliasOf, Unmapped
<1>3. c.limit \in Nat /\ c.limit > BarAddr
  BY <1>1, <1>2, BarConstants DEF BARConfig, Active
<1>4. alias[b].offset = PeerOffset(c) /\ alias[b].size = WindowSize(c)
  BY <1>2 DEF Mapped
<1>5. WindowSize(c) <= c.limit - BarAddr
  BY <1>3, BarConstants DEF WindowSize
<1>6. WindowSize(c) \in Int
  BY <1>3, BarConstants DEF WindowSize
<1>7. ~(c.limit = 0 \/ BarAddr + addr > c.limit)
  BY <1>3, <1>4, <1>5, <1>6, BarConstants
<1> QED
  BY <1>4, <1>7 DEF SlowPath

\* The invariant implies that the alias is transparent.
LEMMA InvTransparent == IInv => AliasTransparent
<1> SUFFICES ASSUME IInv, Quiet, NEW b \in Windows, NEW addr \in 0..(Aperture - 1)
             PROVE  Access(b, addr) = SlowPath(b, addr)
  BY DEF AliasTransparent
<1>1. Current(b)
  BY DEF IInv, FollowInv, Quiet, Announced, Idle
<1>2. CASE alias[b].mapped /\ addr < alias[b].size
  <2>1. alias[b] = AliasOf(bar_config[b])
    BY <1>1, <1>2 DEF Current, Unmapped
  <2>2. addr \in Nat
    BY BarConstants
  <2>3. SlowPath(b, addr) = {alias[b].offset + addr}
    BY <1>2, <2>1, <2>2, SameTarget DEF IInv
  <2> QED
    BY <1>2, <2>3 DEF Access
<1>3. CASE ~(alias[b].mapped /\ addr < alias[b].size)
  BY <1>3 DEF Access
<1> QED
  BY <1>2, <1>3

(***************************************************************************)
(* IInv is an invariant.                                                   *)
(***************************************************************************)
THEOREM WindowInv == Spec => []IInv
BY InitInv, StepInv, PTL DEF Spec

(***************************************************************************)
(* Type correctness of the windows.                                        *)
(***************************************************************************)
THEOREM WindowTypeCorrect == Spec => []TypeOK
<1>1. IInv => TypeOK
  BY DEF IInv
<1> QED
  BY <1>1, WindowInv, PTL

(***************************************************************************)
(* idt_bar_update_peer_ram_alias never maps an alias that reaches past the *)
(* peer's memory or the BAR, for every memory size and every translation.  *)
(***************************************************************************)
THEOREM AliasesInRam == Spec => []AliasInRam
<1>1. IInv => AliasInRam
  BY DEF IInv
<1> QED
  BY <1>1, WindowInv, PTL

(***************************************************************************)
(* When all events are handled, an access through an alias goes where      *)
(* idt_bar_read and idt_bar_write would send it.                           *)
(***************************************************************************)
THEOREM AliasesTransparent == Spec => []AliasTransparent
BY InvTransparent, WindowInv, PTL
=============================================================================
