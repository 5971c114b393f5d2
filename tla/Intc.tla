-------------------------------- MODULE Intc --------------------------------
(***************************************************************************)
(* The SH4 interrupt controller of dc/sh4/intc.cpp, with the part of the   *)
(* status register it reads (dc/sh4/sh4_registers.cpp, UpdateSR).          *)
(*                                                                         *)
(* The code keeps the sources SORTED: a source's bit in interrupt_vpend    *)
(* and interrupt_vmask is its rank by (priority, index), so that one       *)
(* unsigned comparison with decoded_srimask decides whether anything may   *)
(* be accepted and one bit scan finds the winner.  Writing a priority      *)
(* register only requests a rebuild; the tables stay stale until the next  *)
(* UpdateINTC runs VirtualInterrupt.                                       *)
(*                                                                         *)
(* A bit number is a "slot".  A bit vector of source bits is a set of      *)
(* slots; bit 29, the rebuild request, is the Boolean "rebuild" (its mask  *)
(* bits 28..31 are set by intc_Reset and VirtualInterrupt and never        *)
(* cleared).  decoded_srimask only takes the values (1 << k) - 1, and is   *)
(* represented by k: a bit vector exceeds (1 << k) - 1 exactly when it has *)
(* a slot at or above k, and BL's 0x0FFFFFFF is k = NumSources.            *)
(***************************************************************************)
EXTENDS Integers, FiniteSets

CONSTANTS
  NumSources,           \* length of InterruptSourceList (28 in the code)
  MaxLevel,             \* highest priority level (15 in the code)
  Reg,                  \* the priority registers, IRLPriority included
  IPR,                  \* those the guest can write: IPRA, IPRB, IPRC
  Nibble,               \* the fields of a priority register (0..3)
  InterruptSourceList,  \* source -> [PrioReg, Shift]
  Maskable,             \* the sources a device enables and disables (TMU)
  InitialPriority,      \* registers after intc_Reset: IPRx zero, IRL fixed
  IPRValues,            \* contents the guest writes to an IPR register
  SRValues,             \* values the guest loads into SR or SSR
  ResetSR,              \* 0x700000F0: MD, RB and BL set, IMASK = MaxLevel
  NoEvent               \* InterruptEnvId before the first rebuild

Source == 0 .. NumSources - 1
Slot == 0 .. NumSources - 1
Level == 0 .. MaxLevel
SR == [MD : BOOLEAN, RB : BOOLEAN, BL : BOOLEAN, IMASK : Level]

ASSUME SourcesAssumption == NumSources \in Nat \ {0} /\ MaxLevel \in Nat
ASSUME ListAssumption ==
  InterruptSourceList \in [Source -> [PrioReg : Reg, Shift : Nibble]]
ASSUME PriorityAssumption ==
  /\ IPR \subseteq Reg
  /\ IPRValues \subseteq [Nibble -> Level]
  /\ InitialPriority \in [Reg -> [Nibble -> Level]]
ASSUME SRAssumption ==
  /\ SRValues \subseteq SR
  /\ ResetSR = [MD |-> TRUE, RB |-> TRUE, BL |-> TRUE, IMASK |-> MaxLevel]
ASSUME NoEventAssumption == NoEvent \notin Source
ASSUME MaskableAssumption == Maskable \subseteq Source

VARIABLES
  prio,               \* INTC_IPRA/B/C.reg_data and IRLPriority
  interrupt_vpend,    \* slots of the sources whose request line is up
  interrupt_vmask,    \* slots of the sources that are let through
  rebuild,            \* bit 29 of interrupt_vpend
  decoded_srimask,    \* slots below this one are blocked by SR
  InterruptBit,       \* source -> slot
  InterruptEnvId,     \* slot -> source (its event code)
  InterruptLevelBit,  \* level -> number of slots at or below that level
  sr, ssr,
  bank,               \* TRUE when r0..r7 hold register bank 1
  CCN_INTEVT          \* source of the last interrupt accepted

tables == <<InterruptBit, InterruptEnvId, InterruptLevelBit>>
lines == <<interrupt_vpend, interrupt_vmask>>
cpu == <<sr, ssr, bank, CCN_INTEVT>>
vars == <<prio, lines, rebuild, decoded_srimask, tables, cpu>>

-----------------------------------------------------------------------------
(* The order of the sources and the tables VirtualInterrupt builds from it *)

GetPrLvl(s) == prio[InterruptSourceList[s].PrioReg][InterruptSourceList[s].Shift]

\* The double loop visits the levels upwards and, in a level, the sources
\* upwards: the later of two equal priorities gets the higher slot.
Before(t, s) ==
  \/ GetPrLvl(t) < GetPrLvl(s)
  \/ GetPrLvl(t) = GetPrLvl(s) /\ t < s

Rank(s) == Cardinality({t \in Source : Before(t, s)})
CountUpTo(lvl) == Cardinality({t \in Source : GetPrLvl(t) <= lvl})

Raised(slots) == {s \in Source : InterruptBit[s] \in slots}

-----------------------------------------------------------------------------
(* The status register                                                     *)

\* UpdateSR: there is no bank 1 outside privileged mode.
Normal(v) == IF v.MD THEN v ELSE [v EXCEPT !.RB = FALSE]

\* UpdateSR swaps r0..r7 with the other bank when RB changes.
BankAfter(b, from, to) == IF from.RB # to.RB THEN ~b ELSE b

\* SRdecode
Threshold(levelBit, v) == IF v.BL THEN NumSources ELSE levelBit[v.IMASK]

-----------------------------------------------------------------------------
(* UpdateINTC                                                              *)

\* What is up and let through, and the predicate the recompiler polls.
Requests == interrupt_vpend \cap interrupt_vmask
\* (mutant of UpdateINTC_pending) strict comparison with the threshold
MutPendingStrict == rebuild \/ \E q \in Requests : q > decoded_srimask
UpdateINTC_pending == rebuild \/ \E q \in Requests : q >= decoded_srimask

\* (mutant of BSR) scans from the low end
MutBSF(slots) == CHOOSE q \in slots : \A p \in slots : q <= p
BSR(slots) == CHOOSE q \in slots : \A p \in slots : p <= q

RequestSIIDRebuild == rebuild' = TRUE

VirtualInterrupt ==
  /\ rebuild' = FALSE
  /\ InterruptBit' = [s \in Source |-> Rank(s)]
  /\ InterruptEnvId' =
       [q \in Slot |-> CHOOSE s \in Source : Rank(s) = q]
  /\ InterruptLevelBit' = [l \in Level |-> CountUpTo(l)]
  /\ interrupt_vpend' = {Rank(s) : s \in Raised(interrupt_vpend)}
  /\ interrupt_vmask' = {Rank(s) : s \in Raised(interrupt_vmask)}

\* Do_Interrupt, entered with status v and register bank b.
Do_Interrupt(event, v, b) ==
  /\ CCN_INTEVT' = event
  /\ ssr' = v
  /\ sr' = [v EXCEPT !.BL = TRUE, !.MD = TRUE, !.RB = TRUE]
  /\ bank' = BankAfter(b, v, sr')
  /\ decoded_srimask' = Threshold(InterruptLevelBit', sr')

\* (mutant of Dispatch) the lowest slot let through by SR is missed
MutDispatchStrict(v, b, threshold) ==
  LET requests == interrupt_vpend' \cap interrupt_vmask'
  IN \/ /\ \E q \in requests : q > threshold
        /\ Do_Interrupt(InterruptEnvId'[BSR(requests)], v, b)
     \/ /\ \A q \in requests : q <= threshold
        /\ sr' = v /\ bank' = b /\ decoded_srimask' = threshold
        /\ UNCHANGED <<ssr, CCN_INTEVT>>

\* The decision itself, on tables that are up to date.
Dispatch(v, b, threshold) ==
  LET requests == interrupt_vpend' \cap interrupt_vmask'
  IN \/ /\ \E q \in requests : q >= threshold
        /\ Do_Interrupt(InterruptEnvId'[BSR(requests)], v, b)
     \/ /\ \A q \in requests : q < threshold
        /\ sr' = v /\ bank' = b /\ decoded_srimask' = threshold
        /\ UNCHANGED <<ssr, CCN_INTEVT>>

\* UpdateINTC, called when SR is v and the threshold was decoded as d.
UpdateINTCWith(v, b, d) ==
  /\ \/ /\ rebuild
        /\ VirtualInterrupt
        /\ Dispatch(v, b, Threshold(InterruptLevelBit', v))
     \/ /\ ~rebuild
        /\ UNCHANGED <<lines, tables, rebuild>>
        /\ Dispatch(v, b, d)
  /\ UNCHANGED prio

UpdateINTC == UpdateINTCWith(sr, bank, decoded_srimask)

-----------------------------------------------------------------------------
(* The other operations                                                    *)

WithLine(slots, s, up) ==
  IF up THEN slots \cup {InterruptBit[s]} ELSE slots \ {InterruptBit[s]}

\* SetInterruptPend and ResetInterruptPend
InterruptPend(s, up) ==
  /\ interrupt_vpend' = WithLine(interrupt_vpend, s, up)
  /\ UNCHANGED <<prio, interrupt_vmask, rebuild, decoded_srimask, tables, cpu>>

\* SetInterruptMask and ResetInterruptMask
InterruptMask(s, up) ==
  /\ interrupt_vmask' = WithLine(interrupt_vmask, s, up)
  /\ UNCHANGED <<prio, interrupt_vpend, rebuild, decoded_srimask, tables, cpu>>

\* (mutant of WriteIPR) the rebuild request is forgotten
MutWriteIPRNoRebuild(r, data) ==
  /\ prio[r] # data
  /\ prio' = [prio EXCEPT ![r] = data]
  /\ UNCHANGED <<lines, rebuild, decoded_srimask, tables, cpu>>

\* write_INTC_IPRA, write_INTC_IPRB, write_INTC_IPRC
WriteIPR(r, data) ==
  /\ prio[r] # data
  /\ prio' = [prio EXCEPT ![r] = data]
  /\ RequestSIIDRebuild
  /\ UNCHANGED <<lines, decoded_srimask, tables, cpu>>

\* A load of SR: UpdateSR, then UpdateINTC when something is pending (which
\* UpdateINTC itself tests).
LoadSR(v) ==
  UpdateINTCWith(Normal(v), BankAfter(bank, sr, Normal(v)),
                 Threshold(InterruptLevelBit, Normal(v)))

LdcSR == \E v \in SRValues : LoadSR(v)
Rte == LoadSR(ssr)

LdcSSR ==
  /\ ssr' \in SRValues
  /\ UNCHANGED <<prio, lines, rebuild, decoded_srimask, tables,
                 sr, bank, CCN_INTEVT>>

\* Sh4_int_Reset then intc_Reset: the sorted tables other than InterruptBit
\* keep what they held.  The register banks are cleared, so which of them is
\* in r0..r7 is a fresh start in the bank ResetSR selects.
Reset ==
  /\ prio' = InitialPriority
  /\ interrupt_vpend' = {}
  /\ interrupt_vmask' = Slot
  /\ decoded_srimask' = 0
  /\ RequestSIIDRebuild
  /\ InterruptBit' = [s \in Source |-> s]
  /\ sr' = ResetSR /\ ssr' = [MD |-> FALSE, RB |-> FALSE, BL |-> FALSE, IMASK |-> 0]
  /\ bank' = TRUE
  /\ UNCHANGED <<InterruptEnvId, InterruptLevelBit, CCN_INTEVT>>

-----------------------------------------------------------------------------

Init ==
  /\ prio = InitialPriority
  /\ interrupt_vpend = {}
  /\ interrupt_vmask = Slot
  /\ rebuild = TRUE
  /\ decoded_srimask = 0
  /\ InterruptBit = [s \in Source |-> s]
  /\ InterruptEnvId = [q \in Slot |-> NoEvent]
  /\ InterruptLevelBit = [l \in Level |-> 0]
  /\ sr = ResetSR
  /\ ssr = [MD |-> FALSE, RB |-> FALSE, BL |-> FALSE, IMASK |-> 0]
  /\ bank = TRUE
  /\ CCN_INTEVT = NoEvent

Next ==
  \/ UpdateINTC
  \/ \E s \in Source, up \in BOOLEAN : InterruptPend(s, up)
  \/ \E s \in Maskable, up \in BOOLEAN : InterruptMask(s, up)
  \/ \E r \in IPR, data \in IPRValues : WriteIPR(r, data)
  \/ LdcSR \/ Rte \/ LdcSSR
  \/ Reset

\* UpdateSystem polls UpdateINTC at every timeslice, for ever.
Fairness == WF_vars(UpdateINTC)

SafeSpec == Init /\ [][Next]_vars
Spec == SafeSpec /\ Fairness

-----------------------------------------------------------------------------
(* Properties                                                              *)

TypeOK ==
  /\ prio \in [Reg -> [Nibble -> Level]]
  /\ interrupt_vpend \subseteq Slot
  /\ interrupt_vmask \subseteq Slot
  /\ rebuild \in BOOLEAN
  /\ decoded_srimask \in 0 .. NumSources
  /\ InterruptBit \in [Source -> Slot]
  /\ InterruptEnvId \in [Slot -> Source \cup {NoEvent}]
  /\ InterruptLevelBit \in [Level -> 0 .. NumSources]
  /\ sr \in SR /\ ssr \in SR
  /\ bank \in BOOLEAN
  /\ CCN_INTEVT \in Source \cup {NoEvent}

\* What the code is for, in terms of sources: s may interrupt the CPU now.
Deliverable(s) ==
  /\ ~sr.BL
  /\ GetPrLvl(s) > sr.IMASK
  /\ InterruptBit[s] \in Requests

\* No two sources ever share a bit, and no bit is up that belongs to no
\* source, across any sequence of rebuilds, resets and line changes.
BitsDistinct ==
  /\ \A s, t \in Source : InterruptBit[s] = InterruptBit[t] => s = t
  /\ interrupt_vpend \cup interrupt_vmask \subseteq {InterruptBit[s] : s \in Source}

\* Unless a rebuild is requested, the three tables are those of the priority
\* registers as they are now.
TablesCurrent ==
  ~rebuild =>
    \A s \in Source :
      /\ InterruptBit[s] = Rank(s)
      /\ InterruptEnvId[InterruptBit[s]] = s
TableLevelsCurrent ==
  ~rebuild => \A l \in Level : InterruptLevelBit[l] = CountUpTo(l)

\* Unless a rebuild is requested, the cached threshold is that of SR as it is.
ThresholdCurrent ==
  ~rebuild => decoded_srimask = Threshold(InterruptLevelBit, sr)

\* The controller never decides on a stale order or threshold: what it has
\* cached is what the registers say, or a rebuild is requested.
Current == TablesCurrent /\ TableLevelsCurrent /\ ThresholdCurrent

\* The comparison of two integers in UpdateINTC_pending says exactly whether
\* some source may interrupt the CPU (or a rebuild has to be done first).
PendingIsExact ==
  ~rebuild => (UpdateINTC_pending <=> \E s \in Source : Deliverable(s))

\* r0..r7 are bank 1 exactly when SR says so.
BankFollowsSR == bank = sr.RB

\* An interrupt that stays deliverable is not left waiting for ever.
EventuallyServed == \A s \in Source : []<>(~Deliverable(s))

Abstract == INSTANCE IntcSpec WITH
  pending <- Raised(interrupt_vpend), enabled <- Raised(interrupt_vmask)

\* The sorted-slot controller implements the abstract one: every UpdateINTC,
\* whatever was written or raised since the tables were built, accepts the
\* source IntcSpec says and no other.
ImplementsIntcSpec == Abstract!Spec

=============================================================================
