----------------------------- MODULE Timeslice -----------------------------
(***************************************************************************)
(* The devices as the CPU's timeslice drives them: between two calls of    *)
(* UpdateSystem (dc/sh4/sh4_interpreter.cpp) the guest writes registers,   *)
(* in UpdateSystem every device is advanced in a fixed order, the slowest  *)
(* ones at every VSlow-th call only.  A reset may come between two calls.  *)
(* What becomes of the interrupts raised is modules Holly and Intc.        *)
(***************************************************************************)
EXTENDS Dma, Maple, Spg, Tmu

CONSTANTS
  Slice,        \* s_timeslice
  VSlow,        \* s_vslow_period
  Guests,       \* [uses, preset]: the devices a guest uses, and the presets
  \* bounds: what the guest writes
  G2Lens, MapleCosts, RenderCosts, CntValues, CorValues

\* An interrupt of a list is not one of the others.
ASSUME NamesAssumption == List \cap (Id \cup RenderDone \cup {"MAPLE_DMA"}) = {}

ASSUME TimesliceAssumption ==
  /\ Slice \in 1 .. LineCycles /\ VSlow \in Nat \ {0}
  /\ MapleCosts \subseteq Nat \ {0} /\ RenderCosts \subseteq Nat \ {0}
  /\ G2Lens \subseteq Nat /\ CntValues \cup CorValues \subseteq 0 .. CntMod - 1
  /\ \A g \in Guests :
       /\ g.uses \subseteq {"dma", "g2", "maple", "vblank_dma", "render", "timer", "reset"}
       /\ g.preset \in [dma_fix : BOOLEAN, sched : BOOLEAN, race : BOOLEAN, rd_mode : 0 .. 2]

VARIABLES
  guest,
  end,          \* the scheduler's list
  busy,         \* which of SB_C2DST and SB_PDST are set
  g2,           \* the G2-DMA's registers
  SPU_IST,      \* its bit of SB_ISTNRM
  maple, spg, tmu,
  update_cnt,   \* modulo VSlow
  \* history
  owed,         \* the interrupts a transfer or a render still has to raise
  again,        \* of those, the one whose transfer was just started once more
  raised,       \* those UpdateSystem has just raised
  dropped       \* a reset took the end of the G2-DMA in flight

devices == <<end, busy, g2, SPU_IST, maple, spg, tmu, update_cnt>>
vars == <<guest, devices, owed, again, raised, dropped>>

preset == guest.preset
Uses(device) == device \in guest.uses /\ ~maple.stopped

Completion == Id \cup {"MAPLE_DMA"} \cup RenderDone \cup List

Starts(which) ==
  /\ owed' = owed \cup which /\ again' = owed \cap which /\ raised' = {}
NoStart == Starts({})

-----------------------------------------------------------------------------
(* The guest                                                               *)

\* RegWrite_SB_C2DST and RegWrite_SB_PDST of 1
StartDma(ch, dmaor_ok, len_ok) ==
  /\ Uses("dma")
  /\ \/ /\ Refused(ch, dmaor_ok, len_ok, preset)
        /\ busy' = busy \cup {ch}
        /\ NoStart /\ UNCHANGED end
     \/ /\ ~Refused(ch, dmaor_ok, len_ok, preset)
        /\ busy' = busy \ {ch}
        /\ \/ preset.sched /\ end' = sh4_sched_request(end, ch, EndDelay) /\ Starts({ch})
           \/ ~preset.sched /\ UNCHANGED end /\ NoStart   \* interrupt at once
  /\ UNCHANGED <<guest, g2, SPU_IST, maple, spg, tmu, update_cnt, dropped>>

\* SB_ADEN and SB_ADLEN are plain registers.
WriteG2(enable, len, bit31) ==
  /\ Uses("g2")
  /\ g2' = [g2 EXCEPT !.ADEN = enable, !.len = len, !.bit31 = bit31]
  /\ NoStart
  /\ UNCHANGED <<guest, end, busy, SPU_IST, maple, spg, tmu, update_cnt, dropped>>

\* Write_SB_ADST of 1
Write_SB_ADST ==
  /\ Uses("g2") /\ StartsG2(g2, preset.race)
  /\ LET g == [g2 EXCEPT !.ADST = {1}]
     IN \/ /\ preset.dma_fix /\ preset.sched
           /\ end' = sh4_sched_request(end, "SPU_DMA", G2Cycles(g2.len))
           /\ g2' = g /\ UNCHANGED SPU_IST
           /\ Starts({"SPU_DMA"})
        \/ /\ preset.dma_fix /\ ~preset.sched
           /\ g2' = [g EXCEPT !.delay = G2Cycles(g2.len)]
           /\ UNCHANGED <<end, SPU_IST>>
           /\ Starts({"SPU_DMA"})
        \/ /\ ~preset.dma_fix
           /\ g2' = aica_dma_complete(g, preset.race) /\ SPU_IST' = TRUE
           /\ UNCHANGED end /\ NoStart
  /\ dropped' = FALSE
  /\ UNCHANGED <<guest, busy, maple, spg, tmu, update_cnt>>

ReadG2 ==
  /\ Uses("g2")
  /\ g2' = Read_SB_ADST(g2, SPU_IST, preset.race)
  /\ NoStart
  /\ UNCHANGED <<guest, end, busy, SPU_IST, maple, spg, tmu, update_cnt, dropped>>

AcknowledgeG2 ==
  /\ Uses("g2") /\ SPU_IST' = FALSE /\ NoStart
  /\ UNCHANGED <<guest, end, busy, g2, maple, spg, tmu, update_cnt, dropped>>

MapleWrite(m) ==
  /\ Uses("maple") /\ maple' = m
  /\ UNCHANGED <<guest, end, busy, g2, SPU_IST, spg, tmu, update_cnt, dropped>>

GuestMaple ==
  \/ \E en \in BOOLEAN : MapleWrite([maple EXCEPT !.MDEN = en]) /\ NoStart
  \/ \E sel, once \in BOOLEAN :
       /\ "vblank_dma" \in guest.uses
       /\ MapleWrite([maple EXCEPT !.MDTSEL = sel, !.once = once]) /\ NoStart
  \/ \E cost \in MapleCosts :
       /\ MapleWrite(maple_SB_MDST_Write(maple, cost))
       /\ Starts(IF maple.MDEN THEN {"MAPLE_DMA"} ELSE {})
  \/ MapleWrite(maple_SB_MSHTCL_Write(maple)) /\ NoStart

\* The write of STARTRENDER, and an end-of-list parameter to the TA.
GuestRender ==
  /\ Uses("render")
  /\ \/ \E cost \in RenderCosts :
          spg' = StartRender(spg, preset.rd_mode, cost) /\ Starts(RenderDone)
     \/ /\ preset.rd_mode = 1   \* else the interrupt comes at once
        /\ \E l \in List : spg' = spg_SchedListEndIrq(spg, l) /\ Starts({l})
  /\ UNCHANGED <<guest, end, busy, g2, SPU_IST, maple, tmu, update_cnt, dropped>>

GuestTimer ==
  /\ Uses("timer")
  /\ \/ \E run \in BOOLEAN : tmu' = [tmu EXCEPT !.run = run]
     \/ \E c \in CntValues : tmu' = [tmu EXCEPT !.CNT = c]
     \/ \E c \in CorValues : tmu' = [tmu EXCEPT !.COR = c]
     \/ \E unf \in BOOLEAN, mode \in Mode : tmu' = TMU_TCR_write(tmu, unf, mode)
  /\ NoStart
  /\ UNCHANGED <<guest, end, busy, g2, SPU_IST, maple, spg, update_cnt, dropped>>

-----------------------------------------------------------------------------
(* UpdateSystem                                                            *)

UpdateSystem ==
  /\ ~maple.stopped
  /\ LET slow == update_cnt = 0
         m    == IF slow THEN maple_Update(maple, Slice * VSlow) ELSE maple
         due  == IF preset.sched THEN Due(end, Slice) ELSE {}
         g    == UpdateAicaDma(g2, Slice, preset.race)
     IN /\ tmu' = UpdateTMU_chan(tmu, Slice)
        /\ spg' = libPvr_UpdatePvr(spg, Slice)
        /\ \E cost \in MapleCosts : maple' = IF Vblank(spg, Slice) THEN maple_vblank(m, cost) ELSE m
        /\ end' = IF preset.sched THEN sh4_sched_tick(end, Slice) ELSE end
        /\ g2' = IF "SPU_DMA" \in due THEN aica_dma_complete(g, preset.race) ELSE g
        /\ raised' = (IF slow THEN MapleEnds(maple, Slice * VSlow) ELSE {})
                       \cup SpgEnds(spg, Slice) \cup due
                       \cup (IF RunsOut(g2.delay, Slice) THEN {"SPU_DMA"} ELSE {})
        \* a transfer the guest aborted and left is owed no interrupt
        /\ owed' = (owed \ raised') \ (IF maple'.pending = 0 THEN {"MAPLE_DMA"} ELSE {})
  /\ again' = {}
  /\ SPU_IST' = (SPU_IST \/ "SPU_DMA" \in raised')
  /\ update_cnt' = (update_cnt + 1) % VSlow
  /\ UNCHANGED <<guest, busy, dropped>>

-----------------------------------------------------------------------------
(* The resets                                                              *)

\* ResetDC: spg_Reset, sh4_sched_reset, tmu_Reset, pvr_sb_Reset, maple_Reset,
\* and aica_sb_Reset, which is empty.
ResetDC ==
  /\ Uses("reset")
  /\ spg' = spg_Reset(spg) /\ end' = sh4_sched_reset /\ tmu' = tmu_Reset
  /\ busy' = {} /\ maple' = maple_Reset
  /\ owed' = owed \cap (IF g2.delay > 0 THEN {"SPU_DMA"} ELSE {})
  /\ dropped' = (dropped \/ end["SPU_DMA"] # Idle)
  /\ again' = {} /\ raised' = {}
  /\ UNCHANGED <<guest, g2, SPU_IST, update_cnt>>

\* HollySoftReset, from the guest's write of SB_SFRES: of the devices here
\* only the PVR's plugin is reset.
HollySoftReset ==
  /\ Uses("reset")
  /\ spg' = spg_Reset(spg)
  /\ owed' = owed \ (RenderDone \cup List) /\ again' = {} /\ raised' = {}
  /\ UNCHANGED <<guest, end, busy, g2, SPU_IST, maple, tmu, update_cnt, dropped>>

-----------------------------------------------------------------------------

Init ==
  /\ guest \in Guests
  /\ end = Unscheduled /\ busy = {} /\ g2 = InitialG2 /\ SPU_IST = FALSE
  /\ maple = maple_Reset /\ spg = InitialSpg /\ tmu = tmu_Reset /\ update_cnt = 0
  /\ owed = {} /\ again = {} /\ raised = {} /\ dropped = FALSE

Next ==
  \/ UpdateSystem
  \/ \E ch \in {"CH2_DMA", "PVR_DMA"}, ok1, ok2 \in BOOLEAN : StartDma(ch, ok1, ok2)
  \/ \E e, b \in BOOLEAN, len \in G2Lens : WriteG2(e, len, b)
  \/ Write_SB_ADST \/ ReadG2 \/ AcknowledgeG2
  \/ GuestMaple \/ GuestRender \/ GuestTimer
  \/ ResetDC \/ HollySoftReset

\* The recompiled code leaves for UpdateSystem at every timeslice, for ever.
Fairness == WF_vars(UpdateSystem)

SafeSpec == Init /\ [][Next]_vars
Spec == SafeSpec /\ Fairness

-----------------------------------------------------------------------------
(* Properties                                                              *)

TypeOK ==
  /\ guest \in Guests
  /\ end \in [Id -> Nat \cup {Idle}] /\ busy \subseteq Id
  /\ g2 \in G2State /\ SPU_IST \in BOOLEAN
  /\ maple \in MapleState /\ spg \in SpgState /\ tmu \in TmuState
  /\ spg.counter \in -Slice .. 2 * LineCycles - 1
  /\ update_cnt \in 0 .. VSlow - 1
  /\ owed \subseteq Completion /\ again \subseteq Completion /\ raised \subseteq Completion
  /\ dropped \in BOOLEAN

\* A guest that waits for a busy bit does not wait in vain: as long as
\* SB_ADST or SB_MDST says that a transfer runs, its end is on the way, by
\* countdown or by deadline, whatever was started, aborted or reset since.
\* The exception is a G2-DMA whose deadline ResetDC dropped.
BusyEnds ==
  /\ 1 \in g2.ADST => g2.delay > 0 \/ end["SPU_DMA"] # Idle \/ dropped
  /\ maple.MDST => maple.pending > 0

\* No interrupt comes twice for one transfer, or for a transfer or render that
\* a reset cut off: SPG.cpp "a reset mid-render must not fire stale render-done
\* / list-complete interrupts into the fresh state", sh4_interpreter.cpp "so a
\* reset never fires a stale completion into fresh state".
EndsAreOwed == [][raised' \subseteq owed]_vars

\* Every transfer and every render raises its interrupt, unless the guest
\* starts the channel over (or a verify stops the emulator).
TransfersEnd ==
  \A c \in Completion : []<>(c \notin owed \/ c \in again \/ maple.stopped)

\* The timer does not show the timeslice: advancing it in bulk gives what
\* counting cycle by cycle gives, several underflows in one slice included.
\* The exception is a slice that ends on a whole number (>= 2) of periods.
BulkIsCycleByCycle ==
  [][UpdateSystem => \/ tmu' = CycleByCycle(tmu, Slice)
                     \/ tmu.run /\ EndsOnPeriod(tmu, Slice)]_vars
=============================================================================
