-------------------------------- MODULE Dma --------------------------------
(***************************************************************************)
(* The DMA channels that end later than they run: channel 2                *)
(* (dc/sh4/dmac.cpp), PVR-DMA (dc/pvr/pvr_sb_regs.cpp) and the AICA's      *)
(* G2-DMA (dc/aica/aica_if.cpp).  All three copy their data inside the     *)
(* register write; what takes time is the end: by the scheduler, by a      *)
(* countdown, or not at all, as the presets say.  Addresses and the data   *)
(* are left out.                                                           *)
(***************************************************************************)
EXTENDS Sched

CONSTANTS
  EndDelay,       \* CH2_DMA_IRQ_DELAY and PVR_DMA_IRQ_DELAY (200)
  CyclesPerByte,  \* SH4_CLOCK_EFF / 2 / 25000000
  MinG2Cycles     \* 64

ASSUME DmaAssumption ==
  /\ {"CH2_DMA", "PVR_DMA", "SPU_DMA"} = Id
  /\ EndDelay \in Nat /\ CyclesPerByte \in Nat /\ MinG2Cycles \in Nat \ {0}

-----------------------------------------------------------------------------
(* Channel 2 and PVR-DMA                                                   *)

\* What makes DMAC_Ch2St or do_pvr_dma return at once, SB_C2DST or SB_PDST
\* left set: DMAOR, or a length the channel refuses.
Refused(ch, dmaor_ok, len_ok, preset) ==
  \/ ~dmaor_ok
  \/ ~len_ok /\ (ch = "CH2_DMA" \/ ~preset.dma_fix)

-----------------------------------------------------------------------------
(* The AICA's G2-DMA                                                       *)

G2State ==
  [ADST : SUBSET {1, 2},    \* SB_ADST: bit 0 busy, bit 1 of the double-read rule
   ADEN : BOOLEAN,          \* SB_ADEN
   len : Nat, bit31 : BOOLEAN,   \* SB_ADLEN
   delay : Nat]             \* aica_dma_delay_cycles

InitialG2 == [ADST |-> {}, ADEN |-> FALSE, len |-> 0, bit31 |-> FALSE, delay |-> 0]

\* aica_dma_complete, the interrupt aside: AICA_RACE turns bit 31 around.
aica_dma_complete(g, race) ==
  [g EXCEPT !.ADEN = IF race THEN ~g.bit31 ELSE g.bit31,
            !.ADST = {}, !.len = 0, !.bit31 = FALSE]

\* UpdateAicaDma
UpdateAicaDma(g, cycles, race) ==
  LET h == [g EXCEPT !.delay = CountDown(g.delay, cycles)]
  IN IF RunsOut(g.delay, cycles) THEN aica_dma_complete(h, race) ELSE h

\* Read_SB_ADST: with AICA_RACE a read says busy once more while the end
\* interrupt is pending, on every second read.
Read_SB_ADST(g, pending, race) ==
  IF ~race THEN g
  ELSE IF pending /\ 2 \notin g.ADST THEN [g EXCEPT !.ADST = @ \cup {2}]
  ELSE [g EXCEPT !.ADST = @ \ {2}]

\* Write_SB_ADST: what lets a start through.
StartsG2(g, race) == g.ADEN /\ ~(race /\ 1 \in g.ADST)

G2Cycles(len) == IF len * CyclesPerByte < MinG2Cycles THEN MinG2Cycles ELSE len * CyclesPerByte
=============================================================================
