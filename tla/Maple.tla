------------------------------- MODULE Maple -------------------------------
(***************************************************************************)
(* The Maple host controller (dc/maple/maple_if.cpp): frames are processed *)
(* when the DMA starts, its end comes after as many cycles as the words    *)
(* take on the bus.                                                        *)
(***************************************************************************)
EXTENDS Sched

MapleState ==
  [MDEN : BOOLEAN, MDST : BOOLEAN,
   MDTSEL : BOOLEAN,         \* started by vblank
   once : BOOLEAN,           \* SB_MSYS bit 12: one vblank, then wait for MSHTCL
   pending : Nat,            \* maple_dma_pending
   ddt_reset : BOOLEAN,      \* maple_ddt_pending_reset
   stopped : BOOLEAN]        \* a verify() has stopped the emulator

\* maple_Reset
maple_Reset ==
  [MDEN |-> FALSE, MDST |-> FALSE, MDTSEL |-> FALSE, once |-> FALSE, pending |-> 0,
   ddt_reset |-> FALSE, stopped |-> FALSE]

\* maple_DoDma, with the cycles its words take.
maple_DoDma(m, cost) ==
  IF m.MDEN /\ m.MDST THEN [m EXCEPT !.pending = cost]
  ELSE [m EXCEPT !.stopped = TRUE]

\* maple_SB_MDST_Write of 1
maple_SB_MDST_Write(m, cost) ==
  IF m.MDEN THEN maple_DoDma([m EXCEPT !.MDST = TRUE], cost) ELSE m

\* maple_SB_MSHTCL_Write of 1
maple_SB_MSHTCL_Write(m) == [m EXCEPT !.ddt_reset = FALSE]

\* maple_vblank
maple_vblank(m, cost) ==
  IF ~m.MDEN THEN m
  ELSE IF ~m.MDTSEL THEN [m EXCEPT !.ddt_reset = FALSE]
  ELSE IF m.ddt_reset THEN m
  ELSE [maple_DoDma(m, cost) EXCEPT !.MDST = FALSE, !.ddt_reset = m.once]

\* (mutant of maple_Update) the busy bit outlives the transfer
MutMapleStaysBusy(m, cycles) == [m EXCEPT !.pending = CountDown(@, cycles)]

\* maple_Update, the interrupt aside: without SB_MDEN the DMA is aborted, its
\* countdown goes on.
maple_Update(m, cycles) ==
  [m EXCEPT !.pending = CountDown(@, cycles),
            !.MDST = IF m.pending > 0 /\ (~m.MDEN \/ m.pending <= cycles) THEN FALSE ELSE @]

\* Its interrupt.
MapleEnds(m, cycles) ==
  IF m.MDEN /\ RunsOut(m.pending, cycles) THEN {"MAPLE_DMA"} ELSE {}
=============================================================================
