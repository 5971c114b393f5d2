-------------------------------- MODULE Spg --------------------------------
(***************************************************************************)
(* The raster beam and the delayed interrupts of the PVR                   *)
(* (plugs/drkPvr/SPG.cpp, armed by StartRender in gxRend.cpp).  Video      *)
(* modes, the vblank window, the frame pacer and the statistics are left   *)
(* out.                                                                    *)
(***************************************************************************)
EXTENDS Sched

CONSTANTS
  LineCycles, Lines,      \* spg_LineSh4Cycles, spg_ScanlineCount
  VblankOut,              \* the line of SCANINT2
  List,                   \* the TA's lists
  ListDelay,              \* LIST_END_IRQ_DELAY (200)
  IspDelay, TspDelay, VdDelay   \* 800000, 850000, 900000

ASSUME SpgAssumption ==
  /\ LineCycles \in Nat \ {0} /\ Lines \in Nat \ {0} /\ VblankOut \in 0 .. Lines - 1
  /\ ListDelay \in Nat \ {0}
  /\ {IspDelay, TspDelay, VdDelay} \subseteq Nat \ {0}
  /\ IspDelay <= TspDelay /\ TspDelay <= VdDelay

RenderDone == {"RENDER_DONE_isp", "RENDER_DONE", "RENDER_DONE_vd"}

SpgState ==
  [line : 0 .. Lines - 1, counter : Int,
   end : Nat,               \* render_end_pending_cycles
   isp : Nat, tsp : Nat, vd : Nat,
   list : [List -> Nat]]    \* s_list_irq_cycles of the active ones

InitialSpg ==
  [line |-> Lines - 1, counter |-> 0, end |-> 0, isp |-> 0, tsp |-> 0, vd |-> 0,
   list |-> [l \in List |-> 0]]

\* spg_Reset: the beam goes on from where it is.
spg_Reset(s) ==
  [s EXCEPT !.end = 0, !.isp = 0, !.tsp = 0, !.vd = 0, !.list = [l \in List |-> 0]]

\* spg_SchedListEndIrq under RENDER_DELAY
spg_SchedListEndIrq(s, l) == [s EXCEPT !.list[l] = ListDelay]

\* (mutant of StartRender) the burst of the other mode is armed too
MutBothModes(s, rd_mode, cost) ==
  [s EXCEPT !.isp = IspDelay, !.tsp = TspDelay, !.vd = VdDelay, !.end = cost]

\* StartRender, with the cycles of the single burst.
StartRender(s, rd_mode, cost) ==
  CASE rd_mode = 1 -> [s EXCEPT !.isp = IspDelay, !.tsp = TspDelay, !.vd = VdDelay, !.end = 0]
    [] rd_mode = 2 -> [s EXCEPT !.isp = 0, !.tsp = 0, !.vd = 0, !.end = cost]
    [] OTHER       -> [s EXCEPT !.end = cost]

\* libPvr_UpdatePvr: at most one line per call, then the countdowns.
NextLine(s, cycles) == s.counter - cycles < LineCycles
Vblank(s, cycles) == NextLine(s, cycles) /\ (s.line + 1) % Lines = VblankOut

libPvr_UpdatePvr(s, cycles) ==
  [line    |-> IF NextLine(s, cycles) THEN (s.line + 1) % Lines ELSE s.line,
   counter |-> s.counter - cycles + (IF NextLine(s, cycles) THEN LineCycles ELSE 0),
   end |-> CountDown(s.end, cycles), isp |-> CountDown(s.isp, cycles),
   tsp |-> CountDown(s.tsp, cycles), vd |-> CountDown(s.vd, cycles),
   list |-> [l \in List |-> CountDown(s.list[l], cycles)]]

\* The delayed interrupts it raises.
SpgEnds(s, cycles) ==
  (IF RunsOut(s.end, cycles) THEN RenderDone ELSE {})
    \cup (IF RunsOut(s.isp, cycles) THEN {"RENDER_DONE_isp"} ELSE {})
    \cup (IF RunsOut(s.tsp, cycles) THEN {"RENDER_DONE"} ELSE {})
    \cup (IF RunsOut(s.vd, cycles) THEN {"RENDER_DONE_vd"} ELSE {})
    \cup {l \in List : RunsOut(s.list[l], cycles)}
=============================================================================
