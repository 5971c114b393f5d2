---------------------------- MODULE MCTimeslice ----------------------------
(* The guests the runs of Timeslice.tla choose from: each uses a few devices, *)
(* which bounds the product of their states.                                  *)
EXTENDS Timeslice

Preset(dma_fix, sched, race, rd) ==
  [dma_fix |-> dma_fix, sched |-> sched, race |-> race, rd_mode |-> rd]

MCPrescale == [m \in {0, 1} |-> IF m = 0 THEN 1 ELSE 3]

Sound == [uses : {{"g2", "reset"}},
          preset : {Preset(TRUE, s, r, 0) : s, r \in BOOLEAN} \cup {Preset(FALSE, FALSE, FALSE, 0)}]
Video == [uses : {{"render", "reset"}}, preset : {Preset(TRUE, TRUE, TRUE, rd) : rd \in 0 .. 2}]
Pads == [uses : {{"maple", "reset"}, {"maple", "vblank_dma"}}, preset : {Preset(TRUE, TRUE, TRUE, 0)}]
Upload == [uses : {{"dma", "reset"}}, preset : {Preset(FALSE, FALSE, TRUE, 0)}]
Timing == [uses : {{"timer", "reset"}}, preset : {Preset(TRUE, FALSE, FALSE, 0)}]

\* Devices that share the scheduler.
Queue == [uses : {{"g2", "dma", "reset"}}, preset : {Preset(TRUE, TRUE, TRUE, 0)}]

All == Queue \cup Sound \cup Video \cup Pads \cup Upload \cup Timing
=============================================================================
