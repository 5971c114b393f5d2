------------------------------- MODULE MCAica -------------------------------
(***************************************************************************)
(* The unit on a scale of 3 cycles to the 50 of AICA_RACE, slices of 2 to  *)
(* 6 cycles, and a timer of 2 counts.                                      *)
(***************************************************************************)
EXTENDS Aica, TLC

MCLevel == 5 :> 1 @@ 6 :> 2 @@ [i \in 0 .. 7 |-> 3]

Base ==
  [race |-> TRUE, reset_fix |-> TRUE, jit |-> FALSE, batch |-> 1, bias |-> 1,
   enables |-> {{}, {SCPU, TimerA}}, menables |-> {{SCPU}}, mds |-> {0},
   bytes |-> FALSE, stm |-> FALSE, acceptFirst |-> FALSE, restarts |-> FALSE]

Driver == [Base EXCEPT !.restarts = TRUE]
Recompiled == [Base EXCEPT !.jit = TRUE, !.acceptFirst = TRUE, !.bias = 2, !.stm = TRUE]
Batched == [Base EXCEPT !.batch = 2, !.jit = TRUE, !.bias = 2]
Legacy ==
  [Base EXCEPT !.race = FALSE, !.reset_fix = FALSE, !.restarts = TRUE, !.mds = {}]
Bytes ==
  [Base EXCEPT !.bytes = TRUE, !.enables = {{SCPU, SAMPLE_DONE}}, !.bias = 2,
               !.mds = {1}]

All == {Driver, Recompiled, Batched, Legacy, Bytes}

=============================================================================
