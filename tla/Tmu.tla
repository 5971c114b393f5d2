-------------------------------- MODULE Tmu --------------------------------
(***************************************************************************)
(* One channel of the SH4's timer unit (dc/sh4/tmu.cpp, whose three        *)
(* channels are instances of one template), advanced in bulk by whole      *)
(* timeslices.  The channel's two interrupt lines are in module Holly.     *)
(***************************************************************************)
EXTENDS Integers

CONSTANTS
  CntMod,       \* 2^32: TCNT and TCOR are 32-bit registers
  Mode,         \* values of TCR.TPSC
  Prescale      \* cycles per count of the modes implemented (0..4)

ASSUME TmuAssumption ==
  /\ CntMod \in Nat \ {0} /\ 0 \in DOMAIN Prescale /\ DOMAIN Prescale \subseteq Mode
  /\ Prescale \in [DOMAIN Prescale -> Nat \ {0}]

TmuState ==
  [run : BOOLEAN, CNT : 0 .. CntMod - 1, COR : 0 .. CntMod - 1, UNF : BOOLEAN,
   mode : Mode, prescale : {Prescale[m] : m \in DOMAIN Prescale}, acc : Nat]

\* tmu_Reset, the forced UpdateTMUCounts for mode 0 included.
tmu_Reset ==
  [run |-> FALSE, CNT |-> CntMod - 1, COR |-> CntMod - 1, UNF |-> FALSE,
   mode |-> 0, prescale |-> Prescale[0], acc |-> 0]

\* TMU_TCRx_write and UpdateTMUCounts: the reserved modes keep the prescaler.
TMU_TCR_write(t, unf, mode) ==
  LET u == [t EXCEPT !.UNF = unf, !.mode = mode]
  IN IF mode = t.mode \/ mode \notin DOMAIN Prescale THEN u
     ELSE [u EXCEPT !.prescale = Prescale[mode], !.acc = 0]

\* (mutant of UpdateTMU_chan) the cycles below one count are dropped
MutLosesRemainder(t, cycles) ==
  LET steps == (t.acc + cycles) \div t.prescale
  IN IF ~t.run THEN t
     ELSE IF steps > t.CNT
          THEN [t EXCEPT !.acc = 0, !.UNF = TRUE, !.CNT = (t.COR - (steps - t.CNT)) % CntMod]
          ELSE [t EXCEPT !.acc = 0, !.CNT = t.CNT - steps]

\* What is left of the steps after the first underflow, further full periods
\* taken off.
Absorb(left, cor) == IF cor > 0 /\ left > cor THEN left % cor ELSE left

\* UpdateTMU_chan: the counter is unsigned and wraps.
UpdateTMU_chan(t, cycles) ==
  LET steps == (t.acc + cycles) \div t.prescale
      u == [t EXCEPT !.acc = (t.acc + cycles) % t.prescale]
  IN IF ~t.run THEN t
     ELSE IF steps > t.CNT
          THEN [u EXCEPT !.UNF = TRUE,
                         !.CNT = (t.COR - Absorb(steps - t.CNT, t.COR)) % CntMod]
          ELSE [u EXCEPT !.CNT = t.CNT - steps]

-----------------------------------------------------------------------------
(* The reference: the same channel counting one step at a time, as the     *)
(* timer it stands for does.                                               *)

OneStep(t) ==
  IF t.CNT = 0 THEN [t EXCEPT !.CNT = (t.COR - 1) % CntMod, !.UNF = TRUE]
  ELSE [t EXCEPT !.CNT = t.CNT - 1]

OneCycle(t) ==
  IF ~t.run THEN t
  ELSE IF t.acc + 1 = t.prescale THEN [OneStep(t) EXCEPT !.acc = 0]
  ELSE [t EXCEPT !.acc = t.acc + 1]

CycleByCycle(t, cycles) ==
  LET after[n \in 0 .. cycles] == IF n = 0 THEN t ELSE OneCycle(after[n - 1])
  IN after[cycles]

\* The bulk update takes off whole periods when a tick ends exactly on one.
EndsOnPeriod(t, cycles) ==
  LET left == (t.acc + cycles) \div t.prescale - t.CNT
  IN t.COR > 0 /\ left > t.COR /\ left % t.COR = 0
=============================================================================
