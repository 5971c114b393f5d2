-------------------------------- MODULE Aica --------------------------------
(***************************************************************************)
(* The AICA's interrupt unit (plugs/nullAICA/aica.cpp), the FIQ latch of   *)
(* the ARM7 (plugs/vbaARM/arm_mem.cpp) and the slices the ARM7 runs in     *)
(* (arm_aica.cpp, arm7.cpp, arm7_cached.cpp, arm7_jit.cpp).                *)
(*                                                                         *)
(* Two processors write the same registers in turns: the SH4 between two   *)
(* calls of armUpdateARM, the ARM7 inside the slice such a call gives it,  *)
(* and after the slice the sound generator steps its samples.  A source is *)
(* known by its bit.  Of the ARM7's program there is what a sound driver   *)
(* does to this unit: it enables sources, answers a FIQ by acknowledging   *)
(* the source of the level it reads and accepting the interrupt, and       *)
(* raises the SH4's interrupt; of the SH4's its half of the handshake.     *)
(*                                                                         *)
(* Left out: timers B and C, which are timer A with another bit, the       *)
(* synthesis, an ARM7 that writes its own reset register, and the byte     *)
(* writes to SCIPD, SCIRE, MCIRE and MCIPD's SCPU that stop the emulator   *)
(* (verify(sz != 1)).                                                      *)
(***************************************************************************)
EXTENDS Integers, FiniteSetsExt

CONSTANTS
  Guests,        \* pairs of programs with their presets, see GuestAssumption
  Level,         \* SCILV0-2 by bit
  CountMod,      \* 256
  MaxMd,         \* 7
  Race,          \* the 50 cycles of AICA_RACE
  CallCycles,    \* SH4 cycles between two calls of armUpdateARM
  SampleCycles,  \* SH4 cycles of a sample
  Costs,         \* cycles of an instruction; the large one is an idle loop's
  MaxPosts       \* bound on the requests of each side

SCPU == 5
TimerA == 6
SAMPLE_DONE == 10
Irq == {SCPU, TimerA, SAMPLE_DONE}
High == {SAMPLE_DONE}    \* bits of the upper byte

ASSUME SizesAssumption ==
  /\ Level \in [0 .. 7 -> Nat] /\ CountMod \in Nat \ {0} /\ MaxMd \in Nat
  /\ Race \in Nat \ {0} /\ CallCycles \in Nat \ {0} /\ SampleCycles \in Nat \ {0}
  /\ Costs \subseteq Nat \ {0} /\ MaxPosts \in Nat
ASSUME GuestAssumption ==
  \A g \in Guests :
    /\ g.race \in BOOLEAN /\ g.reset_fix \in BOOLEAN   \* AICA_RACE, ARM7_RESET_FIX
    /\ g.jit \in BOOLEAN            \* arm7_jit, or the cached interpreter
    /\ g.batch \in Nat \ {0}        \* arm7_batch
    /\ g.bias \in Nat \ {0}         \* arm_sh4_bias << arm7_speed
    /\ g.enables \subseteq SUBSET Irq /\ g.menables \subseteq SUBSET Irq
    /\ g.mds \subseteq 0 .. MaxMd
    /\ g.bytes \in BOOLEAN          \* it writes single bytes
    /\ g.stm \in BOOLEAN            \* it stores to the registers with STM
    /\ g.acceptFirst \in BOOLEAN    \* REG_M before SCIRE in its handler
    /\ g.restarts \in BOOLEAN       \* it halts and restarts the ARM7

NoRaise == -1

VARIABLES
  guest,
  sci, mci,  \* SCIEB and SCIPD, MCIEB and MCIPD
  spu,       \* holly_SPU_IRQ in SB_ISTEXT
  timer,     \* timers[0]: count and md of the register, m_step, c_step
  latch,     \* aica_interr, aica_reg_L, e68k_out, e68k_reg_L
  arm,       \* Arm7Enabled, armFiqEnable, the program's place, the level read
  slice,     \* arm_in_slice, its limit, what is left of it, arm_race_pending
  clock,     \* the accumulators of armUpdateARM, and whose turn it is
  posts,     \* requests either side may still make
  lag,       \* history: a mask moved, or the ARM7 was reset, since the sample
  caused     \* history: a source was enabled and pending since the ARM7's reset

chip == <<sci, mci, spu, timer, latch>>
history == <<lag, caused>>
vars == <<guest, chip, arm, slice, clock, posts, history>>

Asserted(c) == c.eb \cap c.pd

-----------------------------------------------------------------------------
(* The lines                                                               *)

\* arm_mem.cpp's half: a pending interrupt sets the latch once it is free.
\* (mutant of update_e68k) the level follows even while the latch is held
MutE68kOnceOnly(l) ==
  IF ~l.out /\ l.interr /\ l.L # l.regL THEN [l EXCEPT !.out = TRUE, !.L = l.regL] ELSE l

update_e68k(l) ==
  IF ~l.out /\ l.interr THEN [l EXCEPT !.out = TRUE, !.L = l.regL] ELSE l

ArmInterruptChange(l, bits, level) ==
  update_e68k([l EXCEPT !.interr = bits # {}, !.regL = IF bits # {} THEN level ELSE @])

e68k_AcceptInterrupt(l) == update_e68k([l EXCEPT !.out = FALSE])

Quiet == [interr |-> FALSE, regL |-> 0, out |-> FALSE, L |-> 0]

GetL(bit) == Level[IF bit > 7 THEN 7 ELSE bit]

\* update_arm_interrupts, with s the registers it finds: the lowest source's level
FiqLine(l, s) ==
  ArmInterruptChange(l, Asserted(s), IF Asserted(s) = {} THEN 0 ELSE GetL(Min(Asserted(s))))

\* UpdateSh4Ints raises and cancels holly_SPU_IRQ, and returns
SpuLine(m) == Asserted(m) # {}

-----------------------------------------------------------------------------
(* The timer                                                               *)

Steps(md) == 2 ^ md

\* AicaTimer::StepTimer
StepTimer(t) ==
  IF t.c_step > 1 THEN [t EXCEPT !.c_step = @ - 1]
  ELSE [t EXCEPT !.c_step = t.m_step, !.count = (@ + 1) % CountMod]

Overflows(t) == t.c_step = 1 /\ (t.count + 1) % CountMod = 0

\* AicaTimer::RegisterWrite
RegisterWrite(t) ==
  IF Steps(t.md) = t.m_step THEN t
  ELSE [t EXCEPT !.m_step = Steps(t.md), !.c_step = Steps(t.md)]

-----------------------------------------------------------------------------
(* The slice                                                               *)

Larger(a, b) == IF a < b THEN b ELSE a
Smaller(a, b) == IF a < b THEN a ELSE b

\* (mutant of AvoidRace) the interpreter forgets to move the tick count back
MutNoRoom(s, how) == [s EXCEPT !.pending = TRUE, !.ran = 0]

\* ArmAvoidRaceCondition: the interpreter moves its tick count back, though not
\* below 0; the JIT is left a flag, which its stub for a single store reads.
AvoidRace(s, how) ==
  IF ~s.in THEN s
  ELSE [s EXCEPT !.pending = ~guest.jit \/ how = "stm", !.ran = 0,
                 !.left = CASE ~guest.jit -> Larger(@, Smaller(Race, s.limit))
                            [] guest.jit /\ how = "str" -> Larger(@, Race)
                            [] guest.jit /\ how = "stm" -> @]

\* Every single store of the JIT to a register takes the flag back.
Stored(s, how) ==
  IF guest.jit /\ how = "str" /\ s.pending
  THEN [s EXCEPT !.pending = FALSE, !.left = Larger(@, Race)] ELSE s

\* An instruction charges its cycles before it acts.
Charged(s, cost) ==
  [s EXCEPT !.left = @ - cost, !.ran = IF @ = NoRaise THEN @ ELSE Smaller(@ + cost, Race)]

-----------------------------------------------------------------------------
(* WriteAicaReg, from either side: s is the writer's slice, after the      *)
(* charge, and how the ARM7 stores: "str" or "stm"                         *)

Causes == caused' = (caused \/ Asserted(sci') # {})

\* SCIPD with bit 5, all its writes do: a request to the ARM7
WriteSCIPD(s, how) ==
  /\ sci' = [sci EXCEPT !.pd = @ \cup {SCPU}]
  /\ latch' = FiqLine(latch, sci')
  /\ slice' = Stored(s, how) /\ Causes
  /\ UNCHANGED <<mci, spu, timer, lag>>

\* (mutant of WriteSCIRE) acknowledged, and the line left up
MutAckKeepsLine(s, how, bits) ==
  /\ sci' = [sci EXCEPT !.pd = @ \ bits]
  /\ slice' = Stored(s, how) /\ Causes
  /\ UNCHANGED <<mci, spu, timer, lag, latch>>

WriteSCIRE(s, how, bits) ==
  /\ sci' = [sci EXCEPT !.pd = @ \ bits]
  /\ latch' = FiqLine(latch, sci')
  /\ slice' = Stored(s, how) /\ Causes
  /\ UNCHANGED <<mci, spu, timer, lag>>

\* MCIPD with bit 5: a request to the SH4
WriteMCIPD(s, how) ==
  /\ mci' = [mci EXCEPT !.pd = @ \cup {SCPU}]
  /\ spu' = SpuLine(mci')
  /\ slice' = Stored(IF spu' /\ guest.race THEN AvoidRace(s, how) ELSE s, how)
  /\ UNCHANGED <<sci, timer, latch, history>>

\* (mutant of WriteMCIRE) cancelled by the next sample only
MutCancelLater(s, how, bits) ==
  /\ mci' = [mci EXCEPT !.pd = @ \ bits]
  /\ slice' = Stored(s, how)
  /\ UNCHANGED <<sci, spu, timer, latch, history>>

WriteMCIRE(s, how, bits) ==
  /\ mci' = [mci EXCEPT !.pd = @ \ bits]
  /\ spu' = SpuLine(mci')
  /\ slice' = Stored(s, how)
  /\ UNCHANGED <<sci, timer, latch, history>>

\* The masks, of which a byte write at the register's address moves the lower
\* half, take effect at once under AICA_RACE.
WriteSCIEB(s, how, eb) ==
  /\ sci' = [sci EXCEPT !.eb = eb]
  /\ latch' = IF guest.race THEN FiqLine(latch, sci') ELSE latch
  /\ lag' = [lag EXCEPT !.fiq = @ \/ ~guest.race]
  /\ slice' = Stored(s, how) /\ Causes
  /\ UNCHANGED <<mci, spu, timer>>

WriteMCIEB(s, how, eb) ==
  /\ mci' = [mci EXCEPT !.eb = eb]
  /\ spu' = IF guest.race THEN SpuLine(mci') ELSE spu
  /\ lag' = [lag EXCEPT !.spu = @ \/ ~guest.race]
  /\ slice' = Stored(IF spu' /\ guest.race THEN AvoidRace(s, how) ELSE s, how)
  /\ UNCHANGED <<sci, timer, latch, caused>>

WriteTIMER_A(s, how, count, md) ==
  /\ timer' = RegisterWrite([timer EXCEPT !.count = count, !.md = md])
  /\ slice' = Stored(s, how)
  /\ UNCHANGED <<sci, mci, spu, latch, history>>

\* The upper bytes have addresses of their own, which only the default case
\* of the switch knows: nothing looks at what they change.
WriteHighSCIEB(s, how, eb) ==
  /\ sci' = [sci EXCEPT !.eb = (@ \ High) \cup (eb \cap High)]
  /\ lag' = [lag EXCEPT !.fiq = TRUE]
  /\ slice' = Stored(s, how) /\ Causes
  /\ UNCHANGED <<mci, spu, timer, latch>>

WriteHighTIMER_A(s, how, md) ==
  /\ timer' = [timer EXCEPT !.md = md]
  /\ slice' = Stored(s, how)
  /\ UNCHANGED <<sci, mci, spu, latch, history>>

\* REG_M with bit 0: only the ARM7 has it.
WriteREG_M(s, how) ==
  /\ latch' = e68k_AcceptInterrupt(latch)
  /\ slice' = Stored(s, how)
  /\ UNCHANGED <<sci, mci, spu, timer, history>>

\* What either processor may write to set the unit up.
Setup(s, how) ==
  \/ \E eb \in guest.enables : WriteSCIEB(s, how, eb)
  \/ \E eb \in guest.menables : WriteMCIEB(s, how, eb)
  \/ \E md \in guest.mds, count \in 0 .. CountMod - 1 : WriteTIMER_A(s, how, count, md)
  \/ guest.bytes /\ \E eb \in guest.enables :
       \/ WriteHighSCIEB(s, how, eb)
       \/ WriteSCIEB(s, how, (sci.eb \cap High) \cup (eb \ High))
  \/ guest.bytes /\ \E md \in guest.mds : WriteHighTIMER_A(s, how, md)

-----------------------------------------------------------------------------
(* The SH4, between two calls of armUpdateARM                              *)

Sh4Turn == clock.turn = "sh4"

Sh4Setup == Sh4Turn /\ Setup(slice, "str") /\ UNCHANGED <<guest, arm, clock, posts>>

Sh4Posts ==
  /\ Sh4Turn /\ posts.sh4 > 0 /\ WriteSCIPD(slice, "str")
  /\ posts' = [posts EXCEPT !.sh4 = @ - 1]
  /\ UNCHANGED <<guest, arm, clock>>

\* The SH4's handler acknowledges what it sees pending.
Sh4Handles ==
  /\ Sh4Turn /\ spu /\ WriteMCIRE(slice, "str", Asserted(mci))
  /\ UNCHANGED <<guest, arm, clock, posts>>

\* arm_Reset; Stopped is what it leaves of the program
Stopped == [enabled |-> FALSE, fiq |-> FALSE, at |-> "boot", L |-> 0]

ResetLatch == IF guest.reset_fix THEN Quiet ELSE latch

arm_Reset ==
  /\ latch' = ResetLatch
  /\ lag' = [lag EXCEPT !.fiq = @ \/ guest.reset_fix]
  /\ caused' = (Asserted(sci) # {})

\* ARMRST, through libAICA_WriteMem_aica_reg and arm_SetEnabled
Release ==
  /\ Sh4Turn /\ ~arm.enabled /\ arm_Reset
  /\ arm' = [Stopped EXCEPT !.enabled = TRUE]
  /\ UNCHANGED <<guest, sci, mci, spu, timer, slice, clock, posts>>

Halt ==
  /\ Sh4Turn /\ guest.restarts /\ arm.enabled
  /\ arm' = [arm EXCEPT !.enabled = FALSE]
  /\ UNCHANGED <<guest, chip, slice, clock, posts, history>>

\* ResetDC: aica_Reset leaves the registers alone.
armReset ==
  /\ Sh4Turn /\ guest.restarts /\ arm_Reset
  /\ arm' = Stopped
  /\ UNCHANGED <<guest, sci, mci, spu, timer, slice, clock, posts>>

-----------------------------------------------------------------------------
(* armUpdateARM                                                            *)

Idle == [in |-> FALSE, limit |-> 0, left |-> 0, pending |-> FALSE, ran |-> NoRaise,
         dispatch |-> TRUE]

\* One call: the ARM7's cycles may be banked, the samples' never are.
armUpdateARM ==
  /\ Sh4Turn
  /\ LET runs == clock.calls + 1 >= guest.batch
         owed == clock.owed + CallCycles
         ticks == owed \div guest.bias
     IN /\ clock' = [acc |-> clock.acc + CallCycles,
                     owed |-> IF runs THEN 0 ELSE owed,
                     calls |-> IF runs THEN 0 ELSE clock.calls + 1,
                     turn |-> IF runs /\ arm.enabled THEN "arm" ELSE "samples"]
        /\ slice' = IF runs /\ arm.enabled
                    THEN [Idle EXCEPT !.in = TRUE, !.limit = ticks, !.left = ticks]
                    ELSE slice
  /\ UNCHANGED <<guest, chip, arm, posts, history>>

\* A FIQ is taken where a block is dispatched, even with no cycle left.
Fiq == slice.dispatch /\ arm.fiq /\ latch.out

CPUFiq ==
  /\ clock.turn = "arm" /\ Fiq
  /\ arm' = [arm EXCEPT !.fiq = FALSE, !.at = "fiq"]
  /\ UNCHANGED <<guest, chip, slice, clock, posts, history>>

Computes(s, how) == slice' = s /\ UNCHANGED <<chip, history>>

Goes(to) == arm' = [arm EXCEPT !.at = to]

\* Its setup, and then MSR opens the FIQ.
Boots(s, how) == Setup(s, how) /\ Goes("open") /\ UNCHANGED posts
Opens(s, how) ==
  Computes(s, how) /\ arm' = [arm EXCEPT !.at = "main", !.fiq = TRUE] /\ UNCHANGED posts

Waits(s, how) == Computes(s, how) /\ UNCHANGED <<arm, posts>>

RaisesSh4(s, how) ==
  /\ posts.arm > 0 /\ WriteMCIPD(s, how)
  /\ posts' = [posts EXCEPT !.arm = @ - 1] /\ UNCHANGED arm

\* The handler: REG_L says which sources to answer.
ReadsL(s, how) ==
  /\ Computes(s, how)
  /\ arm' = [arm EXCEPT !.L = latch.L, !.at = IF guest.acceptFirst THEN "accept" ELSE "ack"]
  /\ UNCHANGED posts
Answered == {i \in Irq : GetL(i) = arm.L}
Acknowledges(s, how) ==
  /\ WriteSCIRE(s, how, Answered)
  /\ Goes(IF guest.acceptFirst THEN "return" ELSE "accept") /\ UNCHANGED posts
Accepts(s, how) ==
  /\ WriteREG_M(s, how)
  /\ Goes(IF guest.acceptFirst THEN "ack" ELSE "return") /\ UNCHANGED posts
Returns(s, how) ==
  Computes(s, how) /\ arm' = [arm EXCEPT !.at = "main", !.fiq = TRUE] /\ UNCHANGED posts

\* The program's next instruction, by its place
Instruction(s, how) ==
  \/ arm.at = "boot" /\ Boots(s, how)
  \/ arm.at = "open" /\ Opens(s, how)
  \/ arm.at = "main" /\ Waits(s, how)
  \/ arm.at = "main" /\ RaisesSh4(s, how)
  \/ arm.at = "fiq" /\ ReadsL(s, how)
  \/ arm.at = "ack" /\ Acknowledges(s, how)
  \/ arm.at = "accept" /\ Accepts(s, how)
  \/ arm.at = "return" /\ Returns(s, how)

\* What it costs and how it stores are the program's; the next one may be
\* dispatched or follow in the same block.
ArmStep ==
  /\ clock.turn = "arm" /\ ~Fiq /\ slice.left > 0
  /\ \E cost \in Costs, how \in IF guest.stm THEN {"str", "stm"} ELSE {"str"},
        dispatch \in BOOLEAN :
       Instruction([Charged(slice, cost) EXCEPT !.dispatch = dispatch], how)
  /\ UNCHANGED <<guest, clock>>

\* The end of arm_Run
SliceEnds ==
  /\ clock.turn = "arm" /\ ~Fiq /\ slice.left <= 0
  /\ slice' = Idle /\ clock' = [clock EXCEPT !.turn = "samples"]
  /\ UNCHANGED <<guest, chip, arm, posts, history>>

\* libAICA_TimeStep
TimeStep ==
  /\ clock.turn = "samples" /\ clock.acc >= SampleCycles
  /\ clock' = [clock EXCEPT !.acc = @ - SampleCycles]
  /\ timer' = StepTimer(timer)
  /\ LET fired == IF Overflows(timer) THEN {TimerA} ELSE {}
     IN /\ sci' = [sci EXCEPT !.pd = @ \cup {SAMPLE_DONE} \cup fired]
        /\ mci' = [mci EXCEPT !.pd = @ \cup fired]
  /\ latch' = FiqLine(latch, sci') /\ spu' = SpuLine(mci')
  /\ lag' = [fiq |-> FALSE, spu |-> FALSE] /\ Causes
  /\ UNCHANGED <<guest, arm, slice, posts>>

CallEnds ==
  /\ clock.turn = "samples" /\ clock.acc < SampleCycles
  /\ clock' = [clock EXCEPT !.turn = "sh4"]
  /\ UNCHANGED <<guest, chip, arm, slice, posts, history>>

-----------------------------------------------------------------------------
Init ==
  /\ guest \in Guests
  /\ sci = [eb |-> {}, pd |-> {}] /\ mci = [eb |-> {}, pd |-> {}] /\ spu = FALSE
  /\ timer = [count |-> 0, md |-> 0, m_step |-> 1, c_step |-> 1]
  /\ latch = Quiet /\ arm = Stopped /\ slice = Idle
  /\ clock = [acc |-> 0, owed |-> 0, calls |-> 0, turn |-> "sh4"]
  /\ posts = [sh4 |-> MaxPosts, arm |-> MaxPosts]
  /\ lag = [fiq |-> FALSE, spu |-> FALSE] /\ caused = FALSE

Sh4 == Sh4Setup \/ Sh4Posts \/ Sh4Handles \/ Release \/ Halt \/ armReset
Arm == CPUFiq \/ ArmStep
Sound == SliceEnds \/ TimeStep \/ CallEnds

Next == Sh4 \/ armUpdateARM \/ Arm \/ Sound

\* The emulation thread calls armUpdateARM every few timeslices, for ever, and
\* each call runs to its end.
Fairness == WF_vars(armUpdateARM) /\ WF_vars(Arm \/ Sound)

Spec == Init /\ [][Next]_vars /\ Fairness

-----------------------------------------------------------------------------
(* Properties                                                              *)

Latch == [interr : BOOLEAN, regL : Nat, out : BOOLEAN, L : Nat]
Slice == [in : BOOLEAN, limit : Nat, left : Int, pending : BOOLEAN, ran : NoRaise .. Race,
          dispatch : BOOLEAN]

TypeOK ==
  /\ guest \in Guests
  /\ sci \in [eb : SUBSET Irq, pd : SUBSET Irq] /\ mci \in [eb : SUBSET Irq, pd : SUBSET Irq]
  /\ spu \in BOOLEAN /\ latch \in Latch /\ slice \in Slice
  /\ clock \in [acc : Nat, owed : Nat, calls : Nat, turn : {"sh4", "arm", "samples"}]
  /\ lag \in [fiq : BOOLEAN, spu : BOOLEAN] /\ caused \in BOOLEAN

\* The sound driver's FIQ: an interrupt that is pending holds the latch, the
\* line is up exactly while a source is enabled and pending, but for a mask
\* moved (legacy, or by bytes) or a reset since the last sample, and under
\* ARM7_RESET_FIX no FIQ waits for the new driver that only the old one asked
\* for.
FiqFollows ==
  /\ latch.interr => latch.out
  /\ ~lag.fiq => (latch.interr <=> Asserted(sci) # {})
  /\ guest.reset_fix /\ latch.out => caused

\* The SH4's line is up exactly while the AICA has something enabled and
\* pending for it, whichever side wrote last, but for a mask moved without
\* AICA_RACE since the last sample.
SpuLineFollows == ~lag.spu => (spu <=> Asserted(mci) # {})

\* AICA_RACE: an ARM7 that raised the SH4's interrupt has run its 50 cycles
\* when its slice ends, unless the interpreter's slice is shorter than that or
\* the JIT's store was an STM, which never looks at the flag.
RaceHonoured ==
  clock.turn = "arm" /\ slice.left <= 0 /\ slice.ran # NoRaise =>
    \/ slice.ran = Race
    \/ ~guest.jit /\ slice.limit < Race
    \/ guest.jit /\ guest.stm

\* A source enabled for a running driver is answered, or masked, or the ARM7
\* halted, in whichever order its handler acknowledges and accepts.
RequestsServed ==
  \A i \in Irq :
    (arm.enabled /\ i \in Asserted(sci)) ~> (i \notin Asserted(sci) \/ ~arm.enabled)

=============================================================================
