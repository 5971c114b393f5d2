----------------------------- MODULE AicaProofs -----------------------------
(***************************************************************************)
(* Proofs about Aica for any pair of programs and any sizes: the lines to  *)
(* both processors follow the registers, and the ARM7 gets its cycles.     *)
(***************************************************************************)
EXTENDS Aica, TLAPS

\* A slice in which the SH4's interrupt was raised has, beside what it has run
\* since, what is missing to the Race left; or it is one of RaceHonoured's
\* two exceptions.
Room(s) ==
  s.ran # NoRaise =>
    \/ s.ran = Race \/ s.left + s.ran >= Race
    \/ ~guest.jit /\ s.limit < Race
    \/ guest.jit /\ guest.stm

\* What a write to the unit has to keep
ChipOK ==
  /\ sci \in [eb : SUBSET Irq, pd : SUBSET Irq] /\ mci \in [eb : SUBSET Irq, pd : SUBSET Irq]
  /\ spu \in BOOLEAN /\ latch \in Latch /\ slice \in Slice
  /\ lag \in [fiq : BOOLEAN, spu : BOOLEAN] /\ caused \in BOOLEAN
  /\ FiqFollows /\ SpuLineFollows /\ Room(slice)

IInv ==
  /\ guest \in Guests /\ ChipOK
  /\ clock \in [acc : Nat, owed : Nat, calls : Nat, turn : {"sh4", "arm", "samples"}]

-----------------------------------------------------------------------------
(* The lines                                                               *)

\* The lowest of some pending sources is one of them.
LEMMA LowestIsPending ==
  ASSUME NEW A \in SUBSET Irq, A # {}
  PROVE  Min(A) \in A
<1>1. A \subseteq {5, 6, 10}
  BY DEF Irq, SCPU, TimerA, SAMPLE_DONE
<1>2. \E x \in A : \A y \in A : x <= y
  <2>1. CASE 5 \in A
    BY <2>1, <1>1
  <2>2. CASE 5 \notin A /\ 6 \in A
    BY <2>2, <1>1
  <2>3. CASE 5 \notin A /\ 6 \notin A
    <3>1. \A y \in A : y = 10
      BY <2>3, <1>1
    <3>2. PICK x \in A : TRUE
      OBVIOUS
    <3> QED
      BY <3>1, <3>2
  <2> QED
    BY <2>1, <2>2, <2>3
<1> QED
  BY <1>2 DEF Min

\* update_arm_interrupts: the line follows the registers, and the latch keeps
\* what it holds.
LEMMA FiqLineFollows ==
  ASSUME NEW l \in Latch, NEW s \in [eb : SUBSET Irq, pd : SUBSET Irq]
  PROVE  /\ FiqLine(l, s) \in Latch
         /\ FiqLine(l, s).interr <=> Asserted(s) # {}
         /\ FiqLine(l, s).out <=> l.out \/ Asserted(s) # {}
<1> DEFINE level == IF Asserted(s) = {} THEN 0 ELSE GetL(Min(Asserted(s)))
<1>1. level \in Nat
  <2>1. Asserted(s) \subseteq Irq
    BY DEF Asserted
  <2>2. CASE Asserted(s) # {}
    <3>1. Min(Asserted(s)) \in Irq
      BY <2>1, <2>2, LowestIsPending
    <3>2. Min(Asserted(s)) \in Nat
      BY <3>1 DEF Irq, SCPU, TimerA, SAMPLE_DONE
    <3> QED
      BY <2>2, <3>2, SizesAssumption DEF GetL
  <2> QED
    BY <2>2
<1>2. FiqLine(l, s) = ArmInterruptChange(l, Asserted(s), level)
  BY DEF FiqLine
<1> HIDE DEF level
<1> QED
  BY <1>1, <1>2 DEF ArmInterruptChange, update_e68k, Latch

LEMMA AcceptKeepsLevel ==
  ASSUME NEW l \in Latch
  PROVE  /\ e68k_AcceptInterrupt(l) \in Latch
         /\ e68k_AcceptInterrupt(l).interr = l.interr
         /\ e68k_AcceptInterrupt(l).out = l.interr
BY DEF e68k_AcceptInterrupt, update_e68k, Latch

-----------------------------------------------------------------------------
(* The slice                                                               *)

LEMMA SliceUpdate ==
  ASSUME NEW s \in Slice, NEW left \in Int, NEW ran \in NoRaise .. Race, NEW p \in BOOLEAN
  PROVE  /\ [s EXCEPT !.left = left, !.ran = ran] \in Slice
         /\ [s EXCEPT !.pending = p, !.ran = ran, !.left = left] \in Slice
<1> DEFINE R == NoRaise .. Race
<1>1. s \in [in : BOOLEAN, limit : Nat, left : Int, pending : BOOLEAN, ran : R, dispatch : BOOLEAN]
      /\ ran \in R
  BY DEF Slice
<1> HIDE DEF R
<1>2. /\ [s EXCEPT !.left = left, !.ran = ran] \in
            [in : BOOLEAN, limit : Nat, left : Int, pending : BOOLEAN, ran : R, dispatch : BOOLEAN]
      /\ [s EXCEPT !.pending = p, !.ran = ran, !.left = left] \in
            [in : BOOLEAN, limit : Nat, left : Int, pending : BOOLEAN, ran : R, dispatch : BOOLEAN]
  BY <1>1
<1> QED
  BY <1>2 DEF R, Slice

LEMMA ChargeKeepsRoom ==
  ASSUME NEW s \in Slice, Room(s), NEW cost \in Nat \ {0}, NEW d \in BOOLEAN
  PROVE  /\ [Charged(s, cost) EXCEPT !.dispatch = d] \in Slice
         /\ Room([Charged(s, cost) EXCEPT !.dispatch = d])
<1> DEFINE c == Charged(s, cost)
           d1 == [c EXCEPT !.dispatch = d]
           ran == IF s.ran = NoRaise THEN NoRaise ELSE Smaller(s.ran + cost, Race)
<1>1. /\ s.ran \in Int /\ NoRaise <= s.ran /\ s.ran <= Race /\ NoRaise \in Int /\ Race \in Int
      /\ s.left \in Int /\ s.limit \in Nat /\ cost \in Nat
  BY SizesAssumption DEF Slice, NoRaise
<1>2. /\ ran \in NoRaise .. Race
      /\ ran # NoRaise => s.ran # NoRaise /\ (ran = Race \/ ran = s.ran + cost)
  BY <1>1, SizesAssumption DEF Smaller, NoRaise
<1>3. c = [s EXCEPT !.left = s.left - cost, !.ran = ran]
  BY DEF Charged
<1> HIDE DEF c, ran
<1>4. c \in Slice
  <2>1. s.left - cost \in Int /\ TRUE \in BOOLEAN
    BY <1>1
  <2> QED
    BY <1>2, <1>3, <2>1, SliceUpdate
<1>5. /\ d1 \in Slice /\ d1.ran = ran /\ d1.left = s.left - cost /\ d1.limit = s.limit
  BY <1>1, <1>3, <1>4 DEF Slice
<1> HIDE DEF d1
<1>6. Room(d1)
  BY <1>1, <1>2, <1>5 DEF Room
<1> QED
  BY <1>5, <1>6 DEF d1, c

LEMMA StoreKeepsRoom ==
  ASSUME NEW s \in Slice, Room(s), NEW how
  PROVE  Stored(s, how) \in Slice /\ Room(Stored(s, how))
<1>1. CASE ~(guest.jit /\ how = "str" /\ s.pending)
  BY <1>1 DEF Stored
<1>2. CASE guest.jit /\ how = "str" /\ s.pending
  <2> DEFINE t == Stored(s, how)
             left == Larger(s.left, Race)
  <2>1. left \in Int /\ left >= s.left /\ s.ran \in Int /\ s.left \in Int /\ Race \in Int
    BY SizesAssumption DEF Larger, Slice, NoRaise
  <2>2. t = [s EXCEPT !.pending = FALSE, !.left = left]
    BY <1>2 DEF Stored
  <2> HIDE DEF left, t
  <2>3. t \in Slice /\ t.ran = s.ran /\ t.left = left /\ t.limit = s.limit
    BY <2>1, <2>2 DEF Slice
  <2>4. Room(t)
    BY <2>1, <2>3 DEF Room
  <2> QED
    BY <2>3, <2>4 DEF t
<1> QED
  BY <1>1, <1>2

LEMMA AvoidMakesRoom ==
  ASSUME NEW s \in Slice, Room(s), NEW how \in {"str", "stm"}, how = "stm" => guest.stm,
         guest.jit \in BOOLEAN
  PROVE  AvoidRace(s, how) \in Slice /\ Room(AvoidRace(s, how))
<1>1. CASE ~s.in
  BY <1>1 DEF AvoidRace
<1>2. CASE s.in
  <2> DEFINE floor == IF guest.jit THEN Race ELSE Smaller(Race, s.limit)
             left == IF guest.jit /\ how = "stm" THEN s.left ELSE Larger(s.left, floor)
             t == AvoidRace(s, how)
  <2>1. /\ s.left \in Int /\ s.limit \in Nat /\ Race \in Nat /\ NoRaise = -1
    BY SizesAssumption DEF Slice, NoRaise
  <2>2. /\ left \in Int /\ (guest.jit /\ how = "str" => left >= Race)
        /\ (~guest.jit => left >= Race \/ s.limit < Race)
    BY <2>1 DEF Larger, Smaller
  <2>3. t = [s EXCEPT !.pending = ~guest.jit \/ how = "stm", !.ran = 0, !.left = left]
    <3>1. CASE ~guest.jit
      BY <1>2, <3>1 DEF AvoidRace
    <3>2. CASE guest.jit /\ how = "str"
      BY <1>2, <3>2 DEF AvoidRace
    <3>3. CASE guest.jit /\ how = "stm"
      BY <1>2, <3>3 DEF AvoidRace
    <3> QED
      BY <3>1, <3>2, <3>3
  <2> HIDE DEF left, t
  <2>4. t \in Slice
    <3>1. 0 \in NoRaise .. Race /\ (~guest.jit \/ how = "stm") \in BOOLEAN
      BY <2>1
    <3> QED
      BY <2>2, <2>3, <3>1, SliceUpdate
  <2>5. t.ran = 0 /\ t.left = left /\ t.limit = s.limit
    BY <2>3 DEF Slice
  <2>6. Room(t)
    BY <2>1, <2>2, <2>5 DEF Room
  <2> QED
    BY <2>4, <2>6 DEF t
<1> QED
  BY <1>1, <1>2 DEF Slice

-----------------------------------------------------------------------------
(* A write to the unit                                                     *)

\* The line to the ARM7 after a step that computes it anew
LEMMA FiqFollowsAfter ==
  ASSUME FiqFollows, latch \in Latch, sci' \in [eb : SUBSET Irq, pd : SUBSET Irq],
         latch' = FiqLine(latch, sci'), Causes, UNCHANGED guest, caused \in BOOLEAN
  PROVE  FiqFollows' /\ latch' \in Latch /\ caused' \in BOOLEAN
<1>1. /\ latch' \in Latch /\ (latch'.interr <=> Asserted(sci') # {})
      /\ latch'.out <=> latch.out \/ Asserted(sci') # {}
  BY FiqLineFollows
<1>2. caused' <=> caused \/ Asserted(sci') # {}
  BY DEF Causes
<1> QED
  BY <1>1, <1>2 DEF FiqFollows, Causes

\* and after one that leaves it alone
LEMMA FiqFollowsStill ==
  ASSUME FiqFollows, UNCHANGED <<latch, guest>>, Causes, caused \in BOOLEAN,
         lag'.fiq \/ (UNCHANGED sci /\ lag'.fiq = lag.fiq)
  PROVE  FiqFollows' /\ caused' \in BOOLEAN
BY DEF FiqFollows, Causes

\* A write is made with a slice s that has room, and with an STM only by a
\* program that has one.
Writer(s, how) ==
  /\ s \in Slice /\ Room(s)
  /\ how \in {"str", "stm"} /\ (how = "stm" => guest.stm)

LEMMA WritesKeepChip ==
  ASSUME IInv, UNCHANGED guest, NEW s, NEW how, Writer(s, how),
         \/ WriteSCIPD(s, how) \/ WriteMCIPD(s, how) \/ WriteREG_M(s, how) \/ Setup(s, how)
         \/ \E bits \in SUBSET Irq : WriteSCIRE(s, how, bits) \/ WriteMCIRE(s, how, bits)
  PROVE  ChipOK'
<1> USE DEF IInv, ChipOK
<1>1. /\ Stored(s, how) \in Slice /\ Room(Stored(s, how))
      /\ Stored(AvoidRace(s, how), how) \in Slice /\ Room(Stored(AvoidRace(s, how), how))
  BY StoreKeepsRoom, AvoidMakesRoom, GuestAssumption DEF Writer
<1>2. \A t : Room(t) => Room(t)'
  BY DEF Room
<1>3. SCPU \in Irq
  BY DEF Irq
<1>4. CASE WriteSCIPD(s, how)
  <2>1. sci' \in [eb : SUBSET Irq, pd : SUBSET Irq]
    BY <1>3, <1>4 DEF WriteSCIPD
  <2>2. FiqFollows' /\ latch' \in Latch /\ caused' \in BOOLEAN
    BY <1>4, <2>1, FiqFollowsAfter DEF WriteSCIPD
  <2> QED
    BY <1>1, <1>2, <1>4, <2>1, <2>2 DEF WriteSCIPD, SpuLineFollows
<1>5. ASSUME NEW bits \in SUBSET Irq, WriteSCIRE(s, how, bits) PROVE ChipOK'
  <2>1. sci' \in [eb : SUBSET Irq, pd : SUBSET Irq]
    BY <1>5 DEF WriteSCIRE
  <2>2. FiqFollows' /\ latch' \in Latch /\ caused' \in BOOLEAN
    BY <1>5, <2>1, FiqFollowsAfter DEF WriteSCIRE
  <2> QED
    BY <1>1, <1>2, <1>5, <2>1, <2>2 DEF WriteSCIRE, SpuLineFollows
<1>6. CASE WriteMCIPD(s, how)
  <2>1. mci' \in [eb : SUBSET Irq, pd : SUBSET Irq] /\ spu' \in BOOLEAN
    BY <1>3, <1>6 DEF WriteMCIPD, SpuLine
  <2>2. FiqFollows' /\ SpuLineFollows'
    BY <1>6 DEF WriteMCIPD, FiqFollows, SpuLineFollows, SpuLine, history
  <2>3. slice' \in Slice /\ Room(slice)'
    BY <1>1, <1>2, <1>6 DEF WriteMCIPD
  <2> QED
    BY <1>6, <2>1, <2>2, <2>3 DEF WriteMCIPD, history
<1>7. ASSUME NEW bits \in SUBSET Irq, WriteMCIRE(s, how, bits) PROVE ChipOK'
  <2>1. mci' \in [eb : SUBSET Irq, pd : SUBSET Irq] /\ spu' \in BOOLEAN
    BY <1>7 DEF WriteMCIRE, SpuLine
  <2>2. FiqFollows' /\ SpuLineFollows'
    BY <1>7 DEF WriteMCIRE, FiqFollows, SpuLineFollows, SpuLine, history
  <2> QED
    BY <1>1, <1>2, <1>7, <2>1, <2>2 DEF WriteMCIRE, history
<1>8. CASE WriteREG_M(s, how)
  <2>1. /\ latch' \in Latch /\ latch'.interr = latch.interr /\ latch'.out = latch.interr
    BY <1>8, AcceptKeepsLevel DEF WriteREG_M
  <2>2. FiqFollows' /\ SpuLineFollows'
    BY <1>8, <2>1 DEF WriteREG_M, FiqFollows, SpuLineFollows, history
  <2> QED
    BY <1>1, <1>2, <1>8, <2>1, <2>2 DEF WriteREG_M, history
<1>9. ASSUME NEW eb \in SUBSET Irq, WriteSCIEB(s, how, eb) PROVE ChipOK'
  <2>1. sci' \in [eb : SUBSET Irq, pd : SUBSET Irq] /\ lag' \in [fiq : BOOLEAN, spu : BOOLEAN]
        /\ lag'.spu = lag.spu /\ (lag'.fiq <=> lag.fiq \/ ~guest.race)
    BY <1>9, GuestAssumption DEF WriteSCIEB
  <2>2. FiqFollows' /\ latch' \in Latch /\ caused' \in BOOLEAN
    <3>1. CASE guest.race
      BY <1>9, <2>1, <3>1, FiqFollowsAfter DEF WriteSCIEB
    <3>2. CASE ~guest.race
      BY <1>9, <2>1, <3>2, FiqFollowsStill DEF WriteSCIEB
    <3> QED
      BY <3>1, <3>2
  <2> QED
    BY <1>1, <1>2, <1>9, <2>1, <2>2 DEF WriteSCIEB, SpuLineFollows
<1>10. ASSUME NEW eb \in SUBSET Irq, WriteMCIEB(s, how, eb) PROVE ChipOK'
  <2>1. mci' \in [eb : SUBSET Irq, pd : SUBSET Irq] /\ spu' \in BOOLEAN
        /\ lag' \in [fiq : BOOLEAN, spu : BOOLEAN]
        /\ lag'.fiq = lag.fiq /\ (lag'.spu <=> lag.spu \/ ~guest.race)
    BY <1>10, GuestAssumption DEF WriteMCIEB, SpuLine
  <2>2. FiqFollows' /\ SpuLineFollows'
    BY <1>10, <2>1 DEF WriteMCIEB, FiqFollows, SpuLineFollows, SpuLine
  <2>3. slice' \in Slice /\ Room(slice)'
    BY <1>1, <1>2, <1>10 DEF WriteMCIEB
  <2> QED
    BY <1>10, <2>1, <2>2, <2>3 DEF WriteMCIEB
<1>11. ASSUME NEW eb \in SUBSET Irq, WriteHighSCIEB(s, how, eb) PROVE ChipOK'
  <2>1. sci' \in [eb : SUBSET Irq, pd : SUBSET Irq] /\ lag' \in [fiq : BOOLEAN, spu : BOOLEAN]
        /\ lag'.spu = lag.spu /\ lag'.fiq
    BY <1>11 DEF WriteHighSCIEB
  <2>2. FiqFollows' /\ caused' \in BOOLEAN
    BY <1>11, <2>1, FiqFollowsStill DEF WriteHighSCIEB
  <2> QED
    BY <1>1, <1>2, <1>11, <2>1, <2>2 DEF WriteHighSCIEB, SpuLineFollows
<1>12. ASSUME UNCHANGED <<sci, mci, spu, latch, history>>, slice' = Stored(s, how) PROVE ChipOK'
  BY <1>1, <1>2, <1>12 DEF FiqFollows, SpuLineFollows, history
<1>13. CASE Setup(s, how)
  <2>1. guest.enables \subseteq SUBSET Irq /\ guest.menables \subseteq SUBSET Irq
    BY GuestAssumption
  <2>2. \A eb \in SUBSET Irq : (sci.eb \cap High) \cup (eb \ High) \in SUBSET Irq
    OBVIOUS
  <2>3. ASSUME NEW md, NEW count, WriteTIMER_A(s, how, count, md) \/ WriteHighTIMER_A(s, how, md)
        PROVE  ChipOK'
    BY <2>3, <1>12 DEF WriteTIMER_A, WriteHighTIMER_A
  <2> QED
    BY <1>9, <1>10, <1>11, <1>13, <2>1, <2>2, <2>3 DEF Setup
<1> QED
  BY <1>4, <1>5, <1>6, <1>7, <1>8, <1>13

-----------------------------------------------------------------------------
(* Every step                                                              *)

\* Steps that leave the unit and the slice alone
LEMMA ChipStays ==
  ASSUME IInv, UNCHANGED <<guest, chip, slice, history>>
  PROVE  ChipOK'
BY DEF IInv, ChipOK, chip, history, FiqFollows, SpuLineFollows, Room, Asserted

\* An instruction charges its cycles and then writes, or only computes.
LEMMA InstructionsKeepChip ==
  ASSUME IInv, ArmStep
  PROVE  ChipOK' /\ UNCHANGED <<guest, clock>>
<1> DEFINE After(cost, d) == [Charged(slice, cost) EXCEPT !.dispatch = d]
<1>1. ASSUME NEW cost \in Costs, NEW d \in BOOLEAN,
             NEW how \in IF guest.stm THEN {"str", "stm"} ELSE {"str"}
      PROVE  Writer(After(cost, d), how)
  <2>1. cost \in Nat \ {0}
    BY SizesAssumption
  <2>2. After(cost, d) \in Slice /\ Room(After(cost, d))
    BY <2>1, ChargeKeepsRoom DEF IInv, ChipOK
  <2>3. how \in {"str", "stm"} /\ (how = "stm" => guest.stm)
    OBVIOUS
  <2> QED
    BY <2>2, <2>3 DEF Writer
<1>2. ASSUME NEW s, NEW how, Writer(s, how), Computes(s, how), UNCHANGED guest PROVE ChipOK'
  <2>1. slice' \in Slice /\ Room(slice)'
    BY <1>2 DEF Writer, Computes, Room
  <2> QED
    BY <1>2, <2>1 DEF IInv, ChipOK, Computes, chip, history, FiqFollows, SpuLineFollows, Asserted
<1>3. Answered \in SUBSET Irq
  BY DEF Answered
<1>4. PICK cost \in Costs, how \in IF guest.stm THEN {"str", "stm"} ELSE {"str"}, d \in BOOLEAN :
        Instruction(After(cost, d), how)
  BY DEF ArmStep
<1> DEFINE s == After(cost, d)
<1>5. Writer(s, how)
  BY <1>1
<1> HIDE DEF s
<1>6. UNCHANGED <<guest, clock>>
  BY DEF ArmStep
<1>7. CASE Boots(s, how)
  BY <1>5, <1>6, <1>7, WritesKeepChip DEF Boots
<1>8. CASE Opens(s, how) \/ Waits(s, how) \/ ReadsL(s, how) \/ Returns(s, how)
  BY <1>2, <1>5, <1>6, <1>8 DEF Opens, Waits, ReadsL, Returns
<1>9. CASE RaisesSh4(s, how)
  BY <1>5, <1>6, <1>9, WritesKeepChip DEF RaisesSh4
<1>10. CASE Acknowledges(s, how)
  BY <1>3, <1>5, <1>6, <1>10, WritesKeepChip DEF Acknowledges
<1>11. CASE Accepts(s, how)
  BY <1>5, <1>6, <1>11, WritesKeepChip DEF Accepts
<1> QED
  BY <1>4, <1>6, <1>7, <1>8, <1>9, <1>10, <1>11 DEF s, Instruction

\* A reset of the ARM7 drops the FIQ it forgets the cause of.
LEMMA ResetKeepsChip ==
  ASSUME IInv, arm_Reset, UNCHANGED <<guest, sci, mci, spu, timer, slice>>
  PROVE  ChipOK'
<1> USE DEF IInv, ChipOK
<1>1. latch' \in Latch /\ caused' \in BOOLEAN
  BY DEF arm_Reset, ResetLatch, Quiet, Latch
<1>2. lag' \in [fiq : BOOLEAN, spu : BOOLEAN] /\ lag'.spu = lag.spu
      /\ (lag'.fiq <=> lag.fiq \/ guest.reset_fix)
  BY GuestAssumption DEF arm_Reset
<1>3. FiqFollows'
  <2>1. CASE guest.reset_fix
    BY <1>2, <2>1 DEF arm_Reset, ResetLatch, Quiet, FiqFollows
  <2>2. CASE ~guest.reset_fix
    BY <1>2, <2>2 DEF arm_Reset, ResetLatch, FiqFollows, Asserted
  <2> QED
    BY <2>1, <2>2
<1> QED
  BY <1>1, <1>2, <1>3 DEF SpuLineFollows, Room, Asserted

\* The sound generator's sample
LEMMA SamplesKeepChip ==
  ASSUME IInv, TimeStep
  PROVE  ChipOK'
<1> USE DEF IInv, ChipOK
<1> DEFINE fired == IF Overflows(timer) THEN {TimerA} ELSE {}
<1>1. fired \in SUBSET Irq /\ SAMPLE_DONE \in Irq
  BY DEF Irq
<1> HIDE DEF fired
<1>2. /\ sci' = [sci EXCEPT !.pd = @ \cup {SAMPLE_DONE} \cup fired]
      /\ mci' = [mci EXCEPT !.pd = @ \cup fired]
  BY DEF TimeStep, fired
<1>3. /\ sci' \in [eb : SUBSET Irq, pd : SUBSET Irq]
      /\ mci' \in [eb : SUBSET Irq, pd : SUBSET Irq]
  BY <1>1, <1>2
<1>4. FiqFollows' /\ latch' \in Latch /\ caused' \in BOOLEAN
  BY <1>3, FiqFollowsAfter DEF TimeStep
<1>5. SpuLineFollows' /\ spu' \in BOOLEAN /\ lag' \in [fiq : BOOLEAN, spu : BOOLEAN]
  BY DEF TimeStep, SpuLine, SpuLineFollows, Asserted
<1>6. slice' \in Slice /\ Room(slice)'
  BY DEF TimeStep, Room
<1> QED
  BY <1>3, <1>4, <1>5, <1>6

LEMMA InitInv == Init => IInv
<1> SUFFICES ASSUME Init PROVE IInv
  OBVIOUS
<1>1. NoRaise \in NoRaise .. Race
  BY SizesAssumption DEF NoRaise
<1>2. slice \in Slice /\ Room(slice)
  BY <1>1 DEF Init, Idle, Slice, Room
<1>3. FiqFollows /\ SpuLineFollows /\ latch \in Latch
  BY DEF Init, Quiet, FiqFollows, SpuLineFollows, Asserted, Latch
<1> QED
  BY <1>2, <1>3 DEF Init, IInv, ChipOK

LEMMA InvStep == IInv /\ [Next]_vars => IInv'
<1> SUFFICES ASSUME IInv, [Next]_vars PROVE IInv'
  OBVIOUS
<1> DEFINE ClockOK == clock \in [acc : Nat, owed : Nat, calls : Nat, turn : {"sh4", "arm", "samples"}]
<1>1. ClockOK /\ guest \in Guests /\ CallCycles \in Nat /\ SampleCycles \in Nat
      /\ guest.bias \in Nat \ {0}
  BY SizesAssumption, GuestAssumption DEF IInv
<1>2. Writer(slice, "str")
  BY DEF Writer, IInv, ChipOK
<1>3. CASE Sh4Setup
  <2>1. ChipOK'
    BY <1>2, <1>3, WritesKeepChip DEF Sh4Setup
  <2> QED
    BY <1>1, <1>3, <2>1 DEF Sh4Setup, IInv
<1>4. CASE Sh4Posts
  <2>1. ChipOK'
    BY <1>2, <1>4, WritesKeepChip DEF Sh4Posts
  <2> QED
    BY <1>1, <1>4, <2>1 DEF Sh4Posts, IInv
<1>5. CASE Sh4Handles
  <2>1. Asserted(mci) \in SUBSET Irq
    BY DEF Asserted, IInv, ChipOK
  <2>2. ChipOK'
    BY <1>2, <1>5, <2>1, WritesKeepChip DEF Sh4Handles
  <2> QED
    BY <1>1, <1>5, <2>2 DEF Sh4Handles, IInv
<1>6. CASE Release \/ armReset
  <2>1. ChipOK'
    BY <1>6, ResetKeepsChip DEF Release, armReset
  <2> QED
    BY <1>1, <1>6, <2>1 DEF Release, armReset, IInv
<1>7. CASE Halt
  <2>1. ChipOK'
    BY <1>7, ChipStays DEF Halt
  <2> QED
    BY <1>1, <1>7, <2>1 DEF Halt, IInv
<1>8. CASE armUpdateARM
  <2> DEFINE owed == clock.owed + CallCycles
             ticks == owed \div guest.bias
  <2>1. owed \in Nat /\ ticks \in Nat /\ clock.calls + 1 \in Nat /\ clock.acc + CallCycles \in Nat
    BY <1>1
  <2>2. slice' = slice \/ slice' = [Idle EXCEPT !.in = TRUE, !.limit = ticks, !.left = ticks]
    BY <1>8 DEF armUpdateARM
  <2> HIDE DEF ticks
  <2>3. slice' \in Slice /\ Room(slice)'
    <3>1. CASE slice' = slice
      BY <1>8, <3>1 DEF armUpdateARM, IInv, ChipOK, Room
    <3>2. CASE slice' = [Idle EXCEPT !.in = TRUE, !.limit = ticks, !.left = ticks]
      <4>1. slice'.ran = NoRaise
        BY <3>2 DEF Idle
      <4>2. NoRaise \in NoRaise .. Race
        BY SizesAssumption DEF NoRaise
      <4>3. slice' = [in |-> TRUE, limit |-> ticks, left |-> ticks, pending |-> FALSE,
                      ran |-> NoRaise, dispatch |-> TRUE]
        BY <3>2 DEF Idle
      <4> DEFINE R == NoRaise .. Race
      <4>4. NoRaise \in R
        BY <4>2
      <4> HIDE DEF R
      <4>5. slice' \in [in : BOOLEAN, limit : Nat, left : Int, pending : BOOLEAN, ran : R,
                        dispatch : BOOLEAN]
        BY <2>1, <4>3, <4>4
      <4> QED
        BY <4>1, <4>5 DEF R, Slice, Room
    <3> QED
      BY <2>2, <3>1, <3>2
  <2>4. UNCHANGED <<guest, sci, mci, spu, timer, latch, lag, caused>>
    BY <1>8 DEF armUpdateARM, chip, history
  <2>5. ChipOK'
    BY <2>3, <2>4 DEF IInv, ChipOK, FiqFollows, SpuLineFollows, Asserted
  <2>6. ClockOK'
    BY <1>1, <1>8, <2>1 DEF armUpdateARM
  <2> QED
    BY <1>1, <2>4, <2>5, <2>6 DEF IInv
<1>9. CASE CPUFiq
  <2>1. ChipOK'
    BY <1>9, ChipStays DEF CPUFiq
  <2> QED
    BY <1>1, <1>9, <2>1 DEF CPUFiq, IInv
<1>10. CASE ArmStep
  BY <1>1, <1>10, InstructionsKeepChip DEF IInv
<1>11. CASE SliceEnds
  <2>1. slice' \in Slice /\ Room(slice)'
    <3>1. NoRaise \in NoRaise .. Race
      BY SizesAssumption DEF NoRaise
    <3> QED
      BY <1>11, <3>1 DEF SliceEnds, Idle, Slice, Room
  <2>2. ChipOK'
    BY <1>11, <2>1 DEF SliceEnds, chip, history, IInv, ChipOK, FiqFollows, SpuLineFollows, Asserted
  <2> QED
    BY <1>1, <1>11, <2>2 DEF SliceEnds, IInv
<1>12. CASE TimeStep
  <2>1. ChipOK'
    BY <1>12, SamplesKeepChip
  <2>2. clock.acc - SampleCycles \in Nat
    BY <1>1, <1>12 DEF TimeStep
  <2> QED
    BY <1>1, <1>12, <2>1, <2>2 DEF TimeStep, IInv
<1>13. CASE CallEnds
  <2>1. ChipOK'
    BY <1>13, ChipStays DEF CallEnds
  <2> QED
    BY <1>1, <1>13, <2>1 DEF CallEnds, IInv
<1>14. CASE UNCHANGED vars
  <2>1. ChipOK'
    BY <1>14, ChipStays DEF vars
  <2> QED
    BY <1>1, <1>14, <2>1 DEF vars, IInv
<1> QED
  BY <1>3, <1>4, <1>5, <1>6, <1>7, <1>8, <1>9, <1>10, <1>11, <1>12, <1>13, <1>14
  DEF Next, Sh4, Arm, Sound

LEMMA Invariance == Spec => []IInv
BY InitInv, InvStep, PTL DEF Spec

-----------------------------------------------------------------------------
(* The properties                                                          *)

\* Every register of the unit, the latch and the slice keep their ranges.
THEOREM TypeCorrect == Spec => []TypeOK
<1>1. IInv => TypeOK
  BY DEF IInv, ChipOK, TypeOK
<1> QED
  BY <1>1, Invariance, PTL

\* The sound driver's FIQ follows the sources, and under ARM7_RESET_FIX none
\* is left from before a reset.
THEOREM FiqIsFollowed == Spec => []FiqFollows
<1>1. IInv => FiqFollows
  BY DEF IInv, ChipOK
<1> QED
  BY <1>1, Invariance, PTL

\* holly_SPU_IRQ follows what the AICA has for the SH4.
THEOREM SpuLineIsFollowed == Spec => []SpuLineFollows
<1>1. IInv => SpuLineFollows
  BY DEF IInv, ChipOK
<1> QED
  BY <1>1, Invariance, PTL

\* An ARM7 that raised the SH4's interrupt under AICA_RACE gets its 50 cycles,
\* for slices, batches and instruction costs of any size.
THEOREM RaceIsHonoured == Spec => []RaceHonoured
<1>1. IInv => RaceHonoured
  <2> SUFFICES ASSUME IInv, slice.left <= 0, slice.ran # NoRaise
               PROVE  \/ slice.ran = Race
                      \/ ~guest.jit /\ slice.limit < Race
                      \/ guest.jit /\ guest.stm
    BY DEF RaceHonoured
  <2>1. slice.left \in Int /\ slice.ran \in Int /\ slice.ran <= Race /\ Race \in Int
    BY SizesAssumption DEF IInv, ChipOK, Slice, NoRaise
  <2> QED
    BY <2>1 DEF IInv, ChipOK, Room
<1> QED
  BY <1>1, Invariance, PTL

=============================================================================
