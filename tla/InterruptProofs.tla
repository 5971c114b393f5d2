-------------------------- MODULE InterruptProofs --------------------------
(***************************************************************************)
(* Proofs about the interrupt controller and the devices on its lines, for *)
(* any list of sources, any number of levels and any priorities: Intc's    *)
(* tables stay consistent (IInv), it implements IntcSpec, and with the     *)
(* Holly ASIC and the TMU on its lines (Holly) each line follows its cause *)
(* and nothing is accepted without one.                                    *)
(***************************************************************************)
EXTENDS Holly, TLAPS, FiniteSetTheorems, WellFoundedInduction

-----------------------------------------------------------------------------
(* Facts about the order of the sources                                    *)

\* A non-empty set of slots has a highest one, and BSR returns it.
LEMMA BSRIsMax ==
  ASSUME NEW slots \in SUBSET Slot, slots # {}
  PROVE  BSR(slots) \in slots /\ \A p \in slots : p <= BSR(slots)
<1> DEFINE M == {NumSources - 1 - q : q \in slots}
<1>1. M \subseteq Nat /\ M # {}
  <2>1. \A q \in slots : NumSources - 1 - q \in Nat
    BY SourcesAssumption DEF Slot
  <2>2. QED BY <2>1
<1>2. PICK m \in M : \A n \in M : ~(<<n, m>> \in OpToRel(<, Nat))
  BY <1>1, NatLessThanWellFounded, WFMin, Zenon
<1> HIDE DEF M
<1>3. \A n \in M : m <= n
  <2>1. ASSUME NEW n \in M, n < m PROVE FALSE
    <3>1. <<n, m>> \in OpToRel(<, Nat)
      BY <2>1, <1>1 DEF OpToRel
    <3>2. QED BY <3>1, <1>2
  <2>2. \A n \in M : n \in Nat /\ m \in Nat
    BY <1>1
  <2>3. QED BY <2>1, <2>2
<1>4. PICK q \in slots : m = NumSources - 1 - q
  BY DEF M
<1>5. ASSUME NEW p \in slots PROVE p <= q
  <2>1. NumSources - 1 - p \in M
    BY DEF M
  <2>2. NumSources - 1 - q <= NumSources - 1 - p
    BY <1>3, <1>4, <2>1
  <2>3. QED BY <2>2, SourcesAssumption DEF Slot
<1>6. QED BY <1>5 DEF BSR

LEMMA SourceIsFinite ==
  /\ IsFiniteSet(Source)
  /\ Cardinality(Source) = NumSources
BY SourcesAssumption, FS_Interval DEF Source

\* Every priority a source can have is a level.
LEMMA LevelsAreLevels ==
  ASSUME prio \in [Reg -> [Nibble -> Level]]
  PROVE  \A s \in Source : GetPrLvl(s) \in Level
BY ListAssumption DEF GetPrLvl

\* Before is a strict total order of the sources.
LEMMA BeforeIsTotal ==
  ASSUME prio \in [Reg -> [Nibble -> Level]]
  PROVE  /\ \A s \in Source : ~Before(s, s)
         /\ \A s, t \in Source : Before(s, t) \/ Before(t, s) \/ s = t
         /\ \A s, t, u \in Source : Before(s, t) /\ Before(t, u) => Before(s, u)
BY LevelsAreLevels, SourcesAssumption DEF Before, Source, Level

LEMMA CountsAreBounded ==
  ASSUME NEW S \in SUBSET Source
  PROVE  IsFiniteSet(S) /\ Cardinality(S) \in 0 .. NumSources
BY SourceIsFinite, FS_Subset, FS_CardinalityType, SourcesAssumption

\* A set of sources strictly inside another one has fewer members.
LEMMA SmallerCount ==
  ASSUME NEW S \in SUBSET Source, NEW T \in SUBSET Source,
         S \subseteq T, NEW x \in T, x \notin S
  PROVE  Cardinality(S) < Cardinality(T)
<1>1. IsFiniteSet(T) /\ Cardinality(T) \in Nat /\ Cardinality(S) \in Nat
  BY CountsAreBounded
<1>2. Cardinality(S) <= Cardinality(T) /\ (Cardinality(T) = Cardinality(S) => T = S)
  BY <1>1, FS_Subset
<1>3. QED BY <1>1, <1>2

\* Ranks follow the order of the sources ...
LEMMA RankFollowsOrder ==
  ASSUME prio \in [Reg -> [Nibble -> Level]],
         NEW s \in Source, NEW t \in Source, Before(s, t)
  PROVE  Rank(s) < Rank(t)
<1> DEFINE S == {u \in Source : Before(u, s)}
           T == {u \in Source : Before(u, t)}
<1>1. S \subseteq T /\ s \in T /\ s \notin S
  BY BeforeIsTotal
<1> HIDE DEF S, T
<1>2. S \in SUBSET Source /\ T \in SUBSET Source
  BY DEF S, T
<1>3. Cardinality(S) < Cardinality(T)
  BY <1>1, <1>2, SmallerCount
<1>4. QED BY <1>3 DEF Rank, S, T

\* ... are slots, and give every source a slot of its own.
LEMMA RankIsSlot ==
  ASSUME prio \in [Reg -> [Nibble -> Level]]
  PROVE  /\ \A s \in Source : Rank(s) \in Slot
         /\ \A s, t \in Source : Rank(s) = Rank(t) => s = t
<1>1. ASSUME NEW s \in Source PROVE Rank(s) \in Slot
  <2> DEFINE S == {u \in Source : Before(u, s)}
  <2>1. s \notin S /\ S \in SUBSET Source
    BY BeforeIsTotal
  <2> HIDE DEF S
  <2>2. Cardinality(S) < Cardinality(Source)
    BY <2>1, SmallerCount
  <2>3. Cardinality(S) \in 0 .. NumSources
    BY <2>1, CountsAreBounded
  <2>4. QED BY <2>2, <2>3, SourceIsFinite, SourcesAssumption DEF Rank, Slot, S
<1>2. ASSUME NEW s \in Source, NEW t \in Source, Rank(s) = Rank(t) PROVE s = t
  <2>1. Rank(s) \in Int
    BY <1>1, SourcesAssumption DEF Slot
  <2>2. ~Before(s, t) /\ ~Before(t, s)
    BY <2>1, <1>2, RankFollowsOrder
  <2>3. QED BY <2>2, BeforeIsTotal
<1>3. QED BY <1>1, <1>2

\* Every slot is some source's rank.
LEMMA RankIsOnto ==
  ASSUME prio \in [Reg -> [Nibble -> Level]], NEW q \in Slot
  PROVE  \E s \in Source : Rank(s) = q
<1> DEFINE f == [s \in Source |-> Rank(s)]
<1>1. f \in Injection(Source, Slot)
  BY RankIsSlot DEF Injection, IsInjective
<1>2. IsFiniteSet(Slot) /\ Cardinality(Source) = Cardinality(Slot)
  BY SourceIsFinite DEF Source, Slot
<1> HIDE DEF f
<1>3. f \in Surjection(Source, Slot)
  BY <1>1, <1>2, FS_Injection
<1>4. \E s \in Source : f[s] = q
  BY <1>3 DEF Surjection
<1>5. QED BY <1>4 DEF f

LEMMA CountUpToIsBounded ==
  ASSUME NEW lvl \in Level
  PROVE  CountUpTo(lvl) \in 0 .. NumSources
BY CountsAreBounded DEF CountUpTo

\* The comparison the code is built on: a source's rank is at or above the
\* number of sources up to a level exactly when its own level is above it.
LEMMA RankAboveLevel ==
  ASSUME prio \in [Reg -> [Nibble -> Level]], NEW s \in Source, NEW lvl \in Level
  PROVE  Rank(s) >= CountUpTo(lvl) <=> GetPrLvl(s) > lvl
<1> DEFINE B == {u \in Source : Before(u, s)}
           C == {u \in Source : GetPrLvl(u) <= lvl}
<1>1. B \in SUBSET Source /\ C \in SUBSET Source
  OBVIOUS
<1>2. Cardinality(B) \in Nat /\ Cardinality(C) \in Nat /\ IsFiniteSet(B)
  BY <1>1, CountsAreBounded, SourcesAssumption
<1>3. CASE GetPrLvl(s) > lvl
  <2>1. C \subseteq B
    BY <1>3, LevelsAreLevels, SourcesAssumption DEF Before, Level
  <2> HIDE DEF B, C
  <2>2. Cardinality(C) <= Cardinality(B)
    BY <2>1, <1>2, FS_Subset
  <2>3. QED BY <2>2, <1>2, <1>3 DEF Rank, CountUpTo, B, C
<1>4. CASE GetPrLvl(s) <= lvl
  <2>1. B \subseteq C /\ s \in C /\ s \notin B
    BY <1>4, LevelsAreLevels, SourcesAssumption DEF Before, Level, Source
  <2> HIDE DEF B, C
  <2>2. Cardinality(B) < Cardinality(C)
    BY <2>1, <1>1, SmallerCount
  <2>3. ~(Rank(s) >= CountUpTo(lvl))
    BY <2>2, <1>2 DEF Rank, CountUpTo, B, C
  <2>4. QED BY <2>3, <1>4, LevelsAreLevels, SourcesAssumption DEF Level
<1>5. QED BY <1>3, <1>4, LevelsAreLevels, SourcesAssumption DEF Level

-----------------------------------------------------------------------------
(* The inductive invariant                                                 *)

IInv ==
  /\ TypeOK
  /\ BitsDistinct
  /\ TablesCurrent
  /\ TableLevelsCurrent
  /\ ThresholdCurrent
  /\ BankFollowsSR

THEOREM InitIInv == Init => IInv
BY SourcesAssumption, PriorityAssumption, SRAssumption
   DEF Init, IInv, TypeOK, BitsDistinct, TablesCurrent, TableLevelsCurrent,
       ThresholdCurrent, BankFollowsSR, Source, Slot, SR, Level

\* A step that leaves the priorities alone leaves the order alone.
LEMMA SameOrder ==
  ASSUME prio' = prio
  PROVE  /\ \A s \in Source : Rank(s)' = Rank(s) /\ GetPrLvl(s)' = GetPrLvl(s)
         /\ \A lvl \in Level : CountUpTo(lvl)' = CountUpTo(lvl)
BY DEF Rank, CountUpTo, Before, GetPrLvl

LEMMA ThresholdType ==
  ASSUME NEW v \in SR, NEW levelBit \in [Level -> 0 .. NumSources]
  PROVE  Threshold(levelBit, v) \in 0 .. NumSources
BY SourcesAssumption DEF Threshold, SR

LEMMA NormalType ==
  ASSUME NEW v \in SR
  PROVE  Normal(v) \in SR
BY DEF Normal, SR

\* VirtualInterrupt establishes what the tables promise.
LEMMA RebuildIsCorrect ==
  ASSUME TypeOK, BitsDistinct, VirtualInterrupt, UNCHANGED prio
  PROVE  /\ InterruptBit' \in [Source -> Slot]
         /\ InterruptEnvId' \in [Slot -> Source \cup {NoEvent}]
         /\ InterruptLevelBit' \in [Level -> 0 .. NumSources]
         /\ interrupt_vpend' \subseteq Slot /\ interrupt_vmask' \subseteq Slot
         /\ BitsDistinct' /\ TablesCurrent' /\ TableLevelsCurrent'
         /\ Raised(interrupt_vpend)' = Raised(interrupt_vpend)
         /\ Raised(interrupt_vmask)' = Raised(interrupt_vmask)
<1> USE DEF TypeOK, VirtualInterrupt
<1>1. \A s \in Source : Rank(s)' = Rank(s) /\ Rank(s) \in Slot
  BY SameOrder, RankIsSlot
<1>2. \A s, t \in Source : Rank(s) = Rank(t) => s = t
  BY RankIsSlot
<1>3. \A lvl \in Level : CountUpTo(lvl)' = CountUpTo(lvl)
                        /\ CountUpTo(lvl) \in 0 .. NumSources
  BY SameOrder, CountUpToIsBounded
<1>4. \A s \in Source : InterruptBit'[s] = Rank(s)
  OBVIOUS
<1>5. BitsDistinct'
  BY <1>2, <1>4 DEF BitsDistinct, Raised
<1>6. \A s \in Source : InterruptEnvId'[Rank(s)] = s
  BY <1>1, <1>2
<1>7. TablesCurrent'
  BY <1>1, <1>4, <1>6 DEF TablesCurrent
<1>8. TableLevelsCurrent'
  BY <1>3 DEF TableLevelsCurrent
<1>9. /\ Raised(interrupt_vpend)' = Raised(interrupt_vpend)
      /\ Raised(interrupt_vmask)' = Raised(interrupt_vmask)
  BY <1>2, <1>4 DEF Raised
<1>10. InterruptEnvId' \in [Slot -> Source \cup {NoEvent}]
  <2>1. ASSUME NEW q \in Slot
        PROVE  (CHOOSE s \in Source : Rank(s) = q) \in Source
    BY RankIsOnto
  <2>2. QED BY <2>1
<1>11. QED BY <1>1, <1>3, <1>5, <1>7, <1>8, <1>9, <1>10 DEF Raised

\* After Dispatch, on tables that are current, the CPU state is well typed and
\* the cached threshold is that of the new SR.
LEMMA DispatchIsTyped ==
  ASSUME NEW v \in SR, NEW b \in BOOLEAN, NEW d, TypeOK,
         b = v.RB, d = Threshold(InterruptLevelBit', v),
         InterruptLevelBit' \in [Level -> 0 .. NumSources],
         InterruptEnvId' \in [Slot -> Source \cup {NoEvent}],
         interrupt_vpend' \subseteq Slot,
         Dispatch(v, b, d)
  PROVE  /\ sr' \in SR /\ ssr' \in SR /\ bank' \in BOOLEAN /\ bank' = sr'.RB
         /\ CCN_INTEVT' \in Source \cup {NoEvent}
         /\ decoded_srimask' = Threshold(InterruptLevelBit', sr')
         /\ decoded_srimask' \in 0 .. NumSources
<1> DEFINE requests == interrupt_vpend' \cap interrupt_vmask'
           up == [v EXCEPT !.BL = TRUE, !.MD = TRUE, !.RB = TRUE]
<1>0. up \in SR /\ up.RB = TRUE
  BY DEF SR
<1>1. CASE /\ \E q \in requests : q >= d
           /\ Do_Interrupt(InterruptEnvId'[BSR(requests)], v, b)
  <2>1. requests \in SUBSET Slot /\ requests # {}
    BY <1>1
  <2>2. BSR(requests) \in Slot
    BY <2>1, BSRIsMax
  <2>3. InterruptEnvId'[BSR(requests)] \in Source \cup {NoEvent}
    BY <2>2
  <2>4. sr' = up /\ ssr' = v /\ decoded_srimask' = Threshold(InterruptLevelBit', sr')
        /\ CCN_INTEVT' = InterruptEnvId'[BSR(requests)]
        /\ bank' = BankAfter(b, v, sr')
    BY <1>1 DEF Do_Interrupt
  <2>5. bank' = TRUE
    BY <2>4, <1>0 DEF BankAfter, SR
  <2>6. QED BY <2>3, <2>4, <2>5, <1>0, ThresholdType
<1>2. CASE ~(/\ \E q \in requests : q >= d
             /\ Do_Interrupt(InterruptEnvId'[BSR(requests)], v, b))
  <2>1. sr' = v /\ bank' = b /\ decoded_srimask' = d /\ UNCHANGED <<ssr, CCN_INTEVT>>
    BY <1>2 DEF Dispatch
  <2>2. QED BY <2>1, ThresholdType DEF TypeOK
<1>3. QED BY <1>1, <1>2

\* UpdateINTC, alone or at the end of a load of SR, keeps the invariant.
LEMMA UpdateINTCKeepsIInv ==
  ASSUME IInv, NEW v \in SR, NEW b \in BOOLEAN, NEW d, b = v.RB,
         ~rebuild => d = Threshold(InterruptLevelBit, v),
         UpdateINTCWith(v, b, d)
  PROVE  IInv'
<1> USE DEF IInv
<1>1. CASE rebuild
  <2>1. /\ VirtualInterrupt /\ UNCHANGED prio
        /\ Dispatch(v, b, Threshold(InterruptLevelBit', v))
    BY <1>1 DEF UpdateINTCWith
  <2>2. rebuild' = FALSE
    BY <2>1 DEF VirtualInterrupt
  <2>3. /\ InterruptBit' \in [Source -> Slot]
        /\ InterruptEnvId' \in [Slot -> Source \cup {NoEvent}]
        /\ InterruptLevelBit' \in [Level -> 0 .. NumSources]
        /\ interrupt_vpend' \subseteq Slot /\ interrupt_vmask' \subseteq Slot
        /\ BitsDistinct' /\ TablesCurrent' /\ TableLevelsCurrent'
    BY <2>1, RebuildIsCorrect
  <2>4. /\ sr' \in SR /\ ssr' \in SR /\ bank' \in BOOLEAN /\ bank' = sr'.RB
        /\ CCN_INTEVT' \in Source \cup {NoEvent}
        /\ decoded_srimask' = Threshold(InterruptLevelBit', sr')
        /\ decoded_srimask' \in 0 .. NumSources
    BY <2>1, <2>3, DispatchIsTyped
  <2>5. TypeOK'
    BY <2>1, <2>2, <2>3, <2>4 DEF TypeOK
  <2>6. QED BY <2>2, <2>3, <2>4, <2>5 DEF ThresholdCurrent, BankFollowsSR
<1>2. CASE ~rebuild
  <2>1. /\ UNCHANGED <<lines, tables, rebuild, prio>>
        /\ Dispatch(v, b, d)
    BY <1>2 DEF UpdateINTCWith
  <2>2. UNCHANGED <<interrupt_vpend, interrupt_vmask, InterruptBit, InterruptEnvId,
                    InterruptLevelBit>>
    BY <2>1 DEF lines, tables
  <2>3. d = Threshold(InterruptLevelBit', v)
    BY <1>2, <2>2
  <2>4. /\ sr' \in SR /\ ssr' \in SR /\ bank' \in BOOLEAN /\ bank' = sr'.RB
        /\ CCN_INTEVT' \in Source \cup {NoEvent}
        /\ decoded_srimask' = Threshold(InterruptLevelBit', sr')
        /\ decoded_srimask' \in 0 .. NumSources
    BY <2>1, <2>2, <2>3, DispatchIsTyped DEF TypeOK
  <2>5. TypeOK' /\ BitsDistinct'
    BY <2>1, <2>2, <2>4 DEF TypeOK, BitsDistinct
  <2>6. TablesCurrent' /\ TableLevelsCurrent'
    BY <2>1, <2>2, SameOrder DEF TablesCurrent, TableLevelsCurrent
  <2>7. QED BY <2>4, <2>5, <2>6 DEF ThresholdCurrent, BankFollowsSR
<1>3. QED BY <1>1, <1>2

LEMMA LoadSRKeepsIInv ==
  ASSUME IInv, NEW v \in SR, LoadSR(v)
  PROVE  IInv'
<1>1. Normal(v) \in SR
  BY NormalType
<1>2. BankAfter(bank, sr, Normal(v)) = Normal(v).RB
  BY <1>1 DEF IInv, TypeOK, BankFollowsSR, BankAfter, SR
<1>3. BankAfter(bank, sr, Normal(v)) \in BOOLEAN
  BY <1>1, <1>2 DEF SR
<1>4. QED BY <1>1, <1>2, <1>3, UpdateINTCKeepsIInv DEF LoadSR

THEOREM NextIInv == IInv /\ [Next]_vars => IInv'
<1> SUFFICES ASSUME IInv, [Next]_vars PROVE IInv'
  OBVIOUS
<1>1. CASE UpdateINTC
  <2>1. sr \in SR /\ bank \in BOOLEAN /\ bank = sr.RB
        /\ (~rebuild => decoded_srimask = Threshold(InterruptLevelBit, sr))
    BY DEF IInv, TypeOK, BankFollowsSR, ThresholdCurrent
  <2>2. QED BY <1>1, <2>1, UpdateINTCKeepsIInv DEF UpdateINTC
<1>2. ASSUME NEW s \in Source, NEW up \in BOOLEAN, InterruptPend(s, up)
      PROVE  IInv'
  <2> USE <1>2 DEF InterruptPend, IInv, tables, cpu
  <2>1. TypeOK'
    BY DEF TypeOK, WithLine
  <2>2. BitsDistinct'
    BY DEF BitsDistinct, WithLine
  <2>3. TablesCurrent' /\ TableLevelsCurrent'
    BY SameOrder DEF TablesCurrent, TableLevelsCurrent
  <2>4. QED BY <2>1, <2>2, <2>3 DEF ThresholdCurrent, BankFollowsSR
<1>3. ASSUME NEW s \in Source, NEW up \in BOOLEAN, InterruptMask(s, up)
      PROVE  IInv'
  <2> USE <1>3 DEF InterruptMask, IInv, tables, cpu
  <2>1. TypeOK'
    BY DEF TypeOK, WithLine
  <2>2. BitsDistinct'
    BY DEF BitsDistinct, WithLine
  <2>3. TablesCurrent' /\ TableLevelsCurrent'
    BY SameOrder DEF TablesCurrent, TableLevelsCurrent
  <2>4. QED BY <2>1, <2>2, <2>3 DEF ThresholdCurrent, BankFollowsSR
<1>4. ASSUME NEW r \in IPR, NEW data \in IPRValues, WriteIPR(r, data)
      PROVE  IInv'
  <2> USE <1>4 DEF WriteIPR, RequestSIIDRebuild, IInv, tables, lines, cpu
  <2>1. prio' \in [Reg -> [Nibble -> Level]]
    BY PriorityAssumption DEF TypeOK
  <2>2. TypeOK' /\ BitsDistinct'
    BY <2>1 DEF TypeOK, BitsDistinct
  <2>3. QED BY <2>2 DEF TablesCurrent, TableLevelsCurrent, ThresholdCurrent, BankFollowsSR
<1>5. CASE LdcSR
  BY <1>5, LoadSRKeepsIInv, SRAssumption DEF LdcSR
<1>6. CASE Rte
  BY <1>6, LoadSRKeepsIInv DEF Rte, IInv, TypeOK
<1>7. CASE LdcSSR
  <2> USE <1>7 DEF LdcSSR, IInv, tables, lines
  <2>1. TypeOK' /\ BitsDistinct'
    BY SRAssumption DEF TypeOK, BitsDistinct
  <2>2. TablesCurrent' /\ TableLevelsCurrent'
    BY SameOrder DEF TablesCurrent, TableLevelsCurrent
  <2>3. QED BY <2>1, <2>2 DEF ThresholdCurrent, BankFollowsSR
<1>8. CASE Reset
  <2> USE <1>8 DEF Reset, RequestSIIDRebuild, IInv
  <2>1. TypeOK'
    BY SourcesAssumption, PriorityAssumption, SRAssumption
       DEF TypeOK, SR, Level, Source, Slot
  <2>2. BitsDistinct'
    BY DEF BitsDistinct, Source, Slot
  <2>3. QED BY <2>1, <2>2, SRAssumption
            DEF TablesCurrent, TableLevelsCurrent, ThresholdCurrent, BankFollowsSR
<1>9. CASE UNCHANGED vars
  <2> USE <1>9 DEF vars, lines, tables, cpu, IInv
  <2>1. TypeOK' /\ BitsDistinct'
    BY DEF TypeOK, BitsDistinct
  <2>2. TablesCurrent' /\ TableLevelsCurrent'
    BY SameOrder DEF TablesCurrent, TableLevelsCurrent
  <2>3. QED BY <2>1, <2>2 DEF ThresholdCurrent, BankFollowsSR
<1>10. \A s \in Maskable : s \in Source
  BY MaskableAssumption
<1>11. QED
  BY <1>1, <1>2, <1>3, <1>4, <1>5, <1>6, <1>7, <1>8, <1>9, <1>10 DEF Next

\* The controller's tables and cached threshold never disagree with the
\* registers they are derived from, in any run of any size.
THEOREM Consistent == SafeSpec => []IInv
BY InitIInv, NextIInv, PTL DEF SafeSpec

-----------------------------------------------------------------------------
(* What follows from the invariant                                         *)

\* Type correctness.
THEOREM TypeCorrect == SafeSpec => []TypeOK
BY Consistent, PTL DEF IInv

\* Neither the sorted tables nor the cached threshold (decoded_srimask) are
\* ever used when they are older than the priority registers or SR.
THEOREM NeverStale == SafeSpec => []Current
BY Consistent, PTL DEF IInv, Current

\* The predicate the recompiler polls (UpdateINTC_pending) is exact: it never
\* misses a deliverable source and never fires without one.
THEOREM PollIsExact == SafeSpec => []PendingIsExact
<1>1. IInv => PendingIsExact
  <2> SUFFICES ASSUME IInv, ~rebuild
               PROVE  UpdateINTC_pending <=> \E s \in Source : Deliverable(s)
    BY DEF PendingIsExact
  <2> USE DEF IInv
  <2>1. \A s \in Source : InterruptBit[s] = Rank(s) /\ Rank(s) \in Slot
    BY RankIsSlot DEF TypeOK, TablesCurrent
  <2>2. \A q \in Requests : \E s \in Source : q = InterruptBit[s]
    BY DEF Requests, BitsDistinct
  <2>3. ASSUME NEW s \in Source, InterruptBit[s] \in Requests
        PROVE  InterruptBit[s] >= decoded_srimask <=> Deliverable(s)
    <3>1. sr \in SR /\ sr.IMASK \in Level /\ sr.BL \in BOOLEAN
      BY DEF TypeOK, SR
    <3>2. CASE sr.BL
      <4>1. decoded_srimask = NumSources
        BY <3>2 DEF ThresholdCurrent, Threshold
      <4>2. ~(InterruptBit[s] >= NumSources)
        BY <2>1, SourcesAssumption DEF Slot
      <4>3. QED BY <3>2, <4>1, <4>2 DEF Deliverable
    <3>3. CASE ~sr.BL
      <4>1. decoded_srimask = CountUpTo(sr.IMASK)
        BY <3>1, <3>3 DEF ThresholdCurrent, Threshold, TableLevelsCurrent
      <4>2. Rank(s) >= CountUpTo(sr.IMASK) <=> GetPrLvl(s) > sr.IMASK
        BY <3>1, RankAboveLevel DEF TypeOK
      <4>3. QED BY <2>1, <2>3, <3>3, <4>1, <4>2 DEF Deliverable
    <3>4. QED BY <3>2, <3>3
  <2>4. QED BY <2>2, <2>3 DEF UpdateINTC_pending, Deliverable
<1>2. QED BY <1>1, Consistent, PTL

-----------------------------------------------------------------------------
(* The refinement                                                          *)

LEMMA LevelOfIsGetPrLvl == \A s \in Source : Abstract!LevelOf(s) = GetPrLvl(s)
BY DEF Abstract!LevelOf, GetPrLvl

LEMMA SourcesAgree == Abstract!Source = Source
BY DEF Abstract!Source, Source

\* Dispatch, on tables that are current, accepts the source that wins in the
\* abstract specification, and nothing when none does.
LEMMA DispatchImplementsPoll ==
  ASSUME TypeOK, NEW v \in SR, NEW b, UNCHANGED prio,
         interrupt_vpend' \subseteq Slot, interrupt_vmask' \subseteq Slot,
         BitsDistinct', InterruptEnvId' \in [Slot -> Source \cup {NoEvent}],
         \A s \in Source : InterruptBit'[s] = Rank(s) /\ InterruptEnvId'[Rank(s)] = s,
         \A lvl \in Level : InterruptLevelBit'[lvl] = CountUpTo(lvl),
         Raised(interrupt_vpend)' = Raised(interrupt_vpend),
         Raised(interrupt_vmask)' = Raised(interrupt_vmask),
         Dispatch(v, b, Threshold(InterruptLevelBit', v))
  PROVE  Abstract!Poll(v)
<1> DEFINE requests == interrupt_vpend' \cap interrupt_vmask'
           asked == Raised(interrupt_vpend) \cap Raised(interrupt_vmask)
           d == Threshold(InterruptLevelBit', v)
<1>1. /\ \A s \in Source : s \in asked <=> Rank(s) \in requests
      /\ asked \subseteq Source
  BY DEF Raised
<1>2. \A q \in requests : \E s \in asked : q = Rank(s)
  BY <1>1 DEF BitsDistinct
<1>3. \A s \in Source : Rank(s) \in Slot /\ Rank(s) \in Int
  BY RankIsSlot, SourcesAssumption DEF TypeOK, Slot
<1>4. v.BL \in BOOLEAN /\ v.IMASK \in Level
  BY DEF SR
<1>5. ASSUME NEW s \in Source
      PROVE  Rank(s) >= d <=> ~v.BL /\ GetPrLvl(s) > v.IMASK
  <2>1. CASE v.BL
    BY <2>1, <1>3, SourcesAssumption DEF Threshold, Slot
  <2>2. CASE ~v.BL
    BY <2>2, <1>4, RankAboveLevel DEF Threshold, TypeOK
  <2>3. QED BY <2>1, <2>2
<1>6. \A s \in Source : Abstract!Wins(s, v) => s \in asked /\ ~v.BL /\ GetPrLvl(s) > v.IMASK
  BY LevelOfIsGetPrLvl DEF Abstract!Wins
<1>7. CASE /\ \E q \in requests : q >= d
           /\ Do_Interrupt(InterruptEnvId'[BSR(requests)], v, b)
  <2>1. BSR(requests) \in requests /\ \A q \in requests : q <= BSR(requests)
    BY <1>7, BSRIsMax
  <2>2. PICK s \in asked : BSR(requests) = Rank(s)
    BY <2>1, <1>2
  <2>3. s \in Source
    BY <1>1
  <2>4. PICK q \in requests : q >= d
    BY <1>7
  <2>5. PICK u \in asked : q = Rank(u)
    BY <1>2
  <2>6. Rank(u) >= d /\ Rank(s) >= Rank(u) /\ u \in Source
    BY <2>1, <2>2, <2>4, <2>5, <1>1
  <2>7. ~v.BL /\ Rank(s) >= CountUpTo(v.IMASK)
    <3>1. ~v.BL
      BY <2>6, <1>5
    <3>2. d = CountUpTo(v.IMASK) /\ CountUpTo(v.IMASK) \in Nat
      BY <3>1, <1>4, CountUpToIsBounded, SourcesAssumption DEF Threshold
    <3>3. QED BY <3>1, <3>2, <2>3, <2>6, <1>3
  <2>8. GetPrLvl(s) > v.IMASK
    BY <2>3, <2>7, <1>4, RankAboveLevel DEF TypeOK
  <2>9. ASSUME NEW t \in asked \ {s} PROVE Abstract!Beats(s, t)
    <3>1. t \in Source /\ Rank(t) <= Rank(s)
      BY <1>1, <2>1, <2>2
    <3>2. ~Before(s, t)
      BY <3>1, <2>3, <1>3, RankFollowsOrder DEF TypeOK
    <3>3. Before(t, s)
      BY <3>1, <3>2, <2>3, BeforeIsTotal DEF TypeOK
    <3>4. GetPrLvl(s) \in Level /\ GetPrLvl(t) \in Level
      BY <3>1, <2>3, LevelsAreLevels DEF TypeOK
    <3>5. QED
      BY <3>1, <3>3, <3>4, <2>3, LevelOfIsGetPrLvl, SourcesAssumption
         DEF Before, Abstract!Beats, Level, Source
  <2>10. Abstract!Wins(s, v)
    BY <2>3, <2>7, <2>8, <2>9, LevelOfIsGetPrLvl DEF Abstract!Wins
  <2>11. /\ CCN_INTEVT' = s /\ ssr' = v
         /\ sr' = [v EXCEPT !.BL = TRUE, !.MD = TRUE, !.RB = TRUE]
    BY <1>7, <2>2, <2>3 DEF Do_Interrupt
  <2>12. QED BY <2>3, <2>10, <2>11, SourcesAgree DEF Abstract!Poll
<1>8. CASE /\ \A q \in requests : q < d
           /\ sr' = v /\ bank' = b /\ decoded_srimask' = d
           /\ UNCHANGED <<ssr, CCN_INTEVT>>
  <2>1. ASSUME NEW s \in Source, Abstract!Wins(s, v) PROVE FALSE
    <3>1. Rank(s) \in requests /\ Rank(s) >= d
      BY <2>1, <1>1, <1>5, <1>6
    <3>2. d \in Int
      BY <1>4, CountUpToIsBounded, SourcesAssumption DEF Threshold
    <3>3. QED BY <3>1, <3>2, <1>3, <1>8
  <2>2. QED BY <2>1, <1>8, SourcesAgree DEF Abstract!Poll
<1>9. QED BY <1>7, <1>8 DEF Dispatch

LEMMA UpdateINTCImplementsPoll ==
  ASSUME IInv, NEW v \in SR, NEW b, NEW d,
         ~rebuild => d = Threshold(InterruptLevelBit, v),
         UpdateINTCWith(v, b, d)
  PROVE  Abstract!Poll(v)
<1> USE DEF IInv
<1>1. CASE rebuild
  <2>1. /\ VirtualInterrupt /\ UNCHANGED prio
        /\ Dispatch(v, b, Threshold(InterruptLevelBit', v))
    BY <1>1 DEF UpdateINTCWith
  <2>2. ~rebuild'
    BY <2>1 DEF VirtualInterrupt
  <2>3. /\ InterruptEnvId' \in [Slot -> Source \cup {NoEvent}]
        /\ interrupt_vpend' \subseteq Slot /\ interrupt_vmask' \subseteq Slot
        /\ BitsDistinct' /\ TablesCurrent' /\ TableLevelsCurrent'
        /\ Raised(interrupt_vpend)' = Raised(interrupt_vpend)
        /\ Raised(interrupt_vmask)' = Raised(interrupt_vmask)
    BY <2>1, RebuildIsCorrect
  <2>4. /\ \A s \in Source : InterruptBit'[s] = Rank(s) /\ InterruptEnvId'[Rank(s)] = s
        /\ \A lvl \in Level : InterruptLevelBit'[lvl] = CountUpTo(lvl)
    BY <2>1, <2>2, <2>3, SameOrder DEF TablesCurrent, TableLevelsCurrent
  <2>5. QED BY <2>1, <2>3, <2>4, DispatchImplementsPoll
<1>2. CASE ~rebuild
  <2>1. /\ UNCHANGED prio
        /\ UNCHANGED <<interrupt_vpend, interrupt_vmask, InterruptBit, InterruptEnvId,
                       InterruptLevelBit>>
        /\ Dispatch(v, b, Threshold(InterruptLevelBit', v))
    BY <1>2 DEF UpdateINTCWith, lines, tables
  <2>2. /\ \A s \in Source : InterruptBit'[s] = Rank(s) /\ InterruptEnvId'[Rank(s)] = s
        /\ \A lvl \in Level : InterruptLevelBit'[lvl] = CountUpTo(lvl)
    BY <1>2, <2>1 DEF TablesCurrent, TableLevelsCurrent
  <2>3. /\ InterruptEnvId' \in [Slot -> Source \cup {NoEvent}]
        /\ interrupt_vpend' \subseteq Slot /\ interrupt_vmask' \subseteq Slot
        /\ BitsDistinct'
        /\ Raised(interrupt_vpend)' = Raised(interrupt_vpend)
        /\ Raised(interrupt_vmask)' = Raised(interrupt_vmask)
    BY <2>1 DEF TypeOK, BitsDistinct, Raised
  <2>4. QED BY <2>1, <2>2, <2>3, DispatchImplementsPoll
<1>3. QED BY <1>1, <1>2

\* Raising or dropping a slot's bit raises or drops that source alone.
LEMMA LineIsOneSource ==
  ASSUME BitsDistinct, NEW slots, NEW s \in Source, NEW up \in BOOLEAN
  PROVE  Raised(WithLine(slots, s, up)) =
           IF up THEN Raised(slots) \cup {s} ELSE Raised(slots) \ {s}
BY DEF Raised, WithLine, BitsDistinct

\* The controller implements the abstract one: for any list of sources and any
\* interleaving of line changes, priority writes, SR loads and resets, what
\* UpdateINTC accepts is what IntcSpec says.
THEOREM Refinement == SafeSpec => ImplementsIntcSpec
<1>1. Init => Abstract!Init
  <2> SUFFICES ASSUME Init PROVE Abstract!Init
    OBVIOUS
  <2>1. Raised(interrupt_vpend) = {} /\ Raised(interrupt_vmask) = Source
    BY DEF Init, Raised, Source, Slot
  <2>2. QED BY <2>1, SourcesAgree DEF Init, Abstract!Init
<1>2. IInv /\ [Next]_vars => [Abstract!Next]_Abstract!vars
  <2> SUFFICES ASSUME IInv, [Next]_vars PROVE Abstract!Next \/ UNCHANGED Abstract!vars
    OBVIOUS
  <2> USE DEF IInv
  <2>1. CASE UpdateINTC
    <3>1. Abstract!Poll(sr)
      BY <2>1, UpdateINTCImplementsPoll DEF UpdateINTC, TypeOK, ThresholdCurrent
    <3>2. QED BY <3>1 DEF Abstract!Next
  <2>2. ASSUME NEW s \in Source, NEW up \in BOOLEAN, InterruptPend(s, up)
        PROVE  Abstract!Next
    <3>1. Raised(interrupt_vpend)' = Raised(WithLine(interrupt_vpend, s, up))
          /\ Raised(interrupt_vmask)' = Raised(interrupt_vmask)
      BY <2>2 DEF InterruptPend, Raised, tables
    <3>2. Abstract!Line(s)
      BY <2>2, <3>1, LineIsOneSource DEF InterruptPend, cpu, Abstract!Line
    <3>3. QED BY <3>2, SourcesAgree DEF Abstract!Next
  <2>3. ASSUME NEW s \in Source, NEW up \in BOOLEAN, InterruptMask(s, up)
        PROVE  Abstract!Next
    <3>1. Raised(interrupt_vmask)' = Raised(WithLine(interrupt_vmask, s, up))
          /\ Raised(interrupt_vpend)' = Raised(interrupt_vpend)
      BY <2>3 DEF InterruptMask, Raised, tables
    <3>2. Abstract!Line(s)
      BY <2>3, <3>1, LineIsOneSource DEF InterruptMask, cpu, Abstract!Line
    <3>3. QED BY <3>2, SourcesAgree DEF Abstract!Next
  <2>4. ASSUME NEW r \in IPR, NEW data \in IPRValues, WriteIPR(r, data)
        PROVE  Abstract!Next
    BY <2>4 DEF WriteIPR, lines, tables, cpu, Raised, Abstract!Next, Abstract!SetPriority
  <2>5. ASSUME NEW v \in SR, v \in SRValues \cup {ssr}, LoadSR(v)
        PROVE  Abstract!Next
    <3>1. Normal(v) \in SR /\ Abstract!Privileged(v) = Normal(v)
      BY NormalType DEF Normal, Abstract!Privileged
    <3>2. Abstract!Poll(Abstract!Privileged(v))
      BY <2>5, <3>1, UpdateINTCImplementsPoll DEF LoadSR
    <3>3. QED BY <2>5, <3>2 DEF Abstract!Next, Abstract!SetSR
  <2>6. CASE LdcSR
    BY <2>6, <2>5, SRAssumption DEF LdcSR
  <2>7. CASE Rte
    BY <2>7, <2>5 DEF Rte, TypeOK
  <2>8. CASE LdcSSR
    BY <2>8 DEF LdcSSR, lines, tables, Raised, Abstract!Next, Abstract!SetSSR
  <2>9. CASE Reset
    <3>1. Raised(interrupt_vpend)' = {} /\ Raised(interrupt_vmask)' = Source
      BY <2>9 DEF Reset, Raised, Source, Slot
    <3>2. Abstract!Reset
      BY <2>9, <3>1, SourcesAgree DEF Reset, Abstract!Reset
    <3>3. QED BY <3>2 DEF Abstract!Next
  <2>10. CASE UNCHANGED vars
    BY <2>10 DEF vars, lines, tables, cpu, Raised, Abstract!vars
  <2>11. \A s \in Maskable : s \in Source
    BY MaskableAssumption
  <2>12. QED
    BY <2>1, <2>2, <2>3, <2>4, <2>6, <2>7, <2>8, <2>9, <2>10, <2>11 DEF Next
<1>3. QED BY <1>1, <1>2, Consistent, PTL DEF SafeSpec, Abstract!Spec, ImplementsIntcSpec

-----------------------------------------------------------------------------
(* The devices on the lines                                                *)

HollyTypeOK ==
  /\ IST \in [Kind -> SUBSET Bit]
  /\ IML \in [IRL -> [Kind -> SUBSET Bit]]
  /\ UNF \subseteq Channel /\ UNIE \subseteq Channel
  /\ unsynced \subseteq IRL

\* No line is up but those of the devices.
OnlyDevices == Raised(interrupt_vpend) \subseteq IRL \cup Channel

HInv == IInv /\ HollyTypeOK /\ LinesFollow /\ OnlyDevices

LEMMA LinesAreSources ==
  /\ \A l \in IRL : l \in Source
  /\ \A ch \in Channel : ch \in Source
  /\ \A l \in IRL : \A ch \in Channel : l # ch
BY LinesAssumption, MaskableAssumption

THEOREM InitHInv == HollyInit => HInv
<1> SUFFICES ASSUME HollyInit PROVE HInv
  OBVIOUS
<1> USE DEF HollyInit
<1>1. IInv
  <2>1. TypeOK
    BY SourcesAssumption, PriorityAssumption, SRAssumption
       DEF TypeOK, Source, Slot, SR, Level
  <2>2. BitsDistinct
    BY DEF BitsDistinct, Source, Slot
  <2>3. QED
    BY <2>1, <2>2, SRAssumption
       DEF IInv, TablesCurrent, TableLevelsCurrent, ThresholdCurrent, BankFollowsSR
<1>2. HollyTypeOK
  BY DEF HollyTypeOK
<1>3. \A s \in Source : InterruptBit[s] = s /\ s \in Slot
  BY DEF Source, Slot
<1>4. \A l \in IRL : ~Asserted(l, IST, IML)
  BY DEF Asserted
<1>5. LinesFollow
  BY <1>3, <1>4, LinesAreSources DEF LinesFollow
<1>6. OnlyDevices
  BY DEF OnlyDevices, Raised
<1>7. QED BY <1>1, <1>2, <1>5, <1>6 DEF HInv

\* What LinesFollow and OnlyDevices say, in terms of sources.
LEMMA FollowRaised ==
  LinesFollow <=>
    /\ \A l \in IRL :
         /\ l \in Raised(interrupt_vpend) => Asserted(l, IST, IML)
         /\ l \notin unsynced /\ Asserted(l, IST, IML) => l \in Raised(interrupt_vpend)
    /\ \A ch \in Channel :
         /\ ch \in Raised(interrupt_vpend) <=> ch \in UNF
         /\ ch \in Raised(interrupt_vmask) <=> ch \in UNIE
BY LinesAreSources DEF LinesFollow, Raised

\* A step of the controller that keeps the raised sources keeps the lines.
LEMMA SameRaised ==
  ASSUME HInv, IInv', UNCHANGED <<holly, timers, unsynced>>,
         Raised(interrupt_vpend)' = Raised(interrupt_vpend),
         Raised(interrupt_vmask)' = Raised(interrupt_vmask)
  PROVE  HInv'
<1> USE DEF HInv, holly, timers
<1>1. HollyTypeOK'
  BY DEF HollyTypeOK
<1>2. \A l \in IRL : Asserted(l, IST, IML)' = Asserted(l, IST, IML)
  BY DEF Asserted
<1>3. LinesFollow'
  <2>1. \A l \in IRL :
           /\ l \in Raised(interrupt_vpend)' => Asserted(l, IST, IML)'
           /\ l \notin unsynced' /\ Asserted(l, IST, IML)' => l \in Raised(interrupt_vpend)'
    BY <1>2, FollowRaised
  <2>2. \A ch \in Channel :
           /\ ch \in Raised(interrupt_vpend)' <=> ch \in UNF'
           /\ ch \in Raised(interrupt_vmask)' <=> ch \in UNIE'
    BY FollowRaised
  <2>3. QED BY <2>1, <2>2, LinesAreSources DEF LinesFollow, Raised
<1>4. OnlyDevices'
  BY DEF OnlyDevices
<1>5. QED BY <1>1, <1>3, <1>4

\* UpdateINTC moves the bits and raises and drops nothing.
LEMMA UpdateINTCKeepsRaised ==
  ASSUME IInv, NEW v, NEW b, NEW d, UpdateINTCWith(v, b, d)
  PROVE  /\ Raised(interrupt_vpend)' = Raised(interrupt_vpend)
         /\ Raised(interrupt_vmask)' = Raised(interrupt_vmask)
<1>1. CASE rebuild
  BY <1>1, RebuildIsCorrect DEF UpdateINTCWith, IInv
<1>2. CASE ~rebuild
  BY <1>2 DEF UpdateINTCWith, lines, tables, Raised
<1>3. QED BY <1>1, <1>2

LEMMA CPUStepKeepsHInv ==
  ASSUME HInv, CPUStep
  PROVE  HInv'
<1> USE DEF HInv
<1>1. [Next]_vars
  BY DEF CPUStep, Next
<1>2. IInv'
  BY <1>1, NextIInv
<1>3. UNCHANGED <<holly, timers, unsynced>>
  BY DEF CPUStep
<1>4. /\ Raised(interrupt_vpend)' = Raised(interrupt_vpend)
      /\ Raised(interrupt_vmask)' = Raised(interrupt_vmask)
  <2>1. CASE UpdateINTC
    BY <2>1, UpdateINTCKeepsRaised DEF UpdateINTC
  <2>2. ASSUME NEW v, LoadSR(v) 
        PROVE  /\ Raised(interrupt_vpend)' = Raised(interrupt_vpend)
               /\ Raised(interrupt_vmask)' = Raised(interrupt_vmask)
    BY <2>2, UpdateINTCKeepsRaised DEF LoadSR
  <2>3. CASE LdcSR \/ Rte
    BY <2>2, <2>3 DEF LdcSR, Rte
  <2>4. CASE LdcSSR
    BY <2>4 DEF LdcSSR, lines, tables, Raised
  <2>5. ASSUME NEW r \in IPR, NEW data \in IPRValues, WriteIPR(r, data)
        PROVE  /\ Raised(interrupt_vpend)' = Raised(interrupt_vpend)
               /\ Raised(interrupt_vmask)' = Raised(interrupt_vmask)
    BY <2>5 DEF WriteIPR, lines, tables, Raised
  <2>6. QED BY <2>1, <2>3, <2>4, <2>5 DEF CPUStep
<1>5. QED BY <1>2, <1>3, <1>4, SameRaised

\* The controller's invariant does not mind which slots of sources are up.
LEMMA LinesKeepIInv ==
  ASSUME IInv, UNCHANGED <<prio, rebuild, decoded_srimask, tables, cpu>>,
         NEW P, NEW M,
         interrupt_vpend' = P, interrupt_vmask' = M,
         P \subseteq {InterruptBit[s] : s \in Source},
         M \subseteq {InterruptBit[s] : s \in Source}
  PROVE  IInv'
<1> USE DEF IInv, tables, cpu
<1>1. P \subseteq Slot /\ M \subseteq Slot
  BY DEF TypeOK
<1>2. TypeOK'
  BY <1>1 DEF TypeOK
<1>3. BitsDistinct'
  BY DEF BitsDistinct
<1>4. TablesCurrent' /\ TableLevelsCurrent'
  BY SameOrder DEF TablesCurrent, TableLevelsCurrent
<1>5. QED BY <1>2, <1>3, <1>4 DEF ThresholdCurrent, BankFollowsSR

\* The mixer re-evaluates some lines after the ASIC's registers changed.
LEMMA UpdateLinesKeepsHInv ==
  ASSUME HInv, NEW which \in SUBSET IRL,
         IST' \in [Kind -> SUBSET Bit], IML' \in [IRL -> [Kind -> SUBSET Bit]],
         \A l \in IRL \ which : Asserted(l, IST', IML') = Asserted(l, IST, IML),
         UpdateLines(which, IST', IML')
  PROVE  HInv'
<1> USE DEF HInv, UpdateLines, rest, timers
<1>1. /\ interrupt_vpend' = (interrupt_vpend \ {InterruptBit[l] : l \in which})
           \cup {InterruptBit[l] : l \in {x \in which : Asserted(x, IST', IML')}}
      /\ interrupt_vmask' = interrupt_vmask /\ InterruptBit' = InterruptBit
      /\ UNF' = UNF /\ UNIE' = UNIE /\ unsynced' = unsynced \ which
  BY DEF tables
<1>2. IInv'
  <2>1. /\ interrupt_vpend' \subseteq {InterruptBit[s] : s \in Source}
        /\ interrupt_vmask' \subseteq {InterruptBit[s] : s \in Source}
    BY <1>1, LinesAreSources DEF IInv, BitsDistinct
  <2>2. QED BY <2>1, LinesKeepIInv
<1>3. HollyTypeOK'
  BY <1>1 DEF HollyTypeOK
<1>4. \A s, t \in Source : InterruptBit[s] = InterruptBit[t] => s = t
  BY DEF IInv, BitsDistinct
<1>5. \A s \in Source : InterruptBit[s] \in interrupt_vpend' <=>
         IF s \in which THEN Asserted(s, IST', IML') ELSE InterruptBit[s] \in interrupt_vpend
  BY <1>1, <1>4, LinesAreSources
<1>6. LinesFollow'
  <2>1. \A l \in IRL :
           /\ InterruptBit'[l] \in interrupt_vpend' => Asserted(l, IST', IML')
           /\ l \notin unsynced' /\ Asserted(l, IST', IML') => InterruptBit'[l] \in interrupt_vpend'
    BY <1>1, <1>5, LinesAreSources DEF LinesFollow
  <2>2. \A ch \in Channel :
           /\ InterruptBit'[ch] \in interrupt_vpend' <=> ch \in UNF'
           /\ InterruptBit'[ch] \in interrupt_vmask' <=> ch \in UNIE'
    BY <1>1, <1>5, LinesAreSources DEF LinesFollow
  <2>3. QED BY <2>1, <2>2 DEF LinesFollow, Asserted
<1>7. OnlyDevices'
  BY <1>1, <1>5 DEF OnlyDevices, Raised
<1>8. QED BY <1>2, <1>3, <1>6, <1>7

THEOREM NextHInv == HInv /\ [HollyNext]_hvars => HInv'
<1> SUFFICES ASSUME HInv, [HollyNext]_hvars PROVE HInv'
  OBVIOUS
<1> USE DEF HInv
<1>1. ASSUME NEW ist \in [Kind -> SUBSET Bit], asic_UpdatePending(ist)
      PROVE  HInv'
  BY <1>1, UpdateLinesKeepsHInv DEF asic_UpdatePending, HollyTypeOK
<1>2. ASSUME NEW k \in Kind, NEW b \in Bit,
             asic_RaiseInterrupt(k, b) \/ asic_CancelInterrupt(k, b)
      PROVE  HInv'
  <2>1. /\ [IST EXCEPT ![k] = @ \cup {b}] \in [Kind -> SUBSET Bit]
        /\ [IST EXCEPT ![k] = @ \ {b}] \in [Kind -> SUBSET Bit]
    BY DEF HollyTypeOK
  <2>2. QED BY <1>1, <1>2, <2>1 DEF asic_RaiseInterrupt, asic_CancelInterrupt
<1>3. ASSUME NEW k \in Kind, NEW data \in SUBSET Bit, WriteIST(k, data)
      PROVE  HInv'
  <2>1. [IST EXCEPT ![k] = @ \ data] \in [Kind -> SUBSET Bit]
    BY DEF HollyTypeOK
  <2>2. QED BY <1>1, <1>3, <2>1 DEF WriteIST
<1>4. ASSUME NEW l \in IRL, NEW k \in Kind, NEW data \in SUBSET Bit, WriteIML(l, k, data)
      PROVE  HInv'
  <2>1. IML' \in [IRL -> [Kind -> SUBSET Bit]] /\ IST' = IST
    BY <1>4 DEF WriteIML, HollyTypeOK
  <2>2. \A x \in IRL \ {l} : IML'[x] = IML[x]
    BY <1>4 DEF WriteIML, HollyTypeOK
  <2>3. \A x \in IRL \ {l} : Asserted(x, IST', IML') = Asserted(x, IST, IML)
    BY <2>1, <2>2 DEF Asserted
  <2>4. {l} \in SUBSET IRL /\ UpdateLines({l}, IST', IML')
    BY <1>4, <2>1 DEF WriteIML
  <2>5. IST' \in [Kind -> SUBSET Bit]
    BY <2>1 DEF HollyTypeOK
  <2>6. QED BY <2>1, <2>3, <2>4, <2>5, UpdateLinesKeepsHInv
<1>5. ASSUME NEW ch \in Channel, NEW unf \in BOOLEAN, NEW unie \in BOOLEAN,
             TMU_TCR_write(ch, unf, unie)
      PROVE  HInv'
  <2> USE <1>5 DEF TMU_TCR_write, rest, holly
  <2>1. ch \in Source
    BY LinesAreSources
  <2>2. \A s, t \in Source : InterruptBit[s] = InterruptBit[t] => s = t
    BY DEF IInv, BitsDistinct
  <2>3. InterruptBit' = InterruptBit /\ IST' = IST /\ IML' = IML /\ unsynced' = unsynced
    BY DEF tables
  <2>4. IInv'
    <3>1. /\ WithLine(interrupt_vpend, ch, unf) \subseteq {InterruptBit[s] : s \in Source}
          /\ WithLine(interrupt_vmask, ch, unie) \subseteq {InterruptBit[s] : s \in Source}
      BY <2>1 DEF WithLine, IInv, BitsDistinct
    <3>2. QED BY <3>1, LinesKeepIInv
  <2>5. HollyTypeOK'
    BY DEF HollyTypeOK
  <2>6. /\ \A s \in Source : InterruptBit'[s] \in interrupt_vpend' <=>
             IF s = ch THEN unf ELSE InterruptBit[s] \in interrupt_vpend
        /\ \A s \in Source : InterruptBit'[s] \in interrupt_vmask' <=>
             IF s = ch THEN unie ELSE InterruptBit[s] \in interrupt_vmask
    BY <2>1, <2>2, <2>3 DEF WithLine
  <2>7. \A l \in IRL : Asserted(l, IST', IML') = Asserted(l, IST, IML)
    BY <2>3 DEF Asserted
  <2>8. LinesFollow'
    <3>1. \A l \in IRL : InterruptBit'[l] \in interrupt_vpend' <=> InterruptBit[l] \in interrupt_vpend
      BY <2>6, LinesAreSources
    <3>2. \A c \in Channel :
             /\ InterruptBit'[c] \in interrupt_vpend' <=> c \in UNF'
             /\ InterruptBit'[c] \in interrupt_vmask' <=> c \in UNIE'
      BY <2>6, LinesAreSources DEF LinesFollow
    <3>3. QED BY <2>3, <2>7, <3>1, <3>2 DEF LinesFollow
  <2>9. OnlyDevices'
    BY <2>6 DEF OnlyDevices, Raised
  <2>10. QED BY <2>4, <2>5, <2>8, <2>9
<1>6. ASSUME NEW ch \in Channel, Underflow(ch)
      PROVE  HInv'
  <2> USE <1>6 DEF Underflow, InterruptPend
  <2>1. ch \in Source
    BY LinesAreSources
  <2>2. \A s, t \in Source : InterruptBit[s] = InterruptBit[t] => s = t
    BY DEF IInv, BitsDistinct
  <2>3. /\ InterruptBit' = InterruptBit /\ IST' = IST /\ IML' = IML /\ unsynced' = unsynced
        /\ UNIE' = UNIE /\ interrupt_vmask' = interrupt_vmask
    BY DEF tables, holly
  <2>4. IInv'
    <3>1. /\ WithLine(interrupt_vpend, ch, TRUE) \subseteq {InterruptBit[s] : s \in Source}
          /\ interrupt_vmask \subseteq {InterruptBit[s] : s \in Source}
      BY <2>1 DEF WithLine, IInv, BitsDistinct
    <3>2. QED BY <3>1, LinesKeepIInv
  <2>5. HollyTypeOK'
    BY <2>3 DEF HollyTypeOK
  <2>6. \A s \in Source : InterruptBit'[s] \in interrupt_vpend' <=>
             s = ch \/ InterruptBit[s] \in interrupt_vpend
    BY <2>1, <2>2, <2>3 DEF WithLine
  <2>7. \A l \in IRL : Asserted(l, IST', IML') = Asserted(l, IST, IML)
    BY <2>3 DEF Asserted
  <2>8. LinesFollow'
    <3>1. \A l \in IRL : InterruptBit'[l] \in interrupt_vpend' <=> InterruptBit[l] \in interrupt_vpend
      BY <2>6, LinesAreSources
    <3>2. \A c \in Channel :
             /\ InterruptBit'[c] \in interrupt_vpend' <=> c \in UNF'
             /\ InterruptBit'[c] \in interrupt_vmask' <=> c \in UNIE'
      BY <2>3, <2>6, LinesAreSources DEF LinesFollow
    <3>3. QED BY <2>3, <2>7, <3>1, <3>2 DEF LinesFollow
  <2>9. OnlyDevices'
    BY <2>6 DEF OnlyDevices, Raised
  <2>10. QED BY <2>4, <2>5, <2>8, <2>9
<1>7. CASE CPUStep
  BY <1>7, CPUStepKeepsHInv
<1>8. CASE ResetDC
  <2> USE <1>8 DEF ResetDC, RequestSIIDRebuild, holly
  <2>1. \A s \in Source : InterruptBit'[s] = s /\ s \in Slot
    BY DEF Source, Slot
  <2>2. TypeOK'
    <3>1. interrupt_vmask' \subseteq Slot /\ interrupt_vpend' \subseteq Slot
          /\ InterruptBit' \in [Source -> Slot]
      BY DEF Source, Slot
    <3>2. sr' \in SR /\ ssr' \in SR /\ decoded_srimask' \in 0 .. NumSources
      BY SourcesAssumption, SRAssumption DEF SR, Level
    <3>3. QED BY <3>1, <3>2, PriorityAssumption DEF TypeOK, IInv
  <2>3. BitsDistinct'
    BY <2>1 DEF BitsDistinct, Source, Slot
  <2>4. IInv'
    BY <2>2, <2>3, SRAssumption
       DEF IInv, TablesCurrent, TableLevelsCurrent, ThresholdCurrent, BankFollowsSR
  <2>5. HollyTypeOK'
    BY DEF HollyTypeOK
  <2>6. LinesFollow'
    <3>1. \A ch \in Channel : InterruptBit'[ch] \notin interrupt_vmask'
      OBVIOUS
    <3>2. QED BY <3>1 DEF LinesFollow
  <2>7. OnlyDevices'
    BY DEF OnlyDevices, Raised
  <2>8. QED BY <2>4, <2>5, <2>6, <2>7
<1>9. CASE UNCHANGED hvars
  <2>1. UNCHANGED vars /\ UNCHANGED <<holly, timers, unsynced>>
    BY <1>9 DEF hvars
  <2>2. IInv'
    BY <2>1, NextIInv
  <2>3. /\ Raised(interrupt_vpend)' = Raised(interrupt_vpend)
        /\ Raised(interrupt_vmask)' = Raised(interrupt_vmask)
    BY <2>1 DEF vars, lines, tables, Raised
  <2>4. QED BY <2>1, <2>2, <2>3, SameRaised
<1>10. QED
  BY <1>2, <1>3, <1>4, <1>5, <1>6, <1>7, <1>8, <1>9 DEF HollyNext

THEOREM HollyConsistent == HollySpec => []HInv
BY InitHInv, NextHInv, PTL DEF HollySpec

\* Each IRL line is up exactly when an unmasked interrupt of the ASIC is, and
\* each TMU channel's two bits follow its TCR, over every rebuild and reset.
THEOREM LinesAlwaysFollow == HollySpec => []LinesFollow
BY HollyConsistent, PTL DEF HInv

\* UpdateINTC accepts only what is up and let through.
LEMMA AcceptedIsRaised ==
  ASSUME IInv, NEW v \in SR, NEW b, NEW d,
         ~rebuild => d = Threshold(InterruptLevelBit, v),
         UpdateINTCWith(v, b, d), CCN_INTEVT' # CCN_INTEVT
  PROVE  CCN_INTEVT' \in Raised(interrupt_vpend) \cap Raised(interrupt_vmask)
<1>1. Abstract!Poll(v)
  BY UpdateINTCImplementsPoll
<1>2. PICK s \in Abstract!Source : Abstract!Wins(s, v) /\ CCN_INTEVT' = s
  BY <1>1 DEF Abstract!Poll
<1>3. QED BY <1>2 DEF Abstract!Wins

\* What the CPU is told it accepted is a line with an unmasked cause, or a
\* channel with its flag and its enable set: nothing is accepted spuriously.
THEOREM NothingSpurious == HollySpec => NoSpuriousInterrupt
<1>1. HInv /\ [HollyNext]_hvars =>
        (CCN_INTEVT' # CCN_INTEVT =>
           \/ CCN_INTEVT' \in IRL /\ Asserted(CCN_INTEVT', IST, IML)
           \/ CCN_INTEVT' \in Channel \cap UNF \cap UNIE)
  <2> SUFFICES ASSUME HInv, HollyNext, CCN_INTEVT' # CCN_INTEVT
               PROVE  \/ CCN_INTEVT' \in IRL /\ Asserted(CCN_INTEVT', IST, IML)
                      \/ CCN_INTEVT' \in Channel \cap UNF \cap UNIE
    BY DEF hvars, vars, cpu
  <2>1. CPUStep
    BY DEF HollyNext, asic_RaiseInterrupt, asic_CancelInterrupt, WriteIST, WriteIML,
           asic_UpdatePending, UpdateLines, rest, cpu, Underflow, InterruptPend,
           TMU_TCR_write, ResetDC
  <2>2. ASSUME NEW v \in SR, NEW b, NEW d,
               ~rebuild => d = Threshold(InterruptLevelBit, v), UpdateINTCWith(v, b, d)
        PROVE  CCN_INTEVT' \in Raised(interrupt_vpend) \cap Raised(interrupt_vmask)
    BY <2>2, AcceptedIsRaised DEF HInv
  <2>3. ASSUME NEW v \in SR, LoadSR(v)
        PROVE  CCN_INTEVT' \in Raised(interrupt_vpend) \cap Raised(interrupt_vmask)
    BY <2>2, <2>3, NormalType DEF LoadSR
  <2>4. CCN_INTEVT' \in Raised(interrupt_vpend) \cap Raised(interrupt_vmask)
    <3>1. CASE UpdateINTC
      BY <3>1, <2>2 DEF UpdateINTC, HInv, IInv, TypeOK, ThresholdCurrent
    <3>2. CASE LdcSR
      BY <3>2, <2>3, SRAssumption DEF LdcSR
    <3>3. CASE Rte
      BY <3>3, <2>3 DEF Rte, HInv, IInv, TypeOK
    <3>4. ~LdcSSR /\ ~(\E r \in IPR, data \in IPRValues : WriteIPR(r, data))
      BY DEF LdcSSR, WriteIPR, cpu
    <3>5. QED BY <2>1, <3>1, <3>2, <3>3, <3>4 DEF CPUStep
  <2>5. CCN_INTEVT' \in IRL \cup Channel
    BY <2>4 DEF HInv, OnlyDevices
  <2>6. QED BY <2>4, <2>5, FollowRaised DEF HInv
<1>2. QED BY <1>1, HollyConsistent, PTL DEF HollySpec, NoSpuriousInterrupt

=============================================================================
