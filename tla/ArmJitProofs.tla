---------------------------- MODULE ArmJitProofs ----------------------------
(***************************************************************************)
(* Proofs about ArmJit for any guest program, code memory, block length    *)
(* and presets: the exits lead to live blocks, and an engine that chains   *)
(* them does what ArmDispatch, the cached interpreter's macros, promises.  *)
(* The invariant: live code is whole, which is to say every word of it is  *)
(* followed by what it needs, leads where it says, and was in the guest's  *)
(* memory since the last reset.                                            *)
(***************************************************************************)
EXTENDS ArmJit, WellFoundedInduction, TLAPS

LEMMA Sizes ==
  /\ PcCount \in Nat \ {0} /\ AramWords \in Nat \ {0} /\ FiqVector \in Pc
  /\ MaxInsns \in Nat \ {0} /\ MaxInsns <= PcCount
  /\ CodeWords \in Nat /\ Reserve \in Nat /\ MaxInsns + 3 <= Reserve /\ Reserve <= CodeWords
  /\ 0 \in Address /\ 0 \in Pc /\ Targets \subseteq Pc
  BY MemoryAssumption, SizesAssumption DEF Address, Pc

LEMMA SlotType == \A p \in Pc : Slot(p) \in Slots
  BY Sizes DEF Pc, Slot, Slots

LEMMA PcTypes ==
  ASSUME NEW p \in Pc
  PROVE  /\ After(p) \in Pc
         /\ \A k \in 0 .. MaxInsns : PcAt(p, k) \in Pc
         /\ PcAt(p, 0) = p
         /\ \A k \in 0 .. MaxInsns - 1 : PcAt(p, k + 1) = After(PcAt(p, k))
  BY Sizes DEF Pc, After, PcAt

LEMMA Least ==
  ASSUME NEW T, T \subseteq Nat, T # {}
  PROVE  \E n \in T : \A m \in T : n <= m
<1>1. PICK n \in T : \A m \in T : ~ (<<m, n>> \in OpToRel(<, Nat))
  BY NatLessThanWellFounded, WFMin
<1>2. \A m \in T : n <= m
  <2> SUFFICES ASSUME NEW m \in T PROVE n <= m
    OBVIOUS
  <2>1. ~(m < n)
    BY <1>1 DEF OpToRel
  <2> QED
    BY <2>1
<1> QED
  BY <1>2

-----------------------------------------------------------------------------
(* Words                                                                   *)

Leads(w, p) == w.op \in {"go", "link", "jump"} /\ w.pc = p
Leaves(w) == w.op \in {"ret", "ic"}
Continues(w, p) == (w.op = "insn" /\ w.pc = p) \/ Leads(w, p)

LEMMA MadeWords ==
  ASSUME NEW p \in Pc, NEW i \in Instr, NEW b \in BOOLEAN, NEW a \in Address
  PROVE  /\ Entry(p) \in Words /\ Go(p) \in Words /\ Link(p) \in Words
         /\ Insn(p, i, b) \in Words /\ Jump(p, a) \in Words
         /\ Ret \in Words /\ Dead \in Words
  BY DEF Words

LEMMA MadeCaches ==
  ASSUME NEW p \in Pc, NEW a \in Address \cup {NoCode},
         NEW n \in 0 .. Reprobe, NEW g \in 0 .. DemoteAge
  PROVE  Ic(p, a, n, g) \in Words
  BY DEF Words

LEMMA Faces ==
  ASSUME NEW w \in Words
  PROVE  /\ w.op \in {"entry", "insn", "go", "ret", "link", "jump", "ic", "dead"}
         /\ w.op \in {"entry", "insn", "go", "link", "jump", "ic"} => w.pc \in Pc
         /\ w.op = "entry" => w = Entry(w.pc)
         /\ w.op = "insn" => w.insn \in Instr /\ w.idle \in BOOLEAN
         /\ w.op = "jump" => w.at \in Address
         /\ w.op = "ic" => /\ w.at \in Address \cup {NoCode} /\ w.left \in 0 .. Reprobe
                            /\ w.age \in 0 .. DemoteAge
  BY DEF Words, Entry, Go, Link, Insn, Jump, Ic, Ret, Dead

LEMMA Instructions ==
  ASSUME NEW i \in Instr
  PROVE  /\ i.op \in {"alu", "write", "b", "bl", "return", "jump"}
         /\ i.cond \in BOOLEAN /\ i.to \in Pc
  BY MemoryAssumption

-----------------------------------------------------------------------------
(* Blocks                                                                  *)

LEMMA LengthType ==
  ASSUME aram \in [Slots -> Instr], NEW p \in Pc
  PROVE  /\ Length(p) \in 1 .. MaxInsns
         /\ \/ Length(p) = MaxInsns
            \/ EndsBlock(aram[Slot(PcAt(p, Length(p) - 1))])
         /\ \A k \in 1 .. Length(p) - 1 : ~EndsBlock(aram[Slot(PcAt(p, k - 1))])
<1>1. Ends(p) \subseteq 1 .. MaxInsns
  BY DEF Ends
<1>2. MaxInsns \in Ends(p)
  BY Sizes DEF Ends
<1>3. \E n \in Ends(p) : \A m \in Ends(p) : n <= m
  <2>1. Ends(p) \subseteq Nat
    BY <1>1, Sizes
  <2> QED
    BY <1>2, <2>1, Least
<1>4. Length(p) \in Ends(p) /\ \A m \in Ends(p) : Length(p) <= m
  BY <1>3 DEF Length
<1>5. ASSUME NEW k \in 1 .. Length(p) - 1
      PROVE  ~EndsBlock(aram[Slot(PcAt(p, k - 1))])
  <2>1. k \in 1 .. MaxInsns /\ k < Length(p)
    BY <1>1, <1>4, Sizes
  <2>2. k \notin Ends(p)
    BY <1>1, <1>4, <2>1, Sizes
  <2> QED
    BY <2>1, <2>2 DEF Ends
<1> QED
  BY <1>1, <1>4, <1>5 DEF Ends

\* The code is whole below c: what follows a word is what it needs, exits lead
\* to entries, and an instruction was in memory, whose history is sn.
WholeEntry(m, c, a) ==
  m[a].op = "entry" => /\ a + 1 < c /\ m[a + 1].op = "insn" /\ m[a + 1].pc = m[a].pc

SpinsOnly(i, p, sn) ==
  /\ i.op = "b" /\ i.to <= p
  /\ \A q \in i.to .. p : q # p => \E j \in sn[Slot(q)] : j.op = "alu"

WholeInsn(m, c, sn, a) ==
  m[a].op = "insn" =>
    /\ m[a].insn \in sn[Slot(m[a].pc)]
    /\ a + 1 < c
    /\ ~EndsBlock(m[a].insn) => Continues(m[a + 1], After(m[a].pc))
    /\ m[a].insn.op \in {"b", "bl"} => Leads(m[a + 1], m[a].insn.to)
    /\ m[a].insn.op \in {"return", "jump"} => Leaves(m[a + 1])
    /\ EndsBlock(m[a].insn) /\ m[a].insn.cond =>
         a + 2 < c /\ Leads(m[a + 2], After(m[a].pc))
    /\ m[a].idle => SpinsOnly(m[a].insn, m[a].pc, sn)

Linked(m, c, w) ==
  (w.op = "jump" \/ (w.op = "ic" /\ Cached(w))) => w.at < c /\ m[w.at] = Entry(w.pc)

Whole(m, c, sn, a) ==
  m[a].op # "dead" /\ WholeEntry(m, c, a) /\ WholeInsn(m, c, sn, a) /\ Linked(m, c, m[a])

AllWhole(m, c, sn) == \A a \in Address : a < c => Whole(m, c, sn, a)

\* The table knows live blocks by their addresses.
Known(m, c, ents) ==
  \A s \in Slots : ents[s] # NoCode =>
    /\ ents[s] \in Address /\ ents[s] < c
    /\ m[ents[s]].op = "entry" /\ Slot(m[ents[s]].pc) = s

LEMMA StaticExits ==
  ASSUME level \in 1 .. 3, mem \in [Address -> Words], NEW c \in Nat, NEW ents,
         Known(mem, c, ents), NEW p \in Pc
  PROVE  /\ StaticExit(p, ents) \in Words /\ Leads(StaticExit(p, ents), p)
         /\ Linked(mem, c, StaticExit(p, ents))
<1>1. CASE level = 1
  BY <1>1, MadeWords DEF StaticExit, Leads, Linked, Go, Words
<1>2. CASE level # 1 /\ Found(p, ents)
  <2>1. ents[Slot(p)] \in Address /\ mem[ents[Slot(p)]].op = "entry" /\ mem[ents[Slot(p)]].pc = p
    BY <1>2 DEF Found
  <2>2. mem[ents[Slot(p)]] = Entry(p)
    BY <2>1, Faces
  <2>3. ents[Slot(p)] < c
    BY <2>1, SlotType DEF Known, NoCode, Address
  <2>4. StaticExit(p, ents) = Jump(p, ents[Slot(p)])
    BY <1>2 DEF StaticExit
  <2> QED
    BY <2>1, <2>2, <2>3, <2>4 DEF Leads, Linked, Jump, Words
<1>3. CASE level # 1 /\ ~Found(p, ents)
  BY <1>3 DEF StaticExit, Leads, Linked, Link, Words
<1> QED
  BY <1>1, <1>2, <1>3

LEMMA DynamicExits ==
  ASSUME NEW i \in Instr, NEW m, NEW c
  PROVE  /\ DynamicExit(i) \in Words /\ Leaves(DynamicExit(i))
         /\ Linked(m, c, DynamicExit(i))
<1>1. 0 \in 0 .. Reprobe /\ 0 \in 0 .. DemoteAge /\ 0 \in Pc
  BY Sizes, SizesAssumption
<1> QED
  BY <1>1 DEF DynamicExit, Leaves, Linked, Cached, Ic, Ret, Words

\* The last instruction of the block of p
Last(p) == PcAt(p, Length(p) - 1)

LEMMA BlockPcs ==
  ASSUME aram \in [Slots -> Instr], NEW p \in Pc
  PROVE  /\ \A k \in 1 .. Length(p) : PcAt(p, k - 1) \in Pc /\ aram[Slot(PcAt(p, k - 1))] \in Instr
         /\ \A k \in 1 .. Length(p) - 1 : PcAt(p, k) = After(PcAt(p, k - 1))
         /\ Last(p) \in Pc /\ aram[Slot(Last(p))] \in Instr
<1>1. Length(p) \in 1 .. MaxInsns /\ MaxInsns \in Nat
  BY LengthType, Sizes
<1>2. \A k \in 1 .. Length(p) : PcAt(p, k - 1) \in Pc
  BY <1>1, PcTypes
<1>3. \A k \in 1 .. Length(p) - 1 : PcAt(p, k) = After(PcAt(p, k - 1))
  <2> TAKE k \in 1 .. Length(p) - 1
  <2>1. k - 1 \in 0 .. MaxInsns - 1 /\ (k - 1) + 1 = k
    BY <1>1
  <2> QED
    BY <2>1, PcTypes
<1> QED
  BY <1>1, <1>2, <1>3, SlotType DEF Last

LEMMA ExitWords ==
  ASSUME level \in 1 .. 3, mem \in [Address -> Words], aram \in [Slots -> Instr],
         NEW c \in Nat, NEW ents, Known(mem, c, ents), NEW p \in Pc,
         NEW i, i = aram[Slot(Last(p))]
  PROVE  /\ Len(Exits(p, ents)) \in 1 .. 2
         /\ \A n \in 1 .. Len(Exits(p, ents)) :
              /\ Exits(p, ents)[n] \in Words
              /\ Exits(p, ents)[n].op \in {"go", "link", "jump", "ret", "ic"}
              /\ Linked(mem, c, Exits(p, ents)[n])
         /\ ~EndsBlock(i) => Leads(Exits(p, ents)[1], After(Last(p)))
         /\ i.op \in {"b", "bl"} => Leads(Exits(p, ents)[1], i.to)
         /\ i.op \in {"return", "jump"} => Leaves(Exits(p, ents)[1])
         /\ EndsBlock(i) /\ i.cond =>
              Len(Exits(p, ents)) = 2 /\ Leads(Exits(p, ents)[2], After(Last(p)))
<1> DEFINE next == StaticExit(After(Last(p)), ents)
           taken == IF i.op \in {"b", "bl"} THEN StaticExit(i.to, ents) ELSE DynamicExit(i)
<1>1. i \in Instr /\ i.to \in Pc /\ i.cond \in BOOLEAN /\ After(Last(p)) \in Pc
  BY BlockPcs, Instructions, PcTypes
<1>2. next \in Words /\ Leads(next, After(Last(p))) /\ Linked(mem, c, next)
  BY <1>1, StaticExits
<1>3. CASE ~EndsBlock(i)
  <2>1. Exits(p, ents) = <<next>>
    BY <1>3 DEF Exits, Last
  <2>2. i.op \notin {"b", "bl", "return", "jump"}
    BY <1>3 DEF EndsBlock
  <2> HIDE DEF next
  <2> QED
    BY <1>2, <1>3, <2>1, <2>2 DEF Leads
<1>4. CASE EndsBlock(i)
  <2>1. Exits(p, ents) = IF i.cond THEN <<taken, next>> ELSE <<taken>>
    BY <1>4 DEF Exits, Last
  <2>2. /\ taken \in Words /\ Linked(mem, c, taken)
        /\ i.op \in {"b", "bl"} => Leads(taken, i.to)
        /\ i.op \in {"return", "jump"} => Leaves(taken)
    BY <1>1, <1>4, StaticExits, DynamicExits DEF EndsBlock
  <2>3. taken.op \in {"go", "link", "jump", "ret", "ic"}
    BY <1>4, <2>2 DEF EndsBlock, Leads, Leaves
  <2> HIDE DEF next, taken
  <2> QED
    BY <1>1, <1>2, <1>4, <2>1, <2>2, <2>3 DEF Leads
<1> QED
  BY <1>3, <1>4

LEMMA Spins ==
  ASSUME aram \in [Slots -> Instr], NEW p \in Pc, NEW k \in 1 .. Length(p),
         \A s \in Slots : aram[s] \in seen[s],
         Translated(p, k).idle
  PROVE  SpinsOnly(aram[Slot(PcAt(p, k - 1))], PcAt(p, k - 1), seen)
<1> DEFINE q == PcAt(p, k - 1)
           i == aram[Slot(q)]
<1>1. i.op = "b" /\ Safe(p) /\ p <= i.to /\ i.to <= q
  BY DEF Translated, Insn
<1>2. q \in Pc /\ i \in Instr /\ i.to \in Pc /\ Length(p) \in 1 .. MaxInsns
  BY BlockPcs, LengthType, Instructions
<1>3. q = p + k - 1
  BY <1>1, <1>2, Sizes DEF PcAt, Pc
<1>4. ASSUME NEW r \in i.to .. q, r # q
      PROVE  \E j \in seen[Slot(r)] : j.op = "alu"
  <2> DEFINE n == r - p + 1
  <2>1. n \in 1 .. Length(p) - 1 /\ n \in 1 .. Length(p) /\ r \in Pc
    BY <1>1, <1>2, <1>3, <1>4, Sizes DEF Pc
  <2>2. PcAt(p, n - 1) = r
    BY <2>1, <1>2, Sizes DEF PcAt, Pc
  <2>3. ~EndsBlock(aram[Slot(r)]) /\ aram[Slot(r)] \in Instr
    BY <2>1, <2>2, LengthType, BlockPcs
  <2>4. aram[Slot(r)].op # "write"
    BY <1>1, <2>1, <2>2 DEF Safe
  <2>5. aram[Slot(r)].op = "alu"
    BY <2>3, <2>4, Instructions DEF EndsBlock
  <2> QED
    BY <2>1, <2>5, SlotType
<1> QED
  BY <1>1, <1>4 DEF SpinsOnly

LEMMA Emission ==
  ASSUME level \in 1 .. 3, mem \in [Address -> Words], aram \in [Slots -> Instr],
         \A s \in Slots : aram[s] \in seen[s],
         NEW p \in Pc, NEW at \in Nat, at + Reserve <= CodeWords, NEW ents,
         AllWhole(mem, at, seen), Known(mem, at, ents)
  PROVE  LET m == Emitted(p, at, ents)
             c == at + Size(p, ents)
         IN /\ m \in [Address -> Words]
            /\ c \in at + 3 .. CodeWords
            /\ m[at] = Entry(p) /\ m[at + 1].op = "insn" /\ m[at + 1].pc = p
            /\ \A a \in Address : a < at => m[a] = mem[a]
            /\ AllWhole(m, c, seen)
<1> DEFINE L == Length(p)
           E == Exits(p, ents)
           c == at + Size(p, ents)
           i == aram[Slot(Last(p))]
<1>1. L \in 1 .. MaxInsns /\ Len(E) \in 1 .. 2 /\ c = at + 1 + L + Len(E)
  BY LengthType, ExitWords DEF Size
<1> HIDE DEF L, E, c
<1>2. /\ c \in at + 3 .. CodeWords /\ at \in Address /\ L \in Nat \ {0}
      /\ Len(E) \in Nat \ {0} /\ CodeWords \in Nat
  <2>1. /\ MaxInsns \in Nat /\ Reserve \in Nat /\ CodeWords \in Nat
        /\ MaxInsns + 3 <= Reserve /\ at + Reserve <= CodeWords
    BY Sizes
  <2>2. L \in Nat \ {0} /\ L <= MaxInsns /\ Len(E) \in {1, 2}
    BY <1>1, <2>1
  <2>3. at \in Address
    BY <2>1 DEF Address
  <2>4. c >= at + 3 /\ c <= CodeWords /\ c \in Int
    <3>1. CASE Len(E) = 1
      BY <1>1, <2>1, <2>2, <3>1
    <3>2. CASE Len(E) = 2
      BY <1>1, <2>1, <2>2, <3>2
    <3> QED
      BY <2>2, <3>1, <3>2
  <2> QED
    BY <2>1, <2>2, <2>3, <2>4
<1> DEFINE m == [a \in Address |->
             IF a >= c THEN Dead ELSE IF a = at THEN Entry(p)
             ELSE IF a \in at + 1 .. at + L THEN Translated(p, a - at)
             ELSE IF a > at THEN E[a - at - L] ELSE mem[a]]
<1>3. \A a \in Address : a < at => m[a] = mem[a]
  BY <1>1, <1>2 DEF Address
<1>4. m[at] = Entry(p)
  BY <1>1, <1>2
<1>5. \A k \in 1 .. L : at + k \in Address /\ m[at + k] = Translated(p, k)
  <2> TAKE k \in 1 .. L
  <2>1. at + k \in Address /\ at + k - at = k
    BY <1>1, <1>2 DEF Address
  <2>2. at + k \in at + 1 .. at + L /\ ~(at + k >= c) /\ at + k # at
    BY <1>1, <1>2
  <2> QED
    BY <2>1, <2>2
<1>6. \A n \in 1 .. Len(E) : at + L + n \in Address /\ m[at + L + n] = E[n]
  <2> TAKE n \in 1 .. Len(E)
  <2>1. at + L + n \in Address /\ (at + L + n) - at - L = n
    BY <1>1, <1>2 DEF Address
  <2>2. /\ at + L + n \notin at + 1 .. at + L /\ ~(at + L + n >= c)
        /\ at + L + n # at /\ at + L + n > at
    BY <1>1, <1>2
  <2> QED
    BY <2>1, <2>2
<1>7. \A a \in Address : a >= c => m[a] = Dead
  BY <1>2 DEF Address
<1>8. ASSUME NEW k \in 1 .. L
      PROVE  /\ Translated(p, k) \in Words
             /\ Translated(p, k).op = "insn" /\ Translated(p, k).pc = PcAt(p, k - 1)
             /\ Translated(p, k).insn = aram[Slot(PcAt(p, k - 1))]
  <2> DEFINE q == PcAt(p, k - 1)
             spin == aram[Slot(q)].op = "b" /\ Safe(p) /\ p <= aram[Slot(q)].to /\ aram[Slot(q)].to <= q
  <2>1. q \in Pc /\ aram[Slot(q)] \in Instr
    BY BlockPcs DEF L
  <2>2. Translated(p, k) = Insn(q, aram[Slot(q)], spin) /\ spin \in BOOLEAN
    BY DEF Translated
  <2>3. Insn(q, aram[Slot(q)], spin) \in Words
    <3> HIDE DEF q, spin
    <3> QED
      BY <2>1, <2>2, MadeWords, Sizes
  <2> QED
    BY <2>2, <2>3 DEF Insn
<1>9. \A a \in Address : \/ a < at \/ a = at \/ \E k \in 1 .. L : a = at + k
                         \/ \E n \in 1 .. Len(E) : a = at + L + n
                         \/ a >= c
  <2> TAKE a \in Address
  <2>1. CASE a \in at + 1 .. at + L
    <3>1. a - at \in 1 .. L /\ a = at + (a - at)
      BY <2>1, <1>2, <1>1 DEF Address
    <3> QED
      BY <3>1
  <2>2. CASE a \in at + L + 1 .. c - 1
    <3>1. a - at - L \in 1 .. Len(E) /\ a = at + L + (a - at - L)
      BY <2>2, <1>2, <1>1 DEF Address
    <3> QED
      BY <3>1
  <2> QED
    BY <2>1, <2>2, <1>1, <1>2 DEF Address
<1> HIDE DEF m
<1>10. m \in [Address -> Words]
  <2>1. \A a \in Address : m[a] \in Words
    <3> TAKE a \in Address
    <3>1. CASE a < at
      BY <3>1, <1>3
    <3>2. CASE a = at
      BY <3>2, <1>4, <1>2, MadeWords DEF Words
    <3>3. CASE \E k \in 1 .. L : a = at + k
      BY <3>3, <1>5, <1>8
    <3>4. CASE \E n \in 1 .. Len(E) : a = at + L + n
      BY <3>4, <1>6, ExitWords DEF E
    <3>5. CASE a >= c
      BY <3>5, <1>7 DEF Words
    <3> QED
      BY <3>1, <3>2, <3>3, <3>4, <3>5, <1>9
  <2>2. m = [a \in Address |-> m[a]]
    BY DEF m
  <2> QED
    BY <2>1, <2>2
<1>11. m[at + 1].op = "insn" /\ m[at + 1].pc = p
  BY <1>1, <1>5, <1>8, PcTypes, Sizes
<1>12. ASSUME NEW w, Linked(mem, at, w), w \in Words
       PROVE  Linked(m, c, w)
  <2>1. w.op = "jump" \/ (w.op = "ic" /\ Cached(w)) => w.at \in Address
    BY <1>12, Faces DEF Cached
  <2>2. \A a \in Address : a < at => a < c
    BY <1>2 DEF Address
  <2> QED
    BY <2>1, <2>2, <1>3, <1>12 DEF Linked
<1>13. ASSUME NEW a \in Address, a < at
       PROVE  Whole(m, c, seen, a)
  <2>1. Whole(mem, at, seen, a) /\ m[a] = mem[a] /\ mem[a] \in Words
    BY <1>3, <1>13 DEF AllWhole
  <2>2. a + 1 < at => a + 1 \in Address /\ m[a + 1] = mem[a + 1] /\ a + 1 < c
    <3> HAVE a + 1 < at
    <3>1. a + 1 \in Address /\ a + 1 < c
      BY <1>2 DEF Address
    <3> QED
      BY <3>1, <1>3
  <2>3. a + 2 < at => a + 2 \in Address /\ m[a + 2] = mem[a + 2] /\ a + 2 < c
    <3> HAVE a + 2 < at
    <3>1. a + 2 \in Address /\ a + 2 < c
      BY <1>2 DEF Address
    <3> QED
      BY <3>1, <1>3
  <2>4. WholeEntry(m, c, a)
    BY <2>1, <2>2 DEF Whole, WholeEntry
  <2>5. WholeInsn(m, c, seen, a)
    BY <2>1, <2>2, <2>3 DEF Whole, WholeInsn
  <2>6. Linked(m, c, m[a])
    BY <2>1, <1>12 DEF Whole
  <2> QED
    BY <2>1, <2>4, <2>5, <2>6 DEF Whole
<1>14. Whole(m, c, seen, at)
  BY <1>2, <1>4, <1>11 DEF Whole, WholeEntry, WholeInsn, Linked, Entry
<1>15. ASSUME NEW k \in 1 .. L
       PROVE  Whole(m, c, seen, at + k)
  <2> DEFINE a == at + k
             q == PcAt(p, k - 1)
             j == aram[Slot(q)]
  <2>1. /\ m[a].op = "insn" /\ m[a].pc = q /\ m[a].insn = j
        /\ q \in Pc /\ j \in Instr
    BY <1>5, <1>8, BlockPcs DEF L
  <2>2. j \in seen[Slot(q)]
    BY <2>1, SlotType
  <2>3. m[a].idle => SpinsOnly(j, q, seen)
    BY <1>5, Spins DEF L
  <2>4. CASE k < L
    <3>1. k \in 1 .. L - 1 /\ k + 1 \in 1 .. L /\ (k + 1) - 1 = k /\ a + 1 = at + (k + 1)
      BY <2>4, <1>1, <1>2
    <3>2. ~EndsBlock(j)
      BY <3>1, LengthType DEF L
    <3>3. m[a + 1].op = "insn" /\ m[a + 1].pc = After(q)
      BY <3>1, <1>5, <1>8, BlockPcs DEF L
    <3>4. a + 1 < c
      BY <3>1, <1>1, <1>2
    <3>5. j.op \notin {"b", "bl", "return", "jump"}
      BY <3>2 DEF EndsBlock
    <3> HIDE DEF q, j
    <3> QED
      BY <2>1, <2>2, <2>3, <3>2, <3>3, <3>4, <3>5
      DEF Whole, WholeEntry, WholeInsn, Linked, Continues
  <2>5. CASE k = L
    <3>1. q = Last(p) /\ j = i
      BY <2>5 DEF Last, L
    <3>2. /\ a + 1 = at + L + 1 /\ 1 \in 1 .. Len(E) /\ m[a + 1] = E[1] /\ a + 1 < c
      BY <2>5, <1>1, <1>2, <1>6
    <3>3. Len(E) = 2 => m[a + 2] = E[2] /\ a + 2 < c
      <4> HAVE Len(E) = 2
      <4>1. a + 2 = at + L + 2 /\ 2 \in 1 .. Len(E) /\ a + 2 < c
        BY <2>5, <1>1, <1>2
      <4> QED
        BY <4>1, <1>6
    <3>4. /\ ~EndsBlock(i) => Leads(E[1], After(q))
          /\ i.op \in {"b", "bl"} => Leads(E[1], i.to)
          /\ i.op \in {"return", "jump"} => Leaves(E[1])
          /\ EndsBlock(i) /\ i.cond => Len(E) = 2 /\ Leads(E[2], After(q))
      BY <3>1, ExitWords DEF E
    <3> HIDE DEF q, j, i
    <3> QED
      BY <2>1, <2>2, <2>3, <3>1, <3>2, <3>3, <3>4
      DEF Whole, WholeEntry, WholeInsn, Linked, Continues
  <2> QED
    BY <2>4, <2>5, <1>1
<1>16. ASSUME NEW n \in 1 .. Len(E)
       PROVE  Whole(m, c, seen, at + L + n)
  <2>1. /\ E[n] \in Words /\ E[n].op \in {"go", "link", "jump", "ret", "ic"}
        /\ Linked(mem, at, E[n])
    BY ExitWords DEF E
  <2>2. m[at + L + n] = E[n]
    BY <1>6
  <2>3. Linked(m, c, E[n])
    BY <2>1, <1>12
  <2> QED
    BY <2>1, <2>2, <2>3 DEF Whole, WholeEntry, WholeInsn
<1>17. AllWhole(m, c, seen)
  <2> SUFFICES ASSUME NEW a \in Address, a < c PROVE Whole(m, c, seen, a)
    BY DEF AllWhole
  <2>1. ~(a >= c)
    BY <1>2 DEF Address
  <2> QED
    BY <2>1, <1>9, <1>13, <1>14, <1>15, <1>16
<1>18. m = Emitted(p, at, ents) /\ c = at + Size(p, ents)
  BY DEF m, c, E, L, Emitted
<1> QED
  BY <1>2, <1>3, <1>4, <1>10, <1>11, <1>17, <1>18

-----------------------------------------------------------------------------
(* The table                                                               *)

InRange(ents, d) == \A s \in Slots : ents[s] # NoCode => s \in d.lo .. d.hi

Ranges == [lo : 0 .. AramWords, hi : Slots]

LEMMA Emptied ==
  ASSUME foreign \/ InRange(entries, dirty)
  PROVE  Cleared(entries) = [s \in Slots |-> NoCode]
  BY DEF Cleared, InRange

LEMMA NothingKnown ==
  ASSUME NEW ents, ents = [s \in Slots |-> NoCode], NEW m, NEW c, NEW d
  PROVE  ents \in [Slots -> Address \cup {NoCode}] /\ Known(m, c, ents) /\ InRange(ents, d)
  BY DEF Known, InRange

LEMMA CleanType == Clean \in Ranges
  BY Sizes DEF Clean, Ranges, Slots

LEMMA NotedType ==
  ASSUME NEW d \in Ranges, NEW s \in Slots
  PROVE  /\ Noted(d, s) \in Ranges
         /\ s \in Noted(d, s).lo .. Noted(d, s).hi
         /\ \A r \in d.lo .. d.hi : r \in Noted(d, s).lo .. Noted(d, s).hi
  BY Sizes DEF Noted, Ranges, Slots

\* What a lookup of p leaves: whole code, a table that knows it, and the block
\* of p; unless it flushed, what was there is still there.
Ready(c, p) ==
  /\ c.mem \in [Address -> Words] /\ c.cur \in 0 .. CodeWords
  /\ c.entries \in [Slots -> Address \cup {NoCode}] /\ c.dirty \in Ranges
  /\ AllWhole(c.mem, c.cur, seen) /\ Known(c.mem, c.cur, c.entries) /\ InRange(c.entries, c.dirty)
  /\ c.at \in Address /\ c.at < c.cur /\ c.mem[c.at] = Entry(p)
  /\ c.at + 1 \in Address /\ c.at + 1 < c.cur
  /\ c.mem[c.at + 1].op = "insn" /\ c.mem[c.at + 1].pc = p
  /\ ~c.flushed => cur <= c.cur /\ \A a \in Address : a < cur => c.mem[a] = mem[a]

\* What a lookup needs.
Translating ==
  /\ level \in 1 .. 3 /\ foreign = FALSE
  /\ aram \in [Slots -> Instr] /\ \A s \in Slots : aram[s] \in seen[s]
  /\ mem \in [Address -> Words] /\ cur \in 0 .. CodeWords
  /\ entries \in [Slots -> Address \cup {NoCode}] /\ dirty \in Ranges
  /\ AllWhole(mem, cur, seen) /\ Known(mem, cur, entries) /\ InRange(entries, dirty)

LEMMA CompiledReady ==
  ASSUME Translating, NEW p \in Pc
  PROVE  Ready(Compiled(p), p)
<1> DEFINE at == IF Full THEN 0 ELSE cur
           ents == IF Full THEN Cleared(entries) ELSE entries
           d == IF Full THEN Clean ELSE dirty
           m == Emitted(p, at, ents)
           end == at + Size(p, ents)
           table == [ents EXCEPT ![Slot(p)] = at]
           c == Compiled(p)
<1>1. /\ c.mem = m /\ c.cur = end /\ c.entries = table /\ c.dirty = Noted(d, Slot(p))
      /\ c.at = at /\ c.flushed = Full
  BY DEF Compiled
<1>2. /\ ents \in [Slots -> Address \cup {NoCode}] /\ Known(mem, at, ents)
      /\ InRange(ents, d) /\ d \in Ranges
  BY Emptied, NothingKnown, CleanType DEF Translating
<1>3. at \in Nat /\ at + Reserve <= CodeWords
  <2>1. cur \in 0 .. CodeWords /\ Full \in BOOLEAN
    BY DEF Translating, Full
  <2>2. CASE Full
    BY <2>2, Sizes
  <2>3. CASE ~Full
    BY <2>1, <2>3, Sizes DEF Full
  <2> QED
    BY <2>2, <2>3
<1>4. AllWhole(mem, at, seen)
  BY DEF Translating, AllWhole, Address
<1> HIDE DEF at, ents, d
<1>5. /\ m \in [Address -> Words] /\ end \in at + 3 .. CodeWords
      /\ m[at] = Entry(p) /\ m[at + 1].op = "insn" /\ m[at + 1].pc = p
      /\ \A a \in Address : a < at => m[a] = mem[a]
      /\ AllWhole(m, end, seen)
  BY <1>2, <1>3, <1>4, Emission DEF Translating
<1> HIDE DEF m, end
<1>6. at \in Address /\ at + 1 \in Address /\ at < end /\ at + 1 < end /\ end \in 0 .. CodeWords
  BY <1>3, <1>5, Sizes DEF Address
<1>7. Slot(p) \in Slots /\ table \in [Slots -> Address \cup {NoCode}]
  BY <1>2, <1>6, SlotType
<1>8. Known(m, end, table)
  <2> SUFFICES ASSUME NEW s \in Slots, table[s] # NoCode
               PROVE  /\ table[s] \in Address /\ table[s] < end
                      /\ m[table[s]].op = "entry" /\ Slot(m[table[s]].pc) = s
    BY DEF Known
  <2>1. CASE s = Slot(p)
    BY <2>1, <1>2, <1>5, <1>6 DEF Entry
  <2>2. CASE s # Slot(p)
    <3>1. /\ table[s] = ents[s] /\ ents[s] \in Address /\ ents[s] < at
          /\ mem[ents[s]].op = "entry" /\ Slot(mem[ents[s]].pc) = s
      BY <2>2, <1>2 DEF Known
    <3>2. m[ents[s]] = mem[ents[s]] /\ ents[s] < end
      BY <3>1, <1>5, <1>6 DEF Address
    <3> QED
      BY <3>1, <3>2
  <2> QED
    BY <2>1, <2>2
<1>9. Noted(d, Slot(p)) \in Ranges /\ InRange(table, Noted(d, Slot(p)))
  BY <1>2, <1>7, NotedType DEF InRange
<1>10. ~Full => cur <= end /\ \A a \in Address : a < cur => m[a] = mem[a]
  BY <1>5, <1>6 DEF at, Address, Translating
<1> QED
  BY <1>1, <1>5, <1>6, <1>7, <1>8, <1>9, <1>10 DEF Ready

LEMMA LookupReady ==
  ASSUME Translating, NEW p \in Pc
  PROVE  Ready(Lookup(p), p)
<1>1. CASE Found(p, entries)
  <2> DEFINE a == entries[Slot(p)]
             c == Lookup(p)
  <2>1. /\ c.mem = mem /\ c.cur = cur /\ c.entries = entries /\ c.dirty = dirty
        /\ c.at = a /\ c.flushed = FALSE
    BY <1>1 DEF Lookup
  <2>2. a \in Address /\ mem[a].op = "entry" /\ mem[a].pc = p
    BY <1>1 DEF Found
  <2>3. a < cur /\ mem[a] = Entry(p)
    <3>1. a # NoCode /\ mem[a] \in Words
      BY <2>2 DEF Translating, NoCode, Address
    <3> QED
      BY <2>2, <3>1, SlotType, Faces DEF Translating, Known
  <2>4. WholeEntry(mem, cur, a)
    BY <2>2, <2>3 DEF Translating, AllWhole, Whole
  <2>5. a + 1 < cur /\ mem[a + 1].op = "insn" /\ mem[a + 1].pc = p /\ a + 1 \in Address
    BY <2>2, <2>4, Sizes DEF WholeEntry, Address, Translating
  <2> HIDE DEF a
  <2> QED
    BY <2>1, <2>2, <2>3, <2>5 DEF Ready, Translating
<1>2. CASE ~Found(p, entries)
  BY <1>2, CompiledReady DEF Lookup
<1> QED
  BY <1>1, <1>2

-----------------------------------------------------------------------------
(* The invariant                                                           *)

Engines ==
  /\ foreign = (level = 0) /\ (level = 0 => exec.kind = "idle")
  /\ level # 0 => /\ entries \in [Slots -> Address \cup {NoCode}]
                  /\ AllWhole(mem, cur, seen) /\ Known(mem, cur, entries)
                  /\ InRange(entries, dirty)

Remembered == \A s \in Slots : aram[s] \in seen[s]

Placed ==
  /\ exec.kind = "code" => exec.at < cur
  /\ exec.kind = "cold" => exec.at < cur /\ Continues(mem[exec.at], exec.pc)

IInv == TypeOK /\ Engines /\ Remembered /\ Placed

Alike(w, v) ==
  \/ v = w
  \/ w.op \in {"go", "link", "jump"} /\ Leads(v, w.pc)
  \/ Leaves(w) /\ Leaves(v)

\* An exit patched to an entry leaves the code whole.
LEMMA Patched ==
  ASSUME NEW m \in [Address -> Words], NEW m2 \in [Address -> Words], NEW c \in 0 .. CodeWords,
         NEW sn, AllWhole(m, c, sn),
         \A a \in Address : a < c => Alike(m[a], m2[a]) /\ Linked(m, c, m2[a])
  PROVE  /\ AllWhole(m2, c, sn)
         /\ \A a \in Address : a < c /\ m[a].op \in {"entry", "insn"} => m2[a] = m[a]
         /\ \A ents : Known(m, c, ents) => Known(m2, c, ents)
<1>1. \A a \in Address : a < c /\ m[a].op \in {"entry", "insn"} => m2[a] = m[a]
  BY DEF Alike, Leaves
<1>2. ASSUME NEW a \in Address, a < c
      PROVE  Whole(m2, c, sn, a)
  <2>1. Whole(m, c, sn, a) /\ Alike(m[a], m2[a]) /\ Linked(m, c, m2[a])
    BY <1>2 DEF AllWhole
  <2>2. a + 1 < c => a + 1 \in Address /\ Alike(m[a + 1], m2[a + 1])
    BY Sizes DEF Address
  <2>3. a + 2 < c => a + 2 \in Address /\ Alike(m[a + 2], m2[a + 2])
    BY Sizes DEF Address
  <2>4. Linked(m2, c, m2[a])
    <3> SUFFICES ASSUME m2[a].op = "jump" \/ (m2[a].op = "ic" /\ Cached(m2[a]))
                 PROVE  m2[a].at < c /\ m2[m2[a].at] = Entry(m2[a].pc)
      BY DEF Linked
    <3>1. m2[a].at \in Address
      BY Faces DEF Cached
    <3>2. m2[a].at < c /\ m[m2[a].at] = Entry(m2[a].pc)
      BY <2>1 DEF Linked
    <3> QED
      BY <1>1, <3>1, <3>2 DEF Entry
  <2>5. m2[a].op = "entry" => m2[a] = m[a] /\ m[a].op = "entry"
    BY <2>1 DEF Alike, Leads, Leaves
  <2>6. m2[a].op = "insn" => m2[a] = m[a] /\ m[a].op = "insn"
    BY <2>1 DEF Alike, Leads, Leaves
  <2>7. WholeEntry(m2, c, a)
    BY <2>1, <2>2, <2>5, <1>1 DEF Whole, WholeEntry
  <2>8. WholeInsn(m2, c, sn, a)
    <3> SUFFICES ASSUME m2[a].op = "insn"
                 PROVE  WholeInsn(m2, c, sn, a)
      BY DEF WholeInsn
    <3>1. m2[a] = m[a] /\ WholeInsn(m, c, sn, a) /\ m[a].op = "insn"
      BY <2>1, <2>6 DEF Whole
    <3>2. ASSUME NEW w, NEW v, Alike(w, v), NEW p
          PROVE  /\ Leads(w, p) => Leads(v, p)
                 /\ Continues(w, p) => Continues(v, p)
                 /\ Leaves(w) => Leaves(v)
      BY <3>2 DEF Alike, Leads, Leaves, Continues
    <3>3. a + 1 < c
      BY <3>1 DEF WholeInsn
    <3>4. Alike(m[a + 1], m2[a + 1])
      BY <3>3, <2>2
    <3> QED
      BY <3>1, <3>2, <3>4, <2>3 DEF WholeInsn
  <2>9. m2[a].op # "dead"
    BY <2>1 DEF Alike, Leads, Leaves, Whole
  <2> QED
    BY <2>4, <2>7, <2>8, <2>9 DEF Whole
<1>3. \A ents : Known(m, c, ents) => Known(m2, c, ents)
  BY <1>1 DEF Known
<1> QED
  BY <1>1, <1>2, <1>3 DEF AllWhole

-----------------------------------------------------------------------------
(* Between two slices                                                      *)

LEMMA Grown ==
  ASSUME NEW m, NEW c, NEW sn, NEW sn2, AllWhole(m, c, sn),
         \A a \in Address : m[a].op = "insn" => m[a].pc \in Pc /\ m[a].insn.to \in Pc,
         \A s \in Slots : sn[s] \subseteq sn2[s]
  PROVE  AllWhole(m, c, sn2)
<1> SUFFICES ASSUME NEW a \in Address, a < c PROVE Whole(m, c, sn2, a)
  BY DEF AllWhole
<1>1. Whole(m, c, sn, a)
  BY DEF AllWhole
<1>2. WholeInsn(m, c, sn2, a)
  <2> SUFFICES ASSUME m[a].op = "insn" PROVE WholeInsn(m, c, sn2, a)
    BY DEF WholeInsn
  <2>1. WholeInsn(m, c, sn, a) /\ m[a].pc \in Pc /\ m[a].insn.to \in Pc
    BY <1>1 DEF Whole
  <2>2. m[a].insn \in sn2[Slot(m[a].pc)]
    BY <2>1, SlotType DEF WholeInsn
  <2>3. m[a].idle => SpinsOnly(m[a].insn, m[a].pc, sn2)
    <3> SUFFICES ASSUME SpinsOnly(m[a].insn, m[a].pc, sn)
                 PROVE  SpinsOnly(m[a].insn, m[a].pc, sn2)
      BY <2>1 DEF WholeInsn, SpinsOnly
    <3>1. \A q \in m[a].insn.to .. m[a].pc : q \in Pc
      BY <2>1, Sizes DEF Pc
    <3> QED
      BY <3>1, SlotType DEF SpinsOnly
  <2> QED
    BY <2>1, <2>2, <2>3 DEF WholeInsn
<1> QED
  BY <1>1, <1>2 DEF Whole

LEMMA InsnPcs ==
  ASSUME TypeOK
  PROVE  \A a \in Address : mem[a].op = "insn" =>
           mem[a].pc \in Pc /\ mem[a].insn \in Instr /\ mem[a].insn.to \in Pc
  BY Faces, Instructions DEF TypeOK

LEMMA Rest ==
  /\ exec.kind = "idle" => Phase = "idle" /\ GuestPc = exec.pc
  /\ exec'.kind = "idle" => Phase' = "idle" /\ GuestPc' = exec'.pc
  BY DEF Phase, GuestPc

\* Memory grows only in its history; the code stays.
LEMMA Stored ==
  ASSUME IInv, NEW s \in Slots, NEW i \in Instr, Store(s, i), UNCHANGED code
  PROVE  /\ aram' \in [Slots -> Instr] /\ seen' \in [Slots -> SUBSET Instr]
         /\ seen' = [seen EXCEPT ![s] = @ \cup {i}]
         /\ Remembered'
         /\ level # 0 => AllWhole(mem', cur', seen')
<1>1. /\ aram' \in [Slots -> Instr] /\ seen' \in [Slots -> SUBSET Instr]
      /\ seen' = [seen EXCEPT ![s] = @ \cup {i}]
      /\ \A r \in Slots : seen[r] \subseteq seen'[r]
  BY DEF IInv, TypeOK, Store
<1>2. Remembered'
  BY DEF IInv, TypeOK, Store, Remembered
<1>3. level # 0 => AllWhole(mem', cur', seen')
  BY <1>1, InsnPcs, Grown DEF IInv, Engines, code
<1> QED
  BY <1>1, <1>2, <1>3

LEMMA UploadStep ==
  ASSUME IInv, NEW s \in Slots, NEW i \in Instr, Upload(s, i)
  PROVE  IInv' /\ Arm!Load(s, i)
<1>1. /\ aram' \in [Slots -> Instr] /\ seen' \in [Slots -> SUBSET Instr]
      /\ seen' = [seen EXCEPT ![s] = @ \cup {i}]
      /\ Remembered'
      /\ level # 0 => AllWhole(mem', cur', seen')
  BY Stored DEF Upload
<1>2. IInv'
  BY <1>1 DEF IInv, TypeOK, Engines, Placed, Upload, AtRest, code, Known, InRange
<1>3. Arm!Load(s, i)
  BY <1>1, Rest DEF Upload, AtRest, Arm!Load, Arm!Remember
<1> QED
  BY <1>2, <1>3

LEMMA SetPinStep ==
  ASSUME IInv, NEW b \in BOOLEAN, SetPin(b)
  PROVE  IInv' /\ Arm!SetPin
<1>1. IInv'
  BY DEF IInv, TypeOK, Engines, Remembered, Placed, SetPin, AtRest, code
<1>2. Arm!SetPin
  BY Rest DEF SetPin, AtRest, Arm!SetPin
<1> QED
  BY <1>1, <1>2

LEMMA HaltStep ==
  ASSUME IInv, Halt
  PROVE  IInv' /\ Arm!Halt
<1>1. IInv'
  BY DEF IInv, TypeOK, Engines, Remembered, Placed, Halt, AtRest, code
<1>2. Arm!Halt
  BY Rest DEF Halt, AtRest, Arm!Halt
<1> QED
  BY <1>1, <1>2

LEMMA ResetStep ==
  ASSUME IInv, NEW b \in BOOLEAN, NEW preset \in Presets, Reset(b, preset)
  PROVE  IInv' /\ Arm!Reset
<1>1. /\ level' = preset /\ preset \in 0 .. 3 /\ exec' = Idle(0) /\ exec.kind = "idle"
      /\ enabled' \in BOOLEAN /\ fiq' = FALSE /\ pin' \in {pin, FALSE}
      /\ aram' = aram /\ budget' = budget /\ seen' = [s \in Slots |-> {aram[s]}]
  BY SizesAssumption DEF Reset, LatchEngine, AtRest
<1>2. exec' \in [kind : {"idle", "dispatch", "code", "cold"}, at : Address, pc : Pc]
  BY <1>1, Sizes DEF Idle
<1>3. seen' \in [Slots -> SUBSET Instr] /\ Remembered'
  BY <1>1 DEF IInv, TypeOK, Remembered
<1>4. Arm!Reset
  <2>1. /\ Phase = "idle" /\ Phase' = "idle" /\ GuestPc' = 0
    BY <1>1, Rest DEF Idle
  <2>2. (level' > 0) \in BOOLEAN
    OBVIOUS
  <2>3. \E program \in [Slots -> Instr] :
          /\ \A s \in Slots : program[s] \in seen[s]
          /\ seen' = [s \in Slots |-> {program[s]}]
    BY <1>1 DEF IInv, TypeOK, Remembered
  <2> QED
    BY <1>1, <2>1, <2>2, <2>3 DEF Arm!Reset, Arm!Slots, Slots
<1>5. CASE preset = 0
  <2>0. exec'.kind = "idle"
    BY <1>1 DEF Idle
  <2>1. UNCHANGED code /\ foreign' = TRUE
    BY <1>5 DEF Reset, LatchEngine
  <2> QED
    <3>1. TypeOK'
      BY <1>1, <1>2, <1>3, <2>1 DEF IInv, TypeOK, code
    <3>2. Engines'
      BY <1>1, <1>5, <2>1, <2>0 DEF Engines
    <3>3. Placed'
      BY <2>0 DEF Placed
    <3> QED
      BY <1>3, <1>4, <3>1, <3>2, <3>3 DEF IInv
<1>6. CASE preset # 0
  <2>1. /\ entries' = Cleared(entries) /\ foreign' = FALSE
        /\ dirty' = Clean /\ cur' = 0 /\ mem' = NothingLive
    BY <1>6 DEF Reset, LatchEngine
  <2>2. entries' = [s \in Slots |-> NoCode]
    BY <2>1, Emptied DEF IInv, Engines
  <2>3. /\ entries' \in [Slots -> Address \cup {NoCode}]
        /\ Known(mem', cur', entries') /\ InRange(entries', dirty')
    BY <2>2, NothingKnown
  <2>4. AllWhole(mem', cur', seen')
    BY <2>1 DEF AllWhole, Address
  <2>5. Engines'
    BY <1>1, <1>6, <2>1, <2>3, <2>4 DEF Engines, Idle
  <2>6. mem' \in [Address -> Words] /\ cur' \in 0 .. CodeWords
    BY <2>1, Sizes DEF NothingLive, Words
  <2>7. dirty' \in [lo : 0 .. AramWords, hi : Slots]
    BY <2>1, CleanType DEF Ranges
  <2>8. TypeOK'
    BY <1>1, <1>2, <1>3, <2>1, <2>3, <2>6, <2>7 DEF IInv, TypeOK
  <2> QED
    <3>1. exec'.kind = "idle"
      BY <1>1 DEF Idle
    <3>2. Placed'
      BY <3>1 DEF Placed
    <3> QED
      BY <1>3, <1>4, <2>5, <2>8, <3>2 DEF IInv
<1> QED
  BY <1>5, <1>6

LEMMA RunCachedStep ==
  ASSUME IInv, NEW p \in Targets, RunCached(p)
  PROVE  IInv' /\ Arm!Interpret
<1>1. /\ level = 0 /\ enabled /\ exec.kind = "idle" /\ exec' = Idle(p)
      /\ mem' = NothingLive /\ entries' = [s \in Slots |-> Foreign]
      /\ UNCHANGED <<enabled, level, aram, budget, cur, dirty, foreign, seen>>
      /\ fiq' \in BOOLEAN /\ pin' \in BOOLEAN
  BY DEF RunCached, AtRest
<1>2. p \in Pc /\ exec'.kind = "idle" /\ exec'.pc = p
  BY <1>1, Sizes DEF Idle
<1>3. exec' \in [kind : {"idle", "dispatch", "code", "cold"}, at : Address, pc : Pc]
  BY <1>1, <1>2, Sizes DEF Idle
<1>4. mem' \in [Address -> Words] /\ entries' \in [Slots -> Address \cup {NoCode, Foreign}]
  BY <1>1 DEF NothingLive, Words
<1>5. TypeOK'
  BY <1>1, <1>3, <1>4 DEF IInv, TypeOK
<1>6. Engines' /\ Remembered' /\ Placed'
  BY <1>1, <1>2 DEF IInv, Engines, Remembered, Placed
<1>7. Arm!Interpret
  BY <1>1, <1>2, Rest DEF Arm!Interpret, Arm!Pc, Pc
<1> QED
  BY <1>5, <1>6, <1>7 DEF IInv

LEMMA Boundary ==
  /\ exec.kind = "dispatch" => Phase = "boundary" /\ GuestPc = exec.pc
  /\ exec'.kind = "dispatch" => Phase' = "boundary" /\ GuestPc' = exec'.pc
  BY DEF Phase, GuestPc, Runs

LEMMA RunStep ==
  ASSUME IInv, NEW n \in Slices, Run(n)
  PROVE  IInv' /\ Arm!Run(n)
<1>1. /\ level > 0 /\ enabled /\ exec.kind = "idle" /\ exec' = Dispatching(exec.pc)
      /\ budget' = n /\ mem' = [a \in Address |-> Older(mem[a])]
      /\ UNCHANGED <<enabled, level, aram, fiq, pin, cur, entries, dirty, foreign, seen>>
  BY DEF Run, AtRest
<1>2. /\ exec' \in [kind : {"idle", "dispatch", "code", "cold"}, at : Address, pc : Pc]
      /\ exec'.kind = "dispatch" /\ exec'.pc = exec.pc
  BY <1>1, Sizes DEF Dispatching, IInv, TypeOK
<1>3. ASSUME NEW w \in Words
      PROVE  /\ Older(w) \in Words /\ Alike(w, Older(w))
             /\ \A m, c : Linked(m, c, w) => Linked(m, c, Older(w))
  <2>1. CASE w.op = "ic" /\ w.age < DemoteAge
    <3>1. /\ w.pc \in Pc /\ w.at \in Address \cup {NoCode} /\ w.left \in 0 .. Reprobe
          /\ w.age + 1 \in 0 .. DemoteAge
      BY <2>1, Faces, SizesAssumption
    <3>2. Older(w) = Ic(w.pc, w.at, w.left, w.age + 1)
      BY <2>1 DEF Older
    <3>3. Older(w) \in Words
      BY <3>1, <3>2, MadeCaches
    <3> QED
      BY <2>1, <3>2, <3>3 DEF Ic, Alike, Leaves, Linked, Cached
  <2>2. CASE ~(w.op = "ic" /\ w.age < DemoteAge)
    BY <2>2 DEF Older, Alike
  <2> QED
    BY <2>1, <2>2
<1>4. mem' \in [Address -> Words]
  BY <1>1, <1>3 DEF IInv, TypeOK
<1>5. level \in 1 .. 3 /\ cur \in 0 .. CodeWords
  BY <1>1 DEF IInv, TypeOK
<1>6. \A a \in Address : a < cur => Alike(mem[a], mem'[a]) /\ Linked(mem, cur, mem'[a])
  BY <1>1, <1>3, <1>5 DEF IInv, TypeOK, Engines, AllWhole, Whole
<1>7. AllWhole(mem', cur, seen) /\ Known(mem', cur, entries)
  BY <1>4, <1>5, <1>6, Patched DEF IInv, TypeOK, Engines
<1>8. TypeOK'
  <2>1. budget' \in Int
    BY <1>1, MemoryAssumption
  <2> QED
    BY <1>1, <1>2, <1>4, <2>1 DEF IInv, TypeOK
<1>9. Engines' /\ Remembered' /\ Placed'
  BY <1>1, <1>2, <1>5, <1>7 DEF IInv, Engines, Remembered, Placed
<1>10. Arm!Run(n)
  BY <1>1, <1>2, Rest, Boundary DEF Arm!Run
<1> QED
  BY <1>8, <1>9, <1>10 DEF IInv

-----------------------------------------------------------------------------
(* A slice                                                                 *)

Execs == [kind : {"idle", "dispatch", "code", "cold"}, at : Address, pc : Pc]

LEMMA Slice ==
  ASSUME IInv, exec.kind # "idle"
  PROVE  Translating /\ level # 0 /\ level > 0
<1>1. level # 0
  BY DEF IInv, Engines
<1>2. level \in 1 .. 3 /\ level > 0
  BY <1>1 DEF IInv, TypeOK
<1>3. foreign = FALSE
  <2>1. foreign = (level = 0)
    BY DEF IInv, Engines
  <2> QED
    BY <1>1, <2>1
<1>4. /\ entries \in [Slots -> Address \cup {NoCode}]
      /\ AllWhole(mem, cur, seen) /\ Known(mem, cur, entries) /\ InRange(entries, dirty)
  BY <1>1 DEF IInv, Engines
<1>5. /\ aram \in [Slots -> Instr] /\ \A s \in Slots : aram[s] \in seen[s]
      /\ mem \in [Address -> Words] /\ cur \in 0 .. CodeWords /\ dirty \in Ranges
  BY DEF IInv, TypeOK, Remembered, Ranges
<1> QED
  BY <1>1, <1>2, <1>3, <1>4, <1>5 DEF Translating

LEMMA Moved ==
  ASSUME IInv, exec.kind # "idle", UNCHANGED <<Machine, code>>,
         aram' \in [Slots -> Instr], seen' \in [Slots -> SUBSET Instr], Remembered',
         fiq' \in BOOLEAN, pin' \in BOOLEAN, budget' \in Int,
         AllWhole(mem', cur', seen'), exec' \in Execs, Placed'
  PROVE  IInv'
<1>1. TypeOK'
  BY DEF IInv, TypeOK, Machine, code, Execs
<1>2. Engines'
  BY Slice DEF IInv, Engines, Machine, code, Known, InRange
<1> QED
  BY <1>1, <1>2 DEF IInv

\* Most steps of a slice change what runs and no more.
LEMMA Went ==
  ASSUME IInv, exec.kind # "idle", UNCHANGED <<Machine, code, aram, pin, budget, seen>>,
         fiq' \in BOOLEAN, exec' \in Execs,
         exec'.kind = "code" => exec'.at < cur, exec'.kind # "cold"
  PROVE  IInv'
<1>1. /\ aram' \in [Slots -> Instr] /\ seen' \in [Slots -> SUBSET Instr] /\ Remembered'
      /\ pin' \in BOOLEAN /\ budget' \in Int
  BY DEF IInv, TypeOK, Remembered
<1>2. AllWhole(mem', cur', seen')
  BY Slice DEF IInv, Engines, code
<1>3. Placed'
  BY DEF Placed, code
<1> QED
  BY <1>1, <1>2, <1>3, Moved

LEMMA OnCode ==
  /\ exec.kind = "code" =>
       /\ Phase = IF mem[exec.at].op = "insn" THEN "inside" ELSE "boundary"
       /\ GuestPc = IF mem[exec.at].op \in {"entry", "insn", "go", "link", "jump"}
                    THEN mem[exec.at].pc ELSE exec.pc
  /\ exec'.kind = "code" =>
       /\ Phase' = IF mem'[exec'.at].op = "insn" THEN "inside" ELSE "boundary"
       /\ GuestPc' = IF mem'[exec'.at].op \in {"entry", "insn", "go", "link", "jump"}
                     THEN mem'[exec'.at].pc ELSE exec'.pc
  BY DEF Phase, GuestPc, Runs

LEMMA Ran ==
  ASSUME IInv, exec.kind # "idle", NEW p \in Pc, NEW c, Ready(c, p),
         NEW m \in [Address -> Words], AllWhole(m, c.cur, seen), Known(m, c.cur, c.entries),
         m[c.at + 1].op = "insn", m[c.at + 1].pc = p,
         RunIn(c, m, p), UNCHANGED <<Machine, aram, pin, budget, seen>>, fiq' \in BOOLEAN
  PROVE  IInv' /\ Phase' = "inside" /\ GuestPc' = p
<1>1. /\ mem' = m /\ cur' = c.cur /\ entries' = c.entries /\ dirty' = c.dirty
      /\ exec' = At(c.at + 1, p)
  BY DEF RunIn
<1>2. exec' \in Execs /\ exec'.kind = "code" /\ exec'.at = c.at + 1 /\ exec'.at < cur'
  BY <1>1 DEF Ready, At, Execs
<1>3. TypeOK'
  BY <1>1, <1>2 DEF IInv, TypeOK, Execs, Ready, Machine, Ranges
<1>4. Engines'
  BY <1>1, <1>2, Slice DEF IInv, Engines, Ready, Machine
<1>5. Remembered' /\ Placed'
  BY <1>2 DEF IInv, Remembered, Placed
<1>6. Phase' = "inside" /\ GuestPc' = p
  BY <1>1, <1>2, OnCode
<1> QED
  BY <1>3, <1>4, <1>5, <1>6 DEF IInv

LEMMA DispatchStep ==
  ASSUME IInv, Dispatch
  PROVE  IInv' /\ Arm!Dispatch
<1> DEFINE p == IF Pending THEN FiqVector ELSE exec.pc
           c == Lookup(p)
<1>1. /\ exec.kind = "dispatch" /\ fiq' = (fiq /\ ~pin)
      /\ IF budget <= 0 THEN Goto(Idle(p)) ELSE RunIn(c, c.mem, p)
      /\ UNCHANGED <<Machine, aram, pin, budget, seen>>
  BY DEF Dispatch
<1>2. p \in Pc /\ p = (IF fiq /\ pin THEN FiqVector ELSE exec.pc) /\ fiq' \in BOOLEAN
  BY <1>1, Sizes DEF Pending, IInv, TypeOK
<1>3. Ready(c, p)
  BY <1>1, <1>2, Slice, LookupReady
<1> HIDE DEF p, c
<1>4. CASE budget <= 0
  <2>1. exec' = Idle(p) /\ UNCHANGED code
    BY <1>1, <1>4 DEF Goto
  <2>2. exec' \in Execs /\ exec'.kind = "idle" /\ exec'.pc = p
    BY <2>1, <1>2, Sizes DEF Execs, Idle
  <2>3. IInv'
    BY <1>1, <1>2, <2>1, <2>2, Went
  <2>4. Arm!Dispatch
    BY <1>1, <1>2, <1>4, <2>2, Rest, Boundary DEF Arm!Dispatch, Machine
  <2> QED
    BY <2>3, <2>4
<1>5. CASE ~(budget <= 0)
  <2>1. RunIn(c, c.mem, p)
    BY <1>1, <1>5
  <2>2. IInv' /\ Phase' = "inside" /\ GuestPc' = p
    BY <1>1, <1>2, <1>3, <2>1, Ran DEF Ready
  <2>3. Arm!Dispatch
    BY <1>1, <1>2, <1>5, <2>2, Boundary DEF Arm!Dispatch, Machine
  <2> QED
    BY <2>2, <2>3
<1> QED
  BY <1>4, <1>5

\* The word that runs is live code.
LEMMA Site ==
  ASSUME IInv, exec.kind = "code"
  PROVE  /\ exec.at \in Address /\ exec.at < cur /\ mem[exec.at] \in Words
         /\ Whole(mem, cur, seen, exec.at)
         /\ exec.at + 1 < cur => exec.at + 1 \in Address
         /\ exec.at + 2 < cur => exec.at + 2 \in Address
         /\ exec.pc \in Pc
<1>1. exec.at \in Address /\ exec.at < cur /\ mem[exec.at] \in Words /\ exec.pc \in Pc
  BY DEF IInv, TypeOK, Placed
<1>2. Whole(mem, cur, seen, exec.at)
  BY <1>1, Slice DEF Translating, AllWhole
<1>3. cur \in 0 .. CodeWords
  BY DEF IInv, TypeOK
<1> QED
  BY <1>1, <1>2, <1>3, Sizes DEF Address

LEMMA EnterBlockStep ==
  ASSUME IInv, EnterBlock
  PROVE  IInv' /\ (Arm!Dispatch \/ UNCHANGED Arm!vars)
<1> DEFINE p == mem[exec.at].pc
<1>1. /\ exec.kind = "code" /\ mem[exec.at].op = "entry"
      /\ Goto(IF Pending THEN Dispatching(p) ELSE At(exec.at + 1, p))
      /\ UNCHANGED <<Machine, aram, fiq, pin, budget, seen>>
  BY DEF EnterBlock, Runs
<1>2. /\ p \in Pc /\ exec.at + 1 < cur /\ exec.at + 1 \in Address
      /\ mem[exec.at + 1].op = "insn" /\ mem[exec.at + 1].pc = p
  BY <1>1, Site, Faces DEF Whole, WholeEntry
<1>3. Phase = "boundary" /\ GuestPc = p
  BY <1>1, OnCode
<1>4. UNCHANGED code /\ fiq' \in BOOLEAN
  BY <1>1 DEF Goto, IInv, TypeOK
<1>5. CASE Pending
  <2>1. exec' = Dispatching(p)
    BY <1>1, <1>5 DEF Goto
  <2>2. exec' \in Execs /\ exec'.kind = "dispatch" /\ exec'.pc = p
    BY <2>1, <1>2, Sizes DEF Execs, Dispatching
  <2>3. IInv'
    BY <1>1, <1>4, <2>2, Went
  <2>4. UNCHANGED Arm!vars
    BY <1>1, <1>3, <2>2, Boundary DEF Arm!vars, Machine
  <2> QED
    BY <2>3, <2>4
<1>6. CASE ~Pending
  <2>1. exec' = At(exec.at + 1, p)
    BY <1>1, <1>6 DEF Goto
  <2>2. exec' \in Execs /\ exec'.kind = "code" /\ exec'.at = exec.at + 1
    BY <2>1, <1>2 DEF Execs, At
  <2>3. IInv'
    BY <1>1, <1>2, <1>4, <2>2, Went
  <2>4. Phase' = "inside" /\ GuestPc' = p
    BY <1>2, <1>4, <2>2, OnCode DEF code
  <2>5. ~(fiq /\ pin) /\ fiq' = (fiq /\ ~pin)
    BY <1>1, <1>6 DEF Pending, IInv, TypeOK
  <2>6. Arm!Dispatch
    BY <1>1, <1>3, <2>4, <2>5 DEF Arm!Dispatch, Machine
  <2> QED
    BY <2>3, <2>6
<1> QED
  BY <1>5, <1>6

LEMMA ExhaustedStep ==
  ASSUME IInv, Exhausted
  PROVE  IInv' /\ Arm!Stop
<1> DEFINE p == mem[exec.at].pc
<1>1. /\ exec.kind = "code" /\ mem[exec.at].op = "insn" /\ budget <= 0
      /\ exec' = Idle(p) /\ UNCHANGED code
      /\ UNCHANGED <<Machine, aram, fiq, pin, budget, seen>>
  BY DEF Exhausted, Runs, Goto
<1>2. p \in Pc
  BY <1>1, Site, Faces
<1>3. Phase = "inside" /\ GuestPc = p
  BY <1>1, OnCode
<1>4. exec' \in Execs /\ exec'.kind = "idle" /\ exec'.pc = p /\ fiq' \in BOOLEAN
  BY <1>1, <1>2, Sizes DEF Execs, Idle, IInv, TypeOK
<1>5. IInv'
  BY <1>1, <1>4, Went
<1>6. Arm!Stop
  BY <1>1, <1>3, <1>4, Rest DEF Arm!Stop, Machine
<1> QED
  BY <1>5, <1>6

LEMMA ColdSampleStep ==
  ASSUME IInv, ColdSample
  PROVE  IInv' /\ (Arm!Dispatch \/ UNCHANGED Arm!vars)
<1>1. /\ exec.kind = "cold"
      /\ Goto(IF Pending THEN Dispatching(exec.pc) ELSE At(exec.at, exec.pc))
      /\ UNCHANGED <<Machine, aram, fiq, pin, budget, seen>>
  BY DEF ColdSample
<1>2. /\ exec.pc \in Pc /\ exec.at \in Address /\ exec.at < cur
      /\ Continues(mem[exec.at], exec.pc)
  BY <1>1 DEF IInv, TypeOK, Placed
<1>3. Phase = "boundary" /\ GuestPc = exec.pc
  BY <1>1 DEF Phase, GuestPc, Runs
<1>4. UNCHANGED code /\ fiq' \in BOOLEAN
  BY <1>1 DEF Goto, IInv, TypeOK
<1>5. CASE Pending
  <2>1. exec' = Dispatching(exec.pc)
    BY <1>1, <1>5 DEF Goto
  <2>2. exec' \in Execs /\ exec'.kind = "dispatch" /\ exec'.pc = exec.pc
    BY <2>1, <1>2, Sizes DEF Execs, Dispatching
  <2>3. IInv'
    BY <1>1, <1>4, <2>2, Went
  <2>4. UNCHANGED Arm!vars
    BY <1>1, <1>3, <2>2, Boundary DEF Arm!vars, Machine
  <2> QED
    BY <2>3, <2>4
<1>6. CASE ~Pending
  <2>1. exec' = At(exec.at, exec.pc)
    BY <1>1, <1>6 DEF Goto
  <2>2. exec' \in Execs /\ exec'.kind = "code" /\ exec'.at = exec.at
    BY <2>1, <1>2 DEF Execs, At
  <2>3. IInv'
    BY <1>1, <1>2, <1>4, <2>2, Went
  <2>4. GuestPc' = exec.pc /\ Phase' \in {"inside", "boundary"}
    BY <1>2, <1>4, <2>2, OnCode DEF code, Continues, Leads
  <2>5. ~(fiq /\ pin) /\ fiq' = (fiq /\ ~pin)
    BY <1>1, <1>6 DEF Pending, IInv, TypeOK
  <2>6. CASE Phase' = "inside"
    BY <1>1, <1>3, <2>3, <2>4, <2>5, <2>6 DEF Arm!Dispatch, Machine
  <2>7. CASE Phase' = "boundary"
    BY <1>1, <1>3, <2>3, <2>4, <2>7 DEF Arm!vars, Machine
  <2> QED
    BY <2>4, <2>6, <2>7
<1> QED
  BY <1>5, <1>6

\* Where a step to the word at leads the machine.
LEMMA Lands ==
  ASSUME NEW at \in Address, NEW p \in Pc, exec' = At(at, p), UNCHANGED code
  PROVE  /\ exec' \in Execs /\ exec'.kind = "code" /\ exec'.at = at
         /\ Leads(mem[at], p) => Phase' = "boundary" /\ GuestPc' = p
         /\ Leaves(mem[at]) => Phase' = "boundary" /\ GuestPc' = p
         /\ Continues(mem[at], p) => Phase' \in {"inside", "boundary"} /\ GuestPc' = p
<1>1. exec' \in Execs /\ exec'.kind = "code" /\ exec'.at = at /\ exec'.pc = p /\ mem' = mem
  BY DEF At, Execs, code
<1>2. /\ Phase' = IF mem[at].op = "insn" THEN "inside" ELSE "boundary"
      /\ GuestPc' = IF mem[at].op \in {"entry", "insn", "go", "link", "jump"}
                    THEN mem[at].pc ELSE p
  BY <1>1, OnCode
<1>3. Leads(mem[at], p) => Phase' = "boundary" /\ GuestPc' = p
  BY <1>2 DEF Leads
<1>4. Leaves(mem[at]) => Phase' = "boundary" /\ GuestPc' = p
  BY <1>2 DEF Leaves
<1>5. Continues(mem[at], p) => Phase' \in {"inside", "boundary"} /\ GuestPc' = p
  BY <1>2, <1>3 DEF Continues
<1> QED
  BY <1>1, <1>3, <1>4, <1>5

LEMMA Inside ==
  ASSUME IInv, Runs("insn"), NEW p, NEW i, p = mem[exec.at].pc, i = mem[exec.at].insn
  PROVE  /\ exec.kind = "code" /\ p \in Pc /\ After(p) \in Pc /\ i \in Instr
         /\ i.to \in Pc /\ i.cond \in BOOLEAN
         /\ Phase = "inside" /\ GuestPc = p /\ i \in seen[Slot(p)]
         /\ exec.at + 1 < cur /\ exec.at + 1 \in Address
         /\ ~EndsBlock(i) => Continues(mem[exec.at + 1], After(p))
         /\ i.op \in {"b", "bl"} => Leads(mem[exec.at + 1], i.to)
         /\ i.op \in {"return", "jump"} => Leaves(mem[exec.at + 1])
         /\ EndsBlock(i) /\ i.cond =>
              exec.at + 2 < cur /\ exec.at + 2 \in Address /\ Leads(mem[exec.at + 2], After(p))
         /\ mem[exec.at].idle => SpinsOnly(i, p, seen)
<1>1. exec.kind = "code" /\ mem[exec.at].op = "insn"
  BY DEF Runs
<1>2. WholeInsn(mem, cur, seen, exec.at) /\ mem[exec.at] \in Words
  BY <1>1, Site DEF Whole
<1>3. p \in Pc /\ i \in Instr
  BY <1>1, <1>2, Faces
<1>4. Phase = "inside" /\ GuestPc = p
  BY <1>1, OnCode
<1>5. /\ i \in seen[Slot(p)] /\ exec.at + 1 < cur
      /\ ~EndsBlock(i) => Continues(mem[exec.at + 1], After(p))
      /\ i.op \in {"b", "bl"} => Leads(mem[exec.at + 1], i.to)
      /\ i.op \in {"return", "jump"} => Leaves(mem[exec.at + 1])
      /\ EndsBlock(i) /\ i.cond => exec.at + 2 < cur /\ Leads(mem[exec.at + 2], After(p))
      /\ mem[exec.at].idle => SpinsOnly(i, p, seen)
  BY <1>1, <1>2 DEF WholeInsn
<1> QED
  BY <1>1, <1>3, <1>4, <1>5, Site, PcTypes, Instructions

LEMMA SkipStep ==
  ASSUME IInv, Runs("insn"), budget > 0, UNCHANGED Machine,
         NEW p, NEW i, p = mem[exec.at].pc, i = mem[exec.at].insn, Skip(p, i)
  PROVE  IInv' /\ Arm!Execute(i)
<1>1. /\ i.cond /\ budget' = budget - 1 /\ UNCHANGED code
      /\ exec' = IF EndsBlock(i) THEN At(exec.at + 2, After(p)) ELSE Cold(exec.at + 1, After(p))
      /\ UNCHANGED <<aram, fiq, pin, seen>>
  BY DEF Skip, Charge, Goto
<1>2. exec' \in Execs /\ Placed' /\ Phase' = "boundary" /\ GuestPc' = After(p)
  <2>1. CASE EndsBlock(i)
    <3>1. /\ exec' = At(exec.at + 2, After(p)) /\ exec.at + 2 \in Address /\ exec.at + 2 < cur
          /\ Leads(mem[exec.at + 2], After(p)) /\ After(p) \in Pc
      BY <2>1, <1>1, Inside
    <3> QED
      BY <1>1, <3>1, Lands DEF Placed, code
  <2>2. CASE ~EndsBlock(i)
    <3>1. /\ exec' = Cold(exec.at + 1, After(p)) /\ exec.at + 1 \in Address /\ exec.at + 1 < cur
          /\ Continues(mem[exec.at + 1], After(p)) /\ After(p) \in Pc
      BY <2>2, <1>1, Inside
    <3>2. /\ exec' \in Execs /\ exec'.kind = "cold" /\ exec'.at = exec.at + 1
          /\ exec'.pc = After(p)
      BY <3>1 DEF Cold, Execs
    <3> QED
      BY <1>1, <3>1, <3>2 DEF Placed, code, Phase, GuestPc, Runs
  <2> QED
    BY <2>1, <2>2
<1>3. IInv'
  <2>1. exec.kind = "code" /\ exec.kind # "idle"
    BY DEF Runs
  <2>2. /\ aram' \in [Slots -> Instr] /\ seen' \in [Slots -> SUBSET Instr] /\ Remembered'
        /\ fiq' \in BOOLEAN /\ pin' \in BOOLEAN /\ budget' \in Int
    BY <1>1 DEF IInv, TypeOK, Remembered
  <2>3. AllWhole(mem', cur', seen')
    BY <2>1, <1>1, Slice DEF IInv, Engines, code
  <2> QED
    BY <1>1, <1>2, <2>1, <2>2, <2>3, Moved
<1>4. Arm!Execute(i)
  BY <1>1, <1>2, Inside
  DEF Arm!Execute, Arm!Leave, Arm!Charge, Arm!Quiet, Arm!After, After, Arm!Slot, Slot, Machine
<1> QED
  BY <1>3, <1>4

LEMMA FallsThrough ==
  ASSUME IInv, Runs("insn"), NEW p, NEW i, p = mem[exec.at].pc, i = mem[exec.at].insn,
         ~EndsBlock(i), Falls(p)
  PROVE  /\ exec' \in Execs /\ Placed' /\ budget' \in Int /\ UNCHANGED code
         /\ Arm!Advance
<1>1. budget' = budget - 1 /\ exec' = At(exec.at + 1, After(p)) /\ UNCHANGED code
  BY DEF Falls, Charge, Goto
<1>2. /\ exec.at + 1 \in Address /\ exec.at + 1 < cur
      /\ Continues(mem[exec.at + 1], After(p)) /\ After(p) \in Pc /\ GuestPc = p
  BY Inside
<1>3. /\ exec' \in Execs /\ exec'.kind = "code" /\ exec'.at = exec.at + 1
      /\ Phase' \in {"inside", "boundary"} /\ GuestPc' = After(p)
  BY <1>1, <1>2, Lands
<1>4. Placed' /\ budget' \in Int
  BY <1>1, <1>2, <1>3 DEF Placed, code, IInv, TypeOK
<1>5. Arm!Advance
  BY <1>1, <1>2, <1>3 DEF Arm!Advance, Arm!Charge, Arm!After, After
<1> QED
  BY <1>1, <1>3, <1>4, <1>5

LEMMA AluStep ==
  ASSUME IInv, Runs("insn"), budget > 0, UNCHANGED Machine,
         NEW p, NEW i, p = mem[exec.at].pc, i = mem[exec.at].insn, Alu(p, i)
  PROVE  IInv' /\ Arm!Execute(i)
<1>1. i.op = "alu" /\ Falls(p) /\ UNCHANGED <<aram, fiq, pin, seen>> /\ ~EndsBlock(i)
  BY DEF Alu, EndsBlock
<1>2. exec.kind = "code" /\ exec.kind # "idle"
  BY DEF Runs
<1>3. /\ exec' \in Execs /\ Placed' /\ budget' \in Int /\ UNCHANGED code
      /\ Arm!Advance
  BY <1>1, FallsThrough
<1>4. /\ aram' \in [Slots -> Instr] /\ seen' \in [Slots -> SUBSET Instr] /\ Remembered'
      /\ fiq' \in BOOLEAN /\ pin' \in BOOLEAN
  BY <1>1 DEF IInv, TypeOK, Remembered
<1>5. AllWhole(mem', cur', seen')
  BY <1>1, <1>2, <1>3, Slice DEF IInv, Engines, code
<1>6. IInv'
  BY <1>2, <1>3, <1>4, <1>5, Moved
<1>7. Arm!Execute(i)
  BY <1>1, <1>3, Inside DEF Arm!Execute, Arm!Quiet, Arm!Slot, Slot, Machine
<1> QED
  BY <1>6, <1>7

LEMMA WriteStep ==
  ASSUME IInv, Runs("insn"), budget > 0, UNCHANGED Machine,
         NEW p, NEW i, p = mem[exec.at].pc, i = mem[exec.at].insn, Write(p, i)
  PROVE  IInv' /\ Arm!Execute(i)
<1>1. i.op = "write" /\ Falls(p) /\ ~EndsBlock(i)
  BY DEF Write, EndsBlock
<1>2. exec.kind = "code" /\ exec.kind # "idle"
  BY DEF Runs
<1>3. /\ exec' \in Execs /\ Placed' /\ budget' \in Int /\ UNCHANGED code
      /\ Arm!Advance
  BY <1>1, FallsThrough
<1>4. /\ fiq \in BOOLEAN /\ pin \in BOOLEAN
      /\ level # 0 => AllWhole(mem, cur, seen)
      /\ aram \in [Slots -> Instr] /\ seen \in [Slots -> SUBSET Instr] /\ Remembered
  BY DEF IInv, TypeOK, Engines
<1>5. CASE UNCHANGED <<aram, seen>> /\ fiq' \in BOOLEAN /\ pin' \in BOOLEAN
           /\ (UNCHANGED pin \/ UNCHANGED fiq)
  <2>1. aram' \in [Slots -> Instr] /\ seen' \in [Slots -> SUBSET Instr] /\ Remembered'
    BY <1>4, <1>5 DEF Remembered
  <2>2. AllWhole(mem', cur', seen')
    BY <1>2, <1>3, <1>4, <1>5, Slice DEF code
  <2>3. IInv'
    BY <1>2, <1>3, <1>5, <2>1, <2>2, Moved
  <2>4. Arm!Execute(i)
    BY <1>1, <1>3, <1>5, Inside DEF Arm!Execute, Arm!Slot, Slot, Machine
  <2> QED
    BY <2>3, <2>4
<1>6. CASE \E u \in Uploads : Store(u[1], u[2]) /\ UNCHANGED <<fiq, pin>>
  <2>1. PICK u \in Uploads : Store(u[1], u[2]) /\ UNCHANGED <<fiq, pin>>
    BY <1>6
  <2>2. u[1] \in Slots /\ u[2] \in Instr
    BY MemoryAssumption
  <2>3. /\ aram' \in [Slots -> Instr] /\ seen' \in [Slots -> SUBSET Instr]
        /\ seen' = [seen EXCEPT ![u[1]] = @ \cup {u[2]}]
        /\ Remembered' /\ AllWhole(mem', cur', seen')
    BY <1>2, <1>3, <2>1, <2>2, Stored, Slice
  <2>4. IInv'
    BY <1>2, <1>3, <1>4, <2>1, <2>3, Moved
  <2>5. \E s \in Slots, j \in Instr : Arm!Remember(s, j)
    BY <2>2, <2>3 DEF Arm!Remember
  <2>6. Arm!Execute(i)
    BY <1>1, <1>3, <2>1, <2>5, Inside DEF Arm!Execute, Arm!Slot, Slot, Arm!Slots, Slots, Machine
  <2> QED
    BY <2>4, <2>6
<1> QED
  BY <1>4, <1>5, <1>6 DEF Write

LEMMA BranchStep ==
  ASSUME IInv, Runs("insn"), budget > 0, UNCHANGED Machine,
         NEW p, NEW i, p = mem[exec.at].pc, i = mem[exec.at].insn, Branch(i)
  PROVE  IInv' /\ Arm!Execute(i)
<1> DEFINE idle == mem[exec.at].idle
<1>1. /\ i.op \in {"b", "bl"} /\ exec' = At(exec.at + 1, i.to) /\ UNCHANGED code
      /\ budget' = budget - (IF idle THEN 1 + IdleCost ELSE 1)
      /\ UNCHANGED <<aram, fiq, pin, seen>>
  BY DEF Branch, Charge, Goto
<1>2. exec.kind = "code" /\ exec.kind # "idle"
  BY DEF Runs
<1>3. /\ exec.at + 1 \in Address /\ exec.at + 1 < cur /\ i.to \in Pc
      /\ Leads(mem[exec.at + 1], i.to) /\ GuestPc = p /\ p \in Pc
      /\ idle => SpinsOnly(i, p, seen)
  BY <1>1, Inside
<1>4. /\ exec' \in Execs /\ exec'.kind = "code" /\ exec'.at = exec.at + 1
      /\ Phase' = "boundary" /\ GuestPc' = i.to
  BY <1>1, <1>3, Lands
<1>5. Placed' /\ budget' \in Int
  BY <1>1, <1>3, <1>4, MemoryAssumption DEF Placed, code, IInv, TypeOK
<1>6. /\ aram' \in [Slots -> Instr] /\ seen' \in [Slots -> SUBSET Instr] /\ Remembered'
      /\ fiq' \in BOOLEAN /\ pin' \in BOOLEAN
  BY <1>1 DEF IInv, TypeOK, Remembered
<1>7. AllWhole(mem', cur', seen')
  BY <1>1, <1>2, Slice DEF IInv, Engines, code
<1>8. IInv'
  BY <1>1, <1>2, <1>4, <1>5, <1>6, <1>7, Moved
<1>9. Arm!Charge(1) \/ (i.op = "b" /\ Arm!IdleLoop(i.to) /\ Arm!Charge(1 + IdleCost))
  <2>1. CASE idle
    <3>1. SpinsOnly(i, p, seen) /\ budget' = budget - (1 + IdleCost)
      BY <2>1, <1>1, <1>3
    <3> QED
      BY <3>1, <1>3 DEF SpinsOnly, Arm!IdleLoop, Arm!Charge, Arm!Slot, Slot
  <2>2. CASE ~idle
    BY <2>2, <1>1 DEF Arm!Charge
  <2> QED
    BY <2>1, <2>2
<1>10. Arm!Leave(i.to) /\ Arm!Quiet
  BY <1>1, <1>4 DEF Arm!Leave, Arm!Quiet
<1>11. Arm!Execute(i)
  BY <1>1, <1>9, <1>10, Inside DEF Arm!Execute, Arm!Slot, Slot, Machine
<1> QED
  BY <1>8, <1>11

LEMMA DynamicStep ==
  ASSUME IInv, Runs("insn"), budget > 0, UNCHANGED Machine,
         NEW p, NEW i, p = mem[exec.at].pc, i = mem[exec.at].insn, Dynamic(i)
  PROVE  IInv' /\ Arm!Execute(i)
<1>1. PICK to \in Targets : exec' = At(exec.at + 1, to) /\ UNCHANGED code
  BY DEF Dynamic, Goto
<1>2. /\ i.op \in {"return", "jump"} /\ budget' = budget - 1
      /\ fiq' \in BOOLEAN /\ UNCHANGED <<aram, pin, seen>>
  BY DEF Dynamic, Charge
<1>3. exec.kind = "code" /\ exec.kind # "idle"
  BY DEF Runs
<1>4. /\ exec.at + 1 \in Address /\ exec.at + 1 < cur /\ to \in Pc
      /\ Leaves(mem[exec.at + 1])
  BY <1>2, Inside, Sizes
<1>5. /\ exec' \in Execs /\ exec'.kind = "code" /\ exec'.at = exec.at + 1
      /\ Phase' = "boundary" /\ GuestPc' = to
  BY <1>1, <1>4, Lands
<1>6. Placed' /\ budget' \in Int
  BY <1>1, <1>2, <1>4, <1>5 DEF Placed, code, IInv, TypeOK
<1>7. /\ aram' \in [Slots -> Instr] /\ seen' \in [Slots -> SUBSET Instr] /\ Remembered'
      /\ pin' \in BOOLEAN
  BY <1>2 DEF IInv, TypeOK, Remembered
<1>8. AllWhole(mem', cur', seen')
  BY <1>1, <1>2, <1>3, Slice DEF IInv, Engines, code
<1>9. IInv'
  BY <1>1, <1>2, <1>3, <1>5, <1>6, <1>7, <1>8, Moved
<1>10. \E q \in Targets : Arm!Leave(q) /\ Arm!Charge(1)
  BY <1>1, <1>2, <1>5 DEF Arm!Leave, Arm!Charge
<1>11. Arm!Execute(i)
  BY <1>2, <1>10, Inside DEF Arm!Execute, Arm!Slot, Slot, Machine
<1> QED
  BY <1>9, <1>11

LEMMA InstructionStep ==
  ASSUME IInv, Instruction
  PROVE  IInv' /\ \E i \in Instr : Arm!Execute(i)
<1> DEFINE p == mem[exec.at].pc
           i == mem[exec.at].insn
<1>1. Runs("insn") /\ budget > 0 /\ UNCHANGED Machine
  BY DEF Instruction
<1>2. Skip(p, i) \/ Alu(p, i) \/ Write(p, i) \/ Branch(i) \/ Dynamic(i)
  BY DEF Instruction
<1>3. i \in Instr
  BY <1>1, Inside
<1>4. IInv' /\ Arm!Execute(i)
  BY <1>1, <1>2, SkipStep, AluStep, WriteStep, BranchStep, DynamicStep
<1> QED
  BY <1>3, <1>4

-----------------------------------------------------------------------------
(* Exits                                                                   *)

\* To the dispatcher, with the address the exit stood for
LEMMA Asked ==
  ASSUME IInv, exec.kind = "code", NEW p \in Pc, exec' = Dispatching(p), UNCHANGED code,
         UNCHANGED <<Machine, aram, fiq, pin, budget, seen>>,
         Phase = "boundary", GuestPc = p
  PROVE  IInv' /\ UNCHANGED Arm!vars
<1>1. exec' \in Execs /\ exec'.kind = "dispatch" /\ exec'.pc = p /\ fiq' \in BOOLEAN
  BY Sizes DEF Execs, Dispatching, IInv, TypeOK
<1>2. IInv'
  BY <1>1, Went
<1>3. UNCHANGED Arm!vars
  BY <1>1, Boundary DEF Arm!vars, Machine
<1> QED
  BY <1>2, <1>3

\* To the link entry of the block of p
LEMMA Chained ==
  ASSUME IInv, exec.kind = "code", NEW p \in Pc, NEW at \in Address, at < cur,
         mem[at] = Entry(p), exec' = At(at, p), UNCHANGED code,
         UNCHANGED <<Machine, aram, fiq, pin, budget, seen>>,
         Phase = "boundary", GuestPc = p
  PROVE  IInv' /\ UNCHANGED Arm!vars
<1>1. exec' \in Execs /\ exec'.kind = "code" /\ exec'.at = at /\ fiq' \in BOOLEAN
  BY DEF Execs, At, IInv, TypeOK
<1>2. IInv'
  BY <1>1, Went
<1>3. Phase' = "boundary" /\ GuestPc' = p
  BY <1>1, OnCode DEF code, Entry
<1>4. UNCHANGED Arm!vars
  BY <1>3 DEF Arm!vars, Machine
<1> QED
  BY <1>2, <1>4

\* An exit asks for the block of p, and is patched if it is still there.
LEMMA Sewn ==
  ASSUME IInv, exec.kind = "code", mem[exec.at].op \in {"link", "ic"},
         NEW p \in Pc, NEW c, Ready(c, p),
         NEW w \in Words, Alike(mem[exec.at], w), Linked(c.mem, c.cur, w),
         RunIn(c, IF Survives(c) THEN [c.mem EXCEPT ![exec.at] = w] ELSE c.mem, p),
         UNCHANGED <<Machine, aram, fiq, pin, budget, seen>>,
         Phase = "boundary", GuestPc = p, ~Pending
  PROVE  IInv' /\ Arm!Dispatch
<1> DEFINE m == IF Survives(c) THEN [c.mem EXCEPT ![exec.at] = w] ELSE c.mem
<1>1. fiq' \in BOOLEAN /\ fiq' = (fiq /\ ~pin) /\ ~(fiq /\ pin)
  BY DEF IInv, TypeOK, Pending
<1>2. /\ m \in [Address -> Words] /\ AllWhole(m, c.cur, seen)
      /\ Known(m, c.cur, c.entries)
      /\ m[c.at + 1].op = "insn" /\ m[c.at + 1].pc = p
  <2>1. CASE c.flushed
    BY <2>1 DEF Ready, Survives
  <2>2. CASE ~c.flushed
    <3>1. m = [c.mem EXCEPT ![exec.at] = w] /\ m \in [Address -> Words]
      BY <2>2 DEF Survives, Ready
    <3>2. c.mem[exec.at] = mem[exec.at] /\ exec.at \in Address
      BY <2>2, Site DEF Ready
    <3>3. ASSUME NEW a \in Address, a < c.cur
          PROVE  Alike(c.mem[a], m[a]) /\ Linked(c.mem, c.cur, m[a])
      <4>1. CASE a = exec.at
        BY <4>1, <3>1, <3>2 DEF Ready
      <4>2. CASE a # exec.at
        BY <4>2, <3>1, <3>3 DEF Ready, AllWhole, Whole, Alike
      <4> QED
        BY <4>1, <4>2
    <3>4. c.mem \in [Address -> Words] /\ c.cur \in 0 .. CodeWords /\ AllWhole(c.mem, c.cur, seen)
      BY DEF Ready
    <3> HIDE DEF m
    <3>5. /\ AllWhole(m, c.cur, seen)
          /\ \A a \in Address : a < c.cur /\ c.mem[a].op \in {"entry", "insn"} => m[a] = c.mem[a]
          /\ Known(c.mem, c.cur, c.entries) => Known(m, c.cur, c.entries)
      BY <3>1, <3>3, <3>4, Patched
    <3> QED
      BY <3>1, <3>5 DEF Ready
  <2> QED
    BY <2>1, <2>2
<1> HIDE DEF m
<1>3. RunIn(c, m, p)
  BY DEF m
<1>4. IInv' /\ Phase' = "inside" /\ GuestPc' = p
  BY <1>1, <1>2, <1>3, Ran
<1>5. Arm!Dispatch
  BY <1>1, <1>4 DEF Arm!Dispatch, Machine
<1> QED
  BY <1>4, <1>5

LEMMA LinkSiteStep ==
  ASSUME IInv, LinkSite
  PROVE  IInv' /\ (Arm!Dispatch \/ UNCHANGED Arm!vars)
<1> DEFINE p == mem[exec.at].pc
           c == Lookup(p)
           w == Jump(p, c.at)
<1>1. /\ exec.kind = "code" /\ mem[exec.at].op = "link"
      /\ IF Pending \/ budget <= 0 THEN Goto(Dispatching(p))
         ELSE RunIn(c, IF Survives(c) THEN [c.mem EXCEPT ![exec.at] = w] ELSE c.mem, p)
      /\ UNCHANGED <<Machine, aram, fiq, pin, budget, seen>>
  BY DEF LinkSite, Runs
<1>2. p \in Pc
  BY <1>1, Site, Faces
<1>3. Phase = "boundary" /\ GuestPc = p
  BY <1>1, OnCode
<1>4. CASE Pending \/ budget <= 0
  <2>1. exec' = Dispatching(p) /\ UNCHANGED code
    BY <1>1, <1>4 DEF Goto
  <2> QED
    BY <1>1, <1>2, <1>3, <2>1, Asked
<1>5. CASE ~(Pending \/ budget <= 0)
  <2>1. Ready(c, p)
    BY <1>1, <1>2, Slice, LookupReady
  <2> HIDE DEF c
  <2>2. w \in Words /\ Alike(mem[exec.at], w) /\ Linked(c.mem, c.cur, w)
    BY <1>1, <1>2, <2>1, MadeWords, Sizes, SizesAssumption
    DEF Ready, Alike, Leads, Jump, Linked, Words
  <2>3. /\ RunIn(c, IF Survives(c) THEN [c.mem EXCEPT ![exec.at] = w] ELSE c.mem, p)
        /\ ~Pending
    BY <1>1, <1>5
  <2> HIDE DEF p, w
  <2> QED
    BY <1>1, <1>2, <1>3, <2>1, <2>2, <2>3, Sewn
<1> QED
  BY <1>4, <1>5

LEMMA FollowStep ==
  ASSUME IInv, Follow
  PROVE  IInv' /\ UNCHANGED Arm!vars
<1> DEFINE w == mem[exec.at]
<1>1. exec.kind = "code" /\ UNCHANGED <<Machine, aram, fiq, pin, budget, seen>>
  BY DEF Follow, Runs
<1>2. w \in Words /\ Linked(mem, cur, w) /\ exec.pc \in Pc
  BY <1>1, Site DEF Whole
<1>3. CASE w.op = "jump" /\ Goto(At(w.at, w.pc))
  <2>1. w.pc \in Pc /\ w.at \in Address /\ w.at < cur /\ mem[w.at] = Entry(w.pc)
    BY <1>2, <1>3, Faces DEF Linked
  <2>2. Phase = "boundary" /\ GuestPc = w.pc
    BY <1>1, <1>3, OnCode
  <2>3. exec' = At(w.at, w.pc) /\ UNCHANGED code
    BY <1>3 DEF Goto
  <2> HIDE DEF w
  <2> QED
    BY <1>1, <2>1, <2>2, <2>3, Chained
<1>4. CASE w.op = "go" /\ Goto(Dispatching(w.pc))
  <2>1. w.pc \in Pc /\ Phase = "boundary" /\ GuestPc = w.pc
    BY <1>1, <1>2, <1>4, Faces, OnCode
  <2>2. exec' = Dispatching(w.pc) /\ UNCHANGED code
    BY <1>4 DEF Goto
  <2> QED
    BY <1>1, <2>1, <2>2, Asked
<1>5. CASE w.op = "ret" /\ Goto(Dispatching(exec.pc))
  <2>1. Phase = "boundary" /\ GuestPc = exec.pc
    BY <1>1, <1>5, OnCode
  <2>2. exec' = Dispatching(exec.pc) /\ UNCHANGED code
    BY <1>5 DEF Goto
  <2> QED
    BY <1>1, <1>2, <2>1, <2>2, Asked
<1> QED
  BY <1>3, <1>4, <1>5 DEF Follow, Runs

LEMMA ReturnHitStep ==
  ASSUME IInv, ReturnHit
  PROVE  IInv' /\ UNCHANGED Arm!vars
<1> DEFINE w == mem[exec.at]
<1>1. /\ exec.kind = "code" /\ w.op = "ic" /\ Cached(w) /\ w.pc = exec.pc
      /\ exec' = At(w.at, exec.pc) /\ UNCHANGED code
      /\ UNCHANGED <<Machine, aram, fiq, pin, budget, seen>>
  BY DEF ReturnHit, Runs, Goto
<1>2. /\ exec.pc \in Pc /\ w.at \in Address /\ w.at < cur /\ mem[w.at] = Entry(exec.pc)
  BY <1>1, Site, Faces DEF Whole, Linked, Cached
<1>3. Phase = "boundary" /\ GuestPc = exec.pc
  BY <1>1, OnCode
<1> QED
  BY <1>1, <1>2, <1>3, Chained

LEMMA CountdownStep ==
  ASSUME IInv, exec.kind = "code", NEW w, w = mem[exec.at], w.op = "ic", w.left > 0,
         mem' = [mem EXCEPT ![exec.at] = Ic(w.pc, w.at, w.left - 1, w.age)],
         exec' = Dispatching(exec.pc), UNCHANGED <<cur, entries, dirty>>,
         UNCHANGED <<Machine, aram, fiq, pin, budget, seen>>
  PROVE  IInv' /\ UNCHANGED Arm!vars
<1> DEFINE v == Ic(w.pc, w.at, w.left - 1, w.age)
<1>1. /\ w \in Words /\ Linked(mem, cur, w) /\ exec.pc \in Pc /\ exec.at \in Address
      /\ level \in 1 .. 3 /\ level # 0 /\ mem \in [Address -> Words] /\ cur \in 0 .. CodeWords
      /\ AllWhole(mem, cur, seen) /\ Known(mem, cur, entries)
  BY Site, Slice DEF Whole, Translating
<1>2. v \in Words
  <2>1. /\ w.pc \in Pc /\ w.at \in Address \cup {NoCode} /\ w.left - 1 \in 0 .. Reprobe
        /\ w.age \in 0 .. DemoteAge
    BY <1>1, Faces, SizesAssumption
  <2> QED
    BY <2>1, MadeCaches
<1>3. Alike(w, v) /\ Linked(mem, cur, v)
  BY <1>1 DEF Alike, Leaves, Linked, Cached, Ic
<1> HIDE DEF v
<1>4. mem' = [mem EXCEPT ![exec.at] = v]
  BY DEF v
<1>5. mem' \in [Address -> Words]
  BY <1>1, <1>2, <1>4
<1>6. ASSUME NEW a \in Address, a < cur
      PROVE  Alike(mem[a], mem'[a]) /\ Linked(mem, cur, mem'[a])
  <2>1. CASE a = exec.at
    BY <2>1, <1>1, <1>3, <1>4
  <2>2. CASE a # exec.at
    BY <2>2, <1>1, <1>4, <1>6 DEF AllWhole, Whole, Alike
  <2> QED
    BY <2>1, <2>2
<1>7. AllWhole(mem', cur, seen) /\ Known(mem', cur, entries)
  <2>1. \A m \in [Address -> Words] :
          (\A a \in Address : a < cur => Alike(mem[a], m[a]) /\ Linked(mem, cur, m[a]))
            => AllWhole(m, cur, seen) /\ Known(m, cur, entries)
    BY <1>1, Patched
  <2> QED
    BY <1>5, <1>6, <2>1
<1>8. exec' \in Execs /\ exec'.kind = "dispatch" /\ exec'.pc = exec.pc
  BY <1>1, Sizes DEF Execs, Dispatching
<1>9. TypeOK'
  BY <1>5, <1>8 DEF IInv, TypeOK, Execs, Machine
<1>10. Engines' /\ Remembered' /\ Placed'
  BY <1>1, <1>7, <1>8 DEF IInv, Engines, Remembered, Placed, Machine
<1>11. UNCHANGED Arm!vars
  <2>1. Phase = "boundary" /\ GuestPc = exec.pc
    BY OnCode
  <2> QED
    BY <1>8, <2>1, Boundary DEF Arm!vars, Machine
<1> QED
  BY <1>9, <1>10, <1>11 DEF IInv

LEMMA ReturnMissStep ==
  ASSUME IInv, ReturnMiss
  PROVE  IInv' /\ (Arm!Dispatch \/ UNCHANGED Arm!vars)
<1> DEFINE w == mem[exec.at]
           p == exec.pc
           c == Lookup(p)
           v == Repatched(w, p, c)
<1>1. /\ exec.kind = "code" /\ w.op = "ic"
      /\ UNCHANGED <<Machine, aram, fiq, pin, budget, seen>>
  BY DEF ReturnMiss, Runs
<1>2. /\ p \in Pc /\ w \in Words /\ Phase = "boundary" /\ GuestPc = p
  BY <1>1, Site, OnCode
<1>3. CASE w.left > 0
  <2>1. /\ mem' = [mem EXCEPT ![exec.at] = Ic(w.pc, w.at, w.left - 1, w.age)]
        /\ exec' = Dispatching(exec.pc) /\ UNCHANGED <<cur, entries, dirty>>
    BY <1>3 DEF ReturnMiss
  <2> QED
    BY <1>1, <1>3, <2>1, CountdownStep
<1>4. CASE ~(w.left > 0) /\ (Pending \/ budget <= 0)
  <2>1. exec' = Dispatching(p) /\ UNCHANGED code
    BY <1>4 DEF ReturnMiss, Goto
  <2> QED
    BY <1>1, <1>2, <2>1, Asked
<1>5. CASE ~(w.left > 0) /\ ~(Pending \/ budget <= 0)
  <2>1. Ready(c, p)
    BY <1>1, <1>2, Slice, LookupReady
  <2>2. /\ RunIn(c, IF Survives(c) THEN [c.mem EXCEPT ![exec.at] = v] ELSE c.mem, p)
        /\ ~Pending
    BY <1>5 DEF ReturnMiss
  <2> HIDE DEF c
  <2>3. v \in Words /\ Leaves(v) /\ Linked(c.mem, c.cur, v)
    <3>1. CASE v = Ret
      BY <3>1 DEF Words, Ret, Leaves, Linked
    <3>2. CASE v = Ic(p, c.at, Reprobe, 0)
      <4>1. c.at \in Address /\ Reprobe \in 0 .. Reprobe /\ 0 \in 0 .. DemoteAge
        BY <2>1, SizesAssumption DEF Ready
      <4>2. v \in Words
        BY <1>2, <3>2, <4>1, MadeCaches
      <4> HIDE DEF v
      <4>3. Leaves(v) /\ v.at = c.at /\ v.pc = p
        BY <3>2 DEF Leaves, Ic
      <4> QED
        BY <2>1, <4>2, <4>3 DEF Linked, Ready
    <3> QED
      BY <3>1, <3>2 DEF Repatched
  <2>4. Alike(w, v)
    BY <1>1, <2>3 DEF Alike, Leaves
  <2> HIDE DEF p, w, v
  <2>5. mem[exec.at].op \in {"link", "ic"} /\ Alike(mem[exec.at], v)
    BY <1>1, <2>4 DEF w
  <2> QED
    BY <1>1, <1>2, <2>1, <2>2, <2>3, <2>5, Sewn
<1> QED
  BY <1>3, <1>4, <1>5

-----------------------------------------------------------------------------
(* The machine                                                             *)

LEMMA Initially ==
  ASSUME Init
  PROVE  IInv /\ Arm!Init
<1>1. /\ level \in 0 .. 3 /\ enabled = FALSE /\ aram = Program /\ fiq = FALSE /\ pin = FALSE
      /\ budget = 0 /\ mem = NothingLive /\ cur = 0 /\ entries = [s \in Slots |-> NoCode]
      /\ dirty = Clean /\ foreign = (level = 0)
      /\ exec = Idle(0) /\ seen = [s \in Slots |-> {aram[s]}]
  BY SizesAssumption DEF Init
<1>2. /\ exec \in [kind : {"idle", "dispatch", "code", "cold"}, at : Address, pc : Pc]
      /\ exec.kind = "idle" /\ exec.pc = 0
  BY <1>1, Sizes DEF Idle
<1>3. aram \in [Slots -> Instr] /\ seen \in [Slots -> SUBSET Instr] /\ Remembered
  BY <1>1, MemoryAssumption DEF Remembered
<1>4. mem \in [Address -> Words] /\ cur \in 0 .. CodeWords
  BY <1>1, Sizes DEF NothingLive, Words
<1>5. /\ entries \in [Slots -> Address \cup {NoCode}]
      /\ Known(mem, cur, entries) /\ InRange(entries, dirty)
  BY <1>1, NothingKnown
<1>6. AllWhole(mem, cur, seen)
  BY <1>1 DEF AllWhole, Address
<1>7. dirty \in [lo : 0 .. AramWords, hi : Slots]
  BY <1>1, CleanType DEF Ranges
<1>8. foreign \in BOOLEAN
  BY <1>1
<1>9. TypeOK
  <2>1. enabled \in BOOLEAN /\ fiq \in BOOLEAN /\ pin \in BOOLEAN /\ level \in 0 .. 3
    BY <1>1
  <2>2. budget \in Int
    <3>1. budget = 0
      BY <1>1
    <3> QED
      BY <3>1
  <2>3. entries \in [Slots -> Address \cup {NoCode, Foreign}]
    BY <1>5
  <2> QED
    BY <1>2, <1>3, <1>4, <1>7, <1>8, <2>1, <2>2, <2>3 DEF TypeOK
<1>10. Engines /\ Placed
  <2>1. foreign = (level = 0)
    BY <1>1
  <2> QED
    BY <2>1, <1>2, <1>5, <1>6 DEF Engines, Placed
<1>11. Arm!Init
  <2>1. Phase = "idle" /\ GuestPc = 0
    BY <1>2, Rest
  <2>2. (level > 0) \in BOOLEAN
    BY <1>1
  <2>3. \E program \in [Slots -> Instr] : seen = [s \in Slots |-> {program[s]}]
    BY <1>1, <1>3
  <2> QED
    BY <1>1, <2>1, <2>2, <2>3 DEF Arm!Init, Arm!Slots, Slots
<1> QED
  BY <1>3, <1>9, <1>10, <1>11 DEF IInv

LEMMA Stays ==
  ASSUME IInv, UNCHANGED vars
  PROVE  IInv' /\ UNCHANGED Arm!vars
<1>1. IInv'
  BY DEF vars, code, IInv, TypeOK, Engines, Remembered, Placed
<1>2. UNCHANGED Arm!vars
  BY DEF vars, code, Arm!vars, Phase, GuestPc, Runs
<1> QED
  BY <1>1, <1>2

LEMMA Steps ==
  ASSUME IInv, [Next]_vars
  PROVE  IInv' /\ [Arm!Next]_(Arm!vars)
<1>1. CASE \E s \in Slots, i \in Instr : Upload(s, i)
  BY <1>1, UploadStep DEF Arm!Next, Arm!Slots, Slots
<1>2. CASE \E b \in BOOLEAN : SetPin(b) \/ \E p \in Presets : Reset(b, p)
  BY <1>2, SetPinStep, ResetStep DEF Arm!Next
<1>3. CASE Halt
  BY <1>3, HaltStep DEF Arm!Next
<1>4. CASE \E p \in Targets : RunCached(p)
  BY <1>4, RunCachedStep DEF Arm!Next
<1>5. CASE \E n \in Slices : Run(n)
  BY <1>5, RunStep DEF Arm!Next
<1>6. CASE Dispatch
  BY <1>6, DispatchStep DEF Arm!Next
<1>7. CASE EnterBlock
  BY <1>7, EnterBlockStep DEF Arm!Next
<1>8. CASE Exhausted
  BY <1>8, ExhaustedStep DEF Arm!Next
<1>9. CASE Instruction
  BY <1>9, InstructionStep DEF Arm!Next
<1>10. CASE ColdSample
  BY <1>10, ColdSampleStep DEF Arm!Next
<1>11. CASE LinkSite
  BY <1>11, LinkSiteStep DEF Arm!Next
<1>12. CASE Follow
  BY <1>12, FollowStep
<1>13. CASE ReturnHit
  BY <1>13, ReturnHitStep
<1>14. CASE ReturnMiss
  BY <1>14, ReturnMissStep DEF Arm!Next
<1>15. CASE UNCHANGED vars
  BY <1>15, Stays
<1> QED
  BY <1>1, <1>2, <1>3, <1>4, <1>5, <1>6, <1>7, <1>8, <1>9, <1>10, <1>11, <1>12, <1>13,
     <1>14, <1>15 DEF Next, Engine

LEMMA Holds == IInv => TypeOK /\ ChainsLeadHome
<1> SUFFICES ASSUME IInv PROVE ChainsLeadHome
  BY DEF IInv
<1>1. ASSUME level > 0
      PROVE  \A a \in Address : a < cur => Links(mem[a])
  BY <1>1 DEF IInv, Engines, AllWhole, Whole, Linked, Links
<1>2. Tracked
  BY DEF IInv, Engines, Known, InRange, Tracked
<1> QED
  BY <1>1, <1>2 DEF ChainsLeadHome

LEMMA Invariance == Spec => []IInv
<1>1. Init => IInv
  BY Initially
<1>2. IInv /\ [Next]_vars => IInv'
  BY Steps
<1> QED
  BY <1>1, <1>2, PTL DEF Spec

-----------------------------------------------------------------------------
(* The properties                                                          *)

\* Code, table, flush range and what runs keep their ranges, so no compilation
\* writes behind the borrowed memory.
THEOREM TypeCorrect == Spec => []TypeOK
  BY Invariance, Holds, PTL

\* Every linked exit, return cache and table entry leads to the entry of a live
\* block of its own address, through any sequence of flushes and resets.
THEOREM ExitsLeadHome == Spec => []ChainsLeadHome
  BY Invariance, Holds, PTL

\* Whatever is chained, patched or flushed, FIQ and budget are looked at where
\* the interpreter's DISPATCH and ADVANCE look, and what runs is what the guest
\* has stored.
THEOREM Refinement == Spec => ImplementsArm
<1>1. Init => Arm!Init
  BY Initially
<1>2. IInv /\ [Next]_vars => [Arm!Next]_(Arm!vars)
  BY Steps
<1> QED
  BY <1>1, <1>2, Invariance, PTL DEF Spec, ImplementsArm, Arm!Spec
=============================================================================
