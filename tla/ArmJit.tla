------------------------------- MODULE ArmJit -------------------------------
(***************************************************************************)
(* The recompiler of the sound CPU (plugs/vbaARM/arm7_jit.cpp): blocks of  *)
(* ARM7 instructions translated into memory it borrows from the cached     *)
(* interpreter, a table from addresses to blocks, and exits that patch     *)
(* themselves into branches to the next block: static ones once and for    *)
(* all (arm7_jit = 2), returns with the target they saw last (3 and more). *)
(*                                                                         *)
(* The code is an array of words; the machine runs the word at exec.at.  A *)
(* flush takes s_code_cur back and empties the table.  The words stay, but *)
(* nothing should lead to them: here they become Dead, which no action     *)
(* runs.                                                                   *)
(*                                                                         *)
(* Of an instruction there is what it does to the control: whether it ends *)
(* the block, may fail its condition, or stores.  Levels 4 and 5 change    *)
(* the code of single instructions and run as level 3 here.                *)
(*                                                                         *)
(* Left out: the census, the budget that AICA_RACE raises (Aica), and an   *)
(* ARM7 that writes its own reset register in the middle of a slice.       *)
(***************************************************************************)
EXTENDS Integers, Sequences

CONSTANTS
  PcCount, AramWords, Instr, FiqVector, Targets, Slices, IdleCost,
  Program,      \* the first contents of the sound memory
  Uploads,      \* pairs of a word and an instruction that may be stored to it
  MaxInsns,     \* MAX_BLOCK_INSNS
  CodeWords,    \* words of the borrowed memory
  Reserve,      \* MAX_BLOCK_WORDS
  Reprobe,      \* IC_REPROBE
  DemoteAge,    \* IC_DEMOTE_SLICES
  Presets       \* arm7_jit

Pc == 0 .. PcCount - 1
Slots == 0 .. AramWords - 1
After(p) == IF p = PcCount - 1 THEN 0 ELSE p + 1
Slot(p) == p % AramWords
Address == 0 .. CodeWords - 1

ASSUME MemoryAssumption ==
  /\ PcCount \in Nat \ {0} /\ AramWords \in Nat \ {0} /\ FiqVector \in Pc
  /\ Instr \subseteq [op : {"alu", "write", "b", "bl", "return", "jump"}, cond : BOOLEAN, to : Pc]
  /\ Targets \subseteq Pc /\ Slices \subseteq Nat \ {0} /\ IdleCost \in Nat
  /\ Program \in [Slots -> Instr] /\ Uploads \subseteq Slots \X Instr
ASSUME SizesAssumption ==
  /\ MaxInsns \in 1 .. PcCount /\ Reserve \in Nat /\ MaxInsns + 3 <= Reserve
  /\ CodeWords \in Nat /\ Reserve <= CodeWords
  /\ Reprobe \in Nat /\ DemoteAge \in Nat /\ Presets \subseteq 0 .. 3

\* Words of code: the link entry of a block, an instruction (idle: its taken
\* branch closes an idle loop), an exit through the dispatcher to a known
\* address or to r3, a static exit before and after it is linked, a return
\* cache (at = NoCode before the first patch), what is not live code.
Entry(p) == [op |-> "entry", pc |-> p]
Insn(p, i, idle) == [op |-> "insn", pc |-> p, insn |-> i, idle |-> idle]
Go(p) == [op |-> "go", pc |-> p]
Ret == [op |-> "ret"]
Link(p) == [op |-> "link", pc |-> p]
Jump(p, at) == [op |-> "jump", pc |-> p, at |-> at]
Ic(p, at, left, age) == [op |-> "ic", pc |-> p, at |-> at, left |-> left, age |-> age]
Dead == [op |-> "dead"]

NothingLive == [a \in Address |-> Dead]

NoCode == -1     \* a null pointer of the table
Foreign == -2    \* a pointer the interpreter put there

VARIABLES
  enabled,   \* Arm7Enabled
  level,     \* arm7_jit as latched at arm_Reset: s_active, s_link, s_retcache
  aram, fiq, pin,
  budget,
  mem, cur,  \* the code and s_code_cur
  entries,   \* s_entries
  dirty,     \* s_dirty_lo and s_dirty_hi
  foreign,   \* s_table_foreign
  exec,      \* what runs: nothing, the dispatcher, a word, a cold stub
  seen       \* history: what each word of memory held since the last reset

code == <<mem, cur, entries, dirty>>
vars == <<enabled, level, aram, fiq, pin, budget, code, foreign, exec, seen>>

Idle(p) == [kind |-> "idle", at |-> 0, pc |-> p]            \* p = arm_ArmNextPC
Dispatching(p) == [kind |-> "dispatch", at |-> 0, pc |-> p]
At(at, p) == [kind |-> "code", at |-> at, pc |-> p]         \* p = r3
Cold(at, p) == [kind |-> "cold", at |-> at, pc |-> p]

Clean == [lo |-> AramWords, hi |-> 0]

Pending == fiq /\ pin

-----------------------------------------------------------------------------
(* compile_block                                                           *)

EndsBlock(i) == i.op \in {"b", "bl", "return", "jump"}

PcAt(p, k) == IF p + k < PcCount THEN p + k ELSE p + k - PcCount

\* How many instructions the block of p has: as far as the first that ends it
Ends(p) == {n \in 1 .. MaxInsns : n = MaxInsns \/ EndsBlock(aram[Slot(PcAt(p, n - 1))])}

Length(p) == CHOOSE n \in Ends(p) : \A m \in Ends(p) : n <= m

Found(p, ents) ==
  ents[Slot(p)] \in Address /\ mem[ents[Slot(p)]].op = "entry" /\ mem[ents[Slot(p)]].pc = p

\* e_link
StaticExit(p, ents) ==
  IF level = 1 THEN Go(p)
  ELSE IF Found(p, ents) THEN Jump(p, ents[Slot(p)])
  ELSE Link(p)

\* e_dyn_exit
DynamicExit(i) == IF level >= 3 /\ i.op = "return" THEN Ic(0, NoCode, 0, 0) ELSE Ret

\* What follows the last instruction of a block: where it goes, and where it
\* goes when its condition fails (CK_FAIL_LAST).
Exits(p, ents) ==
  LET last == PcAt(p, Length(p) - 1)
      i == aram[Slot(last)]
      taken == IF i.op \in {"b", "bl"} THEN StaticExit(i.to, ents) ELSE DynamicExit(i)
      next == StaticExit(After(last), ents)
  IN IF ~EndsBlock(i) THEN <<next>>
     ELSE IF i.cond THEN <<taken, next>> ELSE <<taken>>

Safe(p) == \A k \in 1 .. Length(p) : aram[Slot(PcAt(p, k - 1))].op # "write"

Translated(p, k) ==
  LET q == PcAt(p, k - 1)
      i == aram[Slot(q)]
  IN Insn(q, i, i.op = "b" /\ Safe(p) /\ p <= i.to /\ i.to <= q)

Size(p, ents) == 1 + Length(p) + Len(Exits(p, ents))

Emitted(p, at, ents) ==
  [a \in Address |->
     IF a >= at + Size(p, ents) THEN Dead
     ELSE IF a = at THEN Entry(p)
     ELSE IF a \in at + 1 .. at + Length(p) THEN Translated(p, a - at)
     ELSE IF a > at THEN Exits(p, ents)[a - at - Length(p)]
     ELSE mem[a]]

\* (mutant of Cleared) an interpreter's table is taken for the JIT's own
MutTrustsTable(ents) ==
  [s \in Slots |-> IF s \in dirty.lo .. dirty.hi THEN NoCode ELSE ents[s]]

\* jit_flush empties the range written since the last flush, or everything
\* when the interpreter may have filled the table.
Cleared(ents) ==
  [s \in Slots |-> IF foreign \/ s \in dirty.lo .. dirty.hi THEN NoCode ELSE ents[s]]

Noted(d, s) == [lo |-> IF s < d.lo THEN s ELSE d.lo, hi |-> IF s > d.hi THEN s ELSE d.hi]

Full == CodeWords - cur < Reserve

\* compile_block and what it leaves
Compiled(p) ==
  LET at == IF Full THEN 0 ELSE cur
      ents == IF Full THEN Cleared(entries) ELSE entries
  IN [mem |-> Emitted(p, at, ents), cur |-> at + Size(p, ents),
      entries |-> [ents EXCEPT ![Slot(p)] = at],
      dirty |-> Noted(IF Full THEN Clean ELSE dirty, Slot(p)),
      at |-> at, flushed |-> Full]

\* jit_lookup
Lookup(p) ==
  IF Found(p, entries)
  THEN [mem |-> mem, cur |-> cur, entries |-> entries, dirty |-> dirty,
        at |-> entries[Slot(p)], flushed |-> FALSE]
  ELSE Compiled(p)

\* The caller goes on into the code of c, past its link entry; m is the code.
RunIn(c, m, p) ==
  /\ mem' = m /\ cur' = c.cur /\ entries' = c.entries /\ dirty' = c.dirty
  /\ exec' = At(c.at + 1, p)

-----------------------------------------------------------------------------
(* Between two slices                                                      *)

AtRest == exec.kind = "idle"

Store(s, i) ==
  /\ aram' = [aram EXCEPT ![s] = i]
  /\ seen' = [seen EXCEPT ![s] = @ \cup {i}]

\* The SH4 or a DMA writes sound memory.
Upload(s, i) ==
  /\ AtRest /\ <<s, i>> \in Uploads /\ Store(s, i)
  /\ UNCHANGED <<enabled, level, fiq, pin, budget, code, foreign, exec>>

\* The AICA raises its interrupt, or it is acknowledged by the SH4.
SetPin(b) ==
  /\ AtRest /\ pin' = b
  /\ UNCHANGED <<enabled, level, aram, fiq, budget, code, foreign, exec, seen>>

\* arm_SetEnabled(false)
Halt ==
  /\ AtRest /\ enabled' = FALSE
  /\ UNCHANGED <<level, aram, fiq, pin, budget, code, foreign, exec, seen>>

\* arm_jit_on_reset, with what the menu says at that moment
LatchEngine(preset) ==
  /\ level' = preset
  /\ IF preset = 0
     THEN foreign' = TRUE /\ UNCHANGED code
     ELSE /\ entries' = Cleared(entries) /\ foreign' = FALSE
          /\ dirty' = Clean /\ cur' = 0 /\ mem' = NothingLive

\* arm_Reset, with ARM7_RESET_FIX or without; arm_SetEnabled(true) after a halt
\* sets Arm7Enabled behind it.
Reset(on, preset) ==
  /\ AtRest /\ (on => ~enabled)
  /\ enabled' = on /\ exec' = Idle(0) /\ fiq' = FALSE /\ pin' \in {pin, FALSE}
  /\ seen' = [s \in Slots |-> {aram[s]}]
  /\ LatchEngine(preset)
  /\ UNCHANGED <<aram, budget>>

\* arm_Run_Cached: one slice of the interpreter, which owns table and code.
RunCached(p) ==
  /\ AtRest /\ enabled /\ level = 0
  /\ exec' = Idle(p) /\ fiq' \in BOOLEAN /\ pin' \in BOOLEAN
  /\ mem' = NothingLive /\ entries' = [s \in Slots |-> Foreign]
  /\ UNCHANGED <<enabled, level, aram, budget, cur, dirty, foreign, seen>>

Older(w) ==
  IF w.op = "ic" /\ w.age < DemoteAge THEN Ic(w.pc, w.at, w.left, w.age + 1) ELSE w

\* arm_jit_run: s_slices moves on.
Run(n) ==
  /\ AtRest /\ enabled /\ level > 0
  /\ budget' = n /\ exec' = Dispatching(exec.pc)
  /\ mem' = [a \in Address |-> Older(mem[a])]
  /\ UNCHANGED <<enabled, level, aram, fiq, pin, cur, entries, dirty, foreign, seen>>

-----------------------------------------------------------------------------
(* A slice                                                                 *)

Goto(e) == exec' = e /\ UNCHANGED code

Machine == <<enabled, level, foreign>>

\* jit_dispatch_c and the dispatch stub
Dispatch ==
  /\ exec.kind = "dispatch"
  /\ fiq' = (fiq /\ ~pin)
  /\ LET p == IF Pending THEN FiqVector ELSE exec.pc
         c == Lookup(p)
     IN IF budget <= 0 THEN Goto(Idle(p)) ELSE RunIn(c, c.mem, p)
  /\ UNCHANGED <<Machine, aram, pin, budget, seen>>

Runs(op) == exec.kind = "code" /\ mem[exec.at].op = op

\* The link entry: the FIQ sample of DISPATCH
EnterBlock ==
  /\ Runs("entry")
  /\ LET p == mem[exec.at].pc
     IN Goto(IF Pending THEN Dispatching(p) ELSE At(exec.at + 1, p))
  /\ UNCHANGED <<Machine, aram, fiq, pin, budget, seen>>

\* CK_BUDGET and exit_now: no FIQ sample
Exhausted ==
  /\ Runs("insn") /\ budget <= 0
  /\ Goto(Idle(mem[exec.at].pc))
  /\ UNCHANGED <<Machine, aram, fiq, pin, budget, seen>>

Charge(n) == budget' = budget - n

\* The condition fails: past the exit, or to the cold stub that samples FIQ.
Skip(p, i) ==
  /\ i.cond /\ Charge(1)
  /\ Goto(IF EndsBlock(i) THEN At(exec.at + 2, After(p)) ELSE Cold(exec.at + 1, After(p)))
  /\ UNCHANGED <<aram, fiq, pin, seen>>

Falls(p) == Charge(1) /\ Goto(At(exec.at + 1, After(p)))

Alu(p, i) == i.op = "alu" /\ Falls(p) /\ UNCHANGED <<aram, fiq, pin, seen>>

\* MSR, a store to the AICA's registers, a store to memory
Write(p, i) ==
  /\ i.op = "write" /\ Falls(p)
  /\ \/ fiq' \in BOOLEAN /\ UNCHANGED <<aram, pin, seen>>
     \/ pin' \in BOOLEAN /\ UNCHANGED <<aram, fiq, seen>>
     \/ \E u \in Uploads : Store(u[1], u[2]) /\ UNCHANGED <<fiq, pin>>

Branch(i) ==
  /\ i.op \in {"b", "bl"} /\ Charge(IF mem[exec.at].idle THEN 1 + IdleCost ELSE 1)
  /\ Goto(At(exec.at + 1, i.to)) /\ UNCHANGED <<aram, fiq, pin, seen>>

\* With the S bit it restores the PSR.
Dynamic(i) ==
  /\ i.op \in {"return", "jump"} /\ Charge(1)
  /\ \E p \in Targets : Goto(At(exec.at + 1, p))
  /\ fiq' \in BOOLEAN /\ UNCHANGED <<aram, pin, seen>>

\* emit_insn: one instruction
Instruction ==
  /\ Runs("insn") /\ budget > 0
  /\ LET p == mem[exec.at].pc
         i == mem[exec.at].insn
     IN Skip(p, i) \/ Alu(p, i) \/ Write(p, i) \/ Branch(i) \/ Dynamic(i)
  /\ UNCHANGED Machine

\* CK_FAIL
ColdSample ==
  /\ exec.kind = "cold"
  /\ Goto(IF Pending THEN Dispatching(exec.pc) ELSE At(exec.at, exec.pc))
  /\ UNCHANGED <<Machine, aram, fiq, pin, budget, seen>>

-----------------------------------------------------------------------------
(* Exits                                                                   *)

\* (mutant of Survives) the patch goes to where the exit was
MutPatchesAnyway(c) == TRUE

\* Unless compiling flushed the code, the site is still there.
Survives(c) == ~c.flushed

\* jit_link_c
LinkSite ==
  /\ Runs("link")
  /\ LET p == mem[exec.at].pc
         c == Lookup(p)
     IN IF Pending \/ budget <= 0 THEN Goto(Dispatching(p))
        ELSE RunIn(c, IF Survives(c) THEN [c.mem EXCEPT ![exec.at] = Jump(p, c.at)]
                      ELSE c.mem, p)
  /\ UNCHANGED <<Machine, aram, fiq, pin, budget, seen>>

\* A linked exit, or one to the dispatcher
Follow ==
  /\ \/ Runs("jump") /\ Goto(At(mem[exec.at].at, mem[exec.at].pc))
     \/ Runs("go") /\ Goto(Dispatching(mem[exec.at].pc))
     \/ Runs("ret") /\ Goto(Dispatching(exec.pc))
  /\ UNCHANGED <<Machine, aram, fiq, pin, budget, seen>>

Cached(w) == w.at # NoCode

\* What jit_icmiss_c makes of the site w that missed on p
Repatched(w, p, c) ==
  IF Cached(w) /\ w.age < DemoteAge THEN Ret ELSE Ic(p, c.at, Reprobe, 0)

\* The code of a return cache
ReturnHit ==
  /\ Runs("ic") /\ Cached(mem[exec.at]) /\ mem[exec.at].pc = exec.pc
  /\ Goto(At(mem[exec.at].at, exec.pc))
  /\ UNCHANGED <<Machine, aram, fiq, pin, budget, seen>>

\* The icmiss stub and jit_icmiss_c
ReturnMiss ==
  /\ Runs("ic") /\ ~(Cached(mem[exec.at]) /\ mem[exec.at].pc = exec.pc)
  /\ LET w == mem[exec.at]
         c == Lookup(exec.pc)
     IN IF w.left > 0
        THEN /\ mem' = [mem EXCEPT ![exec.at] = Ic(w.pc, w.at, w.left - 1, w.age)]
             /\ exec' = Dispatching(exec.pc) /\ UNCHANGED <<cur, entries, dirty>>
        ELSE IF Pending \/ budget <= 0 THEN Goto(Dispatching(exec.pc))
        ELSE RunIn(c, IF Survives(c)
                      THEN [c.mem EXCEPT ![exec.at] = Repatched(w, exec.pc, c)]
                      ELSE c.mem, exec.pc)
  /\ UNCHANGED <<Machine, aram, fiq, pin, budget, seen>>

-----------------------------------------------------------------------------

\* arm_Init, whose arm_Reset latches an engine
Init ==
  /\ level \in Presets /\ enabled = FALSE
  /\ aram = Program /\ fiq = FALSE /\ pin = FALSE /\ budget = 0
  /\ mem = NothingLive /\ cur = 0
  /\ entries = [s \in Slots |-> NoCode]
  /\ dirty = Clean /\ foreign = (level = 0)
  /\ exec = Idle(0) /\ seen = [s \in Slots |-> {aram[s]}]

Engine ==
  \/ Dispatch \/ EnterBlock \/ Exhausted \/ Instruction \/ ColdSample
  \/ LinkSite \/ Follow \/ ReturnHit \/ ReturnMiss

Next ==
  \/ \E s \in Slots, i \in Instr : Upload(s, i)
  \/ \E b \in BOOLEAN : SetPin(b) \/ \E p \in Presets : Reset(b, p)
  \/ Halt
  \/ \E p \in Targets : RunCached(p)
  \/ \E n \in Slices : Run(n)
  \/ Engine

Spec == Init /\ [][Next]_vars

-----------------------------------------------------------------------------
(* Properties                                                              *)

Words ==
  {Ret, Dead} \cup {Entry(p) : p \in Pc} \cup {Go(p) : p \in Pc} \cup {Link(p) : p \in Pc}
    \cup {Insn(p, i, b) : p \in Pc, i \in Instr, b \in BOOLEAN}
    \cup {Jump(p, a) : p \in Pc, a \in Address}
    \cup {Ic(p, a, n, g) : p \in Pc, a \in Address \cup {NoCode},
                          n \in 0 .. Reprobe, g \in 0 .. DemoteAge}

TypeOK ==
  /\ enabled \in BOOLEAN /\ level \in 0 .. 3
  /\ aram \in [Slots -> Instr] /\ seen \in [Slots -> SUBSET Instr]
  /\ fiq \in BOOLEAN /\ pin \in BOOLEAN /\ budget \in Int
  /\ mem \in [Address -> Words] /\ cur \in 0 .. CodeWords
  /\ entries \in [Slots -> Address \cup {NoCode, Foreign}]
  /\ dirty \in [lo : 0 .. AramWords, hi : Slots] /\ foreign \in BOOLEAN
  /\ exec \in [kind : {"idle", "dispatch", "code", "cold"}, at : Address, pc : Pc]

\* Where the machine is, for the interpreter's macros.
Phase ==
  IF exec.kind = "idle" THEN "idle"
  ELSE IF Runs("insn") THEN "inside" ELSE "boundary"

GuestPc ==
  IF exec.kind = "code" /\ mem[exec.at].op \in {"entry", "insn", "go", "link", "jump"}
  THEN mem[exec.at].pc ELSE exec.pc

Arm == INSTANCE ArmDispatch WITH phase <- Phase, pc <- GuestPc, jit <- level > 0

ImplementsArm == Arm!Spec

\* Live code: the exits lead where they say, to a link entry, and the table
\* knows blocks by their addresses.
Links(w) ==
  (w.op = "jump" \/ (w.op = "ic" /\ Cached(w))) =>
    w.at < cur /\ mem[w.at] = Entry(w.pc)

Tracked ==
  level > 0 => \A s \in Slots :
    entries[s] # NoCode =>
      /\ s \in dirty.lo .. dirty.hi
      /\ entries[s] < cur /\ mem[entries[s]].op = "entry" /\ Slot(mem[entries[s]].pc) = s

ChainsLeadHome ==
  /\ level > 0 => \A a \in Address : a < cur => Links(mem[a])
  /\ Tracked
=============================================================================
