----------------------------- MODULE ArmDispatch ----------------------------
(***************************************************************************)
(* What an engine of the ARM7 promises the emulator, as the cached         *)
(* interpreter states it in its macros (plugs/vbaARM/arm7_cached.cpp):     *)
(* DISPATCH at the end of a block and after a failed condition takes a     *)
(* pending FIQ and then looks at the budget, ADVANCE inside a block looks  *)
(* at the budget alone, and a slice that ends leaves the address of the    *)
(* first instruction it did not start.  What runs at an address is an      *)
(* instruction the sound memory held there since the last reset, the only  *)
(* time an engine forgets what it decoded.                                 *)
(***************************************************************************)
EXTENDS Integers

CONSTANTS
  PcCount,     \* addresses, in words: the ARM7's window repeats its memory
  AramWords,   \* words of sound memory
  Instr,       \* instructions, [op, cond, to]
  FiqVector,
  Targets,     \* where a return or a jump through a register leads
  Slices,      \* budgets of a slice
  IdleCost     \* charged for another turn of an idle loop

Pc == 0 .. PcCount - 1
Slots == 0 .. AramWords - 1
After(p) == IF p = PcCount - 1 THEN 0 ELSE p + 1
Slot(p) == p % AramWords

VARIABLES
  phase,     \* "idle" between two slices, at a "boundary", "inside" a block
  pc, budget,
  fiq,       \* armFiqEnable
  pin,       \* e68k_out
  seen,      \* what each word of memory held since the last reset
  enabled,   \* Arm7Enabled
  jit        \* the engine latched is not the interpreter

vars == <<phase, pc, budget, fiq, pin, seen, enabled, jit>>

Init ==
  /\ phase = "idle" /\ pc = 0 /\ budget = 0 /\ fiq = FALSE /\ pin = FALSE
  /\ \E program \in [Slots -> Instr] : seen = [s \in Slots |-> {program[s]}]
  /\ enabled = FALSE /\ jit \in BOOLEAN

-----------------------------------------------------------------------------
(* Between two slices                                                      *)

Remember(s, i) == seen' = [seen EXCEPT ![s] = @ \cup {i}]

Load(s, i) ==
  /\ phase = "idle" /\ Remember(s, i)
  /\ UNCHANGED <<phase, pc, budget, fiq, pin, enabled, jit>>

SetPin ==
  /\ phase = "idle" /\ pin' \in BOOLEAN
  /\ UNCHANGED <<phase, pc, budget, fiq, seen, enabled, jit>>

Halt ==
  /\ phase = "idle" /\ enabled' = FALSE
  /\ UNCHANGED <<phase, pc, budget, fiq, pin, seen, jit>>

Reset ==
  /\ phase = "idle" /\ pc' = 0 /\ fiq' = FALSE /\ pin' \in {pin, FALSE}
  /\ \E program \in [Slots -> Instr] :
       /\ \A s \in Slots : program[s] \in seen[s]
       /\ seen' = [s \in Slots |-> {program[s]}]
  /\ enabled' \in BOOLEAN /\ jit' \in BOOLEAN
  /\ UNCHANGED <<phase, budget>>

Run(n) ==
  /\ phase = "idle" /\ enabled /\ jit
  /\ phase' = "boundary" /\ budget' = n
  /\ UNCHANGED <<pc, fiq, pin, seen, enabled, jit>>

\* A whole slice of the interpreter
Interpret ==
  /\ phase = "idle" /\ enabled /\ ~jit
  /\ pc' \in Pc /\ fiq' \in BOOLEAN /\ pin' \in BOOLEAN
  /\ UNCHANGED <<phase, budget, seen, enabled, jit>>

-----------------------------------------------------------------------------
(* A slice                                                                 *)

\* DISPATCH; an engine that has just taken the FIQ sample may leave the budget
\* to the instruction.
Dispatch ==
  /\ phase = "boundary"
  /\ pc' = IF fiq /\ pin THEN FiqVector ELSE pc
  /\ fiq' = (fiq /\ ~pin)
  /\ phase' \in {"inside"} \cup (IF budget <= 0 THEN {"idle"} ELSE {})
  /\ UNCHANGED <<budget, pin, seen, enabled, jit>>

Stop ==
  /\ phase = "inside" /\ budget <= 0 /\ phase' = "idle"
  /\ UNCHANGED <<pc, budget, fiq, pin, seen, enabled, jit>>

Quiet == UNCHANGED <<fiq, pin, seen>>

Charge(n) == budget' = budget - n

\* On with the next instruction, or a new block if this one is long enough
Advance == pc' = After(pc) /\ phase' \in {"inside", "boundary"} /\ Charge(1)

Leave(p) == pc' = p /\ phase' = "boundary"

\* A loop that only reads cannot end in this slice.
IdleLoop(to) ==
  to <= pc /\ \A p \in to .. pc : p # pc => \E i \in seen[Slot(p)] : i.op = "alu"

Execute(i) ==
  /\ phase = "inside" /\ budget > 0 /\ i \in seen[Slot(pc)]
  /\ \/ i.cond /\ Leave(After(pc)) /\ Charge(1) /\ Quiet
     \/ i.op = "alu" /\ Advance /\ Quiet
     \/ /\ i.op = "write" /\ Advance
        /\ \/ fiq' \in BOOLEAN /\ UNCHANGED <<pin, seen>>
           \/ pin' \in BOOLEAN /\ UNCHANGED <<fiq, seen>>
           \/ \E s \in Slots, j \in Instr : Remember(s, j) /\ UNCHANGED <<fiq, pin>>
     \/ /\ i.op \in {"b", "bl"} /\ Leave(i.to) /\ Quiet
        /\ Charge(1) \/ (i.op = "b" /\ IdleLoop(i.to) /\ Charge(1 + IdleCost))
     \/ /\ i.op \in {"return", "jump"} /\ \E p \in Targets : Leave(p) /\ Charge(1)
        /\ fiq' \in BOOLEAN /\ UNCHANGED <<pin, seen>>
  /\ UNCHANGED <<enabled, jit>>

Next ==
  \/ \E s \in Slots, i \in Instr : Load(s, i)
  \/ SetPin \/ Halt \/ Reset \/ Interpret
  \/ \E n \in Slices : Run(n)
  \/ Dispatch \/ Stop
  \/ \E i \in Instr : Execute(i)

Spec == Init /\ [][Next]_vars
=============================================================================
