----------------------------- MODULE CodeCache ------------------------------
(***************************************************************************)
(* The recompiler's code cache: blocks of SH4 code translated into the     *)
(* cache (dc/sh4/rec_v2/driver.cpp), found again by guest address, and     *)
(* linked to one another by the exits they patch in themselves             *)
(* (wii/dc/sh4/rec_v2/wii_driver.cpp).                                     *)
(*                                                                         *)
(* The cache is an array of words.  Clearing it takes LastAddr back and    *)
(* forgets every block, but the words stay where they are until the next   *)
(* block is compiled over them; and a guest that writes CCR clears it from *)
(* inside a block, which runs on to its exit.                              *)
(*                                                                         *)
(* The block table is the map of BlockMap, which BlockManager implements.  *)
(* A guest block is an address and a version, which changes when the guest *)
(* rewrites it: a version stands for its first and last instruction, which *)
(* is what the guard at a block's entry compares.                          *)
(*                                                                         *)
(* Left out: a block that does not compile (ngen_Compile refuses below     *)
(* 16 KB free, rdv_CompileBlock has cleared long before), the fastmem      *)
(* trampolines.                                                            *)
(***************************************************************************)
EXTENDS Integers, Sequences

CONSTANTS
  Pc,          \* guest addresses of blocks
  Shape,       \* what a block holds after its entry: a sequence of words
  Boot,        \* the two boot addresses
  Known,       \* the addresses guarded by JIT_SBP = 1
  Crowded,     \* blocks whose bucket of the block table is full
  InRam,       \* the blocks in RAM, which can be rewritten
  CodeSize,    \* words of the cache
  FlushAt,     \* fill from which a compilation clears first
  MaxVersion,  \* bound: times a block is rewritten
  Presets      \* [sbp, ici, link_guard]: JIT_SBP, JIT_ICI, JIT_LINK_GUARD

\* The words of a block: Body for what matters to nobody, Link for a static
\* exit, Ic for a dynamic exit with an inline cache, Ret for an exit through the
\* table (dynamic without an inline cache, or with an interrupt check); and
\* what Link and Ic are patched into.
Word(op, pc, at) == [op |-> op, pc |-> pc, at |-> at]
None == "none"
Body == Word("body", None, 0)
Link(pc) == Word("link", pc, 0)
Jump(pc, at) == Word("jump", pc, at)
Ic == Word("ic", None, 0)
IcJump(pc, at) == Word("icjump", pc, at)
Ret == Word("ret", None, 0)
Entry(pc, ver, guard) == [op |-> "entry", pc |-> pc, ver |-> ver, guard |-> guard]

Unpatched == {Body, Ic, Ret} \cup {Link(p) : p \in Pc}

NoBlocks == [p \in {} |-> 0]

Size(pc) == Len(Shape[pc])

ASSUME ProgramAssumption ==
  /\ None \notin Pc /\ Boot \subseteq Pc /\ Known \subseteq Pc /\ InRam \subseteq Pc
  /\ \A p \in Pc : Size(p) \in Nat
  /\ \A p \in Pc : \A i \in 1 .. Size(p) : Shape[p][i] \in Unpatched
ASSUME SizesAssumption ==
  /\ CodeSize \in Nat \ {0} /\ FlushAt \in Nat \ {0} /\ MaxVersion \in Nat
  /\ \A p \in Pc : FlushAt + Size(p) <= CodeSize
ASSUME PresetsAssumption ==
  Presets \subseteq [sbp : 0 .. 2, ici : 0 .. 2, link_guard : BOOLEAN]

Address == 0 .. CodeSize - 1

VARIABLES
  preset,
  ram,        \* the version of each guest block
  mem,        \* the words of the cache
  LastAddr,
  map,        \* the block table: where the block of an address starts
  exec,       \* what runs: the table lookup of pc, a block's entry or its body
  dirty,      \* history: blocks rewritten since the guest invalidated last
  old,        \* history: the running code outlived a clear
  limit,      \* history: the words the running code may reach
  failed      \* history: blocks whose guard failed since they were rewritten

history == <<dirty, old, limit, failed>>
vars == <<preset, ram, mem, LastAddr, map, exec, history>>

At(pc, at) == [kind |-> "entry", pc |-> pc, at |-> at]
Inside(pc, at) == [kind |-> "body", pc |-> pc, at |-> at]
Lookup(pc) == [kind |-> "lookup", pc |-> pc, at |-> 0]

-----------------------------------------------------------------------------
(* Compiling                                                               *)

\* DoCheck
Mode == IF preset.ici = 2 THEN 2 ELSE preset.sbp

Guarded(pc) == pc \in InRam /\ (Mode = 2 \/ (Mode = 1 /\ pc \in Known))

\* rdv_CompilePC clears at the boot addresses, rdv_CompileBlock when full.
ClearsFirst(pc, last) == (preset.sbp # 0 /\ pc \in Boot) \/ last >= FlushAt

Start(pc, last) == IF ClearsFirst(pc, last) THEN 0 ELSE last

Translation(pc, i) ==
  IF i = 0 THEN Entry(pc, ram[pc], Guarded(pc)) ELSE Shape[pc][i]

\* ngen_Compile at the address given
Emitted(pc, at) ==
  [a \in Address |-> IF a \in at .. at + Size(pc)
                     THEN Translation(pc, a - at) ELSE mem[a]]

\* bm_AddCode, which evicts a block when the bucket is full
Added(table, pc, at) ==
  {[p \in (DOMAIN table \ {e}) \cup {pc} |-> IF p = pc THEN at ELSE table[p]] :
     e \in {pc} \cup (IF pc \in Crowded THEN DOMAIN table \cap Crowded ELSE {})}

\* rdv_CompilePC from a table and a fill: the caches it may leave, and where
\* in them the block is.
CompilePC(pc, table, last) ==
  LET at == Start(pc, last)
      cleared == ClearsFirst(pc, last)
  IN {[mem |-> Emitted(pc, at), last |-> at + 1 + Size(pc), map |-> t,
       at |-> at, cleared |-> cleared] :
        t \in Added(IF cleared THEN NoBlocks ELSE table, pc, at)}

\* rdv_FindOrCompile
FindOrCompile(pc) ==
  IF pc \in DOMAIN map
  THEN {[mem |-> mem, last |-> LastAddr, map |-> map, at |-> map[pc], cleared |-> FALSE]}
  ELSE CompilePC(pc, map, LastAddr)

\* The block of pc in the cache c runs next; the words of c are m.
RunIn(c, m, pc) ==
  /\ mem' = m /\ LastAddr' = c.last /\ map' = c.map
  /\ exec' = At(pc, c.at)
  /\ dirty' = IF c.cleared THEN {} ELSE dirty
  /\ old' = FALSE /\ limit' = c.last

\* The loop's bm_GetCode and, when it finds nothing, ngen_FailedToFindBlock.
GetCode ==
  /\ exec.kind = "lookup"
  /\ \E c \in FindOrCompile(exec.pc) : RunIn(c, c.mem, exec.pc)
  /\ UNCHANGED <<preset, ram, failed>>

-----------------------------------------------------------------------------
(* Running a block                                                         *)

GuardFails == mem[exec.at].guard /\ mem[exec.at].ver # ram[mem[exec.at].pc]

Enter ==
  /\ exec.kind = "entry" /\ mem[exec.at].op = "entry" /\ ~GuardFails
  /\ exec' = Inside(mem[exec.at].pc, exec.at)
  /\ UNCHANGED <<preset, ram, mem, LastAddr, map, history>>

\* (mutant of BlockCheckFail) only the table forgets the block
MutForgetOne ==
  /\ exec.kind = "entry" /\ mem[exec.at].op = "entry" /\ GuardFails
  /\ LET pc == mem[exec.at].pc
     IN /\ \E c \in CompilePC(pc, [p \in DOMAIN map \ {pc} |-> map[p]], LastAddr) :
             RunIn(c, c.mem, pc)
        /\ failed' = failed \cup {pc}
  /\ UNCHANGED <<preset, ram>>

\* rdv_BlockCheckFail: the whole cache is cleared, and the block compiled anew.
BlockCheckFail ==
  /\ exec.kind = "entry" /\ mem[exec.at].op = "entry" /\ GuardFails
  /\ LET pc == mem[exec.at].pc
     IN /\ \E c \in CompilePC(pc, NoBlocks, 0) : RunIn([c EXCEPT !.cleared = TRUE], c.mem, pc)
        /\ failed' = failed \cup {pc}
  /\ UNCHANGED <<preset, ram>>

\* The timeslice is used up at a block's entry: UpdateSystem may take an
\* interrupt, and the block to run is looked up.
Timeslice ==
  /\ exec.kind = "entry" /\ mem[exec.at].op = "entry" /\ ~GuardFails
  /\ \E pc \in Pc : exec' = Lookup(pc)
  /\ UNCHANGED <<preset, ram, mem, LastAddr, map, history>>

\* A store of the running block, or a DMA, rewrites a block of guest code.
Rewrite(pc) ==
  /\ exec.kind \in {"body", "lookup"} /\ pc \in InRam /\ ram[pc] < MaxVersion
  /\ ram' = [ram EXCEPT ![pc] = @ + 1]
  /\ dirty' = dirty \cup {pc} /\ failed' = failed \ {pc}
  /\ UNCHANGED <<preset, mem, LastAddr, map, exec, old, limit>>

\* (mutant of Invalidate) the table is not cleared
MutClearKeepsTable ==
  /\ exec.kind = "body"
  /\ \/ /\ preset.ici = 0
        /\ LastAddr' = 0 /\ old' = TRUE /\ UNCHANGED map
     \/ /\ preset.ici # 0 /\ UNCHANGED <<LastAddr, map, old>>
  /\ dirty' = {}
  /\ UNCHANGED <<preset, ram, mem, exec, limit, failed>>

\* CCN_CCR_write with ICI: JIT_ICI = 0 clears the cache under the running block.
Invalidate ==
  /\ exec.kind = "body"
  /\ \/ /\ preset.ici = 0
        /\ LastAddr' = 0 /\ map' = NoBlocks /\ old' = TRUE
     \/ /\ preset.ici # 0 /\ UNCHANGED <<LastAddr, map, old>>
  /\ dirty' = {}
  /\ UNCHANGED <<preset, ram, mem, exec, limit, failed>>

\* recSh4_Reset, between two runs of the CPU
Reset(pc) ==
  /\ exec.kind = "lookup"
  /\ LastAddr' = 0 /\ map' = NoBlocks /\ exec' = Lookup(pc)
  /\ dirty' = {} /\ old' = FALSE /\ limit' = 0
  /\ UNCHANGED <<preset, ram, mem, failed>>

-----------------------------------------------------------------------------
(* Leaving a block                                                         *)

\* (mutant of StillWants) the word's kind is looked at, not where it leads
MutSameKind(m, site, word) == m[site].op = word.op

\* static_site_wants and the check of ngen_LinkBlock_Dynamic_IC: is the exit
\* still the one that asked?
StillWants(m, site, word) == m[site] = word

\* ngen_LinkBlock_Static: finds the block the site's words name and patches the
\* site, whose address was taken before.  The guest goes to "asked".
LinkBlock_Static(site, asked) ==
  LET pc == mem[site].pc
  IN \E c \in FindOrCompile(pc) :
       RunIn(c, IF StillWants(c.mem, site, Link(pc)) \/ ~preset.link_guard
                THEN [c.mem EXCEPT ![site] = Jump(pc, c.at)] ELSE c.mem, asked)

\* ngen_LinkBlock_Dynamic_IC
LinkBlock_Dynamic_IC(site, pc) ==
  \E c \in FindOrCompile(pc) :
    RunIn(c, IF StillWants(c.mem, site, Ic)
             THEN [c.mem EXCEPT ![site] = IcJump(pc, c.at)] ELSE c.mem, pc)

Goto(target) ==
  /\ exec' = target
  /\ UNCHANGED <<mem, LastAddr, map, dirty, old, limit>>

\* Where the guest goes at an exit of the running block
Targets(site) ==
  LET exit == Shape[exec.pc][site - exec.at]
  IN IF exit.op = "link" THEN {exit.pc} ELSE Pc

\* One of the exits of the running block, as its word is by now
Exit(site, pc) ==
  /\ exec.kind = "body"
  /\ site \in exec.at + 1 .. exec.at + Size(exec.pc)
  /\ pc \in Targets(site)
  /\ LET w == mem[site]
     IN \/ w.op = "link" /\ LinkBlock_Static(site, pc)
        \/ w.op = "jump" /\ Goto(At(pc, w.at))
        \/ w.op = "ic" /\ LinkBlock_Dynamic_IC(site, pc)
        \/ w.op = "icjump" /\ pc = w.pc /\ Goto(At(pc, w.at))
        \/ w.op = "icjump" /\ pc # w.pc /\ Goto(Lookup(pc))
        \/ w.op = "ret" /\ Goto(Lookup(pc))
  /\ UNCHANGED <<preset, ram, failed>>

-----------------------------------------------------------------------------

Init ==
  /\ preset \in Presets
  /\ ram = [p \in Pc |-> 0]
  /\ mem = [a \in Address |-> Body]
  /\ LastAddr = 0 /\ map = NoBlocks
  /\ \E pc \in Pc : exec = Lookup(pc)
  /\ dirty = {} /\ old = FALSE /\ limit = 0 /\ failed = {}

Next ==
  \/ GetCode
  \/ Enter \/ BlockCheckFail \/ Timeslice
  \/ \E pc \in Pc : Rewrite(pc) \/ Reset(pc)
  \/ Invalidate
  \/ \E site \in Address, pc \in Pc : Exit(site, pc)

Spec == Init /\ [][Next]_vars

-----------------------------------------------------------------------------
(* Properties                                                              *)

Words ==
  Unpatched \cup {Jump(p, a) : p \in Pc, a \in Address}
            \cup {IcJump(p, a) : p \in Pc, a \in Address}
            \cup {Entry(p, v, g) : p \in Pc, v \in 0 .. MaxVersion, g \in BOOLEAN}

TypeOK ==
  /\ preset \in Presets
  /\ ram \in [Pc -> 0 .. MaxVersion]
  /\ mem \in [Address -> Words]
  /\ LastAddr \in 0 .. CodeSize /\ limit \in 0 .. CodeSize
  /\ DOMAIN map \subseteq Pc /\ \A p \in DOMAIN map : map[p] \in Address
  /\ exec \in [kind : {"lookup", "entry", "body"}, pc : Pc, at : Address]
  /\ dirty \subseteq Pc /\ failed \subseteq Pc /\ old \in BOOLEAN

\* Whatever way a block is reached (the table, a patched exit, an inline
\* cache), through clears of the cache under the running block: what runs is a
\* translation of the address the guest jumped to, from its first word on
\* (JIT_LINK_GUARD, wii_driver.cpp:4699).
RunsWhatWasAsked ==
  preset.link_guard /\ exec.kind \in {"entry", "body"} =>
    mem[exec.at].op = "entry" /\ mem[exec.at].pc = exec.pc

Fresh == mem[exec.at].ver = ram[exec.pc]

\* A rewritten block is not entered in its old translation any more once the
\* guest has invalidated, or the cache was cleared, and the code that outlived
\* the clear has been left; JIT_ICI = 1 is a gamble "with JIT_SBP < 2"
\* (ccn.cpp:178).
Gamble == preset.ici = 1 /\ preset.sbp < 2
FreshAfterInvalidate ==
  [][Enter /\ preset.link_guard => Fresh \/ Gamble \/ exec.pc \in dirty \/ old]_vars

\* driver.cpp:508: a failed guard clears everything, for a block forgotten by
\* the table alone would fail again through the exits patched to it, "recompiling
\* the same block forever".  A guard fails once per rewrite.
FailsOncePerRewrite ==
  [][BlockCheckFail /\ preset.link_guard => mem[exec.at].pc \notin failed]_vars

=============================================================================
