------------------------------ MODULE FlashChip -----------------------------
(***************************************************************************)
(* The flash of dc/mem/sh4_area0.cpp: an AMD-style chip of command         *)
(* sequences under FLASH_CHIP, plain RAM without it.  A byte is the set of *)
(* its bits, so that a program, which only clears bits, is an              *)
(* intersection; Cells are the addresses whose contents are followed.  A   *)
(* write wider than a byte is dropped and does not appear.                 *)
(***************************************************************************)
EXTENDS Integers

CONSTANT Cells   \* addresses followed, of 0 .. 16r1FFFF

ASSUME CellsAssumption == \A a \in Cells : a \in Nat /\ a < 131072

Byte == SUBSET (0 .. 7)
xAA == {1, 3, 5, 7}   x55 == {0, 2, 4, 6}   x80 == {7}   xA0 == {5, 7}
x90 == {4, 7}         x10 == {4}            x30 == {4, 5}
xF0 == {4, 5, 6, 7}   xFF == 0 .. 7

State == {"FS_Normal", "FS_ReadAMDID1", "FS_ReadAMDID2", "FS_ByteProgram",
          "FS_EraseAMD1", "FS_EraseAMD2", "FS_EraseAMD3", "FS_SelectMode"}

\* The chip: s_flash_state, flash_b and flash_b_dirty
Chip == [state : State, data : [Cells -> Byte], dirty : BOOLEAN]

\* The addresses of the two halves of the unlock sequence, and of a command
Page(addr) == addr % 4096
Low(addr) == addr % 65536
Unlock1(addr) == Page(addr) \in {1365, 2730}                            \* 555, AAA
Unlock2(addr) == Low(addr) \in {682, 10922} \/ Page(addr) = 1365        \* 2AA, 2AAA
Command(addr) == Low(addr) \in {1365, 21845} \/ Page(addr) = 2730       \* 555, 5555

\* Blocks of 8 KB: 13 is the factory partition
Block(addr) == addr \div 8192
Factory(addr) == Block(addr) = 13

\* The blocks of the sector whose first block b is; an erase at another block
\* is ignored.
Sector(b) ==
  CASE b = 0 -> 0 .. 7 [] b = 8 -> 8 .. 11 [] b = 12 -> {12} [] b = 14 -> {14, 15}
    [] OTHER -> {}

Go(c, state) == [c EXCEPT !.state = state]

\* (mutant of ByteProgram) the factory partition takes programs
MutNoProtection(c, addr, val) ==
  Go(IF addr \in Cells /\ ~(c.data[addr] \subseteq val)
     THEN [c EXCEPT !.data[addr] = @ \cap val, !.dirty = TRUE] ELSE c, "FS_Normal")

ByteProgram(c, addr, val) ==
  Go(IF ~Factory(addr) /\ addr \in Cells /\ ~(c.data[addr] \subseteq val)
     THEN [c EXCEPT !.data[addr] = @ \cap val, !.dirty = TRUE]
     ELSE c,
     "FS_Normal")

\* (mutant of Erased) an erase is no change to save
MutEraseNotDirty(c, where) ==
  [c EXCEPT !.data = [a \in Cells |-> IF Block(a) \in where THEN xFF ELSE @[a]]]

Erased(c, where) ==
  [c EXCEPT !.dirty = TRUE,
            !.data = [a \in Cells |-> IF Block(a) \in where THEN xFF ELSE @[a]]]

Erase(c, addr, val) ==
  Go(CASE val = x10 /\ Unlock1(addr) -> Erased(c, (0 .. 15) \ {13})
       [] val = x30 /\ Sector(Block(addr)) # {} -> Erased(c, Sector(Block(addr)))
       [] OTHER -> c,
     "FS_Normal")

\* flash_chip_write: a write that does not fit drops the sequence.
flash_chip_write(c, addr, val) ==
  CASE c.state = "FS_Normal" ->
         IF val = xAA /\ Unlock1(addr) THEN Go(c, "FS_ReadAMDID1") ELSE c
    [] c.state = "FS_ReadAMDID1" ->
         Go(c, IF val = x55 /\ Unlock2(addr) THEN "FS_ReadAMDID2" ELSE "FS_Normal")
    [] c.state = "FS_ReadAMDID2" ->
         Go(c, CASE val = x80 /\ Command(addr) -> "FS_EraseAMD1"
                 [] val = xA0 /\ Command(addr) -> "FS_ByteProgram"
                 [] val = x90 /\ Low(addr) = 21845 -> "FS_SelectMode"
                 [] OTHER -> "FS_Normal")
    [] c.state = "FS_ByteProgram" -> ByteProgram(c, addr, val)
    [] c.state = "FS_EraseAMD1" ->
         Go(c, IF val = xAA /\ Unlock1(addr) THEN "FS_EraseAMD2" ELSE "FS_Normal")
    [] c.state = "FS_EraseAMD2" ->
         Go(c, IF val = x55 /\ Unlock2(addr) THEN "FS_EraseAMD3" ELSE "FS_Normal")
    [] c.state = "FS_EraseAMD3" -> Erase(c, addr, val)
    [] c.state = "FS_SelectMode" -> Go(c, "FS_Normal")

\* WriteMem_area0 without FLASH_CHIP
PlainWrite(c, addr, val) ==
  [c EXCEPT !.dirty = TRUE,
            !.data = IF addr \in Cells THEN [@ EXCEPT ![addr] = val] ELSE @]

\* flash_chip_read_id: the read of an ID ends the mode.
flash_chip_read_id(c) == IF c.state = "FS_SelectMode" THEN Go(c, "FS_Normal") ELSE c

=============================================================================
