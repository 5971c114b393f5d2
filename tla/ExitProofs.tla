----------------------------- MODULE ExitProofs -----------------------------
(***************************************************************************)
(* Proofs about Exit for any cells, files, guest writes and settings, and  *)
(* any number of sessions: what the guest sees of the chip, what a save    *)
(* leaves on the card, and where the watchdog may fire.                    *)
(***************************************************************************)
EXTENDS Exit, TLAPS

SaveSteps == {"open", "write", "close", "rename", "remove", "rename2"}
Teardown == {"quiesce", "bluetooth", "arm", "exit"}

\* A file that a load makes bytes of
File(f) == \A a \in Cells : a \in DOMAIN f => f[a] \in Byte

Types ==
  /\ preset \in Presets /\ chip \in Chip /\ loaded \in BOOLEAN
  /\ at \in {"off", "play"} \cup SaveSteps \cup Teardown
  /\ patch \in [on : BOOLEAN, orig : [Cells -> Byte]]
  /\ pads \in BOOLEAN /\ watchdog \in BOOLEAN /\ hung \in BOOLEAN
  /\ session \in 0 .. MaxSessions /\ (at # "off" => session > 0)
  /\ File(def) /\ File(wb) /\ File(tmp)

\* In play the chip holds the file, patched, and what the guest changed; the
\* factory partition it cannot change.
InPlay ==
  at = "play" =>
    /\ wb = start.wb /\ start.data = Loads(Source)
    /\ patch = [on |-> Patches(preset.bc, start.data), orig |-> start.data]
    /\ preset.chip =>
         /\ \A a \in Broadcast : patch.on \/ chip.data[a] = start.data[a]
         /\ ~chip.dirty => chip.data = Patched(preset.bc, start.data)

\* During a save the patch is off the chip, the old file stays until the
\* temporary one is closed, and that one is then whole.
InSave ==
  at \in SaveSteps =>
    /\ loaded /\ ~patch.on /\ \A a \in Broadcast : chip.data[a] = start.data[a]
    /\ wb = start.wb \/ (at = "rename2" /\ wb = NoFile)
    /\ at \in {"close", "rename", "remove", "rename2"} => tmp = chip.data \/ "close" \in trouble

\* Once the save is over
Kept ==
  preset.save /\ preset.chip /\ loaded /\ trouble \subseteq {"rename", "alarm"} =>
    Loads(Source) = Restored(chip.data)
InTeardown == at \in Teardown \cup {"off"} /\ session > 0 => Kept

Watched == WatchdogSafe /\ (at = "arm" => ~pads)

IInv ==
  /\ Types /\ InPlay /\ InSave /\ InTeardown /\ Watched /\ SaveAtomic
  /\ session > 0 /\ ~loaded => wb = NoFile

-----------------------------------------------------------------------------
(* The chip                                                                *)

\* What a write may change of the chip: not the factory partition, and
\* nothing without noting that there is something to save.
Harmless(c, d) ==
  /\ d \in Chip
  /\ \A a \in Cells : Factory(a) => d.data[a] = c.data[a]
  /\ ~d.dirty => d.data = c.data /\ ~c.dirty

LEMMA GoIsHarmless ==
  ASSUME NEW c \in Chip, NEW d, Harmless(c, d), NEW state \in State
  PROVE  Harmless(c, Go(d, state))
BY DEF Harmless, Go, Chip

LEMMA ProgramIsHarmless ==
  ASSUME NEW c \in Chip, NEW addr \in Nat, NEW val \in Byte
  PROVE  Harmless(c, ByteProgram(c, addr, val))
<1> DEFINE d == IF ~Factory(addr) /\ addr \in Cells /\ ~(c.data[addr] \subseteq val)
                THEN [c EXCEPT !.data[addr] = @ \cap val, !.dirty = TRUE] ELSE c
<1>1. Harmless(c, d)
  <2>1. CASE ~Factory(addr) /\ addr \in Cells /\ ~(c.data[addr] \subseteq val)
    <3>1. c.data \in [Cells -> Byte] /\ c.data[addr] \cap val \in Byte
      BY <2>1 DEF Chip, Byte
    <3>2. d = [c EXCEPT !.data = [c.data EXCEPT ![addr] = c.data[addr] \cap val], !.dirty = TRUE]
      BY <2>1
    <3>3. [c.data EXCEPT ![addr] = c.data[addr] \cap val] \in [Cells -> Byte]
      BY <3>1, <2>1
    <3> HIDE DEF d
    <3>4. /\ d \in Chip /\ d.dirty
          /\ d.data = [c.data EXCEPT ![addr] = c.data[addr] \cap val]
      BY <3>2, <3>3 DEF Chip
    <3> QED
      BY <2>1, <3>1, <3>4 DEF Harmless
  <2>2. CASE ~(~Factory(addr) /\ addr \in Cells /\ ~(c.data[addr] \subseteq val))
    BY <2>2 DEF Harmless
  <2> QED
    BY <2>1, <2>2
<1>2. "FS_Normal" \in State
  BY DEF State
<1> HIDE DEF d
<1>3. Harmless(c, Go(d, "FS_Normal"))
  BY <1>1, <1>2, GoIsHarmless
<1> QED
  BY <1>3 DEF ByteProgram, d

LEMMA ErasedIsHarmless ==
  ASSUME NEW c \in Chip, NEW where, 13 \notin where
  PROVE  Harmless(c, Erased(c, where))
<1> DEFINE data == [a \in Cells |-> IF Block(a) \in where THEN xFF ELSE c.data[a]]
<1>1. Erased(c, where) = [c EXCEPT !.dirty = TRUE, !.data = data]
  BY DEF Erased
<1>2. data \in [Cells -> Byte]
  BY DEF Byte, xFF, Chip
<1>3. \A a \in Cells : Factory(a) => data[a] = c.data[a]
  BY DEF Factory
<1> HIDE DEF data
<1>4. /\ Erased(c, where) \in Chip /\ Erased(c, where).data = data /\ Erased(c, where).dirty
  BY <1>1, <1>2 DEF Chip
<1> QED
  BY <1>3, <1>4 DEF Harmless

\* An erase of the chip or of a sector, at whatever address it is asked
LEMMA EraseIsHarmless ==
  ASSUME NEW c \in Chip, NEW addr \in Nat, NEW val \in Byte
  PROVE  Harmless(c, Erase(c, addr, val))
<1> DEFINE d == CASE val = x10 /\ Unlock1(addr) -> Erased(c, (0 .. 15) \ {13})
                  [] val = x30 /\ Sector(Block(addr)) # {} -> Erased(c, Sector(Block(addr)))
                  [] OTHER -> c
<1>1. 13 \notin Sector(Block(addr))
  BY DEF Sector
<1>2. Harmless(c, Erased(c, (0 .. 15) \ {13})) /\ Harmless(c, Erased(c, Sector(Block(addr))))
  BY <1>1, ErasedIsHarmless
<1>3. Harmless(c, c)
  BY DEF Harmless
<1>4. Harmless(c, d)
  BY <1>2, <1>3
<1>5. "FS_Normal" \in State
  BY DEF State
<1> HIDE DEF d
<1>6. Harmless(c, Go(d, "FS_Normal"))
  BY <1>4, <1>5, GoIsHarmless
<1> QED
  BY <1>6 DEF Erase, d

\* flash_chip_write in any state, with any sequence broken anywhere
LEMMA WritesAreHarmless ==
  ASSUME NEW c \in Chip, NEW addr \in Nat, NEW val \in Byte
  PROVE  Harmless(c, flash_chip_write(c, addr, val))
<1>1. c.state \in State
  BY DEF Chip
<1>2. Harmless(c, c)
  BY DEF Harmless
<1>3. \A state \in State : Harmless(c, Go(c, state))
  BY <1>2, GoIsHarmless
<1>4. CASE c.state = "FS_ByteProgram"
  BY <1>4, ProgramIsHarmless DEF flash_chip_write
<1>5. CASE c.state = "FS_EraseAMD3"
  BY <1>5, EraseIsHarmless DEF flash_chip_write
<1>6. CASE c.state = "FS_Normal"
  BY <1>2, <1>3, <1>6 DEF flash_chip_write, State
<1>7. CASE c.state = "FS_ReadAMDID1"
  BY <1>3, <1>7 DEF flash_chip_write, State
<1>8. CASE c.state = "FS_ReadAMDID2"
  <2>1. \E state \in State : flash_chip_write(c, addr, val) = Go(c, state)
    <3> DEFINE to == CASE val = x80 /\ Command(addr) -> "FS_EraseAMD1"
                       [] val = xA0 /\ Command(addr) -> "FS_ByteProgram"
                       [] val = x90 /\ Low(addr) = 21845 -> "FS_SelectMode"
                       [] OTHER -> "FS_Normal"
    <3>1. to \in State
      BY DEF State
    <3>2. flash_chip_write(c, addr, val) = Go(c, to)
      BY <1>8 DEF flash_chip_write
    <3> QED
      BY <3>1, <3>2
  <2> QED
    BY <1>3, <2>1
<1>9. CASE c.state = "FS_EraseAMD1"
  BY <1>3, <1>9 DEF flash_chip_write, State
<1>10. CASE c.state = "FS_EraseAMD2"
  BY <1>3, <1>10 DEF flash_chip_write, State
<1>11. CASE c.state = "FS_SelectMode"
  BY <1>3, <1>11 DEF flash_chip_write, State
<1> QED
  BY <1>1, <1>4, <1>5, <1>6, <1>7, <1>8, <1>9, <1>10, <1>11 DEF State

-----------------------------------------------------------------------------
(* Files                                                                   *)

LEMMA LoadsBytes ==
  ASSUME NEW f, File(f)
  PROVE  Loads(f) \in [Cells -> Byte]
BY DEF Loads, File, Byte

LEMMA PatchedBytes ==
  ASSUME NEW p \in Presets, NEW data \in [Cells -> Byte]
  PROVE  Patched(p.bc, data) \in [Cells -> Byte]
<1>1. p.bc = Keep \/ p.bc \in Byte
  BY PresetsAssumption DEF Keep
<1> QED
  BY <1>1 DEF Patched, Patches

\* What is restored of a chip that nobody wrote is the file.
LEMMA RestoredPatch ==
  ASSUME NEW p \in Presets, NEW data \in [Cells -> Byte],
         patch = [on |-> Patches(p.bc, data), orig |-> data]
  PROVE  Restored(Patched(p.bc, data)) = data
<1> DEFINE R == Restored(Patched(p.bc, data))
<1>1. CASE Patches(p.bc, data)
  <2>1. R = [a \in Cells |-> IF a \in Broadcast THEN data[a] ELSE Patched(p.bc, data)[a]]
    BY <1>1 DEF Restored
  <2>2. \A a \in Cells : a \notin Broadcast => Patched(p.bc, data)[a] = data[a]
    BY <1>1 DEF Patched
  <2> QED
    BY <2>1, <2>2
<1>2. CASE ~Patches(p.bc, data)
  BY <1>2 DEF Restored, Patched
<1> QED
  BY <1>1, <1>2

\* A file written to any length holds the chip's bytes, and to its whole
\* length all of them.
LEMMA PrefixBytes ==
  ASSUME chip \in Chip, NEW n
  PROVE  /\ File(Prefix(n))
         /\ \A a \in DOMAIN Prefix(n) : a \in Cells /\ Prefix(n)[a] = chip.data[a]
BY DEF Prefix, File, Chip

LEMMA WholePrefix ==
  ASSUME chip \in Chip
  PROVE  Prefix(131072) = chip.data
<1>1. {b \in Cells : b < 131072} = Cells
  BY CellsAssumption
<1>2. chip.data \in [Cells -> Byte]
  BY DEF Chip
<1> QED
  BY <1>1, <1>2 DEF Prefix

LEMMA NoFileIsNone ==
  /\ File(NoFile) /\ \A data \in [Cells -> Byte] : data # NoFile /\ Loads(data) = data
  /\ DOMAIN NoFile \cap Cells = {}
<1>1. DOMAIN NoFile = {-1} /\ -1 \notin Cells
  BY CellsAssumption DEF NoFile
<1> QED
  BY <1>1 DEF File, Loads

-----------------------------------------------------------------------------
(* Every step                                                              *)

LEMMA InitInv == Init => IInv
<1> SUFFICES ASSUME Init PROVE IInv
  OBVIOUS
<1>1. preset \in Presets
  BY PresetsAssumption DEF Init
<1>2. Loads(NoFile) \in [Cells -> Byte] /\ File(NoFile)
  BY NoFileIsNone, LoadsBytes
<1>3. File(def) /\ File(wb)
  BY <1>2, ExitAssumption DEF Init, File
<1>4. chip \in Chip
  BY <1>2 DEF Init, Chip, State
<1>5. patch \in [on : BOOLEAN, orig : [Cells -> Byte]]
  BY <1>2 DEF Init
<1>6. at = "off" /\ session = 0 /\ wb = start.wb /\ ~watchdog
  BY DEF Init
<1>7. 0 \in 0 .. MaxSessions
  BY ExitAssumption
<1>8. Types
  <2>1. loaded \in BOOLEAN /\ pads \in BOOLEAN /\ watchdog \in BOOLEAN /\ hung \in BOOLEAN
        /\ tmp = NoFile
    BY DEF Init
  <2> QED
    BY <1>1, <1>2, <1>3, <1>4, <1>5, <1>6, <1>7, <2>1 DEF Types
<1> QED
  BY <1>6, <1>8
  DEF IInv, InPlay, InSave, SaveSteps, InTeardown, Watched, WatchdogSafe, SaveAtomic

LEMMA BootInv ==
  ASSUME IInv, Boot
  PROVE  IInv'
<1> USE DEF IInv, Types
<1> DEFINE data == Loads(Source)
<1>1. PICK p \in Presets :
        /\ preset' = p /\ patch' = [on |-> Patches(p.bc, data), orig |-> data]
        /\ chip' = [state |-> "FS_Normal", data |-> Patched(p.bc, data), dirty |-> FALSE]
  BY DEF Boot
<1>2. data \in [Cells -> Byte] /\ Patched(p.bc, data) \in [Cells -> Byte]
  BY LoadsBytes, PatchedBytes DEF Source
<1>3. data' = data /\ start' = [wb |-> wb, data |-> data] /\ UNCHANGED disk
  BY DEF Boot, disk, Loads, Source
<1>4. Patches(p.bc, data) \in BOOLEAN
  BY DEF Patches
<1>5. Types'
  <2>1. chip' \in Chip
    BY <1>1, <1>2 DEF Chip, State
  <2>2. patch' \in [on : BOOLEAN, orig : [Cells -> Byte]]
    BY <1>1, <1>2, <1>4
  <2>3. File(def)' /\ File(wb)' /\ File(tmp)'
    BY <1>3 DEF disk, File
  <2>4. session' \in 0 .. MaxSessions /\ session' > 0
    BY ExitAssumption DEF Boot
  <2>5. loaded' \in BOOLEAN /\ preset' \in Presets /\ at' = "play"
        /\ pads' \in BOOLEAN /\ watchdog' \in BOOLEAN /\ hung' \in BOOLEAN
    BY <1>1 DEF Boot
  <2> QED
    BY <2>1, <2>2, <2>3, <2>4, <2>5
<1>6. InPlay'
  <2>1. \A a \in Broadcast : patch'.on \/ chip'.data[a] = data[a]
    BY <1>1 DEF Patched
  <2> HIDE DEF data
  <2> QED
    BY <1>1, <1>3, <2>1 DEF Boot, InPlay, disk, data
<1>7. InSave' /\ InTeardown' /\ Watched' /\ SaveAtomic'
  BY <1>3 DEF Boot, disk, InSave, SaveSteps, InTeardown, Teardown, Watched, WatchdogSafe, SaveAtomic
<1>8. ~loaded' => wb' = NoFile
  BY <1>3 DEF Boot, disk, Source
<1> QED
  BY <1>5, <1>6, <1>7, <1>8

LEMMA GuestInv ==
  ASSUME IInv, GuestWrite \/ GuestRead
  PROVE  IInv'
<1> USE DEF IInv, Types
<1>1. /\ at = "play" /\ UNCHANGED <<preset, at, patch, loaded, def, wb, tmp, pads, watchdog, hung,
                                   session, start, trouble>>
  BY DEF GuestWrite, GuestRead, disk, host
<1>2. chip' \in Chip /\ (preset.chip => Harmless(chip, chip'))
  <2>1. ASSUME NEW w \in Writes, preset.chip, chip' = flash_chip_write(chip, w.addr, w.val)
        PROVE  Harmless(chip, chip')
    <3>1. w.addr \in Nat /\ w.val \in Byte
      BY ExitAssumption
    <3> QED
      BY <2>1, <3>1, WritesAreHarmless
  <2>2. ASSUME NEW w \in Writes, chip' = PlainWrite(chip, w.addr, w.val)
        PROVE  chip' \in Chip
    <3> DEFINE data == IF w.addr \in Cells THEN [chip.data EXCEPT ![w.addr] = w.val]
                       ELSE chip.data
    <3>1. w.val \in Byte
      BY ExitAssumption
    <3>2. data \in [Cells -> Byte]
      BY <3>1 DEF Chip
    <3>3. chip' = [chip EXCEPT !.dirty = TRUE, !.data = data]
      BY <2>2 DEF PlainWrite
    <3> HIDE DEF data
    <3> QED
      BY <3>2, <3>3 DEF Chip
  <2>3. ASSUME chip' = flash_chip_read_id(chip)
        PROVE  Harmless(chip, chip')
    <3>1. Harmless(chip, chip) /\ "FS_Normal" \in State
      BY DEF Harmless, State
    <3> QED
      BY <2>3, <3>1, GoIsHarmless DEF flash_chip_read_id
  <2>4. Harmless(chip, chip') => chip' \in Chip
    BY DEF Harmless
  <2> QED
    BY <2>1, <2>2, <2>3, <2>4 DEF GuestWrite, GuestRead
<1>3. Types'
  BY <1>1, <1>2 DEF File
<1>4. InPlay'
  <2>1. \A a \in Broadcast : a \in Cells /\ Factory(a)
    BY ExitAssumption
  <2>2. /\ UNCHANGED <<Patches(preset.bc, start.data), Patched(preset.bc, start.data), Loads(Source)>>
    BY <1>1 DEF Patches, Patched, Loads, Source
  <2> QED
    BY <1>1, <1>2, <2>1, <2>2 DEF InPlay, Harmless
<1>5. InSave' /\ InTeardown' /\ Watched' /\ SaveAtomic'
  BY <1>1 DEF InPlay, InSave, SaveSteps, InTeardown, Teardown, Watched, WatchdogSafe, SaveAtomic
<1> QED
  BY <1>1, <1>3, <1>4, <1>5

LEMMA LeaveInv ==
  ASSUME IInv, WiiExitToLoader
  PROVE  IInv'
<1> USE DEF IInv, Types
<1>1. /\ at = "play" /\ at' = IF Saves THEN "open" ELSE AfterSave
      /\ UNCHANGED <<preset, loaded, def, wb, tmp, pads, watchdog, hung, session, start, trouble>>
  BY DEF WiiExitToLoader, Steps, disk, host
<1>2. AfterSave \in {"exit", "quiesce"}
  BY DEF AfterSave
<1>3. Restored(chip.data) \in [Cells -> Byte]
  BY DEF Restored, Chip
<1>4. chip' \in Chip /\ chip'.data = IF Saves THEN Restored(chip.data) ELSE chip.data
  <2>1. "FS_Normal" \in State
    BY DEF State
  <2> QED
    BY <1>3, <2>1 DEF WiiExitToLoader, Go, Chip
<1>5. patch' = IF Saves THEN [patch EXCEPT !.on = FALSE] ELSE patch
  BY DEF WiiExitToLoader
<1>6. Types'
  BY <1>1, <1>2, <1>4, <1>5 DEF File, SaveSteps, Teardown
<1>7. InPlay' /\ Watched' /\ SaveAtomic'
  BY <1>1, <1>2 DEF InPlay, Watched, WatchdogSafe, SaveAtomic
<1>8. InSave'
  <2>1. CASE Saves
    <3>1. \A a \in Broadcast : a \in Cells
      BY ExitAssumption
    <3>2. \A a \in Broadcast : Restored(chip.data)[a] = start.data[a]
      BY <1>1, <2>1, <3>1 DEF InPlay, Restored, Saves
    <3> QED
      BY <1>1, <1>4, <1>5, <2>1, <3>2 DEF InPlay, InSave, Saves
  <2>2. CASE ~Saves
    BY <1>1, <1>2, <2>2 DEF InSave, SaveSteps
  <2> QED
    BY <2>1, <2>2
<1>9. InTeardown'
  <2>1. CASE Saves
    BY <1>1, <2>1 DEF InTeardown, Teardown
  <2>2. CASE ~Saves
    <3>1. UNCHANGED <<Loads(Source), Restored(chip.data)>>
      BY <1>1, <1>4, <1>5, <2>2 DEF Loads, Source, Restored
    <3>2. ASSUME preset.save, preset.chip, loaded PROVE Loads(Source) = Restored(chip.data)
      <4>1. chip.data = Patched(preset.bc, start.data) /\ start.data = Loads(Source)
        BY <1>1, <2>2, <3>2 DEF InPlay, Saves
      <4>2. start.data \in [Cells -> Byte]
        BY <4>1, LoadsBytes DEF Source
      <4> QED
        BY <1>1, <4>1, <4>2, RestoredPatch DEF InPlay
    <3> QED
      BY <1>1, <3>1, <3>2 DEF InTeardown, Kept
  <2> QED
    BY <2>1, <2>2
<1> QED
  BY <1>1, <1>6, <1>7, <1>8, <1>9

\* The steps of the save that write the temporary file, or give it up
LEMMA WriteInv ==
  ASSUME IInv, OpenTmp \/ WriteTmp \/ CloseTmp
  PROVE  IInv'
<1>1. /\ at \in {"open", "write", "close"} /\ at' \in {"write", "close", "rename", AfterSave}
      /\ UNCHANGED <<preset, chip, patch, loaded, def, wb, pads, watchdog, hung, session, start>>
  BY DEF OpenTmp, WriteTmp, CloseTmp, Steps, machine, host
<1>2. AfterSave \in {"exit", "quiesce"}
  BY DEF AfterSave
<1>3. Types /\ InSave /\ Watched /\ session > 0
  BY <1>1 DEF IInv, Types
<1>4. /\ loaded /\ ~patch.on /\ wb = start.wb /\ ~watchdog
      /\ \A a \in Broadcast : chip.data[a] = start.data[a]
  BY <1>1, <1>3 DEF InSave, SaveSteps, Watched, WatchdogSafe, Types
<1>5. File(tmp)'
  <2>1. tmp' = tmp \/ tmp' = <<>> \/ \E n \in Cells \cup {131072} : tmp' = Prefix(n)
    BY DEF OpenTmp, WriteTmp, CloseTmp
  <2>2. \A n : File(Prefix(n))
    BY <1>3, PrefixBytes DEF Types
  <2>3. File(tmp)
    BY <1>3 DEF Types
  <2>4. CASE tmp' = <<>>
    <3>1. \A a \in Cells : a \notin DOMAIN <<>>
      OBVIOUS
    <3> QED
      BY <2>4, <3>1 DEF File
  <2> QED
    BY <2>1, <2>2, <2>3, <2>4 DEF File
<1>6. Types'
  BY <1>1, <1>2, <1>3, <1>5 DEF Types, File, SaveSteps, Teardown
<1>7. at' \in {"close", "rename"} => tmp' = chip.data \/ "close" \in trouble'
  <2>1. CASE OpenTmp
    BY <1>2, <2>1 DEF OpenTmp, Steps
  <2>2. CASE WriteTmp
    <3>1. Prefix(131072) = chip.data
      BY <1>3, WholePrefix DEF Types
    <3> QED
      BY <1>2, <2>2, <3>1 DEF WriteTmp, Steps
  <2>3. CASE CloseTmp
    BY <1>3, <2>3 DEF CloseTmp, Steps, Trouble, InSave, SaveSteps
  <2> QED
    BY <2>1, <2>2, <2>3
<1>8. at' = AfterSave => "lost" \in trouble'
  BY <1>2 DEF OpenTmp, WriteTmp, CloseTmp, Steps, Trouble
<1>9. InPlay' /\ Watched' /\ SaveAtomic'
  BY <1>1, <1>2, <1>4 DEF InPlay, Watched, WatchdogSafe, SaveAtomic
<1>10. InSave'
  <2>1. at' \notin {"remove", "rename2"}
    BY <1>1, <1>2
  <2> QED
    BY <1>1, <1>4, <1>7, <2>1 DEF InSave, SaveSteps
<1>11. InTeardown'
  BY <1>1, <1>2, <1>8 DEF InTeardown, Teardown, Kept
<1> QED
  BY <1>4, <1>1, <1>6, <1>9, <1>10, <1>11 DEF IInv

\* The renames: the new file takes the old one's place, whole.
LEMMA RenameInv ==
  ASSUME IInv, Rename("rename", "remove") \/ RemoveOld \/ Rename("rename2", AfterSave)
  PROVE  IInv'
<1>1. /\ at \in {"rename", "remove", "rename2"} /\ at' \in {"remove", "rename2", AfterSave}
      /\ UNCHANGED <<preset, chip, patch, loaded, def, pads, watchdog, hung, session, start>>
  BY DEF Rename, RemoveOld, Steps, machine, disk, host
<1>2. AfterSave \in {"exit", "quiesce"}
  BY DEF AfterSave
<1>3. Types /\ InSave /\ Watched /\ session > 0
  BY <1>1 DEF IInv, Types
<1>4. /\ loaded /\ ~patch.on /\ ~watchdog
      /\ wb = start.wb \/ (at = "rename2" /\ wb = NoFile)
      /\ tmp = chip.data \/ "close" \in trouble
      /\ \A a \in Broadcast : chip.data[a] = start.data[a]
  BY <1>1, <1>3 DEF InSave, SaveSteps, Watched, WatchdogSafe, Types
<1>5. CASE at' = AfterSave /\ wb' = tmp /\ tmp' = NoFile /\ UNCHANGED trouble
  <2>1. File(wb)' /\ File(tmp)' /\ File(def)'
    BY <1>1, <1>3, <1>5, NoFileIsNone DEF Types, File
  <2>2. Types'
    BY <1>1, <1>2, <1>3, <1>5, <2>1 DEF Types, SaveSteps, Teardown
  <2>3. InPlay' /\ InSave' /\ Watched' /\ SaveAtomic'
    BY <1>1, <1>2, <1>4, <1>5 DEF InPlay, InSave, SaveSteps, Watched, WatchdogSafe, SaveAtomic
  <2>4. InTeardown'
    <3>1. SUFFICES ASSUME trouble \subseteq {"rename", "alarm"}
                   PROVE  (Loads(Source) = Restored(chip.data))'
      BY <1>5 DEF InTeardown, Kept
    <3>2. wb' = chip.data
      BY <1>4, <1>5, <3>1
    <3>3. chip.data \in [Cells -> Byte]
      BY <1>3 DEF Types, Chip
    <3>4. Source' = chip.data /\ Loads(chip.data) = chip.data
      BY <3>2, <3>3, NoFileIsNone DEF Source
    <3>5. Restored(chip.data)' = chip.data
      BY <1>1, <1>4 DEF Restored
    <3>6. Loads(Source)' = Loads(chip.data)
      BY <3>4 DEF Loads
    <3> QED
      BY <1>1, <3>4, <3>5, <3>6
  <2> QED
    BY <1>1, <1>4, <2>2, <2>3, <2>4 DEF IInv
<1>6. CASE /\ at' = "remove" \/ (at' = AfterSave /\ at = "rename2" /\ "lost" \in trouble')
           /\ UNCHANGED disk /\ trouble \subseteq trouble'
  <2>1. UNCHANGED <<def, wb, tmp>>
    BY <1>6 DEF disk
  <2>2. at' = "remove" => at # "rename2"
    BY <1>1, <1>2 DEF Rename, RemoveOld, Steps
  <2>3. Types'
    BY <1>1, <1>2, <1>3, <1>6, <2>1 DEF Types, File, SaveSteps, Teardown
  <2>4. InPlay' /\ InSave' /\ Watched' /\ SaveAtomic' /\ InTeardown'
    BY <1>1, <1>2, <1>4, <1>6, <2>1, <2>2
    DEF InPlay, InSave, SaveSteps, Watched, WatchdogSafe, SaveAtomic, InTeardown, Teardown, Kept
  <2> QED
    BY <1>1, <1>4, <2>3, <2>4 DEF IInv
<1>7. CASE RemoveOld
  <2>1. at = "remove" /\ at' = "rename2" /\ UNCHANGED tmp /\ (wb' = wb \/ wb' = NoFile)
        /\ trouble \subseteq trouble'
    BY <1>7 DEF RemoveOld, Steps, Trouble
  <2>2. Types'
    BY <1>1, <1>3, <2>1, NoFileIsNone DEF Types, File, SaveSteps
  <2>3. InPlay' /\ InSave' /\ Watched' /\ SaveAtomic' /\ InTeardown'
    BY <1>1, <1>4, <2>1
    DEF InPlay, InSave, SaveSteps, Watched, WatchdogSafe, SaveAtomic, InTeardown, Teardown
  <2> QED
    BY <1>1, <1>4, <2>2, <2>3 DEF IInv
<1>8. Rename("rename", "remove") \/ Rename("rename2", AfterSave) =>
        \/ at' = AfterSave /\ wb' = tmp /\ tmp' = NoFile /\ UNCHANGED trouble
        \/ /\ at' = "remove" \/ (at' = AfterSave /\ at = "rename2" /\ "lost" \in trouble')
           /\ UNCHANGED disk /\ trouble \subseteq trouble'
  BY DEF Rename, Steps, Trouble
<1> QED
  BY <1>5, <1>6, <1>7, <1>8

\* The teardown, the ways it ends, and the power
LEMMA EndInv ==
  ASSUME IInv, Quiesce \/ DropBluetooth \/ ArmWatchdog \/ ExitZero \/ Hang \/ Alarm \/ PowerOff
  PROVE  IInv'
<1>1. /\ UNCHANGED <<preset, patch, loaded, def, wb, tmp, session, start>>
      /\ trouble \subseteq trouble'
  BY DEF Quiesce, DropBluetooth, ArmWatchdog, ExitZero, Hang, Alarm, PowerOff,
         machine, disk, host, Trouble
<1>2. chip' \in Chip /\ chip'.data = chip.data
  <2>1. chip \in Chip /\ "FS_Normal" \in State
    BY DEF IInv, Types, State
  <2> QED
    BY <2>1 DEF Quiesce, DropBluetooth, ArmWatchdog, ExitZero, Hang, Alarm, PowerOff,
                machine, Go, Chip
<1>3. /\ at # "off" /\ at' \in {"off", "exit", "arm", "bluetooth", at}
      /\ at' # "off" => at \in Teardown /\ at' \in Teardown
  BY DEF Quiesce, DropBluetooth, ArmWatchdog, ExitZero, Hang, Alarm, PowerOff, Steps, Teardown
<1>4. at \in Teardown \/ "lost" \in trouble'
  <2>1. watchdog => at \in Teardown \cup {"off"}
    BY DEF IInv, Watched, WatchdogSafe, Teardown
  <2> QED
    BY <1>3, <2>1 DEF Quiesce, DropBluetooth, ArmWatchdog, ExitZero, Hang, Alarm, PowerOff,
                      Steps, Teardown, Trouble
<1>5. Types'
  <2>1. pads' \in BOOLEAN /\ watchdog' \in BOOLEAN /\ hung' \in BOOLEAN
    BY DEF IInv, Types, Quiesce, DropBluetooth, ArmWatchdog, ExitZero, Hang, Alarm, PowerOff, host
  <2> QED
    BY <1>1, <1>2, <1>3, <2>1 DEF IInv, Types, File, Teardown
<1>6. InPlay' /\ InSave'
  BY <1>3 DEF InPlay, InSave, Teardown, SaveSteps
<1>7. SaveAtomic'
  BY <1>1, <1>2 DEF IInv, SaveAtomic
<1>8. Watched'
  BY DEF IInv, Watched, WatchdogSafe, Types, Quiesce, DropBluetooth, ArmWatchdog, ExitZero,
         Hang, Alarm, PowerOff, Steps, host
<1>9. InTeardown'
  <2>1. UNCHANGED <<Loads(Source), Restored(chip.data)>>
    BY <1>1, <1>2 DEF Loads, Source, Restored
  <2>2. at \in Teardown => InTeardown'
    BY <1>1, <2>1 DEF IInv, Types, InTeardown, Kept
  <2>3. "lost" \in trouble' => InTeardown'
    BY DEF InTeardown, Kept
  <2> QED
    BY <1>4, <2>2, <2>3
<1> QED
  BY <1>1, <1>5, <1>6, <1>7, <1>8, <1>9 DEF IInv

LEMMA StutterInv ==
  ASSUME IInv, UNCHANGED vars
  PROVE  IInv'
<1>1. UNCHANGED <<preset, at, chip, patch, loaded, def, wb, tmp, pads, watchdog, hung, session,
                 start, trouble>>
  BY DEF vars, machine, disk, host
<1>2. Types' /\ InSave' /\ Watched' /\ SaveAtomic'
  BY <1>1 DEF IInv, Types, File, InSave, Watched, WatchdogSafe, SaveAtomic
<1>3. InPlay' /\ InTeardown'
  BY <1>1 DEF IInv, InPlay, InTeardown, Kept, Loads, Source, Restored, Patches, Patched
<1> QED
  BY <1>1, <1>2, <1>3 DEF IInv

LEMMA InvStep == IInv /\ [Next]_vars => IInv'
BY BootInv, GuestInv, LeaveInv, WriteInv, RenameInv, EndInv, StutterInv DEF Next, ExitStep

LEMMA Invariance == Spec => []IInv
BY InitInv, InvStep, PTL DEF Spec

-----------------------------------------------------------------------------
(* The properties                                                          *)

\* The chip, the patch and the exit keep their ranges.
THEOREM TypeCorrect == Spec => []TypeOK
<1>1. IInv => TypeOK
  BY DEF IInv, Types, TypeOK, SaveSteps, Teardown
<1> QED
  BY <1>1, Invariance, PTL

\* Whatever goes wrong, the saved flash is the old or the new one, whole, but
\* for what only fclose reports.
THEOREM SavesAreAtomic == Spec => []SaveAtomic
<1>1. IInv => SaveAtomic
  BY DEF IInv
<1> QED
  BY <1>1, Invariance, PTL

\* What the guest programmed is what the next boot loads.
THEOREM SettingsAreKept == Spec => []SettingsKept
<1>1. IInv => SettingsKept
  BY DEF IInv, InTeardown, Kept, SettingsKept
<1> QED
  BY <1>1, Invariance, PTL

\* The watchdog never fires into a write.
THEOREM WatchdogIsSafe == Spec => []WatchdogSafe
<1>1. IInv => WatchdogSafe
  BY DEF IInv, Watched
<1> QED
  BY <1>1, Invariance, PTL

\* No broadcast digit but the console's own reaches a file.
THEOREM FactoryIsKept == Spec => FactoryKept
<1> DEFINE Own == tmp' # tmp => \A a \in Broadcast \cap DOMAIN tmp' : tmp'[a] = start.data[a]
<1>1. IInv /\ [Next]_vars => [Own]_vars
  <2> SUFFICES ASSUME IInv, [Next]_vars, tmp' # tmp
               PROVE  \A a \in Broadcast \cap DOMAIN tmp' : tmp'[a] = start.data[a]
    OBVIOUS
  <2>1. at \in SaveSteps /\ (tmp' = <<>> \/ tmp' = NoFile \/ \E n : tmp' = Prefix(n))
    BY DEF Next, ExitStep, Boot, GuestWrite, GuestRead, WiiExitToLoader, OpenTmp, WriteTmp,
           CloseTmp, Rename, RemoveOld, Quiesce, DropBluetooth, ArmWatchdog, ExitZero, Hang,
           Alarm, PowerOff, Steps, SaveSteps, disk, vars
  <2>2. \A a \in Broadcast : a \in Cells /\ chip.data[a] = start.data[a]
    BY <2>1, ExitAssumption DEF IInv, InSave
  <2>3. CASE tmp' = <<>>
    BY <2>3
  <2>4. CASE tmp' = NoFile
    BY <2>2, <2>4, NoFileIsNone
  <2>5. CASE \E n : tmp' = Prefix(n)
    BY <2>2, <2>5, PrefixBytes DEF IInv, Types
  <2> QED
    BY <2>1, <2>3, <2>4, <2>5
<1> QED
  BY <1>1, Invariance, PTL DEF Spec, FactoryKept

=============================================================================
