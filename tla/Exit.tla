-------------------------------- MODULE Exit --------------------------------
(***************************************************************************)
(* A session of the emulator around its flash: the boot that loads it      *)
(* (dc/dc.cpp LoadBiosFiles), the guest's writes, and the exit             *)
(* (wii/wii_exit.cpp), which saves it through a temporary file and two     *)
(* renames and takes the machine down in order, with a watchdog for        *)
(* libogc's exit().  The power may go at any point, a file operation may   *)
(* fail, and a step of the exit may hang; the next session boots from what *)
(* is on the card.                                                         *)
(*                                                                         *)
(* A file holds the cells written to it so far: a whole one all of them.   *)
(* The host's rename moves a file or fails, and is not interrupted half    *)
(* way.  Left out: mem_Term's save, which no path of the Wii reaches.      *)
(***************************************************************************)
EXTENDS FlashChip, FiniteSets

CONSTANTS
  Broadcast,   \* the cells that hold the broadcast digit
  Images,      \* what dc_flash.bin, or an older dc_flash_wb.bin, may hold
  Writes,      \* the guest's writes: an address and a value
  Presets,     \* the settings a session may have, see PresetsAssumption
  MaxSessions  \* bound on the sessions

ASSUME ExitAssumption ==
  /\ Broadcast \subseteq Cells /\ \A a \in Broadcast : Factory(a)
  /\ Images \subseteq [Cells -> Byte]
  /\ \A w \in Writes : w.addr \in Nat /\ w.addr < 131072 /\ w.val \in Byte
  /\ MaxSessions \in Nat
ASSUME PresetsAssumption ==
  Presets # {} /\ \A p \in Presets :
    /\ p.chip \in BOOLEAN /\ p.save \in BOOLEAN  \* FLASH_CHIP, FLASH_SAVE
    /\ p.bc \in Byte \cup {{-1}}     \* what FLASH_BROADCAST and the disc give
    /\ p.exit_fix \in 0 .. 2         \* EXIT FIX; 3 only adds another caller
    /\ p.stub \in BOOLEAN            \* the loader left its return stub

\* No file; and the broadcast of a disc that names no region, or of mode 0
NoFile == [a \in {-1} |-> {}]
Keep == {-1}
Digits == {{4, 5}, {0, 4, 5}, {1, 4, 5}, {0, 1, 4, 5}}    \* '0' to '3'

VARIABLES
  preset,    \* the session's settings
  at,        \* where the session is
  chip,      \* s_flash_state, flash_b and flash_b_dirty
  patch,     \* s_bc_patched and s_bc_orig
  loaded,    \* s_flash_loaded
  def, wb, tmp,  \* dc_flash.bin, dc_flash_wb.bin and .tmp
  pads,      \* __wpads_inited: WPAD_Shutdown has a guest list to save
  watchdog,  \* the alarm is set
  hung,      \* the step does not come back
  session,   \* number of the session
  start,     \* history: dc_flash_wb.bin, and what was loaded, at the boot
  trouble    \* history: "close", "rename", "alarm" or another operation, "lost", failed

disk == <<def, wb, tmp>>
machine == <<chip, patch, loaded>>
host == <<pads, watchdog, hung>>
vars == <<preset, at, machine, disk, host, session, start, trouble>>

\* What a load makes of a file: it is read over zeros, and one that is too short
\* is taken for what it holds.  No file here is longer than the chip, which would
\* be refused (memutil.cpp:143); a read that fails at the boot is left out.
Loads(f) == [a \in Cells |-> IF a \in DOMAIN f THEN f[a] ELSE {}]
Source == IF wb # NoFile THEN wb ELSE def

-----------------------------------------------------------------------------
(* The boot: mem_Reset(false) and LoadBiosFiles                            *)

\* dc_flash_set_broadcast, only over a factory partition that looks like one
Patches(bc, data) == bc # Keep /\ \A a \in Broadcast : data[a] \in Digits

Patched(bc, data) ==
  IF Patches(bc, data) THEN [a \in Cells |-> IF a \in Broadcast THEN bc ELSE data[a]]
  ELSE data

Boot ==
  /\ at = "off" /\ session < MaxSessions
  /\ session' = session + 1 /\ at' = "play"
  /\ start' = [wb |-> wb, data |-> Loads(Source)]
  /\ \E p \in Presets :
       /\ preset' = p
       /\ patch' = [on |-> Patches(p.bc, Loads(Source)), orig |-> Loads(Source)]
       /\ chip' = [state |-> "FS_Normal", data |-> Patched(p.bc, Loads(Source)),
                   dirty |-> FALSE]
  /\ loaded' = (Source # NoFile)
  /\ pads' = TRUE /\ watchdog' = FALSE /\ hung' = FALSE /\ trouble' = {}
  /\ UNCHANGED disk

GuestWrite ==
  /\ at = "play"
  /\ \E w \in Writes :
       chip' = IF preset.chip THEN flash_chip_write(chip, w.addr, w.val)
               ELSE PlainWrite(chip, w.addr, w.val)
  /\ UNCHANGED <<preset, at, patch, loaded, disk, host, session, start, trouble>>

GuestRead ==
  /\ at = "play" /\ chip' = flash_chip_read_id(chip)
  /\ UNCHANGED <<preset, at, patch, loaded, disk, host, session, start, trouble>>

-----------------------------------------------------------------------------
(* dc_flash_save_at_exit                                                   *)

Steps(from, to) == at = from /\ ~hung /\ at' = to
Trouble(what) == trouble' = trouble \cup {what}
AfterSave == IF preset.exit_fix = 0 THEN "exit" ELSE "quiesce"

Saves == preset.save /\ loaded /\ chip.dirty /\ preset.chip

\* (mutant of Restored) the broadcast of this disc goes to the file
MutNotRestored(data) == data

\* dc_flash_restore_broadcast
Restored(data) ==
  IF patch.on THEN [a \in Cells |-> IF a \in Broadcast THEN patch.orig[a] ELSE data[a]]
  ELSE data

\* The combo: WiiExitToLoader, as far as the opening of the temporary file.
\* Nothing reads a half-given flash command again before the next boot's
\* sh4_area0_Reset: it is dropped here, and at a power cut.
WiiExitToLoader ==
  /\ Steps("play", IF Saves THEN "open" ELSE AfterSave)
  /\ chip' = Go(IF Saves THEN [chip EXCEPT !.data = Restored(@)] ELSE chip, "FS_Normal")
  /\ patch' = IF Saves THEN [patch EXCEPT !.on = FALSE] ELSE patch
  /\ UNCHANGED <<preset, loaded, disk, host, session, start, trouble>>

\* SaveSh4FlashromToFile: fopen "wb" empties the file or fails,
OpenTmp ==
  /\ \/ Steps("open", "write") /\ tmp' = <<>> /\ UNCHANGED trouble
     \/ Steps("open", AfterSave) /\ Trouble("lost") /\ UNCHANGED tmp
  /\ UNCHANGED <<preset, machine, def, wb, host, session, start>>

\* (mutant of WriteTmp) a short write is taken for a whole one
Prefix(n) == [a \in {b \in Cells : b < n} |-> chip.data[a]]
MutShortWrite ==
  /\ \E n \in Cells \cup {131072} : Steps("write", "close") /\ tmp' = Prefix(n)
  /\ UNCHANGED <<preset, machine, def, wb, host, session, start, trouble>>

\* fwrite takes it all or stops short,
WriteTmp ==
  /\ \/ Steps("write", "close") /\ tmp' = Prefix(131072) /\ UNCHANGED trouble
     \/ /\ Steps("write", AfterSave) /\ Trouble("lost")
        /\ \E n \in Cells : tmp' = Prefix(n)
  /\ UNCHANGED <<preset, machine, def, wb, host, session, start>>

\* and fclose may still lose the end of it: its result is not looked at.
CloseTmp ==
  /\ Steps("close", "rename")
  /\ \/ UNCHANGED <<tmp, trouble>>
     \/ Trouble("close") /\ \E n \in Cells : tmp' = Prefix(n)
  /\ UNCHANGED <<preset, machine, def, wb, host, session, start>>

\* rename over an old file may fail; the second one has nothing in its way.
Rename(from, otherwise) ==
  \/ /\ Steps(from, AfterSave) /\ wb' = tmp /\ tmp' = NoFile
     /\ UNCHANGED <<preset, machine, def, host, session, start, trouble>>
  \/ /\ Steps(from, otherwise) /\ Trouble(IF from = "rename" THEN from ELSE "lost")
     /\ UNCHANGED <<preset, machine, disk, host, session, start>>

RemoveOld ==
  /\ Steps("remove", "rename2")
  /\ \/ wb' = NoFile /\ UNCHANGED trouble
     \/ Trouble("lost") /\ UNCHANGED wb
  /\ UNCHANGED <<preset, machine, def, tmp, host, session, start>>

-----------------------------------------------------------------------------
(* The teardown                                                            *)

\* USB pads, audio, GX, SI and the log: nothing here that a next session sees
Quiesce ==
  /\ Steps("quiesce", "bluetooth")
  /\ UNCHANGED <<preset, machine, disk, host, session, start, trouble>>

\* (mutant of DropBluetooth) the watchdog is armed first
MutArmFirst ==
  /\ Steps("bluetooth", "arm")
  /\ IF watchdog THEN pads' = FALSE /\ UNCHANGED watchdog
     ELSE watchdog' = TRUE /\ UNCHANGED pads
  /\ UNCHANGED <<preset, machine, disk, hung, session, start, trouble>>

\* WPAD_Shutdown: the write to the NAND is under way until this step is done.
DropBluetooth ==
  /\ Steps("bluetooth", "arm") /\ pads' = FALSE
  /\ UNCHANGED <<preset, machine, disk, watchdog, hung, session, start, trouble>>

\* (mutant of ArmWatchdog) only the mode with the combo poll has one
MutArmLate ==
  /\ Steps("arm", "exit") /\ UNCHANGED watchdog
  /\ UNCHANGED <<preset, machine, disk, pads, hung, session, start, trouble>>

\* arm_exit_watchdog; SYS_CreateAlarm may have no alarm left.
ArmWatchdog ==
  /\ Steps("arm", "exit")
  /\ IF preset.exit_fix = 2 /\ preset.stub
     THEN \/ watchdog' = TRUE /\ UNCHANGED trouble
          \/ Trouble("alarm") /\ UNCHANGED watchdog
     ELSE UNCHANGED <<watchdog, trouble>>
  /\ UNCHANGED <<preset, machine, disk, pads, hung, session, start>>

\* exit(0): __wpad_onreset writes the NAND if nobody has yet.
ExitZero ==
  /\ Steps("exit", "off") /\ pads' = FALSE
  /\ UNCHANGED <<preset, machine, disk, watchdog, hung, session, start, trouble>>

\* A step that waits for the DSP, the GP, SI, Bluetooth or IOS may not return.
Hang ==
  /\ at \in {"quiesce", "bluetooth", "exit"} /\ ~hung /\ hung' = TRUE
  /\ UNCHANGED <<preset, at, machine, disk, pads, watchdog, session, start, trouble>>

\* exit_watchdog_cb jumps to the stub, whatever is under way.
Alarm ==
  /\ watchdog /\ at # "off" /\ at' = "off" /\ watchdog' = FALSE
  /\ UNCHANGED <<preset, machine, disk, pads, hung, session, start, trouble>>

PowerOff ==
  /\ at # "off" /\ at' = "off" /\ Trouble("lost") /\ chip' = Go(chip, "FS_Normal")
  /\ UNCHANGED <<preset, patch, loaded, disk, host, session, start>>

Init ==
  /\ at = "off" /\ session = 0 /\ hung = FALSE /\ watchdog = FALSE /\ pads = FALSE
  /\ def \in Images \cup {NoFile} /\ wb \in Images \cup {NoFile} /\ tmp = NoFile
  /\ preset = (CHOOSE p \in Presets : TRUE) /\ loaded = FALSE /\ trouble = {}
  /\ chip = [state |-> "FS_Normal", data |-> Loads(NoFile), dirty |-> FALSE]
  /\ patch = [on |-> FALSE, orig |-> Loads(NoFile)]
  /\ start = [wb |-> wb, data |-> Loads(NoFile)]

ExitStep ==
  \/ OpenTmp \/ WriteTmp \/ CloseTmp \/ Rename("rename", "remove") \/ RemoveOld
  \/ Rename("rename2", AfterSave) \/ Quiesce \/ DropBluetooth \/ ArmWatchdog \/ ExitZero

Next ==
  Boot \/ GuestWrite \/ GuestRead \/ WiiExitToLoader \/ ExitStep \/ Hang \/ Alarm \/ PowerOff

\* The exit's code runs on, and the alarm of a watchdog fires.
Spec == Init /\ [][Next]_vars /\ WF_vars(ExitStep) /\ WF_vars(Alarm)

-----------------------------------------------------------------------------
(* Properties                                                              *)

TypeOK ==
  /\ preset \in Presets /\ chip \in Chip /\ loaded \in BOOLEAN
  /\ at \in {"off", "play", "open", "write", "close", "rename", "remove", "rename2",
             "quiesce", "bluetooth", "arm", "exit"}
  /\ patch \in [on : BOOLEAN, orig : [Cells -> Byte]]
  /\ pads \in BOOLEAN /\ watchdog \in BOOLEAN /\ hung \in BOOLEAN
  /\ session \in 0 .. MaxSessions

\* The broadcast digits belong to the console's flash and not to the disc that
\* is played: whatever file is written holds the digits that were read at the
\* boot, however the guest wrote, erased and patched over them
\* (dc_flash_set_broadcast, dc_flash_restore_broadcast, flash_chip_write's
\* protected partition).
FactoryKept ==
  [][tmp' # tmp => \A a \in Broadcast \cap DOMAIN tmp' : tmp'[a] = start.data[a]]_vars

\* The saved flash is the one before or the new one, complete, at every point
\* where the power can go and whichever file operation fails; for a moment it
\* is in the temporary file alone (dc_flash_save_at_exit, dc/dc.cpp:469-471).
\* A loss that only fclose reports is the exception.
SaveAtomic ==
  \/ wb = start.wb
  \/ wb = chip.data /\ loaded
  \/ wb = NoFile /\ tmp = chip.data
  \/ "close" \in trouble

\* What the guest has programmed or erased is what the next boot loads, when
\* the session ended by the combo with FLASH_SAVE and FLASH_CHIP on and nothing
\* went wrong but the rename over the old file, which the retry makes good; a
\* session without a flash file leaves none behind.
SettingsKept ==
  at = "off" /\ session > 0 =>
    /\ preset.save /\ preset.chip /\ loaded /\ trouble \subseteq {"rename", "alarm"} =>
         Loads(Source) = Restored(chip.data)
    /\ ~loaded => wb = NoFile

\* The jump to the loader never lands in a write to the NAND or to the card:
\* an armed watchdog means that the guest list is saved and no file is open
\* (wii_exit.cpp's order of WPAD_Shutdown and arm_exit_watchdog).
WatchdogSafe == watchdog => ~pads /\ at \in {"exit", "off"}

\* The exit ends unless a step of it hangs, and ends all the same when that is
\* exit() itself, EXIT FIX has a watchdog, and the loader left a stub to jump to
\* (exit_watchdog_cb).
ExitEnds ==
  /\ (at \notin {"off", "play"}) ~> (at = "off" \/ hung)
  /\ (at = "exit" /\ preset.exit_fix = 2 /\ preset.stub /\ "alarm" \notin trouble)
       ~> (at = "off")

=============================================================================
