# nullDC4Wii: a TLA+ development

nullDC4Wii emulates a Dreamcast on a Wii: an SH4 recompiler and its block tables, the SH4's
on-chip peripherals, the Holly ASIC that gathers the interrupts of the devices, the GD-ROM
drive, the Maple bus, the AICA sound unit, the PVR, and the host's audio, video and files. This
development models the parts whose correctness is a matter of *control* (who may do what in
which state, in which order, with what left over from before), checks them with TLC on small
instances and proves the central results for every instance with TLAPS.

Paths below are relative to `src/`. `PROJECT.json` maps every definition that models code to
its lines; this file says what the definitions mean and what the checks and proofs show.

## 1. The system

One thread runs the emulated machine. The recompiled SH4 code leaves to the host at the end of
a *timeslice* (`SH4_TIMESLICE` cycles), where `UpdateSystem` (`dc/sh4/sh4_interpreter.cpp`)
ticks the devices (the slow devices on every n-th slice, then TMU, PVR, AICA DMA, the deadline
scheduler) and then `UpdateINTC` lets the interrupt controller accept an interrupt. Register
accesses of the guest are calls from the recompiled code into the devices, between two ticks. So
for the devices there are two actors that interleave freely: the guest's accesses and the ticks.
Three things on the host are really concurrent: the audio DMA's interrupt, which preempts the
emulation thread between any two instructions; the graphics processor, which draws from a command
queue behind it; and, at the exit, the watchdog's alarm, the power button and a power cut. The
options menu changes settings between two steps.

### Modelled

| component | state | operations | interacts with | what is hard | what makes it correct |
|---|---|---|---|---|---|
| SH4 interrupt controller, `dc/sh4/intc.cpp` | IPRA-D, ICR.IRLM, SR, the sorted tables (slot to source, slot to level, source to bit), pending and masked bits, cached threshold | priority writes, request lines up and down, SR loads, `UpdateINTC`, reset | Holly and TMU raise lines; the CPU polls | the sorted tables are stale from a priority write to the next poll; a line's bit moves when the order changes | accepts exactly the highest enabled pending source above IMASK, never loses one, bank and SR agree |
| Holly interrupt mixer, `dc/asic/asic.cpp`, with the TMU's flags and `ResetDC` | SB_ISTNRM/EXT/ERR, SB_IMLx | raise, cancel, acknowledge, mask writes, resets | intc's IRL lines | resets of intc, asic and tmu each rewrite the others' lines and asic's own is empty | a line is up exactly when an unmasked cause is |
| GD-ROM drive, GD-DMA and CD-DA, `dc/gdrom/gdromv3.cpp` | the drive state, ATA status, read in flight, sector buffer, PIO buffer, SB_GD*, the play position, its repeats and the unit status | register accesses, packets, slow tick, DMA completion, a sector for the sound unit | Holly (two interrupts), scheduler, the sound unit | six presets change the paths; the tick runs between any two accesses with what the last command left; reads, packets and the sound unit move one head | data in order, exactly once; a play heard as asked, never under a read; every read and play ends; no `verify()` is reachable |
| Audio ring, `wii/wii_audio.cpp` | ring of blocks, two free-running counters, live depth, voice state | push of a sample, publish, pacing wait, voice callback, start, shutdown | the sound unit, the ASND callback, the menu, the exit path | a true interrupt between any two steps; counters that wrap; a timeout racing the callback | blocks are heard whole, once, in order; the producer always comes back |
| Code cache and linker, `dc/sh4/rec_v2/driver.cpp`, `wii/dc/sh4/rec_v2/wii_driver.cpp`, `dc/sh4/ccn.cpp` | emitted words, write position, block table, patched exits | compile, clear, link, inline caches, guards, CCR.ICI | block manager, guest memory | a clear from inside a running block, whose exits were patched before it | control only reaches a whole, current translation of the address asked for |
| Block manager, `dc/sh4/rec_v2/blockmanager.cpp` | hash buckets, pointer cache, flat cache | four lookups, add, promote, evict, reset | the emitted code reads the flat cache without a check | pointers into vectors that move, eviction, two caches to keep in step | the lookups return what the table holds |
| Texture cache, `plugs/drkPvr/gxRend.cpp`, `dc/pvr/vram_track.h`, `pvr_if.cpp` | video memory and its write stamps, the arena of decoded textures, the map, the palette mirror, the graphics processor's queue and TMEM | guest writes, renders, binds (hit, decode again, allocate, start over), frame ends, presents, the processor's commands | renders, DMA and store queues that write video memory; GX | the processor reads bytes after the thread has gone on; three caches each with an age of its own | what is bound is current; what is sampled is what was bound |
| AICA interrupt unit, `plugs/nullAICA/aica.cpp`, and the ARM7's slices, `plugs/vbaARM/` | SCIEB, SCIPD, MCIEB, MCIPD, a timer, the FIQ latch, the slice and its accumulators | writes of either processor, samples, slices, halt and restart | the SH4 through holly_SPU_IRQ, the ARM7 through its FIQ | two processors write the same registers in turns; two engines and four presets cut the slices; masks and resets | both lines say what is pending; a handshake gets its cycles; an enabled source is answered |
| ARM7 recompiler, `plugs/vbaARM/arm7_jit.cpp` | the code, the block table shared with the interpreter, the range of it written, exits that patch themselves, two engines | compile, flush, link, return caches, slices, reset with a change of engine | sound memory written by both processors; the FIQ latch of the AICA | a flush under the exit that asked for a block; a table that two engines own in turns; four ways into a block | chained blocks do what the interpreter's macros do |
| Flash chip, flash file and exit, `dc/mem/sh4_area0.cpp`, `dc/dc.cpp`, `wii/wii_exit.cpp` | the chip's command state and bytes, the broadcast patch, two files and a temporary one, the teardown and its watchdog | boot, guest writes, save, teardown, failures, power cut | the card, the NAND, the loader's stub | a crash between two steps; file operations that fail; a watchdog that jumps away | the saved flash is whole, holds what the guest programmed and the console's own digits; the exit ends |
| SH4 timers, `dc/sh4/tmu.cpp` | TCNT, TCOR, TCR, TSTR, prescaler remainder per channel | register writes, bulk update per timeslice, reset | UpdateSystem; flags raise intc's lines (Holly) | several underflows in one update, remainders, reload 0, wrap | the guest cannot tell the timeslice from counting cycle by cycle |
| Deadline scheduler and timeslice, `dc/sh4/sh4_sched.cpp`, `sh4_interpreter.cpp` | one deadline per callback, the tick counter | request, tick, reset | the DMA channels' ends | one slot per device, re-armed by a second request | a request fires once, when it is due, unless reset |
| Channel-2 and PVR DMA, `dc/sh4/dmac.cpp`, `dc/pvr/pvr_sb_regs.cpp` | SB_C2DST, SB_PDST, SB_*LEN | start, end | scheduler, Holly | the data moves at the start, the interrupt may come later | one interrupt per transfer |
| AICA G2 DMA, `dc/aica/aica_if.cpp` | SB_ADEN, SB_ADST, SB_ADLEN, a countdown | start, read of the busy bit, countdown, deadline, completion | scheduler, Holly | three ways to end, a busy bit with a memory, a reset that forgets one of them | the busy bit falls; one interrupt per transfer |
| Maple bus, `dc/maple/maple_if.cpp` | SB_MDEN, SB_MDST, SB_MDTSEL, SB_MSYS, the countdown | start, vblank trigger, countdown, abort, reset | the PVR's vblank, Holly | an aborted transfer keeps counting | as above |
| PVR scan-out, list and render interrupts, `plugs/drkPvr/SPG.cpp`, `gxRend.cpp` | scanline and cycle counters, four render countdowns, one per list | StartRender, end of list, update, reset | Maple, Holly | renders overlap; three modes arm different countdowns | each list and render ends once, none after a reset |

### Not modelled, and why

| component | state and operations | correctness, and why it is not (yet) modelled |
|---|---|---|
| Maple devices, `maple_devs.cpp`, `maple_helper.cpp` | pad state, memory card image | formatting of frames; the state is the host's file |
| Tile accelerator and the rest of the renderer, `plugs/drkPvr/ta.cpp`, `ta.h`, `gxRend.cpp`, `drkPvr.cpp` | vertex lists, GX state | correctness is a picture; the lists' and renders' interrupts are in Spg, the textures in TexCache |
| AICA synthesis, `plugs/nullAICA/sgc_if.cpp`, `dsp.cpp` | channel and DSP registers | arithmetic on samples |
| ARM7 instructions, `plugs/vbaARM/arm-new.h`, `arm7_cached.cpp` | registers | one operation per instruction; the slices, the FIQ and AICA_RACE are in Aica, the recompiler in ArmJit |
| SH4 instruction set, `dc/sh4/sh4_cpu*.h`, `sh4_fpu.cpp` | the register file | one operation per instruction; the transfers to SR are in Intc |
| SH4 decoder and SHIL, `rec_v2/decoder.cpp`, `shil.cpp` | none between blocks | a translation, sequential |
| Memory map and fastmem, `dc/mem/`, `wii/wii_fastmem.cpp` | dispatch tables, patched code | address decoding; fastmem is the host MMU |
| Command loop and ELF boot, `dc/dc.cpp`, `nullDC.cpp` | run state | sequential; the order of the resets is in Holly, the flash and the exit in Exit |
| Disc images, `plugs/ImgReader/` | track tables | file formats; GdRom takes a sector for a number |
| RTC, SCIF, SCI, `dc/sh4/rtc.cpp`, `scif.cpp`, `sci.cpp` | a second counter | nothing attached to the ports |
| Front end, `wii/main.cpp`, `game_presets.cpp`, `user_controls.cpp`, `plugs/drkMapleDevices/` | settings | read before the game starts; presets that change behaviour are constants or variables of the modules |
| Vendored, `src/emitter/`, `plugs/libwupc/`, `plugs/libwiidrc/` | - | other projects' code |

The behaviours that tests hardly reach are listed one by one, with their lines and the
properties that would catch them, under "hazards" in `PROJECT.json`.

## 2. The modules

    IntcSpec  <= refines =  Intc  <- extends - Holly <- InterruptProofs
    AudioFifo <= refines =  AudioRing <- AudioRingProofs
    BlockMap  <= refines =  BlockManager <- RecompilerProofs
                             CodeCache <- RecompilerProofs
                    Cdda <-  GdRom <- DeviceProofs
                             TexCache <- TexCacheProofs
                             Aica <- AicaProofs
  ArmDispatch <= refines =  ArmJit <- ArmJitProofs
               FlashChip <-  Exit <- ExitProofs
    Timeslice  extends  Dma, Maple, Spg (each extends Sched), Tmu;  <- DeviceProofs

`MC*` modules give the constants of each instance; a component's theorems are in `*Proofs`. Where one
proof module is about two components (GdRom and Timeslice, CodeCache and BlockManager) the definitions
of one carry a prefix (`GdNext`, `bm_Reset`) so that both can be extended.

### Intc and IntcSpec

`Intc` keeps the source's optimisation: sources are sorted by priority into *slots*, a request
is the bit of its slot, and the test whether an interrupt is pending is one comparison of the
pending word with the cached threshold `decoded_srimask` (here k for the mask `(1 << k) - 1`;
bit vectors are sets of slots). A write of a priority register only sets the rebuild request;
the rebuild moves every bit at the next `UpdateINTC`. The actions are the priority write, raising,
lowering and masking of a source, every instruction that loads SR (with the bank switch of
`UpdateSR`), the poll with its acceptance of an interrupt, `sh4_cpu`'s RTE, and the reset.

`IntcSpec` knows no tables: a set of requests, a priority per source, SR.IMASK and SR.BL. It
accepts an enabled request of the highest level above IMASK, a tie going to the source later in
the list, which is what the sort's stability gives.

### Holly

`Holly` extends `Intc` with the ASIC's pending and mask registers and the timers' underflow flag
and enable, so that their handlers call the operators that model `SetInterrupt`,
`ResetInterrupt` and the mask calls, at whatever bit the source has at the time. A history
variable, `unsynced`, holds the lines that a reset of the controller dropped and that nothing has
evaluated since. `ResetDC` runs the resets in the order of the code, including the reset of the
ASIC's registers that does nothing.

### GdRom and Cdda

States the drive rests in are the values of `gd_state`; states it passes through inside one
handler (`gds_procata`, `gds_process_set_mode`, ...) are operator applications of that one
action. A disc is an infinite row of unit-sized words, each known by its position, so "in order,
once" is a statement about numbers. `verify()` and `die()` set `hung`. Replies and SET_MODE's
data have lengths in bytes, and a block is counted in words, so that one of a single byte never ends
(`pio_buff.size = len >> 1`), as in the code; only a word written after such a SET_MODE is left out.

`Cdda` has no variables: it gives the play position, the repeats and the unit status as a record
and the packets that move them (play, resume, the four seeks, a data read, a change of disc) as
operators from record to record. `GdRom` applies them in its packets and adds `AudioSector`, the
sound unit's request for a sector every 588 samples (`gdrom_get_cdda`), between any two accesses.

The guest is one of eight programs (`MCGdRom`): two drivers that follow the ATA protocol by DMA, a
PIO reader, one that aborts with SOFT_RESET and NOP, one without the fixes (`GDROM_HANG_FIX` and
the others off), and three that play music, between reads, between other commands, and without
the fixes. The presets SCHED, DELAY, CDDA_STATE_FIX, CDDA_PAUSE_FIX and CDDA vary with the guest.

### AudioRing and AudioFifo

The producer's steps are the reads and writes of the shared counters in the order of the source,
one action each (`AUD_VOICE` picks, pads, publishes, starts the voice, waits), and `Callback` may
run between any two. Counters are modulo `CounterMod` as they are modulo 2^32 in the code. The depth is
written by the menu between any two steps. `AudioFifo` is a queue of whole blocks: append,
take the first, drop a block that came when it was full.

### CodeCache

`words` is the cache: each word belongs to a translation (address, version of the guest's code,
part) and a clear leaves words where they are, as the code does. Exits are patched words: static
links and inline caches hold a place in the cache. The guest may rewrite a block, invalidate
(CCR.ICI, with each value of JIT_ICI), fail a guard, or just run; the presets (block promotion,
JIT_ICI) are fixed at the start and `link_guard` is the boolean of the code.

### BlockManager and BlockMap

Buckets are sequences in a storage that moves when it grows past its capacity, which a vector
only increases; the pointer cache holds an index and the capacity of the storage it points into, so that a pointer to freed
storage can be told and reads `Dangling`. `FlatHit` is what the emitted dispatcher does in
`wii_driver.cpp`. `BlockMap` is a partial function from addresses to code.

### TexCache

The cache of decoded textures under tex_cache=normal_plus with TEX_WRAP_GUARD and TLUT_FIX. The
guest writes video memory between two renders: through the emulator, which stamps the pages
with the epoch (`vram_wmark_range`), or by a store straight into memory, which leaves no stamp and
which only the eight-word fingerprint can notice. A page therefore has two words, one `probed` and
one `other`, and `missed` remembers the stores nothing could see. A bind is one of the four paths of
`SetTextureParams`: `Hit`, `Redecode` in place, `Allocate`, and `Wrap`, which waits for the queue
and starts the arena over; `Crowd` is the guard's way out when the arena is full for the second
time in a frame, and ends the model. A `Redecode` of a texture that was bound in the same render (its
address is asked for with a second shape that fits the slot) rewrites the bytes under the polygons
that wait; such places are `reshaped`. The shapes of an address are told apart by the pages they are
decoded from, so another format over the same pages is another shape only in its palettes.

The graphics processor is a second process with a queue of commands. A draw in the queue carries,
besides the place it will read, the pixels and colours that were bound: when the processor comes
to it and its TMEM, the arena's bytes or its palette say something else, `torn` gets the place, or its palette flag. Between
the two, the thread decodes, wraps, converts palettes and ends frames, with `ASYNC_RENDER` (the
frame stays queued behind a draw-done signal) or without; TMEM_CACHE is chosen at the start.

### Aica

The interrupt unit of the sound chip with both of its users. A call of `armUpdateARM` is a turn of
the ARM7 (a slice of instructions, each with its cost), then of the sound generator (the samples
due), then again of the SH4. Register writes are operators that either processor applies; the
ARM7's program is what a sound driver does to this unit (enable, wait, raise the SH4's interrupt,
answer a FIQ by reading its level, acknowledging and accepting, in either order). The latch of
`arm_mem.cpp` is four fields, the slice's room under AICA_RACE differs between the interpreter and the
recompiler, and `ran` counts what an ARM7 that raised the interrupt has run since, up to the cycles
that AICA_RACE promises.

### ArmJit and ArmDispatch

`mem` is the code, an array of words each of which stands for an entry, an instruction or an exit; the
machine runs the word at `exec.at`, so a patched exit really leads to whatever lies where it points. A
flush takes the write position back and makes every word `Dead`, which no action runs; `aram` is what the
guest stored, which blocks translated before do not notice: an engine forgets only at a reset. Of an
instruction there is what it does to the control: `alu` goes on, `write` may change memory, the FIQ's
enable or its pin, `b` and `bl` leave for a known address, `return` and `jump` for one known only then,
and any of them may be conditional. The code is borrowed from the interpreter, whose slices are one
action that overwrites all of it; the menu's preset decides at each reset which engine comes next.

`ArmDispatch` is what the interpreter's macros promise: `DISPATCH` takes the FIQ and then looks at
the budget, `ADVANCE` looks at the budget alone, an instruction is one its address held since the last
reset, and only a loop that does nothing but read is charged as idle. The refinement maps the word that
runs to being `inside` a block or at a `boundary`. Two freedoms are given to an engine: the
budget at a boundary may be left to the first instruction's own test, and a block may end where it likes.

### FlashChip and Exit

`FlashChip` gives the chip's command sequences as an operator from chip to chip; a byte is the set of
its bits, so that programming is an intersection. `Exit` is a row of sessions around it: the boot
loads the saved flash or the original, patches the broadcast digit of the disc's region over it,
the guest writes, and the exit saves through a temporary file and two renames and takes the
machine down. Every step of the save may fail or stop short, the power may go anywhere, three steps
may hang, and the watchdog may jump to the loader's stub. A file holds the cells written to it.

### Timeslice, composing Sched, Dma, Maple, Spg and Tmu

`Sched`, `Tmu`, `Dma`, `Maple` and `Spg` have no variables: each gives the state of one device as a
record and its handlers as operators from record to record, and the interrupts a tick raises as
a set. `Timeslice` holds the records and has the actions: every register write of the guest,
`UpdateSystem`, which advances all devices by one slice in the order of the code, `ResetDC`, and
`HollySoftReset`, which the guest asks for by SB_SFRES. The scheduler's 64-bit clock never wraps, so
a deadline is kept as its distance from now. The presets DMA_FIX, SCHED, AICA_RACE and RENDER_DELAY are
the guest's.

What is asked of the devices is a matter of history: `owed` holds the interrupts that something
started still has to raise, `raised` those of the last update, `again` what was started once more
while it was owed. A device's ends are checked against it, whichever countdown or deadline of the
code brings them. `Tmu` also defines the timer by its definition, one cycle at a time
(`CycleByCycle`), which the bulk update must equal.

## 3. The runs

| run | asks | instance, and why it is enough | distinct states |
|---|---|---|---|
| `intc` | do the tables agree, is the cheap test exact, is IntcSpec implemented, is every interrupt served | 3 sources (one of fixed level like the IRLs, two with a priority field, one maskable like TMU0), levels 0..2: ties, order changes and masked sources all occur | 34,432 |
| `holly` | do the lines follow their causes over rebuilds and resets | 2 IRL lines and a timer channel, two of the ASIC's registers with a bit each, levels 0..3 | 216,192 |
| `gdrom` | data in order, no hang, only the own packet ended, does a read end, is music heard as asked and never under a read | sectors of 3 words, 2 sectors per PIO transfer and buffer fill, DMA reads of 0 to 3 sectors with lengths of 0 (which is 32 MB) to 4 words in chunks aligned to 2, so a transfer crosses a fill, ends inside a sector, exceeds the read, is not aligned; replies of 0, 1 and 4 bytes; a disc that ends at 5, plays whose end lies before, at and after the start, repeated and endless; a sector beyond `MaxFAD` is not modelled | 253,247 |
| `gdrom_long` | a DMA longer than its read, then another read | finding | violated |
| `audio_ring` | is the ring a FIFO under the callback, live depth and wrap; does the thread come back, sink closed or not | 3 slots, counters modulo 6 and 7 blocks, so the counters wrap and every slot is reused; depths below, in and above the range | 1,586,576 |
| `codecache` | does control reach only what it asked for | three blocks a, b, c of which one boots, 8 words with a flush at 6, so the cache fills within three blocks; one rewrite each; presets (promotion, JIT_ICI) = (1,0), (2,1), (0,2) | 1,481,059 |
| `blockmanager` | do the caches mirror the table, is BlockMap implemented | 3 addresses in a bucket of at most 2, one alone, 2 codes, symmetric; lookup counts up to 6 | 11,530 |
| `texcache` | is a texture that is bound current, and is what is sampled what was bound | two addresses, each with a small shape (one page) and a large one (both pages, so the two overlap) in an arena of 2 units, so it fills with one of each and starts over; 3 renders, 2 guest writes between two of them, at most 2 commands waiting when a texture is bound, which may be two polygons, or one with its palette or invalidation; symmetric in words, colours and the swap of the two addresses with their pages | 2,330,507 |
| `timeslice` | does every transfer and render end once, and not after a reset; can the timeslice be seen in a timer | slices of 5 cycles, delays of 1 to 14, so an end falls within, on and after a slice; beam of 2 lines of 2 slices; 3-bit timers with prescalers 1 and 3, reload values 0 to 3, so up to 5 underflows fall in a slice; one guest per device or pair of devices that share state, with every preset that changes it, which keeps the product of the devices small | 69,589 |
| `aica` | do both lines follow, does a handshake get its cycles, is every source answered | 3 cycles stand for the 50 of AICA_RACE, slices of 2 to 6 of them, instructions of 1 and 2, so a slice is shorter than, as long as and longer than the promise; a timer of 2 counts with 2 prescalers; a request of each side; five pairs of programs with engines and presets | 572,518 |
| `armjit` | do chained blocks do what the interpreter does, do exits lead to live blocks | sound memory of 3 words seen twice in the ARM7's window, so mirrored blocks share table entries; a loop that stores into itself, a FIQ handler that returns to either of two addresses; 13 words of code, room for two blocks or three short ones, so an exit is often flushed by the block it asks for; slices of 4, re-patching after 1 miss and demotion within 2 slices; arm7_jit 0, 1 and 3 | 686,798 |
| `flash` | is the saved flash whole and right after any failure, is the watchdog safe, does the exit end | 2 sessions; three cells, two of them broadcast digits of the factory partition; all writes of a program, both erases and the ID mode that these cells can take part in; four sets of presets | 238,474 |

Where a run says CHECK_DEADLOCK FALSE the system really may stop: a hung drive and the end of the guest
without the fixes (`gdrom`), `MaxBlocks` (`audio_ring`), Maple's `verify()` (`timeslice`), the end of the last
session (`flash`), the last render, within which the model stops, and the arena crowded (`texcache`).

The properties, by run:

- **intc.** `Current` (of `TablesCurrent`, `TableLevelsCurrent` and `ThresholdCurrent`): unless a rebuild is
  requested the tables, levels and threshold are those of the registers. `PendingIsExact`: the comparison the
  fast path makes says there is an interrupt exactly when there is one. `ImplementsIntcSpec`.
  `EventuallyServed`: a deliverable interrupt is taken or stops being one.
- **holly.** `LinesFollow`: a line is up exactly when a cause is unmasked, except where a reset has
  separated them (`unsynced`), and a timer's two bits follow its flag and enable. `NoSpuriousInterrupt`: nothing is accepted that nobody raised.
- **gdrom.** `DrqMeansData`: DRQ is up exactly while the drive waits for a packet or has a PIO block to move; a
  guest that aborts may find it up without. `NeverHangs`: a guest that polls BSY and DRQ before
  every command but NOP and SOFT_RESET, and sends none of the packets that no preset clips (CD_PLAY, CD_SEEK and
  REQ_STAT with unknown parameters, SET_MODE from an offset past 10, GET_SCD of 0xFFFF bytes), reaches no
  `verify()`. `DataInOrder`: the sectors asked for, in order, all of them.
  `DmaLeavesOthersAlone`: the tick ends only the packet of a DMA read. `EndsThePacket`: a DMA
  for a read of at least a sector and with an aligned length ends, or ends the read's packet; the lengths that
  are not aligned, and the empty reads, are in the run too, as what the two exceptions leave out.
  `HeardAsAsked`: a play is heard sector by sector, as often as asked, over pauses and resumes. `OneHead`: no
  data of a read arrives while audio plays. `PlayEnds`: a play that is not endless stops by itself.
- **audio_ring.** `NoOverwrite` (the slot being filled is none the callback may
  read), `PacedDropsOnlyOnTimeout`, `ImplementsAudioFifo`, `AlwaysReturns`.
- **codecache.** `RunsWhatWasAsked`: control reaches only a whole translation of the address the guest went to.
  `FreshAfterInvalidate`: what is entered is no older than the last invalidation. `FailsOncePerRewrite`: a guard
  fails once for a rewrite, and not for ever.
- **blockmanager.** `Mirrored`: the two caches agree with each other and with the block pointed at.
  `ImplementsBlockMap`: no lookup returns a forgotten block or freed storage.
- **texcache.** `NeverStale`: a polygon is drawn with its texture as it is in video memory, unless a store
  changed it where neither a stamp nor the fingerprint sees. `SamplesWhatWasBound`: the graphics processor
  samples what was bound. A texture is excepted when its address was asked for with a second shape in the
  render and decoded again in its place, and after the arena started over in the render with TMEM_CACHE
  off (section 6). A palette never is.
- **timeslice.** `BusyEnds`: while SB_ADST or SB_MDST says busy, an end is on its way. `EndsAreOwed`: no
  interrupt comes twice for one transfer or render, or after a reset that drops it. `TransfersEnd`:
  every interrupt owed comes, unless its channel is started over. `BulkIsCycleByCycle`: the timers
  count as cycle by cycle, but for a slice that ends on two or more whole periods (section 6).
- **aica.** `FiqFollows` and `SpuLineFollows`: each line is up exactly while its side has something enabled and
  pending, but for a mask moved without AICA_RACE since the last sample; no FIQ waits for a new driver that
  only the old one asked for. `RaceHonoured`: an ARM7 that raised the SH4's interrupt has run its cycles when
  its slice ends, with two exceptions (section 6). `RequestsServed`: an enabled source is answered.
- **armjit.** `ImplementsArm`: whatever the way into a block, FIQ and budget are looked at where the
  interpreter looks, what runs is what the address held, and a slice leaves the next address.
  `ChainsLeadHome`: every patched exit and every entry of the table leads to a live block of its address,
  which the next flush will find.
- **flash.** `SaveAtomic`: the saved flash is the old or the new one whole. `SettingsKept`: the next boot
  loads what the guest programmed. `FactoryKept`: a file holds the console's own broadcast digits.
  `WatchdogSafe`: an armed watchdog means that nothing is being written. `ExitEnds`.

Every property of a passing run has a mutant in `PROJECT.json`: a plausible bug of the
mapped code under which TLC finds it violated.

### Fairness

- `Intc`: weak fairness of the poll. `UpdateSystem` calls `UpdateINTC` at the end of every timeslice.
- `GdRom`: weak fairness of the slow tick, of the scheduled DMA end and of the sound unit's request
  for a sector, which `UpdateSystem` runs for ever, whatever the guest does. No fairness of the guest.
- `AudioRing`: weak fairness of the emulation thread's own next step. None of the callback, which may
  never come: the pacing wait must give up by itself.
- `Timeslice`: weak fairness of `UpdateSystem`: the recompiled code leaves for it after every timeslice,
  whatever it runs. None of the guest.
- `Aica`: weak fairness of `armUpdateARM`, which `UpdateSystem` calls for ever, and of the steps of a call
  that has begun, which runs to its end: the ARM7's instructions and the samples. None of the SH4.
- `Exit`: weak fairness of the exit's own steps, each of which may hang (`Hang` disables it), and of
  an alarm that is set.
- `Holly`, `CodeCache`, `BlockManager`, `TexCache`, `ArmJit`: safety only, none.

## 4. The finding

One place where the code and what is said of it part is a run that TLC refutes; the others, met while
modelling, are in section 6, the ones a property of a run has to except among them:

- `gdrom_long`: a DMA longer than its read stays active, takes the sectors of a following long PIO read
  and then ends that packet.

## 5. The proofs

`tlapm` checks every theorem to its last leaf; the assumptions are those named in the modules
(`ASSUME`), which TLC evaluates in the runs.

- **InterruptProofs**, of `SafeSpec` of `Intc` for every source list, priority field and SR value. The
  invariant is `TypeOK`, `BitsDistinct` (no two sources share a bit), the three parts of `Current` and
  `BankFollowsSR` (the bank in use is the one SR names) together: that the
  threshold is exact (`PollIsExact`) needs the tables to be a permutation sorted by level, which the
  rebuild gives and every other action keeps. `Refinement` maps a step of `Intc` to one or no step of
  `IntcSpec`: the slot of highest number in the masked word is the highest level, latest source.
  Of `HollySpec`, for any lines, registers and bits: the same invariant with `HollyTypeOK`, `LinesFollow` and
  `OnlyDevices` (no line is up but those of the devices). A device's step moves its own bit alone, at
  whatever slot a rebuild has left it (`UpdateLinesKeepsHInv`), and a rebuild moves every line with its
  source, so `LinesFollow` needs nothing more. `NoSpuriousInterrupt` follows from `PollIsExact` and it.
- **AudioRingProofs**, of `SafeSpec` of `AudioRing` for every ring size, depth, and every counter
  modulus above the ring's size and a multiple of it. The invariant relates program counter, occupancy
  and what was read before:
  `Room` (a slot found free stays free: only the producer fills), `Filling` (what the slot holds),
  `ClosedForGood` (a closed sink stays closed). `RingSafe` gives `NoOverwrite`, `RingIsAFifo` the
  refinement of `AudioFifo` while the sink is open, over the lemma `QueueGood` about the slots between
  the counters.
  `PacedKeepsEveryBlock` gives `PacedDropsOnlyOnTimeout` from `Paced`: unless the wait gave up, there is
  room when the thread picks a slot, whatever depth the menu writes in between.
- **RecompilerProofs**, of `CodeCache` for every program, cache size and preset, with `link_guard` on. The
  invariant `Whole` says: every entry below the limit begins a whole block and every linked exit
  leads to one (`Sound`), the block table's entries hold whole blocks (`Tabled`), the running block is
  whole (`Running`), and the limit is the write position, or, after a clear under the running
  block, as far as that block may still reach, the new cache being empty (`Reach`). `RunsWhatWasAsked` follows.
  For `FreshAfterInvalidate` and `FailsOncePerRewrite` it is strengthened by `Ages`: only code in RAM is
  rewritten, and no entry that can be reached is older than its address's last invalidation allows.
- **RecompilerProofs**, of `BmSpec` of `BlockManager` for any addresses, hash, codes and limits. Type
  correctness bounds the buckets and the counts. `Mirrored` is inductive with one fact beside it: every
  block is in the bucket of its address and no address is twice in a bucket, so that a block found there
  is the only one and its eviction is the table's. The same invariant carries
  `LookupsImplementBlockMap`: a step of the buckets is a step of the partial function `BlockMap` or none.
- **TexCacheProofs**, for any textures, overlaps, arena and number of renders. `NeverStale` needs to know of
  every descriptor in the arena how old its pixels may be: `Traced` says that a page whose stamp is older
  than the descriptor still holds the word that was decoded, but for a store nothing could see, and
  `Checked` that a descriptor checked in this render agrees with memory now. Around them: a block's
  coarse stamp is at least its pages' (`CoarseCovers`), descriptors do not overlap and those the map
  knows lie below the bump pointer (`Layout`), and a draw-done signal is the last command, so that
  a render begins with an empty queue (`Queue`). `SamplesWhatWasBound` adds `SInv`, which speaks of every
  position of the queue: a polygon that waits finds its pixels in the arena, in a place of this render below
  the bump pointer (`Waiting`), which `FreshSamples` shows no decode of this render may take; a line of TMEM
  that a polygon meets before the next invalidation is that of its texture, and those that outlive the
  queue agree with the arena (`Lines`), both unless the place is `reshaped`, whose polygons lose nothing but
  their pixels (`ReshapeSamples`); and the palette loaded when a position is reached, by the last
  load before it or the one in force, is the mirror's, which a render converts once (`Loads`).
- **AicaProofs**, for any programs, presets, engines, slice lengths and instruction costs. The line
  properties follow from what each write leaves of the latch; `RaceHonoured` from `Room`: the cycles left
  of a slice and those run since the interrupt was raised always make up the promise, but for the two
  exceptions.
- **ExitProofs**, for any contents, writes, presets and number of sessions. One invariant for each phase:
  `InPlay` (the patch is on over what was loaded, and clean means unchanged), `InSave` (the
  image being written is the chip's with the console's digits back), `InTeardown` (what was saved is
  what the next boot loads), `Watched`. They rest on `WritesAreHarmless`: no command sequence changes
  the factory partition, and none changes a byte without setting the dirty flag.
- **DeviceProofs**, of `GdSafeSpec` of `GdRom` for any guests, presets, sizes of buffers and chunks, play lengths
  and byte budgets of the slow tick. The invariant is `GdTypeOK` and one part for each question. `StatusInv` ties
  DRQ and BSY to the drive's state, whatever was aborted; `DrqMeansData` and `NeverHangs` follow, the latter for
  guests that send none of the packets `Unclipped` names.
  `OrderInv` says where the drive stands in the read: what has reached the guest is what was asked for but
  for the buffer's content, the PIO block and what is not fetched yet, and with no read under way nothing is
  left of one. It holds for a guest that does not abort and is `Unmixed`: its PIO reads fit a block, or it runs
  no DMA. The hypothesis is needed: a longer PIO read of a guest that also runs DMA is what `gdrom_long` refutes
  (section 4). From it `DataInOrder`, `DmaLeavesOthersAlone` and `OneHead`. `HeardInv` gives the play's position
  from the number of sectors heard (start + n modulo its length), which makes `HeardAsAsked` a matter of one
  step and of the arithmetic of the repeats.
- **DeviceProofs**, of `SafeSpec` of `Timeslice` for any slice, delays, costs, guests and register values. `TsInv`
  has, besides the types and `BusyEnds`, `OwedInv`: every count and every deadline that is still to come has
  its interrupt owed, and only those that the preset chooses are in use. Each device's part of
  `UpdateSystem` then raises only what is owed and leaves no count without a debt (`EndsAreOwed`). For the
  timers, `AfterCycles` gives in closed form what a channel shows after n cycles; `CycleByCycleIs` proves it
  of the counter that goes cycle by cycle and `BulkIs` of `UpdateTMU_chan`, so that
  `BulkCountsCycleByCycle` holds for a slice of any length but one that ends on two or more whole periods
  (section 6).
- **ArmJitProofs**, for any guest program, window, code memory, block length, re-patch and demotion limits,
  and levels 0 to 3. The invariant says that live code is whole (`Whole`): an entry is followed by its first
  instruction, an instruction by the next one or by the exits it needs, an exit's link leads to an
  entry of its address (`Linked`), an instruction was in memory since the last reset, and an idle loop's body
  only reads. `Known` and `InRange` say the same of the table and of the range a flush empties; `Placed`,
  that what runs is live. `Emission` shows that a compilation keeps the code whole, `Patched` that
  replacing an exit by one that leads to the same address does, and `Sewn` puts the two together for an exit that
  compiles its target, with and without a flush in between. From it every step of `ArmJit` is one step of
  `ArmDispatch` or none.

TLC checked each inductive invariant on the component's instance before it was proved.

The assumptions are as weak as the code allows: tables have their types, buffers, sizes and delays are positive
where the code divides by them or counts them down (`SpgAssumption` asks for delays of at least a cycle),
what fits must fit (a texture in the arena, a slice in a line), and the names of interrupts that share a set
differ (`NamesAssumption`).

Only model-checked: liveness (`EventuallyServed`, `EndsThePacket`, `PlayEnds`, `AlwaysReturns`, `TransfersEnd`,
`RequestsServed`, `ExitEnds`), which needs ENABLED and is beyond this prover, and the finding. No
theorem rests on an induction principle over data, whose operator parameter the provers cannot
instantiate; where one was needed, for the recursive functions of the timer, the least counterexample of a
well-founded order takes its place (`Least`).

## 6. Noted while reading, not run

- Clearing the SH4's code cache (CCR.ICI with JIT_ICI = 0) leaves the running block's patched exit, through
  which an old translation of a rewritten block runs once more, against "unconditionally correct"
  (`ccn.cpp:175-176`) and "destroys these sites" (`wii_driver.cpp:1322-1324`). `FreshAfterInvalidate`
  excepts the code that outlived a clear.
- The ARM7 can write the register that resets it (`nullAICA_plug.cpp:60`) within a slice. The flush of that
  reset is not counted in `s_flushes`, so `jit_link_c` may patch an exit that is gone, against
  `arm7_jit.cpp:763-767`. A sound driver that resets its own processor is not in the model.
- A block entered in its middle is one block for the interpreter and a new one for the recompiler: whether
  its closing branch is an idle loop, and where its cap falls, may differ. `ArmDispatch` allows both.
- Under AICA_RACE every store that raises the SH4's interrupt lifts the recompiler's budget to 50, so a
  loop of fewer cycles around such a store does not end its slice.

- CD_PLAY, CD_SEEK and REQ_STAT with unknown parameters reach `die()` or `verify()` with the hang fix on
  (`gdromv3.cpp:921`), against "bad drive cmds no longer hang" (`main.cpp:4229`). `NeverHangs` excepts them.
- GDROM_HANG_FIX is said to clip SET_MODE "to the 10 writable bytes instead of a verify() that hangs the
  Wii" (`gdromv3.cpp:860`, likewise `main.cpp:1409` and `4229`). From an offset of 11 to 255 the count becomes 0
  and `verify((Offset+Count)<11)` (`gdromv3.cpp:864`) still fails. `NeverHangs` excepts such a packet (`far_mode`).
- "A DMA longer than its read ends the packet once instead of verify()-hanging" (`main.cpp:1413`). A CD_READ of
  no sectors is drained from the start: the guard at `gdromv3.cpp:1480` returns at every tick, before the code
  that ends the packet, so SB_GDST and BSY stay up. `EndsThePacket` excepts such a read.
- SOFT_RESET leaves DRQ as it was (`gdromv3.cpp:517`) against `gdromv3.h:39`.
- `bm_RemoveCode` and `bm_InvalidateRange` would leave `cache[]` pointing past the end; nothing calls them.
- `REF_ROVI` takes its level from field 2 of IPRA (`intc.cpp:131`), though REF is in IPRB.
- `sb_regs`, `gd_state` and SB_GDST survive the resets.
- A GET_SCD of format 0 that asks for 0xFFFF bytes reaches `verify(len<0xFFFF)` (`gdromv3.cpp:544`) without
  GDROM_STAT_FIX. A reply or a SET_MODE block of one byte is a PIO block of no words, which no read or write of
  the data port ends (`gdromv3.cpp:546`).
- A GD-DMA whose length, or what is left of it, is no multiple of 32 is refused at every tick with a message
  (`gdromv3.cpp:1514`) and never ends.
- SB_ADST survives `ResetDC` (`aica_sb_Reset` is empty) while the scheduled end does not: under SCHED and
  AICA_RACE every later G2 transfer is then ignored (`dropped` in Timeslice). Without SCHED the countdown
  survives too, and its interrupt comes after the reset.
- `Read_SB_ADST` pretends to be busy "only once", but again at every second read while the interrupt
  is pending (`aica_if.cpp:294`).
- A Maple transfer aborted by clearing SB_MDEN keeps counting; enabled again in time, it ends with its
  interrupt (`maple_if.cpp:197`). One started by vblank while none runs meets
  `verify(SB_MDST & 1)` and stops the emulator (`maple_if.cpp:102`).
- `UpdateTMU_chan` takes TCOR steps for a period where an SH4 takes TCOR + 1; `CycleByCycle` follows the
  code in this. A reload value of 0 wraps the counter to 2^32 - 1.
- A Holly soft reset leaves the scheduler's ends and the DMA registers as they are (`dc.cpp:263`), and the
  flash chip its command state.
- `UpdateTMU_chan` says it handles multiple underflows correctly (`tmu.cpp:60, 87-89`). When what is left of the
  steps after the first underflow is two or more whole periods, `steps %= cor` (`tmu.cpp:92`) leaves 0 and
  TCNT becomes TCOR where counting ends at 0: the next underflow comes a period late.
  `BulkIsCycleByCycle` excepts such a slice.
- `wii_audio_shutdown` writes the producer's counter from the consumer's (`ring_wr = ring_rd`,
  `wii_audio.cpp:421`) in a read and a write; a callback between them makes the occupancy 2^32-1 against
  `wii_audio.h:15`. The sink is closed by then, so nothing reads it before the next start.
- Under SCHED a second GD-DMA that ends within the 200 cycles of the first's completion re-arms the one event,
  and one end is raised for both (`gdromv3.cpp:1591`). The second needs a new packet in between, which no
  guest of the model fits into 200 cycles.
- AICA_RACE's "at least 50 more cycles" (`arm_mem.cpp:52-58`, `aica.cpp:55-57`) has two exceptions: the
  interpreter's slice may be shorter than that, and the recompiler's STM path does not look at the flag.
- A byte write to the upper half of an AICA interrupt register changes it and calls no handler
  (`aica.cpp:270`), until the next sample.
- The result of `fclose` is not looked at when the flash is saved (`memutil.cpp:172`), against "never left
  truncated" (`dc.cpp:469-471`). Between the `remove` and the second `rename` (`dc.cpp:507`) the flash is in
  the temporary file alone, which no boot looks for.
- After the menu changes tex_cache the first render still finds the other preset's map: `tex_frame_reset`
  (`gxRend.cpp:2390-2403`) runs at the end of `DoRender` only, against its comment.
- With TMEM_CACHE off nothing invalidates TMEM when the arena starts over within a render, though it
  may hold lines of the places that are used again, against "provably safe" (`gxRend.cpp:2203-2214`).
  `SamplesWhatWasBound` excepts the rest of that render; the next one begins with an invalidation.
- A texture that is asked for with a second shape in one render is decoded again in its place, under the draws
  of the first shape that wait (`gxRend.cpp:5197-5204`, `5456`), which then sample the new bytes. With
  TMEM_CACHE off it can also be the other way round: TMEM is emptied at the start
  of a render and not after a decode (`gxRend.cpp:6637`), so a draw with the second shape may be served lines of
  the first, against "can't be served this slot's stale data" (`gxRend.cpp:5607-5609`).
  `SamplesWhatWasBound` excepts these places (`reshaped`).
- When the arena is full for the second time in a frame the guard falls back to the address's own slot,
  "rather than overwrite a live arena byte" (`gxRend.cpp:2093`); under normal_plus that slot lies within the
  same buffer. The model ends there (`Crowd`).
- The audio rate control (`wii_audio.cpp:189`) accumulates a correction per tick and clamps it; it is
  arithmetic on the resampler's step and not modelled.

## 7. Plan

In this order, the most consequential first:

1. Every safety property of the runs is a theorem. Of the liveness properties the safe half can be proved
   too: a measure for each that every fair step lowers and no other step raises (the words a DMA read has
   left, the sectors of a play, the slices to a deadline, the phases of the exit), so that only the
   fairness argument is left to TLC.
2. The interrupts Timeslice raises passed on to Holly, so that an end is followed to its acceptance.
3. The other presets of the texture cache and the flip of the frame buffers.
4. The SR transfer of RTE with its delay slot; the fault handler of fastmem.

Runs are few on purpose, one per question; a composed module replaces the runs of its parts where
its state space allows.
