------------------------------- MODULE GdRom --------------------------------
(***************************************************************************)
(* The GD-ROM drive of dc/gdrom/gdromv3.cpp: the ATA/packet state machine  *)
(* (gd_set_state), the PIO data port, and the GD-DMA that UpdateGDRom      *)
(* moves in pieces from the emulator's slow tick.                          *)
(*                                                                         *)
(* A state the code only passes through (gds_procpacket, gds_pio_end,      *)
(* gds_procpacketdone, gds_process_set_mode, gds_readsector_pio) is an     *)
(* operator on the drive's record; those it rests in are values of "state".*)
(* Disc data is counted in units: unit u of the disc is the u-th of        *)
(* SectorSize pieces per sector, so a run of data is a first unit and a    *)
(* count.  verify() and die() end in an endless loop: "hung".              *)
(*                                                                         *)
(* Cdda.tla holds the drive's other half, the audio play: one set of       *)
(* packets drives both, and the sound unit moves the play position.        *)
(*                                                                         *)
(* Left out: a drive without a disc (its unit status and spin-up), what    *)
(* the replies hold, SB_GDDIR other than 1, writes of SB_GDLEN during a    *)
(* transfer, and words written after a SET_MODE block of one byte.         *)
(***************************************************************************)
EXTENDS Cdda

CONSTANTS
  Games,       \* kinds of guest programs, see InputsAssumption
  SectorSize,   \* units in a sector
  MaxPio,       \* sectors in one PIO block (27)
  MaxFill,      \* sectors FillReadBuffer takes from the disc (32)
  MaxChunk,     \* units one UpdateGDRom moves (32000 bytes)
  Align,        \* units in 32 bytes
  MaxDma,       \* what SB_GDLEN = 0 stands for (32 MB)
  PacketWords,  \* words of a packet (6)
  ReplySizes,   \* bytes of a reply or of SET_MODE's data
  Credits,      \* units the drive may move per slow tick (GDROM_DELAY)
  MaxFAD        \* bound: where a play without an end is no longer followed

ASSUME DriveAssumption ==
  /\ SectorSize \in Nat \ {0} /\ MaxPio \in Nat \ {0} /\ MaxFill \in Nat \ {0}
  /\ Align \in Nat \ {0} /\ MaxDma \in Nat /\ PacketWords \in Nat \ {0}
  /\ MaxChunk \in Nat \ {0} /\ MaxChunk <= MaxFill * SectorSize
  /\ MaxChunk % Align = 0
ASSUME InputsAssumption ==
  /\ \A g \in Games :
       /\ g.preset \in [hang_fix : BOOLEAN, sched : BOOLEAN, delay : BOOLEAN,
                        state_fix : BOOLEAN, pause_fix : BOOLEAN, cdda : BOOLEAN]
       /\ g.audio \subseteq [kind : {"play", "resume", "seek", "home", "pause"},
                             start : FAD, end : FAD, repeats : 0 .. Endless]
       /\ g.polite \in BOOLEAN          \* waits for Ready before a command
       /\ g.ata \cup g.spi \subseteq STRING   \* its commands, reads aside
       /\ g.starts \cup g.pio \cup g.dma \subseteq Nat   \* its reads, in sectors
       /\ g.lengths \subseteq Nat        \* its values of SB_GDLEN
  /\ MaxFAD \in Nat /\ ReplySizes \subseteq Nat /\ Credits \subseteq Nat \ {0}

NoData == -1    \* pio data that is not disc data

VARIABLES
  game,       \* the guest that runs, and the presets of its game
  gd,          \* the drive: state, registers, pio_buff, read_params, read_buff
  INTRQ,       \* holly_GDROM_CMD in SB_ISTEXT
  dma,         \* SB_GDEN, SB_GDST, SB_GDLEN, SB_GDLEND
  endPending,  \* the DMA end interrupt waits in the scheduler
  dmaIRQ,      \* holly_GDROM_DMA in SB_ISTNRM
  s_gd_budget,
  hung,
  host,        \* history: the read asked for and what the guest got of it
  audio,       \* cdda and the unit status, see Cdda
  heard        \* history: the play asked for and how much of it was heard

irqs == <<INTRQ, endPending, dmaIRQ>>
sound == <<audio, heard>>
gdvars == <<game, gd, dma, irqs, s_gd_budget, hung, host, sound>>

options == game.preset

Smaller(a, b) == IF a < b THEN a ELSE b

NoRead == [base |-> 0, ask |-> 0, got |-> 0, ok |-> TRUE]

\* n units from unit u reach the guest.
Delivered(h, u, n) ==
  IF n = 0 THEN h
  ELSE [h EXCEPT !.got = @ + n,
                 !.ok = @ /\ u = h.base + h.got /\ h.got + n <= h.ask]

\* The n-th sector of a play is the n-th of its range, over and over.
NoPlay == [start |-> 0, len |-> 1, total |-> 0, n |-> 0, ok |-> TRUE, on |-> FALSE,
           ahead |-> FALSE]
Asked(c) ==
  LET end == IF c.end = 0 THEN LastFAD ELSE c.end
      len == IF end > c.start THEN end - c.start ELSE 1
  IN [start |-> c.start, len |-> len, n |-> 0, ok |-> TRUE, on |-> TRUE,
      ahead |-> end > c.start,
      total |-> IF c.repeats = Endless THEN 0 ELSE (c.repeats + 1) * len]
Heard(h, fad) ==
  IF ~h.on THEN h
  ELSE [h EXCEPT !.n = IF h.total = 0 THEN (@ + 1) % h.len ELSE Smaller(@ + 1, h.total),
                 !.ok = @ /\ fad = h.start + (h.n % h.len)
                          /\ (h.total > 0 => h.n < h.total)]

-----------------------------------------------------------------------------
(* gd_set_state: each operator is a case of its switch                     *)

Waitcmd(d) == [d EXCEPT !.state = "waitcmd", !.DRDY = TRUE, !.BSY = FALSE]

\* gds_procpacketdone; the callers raise INTRQ with it
\* (mutant of ProcPacketDone) DRQ stays up
MutDoneKeepsDRQ(d) == Waitcmd([d EXCEPT !.CoD = TRUE, !.IO = TRUE])

ProcPacketDone(d) ==
  Waitcmd([d EXCEPT !.CoD = TRUE, !.IO = TRUE, !.DRQ = FALSE])

\* gds_pio_send_data and gds_pio_get_data, entered by gd_spi_pio_end and
\* gd_spi_pio_read_end with a length in bytes; nothing to transfer goes straight
\* to the next state, which from there is gds_pio_end (gds_process_set_mode leads
\* to it too).  The block is counted in words: one byte makes a block of none.
\* (mutant of Pio) DRQ is not raised
MutPioNoDRQ(d, state, u, len, next) ==
  IF len = 0 THEN ProcPacketDone(d)
  ELSE [d EXCEPT !.state = state, !.IO = TRUE, !.CoD = FALSE,
                 !.BSY = FALSE, !.pio = [unit |-> u, left |-> len \div 2, next |-> next]]

Pio(d, state, u, len, next) ==
  IF len = 0 THEN ProcPacketDone(d)
  ELSE [d EXCEPT !.state = state, !.IO = TRUE, !.CoD = FALSE, !.DRQ = TRUE,
                 !.BSY = FALSE, !.pio = [unit |-> u, left |-> len \div 2, next |-> next]]

\* gds_readsector_pio
ReadsectorPio(d) ==
  LET n == Smaller(d.remaining, MaxPio)
  IN Pio([d EXCEPT !.start = @ + n, !.remaining = @ - n], "pio_send",
         d.start * SectorSize, 2 * (n * SectorSize),
         IF d.remaining > MaxPio THEN "readsector_pio" ELSE "pio_end")

\* The state gd_set_state enters when a PIO block is through.
AfterPio(d) ==
  IF d.pio.next = "readsector_pio" THEN ReadsectorPio(d) ELSE ProcPacketDone(d)

FillReadBuffer(d) ==
  LET n == Smaller(d.remaining, MaxFill)
  IN [d EXCEPT !.cache = [unit |-> d.start * SectorSize, left |-> n * SectorSize],
               !.start = @ + n, !.remaining = @ - n]

-----------------------------------------------------------------------------
(* The command registers                                                   *)

\* What a guest that follows the ATA protocol waits for before a command.
Ready == ~gd.BSY /\ ~gd.DRQ

\* gds_procata: what every command does first
Accepted == [gd EXCEPT !.state = "procata", !.DRDY = FALSE, !.BSY = TRUE, !.CHECK = FALSE]

\* The commands that complete at once, with an error or without: SET_FEATURES
\* leaves CHECK clear, IDENTIFY clears the whole status register.
AtOnce(c) ==
  CASE c = "SET_FEATURES" -> Waitcmd(Accepted)
    [] c = "IDENTIFY" -> Waitcmd([Accepted EXCEPT !.DRQ = FALSE, !.CHECK = TRUE])
    [] OTHER -> Waitcmd([Accepted EXCEPT !.CHECK = TRUE])

\* The lengths of the replies that are a whole table (more than a byte), and of
\* IDENTIFY_DEV's, which without GDROM_HANG_FIX is left over from some packet.
TableSizes == ReplySizes \ {0, 1}
IdentifySizes == IF options.hang_fix THEN TableSizes ELSE ReplySizes

\* What a command that breaks off the play leaves of it.
CutOff(a) == audio' = a /\ heard' = [heard EXCEPT !.on = a.playing /\ @]

gd_process_ata_cmd(c) ==
  \/ /\ \/ c \in {"NOP", "IDENTIFY", "SET_FEATURES"}
        \/ c \in {"EXEC_DIAG", "unknown"} /\ options.hang_fix
     /\ gd' = AtOnce(c) /\ INTRQ' = TRUE /\ host' = NoRead /\ UNCHANGED hung
  \/ /\ c = "EXEC_DIAG" /\ ~options.hang_fix
     /\ gd' = Accepted /\ host' = NoRead /\ UNCHANGED <<INTRQ, hung>>
  \/ /\ c = "unknown" /\ ~options.hang_fix
     /\ gd' = Accepted /\ hung' = TRUE /\ UNCHANGED <<INTRQ, host>>
  \/ /\ c = "SOFT_RESET"   \* gd_reset: no register but BSY and DRDY, no DMA
     /\ gd' = Waitcmd(Accepted) /\ host' = NoRead /\ UNCHANGED <<INTRQ, hung>>
  \/ /\ c = "SPI_PACKET"   \* gds_waitpacket
     /\ gd' = [Accepted EXCEPT !.state = "waitpacket", !.packet = 0, !.CoD = TRUE,
                               !.IO = FALSE, !.BSY = FALSE, !.DRQ = TRUE]
     /\ host' = NoRead /\ UNCHANGED <<INTRQ, hung>>
  \/ /\ c = "IDENTIFY_DEV"
     /\ \E n \in IdentifySizes :
          gd' = Pio(Accepted, "pio_send", NoData, n, "pio_end")
     /\ INTRQ' = TRUE /\ host' = NoRead /\ UNCHANGED hung

\* GD_COMMAND_Write.  NOP and SOFT_RESET may come at any time, the others in
\* gds_waitcmd only: verify() checks.
CommandWrite(c) ==
  /\ ~hung
  /\ game.polite => Ready \/ c \in {"NOP", "SOFT_RESET"}
  /\ \/ /\ c \notin {"NOP", "SOFT_RESET"} /\ gd.state # "waitcmd"
        /\ hung' = TRUE /\ UNCHANGED <<gd, INTRQ, host>>
     \/ /\ c \in {"NOP", "SOFT_RESET"} \/ gd.state = "waitcmd"
        /\ gd_process_ata_cmd(c)
  /\ \/ c = "SOFT_RESET" /\ CutOff(SetDisc(options, audio))
     \/ c = "IDENTIFY" /\ audio' = [audio EXCEPT !.unit = "PAUSE"] /\ UNCHANGED heard
     \/ c \notin {"SOFT_RESET", "IDENTIFY"} /\ UNCHANGED sound
  /\ UNCHANGED <<game, dma, endPending, dmaIRQ, s_gd_budget>>

\* SPI_CD_READ
CdRead(d, start, count, DMA) ==
  LET r == [d EXCEPT !.start = start, !.remaining = count]
  IN IF DMA THEN [FillReadBuffer(r) EXCEPT !.state = "readsector_dma"]
            ELSE ReadsectorPio(r)

ReadAsked(start, count) ==
  [base |-> start * SectorSize, ask |-> count * SectorSize, got |-> 0, ok |-> TRUE]

Packet == [gd EXCEPT !.DRQ = FALSE, !.BSY = TRUE, !.CHECK = FALSE]

\* SPI_CD_PLAY and SPI_CD_SEEK
AudioCommand(c) ==
  \/ c.kind = "play" /\ audio' = PlayRange(options, audio, c) /\ heard' = Asked(c)
  \/ c.kind = "resume" /\ audio' = Resume(options, audio, c) /\ UNCHANGED heard
  \/ c.kind = "seek" /\ CutOff(SeekTo(options, audio, c))
  \/ c.kind = "home" /\ CutOff(SeekHome(options, audio))
  \/ c.kind = "pause" /\ audio' = SeekPause(options, audio) /\ UNCHANGED heard

\* gds_procpacket, by kind of command.  "busy": TEST_UNIT on a busy drive;
\* "none": TEST_UNIT, CD_OPEN, CD_SCAN and what is not known;
\* "reply": REQ_MODE, GET_TOC, REQ_STAT, REQ_ERROR, REQ_SES, GET_SCD;
\* "vendor": 0x71, which also sets the unit status; "set_mode": SET_MODE in range.
\* What verify() and die() are about:
\* "bad_mode": SET_MODE of too many bytes from an offset up to 10, and
\* "long_toc": GET_TOC of 0xFFFF bytes, which GDROM_HANG_FIX cuts to what exists;
\* "far_mode": SET_MODE from an offset of 11 or more, which it does not help: the
\* count becomes 0 and the offset fails the check;
\* "long_scd": GET_SCD of 0xFFFF bytes (without GDROM_STAT_FIX);
\* "bad": a CD_PLAY or CD_SEEK parameter or a REQ_STAT range that is not known.
Clipped == {"bad_mode", "long_toc"}
Unclipped == {"bad", "far_mode", "long_scd"}

gd_process_spi_cmd ==
  \/ \E c \in game.spi :
       \/ /\ c \in {"none", "busy"}
          /\ gd' = [ProcPacketDone(Packet) EXCEPT !.CHECK = (c = "busy")]
          /\ INTRQ' = TRUE /\ UNCHANGED <<hung, host, sound>>
       \/ /\ c \in {"reply", "vendor"} \/ (c = "long_toc" /\ options.hang_fix)
          /\ \E n \in IF c = "reply" THEN ReplySizes ELSE TableSizes :
               gd' = Pio(Packet, "pio_send", NoData, n, "pio_end")
          /\ audio' = IF c = "vendor" THEN [audio EXCEPT !.unit = "PAUSE"] ELSE audio
          /\ INTRQ' = TRUE /\ UNCHANGED <<hung, host, heard>>
       \/ /\ c = "set_mode" \/ (c = "bad_mode" /\ options.hang_fix)
          /\ \E n \in ReplySizes : gd' = Pio(Packet, "pio_get", NoData, n, "process_set_mode")
          /\ INTRQ' = TRUE /\ UNCHANGED <<hung, host, sound>>
       \/ /\ c \in Unclipped \/ (c \in Clipped /\ ~options.hang_fix)
          /\ hung' = TRUE /\ UNCHANGED <<gd, INTRQ, host, sound>>
  \/ \E c \in game.audio :
       /\ AudioCommand(c)
       /\ gd' = ProcPacketDone(Packet) /\ INTRQ' = TRUE /\ UNCHANGED <<hung, host>>
  \/ \E s \in game.starts, n \in game.pio :
       /\ gd' = CdRead(Packet, s, n, FALSE) /\ CutOff(DataRead(options, audio))
       /\ INTRQ' = TRUE /\ host' = ReadAsked(s, n) /\ UNCHANGED hung
  \/ \E s \in game.starts, n \in game.dma :
       /\ gd' = CdRead(Packet, s, n, TRUE) /\ CutOff(DataRead(options, audio))
       /\ host' = ReadAsked(s, n) /\ UNCHANGED <<hung, INTRQ>>

\* GD_DATA writes: the packet, and SET_MODE's data
PacketWrite ==
  /\ ~hung /\ gd.state = "waitpacket"
  /\ \/ /\ gd.packet + 1 < PacketWords
        /\ gd' = [gd EXCEPT !.packet = @ + 1]
        /\ UNCHANGED <<INTRQ, hung, host, sound>>
     \/ /\ gd.packet + 1 = PacketWords
        /\ gd_process_spi_cmd
  /\ UNCHANGED <<game, dma, endPending, dmaIRQ, s_gd_budget>>

\* One word through the data port in either direction; after the last one
\* the next state is entered (raising INTRQ again).  A block without a word
\* never ends: its reads are refused as an underflow.
DataWord ==
  /\ ~hung /\ gd.state \in {"pio_send", "pio_get"} /\ gd.pio.left > 0
  /\ LET d == [gd EXCEPT !.pio.left = @ - 1,
                         !.pio.unit = IF @ = NoData THEN NoData ELSE @ + 1]
     IN \/ d.pio.left > 0 /\ gd' = d /\ UNCHANGED INTRQ
        \/ d.pio.left = 0 /\ gd' = AfterPio(d) /\ INTRQ' = TRUE
  /\ host' = IF gd.pio.unit = NoData THEN host ELSE Delivered(host, gd.pio.unit, 1)
  /\ UNCHANGED <<game, dma, endPending, dmaIRQ, s_gd_budget, hung, sound>>

\* GD_STATUS_Read clears INTRQ.
StatusRead ==
  /\ ~hung /\ INTRQ' = FALSE
  /\ UNCHANGED <<game, gd, dma, endPending, dmaIRQ, s_gd_budget, hung, host, sound>>

\* NotifyEvent_gdrom: another disc
DiskChange ==
  /\ ~hung /\ game.swaps
  /\ CutOff(SetDisc(options, audio))
  /\ UNCHANGED <<game, gd, dma, irqs, s_gd_budget, hung, host>>

\* gdrom_get_cdda, called by the sound unit while CDDA MUSIC is on.
AudioSector ==
  /\ ~hung /\ options.cdda /\ audio.playing /\ audio.curr < MaxFAD
  /\ audio' = Sector(options, audio) /\ heard' = Heard(heard, audio.curr)
  /\ UNCHANGED <<game, gd, dma, irqs, s_gd_budget, hung, host>>

-----------------------------------------------------------------------------
(* The GD-DMA                                                              *)

DmaLen(m) == IF options.hang_fix /\ m.len = 0 THEN MaxDma ELSE m.len

Drained(d) == d.remaining = 0 /\ d.cache.left = 0

\* What one UpdateGDRom would move with budget b, alignment aside.
Wanted(m, b) ==
  LET left == DmaLen(m) - m.done
  IN Smaller(left, IF options.delay /\ left # 0 THEN Smaller((b \div Align) * Align, MaxChunk)
                                                ELSE MaxChunk)

\* (mutant of Blocked) without GDROM_HANG_FIX's guard for a drained read
MutNoDrainGuard(m, b) ==
  \/ ~m.en \/ ~m.st
  \/ m.done # DmaLen(m) /\ Wanted(m, b) = 0
  \/ Wanted(m, b) % Align # 0

\* The early returns of UpdateGDRom.
Blocked(m, b) ==
  \/ ~m.en \/ ~m.st
  \/ options.hang_fix /\ Drained(gd)
  \/ m.done # DmaLen(m) /\ Wanted(m, b) = 0
  \/ Wanted(m, b) % Align # 0

\* (mutant of Copied) the refill comes before the rest of the buffer is copied
MutRefillDropsCache(len) ==
  LET d == IF len > gd.cache.left /\ gd.remaining > 0 THEN FillReadBuffer(gd) ELSE gd
      n == Smaller(len, d.cache.left)
  IN [gd |-> [d EXCEPT !.cache = [unit |-> @.unit + n, left |-> @.left - n]],
      moved |-> n,
      host |-> Delivered(host, d.cache.unit, n)]

\* The copy loop: the cache first, then, if the transfer wants more than it
\* held, one FillReadBuffer (a chunk never needs a second).
Copied(len) ==
  LET first == Smaller(len, gd.cache.left)
      refill == len > gd.cache.left /\ gd.remaining > 0
      d == IF refill THEN FillReadBuffer(gd)
           ELSE [gd EXCEPT !.cache = [unit |-> @.unit + first, left |-> @.left - first]]
      second == IF refill THEN Smaller(len - first, d.cache.left) ELSE 0
  IN [gd |-> [d EXCEPT !.cache = [unit |-> @.unit + second, left |-> @.left - second]],
      moved |-> first + second,
      host |-> Delivered(Delivered(host, gd.cache.unit, first), d.cache.unit, second)]

\* (mutant of Ended) one unit too many is waited for
MutEndedByMore(m, done) == done > DmaLen(m)
Ended(m, done) == done = DmaLen(m)

\* The rest of UpdateGDRom: with len units wanted and registers m.
Transfer(m, b, len) ==
  LET c == Copied(len)
      done == m.done + c.moved
      ended == Ended(m, done)
  IN /\ s_gd_budget' = IF b > c.moved THEN b - c.moved ELSE 0
     /\ dma' = [m EXCEPT !.done = done, !.st = ~ended]
     /\ endPending' = (endPending \/ (ended /\ options.sched))
     /\ dmaIRQ' = (dmaIRQ \/ (ended /\ ~options.sched))
     /\ host' = c.host
     /\ \/ /\ ~Drained(c.gd)
           /\ gd' = c.gd /\ UNCHANGED <<INTRQ, hung>>
        \/ /\ Drained(c.gd) /\ ~options.hang_fix /\ ~ended   \* verify(!(SB_GDST&1))
           /\ gd' = c.gd /\ hung' = TRUE /\ UNCHANGED INTRQ
        \/ /\ Drained(c.gd) /\ (options.hang_fix \/ ended)
           /\ gd' = ProcPacketDone(c.gd) /\ INTRQ' = TRUE /\ UNCHANGED hung

UpdateGDRom(m, b) ==
  \/ /\ Blocked(m, b)
     /\ dma' = m /\ s_gd_budget' = b
     /\ UNCHANGED <<gd, irqs, hung, host>>
  \/ /\ ~Blocked(m, b)
     /\ Transfer(m, b, Wanted(m, b))

\* SlowUpdate: gdrom_CreditCycles, then UpdateGDRom.
SlowUpdate ==
  /\ ~hung
  /\ \E c \in Credits :
       UpdateGDRom(dma, IF options.delay THEN Smaller(s_gd_budget + c, MaxChunk) ELSE 0)
  /\ UNCHANGED <<game, sound>>

\* GDROM_DmaStart with a 1; ignored when disabled or already running.
DmaStart(len) ==
  /\ ~hung /\ dma.en /\ ~dma.st
  /\ UpdateGDRom([dma EXCEPT !.len = len, !.st = TRUE, !.done = 0], s_gd_budget)
  /\ UNCHANGED <<game, sound>>

\* GDROM_DmaEnable: a 0 aborts a running transfer.
DmaEnable(on) ==
  /\ ~hung
  /\ dma' = [dma EXCEPT !.en = on, !.st = @ /\ on]
  /\ UNCHANGED <<game, gd, irqs, s_gd_budget, hung, host, sound>>

\* gdrom_dma_end_cb, and the guest's acknowledge in SB_ISTNRM
DmaEnd ==
  /\ ~hung /\ endPending
  /\ endPending' = FALSE /\ dmaIRQ' = TRUE
  /\ UNCHANGED <<game, gd, dma, INTRQ, s_gd_budget, hung, host, sound>>
DmaAck ==
  /\ ~hung /\ dmaIRQ' = FALSE
  /\ UNCHANGED <<game, gd, dma, INTRQ, endPending, s_gd_budget, hung, host, sound>>

-----------------------------------------------------------------------------

GdInit ==
  /\ game \in Games
  /\ gd = [state |-> "waitcmd", DRDY |-> FALSE, BSY |-> FALSE, DRQ |-> FALSE,
           CHECK |-> FALSE, CoD |-> FALSE, IO |-> FALSE, packet |-> 0,
           pio |-> [unit |-> NoData, left |-> 0, next |-> "waitcmd"],
           start |-> 0, remaining |-> 0, cache |-> [unit |-> 0, left |-> 0]]
  /\ INTRQ = FALSE /\ endPending = FALSE /\ dmaIRQ = FALSE
  /\ dma = [en |-> FALSE, st |-> FALSE, len |-> 0, done |-> 0]
  /\ s_gd_budget = 0 /\ hung = FALSE /\ host = NoRead
  /\ audio = Silent /\ heard = NoPlay

GdNext ==
  \/ \E c \in game.ata : CommandWrite(c)
  \/ PacketWrite \/ DataWord \/ StatusRead
  \/ SlowUpdate
  \/ \E len \in game.lengths : DmaStart(len)
  \/ \E on \in BOOLEAN : DmaEnable(on)
  \/ DmaEnd \/ DmaAck
  \/ DiskChange \/ AudioSector

\* UpdateSystem runs SlowUpdate, the scheduler and the sound unit again and again.
GdFairness == WF_gdvars(SlowUpdate) /\ WF_gdvars(DmaEnd) /\ WF_gdvars(AudioSector)

GdSafeSpec == GdInit /\ [][GdNext]_gdvars
GdSpec == GdSafeSpec /\ GdFairness

-----------------------------------------------------------------------------
(* Properties                                                              *)

Aborts == game.ata \cap {"NOP", "SOFT_RESET"} # {}

\* The guest may rely on the status register: DRQ is up exactly while the
\* drive waits for a packet or has a PIO block (gdromv3.h:39).  NOP and SOFT_RESET
\* in the middle of a transfer leave DRQ up (gd_reset clears BSY alone), so for a
\* guest that writes them only one direction is left.
DrqMeansData ==
  /\ gd.state \in {"waitpacket", "pio_get", "pio_send"} => gd.DRQ
  /\ gd.DRQ => Aborts \/ gd.state \in {"waitpacket", "pio_get", "pio_send"}

\* Under GDROM_HANG_FIX no verify() or die() is reached by a guest that waits
\* for BSY and DRQ to clear before it writes a command, NOP and SOFT_RESET
\* aside, which it may write over anything the drive and its DMA are doing, and
\* that sends none of the packets no preset clips: a CD_PLAY, CD_SEEK or REQ_STAT
\* with parameters the drive does not know, a SET_MODE from an offset past 10, a
\* GET_SCD of 0xFFFF bytes.
NeverHangs ==
  options.hang_fix /\ game.polite /\ game.spi \cap Unclipped = {} => ~hung

\* What reaches the guest of a read is the sectors it asked for, in order:
\* nothing stale from the buffer of an earlier read, no hole, nothing twice,
\* unless the guest has broken off a read (its buffer and DMA are left alone).
\* Under GDROM_HANG_FIX a read that ended delivered all it was asked for, by PIO
\* blocks or by any number of DMA transfers of any length.
DataInOrder ==
  ~Aborts =>
    /\ host.ok
    /\ options.hang_fix /\ gd.state = "waitcmd" /\ host.ask > 0 => host.got = host.ask

\* Under GDROM_HANG_FIX, UpdateGDRom moves data and ends the packet for a DMA
\* read in progress, and never on top of another command (the comment at
\* gdromv3.cpp:1473), unless the guest aborts a read and leaves its DMA running.
DmaLeavesOthersAlone ==
  [][options.hang_fix /\ ~Aborts /\ (SlowUpdate \/ \E len \in game.lengths : DmaStart(len))
       => gd.state = "readsector_dma" \/ gd' = gd]_gdvars

\* Under GDROM_HANG_FIX a DMA that runs during a DMA read ends, or it ends the
\* read's packet, whatever the lengths of the two and however the ticks pace it.
\* Two DMAs do neither, the guard and the check of the length return for ever: one
\* for a read of no sectors, whatever main.cpp:1413 says, and one with a length, or a
\* rest of it, that is no multiple of 32.
Aligned(m) == (DmaLen(m) - m.done) % Align = 0

EndsThePacket ==
  (options.hang_fix /\ ~Aborts /\ gd.state = "readsector_dma" /\ dma.st
     /\ host.ask > 0 /\ Aligned(dma))
    ~> (gd.state # "readsector_dma" \/ ~dma.st)

\* Under the two CDDA presets a play is heard sector by sector from its start to
\* its end, as often as it was asked for, over any pauses and resumes; one with
\* its end ahead of its start that reads as ended (GET_SCD 13h) was heard in full.
HeardAsAsked ==
  options.state_fix /\ options.pause_fix =>
    /\ heard.ok
    /\ heard.on /\ heard.ahead /\ audio.status = "TERMINATED" =>
         heard.total > 0 /\ heard.n = heard.total

\* gdromv3.cpp:780: "the drive cannot play audio and read data at once".  Under
\* CDDA_STATE_FIX no disc data reaches a guest while audio plays, unless it has
\* broken off the read.
OneHead ==
  [][options.state_fix /\ ~Aborts /\ audio.playing => host'.got <= host.got]_gdvars

\* main.cpp:1291: "a play ended only on an exact ==".  Under CDDA_STATE_FIX, with
\* CDDA MUSIC on, a play that is not endless stops by itself, wherever its end
\* lies, once the guest gives no further audio command.
PlayEnds ==
  <>[][PacketWrite => audio' = audio]_gdvars
    => ((options.state_fix /\ options.cdda /\ audio.repeats # Endless)
          ~> (~audio.playing \/ audio.repeats = Endless))

=============================================================================
