------------------------------ MODULE MCGdRom -------------------------------
(* The guests the runs of GdRom.tla choose from. *)
EXTENDS GdRom

Fix(sched, delay) ==
  [hang_fix |-> TRUE, sched |-> sched, delay |-> delay,
   state_fix |-> TRUE, pause_fix |-> TRUE, cdda |-> TRUE]
NoFix ==
  [p \in {"hang_fix", "sched", "delay", "state_fix", "pause_fix", "cdda"} |-> p = "cdda"]

\* Follows the protocol; its PIO reads fit one block, its DMAs may be longer
\* than its reads, need several transfers, or have a length that is not aligned;
\* a DMA read may be of no sector.
Driver ==
  [preset |-> Fix(FALSE, FALSE), polite |-> TRUE,
   ata |-> {"SPI_PACKET", "EXEC_DIAG", "IDENTIFY", "IDENTIFY_DEV", "SET_FEATURES", "unknown"},
   spi |-> {"busy", "reply", "set_mode", "bad_mode", "long_toc"},
   starts |-> {0, 9}, pio |-> {0, 2}, dma |-> {0, 1, 3}, lengths |-> {0, 2, 3},
   audio |-> {}, swaps |-> FALSE]

\* The same under the presets that pace the DMA; it asks for little else.
Paced ==
  [preset |-> Fix(TRUE, TRUE), polite |-> TRUE, ata |-> {"SPI_PACKET"}, spi |-> {"reply"},
   starts |-> {0}, pio |-> {2}, dma |-> {0, 2}, lengths |-> {0, 2, 3, 4},
   audio |-> {}, swaps |-> FALSE]

\* PIO reads of several blocks.
PioReader ==
  [preset |-> Fix(FALSE, FALSE), polite |-> TRUE, ata |-> {"SPI_PACKET"}, spi |-> {},
   starts |-> {0, 9}, pio |-> {0, 3, 5}, dma |-> {}, lengths |-> {},
   audio |-> {}, swaps |-> FALSE]

\* Breaks off whatever it does.
Aborter ==
  [preset |-> Fix(FALSE, FALSE), polite |-> TRUE,
   ata |-> {"SPI_PACKET", "NOP", "SOFT_RESET", "EXEC_DIAG"},
   spi |-> {"none"}, starts |-> {0}, pio |-> {3}, dma |-> {2}, lengths |-> {4},
   audio |-> {}, swaps |-> FALSE]

\* Without GDROM_HANG_FIX, and polls nothing.
Legacy ==
  [preset |-> NoFix, polite |-> FALSE,
   ata |-> {"SPI_PACKET", "EXEC_DIAG", "unknown"},
   spi |-> {"none", "bad", "bad_mode", "far_mode", "long_toc", "long_scd"},
   starts |-> {0}, pio |-> {2}, dma |-> {1, 2}, lengths |-> {0, 4},
   audio |-> {}, swaps |-> FALSE]

\* Plays music between its reads: ranges with an end before, at and after the
\* start, with the disc's end, repeated and endless.
Play(s, e, r) == [kind |-> "play", start |-> s, end |-> e, repeats |-> r]
Other(k, s, r) == [kind |-> k, start |-> s, end |-> 0, repeats |-> r]
Player(p, plays) ==
  [preset |-> p, polite |-> TRUE, ata |-> {"SPI_PACKET", "IDENTIFY"},
   spi |-> {"vendor"}, starts |-> {0}, pio |-> {1}, dma |-> {1}, lengths |-> {2},
   audio |-> plays \cup {Other("resume", 0, 1), Other("seek", 3, 0),
                         Other("home", 0, 0), Other("pause", 0, 0)},
   swaps |-> TRUE]

\* With every other command's state changes, or without the presets.
Jukebox(p, ata) ==
  [Player(p, {Play(2, 4, 1), Play(3, 0, 0)}) EXCEPT
     !.ata = ata, !.spi = {}, !.pio = {}, !.dma = {}, !.lengths = {}]

Players ==
  {Player(Fix(FALSE, FALSE), {Play(2, 4, 1), Play(3, 2, 1), Play(3, 0, 0), Play(2, 4, Endless)}),
   Jukebox(Fix(FALSE, FALSE), {"SPI_PACKET", "SOFT_RESET"}), Jukebox(NoFix, {"SPI_PACKET"})}

All == {Driver, Paced, PioReader, Aborter, Legacy} \cup Players

\* A DMA longer than its read, and PIO reads of several blocks.
Mixed ==
  {[preset |-> Fix(FALSE, FALSE), polite |-> TRUE, ata |-> {"SPI_PACKET"}, spi |-> {},
    starts |-> {0}, pio |-> {3}, dma |-> {1}, lengths |-> {3}, audio |-> {}, swaps |-> FALSE]}
=============================================================================
