------------------------------ MODULE AudioRing -----------------------------
(***************************************************************************)
(* The audio ring of wii/wii_audio.cpp.  The emulation thread fills a slot *)
(* sample by sample and publishes it; the voice callback, an interrupt     *)
(* that may come between any two steps of the thread, copies the oldest    *)
(* slot out and retires it.  Nothing is locked: the thread alone writes    *)
(* ring_wr, the interrupt alone writes ring_rd, until the sink is closed.  *)
(*                                                                         *)
(* A sample is represented by the number of the block it belongs to.  The  *)
(* counters wrap like the code's 32-bit ones.  MaxBlocks bounds the run.   *)
(***************************************************************************)
EXTENDS Integers, Sequences

CONSTANTS
  RingMax,       \* AUD_RING_MAX
  FreeRun,       \* AUD_RING_FREERUN
  BlockSamples,  \* block_samples
  CounterMod,    \* 2^32: ring_wr and ring_rd are u32
  MaxSpins,      \* polls of the pacing wait (500)
  Depths,        \* settings.emulator.AudioBuffers, read live
  Exits,         \* may the sink be closed (wii_audio_shutdown)?
  MaxBlocks      \* bound: blocks made in a run

ASSUME GeometryAssumption ==
  /\ RingMax \in Nat \ {0} /\ FreeRun \in 1 .. RingMax
  /\ BlockSamples \in Nat \ {0} /\ MaxSpins \in Nat \ {0}
ASSUME WrapAssumption ==
  CounterMod \in Nat /\ CounterMod > RingMax /\ CounterMod % RingMax = 0
ASSUME InputAssumption == Depths \subseteq Nat /\ Exits \in BOOLEAN /\ MaxBlocks \in Nat

Torn == -1   \* what is heard of a slot that holds samples of two blocks

VARIABLES
  ring, ring_wr, ring_rd,
  ring_slots, ring_paced,     \* the live depth
  cur_slot, fill_pos, slot_ok,
  aica_ready,
  voice,                      \* does ASND call the callback?
  pc, spins,                  \* the thread, inside wii_audio_push_sample
  exitpc, exit_rd,            \* wii_audio_shutdown
  made,                       \* history: number of the block being made
  heard,                      \* history: the last block heard while open
  timedout                    \* history: the last pacing wait gave up

slot == <<cur_slot, fill_pos, slot_ok>>
depth == <<ring_slots, ring_paced>>
exit == <<exitpc, exit_rd>>
vars == <<ring, ring_wr, ring_rd, depth, slot, aica_ready, voice, pc, spins,
          exit, made, heard, timedout>>

\* The occupancy, by unsigned subtraction.
Used == (ring_wr - ring_rd) % CounterMod

BlockOf(samples) ==
  IF \A i \in DOMAIN samples : samples[i] = samples[0] THEN samples[0] ELSE Torn

-----------------------------------------------------------------------------
(* The producer: wii_audio_push_sample                                     *)

\* One sample; the last one of a block goes on to publish it.
PushSample ==
  /\ pc = "idle" /\ aica_ready /\ made <= MaxBlocks
  /\ ring' = IF slot_ok THEN [ring EXCEPT ![cur_slot][fill_pos] = made] ELSE ring
  /\ \/ /\ fill_pos + 1 < BlockSamples
        /\ fill_pos' = fill_pos + 1 /\ UNCHANGED pc
     \/ /\ fill_pos + 1 = BlockSamples
        /\ fill_pos' = 0 /\ pc' = "publish"
  /\ UNCHANGED <<ring_wr, ring_rd, depth, cur_slot, slot_ok, aica_ready, voice,
                 spins, exit, made, heard, timedout>>

\* ring_wr moves past a slot that was filled; a block without one is dropped.
Publish ==
  /\ pc = "publish"
  /\ ring_wr' = IF slot_ok THEN (ring_wr + 1) % CounterMod ELSE ring_wr
  /\ made' = made + 1 /\ pc' = "depth"
  /\ UNCHANGED <<ring, ring_rd, depth, slot, aica_ready, voice, spins, exit,
                 heard, timedout>>

ReadDepth ==
  /\ pc = "depth"
  /\ \E want \in Depths :
       /\ ring_paced' = (want # 0)
       /\ ring_slots' = IF want = 0 THEN FreeRun
                        ELSE IF want > RingMax THEN RingMax ELSE want
  /\ pc' = "full"
  /\ UNCHANGED <<ring, ring_wr, ring_rd, slot, aica_ready, voice, spins, exit,
                 made, heard, timedout>>

\* (mutant of TestFull) the wait starts one block too late
MutTestLate ==
  /\ pc = "full"
  /\ pc' = IF ring_paced /\ Used > ring_slots THEN "wait" ELSE "pick"
  /\ spins' = 0 /\ timedout' = FALSE
  /\ UNCHANGED <<ring, ring_wr, ring_rd, depth, slot, aica_ready, voice, exit,
                 made, heard>>

TestFull ==
  /\ pc = "full"
  /\ pc' = IF ring_paced /\ Used >= ring_slots THEN "wait" ELSE "pick"
  /\ spins' = 0 /\ timedout' = FALSE
  /\ UNCHANGED <<ring, ring_wr, ring_rd, depth, slot, aica_ready, voice, exit,
                 made, heard>>

\* (mutant of PaceWait) the wait looks at the ring alone
MutWaitUnbounded ==
  /\ pc = "wait"
  /\ Used < ring_slots /\ pc' = "pick"
  /\ UNCHANGED <<ring, ring_wr, ring_rd, depth, slot, aica_ready, voice, exit,
                 made, heard, spins, timedout>>

\* One poll of pace_wait.
PaceWait ==
  /\ pc = "wait"
  /\ \/ /\ spins < MaxSpins /\ (~aica_ready \/ Used < ring_slots)
        /\ pc' = "pick" /\ UNCHANGED <<spins, timedout>>
     \/ /\ spins < MaxSpins /\ aica_ready /\ Used >= ring_slots
        /\ spins' = spins + 1 /\ UNCHANGED <<pc, timedout>>
     \/ /\ spins = MaxSpins
        /\ pc' = "pick" /\ timedout' = TRUE /\ UNCHANGED spins
  /\ UNCHANGED <<ring, ring_wr, ring_rd, depth, slot, aica_ready, voice, exit,
                 made, heard>>

\* (mutant of PickSlot) the slot is used whatever the occupancy
MutPickAlways ==
  /\ pc = "pick"
  /\ slot_ok' = TRUE
  /\ cur_slot' = ring_wr % RingMax
  /\ pc' = "idle"
  /\ UNCHANGED <<ring, ring_wr, ring_rd, depth, fill_pos, aica_ready, voice,
                 spins, exit, made, heard, timedout>>

PickSlot ==
  /\ pc = "pick"
  /\ slot_ok' = (Used < ring_slots)
  /\ cur_slot' = ring_wr % RingMax
  /\ pc' = "idle"
  /\ UNCHANGED <<ring, ring_wr, ring_rd, depth, fill_pos, aica_ready, voice,
                 spins, exit, made, heard, timedout>>

-----------------------------------------------------------------------------
(* The voice callback and the voice itself                                 *)

\* (mutant of AudioCallback) the read index is taken by the live depth
MutIndexByDepth ==
  /\ voice /\ Used # 0
  /\ heard' = IF aica_ready THEN BlockOf(ring[ring_rd % ring_slots]) ELSE heard
  /\ ring_rd' = (ring_rd + 1) % CounterMod
  /\ UNCHANGED <<ring, ring_wr, depth, slot, aica_ready, voice, pc, spins, exit,
                 made, timedout>>

\* audio_callback with something to play; an empty ring is concealed by a
\* buffer the ring has no part in.  The interrupt is not itself interrupted.
AudioCallback ==
  /\ voice /\ Used # 0
  /\ heard' = IF aica_ready THEN BlockOf(ring[ring_rd % RingMax]) ELSE heard
  /\ ring_rd' = (ring_rd + 1) % CounterMod
  /\ UNCHANGED <<ring, ring_wr, depth, slot, aica_ready, voice, pc, spins, exit,
                 made, timedout>>

\* wii_audio_aica_ready, by the thread, between two samples: the voice is
\* stopped while audio_start_voice takes everything back to the start.
AicaReady ==
  /\ pc = "idle" /\ exitpc = "open"
  /\ ring_wr' = 0 /\ ring_rd' = 0 /\ cur_slot' = 0 /\ fill_pos' = 0 /\ slot_ok' = TRUE
  /\ voice' = TRUE /\ aica_ready' = TRUE
  /\ made' = IF fill_pos = 0 THEN made ELSE made + 1
  /\ UNCHANGED <<ring, depth, pc, spins, exit, heard, timedout>>

\* wii_audio_shutdown, "safe to call from anywhere": its steps, with those of
\* the callback and of a thread inside push_sample in between.
Shutdown ==
  /\ Exits
  /\ \/ /\ exitpc = "open"
        /\ aica_ready' = FALSE /\ exitpc' = "closed"
        /\ UNCHANGED <<ring_wr, voice, exit_rd>>
     \/ /\ exitpc = "closed"
        /\ exit_rd' = ring_rd /\ exitpc' = "read"
        /\ UNCHANGED <<ring_wr, voice, aica_ready>>
     \/ /\ exitpc = "read"
        /\ ring_wr' = exit_rd /\ exitpc' = "flushed"
        /\ UNCHANGED <<voice, aica_ready, exit_rd>>
     \/ /\ exitpc = "flushed"
        /\ voice' = FALSE /\ exitpc' = "done"
        /\ UNCHANGED <<ring_wr, aica_ready, exit_rd>>
  /\ UNCHANGED <<ring, ring_rd, depth, slot, pc, spins, made, heard, timedout>>

-----------------------------------------------------------------------------

\* wii_audio_init: the voice runs on an empty ring until AICA is ready.
Init ==
  /\ ring = [s \in 0 .. RingMax - 1 |-> [i \in 0 .. BlockSamples - 1 |-> 0]]
  /\ ring_wr = 0 /\ ring_rd = 0
  /\ ring_slots = FreeRun /\ ring_paced = FALSE
  /\ cur_slot = 0 /\ fill_pos = 0 /\ slot_ok = TRUE
  /\ aica_ready = FALSE /\ voice = TRUE
  /\ pc = "idle" /\ spins = 0
  /\ exitpc = "open" /\ exit_rd = 0
  /\ made = 1 /\ heard = 0 /\ timedout = FALSE

Thread == PushSample \/ Publish \/ ReadDepth \/ TestFull \/ PaceWait \/ PickSlot

Next == Thread \/ AudioCallback \/ AicaReady \/ Shutdown

\* The thread is scheduled for ever.  The callback has no fairness: the bound
\* on the pacing wait is there because the voice may stop.
Fairness == WF_vars(Thread)

SafeSpec == Init /\ [][Next]_vars
Spec == SafeSpec /\ Fairness

-----------------------------------------------------------------------------
(* Properties                                                              *)

TypeOK ==
  /\ ring \in [0 .. RingMax - 1 -> [0 .. BlockSamples - 1 -> Nat]]
  /\ ring_wr \in 0 .. CounterMod - 1 /\ ring_rd \in 0 .. CounterMod - 1
  /\ ring_slots \in 1 .. RingMax /\ ring_paced \in BOOLEAN
  /\ cur_slot \in 0 .. RingMax - 1 /\ fill_pos \in 0 .. BlockSamples - 1
  /\ slot_ok \in BOOLEAN /\ aica_ready \in BOOLEAN /\ voice \in BOOLEAN
  /\ pc \in {"idle", "publish", "depth", "full", "wait", "pick"}
  /\ spins \in 0 .. MaxSpins
  /\ exitpc \in {"open", "closed", "read", "flushed", "done"}
  /\ exit_rd \in 0 .. CounterMod - 1
  /\ made \in Nat /\ heard \in Nat \cup {Torn} /\ timedout \in BOOLEAN

\* The slot being filled is none of those the callback may still read, at any
\* depth the options menu sets and over the wrap of the counters.
NoOverwrite ==
  aica_ready /\ slot_ok /\ pc \in {"idle", "publish"} =>
    /\ Used < RingMax
    /\ cur_slot = ring_wr % RingMax
    /\ \A i \in 0 .. Used - 1 : (ring_rd + i) % RingMax # cur_slot

\* AudioBuffers # 0 is a speed limiter, not a filter: a block is left out only
\* when the pacing wait has given up on the callback.
PacedDropsOnlyOnTimeout ==
  aica_ready /\ pc = "idle" /\ ring_paced /\ ~slot_ok => timedout

Unread(i) == BlockOf(ring[(ring_rd + i - 1) % RingMax])

\* The blocks a listener is still owed.
Queue == IF aica_ready THEN [i \in 1 .. Used |-> Unread(i)] ELSE <<>>

Fifo == INSTANCE AudioFifo WITH Capacity <- RingMax, queue <- Queue

\* While the sink is open, what is heard is the blocks made, whole, in order
\* and none twice.
ImplementsAudioFifo == Fifo!Spec

\* wii_audio.cpp: the wait is bounded, so the emulation thread always comes
\* back from a sample, with the voice gone or the sink closed under it.
AlwaysReturns == (pc # "idle") ~> (pc = "idle")

=============================================================================
