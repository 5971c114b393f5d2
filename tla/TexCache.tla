------------------------------ MODULE TexCache ------------------------------
(***************************************************************************)
(* The texture cache of the renderer under tex_cache=normal_plus           *)
(* (plugs/drkPvr/gxRend.cpp), with the write stamps of the video memory    *)
(* that it checks textures against (dc/pvr/vram_track.h, pvr_if.cpp) and   *)
(* the palette mirror of TLUT_FIX.                                         *)
(*                                                                         *)
(* A decoded texture lies in an arena that is filled from the bottom and   *)
(* starts over when it is full.  The graphics processor draws behind the   *)
(* emulation thread, from a queue of commands: it reads the bytes of a     *)
(* texture, through a cache of its own (TMEM), when it comes to the        *)
(* command that needs them.  A wait for it (GX_DrawDone) is a step that is *)
(* enabled when the queue is empty.                                        *)
(*                                                                         *)
(* An 8-word fingerprint stands for the words that it probes: a page has   *)
(* a word that every fingerprint sees and one that none does.              *)
(***************************************************************************)
EXTENDS Integers, Sequences

CONSTANTS
  Address, Shape,  \* a texture's place in video memory; its shape_key: size, format
                   \* and, without JOJO_FIX, palette
  Page, Block,     \* 2 KB pages and 64 KB blocks of video memory
  BlockOf,         \* the block of a page
  Span,            \* tex_src_span: the pages a texture is decoded from
  Size,            \* what a decoded texture and its descriptor take
  ArenaSize,       \* FAST_BUMP_TOTAL
  SkimpSlot,       \* skimp_slot: the place an address has in the same buffer
  Word, Bank, Colour,
  Palettes,        \* the sets of banks a polygon of a shape selects, {} for none
  MaxRenders, MaxWrites, MaxQueue  \* bounds: renders, the guest's writes between
                                   \* two of them, commands that wait at a bind

ASSUME VramAssumption ==
  /\ BlockOf \in [Page -> Block]
  /\ Span \in [Address -> [Shape -> SUBSET Page]]
ASSUME ArenaAssumption ==
  /\ ArenaSize \in Nat /\ SkimpSlot \in [Address -> Nat]
  /\ Size \in [Shape -> Nat \ {0}] /\ \A shape \in Shape : Size[shape] <= ArenaSize
ASSUME PaletteAssumption == Palettes \in [Shape -> SUBSET SUBSET Bank]
ASSUME BoundsAssumption == MaxRenders \in Nat /\ MaxWrites \in Nat /\ MaxQueue \in Nat

Part == {"probed", "other"}

VARIABLES
  vram, palette,        \* what the guest writes
  stamp, coarse,        \* vram_wstamp, vram_wstamp_coarse
  epoch,                \* vram_wepoch
  map,                  \* s_fastmap: address to place in the arena
  arena,                \* the arena: place to descriptor and pixels
  bump, drained,        \* s_fast_bump_offset, s_fast_drained_frame
  mirror, mirror_epoch, \* s_tlut_mirror and its epochs
  tlut_last,            \* s_tlut_last_key and its epoch
  rendering,            \* within DoRender
  gx_pending, done_irq, \* s_gx_pending, s_gx_done_irq
  fifo, tmem, tlut0,    \* the graphics processor: queue, texture cache, palette
  tmem_cache,           \* TMEM_CACHE: TMEM is kept across renders
  writes,               \* the guest's writes since the last render
  missed,               \* history: pages with a store that nothing could see
  wrapped, crowded,     \* history: the arena started over in this render; it was full
                        \* twice in a frame
  reshaped,             \* history: places that took a second shape in this render
  torn                  \* history: places and palettes that were drawn otherwise than
                        \* bound, in this render

memory == <<vram, palette, stamp, coarse, missed, writes>>
cache == <<map, arena, bump, drained, wrapped, crowded, reshaped>>
tluts == <<mirror, mirror_epoch, tlut_last>>
frame == <<rendering, epoch, gx_pending>>
gp == <<fifo, tmem, tlut0, done_irq, torn>>
vars == <<memory, cache, tluts, frame, gp, tmem_cache>>

-----------------------------------------------------------------------------
(* Video memory and palettes, between two renders                          *)

GuestWrites ==
  /\ ~rendering
  /\ writes < MaxWrites /\ writes' = writes + 1

\* vram_wmark_range
Mark(pages) ==
  /\ stamp' = [p \in Page |-> IF p \in pages THEN epoch ELSE stamp[p]]
  /\ coarse' = [k \in Block |-> IF \E p \in pages : BlockOf[p] = k THEN epoch ELSE coarse[k]]
  /\ missed' = missed \ pages

Fill(pages, part, word) ==
  vram' = [p \in Page |-> IF p \in pages THEN [vram[p] EXCEPT ![part] = word] ELSE vram[p]]

\* A write the emulator handles: the 32-bit area, a store queue, DMA, the YUV
\* converter.
Write(pages, part, word) ==
  /\ GuestWrites
  /\ Fill(pages, part, word) /\ Mark(pages)
  /\ UNCHANGED <<palette, cache, tluts, frame, gp, tmem_cache>>

\* A store of the guest straight into the 64-bit area
Store(page, part, word) ==
  /\ GuestWrites
  /\ Fill({page}, part, word)
  /\ missed' = IF part = "other" THEN missed \cup {page} ELSE missed
  /\ UNCHANGED <<palette, stamp, coarse, cache, tluts, frame, gp, tmem_cache>>

WritePalette(bank, colour) ==
  /\ GuestWrites
  /\ palette' = [palette EXCEPT ![bank] = colour]
  /\ UNCHANGED <<vram, stamp, coarse, missed, cache, tluts, frame, gp, tmem_cache>>

-----------------------------------------------------------------------------
(* SetTextureParams                                                        *)

Source(addr, shape, part) == [p \in Span[addr][shape] |-> vram[p][part]]

\* (mutant of tex_vram_dirty) only what was written in a later epoch
MutDirtyLater(addr, shape, since) ==
  \E p \in Span[addr][shape] : coarse[BlockOf[p]] > since /\ stamp[p] > since

tex_vram_dirty(addr, shape, since) ==
  \E p \in Span[addr][shape] : coarse[BlockOf[p]] >= since /\ stamp[p] >= since

\* Where a texture has a place that is large enough for its shape
Placed(addr, shape) == addr \in DOMAIN map /\ Size[shape] <= arena[map[addr]].size

\* cache_valid
Valid(addr, shape) ==
  LET slot == arena[map[addr]]
  IN /\ slot.addr = addr /\ slot.shape = shape
     /\ \/ slot.wcheck = epoch
        \/ /\ ~tex_vram_dirty(addr, shape, slot.wepoch)
           /\ slot.pixels["probed"] = Source(addr, shape, "probed")

\* A place of the given size, decoded now.  Its descriptor keeps the probed
\* words as a fingerprint of the pixels.
Decoded(size, addr, shape) ==
  [size |-> size, addr |-> addr, shape |-> shape, wepoch |-> epoch, wcheck |-> epoch,
   pixels |-> [part \in Part |-> Source(addr, shape, part)]]

\* The arena after something of a size is written at a place: what it overlaps
\* is no more.
Clear(at, size) == {o \in DOMAIN arena : o + arena[o].size <= at \/ at + size <= o}
Put(at, slot) ==
  [o \in Clear(at, slot.size) \cup {at} |-> IF o = at THEN slot ELSE arena[o]]

Draw(at, addr, shape, banks, slot) ==
  [op |-> "draw", at |-> at, addr |-> addr, shape |-> shape, banks |-> banks,
   pixels |-> slot.pixels, colours |-> [b \in banks |-> palette[b]]]
Invalidate == [op |-> "invalidate"]
LoadTlut(banks) == [op |-> "tlut", banks |-> banks]
SetDrawDone == [op |-> "done"]

NeedReupload(banks) == banks # {} /\ tlut_last # [key |-> banks, epoch |-> epoch]

\* tlut_mirror_get: a bank is converted once in a render.
Mirrored(banks) ==
  IF NeedReupload(banks)
  THEN /\ mirror' = [b \in Bank |-> IF b \in banks /\ mirror_epoch[b] # epoch
                                    THEN palette[b] ELSE mirror[b]]
       /\ mirror_epoch' = [b \in Bank |-> IF b \in banks THEN epoch ELSE mirror_epoch[b]]
       /\ tlut_last' = [key |-> banks, epoch |-> epoch]
  ELSE UNCHANGED tluts

\* The commands of a bind: the palette, the invalidation after a decode, and
\* the polygon.
Commands(at, addr, shape, banks, decoded, slot) ==
  (IF NeedReupload(banks) THEN <<LoadTlut(banks)>> ELSE <<>>)
  \o (IF decoded /\ tmem_cache THEN <<Invalidate>> ELSE <<>>)
  \o <<Draw(at, addr, shape, banks, slot)>>

Bound(at, addr, shape, banks, decoded, slot) ==
  /\ arena' = Put(at, slot)
  /\ fifo' = fifo \o Commands(at, addr, shape, banks, decoded, slot)
  /\ Mirrored(banks)
  /\ UNCHANGED <<memory, frame, tmem, tlut0, torn, tmem_cache>>

Asked(addr, shape) == rendering /\ Len(fifo) < MaxQueue

Hit(addr, shape, banks) ==
  /\ Asked(addr, shape) /\ Placed(addr, shape) /\ Valid(addr, shape)
  /\ Bound(map[addr], addr, shape, banks, FALSE, [arena[map[addr]] EXCEPT !.wcheck = epoch])
  /\ UNCHANGED <<map, bump, drained, wrapped, crowded, reshaped, done_irq>>

\* The slot keeps its size, and the texture its place: under the draws that wait,
\* when it is asked for with a second shape in a render.
Redecode(addr, shape, banks) ==
  /\ Asked(addr, shape) /\ Placed(addr, shape) /\ ~Valid(addr, shape)
  /\ Bound(map[addr], addr, shape, banks, TRUE, Decoded(arena[map[addr]].size, addr, shape))
  /\ reshaped' = IF arena[map[addr]].wcheck = epoch THEN reshaped \cup {map[addr]} ELSE reshaped
  /\ UNCHANGED <<map, bump, drained, wrapped, crowded, done_irq>>

\* fast_bump_alloc
Allocate(addr, shape, banks) ==
  /\ Asked(addr, shape) /\ ~Placed(addr, shape) /\ bump + Size[shape] <= ArenaSize
  /\ Bound(bump, addr, shape, banks, TRUE, Decoded(Size[shape], addr, shape))
  /\ map' = [a \in DOMAIN map \cup {addr} |-> IF a = addr THEN bump ELSE map[a]]
  /\ bump' = bump + Size[shape]
  /\ UNCHANGED <<drained, wrapped, crowded, reshaped, done_irq>>

\* (mutant of Wrap) the arena starts over under the draws that wait
MutWrapNoDrain(addr, shape, banks) ==
  /\ Asked(addr, shape) /\ ~Placed(addr, shape) /\ bump + Size[shape] > ArenaSize
  /\ ~drained
  /\ drained' = TRUE
  /\ Bound(0, addr, shape, banks, TRUE, Decoded(Size[shape], addr, shape))
  /\ map' = [a \in {addr} |-> 0] /\ bump' = Size[shape]
  /\ wrapped' = TRUE
  /\ UNCHANGED <<crowded, reshaped, done_irq>>

\* It is full: under TEX_WRAP_GUARD it starts over once in a frame, when nothing
\* of it is waiting to be drawn.
Wrap(addr, shape, banks) ==
  /\ Asked(addr, shape) /\ ~Placed(addr, shape) /\ bump + Size[shape] > ArenaSize
  /\ ~drained /\ fifo = <<>>
  /\ drained' = TRUE
  /\ done_irq' = TRUE
  /\ Bound(0, addr, shape, banks, TRUE, Decoded(Size[shape], addr, shape))
  /\ map' = [a \in {addr} |-> 0] /\ bump' = Size[shape]
  /\ wrapped' = TRUE
  /\ UNCHANGED <<crowded, reshaped>>

\* Full for the second time in a frame: the texture goes to the place of its
\* address, which is a place of the arena too.  The model ends here.
Crowd(addr, shape) ==
  /\ Asked(addr, shape) /\ ~Placed(addr, shape) /\ bump + Size[shape] > ArenaSize
  /\ drained
  /\ arena' = [o \in Clear(SkimpSlot[addr], Size[shape]) |-> arena[o]]
  /\ crowded' = TRUE
  /\ UNCHANGED <<memory, map, bump, drained, wrapped, reshaped, tluts, frame, gp, tmem_cache>>

-----------------------------------------------------------------------------
(* DoRender                                                                *)

NothingTorn == [textures |-> {}, palette |-> FALSE]

\* gx_sync_pending waits for the frame that is queued.
StartRender ==
  /\ ~rendering
  /\ gx_pending => fifo = <<>>
  /\ rendering' = TRUE /\ gx_pending' = FALSE /\ epoch' = epoch + 1
  /\ fifo' = IF tmem_cache THEN fifo ELSE Append(fifo, Invalidate)
  /\ writes' = 0 /\ wrapped' = FALSE /\ reshaped' = {} /\ torn' = NothingTorn
  /\ UNCHANGED <<vram, palette, stamp, coarse, missed, map, arena, bump, drained, crowded,
                 tluts, tmem, tlut0, done_irq, tmem_cache>>

\* tex_frame_reset
FrameReset == drained' = FALSE /\ UNCHANGED <<map, arena, bump, wrapped, crowded, reshaped>>

\* The model stops within the last render.
Ends == rendering /\ epoch < MaxRenders

\* (mutant of EndAsync) the last frame's signal is taken for this one's
MutEndKeepsSignal ==
  /\ Ends
  /\ FrameReset
  /\ fifo' = Append(fifo, SetDrawDone) /\ gx_pending' = TRUE
  /\ rendering' = FALSE
  /\ UNCHANGED <<memory, tluts, epoch, tmem, tlut0, done_irq, torn, tmem_cache>>

\* ASYNC_RENDER: the frame is left in the queue.
EndAsync ==
  /\ Ends
  /\ FrameReset
  /\ done_irq' = FALSE
  /\ fifo' = Append(fifo, SetDrawDone) /\ gx_pending' = TRUE
  /\ rendering' = FALSE
  /\ UNCHANGED <<memory, tluts, epoch, tmem, tlut0, torn, tmem_cache>>

EndSync ==
  /\ Ends /\ fifo = <<>>
  /\ FrameReset
  /\ done_irq' = TRUE /\ rendering' = FALSE
  /\ UNCHANGED <<memory, tluts, epoch, gx_pending, fifo, tmem, tlut0, torn, tmem_cache>>

\* (mutant of EndTexture) the copy leaves no stamp
MutCopyNoMark(pages, word) ==
  /\ Ends /\ fifo = <<>>
  /\ drained' \in {drained, FALSE} /\ UNCHANGED <<map, arena, bump, wrapped, crowded, reshaped>>
  /\ done_irq' = TRUE /\ rendering' = FALSE
  /\ Fill(pages, "other", word)
  /\ UNCHANGED <<stamp, coarse, missed, writes, palette, tluts, epoch, gx_pending,
                 fifo, tmem, tlut0, torn, tmem_cache>>

\* A render to a texture is copied to video memory; with RTT_KEEP_LIST the
\* frame goes on.
EndTexture(pages, word) ==
  /\ Ends /\ fifo = <<>>
  /\ drained' \in {drained, FALSE} /\ UNCHANGED <<map, arena, bump, wrapped, crowded, reshaped>>
  /\ done_irq' = TRUE /\ rendering' = FALSE
  /\ Fill(pages, "other", word) /\ Mark(pages)
  /\ UNCHANGED <<writes, palette, tluts, epoch, gx_pending, fifo, tmem, tlut0, torn, tmem_cache>>

\* A frame that is skipped
DropFrame ==
  /\ ~rendering /\ drained
  /\ FrameReset
  /\ UNCHANGED <<memory, tluts, frame, gp, tmem_cache>>

\* gx_present_if_done
VBlank ==
  /\ ~rendering /\ gx_pending /\ done_irq
  /\ gx_pending' = FALSE
  /\ UNCHANGED <<memory, cache, tluts, rendering, epoch, gp, tmem_cache>>

-----------------------------------------------------------------------------
(* The graphics processor                                                  *)

Next_command(op) == fifo # <<>> /\ Head(fifo).op = op /\ fifo' = Tail(fifo)

\* What is at a place: the pixels of the texture, or nothing that makes sense
Bytes(at) == IF at \in DOMAIN arena THEN arena[at].pixels ELSE [part \in Part |-> <<>>]
Sampled(at) == IF at \in DOMAIN tmem THEN tmem[at] ELSE Bytes(at)

GpDraw ==
  /\ Next_command("draw")
  /\ LET draw == Head(fifo)
     IN /\ tmem' = [o \in DOMAIN tmem \cup {draw.at} |-> IF o = draw.at THEN Sampled(o) ELSE tmem[o]]
        /\ torn' = [textures |-> IF Sampled(draw.at) = draw.pixels THEN torn.textures
                                 ELSE torn.textures \cup {draw.at},
                    palette |-> torn.palette \/ (draw.banks # {} /\ tlut0 # draw.colours)]
  /\ UNCHANGED <<memory, cache, tluts, frame, tlut0, done_irq, tmem_cache>>

GpTlut ==
  /\ Next_command("tlut")
  /\ tlut0' = [b \in Head(fifo).banks |-> mirror[b]]
  /\ UNCHANGED <<memory, cache, tluts, frame, tmem, done_irq, torn, tmem_cache>>

GpInvalidate ==
  /\ Next_command("invalidate")
  /\ tmem' = <<>>
  /\ UNCHANGED <<memory, cache, tluts, frame, tlut0, done_irq, torn, tmem_cache>>

\* gx_drawdone_cb
GpDone ==
  /\ Next_command("done")
  /\ done_irq' = TRUE
  /\ UNCHANGED <<memory, cache, tluts, frame, tmem, tlut0, torn, tmem_cache>>

-----------------------------------------------------------------------------

Init ==
  /\ \E word \in Word : vram = [p \in Page |-> [part \in Part |-> word]]
  /\ \E colour \in Colour : palette = [k \in Bank |-> colour] /\ mirror = palette
  /\ stamp = [p \in Page |-> 0] /\ coarse = [k \in Block |-> 0] /\ epoch = 1
  /\ map = <<>> /\ arena = <<>> /\ bump = 0 /\ drained = FALSE
  /\ mirror_epoch = [b \in Bank |-> 0]
  /\ tlut_last = [key |-> {}, epoch |-> 0]
  /\ rendering = FALSE /\ gx_pending = FALSE /\ done_irq = FALSE
  /\ fifo = <<>> /\ tmem = <<>> /\ tlut0 = <<>>
  /\ tmem_cache \in BOOLEAN
  /\ missed = {} /\ writes = 0 /\ wrapped = FALSE /\ crowded = FALSE
  /\ reshaped = {} /\ torn = NothingTorn

Step ==
  \/ \E pages \in SUBSET Page \ {{}}, word \in Word :
       \/ \E part \in Part : Write(pages, part, word)
       \/ EndTexture(pages, word)
  \/ \E page \in Page, part \in Part, word \in Word : Store(page, part, word)
  \/ \E bank \in Bank, colour \in Colour : WritePalette(bank, colour)
  \/ \E addr \in Address, shape \in Shape :
       \/ \E banks \in Palettes[shape] :
            \/ Hit(addr, shape, banks) \/ Redecode(addr, shape, banks)
            \/ Allocate(addr, shape, banks) \/ Wrap(addr, shape, banks)
       \/ Crowd(addr, shape)
  \/ StartRender \/ EndAsync \/ EndSync \/ DropFrame \/ VBlank
  \/ GpDraw \/ GpTlut \/ GpInvalidate \/ GpDone

Next == ~crowded /\ Step

Spec == Init /\ [][Next]_vars

-----------------------------------------------------------------------------
(* Properties                                                              *)

\* vram_track.h:9-16: a polygon is bound to its texture as it is in video memory
\* at the render, unless a store changed it where neither a stamp nor the
\* fingerprint could see it.
Current(draw) ==
  /\ draw.pixels["probed"] = Source(draw.addr, draw.shape, "probed")
  /\ \A p \in Span[draw.addr][draw.shape] \ missed : draw.pixels["other"][p] = vram[p]["other"]

NeverStale ==
  rendering => \A i \in DOMAIN fifo : (fifo[i].op = "draw") => Current(fifo[i])

\* gxRend.cpp:2203-2214, 4918-4925: what the graphics processor samples when
\* it comes to a polygon is what was bound for it: no byte of a texture or a
\* palette is rewritten, and no line of TMEM outlives its texture, while draws
\* wait.  There are two exceptions.  A texture that is asked for with a second
\* shape in the same render is decoded again in its place, under the draws that
\* wait (5192-5204).  And with TMEM_CACHE off the lines of TMEM go stale when the
\* arena starts over in a render.
SamplesWhatWasBound ==
  /\ ~torn.palette
  /\ tmem_cache \/ ~wrapped => torn.textures \subseteq reshaped

=============================================================================
