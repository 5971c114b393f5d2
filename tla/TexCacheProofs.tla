--------------------------- MODULE TexCacheProofs ---------------------------
(***************************************************************************)
(* NeverStale and SamplesWhatWasBound, for any textures, pages, spans,     *)
(* sizes and palettes, any size of the arena, any number of renders and    *)
(* any length of the queue.                                                *)
(***************************************************************************)
EXTENDS TexCache, SequenceTheorems, TLAPS

Pixels == [Part -> UNION {[pages -> Word] : pages \in SUBSET Page}]
Slot == [size : Nat \ {0}, addr : Address, shape : Shape, wepoch : Nat, wcheck : Nat,
         pixels : Pixels]
Command ==
  [op : {"draw"}, at : Nat, addr : Address, shape : Shape, banks : SUBSET Bank,
   pixels : Pixels, colours : UNION {[banks -> Colour] : banks \in SUBSET Bank}]
  \cup [op : {"tlut"}, banks : SUBSET Bank]
  \cup {Invalidate, SetDrawDone}

\* What the actions of this module keep in shape: memory, the stamps, the arena
\* and its map, and the queue.
TypeOK ==
  /\ vram \in [Page -> [Part -> Word]] /\ palette \in [Bank -> Colour]
  /\ epoch \in Nat /\ stamp \in [Page -> 0 .. epoch] /\ coarse \in [Block -> 0 .. epoch]
  /\ bump \in Nat /\ DOMAIN map \subseteq Address
  /\ DOMAIN arena \subseteq Nat /\ \A o \in DOMAIN arena : arena[o] \in Slot
  /\ rendering \in BOOLEAN /\ gx_pending \in BOOLEAN /\ done_irq \in BOOLEAN
  /\ fifo \in Seq(Command)

\* A block's stamp is at least as new as those of its pages.
CoarseCovers == \A p \in Page : stamp[p] <= coarse[BlockOf[p]]

Apart(o, size, o2, size2) == o + size <= o2 \/ o2 + size2 <= o

\* Textures do not overlap, and those that the map knows lie below the bump.
Layout ==
  /\ \A o, o2 \in DOMAIN arena : o # o2 => Apart(o, arena[o].size, o2, arena[o2].size)
  /\ ~crowded => \A addr \in DOMAIN map :
       map[addr] \in DOMAIN arena /\ map[addr] + arena[map[addr]].size <= bump

\* What was decoded is what is in memory, but where a stamp or the history
\* tells; what was checked in this render is current.
Traced(slot) ==
  \A p \in Span[slot.addr][slot.shape] :
    \/ slot.wepoch <= stamp[p]
    \/ p \in missed
    \/ slot.pixels["other"][p] = vram[p]["other"]
Checked(slot) == (rendering /\ slot.wcheck = epoch) => Current(slot)
Slots ==
  \A o \in DOMAIN arena :
    /\ arena[o].wepoch <= epoch /\ arena[o].wcheck <= epoch
    /\ Traced(arena[o]) /\ Checked(arena[o])

\* The signal of the last frame comes last, and nothing of the queue is left
\* when it is taken.
Queue ==
  /\ \A i \in DOMAIN fifo : (fifo[i].op = "done") => (i = Len(fifo) /\ ~rendering)
  /\ rendering => ~gx_pending
  /\ (~rendering /\ (gx_pending => done_irq)) => fifo = <<>>

IInv == TypeOK /\ CoarseCovers /\ Layout /\ Slots /\ Queue /\ NeverStale

-----------------------------------------------------------------------------
(* The queue                                                               *)

LEMMA Popped ==
  ASSUME fifo \in Seq(Command), NEW op, Next_command(op)
  PROVE  /\ fifo' \in Seq(Command)
         /\ Len(fifo) \in Nat \ {0} /\ Len(fifo') = Len(fifo) - 1
         /\ \A i \in DOMAIN fifo' : i + 1 \in DOMAIN fifo /\ fifo'[i] = fifo[i + 1]
         /\ fifo[1].op = op
<1>1. fifo # <<>> /\ fifo' = Tail(fifo) /\ Head(fifo).op = op
  BY DEF Next_command
<1>2. /\ Tail(fifo) \in Seq(Command) /\ Len(Tail(fifo)) = Len(fifo) - 1
      /\ \A i \in 1 .. Len(Tail(fifo)) : Tail(fifo)[i] = fifo[i + 1]
  BY <1>1, HeadTailProperties
<1>3. Len(fifo) \in Nat \ {0} /\ DOMAIN fifo = 1 .. Len(fifo)
  BY <1>1
<1> QED
  BY <1>1, <1>2, <1>3

LEMMA Pushed ==
  ASSUME fifo \in Seq(Command), NEW command \in Command, fifo' = Append(fifo, command)
  PROVE  /\ fifo' \in Seq(Command) /\ Len(fifo') = Len(fifo) + 1
         /\ DOMAIN fifo' = 1 .. Len(fifo) + 1 /\ DOMAIN fifo = 1 .. Len(fifo)
         /\ \A i \in DOMAIN fifo : fifo'[i] = fifo[i]
         /\ fifo'[Len(fifo) + 1] = command
BY AppendProperties

LEMMA Joined ==
  ASSUME NEW S, NEW s \in Seq(S), NEW t \in Seq(S)
  PROVE  /\ s \o t \in Seq(S)
         /\ \A i \in DOMAIN (s \o t) : \/ i \in DOMAIN s /\ (s \o t)[i] = s[i]
                                     \/ \E j \in DOMAIN t : (s \o t)[i] = t[j]
<1>1. /\ s \o t \in Seq(S) /\ Len(s \o t) = Len(s) + Len(t)
      /\ \A i \in 1 .. Len(s) + Len(t) : (s \o t)[i] = IF i <= Len(s) THEN s[i] ELSE t[i - Len(s)]
  BY ConcatProperties
<1>2. /\ Len(s) \in Nat /\ Len(t) \in Nat /\ DOMAIN s = 1 .. Len(s) /\ DOMAIN t = 1 .. Len(t)
      /\ DOMAIN (s \o t) = 1 .. Len(s \o t)
  BY <1>1
<1> SUFFICES ASSUME NEW i \in DOMAIN (s \o t)
             PROVE  \/ i \in DOMAIN s /\ (s \o t)[i] = s[i]
                    \/ \E j \in DOMAIN t : (s \o t)[i] = t[j]
  BY <1>1
<1>3. CASE i <= Len(s)
  BY <1>1, <1>2, <1>3
<1>4. CASE ~(i <= Len(s))
  <2>1. i - Len(s) \in DOMAIN t /\ (s \o t)[i] = t[i - Len(s)]
    BY <1>1, <1>2, <1>4
  <2> QED
    BY <2>1
<1> QED
  BY <1>3, <1>4

LEMMA Types ==
  ASSUME TypeOK, NEW at \in Nat, NEW addr \in Address, NEW shape \in Shape,
         NEW banks \in SUBSET Bank, NEW slot \in Slot
  PROVE  /\ Draw(at, addr, shape, banks, slot) \in Command
         /\ LoadTlut(banks) \in Command /\ Invalidate \in Command /\ SetDrawDone \in Command
<1>1. [b \in banks |-> palette[b]] \in UNION {[some -> Colour] : some \in SUBSET Bank}
  <2>1. [b \in banks |-> palette[b]] \in [banks -> Colour]
    BY DEF TypeOK
  <2> QED
    BY <2>1
<1>2. slot.pixels \in Pixels
  BY DEF Slot
<1> QED
  BY <1>1, <1>2 DEF Command, Draw, LoadTlut, Invalidate, SetDrawDone

\* The commands of a bind end with its polygon, and no other is one or a signal.
LEMMA CommandsOfABind ==
  ASSUME TypeOK, NEW at \in Nat, NEW addr \in Address, NEW shape \in Shape,
         NEW banks \in SUBSET Bank, NEW decoded \in BOOLEAN, NEW slot \in Slot,
         NEW new, new = Commands(at, addr, shape, banks, decoded, slot)
  PROVE  /\ new \in Seq(Command)
         /\ \A i \in DOMAIN new :
              \/ new[i] = Draw(at, addr, shape, banks, slot)
              \/ new[i].op \in {"tlut", "invalidate"}
<1> DEFINE load == IF NeedReupload(banks) THEN <<LoadTlut(banks)>> ELSE <<>>
           flush == IF decoded /\ tmem_cache THEN <<Invalidate>> ELSE <<>>
           draw == <<Draw(at, addr, shape, banks, slot)>>
           all == (load \o flush) \o draw
<1>1. /\ Draw(at, addr, shape, banks, slot) \in Command
      /\ LoadTlut(banks) \in Command /\ Invalidate \in Command
  BY Types
<1>2. load \in Seq(Command) /\ \A i \in DOMAIN load : load[i].op \in {"tlut", "invalidate"}
  BY <1>1 DEF LoadTlut
<1>3. flush \in Seq(Command) /\ \A i \in DOMAIN flush : flush[i].op \in {"tlut", "invalidate"}
  BY <1>1 DEF Invalidate
<1>4. draw \in Seq(Command) /\ \A i \in DOMAIN draw : draw[i] = Draw(at, addr, shape, banks, slot)
  BY <1>1
<1> HIDE DEF load, flush, draw
<1>5. /\ load \o flush \in Seq(Command)
      /\ \A i \in DOMAIN (load \o flush) : (load \o flush)[i].op \in {"tlut", "invalidate"}
  BY <1>2, <1>3, Joined
<1>6. /\ all \in Seq(Command)
      /\ \A i \in DOMAIN all : \/ all[i] = Draw(at, addr, shape, banks, slot)
                               \/ all[i].op \in {"tlut", "invalidate"}
  BY <1>4, <1>5, Joined
<1>7. new = all
  BY DEF Commands, all, load, flush, draw
<1> QED
  BY <1>6, <1>7

-----------------------------------------------------------------------------
(* The arena                                                               *)

LEMMA PutKeeps ==
  ASSUME TypeOK, \A o, o2 \in DOMAIN arena : o # o2 => Apart(o, arena[o].size, o2, arena[o2].size),
         NEW at \in Nat, NEW slot \in Slot, arena' = Put(at, slot)
  PROVE  /\ DOMAIN arena' \subseteq Nat /\ \A o \in DOMAIN arena' : arena'[o] \in Slot
         /\ at \in DOMAIN arena' /\ arena'[at] = slot
         /\ \A o \in DOMAIN arena' : o # at => o \in DOMAIN arena /\ arena'[o] = arena[o]
         /\ \A o \in DOMAIN arena : Apart(o, arena[o].size, at, slot.size) =>
              o \in DOMAIN arena' /\ o # at /\ arena'[o] = arena[o]
         /\ \A o, o2 \in DOMAIN arena' : o # o2 => Apart(o, arena'[o].size, o2, arena'[o2].size)
<1>1. /\ DOMAIN arena \subseteq Nat /\ \A o \in DOMAIN arena : arena[o] \in Slot
      /\ \A s \in Slot : s.size \in Nat \ {0}
  BY DEF TypeOK, Slot
<1>2. /\ DOMAIN arena' = Clear(at, slot.size) \cup {at}
      /\ arena'[at] = slot
      /\ \A o \in DOMAIN arena' : o # at => o \in Clear(at, slot.size) /\ arena'[o] = arena[o]
  BY DEF Put
<1>3. \A o \in Clear(at, slot.size) :
        o \in DOMAIN arena /\ o # at /\ Apart(o, arena[o].size, at, slot.size)
  BY <1>1 DEF Clear, Apart
<1>4. \A o \in DOMAIN arena :
        Apart(o, arena[o].size, at, slot.size) => o \in Clear(at, slot.size)
  BY DEF Clear, Apart
<1>5. ASSUME NEW o \in DOMAIN arena', NEW o2 \in DOMAIN arena', o # o2
      PROVE  Apart(o, arena'[o].size, o2, arena'[o2].size)
  <2>1. CASE o = at
    BY <1>2, <1>3, <1>5, <2>1 DEF Apart
  <2>2. CASE o2 = at
    BY <1>2, <1>3, <1>5, <2>2
  <2>3. CASE o # at /\ o2 # at
    BY <1>2, <1>3, <1>5, <2>3
  <2> QED
    BY <2>1, <2>2, <2>3
<1> QED
  BY <1>1, <1>2, <1>3, <1>4, <1>5

\* What every bind does: it puts a current texture in the arena and appends
\* its commands.
LEMMA BoundKeeps ==
  ASSUME IInv, rendering, NEW at \in Nat, NEW addr \in Address, NEW shape \in Shape,
         NEW banks \in SUBSET Bank, NEW decoded \in BOOLEAN, NEW slot \in Slot,
         slot.addr = addr, slot.shape = shape, slot.wepoch <= epoch, slot.wcheck <= epoch,
         Traced(slot), Current(slot), Bound(at, addr, shape, banks, decoded, slot),
         bump' \in Nat, DOMAIN map' \subseteq Address, done_irq' \in BOOLEAN,
         \A a \in DOMAIN map' : map'[a] \in DOMAIN arena' /\ map'[a] + arena'[map'[a]].size <= bump'
  PROVE  IInv'
<1>1. arena' = Put(at, slot) /\ fifo' = fifo \o Commands(at, addr, shape, banks, decoded, slot)
  BY DEF Bound
<1>2. /\ UNCHANGED <<vram, palette, stamp, coarse, missed, rendering, epoch, gx_pending>>
  BY DEF Bound, memory, frame
<1>3. /\ DOMAIN arena' \subseteq Nat /\ \A o \in DOMAIN arena' : arena'[o] \in Slot
      /\ at \in DOMAIN arena' /\ arena'[at] = slot
      /\ \A o \in DOMAIN arena' : o # at => o \in DOMAIN arena /\ arena'[o] = arena[o]
      /\ \A o, o2 \in DOMAIN arena' : o # o2 => Apart(o, arena'[o].size, o2, arena'[o2].size)
  BY <1>1, PutKeeps DEF IInv, Layout
<1>4. /\ fifo' \in Seq(Command)
      /\ \A i \in DOMAIN fifo' :
           \/ i \in DOMAIN fifo /\ fifo'[i] = fifo[i]
           \/ fifo'[i] = Draw(at, addr, shape, banks, slot)
           \/ fifo'[i].op \in {"tlut", "invalidate"}
  <2>1. TypeOK /\ fifo \in Seq(Command)
    BY DEF IInv, TypeOK
  <2>2. PICK new : new = Commands(at, addr, shape, banks, decoded, slot)
    OBVIOUS
  <2>3. /\ new \in Seq(Command)
        /\ \A i \in DOMAIN new :
             \/ new[i] = Draw(at, addr, shape, banks, slot)
             \/ new[i].op \in {"tlut", "invalidate"}
    BY <2>1, <2>2, CommandsOfABind
  <2>4. fifo' = fifo \o new
    BY <1>1, <2>2
  <2> QED
    BY <2>1, <2>3, <2>4, Joined
<1>5. TypeOK'
  BY <1>2, <1>3, <1>4 DEF IInv, TypeOK
<1>6. CoarseCovers'
  BY <1>2 DEF IInv, CoarseCovers
<1>7. Layout'
  BY <1>3 DEF Layout
<1>8. \A s : (Traced(s) => Traced(s)') /\ (Checked(s) => Checked(s)') /\ (Current(s) <=> Current(s)')
  BY <1>2 DEF Traced, Checked, Current, Source
<1>9. Slots'
  <2> SUFFICES ASSUME NEW o \in DOMAIN arena'
               PROVE  /\ arena'[o].wepoch <= epoch' /\ arena'[o].wcheck <= epoch'
                      /\ Traced(arena[o])' /\ Checked(arena[o])'
    BY DEF Slots
  <2>1. CASE o = at
    <3>1. Checked(slot)
      BY DEF Checked
    <3>2. Traced(slot)' /\ Checked(slot)' /\ arena'[o] = slot
      BY <1>3, <1>8, <2>1, <3>1
    <3> QED
      BY <1>2, <3>2 DEF Traced, Checked, Current, Source
  <2>2. CASE o # at
    <3>1. o \in DOMAIN arena /\ arena'[o] = arena[o]
      BY <1>3, <2>2
    <3>2. /\ arena[o].wepoch <= epoch /\ arena[o].wcheck <= epoch
          /\ Traced(arena[o]) /\ Checked(arena[o])
      BY <3>1 DEF IInv, Slots
    <3>3. \A s : s = arena[o] => Traced(s)' /\ Checked(s)'
      BY <1>8, <3>2
    <3> QED
      BY <1>2, <3>1, <3>2, <3>3 DEF Traced, Checked, Current, Source
  <2> QED
    BY <2>1, <2>2
<1>10. Queue'
  <2>1. \A i \in DOMAIN fifo' : fifo'[i].op # "done"
    BY <1>4 DEF IInv, Queue, Draw
  <2> QED
    BY <1>2, <2>1 DEF IInv, Queue
<1>11. NeverStale'
  <2> SUFFICES ASSUME NEW i \in DOMAIN fifo', fifo'[i].op = "draw"
               PROVE  Current(fifo[i])'
    BY DEF NeverStale
  <2>1. CASE i \in DOMAIN fifo /\ fifo'[i] = fifo[i]
    <3>1. Current(fifo[i])
      BY <2>1 DEF IInv, NeverStale
    <3> QED
      BY <1>2, <2>1, <3>1 DEF Current, Source
  <2>2. CASE fifo'[i] = Draw(at, addr, shape, banks, slot)
    <3>1. Current(Draw(at, addr, shape, banks, slot))
      BY DEF Draw, Current
    <3> QED
      BY <1>2, <2>2, <3>1 DEF Current, Source
  <2> QED
    BY <1>4, <2>1, <2>2
<1> QED
  BY <1>5, <1>6, <1>7, <1>9, <1>10, <1>11 DEF IInv

-----------------------------------------------------------------------------
(* The binds                                                               *)

LEMMA DecodedIsCurrent ==
  ASSUME TypeOK, NEW size \in Nat \ {0}, NEW addr \in Address, NEW shape \in Shape,
         NEW slot, slot = Decoded(size, addr, shape)
  PROVE  /\ slot \in Slot /\ slot.size = size /\ slot.addr = addr /\ slot.shape = shape
         /\ slot.wepoch = epoch /\ slot.wcheck = epoch
         /\ Traced(slot) /\ Current(slot)
<1>1. Span[addr][shape] \in SUBSET Page
  BY VramAssumption
<1>2. \A part \in Part : Source(addr, shape, part) \in [Span[addr][shape] -> Word]
  BY <1>1 DEF Source, TypeOK
<1>3. [part \in Part |-> Source(addr, shape, part)] \in Pixels
  BY <1>1, <1>2 DEF Pixels
<1>4. slot = [size |-> size, addr |-> addr, shape |-> shape, wepoch |-> epoch,
              wcheck |-> epoch, pixels |-> [part \in Part |-> Source(addr, shape, part)]]
  BY DEF Decoded
<1>5. slot \in Slot
  BY <1>3, <1>4 DEF Slot, TypeOK
<1>6. /\ slot.pixels["probed"] = Source(addr, shape, "probed")
      /\ slot.pixels["other"] = Source(addr, shape, "other")
  BY <1>4 DEF Part
<1>7. \A p \in Span[addr][shape] : slot.pixels["other"][p] = vram[p]["other"]
  BY <1>6 DEF Source
<1>8. /\ slot.size = size /\ slot.addr = addr /\ slot.shape = shape
      /\ slot.wepoch = epoch /\ slot.wcheck = epoch
  BY <1>4
<1>9. Traced(slot)
  BY <1>7, <1>8 DEF Traced
<1>10. Current(slot)
  BY <1>6, <1>7, <1>8 DEF Current
<1> QED
  BY <1>5, <1>8, <1>9, <1>10

\* A page that the check finds clean was not written since.
LEMMA CleanPage ==
  ASSUME TypeOK, CoarseCovers, NEW addr \in Address, NEW shape \in Shape, NEW since \in Nat,
         ~tex_vram_dirty(addr, shape, since), NEW p \in Span[addr][shape]
  PROVE  ~(since <= stamp[p])
<1>1. p \in Page /\ BlockOf[p] \in Block
  BY VramAssumption
<1>2. stamp[p] \in Nat /\ coarse[BlockOf[p]] \in Nat /\ stamp[p] <= coarse[BlockOf[p]]
  BY <1>1 DEF TypeOK, CoarseCovers
<1>3. ~(coarse[BlockOf[p]] >= since /\ stamp[p] >= since)
  BY DEF tex_vram_dirty
<1> QED
  BY <1>2, <1>3

\* A texture that is found valid is current.
LEMMA ValidIsCurrent ==
  ASSUME IInv, rendering, NEW addr \in Address, NEW shape \in Shape, NEW o \in DOMAIN arena,
         map[addr] = o, Valid(addr, shape)
  PROVE  /\ arena[o].addr = addr /\ arena[o].shape = shape /\ arena[o].wepoch <= epoch
         /\ Traced(arena[o]) /\ Current(arena[o])
<1>1. /\ arena[o] \in Slot /\ epoch \in Nat
      /\ arena[o].wepoch <= epoch /\ Traced(arena[o]) /\ Checked(arena[o])
  BY DEF IInv, TypeOK, Slots
<1>2. /\ arena[o].addr = addr /\ arena[o].shape = shape
      /\ \/ arena[o].wcheck = epoch
         \/ /\ ~tex_vram_dirty(addr, shape, arena[o].wepoch)
            /\ arena[o].pixels["probed"] = Source(addr, shape, "probed")
  BY DEF Valid
<1>3. CASE arena[o].wcheck = epoch
  BY <1>1, <1>2, <1>3 DEF Checked
<1>4. CASE /\ ~tex_vram_dirty(addr, shape, arena[o].wepoch)
           /\ arena[o].pixels["probed"] = Source(addr, shape, "probed")
  <2>1. ASSUME NEW p \in Span[addr][shape] \ missed
        PROVE  arena[o].pixels["other"][p] = vram[p]["other"]
    <3>1. arena[o].wepoch \in Nat
      BY <1>1 DEF Slot
    <3>2. ~(arena[o].wepoch <= stamp[p])
      BY <1>4, <3>1, CleanPage DEF IInv
    <3> QED
      BY <1>1, <1>2, <3>2 DEF Traced
  <2> QED
    BY <1>1, <1>2, <1>4, <2>1 DEF Current
<1> QED
  BY <1>1, <1>2, <1>3, <1>4

\* Where a place is kept, so are the places of the map.
LEMMA PlaceKept ==
  ASSUME IInv, ~crowded, NEW addr \in DOMAIN map, NEW slot \in Slot,
         slot.size = arena[map[addr]].size, arena' = Put(map[addr], slot), UNCHANGED <<map, bump>>
  PROVE  \A a \in DOMAIN map' : map'[a] \in DOMAIN arena' /\ map'[a] + arena'[map'[a]].size <= bump'
<1> DEFINE at == map[addr]
<1>1. at \in DOMAIN arena /\ at \in Nat /\ at + arena[at].size <= bump
  BY DEF IInv, Layout, TypeOK
<1>2. /\ at \in DOMAIN arena' /\ arena'[at] = slot
      /\ \A o \in DOMAIN arena : Apart(o, arena[o].size, at, slot.size) =>
           o \in DOMAIN arena' /\ o # at /\ arena'[o] = arena[o]
  BY <1>1, PutKeeps DEF IInv, Layout
<1> SUFFICES ASSUME NEW a \in DOMAIN map
             PROVE  map[a] \in DOMAIN arena' /\ map[a] + arena'[map[a]].size <= bump
  OBVIOUS
<1>3. map[a] \in DOMAIN arena /\ map[a] + arena[map[a]].size <= bump
  BY DEF IInv, Layout
<1>4. CASE map[a] = at
  BY <1>1, <1>2, <1>4
<1>5. CASE map[a] # at
  <2>1. Apart(map[a], arena[map[a]].size, at, slot.size)
    BY <1>1, <1>3, <1>5 DEF IInv, Layout
  <2> QED
    BY <1>2, <1>3, <2>1
<1> QED
  BY <1>4, <1>5

LEMMA AskedFor ==
  ASSUME IInv, ~crowded, NEW addr \in Address, NEW shape \in Shape, Asked(addr, shape)
  PROVE  /\ rendering /\ TypeOK
         /\ addr \in DOMAIN map => /\ map[addr] \in DOMAIN arena /\ map[addr] \in Nat
                                   /\ arena[map[addr]] \in Slot
                                   /\ arena[map[addr]].size \in Nat \ {0}
BY DEF Asked, IInv, Layout, TypeOK, Slot

LEMMA HitKeeps ==
  ASSUME IInv, ~crowded, NEW addr \in Address, NEW shape \in Shape, NEW banks \in SUBSET Bank,
         Hit(addr, shape, banks)
  PROVE  IInv'
<1>1. /\ Asked(addr, shape) /\ addr \in DOMAIN map /\ Valid(addr, shape)
      /\ UNCHANGED <<map, bump, done_irq>>
  BY DEF Hit, Placed
<1>2. /\ rendering /\ TypeOK /\ map[addr] \in DOMAIN arena /\ map[addr] \in Nat
  BY <1>1, AskedFor
<1>3. /\ arena[map[addr]] \in Slot /\ arena[map[addr]].addr = addr /\ arena[map[addr]].shape = shape
      /\ arena[map[addr]].wepoch <= epoch
      /\ Traced(arena[map[addr]]) /\ Current(arena[map[addr]])
  BY <1>1, <1>2, ValidIsCurrent DEF TypeOK
<1> DEFINE slot == [arena[map[addr]] EXCEPT !.wcheck = epoch]
<1>4. /\ slot \in Slot /\ slot.size = arena[map[addr]].size /\ slot.addr = addr /\ slot.shape = shape
      /\ slot.wepoch <= epoch /\ slot.wcheck = epoch /\ Traced(slot) /\ Current(slot)
  <2>1. /\ slot \in Slot /\ slot.size = arena[map[addr]].size /\ slot.addr = addr /\ slot.shape = shape
        /\ slot.wepoch = arena[map[addr]].wepoch /\ slot.wcheck = epoch
        /\ slot.pixels = arena[map[addr]].pixels
    BY <1>2, <1>3 DEF Slot, TypeOK
  <2> HIDE DEF slot
  <2> QED
    BY <1>3, <2>1 DEF Traced, Current
<1>5. Bound(map[addr], addr, shape, banks, FALSE, slot)
  BY DEF Hit
<1> HIDE DEF slot
<1>6. \A a \in DOMAIN map' : map'[a] \in DOMAIN arena' /\ map'[a] + arena'[map'[a]].size <= bump'
  BY <1>1, <1>4, <1>5, PlaceKept DEF Bound
<1>7. bump' \in Nat /\ DOMAIN map' \subseteq Address /\ done_irq' \in BOOLEAN /\ slot.wcheck <= epoch
  BY <1>1, <1>2, <1>4 DEF TypeOK
<1> QED
  BY <1>2, <1>4, <1>5, <1>6, <1>7, BoundKeeps

LEMMA RedecodeKeeps ==
  ASSUME IInv, ~crowded, NEW addr \in Address, NEW shape \in Shape, NEW banks \in SUBSET Bank,
         Redecode(addr, shape, banks)
  PROVE  IInv'
<1>1. /\ Asked(addr, shape) /\ addr \in DOMAIN map /\ UNCHANGED <<map, bump, done_irq>>
  BY DEF Redecode, Placed
<1>2. /\ rendering /\ TypeOK /\ map[addr] \in DOMAIN arena /\ map[addr] \in Nat
      /\ arena[map[addr]].size \in Nat \ {0}
  BY <1>1, AskedFor
<1>3. PICK slot : slot = Decoded(arena[map[addr]].size, addr, shape)
  OBVIOUS
<1>4. /\ slot \in Slot /\ slot.size = arena[map[addr]].size /\ slot.addr = addr /\ slot.shape = shape
      /\ slot.wepoch = epoch /\ slot.wcheck = epoch /\ Traced(slot) /\ Current(slot)
  BY <1>2, <1>3, DecodedIsCurrent
<1>5. Bound(map[addr], addr, shape, banks, TRUE, slot)
  BY <1>3 DEF Redecode
<1>6. \A a \in DOMAIN map' : map'[a] \in DOMAIN arena' /\ map'[a] + arena'[map'[a]].size <= bump'
  BY <1>1, <1>4, <1>5, PlaceKept DEF Bound
<1>7. /\ bump' \in Nat /\ DOMAIN map' \subseteq Address /\ done_irq' \in BOOLEAN
      /\ slot.wepoch <= epoch /\ slot.wcheck <= epoch
  BY <1>1, <1>2, <1>4 DEF TypeOK
<1> QED
  BY <1>2, <1>4, <1>5, <1>6, <1>7, BoundKeeps

LEMMA AllocateKeeps ==
  ASSUME IInv, ~crowded, NEW addr \in Address, NEW shape \in Shape, NEW banks \in SUBSET Bank,
         Allocate(addr, shape, banks)
  PROVE  IInv'
<1>1. /\ Asked(addr, shape) /\ UNCHANGED done_irq /\ bump' = bump + Size[shape]
      /\ map' = [a \in DOMAIN map \cup {addr} |-> IF a = addr THEN bump ELSE map[a]]
  BY DEF Allocate
<1>2. rendering /\ TypeOK /\ bump \in Nat /\ Size[shape] \in Nat \ {0}
  BY <1>1, AskedFor, ArenaAssumption DEF TypeOK
<1>3. PICK slot : slot = Decoded(Size[shape], addr, shape)
  OBVIOUS
<1>4. /\ slot \in Slot /\ slot.size = Size[shape] /\ slot.addr = addr /\ slot.shape = shape
      /\ slot.wepoch = epoch /\ slot.wcheck = epoch /\ Traced(slot) /\ Current(slot)
  BY <1>2, <1>3, DecodedIsCurrent
<1>5. Bound(bump, addr, shape, banks, TRUE, slot)
  BY <1>3 DEF Allocate
<1>6. /\ bump \in DOMAIN arena' /\ arena'[bump] = slot
      /\ \A o \in DOMAIN arena : Apart(o, arena[o].size, bump, slot.size) =>
           o \in DOMAIN arena' /\ o # bump /\ arena'[o] = arena[o]
  BY <1>2, <1>4, <1>5, PutKeeps DEF Bound, IInv, Layout
<1>7. ASSUME NEW a \in DOMAIN map'
      PROVE  map'[a] \in DOMAIN arena' /\ map'[a] + arena'[map'[a]].size <= bump'
  <2>1. CASE a = addr
    BY <1>1, <1>2, <1>4, <1>6, <2>1
  <2>2. CASE a # addr
    <3>1. a \in DOMAIN map /\ map'[a] = map[a]
      BY <1>1, <2>2
    <3>2. /\ map[a] \in DOMAIN arena /\ map[a] \in Nat /\ arena[map[a]].size \in Nat
          /\ map[a] + arena[map[a]].size <= bump
      BY <3>1 DEF IInv, Layout, TypeOK, Slot
    <3>3. map[a] \in DOMAIN arena' /\ arena'[map[a]] = arena[map[a]]
      BY <1>6, <3>2 DEF Apart
    <3> QED
      BY <1>1, <1>2, <3>1, <3>2, <3>3
  <2> QED
    BY <2>1, <2>2
<1>8. /\ bump' \in Nat /\ DOMAIN map' \subseteq Address /\ done_irq' \in BOOLEAN
      /\ slot.wepoch <= epoch /\ slot.wcheck <= epoch
  BY <1>1, <1>2, <1>4 DEF TypeOK
<1> QED
  BY <1>2, <1>4, <1>5, <1>7, <1>8, BoundKeeps

LEMMA WrapKeeps ==
  ASSUME IInv, ~crowded, NEW addr \in Address, NEW shape \in Shape, NEW banks \in SUBSET Bank,
         Wrap(addr, shape, banks)
  PROVE  IInv'
<1>1. /\ Asked(addr, shape) /\ done_irq' = TRUE /\ bump' = Size[shape]
      /\ map' = [a \in {addr} |-> 0]
  BY DEF Wrap
<1>2. rendering /\ TypeOK /\ Size[shape] \in Nat \ {0}
  BY <1>1, AskedFor, ArenaAssumption
<1>3. PICK slot : slot = Decoded(Size[shape], addr, shape)
  OBVIOUS
<1>4. /\ slot \in Slot /\ slot.size = Size[shape] /\ slot.addr = addr /\ slot.shape = shape
      /\ slot.wepoch = epoch /\ slot.wcheck = epoch /\ Traced(slot) /\ Current(slot)
  BY <1>2, <1>3, DecodedIsCurrent
<1>5. Bound(0, addr, shape, banks, TRUE, slot)
  BY <1>3 DEF Wrap
<1>6. 0 \in DOMAIN arena' /\ arena'[0] = slot
  BY <1>2, <1>4, <1>5, PutKeeps DEF Bound, IInv, Layout
<1>7. \A a \in DOMAIN map' : map'[a] \in DOMAIN arena' /\ map'[a] + arena'[map'[a]].size <= bump'
  BY <1>1, <1>2, <1>4, <1>6
<1>8. /\ bump' \in Nat /\ DOMAIN map' \subseteq Address /\ done_irq' \in BOOLEAN
      /\ slot.wepoch <= epoch /\ slot.wcheck <= epoch
  BY <1>1, <1>2, <1>4 DEF TypeOK
<1> QED
  BY <1>2, <1>4, <1>5, <1>7, <1>8, BoundKeeps

LEMMA CrowdKeeps ==
  ASSUME IInv, NEW addr \in Address, NEW shape \in Shape, Crowd(addr, shape)
  PROVE  IInv'
<1>1. /\ arena' = [o \in Clear(SkimpSlot[addr], Size[shape]) |-> arena[o]]
      /\ crowded' = TRUE
      /\ UNCHANGED <<vram, palette, stamp, coarse, missed, map, bump, rendering, epoch,
                     gx_pending, done_irq, fifo>>
  BY DEF Crowd, memory, frame, gp
<1>2. /\ DOMAIN arena' \subseteq DOMAIN arena
      /\ \A o \in DOMAIN arena' : arena'[o] = arena[o]
  BY <1>1 DEF Clear
<1>3. TypeOK'
  BY <1>1, <1>2 DEF IInv, TypeOK
<1>4. CoarseCovers' /\ Queue' /\ NeverStale'
  BY <1>1 DEF IInv, CoarseCovers, Queue, NeverStale, Current, Source
<1>5. Layout'
  BY <1>1, <1>2 DEF IInv, Layout
<1>6. Slots'
  <2> SUFFICES ASSUME NEW o \in DOMAIN arena'
               PROVE  /\ arena'[o].wepoch <= epoch' /\ arena'[o].wcheck <= epoch'
                      /\ Traced(arena[o])' /\ Checked(arena[o])'
    BY DEF Slots
  <2>1. /\ arena'[o] = arena[o] /\ arena[o].wepoch <= epoch /\ arena[o].wcheck <= epoch
        /\ Traced(arena[o]) /\ Checked(arena[o])
    BY <1>2 DEF IInv, Slots
  <2> QED
    BY <1>1, <2>1 DEF Traced, Checked, Current, Source
<1> QED
  BY <1>3, <1>4, <1>5, <1>6 DEF IInv

-----------------------------------------------------------------------------
(* The guest's writes, and the copy of a rendered texture                  *)

\* A change of memory is seen by a stamp, by the fingerprint or by nothing at
\* all.
Seen ==
  /\ UNCHANGED <<arena, epoch>> /\ rendering' = FALSE
  /\ vram' \in [Page -> [Part -> Word]]
  /\ stamp' \in [Page -> 0 .. epoch] /\ coarse' \in [Block -> 0 .. epoch]
  /\ \A p \in Page : stamp'[p] <= coarse'[BlockOf[p]]
  /\ \A p \in Page : \/ stamp'[p] = epoch
                     \/ p \in missed'
                     \/ /\ stamp'[p] = stamp[p] /\ vram'[p]["other"] = vram[p]["other"]
                        /\ p \notin missed

LEMMA SeenKeeps ==
  ASSUME IInv, Seen
  PROVE  CoarseCovers' /\ Slots'
<1>1. CoarseCovers'
  BY DEF Seen, CoarseCovers
<1>2. ASSUME NEW o \in DOMAIN arena
      PROVE  Traced(arena[o])'
  <2>1. /\ arena[o] \in Slot /\ arena[o].wepoch <= epoch /\ Traced(arena[o])
        /\ epoch \in Nat /\ arena' = arena
    BY DEF IInv, TypeOK, Slots, Seen
  <2>2. arena[o].wepoch \in Nat /\ Span[arena[o].addr][arena[o].shape] \subseteq Page
    BY <2>1, VramAssumption DEF Slot
  <2> SUFFICES ASSUME NEW p \in Span[arena[o].addr][arena[o].shape]
               PROVE  \/ arena[o].wepoch <= stamp'[p]
                      \/ p \in missed'
                      \/ arena[o].pixels["other"][p] = vram'[p]["other"]
    BY <2>1 DEF Traced
  <2>3. \/ arena[o].wepoch <= stamp[p]
        \/ p \in missed
        \/ arena[o].pixels["other"][p] = vram[p]["other"]
    BY <2>1 DEF Traced
  <2> QED
    BY <2>1, <2>2, <2>3 DEF Seen
<1>3. Slots'
  BY <1>2 DEF Slots, Checked, Seen, IInv
<1> QED
  BY <1>1, <1>3

LEMMA MarkedIsSeen ==
  ASSUME IInv, NEW pages \in SUBSET Page, NEW part \in Part, NEW word \in Word,
         Fill(pages, part, word), Mark(pages), UNCHANGED <<arena, epoch>>, rendering' = FALSE
  PROVE  Seen
<1>1. /\ vram \in [Page -> [Part -> Word]] /\ epoch \in Nat
      /\ stamp \in [Page -> 0 .. epoch] /\ coarse \in [Block -> 0 .. epoch]
      /\ \A p \in Page : stamp[p] <= coarse[BlockOf[p]]
  BY DEF IInv, TypeOK, CoarseCovers
<1>2. /\ vram' \in [Page -> [Part -> Word]]
      /\ \A p \in Page \ pages : vram'[p] = vram[p]
  BY <1>1 DEF Fill
<1>3. /\ stamp' \in [Page -> 0 .. epoch]
      /\ \A p \in Page : stamp'[p] = IF p \in pages THEN epoch ELSE stamp[p]
  BY <1>1 DEF Mark
<1>4. /\ coarse' \in [Block -> 0 .. epoch]
      /\ \A k \in Block : coarse'[k] = IF \E p \in pages : BlockOf[p] = k THEN epoch ELSE coarse[k]
  BY <1>1 DEF Mark
<1>5. ASSUME NEW p \in Page PROVE stamp'[p] <= coarse'[BlockOf[p]]
  <2>1. BlockOf[p] \in Block
    BY VramAssumption
  <2>2. stamp[p] \in 0 .. epoch /\ coarse[BlockOf[p]] \in 0 .. epoch /\ stamp[p] <= coarse[BlockOf[p]]
    BY <1>1, <2>1
  <2>3. CASE \E q \in pages : BlockOf[q] = BlockOf[p]
    BY <1>1, <1>3, <1>4, <2>1, <2>2, <2>3
  <2>4. CASE ~\E q \in pages : BlockOf[q] = BlockOf[p]
    BY <1>3, <1>4, <2>1, <2>2, <2>4
  <2> QED
    BY <2>3, <2>4
<1>6. missed' = missed \ pages
  BY DEF Mark
<1> QED
  BY <1>2, <1>3, <1>4, <1>5, <1>6 DEF Seen

LEMMA WriteKeeps ==
  ASSUME IInv, NEW pages \in SUBSET Page, NEW part \in Part, NEW word \in Word,
         Write(pages, part, word)
  PROVE  IInv'
<1>1. /\ ~rendering /\ Fill(pages, part, word) /\ Mark(pages)
      /\ UNCHANGED <<palette, map, arena, bump, crowded, rendering, epoch, gx_pending, fifo, done_irq>>
  BY DEF Write, GuestWrites, cache, frame, gp
<1>2. rendering' = FALSE
  BY <1>1 DEF IInv, TypeOK
<1>3. Seen
  BY <1>1, <1>2, MarkedIsSeen
<1>4. CoarseCovers' /\ Slots'
  BY <1>3, SeenKeeps
<1>5. TypeOK' /\ Layout' /\ Queue' /\ NeverStale'
  BY <1>1, <1>2, <1>3 DEF IInv, TypeOK, Layout, Queue, NeverStale, Seen
<1> QED
  BY <1>4, <1>5 DEF IInv

LEMMA StoreKeeps ==
  ASSUME IInv, NEW page \in Page, NEW part \in Part, NEW word \in Word, Store(page, part, word)
  PROVE  IInv'
<1>1. /\ ~rendering /\ Fill({page}, part, word)
      /\ missed' = IF part = "other" THEN missed \cup {page} ELSE missed
      /\ UNCHANGED <<palette, stamp, coarse, map, arena, bump, crowded, rendering, epoch,
                     gx_pending, fifo, done_irq>>
  BY DEF Store, GuestWrites, cache, frame, gp
<1>2. rendering' = FALSE
  BY <1>1 DEF IInv, TypeOK
<1>3. /\ vram' \in [Page -> [Part -> Word]]
      /\ \A p \in Page : vram'[p] = IF p = page THEN [vram[p] EXCEPT ![part] = word] ELSE vram[p]
  BY <1>1 DEF Fill, IInv, TypeOK
<1>4. ASSUME NEW p \in Page PROVE p \in missed' \/ (vram'[p]["other"] = vram[p]["other"] /\ p \notin missed)
  <2>1. vram[p] \in [Part -> Word] /\ "other" \in Part
    BY DEF IInv, TypeOK, Part
  <2>2. CASE p = page /\ part = "other"
    BY <1>1, <2>2
  <2>3. CASE p = page /\ part # "other"
    BY <1>1, <1>3, <2>1, <2>3
  <2>4. CASE p # page
    BY <1>1, <1>3, <2>4
  <2> QED
    BY <2>2, <2>3, <2>4
<1>5. Seen
  BY <1>1, <1>2, <1>3, <1>4 DEF Seen, IInv, TypeOK, CoarseCovers
<1>6. CoarseCovers' /\ Slots'
  BY <1>5, SeenKeeps
<1>7. TypeOK' /\ Layout' /\ Queue' /\ NeverStale'
  BY <1>1, <1>2, <1>3 DEF IInv, TypeOK, Layout, Queue, NeverStale
<1> QED
  BY <1>6, <1>7 DEF IInv

\* A step that changes neither memory nor the arena, with a queue of its own
LEMMA QuietKeeps ==
  ASSUME IInv, UNCHANGED <<vram, stamp, coarse, missed, map, arena, bump, crowded>>,
         palette' \in [Bank -> Colour], epoch' \in Nat, epoch <= epoch',
         rendering' \in BOOLEAN, gx_pending' \in BOOLEAN, done_irq' \in BOOLEAN,
         rendering' => (rendering /\ UNCHANGED epoch) \/ epoch' = epoch + 1,
         fifo' \in Seq(Command), Queue', NeverStale'
  PROVE  IInv'
<1>1. /\ epoch \in Nat /\ stamp \in [Page -> 0 .. epoch] /\ coarse \in [Block -> 0 .. epoch]
  BY DEF IInv, TypeOK
<1>2. stamp' \in [Page -> 0 .. epoch'] /\ coarse' \in [Block -> 0 .. epoch']
  <2>1. 0 .. epoch \subseteq 0 .. epoch'
    BY <1>1
  <2> QED
    BY <1>1, <2>1
<1>3. TypeOK'
  BY <1>2 DEF IInv, TypeOK
<1>4. CoarseCovers' /\ Layout'
  BY DEF IInv, CoarseCovers, Layout
<1>5. ASSUME NEW o \in DOMAIN arena
      PROVE  /\ arena[o].wepoch <= epoch' /\ arena[o].wcheck <= epoch'
             /\ Traced(arena[o])' /\ Checked(arena[o])'
  <2>1. /\ arena[o] \in Slot /\ arena[o].wepoch <= epoch /\ arena[o].wcheck <= epoch
        /\ Traced(arena[o]) /\ Checked(arena[o])
    BY DEF IInv, TypeOK, Slots
  <2>2. arena[o].wepoch \in Nat /\ arena[o].wcheck \in Nat
    BY <2>1 DEF Slot
  <2>3. Traced(arena[o])'
    BY <2>1 DEF Traced
  <2>4. Checked(arena[o])'
    BY <1>1, <2>1, <2>2 DEF Checked, Current, Source
  <2> QED
    BY <1>1, <2>1, <2>2, <2>3, <2>4
<1>6. Slots'
  BY <1>5 DEF Slots
<1> QED
  BY <1>3, <1>4, <1>6 DEF IInv

LEMMA WritePaletteKeeps ==
  ASSUME IInv, NEW bank \in Bank, NEW colour \in Colour, WritePalette(bank, colour)
  PROVE  IInv'
<1>1. /\ palette' = [palette EXCEPT ![bank] = colour] /\ ~rendering
      /\ UNCHANGED <<vram, stamp, coarse, missed, map, arena, bump, crowded, rendering, epoch,
                     gx_pending, done_irq, fifo>>
  BY DEF WritePalette, GuestWrites, cache, frame, gp
<1>2. palette' \in [Bank -> Colour]
  BY <1>1 DEF IInv, TypeOK
<1>3. Queue' /\ NeverStale'
  BY <1>1 DEF IInv, Queue, NeverStale
<1>4. /\ epoch \in Nat /\ rendering \in BOOLEAN /\ gx_pending \in BOOLEAN /\ done_irq \in BOOLEAN
      /\ fifo \in Seq(Command)
  BY DEF IInv, TypeOK
<1> QED
  BY <1>1, <1>2, <1>3, <1>4, QuietKeeps

-----------------------------------------------------------------------------
(* DoRender                                                                *)

LEMMA StartRenderKeeps ==
  ASSUME IInv, StartRender
  PROVE  IInv'
<1>1. /\ ~rendering /\ (gx_pending => fifo = <<>>)
      /\ rendering' = TRUE /\ gx_pending' = FALSE /\ epoch' = epoch + 1
      /\ fifo' = IF tmem_cache THEN fifo ELSE Append(fifo, Invalidate)
      /\ UNCHANGED <<vram, palette, stamp, coarse, missed, map, arena, bump, crowded, done_irq>>
  BY DEF StartRender, cache
<1>2. /\ epoch \in Nat /\ palette \in [Bank -> Colour] /\ done_irq \in BOOLEAN
  BY DEF IInv, TypeOK
<1>3. fifo = <<>>
  BY <1>1 DEF IInv, Queue
<1>4. Invalidate \in Command /\ Invalidate.op = "invalidate"
  BY DEF Command, Invalidate
<1>5. fifo' = <<>> \/ fifo' = <<Invalidate>>
  BY <1>1, <1>3
<1>6. fifo' \in Seq(Command) /\ \A i \in DOMAIN fifo' : fifo'[i].op = "invalidate"
  <2>1. CASE fifo' = <<>>
    BY <2>1
  <2>2. CASE fifo' = <<Invalidate>>
    <3>1. <<Invalidate>> \in Seq(Command) /\ \A i \in DOMAIN <<Invalidate>> : <<Invalidate>>[i] = Invalidate
      BY <1>4
    <3> QED
      BY <1>4, <2>2, <3>1
  <2> QED
    BY <1>5, <2>1, <2>2
<1>7. Queue' /\ NeverStale'
  BY <1>1, <1>6 DEF Queue, NeverStale
<1>9. /\ palette' \in [Bank -> Colour] /\ epoch' \in Nat /\ epoch <= epoch'
      /\ rendering' \in BOOLEAN /\ gx_pending' \in BOOLEAN /\ done_irq' \in BOOLEAN
      /\ rendering' => (rendering /\ UNCHANGED epoch) \/ epoch' = epoch + 1
  <2>1. palette' \in [Bank -> Colour] /\ epoch' \in Nat /\ epoch <= epoch'
    BY <1>1, <1>2
  <2>2. rendering' \in BOOLEAN /\ gx_pending' \in BOOLEAN /\ done_irq' \in BOOLEAN
    BY <1>1, <1>2
  <2>3. rendering' => (rendering /\ UNCHANGED epoch) \/ epoch' = epoch + 1
    BY <1>1, <1>2
  <2> QED
    BY <2>1, <2>2, <2>3
<1> QED
  BY <1>9, <1>1, <1>2, <1>6, <1>7, QuietKeeps

LEMMA EndAsyncKeeps ==
  ASSUME IInv, EndAsync
  PROVE  IInv'
<1>1. /\ rendering /\ rendering' = FALSE /\ gx_pending' = TRUE /\ done_irq' = FALSE
      /\ fifo' = Append(fifo, SetDrawDone)
      /\ UNCHANGED <<vram, palette, stamp, coarse, missed, map, arena, bump, crowded, epoch>>
  BY DEF EndAsync, Ends, FrameReset, memory
<1>2. /\ epoch \in Nat /\ palette \in [Bank -> Colour] /\ fifo \in Seq(Command)
  BY DEF IInv, TypeOK
<1>3. SetDrawDone \in Command /\ SetDrawDone.op = "done"
  BY DEF Command, SetDrawDone
<1>4. /\ fifo' \in Seq(Command) /\ Len(fifo') = Len(fifo) + 1
      /\ DOMAIN fifo' = 1 .. Len(fifo) + 1 /\ DOMAIN fifo = 1 .. Len(fifo)
      /\ \A i \in DOMAIN fifo : fifo'[i] = fifo[i]
      /\ fifo'[Len(fifo) + 1] = SetDrawDone
  BY <1>1, <1>2, <1>3, Pushed
<1>5. ASSUME NEW i \in DOMAIN fifo', fifo'[i].op = "done"
      PROVE  i = Len(fifo')
  <2>1. CASE i \in DOMAIN fifo
    BY <1>1, <1>4, <1>5, <2>1 DEF IInv, Queue
  <2>2. CASE i \notin DOMAIN fifo
    BY <1>2, <1>4, <2>2
  <2> QED
    BY <2>1, <2>2
<1>6. Queue' /\ NeverStale'
  BY <1>1, <1>5 DEF Queue, NeverStale
<1>9. /\ palette' \in [Bank -> Colour] /\ epoch' \in Nat /\ epoch <= epoch'
      /\ rendering' \in BOOLEAN /\ gx_pending' \in BOOLEAN /\ done_irq' \in BOOLEAN
      /\ rendering' => (rendering /\ UNCHANGED epoch) \/ epoch' = epoch + 1
  <2>1. palette' \in [Bank -> Colour] /\ epoch' \in Nat /\ epoch <= epoch'
    BY <1>1, <1>2
  <2>2. rendering' \in BOOLEAN /\ gx_pending' \in BOOLEAN /\ done_irq' \in BOOLEAN
    BY <1>1, <1>2
  <2>3. rendering' => (rendering /\ UNCHANGED epoch) \/ epoch' = epoch + 1
    BY <1>1, <1>2
  <2> QED
    BY <2>1, <2>2, <2>3
<1> QED
  BY <1>9, <1>1, <1>2, <1>4, <1>6, QuietKeeps

LEMMA EndSyncKeeps ==
  ASSUME IInv, EndSync
  PROVE  IInv'
<1>1. /\ rendering /\ rendering' = FALSE /\ done_irq' = TRUE /\ fifo = <<>>
      /\ UNCHANGED <<vram, palette, stamp, coarse, missed, map, arena, bump, crowded, epoch,
                     gx_pending, fifo>>
  BY DEF EndSync, Ends, FrameReset, memory
<1>2. /\ epoch \in Nat /\ palette \in [Bank -> Colour] /\ fifo \in Seq(Command)
      /\ gx_pending \in BOOLEAN
  BY DEF IInv, TypeOK
<1>3. Queue' /\ NeverStale'
  BY <1>1 DEF Queue, NeverStale
<1>9. /\ palette' \in [Bank -> Colour] /\ epoch' \in Nat /\ epoch <= epoch'
      /\ rendering' \in BOOLEAN /\ gx_pending' \in BOOLEAN /\ done_irq' \in BOOLEAN
      /\ rendering' => (rendering /\ UNCHANGED epoch) \/ epoch' = epoch + 1
  <2>1. palette' \in [Bank -> Colour] /\ epoch' \in Nat /\ epoch <= epoch'
    BY <1>1, <1>2
  <2>2. rendering' \in BOOLEAN /\ gx_pending' \in BOOLEAN /\ done_irq' \in BOOLEAN
    BY <1>1, <1>2
  <2>3. rendering' => (rendering /\ UNCHANGED epoch) \/ epoch' = epoch + 1
    BY <1>1, <1>2
  <2> QED
    BY <2>1, <2>2, <2>3
<1> QED
  BY <1>9, <1>1, <1>2, <1>3, QuietKeeps

LEMMA EndTextureKeeps ==
  ASSUME IInv, NEW pages \in SUBSET Page, NEW word \in Word, EndTexture(pages, word)
  PROVE  IInv'
<1>1. /\ rendering' = FALSE /\ done_irq' = TRUE /\ fifo = <<>>
      /\ Fill(pages, "other", word) /\ Mark(pages)
      /\ UNCHANGED <<palette, map, arena, bump, crowded, epoch, gx_pending, fifo>>
  BY DEF EndTexture, Ends
<1>2. Seen
  BY <1>1, MarkedIsSeen DEF Part
<1>3. CoarseCovers' /\ Slots'
  BY <1>2, SeenKeeps
<1>4. TypeOK' /\ Layout' /\ Queue' /\ NeverStale'
  BY <1>1, <1>2 DEF IInv, TypeOK, Layout, Queue, NeverStale, Seen
<1> QED
  BY <1>3, <1>4 DEF IInv

LEMMA DropFrameKeeps ==
  ASSUME IInv, DropFrame
  PROVE  IInv'
<1>1. UNCHANGED <<vram, palette, stamp, coarse, missed, map, arena, bump, crowded, rendering, epoch,
                  gx_pending, done_irq, fifo>>
  BY DEF DropFrame, FrameReset, memory, frame, gp
<1>2. Queue' /\ NeverStale'
  BY <1>1 DEF IInv, Queue, NeverStale, Current, Source
<1>3. /\ epoch \in Nat /\ rendering \in BOOLEAN /\ gx_pending \in BOOLEAN /\ done_irq \in BOOLEAN
      /\ fifo \in Seq(Command) /\ palette \in [Bank -> Colour]
  BY DEF IInv, TypeOK
<1> QED
  BY <1>1, <1>2, <1>3, QuietKeeps

LEMMA VBlankKeeps ==
  ASSUME IInv, VBlank
  PROVE  IInv'
<1>1. /\ ~rendering /\ gx_pending /\ done_irq /\ gx_pending' = FALSE
      /\ UNCHANGED <<vram, palette, stamp, coarse, missed, map, arena, bump, crowded, rendering, epoch,
                     done_irq, fifo>>
  BY DEF VBlank, memory, cache, gp
<1>2. fifo = <<>>
  BY <1>1 DEF IInv, Queue
<1>3. Queue' /\ NeverStale'
  BY <1>1, <1>2 DEF Queue, NeverStale
<1>4. /\ epoch \in Nat /\ rendering \in BOOLEAN /\ done_irq \in BOOLEAN
      /\ fifo \in Seq(Command) /\ palette \in [Bank -> Colour]
  BY DEF IInv, TypeOK
<1>9. /\ palette' \in [Bank -> Colour] /\ epoch' \in Nat /\ epoch <= epoch'
      /\ rendering' \in BOOLEAN /\ gx_pending' \in BOOLEAN /\ done_irq' \in BOOLEAN
      /\ rendering' => (rendering /\ UNCHANGED epoch) \/ epoch' = epoch + 1
  <2>1. palette' \in [Bank -> Colour] /\ epoch' \in Nat /\ epoch <= epoch'
    BY <1>1, <1>4
  <2>2. rendering' \in BOOLEAN /\ gx_pending' \in BOOLEAN /\ done_irq' \in BOOLEAN
    BY <1>1, <1>4
  <2>3. rendering' => (rendering /\ UNCHANGED epoch) \/ epoch' = epoch + 1
    BY <1>1, <1>4
  <2> QED
    BY <2>1, <2>2, <2>3
<1> QED
  BY <1>9, <1>1, <1>3, <1>4, QuietKeeps

-----------------------------------------------------------------------------
(* The graphics processor                                                  *)

LEMMA GpKeeps ==
  ASSUME IInv, GpDraw \/ GpTlut \/ GpInvalidate \/ GpDone
  PROVE  IInv'
<1>1. PICK op : /\ Next_command(op)
                /\ IF op = "done" THEN done_irq' = TRUE ELSE UNCHANGED done_irq
  <2>1. CASE GpDraw
    BY <2>1 DEF GpDraw
  <2>2. CASE GpTlut
    BY <2>2 DEF GpTlut
  <2>3. CASE GpInvalidate
    BY <2>3 DEF GpInvalidate
  <2>4. CASE GpDone
    BY <2>4 DEF GpDone
  <2> QED
    BY <2>1, <2>2, <2>3, <2>4
<1>2. UNCHANGED <<vram, palette, stamp, coarse, missed, map, arena, bump, crowded, rendering, epoch,
                  gx_pending>>
  BY DEF GpDraw, GpTlut, GpInvalidate, GpDone, memory, cache, frame
<1>3. /\ epoch \in Nat /\ rendering \in BOOLEAN /\ gx_pending \in BOOLEAN /\ done_irq \in BOOLEAN
      /\ fifo \in Seq(Command) /\ palette \in [Bank -> Colour]
  BY DEF IInv, TypeOK
<1>4. /\ fifo' \in Seq(Command)
      /\ Len(fifo) \in Nat \ {0} /\ Len(fifo') = Len(fifo) - 1
      /\ \A i \in DOMAIN fifo' : i + 1 \in DOMAIN fifo /\ fifo'[i] = fifo[i + 1]
      /\ fifo[1].op = op
  BY <1>1, <1>3, Popped
<1>5. 1 \in DOMAIN fifo /\ DOMAIN fifo' = 1 .. Len(fifo')
  BY <1>3, <1>4
<1>6. NeverStale'
  <2>1. \A i \in DOMAIN fifo : (rendering /\ fifo[i].op = "draw") => Current(fifo[i])
    BY DEF IInv, NeverStale
  <2> SUFFICES ASSUME rendering, NEW i \in DOMAIN fifo', fifo'[i].op = "draw"
               PROVE  Current(fifo[i])'
    BY <1>2 DEF NeverStale
  <2>2. Current(fifo[i + 1]) /\ fifo'[i] = fifo[i + 1]
    BY <1>4, <2>1
  <2> QED
    BY <1>2, <2>2 DEF Current, Source
<1>7. Queue'
  <2>1. \A i \in DOMAIN fifo' : (fifo'[i].op = "done") => (i = Len(fifo') /\ ~rendering)
    <3> SUFFICES ASSUME NEW i \in DOMAIN fifo', fifo'[i].op = "done"
                 PROVE  i = Len(fifo') /\ ~rendering
      OBVIOUS
    <3>1. i + 1 = Len(fifo) /\ ~rendering
      BY <1>4 DEF IInv, Queue
    <3> QED
      BY <1>4, <1>5, <3>1
  <2>2. CASE op = "done"
    <3>1. Len(fifo) = 1
      BY <1>4, <1>5, <2>2 DEF IInv, Queue
    <3>2. fifo' = <<>>
      BY <1>4, <3>1
    <3> QED
      BY <1>2, <2>1, <3>2 DEF IInv, Queue
  <2>3. CASE op # "done"
    <3>1. fifo # <<>>
      BY <1>4
    <3> QED
      BY <1>1, <1>2, <2>1, <2>3, <3>1 DEF IInv, Queue
  <2> QED
    BY <2>2, <2>3
<1>8. done_irq' \in BOOLEAN
  BY <1>1, <1>3
<1> QED
  BY <1>2, <1>3, <1>4, <1>6, <1>7, <1>8, QuietKeeps

-----------------------------------------------------------------------------

LEMMA InitEstablishes == Init => IInv
<1> SUFFICES ASSUME Init PROVE IInv
  OBVIOUS
<1>1. /\ map = <<>> /\ arena = <<>> /\ fifo = <<>> /\ bump = 0 /\ epoch = 1
      /\ rendering = FALSE /\ gx_pending = FALSE /\ done_irq = FALSE
      /\ stamp = [p \in Page |-> 0] /\ coarse = [k \in Block |-> 0]
      /\ DOMAIN map = {} /\ DOMAIN arena = {} /\ DOMAIN fifo = {}
  BY DEF Init
<1>2. vram \in [Page -> [Part -> Word]] /\ palette \in [Bank -> Colour]
  <2>1. PICK word \in Word : vram = [p \in Page |-> [part \in Part |-> word]]
    BY DEF Init
  <2>2. PICK colour \in Colour : palette = [k \in Bank |-> colour]
    BY DEF Init
  <2> QED
    BY <2>1, <2>2
<1>3. TypeOK
  <2>1. <<>> \in Seq(Command)
    OBVIOUS
  <2>2. /\ epoch \in Nat /\ bump \in Nat /\ 0 \in 0 .. epoch
        /\ stamp \in [Page -> 0 .. epoch] /\ coarse \in [Block -> 0 .. epoch]
    BY <1>1
  <2>3. rendering \in BOOLEAN /\ gx_pending \in BOOLEAN /\ done_irq \in BOOLEAN
    BY <1>1
  <2>4. /\ DOMAIN map \subseteq Address /\ DOMAIN arena \subseteq Nat
        /\ \A o \in DOMAIN arena : arena[o] \in Slot
    BY <1>1
  <2>5. fifo \in Seq(Command)
    BY <1>1, <2>1
  <2> QED
    BY <1>2, <2>2, <2>3, <2>4, <2>5 DEF TypeOK
<1>4. CoarseCovers
  BY <1>1, VramAssumption DEF CoarseCovers
<1>5. Layout /\ Slots /\ Queue /\ NeverStale
  BY <1>1 DEF Layout, Slots, Queue, NeverStale
<1> QED
  BY <1>3, <1>4, <1>5 DEF IInv

LEMMA NextPreserves == IInv /\ [Next]_vars => IInv'
<1> SUFFICES ASSUME IInv, [Next]_vars PROVE IInv'
  OBVIOUS
<1>1. ASSUME NEW pages \in SUBSET Page, NEW word \in Word,
             (\E part \in Part : Write(pages, part, word)) \/ EndTexture(pages, word)
      PROVE  IInv'
  BY <1>1, WriteKeeps, EndTextureKeeps
<1>2. ASSUME NEW page \in Page, NEW part \in Part, NEW word \in Word, Store(page, part, word)
      PROVE  IInv'
  BY <1>2, StoreKeeps
<1>3. ASSUME NEW bank \in Bank, NEW colour \in Colour, WritePalette(bank, colour)
      PROVE  IInv'
  BY <1>3, WritePaletteKeeps
<1>4. ASSUME ~crowded, NEW addr \in Address, NEW shape \in Shape, NEW banks \in Palettes[shape],
             \/ Hit(addr, shape, banks) \/ Redecode(addr, shape, banks)
             \/ Allocate(addr, shape, banks) \/ Wrap(addr, shape, banks)
      PROVE  IInv'
  <2>1. banks \in SUBSET Bank
    BY PaletteAssumption
  <2> QED
    BY <1>4, <2>1, HitKeeps, RedecodeKeeps, AllocateKeeps, WrapKeeps
<1>5. ASSUME NEW addr \in Address, NEW shape \in Shape, Crowd(addr, shape)
      PROVE  IInv'
  BY <1>5, CrowdKeeps
<1>6. ASSUME UNCHANGED vars PROVE IInv'
  <2>1. UNCHANGED <<vram, palette, stamp, coarse, missed, map, arena, bump, crowded, rendering, epoch,
                    gx_pending, done_irq, fifo>>
    BY <1>6 DEF vars, memory, cache, frame, gp
  <2> QED
    BY <2>1 DEF IInv, TypeOK, CoarseCovers, Layout, Slots, Queue, NeverStale,
                Traced, Checked, Current, Source
<1>7. ASSUME Next PROVE IInv'
  <2>1. ~crowded /\ Step
    BY <1>7 DEF Next
  <2> QED
    BY <2>1, <1>1, <1>2, <1>3, <1>4, <1>5, StartRenderKeeps, EndAsyncKeeps, EndSyncKeeps,
       DropFrameKeeps, VBlankKeeps, GpKeeps DEF Step
<1> QED
  BY <1>6, <1>7

LEMMA Invariance == Spec => []IInv
BY InitEstablishes, NextPreserves, PTL DEF Spec

\* Memory, stamps, slots and the commands that wait keep their form, and the
\* arena's offsets stay numbers.
THEOREM TypeCorrect == Spec => []TypeOK
<1>1. IInv => TypeOK
  BY DEF IInv
<1> QED
  BY <1>1, Invariance, PTL

\* In every render and for any textures that may overlap, a polygon is drawn
\* with its texture as it is in video memory, unless a store changed it where
\* neither a stamp nor the fingerprint could see it.
THEOREM TexturesAreCurrent == Spec => []NeverStale
<1>1. IInv => NeverStale
  BY DEF IInv
<1> QED
  BY <1>1, Invariance, PTL

-----------------------------------------------------------------------------
(* What the graphics processor samples: the invariant                      *)

\* An invalidation of TMEM comes before position n of the queue.
Invalidated(n) == \E j \in 1 .. n - 1 : fifo[j].op = "invalidate"

\* A texture of this render, in a place that no decode of this render may take, but
\* one of the same address with another shape
Kept(o, pixels) ==
  /\ o \in DOMAIN arena /\ arena[o].wcheck = epoch /\ o + arena[o].size <= bump
  /\ o \in reshaped \/ arena[o].pixels = pixels

\* A place the map knows is of the address that knows it.
Named == \A addr \in DOMAIN map : arena[map[addr]].addr = addr

\* A polygon that waits finds its bytes in the arena.
Waiting == \A i \in DOMAIN fifo : fifo[i].op = "draw" => Kept(fifo[i].at, fifo[i].pixels)

\* A line of TMEM that a bind may meet is that of the texture there.
Agrees(o) == IF tmem_cache THEN o \in DOMAIN arena => tmem[o] = arena[o].pixels
             ELSE Kept(o, tmem[o])
Lines ==
  tmem_cache \/ ~wrapped =>
    /\ \A i \in DOMAIN fifo :
         fifo[i].op = "draw" /\ ~Invalidated(i) /\ fifo[i].at \in DOMAIN tmem
           => fifo[i].at \in reshaped \/ tmem[fifo[i].at] = fifo[i].pixels
    /\ ~Invalidated(Len(fifo) + 1) => \A o \in DOMAIN tmem : Agrees(o)

\* The palette that is loaded when the processor comes to position n is that of the
\* banks, as the mirror has them.
Loaded(n, banks) ==
  \/ \E j \in 1 .. n - 1 : /\ fifo[j].op = "tlut" /\ fifo[j].banks = banks
                           /\ \A k \in j + 1 .. n - 1 : fifo[k].op # "tlut"
  \/ /\ \A k \in 1 .. n - 1 : fifo[k].op # "tlut"
     /\ tlut0 = [b \in banks |-> mirror[b]]

\* The banks were converted in this render, and will not be again.
Converted(banks) == \A b \in banks : mirror_epoch[b] = epoch

PaletteTypes ==
  /\ mirror_epoch \in [Bank -> Nat] /\ \A b \in Bank : mirror_epoch[b] <= epoch
  /\ tlut_last \in [key : SUBSET Bank, epoch : Nat] /\ tlut_last.epoch <= epoch
LoadedDraws ==
  \A i \in DOMAIN fifo : fifo[i].op = "draw" /\ fifo[i].banks # {} =>
    /\ Loaded(i, fifo[i].banks) /\ Converted(fifo[i].banks)
    /\ fifo[i].colours = [b \in fifo[i].banks |-> mirror[b]]
LoadedLast ==
  tlut_last.epoch = epoch => Loaded(Len(fifo) + 1, tlut_last.key) /\ Converted(tlut_last.key)
MirrorIs == rendering => \A b \in Bank : mirror_epoch[b] = epoch => mirror[b] = palette[b]
Loads == PaletteTypes /\ LoadedDraws /\ LoadedLast /\ MirrorIs

SInv == SamplesWhatWasBound /\ (~crowded => Named /\ Waiting /\ Lines /\ Loads)

-----------------------------------------------------------------------------
(* The queue, position by position                                         *)

LEMMA OneMore ==
  ASSUME NEW S, NEW s \in Seq(S), NEW t \in Seq(S), NEW x \in S,
         Len(t) = Len(s) + 1, \A i \in 1 .. Len(s) : t[i] = s[i], t[Len(t)] = x
  PROVE  s \o <<x>> = t
<1>1. <<x>> \in Seq(S) /\ Len(<<x>>) = 1 /\ <<x>>[1] = x /\ Len(s) \in Nat
  OBVIOUS
<1>2. /\ s \o <<x>> \in Seq(S) /\ Len(s \o <<x>>) = Len(s) + 1
      /\ \A i \in 1 .. Len(s) + 1 : (s \o <<x>>)[i] = IF i <= Len(s) THEN s[i] ELSE <<x>>[i - Len(s)]
  BY <1>1, ConcatProperties
<1>3. \A i \in 1 .. Len(t) : t[i] = (s \o <<x>>)[i]
  BY <1>1, <1>2
<1> QED BY <1>2, <1>3, SeqEqual

LEMMA Tuples ==
  ASSUME NEW S, NEW x \in S, NEW y \in S, NEW z \in S
  PROVE  /\ (<<x>> \o <<y>>) \o <<z>> = <<x, y, z>> /\ <<x, y, z>> \in Seq(S)
         /\ (<<>> \o <<y>>) \o <<z>> = <<y, z>> /\ (<<y>> \o <<>>) \o <<z>> = <<y, z>>
         /\ <<y, z>> \in Seq(S)
<1>1. /\ <<>> \in Seq(S) /\ <<x>> \in Seq(S) /\ <<y>> \in Seq(S) /\ <<z>> \in Seq(S)
      /\ <<x, y>> \in Seq(S) /\ <<y, z>> \in Seq(S) /\ <<x, y, z>> \in Seq(S)
  OBVIOUS
<1>2. \A u, v \in S : <<u, v>> \in Seq(S) => <<u>> \o <<v>> = <<u, v>>
  <2> SUFFICES ASSUME NEW u \in S, NEW v \in S PROVE <<u>> \o <<v>> = <<u, v>>
    OBVIOUS
  <2>1. PICK s, t : s = <<u>> /\ t = <<u, v>>
    OBVIOUS
  <2>2. s \in Seq(S) /\ t \in Seq(S) /\ Len(s) = 1 /\ Len(t) = 2 /\ t[1] = s[1] /\ t[2] = v
    BY <2>1
  <2>4. Len(t) = Len(s) + 1 /\ (\A i \in 1 .. Len(s) : t[i] = s[i]) /\ t[Len(t)] = v
    BY <2>2
  <2>3. s \o <<v>> = t
    BY <2>2, <2>4, OneMore, ZenonT(30)
  <2> QED BY <2>1, <2>3
<1>3. <<x, y>> \o <<z>> = <<x, y, z>>
  <2>1. PICK s, t : s = <<x, y>> /\ t = <<x, y, z>>
    OBVIOUS
  <2>2. /\ s \in Seq(S) /\ t \in Seq(S) /\ Len(s) = 2 /\ Len(t) = 3
        /\ t[1] = s[1] /\ t[2] = s[2] /\ t[3] = z
    BY <2>1
  <2>4. Len(t) = Len(s) + 1 /\ (\A i \in 1 .. Len(s) : t[i] = s[i]) /\ t[Len(t)] = z
    <3>1. \A i \in 1 .. 2 : i = 1 \/ i = 2
      OBVIOUS
    <3> QED BY <2>2, <3>1
  <2>5. s \in Seq(S) /\ t \in Seq(S)
    BY <2>2
  <2>3. s \o <<z>> = t
    BY <2>4, <2>5, OneMore, ZenonT(30)
  <2> QED BY <2>1, <2>3
<1>4. <<>> \o <<y>> = <<y>> /\ <<y>> \o <<>> = <<y>>
  BY <1>1, ConcatEmptySeq
<1>5. <<x>> \o <<y>> = <<x, y>> /\ <<y>> \o <<z>> = <<y, z>>
  BY <1>1, <1>2
<1> QED BY <1>1, <1>3, <1>4, <1>5

\* The queue after a bind
Appended(at, addr, shape, banks, decoded, slot) ==
  /\ Len(fifo) \in Nat /\ Len(fifo') \in Nat /\ Len(fifo) < Len(fifo')
  /\ DOMAIN fifo = 1 .. Len(fifo) /\ DOMAIN fifo' = 1 .. Len(fifo')
  /\ \A i \in 1 .. Len(fifo) : fifo'[i] = fifo[i]
  /\ fifo'[Len(fifo')] = Draw(at, addr, shape, banks, slot)
  /\ \A i \in Len(fifo) + 1 .. Len(fifo') - 1 : fifo'[i].op \in {"tlut", "invalidate"}
  /\ NeedReupload(banks) =>
       /\ Len(fifo) + 1 < Len(fifo')
       /\ fifo'[Len(fifo) + 1] = LoadTlut(banks)
       /\ \A i \in Len(fifo) + 2 .. Len(fifo') : fifo'[i].op # "tlut"
  /\ ~NeedReupload(banks) => \A i \in Len(fifo) + 1 .. Len(fifo') : fifo'[i].op # "tlut"
  /\ decoded /\ tmem_cache =>
       \E i \in Len(fifo) + 1 .. Len(fifo') - 1 : fifo'[i].op = "invalidate"
  /\ ~(decoded /\ tmem_cache) =>
       \A i \in Len(fifo) + 1 .. Len(fifo') : fifo'[i].op # "invalidate"

\* The commands of a bind, one after the other
LEMMA BoundQueue ==
  ASSUME TypeOK, NEW at \in Nat, NEW addr \in Address, NEW shape \in Shape,
         NEW banks \in SUBSET Bank, NEW decoded \in BOOLEAN, NEW slot \in Slot,
         fifo' = fifo \o Commands(at, addr, shape, banks, decoded, slot)
  PROVE  Appended(at, addr, shape, banks, decoded, slot)
<1> DEFINE L == LoadTlut(banks)
           D == Draw(at, addr, shape, banks, slot)
           n == Len(fifo)
<1>1. /\ L \in Command /\ D \in Command /\ Invalidate \in Command
      /\ L.op = "tlut" /\ D.op = "draw" /\ Invalidate.op = "invalidate"
  BY Types DEF LoadTlut, Draw, Invalidate
<1>2. fifo \in Seq(Command) /\ n \in Nat /\ DOMAIN fifo = 1 .. n
  BY DEF TypeOK
<1>3. \A t \in Seq(Command) : fifo' = fifo \o t =>
        /\ fifo' \in Seq(Command) /\ Len(fifo') = n + Len(t)
        /\ \A i \in 1 .. n + Len(t) : fifo'[i] = IF i <= n THEN fifo[i] ELSE t[i - n]
  BY <1>2, ConcatProperties
<1> DEFINE I == Invalidate
<1>4. CASE NeedReupload(banks) /\ decoded /\ tmem_cache
  <2>1. Commands(at, addr, shape, banks, decoded, slot) = (<<L>> \o <<I>>) \o <<D>>
    BY <1>4 DEF Commands
  <2> HIDE DEF L, D, I
  <2>2. (<<L>> \o <<I>>) \o <<D>> = <<L, I, D>> /\ <<L, I, D>> \in Seq(Command)
    BY <1>1, Tuples, Zenon DEF I
  <2>3. fifo' = fifo \o <<L, I, D>>
    BY <2>1, <2>2
  <2>4. /\ Len(fifo') = n + 3 /\ \A i \in 1 .. n : fifo'[i] = fifo[i]
        /\ fifo'[n + 1] = L /\ fifo'[n + 2] = I /\ fifo'[n + 3] = D /\ DOMAIN fifo' = 1 .. n + 3
    BY <1>2, <1>3, <2>2, <2>3
  <2>5. /\ \A i \in n + 1 .. n + 3 : i = n + 1 \/ i = n + 2 \/ i = n + 3
        /\ \A i \in n + 2 .. n + 3 : i = n + 2 \/ i = n + 3
        /\ \A i \in n + 1 .. n + 2 : i = n + 1 \/ i = n + 2
    BY <1>2
  <2>6. \E i \in n + 1 .. Len(fifo') - 1 : fifo'[i].op = "invalidate"
    <3>1. n + 2 \in n + 1 .. Len(fifo') - 1 /\ fifo'[n + 2].op = "invalidate"
      BY <1>1, <1>2, <2>4 DEF I
    <3> QED BY <3>1
  <2>7. \A i \in n + 2 .. Len(fifo') : fifo'[i].op # "tlut"
    BY <1>1, <1>2, <2>4, <2>5 DEF I
  <2>8. \A i \in n + 1 .. Len(fifo') - 1 : fifo'[i].op \in {"tlut", "invalidate"}
    BY <1>1, <1>2, <2>4, <2>5 DEF I
  <2>9. /\ Len(fifo) < Len(fifo') /\ Len(fifo') \in Nat /\ DOMAIN fifo' = 1 .. Len(fifo')
        /\ fifo'[Len(fifo')] = D
    BY <1>2, <2>4
  <2>10. /\ Len(fifo) + 1 < Len(fifo') /\ fifo'[Len(fifo) + 1] = L
         /\ \A i \in 1 .. Len(fifo) : fifo'[i] = fifo[i]
    BY <1>2, <2>4
  <2> QED BY <1>2, <1>4, <2>6, <2>7, <2>8, <2>9, <2>10, Zenon DEF L, D, Appended
<1>5. CASE NeedReupload(banks) /\ ~(decoded /\ tmem_cache)
  <2>1. Commands(at, addr, shape, banks, decoded, slot) = (<<L>> \o <<>>) \o <<D>>
    BY <1>5 DEF Commands
  <2> HIDE DEF L, D
  <2>2. (<<L>> \o <<>>) \o <<D>> = <<L, D>> /\ <<L, D>> \in Seq(Command)
    BY <1>1, Tuples, Zenon
  <2>3. fifo' = fifo \o <<L, D>>
    BY <2>1, <2>2
  <2>4. /\ Len(fifo') = n + 2 /\ \A i \in 1 .. n : fifo'[i] = fifo[i]
        /\ fifo'[n + 1] = L /\ fifo'[n + 2] = D /\ DOMAIN fifo' = 1 .. n + 2
    BY <1>2, <1>3, <2>2, <2>3
  <2>5. /\ \A i \in n + 1 .. n + 2 : i = n + 1 \/ i = n + 2
        /\ \A i \in n + 2 .. n + 2 : i = n + 2
        /\ \A i \in n + 1 .. n + 1 : i = n + 1
    BY <1>2
  <2> QED BY <1>1, <1>2, <1>5, <2>4, <2>5 DEF L, D, Appended
<1>6. CASE ~NeedReupload(banks) /\ decoded /\ tmem_cache
  <2>1. Commands(at, addr, shape, banks, decoded, slot) = (<<>> \o <<I>>) \o <<D>>
    BY <1>6 DEF Commands
  <2> HIDE DEF L, D, I
  <2>2. (<<>> \o <<I>>) \o <<D>> = <<I, D>> /\ <<I, D>> \in Seq(Command)
    BY <1>1, Tuples, Zenon DEF I
  <2>3. fifo' = fifo \o <<I, D>>
    BY <2>1, <2>2
  <2>4. /\ Len(fifo') = n + 2 /\ \A i \in 1 .. n : fifo'[i] = fifo[i]
        /\ fifo'[n + 1] = I /\ fifo'[n + 2] = D /\ DOMAIN fifo' = 1 .. n + 2
    BY <1>2, <1>3, <2>2, <2>3
  <2>5. /\ \A i \in n + 1 .. n + 2 : i = n + 1 \/ i = n + 2
        /\ \A i \in n + 1 .. n + 1 : i = n + 1
    BY <1>2
  <2>6. \E i \in n + 1 .. Len(fifo') - 1 : fifo'[i].op = "invalidate"
    <3>1. n + 1 \in n + 1 .. Len(fifo') - 1 /\ fifo'[n + 1].op = "invalidate"
      BY <1>1, <1>2, <2>4 DEF I
    <3> QED BY <3>1
  <2>7. \A i \in n + 1 .. Len(fifo') : fifo'[i].op # "tlut"
    BY <1>1, <1>2, <2>4, <2>5 DEF I
  <2>8. \A i \in n + 1 .. Len(fifo') - 1 : fifo'[i].op \in {"tlut", "invalidate"}
    BY <1>1, <1>2, <2>4, <2>5 DEF I
  <2>9. /\ Len(fifo) < Len(fifo') /\ Len(fifo') \in Nat /\ DOMAIN fifo' = 1 .. Len(fifo')
        /\ fifo'[Len(fifo')] = D
    BY <1>2, <2>4
  <2> QED BY <1>2, <1>6, <2>4, <2>6, <2>7, <2>8, <2>9 DEF D, Appended
<1>7. CASE ~NeedReupload(banks) /\ ~(decoded /\ tmem_cache)
  <2>1. Commands(at, addr, shape, banks, decoded, slot) = (<<>> \o <<>>) \o <<D>>
    BY <1>7 DEF Commands
  <2> HIDE DEF L, D
  <2>2. (<<>> \o <<>>) \o <<D>> = <<D>> /\ <<D>> \in Seq(Command)
    BY <1>1
  <2>3. fifo' = fifo \o <<D>>
    BY <2>1, <2>2
  <2>4. /\ Len(fifo') = n + 1 /\ \A i \in 1 .. n : fifo'[i] = fifo[i]
        /\ fifo'[n + 1] = D /\ DOMAIN fifo' = 1 .. n + 1
    BY <1>2, <1>3, <2>2, <2>3
  <2>5. /\ \A i \in n + 1 .. n + 1 : i = n + 1
        /\ \A i \in n + 1 .. n : FALSE
    BY <1>2
  <2> QED BY <1>1, <1>2, <1>7, <2>4, <2>5 DEF D, Appended
<1> QED BY <1>4, <1>5, <1>6, <1>7

\* What waits at a position depends on the queue before it alone.
LEMMA PrefixKeeps ==
  ASSUME NEW n \in Nat, \A i \in 1 .. n - 1 : fifo'[i] = fifo[i], UNCHANGED tlut0,
         NEW banks, \A b \in banks : mirror'[b] = mirror[b]
  PROVE  /\ Invalidated(n)' <=> Invalidated(n)
         /\ Loaded(n, banks) => Loaded(n, banks)'
<1>1. Invalidated(n)' <=> Invalidated(n)
  BY DEF Invalidated
<1>2. ASSUME NEW j \in 1 .. n - 1, fifo[j].op = "tlut", fifo[j].banks = banks,
             \A k \in j + 1 .. n - 1 : fifo[k].op # "tlut"
      PROVE  Loaded(n, banks)'
  <2>1. fifo'[j].op = "tlut" /\ fifo'[j].banks = banks
    BY <1>2
  <2>2. \A k \in j + 1 .. n - 1 : fifo'[k].op # "tlut"
    BY <1>2
  <2> QED BY <2>1, <2>2 DEF Loaded
<1>3. ASSUME \A k \in 1 .. n - 1 : fifo[k].op # "tlut", tlut0 = [b \in banks |-> mirror[b]]
      PROVE  Loaded(n, banks)'
  <2>1. \A k \in 1 .. n - 1 : fifo'[k].op # "tlut"
    BY <1>3
  <2>2. tlut0' = [b \in banks |-> mirror'[b]]
    BY <1>3
  <2> QED BY <2>1, <2>2 DEF Loaded
<1> QED BY <1>1, <1>2, <1>3 DEF Loaded

-----------------------------------------------------------------------------
(* What each step does to the samples: the binds                           *)

\* A bank is converted to what the guest has in it, unless it was in this render.
LEMMA MirroredIs ==
  ASSUME TypeOK, PaletteTypes, MirrorIs, rendering, NEW banks \in SUBSET Bank, Mirrored(banks),
         UNCHANGED <<palette, rendering, epoch>>, LoadedLast
  PROVE  /\ PaletteTypes' /\ MirrorIs'
         /\ \A b \in Bank : mirror_epoch[b] = epoch => mirror'[b] = mirror[b] /\ mirror_epoch'[b] = epoch
         /\ NeedReupload(banks) => banks # {} /\ tlut_last' = [key |-> banks, epoch |-> epoch]
         /\ ~NeedReupload(banks) => tlut_last' = tlut_last
         /\ banks # {} => /\ \A b \in banks : mirror_epoch'[b] = epoch /\ mirror'[b] = palette[b]
                          /\ tlut_last'.epoch = epoch /\ tlut_last'.key = banks
<1>1. /\ epoch \in Nat /\ mirror_epoch \in [Bank -> Nat] /\ \A b \in Bank : mirror_epoch[b] <= epoch
      /\ tlut_last \in [key : SUBSET Bank, epoch : Nat] /\ tlut_last.epoch <= epoch
      /\ \A b \in Bank : mirror_epoch[b] = epoch => mirror[b] = palette[b]
  BY DEF TypeOK, PaletteTypes, MirrorIs
<1>2. CASE NeedReupload(banks)
  <2>1. /\ banks # {}
        /\ mirror' = [b \in Bank |-> IF b \in banks /\ mirror_epoch[b] # epoch
                                     THEN palette[b] ELSE mirror[b]]
        /\ mirror_epoch' = [b \in Bank |-> IF b \in banks THEN epoch ELSE mirror_epoch[b]]
        /\ tlut_last' = [key |-> banks, epoch |-> epoch]
    BY <1>2 DEF Mirrored, NeedReupload
  <2>2. \A b \in Bank : /\ mirror'[b] = IF b \in banks /\ mirror_epoch[b] # epoch
                                        THEN palette[b] ELSE mirror[b]
                        /\ mirror_epoch'[b] = IF b \in banks THEN epoch ELSE mirror_epoch[b]
    BY <2>1
  <2>3. mirror_epoch' \in [Bank -> Nat] /\ \A b \in Bank : mirror_epoch'[b] <= epoch
    BY <1>1, <2>1, <2>2
  <2>4. /\ tlut_last' \in [key : SUBSET Bank, epoch : Nat]
        /\ tlut_last'.epoch = epoch /\ tlut_last'.key = banks
    BY <1>1, <2>1
  <2>5. \A b \in Bank : mirror_epoch'[b] = epoch => mirror'[b] = palette[b]
    BY <1>1, <2>2
  <2>6. PaletteTypes'
    BY <1>1, <2>3, <2>4 DEF PaletteTypes
  <2>7. MirrorIs'
    BY <2>5 DEF MirrorIs
  <2>8. \A b \in banks : mirror_epoch'[b] = epoch /\ mirror'[b] = palette[b]
    BY <2>2, <2>5
  <2> QED BY <1>2, <2>1, <2>2, <2>4, <2>6, <2>7, <2>8
<1>3. CASE ~NeedReupload(banks)
  <2>1. mirror' = mirror /\ mirror_epoch' = mirror_epoch /\ tlut_last' = tlut_last
    BY <1>3 DEF Mirrored, tluts
  <2>2. banks # {} => tlut_last.epoch = epoch /\ tlut_last.key = banks
    BY <1>3 DEF NeedReupload
  <2>3. banks # {} => \A b \in banks : mirror_epoch[b] = epoch /\ mirror[b] = palette[b]
    BY <1>1, <2>2 DEF LoadedLast, Converted
  <2>4. PaletteTypes' /\ MirrorIs'
    BY <2>1 DEF PaletteTypes, MirrorIs
  <2> QED BY <1>3, <2>1, <2>2, <2>3, <2>4
<1> QED BY <1>2, <1>3

\* A bind loads its palette before its polygon, or finds it loaded.
LEMMA BoundLoads ==
  ASSUME TypeOK, Loads, rendering, NEW at \in Nat, NEW addr \in Address, NEW shape \in Shape,
         NEW banks \in SUBSET Bank, NEW decoded \in BOOLEAN, NEW slot \in Slot,
         Bound(at, addr, shape, banks, decoded, slot)
  PROVE  Loads'
<1>0. PICK n, m, draw, last : /\ n = Len(fifo) /\ m = Len(fifo')
                              /\ draw = Draw(at, addr, shape, banks, slot) /\ last = tlut_last'.key
  OBVIOUS
<1>1. /\ n \in Nat /\ m \in Nat /\ n < m /\ DOMAIN fifo = 1 .. n /\ DOMAIN fifo' = 1 .. m
      /\ \A i \in 1 .. n : fifo'[i] = fifo[i]
      /\ fifo'[m] = draw
      /\ \A i \in n + 1 .. m - 1 : fifo'[i].op \in {"tlut", "invalidate"}
      /\ NeedReupload(banks) =>
           /\ n + 1 < m /\ fifo'[n + 1] = LoadTlut(banks)
           /\ \A i \in n + 2 .. m : fifo'[i].op # "tlut"
      /\ ~NeedReupload(banks) => \A i \in n + 1 .. m : fifo'[i].op # "tlut"
  <2>1. fifo' = fifo \o Commands(at, addr, shape, banks, decoded, slot)
    BY DEF Bound
  <2>2. Appended(at, addr, shape, banks, decoded, slot)
    BY <2>1, BoundQueue
  <2> QED BY <1>0, <2>2 DEF Appended
<1>2. /\ UNCHANGED <<palette, rendering, epoch, tlut0>> /\ Mirrored(banks)
  BY DEF Bound, memory, frame
<1>3. /\ PaletteTypes' /\ MirrorIs'
      /\ \A b \in Bank : mirror_epoch[b] = epoch => mirror'[b] = mirror[b] /\ mirror_epoch'[b] = epoch
      /\ NeedReupload(banks) => banks # {} /\ tlut_last' = [key |-> banks, epoch |-> epoch]
      /\ ~NeedReupload(banks) => tlut_last' = tlut_last
      /\ banks # {} => /\ \A b \in banks : mirror_epoch'[b] = epoch /\ mirror'[b] = palette[b]
                       /\ tlut_last'.epoch = epoch /\ tlut_last'.key = banks
  BY <1>2, MirroredIs DEF Loads
<1>4. ASSUME NEW i \in 1 .. n + 1, NEW some \in SUBSET Bank, Loaded(i, some), Converted(some)
      PROVE  Loaded(i, some)' /\ Converted(some)'
  <2>1. \A b \in some : mirror'[b] = mirror[b] /\ mirror_epoch'[b] = epoch
    BY <1>3, <1>4 DEF Converted
  <2>2. i \in Nat /\ \A k \in 1 .. i - 1 : fifo'[k] = fifo[k]
    BY <1>1
  <2>3. Loaded(i, some)'
    BY <1>2, <1>4, <2>1, <2>2, PrefixKeeps
  <2> QED BY <1>2, <2>1, <2>3 DEF Converted
<1>5. tlut_last'.epoch = epoch =>
        Loaded(m, last)' /\ Loaded(m + 1, last)' /\ Converted(last)'
  <2> SUFFICES ASSUME tlut_last'.epoch = epoch
               PROVE  Loaded(m, last)' /\ Loaded(m + 1, last)' /\ Converted(last)'
    OBVIOUS
  <2>1. CASE NeedReupload(banks)
    <3>1. last = banks /\ \A b \in banks : mirror_epoch'[b] = epoch
      BY <1>0, <1>3, <2>1
    <3>2. /\ n + 1 \in 1 .. m - 1 /\ n + 1 \in 1 .. (m + 1) - 1
          /\ fifo'[n + 1].op = "tlut" /\ fifo'[n + 1].banks = banks
          /\ \A k \in n + 1 + 1 .. m - 1 : fifo'[k].op # "tlut"
          /\ \A k \in n + 1 + 1 .. (m + 1) - 1 : fifo'[k].op # "tlut"
      BY <1>1, <2>1 DEF LoadTlut
    <3>3. Loaded(m, last)' /\ Loaded(m + 1, last)'
      BY <3>1, <3>2 DEF Loaded
    <3> QED BY <1>2, <3>1, <3>3 DEF Converted
  <2>2. CASE ~NeedReupload(banks)
    <3>1. tlut_last' = tlut_last /\ tlut_last.epoch = epoch /\ last = tlut_last.key
      BY <1>0, <1>3, <2>2
    <3>2. last \in SUBSET Bank /\ Loaded(n + 1, last) /\ Converted(last)
      BY <1>0, <3>1 DEF Loads, LoadedLast, PaletteTypes
    <3>3. Loaded(n + 1, last)' /\ Converted(last)'
      BY <1>1, <1>4, <3>2
    <3>4. PICK q : q = n + 1
      OBVIOUS
    <3>5. Loaded(q, last)' /\ q \in Nat
      BY <1>1, <3>3, <3>4
    <3>6. \/ \E j \in 1 .. q - 1 : /\ fifo'[j].op = "tlut" /\ fifo'[j].banks = last
                                 /\ \A k \in j + 1 .. q - 1 : fifo'[k].op # "tlut"
          \/ /\ \A k \in 1 .. q - 1 : fifo'[k].op # "tlut"
             /\ tlut0' = [b \in last |-> mirror'[b]]
      BY <3>5, Zenon DEF Loaded
    <3>7. ASSUME NEW at2 \in {m, m + 1} PROVE Loaded(at2, last)'
      <4>1. at2 \in Nat /\ q <= at2 /\ \A k \in q .. at2 - 1 : fifo'[k].op # "tlut"
        BY <1>1, <2>2, <3>4
      <4>2. ASSUME NEW j \in 1 .. q - 1, fifo'[j].op = "tlut", fifo'[j].banks = last,
                   \A k \in j + 1 .. q - 1 : fifo'[k].op # "tlut"
            PROVE  Loaded(at2, last)'
        <5>1. j \in 1 .. at2 - 1 /\ \A k \in j + 1 .. at2 - 1 : fifo'[k].op # "tlut"
          BY <3>5, <4>1, <4>2
        <5> QED BY <4>2, <5>1 DEF Loaded
      <4>3. ASSUME \A k \in 1 .. q - 1 : fifo'[k].op # "tlut",
                   tlut0' = [b \in last |-> mirror'[b]]
            PROVE  Loaded(at2, last)'
        <5>1. \A k \in 1 .. at2 - 1 : fifo'[k].op # "tlut"
          BY <3>5, <4>1, <4>3
        <5> QED BY <4>3, <5>1 DEF Loaded
      <4> QED BY <3>6, <4>2, <4>3, Zenon
    <3> QED BY <3>3, <3>7
  <2> QED BY <2>1, <2>2
<1>6. LoadedLast'
  <2>1. tlut_last'.epoch = epoch =>
          \A K : K = last => Loaded(m + 1, K)' /\ Converted(K)'
    BY <1>5
  <2> QED BY <1>0, <1>2, <2>1 DEF LoadedLast, Loaded, Converted
<1>7. LoadedDraws'
  <2> SUFFICES ASSUME NEW i \in 1 .. m, fifo'[i].op = "draw", fifo'[i].banks # {}
               PROVE  /\ Loaded(i, fifo[i].banks)' /\ Converted(fifo[i].banks)'
                      /\ fifo'[i].colours = [b \in fifo'[i].banks |-> mirror'[b]]
    BY <1>1 DEF LoadedDraws
  <2>1. CASE i \in 1 .. n
    <3>1. fifo'[i] = fifo[i] /\ fifo[i] \in Command /\ fifo[i].op = "draw" /\ fifo[i].banks # {}
      BY <1>0, <1>1, <2>1 DEF TypeOK
    <3>2. /\ Loaded(i, fifo[i].banks) /\ Converted(fifo[i].banks)
          /\ fifo[i].colours = [b \in fifo[i].banks |-> mirror[b]]
      BY <1>1, <2>1, <3>1 DEF Loads, LoadedDraws
    <3>3. fifo[i].banks \in SUBSET Bank
      BY <3>1 DEF Command, Invalidate, SetDrawDone
    <3>4. i \in 1 .. n + 1
      BY <1>1, <2>1
    <3>5. \A K : K = fifo[i].banks => Loaded(i, K)' /\ Converted(K)'
      BY <1>4, <3>2, <3>3, <3>4
    <3>6. Loaded(i, fifo[i].banks)' /\ Converted(fifo[i].banks)'
      BY <3>1, <3>5 DEF Loaded, Converted
    <3>7. \A b \in fifo[i].banks : mirror'[b] = mirror[b]
      BY <1>3, <3>2, <3>3 DEF Converted
    <3>8. [b \in fifo'[i].banks |-> mirror'[b]] = [b \in fifo[i].banks |-> mirror[b]]
      BY <3>1, <3>7
    <3> QED BY <3>1, <3>2, <3>6, <3>8
  <2>2. CASE i \notin 1 .. n
    <3>1. i = m
      BY <1>1, <2>2
    <3>2. fifo'[i] = draw /\ draw.banks = banks /\ draw.colours = [b \in banks |-> palette[b]]
      BY <1>0, <1>1, <3>1 DEF Draw
    <3>3. /\ \A b \in banks : mirror_epoch'[b] = epoch /\ mirror'[b] = palette[b]
          /\ tlut_last'.epoch = epoch /\ tlut_last'.key = banks
      BY <1>3, <3>2
    <3>4. last = banks /\ Loaded(m, last)' /\ Converted(last)'
      BY <1>0, <1>5, <3>3
    <3>5. Loaded(i, fifo[i].banks)' /\ Converted(fifo[i].banks)'
      BY <3>1, <3>2, <3>4 DEF Loaded, Converted
    <3>6. [b \in fifo'[i].banks |-> mirror'[b]] = [b \in banks |-> palette[b]]
      BY <3>2, <3>3
    <3> QED BY <3>2, <3>5, <3>6
  <2> QED BY <2>1, <2>2
<1> QED BY <1>3, <1>6, <1>7 DEF Loads

\* What a bind must show: the textures that wait stay where they are, the texture
\* that is bound is in its place, and so are the lines of TMEM that are still met.
LEMMA BoundSamples ==
  ASSUME IInv, SInv, ~crowded, rendering, NEW at \in Nat, NEW addr \in Address,
         NEW shape \in Shape, NEW banks \in SUBSET Bank, NEW decoded \in BOOLEAN, NEW slot \in Slot,
         Bound(at, addr, shape, banks, decoded, slot), UNCHANGED crowded,
         wrapped => wrapped', reshaped \subseteq reshaped', Named', Kept(at, slot.pixels)',
         fifo = <<>> \/ \A o, pixels : Kept(o, pixels) => Kept(o, pixels)',
         (tmem_cache \/ ~wrapped') /\ ~(decoded /\ tmem_cache) /\ ~Invalidated(Len(fifo) + 1) =>
           /\ at \in DOMAIN tmem => at \in reshaped' \/ tmem[at] = slot.pixels
           /\ \A o \in DOMAIN tmem : Agrees(o)'
  PROVE  SInv'
<1>0. PICK n, m : n = Len(fifo) /\ m = Len(fifo')
  OBVIOUS
<1>1. /\ n \in Nat /\ m \in Nat /\ n < m /\ DOMAIN fifo = 1 .. n /\ DOMAIN fifo' = 1 .. m
      /\ \A i \in 1 .. n : fifo'[i] = fifo[i]
      /\ fifo'[m].op = "draw" /\ fifo'[m].at = at /\ fifo'[m].pixels = slot.pixels
      /\ \A i \in n + 1 .. m - 1 : fifo'[i].op \in {"tlut", "invalidate"}
      /\ decoded /\ tmem_cache => \E i \in n + 1 .. m - 1 : fifo'[i].op = "invalidate"
  <2>1. fifo' = fifo \o Commands(at, addr, shape, banks, decoded, slot) /\ TypeOK
    BY DEF Bound, IInv
  <2>2. Appended(at, addr, shape, banks, decoded, slot)
    BY <2>1, BoundQueue
  <2> QED BY <1>0, <2>2 DEF Appended, Draw
<1>2. UNCHANGED <<tmem, tlut0, torn, tmem_cache>> /\ ~crowded'
  BY DEF Bound
<1>3. Waiting /\ Lines /\ Loads /\ SamplesWhatWasBound /\ TypeOK
  BY DEF SInv, IInv
<1>4. \A i \in 1 .. n : Invalidated(i)' <=> Invalidated(i)
  BY <1>1 DEF Invalidated
<1>5. ASSUME NEW to \in {m, m + 1}, ~Invalidated(to)'
      PROVE  ~(decoded /\ tmem_cache) /\ ~Invalidated(n + 1)
  <2>1. to \in Nat /\ \A i \in 1 .. to - 1 : fifo'[i].op # "invalidate"
    BY <1>1, <1>5 DEF Invalidated
  <2>2. PICK q : q = n + 1
    OBVIOUS
  <2>3. \A i \in 1 .. q - 1 : fifo[i].op # "invalidate"
    BY <1>1, <1>5, <2>1, <2>2
  <2>4. ~Invalidated(q)
    BY <2>3 DEF Invalidated
  <2> QED BY <1>1, <1>5, <2>1, <2>2, <2>4
<1>6. Waiting'
  <2> SUFFICES ASSUME NEW i \in 1 .. m, fifo'[i].op = "draw"
               PROVE  Kept(fifo[i].at, fifo[i].pixels)'
    BY <1>1 DEF Waiting
  <2>1. PICK o, pixels : o = fifo'[i].at /\ pixels = fifo'[i].pixels
    OBVIOUS
  <2>2. CASE i \in 1 .. n
    <3>1. fifo'[i] = fifo[i] /\ i \in DOMAIN fifo /\ fifo # <<>>
      BY <1>1, <2>2
    <3>2. Kept(o, pixels)
      BY <1>3, <2>1, <3>1 DEF Waiting
    <3>3. Kept(o, pixels)'
      BY <3>1, <3>2
    <3> QED BY <2>1, <3>3 DEF Kept
  <2>3. CASE i \notin 1 .. n
    <3>1. i = m
      BY <1>1, <2>3
    <3> QED BY <1>1, <3>1 DEF Kept
  <2> QED BY <2>2, <2>3
<1>7. Lines'
  <2> SUFFICES ASSUME tmem_cache \/ ~wrapped'
               PROVE  /\ \A i \in 1 .. m : fifo'[i].op = "draw" /\ ~Invalidated(i)'
                           /\ fifo'[i].at \in DOMAIN tmem
                             => fifo'[i].at \in reshaped' \/ tmem[fifo'[i].at] = fifo'[i].pixels
                      /\ ~Invalidated(m + 1)' => \A o \in DOMAIN tmem : Agrees(o)'
    <3>1. \A k : k = m + 1 => (Invalidated(k)' <=> Invalidated(Len(fifo) + 1)')
      BY <1>0 DEF Invalidated
    <3> QED BY <1>0, <1>1, <1>2, <3>1 DEF Lines
  <2>1. tmem_cache \/ ~wrapped
    OBVIOUS
  <2>2. ASSUME NEW i \in 1 .. m, fifo'[i].op = "draw", ~Invalidated(i)', fifo'[i].at \in DOMAIN tmem
        PROVE  fifo'[i].at \in reshaped' \/ tmem[fifo'[i].at] = fifo'[i].pixels
    <3>1. CASE i \in 1 .. n
      BY <1>1, <1>3, <1>4, <2>1, <2>2, <3>1 DEF Lines
    <3>2. CASE i \notin 1 .. n
      <4>1. i = m
        BY <1>1, <2>2, <3>2
      <4>2. ~(decoded /\ tmem_cache) /\ ~Invalidated(n + 1)
        BY <1>5, <2>2, <4>1
      <4> QED BY <1>0, <1>1, <2>2, <4>1, <4>2
    <3> QED BY <3>1, <3>2
  <2>3. ASSUME ~Invalidated(m + 1)' PROVE \A o \in DOMAIN tmem : Agrees(o)'
    <3>1. ~(decoded /\ tmem_cache) /\ ~Invalidated(n + 1)
      BY <1>5, <2>3
    <3> QED BY <1>0, <3>1
  <2> QED BY <2>2, <2>3
<1>8. Loads'
  BY <1>3, BoundLoads
<1>9. SamplesWhatWasBound'
  BY <1>2, <1>3 DEF SamplesWhatWasBound
<1> QED BY <1>6, <1>7, <1>8, <1>9 DEF SInv

LEMMA HitSamples ==
  ASSUME IInv, SInv, ~crowded, NEW addr \in Address, NEW shape \in Shape, NEW banks \in SUBSET Bank,
         Hit(addr, shape, banks)
  PROVE  SInv'
<1>1. PICK at, slot : at = map[addr] /\ slot = [arena[at] EXCEPT !.wcheck = epoch]
  OBVIOUS
<1>2. /\ Asked(addr, shape) /\ addr \in DOMAIN map /\ Valid(addr, shape)
      /\ Bound(at, addr, shape, banks, FALSE, slot)
      /\ UNCHANGED <<map, bump, wrapped, crowded, reshaped>>
  BY <1>1 DEF Hit, Placed
<1>3. rendering /\ TypeOK /\ Layout /\ at \in DOMAIN arena /\ at \in Nat
  BY <1>1, <1>2, AskedFor DEF IInv
<1>4. /\ slot \in Slot /\ slot.size = arena[at].size /\ slot.pixels = arena[at].pixels
      /\ slot.addr = arena[at].addr /\ slot.wcheck = epoch /\ at + slot.size <= bump
  BY <1>1, <1>2, <1>3 DEF TypeOK, Slot, Layout
<1>5. arena' = Put(at, slot) /\ UNCHANGED <<epoch, tmem, tmem_cache>>
  BY <1>2 DEF Bound, frame
<1>6. /\ DOMAIN arena' = DOMAIN arena /\ arena'[at] = slot
      /\ \A o \in DOMAIN arena : o # at => arena'[o] = arena[o]
  <2>1. /\ at \in DOMAIN arena' /\ arena'[at] = slot
        /\ \A o \in DOMAIN arena' : o # at => o \in DOMAIN arena /\ arena'[o] = arena[o]
        /\ \A o \in DOMAIN arena : Apart(o, arena[o].size, at, slot.size) =>
             o \in DOMAIN arena' /\ o # at /\ arena'[o] = arena[o]
    BY <1>3, <1>4, <1>5, PutKeeps DEF Layout
  <2>2. \A o \in DOMAIN arena : o # at => o \in DOMAIN arena' /\ arena'[o] = arena[o]
    BY <1>3, <1>4, <2>1 DEF Layout
  <2> QED BY <1>3, <2>1, <2>2
<1>7. \A o \in DOMAIN arena : arena'[o].addr = arena[o].addr /\ arena'[o].pixels = arena[o].pixels
  BY <1>4, <1>6
<1>8. Named'
  BY <1>2, <1>3, <1>7 DEF SInv, Named, Layout
<1>9. Kept(at, slot.pixels)'
  BY <1>2, <1>3, <1>4, <1>5, <1>6 DEF Kept
<1>10. ASSUME NEW o, NEW pixels, Kept(o, pixels) PROVE Kept(o, pixels)'
  <2>1. CASE o = at
    BY <1>2, <1>4, <1>6, <1>9, <1>10, <2>1 DEF Kept
  <2>2. CASE o # at
    BY <1>2, <1>5, <1>6, <1>10, <2>2 DEF Kept
  <2> QED BY <2>1, <2>2
<1>11. (tmem_cache \/ ~wrapped') /\ ~Invalidated(Len(fifo) + 1) =>
           /\ at \in DOMAIN tmem => at \in reshaped \/ tmem[at] = slot.pixels
           /\ \A o \in DOMAIN tmem : Agrees(o)'
  <2> SUFFICES ASSUME tmem_cache \/ ~wrapped', ~Invalidated(Len(fifo) + 1)
               PROVE  /\ at \in DOMAIN tmem => at \in reshaped \/ tmem[at] = slot.pixels
                      /\ \A o \in DOMAIN tmem : Agrees(o)'
    OBVIOUS
  <2>1. \A o \in DOMAIN tmem : Agrees(o)
    BY <1>2 DEF SInv, Lines
  <2>2. CASE tmem_cache
    <3>1. \A o \in DOMAIN tmem : o \in DOMAIN arena => tmem[o] = arena[o].pixels
      BY <2>1, <2>2 DEF Agrees
    <3>2. \A o \in DOMAIN tmem : o \in DOMAIN arena' => tmem[o] = arena'[o].pixels
      BY <1>6, <1>7, <3>1
    <3> QED BY <1>3, <1>4, <1>5, <2>2, <3>1, <3>2 DEF Agrees
  <2>3. CASE ~tmem_cache
    <3>1. \A o \in DOMAIN tmem : \A pixels : pixels = tmem[o] => Kept(o, pixels)
      BY <2>1, <2>3 DEF Agrees
    <3>2. \A o \in DOMAIN tmem : \A pixels : pixels = tmem[o] => Kept(o, pixels)'
      BY <1>10, <3>1
    <3>3. \A o \in DOMAIN tmem : Agrees(o)'
      BY <1>5, <2>3, <3>2 DEF Agrees, Kept
    <3>4. at \in DOMAIN tmem => at \in reshaped \/ tmem[at] = slot.pixels
      BY <1>4, <3>1 DEF Kept
    <3> QED BY <3>3, <3>4
  <2> QED BY <2>2, <2>3
<1>12. fifo = <<>> \/ \A o, pixels : Kept(o, pixels) => Kept(o, pixels)'
  BY <1>10
<1> QED BY <1>2, <1>3, <1>4, <1>8, <1>9, <1>11, <1>12, BoundSamples

\* A texture that is decoded to a place where none of this render is leaves the
\* others alone.
LEMMA FreshSamples ==
  ASSUME IInv, SInv, ~crowded, rendering, NEW at \in Nat, NEW addr \in Address,
         NEW shape \in Shape, NEW banks \in SUBSET Bank, NEW slot \in Slot,
         Bound(at, addr, shape, banks, TRUE, slot), UNCHANGED <<wrapped, crowded, reshaped>>,
         Named', slot.wcheck = epoch, at + slot.size <= bump', bump \in Nat, bump' \in Nat,
         bump <= bump',
         \A o, pixels : Kept(o, pixels) => o # at /\ Apart(o, arena[o].size, at, slot.size)
  PROVE  SInv'
<1>1. arena' = Put(at, slot) /\ UNCHANGED <<epoch, tmem, tmem_cache>> /\ TypeOK
  BY DEF Bound, frame, IInv
<1>2. /\ at \in DOMAIN arena' /\ arena'[at] = slot
      /\ \A o \in DOMAIN arena : Apart(o, arena[o].size, at, slot.size) =>
           o \in DOMAIN arena' /\ o # at /\ arena'[o] = arena[o]
  BY <1>1, PutKeeps DEF IInv, Layout
<1>3. Kept(at, slot.pixels)'
  BY <1>1, <1>2 DEF Kept
<1>4. ASSUME NEW o, NEW pixels, Kept(o, pixels) PROVE Kept(o, pixels)'
  <2>1. o \in DOMAIN arena /\ o \in Nat /\ arena[o].size \in Nat
    BY <1>1, <1>4 DEF Kept, TypeOK, Slot
  <2>2. o \in DOMAIN arena' /\ arena'[o] = arena[o]
    BY <1>2, <1>4, <2>1
  <2> QED BY <1>1, <1>4, <2>1, <2>2 DEF Kept
<1>5. (tmem_cache \/ ~wrapped') /\ ~(TRUE /\ tmem_cache) /\ ~Invalidated(Len(fifo) + 1) =>
        /\ at \in DOMAIN tmem => tmem[at] = slot.pixels
        /\ \A o \in DOMAIN tmem : Agrees(o)'
  <2> SUFFICES ASSUME ~wrapped, ~tmem_cache, ~Invalidated(Len(fifo) + 1)
               PROVE  at \notin DOMAIN tmem /\ \A o \in DOMAIN tmem : Agrees(o)'
    OBVIOUS
  <2>1. \A o \in DOMAIN tmem : Agrees(o)
    BY DEF SInv, Lines
  <2>2. \A o \in DOMAIN tmem : \A pixels : pixels = tmem[o] => Kept(o, pixels)
    BY <2>1 DEF Agrees
  <2>3. \A o \in DOMAIN tmem : \A pixels : pixels = tmem[o] => Kept(o, pixels)'
    BY <1>4, <2>2
  <2>4. \A o \in DOMAIN tmem : Agrees(o)'
    BY <1>1, <2>3 DEF Agrees, Kept
  <2> QED BY <2>2, <2>4
<1>6. fifo = <<>> \/ \A o, pixels : Kept(o, pixels) => Kept(o, pixels)'
  BY <1>4
<1> QED BY <1>3, <1>5, <1>6, BoundSamples

\* A texture that is decoded again in its place, within the render, leaves the others
\* alone too; what waits for it is reshaped.
LEMMA ReshapeSamples ==
  ASSUME IInv, SInv, ~crowded, rendering, NEW at \in DOMAIN arena, at \in Nat,
         NEW addr \in Address, NEW shape \in Shape, NEW banks \in SUBSET Bank, NEW slot \in Slot,
         Bound(at, addr, shape, banks, TRUE, slot), UNCHANGED <<wrapped, crowded, bump>>,
         Named', slot.wcheck = epoch, slot.size = arena[at].size, at + slot.size <= bump,
         reshaped' = reshaped \cup {at}
  PROVE  SInv'
<1>1. arena' = Put(at, slot) /\ UNCHANGED <<epoch, tmem, tmem_cache>> /\ TypeOK /\ Layout
  BY DEF Bound, frame, IInv
<1>2. /\ at \in DOMAIN arena' /\ arena'[at] = slot
      /\ \A o \in DOMAIN arena : Apart(o, arena[o].size, at, slot.size) =>
           o \in DOMAIN arena' /\ o # at /\ arena'[o] = arena[o]
  BY <1>1, PutKeeps DEF IInv, Layout
<1>3. Kept(at, slot.pixels)' /\ \A pixels : Kept(at, pixels)'
  BY <1>1, <1>2 DEF Kept
<1>4. ASSUME NEW o, NEW pixels, Kept(o, pixels) PROVE Kept(o, pixels)'
  <2>1. o \in DOMAIN arena
    BY <1>4 DEF Kept
  <2>2. CASE o = at
    BY <1>3, <2>2 DEF Kept
  <2>3. CASE o # at
    <3>1. o \in DOMAIN arena' /\ arena'[o] = arena[o]
      BY <1>1, <1>2, <2>1, <2>3 DEF Layout
    <3> QED BY <1>1, <1>4, <3>1 DEF Kept
  <2> QED BY <2>2, <2>3
<1>5. (tmem_cache \/ ~wrapped') /\ ~(TRUE /\ tmem_cache) /\ ~Invalidated(Len(fifo) + 1) =>
        /\ at \in DOMAIN tmem => at \in reshaped' \/ tmem[at] = slot.pixels
        /\ \A o \in DOMAIN tmem : Agrees(o)'
  <2> SUFFICES ASSUME ~wrapped, ~tmem_cache, ~Invalidated(Len(fifo) + 1)
               PROVE  \A o \in DOMAIN tmem : Agrees(o)'
    OBVIOUS
  <2>1. \A o \in DOMAIN tmem : Agrees(o)
    BY DEF SInv, Lines
  <2>2. \A o \in DOMAIN tmem : \A pixels : pixels = tmem[o] => Kept(o, pixels)
    BY <2>1 DEF Agrees
  <2>3. \A o \in DOMAIN tmem : \A pixels : pixels = tmem[o] => Kept(o, pixels)'
    BY <1>4, <2>2
  <2> QED BY <1>1, <2>3 DEF Agrees, Kept
<1>6. fifo = <<>> \/ \A o, pixels : Kept(o, pixels) => Kept(o, pixels)'
  BY <1>4
<1> QED BY <1>3, <1>5, <1>6, BoundSamples

LEMMA RedecodeSamples ==
  ASSUME IInv, SInv, ~crowded, NEW addr \in Address, NEW shape \in Shape, NEW banks \in SUBSET Bank,
         Redecode(addr, shape, banks)
  PROVE  SInv'
<1>1. PICK at, slot : at = map[addr] /\ slot = Decoded(arena[at].size, addr, shape)
  OBVIOUS
<1>2. /\ Asked(addr, shape) /\ addr \in DOMAIN map /\ ~Valid(addr, shape)
      /\ Bound(at, addr, shape, banks, TRUE, slot)
      /\ reshaped' = IF arena[at].wcheck = epoch THEN reshaped \cup {at} ELSE reshaped
      /\ UNCHANGED <<map, bump, wrapped, crowded>>
  BY <1>1 DEF Redecode, Placed
<1>3. /\ rendering /\ TypeOK /\ Layout /\ Named /\ at \in DOMAIN arena /\ at \in Nat
      /\ arena[at].size \in Nat \ {0} /\ arena[at].addr = addr
      /\ at + arena[at].size <= bump /\ bump \in Nat
  BY <1>1, <1>2, AskedFor DEF IInv, SInv, Named, Layout, TypeOK
<1>4. /\ slot \in Slot /\ slot.size = arena[at].size /\ slot.addr = addr /\ slot.wcheck = epoch
  BY <1>1, <1>3, DecodedIsCurrent
<1>6. arena' = Put(at, slot)
  BY <1>2 DEF Bound
<1>7. ASSUME NEW o \in DOMAIN arena
      PROVE  arena'[o].addr = arena[o].addr
  <2>1. /\ arena'[at] = slot
        /\ Apart(o, arena[o].size, at, slot.size) => arena'[o] = arena[o]
    BY <1>3, <1>4, <1>6, PutKeeps DEF Layout
  <2>2. CASE o = at
    BY <1>3, <1>4, <2>1, <2>2
  <2>3. CASE o # at
    BY <1>3, <1>4, <2>1, <2>3 DEF Layout
  <2> QED BY <2>2, <2>3
<1>8. Named'
  BY <1>2, <1>3, <1>7 DEF Named, Layout
<1>9. at + slot.size <= bump' /\ bump' \in Nat /\ bump <= bump' /\ UNCHANGED <<wrapped, crowded>>
  BY <1>2, <1>3, <1>4
<1>10. CASE arena[at].wcheck # epoch
  <2>1. \A o, pixels : Kept(o, pixels) => o # at /\ Apart(o, arena[o].size, at, slot.size)
    BY <1>3, <1>4, <1>10 DEF Kept, Layout
  <2>2. UNCHANGED reshaped
    BY <1>2, <1>10
  <2> QED BY <1>2, <1>3, <1>4, <1>8, <1>9, <2>1, <2>2, FreshSamples
<1>11. CASE arena[at].wcheck = epoch
  BY <1>2, <1>3, <1>4, <1>8, <1>9, <1>11, ReshapeSamples
<1> QED BY <1>10, <1>11

LEMMA AllocateSamples ==
  ASSUME IInv, SInv, ~crowded, NEW addr \in Address, NEW shape \in Shape, NEW banks \in SUBSET Bank,
         Allocate(addr, shape, banks)
  PROVE  SInv'
<1>1. PICK at, slot : at = bump /\ slot = Decoded(Size[shape], addr, shape)
  OBVIOUS
<1>2. /\ Asked(addr, shape) /\ bump' = bump + Size[shape]
      /\ map' = [a \in DOMAIN map \cup {addr} |-> IF a = addr THEN at ELSE map[a]]
      /\ Bound(at, addr, shape, banks, TRUE, slot)
      /\ UNCHANGED <<wrapped, crowded, reshaped>>
  BY <1>1 DEF Allocate
<1>3. rendering /\ TypeOK /\ Layout /\ Named /\ at \in Nat /\ bump \in Nat /\ Size[shape] \in Nat \ {0}
  BY <1>1, <1>2, AskedFor, ArenaAssumption DEF IInv, SInv, TypeOK
<1>4. slot \in Slot /\ slot.size = Size[shape] /\ slot.addr = addr /\ slot.wcheck = epoch
  BY <1>1, <1>3, DecodedIsCurrent
<1>5. arena' = Put(at, slot)
  BY <1>2 DEF Bound
<1>6. /\ arena'[at] = slot
      /\ \A o \in DOMAIN arena : Apart(o, arena[o].size, at, slot.size) => arena'[o] = arena[o]
  BY <1>3, <1>4, <1>5, PutKeeps DEF Layout
<1>7. ASSUME NEW a \in DOMAIN map' PROVE arena'[map'[a]].addr = a
  <2>1. CASE a = addr
    BY <1>2, <1>4, <1>6, <2>1
  <2>2. CASE a # addr
    <3>1. a \in DOMAIN map /\ map'[a] = map[a]
      BY <1>2, <1>7, <2>2
    <3>2. map[a] \in DOMAIN arena /\ map[a] + arena[map[a]].size <= at /\ arena[map[a]].addr = a
      BY <1>1, <1>3, <3>1 DEF Layout, Named
    <3> QED BY <1>6, <3>1, <3>2 DEF Apart
  <2> QED BY <2>1, <2>2
<1>8. Named'
  BY <1>7 DEF Named
<1>9. ASSUME NEW o, NEW pixels, Kept(o, pixels)
      PROVE  o # at /\ Apart(o, arena[o].size, at, slot.size)
  <2>1. /\ o \in Nat /\ arena[o].size \in Nat \ {0} /\ o + arena[o].size <= at
    BY <1>1, <1>3, <1>9 DEF Kept, TypeOK, Slot
  <2> QED BY <1>3, <2>1 DEF Apart
<1>10. at + slot.size <= bump' /\ bump' \in Nat /\ bump <= bump'
  BY <1>1, <1>2, <1>3, <1>4
<1> QED BY <1>2, <1>3, <1>4, <1>8, <1>9, <1>10, FreshSamples

LEMMA WrapSamples ==
  ASSUME IInv, SInv, ~crowded, NEW addr \in Address, NEW shape \in Shape, NEW banks \in SUBSET Bank,
         Wrap(addr, shape, banks)
  PROVE  SInv'
<1>1. PICK at, slot : at = 0 /\ slot = Decoded(Size[shape], addr, shape)
  OBVIOUS
<1>2. /\ Asked(addr, shape) /\ bump' = Size[shape] /\ map' = [a \in {addr} |-> at] /\ fifo = <<>>
      /\ Bound(at, addr, shape, banks, TRUE, slot) /\ wrapped' = TRUE
      /\ UNCHANGED <<crowded, reshaped>>
  BY <1>1 DEF Wrap
<1>3. rendering /\ TypeOK /\ Layout /\ at \in Nat /\ Size[shape] \in Nat \ {0}
  BY <1>1, <1>2, AskedFor, ArenaAssumption DEF IInv
<1>4. slot \in Slot /\ slot.size = Size[shape] /\ slot.addr = addr /\ slot.wcheck = epoch
  BY <1>1, <1>3, DecodedIsCurrent
<1>5. arena' = Put(at, slot) /\ UNCHANGED epoch
  BY <1>2 DEF Bound, frame
<1>6. at \in DOMAIN arena' /\ arena'[at] = slot
  BY <1>3, <1>4, <1>5, PutKeeps DEF Layout
<1>7. Named'
  BY <1>2, <1>4, <1>6 DEF Named
<1>8. Kept(at, slot.pixels)'
  BY <1>1, <1>2, <1>3, <1>4, <1>5, <1>6 DEF Kept
<1>9. fifo = <<>> \/ \A o, pixels : Kept(o, pixels) => Kept(o, pixels)'
  BY <1>2
<1>10. ~((tmem_cache \/ ~wrapped') /\ ~(TRUE /\ tmem_cache) /\ ~Invalidated(Len(fifo) + 1))
  BY <1>2
<1>11. (wrapped => wrapped') /\ reshaped \subseteq reshaped'
  BY <1>2
<1> QED BY <1>2, <1>3, <1>4, <1>7, <1>8, <1>9, <1>10, <1>11, BoundSamples

LEMMA CrowdSamples ==
  ASSUME SInv, ~crowded, NEW addr \in Address, NEW shape \in Shape, Crowd(addr, shape)
  PROVE  SInv'
<1>1. crowded' = TRUE /\ UNCHANGED <<torn, wrapped, reshaped, tmem_cache>>
  BY DEF Crowd, gp
<1> QED BY <1>1 DEF SInv, SamplesWhatWasBound

-----------------------------------------------------------------------------
(* What each step does to the samples: the graphics processor              *)

LEMMA PoppedLoads ==
  ASSUME TypeOK, Loads, NEW op, Next_command(op),
         UNCHANGED <<palette, rendering, epoch, mirror, mirror_epoch, tlut_last>>,
         op = "tlut" => tlut0' = [b \in fifo[1].banks |-> mirror[b]],
         op # "tlut" => tlut0' = tlut0
  PROVE  Loads'
<1>0. PICK n : n = Len(fifo)
  OBVIOUS
<1>1. /\ n \in Nat \ {0} /\ Len(fifo') = n - 1 /\ fifo[1].op = op
      /\ DOMAIN fifo = 1 .. n /\ DOMAIN fifo' = 1 .. n - 1
      /\ \A i \in 1 .. n - 1 : fifo'[i] = fifo[i + 1]
  <2>1. fifo \in Seq(Command)
    BY DEF TypeOK
  <2>2. /\ fifo' \in Seq(Command)
        /\ Len(fifo) \in Nat \ {0} /\ Len(fifo') = Len(fifo) - 1
        /\ \A i \in DOMAIN fifo' : i + 1 \in DOMAIN fifo /\ fifo'[i] = fifo[i + 1]
        /\ fifo[1].op = op
    BY <2>1, Popped
  <2>3. DOMAIN fifo = 1 .. n /\ DOMAIN fifo' = 1 .. n - 1
    BY <1>0, <2>1, <2>2
  <2> QED BY <1>0, <2>2, <2>3
<1>2. ASSUME NEW i \in 1 .. n, NEW later, later = i + 1, NEW banks, Loaded(later, banks)
      PROVE  Loaded(i, banks)'
  <2>1. ASSUME NEW at \in 1 .. later - 1, fifo[at].op = "tlut", fifo[at].banks = banks,
               \A k \in at + 1 .. later - 1 : fifo[k].op # "tlut"
        PROVE  Loaded(i, banks)'
    <3>1. CASE at = 1
      <4>1. \A k \in 1 .. i - 1 : fifo'[k] = fifo[k + 1] /\ k + 1 \in at + 1 .. later - 1
        BY <1>1, <1>2, <3>1
      <4>2. \A k \in 1 .. i - 1 : fifo'[k].op # "tlut"
        BY <2>1, <4>1
      <4>3. tlut0' = [b \in banks |-> mirror'[b]]
        BY <1>1, <2>1, <3>1
      <4> QED BY <4>2, <4>3 DEF Loaded
    <3>2. CASE at # 1
      <4>0. PICK before : before = at - 1
        OBVIOUS
      <4>1. /\ before \in 1 .. i - 1 /\ fifo'[before] = fifo[at]
            /\ \A k \in before + 1 .. i - 1 : fifo'[k] = fifo[k + 1] /\ k + 1 \in at + 1 .. later - 1
        BY <1>1, <1>2, <3>2, <4>0
      <4>2. /\ fifo'[before].op = "tlut" /\ fifo'[before].banks = banks
            /\ \A k \in before + 1 .. i - 1 : fifo'[k].op # "tlut"
        BY <2>1, <4>1
      <4> QED BY <4>1, <4>2 DEF Loaded
    <3> QED BY <3>1, <3>2
  <2>2. ASSUME \A k \in 1 .. later - 1 : fifo[k].op # "tlut", tlut0 = [b \in banks |-> mirror[b]]
        PROVE  Loaded(i, banks)'
    <3>1. \A k \in 1 .. i - 1 : fifo'[k] = fifo[k + 1] /\ k + 1 \in 1 .. later - 1
      BY <1>1, <1>2
    <3>2. \A k \in 1 .. i - 1 : fifo'[k].op # "tlut"
      BY <2>2, <3>1
    <3>3. 1 \in 1 .. later - 1
      BY <1>1, <1>2
    <3>4. tlut0' = [b \in banks |-> mirror'[b]]
      BY <1>1, <2>2, <3>3
    <3> QED BY <3>2, <3>4 DEF Loaded
  <2>3. \/ \E j \in 1 .. later - 1 : /\ fifo[j].op = "tlut" /\ fifo[j].banks = banks
                                     /\ \A k \in j + 1 .. later - 1 : fifo[k].op # "tlut"
        \/ /\ \A k \in 1 .. later - 1 : fifo[k].op # "tlut"
           /\ tlut0 = [b \in banks |-> mirror[b]]
    BY <1>2, Zenon DEF Loaded
  <2> QED BY <2>1, <2>2, <2>3, Zenon
<1>3. PaletteTypes' /\ MirrorIs'
  BY DEF Loads, PaletteTypes, MirrorIs
<1>4. LoadedDraws'
  <2> SUFFICES ASSUME NEW i \in 1 .. n - 1, fifo'[i].op = "draw", fifo'[i].banks # {}
               PROVE  /\ Loaded(i, fifo[i].banks)' /\ Converted(fifo[i].banks)'
                      /\ fifo'[i].colours = [b \in fifo'[i].banks |-> mirror'[b]]
    BY <1>1 DEF LoadedDraws
  <2>1. PICK later, banks : later = i + 1 /\ banks = fifo'[i].banks
    OBVIOUS
  <2>2. i \in 1 .. n /\ later \in DOMAIN fifo /\ fifo'[i] = fifo[later]
    BY <1>1, <2>1
  <2>3. /\ Loaded(later, banks) /\ Converted(banks)
        /\ fifo'[i].colours = [b \in banks |-> mirror[b]]
    BY <2>1, <2>2 DEF Loads, LoadedDraws
  <2>4. Loaded(i, banks)' /\ Converted(banks)'
    BY <1>2, <2>1, <2>2, <2>3 DEF Converted
  <2> QED BY <2>1, <2>3, <2>4 DEF Loaded, Converted
<1>5. LoadedLast'
  <2> SUFFICES ASSUME tlut_last.epoch = epoch
               PROVE  (Loaded(Len(fifo) + 1, tlut_last.key) /\ Converted(tlut_last.key))'
    BY DEF LoadedLast
  <2>1. PICK later, key : later = n + 1 /\ key = tlut_last.key
    OBVIOUS
  <2>2. n \in 1 .. n /\ Loaded(later, key) /\ Converted(key)
    BY <1>0, <1>1, <2>1 DEF Loads, LoadedLast
  <2>3. Loaded(n, key)' /\ Converted(key)'
    BY <1>2, <2>1, <2>2 DEF Converted
  <2>4. Len(fifo') + 1 = n
    BY <1>1
  <2> QED BY <2>1, <2>3, <2>4 DEF Loaded, Converted
<1> QED BY <1>3, <1>4, <1>5 DEF Loads

\* What is sampled for the polygon at the head of the queue
LEMMA HeadIsSampled ==
  ASSUME TypeOK, Waiting, Lines, Loads, fifo # <<>>, fifo[1].op = "draw"
  PROVE  /\ Kept(fifo[1].at, fifo[1].pixels)
         /\ tmem_cache \/ ~wrapped
              => fifo[1].at \in reshaped \/ Sampled(fifo[1].at) = fifo[1].pixels
         /\ fifo[1].banks # {} => tlut0 = fifo[1].colours
<1>1. 1 \in DOMAIN fifo /\ ~Invalidated(1)
  BY DEF TypeOK, Invalidated
<1>2. Kept(fifo[1].at, fifo[1].pixels)
  BY <1>1 DEF Waiting
<1>3. tmem_cache \/ ~wrapped => fifo[1].at \in reshaped \/ Sampled(fifo[1].at) = fifo[1].pixels
  BY <1>1, <1>2 DEF Lines, Sampled, Bytes, Kept
<1>4. ASSUME fifo[1].banks # {} PROVE tlut0 = fifo[1].colours
  <2>1. PICK first, banks : first = 1 /\ banks = fifo[1].banks
    OBVIOUS
  <2>2. Loaded(first, banks) /\ fifo[1].colours = [b \in banks |-> mirror[b]]
    BY <1>1, <1>4, <2>1 DEF Loads, LoadedDraws
  <2>3. \A j : j \notin 1 .. first - 1
    BY <2>1
  <2>4. tlut0 = [b \in banks |-> mirror[b]]
    BY <2>2, <2>3, Zenon DEF Loaded
  <2> QED BY <2>2, <2>4
<1> QED BY <1>2, <1>3, <1>4

\* What is before a command that waits was before it when the head was there too.
LEMMA PoppedInvalidated ==
  ASSUME TypeOK, NEW op, Next_command(op), op # "invalidate",
         NEW n \in 1 .. Len(fifo), ~Invalidated(n)'
  PROVE  ~Invalidated(n + 1)
<1>1. PICK m : m = n + 1
  OBVIOUS
<1>2. fifo \in Seq(Command)
  BY DEF TypeOK
<1>3. /\ Len(fifo) \in Nat \ {0} /\ Len(fifo') = Len(fifo) - 1 /\ fifo' \in Seq(Command)
      /\ \A i \in DOMAIN fifo' : i + 1 \in DOMAIN fifo /\ fifo'[i] = fifo[i + 1]
      /\ fifo[1].op = op
  BY <1>2, Popped
<1>4. \A i \in 1 .. n - 1 : fifo'[i].op # "invalidate" /\ fifo'[i] = fifo[i + 1]
  <2>1. \A i \in 1 .. n - 1 : fifo'[i].op # "invalidate"
    BY DEF Invalidated
  <2>2. \A i \in 1 .. n - 1 : i \in DOMAIN fifo'
    BY <1>3
  <2> QED BY <1>3, <2>1, <2>2
<1>5. ASSUME NEW i \in 1 .. m - 1 PROVE fifo[i].op # "invalidate"
  <2>1. CASE i = 1
    BY <1>3, <2>1
  <2>2. CASE i # 1
    <3>1. i - 1 \in 1 .. n - 1 /\ (i - 1) + 1 = i
      BY <1>1, <1>3, <1>5, <2>2
    <3>2. \A before : before = i - 1 => fifo[before + 1].op # "invalidate"
      BY <1>4, <3>1
    <3> QED BY <3>1, <3>2
  <2> QED BY <2>1, <2>2
<1> QED BY <1>1, <1>5 DEF Invalidated

\* A step of the processor: what it leaves in TMEM
LEMMA PoppedSamples ==
  ASSUME IInv, SInv, ~crowded, NEW op, Next_command(op),
         UNCHANGED <<arena, map, bump, epoch, rendering, palette, wrapped, crowded, reshaped,
                     mirror, mirror_epoch, tlut_last, tmem_cache>>,
         op = "tlut" => tlut0' = [b \in fifo[1].banks |-> mirror[b]],
         op # "tlut" => tlut0' = tlut0,
         SamplesWhatWasBound',
         \/ op = "invalidate" /\ DOMAIN tmem' = {}
         \/ op # "invalidate"
            /\ \A o \in DOMAIN tmem' :
                 \/ o \in DOMAIN tmem /\ tmem'[o] = tmem[o]
                 \/ o \in DOMAIN arena /\ tmem'[o] = arena[o].pixels /\ Kept(o, arena[o].pixels)
  PROVE  SInv'
<1>0. PICK n : n = Len(fifo)
  OBVIOUS
<1>1. /\ n \in Nat \ {0} /\ Len(fifo') = n - 1 /\ fifo[1].op = op
      /\ DOMAIN fifo = 1 .. n /\ DOMAIN fifo' = 1 .. n - 1
      /\ \A i \in 1 .. n - 1 : i + 1 \in 1 .. n /\ fifo'[i] = fifo[i + 1]
  <2>1. fifo \in Seq(Command)
    BY DEF IInv, TypeOK
  <2>2. /\ fifo' \in Seq(Command)
        /\ Len(fifo) \in Nat \ {0} /\ Len(fifo') = Len(fifo) - 1
        /\ \A i \in DOMAIN fifo' : i + 1 \in DOMAIN fifo /\ fifo'[i] = fifo[i + 1]
        /\ fifo[1].op = op
    BY <2>1, Popped
  <2>3. DOMAIN fifo = 1 .. n /\ DOMAIN fifo' = 1 .. n - 1
    BY <1>0, <2>1, <2>2
  <2> QED BY <1>0, <2>2, <2>3
<1>2. TypeOK /\ Named /\ Waiting /\ Lines /\ Loads
  BY DEF IInv, SInv
<1>3. Named' /\ Loads'
  BY <1>2, PoppedLoads DEF Named
<1>4. \A o, pixels : Kept(o, pixels)' <=> Kept(o, pixels)
  BY DEF Kept
<1>5. Waiting'
  <2> SUFFICES ASSUME NEW i \in 1 .. n - 1, fifo'[i].op = "draw"
               PROVE  Kept(fifo[i].at, fifo[i].pixels)'
    BY <1>1 DEF Waiting
  <2>1. PICK o, pixels : o = fifo'[i].at /\ pixels = fifo'[i].pixels
    OBVIOUS
  <2>2. Kept(o, pixels)
    BY <1>1, <1>2, <2>1 DEF Waiting
  <2> QED BY <1>4, <2>1, <2>2 DEF Kept
<1>6. Lines'
  <2> SUFFICES ASSUME tmem_cache \/ ~wrapped
               PROVE  /\ \A i \in 1 .. n - 1 : fifo'[i].op = "draw" /\ ~Invalidated(i)'
                           /\ fifo'[i].at \in DOMAIN tmem'
                             => fifo'[i].at \in reshaped \/ tmem'[fifo'[i].at] = fifo'[i].pixels
                      /\ ~Invalidated(n)' => \A o \in DOMAIN tmem' : Agrees(o)'
    <3>1. Len(fifo') + 1 = n
      BY <1>1
    <3>2. Invalidated(n)' <=> Invalidated(Len(fifo) + 1)'
      BY <3>1 DEF Invalidated
    <3> QED BY <1>1, <3>2 DEF Lines
  <2>1. CASE op = "invalidate"
    BY <2>1
  <2>2. CASE op # "invalidate"
    <3>1. ASSUME NEW i \in 1 .. n - 1, fifo'[i].op = "draw", ~Invalidated(i)',
                 fifo'[i].at \in DOMAIN tmem'
          PROVE  fifo'[i].at \in reshaped \/ tmem'[fifo'[i].at] = fifo'[i].pixels
      <4>1. i \in 1 .. Len(fifo) /\ i + 1 \in DOMAIN fifo /\ fifo'[i] = fifo[i + 1]
        BY <1>0, <1>1
      <4>2. ~Invalidated(i + 1)
        BY <1>2, <2>2, <3>1, <4>1, PoppedInvalidated
      <4>3. PICK o : o = fifo'[i].at
        OBVIOUS
      <4>4. /\ o \in DOMAIN tmem => o \in reshaped \/ tmem[o] = fifo'[i].pixels
            /\ Kept(o, fifo'[i].pixels)
        BY <1>2, <3>1, <4>1, <4>2, <4>3 DEF Lines, Waiting
      <4> QED BY <2>2, <3>1, <4>3, <4>4 DEF Kept
    <3>2. ASSUME ~Invalidated(n)', NEW o \in DOMAIN tmem'
          PROVE  Agrees(o)'
      <4>1. n \in 1 .. Len(fifo)
        BY <1>0, <1>1
      <4>2. ~Invalidated(n + 1)
        BY <1>2, <2>2, <3>2, <4>1, PoppedInvalidated
      <4>3. \A o2 \in DOMAIN tmem : Agrees(o2)
        BY <1>0, <1>2, <4>2 DEF Lines
      <4>4. CASE o \in DOMAIN tmem /\ tmem'[o] = tmem[o]
        BY <4>3, <4>4 DEF Agrees, Kept
      <4>5. CASE o \in DOMAIN arena /\ tmem'[o] = arena[o].pixels /\ Kept(o, arena[o].pixels)
        BY <4>5 DEF Agrees, Kept
      <4> QED BY <2>2, <3>2, <4>4, <4>5
    <3> QED BY <3>1, <3>2
  <2> QED BY <2>1, <2>2
<1> QED BY <1>3, <1>5, <1>6 DEF SInv

LEMMA GpSamples ==
  ASSUME IInv, SInv, ~crowded, GpDraw \/ GpTlut \/ GpInvalidate \/ GpDone
  PROVE  SInv'
<1>1. UNCHANGED <<arena, map, bump, epoch, rendering, palette, wrapped, crowded, reshaped,
                  mirror, mirror_epoch, tlut_last, tmem_cache>>
  BY DEF GpDraw, GpTlut, GpInvalidate, GpDone, memory, cache, frame, tluts
<1>2. /\ TypeOK /\ Waiting /\ Lines /\ Loads /\ SamplesWhatWasBound
      /\ \A op : Next_command(op) => fifo # <<>> /\ Head(fifo) = fifo[1] /\ fifo[1].op = op
  BY DEF IInv, SInv, Next_command, TypeOK
<1>3. CASE GpDraw
  <2>1. /\ Next_command("draw") /\ tlut0' = tlut0
        /\ tmem' = [o \in DOMAIN tmem \cup {fifo[1].at} |->
                      IF o = fifo[1].at THEN Sampled(o) ELSE tmem[o]]
        /\ torn' = [textures |-> IF Sampled(fifo[1].at) = fifo[1].pixels THEN torn.textures
                                 ELSE torn.textures \cup {fifo[1].at},
                    palette |-> torn.palette \/ (fifo[1].banks # {} /\ tlut0 # fifo[1].colours)]
    BY <1>2, <1>3 DEF GpDraw
  <2>2. /\ Kept(fifo[1].at, fifo[1].pixels)
        /\ tmem_cache \/ ~wrapped => fifo[1].at \in reshaped \/ Sampled(fifo[1].at) = fifo[1].pixels
        /\ fifo[1].banks # {} => tlut0 = fifo[1].colours
    BY <1>2, <2>1, HeadIsSampled
  <2>3. SamplesWhatWasBound'
    BY <1>1, <1>2, <2>1, <2>2 DEF SamplesWhatWasBound
  <2>4. ASSUME NEW o \in DOMAIN tmem'
        PROVE  \/ o \in DOMAIN tmem /\ tmem'[o] = tmem[o]
               \/ o \in DOMAIN arena /\ tmem'[o] = arena[o].pixels /\ Kept(o, arena[o].pixels)
    BY <2>1, <2>2, <2>4 DEF Sampled, Bytes, Kept
  <2> QED BY <1>1, <2>1, <2>3, <2>4, PoppedSamples
<1>4. CASE GpTlut
  <2>1. /\ Next_command("tlut") /\ tlut0' = [b \in fifo[1].banks |-> mirror[b]]
        /\ UNCHANGED <<tmem, torn>>
    BY <1>2, <1>4 DEF GpTlut
  <2>2. SamplesWhatWasBound'
    BY <1>1, <1>2, <2>1 DEF SamplesWhatWasBound
  <2> QED BY <1>1, <2>1, <2>2, PoppedSamples
<1>5. CASE GpInvalidate
  <2>1. Next_command("invalidate") /\ tmem' = <<>> /\ UNCHANGED <<tlut0, torn>>
    BY <1>5 DEF GpInvalidate
  <2>2. SamplesWhatWasBound' /\ DOMAIN tmem' = {}
    BY <1>1, <1>2, <2>1 DEF SamplesWhatWasBound
  <2> QED BY <1>1, <2>1, <2>2, PoppedSamples
<1>6. CASE GpDone
  <2>1. Next_command("done") /\ UNCHANGED <<tmem, tlut0, torn>>
    BY <1>6 DEF GpDone
  <2>2. SamplesWhatWasBound'
    BY <1>1, <1>2, <2>1 DEF SamplesWhatWasBound
  <2> QED BY <1>1, <2>1, <2>2, PoppedSamples
<1> QED BY <1>3, <1>4, <1>5, <1>6

-----------------------------------------------------------------------------
(* What each step does to the samples: the guest and the renders           *)

\* A step that touches nothing the processor reads
LEMMA QuietSamples ==
  ASSUME SInv, UNCHANGED <<fifo, tmem, tlut0, arena, map, bump, epoch, mirror, mirror_epoch,
                           tlut_last, wrapped, crowded, reshaped, torn, tmem_cache>>,
         rendering' => rendering /\ UNCHANGED palette
  PROVE  SInv'
<1>1. SamplesWhatWasBound'
  BY DEF SInv, SamplesWhatWasBound
<1>2. ASSUME ~crowded PROVE Named' /\ Waiting' /\ Lines' /\ Loads'
  <2>1. Named' /\ Waiting'
    BY <1>2 DEF SInv, Named, Waiting, Kept
  <2>2. Lines'
    BY <1>2 DEF SInv, Lines, Agrees, Kept, Invalidated
  <2>3. PaletteTypes' /\ MirrorIs'
    BY <1>2 DEF SInv, Loads, PaletteTypes, MirrorIs
  <2>4. LoadedDraws' /\ LoadedLast'
    BY <1>2 DEF SInv, Loads, LoadedDraws, LoadedLast, Loaded, Converted
  <2> QED BY <2>1, <2>2, <2>3, <2>4 DEF Loads
<1> QED BY <1>1, <1>2 DEF SInv

LEMMA StartRenderSamples ==
  ASSUME IInv, SInv, ~crowded, StartRender
  PROVE  SInv'
<1>1. /\ torn' = NothingTorn /\ epoch' = epoch + 1
      /\ fifo' = IF tmem_cache THEN fifo ELSE Append(fifo, Invalidate)
      /\ UNCHANGED <<map, arena, tmem, tlut0, mirror, mirror_epoch, tlut_last, tmem_cache>>
  BY DEF StartRender, tluts
<1>2. fifo = <<>>
  BY DEF StartRender, IInv, Queue
<1>3. Named /\ Lines /\ Loads /\ epoch \in Nat
  BY DEF SInv, IInv, TypeOK
<1>4. \/ tmem_cache /\ fifo' = <<>> /\ Len(fifo') = 0
      \/ ~tmem_cache /\ Len(fifo') = 1 /\ fifo'[1].op = "invalidate"
  BY <1>1, <1>2 DEF Invalidate
<1>5. \A i \in DOMAIN fifo' : fifo'[i].op # "draw"
  BY <1>1, <1>2 DEF Invalidate
<1>6. Named' /\ Waiting' /\ SamplesWhatWasBound'
  BY <1>1, <1>3, <1>5 DEF Named, Waiting, SamplesWhatWasBound, NothingTorn
<1>7. ~Invalidated(Len(fifo) + 1)' => \A o \in DOMAIN tmem : Agrees(o)'
  <2>1. CASE tmem_cache
    <3>1. ~Invalidated(Len(fifo) + 1)
      BY <1>2 DEF Invalidated
    <3>2. \A o \in DOMAIN tmem : Agrees(o)
      BY <1>3, <2>1, <3>1 DEF Lines
    <3> QED BY <1>1, <2>1, <3>2 DEF Agrees
  <2>2. CASE ~tmem_cache
    <3>1. Len(fifo') = 1 /\ fifo'[1].op = "invalidate" /\ 1 \in 1 .. (Len(fifo') + 1) - 1
      BY <1>4, <2>2
    <3>2. Invalidated(Len(fifo) + 1)'
      BY <3>1 DEF Invalidated
    <3> QED BY <3>2
  <2> QED BY <2>1, <2>2
<1>8. Lines'
  BY <1>1, <1>5, <1>7 DEF Lines
<1>9. PaletteTypes' /\ tlut_last'.epoch # epoch' /\ \A b \in Bank : mirror_epoch'[b] # epoch'
  BY <1>1, <1>3 DEF Loads, PaletteTypes
<1>10. Loads'
  BY <1>5, <1>9 DEF Loads, LoadedDraws, LoadedLast, MirrorIs
<1> QED BY <1>6, <1>8, <1>10 DEF SInv

LEMMA EndAsyncSamples ==
  ASSUME IInv, SInv, ~crowded, EndAsync
  PROVE  SInv'
<1>0. PICK n : n = Len(fifo)
  OBVIOUS
<1>1. /\ fifo' = Append(fifo, SetDrawDone) /\ rendering' = FALSE
      /\ UNCHANGED <<map, arena, bump, epoch, tmem, tlut0, mirror, mirror_epoch, tlut_last,
                     tmem_cache, torn, wrapped, crowded, reshaped>>
  BY DEF EndAsync, FrameReset, tluts
<1>2. fifo \in Seq(Command) /\ SetDrawDone \in Command /\ SetDrawDone.op = "done"
  BY DEF IInv, TypeOK, Command, SetDrawDone
<1>3. /\ n \in Nat /\ Len(fifo') = n + 1 /\ DOMAIN fifo' = 1 .. n + 1 /\ DOMAIN fifo = 1 .. n
      /\ \A i \in 1 .. n : fifo'[i] = fifo[i]
      /\ fifo'[n + 1].op = "done"
  <2>1. /\ Len(fifo') = Len(fifo) + 1
        /\ DOMAIN fifo' = 1 .. Len(fifo) + 1 /\ DOMAIN fifo = 1 .. Len(fifo)
        /\ \A i \in DOMAIN fifo : fifo'[i] = fifo[i]
        /\ fifo'[Len(fifo) + 1] = SetDrawDone
    BY <1>1, <1>2, Pushed
  <2> QED BY <1>0, <1>2, <2>1
<1>4. Named /\ Waiting /\ Lines /\ Loads
  BY DEF SInv
<1>5. Named' /\ SamplesWhatWasBound'
  BY <1>1, <1>4 DEF SInv, Named, SamplesWhatWasBound
<1>6. Waiting'
  <2>1. \A i \in DOMAIN fifo' : fifo'[i].op = "draw" => i \in DOMAIN fifo /\ fifo'[i] = fifo[i]
    BY <1>3
  <2> QED BY <1>1, <1>4, <2>1 DEF Waiting, Kept
<1>7. \A i \in 1 .. n + 1 : ~Invalidated(i)' => ~Invalidated(i)
  BY <1>3 DEF Invalidated
<1>8. Lines'
  <2>1. ASSUME tmem_cache \/ ~wrapped, NEW i \in 1 .. n + 1, fifo'[i].op = "draw", ~Invalidated(i)',
               fifo'[i].at \in DOMAIN tmem
        PROVE  fifo'[i].at \in reshaped' \/ tmem[fifo'[i].at] = fifo'[i].pixels
    <3>1. i \in DOMAIN fifo /\ fifo'[i] = fifo[i] /\ ~Invalidated(i)
      BY <1>3, <1>7, <2>1
    <3> QED BY <1>1, <1>4, <2>1, <3>1 DEF Lines
  <2>2. ASSUME tmem_cache \/ ~wrapped, ~Invalidated(Len(fifo) + 1)'
        PROVE  \A o \in DOMAIN tmem : Agrees(o)'
    <3>1. \A i \in 1 .. (Len(fifo') + 1) - 1 : fifo'[i].op # "invalidate"
      BY <2>2 DEF Invalidated
    <3>2. \A i \in 1 .. (Len(fifo) + 1) - 1 : fifo[i].op # "invalidate"
      BY <1>0, <1>3, <3>1
    <3>3. ~Invalidated(Len(fifo) + 1)
      BY <3>2 DEF Invalidated
    <3>4. \A o \in DOMAIN tmem : Agrees(o)
      BY <1>4, <2>2, <3>3 DEF Lines
    <3> QED BY <1>1, <3>4 DEF Agrees, Kept
  <2> QED BY <1>1, <1>3, <2>1, <2>2 DEF Lines
<1>9. PaletteTypes' /\ MirrorIs'
  BY <1>1, <1>4 DEF Loads, PaletteTypes, MirrorIs
<1>10. ASSUME NEW i \in 1 .. n + 1, NEW banks, Loaded(i, banks) PROVE Loaded(i, banks)'
  <2>1. i \in Nat /\ \A k \in 1 .. i - 1 : fifo'[k] = fifo[k]
    BY <1>3
  <2> QED BY <1>1, <1>10, <2>1, PrefixKeeps
<1>11. LoadedDraws'
  <2> SUFFICES ASSUME NEW i \in 1 .. n + 1, fifo'[i].op = "draw", fifo'[i].banks # {}
               PROVE  /\ Loaded(i, fifo[i].banks)' /\ Converted(fifo[i].banks)'
                      /\ fifo'[i].colours = [b \in fifo'[i].banks |-> mirror'[b]]
    BY <1>3 DEF LoadedDraws
  <2>1. PICK banks : banks = fifo'[i].banks
    OBVIOUS
  <2>2. i \in DOMAIN fifo /\ fifo'[i] = fifo[i]
    BY <1>3
  <2>3. Loaded(i, banks) /\ Converted(banks) /\ fifo'[i].colours = [b \in banks |-> mirror[b]]
    BY <1>4, <2>1, <2>2 DEF Loads, LoadedDraws
  <2>4. Loaded(i, banks)' /\ Converted(banks)'
    BY <1>1, <1>10, <2>3 DEF Converted
  <2> QED BY <1>1, <2>1, <2>3, <2>4 DEF Loaded, Converted
<1>12. LoadedLast'
  <2> SUFFICES ASSUME tlut_last.epoch = epoch
               PROVE  (Loaded(Len(fifo) + 1, tlut_last.key) /\ Converted(tlut_last.key))'
    BY <1>1 DEF LoadedLast
  <2>1. PICK q, key : q = n + 1 /\ key = tlut_last.key
    OBVIOUS
  <2>2. Loaded(q, key) /\ Converted(key) /\ q \in 1 .. n + 1
    BY <1>0, <1>3, <1>4, <2>1 DEF Loads, LoadedLast
  <2>3. Loaded(q, key)' /\ Converted(key)'
    BY <1>1, <1>10, <2>2 DEF Converted
  <2>4. PICK last : last = q + 1
    OBVIOUS
  <2>5. Loaded(last, key)'
    <3>1. fifo'[q].op # "tlut" /\ q \in Nat
      BY <1>3, <2>1
    <3>2. \/ \E j \in 1 .. q - 1 : /\ fifo'[j].op = "tlut" /\ fifo'[j].banks = key
                                   /\ \A k \in j + 1 .. q - 1 : fifo'[k].op # "tlut"
          \/ /\ \A k \in 1 .. q - 1 : fifo'[k].op # "tlut"
             /\ tlut0' = [b \in key |-> mirror'[b]]
      BY <2>3, Zenon DEF Loaded
    <3>3. ASSUME NEW at \in 1 .. q - 1, fifo'[at].op = "tlut", fifo'[at].banks = key,
                 \A k \in at + 1 .. q - 1 : fifo'[k].op # "tlut"
          PROVE  Loaded(last, key)'
      <4>1. at \in 1 .. last - 1 /\ \A k \in at + 1 .. last - 1 : fifo'[k].op # "tlut"
        BY <2>4, <3>1, <3>3
      <4> QED BY <3>3, <4>1 DEF Loaded
    <3>4. ASSUME \A k \in 1 .. q - 1 : fifo'[k].op # "tlut", tlut0' = [b \in key |-> mirror'[b]]
          PROVE  Loaded(last, key)'
      <4>1. \A k \in 1 .. last - 1 : fifo'[k].op # "tlut"
        BY <2>4, <3>1, <3>4
      <4> QED BY <3>4, <4>1 DEF Loaded
    <3> QED BY <3>2, <3>3, <3>4, Zenon
  <2>6. Len(fifo') + 1 = last
    BY <1>3, <2>1, <2>4
  <2> QED BY <1>1, <2>1, <2>3, <2>5, <2>6 DEF Loaded, Converted
<1> QED BY <1>5, <1>6, <1>8, <1>9, <1>11, <1>12 DEF SInv, Loads

-----------------------------------------------------------------------------

LEMMA InitSamples == Init => SInv
<1> SUFFICES ASSUME Init PROVE SInv
  OBVIOUS
<1>1. /\ map = <<>> /\ fifo = <<>> /\ tmem = <<>> /\ epoch = 1 /\ rendering = FALSE
      /\ torn = NothingTorn
      /\ mirror_epoch = [b \in Bank |-> 0] /\ tlut_last = [key |-> {}, epoch |-> 0]
      /\ DOMAIN map = {} /\ DOMAIN fifo = {} /\ DOMAIN tmem = {}
  BY DEF Init
<1>2. Named /\ Waiting /\ Lines /\ SamplesWhatWasBound
  BY <1>1 DEF Named, Waiting, Lines, SamplesWhatWasBound, NothingTorn
<1>3. Loads
  BY <1>1 DEF Loads, PaletteTypes, LoadedDraws, LoadedLast, MirrorIs
<1> QED BY <1>2, <1>3 DEF SInv

LEMMA NextSamples == IInv /\ SInv /\ [Next]_vars => SInv'
<1> SUFFICES ASSUME IInv, SInv, [Next]_vars PROVE SInv'
  OBVIOUS
<1>1. ASSUME ~crowded, NEW addr \in Address, NEW shape \in Shape, NEW banks \in Palettes[shape],
             \/ Hit(addr, shape, banks) \/ Redecode(addr, shape, banks)
             \/ Allocate(addr, shape, banks) \/ Wrap(addr, shape, banks)
      PROVE  SInv'
  <2>1. banks \in SUBSET Bank
    BY PaletteAssumption
  <2> QED BY <1>1, <2>1, HitSamples, RedecodeSamples, AllocateSamples, WrapSamples
<1>2. ASSUME NEW pages, NEW page, NEW part, NEW word, NEW bank, NEW colour,
             \/ Write(pages, part, word) \/ EndTexture(pages, word) \/ Store(page, part, word)
             \/ WritePalette(bank, colour) \/ EndSync \/ DropFrame \/ VBlank \/ UNCHANGED vars
      PROVE  SInv'
  <2>1. /\ UNCHANGED <<fifo, tmem, tlut0, arena, map, bump, epoch, mirror, mirror_epoch,
                       tlut_last, wrapped, crowded, reshaped, torn, tmem_cache>>
        /\ rendering' => rendering /\ UNCHANGED palette
    <3>1. CASE Write(pages, part, word) \/ Store(page, part, word) \/ WritePalette(bank, colour)
      BY <3>1 DEF Write, Store, WritePalette, GuestWrites, cache, tluts, frame, gp
    <3>2. CASE EndTexture(pages, word) \/ EndSync
      BY <3>2 DEF EndTexture, EndSync, FrameReset, cache, tluts
    <3>3. CASE DropFrame \/ VBlank
      BY <3>3 DEF DropFrame, VBlank, FrameReset, memory, cache, tluts, frame, gp
    <3>4. CASE UNCHANGED vars
      BY <3>4 DEF vars, memory, cache, tluts, frame, gp
    <3> QED BY <1>2, <3>1, <3>2, <3>3, <3>4
  <2> QED BY <2>1, QuietSamples
<1>3. ASSUME Next PROVE SInv'
  <2>1. ~crowded /\ Step
    BY <1>3 DEF Next
  <2> QED
    BY <2>1, <1>1, <1>2, CrowdSamples, StartRenderSamples, EndAsyncSamples, GpSamples DEF Step
<1> QED BY <1>2, <1>3

LEMMA SamplesInvariance == Spec => []SInv
<1>1. Init => IInv /\ SInv
  BY InitEstablishes, InitSamples
<1>2. (IInv /\ SInv) /\ [Next]_vars => (IInv /\ SInv)'
  BY NextPreserves, NextSamples
<1> QED BY <1>1, <1>2, PTL DEF Spec

\* For any textures, sizes and palettes and any length of the queue, what the
\* graphics processor samples when it comes to a polygon is the texture and the
\* palette that were bound for it.  Two cases are left out, for the texture and not
\* for the palette: its address was asked for with a second shape in the render and
\* decoded again in its place, and the arena started over in the render with
\* TMEM_CACHE off.
THEOREM TexturesAreSampledAsBound == Spec => []SamplesWhatWasBound
<1>1. SInv => SamplesWhatWasBound
  BY DEF SInv
<1> QED BY <1>1, SamplesInvariance, PTL
=============================================================================
