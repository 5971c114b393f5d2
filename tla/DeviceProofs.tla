---------------------------- MODULE DeviceProofs ----------------------------
(***************************************************************************)
(* Proofs about GdRom and Timeslice, for any guest programs, presets,      *)
(* sizes, delays and register values.                                      *)
(*                                                                         *)
(* GdRom: the types; what DRQ and BSY promise, and that a polite guest     *)
(* meets no verify(); that a read arrives in order, whichever way it is    *)
(* moved; and that a play is heard as it was asked for.  For each, one     *)
(* part of the invariant GdInv and one lemma that every step keeps it.     *)
(*                                                                         *)
(* Timeslice: a busy bit has its end on the way, and an interrupt raised   *)
(* is owed.  Both rest on TsInv: every count and every deadline that is    *)
(* still to come is owed its interrupt.  And the timer: what it shows      *)
(* after any number of cycles, in closed form, is what counting them one   *)
(* by one shows, and what the bulk update shows.                           *)
(***************************************************************************)
EXTENDS GdRom, Timeslice, WellFoundedInduction, TLAPS

-----------------------------------------------------------------------------
(* Arithmetic                                                              *)

\* The remainder is the only r with a = n * q + r in range.
LEMMA Remainder ==
  ASSUME NEW n \in Nat \ {0}, NEW q \in Int, NEW r \in 0 .. n - 1
  PROVE  (n * q + r) % n = r
  BY SMT

\* The remainder goes up by one and back to 0.
LEMMA NextMod ==
  ASSUME NEW n \in Nat, NEW len \in Nat \ {0}
  PROVE  /\ n % len \in Nat /\ (n % len) < len
         /\ n < len => n % len = n
         /\ (n + 1) % len = IF (n % len) + 1 = len THEN 0 ELSE (n % len) + 1
<1> DEFINE q == n \div len
           r == n % len
<1>1. q \in Int /\ r \in Nat /\ r < len
  OBVIOUS
<1>2. n = len * q + r
  OBVIOUS
<1>3. n < len => r = n
  OBVIOUS
<1> HIDE DEF q, r
<1>4. CASE r + 1 = len
  <2>1. n + 1 = len * (q + 1) + 0
    BY <1>1, <1>2, <1>4
  <2>2. (n + 1) % len = 0
    <3>1. q + 1 \in Int /\ 0 \in 0 .. len - 1
      BY <1>1
    <3>2. (len * (q + 1) + 0) % len = 0
      BY <3>1, Remainder
    <3> QED BY <2>1, <3>2
  <2> QED BY <1>1, <1>3, <1>4, <2>2 DEF r
<1>5. CASE r + 1 # len
  <2>1. n + 1 = len * q + (r + 1) /\ r + 1 \in 0 .. len - 1
    BY <1>1, <1>2, <1>5
  <2>2. (n + 1) % len = r + 1
    BY <1>1, <2>1, Remainder
  <2> QED BY <1>1, <1>3, <1>5, <2>2 DEF r
<1> QED BY <1>4, <1>5

\* The quotient is the only q with n = len * q + r.
LEMMA Quotient ==
  ASSUME NEW n \in Nat \ {0}, NEW q \in Int, NEW r \in 0 .. n - 1
  PROVE  (n * q + r) \div n = q
  BY SMT

\* The quotient goes up when the remainder goes back to 0.
LEMMA NextDiv ==
  ASSUME NEW n \in Nat, NEW len \in Nat \ {0}
  PROVE  /\ n \div len \in Nat
         /\ (n + 1) \div len = IF (n % len) + 1 = len THEN n \div len + 1 ELSE n \div len
<1> DEFINE q == n \div len
           r == n % len
<1>1. q \in Nat /\ r \in Nat /\ r < len
  OBVIOUS
<1>2. n = len * q + r
  OBVIOUS
<1> HIDE DEF q, r
<1>3. CASE r + 1 = len
  <2>1. n + 1 = len * (q + 1) + 0
    BY <1>1, <1>2, <1>3
  <2>2. q + 1 \in Int /\ 0 \in 0 .. len - 1
    BY <1>1
  <2>3. (len * (q + 1) + 0) \div len = q + 1
    BY <2>2, Quotient
  <2> QED BY <1>1, <1>3, <2>1, <2>3 DEF q, r
<1>4. CASE r + 1 # len
  <2>1. n + 1 = len * q + (r + 1) /\ r + 1 \in 0 .. len - 1
    BY <1>1, <1>2, <1>4
  <2>2. (n + 1) \div len = q
    BY <1>1, <2>1, Quotient
  <2> QED BY <1>1, <1>4, <2>2 DEF q, r
<1> QED BY <1>3, <1>4

\* A set of naturals that is not empty has a least element.
LEMMA Least ==
  ASSUME NEW T, T \subseteq Nat, T # {}
  PROVE  \E n \in T : \A m \in T : n <= m
<1>1. PICK n \in T : \A m \in T : ~ (<<m, n>> \in OpToRel(<, Nat))
  BY NatLessThanWellFounded, WFMin
<1>2. ASSUME NEW m \in T
      PROVE  n <= m
  <2>1. ~(m < n)
    BY <1>1 DEF OpToRel
  <2> QED BY <2>1
<1> QED BY <1>2

-----------------------------------------------------------------------------
(* GdRom: the operators                                                    *)

DriveState == {"waitcmd", "procata", "waitpacket", "pio_send", "pio_get", "readsector_dma"}
AfterBlock == {"waitcmd", "pio_end", "readsector_pio", "process_set_mode"}
Units == Nat \cup {NoData}
Block == [unit : Units, left : Nat, next : AfterBlock]
Drive ==
  [state : DriveState, DRDY : BOOLEAN, BSY : BOOLEAN, DRQ : BOOLEAN, CHECK : BOOLEAN,
   CoD : BOOLEAN, IO : BOOLEAN, packet : Nat, pio : Block,
   start : Nat, remaining : Nat, cache : [unit : Nat, left : Nat]]
DmaRegisters == [en : BOOLEAN, st : BOOLEAN, len : Nat, done : Nat]
ReadOfDisc == [base : Nat, ask : Nat, got : Nat, ok : BOOLEAN]
PlayOfDisc ==
  [start : Nat, len : Nat \ {0}, total : Nat, n : Nat, ok : BOOLEAN, on : BOOLEAN, ahead : BOOLEAN]

GdTypeOK ==
  /\ game \in Games
  /\ gd \in Drive /\ dma \in DmaRegisters /\ s_gd_budget \in Nat
  /\ INTRQ \in BOOLEAN /\ endPending \in BOOLEAN /\ dmaIRQ \in BOOLEAN /\ hung \in BOOLEAN
  /\ host \in ReadOfDisc
  /\ audio \in Audio /\ heard \in PlayOfDisc
  /\ dma.done <= DmaLen(dma)

SameRead(d, e) == e.start = d.start /\ e.remaining = d.remaining /\ e.cache = d.cache

\* gds_procpacketdone leaves the read where it is, and DRQ down.
LEMMA ProcPacketDoneIs ==
  ASSUME NEW d \in Drive
  PROVE  /\ ProcPacketDone(d) \in Drive
         /\ ProcPacketDone(d).state = "waitcmd"
         /\ ~ProcPacketDone(d).DRQ
         /\ SameRead(d, ProcPacketDone(d))
BY DEF ProcPacketDone, Waitcmd, Drive, DriveState, SameRead

\* A transfer of n bytes waits in its state with DRQ up; an empty one is over.
LEMMA PioIs ==
  ASSUME NEW d \in Drive, NEW s \in {"pio_send", "pio_get"}, NEW u \in Units, NEW n \in Nat,
         NEW next \in AfterBlock
  PROVE  /\ Pio(d, s, u, n, next) \in Drive
         /\ SameRead(d, Pio(d, s, u, n, next))
         /\ n = 0 => Pio(d, s, u, n, next).state = "waitcmd" /\ ~Pio(d, s, u, n, next).DRQ
         /\ n > 0 => /\ Pio(d, s, u, n, next).state = s
                     /\ Pio(d, s, u, n, next).DRQ
                     /\ Pio(d, s, u, n, next).pio = [unit |-> u, left |-> n \div 2, next |-> next]
<1>1. CASE n = 0
  BY <1>1, ProcPacketDoneIs DEF Pio
<1>2. CASE n > 0
  <2> DEFINE e == [d EXCEPT !.state = s, !.IO = TRUE, !.CoD = FALSE, !.DRQ = TRUE,
                            !.BSY = FALSE, !.pio = [unit |-> u, left |-> n \div 2, next |-> next]]
  <2> n \div 2 \in Nat
    OBVIOUS
  <2>1. Pio(d, s, u, n, next) = e
    BY <1>2 DEF Pio
  <2>2. e \in Drive
    BY DEF Drive, DriveState, Block
  <2>3. /\ SameRead(d, e) /\ e.state = s /\ e.DRQ
        /\ e.pio = [unit |-> u, left |-> n \div 2, next |-> next]
    BY DEF Drive, SameRead
  <2> QED BY <1>2, <2>1, <2>2, <2>3
<1> QED BY <1>1, <1>2

\* The smaller of two naturals.
LEMMA SmallerIs ==
  ASSUME NEW a \in Nat, NEW b \in Nat
  PROVE  /\ Smaller(a, b) \in Nat /\ Smaller(a, b) <= a /\ Smaller(a, b) <= b
         /\ Smaller(a, b) = a \/ Smaller(a, b) = b
BY DEF Smaller

\* Whole sectors count as sectors do.
LEMMA Sectors ==
  /\ \A m \in Nat : m * SectorSize \in Nat
  /\ \A m \in Nat : m * SectorSize = 0 <=> m = 0
  /\ \A m, n \in Nat : (m + n) * SectorSize = m * SectorSize + n * SectorSize
  /\ \A m, n \in Nat : m <= n => (n - m) * SectorSize = n * SectorSize - m * SectorSize
  /\ \A m, n \in Nat : m <= n => m * SectorSize <= n * SectorSize
BY DriveAssumption

\* A block of n words is one of 2n bytes.
LEMMA Doubled ==
  \A n \in Nat : 2 * n \in Nat /\ (2 * n) \div 2 = n /\ (n = 0 <=> 2 * n = 0)
OBVIOUS

\* gds_readsector_pio takes at most MaxPio sectors off the read.
LEMMA ReadsectorPioIs ==
  ASSUME NEW d \in Drive
  PROVE  LET e == ReadsectorPio(d)
             n == Smaller(d.remaining, MaxPio)
         IN /\ e \in Drive
            /\ e.start = d.start + n /\ e.remaining = d.remaining - n /\ e.cache = d.cache
            /\ d.remaining = 0 => e.state = "waitcmd" /\ ~e.DRQ
            /\ d.remaining > 0 =>
                 /\ e.state = "pio_send" /\ e.DRQ
                 /\ e.pio = [unit |-> d.start * SectorSize, left |-> n * SectorSize,
                             next |-> IF d.remaining > MaxPio THEN "readsector_pio" ELSE "pio_end"]
                 /\ n > 0 /\ n * SectorSize > 0
<1> DEFINE n == Smaller(d.remaining, MaxPio)
           r == [d EXCEPT !.start = @ + n, !.remaining = @ - n]
           next == IF d.remaining > MaxPio THEN "readsector_pio" ELSE "pio_end"
           e == Pio(r, "pio_send", d.start * SectorSize, 2 * (n * SectorSize), next)
<1>1. d.remaining \in Nat /\ d.start \in Nat /\ MaxPio \in Nat \ {0}
  BY DriveAssumption DEF Drive
<1>2. n \in Nat /\ n <= d.remaining /\ (n = 0 <=> d.remaining = 0)
  BY <1>1 DEF Smaller
<1>3. d.start * SectorSize \in Nat /\ n * SectorSize \in Nat /\ (n * SectorSize = 0 <=> n = 0)
  BY <1>1, <1>2, Sectors
<1>4. r \in Drive /\ r.start = d.start + n /\ r.remaining = d.remaining - n /\ r.cache = d.cache
  <2> HIDE DEF n
  <2>1. d.start + n \in Nat /\ d.remaining - n \in Nat
    BY <1>1, <1>2
  <2> QED BY <2>1 DEF Drive
<1>5. next \in AfterBlock /\ d.start * SectorSize \in Units
  BY <1>3 DEF AfterBlock, Units
<1> HIDE DEF r, next, n
<1>6. /\ e \in Drive /\ SameRead(r, e)
      /\ n * SectorSize = 0 => e.state = "waitcmd" /\ ~e.DRQ
      /\ n * SectorSize > 0 => /\ e.state = "pio_send" /\ e.DRQ
                               /\ e.pio = [unit |-> d.start * SectorSize, left |-> n * SectorSize,
                                           next |-> next]
  <2> DEFINE bytes == 2 * (n * SectorSize)
  <2>1. /\ bytes \in Nat /\ bytes \div 2 = n * SectorSize
        /\ (n * SectorSize = 0 => bytes = 0) /\ (n * SectorSize > 0 => bytes > 0)
    BY <1>3, Doubled
  <2> HIDE DEF bytes
  <2>2. e = Pio(r, "pio_send", d.start * SectorSize, bytes, next)
    BY DEF bytes
  <2> HIDE DEF e
  <2> QED BY <1>4, <1>5, <2>1, <2>2, PioIs
<1>7. ReadsectorPio(d) = e
  BY DEF ReadsectorPio, r, next, n
<1> HIDE DEF e
<1>8. /\ e \in Drive
      /\ e.start = d.start + n /\ e.remaining = d.remaining - n /\ e.cache = d.cache
      /\ d.remaining = 0 => e.state = "waitcmd" /\ ~e.DRQ
      /\ d.remaining > 0 =>
           /\ e.state = "pio_send" /\ e.DRQ
           /\ e.pio = [unit |-> d.start * SectorSize, left |-> n * SectorSize, next |-> next]
           /\ n > 0 /\ n * SectorSize > 0
  BY <1>1, <1>2, <1>3, <1>4, <1>6 DEF SameRead
<1> QED BY <1>7, <1>8 DEF n, next

\* FillReadBuffer takes at most MaxFill sectors off the read into the buffer.
LEMMA FillReadBufferIs ==
  ASSUME NEW d \in Drive
  PROVE  LET e == FillReadBuffer(d)
             n == Smaller(d.remaining, MaxFill)
         IN /\ e \in Drive
            /\ e.state = d.state /\ e.pio = d.pio /\ e.DRQ = d.DRQ /\ e.BSY = d.BSY
            /\ e.start = d.start + n /\ e.remaining = d.remaining - n
            /\ e.cache = [unit |-> d.start * SectorSize, left |-> n * SectorSize]
<1> DEFINE n == Smaller(d.remaining, MaxFill)
           c == [unit |-> d.start * SectorSize, left |-> n * SectorSize]
           e == [d EXCEPT !.cache = c, !.start = @ + n, !.remaining = @ - n]
<1>1. d.remaining \in Nat /\ d.start \in Nat /\ MaxFill \in Nat \ {0}
  BY DriveAssumption DEF Drive
<1>2. n \in Nat /\ n <= d.remaining
  BY <1>1, SmallerIs
<1>3. d.start * SectorSize \in Nat /\ n * SectorSize \in Nat
  BY <1>1, <1>2, Sectors
<1>4. FillReadBuffer(d) = e
  BY DEF FillReadBuffer
<1> HIDE DEF n
<1>5. d.start + n \in Nat /\ d.remaining - n \in Nat /\ c \in [unit : Nat, left : Nat]
  BY <1>1, <1>2, <1>3
<1> HIDE DEF c
<1>6. /\ e \in Drive
      /\ e.state = d.state /\ e.pio = d.pio /\ e.DRQ = d.DRQ /\ e.BSY = d.BSY
      /\ e.start = d.start + n /\ e.remaining = d.remaining - n /\ e.cache = c
  BY <1>5 DEF Drive
<1> HIDE DEF e
<1> QED BY <1>4, <1>6 DEF n, c

DmaReadAt(d, h) ==
  /\ h.ok
  /\ d.cache.unit = h.base + h.got
  /\ d.start * SectorSize = d.cache.unit + d.cache.left
  /\ h.got + d.cache.left + d.remaining * SectorSize = h.ask

PioReadAt(d, h) ==
  /\ h.ok
  /\ d.pio.unit = h.base + h.got
  /\ d.cache.left = 0
  /\ \/ /\ d.pio.next = "pio_end" /\ d.remaining = 0
        /\ h.got + d.pio.left = h.ask
     \/ /\ d.pio.next = "readsector_pio" /\ d.remaining > 0 /\ game.lengths = {}
        /\ d.start * SectorSize = d.pio.unit + d.pio.left
        /\ h.got + d.pio.left + d.remaining * SectorSize = h.ask

\* A DMA read starts with its first sectors in the buffer.
LEMMA CdReadIs ==
  ASSUME NEW d \in Drive, NEW start \in Nat, NEW count \in Nat
  PROVE  LET e == CdRead(d, start, count, TRUE)
             h == ReadAsked(start, count)
         IN /\ e \in Drive /\ e.state = "readsector_dma" /\ e.DRQ = d.DRQ /\ e.BSY = d.BSY
            /\ h \in ReadOfDisc
            /\ DmaReadAt(e, h)
<1> DEFINE r == [d EXCEPT !.start = start, !.remaining = count]
           f == FillReadBuffer(r)
           n == Smaller(count, MaxFill)
           e == [f EXCEPT !.state = "readsector_dma"]
           h == ReadAsked(start, count)
<1>1. r \in Drive /\ r.start = start /\ r.remaining = count /\ r.DRQ = d.DRQ /\ r.BSY = d.BSY
  BY DEF Drive
<1> HIDE DEF r
<1>2. /\ f \in Drive /\ f.DRQ = d.DRQ /\ f.BSY = d.BSY
      /\ f.start = start + n /\ f.remaining = count - n
      /\ f.cache = [unit |-> start * SectorSize, left |-> n * SectorSize]
  BY <1>1, FillReadBufferIs
<1> HIDE DEF f
<1>3. /\ e \in Drive /\ e.DRQ = d.DRQ /\ e.BSY = d.BSY /\ e.state = "readsector_dma"
      /\ e.start = start + n /\ e.remaining = count - n
      /\ e.cache.unit = start * SectorSize /\ e.cache.left = n * SectorSize
  <2> HIDE DEF n
  <2> QED BY <1>2 DEF Drive, DriveState
<1>4. n \in Nat /\ n <= count
  BY DriveAssumption DEF Smaller
<1>5. /\ start * SectorSize \in Nat /\ count * SectorSize \in Nat
      /\ (start + n) * SectorSize = start * SectorSize + n * SectorSize
      /\ (count - n) * SectorSize = count * SectorSize - n * SectorSize
      /\ n * SectorSize \in Nat
  <2> HIDE DEF n
  <2> QED BY <1>4, Sectors
<1>6. /\ h \in ReadOfDisc /\ h.base = start * SectorSize /\ h.ask = count * SectorSize
      /\ h.got = 0 /\ h.ok
  BY <1>5 DEF ReadAsked, ReadOfDisc
<1> HIDE DEF e, h, n
<1>7. DmaReadAt(e, h)
  BY <1>3, <1>5, <1>6 DEF DmaReadAt
<1>8. CdRead(d, start, count, TRUE) = e
  BY DEF CdRead, e, f, r
<1> QED BY <1>3, <1>6, <1>7, <1>8 DEF h

\* What reaches the guest in the right place leaves the read in order.
LEMMA DeliveredIs ==
  ASSUME NEW h \in ReadOfDisc, NEW u \in Nat, NEW n \in Nat
  PROVE  /\ Delivered(h, u, n) \in ReadOfDisc
         /\ Delivered(h, u, n).base = h.base /\ Delivered(h, u, n).ask = h.ask
         /\ Delivered(h, u, n).got = h.got + n
         /\ n = 0 => Delivered(h, u, n) = h
<1>1. CASE n = 0
  BY <1>1 DEF Delivered, ReadOfDisc
<1>2. CASE n # 0
  <2> DEFINE b == h.ok /\ u = h.base + h.got /\ h.got + n <= h.ask
  <2>1. Delivered(h, u, n) = [h EXCEPT !.got = @ + n, !.ok = b]
    BY <1>2 DEF Delivered, ReadOfDisc
  <2>2. b \in BOOLEAN /\ h.got + n \in Nat
    BY DEF ReadOfDisc
  <2> HIDE DEF b
  <2> QED BY <1>2, <2>1, <2>2 DEF ReadOfDisc
<1> QED BY <1>1, <1>2

\* What is delivered from the right unit, within what was asked, is right.
LEMMA DeliveredOk ==
  ASSUME NEW h \in ReadOfDisc, NEW u \in Nat, NEW n \in Nat,
         h.ok, u = h.base + h.got, h.got + n <= h.ask
  PROVE  Delivered(h, u, n).ok
<1>1. CASE n = 0
  BY <1>1 DEF Delivered
<1>2. CASE n # 0
  BY <1>2 DEF Delivered, ReadOfDisc
<1> QED BY <1>1, <1>2

\* One UpdateGDRom's worth of the disc: the read stays in order.
LEMMA CopiedIs ==
  ASSUME gd \in Drive, host \in ReadOfDisc, NEW len \in Nat
  PROVE  LET c == Copied(len)
         IN /\ c.gd \in Drive /\ c.host \in ReadOfDisc
            /\ c.moved \in Nat /\ c.moved <= len
            /\ c.gd.state = gd.state /\ c.gd.pio = gd.pio
            /\ c.gd.DRQ = gd.DRQ /\ c.gd.BSY = gd.BSY
            /\ DmaReadAt(gd, host) => DmaReadAt(c.gd, c.host)
            /\ Drained(gd) => c.gd = gd /\ c.host = host
<1> DEFINE first == Smaller(len, gd.cache.left)
           refill == len > gd.cache.left /\ gd.remaining > 0
           kept == [unit |-> gd.cache.unit + first, left |-> gd.cache.left - first]
           d == IF refill THEN FillReadBuffer(gd)
                ELSE [gd EXCEPT !.cache = [unit |-> @.unit + first, left |-> @.left - first]]
           second == IF refill THEN Smaller(len - first, d.cache.left) ELSE 0
           left == [unit |-> d.cache.unit + second, left |-> d.cache.left - second]
           e == [d EXCEPT !.cache = [unit |-> @.unit + second, left |-> @.left - second]]
           g == Delivered(host, gd.cache.unit, first)
           h == Delivered(g, d.cache.unit, second)
<1>1. Copied(len) = [gd |-> e, moved |-> first + second, host |-> h]
  BY DEF Copied
<1>2. /\ gd.cache.left \in Nat /\ gd.cache.unit \in Nat /\ gd.remaining \in Nat /\ gd.start \in Nat
      /\ gd.cache \in [unit : Nat, left : Nat]
  BY DEF Drive
<1>3. first \in Nat /\ first <= len /\ first <= gd.cache.left
      /\ (len > gd.cache.left => first = gd.cache.left)
  BY <1>2 DEF Smaller
<1>4. /\ d \in Drive
      /\ d.state = gd.state /\ d.pio = gd.pio /\ d.DRQ = gd.DRQ /\ d.BSY = gd.BSY
      /\ refill => LET n == Smaller(gd.remaining, MaxFill)
                   IN /\ d.start = gd.start + n /\ d.remaining = gd.remaining - n
                      /\ d.cache.unit = gd.start * SectorSize /\ d.cache.left = n * SectorSize
      /\ ~refill => /\ d.start = gd.start /\ d.remaining = gd.remaining
                    /\ d.cache = kept
  <2>1. CASE refill
    <3>1. d = FillReadBuffer(gd)
      BY <2>1
    <3> HIDE DEF d, refill
    <3> DEFINE n == Smaller(gd.remaining, MaxFill)
    <3>2. /\ d \in Drive
          /\ d.state = gd.state /\ d.pio = gd.pio /\ d.DRQ = gd.DRQ /\ d.BSY = gd.BSY
          /\ d.start = gd.start + n /\ d.remaining = gd.remaining - n
          /\ d.cache = [unit |-> gd.start * SectorSize, left |-> n * SectorSize]
      BY <3>1, FillReadBufferIs
    <3> QED BY <2>1, <3>2
  <2>2. CASE ~refill
    <3>1. kept \in [unit : Nat, left : Nat]
      <4> HIDE DEF first
      <4> QED BY <1>2, <1>3
    <3>2. d = [gd EXCEPT !.cache = kept]
      BY <2>2
    <3> HIDE DEF d, kept
    <3> QED BY <2>2, <3>1, <3>2 DEF Drive
  <2> QED BY <2>1, <2>2
<1>5. d.cache.left \in Nat /\ d.cache.unit \in Nat /\ d.cache \in [unit : Nat, left : Nat]
  BY <1>4 DEF Drive
<1> HIDE DEF d, kept
<1>6. len - first \in Nat
  <2> HIDE DEF first
  <2> QED BY <1>3
<1>7. second \in Nat /\ second <= d.cache.left /\ (~refill => second = 0)
  <2> HIDE DEF first
  <2> QED BY <1>5, <1>6 DEF Smaller
<1> HIDE DEF second
<1>8. left \in [unit : Nat, left : Nat]
  BY <1>5, <1>7
<1>9. e = [d EXCEPT !.cache = left]
  BY <1>4 DEF Drive
<1>10. left.unit = d.cache.unit + second /\ left.left = d.cache.left - second
  OBVIOUS
<1> HIDE DEF left, e
<1>11. /\ e \in Drive
       /\ e.state = gd.state /\ e.pio = gd.pio /\ e.DRQ = gd.DRQ /\ e.BSY = gd.BSY
       /\ e.start = d.start /\ e.remaining = d.remaining /\ e.cache = left
  BY <1>4, <1>8, <1>9 DEF Drive
<1> HIDE DEF first
<1>12. /\ g \in ReadOfDisc /\ g.base = host.base /\ g.ask = host.ask /\ g.got = host.got + first
       /\ first = 0 => g = host
  BY <1>2, <1>3, DeliveredIs
<1> HIDE DEF g
<1>13. /\ h \in ReadOfDisc /\ h.base = g.base /\ h.ask = g.ask /\ h.got = g.got + second
       /\ second = 0 => h = g
  BY <1>5, <1>7, <1>12, DeliveredIs
<1> HIDE DEF h
<1>14. ASSUME DmaReadAt(gd, host) PROVE DmaReadAt(e, h)
  <2>1. /\ host.ok /\ gd.cache.unit = host.base + host.got
        /\ gd.start * SectorSize = gd.cache.unit + gd.cache.left
        /\ host.got + gd.cache.left + gd.remaining * SectorSize = host.ask
    BY <1>14 DEF DmaReadAt
  <2>2. host.got \in Nat /\ host.base \in Nat /\ host.ask \in Nat
    BY DEF ReadOfDisc
  <2>3. gd.remaining * SectorSize \in Nat /\ gd.start * SectorSize \in Nat
    BY <1>2, Sectors
  <2>4. CASE refill
    <3> DEFINE n == Smaller(gd.remaining, MaxFill)
    <3>1. n \in Nat /\ n <= gd.remaining
      BY <1>2, DriveAssumption DEF Smaller
    <3>2. /\ d.start = gd.start + n /\ d.remaining = gd.remaining - n
          /\ d.cache.unit = gd.start * SectorSize /\ d.cache.left = n * SectorSize
      BY <1>4, <2>4
    <3> HIDE DEF n
    <3>3. /\ (gd.start + n) * SectorSize = gd.start * SectorSize + n * SectorSize
          /\ (gd.remaining - n) * SectorSize = gd.remaining * SectorSize - n * SectorSize
          /\ n * SectorSize \in Nat /\ n * SectorSize <= gd.remaining * SectorSize
      BY <1>2, <3>1, Sectors
    <3>4. first = gd.cache.left
      BY <1>3, <2>4
    <3> DEFINE s == gd.start * SectorSize
               r == gd.remaining * SectorSize
               m == n * SectorSize
    <3>5. /\ d.start * SectorSize = s + m /\ d.remaining * SectorSize = r - m
          /\ s \in Nat /\ r \in Nat /\ m \in Nat /\ m <= r
          /\ d.cache.unit = s /\ d.cache.left = m
          /\ s = gd.cache.unit + gd.cache.left
          /\ host.got + gd.cache.left + r = host.ask
      BY <2>1, <2>3, <3>2, <3>3
    <3> HIDE DEF s, r, m
    <3>6. g.ok
      <4>1. host.got + first <= host.ask
        BY <1>2, <2>2, <3>4, <3>5
      <4> QED BY <1>2, <1>3, <2>1, <4>1, DeliveredOk DEF g
    <3>7. h.ok
      <4>1. d.cache.unit = g.base + g.got /\ g.got + second <= g.ask
        BY <1>2, <1>7, <1>12, <2>1, <2>2, <3>4, <3>5
      <4> QED BY <1>5, <1>7, <1>12, <3>6, <4>1, DeliveredOk DEF h
    <3> QED BY <1>2, <1>7, <1>10, <1>11, <1>12, <1>13, <2>1, <2>2, <3>4, <3>5, <3>7 DEF DmaReadAt
  <2>5. CASE ~refill
    <3>1. /\ d.start = gd.start /\ d.remaining = gd.remaining
          /\ d.cache.unit = gd.cache.unit + first /\ d.cache.left = gd.cache.left - first
      BY <1>4, <2>5 DEF kept
    <3>2. second = 0 /\ h = g
      BY <1>7, <1>13, <2>5
    <3> DEFINE s == gd.start * SectorSize
               r == gd.remaining * SectorSize
    <3>3. /\ d.start * SectorSize = s /\ d.remaining * SectorSize = r
          /\ s \in Nat /\ r \in Nat
          /\ s = gd.cache.unit + gd.cache.left
          /\ host.got + gd.cache.left + r = host.ask
      BY <2>1, <2>3, <3>1
    <3> HIDE DEF s, r
    <3>4. g.ok
      <4>1. host.got + first <= host.ask
        BY <1>2, <1>3, <2>2, <3>3
      <4> QED BY <1>2, <1>3, <2>1, <4>1, DeliveredOk DEF g
    <3> QED BY <1>2, <1>3, <1>10, <1>11, <1>12, <2>1, <2>2, <3>1, <3>2, <3>3, <3>4 DEF DmaReadAt
  <2> QED BY <2>4, <2>5
<1>15. ASSUME Drained(gd) PROVE e = gd /\ h = host
  <2>1. gd.remaining = 0 /\ gd.cache.left = 0
    BY <1>15 DEF Drained
  <2>2. ~refill /\ first = 0 /\ second = 0
    BY <1>2, <1>3, <1>7, <2>1
  <2>3. h = host
    BY <1>12, <1>13, <2>2
  <2>4. d.cache = gd.cache /\ left = gd.cache
    <3>1. d.cache = gd.cache
      BY <1>2, <1>4, <2>2 DEF kept
    <3>2. left = gd.cache
      BY <1>2, <2>2, <3>1 DEF left
    <3> QED BY <3>1, <3>2
  <2>5. d = gd
    <3>1. d = [gd EXCEPT !.cache = kept]
      BY <2>2 DEF d, kept
    <3>2. kept = gd.cache
      BY <1>4, <2>2, <2>4
    <3> QED BY <3>1, <3>2 DEF Drive
  <2>6. e = gd
    BY <1>9, <2>4, <2>5 DEF Drive
  <2> QED BY <2>3, <2>6
<1>16. first + second \in Nat /\ first + second <= len
  <2>1. second <= len - first
    <3> HIDE DEF first
    <3> QED BY <1>5, <1>6 DEF second, Smaller
  <2> HIDE DEF first
  <2> QED BY <1>3, <1>7, <2>1
<1> QED BY <1>1, <1>11, <1>13, <1>14, <1>15, <1>16

-----------------------------------------------------------------------------
(* What each step does to the drive                                        *)

Replies(e) ==
  /\ e.state \in {"pio_send", "pio_get"} /\ e.DRQ
  /\ e.pio.unit = NoData /\ e.pio.next # "readsector_pio"

\* The drive goes from d to e without touching the read: it is through, or
\* waits, or sends or takes something that is no disc data.
Aside(d, e) ==
  /\ e \in Drive /\ SameRead(d, e)
  /\ \/ e.state = "waitcmd" /\ (e.DRQ => d.DRQ)
     \/ e.state = "procata" /\ e.BSY /\ (e.DRQ => d.DRQ)
     \/ e.state = "waitpacket" /\ e.DRQ
     \/ Replies(e)

\* The presets of a guest's game.
LEMMA OptionsType ==
  ASSUME game \in Games
  PROVE  /\ options.hang_fix \in BOOLEAN /\ options.sched \in BOOLEAN /\ options.delay \in BOOLEAN
         /\ options.state_fix \in BOOLEAN /\ options.pause_fix \in BOOLEAN
         /\ options.cdda \in BOOLEAN
BY InputsAssumption DEF options

\* A packet that is done puts the read aside.
LEMMA DoneIsAside ==
  ASSUME NEW d \in Drive
  PROVE  Aside(d, ProcPacketDone(d))
BY ProcPacketDoneIs DEF Aside

\* So does a reply, with words to send or without.
LEMMA ReplyIsAside ==
  ASSUME NEW d \in Drive, NEW s \in {"pio_send", "pio_get"}, NEW n \in Nat,
         NEW next \in AfterBlock \ {"readsector_pio"}
  PROVE  Aside(d, Pio(d, s, NoData, n, next))
<1> DEFINE e == Pio(d, s, NoData, n, next)
<1>1. NoData \in Units
  BY DEF Units
<1>2. /\ e \in Drive /\ SameRead(d, e)
      /\ n = 0 => e.state = "waitcmd" /\ ~e.DRQ
      /\ n > 0 => e.state = s /\ e.DRQ /\ e.pio = [unit |-> NoData, left |-> n \div 2, next |-> next]
  BY <1>1, PioIs
<1> SUFFICES Aside(d, e)
  OBVIOUS
<1> HIDE DEF e
<1>3. CASE n = 0
  BY <1>2, <1>3 DEF Aside
<1>4. CASE n > 0
  <2>1. /\ e.pio.unit = NoData /\ e.pio.next = next
    BY <1>2, <1>4
  <2>2. Replies(e)
    BY <1>2, <1>4, <2>1 DEF Replies
  <2> QED BY <1>2, <2>2 DEF Aside
<1> QED BY <1>3, <1>4

\* What every command does first touches neither the read nor DRQ.
LEMMA AcceptedIs ==
  ASSUME gd \in Drive
  PROVE  /\ Accepted \in Drive /\ SameRead(gd, Accepted)
         /\ Accepted.state = "procata" /\ Accepted.BSY /\ Accepted.DRQ = gd.DRQ
BY DEF Accepted, Drive, DriveState, SameRead

\* A packet taken puts DRQ down and BSY up.
LEMMA PacketIs ==
  ASSUME gd \in Drive
  PROVE  Packet \in Drive /\ SameRead(gd, Packet) /\ ~Packet.DRQ /\ Packet.BSY
BY DEF Packet, Drive, SameRead

\* Back to gds_waitcmd, DRQ as it was.
LEMMA WaitcmdIs ==
  ASSUME NEW d \in Drive
  PROVE  /\ Waitcmd(d) \in Drive /\ SameRead(d, Waitcmd(d))
         /\ Waitcmd(d).state = "waitcmd" /\ Waitcmd(d).DRQ = d.DRQ
BY DEF Waitcmd, Drive, DriveState, SameRead

\* The commands that complete at once put the read aside.
LEMMA AtOnceIsAside ==
  ASSUME gd \in Drive, NEW c
  PROVE  Aside(gd, AtOnce(c))
<1> DEFINE a == Accepted
           x == [a EXCEPT !.DRQ = FALSE, !.CHECK = TRUE]
           y == [a EXCEPT !.CHECK = TRUE]
<1>1. a \in Drive /\ SameRead(gd, a) /\ a.DRQ = gd.DRQ
  BY AcceptedIs
<1> HIDE DEF a
<1>2. x \in Drive /\ SameRead(gd, x) /\ ~x.DRQ
  BY <1>1 DEF Drive, SameRead
<1>3. y \in Drive /\ SameRead(gd, y) /\ y.DRQ = gd.DRQ
  BY <1>1 DEF Drive, SameRead
<1>4. AtOnce(c) \in {Waitcmd(a), Waitcmd(x), Waitcmd(y)}
  BY DEF AtOnce, a
<1> HIDE DEF x, y
<1>5. ASSUME NEW d \in Drive, SameRead(gd, d), d.DRQ => gd.DRQ
      PROVE  Aside(gd, Waitcmd(d))
  BY <1>5, WaitcmdIs DEF Aside, SameRead
<1> QED BY <1>1, <1>2, <1>3, <1>4, <1>5

\* The history before any read.
LEMMA NoReadType == NoRead \in ReadOfDisc /\ NoRead.ok /\ NoRead.ask = 0 /\ NoRead.got = 0
BY DEF NoRead, ReadOfDisc

\* A command is refused for good, or it puts the read aside.
LEMMA CommandEffect ==
  ASSUME GdTypeOK, NEW c \in game.ata, CommandWrite(c)
  PROVE  /\ INTRQ' \in BOOLEAN /\ hung' \in BOOLEAN
         /\ \/ gd' = gd /\ host' = host /\ hung' /\ gd.state # "waitcmd" /\ c \notin {"NOP", "SOFT_RESET"}
            \/ /\ Aside(gd, gd') /\ host' = NoRead
               /\ gd.state = "waitcmd" \/ c \in {"NOP", "SOFT_RESET"}
               /\ hung' = hung
            \/ /\ Aside(gd, gd') /\ gd'.state = "procata" /\ host' = host
               /\ gd.state = "waitcmd" /\ ~options.hang_fix
<1>1. gd \in Drive /\ INTRQ \in BOOLEAN /\ hung \in BOOLEAN
  BY DEF GdTypeOK
<1>2. CASE c \notin {"NOP", "SOFT_RESET"} /\ gd.state # "waitcmd"
  BY <1>1, <1>2 DEF CommandWrite
<1>3. CASE c \in {"NOP", "SOFT_RESET"} \/ gd.state = "waitcmd"
  <2>1. gd_process_ata_cmd(c)
    BY <1>3 DEF CommandWrite
  <2> USE <1>1, <1>3
  <2>2. CASE gd' = AtOnce(c) /\ INTRQ' = TRUE /\ host' = NoRead /\ UNCHANGED hung
    BY <2>2, AtOnceIsAside
  <2>3. CASE gd' = Accepted /\ host' = NoRead /\ UNCHANGED <<INTRQ, hung>>
    BY <2>3, AcceptedIs DEF Aside
  <2>4. CASE c = "unknown" /\ ~options.hang_fix /\ gd' = Accepted /\ hung' = TRUE /\ UNCHANGED <<INTRQ, host>>
    <3>1. gd.state = "waitcmd"
      BY <2>4
    <3> QED BY <2>4, <3>1, AcceptedIs DEF Aside
  <2>5. CASE gd' = Waitcmd(Accepted) /\ host' = NoRead /\ UNCHANGED <<INTRQ, hung>>
    BY <2>5, AcceptedIs, WaitcmdIs DEF Aside, SameRead
  <2>6. CASE /\ gd' = [Accepted EXCEPT !.state = "waitpacket", !.packet = 0, !.CoD = TRUE,
                                       !.IO = FALSE, !.BSY = FALSE, !.DRQ = TRUE]
             /\ host' = NoRead /\ UNCHANGED <<INTRQ, hung>>
    <3> DEFINE a == Accepted
    <3>1. a \in Drive /\ SameRead(gd, a)
      BY AcceptedIs
    <3>2. gd' = [a EXCEPT !.state = "waitpacket", !.packet = 0, !.CoD = TRUE,
                          !.IO = FALSE, !.BSY = FALSE, !.DRQ = TRUE]
      BY <2>6
    <3> HIDE DEF a
    <3>3. gd' \in Drive /\ SameRead(gd, gd') /\ gd'.state = "waitpacket" /\ gd'.DRQ
      BY <3>1, <3>2 DEF Drive, DriveState, SameRead
    <3> QED BY <2>6, <3>3 DEF Aside
  <2>7. CASE /\ \E n \in IdentifySizes : gd' = Pio(Accepted, "pio_send", NoData, n, "pio_end")
             /\ INTRQ' = TRUE /\ host' = NoRead /\ UNCHANGED hung
    <3>1. PICK n \in IdentifySizes : gd' = Pio(Accepted, "pio_send", NoData, n, "pio_end")
      BY <2>7
    <3>2. n \in Nat /\ "pio_end" \in AfterBlock \ {"readsector_pio"}
      BY InputsAssumption DEF AfterBlock, IdentifySizes, TableSizes
    <3>3. Aside(Accepted, gd')
      BY <3>1, <3>2, AcceptedIs, ReplyIsAside
    <3>4. Aside(gd, gd')
      BY <3>3, AcceptedIs DEF Aside, SameRead
    <3> QED BY <2>7, <3>4
  <2> QED BY <2>1, <2>2, <2>3, <2>4, <2>5, <2>6, <2>7 DEF gd_process_ata_cmd
<1> QED BY <1>2, <1>3

\* The last word of a packet starts its command.
LEMMA PacketEffect ==
  ASSUME GdTypeOK, PacketWrite
  PROVE  /\ INTRQ' \in BOOLEAN /\ hung' \in BOOLEAN
         /\ \/ /\ gd' \in Drive /\ SameRead(gd, gd') /\ gd'.state = "waitpacket" /\ gd'.DRQ = gd.DRQ
               /\ UNCHANGED <<hung, host, sound>>
            \/ /\ Aside(Packet, gd')
               /\ UNCHANGED <<hung, host>>
            \/ /\ UNCHANGED <<gd, host, sound>> /\ (game.spi \cap Unclipped # {} \/ ~options.hang_fix)
            \/ \E s \in game.starts, n \in game.pio :
                 /\ gd' = CdRead(Packet, s, n, FALSE) /\ CutOff(DataRead(options, audio))
                 /\ host' = ReadAsked(s, n) /\ UNCHANGED hung
            \/ \E s \in game.starts, n \in game.dma :
                 /\ gd' = CdRead(Packet, s, n, TRUE) /\ CutOff(DataRead(options, audio))
                 /\ host' = ReadAsked(s, n) /\ UNCHANGED hung
<1>1. gd \in Drive /\ INTRQ \in BOOLEAN /\ hung \in BOOLEAN /\ game \in Games
  BY DEF GdTypeOK
<1>2. CASE gd.packet + 1 < PacketWords /\ gd' = [gd EXCEPT !.packet = @ + 1] /\ UNCHANGED <<INTRQ, hung, host, sound>>
  <2>1. gd.packet + 1 \in Nat /\ gd.state = "waitpacket"
    BY <1>1 DEF Drive, PacketWrite
  <2>2. gd' \in Drive /\ SameRead(gd, gd') /\ gd'.state = "waitpacket" /\ gd'.DRQ = gd.DRQ
    BY <1>1, <1>2, <2>1 DEF Drive, SameRead
  <2> QED BY <1>1, <1>2, <2>2
<1>3. CASE gd_process_spi_cmd
  <2> USE <1>1
  <2>1. ASSUME NEW c \in game.spi,
               gd' = [ProcPacketDone(Packet) EXCEPT !.CHECK = (c = "busy")],
               INTRQ' = TRUE, UNCHANGED <<hung, host, sound>>
        PROVE  Aside(Packet, gd') /\ INTRQ' \in BOOLEAN /\ hung' \in BOOLEAN /\ UNCHANGED <<hung, host>>
    <3> DEFINE p == Packet
               d == ProcPacketDone(p)
    <3>1. p \in Drive
      BY PacketIs
    <3> HIDE DEF p
    <3>2. d \in Drive /\ d.state = "waitcmd" /\ ~d.DRQ /\ SameRead(p, d)
      BY <3>1, ProcPacketDoneIs
    <3>3. gd' = [d EXCEPT !.CHECK = (c = "busy")]
      BY <2>1 DEF p
    <3> HIDE DEF d
    <3>4. gd' \in Drive /\ gd'.state = "waitcmd" /\ ~gd'.DRQ /\ SameRead(p, gd')
      BY <3>2, <3>3 DEF Drive, SameRead
    <3> QED BY <2>1, <3>4 DEF Aside, p
  <2>2. ASSUME NEW s \in {"pio_send", "pio_get"}, NEW next \in {"pio_end", "process_set_mode"},
               \E n \in ReplySizes : gd' = Pio(Packet, s, NoData, n, next),
               INTRQ' = TRUE, UNCHANGED <<hung, host>>
        PROVE  Aside(Packet, gd') /\ INTRQ' \in BOOLEAN /\ hung' \in BOOLEAN /\ UNCHANGED <<hung, host>>
    <3>1. PICK n \in ReplySizes : gd' = Pio(Packet, s, NoData, n, next)
      BY <2>2
    <3>2. n \in Nat /\ next \in AfterBlock \ {"readsector_pio"}
      BY InputsAssumption DEF AfterBlock
    <3> QED BY <2>2, <3>1, <3>2, PacketIs, ReplyIsAside
  <2>3. ASSUME gd' = ProcPacketDone(Packet), INTRQ' = TRUE, UNCHANGED <<hung, host>>
        PROVE  Aside(Packet, gd') /\ INTRQ' \in BOOLEAN /\ hung' \in BOOLEAN /\ UNCHANGED <<hung, host>>
    BY <2>3, PacketIs, DoneIsAside
  <2>4. CASE \E c \in game.spi :
       \/ /\ c \in {"none", "busy"}
          /\ gd' = [ProcPacketDone(Packet) EXCEPT !.CHECK = (c = "busy")]
          /\ INTRQ' = TRUE /\ UNCHANGED <<hung, host, sound>>
       \/ /\ c \in {"reply", "vendor"} \/ (c = "long_toc" /\ options.hang_fix)
          /\ \E n \in IF c = "reply" THEN ReplySizes ELSE TableSizes :
               gd' = Pio(Packet, "pio_send", NoData, n, "pio_end")
          /\ audio' = IF c = "vendor" THEN [audio EXCEPT !.unit = "PAUSE"] ELSE audio
          /\ INTRQ' = TRUE /\ UNCHANGED <<hung, host, heard>>
       \/ /\ c = "set_mode" \/ (c = "bad_mode" /\ options.hang_fix)
          /\ \E n \in ReplySizes : gd' = Pio(Packet, "pio_get", NoData, n, "process_set_mode")
          /\ INTRQ' = TRUE /\ UNCHANGED <<hung, host, sound>>
       \/ /\ c \in Unclipped \/ (c \in Clipped /\ ~options.hang_fix)
          /\ hung' = TRUE /\ UNCHANGED <<gd, INTRQ, host, sound>>
    <3>1. TableSizes \subseteq ReplySizes
      BY DEF TableSizes
    <3>2. PICK c \in game.spi :
       \/ gd' = [ProcPacketDone(Packet) EXCEPT !.CHECK = (c = "busy")] /\ INTRQ' = TRUE /\ UNCHANGED <<hung, host, sound>>
       \/ /\ \E n \in ReplySizes : gd' = Pio(Packet, "pio_send", NoData, n, "pio_end")
          /\ INTRQ' = TRUE /\ UNCHANGED <<hung, host>>
       \/ /\ \E n \in ReplySizes : gd' = Pio(Packet, "pio_get", NoData, n, "process_set_mode")
          /\ INTRQ' = TRUE /\ UNCHANGED <<hung, host>>
       \/ /\ c \in Unclipped \/ ~options.hang_fix
          /\ hung' = TRUE /\ UNCHANGED <<gd, INTRQ, host, sound>>
      BY <2>4, <3>1
    <3>3. CASE gd' = [ProcPacketDone(Packet) EXCEPT !.CHECK = (c = "busy")] /\ INTRQ' = TRUE /\ UNCHANGED <<hung, host, sound>>
      BY <2>1, <3>3
    <3>4. CASE /\ \E n \in ReplySizes : gd' = Pio(Packet, "pio_send", NoData, n, "pio_end")
               /\ INTRQ' = TRUE /\ UNCHANGED <<hung, host>>
      BY <2>2, <3>4
    <3>5. CASE /\ \E n \in ReplySizes : gd' = Pio(Packet, "pio_get", NoData, n, "process_set_mode")
               /\ INTRQ' = TRUE /\ UNCHANGED <<hung, host>>
      BY <2>2, <3>5
    <3>6. CASE /\ c \in Unclipped \/ ~options.hang_fix
               /\ hung' = TRUE /\ UNCHANGED <<gd, INTRQ, host, sound>>
      BY <3>6
    <3> QED BY <3>2, <3>3, <3>4, <3>5, <3>6
  <2>5. CASE \E c \in game.audio :
               /\ AudioCommand(c)
               /\ gd' = ProcPacketDone(Packet) /\ INTRQ' = TRUE /\ UNCHANGED <<hung, host>>
    BY <2>3, <2>5
  <2>6. CASE \E s \in game.starts, n \in game.pio :
               /\ gd' = CdRead(Packet, s, n, FALSE) /\ CutOff(DataRead(options, audio))
               /\ INTRQ' = TRUE /\ host' = ReadAsked(s, n) /\ UNCHANGED hung
    BY <2>6
  <2>7. CASE \E s \in game.starts, n \in game.dma :
               /\ gd' = CdRead(Packet, s, n, TRUE) /\ CutOff(DataRead(options, audio))
               /\ host' = ReadAsked(s, n) /\ UNCHANGED <<hung, INTRQ>>
    BY <2>7
  <2> QED BY <1>3, <2>4, <2>5, <2>6, <2>7 DEF gd_process_spi_cmd
<1> QED BY <1>2, <1>3 DEF PacketWrite

InPio(d) == d.state \in {"pio_send", "pio_get"}

\* A word leaves its block with one word less, or enters the next state.
LEMMA DataWordEffect ==
  ASSUME GdTypeOK, DataWord
  PROVE  /\ INTRQ' \in BOOLEAN
         /\ \E d \in Drive :
              /\ SameRead(gd, d) /\ d.state = gd.state /\ d.DRQ = gd.DRQ
              /\ d.pio.next = gd.pio.next /\ d.pio.left = gd.pio.left - 1
              /\ d.pio.unit = IF gd.pio.unit = NoData THEN NoData ELSE gd.pio.unit + 1
              /\ \/ gd' = d /\ d.pio.left > 0
                 \/ gd' = ReadsectorPio(d) /\ d.pio.left = 0 /\ gd.pio.next = "readsector_pio"
                 \/ gd' = ProcPacketDone(d) /\ d.pio.left = 0 /\ gd.pio.next # "readsector_pio"
<1> DEFINE unit == IF gd.pio.unit = NoData THEN NoData ELSE gd.pio.unit + 1
           pio == [unit |-> unit, left |-> gd.pio.left - 1, next |-> gd.pio.next]
           d == [gd EXCEPT !.pio = pio]
<1>1. /\ gd \in Drive /\ gd.pio \in Block /\ gd.pio.left \in Nat /\ gd.pio.left > 0
      /\ gd.pio.unit \in Units /\ gd.pio.next \in AfterBlock /\ INTRQ \in BOOLEAN
  BY DEF GdTypeOK, InPio, DataWord, Drive, Block
<1>2. unit \in Units /\ gd.pio.left - 1 \in Nat
  BY <1>1 DEF Units, NoData
<1>3. d = [gd EXCEPT !.pio.left = @ - 1, !.pio.unit = IF @ = NoData THEN NoData ELSE @ + 1]
  BY <1>1 DEF Drive, Block
<1> HIDE DEF unit
<1>4. pio \in Block
  BY <1>1, <1>2 DEF Block
<1>5. pio.unit = unit /\ pio.left = gd.pio.left - 1 /\ pio.next = gd.pio.next
  OBVIOUS
<1> HIDE DEF pio
<1>6. d \in Drive /\ SameRead(gd, d) /\ d.state = gd.state /\ d.DRQ = gd.DRQ /\ d.pio = pio
  BY <1>1, <1>4 DEF Drive, SameRead
<1>7. /\ \/ d.pio.left > 0 /\ gd' = d /\ UNCHANGED INTRQ
         \/ d.pio.left = 0 /\ gd' = AfterPio(d) /\ INTRQ' = TRUE
  BY <1>3 DEF DataWord
<1> HIDE DEF d
<1> QED BY <1>1, <1>5, <1>6, <1>7 DEF AfterPio, unit

\* UpdateGDRom never wants more than SB_GDLEN has left.
LEMMA WantedIs ==
  ASSUME game \in Games, NEW m \in DmaRegisters, m.done <= DmaLen(m), NEW b \in Nat
  PROVE  /\ DmaLen(m) \in Nat
         /\ Wanted(m, b) \in Nat /\ Wanted(m, b) <= DmaLen(m) - m.done
<1>1. m.len \in Nat /\ m.done \in Nat /\ DmaLen(m) \in Nat
  BY DriveAssumption DEF DmaRegisters, DmaLen
<1>2. DmaLen(m) - m.done \in Nat
  BY <1>1
<1>3. b \div Align \in Nat
  BY DriveAssumption
<1>4. (b \div Align) * Align \in Nat
  <2> DEFINE q == b \div Align
  <2>1. q \in Nat /\ Align \in Nat
    BY <1>3, DriveAssumption
  <2> HIDE DEF q
  <2>2. q * Align \in Nat
    BY <2>1
  <2> QED BY <2>2 DEF q
<1>5. Smaller((b \div Align) * Align, MaxChunk) \in Nat /\ MaxChunk \in Nat
  BY <1>4, SmallerIs, DriveAssumption
<1> QED BY <1>1, <1>2, <1>5, SmallerIs DEF Wanted

\* One UpdateGDRom keeps its registers in range and moves what Copied says, or nothing.
LEMMA UpdateEffect ==
  ASSUME GdTypeOK, NEW m \in DmaRegisters, m.done <= DmaLen(m), NEW b \in Nat,
         UpdateGDRom(m, b), UNCHANGED game
  PROVE  /\ dma' \in DmaRegisters /\ (dma'.st => m.st) /\ dma'.done <= DmaLen(dma)'
         /\ s_gd_budget' \in Nat /\ endPending' \in BOOLEAN /\ dmaIRQ' \in BOOLEAN
         /\ INTRQ' \in BOOLEAN /\ hung' \in BOOLEAN
         /\ \/ UNCHANGED <<gd, hung, host>>
            \/ \E len \in Nat :
                 /\ m.st /\ (options.hang_fix => ~Drained(gd))
                 /\ host' = Copied(len).host
                 /\ \/ gd' = Copied(len).gd /\ UNCHANGED hung
                    \/ gd' = Copied(len).gd /\ ~options.hang_fix
                    \/ /\ gd' = ProcPacketDone(Copied(len).gd) /\ Drained(Copied(len).gd)
                       /\ UNCHANGED hung
<1>1. /\ game \in Games /\ INTRQ \in BOOLEAN /\ endPending \in BOOLEAN /\ dmaIRQ \in BOOLEAN
      /\ hung \in BOOLEAN /\ gd \in Drive /\ host \in ReadOfDisc
      /\ m.en \in BOOLEAN /\ m.st \in BOOLEAN /\ m.len \in Nat /\ m.done \in Nat
  BY DEF GdTypeOK, DmaRegisters
<1>2. CASE Blocked(m, b)
  <2>1. dma' = m /\ s_gd_budget' = b /\ UNCHANGED <<gd, irqs, hung, host>>
    BY <1>2 DEF UpdateGDRom
  <2>2. DmaLen(dma)' = DmaLen(m)
    BY <2>1 DEF DmaLen, options
  <2> QED BY <1>1, <2>1, <2>2 DEF irqs
<1>3. CASE ~Blocked(m, b)
  <2> DEFINE len == Wanted(m, b)
             c == Copied(len)
             done == m.done + c.moved
             ended == Ended(m, done)
  <2>1. /\ s_gd_budget' = IF b > c.moved THEN b - c.moved ELSE 0
        /\ dma' = [m EXCEPT !.done = done, !.st = ~ended]
        /\ endPending' = (endPending \/ (ended /\ options.sched))
        /\ dmaIRQ' = (dmaIRQ \/ (ended /\ ~options.sched))
        /\ host' = c.host
        /\ \/ /\ ~Drained(c.gd)
              /\ gd' = c.gd /\ UNCHANGED <<INTRQ, hung>>
           \/ /\ Drained(c.gd) /\ ~options.hang_fix /\ ~ended
              /\ gd' = c.gd /\ hung' = TRUE /\ UNCHANGED INTRQ
           \/ /\ Drained(c.gd) /\ (options.hang_fix \/ ended)
              /\ gd' = ProcPacketDone(c.gd) /\ INTRQ' = TRUE /\ UNCHANGED hung
    BY <1>3 DEF UpdateGDRom, Transfer
  <2>2. DmaLen(m) \in Nat /\ len \in Nat /\ len <= DmaLen(m) - m.done
    BY <1>1, WantedIs
  <2> HIDE DEF len
  <2>3. c.moved \in Nat /\ c.moved <= len
    BY <1>1, <2>2, CopiedIs
  <2> HIDE DEF c
  <2>4. done \in Nat /\ done <= DmaLen(m)
    BY <1>1, <2>2, <2>3
  <2>5. ended \in BOOLEAN
    BY DEF Ended
  <2>6. s_gd_budget' \in Nat
    BY <2>1, <2>3
  <2> HIDE DEF done, ended
  <2>7. dma' \in DmaRegisters /\ dma'.done = done /\ dma'.len = m.len
    BY <2>1, <2>4, <2>5 DEF DmaRegisters
  <2>8. DmaLen(dma)' = DmaLen(m)
    BY <2>7 DEF DmaLen, options
  <2>9. m.st /\ (options.hang_fix => ~Drained(gd))
    BY <1>1, <1>3 DEF Blocked
  <2>10. /\ endPending' \in BOOLEAN /\ dmaIRQ' \in BOOLEAN
         /\ INTRQ' \in BOOLEAN /\ hung' \in BOOLEAN
    BY <1>1, <2>1, <2>5, OptionsType
  <2>11. /\ host' = c.host
         /\ \/ gd' = c.gd /\ UNCHANGED hung
            \/ gd' = c.gd /\ ~options.hang_fix
            \/ gd' = ProcPacketDone(c.gd) /\ Drained(c.gd) /\ UNCHANGED hung
    BY <2>1
  <2> QED BY <2>2, <2>4, <2>6, <2>7, <2>8, <2>9, <2>10, <2>11 DEF c
<1> QED BY <1>2, <1>3

-----------------------------------------------------------------------------
(* What each step does to the audio                                        *)

AudioPacket ==
  [kind : {"play", "resume", "seek", "home", "pause"}, start : FAD, end : FAD,
   repeats : 0 .. Endless]

SoundStep ==
  \/ UNCHANGED sound
  \/ \E c \in game.audio : AudioCommand(c)
  \/ CutOff(DataRead(options, audio))
  \/ CutOff(SetDisc(options, audio))
  \/ audio' = [audio EXCEPT !.unit = "PAUSE"] /\ UNCHANGED heard
  \/ audio.playing /\ audio' = Sector(options, audio) /\ heard' = Heard(heard, audio.curr)

\* Every step is one of those.
LEMMA EveryStepIsASoundStep ==
  ASSUME [GdNext]_gdvars
  PROVE  SoundStep
<1> USE DEF SoundStep
<1>1. ASSUME NEW c \in game.ata, CommandWrite(c) PROVE SoundStep
  BY <1>1 DEF CommandWrite
<1>2. CASE PacketWrite
  <2>1. CASE UNCHANGED sound
    BY <2>1
  <2>2. CASE gd_process_spi_cmd
    <3>1. ASSUME NEW c, audio' = IF c = "vendor" THEN [audio EXCEPT !.unit = "PAUSE"] ELSE audio,
                 UNCHANGED heard
          PROVE  SoundStep
      <4>1. CASE c = "vendor"
        BY <3>1, <4>1
      <4>2. CASE c # "vendor"
        BY <3>1, <4>2 DEF sound
      <4> QED BY <4>1, <4>2
    <3> QED BY <2>2, <3>1 DEF gd_process_spi_cmd
  <2> QED BY <1>2, <2>1, <2>2 DEF PacketWrite
<1>3. CASE DataWord
  BY <1>3 DEF DataWord
<1>4. CASE StatusRead
  BY <1>4 DEF StatusRead
<1>5. CASE SlowUpdate
  BY <1>5 DEF SlowUpdate
<1>6. ASSUME NEW len \in game.lengths, DmaStart(len) PROVE SoundStep
  BY <1>6 DEF DmaStart
<1>7. ASSUME NEW on \in BOOLEAN, DmaEnable(on) PROVE SoundStep
  BY <1>7 DEF DmaEnable
<1>8. CASE DmaEnd \/ DmaAck
  BY <1>8 DEF DmaEnd, DmaAck
<1>9. CASE DiskChange
  BY <1>9 DEF DiskChange
<1>10. CASE AudioSector
  BY <1>10 DEF AudioSector
<1>11. CASE UNCHANGED gdvars
  BY <1>11 DEF gdvars
<1> QED
  BY <1>1, <1>2, <1>3, <1>4, <1>5, <1>6, <1>7, <1>8, <1>9, <1>10, <1>11 DEF GdNext

\* A sector leaves the range alone; at its end it goes round, or the play ends.
Moved(a, s, ends, fix) ==
  /\ s \in Audio /\ s.start = a.start /\ s.end = a.end
  /\ ~ends => /\ s.curr = a.curr + 1 /\ s.repeats = a.repeats
              /\ s.playing = a.playing /\ s.status = a.status
  /\ ends /\ a.repeats > 0 =>
       /\ s.curr = a.start /\ s.playing = a.playing /\ s.status = a.status
       /\ s.repeats = IF a.repeats = Endless THEN Endless ELSE a.repeats - 1
  /\ ends /\ a.repeats = 0 => ~s.playing /\ (fix => s.status = "TERMINATED")

\* gdrom_get_cdda moves the play as that says.
LEMMA SectorIs ==
  ASSUME NEW p, NEW a \in Audio
  PROVE  Moved(a, Sector(p, a), AtEnd(p, [a EXCEPT !.curr = @ + 1]), p.state_fix)
<1> DEFINE s == Sector(p, a)
           b == [a EXCEPT !.curr = @ + 1]
           ends == AtEnd(p, b)
<1>1. /\ b \in Audio /\ b.start = a.start /\ b.end = a.end /\ b.curr = a.curr + 1
      /\ b.repeats = a.repeats /\ b.playing = a.playing /\ b.status = a.status
  BY DEF Audio, FAD
<1>2. a.repeats \in 0 .. Endless
  BY DEF Audio
<1> SUFFICES Moved(a, s, ends, p.state_fix)
  OBVIOUS
<1>3. CASE ~ends
  <2>1. s = b
    BY <1>3 DEF Sector
  <2> HIDE DEF b, s, ends
  <2> QED BY <1>1, <1>3, <2>1 DEF Moved
<1>4. CASE ends /\ a.repeats > 0
  <2> DEFINE left == IF a.repeats = Endless THEN Endless ELSE a.repeats - 1
  <2>1. a.repeats # 0
    BY <1>4
  <2>2. s = [b EXCEPT !.curr = a.start, !.repeats = left]
    BY <1>4, <2>1 DEF Sector, Audio
  <2>3. left \in 0 .. Endless
    BY <1>2, <1>4 DEF Endless
  <2> HIDE DEF b, s, left, ends
  <2>4. /\ s \in Audio /\ s.start = a.start /\ s.end = a.end
        /\ s.curr = a.start /\ s.playing = a.playing /\ s.status = a.status /\ s.repeats = left
    BY <1>1, <2>2, <2>3 DEF Audio
  <2> QED BY <1>4, <2>1, <2>4 DEF Moved, left
<1>5. CASE ends /\ a.repeats = 0
  <2> DEFINE unit == IF p.state_fix THEN "PAUSE" ELSE "STANDBY"
             status == IF p.state_fix THEN "TERMINATED" ELSE a.status
  <2>1. ~(a.repeats > 0)
    BY <1>5
  <2>2. s = [b EXCEPT !.playing = FALSE, !.status = status, !.unit = unit]
    BY <1>5, <2>1 DEF Sector, Audio
  <2>3. unit \in UnitStatus /\ status \in AudioStatus
    BY DEF UnitStatus, AudioStatus, Audio
  <2>4. p.state_fix => status = "TERMINATED"
    OBVIOUS
  <2> HIDE DEF b, s, unit, status, ends
  <2>5. /\ s \in Audio /\ s.start = a.start /\ s.end = a.end /\ ~s.playing /\ s.status = status
    BY <1>1, <2>2, <2>3 DEF Audio
  <2> QED BY <1>5, <2>1, <2>4, <2>5 DEF Moved
<1> QED BY <1>2, <1>3, <1>4, <1>5

\* The cases of a resume.
LEMMA ResumeIs ==
  ASSUME NEW p, NEW a \in Audio, NEW c
  PROVE  /\ ~p.state_fix => Resume(p, a, c) = Playing(p, [a EXCEPT !.repeats = c.repeats])
         /\ p.state_fix /\ a.status # "PAUSED" => Resume(p, a, c) = a
         /\ p.state_fix /\ a.status = "PAUSED" /\ a.curr > a.end =>
              Resume(p, a, c) = [a EXCEPT !.status = "TERMINATED", !.playing = FALSE,
                                          !.unit = "STANDBY"]
         /\ p.state_fix /\ a.status = "PAUSED" /\ a.curr <= a.end =>
              Resume(p, a, c) = Playing(p, a)
<1>1. a.curr <= a.end <=> ~(a.curr > a.end)
  BY DEF Audio, FAD
<1> QED BY <1>1 DEF Resume

\* A play broken off keeps the types.
LEMMA CutOffType ==
  ASSUME GdTypeOK, NEW a \in Audio, CutOff(a)
  PROVE  audio' \in Audio /\ heard' \in PlayOfDisc
BY DEF GdTypeOK, CutOff, Audio, PlayOfDisc

\* Every step keeps the types of the audio.
LEMMA SoundType ==
  ASSUME GdTypeOK, SoundStep
  PROVE  audio' \in Audio /\ heard' \in PlayOfDisc
<1>1. audio \in Audio /\ heard \in PlayOfDisc /\ game \in Games
  BY DEF GdTypeOK
<1>2. options.state_fix \in BOOLEAN /\ options.pause_fix \in BOOLEAN
  BY <1>1, OptionsType
<1>3. CASE UNCHANGED sound
  BY <1>1, <1>3 DEF sound
<1>4. ASSUME NEW c \in game.audio, AudioCommand(c)
      PROVE  audio' \in Audio /\ heard' \in PlayOfDisc
  <2>1. c \in AudioPacket
    BY <1>1, InputsAssumption DEF AudioPacket
  <2>2. c.start \in Nat /\ c.end \in Nat /\ c.repeats \in 0 .. Endless
    BY <2>1 DEF AudioPacket, FAD
  <2>3. CASE c.kind = "play" /\ audio' = PlayRange(options, audio, c) /\ heard' = Asked(c)
    <3>1. audio' \in Audio
      BY <1>1, <1>2, <2>2, <2>3, AddressAssumption
      DEF PlayRange, Playing, Audio, AudioStatus, UnitStatus, FAD
    <3> DEFINE last == IF c.end = 0 THEN LastFAD ELSE c.end
               len == IF last > c.start THEN last - c.start ELSE 1
               total == IF c.repeats = Endless THEN 0 ELSE (c.repeats + 1) * len
    <3>2. len \in Nat \ {0}
      BY <2>2, AddressAssumption
    <3>3. total \in Nat
      <4> HIDE DEF len
      <4>1. c.repeats + 1 \in Nat
        BY <2>2 DEF Endless
      <4>2. \A k \in Nat : k * len \in Nat
        BY <3>2
      <4> QED BY <4>1, <4>2
    <3>4. (last > c.start) \in BOOLEAN
      OBVIOUS
    <3>5. heard' = [start |-> c.start, len |-> len, n |-> 0, ok |-> TRUE, on |-> TRUE,
                    ahead |-> last > c.start, total |-> total]
      BY <2>3 DEF Asked
    <3> HIDE DEF last, len, total
    <3>6. heard' \in PlayOfDisc
      BY <2>2, <3>2, <3>3, <3>4, <3>5 DEF PlayOfDisc
    <3> QED BY <3>1, <3>6
  <2>4. CASE c.kind = "resume" /\ audio' = Resume(options, audio, c) /\ UNCHANGED heard
    <3>1. audio.curr <= audio.end \/ audio.curr > audio.end
      BY <1>1 DEF Audio, FAD
    <3>2. Playing(options, audio) \in Audio
      BY <1>1, <1>2 DEF Playing, Audio, AudioStatus, UnitStatus
    <3>3. Playing(options, [audio EXCEPT !.repeats = c.repeats]) \in Audio
      BY <1>1, <1>2, <2>2 DEF Playing, Audio, AudioStatus, UnitStatus
    <3>4. [audio EXCEPT !.status = "TERMINATED", !.playing = FALSE, !.unit = "STANDBY"] \in Audio
      BY <1>1 DEF Audio, AudioStatus, UnitStatus
    <3> QED BY <1>1, <1>2, <2>4, <3>1, <3>2, <3>3, <3>4, ResumeIs
  <2>5. CASE c.kind = "seek" /\ CutOff(SeekTo(options, audio, c))
    <3>1. SeekTo(options, audio, c) \in Audio
      BY <1>1, <1>2, <2>2 DEF SeekTo, Paused, Audio, AudioStatus, UnitStatus, FAD
    <3> QED BY <2>5, <3>1, CutOffType
  <2>6. SeekHome(options, audio) \in Audio
    BY <1>1, <1>2, AddressAssumption DEF SeekHome, Paused, Audio, AudioStatus, UnitStatus, FAD
  <2>7. CASE c.kind = "home" /\ CutOff(SeekHome(options, audio))
    BY <2>6, <2>7, CutOffType
  <2>8. CASE c.kind = "pause" /\ audio' = SeekPause(options, audio) /\ UNCHANGED heard
    BY <1>1, <1>2, <2>6, <2>8 DEF SeekPause, Paused, Audio, AudioStatus, UnitStatus, FAD
  <2> QED BY <1>4, <2>3, <2>4, <2>5, <2>7, <2>8 DEF AudioCommand
<1>5. CASE CutOff(DataRead(options, audio))
  <2>1. DataRead(options, audio) \in Audio
    BY <1>1, <1>2 DEF DataRead, Audio, AudioStatus, UnitStatus
  <2> QED BY <1>5, <2>1, CutOffType
<1>6. CASE CutOff(SetDisc(options, audio))
  <2>1. SetDisc(options, audio) \in Audio
    BY <1>1, <1>2 DEF SetDisc, Audio, AudioStatus, UnitStatus
  <2> QED BY <1>6, <2>1, CutOffType
<1>7. CASE audio' = [audio EXCEPT !.unit = "PAUSE"] /\ UNCHANGED heard
  BY <1>1, <1>7 DEF Audio, UnitStatus
<1>8. CASE audio' = Sector(options, audio) /\ heard' = Heard(heard, audio.curr)
  <2>1. audio' \in Audio
    BY <1>1, <1>8, SectorIs DEF Moved
  <2>2. heard' \in PlayOfDisc
    <3>1. CASE ~heard.on
      BY <1>1, <1>8, <3>1 DEF Heard
    <3>2. CASE heard.on
      <4> DEFINE n == IF heard.total = 0 THEN (heard.n + 1) % heard.len
                      ELSE Smaller(heard.n + 1, heard.total)
                 ok == heard.ok /\ audio.curr = heard.start + (heard.n % heard.len)
                         /\ (heard.total > 0 => heard.n < heard.total)
      <4>1. heard' = [heard EXCEPT !.n = n, !.ok = ok]
        BY <1>1, <1>8, <3>2 DEF Heard, PlayOfDisc
      <4>2. heard.n \in Nat /\ heard.len \in Nat \ {0} /\ heard.total \in Nat
        BY <1>1 DEF PlayOfDisc
      <4>3. n \in Nat
        <5>1. CASE heard.total = 0
          <6>1. (heard.n + 1) % heard.len \in Nat
            BY <4>2
          <6> QED BY <5>1, <6>1
        <5>2. CASE heard.total # 0
          <6>1. Smaller(heard.n + 1, heard.total) \in Nat
            BY <4>2 DEF Smaller
          <6> QED BY <5>2, <6>1
        <5> QED BY <5>1, <5>2
      <4>4. ok \in BOOLEAN
        BY <1>1 DEF PlayOfDisc
      <4> HIDE DEF n, ok
      <4> QED BY <1>1, <4>1, <4>3, <4>4 DEF PlayOfDisc
    <3> QED BY <3>1, <3>2
  <2> QED BY <2>1, <2>2
<1> QED BY <1>3, <1>4, <1>5, <1>6, <1>7, <1>8 DEF SoundStep

-----------------------------------------------------------------------------
(* The invariants                                                          *)

Sending(d) == d.state = "pio_send" /\ d.pio.unit # NoData

\* A block of the read in progress is on its way to the guest.
BlockAt(d, h) == Sending(d) /\ d.DRQ /\ d.pio.left > 0 /\ PioReadAt(d, h)

\* A PIO block begins where the read has got to.
LEMMA ReadsectorPioAt ==
  ASSUME NEW d \in Drive, NEW h \in ReadOfDisc, d.remaining > 0,
         h.ok, d.start * SectorSize = h.base + h.got,
         h.got + d.remaining * SectorSize = h.ask, d.cache.left = 0,
         d.remaining > MaxPio => game.lengths = {}
  PROVE  BlockAt(ReadsectorPio(d), h)
<1> DEFINE e == ReadsectorPio(d)
           n == Smaller(d.remaining, MaxPio)
           next == IF d.remaining > MaxPio THEN "readsector_pio" ELSE "pio_end"
<1>1. d.remaining \in Nat /\ d.start \in Nat /\ MaxPio \in Nat \ {0}
  BY DriveAssumption DEF Drive
<1>2. /\ n \in Nat /\ n <= d.remaining
      /\ (d.remaining > MaxPio => n = MaxPio) /\ (~(d.remaining > MaxPio) => n = d.remaining)
  BY <1>1 DEF Smaller
<1>3. /\ e.start = d.start + n /\ e.remaining = d.remaining - n /\ e.cache = d.cache
      /\ e.state = "pio_send" /\ e.DRQ
      /\ e.pio = [unit |-> d.start * SectorSize, left |-> n * SectorSize, next |-> next]
      /\ n * SectorSize > 0
  BY ReadsectorPioIs
<1> HIDE DEF e
<1>4. /\ e.pio.unit = d.start * SectorSize /\ e.pio.left = n * SectorSize /\ e.pio.next = next
  BY <1>3
<1> HIDE DEF n
<1>5. /\ (d.start + n) * SectorSize = d.start * SectorSize + n * SectorSize
      /\ (d.remaining - n) * SectorSize = d.remaining * SectorSize - n * SectorSize
      /\ d.start * SectorSize \in Nat /\ n * SectorSize \in Nat /\ d.remaining * SectorSize \in Nat
  BY <1>1, <1>2, Sectors
<1>6. Sending(e)
  BY <1>3, <1>4, <1>5 DEF Sending, NoData
<1> DEFINE s == d.start * SectorSize
           r == d.remaining * SectorSize
           m == n * SectorSize
<1>7. /\ e.start * SectorSize = s + m /\ e.remaining * SectorSize = r - m
      /\ e.pio.unit = s /\ e.pio.left = m /\ s \in Nat /\ m \in Nat /\ r \in Nat
      /\ s = h.base + h.got /\ h.got + r = h.ask
  BY <1>3, <1>4, <1>5
<1>8. e.remaining = d.remaining - n /\ (n = d.remaining => m = r)
  BY <1>3
<1> HIDE DEF s, r, m, next
<1>9. h.got \in Nat /\ h.base \in Nat /\ h.ask \in Nat
  BY DEF ReadOfDisc
<1>10. CASE d.remaining > MaxPio
  <2>1. e.pio.next = "readsector_pio" /\ e.remaining > 0 /\ game.lengths = {}
    BY <1>1, <1>2, <1>4, <1>8, <1>10 DEF next
  <2>2. h.got + e.pio.left + e.remaining * SectorSize = h.ask
    BY <1>7, <1>9
  <2>3. PioReadAt(e, h)
    BY <1>3, <1>7, <2>1, <2>2 DEF PioReadAt
  <2> QED BY <1>3, <1>4, <1>6, <2>3 DEF BlockAt, e
<1>11. CASE ~(d.remaining > MaxPio)
  <2>1. e.pio.next = "pio_end" /\ e.remaining = 0 /\ m = r
    BY <1>1, <1>2, <1>4, <1>8, <1>11 DEF next
  <2>2. h.got + e.pio.left = h.ask
    BY <1>7, <1>9, <2>1
  <2>3. PioReadAt(e, h)
    BY <1>3, <1>7, <2>1, <2>2 DEF PioReadAt
  <2> QED BY <1>3, <1>4, <1>6, <2>3 DEF BlockAt, e
<1> QED BY <1>10, <1>11

\* A PIO read of any length ends at once or begins at its first sector.
LEMMA CdReadPioIs ==
  ASSUME NEW d \in Drive, NEW start \in Nat, NEW count \in Nat
  PROVE  LET e == CdRead(d, start, count, FALSE)
             h == ReadAsked(start, count)
         IN /\ e \in Drive /\ h \in ReadOfDisc
            /\ \/ e.state = "waitcmd" /\ ~e.DRQ /\ e.cache = d.cache /\ e.remaining = 0
                    /\ h.ok /\ h.ask = 0
               \/ /\ e.state = "pio_send" /\ e.DRQ /\ e.pio.left > 0
                  /\ d.cache.left = 0 /\ (count > MaxPio => game.lengths = {}) => BlockAt(e, h)
<1> DEFINE e == CdRead(d, start, count, FALSE)
           h == ReadAsked(start, count)
           r == [d EXCEPT !.start = start, !.remaining = count]
<1>1. r \in Drive /\ r.start = start /\ r.remaining = count /\ r.cache = d.cache
  BY DEF Drive
<1>2. e = ReadsectorPio(r)
  BY DEF CdRead
<1> HIDE DEF e, r
<1>3. start * SectorSize \in Nat /\ count * SectorSize \in Nat /\ (count = 0 => count * SectorSize = 0)
  BY Sectors
<1>4. /\ h \in ReadOfDisc /\ h.base = start * SectorSize /\ h.ask = count * SectorSize
      /\ h.got = 0 /\ h.ok
  BY <1>3 DEF ReadAsked, ReadOfDisc
<1> HIDE DEF h
<1> DEFINE n == Smaller(count, MaxPio)
<1>5. /\ e \in Drive /\ e.remaining = count - n /\ e.cache = d.cache
      /\ count = 0 => e.state = "waitcmd" /\ ~e.DRQ
      /\ count > 0 => /\ e.state = "pio_send" /\ e.DRQ
                      /\ e.pio = [unit |-> start * SectorSize, left |-> n * SectorSize,
                             next |-> IF count > MaxPio THEN "readsector_pio" ELSE "pio_end"]
                      /\ n * SectorSize > 0
  BY <1>1, <1>2, ReadsectorPioIs
<1> SUFFICES /\ e \in Drive /\ h \in ReadOfDisc
             /\ \/ e.state = "waitcmd" /\ ~e.DRQ /\ e.cache = d.cache /\ e.remaining = 0
                     /\ h.ok /\ h.ask = 0
                \/ /\ e.state = "pio_send" /\ e.DRQ /\ e.pio.left > 0
                   /\ d.cache.left = 0 /\ (count > MaxPio => game.lengths = {}) => BlockAt(e, h)
  BY DEF e, h
<1>6. CASE count = 0
  <2>1. n = 0
    BY <1>6, DriveAssumption DEF Smaller
  <2>2. e.remaining = 0
    BY <1>5, <1>6, <2>1
  <2> QED BY <1>3, <1>4, <1>5, <1>6, <2>2
<1>7. CASE count > 0
  <2>1. e.pio.left > 0
    BY <1>5, <1>7
  <2>2. ASSUME d.cache.left = 0, count > MaxPio => game.lengths = {}
        PROVE  BlockAt(e, h)
    <3>1. r.start * SectorSize = h.base + h.got /\ h.got + r.remaining * SectorSize = h.ask
      BY <1>1, <1>3, <1>4
    <3> QED BY <1>1, <1>2, <1>4, <1>7, <2>2, <3>1, ReadsectorPioAt
  <2> QED BY <1>4, <1>5, <1>7, <2>1, <2>2
<1> QED BY <1>6, <1>7

\* What the status register shows, and what a guest that reads it meets.
Status(d) ==
  /\ d.state \in {"waitpacket", "pio_get", "pio_send"} => d.DRQ
  /\ d.DRQ => Aborts \/ d.state \in {"waitpacket", "pio_get", "pio_send"}
  /\ d.state \in {"readsector_dma", "procata"} => d.BSY

StatusInv == Status(gd) /\ NeverHangs

\* What is put aside is a drive.
LEMMA AsideType ==
  ASSUME NEW d, NEW e, Aside(d, e)
  PROVE  e \in Drive
BY DEF Aside

\* Registers left alone keep their types.
LEMMA DmaTypeKept ==
  ASSUME GdTypeOK, UNCHANGED <<game, dma>>
  PROVE  dma' \in DmaRegisters /\ dma'.done <= DmaLen(dma)'
BY DEF GdTypeOK, DmaLen, options

\* So do those of a DMA just started.
LEMMA StartedDma ==
  ASSUME GdTypeOK, NEW len \in game.lengths
  PROVE  LET m == [dma EXCEPT !.len = len, !.st = TRUE, !.done = 0]
         IN m \in DmaRegisters /\ m.done <= DmaLen(m)
<1> DEFINE m == [dma EXCEPT !.len = len, !.st = TRUE, !.done = 0]
<1>1. len \in Nat
  BY InputsAssumption DEF GdTypeOK
<1>2. m \in DmaRegisters /\ m.done = 0 /\ m.len = len
  BY <1>1 DEF GdTypeOK, DmaRegisters
<1>3. m.done <= DmaLen(m)
  <2> HIDE DEF m
  <2> QED BY <1>1, <1>2, DriveAssumption DEF DmaLen
<1> QED BY <1>2, <1>3

\* Every step keeps the types.
LEMMA TypeStep ==
  ASSUME GdTypeOK, StatusInv, [GdNext]_gdvars
  PROVE  GdTypeOK'
<1> USE DEF irqs
<1>1. audio' \in Audio /\ heard' \in PlayOfDisc
  BY SoundType, EveryStepIsASoundStep
<1>2. /\ game \in Games /\ gd \in Drive /\ dma \in DmaRegisters /\ s_gd_budget \in Nat
      /\ INTRQ \in BOOLEAN /\ endPending \in BOOLEAN /\ dmaIRQ \in BOOLEAN /\ hung \in BOOLEAN
      /\ host \in ReadOfDisc
  BY DEF GdTypeOK
<1>3. ASSUME NEW c \in game.ata, CommandWrite(c) PROVE GdTypeOK'
  <2>1. UNCHANGED <<game, dma, endPending, dmaIRQ, s_gd_budget>>
    BY <1>3 DEF CommandWrite
  <2>2. gd' \in Drive /\ host' \in ReadOfDisc
    BY <1>2, <1>3, CommandEffect, AsideType, NoReadType
  <2>3. INTRQ' \in BOOLEAN /\ hung' \in BOOLEAN
    BY <1>3, CommandEffect
  <2> QED BY <1>1, <1>2, <2>1, <2>2, <2>3, DmaTypeKept DEF GdTypeOK
<1>4. CASE PacketWrite
  <2>1. UNCHANGED <<game, dma, endPending, dmaIRQ, s_gd_budget>>
    BY <1>4 DEF PacketWrite
  <2>2. INTRQ' \in BOOLEAN /\ hung' \in BOOLEAN
    BY <1>4, PacketEffect
  <2>3. gd' \in Drive /\ host' \in ReadOfDisc
    <3>1. ASSUME NEW s \in game.starts, NEW n \in game.pio \cup game.dma, NEW DMA \in BOOLEAN,
                 gd' = CdRead(Packet, s, n, DMA), host' = ReadAsked(s, n)
          PROVE  gd' \in Drive /\ host' \in ReadOfDisc
      <4>1. s \in Nat /\ n \in Nat
        BY <1>2, InputsAssumption
      <4> QED BY <1>2, <3>1, <4>1, PacketIs, CdReadIs, CdReadPioIs
    <3> QED BY <1>2, <1>4, <3>1, PacketEffect, AsideType
  <2> QED BY <1>1, <1>2, <2>1, <2>2, <2>3, DmaTypeKept DEF GdTypeOK
<1>5. CASE DataWord
  <2>1. UNCHANGED <<game, dma, endPending, dmaIRQ, s_gd_budget, hung, sound>>
    BY <1>5 DEF DataWord
  <2>3. gd' \in Drive /\ INTRQ' \in BOOLEAN
    BY <1>5, DataWordEffect, ReadsectorPioIs, ProcPacketDoneIs
  <2>4. host' \in ReadOfDisc
    <3>1. host' = IF gd.pio.unit = NoData THEN host ELSE Delivered(host, gd.pio.unit, 1)
      BY <1>5 DEF DataWord
    <3>2. gd.pio.unit # NoData => gd.pio.unit \in Nat
      BY <1>2 DEF Drive, Block, Units
    <3> QED BY <1>2, <3>1, <3>2, DeliveredIs
  <2> QED BY <1>1, <1>2, <2>1, <2>3, <2>4, DmaTypeKept DEF GdTypeOK
<1>6. CASE StatusRead
  <2>1. INTRQ' = FALSE /\ UNCHANGED <<game, gd, dma, endPending, dmaIRQ, s_gd_budget, hung, host, sound>>
    BY <1>6 DEF StatusRead
  <2> QED BY <1>1, <1>2, <2>1, DmaTypeKept DEF GdTypeOK
<1>7. ASSUME NEW m \in DmaRegisters, m.done <= DmaLen(m), NEW b \in Nat, UpdateGDRom(m, b),
             UNCHANGED <<game, sound>>
      PROVE  GdTypeOK'
  <2>1. UNCHANGED game
    BY <1>7
  <2>2. /\ dma' \in DmaRegisters /\ dma'.done <= DmaLen(dma)'
        /\ s_gd_budget' \in Nat /\ endPending' \in BOOLEAN /\ dmaIRQ' \in BOOLEAN
        /\ INTRQ' \in BOOLEAN /\ hung' \in BOOLEAN
    BY <1>7, <2>1, UpdateEffect
  <2>3. gd' \in Drive /\ host' \in ReadOfDisc
    <3>1. CASE UNCHANGED <<gd, hung, host>>
      BY <1>2, <3>1
    <3>2. ASSUME NEW len \in Nat, host' = Copied(len).host,
                 gd' = Copied(len).gd \/ gd' = ProcPacketDone(Copied(len).gd)
          PROVE  gd' \in Drive /\ host' \in ReadOfDisc
      BY <1>2, <3>2, CopiedIs, ProcPacketDoneIs
    <3> QED BY <1>7, <2>1, <3>1, <3>2, UpdateEffect
  <2> QED BY <1>1, <1>2, <2>1, <2>2, <2>3 DEF GdTypeOK
<1>8. CASE SlowUpdate
  <2> DEFINE Budget(c) == IF options.delay THEN Smaller(s_gd_budget + c, MaxChunk) ELSE 0
  <2>1. PICK c \in Credits : UpdateGDRom(dma, Budget(c))
    BY <1>8 DEF SlowUpdate
  <2>2. Budget(c) \in Nat
    BY <1>2, InputsAssumption, DriveAssumption DEF Smaller
  <2>3. dma.done <= DmaLen(dma) /\ UNCHANGED <<game, sound>>
    BY <1>8 DEF GdTypeOK, SlowUpdate
  <2> HIDE DEF Budget
  <2> QED BY <1>2, <1>7, <2>1, <2>2, <2>3
<1>9. ASSUME NEW len \in game.lengths, DmaStart(len) PROVE GdTypeOK'
  <2> DEFINE m == [dma EXCEPT !.len = len, !.st = TRUE, !.done = 0]
  <2>1. UpdateGDRom(m, s_gd_budget) /\ UNCHANGED <<game, sound>>
    BY <1>9 DEF DmaStart
  <2>2. m \in DmaRegisters /\ m.done <= DmaLen(m)
    BY StartedDma
  <2> HIDE DEF m
  <2> QED BY <1>2, <1>7, <2>1, <2>2
<1>10. ASSUME NEW on \in BOOLEAN, DmaEnable(on) PROVE GdTypeOK'
  <2>1. /\ dma' = [dma EXCEPT !.en = on, !.st = @ /\ on]
        /\ UNCHANGED <<game, gd, irqs, s_gd_budget, hung, host, sound>>
    BY <1>10 DEF DmaEnable
  <2>2. dma' \in DmaRegisters /\ dma'.done = dma.done /\ dma'.len = dma.len
    BY <1>2, <2>1 DEF DmaRegisters
  <2>3. dma'.done <= DmaLen(dma)'
    BY <2>1, <2>2 DEF GdTypeOK, DmaLen, options
  <2> QED BY <1>1, <1>2, <2>1, <2>2, <2>3 DEF GdTypeOK
<1>11. CASE DmaEnd \/ DmaAck
  <2>1. /\ endPending' \in BOOLEAN /\ dmaIRQ' \in BOOLEAN
        /\ UNCHANGED <<game, gd, dma, INTRQ, s_gd_budget, hung, host, sound>>
    BY <1>2, <1>11 DEF DmaEnd, DmaAck
  <2> QED BY <1>1, <1>2, <2>1, DmaTypeKept DEF GdTypeOK
<1>12. CASE DiskChange \/ AudioSector
  <2>1. UNCHANGED <<game, gd, dma, irqs, s_gd_budget, hung, host>>
    BY <1>12 DEF DiskChange, AudioSector
  <2> QED BY <1>1, <1>2, <2>1, DmaTypeKept DEF GdTypeOK
<1>13. CASE UNCHANGED gdvars
  <2>1. UNCHANGED <<game, gd, dma, irqs, s_gd_budget, hung, host>>
    BY <1>13 DEF gdvars
  <2> QED BY <1>1, <1>2, <2>1, DmaTypeKept DEF GdTypeOK
<1> QED
  BY <1>3, <1>4, <1>5, <1>6, <1>8, <1>9, <1>10, <1>11, <1>12, <1>13 DEF GdNext

\* A drive put aside shows the right status.
LEMMA AsideStatus ==
  ASSUME NEW d, NEW e, Aside(d, e), d.DRQ => Aborts
  PROVE  Status(e)
BY DEF Aside, Replies, Status, InPio

\* A guest that sees BSY and DRQ clear finds the drive in gds_waitcmd.
LEMMA ReadyIsWaitcmd ==
  ASSUME GdTypeOK, Status(gd), Ready
  PROVE  gd.state = "waitcmd"
BY DEF GdTypeOK, Drive, DriveState, Status, Ready

\* Every step keeps the status register true, and hangs no polite guest.
LEMMA StatusStep ==
  ASSUME GdTypeOK, StatusInv, [GdNext]_gdvars
  PROVE  StatusInv'
<1>1. /\ game \in Games /\ gd \in Drive /\ hung \in BOOLEAN /\ host \in ReadOfDisc
      /\ Status(gd) /\ NeverHangs
  BY DEF GdTypeOK, StatusInv
<1>2. ASSUME UNCHANGED game, Status(gd'), UNCHANGED hung \/ ~options.hang_fix \/ game.spi \cap Unclipped # {}
      PROVE  StatusInv'
  <2>1. Status(gd)'
    BY <1>2 DEF Status, Aborts
  <2>2. NeverHangs'
    BY <1>1, <1>2 DEF NeverHangs, options
  <2> QED BY <2>1, <2>2 DEF StatusInv
<1>3. ASSUME NEW c \in game.ata, CommandWrite(c) PROVE StatusInv'
  <2>1. UNCHANGED game /\ (game.polite => Ready \/ c \in {"NOP", "SOFT_RESET"})
    BY <1>3 DEF CommandWrite
  <2>2. c \in {"NOP", "SOFT_RESET"} => Aborts
    BY DEF Aborts
  <2>3. gd.state = "waitcmd" => (gd.DRQ => Aborts)
    BY <1>1 DEF Status
  <2>4. CASE gd' = gd /\ gd.state # "waitcmd" /\ c \notin {"NOP", "SOFT_RESET"}
    <3>1. ~game.polite
      BY <1>1, <2>1, <2>4, ReadyIsWaitcmd
    <3>2. NeverHangs'
      BY <2>1, <3>1 DEF NeverHangs
    <3>3. Status(gd)'
      BY <1>1, <2>1, <2>4 DEF Status, Aborts
    <3> QED BY <3>2, <3>3 DEF StatusInv
  <2>5. CASE /\ Aside(gd, gd') /\ (gd.state = "waitcmd" \/ c \in {"NOP", "SOFT_RESET"})
             /\ (hung' = hung \/ ~options.hang_fix)
    BY <1>2, <2>1, <2>2, <2>3, <2>5, AsideStatus
  <2> QED BY <1>3, <2>4, <2>5, CommandEffect
<1>4. CASE PacketWrite
  <2>1. UNCHANGED game /\ gd.state = "waitpacket"
    BY <1>4 DEF PacketWrite
  <2>2. CASE SameRead(gd, gd') /\ gd'.state = "waitpacket" /\ gd'.DRQ = gd.DRQ /\ UNCHANGED hung
    <3>1. Status(gd')
      BY <1>1, <2>1, <2>2 DEF Status, InPio
    <3> QED BY <1>2, <2>1, <2>2, <3>1
  <2>3. CASE Aside(Packet, gd') /\ UNCHANGED hung
    BY <1>1, <1>2, <2>1, <2>3, PacketIs, AsideStatus
  <2>4. CASE UNCHANGED gd /\ (game.spi \cap Unclipped # {} \/ ~options.hang_fix)
    BY <1>1, <1>2, <2>1, <2>4
  <2>5. ASSUME NEW s \in game.starts, NEW n \in game.pio, gd' = CdRead(Packet, s, n, FALSE), UNCHANGED hung
        PROVE  StatusInv'
    <3>1. s \in Nat /\ n \in Nat
      BY <1>1, InputsAssumption
    <3>2. Status(gd')
      <4>1. Packet \in Drive
        BY <1>1, PacketIs
      <4>2. \/ gd'.state = "waitcmd" /\ ~gd'.DRQ
            \/ gd'.state = "pio_send" /\ gd'.DRQ /\ gd'.pio.left > 0
        BY <2>5, <3>1, <4>1, CdReadPioIs
      <4> QED BY <4>2 DEF Status, InPio
    <3> QED BY <1>2, <2>1, <2>5, <3>2
  <2>6. ASSUME NEW s \in game.starts, NEW n \in game.dma, gd' = CdRead(Packet, s, n, TRUE), UNCHANGED hung
        PROVE  StatusInv'
    <3>1. s \in Nat /\ n \in Nat
      BY <1>1, InputsAssumption
    <3>2. gd'.state = "readsector_dma" /\ ~gd'.DRQ /\ gd'.BSY
      BY <1>1, <2>6, <3>1, PacketIs, CdReadIs
    <3>3. Status(gd')
      BY <3>2 DEF Status, InPio
    <3> QED BY <1>2, <2>1, <2>6, <3>3
  <2> QED BY <1>4, <2>2, <2>3, <2>4, <2>5, <2>6, PacketEffect
<1>5. CASE DataWord
  <2>1. UNCHANGED <<game, hung>> /\ InPio(gd)
    BY <1>5 DEF DataWord, InPio
  <2>2. PICK d \in Drive :
          /\ d.state = gd.state /\ d.DRQ = gd.DRQ
          /\ \/ gd' = d /\ d.pio.left > 0
             \/ gd' = ReadsectorPio(d)
             \/ gd' = ProcPacketDone(d)
    BY <1>5, <2>1, DataWordEffect
  <2>3. CASE gd' = d /\ d.pio.left > 0
    <3>1. Status(gd')
      BY <1>1, <2>1, <2>2, <2>3 DEF Status, InPio
    <3> QED BY <1>2, <2>1, <3>1
  <2>4. CASE gd' = ReadsectorPio(d)
    <3> DEFINE n == Smaller(d.remaining, MaxPio)
               next == IF d.remaining > MaxPio THEN "readsector_pio" ELSE "pio_end"
    <3>1. /\ d.remaining \in Nat
          /\ d.remaining = 0 => gd'.state = "waitcmd" /\ ~gd'.DRQ
          /\ d.remaining > 0 =>
               /\ gd'.state = "pio_send" /\ gd'.DRQ
               /\ gd'.pio = [unit |-> d.start * SectorSize, left |-> n * SectorSize, next |-> next]
               /\ n * SectorSize > 0
      BY <2>4, ReadsectorPioIs DEF Drive
    <3>2. d.remaining > 0 => gd'.pio.left > 0
      BY <3>1
    <3>3. Status(gd')
      BY <3>1, <3>2 DEF Status, InPio
    <3> QED BY <1>2, <2>1, <3>3
  <2>5. CASE gd' = ProcPacketDone(d)
    <3>1. Status(gd')
      BY <2>5, ProcPacketDoneIs DEF Status, InPio
    <3> QED BY <1>2, <2>1, <3>1
  <2> QED BY <2>2, <2>3, <2>4, <2>5
<1>6. CASE StatusRead
  BY <1>1, <1>2, <1>6 DEF StatusRead
<1>7. ASSUME NEW m \in DmaRegisters, m.done <= DmaLen(m), NEW b \in Nat, UpdateGDRom(m, b),
             UNCHANGED game
      PROVE  StatusInv'
  <2>1. CASE UNCHANGED <<gd, hung, host>>
    BY <1>1, <1>2, <1>7, <2>1
  <2>2. ASSUME NEW len \in Nat,
               \/ gd' = Copied(len).gd /\ (UNCHANGED hung \/ ~options.hang_fix)
               \/ gd' = ProcPacketDone(Copied(len).gd) /\ UNCHANGED hung
        PROVE  StatusInv'
    <3> DEFINE e == Copied(len).gd
    <3>1. e \in Drive /\ e.state = gd.state /\ e.pio = gd.pio /\ e.DRQ = gd.DRQ /\ e.BSY = gd.BSY
      BY <1>1, CopiedIs
    <3>2. gd' = e \/ gd' = ProcPacketDone(e)
      BY <2>2
    <3> HIDE DEF e
    <3>3. Status(e) /\ Status(ProcPacketDone(e))
      BY <1>1, <3>1, ProcPacketDoneIs DEF Status, InPio
    <3> QED BY <1>2, <1>7, <2>2, <3>2, <3>3
  <2> QED BY <1>7, <2>1, <2>2, UpdateEffect
<1>8. CASE SlowUpdate
  <2> DEFINE Budget(c) == IF options.delay THEN Smaller(s_gd_budget + c, MaxChunk) ELSE 0
  <2>1. PICK c \in Credits : UpdateGDRom(dma, Budget(c))
    BY <1>8 DEF SlowUpdate
  <2>2. Budget(c) \in Nat
    BY InputsAssumption, DriveAssumption DEF GdTypeOK, Smaller
  <2>3. dma \in DmaRegisters /\ dma.done <= DmaLen(dma) /\ UNCHANGED game
    BY <1>8 DEF GdTypeOK, SlowUpdate
  <2> HIDE DEF Budget
  <2> QED BY <1>7, <2>1, <2>2, <2>3
<1>9. ASSUME NEW len \in game.lengths, DmaStart(len) PROVE StatusInv'
  <2> DEFINE m == [dma EXCEPT !.len = len, !.st = TRUE, !.done = 0]
  <2>1. UpdateGDRom(m, s_gd_budget) /\ UNCHANGED game /\ s_gd_budget \in Nat
    BY <1>9 DEF DmaStart, GdTypeOK
  <2>2. m \in DmaRegisters /\ m.done <= DmaLen(m)
    BY StartedDma
  <2> HIDE DEF m
  <2> QED BY <1>7, <2>1, <2>2
<1>10. ASSUME NEW on \in BOOLEAN, DmaEnable(on) PROVE StatusInv'
  BY <1>1, <1>2, <1>10 DEF DmaEnable
<1>11. CASE DmaEnd \/ DmaAck
  BY <1>1, <1>2, <1>11 DEF DmaEnd, DmaAck
<1>12. CASE DiskChange \/ AudioSector
  BY <1>1, <1>2, <1>12 DEF DiskChange, AudioSector
<1>13. CASE UNCHANGED gdvars
  BY <1>1, <1>2, <1>13 DEF gdvars
<1> QED
  BY <1>3, <1>4, <1>5, <1>6, <1>8, <1>9, <1>10, <1>11, <1>12, <1>13 DEF GdNext

\* The guests for which the drive's two ways of reading never mix: one whose
\* PIO reads fit a block, or one that runs no DMA.
Unmixed == (\A n \in game.pio : n <= MaxPio) \/ game.lengths = {}

UnderWay(d) == d.state = "readsector_dma" \/ Sending(d)

\* Where drive d stands in the read h: mid-way, or with nothing left of it.
At(d, h) ==
  /\ d.state = "readsector_dma" => DmaReadAt(d, h)
  /\ Sending(d) => PioReadAt(d, h)
  /\ d.state = "pio_get" => d.pio.unit = NoData
  /\ InPio(d) /\ ~Sending(d) => h = NoRead /\ d.pio.next # "readsector_pio"
  /\ d.state = "waitpacket" => h = NoRead
  /\ ~UnderWay(d) => Drained(d) /\ h.ok
  /\ options.hang_fix /\ d.state = "waitcmd" /\ h.ask > 0 => h.got = h.ask

ReadInv ==
  /\ At(gd, host)
  /\ game.lengths = {} => ~dma.st
  /\ options.state_fix /\ audio.playing => ~UnderWay(gd)

OrderInv == ~Aborts /\ Unmixed => ReadInv

\* With nothing left of a read, any command may follow.
LEMMA AsideAt ==
  ASSUME NEW d, NEW e, Drained(d), Aside(d, e)
  PROVE  At(e, NoRead) /\ ~UnderWay(e)
<1>1. Drained(e) /\ NoRead.ok /\ NoRead.ask = 0
  BY NoReadType DEF Aside, SameRead, Drained
<1>2. e.state # "readsector_dma" /\ ~Sending(e)
  BY DEF Aside, Replies, Sending
<1>3. e.state = "pio_get" => e.pio.unit = NoData
  BY DEF Aside, Replies
<1>4. InPio(e) => e.pio.next # "readsector_pio"
  BY DEF Aside, Replies, InPio
<1>5. ~(NoRead.ask > 0)
  BY <1>1
<1> QED BY <1>1, <1>2, <1>3, <1>4, <1>5 DEF At, UnderWay

\* With nothing of a read under way, and a DMA running, the drive is drained.
LEMMA OthersAreDrained ==
  ASSUME ReadInv, game.lengths # {}, gd.state # "readsector_dma"
  PROVE  Drained(gd) /\ host.ok
<1>1. CASE Sending(gd)
  BY <1>1 DEF ReadInv, At, PioReadAt, Drained
<1>2. CASE ~Sending(gd)
  BY <1>2 DEF ReadInv, At, UnderWay
<1> QED BY <1>1, <1>2

\* A word of a PIO read is the next one asked for.
LEMMA PioWord ==
  ASSUME NEW d \in Drive, gd \in Drive, host \in ReadOfDisc, gd.pio.left > 0,
         Sending(gd), PioReadAt(gd, host), SameRead(gd, d), d.state = gd.state,
         d.DRQ = gd.DRQ, d.pio.next = gd.pio.next, d.pio.left = gd.pio.left - 1,
         d.pio.unit = IF gd.pio.unit = NoData THEN NoData ELSE gd.pio.unit + 1
  PROVE  LET h == Delivered(host, gd.pio.unit, 1)
         IN /\ h \in ReadOfDisc /\ PioReadAt(d, h) /\ Sending(d)
<1> DEFINE h == Delivered(host, gd.pio.unit, 1)
           r == gd.remaining * SectorSize
           s == gd.start * SectorSize
<1>1. /\ gd.pio.unit \in Nat /\ gd.pio.left \in Nat /\ gd.remaining \in Nat /\ gd.start \in Nat
      /\ host.got \in Nat /\ host.base \in Nat /\ host.ask \in Nat
  BY DEF Drive, Block, Units, Sending, ReadOfDisc
<1>2. r \in Nat /\ s \in Nat
  BY <1>1, Sectors
<1>3. d.remaining = gd.remaining /\ d.start = gd.start /\ d.cache = gd.cache
  BY DEF SameRead
<1>4. d.pio.unit = gd.pio.unit + 1
  BY <1>1 DEF NoData
<1>5. Sending(d)
  BY <1>1, <1>4 DEF Sending, NoData
<1>6. /\ d.remaining * SectorSize = r /\ d.start * SectorSize = s
  BY <1>3
<1>7. /\ host.ok /\ gd.pio.unit = host.base + host.got /\ gd.cache.left = 0
      /\ \/ /\ gd.pio.next = "pio_end" /\ gd.remaining = 0
            /\ host.got + gd.pio.left = host.ask
         \/ /\ gd.pio.next = "readsector_pio" /\ gd.remaining > 0 /\ game.lengths = {}
            /\ s = gd.pio.unit + gd.pio.left
            /\ host.got + gd.pio.left + r = host.ask
  BY DEF PioReadAt
<1> HIDE DEF r, s
<1>8. host.got + 1 <= host.ask
  BY <1>1, <1>2, <1>7
<1>9. /\ h \in ReadOfDisc /\ h.base = host.base /\ h.ask = host.ask /\ h.got = host.got + 1
  <2> DEFINE n == 1
  <2>1. n \in Nat
    OBVIOUS
  <2> HIDE DEF n
  <2>2. /\ Delivered(host, gd.pio.unit, n) \in ReadOfDisc
        /\ Delivered(host, gd.pio.unit, n).base = host.base
        /\ Delivered(host, gd.pio.unit, n).ask = host.ask
        /\ Delivered(host, gd.pio.unit, n).got = host.got + n
    BY <1>1, <2>1, DeliveredIs
  <2> QED BY <2>2 DEF n
<1>10. h.ok
  BY <1>1, <1>7, <1>8, DeliveredOk
<1> HIDE DEF h
<1>11. d.pio.unit = h.base + h.got /\ d.cache.left = 0
  BY <1>1, <1>3, <1>4, <1>7, <1>9
<1>12. CASE gd.pio.next = "pio_end"
  <2>1. d.pio.next = "pio_end" /\ d.remaining = 0 /\ h.got + d.pio.left = h.ask
    BY <1>1, <1>3, <1>7, <1>9, <1>12
  <2>2. PioReadAt(d, h)
    BY <1>10, <1>11, <2>1 DEF PioReadAt
  <2> QED BY <1>5, <1>9, <2>2 DEF h
<1>13. CASE gd.pio.next # "pio_end"
  <2>1. /\ d.pio.next = "readsector_pio" /\ d.remaining > 0 /\ game.lengths = {}
        /\ s = d.pio.unit + d.pio.left
        /\ h.got + d.pio.left + r = h.ask
    BY <1>1, <1>2, <1>3, <1>4, <1>7, <1>9, <1>13
  <2>2. PioReadAt(d, h)
    BY <1>6, <1>10, <1>11, <2>1 DEF PioReadAt
  <2> QED BY <1>5, <1>9, <2>2 DEF h
<1> QED BY <1>12, <1>13

\* A block that is through leads to the next one, or the read is complete.
LEMMA PioBlockThrough ==
  ASSUME NEW d \in Drive, NEW h \in ReadOfDisc, Sending(d), PioReadAt(d, h), d.pio.left = 0
  PROVE  /\ d.pio.next = "readsector_pio" => At(ReadsectorPio(d), h)
         /\ d.pio.next # "readsector_pio" => At(ProcPacketDone(d), h) /\ ~UnderWay(ProcPacketDone(d))
<1>1. h.got \in Nat /\ h.base \in Nat /\ h.ask \in Nat /\ d.remaining \in Nat
  BY DEF ReadOfDisc, Drive
<1>2. ASSUME d.pio.next = "readsector_pio"
      PROVE  At(ReadsectorPio(d), h)
  <2>1. d.remaining > 0 /\ h.ok /\ d.cache.left = 0 /\ game.lengths = {}
    BY <1>2 DEF PioReadAt
  <2>2. d.start * SectorSize = h.base + h.got /\ h.got + d.remaining * SectorSize = h.ask
    <3> DEFINE r == d.remaining * SectorSize
               s == d.start * SectorSize
    <3>1. s = d.pio.unit + d.pio.left /\ h.got + d.pio.left + r = h.ask /\ d.pio.unit = h.base + h.got
      BY <1>2 DEF PioReadAt
    <3>2. r \in Nat /\ s \in Nat
      BY <1>1, Sectors DEF Drive
    <3> HIDE DEF r, s
    <3>3. s = h.base + h.got /\ h.got + r = h.ask
      BY <1>1, <3>1, <3>2
    <3> QED BY <3>3 DEF r, s
  <2>3. BlockAt(ReadsectorPio(d), h)
    BY <2>1, <2>2, ReadsectorPioAt
  <2> QED BY <2>3 DEF BlockAt, At, Sending, UnderWay, InPio
<1>3. ASSUME d.pio.next # "readsector_pio"
      PROVE  At(ProcPacketDone(d), h) /\ ~UnderWay(ProcPacketDone(d))
  <2>1. h.ok /\ d.cache.left = 0 /\ d.remaining = 0 /\ h.got = h.ask
    BY <1>1, <1>3 DEF PioReadAt
  <2> DEFINE e == ProcPacketDone(d)
  <2>2. e.state = "waitcmd" /\ SameRead(d, e)
    BY ProcPacketDoneIs
  <2> HIDE DEF e
  <2>3. Drained(e)
    BY <2>1, <2>2 DEF Drained, SameRead
  <2>4. At(e, h) /\ ~UnderWay(e)
    BY <2>1, <2>2, <2>3 DEF At, Sending, UnderWay, InPio
  <2> QED BY <2>4 DEF e
<1> QED BY <1>2, <1>3

\* What UpdateGDRom moves belongs to the DMA read, and ends with it.
LEMMA DmaMoves ==
  ASSUME gd \in Drive, host \in ReadOfDisc, ReadInv, game.lengths # {}, NEW len \in Nat
  PROVE  LET c == Copied(len)
         IN /\ At(c.gd, c.host) /\ (UnderWay(c.gd) => UnderWay(gd))
            /\ ~UnderWay(ProcPacketDone(c.gd))
            /\ Drained(c.gd) /\ (options.hang_fix => ~Drained(gd)) => At(ProcPacketDone(c.gd), c.host)
            /\ gd.state # "readsector_dma" => Drained(gd) /\ c.gd = gd /\ c.host = host
<1> DEFINE c == Copied(len)
           e == c.gd
           h == c.host
           p == ProcPacketDone(e)
<1>1. /\ e \in Drive /\ h \in ReadOfDisc /\ e.state = gd.state /\ e.pio = gd.pio
      /\ DmaReadAt(gd, host) => DmaReadAt(e, h)
      /\ Drained(gd) => e = gd /\ h = host
  BY CopiedIs
<1>2. p.state = "waitcmd" /\ SameRead(e, p)
  BY <1>1, ProcPacketDoneIs
<1>3. At(gd, host)
  BY DEF ReadInv
<1> SUFFICES /\ At(e, h) /\ (UnderWay(e) => UnderWay(gd))
             /\ ~UnderWay(p)
             /\ Drained(e) /\ (options.hang_fix => ~Drained(gd)) => At(p, h)
             /\ gd.state # "readsector_dma" => Drained(gd) /\ e = gd /\ h = host
  OBVIOUS
<1> HIDE DEF c, p
<1>4. ~UnderWay(p)
  BY <1>2 DEF UnderWay, Sending
<1>5. UnderWay(e) => UnderWay(gd)
  BY <1>1 DEF UnderWay, Sending
<1>6. ASSUME Drained(e), h.ok, options.hang_fix => h.got = h.ask
      PROVE  At(p, h)
  <2>1. Drained(p)
    BY <1>2, <1>6 DEF Drained, SameRead
  <2> QED BY <1>2, <1>4, <1>6, <2>1 DEF At, InPio, UnderWay
<1>7. CASE gd.state = "readsector_dma"
  <2>1. DmaReadAt(e, h)
    BY <1>1, <1>3, <1>7 DEF At
  <2>2. At(e, h)
    BY <1>1, <1>7, <2>1 DEF At, Sending, InPio, UnderWay
  <2>3. ASSUME Drained(e) PROVE h.ok /\ h.got = h.ask
    <3>1. e.remaining = 0 /\ e.cache.left = 0 /\ h.ok /\ h.got + e.cache.left + e.remaining * SectorSize = h.ask
      BY <2>1, <2>3 DEF Drained, DmaReadAt
    <3>2. 0 * SectorSize = 0
      BY DriveAssumption
    <3>3. h.got \in Nat
      BY <1>1 DEF ReadOfDisc
    <3> HIDE DEF e, h
    <3> QED BY <3>1, <3>2, <3>3
  <2> QED BY <1>4, <1>5, <1>6, <1>7, <2>2, <2>3
<1>8. CASE gd.state # "readsector_dma"
  <2>1. Drained(gd) /\ host.ok
    BY <1>8, OthersAreDrained
  <2>2. e = gd /\ h = host
    BY <1>1, <2>1
  <2>3. ~options.hang_fix => At(p, h)
    BY <1>6, <2>1, <2>2
  <2> QED BY <1>3, <1>4, <1>5, <2>1, <2>2, <2>3
<1> QED BY <1>7, <1>8

\* Every step of a guest that mixes no reads keeps the read in order.
LEMMA ReadStep ==
  ASSUME GdTypeOK, StatusInv, ~Aborts, Unmixed, ReadInv, [GdNext]_gdvars
  PROVE  ReadInv'
<1>1. /\ game \in Games /\ gd \in Drive /\ host \in ReadOfDisc /\ audio \in Audio
      /\ At(gd, host) /\ (game.lengths = {} => ~dma.st)
      /\ (options.state_fix /\ audio.playing => ~UnderWay(gd))
  BY DEF GdTypeOK, ReadInv
<1>2. ASSUME UNCHANGED game, At(gd', host'), dma' = dma,
             options.state_fix /\ audio'.playing => ~UnderWay(gd')
      PROVE  ReadInv'
  BY <1>1, <1>2 DEF ReadInv, At, UnderWay, Sending, InPio, Drained, DmaReadAt, PioReadAt, options
<1>3. ASSUME NEW c \in game.ata, CommandWrite(c) PROVE ReadInv'
  <2>1. UNCHANGED <<game, dma>> /\ c \notin {"NOP", "SOFT_RESET"}
    BY <1>3 DEF CommandWrite, Aborts
  <2>2. audio'.playing => audio.playing
    BY <1>1, <1>3 DEF CommandWrite, CutOff, SetDisc, sound, Audio
  <2>3. CASE gd' = gd /\ host' = host
    BY <1>1, <1>2, <2>1, <2>2, <2>3
  <2>4. CASE Aside(gd, gd') /\ gd.state = "waitcmd"
               /\ (host' = NoRead \/ (host' = host /\ gd'.state = "procata"))
    <3>1. Drained(gd) /\ host.ok
      BY <1>1, <2>4 DEF At, UnderWay, Sending
    <3>2. At(gd', NoRead) /\ ~UnderWay(gd')
      BY <2>4, <3>1, AsideAt
    <3>3. gd'.state = "procata" => At(gd', host)
      BY <3>1, <3>2 DEF At, UnderWay, Sending, InPio
    <3> QED BY <1>2, <2>1, <2>4, <3>2, <3>3
  <2>5. \/ gd' = gd /\ host' = host
        \/ /\ Aside(gd, gd') /\ host' = NoRead
           /\ gd.state = "waitcmd" \/ c \in {"NOP", "SOFT_RESET"}
        \/ Aside(gd, gd') /\ gd'.state = "procata" /\ host' = host /\ gd.state = "waitcmd"
    BY <1>3, CommandEffect
  <2> QED BY <2>1, <2>3, <2>4, <2>5
<1>4. CASE PacketWrite
  <2>1. UNCHANGED <<game, dma>> /\ gd.state = "waitpacket"
    BY <1>4 DEF PacketWrite
  <2>2. Drained(gd) /\ host = NoRead
    BY <1>1, <2>1 DEF At, UnderWay, Sending
  <2>3. CASE SameRead(gd, gd') /\ gd'.state = "waitpacket" /\ UNCHANGED host
    <3>1. Drained(gd') /\ host' = NoRead /\ NoRead.ok
      BY <2>2, <2>3, NoReadType DEF Drained, SameRead
    <3>2. At(gd', host') /\ ~UnderWay(gd')
      BY <2>3, <3>1 DEF At, UnderWay, Sending, InPio
    <3> QED BY <1>2, <2>1, <3>2
  <2>4. Packet \in Drive /\ Drained(Packet) /\ Packet.cache.left = 0
    BY <1>1, <2>2, PacketIs DEF Drained, SameRead
  <2>5. CASE Aside(Packet, gd') /\ UNCHANGED host
    BY <1>2, <2>1, <2>2, <2>4, <2>5, AsideAt
  <2>6. CASE UNCHANGED <<gd, host, sound>>
    BY <1>1, <1>2, <2>1, <2>6 DEF sound
  <2>7. CutOff(DataRead(options, audio)) => (options.state_fix => ~audio'.playing)
    BY <1>1 DEF CutOff, DataRead, Audio
  <2>8. ASSUME NEW s \in game.starts, NEW n \in game.pio, gd' = CdRead(Packet, s, n, FALSE),
               host' = ReadAsked(s, n), CutOff(DataRead(options, audio))
        PROVE  ReadInv'
    <3>1. s \in Nat /\ n \in Nat
      BY <1>1, InputsAssumption
    <3>2. n > MaxPio => game.lengths = {}
      BY <3>1, DriveAssumption DEF Unmixed
    <3>3. \/ gd'.state = "waitcmd" /\ gd'.cache = Packet.cache /\ gd'.remaining = 0
               /\ host'.ok /\ host'.ask = 0
          \/ BlockAt(gd', host')
      BY <2>4, <2>8, <3>1, <3>2, CdReadPioIs
    <3>4. At(gd', host')
      <4>1. CASE BlockAt(gd', host')
        BY <4>1 DEF BlockAt, At, Sending, UnderWay, InPio
      <4>2. CASE gd'.state = "waitcmd" /\ gd'.cache = Packet.cache /\ gd'.remaining = 0
                   /\ host'.ok /\ host'.ask = 0
        <5>1. Drained(gd') /\ ~(host'.ask > 0)
          BY <2>4, <4>2 DEF Drained
        <5> QED BY <4>2, <5>1 DEF At, Sending, UnderWay, InPio
      <4> QED BY <3>3, <4>1, <4>2
    <3> QED BY <1>2, <2>1, <2>7, <2>8, <3>4
  <2>9. ASSUME NEW s \in game.starts, NEW n \in game.dma, gd' = CdRead(Packet, s, n, TRUE),
               host' = ReadAsked(s, n), CutOff(DataRead(options, audio))
        PROVE  ReadInv'
    <3>1. s \in Nat /\ n \in Nat
      BY <1>1, InputsAssumption
    <3>2. gd'.state = "readsector_dma" /\ DmaReadAt(gd', host')
      BY <2>4, <2>9, <3>1, CdReadIs
    <3>3. At(gd', host')
      BY <3>2 DEF At, Sending, UnderWay, InPio
    <3> QED BY <1>2, <2>1, <2>7, <2>9, <3>3
  <2> QED BY <1>4, <2>3, <2>5, <2>6, <2>8, <2>9, PacketEffect
<1>5. CASE DataWord
  <2>1. /\ UNCHANGED <<game, dma, sound>> /\ InPio(gd) /\ gd.pio.left > 0
        /\ host' = IF gd.pio.unit = NoData THEN host ELSE Delivered(host, gd.pio.unit, 1)
    BY <1>5 DEF DataWord, InPio, StatusInv, Status
  <2>2. PICK d \in Drive :
          /\ SameRead(gd, d) /\ d.state = gd.state /\ d.DRQ = gd.DRQ
          /\ d.pio.next = gd.pio.next /\ d.pio.left = gd.pio.left - 1
          /\ d.pio.unit = IF gd.pio.unit = NoData THEN NoData ELSE gd.pio.unit + 1
          /\ \/ gd' = d /\ d.pio.left > 0
             \/ gd' = ReadsectorPio(d) /\ d.pio.left = 0 /\ gd.pio.next = "readsector_pio"
             \/ gd' = ProcPacketDone(d) /\ d.pio.left = 0 /\ gd.pio.next # "readsector_pio"
    BY <1>5, <2>1, DataWordEffect
  <2>3. CASE Sending(gd)
    <3>1. PioReadAt(gd, host) /\ ~(options.state_fix /\ audio'.playing)
      BY <1>1, <2>1, <2>3 DEF At, UnderWay, sound
    <3>2. host' \in ReadOfDisc /\ PioReadAt(d, host') /\ Sending(d)
      BY <1>1, <2>1, <2>2, <2>3, <3>1, PioWord DEF Sending
    <3>3. CASE gd' = d
      <4>1. At(gd', host')
        BY <3>2, <3>3 DEF At, Sending, UnderWay, InPio
      <4> QED BY <1>2, <2>1, <3>1, <4>1
    <3>4. CASE gd' # d
      <4>1. At(gd', host')
        BY <2>2, <3>2, <3>4, PioBlockThrough
      <4> QED BY <1>2, <2>1, <3>1, <4>1
    <3> QED BY <3>3, <3>4
  <2>4. CASE ~Sending(gd)
    <3>1. gd.pio.unit = NoData /\ host = NoRead /\ gd.pio.next # "readsector_pio" /\ host' = host
      BY <1>1, <2>1, <2>4 DEF At, Sending, InPio
    <3>2. Drained(gd) /\ Drained(d) /\ host.ok
      BY <1>1, <2>1, <2>2, <2>4 DEF At, UnderWay, InPio, SameRead, Drained
    <3>3. CASE gd' = d
      <4>1. ~UnderWay(d)
        BY <2>1, <2>2, <3>1 DEF UnderWay, Sending, InPio
      <4>2. At(gd', host')
        BY <2>1, <2>2, <3>1, <3>2, <3>3, <4>1, NoReadType DEF At, InPio, UnderWay, Sending
      <4> QED BY <1>2, <2>1, <3>3, <4>1, <4>2
    <3>4. CASE gd' = ProcPacketDone(d)
      <4>1. At(gd', host') /\ ~UnderWay(gd')
        BY <3>1, <3>2, <3>4, DoneIsAside, AsideAt
      <4> QED BY <1>2, <2>1, <4>1
    <3> QED BY <2>2, <3>1, <3>3, <3>4
  <2> QED BY <2>3, <2>4
<1>6. ASSUME UNCHANGED <<game, gd, host>>, dma'.st => dma.st, audio'.playing => audio.playing
      PROVE  ReadInv'
  BY <1>1, <1>6 DEF ReadInv, At, UnderWay, Sending, InPio, Drained, DmaReadAt, PioReadAt, options
<1>7. CASE StatusRead \/ DmaEnd \/ DmaAck \/ UNCHANGED gdvars
  BY <1>6, <1>7 DEF StatusRead, DmaEnd, DmaAck, gdvars, sound
<1>8. ASSUME NEW m \in DmaRegisters, m.done <= DmaLen(m), NEW b \in Nat, UpdateGDRom(m, b),
             UNCHANGED <<game, sound>>, m.st => game.lengths # {}
      PROVE  ReadInv'
  <2>1. UNCHANGED game /\ audio' = audio /\ (dma'.st => m.st)
    BY <1>8, UpdateEffect DEF sound
  <2>2. ASSUME At(gd', host'), UnderWay(gd') => UnderWay(gd)
        PROVE  ReadInv'
    BY <1>1, <1>8, <2>1, <2>2 DEF ReadInv, At, UnderWay, Sending, InPio, Drained, DmaReadAt, PioReadAt, options
  <2>3. CASE UNCHANGED <<gd, hung, host>>
    BY <1>1, <2>2, <2>3
  <2>4. ASSUME NEW len \in Nat, m.st, options.hang_fix => ~Drained(gd), host' = Copied(len).host,
               \/ gd' = Copied(len).gd
               \/ gd' = ProcPacketDone(Copied(len).gd) /\ Drained(Copied(len).gd)
        PROVE  ReadInv'
    BY <1>1, <1>8, <2>2, <2>4, DmaMoves
  <2> QED BY <1>8, <2>1, <2>3, <2>4, UpdateEffect
<1>9. CASE SlowUpdate
  <2> DEFINE Budget(c) == IF options.delay THEN Smaller(s_gd_budget + c, MaxChunk) ELSE 0
  <2>1. PICK c \in Credits : UpdateGDRom(dma, Budget(c))
    BY <1>9 DEF SlowUpdate
  <2>2. Budget(c) \in Nat
    BY InputsAssumption, DriveAssumption DEF GdTypeOK, Smaller
  <2>3. dma \in DmaRegisters /\ dma.done <= DmaLen(dma) /\ UNCHANGED <<game, sound>>
    BY <1>9 DEF GdTypeOK, SlowUpdate
  <2> HIDE DEF Budget
  <2> QED BY <1>1, <1>8, <2>1, <2>2, <2>3
<1>10. ASSUME NEW len \in game.lengths, DmaStart(len) PROVE ReadInv'
  <2> DEFINE m == [dma EXCEPT !.len = len, !.st = TRUE, !.done = 0]
  <2>1. UpdateGDRom(m, s_gd_budget) /\ UNCHANGED <<game, sound>> /\ s_gd_budget \in Nat
    BY <1>10 DEF DmaStart, GdTypeOK
  <2>2. m \in DmaRegisters /\ m.done <= DmaLen(m)
    BY StartedDma
  <2>3. game.lengths # {}
    OBVIOUS
  <2> HIDE DEF m
  <2> QED BY <1>8, <2>1, <2>2, <2>3
<1>11. ASSUME NEW on \in BOOLEAN, DmaEnable(on) PROVE ReadInv'
  <2>1. dma' = [dma EXCEPT !.en = on, !.st = @ /\ on] /\ UNCHANGED <<game, gd, host, sound>>
    BY <1>11 DEF DmaEnable
  <2>2. dma'.st => dma.st
    BY <2>1 DEF GdTypeOK, DmaRegisters
  <2> QED BY <1>6, <2>1, <2>2 DEF sound
<1>12. CASE DiskChange
  <2>1. UNCHANGED <<game, gd, dma, host>> /\ audio' = SetDisc(options, audio)
    BY <1>12 DEF DiskChange, CutOff
  <2>2. audio'.playing => audio.playing
    BY <1>1, <2>1 DEF SetDisc, Audio
  <2> QED BY <1>6, <2>1, <2>2
<1>13. CASE AudioSector
  BY <1>6, <1>13 DEF AudioSector
<1> QED
  BY <1>3, <1>4, <1>5, <1>7, <1>9, <1>10, <1>11, <1>12, <1>13 DEF GdNext

-----------------------------------------------------------------------------
(* The play                                                                *)

\* The sound unit is at the next sector of the play to be heard.
Following(a, h) ==
  /\ a.start = h.start
  /\ h.ahead <=> a.end > a.start
  /\ h.len = IF a.end > a.start THEN a.end - a.start ELSE 1
  /\ a.curr = h.start + (h.n % h.len)
  /\ a.repeats = Endless => h.total = 0 /\ h.n < h.len
  /\ a.repeats # Endless => h.total = h.n - (h.n % h.len) + (a.repeats + 1) * h.len

HeardInv ==
  options.state_fix /\ options.pause_fix =>
    /\ audio.playing <=> audio.status = "PLAYING"
    /\ heard.on /\ audio.status \in {"PLAYING", "PAUSED"} => Following(audio, heard)
    /\ HeardAsAsked

\* One sector on: the play still follows what was asked for, or is over in full.
LEMMA SectorFollows ==
  ASSUME NEW a \in Audio, NEW h \in PlayOfDisc, NEW p, p.state_fix, Following(a, h), h.on, h.ok
  PROVE  LET s == Sector(p, a)
             g == Heard(h, a.curr)
         IN /\ g.ok
            /\ \/ Following(s, g) /\ s.status = a.status /\ s.playing = a.playing
               \/ s.status = "TERMINATED" /\ ~s.playing /\ g.total > 0 /\ g.n = g.total
<1> DEFINE s == Sector(p, a)
           b == [a EXCEPT !.curr = @ + 1]
           ends == AtEnd(p, b)
           r == h.n % h.len
           n == IF h.total = 0 THEN (h.n + 1) % h.len ELSE Smaller(h.n + 1, h.total)
           ok == h.ok /\ a.curr = h.start + (h.n % h.len) /\ (h.total > 0 => h.n < h.total)
           g == Heard(h, a.curr)
           k == (a.repeats + 1) * h.len
<1>1. /\ a.start \in Nat /\ a.curr \in Nat /\ a.end \in Nat /\ a.repeats \in 0 .. Endless
      /\ h.start \in Nat /\ h.len \in Nat \ {0} /\ h.total \in Nat /\ h.n \in Nat
      /\ h.on \in BOOLEAN /\ h.ok \in BOOLEAN /\ h.ahead \in BOOLEAN
  BY DEF Audio, FAD, PlayOfDisc
<1>2. /\ a.start = h.start /\ (h.ahead <=> a.end > a.start)
      /\ h.len = IF a.end > a.start THEN a.end - a.start ELSE 1
      /\ a.curr = h.start + r
      /\ a.repeats = Endless => h.total = 0 /\ h.n < h.len
      /\ a.repeats # Endless => h.total = h.n - r + k
  BY DEF Following
<1>3. /\ r \in Nat /\ r < h.len /\ (h.n < h.len => r = h.n)
      /\ (h.n + 1) % h.len = IF r + 1 = h.len THEN 0 ELSE r + 1
  BY <1>1, NextMod
<1>4. Moved(a, s, ends, p.state_fix)
  BY SectorIs
<1>5. ends <=> r + 1 = h.len
  <2>1. b.curr = a.curr + 1 /\ b.end = a.end
    BY DEF Audio
  <2>2. ends <=> a.curr + 1 >= a.end
    BY <2>1 DEF AtEnd
  <2> HIDE DEF ends, r
  <2> QED BY <1>1, <1>2, <1>3, <2>2
<1>6. g = [h EXCEPT !.n = n, !.ok = ok]
  BY DEF Heard, PlayOfDisc
<1> HIDE DEF n, ok
<1>7. g.n = n /\ g.ok = ok /\ g.start = h.start /\ g.len = h.len /\ g.total = h.total /\ g.ahead = h.ahead
  BY <1>6 DEF PlayOfDisc
<1> HIDE DEF g, s, ends, b
<1>8. /\ k \in Nat /\ k >= h.len /\ (a.repeats = 0 => k = h.len)
      /\ (a.repeats > 0 => a.repeats * h.len = k - h.len)
  <2> DEFINE m == a.repeats * h.len
  <2>1. m \in Nat
    BY <1>1
  <2>2. k = m + h.len
    BY <1>1
  <2>3. a.repeats = 0 => m = 0
    BY <1>1
  <2> HIDE DEF m, k
  <2>4. k \in Nat /\ k >= h.len /\ (a.repeats = 0 => k = h.len) /\ m = k - h.len
    BY <1>1, <2>1, <2>2, <2>3
  <2> QED BY <2>4 DEF m
<1> HIDE DEF k, r
<1>9. a.repeats # Endless => h.n < h.total /\ h.total > 0 /\ n = h.n + 1
  BY <1>1, <1>2, <1>3, <1>8 DEF n, Smaller
<1>10. a.repeats = Endless => n = (IF r + 1 = h.len THEN 0 ELSE r + 1) /\ h.total = 0
  BY <1>1, <1>2, <1>3 DEF n
<1>11. g.ok
  <2>1. h.total > 0 => h.n < h.total
    BY <1>1, <1>9, <1>10
  <2>2. a.curr = h.start + (h.n % h.len)
    BY <1>2 DEF r
  <2>3. ok
    BY <2>1, <2>2 DEF ok
  <2> QED BY <1>7, <2>3
<1>12. n % h.len = (IF r + 1 = h.len THEN 0 ELSE r + 1) /\ n \in Nat
  <2>1. CASE a.repeats = Endless
    <3>1. n \in Nat /\ n < h.len
      BY <1>1, <1>3, <1>10, <2>1
    <3>2. n % h.len = n
      BY <1>1, <3>1, NextMod
    <3> QED BY <1>10, <2>1, <3>1, <3>2
  <2>2. CASE a.repeats # Endless
    BY <1>1, <1>3, <1>9, <2>2
  <2> QED BY <2>1, <2>2
<1>13. CASE ~ends
  <2>1. s.start = a.start /\ s.end = a.end /\ s.curr = a.curr + 1 /\ s.repeats = a.repeats
    BY <1>4, <1>13 DEF Moved
  <2>2. r + 1 # h.len
    BY <1>5, <1>13
  <2>3. s.curr = g.start + (g.n % g.len)
    BY <1>1, <1>2, <1>3, <1>7, <1>12, <2>1, <2>2
  <2>4. s.repeats = Endless => g.total = 0 /\ g.n < g.len
    BY <1>1, <1>3, <1>7, <1>10, <2>1, <2>2
  <2>5. ASSUME s.repeats # Endless
        PROVE  g.total = g.n - (g.n % g.len) + (s.repeats + 1) * g.len
    <3>1. g.total = g.n - (g.n % g.len) + k
      BY <1>1, <1>2, <1>3, <1>7, <1>8, <1>9, <1>12, <2>1, <2>2, <2>5
    <3>2. (s.repeats + 1) * g.len = k
      BY <1>7, <2>1 DEF k
    <3> QED BY <3>1, <3>2
  <2>6. g.len = IF s.end > s.start THEN s.end - s.start ELSE 1
    BY <1>2, <1>7, <2>1
  <2>7. s.start = g.start /\ (g.ahead <=> s.end > s.start)
    BY <1>2, <1>7, <2>1
  <2>8. Following(s, g)
    BY <2>3, <2>4, <2>5, <2>6, <2>7 DEF Following
  <2>9. s.status = a.status /\ s.playing = a.playing
    BY <1>4, <1>13 DEF Moved
  <2> QED BY <1>11, <2>8, <2>9 DEF s, g
<1>14. CASE ends /\ a.repeats > 0
  <2>1. /\ s.start = a.start /\ s.end = a.end /\ s.curr = a.start
        /\ s.repeats = IF a.repeats = Endless THEN Endless ELSE a.repeats - 1
        /\ s.status = a.status /\ s.playing = a.playing
    BY <1>4, <1>14 DEF Moved
  <2>2. r + 1 = h.len
    BY <1>5, <1>14
  <2>3. s.curr = g.start + (g.n % g.len)
    BY <1>1, <1>2, <1>7, <1>12, <2>1, <2>2
  <2>4. s.repeats = Endless <=> a.repeats = Endless
    BY <1>1, <2>1 DEF Endless
  <2>5. s.repeats = Endless => g.total = 0 /\ g.n < g.len
    BY <1>1, <1>7, <1>10, <2>2, <2>4
  <2>6. ASSUME s.repeats # Endless
        PROVE  g.total = g.n - (g.n % g.len) + (s.repeats + 1) * g.len
    <3>1. (s.repeats + 1) * g.len = k - h.len
      <4>1. s.repeats + 1 = a.repeats
        BY <1>1, <2>1, <2>4, <2>6
      <4> QED BY <1>7, <1>8, <1>14, <4>1
    <3>2. g.total = g.n - (g.n % g.len) + (k - h.len)
      <4>1. n = h.n + 1 /\ h.total = h.n - r + k
        BY <1>2, <1>9, <2>4, <2>6
      <4>2. g.n - (g.n % g.len) = h.n + 1
        BY <1>1, <1>7, <1>12, <2>2, <4>1
      <4>3. h.total = (h.n + 1) + (k - h.len)
        <5>1. /\ h.n \in Int /\ h.len \in Int /\ k \in Int /\ r \in Int /\ h.len = r + 1
              /\ h.total = h.n - r + k
          BY <1>1, <1>3, <1>8, <2>2, <4>1
        <5>2. \A x, y, z, w \in Int : y = z + 1 => x - z + w = (x + 1) + (w - y)
          OBVIOUS
        <5> QED BY <5>1, <5>2
      <4> QED BY <1>7, <4>2, <4>3
    <3> QED BY <3>1, <3>2
  <2>7. g.len = IF s.end > s.start THEN s.end - s.start ELSE 1
    BY <1>2, <1>7, <2>1
  <2>8. s.start = g.start /\ (g.ahead <=> s.end > s.start)
    BY <1>2, <1>7, <2>1
  <2>9. Following(s, g)
    BY <2>3, <2>5, <2>6, <2>7, <2>8 DEF Following
  <2> QED BY <1>11, <2>1, <2>9 DEF s, g
<1>15. CASE ends /\ a.repeats = 0
  <2>1. s.status = "TERMINATED" /\ ~s.playing
    BY <1>4, <1>15 DEF Moved
  <2>2. r + 1 = h.len /\ a.repeats # Endless
    BY <1>5, <1>15 DEF Endless
  <2>3. g.total > 0 /\ g.n = g.total
    BY <1>1, <1>2, <1>3, <1>7, <1>8, <1>9, <1>15, <2>2
  <2> QED BY <1>11, <2>1, <2>3 DEF s, g
<1> QED BY <1>1, <1>13, <1>14, <1>15

\* Every step keeps the play as it was asked for.
LEMMA HeardStep ==
  ASSUME GdTypeOK, HeardInv, [GdNext]_gdvars, UNCHANGED game
  PROVE  HeardInv'
<1> SUFFICES ASSUME options.state_fix, options.pause_fix
             PROVE  /\ audio'.playing <=> audio'.status = "PLAYING"
                    /\ heard'.on /\ audio'.status \in {"PLAYING", "PAUSED"} => Following(audio', heard')
                    /\ heard'.ok
                    /\ heard'.on /\ heard'.ahead /\ audio'.status = "TERMINATED" =>
                         heard'.total > 0 /\ heard'.n = heard'.total
  BY DEF HeardInv, HeardAsAsked, Following, options
<1>1. /\ audio \in Audio /\ heard \in PlayOfDisc /\ game \in Games
      /\ audio.playing \in BOOLEAN /\ heard.on \in BOOLEAN
  BY DEF GdTypeOK, Audio, PlayOfDisc
<1>2. /\ audio.playing <=> audio.status = "PLAYING"
      /\ heard.on /\ audio.status \in {"PLAYING", "PAUSED"} => Following(audio, heard)
      /\ heard.ok
      /\ heard.on /\ heard.ahead /\ audio.status = "TERMINATED" =>
           heard.total > 0 /\ heard.n = heard.total
  BY DEF HeardInv, HeardAsAsked
<1>3. ASSUME heard' = heard, audio'.start = audio.start, audio'.end = audio.end,
             audio'.curr = audio.curr, audio'.repeats = audio.repeats,
             audio'.playing = audio.playing, audio'.status = audio.status
      PROVE  /\ audio'.playing <=> audio'.status = "PLAYING"
             /\ heard'.on /\ audio'.status \in {"PLAYING", "PAUSED"} => Following(audio', heard')
             /\ heard'.ok
             /\ heard'.on /\ heard'.ahead /\ audio'.status = "TERMINATED" =>
                  heard'.total > 0 /\ heard'.n = heard'.total
  BY <1>2, <1>3 DEF Following
<1>4. ASSUME NEW a \in Audio, CutOff(a), ~a.playing, a.status # "PLAYING"
      PROVE  /\ audio'.playing <=> audio'.status = "PLAYING"
             /\ heard'.on /\ audio'.status \in {"PLAYING", "PAUSED"} => Following(audio', heard')
             /\ heard'.ok
             /\ heard'.on /\ heard'.ahead /\ audio'.status = "TERMINATED" =>
                  heard'.total > 0 /\ heard'.n = heard'.total
  <2>1. ~heard'.on /\ heard'.ok
    BY <1>1, <1>2, <1>4 DEF CutOff, PlayOfDisc
  <2> QED BY <1>4, <2>1 DEF CutOff
<1>5. ASSUME NEW c \in game.audio, AudioCommand(c)
      PROVE  /\ audio'.playing <=> audio'.status = "PLAYING"
             /\ heard'.on /\ audio'.status \in {"PLAYING", "PAUSED"} => Following(audio', heard')
             /\ heard'.ok
             /\ heard'.on /\ heard'.ahead /\ audio'.status = "TERMINATED" =>
                  heard'.total > 0 /\ heard'.n = heard'.total
  <2>1. /\ c.start \in Nat /\ c.end \in Nat /\ c.repeats \in 0 .. Endless
    <3>1. c \in AudioPacket
      BY <1>1, InputsAssumption DEF AudioPacket
    <3> QED BY <3>1 DEF AudioPacket, FAD
  <2>2. CASE c.kind = "play" /\ audio' = PlayRange(options, audio, c) /\ heard' = Asked(c)
    <3> DEFINE last == IF c.end = 0 THEN LastFAD ELSE c.end
               len == IF last > c.start THEN last - c.start ELSE 1
               total == IF c.repeats = Endless THEN 0 ELSE (c.repeats + 1) * len
    <3>1. /\ audio'.start = c.start /\ audio'.curr = c.start /\ audio'.end = last
          /\ audio'.repeats = c.repeats /\ audio'.playing /\ audio'.status = "PLAYING"
      BY <1>1, <2>2 DEF PlayRange, Playing, Audio
    <3>2. /\ heard'.start = c.start /\ heard'.len = len /\ heard'.n = 0 /\ heard'.ok
          /\ heard'.ahead = (last > c.start) /\ heard'.total = total
      BY <2>2 DEF Asked
    <3>3. last \in Nat /\ len \in Nat \ {0}
      BY <2>1, AddressAssumption
    <3>4. 0 % len = 0 /\ 0 < len
      <4> HIDE DEF len
      <4> QED BY <3>3, NextMod
    <3> DEFINE k == (c.repeats + 1) * len
    <3>5. k \in Nat
      <4>1. \A m \in Nat : m * len \in Nat
        <5> HIDE DEF len
        <5> QED BY <3>3
      <4>2. c.repeats + 1 \in Nat
        BY <2>1 DEF Endless
      <4> QED BY <4>1, <4>2
    <3>6. /\ audio'.curr = heard'.start + (heard'.n % heard'.len)
          /\ audio'.repeats = Endless => heard'.total = 0 /\ heard'.n < heard'.len
      <4> HIDE DEF len, last
      <4> QED BY <2>1, <3>1, <3>2, <3>4 DEF total
    <3>7. ASSUME audio'.repeats # Endless
          PROVE  heard'.total = heard'.n - (heard'.n % heard'.len) + (audio'.repeats + 1) * heard'.len
      <4>1. total = k
        BY <3>1, <3>7
      <4>2. (audio'.repeats + 1) * heard'.len = k
        BY <3>1, <3>2
      <4> HIDE DEF k, len, total
      <4> QED BY <3>2, <3>4, <3>5, <4>1, <4>2
    <3>8. Following(audio', heard')
      BY <3>1, <3>2, <3>6, <3>7 DEF Following
    <3> QED BY <3>1, <3>2, <3>8
  <2>3. CASE c.kind = "resume" /\ audio' = Resume(options, audio, c) /\ UNCHANGED heard
    <3>1. CASE audio.status # "PAUSED"
      <4>1. audio' = audio
        BY <1>1, <2>3, <3>1, ResumeIs
      <4> QED BY <1>3, <2>3, <4>1
    <3>2. CASE audio.status = "PAUSED" /\ audio.curr > audio.end
      <4>1. audio' = [audio EXCEPT !.status = "TERMINATED", !.playing = FALSE, !.unit = "STANDBY"]
        BY <1>1, <2>3, <3>2, ResumeIs
      <4>2. audio'.status = "TERMINATED" /\ ~audio'.playing
        BY <1>1, <4>1 DEF Audio
      <4>3. heard.on => ~heard.ahead
        <5> SUFFICES ASSUME heard.on, heard.ahead PROVE FALSE
          OBVIOUS
        <5>1. Following(audio, heard)
          BY <1>2, <3>2
        <5>2. /\ heard.n \in Nat /\ heard.len \in Nat \ {0} /\ heard.start \in Nat
              /\ audio.start \in Nat /\ audio.end \in Nat
          BY <1>1 DEF PlayOfDisc, Audio, FAD
        <5>3. (heard.n % heard.len) < heard.len /\ heard.n % heard.len \in Nat
          BY <5>2, NextMod
        <5>4. audio.curr = heard.start + (heard.n % heard.len) /\ heard.len = audio.end - audio.start
              /\ audio.start = heard.start
          BY <5>1 DEF Following
        <5> QED BY <3>2, <5>2, <5>3, <5>4
      <4> QED BY <1>2, <2>3, <4>2, <4>3
    <3>3. CASE audio.status = "PAUSED" /\ audio.curr <= audio.end
      <4>1. audio' = Playing(options, audio)
        BY <1>1, <2>3, <3>3, ResumeIs
      <4>2. /\ audio'.status = "PLAYING" /\ audio'.playing
            /\ audio'.start = audio.start /\ audio'.end = audio.end
            /\ audio'.curr = audio.curr /\ audio'.repeats = audio.repeats
        BY <1>1, <4>1 DEF Playing, Audio
      <4>3. heard.on => Following(audio', heard)
        BY <1>2, <3>3, <4>2 DEF Following
      <4> QED BY <1>2, <2>3, <4>2, <4>3
    <3>4. audio.curr <= audio.end \/ audio.curr > audio.end
      BY <1>1 DEF Audio, FAD
    <3> QED BY <3>1, <3>2, <3>3, <3>4
  <2>4. /\ Paused(options, audio).status # "PLAYING" /\ ~Paused(options, audio).playing
        /\ Paused(options, audio) \in Audio
    BY <1>1 DEF Paused, Audio, AudioStatus, UnitStatus
  <2>5. CASE c.kind = "seek" /\ CutOff(SeekTo(options, audio, c))
    <3>1. /\ SeekTo(options, audio, c) \in Audio /\ ~SeekTo(options, audio, c).playing
          /\ SeekTo(options, audio, c).status # "PLAYING"
      BY <2>1, <2>4 DEF SeekTo, Audio, FAD
    <3> QED BY <1>4, <2>5, <3>1
  <2>6. CASE c.kind = "home" /\ CutOff(SeekHome(options, audio))
    <3>1. /\ SeekHome(options, audio) \in Audio /\ ~SeekHome(options, audio).playing
          /\ SeekHome(options, audio).status # "PLAYING"
      BY <2>4, AddressAssumption DEF SeekHome, Audio, AudioStatus, UnitStatus, FAD
    <3> QED BY <1>4, <2>6, <3>1
  <2>7. CASE c.kind = "pause" /\ audio' = SeekPause(options, audio) /\ UNCHANGED heard
    <3>1. audio' = [audio EXCEPT !.playing = FALSE, !.unit = "PAUSE",
                      !.status = IF audio.status = "PLAYING" THEN "PAUSED" ELSE audio.status]
      BY <2>7 DEF SeekPause, Paused, Audio
    <3>2. /\ ~audio'.playing
          /\ audio'.status = IF audio.status = "PLAYING" THEN "PAUSED" ELSE audio.status
          /\ audio'.start = audio.start /\ audio'.end = audio.end
          /\ audio'.curr = audio.curr /\ audio'.repeats = audio.repeats
      BY <1>1, <3>1 DEF Audio
    <3>3. heard.on /\ audio'.status \in {"PLAYING", "PAUSED"} => Following(audio', heard)
      BY <1>2, <3>2 DEF Following
    <3> QED BY <1>2, <2>7, <3>2, <3>3
  <2> QED BY <1>5, <2>2, <2>3, <2>5, <2>6, <2>7 DEF AudioCommand
<1>6. CASE CutOff(DataRead(options, audio))
  <2>1. /\ DataRead(options, audio) \in Audio /\ ~DataRead(options, audio).playing
        /\ DataRead(options, audio).status # "PLAYING"
    BY <1>1 DEF DataRead, Audio, AudioStatus, UnitStatus
  <2> QED BY <1>4, <1>6, <2>1
<1>7. CASE CutOff(SetDisc(options, audio))
  <2>1. /\ SetDisc(options, audio) \in Audio /\ ~SetDisc(options, audio).playing
        /\ SetDisc(options, audio).status # "PLAYING"
    BY <1>1 DEF SetDisc, Audio, AudioStatus, UnitStatus
  <2> QED BY <1>4, <1>7, <2>1
<1>8. CASE audio' = [audio EXCEPT !.unit = "PAUSE"] /\ UNCHANGED heard
  <2>1. /\ audio'.start = audio.start /\ audio'.end = audio.end
        /\ audio'.curr = audio.curr /\ audio'.repeats = audio.repeats
        /\ audio'.playing = audio.playing /\ audio'.status = audio.status
    BY <1>1, <1>8 DEF Audio
  <2> QED BY <1>3, <1>8, <2>1
<1>9. CASE audio.playing /\ audio' = Sector(options, audio) /\ heard' = Heard(heard, audio.curr)
  <2>1. Moved(audio, audio', AtEnd(options, [audio EXCEPT !.curr = @ + 1]), options.state_fix)
    BY <1>1, <1>9, SectorIs
  <2>2. audio'.playing <=> audio'.status = "PLAYING"
    <3>1. audio.repeats > 0 \/ audio.repeats = 0
      BY <1>1 DEF Audio
    <3> QED BY <1>2, <2>1, <3>1 DEF Moved
  <2>3. CASE ~heard.on
    <3>1. heard' = heard
      BY <1>9, <2>3 DEF Heard
    <3> QED BY <1>2, <2>2, <2>3, <3>1
  <2>4. CASE heard.on
    <3>1. Following(audio, heard)
      BY <1>2, <1>9, <2>4
    <3>2. /\ heard'.ok
          /\ \/ Following(audio', heard') /\ audio'.status = audio.status /\ audio'.playing = audio.playing
             \/ audio'.status = "TERMINATED" /\ ~audio'.playing /\ heard'.total > 0 /\ heard'.n = heard'.total
      BY <1>1, <1>2, <1>9, <2>4, <3>1, SectorFollows
    <3> QED BY <1>2, <1>9, <2>2, <3>2
  <2> QED BY <2>3, <2>4
<1>10. CASE UNCHANGED sound
  BY <1>3, <1>10 DEF sound
<1> QED BY <1>5, <1>6, <1>7, <1>8, <1>9, <1>10, EveryStepIsASoundStep DEF SoundStep

-----------------------------------------------------------------------------
(* The theorems                                                            *)

\* No step changes the guest.
LEMMA SameGuest ==
  ASSUME [GdNext]_gdvars
  PROVE  UNCHANGED game
BY DEF GdNext, CommandWrite, PacketWrite, DataWord, StatusRead, SlowUpdate, DmaStart, DmaEnable,
       DmaEnd, DmaAck, DiskChange, AudioSector, gdvars

GdInv == GdTypeOK /\ StatusInv /\ OrderInv /\ HeardInv

\* The drive after a power-on satisfies every part of the invariant.
LEMMA GdInitInv ==
  ASSUME GdInit
  PROVE  GdInv
<1>1. GdTypeOK
  <2>1. gd \in Drive
    BY DEF GdInit, Drive, DriveState, Block, Units, AfterBlock
  <2>2. dma \in DmaRegisters /\ dma.done = 0 /\ dma.len = 0
    BY DEF GdInit, DmaRegisters
  <2>3. DmaLen(dma) \in Nat
    BY <2>2, DriveAssumption DEF DmaLen
  <2>4. audio \in Audio
    BY DEF GdInit, Silent, Audio, AudioStatus, UnitStatus, FAD, Endless
  <2>5. heard \in PlayOfDisc
    BY DEF GdInit, NoPlay, PlayOfDisc
  <2>6. host \in ReadOfDisc
    BY NoReadType DEF GdInit
  <2>7. /\ game \in Games /\ s_gd_budget = 0
        /\ INTRQ = FALSE /\ endPending = FALSE /\ dmaIRQ = FALSE /\ hung = FALSE
    BY DEF GdInit
  <2>8. dma.done <= DmaLen(dma)
    BY <2>2, <2>3
  <2> QED BY <2>1, <2>2, <2>4, <2>5, <2>6, <2>7, <2>8 DEF GdTypeOK
<1>2. StatusInv
  BY DEF GdInit, StatusInv, Status, InPio, NeverHangs
<1>3. ReadInv
  <2>1. gd.state = "waitcmd" /\ gd.remaining = 0 /\ gd.cache.left = 0
    BY DEF GdInit
  <2>2. host = NoRead /\ ~dma.st /\ ~audio.playing
    BY DEF GdInit, Silent
  <2>3. At(gd, host)
    BY <2>1, <2>2, NoReadType DEF At, Sending, InPio, UnderWay, Drained
  <2> QED BY <2>2, <2>3 DEF ReadInv
<1>4. HeardInv
  <2>1. /\ ~audio.playing /\ audio.status = "NOINFO" /\ heard.ok /\ ~heard.on
    BY DEF GdInit, Silent, NoPlay
  <2> QED BY <2>1 DEF HeardInv, HeardAsAsked
<1> QED BY <1>1, <1>2, <1>3, <1>4 DEF GdInv, OrderInv

\* Every step keeps the invariant.
LEMMA GdNextInv ==
  ASSUME GdInv, [GdNext]_gdvars
  PROVE  GdInv'
<1>1. GdTypeOK /\ StatusInv /\ OrderInv /\ HeardInv /\ UNCHANGED game
  BY SameGuest DEF GdInv
<1>2. GdTypeOK'
  BY <1>1, TypeStep
<1>3. StatusInv'
  BY <1>1, StatusStep
<1>4. OrderInv'
  <2>1. (Aborts' <=> Aborts) /\ (Unmixed' <=> Unmixed)
    BY <1>1 DEF Aborts, Unmixed
  <2>2. CASE ~Aborts /\ Unmixed
    BY <1>1, <2>2, ReadStep DEF OrderInv
  <2>3. CASE Aborts \/ ~Unmixed
    BY <2>1, <2>3 DEF OrderInv
  <2> QED BY <2>2, <2>3
<1>5. HeardInv'
  BY <1>1, HeardStep
<1> QED BY <1>2, <1>3, <1>4, <1>5 DEF GdInv

\* Every behaviour of the drive keeps the invariant.
LEMMA GdInvariant == GdSafeSpec => []GdInv
<1>1. GdInit => GdInv
  BY GdInitInv
<1>2. GdInv /\ [GdNext]_gdvars => GdInv'
  BY GdNextInv
<1> QED BY <1>1, <1>2, PTL DEF GdSafeSpec

\* The guest that runs is of one kind from first to last.
LEMMA UnmixedStays == GdSafeSpec /\ Unmixed => []Unmixed
<1>1. Unmixed /\ [GdNext]_gdvars => Unmixed'
  BY SameGuest DEF Unmixed
<1> QED BY <1>1, PTL DEF GdSafeSpec

\* The registers, the buffer and the play position keep their types, and SB_GDLEND
\* never passes SB_GDLEN.
THEOREM GdTypeCorrect == GdSafeSpec => []GdTypeOK
<1>1. GdInv => GdTypeOK
  BY DEF GdInv
<1> QED BY <1>1, GdInvariant, PTL

\* A guest may rely on DRQ: up exactly while the drive waits for a packet or has a
\* PIO block (gdromv3.h:39).
THEOREM DrqAlwaysMeansData == GdSafeSpec => []DrqMeansData
<1>1. GdInv => DrqMeansData
  BY DEF GdInv, StatusInv, Status, DrqMeansData
<1> QED BY <1>1, GdInvariant, PTL

\* Under GDROM_HANG_FIX a guest that waits for the drive, and sends none of the
\* packets that no preset clips (parameters the drive does not know, SET_MODE from
\* an offset past 10, GET_SCD of 0xFFFF bytes), meets no verify() or die(),
\* whatever it aborts and whatever its DMA does.
THEOREM PoliteGuestNeverHangs == GdSafeSpec => []NeverHangs
<1>1. GdInv => NeverHangs
  BY DEF GdInv, StatusInv
<1> QED BY <1>1, GdInvariant, PTL

\* A guest that mixes no reads gets the sectors it asked for, in order, and all of
\* them: by any blocks, any number of DMA transfers, any budget of the slow tick.
THEOREM ReadsArriveInOrder == GdSafeSpec /\ Unmixed => []DataInOrder
<1>1. GdInv /\ Unmixed => DataInOrder
  <2> SUFFICES ASSUME GdInv, Unmixed, ~Aborts
               PROVE  /\ host.ok
                      /\ options.hang_fix /\ gd.state = "waitcmd" /\ host.ask > 0 => host.got = host.ask
    BY DEF DataInOrder
  <2>1. At(gd, host)
    BY DEF GdInv, OrderInv, ReadInv
  <2>2. host.ok
    BY <2>1 DEF At, UnderWay, DmaReadAt, PioReadAt
  <2> QED BY <2>1, <2>2 DEF At
<1> QED BY <1>1, GdInvariant, UnmixedStays, PTL

\* Under the two CDDA presets a play is heard sector by sector as it was asked for,
\* over pauses, resumes, repeats and replacements.
THEOREM PlaysAreHeardAsAsked == GdSafeSpec => []HeardAsAsked
<1>1. GdInv => HeardAsAsked
  BY DEF GdInv, HeardInv, HeardAsAsked
<1> QED BY <1>1, GdInvariant, PTL

\* What UpdateGDRom does when no DMA read is under way.
LEMMA UpdateAside ==
  ASSUME GdInv, ~Aborts, Unmixed, gd.state # "readsector_dma", UNCHANGED game,
         NEW m \in DmaRegisters, m.done <= DmaLen(m), NEW b \in Nat, UpdateGDRom(m, b),
         m.st => game.lengths # {}
  PROVE  host' = host /\ (options.hang_fix => gd' = gd)
<1>1. GdTypeOK /\ ReadInv /\ gd \in Drive /\ host \in ReadOfDisc
  BY DEF GdInv, OrderInv, GdTypeOK
<1>2. CASE UNCHANGED <<gd, hung, host>>
  BY <1>2
<1>3. ASSUME NEW len \in Nat, m.st, options.hang_fix => ~Drained(gd), host' = Copied(len).host
      PROVE  host' = host /\ ~options.hang_fix
  BY <1>1, <1>3, DmaMoves, OthersAreDrained
<1> QED BY <1>1, <1>2, <1>3, UpdateEffect

\* The slow tick and the start of a DMA, when no DMA read is under way.
LEMMA TickAside ==
  ASSUME GdInv, ~Aborts, Unmixed, gd.state # "readsector_dma",
         SlowUpdate \/ \E len \in game.lengths : DmaStart(len)
  PROVE  host' = host /\ (options.hang_fix => gd' = gd)
<1>1. GdTypeOK /\ ReadInv /\ dma \in DmaRegisters /\ s_gd_budget \in Nat
  BY DEF GdInv, OrderInv, GdTypeOK
<1>2. CASE SlowUpdate
  <2> DEFINE Budget(c) == IF options.delay THEN Smaller(s_gd_budget + c, MaxChunk) ELSE 0
  <2>1. PICK c \in Credits : UpdateGDRom(dma, Budget(c))
    BY <1>2 DEF SlowUpdate
  <2>2. Budget(c) \in Nat
    BY <1>1, InputsAssumption, DriveAssumption DEF Smaller
  <2>3. dma.done <= DmaLen(dma) /\ UNCHANGED game /\ (dma.st => game.lengths # {})
    BY <1>1, <1>2 DEF GdTypeOK, SlowUpdate, ReadInv
  <2> HIDE DEF Budget
  <2> QED BY <1>1, <2>1, <2>2, <2>3, UpdateAside
<1>3. ASSUME NEW len \in game.lengths, DmaStart(len)
      PROVE  host' = host /\ (options.hang_fix => gd' = gd)
  <2> DEFINE m == [dma EXCEPT !.len = len, !.st = TRUE, !.done = 0]
  <2>1. UpdateGDRom(m, s_gd_budget) /\ UNCHANGED game
    BY <1>3 DEF DmaStart
  <2>2. m \in DmaRegisters /\ m.done <= DmaLen(m) /\ game.lengths # {}
    BY <1>1, StartedDma
  <2> HIDE DEF m
  <2> QED BY <1>1, <2>1, <2>2, UpdateAside
<1> QED BY <1>2, <1>3

\* Under GDROM_HANG_FIX the DMA ends the packet of a DMA read and of nothing else
\* (gdromv3.cpp:1473).
THEOREM DmaNeverDisturbsOthers == GdSafeSpec /\ Unmixed => DmaLeavesOthersAlone
<1>1. GdInv /\ Unmixed /\ [GdNext]_gdvars
        => [options.hang_fix /\ ~Aborts /\ (SlowUpdate \/ \E len \in game.lengths : DmaStart(len))
              => gd.state = "readsector_dma" \/ gd' = gd]_gdvars
  BY TickAside
<1> QED BY <1>1, GdInvariant, UnmixedStays, PTL DEF GdSafeSpec, DmaLeavesOthersAlone

\* Under CDDA_STATE_FIX no disc data arrives while audio plays (gdromv3.cpp:780).
THEOREM NeverReadsWhilePlaying == GdSafeSpec /\ Unmixed => OneHead
<1>1. ASSUME GdInv, Unmixed, [GdNext]_gdvars, options.state_fix, ~Aborts, audio.playing
      PROVE  host'.got <= host.got
  <2>1. GdTypeOK /\ ~UnderWay(gd) /\ At(gd, host) /\ host.got \in Nat
    BY <1>1 DEF GdInv, OrderInv, ReadInv, GdTypeOK, ReadOfDisc
  <2>2. ASSUME host' = host \/ host' = NoRead
        PROVE  host'.got <= host.got
    BY <2>1, <2>2, NoReadType
  <2>3. ASSUME NEW c \in game.ata, CommandWrite(c) PROVE host'.got <= host.got
    BY <2>1, <2>2, <2>3, CommandEffect
  <2>4. CASE PacketWrite
    <3>1. ASSUME NEW s, NEW n, host' = ReadAsked(s, n) PROVE host'.got <= host.got
      BY <2>1, <3>1 DEF ReadAsked
    <3> QED BY <2>1, <2>2, <2>4, <3>1, PacketEffect
  <2>5. CASE DataWord
    <3>1. gd.pio.unit = NoData
      BY <2>1, <2>5 DEF DataWord, UnderWay, Sending, At
    <3> QED BY <2>2, <2>5, <3>1 DEF DataWord
  <2>6. CASE SlowUpdate \/ \E len \in game.lengths : DmaStart(len)
    BY <1>1, <2>1, <2>2, <2>6, TickAside DEF UnderWay
  <2>7. CASE UNCHANGED host
    BY <2>2, <2>7
  <2> QED
    BY <1>1, <2>3, <2>4, <2>5, <2>6, <2>7
    DEF GdNext, StatusRead, DmaEnable, DmaEnd, DmaAck, DiskChange, AudioSector, gdvars
<1>2. GdInv /\ Unmixed /\ [GdNext]_gdvars
        => [options.state_fix /\ ~Aborts /\ audio.playing => host'.got <= host.got]_gdvars
  BY <1>1
<1> QED BY <1>2, GdInvariant, UnmixedStays, PTL DEF GdSafeSpec, OneHead

-----------------------------------------------------------------------------
(* Timeslice                                                               *)

\* What is counted down or scheduled has its interrupt owed, and only the counts that
\* the presets choose are in use.
OwedInv ==
  /\ \A id \in Id : end[id] # Idle => id \in owed /\ preset.sched
  /\ g2.delay > 0 => "SPU_DMA" \in owed /\ ~preset.sched
  /\ maple.pending > 0 => "MAPLE_DMA" \in owed
  /\ preset.rd_mode = 1 => spg.end = 0
  /\ preset.rd_mode # 1 => spg.isp = 0 /\ spg.tsp = 0 /\ spg.vd = 0
  /\ spg.end > 0 => RenderDone \subseteq owed
  /\ spg.isp > 0 => "RENDER_DONE_isp" \in owed
  /\ spg.tsp > 0 => "RENDER_DONE" \in owed
  /\ spg.vd > 0 => "RENDER_DONE_vd" \in owed
  /\ \A l \in List : spg.list[l] > 0 => l \in owed

\* The prescaler wraps at once.
CountBelow == tmu.acc < tmu.prescale

\* The inductive invariant
TsInv == TypeOK /\ BusyEnds /\ OwedInv /\ CountBelow

PresetType == [dma_fix : BOOLEAN, sched : BOOLEAN, race : BOOLEAN, rd_mode : 0 .. 2]

\* A slice is a number of cycles, no longer than a line.
LEMMA SliceType ==
  /\ Slice \in Nat \ {0} /\ VSlow \in Nat \ {0} /\ Slice * VSlow \in Nat \ {0}
  /\ LineCycles \in Nat \ {0} /\ Slice <= LineCycles
<1>1. Slice \in Nat \ {0} /\ VSlow \in Nat \ {0} /\ LineCycles \in Nat \ {0} /\ Slice <= LineCycles
  BY TimesliceAssumption, SpgAssumption
<1>2. \A a, b \in Nat \ {0} : a * b \in Nat \ {0}
  OBVIOUS
<1> QED BY <1>1, <1>2

\* The presets of a guest.
LEMMA GuestType ==
  ASSUME guest \in Guests
  PROVE  /\ preset \in PresetType /\ preset.sched \in BOOLEAN /\ preset.race \in BOOLEAN
         /\ preset.rd_mode \in 0 .. 2
BY TimesliceAssumption DEF preset, PresetType

\* What a countdown leaves, and that it has not run out then.
LEMMA CountDownIs ==
  ASSUME NEW count \in Nat, NEW cycles \in Nat
  PROVE  /\ CountDown(count, cycles) \in Nat
         /\ CountDown(count, cycles) > 0 => count > 0 /\ ~RunsOut(count, cycles)
         /\ count > 0 /\ ~RunsOut(count, cycles) => CountDown(count, cycles) > 0
         /\ count = 0 => CountDown(count, cycles) = 0
         /\ RunsOut(count, cycles) => count > 0
BY DEF CountDown, RunsOut

\* A tick leaves exactly the requests that are not due.
LEMMA TickIs ==
  ASSUME NEW e \in [Id -> Nat \cup {Idle}], NEW cycles \in Nat
  PROVE  LET f == sh4_sched_tick(e, cycles)
         IN /\ f \in [Id -> Nat \cup {Idle}]
            /\ \A id \in Id : f[id] # Idle <=> e[id] # Idle /\ id \notin Due(e, cycles)
            /\ \A id \in Due(e, cycles) : id \in Id /\ e[id] # Idle
<1> DEFINE f == sh4_sched_tick(e, cycles)
<1>1. Idle = -1
  BY DEF Idle
<1>2. f = [id \in Id |-> IF e[id] = Idle \/ id \in Due(e, cycles) THEN Idle ELSE e[id] - cycles]
  BY DEF sh4_sched_tick
<1>3. ASSUME NEW id \in Id
      PROVE  /\ f[id] \in Nat \cup {Idle}
             /\ f[id] # Idle <=> e[id] # Idle /\ id \notin Due(e, cycles)
  <2>1. f[id] = IF e[id] = Idle \/ id \in Due(e, cycles) THEN Idle ELSE e[id] - cycles
    BY <1>2
  <2>2. e[id] # Idle /\ id \notin Due(e, cycles) => e[id] \in Nat /\ e[id] > cycles
    BY DEF Due
  <2> HIDE DEF f
  <2> QED BY <1>1, <2>1, <2>2
<1>4. f \in [Id -> Nat \cup {Idle}]
  BY <1>2, <1>3
<1> QED BY <1>3, <1>4 DEF Due

\* aica_dma_complete takes the busy bit down.
LEMMA CompleteType ==
  ASSUME NEW g \in G2State, NEW race \in BOOLEAN
  PROVE  /\ aica_dma_complete(g, race) \in G2State
         /\ aica_dma_complete(g, race).ADST = {}
         /\ aica_dma_complete(g, race).delay = g.delay
BY DEF G2State, aica_dma_complete

\* UpdateAicaDma counts down and completes when the count runs out.
LEMMA UpdateAicaIs ==
  ASSUME NEW g \in G2State, NEW cycles \in Nat, NEW race \in BOOLEAN
  PROVE  LET h == UpdateAicaDma(g, cycles, race)
         IN /\ h \in G2State
            /\ h.delay = CountDown(g.delay, cycles)
            /\ RunsOut(g.delay, cycles) => h.ADST = {}
            /\ ~RunsOut(g.delay, cycles) => h.ADST = g.ADST
<1> DEFINE h == [g EXCEPT !.delay = CountDown(g.delay, cycles)]
           u == UpdateAicaDma(g, cycles, race)
<1>1. CountDown(g.delay, cycles) \in Nat
  BY CountDownIs DEF G2State
<1>2. h \in G2State /\ h.delay = CountDown(g.delay, cycles) /\ h.ADST = g.ADST
  BY <1>1 DEF G2State
<1>3. u = IF RunsOut(g.delay, cycles) THEN aica_dma_complete(h, race) ELSE h
  BY DEF UpdateAicaDma
<1> HIDE DEF h, u
<1>4. /\ u \in G2State /\ u.delay = CountDown(g.delay, cycles)
      /\ RunsOut(g.delay, cycles) => u.ADST = {}
      /\ ~RunsOut(g.delay, cycles) => u.ADST = g.ADST
  BY <1>2, <1>3, CompleteType
<1> QED BY <1>4 DEF u

\* maple_Update leaves the busy bit up only with cycles to come.
LEMMA MapleUpdateIs ==
  ASSUME NEW m \in MapleState, NEW cycles \in Nat
  PROVE  LET n == maple_Update(m, cycles)
         IN /\ n \in MapleState
            /\ n.pending = CountDown(m.pending, cycles)
            /\ n.MDEN = m.MDEN /\ n.MDST \in BOOLEAN
            /\ n.MDST => m.MDST /\ (m.pending > 0 => m.pending > cycles)
<1> DEFINE n == maple_Update(m, cycles)
           p == CountDown(m.pending, cycles)
           st == IF m.pending > 0 /\ (~m.MDEN \/ m.pending <= cycles) THEN FALSE ELSE m.MDST
<1>1. /\ m.pending \in Nat /\ m.MDST \in BOOLEAN /\ m.MDEN \in BOOLEAN
  BY DEF MapleState
<1>2. p \in Nat
  BY <1>1, CountDownIs
<1>3. st \in BOOLEAN
  BY <1>1
<1>4. st => m.MDST /\ (m.pending > 0 => m.pending > cycles)
  BY <1>1
<1>5. n = [m EXCEPT !.pending = p, !.MDST = st]
  BY DEF maple_Update, MapleState
<1> HIDE DEF n, p, st
<1>6. n \in MapleState /\ n.pending = p /\ n.MDEN = m.MDEN /\ n.MDST = st
  BY <1>2, <1>3, <1>5 DEF MapleState
<1> QED BY <1>3, <1>4, <1>6 DEF n, p

\* A transfer that vblank starts takes the place of one that runs.
LEMMA MapleVblankIs ==
  ASSUME NEW m \in MapleState, NEW cost \in Nat \ {0}
  PROVE  LET n == maple_vblank(m, cost)
         IN /\ n \in MapleState
            /\ n.MDST => m.MDST /\ n.pending = m.pending
            /\ n.pending # m.pending => m.MDST
<1> DEFINE n == maple_vblank(m, cost)
<1>1. m.MDST \in BOOLEAN /\ m.MDEN \in BOOLEAN /\ m.once \in BOOLEAN /\ m.pending \in Nat
  BY DEF MapleState
<1>2. CASE n = m
  BY <1>1, <1>2
<1>3. CASE n = [m EXCEPT !.ddt_reset = FALSE]
  <2>1. n \in MapleState /\ n.MDST = m.MDST /\ n.pending = m.pending
    BY <1>3 DEF MapleState
  <2> QED BY <1>1, <2>1
<1>4. CASE m.MDST /\ n = [[m EXCEPT !.pending = cost] EXCEPT !.MDST = FALSE, !.ddt_reset = m.once]
  <2>1. n \in MapleState /\ ~n.MDST
    BY <1>4 DEF MapleState
  <2> QED BY <1>4, <2>1
<1>5. CASE n = [[m EXCEPT !.stopped = TRUE] EXCEPT !.MDST = FALSE, !.ddt_reset = m.once]
  <2>1. n \in MapleState /\ ~n.MDST /\ n.pending = m.pending
    BY <1>5 DEF MapleState
  <2> QED BY <2>1
<1> QED BY <1>1, <1>2, <1>3, <1>4, <1>5 DEF maple_vblank, maple_DoDma

\* libPvr_UpdatePvr keeps the beam in range and counts everything down.
LEMMA SpgUpdateIs ==
  ASSUME NEW s \in SpgState, s.counter \in -Slice .. 2 * LineCycles - 1
  PROVE  LET t == libPvr_UpdatePvr(s, Slice)
         IN /\ t \in SpgState /\ t.counter \in -Slice .. 2 * LineCycles - 1
            /\ t.end = CountDown(s.end, Slice) /\ t.isp = CountDown(s.isp, Slice)
            /\ t.tsp = CountDown(s.tsp, Slice) /\ t.vd = CountDown(s.vd, Slice)
            /\ \A l \in List : t.list[l] = CountDown(s.list[l], Slice)
<1> DEFINE line == IF NextLine(s, Slice) THEN (s.line + 1) % Lines ELSE s.line
           counter == s.counter - Slice + (IF NextLine(s, Slice) THEN LineCycles ELSE 0)
           list == [l \in List |-> CountDown(s.list[l], Slice)]
           t == libPvr_UpdatePvr(s, Slice)
<1>1. /\ s.line \in 0 .. Lines - 1 /\ s.counter \in Int /\ s.end \in Nat /\ s.isp \in Nat
      /\ s.tsp \in Nat /\ s.vd \in Nat /\ s.list \in [List -> Nat]
  BY DEF SpgState
<1>2. line \in 0 .. Lines - 1
  BY <1>1, SpgAssumption
<1>3. counter \in -Slice .. 2 * LineCycles - 1
  BY <1>1, SliceType DEF NextLine
<1>4. counter \in Int
  BY <1>1, SliceType
<1>5. list \in [List -> Nat]
  BY <1>1, SliceType, CountDownIs
<1>6. /\ CountDown(s.end, Slice) \in Nat /\ CountDown(s.isp, Slice) \in Nat
      /\ CountDown(s.tsp, Slice) \in Nat /\ CountDown(s.vd, Slice) \in Nat
  BY <1>1, SliceType, CountDownIs
<1>7. t = [line |-> line, counter |-> counter, end |-> CountDown(s.end, Slice),
           isp |-> CountDown(s.isp, Slice), tsp |-> CountDown(s.tsp, Slice),
           vd |-> CountDown(s.vd, Slice), list |-> list]
  BY DEF libPvr_UpdatePvr
<1>8. \A l \in List : list[l] = CountDown(s.list[l], Slice)
  OBVIOUS
<1> SUFFICES /\ t \in SpgState /\ t.counter \in -Slice .. 2 * LineCycles - 1
             /\ t.end = CountDown(s.end, Slice) /\ t.isp = CountDown(s.isp, Slice)
             /\ t.tsp = CountDown(s.tsp, Slice) /\ t.vd = CountDown(s.vd, Slice)
             /\ \A l \in List : t.list[l] = CountDown(s.list[l], Slice)
  OBVIOUS
<1> HIDE DEF line, counter, list, t
<1>9. t \in SpgState
  BY <1>2, <1>4, <1>5, <1>6, <1>7 DEF SpgState
<1> QED BY <1>3, <1>7, <1>8, <1>9

\* UpdateTMU_chan keeps the registers in range and the rest below one count.
LEMMA TmuUpdateIs ==
  ASSUME NEW t \in TmuState, t.acc < t.prescale
  PROVE  /\ UpdateTMU_chan(t, Slice) \in TmuState
         /\ UpdateTMU_chan(t, Slice).acc < UpdateTMU_chan(t, Slice).prescale
<1> DEFINE steps == (t.acc + Slice) \div t.prescale
           acc == (t.acc + Slice) % t.prescale
           u == [t EXCEPT !.acc = acc]
           cnt == (t.COR - Absorb(steps - t.CNT, t.COR)) % CntMod
           v == UpdateTMU_chan(t, Slice)
<1>1. /\ t.acc \in Nat /\ t.CNT \in 0 .. CntMod - 1 /\ t.COR \in 0 .. CntMod - 1
      /\ t.prescale \in Nat \ {0} /\ CntMod \in Nat \ {0}
  BY TmuAssumption DEF TmuState
<1>2. acc \in Nat /\ acc < t.prescale
  BY <1>1, SliceType
<1>3. steps \in Nat
  BY <1>1, SliceType
<1> HIDE DEF acc, steps
<1>4. u \in TmuState /\ u.acc = acc /\ u.prescale = t.prescale
  BY <1>2 DEF TmuState
<1>5. Absorb(steps - t.CNT, t.COR) \in Int
  BY <1>1, <1>3 DEF Absorb
<1>6. cnt \in 0 .. CntMod - 1
  BY <1>1, <1>5
<1>7. ~(steps > t.CNT) => t.CNT - steps \in 0 .. CntMod - 1
  BY <1>1, <1>3
<1>8. v = IF ~t.run THEN t ELSE IF steps > t.CNT THEN [u EXCEPT !.UNF = TRUE, !.CNT = cnt]
                                 ELSE [u EXCEPT !.CNT = t.CNT - steps]
  BY DEF UpdateTMU_chan, acc, steps
<1> HIDE DEF u, v, cnt
<1>9. CASE ~t.run
  BY <1>8, <1>9 DEF v
<1>10. CASE t.run /\ steps > t.CNT
  <2>1. v = [u EXCEPT !.UNF = TRUE, !.CNT = cnt]
    BY <1>8, <1>10
  <2>2. v \in TmuState /\ v.acc = acc /\ v.prescale = t.prescale
    BY <1>4, <1>6, <2>1 DEF TmuState
  <2> QED BY <1>2, <2>2 DEF v
<1>11. CASE t.run /\ ~(steps > t.CNT)
  <2>1. v = [u EXCEPT !.CNT = t.CNT - steps]
    BY <1>8, <1>11
  <2>2. v \in TmuState /\ v.acc = acc /\ v.prescale = t.prescale
    BY <1>4, <1>7, <1>11, <2>1 DEF TmuState
  <2> QED BY <1>2, <2>2 DEF v
<1> QED BY <1>9, <1>10, <1>11

-----------------------------------------------------------------------------
(* The parts of UpdateSystem, each on its own device                       *)

\* The fields the invariant speaks of.
LEMMA OwedTypes ==
  ASSUME TypeOK
  PROVE  /\ end \in [Id -> Nat \cup {Idle}] /\ g2 \in G2State /\ g2.delay \in Nat
         /\ maple \in MapleState /\ maple.pending \in Nat /\ maple.MDST \in BOOLEAN
         /\ spg \in SpgState /\ spg.end \in Nat /\ spg.isp \in Nat /\ spg.tsp \in Nat
         /\ spg.vd \in Nat /\ spg.list \in [List -> Nat]
         /\ tmu \in TmuState /\ owed \subseteq Completion
BY DEF TypeOK, G2State, MapleState, SpgState

\* The names of the interrupts are those of different devices.
LEMMA Names ==
  /\ Id = {"CH2_DMA", "PVR_DMA", "SPU_DMA"}
  /\ Id \cap RenderDone = {} /\ List \cap Id = {} /\ List \cap RenderDone = {}
  /\ "MAPLE_DMA" \notin Id \cup RenderDone \cup List
  /\ RenderDone = {"RENDER_DONE_isp", "RENDER_DONE", "RENDER_DONE_vd"}
  /\ Completion = Id \cup {"MAPLE_DMA"} \cup RenderDone \cup List
<1>1. Id = {"CH2_DMA", "PVR_DMA", "SPU_DMA"}
  BY DmaAssumption
<1>2. "MAPLE_DMA" \notin Id \cup RenderDone
  BY <1>1 DEF RenderDone
<1>3. Id \cap RenderDone = {}
  BY <1>1 DEF RenderDone
<1> QED BY <1>1, <1>2, <1>3, NamesAssumption DEF RenderDone, Completion

\* The interrupts of each device.
FromMaple == IF update_cnt = 0 THEN MapleEnds(maple, Slice * VSlow) ELSE {}
FromSched == IF preset.sched THEN Due(end, Slice) ELSE {}
FromG2 == IF RunsOut(g2.delay, Slice) THEN {"SPU_DMA"} ELSE {}
FromSpg == SpgEnds(spg, Slice)

\* What a timeslice raises is owed.
LEMMA EveryEndIsOwed ==
  ASSUME TypeOK, OwedInv
  PROVE  /\ FromMaple \subseteq owed \cap {"MAPLE_DMA"}
         /\ FromSched \subseteq owed \cap Id
         /\ FromG2 \subseteq owed \cap {"SPU_DMA"}
         /\ FromSpg \subseteq owed \cap (RenderDone \cup List)
<1>1. FromMaple \subseteq owed \cap {"MAPLE_DMA"}
  BY OwedTypes, SliceType, CountDownIs DEF FromMaple, MapleEnds, OwedInv
<1>2. FromSched \subseteq owed \cap Id
  BY DEF FromSched, Due, OwedInv
<1>3. FromG2 \subseteq owed \cap {"SPU_DMA"}
  BY OwedTypes, SliceType, CountDownIs DEF FromG2, OwedInv
<1>4. FromSpg \subseteq owed \cap (RenderDone \cup List)
  <2>1. RunsOut(spg.end, Slice) => RenderDone \subseteq owed
    BY OwedTypes, SliceType, CountDownIs DEF OwedInv
  <2>2. RunsOut(spg.isp, Slice) => "RENDER_DONE_isp" \in owed
    BY OwedTypes, SliceType, CountDownIs DEF OwedInv
  <2>3. RunsOut(spg.tsp, Slice) => "RENDER_DONE" \in owed
    BY OwedTypes, SliceType, CountDownIs DEF OwedInv
  <2>4. RunsOut(spg.vd, Slice) => "RENDER_DONE_vd" \in owed
    BY OwedTypes, SliceType, CountDownIs DEF OwedInv
  <2>5. \A l \in List : RunsOut(spg.list[l], Slice) => l \in owed
    BY OwedTypes, SliceType, CountDownIs DEF OwedInv
  <2> QED BY <2>1, <2>2, <2>3, <2>4, <2>5, Names DEF FromSpg, SpgEnds
<1> QED BY <1>1, <1>2, <1>3, <1>4

\* What one timeslice leaves of each device.
LEMMA UpdateSystemEffect ==
  ASSUME TsInv, UpdateSystem
  PROVE  /\ raised' = FromMaple \cup FromSpg \cup FromSched \cup FromG2
         /\ owed' = (owed \ raised') \ (IF maple'.pending = 0 THEN {"MAPLE_DMA"} ELSE {})
         /\ end' \in [Id -> Nat \cup {Idle}]
         /\ \A id \in Id : end'[id] # Idle => end[id] # Idle /\ id \notin FromSched
         /\ \A id \in Id : end[id] # Idle /\ id \notin FromSched => end'[id] # Idle
         /\ g2' \in G2State /\ g2'.delay = CountDown(g2.delay, Slice)
         /\ 1 \in g2'.ADST => 1 \in g2.ADST /\ "SPU_DMA" \notin FromSched /\ ~RunsOut(g2.delay, Slice)
         /\ maple' \in MapleState
         /\ maple'.MDST => maple'.pending > 0
         /\ maple'.pending > 0 => maple.pending > 0 /\ "MAPLE_DMA" \notin FromMaple
<1>1. /\ raised' = FromMaple \cup FromSpg \cup FromSched \cup FromG2
      /\ owed' = (owed \ raised') \ (IF maple'.pending = 0 THEN {"MAPLE_DMA"} ELSE {})
  BY DEF UpdateSystem, FromMaple, FromSpg, FromSched, FromG2
<1>2. TypeOK /\ preset.sched \in BOOLEAN /\ preset.race \in BOOLEAN
  BY GuestType DEF TsInv, TypeOK
<1>3. /\ end' \in [Id -> Nat \cup {Idle}]
      /\ \A id \in Id : end'[id] # Idle => end[id] # Idle /\ id \notin FromSched
      /\ \A id \in Id : end[id] # Idle /\ id \notin FromSched => end'[id] # Idle
  <2>1. end' = IF preset.sched THEN sh4_sched_tick(end, Slice) ELSE end
    BY DEF UpdateSystem
  <2> QED BY <1>2, <2>1, OwedTypes, SliceType, TickIs DEF FromSched
<1>4. /\ g2' \in G2State /\ g2'.delay = CountDown(g2.delay, Slice)
      /\ 1 \in g2'.ADST => 1 \in g2.ADST /\ "SPU_DMA" \notin FromSched /\ ~RunsOut(g2.delay, Slice)
  <2> DEFINE g == UpdateAicaDma(g2, Slice, preset.race)
  <2>1. g2' = IF "SPU_DMA" \in FromSched THEN aica_dma_complete(g, preset.race) ELSE g
    BY DEF UpdateSystem, FromSched
  <2>2. /\ g \in G2State /\ g.delay = CountDown(g2.delay, Slice)
        /\ RunsOut(g2.delay, Slice) => g.ADST = {}
        /\ ~RunsOut(g2.delay, Slice) => g.ADST = g2.ADST
    BY <1>2, OwedTypes, SliceType, UpdateAicaIs
  <2> HIDE DEF g
  <2> QED BY <1>2, <2>1, <2>2, CompleteType
<1>5. /\ maple' \in MapleState
      /\ maple'.MDST => maple'.pending > 0
      /\ maple'.pending > 0 => maple.pending > 0 /\ "MAPLE_DMA" \notin FromMaple
  <2> DEFINE m == IF update_cnt = 0 THEN maple_Update(maple, Slice * VSlow) ELSE maple
  <2>1. m \in MapleState /\ (m.MDST => m.pending > 0)
        /\ (m.pending > 0 => maple.pending > 0 /\ "MAPLE_DMA" \notin FromMaple)
    <3>1. maple \in MapleState /\ maple.pending \in Nat /\ (maple.MDST => maple.pending > 0)
      BY <1>2, OwedTypes DEF TsInv, BusyEnds
    <3>2. CASE update_cnt = 0
      <4> DEFINE n == maple_Update(maple, Slice * VSlow)
                 k == Slice * VSlow
      <4>1. k \in Nat
        BY SliceType
      <4>2. /\ n \in MapleState /\ n.pending = CountDown(maple.pending, k)
            /\ n.MDST => maple.MDST /\ (maple.pending > 0 => maple.pending > k)
        BY <3>1, <4>1, MapleUpdateIs
      <4>3. n.MDST => n.pending > 0
        <5> HIDE DEF n, k
        <5> QED BY <3>1, <4>1, <4>2 DEF CountDown
      <4>4. n.pending > 0 => maple.pending > 0 /\ ~RunsOut(maple.pending, k)
        <5> HIDE DEF n, k
        <5> QED BY <3>1, <4>1, <4>2, CountDownIs
      <4>5. ~RunsOut(maple.pending, k) => "MAPLE_DMA" \notin FromMaple
        BY DEF FromMaple, MapleEnds
      <4> QED BY <3>2, <4>2, <4>3, <4>4, <4>5
    <3>3. CASE update_cnt # 0
      BY <3>1, <3>3 DEF FromMaple
    <3> QED BY <3>2, <3>3
  <2>2. PICK cost \in MapleCosts : maple' = IF Vblank(spg, Slice) THEN maple_vblank(m, cost) ELSE m
    BY DEF UpdateSystem
  <2>3. cost \in Nat \ {0}
    BY TimesliceAssumption
  <2> HIDE DEF m
  <2> QED BY <2>1, <2>2, <2>3, MapleVblankIs
<1> QED BY <1>1, <1>3, <1>4, <1>5

\* A timeslice keeps the invariant: a count that has not run out has raised nothing.
LEMMA UpdateSystemInv ==
  ASSUME TsInv, UpdateSystem
  PROVE  TsInv'
<1>1. TypeOK /\ BusyEnds /\ OwedInv /\ CountBelow /\ guest' = guest /\ dropped' = dropped
  BY DEF TsInv, UpdateSystem
<1>2. /\ raised' = FromMaple \cup FromSpg \cup FromSched \cup FromG2
      /\ owed' = (owed \ raised') \ (IF maple'.pending = 0 THEN {"MAPLE_DMA"} ELSE {})
      /\ end' \in [Id -> Nat \cup {Idle}]
      /\ \A id \in Id : end'[id] # Idle => end[id] # Idle /\ id \notin FromSched
      /\ \A id \in Id : end[id] # Idle /\ id \notin FromSched => end'[id] # Idle
      /\ g2' \in G2State /\ g2'.delay = CountDown(g2.delay, Slice)
      /\ 1 \in g2'.ADST => 1 \in g2.ADST /\ "SPU_DMA" \notin FromSched /\ ~RunsOut(g2.delay, Slice)
      /\ maple' \in MapleState
      /\ maple'.MDST => maple'.pending > 0
      /\ maple'.pending > 0 => maple.pending > 0 /\ "MAPLE_DMA" \notin FromMaple
  BY UpdateSystemEffect
<1>3. /\ FromMaple \subseteq owed \cap {"MAPLE_DMA"}
      /\ FromSched \subseteq owed \cap Id
      /\ FromG2 \subseteq owed \cap {"SPU_DMA"}
      /\ FromSpg \subseteq owed \cap (RenderDone \cup List)
  BY <1>1, EveryEndIsOwed
<1>4. /\ spg' \in SpgState /\ spg'.counter \in -Slice .. 2 * LineCycles - 1
      /\ spg'.end = CountDown(spg.end, Slice) /\ spg'.isp = CountDown(spg.isp, Slice)
      /\ spg'.tsp = CountDown(spg.tsp, Slice) /\ spg'.vd = CountDown(spg.vd, Slice)
      /\ \A l \in List : spg'.list[l] = CountDown(spg.list[l], Slice)
  <2>1. spg' = libPvr_UpdatePvr(spg, Slice)
    BY DEF UpdateSystem
  <2> QED BY <1>1, <2>1, SpgUpdateIs DEF TypeOK
<1>5. tmu' \in TmuState /\ CountBelow'
  <2>1. tmu' = UpdateTMU_chan(tmu, Slice)
    BY DEF UpdateSystem
  <2> QED BY <1>1, <2>1, TmuUpdateIs DEF TypeOK, CountBelow
<1>6. TypeOK'
  <2>1. update_cnt' \in 0 .. VSlow - 1
    BY <1>1, SliceType DEF UpdateSystem, TypeOK
  <2>2. owed' \subseteq Completion /\ raised' \subseteq Completion /\ again' \subseteq Completion
    BY <1>1, <1>2, <1>3 DEF UpdateSystem, TypeOK
  <2>3. SPU_IST' \in BOOLEAN /\ busy' = busy
    BY <1>1 DEF UpdateSystem, TypeOK
  <2> QED BY <1>1, <1>2, <1>4, <1>5, <2>1, <2>2, <2>3 DEF TypeOK
<1>7. BusyEnds'
  <2>1. ASSUME 1 \in g2'.ADST
        PROVE  g2'.delay > 0 \/ end'["SPU_DMA"] # Idle \/ dropped'
    <3>1. g2.delay > 0 \/ end["SPU_DMA"] # Idle \/ dropped
      BY <1>1, <1>2, <2>1 DEF BusyEnds
    <3>2. g2.delay > 0 => g2'.delay > 0
      BY <1>1, <1>2, <2>1, OwedTypes, SliceType, CountDownIs
    <3>3. end["SPU_DMA"] # Idle => end'["SPU_DMA"] # Idle
      BY <1>2, <2>1, Names
    <3> QED BY <1>1, <3>1, <3>2, <3>3
  <2> QED BY <1>2, <2>1 DEF BusyEnds
<1>8. OwedInv'
  <2>1. preset' = preset
    BY <1>1 DEF preset
  <2>2. ASSUME NEW id \in Id, end'[id] # Idle
        PROVE  id \in owed' /\ preset'.sched
    <3>1. end[id] # Idle /\ id \notin FromSched /\ id \in owed /\ preset.sched
      BY <1>1, <1>2, <2>2 DEF OwedInv
    <3>2. id \notin FromMaple /\ id \notin FromSpg /\ id # "MAPLE_DMA"
      BY <1>3, Names
    <3>3. FromG2 = {}
      BY <1>1, <3>1, OwedTypes, SliceType, CountDownIs DEF FromG2, OwedInv
    <3> QED BY <1>2, <2>1, <3>1, <3>2, <3>3
  <2>3. ASSUME g2'.delay > 0
        PROVE  "SPU_DMA" \in owed' /\ ~preset'.sched
    <3>1. g2.delay > 0 /\ ~RunsOut(g2.delay, Slice)
      BY <1>1, <1>2, <2>3, OwedTypes, SliceType, CountDownIs DEF CountDown, RunsOut
    <3>2. "SPU_DMA" \in owed /\ ~preset.sched
      BY <1>1, <3>1 DEF OwedInv
    <3>3. "SPU_DMA" \notin FromG2 \cup FromSched
      BY <3>1, <3>2 DEF FromG2, FromSched
    <3>4. "SPU_DMA" \notin FromMaple \cup FromSpg
      BY <1>3, Names
    <3> QED BY <1>2, <2>1, <3>2, <3>3, <3>4
  <2>4. maple'.pending > 0 => "MAPLE_DMA" \in owed'
    <3>1. ASSUME maple'.pending > 0 PROVE "MAPLE_DMA" \in owed'
      <4>1. "MAPLE_DMA" \in owed /\ "MAPLE_DMA" \notin FromMaple
        BY <1>1, <1>2, <3>1 DEF OwedInv
      <4>2. "MAPLE_DMA" \notin FromSched \cup FromG2 \cup FromSpg
        BY <1>3, Names
      <4>3. maple'.pending # 0
        BY <3>1
      <4> QED BY <1>2, <4>1, <4>2, <4>3
    <3> QED BY <3>1
  <2>5. /\ preset'.rd_mode = 1 => spg'.end = 0
        /\ preset'.rd_mode # 1 => spg'.isp = 0 /\ spg'.tsp = 0 /\ spg'.vd = 0
    BY <1>1, <1>4, <2>1, OwedTypes, SliceType, CountDownIs DEF OwedInv
  <2>6. ASSUME NEW x \in RenderDone \cup List, x \in owed, x \notin FromSpg
        PROVE  x \in owed'
    BY <1>2, <1>3, <2>6, Names
  <2>7. spg'.end > 0 => RenderDone \subseteq owed'
    <3>1. ASSUME spg'.end > 0 PROVE RenderDone \subseteq owed'
      <4>1. spg.end > 0 /\ ~RunsOut(spg.end, Slice)
        BY <1>1, <1>4, <3>1, OwedTypes, SliceType, CountDownIs DEF CountDown, RunsOut
      <4>2. RenderDone \subseteq owed /\ spg.isp = 0 /\ spg.tsp = 0 /\ spg.vd = 0
        BY <1>1, <4>1 DEF OwedInv
      <4>3. ~RunsOut(spg.isp, Slice) /\ ~RunsOut(spg.tsp, Slice) /\ ~RunsOut(spg.vd, Slice)
        BY <4>2 DEF RunsOut
      <4>4. RenderDone \cap FromSpg = {}
        BY <4>1, <4>3, Names DEF FromSpg, SpgEnds
      <4> QED BY <2>6, <4>2, <4>4
    <3> QED BY <3>1
  <2>8. /\ spg'.isp > 0 => "RENDER_DONE_isp" \in owed'
        /\ spg'.tsp > 0 => "RENDER_DONE" \in owed'
        /\ spg'.vd > 0 => "RENDER_DONE_vd" \in owed'
    <3>1. spg.isp > 0 \/ spg.tsp > 0 \/ spg.vd > 0 => ~RunsOut(spg.end, Slice)
      <4>1. spg.isp > 0 \/ spg.tsp > 0 \/ spg.vd > 0 => spg.end = 0
        BY <1>1, OwedTypes DEF OwedInv
      <4> QED BY <4>1 DEF RunsOut
    <3>2. spg'.isp > 0 => "RENDER_DONE_isp" \in owed /\ "RENDER_DONE_isp" \notin FromSpg
      <4>1. spg'.isp > 0 => spg.isp > 0 /\ ~RunsOut(spg.isp, Slice)
        BY <1>1, <1>4, OwedTypes, SliceType, CountDownIs DEF CountDown, RunsOut
      <4> QED BY <1>1, <3>1, <4>1, Names DEF OwedInv, FromSpg, SpgEnds
    <3>3. spg'.tsp > 0 => "RENDER_DONE" \in owed /\ "RENDER_DONE" \notin FromSpg
      <4>1. spg'.tsp > 0 => spg.tsp > 0 /\ ~RunsOut(spg.tsp, Slice)
        BY <1>1, <1>4, OwedTypes, SliceType, CountDownIs DEF CountDown, RunsOut
      <4> QED BY <1>1, <3>1, <4>1, Names DEF OwedInv, FromSpg, SpgEnds
    <3>4. spg'.vd > 0 => "RENDER_DONE_vd" \in owed /\ "RENDER_DONE_vd" \notin FromSpg
      <4>1. spg'.vd > 0 => spg.vd > 0 /\ ~RunsOut(spg.vd, Slice)
        BY <1>1, <1>4, OwedTypes, SliceType, CountDownIs DEF CountDown, RunsOut
      <4> QED BY <1>1, <3>1, <4>1, Names DEF OwedInv, FromSpg, SpgEnds
    <3> QED BY <2>6, <3>2, <3>3, <3>4, Names
  <2>9. ASSUME NEW l \in List, spg'.list[l] > 0
        PROVE  l \in owed'
    <3>1. spg.list[l] > 0 /\ ~RunsOut(spg.list[l], Slice)
      BY <1>1, <1>4, <2>9, OwedTypes, SliceType, CountDownIs DEF CountDown, RunsOut
    <3>2. l \in owed /\ l \notin FromSpg
      BY <1>1, <3>1, Names DEF OwedInv, FromSpg, SpgEnds
    <3> QED BY <2>6, <3>2
  <2> QED BY <2>2, <2>3, <2>4, <2>5, <2>7, <2>8, <2>9 DEF OwedInv
<1> QED BY <1>5, <1>6, <1>7, <1>8 DEF TsInv

-----------------------------------------------------------------------------
(* What the guest does, and the resets                                     *)

\* A start adds to what is owed, and a guest's write takes nothing away.
LEMMA StartsKeep ==
  ASSUME TypeOK, NEW which \in SUBSET Completion, Starts(which)
  PROVE  /\ owed \subseteq owed' /\ which \subseteq owed' /\ owed' \subseteq Completion
         /\ again' \subseteq Completion /\ raised' = {}
BY DEF TypeOK, Starts

\* A write that starts nothing leaves what is owed.
LEMMA NoStartKeeps ==
  ASSUME TypeOK, NoStart
  PROVE  /\ owed' = owed /\ again' \subseteq Completion /\ raised' = {}
BY DEF TypeOK, NoStart, Starts

\* The channels of the scheduler.
LEMMA StartDmaInv ==
  ASSUME TsInv, NEW ch \in {"CH2_DMA", "PVR_DMA"}, NEW ok1 \in BOOLEAN, NEW ok2 \in BOOLEAN,
         StartDma(ch, ok1, ok2)
  PROVE  TsInv'
<1>1. /\ UNCHANGED <<guest, g2, SPU_IST, maple, spg, tmu, update_cnt, dropped>>
      /\ TypeOK /\ BusyEnds /\ OwedInv /\ CountBelow /\ preset' = preset
      /\ ch \in Id /\ ch \in Completion /\ ch # "SPU_DMA"
  BY Names DEF StartDma, TsInv, preset
<1>2. busy' \subseteq Id
  BY <1>1 DEF StartDma, TypeOK
<1>3. CASE UNCHANGED end /\ NoStart
  <2>1. owed' = owed /\ again' \subseteq Completion /\ raised' = {}
    BY <1>1, <1>3, NoStartKeeps
  <2> QED BY <1>1, <1>2, <1>3, <2>1 DEF TsInv, TypeOK, BusyEnds, OwedInv, CountBelow
<1>4. CASE preset.sched /\ end' = sh4_sched_request(end, ch, EndDelay) /\ Starts({ch})
  <2>1. /\ owed \subseteq owed' /\ ch \in owed' /\ owed' \subseteq Completion
        /\ again' \subseteq Completion /\ raised' = {}
    BY <1>1, <1>4, StartsKeep
  <2>2. end' \in [Id -> Nat \cup {Idle}] /\ end'["SPU_DMA"] = end["SPU_DMA"]
    BY <1>1, <1>4, DmaAssumption DEF TypeOK, sh4_sched_request
  <2>3. \A id \in Id : id = ch \/ end'[id] = end[id]
    BY <1>1, <1>4 DEF TypeOK, sh4_sched_request
  <2>4. TypeOK'
    BY <1>1, <1>2, <2>1, <2>2 DEF TypeOK
  <2>5. BusyEnds'
    BY <1>1, <2>2 DEF BusyEnds
  <2>6. OwedInv'
    BY <1>1, <1>4, <2>1, <2>3 DEF OwedInv
  <2> QED BY <1>1, <2>4, <2>5, <2>6 DEF TsInv, CountBelow
<1> QED BY <1>1, <1>3, <1>4 DEF StartDma

\* The G2-DMA.
LEMMA WriteG2Inv ==
  ASSUME TsInv, NEW e \in BOOLEAN, NEW len \in G2Lens, NEW b \in BOOLEAN, WriteG2(e, len, b)
  PROVE  TsInv'
<1>1. /\ UNCHANGED <<guest, end, busy, SPU_IST, maple, spg, tmu, update_cnt, dropped>>
      /\ g2' = [g2 EXCEPT !.ADEN = e, !.len = len, !.bit31 = b]
      /\ TypeOK /\ BusyEnds /\ OwedInv /\ CountBelow /\ preset' = preset
  BY DEF WriteG2, TsInv, preset
<1>2. owed' = owed /\ again' \subseteq Completion /\ raised' = {}
  BY <1>1, NoStartKeeps DEF WriteG2
<1>3. len \in Nat
  BY TimesliceAssumption
<1>4. g2' \in G2State /\ g2'.delay = g2.delay /\ g2'.ADST = g2.ADST
  BY <1>1, <1>3 DEF TypeOK, G2State
<1> QED BY <1>1, <1>2, <1>4 DEF TsInv, TypeOK, BusyEnds, OwedInv, CountBelow

\* A read of SB_ADST turns its second bit around, and no other.
LEMMA ReadG2Inv ==
  ASSUME TsInv, ReadG2
  PROVE  TsInv'
<1>1. /\ UNCHANGED <<guest, end, busy, SPU_IST, maple, spg, tmu, update_cnt, dropped>>
      /\ g2' = Read_SB_ADST(g2, SPU_IST, preset.race)
      /\ TypeOK /\ BusyEnds /\ OwedInv /\ CountBelow /\ preset' = preset
  BY DEF ReadG2, TsInv, preset
<1>2. owed' = owed /\ again' \subseteq Completion /\ raised' = {}
  BY <1>1, NoStartKeeps DEF ReadG2
<1>3. g2' \in G2State /\ g2'.delay = g2.delay /\ (1 \in g2'.ADST <=> 1 \in g2.ADST)
  <2>1. g2 \in G2State /\ g2.ADST \in SUBSET {1, 2}
    BY <1>1 DEF TypeOK, G2State
  <2>2. CASE g2' = g2
    BY <2>1, <2>2
  <2>3. ASSUME NEW a \in SUBSET {1, 2}, g2' = [g2 EXCEPT !.ADST = a], 1 \in a <=> 1 \in g2.ADST
        PROVE  g2' \in G2State /\ g2'.delay = g2.delay /\ (1 \in g2'.ADST <=> 1 \in g2.ADST)
    BY <2>1, <2>3 DEF G2State
  <2>4. \E a \in {g2.ADST \cup {2}, g2.ADST \ {2}} : g2' = g2 \/ g2' = [g2 EXCEPT !.ADST = a]
    BY <1>1, <2>1 DEF Read_SB_ADST, G2State
  <2> QED BY <2>1, <2>2, <2>3, <2>4
<1> QED BY <1>1, <1>2, <1>3 DEF TsInv, TypeOK, BusyEnds, OwedInv, CountBelow

\* The guest's acknowledge touches no transfer.
LEMMA AcknowledgeG2Inv ==
  ASSUME TsInv, AcknowledgeG2
  PROVE  TsInv'
<1>1. /\ UNCHANGED <<guest, end, busy, g2, maple, spg, tmu, update_cnt, dropped>>
      /\ SPU_IST' = FALSE
      /\ TypeOK /\ BusyEnds /\ OwedInv /\ CountBelow /\ preset' = preset
  BY DEF AcknowledgeG2, TsInv, preset
<1>2. owed' = owed /\ again' \subseteq Completion /\ raised' = {}
  BY <1>1, NoStartKeeps DEF AcknowledgeG2
<1> QED BY <1>1, <1>2 DEF TsInv, TypeOK, BusyEnds, OwedInv, CountBelow

\* A start of the G2-DMA has its end on the way, or behind it.
LEMMA WriteADSTInv ==
  ASSUME TsInv, Write_SB_ADST
  PROVE  TsInv'
<1> DEFINE g == [g2 EXCEPT !.ADST = {1}]
           cycles == G2Cycles(g2.len)
<1>1. /\ UNCHANGED <<guest, busy, maple, spg, tmu, update_cnt>> /\ dropped' = FALSE
      /\ TypeOK /\ BusyEnds /\ OwedInv /\ CountBelow /\ preset' = preset
      /\ preset.race \in BOOLEAN /\ "SPU_DMA" \in Id /\ "SPU_DMA" \in Completion
  BY GuestType, Names DEF Write_SB_ADST, TsInv, preset, TypeOK
<1>2. g2 \in G2State /\ g2.len \in Nat /\ g2.delay \in Nat
  BY <1>1 DEF TypeOK, G2State
<1>3. cycles \in Nat /\ cycles > 0 /\ cycles # Idle
  <2>1. g2.len * CyclesPerByte \in Nat
    BY <1>2, DmaAssumption
  <2> QED BY <2>1, DmaAssumption DEF G2Cycles, Idle
<1> HIDE DEF cycles
<1>4. g \in G2State /\ g.delay = g2.delay /\ 1 \in g.ADST
  BY <1>2 DEF G2State
<1>5. CASE /\ preset.sched /\ end' = sh4_sched_request(end, "SPU_DMA", cycles)
           /\ g2' = g /\ UNCHANGED SPU_IST /\ Starts({"SPU_DMA"})
  <2>1. /\ owed \subseteq owed' /\ "SPU_DMA" \in owed' /\ owed' \subseteq Completion
        /\ again' \subseteq Completion /\ raised' = {}
    BY <1>1, <1>5, StartsKeep
  <2>2. end' \in [Id -> Nat \cup {Idle}] /\ end'["SPU_DMA"] # Idle
    BY <1>1, <1>3, <1>5 DEF TypeOK, sh4_sched_request
  <2>3. \A id \in Id : id = "SPU_DMA" \/ end'[id] = end[id]
    BY <1>1, <1>5 DEF TypeOK, sh4_sched_request
  <2> HIDE DEF g
  <2>4. TypeOK'
    BY <1>1, <1>4, <1>5, <2>1, <2>2 DEF TypeOK
  <2>5. BusyEnds'
    BY <1>1, <2>2 DEF BusyEnds
  <2>6. OwedInv'
    BY <1>1, <1>4, <1>5, <2>1, <2>3 DEF OwedInv
  <2> QED BY <1>1, <2>4, <2>5, <2>6 DEF TsInv, CountBelow
<1>6. CASE /\ ~preset.sched /\ g2' = [g EXCEPT !.delay = cycles]
           /\ UNCHANGED <<end, SPU_IST>> /\ Starts({"SPU_DMA"})
  <2>1. /\ owed \subseteq owed' /\ "SPU_DMA" \in owed' /\ owed' \subseteq Completion
        /\ again' \subseteq Completion /\ raised' = {}
    BY <1>1, <1>6, StartsKeep
  <2> HIDE DEF g
  <2>2. g2' \in G2State /\ g2'.delay = cycles
    BY <1>3, <1>4, <1>6 DEF G2State
  <2>3. TypeOK'
    BY <1>1, <1>6, <2>1, <2>2 DEF TypeOK
  <2>4. BusyEnds'
    BY <1>1, <1>3, <2>2 DEF BusyEnds
  <2>5. OwedInv'
    BY <1>1, <1>6, <2>1 DEF OwedInv
  <2> QED BY <1>1, <2>3, <2>4, <2>5 DEF TsInv, CountBelow
<1>7. CASE /\ g2' = aica_dma_complete(g, preset.race) /\ SPU_IST' = TRUE
           /\ UNCHANGED end /\ NoStart
  <2>1. owed' = owed /\ again' \subseteq Completion /\ raised' = {}
    BY <1>1, <1>7, NoStartKeeps
  <2> HIDE DEF g
  <2>2. g2' \in G2State /\ g2'.delay = g2.delay /\ 1 \notin g2'.ADST
    BY <1>1, <1>4, <1>7, CompleteType
  <2> QED BY <1>1, <1>7, <2>1, <2>2 DEF TsInv, TypeOK, BusyEnds, OwedInv, CountBelow
<1> QED BY <1>5, <1>6, <1>7 DEF Write_SB_ADST, cycles

\* The Maple bus.
LEMMA GuestMapleInv ==
  ASSUME TsInv, GuestMaple
  PROVE  TsInv'
<1>1. /\ TypeOK /\ BusyEnds /\ OwedInv /\ CountBelow
      /\ maple \in MapleState /\ maple.pending \in Nat
      /\ (maple.MDST => maple.pending > 0) /\ (maple.pending > 0 => "MAPLE_DMA" \in owed)
      /\ "MAPLE_DMA" \in Completion
  BY OwedTypes, Names DEF TsInv, BusyEnds, OwedInv
<1>2. ASSUME NEW m, MapleWrite(m), m \in MapleState, m.MDST => m.pending > 0,
             owed \subseteq owed', owed' \subseteq Completion, again' \subseteq Completion,
             raised' = {}, m.pending > 0 => "MAPLE_DMA" \in owed'
      PROVE  TsInv'
  <2>1. UNCHANGED <<guest, end, busy, g2, SPU_IST, spg, tmu, update_cnt, dropped>> /\ maple' = m
    BY <1>2 DEF MapleWrite
  <2>2. preset' = preset
    BY <2>1 DEF preset
  <2>3. TypeOK'
    BY <1>1, <1>2, <2>1 DEF TypeOK
  <2>4. BusyEnds'
    BY <1>1, <1>2, <2>1 DEF BusyEnds
  <2>5. OwedInv'
    BY <1>1, <1>2, <2>1, <2>2 DEF OwedInv
  <2> QED BY <1>1, <2>1, <2>3, <2>4, <2>5 DEF TsInv, CountBelow
<1>3. ASSUME NEW m, MapleWrite(m), NoStart, m \in MapleState, m.MDST = maple.MDST,
             m.pending = maple.pending
      PROVE  TsInv'
  <2>1. owed' = owed /\ again' \subseteq Completion /\ raised' = {} /\ owed \subseteq Completion
    BY <1>1, <1>3, NoStartKeeps, OwedTypes
  <2> QED BY <1>1, <1>2, <1>3, <2>1
<1>4. ASSUME NEW en \in BOOLEAN, MapleWrite([maple EXCEPT !.MDEN = en]), NoStart
      PROVE  TsInv'
  <2> DEFINE m == [maple EXCEPT !.MDEN = en]
  <2>1. m \in MapleState /\ m.MDST = maple.MDST /\ m.pending = maple.pending
    BY <1>1 DEF MapleState
  <2> HIDE DEF m
  <2> QED BY <1>3, <1>4, <2>1 DEF m
<1>5. ASSUME NEW sel \in BOOLEAN, NEW once \in BOOLEAN,
             MapleWrite([maple EXCEPT !.MDTSEL = sel, !.once = once]), NoStart
      PROVE  TsInv'
  <2> DEFINE m == [maple EXCEPT !.MDTSEL = sel, !.once = once]
  <2>1. m \in MapleState /\ m.MDST = maple.MDST /\ m.pending = maple.pending
    BY <1>1 DEF MapleState
  <2> HIDE DEF m
  <2> QED BY <1>3, <1>5, <2>1 DEF m
<1>6. ASSUME MapleWrite(maple_SB_MSHTCL_Write(maple)), NoStart
      PROVE  TsInv'
  <2> DEFINE m == maple_SB_MSHTCL_Write(maple)
  <2>1. m \in MapleState /\ m.MDST = maple.MDST /\ m.pending = maple.pending
    BY <1>1 DEF MapleState, maple_SB_MSHTCL_Write
  <2> HIDE DEF m
  <2> QED BY <1>3, <1>6, <2>1 DEF m
<1>7. ASSUME NEW cost \in MapleCosts, MapleWrite(maple_SB_MDST_Write(maple, cost)),
             Starts(IF maple.MDEN THEN {"MAPLE_DMA"} ELSE {})
      PROVE  TsInv'
  <2> DEFINE m == maple_SB_MDST_Write(maple, cost)
             which == IF maple.MDEN THEN {"MAPLE_DMA"} ELSE {}
  <2>1. cost \in Nat \ {0}
    BY TimesliceAssumption
  <2>2. which \in SUBSET Completion
    BY <1>1
  <2>3. /\ owed \subseteq owed' /\ which \subseteq owed' /\ owed' \subseteq Completion
        /\ again' \subseteq Completion /\ raised' = {}
    BY <1>1, <1>7, <2>2, StartsKeep
  <2>4. CASE maple.MDEN
    <3>1. m = [[maple EXCEPT !.MDST = TRUE] EXCEPT !.pending = cost]
      BY <1>1, <2>4 DEF maple_SB_MDST_Write, maple_DoDma, MapleState
    <3>2. m \in MapleState /\ m.pending = cost
      BY <1>1, <2>1, <3>1 DEF MapleState
    <3>3. "MAPLE_DMA" \in owed'
      BY <2>3, <2>4
    <3> HIDE DEF m
    <3> QED BY <1>2, <1>7, <2>1, <2>3, <3>2, <3>3 DEF m
  <2>5. CASE ~maple.MDEN
    <3>1. m = maple
      BY <2>5 DEF maple_SB_MDST_Write
    <3> HIDE DEF m
    <3> QED BY <1>1, <1>2, <1>7, <2>3, <3>1 DEF m
  <2> QED BY <2>4, <2>5
<1> QED BY <1>4, <1>5, <1>6, <1>7 DEF GuestMaple

\* The renderer.
LEMMA GuestRenderInv ==
  ASSUME TsInv, GuestRender
  PROVE  TsInv'
<1>1. /\ TypeOK /\ BusyEnds /\ OwedInv /\ CountBelow /\ preset' = preset
      /\ UNCHANGED <<guest, end, busy, g2, SPU_IST, maple, tmu, update_cnt, dropped>>
      /\ spg \in SpgState /\ spg.counter \in -Slice .. 2 * LineCycles - 1
      /\ RenderDone \subseteq Completion /\ List \subseteq Completion
      /\ spg.isp \in Nat /\ spg.tsp \in Nat /\ spg.vd \in Nat /\ spg.end \in Nat
      /\ spg.list \in [List -> Nat]
  BY OwedTypes, Names DEF GuestRender, TsInv, preset, TypeOK
<1> DEFINE Armed(t) ==
      /\ preset.rd_mode = 1 => t.end = 0
      /\ preset.rd_mode # 1 => t.isp = 0 /\ t.tsp = 0 /\ t.vd = 0
      /\ t.end > 0 => RenderDone \subseteq owed'
      /\ t.isp > 0 => "RENDER_DONE_isp" \in owed'
      /\ t.tsp > 0 => "RENDER_DONE" \in owed'
      /\ t.vd > 0 => "RENDER_DONE_vd" \in owed'
      /\ \A l \in List : t.list[l] > 0 => l \in owed'
<1>2. ASSUME owed \subseteq owed', owed' \subseteq Completion, again' \subseteq Completion,
             raised' = {}, spg' \in SpgState, spg'.counter = spg.counter, Armed(spg')
      PROVE  TsInv'
  <2>1. TypeOK'
    BY <1>1, <1>2 DEF TypeOK
  <2>2. BusyEnds'
    BY <1>1 DEF BusyEnds
  <2>3. OwedInv'
    BY <1>1, <1>2 DEF OwedInv
  <2> QED BY <1>1, <2>1, <2>2, <2>3 DEF TsInv, CountBelow
<1>3. ASSUME NEW cost \in RenderCosts, spg' = StartRender(spg, preset.rd_mode, cost), Starts(RenderDone)
      PROVE  TsInv'
  <2>1. cost \in Nat /\ IspDelay \in Nat /\ TspDelay \in Nat /\ VdDelay \in Nat
    BY TimesliceAssumption, SpgAssumption
  <2>2. /\ owed \subseteq owed' /\ RenderDone \subseteq owed' /\ owed' \subseteq Completion
        /\ again' \subseteq Completion /\ raised' = {}
    BY <1>1, <1>3, StartsKeep
  <2>3. spg' \in SpgState /\ spg'.counter = spg.counter /\ spg'.list = spg.list
    BY <1>1, <1>3, <2>1 DEF StartRender, SpgState
  <2>4. /\ preset.rd_mode = 1 => spg'.end = 0
        /\ preset.rd_mode # 1 => spg'.isp = 0 /\ spg'.tsp = 0 /\ spg'.vd = 0
    BY <1>1, <1>3 DEF StartRender, SpgState, OwedInv
  <2>5. \A l \in List : spg'.list[l] > 0 => l \in owed'
    BY <1>1, <2>2, <2>3 DEF OwedInv
  <2>6. "RENDER_DONE_isp" \in owed' /\ "RENDER_DONE" \in owed' /\ "RENDER_DONE_vd" \in owed'
    BY <2>2 DEF RenderDone
  <2> QED BY <1>2, <2>2, <2>3, <2>4, <2>5, <2>6
<1>4. ASSUME NEW l \in List, spg' = spg_SchedListEndIrq(spg, l), Starts({l})
      PROVE  TsInv'
  <2>1. /\ owed \subseteq owed' /\ l \in owed' /\ owed' \subseteq Completion
        /\ again' \subseteq Completion /\ raised' = {}
    BY <1>1, <1>4, StartsKeep
  <2> DEFINE list == [spg.list EXCEPT ![l] = ListDelay]
  <2>2. list \in [List -> Nat] /\ \A k \in List : k = l \/ list[k] = spg.list[k]
    BY <1>1, SpgAssumption
  <2>3. spg' = [spg EXCEPT !.list = list]
    BY <1>1, <1>4 DEF spg_SchedListEndIrq, SpgState
  <2> HIDE DEF list
  <2>4. /\ spg' \in SpgState /\ spg'.counter = spg.counter /\ spg'.list = list
        /\ spg'.end = spg.end /\ spg'.isp = spg.isp /\ spg'.tsp = spg.tsp /\ spg'.vd = spg.vd
    BY <1>1, <2>2, <2>3 DEF SpgState
  <2>5. Armed(spg')
    BY <1>1, <2>1, <2>2, <2>4 DEF OwedInv
  <2> QED BY <1>2, <2>1, <2>4, <2>5
<1> QED BY <1>3, <1>4 DEF GuestRender

\* The timer.
LEMMA GuestTimerInv ==
  ASSUME TsInv, GuestTimer
  PROVE  TsInv'
<1>1. /\ UNCHANGED <<guest, end, busy, g2, SPU_IST, maple, spg, update_cnt, dropped>>
      /\ TypeOK /\ BusyEnds /\ OwedInv /\ CountBelow /\ preset' = preset
  BY DEF GuestTimer, TsInv, preset
<1>2. owed' = owed /\ again' \subseteq Completion /\ raised' = {}
  BY <1>1, NoStartKeeps DEF GuestTimer
<1>3. tmu \in TmuState /\ tmu.acc < tmu.prescale
  BY <1>1 DEF TypeOK, CountBelow
<1>4. tmu' \in TmuState /\ tmu'.acc < tmu'.prescale
  <2>1. ASSUME NEW run \in BOOLEAN, tmu' = [tmu EXCEPT !.run = run]
        PROVE  tmu' \in TmuState /\ tmu'.acc < tmu'.prescale
    BY <1>3, <2>1 DEF TmuState
  <2>2. ASSUME NEW c \in CntValues \cup CorValues,
               tmu' = [tmu EXCEPT !.CNT = c] \/ tmu' = [tmu EXCEPT !.COR = c]
        PROVE  tmu' \in TmuState /\ tmu'.acc < tmu'.prescale
    BY <1>3, <2>2, TimesliceAssumption DEF TmuState
  <2>3. ASSUME NEW unf \in BOOLEAN, NEW mode \in Mode, tmu' = TMU_TCR_write(tmu, unf, mode)
        PROVE  tmu' \in TmuState /\ tmu'.acc < tmu'.prescale
    <3> DEFINE u == [tmu EXCEPT !.UNF = unf, !.mode = mode]
    <3>1. u \in TmuState /\ u.acc < u.prescale
      BY <1>3 DEF TmuState
    <3>2. tmu' = u \/ (mode \in DOMAIN Prescale /\ tmu' = [u EXCEPT !.prescale = Prescale[mode], !.acc = 0])
      BY <2>3 DEF TMU_TCR_write
    <3> HIDE DEF u
    <3>3. ASSUME mode \in DOMAIN Prescale, tmu' = [u EXCEPT !.prescale = Prescale[mode], !.acc = 0]
          PROVE  tmu' \in TmuState /\ tmu'.acc < tmu'.prescale
      <4>1. Prescale[mode] \in Nat \ {0} /\ Prescale[mode] \in {Prescale[m] : m \in DOMAIN Prescale}
        BY <3>3, TmuAssumption
      <4>2. tmu' \in TmuState /\ tmu'.acc = 0 /\ tmu'.prescale = Prescale[mode]
        BY <3>1, <3>3, <4>1 DEF TmuState
      <4> QED BY <4>1, <4>2
    <3> QED BY <3>1, <3>2, <3>3
  <2> QED BY <2>1, <2>2, <2>3 DEF GuestTimer
<1>5. TypeOK'
  BY <1>1, <1>2, <1>4 DEF TypeOK
<1>6. BusyEnds' /\ OwedInv'
  BY <1>1, <1>2 DEF BusyEnds, OwedInv
<1> QED BY <1>4, <1>5, <1>6 DEF TsInv, CountBelow

\* The resets.
LEMMA ResetIs ==
  ASSUME NEW s \in SpgState
  PROVE  LET t == spg_Reset(s)
         IN /\ t \in SpgState /\ t.counter = s.counter
            /\ t.end = 0 /\ t.isp = 0 /\ t.tsp = 0 /\ t.vd = 0
            /\ \A l \in List : t.list[l] = 0
BY DEF spg_Reset, SpgState

\* tmu_Reset loads a mode that has a prescaler.
LEMMA TmuResetIs ==
  tmu_Reset \in TmuState /\ tmu_Reset.acc < tmu_Reset.prescale
<1>1. /\ Prescale[0] \in Nat \ {0} /\ 0 \in Mode
      /\ Prescale[0] \in {Prescale[m] : m \in DOMAIN Prescale} /\ CntMod - 1 \in 0 .. CntMod - 1
  BY TmuAssumption
<1> QED BY <1>1 DEF tmu_Reset, TmuState

\* A reset of the machine leaves the G2-DMA alone, and drops every other end.
LEMMA ResetDCInv ==
  ASSUME TsInv, ResetDC
  PROVE  TsInv'
<1>1. /\ UNCHANGED <<guest, g2, SPU_IST, update_cnt>> /\ spg' = spg_Reset(spg)
      /\ end' = Unscheduled /\ tmu' = tmu_Reset /\ busy' = {} /\ maple' = maple_Reset
      /\ owed' = owed \cap (IF g2.delay > 0 THEN {"SPU_DMA"} ELSE {})
      /\ dropped' = (dropped \/ end["SPU_DMA"] # Idle)
      /\ again' = {} /\ raised' = {}
      /\ TypeOK /\ BusyEnds /\ OwedInv /\ preset' = preset
  BY DEF ResetDC, sh4_sched_reset, TsInv, preset
<1>2. /\ spg' \in SpgState /\ spg'.counter = spg.counter
      /\ spg'.end = 0 /\ spg'.isp = 0 /\ spg'.tsp = 0 /\ spg'.vd = 0
      /\ \A l \in List : spg'.list[l] = 0
  BY <1>1, ResetIs DEF TypeOK
<1>3. maple' \in MapleState /\ ~maple'.MDST /\ maple'.pending = 0
  BY <1>1 DEF maple_Reset, MapleState
<1>4. end' \in [Id -> Nat \cup {Idle}] /\ \A id \in Id : end'[id] = Idle
  BY <1>1 DEF Unscheduled
<1>5. tmu' \in TmuState /\ CountBelow'
  BY <1>1, TmuResetIs DEF CountBelow
<1>6. TypeOK'
  BY <1>1, <1>2, <1>3, <1>4, <1>5 DEF TypeOK
<1>7. BusyEnds'
  BY <1>1, <1>3 DEF BusyEnds, TypeOK
<1>8. OwedInv'
  BY <1>1, <1>2, <1>3, <1>4 DEF OwedInv
<1> QED BY <1>5, <1>6, <1>7, <1>8 DEF TsInv

\* A soft reset drops the renderer's ends.
LEMMA HollySoftResetInv ==
  ASSUME TsInv, HollySoftReset
  PROVE  TsInv'
<1>1. /\ UNCHANGED <<guest, end, busy, g2, SPU_IST, maple, tmu, update_cnt, dropped>>
      /\ spg' = spg_Reset(spg) /\ owed' = owed \ (RenderDone \cup List)
      /\ again' = {} /\ raised' = {}
      /\ TypeOK /\ BusyEnds /\ OwedInv /\ CountBelow /\ preset' = preset
  BY DEF HollySoftReset, TsInv, preset
<1>2. /\ spg' \in SpgState /\ spg'.counter = spg.counter
      /\ spg'.end = 0 /\ spg'.isp = 0 /\ spg'.tsp = 0 /\ spg'.vd = 0
      /\ \A l \in List : spg'.list[l] = 0
  BY <1>1, ResetIs DEF TypeOK
<1>3. TypeOK'
  BY <1>1, <1>2 DEF TypeOK
<1>4. BusyEnds'
  BY <1>1 DEF BusyEnds
<1>5. OwedInv'
  BY <1>1, <1>2, Names DEF OwedInv
<1> QED BY <1>1, <1>3, <1>4, <1>5 DEF TsInv, CountBelow

\* Nothing runs after a power-on.
LEMMA TsInitInv ==
  ASSUME Init
  PROVE  TsInv
<1>1. g2 \in G2State /\ g2.ADST = {} /\ g2.delay = 0
  BY DEF Init, InitialG2, G2State
<1>2. maple \in MapleState /\ ~maple.MDST /\ maple.pending = 0
  BY DEF Init, maple_Reset, MapleState
<1>3. /\ spg \in SpgState /\ spg.counter = 0 /\ spg.end = 0 /\ spg.isp = 0 /\ spg.tsp = 0
      /\ spg.vd = 0 /\ \A l \in List : spg.list[l] = 0
  BY SpgAssumption DEF Init, InitialSpg, SpgState
<1>4. end \in [Id -> Nat \cup {Idle}] /\ \A id \in Id : end[id] = Idle
  BY DEF Init, Unscheduled
<1>5. tmu \in TmuState /\ tmu.acc < tmu.prescale
  BY TmuResetIs DEF Init
<1>6. /\ guest \in Guests /\ busy = {} /\ SPU_IST = FALSE /\ update_cnt = 0
      /\ owed = {} /\ again = {} /\ raised = {} /\ dropped = FALSE
  BY DEF Init
<1>7. 0 \in 0 .. VSlow - 1 /\ 0 \in -Slice .. 2 * LineCycles - 1
  BY SliceType
<1>8. TypeOK
  BY <1>1, <1>2, <1>3, <1>4, <1>5, <1>6, <1>7 DEF TypeOK
<1>9. BusyEnds
  BY <1>1, <1>2 DEF BusyEnds
<1>10. OwedInv
  BY <1>1, <1>2, <1>3, <1>4 DEF OwedInv
<1> QED BY <1>5, <1>8, <1>9, <1>10 DEF TsInv, CountBelow

\* Every step keeps the invariant.
LEMMA TsNextInv ==
  ASSUME TsInv, [Next]_vars
  PROVE  TsInv'
<1>1. CASE UNCHANGED vars
  BY <1>1 DEF vars, devices, TsInv, TypeOK, BusyEnds, OwedInv, CountBelow, preset
<1> QED
  BY <1>1, UpdateSystemInv, StartDmaInv, WriteG2Inv, WriteADSTInv, ReadG2Inv, AcknowledgeG2Inv,
     GuestMapleInv, GuestRenderInv, GuestTimerInv, ResetDCInv, HollySoftResetInv DEF Next

\* Every behaviour keeps the invariant.
LEMMA TsInvariant == SafeSpec => []TsInv
<1>1. Init => TsInv
  BY TsInitInv
<1>2. TsInv /\ [Next]_vars => TsInv'
  BY TsNextInv
<1> QED BY <1>1, <1>2, PTL DEF SafeSpec

\* The registers and counts of every device keep their types, the beam its line and
\* its distance to the next one.
THEOREM TsTypeCorrect == SafeSpec => []TypeOK
<1>1. TsInv => TypeOK
  BY DEF TsInv
<1> QED BY <1>1, TsInvariant, PTL

\* A busy bit that is up has its end on the way, whatever was started, aborted or
\* reset since, but for a G2-DMA whose deadline ResetDC dropped.
THEOREM BusyAlwaysEnds == SafeSpec => []BusyEnds
<1>1. TsInv => BusyEnds
  BY DEF TsInv
<1> QED BY <1>1, TsInvariant, PTL

\* No interrupt comes twice for one transfer, or for a transfer or render that a reset
\* cut off.
THEOREM OnlyOwedEndsAreRaised == SafeSpec => EndsAreOwed
<1>1. ASSUME TsInv, Next
      PROVE  raised' \subseteq owed
  <2>1. CASE UpdateSystem
    <3>1. raised' = FromMaple \cup FromSpg \cup FromSched \cup FromG2
      BY <1>1, <2>1, UpdateSystemEffect
    <3> QED BY <1>1, <3>1, EveryEndIsOwed DEF TsInv
  <2>2. CASE raised' = {}
    BY <2>2
  <2>3. UpdateSystem \/ raised' = {}
    BY <1>1 DEF Next, StartDma, WriteG2, Write_SB_ADST, ReadG2, AcknowledgeG2, GuestMaple,
                GuestRender, GuestTimer, ResetDC, HollySoftReset, NoStart, Starts
  <2> QED BY <2>1, <2>2, <2>3
<1>2. TsInv /\ [Next]_vars => [raised' \subseteq owed]_vars
  BY <1>1
<1> QED BY <1>2, TsInvariant, PTL DEF SafeSpec, EndsAreOwed

-----------------------------------------------------------------------------
(* The timer                                                               *)

\* What a counter from CNT on shows after k counts: down to 0, then round and
\* round from the reload value, all of the register for a reload of 0.
Period(cor) == IF cor = 0 THEN CntMod ELSE cor
CountAfter(cnt, cor, k) ==
  IF k <= cnt THEN cnt - k ELSE Period(cor) - 1 - ((k - cnt - 1) % Period(cor))

\* Each count takes it down by one, or reloads it.
LEMMA CountAfterNext ==
  ASSUME NEW cnt \in 0 .. CntMod - 1, NEW cor \in 0 .. CntMod - 1, NEW k \in Nat
  PROVE  LET c == CountAfter(cnt, cor, k)
         IN /\ c \in 0 .. CntMod - 1
            /\ c = 0 => k >= cnt
            /\ k < cnt => c # 0
            /\ CountAfter(cnt, cor, k + 1) = IF c = 0 THEN (cor - 1) % CntMod ELSE c - 1
            /\ c # 0 => (k > cnt <=> k + 1 > cnt)
<1> DEFINE p == Period(cor)
           j == k - cnt - 1
           c == CountAfter(cnt, cor, k)
           d == CountAfter(cnt, cor, k + 1)
           last == (cor - 1) % CntMod
<1>1. CntMod \in Nat \ {0} /\ p \in Nat \ {0} /\ p <= CntMod
  BY TmuAssumption DEF Period
<1>2. last = p - 1
  <2>1. CASE cor = 0
    <3>1. CntMod * (-1) + (CntMod - 1) = cor - 1 /\ CntMod - 1 \in 0 .. CntMod - 1
      BY <1>1, <2>1
    <3>2. (CntMod * (-1) + (CntMod - 1)) % CntMod = CntMod - 1
      BY <1>1, <3>1, Remainder
    <3> QED BY <2>1, <3>1, <3>2 DEF Period
  <2>2. CASE cor # 0
    <3>1. cor - 1 \in Nat /\ cor - 1 < CntMod
      BY <1>1, <2>2
    <3>2. (cor - 1) % CntMod = cor - 1
      BY <1>1, <3>1, NextMod
    <3> QED BY <2>2, <3>2 DEF Period
  <2> QED BY <2>1, <2>2
<1>3. CASE k < cnt
  <2>1. c = cnt - k /\ d = cnt - k - 1
    BY <1>3 DEF CountAfter
  <2> HIDE DEF c, d, last
  <2>2. c \in 0 .. CntMod - 1 /\ c # 0 /\ d = c - 1 /\ (k > cnt <=> k + 1 > cnt)
    BY <1>1, <1>3, <2>1
  <2> QED BY <1>3, <2>2 DEF c, d
<1>4. CASE k = cnt
  <2>1. c = 0
    BY <1>4 DEF CountAfter
  <2>2. d = p - 1 - (0 % p)
    BY <1>4 DEF CountAfter
  <2>3. 0 % p = 0
    <3> HIDE DEF p
    <3> QED BY <1>1, NextMod
  <2> HIDE DEF c, d, p, last
  <2>4. d = last /\ c \in 0 .. CntMod - 1
    BY <1>1, <1>2, <2>1, <2>2, <2>3
  <2> QED BY <1>4, <2>1, <2>4 DEF c, d, last
<1>5. CASE k > cnt
  <2> DEFINE r == j % p
  <2>1. j \in Nat
    BY <1>5
  <2>2. c = p - 1 - r
    BY <1>5 DEF CountAfter
  <2>3. d = p - 1 - ((j + 1) % p)
    <3>1. ~(k + 1 <= cnt) /\ k + 1 - cnt - 1 = j + 1
      BY <1>5
    <3> QED BY <3>1 DEF CountAfter
  <2>4. r \in Nat /\ r < p /\ (j + 1) % p = IF r + 1 = p THEN 0 ELSE r + 1
    <3> HIDE DEF p, j
    <3> QED BY <1>1, <2>1, NextMod
  <2> HIDE DEF c, d, p, j, r, last
  <2>5. c \in 0 .. CntMod - 1 /\ d = IF c = 0 THEN last ELSE c - 1
    BY <1>1, <1>2, <2>2, <2>3, <2>4
  <2>6. k >= cnt /\ ~(k < cnt) /\ (k > cnt <=> k + 1 > cnt)
    BY <1>5
  <2> QED BY <2>5, <2>6 DEF c, d, last
<1> QED BY <1>3, <1>4, <1>5

\* The channel after n cycles, at one go.
AfterCycles(t, n) ==
  LET k == (t.acc + n) \div t.prescale
  IN IF ~t.run THEN t
     ELSE [t EXCEPT !.acc = (t.acc + n) % t.prescale,
                    !.CNT = CountAfter(t.CNT, t.COR, k),
                    !.UNF = @ \/ k > t.CNT]

\* After no cycles nothing has changed.
LEMMA AfterCyclesStart ==
  ASSUME NEW t \in TmuState, t.acc < t.prescale
  PROVE  AfterCycles(t, 0) = t
<1>1. /\ t.acc \in Nat /\ t.prescale \in Nat \ {0} /\ t.CNT \in Nat /\ t.UNF \in BOOLEAN
      /\ t.acc + 0 = t.acc
  BY TmuAssumption DEF TmuState
<1>2. t.acc % t.prescale = t.acc /\ t.acc \div t.prescale = 0
  BY <1>1
<1>3. CountAfter(t.CNT, t.COR, 0) = t.CNT /\ ~(0 > t.CNT)
  BY <1>1 DEF CountAfter
<1>4. (t.UNF \/ 0 > t.CNT) = t.UNF
  BY <1>1, <1>3
<1>5. [t EXCEPT !.acc = t.acc, !.CNT = t.CNT, !.UNF = t.UNF] = t
  BY DEF TmuState
<1>6. AfterCycles(t, 0) = IF ~t.run THEN t
         ELSE [t EXCEPT !.acc = t.acc, !.CNT = t.CNT, !.UNF = (t.UNF \/ 0 > t.CNT)]
  BY <1>1, <1>2, <1>3 DEF AfterCycles, TmuState
<1> QED BY <1>4, <1>5, <1>6

\* Each cycle goes on from the one before.
LEMMA AfterCyclesNext ==
  ASSUME NEW t \in TmuState, t.acc < t.prescale, NEW n \in Nat
  PROVE  AfterCycles(t, n + 1) = OneCycle(AfterCycles(t, n))
<1> DEFINE k == (t.acc + n) \div t.prescale
           a == (t.acc + n) % t.prescale
           c == CountAfter(t.CNT, t.COR, k)
           unf == t.UNF \/ k > t.CNT
           s == [t EXCEPT !.acc = a, !.CNT = c, !.UNF = unf]
           K == (t.acc + (n + 1)) \div t.prescale
           A == (t.acc + (n + 1)) % t.prescale
           C == CountAfter(t.CNT, t.COR, K)
           Unf == t.UNF \/ K > t.CNT
           S == [t EXCEPT !.acc = A, !.CNT = C, !.UNF = Unf]
<1>1. /\ t.acc \in Nat /\ t.prescale \in Nat \ {0} /\ t.CNT \in 0 .. CntMod - 1
      /\ t.COR \in 0 .. CntMod - 1 /\ t.UNF \in BOOLEAN /\ t.run \in BOOLEAN /\ CntMod \in Nat \ {0}
  BY TmuAssumption DEF TmuState
<1>2. CASE ~t.run
  BY <1>2 DEF AfterCycles, OneCycle
<1>3. CASE t.run
  <2>1. AfterCycles(t, n) = s /\ AfterCycles(t, n + 1) = S
    BY <1>3 DEF AfterCycles
  <2> SUFFICES S = OneCycle(s)
    BY <2>1
  <2>2. /\ k \in Nat /\ a \in Nat /\ a < t.prescale
        /\ K = IF a + 1 = t.prescale THEN k + 1 ELSE k
        /\ A = IF a + 1 = t.prescale THEN 0 ELSE a + 1
    <3> DEFINE m == t.acc + n
    <3>1. m \in Nat /\ t.acc + (n + 1) = m + 1
      BY <1>1
    <3> HIDE DEF m
    <3>2. /\ m \div t.prescale \in Nat /\ m % t.prescale \in Nat /\ (m % t.prescale) < t.prescale
          /\ (m + 1) \div t.prescale = IF (m % t.prescale) + 1 = t.prescale THEN m \div t.prescale + 1 ELSE m \div t.prescale
          /\ (m + 1) % t.prescale = IF (m % t.prescale) + 1 = t.prescale THEN 0 ELSE (m % t.prescale) + 1
      BY <1>1, <3>1, NextMod, NextDiv
    <3> QED BY <3>1, <3>2 DEF m
  <2>3. /\ c \in 0 .. CntMod - 1 /\ (c = 0 => k >= t.CNT)
        /\ CountAfter(t.CNT, t.COR, k + 1) = IF c = 0 THEN (t.COR - 1) % CntMod ELSE c - 1
        /\ c # 0 => (k > t.CNT <=> k + 1 > t.CNT)
    <3> HIDE DEF k
    <3> QED BY <1>1, <2>2, CountAfterNext
  <2> HIDE DEF k, a, K, A
  <2> HIDE DEF c
  <2>4. /\ s.run /\ s.acc = a /\ s.CNT = c /\ s.COR = t.COR /\ s.prescale = t.prescale
    BY <1>3 DEF TmuState
  <2>5. CASE a + 1 # t.prescale
    <3>1. K = k /\ A = a + 1 /\ C = c /\ Unf = unf
      BY <2>2, <2>5 DEF c
    <3>2. OneCycle(s) = [s EXCEPT !.acc = a + 1]
      BY <2>4, <2>5 DEF OneCycle
    <3>3. [s EXCEPT !.acc = a + 1] = [t EXCEPT !.acc = a + 1, !.CNT = c, !.UNF = unf]
      <4> HIDE DEF unf
      <4> QED BY DEF TmuState
    <3> QED BY <3>1, <3>2, <3>3
  <2>6. CASE a + 1 = t.prescale /\ c # 0
    <3>1. K = k + 1 /\ A = 0 /\ C = c - 1
      BY <2>2, <2>3, <2>6
    <3>2. Unf = unf
      BY <2>3, <2>6, <3>1
    <3>3. OneCycle(s) = [[s EXCEPT !.CNT = c - 1] EXCEPT !.acc = 0]
      BY <2>4, <2>6 DEF OneCycle, OneStep
    <3>4. [[s EXCEPT !.CNT = c - 1] EXCEPT !.acc = 0] = [t EXCEPT !.acc = 0, !.CNT = c - 1, !.UNF = unf]
      <4> HIDE DEF unf
      <4> QED BY DEF TmuState
    <3> QED BY <3>1, <3>2, <3>3, <3>4
  <2>7. CASE a + 1 = t.prescale /\ c = 0
    <3> DEFINE last == (t.COR - 1) % CntMod
    <3>1. K = k + 1 /\ A = 0 /\ C = last
      BY <2>2, <2>3, <2>7
    <3>2. Unf = TRUE
      <4>1. K > t.CNT
        BY <1>1, <2>2, <2>3, <2>7, <3>1
      <4> QED BY <4>1
    <3>3. OneCycle(s) = [[s EXCEPT !.CNT = last, !.UNF = TRUE] EXCEPT !.acc = 0]
      BY <2>4, <2>7 DEF OneCycle, OneStep
    <3> HIDE DEF last
    <3>4. [[s EXCEPT !.CNT = last, !.UNF = TRUE] EXCEPT !.acc = 0]
            = [t EXCEPT !.acc = 0, !.CNT = last, !.UNF = TRUE]
      <4> HIDE DEF unf
      <4> QED BY DEF TmuState
    <3> QED BY <3>1, <3>2, <3>3, <3>4
  <2> QED BY <2>5, <2>6, <2>7
<1> QED BY <1>1, <1>2, <1>3

\* Counting cycle by cycle comes to the same, whatever the number of cycles.
LEMMA CycleByCycleIs ==
  ASSUME NEW t \in TmuState, t.acc < t.prescale, NEW cycles \in Nat
  PROVE  CycleByCycle(t, cycles) = AfterCycles(t, cycles)
<1> DEFINE Steps(f) == f = [n \in 0 .. cycles |-> IF n = 0 THEN t ELSE OneCycle(f[n - 1])]
           after == CHOOSE f : Steps(f)
           g == [n \in 0 .. cycles |-> AfterCycles(t, n)]
<1>1. CycleByCycle(t, cycles) = after[cycles]
  BY DEF CycleByCycle
<1>2. Steps(g)
  <2>1. ASSUME NEW n \in 0 .. cycles
        PROVE  g[n] = IF n = 0 THEN t ELSE OneCycle(g[n - 1])
    <3>1. g[n] = AfterCycles(t, n)
      OBVIOUS
    <3>2. CASE n = 0
      BY <3>1, <3>2, AfterCyclesStart
    <3>3. CASE n # 0
      <4>1. n - 1 \in 0 .. cycles /\ n - 1 \in Nat /\ (n - 1) + 1 = n
        BY <3>3
      <4>2. g[n - 1] = AfterCycles(t, n - 1)
        BY <4>1
      <4>3. AfterCycles(t, n) = OneCycle(AfterCycles(t, n - 1))
        BY <4>1, AfterCyclesNext
      <4> QED BY <3>1, <3>3, <4>2, <4>3
    <3> QED BY <3>2, <3>3
  <2> DEFINE h == [n \in 0 .. cycles |-> IF n = 0 THEN t ELSE OneCycle(g[n - 1])]
  <2>2. \A n \in 0 .. cycles : g[n] = h[n]
    BY <2>1
  <2>3. g = h
    BY <2>2
  <2> QED BY <2>3
<1>3. Steps(after)
  BY <1>2
<1> HIDE DEF after
<1>4. /\ after[0] = t
      /\ \A n \in 0 .. cycles : n # 0 => after[n] = OneCycle(after[n - 1])
  BY <1>3
<1> HIDE DEF Steps
<1> DEFINE Wrong == {n \in 0 .. cycles : after[n] # AfterCycles(t, n)}
<1>5. Wrong = {}
  <2> SUFFICES ASSUME Wrong # {} PROVE FALSE
    OBVIOUS
  <2>1. PICK n \in Wrong : \A m \in Wrong : n <= m
    <3>1. Wrong \subseteq Nat
      OBVIOUS
    <3> HIDE DEF Wrong
    <3> QED BY <3>1, Least
  <2>2. n \in 0 .. cycles /\ after[n] # AfterCycles(t, n)
    OBVIOUS
  <2>3. n # 0
    BY <1>4, <2>2, AfterCyclesStart
  <2>4. n - 1 \in 0 .. cycles /\ n - 1 \in Nat /\ (n - 1) + 1 = n
    BY <2>2, <2>3
  <2>5. n - 1 \notin Wrong
    BY <2>1, <2>2, <2>4
  <2>6. after[n - 1] = AfterCycles(t, n - 1)
    BY <2>4, <2>5
  <2>7. AfterCycles(t, n) = OneCycle(AfterCycles(t, n - 1))
    BY <2>4, AfterCyclesNext
  <2> QED BY <1>4, <2>2, <2>3, <2>6, <2>7
<1>6. cycles \in 0 .. cycles
  OBVIOUS
<1> QED BY <1>1, <1>5, <1>6

\* So does the bulk update, but for a slice that ends on a whole number of periods.
LEMMA BulkIs ==
  ASSUME NEW t \in TmuState, t.acc < t.prescale, NEW cycles \in Nat,
         ~(t.run /\ EndsOnPeriod(t, cycles))
  PROVE  UpdateTMU_chan(t, cycles) = AfterCycles(t, cycles)
<1> DEFINE steps == (t.acc + cycles) \div t.prescale
           acc == (t.acc + cycles) % t.prescale
           left == steps - t.CNT
           cnt == (t.COR - Absorb(left, t.COR)) % CntMod
           c == CountAfter(t.CNT, t.COR, steps)
           p == Period(t.COR)
           u == [t EXCEPT !.acc = acc]
<1>1. /\ t.acc \in Nat /\ t.prescale \in Nat \ {0} /\ t.CNT \in 0 .. CntMod - 1
      /\ t.COR \in 0 .. CntMod - 1 /\ t.UNF \in BOOLEAN /\ t.run \in BOOLEAN /\ CntMod \in Nat \ {0}
  BY TmuAssumption DEF TmuState
<1>2. steps \in Nat
  BY <1>1
<1>3. UpdateTMU_chan(t, cycles) =
        IF ~t.run THEN t ELSE IF steps > t.CNT THEN [u EXCEPT !.UNF = TRUE, !.CNT = cnt]
                              ELSE [u EXCEPT !.CNT = t.CNT - steps]
  BY DEF UpdateTMU_chan
<1>4. AfterCycles(t, cycles) =
        IF ~t.run THEN t ELSE [t EXCEPT !.acc = acc, !.CNT = c, !.UNF = t.UNF \/ steps > t.CNT]
  BY DEF AfterCycles, TmuState
<1>5. t.run => ~(t.COR > 0 /\ left > t.COR /\ left % t.COR = 0)
  BY DEF EndsOnPeriod
<1> HIDE DEF steps, acc
<1>6. CASE ~t.run
  BY <1>3, <1>4, <1>6
<1>7. CASE t.run /\ ~(steps > t.CNT)
  <2>1. c = t.CNT - steps
    BY <1>1, <1>2, <1>7 DEF CountAfter
  <2>2. (t.UNF \/ steps > t.CNT) = t.UNF
    BY <1>1, <1>7
  <2>3. [u EXCEPT !.CNT = c] = [t EXCEPT !.acc = acc, !.CNT = c, !.UNF = t.UNF]
    <3> HIDE DEF c
    <3> QED BY DEF TmuState
  <2> HIDE DEF c, u
  <2> QED BY <1>3, <1>4, <1>7, <2>1, <2>2, <2>3
<1>8. CASE t.run /\ steps > t.CNT
  <2>1. left \in Nat /\ left > 0 /\ left - 1 \in Nat /\ (left - 1) + 1 = left
    BY <1>1, <1>2, <1>8
  <2>2. c = p - 1 - ((left - 1) % p)
    BY <1>1, <1>2, <1>8 DEF CountAfter
  <2> HIDE DEF c, left
  <2>3. cnt = c
    <3>1. CASE t.COR = 0
      <4> DEFINE q == (left - 1) \div CntMod
                 r == (left - 1) % CntMod
      <4>1. p = CntMod /\ Absorb(left, t.COR) = left
        BY <3>1 DEF Period, Absorb
      <4>2. q \in Int /\ r \in 0 .. CntMod - 1 /\ left - 1 = CntMod * q + r
        BY <1>1, <2>1
      <4> HIDE DEF q, r
      <4>3. t.COR - left = CntMod * (-q - 1) + (CntMod - 1 - r)
        BY <1>1, <2>1, <3>1, <4>2
      <4>4. -q - 1 \in Int /\ CntMod - 1 - r \in 0 .. CntMod - 1
        BY <1>1, <4>2
      <4>5. (CntMod * (-q - 1) + (CntMod - 1 - r)) % CntMod = CntMod - 1 - r
        BY <1>1, <4>4, Remainder
      <4> QED BY <2>2, <4>1, <4>3, <4>5 DEF r
    <3>2. ASSUME t.COR > 0, NEW m \in Nat, m > 0, m <= t.COR, Absorb(left, t.COR) = m,
                 (left - 1) % t.COR = m - 1
          PROVE  cnt = c
      <4>1. t.COR - m \in Nat /\ t.COR - m < CntMod
        BY <1>1, <3>2
      <4>2. (t.COR - m) % CntMod = t.COR - m
        BY <1>1, <4>1, NextMod
      <4>3. p = t.COR
        BY <3>2 DEF Period
      <4> HIDE DEF p
      <4>4. c = t.COR - m
        BY <1>1, <2>2, <3>2, <4>3
      <4> QED BY <3>2, <4>2, <4>4
    <3>3. CASE t.COR > 0 /\ left <= t.COR
      <4>1. left - 1 < t.COR /\ t.COR \in Nat \ {0}
        BY <1>1, <2>1, <3>3
      <4>2. (left - 1) % t.COR = left - 1
        BY <2>1, <4>1, NextMod
      <4>3. Absorb(left, t.COR) = left
        BY <1>1, <2>1, <3>3 DEF Absorb
      <4> QED BY <2>1, <3>2, <3>3, <4>2, <4>3
    <3>4. CASE t.COR > 0 /\ left > t.COR
      <4> DEFINE r == (left - 1) % t.COR
      <4>1. Absorb(left, t.COR) = left % t.COR /\ t.COR \in Nat \ {0}
        BY <1>1, <3>4 DEF Absorb
      <4>2. r \in Nat /\ r < t.COR /\ left % t.COR = IF r + 1 = t.COR THEN 0 ELSE r + 1
        <5> DEFINE j == left - 1
        <5>1. j \in Nat /\ j + 1 = left
          BY <2>1
        <5> HIDE DEF j
        <5>2. /\ j % t.COR \in Nat /\ (j % t.COR) < t.COR
              /\ (j + 1) % t.COR = IF (j % t.COR) + 1 = t.COR THEN 0 ELSE (j % t.COR) + 1
          BY <4>1, <5>1, NextMod
        <5> QED BY <5>1, <5>2 DEF j
      <4>3. left % t.COR # 0
        BY <1>5, <1>8, <3>4
      <4> HIDE DEF r
      <4>4. left % t.COR = r + 1 /\ r + 1 \in Nat /\ r + 1 > 0 /\ r + 1 <= t.COR /\ r = (r + 1) - 1
        BY <4>1, <4>2, <4>3
      <4> QED BY <3>2, <3>4, <4>1, <4>4 DEF r
    <3> QED BY <1>1, <2>1, <3>1, <3>3, <3>4
  <2>4. (t.UNF \/ steps > t.CNT) = TRUE
    BY <1>8
  <2> HIDE DEF cnt
  <2>5. [u EXCEPT !.UNF = TRUE, !.CNT = c] = [t EXCEPT !.acc = acc, !.CNT = c, !.UNF = TRUE]
    BY DEF TmuState
  <2> HIDE DEF u
  <2> QED BY <1>3, <1>4, <1>8, <2>3, <2>4, <2>5
<1> QED BY <1>6, <1>7, <1>8

\* UpdateTMU_chan is the timer that counts cycle by cycle, for a slice of any length,
\* any reload value and prescaler, unless the slice ends on a whole number of periods.
THEOREM BulkCountsCycleByCycle ==
  ASSUME NEW t \in TmuState, t.acc < t.prescale, NEW cycles \in Nat,
         ~(t.run /\ EndsOnPeriod(t, cycles))
  PROVE  UpdateTMU_chan(t, cycles) = CycleByCycle(t, cycles)
BY BulkIs, CycleByCycleIs

\* The timer of the running machine.
THEOREM SliceNeverShows == SafeSpec => BulkIsCycleByCycle
<1>1. ASSUME TsInv, UpdateSystem
      PROVE  tmu' = CycleByCycle(tmu, Slice) \/ (tmu.run /\ EndsOnPeriod(tmu, Slice))
  <2>1. tmu \in TmuState /\ tmu.acc < tmu.prescale /\ tmu' = UpdateTMU_chan(tmu, Slice)
    BY <1>1 DEF TsInv, TypeOK, CountBelow, UpdateSystem
  <2> QED BY <2>1, SliceType, BulkCountsCycleByCycle
<1>2. TsInv /\ [Next]_vars
        => [UpdateSystem => \/ tmu' = CycleByCycle(tmu, Slice)
                            \/ tmu.run /\ EndsOnPeriod(tmu, Slice)]_vars
  BY <1>1
<1> QED BY <1>2, TsInvariant, PTL DEF SafeSpec, BulkIsCycleByCycle
=============================================================================
