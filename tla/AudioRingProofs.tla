--------------------------- MODULE AudioRingProofs --------------------------
(***************************************************************************)
(* The audio ring is type correct, never lets the thread write into a slot *)
(* the callback may still read, and implements the FIFO of AudioFifo, for  *)
(* every ring size, block size, depth and counter width that is a multiple *)
(* of the ring size.                                                       *)
(***************************************************************************)
EXTENDS AudioRing, SequenceTheorems, TLAPS

-----------------------------------------------------------------------------
(* Remainders                                                              *)

\* Quotient and remainder.
LEMMA DivMod ==
  ASSUME NEW a \in Int, NEW n \in Nat \ {0}
  PROVE  /\ a = n * (a \div n) + (a % n)
         /\ a % n \in 0 .. n - 1
         /\ a \div n \in Int
  BY SMT

\* A positive multiple of n is at least n.
LEMMA MultipleIsLarge ==
  ASSUME NEW n \in Nat \ {0}, NEW q \in Int, NEW d \in Int, d = n * q, 0 < d
  PROVE  d >= n
<1>1. CASE q <= 0
  BY <1>1, SMT
<1>2. CASE q >= 1
  BY <1>2, SMT
<1> QED
  BY <1>1, <1>2, SMT

\* The remainder is the only r with a = n * q + r in range.
LEMMA Remainder ==
  ASSUME NEW n \in Nat \ {0}, NEW q \in Int, NEW r \in 0 .. n - 1
  PROVE  (n * q + r) % n = r
  BY SMT

\* Numbers less than n apart have different remainders.
LEMMA Distinct ==
  ASSUME NEW n \in Nat \ {0}, NEW a \in Int, NEW b \in Int, 0 < b - a, b - a < n
  PROVE  a % n # b % n
<1>1. a = n * (a \div n) + (a % n) /\ a \div n \in Int
  BY DivMod
<1>2. b = n * (b \div n) + (b % n) /\ b \div n \in Int
  BY DivMod
<1>3. SUFFICES ASSUME a % n = b % n PROVE FALSE
  OBVIOUS
<1>4. b - a = n * ((b \div n) - (a \div n))
  BY <1>1, <1>2, <1>3, SMT
<1> DEFINE q == (b \div n) - (a \div n)
<1>5. q \in Int
  BY <1>1, <1>2
<1>6. b - a = n * q /\ b - a \in Int
  BY <1>4
<1> HIDE DEF q
<1>7. b - a >= n
  BY <1>5, <1>6, MultipleIsLarge
<1> QED
  BY <1>7, SMT

LEMMA Compose ==
  ASSUME NEW n \in Int, NEW B \in Int, NEW A \in Int, NEW C \in Int, NEW r \in Int
  PROVE  (n * B) * A + (n * C + r) = n * (B * A + C) + r
  BY SMT

\* Wrapping at a multiple of n does not change the remainder by n.
LEMMA Wrap ==
  ASSUME NEW n \in Nat \ {0}, NEW m \in Nat \ {0}, m % n = 0, NEW a \in Int
  PROVE  (a % m) % n = a % n
<1>1. m = n * (m \div n) + (m % n) /\ m \div n \in Int
  BY DivMod
<1>2. a = m * (a \div m) + (a % m) /\ a \div m \in Int /\ a % m \in Int
  BY DivMod
<1>3. /\ a % m = n * ((a % m) \div n) + ((a % m) % n)
      /\ (a % m) \div n \in Int /\ (a % m) % n \in 0 .. n - 1
  BY <1>2, DivMod
<1>4. m = n * (m \div n)
  BY <1>1, SMT
<1> DEFINE B == m \div n
           A == a \div m
           C == (a % m) \div n
           r == (a % m) % n
<1>5. B \in Int /\ A \in Int /\ C \in Int /\ r \in 0 .. n - 1 /\ n \in Int
  BY <1>1, <1>2, <1>3
<1>6. a = (n * B) * A + (n * C + r)
  BY <1>4, <1>2, <1>3
<1> HIDE DEF A, B, C, r
<1>7. a = n * (B * A + C) + r
  BY <1>5, <1>6, Compose
<1>8. B * A + C \in Int
  BY <1>5
<1> DEFINE q == B * A + C
<1>9. q \in Int /\ a = n * q + r
  BY <1>7, <1>8
<1> HIDE DEF q
<1>10. a % n = r
  BY <1>5, <1>9, Remainder
<1> QED
  BY <1>10 DEF r

\* Unsigned subtraction of two counters.
LEMMA Subtract ==
  ASSUME NEW m \in Nat \ {0}, NEW w \in 0 .. m - 1, NEW r \in 0 .. m - 1
  PROVE  (w - r) % m = IF w >= r THEN w - r ELSE w - r + m
<1>1. CASE w >= r
  <2>1. (m * 0 + (w - r)) % m = w - r
    BY <1>1, Remainder
  <2> QED
    BY <2>1, <1>1, SMT
<1>2. CASE w < r
  <2>1. (m * (-1) + (w - r + m)) % m = w - r + m
    BY <1>2, Remainder
  <2>2. m * (-1) + (w - r + m) = w - r
    BY SMT
  <2> QED
    BY <2>1, <2>2, <1>2, SMT
<1> QED
  BY <1>1, <1>2

\* Unsigned increment of a counter.
LEMMA Increment ==
  ASSUME NEW m \in Nat \ {0}, NEW w \in 0 .. m - 1
  PROVE  (w + 1) % m = IF w + 1 < m THEN w + 1 ELSE 0
<1>1. CASE w + 1 < m
  <2>1. (m * 0 + (w + 1)) % m = w + 1
    BY <1>1, Remainder
  <2> QED
    BY <2>1, <1>1, SMT
<1>2. CASE w + 1 = m
  <2>1. (m * 1 + 0) % m = 0
    BY Remainder
  <2> QED
    BY <2>1, <1>2, SMT
<1> QED
  BY <1>1, <1>2

\* Adding a whole turn of the counters leaves the slot.
LEMMA WholeTurn ==
  ASSUME NEW n \in Nat \ {0}, NEW m \in Nat \ {0}, m % n = 0, NEW x \in Nat, x < m
  PROVE  (x + m) % n = x % n
<1>1. (m * 1 + x) % m = x
  BY Remainder
<1>2. (x + m) % m = x
  BY <1>1, SMT
<1>3. x + m \in Int
  OBVIOUS
<1>4. ((x + m) % m) % n = (x + m) % n
  BY <1>3, Wrap
<1> QED
  BY <1>2, <1>4

-----------------------------------------------------------------------------
(* Occupancy and slots                                                     *)

LEMMA Sizes ==
  /\ RingMax \in Nat \ {0} /\ CounterMod \in Nat \ {0} /\ CounterMod > RingMax
  /\ CounterMod % RingMax = 0
  /\ FreeRun \in 1 .. RingMax
  /\ BlockSamples \in Nat \ {0} /\ MaxSpins \in Nat
BY GeometryAssumption, WrapAssumption

Counter == 0 .. CounterMod - 1

\* The occupancy seen between two counters.
LEMMA UsedRange ==
  ASSUME NEW w \in Counter, NEW r \in Counter
  PROVE  /\ (w - r) % CounterMod \in Counter
         /\ (w - r) % CounterMod = IF w >= r THEN w - r ELSE w - r + CounterMod
<1>1. (w - r) % CounterMod = IF w >= r THEN w - r ELSE w - r + CounterMod
  BY Sizes, Subtract DEF Counter
<1> QED
  BY <1>1, Sizes DEF Counter

\* The slot to be filled is as many slots past the oldest as are in use.
LEMMA WriteSlot ==
  ASSUME NEW w \in Counter, NEW r \in Counter
  PROVE  (r + ((w - r) % CounterMod)) % RingMax = w % RingMax
<1>1. CASE w >= r
  <2>1. r + ((w - r) % CounterMod) = w
    BY <1>1, UsedRange DEF Counter
  <2> QED
    BY <2>1
<1>2. CASE w < r
  <2>1. r + ((w - r) % CounterMod) = w + CounterMod
    BY <1>2, UsedRange, Sizes DEF Counter
  <2>2. w \in Nat /\ w < CounterMod
    BY Sizes DEF Counter
  <2>3. (w + CounterMod) % RingMax = w % RingMax
    BY <2>2, Sizes, WholeTurn
  <2> QED
    BY <2>1, <2>3
<1> QED
  BY <1>1, <1>2 DEF Counter

\* It is none of the slots in use while one is free.
LEMMA FreeSlot ==
  ASSUME NEW w \in Counter, NEW r \in Counter, (w - r) % CounterMod < RingMax,
         NEW i \in 0 .. ((w - r) % CounterMod) - 1
  PROVE  (r + i) % RingMax # w % RingMax
<1> DEFINE u == (w - r) % CounterMod
<1>1. u \in Nat /\ r \in Nat
  BY UsedRange DEF Counter
<1>2. i \in Int /\ 0 < (r + u) - (r + i) /\ (r + u) - (r + i) < RingMax
  BY <1>1, Sizes
<1>3. r + i \in Int /\ r + u \in Int
  BY <1>1, <1>2
<1>4. (r + u) % RingMax = w % RingMax
  BY WriteSlot
<1> HIDE DEF u
<1>5. (r + i) % RingMax # (r + u) % RingMax
  BY <1>2, <1>3, Sizes, Distinct
<1> QED
  BY <1>4, <1>5

\* Publishing and retiring a block.
LEMMA UsedPublish ==
  ASSUME NEW w \in Counter, NEW r \in Counter, (w - r) % CounterMod < RingMax
  PROVE  /\ (w + 1) % CounterMod \in Counter
         /\ (((w + 1) % CounterMod) - r) % CounterMod = ((w - r) % CounterMod) + 1
<1>1. (w + 1) % CounterMod = IF w + 1 < CounterMod THEN w + 1 ELSE 0
  BY Sizes, Increment DEF Counter
<1>2. (w + 1) % CounterMod \in Counter
  BY <1>1, Sizes DEF Counter
<1>3. (((w + 1) % CounterMod) - r) % CounterMod
        = IF (w + 1) % CounterMod >= r THEN ((w + 1) % CounterMod) - r
          ELSE ((w + 1) % CounterMod) - r + CounterMod
  BY <1>2, UsedRange
<1>4. (w - r) % CounterMod = IF w >= r THEN w - r ELSE w - r + CounterMod
  BY UsedRange
<1> DEFINE x == (w + 1) % CounterMod
           y == (x - r) % CounterMod
           z == (w - r) % CounterMod
<1>5. /\ x = IF w + 1 < CounterMod THEN w + 1 ELSE 0
      /\ y = IF x >= r THEN x - r ELSE x - r + CounterMod
      /\ z = IF w >= r THEN w - r ELSE w - r + CounterMod
      /\ z < RingMax
  BY <1>1, <1>3, <1>4
<1> HIDE DEF x, y, z
<1>6. y = z + 1
  BY <1>5, Sizes DEF Counter
<1> QED
  BY <1>2, <1>6 DEF x, y, z

LEMMA UsedRetire ==
  ASSUME NEW w \in Counter, NEW r \in Counter, (w - r) % CounterMod # 0
  PROVE  /\ (r + 1) % CounterMod \in Counter
         /\ (w - ((r + 1) % CounterMod)) % CounterMod = ((w - r) % CounterMod) - 1
<1>1. (r + 1) % CounterMod = IF r + 1 < CounterMod THEN r + 1 ELSE 0
  BY Sizes, Increment DEF Counter
<1>2. (r + 1) % CounterMod \in Counter
  BY <1>1, Sizes DEF Counter
<1>3. (w - ((r + 1) % CounterMod)) % CounterMod
        = IF w >= (r + 1) % CounterMod THEN w - ((r + 1) % CounterMod)
          ELSE w - ((r + 1) % CounterMod) + CounterMod
  BY <1>2, UsedRange
<1>4. (w - r) % CounterMod = IF w >= r THEN w - r ELSE w - r + CounterMod
  BY UsedRange
<1> DEFINE x == (r + 1) % CounterMod
           y == (w - x) % CounterMod
           z == (w - r) % CounterMod
<1>5. /\ x = IF r + 1 < CounterMod THEN r + 1 ELSE 0
      /\ y = IF w >= x THEN w - x ELSE w - x + CounterMod
      /\ z = IF w >= r THEN w - r ELSE w - r + CounterMod
      /\ z # 0
  BY <1>1, <1>3, <1>4
<1> HIDE DEF x, y, z
<1>6. y = z - 1
  BY <1>5, Sizes DEF Counter
<1> QED
  BY <1>2, <1>6 DEF x, y, z

\* After a retire, the i-th slot in use is the one that was the i+1-st.
LEMMA NextSlot ==
  ASSUME NEW r \in Counter, NEW i \in Nat, i < CounterMod
  PROVE  (((r + 1) % CounterMod) + i) % RingMax = (r + 1 + i) % RingMax
<1>1. (r + 1) % CounterMod = IF r + 1 < CounterMod THEN r + 1 ELSE 0
  BY Sizes, Increment DEF Counter
<1>2. CASE r + 1 < CounterMod
  BY <1>1, <1>2
<1>3. CASE r + 1 = CounterMod
  <2>1. (i + CounterMod) % RingMax = i % RingMax
    BY Sizes, WholeTurn
  <2>2. ((r + 1) % CounterMod) + i = i
    <3>1. (r + 1) % CounterMod = 0
      BY <1>1, <1>3, Sizes DEF Counter
    <3> DEFINE x == (r + 1) % CounterMod
    <3> HIDE DEF x
    <3>2. x = 0 => x + i = i
      OBVIOUS
    <3> QED
      BY <3>1, <3>2 DEF x
  <2>3. r + 1 + i = i + CounterMod
    BY <1>3 DEF Counter
  <2> QED
    BY <2>1, <2>2, <2>3
<1> QED
  BY <1>2, <1>3, Sizes DEF Counter

-----------------------------------------------------------------------------
(* The invariant                                                           *)

\* The sink is not opened again once its closing has begun.
ClosedForGood == exitpc # "open" => ~aica_ready

\* While the sink is open, the slot being filled is free.
Room ==
  aica_ready => /\ Used <= RingMax
                /\ slot_ok /\ pc \in {"idle", "publish"} =>
                     Used < RingMax /\ cur_slot = ring_wr % RingMax

\* What has been filled of it is the block being made.
Filling ==
  aica_ready /\ slot_ok =>
    /\ pc = "idle" => \A j \in 0 .. fill_pos - 1 : ring[cur_slot][j] = made
    /\ pc = "publish" => \A j \in 0 .. BlockSamples - 1 : ring[cur_slot][j] = made

IInv ==
  /\ TypeOK /\ ClosedForGood /\ Room /\ Filling
  /\ pc # "idle" => fill_pos = 0

\* A block of some samples is a number.
LEMMA BlockOfType ==
  ASSUME NEW b \in [0 .. BlockSamples - 1 -> Nat]
  PROVE  BlockOf(b) \in Nat \cup {Torn}
BY Sizes DEF BlockOf

\* The slots are numbered 0 .. RingMax - 1.
LEMMA SlotType ==
  ASSUME NEW a \in Nat
  PROVE  a % RingMax \in 0 .. RingMax - 1
BY DivMod, Sizes

LEMMA InitInv == Init => IInv
<1> SUFFICES ASSUME Init PROVE IInv
  OBVIOUS
<1> DEFINE blank == [i \in 0 .. BlockSamples - 1 |-> 0]
<1>1. blank \in [0 .. BlockSamples - 1 -> Nat]
  OBVIOUS
<1>2. ring = [s \in 0 .. RingMax - 1 |-> blank]
  BY DEF Init
<1> HIDE DEF blank
<1>3. ring \in [0 .. RingMax - 1 -> [0 .. BlockSamples - 1 -> Nat]]
  BY <1>1, <1>2
<1>4. /\ ring_wr \in 0 .. CounterMod - 1 /\ ring_rd \in 0 .. CounterMod - 1
      /\ ring_slots \in 1 .. RingMax
      /\ cur_slot \in 0 .. RingMax - 1 /\ fill_pos \in 0 .. BlockSamples - 1
      /\ spins \in 0 .. MaxSpins /\ exit_rd \in 0 .. CounterMod - 1
      /\ made \in Nat /\ heard \in Nat \cup {Torn}
  BY Sizes DEF Init
<1>5. TypeOK
  BY <1>3, <1>4, Zenon DEF Init, TypeOK
<1> QED
  BY <1>5 DEF Init, IInv, ClosedForGood, Room, Filling

-----------------------------------------------------------------------------
(* One lemma per step                                                      *)

LEMMA TypeStep ==
  ASSUME TypeOK, [Next]_vars
  PROVE  TypeOK'
<1> USE Sizes DEF TypeOK
<1>0. ring_wr \in Counter /\ ring_rd \in Counter /\ ring_rd \in Nat /\ ring_wr \in Nat
  BY DEF Counter
<1>1. CASE PushSample
  <2>1. ring' \in [0 .. RingMax - 1 -> [0 .. BlockSamples - 1 -> Nat]]
    <3>1. CASE slot_ok
      <4> DEFINE filled == [ring[cur_slot] EXCEPT ![fill_pos] = made]
      <4>1. filled \in [0 .. BlockSamples - 1 -> Nat]
        OBVIOUS
      <4>2. ring' = [ring EXCEPT ![cur_slot] = filled]
        BY <1>1, <3>1 DEF PushSample
      <4> HIDE DEF filled
      <4> QED
        BY <4>1, <4>2
    <3> QED
      BY <3>1, <1>1 DEF PushSample
  <2> QED
    BY <2>1, <1>1 DEF PushSample, exit, depth
<1>2. CASE Publish
  <2>1. (ring_wr + 1) % CounterMod \in 0 .. CounterMod - 1
    BY DivMod
  <2> QED
    BY <2>1, <1>2 DEF Publish, exit, depth, slot
<1>3. CASE ReadDepth
  BY <1>3, InputAssumption DEF ReadDepth, exit, slot
<1>4. CASE TestFull
  <2>a. pc' \in {"wait", "pick"} /\ spins' = 0 /\ timedout' \in BOOLEAN
    BY <1>4, Zenon DEF TestFull
  <2>1. pc' \in {"wait", "pick"} /\ spins' \in 0 .. MaxSpins /\ timedout' \in BOOLEAN
    BY <2>a
  <2>2. UNCHANGED <<ring, ring_wr, ring_rd, depth, slot, aica_ready, voice, exit,
                    made, heard>>
    BY <1>4 DEF TestFull
  <2> QED
    BY <2>1, <2>2 DEF exit, depth, slot
<1>5. CASE PaceWait
  <2>a. pc' \in {"wait", "pick"} /\ timedout' \in BOOLEAN
    BY <1>5, Zenon DEF PaceWait
  <2>b. spins' = spins \/ (spins < MaxSpins /\ spins' = spins + 1)
    BY <1>5, Zenon DEF PaceWait
  <2>c. spins' \in 0 .. MaxSpins
    BY <2>b
  <2>1. pc' \in {"wait", "pick"} /\ spins' \in 0 .. MaxSpins /\ timedout' \in BOOLEAN
    BY <2>a, <2>c
  <2>2. UNCHANGED <<ring, ring_wr, ring_rd, depth, slot, aica_ready, voice, exit,
                    made, heard>>
    BY <1>5 DEF PaceWait
  <2> QED
    BY <2>1, <2>2 DEF exit, depth, slot
<1>6. CASE PickSlot
  <2>1. ring_wr % RingMax \in 0 .. RingMax - 1
    BY <1>0, SlotType
  <2> QED
    BY <2>1, <1>6 DEF PickSlot, exit, depth
<1>7. CASE AudioCallback
  <2>1. ring_rd % RingMax \in 0 .. RingMax - 1
    BY <1>0, SlotType
  <2>2. BlockOf(ring[ring_rd % RingMax]) \in Nat \cup {Torn}
    BY <2>1, BlockOfType
  <2>3. (ring_rd + 1) % CounterMod \in 0 .. CounterMod - 1
    BY DivMod
  <2> QED
    BY <2>2, <2>3, <1>7 DEF AudioCallback, exit, depth, slot
<1>8. CASE AicaReady
  BY <1>8 DEF AicaReady, exit, depth
<1>9. CASE Shutdown
  BY <1>9 DEF Shutdown, depth, slot
<1>10. CASE UNCHANGED vars
  BY <1>10 DEF vars, exit, depth, slot
<1> QED
  BY <1>1, <1>2, <1>3, <1>4, <1>5, <1>6, <1>7, <1>8, <1>9, <1>10
     DEF Next, Thread

\* The occupancy is a function of the counters.
LEMMA SameCounters ==
  ASSUME UNCHANGED <<ring_wr, ring_rd>>
  PROVE  Used' = Used
BY DEF Used

LEMMA InvStep ==
  ASSUME IInv, [Next]_vars
  PROVE  IInv'
<1>0. TypeOK' /\ TypeOK
  BY TypeStep DEF IInv
<1>a. /\ ring_wr \in Counter /\ ring_rd \in Counter /\ Used \in Counter
      /\ ring_slots \in 1 .. RingMax /\ fill_pos \in 0 .. BlockSamples - 1
      /\ cur_slot \in 0 .. RingMax - 1 /\ RingMax \in Nat /\ BlockSamples \in Nat \ {0}
  BY <1>0, UsedRange, Sizes DEF TypeOK, Counter, Used
<1>b. Counter \subseteq Int
  BY Sizes DEF Counter
<1>1. CASE PushSample
  <2>1. ClosedForGood' /\ Room'
    <3>1. Used' = Used
      BY <1>1, SameCounters DEF PushSample
    <3> QED
      BY <3>1, <1>1 DEF PushSample, IInv, ClosedForGood, Room, exit, depth
  <2>2. Filling'
    <3> SUFFICES ASSUME slot_ok, aica_ready
                 PROVE  Filling'
      BY <1>1 DEF PushSample, Filling
    <3>1. ring' = [ring EXCEPT ![cur_slot][fill_pos] = made]
      BY <1>1 DEF PushSample
    <3>2. ring'[cur_slot][fill_pos] = made
      BY <3>1, <1>0 DEF TypeOK
    <3>3. \A j \in 0 .. fill_pos - 1 : ring'[cur_slot][j] = ring[cur_slot][j]
      BY <3>1, <1>0 DEF TypeOK
    <3>4. \A j \in 0 .. fill_pos - 1 : ring[cur_slot][j] = made
      BY <1>1 DEF PushSample, IInv, Filling
    <3>5. \A j \in 0 .. fill_pos : ring'[cur_slot][j] = made
      BY <3>2, <3>3, <3>4, <1>a
    <3>6. cur_slot' = cur_slot /\ made' = made
      BY <1>1 DEF PushSample
    <3>7. CASE fill_pos + 1 < BlockSamples /\ fill_pos' = fill_pos + 1 /\ pc' = pc
      <4>1. pc' = "idle" /\ fill_pos' - 1 = fill_pos
        BY <3>7, <1>1, <1>a DEF PushSample
      <4> QED
        BY <4>1, <3>5, <3>6 DEF Filling
    <3>8. CASE fill_pos + 1 = BlockSamples /\ fill_pos' = 0 /\ pc' = "publish"
      <4>1. BlockSamples - 1 = fill_pos
        BY <3>8, <1>a
      <4> QED
        BY <4>1, <3>5, <3>6, <3>8 DEF Filling
    <3> QED
      BY <3>7, <3>8, <1>1 DEF PushSample
  <2>3. pc' # "idle" => fill_pos' = 0
    BY <1>1 DEF PushSample
  <2> QED
    BY <1>0, <2>1, <2>2, <2>3 DEF IInv
<1>2. CASE Publish
  <2>1. Used' <= RingMax \/ ~aica_ready
    <3>1. CASE slot_ok /\ aica_ready
      <4>1. Used < RingMax
        BY <3>1, <1>2 DEF Publish, IInv, Room
      <4>2. Used' = Used + 1
        BY <4>1, <3>1, <1>2, <1>a, UsedPublish DEF Publish, Used
      <4> QED
        BY <4>1, <4>2, <1>a, <1>b
    <3>2. CASE ~slot_ok /\ aica_ready
      <4>1. Used' = Used
        BY <3>2, <1>2, SameCounters DEF Publish
      <4> QED
        BY <4>1, <3>2 DEF IInv, Room
    <3> QED
      BY <3>1, <3>2
  <2> QED
    BY <2>1, <1>0, <1>2
       DEF Publish, IInv, ClosedForGood, Room, Filling, exit, slot
<1>3. CASE ReadDepth
  <2>1. Used' = Used
    BY <1>3, SameCounters DEF ReadDepth
  <2>2. /\ pc = "depth" /\ pc' = "full"
        /\ UNCHANGED <<slot, aica_ready, exit>>
    BY <1>3 DEF ReadDepth
  <2> QED
    BY <2>1, <2>2, <1>0 DEF IInv, ClosedForGood, Room, Filling, exit, slot
<1>4. CASE TestFull
  <2>1. Used' = Used
    BY <1>4, SameCounters DEF TestFull
  <2>2. /\ pc = "full" /\ pc' \notin {"idle", "publish"}
        /\ UNCHANGED <<slot, aica_ready, exit>>
    BY <1>4 DEF TestFull
  <2> QED
    BY <2>1, <2>2, <1>0 DEF IInv, ClosedForGood, Room, Filling, exit, slot
<1>5. CASE PaceWait
  <2>1. Used' = Used
    BY <1>5, SameCounters DEF PaceWait
  <2>2. /\ pc = "wait" /\ pc' \notin {"idle", "publish"}
        /\ UNCHANGED <<slot, aica_ready, exit>>
    BY <1>5 DEF PaceWait
  <2> QED
    BY <2>1, <2>2, <1>0 DEF IInv, ClosedForGood, Room, Filling, exit, slot
<1>6. CASE PickSlot
  <2>1. Used' = Used
    BY <1>6, SameCounters DEF PickSlot
  <2>2. /\ pc = "pick" /\ pc' = "idle" /\ fill_pos' = fill_pos
        /\ UNCHANGED <<aica_ready, exit, ring_wr>>
        /\ cur_slot' = ring_wr % RingMax
    BY <1>6 DEF PickSlot
  <2>3. slot_ok' => Used < RingMax
    <3>1. slot_ok' => Used < ring_slots
      BY <1>6, Zenon DEF PickSlot
    <3>2. Used < ring_slots => Used < RingMax
      BY <1>a, <1>b
    <3> QED
      BY <3>1, <3>2
  <2>4. fill_pos' = 0
    BY <2>2 DEF IInv
  <2>5. Filling'
    BY <2>2, <2>4 DEF Filling
  <2>6. Room'
    BY <2>1, <2>2, <2>3 DEF IInv, Room
  <2> QED
    BY <2>2, <2>4, <2>5, <2>6, <1>0 DEF IInv, ClosedForGood, exit
<1>7. CASE AudioCallback
  <2>1. Used' = Used - 1
    BY <1>7, <1>a, UsedRetire DEF AudioCallback, Used
  <2>2. UNCHANGED <<ring, slot, aica_ready, exit, ring_wr, pc, made>>
    BY <1>7 DEF AudioCallback
  <2>3. Room'
    BY <2>1, <2>2, <1>a, <1>b DEF IInv, Room, slot
  <2> QED
    BY <2>2, <2>3, <1>0 DEF IInv, ClosedForGood, Filling, exit, slot
<1>8. CASE AicaReady
  <2>1. Used' = 0
    <3>1. 0 \in Counter /\ (0 - 0) % CounterMod = 0
      BY UsedRange, Sizes DEF Counter
    <3> QED
      BY <3>1, <1>8 DEF AicaReady, Used
  <2>2. ring_wr' % RingMax = 0
    <3>1. (RingMax * 0 + 0) % RingMax = 0
      BY Remainder, Sizes
    <3> QED
      BY <3>1, <1>8, <1>a DEF AicaReady
  <2>3. Room'
    BY <2>1, <2>2, <1>8, Sizes DEF AicaReady, Room
  <2>4. Filling'
    BY <1>8 DEF AicaReady, Filling
  <2> QED
    BY <2>3, <2>4, <1>0, <1>8 DEF AicaReady, IInv, ClosedForGood, exit
<1>9. CASE Shutdown
  <2>1. ~aica_ready'
    BY <1>9 DEF Shutdown, IInv, ClosedForGood
  <2> QED
    BY <2>1, <1>0, <1>9 DEF Shutdown, IInv, ClosedForGood, Room, Filling, slot
<1>10. CASE UNCHANGED vars
  <2>1. Used' = Used
    BY <1>10, SameCounters DEF vars
  <2> QED
    BY <2>1, <1>0, <1>10
       DEF IInv, ClosedForGood, Room, Filling, vars, exit, depth, slot
<1> QED
  BY <1>1, <1>2, <1>3, <1>4, <1>5, <1>6, <1>7, <1>8, <1>9, <1>10
     DEF Next, Thread

-----------------------------------------------------------------------------
(* The theorems                                                            *)

LEMMA Invariant == SafeSpec => []IInv
<1>1. Init => IInv
  BY InitInv
<1>2. IInv /\ [Next]_vars => IInv'
  BY InvStep
<1> QED
  BY <1>1, <1>2, PTL DEF SafeSpec

\* Every variable keeps its type: in particular the depth stays between 1 and
\* the ring size whatever the options menu holds, and the slot index in range.
THEOREM TypeCorrect == SafeSpec => []TypeOK
<1>1. IInv => TypeOK
  BY DEF IInv
<1> QED
  BY <1>1, Invariant, PTL

\* The thread never writes into a slot the callback may still read, though
\* the depth changes live and the counters wrap (wii_audio.cpp:130-134).
THEOREM RingSafe == SafeSpec => []NoOverwrite
<1>1. IInv => NoOverwrite
  <2> SUFFICES ASSUME IInv, aica_ready, slot_ok, pc \in {"idle", "publish"}
               PROVE  /\ Used < RingMax
                      /\ cur_slot = ring_wr % RingMax
                      /\ \A i \in 0 .. Used - 1 : (ring_rd + i) % RingMax # cur_slot
    BY DEF NoOverwrite
  <2>1. Used < RingMax /\ cur_slot = ring_wr % RingMax
    BY DEF IInv, Room
  <2>2. ring_wr \in Counter /\ ring_rd \in Counter
    BY DEF IInv, TypeOK, Counter
  <2>3. \A i \in 0 .. Used - 1 : (ring_rd + i) % RingMax # ring_wr % RingMax
    BY <2>1, <2>2, FreeSlot DEF Used
  <2> QED
    BY <2>1, <2>3
<1> QED
  BY <1>1, Invariant, PTL

-----------------------------------------------------------------------------
(* Pacing                                                                  *)

\* Unless the wait gave up, there is room when the thread picks a slot, and
\* the slot it goes on with is one.
Paced ==
  aica_ready /\ ring_paced /\ ~timedout =>
    /\ pc = "pick" => Used < ring_slots
    /\ pc = "idle" => slot_ok

LEMMA PacedStep ==
  ASSUME IInv, Paced, [Next]_vars
  PROVE  Paced'
<1>1. Used \in Int /\ ring_slots \in Int
  BY UsedRange, Sizes DEF IInv, TypeOK, Counter, Used
<1>2. CASE PushSample \/ Publish \/ ReadDepth
  BY <1>2, Zenon DEF PushSample, Publish, ReadDepth, Paced, slot, depth
<1>3. CASE TestFull
  <2>1. Used' = Used
    BY <1>3, SameCounters DEF TestFull
  <2>2. UNCHANGED <<ring_slots, ring_paced>> /\ pc' \in {"wait", "pick"}
    BY <1>3 DEF TestFull, depth
  <2>3. ring_paced /\ pc' = "pick" => ~(Used >= ring_slots)
    BY <1>3 DEF TestFull
  <2>4. ring_paced /\ pc' = "pick" => Used < ring_slots
    BY <2>3, <1>1
  <2> QED
    BY <2>1, <2>2, <2>4 DEF Paced
<1>4. CASE PaceWait
  <2>1. Used' = Used
    BY <1>4, SameCounters DEF PaceWait
  <2>2. /\ UNCHANGED <<ring_slots, ring_paced, aica_ready>> /\ pc' \in {"wait", "pick"}
        /\ pc' = "pick" => ~aica_ready \/ Used < ring_slots \/ timedout'
    BY <1>4, Zenon DEF PaceWait, depth
  <2> QED
    BY <2>1, <2>2 DEF Paced
<1>5. CASE PickSlot
  <2>1. /\ UNCHANGED <<ring_slots, ring_paced, aica_ready, timedout>>
        /\ pc = "pick" /\ pc' = "idle" /\ slot_ok' = (Used < ring_slots)
    BY <1>5 DEF PickSlot, depth
  <2> QED
    BY <2>1, Zenon DEF Paced
<1>6. CASE AudioCallback
  <2>1. Used' = Used - 1
    BY <1>6, UsedRetire DEF AudioCallback, Used, IInv, TypeOK, Counter
  <2>2. UNCHANGED <<ring_slots, ring_paced, aica_ready, timedout, pc, slot_ok>>
    BY <1>6 DEF AudioCallback, depth, slot
  <2>3. Used < ring_slots => Used' < ring_slots'
    BY <2>1, <2>2, <1>1
  <2> QED
    BY <2>2, <2>3 DEF Paced
<1>7. CASE AicaReady
  BY <1>7 DEF AicaReady, Paced
<1>8. CASE Shutdown
  BY <1>8 DEF Shutdown, Paced, IInv, ClosedForGood
<1>9. CASE UNCHANGED vars
  <2>1. Used' = Used
    BY <1>9, SameCounters DEF vars
  <2> QED
    BY <1>9, <2>1 DEF vars, depth, slot, Paced
<1> QED
  BY <1>2, <1>3, <1>4, <1>5, <1>6, <1>7, <1>8, <1>9 DEF Next, Thread

\* AudioBuffers # 0 limits the speed and filters nothing: at any depth, with
\* the callback retiring blocks and the menu changing the depth in between, a
\* block is left out only when the wait of its push gave up.
THEOREM PacedKeepsEveryBlock == SafeSpec => []PacedDropsOnlyOnTimeout
<1>1. Init => Paced
  BY DEF Init, Paced
<1>2. IInv /\ Paced /\ [Next]_vars => Paced'
  BY PacedStep
<1>3. Paced => PacedDropsOnlyOnTimeout
  BY Zenon DEF Paced, PacedDropsOnlyOnTimeout
<1> QED
  BY <1>1, <1>2, <1>3, Invariant, PTL DEF SafeSpec

-----------------------------------------------------------------------------
(* The ring implements the FIFO                                            *)

Blocks == Nat \cup {Torn}

\* The queue is a sequence of blocks, as long as the ring is full.
QueueGood ==
  aica_ready => /\ Queue \in Seq(Blocks) /\ Len(Queue) = Used
                /\ \A i \in 1 .. Used : Queue[i] = Unread(i)

LEMMA QueueType == IInv => QueueGood
<1> SUFFICES ASSUME IInv PROVE QueueGood
  OBVIOUS
<1>1. Used \in Nat /\ ring_rd \in Nat
  BY UsedRange, Sizes DEF IInv, TypeOK, Used, Counter
<1>2. ASSUME NEW i \in 1 .. Used
      PROVE  Unread(i) \in Blocks
  <2>1. ring_rd + i - 1 \in Nat
    BY <1>1
  <2>2. (ring_rd + i - 1) % RingMax \in 0 .. RingMax - 1
    BY <2>1, SlotType
  <2>3. ring[(ring_rd + i - 1) % RingMax] \in [0 .. BlockSamples - 1 -> Nat]
    BY <2>2 DEF IInv, TypeOK
  <2> QED
    BY <2>3, BlockOfType DEF Unread, Blocks
<1>3. ASSUME aica_ready
      PROVE  /\ Queue \in Seq(Blocks) /\ Len(Queue) = Used
             /\ \A i \in 1 .. Used : Queue[i] = Unread(i)
  <2> DEFINE u == Used
  <2>1. Queue = [i \in 1 .. u |-> Unread(i)]
    BY <1>3 DEF Queue
  <2>2. u \in Nat /\ \A i \in 1 .. u : Unread(i) \in Blocks
    BY <1>1, <1>2
  <2> HIDE DEF u
  <2>3. /\ [i \in 1 .. u |-> Unread(i)] \in Seq(Blocks)
        /\ Len([i \in 1 .. u |-> Unread(i)]) = u
    BY <2>2
  <2> QED
    BY <2>1, <2>3, <2>2 DEF u
<1> QED
  BY <1>3 DEF QueueGood

LEMMA QueueTypePrime == IInv' => QueueGood'
BY QueueType, PTL

\* A step that leaves the counters and the queued blocks leaves the queue.
LEMMA SameQueue ==
  ASSUME UNCHANGED <<ring_wr, ring_rd, aica_ready>>,
         aica_ready => \A i \in 1 .. Used : Unread(i)' = Unread(i)
  PROVE  Queue' = Queue
<1>1. Used' = Used
  BY SameCounters
<1>2. CASE aica_ready
  <2> DEFINE u == Used
  <2>1. Queue' = [i \in 1 .. u |-> Unread(i)'] /\ Queue = [i \in 1 .. u |-> Unread(i)]
    BY <1>1, <1>2 DEF Queue
  <2>2. \A i \in 1 .. u : Unread(i)' = Unread(i)
    BY <1>2
  <2> HIDE DEF u
  <2> QED
    BY <2>1, <2>2
<1>3. CASE ~aica_ready
  BY <1>3 DEF Queue
<1> QED
  BY <1>2, <1>3

\* So does one that leaves the ring as well.
LEMMA SameRing ==
  ASSUME UNCHANGED <<ring, ring_wr, ring_rd, aica_ready>>
  PROVE  Queue' = Queue
<1>1. \A i \in 1 .. Used : Unread(i)' = Unread(i)
  BY DEF Unread
<1> QED
  BY <1>1, SameQueue

LEMMA PushRefines ==
  ASSUME IInv, PushSample
  PROVE  Queue' = Queue
<1>1. UNCHANGED <<ring_wr, ring_rd, aica_ready>> /\ aica_ready /\ pc = "idle"
  BY DEF PushSample
<1>2. CASE ~slot_ok
  <2>1. ring' = ring
    BY <1>2 DEF PushSample
  <2> QED
    BY <2>1, <1>1, SameRing
<1>3. CASE slot_ok
  <2>1. Used < RingMax /\ cur_slot = ring_wr % RingMax
    BY <1>1, <1>3 DEF IInv, Room
  <2>2. ring_wr \in Counter /\ ring_rd \in Counter /\ Used \in Nat
    BY UsedRange, Sizes DEF IInv, TypeOK, Counter, Used
  <2>3. ASSUME NEW i \in 1 .. Used
        PROVE  Unread(i)' = Unread(i)
    <3> DEFINE s == (ring_rd + i - 1) % RingMax
    <3>1. i - 1 \in 0 .. Used - 1 /\ ring_rd + (i - 1) = ring_rd + i - 1
      BY <2>2, Sizes DEF Counter
    <3>2. s # cur_slot
      BY <3>1, <2>1, <2>2, FreeSlot DEF Used
    <3>3. s \in 0 .. RingMax - 1
      <4>1. ring_rd + i - 1 \in Nat
        BY <2>2, Sizes DEF Counter
      <4> QED
        BY <4>1, SlotType
    <3>4. s' = s
      BY <1>1
    <3> HIDE DEF s
    <3>5. ring'[s] = ring[s]
      BY <3>2, <3>3, <1>3 DEF PushSample, IInv, TypeOK
    <3> QED
      BY <3>4, <3>5 DEF Unread, s
  <2> QED
    BY <2>3, <1>1, SameQueue
<1> QED
  BY <1>2, <1>3

LEMMA PublishRefines ==
  ASSUME IInv, IInv', Publish
  PROVE  Fifo!Publish \/ Fifo!Drop
<1>1. /\ UNCHANGED <<ring, ring_rd, aica_ready, heard>> /\ pc = "publish"
      /\ made' = made + 1
  BY DEF Publish
<1>2. CASE ~slot_ok \/ ~aica_ready
  <2>1. Queue' = Queue
    <3>1. CASE ~slot_ok
      BY <3>1, <1>1, SameRing DEF Publish
    <3>2. CASE ~aica_ready
      BY <3>2, <1>1 DEF Queue
    <3> QED
      BY <1>2, <3>1, <3>2
  <2> QED
    BY <2>1, <1>1 DEF Fifo!Drop
<1>3. CASE slot_ok /\ aica_ready
  <2>1. Used < RingMax /\ cur_slot = ring_wr % RingMax
    BY <1>1, <1>3 DEF IInv, Room
  <2>2. /\ ring_wr \in Counter /\ ring_rd \in Counter /\ Used \in Nat /\ ring_rd \in Nat
        /\ made \in Blocks /\ RingMax \in Nat
    BY UsedRange, Sizes DEF IInv, TypeOK, Counter, Used, Blocks
  <2>3. Used' = Used + 1
    BY <2>1, <2>2, <1>3, UsedPublish DEF Publish, Used
  <2>4. /\ Queue \in Seq(Blocks) /\ Len(Queue) = Used
        /\ \A i \in 1 .. Used : Queue[i] = Unread(i)
    BY <1>3, QueueType DEF QueueGood
  <2>5. /\ Queue' \in Seq(Blocks) /\ Len(Queue') = Used'
        /\ \A i \in 1 .. Used' : Queue'[i] = Unread(i)'
    <3>1. aica_ready'
      BY <1>1, <1>3
    <3> QED
      BY <3>1, QueueTypePrime DEF QueueGood
  <2>6. \A i \in 1 .. Used : Unread(i)' = Unread(i)
    BY <1>1 DEF Unread
  <2>7. ASSUME NEW i \in Nat, i = Used + 1
        PROVE  Unread(i)' = made
    <3>1. (ring_rd + Used) % RingMax = cur_slot
      BY <2>1, <2>2, WriteSlot DEF Used
    <3>2. ring_rd + i - 1 = ring_rd + Used
      BY <2>2, <2>7
    <3>3. ring[cur_slot] \in [0 .. BlockSamples - 1 -> Nat]
      BY DEF IInv, TypeOK
    <3>4. \A j \in 0 .. BlockSamples - 1 : ring[cur_slot][j] = made
      BY <1>1, <1>3 DEF IInv, Filling
    <3>5. BlockOf(ring[cur_slot]) = made
      BY <3>3, <3>4, Sizes DEF BlockOf
    <3>6. BlockOf(ring[(ring_rd + i - 1) % RingMax]) = made
      BY <3>1, <3>2, <3>5
    <3> QED
      BY <3>6, <1>1 DEF Unread
  <2> DEFINE u == Used
             next == Append(Queue, made)
  <2>8. /\ next \in Seq(Blocks) /\ Len(next) = u + 1 /\ next[u + 1] = made
        /\ \A i \in 1 .. u : next[i] = Queue[i]
    BY <2>2, <2>4, AppendProperties
  <2>9. \A i \in 1 .. u + 1 : Queue'[i] = next[i]
    <3> SUFFICES ASSUME NEW i \in 1 .. u + 1 PROVE Queue'[i] = next[i]
      OBVIOUS
    <3>1. CASE i = u + 1
      <4>1. Unread(i)' = made
        BY <2>2, <2>7, <3>1
      <4>2. Queue'[i] = Unread(i)'
        BY <2>3, <2>5
      <4> QED
        BY <4>1, <4>2, <2>8, <3>1
    <3>2. CASE i \in 1 .. u
      <4>1. Queue'[i] = Unread(i)'
        BY <2>3, <2>5
      <4> QED
        BY <4>1, <3>2, <2>4, <2>6, <2>8
    <3>3. i = u + 1 \/ i \in 1 .. u
      BY <2>2
    <3> QED
      BY <3>1, <3>2, <3>3
  <2>10. Queue' = next
    <3>1. Len(Queue') = Len(next) /\ Len(next) = u + 1
      BY <2>3, <2>5, <2>8
    <3> HIDE DEF next, u
    <3> QED
      BY <3>1, <2>5, <2>8, <2>9, SeqEqual
  <2> QED
    BY <2>1, <2>4, <2>10, <1>1 DEF Fifo!Publish
<1> QED
  BY <1>2, <1>3

LEMMA CallbackRefines ==
  ASSUME IInv, IInv', AudioCallback
  PROVE  Fifo!Play \/ UNCHANGED Fifo!fifo
<1>1. /\ UNCHANGED <<ring, ring_wr, aica_ready, made>> /\ Used # 0
      /\ ring_rd' = (ring_rd + 1) % CounterMod
  BY DEF AudioCallback
<1>2. CASE ~aica_ready
  BY <1>1, <1>2 DEF AudioCallback, Queue, Fifo!fifo
<1>3. CASE aica_ready
  <2>1. /\ ring_wr \in Counter /\ ring_rd \in Counter /\ Used \in Nat /\ ring_rd \in Nat
        /\ Used <= RingMax /\ RingMax \in Nat
    BY <1>3, UsedRange, Sizes DEF IInv, TypeOK, Counter, Used, Room
  <2>2. Used' = Used - 1
    BY <2>1, <1>1, UsedRetire DEF Used
  <2>3. /\ Queue \in Seq(Blocks) /\ Len(Queue) = Used
        /\ \A i \in 1 .. Used : Queue[i] = Unread(i)
    BY <1>3, QueueType DEF QueueGood
  <2>4. /\ Queue' \in Seq(Blocks) /\ Len(Queue') = Used'
        /\ \A i \in 1 .. Used' : Queue'[i] = Unread(i)'
    <3>1. aica_ready'
      BY <1>1, <1>3
    <3> QED
      BY <3>1, QueueTypePrime DEF QueueGood
  <2>5. ASSUME NEW i \in 1 .. Used - 1
        PROVE  Unread(i)' = Unread(i + 1)
    <3>1. i - 1 \in Nat /\ i - 1 < CounterMod
      BY <2>1, Sizes
    <3>2. ring_rd' + (i - 1) = ring_rd' + i - 1 /\ ring_rd + 1 + (i - 1) = ring_rd + (i + 1) - 1
      <4>1. ring_rd' \in Nat
        BY Sizes DEF IInv, TypeOK
      <4> QED
        BY <4>1, <2>1
    <3>3. (ring_rd' + (i - 1)) % RingMax = (ring_rd + 1 + (i - 1)) % RingMax
      BY <3>1, <2>1, <1>1, NextSlot
    <3> QED
      BY <3>2, <3>3, <1>1 DEF Unread
  <2>6. Queue # <<>>
    BY <2>1, <2>3, <1>1, EmptySeq
  <2> DEFINE u == Used
             rest == Tail(Queue)
  <2>7. /\ rest \in Seq(Blocks) /\ Len(rest) = u - 1
        /\ \A i \in 1 .. u - 1 : rest[i] = Queue[i + 1]
    BY <2>3, <2>6, HeadTailProperties
  <2>8. \A i \in 1 .. u - 1 : Queue'[i] = rest[i]
    <3> SUFFICES ASSUME NEW i \in 1 .. u - 1 PROVE Queue'[i] = rest[i]
      OBVIOUS
    <3>1. Queue'[i] = Unread(i)'
      BY <2>2, <2>4
    <3>2. i + 1 \in 1 .. u
      BY <2>1
    <3> QED
      BY <3>1, <3>2, <2>3, <2>5, <2>7
  <2>9. Queue' = rest
    <3>1. Len(Queue') = Len(rest) /\ Len(rest) = u - 1
      BY <2>2, <2>4, <2>7
    <3> HIDE DEF rest, u
    <3> QED
      BY <3>1, <2>4, <2>7, <2>8, SeqEqual
  <2>10. heard' = Head(Queue)
    <3>1. Head(Queue) = Queue[1]
      BY <2>3, <2>6
    <3>2. Queue[1] = Unread(1)
      BY <2>3, <2>1, <1>1
    <3>3. ring_rd + 1 - 1 = ring_rd
      BY <2>1
    <3> QED
      BY <3>1, <3>2, <3>3, <1>3 DEF AudioCallback, Unread
  <2> QED
    BY <2>6, <2>9, <2>10, <1>1 DEF Fifo!Play
<1> QED
  BY <1>2, <1>3

LEMMA StepRefines == IInv /\ IInv' /\ [Next]_vars => [Fifo!Next]_(Fifo!fifo)
<1> SUFFICES ASSUME IInv, IInv', [Next]_vars
             PROVE  Fifo!Next \/ UNCHANGED Fifo!fifo
  OBVIOUS
<1>1. CASE PushSample
  <2>1. Queue' = Queue
    BY <1>1, PushRefines
  <2> QED
    BY <2>1, <1>1 DEF PushSample, Fifo!fifo
<1>2. CASE Publish
  BY <1>2, PublishRefines DEF Fifo!Next
<1>3. CASE ReadDepth \/ TestFull \/ PaceWait \/ PickSlot \/ UNCHANGED vars
  <2>1. UNCHANGED <<ring, ring_wr, ring_rd, aica_ready, made, heard>>
    BY <1>3 DEF ReadDepth, TestFull, PaceWait, PickSlot, vars
  <2>2. Queue' = Queue
    BY <2>1, SameRing
  <2> QED
    BY <2>1, <2>2 DEF Fifo!fifo
<1>4. CASE AudioCallback
  BY <1>4, CallbackRefines DEF Fifo!Next
<1>5. CASE AicaReady
  <2>1. Used' = 0
    <3>1. 0 \in Counter /\ (0 - 0) % CounterMod = 0
      BY UsedRange, Sizes DEF Counter
    <3> QED
      BY <3>1, <1>5 DEF AicaReady, Used
  <2>2. Queue' = <<>>
    <3>1. QueueGood' /\ aica_ready'
      BY <1>5, QueueTypePrime DEF AicaReady
    <3>2. Queue' \in Seq(Blocks) /\ Len(Queue') = 0
      BY <3>1, <2>1 DEF QueueGood
    <3> QED
      BY <3>2, EmptySeq
  <2>3. made' \in {made, made + 1} /\ heard' = heard
    BY <1>5 DEF AicaReady
  <2> QED
    BY <2>2, <2>3 DEF Fifo!Next, Fifo!Flush
<1>6. CASE Shutdown
  <2>1. UNCHANGED <<made, heard>> /\ ~aica_ready'
    BY <1>6 DEF Shutdown, IInv, ClosedForGood
  <2>2. Queue' = <<>>
    BY <2>1 DEF Queue
  <2> QED
    BY <2>1, <2>2 DEF Fifo!Next, Fifo!Flush
<1> QED
  BY <1>1, <1>2, <1>3, <1>4, <1>5, <1>6 DEF Next, Thread

LEMMA InitRefines == Init => Fifo!Init
BY DEF Init, Fifo!Init, Queue

\* While the sink is open, the listener hears the blocks that were made,
\* whole, in order and none twice: the ring implements AudioFifo.
THEOREM RingIsAFifo == SafeSpec => ImplementsAudioFifo
<1>1. Init => Fifo!Init
  BY InitRefines
<1>2. IInv /\ IInv' /\ [Next]_vars => [Fifo!Next]_(Fifo!fifo)
  BY StepRefines
<1> QED
  BY <1>1, <1>2, Invariant, PTL DEF SafeSpec, ImplementsAudioFifo, Fifo!Spec

=============================================================================
