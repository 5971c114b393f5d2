------------------------- MODULE RecompilerProofs -------------------------
(***************************************************************************)
(* Proofs about the recompiler's two stores of blocks.                     *)
(*                                                                         *)
(* BlockManager, for any addresses, codes, hash function and bucket sizes: *)
(* the two caches mirror the table, and every path of a lookup returns     *)
(* what the table holds (BlockMap).                                        *)
(*                                                                         *)
(* CodeCache, for every program, cache size and preset: it is type correct *)
(* and, with the link guard, runs what the guest asks for, in its last     *)
(* translation.                                                            *)
(***************************************************************************)
EXTENDS CodeCache, BlockManager, TLAPS, WellFoundedInduction

-----------------------------------------------------------------------------
(* The block manager                                                       *)

Block == [code : Code, addr : Addr, lookups : 0 .. MaxLookups]

Types ==
  /\ blocks \in [Index -> Seq(Block)] /\ capacity \in [Index -> Nat \ {0}]
  /\ cache \in [Index -> [capacity : Nat, at : Nat]]
  /\ bm_bcache \in [Index -> [addr : Addr \cup {Sentinel}, code : Code \cup {Sentinel}]]
  /\ result \in Code \cup {Sentinel}
  /\ \A idx \in Index : Len(blocks[idx]) <= MaxPerBucket

\* An address has one block, in its bucket.
Unique(list) == \A i, j \in DOMAIN list : list[i].addr = list[j].addr => i = j
Sorted == \A idx \in Index :
            Unique(blocks[idx]) /\ \A i \in DOMAIN blocks[idx] : Hash[blocks[idx][i].addr] = idx

BmInv == Types /\ Sorted /\ Mirrored

-----------------------------------------------------------------------------
(* Least elements                                                          *)

LEMMA MinIsLeast ==
  ASSUME NEW A \in SUBSET Nat, A # {}
  PROVE  Min(A) \in A
<1>1. PICK m \in A : \A n \in A : ~(<<n, m>> \in OpToRel(<, Nat))
  BY NatLessThanWellFounded, WFMin, Zenon
<1>2. \A n \in A : m <= n
  <2>1. ASSUME NEW n \in A, n < m PROVE FALSE
    <3>1. <<n, m>> \in OpToRel(<, Nat)
      BY <2>1 DEF OpToRel
    <3> QED
      BY <3>1, <1>1
  <2> QED
    BY <2>1
<1> QED
  BY <1>2 DEF Min

LEMMA BlockIn ==
  ASSUME NEW list \in Seq(Block), NEW i \in DOMAIN list
  PROVE  /\ list[i] \in Block /\ list[i].lookups \in 0 .. MaxLookups
         /\ list[i].addr \in Addr /\ list[i].code \in Code
<1>1. list[i] \in Block
  OBVIOUS
<1> QED
  BY <1>1 DEF Block

\* The block that an eviction takes is one of the bucket.
LEMMA LeastUsedIsThere ==
  ASSUME NEW list \in Seq(Block), Len(list) > 0
  PROVE  LeastUsed(list) \in DOMAIN list
<1> DEFINE used == {list[i].lookups : i \in DOMAIN list}
           least == Min(used)
           at == {i \in DOMAIN list : list[i].lookups = least}
<1>1. DOMAIN list = 1 .. Len(list) /\ \A i \in DOMAIN list : list[i].lookups \in Nat
  <2>1. DOMAIN list = 1 .. Len(list) /\ \A i \in DOMAIN list : list[i] \in Block
    OBVIOUS
  <2>2. \A b \in Block : b.lookups \in Nat
    BY BucketAssumption DEF Block
  <2> QED
    BY <2>1, <2>2
<1>2. used \in SUBSET Nat /\ used # {}
  <2>1. 1 \in DOMAIN list
    BY <1>1
  <2> QED
    BY <1>1, <2>1
<1>3. least \in used
  BY <1>2, MinIsLeast
<1> HIDE DEF least
<1>4. at \in SUBSET Nat /\ at # {}
  <2>1. PICK i \in DOMAIN list : list[i].lookups = least
    BY <1>3
  <2> QED
    BY <1>1, <2>1
<1>5. Min(at) \in at
  BY <1>4, MinIsLeast
<1> QED
  BY <1>5 DEF LeastUsed, least

\* A search finds the one block of its address.
LEMMA PlaceIsOne ==
  ASSUME BmInv, NEW addr \in Addr, NEW i \in Places(addr)
  PROVE  Min(Places(addr)) = i /\ Places(addr) = {i}
<1>1. Hash[addr] \in Index /\ Unique(blocks[Hash[addr]])
  BY TableAssumption DEF BmInv, Sorted
<1>2. Places(addr) = {i}
  BY <1>1 DEF Places, Unique
<1>3. Places(addr) \in SUBSET Nat
  BY <1>1 DEF Places, BmInv, Types
<1> QED
  BY <1>2, <1>3, MinIsLeast

LEMMA BmInitInv == bm_Init => BmInv
<1> SUFFICES ASSUME bm_Init PROVE BmInv
  OBVIOUS
<1>1. Types
  BY BucketAssumption DEF bm_Init, Types, Mirror, empty_block, DynarecBlock, ToEmpty
<1>2. Sorted
  BY DEF bm_Init, Sorted, Unique
<1>3. Mirrored
  BY DEF bm_Init, Mirrored, Live, Cached
<1> QED
  BY <1>1, <1>2, <1>3 DEF BmInv

-----------------------------------------------------------------------------
(* A block that takes the place of another, or of itself                   *)

Replaces(addr, i, b) ==
  /\ i \in DOMAIN blocks[Hash[addr]] /\ b \in Block /\ b.addr = addr
  /\ blocks[Hash[addr]][i].addr = addr \/ Places(addr) = {}
  /\ blocks' = [blocks EXCEPT ![Hash[addr]] = [blocks[Hash[addr]] EXCEPT ![i] = b]]
  /\ UNCHANGED capacity

\* What has to become of the caches
CachesFollow(idx, i, b) ==
  \/ /\ UNCHANGED <<cache, bm_bcache>>
     /\ cache[idx] # To(idx, i) \/ Mirror(b) = Mirror(blocks[idx][i])
  \/ /\ cache' = [cache EXCEPT ![idx] = To(idx, i)]
     /\ bm_bcache' = [bm_bcache EXCEPT ![idx] = Mirror(b)]
  \/ /\ cache' = [cache EXCEPT ![idx] = ToEmpty]
     /\ bm_bcache' = [bm_bcache EXCEPT ![idx] = Mirror(empty_block)]

LEMMA MirrorType ==
  /\ \A b \in Block : Mirror(b) \in [addr : Addr \cup {Sentinel}, code : Code \cup {Sentinel}]
  /\ Mirror(empty_block) \in [addr : Addr \cup {Sentinel}, code : Code \cup {Sentinel}]
BY DEF Mirror, Block, empty_block, DynarecBlock

LEMMA ReplaceInv ==
  ASSUME BmInv, NEW addr \in Addr, NEW i, NEW b, Replaces(addr, i, b),
         CachesFollow(Hash[addr], i, b), result' \in Code \cup {Sentinel}
  PROVE  BmInv'
<1> DEFINE idx == Hash[addr]
           new == [blocks[idx] EXCEPT ![i] = b]
<1>1. idx \in Index
  BY TableAssumption
<1> HIDE DEF idx
<1>2. /\ blocks[idx] \in Seq(Block) /\ i \in DOMAIN blocks[idx] /\ b \in Block /\ i \in Nat
      /\ b.addr = addr /\ Len(blocks[idx]) <= MaxPerBucket
  BY <1>1 DEF BmInv, Types, Replaces, idx
<1>3. /\ new \in Seq(Block) /\ Len(new) = Len(blocks[idx]) /\ DOMAIN new = DOMAIN blocks[idx]
      /\ \A j \in DOMAIN new : new[j] = IF j = i THEN b ELSE blocks[idx][j]
  BY <1>2
<1> HIDE DEF new
<1>4. blocks' = [blocks EXCEPT ![idx] = new] /\ UNCHANGED capacity
  BY DEF Replaces, idx, new
<1>5. /\ blocks' \in [Index -> Seq(Block)] /\ blocks'[idx] = new
      /\ \A k \in Index : k # idx => blocks'[k] = blocks[k]
  BY <1>1, <1>3, <1>4 DEF BmInv, Types
<1>6. To(idx, i) \in [capacity : Nat, at : Nat] /\ ToEmpty \in [capacity : Nat, at : Nat]
  BY <1>1, <1>2 DEF To, ToEmpty, BmInv, Types
<1>7. /\ cache' \in [Index -> [capacity : Nat, at : Nat]]
      /\ bm_bcache' \in [Index -> [addr : Addr \cup {Sentinel}, code : Code \cup {Sentinel}]]
  <2>1. /\ cache \in [Index -> [capacity : Nat, at : Nat]]
        /\ bm_bcache \in [Index -> [addr : Addr \cup {Sentinel}, code : Code \cup {Sentinel}]]
    BY DEF BmInv, Types
  <2> DEFINE P == [capacity : Nat, at : Nat]
             M == [addr : Addr \cup {Sentinel}, code : Code \cup {Sentinel}]
  <2>2. Mirror(b) \in M /\ Mirror(empty_block) \in M /\ To(idx, i) \in P /\ ToEmpty \in P
    BY <1>2, <1>6, MirrorType
  <2> HIDE DEF P, M
  <2>3. cache \in [Index -> P] /\ bm_bcache \in [Index -> M]
    BY <2>1 DEF P, M
  <2>4. cache' \in [Index -> P] /\ bm_bcache' \in [Index -> M]
    BY <2>2, <2>3 DEF CachesFollow, idx
  <2> QED
    BY <2>4 DEF P, M
<1>8. Types'
  BY <1>1, <1>3, <1>4, <1>5, <1>7 DEF BmInv, Types
<1>9. Sorted'
  <2>1. Unique(new) /\ \A j \in DOMAIN new : Hash[new[j].addr] = idx
    <3>1. \A j \in DOMAIN blocks[idx] : Hash[blocks[idx][j].addr] = idx
      BY <1>1 DEF BmInv, Sorted
    <3>2. \A j \in DOMAIN blocks[idx] : blocks[idx][j].addr = addr => j = i
      <4>1. Unique(blocks[idx])
        BY <1>1 DEF BmInv, Sorted
      <4>2. blocks[idx][i].addr = addr \/ Places(addr) = {}
        BY DEF Replaces, idx
      <4> QED
        BY <1>2, <4>1, <4>2 DEF Unique, Places, idx
    <3> QED
      BY <1>1, <1>2, <1>3, <3>1, <3>2 DEF BmInv, Sorted, Unique, idx
  <2> QED
    BY <1>5, <2>1 DEF BmInv, Sorted
<1>10. Mirrored'
  <2>1. ASSUME NEW k \in Index, k # idx PROVE (Live(k) /\ bm_bcache[k] = Mirror(Cached(k)))'
    <3>1. cache'[k] = cache[k] /\ bm_bcache'[k] = bm_bcache[k] /\ capacity'[k] = capacity[k]
          /\ blocks'[k] = blocks[k]
      BY <1>1, <1>4, <1>5, <2>1 DEF CachesFollow, BmInv, Types, idx
    <3>2. Live(k)' /\ Cached(k)' = Cached(k)
      BY <3>1 DEF BmInv, Mirrored, Live, Cached
    <3> QED
      BY <3>1, <3>2 DEF BmInv, Mirrored
  <2>2. (Live(idx) /\ bm_bcache[idx] = Mirror(Cached(idx)))'
    <3>1. capacity'[idx] = capacity[idx] /\ capacity[idx] # 0 /\ To(idx, i) # ToEmpty
      BY <1>1, <1>4 DEF BmInv, Types, To, ToEmpty
    <3>2. CASE /\ cache' = [cache EXCEPT ![idx] = To(idx, i)]
               /\ bm_bcache' = [bm_bcache EXCEPT ![idx] = Mirror(b)]
      <4>1. cache'[idx] = To(idx, i) /\ bm_bcache'[idx] = Mirror(b)
        BY <1>1, <3>2 DEF BmInv, Types
      <4>2. Live(idx)' /\ Cached(idx)' = b
        BY <1>2, <1>3, <1>5, <3>1, <4>1 DEF Live, Cached, To
      <4> QED
        BY <4>1, <4>2 DEF Mirror
    <3>3. CASE /\ cache' = [cache EXCEPT ![idx] = ToEmpty]
               /\ bm_bcache' = [bm_bcache EXCEPT ![idx] = Mirror(empty_block)]
      <4>1. cache'[idx] = ToEmpty /\ bm_bcache'[idx] = Mirror(empty_block)
        BY <1>1, <3>3 DEF BmInv, Types
      <4> QED
        BY <4>1 DEF Live, Cached, Mirror
    <3>4. CASE /\ UNCHANGED <<cache, bm_bcache>>
               /\ cache[idx] # To(idx, i) \/ Mirror(b) = Mirror(blocks[idx][i])
      <4>1. Live(idx) /\ bm_bcache[idx] = Mirror(Cached(idx))
        BY <1>1 DEF BmInv, Mirrored
      <4>2. Live(idx)'
        BY <1>3, <1>5, <3>1, <3>4, <4>1 DEF Live
      <4>3. CASE cache[idx] = ToEmpty
        BY <3>4, <4>1, <4>3 DEF Cached, Live, Mirror
      <4>4. CASE cache[idx] # ToEmpty
        <5> DEFINE at == cache[idx].at
        <5>1. at \in DOMAIN blocks[idx] /\ cache[idx].capacity = capacity[idx]
              /\ Cached(idx) = blocks[idx][at]
          BY <4>1, <4>4 DEF Live, Cached
        <5>2. Cached(idx)' = new[at]
          BY <1>3, <1>5, <3>1, <3>4, <4>2, <4>4, <5>1 DEF Live, Cached
        <5>3. at = i => cache[idx] = To(idx, i)
          BY <1>1, <5>1 DEF BmInv, Types, To
        <5>4. Mirror(new[at]) = Mirror(blocks[idx][at])
          BY <1>3, <3>4, <5>1, <5>3
        <5> QED
          BY <3>4, <4>1, <4>2, <5>1, <5>2, <5>4 DEF Mirror
      <4> QED
        BY <4>3, <4>4
    <3> QED
      BY <3>2, <3>3, <3>4 DEF CachesFollow, idx
  <2> QED
    BY <2>1, <2>2 DEF Mirrored
<1> QED
  BY <1>8, <1>9, <1>10 DEF BmInv

-----------------------------------------------------------------------------
(* A block that is added to its bucket                                     *)

LEMMA PushBackInv ==
  ASSUME BmInv, NEW addr \in Addr, NEW code \in Code, PushBack(addr, code)
  PROVE  BmInv'
<1> DEFINE idx == Hash[addr]
           b == DynarecBlock(code, addr, 0)
           new == Append(blocks[idx], b)
           grown == Grown(idx)
           to == [capacity |-> grown, at |-> Len(blocks[idx]) + 1]
<1>1. idx \in Index /\ b \in Block /\ b.addr = addr
  BY TableAssumption, BucketAssumption DEF DynarecBlock, Block
<1>2. /\ blocks' = [blocks EXCEPT ![idx] = new] /\ capacity' = [capacity EXCEPT ![idx] = grown]
      /\ cache' = [cache EXCEPT ![idx] = to] /\ bm_bcache' = [bm_bcache EXCEPT ![idx] = Mirror(b)]
      /\ UNCHANGED result /\ Places(addr) = {} /\ Len(blocks[idx]) < MaxPerBucket
  BY DEF PushBack
<1>3. blocks[idx] \in Seq(Block) /\ capacity[idx] \in Nat \ {0}
  BY <1>1 DEF BmInv, Types
<1>4. grown \in Nat \ {0}
  BY <1>3 DEF Grown
<1>5. \A j \in DOMAIN blocks[idx] : blocks[idx][j].addr # addr
  BY <1>2 DEF Places
<1> HIDE DEF b, idx, grown
<1>6. /\ new \in Seq(Block) /\ Len(new) = Len(blocks[idx]) + 1 /\ Len(blocks[idx]) \in Nat
      /\ DOMAIN new = DOMAIN blocks[idx] \cup {Len(blocks[idx]) + 1}
      /\ new[Len(blocks[idx]) + 1] = b /\ \A j \in DOMAIN blocks[idx] : new[j] = blocks[idx][j]
  BY <1>1, <1>3
<1> HIDE DEF new
<1>7. /\ blocks' \in [Index -> Seq(Block)] /\ blocks'[idx] = new
      /\ \A k \in Index : k # idx => blocks'[k] = blocks[k]
  BY <1>1, <1>2, <1>6 DEF BmInv, Types
<1>8. to \in [capacity : Nat, at : Nat] /\ to # ToEmpty
  BY <1>4, <1>6 DEF ToEmpty
<1> HIDE DEF to
<1>9. Types'
  <2>1. Mirror(b) \in [addr : Addr \cup {Sentinel}, code : Code \cup {Sentinel}]
    BY <1>1, MirrorType
  <2>2. bm_bcache' \in [Index -> [addr : Addr \cup {Sentinel}, code : Code \cup {Sentinel}]]
    BY <1>2, <2>1 DEF BmInv, Types
  <2>3. cache' \in [Index -> [capacity : Nat, at : Nat]] /\ capacity' \in [Index -> Nat \ {0}]
    BY <1>2, <1>4, <1>8 DEF BmInv, Types
  <2>4. \A k \in Index : Len(blocks'[k]) <= MaxPerBucket
    <3>1. Len(new) <= MaxPerBucket
      BY <1>2, <1>6, BucketAssumption
    <3> QED
      BY <1>7, <3>1 DEF BmInv, Types
  <2> QED
    BY <1>2, <1>7, <2>2, <2>3, <2>4 DEF BmInv, Types
<1>10. Sorted'
  <2>1. Unique(blocks[idx]) /\ \A j \in DOMAIN blocks[idx] : Hash[blocks[idx][j].addr] = idx
    BY <1>1 DEF BmInv, Sorted
  <2>2. Unique(new) /\ \A j \in DOMAIN new : Hash[new[j].addr] = idx
    BY <1>1, <1>5, <1>6, <2>1 DEF Unique, idx
  <2> QED
    BY <1>7, <2>2 DEF BmInv, Sorted
<1>11. Mirrored'
  <2>1. ASSUME NEW k \in Index, k # idx PROVE (Live(k) /\ bm_bcache[k] = Mirror(Cached(k)))'
    <3>1. cache'[k] = cache[k] /\ bm_bcache'[k] = bm_bcache[k] /\ capacity'[k] = capacity[k]
          /\ blocks'[k] = blocks[k]
      BY <1>1, <1>2, <1>7, <2>1 DEF BmInv, Types
    <3>2. Live(k)' /\ Cached(k)' = Cached(k)
      BY <3>1 DEF BmInv, Mirrored, Live, Cached
    <3> QED
      BY <3>1, <3>2 DEF BmInv, Mirrored
  <2>2. cache'[idx] = to /\ bm_bcache'[idx] = Mirror(b) /\ capacity'[idx] = grown
    BY <1>1, <1>2 DEF BmInv, Types
  <2>3. Live(idx)' /\ Cached(idx)' = b
    BY <1>6, <1>7, <1>8, <2>2 DEF Live, Cached, to
  <2> QED
    BY <2>1, <2>2, <2>3 DEF Mirrored, Mirror
<1> QED
  BY <1>9, <1>10, <1>11 DEF BmInv

-----------------------------------------------------------------------------
(* Every step replaces a block, adds one, empties the table or leaves it   *)

LEMMA Lookups ==
  ASSUME BmInv, NEW addr \in Addr, CacheHit(addr) \/ Search(addr)
  PROVE  \E i, b : /\ Replaces(addr, i, b) /\ CachesFollow(Hash[addr], i, b)
                   /\ i \in Places(addr) /\ b.code = blocks[Hash[addr]][i].code
                   /\ result' = b.code
<1> DEFINE idx == Hash[addr]
<1>1. idx \in Index
  BY TableAssumption
<1>2. blocks[idx] \in Seq(Block)
  BY <1>1 DEF BmInv, Types
<1>3. ASSUME NEW i \in Places(addr), NEW lookups \in 0 .. MaxLookups
      PROVE  LET b == [blocks[idx][i] EXCEPT !.lookups = lookups]
             IN /\ i \in DOMAIN blocks[idx] /\ b \in Block /\ b.addr = addr
                /\ b.code = blocks[idx][i].code /\ Mirror(b) = Mirror(blocks[idx][i])
  <2>1. i \in DOMAIN blocks[idx] /\ blocks[idx][i] \in Block /\ blocks[idx][i].addr = addr
    BY <1>2, <1>3 DEF Places
  <2> QED
    BY <2>1 DEF Block, Mirror
<1>4. CASE CacheHit(addr)
  <2> DEFINE i == cache[idx].at
             b == [blocks[idx][i] EXCEPT !.lookups = @ + 1]
  <2>1. cache[idx] # ToEmpty
    BY <1>4, TableAssumption DEF CacheHit, Cached, empty_block, DynarecBlock
  <2>2. i \in DOMAIN blocks[idx] /\ Cached(idx) = blocks[idx][i]
    BY <1>1, <2>1 DEF BmInv, Mirrored, Live, Cached
  <2>3. i \in Places(addr)
    BY <1>4, <2>2 DEF CacheHit, Places
  <2>4. blocks[idx][i].lookups + 1 \in 0 .. MaxLookups
    <3>1. blocks[idx][i].lookups \in 0 .. MaxLookups /\ blocks[idx][i].lookups < MaxLookups
      BY <1>2, <1>4, <2>2, BlockIn DEF CacheHit
    <3> QED
      BY <3>1, BucketAssumption
  <2>5. /\ b \in Block /\ b.addr = addr /\ b.code = blocks[idx][i].code
        /\ Mirror(b) = Mirror(blocks[idx][i])
    BY <1>3, <2>3, <2>4
  <2>6. blocks' = [blocks EXCEPT ![idx] = [blocks[idx] EXCEPT ![i] = b]] /\ result' = b.code
        /\ UNCHANGED <<capacity, cache, bm_bcache>>
    BY <1>4, <2>2, <2>5 DEF CacheHit
  <2>7. blocks[idx][i].addr = addr
    BY <2>3 DEF Places
  <2> HIDE DEF b, i
  <2> QED
    BY <2>2, <2>3, <2>5, <2>6, <2>7 DEF Replaces, CachesFollow
<1>5. CASE Search(addr)
  <2> DEFINE i == Min(Places(addr))
             lookups == blocks[idx][i].lookups + 1
             b == [blocks[idx][i] EXCEPT !.lookups = lookups]
  <2>1. i \in Places(addr)
    <3>1. PICK j \in Places(addr) : TRUE
      BY <1>5 DEF Search
    <3> QED
      BY <3>1, PlaceIsOne
  <2> HIDE DEF i
  <2>2. lookups <= MaxLookups /\ blocks' = [blocks EXCEPT ![idx][i].lookups = lookups]
        /\ result' = blocks[idx][i].code /\ UNCHANGED capacity
        /\ \/ /\ cache' = [cache EXCEPT ![idx] = To(idx, i)]
              /\ bm_bcache' = [bm_bcache EXCEPT ![idx] = Mirror(blocks[idx][i])]
           \/ UNCHANGED <<cache, bm_bcache>>
    BY <1>5 DEF Search, i
  <2>3. lookups \in 0 .. MaxLookups
    <3>1. i \in DOMAIN blocks[idx]
      BY <2>1 DEF Places
    <3>2. blocks[idx][i].lookups \in 0 .. MaxLookups
      BY <1>2, <3>1, BlockIn
    <3> QED
      BY <2>2, <3>2, BucketAssumption
  <2>4. /\ i \in DOMAIN blocks[idx] /\ b \in Block /\ b.addr = addr
        /\ b.code = blocks[idx][i].code /\ Mirror(b) = Mirror(blocks[idx][i])
    BY <1>3, <2>1, <2>3
  <2>5. blocks' = [blocks EXCEPT ![idx] = [blocks[idx] EXCEPT ![i] = b]]
    BY <2>2
  <2>6. blocks[idx][i].addr = addr
    BY <2>1 DEF Places
  <2> HIDE DEF b, lookups
  <2> QED
    BY <2>1, <2>2, <2>4, <2>5, <2>6 DEF Replaces, CachesFollow
<1> QED
  BY <1>4, <1>5

LEMMA Additions ==
  ASSUME BmInv, NEW addr \in Addr, NEW code \in Code, Update(addr, code) \/ Evict(addr, code)
  PROVE  /\ UNCHANGED result
         /\ \E i : /\ Replaces(addr, i, DynarecBlock(code, addr, 0))
                   /\ CachesFollow(Hash[addr], i, DynarecBlock(code, addr, 0))
<1> DEFINE idx == Hash[addr]
           b == DynarecBlock(code, addr, 0)
<1>1. idx \in Index
  BY TableAssumption
<1>2. blocks[idx] \in Seq(Block) /\ b \in Block /\ b.addr = addr
  <2>1. blocks[idx] \in Seq(Block)
    BY <1>1 DEF BmInv, Types
  <2>2. b \in Block /\ b.addr = addr
    BY BucketAssumption DEF Block, DynarecBlock
  <2> QED
    BY <2>1, <2>2
<1>3. CASE Update(addr, code)
  <2> DEFINE i == Min(Places(addr))
  <2>1. i \in Places(addr)
    <3>1. PICK j \in Places(addr) : TRUE
      BY <1>3 DEF Update
    <3> QED
      BY <3>1, PlaceIsOne
  <2> HIDE DEF i, b
  <2>2. /\ blocks' = [blocks EXCEPT ![idx] = [blocks[idx] EXCEPT ![i] = b]]
        /\ bm_bcache' = IF cache[idx] = To(idx, i) THEN [bm_bcache EXCEPT ![idx] = Mirror(b)]
                        ELSE bm_bcache
        /\ UNCHANGED <<capacity, cache, result>>
    BY <1>3 DEF Update, i, b
  <2>3. cache[idx] = To(idx, i) => cache' = [cache EXCEPT ![idx] = To(idx, i)]
    BY <1>1, <2>2 DEF BmInv, Types
  <2>4. CachesFollow(idx, i, b)
    BY <2>2, <2>3 DEF CachesFollow
  <2>5. Replaces(addr, i, b)
    BY <1>2, <2>1, <2>2 DEF Replaces, Places
  <2> QED
    BY <2>2, <2>4, <2>5 DEF b
<1>4. CASE Evict(addr, code)
  <2> DEFINE i == LeastUsed(blocks[idx])
  <2>1. i \in DOMAIN blocks[idx]
    <3>1. Len(blocks[idx]) > 0
      BY <1>2, <1>4, BucketAssumption DEF Evict
    <3> QED
      BY <1>2, <3>1, LeastUsedIsThere
  <2> HIDE DEF i, b
  <2>2. /\ blocks' = [blocks EXCEPT ![idx] = [blocks[idx] EXCEPT ![i] = b]]
        /\ Places(addr) = {} /\ UNCHANGED <<capacity, result>>
    BY <1>4 DEF Evict, i, b
  <2>3. CachesFollow(idx, i, b)
    BY <1>4 DEF Evict, CachesFollow, i
  <2>4. Replaces(addr, i, b)
    BY <1>2, <2>1, <2>2 DEF Replaces
  <2> QED
    BY <2>2, <2>3, <2>4 DEF b
<1> QED
  BY <1>3, <1>4

LEMMA ResetInv ==
  ASSUME BmInv, bm_Reset
  PROVE  BmInv'
<1>1. Types'
  BY BucketAssumption DEF BmInv, bm_Reset, Types, Mirror, empty_block, DynarecBlock, ToEmpty
<1>2. Sorted'
  BY DEF bm_Reset, Sorted, Unique
<1>3. Mirrored'
  BY DEF bm_Reset, Mirrored, Live, Cached
<1> QED
  BY <1>1, <1>2, <1>3 DEF BmInv

LEMMA StillInv ==
  ASSUME BmInv, UNCHANGED <<blocks, capacity, cache, bm_bcache>>, result' \in Code \cup {Sentinel}
  PROVE  BmInv'
BY DEF BmInv, Types, Sorted, Mirrored, Live, Cached

LEMMA BmInvStep == BmInv /\ [BmNext]_bmvars => BmInv'
<1> SUFFICES ASSUME BmInv, [BmNext]_bmvars PROVE BmInv'
  OBVIOUS
<1>1. ASSUME NEW addr \in Addr, FlatHit(addr) PROVE BmInv'
  <2>1. Hash[addr] \in Index
    BY TableAssumption
  <2>2. result' \in Code \cup {Sentinel}
    BY <1>1, <2>1 DEF FlatHit, BmInv, Types
  <2> QED
    BY <1>1, <2>2, StillInv DEF FlatHit
<1>2. ASSUME NEW addr \in Addr, CacheHit(addr) \/ Search(addr) PROVE BmInv'
  <2>1. PICK i, b : /\ Replaces(addr, i, b) /\ CachesFollow(Hash[addr], i, b)
                    /\ result' = b.code
    BY <1>2, Lookups
  <2>2. result' \in Code \cup {Sentinel}
    BY <2>1 DEF Replaces, Block
  <2> QED
    BY <2>1, <2>2, ReplaceInv
<1>3. ASSUME NEW addr \in Addr, Miss(addr) PROVE BmInv'
  BY <1>3, StillInv DEF Miss
<1>4. ASSUME NEW addr \in Addr, NEW code \in Code, Update(addr, code) \/ Evict(addr, code)
      PROVE  BmInv'
  <2>1. result' \in Code \cup {Sentinel}
    BY <1>4, Additions DEF BmInv, Types
  <2> QED
    BY <1>4, <2>1, Additions, ReplaceInv
<1>5. ASSUME NEW addr \in Addr, NEW code \in Code, PushBack(addr, code) PROVE BmInv'
  BY <1>5, PushBackInv
<1>6. CASE bm_Reset
  BY <1>6, ResetInv
<1>7. CASE UNCHANGED bmvars
  BY <1>7, StillInv DEF bmvars, BmInv, Types
<1> QED
  BY <1>1, <1>2, <1>3, <1>4, <1>5, <1>6, <1>7 DEF BmNext

LEMMA BmInvariance == BmSpec => []BmInv
BY BmInitInv, BmInvStep, PTL DEF BmSpec

\* Every vector, pointer and copy keeps its range, and no bucket its limit.
THEOREM BmTypeCorrect == BmSpec => []BmTypeOK
<1>1. BmInv => BmTypeOK
  <2> SUFFICES ASSUME BmInv PROVE BmTypeOK
    OBVIOUS
  <2>1. ASSUME NEW idx \in Index
        PROVE  /\ DOMAIN blocks[idx] = 1 .. Len(blocks[idx]) /\ Len(blocks[idx]) <= MaxPerBucket
               /\ \A i \in DOMAIN blocks[idx] : blocks[idx][i] \in Block
               /\ capacity[idx] \in Nat /\ cache[idx] \in [capacity : Nat, at : Nat]
               /\ bm_bcache[idx] \in [addr : Addr \cup {Sentinel}, code : Code \cup {Sentinel}]
    <3>1. blocks[idx] \in Seq(Block)
      BY DEF BmInv, Types
    <3> QED
      BY <3>1, BlockIn DEF BmInv, Types
  <2> QED
    BY <2>1 DEF BmInv, Types, BmTypeOK, Block
<1> QED
  BY <1>1, BmInvariance, PTL

\* The flat copy mirrors the cached pointer, and that one never dangles,
\* whatever vectors move.
THEOREM CachesAreMirrored == BmSpec => []Mirrored
<1>1. BmInv => Mirrored
  BY DEF BmInv
<1> QED
  BY <1>1, BmInvariance, PTL

-----------------------------------------------------------------------------
(* The block manager implements the table                                  *)

LEMMA TableIs ==
  ASSUME BmInv, NEW addr \in Addr
  PROVE  /\ Places(addr) = {} => tableBar[addr] = Sentinel
         /\ \A i \in Places(addr) : tableBar[addr] = blocks[Hash[addr]][i].code
<1>1. ASSUME NEW i \in Places(addr) PROVE tableBar[addr] = blocks[Hash[addr]][i].code
  BY <1>1, PlaceIsOne DEF tableBar
<1> QED
  BY <1>1 DEF tableBar

\* The same of the table after a step
LEMMA TableWillBe ==
  ASSUME BmInv', NEW addr \in Addr
  PROVE  /\ Places(addr)' = {} => tableBar'[addr] = Sentinel
         /\ \A i \in Places(addr)' : tableBar'[addr] = blocks'[Hash[addr]][i].code
<1>1. ASSUME NEW i \in Places(addr)' PROVE tableBar'[addr] = blocks'[Hash[addr]][i].code
  <2>1. Hash[addr] \in Index /\ Unique(blocks'[Hash[addr]])
    BY TableAssumption DEF BmInv, Sorted
  <2>2. Places(addr)' = {i}
    BY <1>1, <2>1 DEF Places, Unique
  <2>3. Places(addr)' \in SUBSET Nat
    BY <2>1 DEF Places, BmInv, Types
  <2>4. Min(Places(addr)') = i
    BY <2>2, <2>3, MinIsLeast
  <2> QED
    BY <1>1, <2>4 DEF tableBar
<1> QED
  BY <1>1 DEF tableBar

LEMMA TableType ==
  tableBar = [addr \in Addr |-> tableBar[addr]] /\ tableBar' = [addr \in Addr |-> tableBar'[addr]]
BY DEF tableBar

\* A block in the place of another: its address gets its code, and the address
\* of the other loses its own.
LEMMA ReplaceInTable ==
  ASSUME BmInv, BmInv', NEW addr \in Addr, NEW i, NEW b, Replaces(addr, i, b)
  PROVE  LET other == blocks[Hash[addr]][i].addr
         IN /\ other \in Addr
            /\ tableBar' = [[tableBar EXCEPT ![other] = Sentinel] EXCEPT ![addr] = b.code]
<1> DEFINE idx == Hash[addr]
<1>1. idx \in Index /\ blocks[idx] \in Seq(Block) /\ i \in DOMAIN blocks[idx] /\ b.addr = addr
  BY TableAssumption DEF BmInv, Types, Replaces
<1>2. PICK other \in Addr : other = blocks[idx][i].addr /\ Hash[other] = idx
  BY <1>1, BlockIn DEF BmInv, Sorted
<1>3. /\ blocks'[idx] = [blocks[idx] EXCEPT ![i] = b]
      /\ \A k \in Index : k # idx => blocks'[k] = blocks[k]
  BY <1>1 DEF Replaces, BmInv, Types
<1>4. /\ DOMAIN blocks'[idx] = DOMAIN blocks[idx] /\ blocks'[idx][i] = b
      /\ \A j \in DOMAIN blocks[idx] : j # i => blocks'[idx][j] = blocks[idx][j]
  BY <1>1, <1>3
<1>5. tableBar'[addr] = b.code
  <2>1. i \in Places(addr)'
    BY <1>1, <1>4 DEF Places
  <2> QED
    BY <1>4, <2>1, TableWillBe
<1>6. ASSUME other # addr PROVE tableBar'[other] = Sentinel
  <2>1. Unique(blocks[idx])
    BY <1>1 DEF BmInv, Sorted
  <2>2. Places(other)' = {}
    BY <1>1, <1>2, <1>4, <1>6, <2>1 DEF Places, Unique
  <2> QED
    BY <1>2, <2>2, TableWillBe
<1>7. ASSUME NEW a \in Addr, a # addr, a # other PROVE tableBar'[a] = tableBar[a]
  <2>1. Hash[a] \in Index
    BY TableAssumption
  <2>2. /\ Places(a)' = Places(a)
        /\ \A j \in Places(a) : blocks'[Hash[a]][j].code = blocks[Hash[a]][j].code
    <3>1. CASE Hash[a] # idx
      BY <1>3, <2>1, <3>1 DEF Places
    <3>2. CASE Hash[a] = idx
      BY <1>1, <1>2, <1>4, <1>7, <3>2 DEF Places
    <3> QED
      BY <3>1, <3>2
  <2>3. CASE Places(a) = {}
    BY <2>2, <2>3, TableIs, TableWillBe
  <2>4. CASE Places(a) # {}
    <3>1. PICK j \in Places(a) : TRUE
      BY <2>4
    <3>2. tableBar[a] = blocks[Hash[a]][j].code
      BY <3>1, TableIs
    <3>3. tableBar'[a] = blocks'[Hash[a]][j].code
      BY <2>2, <3>1, TableWillBe
    <3> QED
      BY <2>2, <3>1, <3>2, <3>3
  <2> QED
    BY <2>3, <2>4
<1> HIDE DEF idx
<1>8. \A a \in Addr : tableBar'[a] =
        [[tableBar EXCEPT ![other] = Sentinel] EXCEPT ![addr] = b.code][a]
  <2>1. DOMAIN tableBar = Addr
    BY DEF tableBar
  <2> QED
    BY <1>2, <1>5, <1>6, <1>7, <2>1
<1>9. DOMAIN tableBar = Addr
  BY DEF tableBar
<1>10. tableBar' = [[tableBar EXCEPT ![other] = Sentinel] EXCEPT ![addr] = b.code]
  BY <1>8, <1>9, TableType
<1> QED
  BY <1>2, <1>10 DEF idx

LEMMA PushInTable ==
  ASSUME BmInv, BmInv', NEW addr \in Addr, NEW code \in Code, PushBack(addr, code)
  PROVE  tableBar' = [[tableBar EXCEPT ![addr] = Sentinel] EXCEPT ![addr] = code]
<1> DEFINE idx == Hash[addr]
           b == DynarecBlock(code, addr, 0)
           n == Len(blocks[idx]) + 1
<1>1. idx \in Index /\ blocks[idx] \in Seq(Block) /\ b.addr = addr /\ b.code = code
  BY TableAssumption DEF BmInv, Types, DynarecBlock
<1>2. blocks' = [blocks EXCEPT ![idx] = Append(blocks[idx], b)]
  BY DEF PushBack
<1> HIDE DEF b, idx
<1>3. /\ blocks'[idx] = Append(blocks[idx], b)
      /\ \A k \in Index : k # idx => blocks'[k] = blocks[k]
  BY <1>1, <1>2 DEF BmInv, Types
<1>4. /\ DOMAIN blocks'[idx] = DOMAIN blocks[idx] \cup {n} /\ blocks'[idx][n] = b
      /\ \A j \in DOMAIN blocks[idx] : blocks'[idx][j] = blocks[idx][j]
  BY <1>1, <1>3
<1>5. tableBar'[addr] = code
  <2>1. n \in Places(addr)'
    BY <1>1, <1>4 DEF Places, idx
  <2> QED
    BY <1>1, <1>4, <2>1, TableWillBe DEF idx
<1>6. ASSUME NEW a \in Addr, a # addr PROVE tableBar'[a] = tableBar[a]
  <2>1. Hash[a] \in Index
    BY TableAssumption
  <2>2. /\ Places(a)' = Places(a)
        /\ \A j \in Places(a) : blocks'[Hash[a]][j].code = blocks[Hash[a]][j].code
    <3>1. CASE Hash[a] # idx
      BY <1>3, <2>1, <3>1 DEF Places
    <3>2. CASE Hash[a] = idx
      BY <1>1, <1>4, <1>6, <3>2 DEF Places
    <3> QED
      BY <3>1, <3>2
  <2>3. CASE Places(a) = {}
    BY <2>2, <2>3, TableIs, TableWillBe
  <2>4. CASE Places(a) # {}
    <3>1. PICK j \in Places(a) : TRUE
      BY <2>4
    <3>2. tableBar[a] = blocks[Hash[a]][j].code
      BY <3>1, TableIs
    <3>3. tableBar'[a] = blocks'[Hash[a]][j].code
      BY <2>2, <3>1, TableWillBe
    <3> QED
      BY <2>2, <3>1, <3>2, <3>3
  <2> QED
    BY <2>3, <2>4
<1>7. DOMAIN tableBar = Addr
  BY DEF tableBar
<1> QED
  BY <1>5, <1>6, <1>7, TableType

\* A step that leaves the blocks alone leaves the table alone.
LEMMA SameTable ==
  ASSUME UNCHANGED blocks
  PROVE  UNCHANGED tableBar
BY DEF tableBar, Places

LEMMA StepImplements ==
  ASSUME BmInv, BmInv', [BmNext]_bmvars
  PROVE  [Abstract!Next]_(Abstract!vars)
<1>1. ASSUME NEW addr \in Addr, FlatHit(addr) PROVE Abstract!Lookup(addr)
  <2> DEFINE idx == Hash[addr]
  <2>1. idx \in Index /\ bm_bcache[idx].addr = addr /\ result' = bm_bcache[idx].code
    BY <1>1, TableAssumption DEF FlatHit
  <2>2. Cached(idx).addr = addr /\ Cached(idx).code = result' /\ Live(idx)
    <3>1. bm_bcache[idx] = Mirror(Cached(idx)) /\ Live(idx)
      BY <2>1, Zenon DEF BmInv, Mirrored
    <3>2. \A block : Mirror(block).addr = block.addr /\ Mirror(block).code = block.code
      BY DEF Mirror
    <3>3. Mirror(Cached(idx)).addr = Cached(idx).addr /\ Mirror(Cached(idx)).code = Cached(idx).code
      BY <3>2, Zenon
    <3> HIDE DEF idx
    <3> QED
      BY <2>1, <3>1, <3>3, Zenon
  <2>3. cache[idx] # ToEmpty
    BY <2>2, TableAssumption DEF Cached, empty_block, DynarecBlock
  <2>4. cache[idx].at \in Places(addr) /\ blocks[idx][cache[idx].at].code = result'
    BY <2>2, <2>3 DEF Live, Cached, Places
  <2>5. tableBar[addr] = result'
    BY <2>4, TableIs
  <2>6. UNCHANGED tableBar
    BY <1>1, SameTable DEF FlatHit
  <2> QED
    BY <2>5, <2>6 DEF Abstract!Lookup
<1>2. ASSUME NEW addr \in Addr, CacheHit(addr) \/ Search(addr) PROVE Abstract!Lookup(addr)
  <2>1. PICK i, b : /\ Replaces(addr, i, b) /\ i \in Places(addr)
                    /\ b.code = blocks[Hash[addr]][i].code /\ result' = b.code
    BY <1>2, Lookups
  <2>2. tableBar[addr] = result'
    BY <2>1, TableIs
  <2>3. tableBar' = [[tableBar EXCEPT ![addr] = Sentinel] EXCEPT ![addr] = b.code]
    BY <2>1, ReplaceInTable DEF Places
  <2>4. UNCHANGED tableBar
    BY <2>1, <2>2, <2>3, TableType
  <2> QED
    BY <2>2, <2>4 DEF Abstract!Lookup
<1>3. ASSUME NEW addr \in Addr, Miss(addr) PROVE Abstract!Lookup(addr)
  <2>1. tableBar[addr] = result'
    BY <1>3, TableIs DEF Miss
  <2>2. UNCHANGED tableBar
    BY <1>3, SameTable DEF Miss
  <2> QED
    BY <2>1, <2>2 DEF Abstract!Lookup
<1>4. DOMAIN tableBar = Addr
  BY DEF tableBar
<1>5. ASSUME NEW addr \in Addr, NEW code \in Code, Update(addr, code) \/ Evict(addr, code)
      PROVE  Abstract!Add(addr, code)
  <2>1. PICK i : Replaces(addr, i, DynarecBlock(code, addr, 0))
    BY <1>5, Additions
  <2>2. DynarecBlock(code, addr, 0).code = code /\ UNCHANGED result
    BY <1>5, Additions DEF DynarecBlock
  <2>3. PICK other \in Addr :
          tableBar' = [[tableBar EXCEPT ![other] = Sentinel] EXCEPT ![addr] = code]
    BY <2>1, <2>2, ReplaceInTable
  <2>4. tableBar'[addr] = code
    BY <1>4, <2>3
  <2> QED
    BY <2>2, <2>3, <2>4 DEF Abstract!Add
<1>6. ASSUME NEW addr \in Addr, NEW code \in Code, PushBack(addr, code)
      PROVE  Abstract!Add(addr, code)
  <2>1. tableBar' = [[tableBar EXCEPT ![addr] = Sentinel] EXCEPT ![addr] = code]
    BY <1>6, PushInTable
  <2>2. tableBar'[addr] = code /\ UNCHANGED result
    BY <1>4, <1>6, <2>1 DEF PushBack
  <2> QED
    BY <2>1, <2>2 DEF Abstract!Add
<1>7. ASSUME bm_Reset PROVE Abstract!Reset
  <2>1. \A addr \in Addr : Places(addr)' = {}
    BY <1>7, TableAssumption DEF bm_Reset, Places
  <2>2. tableBar' = [addr \in Addr |-> Sentinel]
    BY <2>1 DEF tableBar
  <2> QED
    BY <1>7, <2>2 DEF bm_Reset, Abstract!Reset, Abstract!Empty
<1>8. ASSUME UNCHANGED bmvars PROVE UNCHANGED Abstract!vars
  BY <1>8, SameTable DEF bmvars, Abstract!vars
<1> QED
  BY <1>1, <1>2, <1>3, <1>5, <1>6, <1>7, <1>8 DEF BmNext, Abstract!Next

\* The block manager is a table: whatever path a lookup takes, through the flat
\* copy, the cached pointer or the bucket, it returns the code added last for
\* its address or nothing, for any hash function and any size of the buckets.
THEOREM LookupsImplementBlockMap == BmSpec => ImplementsBlockMap
<1>1. bm_Init => Abstract!Init
  <2> SUFFICES ASSUME bm_Init PROVE Abstract!Init
    OBVIOUS
  <2>1. \A addr \in Addr : Places(addr) = {}
    BY TableAssumption DEF bm_Init, Places
  <2>2. tableBar = [addr \in Addr |-> Sentinel]
    BY <2>1 DEF tableBar
  <2> QED
    BY <2>2 DEF bm_Init, Abstract!Init, Abstract!Empty
<1>2. BmInv /\ BmInv' /\ [BmNext]_bmvars => [Abstract!Next]_(Abstract!vars)
  BY StepImplements
<1> QED
  BY <1>1, <1>2, BmInvariance, PTL DEF BmSpec, ImplementsBlockMap, Abstract!Spec

-----------------------------------------------------------------------------
(* The code cache: words                                                   *)

USE DEF Word, None, Body, Link, Jump, Ic, IcJump, Ret, Entry

\* What the words of the cache may be, field by field.
LEMMA WordCases ==
  ASSUME NEW w \in Words
  PROVE  \/ w \in Unpatched /\ w.op \in {"body", "ic", "ret", "link"}
         \/ w.op = "jump" /\ w.pc \in Pc /\ w.at \in Address
         \/ w.op = "icjump" /\ w.pc \in Pc /\ w.at \in Address
         \/ w.op = "entry" /\ w.pc \in Pc /\ w.ver \in 0 .. MaxVersion /\ w.guard \in BOOLEAN
  BY DEF Words, Unpatched

\* A static exit not yet linked names an address.
LEMMA LinkNames ==
  ASSUME NEW w \in Words, w.op = "link"
  PROVE  w.pc \in Pc /\ w = Link(w.pc)
  BY DEF Words, Unpatched

LEMMA Sizes ==
  /\ 0 \in Address
  /\ \A p \in Pc : Size(p) \in Nat /\ FlushAt + Size(p) <= CodeSize
  /\ \A p \in Pc : \A i \in 1 .. Size(p) : Shape[p][i] \in Unpatched
  BY ProgramAssumption, SizesAssumption DEF Address

-----------------------------------------------------------------------------
(* The code cache is type correct                                          *)

\* A block table maps addresses to places in the cache.
IsTable(t) == DOMAIN t \subseteq Pc /\ \A p \in DOMAIN t : t[p] \in Address

LEMMA EmptyTable == IsTable(NoBlocks) /\ DOMAIN NoBlocks = {}
  BY DEF IsTable, NoBlocks

LEMMA AddedTypes ==
  ASSUME NEW t, IsTable(t), NEW pc \in Pc, NEW at \in Address, NEW u \in Added(t, pc, at)
  PROVE  /\ IsTable(u)
         /\ \A p \in DOMAIN u : (p = pc /\ u[p] = at) \/ (p \in DOMAIN t /\ u[p] = t[p])
<1>1. PICK e \in {pc} \cup (IF pc \in Crowded THEN DOMAIN t \cap Crowded ELSE {}) :
        u = [p \in (DOMAIN t \ {e}) \cup {pc} |-> IF p = pc THEN at ELSE t[p]]
  BY DEF Added
<1> QED
  BY <1>1 DEF IsTable

\* What a compilation leaves: the block at its place, after a clear or after
\* the blocks that were there.
LEMMA Compiled ==
  ASSUME TypeOK, NEW pc \in Pc, NEW t, IsTable(t), NEW last \in 0 .. CodeSize,
         NEW c \in CompilePC(pc, t, last)
  PROVE  /\ c.at \in Address
         /\ c.at = 0 \/ c.at = last
         /\ c.last = c.at + 1 + Size(pc) /\ c.last \in 0 .. CodeSize
         /\ c.mem = Emitted(pc, c.at) /\ c.mem \in [Address -> Words]
         /\ IsTable(c.map)
         /\ \A p \in DOMAIN c.map : \/ p = pc /\ c.map[p] = c.at
                                    \/ c.at = last /\ p \in DOMAIN t /\ c.map[p] = t[p]
         /\ c.cleared \in BOOLEAN
<1> DEFINE at == Start(pc, last)
           cleared == ClearsFirst(pc, last)
           from == IF cleared THEN NoBlocks ELSE t
<1>1. PICK u \in Added(from, pc, at) :
        c = [mem |-> Emitted(pc, at), last |-> at + 1 + Size(pc), map |-> u,
             at |-> at, cleared |-> cleared]
  BY DEF CompilePC
<1>2. /\ at \in Address /\ at + 1 + Size(pc) \in 0 .. CodeSize
      /\ IF cleared THEN at = 0 ELSE at = last
  <2>1. CASE cleared
    BY <2>1, Sizes, SizesAssumption DEF Start, Address
  <2>2. CASE ~cleared
    <3>1. at = last
      BY <2>2 DEF Start
    <3>2. ~(last >= FlushAt)
      BY <2>2 DEF ClearsFirst
    <3>3. Size(pc) \in Nat /\ FlushAt + Size(pc) <= CodeSize
      BY Sizes
    <3>0. CodeSize \in Nat /\ FlushAt \in Nat /\ last \in Nat
      BY SizesAssumption
    <3>6. last < FlushAt
      BY <3>2, <3>0
    <3>4. last + 1 + Size(pc) <= CodeSize /\ last \in Nat /\ last < CodeSize
      BY <3>6, <3>3, <3>0
    <3>5. at \in Address /\ at + 1 + Size(pc) \in 0 .. CodeSize
      BY <3>1, <3>3, <3>4, SizesAssumption DEF Address
    <3> QED
      BY <2>2, <3>1, <3>5
  <2> QED
    BY <2>1, <2>2
<1>3. IsTable(from)
  BY EmptyTable
<1>4. /\ IsTable(u)
      /\ \A p \in DOMAIN u : (p = pc /\ u[p] = at) \/ (p \in DOMAIN from /\ u[p] = from[p])
  BY <1>1, <1>2, <1>3, AddedTypes
<1>5. \A p \in DOMAIN u : \/ p = pc /\ u[p] = at
                          \/ at = last /\ p \in DOMAIN t /\ u[p] = t[p]
  BY <1>2, <1>4, EmptyTable
<1>6. Emitted(pc, at) \in [Address -> Words]
  <2> SUFFICES ASSUME NEW a \in Address
               PROVE  (IF a \in at .. at + Size(pc)
                       THEN Translation(pc, a - at) ELSE mem[a]) \in Words
    BY DEF Emitted
  <2>1. CASE a \in at .. at + Size(pc)
    <3>1. Guarded(pc) \in BOOLEAN /\ ram[pc] \in 0 .. MaxVersion
      BY Zenon DEF TypeOK, Guarded
    <3>2. CASE a = at
      BY <1>2, <2>1, <3>1, <3>2 DEF Words, Translation, Address
    <3>3. CASE a # at
      <4>1. a - at \in 1 .. Size(pc) /\ a - at # 0
        BY <1>2, <2>1, <3>3, Sizes DEF Address
      <4>2. Shape[pc][a - at] \in Words
        BY <4>1, Sizes DEF Words
      <4> QED
        BY <2>1, <4>1, <4>2 DEF Translation
    <3> QED
      BY <3>2, <3>3
  <2>2. CASE a \notin at .. at + Size(pc)
    BY <2>2 DEF TypeOK
  <2> QED
    BY <2>1, <2>2
<1>7. cleared \in BOOLEAN
  BY DEF ClearsFirst
<1> HIDE DEF at, cleared, from
<1> QED
  BY <1>1, <1>2, <1>4, <1>5, <1>6, <1>7

\* What rdv_FindOrCompile leaves.
LEMMA Found ==
  ASSUME TypeOK, NEW pc \in Pc, NEW c \in FindOrCompile(pc)
  PROVE  /\ c.at \in Address /\ c.last \in 0 .. CodeSize
         /\ c.mem \in [Address -> Words] /\ IsTable(c.map) /\ c.cleared \in BOOLEAN
<1>1. IsTable(map) /\ LastAddr \in 0 .. CodeSize /\ mem \in [Address -> Words]
  BY DEF TypeOK, IsTable
<1>2. CASE pc \in DOMAIN map
  <2>1. c = [mem |-> mem, last |-> LastAddr, map |-> map, at |-> map[pc], cleared |-> FALSE]
    BY <1>2 DEF FindOrCompile
  <2>2. c.cleared \in BOOLEAN
    BY <2>1, Zenon
  <2> QED
    BY <1>1, <1>2, <2>1, <2>2 DEF IsTable
<1>3. CASE pc \notin DOMAIN map
  <2>1. c \in CompilePC(pc, map, LastAddr)
    BY <1>3 DEF FindOrCompile
  <2> QED
    BY <1>1, <2>1, Compiled
<1> QED
  BY <1>2, <1>3

\* Running a block in such a cache keeps the types.
LEMMA RunInTypes ==
  ASSUME TypeOK, NEW pc \in Pc, NEW c, NEW m \in [Address -> Words],
         c.at \in Address, c.last \in 0 .. CodeSize, IsTable(c.map), c.cleared \in BOOLEAN,
         RunIn(c, m, pc), UNCHANGED <<preset, ram>>, failed' \subseteq Pc
  PROVE  TypeOK'
  BY DEF TypeOK, RunIn, IsTable, At

LEMMA TypeInitially == Init => TypeOK
<1> SUFFICES ASSUME Init PROVE TypeOK
  OBVIOUS
<1>1. mem \in [Address -> Words]
  BY DEF Init, Words, Unpatched
<1>2. exec \in [kind : {"lookup", "entry", "body"}, pc : Pc, at : Address]
  BY Sizes DEF Init, Lookup
<1>3. ram \in [Pc -> 0 .. MaxVersion]
  BY SizesAssumption DEF Init
<1>4. DOMAIN map \subseteq Pc /\ \A p \in DOMAIN map : map[p] \in Address
  BY EmptyTable DEF Init, IsTable
<1>5. old \in BOOLEAN
  BY Zenon DEF Init
<1> QED
  BY <1>1, <1>2, <1>3, <1>4, <1>5, SizesAssumption DEF Init, TypeOK

LEMMA TypeStep == TypeOK /\ [Next]_vars => TypeOK'
<1> SUFFICES ASSUME TypeOK, [Next]_vars PROVE TypeOK'
  OBVIOUS
<1>1. CASE GetCode
  <2>1. exec.pc \in Pc
    BY DEF TypeOK
  <2>2. PICK c \in FindOrCompile(exec.pc) : RunIn(c, c.mem, exec.pc)
    BY <1>1 DEF GetCode
  <2>3. UNCHANGED <<preset, ram>> /\ failed' \subseteq Pc
    BY <1>1 DEF GetCode, TypeOK
  <2> QED
    BY <2>1, <2>2, <2>3, Found, RunInTypes
<1>2. CASE Enter
  <2>1. mem[exec.at] \in Words /\ mem[exec.at].op = "entry" /\ exec.at \in Address
    BY <1>2 DEF TypeOK, Enter
  <2>2. mem[exec.at].pc \in Pc
    BY <2>1, WordCases
  <2> QED
    BY <1>2, <2>1, <2>2 DEF TypeOK, Enter, Inside, history
<1>3. CASE BlockCheckFail
  <2>1. mem[exec.at] \in Words /\ mem[exec.at].op = "entry"
    BY <1>3 DEF TypeOK, BlockCheckFail
  <2>2. mem[exec.at].pc \in Pc
    BY <2>1, WordCases
  <2> DEFINE pc == mem[exec.at].pc
  <2>3. PICK c \in CompilePC(pc, NoBlocks, 0) :
          RunIn([c EXCEPT !.cleared = TRUE], c.mem, pc)
    BY <1>3 DEF BlockCheckFail
  <2>4. UNCHANGED <<preset, ram>> /\ failed' \subseteq Pc
    BY <1>3, <2>2 DEF BlockCheckFail, TypeOK
  <2>5. 0 \in 0 .. CodeSize
    BY SizesAssumption
  <2>6. /\ c.at \in Address /\ c.last \in 0 .. CodeSize
        /\ c.mem \in [Address -> Words] /\ IsTable(c.map)
    BY <2>2, <2>3, <2>5, Compiled, EmptyTable
  <2>7. old' \in BOOLEAN
    BY <2>3, Zenon DEF RunIn
  <2>8. mem' = c.mem /\ LastAddr' = c.last /\ map' = c.map /\ limit' = c.last
    BY <2>3 DEF RunIn
  <2>9. exec' = At(pc, c.at) /\ dirty' \subseteq Pc
    BY <2>3 DEF RunIn, TypeOK
  <2> QED
    BY <2>2, <2>4, <2>6, <2>7, <2>8, <2>9 DEF TypeOK, IsTable, At
<1>4. CASE Timeslice
  BY <1>4, Sizes DEF TypeOK, Timeslice, Lookup, history
<1>5. ASSUME NEW pc \in Pc, Rewrite(pc)
      PROVE  TypeOK'
  <2>1. ram' \in [Pc -> 0 .. MaxVersion]
    BY <1>5, SizesAssumption DEF TypeOK, Rewrite
  <2> QED
    BY <1>5, <2>1 DEF TypeOK, Rewrite
<1>6. ASSUME NEW pc \in Pc, Reset(pc)
      PROVE  TypeOK'
  <2>1. DOMAIN map' \subseteq Pc /\ \A p \in DOMAIN map' : map'[p] \in Address
    BY <1>6, EmptyTable DEF Reset, IsTable
  <2>2. old' \in BOOLEAN
    BY <1>6, Zenon DEF Reset
  <2> QED
    BY <1>6, <2>1, <2>2, Sizes, SizesAssumption DEF TypeOK, Reset, Lookup
<1>7. CASE Invalidate
  <2>1. DOMAIN map' \subseteq Pc /\ \A p \in DOMAIN map' : map'[p] \in Address
    BY <1>7, EmptyTable DEF Invalidate, IsTable, TypeOK
  <2>2. old' \in BOOLEAN
    BY <1>7, Zenon DEF TypeOK, Invalidate
  <2>3. LastAddr' \in 0 .. CodeSize
    BY <1>7, SizesAssumption DEF TypeOK, Invalidate
  <2> QED
    BY <1>7, <2>1, <2>2, <2>3 DEF TypeOK, Invalidate
<1>8. ASSUME NEW site \in Address, NEW pc \in Pc, Exit(site, pc)
      PROVE  TypeOK'
  <2> DEFINE w == mem[site]
  <2>1. w \in Words
    BY DEF TypeOK
  <2>2. UNCHANGED <<preset, ram>> /\ failed' \subseteq Pc
    BY <1>8 DEF Exit, TypeOK
  <2>3. ASSUME w.op = "link", LinkBlock_Static(site, pc)
        PROVE  TypeOK'
    <3>1. w.pc \in Pc
      BY <2>1, <2>3, LinkNames
    <3>2. PICK c \in FindOrCompile(w.pc) :
            RunIn(c, IF StillWants(c.mem, site, Link(w.pc)) \/ ~preset.link_guard
                     THEN [c.mem EXCEPT ![site] = Jump(w.pc, c.at)] ELSE c.mem, pc)
      BY <2>3 DEF LinkBlock_Static
    <3>3. /\ c.at \in Address /\ c.last \in 0 .. CodeSize
          /\ c.mem \in [Address -> Words] /\ IsTable(c.map) /\ c.cleared \in BOOLEAN
      BY <3>1, <3>2, Found
    <3>4. Jump(w.pc, c.at) \in Words
      BY <3>1, <3>3 DEF Words
    <3> QED
      BY <2>2, <3>2, <3>3, <3>4, RunInTypes
  <2>4. ASSUME w.op = "ic", LinkBlock_Dynamic_IC(site, pc)
        PROVE  TypeOK'
    <3>2. PICK c \in FindOrCompile(pc) :
            RunIn(c, IF StillWants(c.mem, site, Ic)
                     THEN [c.mem EXCEPT ![site] = IcJump(pc, c.at)] ELSE c.mem, pc)
      BY <2>4 DEF LinkBlock_Dynamic_IC
    <3>3. /\ c.at \in Address /\ c.last \in 0 .. CodeSize
          /\ c.mem \in [Address -> Words] /\ IsTable(c.map) /\ c.cleared \in BOOLEAN
      BY <3>2, Found
    <3>4. IcJump(pc, c.at) \in Words
      BY <3>3 DEF Words
    <3> QED
      BY <2>2, <3>2, <3>3, <3>4, RunInTypes
  <2>5. ASSUME w.op \in {"jump", "icjump"}, Goto(At(pc, w.at))
        PROVE  TypeOK'
    <3>1. w.at \in Address
      BY <2>1, <2>5, WordCases
    <3> QED
      BY <2>2, <2>5, <3>1 DEF TypeOK, Goto, At
  <2>6. ASSUME Goto(Lookup(pc))
        PROVE  TypeOK'
    BY <2>2, <2>6, Sizes DEF TypeOK, Goto, Lookup
  <2> QED
    BY <1>8, <2>3, <2>4, <2>5, <2>6 DEF Exit
<1>9. CASE UNCHANGED vars
  BY <1>9 DEF vars, history, TypeOK
<1> QED
  BY <1>1, <1>2, <1>3, <1>4, <1>5, <1>6, <1>7, <1>8, <1>9 DEF Next

\* Every variable keeps its type: the cache never fills past its end.
THEOREM TypeCorrect == Spec => []TypeOK
  BY TypeInitially, TypeStep, PTL DEF Spec

LEMMA PresetStays == [Next]_vars => preset' = preset
  BY DEF Next, vars, GetCode, Enter, BlockCheckFail, Timeslice, Rewrite, Reset,
         Invalidate, Exit

-----------------------------------------------------------------------------
(* The code cache: blocks in it                                            *)

\* A word may have become w from s: an exit linked to where it always led.
WordFor(w, s) ==
  \/ w = s
  \/ s.op = "link" /\ w.op = "jump" /\ w.pc = s.pc
  \/ s = Ic /\ w.op = "icjump"

\* The words of a translation of pc are at "at", before "lim".
Holds(m, at, pc, lim) ==
  /\ at \in Nat /\ at + Size(pc) < lim
  /\ m[at].op = "entry" /\ m[at].pc = pc
  /\ \A i \in 1 .. Size(pc) : WordFor(m[at + i], Shape[pc][i])

\* Every entry before "lim" begins a whole block, every linked exit leads to
\* one.
Sound(m, lim) ==
  \A a \in Address : a < lim =>
    /\ m[a].op = "entry" => Holds(m, a, m[a].pc, lim)
    /\ m[a].op \in {"jump", "icjump"} => Holds(m, m[a].at, m[a].pc, lim)

\* Compiling after the blocks there are, or at the start, leaves them whole.
LEMMA EmittedSound ==
  ASSUME TypeOK, NEW pc \in Pc, NEW at \in Address,
         at + 1 + Size(pc) <= CodeSize, Sound(mem, at)
  PROVE  LET m == Emitted(pc, at)
             lim == at + 1 + Size(pc)
         IN /\ Sound(m, lim)
            /\ Holds(m, at, pc, lim)
            /\ \A p \in Pc, x \in Nat : Holds(mem, x, p, at) => Holds(m, x, p, lim)
<1> DEFINE m == Emitted(pc, at)
           lim == at + 1 + Size(pc)
<1>0. Size(pc) \in Nat /\ at \in Nat /\ lim \in Nat /\ CodeSize \in Nat
  BY Sizes, SizesAssumption DEF Address
<1>1. \A a \in Address : a < at => m[a] = mem[a]
  BY <1>0 DEF Emitted, Address
<1>2. m[at] = Entry(pc, ram[pc], Guarded(pc))
  BY <1>0 DEF Emitted, Translation
<1>3. \A i \in 1 .. Size(pc) : at + i \in Address /\ m[at + i] = Shape[pc][i]
  <2> SUFFICES ASSUME NEW i \in 1 .. Size(pc)
               PROVE  at + i \in Address /\ m[at + i] = Shape[pc][i]
    OBVIOUS
  <2>1. at + i \in Address /\ at + i \in at .. at + Size(pc) /\ (at + i) - at = i /\ i # 0
    BY <1>0 DEF Address
  <2>2. m[at + i] = Translation(pc, (at + i) - at)
    BY <2>1 DEF Emitted
  <2> QED
    BY <2>1, <2>2 DEF Translation
<1>4. Holds(m, at, pc, lim)
  <2>1. m[at].op = "entry" /\ m[at].pc = pc
    BY <1>2
  <2> HIDE DEF m
  <2> QED
    BY <1>0, <1>3, <2>1 DEF Holds, WordFor
<1>5. \A p \in Pc, x \in Nat : Holds(mem, x, p, at) => Holds(m, x, p, lim)
  <2> SUFFICES ASSUME NEW p \in Pc, NEW x \in Nat, Holds(mem, x, p, at)
               PROVE  Holds(m, x, p, lim)
    OBVIOUS
  <2>1. Size(p) \in Nat /\ x + Size(p) < at
    BY Sizes DEF Holds
  <2>2. \A i \in 0 .. Size(p) : m[x + i] = mem[x + i]
    BY <1>0, <1>1, <2>1 DEF Address
  <2>3. m[x] = mem[x]
    <3>1. x + 0 = x /\ 0 \in 0 .. Size(p)
      BY <2>1
    <3> QED
      BY <2>2, <3>1
  <2> HIDE DEF m
  <2> QED
    BY <1>0, <2>1, <2>2, <2>3 DEF Holds
<1>6. Sound(m, lim)
  <2> HIDE DEF m
  <2> SUFFICES ASSUME NEW a \in Address, a < lim
               PROVE  /\ m[a].op = "entry" => Holds(m, a, m[a].pc, lim)
                      /\ m[a].op \in {"jump", "icjump"} => Holds(m, m[a].at, m[a].pc, lim)
    BY DEF Sound
  <2>1. CASE a < at
    <3>1. mem[a] \in Words /\ m[a] = mem[a] /\ a \in Nat
      BY <1>1, <2>1 DEF TypeOK, Address
    <3>2. /\ mem[a].op = "entry" => Holds(mem, a, mem[a].pc, at)
          /\ mem[a].op \in {"jump", "icjump"} => Holds(mem, mem[a].at, mem[a].pc, at)
      BY <2>1 DEF Sound
    <3>3. CASE m[a].op = "entry"
      <4>1. mem[a].pc \in Pc
        BY <3>1, <3>3, WordCases
      <4> QED
        BY <1>5, <3>1, <3>2, <3>3, <4>1
    <3>4. CASE m[a].op \in {"jump", "icjump"}
      <4>1. mem[a].pc \in Pc /\ mem[a].at \in Nat
        BY <3>1, <3>4, WordCases DEF Address
      <4> QED
        BY <1>5, <3>1, <3>2, <3>4, <4>1
    <3> QED
      BY <3>3, <3>4
  <2>2. CASE a = at
    BY <1>2, <1>4, <2>2 DEF m
  <2>3. CASE a > at
    <3>1. a - at \in 1 .. Size(pc) /\ at + (a - at) = a
      BY <1>0, <2>3 DEF Address
    <3>2. m[a] = Shape[pc][a - at]
      BY <1>3, <3>1
    <3>3. m[a].op \in {"body", "ic", "ret", "link"}
      BY <3>1, <3>2, Sizes DEF Unpatched
    <3> QED
      BY <3>3
  <2> QED
    BY <1>0, <2>1, <2>2, <2>3 DEF Address
<1> QED
  BY <1>4, <1>5, <1>6

\* Linking an exit that still asks for it leaves every block whole.
LEMMA PatchedSound ==
  ASSUME NEW m \in [Address -> Words], NEW lim \in 0 .. CodeSize, NEW site \in Address,
         NEW pc \in Pc, NEW at \in Address, NEW w,
         \/ m[site] = Link(pc) /\ w = Jump(pc, at)
         \/ m[site] = Ic /\ w = IcJump(pc, at),
         Sound(m, lim), Holds(m, at, pc, lim)
  PROVE  LET n == [m EXCEPT ![site] = w]
         IN /\ Sound(n, lim)
            /\ \A p \in Pc, x \in Nat : Holds(m, x, p, lim) => Holds(n, x, p, lim)
<1> DEFINE n == [m EXCEPT ![site] = w]
<1>0. CodeSize \in Nat /\ at \in Nat
  BY SizesAssumption DEF Address
<1>1. m[site].op \in {"link", "ic"} /\ n[site] = w /\ w.pc = pc /\ w.at = at
  OBVIOUS
<1>2. \A a \in Address : a # site => n[a] = m[a]
  OBVIOUS
<1>3. w.op \in {"jump", "icjump"}
  OBVIOUS
<1>4. \A s \in Unpatched : WordFor(m[site], s) => WordFor(w, s)
  BY DEF WordFor, Unpatched
<1> HIDE DEF n
<1>5. \A p \in Pc, x \in Nat : Holds(m, x, p, lim) => Holds(n, x, p, lim)
  <2> SUFFICES ASSUME NEW p \in Pc, NEW x \in Nat, Holds(m, x, p, lim)
               PROVE  Holds(n, x, p, lim)
    OBVIOUS
  <2>1. Size(p) \in Nat /\ x + Size(p) < lim
    BY Sizes DEF Holds
  <2>2. n[x] = m[x]
    <3>1. x # site
      BY <1>1 DEF Holds
    <3>2. x \in Address
      BY <1>0, <2>1 DEF Address
    <3> QED
      BY <1>2, <3>1, <3>2
  <2>3. ASSUME NEW i \in 1 .. Size(p)
        PROVE  WordFor(n[x + i], Shape[p][i])
    <3>1. WordFor(m[x + i], Shape[p][i])
      BY DEF Holds
    <3>2. Shape[p][i] \in Unpatched /\ x + i \in Address
      BY <1>0, <2>1, Sizes DEF Address
    <3>3. CASE x + i = site
      BY <1>1, <1>4, <3>1, <3>2, <3>3
    <3>4. CASE x + i # site
      BY <1>2, <3>1, <3>2, <3>4
    <3> QED
      BY <3>3, <3>4
  <2> QED
    BY <2>2, <2>3 DEF Holds
<1>6. Sound(n, lim)
  <2> SUFFICES ASSUME NEW a \in Address, a < lim
               PROVE  /\ n[a].op = "entry" => Holds(n, a, n[a].pc, lim)
                      /\ n[a].op \in {"jump", "icjump"} => Holds(n, n[a].at, n[a].pc, lim)
    BY DEF Sound
  <2>1. CASE a = site
    BY <1>0, <1>1, <1>3, <1>5, <2>1
  <2>2. CASE a # site
    <3>1. n[a] = m[a] /\ m[a] \in Words /\ a \in Nat
      BY <1>2, <2>2 DEF Address
    <3>2. /\ m[a].op = "entry" => Holds(m, a, m[a].pc, lim)
          /\ m[a].op \in {"jump", "icjump"} => Holds(m, m[a].at, m[a].pc, lim)
      BY DEF Sound
    <3>3. CASE n[a].op = "entry"
      <4>1. m[a].pc \in Pc
        BY <3>1, <3>3, WordCases
      <4> QED
        BY <1>5, <3>1, <3>2, <3>3, <4>1
    <3>4. CASE n[a].op \in {"jump", "icjump"}
      <4>1. m[a].pc \in Pc /\ m[a].at \in Nat
        BY <3>1, <3>4, WordCases DEF Address
      <4> QED
        BY <1>5, <3>1, <3>2, <3>4, <4>1
    <3> QED
      BY <3>3, <3>4
  <2> QED
    BY <2>1, <2>2
<1> QED
  BY <1>5, <1>6 DEF n

-----------------------------------------------------------------------------
(* The code cache: the invariant behind its links                          *)

\* After a clear under the running block nothing of the cache counts but what
\* that block may still reach; otherwise that is all of the cache.
Reach == IF old THEN LastAddr = 0 /\ map = NoBlocks ELSE limit = LastAddr

Tabled == \A p \in DOMAIN map : Holds(mem, map[p], p, limit)

Running == exec.kind \in {"entry", "body"} => Holds(mem, exec.at, exec.pc, limit)

Whole == Reach /\ Tabled /\ Sound(mem, limit) /\ Running

IInv == TypeOK /\ (preset.link_guard => Whole)

\* What the lemmas below say of a cache c about to run the block of pc.
Ready(c, pc) ==
  /\ c.at \in Address /\ c.last \in 0 .. CodeSize
  /\ c.mem \in [Address -> Words]
  /\ Sound(c.mem, c.last) /\ Holds(c.mem, c.at, pc, c.last)
  /\ IsTable(c.map)
  /\ \A p \in DOMAIN c.map : Holds(c.mem, c.map[p], p, c.last)

LEMMA NothingSound == \A m : Sound(m, 0)
  BY DEF Sound, Address

\* A compilation at the start, or after the blocks there are.
LEMMA CompiledReady ==
  ASSUME TypeOK, NEW pc \in Pc, NEW t, IsTable(t), NEW last \in 0 .. CodeSize,
         NEW c \in CompilePC(pc, t, last), Sound(mem, last),
         \A p \in DOMAIN t : Holds(mem, t[p], p, last)
  PROVE  Ready(c, pc)
<1>1. /\ c.at \in Address
      /\ c.at = 0 \/ c.at = last
      /\ c.last = c.at + 1 + Size(pc) /\ c.last \in 0 .. CodeSize
      /\ c.mem = Emitted(pc, c.at) /\ c.mem \in [Address -> Words]
      /\ IsTable(c.map)
      /\ \A p \in DOMAIN c.map : \/ p = pc /\ c.map[p] = c.at
                                 \/ c.at = last /\ p \in DOMAIN t /\ c.map[p] = t[p]
  BY Compiled
<1>2. Sound(mem, c.at)
  BY <1>1, NothingSound
<1>3. c.at + 1 + Size(pc) <= CodeSize
  BY <1>1, SizesAssumption
<1>4. /\ Sound(c.mem, c.last)
      /\ Holds(c.mem, c.at, pc, c.last)
      /\ \A p \in Pc, x \in Nat : Holds(mem, x, p, c.at) => Holds(c.mem, x, p, c.last)
  BY <1>1, <1>2, <1>3, EmittedSound
<1>5. ASSUME NEW p \in DOMAIN c.map
      PROVE  Holds(c.mem, c.map[p], p, c.last)
  <2>1. CASE p = pc /\ c.map[p] = c.at
    BY <1>4, <2>1
  <2>2. CASE c.at = last /\ p \in DOMAIN t /\ c.map[p] = t[p]
    <3>1. p \in Pc /\ t[p] \in Nat
      BY <2>2 DEF IsTable, Address
    <3>2. Holds(mem, t[p], p, c.at)
      BY <2>2
    <3> QED
      BY <1>4, <2>2, <3>1, <3>2
  <2> QED
    BY <1>1, <2>1, <2>2
<1> QED
  BY <1>1, <1>4, <1>5 DEF Ready

LEMMA FoundReady ==
  ASSUME TypeOK, Whole, NEW pc \in Pc, NEW c \in FindOrCompile(pc)
  PROVE  Ready(c, pc)
<1>1. IsTable(map) /\ LastAddr \in 0 .. CodeSize /\ mem \in [Address -> Words]
  BY DEF TypeOK, IsTable
<1>2. Sound(mem, LastAddr) /\ \A p \in DOMAIN map : Holds(mem, map[p], p, LastAddr)
  <2>1. CASE old
    BY <2>1, NothingSound, EmptyTable DEF Whole, Reach
  <2>2. CASE ~old
    BY <2>2 DEF Whole, Reach, Tabled
  <2> QED
    BY <2>1, <2>2
<1>3. CASE pc \in DOMAIN map
  <2>1. c = [mem |-> mem, last |-> LastAddr, map |-> map, at |-> map[pc], cleared |-> FALSE]
    BY <1>3 DEF FindOrCompile
  <2>2. c.mem = mem /\ c.last = LastAddr /\ c.map = map /\ c.at = map[pc]
    BY <2>1
  <2>3. map[pc] \in Address
    BY <1>1, <1>3 DEF IsTable
  <2> QED
    BY <1>1, <1>2, <1>3, <2>2, <2>3 DEF Ready
<1>4. CASE pc \notin DOMAIN map
  <2>1. c \in CompilePC(pc, map, LastAddr)
    BY <1>4 DEF FindOrCompile
  <2> QED
    BY <1>1, <1>2, <2>1, CompiledReady
<1> QED
  BY <1>3, <1>4

\* Linking the exit that asked, in a cache that is ready.
LEMMA LinkedReady ==
  ASSUME NEW c, NEW pc \in Pc, Ready(c, pc), NEW site \in Address, NEW w,
         \/ c.mem[site] = Link(pc) /\ w = Jump(pc, c.at)
         \/ c.mem[site] = Ic /\ w = IcJump(pc, c.at),
         NEW n, n = [c.mem EXCEPT ![site] = w]
  PROVE  /\ Sound(n, c.last) /\ Holds(n, c.at, pc, c.last)
         /\ \A p \in DOMAIN c.map : Holds(n, c.map[p], p, c.last)
<1>1. /\ Sound(n, c.last)
      /\ \A p \in Pc, x \in Nat : Holds(c.mem, x, p, c.last) => Holds(n, x, p, c.last)
  BY PatchedSound DEF Ready
<1> QED
  BY <1>1 DEF Ready, IsTable, Address

\* Running the block of pc in a sound cache.
LEMMA RunInWhole ==
  ASSUME NEW pc \in Pc, NEW c, NEW m, RunIn(c, m, pc),
         Sound(m, c.last), Holds(m, c.at, pc, c.last),
         \A p \in DOMAIN c.map : Holds(m, c.map[p], p, c.last)
  PROVE  Whole'
<1>1. /\ mem' = m /\ LastAddr' = c.last /\ map' = c.map /\ limit' = c.last
      /\ exec' = At(pc, c.at)
  BY DEF RunIn
<1>2. ~old'
  BY Zenon DEF RunIn
<1>3. Reach'
  BY <1>1, <1>2 DEF Reach
<1>4. Tabled'
  BY <1>1 DEF Tabled
<1>5. Running'
  BY <1>1 DEF Running, At
<1> QED
  BY <1>1, <1>3, <1>4, <1>5 DEF Whole

LEMMA InitWhole == Init => Whole
<1> SUFFICES ASSUME Init PROVE Whole
  OBVIOUS
<1>1. ~old
  BY Zenon DEF Init
<1>2. limit = 0 /\ LastAddr = 0 /\ map = NoBlocks /\ exec.kind = "lookup"
  BY DEF Init, Lookup
<1> QED
  BY <1>1, <1>2, NothingSound, EmptyTable DEF Whole, Reach, Tabled, Running

\* The words an exit's site may hold, in a whole block.
LEMMA SiteWord ==
  ASSUME TypeOK, Whole, NEW site \in Address, NEW pc \in Pc, Exit(site, pc)
  PROVE  /\ site < limit
         /\ mem[site].op \in {"link", "jump"} => mem[site].pc = pc
<1>1. /\ exec.kind = "body" /\ site \in exec.at + 1 .. exec.at + Size(exec.pc)
      /\ pc \in Targets(site)
  BY DEF Exit
<1>2. Holds(mem, exec.at, exec.pc, limit)
  BY <1>1 DEF Whole, Running
<1>3. exec.at \in Nat /\ exec.pc \in Pc /\ Size(exec.pc) \in Nat /\ limit \in Nat
  BY Sizes, SizesAssumption DEF TypeOK, Address
<1> DEFINE i == site - exec.at
           s == Shape[exec.pc][i]
<1>4. i \in 1 .. Size(exec.pc) /\ exec.at + i = site /\ site < limit
  BY <1>1, <1>2, <1>3 DEF Holds, Address
<1>5. WordFor(mem[site], s) /\ s \in Unpatched
  BY <1>2, <1>3, <1>4, Sizes DEF Holds
<1>6. IF s.op = "link" THEN pc = s.pc ELSE TRUE
  BY <1>1 DEF Targets
<1> HIDE DEF s, i
<1>7. ASSUME mem[site].op \in {"link", "jump"}
      PROVE  mem[site].pc = pc
  BY <1>5, <1>6, <1>7 DEF WordFor, Unpatched
<1> QED
  BY <1>4, <1>7

LEMMA NextWhole ==
  ASSUME TypeOK, Whole, preset.link_guard, [Next]_vars
  PROVE  Whole'
<1>1. CASE GetCode
  <2>1. PICK c \in FindOrCompile(exec.pc) : RunIn(c, c.mem, exec.pc)
    BY <1>1 DEF GetCode
  <2>2. exec.pc \in Pc
    BY DEF TypeOK
  <2>3. Ready(c, exec.pc)
    BY <2>1, <2>2, FoundReady
  <2> QED
    BY <2>1, <2>2, <2>3, RunInWhole DEF Ready
<1>2. CASE Enter
  <2>1. UNCHANGED <<mem, LastAddr, map, old, limit>>
    BY <1>2 DEF Enter, history
  <2>2. exec' = Inside(mem[exec.at].pc, exec.at) /\ exec.kind = "entry"
    BY <1>2 DEF Enter
  <2>3. Running'
    BY <2>1, <2>2 DEF Whole, Running, Inside, Holds
  <2> QED
    BY <2>1, <2>3 DEF Whole, Reach, Tabled
<1>3. CASE BlockCheckFail
  <2> DEFINE pc == mem[exec.at].pc
  <2>1. mem[exec.at] \in Words /\ mem[exec.at].op = "entry"
    BY <1>3 DEF TypeOK, BlockCheckFail
  <2>2. pc \in Pc
    BY <2>1, WordCases
  <2>3. PICK c \in CompilePC(pc, NoBlocks, 0) :
          RunIn([c EXCEPT !.cleared = TRUE], c.mem, pc)
    BY <1>3 DEF BlockCheckFail
  <2>4. 0 \in 0 .. CodeSize
    BY SizesAssumption
  <2>5. Ready(c, pc)
    BY <2>2, <2>3, <2>4, CompiledReady, EmptyTable, NothingSound
  <2> DEFINE d == [c EXCEPT !.cleared = TRUE]
  <2>6. d.at = c.at /\ d.last = c.last /\ d.map = c.map
    BY <2>3 DEF CompilePC
  <2>7. RunIn(d, c.mem, pc)
    BY <2>3
  <2> HIDE DEF d, pc
  <2> QED
    BY <2>2, <2>5, <2>6, <2>7, RunInWhole DEF Ready
<1>4. CASE Timeslice
  <2>1. UNCHANGED <<mem, LastAddr, map, old, limit>> /\ exec'.kind = "lookup"
    BY <1>4 DEF Timeslice, history, Lookup
  <2> QED
    BY <2>1 DEF Whole, Reach, Tabled, Running
<1>5. ASSUME NEW pc \in Pc, Rewrite(pc)
      PROVE  Whole'
  <2>1. UNCHANGED <<mem, LastAddr, map, old, limit, exec>>
    BY <1>5 DEF Rewrite
  <2> QED
    BY <2>1 DEF Whole, Reach, Tabled, Running
<1>6. ASSUME NEW pc \in Pc, Reset(pc)
      PROVE  Whole'
  <2>1. LastAddr' = 0 /\ limit' = 0 /\ map' = NoBlocks /\ exec'.kind = "lookup"
    BY <1>6 DEF Reset, Lookup
  <2>2. ~old'
    BY <1>6, Zenon DEF Reset
  <2> QED
    BY <2>1, <2>2, NothingSound, EmptyTable DEF Whole, Reach, Tabled, Running
<1>7. CASE Invalidate
  <2>1. UNCHANGED <<mem, exec, limit>>
    BY <1>7 DEF Invalidate
  <2>2. CASE LastAddr' = 0 /\ map' = NoBlocks /\ old' = TRUE
    <3>1. old'
      BY <2>2, Zenon
    <3> QED
      BY <2>1, <2>2, <3>1, EmptyTable DEF Whole, Reach, Tabled, Running
  <2>3. CASE UNCHANGED <<LastAddr, map, old>>
    BY <2>1, <2>3 DEF Whole, Reach, Tabled, Running
  <2> QED
    BY <1>7, <2>2, <2>3 DEF Invalidate
<1>8. ASSUME NEW site \in Address, NEW pc \in Pc, Exit(site, pc)
      PROVE  Whole'
  <2> DEFINE w == mem[site]
  <2>1. /\ site < limit /\ w \in Words
        /\ w.op \in {"link", "jump"} => w.pc = pc
    BY <1>8, SiteWord DEF TypeOK
  <2>2. ASSUME w.op = "link", LinkBlock_Static(site, pc)
        PROVE  Whole'
    <3>1. w.pc = pc
      BY <2>1, <2>2
    <3>2. PICK c \in FindOrCompile(pc) :
            RunIn(c, IF StillWants(c.mem, site, Link(pc)) \/ ~preset.link_guard
                     THEN [c.mem EXCEPT ![site] = Jump(pc, c.at)] ELSE c.mem, pc)
      BY <2>2, <3>1 DEF LinkBlock_Static
    <3>3. Ready(c, pc)
      BY <3>2, FoundReady
    <3>4. CASE c.mem[site] = Link(pc)
      <4> DEFINE n == [c.mem EXCEPT ![site] = Jump(pc, c.at)]
      <4>1. RunIn(c, n, pc)
        BY <3>2, <3>4 DEF StillWants
      <4> HIDE DEF n
      <4>2. /\ Sound(n, c.last) /\ Holds(n, c.at, pc, c.last)
            /\ \A p \in DOMAIN c.map : Holds(n, c.map[p], p, c.last)
        BY <3>3, <3>4, LinkedReady DEF n
      <4> QED
        BY <4>1, <4>2, RunInWhole
    <3>5. CASE c.mem[site] # Link(pc)
      <4>1. RunIn(c, c.mem, pc)
        BY <3>2, <3>5 DEF StillWants
      <4> QED
        BY <3>3, <4>1, RunInWhole DEF Ready
    <3> QED
      BY <3>4, <3>5
  <2>3. ASSUME w.op = "ic", LinkBlock_Dynamic_IC(site, pc)
        PROVE  Whole'
    <3>2. PICK c \in FindOrCompile(pc) :
            RunIn(c, IF StillWants(c.mem, site, Ic)
                     THEN [c.mem EXCEPT ![site] = IcJump(pc, c.at)] ELSE c.mem, pc)
      BY <2>3 DEF LinkBlock_Dynamic_IC
    <3>3. Ready(c, pc)
      BY <3>2, FoundReady
    <3>4. CASE c.mem[site] = Ic
      <4> DEFINE n == [c.mem EXCEPT ![site] = IcJump(pc, c.at)]
      <4>1. RunIn(c, n, pc)
        BY <3>2, <3>4 DEF StillWants
      <4> HIDE DEF n
      <4>2. /\ Sound(n, c.last) /\ Holds(n, c.at, pc, c.last)
            /\ \A p \in DOMAIN c.map : Holds(n, c.map[p], p, c.last)
        BY <3>3, <3>4, LinkedReady DEF n
      <4> QED
        BY <4>1, <4>2, RunInWhole
    <3>5. CASE c.mem[site] # Ic
      <4>1. RunIn(c, c.mem, pc)
        BY <3>2, <3>5 DEF StillWants
      <4> QED
        BY <3>3, <4>1, RunInWhole DEF Ready
    <3> QED
      BY <3>4, <3>5
  <2>4. ASSUME w.op \in {"jump", "icjump"}, w.pc = pc, Goto(At(pc, w.at))
        PROVE  Whole'
    <3>1. Holds(mem, w.at, pc, limit)
      BY <2>1, <2>4 DEF Whole, Sound
    <3>2. UNCHANGED <<mem, LastAddr, map, old, limit>> /\ exec' = At(pc, w.at)
      BY <2>4 DEF Goto
    <3>3. Running'
      BY <3>1, <3>2 DEF Running, At
    <3> QED
      BY <3>2, <3>3 DEF Whole, Reach, Tabled
  <2>5. ASSUME Goto(Lookup(pc))
        PROVE  Whole'
    <3>1. UNCHANGED <<mem, LastAddr, map, old, limit>> /\ exec'.kind = "lookup"
      BY <2>5 DEF Goto, Lookup
    <3> QED
      BY <3>1 DEF Whole, Reach, Tabled, Running
  <2> QED
    BY <1>8, <2>1, <2>2, <2>3, <2>4, <2>5 DEF Exit
<1>9. CASE UNCHANGED vars
  BY <1>9 DEF vars, history, Whole, Reach, Tabled, Running
<1> QED
  BY <1>1, <1>2, <1>3, <1>4, <1>5, <1>6, <1>7, <1>8, <1>9 DEF Next

\* With the link guard on, whatever clears and compilations come between, what
\* runs is a whole translation of the address the guest went to.
THEOREM LinksLeadWhereAsked == Spec => []RunsWhatWasAsked
<1>1. Init => IInv
  BY InitWhole, TypeInitially DEF IInv
<1>2. IInv /\ [Next]_vars => IInv'
  <2> SUFFICES ASSUME IInv, [Next]_vars PROVE IInv'
    OBVIOUS
  <2>1. TypeOK'
    BY TypeStep DEF IInv
  <2>2. preset' = preset
    BY PresetStays
  <2>3. preset.link_guard => Whole'
    BY NextWhole DEF IInv
  <2> QED
    BY <2>1, <2>2, <2>3 DEF IInv
<1>3. IInv => RunsWhatWasAsked
  BY DEF IInv, Whole, Running, Holds, RunsWhatWasAsked
<1> QED
  BY <1>1, <1>2, <1>3, PTL DEF Spec

-----------------------------------------------------------------------------
(* The code cache: the age of blocks                                       *)

\* What is known of a translation the running code may reach: in the guarded
\* modes it is guarded if it can be rewritten; it is of the current version
\* unless a guard, a gamble, a missing invalidate or a clear accounts for it;
\* and its guard has not failed since it was compiled.
Aged(e) ==
  /\ Mode = 2 /\ e.pc \in InRam => e.guard
  /\ \/ e.ver = ram[e.pc] \/ e.pc \in dirty \/ old \/ Gamble
     \/ Mode = 2 /\ e.guard
  /\ e.pc \in failed => e.ver = ram[e.pc]

Entries(m, lim) == {a \in Address : a < lim /\ m[a].op = "entry"}

Ages ==
  /\ dirty \subseteq InRam
  /\ \A a \in Entries(mem, limit) : Aged(mem[a])

AInv == IInv /\ (preset.link_guard => Ages)

\* The entries of a cache about to run are the new block's and, when nothing
\* was cleared, those of before.
LEMMA CompiledEntries ==
  ASSUME TypeOK, NEW pc \in Pc, NEW t, IsTable(t), NEW last \in 0 .. CodeSize,
         NEW c \in CompilePC(pc, t, last), NEW a \in Entries(c.mem, c.last)
  PROVE  \/ c.mem[a] = Entry(pc, ram[pc], Guarded(pc))
         \/ a < last /\ c.mem[a] = mem[a] /\ ~c.cleared
<1> DEFINE at == Start(pc, last)
           cleared == ClearsFirst(pc, last)
           from == IF cleared THEN NoBlocks ELSE t
<1>1. PICK u \in Added(from, pc, at) :
        c = [mem |-> Emitted(pc, at), last |-> at + 1 + Size(pc), map |-> u,
             at |-> at, cleared |-> cleared]
  BY DEF CompilePC
<1>2. c.mem = Emitted(pc, c.at) /\ c.last = c.at + 1 + Size(pc) /\ c.at \in Address
  BY Compiled
<1>3. c.cleared = cleared /\ c.at = at
  BY <1>1
<1>4. a \in Address /\ a < c.last /\ c.mem[a].op = "entry"
  BY DEF Entries
<1>5. Size(pc) \in Nat
  BY Sizes
<1>6. CASE a < c.at
  <2>1. c.mem[a] = mem[a]
    BY <1>2, <1>4, <1>5, <1>6 DEF Emitted, Address
  <2>2. ~cleared
    BY <1>3, <1>4, <1>6 DEF Start, Address
  <2>3. c.at = last
    BY <1>3, <2>2 DEF Start
  <2>4. ~c.cleared
    BY <1>3, <2>2, Zenon
  <2> QED
    BY <1>6, <2>1, <2>3, <2>4
<1>7. CASE a = c.at
  <2>1. a \in c.at .. c.at + Size(pc) /\ a - c.at = 0
    BY <1>2, <1>5, <1>7 DEF Address
  <2>2. c.mem[a] = Translation(pc, 0)
    BY <1>2, <1>4, <2>1 DEF Emitted
  <2> QED
    BY <2>2 DEF Translation
<1>8. CASE a > c.at
  <2>1. a \in c.at .. c.at + Size(pc) /\ a - c.at \in 1 .. Size(pc) /\ a - c.at # 0
    BY <1>2, <1>4, <1>5, <1>8 DEF Address
  <2>2. c.mem[a] = Shape[pc][a - c.at]
    BY <1>2, <1>4, <2>1 DEF Emitted, Translation
  <2>3. Shape[pc][a - c.at] \in Unpatched
    BY <2>1, Sizes
  <2>4. \A s \in Unpatched : s.op # "entry"
    BY DEF Unpatched, Body, Ic, Ret, Link, Word
  <2> QED
    BY <1>4, <2>2, <2>3, <2>4
<1> QED
  BY <1>2, <1>4, <1>6, <1>7, <1>8 DEF Address

LEMMA FoundEntries ==
  ASSUME TypeOK, Reach, NEW pc \in Pc, NEW c \in FindOrCompile(pc),
         NEW a \in Entries(c.mem, c.last)
  PROVE  \/ c.mem[a] = Entry(pc, ram[pc], Guarded(pc))
         \/ a \in Entries(mem, limit) /\ c.mem[a] = mem[a] /\ ~c.cleared /\ ~old
<1>1. IsTable(map) /\ LastAddr \in 0 .. CodeSize
  BY DEF TypeOK, IsTable
<1>2. a \in Address /\ a < c.last /\ c.mem[a].op = "entry" /\ a \in Nat
  BY DEF Entries, Address
<1>3. CASE pc \in DOMAIN map
  <2>1. c = [mem |-> mem, last |-> LastAddr, map |-> map, at |-> map[pc], cleared |-> FALSE]
    BY <1>3 DEF FindOrCompile
  <2>2. c.mem = mem /\ c.last = LastAddr
    BY <2>1
  <2>3. ~c.cleared
    BY <2>1, Zenon
  <2>4. ~old /\ limit = LastAddr
    BY <1>3, EmptyTable DEF Reach
  <2> QED
    BY <1>2, <2>2, <2>3, <2>4 DEF Entries
<1>4. CASE pc \notin DOMAIN map
  <2>1. c \in CompilePC(pc, map, LastAddr)
    BY <1>4 DEF FindOrCompile
  <2>2. \/ c.mem[a] = Entry(pc, ram[pc], Guarded(pc))
        \/ a < LastAddr /\ c.mem[a] = mem[a] /\ ~c.cleared
    BY <1>1, <2>1, CompiledEntries
  <2>3. ASSUME a < LastAddr
        PROVE  ~old /\ a < limit
    BY <1>2, <2>3 DEF Reach
  <2> QED
    BY <1>2, <2>2, <2>3 DEF Entries
<1> QED
  BY <1>3, <1>4

\* Running a block in a cache whose entries are such keeps their ages.
LEMMA RunInAges ==
  ASSUME TypeOK, Ages, NEW pc \in Pc, NEW c, NEW m, NEW asked, RunIn(c, m, asked),
         UNCHANGED <<preset, ram>>,
         NEW new, new = Entry(pc, ram[pc], Guarded(pc)),
         \A a \in Entries(m, c.last) :
           \/ m[a] = new
           \/ a \in Entries(mem, limit) /\ m[a] = mem[a] /\ ~c.cleared /\ ~old /\ failed' = failed
  PROVE  Ages'
<1>1. mem' = m /\ limit' = c.last /\ dirty' = IF c.cleared THEN {} ELSE dirty
  BY DEF RunIn
<1>2. dirty' \subseteq InRam
  BY <1>1 DEF Ages
<1>3. new.pc = pc /\ new.ver = ram[pc]
  OBVIOUS
<1>4. Mode = 2 /\ pc \in InRam => new.guard
  BY Zenon DEF Guarded
<1>5. UNCHANGED Mode /\ UNCHANGED Gamble
  BY DEF Mode, Gamble
<1>6. ASSUME NEW a \in Entries(m, c.last)
      PROVE  Aged(m[a])'
  <2>1. CASE m[a] = new
    BY <1>1, <1>3, <1>4, <1>5, <2>1 DEF Aged
  <2>2. CASE a \in Entries(mem, limit) /\ m[a] = mem[a] /\ ~c.cleared /\ ~old /\ failed' = failed
    <3>1. Aged(mem[a])
      BY <2>2 DEF Ages
    <3>2. dirty' = dirty
      BY <1>1, <2>2
    <3> QED
      BY <1>1, <1>5, <2>2, <3>1, <3>2 DEF Aged
  <2> QED
    BY <1>6, <2>1, <2>2
<1> QED
  BY <1>1, <1>2, <1>6 DEF Ages, Entries

LEMMA FoundAges ==
  ASSUME TypeOK, Reach, Ages, NEW pc \in Pc, NEW c \in FindOrCompile(pc),
         NEW m, NEW asked, RunIn(c, m, asked), UNCHANGED <<preset, ram, failed>>,
         \A a \in Entries(m, c.last) : a \in Entries(c.mem, c.last) /\ m[a] = c.mem[a]
  PROVE  Ages'
<1> DEFINE new == Entry(pc, ram[pc], Guarded(pc))
<1>1. ASSUME NEW a \in Entries(m, c.last)
      PROVE  \/ m[a] = new
             \/ a \in Entries(mem, limit) /\ m[a] = mem[a] /\ ~c.cleared /\ ~old
  <2>1. a \in Entries(c.mem, c.last) /\ m[a] = c.mem[a]
    OBVIOUS
  <2>2. \/ c.mem[a] = new
        \/ a \in Entries(mem, limit) /\ c.mem[a] = mem[a] /\ ~c.cleared /\ ~old
    BY <2>1, FoundEntries
  <2> QED
    BY <2>1, <2>2
<1>2. \A a \in Entries(m, c.last) :
        \/ m[a] = new
        \/ a \in Entries(mem, limit) /\ m[a] = mem[a] /\ ~c.cleared /\ ~old /\ failed' = failed
  BY <1>1
<1> HIDE DEF new
<1>3. new = Entry(pc, ram[pc], Guarded(pc))
  BY Zenon DEF new
<1> QED
  BY <1>2, <1>3, RunInAges

\* Linking an exit makes no entry.
LEMMA PatchedEntries ==
  ASSUME NEW m \in [Address -> Words], NEW site \in Address, NEW w, w.op # "entry",
         NEW lim, NEW a \in Entries([m EXCEPT ![site] = w], lim)
  PROVE  a \in Entries(m, lim) /\ [m EXCEPT ![site] = w][a] = m[a]
<1>1. a \in Address
  BY DEF Entries
<1>2. a # site
  BY DEF Entries
<1> QED
  BY <1>1, <1>2 DEF Entries

LEMMA InitAges == Init => Ages
<1> SUFFICES ASSUME Init PROVE Ages
  OBVIOUS
<1>1. Entries(mem, limit) = {}
  BY DEF Init, Entries, Address
<1> QED
  BY <1>1 DEF Init, Ages

LEMMA NextAges ==
  ASSUME TypeOK, Whole, Ages, preset.link_guard, [Next]_vars
  PROVE  Ages'
<1>1. CASE GetCode
  <2>1. exec.pc \in Pc
    BY DEF TypeOK
  <2>2. PICK c \in FindOrCompile(exec.pc) : RunIn(c, c.mem, exec.pc)
    BY <1>1 DEF GetCode
  <2> QED
    BY <1>1, <2>1, <2>2, FoundAges DEF GetCode, Whole
<1>2. CASE BlockCheckFail
  <2> DEFINE pc == mem[exec.at].pc
             new == Entry(pc, ram[pc], Guarded(pc))
  <2>1. mem[exec.at] \in Words /\ mem[exec.at].op = "entry"
    BY <1>2 DEF TypeOK, BlockCheckFail
  <2>2. pc \in Pc
    BY <2>1, WordCases
  <2>3. PICK c \in CompilePC(pc, NoBlocks, 0) :
          RunIn([c EXCEPT !.cleared = TRUE], c.mem, pc)
    BY <1>2 DEF BlockCheckFail
  <2>4. UNCHANGED <<preset, ram>>
    BY <1>2 DEF BlockCheckFail
  <2> HIDE DEF pc
  <2>5. 0 \in 0 .. CodeSize
    BY SizesAssumption
  <2>6. ASSUME NEW a \in Entries(c.mem, c.last)
        PROVE  c.mem[a] = new
    <3>1. a \in Nat
      BY DEF Entries, Address
    <3> QED
      BY <2>2, <2>3, <2>5, <2>6, <3>1, CompiledEntries, EmptyTable
  <2> HIDE DEF new
  <2>7. new = Entry(pc, ram[pc], Guarded(pc))
    BY Zenon DEF new
  <2> DEFINE d == [c EXCEPT !.cleared = TRUE]
  <2>8. d.last = c.last
    BY <2>3 DEF CompilePC
  <2>9. RunIn(d, c.mem, pc)
    BY <2>3
  <2> HIDE DEF d
  <2> QED
    BY <2>2, <2>4, <2>6, <2>7, <2>8, <2>9, RunInAges
<1>3. CASE Enter \/ Timeslice
  BY <1>3 DEF Enter, Timeslice, history, Ages, Entries, Aged, Mode, Gamble
<1>4. ASSUME NEW pc \in Pc, Rewrite(pc)
      PROVE  Ages'
  <2>1. UNCHANGED <<preset, mem, old, limit>> /\ dirty' = dirty \cup {pc}
        /\ failed' = failed \ {pc} /\ pc \in InRam
    BY <1>4 DEF Rewrite
  <2>2. \A p \in Pc : p # pc => ram'[p] = ram[p]
    BY <1>4 DEF Rewrite, TypeOK
  <2>3. ASSUME NEW a \in Entries(mem, limit)
        PROVE  Aged(mem[a])'
    <3>1. Aged(mem[a])
      BY DEF Ages
    <3>2. mem[a].pc \in Pc
      BY WordCases DEF Entries, TypeOK
    <3> QED
      BY <2>1, <2>2, <3>1, <3>2 DEF Aged, Mode, Gamble
  <2> QED
    BY <2>1, <2>3 DEF Ages, Entries
<1>5. ASSUME NEW pc \in Pc, Reset(pc)
      PROVE  Ages'
  <2>1. dirty' = {} /\ limit' = 0
    BY <1>5 DEF Reset
  <2>2. Entries(mem, 0)' = {}
    BY DEF Entries, Address
  <2> QED
    BY <2>1, <2>2 DEF Ages, Entries, Address
<1>6. CASE Invalidate
  <2>1. UNCHANGED <<preset, ram, mem, limit, failed>> /\ dirty' = {}
    BY <1>6 DEF Invalidate
  <2>2. ASSUME NEW a \in Entries(mem, limit)
        PROVE  Aged(mem[a])'
    <3>1. Aged(mem[a])
      BY DEF Ages
    <3>2. CASE old'
      BY <2>1, <3>1, <3>2 DEF Aged, Mode
    <3>3. CASE ~old'
      <4>1. preset.ici # 0 /\ old' = old
        BY <1>6, <3>3, Zenon DEF Invalidate
      <4>2. mem[a].pc \in dirty => Gamble \/ (Mode = 2 /\ mem[a].guard)
        BY <3>1, <4>1, PresetsAssumption DEF Aged, Ages, Gamble, Mode, TypeOK
      <4>3. UNCHANGED Mode /\ UNCHANGED Gamble
        BY <2>1 DEF Mode, Gamble
      <4> QED
        BY <2>1, <3>1, <3>3, <4>1, <4>2, <4>3 DEF Aged
    <3> QED
      BY <3>2, <3>3
  <2> QED
    BY <2>1, <2>2 DEF Ages, Entries
<1>7. ASSUME NEW site \in Address, NEW pc \in Pc, Exit(site, pc)
      PROVE  Ages'
  <2> DEFINE w == mem[site]
  <2>1. w \in Words /\ UNCHANGED <<preset, ram, failed>>
    BY <1>7 DEF TypeOK, Exit
  <2>2. ASSUME w.op = "link", LinkBlock_Static(site, pc)
        PROVE  Ages'
    <3>1. w.pc \in Pc
      BY <2>1, <2>2, LinkNames
    <3>2. PICK c \in FindOrCompile(w.pc) :
            RunIn(c, IF StillWants(c.mem, site, Link(w.pc)) \/ ~preset.link_guard
                     THEN [c.mem EXCEPT ![site] = Jump(w.pc, c.at)] ELSE c.mem, pc)
      BY <2>2 DEF LinkBlock_Static
    <3>3. c.mem \in [Address -> Words]
      BY <3>1, <3>2, Found
    <3>4. CASE StillWants(c.mem, site, Link(w.pc)) \/ ~preset.link_guard
      <4> DEFINE n == [c.mem EXCEPT ![site] = Jump(w.pc, c.at)]
      <4>1. RunIn(c, n, pc)
        BY <3>2, <3>4
      <4>2. \A a \in Entries(n, c.last) : a \in Entries(c.mem, c.last) /\ n[a] = c.mem[a]
        BY <3>3, PatchedEntries
      <4> HIDE DEF n
      <4> QED
        BY <2>1, <3>1, <4>1, <4>2, FoundAges DEF Whole
    <3>5. CASE ~(StillWants(c.mem, site, Link(w.pc)) \/ ~preset.link_guard)
      <4>1. RunIn(c, c.mem, pc)
        BY <3>2, <3>5
      <4> QED
        BY <2>1, <3>1, <4>1, FoundAges DEF Whole
    <3> QED
      BY <3>4, <3>5
  <2>3. ASSUME w.op = "ic", LinkBlock_Dynamic_IC(site, pc)
        PROVE  Ages'
    <3>1. PICK c \in FindOrCompile(pc) :
            RunIn(c, IF StillWants(c.mem, site, Ic)
                     THEN [c.mem EXCEPT ![site] = IcJump(pc, c.at)] ELSE c.mem, pc)
      BY <2>3 DEF LinkBlock_Dynamic_IC
    <3>2. c.mem \in [Address -> Words]
      BY <3>1, Found
    <3>3. CASE StillWants(c.mem, site, Ic)
      <4> DEFINE n == [c.mem EXCEPT ![site] = IcJump(pc, c.at)]
      <4>1. RunIn(c, n, pc)
        BY <3>1, <3>3
      <4>2. \A a \in Entries(n, c.last) : a \in Entries(c.mem, c.last) /\ n[a] = c.mem[a]
        BY <3>2, PatchedEntries
      <4> HIDE DEF n
      <4> QED
        BY <2>1, <4>1, <4>2, FoundAges DEF Whole
    <3>4. CASE ~StillWants(c.mem, site, Ic)
      <4>1. RunIn(c, c.mem, pc)
        BY <3>1, <3>4
      <4> QED
        BY <2>1, <4>1, FoundAges DEF Whole
    <3> QED
      BY <3>3, <3>4
  <2>4. ASSUME NEW target, Goto(target)
        PROVE  Ages'
    BY <2>1, <2>4 DEF Goto, Ages, Entries, Aged, Mode, Gamble
  <2> QED
    BY <1>7, <2>2, <2>3, <2>4 DEF Exit
<1>8. CASE UNCHANGED vars
  BY <1>8 DEF vars, history, Ages, Entries, Aged, Mode, Gamble
<1> QED
  BY <1>1, <1>2, <1>3, <1>4, <1>5, <1>6, <1>7, <1>8 DEF Next

\* What is known of the block whose entry runs.
LEMMA EntryAged ==
  ASSUME AInv, preset.link_guard, exec.kind = "entry"
  PROVE  mem[exec.at].pc = exec.pc /\ Aged(mem[exec.at])
<1>1. exec.at \in Address /\ exec.pc \in Pc /\ limit \in Int
  BY DEF AInv, IInv, TypeOK
<1>2. Holds(mem, exec.at, exec.pc, limit)
  BY DEF AInv, IInv, Whole, Running
<1>3. exec.at < limit
  BY <1>1, <1>2, Sizes DEF Holds
<1> QED
  BY <1>1, <1>2, <1>3 DEF AInv, Ages, Entries, Holds

LEMMA AgesHold == Spec => []AInv
<1>1. Init => AInv
  BY InitWhole, InitAges, TypeInitially DEF AInv, IInv
<1>2. AInv /\ [Next]_vars => AInv'
  <2> SUFFICES ASSUME AInv, [Next]_vars PROVE AInv'
    OBVIOUS
  <2>1. TypeOK'
    BY TypeStep DEF AInv, IInv
  <2>2. preset' = preset
    BY PresetStays
  <2>3. preset.link_guard => Whole'
    BY NextWhole DEF AInv, IInv
  <2>4. preset.link_guard => Ages'
    BY NextAges DEF AInv, IInv
  <2> QED
    BY <2>1, <2>2, <2>3, <2>4 DEF AInv, IInv
<1> QED
  BY <1>1, <1>2, PTL DEF Spec

\* With the link guard on, the guest that invalidates what it rewrites enters no
\* old translation, outside the code that outlived the clear and the gamble of
\* JIT_ICI = 1.
THEOREM InvalidatedIsNotEntered == Spec => FreshAfterInvalidate
<1>1. AInv => (Enter /\ preset.link_guard => Fresh \/ Gamble \/ exec.pc \in dirty \/ old)
  <2> SUFFICES ASSUME AInv, Enter, preset.link_guard
               PROVE  Fresh \/ Gamble \/ exec.pc \in dirty \/ old
    OBVIOUS
  <2>1. mem[exec.at].pc = exec.pc /\ Aged(mem[exec.at])
    BY EntryAged DEF Enter
  <2>2. mem[exec.at].guard => mem[exec.at].ver = ram[mem[exec.at].pc]
    BY DEF Enter, GuardFails
  <2> QED
    BY <2>1, <2>2 DEF Aged, Fresh
<1> QED
  BY <1>1, AgesHold, PTL DEF FreshAfterInvalidate

\* With the link guard on, a failed guard leaves no other way to the block: it
\* fails again only if the guest rewrites the block.
THEOREM GuardFailsOnce == Spec => FailsOncePerRewrite
<1>1. AInv => (BlockCheckFail /\ preset.link_guard => mem[exec.at].pc \notin failed)
  <2> SUFFICES ASSUME AInv, BlockCheckFail, preset.link_guard
               PROVE  mem[exec.at].pc \notin failed
    OBVIOUS
  <2>1. Aged(mem[exec.at])
    BY EntryAged DEF BlockCheckFail
  <2> QED
    BY <2>1 DEF BlockCheckFail, GuardFails, Aged
<1> QED
  BY <1>1, AgesHold, PTL DEF FailsOncePerRewrite

=============================================================================
