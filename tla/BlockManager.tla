---------------------------- MODULE BlockManager ----------------------------
(***************************************************************************)
(* The block manager (dc/sh4/rec_v2/blockmanager.cpp): a hash table whose  *)
(* buckets are vectors of blocks, with two caches of one block per bucket, *)
(* cache[], a pointer into the vector, and bm_bcache[], a copy of what it  *)
(* points to, both read by the code of dynamic branches                    *)
(* (wii/dc/sh4/rec_v2/wii_driver.cpp, BET_Dynamic).                        *)
(*                                                                         *)
(* A vector that grows past its capacity moves: a pointer keeps the        *)
(* capacity of the storage it points into, which a vector only increases.  *)
(*                                                                         *)
(* bm_RemoveCode and bm_InvalidateRange have no caller and are left out.   *)
(***************************************************************************)
EXTENDS Integers, Sequences, FiniteSetsExt

CONSTANTS
  Addr, Code,
  Index,             \* the buckets
  Hash,              \* bm_AddrHash
  InitialCapacity,   \* BM_INITIAL_CAPACITY
  MaxPerBucket,      \* BM_MAX_BLOCKS_PER_BUCKET
  Sentinel,          \* the address 0xFFFFFFFF and the code 0 of the empty block
  Dangling,          \* what is read through a pointer to freed or unused storage
  MaxLookups         \* bound: lookups counted

ASSUME TableAssumption ==
  /\ Hash \in [Addr -> Index]
  /\ Sentinel \notin Addr \cup Code /\ Dangling \notin Addr \cup Code \cup {Sentinel}
ASSUME BucketAssumption ==
  /\ InitialCapacity \in Nat \ {0} /\ MaxPerBucket \in Nat \ {0} /\ MaxLookups \in Nat

VARIABLES
  blocks,     \* the vector of each bucket
  capacity,   \* and its capacity
  cache,      \* &empty_block, or where in which storage
  bm_bcache,  \* address and code
  result      \* history: what the last lookup returned

bmvars == <<blocks, capacity, cache, bm_bcache, result>>

DynarecBlock(code, addr, lookups) == [code |-> code, addr |-> addr, lookups |-> lookups]
empty_block == DynarecBlock(Sentinel, Sentinel, 0)
ToEmpty == [capacity |-> 0, at |-> 0]
To(idx, i) == [capacity |-> capacity[idx], at |-> i]

Live(idx) ==
  \/ cache[idx] = ToEmpty
  \/ cache[idx].capacity = capacity[idx] /\ cache[idx].at \in DOMAIN blocks[idx]

\* *cache[idx]
Cached(idx) ==
  IF cache[idx] = ToEmpty THEN empty_block
  ELSE IF Live(idx) THEN blocks[idx][cache[idx].at]
  ELSE DynarecBlock(Dangling, Dangling, 0)

\* bcache_mirror
Mirror(block) == [addr |-> block.addr, code |-> block.code]

-----------------------------------------------------------------------------

bm_Init ==
  /\ blocks = [idx \in Index |-> <<>>]
  /\ capacity = [idx \in Index |-> InitialCapacity]
  /\ cache = [idx \in Index |-> ToEmpty]
  /\ bm_bcache = [idx \in Index |-> Mirror(empty_block)]
  /\ result = Sentinel

\* The emitted dispatch with the BCACHE preset: a hit reads one entry.
FlatHit(addr) ==
  /\ bm_bcache[Hash[addr]].addr = addr
  /\ result' = bm_bcache[Hash[addr]].code
  /\ UNCHANGED <<blocks, capacity, cache, bm_bcache>>

\* bm_CheckCache, and the emitted dispatch without the preset
CacheHit(addr) ==
  LET idx == Hash[addr]
  IN /\ Cached(idx).addr = addr /\ Cached(idx).code # Sentinel
     /\ Cached(idx).lookups < MaxLookups
     /\ blocks' = [blocks EXCEPT ![idx][cache[idx].at].lookups = @ + 1]
     /\ result' = Cached(idx).code
     /\ UNCHANGED <<capacity, cache, bm_bcache>>

\* Where the block of an address is in its bucket, the first one for a search
Places(addr) == {i \in DOMAIN blocks[Hash[addr]] : blocks[Hash[addr]][i].addr = addr}

\* bm_GetCode past the cache: the block found is promoted to it when it is
\* used more by some margin.
Search(addr) ==
  LET idx == Hash[addr]
  IN /\ Cached(idx).addr # addr /\ Places(addr) # {}
     /\ LET i == Min(Places(addr))
            lookups == blocks[idx][i].lookups + 1
        IN /\ lookups <= MaxLookups
           /\ blocks' = [blocks EXCEPT ![idx][i].lookups = lookups]
           /\ \/ /\ lookups > Cached(idx).lookups + 2
                 /\ cache' = [cache EXCEPT ![idx] = To(idx, i)]
                 /\ bm_bcache' = [bm_bcache EXCEPT ![idx] = Mirror(blocks[idx][i])]
              \/ /\ lookups <= Cached(idx).lookups + 2
                 /\ UNCHANGED <<cache, bm_bcache>>
           /\ result' = blocks[idx][i].code
     /\ UNCHANGED capacity

Miss(addr) ==
  /\ Cached(Hash[addr]).addr # addr /\ Places(addr) = {}
  /\ result' = Sentinel
  /\ UNCHANGED <<blocks, capacity, cache, bm_bcache>>

-----------------------------------------------------------------------------
(* bm_AddCode                                                              *)

\* The address is known: its code is replaced.
Update(addr, code) ==
  LET idx == Hash[addr]
      i == Min(Places(addr))
  IN /\ Places(addr) # {}
     /\ blocks' = [blocks EXCEPT ![idx][i] = DynarecBlock(code, addr, 0)]
     /\ bm_bcache' = IF cache[idx] = To(idx, i)
                     THEN [bm_bcache EXCEPT ![idx] = Mirror(DynarecBlock(code, addr, 0))]
                     ELSE bm_bcache
     /\ UNCHANGED <<capacity, cache, result>>

\* The first of the least used blocks of a bucket
LeastUsed(list) ==
  LET least == Min({list[i].lookups : i \in DOMAIN list})
  IN Min({i \in DOMAIN list : list[i].lookups = least})

\* (mutant of Evict) the pointer and the copy stay on the slot
MutEvictKeepsCache(addr, code) ==
  LET idx == Hash[addr]
  IN /\ Places(addr) = {} /\ Len(blocks[idx]) >= MaxPerBucket
     /\ blocks' = [blocks EXCEPT ![idx][LeastUsed(blocks[idx])] = DynarecBlock(code, addr, 0)]
     /\ UNCHANGED <<capacity, cache, bm_bcache, result>>

\* The bucket is full: the new block takes the place of the least used.
Evict(addr, code) ==
  LET idx == Hash[addr]
      i == LeastUsed(blocks[idx])
  IN /\ Places(addr) = {} /\ Len(blocks[idx]) >= MaxPerBucket
     /\ blocks' = [blocks EXCEPT ![idx][i] = DynarecBlock(code, addr, 0)]
     /\ \/ /\ cache[idx] = To(idx, i)
           /\ cache' = [cache EXCEPT ![idx] = ToEmpty]
           /\ bm_bcache' = [bm_bcache EXCEPT ![idx] = Mirror(empty_block)]
        \/ /\ cache[idx] # To(idx, i)
           /\ UNCHANGED <<cache, bm_bcache>>
     /\ UNCHANGED <<capacity, result>>

\* The capacity after push_back
Grown(idx) ==
  IF Len(blocks[idx]) < capacity[idx] THEN capacity[idx] ELSE 2 * capacity[idx]

\* (mutant of PushBack) the new block is cached only in an empty slot
MutPushKeepsCache(addr, code) ==
  LET idx == Hash[addr]
      block == DynarecBlock(code, addr, 0)
  IN /\ Places(addr) = {} /\ Len(blocks[idx]) < MaxPerBucket
     /\ blocks' = [blocks EXCEPT ![idx] = Append(@, block)]
     /\ capacity' = [capacity EXCEPT ![idx] = Grown(idx)]
     /\ \/ /\ cache[idx] = ToEmpty
           /\ cache' = [cache EXCEPT ![idx] =
                          [capacity |-> Grown(idx), at |-> Len(blocks[idx]) + 1]]
           /\ bm_bcache' = [bm_bcache EXCEPT ![idx] = Mirror(block)]
        \/ cache[idx] # ToEmpty /\ UNCHANGED <<cache, bm_bcache>>
     /\ UNCHANGED result

\* The bucket has room: the new block is cached at once.
PushBack(addr, code) ==
  LET idx == Hash[addr]
      block == DynarecBlock(code, addr, 0)
  IN /\ Places(addr) = {} /\ Len(blocks[idx]) < MaxPerBucket
     /\ blocks' = [blocks EXCEPT ![idx] = Append(@, block)]
     /\ capacity' = [capacity EXCEPT ![idx] = Grown(idx)]
     /\ cache' = [cache EXCEPT ![idx] =
                    [capacity |-> Grown(idx), at |-> Len(blocks[idx]) + 1]]
     /\ bm_bcache' = [bm_bcache EXCEPT ![idx] = Mirror(block)]
     /\ UNCHANGED result

\* bm_Reset: clear() keeps a vector's storage.
bm_Reset ==
  /\ blocks' = [idx \in Index |-> <<>>]
  /\ cache' = [idx \in Index |-> ToEmpty]
  /\ bm_bcache' = [idx \in Index |-> Mirror(empty_block)]
  /\ UNCHANGED <<capacity, result>>

BmNext ==
  \/ \E addr \in Addr :
       \/ FlatHit(addr) \/ CacheHit(addr) \/ Search(addr) \/ Miss(addr)
       \/ \E code \in Code : Update(addr, code) \/ Evict(addr, code) \/ PushBack(addr, code)
  \/ bm_Reset

BmSpec == bm_Init /\ [][BmNext]_bmvars

-----------------------------------------------------------------------------
(* Properties                                                              *)

BmTypeOK ==
  /\ \A idx \in Index :
       /\ DOMAIN blocks[idx] = 1 .. Len(blocks[idx]) /\ Len(blocks[idx]) <= MaxPerBucket
       /\ \A i \in DOMAIN blocks[idx] :
            blocks[idx][i] \in [code : Code, addr : Addr, lookups : 0 .. MaxLookups]
       /\ capacity[idx] \in Nat /\ cache[idx] \in [capacity : Nat, at : Nat]
       /\ bm_bcache[idx] \in [addr : Addr \cup {Sentinel}, code : Code \cup {Sentinel}]
  /\ result \in Code \cup {Sentinel}

\* blockmanager.h:51: bm_bcache is a mirror of cache[] at every moment the
\* emitted code may read either; and the pointer never outlives the storage it
\* points into, which every step that moves or empties a vector sees to
\* (blockmanager.cpp:207).
Mirrored == \A idx \in Index : Live(idx) /\ bm_bcache[idx] = Mirror(Cached(idx))

\* The manager implements the table: whatever path a lookup takes, it returns
\* the code added last for the address, and nothing the table has forgotten.
tableBar ==
  [addr \in Addr |-> IF Places(addr) = {} THEN Sentinel
                     ELSE blocks[Hash[addr]][Min(Places(addr))].code]
Abstract == INSTANCE BlockMap WITH
  NotFound <- Sentinel, table <- tableBar, found <- result
ImplementsBlockMap == Abstract!Spec

=============================================================================
