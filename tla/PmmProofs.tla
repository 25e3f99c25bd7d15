------------------------------- MODULE PmmProofs -------------------------------
(***************************************************************************)
(* Proofs about the physical memory manager, for every block size, byte    *)
(* width, well-formed memory map and previous content of memory.           *)
(***************************************************************************)
EXTENDS Pmm, TLAPS

USE SizesAssumption, BlocksAssumption, OldMemoryAssumption, NullAssumption

\* The blocks of the usable entries before entry n.
UsableBefore(n, b) ==
  \E k \in 1 .. Len(memmap) :
    k < n /\ memmap[k].type = USABLE /\ b \in EntryBlocks(memmap[k])

Reserved(b) == /\ addr2block(pmm_usable_addr) <= b
               /\ b < addr2block(pmm_usable_addr) + BitmapBytes

\* While the third loop runs, the clear bits are those of the entries done.
UnsetInv ==
  pc = "unset" =>
    \A b \in Blocks : InBitmap(b) => (bitmap[b] = 0 <=> UsableBefore(i, b))

\* Afterwards they are those of the usable blocks neither reserved nor held.
ReadyInv ==
  pc = "ready" =>
    \A b \in Blocks :
      InBitmap(b) =>
        (bitmap[b] = 0 <=> UsableBlock(b) /\ ~Reserved(b) /\ b \notin owned)

OwnedInv ==
  \A b \in owned : InBitmap(b) /\ UsableBlock(b) /\ ~Reserved(b)

\* The bitmap starts at the beginning of a block.
AlignedInv == pmm_usable_addr % BLOCK_SIZE = 0

NoCallerBeforeReady == pc # "ready" => owned = {} /\ ret = 0

PmmIInv == /\ PmmTypeOK /\ UnsetInv /\ ReadyInv /\ OwnedInv
           /\ AlignedInv /\ NoCallerBeforeReady

--------------------------------------------------------------------------------
(***************************************************************************)
(* Arithmetic of blocks and addresses.                                     *)
(***************************************************************************)

\* Division by a block or byte size stays in the naturals.
LEMMA DivNat ==
  ASSUME NEW B \in Nat \ {0}, NEW x \in Nat
  PROVE  x \div B \in Nat
BY SMT

\* An aligned address is the address of its block.
LEMMA AlignedAddr ==
  ASSUME NEW B \in Nat \ {0}, NEW x \in Nat, x % B = 0
  PROVE  x \div B \in Nat /\ x = (x \div B) * B
BY SMT

\* Multiplying by the block size is strictly monotonic.
LEMMA MultMonotonic ==
  ASSUME NEW B \in Nat \ {0}, NEW p \in Int, NEW q \in Int
  PROVE  /\ p < q => p * B + B <= q * B
         /\ p * B < q * B => p < q
         /\ p <= q => p * B <= q * B
         /\ p * B <= q * B => p <= q
BY SMT

\* The address of a sum of block numbers.
LEMMA MultSum ==
  ASSUME NEW B \in Nat \ {0}, NEW p \in Nat, NEW r \in Nat
  PROVE  (p + r) * B = p * B + r * B
BY SMT

\* The address of a block, and back.
LEMMA MultNat ==
  ASSUME NEW B \in Nat \ {0}, NEW p \in Nat
  PROVE  p * B \in Nat /\ (p + 1) * B = p * B + B /\ (p * B) \div B = p
         /\ (p * B) % B = 0
BY SMT

\* A block of an aligned entry's loop lies inside the entry, and conversely.
LEMMA EntryBlocksInside ==
  ASSUME NEW e \in Entries, NEW b \in Nat,
         e.base % BLOCK_SIZE = 0, e.length % BLOCK_SIZE = 0
  PROVE  b \in EntryBlocks(e) <=>
           /\ e.base <= block2addr(b)
           /\ block2addr(b + 1) <= e.base + e.length
<1> DEFINE B == BLOCK_SIZE
<1>1. e.base \in Nat /\ e.length \in Nat /\ B \in Nat \ {0}
  BY DEF Entries
<1>2. PICK p \in Nat, q \in Nat : e.base = p * B /\ e.length = q * B
  BY <1>1, AlignedAddr
<1>3. block2addr(b) = b * B /\ block2addr(b + 1) = b * B + B
  BY <1>1, MultNat DEF block2addr
<1>4. ASSUME b \in EntryBlocks(e)
      PROVE  e.base <= b * B /\ b * B + B <= e.base + e.length
  <2>1. PICK j \in 0 .. e.length - 1 : j % B = 0 /\ b = (e.base + j) \div B
    BY <1>4 DEF EntryBlocks, addr2block
  <2>2. j \in Nat /\ j < e.length
    BY <1>1, <2>1
  <2>3. PICK r \in Nat : j = r * B
    BY <1>1, <2>1, <2>2, AlignedAddr
  <2>4. e.base + j = (p + r) * B /\ p + r \in Nat
    BY <1>1, <1>2, <2>3, MultSum
  <2>5. b = p + r
    BY <1>1, <2>1, <2>4, MultNat
  <2>6. r < q
    BY <1>1, <1>2, <2>2, <2>3, MultMonotonic
  <2>7. r * B + B <= q * B
    BY <1>1, <1>2, <2>3, <2>6, MultMonotonic
  <2>8. b * B = e.base + j
    BY <2>4, <2>5
  <2> QED
    BY <1>1, <1>2, <2>2, <2>3, <2>7, <2>8, SMT
<1>5. ASSUME e.base <= b * B, b * B + B <= e.base + e.length
      PROVE  b \in EntryBlocks(e)
  <2>1. p <= b
    BY <1>1, <1>2, <1>5, MultMonotonic
  <2>2. PICK r \in Nat : b = p + r
    <3>1. b - p \in Nat /\ b = p + (b - p)
      BY <2>1
    <3> QED
      BY <3>1
  <2> DEFINE j == r * B
  <2>3. j \in Nat /\ j % B = 0
    BY <1>1, <2>2, MultNat
  <2>4. e.base + j = b * B
    BY <1>1, <1>2, <2>2, MultSum
  <2>5. j < e.length
    BY <1>1, <1>5, <2>3, <2>4, <1>3, MultNat
  <2>6. (e.base + j) \div B = b
    BY <1>1, <2>4, MultNat
  <2> HIDE DEF j
  <2>7. j \in {x \in 0 .. e.length - 1 : x % BLOCK_SIZE = 0}
    BY <1>1, <2>3, <2>5
  <2> QED
    BY <2>6, <2>7 DEF EntryBlocks, addr2block
<1> QED
  BY <1>3, <1>4, <1>5

\* What the boot loader guarantees, for the map pmm_init works on.
LEMMA MemmapEntries ==
  ASSUME memmap \in Memmaps, NEW k \in 1 .. Len(memmap)
  PROVE  /\ memmap \in Seq(Entries)
         /\ memmap[k] \in Entries
         /\ memmap[k].base \in Nat /\ memmap[k].length \in Nat
         /\ memmap[k].type = USABLE =>
              /\ memmap[k].base % BLOCK_SIZE = 0
              /\ memmap[k].length % BLOCK_SIZE = 0
              /\ memmap[k].base >= BLOCK_SIZE
<1>1. WellFormed(memmap)
  BY MemmapAssumption
<1>2. memmap \in Seq(Entries) /\ memmap[k] \in Entries
  BY <1>1 DEF WellFormed
<1>3. memmap[k].base \in Nat /\ memmap[k].length \in Nat
  BY <1>2 DEF Entries
<1> QED
  BY <1>1, <1>2, <1>3 DEF WellFormed

\* When every entry has been seen, the blocks seen are the usable blocks.
LEMMA AllEntriesSeen ==
  ASSUME memmap \in Memmaps, i \in Nat, i > Len(memmap), NEW b \in Nat
  PROVE  UsableBefore(i, b) <=> UsableBlock(b)
<1>1. ASSUME NEW k \in 1 .. Len(memmap), memmap[k].type = USABLE
      PROVE  b \in EntryBlocks(memmap[k]) <=>
               /\ memmap[k].base <= block2addr(b)
               /\ block2addr(b + 1) <= memmap[k].base + memmap[k].length
  BY <1>1, MemmapEntries, EntryBlocksInside
<1>2. Len(memmap) \in Nat
  BY MemmapAssumption DEF WellFormed
<1>3. \A k \in 1 .. Len(memmap) : k < i
  BY <1>2
<1> QED
  BY <1>1, <1>3 DEF UsableBefore, UsableBlock

--------------------------------------------------------------------------------
\* The initial states satisfy the inductive invariant.
LEMMA PmmInitInv == PmmInit => PmmIInv
<1> SUFFICES ASSUME PmmInit PROVE PmmIInv
  OBVIOUS
<1>1. AlignedInv
  BY SMT DEF PmmInit, AlignedInv
<1>2. PmmTypeOK
  BY DEF PmmInit, PmmTypeOK
<1> QED
  BY <1>1, <1>2
     DEF PmmInit, PmmIInv, UnsetInv, ReadyInv, OwnedInv, NoCallerBeforeReady

\* Setting or clearing bits keeps the bitmap a bitmap.
LEMMA BitmapType ==
  ASSUME bitmap \in [Blocks -> 0 .. 1], NEW S
  PROVE  mmap_set(S) \in [Blocks -> 0 .. 1] /\ mmap_unset(S) \in [Blocks -> 0 .. 1]
BY DEF mmap_set, mmap_unset

\* Every step keeps the variables' types.
LEMMA PmmTypeStep == PmmIInv /\ [PmmNext]_pmmVars => PmmTypeOK'
<1> SUFFICES ASSUME PmmIInv, [PmmNext]_pmmVars PROVE PmmTypeOK'
  OBVIOUS
<1> USE DEF PmmIInv, PmmTypeOK
<1>0. pc \in {"size", "parse", "unset"} =>
        /\ memmap \in Memmaps
        /\ Len(memmap) \in Nat
        /\ i <= Len(memmap) =>
             memmap[i].base \in Nat /\ memmap[i].length \in Nat
  BY MemmapEntries, MemmapAssumption DEF WellFormed
<1>1. CASE CheckMemmap
  BY <1>1 DEF CheckMemmap, sizes, counts
<1>2. CASE SumSize
  BY <1>0, <1>2 DEF SumSize, counts
<1>3. CASE SizeKnown
  BY <1>3 DEF SizeKnown, sizes, counts
<1>4. CASE ParseEntry
  BY <1>0, <1>4 DEF ParseEntry, counts
<1>5. CASE PlaceBitmap
  <2>1. pmm_free_blocks' \in Nat
    <3>1. pmm_usable_top \div BLOCK_SIZE \in Nat
      BY DivNat
    <3> QED
      BY <1>5, <3>1, MultNat DEF PlaceBitmap
  <2>2. pmm_block_count' \in Nat
    BY <1>5, DivNat DEF PlaceBitmap
  <2>3. bitmap' \in [Blocks -> 0 .. 1]
    BY <1>5, BitmapType DEF PlaceBitmap
  <2> QED
    BY <1>5, <2>1, <2>2, <2>3 DEF PlaceBitmap, sizes
<1>6. CASE UnsetEntry
  BY <1>6, BitmapType DEF UnsetEntry, sizes, counts
<1>7. CASE ReserveBitmap
  BY <1>7, BitmapType DEF ReserveBitmap, sizes, counts
<1>8. CASE pmm_alloc_block
  <2>1. CASE FreeBits = {} /\ ret' = 0 /\ UNCHANGED <<bitmap, owned>>
    BY <1>8, <2>1 DEF pmm_alloc_block, sizes, counts
  <2>2. ASSUME NEW block \in FreeBits,
               bitmap' = mmap_set({block}), ret' = block2addr(block),
               owned' = owned \cup {block}
        PROVE  PmmTypeOK'
    <3>1. block \in Blocks
      BY DEF FreeBits
    <3>2. ret' \in Nat
      BY <2>2, <3>1, MultNat DEF block2addr
    <3>3. bitmap' \in [Blocks -> 0 .. 1]
      BY <2>2, BitmapType
    <3> QED
      BY <1>8, <2>2, <3>1, <3>2, <3>3 DEF pmm_alloc_block, sizes, counts
  <2> QED
    BY <1>8, <2>1, <2>2 DEF pmm_alloc_block
<1>9. ASSUME NEW b \in owned, pmm_free_block(block2addr(b)) PROVE PmmTypeOK'
  <2>1. bitmap' \in [Blocks -> 0 .. 1]
    BY <1>9, BitmapType DEF pmm_free_block
  <2>2. owned' \subseteq Blocks
    BY <1>9 DEF pmm_free_block
  <2> QED
    BY <1>9, <2>1, <2>2 DEF pmm_free_block, sizes, counts
<1>10. CASE log_panic \/ UNCHANGED pmmVars
  BY <1>10 DEF log_panic, pmmVars, sizes, counts
<1> QED
  BY <1>1, <1>2, <1>3, <1>4, <1>5, <1>6, <1>7, <1>8, <1>9, <1>10
     DEF PmmNext, pmm_init

\* The derived notions depend on the memory map, its sizes and the counts only.
LEMMA SameGeometry ==
  ASSUME UNCHANGED <<memmap, sizes, counts>>, NEW b \in Blocks
  PROVE  /\ InBitmap(b)' <=> InBitmap(b)
         /\ UsableBlock(b)' <=> UsableBlock(b)
         /\ Reserved(b)' <=> Reserved(b)
BY DEF sizes, counts, InBitmap, BitmapBytes, UsableBlock, Reserved, block2addr,
       addr2block

\* Handing out a block keeps the bits and the held blocks in step.
LEMMA AllocStep == PmmIInv /\ pmm_alloc_block => ReadyInv' /\ OwnedInv'
<1> SUFFICES ASSUME PmmIInv, pmm_alloc_block PROVE ReadyInv' /\ OwnedInv'
  OBVIOUS
<1>0. pc = "ready" /\ UNCHANGED <<pc, i, memmap, sizes, counts>>
  BY DEF pmm_alloc_block
<1>1. CASE FreeBits = {} /\ ret' = 0 /\ UNCHANGED <<bitmap, owned>>
  BY <1>0, <1>1, SameGeometry DEF PmmIInv, PmmTypeOK, ReadyInv, OwnedInv
<1>2. ASSUME NEW block \in FreeBits,
             bitmap' = mmap_set({block}), owned' = owned \cup {block}
      PROVE  ReadyInv' /\ OwnedInv'
  <2>1. block \in Blocks /\ InBitmap(block) /\ bitmap[block] = 0
    BY DEF FreeBits
  <2>2. UsableBlock(block) /\ ~Reserved(block) /\ block \notin owned
    BY <1>0, <2>1 DEF PmmIInv, ReadyInv
  <2>3. \A b \in Blocks : bitmap'[b] = IF b = block THEN 1 ELSE bitmap[b]
    BY <1>2 DEF mmap_set
  <2>4. OwnedInv'
    BY <1>0, <1>2, <2>1, <2>2, SameGeometry DEF PmmIInv, PmmTypeOK, OwnedInv
  <2>5. ReadyInv'
    BY <1>0, <1>2, <2>3, SameGeometry DEF PmmIInv, ReadyInv
  <2> QED
    BY <2>4, <2>5
<1> QED
  BY <1>1, <1>2 DEF pmm_alloc_block

\* Freeing a held block by its address clears that block's bit and no other.
LEMMA FreeStep ==
  ASSUME PmmIInv, NEW block \in owned, pmm_free_block(block2addr(block))
  PROVE  ReadyInv' /\ OwnedInv'
<1>0. pc = "ready" /\ UNCHANGED <<pc, i, memmap, sizes, counts>>
  BY DEF pmm_free_block
<1>1. block \in Blocks /\ addr2block(block2addr(block)) = block
  BY MultNat DEF PmmIInv, PmmTypeOK, addr2block, block2addr
<1>2. /\ \A b \in Blocks : bitmap'[b] = IF b = block THEN 0 ELSE bitmap[b]
      /\ owned' = owned \ {block}
  BY <1>1 DEF pmm_free_block, mmap_unset
<1>3. UsableBlock(block) /\ ~Reserved(block)
  BY DEF PmmIInv, OwnedInv
<1>4. OwnedInv'
  BY <1>0, <1>2, SameGeometry DEF PmmIInv, PmmTypeOK, OwnedInv
<1>5. ReadyInv'
  BY <1>0, <1>2, <1>3, SameGeometry DEF PmmIInv, ReadyInv
<1> QED
  BY <1>4, <1>5

\* The third loop clears the bits of one more entry.
LEMMA UnsetStep == PmmIInv /\ UnsetEntry => UnsetInv'
<1> SUFFICES ASSUME PmmIInv, UnsetEntry, NEW b \in Blocks, InBitmap(b)'
             PROVE  bitmap'[b] = 0 <=> UsableBefore(i, b)'
  BY DEF UnsetInv
<1>1. /\ memmap' = memmap /\ i' = i + 1 /\ memmap \in Memmaps
      /\ i \in Nat \ {0} /\ i <= Len(memmap) /\ pc = "unset"
      /\ UNCHANGED <<memmap, sizes, counts>>
  BY DEF UnsetEntry, PmmIInv, PmmTypeOK
<1>2. bitmap[b] = 0 <=> UsableBefore(i, b)
  BY <1>1, SameGeometry DEF PmmIInv, UnsetInv
<1>3. bitmap'[b] = 0 <=>
        \/ memmap[i].type = USABLE /\ b \in EntryBlocks(memmap[i])
        \/ bitmap[b] = 0
  BY DEF UnsetEntry, mmap_unset, PmmIInv, PmmTypeOK
<1>4. Len(memmap) \in Nat /\ i \in 1 .. Len(memmap)
  BY <1>1, MemmapAssumption DEF WellFormed
<1>5. \A k \in 1 .. Len(memmap) : k < i + 1 <=> k < i \/ k = i
  BY <1>4
<1> QED
  BY <1>1, <1>2, <1>3, <1>4, <1>5 DEF UsableBefore, EntryBlocks, addr2block

\* The last loop leaves clear the usable blocks that it does not reserve.
LEMMA ReserveStep == PmmIInv /\ ReserveBitmap => ReadyInv' /\ OwnedInv'
<1> SUFFICES ASSUME PmmIInv, ReserveBitmap PROVE ReadyInv' /\ OwnedInv'
  OBVIOUS
<1>1. /\ memmap \in Memmaps /\ i \in Nat /\ i > Len(memmap) /\ pc = "unset"
      /\ owned = {} /\ owned' = {} /\ UNCHANGED <<memmap, sizes, counts>>
  BY DEF ReserveBitmap, PmmIInv, PmmTypeOK, NoCallerBeforeReady
<1>2. addr2block(pmm_usable_addr) \in Nat /\ BitmapBytes \in Nat
  BY DivNat DEF addr2block, BitmapBytes, PmmIInv, PmmTypeOK
<1>3. \A b \in Blocks : bitmap'[b] = IF Reserved(b) THEN 1 ELSE bitmap[b]
  BY <1>2 DEF ReserveBitmap, mmap_set, Reserved
<1>4. \A b \in Blocks : InBitmap(b) => (bitmap[b] = 0 <=> UsableBlock(b))
  BY <1>1, AllEntriesSeen DEF PmmIInv, UnsetInv
<1>5. ReadyInv'
  BY <1>1, <1>3, <1>4, SameGeometry DEF ReadyInv
<1> QED
  BY <1>1, <1>5 DEF OwnedInv

\* The bitmap is put at the base of a usable entry and never moved.
LEMMA AlignedStep == PmmIInv /\ [PmmNext]_pmmVars => AlignedInv'
<1> SUFFICES ASSUME PmmIInv, [PmmNext]_pmmVars PROVE AlignedInv'
  OBVIOUS
<1>1. CASE ParseEntry
  <2>1. memmap \in Memmaps /\ i \in 1 .. Len(memmap)
    BY <1>1, MemmapAssumption DEF ParseEntry, PmmIInv, PmmTypeOK, WellFormed
  <2>2. memmap[i].type = USABLE => memmap[i].base % BLOCK_SIZE = 0
    BY <2>1, MemmapEntries
  <2> QED
    BY <1>1, <2>2 DEF ParseEntry, PmmIInv, AlignedInv
<1>2. CASE UNCHANGED pmm_usable_addr
  BY <1>2 DEF PmmIInv, AlignedInv
<1> QED
  BY <1>1, <1>2
     DEF PmmNext, pmm_init, CheckMemmap, SumSize, SizeKnown, PlaceBitmap, UnsetEntry,
         ReserveBitmap, pmm_alloc_block, pmm_free_block, log_panic, pmmVars, sizes

\* Every step keeps the inductive invariant.
LEMMA PmmInvStep == PmmIInv /\ [PmmNext]_pmmVars => PmmIInv'
<1> SUFFICES ASSUME PmmIInv, [PmmNext]_pmmVars PROVE PmmIInv'
  OBVIOUS
<1>0. PmmTypeOK' /\ AlignedInv'
  BY PmmTypeStep, AlignedStep
<1> USE DEF NoCallerBeforeReady
<1>1. CASE CheckMemmap \/ SumSize \/ SizeKnown \/ ParseEntry
  <2>1. pc # "ready" /\ pc' \notin {"unset", "ready"} /\ UNCHANGED <<owned, ret>>
    BY <1>1 DEF CheckMemmap, SumSize, SizeKnown, ParseEntry
  <2>2. owned' = {} /\ ret' = 0
    BY <2>1 DEF PmmIInv
  <2> QED
    BY <1>0, <2>1, <2>2 DEF PmmIInv, UnsetInv, ReadyInv, OwnedInv
<1>2. CASE PlaceBitmap
  <2>1. pc # "ready" /\ pc' = "unset" /\ i' = 1 /\ UNCHANGED <<owned, ret>>
    BY <1>2 DEF PlaceBitmap
  <2>2. owned' = {} /\ ret' = 0
    BY <2>1 DEF PmmIInv
  <2>3. ASSUME NEW b \in Blocks, InBitmap(b)' PROVE bitmap'[b] = 1
    BY <1>2, <2>3 DEF PlaceBitmap, mmap_set
  <2>4. \A b : ~UsableBefore(i, b)'
    BY <2>1 DEF UsableBefore
  <2> QED
    BY <1>0, <2>1, <2>2, <2>3, <2>4
       DEF PmmIInv, UnsetInv, ReadyInv, OwnedInv
<1>3. CASE UnsetEntry
  <2>1. pc = "unset" /\ pc' = "unset" /\ UNCHANGED <<owned, ret>>
    BY <1>3 DEF UnsetEntry
  <2>2. owned' = {} /\ ret' = 0
    BY <2>1 DEF PmmIInv
  <2> QED
    BY <1>0, <1>3, <2>1, <2>2, UnsetStep DEF PmmIInv, ReadyInv, OwnedInv
<1>4. CASE ReserveBitmap
  <2>1. pc' = "ready"
    BY <1>4 DEF ReserveBitmap
  <2> QED
    BY <1>0, <1>4, <2>1, ReserveStep DEF PmmIInv, UnsetInv
<1>5. CASE pmm_alloc_block
  <2>1. pc' = "ready"
    BY <1>5 DEF pmm_alloc_block
  <2> QED
    BY <1>0, <1>5, <2>1, AllocStep DEF PmmIInv, UnsetInv
<1>6. ASSUME NEW b \in owned, pmm_free_block(block2addr(b)) PROVE PmmIInv'
  <2>1. pc' = "ready"
    BY <1>6 DEF pmm_free_block
  <2> QED
    BY <1>0, <1>6, <2>1, FreeStep DEF PmmIInv, UnsetInv
<1>7. CASE log_panic \/ UNCHANGED pmmVars
  <2>1. UNCHANGED pmmVars
    BY <1>7 DEF log_panic
  <2>2. UNCHANGED <<pc, i, memmap, sizes, counts, bitmap, ret, owned>>
    BY <2>1 DEF pmmVars
  <2>3. UnsetInv'
    <3>1. \A b \in Blocks : UsableBefore(i, b)' <=> UsableBefore(i, b)
      BY <2>2 DEF UsableBefore, EntryBlocks, addr2block
    <3> QED
      BY <2>2, <3>1, SameGeometry DEF PmmIInv, UnsetInv
  <2>4. ReadyInv' /\ OwnedInv'
    BY <2>2, SameGeometry DEF PmmIInv, PmmTypeOK, ReadyInv, OwnedInv
  <2> QED
    BY <1>0, <2>2, <2>3, <2>4 DEF PmmIInv
<1> QED
  BY <1>1, <1>2, <1>3, <1>4, <1>5, <1>6, <1>7 DEF PmmNext, pmm_init

--------------------------------------------------------------------------------
(***************************************************************************)
(* The theorems: the invariant holds of every behaviour of the allocator,  *)
(* and the properties follow from it.                                      *)
(***************************************************************************)

\* The inductive invariant holds in every reachable state of pmm.c.
THEOREM PmmInvariant == PmmSpec => []PmmIInv
<1>1. PmmIInv /\ [PmmNext]_pmmVars => PmmIInv'
  BY PmmInvStep
<1> QED
  BY PmmInitInv, <1>1, PTL DEF PmmSpec

\* pmm_init, pmm_alloc_block and pmm_free_block keep the variables' types.
THEOREM PmmTypeCorrect == PmmSpec => []PmmTypeOK
<1>1. PmmIInv => PmmTypeOK
  BY DEF PmmIInv
<1> QED
  BY <1>1, PmmInvariant, PTL

\* Whatever the memory map, pmm_alloc_block hands out usable memory only.
THEOREM PmmHandsOutUsable == PmmSpec => []HandedOutIsUsable
<1>1. PmmIInv => HandedOutIsUsable
  BY DEF PmmIInv, OwnedInv, HandedOutIsUsable
<1> QED
  BY <1>1, PmmInvariant, PTL

\* Whatever the memory map, no block that overlaps the bitmap is handed out.
THEOREM PmmBitmapSafe == PmmSpec => []BitmapNotHandedOut
<1>1. PmmIInv => BitmapNotHandedOut
  <2> SUFFICES ASSUME PmmIInv, NEW b \in owned
               PROVE  \/ block2addr(b + 1) <= pmm_usable_addr
                      \/ pmm_usable_addr + BitmapBytes <= block2addr(b)
    BY DEF BitmapNotHandedOut
  <2>1. b \in Nat /\ pmm_usable_addr \in Nat /\ pmm_block_count \in Nat
    BY DEF PmmIInv, PmmTypeOK
  <2>2. PICK first \in Nat : /\ first = addr2block(pmm_usable_addr)
                             /\ pmm_usable_addr = first * BLOCK_SIZE
    BY <2>1, AlignedAddr DEF PmmIInv, AlignedInv, addr2block
  <2>3. BitmapBytes \in Nat
    BY <2>1, DivNat DEF BitmapBytes
  <2>4. b < first \/ first + BitmapBytes <= b
    BY <2>1, <2>2, <2>3 DEF PmmIInv, OwnedInv, Reserved
  <2>5. block2addr(b) = b * BLOCK_SIZE
        /\ block2addr(b + 1) = b * BLOCK_SIZE + BLOCK_SIZE
    BY <2>1, MultNat DEF block2addr
  <2>6. CASE b < first
    BY <2>1, <2>2, <2>5, <2>6, MultMonotonic
  <2>7. CASE first + BitmapBytes <= b
    <3>1. (first + BitmapBytes) * BLOCK_SIZE <= b * BLOCK_SIZE
      BY <2>1, <2>2, <2>3, <2>7, MultMonotonic
    <3>2. (first + BitmapBytes) * BLOCK_SIZE
            = pmm_usable_addr + BitmapBytes * BLOCK_SIZE
      BY <2>2, <2>3, MultSum
    <3>3. BitmapBytes <= BitmapBytes * BLOCK_SIZE
      <4> HIDE DEF BitmapBytes
      <4> QED BY <2>3, SMT
    <3>4. BitmapBytes * BLOCK_SIZE \in Nat /\ b * BLOCK_SIZE \in Nat
      BY <2>1, <2>3, MultNat
    <3> QED
      BY <2>1, <2>3, <2>5, <3>1, <3>2, <3>3, <3>4
  <2> QED
    BY <2>4, <2>6, <2>7
<1> QED
  BY <1>1, PmmInvariant, PTL

\* No usable block above the reserved ones is ever lost or held twice.
THEOREM PmmNothingLost == PmmSpec => []NothingLost
<1>1. PmmIInv => NothingLost
  <2> SUFFICES ASSUME PmmIInv, pc = "ready", NEW b \in Blocks,
                      InBitmap(b), UsableBlock(b),
                      b >= addr2block(pmm_usable_addr) + BitmapBytes
               PROVE  bitmap[b] = 0 <=> b \notin owned
    BY DEF NothingLost
  <2>1. addr2block(pmm_usable_addr) \in Nat /\ BitmapBytes \in Nat
    BY DivNat DEF addr2block, BitmapBytes, PmmIInv, PmmTypeOK
  <2>2. ~Reserved(b)
    BY <2>1 DEF Reserved
  <2> QED
    BY <2>2 DEF PmmIInv, ReadyInv
<1> QED
  BY <1>1, PmmInvariant, PTL
--------------------------------------------------------------------------------
(***************************************************************************)
(* The allocator implements the pool of blocks.                            *)
(***************************************************************************)

\* The block at address 0 is never free: no usable entry reaches it.
LEMMA ZeroNotFree == PmmIInv /\ pc = "ready" => FreeBits \subseteq Blocks \ {0}
<1> SUFFICES ASSUME PmmIInv, pc = "ready", 0 \in FreeBits PROVE FALSE
  BY DEF FreeBits
<1>1. UsableBlock(0)
  BY DEF FreeBits, PmmIInv, ReadyInv
<1>2. PICK k \in 1 .. Len(memmap) :
        memmap[k].type = USABLE /\ memmap[k].base <= block2addr(0)
  BY <1>1 DEF UsableBlock
<1>3. memmap \in Memmaps
  BY DEF PmmIInv, PmmTypeOK
<1>4. memmap[k].base \in Nat /\ memmap[k].base >= BLOCK_SIZE
  BY <1>2, <1>3, MemmapEntries
<1>5. block2addr(0) = 0
  BY DEF block2addr
<1> QED
  BY <1>2, <1>4, <1>5

\* The initial states of the allocator are initial states of the pool.
LEMMA PoolInitMaps == PmmInit => BP!PoolInit
<1> SUFFICES ASSUME PmmInit PROVE BP!PoolInit
  OBVIOUS
<1>1. addr2block(ret) = 0
  BY SMT DEF PmmInit, addr2block
<1> QED
  BY <1>1 DEF PmmInit, BP!PoolInit

\* Every step of the allocator is a step of the pool or leaves it alone.
LEMMA PoolStepMaps ==
  PmmIInv /\ PmmIInv' /\ [PmmNext]_pmmVars => [BP!PoolNext]_(BP!poolVars)
<1> SUFFICES ASSUME PmmIInv, PmmIInv', [PmmNext]_pmmVars
             PROVE  [BP!PoolNext]_(BP!poolVars)
  OBVIOUS
<1>1. CASE CheckMemmap \/ SumSize \/ SizeKnown \/ ParseEntry \/ PlaceBitmap
           \/ UnsetEntry
  <2>1. pc # "ready" /\ pc' # "ready" /\ owned' = owned /\ ret' = ret
    BY <1>1 DEF CheckMemmap, SumSize, SizeKnown, ParseEntry, PlaceBitmap,
                UnsetEntry
  <2> QED
    BY <2>1 DEF BP!poolVars, addr2block
<1>2. CASE ReserveBitmap
  <2>1. pc # "ready" /\ pc' = "ready" /\ owned' = owned /\ ret' = ret
    BY <1>2 DEF ReserveBitmap
  <2>2. FreeBits' \subseteq Blocks \ {0}
    <3>1. (PmmIInv /\ pc = "ready" => FreeBits \subseteq Blocks \ {0})'
      BY ZeroNotFree, PTL
    <3> QED
      BY <2>1, <3>1
  <2>3. BP!Setup
    BY <2>1, <2>2 DEF BP!Setup, addr2block
  <2> QED
    BY <2>3 DEF BP!PoolNext
<1>3. CASE pmm_alloc_block
  <2>0. pc = "ready" /\ pc' = "ready" /\ UNCHANGED <<memmap, sizes, counts>>
    BY <1>3 DEF pmm_alloc_block
  <2>1. CASE FreeBits = {} /\ ret' = 0 /\ UNCHANGED <<bitmap, owned>>
    <3>1. FreeBits' = FreeBits
      BY <2>0, <2>1, SameGeometry DEF FreeBits
    <3>2. addr2block(ret') = 0
      BY <2>1, SMT DEF addr2block
    <3>3. BP!Refuse
      BY <2>0, <2>1, <3>1, <3>2 DEF BP!Refuse, addr2block
    <3> QED
      BY <3>3 DEF BP!PoolNext
  <2>2. ASSUME NEW block \in FreeBits,
               bitmap' = mmap_set({block}), ret' = block2addr(block),
               owned' = owned \cup {block}
        PROVE  BP!Take
    <3>1. block \in Blocks /\ block \in Nat
      BY DEF FreeBits
    <3>2. addr2block(ret') = block
      BY <2>2, <3>1, MultNat DEF addr2block, block2addr
    <3>3. \A b \in Blocks : bitmap'[b] = IF b = block THEN 1 ELSE bitmap[b]
      BY <2>2 DEF mmap_set
    <3>4. FreeBits' = FreeBits \ {block}
      <4>1. \A b \in Blocks : InBitmap(b)' <=> InBitmap(b)
        BY <2>0, SameGeometry
      <4>2. \A b \in Blocks : bitmap'[b] = 0 <=> b # block /\ bitmap[b] = 0
        BY <3>3
      <4> QED
        BY <4>1, <4>2 DEF FreeBits
    <3> QED
      BY <2>0, <2>2, <3>2, <3>4 DEF BP!Take, addr2block
  <2> QED
    BY <1>3, <2>1, <2>2 DEF pmm_alloc_block, BP!PoolNext
<1>4. ASSUME NEW block \in owned, pmm_free_block(block2addr(block))
      PROVE  BP!Return
  <2>0. /\ pc = "ready" /\ pc' = "ready" /\ ret' = ret
        /\ UNCHANGED <<memmap, sizes, counts>>
    BY <1>4 DEF pmm_free_block
  <2>1. block \in Blocks /\ addr2block(block2addr(block)) = block
    BY MultNat DEF PmmIInv, PmmTypeOK, addr2block, block2addr
  <2>2. /\ \A b \in Blocks : bitmap'[b] = IF b = block THEN 0 ELSE bitmap[b]
        /\ owned' = owned \ {block}
    BY <1>4, <2>1 DEF pmm_free_block, mmap_unset
  <2>3. InBitmap(block)
    BY DEF PmmIInv, OwnedInv
  <2>4. FreeBits' = FreeBits \cup {block}
    BY <2>0, <2>1, <2>2, <2>3, SameGeometry DEF FreeBits
  <2> QED
    BY <2>0, <2>2, <2>4 DEF BP!Return, addr2block
<1>5. CASE log_panic \/ UNCHANGED pmmVars
  <2>1. UNCHANGED <<pc, memmap, sizes, counts, bitmap, ret, owned>>
    BY <1>5 DEF log_panic, pmmVars
  <2>2. FreeBits' = FreeBits
    BY <2>1, SameGeometry DEF FreeBits
  <2> QED
    BY <2>1, <2>2 DEF BP!poolVars, addr2block
<1> QED
  BY <1>1, <1>2, <1>3, <1>4, <1>5 DEF PmmNext, pmm_init, BP!PoolNext

\* Every behaviour of pmm.c is one of a pool that hands each block to one
\* caller at a time and answers NULL only when no block is free.
THEOREM PmmImplementsPool == PmmSpec => ImplementsBlockPool
<1>1. PmmIInv /\ PmmIInv' /\ [PmmNext]_pmmVars => [BP!PoolNext]_(BP!poolVars)
  BY PoolStepMaps
<1> QED
  BY <1>1, PoolInitMaps, PmmInvariant, PTL
     DEF PmmSpec, ImplementsBlockPool, BP!PoolSpec
================================================================================
