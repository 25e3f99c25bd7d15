---------------------------------- MODULE Pmm ----------------------------------
(***************************************************************************)
(* The physical memory manager, kern/mm/pmm.c: a bitmap with one bit per   *)
(* physical block, 1 = used, stored in the first usable region of the      *)
(* memory map and indexed by the absolute block number.                    *)
(*                                                                         *)
(* pmm_init runs once on the boot processor; each of its loops over the    *)
(* memory map is an action per entry, driven by pc and i (the entry the    *)
(* loop is at, counted from 1).  After it, pc = "ready" and callers use    *)
(* pmm_alloc_block and pmm_free_block.                                     *)
(*                                                                         *)
(* bitmap is the memory that starts at pmm_bitmap, one element per bit.    *)
(* Its domain reaches past the end of the bitmap, because the code writes  *)
(* there: what those bits held before pmm_init is one of OldMemory.        *)
(***************************************************************************)
EXTENDS Integers, Sequences

CONSTANTS BLOCK_SIZE,  \* bytes in a block (4096)
          BYTE_BITS,   \* bits in a byte of the bitmap (8)
          Blocks,      \* the block numbers of the physical address space
          Memmaps,     \* the memory maps the boot loader may report
          OldMemory,   \* what the memory under the bitmap may hold at boot
          NULL         \* an unanswered boot loader request

USABLE == "USABLE"

Entries == [type : STRING, base : Nat, length : Nat]

(***************************************************************************)
(* What the boot loader guarantees of a memory map: usable entries are     *)
(* block aligned, inside the physical address space, and leave out the     *)
(* block at address 0.                                                     *)
(***************************************************************************)
WellFormed(m) ==
  /\ m \in Seq(Entries)
  /\ \A k \in 1 .. Len(m) :
       m[k].type = USABLE =>
         /\ m[k].base % BLOCK_SIZE = 0
         /\ m[k].length % BLOCK_SIZE = 0
         /\ m[k].base >= BLOCK_SIZE
         /\ \A a \in m[k].base .. m[k].base + m[k].length - 1 :
              a \div BLOCK_SIZE \in Blocks

ASSUME SizesAssumption == BLOCK_SIZE \in Nat \ {0} /\ BYTE_BITS \in Nat \ {0}
ASSUME BlocksAssumption == Blocks \subseteq Nat
ASSUME MemmapAssumption == \A m \in Memmaps : WellFormed(m)
ASSUME OldMemoryAssumption == OldMemory \subseteq [Blocks -> 0 .. 1]
ASSUME NullAssumption == NULL \notin Memmaps

VARIABLES pc,               \* where pmm_init is, "ready" after it, "panic"
          i,                \* the memory map entry the current loop is at
          memmap,           \* the boot loader's answer
          pmm_mem_size,     \* bytes of usable memory
          usable_found,     \* pmm_init has met a usable entry
          pmm_usable_addr,  \* where the bitmap is put
          pmm_usable_top,   \* end of the region the bitmap is put in
          pmm_free_blocks,  \* "no. of free blocks"
          pmm_block_count,  \* "no. of blocks"
          bitmap,           \* the bits in memory from pmm_bitmap on
          ret,              \* the address pmm_alloc_block last returned
          owned             \* history: blocks handed out and not yet freed

sizes == <<pmm_mem_size, usable_found, pmm_usable_addr, pmm_usable_top>>
counts == <<pmm_free_blocks, pmm_block_count>>
pmmVars == <<pc, i, memmap, sizes, counts, bitmap, ret, owned>>

--------------------------------------------------------------------------------
addr2block(addr) == addr \div BLOCK_SIZE
block2addr(block) == block * BLOCK_SIZE

\* Mutant: the bit is added to the byte instead of or-ed into it.
mmap_set_adds(S) == [b \in Blocks |-> IF b \in S THEN bitmap[b] + 1 ELSE bitmap[b]]

mmap_set(S) == [b \in Blocks |-> IF b \in S THEN 1 ELSE bitmap[b]]
mmap_unset(S) == [b \in Blocks |-> IF b \in S THEN 0 ELSE bitmap[b]]

\* The bytes of the bitmap, and the blocks that have a bit in them.
BitmapBytes == pmm_block_count \div BYTE_BITS
InBitmap(b) == b < BitmapBytes * BYTE_BITS

\* The block numbers the loop over an entry goes through, one per BLOCK_SIZE.
EntryBlocks(e) ==
  {addr2block(e.base + j) : j \in {x \in 0 .. e.length - 1 : x % BLOCK_SIZE = 0}}

\* The candidates of find_free_block: clear bits of the bitmap's own bytes.
FreeBits == {b \in Blocks : InBitmap(b) /\ bitmap[b] = 0}

\* find_free_block scans bytes and bits upward: block is the lowest free one.
find_free_block(block) == block \in FreeBits /\ \A c \in FreeBits : block <= c

--------------------------------------------------------------------------------
PmmInit ==
  /\ pc = "start" /\ i = 1
  /\ memmap \in Memmaps \cup {NULL}
  /\ pmm_mem_size = 0 /\ usable_found = 0
  /\ pmm_usable_addr = 0 /\ pmm_usable_top = 0
  /\ pmm_free_blocks = 0 /\ pmm_block_count = 0
  /\ bitmap \in OldMemory
  /\ ret = 0 /\ owned = {}

\* pmm_init: no memory map, no kernel (log_panic never returns).
CheckMemmap ==
  /\ pc = "start"
  /\ pc' = IF memmap = NULL THEN "panic" ELSE "size"
  /\ UNCHANGED <<i, memmap, sizes, counts, bitmap, ret, owned>>

\* First loop: add up the lengths of the usable entries.
SumSize ==
  /\ pc = "size" /\ i <= Len(memmap)
  /\ i' = i + 1
  /\ pmm_mem_size' = IF memmap[i].type = USABLE
                       THEN pmm_mem_size + memmap[i].length
                       ELSE pmm_mem_size
  /\ UNCHANGED <<pc, memmap, usable_found, pmm_usable_addr, pmm_usable_top,
                 counts, bitmap, ret, owned>>

SizeKnown ==
  /\ pc = "size" /\ i > Len(memmap)
  /\ pc' = "parse" /\ i' = 1
  /\ UNCHANGED <<memmap, sizes, counts, bitmap, ret, owned>>

\* Second loop: the first usable entry is where the bitmap goes.
ParseEntry ==
  /\ pc = "parse" /\ i <= Len(memmap)
  /\ i' = i + 1
  /\ IF memmap[i].type = USABLE /\ usable_found = 0
       THEN /\ pmm_usable_addr' = memmap[i].base
            /\ pmm_usable_top' = memmap[i].base + memmap[i].length
            /\ usable_found' = 1
       ELSE UNCHANGED <<pmm_usable_addr, pmm_usable_top, usable_found>>
  /\ UNCHANGED <<pc, memmap, pmm_mem_size, counts, bitmap, ret, owned>>

\* Mutant: the bitmap is not filled with 0xFF first.
PlaceBitmap_NoFill ==
  /\ pc = "parse" /\ i > Len(memmap)
  /\ pc' = "unset" /\ i' = 1
  /\ pmm_free_blocks' = (pmm_usable_top \div BLOCK_SIZE) * BYTE_BITS
  /\ pmm_block_count' = pmm_mem_size \div BLOCK_SIZE
  /\ UNCHANGED <<memmap, sizes, bitmap, ret, owned>>

\* The counters are computed and every byte of the bitmap is set to 0xFF.
PlaceBitmap ==
  /\ pc = "parse" /\ i > Len(memmap)
  /\ pc' = "unset" /\ i' = 1
  /\ pmm_free_blocks' = (pmm_usable_top \div BLOCK_SIZE) * BYTE_BITS
  /\ pmm_block_count' = pmm_mem_size \div BLOCK_SIZE
  /\ bitmap' = mmap_set({b \in Blocks : InBitmap(b)'})
  /\ UNCHANGED <<memmap, sizes, ret, owned>>

\* Third loop: clear the bits of the usable entries' blocks.
UnsetEntry ==
  /\ pc = "unset" /\ i <= Len(memmap)
  /\ i' = i + 1
  /\ bitmap' = IF memmap[i].type = USABLE
                 THEN mmap_unset(EntryBlocks(memmap[i]))
                 ELSE bitmap
  /\ UNCHANGED <<pc, memmap, sizes, counts, ret, owned>>

\* Mutant: the last loop starts one block too high.
ReserveBitmap_OffByOne ==
  LET first == addr2block(pmm_usable_addr) IN
  /\ pc = "unset" /\ i > Len(memmap)
  /\ pc' = "ready"
  /\ bitmap' = mmap_set(first + 1 .. first + BitmapBytes)
  /\ UNCHANGED <<i, memmap, sizes, counts, ret, owned>>

\* Last loop: one block is marked used for every byte of the bitmap.
ReserveBitmap ==
  LET first == addr2block(pmm_usable_addr) IN
  /\ pc = "unset" /\ i > Len(memmap)
  /\ pc' = "ready"
  /\ bitmap' = mmap_set(first .. first + BitmapBytes - 1)
  /\ UNCHANGED <<i, memmap, sizes, counts, ret, owned>>

\* log_panic: "cli; hlt", the processor stays where it is.
log_panic == pc = "panic" /\ UNCHANGED pmmVars

pmm_init == \/ CheckMemmap \/ SumSize \/ SizeKnown \/ ParseEntry
            \/ PlaceBitmap \/ UnsetEntry \/ ReserveBitmap

\* Mutant: the block found is not marked used.
pmm_alloc_block_NoMark ==
  /\ pc = "ready"
  /\ \/ \E block \in FreeBits :
          /\ find_free_block(block)
          /\ ret' = block2addr(block)
          /\ owned' = owned \cup {block}
     \/ /\ FreeBits = {}
        /\ ret' = 0
        /\ UNCHANGED owned
  /\ UNCHANGED <<pc, i, memmap, sizes, counts, bitmap>>

\* pmm_alloc_block: the block's address, or NULL (address 0) if none is free.
pmm_alloc_block ==
  /\ pc = "ready"
  /\ \/ \E block \in FreeBits :
          /\ find_free_block(block)
          /\ bitmap' = mmap_set({block})
          /\ ret' = block2addr(block)
          /\ owned' = owned \cup {block}
     \/ /\ FreeBits = {}
        /\ ret' = 0
        /\ UNCHANGED <<bitmap, owned>>
  /\ UNCHANGED <<pc, i, memmap, sizes, counts>>

\* Mutant: the address is not converted to a block number.
pmm_free_block_NoConvert(addr) ==
  /\ pc = "ready"
  /\ bitmap' = mmap_unset({addr})
  /\ owned' = owned \ {addr2block(addr)}
  /\ UNCHANGED <<pc, i, memmap, sizes, counts, ret>>

\* pmm_free_block(addr): clears the bit of addr's block, whatever it is.
pmm_free_block(addr) ==
  /\ pc = "ready"
  /\ bitmap' = mmap_unset({addr2block(addr)})
  /\ owned' = owned \ {addr2block(addr)}
  /\ UNCHANGED <<pc, i, memmap, sizes, counts, ret>>

\* Callers free only what they were handed, by its address.
PmmNext == \/ pmm_init
           \/ log_panic
           \/ pmm_alloc_block
           \/ \E b \in owned : pmm_free_block(block2addr(b))

PmmSpec == PmmInit /\ [][PmmNext]_pmmVars

--------------------------------------------------------------------------------
PmmTypeOK ==
  /\ pc \in {"start", "size", "parse", "unset", "ready", "panic"}
  /\ i \in Nat \ {0}
  /\ memmap \in Memmaps \cup {NULL}
  /\ pc \in {"size", "parse", "unset", "ready"} => memmap \in Memmaps
  /\ pmm_mem_size \in Nat /\ usable_found \in 0 .. 1
  /\ pmm_usable_addr \in Nat /\ pmm_usable_top \in Nat
  /\ pmm_free_blocks \in Nat /\ pmm_block_count \in Nat
  /\ bitmap \in [Blocks -> 0 .. 1]
  /\ ret \in Nat /\ owned \subseteq Blocks

\* Every byte of block b lies inside one usable entry of the memory map.
UsableBlock(b) ==
  \E k \in 1 .. Len(memmap) :
    /\ memmap[k].type = USABLE
    /\ memmap[k].base <= block2addr(b)
    /\ block2addr(b + 1) <= memmap[k].base + memmap[k].length

(***************************************************************************)
(* A block that pmm_alloc_block handed out consists of usable memory: the  *)
(* bits pmm_init leaves clear, and those pmm_free_block clears again, are  *)
(* never those of reserved memory, of holes or of the zero page.           *)
(***************************************************************************)
HandedOutIsUsable == \A b \in owned : UsableBlock(b)

(***************************************************************************)
(* No caller ever holds a block that overlaps the bytes of the bitmap: a   *)
(* caller that writes its block cannot corrupt the allocator.              *)
(***************************************************************************)
BitmapNotHandedOut ==
  \A b \in owned : \/ block2addr(b + 1) <= pmm_usable_addr
                   \/ pmm_usable_addr + BitmapBytes <= block2addr(b)

(***************************************************************************)
(* Nothing is lost or duplicated: from pmm_init on, a usable block that    *)
(* has a bit in the bitmap and lies above the blocks pmm_init reserved is  *)
(* free exactly when no caller holds it.                                   *)
(***************************************************************************)
NothingLost ==
  pc = "ready" =>
    \A b \in Blocks :
      /\ InBitmap(b)
      /\ UsableBlock(b)
      /\ b >= addr2block(pmm_usable_addr) + BitmapBytes
      => (bitmap[b] = 0 <=> b \notin owned)

(***************************************************************************)
(* The allocator implements a pool of blocks.  Before pmm_init has         *)
(* finished the pool is not up; block 0 is not in it, so the answer NULL   *)
(* (address 0) is a refusal and nothing else, and a refusal means that no  *)
(* block the allocator manages is free.                                    *)
(***************************************************************************)
BP == INSTANCE BlockPool WITH
        Pool <- Blocks \ {0}, None <- 0,
        up <- pc = "ready",
        free <- IF pc = "ready" THEN FreeBits ELSE {},
        held <- owned,
        answer <- addr2block(ret)

ImplementsBlockPool == BP!PoolSpec

--------------------------------------------------------------------------------
(***************************************************************************)
(* pmm.c:121 says of the third loop "set usable blocks in the bitmap".     *)
(* The bitmap has pmm_block_count bits, a count of usable blocks, but it   *)
(* is indexed by block number: every usable block has a bit in it only if  *)
(* usable memory starts at 0 and has no hole.                              *)
(***************************************************************************)
UsableBlocksInBitmap ==
  pc = "ready" => \A b \in Blocks : UsableBlock(b) => InBitmap(b)
================================================================================
