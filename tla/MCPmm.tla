--------------------------------- MODULE MCPmm ---------------------------------
(***************************************************************************)
(* A 32-byte machine: 16 blocks of 2 bytes, bitmap bytes of 2 bits.        *)
(***************************************************************************)
EXTENDS Pmm

MCBlocks == 0 .. 15

Entry(t, first, last) == [type |-> t, base |-> 2 * first,
                          length |-> 2 * (last + 1 - first)]

Contiguous == <<Entry("RESERVED", 0, 0), Entry(USABLE, 1, 15)>>
WithHole   == <<Entry(USABLE, 1, 4), Entry("RESERVED", 5, 7),
                Entry(USABLE, 8, 14), Entry("FRAMEBUFFER", 15, 15)>>
LowHole    == <<Entry("RESERVED", 0, 0), Entry(USABLE, 1, 2),
                Entry("BOOTLOADER_RECLAIMABLE", 3, 3), Entry(USABLE, 4, 12)>>
HighOnly   == <<Entry("RESERVED", 0, 9), Entry(USABLE, 10, 13)>>
NoUsable   == <<Entry("RESERVED", 0, 15)>>

MCMemmaps == {Contiguous, WithHole, LowHole, HighOnly, NoUsable}

\* The memory under the bitmap: zeroed, all ones, or a mixture.
MCOldMemory == {[b \in MCBlocks |-> 0], [b \in MCBlocks |-> 1],
                [b \in MCBlocks |-> b % 2]}
================================================================================
