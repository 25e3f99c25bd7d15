--------------------------------- MODULE MCVmm ---------------------------------
(***************************************************************************)
(* Tables of 4 entries: 256 virtual pages.  The HHDM starts at page 128,   *)
(* the kernel at page 240, and pages 1 to 12 are identity mapped.  As      *)
(* canonical addresses have, those of the HHDM and of the kernel have bits *)
(* set above the ones used as indices (3 * 256 pages).  Pages are 2 bytes, *)
(* bitmap bytes 8 bits.                                                    *)
(***************************************************************************)
EXTENDS Vmm

MCBlocks == 0 .. 56

Entry(t, first, last) == [type |-> t, base |-> 2 * first,
                          length |-> 2 * (last + 1 - first)]

\* Enough memory to boot, with some blocks to spare, and too little.
Machine(last) == <<Entry("RESERVED", 0, 0), Entry(USABLE, 1, 6),
                   Entry("RESERVED", 7, 7), Entry(USABLE, 8, last),
                   Entry("BOOTLOADER_RECLAIMABLE", 49, 49),
                   Entry("ACPI_RECLAIMABLE", 50, 50),
                   Entry("FRAMEBUFFER", 51, 51),
                   Entry("KERNEL_AND_MODULES", 52, 56)>>

MCMemmaps == {Machine(48), Machine(24)}

MCOldMemory == {[b \in MCBlocks |-> 1]}

MCKernelAddresses == {[virtual_base |-> 2016, physical_base |-> 104], NULL}
MCHhdmOffsets == {0, 1792}

\* text_start .. text_end and so on, laid out the way linker.ld does.
MCSections == [text |-> [start |-> 2016, end |-> 2017],
               rodata |-> [start |-> 2020, end |-> 2021],
               data |-> [start |-> 2024, end |-> 2025]]

MCClientPages == {64, 243}

\* Memory at boot: zeroed, or full of entries that look present.
MCOldTables ==
  {[b \in MCBlocks |-> [s \in 0 .. 3 |-> e]] :
     e \in {[addr |-> 0, flags |-> {}],
            [addr |-> 5, flags |-> {"PRESENT", "READ_WRITE"}]}}
================================================================================
