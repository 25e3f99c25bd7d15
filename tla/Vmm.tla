---------------------------------- MODULE Vmm ----------------------------------
(***************************************************************************)
(* The virtual memory manager, kern/mm/vmm.c, on top of the physical one:  *)
(* four-level page tables of RADIX entries (512), each in a block of its   *)
(* own.  vmm_init builds the kernel's tables, one loop of vmm_map_page     *)
(* calls after the other, and loads them into cr3; afterwards callers use  *)
(* vmm_map_page and vmm_free_page.                                         *)
(*                                                                         *)
(* Addresses of pages are page numbers; PAGE_SIZE is BLOCK_SIZE.  A call   *)
(* walks the tables with one action per get_lower_table and ends with the  *)
(* store of the entry.  Every store is followed by a reload of cr3, so the *)
(* processor translates by what the tables hold.                           *)
(***************************************************************************)
EXTENDS Pmm

CONSTANTS RADIX,          \* entries of a page table (512)
          HhdmOffsets,    \* the answers to the HHDM request, in bytes
          KernelAddresses,\* the answers to the kernel address request
          Sections,       \* linker symbols: text, rodata, data
          IdentityTop,    \* end of the identity mapped addresses (4 GiB)
          lapic_addr,     \* physical address of the local APIC
          ClientPages,    \* virtual pages that callers map after vmm_init
          OldTables       \* what the physical blocks may hold at boot

ASSUME VmmAssumption ==
  /\ RADIX \in Nat \ {0} /\ HhdmOffsets \subseteq Nat
  /\ KernelAddresses \subseteq [virtual_base : Nat, physical_base : Nat] \cup {NULL}
  /\ Sections \in [text : [start : Nat, end : Nat], rodata : [start : Nat, end : Nat],
                   data : [start : Nat, end : Nat]]
  /\ IdentityTop \in Nat /\ lapic_addr \in Nat
  /\ ClientPages \subseteq 0 .. RADIX * RADIX * RADIX * RADIX - 1

\* linker.ld puts every section above the kernel's virtual base.
ASSUME SectionsAssumption ==
  \A k \in KernelAddresses \ {NULL} : \A s \in DOMAIN Sections :
    k.virtual_base <= Sections[s].start

ASSUME TablesAssumption ==
  OldTables \subseteq
    [Blocks -> [0 .. RADIX - 1 ->
      [addr : Nat, flags : SUBSET {"PRESENT", "READ_WRITE", "ACCESS_ALL",
                                   "EXECUTE_DISABLE"}]]]

VARIABLES vpc,              \* where vmm_init is, then "ready", or "panic"
          entry,            \* the memory map entry its second loop is at
          n,                \* iterations of the current loop that are done
          hhdm_response,    \* the boot loader's answer, 0 if none
          hhdmoffset,       \* 0 until vmm_init stores the answer
          kernel_address,   \* the boot loader's answer, NULL if none
          kernel_page_map,  \* the block of the kernel's PML4, 0 before
          mem,              \* the blocks, read as page tables
          cr3,              \* the PML4 in use, 0 for the boot loader's
          call,             \* the vmm_map_page or vmm_free_page in progress
          held              \* history: blocks the callers of the VMM hold

tableVars == <<kernel_page_map, mem, cr3>>
bootVars == <<hhdm_response, kernel_address>>
vmmVars == <<vpc, entry, n, bootVars, hhdmoffset, tableVars, call, held>>

--------------------------------------------------------------------------------
PTE_BIT_PRESENT == "PRESENT"
PTE_BIT_READ_WRITE == "READ_WRITE"
PTE_BIT_ACCESS_ALL == "ACCESS_ALL"
PTE_BIT_EXECUTE_DISABLE == "EXECUTE_DISABLE"

ReadOnly == {PTE_BIT_PRESENT}
ReadWrite == {PTE_BIT_PRESENT, PTE_BIT_READ_WRITE}
NoExecute == {PTE_BIT_EXECUTE_DISABLE}

VPAGES == RADIX * RADIX * RADIX * RADIX
VPages == 0 .. VPAGES - 1
Slots == 0 .. RADIX - 1
PteBits == ReadWrite \cup NoExecute \cup {PTE_BIT_ACCESS_ALL}
PTEs == [addr : Nat, flags : SUBSET PteBits]

NoPTE == [addr |-> 0, flags |-> {}]
ZeroTable == [s \in Slots |-> NoPTE]
present(pte) == PTE_BIT_PRESENT \in pte.flags

\* Mutant: the PMD index is taken from the bits of the PUD index.
Index_WrongShift(va, level) ==
  CASE level = 4 -> (va \div (RADIX * RADIX * RADIX)) % RADIX
    [] level \in {2, 3} -> (va \div (RADIX * RADIX)) % RADIX
    [] level = 1 -> va % RADIX

\* The index of a virtual page in the table of a level: 4 PML4 ... 1 PT.
Index(va, level) ==
  CASE level = 4 -> (va \div (RADIX * RADIX * RADIX)) % RADIX
    [] level = 3 -> (va \div (RADIX * RADIX)) % RADIX
    [] level = 2 -> (va \div RADIX) % RADIX
    [] level = 1 -> va % RADIX

ALIGN_DOWN(addr) == addr \div BLOCK_SIZE
ALIGN_UP(addr) == (addr + BLOCK_SIZE - 1) \div BLOCK_SIZE

NoCall == [op |-> "none", va |-> 0, pa |-> 0, flags |-> {}, level |-> 0, table |-> 0]

--------------------------------------------------------------------------------
VmmInit ==
  /\ PmmInit
  /\ vpc = "start" /\ entry = 1 /\ n = 0
  /\ hhdm_response \in HhdmOffsets /\ hhdmoffset = 0
  /\ kernel_address \in KernelAddresses
  /\ kernel_page_map = 0 /\ cr3 = 0
  /\ mem \in OldTables
  /\ call = NoCall /\ held = {}

\* vmm_init up to its loops: the boot loader's answers, an empty PML4.
StartVmm ==
  /\ pc = "ready" /\ vpc = "start"
  /\ hhdmoffset' = hhdm_response
  /\ \/ /\ hhdm_response = 0 \/ kernel_address = NULL
        /\ vpc' = "panic"
        /\ UNCHANGED <<kernel_page_map, mem, pmmVars>>
     \/ /\ hhdm_response # 0 /\ kernel_address # NULL
        /\ pmm_alloc_block
        /\ IF ret' = 0
             THEN vpc' = "panic" /\ UNCHANGED <<kernel_page_map, mem>>
             ELSE /\ vpc' = "bitmap"
                  /\ kernel_page_map' = addr2block(ret')
                  /\ mem' = [mem EXCEPT ![addr2block(ret')] = ZeroTable]
  /\ UNCHANGED <<entry, n, bootVars, cr3, call, held>>

--------------------------------------------------------------------------------
\* The loops of vmm_init.  A loop maps pages va, va + 1, ... to pa, pa + 1, ...
Loop(va, pa, pages, flags) ==
  [va |-> va, pa |-> pa, pages |-> pages, flags |-> flags]

\* Mutant: the loops over a region stop one page early.
Hhdm_OffByOne(addr, length, flags) ==
  Loop(ALIGN_DOWN(addr + hhdmoffset), ALIGN_DOWN(addr),
       IF length = 0 THEN 0 ELSE ALIGN_UP(length) - 1, flags)

Hhdm(addr, length, flags) ==
  Loop(ALIGN_DOWN(addr + hhdmoffset), ALIGN_DOWN(addr), ALIGN_UP(length), flags)

\* Mutant: the end of a section is rounded down.
Section_RoundedDown(s, flags) ==
  LET first == ALIGN_DOWN(s.start) IN
  Loop(first,
       first - ALIGN_DOWN(kernel_address.virtual_base)
             + ALIGN_DOWN(kernel_address.physical_base),
       ALIGN_DOWN(s.end) - first, flags)

Section(s, flags) ==
  LET first == ALIGN_DOWN(s.start) IN
  Loop(first,
       first - ALIGN_DOWN(kernel_address.virtual_base)
             + ALIGN_DOWN(kernel_address.physical_base),
       ALIGN_UP(s.end) - first, flags)

EntryLoop(e) ==
  CASE e.type \in {USABLE, "BOOTLOADER_RECLAIMABLE", "ACPI_RECLAIMABLE"} ->
         Hhdm(e.base, e.length, ReadWrite)
    [] e.type = "FRAMEBUFFER" -> Hhdm(e.base, e.length, ReadWrite \cup NoExecute)
    [] OTHER -> Hhdm(e.base, 0, {})

\* Mutant: the identity map starts one page late.
IdentityBase_Late == 2

\* The page of address 0 is never mapped.
IdentityBase == 1

CurrentLoop ==
  CASE vpc = "bitmap"   -> Hhdm(pmm_usable_addr, BitmapBytes, ReadWrite)
    [] vpc = "entries"  -> EntryLoop(memmap[entry])
    [] vpc = "text"     -> Section(Sections.text, ReadOnly)
    [] vpc = "rodata"   -> Section(Sections.rodata, ReadOnly \cup NoExecute)
    [] vpc = "data"     -> Section(Sections.data, ReadWrite \cup NoExecute)
    [] vpc = "identity" -> Loop(IdentityBase, IdentityBase,
                                ALIGN_DOWN(IdentityTop) - IdentityBase,
                                ReadWrite \cup NoExecute)
    [] vpc = "lapic"    -> Hhdm(lapic_addr, 1, ReadWrite)

(***************************************************************************)
(* The layout vmm_init relies on.  The boot loader puts the HHDM on a page *)
(* boundary, and usable memory overlaps no framebuffer.  The addresses of  *)
(* the HHDM that are mapped, the kernel's image and the identity map are   *)
(* apart, also in the bits that are used as indices, linker.ld puts a page *)
(* between sections, and callers map pages of their own.                   *)
(***************************************************************************)
Frames(e) == ALIGN_DOWN(e.base) .. ALIGN_DOWN(e.base) + ALIGN_UP(e.length) - 1
MappedTypes == {USABLE, "BOOTLOADER_RECLAIMABLE", "ACPI_RECLAIMABLE", "FRAMEBUFFER"}
FramesOf(m, types) ==
  UNION {Frames(m[k]) : k \in {j \in 1 .. Len(m) : m[j].type \in types}}
Direct(m, h) ==
  {p + ALIGN_DOWN(h) : p \in FramesOf(m, MappedTypes) \cup {ALIGN_DOWN(lapic_addr)}}
SectionPages(s) == ALIGN_DOWN(Sections[s].start) .. ALIGN_UP(Sections[s].end) - 1
Image == UNION {SectionPages(s) : s \in DOMAIN Sections}
Identity == IdentityBase .. ALIGN_DOWN(IdentityTop) - 1
Planned(m, h) == Direct(m, h) \cup Image \cup Identity

ASSUME LayoutAssumption ==
  /\ IdentityTop % BLOCK_SIZE = 0
  /\ \A h \in HhdmOffsets : h % BLOCK_SIZE = 0
  /\ \A s, t \in DOMAIN Sections : s # t => SectionPages(s) \cap SectionPages(t) = {}
  /\ Image \cap Identity = {}
  /\ \A m \in Memmaps :
       FramesOf(m, {"FRAMEBUFFER"}) \cap
         (FramesOf(m, {USABLE}) \cup {ALIGN_DOWN(lapic_addr)}) = {}
  /\ \A m \in Memmaps, h \in HhdmOffsets \ {0} :
       /\ Direct(m, h) \cap (Image \cup Identity) = {}
       /\ \A p, q \in Planned(m, h) : p % VPAGES = q % VPAGES => p = q
       /\ \A p \in Planned(m, h) : p % VPAGES \notin ClientPages

Loops == {"bitmap", "entries", "text", "rodata", "data", "identity", "lapic"}

AfterLoop ==
  IF vpc = "entries" /\ entry < Len(memmap)
    THEN "entries"
    ELSE [bitmap |-> "entries", entries |-> "text", text |-> "rodata",
          rodata |-> "data", data |-> "identity", identity |-> "lapic",
          lapic |-> "set_ctx"][vpc]

\* Of an address only the bits that are used as indices count.
Call(op, va, pa, flags) ==
  /\ call = NoCall
  /\ call' = [op |-> op, va |-> va % VPAGES, pa |-> pa, flags |-> flags,
              level |-> 4, table |-> kernel_page_map]

CallMapPage(va, pa, flags) == Call("map", va, pa, flags)
CallFreePage(va) == Call("free", va, 0, {})

MapNext ==
  LET loop == CurrentLoop IN
  /\ vpc \in Loops /\ n < loop.pages
  /\ CallMapPage(loop.va + n, loop.pa + n, loop.flags)
  /\ n' = n + 1
  /\ UNCHANGED <<vpc, entry, bootVars, hhdmoffset, tableVars, held, pmmVars>>

LoopDone ==
  /\ vpc \in Loops /\ call = NoCall /\ n = CurrentLoop.pages
  /\ n' = 0 /\ vpc' = AfterLoop
  /\ entry' = IF vpc = "entries" THEN entry + 1 ELSE entry
  /\ UNCHANGED <<bootVars, hhdmoffset, tableVars, call, held, pmmVars>>

\* Mutant: cr3 gets the virtual address of the PML4.
vmm_set_ctx_Virtual ==
  /\ vpc = "set_ctx"
  /\ vpc' = "ready" /\ cr3' = kernel_page_map + ALIGN_DOWN(hhdmoffset)
  /\ UNCHANGED <<entry, n, bootVars, hhdmoffset, kernel_page_map, mem, call, held,
                 pmmVars>>

\* vmm_set_ctx(&kernel_page_map), the end of vmm_init.
vmm_set_ctx ==
  /\ vpc = "set_ctx"
  /\ vpc' = "ready" /\ cr3' = kernel_page_map
  /\ UNCHANGED <<entry, n, bootVars, hhdmoffset, kernel_page_map, mem, call, held,
                 pmmVars>>

vmm_init == StartVmm \/ MapNext \/ LoopDone \/ vmm_set_ctx

--------------------------------------------------------------------------------
\* Mutant: a new table is not cleared.
Cleared_Not(block) == mem[block]

\* memset(new_page, 0, PAGE_SIZE)
Cleared(block) == ZeroTable

\* A level of the walk of get_pt: the lower table is there, or it is allocated,
\* cleared and entered; without a free block the kernel panics.
get_lower_table ==
  LET indx == Index(call.va, call.level)
      pte == mem[call.table][indx]
  IN
  /\ call # NoCall /\ call.level > 1 /\ vpc # "panic"
  /\ \/ /\ present(pte)
        /\ call' = [call EXCEPT !.table = pte.addr, !.level = @ - 1]
        /\ UNCHANGED <<vpc, mem, pmmVars>>
     \/ /\ ~present(pte)
        /\ pmm_alloc_block
        /\ LET new == addr2block(ret') IN
           IF ret' = 0
             THEN vpc' = "panic" /\ UNCHANGED <<mem, call>>
             ELSE /\ mem' = [mem EXCEPT
                        ![new] = Cleared(new),
                        ![call.table][indx] =
                          [addr |-> new,
                           flags |-> ReadWrite \cup {PTE_BIT_ACCESS_ALL}]]
                  /\ call' = [call EXCEPT !.table = new, !.level = @ - 1]
                  /\ UNCHANGED vpc
  /\ UNCHANGED <<entry, n, bootVars, hhdmoffset, kernel_page_map, cr3, held>>

\* The end of vmm_map_page: pt[pt_index] = physical_addr | flags.
vmm_map_page ==
  /\ call # NoCall /\ call.level = 1 /\ call.op = "map"
  /\ mem' = [mem EXCEPT ![call.table][Index(call.va, 1)] =
                          [addr |-> call.pa, flags |-> call.flags]]
  /\ call' = NoCall
  /\ UNCHANGED <<vpc, entry, n, bootVars, hhdmoffset, kernel_page_map, cr3, held,
                 pmmVars>>

\* Mutant: the entry is cleared before the block is read from it.
FreedBlock_Cleared == 0

\* Mutant: the page table is freed instead of the page.
FreedBlock_Table == call.table

FreedBlock == mem[call.table][Index(call.va, 1)].addr

\* The end of vmm_free_page: the block behind the entry is freed.
vmm_free_page ==
  /\ call # NoCall /\ call.level = 1 /\ call.op = "free"
  /\ pmm_free_block(block2addr(FreedBlock))
  /\ mem' = [mem EXCEPT ![call.table][Index(call.va, 1)] = NoPTE]
  /\ call' = NoCall
  /\ held' = held \ {FreedBlock}
  /\ UNCHANGED <<vpc, entry, n, bootVars, hhdmoffset, kernel_page_map, cr3>>

--------------------------------------------------------------------------------
\* How the processor translates a page: all four entries must be present, and
\* a right must be granted at every level.
Translate(va) ==
  LET e4 == mem[kernel_page_map][Index(va, 4)]
      e3 == mem[e4.addr][Index(va, 3)]
      e2 == mem[e3.addr][Index(va, 2)]
      e1 == mem[e2.addr][Index(va, 1)]
      upper == e4.flags \cap e3.flags \cap e2.flags
  IN  IF /\ kernel_page_map # 0
         /\ present(e4) /\ present(e3) /\ present(e2) /\ present(e1)
        THEN [addr |-> e1.addr,
              flags |-> e1.flags \ (IF PTE_BIT_READ_WRITE \in upper
                                      THEN {} ELSE {PTE_BIT_READ_WRITE})]
        ELSE NoPTE

\* Callers after vmm_init (external): they take blocks, map each of them at
\* most once, at pages of their own that are free, and free what they mapped.
ClientAlloc ==
  /\ vpc = "ready" /\ call = NoCall
  /\ pmm_alloc_block
  /\ held' = IF ret' = 0 THEN held ELSE held \cup {addr2block(ret')}
  /\ UNCHANGED <<vpc, entry, n, bootVars, hhdmoffset, tableVars, call>>

ClientMap ==
  /\ vpc = "ready"
  /\ \E va \in ClientPages, b \in held :
       /\ Translate(va) = NoPTE
       /\ \A other \in ClientPages : Translate(other).addr # b
       /\ CallMapPage(va, b, ReadWrite)
  /\ UNCHANGED <<vpc, entry, n, bootVars, hhdmoffset, tableVars, held, pmmVars>>

ClientFree ==
  /\ vpc = "ready"
  /\ \E va \in ClientPages : Translate(va).addr \in held /\ CallFreePage(va)
  /\ UNCHANGED <<vpc, entry, n, bootVars, hhdmoffset, tableVars, held, pmmVars>>

VmmPanic == vpc = "panic" /\ UNCHANGED <<vmmVars, pmmVars>>

VmmNext == \/ (pmm_init \/ log_panic) /\ UNCHANGED vmmVars
           \/ vmm_init
           \/ get_lower_table \/ vmm_map_page \/ vmm_free_page
           \/ ClientAlloc \/ ClientMap \/ ClientFree
           \/ VmmPanic

VmmSpec == VmmInit /\ [][VmmNext]_<<vmmVars, pmmVars>>

--------------------------------------------------------------------------------
BootTypes ==
  /\ vpc \in Loops \cup {"start", "set_ctx", "ready", "panic"}
  /\ entry \in Nat /\ n \in Nat
  /\ hhdm_response \in HhdmOffsets /\ hhdmoffset \in {0, hhdm_response}
  /\ kernel_address \in KernelAddresses

TableTypes ==
  /\ kernel_page_map \in Blocks \cup {0} /\ cr3 \in {0, kernel_page_map}
  /\ mem \in [Blocks -> [Slots -> PTEs]]
  /\ held \subseteq Blocks

CallTypes ==
  call # NoCall => call \in [op : {"map", "free"}, va : VPages, pa : Nat,
                             flags : SUBSET PteBits, level : 1 .. 4, table : Blocks]

VmmTypeOK == BootTypes /\ TableTypes /\ CallTypes

\* The tables that the tables of a set enter, and whether each is entered once.
Down(m, tables) ==
  {m[p[1]][p[2]].addr : p \in {q \in tables \X Slots : present(m[q[1]][q[2]])}}

EnteredOnce(m, tables) ==
  \A t, u \in tables, s, r \in Slots :
    /\ present(m[t][s]) /\ present(m[u][r])
    /\ m[t][s].addr = m[u][r].addr
    => t = u /\ s = r

Level4 == IF kernel_page_map = 0 THEN {} ELSE {kernel_page_map}
Level3 == Down(mem, Level4)
Level2 == Down(mem, Level3)
Level1 == Down(mem, Level2)
Tables == Level4 \cup Level3 \cup Level2 \cup Level1

(***************************************************************************)
(* The page tables are a tree: no table is entered twice, at one level or  *)
(* at two, so a store through one path never shows up under another.       *)
(***************************************************************************)
TablesAreATree ==
  /\ EnteredOnce(mem, Level4) /\ EnteredOnce(mem, Level3) /\ EnteredOnce(mem, Level2)
  /\ Level4 \cap (Level3 \cup Level2 \cup Level1) = {}
  /\ Level3 \cap (Level2 \cup Level1) = {}
  /\ Level2 \cap Level1 = {}

(***************************************************************************)
(* Every block the allocator has handed out is a page table in the tree or *)
(* held by a caller, and none is both: the VMM neither leaks a table nor   *)
(* uses a block as a table that can be handed out again.                   *)
(***************************************************************************)
BlocksAccountedFor == owned = Tables \cup held /\ Tables \cap held = {}

(***************************************************************************)
(* Once the kernel runs on its own tables, the allocator's bitmap is still *)
(* mapped writable at the address pmm_bitmap holds: pmm_init computed it   *)
(* with hhdmoffset = 0, so only the identity map keeps it reachable, and   *)
(* does so if the bitmap ends below IdentityTop.                           *)
(***************************************************************************)
BitmapStaysReachable ==
  cr3 # 0 /\ pmm_usable_addr + BitmapBytes <= IdentityTop =>
    \A p \in ALIGN_DOWN(pmm_usable_addr) ..
             ALIGN_UP(pmm_usable_addr + BitmapBytes) - 1 :
      Translate(p) = [addr |-> p, flags |-> ReadWrite \cup NoExecute]

(***************************************************************************)
(* Once the kernel runs on its own tables, every block that can be handed  *)
(* out, and every page table, is mapped writable at its HHDM address, so   *)
(* get_lower_table can clear and fill tables; so is the local APIC.        *)
(***************************************************************************)
TablesStayReachable ==
  cr3 # 0 =>
    \A b \in owned \cup FreeBits \cup {ALIGN_DOWN(lapic_addr)} :
      Translate(b + ALIGN_DOWN(hhdmoffset)) = [addr |-> b, flags |-> ReadWrite]

(***************************************************************************)
(* Once the kernel runs on its own tables, each of its sections is mapped  *)
(* to where the boot loader put it with the rights linker.ld gives it: no  *)
(* later mapping, of vmm_init or of a caller, overrides one of them.       *)
(***************************************************************************)
KernelStaysMapped ==
  cr3 # 0 =>
    \A s \in DOMAIN Sections :
      \A p \in ALIGN_DOWN(Sections[s].start) .. ALIGN_UP(Sections[s].end) - 1 :
        Translate(p) =
          [addr |-> p - ALIGN_DOWN(kernel_address.virtual_base)
                      + ALIGN_DOWN(kernel_address.physical_base),
           flags |-> CASE s = "text" -> ReadOnly
                       [] s = "rodata" -> ReadOnly \cup NoExecute
                       [] s = "data" -> ReadWrite \cup NoExecute]

(***************************************************************************)
(* The VMM and its callers use the PMM as it must be used: they free only  *)
(* blocks that are handed out, so everything proved of the PMM holds here. *)
(***************************************************************************)
UsesPmmProperly == PmmSpec

(***************************************************************************)
(* The page tables implement an address space: only the store that ends a  *)
(* call changes what any page is mapped to, and it changes the page of the *)
(* call; allocating and linking tables on the way changes nothing.         *)
(***************************************************************************)
AS == INSTANCE AddressSpace WITH
        Unmapped <- NoPTE, None <- NoCall,
        space <- [va \in VPages |-> Translate(va)],
        request <- IF call = NoCall THEN NoCall
                   ELSE [va |-> call.va, to |-> [addr |-> call.pa, flags |-> call.flags]]

ImplementsAddressSpace == AS!SpaceSpec
================================================================================
