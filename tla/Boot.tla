---------------------------------- MODULE Boot ---------------------------------
(***************************************************************************)
(* The boot sequence: _start (kern/kern.c) on the boot processor and       *)
(* ap_trampoline (kern/sys/smp/smp.c) on the others, with the timer and    *)
(* keyboard interrupts that arrive between any two of their steps.         *)
(*                                                                         *)
(* What a step computes is in its component's module.  Here it is what it  *)
(* touches: a page is a region of physical memory together with the way it *)
(* is addressed, by its physical address ("id"), by that plus the offset   *)
(* of the direct map ("hhdm"), or at the kernel's link address ("image").  *)
(* The ACPI tables and both APICs are below 4 GiB.  The allocator's bitmap *)
(* lies where usable memory begins, which a machine may have there or not. *)
(***************************************************************************)
EXTENDS Naturals, Sequences

CONSTANTS APs,      \* application processors a machine may have
          Missing,  \* what the boot loader or the firmware may not provide
          SLEEP     \* the argument of apic_sleep (2)

ASSUME ApsAssumption == "bsp" \notin APs /\ SLEEP \in Nat

VARIABLES missing,        \* the one thing that is not provided, or "none"
          present,        \* the processors of this machine
          lapic0,         \* the one with local APIC id 0; BSP also if none has it
          bitmap_low,     \* the allocator's bitmap is in the first 4 GiB
          cpu,            \* of each: its next step, interrupt flag, IDT, page
                          \* map ("boot" or "kernel"), whether its timer runs
          keyboard,       \* IRQ 1 is unmasked
          hhdmoffset,     \* 0, or 1 for the offset
          lapic_address,  \* 0, or 1 for the address in the MADT
          page_map,       \* the pages kernel_page_map maps
          released,       \* processors whose goto_address is set
          ticks,          \* timer interrupts since apic_sleep was called
          panicked,       \* log_panic has stopped the boot processor
          fault           \* an access or interrupt that cannot be served

machine == <<missing, present, lapic0, bitmap_low>>
shared == <<keyboard, hhdmoffset, lapic_address, page_map, released, ticks>>
bootVars == <<machine, cpu, shared, panicked, fault>>

BSP == "bsp"
CPUs == APs \cup {BSP}

\* Mutant: the page map is switched before ACPI is looked at.
bsp_order_VmmFirst ==
  <<"fb_init", "gdt_init", "idt_init", "pmm_init", "vmm_init", "map", "vmm_set_ctx",
    "init_acpi", "init_apic", "calibrate_timer", "ioapic", "ps2_int_init", "smp_init",
    "hcf">>

\* The calls of _start, the long ones in their parts.
bsp_order ==
  <<"fb_init", "gdt_init", "idt_init", "pmm_init",
    "init_acpi", "init_apic", "calibrate_timer", "ioapic", "ps2_int_init",
    "vmm_init", "map", "vmm_set_ctx", "smp_init", "hcf">>

\* The calls of ap_trampoline.
ap_order ==
  <<"parked", "gdt_init", "idt_load", "vmm_set_ctx", "init_apic_ap", "sti", "hlt">>

step(c) == IF c = BSP THEN bsp_order[cpu[c].pc] ELSE ap_order[cpu[c].pc]

--------------------------------------------------------------------------------
\* External: the boot loader's page map.
Regions == {"usable", "bitmap", "framebuffer", "reclaimable", "tables", "lapic", "ioapic"}
Low == {"tables", "lapic", "ioapic"} \cup (IF bitmap_low THEN {"bitmap"} ELSE {})
BootMap == {<<"image", "image">>} \cup (Low \X {"id"}) \cup (Regions \X {"hhdm"})

\* Mutant: the identity map is taken to cover all memory.
identity_map_All == Regions \X {"id"}

\* The first 4 GiB.
identity_map == Low \X {"id"}

\* What vmm_init maps: the bitmap, memory map entries, the image, the first 4 GiB,
\* and the page of the local APIC, whose address init_apic has left in lapic_addr.
vmm_maps ==
  ({"bitmap", "usable", "framebuffer", "reclaimable", "tables"} \X {"hhdm"})
  \cup {<<"image", "image">>} \cup identity_map
  \cup (IF lapic_address = 0 THEN {} ELSE {<<"lapic", "hhdm">>})

\* What every step needs: code and data, the stack, the screen.
Always == {<<"image", "image">>, <<"reclaimable", "hhdm">>, <<"framebuffer", "hhdm">>}

\* pmm_bitmap is computed while hhdmoffset is 0 and never again.
Bitmap == <<"bitmap", "id">>

\* A block that pmm_alloc_block returns is cleared at its address plus hhdmoffset.
Allocated == {Bitmap, <<"usable", "hhdm">>}

\* A response of the boot loader that is used without a test.
Untested == {"framebuffer", "hhdm"}
Response(what) == IF missing = what THEN {<<"null", "id">>} ELSE {}

Tables == <<"tables", "id">>      \* madt and fadt are physical addresses
LapicRead == <<"lapic", "id">>    \* apic_read adds no offset

\* apic_write, and so apic_eoi: base + hhdmoffset.
LapicWrite(base) ==
  IF base = 0 THEN <<"null", "id">>
  ELSE <<"lapic", IF hhdmoffset = 0 THEN "id" ELSE "hhdm">>

Mapped(map) == IF map = "boot" THEN BootMap ELSE page_map

--------------------------------------------------------------------------------
BootInit ==
  /\ missing \in Missing \cup {"none"} /\ present \in SUBSET APs
  /\ lapic0 \in present \cup {BSP} /\ bitmap_low \in BOOLEAN
  /\ cpu = [c \in CPUs |-> [pc |-> 1, intr |-> FALSE, idt |-> FALSE, cr3 |-> "boot",
                            timer |-> FALSE]]
  /\ keyboard = FALSE /\ hhdmoffset = 0 /\ lapic_address = 0
  /\ page_map = {} /\ released = {} /\ ticks = 0
  /\ panicked = FALSE /\ fault = "none"

Running(c) == fault = "none" /\ ~(c = BSP /\ panicked)

\* Processor c is at step s, touches these pages, and its state becomes `after`.
Step(c, s, pages, after) ==
  /\ Running(c) /\ step(c) = s
  /\ cpu' = [cpu EXCEPT ![c] = after]
  /\ fault' = IF Always \cup pages \subseteq Mapped(after.cr3) THEN "none" ELSE "page"
  /\ UNCHANGED <<machine, panicked>>

Past(c) == [cpu[c] EXCEPT !.pc = @ + 1]

\* log_panic: step s finds that something is missing.
Panic(s, what) ==
  /\ Running(BSP) /\ step(BSP) = s /\ missing \in what
  /\ panicked' = TRUE
  /\ cpu' = [cpu EXCEPT ![BSP].intr = FALSE]
  /\ UNCHANGED <<machine, shared, fault>>

Plain(s, pages) == Step(BSP, s, pages, Past(BSP)) /\ UNCHANGED shared

\* idt_load: lidt and sti.
idt_load(c, s) ==
  /\ Step(c, s, {}, [Past(c) EXCEPT !.idt = TRUE, !.intr = TRUE])
  /\ UNCHANGED shared

\* The memory map is looked at, and the bitmap filled.
pmm_init == \/ Panic("pmm_init", {"memmap"})
            \/ missing # "memmap" /\ Plain("pmm_init", {Bitmap})

\* init_acpi up to the call of init_apic, and the cli there.
AcpiNeeds == {"rsdp", "madt", "fadt"}

init_acpi ==
  \/ Panic("init_acpi", AcpiNeeds)
  \/ /\ missing \notin AcpiNeeds
     /\ Step(BSP, "init_acpi", {Tables}, [Past(BSP) EXCEPT !.intr = FALSE])
     /\ UNCHANGED shared

\* calibrate_timer on either kind of processor, with pmt_delay.
calibrate_timer(c, s) ==
  /\ Step(c, s, {Tables, LapicRead, LapicWrite(1)}, [Past(c) EXCEPT !.timer = TRUE])
  /\ lapic_address' = 1
  /\ UNCHANGED <<keyboard, hhdmoffset, page_map, released, ticks>>


sti(c) == [Past(c) EXCEPT !.intr = TRUE]

\* The MADT's records and the spurious vector; the timer; the pins of the I/O
\* APIC, then sti; the keyboard.
init_apic ==
  \/ Plain("init_apic", {Tables, LapicRead, LapicWrite(1)})
  \/ Panic("calibrate_timer", {"pm timer"})
  \/ missing # "pm timer" /\ calibrate_timer(BSP, "calibrate_timer")
  \/ Step(BSP, "ioapic", {<<"ioapic", "id">>}, sti(BSP)) /\ UNCHANGED shared
  \/ /\ Step(BSP, "ps2_int_init", {<<"ioapic", "id">>, Tables}, Past(BSP))
     /\ keyboard' = TRUE
     /\ UNCHANGED <<hhdmoffset, lapic_address, page_map, released, ticks>>

\* vmm_init stores the offset: interrupts use it from here on, with the boot
\* loader's map.  An offset of 0 is tested for, then the kernel's address, then
\* the block for the root.  Where memory is short that may be there.
vmm_init ==
  \/ /\ hhdmoffset = 0 /\ missing # "hhdm offset"
     /\ Step(BSP, "vmm_init", Response("hhdm"), cpu[BSP])
     /\ hhdmoffset' = 1
     /\ UNCHANGED <<keyboard, lapic_address, page_map, released, ticks>>
  \/ Panic("vmm_init", {"hhdm offset"})
  \/ hhdmoffset = 1 /\ Panic("vmm_init", {"kernel address", "memory"})
  \/ /\ hhdmoffset = 1 /\ missing # "kernel address"
     /\ Plain("vmm_init", Allocated)

\* vmm_map_page, one page after the other; until the switch nobody looks at them.
\* Where memory is short, get_lower_table fails at one of them.
vmm_map_page ==
  \/ Panic("map", {"memory"})
  \/ \E p \in vmm_maps \ page_map :
       /\ missing = "memory" => vmm_maps \ page_map # {p}
       /\ Step(BSP, "map", Allocated, cpu[BSP])
       /\ page_map' = page_map \cup {p}
       /\ UNCHANGED <<keyboard, hhdmoffset, lapic_address, released, ticks>>
  \/ vmm_maps \subseteq page_map /\ Plain("map", {})

\* The store to cr3: what follows is fetched through the kernel's map.
vmm_set_ctx(c) ==
  /\ Step(c, "vmm_set_ctx", {}, [Past(c) EXCEPT !.cr3 = "kernel"])
  /\ UNCHANGED shared

\* An apic_sleep before every release, that of the boot processor too.
Release(c) ==
  /\ ticks >= SLEEP
  /\ Step(BSP, "smp_init", {}, cpu[BSP])
  /\ released' = released \cup {c} /\ ticks' = 0
  /\ UNCHANGED <<keyboard, hhdmoffset, lapic_address, page_map>>

smp_init ==
  \/ Panic("smp_init", {"smp"})
  \/ /\ missing # "smp" /\ present # {}
     /\ \E c \in (present \cup {BSP}) \ released : Release(c)
  \/ /\ missing # "smp" /\ present \subseteq released
     /\ present # {} => BSP \in released
     /\ Plain("smp_init", {})

_start == \/ Plain("fb_init", Response("framebuffer"))
          \/ Plain("gdt_init", {}) \/ idt_load(BSP, "idt_init")
          \/ pmm_init \/ init_acpi \/ init_apic
          \/ vmm_init \/ vmm_map_page \/ vmm_set_ctx(BSP) \/ smp_init

--------------------------------------------------------------------------------
\* The boot loader lets a processor go that has a goto_address; cli.  One whose
\* local APIC has id 0 returns at once, and the kernel sees no more of it.
ap_trampoline(c) ==
  \/ c \in released /\ c # lapic0 /\ Step(c, "parked", {}, [Past(c) EXCEPT !.intr = FALSE])
                                 /\ UNCHANGED shared
  \/ Step(c, "gdt_init", {}, Past(c)) /\ UNCHANGED shared
  \/ idt_load(c, "idt_load")
  \/ vmm_set_ctx(c)
  \/ calibrate_timer(c, "init_apic_ap")
  \/ Step(c, "sti", {}, sti(c)) /\ UNCHANGED shared

\* What interrupts a processor: its timer; the keyboard the boot processor.
Sources(c) == (IF cpu[c].timer THEN {"timer"} ELSE {})
              \cup (IF keyboard /\ c = BSP THEN {"keyboard"} ELSE {})

\* exception_handler with apic_timer or ps2_handler: both end in apic_eoi.
Interrupt(c, source) ==
  /\ Running(c) /\ cpu[c].intr
  /\ fault' = CASE ~cpu[c].idt -> "idt"
                [] Always \cup {LapicWrite(lapic_address)}
                     \subseteq Mapped(cpu[c].cr3) -> "none"
                [] OTHER -> "page"
  /\ ticks' = IF source = "timer" /\ ticks < SLEEP THEN ticks + 1 ELSE ticks
  /\ UNCHANGED <<machine, cpu, keyboard, hhdmoffset, lapic_address, page_map, released,
                 panicked>>

exception_handler(c) == \E source \in Sources(c) : Interrupt(c, source)

\* What changes nothing: log_panic's halt, apic_sleep's nop, hcf, a dead machine.
Wait == /\ panicked \/ fault # "none" \/ step(BSP) \in {"smp_init", "hcf"}
        /\ UNCHANGED bootVars

BootNext == \/ _start
            \/ \E c \in APs : ap_trampoline(c)
            \/ \E c \in CPUs : exception_handler(c)
            \/ Wait

\* Processors execute, timers go on ticking.
BootSpec == /\ BootInit /\ [][BootNext]_bootVars
            /\ WF_bootVars(_start)
            /\ \A c \in APs : WF_bootVars(ap_trampoline(c))
            /\ \A c \in CPUs : WF_bootVars(exception_handler(c))

--------------------------------------------------------------------------------
\* The kernel's page map has no page that the boot loader's has not.
BootTypeOK ==
  /\ missing \in Missing \cup {"none"} /\ present \subseteq APs
  /\ lapic0 \in present \cup {BSP} /\ bitmap_low \in BOOLEAN
  /\ cpu \in [CPUs -> [pc : 1 .. Len(bsp_order), intr : BOOLEAN, idt : BOOLEAN,
                       cr3 : {"boot", "kernel"}, timer : BOOLEAN]]
  /\ \A c \in APs : cpu[c].pc <= Len(ap_order)
  /\ keyboard \in BOOLEAN /\ hhdmoffset \in 0 .. 1 /\ lapic_address \in 0 .. 1
  /\ page_map \subseteq BootMap /\ released \subseteq CPUs /\ ticks \in 0 .. SLEEP
  /\ panicked \in BOOLEAN /\ fault \in {"none", "page", "idt"}

\* What the code takes for granted: that its bitmap can be addressed without an
\* offset, and two responses of the boot loader.
Granted == bitmap_low /\ missing \notin Untested

(***************************************************************************)
(* On a machine whose bitmap ends below 4 GiB and which gives the two      *)
(* untested responses, no step and no interrupt handler touches a page     *)
(* that its processor's map lacks: not pmm_bitmap without an offset, not   *)
(* while vmm_init has stored hhdmoffset and the boot loader's map is still *)
(* in use, not right after the switch, not on a processor that is being    *)
(* started, and not through a pointer that init code further down would    *)
(* have set.  And no interrupt reaches a processor before it has the       *)
(* kernel's IDT, although interrupts are on early.                         *)
(***************************************************************************)
NoFault == Granted => fault = "none"

================================================================================
