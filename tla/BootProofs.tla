------------------------------- MODULE BootProofs ------------------------------
(***************************************************************************)
(* Proofs about the boot sequence, for any number of processors, anything  *)
(* missing and any time between the releases of processors.                *)
(***************************************************************************)
EXTENDS Boot, TLAPS

USE ApsAssumption DEF ApsAssumption

\* What the kernel's page map holds when it is switched to.
KernelMap == ({"bitmap", "usable", "framebuffer", "reclaimable", "tables"} \X {"hhdm"})
             \cup {<<"image", "image">>} \cup ({"tables", "lapic", "ioapic"} \X {"id"})
             \cup {<<"lapic", "hhdm">>}

\* How far the boot processor is tells what has been set up.
BspInv ==
  /\ cpu[BSP].cr3 = (IF cpu[BSP].pc > 12 THEN "kernel" ELSE "boot")
  /\ cpu[BSP].pc > 3 => cpu[BSP].idt
  /\ cpu[BSP].timer => cpu[BSP].pc > 7
  /\ cpu[BSP].pc > 7 => lapic_address = 1
  /\ keyboard => cpu[BSP].pc > 9
  /\ cpu[BSP].pc > 10 => hhdmoffset = 1
  /\ cpu[BSP].pc > 11 => KernelMap \subseteq page_map

\* No other processor runs before the boot processor is in smp_init.
ApInv ==
  \A c \in APs :
    /\ cpu[c].pc > 1 => cpu[BSP].pc > 12
    /\ cpu[c].cr3 = (IF cpu[c].pc > 4 THEN "kernel" ELSE "boot")
    /\ cpu[c].pc > 3 => cpu[c].idt
    /\ cpu[c].timer => cpu[c].pc > 5

ReleasedInv == released # {} => cpu[BSP].pc > 12

IdtInv == \A c \in CPUs : cpu[c].intr => cpu[c].idt

BootIInv == BootTypeOK /\ NoFault /\ BspInv /\ ApInv /\ ReleasedInv /\ IdtInv

\* A step after which NoFault still holds.
SafeStep == fault' \in {"none", "page", "idt"} /\ (Granted => fault' = "none")

--------------------------------------------------------------------------------
(***************************************************************************)
(* Where a step stands in the two orders.                                  *)
(***************************************************************************)
CpuStates == [pc : 1 .. 14, intr : BOOLEAN, idt : BOOLEAN, cr3 : {"boot", "kernel"},
              timer : BOOLEAN]

\* The length of the two lists of calls.
LEMMA Lengths == Len(bsp_order) = 14 /\ Len(ap_order) = 7
BY DEF bsp_order, ap_order

\* The position of each call of _start.
LEMMA BspSteps ==
  ASSUME NEW p \in 1 .. 14
  PROVE  /\ bsp_order[p] = "fb_init" <=> p = 1
         /\ bsp_order[p] = "gdt_init" <=> p = 2
         /\ bsp_order[p] = "idt_init" <=> p = 3
         /\ bsp_order[p] = "pmm_init" <=> p = 4
         /\ bsp_order[p] = "init_acpi" <=> p = 5
         /\ bsp_order[p] = "init_apic" <=> p = 6
         /\ bsp_order[p] = "calibrate_timer" <=> p = 7
         /\ bsp_order[p] = "ioapic" <=> p = 8
         /\ bsp_order[p] = "ps2_int_init" <=> p = 9
         /\ bsp_order[p] = "vmm_init" <=> p = 10
         /\ bsp_order[p] = "map" <=> p = 11
         /\ bsp_order[p] = "vmm_set_ctx" <=> p = 12
         /\ bsp_order[p] = "smp_init" <=> p = 13
BY DEF bsp_order

\* The position of each call of ap_trampoline.
LEMMA ApSteps ==
  ASSUME NEW p \in 1 .. 7
  PROVE  /\ ap_order[p] = "parked" <=> p = 1
         /\ ap_order[p] = "gdt_init" <=> p = 2
         /\ ap_order[p] = "idt_load" <=> p = 3
         /\ ap_order[p] = "vmm_set_ctx" <=> p = 4
         /\ ap_order[p] = "init_apic_ap" <=> p = 5
         /\ ap_order[p] = "sti" <=> p = 6
BY DEF ap_order

\* The fields of a processor's state.
LEMMA CpuFields ==
  ASSUME BootTypeOK, NEW c \in CPUs
  PROVE  /\ cpu[c] \in CpuStates /\ cpu[c].pc \in 1 .. 14
         /\ cpu[c].cr3 \in {"boot", "kernel"}
         /\ cpu[c].intr \in BOOLEAN /\ cpu[c].idt \in BOOLEAN /\ cpu[c].timer \in BOOLEAN
BY Lengths DEF BootTypeOK, CpuStates

\* An application processor is at one of its seven steps.
LEMMA ApPc ==
  ASSUME BootTypeOK, NEW c \in APs
  PROVE  cpu[c].pc \in 1 .. 7 /\ c \in CPUs /\ c # BSP
<1>1. c \in CPUs /\ c # BSP
  BY DEF CPUs, BSP
<1>2. cpu[c].pc \in 1 .. 14
  BY <1>1, CpuFields
<1>3. cpu[c].pc <= 7
  BY Lengths DEF BootTypeOK
<1>4. QED
  BY <1>1, <1>2, <1>3

--------------------------------------------------------------------------------
(***************************************************************************)
(* The two page maps.                                                      *)
(***************************************************************************)

\* The boot loader's map has what any step before the switch touches, the bitmap
\* where it is low.
LEMMA BootMapHas ==
  /\ Always \subseteq BootMap /\ KernelMap \subseteq BootMap
  /\ <<"usable", "hhdm">> \in BootMap /\ Tables \in BootMap
  /\ LapicRead \in BootMap /\ <<"ioapic", "id">> \in BootMap
  /\ LapicWrite(1) \in BootMap
  /\ Granted => Bitmap \in BootMap /\ Allocated \subseteq BootMap
  /\ Granted => Response("framebuffer") = {} /\ Response("hhdm") = {}
<1>1. Always \subseteq BootMap
  BY DEF Always, BootMap, Regions
<1>2. KernelMap \subseteq BootMap
  BY DEF KernelMap, BootMap, Regions, Low
<1>3. LapicWrite(1) \in BootMap
  BY DEF LapicWrite, BootMap, Low, Regions
<1>4. /\ <<"usable", "hhdm">> \in BootMap /\ Tables \in BootMap
      /\ LapicRead \in BootMap /\ <<"ioapic", "id">> \in BootMap
  BY DEF BootMap, Tables, LapicRead, Low, Regions
<1>5. Granted => Bitmap \in BootMap
  BY DEF Granted, Bitmap, BootMap, Low
<1>6. Granted => Allocated \subseteq BootMap
  BY <1>4, <1>5 DEF Allocated
<1>7. Granted => Response("framebuffer") = {} /\ Response("hhdm") = {}
  BY DEF Granted, Untested, Response
<1>8. QED
  BY <1>1, <1>2, <1>3, <1>4, <1>5, <1>6, <1>7

\* What only depends on the machine does not change.
LEMMA MachineFrame ==
  ASSUME UNCHANGED machine
  PROVE  /\ BootMap' = BootMap /\ Granted' = Granted
         /\ UNCHANGED <<missing, present, lapic0, bitmap_low>>
BY DEF machine, BootMap, Regions, Low, Granted, Untested

\* The kernel's map has what the steps after the switch touch.
LEMMA KernelMapHas ==
  /\ Always \subseteq KernelMap /\ Tables \in KernelMap /\ LapicRead \in KernelMap
  /\ hhdmoffset = 1 => LapicWrite(1) \in KernelMap
<1>1. Always \subseteq KernelMap
  BY DEF Always, KernelMap
<1>2. Tables \in KernelMap /\ LapicRead \in KernelMap
  BY DEF KernelMap, Tables, LapicRead, Low
<1>3. hhdmoffset = 1 => LapicWrite(1) \in KernelMap
  BY DEF KernelMap, LapicWrite
<1>4. QED
  BY <1>1, <1>2, <1>3

\* vmm_init maps all of that, the local APIC if its address is known by then.
LEMMA VmmMaps ==
  /\ vmm_maps \subseteq BootMap
  /\ lapic_address = 1 => KernelMap \subseteq vmm_maps
<1>1. vmm_maps \subseteq BootMap
  BY DEF vmm_maps, BootMap, Regions, identity_map
<1>2. lapic_address = 1 => KernelMap \subseteq vmm_maps
  BY DEF vmm_maps, KernelMap, identity_map, Low
<1>3. QED
  BY <1>1, <1>2

\* A step that touches no other pages than these does not fault.
LEMMA NoPageFault ==
  ASSUME NEW c, NEW s, NEW pages, NEW after, Step(c, s, pages, after),
         \/ after.cr3 = "boot" /\ (Granted => pages \subseteq BootMap)
         \/ after.cr3 = "kernel" /\ pages \subseteq KernelMap /\ KernelMap \subseteq page_map
  PROVE  SafeStep
<1>1. fault' = IF Always \cup pages \subseteq Mapped(after.cr3) THEN "none" ELSE "page"
  BY DEF Step
<1>2. fault' \in {"none", "page", "idt"}
  BY <1>1
<1>3. CASE after.cr3 = "boot" /\ (Granted => pages \subseteq BootMap)
  <2>1. Granted => Always \cup pages \subseteq Mapped(after.cr3)
    BY <1>3, BootMapHas DEF Mapped
  <2>2. QED
    BY <1>1, <1>2, <2>1 DEF SafeStep
<1>4. CASE /\ after.cr3 = "kernel" /\ pages \subseteq KernelMap
           /\ KernelMap \subseteq page_map
  <2>1. Always \cup pages \subseteq Mapped(after.cr3)
    BY <1>4, KernelMapHas DEF Mapped
  <2>2. QED
    BY <1>1, <1>2, <2>1 DEF SafeStep
<1>5. QED
  BY <1>3, <1>4

--------------------------------------------------------------------------------
(***************************************************************************)
(* The boot processor.                                                     *)
(***************************************************************************)

\* A step of the boot processor that goes on or stays, and never has interrupts
\* on without an IDT, keeps what is said of the other processors.
LEMMA BspFrame ==
  ASSUME BootIInv, NEW after \in CpuStates, cpu' = [cpu EXCEPT ![BSP] = after],
         after.pc >= cpu[BSP].pc, after.intr => after.idt,
         released' = released \/ after.pc > 12
  PROVE  /\ cpu' \in [CPUs -> CpuStates] /\ cpu'[BSP] = after
         /\ \A c \in APs : cpu'[c] = cpu[c]
         /\ ApInv' /\ ReleasedInv' /\ IdtInv'
<1>1. BSP \in CPUs /\ cpu \in [CPUs -> CpuStates]
  BY Lengths DEF CPUs, BootIInv, BootTypeOK, CpuStates
<1>2. cpu' \in [CPUs -> CpuStates] /\ cpu'[BSP] = after
  BY <1>1
<1>3. \A c \in APs : cpu'[c] = cpu[c]
  BY <1>1 DEF CPUs, BSP
<1>4. cpu[BSP].pc \in 1 .. 14 /\ after.pc \in 1 .. 14
  BY <1>1 DEF CpuStates
<1>5. cpu[BSP].pc > 12 => after.pc > 12
  BY <1>4
<1>6. ApInv'
  BY <1>2, <1>3, <1>5, Zenon DEF BootIInv, ApInv
<1>7. ReleasedInv'
  BY <1>2, <1>5 DEF BootIInv, ReleasedInv
<1>8. IdtInv'
  <2> SUFFICES ASSUME NEW c \in CPUs, cpu'[c].intr PROVE cpu'[c].idt
    BY DEF IdtInv
  <2>1. CASE c = BSP
    BY <1>2, <2>1
  <2>2. CASE c \in APs
    BY <1>3, <2>2 DEF BootIInv, IdtInv
  <2>3. QED
    BY <2>1, <2>2 DEF CPUs
<1>9. QED
  BY <1>2, <1>3, <1>6, <1>7, <1>8

\* What Past makes of the state of a processor that has a next step.
LEMMA PastState ==
  ASSUME BootTypeOK, NEW c \in CPUs, cpu[c].pc < 14
  PROVE  /\ Past(c) \in CpuStates /\ Past(c).pc = cpu[c].pc + 1
         /\ Past(c).intr = cpu[c].intr /\ Past(c).idt = cpu[c].idt
         /\ Past(c).cr3 = cpu[c].cr3 /\ Past(c).timer = cpu[c].timer
<1>1. cpu[c] \in CpuStates /\ cpu[c].pc + 1 \in 1 .. 14
  BY CpuFields
<1>2. QED
  BY <1>1 DEF Past, CpuStates

\* The rest of the type invariant, for a step that leaves the shared state alone.
LEMMA SharedFrame ==
  ASSUME BootTypeOK, cpu' \in [CPUs -> CpuStates], SafeStep,
         \A c \in APs : cpu'[c].pc <= 7,
         UNCHANGED <<machine, shared, panicked>>
  PROVE  BootTypeOK' /\ NoFault'
<1>1. /\ BootMap' = BootMap /\ Granted' = Granted
      /\ UNCHANGED <<missing, present, lapic0, bitmap_low>>
  BY MachineFrame
<1>2. NoFault'
  BY <1>1 DEF NoFault, SafeStep
<1>3. BootTypeOK'
  BY <1>1, Lengths DEF BootTypeOK, SafeStep, CpuStates, shared
<1>4. QED
  BY <1>2, <1>3

\* Where the boot processor is when it executes a step, and what that implies.
LEMMA BspAt ==
  ASSUME BootIInv
  PROVE  /\ BSP \in CPUs /\ cpu[BSP].pc \in 1 .. 14
         /\ step(BSP) = bsp_order[cpu[BSP].pc]
         /\ cpu[BSP].intr => cpu[BSP].idt
         /\ cpu[BSP].pc > 3 => cpu[BSP].idt
         /\ cpu[BSP].cr3 = (IF cpu[BSP].pc > 12 THEN "kernel" ELSE "boot")
<1>1. BSP \in CPUs
  BY DEF CPUs
<1>2. QED
  BY <1>1, CpuFields DEF BootIInv, step, IdtInv, BspInv

\* A step of the boot processor that changes nothing but its own state.
LEMMA BspStepInv ==
  ASSUME BootIInv, NEW after \in CpuStates, cpu' = [cpu EXCEPT ![BSP] = after],
         UNCHANGED <<machine, shared, panicked>>, SafeStep,
         after.pc >= cpu[BSP].pc, after.intr => after.idt,
         after.cr3 = (IF after.pc > 12 THEN "kernel" ELSE "boot"),
         after.timer = cpu[BSP].timer, after.pc > 3 => after.idt,
         after.pc > 7 => lapic_address = 1,
         after.pc > 10 => hhdmoffset = 1,
         after.pc > 11 => KernelMap \subseteq page_map
  PROVE  BootIInv'
<1>1. /\ cpu' \in [CPUs -> CpuStates] /\ cpu'[BSP] = after
      /\ \A c \in APs : cpu'[c] = cpu[c]
      /\ ApInv' /\ ReleasedInv' /\ IdtInv'
  BY BspFrame DEF shared
<1>2. BootTypeOK' /\ NoFault'
  <2>1. \A c \in APs : cpu'[c].pc <= 7
    BY <1>1, Lengths DEF BootIInv, BootTypeOK
  <2>2. QED
    BY <1>1, <2>1, SharedFrame DEF BootIInv
<1>3. BspInv'
  <2>1. cpu[BSP].pc \in 1 .. 14 /\ after.pc \in 1 .. 14
    BY BspAt DEF CpuStates
  <2>2. cpu[BSP].pc > 7 => after.pc > 7
    BY <2>1
  <2>3. cpu[BSP].pc > 9 => after.pc > 9
    BY <2>1
  <2>4. QED
    BY <1>1, <2>2, <2>3, Zenon DEF BootIInv, BspInv, shared
<1>4. QED
  BY <1>1, <1>2, <1>3 DEF BootIInv

\* fb_init, gdt_init, idt_init, pmm_init, init_acpi, the tables of init_apic and
\* the I/O APIC: the boot loader's map is in use.
LEMMA EarlyStepsInv ==
  ASSUME BootIInv,
         \/ Plain("fb_init", Response("framebuffer")) \/ Plain("gdt_init", {})
         \/ idt_load(BSP, "idt_init")
         \/ Plain("pmm_init", {Bitmap})
         \/ /\ Step(BSP, "init_acpi", {Tables}, [Past(BSP) EXCEPT !.intr = FALSE])
            /\ UNCHANGED shared
         \/ Plain("init_apic", {Tables, LapicRead, LapicWrite(1)})
         \/ Step(BSP, "ioapic", {<<"ioapic", "id">>}, sti(BSP)) /\ UNCHANGED shared
  PROVE  BootIInv'
<1>1. BootTypeOK
  BY DEF BootIInv
<1>2. PICK s, pages, after :
        /\ Step(BSP, s, pages, after) /\ UNCHANGED shared
        /\ s \in {"fb_init", "gdt_init", "idt_init", "pmm_init", "init_acpi",
                  "init_apic", "ioapic"}
        /\ Granted => pages \subseteq BootMap
        /\ \/ s # "idt_init" /\ after = Past(BSP)
           \/ s = "idt_init" /\ after = [Past(BSP) EXCEPT !.idt = TRUE, !.intr = TRUE]
           \/ s # "idt_init" /\ after = [Past(BSP) EXCEPT !.intr = FALSE]
           \/ s = "ioapic" /\ after = [Past(BSP) EXCEPT !.intr = TRUE]
  BY BootMapHas DEF Plain, idt_load, sti
<1>3. bsp_order[cpu[BSP].pc] = s
  BY <1>2, BspAt DEF Step
<1>4. cpu[BSP].pc \in {1, 2, 3, 4, 5, 6, 8}
  BY <1>2, <1>3, BspAt, BspSteps
<1>5. /\ Past(BSP) \in CpuStates /\ Past(BSP).pc = cpu[BSP].pc + 1
      /\ Past(BSP).intr = cpu[BSP].intr /\ Past(BSP).idt = cpu[BSP].idt
      /\ Past(BSP).cr3 = "boot" /\ Past(BSP).timer = cpu[BSP].timer
  BY <1>1, <1>4, BspAt, PastState
<1>6. /\ after \in CpuStates /\ after.pc = cpu[BSP].pc + 1 /\ after.cr3 = "boot"
      /\ after.timer = cpu[BSP].timer
  BY <1>2, <1>5 DEF CpuStates
<1>7. (after.intr => after.idt) /\ (after.pc > 3 => after.idt)
  <2>1. CASE /\ s # "idt_init"
             /\ after = Past(BSP) \/ after = [Past(BSP) EXCEPT !.intr = FALSE]
    <3>1. after.idt = cpu[BSP].idt /\ (after.intr => cpu[BSP].intr)
      BY <2>1, <1>5 DEF CpuStates
    <3>2. cpu[BSP].pc # 3
      BY <2>1, <1>3, BspAt, BspSteps
    <3>3. after.pc > 3 => cpu[BSP].pc > 3
      BY <1>4, <1>6, <3>2
    <3>4. QED
      BY <3>1, <3>3, BspAt
  <2>2. CASE s = "idt_init" /\ after = [Past(BSP) EXCEPT !.idt = TRUE, !.intr = TRUE]
    BY <2>2, <1>5 DEF CpuStates
  <2>3. CASE s = "ioapic" /\ after = [Past(BSP) EXCEPT !.intr = TRUE]
    <3>1. after.idt = cpu[BSP].idt
      BY <2>3, <1>5 DEF CpuStates
    <3>2. cpu[BSP].pc = 8
      BY <2>3, <1>3, BspAt, BspSteps
    <3>3. QED
      BY <3>1, <3>2, BspAt
  <2>4. QED
    BY <1>2, <2>1, <2>2, <2>3
<1>8. cpu' = [cpu EXCEPT ![BSP] = after] /\ UNCHANGED <<machine, panicked>>
  BY <1>2 DEF Step
<1>9. SafeStep
  BY <1>2, <1>6, NoPageFault
<1>10. /\ after.pc >= cpu[BSP].pc
       /\ after.cr3 = (IF after.pc > 12 THEN "kernel" ELSE "boot")
       /\ ~(after.pc > 10) /\ ~(after.pc > 11)
  BY <1>4, <1>6
<1>11. after.pc > 7 => lapic_address = 1
  <2>1. after.pc > 7 => cpu[BSP].pc > 7
    BY <1>4, <1>6
  <2>2. QED
    BY <2>1 DEF BootIInv, BspInv
<1>12. QED
  BY <1>2, <1>6, <1>7, <1>8, <1>9, <1>10, <1>11, BspStepInv

\* log_panic: the boot processor stops, with its interrupts off.
LEMMA PanicInv ==
  ASSUME BootIInv, NEW s, NEW what, Panic(s, what)
  PROVE  BootIInv'
<1> DEFINE after == [cpu[BSP] EXCEPT !.intr = FALSE]
<1>1. cpu' = [cpu EXCEPT ![BSP] = after] /\ panicked' = TRUE
      /\ UNCHANGED <<machine, shared>> /\ fault' = fault
  BY DEF Panic
<1>2. cpu[BSP] \in CpuStates
  BY BspAt, CpuFields DEF BootIInv
<1>3. /\ after \in CpuStates /\ after.pc = cpu[BSP].pc /\ after.cr3 = cpu[BSP].cr3
      /\ after.timer = cpu[BSP].timer /\ after.idt = cpu[BSP].idt /\ ~after.intr
  BY <1>2 DEF CpuStates
<1>4. after.pc >= cpu[BSP].pc
  BY <1>3, BspAt
<1> HIDE DEF after
<1>5. /\ cpu' \in [CPUs -> CpuStates] /\ cpu'[BSP] = after
      /\ \A c \in APs : cpu'[c] = cpu[c]
      /\ ApInv' /\ ReleasedInv' /\ IdtInv'
  BY <1>1, <1>3, <1>4, BspFrame DEF shared
<1>6. BootTypeOK' /\ NoFault'
  <2>1. \A c \in APs : cpu'[c].pc <= 7
    BY <1>5, Lengths DEF BootIInv, BootTypeOK
  <2>2. QED
    BY <1>1, <1>5, <2>1, Lengths, MachineFrame
       DEF BootIInv, BootTypeOK, NoFault, CpuStates, shared
<1>7. BspInv'
  BY <1>1, <1>3, <1>5, Zenon DEF BootIInv, BspInv, shared
<1>8. QED
  BY <1>5, <1>6, <1>7 DEF BootIInv

\* calibrate_timer on the boot processor.
LEMMA CalibrateInv ==
  ASSUME BootIInv, calibrate_timer(BSP, "calibrate_timer")
  PROVE  BootIInv'
<1> DEFINE after == [Past(BSP) EXCEPT !.timer = TRUE]
<1>0. BootTypeOK
  BY DEF BootIInv
<1>1. /\ Step(BSP, "calibrate_timer", {Tables, LapicRead, LapicWrite(1)}, after)
      /\ lapic_address' = 1
      /\ UNCHANGED <<keyboard, hhdmoffset, page_map, released, ticks>>
  BY DEF calibrate_timer
<1>2. cpu[BSP].pc = 7
  BY <1>1, BspAt, BspSteps DEF Step
<1>3. /\ Past(BSP) \in CpuStates /\ Past(BSP).pc = 8 /\ Past(BSP).cr3 = "boot"
      /\ Past(BSP).intr = cpu[BSP].intr /\ Past(BSP).idt = cpu[BSP].idt
  BY <1>0, <1>2, BspAt, PastState
<1>4. /\ after \in CpuStates /\ after.pc = 8 /\ after.cr3 = "boot"
      /\ after.intr = cpu[BSP].intr /\ after.idt = cpu[BSP].idt /\ after.timer
  BY <1>3 DEF CpuStates
<1>5. cpu[BSP].idt
  BY <1>2, BspAt
<1> HIDE DEF after
<1>6. SafeStep
  BY <1>1, <1>4, NoPageFault, BootMapHas
<1>7. cpu' = [cpu EXCEPT ![BSP] = after] /\ UNCHANGED <<machine, panicked>>
  BY <1>1 DEF Step
<1>8. /\ cpu' \in [CPUs -> CpuStates] /\ cpu'[BSP] = after
      /\ \A c \in APs : cpu'[c] = cpu[c]
      /\ ApInv' /\ ReleasedInv' /\ IdtInv'
  <2>1. after.pc >= cpu[BSP].pc
    BY <1>2, <1>4
  <2>2. QED
    BY <1>1, <1>4, <1>5, <1>7, <2>1, BspFrame
<1>9. BootTypeOK' /\ NoFault'
  <2>1. \A c \in APs : cpu'[c].pc <= 7
    BY <1>8, Lengths DEF BootIInv, BootTypeOK
  <2>2. QED
    BY <1>1, <1>6, <1>7, <1>8, <2>1, Lengths, MachineFrame
       DEF BootIInv, BootTypeOK, NoFault, SafeStep, CpuStates
<1>10. BspInv'
  <2>1. ~keyboard
    BY <1>2 DEF BootIInv, BspInv
  <2>2. 8 > 3 /\ 8 > 7 /\ ~(8 > 9) /\ ~(8 > 10) /\ ~(8 > 11) /\ ~(8 > 12)
    OBVIOUS
  <2>3. QED
    BY <1>1, <1>4, <1>5, <1>8, <2>1, <2>2, Zenon DEF BspInv
<1>11. QED
  BY <1>8, <1>9, <1>10 DEF BootIInv

\* ps2_int_init: the keyboard may interrupt from here on.
LEMMA KeyboardInv ==
  ASSUME BootIInv,
         Step(BSP, "ps2_int_init", {<<"ioapic", "id">>, Tables}, Past(BSP)),
         keyboard' = TRUE,
         UNCHANGED <<hhdmoffset, lapic_address, page_map, released, ticks>>
  PROVE  BootIInv'
<1>1. BootTypeOK
  BY DEF BootIInv
<1>2. cpu[BSP].pc = 9
  BY BspAt, BspSteps DEF Step
<1>3. /\ Past(BSP) \in CpuStates /\ Past(BSP).pc = 10 /\ Past(BSP).cr3 = "boot"
      /\ Past(BSP).intr = cpu[BSP].intr /\ Past(BSP).idt = cpu[BSP].idt
      /\ Past(BSP).timer = cpu[BSP].timer
  BY <1>1, <1>2, BspAt, PastState
<1>4. cpu[BSP].idt
  BY <1>2, BspAt
<1>5. SafeStep
  BY <1>3, NoPageFault, BootMapHas
<1>6. cpu' = [cpu EXCEPT ![BSP] = Past(BSP)] /\ UNCHANGED <<machine, panicked>>
  BY DEF Step
<1>7. /\ cpu' \in [CPUs -> CpuStates] /\ cpu'[BSP] = Past(BSP)
      /\ \A c \in APs : cpu'[c] = cpu[c]
      /\ ApInv' /\ ReleasedInv' /\ IdtInv'
  <2>1. Past(BSP).pc >= cpu[BSP].pc
    BY <1>2, <1>3
  <2>2. QED
    BY <1>3, <1>4, <1>6, <2>1, BspFrame
<1>8. BootTypeOK' /\ NoFault'
  <2>1. \A c \in APs : cpu'[c].pc <= 7
    BY <1>7, Lengths DEF BootIInv, BootTypeOK
  <2>2. QED
    BY <1>5, <1>6, <1>7, <2>1, Lengths, MachineFrame
       DEF BootIInv, BootTypeOK, NoFault, SafeStep, CpuStates
<1>9. BspInv'
  <2>1. lapic_address = 1
    BY <1>2 DEF BootIInv, BspInv
  <2>2. 10 > 3 /\ 10 > 7 /\ 10 > 9 /\ ~(10 > 10) /\ ~(10 > 11) /\ ~(10 > 12)
    OBVIOUS
  <2>3. QED
    BY <1>3, <1>4, <1>7, <2>1, <2>2, Zenon DEF BspInv
<1>10. QED
  BY <1>7, <1>8, <1>9 DEF BootIInv

\* vmm_init: the offset is stored, then the tables are looked for.
LEMMA VmmInitInv ==
  ASSUME BootIInv, vmm_init
  PROVE  BootIInv'
<1>0. BootTypeOK
  BY DEF BootIInv
<1>1. CASE /\ hhdmoffset = 0 /\ hhdmoffset' = 1
           /\ Step(BSP, "vmm_init", Response("hhdm"), cpu[BSP])
           /\ UNCHANGED <<keyboard, lapic_address, page_map, released, ticks>>
  <2>1. cpu[BSP].pc = 10 /\ cpu[BSP].cr3 = "boot"
    BY <1>1, BspAt, BspSteps DEF Step
  <2>2. cpu \in [CPUs -> CpuStates]
    BY Lengths DEF BootIInv, BootTypeOK, CpuStates
  <2>3. cpu' = cpu /\ UNCHANGED <<machine, panicked>>
    BY <1>1, <2>2 DEF Step
  <2>4. SafeStep
    BY <1>1, <2>1, NoPageFault, BootMapHas
  <2>5. BootTypeOK' /\ NoFault'
    BY <1>1, <2>3, <2>4, MachineFrame DEF BootIInv, BootTypeOK, NoFault, SafeStep
  <2>6. BspInv' /\ ApInv' /\ ReleasedInv' /\ IdtInv'
    BY <1>1, <2>3, Zenon DEF BootIInv, BspInv, ApInv, ReleasedInv, IdtInv
  <2>7. QED
    BY <2>5, <2>6 DEF BootIInv
<1>2. CASE hhdmoffset = 1 /\ Plain("vmm_init", Allocated)
  <2>1. /\ Step(BSP, "vmm_init", Allocated, Past(BSP)) /\ UNCHANGED shared
    BY <1>2 DEF Plain
  <2>2. cpu[BSP].pc = 10
    BY <2>1, BspAt, BspSteps DEF Step
  <2>3. /\ Past(BSP) \in CpuStates /\ Past(BSP).pc = 11 /\ Past(BSP).cr3 = "boot"
        /\ Past(BSP).intr = cpu[BSP].intr /\ Past(BSP).idt = cpu[BSP].idt
        /\ Past(BSP).timer = cpu[BSP].timer
    BY <1>0, <2>2, BspAt, PastState
  <2>4. SafeStep
    BY <2>1, <2>3, NoPageFault, BootMapHas
  <2>5. cpu' = [cpu EXCEPT ![BSP] = Past(BSP)] /\ UNCHANGED <<machine, panicked>>
    BY <2>1 DEF Step
  <2>6. lapic_address = 1 /\ cpu[BSP].idt
    BY <2>2, BspAt DEF BootIInv, BspInv
  <2>7. Past(BSP).pc >= cpu[BSP].pc /\ ~(Past(BSP).pc > 12) /\ ~(Past(BSP).pc > 11)
    BY <2>2, <2>3
  <2>8. QED
    BY <1>2, <2>1, <2>3, <2>4, <2>5, <2>6, <2>7, BspStepInv
<1>3. QED
  BY <1>1, <1>2, PanicInv DEF vmm_init

\* vmm_map_page: pages are added until all are there.
LEMMA VmmMapPageInv ==
  ASSUME BootIInv, vmm_map_page
  PROVE  BootIInv'
<1>0. BootTypeOK
  BY DEF BootIInv
<1>1. ASSUME NEW p \in vmm_maps, Step(BSP, "map", Allocated, cpu[BSP]),
             page_map' = page_map \cup {p},
             UNCHANGED <<keyboard, hhdmoffset, lapic_address, released, ticks>>
      PROVE  BootIInv'
  <2>1. cpu[BSP].pc = 11 /\ cpu[BSP].cr3 = "boot"
    BY <1>1, BspAt, BspSteps DEF Step
  <2>2. cpu \in [CPUs -> CpuStates]
    BY Lengths DEF BootIInv, BootTypeOK, CpuStates
  <2>3. cpu' = cpu /\ UNCHANGED <<machine, panicked>>
    BY <1>1, <2>2 DEF Step
  <2>4. SafeStep
    BY <1>1, <2>1, NoPageFault, BootMapHas
  <2>5. BootTypeOK' /\ NoFault'
    <3>1. page_map' \subseteq BootMap
      BY <1>1, VmmMaps, BootMapHas DEF BootIInv, BootTypeOK
    <3>2. QED
      BY <1>1, <2>3, <2>4, <3>1, MachineFrame DEF BootIInv, BootTypeOK, NoFault, SafeStep
  <2>6. BspInv' /\ ApInv' /\ ReleasedInv' /\ IdtInv'
    <3>1. KernelMap \subseteq page_map => KernelMap \subseteq page_map'
      BY <1>1
    <3>2. QED
      BY <1>1, <2>3, <3>1, Zenon DEF BootIInv, BspInv, ApInv, ReleasedInv, IdtInv
  <2>7. QED
    BY <2>5, <2>6 DEF BootIInv
<1>2. CASE vmm_maps \subseteq page_map /\ Plain("map", {})
  <2>1. Step(BSP, "map", {}, Past(BSP)) /\ UNCHANGED shared
    BY <1>2 DEF Plain
  <2>2. cpu[BSP].pc = 11
    BY <2>1, BspAt, BspSteps DEF Step
  <2>3. /\ Past(BSP) \in CpuStates /\ Past(BSP).pc = 12 /\ Past(BSP).cr3 = "boot"
        /\ Past(BSP).intr = cpu[BSP].intr /\ Past(BSP).idt = cpu[BSP].idt
        /\ Past(BSP).timer = cpu[BSP].timer
    BY <1>0, <2>2, BspAt, PastState
  <2>4. SafeStep
    BY <2>1, <2>3, NoPageFault
  <2>5. cpu' = [cpu EXCEPT ![BSP] = Past(BSP)] /\ UNCHANGED <<machine, panicked>>
    BY <2>1 DEF Step
  <2>6. lapic_address = 1 /\ hhdmoffset = 1 /\ cpu[BSP].idt
    BY <2>2, BspAt DEF BootIInv, BspInv
  <2>7. KernelMap \subseteq page_map
    BY <1>2, <2>6, VmmMaps
  <2>8. Past(BSP).pc >= cpu[BSP].pc /\ ~(Past(BSP).pc > 12)
    BY <2>2, <2>3
  <2>9. QED
    BY <2>1, <2>3, <2>4, <2>5, <2>6, <2>7, <2>8, BspStepInv
<1>3. QED
  BY <1>1, <1>2, PanicInv DEF vmm_map_page

\* The switch of the boot processor to the kernel's map.
LEMMA BspSetCtxInv ==
  ASSUME BootIInv, vmm_set_ctx(BSP)
  PROVE  BootIInv'
<1> DEFINE after == [Past(BSP) EXCEPT !.cr3 = "kernel"]
<1>0. BootTypeOK
  BY DEF BootIInv
<1>1. Step(BSP, "vmm_set_ctx", {}, after) /\ UNCHANGED shared
  BY DEF vmm_set_ctx
<1>2. cpu[BSP].pc = 12
  BY <1>1, BspAt, BspSteps DEF Step
<1>3. /\ Past(BSP) \in CpuStates /\ Past(BSP).pc = 13
      /\ Past(BSP).intr = cpu[BSP].intr /\ Past(BSP).idt = cpu[BSP].idt
      /\ Past(BSP).timer = cpu[BSP].timer
  BY <1>0, <1>2, BspAt, PastState
<1>4. /\ after \in CpuStates /\ after.pc = 13 /\ after.cr3 = "kernel"
      /\ after.intr = cpu[BSP].intr /\ after.idt = cpu[BSP].idt
      /\ after.timer = cpu[BSP].timer
  BY <1>3 DEF CpuStates
<1> HIDE DEF after
<1>5. /\ lapic_address = 1 /\ hhdmoffset = 1 /\ KernelMap \subseteq page_map
      /\ cpu[BSP].idt
  BY <1>2, BspAt DEF BootIInv, BspInv
<1>6. SafeStep
  BY <1>1, <1>4, <1>5, NoPageFault
<1>7. cpu' = [cpu EXCEPT ![BSP] = after] /\ UNCHANGED <<machine, panicked>>
  BY <1>1 DEF Step
<1>8. after.pc >= cpu[BSP].pc /\ after.pc > 12
  BY <1>2, <1>4
<1>9. QED
  BY <1>1, <1>4, <1>5, <1>6, <1>7, <1>8, BspStepInv

\* smp_init: processors are released one after the other.
LEMMA SmpInitInv ==
  ASSUME BootIInv, smp_init
  PROVE  BootIInv'
<1>0. BootTypeOK
  BY DEF BootIInv
<1>1. ASSUME NEW c \in present \cup {BSP}, Release(c)
      PROVE  BootIInv'
  <2>1. Step(BSP, "smp_init", {}, cpu[BSP])
    BY <1>1 DEF Release
  <2>2. /\ released' = released \cup {c} /\ ticks' = 0
        /\ UNCHANGED <<keyboard, hhdmoffset, lapic_address, page_map>>
    BY <1>1 DEF Release
  <2>3. cpu[BSP].pc = 13 /\ cpu[BSP].cr3 = "kernel"
    BY <2>1, BspAt, BspSteps DEF Step
  <2>4. cpu \in [CPUs -> CpuStates]
    BY Lengths DEF BootIInv, BootTypeOK, CpuStates
  <2>5. cpu' = cpu /\ UNCHANGED <<machine, panicked>>
    BY <2>1, <2>4 DEF Step
  <2>6. KernelMap \subseteq page_map
    BY <2>3 DEF BootIInv, BspInv
  <2>7. SafeStep
    BY <2>1, <2>3, <2>6, NoPageFault
  <2>8. BootTypeOK' /\ NoFault'
    <3>1. c \in CPUs /\ 0 \in 0 .. SLEEP
      BY <1>1 DEF CPUs, BootIInv, BootTypeOK
    <3>2. QED
      BY <2>2, <2>5, <2>7, <3>1, MachineFrame DEF BootIInv, BootTypeOK, NoFault, SafeStep
  <2>9. BspInv' /\ ApInv' /\ IdtInv'
    BY <2>2, <2>5, Zenon DEF BootIInv, BspInv, ApInv, IdtInv
  <2>10. ReleasedInv'
    BY <2>3, <2>5 DEF ReleasedInv
  <2>11. QED
    BY <2>8, <2>9, <2>10 DEF BootIInv
<1>2. CASE Plain("smp_init", {})
  <2>1. Step(BSP, "smp_init", {}, Past(BSP)) /\ UNCHANGED shared
    BY <1>2 DEF Plain
  <2>2. cpu[BSP].pc = 13
    BY <2>1, BspAt, BspSteps DEF Step
  <2>3. /\ Past(BSP) \in CpuStates /\ Past(BSP).pc = 14 /\ Past(BSP).cr3 = "kernel"
        /\ Past(BSP).intr = cpu[BSP].intr /\ Past(BSP).idt = cpu[BSP].idt
        /\ Past(BSP).timer = cpu[BSP].timer
    BY <1>0, <2>2, BspAt, PastState
  <2>4. /\ lapic_address = 1 /\ hhdmoffset = 1 /\ KernelMap \subseteq page_map
        /\ cpu[BSP].idt
    BY <2>2, BspAt DEF BootIInv, BspInv
  <2>5. SafeStep
    BY <2>1, <2>3, <2>4, NoPageFault
  <2>6. cpu' = [cpu EXCEPT ![BSP] = Past(BSP)] /\ UNCHANGED <<machine, panicked>>
    BY <2>1 DEF Step
  <2>7. Past(BSP).pc >= cpu[BSP].pc /\ Past(BSP).pc > 12
    BY <2>2, <2>3
  <2>8. QED
    BY <2>1, <2>3, <2>4, <2>5, <2>6, <2>7, BspStepInv
<1>3. QED
  BY <1>1, <1>2, PanicInv DEF smp_init

\* Every step of _start keeps the invariant.
LEMMA StartInv ==
  ASSUME BootIInv, _start
  PROVE  BootIInv'
<1>1. CASE pmm_init \/ init_acpi
  BY <1>1, EarlyStepsInv, PanicInv DEF pmm_init, init_acpi
<1>2. CASE init_apic
  BY <1>2, EarlyStepsInv, PanicInv, CalibrateInv, KeyboardInv DEF init_apic
<1>3. QED
  BY <1>1, <1>2, EarlyStepsInv, VmmInitInv, VmmMapPageInv, BspSetCtxInv, SmpInitInv
     DEF _start

--------------------------------------------------------------------------------
(***************************************************************************)
(* The other processors, the interrupts and the whole system.              *)
(***************************************************************************)

\* What a processor that has been released can rely on.
LEMMA ReleasedSees ==
  ASSUME BootIInv, NEW c \in APs, cpu[c].pc > 1 \/ c \in released
  PROVE  /\ cpu[BSP].pc > 12 /\ lapic_address = 1 /\ hhdmoffset = 1
         /\ KernelMap \subseteq page_map
<1>1. cpu[BSP].pc > 12
  BY DEF BootIInv, ApInv, ReleasedInv
<1>2. cpu[BSP].pc \in 1 .. 14
  BY BspAt
<1>3. cpu[BSP].pc > 7 /\ cpu[BSP].pc > 10 /\ cpu[BSP].pc > 11
  BY <1>1, <1>2
<1>4. QED
  BY <1>1, <1>3 DEF BootIInv, BspInv

\* A step of ap_trampoline.
LEMMA ApStepInv ==
  ASSUME BootIInv, NEW c \in APs, NEW after \in CpuStates,
         cpu' = [cpu EXCEPT ![c] = after], SafeStep,
         after.pc = cpu[c].pc + 1, after.pc <= 7,
         after.intr => after.idt, after.pc > 3 => after.idt,
         after.cr3 = (IF after.pc > 4 THEN "kernel" ELSE "boot"),
         after.timer => after.pc > 5,
         cpu[c].pc > 1 \/ c \in released,
         lapic_address' = lapic_address \/ lapic_address' = 1,
         UNCHANGED <<machine, panicked, keyboard, hhdmoffset, page_map, released, ticks>>
  PROVE  BootIInv'
<1>1. /\ c \in CPUs /\ c # BSP /\ BSP \in CPUs /\ cpu \in [CPUs -> CpuStates]
  BY ApPc, Lengths DEF CPUs, BootIInv, BootTypeOK, CpuStates
<1>2. /\ cpu' \in [CPUs -> CpuStates] /\ cpu'[c] = after /\ cpu'[BSP] = cpu[BSP]
      /\ \A d \in CPUs : d # c => cpu'[d] = cpu[d]
  BY <1>1
<1>3. cpu[BSP].pc > 12 /\ lapic_address' = 1 /\ lapic_address' = lapic_address
  BY ReleasedSees
<1>4. BootTypeOK' /\ NoFault'
  <2>1. \A d \in APs : cpu'[d].pc <= 7
    BY <1>2, Lengths DEF CPUs, BootIInv, BootTypeOK
  <2>2. QED
    BY <1>2, <1>3, <2>1, Lengths, MachineFrame DEF BootIInv, BootTypeOK, NoFault, SafeStep, CpuStates
<1>5. BspInv' /\ ReleasedInv'
  BY <1>2, <1>3, Zenon DEF BootIInv, BspInv, ReleasedInv
<1>6. ApInv'
  <2> SUFFICES ASSUME NEW d \in APs
               PROVE  /\ cpu'[BSP].pc > 12
                      /\ cpu'[d].cr3 = (IF cpu'[d].pc > 4 THEN "kernel" ELSE "boot")
                      /\ cpu'[d].pc > 3 => cpu'[d].idt
                      /\ cpu'[d].timer => cpu'[d].pc > 5
    BY DEF ApInv
  <2>1. CASE d = c
    BY <1>2, <1>3, <2>1
  <2>2. CASE d # c
    <3>1. cpu'[d] = cpu[d]
      BY <1>2, <2>2 DEF CPUs
    <3>2. QED
      BY <1>2, <1>3, <3>1 DEF BootIInv, ApInv
  <2>3. QED
    BY <2>1, <2>2
<1>7. IdtInv'
  <2> SUFFICES ASSUME NEW d \in CPUs, cpu'[d].intr PROVE cpu'[d].idt
    BY DEF IdtInv
  <2>1. CASE d = c
    BY <1>2, <2>1
  <2>2. CASE d # c
    BY <1>2, <2>2 DEF BootIInv, IdtInv
  <2>3. QED
    BY <2>1, <2>2
<1>8. QED
  BY <1>4, <1>5, <1>6, <1>7 DEF BootIInv

\* Every step of ap_trampoline keeps the invariant.
LEMMA TrampolineInv ==
  ASSUME BootIInv, NEW c \in APs, ap_trampoline(c)
  PROVE  BootIInv'
<1>1. BootTypeOK /\ c \in CPUs /\ c # BSP /\ cpu[c].pc \in 1 .. 7
  BY ApPc DEF BootIInv
<1>2. PICK s, pages, after :
        /\ Step(c, s, pages, after)
        /\ \/ /\ s = "parked" /\ c \in released /\ pages = {}
              /\ after = [Past(c) EXCEPT !.intr = FALSE] /\ UNCHANGED shared
           \/ s = "gdt_init" /\ pages = {} /\ after = Past(c) /\ UNCHANGED shared
           \/ /\ s = "idt_load" /\ pages = {} /\ UNCHANGED shared
              /\ after = [Past(c) EXCEPT !.idt = TRUE, !.intr = TRUE]
           \/ /\ s = "vmm_set_ctx" /\ pages = {} /\ UNCHANGED shared
              /\ after = [Past(c) EXCEPT !.cr3 = "kernel"]
           \/ /\ s = "init_apic_ap" /\ pages = {Tables, LapicRead, LapicWrite(1)}
              /\ after = [Past(c) EXCEPT !.timer = TRUE] /\ lapic_address' = 1
              /\ UNCHANGED <<keyboard, hhdmoffset, page_map, released, ticks>>
           \/ /\ s = "sti" /\ pages = {} /\ UNCHANGED shared
              /\ after = [Past(c) EXCEPT !.intr = TRUE]
  BY DEF ap_trampoline, idt_load, vmm_set_ctx, calibrate_timer, sti
<1>3. ap_order[cpu[c].pc] = s
  BY <1>1, <1>2 DEF Step, step
<1>4. /\ s = "parked" => cpu[c].pc = 1
      /\ s = "gdt_init" => cpu[c].pc = 2
      /\ s = "idt_load" => cpu[c].pc = 3
      /\ s = "vmm_set_ctx" => cpu[c].pc = 4
      /\ s = "init_apic_ap" => cpu[c].pc = 5
      /\ s = "sti" => cpu[c].pc = 6
  BY <1>1, <1>3, ApSteps
<1>5. cpu[c].pc \in 1 .. 6 /\ (cpu[c].pc = 1 => c \in released)
  BY <1>2, <1>4
<1>6. /\ Past(c) \in CpuStates /\ Past(c).pc = cpu[c].pc + 1
      /\ Past(c).intr = cpu[c].intr /\ Past(c).idt = cpu[c].idt
      /\ Past(c).cr3 = cpu[c].cr3 /\ Past(c).timer = cpu[c].timer
  <2>1. cpu[c].pc < 14
    BY <1>5
  <2>2. QED
    BY <1>1, <2>1, PastState
<1>7. /\ cpu[c].intr => cpu[c].idt
      /\ cpu[c].cr3 = (IF cpu[c].pc > 4 THEN "kernel" ELSE "boot")
      /\ cpu[c].pc > 3 => cpu[c].idt
      /\ cpu[c].timer => cpu[c].pc > 5
  BY <1>1 DEF BootIInv, IdtInv, ApInv
<1>8. after \in CpuStates /\ after.pc = cpu[c].pc + 1
  BY <1>2, <1>6 DEF CpuStates
<1>9. after.cr3 = (IF after.pc > 4 THEN "kernel" ELSE "boot")
  <2>1. CASE s = "vmm_set_ctx"
    BY <1>2, <1>4, <1>6, <1>8, <2>1 DEF CpuStates
  <2>2. CASE s # "vmm_set_ctx"
    <3>1. after.cr3 = cpu[c].cr3
      BY <1>2, <1>6, <2>2 DEF CpuStates
    <3>2. cpu[c].pc # 4
      BY <1>1, <1>3, <2>2, ApSteps
    <3>3. (after.pc > 4) <=> (cpu[c].pc > 4)
      BY <1>5, <1>8, <3>2
    <3>4. QED
      BY <1>7, <3>1, <3>3
  <2>3. QED
    BY <2>1, <2>2
<1>10. (after.intr => after.idt) /\ (after.pc > 3 => after.idt)
  <2>1. CASE s = "idt_load"
    BY <1>2, <1>6, <2>1 DEF CpuStates
  <2>2. CASE s # "idt_load"
    <3>1. after.idt = cpu[c].idt /\ (after.intr => cpu[c].intr \/ s = "sti")
      BY <1>2, <1>6, <2>2 DEF CpuStates
    <3>2. cpu[c].pc # 3
      BY <1>1, <1>3, <2>2, ApSteps
    <3>3. (after.pc > 3 => cpu[c].pc > 3) /\ (s = "sti" => cpu[c].pc > 3)
      BY <1>4, <1>5, <1>8, <3>2
    <3>4. QED
      BY <1>7, <3>1, <3>3
  <2>3. QED
    BY <2>1, <2>2
<1>11. after.timer => after.pc > 5
  <2>1. after.timer => cpu[c].timer \/ s = "init_apic_ap"
    BY <1>2, <1>6 DEF CpuStates
  <2>2. cpu[c].pc > 5 \/ cpu[c].pc = 5 => after.pc > 5
    BY <1>5, <1>8
  <2>3. QED
    BY <1>4, <1>7, <2>1, <2>2
<1>12. cpu[c].pc > 1 \/ c \in released
  BY <1>5
<1>13. hhdmoffset = 1 /\ KernelMap \subseteq page_map
  BY <1>12, ReleasedSees
<1>14. pages \subseteq KernelMap /\ KernelMap \subseteq BootMap
  BY <1>2, <1>13, KernelMapHas, BootMapHas
<1>15. SafeStep
  <2>1. after.cr3 \in {"boot", "kernel"}
    BY <1>8 DEF CpuStates
  <2>2. QED
    BY <1>2, <1>13, <1>14, <2>1, NoPageFault
<1>16. /\ cpu' = [cpu EXCEPT ![c] = after] /\ UNCHANGED <<machine, panicked>>
       /\ UNCHANGED <<keyboard, hhdmoffset, page_map, released, ticks>>
       /\ lapic_address' = lapic_address \/ lapic_address' = 1
  BY <1>2 DEF Step, shared
<1>17. after.pc <= 7
  BY <1>5, <1>8
<1>18. QED
  BY <1>8, <1>9, <1>10, <1>11, <1>12, <1>15, <1>16, <1>17, ApStepInv

\* An interrupt finds an IDT, and apic_eoi the local APIC.
LEMMA InterruptInv ==
  ASSUME BootIInv, NEW c \in CPUs, exception_handler(c)
  PROVE  BootIInv'
<1>1. PICK source \in Sources(c) : Interrupt(c, source)
  BY DEF exception_handler
<1>2. /\ cpu[c].intr
      /\ ticks' = IF source = "timer" /\ ticks < SLEEP THEN ticks + 1 ELSE ticks
      /\ UNCHANGED <<machine, cpu, keyboard, hhdmoffset, lapic_address, page_map,
                     released, panicked>>
  BY <1>1 DEF Interrupt
<1>3. cpu[c].idt
  BY <1>2 DEF BootIInv, IdtInv
<1>4. cpu[c].timer \/ (c = BSP /\ keyboard)
  BY <1>1 DEF Sources
<1>5. lapic_address = 1
  <2>1. CASE c = BSP
    <3>1. cpu[BSP].pc > 7 \/ cpu[BSP].pc > 9
      BY <1>4, <2>1 DEF BootIInv, BspInv
    <3>2. cpu[BSP].pc > 7
      BY <3>1, BspAt
    <3>3. QED
      BY <3>2 DEF BootIInv, BspInv
  <2>2. CASE c \in APs
    <3>1. cpu[c].pc > 5 /\ cpu[c].pc \in 1 .. 7
      BY <1>4, <2>2, ApPc DEF BootIInv, ApInv
    <3>2. cpu[c].pc > 1
      BY <3>1
    <3>3. QED
      BY <2>2, <3>2, ReleasedSees
  <2>3. QED
    BY <2>1, <2>2 DEF CPUs
<1>6. Always \cup {LapicWrite(lapic_address)} \subseteq Mapped(cpu[c].cr3)
  <2>1. CASE cpu[c].cr3 = "boot"
    BY <1>5, <2>1, BootMapHas DEF Mapped
  <2>2. CASE cpu[c].cr3 = "kernel"
    <3>1. hhdmoffset = 1 /\ KernelMap \subseteq page_map
      <4>1. CASE c = BSP
        <5>1. cpu[BSP].pc > 12 /\ cpu[BSP].pc \in 1 .. 14
          BY <2>2, <4>1, BspAt
        <5>2. cpu[BSP].pc > 10 /\ cpu[BSP].pc > 11
          BY <5>1
        <5>3. QED
          BY <5>2 DEF BootIInv, BspInv
      <4>2. CASE c \in APs
        <5>1. cpu[c].pc > 4 /\ cpu[c].pc \in 1 .. 7
          BY <2>2, <4>2, ApPc DEF BootIInv, ApInv
        <5>2. cpu[c].pc > 1
          BY <5>1
        <5>3. QED
          BY <4>2, <5>2, ReleasedSees
      <4>3. QED
        BY <4>1, <4>2 DEF CPUs
    <3>2. QED
      BY <1>5, <2>2, <3>1, KernelMapHas DEF Mapped
  <2>3. QED
    BY <2>1, <2>2, CpuFields DEF BootIInv
<1>7. SafeStep
  BY <1>1, <1>3, <1>6 DEF Interrupt, SafeStep
<1>8. ticks' \in 0 .. SLEEP
  <2>1. ticks \in 0 .. SLEEP
    BY DEF BootIInv, BootTypeOK
  <2>2. QED
    BY <1>2, <2>1
<1>9. BootTypeOK' /\ NoFault'
  BY <1>2, <1>7, <1>8, MachineFrame DEF BootIInv, BootTypeOK, NoFault, SafeStep
<1>10. BspInv' /\ ApInv' /\ ReleasedInv' /\ IdtInv'
  BY <1>2, Zenon DEF BootIInv, BspInv, ApInv, ReleasedInv, IdtInv
<1>11. QED
  BY <1>9, <1>10 DEF BootIInv

\* The state the boot loader starts the kernel in.
LEMMA BootInitInv == BootInit => BootIInv
<1> SUFFICES ASSUME BootInit PROVE BootIInv
  OBVIOUS
<1>1. \A c \in CPUs : /\ cpu[c].pc = 1 /\ ~cpu[c].intr /\ ~cpu[c].idt
                      /\ cpu[c].cr3 = "boot" /\ ~cpu[c].timer
  BY DEF BootInit
<1>2. BSP \in CPUs /\ APs \subseteq CPUs
  BY DEF CPUs
<1>3. ~(1 > 1) /\ ~(1 > 3) /\ ~(1 > 4) /\ ~(1 > 7) /\ ~(1 > 10) /\ ~(1 > 11) /\ ~(1 > 12)
  OBVIOUS
<1>4. BootTypeOK /\ NoFault
  <2>1. cpu \in [CPUs -> CpuStates]
    BY DEF BootInit, CpuStates
  <2>2. \A c \in APs : cpu[c].pc <= 7
    BY <1>1, <1>2
  <2>3. 0 \in 0 .. 1 /\ 0 \in 0 .. SLEEP
    OBVIOUS
  <2>4. cpu \in [CPUs -> [pc : 1 .. Len(bsp_order), intr : BOOLEAN, idt : BOOLEAN,
                          cr3 : {"boot", "kernel"}, timer : BOOLEAN]]
    BY <2>1, Lengths DEF CpuStates
  <2>5. \A c \in APs : cpu[c].pc <= Len(ap_order)
    BY <2>2, Lengths
  <2>6. QED
    BY <2>3, <2>4, <2>5, Zenon DEF BootInit, BootTypeOK, NoFault
<1>5. BspInv
  BY <1>1, <1>2, <1>3, Zenon DEF BootInit, BspInv
<1>6. ApInv /\ IdtInv
  BY <1>1, <1>2, <1>3, Zenon DEF ApInv, IdtInv
<1>7. ReleasedInv
  BY DEF BootInit, ReleasedInv
<1>8. QED
  BY <1>4, <1>5, <1>6, <1>7 DEF BootIInv

\* Every step of any processor and every interrupt keeps the invariant.
LEMMA BootNextInv == BootIInv /\ [BootNext]_bootVars => BootIInv'
<1> SUFFICES ASSUME BootIInv, [BootNext]_bootVars PROVE BootIInv'
  OBVIOUS
<1>1. CASE _start
  BY <1>1, StartInv
<1>2. CASE \E c \in APs : ap_trampoline(c)
  BY <1>2, TrampolineInv
<1>3. CASE \E c \in CPUs : exception_handler(c)
  BY <1>3, InterruptInv
<1>4. CASE Wait \/ UNCHANGED bootVars
  <2> UNCHANGED bootVars
    BY <1>4 DEF Wait
  <2> USE DEF bootVars, shared
  <2>1. BootTypeOK' /\ NoFault'
    BY MachineFrame DEF BootIInv, BootTypeOK, NoFault
  <2>2. BspInv' /\ ApInv' /\ ReleasedInv' /\ IdtInv'
    BY Zenon DEF BootIInv, BspInv, ApInv, ReleasedInv, IdtInv
  <2>3. QED
    BY <2>1, <2>2 DEF BootIInv
<1>5. QED
  BY <1>1, <1>2, <1>3, <1>4 DEF BootNext

(***************************************************************************)
(* The invariant of the boot sequence, from which the theorems follow.     *)
(***************************************************************************)
THEOREM BootInvariant == BootSpec => []BootIInv
BY BootInitInv, BootNextInv, PTL DEF BootSpec

--------------------------------------------------------------------------------
(***************************************************************************)
(* Every variable keeps its type; in particular the kernel's page map has  *)
(* no page that the boot loader's lacks.                                   *)
(***************************************************************************)
THEOREM BootTypeCorrect == BootSpec => []BootTypeOK
<1>1. BootIInv => BootTypeOK
  BY DEF BootIInv
<1>2. QED
  BY <1>1, BootInvariant, PTL

(***************************************************************************)
(* With any number of processors, where pmm_bitmap ends below 4 GiB and    *)
(* the boot loader gives the framebuffer and direct map responses: no step *)
(* of _start, of ap_trampoline and of an interrupt between two of their    *)
(* steps touches a page that is not mapped, pmm_init's and the allocator's *)
(* accesses to the bitmap at its physical address included, and no         *)
(* interrupt comes before the kernel's IDT.                                *)
(***************************************************************************)
THEOREM BootDoesNotFault == BootSpec => []NoFault
<1>1. BootIInv => NoFault
  BY DEF BootIInv
<1>2. QED
  BY <1>1, BootInvariant, PTL
================================================================================
