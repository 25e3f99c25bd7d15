---------------------------------- MODULE Smp ----------------------------------
(***************************************************************************)
(* Starting the application processors: smp_init on the boot processor     *)
(* (kern/sys/smp/smp.c), ap_trampoline and gdt_init on the others, and the *)
(* timer interrupt that all of them share (kern/sys/acpi/apic.c).          *)
(*                                                                         *)
(* There is one GDT and one TSS for all processors.  Two of its bits       *)
(* change while processors start: the L bit of the kernel code descriptor, *)
(* which gdt_set_entry clears and sets again in two stores, and the busy   *)
(* bit of the TSS descriptor, which gdt_set_entry clears and ltr sets.  An *)
(* interrupt, or a load of CS, that finds L = 0, and an ltr that finds the *)
(* TSS busy, fault; the fault handler is entered through the same GDT (or  *)
(* without an IDT), so the machine resets.                                 *)
(*                                                                         *)
(* Time is measured in ticks.  calibrate_timer gives every processor's     *)
(* timer the same period, so every ticking processor ticks once between    *)
(* two ticks of the boot processor, and pmt_delay in calibrate_timer lasts *)
(* one period.  The assumptions on speed: a processor is through gdt_init  *)
(* less than a period after the tick that ended the sleep before it was    *)
(* released, and so is a run of overlapping interrupt handlers; nobody     *)
(* ticks twice in such a time.  The counter stays far below 2^31 while the *)
(* kernel boots; what its copy in an int does later is in module Timer.    *)
(***************************************************************************)
EXTENDS Integers, FiniteSets

CONSTANTS CpuCounts,  \* numbers of processors; 0 stands for no answer
          SLEEP,      \* the argument of apic_sleep (2)
          TICK_MOD    \* values of apic_timer_ticks (2^64)

ASSUME SmpAssumption ==
  /\ CpuCounts \subseteq Nat
  /\ SLEEP \in Nat /\ TICK_MOD \in Nat /\ 2 <= SLEEP /\ SLEEP < TICK_MOD

VARIABLES cpu_count,         \* the boot loader's answer
          lapic0,            \* the processor with local APIC id 0; BSP also if none
          bsp,               \* where smp_init is
          i,                 \* the processor its loop is at
          curcnt,            \* apic_sleep's copy of the counter
          apic_timer_ticks,
          ap,                \* where each application processor is
          code_L,            \* L bit of the kernel code descriptor
          tss_busy,          \* busy bit of the TSS descriptor
          loaded,            \* apic_timer: the value loaded, or Idle
          due,               \* processors still to tick in this period
          burst,             \* who ticked since all handlers were idle
          last,              \* who ticked since the tick that ended the sleep
          seen,              \* who ticked since each processor's release
          slept,             \* history: ticks since apic_sleep began
          fault              \* what reset the machine

gdtVars == <<code_L, tss_busy>>
timerVars == <<apic_timer_ticks, loaded, due, burst, last>>
bspVars == <<cpu_count, lapic0, bsp, i, curcnt>>
smpVars == <<bspVars, ap, gdtVars, timerVars, seen, slept, fault>>

--------------------------------------------------------------------------------
BSP == 0
Idle == -1
AllAPs == UNION {1 .. k - 1 : k \in CpuCounts}
AllCPUs == AllAPs \cup {BSP}
APs == {c \in AllAPs : c < cpu_count}

\* Where a processor is in gdt_init, from its release to ltr.
GdtStates == {"released", "torn", "code_set", "tss_set", "reloaded"}
InGdtInit == {c \in AllAPs : ap[c] \in GdtStates}

InHandler == {c \in AllCPUs : loaded[c] # Idle}

Running == fault = "none" /\ bsp # "panic"

SmpInit ==
  /\ cpu_count \in CpuCounts /\ lapic0 \in APs \cup {BSP}
  /\ bsp = "start" /\ i = 0 /\ curcnt = 0
  /\ apic_timer_ticks = 0
  /\ ap = [c \in AllAPs |-> "parked"]
  /\ code_L = 1 /\ tss_busy = 1
  /\ loaded = [c \in AllCPUs |-> Idle]
  /\ due = {} /\ burst = {} /\ last = {}
  /\ seen = [c \in AllAPs |-> {}]
  /\ slept = 0 /\ fault = "none"

--------------------------------------------------------------------------------
\* smp_init runs on the boot processor while that is not in an interrupt.
BspStep == Running /\ loaded[BSP] = Idle

StartSmp ==
  /\ BspStep /\ bsp = "start"
  /\ bsp' = CASE cpu_count = 0 -> "panic"
              [] cpu_count = 1 -> "done"
              [] OTHER -> "loop"
  /\ UNCHANGED <<cpu_count, lapic0, i, curcnt, ap, gdtVars, timerVars, seen, slept, fault>>

\* Mutant: the loop leaves out the last processor.
LoopOver_Early == i = cpu_count - 1

\* Mutant: the loop goes one processor too far.
LoopOver_Late == i = cpu_count + 1

LoopOver == i = cpu_count

\* apic_sleep: remember the counter.
SleepStart ==
  /\ BspStep /\ bsp = "loop" /\ ~LoopOver
  /\ bsp' = "sleeping" /\ curcnt' = apic_timer_ticks /\ slept' = 0
  /\ UNCHANGED <<cpu_count, lapic0, i, ap, gdtVars, timerVars, seen, fault>>

\* Mutant: the sleep ends a tick early.
sleep_over_Early == (apic_timer_ticks - curcnt) % TICK_MOD >= SLEEP - 1

\* !(apic_timer_ticks - curcnt < ms), an unsigned difference.
sleep_over == (apic_timer_ticks - curcnt) % TICK_MOD >= SLEEP

\* Mutant: there is one sleep, before the loop.
AfterRelease_NoSleep == IF i + 1 = cpu_count THEN "loop" ELSE "sleeping"

AfterRelease == "loop"

\* The sleep is over; goto_address of processor i is set.  For the boot
\* processor itself nobody reads it.
Release ==
  /\ BspStep /\ bsp = "sleeping" /\ sleep_over
  /\ bsp' = AfterRelease /\ i' = i + 1
  /\ ap' = [c \in AllAPs |-> IF c = i THEN "released" ELSE ap[c]]
  /\ seen' = [c \in AllAPs |-> IF c = i THEN last ELSE seen[c]]
  /\ UNCHANGED <<cpu_count, lapic0, curcnt, gdtVars, timerVars, slept, fault>>

SmpDone ==
  /\ BspStep /\ bsp = "loop" /\ LoopOver
  /\ bsp' = "done"
  /\ UNCHANGED <<cpu_count, lapic0, i, curcnt, ap, gdtVars, timerVars, seen, slept, fault>>

smp_init == StartSmp \/ SleepStart \/ Release \/ SmpDone

--------------------------------------------------------------------------------
ApStep(c, from, to) ==
  /\ Running /\ ap[c] = from
  /\ ap' = [ap EXCEPT ![c] = to]
  /\ UNCHANGED <<bspVars, timerVars, seen, slept>>

\* A processor with local APIC id 0 returns from ap_trampoline at once: to the
\* boot loader, and the kernel sees no more of it.
ReturnToLoader(c) ==
  /\ ApStep(c, "released", "returned") /\ c = lapic0
  /\ UNCHANGED <<gdtVars, fault>>

\* gdt_set_entry(1, ...): granularity is first stored without its flags ...
ClearCodeFlags(c) ==
  /\ ApStep(c, "released", "torn") /\ c # lapic0
  /\ code_L' = 0
  /\ UNCHANGED <<tss_busy, fault>>

\* ... which are or-ed in afterwards.
SetCodeFlags(c) ==
  /\ ApStep(c, "torn", "code_set")
  /\ code_L' = 1
  /\ UNCHANGED <<tss_busy, fault>>

\* Mutant: access 0x8B, a busy TSS.
TssAccess_Busy == 1

\* Access 0x89: its busy bit.
TssAccess == 0

\* gdt_set_entry(5, ...), an available TSS.
SetTss(c) ==
  /\ ApStep(c, "code_set", "tss_set")
  /\ tss_busy' = TssAccess
  /\ UNCHANGED <<code_L, fault>>

\* s_setgdt: lgdt, then a far return that loads CS.
s_setgdt(c) ==
  /\ ApStep(c, "tss_set", "reloaded")
  /\ fault' = IF code_L = 1 THEN "none" ELSE "code segment"
  /\ UNCHANGED gdtVars

\* s_settss: ltr.
s_settss(c) ==
  /\ ApStep(c, "reloaded", "calibrating")
  /\ tss_busy' = 1
  /\ fault' = IF tss_busy = 0 THEN "none" ELSE "busy tss"
  /\ UNCHANGED code_L

\* init_apic_ap: pmt_delay is over and the timer is started.
init_apic_ap(c) ==
  /\ ApStep(c, "calibrated", "armed")
  /\ UNCHANGED <<gdtVars, fault>>

ap_trampoline(c) ==
  \/ ReturnToLoader(c) \/ ClearCodeFlags(c) \/ SetCodeFlags(c) \/ SetTss(c)
  \/ s_setgdt(c) \/ s_settss(c) \/ init_apic_ap(c)

--------------------------------------------------------------------------------
\* The timer interrupt of processor c is delivered: CS is loaded, and the
\* handler loads the shared counter.  The boot processor's tick ends a period.
Tick(c) ==
  /\ Running /\ loaded[c] = Idle /\ c \notin burst
  /\ \A a \in InGdtInit : c \notin seen[a]
  /\ fault' = IF code_L = 1 THEN "none" ELSE "code segment"
  /\ loaded' = [loaded EXCEPT ![c] = apic_timer_ticks]
  /\ burst' = burst \cup {c}
  /\ last' = last \cup {c}
  /\ seen' = [a \in AllAPs |-> IF a \in InGdtInit THEN seen[a] \cup {c} ELSE seen[a]]
  /\ \/ /\ c # BSP /\ c \in due
        /\ due' = due \ {c}
        /\ UNCHANGED ap
     \/ /\ c = BSP /\ due = {}
        /\ due' = {a \in AllAPs : ap[a] \in {"armed", "ticking"}}
        /\ ap' = [a \in AllAPs |-> CASE ap[a] = "calibrating" -> "calibrated"
                                     [] ap[a] = "armed" -> "ticking"
                                     [] OTHER -> ap[a]]
  /\ UNCHANGED <<bspVars, gdtVars, apic_timer_ticks, slept>>

\* apic_timer: the incremented value is stored, apic_eoi, and iretq loads CS.
apic_timer(c) ==
  /\ Running /\ loaded[c] # Idle
  /\ apic_timer_ticks' = (loaded[c] + 1) % TICK_MOD
  /\ loaded' = [loaded EXCEPT ![c] = Idle]
  /\ burst' = IF InHandler = {c} THEN {} ELSE burst
  /\ last' = IF sleep_over THEN last ELSE InHandler
  /\ fault' = IF code_L = 1 THEN "none" ELSE "code segment"
  /\ slept' = IF slept < SLEEP THEN slept + 1 ELSE slept
  /\ UNCHANGED <<bspVars, ap, gdtVars, due, seen>>

Halted == ~Running /\ UNCHANGED smpVars

SmpNext == \/ smp_init
           \/ \E c \in AllAPs : ap_trampoline(c)
           \/ \E c \in AllCPUs : Tick(c) \/ apic_timer(c)
           \/ Halted

SmpSpec == SmpInit /\ [][SmpNext]_smpVars

\* Every processor executes, and timers keep ticking.  Strong fairness for
\* smp_init: interrupts keep stopping it, but it runs between them.
SmpFairSpec ==
  /\ SmpSpec
  /\ SF_smpVars(smp_init)
  /\ \A c \in AllAPs : WF_smpVars(ap_trampoline(c))
  /\ \A c \in AllCPUs : WF_smpVars(Tick(c)) /\ WF_smpVars(apic_timer(c))

--------------------------------------------------------------------------------
BspTypes ==
  /\ cpu_count \in CpuCounts /\ i \in 0 .. cpu_count /\ lapic0 \in AllCPUs
  /\ bsp \in {"start", "loop", "sleeping", "done", "panic"}

ApTypes ==
  /\ ap \in [AllAPs -> GdtStates \cup {"parked", "returned", "calibrating",
                                       "calibrated", "armed", "ticking"}]
  /\ code_L \in 0 .. 1 /\ tss_busy \in 0 .. 1
  /\ fault \in {"none", "code segment", "busy tss"}

TimerTypes ==
  /\ curcnt \in 0 .. TICK_MOD - 1 /\ apic_timer_ticks \in 0 .. TICK_MOD - 1
  /\ loaded \in [AllCPUs -> {Idle} \cup 0 .. TICK_MOD - 1]
  /\ due \subseteq AllAPs /\ burst \subseteq AllCPUs /\ last \subseteq AllCPUs
  /\ seen \in [AllAPs -> SUBSET AllCPUs]
  /\ slept \in 0 .. SLEEP

SmpTypeOK == BspTypes /\ ApTypes /\ TimerTypes

(***************************************************************************)
(* smp.c:68 says of apic_sleep(2) that it fixes the triple fault: with it, *)
(* no interrupt and no segment load meets a half-written code descriptor,  *)
(* and no ltr meets a busy TSS.                                            *)
(***************************************************************************)
NoTripleFault == fault = "none"

(***************************************************************************)
(* ... which is so with up to two processors: the tick that the sleep ends *)
(* with leaves the only ticking processor a period to write the GDT in.    *)
(***************************************************************************)
PairStartsSafely == cpu_count <= 2 => NoTripleFault

(***************************************************************************)
(* The sleep staggers up to four processors: two of them are never in      *)
(* gdt_init at the same time, so the one TSS descriptor is theirs one      *)
(* after the other.  With more the shared counter runs too fast for it.    *)
(***************************************************************************)
GdtInitExclusive == cpu_count <= 4 => Cardinality(InGdtInit) <= 1

(***************************************************************************)
(* With up to three processors apic_sleep(n) never returns before n timer  *)
(* interrupts were handled, although the counter is shared and updates of  *)
(* it can be lost.  With more the counter may step back behind curcnt.     *)
(***************************************************************************)
SleepCountsTicks ==
  cpu_count <= 3 /\ bsp = "sleeping" /\ sleep_over => slept >= SLEEP

(***************************************************************************)
(* Every other processor that the boot loader reports is started and takes *)
(* timer interrupts in the end, but for one with local APIC id 0, which    *)
(* ap_trampoline turns away: unless there was no answer to begin with or   *)
(* more than two processors met the fault above.                           *)
(***************************************************************************)
AllCpusStart ==
  <>(\/ bsp = "panic" \/ (cpu_count > 2 /\ fault # "none")
     \/ bsp = "done" /\ \A c \in APs \ {lapic0} : ap[c] = "ticking")
================================================================================
