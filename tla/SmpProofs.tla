------------------------------- MODULE SmpProofs -------------------------------
(***************************************************************************)
(* Proofs about the start of the processors, for every set of processor    *)
(* counts, every length of the sleep and every width of the counter.       *)
(*                                                                         *)
(* The first processor to be released is alone with the boot processor,    *)
(* which has just ticked; the second is with one more, of which one has    *)
(* just ticked.  So too few ticks are left for the next sleep to end while *)
(* one of the two is in gdt_init.                                          *)
(***************************************************************************)
EXTENDS Smp, FiniteSetTheorems, TLAPS

USE SmpAssumption DEF SmpAssumption

BspInv ==
  /\ bsp \in {"start", "panic"} => i = 0
  /\ bsp = "sleeping" => i < cpu_count

\* A processor that has not been released is parked.
ParkedInv == \A c \in AllAPs : c >= i => ap[c] = "parked"

\* Only the boot processor and those that have armed their timer tick.
TickerInv ==
  /\ \A c \in due : ap[c] = "ticking"
  /\ \A c \in AllAPs : loaded[c] # Idle \/ c \in burst \/ c \in last => ap[c] = "ticking"
  /\ InHandler \subseteq burst

\* Only the first two processors tick.
Two == \A c \in AllAPs : ap[c] = "ticking" => c = 1

\* Then the value a handler has loaded is that of the counter, or one less
\* when the other handler has stored in between.
CounterInv ==
  Two => \A c \in AllCPUs : loaded[c] # Idle =>
           \/ loaded[c] = apic_timer_ticks
           \/ /\ (loaded[c] + 1) % TICK_MOD = apic_timer_ticks
              /\ \E o \in burst : o # c /\ loaded[o] = Idle

\* A handler that runs into its next period has met the boot processor's.
PeriodInv ==
  Two => \A c \in due : loaded[c] # Idle =>
           loaded[BSP] # Idle \/ (loaded[c] + 1) % TICK_MOD = apic_timer_ticks

\* The time that has passed for the sleep.
Passed == (apic_timer_ticks - curcnt) % TICK_MOD

SleepInv == Two /\ bsp = "sleeping" /\ slept < SLEEP => Passed <= slept

\* When the sleep is over, somebody has ticked, and if that was not the boot
\* processor, nobody is to tick before it.
LastInv ==
  bsp = "sleeping" /\ sleep_over /\ i <= 2 =>
    /\ InHandler \subseteq last
    /\ \/ BSP \in last
       \/ 1 \in last /\ \A c \in AllAPs : loaded[c] = Idle /\ c \notin due

\* Nobody ticks while the first application processor is in gdt_init ...
FirstInv ==
  \A c \in AllAPs : c = 1 /\ ap[c] \in GdtStates =>
    /\ i = 2 /\ BSP \in seen[c] /\ InHandler = {}
    /\ bsp = "sleeping" => apic_timer_ticks = curcnt

\* ... and at most one tick is handled while the second is.
Pending(c) == loaded[c] # Idle \/ c \notin seen[2]

SecondInv ==
  \A c \in AllAPs : c = 2 /\ ap[c] \in GdtStates =>
    /\ i = 3 /\ InHandler \subseteq seen[c]
    /\ ~(Pending(0) /\ Pending(1))
    /\ bsp = "sleeping" => IF Pending(0) \/ Pending(1) THEN apic_timer_ticks = curcnt
                                                      ELSE Passed <= 1

\* The GDT while there is at most one application processor.
GdtInv ==
  i <= 2 => /\ fault = "none"
            /\ code_L = 0 => \E c \in AllAPs : ap[c] = "torn"
            /\ \A c \in AllAPs : ap[c] \in {"tss_set", "reloaded"} => tss_busy = 0

SmpIInv ==
  /\ SmpTypeOK /\ BspInv /\ ParkedInv /\ TickerInv /\ CounterInv /\ PeriodInv
  /\ SleepInv /\ LastInv /\ FirstInv /\ SecondInv /\ GdtInv

--------------------------------------------------------------------------------
\* A remainder of a number that is at most one modulus off.
LEMMA ModOf ==
  ASSUME NEW m \in Nat \ {0}, NEW x \in Int, -m <= x, x < 2 * m
  PROVE  x % m = IF x < 0 THEN x + m ELSE IF x < m THEN x ELSE x - m
<1>1. ASSUME NEW q \in Int, NEW r \in 0 .. m - 1 PROVE (q * m + r) % m = r
  BY SMT
<1>2. CASE x < 0
  <2>1. (-1 * m + (x + m)) % m = x + m
    BY <1>1, <1>2
  <2>2. -1 * m + (x + m) = x
    OBVIOUS
  <2>3. QED
    BY <1>2, <2>1, <2>2
<1>3. CASE 0 <= x /\ x < m
  <2>1. (0 * m + x) % m = x
    BY <1>1, <1>3
  <2>2. 0 * m + x = x
    OBVIOUS
  <2>3. QED
    BY <1>3, <2>1, <2>2
<1>4. CASE m <= x
  <2>1. (1 * m + (x - m)) % m = x - m
    BY <1>1, <1>4
  <2>2. 1 * m + (x - m) = x
    OBVIOUS
  <2>3. QED
    BY <1>4, <2>1, <2>2
<1>5. QED
  BY <1>2, <1>3, <1>4

\* The successor of a counter.
LEMMA Succ ==
  ASSUME NEW a \in 0 .. TICK_MOD - 1
  PROVE  /\ (a + 1) % TICK_MOD = IF a + 1 = TICK_MOD THEN 0 ELSE a + 1
         /\ (a + 1) % TICK_MOD \in 0 .. TICK_MOD - 1
         /\ (a + 1) % TICK_MOD # a
<1>1. PICK x \in Int : x = a + 1
  OBVIOUS
<1>2. x % TICK_MOD = IF x < 0 THEN x + TICK_MOD
                     ELSE IF x < TICK_MOD THEN x ELSE x - TICK_MOD
  <2>1. TICK_MOD \in Nat \ {0} /\ -TICK_MOD <= x /\ x < 2 * TICK_MOD
    BY <1>1
  <2>2. QED
    BY <2>1, ModOf
<1>3. QED
  BY <1>1, <1>2

\* The unsigned difference of two counters.
LEMMA Difference ==
  ASSUME NEW a \in 0 .. TICK_MOD - 1, NEW b \in 0 .. TICK_MOD - 1
  PROVE  /\ (a - b) % TICK_MOD = IF a < b THEN a - b + TICK_MOD ELSE a - b
         /\ (a - b) % TICK_MOD \in 0 .. TICK_MOD - 1
<1>1. PICK x \in Int : x = a - b
  OBVIOUS
<1>2. x % TICK_MOD = IF x < 0 THEN x + TICK_MOD
                     ELSE IF x < TICK_MOD THEN x ELSE x - TICK_MOD
  <2>1. TICK_MOD \in Nat \ {0} /\ -TICK_MOD <= x /\ x < 2 * TICK_MOD
    BY <1>1
  <2>2. QED
    BY <2>1, ModOf
<1>3. QED
  BY <1>1, <1>2

\* A tick more makes the difference at most one larger.
LEMMA DifferenceSucc ==
  ASSUME NEW a \in 0 .. TICK_MOD - 1, NEW b \in 0 .. TICK_MOD - 1
  PROVE  (((a + 1) % TICK_MOD) - b) % TICK_MOD <= ((a - b) % TICK_MOD) + 1
BY Succ, Difference

\* The processors.
LEMMA Cpus ==
  /\ BSP = 0 /\ BSP \in AllCPUs /\ BSP \notin AllAPs /\ AllAPs \subseteq AllCPUs
  /\ AllAPs \subseteq Nat \ {0} /\ AllCPUs \subseteq Nat /\ Idle = -1
  /\ \A c \in AllCPUs : c # BSP => c \in AllAPs
  /\ 2 \in AllAPs => 1 \in AllAPs
BY DEF AllAPs, AllCPUs, BSP, Idle

\* The types that the other proofs use.
LEMMA SmpTypes ==
  ASSUME SmpTypeOK
  PROVE  /\ i \in Nat /\ cpu_count \in Nat /\ i <= cpu_count
         /\ curcnt \in 0 .. TICK_MOD - 1 /\ apic_timer_ticks \in 0 .. TICK_MOD - 1
         /\ slept \in 0 .. SLEEP /\ Passed \in 0 .. TICK_MOD - 1
         /\ \A c \in AllCPUs : loaded[c] # Idle => loaded[c] \in 0 .. TICK_MOD - 1
         /\ sleep_over <=> Passed >= SLEEP
         /\ \A c \in AllAPs : seen[c] \subseteq AllCPUs
<1>1. i \in Nat /\ cpu_count \in Nat /\ i <= cpu_count
  <2>1. cpu_count \in Nat /\ i \in 0 .. cpu_count
    BY DEF SmpTypeOK, BspTypes
  <2>2. QED
    BY <2>1
<1>2. /\ curcnt \in 0 .. TICK_MOD - 1 /\ apic_timer_ticks \in 0 .. TICK_MOD - 1
      /\ slept \in 0 .. SLEEP
      /\ \A c \in AllCPUs : loaded[c] # Idle => loaded[c] \in 0 .. TICK_MOD - 1
      /\ \A c \in AllAPs : seen[c] \subseteq AllCPUs
  BY DEF SmpTypeOK, TimerTypes
<1>3. Passed \in 0 .. TICK_MOD - 1
  BY <1>2, Difference DEF Passed
<1>4. QED
  BY <1>1, <1>2, <1>3 DEF Passed, sleep_over

\* With i at most 2 only the first two processors can tick.
LEMMA AtMostTwo ==
  ASSUME SmpTypeOK, ParkedInv, i <= 2
  PROVE  Two
BY SmpTypes, Cpus DEF ParkedInv, Two

--------------------------------------------------------------------------------
\* What is true when the boot loader starts _start: nobody has been released.
LEMMA SmpInitInv ==
  ASSUME SmpInit
  PROVE  SmpIInv
<1>1. /\ cpu_count \in CpuCounts /\ lapic0 \in AllCPUs
      /\ bsp = "start" /\ i = 0 /\ curcnt = 0
      /\ apic_timer_ticks = 0 /\ ap = [c \in AllAPs |-> "parked"]
      /\ code_L = 1 /\ tss_busy = 1 /\ loaded = [c \in AllCPUs |-> Idle]
      /\ due = {} /\ burst = {} /\ last = {} /\ seen = [c \in AllAPs |-> {}]
      /\ slept = 0 /\ fault = "none"
  BY DEF SmpInit, APs, AllCPUs
<1>2. SmpTypeOK
  BY <1>1 DEF SmpTypeOK, BspTypes, ApTypes, TimerTypes
<1>3. BspInv /\ ParkedInv /\ GdtInv
  BY <1>1 DEF BspInv, ParkedInv, GdtInv
<1>4. TickerInv /\ PeriodInv
  BY <1>1, Cpus DEF TickerInv, PeriodInv, InHandler
<1>5. CounterInv /\ SleepInv /\ LastInv
  BY <1>1 DEF CounterInv, SleepInv, LastInv
<1>6. FirstInv /\ SecondInv
  BY <1>1 DEF FirstInv, SecondInv, GdtStates
<1>7. QED
  BY <1>2, <1>3, <1>4, <1>5, <1>6 DEF SmpIInv

\* A step that changes nothing.
LEMMA SmpStutterInv ==
  ASSUME SmpIInv, UNCHANGED smpVars
  PROVE  SmpIInv'
<1>1. /\ UNCHANGED <<cpu_count, lapic0, bsp, i, curcnt, ap, code_L, tss_busy>>
      /\ UNCHANGED <<apic_timer_ticks, loaded, due, burst, last, seen, slept, fault>>
  BY DEF smpVars, bspVars, gdtVars, timerVars
<1>2. SmpTypeOK'
  BY <1>1 DEF SmpIInv, SmpTypeOK, BspTypes, ApTypes, TimerTypes
<1>3. BspInv' /\ ParkedInv' /\ GdtInv'
  BY <1>1 DEF SmpIInv, BspInv, ParkedInv, GdtInv
<1>4. TickerInv' /\ PeriodInv' /\ CounterInv'
  BY <1>1 DEF SmpIInv, TickerInv, PeriodInv, CounterInv, InHandler, Two
<1>5. SleepInv' /\ LastInv'
  BY <1>1 DEF SmpIInv, SleepInv, LastInv, Two, Passed, InHandler, sleep_over
<1>6. FirstInv' /\ SecondInv'
  BY <1>1 DEF SmpIInv, FirstInv, SecondInv, Passed, InHandler, Pending
<1>7. QED
  BY <1>2, <1>3, <1>4, <1>5, <1>6 DEF SmpIInv

\* The start and the end of smp_init.
LEMMA StartDoneInv ==
  ASSUME SmpIInv, StartSmp \/ SmpDone
  PROVE  SmpIInv'
<1>1. /\ UNCHANGED <<cpu_count, lapic0, i, curcnt, ap, code_L, tss_busy>>
      /\ UNCHANGED <<apic_timer_ticks, loaded, due, burst, last, seen, slept, fault>>
      /\ bsp' \in {"panic", "done", "loop"} /\ (bsp' = "panic" => i = 0)
  BY DEF StartSmp, SmpDone, timerVars, gdtVars, SmpIInv, BspInv
<1>2. SmpTypeOK'
  BY <1>1 DEF SmpIInv, SmpTypeOK, BspTypes, ApTypes, TimerTypes
<1>3. BspInv' /\ ParkedInv' /\ GdtInv'
  BY <1>1 DEF SmpIInv, BspInv, ParkedInv, GdtInv
<1>4. TickerInv' /\ PeriodInv' /\ CounterInv'
  BY <1>1 DEF SmpIInv, TickerInv, PeriodInv, CounterInv, InHandler, Two
<1>5. SleepInv' /\ LastInv'
  BY <1>1 DEF SleepInv, LastInv
<1>6. FirstInv' /\ SecondInv'
  BY <1>1 DEF SmpIInv, FirstInv, SecondInv, InHandler, Pending
<1>7. QED
  BY <1>2, <1>3, <1>4, <1>5, <1>6 DEF SmpIInv

\* apic_sleep begins: no time has passed for it.
LEMMA SleepStartInv ==
  ASSUME SmpIInv, SleepStart
  PROVE  SmpIInv'
<1>0. SmpTypeOK
  BY DEF SmpIInv
<1>1. /\ UNCHANGED <<cpu_count, lapic0, i, ap, code_L, tss_busy>>
      /\ UNCHANGED <<apic_timer_ticks, loaded, due, burst, last, seen, fault>>
      /\ bsp' = "sleeping" /\ curcnt' = apic_timer_ticks /\ slept' = 0 /\ i # cpu_count
  BY DEF SleepStart, LoopOver, timerVars, gdtVars
<1>2. SmpTypeOK'
  <2>1. BspTypes' /\ ApTypes'
    BY <1>0, <1>1 DEF SmpTypeOK, BspTypes, ApTypes
  <2>2. TimerTypes'
    BY <1>0, <1>1 DEF SmpTypeOK, TimerTypes
  <2>3. QED
    BY <2>1, <2>2 DEF SmpTypeOK
<1>3. BspInv' /\ ParkedInv' /\ GdtInv'
  BY <1>0, <1>1, SmpTypes DEF SmpIInv, BspInv, ParkedInv, GdtInv
<1>4. TickerInv' /\ PeriodInv' /\ CounterInv'
  BY <1>1 DEF SmpIInv, TickerInv, PeriodInv, CounterInv, InHandler, Two
<1>5. Passed' = 0
  BY <1>0, <1>1, SmpTypes, Difference DEF Passed
<1>6. SleepInv'
  BY <1>1, <1>5 DEF SleepInv
<1>7. LastInv'
  <2>1. ~sleep_over'
    BY <1>5 DEF Passed, sleep_over
  <2>2. QED
    BY <2>1 DEF LastInv
<1>8. FirstInv' /\ SecondInv'
  BY <1>1, <1>5 DEF SmpIInv, FirstInv, SecondInv, InHandler, Pending
<1>9. QED
  BY <1>2, <1>3, <1>4, <1>6, <1>7, <1>8 DEF SmpIInv

--------------------------------------------------------------------------------
\* The sleep does not end while the first or the second is in gdt_init.
LEMMA SleepOutlastsGdtInit ==
  ASSUME SmpIInv, bsp = "sleeping", sleep_over
  PROVE  \A c \in AllAPs : ap[c] \in GdtStates => c # 1 /\ c # 2
<1>1. SmpTypeOK /\ FirstInv /\ SecondInv
  BY DEF SmpIInv
<1>2. Passed >= 2
  BY <1>1, SmpTypes
<1>3. apic_timer_ticks # curcnt
  <2>1. apic_timer_ticks = curcnt => Passed = 0
    BY <1>1, SmpTypes, Difference DEF Passed
  <2>2. QED
    BY <1>2, <2>1
<1>4. ~(Passed <= 1)
  BY <1>1, <1>2, SmpTypes
<1>5. QED
  BY <1>1, <1>3, <1>4 DEF FirstInv, SecondInv

\* The sleep is over and the next processor is released.
LEMMA ReleaseInv ==
  ASSUME SmpIInv, Release
  PROVE  SmpIInv'
<1>0. SmpTypeOK /\ ParkedInv /\ TickerInv
  BY DEF SmpIInv
<1>1. /\ UNCHANGED <<cpu_count, lapic0, curcnt, code_L, tss_busy, apic_timer_ticks>>
      /\ UNCHANGED <<loaded, due, burst, last, slept, fault>>
      /\ bsp = "sleeping" /\ sleep_over /\ loaded[BSP] = Idle
      /\ bsp' = "loop" /\ i' = i + 1
      /\ ap' = [c \in AllAPs |-> IF c = i THEN "released" ELSE ap[c]]
      /\ seen' = [c \in AllAPs |-> IF c = i THEN last ELSE seen[c]]
  BY DEF Release, BspStep, AfterRelease, timerVars, gdtVars
<1>2. i < cpu_count /\ i \in Nat /\ cpu_count \in Nat
  BY <1>0, <1>1, SmpTypes DEF SmpIInv, BspInv
<1>3. SmpTypeOK'
  <2>1. BspTypes'
    BY <1>0, <1>1, <1>2 DEF SmpTypeOK, BspTypes
  <2>2. ApTypes'
    BY <1>0, <1>1 DEF SmpTypeOK, ApTypes, GdtStates
  <2>3. TimerTypes'
    BY <1>0, <1>1 DEF SmpTypeOK, TimerTypes
  <2>4. QED
    BY <2>1, <2>2, <2>3 DEF SmpTypeOK
<1>4. BspInv' /\ ParkedInv'
  BY <1>0, <1>1, <1>2, Cpus DEF BspInv, ParkedInv
<1>5. \A c \in AllAPs : /\ ap'[c] = "ticking" <=> ap[c] = "ticking"
                        /\ ap'[c] = "torn" <=> ap[c] = "torn"
                        /\ ap'[c] \in {"tss_set", "reloaded"}
                             <=> ap[c] \in {"tss_set", "reloaded"}
  BY <1>0, <1>1, <1>2 DEF ParkedInv
<1>6. TickerInv'
  BY <1>0, <1>1, <1>5 DEF SmpTypeOK, TimerTypes, TickerInv, InHandler
<1>7. CounterInv' /\ PeriodInv'
  BY <1>1, <1>5 DEF SmpIInv, CounterInv, PeriodInv, Two
<1>8. SleepInv' /\ LastInv'
  BY <1>1 DEF SleepInv, LastInv
<1>9. GdtInv'
  BY <1>1, <1>2, <1>5 DEF SmpIInv, GdtInv
<1>10. \A c \in AllAPs : ap[c] \in GdtStates => c # 1 /\ c # 2
  BY <1>1, SleepOutlastsGdtInit
<1>11. i <= 2 => /\ InHandler \subseteq last
                 /\ \/ BSP \in last
                    \/ 1 \in last /\ \A c \in AllAPs : loaded[c] = Idle
  BY <1>1 DEF SmpIInv, LastInv
<1>12. FirstInv'
  <2> SUFFICES ASSUME 1 \in AllAPs, ap'[1] \in GdtStates
               PROVE  /\ i' = 2 /\ BSP \in seen'[1] /\ InHandler' = {}
    BY <1>1 DEF FirstInv
  <2>1. i = 1
    BY <1>1, <1>10
  <2>2. \A c \in AllAPs : ap[c] = "parked"
    BY <1>0, <2>1, Cpus DEF ParkedInv
  <2>3. (\A c \in AllAPs : loaded[c] = Idle) /\ 1 \notin last
    BY <1>0, <2>2 DEF TickerInv
  <2>4. \A c \in AllCPUs : loaded[c] = Idle
    BY <1>1, <2>3, Cpus
  <2>5. QED
    BY <1>1, <1>11, <2>1, <2>3, <2>4 DEF InHandler
<1>13. SecondInv'
  <2> SUFFICES ASSUME 2 \in AllAPs, ap'[2] \in GdtStates
               PROVE  /\ i' = 3 /\ (InHandler \subseteq seen[2])'
                      /\ ~(Pending(0) /\ Pending(1))'
    BY <1>1 DEF SecondInv
  <2>1. i = 2
    BY <1>1, <1>10
  <2>2. seen'[2] = last /\ loaded' = loaded
    BY <1>1, <2>1
  <2>3. InHandler' \subseteq seen'[2]
    BY <1>11, <2>1, <2>2 DEF InHandler
  <2>4. ~(Pending(0) /\ Pending(1))'
    <3>1. 1 \in AllAPs /\ 0 \in AllCPUs /\ 1 \in AllCPUs /\ loaded[0] = Idle
      BY <1>1, Cpus
    <3>2. CASE 0 \in last
      BY <2>2, <3>1, <3>2 DEF Pending
    <3>3. CASE 1 \in last /\ loaded[1] = Idle
      BY <2>2, <3>1, <3>3 DEF Pending
    <3>4. QED
      BY <1>11, <2>1, <3>1, <3>2, <3>3, Cpus
  <2>5. QED
    BY <2>1, <2>3, <2>4, <1>1
<1>14. QED
  BY <1>3, <1>4, <1>6, <1>7, <1>8, <1>9, <1>12, <1>13 DEF SmpIInv

--------------------------------------------------------------------------------
\* A step of ap_trampoline: what it leaves to show.
LEMMA ApStepInv ==
  ASSUME SmpIInv, NEW c \in AllAPs, NEW from, NEW to, ApStep(c, from, to),
         from \notin {"parked", "ticking"},
         to \in GdtStates \cup {"returned", "calibrating", "calibrated", "armed"},
         to \in GdtStates => from \in GdtStates,
         code_L' \in 0 .. 1, tss_busy' \in 0 .. 1,
         fault' \in {"none", "code segment", "busy tss"}, GdtInv'
  PROVE  SmpIInv'
<1>0. SmpTypeOK
  BY DEF SmpIInv
<1>1. /\ UNCHANGED <<cpu_count, lapic0, bsp, i, curcnt, apic_timer_ticks, loaded>>
      /\ UNCHANGED <<due, burst, last, seen, slept>>
      /\ ap[c] = from /\ ap' = [ap EXCEPT ![c] = to]
  BY DEF ApStep, bspVars, timerVars
<1>2. SmpTypeOK'
  <2>1. BspTypes' /\ TimerTypes'
    BY <1>0, <1>1 DEF SmpTypeOK, BspTypes, TimerTypes
  <2>2. ApTypes'
    BY <1>0, <1>1 DEF SmpTypeOK, ApTypes
  <2>3. QED
    BY <2>1, <2>2 DEF SmpTypeOK
<1>3. to # "ticking" /\ to # "parked"
  BY DEF GdtStates
<1>4. \A a \in AllAPs : /\ ap'[a] = "ticking" <=> ap[a] = "ticking"
                        /\ ap'[a] = "parked" <=> ap[a] = "parked"
                        /\ ap'[a] \in GdtStates => ap[a] \in GdtStates
  BY <1>0, <1>1, <1>3 DEF SmpTypeOK, ApTypes
<1>5. BspInv' /\ ParkedInv'
  BY <1>1, <1>4 DEF SmpIInv, BspInv, ParkedInv
<1>6. TickerInv'
  BY <1>0, <1>1, <1>4 DEF SmpIInv, SmpTypeOK, TimerTypes, TickerInv, InHandler
<1>7. CounterInv' /\ PeriodInv'
  BY <1>1, <1>4 DEF SmpIInv, CounterInv, PeriodInv, Two
<1>8. SleepInv' /\ LastInv'
  BY <1>1, <1>4 DEF SmpIInv, SleepInv, LastInv, Two, Passed, sleep_over, InHandler
<1>9. FirstInv' /\ SecondInv'
  BY <1>1, <1>4 DEF SmpIInv, FirstInv, SecondInv, InHandler, Pending, Passed
<1>10. QED
  BY <1>2, <1>5, <1>6, <1>7, <1>8, <1>9 DEF SmpIInv

\* ap_trampoline: while i is at most 2 there is one processor in it, so that
\* it finds in the GDT what it has written.
LEMMA ap_trampolineInv ==
  ASSUME SmpIInv, NEW c \in AllAPs, ap_trampoline(c)
  PROVE  SmpIInv'
<1>0. SmpTypeOK /\ ParkedInv /\ GdtInv
  BY DEF SmpIInv
<1>1. /\ ap \in [AllAPs -> GdtStates \cup {"parked", "returned", "calibrating",
                                           "calibrated", "armed", "ticking"}]
      /\ code_L \in 0 .. 1 /\ tss_busy \in 0 .. 1
      /\ fault \in {"none", "code segment", "busy tss"}
  BY <1>0 DEF SmpTypeOK, ApTypes
<1>2. i <= 2 => \A a \in AllAPs : ap[a] # "parked" => a = 1
  BY <1>0, SmpTypes, Cpus DEF ParkedInv
<1>10. 0 \in 0 .. 1 /\ 1 \in 0 .. 1 /\ 0 # 1
  OBVIOUS
<1>11. CASE ReturnToLoader(c)
  <2>1. /\ ap[c] = "released" /\ ap' = [ap EXCEPT ![c] = "returned"] /\ i' = i
        /\ code_L' = code_L /\ tss_busy' = tss_busy /\ fault' = fault
    BY <1>11 DEF ReturnToLoader, ApStep, bspVars, gdtVars
  <2>2. GdtInv'
    BY <1>0, <1>1, <1>2, <2>1 DEF GdtInv
  <2>3. ApStep(c, "released", "returned")
    BY <1>11 DEF ReturnToLoader
  <2>4. /\ "returned" \in GdtStates \cup {"returned", "calibrating", "calibrated", "armed"}
        /\ "returned" \in GdtStates => "released" \in GdtStates
    BY DEF GdtStates
  <2>5. /\ code_L' \in 0 .. 1 /\ tss_busy' \in 0 .. 1
        /\ fault' \in {"none", "code segment", "busy tss"}
    BY <1>1, <2>1, Zenon
  <2>6. QED
    BY <2>2, <2>3, <2>4, <2>5, ApStepInv
<1>3. CASE ClearCodeFlags(c)
  <2>1. /\ ap[c] = "released" /\ ap' = [ap EXCEPT ![c] = "torn"] /\ i' = i
        /\ code_L' = 0 /\ tss_busy' = tss_busy /\ fault' = fault
    BY <1>3 DEF ClearCodeFlags, ApStep, bspVars
  <2>2. GdtInv'
    BY <1>0, <1>1, <1>2, <2>1 DEF GdtInv
  <2>3. ApStep(c, "released", "torn")
    BY <1>3 DEF ClearCodeFlags
  <2>4. /\ "torn" \in GdtStates \cup {"returned", "calibrating", "calibrated", "armed"}
        /\ "torn" \in GdtStates => "released" \in GdtStates
    BY DEF GdtStates
  <2>5. /\ code_L' \in 0 .. 1 /\ tss_busy' \in 0 .. 1
        /\ fault' \in {"none", "code segment", "busy tss"}
    BY <1>1, <1>10, <2>1, Zenon
  <2>6. QED
    BY <2>2, <2>3, <2>4, <2>5, ApStepInv
<1>4. CASE SetCodeFlags(c)
  <2>1. /\ ap[c] = "torn" /\ ap' = [ap EXCEPT ![c] = "code_set"] /\ i' = i
        /\ code_L' = 1 /\ tss_busy' = tss_busy /\ fault' = fault
    BY <1>4 DEF SetCodeFlags, ApStep, bspVars
  <2>2. GdtInv'
    BY <1>0, <1>1, <1>2, <2>1 DEF GdtInv
  <2>3. ApStep(c, "torn", "code_set")
    BY <1>4 DEF SetCodeFlags
  <2>4. /\ "code_set" \in GdtStates \cup {"returned", "calibrating", "calibrated", "armed"}
        /\ "code_set" \in GdtStates => "torn" \in GdtStates
    BY DEF GdtStates
  <2>5. /\ code_L' \in 0 .. 1 /\ tss_busy' \in 0 .. 1
        /\ fault' \in {"none", "code segment", "busy tss"}
    BY <1>1, <1>10, <2>1, Zenon
  <2>6. QED
    BY <2>2, <2>3, <2>4, <2>5, ApStepInv
<1>5. CASE SetTss(c)
  <2>1. /\ ap[c] = "code_set" /\ ap' = [ap EXCEPT ![c] = "tss_set"] /\ i' = i
        /\ code_L' = code_L /\ tss_busy' = 0 /\ fault' = fault
    BY <1>5 DEF SetTss, TssAccess, ApStep, bspVars
  <2>2. GdtInv'
    BY <1>0, <1>1, <1>2, <2>1 DEF GdtInv
  <2>3. ApStep(c, "code_set", "tss_set")
    BY <1>5 DEF SetTss
  <2>4. /\ "tss_set" \in GdtStates \cup {"returned", "calibrating", "calibrated", "armed"}
        /\ "tss_set" \in GdtStates => "code_set" \in GdtStates
    BY DEF GdtStates
  <2>5. /\ code_L' \in 0 .. 1 /\ tss_busy' \in 0 .. 1
        /\ fault' \in {"none", "code segment", "busy tss"}
    BY <1>1, <1>10, <2>1, Zenon
  <2>6. QED
    BY <2>2, <2>3, <2>4, <2>5, ApStepInv
<1>6. CASE s_setgdt(c)
  <2>1. /\ ap[c] = "tss_set" /\ ap' = [ap EXCEPT ![c] = "reloaded"] /\ i' = i
        /\ code_L' = code_L /\ tss_busy' = tss_busy
        /\ fault' = IF code_L = 1 THEN "none" ELSE "code segment"
    BY <1>6 DEF s_setgdt, ApStep, bspVars, gdtVars
  <2>2. GdtInv'
    <3> SUFFICES ASSUME i <= 2 PROVE GdtInv'
      BY <2>1 DEF GdtInv
    <3>1. ~(\E a \in AllAPs : ap[a] = "torn")
      BY <1>2, <2>1
    <3>2. code_L = 1
      BY <1>0, <1>1, <3>1 DEF GdtInv
    <3>3. tss_busy = 0
      BY <1>0, <2>1 DEF GdtInv
    <3>4. fault' = "none" /\ code_L' = 1 /\ tss_busy' = 0
      BY <2>1, <3>2, <3>3
    <3>5. QED
      BY <1>10, <3>4 DEF GdtInv
  <2>3. ApStep(c, "tss_set", "reloaded")
    BY <1>6 DEF s_setgdt
  <2>4. /\ "reloaded" \in GdtStates \cup {"returned", "calibrating", "calibrated", "armed"}
        /\ "reloaded" \in GdtStates => "tss_set" \in GdtStates
    BY DEF GdtStates
  <2>5. /\ code_L' \in 0 .. 1 /\ tss_busy' \in 0 .. 1
        /\ fault' \in {"none", "code segment", "busy tss"}
    BY <1>1, <1>10, <2>1, Zenon
  <2>6. QED
    BY <2>2, <2>3, <2>4, <2>5, ApStepInv
<1>7. CASE s_settss(c)
  <2>1. /\ ap[c] = "reloaded" /\ ap' = [ap EXCEPT ![c] = "calibrating"] /\ i' = i
        /\ code_L' = code_L /\ tss_busy' = 1
        /\ fault' = IF tss_busy = 0 THEN "none" ELSE "busy tss"
    BY <1>7 DEF s_settss, ApStep, bspVars
  <2>2. GdtInv'
    BY <1>0, <1>1, <1>2, <2>1 DEF GdtInv
  <2>3. ApStep(c, "reloaded", "calibrating")
    BY <1>7 DEF s_settss
  <2>4. /\ "calibrating" \in GdtStates \cup {"returned", "calibrating", "calibrated",
                                             "armed"}
        /\ "calibrating" \in GdtStates => "reloaded" \in GdtStates
    BY DEF GdtStates
  <2>5. /\ code_L' \in 0 .. 1 /\ tss_busy' \in 0 .. 1
        /\ fault' \in {"none", "code segment", "busy tss"}
    BY <1>1, <1>10, <2>1, Zenon
  <2>6. QED
    BY <2>2, <2>3, <2>4, <2>5, ApStepInv
<1>8. CASE init_apic_ap(c)
  <2>1. /\ ap[c] = "calibrated" /\ ap' = [ap EXCEPT ![c] = "armed"] /\ i' = i
        /\ code_L' = code_L /\ tss_busy' = tss_busy /\ fault' = fault
    BY <1>8 DEF init_apic_ap, ApStep, bspVars, gdtVars
  <2>2. GdtInv'
    BY <1>0, <1>1, <1>2, <2>1 DEF GdtInv
  <2>3. ApStep(c, "calibrated", "armed")
    BY <1>8 DEF init_apic_ap
  <2>4. /\ "armed" \in GdtStates \cup {"returned", "calibrating", "calibrated", "armed"}
        /\ "armed" \in GdtStates => "calibrated" \in GdtStates
    BY DEF GdtStates
  <2>5. /\ code_L' \in 0 .. 1 /\ tss_busy' \in 0 .. 1
        /\ fault' \in {"none", "code segment", "busy tss"}
    BY <1>1, <1>10, <2>1, Zenon
  <2>6. QED
    BY <2>2, <2>3, <2>4, <2>5, ApStepInv
<1>9. QED
  BY <1>3, <1>4, <1>5, <1>6, <1>7, <1>8, <1>11 DEF ap_trampoline

--------------------------------------------------------------------------------
\* Where the processors are that have been released and are not ticking.
LEMMA WhoTicks ==
  ASSUME SmpIInv
  PROVE  /\ \A c \in AllAPs : loaded[c] # Idle \/ c \in burst \/ c \in due
                                => ap[c] = "ticking" /\ c < i
         /\ \A c \in AllAPs : ap[c] = "ticking" => ap[c] \notin GdtStates
         /\ \A c \in AllAPs : ap[c] \in GdtStates => c < i
<1>1. SmpTypeOK /\ ParkedInv /\ TickerInv
  BY DEF SmpIInv
<1>2. \A c \in AllAPs : c \in Nat /\ i \in Nat
  BY <1>1, Cpus, SmpTypes
<1>3. \A c \in AllAPs : ap[c] # "parked" => c < i
  BY <1>1, <1>2 DEF ParkedInv
<1>4. "ticking" \notin GdtStates /\ "parked" \notin GdtStates
  BY DEF GdtStates
<1>5. \A c \in AllAPs : loaded[c] # Idle \/ c \in burst \/ c \in due => ap[c] = "ticking"
  BY <1>1 DEF TickerInv
<1>6. QED
  BY <1>3, <1>4, <1>5

\* Nothing interrupts the first application processor in gdt_init: the boot
\* processor has just ticked, and nobody else ticks.
LEMMA FirstIsAlone ==
  ASSUME SmpIInv, NEW a \in AllAPs, a < 2, ap[a] \in GdtStates, NEW c \in AllCPUs
  PROVE  ~Tick(c) /\ ~apic_timer(c)
<1>1. a = 1
  BY Cpus
<1>2. i = 2 /\ BSP \in seen[a] /\ InHandler = {}
  BY <1>1 DEF SmpIInv, FirstInv
<1>3. ~apic_timer(c)
  BY <1>2 DEF apic_timer, InHandler
<1>4. c # BSP => c \notin due
  <2> SUFFICES ASSUME c # BSP, c \in due PROVE FALSE
    OBVIOUS
  <2>1. c \in AllAPs /\ c \in Nat /\ c # 0
    BY Cpus
  <2>2. ap[c] = "ticking" /\ c < i /\ ap[c] \notin GdtStates
    BY <2>1, WhoTicks
  <2>3. c = 1
    BY <1>2, <2>1, <2>2
  <2>4. QED
    BY <1>1, <2>2, <2>3
<1>5. a \in InGdtInit
  BY DEF InGdtInit
<1>6. ~Tick(c)
  BY <1>2, <1>4, <1>5 DEF Tick
<1>7. QED
  BY <1>3, <1>6

\* So no interrupt meets a half-written code descriptor before the second
\* application processor is released.
LEMMA NoTornDescriptor ==
  ASSUME SmpIInv, NEW c \in AllCPUs, Tick(c) \/ apic_timer(c), i <= 2
  PROVE  code_L = 1
<1>1. SUFFICES ASSUME code_L # 1 PROVE FALSE
  OBVIOUS
<1>2. code_L = 0
  <2>1. code_L \in 0 .. 1
    BY DEF SmpIInv, SmpTypeOK, ApTypes
  <2>2. QED
    BY ONLY <1>1, <2>1
<1>3. PICK a \in AllAPs : ap[a] = "torn"
  BY <1>2 DEF SmpIInv, GdtInv
<1>4. ap[a] \in GdtStates
  BY <1>3 DEF GdtStates
<1>5. a < i /\ i \in Nat /\ a \in Nat
  BY <1>4, WhoTicks, SmpTypes, Cpus DEF SmpIInv
<1>6. a < 2
  BY <1>5
<1>7. QED
  BY <1>4, <1>6, FirstIsAlone

\* Who may be in a handler when only the first two processors tick.
LEMMA TwoTick ==
  ASSUME SmpIInv, Two
  PROVE  /\ \A c \in AllCPUs : loaded[c] # Idle \/ c \in burst => c = 0 \/ c = 1
         /\ \A c \in due : c = 1
<1>1. \A c \in AllAPs : loaded[c] # Idle \/ c \in burst \/ c \in due => c = 1
  BY WhoTicks DEF Two
<1>2. due \subseteq AllAPs
  BY DEF SmpIInv, SmpTypeOK, TimerTypes
<1>3. QED
  BY <1>1, <1>2, Cpus

\* While the second application processor is in gdt_init two processors tick.
LEMMA SecondMeetsTwo ==
  ASSUME SmpIInv, 2 \in AllAPs, ap[2] \in GdtStates
  PROVE  Two /\ i = 3
<1>1. i = 3
  BY DEF SmpIInv, SecondInv
<1>2. ASSUME NEW c \in AllAPs, ap[c] = "ticking" PROVE c = 1
  <2>1. ap[c] \notin GdtStates /\ c \in Nat \ {0}
    BY <1>2, WhoTicks, Cpus
  <2>2. c < i
    BY <1>1, <1>2, <2>1 DEF SmpIInv, ParkedInv
  <2>3. c # 2
    BY <2>1
  <2>4. QED
    BY <1>1, <2>1, <2>2, <2>3
<1>3. QED
  BY <1>1, <1>2 DEF Two

--------------------------------------------------------------------------------
\* A timer interrupt is delivered.
LEMMA TickInv ==
  ASSUME SmpIInv, NEW c \in AllCPUs, Tick(c)
  PROVE  SmpIInv'
<1>0. SmpTypeOK /\ ParkedInv /\ TickerInv /\ apic_timer_ticks # Idle
  BY SmpTypes, Cpus DEF SmpIInv
<1>1. /\ UNCHANGED <<cpu_count, lapic0, bsp, i, curcnt, code_L, tss_busy>>
      /\ UNCHANGED <<apic_timer_ticks, slept>>
      /\ loaded[c] = Idle /\ c \notin burst
      /\ \A a \in InGdtInit : c \notin seen[a]
      /\ fault' = IF code_L = 1 THEN "none" ELSE "code segment"
      /\ loaded' = [loaded EXCEPT ![c] = apic_timer_ticks]
      /\ burst' = burst \cup {c} /\ last' = last \cup {c}
      /\ seen' = [a \in AllAPs |-> IF a \in InGdtInit THEN seen[a] \cup {c} ELSE seen[a]]
  BY DEF Tick, bspVars, gdtVars
<1>2. \/ c # BSP /\ c \in due /\ due' = due \ {c} /\ ap' = ap
      \/ /\ c = BSP /\ due = {}
         /\ due' = {a \in AllAPs : ap[a] \in {"armed", "ticking"}}
         /\ ap' = [a \in AllAPs |-> CASE ap[a] = "calibrating" -> "calibrated"
                                      [] ap[a] = "armed" -> "ticking"
                                      [] OTHER -> ap[a]]
  BY DEF Tick
<1>3. /\ loaded \in [AllCPUs -> {Idle} \cup 0 .. TICK_MOD - 1]
      /\ due \subseteq AllAPs /\ burst \subseteq AllCPUs /\ last \subseteq AllCPUs
      /\ seen \in [AllAPs -> SUBSET AllCPUs]
      /\ ap \in [AllAPs -> GdtStates \cup {"parked", "returned", "calibrating",
                                           "calibrated", "armed", "ticking"}]
  BY <1>0 DEF SmpTypeOK, TimerTypes, ApTypes
<1>4. \A a \in AllCPUs : loaded'[a] = IF a = c THEN apic_timer_ticks ELSE loaded[a]
  BY <1>1, <1>3
<1>5. \A a \in AllAPs : /\ ap[a] = "ticking" => ap'[a] = "ticking"
                        /\ ap'[a] = "parked" <=> ap[a] = "parked"
                        /\ ap[a] \in GdtStates => ap'[a] = ap[a]
                        /\ ap'[a] \in GdtStates => ap'[a] = ap[a]
  <2>1. CASE ap' = ap
    BY <2>1
  <2>2. CASE ap' = [a \in AllAPs |-> CASE ap[a] = "calibrating" -> "calibrated"
                                       [] ap[a] = "armed" -> "ticking"
                                       [] OTHER -> ap[a]]
    BY <2>2 DEF GdtStates
  <2>3. QED
    BY <1>2, <2>1, <2>2
<1>6. Two' => Two
  BY <1>5 DEF Two
<1>7. SmpTypeOK'
  <2>1. BspTypes'
    BY <1>0, <1>1 DEF SmpTypeOK, BspTypes
  <2>2. ApTypes'
    <3>1. ap' \in [AllAPs -> GdtStates \cup {"parked", "returned", "calibrating",
                                             "calibrated", "armed", "ticking"}]
      BY <1>2, <1>3 DEF GdtStates
    <3>2. QED
      BY <1>0, <1>1, <3>1 DEF SmpTypeOK, ApTypes
  <2>3. TimerTypes'
    <3>1. due' \subseteq AllAPs
      BY <1>2, <1>3
    <3>2. loaded' \in [AllCPUs -> {Idle} \cup 0 .. TICK_MOD - 1]
      BY <1>0, <1>1, <1>3, SmpTypes
    <3>3. seen' \in [AllAPs -> SUBSET AllCPUs]
      BY <1>1, <1>3
    <3>4. QED
      BY <1>0, <1>1, <3>1, <3>2, <3>3 DEF SmpTypeOK, TimerTypes
  <2>4. QED
    BY <2>1, <2>2, <2>3 DEF SmpTypeOK
<1>8. BspInv' /\ ParkedInv'
  BY <1>0, <1>1, <1>5 DEF SmpIInv, BspInv, ParkedInv
<1>9. c \in AllAPs => ap[c] = "ticking"
  BY <1>0, <1>2, Cpus DEF TickerInv
<1>10. TickerInv'
  <2>1. \A a \in due' : ap'[a] = "ticking"
    BY <1>0, <1>2, <1>3 DEF TickerInv
  <2>2. \A a \in AllAPs : loaded'[a] # Idle \/ a \in burst' \/ a \in last'
                            => ap'[a] = "ticking"
    BY <1>0, <1>1, <1>4, <1>5, <1>9, Cpus DEF TickerInv
  <2>3. InHandler' \subseteq burst'
    BY <1>0, <1>1, <1>4 DEF TickerInv, InHandler
  <2>4. QED
    BY <2>1, <2>2, <2>3 DEF TickerInv
<1>11. CounterInv'
  <2> SUFFICES ASSUME Two, NEW a \in AllCPUs, loaded'[a] # Idle
               PROVE  \/ loaded'[a] = apic_timer_ticks
                      \/ /\ (loaded'[a] + 1) % TICK_MOD = apic_timer_ticks
                         /\ \E o \in burst' : o # a /\ loaded'[o] = Idle
    BY <1>1, <1>6 DEF CounterInv
  <2>1. CASE a = c
    BY <1>4, <2>1
  <2>2. CASE a # c
    BY <1>1, <1>3, <1>4, <2>2 DEF SmpIInv, CounterInv
  <2>3. QED
    BY <2>1, <2>2
<1>12. PeriodInv'
  <2>1. CASE c = BSP
    BY <1>0, <1>4, <2>1 DEF PeriodInv
  <2>2. CASE c # BSP
    BY <1>1, <1>2, <1>3, <1>4, <1>6, <2>2, Cpus DEF SmpIInv, PeriodInv
  <2>3. QED
    BY <2>1, <2>2
<1>13. SleepInv'
  BY <1>1, <1>6 DEF SmpIInv, SleepInv, Passed
<1>14. LastInv'
  <2> SUFFICES ASSUME bsp = "sleeping", sleep_over, i <= 2
               PROVE  InHandler' \subseteq last' /\ BSP \in last'
    BY <1>1 DEF LastInv, sleep_over
  <2>1. /\ InHandler \subseteq last
        /\ BSP \in last \/ \A a \in AllAPs : a \notin due
    BY DEF SmpIInv, LastInv
  <2>2. InHandler' \subseteq last'
    BY <1>1, <1>4, <2>1 DEF InHandler
  <2>3. BSP \in last'
    BY <1>1, <1>2, <1>3, <2>1
  <2>4. QED
    BY <2>2, <2>3
<1>15. FirstInv'
  <2> SUFFICES ASSUME 1 \in AllAPs, ap'[1] \in GdtStates PROVE FALSE
    BY DEF FirstInv
  <2>1. ap[1] \in GdtStates
    BY <1>5
  <2>2. QED
    BY <2>1, FirstIsAlone
<1>16. SecondInv'
  <2> SUFFICES ASSUME 2 \in AllAPs, ap'[2] \in GdtStates
               PROVE  /\ i' = 3 /\ (InHandler \subseteq seen[2])'
                      /\ ~(Pending(0) /\ Pending(1))'
                      /\ bsp' = "sleeping" =>
                           IF (Pending(0) \/ Pending(1))' THEN (apic_timer_ticks = curcnt)'
                                                          ELSE (Passed <= 1)'
    BY DEF SecondInv
  <2>1. ap[2] \in GdtStates
    BY <1>5
  <2>2. Two /\ i = 3 /\ 2 \in InGdtInit
    BY <2>1, SecondMeetsTwo DEF InGdtInit
  <2>3. c \in {0, 1}
    BY <1>9, <2>2, Cpus DEF Two
  <2>4. seen'[2] = seen[2] \cup {c} /\ c \notin seen[2]
    BY <1>1, <2>2
  <2>5. 0 \in AllCPUs /\ 1 \in AllCPUs
    BY Cpus
  <2>6. (Pending(0)' <=> Pending(0)) /\ (Pending(1)' <=> Pending(1))
    BY <1>0, <1>4, <2>3, <2>4, <2>5 DEF Pending
  <2>7. /\ InHandler \subseteq seen[2] /\ ~(Pending(0) /\ Pending(1))
        /\ bsp = "sleeping" => IF Pending(0) \/ Pending(1)
                                 THEN apic_timer_ticks = curcnt ELSE Passed <= 1
    BY <2>1 DEF SmpIInv, SecondInv
  <2>8. InHandler' \subseteq seen'[2]
    BY <1>4, <2>4, <2>7 DEF InHandler
  <2>9. Passed' = Passed
    BY <1>1 DEF Passed
  <2>10. QED
    BY <1>1, <2>2, <2>6, <2>7, <2>8, <2>9
<1>17. GdtInv'
  <2> SUFFICES ASSUME i <= 2 PROVE GdtInv'
    BY <1>1 DEF GdtInv
  <2>1. code_L = 1 /\ fault' = "none" /\ code_L' = 1 /\ tss_busy' = tss_busy
    BY <1>1, NoTornDescriptor
  <2>2. ASSUME NEW a \in AllAPs, ap'[a] \in {"tss_set", "reloaded"} PROVE tss_busy = 0
    <3>1. ap[a] = ap'[a]
      BY <1>5, <2>2 DEF GdtStates
    <3>2. QED
      BY <2>2, <3>1 DEF SmpIInv, GdtInv
  <2>3. 1 # 0
    OBVIOUS
  <2>4. QED
    BY <2>1, <2>2, <2>3 DEF GdtInv
<1>18. QED
  BY <1>7, <1>8, <1>10, <1>11, <1>12, <1>13, <1>14, <1>15, <1>16, <1>17 DEF SmpIInv

--------------------------------------------------------------------------------
\* What a store does to the counter while two processors tick: it adds one, or
\* repeats the other's store.
LEMMA StoreAddsOne ==
  ASSUME SmpIInv, Two, NEW c \in AllCPUs, apic_timer(c)
  PROVE  /\ \/ /\ loaded[c] = apic_timer_ticks
               /\ apic_timer_ticks' = (apic_timer_ticks + 1) % TICK_MOD
            \/ apic_timer_ticks' = apic_timer_ticks
         /\ \A d \in AllCPUs : d # c /\ loaded[d] # Idle =>
              (loaded[d] + 1) % TICK_MOD = apic_timer_ticks'
         /\ Passed' \in Int /\ Passed' <= Passed + 1
<1>1. /\ loaded[c] # Idle /\ apic_timer_ticks' = (loaded[c] + 1) % TICK_MOD
      /\ curcnt' = curcnt
  BY DEF apic_timer, bspVars
<1>2. \A d \in AllCPUs : loaded[d] # Idle =>
        \/ loaded[d] = apic_timer_ticks
        \/ /\ (loaded[d] + 1) % TICK_MOD = apic_timer_ticks
           /\ \E o \in burst : o # d /\ loaded[o] = Idle
  BY DEF SmpIInv, CounterInv
<1>3. /\ \A d \in AllCPUs : loaded[d] # Idle \/ d \in burst => d = 0 \/ d = 1
      /\ burst \subseteq AllCPUs
  BY TwoTick DEF SmpIInv, SmpTypeOK, TimerTypes
<1>4. ASSUME NEW d \in AllCPUs, d # c, loaded[d] # Idle
      PROVE  loaded[d] = apic_timer_ticks /\ loaded[c] = apic_timer_ticks
  <2>1. \A o \in burst : loaded[o] = Idle => o # c /\ o # d
    BY <1>1, <1>4
  <2>2. \A o \in burst : o = c \/ o = d
    BY <1>1, <1>3, <1>4
  <2>3. QED
    BY <1>1, <1>2, <1>4, <2>1, <2>2
<1>5. \/ /\ loaded[c] = apic_timer_ticks
         /\ apic_timer_ticks' = (apic_timer_ticks + 1) % TICK_MOD
      \/ apic_timer_ticks' = apic_timer_ticks
  BY <1>1, <1>2
<1>6. /\ apic_timer_ticks \in 0 .. TICK_MOD - 1 /\ curcnt \in 0 .. TICK_MOD - 1
      /\ Passed \in 0 .. TICK_MOD - 1
  BY SmpTypes DEF SmpIInv
<1>7. Passed' \in Int /\ Passed' <= Passed + 1
  <2>1. CASE apic_timer_ticks' = (apic_timer_ticks + 1) % TICK_MOD
    <3>1. PICK t \in 0 .. TICK_MOD - 1 : t = (apic_timer_ticks + 1) % TICK_MOD
      BY <1>6, Succ
    <3>2. Passed' = (t - curcnt) % TICK_MOD
      BY <1>1, <2>1, <3>1 DEF Passed
    <3>3. (t - curcnt) % TICK_MOD \in Int
      BY <1>6, <3>1, Difference
    <3>4. (t - curcnt) % TICK_MOD <= ((apic_timer_ticks - curcnt) % TICK_MOD) + 1
      BY <1>6, <3>1, DifferenceSucc
    <3>5. QED
      BY <3>2, <3>3, <3>4 DEF Passed
  <2>2. CASE apic_timer_ticks' = apic_timer_ticks
    <3>1. Passed' = Passed
      BY <1>1, <2>2 DEF Passed
    <3>2. QED
      BY <1>6, <3>1
  <2>3. QED
    BY <1>5, <2>1, <2>2
<1>8. QED
  BY <1>1, <1>4, <1>5, <1>7

\* The handler of the timer interrupt stores and returns.
LEMMA apic_timerInv ==
  ASSUME SmpIInv, NEW c \in AllCPUs, apic_timer(c)
  PROVE  SmpIInv'
<1>0. SmpTypeOK /\ ParkedInv /\ TickerInv
  BY DEF SmpIInv
<1>1. /\ UNCHANGED <<cpu_count, lapic0, bsp, i, curcnt, ap, code_L, tss_busy, due, seen>>
      /\ loaded[c] # Idle
      /\ apic_timer_ticks' = (loaded[c] + 1) % TICK_MOD
      /\ loaded' = [loaded EXCEPT ![c] = Idle]
      /\ burst' = IF InHandler = {c} THEN {} ELSE burst
      /\ last' = IF sleep_over THEN last ELSE InHandler
      /\ fault' = IF code_L = 1 THEN "none" ELSE "code segment"
      /\ slept' = IF slept < SLEEP THEN slept + 1 ELSE slept
  BY DEF apic_timer, bspVars, gdtVars
<1>2. /\ loaded \in [AllCPUs -> {Idle} \cup 0 .. TICK_MOD - 1]
      /\ due \subseteq AllAPs /\ burst \subseteq AllCPUs /\ last \subseteq AllCPUs
      /\ slept \in 0 .. SLEEP
  BY <1>0 DEF SmpTypeOK, TimerTypes
<1>3. \A a \in AllCPUs : loaded'[a] = IF a = c THEN Idle ELSE loaded[a]
  BY <1>1, <1>2
<1>4. InHandler' = InHandler \ {c} /\ c \in InHandler /\ InHandler \subseteq AllCPUs
  BY <1>1, <1>3 DEF InHandler
<1>5. Two' <=> Two
  BY <1>1 DEF Two
<1>6. SmpTypeOK'
  <2>1. BspTypes' /\ ApTypes'
    BY <1>0, <1>1 DEF SmpTypeOK, BspTypes, ApTypes
  <2>2. apic_timer_ticks' \in 0 .. TICK_MOD - 1
    <3>1. loaded[c] \in 0 .. TICK_MOD - 1
      BY <1>1, <1>2
    <3>2. QED
      BY <1>1, <3>1, Succ
  <2>3. loaded' \in [AllCPUs -> {Idle} \cup 0 .. TICK_MOD - 1]
    BY <1>1, <1>2
  <2>4. slept' \in 0 .. SLEEP
    <3>1. slept' = IF slept < SLEEP THEN slept + 1 ELSE slept
      BY <1>1
    <3>2. slept \in 0 .. SLEEP /\ SLEEP \in Nat
      BY <1>2
    <3>3. QED
      BY ONLY <3>1, <3>2
  <2>5. burst' \subseteq AllCPUs /\ last' \subseteq AllCPUs
    BY <1>1, <1>2, <1>4
  <2>6. TimerTypes'
    BY <1>0, <1>1, <2>2, <2>3, <2>4, <2>5 DEF SmpTypeOK, TimerTypes
  <2>7. QED
    BY <2>1, <2>6 DEF SmpTypeOK
<1>7. BspInv' /\ ParkedInv'
  BY <1>1 DEF SmpIInv, BspInv, ParkedInv
<1>8. TickerInv'
  <2>1. \A a \in AllAPs : loaded'[a] # Idle \/ a \in burst' \/ a \in last'
                            => ap[a] = "ticking"
    <3>1. \A a \in AllAPs : loaded'[a] # Idle => loaded[a] # Idle
      BY <1>3, Cpus
    <3>2. \A a \in AllAPs : a \in InHandler => loaded[a] # Idle
      BY DEF InHandler
    <3>3. QED
      BY <1>0, <1>1, <3>1, <3>2 DEF TickerInv
  <2>2. InHandler' \subseteq burst'
    BY <1>0, <1>1, <1>4 DEF TickerInv
  <2>3. QED
    BY <1>0, <1>1, <2>1, <2>2 DEF TickerInv
<1>9. CounterInv'
  <2> SUFFICES ASSUME Two, NEW d \in AllCPUs, loaded'[d] # Idle
               PROVE  /\ (loaded'[d] + 1) % TICK_MOD = apic_timer_ticks'
                      /\ \E o \in burst' : o # d /\ loaded'[o] = Idle
    BY <1>5 DEF CounterInv
  <2>1. d # c /\ loaded'[d] = loaded[d] /\ d \in InHandler
    BY <1>3 DEF InHandler
  <2>2. (loaded[d] + 1) % TICK_MOD = apic_timer_ticks'
    BY <1>3, <2>1, StoreAddsOne
  <2>3. burst' = burst /\ c \in burst
    BY <1>0, <1>1, <1>4, <2>1 DEF TickerInv
  <2>4. QED
    BY <1>3, <2>1, <2>2, <2>3
<1>10. PeriodInv'
  <2> SUFFICES ASSUME Two, NEW d \in due, loaded'[d] # Idle
               PROVE  (loaded'[d] + 1) % TICK_MOD = apic_timer_ticks'
    BY <1>1, <1>5 DEF PeriodInv
  <2>1. d \in AllCPUs
    BY <1>2, Cpus
  <2>2. d # c /\ loaded'[d] = loaded[d]
    BY <1>3, <2>1
  <2>3. QED
    BY <2>1, <2>2, StoreAddsOne
<1>11. SleepInv'
  <2> SUFFICES ASSUME Two, bsp = "sleeping", slept' < SLEEP
               PROVE  Passed' <= slept'
    BY <1>1, <1>5 DEF SleepInv
  <2>1. slept < SLEEP /\ slept' = slept + 1
    BY <1>1, <1>2
  <2>2. Passed <= slept /\ Passed \in Int
    BY <1>0, <2>1, SmpTypes DEF SmpIInv, SleepInv
  <2>3. Passed' \in Int /\ Passed' <= Passed + 1
    BY StoreAddsOne
  <2>4. QED
    BY <1>2, <2>1, <2>2, <2>3
<1>12. LastInv'
  <2> SUFFICES ASSUME bsp = "sleeping", sleep_over', i <= 2
               PROVE  /\ InHandler' \subseteq last'
                      /\ \/ BSP \in last'
                         \/ 1 \in last' /\ \A a \in AllAPs : loaded'[a] = Idle /\ a \notin due
    BY <1>1 DEF LastInv
  <2>1. Two
    BY <1>0, AtMostTwo
  <2>2. CASE sleep_over
    <3>1. /\ InHandler \subseteq last
          /\ \/ BSP \in last
             \/ 1 \in last /\ \A a \in AllAPs : loaded[a] = Idle /\ a \notin due
      BY <2>2 DEF SmpIInv, LastInv
    <3>2. \A a \in AllAPs : loaded[a] = Idle => loaded'[a] = Idle
      BY <1>3, Cpus
    <3>3. QED
      BY <1>1, <1>4, <2>2, <3>1, <3>2
  <2>3. CASE ~sleep_over
    <3>1. last' = InHandler /\ InHandler' \subseteq last'
      BY <1>1, <1>4, <2>3
    <3>2. CASE BSP \in InHandler
      BY <3>1, <3>2
    <3>3. CASE BSP \notin InHandler
      <4>1. c # BSP /\ c \in AllAPs /\ loaded[BSP] = Idle
        BY <1>4, <3>3, Cpus DEF InHandler
      <4>2. c = 1
        BY <1>1, <2>1, <4>1, TwoTick, Cpus
      <4>3. \A a \in AllAPs : loaded'[a] = Idle
        <5>1. \A a \in AllAPs : a # 1 => loaded[a] = Idle
          BY <2>1, TwoTick, Cpus
        <5>2. QED
          BY <1>3, <4>2, <5>1, Cpus
      <4>4. 1 \notin due
        <5> SUFFICES ASSUME 1 \in due PROVE FALSE
          OBVIOUS
        <5>1. (loaded[c] + 1) % TICK_MOD = apic_timer_ticks
          BY <1>1, <2>1, <4>1, <4>2 DEF SmpIInv, PeriodInv
        <5>2. apic_timer_ticks' = apic_timer_ticks /\ curcnt' = curcnt
          BY <1>1, <5>1
        <5>3. sleep_over' <=> sleep_over
          BY <5>2 DEF sleep_over
        <5>4. QED
          BY <2>3, <5>3
      <4>5. \A a \in AllAPs : a \notin due
        BY <2>1, <4>4, TwoTick
      <4>6. QED
        BY <1>4, <3>1, <4>2, <4>3, <4>5
    <3>4. QED
      BY <3>2, <3>3
  <2>4. QED
    BY <2>2, <2>3
<1>13. FirstInv'
  <2> SUFFICES ASSUME 1 \in AllAPs, ap[1] \in GdtStates PROVE FALSE
    BY <1>1 DEF FirstInv
  <2>1. QED
    BY FirstIsAlone
<1>14. SecondInv'
  <2> SUFFICES ASSUME 2 \in AllAPs, ap[2] \in GdtStates
               PROVE  /\ i = 3 /\ (InHandler \subseteq seen[2])'
                      /\ ~Pending(0)' /\ ~Pending(1)'
                      /\ bsp = "sleeping" => Passed' <= 1
    BY <1>1 DEF SecondInv
  <2>1. Two /\ i = 3
    BY SecondMeetsTwo
  <2>2. /\ InHandler \subseteq seen[2] /\ ~(Pending(0) /\ Pending(1))
        /\ bsp = "sleeping" /\ (Pending(0) \/ Pending(1)) => apic_timer_ticks = curcnt
    BY DEF SmpIInv, SecondInv
  <2>3. c = 0 \/ c = 1
    BY <1>1, <2>1, TwoTick
  <2>4. Pending(c) /\ ~Pending(c)' /\ c \in seen[2]
    BY <1>1, <1>3, <1>4, <2>2 DEF Pending
  <2>5. \A d \in AllCPUs : d # c => (Pending(d)' <=> Pending(d))
    BY <1>1, <1>3 DEF Pending
  <2>6. 0 \in AllCPUs /\ 1 \in AllCPUs
    BY Cpus
  <2>7. ~Pending(0)' /\ ~Pending(1)'
    BY <2>2, <2>3, <2>4, <2>5, <2>6
  <2>8. bsp = "sleeping" => Passed' <= 1
    <3> SUFFICES ASSUME bsp = "sleeping" PROVE Passed' <= 1
      OBVIOUS
    <3>1. apic_timer_ticks = curcnt
      BY <2>2, <2>3, <2>4
    <3>2. Passed = 0
      BY <1>0, <3>1, SmpTypes, Difference DEF Passed
    <3>3. Passed' \in Int /\ Passed' <= Passed + 1
      BY <2>1, StoreAddsOne
    <3>4. QED
      BY <3>2, <3>3
  <2>9. QED
    BY <1>1, <1>4, <2>1, <2>2, <2>7, <2>8
<1>15. GdtInv'
  <2> SUFFICES ASSUME i <= 2 PROVE GdtInv'
    BY <1>1 DEF GdtInv
  <2>1. code_L = 1 /\ fault' = "none" /\ code_L' = 1 /\ tss_busy' = tss_busy /\ ap' = ap
    BY <1>1, NoTornDescriptor
  <2>2. \A a \in AllAPs : ap[a] \in {"tss_set", "reloaded"} => tss_busy = 0
    BY DEF SmpIInv, GdtInv
  <2>3. 1 # 0
    OBVIOUS
  <2>4. QED
    BY <2>1, <2>2, <2>3 DEF GdtInv
<1>16. QED
  BY <1>6, <1>7, <1>8, <1>9, <1>10, <1>11, <1>12, <1>13, <1>14, <1>15 DEF SmpIInv

--------------------------------------------------------------------------------
\* Every step of every processor preserves the invariant.
LEMMA SmpNextInv == SmpIInv /\ [SmpNext]_smpVars => SmpIInv'
<1> SUFFICES ASSUME SmpIInv, [SmpNext]_smpVars PROVE SmpIInv'
  OBVIOUS
<1>1. CASE smp_init
  BY <1>1, StartDoneInv, SleepStartInv, ReleaseInv DEF smp_init
<1>2. CASE \E c \in AllAPs : ap_trampoline(c)
  BY <1>2, ap_trampolineInv
<1>3. CASE \E c \in AllCPUs : Tick(c) \/ apic_timer(c)
  BY <1>3, TickInv, apic_timerInv
<1>4. CASE UNCHANGED smpVars
  BY <1>4, SmpStutterInv
<1>5. QED
  BY <1>1, <1>2, <1>3, <1>4 DEF SmpNext, Halted

\* The inductive invariant of smp_init, ap_trampoline, gdt_init and apic_timer.
THEOREM SmpInvariant == SmpSpec => []SmpIInv
<1>1. SmpInit => SmpIInv
  BY SmpInitInv
<1>2. QED
  BY <1>1, SmpNextInv, PTL DEF SmpSpec

\* The variables of smp_init, the processors and the timer keep their types.
THEOREM SmpTypeCorrect == SmpSpec => []SmpTypeOK
<1>1. SmpIInv => SmpTypeOK
  BY DEF SmpIInv
<1>2. QED
  BY <1>1, SmpInvariant, PTL

\* With up to two processors no interrupt, load of CS or ltr meets a GDT that
\* gdt_init is writing, whatever the sleep and the width of the counter are.
THEOREM PairIsSafe == SmpSpec => []PairStartsSafely
<1>1. SmpIInv => PairStartsSafely
  <2> SUFFICES ASSUME SmpIInv, cpu_count <= 2 PROVE fault = "none"
    BY DEF PairStartsSafely, NoTripleFault
  <2>1. i \in Nat /\ cpu_count \in Nat /\ i <= cpu_count
    BY SmpTypes DEF SmpIInv
  <2>2. i <= 2
    BY <2>1
  <2>3. QED
    BY <2>2 DEF SmpIInv, GdtInv
<1>2. QED
  BY <1>1, SmpInvariant, PTL

\* With up to four processors at most one of them is in gdt_init.
THEOREM GdtInitIsExclusive == SmpSpec => []GdtInitExclusive
<1>1. SmpIInv => GdtInitExclusive
  <2> SUFFICES ASSUME SmpIInv, cpu_count <= 4 PROVE Cardinality(InGdtInit) <= 1
    BY DEF GdtInitExclusive
  <2>1. i \in Nat /\ cpu_count \in Nat /\ i <= cpu_count
    BY SmpTypes DEF SmpIInv
  <2>2. \A c \in InGdtInit : c \in AllAPs /\ c \in Nat \ {0} /\ c < i
    BY WhoTicks, Cpus DEF InGdtInit
  <2>3. \A c \in InGdtInit : (c = 1 => i = 2) /\ (c = 2 => i = 3)
    BY DEF SmpIInv, FirstInv, SecondInv, InGdtInit
  <2>4. \A c, d \in InGdtInit : c = d
    BY <2>1, <2>2, <2>3
  <2>5. CASE InGdtInit = {}
    BY <2>5, FS_EmptySet
  <2>6. CASE InGdtInit # {}
    <3>1. PICK c \in InGdtInit : InGdtInit = {c}
      BY <2>4, <2>6
    <3>2. Cardinality({c}) = 1
      BY FS_Singleton
    <3>3. QED
      BY <3>1, <3>2
  <2>7. QED
    BY <2>5, <2>6
<1>2. QED
  BY <1>1, SmpInvariant, PTL

\* With up to three processors apic_sleep waits for as many interrupts as it is
\* asked to, although stores to the shared counter can be lost.
THEOREM SleepIsCounted == SmpSpec => []SleepCountsTicks
<1>1. SmpIInv => SleepCountsTicks
  <2> SUFFICES ASSUME SmpIInv, cpu_count <= 3, bsp = "sleeping", sleep_over
               PROVE  slept >= SLEEP
    BY DEF SleepCountsTicks
  <2>1. /\ i \in Nat /\ cpu_count \in Nat /\ i < cpu_count /\ slept \in 0 .. SLEEP
        /\ Passed \in Nat /\ Passed >= SLEEP
    BY SmpTypes DEF SmpIInv, BspInv
  <2>2. i <= 2
    BY <2>1
  <2>3. Two
    BY <2>2, AtMostTwo DEF SmpIInv
  <2>4. slept < SLEEP => Passed <= slept
    BY <2>3 DEF SmpIInv, SleepInv
  <2>5. QED
    BY <2>1, <2>4
<1>2. QED
  BY <1>1, SmpInvariant, PTL
================================================================================
