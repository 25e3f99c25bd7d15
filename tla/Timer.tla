--------------------------------- MODULE Timer ---------------------------------
(***************************************************************************)
(* The timers: pmt_delay on the ACPI PM timer (kern/sys/acpi/acpi.c), the  *)
(* calibration of the local APIC's timer against it and apic_sleep         *)
(* (kern/sys/acpi/apic.c), on one processor.                               *)
(*                                                                         *)
(* While the timer is calibrated a unit of time is a tick of the PM timer, *)
(* in which the local APIC counts down by one with its divisor at 16; the  *)
(* processor takes at most MAX_GAP units for a step.  Once the timer is    *)
(* armed only its interrupts matter.                                       *)
(***************************************************************************)
EXTENDS Integers

CONSTANTS MASK_MOD,   \* 0xffffff + 1
          PmMods,     \* values of the PM timer: 2^24 or 2^32
          PmStarts,   \* where it may stand at first, if that is within its width
          Targets,    \* delays, in ticks of the PM timer
          MAX_GAP,    \* longest time between two steps of the code
          LAPIC_MOD,  \* values of the local APIC's counter (2^32)
          TICK_MOD,   \* values of apic_timer_ticks (2^64)
          INT_MOD,    \* values of an int (2^32)
          Sleeps      \* arguments of apic_sleep

\* The PM timer has the bits that are compared, and maybe more.  A delay that the
\* comparison may miss is left out: the code asks for 50000 us, about
\* 178977 of 2^24 ticks.
ASSUME DelayAssumption ==
  /\ MASK_MOD \in Nat \ {0} /\ MAX_GAP \in Nat
  /\ PmMods \subseteq Nat \ {0} /\ \A m \in PmMods : m % MASK_MOD = 0
  /\ PmStarts \subseteq Nat
  /\ Targets \subseteq Nat
  /\ \A t \in Targets : t + MAX_GAP <= MASK_MOD \/ t >= MASK_MOD

\* The local APIC's counter does not reach 0 while it is calibrated.
ASSUME CounterAssumption ==
  LAPIC_MOD \in Nat /\ MASK_MOD + 32 * MAX_GAP < LAPIC_MOD

ASSUME SleepAssumption ==
  /\ INT_MOD \in Nat \ {0} /\ TICK_MOD \in Nat \ {0} /\ Sleeps \subseteq Nat

VARIABLES at,           \* where the code is
          PMTimerLength,
          pm_mod, pm,   \* external: the PM timer
          target,       \* pmt_delay: the ticks to wait for
          count,        \* ... the PM timer when it began
          current,      \* ... the ticks it has seen
          divisor,      \* the local APIC's divisor
          INITCNT,      \* its initial count
          CURCNT,       \* its current count
          periodic,     \* LVT: unmasked and periodic, with vector 172
          calibration,
          apic_timer_ticks,
          ms, curcnt,   \* apic_sleep: its argument and its copy of the counter
          gap,          \* time since the last step
          elapsed,      \* history: time since pmt_delay began
          early,        \* history: the timer fired before it was armed
          start,        \* history: the counter when apic_sleep was called
          slept         \* history: interrupts since then

pmVars == <<PMTimerLength, pm_mod, pm>>
delayVars == <<target, count, current, elapsed>>
lapicVars == <<divisor, INITCNT, CURCNT, periodic, early>>
sleepVars == <<apic_timer_ticks, ms, curcnt, start, slept>>
timerVars == <<at, pmVars, delayVars, lapicVars, calibration, sleepVars, gap>>

ElapsedCap == 2 * MASK_MOD

TimerInit ==
  /\ at = "divide" /\ PMTimerLength \in {0, 4}
  /\ pm_mod \in PmMods /\ pm \in {s \in PmStarts : s < pm_mod}
  /\ target \in Targets /\ count = 0 /\ current = 0 /\ elapsed = 0
  /\ divisor = 2 /\ INITCNT = 0 /\ CURCNT = 0 /\ periodic = FALSE /\ early = FALSE
  /\ calibration = 0
  /\ apic_timer_ticks = 0 /\ ms = 0 /\ curcnt = 0 /\ start = 0 /\ slept = 0
  /\ gap = 0

--------------------------------------------------------------------------------
\* External: a unit of time passes.  The counter stops at 0, or is reloaded.
Armed == at \in {"idle", "sleep"}
Left == CURCNT - 16 \div divisor

Advance ==
  /\ ~Armed /\ at # "panic" /\ gap < MAX_GAP
  /\ gap' = gap + 1
  /\ pm' = (pm + 1) % pm_mod
  /\ elapsed' = IF at \in {"delay", "stop"} /\ elapsed < ElapsedCap
                  THEN elapsed + 1 ELSE elapsed
  /\ CURCNT' = IF Left > 0 THEN Left ELSE IF periodic THEN INITCNT ELSE 0
  /\ early' = (early \/ (CURCNT > 0 /\ Left <= 0 /\ periodic))
  /\ UNCHANGED <<at, PMTimerLength, pm_mod, target, count, current, divisor,
                 INITCNT, periodic, calibration, sleepVars>>

--------------------------------------------------------------------------------
\* A step of calibrate_timer or pmt_delay.
CodeStep(from, to) == at = from /\ at' = to /\ gap' = 0 /\ UNCHANGED <<pmVars, sleepVars>>

\* apic_write to the divisor: 0x3 stands for 16, 0x10000 (as 0x0) for 2.
WriteTIMERDIV(from, to, d) ==
  /\ CodeStep(from, to)
  /\ divisor' = d
  /\ UNCHANGED <<delayVars, INITCNT, CURCNT, periodic, early, calibration>>

\* apic_write to the initial count, which starts the counter.
WriteINITCNT(from, to, n) ==
  /\ CodeStep(from, to)
  /\ INITCNT' = n /\ CURCNT' = n
  /\ UNCHANGED <<delayVars, divisor, periodic, early, calibration>>

\* pmt_delay is called; the first test of its loop.
StartDelay ==
  /\ CodeStep("pmt_delay", IF PMTimerLength # 4 THEN "panic"
                           ELSE IF target = 0 THEN "stop" ELSE "delay")
  /\ count' = pm /\ current' = 0 /\ elapsed' = 0
  /\ UNCHANGED <<target, lapicVars, calibration>>

\* Mutant: the operands are swapped.
Difference_Swapped == (count - pm) % MASK_MOD

\* Mutant: the mask is one digit short.
Difference_Short == (pm - count) % (MASK_MOD \div 2)

\* (inl(fadt->PMTimerBlock) - count) & 0xffffff
Difference == (pm - count) % MASK_MOD

\* A round of the loop, and the test that follows it.
Poll ==
  /\ CodeStep("delay", IF Difference < target THEN "delay" ELSE "stop")
  /\ current' = Difference
  /\ UNCHANGED <<target, count, elapsed, lapicVars, calibration>>

pmt_delay == StartDelay \/ Poll

\* Mutant: the counter is started too low.
Full_Low == LAPIC_MOD \div 8 - 1

\* 0xFFFFFFFF
Full == LAPIC_MOD - 1

\* Mutant: what is left is taken for what has passed.
Counted_Left == CURCNT

Counted == Full - CURCNT

\* The locals of pmt_delay are gone.
ReadCURCNT ==
  /\ CodeStep("read", "lvt")
  /\ calibration' = Counted
  /\ count' = 0 /\ current' = 0 /\ elapsed' = 0
  /\ UNCHANGED <<target, lapicVars>>

WriteLVT ==
  /\ CodeStep("lvt", "divide again")
  /\ periodic' = TRUE
  /\ UNCHANGED <<delayVars, divisor, INITCNT, CURCNT, early, calibration>>

\* The timer is started with its period and calibrate_timer returns.  From here
\* on only interrupts matter: what they do not depend on is forgotten.
Arm ==
  /\ at = "arm" /\ at' = "idle" /\ gap' = 0
  /\ INITCNT' = calibration /\ CURCNT' = calibration /\ calibration' = 0
  /\ pm' = 0 /\ UNCHANGED <<PMTimerLength, pm_mod>>
  /\ UNCHANGED <<delayVars, divisor, periodic, early, sleepVars>>

calibrate_timer ==
  \/ WriteTIMERDIV("divide", "start", 16)
  \/ WriteINITCNT("start", "pmt_delay", Full)
  \/ pmt_delay
  \/ WriteTIMERDIV("stop", "read", 2)
  \/ ReadCURCNT
  \/ WriteLVT
  \/ WriteTIMERDIV("divide again", "arm", 16)
  \/ Arm

--------------------------------------------------------------------------------
\* apic_timer: the timer's interrupt, once per period.
apic_timer ==
  /\ Armed
  /\ apic_timer_ticks' = (apic_timer_ticks + 1) % TICK_MOD
  /\ slept' = IF at = "sleep" /\ slept < ms THEN slept + 1 ELSE slept
  /\ UNCHANGED <<at, pmVars, delayVars, lapicVars, calibration, ms, curcnt, start, gap>>

\* Mutant: a negative number is not extended to 64 bits.
AsInt_Negative(x) ==
  LET low == x % INT_MOD IN IF low < INT_MOD \div 2 THEN low ELSE low - INT_MOD

\* A number stored in an int, and what it is when it is made 64 bits wide again.
AsInt(x) ==
  LET low == x % INT_MOD
  IN  (IF low < INT_MOD \div 2 THEN low ELSE low - INT_MOD) % TICK_MOD

SleepStart(n) ==
  /\ at = "idle" /\ at' = "sleep"
  /\ ms' = n /\ curcnt' = AsInt(apic_timer_ticks)
  /\ start' = apic_timer_ticks /\ slept' = 0
  /\ UNCHANGED <<pmVars, delayVars, lapicVars, calibration, apic_timer_ticks, gap>>

\* Mutant: the last tick is not waited for.
SleepOver_Early == (apic_timer_ticks - curcnt) % TICK_MOD >= ms - 1

SleepOver == (apic_timer_ticks - curcnt) % TICK_MOD >= ms

SleepEnd ==
  /\ at = "sleep" /\ SleepOver
  /\ at' = "idle"
  /\ UNCHANGED <<pmVars, delayVars, lapicVars, calibration, sleepVars, gap>>

apic_sleep == (\E n \in Sleeps : SleepStart(n)) \/ SleepEnd

TimerPanic == at = "panic" /\ UNCHANGED timerVars

TimerNext == Advance \/ calibrate_timer \/ apic_timer \/ apic_sleep \/ TimerPanic

\* Time passes and the processor executes.
TimerSpec == /\ TimerInit /\ [][TimerNext]_timerVars
             /\ WF_timerVars(Advance) /\ WF_timerVars(calibrate_timer)

--------------------------------------------------------------------------------
DelayTypes ==
  /\ at \in {"divide", "start", "pmt_delay", "delay", "stop", "read", "lvt",
             "divide again", "arm", "idle", "sleep", "panic"}
  /\ PMTimerLength \in {0, 4} /\ pm_mod \in PmMods /\ pm \in 0 .. pm_mod - 1
  /\ target \in Targets /\ count \in 0 .. pm_mod - 1
  /\ current \in 0 .. MASK_MOD - 1 /\ elapsed \in 0 .. ElapsedCap
  /\ gap \in 0 .. MAX_GAP

LapicTypes ==
  /\ divisor \in {2, 16}
  /\ {INITCNT, CURCNT, calibration} \subseteq 0 .. LAPIC_MOD - 1

FlagTypes == periodic \in BOOLEAN /\ early \in BOOLEAN

SleepTypes ==
  /\ {apic_timer_ticks, curcnt, start} \subseteq 0 .. TICK_MOD - 1
  /\ ms \in Sleeps \cup {0} /\ slept \in 0 .. ms

TimerTypeOK == DelayTypes /\ LapicTypes /\ FlagTypes /\ SleepTypes

(***************************************************************************)
(* When pmt_delay returns, at least the time asked for has passed, and no  *)
(* more than two steps of the processor on top of it, wherever the PM      *)
(* timer wraps and whether it has 24 or 32 bits.                           *)
(***************************************************************************)
DelayAccurate ==
  at = "stop" => target <= elapsed /\ elapsed <= target + 2 * MAX_GAP

(***************************************************************************)
(* pmt_delay returns if the delay is shorter than the 24 bits it compares, *)
(* by as much as the PM timer may advance between two reads.  (Otherwise   *)
(* the difference may never be seen to reach the target.)                  *)
(***************************************************************************)
DelayEnds ==
  (at = "delay" /\ target + MAX_GAP <= MASK_MOD) ~> (at # "delay")

(***************************************************************************)
(* The period the timer is armed with is the delay it was measured over:   *)
(* never shorter, and longer only by the steps around it.  The last of     *)
(* these counts eightfold, for 0x10000 is written to the divisor and makes *)
(* the timer faster instead of masking it.                                 *)
(***************************************************************************)
CalibrationAccurate ==
  at \in {"lvt", "divide again", "arm"} =>
    target <= calibration /\ calibration <= target + (3 + 8) * MAX_GAP

(***************************************************************************)
(* The timer does not fire before it is armed with its period: between     *)
(* the store that unmasks it and that of the period the old count goes on. *)
(***************************************************************************)
NoEarlyTick == ~early

(***************************************************************************)
(* apic_sleep lasts as many timer interrupts as it is asked for, as long   *)
(* as the counter fits the int it is copied to.                            *)
(***************************************************************************)
SleepLongEnough ==
  at = "sleep" /\ SleepOver /\ start < INT_MOD \div 2 => slept >= ms
================================================================================
