------------------------------ MODULE TimerProofs ------------------------------
(***************************************************************************)
(* Proofs about the timers, for every width of the PM timer, of the        *)
(* counter and of the integers, every delay and every speed of the         *)
(* processor that the assumptions of Timer allow.                          *)
(***************************************************************************)
EXTENDS Timer, TLAPS

\* The delay is one that the comparison of 24 bits can tell.
Comparable == target < MASK_MOD

Before == {"divide", "start", "pmt_delay", "delay", "stop", "read", "lvt"}
FlagInv == ~early /\ (at \in Before => ~periodic)

DivisorInv ==
  divisor = IF at \in {"divide", "read", "lvt", "divide again"} THEN 2 ELSE 16

\* In the loop the PM timer is `elapsed` ticks past count, maybe after a wrap,
\* and the last poll saw less than the target.
LoopInv ==
  at = "delay" /\ Comparable =>
    /\ elapsed < target + gap
    /\ pm = IF count + elapsed < pm_mod THEN count + elapsed
                                        ELSE count + elapsed - pm_mod

StopInv ==
  /\ at \in {"stop", "read", "lvt", "divide again", "arm"} => Comparable
  /\ at = "stop" => target <= elapsed /\ elapsed <= target + MAX_GAP + gap

\* What the local APIC has counted, step by step.
Passed == Full - CURCNT
PassedInv ==
  /\ at = "pmt_delay" => Passed = gap
  /\ at \in {"delay", "stop"} /\ Comparable =>
       elapsed <= Passed /\ Passed <= elapsed + MAX_GAP
  /\ at = "read" => target <= Passed /\ Passed <= target + 3 * MAX_GAP + 8 * gap
  /\ at = "lvt" => Passed <= target + 11 * MAX_GAP + 8 * gap
  /\ at = "divide again" => Passed <= target + 19 * MAX_GAP + 8 * gap
  /\ at = "arm" => Passed <= target + 27 * MAX_GAP + gap

\* Until the sleep is long enough, every interrupt of it is in the counter.
SleepInv ==
  at = "sleep" =>
    /\ curcnt = AsInt(start)
    /\ slept < ms => apic_timer_ticks = (start + slept) % TICK_MOD

TimerIInv == /\ TimerTypeOK /\ FlagInv /\ DivisorInv /\ LoopInv /\ StopInv
             /\ PassedInv /\ CalibrationAccurate /\ SleepInv

--------------------------------------------------------------------------------
(***************************************************************************)
(* Remainders.                                                             *)
(***************************************************************************)

\* A remainder is smaller than the modulus.
LEMMA ModRange ==
  ASSUME NEW m \in Nat \ {0}, NEW x \in Int
  PROVE  x % m \in 0 .. m - 1
BY SMT

\* A number below the modulus is its own remainder.
LEMMA ModSmall ==
  ASSUME NEW m \in Nat \ {0}, NEW x \in 0 .. m - 1
  PROVE  x % m = x
BY SMT

\* A remainder is not larger than the number.
LEMMA ModAtMost ==
  ASSUME NEW m \in Nat \ {0}, NEW x \in Nat
  PROVE  x % m <= x
BY SMT

\* Quotient and remainder are determined by q * m + r.
LEMMA ModUnique ==
  ASSUME NEW m \in Nat \ {0}, NEW q \in Int, NEW r \in 0 .. m - 1
  PROVE  (q * m + r) % m = r
BY SMT

\* A number is its quotient times the modulus plus its remainder.
LEMMA DivMod ==
  ASSUME NEW m \in Nat \ {0}, NEW x \in Int
  PROVE  x \div m \in Int /\ x = (x \div m) * m + (x % m)
BY SMT

\* A multiple of the modulus does not matter.
LEMMA ModPlusMultiple ==
  ASSUME NEW m \in Nat \ {0}, NEW q \in Int, NEW x \in Int
  PROVE  (q * m + x) % m = x % m
<1>1. PICK p \in Int, r \in 0 .. m - 1 : x = p * m + r /\ r = x % m
  BY DivMod, ModRange
<1>2. PICK k \in Int : k * m = q * m + p * m
  <2>1. q + p \in Int /\ (q + p) * m = q * m + p * m
    BY SMT
  <2>2. QED
    BY <2>1
<1>3. q * m + x = k * m + r
  <2>1. PICK a \in Int, b \in Int : a = q * m /\ b = p * m
    OBVIOUS
  <2>2. x = b + r /\ k * m = a + b
    BY <1>1, <1>2, <2>1
  <2>3. QED
    BY <2>1, <2>2
<1>4. (k * m + r) % m = r
  BY ModUnique
<1>5. QED
  BY <1>1, <1>3, <1>4

\* A counter that wraps advances as the number it stands for.
LEMMA ModSucc ==
  ASSUME NEW m \in Nat \ {0}, NEW x \in Int
  PROVE  ((x % m) + 1) % m = (x + 1) % m
<1>1. PICK p \in Int, r \in 0 .. m - 1 : x = p * m + r /\ r = x % m
  BY DivMod, ModRange
<1>2. PICK y \in Int : y = r + 1
  OBVIOUS
<1>3. x + 1 = p * m + y
  BY <1>1, <1>2, SMT
<1>4. (p * m + y) % m = y % m
  BY ModPlusMultiple
<1>5. QED
  BY <1>1, <1>2, <1>3, <1>4

\* The distance from b to a wrapped a is that to a itself.
LEMMA ModMinus ==
  ASSUME NEW m \in Nat \ {0}, NEW x \in Int, NEW b \in Int
  PROVE  ((x % m) - b) % m = (x - b) % m
<1>1. PICK p \in Int, r \in 0 .. m - 1 : x = p * m + r /\ r = x % m
  BY DivMod, ModRange
<1>2. PICK y \in Int : y = r - b
  OBVIOUS
<1>3. x - b = p * m + y
  <2>1. PICK a \in Int : a = p * m
    OBVIOUS
  <2>2. x = a + r
    BY <1>1, <2>1
  <2>3. QED
    BY <1>2, <2>1, <2>2
<1>4. (p * m + y) % m = y % m
  BY ModPlusMultiple
<1>5. QED
  BY <1>1, <1>2, <1>3, <1>4

\* The masked difference of a PM timer with more bits than are compared.
LEMMA MaskedDifference ==
  ASSUME NEW M \in Nat \ {0}, NEW m \in Nat \ {0}, m % M = 0,
         NEW e \in 0 .. M - 1
  PROVE  (e - m) % M = e /\ e % M = e
<1>1. PICK k \in Int : m = k * M
  BY DivMod, SMT
<1>2. PICK n \in Int : n * M = -m
  <2>1. -k \in Int /\ (-k) * M = -m
    BY <1>1, SMT
  <2>2. QED
    BY <2>1
<1>3. e - m = n * M + e
  BY <1>2, SMT
<1>4. (n * M + e) % M = e
  BY ModUnique
<1>5. QED
  BY <1>3, <1>4, ModSmall

\* No wrap of the PM timer is shorter than what is compared.
LEMMA MultipleIsLarger ==
  ASSUME NEW M \in Nat \ {0}, NEW m \in Nat \ {0}, m % M = 0
  PROVE  M <= m
BY ModSmall, SMT

--------------------------------------------------------------------------------
(***************************************************************************)
(* The invariant.                                                          *)
(***************************************************************************)
USE DelayAssumption, CounterAssumption, SleepAssumption

\* A number stored in an int is a 64-bit value again when it is widened.
LEMMA AsIntType ==
  ASSUME NEW x \in Int
  PROVE  AsInt(x) \in 0 .. TICK_MOD - 1
<1>1. x % INT_MOD \in Int
  BY ModRange DEF SleepAssumption
<1> DEFINE low == x % INT_MOD
           y == IF low < INT_MOD \div 2 THEN low ELSE low - INT_MOD
<1>2. low - INT_MOD \in Int
  BY <1>1 DEF SleepAssumption
<1>3. y \in Int /\ AsInt(x) = y % TICK_MOD
  BY ONLY <1>1, <1>2, Zenon DEF AsInt
<1> HIDE DEF low, y
<1>4. QED
  BY ONLY <1>3, ModRange, SleepAssumption DEF SleepAssumption

\* The state before calibrate_timer satisfies the invariant.
LEMMA TimerInitInv == TimerInit => TimerIInv
<1> SUFFICES ASSUME TimerInit PROVE TimerIInv
  OBVIOUS
<1> USE DEF TimerInit
<1>1. TimerTypeOK
  <2>1. DelayTypes
    BY DEF DelayTypes, ElapsedCap, DelayAssumption
  <2>2. LapicTypes
    BY DEF LapicTypes, CounterAssumption, DelayAssumption
  <2>3. FlagTypes
    BY DEF FlagTypes
  <2>4. SleepTypes
    BY DEF SleepTypes, SleepAssumption
  <2>5. QED
    BY <2>1, <2>2, <2>3, <2>4 DEF TimerTypeOK
<1>2. FlagInv
  BY DEF FlagInv
<1>3. DivisorInv /\ LoopInv /\ StopInv /\ PassedInv /\ SleepInv
  BY DEF DivisorInv, LoopInv, StopInv, PassedInv, SleepInv
<1>4. CalibrationAccurate
  BY DEF CalibrationAccurate
<1>5. QED
  BY <1>1, <1>2, <1>3, <1>4 DEF TimerIInv

\* A step takes no time when it is done.
LEMMA ZeroInGap == 0 \in 0 .. MAX_GAP
BY DEF DelayAssumption

\* A step outside apic_sleep that leaves its variables alone.
LEMMA SleepFrame ==
  ASSUME TimerIInv, UNCHANGED sleepVars, at' # "sleep"
  PROVE  SleepTypes' /\ SleepInv'
BY DEF TimerIInv, TimerTypeOK, SleepTypes, SleepInv, sleepVars

\* The bounds the assumptions give for the state at hand.
LEMMA Bounds ==
  ASSUME TimerIInv
  PROVE  /\ MASK_MOD \in Nat \ {0} /\ MAX_GAP \in Nat /\ LAPIC_MOD \in Nat
         /\ pm_mod \in Nat \ {0} /\ pm_mod % MASK_MOD = 0 /\ MASK_MOD <= pm_mod
         /\ target \in Nat /\ (Comparable => target + MAX_GAP <= MASK_MOD)
         /\ MASK_MOD + 32 * MAX_GAP < LAPIC_MOD
         /\ pm \in 0 .. pm_mod - 1 /\ count \in 0 .. pm_mod - 1
         /\ elapsed \in 0 .. 2 * MASK_MOD /\ gap \in 0 .. MAX_GAP
         /\ INITCNT \in 0 .. LAPIC_MOD - 1 /\ CURCNT \in 0 .. LAPIC_MOD - 1
         /\ calibration \in 0 .. LAPIC_MOD - 1
<1>1. /\ MASK_MOD \in Nat \ {0} /\ MAX_GAP \in Nat /\ LAPIC_MOD \in Nat
      /\ pm_mod \in Nat \ {0} /\ pm_mod % MASK_MOD = 0 /\ target \in Nat
      /\ MASK_MOD + 32 * MAX_GAP < LAPIC_MOD
      /\ target + MAX_GAP <= MASK_MOD \/ target >= MASK_MOD
  BY DEF TimerIInv, TimerTypeOK, DelayTypes, DelayAssumption, CounterAssumption
<1>2. MASK_MOD <= pm_mod
  BY <1>1, MultipleIsLarger
<1>3. /\ pm \in 0 .. pm_mod - 1 /\ count \in 0 .. pm_mod - 1
      /\ elapsed \in 0 .. 2 * MASK_MOD /\ gap \in 0 .. MAX_GAP
  BY DEF TimerIInv, TimerTypeOK, DelayTypes, ElapsedCap
<1>4. /\ INITCNT \in 0 .. LAPIC_MOD - 1 /\ CURCNT \in 0 .. LAPIC_MOD - 1
      /\ calibration \in 0 .. LAPIC_MOD - 1
  BY DEF TimerIInv, TimerTypeOK, LapicTypes
<1>5. QED
  BY <1>1, <1>2, <1>3, <1>4 DEF Comparable

\* The divisor's 16 is a count per unit of time, its 2 eight.
LEMMA CountPerUnit ==
  ASSUME TimerIInv
  PROVE  /\ Left \in Int
         /\ at \in {"divide", "read", "lvt", "divide again"} => Left = CURCNT - 8
         /\ at \notin {"divide", "read", "lvt", "divide again"} => Left = CURCNT - 1
<1>1. 16 \div 2 = 8 /\ 16 \div 16 = 1
  BY SMT
<1>2. CURCNT \in Int
  BY Bounds
<1>3. /\ at \in {"divide", "read", "lvt", "divide again"} => Left = CURCNT - 8
      /\ at \notin {"divide", "read", "lvt", "divide again"} => Left = CURCNT - 1
  BY <1>1 DEF TimerIInv, DivisorInv, Left
<1>4. CURCNT - 8 \in Int /\ CURCNT - 1 \in Int
  BY <1>2
<1>5. QED
  BY <1>3, <1>4, Zenon

\* From the start of the counter to the store of the period it never runs out,
\* except in a loop that waits for a delay it cannot see.
LEMMA CounterDoesNotRunOut ==
  ASSUME TimerIInv, gap < MAX_GAP,
         \/ at \in {"pmt_delay", "stop", "read", "lvt", "divide again", "arm"}
         \/ at = "delay" /\ Comparable
  PROVE  Left > 0
<1> USE Bounds, CountPerUnit DEF TimerIInv, Passed, Full
<1>1. CASE at = "pmt_delay"
  BY <1>1 DEF PassedInv
<1>2. CASE at = "delay" /\ Comparable
  BY <1>2 DEF PassedInv, LoopInv
<1>3. CASE at = "stop"
  BY <1>3 DEF PassedInv, StopInv
<1>4. CASE at = "read"
  BY <1>4 DEF PassedInv, StopInv
<1>5. CASE at = "lvt"
  BY <1>5 DEF PassedInv, StopInv
<1>6. CASE at = "divide again"
  <2>1. /\ target + MAX_GAP <= MASK_MOD /\ Left = CURCNT - 8
        /\ LAPIC_MOD - 1 - CURCNT <= target + 19 * MAX_GAP + 8 * gap
    BY <1>6 DEF PassedInv, StopInv
  <2>2. /\ MASK_MOD \in Nat /\ MAX_GAP \in Nat /\ LAPIC_MOD \in Nat /\ target \in Nat
        /\ gap \in 0 .. MAX_GAP /\ CURCNT \in 0 .. LAPIC_MOD - 1
        /\ MASK_MOD + 32 * MAX_GAP < LAPIC_MOD
    OBVIOUS
  <2>3. QED
    BY ONLY <2>1, <2>2, gap < MAX_GAP
<1>7. CASE at = "arm"
  BY <1>7 DEF PassedInv, StopInv
<1>8. QED
  BY <1>1, <1>2, <1>3, <1>4, <1>5, <1>6, <1>7

\* A unit of time passes.
LEMMA AdvanceInv ==
  ASSUME TimerIInv, Advance
  PROVE  TimerIInv'
<1>1. /\ at' = at /\ at \notin {"idle", "sleep", "panic"} /\ gap < MAX_GAP
      /\ gap' = gap + 1 /\ pm' = (pm + 1) % pm_mod
      /\ UNCHANGED <<PMTimerLength, pm_mod, target, count, current, divisor,
                     INITCNT, calibration>>
      /\ UNCHANGED sleepVars
  BY DEF Advance, Armed
<1>2. elapsed' = IF at \in {"delay", "stop"} /\ elapsed < 2 * MASK_MOD
                   THEN elapsed + 1 ELSE elapsed
  BY DEF Advance, ElapsedCap
<1>3. /\ Left > 0 => CURCNT' = Left
      /\ CURCNT' \in {Left, INITCNT, 0} /\ (Left > 0 \/ CURCNT' \in {INITCNT, 0})
  BY DEF Advance
<1>4. Left <= CURCNT /\ Left \in Int
  <2>0. CURCNT \in Int
    BY Bounds
  <2>1. Left \in Int
    BY CountPerUnit
  <2>2. Left = CURCNT - 8 \/ Left = CURCNT - 1
    BY CountPerUnit
  <2>3. QED
    BY <2>0, <2>1, <2>2
<1>5. DelayTypes'
  <2>1. pm' \in 0 .. pm_mod - 1
    <3>1. pm_mod \in Nat \ {0} /\ pm + 1 \in Int
      BY Bounds
    <3>2. QED
      BY <1>1, <3>1, ModRange
  <2>2. elapsed' \in 0 .. 2 * MASK_MOD /\ gap' \in 0 .. MAX_GAP
    BY <1>1, <1>2, Bounds
  <2>3. QED
    BY <1>1, <2>1, <2>2 DEF TimerIInv, TimerTypeOK, DelayTypes, ElapsedCap
<1>6. LapicTypes'
  <2>1. CURCNT' \in 0 .. LAPIC_MOD - 1
    <3>1. /\ LAPIC_MOD \in Nat /\ CURCNT \in 0 .. LAPIC_MOD - 1
          /\ INITCNT \in 0 .. LAPIC_MOD - 1
      BY Bounds
    <3>2. QED
      BY <1>3, <1>4, <3>1
  <2>2. QED
    BY <1>1, <2>1 DEF TimerIInv, TimerTypeOK, LapicTypes
<1>7. FlagTypes' /\ FlagInv'
  <2>1. ~(Left <= 0 /\ periodic)
    <3>1. CASE at \in Before
      BY <3>1 DEF TimerIInv, FlagInv
    <3>2. CASE at \in {"divide again", "arm"}
      <4>1. Left > 0 /\ Left \in Int
        BY <1>1, <3>2, CounterDoesNotRunOut, CountPerUnit, Bounds
      <4>2. QED
        BY <4>1
    <3>3. QED
      BY <1>1, <3>1, <3>2 DEF Before, TimerIInv, TimerTypeOK, DelayTypes
  <2>2. QED
    BY <1>1, <2>1 DEF Advance, TimerIInv, TimerTypeOK, FlagTypes, FlagInv
<1>8. DivisorInv' /\ CalibrationAccurate'
  BY <1>1 DEF TimerIInv, DivisorInv, CalibrationAccurate
<1>9. LoopInv'
  <2> SUFFICES ASSUME at = "delay", Comparable
               PROVE  /\ elapsed' < target + gap'
                      /\ pm' = IF count + elapsed' < pm_mod
                                 THEN count + elapsed' ELSE count + elapsed' - pm_mod
    BY <1>1 DEF LoopInv, Comparable
  <2>1. elapsed < target + gap /\ elapsed + 1 < MASK_MOD
    BY <1>1, Bounds DEF TimerIInv, LoopInv
  <2>2. elapsed' = elapsed + 1
    BY <1>2, <2>1, Bounds
  <2>3. CASE pm + 1 = pm_mod
    <3>1. pm' = 0
      BY <1>1, <2>3, Bounds, SMT
    <3>2. QED
      BY <1>1, <2>1, <2>2, <2>3, <3>1, Bounds DEF TimerIInv, LoopInv
  <2>4. CASE pm + 1 < pm_mod
    <3>1. pm' = pm + 1
      <4>1. pm + 1 \in 0 .. pm_mod - 1
        BY <2>4, Bounds
      <4>2. QED
        BY <1>1, <4>1, Bounds, ModSmall
    <3>2. QED
      BY <1>1, <2>1, <2>2, <2>4, <3>1, Bounds DEF TimerIInv, LoopInv
  <2>5. QED
    BY <2>3, <2>4, Bounds
<1>10. StopInv'
  <2>1. CASE at = "stop"
    BY <1>1, <1>2, <2>1, Bounds DEF TimerIInv, StopInv, Comparable
  <2>2. CASE at # "stop"
    BY <1>1, <2>2, Zenon DEF TimerIInv, StopInv, Comparable
  <2>3. QED
    BY <2>1, <2>2
<1>11. PassedInv'
  <2>1. CASE \/ at \in {"pmt_delay", "stop", "read", "lvt", "divide again", "arm"}
             \/ at = "delay" /\ Comparable
    <3>1. CURCNT' = Left
      BY <1>1, <1>3, <2>1, CounterDoesNotRunOut
    <3>0. /\ CURCNT \in Int /\ LAPIC_MOD \in Int /\ target \in Int /\ MAX_GAP \in Int
          /\ gap \in Int
      BY Bounds
    <3> USE <1>1, <3>1, CountPerUnit, Bounds DEF TimerIInv, PassedInv, Passed, Full
    <3>2. CASE at = "pmt_delay"
      BY <3>2
    <3>3. CASE at = "delay" /\ Comparable
      BY <1>2, <3>3 DEF LoopInv, Comparable
    <3>4. CASE at = "stop"
      BY <1>2, <3>4 DEF StopInv, Comparable
    <3>5. CASE at = "read"
      BY <3>5
    <3>6. CASE at = "lvt"
      BY <3>6
    <3>7. CASE at = "divide again"
      <4>3. LAPIC_MOD - 1 - CURCNT <= target + 19 * MAX_GAP + 8 * gap
        BY <3>7
      <4>4. CURCNT' = CURCNT - 8 /\ gap' = gap + 1 /\ at' = "divide again"
        BY <3>7
      <4>5. LAPIC_MOD - 1 - (CURCNT - 8) <= target + 19 * MAX_GAP + 8 * (gap + 1)
        BY ONLY <3>0, <4>3
      <4>6. QED
        BY <4>4, <4>5
    <3>8. CASE at = "arm"
      BY <3>8
    <3>9. QED
      BY <2>1, <3>2, <3>3, <3>4, <3>5, <3>6, <3>7, <3>8
  <2>2. CASE ~(\/ at \in {"pmt_delay", "stop", "read", "lvt", "divide again", "arm"}
               \/ at = "delay" /\ Comparable)
    BY <1>1, <2>2 DEF PassedInv, TimerIInv, StopInv, Comparable
  <2>3. QED
    BY <2>1, <2>2
<1>12. SleepTypes' /\ SleepInv'
  BY <1>1, SleepFrame
<1>13. QED
  BY <1>5, <1>6, <1>7, <1>8, <1>9, <1>10, <1>11, <1>12 DEF TimerIInv, TimerTypeOK

\* The stores to the divisor.
LEMMA WriteTIMERDIVInv ==
  ASSUME TimerIInv,
         \/ WriteTIMERDIV("divide", "start", 16)
         \/ WriteTIMERDIV("stop", "read", 2)
         \/ WriteTIMERDIV("divide again", "arm", 16)
  PROVE  TimerIInv'
<1>1. /\ \/ at = "divide" /\ at' = "start" /\ divisor' = 16
         \/ at = "stop" /\ at' = "read" /\ divisor' = 2
         \/ at = "divide again" /\ at' = "arm" /\ divisor' = 16
      /\ gap' = 0
      /\ UNCHANGED <<PMTimerLength, pm_mod, pm, target, count, current, elapsed,
                     INITCNT, CURCNT, calibration>>
      /\ UNCHANGED <<periodic, early>> /\ UNCHANGED sleepVars
  BY DEF WriteTIMERDIV, CodeStep, pmVars, delayVars
<1>2. DelayTypes' /\ LapicTypes'
  <2>1. gap' \in 0 .. MAX_GAP
    BY <1>1, ZeroInGap
  <2>2. DelayTypes'
    BY <1>1, <2>1, Bounds DEF TimerIInv, TimerTypeOK, DelayTypes
  <2>3. LapicTypes'
    BY <1>1, Bounds DEF TimerIInv, TimerTypeOK, LapicTypes
  <2>4. QED
    BY <2>2, <2>3
<1>3. FlagTypes' /\ FlagInv'
  BY <1>1 DEF TimerIInv, TimerTypeOK, FlagTypes, FlagInv, Before
<1>4. DivisorInv' /\ LoopInv' /\ StopInv'
  BY <1>1 DEF TimerIInv, DivisorInv, LoopInv, StopInv, Comparable
<1>5. PassedInv'
  <2>0. /\ CURCNT \in Int /\ LAPIC_MOD \in Int /\ target \in Int /\ elapsed \in Int
        /\ MAX_GAP \in Int /\ gap \in Int /\ gap <= MAX_GAP
    BY ONLY TimerIInv, Bounds
  <2>1. CASE at = "divide"
    BY <1>1, <2>1 DEF PassedInv
  <2>2. CASE at = "stop"
    <3>1. /\ elapsed <= LAPIC_MOD - 1 - CURCNT
          /\ LAPIC_MOD - 1 - CURCNT <= elapsed + MAX_GAP
          /\ target <= elapsed /\ elapsed <= target + MAX_GAP + gap
      BY <2>2 DEF TimerIInv, PassedInv, StopInv, Passed, Full
    <3>2. /\ target <= LAPIC_MOD - 1 - CURCNT
          /\ LAPIC_MOD - 1 - CURCNT <= target + 3 * MAX_GAP + 8 * 0
      BY ONLY <2>0, <3>1
    <3>3. QED
      BY <1>1, <2>2, <3>2 DEF PassedInv, Passed, Full
  <2>3. CASE at = "divide again"
    <3>1. LAPIC_MOD - 1 - CURCNT <= target + 19 * MAX_GAP + 8 * gap
      BY <2>3 DEF TimerIInv, PassedInv, Passed, Full
    <3>2. LAPIC_MOD - 1 - CURCNT <= target + 27 * MAX_GAP + 0
      BY ONLY <2>0, <3>1
    <3>3. QED
      BY <1>1, <2>3, <3>2 DEF PassedInv, Passed, Full
  <2>4. QED
    BY <1>1, <2>1, <2>2, <2>3
<1>6. CalibrationAccurate'
  BY <1>1 DEF TimerIInv, CalibrationAccurate
<1>7. SleepTypes' /\ SleepInv'
  BY <1>1, SleepFrame
<1>8. QED
  BY <1>2, <1>3, <1>4, <1>5, <1>6, <1>7 DEF TimerIInv, TimerTypeOK

\* The counter is started.
LEMMA WriteINITCNTInv ==
  ASSUME TimerIInv, WriteINITCNT("start", "pmt_delay", Full)
  PROVE  TimerIInv'
<1>1. /\ at = "start" /\ at' = "pmt_delay" /\ gap' = 0
      /\ INITCNT' = LAPIC_MOD - 1 /\ CURCNT' = LAPIC_MOD - 1
      /\ UNCHANGED <<PMTimerLength, pm_mod, pm, target, count, current, elapsed,
                     divisor, calibration>>
      /\ UNCHANGED <<periodic, early>> /\ UNCHANGED sleepVars
  BY DEF WriteINITCNT, CodeStep, pmVars, delayVars, Full
<1>2. DelayTypes' /\ LapicTypes'
  <2>1. gap' \in 0 .. MAX_GAP
    BY <1>1, ZeroInGap
  <2>2. DelayTypes'
    BY <1>1, <2>1, Bounds DEF TimerIInv, TimerTypeOK, DelayTypes
  <2>3. LapicTypes'
    BY <1>1, Bounds DEF TimerIInv, TimerTypeOK, LapicTypes
  <2>4. QED
    BY <2>2, <2>3
<1>3. FlagTypes' /\ FlagInv'
  BY <1>1 DEF TimerIInv, TimerTypeOK, FlagTypes, FlagInv, Before
<1>4. DivisorInv' /\ LoopInv' /\ StopInv' /\ CalibrationAccurate'
  BY <1>1 DEF TimerIInv, DivisorInv, LoopInv, StopInv, CalibrationAccurate
<1>5. PassedInv'
  BY <1>1, Bounds DEF PassedInv, Passed, Full
<1>6. SleepTypes' /\ SleepInv'
  BY <1>1, SleepFrame
<1>7. QED
  BY <1>2, <1>3, <1>4, <1>5, <1>6 DEF TimerIInv, TimerTypeOK

\* pmt_delay is called.
LEMMA StartDelayInv ==
  ASSUME TimerIInv, StartDelay
  PROVE  TimerIInv'
<1>1. /\ at = "pmt_delay" /\ at' \in {"panic", "stop", "delay"}
      /\ at' = "stop" => target = 0
      /\ at' = "delay" => target # 0
      /\ gap' = 0 /\ count' = pm /\ current' = 0 /\ elapsed' = 0
      /\ UNCHANGED <<PMTimerLength, pm_mod, pm, target, divisor, INITCNT, CURCNT,
                     calibration>>
      /\ UNCHANGED <<periodic, early>> /\ UNCHANGED sleepVars
  BY DEF StartDelay, CodeStep, pmVars, lapicVars
<1>2. DelayTypes' /\ LapicTypes'
  <2>1. gap' \in 0 .. MAX_GAP
    BY <1>1, ZeroInGap
  <2>2. DelayTypes'
    <3>1. /\ count' \in 0 .. pm_mod - 1 /\ current' \in 0 .. MASK_MOD - 1
          /\ elapsed' \in 0 .. 2 * MASK_MOD
      BY <1>1, Bounds
    <3>2. QED
      BY <1>1, <2>1, <3>1 DEF TimerIInv, TimerTypeOK, DelayTypes, ElapsedCap
  <2>3. LapicTypes'
    BY <1>1, Bounds DEF TimerIInv, TimerTypeOK, LapicTypes
  <2>4. QED
    BY <2>2, <2>3
<1>3. FlagTypes' /\ FlagInv'
  BY <1>1 DEF TimerIInv, TimerTypeOK, FlagTypes, FlagInv, Before
<1>4. DivisorInv' /\ CalibrationAccurate'
  BY <1>1 DEF TimerIInv, DivisorInv, CalibrationAccurate
<1>5. LoopInv' /\ StopInv'
  <2>1. /\ pm \in Int /\ pm_mod \in Int /\ target \in Nat /\ MAX_GAP \in Nat
        /\ pm < pm_mod /\ MASK_MOD \in Nat \ {0}
    BY Bounds
  <2>2. LoopInv'
    BY <1>1, <2>1 DEF LoopInv
  <2>3. StopInv'
    <3>1. 0 < MASK_MOD /\ 0 <= 0 /\ 0 <= 0 + MAX_GAP + 0
      BY <2>1
    <3>2. QED
      BY <1>1, <3>1 DEF StopInv, Comparable
  <2>4. QED
    BY <2>2, <2>3
<1>6. PassedInv'
  <2>1. 0 <= Passed /\ Passed <= 0 + MAX_GAP
    BY <1>1, Bounds DEF TimerIInv, PassedInv
  <2>2. QED
    BY <1>1, <2>1 DEF PassedInv, Passed, Full
<1>7. SleepTypes' /\ SleepInv'
  BY <1>1, SleepFrame
<1>8. QED
  BY <1>2, <1>3, <1>4, <1>5, <1>6, <1>7 DEF TimerIInv, TimerTypeOK

\* In the loop the masked difference is the time that has passed.
LEMMA DifferenceIsElapsed ==
  ASSUME TimerIInv, at = "delay"
  PROVE  /\ Difference \in 0 .. MASK_MOD - 1
         /\ Comparable => Difference = elapsed
<1>1. Difference \in 0 .. MASK_MOD - 1
  <2>1. MASK_MOD \in Nat \ {0} /\ pm - count \in Int
    BY Bounds
  <2>2. QED
    BY <2>1, ModRange DEF Difference
<1>2. ASSUME Comparable PROVE Difference = elapsed
  <2>1. elapsed \in 0 .. MASK_MOD - 1
    BY <1>2, Bounds DEF TimerIInv, LoopInv
  <2>2. (elapsed - pm_mod) % MASK_MOD = elapsed /\ elapsed % MASK_MOD = elapsed
    BY <2>1, Bounds, MaskedDifference
  <2>3. pm - count = elapsed \/ pm - count = elapsed - pm_mod
    BY <1>2, Bounds DEF TimerIInv, LoopInv
  <2>4. QED
    BY <2>2, <2>3 DEF Difference
<1>3. QED
  BY <1>1, <1>2

\* A round of the loop.
LEMMA PollInv ==
  ASSUME TimerIInv, Poll
  PROVE  TimerIInv'
<1>1. /\ at = "delay" /\ at' \in {"stop", "delay"}
      /\ at' = "stop" <=> ~(Difference < target)
      /\ gap' = 0 /\ current' = Difference
      /\ UNCHANGED <<PMTimerLength, pm_mod, pm, target, count, elapsed, divisor,
                     INITCNT, CURCNT, calibration>>
      /\ UNCHANGED <<periodic, early>> /\ UNCHANGED sleepVars
  BY DEF Poll, CodeStep, pmVars, lapicVars
<1>2. /\ Difference \in 0 .. MASK_MOD - 1
      /\ Comparable => Difference = elapsed
  BY <1>1, DifferenceIsElapsed
<1>3. DelayTypes' /\ LapicTypes'
  <2>1. gap' \in 0 .. MAX_GAP
    BY <1>1, ZeroInGap
  <2>2. DelayTypes'
    BY <1>1, <1>2, <2>1, Bounds DEF TimerIInv, TimerTypeOK, DelayTypes
  <2>3. LapicTypes'
    BY <1>1, Bounds DEF TimerIInv, TimerTypeOK, LapicTypes
  <2>4. QED
    BY <2>2, <2>3
<1>4. FlagTypes' /\ FlagInv'
  BY <1>1 DEF TimerIInv, TimerTypeOK, FlagTypes, FlagInv, Before
<1>5. DivisorInv' /\ CalibrationAccurate'
  BY <1>1 DEF TimerIInv, DivisorInv, CalibrationAccurate
<1>6. LoopInv'
  BY <1>1, <1>2, Bounds DEF TimerIInv, LoopInv, Comparable
<1>7. StopInv'
  <2> SUFFICES ASSUME at' = "stop"
               PROVE  /\ target < MASK_MOD
                      /\ target <= elapsed /\ elapsed <= target + MAX_GAP + 0
    BY <1>1 DEF StopInv, Comparable
  <2>1. /\ target \in Nat /\ MASK_MOD \in Nat /\ elapsed \in Nat /\ MAX_GAP \in Nat
        /\ gap \in Nat /\ gap <= MAX_GAP
    BY Bounds
  <2>2. target < MASK_MOD
    BY <1>1, <1>2, <2>1
  <2>3. Difference = elapsed /\ elapsed < target + gap
    BY <1>1, <1>2, <2>2 DEF TimerIInv, LoopInv, Comparable
  <2>4. QED
    BY <1>1, <2>1, <2>2, <2>3
<1>8. PassedInv'
  BY <1>1, Bounds DEF TimerIInv, PassedInv, Passed, Full, Comparable
<1>9. SleepTypes' /\ SleepInv'
  BY <1>1, SleepFrame
<1>10. QED
  BY <1>3, <1>4, <1>5, <1>6, <1>7, <1>8, <1>9 DEF TimerIInv, TimerTypeOK

\* The count is read.
LEMMA ReadCURCNTInv ==
  ASSUME TimerIInv, ReadCURCNT
  PROVE  TimerIInv'
<1>1. /\ at = "read" /\ at' = "lvt" /\ gap' = 0
      /\ calibration' = Full - CURCNT /\ count' = 0 /\ current' = 0 /\ elapsed' = 0
      /\ UNCHANGED <<PMTimerLength, pm_mod, pm, target, divisor, INITCNT, CURCNT>>
      /\ UNCHANGED <<periodic, early>> /\ UNCHANGED sleepVars
  BY DEF ReadCURCNT, CodeStep, pmVars, lapicVars, Counted
<1>2. DelayTypes' /\ LapicTypes'
  <2>1. gap' \in 0 .. MAX_GAP
    BY <1>1, ZeroInGap
  <2>2. DelayTypes'
    BY <1>1, <2>1, Bounds DEF TimerIInv, TimerTypeOK, DelayTypes, ElapsedCap, Full
  <2>3. LapicTypes'
    BY <1>1, Bounds DEF TimerIInv, TimerTypeOK, LapicTypes, Full
  <2>4. QED
    BY <2>2, <2>3
<1>3. FlagTypes' /\ FlagInv'
  BY <1>1 DEF TimerIInv, TimerTypeOK, FlagTypes, FlagInv, Before
<1>4. DivisorInv' /\ LoopInv' /\ StopInv'
  BY <1>1 DEF TimerIInv, DivisorInv, LoopInv, StopInv, Comparable
<1>5. PassedInv' /\ CalibrationAccurate'
  BY <1>1, Bounds DEF TimerIInv, PassedInv, Passed, Full, CalibrationAccurate
<1>6. SleepTypes' /\ SleepInv'
  BY <1>1, SleepFrame
<1>7. QED
  BY <1>2, <1>3, <1>4, <1>5, <1>6 DEF TimerIInv, TimerTypeOK

\* The timer's interrupt is unmasked.
LEMMA WriteLVTInv ==
  ASSUME TimerIInv, WriteLVT
  PROVE  TimerIInv'
<1>1. /\ at = "lvt" /\ at' = "divide again" /\ gap' = 0
      /\ UNCHANGED <<PMTimerLength, pm_mod, pm, target, count, current, elapsed,
                     divisor, INITCNT, CURCNT, calibration>>
      /\ UNCHANGED sleepVars
  BY DEF WriteLVT, CodeStep, pmVars, delayVars
<1>2. DelayTypes' /\ LapicTypes'
  <2>1. gap' \in 0 .. MAX_GAP
    BY <1>1, ZeroInGap
  <2>2. DelayTypes'
    BY <1>1, <2>1, Bounds DEF TimerIInv, TimerTypeOK, DelayTypes
  <2>3. LapicTypes'
    BY <1>1, Bounds DEF TimerIInv, TimerTypeOK, LapicTypes
  <2>4. QED
    BY <2>2, <2>3
<1>3. FlagTypes' /\ FlagInv'
  BY DEF WriteLVT, CodeStep, TimerIInv, TimerTypeOK, FlagTypes, FlagInv, Before
<1>4. DivisorInv' /\ LoopInv' /\ StopInv' /\ CalibrationAccurate'
  BY <1>1 DEF TimerIInv, DivisorInv, LoopInv, StopInv, Comparable, CalibrationAccurate
<1>5. PassedInv'
  <2>1. /\ CURCNT \in Int /\ LAPIC_MOD \in Int /\ target \in Int /\ MAX_GAP \in Int
        /\ gap \in Int /\ gap <= MAX_GAP
    BY Bounds
  <2>2. LAPIC_MOD - 1 - CURCNT <= target + 11 * MAX_GAP + 8 * gap
    BY <1>1 DEF TimerIInv, PassedInv, Passed, Full
  <2>3. LAPIC_MOD - 1 - CURCNT <= target + 19 * MAX_GAP + 8 * 0
    BY ONLY <2>1, <2>2
  <2>4. QED
    BY <1>1, <2>3 DEF PassedInv, Passed, Full
<1>6. SleepTypes' /\ SleepInv'
  BY <1>1, SleepFrame
<1>7. QED
  BY <1>2, <1>3, <1>4, <1>5, <1>6 DEF TimerIInv, TimerTypeOK

\* The timer is armed with the period.
LEMMA ArmInv ==
  ASSUME TimerIInv, Arm
  PROVE  TimerIInv'
<1>1. /\ at = "arm" /\ at' = "idle" /\ gap' = 0
      /\ INITCNT' = calibration /\ CURCNT' = calibration /\ calibration' = 0
      /\ pm' = 0
      /\ UNCHANGED <<PMTimerLength, pm_mod, target, count, current, elapsed, divisor>>
      /\ UNCHANGED <<periodic, early>> /\ UNCHANGED sleepVars
  BY DEF Arm, delayVars
<1>2. DelayTypes' /\ LapicTypes'
  <2>1. gap' \in 0 .. MAX_GAP
    BY <1>1, ZeroInGap
  <2>2. DelayTypes'
    BY <1>1, <2>1, Bounds DEF TimerIInv, TimerTypeOK, DelayTypes
  <2>3. LapicTypes'
    BY <1>1, Bounds DEF TimerIInv, TimerTypeOK, LapicTypes
  <2>4. QED
    BY <2>2, <2>3
<1>3. FlagTypes' /\ FlagInv'
  BY <1>1 DEF TimerIInv, TimerTypeOK, FlagTypes, FlagInv, Before
<1>4. DivisorInv' /\ LoopInv' /\ StopInv' /\ PassedInv' /\ CalibrationAccurate'
  BY <1>1 DEF TimerIInv, DivisorInv, LoopInv, StopInv, PassedInv, CalibrationAccurate
<1>5. SleepTypes' /\ SleepInv'
  BY <1>1, SleepFrame
<1>6. QED
  BY <1>2, <1>3, <1>4, <1>5 DEF TimerIInv, TimerTypeOK

\* What apic_timer and apic_sleep leave alone.
LEMMA ArmedFrame ==
  ASSUME TimerIInv, at \in {"idle", "sleep"}, at' \in {"idle", "sleep"},
         UNCHANGED <<pmVars, delayVars, lapicVars, calibration, gap>>
  PROVE  /\ DelayTypes' /\ LapicTypes' /\ FlagTypes' /\ FlagInv' /\ DivisorInv'
         /\ LoopInv' /\ StopInv' /\ PassedInv' /\ CalibrationAccurate'
<1> USE DEF TimerIInv, TimerTypeOK, pmVars, delayVars, lapicVars
<1>1. DelayTypes'
  BY Zenon DEF DelayTypes
<1>2. LapicTypes'
  BY DEF LapicTypes
<1>3. FlagTypes' /\ FlagInv'
  BY DEF FlagTypes, FlagInv, Before
<1>4. DivisorInv' /\ LoopInv' /\ StopInv' /\ PassedInv' /\ CalibrationAccurate'
  BY DEF DivisorInv, LoopInv, StopInv, PassedInv, CalibrationAccurate
<1>5. QED
  BY <1>1, <1>2, <1>3, <1>4

\* The types apic_sleep relies on.
LEMMA SleepBounds ==
  ASSUME TimerIInv
  PROVE  /\ TICK_MOD \in Nat \ {0} /\ apic_timer_ticks \in 0 .. TICK_MOD - 1
         /\ start \in 0 .. TICK_MOD - 1 /\ curcnt \in 0 .. TICK_MOD - 1
         /\ ms \in Nat /\ slept \in 0 .. ms
BY DEF TimerIInv, TimerTypeOK, SleepTypes, SleepAssumption

\* The interrupt: the counter and the number of interrupts advance together.
LEMMA apic_timerInv ==
  ASSUME TimerIInv, apic_timer
  PROVE  TimerIInv'
<1>1. /\ at \in {"idle", "sleep"} /\ at' = at
      /\ UNCHANGED <<pmVars, delayVars, lapicVars, calibration, gap>>
      /\ UNCHANGED <<ms, curcnt, start>>
      /\ apic_timer_ticks' = (apic_timer_ticks + 1) % TICK_MOD
      /\ slept' = IF at = "sleep" /\ slept < ms THEN slept + 1 ELSE slept
  BY DEF apic_timer, Armed
<1>2. SleepTypes'
  <2>1. apic_timer_ticks + 1 \in Int /\ TICK_MOD \in Nat \ {0}
    BY SleepBounds
  <2>2. apic_timer_ticks' \in 0 .. TICK_MOD - 1
    BY <1>1, <2>1, ModRange
  <2>3. slept' \in 0 .. ms
    BY <1>1, SleepBounds
  <2>4. QED
    BY <1>1, <2>2, <2>3 DEF TimerIInv, TimerTypeOK, SleepTypes
<1>3. SleepInv'
  <2> SUFFICES ASSUME at = "sleep"
               PROVE  /\ curcnt' = AsInt(start)
                      /\ slept' < ms => apic_timer_ticks' = (start + slept') % TICK_MOD
    BY <1>1 DEF SleepInv, AsInt
  <2>1. curcnt' = AsInt(start)
    BY <1>1 DEF TimerIInv, SleepInv
  <2>2. ASSUME slept' < ms
        PROVE  apic_timer_ticks' = (start + slept') % TICK_MOD
    <3>1. slept < ms /\ slept' = slept + 1
      BY <1>1, <2>2, SleepBounds
    <3>2. apic_timer_ticks = (start + slept) % TICK_MOD
      BY <3>1 DEF TimerIInv, SleepInv
    <3>3. PICK x \in Int : x = start + slept
      BY SleepBounds
    <3>4. ((x % TICK_MOD) + 1) % TICK_MOD = (x + 1) % TICK_MOD
      BY ModSucc, SleepBounds
    <3>5. x + 1 = start + slept'
      BY <3>1, <3>3, SleepBounds
    <3>6. QED
      BY <1>1, <3>2, <3>3, <3>4, <3>5
  <2>3. QED
    BY <2>1, <2>2
<1>4. QED
  BY <1>1, <1>2, <1>3, ArmedFrame DEF TimerIInv, TimerTypeOK

\* apic_sleep: its copy of the counter, and its return.
LEMMA apic_sleepInv ==
  ASSUME TimerIInv, apic_sleep
  PROVE  TimerIInv'
<1>1. CASE \E n \in Sleeps : SleepStart(n)
  <2>1. PICK n \in Sleeps : SleepStart(n)
    BY <1>1
  <2>2. /\ at = "idle" /\ at' = "sleep"
        /\ ms' = n /\ curcnt' = AsInt(apic_timer_ticks)
        /\ start' = apic_timer_ticks /\ slept' = 0
        /\ UNCHANGED apic_timer_ticks
        /\ UNCHANGED <<pmVars, delayVars, lapicVars, calibration, gap>>
    BY <2>1 DEF SleepStart
  <2>3. curcnt' \in 0 .. TICK_MOD - 1
    <3>1. apic_timer_ticks \in Int
      BY ONLY TimerIInv, SleepBounds
    <3>2. QED
      BY <2>2, <3>1, AsIntType
  <2>4. slept' \in 0 .. ms'
    BY <2>2 DEF SleepAssumption
  <2>5. SleepTypes'
    BY <2>2, <2>3, <2>4 DEF TimerIInv, TimerTypeOK, SleepTypes
  <2>6. SleepInv'
    <3>1. apic_timer_ticks = (apic_timer_ticks + 0) % TICK_MOD
      <4>1. /\ TICK_MOD \in Nat \ {0} /\ apic_timer_ticks \in 0 .. TICK_MOD - 1
        BY ONLY TimerIInv, SleepBounds
      <4>2. QED
        BY ONLY <4>1, ModSmall
    <3>2. QED
      BY <2>2, <3>1 DEF SleepInv, AsInt
  <2>7. QED
    BY <2>2, <2>5, <2>6, ArmedFrame DEF TimerIInv, TimerTypeOK
<1>2. CASE SleepEnd
  <2>1. /\ at = "sleep" /\ at' = "idle" /\ UNCHANGED sleepVars
        /\ UNCHANGED <<pmVars, delayVars, lapicVars, calibration, gap>>
    BY <1>2 DEF SleepEnd
  <2>2. QED
    BY <2>1, ArmedFrame, SleepFrame DEF TimerIInv, TimerTypeOK
<1>3. QED
  BY <1>1, <1>2 DEF apic_sleep

\* Every step of the timers, of calibrate_timer and of apic_sleep keeps the
\* invariant.
LEMMA TimerNextInv == TimerIInv /\ [TimerNext]_timerVars => TimerIInv'
<1> SUFFICES ASSUME TimerIInv, [TimerNext]_timerVars PROVE TimerIInv'
  OBVIOUS
<1>1. CASE Advance
  BY <1>1, AdvanceInv
<1>2. CASE calibrate_timer
  BY <1>2, WriteTIMERDIVInv, WriteINITCNTInv, StartDelayInv, PollInv, ReadCURCNTInv,
     WriteLVTInv, ArmInv DEF calibrate_timer, pmt_delay
<1>3. CASE apic_timer
  BY <1>3, apic_timerInv
<1>4. CASE apic_sleep
  BY <1>4, apic_sleepInv
<1>5. CASE TimerPanic \/ UNCHANGED timerVars
  <2> UNCHANGED timerVars
    BY <1>5 DEF TimerPanic
  <2> USE DEF timerVars, pmVars, delayVars, lapicVars, sleepVars, TimerIInv, TimerTypeOK
  <2>1. DelayTypes' /\ LapicTypes'
    BY Zenon DEF DelayTypes, LapicTypes
  <2>2. FlagTypes' /\ FlagInv'
    BY DEF FlagTypes, FlagInv
  <2>3. SleepTypes' /\ SleepInv'
    BY Zenon DEF SleepTypes, SleepInv, AsInt
  <2>4. DivisorInv' /\ LoopInv' /\ StopInv'
    BY Zenon DEF DivisorInv, LoopInv, StopInv, Comparable
  <2>5. PassedInv' /\ CalibrationAccurate'
    BY Zenon DEF PassedInv, Passed, Full, Comparable, CalibrationAccurate
  <2>6. QED
    BY <2>1, <2>2, <2>3, <2>4, <2>5
<1>6. QED
  BY <1>1, <1>2, <1>3, <1>4, <1>5 DEF TimerNext

(***************************************************************************)
(* The invariant of the timers, from which the theorems below follow.      *)
(***************************************************************************)
THEOREM TimerInvariant == TimerSpec => []TimerIInv
BY TimerInitInv, TimerNextInv, PTL DEF TimerSpec

--------------------------------------------------------------------------------
(***************************************************************************)
(* Every variable keeps its type: the counters stay within their widths.   *)
(***************************************************************************)
THEOREM TimerTypeCorrect == TimerSpec => []TimerTypeOK
<1>1. TimerIInv => TimerTypeOK
  BY DEF TimerIInv
<1>2. QED
  BY <1>1, TimerInvariant, PTL

(***************************************************************************)
(* pmt_delay waits for the time it is asked for and at most two steps of   *)
(* the processor more, wherever the PM timer stands when it begins and     *)
(* however many bits above the 24 that are compared it has.                *)
(***************************************************************************)
THEOREM DelayIsAccurate == TimerSpec => []DelayAccurate
<1>1. TimerIInv => DelayAccurate
  <2> SUFFICES ASSUME TimerIInv, at = "stop"
               PROVE  target <= elapsed /\ elapsed <= target + 2 * MAX_GAP
    BY DEF DelayAccurate
  <2>1. target <= elapsed /\ elapsed <= target + MAX_GAP + gap
    BY DEF TimerIInv, StopInv
  <2>2. /\ target \in Int /\ elapsed \in Int /\ MAX_GAP \in Int /\ gap \in Int
        /\ gap <= MAX_GAP
    BY Bounds
  <2>3. QED
    BY ONLY <2>1, <2>2
<1>2. QED
  BY <1>1, TimerInvariant, PTL

(***************************************************************************)
(* The period measured by calibrate_timer is the delay, up to the steps    *)
(* around it, and between unmasking the timer and storing the period the   *)
(* timer does not fire.                                                    *)
(***************************************************************************)
THEOREM CalibrationIsSound == TimerSpec => [](CalibrationAccurate /\ NoEarlyTick)
<1>1. TimerIInv => CalibrationAccurate /\ NoEarlyTick
  BY DEF TimerIInv, FlagInv, NoEarlyTick
<1>2. QED
  BY <1>1, TimerInvariant, PTL

(***************************************************************************)
(* apic_sleep returns after as many timer interrupts as it is asked for,   *)
(* or more, for every argument and across a wrap of apic_timer_ticks, if   *)
(* the counter fitted its int when it was called.                          *)
(***************************************************************************)
THEOREM SleepIsLongEnough == TimerSpec => []SleepLongEnough
<1>1. TimerIInv => SleepLongEnough
  <2> SUFFICES ASSUME TimerIInv PROVE SleepLongEnough
    OBVIOUS
  <2>0. slept \in Int /\ ms \in Int
    BY ONLY TimerIInv, SleepBounds
  <2> SUFFICES ASSUME at = "sleep", SleepOver, start < INT_MOD \div 2, slept < ms
               PROVE  FALSE
    BY <2>0 DEF SleepLongEnough
  <2>1. /\ TICK_MOD \in Nat \ {0} /\ start \in 0 .. TICK_MOD - 1
        /\ INT_MOD \in Nat \ {0} /\ slept \in Nat /\ ms \in Nat
    BY SleepBounds DEF SleepAssumption
  <2>2. start \in 0 .. INT_MOD - 1
    BY ONLY <2>1, start < INT_MOD \div 2, SMT
  <2>3. start % INT_MOD = start /\ start % TICK_MOD = start
    BY ONLY <2>1, <2>2, ModSmall
  <2>4. curcnt = start
    BY <2>3 DEF TimerIInv, SleepInv, AsInt
  <2>5. apic_timer_ticks = (start + slept) % TICK_MOD
    BY DEF TimerIInv, SleepInv
  <2>6. PICK x \in Int : x = start + slept
    BY <2>1
  <2>7. ((x % TICK_MOD) - start) % TICK_MOD = (x - start) % TICK_MOD
    <3>1. start \in Int
      BY ONLY <2>1
    <3>2. QED
      BY ONLY <2>1, <3>1, x \in Int, ModMinus
  <2>8. x - start = slept
    BY ONLY <2>1, <2>6
  <2>9. slept % TICK_MOD <= slept /\ slept % TICK_MOD \in Int
    BY ONLY <2>1, ModAtMost, ModRange
  <2>10. slept % TICK_MOD >= ms
    BY <2>4, <2>5, <2>6, <2>7, <2>8 DEF SleepOver
  <2>11. QED
    BY ONLY <2>1, <2>9, <2>10, slept < ms
<1>2. QED
  BY <1>1, TimerInvariant, PTL
================================================================================
