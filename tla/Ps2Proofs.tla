------------------------------- MODULE Ps2Proofs -------------------------------
(***************************************************************************)
(* Proofs about the PS/2 keyboard, for a keyboard buffer of any length and *)
(* every order of keys, transfers, interrupts and steps of the set-up.     *)
(***************************************************************************)
EXTENDS Ps2, TLAPS

USE QueueAssumption DEF QueueAssumption

\* What the type invariant leaves open: the codes in the queue and the history.
HistoryInv == /\ queue \in Seq(Codes)
              /\ caps_presses \in 0 .. 1 /\ shift_seen \in BOOLEAN

\* IRQ 1 has its vector only when the set-up, whose loops throw away what is in
\* the output buffer, is over; before that no interrupt can wait.
NotBeforeReady == /\ redt = "vector 33" => at = "ready"
                  /\ pending => at = "ready"

Ps2IInv == /\ Ps2TypeOK /\ HistoryInv /\ NotBeforeReady
           /\ CapsFollowsKey /\ ShiftNotStuck /\ InterruptHasByte

--------------------------------------------------------------------------------
(***************************************************************************)
(* The state machine of keyboard_state, for any code and any state.        *)
(***************************************************************************)

\* ps2_handler leaves one of the three states.
LEMMA StateAfterType ==
  ASSUME NEW code, NEW state \in {"NORMAL", "SHIFT", "CAPS"}
  PROVE  StateAfter(code, state) \in {"NORMAL", "SHIFT", "CAPS"}
BY DEF StateAfter

\* A caps lock code switches the caps state, whatever the state was; no other
\* code does.
LEMMA CapsSwitches ==
  ASSUME NEW code, NEW state \in {"NORMAL", "SHIFT", "CAPS"}
  PROVE  (StateAfter(code, state) = "CAPS")
           <=> ((state = "CAPS") # (code = CAPS_LOCK_PRESSED))
BY DEF StateAfter, CAPS_LOCK_PRESSED, LEFT_SHIFT_PRESSED, LEFT_SHIFT_RELEASED

\* The shift state is entered by a shift code only, and a release leaves it.
LEMMA ShiftEntered ==
  ASSUME NEW code, NEW state \in {"NORMAL", "SHIFT", "CAPS"},
         StateAfter(code, state) = "SHIFT"
  PROVE  \/ code = LEFT_SHIFT_PRESSED
         \/ code # LEFT_SHIFT_RELEASED /\ state = "SHIFT"
BY DEF StateAfter, CAPS_LOCK_PRESSED, LEFT_SHIFT_PRESSED, LEFT_SHIFT_RELEASED

\* A code stands for a character of Chars, upper case or not.
LEMMA TranslationType ==
  ASSUME NEW code, NEW c \in ps2_translate2ascii(code)
  PROVE  c \in Chars
BY DEF ps2_translate2ascii, ascii_table, toupper, Chars, Letters, Function,
       SelfTestPassed, None

--------------------------------------------------------------------------------

\* The state the boot loader leaves behind satisfies the invariant.
LEMMA Ps2InitInv == Ps2Init => Ps2IInv
<1> SUFFICES ASSUME Ps2Init PROVE Ps2IInv
  OBVIOUS
<1>1. Ps2TypeOK
  <2>1. FlagTypes
    BY DEF Ps2Init, FlagTypes
  <2>2. DataTypes
    BY DEF Ps2Init, DataTypes, Codes, Letters, Chars, None
  <2>3. QED
    BY <2>1, <2>2 DEF Ps2TypeOK
<1>2. HistoryInv
  <2>1. queue \in Seq(Codes) /\ caps_presses \in 0 .. 1
    BY DEF Ps2Init
  <2>2. shift_seen \in BOOLEAN
    BY DEF Ps2Init
  <2>3. QED
    BY <2>1, <2>2 DEF HistoryInv
<1>3. NotBeforeReady /\ CapsFollowsKey /\ ShiftNotStuck /\ InterruptHasByte
  BY DEF Ps2Init, NotBeforeReady, CapsFollowsKey, ShiftNotStuck, InterruptHasByte
<1>4. QED
  BY <1>1, <1>2, <1>3 DEF Ps2IInv

\* A step that leaves the handler's variables alone keeps the keyboard state in
\* line with the codes handled.
LEMMA HandlerFrame ==
  ASSUME Ps2IInv, UNCHANGED handlerVars
  PROVE  CapsFollowsKey' /\ ShiftNotStuck'
BY DEF Ps2IInv, CapsFollowsKey, ShiftNotStuck, handlerVars

\* The keyboard: a key goes into a queue that has room for it.
LEMMA KeyInv ==
  ASSUME Ps2IInv, NEW code \in Codes, Key(code)
  PROVE  Ps2IInv'
<1> USE DEF Ps2IInv, Key
<1>1. queue' \in Seq(Codes) /\ Len(queue') <= QUEUE
  <2>1. queue \in Seq(Codes) /\ Len(queue) < QUEUE /\ queue' = Append(queue, code)
    BY DEF HistoryInv
  <2>2. QED
    BY ONLY <2>1, QueueAssumption, code \in Codes
<1>2. Ps2TypeOK'
  <2>1. FlagTypes'
    BY <1>1 DEF Ps2TypeOK, FlagTypes, controller, apic, handlerVars
  <2>2. DataTypes'
    BY <1>1 DEF Ps2TypeOK, DataTypes, controller, apic, handlerVars
  <2>3. QED
    BY <2>1, <2>2 DEF Ps2TypeOK
<1>3. HistoryInv' /\ NotBeforeReady' /\ InterruptHasByte'
  BY <1>1 DEF HistoryInv, NotBeforeReady, InterruptHasByte, controller, apic, handlerVars
<1>4. QED
  BY <1>2, <1>3, HandlerFrame

\* The controller: what it puts into the output buffer is a byte, so an
\* interrupt it raises has one.
LEMMA ControllerInv ==
  ASSUME Ps2IInv, Transfer \/ SelfTestReply \/ TakeCommand
  PROVE  Ps2IInv'
<1> USE DEF Ps2IInv
<1>1. CASE Transfer
  <2> USE DEF Transfer, Edge
  <2>1. queue' \in Seq(Codes) /\ Len(queue') <= QUEUE /\ obuf' \in Codes
    <3>1. /\ queue \in Seq(Codes) /\ Len(queue) <= QUEUE /\ queue # <<>>
          /\ obuf' = Head(queue) /\ queue' = Tail(queue)
      BY <1>1 DEF Ps2TypeOK, DataTypes, HistoryInv
    <3>2. QED
      BY ONLY <3>1, QueueAssumption
  <2>0. obuf' # None
    BY <2>1 DEF Codes, Letters, None, LEFT_SHIFT_PRESSED, LEFT_SHIFT_RELEASED,
                CAPS_LOCK_PRESSED, KeyUp, Function
  <2>2. Ps2TypeOK'
    <3>1. FlagTypes'
      BY <1>1, <2>1 DEF Ps2TypeOK, FlagTypes, handlerVars
    <3>2. DataTypes'
      BY <1>1, <2>1 DEF Ps2TypeOK, DataTypes, handlerVars
    <3>3. QED
      BY <3>1, <3>2 DEF Ps2TypeOK
  <2>3. HistoryInv' /\ NotBeforeReady' /\ InterruptHasByte'
    BY <1>1, <2>1, <2>0 DEF HistoryInv, NotBeforeReady, InterruptHasByte, handlerVars
  <2>4. QED
    BY <1>1, <2>2, <2>3, HandlerFrame
<1>2. CASE SelfTestReply
  <2> USE DEF SelfTestReply, Edge
  <2>1. Ps2TypeOK'
    <3>1. FlagTypes'
      BY <1>2 DEF Ps2TypeOK, FlagTypes, device, handlerVars
    <3>2. DataTypes'
      BY <1>2 DEF Ps2TypeOK, DataTypes, device, handlerVars
    <3>3. QED
      BY <3>1, <3>2 DEF Ps2TypeOK
  <2>2. HistoryInv' /\ NotBeforeReady' /\ InterruptHasByte'
    BY <1>2 DEF HistoryInv, NotBeforeReady, InterruptHasByte, device, handlerVars,
                SelfTestPassed, None
  <2>3. QED
    BY <1>2, <2>1, <2>2, HandlerFrame
<1>3. CASE TakeCommand
  <2> USE DEF TakeCommand
  <2>1. Ps2TypeOK'
    <3>1. FlagTypes'
      BY <1>3 DEF Ps2TypeOK, FlagTypes, device, apic, handlerVars
    <3>2. DataTypes'
      <4>1. ibuf' \in 0 .. 1
        BY <1>3
      <4>2. QED
        BY <1>3, <4>1, Zenon DEF Ps2TypeOK, DataTypes, device, apic, handlerVars
    <3>3. QED
      BY <3>1, <3>2 DEF Ps2TypeOK
  <2>2. HistoryInv' /\ NotBeforeReady' /\ InterruptHasByte'
    BY <1>3 DEF HistoryInv, NotBeforeReady, InterruptHasByte, device, apic, handlerVars
  <2>3. QED
    BY <1>3, <2>1, <2>2, HandlerFrame
<1>4. QED
  BY <1>1, <1>2, <1>3

\* ps2_int_init: it may empty the output buffer, but only while no interrupt
\* can wait.
LEMMA SetUpInv ==
  ASSUME Ps2IInv, ps2_int_init
  PROVE  Ps2IInv'
<1> USE DEF Ps2IInv, BootStep
<1>2. /\ at # "ready" /\ ~pending /\ pending' = pending
      /\ UNCHANGED <<device, in_service, handlerVars>>
  BY DEF ps2_int_init, DisablePorts, ClearBuffer, StartTest, ReadReply, EnablePort,
         Unmask, SetVector, NotBeforeReady
<1>3. Ps2TypeOK'
  <2>1. FlagTypes'
    BY <1>2 DEF ps2_int_init, DisablePorts, ClearBuffer, StartTest, ReadReply,
         EnablePort, Unmask, SetVector, Ps2TypeOK, FlagTypes, controller, device,
         handlerVars
  <2>2. DataTypes'
    <3>1. j' \in 0 .. 1 /\ ibuf' \in 0 .. 1
      <4>1. j' \in {j, ibuf} /\ ibuf' \in {ibuf, 1}
        BY DEF ps2_int_init, DisablePorts, ClearBuffer, StartTest, ReadReply,
               EnablePort, Unmask, SetVector, controller
      <4>2. j \in 0 .. 1 /\ ibuf \in 0 .. 1
        BY DEF Ps2TypeOK, DataTypes
      <4>3. QED
        BY ONLY <4>1, <4>2
    <3>2. /\ at' \in {"disable", "flush", "test", "reply", "flush again", "enable",
                      "unmask", "vector", "ready"}
          /\ redt' \in {"masked", "vector 0", "vector 33"}
      BY DEF ps2_int_init, DisablePorts, ClearBuffer, StartTest, ReadReply, EnablePort,
             Unmask, SetVector, Ps2TypeOK, DataTypes
    <3>3. obuf' \in Codes \cup {None, SelfTestPassed}
      BY DEF ps2_int_init, DisablePorts, ClearBuffer, StartTest, ReadReply, EnablePort,
             Unmask, SetVector, Ps2TypeOK, DataTypes, controller
    <3>4. QED
      BY <1>2, <3>1, <3>2, <3>3, Zenon DEF Ps2TypeOK, DataTypes, device, handlerVars
  <2>3. QED
    BY <2>1, <2>2 DEF Ps2TypeOK
<1>4. NotBeforeReady'
  BY <1>2 DEF ps2_int_init, DisablePorts, ClearBuffer, StartTest, ReadReply,
              EnablePort, Unmask, SetVector, NotBeforeReady
<1>5. HistoryInv' /\ InterruptHasByte'
  BY <1>2 DEF HistoryInv, InterruptHasByte, device, handlerVars
<1>6. QED
  BY <1>2, <1>3, <1>4, <1>5, HandlerFrame

\* Delivery of the interrupt takes the byte and the waiting interrupt together.
LEMMA InterruptInv ==
  ASSUME Ps2IInv, Interrupt
  PROVE  Ps2IInv'
<1> USE DEF Ps2IInv, Interrupt
<1>1. Ps2TypeOK'
  <2>1. FlagTypes'
    BY DEF Ps2TypeOK, FlagTypes, device
  <2>2. DataTypes'
    BY DEF Ps2TypeOK, DataTypes, device
  <2>3. QED
    BY <2>1, <2>2 DEF Ps2TypeOK
<1>2. HistoryInv' /\ NotBeforeReady' /\ InterruptHasByte'
  BY DEF HistoryInv, NotBeforeReady, InterruptHasByte, device
<1>3. CapsFollowsKey' /\ ShiftNotStuck'
  BY DEF CapsFollowsKey, ShiftNotStuck
<1>4. QED
  BY <1>1, <1>2, <1>3

\* ps2_handler: the state follows the code that was read.
LEMMA HandlerInv ==
  ASSUME Ps2IInv, ps2_handler
  PROVE  Ps2IInv'
<1> USE DEF Ps2IInv, ps2_handler, apic_eoi, reads
<1>1. /\ keyboard_state \in {"NORMAL", "SHIFT", "CAPS"}
      /\ keyboard_state' = StateAfter(scancode, keyboard_state)
      /\ keyboard_state' \in {"NORMAL", "SHIFT", "CAPS"}
  BY StateAfterType DEF Ps2TypeOK, DataTypes
<1>2. printed' \in Chars
  BY TranslationType DEF Ps2TypeOK, DataTypes
<1>3. Ps2TypeOK'
  <2>1. FlagTypes'
    BY <1>1, <1>2 DEF Ps2TypeOK, FlagTypes, device
  <2>2. DataTypes'
    BY <1>1, <1>2 DEF Ps2TypeOK, DataTypes, device
  <2>3. QED
    BY <2>1, <2>2 DEF Ps2TypeOK
<1>4. HistoryInv'
  <2>1. caps_presses' \in 0 .. 1
    BY DEF HistoryInv
  <2>2. shift_seen' \in BOOLEAN
    BY DEF HistoryInv
  <2>3. QED
    BY <2>1, <2>2 DEF HistoryInv, device
<1>5. NotBeforeReady' /\ InterruptHasByte'
  BY DEF NotBeforeReady, InterruptHasByte
<1>6. CapsFollowsKey'
  <2>1. (caps_presses' = 1) <=> ((caps_presses = 1) # (scancode = CAPS_LOCK_PRESSED))
    BY DEF HistoryInv
  <2>2. QED
    BY <1>1, <2>1, CapsSwitches DEF CapsFollowsKey
<1>7. ShiftNotStuck'
  BY <1>1, ShiftEntered DEF ShiftNotStuck, LEFT_SHIFT_PRESSED, LEFT_SHIFT_RELEASED
<1>8. QED
  BY <1>3, <1>4, <1>5, <1>6, <1>7

\* Every step of the keyboard, the controller, the set-up and the handler keeps
\* the invariant.
LEMMA Ps2NextInv == Ps2IInv /\ [Ps2Next]_ps2Vars => Ps2IInv'
<1> SUFFICES ASSUME Ps2IInv, [Ps2Next]_ps2Vars PROVE Ps2IInv'
  OBVIOUS
<1>1. CASE \E code \in Codes : Key(code)
  BY <1>1, KeyInv
<1>2. CASE Transfer \/ SelfTestReply \/ TakeCommand
  BY <1>2, ControllerInv
<1>3. CASE ps2_int_init
  BY <1>3, SetUpInv
<1>4. CASE Interrupt
  BY <1>4, InterruptInv
<1>5. CASE ps2_handler
  BY <1>5, HandlerInv
<1>6. CASE KeyLost \/ UNCHANGED ps2Vars
  <2> UNCHANGED ps2Vars
    BY <1>6 DEF KeyLost
  <2> USE DEF ps2Vars, device, controller, apic, handlerVars
  <2>1. Ps2TypeOK'
    <3>1. FlagTypes'
      BY DEF Ps2IInv, Ps2TypeOK, FlagTypes
    <3>2. DataTypes'
      BY DEF Ps2IInv, Ps2TypeOK, DataTypes
    <3>3. QED
      BY <3>1, <3>2 DEF Ps2TypeOK
  <2>2. HistoryInv' /\ NotBeforeReady' /\ InterruptHasByte'
    BY DEF Ps2IInv, HistoryInv, NotBeforeReady, InterruptHasByte
  <2>3. CapsFollowsKey' /\ ShiftNotStuck'
    BY DEF Ps2IInv, CapsFollowsKey, ShiftNotStuck
  <2>4. QED
    BY <2>1, <2>2, <2>3 DEF Ps2IInv
<1>7. QED
  BY <1>1, <1>2, <1>3, <1>4, <1>5, <1>6 DEF Ps2Next

(***************************************************************************)
(* The invariant of the keyboard, from which the theorems below follow.    *)
(***************************************************************************)
THEOREM Ps2Invariant == Ps2Spec => []Ps2IInv
BY Ps2InitInv, Ps2NextInv, PTL DEF Ps2Spec

--------------------------------------------------------------------------------
(***************************************************************************)
(* Every variable of the driver and its hardware keeps its type.           *)
(***************************************************************************)
THEOREM Ps2TypeCorrect == Ps2Spec => []Ps2TypeOK
<1>1. Ps2IInv => Ps2TypeOK
  BY DEF Ps2IInv
<1>2. QED
  BY <1>1, Ps2Invariant, PTL

(***************************************************************************)
(* The caps state is on after an odd number of caps lock codes, the shift  *)
(* state only while the last shift code handled is a press: for any        *)
(* sequence of codes ps2_handler reads.                                    *)
(***************************************************************************)
THEOREM KeyboardStateFollowsKeys == Ps2Spec => [](CapsFollowsKey /\ ShiftNotStuck)
<1>1. Ps2IInv => CapsFollowsKey /\ ShiftNotStuck
  BY DEF Ps2IInv
<1>2. QED
  BY <1>1, Ps2Invariant, PTL

(***************************************************************************)
(* ps2_handler, which reads the data port without a look at the status,    *)
(* finds a byte there: an interrupt that waits has one, although ps2_init  *)
(* empties the buffer.                                                     *)
(***************************************************************************)
THEOREM HandlerFindsByte == Ps2Spec => []InterruptHasByte
<1>1. Ps2IInv => InterruptHasByte
  BY DEF Ps2IInv
<1>2. QED
  BY <1>1, Ps2Invariant, PTL
================================================================================
