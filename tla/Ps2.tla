---------------------------------- MODULE Ps2 ----------------------------------
(***************************************************************************)
(* The PS/2 keyboard, kern/sys/ps2/ps2.c: ps2_init, the set-up of its      *)
(* interrupt in ps2_int_init (kern/sys/acpi/apic.c), ps2_handler and the   *)
(* shift and caps state.                                                   *)
(*                                                                         *)
(* External parts, as the code uses them: the keyboard has a queue of scan *)
(* codes; the controller has a one-byte output buffer, takes the next code *)
(* when the buffer is empty and the port enabled, and then raises IRQ 1.   *)
(* IRQ 1 is an edge: the I/O APIC drops it while the pin is masked, and an *)
(* interrupt with vector 0 is not accepted by the local APIC, which holds  *)
(* back a further interrupt until the end-of-interrupt command.            *)
(***************************************************************************)
EXTENDS Naturals, Sequences

CONSTANT QUEUE  \* scan codes the keyboard keeps

ASSUME QueueAssumption == QUEUE \in Nat

VARIABLES at,              \* where ps2_int_init is
          j,               \* ps2_init: the status bit its loops test
          queue,           \* the keyboard's scan codes
          shift_down,      \* the left shift key is held down
          port,            \* the first port is enabled
          obuf,            \* the controller's output buffer
          ibuf,            \* a command waits in its input buffer
          testing,         \* the self-test has not been answered yet
          redt,            \* IRQ 1's redirection entry
          pending,         \* vector 33 waits in the local APIC
          in_service,      \* ... or was delivered and not acknowledged
          scancode,        \* what ps2_handler has read, None when not running
          keyboard_state,
          caps_presses,    \* history: parity of the caps lock codes handled
          shift_seen,      \* history: the last shift code handled was a press
          printed,         \* the last character printed
          clean            \* history: nothing waited when set-up was done

None == "none"
LEFT_SHIFT_PRESSED == "shift"
LEFT_SHIFT_RELEASED == "shift_up"
CAPS_LOCK_PRESSED == "caps"
KeyUp == "key_up"        \* a release code, above 0x58
Function == "F1"         \* a code up to 0x58 with no entry in ascii_table
SelfTestPassed == "0x55"

Letters == {"a", "q"}
Codes == Letters \cup {LEFT_SHIFT_PRESSED, LEFT_SHIFT_RELEASED,
                       CAPS_LOCK_PRESSED, KeyUp, Function}
Chars == {"a", "A", "q", None}

device == <<queue, shift_down>>
controller == <<port, obuf, ibuf, testing>>
apic == <<redt, pending, in_service>>
handlerVars == <<scancode, keyboard_state, caps_presses, shift_seen, printed>>
ps2Vars == <<at, j, clean, device, controller, apic, handlerVars>>

Ps2Init ==
  /\ at = "disable" /\ j = 1 /\ clean = FALSE
  /\ queue = <<>> /\ shift_down = FALSE
  /\ port = TRUE /\ obuf \in {None, "a"}
  /\ ibuf = 0 /\ testing = FALSE
  /\ redt = "masked" /\ pending = FALSE /\ in_service = FALSE
  /\ scancode = None /\ keyboard_state = "NORMAL"
  /\ caps_presses = 0 /\ shift_seen = FALSE /\ printed = None

--------------------------------------------------------------------------------
\* IRQ 1 is raised.
Edge == /\ pending' = (pending \/ redt = "vector 33")
        /\ UNCHANGED <<redt, in_service>>

\* A key is pressed, repeats or is released.
Key(code) ==
  /\ Len(queue) < QUEUE
  /\ code = LEFT_SHIFT_RELEASED => shift_down
  /\ queue' = Append(queue, code)
  /\ shift_down' = CASE code = LEFT_SHIFT_PRESSED -> TRUE
                     [] code = LEFT_SHIFT_RELEASED -> FALSE
                     [] OTHER -> shift_down
  /\ UNCHANGED <<at, j, clean, controller, apic, handlerVars>>

\* A key the keyboard has no room for is dropped.
KeyLost == Len(queue) = QUEUE /\ UNCHANGED ps2Vars

\* The controller takes the next scan code.
Transfer ==
  /\ port /\ obuf = None /\ queue # <<>>
  /\ obuf' = Head(queue) /\ queue' = Tail(queue)
  /\ Edge
  /\ UNCHANGED <<at, j, clean, shift_down, port, ibuf, testing, handlerVars>>

\* The controller answers the self-test.
SelfTestReply ==
  /\ testing /\ obuf = None
  /\ obuf' = SelfTestPassed /\ testing' = FALSE
  /\ Edge
  /\ UNCHANGED <<at, j, clean, device, port, ibuf, handlerVars>>

\* The controller is done with a command.
TakeCommand ==
  /\ ibuf = 1 /\ ibuf' = 0
  /\ UNCHANGED <<at, j, clean, device, port, obuf, testing, apic, handlerVars>>

--------------------------------------------------------------------------------
BootStep(from, to) ==
  /\ at = from /\ at' = to
  /\ clean' = (clean \/ (to = "ready" /\ obuf = None /\ ~testing))
  /\ UNCHANGED <<device, pending, in_service, handlerVars>>

\* ps2_init: both ports are disabled.
DisablePorts ==
  /\ BootStep("disable", "flush")
  /\ port' = FALSE /\ ibuf' = 1
  /\ UNCHANGED <<j, obuf, testing, redt>>

\* A round of a "clear buffer" loop: read the data port, then bit 1 of the
\* status, which tells whether a command is waiting.
ClearBuffer(here, next) ==
  \/ /\ j # 0
     /\ BootStep(here, here)
     /\ obuf' = None /\ j' = ibuf
     /\ UNCHANGED <<port, ibuf, testing, redt>>
  \/ /\ j = 0
     /\ BootStep(here, next)
     /\ UNCHANGED <<j, controller, redt>>

\* The self-test command.
StartTest ==
  /\ BootStep("test", "reply")
  /\ testing' = TRUE /\ ibuf' = 1
  /\ UNCHANGED <<j, port, obuf, redt>>

\* inb(PS2_DATA_PORT), without waiting for the answer to be there.
ReadReply ==
  /\ BootStep("reply", "flush again")
  /\ obuf' = None
  /\ UNCHANGED <<j, port, ibuf, testing, redt>>

EnablePort ==
  /\ BootStep("enable", "unmask")
  /\ port' = TRUE /\ ibuf' = 1
  /\ UNCHANGED <<j, obuf, testing, redt>>

\* ps2_int_init: the pin is unmasked with vector 0, then gets its vector.
Unmask ==
  /\ BootStep("unmask", "vector")
  /\ redt' = "vector 0"
  /\ UNCHANGED <<j, controller>>

SetVector ==
  /\ BootStep("vector", "ready")
  /\ redt' = "vector 33"
  /\ UNCHANGED <<j, controller>>

ps2_int_init == \/ DisablePorts
                \/ ClearBuffer("flush", "test")
                \/ StartTest \/ ReadReply
                \/ ClearBuffer("flush again", "enable")
                \/ EnablePort \/ Unmask \/ SetVector

--------------------------------------------------------------------------------
\* Mutant: the case is changed without a look at the character.
toupper_Unchecked(c) == IF c = "a" THEN "A" ELSE "no letter"

\* The switch has a case for every letter but 'q'.
toupper(c) == IF c = "a" THEN "A" ELSE c

\* What ascii_table holds for a code: past its end, anything.
ascii_table(code) == CASE code \in Letters -> {code}
                       [] code \in {Function, SelfTestPassed} -> Chars
                       [] OTHER -> {None}

\* Mutant: caps lock is ignored while shift is held.
StateAfter_ShiftFirst(code, state) ==
  CASE code = LEFT_SHIFT_RELEASED /\ state # "CAPS" -> "NORMAL"
    [] code = CAPS_LOCK_PRESSED /\ state = "CAPS" -> "NORMAL"
    [] code = LEFT_SHIFT_PRESSED /\ state # "CAPS" -> "SHIFT"
    [] code = CAPS_LOCK_PRESSED /\ state = "NORMAL" -> "CAPS"
    [] OTHER -> state

\* Mutant: releasing shift does nothing.
StateAfter_StuckShift(code, state) ==
  CASE code = CAPS_LOCK_PRESSED /\ state = "CAPS" -> "NORMAL"
    [] code = LEFT_SHIFT_PRESSED /\ state # "CAPS" -> "SHIFT"
    [] code = CAPS_LOCK_PRESSED /\ state \in {"NORMAL", "SHIFT"} -> "CAPS"
    [] OTHER -> state

\* keyboard_state after a code, in ps2_handler and ps2_translate2ascii.
StateAfter(code, state) ==
  CASE code = LEFT_SHIFT_RELEASED /\ state # "CAPS" -> "NORMAL"
    [] code = CAPS_LOCK_PRESSED /\ state = "CAPS" -> "NORMAL"
    [] code = LEFT_SHIFT_PRESSED /\ state # "CAPS" -> "SHIFT"
    [] code = CAPS_LOCK_PRESSED /\ state \in {"NORMAL", "SHIFT"} -> "CAPS"
    [] OTHER -> state

\* The character a code stands for, None (0) for none.
ps2_translate2ascii(code) ==
  {IF keyboard_state \in {"SHIFT", "CAPS"} THEN toupper(c) ELSE c :
     c \in ascii_table(code)}

\* Vector 33 is delivered and the handler reads the scan code.
Interrupt ==
  /\ pending /\ ~in_service
  /\ pending' = FALSE /\ in_service' = TRUE
  /\ scancode' = obuf /\ obuf' = None
  /\ UNCHANGED <<at, j, clean, device, port, ibuf, testing, redt, keyboard_state,
                 caps_presses, shift_seen, printed>>

\* Mutant: no end-of-interrupt on the path that turns caps lock off.
apic_eoi_Missing ==
  in_service' = (scancode = CAPS_LOCK_PRESSED /\ keyboard_state = "CAPS")

\* apic_eoi(): on every path out of ps2_handler.
apic_eoi == in_service' = FALSE

\* Mutant: the handler reads the data port a second time.
reads_Twice == obuf' = None

\* The rest of the handler reads nothing more.
reads == UNCHANGED obuf

ps2_handler ==
  /\ scancode # None
  /\ keyboard_state' = StateAfter(scancode, keyboard_state)
  /\ \E c \in ps2_translate2ascii(scancode) :
       printed' = IF c = None THEN printed ELSE c
  /\ caps_presses' = (IF scancode = CAPS_LOCK_PRESSED THEN caps_presses + 1
                                                      ELSE caps_presses) % 2
  /\ shift_seen' = CASE scancode = LEFT_SHIFT_PRESSED -> TRUE
                     [] scancode = LEFT_SHIFT_RELEASED -> FALSE
                     [] OTHER -> shift_seen
  /\ scancode' = None
  /\ apic_eoi
  /\ reads
  /\ UNCHANGED <<at, j, clean, device, port, ibuf, testing, redt, pending>>

Ps2Next == \/ \E code \in Codes : Key(code)
           \/ KeyLost \/ Transfer \/ SelfTestReply \/ TakeCommand
           \/ ps2_int_init
           \/ Interrupt \/ ps2_handler

\* The hardware and the processor make progress; nobody has to press a key.
Ps2Spec ==
  /\ Ps2Init /\ [][Ps2Next]_ps2Vars
  /\ WF_ps2Vars(Transfer) /\ WF_ps2Vars(SelfTestReply)
  /\ WF_ps2Vars(TakeCommand)
  /\ WF_ps2Vars(ps2_int_init)
  /\ WF_ps2Vars(Interrupt) /\ WF_ps2Vars(ps2_handler)

--------------------------------------------------------------------------------
FlagTypes ==
  /\ shift_down \in BOOLEAN /\ port \in BOOLEAN /\ testing \in BOOLEAN
  /\ pending \in BOOLEAN /\ in_service \in BOOLEAN /\ clean \in BOOLEAN

DataTypes ==
  /\ at \in {"disable", "flush", "test", "reply", "flush again", "enable",
             "unmask", "vector", "ready"}
  /\ j \in 0 .. 1 /\ ibuf \in 0 .. 1 /\ Len(queue) <= QUEUE
  /\ obuf \in Codes \cup {None, SelfTestPassed}
  /\ scancode \in Codes \cup {None, SelfTestPassed}
  /\ redt \in {"masked", "vector 0", "vector 33"}
  /\ keyboard_state \in {"NORMAL", "SHIFT", "CAPS"} /\ printed \in Chars

Ps2TypeOK == FlagTypes /\ DataTypes

(***************************************************************************)
(* The caps state follows the caps lock codes whatever is typed between    *)
(* them, shift held or not: it is on after an odd number of them.          *)
(***************************************************************************)
CapsFollowsKey == (keyboard_state = "CAPS") <=> (caps_presses = 1)

(***************************************************************************)
(* The shift state never outlives the key: it is on only while the last    *)
(* code of the shift key that was handled is a press, also when caps lock  *)
(* was switched in between.                                                *)
(***************************************************************************)
ShiftNotStuck == keyboard_state = "SHIFT" => shift_seen

(***************************************************************************)
(* An interrupt that waits for delivery has its scan code in the output    *)
(* buffer: the handler never reads an empty or a stale buffer.             *)
(***************************************************************************)
InterruptHasByte == pending => obuf # None

(***************************************************************************)
(* Every scan code in the controller is read in the end, so the keyboard   *)
(* goes on, if no key and no late answer to the self-test stood in the     *)
(* output buffer when set-up was done.                                     *)
(***************************************************************************)
KeyboardAlive == (clean /\ obuf # None) ~> (obuf = None)

--------------------------------------------------------------------------------
(***************************************************************************)
(* apic.c:183 reports "PS/2 keyboard initalized".  From then on every scan *)
(* code in the controller is read in the end, whatever happened before.    *)
(***************************************************************************)
InitializedMeansAlive == (at = "ready" /\ obuf # None) ~> (obuf = None)

================================================================================
