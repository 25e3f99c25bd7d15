---------------------------------- MODULE Isr ----------------------------------
(***************************************************************************)
(* The descriptors gdt_init and idt_init build (kern/sys/gdt.c,            *)
(* kern/sys/idt.c), interrupt entry and exit through them                  *)
(* (kern/sys/idt.asm), and the dispatch in exception_handler.              *)
(*                                                                         *)
(* A value on the stack is named after what it was saved from (a register, *)
(* the processor's error code "err", the number "int_no" of the vector, a  *)
(* "dummy" error code), so what matters is where each one ends up.  The    *)
(* first element of stack is its top.  The processor's part is external.   *)
(***************************************************************************)
EXTENDS Naturals, Sequences, SequencesExt, TLC

CONSTANT HALF  \* values of 16 bits of an address (2^16)

VARIABLES at,        \* the part of the entry or exit code that runs
          idt,       \* the gates set so far
          vector,    \* the interrupt being handled
          isr,       \* the vector whose stub was entered
          stack,     \* what is on the stack above the interrupted code
          regs,      \* the general registers
          called,    \* what exception_handler did
          resumed    \* what iretq loaded

isrVars == <<at, idt, vector, isr, stack, regs, called, resumed>>

\* The vectors that calibrate_timer and ps2_int_init give to their interrupts.
TimerVector == 172
KeyboardVector == 33

\* The gates idt_init sets.
Vectors == 0 .. 31 \cup {33, 172}

\* Vectors for which the processor pushes an error code (three more do with
\* features that the kernel does not enable).
ErrorVectors == {8, 10, 11, 12, 13, 14, 17}

\* Vectors whose stub pushes no dummy error code.
NoDummy == {8, 10, 11, 12, 13, 14}

pushaq == <<"rax", "rbx", "rcx", "rdx", "rbp", "rsi", "rdi", "r8", "r9", "r10",
            "r11", "r12", "r13", "r14", "r15">>

\* Mutant: rsi and rdi are popped in the order they were pushed.
popaq_Swapped == <<"r15", "r14", "r13", "r12", "r11", "r10", "r9", "r8", "rsi",
                   "rdi", "rbp", "rdx", "rcx", "rbx", "rax">>

popaq == <<"r15", "r14", "r13", "r12", "r11", "r10", "r9", "r8", "rdi", "rsi",
           "rbp", "rdx", "rcx", "rbx", "rax">>

int_frame == <<"r15", "r14", "r13", "r12", "r11", "r10", "r9", "r8", "rdi",
               "rsi", "rbp", "rdx", "rcx", "rbx", "rax", "int_no", "err",
               "rip", "cs", "ss", "rsp", "rflags">>

Registers == ToSet(pushaq)
Interrupted == [r \in Registers |-> r]
CpuFrame == <<"rip", "cs", "rflags", "rsp", "ss">>

\* What a called C function may overwrite.
CallerSaved == {"rax", "rcx", "rdx", "rsi", "rdi", "r8", "r9", "r10", "r11"}

IsrInit ==
  /\ at = "gdt_init" /\ idt = <<>> /\ vector = 0 /\ isr = 0 /\ stack = <<>>
  /\ regs = Interrupted /\ called = "none" /\ resumed = CpuFrame

--------------------------------------------------------------------------------
\* gdt_set_entry; segments have base 0, of their limit the top four bits count.
gdt_set_entry(limit_high, access, flags) ==
  [access |-> access, granularity |-> limit_high + 16 * (flags % 16)]

\* Null, kernel code and data, user code and data, TSS, by selector.
gdt == 0 :> gdt_set_entry(0, 0, 0)
    @@ 8 :> gdt_set_entry(15, 154, 10) @@ 16 :> gdt_set_entry(15, 146, 10)
    @@ 24 :> gdt_set_entry(15, 250, 10) @@ 32 :> gdt_set_entry(15, 242, 10)
    @@ 40 :> gdt_set_entry(0, 137, 0)

\* External: what the processor demands of a descriptor.
Bit(byte, n) == (byte \div 2 ^ n) % 2
Present(d) == Bit(d.access, 7) = 1
KernelCode(d) == /\ Present(d) /\ Bit(d.access, 5) = 0 /\ Bit(d.access, 6) = 0
                 /\ Bit(d.access, 4) = 1 /\ Bit(d.access, 3) = 1
                 /\ Bit(d.granularity, 5) = 1 /\ Bit(d.granularity, 6) = 0
KernelData(d) == /\ Present(d) /\ Bit(d.access, 4) = 1 /\ Bit(d.access, 3) = 0
                 /\ Bit(d.access, 1) = 1
AvailableTss(d) == Present(d) /\ (d.access % 32) = 9

\* gdt_init: s_setgdt loads the data and code selectors, s_settss the TSS.
gdt_init ==
  /\ at = "gdt_init"
  /\ at' = IF KernelData(gdt[16]) /\ KernelCode(gdt[8]) /\ AvailableTss(gdt[40])
             THEN "idt_init" ELSE "fault"
  /\ UNCHANGED <<idt, vector, isr, stack, regs, called, resumed>>

\* External: where the linker puts the stubs; the parts of an address differ.
isr_address(v) == HALF * HALF * (v \div 16) + HALF * ((v + 5) % 16) + (v % 16)

\* Mutant: the middle part is shifted like the high one.
isr_mid_High(a) == (a \div (HALF * HALF)) % HALF

isr_mid(a) == (a \div HALF) % HALF

\* A gate, with the address in three parts.
idt_set_gate(a, flags) ==
  [kernel_cs |-> 8, ist |-> 0, attributes |-> flags,
   isr_low |-> a % HALF, isr_mid |-> isr_mid(a), isr_high |-> a \div (HALF * HALF)]

\* All gates are set, with flags 0x8E, then idt_load.
idt_init ==
  /\ at = "idt_init" /\ at' = "running"
  /\ idt' = [v \in Vectors |-> idt_set_gate(isr_address(v), 142)]
  /\ UNCHANGED <<vector, isr, stack, regs, called, resumed>>

--------------------------------------------------------------------------------
\* External: the address the processor puts together from a gate.
Target(gate) == gate.isr_low + HALF * gate.isr_mid + HALF * HALF * gate.isr_high
NoStub == 256

\* External: a gate that is present, not for a task or a call, and that switches
\* interrupts off and stays on the stack; another one faults, or lets the next
\* interrupt in before the registers are saved.
InterruptGate(gate) ==
  /\ Bit(gate.attributes, 7) = 1 /\ gate.attributes % 32 = 14 /\ gate.ist = 0
  /\ gate.kernel_cs \in DOMAIN gdt /\ KernelCode(gdt[gate.kernel_cs])

\* The processor takes the interrupt through its gate.
Deliver(v) ==
  /\ at = "running"
  /\ at' = (IF InterruptGate(idt[v]) THEN "stub" ELSE "fault")
  /\ vector' = v
  /\ isr' = IF \E w \in Vectors : isr_address(w) = Target(idt[v])
              THEN CHOOSE w \in Vectors : isr_address(w) = Target(idt[v]) ELSE NoStub
  /\ stack' = (IF v \in ErrorVectors THEN <<"err">> ELSE <<>>) \o CpuFrame
  /\ called' = "none" /\ resumed' = <<>>
  /\ UNCHANGED <<idt, regs>>

\* s_isrN: a dummy error code unless there is one, then the number.
stub ==
  /\ at = "stub" /\ at' = "push"
  /\ stack' = <<"int_no">> \o (IF isr \in NoDummy THEN <<>> ELSE <<"dummy">>)
                           \o stack
  /\ UNCHANGED <<idt, vector, isr, regs, called, resumed>>

Pushed == Len(SelectSeq(stack, LAMBDA x : x \in Registers))

isr_push ==
  /\ at = "push"
  /\ IF Pushed < Len(pushaq)
       THEN stack' = <<regs[pushaq[Pushed + 1]]>> \o stack /\ UNCHANGED at
       ELSE at' = "call" /\ UNCHANGED stack
  /\ UNCHANGED <<idt, vector, isr, regs, called, resumed>>

\* What exception_handler reads as the field f of its argument.
Field(f) == stack[CHOOSE k \in 1 .. Len(int_frame) : int_frame[k] = f]

\* r->int_no: the number the stub pushed where it put it, else another value.
int_no == IF Field("int_no") = "int_no" THEN isr ELSE 0

\* Exceptions are reported and the processor stops.  The two handlers return and
\* leave the frame alone.
exception_handler ==
  /\ at = "call"
  /\ called' = CASE int_no < 32 -> "report"
                 [] int_no = 172 -> "apic_timer"
                 [] int_no = 33 -> "ps2_handler"
                 [] OTHER -> "nothing"
  /\ at' = IF int_no < 32 THEN "halted" ELSE "pop"
  /\ regs' = [r \in Registers |-> IF r \in CallerSaved THEN "junk" ELSE regs[r]]
  /\ UNCHANGED <<idt, vector, isr, stack, resumed>>

isr_pop ==
  LET popped == Len(pushaq) - Pushed IN
  /\ at = "pop"
  /\ IF popped < Len(popaq)
       THEN /\ regs' = [regs EXCEPT ![popaq[popped + 1]] = Head(stack)]
            /\ stack' = Tail(stack)
            /\ UNCHANGED at
       ELSE at' = "iret" /\ UNCHANGED <<regs, stack>>
  /\ UNCHANGED <<idt, vector, isr, called, resumed>>

\* add rsp, 16: the number and the error code.
Dropped == 2

iretq ==
  LET top == SubSeq(stack, Dropped + 1, Len(stack)) IN
  /\ at = "iret" /\ at' = "running"
  /\ resumed' = SubSeq(top, 1, 5)
  /\ stack' = SubSeq(top, 6, Len(top))
  /\ UNCHANGED <<idt, vector, isr, regs, called>>

Halted == at = "halted" /\ UNCHANGED isrVars

IsrNext == \/ gdt_init \/ idt_init
           \/ \E v \in Vectors : Deliver(v)
           \/ stub \/ isr_push \/ exception_handler \/ isr_pop \/ iretq
           \/ Halted

IsrSpec == IsrInit /\ [][IsrNext]_isrVars

--------------------------------------------------------------------------------
(***************************************************************************)
(* An interrupt is invisible to the code it interrupts: when that goes on, *)
(* every general register and everything iretq loads is what it was, and   *)
(* nothing is left on the stack.                                           *)
(***************************************************************************)
InterruptTransparent ==
  at = "running" => regs = Interrupted /\ resumed = CpuFrame /\ stack = <<>>

\* What the interrupt of a vector is for.
HandlerOf(v) == CASE v = TimerVector -> "apic_timer"
                  [] v = KeyboardVector -> "ps2_handler"
                  [] OTHER -> "report"

\* What the fields of struct int_frame should hold: the error code of a vector
\* that has none is the stub's.
Meant(f) == IF f = "err" /\ vector \notin ErrorVectors THEN "dummy" ELSE f

\* The fields that are wrong: ss and rflags stand in each other's place in idt.h,
\* and the stub of vector 17 pushes a dummy although there is an error code.
Misplaced == {"ss", "rflags"} \cup
             (IF vector = 17 THEN {"err", "rip", "cs", "rsp"} ELSE {})

(***************************************************************************)
(* Every vector reaches its handler.  The processor accepts the            *)
(* descriptors as gdt_set_entry packs them, when gdt_init loads their      *)
(* selectors and when a gate refers to one, and the gate as idt_set_gate   *)
(* fills it; the gate, which holds the address of the stub in three parts, *)
(* leads to that vector's own stub.  The handler then reads the vector     *)
(* that was raised and, in the fields of struct int_frame, what they are   *)
(* named for, except those in Misplaced: ss and rflags, for vector 17 also *)
(* err, rip, cs and rsp.  And it calls what the interrupt is for: the      *)
(* vectors exception_handler tests for are those apic.c programs.          *)
(***************************************************************************)
VectorReachesHandler ==
  /\ at # "fault"
  /\ at = "call" => /\ int_no = vector
                    /\ \A f \in ToSet(int_frame) \ Misplaced : Field(f) = Meant(f)
  /\ at \in {"halted", "pop", "iret"} => called = HandlerOf(vector)
================================================================================
