------------------------------- MODULE StringLib -------------------------------
(***************************************************************************)
(* memcpy, memset, memmove, memcmp and strlen, kern/include/string.c: one  *)
(* call on a small memory, a round of its loop at a time.                  *)
(***************************************************************************)
EXTENDS Integers

CONSTANTS SIZE,      \* bytes of memory
          BYTE_MOD,  \* values of a byte (256)
          Fills      \* ints passed to memset

ASSUME MemoryAssumption ==
  SIZE \in Nat /\ BYTE_MOD \in Nat \ {0} /\ Fills \subseteq Int

VARIABLES fn,     \* the function called
          loop,   \* whether it has still to return
          call,   \* its arguments: destination, source, length
          mem,    \* the memory
          pos,    \* the loop's counter
          ret,    \* the value returned
          old     \* history: the memory when the function was called

stringVars == <<fn, loop, call, mem, pos, ret, old>>

Addresses == 0 .. SIZE - 1
Memories == [Addresses -> 0 .. BYTE_MOD - 1]
Bytes(p, n) == p .. p + n - 1

\* Arguments a caller may pass: both areas lie in memory.
Arguments == {c \in [dest : 0 .. SIZE, src : 0 .. SIZE, n : 0 .. SIZE] :
                c.dest + c.n <= SIZE /\ c.src + c.n <= SIZE}

StringInit == /\ fn = "none" /\ loop = FALSE /\ pos = 0 /\ ret = 0
              /\ call = [dest |-> 0, src |-> 0, n |-> 0]
              /\ mem \in Memories /\ old = mem

--------------------------------------------------------------------------------
Enter(f, c, first) ==
  /\ ~loop /\ loop' = TRUE
  /\ fn' = f /\ call' = c /\ pos' = first /\ old' = mem
  /\ UNCHANGED <<mem, ret>>

Return(value) == loop' = FALSE /\ ret' = value /\ UNCHANGED <<fn, call, mem, pos, old>>

\* A round of a loop that counts up, or down, and stores v at p.
Store(p, v, step) ==
  /\ mem' = [mem EXCEPT ![p] = v]
  /\ pos' = pos + step
  /\ UNCHANGED <<fn, loop, call, ret, old>>

CopyUp == Store(call.dest + pos, mem[call.src + pos], 1)
CopyDown == Store(call.dest + pos - 1, mem[call.src + pos - 1], -1)

\* The areas memcpy is called with do not overlap.
CallMemcpy ==
  \E c \in Arguments :
    /\ Bytes(c.dest, c.n) \cap Bytes(c.src, c.n) = {}
    /\ Enter("memcpy", c, 0)

memcpy ==
  /\ loop /\ fn = "memcpy"
  /\ \/ pos < call.n /\ CopyUp
     \/ pos >= call.n /\ Return(call.dest)

AsByte(v) == v % BYTE_MOD

\* The int is passed in the place of a source.
CallMemset ==
  \E c \in Arguments, v \in Fills :
    c.src = 0 /\ Enter("memset", [c EXCEPT !.src = v], 0)

memset ==
  /\ loop /\ fn = "memset"
  /\ \/ pos < call.n /\ Store(call.dest + pos, AsByte(call.src), 1)
     \/ pos >= call.n /\ Return(call.dest)

\* Mutant: always from the first byte to the last.
Upwards_Always(c) == TRUE

\* src > dest
Upwards(c) == c.src > c.dest

CallMemmove ==
  \E c \in Arguments : Enter("memmove", c, IF Upwards(c) THEN 0 ELSE c.n)

memmove ==
  /\ loop /\ fn = "memmove"
  /\ \/ call.src = call.dest /\ Return(call.dest)
     \/ /\ call.src # call.dest /\ Upwards(call)
        /\ \/ pos < call.n /\ CopyUp
           \/ pos >= call.n /\ Return(call.dest)
     \/ /\ call.src # call.dest /\ ~Upwards(call)
        /\ \/ pos > 0 /\ CopyDown
           \/ pos = 0 /\ Return(call.dest)

Count == pos' = pos + 1 /\ UNCHANGED <<fn, loop, call, mem, ret, old>>

CallMemcmp == \E c \in Arguments : Enter("memcmp", c, 0)

memcmp ==
  LET p1 == call.dest + pos  p2 == call.src + pos IN
  /\ loop /\ fn = "memcmp"
  /\ \/ pos >= call.n /\ Return(0)
     \/ pos < call.n /\ mem[p1] # mem[p2] /\ Return(IF mem[p1] < mem[p2] THEN -1 ELSE 1)
     \/ pos < call.n /\ mem[p1] = mem[p2] /\ Count

\* strlen is called on a string that ends.
CallStrlen ==
  \E c \in Arguments :
    /\ \E p \in Bytes(c.dest, SIZE - c.dest) : mem[p] = 0
    /\ c.src = 0 /\ c.n = 0 /\ Enter("strlen", c, 0)

strlen ==
  /\ loop /\ fn = "strlen"
  /\ \/ mem[call.dest + pos] # 0 /\ Count
     \/ mem[call.dest + pos] = 0 /\ Return(pos)

StringNext ==
  \/ CallMemcpy \/ memcpy \/ CallMemset \/ memset \/ CallMemmove \/ memmove
  \/ CallMemcmp \/ memcmp \/ CallStrlen \/ strlen

StringSpec == StringInit /\ [][StringNext]_stringVars

--------------------------------------------------------------------------------
Returned(fns) == ~loop /\ fn \in fns

(***************************************************************************)
(* memcpy, memmove and memset leave in the destination what the source     *)
(* held when they were called (memmove also when the two areas overlap),   *)
(* or the int cut to a byte, and change no other byte.  memcmp orders      *)
(* areas by the first byte in which they differ, and strlen is the         *)
(* distance to the first zero byte.                                        *)
(***************************************************************************)
KeepPromises ==
  /\ Returned({"memcpy", "memmove"}) =>
       mem = [p \in Addresses |-> IF p \in Bytes(call.dest, call.n)
                                   THEN old[call.src + (p - call.dest)] ELSE old[p]]
  /\ Returned({"memset"}) =>
       mem = [p \in Addresses |-> IF p \in Bytes(call.dest, call.n)
                                   THEN call.src % BYTE_MOD ELSE old[p]]
  /\ Returned({"memcmp"}) =>
       LET differ == {k \in 0 .. call.n - 1 : old[call.dest + k] # old[call.src + k]}
       IN  IF differ = {} THEN ret = 0
           ELSE \E k \in differ : /\ \A m \in differ : k <= m
                                  /\ (ret < 0) = (old[call.dest + k] < old[call.src + k])
                                  /\ ret # 0
  /\ Returned({"strlen"}) =>
       /\ old[call.dest + ret] = 0
       /\ \A k \in 0 .. ret - 1 : old[call.dest + k] # 0
================================================================================
