---------------------------- MODULE StringLibProofs ----------------------------
(***************************************************************************)
(* Proofs about memcpy, memset, memmove, memcmp and strlen, for a memory   *)
(* of any size, any content and any arguments a caller may pass: the       *)
(* invariants of their loops.                                              *)
(***************************************************************************)
EXTENDS StringLib, TLAPS

USE MemoryAssumption DEF MemoryAssumption

CallInv ==
  /\ call \in [dest : 0 .. SIZE, src : Int, n : 0 .. SIZE]
  /\ call.dest + call.n <= SIZE
  /\ fn # "memset" => call.src \in 0 .. SIZE /\ call.src + call.n <= SIZE

MemInv == mem \in Memories /\ old \in Memories /\ pos \in Int

\* The bytes from the first to before the last of the destination are copied
\* from where they were in the source, and no others have changed.
Copied(first, last) ==
  \A p \in Addresses :
    mem[p] = IF call.dest + first <= p /\ p < call.dest + last
               THEN old[call.src + (p - call.dest)] ELSE old[p]

Filled(last) ==
  \A p \in Addresses :
    mem[p] = IF call.dest <= p /\ p < call.dest + last
               THEN call.src % BYTE_MOD ELSE old[p]

Equal(last) == \A k \in 0 .. last - 1 : old[call.dest + k] = old[call.src + k]
NoZero(last) == \A k \in 0 .. last - 1 : old[call.dest + k] # 0

MemcpyLoop ==
  loop /\ fn = "memcpy" =>
    /\ Bytes(call.dest, call.n) \cap Bytes(call.src, call.n) = {}
    /\ pos \in 0 .. call.n /\ Copied(0, pos)

\* memmove copies upwards or downwards.
MemmoveLoop ==
  loop /\ fn = "memmove" =>
    /\ pos \in 0 .. call.n
    /\ IF Upwards(call) THEN Copied(0, pos) ELSE Copied(pos, call.n)
    /\ call.src = call.dest => pos = call.n

MemsetLoop == loop /\ fn = "memset" => pos \in 0 .. call.n /\ Filled(pos)
MemcmpLoop == loop /\ fn = "memcmp" => pos \in 0 .. call.n /\ mem = old /\ Equal(pos)
StrlenLoop ==
  loop /\ fn = "strlen" =>
    /\ mem = old /\ pos \in Nat /\ NoZero(pos)
    /\ \E p \in Addresses : p >= call.dest + pos /\ old[p] = 0

StringIInv ==
  /\ loop \in BOOLEAN /\ CallInv /\ MemInv /\ KeepPromises
  /\ MemcpyLoop /\ MemmoveLoop /\ MemsetLoop /\ MemcmpLoop /\ StrlenLoop

--------------------------------------------------------------------------------
\* The functions that are called.
Functions == {"memcpy", "memset", "memmove", "memcmp", "strlen"}

\* A call starts its loop at the first byte, or memmove at the last.
LEMMA EnterInv ==
  ASSUME StringIInv, NEW f \in Functions, NEW c, NEW first \in 0 .. c.n, Enter(f, c, first),
         c \in [dest : 0 .. SIZE, src : Int, n : 0 .. SIZE], c.dest + c.n <= SIZE,
         f # "memset" => c.src \in 0 .. SIZE /\ c.src + c.n <= SIZE,
         f = "memcpy" => Bytes(c.dest, c.n) \cap Bytes(c.src, c.n) = {},
         f = "memmove" => first = (IF Upwards(c) THEN 0 ELSE c.n),
         f # "memmove" => first = 0,
         f = "strlen" => \E p \in Addresses : p >= c.dest /\ mem[p] = 0
  PROVE  StringIInv'
<1>1. /\ loop' = TRUE /\ fn' = f /\ call' = c /\ pos' = first /\ old' = mem /\ mem' = mem
  BY DEF Enter
<1>2. CallInv'
  BY <1>1 DEF CallInv
<1>3. MemInv'
  BY <1>1 DEF StringIInv, MemInv
<1>4. KeepPromises'
  BY <1>1 DEF KeepPromises, Returned
<1>5. /\ c.n \in 0 .. SIZE /\ c.dest \in 0 .. SIZE /\ 0 \in 0 .. c.n /\ first \in 0 .. c.n
      /\ \A p \in Addresses : ~(c.dest + 0 <= p /\ p < c.dest + 0)
      /\ \A p \in Addresses : ~(c.dest + c.n <= p /\ p < c.dest + c.n)
  BY DEF Addresses
<1>6. (f # "memmove" \/ Upwards(c)) /\ f # "memset" => Copied(0, pos)'
  <2> SUFFICES ASSUME f # "memmove" \/ Upwards(c)
               PROVE  Copied(0, pos)'
    OBVIOUS
  <2>1. first = 0
    OBVIOUS
  <2>2. QED
    BY <1>1, <1>5, <2>1 DEF Copied
<1>7. /\ MemcpyLoop' /\ MemmoveLoop' /\ MemsetLoop' /\ MemcmpLoop'
  <2>1. MemcpyLoop'
    BY <1>1, <1>5, <1>6 DEF MemcpyLoop
  <2>2. MemmoveLoop'
    <3> SUFFICES ASSUME f = "memmove" PROVE MemmoveLoop'
      BY <1>1 DEF MemmoveLoop
    <3>1. c.src = c.dest => ~Upwards(c)
      BY DEF Upwards
    <3>2. CASE Upwards(c)
      BY <1>1, <1>5, <1>6, <3>1, <3>2 DEF MemmoveLoop, Upwards
    <3>3. CASE ~Upwards(c)
      <4>1. first = c.n
        BY <3>3
      <4>2. Copied(pos, call.n)'
        BY <1>1, <1>5, <4>1 DEF Copied
      <4>3. QED
        BY <1>1, <1>5, <3>3, <4>1, <4>2 DEF MemmoveLoop, Upwards
    <3>4. QED
      BY <3>2, <3>3
  <2>3. MemsetLoop'
    <3> SUFFICES ASSUME f = "memset" PROVE MemsetLoop'
      BY <1>1 DEF MemsetLoop
    <3>1. \A p \in Addresses : ~(c.dest <= p /\ p < c.dest + 0)
      BY <1>5 DEF Addresses
    <3>2. QED
      BY <1>1, <1>5, <3>1 DEF MemsetLoop, Filled
  <2>4. MemcmpLoop'
    BY <1>1, <1>5 DEF MemcmpLoop, Equal
  <2>5. QED
    BY <2>1, <2>2, <2>3, <2>4
<1>8. StrlenLoop'
  BY <1>1 DEF StrlenLoop, NoZero
<1>9. QED
  BY <1>1, <1>2, <1>3, <1>4, <1>7, <1>8 DEF StringIInv

\* The return of a function whose promise is kept.
LEMMA ReturnInv ==
  ASSUME StringIInv, NEW value, Return(value), KeepPromises'
  PROVE  StringIInv'
<1>1. loop' = FALSE /\ UNCHANGED <<fn, call, mem, pos, old>>
  BY DEF Return
<1>2. CallInv' /\ MemInv'
  BY <1>1 DEF StringIInv, CallInv, MemInv
<1>3. MemcpyLoop' /\ MemmoveLoop' /\ MemsetLoop' /\ MemcmpLoop' /\ StrlenLoop'
  BY <1>1 DEF MemcpyLoop, MemmoveLoop, MemsetLoop, MemcmpLoop, StrlenLoop
<1>4. QED
  BY <1>1, <1>2, <1>3 DEF StringIInv

\* What a round of a loop that stores leaves to show.
LEMMA StoreInv ==
  ASSUME StringIInv, loop, NEW p \in Addresses, NEW v \in 0 .. BYTE_MOD - 1,
         NEW d \in Int, Store(p, v, d),
         fn \in {"memcpy", "memset", "memmove"},
         MemcpyLoop', MemmoveLoop', MemsetLoop'
  PROVE  StringIInv'
<1>1. /\ mem' = [mem EXCEPT ![p] = v] /\ pos' = pos + d
      /\ UNCHANGED <<fn, loop, call, ret, old>>
  BY DEF Store
<1>2. CallInv'
  BY <1>1 DEF StringIInv, CallInv
<1>3. MemInv'
  BY <1>1 DEF StringIInv, MemInv, Memories
<1>4. KeepPromises' /\ MemcmpLoop' /\ StrlenLoop' /\ loop' \in BOOLEAN
  BY <1>1 DEF StringIInv, KeepPromises, Returned, MemcmpLoop, StrlenLoop
<1>5. QED
  BY <1>2, <1>3, <1>4 DEF StringIInv

--------------------------------------------------------------------------------
\* A round that copies upwards copies one byte more, if the byte it reads has
\* not been overwritten yet.
LEMMA CopyUpInv ==
  ASSUME StringIInv, fn # "memset", pos \in 0 .. call.n - 1, Copied(0, pos), CopyUp,
         ~(call.dest <= call.src + pos /\ call.src + pos < call.dest + pos)
  PROVE  /\ Copied(0, pos)' /\ pos' = pos + 1 /\ UNCHANGED <<fn, loop, call, old>>
         /\ call.dest + pos \in Addresses
         /\ mem[call.src + pos] \in 0 .. BYTE_MOD - 1
<1>1. /\ call.dest \in 0 .. SIZE /\ call.src \in 0 .. SIZE /\ call.n \in 0 .. SIZE
      /\ call.dest + call.n <= SIZE /\ call.src + call.n <= SIZE
  BY DEF StringIInv, CallInv
<1>2. call.dest + pos \in Addresses /\ call.src + pos \in Addresses
  BY <1>1 DEF Addresses
<1>3. /\ mem \in [Addresses -> 0 .. BYTE_MOD - 1]
      /\ old \in [Addresses -> 0 .. BYTE_MOD - 1]
  BY DEF StringIInv, MemInv, Memories
<1>4. /\ mem' = [mem EXCEPT ![call.dest + pos] = mem[call.src + pos]] /\ pos' = pos + 1
      /\ UNCHANGED <<fn, loop, call, old>>
  BY DEF CopyUp, Store
<1>5. mem[call.src + pos] = old[call.src + pos]
  BY <1>1, <1>2 DEF Copied
<1>6. Copied(0, pos)'
  <2> SUFFICES ASSUME NEW p \in Addresses
               PROVE  mem'[p] = IF call.dest + 0 <= p /\ p < call.dest + pos'
                                  THEN old[call.src + (p - call.dest)] ELSE old[p]
    BY <1>4 DEF Copied
  <2>1. p \in Int /\ pos \in Int /\ call.dest \in Int /\ call.src \in Int
    BY <1>1 DEF Addresses
  <2>2. CASE p = call.dest + pos
    <3>1. mem'[p] = old[call.src + pos]
      BY <1>2, <1>3, <1>4, <1>5, <2>2
    <3>2. call.src + (p - call.dest) = call.src + pos
      BY <2>1, <2>2
    <3>3. call.dest + 0 <= p /\ p < call.dest + pos'
      BY <1>1, <1>4, <2>1, <2>2
    <3>4. QED
      BY <3>1, <3>2, <3>3
  <2>3. CASE p # call.dest + pos
    <3>1. mem'[p] = mem[p]
      BY <1>2, <1>3, <1>4, <2>3
    <3>2. p < call.dest + pos' <=> p < call.dest + pos
      BY <1>4, <2>1, <2>3
    <3>3. QED
      BY <3>1, <3>2 DEF Copied
  <2>4. QED
    BY <2>2, <2>3
<1>7. QED
  BY <1>2, <1>3, <1>4, <1>6

\* The same for a round that copies downwards.
LEMMA CopyDownInv ==
  ASSUME StringIInv, fn # "memset", pos \in 1 .. call.n, Copied(pos, call.n), CopyDown,
         call.src < call.dest
  PROVE  /\ Copied(pos, call.n)' /\ pos' = pos - 1 /\ UNCHANGED <<fn, loop, call, old>>
         /\ call.dest + pos - 1 \in Addresses
         /\ mem[call.src + pos - 1] \in 0 .. BYTE_MOD - 1
<1>1. /\ call.dest \in 0 .. SIZE /\ call.src \in 0 .. SIZE /\ call.n \in 0 .. SIZE
      /\ call.dest + call.n <= SIZE /\ call.src + call.n <= SIZE
  BY DEF StringIInv, CallInv
<1>2. call.dest + pos - 1 \in Addresses /\ call.src + pos - 1 \in Addresses
  BY <1>1 DEF Addresses
<1>3. /\ mem \in [Addresses -> 0 .. BYTE_MOD - 1]
      /\ old \in [Addresses -> 0 .. BYTE_MOD - 1]
  BY DEF StringIInv, MemInv, Memories
<1>4. /\ mem' = [mem EXCEPT ![call.dest + pos - 1] = mem[call.src + pos - 1]]
      /\ pos' = pos - 1 /\ UNCHANGED <<fn, loop, call, old>>
  BY <1>1 DEF CopyDown, Store
<1>5. mem[call.src + pos - 1] = old[call.src + pos - 1]
  BY <1>1, <1>2 DEF Copied
<1>6. Copied(pos, call.n)'
  <2> SUFFICES ASSUME NEW p \in Addresses
               PROVE  mem'[p] = IF call.dest + pos' <= p /\ p < call.dest + call.n
                                  THEN old[call.src + (p - call.dest)] ELSE old[p]
    BY <1>4 DEF Copied
  <2>1. p \in Int /\ pos \in Int /\ call.dest \in Int /\ call.src \in Int
    BY <1>1 DEF Addresses
  <2>2. CASE p = call.dest + pos - 1
    <3>1. mem'[p] = old[call.src + pos - 1]
      BY <1>2, <1>3, <1>4, <1>5, <2>2
    <3>2. call.src + (p - call.dest) = call.src + pos - 1
      BY <2>1, <2>2
    <3>3. call.dest + pos' <= p /\ p < call.dest + call.n
      BY <1>1, <1>4, <2>1, <2>2
    <3>4. QED
      BY <3>1, <3>2, <3>3
  <2>3. CASE p # call.dest + pos - 1
    <3>1. mem'[p] = mem[p]
      BY <1>2, <1>3, <1>4, <2>3
    <3>2. call.dest + pos' <= p <=> call.dest + pos <= p
      BY <1>4, <2>1, <2>3
    <3>3. QED
      BY <3>1, <3>2 DEF Copied
  <2>4. QED
    BY <2>2, <2>3
<1>7. QED
  BY <1>2, <1>3, <1>4, <1>6

--------------------------------------------------------------------------------
\* When all bytes are copied the memory is what memcpy and memmove promise.
LEMMA AllCopied ==
  ASSUME StringIInv, Copied(0, call.n)
  PROVE  mem = [p \in Addresses |-> IF p \in Bytes(call.dest, call.n)
                                     THEN old[call.src + (p - call.dest)] ELSE old[p]]
<1>1. call.dest \in Int /\ call.n \in Int
  BY DEF StringIInv, CallInv
<1>2. \A p \in Addresses : p \in Bytes(call.dest, call.n)
                             <=> call.dest + 0 <= p /\ p < call.dest + call.n
  BY <1>1 DEF Bytes, Addresses
<1>3. mem \in [Addresses -> 0 .. BYTE_MOD - 1]
  BY DEF StringIInv, MemInv, Memories
<1>4. QED
  BY <1>2, <1>3 DEF Copied

\* memcpy: the byte it reads is not in the destination.
LEMMA memcpyInv ==
  ASSUME StringIInv, memcpy
  PROVE  StringIInv'
<1>0. /\ loop /\ fn = "memcpy" /\ pos \in 0 .. call.n /\ Copied(0, pos)
      /\ Bytes(call.dest, call.n) \cap Bytes(call.src, call.n) = {}
  BY DEF memcpy, StringIInv, MemcpyLoop
<1>00. call.dest \in Int /\ call.src \in Int /\ call.n \in Int
  BY DEF StringIInv, CallInv
<1>1. CASE pos < call.n /\ CopyUp
  <2>1. pos \in 0 .. call.n - 1
    BY <1>0, <1>00, <1>1
  <2>2. ~(call.dest <= call.src + pos /\ call.src + pos < call.dest + pos)
    <3>1. call.src + pos \in Bytes(call.src, call.n)
      BY <1>00, <2>1 DEF Bytes
    <3>2. call.src + pos \notin Bytes(call.dest, call.n)
      BY <1>0, <3>1
    <3>3. QED
      BY <1>00, <2>1, <3>2 DEF Bytes
  <2>3. /\ Copied(0, pos)' /\ pos' = pos + 1 /\ UNCHANGED <<fn, loop, call, old>>
        /\ call.dest + pos \in Addresses
        /\ mem[call.src + pos] \in 0 .. BYTE_MOD - 1
    BY <1>0, <1>1, <2>1, <2>2, CopyUpInv
  <2>4. pos' \in 0 .. call.n
    BY <1>00, <2>1, <2>3
  <2>5. MemcpyLoop' /\ MemmoveLoop' /\ MemsetLoop'
    BY <1>0, <2>3, <2>4 DEF MemcpyLoop, MemmoveLoop, MemsetLoop
  <2>6. Store(call.dest + pos, mem[call.src + pos], 1)
    BY <1>1 DEF CopyUp
  <2>7. QED
    BY <1>0, <2>3, <2>5, <2>6, StoreInv
<1>2. CASE pos >= call.n /\ Return(call.dest)
  <2>1. Copied(0, call.n)
    <3>1. pos = call.n
      BY <1>0, <1>00, <1>2
    <3>2. QED
      BY <1>0, <3>1
  <2>2. KeepPromises'
    BY <1>0, <1>2, <2>1, AllCopied DEF Return, KeepPromises, Returned
  <2>3. QED
    BY <1>2, <2>2, ReturnInv
<1>3. QED
  BY <1>1, <1>2 DEF memcpy

\* memmove: a byte is read before it is overwritten, in either direction.
LEMMA memmoveInv ==
  ASSUME StringIInv, memmove
  PROVE  StringIInv'
<1>0. /\ loop /\ fn = "memmove" /\ pos \in 0 .. call.n
      /\ Upwards(call) => Copied(0, pos)
      /\ ~Upwards(call) => Copied(pos, call.n)
      /\ call.src = call.dest => pos = call.n
  BY DEF memmove, StringIInv, MemmoveLoop
<1>00. call.dest \in Int /\ call.src \in Int /\ call.n \in Int
  BY DEF StringIInv, CallInv
<1>1. ASSUME Copied(0, call.n), Return(call.dest)
      PROVE  StringIInv'
  <2>1. KeepPromises'
    BY <1>0, <1>1, AllCopied DEF Return, KeepPromises, Returned
  <2>2. QED
    BY <1>1, <2>1, ReturnInv
<1>2. CASE call.src = call.dest /\ Return(call.dest)
  <2>1. Copied(call.n, call.n)
    <3>1. ~Upwards(call)
      BY <1>00, <1>2 DEF Upwards
    <3>2. pos = call.n
      BY <1>0, <1>2
    <3>3. QED
      BY <1>0, <3>1, <3>2
  <2>2. Copied(0, call.n)
    <3> SUFFICES ASSUME NEW p \in Addresses
                 PROVE  mem[p] = IF call.dest + 0 <= p /\ p < call.dest + call.n
                                   THEN old[call.src + (p - call.dest)] ELSE old[p]
      BY DEF Copied
    <3>1. p \in Int
      BY DEF Addresses
    <3>2. mem[p] = old[p]
      BY <1>00, <2>1, <3>1 DEF Copied
    <3>3. call.src + (p - call.dest) = p
      BY <1>00, <1>2, <3>1
    <3>4. QED
      BY <3>2, <3>3
  <2>3. QED
    BY <1>1, <1>2, <2>2
<1>3. CASE Upwards(call) /\ pos < call.n /\ CopyUp
  <2>1. pos \in 0 .. call.n - 1
    BY <1>0, <1>00, <1>3
  <2>2. ~(call.dest <= call.src + pos /\ call.src + pos < call.dest + pos)
    BY <1>00, <1>3, <2>1 DEF Upwards
  <2>3. /\ Copied(0, pos)' /\ pos' = pos + 1 /\ UNCHANGED <<fn, loop, call, old>>
        /\ call.dest + pos \in Addresses
        /\ mem[call.src + pos] \in 0 .. BYTE_MOD - 1
    BY <1>0, <1>3, <2>1, <2>2, CopyUpInv
  <2>4. pos' \in 0 .. call.n /\ call.src # call.dest
    BY <1>00, <1>3, <2>1, <2>3 DEF Upwards
  <2>5. MemcpyLoop' /\ MemmoveLoop' /\ MemsetLoop'
    BY <1>0, <1>3, <2>3, <2>4 DEF MemcpyLoop, MemmoveLoop, MemsetLoop, Upwards
  <2>6. Store(call.dest + pos, mem[call.src + pos], 1)
    BY <1>3 DEF CopyUp
  <2>7. QED
    BY <1>0, <2>3, <2>5, <2>6, StoreInv
<1>4. CASE Upwards(call) /\ pos >= call.n /\ Return(call.dest)
  <2>1. pos = call.n
    BY <1>0, <1>00, <1>4
  <2>2. QED
    BY <1>0, <1>1, <1>4, <2>1
<1>5. CASE call.src # call.dest /\ ~Upwards(call) /\ pos > 0 /\ CopyDown
  <2>1. pos \in 1 .. call.n /\ call.src < call.dest
    BY <1>0, <1>00, <1>5 DEF Upwards
  <2>2. /\ Copied(pos, call.n)' /\ pos' = pos - 1 /\ UNCHANGED <<fn, loop, call, old>>
        /\ call.dest + pos - 1 \in Addresses
        /\ mem[call.src + pos - 1] \in 0 .. BYTE_MOD - 1
    BY <1>0, <1>5, <2>1, CopyDownInv
  <2>3. pos' \in 0 .. call.n
    BY <1>00, <2>1, <2>2
  <2>4. MemcpyLoop' /\ MemmoveLoop' /\ MemsetLoop'
    BY <1>0, <1>5, <2>2, <2>3 DEF MemcpyLoop, MemmoveLoop, MemsetLoop, Upwards
  <2>5. Store(call.dest + pos - 1, mem[call.src + pos - 1], -1)
    BY <1>5 DEF CopyDown
  <2>6. QED
    BY <1>0, <2>2, <2>4, <2>5, StoreInv
<1>6. CASE ~Upwards(call) /\ pos = 0 /\ Return(call.dest)
  BY <1>0, <1>1, <1>6
<1>7. QED
  BY <1>2, <1>3, <1>4, <1>5, <1>6 DEF memmove

\* memset: the int is cut to a byte.
LEMMA memsetInv ==
  ASSUME StringIInv, memset
  PROVE  StringIInv'
<1>0. loop /\ fn = "memset" /\ pos \in 0 .. call.n /\ Filled(pos)
  BY DEF memset, StringIInv, MemsetLoop
<1>1. /\ call.dest \in 0 .. SIZE /\ call.src \in Int /\ call.n \in 0 .. SIZE
      /\ call.dest + call.n <= SIZE
  BY DEF StringIInv, CallInv
<1>2. mem \in [Addresses -> 0 .. BYTE_MOD - 1]
  BY DEF StringIInv, MemInv, Memories
<1>3. call.src % BYTE_MOD \in 0 .. BYTE_MOD - 1
  BY <1>1
<1>4. CASE pos < call.n /\ Store(call.dest + pos, AsByte(call.src), 1)
  <2>1. call.dest + pos \in Addresses /\ pos \in Int /\ pos + 1 \in 0 .. call.n
    BY <1>0, <1>1, <1>4 DEF Addresses
  <2>2. /\ mem' = [mem EXCEPT ![call.dest + pos] = call.src % BYTE_MOD]
        /\ pos' = pos + 1 /\ UNCHANGED <<fn, loop, call, old>>
    BY <1>4 DEF Store, AsByte
  <2>3. Filled(pos)'
    <3> SUFFICES ASSUME NEW p \in Addresses
                 PROVE  mem'[p] = IF call.dest <= p /\ p < call.dest + pos'
                                    THEN call.src % BYTE_MOD ELSE old[p]
      BY <2>2 DEF Filled
    <3>1. p \in Int
      BY DEF Addresses
    <3>2. CASE p = call.dest + pos
      <4>1. mem'[p] = call.src % BYTE_MOD
        BY <1>2, <2>1, <2>2, <3>2
      <4>2. call.dest <= p /\ p < call.dest + pos'
        BY <1>0, <1>1, <2>2, <3>1, <3>2
      <4>3. QED
        BY <4>1, <4>2
    <3>3. CASE p # call.dest + pos
      <4>1. mem'[p] = mem[p]
        BY <1>2, <2>1, <2>2, <3>3
      <4>2. p < call.dest + pos' <=> p < call.dest + pos
        BY <1>0, <1>1, <2>2, <3>1, <3>3
      <4>3. QED
        BY <1>0, <4>1, <4>2 DEF Filled
    <3>4. QED
      BY <3>2, <3>3
  <2>4. MemcpyLoop' /\ MemmoveLoop' /\ MemsetLoop'
    BY <1>0, <2>1, <2>2, <2>3 DEF MemcpyLoop, MemmoveLoop, MemsetLoop
  <2>5. AsByte(call.src) \in 0 .. BYTE_MOD - 1
    BY <1>3 DEF AsByte
  <2>6. QED
    BY <1>0, <1>4, <2>1, <2>4, <2>5, StoreInv
<1>5. CASE pos >= call.n /\ Return(call.dest)
  <2>1. pos = call.n
    BY <1>0, <1>1, <1>5
  <2>2. \A p \in Addresses : p \in Bytes(call.dest, call.n)
                               <=> call.dest <= p /\ p < call.dest + call.n
    BY <1>1 DEF Bytes, Addresses
  <2>3. mem = [p \in Addresses |-> IF p \in Bytes(call.dest, call.n)
                                    THEN call.src % BYTE_MOD ELSE old[p]]
    BY <1>0, <1>2, <2>1, <2>2 DEF Filled
  <2>4. KeepPromises'
    BY <1>0, <1>5, <2>3 DEF Return, KeepPromises, Returned
  <2>5. QED
    BY <1>5, <2>4, ReturnInv
<1>6. QED
  BY <1>4, <1>5 DEF memset

--------------------------------------------------------------------------------
\* A round of a loop that only reads.
LEMMA CountInv ==
  ASSUME StringIInv, loop, Count, fn \in {"memcmp", "strlen"}, MemcmpLoop', StrlenLoop'
  PROVE  StringIInv'
<1>1. pos' = pos + 1 /\ UNCHANGED <<fn, loop, call, mem, ret, old>>
  BY DEF Count
<1>2. CallInv'
  BY <1>1 DEF StringIInv, CallInv
<1>3. MemInv'
  BY <1>1 DEF StringIInv, MemInv
<1>4. KeepPromises' /\ loop' \in BOOLEAN
  BY <1>1 DEF KeepPromises, Returned
<1>5. MemcpyLoop' /\ MemmoveLoop' /\ MemsetLoop'
  BY <1>1 DEF MemcpyLoop, MemmoveLoop, MemsetLoop
<1>6. QED
  BY <1>2, <1>3, <1>4, <1>5 DEF StringIInv

\* memcmp: the bytes before the counter are equal, so that the one at the
\* counter is the first that may differ.
LEMMA memcmpInv ==
  ASSUME StringIInv, memcmp
  PROVE  StringIInv'
<1> DEFINE differ == {k \in 0 .. call.n - 1 : old[call.dest + k] # old[call.src + k]}
<1>0. loop /\ fn = "memcmp" /\ pos \in 0 .. call.n /\ mem = old /\ Equal(pos)
  BY DEF memcmp, StringIInv, MemcmpLoop
<1>1. /\ call.dest \in 0 .. SIZE /\ call.src \in 0 .. SIZE /\ call.n \in 0 .. SIZE
      /\ call.dest + call.n <= SIZE /\ call.src + call.n <= SIZE
  BY <1>0 DEF StringIInv, CallInv
<1>2. old \in [Addresses -> 0 .. BYTE_MOD - 1]
  BY DEF StringIInv, MemInv, Memories
<1>3. CASE pos >= call.n /\ Return(0)
  <2>1. pos = call.n
    BY <1>0, <1>1, <1>3
  <2>2. differ = {}
    BY <1>0, <2>1 DEF Equal
  <2>3. KeepPromises'
    BY <1>0, <1>3, <2>2 DEF Return, KeepPromises, Returned
  <2>4. QED
    BY <1>3, <2>3, ReturnInv
<1>4. CASE /\ pos < call.n /\ mem[call.dest + pos] # mem[call.src + pos]
           /\ Return(IF mem[call.dest + pos] < mem[call.src + pos] THEN -1 ELSE 1)
  <2>1. pos \in differ
    BY <1>0, <1>1, <1>4
  <2>2. \A m \in differ : pos <= m
    BY <1>0, <1>1 DEF Equal
  <2>3. ret' < 0 <=> old[call.dest + pos] < old[call.src + pos]
    BY <1>0, <1>4 DEF Return
  <2>4. ret' # 0
    BY <1>4 DEF Return
  <2>5. (ret' < 0) = (old[call.dest + pos] < old[call.src + pos])
    BY <2>3
  <2>6. \E k \in differ : /\ \A m \in differ : k <= m
                          /\ (ret' < 0) = (old[call.dest + k] < old[call.src + k])
                          /\ ret' # 0
    BY <2>1, <2>2, <2>4, <2>5, Zenon
  <2>7. differ # {}
    BY <2>1
  <2>8. ~loop' /\ UNCHANGED <<fn, call, mem, old>>
    BY <1>4 DEF Return
  <2>9. KeepPromises'
    BY <1>0, <2>6, <2>7, <2>8, Zenon DEF KeepPromises, Returned
  <2>10. QED
    BY <1>4, <2>9, ReturnInv
<1>5. CASE pos < call.n /\ mem[call.dest + pos] = mem[call.src + pos] /\ Count
  <2>1. pos' = pos + 1 /\ UNCHANGED <<fn, loop, call, mem, ret, old>>
    BY <1>5 DEF Count
  <2>2. Equal(pos)'
    <3>1. SUFFICES ASSUME NEW k \in 0 .. pos
                   PROVE  old[call.dest + k] = old[call.src + k]
      BY <1>0, <2>1 DEF Equal
    <3>2. CASE k = pos
      BY <1>0, <1>5, <3>2
    <3>3. CASE k # pos
      BY <1>0, <3>3 DEF Equal
    <3>4. QED
      BY <3>2, <3>3
  <2>3. MemcmpLoop' /\ StrlenLoop'
    BY <1>0, <1>1, <1>5, <2>1, <2>2 DEF MemcmpLoop, StrlenLoop
  <2>4. QED
    BY <1>0, <1>5, <2>3, CountInv
<1>6. QED
  BY <1>3, <1>4, <1>5 DEF memcmp

\* strlen: the loop does not pass the first zero byte.
LEMMA strlenInv ==
  ASSUME StringIInv, strlen
  PROVE  StringIInv'
<1>0. /\ loop /\ fn = "strlen" /\ mem = old /\ pos \in Nat /\ NoZero(pos)
      /\ \E p \in Addresses : p >= call.dest + pos /\ old[p] = 0
  BY DEF strlen, StringIInv, StrlenLoop
<1>1. call.dest \in 0 .. SIZE
  BY DEF StringIInv, CallInv
<1>2. CASE mem[call.dest + pos] # 0 /\ Count
  <2>1. pos' = pos + 1 /\ UNCHANGED <<fn, loop, call, mem, ret, old>>
    BY <1>2 DEF Count
  <2>2. NoZero(pos)'
    <3>1. SUFFICES ASSUME NEW k \in 0 .. pos
                   PROVE  old[call.dest + k] # 0
      BY <1>0, <2>1 DEF NoZero
    <3>2. CASE k = pos
      BY <1>0, <1>2, <3>2
    <3>3. CASE k # pos
      BY <1>0, <3>3 DEF NoZero
    <3>4. QED
      BY <3>2, <3>3
  <2>3. PICK p \in Addresses : p >= call.dest + pos /\ old[p] = 0
    BY <1>0
  <2>4. p >= call.dest + (pos + 1)
    BY <1>0, <1>1, <1>2, <2>3 DEF Addresses
  <2>5. MemcmpLoop' /\ StrlenLoop'
    BY <1>0, <2>1, <2>2, <2>3, <2>4 DEF MemcmpLoop, StrlenLoop
  <2>6. QED
    BY <1>0, <1>2, <2>5, CountInv
<1>3. CASE mem[call.dest + pos] = 0 /\ Return(pos)
  <2>1. KeepPromises'
    BY <1>0, <1>3 DEF Return, KeepPromises, Returned, NoZero
  <2>2. QED
    BY <1>3, <2>1, ReturnInv
<1>4. QED
  BY <1>2, <1>3 DEF strlen

--------------------------------------------------------------------------------
\* What the arguments of a call satisfy.
LEMMA ArgumentsType ==
  ASSUME NEW c \in Arguments
  PROVE  /\ c \in [dest : 0 .. SIZE, src : Int, n : 0 .. SIZE]
         /\ c.dest \in 0 .. SIZE /\ c.src \in 0 .. SIZE /\ c.n \in 0 .. SIZE
         /\ c.dest + c.n <= SIZE /\ c.src + c.n <= SIZE
         /\ 0 \in 0 .. c.n /\ c.n \in 0 .. c.n
BY DEF Arguments

\* Every call establishes the invariant of its loop.
LEMMA CallsInv ==
  ASSUME StringIInv,
         CallMemcpy \/ CallMemset \/ CallMemmove \/ CallMemcmp \/ CallStrlen
  PROVE  StringIInv'
<1>1. CASE CallMemcpy
  <2>1. PICK c \in Arguments : /\ Bytes(c.dest, c.n) \cap Bytes(c.src, c.n) = {}
                               /\ Enter("memcpy", c, 0)
    BY <1>1 DEF CallMemcpy
  <2>2. QED
    BY <2>1, ArgumentsType, EnterInv DEF Functions
<1>2. CASE CallMemset
  <2>1. PICK c \in Arguments, v \in Fills : Enter("memset", [c EXCEPT !.src = v], 0)
    BY <1>2 DEF CallMemset
  <2> DEFINE d == [c EXCEPT !.src = v]
  <2>2. /\ d \in [dest : 0 .. SIZE, src : Int, n : 0 .. SIZE]
        /\ d.dest = c.dest /\ d.n = c.n
    BY ArgumentsType
  <2>3. d.dest + d.n <= SIZE /\ 0 \in 0 .. d.n
    BY <2>2, ArgumentsType
  <2>4. Enter("memset", d, 0)
    BY <2>1
  <2> HIDE DEF d
  <2>5. QED
    BY <2>2, <2>3, <2>4, EnterInv DEF Functions
<1>3. CASE CallMemmove
  <2>1. PICK c \in Arguments : Enter("memmove", c, IF Upwards(c) THEN 0 ELSE c.n)
    BY <1>3 DEF CallMemmove
  <2> DEFINE first == IF Upwards(c) THEN 0 ELSE c.n
  <2>2. first \in 0 .. c.n
    BY ArgumentsType
  <2>3. Enter("memmove", c, first) /\ first = (IF Upwards(c) THEN 0 ELSE c.n)
    BY <2>1
  <2> HIDE DEF first
  <2>4. QED
    BY <2>2, <2>3, ArgumentsType, EnterInv DEF Functions
<1>4. CASE CallMemcmp
  <2>1. PICK c \in Arguments : Enter("memcmp", c, 0)
    BY <1>4 DEF CallMemcmp
  <2>2. QED
    BY <2>1, ArgumentsType, EnterInv DEF Functions
<1>5. CASE CallStrlen
  <2>1. PICK c \in Arguments : /\ \E p \in Bytes(c.dest, SIZE - c.dest) : mem[p] = 0
                               /\ Enter("strlen", c, 0)
    BY <1>5 DEF CallStrlen
  <2>2. \E p \in Addresses : p >= c.dest /\ mem[p] = 0
    BY <2>1, ArgumentsType DEF Bytes, Addresses
  <2>3. QED
    BY <2>1, <2>2, ArgumentsType, EnterInv DEF Functions
<1>6. QED
  BY <1>1, <1>2, <1>3, <1>4, <1>5

\* Before the first call.
LEMMA StringInitInv ==
  ASSUME StringInit
  PROVE  StringIInv
<1>1. fn = "none" /\ loop = FALSE /\ mem \in Memories /\ old \in Memories
  BY DEF StringInit
<1>2. CallInv
  BY DEF StringInit, CallInv
<1>3. MemInv
  BY DEF StringInit, MemInv
<1>4. KeepPromises
  BY <1>1 DEF KeepPromises, Returned
<1>5. MemcpyLoop /\ MemmoveLoop /\ MemsetLoop /\ MemcmpLoop /\ StrlenLoop
  BY <1>1 DEF MemcpyLoop, MemmoveLoop, MemsetLoop, MemcmpLoop, StrlenLoop
<1>6. QED
  BY <1>1, <1>2, <1>3, <1>4, <1>5 DEF StringIInv

\* A step that changes nothing.
LEMMA StringStutterInv ==
  ASSUME StringIInv, UNCHANGED stringVars
  PROVE  StringIInv'
<1>1. UNCHANGED <<fn, loop, call, mem, pos, ret, old>>
  BY DEF stringVars
<1>2. loop' \in BOOLEAN /\ CallInv' /\ MemInv'
  BY <1>1 DEF StringIInv, CallInv, MemInv
<1>3. KeepPromises'
  BY <1>1, Zenon DEF StringIInv, KeepPromises, Returned
<1>4. MemcpyLoop' /\ MemmoveLoop'
  BY <1>1 DEF StringIInv, MemcpyLoop, MemmoveLoop, Copied, Upwards
<1>5. MemsetLoop' /\ MemcmpLoop' /\ StrlenLoop'
  BY <1>1 DEF StringIInv, MemsetLoop, MemcmpLoop, StrlenLoop, Filled, Equal, NoZero
<1>6. QED
  BY <1>2, <1>3, <1>4, <1>5 DEF StringIInv

\* The invariants of the loops of memcpy, memset, memmove, memcmp and strlen
\* (string.c) hold in every round of every call.
THEOREM StringInvariant == StringSpec => []StringIInv
<1>1. StringInit => StringIInv
  BY StringInitInv
<1>2. StringIInv /\ [StringNext]_stringVars => StringIInv'
  <2> SUFFICES ASSUME StringIInv, [StringNext]_stringVars PROVE StringIInv'
    OBVIOUS
  <2>1. CASE memcpy \/ memmove \/ memset \/ memcmp \/ strlen
    BY <2>1, memcpyInv, memmoveInv, memsetInv, memcmpInv, strlenInv
  <2>2. CASE CallMemcpy \/ CallMemset \/ CallMemmove \/ CallMemcmp \/ CallStrlen
    BY <2>2, CallsInv
  <2>3. CASE UNCHANGED stringVars
    BY <2>3, StringStutterInv
  <2>4. QED
    BY <2>1, <2>2, <2>3 DEF StringNext
<1>3. QED
  BY <1>1, <1>2, PTL DEF StringSpec

\* Whatever the memory holds and the arguments are, memcpy and memmove leave in
\* the destination what the source held, memset the int cut to a byte, memcmp
\* orders by the first byte that differs and strlen finds the first zero byte.
THEOREM StringFunctionsKeepPromises == StringSpec => []KeepPromises
<1>1. StringIInv => KeepPromises
  BY DEF StringIInv
<1>2. QED
  BY <1>1, StringInvariant, PTL
================================================================================
