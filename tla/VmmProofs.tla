------------------------------- MODULE VmmProofs -------------------------------
(***************************************************************************)
(* Proofs about the virtual memory manager, for every table size, memory   *)
(* map, answer of the boot loader and previous content of memory.          *)
(***************************************************************************)
EXTENDS Vmm, PmmProofs

USE SizesAssumption, BlocksAssumption, OldMemoryAssumption, NullAssumption
USE VmmAssumption DEF VmmAssumption

AllTables == [Blocks -> [Slots -> PTEs]]

\* The levels below a PML4 k, in a memory m.
Tab3(m, k) == Down(m, {k})
Tab2(m, k) == Down(m, Tab3(m, k))
Tab1(m, k) == Down(m, Tab2(m, k))
Upper(m, k) == {k} \cup Tab3(m, k) \cup Tab2(m, k)
AllTab(m, k) == Upper(m, k) \cup Tab1(m, k)

IsTree(m, k) ==
  /\ EnteredOnce(m, {k}) /\ EnteredOnce(m, Tab3(m, k)) /\ EnteredOnce(m, Tab2(m, k))
  /\ k \notin Tab3(m, k) /\ k \notin Tab2(m, k) /\ k \notin Tab1(m, k)
  /\ Tab3(m, k) \cap Tab2(m, k) = {} /\ Tab3(m, k) \cap Tab1(m, k) = {}
  /\ Tab2(m, k) \cap Tab1(m, k) = {}

\* The entry that enters a lower table.
LinkFlags == ReadWrite \cup {PTE_BIT_ACCESS_ALL}
Link(b) == [addr |-> b, flags |-> LinkFlags]

--------------------------------------------------------------------------------
\* What is below a set of tables.
LEMMA DownMember ==
  ASSUME NEW m, NEW T, NEW x
  PROVE  x \in Down(m, T) <=>
           \E t \in T, s \in Slots : present(m[t][s]) /\ m[t][s].addr = x
<1>1. ASSUME x \in Down(m, T)
      PROVE  \E t \in T, s \in Slots : present(m[t][s]) /\ m[t][s].addr = x
  <2>1. PICK p \in T \X Slots : present(m[p[1]][p[2]]) /\ m[p[1]][p[2]].addr = x
    BY <1>1 DEF Down
  <2>2. p[1] \in T /\ p[2] \in Slots
    OBVIOUS
  <2>3. QED
    BY <2>1, <2>2
<1>2. ASSUME NEW t \in T, NEW s \in Slots, present(m[t][s]), m[t][s].addr = x
      PROVE  x \in Down(m, T)
  <2>1. /\ <<t, s>> \in T \X Slots /\ <<t, s>>[1] = t /\ <<t, s>>[2] = s
    OBVIOUS
  <2>2. QED
    BY <1>2, <2>1 DEF Down
<1>3. QED
  BY <1>1, <1>2

\* Tables that are the same have the same below them.
LEMMA DownSame ==
  ASSUME NEW m, NEW m2, NEW T, \A t \in T : m2[t] = m[t]
  PROVE  Down(m2, T) = Down(m, T) /\ (EnteredOnce(m2, T) <=> EnteredOnce(m, T))
<1>1. \A x : x \in Down(m2, T) <=> x \in Down(m, T)
  BY DownMember
<1>2. EnteredOnce(m2, T) <=> EnteredOnce(m, T)
  BY DEF EnteredOnce
<1>3. QED
  BY <1>1, <1>2

\* An entry more in one of the tables.
LEMMA DownLink ==
  ASSUME NEW m, NEW m2, NEW T, NEW t \in T, NEW x \in Slots, NEW b,
         ~present(m[t][x]), m2[t][x] = Link(b),
         \A s \in Slots : s # x => m2[t][s] = m[t][s],
         \A u \in T : u # t => m2[u] = m[u]
  PROVE  /\ Down(m2, T) = Down(m, T) \cup {b}
         /\ EnteredOnce(m, T) /\ b \notin Down(m, T) => EnteredOnce(m2, T)
<1>1. present(m2[t][x]) /\ m2[t][x].addr = b
  BY DEF Link, LinkFlags, present, ReadWrite
<1>2. \A u \in T, s \in Slots : ~(u = t /\ s = x) => m2[u][s] = m[u][s]
  OBVIOUS
<1>3. \A y : y \in Down(m2, T) <=> y \in Down(m, T) \cup {b}
  BY <1>1, <1>2, DownMember
<1>4. ASSUME EnteredOnce(m, T), b \notin Down(m, T) PROVE EnteredOnce(m2, T)
  <2>1. \A u \in T, s \in Slots : present(m[u][s]) => m[u][s].addr # b
    BY <1>4, DownMember
  <2>2. QED
    BY <1>1, <1>2, <1>4, <2>1 DEF EnteredOnce
<1>5. QED
  BY <1>3, <1>4

\* An empty table more among the tables.
LEMMA DownZero ==
  ASSUME NEW m, NEW T, NEW b, \A s \in Slots : ~present(m[b][s])
  PROVE  Down(m, T \cup {b}) = Down(m, T) /\ (EnteredOnce(m, T) => EnteredOnce(m, T \cup {b}))
<1>1. \A y : y \in Down(m, T \cup {b}) <=> y \in Down(m, T)
  BY DownMember
<1>2. EnteredOnce(m, T) => EnteredOnce(m, T \cup {b})
  BY DEF EnteredOnce
<1>3. QED
  BY <1>1, <1>2

\* A new, empty table that is entered where there was no entry leaves a tree a
\* tree, with that table more.
LEMMA LinkTree ==
  ASSUME NEW m, NEW m2, NEW k, NEW t \in Upper(m, k), NEW x \in Slots, NEW b,
         IsTree(m, k), b \notin AllTab(m, k),
         ~present(m[t][x]), m2[t][x] = Link(b), m2[b] = ZeroTable,
         \A s \in Slots : s # x => m2[t][s] = m[t][s],
         \A u : u \in AllTab(m, k) /\ u # t => m2[u] = m[u]
  PROVE  /\ IsTree(m2, k) /\ AllTab(m2, k) = AllTab(m, k) \cup {b}
         /\ Upper(m2, k) \subseteq Upper(m, k) \cup {b}
<1> DEFINE T3 == Tab3(m, k)  T2 == Tab2(m, k)  T1 == Tab1(m, k)
<1>0. /\ T3 = Down(m, {k}) /\ T2 = Down(m, T3) /\ T1 = Down(m, T2)
      /\ Tab3(m2, k) = Down(m2, {k}) /\ Tab2(m2, k) = Down(m2, Tab3(m2, k))
      /\ Tab1(m2, k) = Down(m2, Tab2(m2, k))
  BY DEF Tab3, Tab2, Tab1
<1>1. /\ EnteredOnce(m, {k}) /\ EnteredOnce(m, T3) /\ EnteredOnce(m, T2)
      /\ k \notin T3 /\ k \notin T2 /\ k \notin T1
      /\ T3 \cap T2 = {} /\ T3 \cap T1 = {} /\ T2 \cap T1 = {}
  BY DEF IsTree
<1>2. t \in {k} \cup T3 \cup T2 /\ b # k /\ b \notin T3 /\ b \notin T2 /\ b \notin T1
  BY DEF Upper, AllTab
<1>3. \A u : u \in {k} \cup T3 \cup T2 /\ u # t => m2[u] = m[u]
  BY DEF Upper, AllTab
<1>4. \A s \in Slots : ~present(m2[b][s])
  BY DEF ZeroTable, present, NoPTE
<1> HIDE DEF T3, T2, T1
<1>5. ASSUME NEW T, \A u \in T : m2[u] = m[u]
      PROVE  Down(m2, T) = Down(m, T) /\ (EnteredOnce(m2, T) <=> EnteredOnce(m, T))
  BY ONLY <1>5, DownSame
<1>6. ASSUME NEW T, t \in T, \A u \in T : u # t => m2[u] = m[u]
      PROVE  /\ Down(m2, T) = Down(m, T) \cup {b}
             /\ EnteredOnce(m, T) /\ b \notin Down(m, T) => EnteredOnce(m2, T)
  <2>1. /\ t \in T /\ x \in Slots /\ ~present(m[t][x]) /\ m2[t][x] = Link(b)
        /\ \A s \in Slots : s # x => m2[t][s] = m[t][s]
        /\ \A u \in T : u # t => m2[u] = m[u]
    BY <1>6
  <2>2. QED
    BY ONLY <2>1, DownLink
<1>7. ASSUME NEW T
      PROVE  /\ Down(m2, T \cup {b}) = Down(m2, T)
             /\ EnteredOnce(m2, T) => EnteredOnce(m2, T \cup {b})
  BY ONLY <1>4, DownZero
<1>8. CASE t = k
  <2>1. (\A u \in T3 : m2[u] = m[u]) /\ (\A u \in T2 : m2[u] = m[u])
    BY <1>1, <1>3, <1>8
  <2>2. Tab3(m2, k) = T3 \cup {b} /\ EnteredOnce(m2, {k})
    <3>1. t \in {k} /\ \A u \in {k} : u # t => m2[u] = m[u]
      BY <1>8
    <3>2. QED
      BY ONLY <1>0, <1>1, <1>2, <1>6, <3>1
  <2>3. Down(m2, T3) = T2 /\ EnteredOnce(m2, T3)
    BY ONLY <1>0, <1>1, <1>5, <2>1
  <2>4. Tab2(m2, k) = T2 /\ EnteredOnce(m2, Tab3(m2, k))
    BY ONLY <1>0, <1>7, <2>2, <2>3
  <2>5. Tab1(m2, k) = T1 /\ EnteredOnce(m2, T2)
    BY ONLY <1>0, <1>1, <1>5, <2>1, <2>4
  <2>6. QED
    BY ONLY <1>1, <1>2, <1>8, <2>2, <2>4, <2>5 DEF IsTree, AllTab, Upper, T3, T2, T1
<1>9. CASE t \in T3
  <2>1. (\A u \in {k} : m2[u] = m[u]) /\ (\A u \in T2 : m2[u] = m[u])
    BY <1>1, <1>3, <1>9
  <2>2. Tab3(m2, k) = T3 /\ EnteredOnce(m2, {k})
    BY ONLY <1>0, <1>1, <1>5, <2>1
  <2>3. Tab2(m2, k) = T2 \cup {b} /\ EnteredOnce(m2, T3)
    <3>1. \A u \in T3 : u # t => m2[u] = m[u]
      BY <1>3
    <3>2. QED
      BY ONLY <1>0, <1>1, <1>2, <1>6, <1>9, <2>2, <3>1
  <2>4. Down(m2, T2) = T1 /\ EnteredOnce(m2, T2)
    BY ONLY <1>0, <1>1, <1>5, <2>1
  <2>5. Tab1(m2, k) = T1 /\ EnteredOnce(m2, Tab2(m2, k))
    BY ONLY <1>0, <1>7, <2>3, <2>4
  <2>6. QED
    BY ONLY <1>1, <1>2, <1>9, <2>2, <2>3, <2>5 DEF IsTree, AllTab, Upper, T3, T2, T1
<1>10. CASE t \in T2
  <2>1. (\A u \in {k} : m2[u] = m[u]) /\ (\A u \in T3 : m2[u] = m[u])
    BY <1>1, <1>3, <1>10
  <2>2. Tab3(m2, k) = T3 /\ EnteredOnce(m2, {k})
    BY ONLY <1>0, <1>1, <1>5, <2>1
  <2>3. Tab2(m2, k) = T2 /\ EnteredOnce(m2, T3)
    BY ONLY <1>0, <1>1, <1>5, <2>1, <2>2
  <2>4. Tab1(m2, k) = T1 \cup {b} /\ EnteredOnce(m2, T2)
    <3>1. \A u \in T2 : u # t => m2[u] = m[u]
      BY <1>3
    <3>2. QED
      BY ONLY <1>0, <1>1, <1>2, <1>6, <1>10, <2>3, <3>1
  <2>5. QED
    BY ONLY <1>1, <1>2, <1>10, <2>2, <2>3, <2>4 DEF IsTree, AllTab, Upper, T3, T2, T1
<1>11. QED
  BY <1>2, <1>8, <1>9, <1>10

\* What the lowest tables hold does not matter to the tree.
LEMMA LeafTree ==
  ASSUME NEW m, NEW m2, NEW k, IsTree(m, k),
         \A u \in Upper(m, k) : m2[u] = m[u]
  PROVE  /\ IsTree(m2, k) /\ AllTab(m2, k) = AllTab(m, k)
         /\ Tab3(m2, k) = Tab3(m, k) /\ Tab2(m2, k) = Tab2(m, k) /\ Tab1(m2, k) = Tab1(m, k)
<1>1. \A u : u = k \/ u \in Tab3(m, k) \/ u \in Tab2(m, k) => m2[u] = m[u]
  BY DEF Upper
<1>2. Tab3(m2, k) = Tab3(m, k) /\ (EnteredOnce(m2, {k}) <=> EnteredOnce(m, {k}))
  BY <1>1, DownSame DEF Tab3
<1>3. /\ Tab2(m2, k) = Tab2(m, k)
      /\ EnteredOnce(m2, Tab3(m, k)) <=> EnteredOnce(m, Tab3(m, k))
  BY <1>1, <1>2, DownSame DEF Tab2
<1>4. /\ Tab1(m2, k) = Tab1(m, k)
      /\ EnteredOnce(m2, Tab2(m, k)) <=> EnteredOnce(m, Tab2(m, k))
  BY <1>1, <1>3, DownSame DEF Tab1
<1>5. QED
  BY <1>2, <1>3, <1>4 DEF IsTree, AllTab, Upper

--------------------------------------------------------------------------------
(***************************************************************************)
(* Indices.                                                                *)
(***************************************************************************)

\* Quotient and remainder.
LEMMA DivModRadix ==
  ASSUME NEW x \in Nat
  PROVE  /\ x \div RADIX \in Nat /\ x % RADIX \in Slots
         /\ x = (x \div RADIX) * RADIX + (x % RADIX)
BY DEF Slots

\* The quotient is determined by q * d + r.
LEMMA DivUnique ==
  ASSUME NEW d \in Nat \ {0}, NEW q \in Nat, NEW r \in 0 .. d - 1
  PROVE  (q * d + r) \div d = q
BY SMT

\* Division by a product is division by one factor after the other.
LEMMA DivTwice ==
  ASSUME NEW x \in Nat, NEW d \in Nat \ {0}
  PROVE  x \div (d * RADIX) = (x \div d) \div RADIX /\ x \div d \in Nat
<1>1. PICK q \in Nat, r \in 0 .. d - 1 : x = q * d + r /\ q = x \div d
  BY SMT
<1>2. PICK p \in Nat, s \in 0 .. RADIX - 1 : q = p * RADIX + s /\ p = q \div RADIX
  BY SMT
<1>3. PICK y \in Nat : y = s * d + r
  BY SMT
<1>4. PICK e \in Nat \ {0} : e = d * RADIX
  BY SMT
<1>5. y \in 0 .. e - 1
  <2>1. s * d + d <= RADIX * d
    BY <1>2, SMT
  <2>2. RADIX * d = e
    BY <1>4, SMT
  <2>3. PICK a \in Nat : a = s * d
    BY SMT
  <2>4. QED
    BY <1>3, <2>1, <2>2, <2>3, SMT
<1>6. x = p * e + y
  <2>1. (p * RADIX + s) * d = p * (d * RADIX) + s * d
    BY SMT
  <2>2. PICK a \in Int, c \in Int : a = p * e /\ c = s * d
    BY SMT
  <2>3. x = (a + c) + r
    BY <1>1, <1>2, <1>4, <2>1, <2>2
  <2>4. QED
    BY <1>3, <2>2, <2>3
<1>7. (p * e + y) \div e = p
  BY <1>5, DivUnique
<1>8. QED
  BY <1>1, <1>2, <1>4, <1>6, <1>7

\* The indices are the digits of the page number.
LEMMA IndexDigits ==
  ASSUME NEW va \in Nat
  PROVE  LET q1 == va \div RADIX  q2 == q1 \div RADIX  q3 == q2 \div RADIX IN
         /\ Index(va, 1) = va % RADIX /\ Index(va, 2) = q1 % RADIX
         /\ Index(va, 3) = q2 % RADIX /\ Index(va, 4) = q3 % RADIX
         /\ q1 \in Nat /\ q2 \in Nat /\ q3 \in Nat
<1> DEFINE q1 == va \div RADIX  q2 == q1 \div RADIX  q3 == q2 \div RADIX
<1>1. q1 \in Nat /\ q2 \in Nat /\ q3 \in Nat
  BY DivModRadix
<1>2. va \div (RADIX * RADIX) = q2
  BY DivTwice
<1>3. PICK d \in Nat \ {0} : d = RADIX * RADIX
  BY SMT
<1>4. va \div (d * RADIX) = (va \div d) \div RADIX
  BY DivTwice
<1>5. va \div (RADIX * RADIX * RADIX) = q3
  BY <1>2, <1>3, <1>4
<1>6. QED
  BY <1>1, <1>2, <1>5 DEF Index

\* An index is one of a table's slots.
LEMMA IndexType ==
  ASSUME NEW va \in Nat, NEW level \in 1 .. 4
  PROVE  Index(va, level) \in Slots
<1> DEFINE q1 == va \div RADIX  q2 == q1 \div RADIX  q3 == q2 \div RADIX
<1>1. /\ Index(va, 1) = va % RADIX /\ Index(va, 2) = q1 % RADIX
      /\ Index(va, 3) = q2 % RADIX /\ Index(va, 4) = q3 % RADIX
      /\ q1 \in Nat /\ q2 \in Nat /\ q3 \in Nat
  BY IndexDigits
<1> HIDE DEF q1, q2, q3
<1>2. /\ va % RADIX \in Slots /\ q1 % RADIX \in Slots
      /\ q2 % RADIX \in Slots /\ q3 % RADIX \in Slots
  BY <1>1, DivModRadix
<1>3. level = 1 \/ level = 2 \/ level = 3 \/ level = 4
  OBVIOUS
<1>4. QED
  BY ONLY <1>1, <1>2, <1>3

\* Different pages have different indices.
LEMMA IndexInjective ==
  ASSUME NEW va \in VPages, NEW vb \in VPages,
         \A level \in 1 .. 4 : Index(va, level) = Index(vb, level)
  PROVE  va = vb
<1> DEFINE a1 == va \div RADIX  a2 == a1 \div RADIX  a3 == a2 \div RADIX
<1> DEFINE b1 == vb \div RADIX  b2 == b1 \div RADIX  b3 == b2 \div RADIX
<1>0. va \in Nat /\ vb \in Nat
  BY DEF VPages
<1>1. /\ Index(va, 1) = va % RADIX /\ Index(va, 2) = a1 % RADIX
      /\ Index(va, 3) = a2 % RADIX /\ Index(va, 4) = a3 % RADIX
      /\ a1 \in Nat /\ a2 \in Nat /\ a3 \in Nat
  BY <1>0, IndexDigits
<1>2. /\ Index(vb, 1) = vb % RADIX /\ Index(vb, 2) = b1 % RADIX
      /\ Index(vb, 3) = b2 % RADIX /\ Index(vb, 4) = b3 % RADIX
      /\ b1 \in Nat /\ b2 \in Nat /\ b3 \in Nat
  BY <1>0, IndexDigits
<1>3. /\ va % RADIX = vb % RADIX /\ a1 % RADIX = b1 % RADIX
      /\ a2 % RADIX = b2 % RADIX /\ a3 % RADIX = b3 % RADIX
  BY <1>1, <1>2
<1>4. ASSUME NEW v \in VPages PROVE ((v \div RADIX) \div RADIX) \div RADIX < RADIX
  <2> DEFINE v1 == v \div RADIX  v2 == v1 \div RADIX  v3 == v2 \div RADIX
  <2>1. v \in Nat /\ v < VPAGES /\ VPAGES = RADIX * RADIX * RADIX * RADIX
    BY <1>4, SMT DEF VPages, VPAGES
  <2>2. /\ v1 \in Nat /\ v2 \in Nat /\ v3 \in Nat
    BY <2>1, DivModRadix
  <2>3. v >= v1 * RADIX /\ v1 >= v2 * RADIX /\ v2 >= v3 * RADIX
    <3>1. \A y \in Nat : y >= (y \div RADIX) * RADIX
      BY SMT
    <3>2. QED
      BY <2>1, <2>2, <3>1
  <2> HIDE DEF v1, v2, v3
  <2>4. \A p \in Nat, q \in Nat : p >= q => p * RADIX >= q * RADIX
    BY SMT
  <2>5. v1 * RADIX >= (v2 * RADIX) * RADIX
    BY <2>2, <2>3, <2>4
  <2>6. (v2 * RADIX) * RADIX >= ((v3 * RADIX) * RADIX) * RADIX
    <3>1. v2 * RADIX >= (v3 * RADIX) * RADIX
      BY <2>2, <2>3, <2>4
    <3>2. QED
      BY <2>2, <2>4, <3>1
  <2>7. v3 >= RADIX => ((v3 * RADIX) * RADIX) * RADIX >= RADIX * RADIX * RADIX * RADIX
    <3> SUFFICES ASSUME v3 >= RADIX
                 PROVE  ((v3 * RADIX) * RADIX) * RADIX >= RADIX * RADIX * RADIX * RADIX
      OBVIOUS
    <3>1. v3 * RADIX >= RADIX * RADIX
      BY <2>2, <2>4
    <3>2. (v3 * RADIX) * RADIX >= (RADIX * RADIX) * RADIX
      BY <2>2, <2>4, <3>1
    <3>3. QED
      BY <2>2, <2>4, <3>2
  <2>8. v3 < RADIX
    <3>1. PICK x \in Nat : x = ((v3 * RADIX) * RADIX) * RADIX
      BY <2>2
    <3>2. PICK y \in Nat : y = (v2 * RADIX) * RADIX
      BY <2>2
    <3>3. PICK z \in Nat : z = v1 * RADIX
      BY <2>2
    <3>4. v >= z /\ z >= y /\ y >= x /\ (v3 >= RADIX => x >= VPAGES)
      BY <2>1, <2>3, <2>5, <2>6, <2>7, <3>1, <3>2, <3>3
    <3>5. VPAGES \in Nat
      BY <2>1
    <3>6. QED
      BY <2>1, <2>2, <3>4, <3>5
  <2>9. QED
    BY <2>8 DEF v1, v2, v3
<1>5. a3 < RADIX /\ b3 < RADIX
  BY <1>4
<1>6. ASSUME NEW x \in Nat, x < RADIX PROVE x % RADIX = x
  BY <1>6, SMT
<1>7. a3 = b3
  BY <1>1, <1>2, <1>3, <1>5, <1>6
<1>8. /\ va = a1 * RADIX + (va % RADIX) /\ vb = b1 * RADIX + (vb % RADIX)
      /\ a1 = a2 * RADIX + (a1 % RADIX) /\ b1 = b2 * RADIX + (b1 % RADIX)
      /\ a2 = a3 * RADIX + (a2 % RADIX) /\ b2 = b3 * RADIX + (b2 % RADIX)
  BY <1>0, <1>1, <1>2, DivModRadix
<1> HIDE DEF a1, a2, a3, b1, b2, b3
<1>9. a2 = b2
  BY <1>3, <1>7, <1>8
<1>10. a1 = b1
  BY <1>3, <1>8, <1>9
<1>11. QED
  BY <1>3, <1>8, <1>10
--------------------------------------------------------------------------------
(***************************************************************************)
(* The walk from a PML4 k to the entry of a page, in a memory m.           *)
(***************************************************************************)
Entry4(m, k, va) == m[k][Index(va, 4)]
Entry3(m, k, va) == m[Entry4(m, k, va).addr][Index(va, 3)]
Entry2(m, k, va) == m[Entry3(m, k, va).addr][Index(va, 2)]
Entry1(m, k, va) == m[Entry2(m, k, va).addr][Index(va, 1)]

\* Table t is where the walk for a page arrives at a level.
Reaches(m, k, va, level, t) ==
  /\ level = 4 => t = k
  /\ level \in {1, 2, 3} => present(Entry4(m, k, va))
  /\ level \in {1, 2} => present(Entry3(m, k, va))
  /\ level = 1 => present(Entry2(m, k, va)) /\ t = Entry2(m, k, va).addr
  /\ level = 2 => t = Entry3(m, k, va).addr
  /\ level = 3 => t = Entry4(m, k, va).addr

\* What a page is mapped to when every table grants every right.
Leaf(m, k, va) ==
  IF /\ present(Entry4(m, k, va)) /\ present(Entry3(m, k, va))
     /\ present(Entry2(m, k, va)) /\ present(Entry1(m, k, va))
    THEN Entry1(m, k, va) ELSE NoPTE

\* Present entries lead to tables of the next level.
LEMMA WalkTables ==
  ASSUME NEW m, NEW k, NEW va \in VPages
  PROVE  /\ present(Entry4(m, k, va)) => Entry4(m, k, va).addr \in Tab3(m, k)
         /\ present(Entry4(m, k, va)) /\ present(Entry3(m, k, va))
            => Entry3(m, k, va).addr \in Tab2(m, k)
         /\ present(Entry4(m, k, va)) /\ present(Entry3(m, k, va))
               /\ present(Entry2(m, k, va))
            => Entry2(m, k, va).addr \in Tab1(m, k)
<1>0. va \in Nat
  BY DEF VPages
<1>1. /\ Index(va, 4) \in Slots /\ Index(va, 3) \in Slots /\ Index(va, 2) \in Slots
  BY <1>0, IndexType
<1>2. ASSUME NEW T, NEW t \in T, NEW s \in Slots, present(m[t][s])
      PROVE  m[t][s].addr \in Down(m, T)
  BY <1>2, DownMember
<1>3. present(Entry4(m, k, va)) => Entry4(m, k, va).addr \in Tab3(m, k)
  BY <1>1, <1>2 DEF Entry4, Tab3
<1>4. present(Entry4(m, k, va)) /\ present(Entry3(m, k, va))
         => Entry3(m, k, va).addr \in Tab2(m, k)
  BY <1>1, <1>2, <1>3 DEF Entry3, Tab2
<1>5. /\ present(Entry4(m, k, va)) /\ present(Entry3(m, k, va))
         /\ present(Entry2(m, k, va))
      => Entry2(m, k, va).addr \in Tab1(m, k)
  BY <1>1, <1>2, <1>4 DEF Entry2, Tab1
<1>6. QED
  BY <1>3, <1>4, <1>5

\* The table a walk is at is one of the tables of its level.
LEMMA ReachedTable ==
  ASSUME NEW m, NEW k, NEW va \in VPages, NEW level \in 1 .. 4, NEW t,
         Reaches(m, k, va, level, t)
  PROVE  /\ level = 4 => t = k
         /\ level = 3 => t \in Tab3(m, k)
         /\ level = 2 => t \in Tab2(m, k)
         /\ level = 1 => t \in Tab1(m, k)
         /\ level > 1 => t \in Upper(m, k)
<1>1. level = 1 \/ level = 2 \/ level = 3 \/ level = 4
  OBVIOUS
<1>2. QED
  BY <1>1, WalkTables DEF Reaches, Upper

\* Entering a new, empty table changes what no page is mapped to, and the walk
\* that needed the table goes on in it.
LEMMA LinkWalk ==
  ASSUME NEW m, NEW m2, NEW k, NEW t \in Upper(m, k), NEW x \in Slots, NEW b,
         IsTree(m, k), b \notin AllTab(m, k),
         ~present(m[t][x]), m2[t][x] = Link(b), m2[b] = ZeroTable,
         \A s \in Slots : s # x => m2[t][s] = m[t][s],
         \A u : u \in AllTab(m, k) /\ u # t => m2[u] = m[u],
         NEW va \in VPages
  PROVE  /\ Leaf(m2, k, va) = Leaf(m, k, va)
         /\ \A level \in 2 .. 4 :
              Reaches(m, k, va, level, t) /\ x = Index(va, level)
              => Reaches(m2, k, va, level - 1, b)
<1> DEFINE i4 == Index(va, 4)  i3 == Index(va, 3)  i2 == Index(va, 2)  i1 == Index(va, 1)
           e4 == Entry4(m, k, va)  e3 == Entry3(m, k, va)
           e2 == Entry2(m, k, va)  e1 == Entry1(m, k, va)
           f4 == Entry4(m2, k, va)  f3 == Entry3(m2, k, va)
           f2 == Entry2(m2, k, va)  f1 == Entry1(m2, k, va)
<1>1. i4 \in Slots /\ i3 \in Slots /\ i2 \in Slots /\ i1 \in Slots
  <2>1. va \in Nat
    BY DEF VPages
  <2>2. QED
    BY <2>1, IndexType
<1>2. /\ e4 = m[k][i4] /\ e3 = m[e4.addr][i3] /\ e2 = m[e3.addr][i2] /\ e1 = m[e2.addr][i1]
      /\ f4 = m2[k][i4] /\ f3 = m2[f4.addr][i3] /\ f2 = m2[f3.addr][i2]
      /\ f1 = m2[f2.addr][i1]
  BY DEF Entry4, Entry3, Entry2, Entry1
<1>3. /\ present(e4) => e4.addr \in Tab3(m, k)
      /\ present(e4) /\ present(e3) => e3.addr \in Tab2(m, k)
      /\ present(e4) /\ present(e3) /\ present(e2) => e2.addr \in Tab1(m, k)
  BY WalkTables
<1>4. ASSUME NEW u \in AllTab(m, k), NEW s \in Slots, ~(u = t /\ s = x)
      PROVE  m2[u][s] = m[u][s]
  BY <1>4
<1>5. \A s \in Slots : ~present(m2[b][s])
  BY DEF ZeroTable, present, NoPTE
<1>6. m2[t][x].addr = b /\ present(m2[t][x])
  BY DEF Link, LinkFlags, present, ReadWrite
<1>7. t = k \/ t \in Tab3(m, k) \/ t \in Tab2(m, k)
  BY DEF Upper
<1>8. /\ k \in AllTab(m, k) /\ Tab3(m, k) \subseteq AllTab(m, k)
      /\ Tab2(m, k) \subseteq AllTab(m, k) /\ Tab1(m, k) \subseteq AllTab(m, k)
      /\ t \notin Tab1(m, k)
  BY <1>7 DEF AllTab, Upper, IsTree
<1> DEFINE L == IF present(e4) /\ present(e3) /\ present(e2) /\ present(e1)
                  THEN e1 ELSE NoPTE
           M == IF present(f4) /\ present(f3) /\ present(f2) /\ present(f1)
                  THEN f1 ELSE NoPTE
<1>9. L = Leaf(m, k, va) /\ M = Leaf(m2, k, va)
  BY DEF Leaf
<1> HIDE DEF i4, i3, i2, i1, e4, e3, e2, e1, f4, f3, f2, f1
<1>10. present(e4) => f4 = e4
  BY <1>1, <1>2, <1>4, <1>8
<1>11. present(e4) /\ present(e3) => f3 = e3
  <2> SUFFICES ASSUME present(e4), present(e3) PROVE f3 = e3
    OBVIOUS
  <2>1. e4.addr \in AllTab(m, k) /\ f4.addr = e4.addr /\ ~(e4.addr = t /\ i3 = x)
    BY <1>2, <1>3, <1>8, <1>10
  <2>2. m2[e4.addr][i3] = m[e4.addr][i3]
    BY ONLY <1>1, <1>4, <2>1
  <2>3. QED
    BY ONLY <1>2, <2>1, <2>2
<1>12. present(e4) /\ present(e3) /\ present(e2) => f2 = e2
  <2> SUFFICES ASSUME present(e4), present(e3), present(e2) PROVE f2 = e2
    OBVIOUS
  <2>1. e3.addr \in AllTab(m, k) /\ f3.addr = e3.addr /\ ~(e3.addr = t /\ i2 = x)
    BY <1>2, <1>3, <1>8, <1>11
  <2>2. m2[e3.addr][i2] = m[e3.addr][i2]
    BY ONLY <1>1, <1>4, <2>1
  <2>3. QED
    BY ONLY <1>2, <2>1, <2>2
<1>13. M = L
  <2>1. CASE ~present(e4)
    <3>1. CASE k = t /\ i4 = x
      BY <1>1, <1>2, <1>5, <1>6, <2>1, <3>1
    <3>2. CASE ~(k = t /\ i4 = x)
      BY <1>1, <1>2, <1>4, <1>8, <2>1, <3>2
    <3>3. QED
      BY <3>1, <3>2
  <2>2. CASE present(e4) /\ ~present(e3)
    <3>1. CASE e4.addr = t /\ i3 = x
      BY <1>1, <1>2, <1>5, <1>6, <1>10, <2>2, <3>1
    <3>2. CASE ~(e4.addr = t /\ i3 = x)
      <4>1. e4.addr \in AllTab(m, k) /\ f4.addr = e4.addr
        BY <1>3, <1>8, <1>10, <2>2
      <4>2. m2[e4.addr][i3] = m[e4.addr][i3]
        BY ONLY <1>1, <1>4, <3>2, <4>1
      <4>3. f3 = e3
        BY ONLY <1>2, <4>1, <4>2
      <4>4. QED
        BY <2>2, <4>3
    <3>3. QED
      BY <3>1, <3>2
  <2>3. CASE present(e4) /\ present(e3) /\ ~present(e2)
    <3>1. CASE e3.addr = t /\ i2 = x
      BY <1>1, <1>2, <1>5, <1>6, <1>10, <1>11, <2>3, <3>1
    <3>2. CASE ~(e3.addr = t /\ i2 = x)
      <4>1. e3.addr \in AllTab(m, k) /\ f3.addr = e3.addr
        BY <1>3, <1>8, <1>11, <2>3
      <4>2. m2[e3.addr][i2] = m[e3.addr][i2]
        BY ONLY <1>1, <1>4, <3>2, <4>1
      <4>3. f2 = e2
        BY ONLY <1>2, <4>1, <4>2
      <4>4. QED
        BY <2>3, <4>3
    <3>3. QED
      BY <3>1, <3>2
  <2>4. CASE present(e4) /\ present(e3) /\ present(e2)
    <3>0. e2.addr \in AllTab(m, k) /\ f2.addr = e2.addr /\ e2.addr # t
      BY <1>3, <1>8, <1>12, <2>4
    <3>1. f1 = e1
      BY <1>1, <1>2, <1>4, <3>0
    <3>2. QED
      BY <1>10, <1>11, <1>12, <2>4, <3>1
  <2>5. QED
    BY <2>1, <2>2, <2>3, <2>4
<1>14. ASSUME NEW level \in 2 .. 4, Reaches(m, k, va, level, t), x = Index(va, level)
       PROVE  Reaches(m2, k, va, level - 1, b)
  <2>1. CASE level = 4
    <3>1. t = k /\ x = i4 /\ level - 1 = 3
      BY <1>14, <2>1 DEF Reaches, i4
    <3>2. present(f4) /\ b = f4.addr
      BY <1>2, <1>6, <3>1
    <3>3. QED
      BY <3>1, <3>2 DEF Reaches, f4
  <2>2. CASE level = 3
    <3>1. present(e4) /\ t = e4.addr /\ x = i3 /\ level - 1 = 2
      BY <1>14, <2>2 DEF Reaches, i3, e4
    <3>2. present(f4) /\ present(f3) /\ b = f3.addr
      BY <1>2, <1>6, <1>10, <3>1
    <3>3. QED
      BY <3>1, <3>2 DEF Reaches, f4, f3
  <2>3. CASE level = 2
    <3>1. present(e4) /\ present(e3) /\ t = e3.addr /\ x = i2 /\ level - 1 = 1
      BY <1>14, <2>3 DEF Reaches, i2, e4, e3
    <3>2. present(f4) /\ present(f3) /\ present(f2) /\ b = f2.addr
      BY <1>2, <1>6, <1>10, <1>11, <3>1
    <3>3. QED
      BY <3>1, <3>2 DEF Reaches, f4, f3, f2
  <2>4. QED
    BY <2>1, <2>2, <2>3
<1>15. QED
  BY <1>9, <1>13, <1>14

\* A store in the lowest table of a page's walk changes what that page is
\* mapped to, and no other page.
LEMMA LeafWalk ==
  ASSUME NEW m, NEW m2, NEW k, IsTree(m, k), NEW va \in VPages, NEW t, NEW pte,
         Reaches(m, k, va, 1, t), m2[t][Index(va, 1)] = pte,
         \A s \in Slots : s # Index(va, 1) => m2[t][s] = m[t][s],
         \A u : u \in AllTab(m, k) /\ u # t => m2[u] = m[u]
  PROVE  /\ Leaf(m2, k, va) = IF present(pte) THEN pte ELSE NoPTE
         /\ \A vb \in VPages : vb # va => Leaf(m2, k, vb) = Leaf(m, k, vb)
<1>0. t \in Tab1(m, k)
  BY ReachedTable
<1>1. t \in Tab1(m, k) /\ t \notin Upper(m, k)
  BY <1>0 DEF IsTree, Upper
<1>2. \A u \in Upper(m, k) : m2[u] = m[u]
  BY <1>1 DEF AllTab
<1>3. ASSUME NEW v \in VPages
      PROVE  /\ Entry4(m2, k, v) = Entry4(m, k, v)
             /\ present(Entry4(m, k, v)) => Entry3(m2, k, v) = Entry3(m, k, v)
             /\ present(Entry4(m, k, v)) /\ present(Entry3(m, k, v))
                => Entry2(m2, k, v) = Entry2(m, k, v)
  <2>1. k \in Upper(m, k) /\ Tab3(m, k) \subseteq Upper(m, k)
        /\ Tab2(m, k) \subseteq Upper(m, k)
    BY DEF Upper
  <2>2. Entry4(m2, k, v) = Entry4(m, k, v)
    BY <1>2, <2>1 DEF Entry4
  <2>3. present(Entry4(m, k, v)) => Entry3(m2, k, v) = Entry3(m, k, v)
    BY <1>2, <2>1, <2>2, WalkTables DEF Entry3
  <2>4. present(Entry4(m, k, v)) /\ present(Entry3(m, k, v))
           => Entry2(m2, k, v) = Entry2(m, k, v)
    BY <1>2, <2>1, <2>3, WalkTables DEF Entry2
  <2>5. QED
    BY <2>2, <2>3, <2>4
<1>4. /\ present(Entry4(m, k, va)) /\ present(Entry3(m, k, va))
      /\ present(Entry2(m, k, va)) /\ t = Entry2(m, k, va).addr
  BY DEF Reaches
<1>5. Entry1(m2, k, va) = pte
  BY <1>3, <1>4 DEF Entry1
<1>6. Leaf(m2, k, va) = IF present(pte) THEN pte ELSE NoPTE
  BY <1>3, <1>4, <1>5 DEF Leaf
<1>7. ASSUME NEW vb \in VPages, vb # va PROVE Leaf(m2, k, vb) = Leaf(m, k, vb)
  <2>1. CASE ~(/\ present(Entry4(m, k, vb)) /\ present(Entry3(m, k, vb))
               /\ present(Entry2(m, k, vb)))
    BY <1>3, <2>1 DEF Leaf
  <2>2. CASE /\ present(Entry4(m, k, vb)) /\ present(Entry3(m, k, vb))
             /\ present(Entry2(m, k, vb))
    <3>1. va \in Nat /\ vb \in Nat
      BY DEF VPages
    <3>2. /\ Index(va, 4) \in Slots /\ Index(va, 3) \in Slots /\ Index(va, 2) \in Slots
          /\ Index(vb, 4) \in Slots /\ Index(vb, 3) \in Slots /\ Index(vb, 2) \in Slots
          /\ Index(vb, 1) \in Slots
      BY <3>1, IndexType
    <3>3. Entry2(m, k, vb).addr \in Tab1(m, k) /\ Tab1(m, k) \subseteq AllTab(m, k)
      BY <2>2, WalkTables DEF AllTab
    <3>4. ~(Entry2(m, k, vb).addr = t /\ Index(vb, 1) = Index(va, 1))
      <4> SUFFICES ASSUME Entry2(m, k, vb).addr = t, Index(vb, 1) = Index(va, 1)
                   PROVE  FALSE
        OBVIOUS
      <4>1. /\ EnteredOnce(m, {k}) /\ EnteredOnce(m, Tab3(m, k))
            /\ EnteredOnce(m, Tab2(m, k))
        BY DEF IsTree
      <4>2. /\ Entry3(m, k, va).addr \in Tab2(m, k) /\ Entry3(m, k, vb).addr \in Tab2(m, k)
            /\ Entry4(m, k, va).addr \in Tab3(m, k) /\ Entry4(m, k, vb).addr \in Tab3(m, k)
        BY <1>4, <2>2, WalkTables
      <4>3. /\ Entry3(m, k, va).addr = Entry3(m, k, vb).addr
            /\ Index(va, 2) = Index(vb, 2)
        BY <1>4, <2>2, <3>2, <4>1, <4>2 DEF EnteredOnce, Entry2
      <4>4. /\ Entry4(m, k, va).addr = Entry4(m, k, vb).addr
            /\ Index(va, 3) = Index(vb, 3)
        BY <1>4, <2>2, <3>2, <4>1, <4>2, <4>3 DEF EnteredOnce, Entry3
      <4>5. Index(va, 4) = Index(vb, 4)
        BY <1>4, <2>2, <3>2, <4>1, <4>4 DEF EnteredOnce, Entry4
      <4>6. \A level \in 1 .. 4 : Index(va, level) = Index(vb, level)
        <5>1. \A level \in 1 .. 4 : level = 1 \/ level = 2 \/ level = 3 \/ level = 4
          OBVIOUS
        <5>2. QED
          BY ONLY <5>1, <4>3, <4>4, <4>5, Index(vb, 1) = Index(va, 1)
      <4>7. QED
        BY <1>7, <4>6, IndexInjective
    <3>5. m2[Entry2(m, k, vb).addr][Index(vb, 1)] = m[Entry2(m, k, vb).addr][Index(vb, 1)]
      BY <3>2, <3>3, <3>4
    <3>6. Entry1(m2, k, vb) = Entry1(m, k, vb)
      BY <1>3, <2>2, <3>5 DEF Entry1
    <3>7. QED
      BY <1>3, <2>2, <3>6 DEF Leaf
  <2>3. QED
    BY <2>1, <2>2
<1>8. QED
  BY <1>6, <1>7
--------------------------------------------------------------------------------
(***************************************************************************)
(* The inductive invariant.                                                *)
(***************************************************************************)
PhaseInv ==
  /\ pc # "ready" => vpc = "start"
  /\ vpc = "start" => kernel_page_map = 0 /\ entry = 1
  /\ kernel_page_map = 0 => held = {} /\ owned = {} /\ call = NoCall
  /\ vpc \in Loops \cup {"set_ctx", "ready"} =>
       kernel_page_map # 0 /\ kernel_address # NULL
  /\ vpc \in {"bitmap", "entries"} => entry \in 1 .. Len(memmap)

TreeInv == kernel_page_map # 0 => IsTree(mem, kernel_page_map)

AccountInv ==
  kernel_page_map # 0 =>
    /\ owned = AllTab(mem, kernel_page_map) \cup held
    /\ AllTab(mem, kernel_page_map) \cap held = {}

\* Entries of the upper tables grant every right.
LinkInv ==
  kernel_page_map # 0 =>
    \A t \in Upper(mem, kernel_page_map), s \in Slots :
      present(mem[t][s]) => mem[t][s].flags = LinkFlags

\* A call is at the table its walk has reached; what it will free is held.
WalkInv ==
  call # NoCall =>
    /\ Reaches(mem, kernel_page_map, call.va, call.level, call.table)
    /\ call.op = "map" => PTE_BIT_PRESENT \in call.flags
    /\ call.op = "free" =>
         /\ Leaf(mem, kernel_page_map, call.va).addr \in held
         /\ call.pa = 0 /\ call.flags = {}

VmmIInv == /\ PmmIInv /\ VmmTypeOK /\ PhaseInv
           /\ TreeInv /\ AccountInv /\ LinkInv /\ WalkInv
--------------------------------------------------------------------------------
(***************************************************************************)
(* What the steps do to blocks and tables.                                 *)
(***************************************************************************)

\* The block at address 0 is never handed out.
LEMMA ZeroNotOwned == PmmIInv => 0 \notin owned
<1> SUFFICES ASSUME PmmIInv, 0 \in owned PROVE FALSE
  OBVIOUS
<1>1. UsableBlock(0) /\ pc = "ready" /\ memmap \in Memmaps
  BY DEF PmmIInv, OwnedInv, NoCallerBeforeReady, PmmTypeOK
<1>2. PICK k \in 1 .. Len(memmap) :
        memmap[k].type = USABLE /\ memmap[k].base <= block2addr(0)
  BY <1>1 DEF UsableBlock
<1>3. memmap[k].base \in Nat /\ memmap[k].base >= BLOCK_SIZE
  BY <1>1, <1>2, MemmapAssumption, MemmapEntries DEF WellFormed
<1>4. block2addr(0) = 0
  BY SMT DEF block2addr
<1>5. QED
  BY <1>2, <1>3, <1>4

\* pmm_alloc_block returns NULL and nothing changes, or a block nobody has.
LEMMA AllocResult ==
  ASSUME PmmIInv, pmm_alloc_block
  PROVE  /\ pc = "ready" /\ pc' = "ready" /\ memmap' = memmap
         /\ ret' = 0 => owned' = owned
         /\ ret' # 0 => /\ addr2block(ret') \in Blocks \ {0}
                        /\ addr2block(ret') \notin owned
                        /\ owned' = owned \cup {addr2block(ret')}
                        /\ 1 \in 1 .. Len(memmap)
<1>1. pc = "ready" /\ pc' = "ready" /\ memmap' = memmap
  BY DEF pmm_alloc_block
<1>2. CASE FreeBits = {} /\ ret' = 0 /\ UNCHANGED <<bitmap, owned>>
  BY <1>1, <1>2
<1>3. ASSUME NEW block \in FreeBits, ret' = block2addr(block),
             owned' = owned \cup {block}
      PROVE  /\ ret' # 0 /\ addr2block(ret') = block /\ block \in Blocks \ {0}
             /\ block \notin owned /\ 1 \in 1 .. Len(memmap)
  <2>1. block \in Blocks \ {0} /\ block \in Nat
    BY <1>1, ZeroNotFree
  <2>2. addr2block(ret') = block
    BY <1>3, <2>1, MultNat DEF addr2block, block2addr
  <2>3. ret' # 0
    <3>1. addr2block(0) = 0
      BY SMT DEF addr2block
    <3>2. QED
      BY <2>1, <2>2, <3>1
  <2>4. UsableBlock(block) /\ block \notin owned
    BY <1>1 DEF PmmIInv, ReadyInv, FreeBits
  <2>5. memmap \in Memmaps
    BY <1>1 DEF PmmIInv, PmmTypeOK
  <2>6. Len(memmap) \in Nat
    BY <2>5, MemmapAssumption DEF WellFormed
  <2>7. PICK k \in 1 .. Len(memmap) : TRUE
    BY <2>4 DEF UsableBlock
  <2>8. QED
    BY <2>1, <2>2, <2>3, <2>4, <2>6, <2>7
<1>4. \/ FreeBits = {} /\ ret' = 0 /\ UNCHANGED <<bitmap, owned>>
      \/ \E block \in FreeBits : ret' = block2addr(block) /\ owned' = owned \cup {block}
  BY DEF pmm_alloc_block
<1>5. QED
  BY <1>1, <1>2, <1>3, <1>4

Entered(m, t, x, b) == [m EXCEPT ![b] = ZeroTable, ![t][x] = Link(b)]
Stored(m, t, x, pte) == [m EXCEPT ![t][x] = pte]

\* The stores of get_lower_table.
LEMMA LinkStore ==
  ASSUME NEW m \in AllTables, NEW t \in Blocks, NEW b \in Blocks, t # b, NEW x \in Slots,
         NEW m2, m2 = Entered(m, t, x, b)
  PROVE  /\ m2 \in AllTables /\ m2[t][x] = Link(b) /\ m2[b] = ZeroTable
         /\ \A s \in Slots : s # x => m2[t][s] = m[t][s]
         /\ \A u \in Blocks : u # t /\ u # b => m2[u] = m[u]
<1>1. ZeroTable \in [Slots -> PTEs] /\ Link(b) \in PTEs
  BY DEF ZeroTable, NoPTE, PTEs, PteBits, Link, LinkFlags, ReadWrite
<1> DEFINE n1 == [m EXCEPT ![b] = ZeroTable]
<1>2. /\ n1 \in AllTables /\ n1[b] = ZeroTable /\ n1[t] = m[t]
      /\ \A u \in Blocks : u # b => n1[u] = m[u]
  BY <1>1 DEF AllTables
<1>3. m2 = [n1 EXCEPT ![t] = [n1[t] EXCEPT ![x] = Link(b)]]
  BY DEF Entered
<1> HIDE DEF n1
<1>4. n1[t] \in [Slots -> PTEs]
  BY <1>2 DEF AllTables
<1>5. m2 \in AllTables
  BY <1>1, <1>2, <1>3, <1>4 DEF AllTables
<1>6. m2[t] = [m[t] EXCEPT ![x] = Link(b)]
  BY <1>2, <1>3 DEF AllTables
<1>7. \A u \in Blocks : u # t => m2[u] = n1[u]
  BY <1>2, <1>3 DEF AllTables
<1>8. QED
  BY <1>2, <1>4, <1>5, <1>6, <1>7

\* The store of vmm_map_page and vmm_free_page.
LEMMA LeafStore ==
  ASSUME NEW m \in AllTables, NEW t \in Blocks, NEW x \in Slots, NEW pte \in PTEs,
         NEW m2, m2 = Stored(m, t, x, pte)
  PROVE  /\ m2 \in AllTables /\ m2[t][x] = pte
         /\ \A s \in Slots : s # x => m2[t][s] = m[t][s]
         /\ \A u \in Blocks : u # t => m2[u] = m[u]
BY DEF AllTables, Stored

\* An empty PML4 has no tables below it and maps nothing.
LEMMA EmptyTree ==
  ASSUME NEW m, NEW k, m[k] = ZeroTable
  PROVE  /\ IsTree(m, k) /\ AllTab(m, k) = {k} /\ Upper(m, k) = {k}
         /\ \A s \in Slots : ~present(m[k][s])
         /\ \A va \in VPages : Leaf(m, k, va) = NoPTE
<1>1. \A s \in Slots : ~present(m[k][s])
  BY DEF ZeroTable, present, NoPTE
<1>2. Tab3(m, k) = {} /\ EnteredOnce(m, {k})
  BY <1>1, DownMember DEF Tab3, EnteredOnce
<1>3. Tab2(m, k) = {} /\ EnteredOnce(m, Tab3(m, k))
  BY <1>2, DownMember DEF Tab2, EnteredOnce
<1>4. Tab1(m, k) = {} /\ EnteredOnce(m, Tab2(m, k))
  BY <1>3, DownMember DEF Tab1, EnteredOnce
<1>5. ASSUME NEW va \in VPages PROVE Leaf(m, k, va) = NoPTE
  <2>1. va \in Nat
    BY DEF VPages
  <2>2. Index(va, 4) \in Slots
    BY <2>1, IndexType
  <2>3. QED
    BY <1>1, <2>2 DEF Leaf, Entry4
<1>6. QED
  BY <1>1, <1>2, <1>3, <1>4, <1>5 DEF IsTree, AllTab, Upper

\* The block that vmm_free_page frees is one that its caller holds.
LEMMA FreedHeld ==
  ASSUME VmmIInv, call # NoCall, call.level = 1, call.op = "free"
  PROVE  FreedBlock \in held /\ FreedBlock \in owned /\ FreedBlock \in Blocks
<1> DEFINE leaf == Leaf(mem, kernel_page_map, call.va)
<1>1. /\ Reaches(mem, kernel_page_map, call.va, 1, call.table) /\ leaf.addr \in held
  BY DEF VmmIInv, WalkInv
<1>2. kernel_page_map # 0
  BY DEF VmmIInv, PhaseInv
<1>3. held \subseteq owned /\ 0 \notin owned /\ held \subseteq Blocks
  BY <1>2, ZeroNotOwned DEF VmmIInv, AccountInv, VmmTypeOK, TableTypes
<1>4. leaf # NoPTE
  BY <1>1, <1>3 DEF NoPTE
<1>5. leaf = Entry1(mem, kernel_page_map, call.va)
  BY <1>4 DEF Leaf
<1>6. call.table = Entry2(mem, kernel_page_map, call.va).addr
  BY <1>1 DEF Reaches
<1>7. leaf.addr = FreedBlock
  BY <1>5, <1>6 DEF Entry1, FreedBlock
<1>8. QED
  BY <1>1, <1>3, <1>7

\* The VMM's steps are the PMM's, and free only blocks that are handed out.
LEMMA VmmPmmStep ==
  VmmIInv /\ [VmmNext]_<<vmmVars, pmmVars>> => [PmmNext]_pmmVars
<1> SUFFICES ASSUME VmmIInv, [VmmNext]_<<vmmVars, pmmVars>> PROVE [PmmNext]_pmmVars
  OBVIOUS
<1>1. CASE (pmm_init \/ log_panic) /\ UNCHANGED vmmVars
  BY <1>1 DEF PmmNext
<1>2. CASE vmm_init
  BY <1>2 DEF vmm_init, StartVmm, MapNext, LoopDone, vmm_set_ctx, PmmNext
<1>3. CASE get_lower_table
  BY <1>3 DEF get_lower_table, PmmNext
<1>4. CASE vmm_map_page
  BY <1>4 DEF vmm_map_page
<1>5. CASE vmm_free_page
  <2>1. FreedBlock \in owned
    BY <1>5, FreedHeld DEF vmm_free_page
  <2>2. pmm_free_block(block2addr(FreedBlock))
    BY <1>5 DEF vmm_free_page
  <2>3. QED
    BY <2>1, <2>2 DEF PmmNext
<1>6. CASE ClientAlloc
  BY <1>6 DEF ClientAlloc, PmmNext
<1>7. CASE ClientMap \/ ClientFree \/ VmmPanic \/ UNCHANGED <<vmmVars, pmmVars>>
  BY <1>7 DEF ClientMap, ClientFree, VmmPanic
<1>8. QED
  BY <1>1, <1>2, <1>3, <1>4, <1>5, <1>6, <1>7 DEF VmmNext
--------------------------------------------------------------------------------
(***************************************************************************)
(* The loops of vmm_init.                                                  *)
(***************************************************************************)

\* Rounding down is monotonic.
LEMMA DivMonotonic ==
  ASSUME NEW B \in Nat \ {0}, NEW x \in Nat, NEW y \in Nat, x <= y
  PROVE  x \div B <= y \div B
<1>1. PICK p \in Nat, r \in 0 .. B - 1 : x = p * B + r /\ p = x \div B
  BY SMT
<1>2. PICK q \in Nat, s \in 0 .. B - 1 : y = q * B + s /\ q = y \div B
  BY SMT
<1>3. PICK a \in Nat, c \in Nat : a = p * B /\ c = q * B
  BY MultNat
<1>4. q < p => c + B <= a
  BY <1>3, MultMonotonic
<1>5. QED
  BY <1>1, <1>2, <1>3, <1>4

\* Rounding an empty region gives no page.
LEMMA NoPages == ALIGN_UP(0) = 0
<1>1. \A B \in Nat \ {0} : (B - 1) \div B = 0
  BY SMT
<1>2. 0 + BLOCK_SIZE - 1 = BLOCK_SIZE - 1
  OBVIOUS
<1>3. QED
  BY <1>1, <1>2 DEF ALIGN_UP

\* A region's loop starts at natural pages.
LEMMA HhdmTypes ==
  ASSUME hhdmoffset \in Nat, NEW addr \in Nat, NEW length, NEW flags
  PROVE  /\ Hhdm(addr, length, flags).va \in Nat /\ Hhdm(addr, length, flags).pa \in Nat
         /\ Hhdm(addr, length, flags).flags = flags
         /\ Hhdm(addr, length, flags).pages = ALIGN_UP(length)
<1>1. ALIGN_DOWN(addr + hhdmoffset) \in Nat /\ ALIGN_DOWN(addr) \in Nat
  BY DivNat DEF ALIGN_DOWN
<1>2. QED
  BY <1>1 DEF Hhdm, Loop

\* So does a section's, because it lies above the kernel's virtual base.
LEMMA SectionTypes ==
  ASSUME kernel_address \in KernelAddresses \ {NULL}, NEW s \in DOMAIN Sections, NEW flags
  PROVE  /\ Section(Sections[s], flags).va \in Nat /\ Section(Sections[s], flags).pa \in Nat
         /\ Section(Sections[s], flags).flags = flags
<1>1. /\ kernel_address.virtual_base \in Nat /\ kernel_address.physical_base \in Nat
  OBVIOUS
<1>2. s = "text" \/ s = "rodata" \/ s = "data"
  OBVIOUS
<1>3. Sections[s].start \in Nat
  BY <1>2
<1>4. kernel_address.virtual_base <= Sections[s].start
  BY SectionsAssumption
<1>5. /\ ALIGN_DOWN(Sections[s].start) \in Nat
      /\ ALIGN_DOWN(kernel_address.virtual_base) \in Nat
      /\ ALIGN_DOWN(kernel_address.physical_base) \in Nat
      /\ ALIGN_DOWN(kernel_address.virtual_base) <= ALIGN_DOWN(Sections[s].start)
  BY <1>1, <1>3, <1>4, DivNat, DivMonotonic DEF ALIGN_DOWN
<1>6. ALIGN_DOWN(Sections[s].start) - ALIGN_DOWN(kernel_address.virtual_base)
        + ALIGN_DOWN(kernel_address.physical_base) \in Nat
  BY ONLY <1>5
<1>7. QED
  BY <1>5, <1>6 DEF Section, Loop

\* Every page that a loop of vmm_init maps is mapped present.
LEMMA LoopTypes ==
  ASSUME VmmIInv, vpc \in Loops
  PROVE  /\ CurrentLoop.va \in Nat /\ CurrentLoop.pa \in Nat
         /\ CurrentLoop.flags \subseteq PteBits
         /\ n < CurrentLoop.pages => PTE_BIT_PRESENT \in CurrentLoop.flags
<1> DEFINE Good(l) == /\ l.va \in Nat /\ l.pa \in Nat /\ l.flags \subseteq PteBits
                      /\ n < l.pages => PTE_BIT_PRESENT \in l.flags
<1>1. /\ hhdmoffset \in Nat /\ n \in Nat /\ kernel_address \in KernelAddresses \ {NULL}
      /\ pmm_usable_addr \in Nat
  BY DEF VmmIInv, VmmTypeOK, BootTypes, PhaseInv, PmmIInv, PmmTypeOK
<1>2. /\ ReadOnly \subseteq PteBits /\ ReadWrite \subseteq PteBits
      /\ NoExecute \subseteq PteBits
      /\ PTE_BIT_PRESENT \in ReadOnly /\ PTE_BIT_PRESENT \in ReadWrite
  BY DEF ReadOnly, ReadWrite, NoExecute, PteBits
<1>3. ASSUME NEW addr \in Nat, NEW length, NEW flags, flags \subseteq PteBits,
             length = 0 \/ PTE_BIT_PRESENT \in flags
      PROVE  Good(Hhdm(addr, length, flags))
  <2>1. /\ Hhdm(addr, length, flags).va \in Nat /\ Hhdm(addr, length, flags).pa \in Nat
        /\ Hhdm(addr, length, flags).flags = flags
        /\ Hhdm(addr, length, flags).pages = ALIGN_UP(length)
    BY <1>1, HhdmTypes
  <2>2. length = 0 => ~(n < ALIGN_UP(length))
    BY <1>1, NoPages
  <2>3. QED
    BY <1>3, <2>1, <2>2
<1>4. ASSUME NEW s \in DOMAIN Sections, NEW flags, flags \subseteq PteBits,
             PTE_BIT_PRESENT \in flags
      PROVE  Good(Section(Sections[s], flags))
  BY <1>1, <1>4, SectionTypes
<1>5. CASE vpc = "bitmap"
  <2>1. CurrentLoop = Hhdm(pmm_usable_addr, BitmapBytes, ReadWrite)
    BY <1>5 DEF CurrentLoop
  <2>2. QED
    BY <1>1, <1>2, <1>3, <2>1
<1>6. CASE vpc = "entries"
  <2>1. CurrentLoop = EntryLoop(memmap[entry])
    BY <1>6 DEF CurrentLoop
  <2>2. pc = "ready" /\ entry \in 1 .. Len(memmap) /\ memmap \in Memmaps
    BY <1>6 DEF VmmIInv, PhaseInv, PmmIInv, PmmTypeOK
  <2>3. memmap[entry].base \in Nat
    BY <2>2, MemmapEntries
  <2>4. ReadWrite \cup NoExecute \subseteq PteBits /\ PTE_BIT_PRESENT \in ReadWrite \cup NoExecute
    BY <1>2
  <2> DEFINE e == memmap[entry]
  <2>5. \/ EntryLoop(e) = Hhdm(e.base, e.length, ReadWrite)
        \/ EntryLoop(e) = Hhdm(e.base, e.length, ReadWrite \cup NoExecute)
        \/ EntryLoop(e) = Hhdm(e.base, 0, {})
    BY DEF EntryLoop
  <2> HIDE DEF e, Good
  <2>6. /\ Good(Hhdm(e.base, e.length, ReadWrite))
        /\ Good(Hhdm(e.base, e.length, ReadWrite \cup NoExecute))
        /\ Good(Hhdm(e.base, 0, {}))
    BY <1>2, <1>3, <2>3, <2>4 DEF e
  <2>7. Good(CurrentLoop)
    BY <2>1, <2>5, <2>6 DEF e
  <2>8. QED
    BY <2>7 DEF Good
<1>7. CASE vpc \in {"text", "rodata", "data"}
  <2>1. /\ vpc = "text" => CurrentLoop = Section(Sections["text"], ReadOnly)
        /\ vpc = "rodata" => CurrentLoop = Section(Sections["rodata"], ReadOnly \cup NoExecute)
        /\ vpc = "data" => CurrentLoop = Section(Sections["data"], ReadWrite \cup NoExecute)
    BY <1>7 DEF CurrentLoop
  <2>2. "text" \in DOMAIN Sections /\ "rodata" \in DOMAIN Sections /\ "data" \in DOMAIN Sections
    OBVIOUS
  <2>3. /\ ReadOnly \cup NoExecute \subseteq PteBits
        /\ PTE_BIT_PRESENT \in ReadOnly \cup NoExecute
        /\ ReadWrite \cup NoExecute \subseteq PteBits
        /\ PTE_BIT_PRESENT \in ReadWrite \cup NoExecute
    BY <1>2
  <2> HIDE DEF Good
  <2>4. Good(CurrentLoop)
    BY <1>2, <1>4, <1>7, <2>1, <2>2, <2>3
  <2>5. QED
    BY <2>4 DEF Good
<1>8. CASE vpc = "identity"
  <2>1. CurrentLoop = Loop(1, 1, ALIGN_DOWN(IdentityTop) - 1, ReadWrite \cup NoExecute)
    BY <1>8 DEF CurrentLoop, IdentityBase
  <2>2. /\ CurrentLoop.va = 1 /\ CurrentLoop.pa = 1
        /\ CurrentLoop.flags = ReadWrite \cup NoExecute
    BY <2>1 DEF Loop
  <2>3. QED
    BY <1>2, <2>2
<1>9. CASE vpc = "lapic"
  <2>1. CurrentLoop = Hhdm(lapic_addr, 1, ReadWrite)
    BY <1>9 DEF CurrentLoop
  <2>2. QED
    BY <1>1, <1>2, <1>3, <2>1
<1>10. QED
  BY <1>5, <1>6, <1>7, <1>8, <1>9 DEF Loops
--------------------------------------------------------------------------------
(***************************************************************************)
(* Every action keeps the invariant.                                       *)
(***************************************************************************)
VmmParts == VmmTypeOK /\ PhaseInv /\ TreeInv /\ AccountInv /\ LinkInv /\ WalkInv

\* The invariant of the tables and blocks, where they stay the same.
LEMMA SameTables ==
  ASSUME VmmIInv, UNCHANGED <<kernel_page_map, mem, owned, held>>
  PROVE  TreeInv' /\ AccountInv' /\ LinkInv'
BY DEF VmmIInv, TreeInv, AccountInv, LinkInv

\* pmm_init, before vmm_init.
LEMMA PmmInitStep ==
  ASSUME VmmIInv, pmm_init \/ log_panic, UNCHANGED vmmVars
  PROVE  VmmParts'
<1>1. pc # "ready" /\ owned' = owned /\ memmap' = memmap
  BY DEF pmm_init, log_panic, CheckMemmap, SumSize, SizeKnown, ParseEntry, PlaceBitmap,
         UnsetEntry, ReserveBitmap, pmmVars
<1>2. /\ UNCHANGED <<vpc, entry, n, hhdm_response, kernel_address, hhdmoffset>>
      /\ UNCHANGED <<kernel_page_map, mem, cr3, call, held>>
  BY DEF vmmVars, bootVars, tableVars
<1>3. vpc = "start" /\ kernel_page_map = 0 /\ call = NoCall
  BY <1>1 DEF VmmIInv, PhaseInv
<1>4. VmmTypeOK'
  <2>1. BootTypes'
    BY <1>2 DEF VmmIInv, VmmTypeOK, BootTypes
  <2>2. TableTypes'
    BY <1>2 DEF VmmIInv, VmmTypeOK, TableTypes
  <2>3. CallTypes'
    BY <1>2, <1>3 DEF CallTypes
  <2>4. QED
    BY <2>1, <2>2, <2>3 DEF VmmTypeOK
<1>5. PhaseInv'
  BY <1>1, <1>2, <1>3 DEF VmmIInv, PhaseInv, Loops
<1>6. TreeInv' /\ AccountInv' /\ LinkInv'
  BY <1>1, <1>2, SameTables
<1>7. WalkInv'
  BY <1>2, <1>3 DEF WalkInv
<1>8. QED
  BY <1>4, <1>5, <1>6, <1>7 DEF VmmParts

\* The beginning of vmm_init: the PML4 is a tree by itself.
LEMMA StartStep ==
  ASSUME VmmIInv, StartVmm
  PROVE  VmmParts'
<1>1. /\ pc = "ready" /\ vpc = "start" /\ hhdmoffset' = hhdm_response
      /\ UNCHANGED <<entry, n, hhdm_response, kernel_address, cr3, call, held>>
  BY DEF StartVmm, bootVars
<1>2. kernel_page_map = 0 /\ held = {} /\ owned = {} /\ call = NoCall
  BY <1>1 DEF VmmIInv, PhaseInv
<1>3. CallTypes' /\ WalkInv'
  BY <1>1, <1>2 DEF CallTypes, WalkInv
<1>4. vpc' \in {"bitmap", "panic"}
  BY DEF StartVmm
<1>5. BootTypes'
  <2>1. hhdm_response \in HhdmOffsets /\ entry \in Nat /\ n \in Nat
        /\ kernel_address \in KernelAddresses
    BY DEF VmmIInv, VmmTypeOK, BootTypes
  <2>2. QED
    BY <1>1, <1>4, <2>1 DEF BootTypes, Loops
<1>6. /\ cr3 = 0 /\ mem \in [Blocks -> [Slots -> PTEs]]
  BY <1>2 DEF VmmIInv, VmmTypeOK, TableTypes
<1>7. CASE vpc' = "panic" /\ UNCHANGED <<kernel_page_map, mem>> /\ owned' = owned /\ pc' = "ready"
  <2>1. TableTypes'
    BY <1>1, <1>2, <1>6, <1>7 DEF TableTypes
  <2>2. PhaseInv'
    BY <1>1, <1>2, <1>7 DEF PhaseInv, Loops
  <2>3. TreeInv' /\ AccountInv' /\ LinkInv'
    BY <1>1, <1>7, SameTables
  <2>4. QED
    BY <1>3, <1>5, <2>1, <2>2, <2>3 DEF VmmParts, VmmTypeOK
<1>8. CASE /\ kernel_address # NULL /\ pmm_alloc_block /\ ret' # 0 /\ vpc' = "bitmap"
           /\ kernel_page_map' = addr2block(ret')
           /\ mem' = [mem EXCEPT ![addr2block(ret')] = ZeroTable]
  <2> DEFINE k == addr2block(ret')
  <2>1. /\ k \in Blocks /\ k # 0 /\ owned' = {k} /\ 1 \in 1 .. Len(memmap)
        /\ pc' = "ready" /\ memmap' = memmap
    BY <1>2, <1>8, AllocResult DEF VmmIInv
  <2>2. ZeroTable \in [Slots -> PTEs]
    BY DEF ZeroTable, NoPTE, PTEs, PteBits
  <2> HIDE DEF k
  <2>3. mem' \in [Blocks -> [Slots -> PTEs]] /\ mem'[k] = ZeroTable
    BY <1>6, <1>8, <2>1, <2>2 DEF k
  <2>4. kernel_page_map' = k
    BY <1>8 DEF k
  <2>5. TableTypes'
    BY <1>1, <1>2, <1>6, <2>1, <2>3, <2>4 DEF TableTypes
  <2>6. /\ IsTree(mem', k) /\ AllTab(mem', k) = {k} /\ Upper(mem', k) = {k}
        /\ \A s \in Slots : ~present(mem'[k][s])
    BY <2>3, EmptyTree
  <2>7. TreeInv' /\ LinkInv'
    BY <2>4, <2>6 DEF TreeInv, LinkInv
  <2>8. AccountInv'
    BY <1>1, <1>2, <2>1, <2>4, <2>6 DEF AccountInv
  <2>9. entry = 1
    BY <1>1 DEF VmmIInv, PhaseInv
  <2>10. PhaseInv'
    BY <1>1, <1>8, <2>1, <2>4, <2>9 DEF PhaseInv, Loops
  <2>11. QED
    BY <1>3, <1>5, <2>5, <2>7, <2>8, <2>10 DEF VmmParts, VmmTypeOK
<1>9. \/ /\ vpc' = "panic" /\ UNCHANGED <<kernel_page_map, mem, pmmVars>>
      \/ /\ kernel_address # NULL /\ pmm_alloc_block /\ ret' = 0
         /\ vpc' = "panic" /\ UNCHANGED <<kernel_page_map, mem>>
      \/ /\ kernel_address # NULL /\ pmm_alloc_block /\ ret' # 0 /\ vpc' = "bitmap"
         /\ kernel_page_map' = addr2block(ret')
         /\ mem' = [mem EXCEPT ![addr2block(ret')] = ZeroTable]
  BY DEF StartVmm
<1>10. QED
  <2>1. UNCHANGED pmmVars => owned' = owned /\ pc' = pc
    BY DEF pmmVars
  <2>2. pmm_alloc_block /\ ret' = 0 => owned' = owned /\ pc' = "ready"
    BY AllocResult DEF VmmIInv
  <2>3. QED
    BY <1>1, <1>7, <1>8, <1>9, <2>1, <2>2

\* A call begins its walk at the PML4.
LEMMA CallStep ==
  ASSUME VmmIInv, NEW op \in {"map", "free"}, NEW va \in Nat, NEW pa \in Nat,
         NEW flags \in SUBSET PteBits, Call(op, va, pa, flags),
         vpc \in Loops \cup {"set_ctx", "ready"}, n' \in Nat,
         op = "map" => PTE_BIT_PRESENT \in flags,
         op = "free" => /\ Leaf(mem, kernel_page_map, va % VPAGES).addr \in held
                        /\ pa = 0 /\ flags = {},
         UNCHANGED <<vpc, entry, bootVars, hhdmoffset, tableVars, held, pmmVars>>
  PROVE  VmmParts'
<1>1. /\ UNCHANGED <<vpc, entry, hhdm_response, kernel_address, hhdmoffset>>
      /\ UNCHANGED <<kernel_page_map, mem, cr3, held, owned, pc, memmap>>
  BY DEF bootVars, tableVars, pmmVars
<1>2. kernel_page_map # 0 /\ kernel_page_map \in Blocks /\ kernel_address # NULL /\ pc = "ready"
  <2>1. vpc # "start"
    BY DEF Loops
  <2>2. QED
    BY <2>1 DEF VmmIInv, PhaseInv, VmmTypeOK, TableTypes
<1>3. va % VPAGES \in VPages
  <2>1. PICK d \in Nat \ {0} : d = VPAGES
    BY SMT DEF VPAGES
  <2>2. va % d \in 0 .. d - 1
    BY SMT
  <2>3. QED
    BY <2>1, <2>2 DEF VPages
<1>4. call' = [op |-> op, va |-> va % VPAGES, pa |-> pa, flags |-> flags,
               level |-> 4, table |-> kernel_page_map]
  BY DEF Call
<1>5. /\ call'.op = op /\ call'.va = va % VPAGES /\ call'.pa = pa /\ call'.flags = flags
      /\ call'.level = 4 /\ call'.table = kernel_page_map
  BY <1>4
<1>6. CallTypes'
  <2>1. 4 \in 1 .. 4
    OBVIOUS
  <2>2. QED
    BY <1>2, <1>3, <1>4, <2>1 DEF CallTypes
<1>7. BootTypes'
  BY <1>1 DEF VmmIInv, VmmTypeOK, BootTypes
<1>8. TableTypes'
  BY <1>1 DEF VmmIInv, VmmTypeOK, TableTypes
<1>9. PhaseInv'
  BY <1>1, <1>2 DEF VmmIInv, PhaseInv
<1>10. TreeInv' /\ AccountInv' /\ LinkInv'
  BY <1>1, SameTables
<1>11. WalkInv'
  BY <1>1, <1>5 DEF WalkInv, Reaches
<1>12. QED
  BY <1>6, <1>7, <1>8, <1>9, <1>10, <1>11 DEF VmmParts, VmmTypeOK

\* The loops of vmm_init call vmm_map_page.
LEMMA MapNextStep ==
  ASSUME VmmIInv, MapNext
  PROVE  VmmParts'
<1> DEFINE l == CurrentLoop
<1>1. /\ vpc \in Loops /\ n < l.pages /\ n' = n + 1
      /\ Call("map", l.va + n, l.pa + n, l.flags)
      /\ UNCHANGED <<vpc, entry, bootVars, hhdmoffset, tableVars, held, pmmVars>>
  BY DEF MapNext, CallMapPage
<1>2. /\ l.va \in Nat /\ l.pa \in Nat /\ l.flags \subseteq PteBits
      /\ PTE_BIT_PRESENT \in l.flags
  BY <1>1, LoopTypes
<1>3. n \in Nat
  BY DEF VmmIInv, VmmTypeOK, BootTypes
<1> HIDE DEF l
<1>4. l.va + n \in Nat /\ l.pa + n \in Nat /\ n' \in Nat
  BY <1>1, <1>2, <1>3
<1>5. vpc \in Loops \cup {"set_ctx", "ready"} /\ "map" \in {"map", "free"} /\ "map" # "free"
  BY <1>1
<1>6. l.flags \in SUBSET PteBits
  BY <1>2
<1>7. QED
  BY <1>1, <1>2, <1>4, <1>5, <1>6, CallStep

\* The rest of vmm_init.
LEMMA LoopStep ==
  ASSUME VmmIInv, LoopDone \/ vmm_set_ctx
  PROVE  VmmParts'
<1>1. /\ UNCHANGED <<hhdm_response, kernel_address, hhdmoffset>>
      /\ UNCHANGED <<kernel_page_map, mem, held, owned, call, pc, memmap>>
      /\ vpc \in Loops \cup {"set_ctx"}
  BY DEF LoopDone, vmm_set_ctx, bootVars, tableVars, pmmVars
<1>2. kernel_page_map # 0 /\ kernel_address # NULL /\ pc = "ready"
  <2>1. vpc # "start"
    BY <1>1 DEF Loops
  <2>2. QED
    BY <1>1, <2>1 DEF VmmIInv, PhaseInv
<1>3. /\ entry \in Nat /\ n \in Nat /\ hhdm_response \in HhdmOffsets
      /\ hhdmoffset \in {0, hhdm_response} /\ kernel_address \in KernelAddresses
  BY DEF VmmIInv, VmmTypeOK, BootTypes
<1>4. TreeInv' /\ AccountInv' /\ LinkInv'
  BY <1>1, SameTables
<1>5. CallTypes'
  BY <1>1 DEF VmmIInv, VmmTypeOK, CallTypes
<1>6. WalkInv'
  BY <1>1 DEF VmmIInv, WalkInv
<1>7. CASE LoopDone
  <2>1. vpc \in Loops /\ vpc' = AfterLoop /\ n' = 0 /\ cr3' = cr3
        /\ entry' = IF vpc = "entries" THEN entry + 1 ELSE entry
    BY <1>7 DEF LoopDone, tableVars
  <2>2. vpc' \in Loops \cup {"set_ctx"} /\ vpc' # "bitmap"
        /\ (vpc' = "entries" => vpc = "bitmap" \/ (vpc = "entries" /\ entry < Len(memmap)))
    <3>1. CASE vpc = "entries" /\ entry < Len(memmap)
      BY <2>1, <3>1 DEF AfterLoop, Loops
    <3>2. CASE vpc = "entries" /\ ~(entry < Len(memmap))
      BY <2>1, <3>2 DEF AfterLoop, Loops
    <3>3. CASE vpc = "bitmap"
      <4>1. AfterLoop = "entries"
        BY ONLY <3>3 DEF AfterLoop
      <4>2. QED
        BY ONLY <2>1, <3>3, <4>1 DEF Loops
    <3>4. CASE vpc = "text"
      BY <2>1, <3>4 DEF AfterLoop, Loops
    <3>5. CASE vpc = "rodata"
      BY <2>1, <3>5 DEF AfterLoop, Loops
    <3>6. CASE vpc = "data"
      BY <2>1, <3>6 DEF AfterLoop, Loops
    <3>7. CASE vpc = "identity"
      BY <2>1, <3>7 DEF AfterLoop, Loops
    <3>8. CASE vpc = "lapic"
      BY <2>1, <3>8 DEF AfterLoop, Loops
    <3>9. QED
      BY <2>1, <3>1, <3>2, <3>3, <3>4, <3>5, <3>6, <3>7, <3>8 DEF Loops
  <2>3. entry' \in Nat
    BY <1>3, <2>1
  <2>4. BootTypes'
    BY <1>1, <1>3, <2>1, <2>2, <2>3 DEF BootTypes
  <2>5. TableTypes'
    BY <1>1, <2>1 DEF VmmIInv, VmmTypeOK, TableTypes
  <2>6. vpc' = "entries" => entry' \in 1 .. Len(memmap)
    <3>1. CASE vpc = "bitmap"
      BY <2>1, <3>1 DEF VmmIInv, PhaseInv
    <3>2. CASE vpc = "entries" /\ entry < Len(memmap)
      <4>1. memmap \in Memmaps
        BY <1>2 DEF VmmIInv, PmmIInv, PmmTypeOK
      <4>2. Len(memmap) \in Nat
        BY <4>1, MemmapAssumption DEF WellFormed
      <4>3. QED
        BY <1>3, <2>1, <3>2, <4>2
    <3>3. QED
      BY <2>2, <3>1, <3>2
  <2>7. PhaseInv'
    <3>1. vpc' # "start"
      BY <2>2 DEF Loops
    <3>2. QED
      BY <1>1, <1>2, <2>2, <2>6, <3>1 DEF PhaseInv
  <2>8. QED
    BY <1>4, <1>5, <1>6, <2>4, <2>5, <2>7 DEF VmmParts, VmmTypeOK
<1>8. CASE vmm_set_ctx
  <2>1. vpc' = "ready" /\ cr3' = kernel_page_map /\ UNCHANGED <<entry, n>>
    BY <1>8 DEF vmm_set_ctx
  <2>2. BootTypes'
    BY <1>1, <1>3, <2>1 DEF BootTypes
  <2>3. TableTypes'
    BY <1>1, <2>1 DEF VmmIInv, VmmTypeOK, TableTypes
  <2>4. PhaseInv'
    BY <1>1, <1>2, <2>1 DEF PhaseInv, Loops
  <2>5. QED
    BY <1>4, <1>5, <1>6, <2>2, <2>3, <2>4 DEF VmmParts, VmmTypeOK
<1>9. QED
  BY <1>7, <1>8

\* A present entry takes the walk one level down.
LEMMA ReachesDown ==
  ASSUME NEW m, NEW k, NEW va, NEW level \in 2 .. 4, NEW t,
         Reaches(m, k, va, level, t), present(m[t][Index(va, level)])
  PROVE  Reaches(m, k, va, level - 1, m[t][Index(va, level)].addr)
<1>1. CASE level = 4
  <2>1. level - 1 = 3
    BY <1>1
  <2>2. QED
    BY <1>1, <2>1 DEF Reaches, Entry4
<1>2. CASE level = 3
  <2>1. level - 1 = 2
    BY <1>2
  <2>2. QED
    BY <1>2, <2>1 DEF Reaches, Entry3
<1>3. CASE level = 2
  <2>1. level - 1 = 1
    BY <1>3
  <2>2. QED
    BY <1>3, <2>1 DEF Reaches, Entry2
<1>4. QED
  BY <1>1, <1>2, <1>3

\* What the invariant says of a call and the table it is at.
LEMMA CallFacts ==
  ASSUME VmmIInv, call # NoCall
  PROVE  /\ kernel_page_map # 0 /\ kernel_page_map \in Blocks /\ pc = "ready"
         /\ IsTree(mem, kernel_page_map) /\ mem \in AllTables
         /\ owned = AllTab(mem, kernel_page_map) \cup held
         /\ AllTab(mem, kernel_page_map) \cap held = {} /\ owned \subseteq Blocks
         /\ call.op \in {"map", "free"} /\ call.va \in VPages /\ call.pa \in Nat
         /\ call.flags \in SUBSET PteBits /\ call.level \in 1 .. 4
         /\ Reaches(mem, kernel_page_map, call.va, call.level, call.table)
         /\ Index(call.va, call.level) \in Slots
         /\ call.table \in AllTab(mem, kernel_page_map) /\ call.table \in Blocks
         /\ call.level > 1 => call.table \in Upper(mem, kernel_page_map)
<1>1. /\ call.op \in {"map", "free"} /\ call.va \in VPages /\ call.pa \in Nat
      /\ call.flags \in SUBSET PteBits /\ call.level \in 1 .. 4 /\ call.table \in Blocks
  BY DEF VmmIInv, VmmTypeOK, CallTypes
<1>2. kernel_page_map # 0 /\ kernel_page_map \in Blocks /\ pc = "ready"
  BY DEF VmmIInv, PhaseInv, VmmTypeOK, TableTypes
<1>3. /\ IsTree(mem, kernel_page_map) /\ mem \in AllTables
      /\ owned = AllTab(mem, kernel_page_map) \cup held
      /\ AllTab(mem, kernel_page_map) \cap held = {} /\ owned \subseteq Blocks
  BY <1>2 DEF VmmIInv, TreeInv, AccountInv, VmmTypeOK, TableTypes, AllTables, PmmIInv, PmmTypeOK
<1>4. Reaches(mem, kernel_page_map, call.va, call.level, call.table)
  BY DEF VmmIInv, WalkInv
<1>5. call.va \in Nat
  BY <1>1 DEF VPages
<1>6. Index(call.va, call.level) \in Slots
  BY <1>1, <1>5, IndexType
<1>7. /\ call.table \in AllTab(mem, kernel_page_map)
      /\ call.level > 1 => call.table \in Upper(mem, kernel_page_map)
  <2>1. /\ call.level = 1 => call.table \in Tab1(mem, kernel_page_map)
        /\ call.level > 1 => call.table \in Upper(mem, kernel_page_map)
    BY <1>1, <1>4, ReachedTable
  <2>2. call.level = 1 \/ call.level > 1
    BY <1>1
  <2>3. QED
    BY <2>1, <2>2 DEF AllTab
<1>8. QED
  BY <1>1, <1>2, <1>3, <1>4, <1>6, <1>7

\* get_lower_table: the table is there, or a new one is entered.
LEMMA LowerTableStep ==
  ASSUME VmmIInv, get_lower_table
  PROVE  VmmParts'
<1> DEFINE k == kernel_page_map  t == call.table  x == Index(call.va, call.level)
           pte == mem[t][x]
<1>1. /\ call # NoCall /\ call.level > 1 /\ vpc # "panic"
      /\ UNCHANGED <<entry, n, hhdm_response, kernel_address, hhdmoffset>>
      /\ UNCHANGED <<kernel_page_map, cr3, held>>
  BY DEF get_lower_table, bootVars
<1>2. /\ k # 0 /\ k \in Blocks /\ pc = "ready" /\ IsTree(mem, k) /\ mem \in AllTables
      /\ owned = AllTab(mem, k) \cup held /\ AllTab(mem, k) \cap held = {}
      /\ owned \subseteq Blocks
      /\ call.op \in {"map", "free"} /\ call.va \in VPages /\ call.pa \in Nat
      /\ call.flags \in SUBSET PteBits /\ call.level \in 1 .. 4
      /\ Reaches(mem, k, call.va, call.level, t) /\ x \in Slots
      /\ t \in AllTab(mem, k) /\ t \in Blocks /\ t \in Upper(mem, k)
  BY <1>1, CallFacts
<1>3. call.level \in 2 .. 4 /\ call.level - 1 \in 1 .. 4
  BY <1>1, <1>2
<1>4. call \in [op : {"map", "free"}, va : VPages, pa : Nat,
                flags : SUBSET PteBits, level : 1 .. 4, table : Blocks]
  BY <1>1 DEF VmmIInv, VmmTypeOK, CallTypes
<1>5. vpc # "start"
  BY <1>2 DEF VmmIInv, PhaseInv
<1>6. BootTypes /\ TableTypes /\ CallTypes /\ PhaseInv /\ WalkInv /\ LinkInv
  BY DEF VmmIInv, VmmTypeOK
<1>7. \A b : call' = [call EXCEPT !.table = b, !.level = @ - 1] =>
        /\ b \in Blocks => CallTypes'
        /\ call'.op = call.op /\ call'.va = call.va /\ call'.pa = call.pa
        /\ call'.flags = call.flags /\ call'.level = call.level - 1 /\ call'.table = b
  BY <1>3, <1>4 DEF CallTypes
<1>8. CASE /\ present(pte) /\ call' = [call EXCEPT !.table = pte.addr, !.level = @ - 1]
           /\ UNCHANGED <<vpc, mem, pmmVars>>
  <2>1. Reaches(mem, k, call.va, call.level - 1, pte.addr)
    BY <1>2, <1>3, <1>8, ReachesDown
  <2>2. pte.addr \in AllTab(mem, k)
    <3>1. call.level - 1 = 1 \/ call.level - 1 > 1
      BY <1>3
    <3>2. QED
      BY <1>2, <1>3, <2>1, <3>1, ReachedTable DEF AllTab
  <2>3. pte.addr \in Blocks
    BY <1>2, <2>2
  <2> HIDE DEF pte, t, x
  <2>4. /\ CallTypes' /\ call'.op = call.op /\ call'.va = call.va /\ call'.pa = call.pa
        /\ call'.flags = call.flags /\ call'.level = call.level - 1 /\ call'.table = pte.addr
    BY <1>7, <1>8, <2>3
  <2>5. UNCHANGED <<owned, pc, memmap>>
    BY <1>8 DEF pmmVars
  <2>6. BootTypes'
    BY <1>1, <1>6, <1>8 DEF BootTypes
  <2>7. TableTypes'
    BY <1>1, <1>6, <1>8 DEF TableTypes
  <2>8. PhaseInv'
    BY <1>1, <1>2, <1>5, <1>6, <1>8, <2>5 DEF PhaseInv
  <2>9. TreeInv' /\ AccountInv' /\ LinkInv'
    BY <1>1, <1>8, <2>5, SameTables
  <2>10. WalkInv'
    BY <1>1, <1>6, <1>8, <2>1, <2>4 DEF WalkInv
  <2>11. QED
    BY <2>4, <2>6, <2>7, <2>8, <2>9, <2>10 DEF VmmParts, VmmTypeOK
<1>9. CASE /\ pmm_alloc_block /\ ret' = 0 /\ vpc' = "panic" /\ UNCHANGED <<mem, call>>
  <2>1. UNCHANGED <<owned, pc, memmap>>
    BY <1>9, AllocResult DEF VmmIInv
  <2>2. BootTypes'
    BY <1>1, <1>6, <1>9 DEF BootTypes
  <2>3. TableTypes'
    BY <1>1, <1>6, <1>9 DEF TableTypes
  <2>4. CallTypes'
    BY <1>6, <1>9 DEF CallTypes
  <2>5. PhaseInv'
    BY <1>1, <1>2, <1>9, <2>1 DEF PhaseInv, Loops
  <2>6. TreeInv' /\ AccountInv' /\ LinkInv'
    BY <1>1, <1>9, <2>1, SameTables
  <2>7. WalkInv'
    BY <1>1, <1>6, <1>9 DEF WalkInv
  <2>8. QED
    BY <2>2, <2>3, <2>4, <2>5, <2>6, <2>7 DEF VmmParts, VmmTypeOK
<1>10. ASSUME ~present(pte), pmm_alloc_block, ret' # 0, vpc' = vpc, NEW b, b = addr2block(ret'),
              mem' = Entered(mem, t, x, b),
              call' = [call EXCEPT !.table = b, !.level = @ - 1]
       PROVE  VmmParts'
  <2>1. /\ b \in Blocks /\ b \notin owned /\ owned' = owned \cup {b}
        /\ pc' = "ready" /\ memmap' = memmap
    BY <1>10, AllocResult DEF VmmIInv
  <2>2. b \notin AllTab(mem, k) /\ b \notin held /\ t # b
    BY <1>2, <2>1
  <2> HIDE DEF pte, t, x, k
  <2>3. /\ mem' \in AllTables /\ mem'[t][x] = Link(b) /\ mem'[b] = ZeroTable
        /\ \A s \in Slots : s # x => mem'[t][s] = mem[t][s]
        /\ \A u \in Blocks : u # t /\ u # b => mem'[u] = mem[u]
    <3>1. /\ mem \in AllTables /\ t \in Blocks /\ b \in Blocks /\ t # b /\ x \in Slots
          /\ mem' = Entered(mem, t, x, b)
      BY <1>2, <1>10, <2>1, <2>2
    <3>2. QED
      BY ONLY <3>1, LinkStore
  <2>4. \A u : u \in AllTab(mem, k) /\ u # t => mem'[u] = mem[u]
    BY <1>2, <2>2, <2>3
  <2>5. ~present(mem[t][x])
    BY <1>10 DEF pte
  <2>6. /\ IsTree(mem', k) /\ AllTab(mem', k) = AllTab(mem, k) \cup {b}
        /\ Upper(mem', k) \subseteq Upper(mem, k) \cup {b}
    <3>1. t \in Upper(mem, k) /\ x \in Slots /\ IsTree(mem, k)
      BY <1>2
    <3>2. QED
      BY ONLY <2>2, <2>3, <2>4, <2>5, <3>1, LinkTree
  <2>7. /\ Leaf(mem', k, call.va) = Leaf(mem, k, call.va)
        /\ \A level \in 2 .. 4 :
             Reaches(mem, k, call.va, level, t) /\ x = Index(call.va, level)
             => Reaches(mem', k, call.va, level - 1, b)
    <3>1. call.va \in VPages
      BY <1>2
    <3>2. QED
      BY ONLY <1>2, <2>2, <2>3, <2>4, <2>5, <3>1, LinkWalk
  <2>8. Reaches(mem', k, call.va, call.level - 1, b)
    BY <1>2, <1>3, <2>7 DEF x
  <2>9. /\ CallTypes' /\ call'.op = call.op /\ call'.va = call.va /\ call'.pa = call.pa
        /\ call'.flags = call.flags /\ call'.level = call.level - 1 /\ call'.table = b
    BY <1>7, <1>10, <2>1
  <2>10. kernel_page_map' = k /\ kernel_page_map = k
    BY <1>1 DEF k
  <2>11. BootTypes'
    BY <1>1, <1>6, <1>10 DEF BootTypes
  <2>12. TableTypes'
    BY <1>1, <1>6, <2>3 DEF TableTypes, AllTables
  <2>13. PhaseInv'
    BY <1>1, <1>2, <1>5, <1>6, <1>10, <2>1, <2>10 DEF PhaseInv
  <2>14. TreeInv'
    BY <2>6, <2>10 DEF TreeInv
  <2>15. AccountInv'
    BY <1>1, <1>2, <2>1, <2>2, <2>6, <2>10 DEF AccountInv
  <2>16. LinkInv'
    <3> SUFFICES ASSUME NEW u \in Upper(mem', k), NEW s \in Slots, present(mem'[u][s])
                 PROVE  mem'[u][s].flags = LinkFlags
      BY <2>10 DEF LinkInv
    <3>1. u \in Upper(mem, k) \/ u = b
      BY <2>6
    <3>2. u # b
      BY <2>3 DEF ZeroTable, NoPTE, present
    <3>3. CASE u = t /\ s = x
      BY <2>3, <3>3 DEF Link
    <3>4. CASE ~(u = t /\ s = x)
      <4>1. u \in AllTab(mem, k)
        BY <3>1, <3>2 DEF AllTab
      <4>2. mem'[u][s] = mem[u][s]
        BY <2>3, <2>4, <3>4, <4>1
      <4>3. QED
        BY <1>2, <1>6, <2>10, <3>1, <3>2, <4>2 DEF LinkInv
    <3>5. QED
      BY <3>3, <3>4
  <2>17. WalkInv'
    BY <1>1, <1>6, <2>7, <2>8, <2>9, <2>10 DEF WalkInv
  <2>18. QED
    BY <2>9, <2>11, <2>12, <2>13, <2>14, <2>15, <2>16, <2>17 DEF VmmParts, VmmTypeOK
<1>11. \/ /\ present(pte) /\ call' = [call EXCEPT !.table = pte.addr, !.level = @ - 1]
          /\ UNCHANGED <<vpc, mem, pmmVars>>
       \/ /\ pmm_alloc_block /\ ret' = 0 /\ vpc' = "panic" /\ UNCHANGED <<mem, call>>
       \/ /\ ~present(pte) /\ pmm_alloc_block /\ ret' # 0 /\ vpc' = vpc
          /\ mem' = Entered(mem, t, x, addr2block(ret'))
          /\ call' = [call EXCEPT !.table = addr2block(ret'), !.level = @ - 1]
  BY DEF get_lower_table, Cleared, Entered, Link, LinkFlags
<1>12. QED
  BY <1>8, <1>9, <1>10, <1>11

\* The end of vmm_map_page and of vmm_free_page: a store in a lowest table.
LEMMA StoreStep ==
  ASSUME VmmIInv, call # NoCall, call.level = 1, call' = NoCall, NEW pte \in PTEs,
         mem' = Stored(mem, call.table, Index(call.va, 1), pte),
         NEW freed, freed \subseteq held, held' = held \ freed, owned' = owned \ freed,
         UNCHANGED <<vpc, entry, n, bootVars, hhdmoffset, kernel_page_map, cr3, pc, memmap>>
  PROVE  VmmParts'
<1> DEFINE k == kernel_page_map  t == call.table  x == Index(call.va, 1)
<1>1. UNCHANGED <<hhdm_response, kernel_address>>
  BY DEF bootVars
<1>2. /\ k # 0 /\ k \in Blocks /\ pc = "ready" /\ IsTree(mem, k) /\ mem \in AllTables
      /\ owned = AllTab(mem, k) \cup held /\ AllTab(mem, k) \cap held = {}
      /\ owned \subseteq Blocks /\ call.va \in VPages /\ x \in Slots
      /\ Reaches(mem, k, call.va, 1, t) /\ t \in Blocks
  BY CallFacts
<1>3. t \in Tab1(mem, k)
  BY <1>2, ReachedTable
<1>4. /\ mem' \in AllTables /\ \A u \in Blocks : u # t => mem'[u] = mem[u]
  <2>1. /\ mem \in AllTables /\ t \in Blocks /\ x \in Slots /\ pte \in PTEs
        /\ mem' = Stored(mem, t, x, pte)
    BY <1>2
  <2> HIDE DEF t, x
  <2>2. QED
    BY ONLY <2>1, LeafStore
<1>5. \A u \in Upper(mem, k) : mem'[u] = mem[u]
  BY <1>2, <1>3, <1>4 DEF IsTree, AllTab, Upper
<1>6. /\ IsTree(mem', k) /\ AllTab(mem', k) = AllTab(mem, k)
      /\ Upper(mem', k) = Upper(mem, k)
  <2>1. /\ IsTree(mem', k) /\ AllTab(mem', k) = AllTab(mem, k)
        /\ Tab3(mem', k) = Tab3(mem, k) /\ Tab2(mem', k) = Tab2(mem, k)
    BY ONLY <1>2, <1>5, LeafTree
  <2>2. QED
    BY <2>1 DEF Upper
<1>7. BootTypes'
  BY <1>1 DEF VmmIInv, VmmTypeOK, BootTypes
<1>8. TableTypes'
  BY <1>4 DEF VmmIInv, VmmTypeOK, TableTypes, AllTables
<1>9. CallTypes' /\ WalkInv'
  BY DEF CallTypes, WalkInv
<1>10. PhaseInv'
  BY <1>1, <1>2 DEF VmmIInv, PhaseInv
<1>11. TreeInv'
  BY <1>6 DEF TreeInv
<1>12. AccountInv'
  BY <1>2, <1>6 DEF AccountInv
<1>13. LinkInv'
  BY <1>5, <1>6 DEF VmmIInv, LinkInv
<1>14. QED
  BY <1>7, <1>8, <1>9, <1>10, <1>11, <1>12, <1>13 DEF VmmParts, VmmTypeOK

\* vmm_map_page stores what it was called with.
LEMMA MapStep ==
  ASSUME VmmIInv, vmm_map_page
  PROVE  VmmParts'
<1>1. PICK pte \in PTEs : pte = [addr |-> call.pa, flags |-> call.flags]
  BY CallFacts DEF vmm_map_page, PTEs
<1>2. PICK freed : freed = {}
  OBVIOUS
<1>3. /\ mem' = Stored(mem, call.table, Index(call.va, 1), pte)
      /\ call # NoCall /\ call.level = 1 /\ call' = NoCall
      /\ UNCHANGED <<vpc, entry, n, bootVars, hhdmoffset, kernel_page_map, cr3, pc, memmap>>
  BY <1>1 DEF vmm_map_page, pmmVars, Stored
<1>4. /\ freed \subseteq held /\ held' = held \ freed /\ owned' = owned \ freed
  BY <1>2 DEF vmm_map_page, pmmVars
<1>5. QED
  BY ONLY VmmIInv, <1>3, <1>4, StoreStep

\* vmm_free_page clears the entry and gives the block back.
LEMMA FreePageStep ==
  ASSUME VmmIInv, vmm_free_page
  PROVE  VmmParts'
<1>1. NoPTE \in PTEs
  BY DEF NoPTE, PTEs
<1>2. FreedBlock \in held /\ FreedBlock \in Blocks
  BY FreedHeld DEF vmm_free_page
<1>3. addr2block(block2addr(FreedBlock)) = FreedBlock
  BY <1>2, MultNat DEF addr2block, block2addr
<1>4. /\ held' = held \ {FreedBlock} /\ owned' = owned \ {FreedBlock}
      /\ {FreedBlock} \subseteq held /\ UNCHANGED <<pc, memmap>>
  BY <1>2, <1>3 DEF vmm_free_page, pmm_free_block
<1>5. /\ mem' = Stored(mem, call.table, Index(call.va, 1), NoPTE)
      /\ call # NoCall /\ call.level = 1 /\ call' = NoCall
      /\ UNCHANGED <<vpc, entry, n, bootVars, hhdmoffset, kernel_page_map, cr3, pc, memmap>>
  BY <1>4 DEF vmm_free_page, Stored
<1>6. QED
  BY ONLY VmmIInv, <1>1, <1>4, <1>5, StoreStep

\* The processor's translation, where upper tables grant every right.
TranslateIsLeaf ==
  kernel_page_map # 0 =>
    \A va \in VPages : Translate(va) = Leaf(mem, kernel_page_map, va)

\* The page tables that vmm.c builds translate as Leaf says.
LEMMA TranslateLeaf == VmmIInv => TranslateIsLeaf
<1> SUFFICES ASSUME VmmIInv, kernel_page_map # 0, NEW va \in VPages
             PROVE  Translate(va) = Leaf(mem, kernel_page_map, va)
  BY DEF TranslateIsLeaf
<1> DEFINE e4 == Entry4(mem, kernel_page_map, va)  e3 == Entry3(mem, kernel_page_map, va)
           e2 == Entry2(mem, kernel_page_map, va)  e1 == Entry1(mem, kernel_page_map, va)
           rest == e1.flags \ (IF PTE_BIT_READ_WRITE \in e4.flags \cap e3.flags \cap e2.flags
                                 THEN {} ELSE {PTE_BIT_READ_WRITE})
<1>1. va \in Nat
  BY DEF VPages
<1>2. /\ Index(va, 4) \in Slots /\ Index(va, 3) \in Slots /\ Index(va, 2) \in Slots
      /\ Index(va, 1) \in Slots
  BY <1>1, IndexType
<1>3. Translate(va) = IF present(e4) /\ present(e3) /\ present(e2) /\ present(e1)
                        THEN [addr |-> e1.addr, flags |-> rest] ELSE NoPTE
  BY DEF Translate, Entry4, Entry3, Entry2, Entry1
<1>4. /\ present(e4) => e4.addr \in Tab3(mem, kernel_page_map)
      /\ present(e4) /\ present(e3) => e3.addr \in Tab2(mem, kernel_page_map)
      /\ present(e4) /\ present(e3) /\ present(e2) => e2.addr \in Tab1(mem, kernel_page_map)
  BY WalkTables
<1>5. ASSUME present(e4), present(e3), present(e2), present(e1)
      PROVE  [addr |-> e1.addr, flags |-> rest] = e1
  <2>1. \A t \in Upper(mem, kernel_page_map), s \in Slots :
          present(mem[t][s]) => mem[t][s].flags = LinkFlags
    BY DEF VmmIInv, LinkInv
  <2>2. /\ kernel_page_map \in Upper(mem, kernel_page_map)
        /\ e4.addr \in Upper(mem, kernel_page_map) /\ e3.addr \in Upper(mem, kernel_page_map)
    BY <1>4, <1>5 DEF Upper
  <2>3. e4.flags = LinkFlags /\ e3.flags = LinkFlags /\ e2.flags = LinkFlags
    BY <1>2, <1>5, <2>1, <2>2 DEF Entry4, Entry3, Entry2
  <2>4. PTE_BIT_READ_WRITE \in LinkFlags
    BY DEF LinkFlags, ReadWrite
  <2>5. rest = e1.flags
    BY <2>3, <2>4
  <2>6. e2.addr \in Blocks
    <3>1. e2.addr \in AllTab(mem, kernel_page_map)
      BY <1>4, <1>5 DEF AllTab
    <3>2. AllTab(mem, kernel_page_map) \subseteq Blocks
      BY DEF VmmIInv, AccountInv, PmmIInv, PmmTypeOK
    <3>3. QED
      BY <3>1, <3>2
  <2>7. e1 \in PTEs
    <3>1. mem \in [Blocks -> [Slots -> PTEs]]
      BY DEF VmmIInv, VmmTypeOK, TableTypes
    <3>2. e1 = mem[e2.addr][Index(va, 1)]
      BY DEF Entry1
    <3>3. QED
      BY ONLY <1>2, <2>6, <3>1, <3>2
  <2> HIDE DEF rest, e1
  <2>8. QED
    BY <2>5, <2>7 DEF PTEs
<1> HIDE DEF rest, e1, e2, e3, e4
<1>6. Translate(va) = IF present(e4) /\ present(e3) /\ present(e2) /\ present(e1)
                        THEN e1 ELSE NoPTE
  BY <1>3, <1>5
<1>7. QED
  BY <1>6 DEF Leaf, e1, e2, e3, e4

\* A caller maps one of its blocks, or frees what it mapped.
LEMMA ClientCallStep ==
  ASSUME VmmIInv, ClientMap \/ ClientFree
  PROVE  VmmParts'
<1>1. /\ vpc = "ready" /\ n' = n
      /\ UNCHANGED <<vpc, entry, bootVars, hhdmoffset, tableVars, held, pmmVars>>
  BY DEF ClientMap, ClientFree
<1>2. /\ n' \in Nat /\ held \subseteq Nat /\ kernel_page_map # 0
      /\ vpc \in Loops \cup {"set_ctx", "ready"}
  BY <1>1 DEF VmmIInv, VmmTypeOK, BootTypes, TableTypes, PhaseInv
<1>3. ASSUME NEW va \in ClientPages PROVE va \in Nat /\ va \in VPages /\ va % VPAGES = va
  <2>1. PICK d \in Nat \ {0} : d = VPAGES
    BY SMT DEF VPAGES
  <2>2. va \in 0 .. d - 1
    BY <1>3, <2>1 DEF VPAGES
  <2>3. va % d = va
    BY <2>2, SMT
  <2>4. QED
    BY <2>1, <2>2, <2>3 DEF VPages
<1>4. CASE ClientMap
  <2>1. PICK va \in ClientPages, b \in held : Call("map", va, b, ReadWrite)
    BY <1>4 DEF ClientMap, CallMapPage
  <2>2. va \in Nat /\ b \in Nat
    BY <1>2, <1>3
  <2>3. ReadWrite \in SUBSET PteBits /\ PTE_BIT_PRESENT \in ReadWrite
        /\ "map" \in {"map", "free"} /\ "map" # "free"
    BY DEF ReadWrite, PteBits
  <2>4. QED
    BY <1>1, <1>2, <2>1, <2>2, <2>3, CallStep
<1>5. CASE ClientFree
  <2>1. PICK va \in ClientPages : Translate(va).addr \in held /\ Call("free", va, 0, {})
    BY <1>5 DEF ClientFree, CallFreePage
  <2>2. va \in Nat /\ va \in VPages /\ va % VPAGES = va
    BY <1>3
  <2>3. Translate(va) = Leaf(mem, kernel_page_map, va)
    BY <1>2, <2>2, TranslateLeaf DEF TranslateIsLeaf
  <2>4. Leaf(mem, kernel_page_map, va % VPAGES).addr \in held
    BY <2>1, <2>2, <2>3
  <2>5. {} \in SUBSET PteBits /\ 0 \in Nat /\ "free" \in {"map", "free"} /\ "map" # "free"
    OBVIOUS
  <2>6. QED
    BY <1>1, <1>2, <2>1, <2>2, <2>4, <2>5, CallStep
<1>6. QED
  BY <1>4, <1>5

\* A caller takes a block.
LEMMA ClientAllocStep ==
  ASSUME VmmIInv, ClientAlloc
  PROVE  VmmParts'
<1>1. /\ vpc = "ready" /\ call = NoCall /\ pmm_alloc_block
      /\ held' = IF ret' = 0 THEN held ELSE held \cup {addr2block(ret')}
      /\ UNCHANGED <<vpc, entry, n, hhdm_response, kernel_address, hhdmoffset>>
      /\ UNCHANGED <<kernel_page_map, mem, cr3, call>>
  BY DEF ClientAlloc, bootVars, tableVars
<1>2. /\ kernel_page_map # 0 /\ kernel_address # NULL
      /\ owned = AllTab(mem, kernel_page_map) \cup held
      /\ AllTab(mem, kernel_page_map) \cap held = {} /\ held \subseteq Blocks
  BY <1>1 DEF VmmIInv, PhaseInv, AccountInv, VmmTypeOK, TableTypes
<1>3. /\ pc' = "ready"
      /\ ret' = 0 => owned' = owned
      /\ ret' # 0 => /\ addr2block(ret') \in Blocks /\ addr2block(ret') \notin owned
                     /\ owned' = owned \cup {addr2block(ret')}
  BY <1>1, AllocResult DEF VmmIInv
<1>4. AccountInv' /\ held' \subseteq Blocks
  <2> DEFINE T == AllTab(mem, kernel_page_map)  b == addr2block(ret')
  <2>1. AllTab(mem', kernel_page_map') = T
    BY <1>1
  <2> HIDE DEF T, b
  <2>2. \/ owned' = owned /\ held' = held
        \/ b \in Blocks /\ b \notin owned /\ owned' = owned \cup {b} /\ held' = held \cup {b}
    BY <1>1, <1>3 DEF b
  <2>3. owned = T \cup held /\ T \cap held = {} /\ held \subseteq Blocks
    BY <1>2 DEF T
  <2>4. owned' = T \cup held' /\ T \cap held' = {} /\ held' \subseteq Blocks
    BY ONLY <2>2, <2>3
  <2>5. QED
    BY <2>1, <2>4 DEF AccountInv
<1>5. TreeInv' /\ LinkInv'
  BY <1>1 DEF VmmIInv, TreeInv, LinkInv
<1>6. BootTypes'
  BY <1>1 DEF VmmIInv, VmmTypeOK, BootTypes
<1>7. TableTypes'
  BY <1>1, <1>4 DEF VmmIInv, VmmTypeOK, TableTypes
<1>8. CallTypes' /\ WalkInv'
  BY <1>1 DEF CallTypes, WalkInv
<1>9. PhaseInv'
  BY <1>1, <1>2, <1>3 DEF PhaseInv
<1>10. QED
  BY <1>4, <1>5, <1>6, <1>7, <1>8, <1>9 DEF VmmParts, VmmTypeOK

\* A step that changes nothing.
LEMMA StutterStep ==
  ASSUME VmmIInv, UNCHANGED <<vmmVars, pmmVars>>
  PROVE  VmmParts'
<1>1. /\ UNCHANGED <<vpc, entry, n, hhdm_response, kernel_address, hhdmoffset>>
      /\ UNCHANGED <<kernel_page_map, mem, cr3, call, held, owned, pc, memmap>>
  BY DEF vmmVars, bootVars, tableVars, pmmVars
<1>2. BootTypes'
  BY <1>1 DEF VmmIInv, VmmTypeOK, BootTypes
<1>3. TableTypes'
  BY <1>1 DEF VmmIInv, VmmTypeOK, TableTypes
<1>4. CallTypes'
  BY <1>1 DEF VmmIInv, VmmTypeOK, CallTypes
<1>5. PhaseInv'
  BY <1>1 DEF VmmIInv, PhaseInv
<1>6. TreeInv' /\ AccountInv' /\ LinkInv'
  BY <1>1, SameTables
<1>7. WalkInv'
  BY <1>1 DEF VmmIInv, WalkInv
<1>8. QED
  BY <1>2, <1>3, <1>4, <1>5, <1>6, <1>7 DEF VmmParts, VmmTypeOK

\* The invariant holds when the machine starts.
LEMMA VmmInitInv == VmmInit => VmmIInv
<1> SUFFICES ASSUME VmmInit PROVE VmmIInv
  OBVIOUS
<1>1. PmmIInv /\ pc = "start" /\ owned = {}
  BY PmmInitInv DEF VmmInit, PmmInit
<1>2. /\ vpc = "start" /\ entry = 1 /\ n = 0 /\ kernel_page_map = 0 /\ cr3 = 0
      /\ hhdm_response \in HhdmOffsets /\ hhdmoffset = 0
      /\ kernel_address \in KernelAddresses /\ call = NoCall /\ held = {}
      /\ mem \in OldTables
  BY DEF VmmInit
<1>3. BootTypes
  BY <1>2 DEF BootTypes
<1>4. TableTypes
  <2>1. {"PRESENT", "READ_WRITE", "ACCESS_ALL", "EXECUTE_DISABLE"} = PteBits
    BY DEF PteBits, ReadWrite, NoExecute, PTE_BIT_PRESENT, PTE_BIT_READ_WRITE,
           PTE_BIT_ACCESS_ALL, PTE_BIT_EXECUTE_DISABLE
  <2>2. OldTables \subseteq [Blocks -> [Slots -> PTEs]]
    BY ONLY <2>1, TablesAssumption DEF Slots, PTEs
  <2>3. QED
    BY <1>2, <2>2 DEF TableTypes
<1>5. CallTypes /\ WalkInv
  BY <1>2 DEF CallTypes, WalkInv
<1>6. PhaseInv
  BY <1>1, <1>2 DEF PhaseInv, Loops
<1>7. TreeInv /\ AccountInv /\ LinkInv
  BY <1>2 DEF TreeInv, AccountInv, LinkInv
<1>8. QED
  BY <1>1, <1>3, <1>4, <1>5, <1>6, <1>7 DEF VmmIInv, VmmTypeOK

\* Every step of vmm_init, of a call and of the callers keeps it.
LEMMA VmmInvStep == VmmIInv /\ [VmmNext]_<<vmmVars, pmmVars>> => VmmIInv'
<1> SUFFICES ASSUME VmmIInv, [VmmNext]_<<vmmVars, pmmVars>> PROVE VmmIInv'
  OBVIOUS
<1>1. PmmIInv'
  BY VmmPmmStep, PmmInvStep DEF VmmIInv
<1>2. CASE (pmm_init \/ log_panic) /\ UNCHANGED vmmVars
  BY <1>1, <1>2, PmmInitStep DEF VmmIInv, VmmParts
<1>3. CASE vmm_init
  <2>1. VmmParts'
    BY <1>3, StartStep, MapNextStep, LoopStep DEF vmm_init
  <2>2. QED
    BY <1>1, <2>1 DEF VmmIInv, VmmParts
<1>4. CASE get_lower_table
  BY <1>1, <1>4, LowerTableStep DEF VmmIInv, VmmParts
<1>5. CASE vmm_map_page
  BY <1>1, <1>5, MapStep DEF VmmIInv, VmmParts
<1>6. CASE vmm_free_page
  BY <1>1, <1>6, FreePageStep DEF VmmIInv, VmmParts
<1>7. CASE ClientAlloc
  BY <1>1, <1>7, ClientAllocStep DEF VmmIInv, VmmParts
<1>8. CASE ClientMap \/ ClientFree
  BY <1>1, <1>8, ClientCallStep DEF VmmIInv, VmmParts
<1>9. CASE VmmPanic \/ UNCHANGED <<vmmVars, pmmVars>>
  BY <1>1, <1>9, StutterStep DEF VmmIInv, VmmParts, VmmPanic
<1>10. QED
  BY <1>2, <1>3, <1>4, <1>5, <1>6, <1>7, <1>8, <1>9 DEF VmmNext

--------------------------------------------------------------------------------
\* The invariant above holds in every reachable state, whatever the memory map,
\* the boot loader's answers and the previous content of memory.
THEOREM VmmInvariant == VmmSpec => []VmmIInv
<1>1. VmmIInv /\ [VmmNext]_<<vmmVars, pmmVars>> => VmmIInv'
  BY VmmInvStep
<1>2. QED
  BY <1>1, VmmInitInv, PTL DEF VmmSpec

\* vmm_init and the calls keep the variables' types: every table that a walk
\* follows is a block of physical memory.
THEOREM VmmTypeCorrect == VmmSpec => []VmmTypeOK
<1>1. VmmIInv => VmmTypeOK
  BY DEF VmmIInv
<1>2. QED
  BY <1>1, VmmInvariant, PTL

\* The levels of the tables in use.
LEMMA LevelsInUse ==
  ASSUME kernel_page_map # 0
  PROVE  /\ Level4 = {kernel_page_map} /\ Level3 = Tab3(mem, kernel_page_map)
         /\ Level2 = Tab2(mem, kernel_page_map) /\ Level1 = Tab1(mem, kernel_page_map)
BY DEF Level4, Level3, Level2, Level1, Tab3, Tab2, Tab1

\* Without a PML4 there are none.
LEMMA NoLevels ==
  ASSUME kernel_page_map = 0
  PROVE  Level4 = {} /\ Level3 = {} /\ Level2 = {} /\ Level1 = {}
<1>1. Level4 = {}
  BY DEF Level4
<1>2. Level3 = {}
  BY <1>1, DownMember DEF Level3
<1>3. Level2 = {}
  BY <1>2, DownMember DEF Level2
<1>4. Level1 = {}
  BY <1>3, DownMember DEF Level1
<1>5. QED
  BY <1>1, <1>2, <1>3, <1>4

\* get_lower_table and the stores keep the page tables a tree.
THEOREM TablesFormATree == VmmSpec => []TablesAreATree
<1>1. VmmIInv => TablesAreATree
  <2> SUFFICES ASSUME VmmIInv PROVE TablesAreATree
    OBVIOUS
  <2>1. CASE kernel_page_map = 0
    BY <2>1, NoLevels DEF TablesAreATree, EnteredOnce
  <2>2. CASE kernel_page_map # 0
    <3> DEFINE k == kernel_page_map  T3 == Tab3(mem, k)  T2 == Tab2(mem, k)  T1 == Tab1(mem, k)
    <3>1. /\ EnteredOnce(mem, {k}) /\ EnteredOnce(mem, T3) /\ EnteredOnce(mem, T2)
          /\ k \notin T3 /\ k \notin T2 /\ k \notin T1
          /\ T3 \cap T2 = {} /\ T3 \cap T1 = {} /\ T2 \cap T1 = {}
      BY <2>2 DEF VmmIInv, TreeInv, IsTree
    <3>2. Level4 = {k} /\ Level3 = T3 /\ Level2 = T2 /\ Level1 = T1
      BY <2>2, LevelsInUse
    <3> HIDE DEF k, T3, T2, T1
    <3>3. EnteredOnce(mem, Level4) /\ EnteredOnce(mem, Level3) /\ EnteredOnce(mem, Level2)
      BY ONLY <3>1, <3>2
    <3>4. /\ Level4 \cap (Level3 \cup Level2 \cup Level1) = {}
          /\ Level3 \cap (Level2 \cup Level1) = {} /\ Level2 \cap Level1 = {}
      BY ONLY <3>1, <3>2
    <3>5. QED
      BY ONLY <3>3, <3>4 DEF TablesAreATree
  <2>3. QED
    BY <2>1, <2>2
<1>2. QED
  BY <1>1, VmmInvariant, PTL

\* No table is leaked, and none can be handed out to a caller.
THEOREM BlocksAreAccountedFor == VmmSpec => []BlocksAccountedFor
<1>1. VmmIInv => BlocksAccountedFor
  <2> SUFFICES ASSUME VmmIInv PROVE BlocksAccountedFor
    OBVIOUS
  <2>1. CASE kernel_page_map = 0
    BY <2>1, NoLevels DEF BlocksAccountedFor, Tables, VmmIInv, PhaseInv
  <2>2. CASE kernel_page_map # 0
    <3>1. Tables = AllTab(mem, kernel_page_map)
      BY <2>2, LevelsInUse DEF Tables, AllTab, Upper
    <3>2. QED
      BY <2>2, <3>1 DEF BlocksAccountedFor, VmmIInv, AccountInv
  <2>3. QED
    BY <2>1, <2>2
<1>2. QED
  BY <1>1, VmmInvariant, PTL

\* vmm_free_page frees only blocks that are handed out: every behaviour of the
\* VMM is one of the PMM, so all that is proved of the PMM holds under it.
THEOREM VmmUsesPmm == VmmSpec => UsesPmmProperly
<1>1. VmmIInv /\ [VmmNext]_<<vmmVars, pmmVars>> => [PmmNext]_pmmVars
  BY VmmPmmStep
<1>2. VmmInit => PmmInit
  BY DEF VmmInit
<1>3. QED
  BY <1>1, <1>2, VmmInvariant, PTL DEF VmmSpec, UsesPmmProperly, PmmSpec

--------------------------------------------------------------------------------
(***************************************************************************)
(* The page tables implement an address space.                             *)
(***************************************************************************)
Space == [va \in VPages |-> Translate(va)]

Request ==
  IF call = NoCall THEN NoCall
  ELSE [va |-> call.va, to |-> [addr |-> call.pa, flags |-> call.flags]]

\* The translation, after a step.
LEMMA TranslateLeafNext == VmmIInv' => TranslateIsLeaf'
BY TranslateLeaf, PTL

\* Tables that stay the same translate the same.
LEMMA SameSpace ==
  ASSUME UNCHANGED <<mem, kernel_page_map>>
  PROVE  Space' = Space
BY DEF Space, Translate

\* A request is not the absence of one.
LEMMA RequestIsOne ==
  ASSUME call # NoCall
  PROVE  Request # NoCall
<1>1. Request = [va |-> call.va, to |-> [addr |-> call.pa, flags |-> call.flags]]
  BY DEF Request
<1>2. DOMAIN Request = {"va", "to"}
  BY <1>1
<1>3. "op" \in DOMAIN NoCall
  BY DEF NoCall
<1>4. QED
  BY <1>2, <1>3

\* At boot no page is mapped.
LEMMA SpaceInitMaps == VmmInit => AS!SpaceInit
<1> SUFFICES ASSUME VmmInit PROVE AS!SpaceInit
  OBVIOUS
<1>1. call = NoCall /\ kernel_page_map = 0
  BY DEF VmmInit
<1>2. \A va \in VPages : Translate(va) = NoPTE
  BY <1>1 DEF Translate
<1>3. [va \in VPages |-> Translate(va)] = [va \in VPages |-> NoPTE]
  BY <1>2
<1>4. QED
  BY <1>1, <1>3 DEF AS!SpaceInit

\* A step that changes neither what is mapped nor the request is a stutter.
LEMMA SpaceStutter ==
  ASSUME Space' = Space, Request' = Request
  PROVE  [AS!SpaceNext]_(AS!spaceVars)
BY DEF Space, Request, AS!spaceVars

\* A call is a request.
LEMMA SpaceAsk ==
  ASSUME call = NoCall, call' # NoCall, UNCHANGED <<mem, kernel_page_map>>
  PROVE  [AS!SpaceNext]_(AS!spaceVars)
<1>1. Space' = Space
  BY SameSpace
<1>2. Request = NoCall
  BY DEF Request
<1>3. Request' # NoCall
  <2>1. Request' = [va |-> call'.va, to |-> [addr |-> call'.pa, flags |-> call'.flags]]
    BY DEF Request
  <2>2. DOMAIN Request' = {"va", "to"}
    BY <2>1
  <2>3. "op" \in DOMAIN NoCall
    BY DEF NoCall
  <2>4. QED
    BY <2>2, <2>3
<1>4. QED
  BY <1>1, <1>2, <1>3 DEF Space, Request, AS!SpaceNext, AS!Ask

\* A store in the lowest table of the walk is the answer.
LEMMA SpaceAnswer ==
  ASSUME VmmIInv, VmmIInv', call # NoCall, call.level = 1, call' = NoCall,
         kernel_page_map' = kernel_page_map, NEW pte \in PTEs,
         pte = [addr |-> call.pa, flags |-> call.flags], present(pte) \/ pte = NoPTE,
         mem' = Stored(mem, call.table, Index(call.va, 1), pte)
  PROVE  [AS!SpaceNext]_(AS!spaceVars)
<1> DEFINE k == kernel_page_map  t == call.table  x == Index(call.va, 1)
<1>1. /\ k # 0 /\ IsTree(mem, k) /\ mem \in AllTables
      /\ owned = AllTab(mem, k) \cup held /\ owned \subseteq Blocks
      /\ call.va \in VPages /\ x \in Slots
      /\ Reaches(mem, k, call.va, 1, t) /\ t \in Blocks
  BY CallFacts
<1>2. /\ mem'[t][x] = pte
      /\ \A s \in Slots : s # x => mem'[t][s] = mem[t][s]
      /\ \A u \in Blocks : u # t => mem'[u] = mem[u]
  <2>1. mem' = Stored(mem, t, x, pte) /\ pte \in PTEs
    OBVIOUS
  <2> HIDE DEF t, x
  <2>2. QED
    BY ONLY <1>1, <2>1, LeafStore
<1>3. \A u : u \in AllTab(mem, k) /\ u # t => mem'[u] = mem[u]
  BY <1>1, <1>2
<1>4. /\ Leaf(mem', k, call.va) = IF present(pte) THEN pte ELSE NoPTE
      /\ \A vb \in VPages : vb # call.va => Leaf(mem', k, vb) = Leaf(mem, k, vb)
  <2>1. /\ mem'[t][Index(call.va, 1)] = pte
        /\ \A s \in Slots : s # Index(call.va, 1) => mem'[t][s] = mem[t][s]
    BY <1>2
  <2>2. call.va \in VPages /\ IsTree(mem, k) /\ Reaches(mem, k, call.va, 1, t)
    BY <1>1
  <2> HIDE DEF k, t
  <2>3. QED
    BY ONLY <1>3, <2>1, <2>2, LeafWalk
<1>5. /\ \A va \in VPages : Translate(va) = Leaf(mem, k, va)
      /\ \A va \in VPages : Translate(va)' = Leaf(mem', k, va)
  BY <1>1, TranslateLeaf, TranslateLeafNext DEF TranslateIsLeaf
<1>6. Leaf(mem', k, call.va) = pte
  BY <1>4
<1>7. Space' = [Space EXCEPT ![call.va] = pte]
  <2>1. \A va \in VPages : Space[va] = Leaf(mem, k, va) /\ Space'[va] = Leaf(mem', k, va)
    BY <1>5 DEF Space
  <2>2. Space = [va \in VPages |-> Space[va]] /\ Space' = [va \in VPages |-> Space'[va]]
    BY DEF Space
  <2>3. \A va \in VPages : Space'[va] = IF va = call.va THEN pte ELSE Space[va]
    BY <1>4, <1>6, <2>1
  <2>4. QED
    BY ONLY <1>1, <2>2, <2>3
<1>8. Request' = NoCall
  BY DEF Request
<1>9. Request # NoCall /\ Request = [va |-> call.va, to |-> pte]
  BY RequestIsOne DEF Request
<1>10. Request.va = call.va /\ Request.to = pte
  BY <1>9
<1>11. Space' = [Space EXCEPT ![Request.va] = Request.to]
  BY <1>7, <1>10
<1>12. QED
  BY <1>8, <1>9, <1>11 DEF Space, Request, AS!SpaceNext, AS!Answer

\* Building the PML4 and entering tables map nothing.
LEMMA SpaceSilent ==
  ASSUME VmmIInv, VmmIInv', StartVmm \/ get_lower_table
  PROVE  [AS!SpaceNext]_(AS!spaceVars)
<1>1. CASE StartVmm
  <2>1. Request' = Request
    BY <1>1 DEF StartVmm, Request
  <2>2. kernel_page_map = 0
    BY <1>1 DEF StartVmm, VmmIInv, PhaseInv
  <2>3. CASE UNCHANGED <<kernel_page_map, mem>>
    BY <2>1, <2>3, SameSpace, SpaceStutter
  <2>4. CASE /\ pmm_alloc_block /\ ret' # 0 /\ kernel_page_map' = addr2block(ret')
             /\ mem' = [mem EXCEPT ![addr2block(ret')] = ZeroTable]
    <3>1. kernel_page_map' \in Blocks /\ kernel_page_map' # 0
      BY <2>4, AllocResult DEF VmmIInv
    <3>2. mem'[kernel_page_map'] = ZeroTable
      BY <2>4, <3>1 DEF VmmIInv, VmmTypeOK, TableTypes
    <3>3. \A va \in VPages : Leaf(mem', kernel_page_map', va) = NoPTE
      BY <3>2, EmptyTree
    <3>4. \A va \in VPages : Translate(va)' = NoPTE
      BY <3>1, <3>3, TranslateLeafNext DEF TranslateIsLeaf
    <3>5. \A va \in VPages : Translate(va) = NoPTE
      BY <2>2 DEF Translate
    <3>6. Space' = Space
      BY <3>4, <3>5 DEF Space
    <3>7. QED
      BY <2>1, <3>6, SpaceStutter
  <2>5. QED
    BY <1>1, <2>3, <2>4 DEF StartVmm
<1>2. CASE get_lower_table
  <2> DEFINE k == kernel_page_map  t == call.table  x == Index(call.va, call.level)
             pte == mem[t][x]
  <2>1. call # NoCall /\ call.level > 1 /\ kernel_page_map' = k
    BY <1>2 DEF get_lower_table
  <2>2. /\ k # 0 /\ IsTree(mem, k) /\ mem \in AllTables
        /\ owned = AllTab(mem, k) \cup held /\ owned \subseteq Blocks
        /\ call.level \in 1 .. 4 /\ x \in Slots
        /\ t \in AllTab(mem, k) /\ t \in Blocks /\ t \in Upper(mem, k)
    BY <2>1, CallFacts
  <2>3. call \in [op : {"map", "free"}, va : VPages, pa : Nat,
                  flags : SUBSET PteBits, level : 1 .. 4, table : Blocks]
    BY <2>1 DEF VmmIInv, VmmTypeOK, CallTypes
  <2>4. ASSUME NEW b, call' = [call EXCEPT !.table = b, !.level = @ - 1]
        PROVE  Request' = Request
    <3>1. /\ call'.va = call.va /\ call'.pa = call.pa /\ call'.flags = call.flags
          /\ call'.op = call.op /\ call.op # "none"
      BY <2>3, <2>4
    <3>2. call' # NoCall
      BY <3>1 DEF NoCall
    <3>3. QED
      BY <2>1, <3>1, <3>2 DEF Request
  <2>5. CASE call' = [call EXCEPT !.table = pte.addr, !.level = @ - 1] /\ mem' = mem
    BY <2>1, <2>4, <2>5, SameSpace, SpaceStutter
  <2>6. CASE UNCHANGED <<mem, call>>
    <3>1. Request' = Request
      BY <2>6 DEF Request
    <3>2. QED
      BY <2>1, <2>6, <3>1, SameSpace, SpaceStutter
  <2>7. ASSUME ~present(pte), pmm_alloc_block, ret' # 0, NEW b, b = addr2block(ret'),
               mem' = Entered(mem, t, x, b),
               call' = [call EXCEPT !.table = b, !.level = @ - 1]
        PROVE  [AS!SpaceNext]_(AS!spaceVars)
    <3>1. b \in Blocks /\ b \notin owned
      BY <2>7, AllocResult DEF VmmIInv
    <3>2. b \notin AllTab(mem, k) /\ t # b
      BY <2>2, <3>1
    <3>3. ~present(mem[t][x])
      BY <2>7
    <3>4. /\ mem \in AllTables /\ t \in Blocks /\ b \in Blocks /\ t # b /\ x \in Slots
          /\ mem' = Entered(mem, t, x, b)
      BY <2>2, <2>7, <3>1, <3>2
    <3>5. Request' = Request
      BY <2>4, <2>7
    <3>6. /\ \A va \in VPages : Translate(va) = Leaf(mem, k, va)
          /\ \A va \in VPages : Translate(va)' = Leaf(mem', k, va)
      BY <2>1, <2>2, TranslateLeaf, TranslateLeafNext DEF TranslateIsLeaf
    <3> HIDE DEF pte, t, x, k
    <3>7. /\ mem'[t][x] = Link(b) /\ mem'[b] = ZeroTable
          /\ \A s \in Slots : s # x => mem'[t][s] = mem[t][s]
          /\ \A u \in Blocks : u # t /\ u # b => mem'[u] = mem[u]
      BY ONLY <3>4, LinkStore
    <3>8. \A u : u \in AllTab(mem, k) /\ u # t => mem'[u] = mem[u]
      BY <2>2, <3>2, <3>7
    <3>9. ASSUME NEW va \in VPages PROVE Leaf(mem', k, va) = Leaf(mem, k, va)
      <4>1. t \in Upper(mem, k) /\ x \in Slots /\ IsTree(mem, k)
        BY <2>2
      <4>2. va \in VPages /\ b \notin AllTab(mem, k)
        BY <3>2, <3>9
      <4>3. /\ Leaf(mem', k, va) = Leaf(mem, k, va)
            /\ \A level \in 2 .. 4 :
                 Reaches(mem, k, va, level, t) /\ x = Index(va, level)
                 => Reaches(mem', k, va, level - 1, b)
        BY ONLY <3>3, <3>7, <3>8, <4>1, <4>2, LinkWalk
      <4>4. QED
        BY <4>3
    <3>10. Space' = Space
      BY <3>6, <3>9 DEF Space
    <3>11. QED
      BY <3>5, <3>10, SpaceStutter
  <2>8. \/ call' = [call EXCEPT !.table = pte.addr, !.level = @ - 1] /\ mem' = mem
        \/ UNCHANGED <<mem, call>>
        \/ /\ ~present(pte) /\ pmm_alloc_block /\ ret' # 0
           /\ mem' = Entered(mem, t, x, addr2block(ret'))
           /\ call' = [call EXCEPT !.table = addr2block(ret'), !.level = @ - 1]
    BY <1>2 DEF get_lower_table, Cleared, Entered, Link, LinkFlags
  <2>9. QED
    BY <2>5, <2>6, <2>7, <2>8
<1>3. QED
  BY <1>1, <1>2

\* Every step is one of the address space, or none.
LEMMA SpaceStepMaps ==
  VmmIInv /\ VmmIInv' /\ [VmmNext]_<<vmmVars, pmmVars>> => [AS!SpaceNext]_(AS!spaceVars)
<1> SUFFICES ASSUME VmmIInv, VmmIInv', [VmmNext]_<<vmmVars, pmmVars>>
             PROVE  [AS!SpaceNext]_(AS!spaceVars)
  OBVIOUS
<1>1. CASE UNCHANGED <<mem, kernel_page_map, call>>
  <2>1. Request' = Request
    BY <1>1 DEF Request
  <2>2. QED
    BY <1>1, <2>1, SameSpace, SpaceStutter
<1>2. CASE StartVmm \/ get_lower_table
  BY <1>2, SpaceSilent
<1>3. CASE MapNext \/ ClientMap \/ ClientFree
  <2>1. call = NoCall /\ UNCHANGED <<mem, kernel_page_map>> /\ call'.op \in {"map", "free"}
    BY <1>3 DEF MapNext, ClientMap, ClientFree, CallMapPage, CallFreePage, Call, tableVars
  <2>2. call' # NoCall
    BY <2>1 DEF NoCall
  <2>3. QED
    BY <2>1, <2>2, SpaceAsk
<1>4. CASE vmm_map_page
  <2>1. call # NoCall /\ call.level = 1 /\ call.op = "map" /\ call' = NoCall
        /\ kernel_page_map' = kernel_page_map
    BY <1>4 DEF vmm_map_page
  <2>2. PICK pte \in PTEs : pte = [addr |-> call.pa, flags |-> call.flags]
    BY <2>1, CallFacts DEF PTEs
  <2>3. present(pte)
    BY <2>1, <2>2 DEF VmmIInv, WalkInv, present
  <2>4. mem' = Stored(mem, call.table, Index(call.va, 1), pte)
    BY <1>4, <2>2 DEF vmm_map_page, Stored
  <2>5. QED
    BY ONLY VmmIInv, VmmIInv', <2>1, <2>2, <2>3, <2>4, SpaceAnswer
<1>5. CASE vmm_free_page
  <2>1. call # NoCall /\ call.level = 1 /\ call.op = "free" /\ call' = NoCall
        /\ kernel_page_map' = kernel_page_map
    BY <1>5 DEF vmm_free_page
  <2>2. call.pa = 0 /\ call.flags = {}
    BY <2>1 DEF VmmIInv, WalkInv
  <2>3. PICK pte \in PTEs : pte = NoPTE /\ pte = [addr |-> call.pa, flags |-> call.flags]
    <3>1. NoPTE \in PTEs
      BY DEF PTEs, NoPTE
    <3>2. NoPTE = [addr |-> call.pa, flags |-> call.flags]
      BY <2>2 DEF NoPTE
    <3>3. QED
      BY <3>1, <3>2
  <2>4. mem' = Stored(mem, call.table, Index(call.va, 1), pte)
    BY <1>5, <2>3 DEF vmm_free_page, Stored
  <2>5. QED
    BY ONLY VmmIInv, VmmIInv', <2>1, <2>3, <2>4, SpaceAnswer
<1>6. \/ UNCHANGED <<mem, kernel_page_map, call>>
      \/ StartVmm \/ get_lower_table \/ MapNext \/ ClientMap \/ ClientFree
      \/ vmm_map_page \/ vmm_free_page
  BY DEF VmmNext, vmm_init, LoopDone, vmm_set_ctx, ClientAlloc, VmmPanic, vmmVars, tableVars
<1>7. QED
  BY <1>1, <1>2, <1>3, <1>4, <1>5, <1>6

\* vmm_map_page and vmm_free_page change the page they are called for and no
\* other; allocating and entering tables on the way changes nothing.
THEOREM VmmImplementsAddressSpace == VmmSpec => ImplementsAddressSpace
<1>1. VmmIInv /\ VmmIInv' /\ [VmmNext]_<<vmmVars, pmmVars>> => [AS!SpaceNext]_(AS!spaceVars)
  BY SpaceStepMaps
<1>2. QED
  BY <1>1, SpaceInitMaps, VmmInvariant, PTL
     DEF VmmSpec, ImplementsAddressSpace, AS!SpaceSpec

--------------------------------------------------------------------------------
(***************************************************************************)
(* What stays mapped.  vmm_init means to map each planned page to one      *)
(* goal; its loops are followed one by one, and what a loop has mapped no  *)
(* later loop and no caller maps to something else.                        *)
(***************************************************************************)
H == ALIGN_DOWN(hhdmoffset)
Framebuffer == FramesOf(memmap, {"FRAMEBUFFER"})
Plan == Planned(memmap, hhdmoffset)

SectionFlags(s) == CASE s = "text" -> ReadOnly
                     [] s = "rodata" -> ReadOnly \cup NoExecute
                     [] s = "data" -> ReadWrite \cup NoExecute
SectionGoal(s, p) ==
  [addr |-> p - ALIGN_DOWN(kernel_address.virtual_base)
              + ALIGN_DOWN(kernel_address.physical_base), flags |-> SectionFlags(s)]

\* pte is what a page should be mapped to; the framebuffer is left open.
Goal(p, pte) ==
  /\ p \in Direct(memmap, hhdmoffset) /\ p - H \notin Framebuffer =>
       pte = [addr |-> p - H, flags |-> ReadWrite]
  /\ \A s \in DOMAIN Sections : p \in SectionPages(s) => pte = SectionGoal(s, p)
  /\ p \in Identity => pte = [addr |-> p, flags |-> ReadWrite \cup NoExecute]

AtGoal(p) == Goal(p, Space[p % VPAGES])

\* The pages that the first c calls of a loop map.
Covered(l, c) == {l.va + j : j \in 0 .. c - 1}

\* The calls of the current loop that have returned.
Count == IF call = NoCall THEN n ELSE n - 1

\* Where vmm_init is.
Final == vpc \in {"set_ctx", "ready"} \/ cr3 # 0
PastIdentity == vpc = "lapic" \/ Final
PastData == vpc = "identity" \/ PastIdentity
PastRodata == vpc = "data" \/ PastData
PastText == vpc = "rodata" \/ PastRodata
PastEntries == vpc = "text" \/ PastText
PastBitmap == vpc = "entries" \/ PastEntries

\* The usable entries that have been mapped.
MappedEntry(k) == memmap[k].type = USABLE /\ (PastEntries \/ k < entry)

\* The pages that the loops have mapped.
Mapped(p) ==
  \/ \E k \in 1 .. Len(memmap) : MappedEntry(k) /\ p - H \in Frames(memmap[k])
  \/ PastText /\ p \in SectionPages("text")
  \/ PastRodata /\ p \in SectionPages("rodata")
  \/ PastData /\ p \in SectionPages("data")
  \/ PastIdentity /\ p \in Identity
  \/ Final /\ p = ALIGN_DOWN(lapic_addr) + H
  \/ vpc \in Loops /\ p \in Covered(CurrentLoop, Count)

MappedInv == PastBitmap => \A p \in Plan : Mapped(p) => AtGoal(p)

\* A call of vmm_init is the last one its loop has begun; callers are called
\* for their own pages.
CallerInv ==
  /\ vpc \in Loops /\ call # NoCall =>
       /\ n >= 1 /\ n - 1 < CurrentLoop.pages
       /\ call.va = (CurrentLoop.va + (n - 1)) % VPAGES
       /\ call.pa = CurrentLoop.pa + (n - 1) /\ call.flags = CurrentLoop.flags
  /\ vpc = "set_ctx" => call = NoCall
  /\ Final /\ call # NoCall => call.va \in ClientPages

\* The boot loader has answered.
AnswerInv ==
  /\ cr3 # 0 => vpc \in {"ready", "panic"}
  /\ vpc = "bitmap" => entry = 1
  /\ PastBitmap \/ vpc = "bitmap" =>
       /\ pc = "ready" /\ hhdmoffset \in HhdmOffsets \ {0}
       /\ kernel_address # NULL /\ kernel_page_map # 0

\* The bitmap is put behind the first page if anywhere.
FirstUsableInv ==
  /\ usable_found = 0 /\ pc = "parse" =>
       \A k \in 1 .. Len(memmap) : k < i => memmap[k].type # USABLE
  /\ pc \in {"start", "size"} => usable_found = 0
  /\ usable_found = 1 => pmm_usable_addr >= BLOCK_SIZE
  /\ usable_found = 0 /\ pc \in {"unset", "ready"} =>
       \A k \in 1 .. Len(memmap) : memmap[k].type # USABLE

ReachInv == AnswerInv /\ CallerInv /\ MappedInv /\ FirstUsableInv

--------------------------------------------------------------------------------
\* The low bits of an address and what is above them.
LEMMA ModDigit ==
  ASSUME NEW x \in Nat, NEW d \in Nat \ {0}
  PROVE  /\ (x % (d * RADIX)) % RADIX = x % RADIX
         /\ (x % (d * RADIX)) \div RADIX = (x \div RADIX) % d
<1>1. PICK e \in Nat \ {0} : e = d * RADIX
  BY SMT
<1>2. PICK p \in Nat, y \in 0 .. e - 1 : x = p * e + y /\ y = x % e
  <2>1. /\ x \div e \in Nat /\ x % e \in 0 .. e - 1
        /\ x = (x \div e) * e + (x % e)
    BY SMT
  <2>2. QED
    BY <2>1
<1>3. PICK s \in Nat, t \in 0 .. RADIX - 1 :
        y = s * RADIX + t /\ s = y \div RADIX /\ t = y % RADIX
  <2>1. y \in Nat
    BY <1>2
  <2>2. /\ y \div RADIX \in Nat /\ y % RADIX \in 0 .. RADIX - 1
        /\ y = (y \div RADIX) * RADIX + (y % RADIX)
    BY <2>1, DivModRadix DEF Slots
  <2>3. QED
    BY <2>2
<1>4. s < d
  <2>1. PICK a \in Nat : a = s * RADIX
    BY SMT
  <2>2. a < e
    BY ONLY <1>1, <1>2, <1>3, <2>1, VmmAssumption
  <2>3. s * RADIX < d * RADIX
    BY <1>1, <2>1, <2>2
  <2>4. QED
    BY <2>3, MultMonotonic
<1>5. PICK c \in Nat : c = p * d
  BY SMT
<1>6. x = (c + s) * RADIX + t
  <2>1. p * (d * RADIX) = (p * d) * RADIX
    BY SMT
  <2>2. PICK a \in Nat, b \in Nat : a = c * RADIX /\ b = s * RADIX
    BY SMT
  <2>3. (c + s) * RADIX = a + b
    BY <2>2, MultSum
  <2>4. x = a + y
    BY <1>1, <1>2, <1>5, <2>1, <2>2
  <2>5. QED
    BY <1>3, <2>2, <2>3, <2>4
<1>7. x \div RADIX = c + s /\ x % RADIX = t
  <2>1. PICK u \in Nat : u = c + s
    BY <1>3, <1>5
  <2>2. \A v \in Nat, w \in 0 .. RADIX - 1 :
          (v * RADIX + w) \div RADIX = v /\ (v * RADIX + w) % RADIX = w
    BY SMT
  <2>3. QED
    BY <1>3, <1>6, <2>1, <2>2
<1>8. (c + s) % d = s
  <2>1. \A v \in Nat, w \in 0 .. d - 1 : (v * d + w) % d = w
    BY SMT
  <2>2. s \in 0 .. d - 1
    BY <1>3, <1>4
  <2>3. QED
    BY <1>5, <2>1, <2>2
<1>9. QED
  BY <1>1, <1>2, <1>3, <1>7, <1>8

\* Only the bits that are used as indices count.
LEMMA IndexOfPage ==
  ASSUME NEW va \in Nat
  PROVE  /\ va % VPAGES \in VPages
         /\ \A level \in 1 .. 4 : Index(va % VPAGES, level) = Index(va, level)
<1>1. PICK d1 \in Nat \ {0}, d2 \in Nat \ {0}, d3 \in Nat \ {0}, d4 \in Nat \ {0} :
        /\ d1 = RADIX /\ d2 = RADIX * RADIX
        /\ d3 = RADIX * RADIX * RADIX /\ d4 = RADIX * RADIX * RADIX * RADIX
  <2>1. PICK d2 \in Nat \ {0} : d2 = RADIX * RADIX
    BY SMT
  <2>2. PICK d3 \in Nat \ {0} : d3 = d2 * RADIX
    BY SMT
  <2>3. PICK d4 \in Nat \ {0} : d4 = d3 * RADIX
    BY SMT
  <2>4. QED
    BY <2>1, <2>2, <2>3
<1>2. d2 = d1 * RADIX /\ d3 = d2 * RADIX /\ d4 = d3 * RADIX /\ VPAGES = d4
  BY <1>1 DEF VPAGES
<1> DEFINE q1 == va \div RADIX  q2 == q1 \div RADIX  q3 == q2 \div RADIX
           w == va % d4
           r1 == w \div RADIX  r2 == r1 \div RADIX  r3 == r2 \div RADIX
<1>3. /\ Index(va, 1) = va % RADIX /\ Index(va, 2) = q1 % RADIX
      /\ Index(va, 3) = q2 % RADIX /\ Index(va, 4) = q3 % RADIX
      /\ q1 \in Nat /\ q2 \in Nat /\ q3 \in Nat
  BY IndexDigits
<1>4. w \in 0 .. d4 - 1 /\ w \in Nat
  BY SMT
<1> HIDE DEF w
<1>5. /\ Index(w, 1) = w % RADIX /\ Index(w, 2) = r1 % RADIX
      /\ Index(w, 3) = r2 % RADIX /\ Index(w, 4) = r3 % RADIX
      /\ r1 \in Nat /\ r2 \in Nat /\ r3 \in Nat
  BY <1>4, IndexDigits
<1>6. w % RADIX = va % RADIX /\ r1 = q1 % d3
  BY <1>2, ModDigit DEF w
<1> HIDE DEF q1, r1
<1>7. r1 % RADIX = q1 % RADIX /\ r2 = q2 % d2
  BY <1>2, <1>3, <1>6, ModDigit
<1> HIDE DEF q2, r2
<1>8. r2 % RADIX = q2 % RADIX /\ r3 = q3 % d1
  BY <1>2, <1>3, <1>7, ModDigit
<1> HIDE DEF q3, r3
<1>9. r3 % RADIX = q3 % RADIX
  BY <1>1, <1>3, <1>8, SMT
<1>10. Index(w, 1) = Index(va, 1) /\ Index(w, 2) = Index(va, 2)
       /\ Index(w, 3) = Index(va, 3) /\ Index(w, 4) = Index(va, 4)
  BY ONLY <1>3, <1>5, <1>6, <1>7, <1>8, <1>9
<1>11. \A level \in 1 .. 4 : level = 1 \/ level = 2 \/ level = 3 \/ level = 4
  OBVIOUS
<1>12. va % VPAGES = w
  BY <1>2 DEF w
<1>13. QED
  BY ONLY <1>2, <1>4, <1>10, <1>11, <1>12 DEF VPages

\* The processor translates a page by the bits that are used as indices.
LEMMA TranslatePage ==
  ASSUME NEW va \in Nat
  PROVE  Translate(va) = Space[va % VPAGES]
<1>1. va % VPAGES \in VPages
  BY IndexOfPage
<1>2. Space[va % VPAGES] = Translate(va % VPAGES)
  BY <1>1 DEF Space
<1>3. /\ Index(va % VPAGES, 4) = Index(va, 4) /\ Index(va % VPAGES, 3) = Index(va, 3)
      /\ Index(va % VPAGES, 2) = Index(va, 2) /\ Index(va % VPAGES, 1) = Index(va, 1)
  BY IndexOfPage
<1>4. Translate(va % VPAGES) = Translate(va)
  BY ONLY <1>3 DEF Translate
<1>5. QED
  BY <1>2, <1>4

\* What a step does to the address space.
LEMMA SpaceStep ==
  ASSUME VmmIInv, VmmIInv', [VmmNext]_<<vmmVars, pmmVars>>
  PROVE  \/ Space' = Space /\ (call' = NoCall => call = NoCall)
         \/ /\ call # NoCall /\ call' = NoCall
            /\ Space' = [Space EXCEPT ![call.va] = [addr |-> call.pa, flags |-> call.flags]]
<1>1. \/ Space' = Space /\ (Request' = Request \/ Request = NoCall)
      \/ /\ Request # NoCall /\ Request' = NoCall
         /\ Space' = [Space EXCEPT ![Request.va] = Request.to]
  BY SpaceStepMaps DEF AS!SpaceNext, AS!Ask, AS!Answer, AS!spaceVars, Space, Request
<1>2. Request' = NoCall <=> call' = NoCall
  <2>1. call # NoCall => Request # NoCall
    BY RequestIsOne
  <2>2. (call # NoCall => Request # NoCall)'
    BY <2>1, RequestIsOne, PTL
  <2>3. QED
    BY <2>2 DEF Request
<1>3. Request # NoCall =>
        /\ call # NoCall
        /\ Request.va = call.va /\ Request.to = [addr |-> call.pa, flags |-> call.flags]
  BY DEF Request
<1>4. Request = NoCall => call = NoCall
  BY RequestIsOne
<1>5. QED
  BY ONLY <1>1, <1>2, <1>3, <1>4

\* What the boot loader has answered, once the bitmap is mapped.
LEMMA Answers ==
  ASSUME VmmIInv, AnswerInv, PastBitmap \/ vpc = "bitmap"
  PROVE  /\ memmap \in Memmaps /\ hhdmoffset \in HhdmOffsets \ {0} /\ hhdmoffset \in Nat
         /\ kernel_address \in KernelAddresses \ {NULL} /\ H \in Nat /\ n \in Nat
         /\ pc = "ready" /\ kernel_page_map # 0
<1>1. /\ memmap \in Memmaps /\ hhdmoffset \in HhdmOffsets \ {0}
      /\ kernel_address \in KernelAddresses \ {NULL} /\ n \in Nat
      /\ pc = "ready" /\ kernel_page_map # 0
  BY DEF AnswerInv, VmmIInv, PmmIInv, PmmTypeOK, VmmTypeOK, BootTypes
<1>2. hhdmoffset \in Nat
  BY <1>1
<1>3. QED
  BY <1>1, <1>2, DivNat DEF H, ALIGN_DOWN

\* The direct map is a translation by whole pages.
LEMMA DirectPage ==
  ASSUME hhdmoffset \in HhdmOffsets, NEW addr \in Nat
  PROVE  /\ ALIGN_DOWN(addr + hhdmoffset) = ALIGN_DOWN(addr) + H
         /\ ALIGN_DOWN(addr) \in Nat /\ H \in Nat
<1>1. hhdmoffset \in Nat /\ hhdmoffset % BLOCK_SIZE = 0
  BY LayoutAssumption
<1>2. PICK h \in Nat : hhdmoffset = h * BLOCK_SIZE /\ h = hhdmoffset \div BLOCK_SIZE
  BY <1>1, AlignedAddr
<1>3. PICK a \in Nat, r \in 0 .. BLOCK_SIZE - 1 :
        addr = a * BLOCK_SIZE + r /\ a = addr \div BLOCK_SIZE
  <2>1. /\ addr \div BLOCK_SIZE \in Nat /\ addr % BLOCK_SIZE \in 0 .. BLOCK_SIZE - 1
        /\ addr = (addr \div BLOCK_SIZE) * BLOCK_SIZE + (addr % BLOCK_SIZE)
    BY SMT
  <2>2. QED
    BY <2>1
<1>4. addr + hhdmoffset = (a + h) * BLOCK_SIZE + r
  <2>1. PICK x \in Nat, y \in Nat : x = a * BLOCK_SIZE /\ y = h * BLOCK_SIZE
    BY MultNat
  <2>2. (a + h) * BLOCK_SIZE = x + y
    BY <2>1, MultSum
  <2>3. QED
    BY <1>2, <1>3, <2>1, <2>2
<1>5. ((a + h) * BLOCK_SIZE + r) \div BLOCK_SIZE = a + h
  <2>1. PICK u \in Nat : u = a + h
    BY <1>2, <1>3
  <2>2. (u * BLOCK_SIZE + r) \div BLOCK_SIZE = u
    BY <1>3, DivUnique
  <2>3. QED
    BY <2>1, <2>2
<1>6. QED
  BY <1>2, <1>3, <1>4, <1>5 DEF H, ALIGN_DOWN

\* Rounding up a length gives a number of pages.
LEMMA PagesNat ==
  ASSUME NEW length \in Nat
  PROVE  ALIGN_UP(length) \in Nat
<1>1. length + BLOCK_SIZE - 1 \in Nat
  BY SMT
<1>2. QED
  BY <1>1, DivNat DEF ALIGN_UP

\* One byte takes one page.
LEMMA OnePage == ALIGN_UP(1) = 1
<1>1. \A B \in Nat \ {0} : (1 + B - 1) \div B = 1
  BY SMT
<1>2. QED
  BY <1>1 DEF ALIGN_UP

\* What the loops of vmm_init map, after the one for the bitmap.
LEMMA LoopShape ==
  ASSUME VmmIInv, AnswerInv, PastBitmap, vpc \in Loops
  PROVE  /\ CurrentLoop.va \in Nat /\ CurrentLoop.pa \in Nat /\ CurrentLoop.pages \in Int
         /\ vpc = "entries" =>
              /\ entry \in 1 .. Len(memmap)
              /\ memmap[entry].type \notin MappedTypes => CurrentLoop.pages = 0
              /\ memmap[entry].type \in MappedTypes =>
                   /\ CurrentLoop.va = ALIGN_DOWN(memmap[entry].base) + H
                   /\ CurrentLoop.pa = ALIGN_DOWN(memmap[entry].base)
                   /\ CurrentLoop.pages = ALIGN_UP(memmap[entry].length)
              /\ memmap[entry].type \in MappedTypes \ {"FRAMEBUFFER"} =>
                   CurrentLoop.flags = ReadWrite
         /\ \A s \in DOMAIN Sections :
              vpc = s =>
                /\ CurrentLoop.va = ALIGN_DOWN(Sections[s].start)
                /\ CurrentLoop.pa = ALIGN_DOWN(Sections[s].start)
                                    - ALIGN_DOWN(kernel_address.virtual_base)
                                    + ALIGN_DOWN(kernel_address.physical_base)
                /\ CurrentLoop.pages = ALIGN_UP(Sections[s].end) - ALIGN_DOWN(Sections[s].start)
                /\ CurrentLoop.flags = SectionFlags(s)
         /\ vpc = "identity" =>
              /\ CurrentLoop.va = 1 /\ CurrentLoop.pa = 1
              /\ CurrentLoop.pages = ALIGN_DOWN(IdentityTop) - 1
              /\ CurrentLoop.flags = ReadWrite \cup NoExecute
         /\ vpc = "lapic" =>
              /\ CurrentLoop.va = ALIGN_DOWN(lapic_addr) + H
              /\ CurrentLoop.pa = ALIGN_DOWN(lapic_addr)
              /\ CurrentLoop.pages = 1 /\ CurrentLoop.flags = ReadWrite
<1>1. /\ memmap \in Memmaps /\ hhdmoffset \in HhdmOffsets \ {0}
      /\ kernel_address \in KernelAddresses \ {NULL} /\ H \in Nat
  BY Answers
<1>2. CurrentLoop.va \in Nat /\ CurrentLoop.pa \in Nat
  BY LoopTypes
<1>3. vpc # "bitmap"
  BY DEF PastBitmap, PastEntries, PastText, PastRodata, PastData, PastIdentity, Final,
         AnswerInv
<1>4. CASE vpc = "entries"
  <2> DEFINE e == memmap[entry]
  <2>1. entry \in 1 .. Len(memmap)
    BY <1>4 DEF VmmIInv, PhaseInv
  <2>2. e.base \in Nat /\ e.length \in Nat
    BY <1>1, <2>1, MemmapEntries
  <2>3. CurrentLoop = EntryLoop(e)
    BY <1>4 DEF CurrentLoop
  <2> HIDE DEF e
  <2>4. /\ e.type \in MappedTypes \ {"FRAMEBUFFER"} =>
             EntryLoop(e) = Hhdm(e.base, e.length, ReadWrite)
        /\ e.type = "FRAMEBUFFER" =>
             EntryLoop(e) = Hhdm(e.base, e.length, ReadWrite \cup NoExecute)
        /\ e.type \notin MappedTypes => EntryLoop(e) = Hhdm(e.base, 0, {})
    BY DEF EntryLoop, MappedTypes, USABLE
  <2>5. ALIGN_DOWN(e.base + hhdmoffset) = ALIGN_DOWN(e.base) + H
    BY <1>1, <2>2, DirectPage
  <2>6. ALIGN_UP(e.length) \in Nat /\ ALIGN_UP(0) = 0
    BY <2>2, PagesNat, NoPages
  <2>7. "FRAMEBUFFER" \in MappedTypes
    BY DEF MappedTypes
  <2>8. /\ e.type \notin MappedTypes => CurrentLoop.pages = 0
        /\ e.type \in MappedTypes =>
             /\ CurrentLoop.va = ALIGN_DOWN(e.base) + H
             /\ CurrentLoop.pa = ALIGN_DOWN(e.base)
             /\ CurrentLoop.pages = ALIGN_UP(e.length)
        /\ e.type \in MappedTypes \ {"FRAMEBUFFER"} => CurrentLoop.flags = ReadWrite
    BY ONLY <2>3, <2>4, <2>5, <2>6, <2>7 DEF Hhdm, Loop
  <2>9. CurrentLoop.pages \in Int
    BY <2>6, <2>8
  <2>10. "entries" \notin DOMAIN Sections
    OBVIOUS
  <2>11. QED
    BY <1>2, <1>4, <2>1, <2>8, <2>9, <2>10 DEF e
<1>5. ASSUME NEW s \in DOMAIN Sections, vpc = s
      PROVE  /\ CurrentLoop.va = ALIGN_DOWN(Sections[s].start)
             /\ CurrentLoop.pa = ALIGN_DOWN(Sections[s].start)
                                 - ALIGN_DOWN(kernel_address.virtual_base)
                                 + ALIGN_DOWN(kernel_address.physical_base)
             /\ CurrentLoop.pages = ALIGN_UP(Sections[s].end) - ALIGN_DOWN(Sections[s].start)
             /\ CurrentLoop.flags = SectionFlags(s)
             /\ CurrentLoop.pages \in Int
  <2>1. s = "text" \/ s = "rodata" \/ s = "data"
    OBVIOUS
  <2>2. CurrentLoop = Section(Sections[s], SectionFlags(s))
    BY <1>5, <2>1 DEF CurrentLoop, SectionFlags
  <2>3. Sections[s].start \in Nat /\ Sections[s].end \in Nat
    BY <2>1
  <2>4. ALIGN_DOWN(Sections[s].start) \in Nat /\ ALIGN_UP(Sections[s].end) \in Nat
    BY <2>3, PagesNat, DivNat DEF ALIGN_DOWN
  <2>5. QED
    BY ONLY <2>2, <2>4 DEF Section, Loop
<1>6. CASE vpc = "identity"
  <2>1. CurrentLoop = Loop(1, 1, ALIGN_DOWN(IdentityTop) - 1, ReadWrite \cup NoExecute)
    BY <1>6 DEF CurrentLoop, IdentityBase
  <2>2. ALIGN_DOWN(IdentityTop) \in Nat
    BY DivNat DEF ALIGN_DOWN
  <2>3. "identity" \notin DOMAIN Sections
    OBVIOUS
  <2>4. QED
    BY <1>2, <1>6, <2>1, <2>2, <2>3 DEF Loop
<1>7. CASE vpc = "lapic"
  <2>1. CurrentLoop = Hhdm(lapic_addr, 1, ReadWrite)
    BY <1>7 DEF CurrentLoop
  <2>2. ALIGN_DOWN(lapic_addr + hhdmoffset) = ALIGN_DOWN(lapic_addr) + H
    BY <1>1, DirectPage
  <2>3. "lapic" \notin DOMAIN Sections
    OBVIOUS
  <2>4. QED
    BY <1>2, <1>7, <2>1, <2>2, <2>3, OnePage DEF Hhdm, Loop
<1>8. CASE vpc \in {"text", "rodata", "data"}
  BY <1>2, <1>5, <1>8
<1>9. QED
  BY <1>3, <1>4, <1>6, <1>7, <1>8 DEF Loops

\* The layout, for the answers the boot loader has given.
LEMMA Layout ==
  ASSUME VmmIInv, AnswerInv, PastBitmap
  PROVE  /\ \A s, t \in DOMAIN Sections :
              s # t => SectionPages(s) \cap SectionPages(t) = {}
         /\ Image \cap Identity = {}
         /\ Framebuffer \cap (FramesOf(memmap, {USABLE}) \cup {ALIGN_DOWN(lapic_addr)}) = {}
         /\ Direct(memmap, hhdmoffset) \cap (Image \cup Identity) = {}
         /\ \A p, q \in Plan : p % VPAGES = q % VPAGES => p = q
         /\ \A p \in Plan : p % VPAGES \notin ClientPages
<1>1. memmap \in Memmaps /\ hhdmoffset \in HhdmOffsets \ {0}
  BY Answers
<1>2. QED
  BY ONLY <1>1, LayoutAssumption DEF Framebuffer, Plan

\* The pages of an entry.
LEMMA FramesNat ==
  ASSUME memmap \in Memmaps, NEW k \in 1 .. Len(memmap)
  PROVE  /\ Frames(memmap[k]) \subseteq Nat
         /\ ALIGN_DOWN(memmap[k].base) \in Nat /\ ALIGN_UP(memmap[k].length) \in Nat
<1>1. memmap[k].base \in Nat /\ memmap[k].length \in Nat
  BY MemmapEntries
<1>2. ALIGN_DOWN(memmap[k].base) \in Nat /\ ALIGN_UP(memmap[k].length) \in Nat
  BY <1>1, DivNat, PagesNat DEF ALIGN_DOWN
<1>3. QED
  BY <1>2 DEF Frames

\* The pages of a section.
LEMMA SectionNat ==
  ASSUME NEW s \in DOMAIN Sections
  PROVE  /\ SectionPages(s) \subseteq Nat
         /\ ALIGN_DOWN(Sections[s].start) \in Nat /\ ALIGN_UP(Sections[s].end) \in Nat
<1>1. s = "text" \/ s = "rodata" \/ s = "data"
  OBVIOUS
<1>2. Sections[s].start \in Nat /\ Sections[s].end \in Nat
  BY <1>1
<1>3. ALIGN_DOWN(Sections[s].start) \in Nat /\ ALIGN_UP(Sections[s].end) \in Nat
  BY <1>2, PagesNat, DivNat DEF ALIGN_DOWN
<1>4. QED
  BY <1>3 DEF SectionPages

\* Every planned page is a page number.
LEMMA PlannedNat ==
  ASSUME VmmIInv, AnswerInv, PastBitmap
  PROVE  Plan \subseteq Nat
<1>1. memmap \in Memmaps /\ H \in Nat
  BY Answers
<1>2. ASSUME NEW p \in Direct(memmap, hhdmoffset) PROVE p \in Nat
  <2>1. PICK f \in FramesOf(memmap, MappedTypes) \cup {ALIGN_DOWN(lapic_addr)} : p = f + H
    BY <1>2 DEF Direct, H
  <2>2. ALIGN_DOWN(lapic_addr) \in Nat
    BY DivNat DEF ALIGN_DOWN
  <2>3. f \in FramesOf(memmap, MappedTypes) => f \in Nat
    BY <1>1, FramesNat DEF FramesOf
  <2>4. QED
    BY <1>1, <2>1, <2>2, <2>3
<1>3. Image \subseteq Nat
  BY SectionNat DEF Image
<1>4. Identity \subseteq Nat
  <2>1. ALIGN_DOWN(IdentityTop) \in Nat
    BY DivNat DEF ALIGN_DOWN
  <2>2. QED
    BY <2>1 DEF Identity, IdentityBase
<1>5. QED
  BY <1>2, <1>3, <1>4 DEF Plan, Planned

\* A loop maps planned pages, each to its goal.
LEMMA LoopGoal ==
  ASSUME VmmIInv, AnswerInv, PastBitmap, vpc \in Loops, NEW j \in Nat, j < CurrentLoop.pages
  PROVE  /\ CurrentLoop.va + j \in Plan
         /\ Goal(CurrentLoop.va + j, [addr |-> CurrentLoop.pa + j, flags |-> CurrentLoop.flags])
<1> DEFINE l == CurrentLoop
           p == l.va + j
           pte == [addr |-> l.pa + j, flags |-> l.flags]
<1>1. /\ memmap \in Memmaps /\ H \in Nat
      /\ kernel_address \in KernelAddresses \ {NULL}
  BY Answers
<1>2. l.va \in Nat /\ l.pa \in Nat /\ l.pages \in Int
  BY LoopShape
<1>3. vpc # "bitmap"
  BY DEF PastBitmap, PastEntries, PastText, PastRodata, PastData, PastIdentity, Final,
         AnswerInv
<1>4. CASE vpc = "entries"
  <2> DEFINE e == memmap[entry]  f == ALIGN_DOWN(e.base) + j
  <2>1. entry \in 1 .. Len(memmap) /\ e.type \in MappedTypes
        /\ l.va = ALIGN_DOWN(e.base) + H /\ l.pa = ALIGN_DOWN(e.base)
        /\ l.pages = ALIGN_UP(e.length)
        /\ (e.type # "FRAMEBUFFER" => l.flags = ReadWrite)
    BY <1>4, LoopShape
  <2>2. ALIGN_DOWN(e.base) \in Nat /\ ALIGN_UP(e.length) \in Nat
    BY <1>1, <2>1, FramesNat
  <2>3. f \in Frames(e)
    BY <2>1, <2>2 DEF Frames
  <2>4. f \in FramesOf(memmap, MappedTypes)
        /\ (e.type = "FRAMEBUFFER" => f \in Framebuffer)
    BY <2>1, <2>3 DEF FramesOf, Framebuffer
  <2>5. p = f + H /\ p - H = f /\ l.pa + j = f
    BY <1>1, <2>1, <2>2
  <2> HIDE DEF e, f, l, p
  <2>6. p \in Direct(memmap, hhdmoffset)
    BY <2>4, <2>5 DEF Direct, H
  <2>7. p \notin Image /\ p \notin Identity
    BY <2>6, Layout
  <2>8. \A s \in DOMAIN Sections : p \notin SectionPages(s)
    BY <2>7 DEF Image
  <2>9. p - H \notin Framebuffer => pte = [addr |-> p - H, flags |-> ReadWrite]
    BY <2>1, <2>4, <2>5
  <2>10. Goal(p, pte) /\ p \in Plan
    BY ONLY <2>6, <2>7, <2>8, <2>9 DEF Goal, Plan, Planned
  <2>11. QED
    BY <2>10 DEF p, l
<1>5. ASSUME NEW s \in DOMAIN Sections, vpc = s
      PROVE  p \in Plan /\ Goal(p, pte)
  <2>1. /\ l.va = ALIGN_DOWN(Sections[s].start)
        /\ l.pa = ALIGN_DOWN(Sections[s].start)
                  - ALIGN_DOWN(kernel_address.virtual_base)
                  + ALIGN_DOWN(kernel_address.physical_base)
        /\ l.pages = ALIGN_UP(Sections[s].end) - ALIGN_DOWN(Sections[s].start)
        /\ l.flags = SectionFlags(s)
    BY <1>5, LoopShape
  <2>2. ALIGN_DOWN(Sections[s].start) \in Nat /\ ALIGN_UP(Sections[s].end) \in Nat
    BY SectionNat
  <2>3. p \in SectionPages(s)
    BY <2>1, <2>2 DEF SectionPages
  <2>4. kernel_address.virtual_base \in Nat /\ kernel_address.physical_base \in Nat
    BY <1>1
  <2>5. ALIGN_DOWN(kernel_address.virtual_base) \in Nat
        /\ ALIGN_DOWN(kernel_address.physical_base) \in Nat
    BY <2>4, DivNat DEF ALIGN_DOWN
  <2>6. l.pa + j = p - ALIGN_DOWN(kernel_address.virtual_base)
                     + ALIGN_DOWN(kernel_address.physical_base)
    BY <2>1, <2>2, <2>5
  <2> HIDE DEF l, p
  <2>7. pte = SectionGoal(s, p)
    BY ONLY <2>1, <2>6 DEF SectionGoal
  <2>8. \A t \in DOMAIN Sections : p \in SectionPages(t) => t = s
    BY <2>3, Layout
  <2>9. p \in Image
    BY <2>3 DEF Image
  <2>10. p \notin Direct(memmap, hhdmoffset) /\ p \notin Identity
    BY <2>9, Layout
  <2>11. QED
    BY ONLY <2>7, <2>8, <2>9, <2>10 DEF Goal, Plan, Planned
<1>6. CASE vpc = "identity"
  <2>1. /\ l.va = 1 /\ l.pa = 1 /\ l.pages = ALIGN_DOWN(IdentityTop) - 1
        /\ l.flags = ReadWrite \cup NoExecute
    BY <1>6, LoopShape
  <2>2. ALIGN_DOWN(IdentityTop) \in Nat
    BY DivNat DEF ALIGN_DOWN
  <2>3. p \in Identity /\ l.pa + j = p
    BY <2>1, <2>2 DEF Identity, IdentityBase
  <2> HIDE DEF l, p
  <2>4. p \notin Direct(memmap, hhdmoffset) /\ p \notin Image
    BY <2>3, Layout
  <2>5. \A s \in DOMAIN Sections : p \notin SectionPages(s)
    BY <2>4 DEF Image
  <2>6. Goal(p, pte) /\ p \in Plan
    BY ONLY <2>1, <2>3, <2>4, <2>5 DEF Goal, Plan, Planned
  <2>7. QED
    BY <2>6 DEF p, l
<1>7. CASE vpc = "lapic"
  <2>1. /\ l.va = ALIGN_DOWN(lapic_addr) + H /\ l.pa = ALIGN_DOWN(lapic_addr)
        /\ l.pages = 1 /\ l.flags = ReadWrite
    BY <1>7, LoopShape
  <2>2. ALIGN_DOWN(lapic_addr) \in Nat
    BY DivNat DEF ALIGN_DOWN
  <2>3. p = ALIGN_DOWN(lapic_addr) + H /\ p - H = ALIGN_DOWN(lapic_addr)
        /\ l.pa + j = ALIGN_DOWN(lapic_addr)
    BY <1>1, <2>1, <2>2
  <2> HIDE DEF l, p
  <2>4. p \in Direct(memmap, hhdmoffset)
    BY <2>3 DEF Direct, H
  <2>5. p \notin Image /\ p \notin Identity
    BY <2>4, Layout
  <2>6. \A s \in DOMAIN Sections : p \notin SectionPages(s)
    BY <2>5 DEF Image
  <2>7. pte = [addr |-> p - H, flags |-> ReadWrite]
    BY <2>1, <2>3
  <2>8. Goal(p, pte) /\ p \in Plan
    BY ONLY <2>4, <2>5, <2>6, <2>7 DEF Goal, Plan, Planned
  <2>9. QED
    BY <2>8 DEF p, l
<1>8. CASE vpc \in {"text", "rodata", "data"}
  BY <1>5, <1>8
<1>9. QED
  BY <1>3, <1>4, <1>6, <1>7, <1>8 DEF Loops

\* A loop covers the pages it is for.
LEMMA LoopCovers ==
  ASSUME VmmIInv, AnswerInv, PastBitmap, vpc \in Loops, NEW p \in Plan
  PROVE  LET done == Covered(CurrentLoop, CurrentLoop.pages) IN
         /\ vpc = "entries" /\ memmap[entry].type = USABLE =>
              (p - H \in Frames(memmap[entry]) => p \in done)
         /\ \A s \in DOMAIN Sections : vpc = s => (p \in SectionPages(s) => p \in done)
         /\ vpc = "identity" => (p \in Identity => p \in done)
         /\ vpc = "lapic" => (p = ALIGN_DOWN(lapic_addr) + H => p \in done)
<1> DEFINE l == CurrentLoop
           done == Covered(l, l.pages)
<1>1. memmap \in Memmaps /\ H \in Nat /\ p \in Nat
  BY Answers, PlannedNat
<1>2. l.va \in Nat /\ l.pages \in Int
  BY LoopShape
<1>3. ASSUME NEW first \in Int, NEW last \in Int,
             p \in first .. last - 1, l.va = first, l.pages = last - first
      PROVE  p \in done
  <2>1. p - first \in 0 .. l.pages - 1 /\ p = l.va + (p - first)
    BY <1>2, <1>3
  <2>2. QED
    BY <2>1 DEF Covered
<1>4. ASSUME vpc = "entries", memmap[entry].type = USABLE, p - H \in Frames(memmap[entry])
      PROVE  p \in done
  <2> DEFINE e == memmap[entry]  a == ALIGN_DOWN(e.base)  b == ALIGN_UP(e.length)
  <2>1. /\ entry \in 1 .. Len(memmap) /\ e.type \in MappedTypes
        /\ l.va = a + H /\ l.pages = b
    BY <1>4, LoopShape DEF MappedTypes
  <2>2. a \in Nat /\ b \in Nat
    BY <1>1, <2>1, FramesNat
  <2>3. p - H \in a .. a + b - 1
    BY <1>4 DEF Frames
  <2> HIDE DEF l, a, b, done
  <2>4. p \in a + H .. (a + H + b) - 1 /\ b = (a + H + b) - (a + H)
        /\ a + H \in Int /\ a + H + b \in Int
    BY <1>1, <2>2, <2>3
  <2>5. QED
    BY <1>3, <2>1, <2>4
<1>5. ASSUME NEW s \in DOMAIN Sections, vpc = s, p \in SectionPages(s)
      PROVE  p \in done
  <2>1. /\ l.va = ALIGN_DOWN(Sections[s].start)
        /\ l.pages = ALIGN_UP(Sections[s].end) - ALIGN_DOWN(Sections[s].start)
    BY <1>5, LoopShape
  <2>2. ALIGN_DOWN(Sections[s].start) \in Nat /\ ALIGN_UP(Sections[s].end) \in Nat
    BY SectionNat
  <2>3. p \in ALIGN_DOWN(Sections[s].start) .. ALIGN_UP(Sections[s].end) - 1
    BY <1>5 DEF SectionPages
  <2> HIDE DEF l, done
  <2>4. QED
    BY <1>3, <2>1, <2>2, <2>3
<1>6. ASSUME vpc = "identity", p \in Identity
      PROVE  p \in done
  <2>1. l.va = 1 /\ l.pages = ALIGN_DOWN(IdentityTop) - 1
    BY <1>6, LoopShape
  <2>2. ALIGN_DOWN(IdentityTop) \in Nat
    BY DivNat DEF ALIGN_DOWN
  <2>3. p \in 1 .. ALIGN_DOWN(IdentityTop) - 1
    BY <1>6 DEF Identity, IdentityBase
  <2> HIDE DEF l, done
  <2>4. QED
    BY <1>3, <2>1, <2>2, <2>3
<1>7. ASSUME vpc = "lapic", p = ALIGN_DOWN(lapic_addr) + H
      PROVE  p \in done
  <2>1. l.va = p /\ l.pages = 1
    BY <1>7, LoopShape
  <2>2. p \in p .. (p + 1) - 1 /\ p \in Int /\ p + 1 \in Int /\ (p + 1) - p = 1
    BY <1>1
  <2>3. QED
    BY <1>3, <2>1, <2>2
<1>8. QED
  BY <1>4, <1>5, <1>6, <1>7

\* What a goal is does not change with the boot loader's answers fixed.
LEMMA GoalSame ==
  ASSUME UNCHANGED <<memmap, hhdmoffset, kernel_address>>
  PROVE  /\ \A p, pte : Goal(p, pte)' <=> Goal(p, pte)
         /\ Plan' = Plan /\ H' = H
BY DEF Goal, SectionGoal, H, Framebuffer, Plan

\* vmm_init is in a loop, or done, when something is mapped.
LEMMA Stages ==
  ASSUME VmmIInv, AnswerInv, PastBitmap
  PROVE  vpc \in Loops \ {"bitmap"} \/ Final
BY DEF PastBitmap, PastEntries, PastText, PastRodata, PastData, PastIdentity, Loops, Final,
       AnswerInv

\* A store changes no page from its goal.
LEMMA GoalKept ==
  ASSUME VmmIInv, VmmIInv', [VmmNext]_<<vmmVars, pmmVars>>,
         AnswerInv, CallerInv, PastBitmap,
         UNCHANGED <<memmap, hhdmoffset, kernel_address>>,
         NEW p \in Plan, AtGoal(p)
  PROVE  AtGoal(p)'
<1>1. p \in Nat
  BY PlannedNat
<1>2. p % VPAGES \in VPages
  BY <1>1, IndexOfPage
<1>3. SUFFICES Goal(p, Space'[p % VPAGES])
  BY GoalSame DEF AtGoal
<1>4. CASE Space'[p % VPAGES] = Space[p % VPAGES]
  BY <1>4 DEF AtGoal
<1>5. CASE /\ call # NoCall
           /\ Space' = [Space EXCEPT ![call.va] = [addr |-> call.pa, flags |-> call.flags]]
  <2>1. /\ call.va = p % VPAGES =>
             Space'[p % VPAGES] = [addr |-> call.pa, flags |-> call.flags]
        /\ call.va # p % VPAGES => Space'[p % VPAGES] = Space[p % VPAGES]
    BY <1>2, <1>5 DEF Space
  <2>2. CASE vpc \in Loops
    <3> DEFINE j == n - 1  q == CurrentLoop.va + j
    <3>1. /\ n >= 1 /\ j < CurrentLoop.pages /\ call.va = q % VPAGES
          /\ call.pa = CurrentLoop.pa + j /\ call.flags = CurrentLoop.flags
      BY <1>5, <2>2 DEF CallerInv
    <3>2. j \in Nat
      BY <3>1, Answers
    <3> HIDE DEF j
    <3>3. q \in Plan /\ Goal(q, [addr |-> call.pa, flags |-> call.flags])
      BY <2>2, <3>1, <3>2, LoopGoal
    <3> HIDE DEF q
    <3>4. call.va = p % VPAGES => p = q
      BY <3>1, <3>3, Layout
    <3>5. QED
      BY <1>4, <2>1, <3>3, <3>4
  <2>3. CASE Final
    BY <1>4, <1>5, <2>1, <2>3, Layout DEF CallerInv
  <2>4. QED
    BY <2>2, <2>3, Stages
<1>6. QED
  BY <1>4, <1>5, SpaceStep

\* The end of a call of vmm_init brings its page to its goal.
LEMMA GoalReached ==
  ASSUME VmmIInv, VmmIInv', [VmmNext]_<<vmmVars, pmmVars>>,
         AnswerInv, CallerInv, PastBitmap, vpc \in Loops, call # NoCall, call' = NoCall,
         UNCHANGED <<memmap, hhdmoffset, kernel_address>>,
         NEW p, p = CurrentLoop.va + (n - 1)
  PROVE  AtGoal(p)'
<1> DEFINE j == n - 1
<1>1. /\ n >= 1 /\ j < CurrentLoop.pages /\ call.va = p % VPAGES /\ p = CurrentLoop.va + j
      /\ call.pa = CurrentLoop.pa + j /\ call.flags = CurrentLoop.flags
  BY DEF CallerInv
<1>2. j \in Nat
  BY <1>1, Answers
<1> HIDE DEF j
<1>3. p \in Plan /\ Goal(p, [addr |-> call.pa, flags |-> call.flags])
  BY <1>1, <1>2, LoopGoal
<1>4. p \in Nat
  BY <1>3, PlannedNat
<1>5. p % VPAGES \in VPages
  BY <1>4, IndexOfPage
<1>6. Space' = [Space EXCEPT ![call.va] = [addr |-> call.pa, flags |-> call.flags]]
  BY SpaceStep
<1>7. Space'[p % VPAGES] = [addr |-> call.pa, flags |-> call.flags]
  BY <1>1, <1>5, <1>6 DEF Space
<1>8. QED
  BY <1>3, <1>7, GoalSame DEF AtGoal

\* A step that leaves vmm_init where it is.
SameStage ==
  UNCHANGED <<vpc, entry, hhdmoffset, memmap, kernel_address, cr3, pmm_usable_addr,
              pmm_block_count, pc, kernel_page_map>>

\* Such a step leaves the loop and what is past as they are.
LEMMA StageSame ==
  ASSUME SameStage
  PROVE  /\ CurrentLoop' = CurrentLoop /\ H' = H /\ Plan' = Plan
         /\ Final' = Final /\ PastIdentity' = PastIdentity /\ PastData' = PastData
         /\ PastRodata' = PastRodata /\ PastText' = PastText
         /\ PastEntries' = PastEntries /\ PastBitmap' = PastBitmap
<1>1. /\ vpc' = vpc /\ entry' = entry /\ hhdmoffset' = hhdmoffset /\ memmap' = memmap
      /\ kernel_address' = kernel_address /\ cr3' = cr3
      /\ pmm_usable_addr' = pmm_usable_addr /\ pmm_block_count' = pmm_block_count
  BY DEF SameStage
<1>2. CurrentLoop' = CurrentLoop
  BY <1>1 DEF CurrentLoop, EntryLoop, Hhdm, Section, Loop, BitmapBytes
<1>3. H' = H /\ Plan' = Plan
  BY <1>1 DEF H, Plan
<1>4. QED
  BY <1>1, <1>2, <1>3 DEF Final, PastIdentity, PastData, PastRodata, PastText, PastEntries,
                          PastBitmap

\* What is mapped stays mapped, and a call that ends adds its page.
LEMMA MappedSameStage ==
  ASSUME VmmIInv, VmmIInv', [VmmNext]_<<vmmVars, pmmVars>>,
         AnswerInv, CallerInv, MappedInv, SameStage,
         vpc \in Loops => \/ Count' = Count
                          \/ call # NoCall /\ call' = NoCall /\ n' = n
  PROVE  MappedInv'
<1> SUFFICES ASSUME PastBitmap', NEW p \in Plan', Mapped(p)' PROVE AtGoal(p)'
  BY DEF MappedInv
<1>1. /\ CurrentLoop' = CurrentLoop /\ H' = H /\ Plan' = Plan
      /\ Final' = Final /\ PastIdentity' = PastIdentity /\ PastData' = PastData
      /\ PastRodata' = PastRodata /\ PastText' = PastText
      /\ PastEntries' = PastEntries /\ PastBitmap' = PastBitmap
  BY StageSame
<1>2. UNCHANGED <<memmap, hhdmoffset, kernel_address>> /\ vpc' = vpc /\ entry' = entry
  BY DEF SameStage
<1>3. p \in Plan /\ PastBitmap
  BY <1>1
<1>4. CASE Mapped(p)
  <2>1. AtGoal(p)
    BY <1>3, <1>4 DEF MappedInv
  <2>2. QED
    BY <1>2, <1>3, <2>1, GoalKept
<1>5. CASE vpc \in Loops /\ p \in Covered(CurrentLoop, Count') /\ ~Mapped(p)
  <2>1. p \notin Covered(CurrentLoop, Count)
    BY <1>5 DEF Mapped
  <2>2. call # NoCall /\ call' = NoCall /\ n' = n
    BY <1>5, <2>1
  <2>3. Count' = n /\ Count = n - 1
    BY <2>2 DEF Count
  <2>4. n \in Nat /\ CurrentLoop.va \in Nat
    BY <1>3, <1>5, Answers, LoopShape
  <2>5. PICK j \in 0 .. n - 1 : p = CurrentLoop.va + j
    BY <1>5, <2>3 DEF Covered
  <2>6. j \notin 0 .. (n - 1) - 1
    BY <2>1, <2>3, <2>5 DEF Covered
  <2>7. j = n - 1
    BY <2>4, <2>5, <2>6
  <2>8. QED
    BY <1>2, <1>3, <1>5, <2>2, <2>5, <2>7, GoalReached
<1>6. Mapped(p) \/ (vpc \in Loops /\ p \in Covered(CurrentLoop, Count'))
  <2>1. \A k : MappedEntry(k)' <=> MappedEntry(k)
    BY <1>1, <1>2 DEF MappedEntry
  <2>2. QED
    BY <1>1, <1>2, <2>1 DEF Mapped
<1>7. QED
  BY <1>4, <1>5, <1>6

\* pmm_init and the beginning of vmm_init.
LEMMA StartReach ==
  ASSUME VmmIInv, VmmIInv',
         StartVmm \/ ((pmm_init \/ log_panic) /\ UNCHANGED vmmVars)
  PROVE  AnswerInv' /\ CallerInv' /\ MappedInv'
<1>1. vpc = "start"
  <2>1. pmm_init \/ log_panic => pc # "ready"
    BY DEF pmm_init, log_panic, CheckMemmap, SumSize, SizeKnown, ParseEntry, PlaceBitmap,
           UnsetEntry, ReserveBitmap
  <2>2. QED
    BY <2>1 DEF StartVmm, VmmIInv, PhaseInv
<1>2. kernel_page_map = 0 /\ cr3 = 0 /\ call = NoCall
  BY <1>1 DEF VmmIInv, PhaseInv, VmmTypeOK, TableTypes
<1>3. cr3' = 0 /\ call' = NoCall
  BY <1>2 DEF StartVmm, vmmVars, tableVars
<1>4. CASE vpc' = "bitmap"
  <2>1. StartVmm /\ hhdm_response # 0
    BY <1>1, <1>4 DEF StartVmm, vmmVars
  <2>2. hhdmoffset' \in HhdmOffsets \ {0}
    BY <2>1 DEF StartVmm, VmmIInv, VmmTypeOK, BootTypes
  <2>3. pc' = "ready" /\ kernel_address' # NULL /\ kernel_page_map' # 0
    BY <1>4 DEF VmmIInv, PhaseInv, Loops
  <2>4. entry' = 1
    BY <1>1, <2>1 DEF StartVmm, VmmIInv, PhaseInv
  <2>5. ~PastBitmap' /\ ~Final'
    <3>1. vpc' \in {"start", "bitmap", "panic"} /\ cr3' = 0
      BY <1>3, <1>4
    <3>2. QED
      BY <3>1 DEF PastBitmap, PastEntries, PastText, PastRodata, PastData, PastIdentity, Final
  <2>6. QED
    BY <1>3, <1>4, <2>2, <2>3, <2>4, <2>5 DEF AnswerInv, CallerInv, MappedInv
<1>5. CASE vpc' \in {"start", "panic"}
  <2>1. ~PastBitmap' /\ ~Final'
    BY <1>3, <1>5 DEF PastBitmap, PastEntries, PastText, PastRodata, PastData, PastIdentity,
                      Final
  <2>2. vpc' # "bitmap" /\ vpc' \notin Loops /\ vpc' # "set_ctx"
    BY <1>5 DEF Loops
  <2>3. QED
    BY <1>3, <2>1, <2>2 DEF AnswerInv, CallerInv, MappedInv
<1>6. vpc' \in {"start", "bitmap", "panic"}
  BY <1>1 DEF StartVmm, vmmVars
<1>7. QED
  BY <1>4, <1>5, <1>6

\* The loops begin a call, a walk goes down, a call ends, callers call: these
\* leave vmm_init where it is.
LEMMA AnswerSameStage ==
  ASSUME AnswerInv, SameStage
  PROVE  AnswerInv'
<1>1. PastBitmap' = PastBitmap
  BY StageSame
<1>2. QED
  BY <1>1 DEF AnswerInv, SameStage

\* A loop begins a call.
LEMMA MapNextReach ==
  ASSUME VmmIInv, VmmIInv', [VmmNext]_<<vmmVars, pmmVars>>,
         AnswerInv, CallerInv, MappedInv, MapNext
  PROVE  AnswerInv' /\ CallerInv' /\ MappedInv'
<1>1. /\ vpc \in Loops /\ n < CurrentLoop.pages /\ call = NoCall /\ n' = n + 1
      /\ call' = [op |-> "map", va |-> (CurrentLoop.va + n) % VPAGES,
                  pa |-> CurrentLoop.pa + n, flags |-> CurrentLoop.flags,
                  level |-> 4, table |-> kernel_page_map]
      /\ SameStage
  BY DEF MapNext, CallMapPage, Call, SameStage, bootVars, tableVars, pmmVars, sizes, counts
<1>2. call'.op = "map" /\ call'.va = (CurrentLoop.va + n) % VPAGES
      /\ call'.pa = CurrentLoop.pa + n /\ call'.flags = CurrentLoop.flags
  BY <1>1
<1>3. call' # NoCall
  BY <1>2 DEF NoCall
<1>4. n \in Nat /\ n' - 1 = n
  BY <1>1 DEF VmmIInv, VmmTypeOK, BootTypes
<1>5. Count' = Count
  BY <1>1, <1>3, <1>4 DEF Count
<1>6. AnswerInv' /\ MappedInv'
  BY <1>1, <1>5, AnswerSameStage, MappedSameStage
<1>7. CurrentLoop' = CurrentLoop /\ vpc' = vpc /\ Final' = Final
  BY <1>1, StageSame DEF SameStage
<1>8. ~Final /\ vpc # "set_ctx"
  BY <1>1 DEF AnswerInv, Final, Loops
<1>9. CallerInv'
  <2>1. n' >= 1 /\ n' - 1 < CurrentLoop.pages
    BY <1>1, <1>4
  <2>2. QED
    BY <1>2, <1>4, <1>7, <1>8, <2>1 DEF CallerInv
<1>10. QED
  BY <1>6, <1>9

\* Where vmm_init goes after a loop.
LEMMA AfterLoopIs ==
  ASSUME vpc \in Loops
  PROVE  /\ vpc = "bitmap" => AfterLoop = "entries"
         /\ vpc = "entries" =>
              AfterLoop = IF entry < Len(memmap) THEN "entries" ELSE "text"
         /\ vpc = "text" => AfterLoop = "rodata"
         /\ vpc = "rodata" => AfterLoop = "data"
         /\ vpc = "data" => AfterLoop = "identity"
         /\ vpc = "identity" => AfterLoop = "lapic"
         /\ vpc = "lapic" => AfterLoop = "set_ctx"
BY DEF AfterLoop

\* A loop that is done hands its pages over.
LEMMA LoopDoneReach ==
  ASSUME VmmIInv, VmmIInv', [VmmNext]_<<vmmVars, pmmVars>>,
         AnswerInv, CallerInv, MappedInv, LoopDone
  PROVE  AnswerInv' /\ CallerInv' /\ MappedInv'
<1>1. /\ vpc \in Loops /\ call = NoCall /\ n = CurrentLoop.pages
      /\ n' = 0 /\ vpc' = AfterLoop /\ call' = NoCall /\ cr3' = cr3
      /\ entry' = IF vpc = "entries" THEN entry + 1 ELSE entry
      /\ UNCHANGED <<memmap, hhdmoffset, kernel_address, pc, kernel_page_map>>
  BY DEF LoopDone, bootVars, tableVars, pmmVars
<1>2. cr3 = 0
  BY <1>1 DEF AnswerInv, Loops
<1>3. vpc' \in (Loops \ {"bitmap"}) \cup {"set_ctx"}
  BY <1>1, AfterLoopIs DEF Loops
<1>4. AnswerInv'
  <2>1. PastBitmap \/ vpc = "bitmap"
    BY <1>1 DEF PastBitmap, PastEntries, PastText, PastRodata, PastData, PastIdentity, Loops
  <2>2. QED
    BY <1>1, <1>2, <1>3, <2>1 DEF AnswerInv
<1>5. CallerInv'
  BY <1>1 DEF CallerInv
<1>6. ASSUME PastBitmap', NEW p \in Plan', Mapped(p)'
      PROVE  AtGoal(p)'
  <2>1. H' = H /\ Plan' = Plan
    BY <1>1, GoalSame
  <2>2. p \notin Covered(CurrentLoop, Count)'
    <3>1. Count' = 0
      BY <1>1 DEF Count
    <3>2. QED
      BY <3>1 DEF Covered
  <2>3. CASE vpc = "bitmap"
    <3>1. vpc' = "entries" /\ entry' = 1
      BY <1>1, <2>3, AfterLoopIs DEF AnswerInv
    <3>2. ~PastText' /\ ~PastEntries' /\ ~PastRodata' /\ ~PastData' /\ ~PastIdentity'
          /\ ~Final'
      BY <1>1, <1>2, <3>1 DEF PastEntries, PastText, PastRodata, PastData, PastIdentity, Final
    <3>3. PICK k \in 1 .. Len(memmap) : k < 1
      BY <1>1, <1>6, <2>2, <3>1, <3>2 DEF Mapped, MappedEntry
    <3>4. QED
      BY <3>3
  <2>4. CASE vpc # "bitmap"
    <3>1. PastBitmap
      BY <1>1, <2>4 DEF PastBitmap, PastEntries, PastText, PastRodata, PastData, PastIdentity,
                        Loops
    <3>2. p \in Plan /\ p \in Nat /\ memmap \in Memmaps
      BY <1>6, <2>1, <3>1, PlannedNat, Answers
    <3>3. p \in Covered(CurrentLoop, CurrentLoop.pages) => Mapped(p)
      BY <1>1 DEF Mapped, Count
    <3>4. Mapped(p)
      <4>1. CASE vpc = "entries"
        <5>1. /\ vpc' = IF entry < Len(memmap) THEN "entries" ELSE "text"
              /\ entry' = entry + 1
          BY <1>1, <4>1, AfterLoopIs
        <5>2. ~PastText' /\ ~PastRodata' /\ ~PastData' /\ ~PastIdentity' /\ ~Final'
          BY <1>1, <1>2, <5>1 DEF PastText, PastRodata, PastData, PastIdentity, Final
        <5>3. PICK k \in 1 .. Len(memmap) :
                MappedEntry(k)' /\ p - H \in Frames(memmap[k])
          BY <1>1, <1>6, <2>1, <2>2, <5>2 DEF Mapped
        <5>4. entry \in 1 .. Len(memmap) /\ Len(memmap) \in Nat
          <6>1. entry \in 1 .. Len(memmap)
            BY <4>1 DEF VmmIInv, PhaseInv
          <6>2. QED
            BY <3>2, <6>1, MemmapEntries
        <5>5. memmap[k].type = USABLE /\ k <= entry
          <6>1. memmap[k].type = USABLE /\ (PastEntries' \/ k < entry + 1)
            BY <1>1, <5>1, <5>3 DEF MappedEntry
          <6>2. PastEntries' => ~(entry < Len(memmap))
            BY <5>1, <5>2 DEF PastEntries
          <6>3. QED
            BY <5>3, <5>4, <6>1, <6>2
        <5>6. CASE k < entry
          BY <5>3, <5>5, <5>6 DEF Mapped, MappedEntry
        <5>7. CASE k = entry
          BY <1>1, <3>1, <3>2, <3>3, <4>1, <5>3, <5>5, <5>7, LoopCovers
        <5>8. QED
          BY <5>4, <5>5, <5>6, <5>7
      <4>2. CASE vpc \in {"text", "rodata", "data", "identity", "lapic"}
        <5>1. PastEntries
          BY <4>2 DEF PastEntries, PastText, PastRodata, PastData, PastIdentity
        <5>2. (\E k \in 1 .. Len(memmap) : MappedEntry(k) /\ p - H \in Frames(memmap[k]))'
              => Mapped(p)
          BY <1>1, <2>1, <5>1 DEF Mapped, MappedEntry
        <5>3. "text" \in DOMAIN Sections /\ "rodata" \in DOMAIN Sections
              /\ "data" \in DOMAIN Sections
          OBVIOUS
        <5>4. /\ vpc = "text" => (p \in SectionPages("text") => Mapped(p))
              /\ vpc = "rodata" => (p \in SectionPages("rodata") => Mapped(p))
              /\ vpc = "data" => (p \in SectionPages("data") => Mapped(p))
              /\ vpc = "identity" => (p \in Identity => Mapped(p))
              /\ vpc = "lapic" => (p = ALIGN_DOWN(lapic_addr) + H => Mapped(p))
          BY <1>1, <3>1, <3>2, <3>3, <5>3, LoopCovers
        <5>5. /\ PastText' => PastText \/ vpc = "text"
              /\ PastRodata' => PastRodata \/ vpc = "rodata"
              /\ PastData' => PastData \/ vpc = "data"
              /\ PastIdentity' => PastIdentity \/ vpc = "identity"
              /\ Final' => Final \/ vpc = "lapic"
          BY <1>1, <1>2, <4>2, AfterLoopIs
             DEF PastText, PastRodata, PastData, PastIdentity, Final
        <5>6. \/ (\E k \in 1 .. Len(memmap) : MappedEntry(k) /\ p - H \in Frames(memmap[k]))'
              \/ PastText' /\ p \in SectionPages("text")
              \/ PastRodata' /\ p \in SectionPages("rodata")
              \/ PastData' /\ p \in SectionPages("data")
              \/ PastIdentity' /\ p \in Identity
              \/ Final' /\ p = ALIGN_DOWN(lapic_addr) + H
          BY <1>6, <2>1, <2>2 DEF Mapped
        <5>7. /\ PastText /\ p \in SectionPages("text") => Mapped(p)
              /\ PastRodata /\ p \in SectionPages("rodata") => Mapped(p)
              /\ PastData /\ p \in SectionPages("data") => Mapped(p)
              /\ PastIdentity /\ p \in Identity => Mapped(p)
              /\ Final /\ p = ALIGN_DOWN(lapic_addr) + H => Mapped(p)
          BY DEF Mapped
        <5>8. QED
          BY ONLY <5>2, <5>4, <5>5, <5>6, <5>7
      <4>3. QED
        BY <1>1, <2>4, <4>1, <4>2 DEF Loops
    <3>5. AtGoal(p)
      BY <3>1, <3>2, <3>4 DEF MappedInv
    <3>6. QED
      BY <1>1, <3>1, <3>2, <3>5, GoalKept
  <2>5. QED
    BY <2>3, <2>4
<1>7. QED
  BY <1>4, <1>5, <1>6 DEF MappedInv

\* The kernel's own tables come into use.
LEMMA SetCtxReach ==
  ASSUME VmmIInv, VmmIInv', [VmmNext]_<<vmmVars, pmmVars>>,
         AnswerInv, CallerInv, MappedInv, vmm_set_ctx
  PROVE  AnswerInv' /\ CallerInv' /\ MappedInv'
<1>1. /\ vpc = "set_ctx" /\ vpc' = "ready" /\ call' = call
      /\ UNCHANGED <<memmap, hhdmoffset, kernel_address, pc, kernel_page_map>>
  BY DEF vmm_set_ctx, bootVars, pmmVars
<1>2. /\ Final /\ PastIdentity /\ PastData /\ PastRodata /\ PastText /\ PastEntries
      /\ PastBitmap
  BY <1>1 DEF Final, PastIdentity, PastData, PastRodata, PastText, PastEntries, PastBitmap
<1>3. AnswerInv'
  BY <1>1, <1>2 DEF AnswerInv
<1>4. CallerInv'
  BY <1>1 DEF CallerInv, Loops
<1>5. ASSUME NEW p \in Plan', Mapped(p)'
      PROVE  AtGoal(p)'
  <2>1. H' = H /\ Plan' = Plan
    BY <1>1, GoalSame
  <2>2. Mapped(p)
    BY <1>1, <1>2, <1>5, <2>1 DEF Mapped, MappedEntry, Loops
  <2>3. AtGoal(p)
    BY <1>2, <1>5, <2>1, <2>2 DEF MappedInv
  <2>4. QED
    BY <1>1, <1>2, <1>5, <2>1, <2>3, GoalKept
<1>6. QED
  BY <1>3, <1>4, <1>5 DEF MappedInv

\* A walk goes down one table, or the kernel panics.
LEMMA WalkReach ==
  ASSUME VmmIInv, VmmIInv', [VmmNext]_<<vmmVars, pmmVars>>,
         AnswerInv, CallerInv, MappedInv, get_lower_table
  PROVE  AnswerInv' /\ CallerInv' /\ MappedInv'
<1>1. /\ call # NoCall /\ call.level > 1 /\ vpc # "panic" /\ n' = n
      /\ UNCHANGED <<entry, hhdmoffset, kernel_address, kernel_page_map, cr3>>
  BY DEF get_lower_table, bootVars
<1>2. UNCHANGED <<memmap, pc, pmm_usable_addr, pmm_block_count>>
  BY DEF get_lower_table, pmm_alloc_block, pmmVars, sizes, counts
<1>3. /\ vpc' = vpc \/ (vpc' = "panic" /\ call' = call)
      /\ call'.va = call.va /\ call'.pa = call.pa /\ call'.flags = call.flags
      /\ call' # NoCall
  <2>1. call \in [op : {"map", "free"}, va : VPages, pa : Nat,
                  flags : SUBSET PteBits, level : 1 .. 4, table : Blocks]
    BY <1>1 DEF VmmIInv, VmmTypeOK, CallTypes
  <2>2. CASE call' = call /\ vpc' = "panic"
    BY <1>1, <2>2
  <2>3. CASE vpc' = vpc /\ \E t : call' = [call EXCEPT !.table = t, !.level = @ - 1]
    <3>1. PICK t : call' = [call EXCEPT !.table = t, !.level = @ - 1]
      BY <2>3
    <3>2. /\ call'.va = call.va /\ call'.pa = call.pa /\ call'.flags = call.flags
          /\ call'.op = call.op
      BY <2>1, <3>1
    <3>3. call'.op # "none"
      BY <2>1, <3>2
    <3>4. call' # NoCall
      BY <3>3 DEF NoCall
    <3>5. QED
      BY <2>3, <3>2, <3>4
  <2>4. QED
    BY <2>2, <2>3 DEF get_lower_table
<1>4. CASE vpc' = vpc
  <2>1. SameStage
    BY <1>1, <1>2, <1>4 DEF SameStage
  <2>2. Count' = Count
    BY <1>1, <1>3 DEF Count
  <2>3. AnswerInv' /\ MappedInv'
    BY <2>1, <2>2, AnswerSameStage, MappedSameStage
  <2>4. CurrentLoop' = CurrentLoop /\ Final' = Final
    BY <2>1, StageSame
  <2>5. CallerInv'
    BY ONLY <1>1, <1>3, <1>4, <2>4, CallerInv DEF CallerInv
  <2>6. QED
    BY <2>3, <2>5
<1>5. CASE vpc' = "panic"
  <2>1. vpc' \notin Loops /\ vpc' # "set_ctx" /\ vpc' # "bitmap"
    BY <1>5 DEF Loops
  <2>2. Final' => Final /\ cr3 # 0
    BY <1>1, <1>5 DEF Final
  <2>3. PastBitmap' => Final'
    BY <1>5 DEF PastIdentity, PastData, PastRodata, PastText, PastEntries, PastBitmap
  <2>4. Final => /\ PastIdentity /\ PastData /\ PastRodata /\ PastText /\ PastEntries
                 /\ PastBitmap
    BY DEF PastIdentity, PastData, PastRodata, PastText, PastEntries, PastBitmap
  <2>5. AnswerInv'
    BY <1>1, <1>2, <1>5, <2>1, <2>2, <2>3, <2>4 DEF AnswerInv
  <2>6. CallerInv'
    BY <1>1, <1>3, <2>1, <2>2 DEF CallerInv
  <2>7. ASSUME PastBitmap', NEW p \in Plan', Mapped(p)'
        PROVE  AtGoal(p)'
    <3>1. H' = H /\ Plan' = Plan
      BY <1>1, <1>2, GoalSame
    <3>2. Mapped(p)
      BY <1>2, <2>1, <2>2, <2>3, <2>4, <2>7, <3>1 DEF Mapped, MappedEntry
    <3>3. PastBitmap /\ AtGoal(p)
      BY <2>2, <2>3, <2>4, <2>7, <3>1, <3>2 DEF MappedInv
    <3>4. QED
      BY <1>1, <1>2, <2>7, <3>1, <3>3, GoalKept
  <2>8. QED
    BY <2>5, <2>6, <2>7 DEF MappedInv
<1>6. QED
  BY <1>3, <1>4, <1>5

\* A call ends.
LEMMA StoreReach ==
  ASSUME VmmIInv, VmmIInv', [VmmNext]_<<vmmVars, pmmVars>>,
         AnswerInv, CallerInv, MappedInv, vmm_map_page \/ vmm_free_page
  PROVE  AnswerInv' /\ CallerInv' /\ MappedInv'
<1>1. call # NoCall /\ call' = NoCall /\ n' = n /\ SameStage
  BY DEF vmm_map_page, vmm_free_page, pmm_free_block, SameStage, bootVars, pmmVars, sizes,
         counts
<1>2. AnswerInv' /\ MappedInv'
  BY <1>1, AnswerSameStage, MappedSameStage
<1>3. CallerInv'
  BY <1>1 DEF CallerInv
<1>4. QED
  BY <1>2, <1>3

\* Callers take blocks and call for their own pages.
LEMMA ClientReach ==
  ASSUME VmmIInv, VmmIInv', [VmmNext]_<<vmmVars, pmmVars>>,
         AnswerInv, CallerInv, MappedInv, ClientAlloc \/ ClientMap \/ ClientFree
  PROVE  AnswerInv' /\ CallerInv' /\ MappedInv'
<1>1. vpc = "ready" /\ SameStage
  BY DEF ClientAlloc, ClientMap, ClientFree, pmm_alloc_block, SameStage, bootVars, tableVars,
         pmmVars, sizes, counts
<1>2. vpc \notin Loops /\ vpc' = "ready"
  BY <1>1 DEF Loops, SameStage
<1>3. AnswerInv' /\ MappedInv'
  BY <1>1, <1>2, AnswerSameStage, MappedSameStage
<1>4. call' # NoCall => call'.va \in ClientPages
  <2>1. CASE ClientAlloc
    BY <1>1, <2>1 DEF ClientAlloc, CallerInv, Final
  <2>2. CASE ClientMap \/ ClientFree
    <3>1. PICK va \in ClientPages : call'.va = va % VPAGES
      BY <2>2 DEF ClientMap, ClientFree, CallMapPage, CallFreePage, Call
    <3>2. va % VPAGES = va
      <4>1. PICK d \in Nat \ {0} : d = VPAGES
        BY SMT DEF VPAGES
      <4>2. va \in 0 .. d - 1
        BY <4>1 DEF VPAGES
      <4>3. va % d = va
        BY <4>2, SMT
      <4>4. QED
        BY <4>1, <4>3
    <3>3. QED
      BY <3>1, <3>2
  <2>3. QED
    BY <2>1, <2>2
<1>5. CallerInv'
  <2>1. vpc' \notin Loops /\ vpc' # "set_ctx"
    BY <1>2 DEF Loops
  <2>2. QED
    BY <1>4, <2>1 DEF CallerInv
<1>6. QED
  BY <1>3, <1>5

\* A step that changes nothing.
LEMMA StutterReach ==
  ASSUME VmmIInv, VmmIInv', [VmmNext]_<<vmmVars, pmmVars>>,
         AnswerInv, CallerInv, MappedInv, UNCHANGED <<vmmVars, pmmVars>>
  PROVE  AnswerInv' /\ CallerInv' /\ MappedInv'
<1>1. SameStage /\ call' = call /\ n' = n
  BY DEF SameStage, vmmVars, pmmVars, bootVars, tableVars, sizes, counts
<1>2. Count' = Count
  BY <1>1 DEF Count
<1>3. AnswerInv' /\ MappedInv'
  BY <1>1, <1>2, AnswerSameStage, MappedSameStage
<1>4. CurrentLoop' = CurrentLoop /\ Final' = Final /\ vpc' = vpc
  BY <1>1, StageSame DEF SameStage
<1>5. CallerInv'
  BY ONLY <1>1, <1>4, CallerInv DEF CallerInv
<1>6. QED
  BY <1>3, <1>5

\* Where the bitmap is put, through the loops of pmm_init.
LEMMA FirstUsableStep ==
  ASSUME PmmIInv, FirstUsableInv, [PmmNext]_pmmVars
  PROVE  FirstUsableInv'
<1>1. /\ usable_found \in 0 .. 1 /\ i \in Nat \ {0}
      /\ pc \in {"size", "parse", "unset", "ready"} => memmap \in Memmaps
      /\ pmm_usable_addr \in Nat
  BY DEF PmmIInv, PmmTypeOK
<1>2. memmap' = memmap
  BY DEF PmmNext, pmm_init, CheckMemmap, SumSize, SizeKnown, ParseEntry, PlaceBitmap,
         UnsetEntry, ReserveBitmap, log_panic, pmm_alloc_block, pmm_free_block, pmmVars
<1>3. CASE ParseEntry
  <2>1. pc = "parse" /\ pc' = "parse" /\ i' = i + 1 /\ i <= Len(memmap)
    BY <1>3 DEF ParseEntry
  <2>2. memmap \in Memmaps /\ i \in 1 .. Len(memmap) /\ Len(memmap) \in Nat
    <3>1. memmap \in Memmaps
      BY <1>1, <2>1
    <3>2. Len(memmap) \in Nat
      BY <3>1, MemmapAssumption DEF WellFormed
    <3>3. QED
      BY <1>1, <2>1, <3>1, <3>2
  <2>3. CASE memmap[i].type = USABLE /\ usable_found = 0
    <3>1. usable_found' = 1 /\ pmm_usable_addr' = memmap[i].base
      BY <1>3, <2>3 DEF ParseEntry
    <3>2. memmap[i].base >= BLOCK_SIZE
      BY <2>2, <2>3, MemmapEntries
    <3>3. QED
      BY <2>1, <3>1, <3>2 DEF FirstUsableInv
  <2>4. CASE ~(memmap[i].type = USABLE /\ usable_found = 0)
    <3>1. usable_found' = usable_found /\ pmm_usable_addr' = pmm_usable_addr
      BY <1>3, <2>4 DEF ParseEntry
    <3>2. usable_found = 0 =>
            \A k \in 1 .. Len(memmap) : k < i + 1 => memmap[k].type # USABLE
      BY <2>1, <2>2, <2>4 DEF FirstUsableInv
    <3>3. QED
      BY <1>2, <2>1, <3>1, <3>2 DEF FirstUsableInv
  <2>5. QED
    BY <2>3, <2>4
<1>4. CASE PlaceBitmap
  <2>1. /\ pc = "parse" /\ pc' = "unset" /\ i > Len(memmap)
        /\ usable_found' = usable_found /\ pmm_usable_addr' = pmm_usable_addr
    BY <1>4 DEF PlaceBitmap, sizes
  <2>2. Len(memmap) \in Nat
    BY <1>1, <2>1, MemmapAssumption DEF WellFormed
  <2>3. usable_found = 0 => \A k \in 1 .. Len(memmap) : memmap[k].type # USABLE
    <3>1. \A k \in 1 .. Len(memmap) : k < i
      BY <1>1, <2>1, <2>2
    <3>2. QED
      BY <2>1, <3>1 DEF FirstUsableInv
  <2>4. QED
    BY <1>2, <2>1, <2>3 DEF FirstUsableInv
<1>5. CASE SizeKnown
  <2>1. /\ pc = "size" /\ pc' = "parse" /\ i' = 1
        /\ usable_found' = usable_found /\ pmm_usable_addr' = pmm_usable_addr
    BY <1>5 DEF SizeKnown, sizes
  <2>2. QED
    BY <2>1 DEF FirstUsableInv
<1>6. CASE CheckMemmap \/ SumSize
  <2>1. /\ pc \in {"start", "size"} /\ pc' \in {"size", "panic"}
        /\ usable_found' = usable_found /\ pmm_usable_addr' = pmm_usable_addr
    BY <1>6 DEF CheckMemmap, SumSize, sizes
  <2>2. QED
    BY <2>1 DEF FirstUsableInv
<1>7. CASE UnsetEntry \/ ReserveBitmap
  <2>1. /\ pc = "unset" /\ pc' \in {"unset", "ready"}
        /\ usable_found' = usable_found /\ pmm_usable_addr' = pmm_usable_addr
    BY <1>7 DEF UnsetEntry, ReserveBitmap, sizes
  <2>2. QED
    BY <1>2, <2>1 DEF FirstUsableInv
<1>8. CASE UNCHANGED <<pc, i, memmap, usable_found, pmm_usable_addr>>
  BY <1>8 DEF FirstUsableInv
<1>9. \/ pmm_init \/ UNCHANGED <<pc, i, memmap, usable_found, pmm_usable_addr>>
  BY DEF PmmNext, log_panic, pmm_alloc_block, pmm_free_block, pmmVars, sizes
<1>10. QED
  BY <1>3, <1>4, <1>5, <1>6, <1>7, <1>8, <1>9 DEF pmm_init

\* It holds when the machine starts.
LEMMA ReachInitInv == VmmInit => ReachInv
<1> SUFFICES ASSUME VmmInit PROVE ReachInv
  OBVIOUS
<1>1. vpc = "start" /\ cr3 = 0 /\ call = NoCall /\ pc = "start" /\ usable_found = 0
  BY DEF VmmInit, PmmInit
<1>2. ~PastBitmap /\ ~Final
  BY <1>1 DEF PastBitmap, PastEntries, PastText, PastRodata, PastData, PastIdentity, Final
<1>3. AnswerInv /\ CallerInv /\ MappedInv
  BY <1>1, <1>2 DEF AnswerInv, CallerInv, MappedInv
<1>4. FirstUsableInv
  BY <1>1 DEF FirstUsableInv
<1>5. QED
  BY <1>3, <1>4 DEF ReachInv

\* Every step keeps it.
LEMMA ReachInvStep ==
  VmmIInv /\ VmmIInv' /\ ReachInv /\ [VmmNext]_<<vmmVars, pmmVars>> => ReachInv'
<1> SUFFICES ASSUME VmmIInv, VmmIInv', ReachInv, [VmmNext]_<<vmmVars, pmmVars>>
             PROVE  ReachInv'
  OBVIOUS
<1>1. FirstUsableInv'
  BY VmmPmmStep, FirstUsableStep DEF VmmIInv, ReachInv
<1>2. AnswerInv /\ CallerInv /\ MappedInv
  BY DEF ReachInv
<1>3. AnswerInv' /\ CallerInv' /\ MappedInv'
  <2>1. CASE StartVmm \/ ((pmm_init \/ log_panic) /\ UNCHANGED vmmVars)
    BY <2>1, StartReach
  <2>2. CASE MapNext
    BY <1>2, <2>2, MapNextReach
  <2>3. CASE LoopDone
    BY <1>2, <2>3, LoopDoneReach
  <2>4. CASE vmm_set_ctx
    BY <1>2, <2>4, SetCtxReach
  <2>5. CASE get_lower_table
    BY <1>2, <2>5, WalkReach
  <2>6. CASE vmm_map_page \/ vmm_free_page
    BY <1>2, <2>6, StoreReach
  <2>7. CASE ClientAlloc \/ ClientMap \/ ClientFree
    BY <1>2, <2>7, ClientReach
  <2>8. CASE VmmPanic \/ UNCHANGED <<vmmVars, pmmVars>>
    BY <1>2, <2>8, StutterReach DEF VmmPanic
  <2>9. QED
    BY <2>1, <2>2, <2>3, <2>4, <2>5, <2>6, <2>7, <2>8 DEF VmmNext, vmm_init
<1>4. QED
  BY <1>1, <1>3 DEF ReachInv

\* In every reachable state, what the loops of vmm_init have mapped is mapped to
\* what they are for: no later loop and no caller has mapped it to something else.
THEOREM ReachInvariant == VmmSpec => []ReachInv
<1>1. VmmIInv /\ VmmIInv' /\ ReachInv /\ [VmmNext]_<<vmmVars, pmmVars>> => ReachInv'
  BY ReachInvStep
<1>2. QED
  BY <1>1, ReachInitInv, VmmInvariant, PTL DEF VmmSpec

\* Once cr3 is loaded, a planned page that is mapped translates to its goal.
LEMMA FinalGoal ==
  ASSUME VmmIInv, ReachInv, cr3 # 0, NEW p \in Plan, Mapped(p)
  PROVE  /\ p \in Direct(memmap, hhdmoffset) /\ p - H \notin Framebuffer =>
              Translate(p) = [addr |-> p - H, flags |-> ReadWrite]
         /\ \A s \in DOMAIN Sections : p \in SectionPages(s) => Translate(p) = SectionGoal(s, p)
         /\ p \in Identity => Translate(p) = [addr |-> p, flags |-> ReadWrite \cup NoExecute]
<1>1. PastBitmap
  BY DEF Final, PastIdentity, PastData, PastRodata, PastText, PastEntries, PastBitmap
<1>2. AtGoal(p)
  BY <1>1 DEF ReachInv, MappedInv
<1>3. p \in Nat
  BY <1>1, PlannedNat DEF ReachInv
<1>4. Translate(p) = Space[p % VPAGES]
  BY <1>3, TranslatePage
<1>5. QED
  BY <1>2, <1>4 DEF AtGoal, Goal

\* A block of usable memory is one of the frames of a usable entry.
LEMMA UsableFrame ==
  ASSUME memmap \in Memmaps, NEW b \in Nat, UsableBlock(b)
  PROVE  \E k \in 1 .. Len(memmap) : memmap[k].type = USABLE /\ b \in Frames(memmap[k])
<1>1. PICK k \in 1 .. Len(memmap) :
        /\ memmap[k].type = USABLE /\ memmap[k].base <= block2addr(b)
        /\ block2addr(b + 1) <= memmap[k].base + memmap[k].length
  BY DEF UsableBlock
<1> DEFINE B == BLOCK_SIZE  e == memmap[k]
<1>2. /\ e.base \in Nat /\ e.length \in Nat /\ e.base % B = 0 /\ e.length % B = 0
      /\ B \in Nat \ {0}
  BY <1>1, MemmapEntries
<1> HIDE DEF B, e
<1>3. PICK x \in Nat, y \in Nat : /\ e.base = x * B /\ x = e.base \div B
                                  /\ e.length = y * B /\ y = e.length \div B
  BY <1>2, AlignedAddr
<1>4. ALIGN_DOWN(e.base) = x
  BY <1>3 DEF ALIGN_DOWN, B
<1>5. ALIGN_UP(e.length) = y
  <2>1. e.length + B - 1 = y * B + (B - 1)
    BY <1>2, <1>3
  <2>2. B - 1 \in 0 .. B - 1
    BY <1>2
  <2>3. (y * B + (B - 1)) \div B = y
    BY <1>2, <2>2, DivUnique
  <2>4. QED
    BY <2>1, <2>3 DEF ALIGN_UP, B
<1>6. x * B <= b * B /\ (b + 1) * B <= x * B + y * B
  BY <1>1, <1>3 DEF block2addr, B, e
<1>7. x <= b /\ b + 1 <= x + y
  <2>1. x * B + y * B = (x + y) * B
    BY <1>2, MultSum
  <2>2. (b + 1) * B <= (x + y) * B
    BY <1>6, <2>1
  <2>3. b + 1 \in Int /\ x + y \in Int /\ b \in Int /\ x \in Int
    OBVIOUS
  <2>4. QED
    BY <1>2, <1>6, <2>2, <2>3, MultMonotonic
<1>8. b \in Frames(e)
  BY <1>4, <1>5, <1>7 DEF Frames
<1>9. QED
  BY <1>1, <1>8 DEF e

\* Once cr3 is loaded everything planned has been mapped.
LEMMA AllStagesPast ==
  ASSUME VmmIInv, ReachInv, cr3 # 0
  PROVE  /\ Final /\ PastIdentity /\ PastData /\ PastRodata /\ PastText /\ PastEntries
         /\ PastBitmap
         /\ memmap \in Memmaps /\ H \in Nat /\ pc = "ready" /\ kernel_page_map # 0
<1>1. /\ Final /\ PastIdentity /\ PastData /\ PastRodata /\ PastText /\ PastEntries
      /\ PastBitmap
  BY DEF Final, PastIdentity, PastData, PastRodata, PastText, PastEntries, PastBitmap
<1>2. QED
  BY <1>1, Answers DEF ReachInv

\* What the invariant says of the bitmap.
LEMMA BitmapMapped == VmmIInv /\ ReachInv => BitmapStaysReachable
<1> SUFFICES ASSUME VmmIInv, ReachInv, cr3 # 0, pmm_usable_addr + BitmapBytes <= IdentityTop,
                    NEW p \in ALIGN_DOWN(pmm_usable_addr) ..
                              ALIGN_UP(pmm_usable_addr + BitmapBytes) - 1
             PROVE  Translate(p) = [addr |-> p, flags |-> ReadWrite \cup NoExecute]
  BY DEF BitmapStaysReachable
<1> DEFINE B == BLOCK_SIZE  x == pmm_usable_addr + BitmapBytes
<1>1. PastIdentity /\ memmap \in Memmaps /\ pc = "ready" /\ kernel_page_map # 0
  BY AllStagesPast
<1>2. pmm_usable_addr \in Nat /\ BitmapBytes \in Nat /\ usable_found \in 0 .. 1
      /\ kernel_page_map \in Blocks
  BY <1>1, DivNat DEF VmmIInv, PmmIInv, PmmTypeOK, BitmapBytes, VmmTypeOK, TableTypes
<1>3. pmm_usable_addr >= B
  <2>1. kernel_page_map \in owned
    BY <1>1 DEF VmmIInv, AccountInv, AllTab, Upper
  <2>2. UsableBlock(kernel_page_map)
    BY <2>1 DEF VmmIInv, PmmIInv, OwnedInv
  <2>3. usable_found = 1
    BY <1>1, <1>2, <2>2 DEF UsableBlock, ReachInv, FirstUsableInv
  <2>4. QED
    BY <2>3 DEF ReachInv, FirstUsableInv
<1>4. 1 <= ALIGN_DOWN(pmm_usable_addr) /\ ALIGN_DOWN(pmm_usable_addr) \in Nat
  <2>1. \A d \in Nat \ {0} : d \div d = 1
    BY SMT
  <2>2. B \div B <= pmm_usable_addr \div B
    BY <1>2, <1>3, DivMonotonic
  <2>3. QED
    BY <1>2, <2>1, <2>2, DivNat DEF ALIGN_DOWN
<1>5. ALIGN_UP(x) <= ALIGN_DOWN(IdentityTop) /\ ALIGN_DOWN(IdentityTop) \in Nat
      /\ ALIGN_UP(x) \in Nat
  <2>1. PICK t \in Nat : IdentityTop = t * B /\ t = IdentityTop \div B
    BY AlignedAddr, LayoutAssumption
  <2>2. (t * B + (B - 1)) \div B = t
    <3>1. B - 1 \in 0 .. B - 1
      OBVIOUS
    <3>2. QED
      BY <3>1, DivUnique
  <2>3. PICK u \in Nat : u = t * B + (B - 1)
    BY <2>1
  <2>4. x + B - 1 \in Nat /\ x + B - 1 <= u /\ x \in Nat
    BY <1>2, <2>1, <2>3
  <2>5. (x + B - 1) \div B <= u \div B
    BY <2>3, <2>4, DivMonotonic
  <2>6. ALIGN_UP(x) <= t
    BY <2>2, <2>3, <2>5 DEF ALIGN_UP
  <2>7. QED
    BY <2>1, <2>4, <2>6, PagesNat DEF ALIGN_DOWN
<1> HIDE DEF x
<1>6. p \in Identity
  <2>1. p \in ALIGN_DOWN(pmm_usable_addr) .. ALIGN_UP(x) - 1
    BY DEF x
  <2>2. QED
    BY <1>4, <1>5, <2>1 DEF Identity, IdentityBase
<1>7. p \in Plan /\ Mapped(p)
  BY <1>1, <1>6 DEF Plan, Planned, Mapped
<1>8. QED
  BY <1>6, <1>7, FinalGoal

\* What it says of the tables, of the blocks and of the local APIC.
LEMMA TablesMapped == VmmIInv /\ ReachInv => TablesStayReachable
<1> SUFFICES ASSUME VmmIInv, ReachInv, cr3 # 0,
                    NEW b \in owned \cup FreeBits \cup {ALIGN_DOWN(lapic_addr)}
             PROVE  Translate(b + H) = [addr |-> b, flags |-> ReadWrite]
  BY DEF TablesStayReachable, H
<1>1. Final /\ PastEntries /\ PastBitmap /\ memmap \in Memmaps /\ H \in Nat /\ pc = "ready"
  BY AllStagesPast
<1>2. Framebuffer \cap (FramesOf(memmap, {USABLE}) \cup {ALIGN_DOWN(lapic_addr)}) = {}
  BY <1>1, Layout DEF ReachInv
<1>3. ASSUME NEW f \in Nat, f = b,
             f \in FramesOf(memmap, MappedTypes) \cup {ALIGN_DOWN(lapic_addr)},
             f \notin Framebuffer, Mapped(f + H)
      PROVE  Translate(b + H) = [addr |-> b, flags |-> ReadWrite]
  <2>1. PICK p : p = f + H /\ p - H = f
    BY <1>1
  <2>2. p \in Direct(memmap, hhdmoffset)
    BY <1>3, <2>1 DEF Direct, H
  <2>3. p \in Plan
    BY <2>2 DEF Plan, Planned
  <2>4. Translate(p) = [addr |-> p - H, flags |-> ReadWrite]
    BY <1>3, <2>1, <2>2, <2>3, FinalGoal
  <2>5. QED
    BY <1>3, <2>1, <2>4
<1>4. CASE b = ALIGN_DOWN(lapic_addr)
  <2>1. ALIGN_DOWN(lapic_addr) \in Nat
    BY DivNat DEF ALIGN_DOWN
  <2>2. Mapped(ALIGN_DOWN(lapic_addr) + H)
    BY <1>1 DEF Mapped
  <2>3. QED
    BY <1>2, <1>3, <1>4, <2>1, <2>2
<1>5. CASE b \in owned \cup FreeBits
  <2>1. b \in Nat /\ UsableBlock(b)
    <3>1. b \in Blocks
      BY <1>5 DEF FreeBits, VmmIInv, PmmIInv, PmmTypeOK
    <3>2. CASE b \in owned
      BY <3>1, <3>2 DEF VmmIInv, PmmIInv, OwnedInv
    <3>3. CASE b \in FreeBits
      BY <1>1, <3>1, <3>3 DEF VmmIInv, PmmIInv, ReadyInv, FreeBits
    <3>4. QED
      BY <1>5, <3>2, <3>3
  <2>2. PICK k \in 1 .. Len(memmap) : memmap[k].type = USABLE /\ b \in Frames(memmap[k])
    BY <1>1, <2>1, UsableFrame
  <2>3. b \in FramesOf(memmap, MappedTypes) /\ b \in FramesOf(memmap, {USABLE})
    BY <2>2 DEF FramesOf, MappedTypes
  <2>4. (b + H) - H = b
    BY <1>1, <2>1
  <2>5. Mapped(b + H)
    BY <1>1, <2>2, <2>4 DEF Mapped, MappedEntry
  <2>6. QED
    BY <1>2, <1>3, <2>1, <2>3, <2>5
<1>6. QED
  BY <1>4, <1>5

\* What it says of the kernel's sections.
LEMMA KernelMapped == VmmIInv /\ ReachInv => KernelStaysMapped
<1> SUFFICES ASSUME VmmIInv, ReachInv, cr3 # 0, NEW s \in DOMAIN Sections,
                    NEW p \in SectionPages(s)
             PROVE  Translate(p) = SectionGoal(s, p)
  BY DEF KernelStaysMapped, SectionPages, SectionGoal, SectionFlags
<1>1. PastText /\ PastRodata /\ PastData
  BY AllStagesPast
<1>2. s = "text" \/ s = "rodata" \/ s = "data"
  OBVIOUS
<1>3. Mapped(p)
  BY <1>1, <1>2 DEF Mapped
<1>4. p \in Plan
  BY DEF Plan, Planned, Image
<1>5. QED
  BY <1>3, <1>4, FinalGoal

--------------------------------------------------------------------------------
\* Once the kernel runs on its own tables, the bitmap that pmm.c addresses below
\* the direct map stays mapped and writable, if it ends below the identity map's
\* end: the bitmap is never put at page 0, which is left out of that map.
THEOREM BitmapIsReachable == VmmSpec => []BitmapStaysReachable
BY BitmapMapped, VmmInvariant, ReachInvariant, PTL

\* Every table, every block that is or can be handed out and the local APIC stay
\* mapped and writable in the direct map, whatever callers map and free.
THEOREM TablesAreReachable == VmmSpec => []TablesStayReachable
BY TablesMapped, VmmInvariant, ReachInvariant, PTL

\* The kernel's sections stay mapped to where they were loaded, with the rights
\* linker.ld gives them.
THEOREM KernelIsMapped == VmmSpec => []KernelStaysMapped
BY KernelMapped, VmmInvariant, ReachInvariant, PTL
================================================================================
