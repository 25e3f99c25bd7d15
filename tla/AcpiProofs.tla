------------------------------- MODULE AcpiProofs ------------------------------
(***************************************************************************)
(* Proofs about finding and setting up the interrupt hardware, for every   *)
(* machine whose firmware is valid and every length of ics_array.          *)
(***************************************************************************)
EXTENDS Acpi, FiniteSetTheorems, TLAPS

USE IcsAssumption

Bytes == machine.tables[madt].length - 44
After(o) == o + Records[o].record_length

\* The pointers to the root tables are the firmware's.
RootInv ==
  /\ \/ rsdt = 0 /\ xsdt = 0
     \/ /\ machine.rsdp # NULL
        /\ rsdt = machine.rsdp.rsdtaddress /\ xsdt = machine.rsdp.xsdtaddress
  /\ pc \notin {"start", "panic"} => rsdt # 0 \/ xsdt # 0

\* The table taken for the MADT is one.
MadtInv ==
  /\ pc \notin {"start", "APIC", "panic"} =>
       madt \in DOMAIN machine.tables \ {0} /\ machine.tables[madt].signature = "APIC"
  /\ pc \in {"start", "APIC", "FACP", "panic"} =>
       /\ stored = 0 /\ ioapic_address = 0
       /\ \A k \in DOMAIN ics_array : ics_array[k] = NULL

\* The walk is at the beginning of a record, or at the end.
WalkInv ==
  /\ pc = "records" => cur_ics \in DOMAIN Records \cup {Bytes} /\ length = Bytes - cur_ics
  /\ Walked => cur_ics = Bytes

\* ics_array holds what is needed of the records before cur_ics.
ArrayInv ==
  pc = "records" \/ Walked =>
    /\ stored = Before(cur_ics)
    /\ \A o \in Needed :
         o < cur_ics /\ Before(o) < ICS_MAX => ics_array[Before(o)] = Records[o]
    /\ \A k \in DOMAIN ics_array :
         ics_array[k] # NULL =>
           \E o \in Needed : o < cur_ics /\ k = Before(o) /\ ics_array[k] = Records[o]
    /\ \/ ioapic_address \in DOMAIN machine.ioapics
       \/ /\ ioapic_address = 0
          /\ \A o \in DOMAIN Records : o < cur_ics => Records[o].entry_type # IOAPIC

\* The redirection entries, before and after the keyboard's is set.
RedtInv ==
  /\ DOMAIN redt = DOMAIN machine.ioapics
  /\ \A a \in DOMAIN redt : DOMAIN redt[a] = Pins(a)
  /\ \A a \in DOMAIN redt : \A p \in DOMAIN redt[a] :
       /\ pc \notin {"vector", "ready"} => redt[a][p].masked /\ redt[a][p].vector # 33
       /\ pc = "vector" /\ Simple =>
            redt[a][p].vector # 33 /\ (~redt[a][p].masked => IsKeyboard(a, p))
       /\ pc = "ready" /\ Simple =>
            /\ ~redt[a][p].masked => IsKeyboard(a, p)
            /\ redt[a][p].vector = 33 <=> IsKeyboard(a, p)

AcpiIInv == AcpiTypeOK /\ RootInv /\ MadtInv /\ WalkInv /\ ArrayInv /\ RedtInv

--------------------------------------------------------------------------------
(***************************************************************************)
(* What a valid machine guarantees.                                        *)
(***************************************************************************)
ValidPlace(o) ==
  /\ Records[o] \in MadtRecords
  /\ After(o) \in DOMAIN Records \cup {Bytes}
  /\ \A other \in DOMAIN Records : other <= o \/ After(o) <= other
  /\ Records[o].entry_type = IOAPIC => Records[o].ioapicaddr \in DOMAIN machine.ioapics
  /\ Records[o].entry_type = ISO =>
       \A a \in DOMAIN machine.ioapics :
         machine.ioapics[a].base = 0 => Records[o].gsi \in Pins(a)

\* A kernel that walks over the MADT walks over a valid one.
IsMadt ==
  /\ Bytes \in Int /\ DOMAIN Records \subseteq 0 .. Bytes - 1 /\ 0 \in DOMAIN Records
  /\ \A o \in DOMAIN Records : ValidPlace(o)
  /\ \E o \in DOMAIN Records : Records[o].entry_type = IOAPIC
  /\ \A o, other \in Overrides(machine.tables[madt], 1) : o = other

\* The MADT found is valid.
LEMMA MadtValid ==
  ASSUME AcpiIInv, pc \notin {"start", "APIC", "panic"}
  PROVE  IsMadt
<1>1. machine \in Machines /\ madt \in DOMAIN machine.tables
      /\ machine.tables[madt].signature = "APIC"
  BY DEF AcpiIInv, AcpiTypeOK, MadtInv
<1>2. ValidMadt(machine, machine.tables[madt])
  BY <1>1, MachinesAssumption DEF ValidMachine
<1>3. Bytes \in Int
  BY <1>2 DEF ValidMadt, Bytes
<1>4. QED
  BY <1>2, <1>3 DEF ValidMadt, IsMadt, ValidPlace, Records, Bytes, After, Pins

\* What a record is.
LEMMA RecordFacts ==
  ASSUME NEW r \in MadtRecords
  PROVE  /\ r # NULL /\ r.record_length \in 1 .. 255
         /\ r.entry_type = LAPIC => r.flags \in Nat
<1>1. CASE r \in [entry_type : {LAPIC}, record_length : 1 .. 255, flags : Nat]
  BY <1>1
<1>2. CASE r \in [entry_type : {IOAPIC}, record_length : 1 .. 255, ioapicaddr : Nat, gsi : Nat]
  BY <1>2 DEF LAPIC, IOAPIC
<1>3. CASE r \in [entry_type : {ISO}, record_length : 1 .. 255, source : Nat, gsi : Nat]
  BY <1>3 DEF LAPIC, ISO
<1>4. CASE r \in [entry_type : Nat \ {LAPIC, IOAPIC, ISO}, record_length : 1 .. 255]
  BY <1>4
<1>5. QED
  BY <1>1, <1>2, <1>3, <1>4 DEF MadtRecords

\* get_madt_tables stores the records that are needed.
LEMMA StoredNeeded ==
  ASSUME IsMadt, NEW o \in DOMAIN Records
  PROVE  Stored(Records[o]) <=> o \in Needed
<1>1. Records[o] \in MadtRecords
  BY DEF IsMadt, ValidPlace
<1>2. Records[o].entry_type = LAPIC => (Records[o].flags # 0 <=> Records[o].flags > 0)
  BY <1>1, RecordFacts
<1>3. QED
  BY <1>2 DEF Stored, Needed

\* The places of the MADT that are needed, and those before a place.
LEMMA NeededFinite ==
  ASSUME IsMadt
  PROVE  /\ IsFiniteSet(Needed) /\ Needed \subseteq Int /\ Cardinality(Needed) \in Nat
         /\ \A x : /\ IsFiniteSet({o \in Needed : o < x}) /\ Before(x) \in Nat
                   /\ Before(x) <= Cardinality(Needed)
<1>1. Needed \subseteq 0 .. Bytes - 1 /\ Bytes \in Int
  BY DEF IsMadt, Needed
<1>2. IsFiniteSet(0 .. Bytes - 1)
  BY <1>1, FS_Interval
<1>3. IsFiniteSet(Needed)
  BY <1>1, <1>2, FS_Subset
<1>4. Cardinality(Needed) \in Nat
  BY <1>3, FS_CardinalityType
<1>5. ASSUME NEW x
      PROVE  /\ IsFiniteSet({o \in Needed : o < x}) /\ Before(x) \in Nat
             /\ Before(x) <= Cardinality(Needed)
  <2>1. {o \in Needed : o < x} \subseteq Needed
    OBVIOUS
  <2>2. /\ IsFiniteSet({o \in Needed : o < x})
        /\ Cardinality({o \in Needed : o < x}) <= Cardinality(Needed)
    BY <1>3, <2>1, FS_Subset
  <2>3. QED
    BY <2>2, FS_CardinalityType DEF Before
<1>6. QED
  BY <1>1, <1>3, <1>4, <1>5

\* A needed record counts for the places behind it.
LEMMA BeforeGrows ==
  ASSUME IsMadt, NEW o \in Needed, NEW x \in Int, o < x
  PROVE  Before(o) < Before(x)
<1> DEFINE S == {u \in Needed : u < o}  T == {u \in Needed : u < x}
<1>1. Needed \subseteq Int /\ IsFiniteSet(S) /\ IsFiniteSet(T)
      /\ Before(o) \in Nat /\ Before(x) \in Nat
  BY NeededFinite
<1>2. o \notin S /\ S \cup {o} \subseteq T
  <2>1. o \in Int /\ ~(o < o)
    BY <1>1
  <2>2. \A u \in Needed : u < o => u < x
    BY <1>1, <2>1
  <2>3. QED
    BY <2>1, <2>2
<1> HIDE DEF S, T
<1>3. Cardinality(S \cup {o}) = Cardinality(S) + 1
  BY <1>1, <1>2, FS_AddElement
<1>4. Cardinality(S \cup {o}) <= Cardinality(T)
  BY <1>1, <1>2, FS_Subset
<1>5. Before(o) = Cardinality(S) /\ Before(x) = Cardinality(T)
  BY DEF Before, S, T
<1>6. QED
  BY <1>1, <1>3, <1>4, <1>5

\* Stepping over a record.
LEMMA BeforeNext ==
  ASSUME IsMadt, NEW c \in DOMAIN Records
  PROVE  /\ After(c) \in Int /\ c < After(c) /\ c \in Int
         /\ \A o \in DOMAIN Records : o < After(c) <=> o < c \/ o = c
         /\ Before(After(c)) = IF c \in Needed THEN Before(c) + 1 ELSE Before(c)
<1>1. DOMAIN Records \subseteq Int
  BY DEF IsMadt
<1>2. Records[c].record_length \in 1 .. 255
  BY RecordFacts DEF IsMadt, ValidPlace
<1>3. After(c) \in Int /\ c < After(c) /\ c \in Int
  BY <1>1, <1>2 DEF After
<1>4. \A o \in DOMAIN Records : o < After(c) <=> o < c \/ o = c
  <2>1. \A o \in DOMAIN Records : o <= c \/ After(c) <= o
    BY DEF IsMadt, ValidPlace
  <2>2. QED
    BY <1>1, <1>3, <2>1
<1>5. Needed \subseteq DOMAIN Records
  BY DEF Needed
<1> DEFINE S == {o \in Needed : o < c}  T == {o \in Needed : o < After(c)}
<1>6. T = IF c \in Needed THEN S \cup {c} ELSE S
  BY <1>4, <1>5
<1>7. IsFiniteSet(S) /\ c \notin S
  BY <1>3, NeededFinite
<1> HIDE DEF S, T
<1>8. Cardinality(S \cup {c}) = Cardinality(S) + 1
  BY <1>7, FS_AddElement
<1>9. Before(c) = Cardinality(S) /\ Before(After(c)) = Cardinality(T)
  BY DEF Before, S, T
<1>10. QED
  BY <1>3, <1>4, <1>6, <1>8, <1>9

\* At the end of the MADT every needed record is behind.
LEMMA BeforeEnd ==
  ASSUME IsMadt
  PROVE  /\ Before(Bytes) = Cardinality(Needed)
         /\ \A o \in DOMAIN Records : o < Bytes /\ o \in Int
<1>1. \A o \in DOMAIN Records : o < Bytes /\ o \in Int
  BY DEF IsMadt
<1>2. {o \in Needed : o < Bytes} = Needed
  BY <1>1 DEF Needed
<1>3. QED
  BY <1>1, <1>2 DEF Before

--------------------------------------------------------------------------------
(***************************************************************************)
(* Every action keeps the invariant.                                       *)
(***************************************************************************)

\* What the firmware says does not change.
LEMMA SameMachine ==
  ASSUME UNCHANGED <<machine, madt>>
  PROVE  /\ Records' = Records /\ Needed' = Needed /\ Bytes' = Bytes
         /\ \A x : Before(x)' = Before(x)
         /\ \A a, p : IsKeyboard(a, p)' <=> IsKeyboard(a, p)
         /\ \A a : Pins(a)' = Pins(a)
         /\ ioapic_address' = ioapic_address => Simple' = Simple
BY DEF Records, Needed, Bytes, Before, IsKeyboard, KeyboardGsi, Pins, Simple

\* An entry that the boot loader left.
LEMMA MaskedEntry ==
  ASSUME NEW e \in [vector : (0 .. 255) \ {33}, masked : {TRUE}]
  PROVE  e \in [vector : 0 .. 255, masked : BOOLEAN] /\ e.masked /\ e.vector # 33
<1>1. e = [vector |-> e.vector, masked |-> e.masked]
      /\ e.vector \in (0 .. 255) \ {33} /\ e.masked \in {TRUE}
  OBVIOUS
<1>2. e.masked = TRUE /\ e.masked \in BOOLEAN
  BY <1>1, Zenon
<1>3. e.vector \in 0 .. 255 /\ e.vector # 33
  BY <1>1
<1>4. e \in [vector : 0 .. 255, masked : BOOLEAN]
  BY <1>1, <1>2, <1>3, Zenon
<1>5. QED
  BY <1>2, <1>3, <1>4, Zenon

\* It holds when the machine starts.
LEMMA AcpiInitInv == AcpiInit => AcpiIInv
<1> SUFFICES ASSUME AcpiInit PROVE AcpiIInv
  OBVIOUS
<1>1. /\ machine \in Machines /\ pc = "start" /\ i = 0
      /\ rsdt = 0 /\ xsdt = 0 /\ madt = 0 /\ fadt = 0 /\ cur_ics = 0 /\ length = 0
      /\ ics_array = [k \in 0 .. ICS_MAX - 1 |-> NULL] /\ stored = 0
      /\ ioapic_address = 0
      /\ redt = [a \in DOMAIN machine.ioapics |-> machine.ioapics[a].pins]
  BY DEF AcpiInit
<1>2. ValidIoapics(machine.ioapics)
  BY <1>1, MachinesAssumption DEF ValidMachine
<1>3. \A a \in DOMAIN redt : \A p \in DOMAIN redt[a] :
        redt[a][p] \in [vector : (0 .. 255) \ {33}, masked : {TRUE}]
  BY <1>1, <1>2 DEF ValidIoapics
<1>4. \A a \in DOMAIN redt : \A p \in DOMAIN redt[a] :
        /\ redt[a][p] \in [vector : 0 .. 255, masked : BOOLEAN]
        /\ redt[a][p].masked /\ redt[a][p].vector # 33
  BY <1>3, MaskedEntry, Zenon
<1>5. DOMAIN redt = DOMAIN machine.ioapics /\ \A a \in DOMAIN redt : DOMAIN redt[a] = Pins(a)
  BY <1>1 DEF Pins
<1>6. AcpiTypeOK
  <2>1. /\ {rsdt, xsdt, madt, fadt} \subseteq DOMAIN machine.tables \cup {0}
        /\ i \in Nat /\ length \in Int /\ stored \in Nat /\ cur_ics \in Nat
        /\ DOMAIN ics_array = 0 .. ICS_MAX - 1 /\ machine \in Machines /\ ioapic_address = 0
        /\ pc \in {"start", "APIC", "FACP", "records", "mask", "unmask", "vector",
                   "ready", "panic"}
    BY <1>1
  <2>2. ~Walked
    BY <1>1 DEF Walked
  <2>3. QED
    BY ONLY <1>4, <2>1, <2>2, Zenon DEF AcpiTypeOK
<1>7. RedtInv
  <2>1. pc \notin {"vector", "ready"} /\ pc # "vector" /\ pc # "ready"
    BY <1>1
  <2>2. QED
    BY ONLY <1>4, <1>5, <2>1, Zenon DEF RedtInv
<1>8. RootInv /\ MadtInv /\ WalkInv /\ ArrayInv
  BY <1>1 DEF RootInv, MadtInv, WalkInv, ArrayInv, Walked
<1>9. QED
  BY <1>6, <1>7, <1>8 DEF AcpiIInv

\* The invariant of the redirection entries, before any is unmasked.
LEMMA SameRedt ==
  ASSUME AcpiIInv, UNCHANGED <<machine, redt>>,
         pc \notin {"vector", "ready"}, pc' \notin {"vector", "ready"}
  PROVE  RedtInv' /\ \A a \in DOMAIN redt' : \A p \in DOMAIN redt'[a] :
                       redt'[a][p] \in [vector : 0 .. 255, masked : BOOLEAN]
<1>1. RedtInv' 
  BY DEF AcpiIInv, RedtInv, Pins
<1>2. QED
  BY <1>1 DEF AcpiIInv, AcpiTypeOK

\* init_acpi reads the root pointers.
LEMMA StartAcpiStep ==
  ASSUME AcpiIInv, StartAcpi
  PROVE  AcpiIInv'
<1>1. /\ pc = "start" /\ pc' \in {"panic", "APIC"} /\ i' \in {i, 0}
      /\ UNCHANGED <<machine, madt, fadt, cur_ics, length, ics_array, stored>>
      /\ UNCHANGED <<ioapic_address, redt>>
      /\ pc' = "panic" => UNCHANGED <<rsdt, xsdt>>
      /\ pc' = "APIC" => /\ machine.rsdp # NULL /\ rsdt' = machine.rsdp.rsdtaddress
                         /\ xsdt' = machine.rsdp.xsdtaddress
  BY DEF StartAcpi, rootVars, madtVars
<1>2. /\ machine \in Machines /\ i \in Nat /\ length \in Int /\ stored \in Nat
      /\ {rsdt, xsdt, madt, fadt} \subseteq DOMAIN machine.tables \cup {0}
      /\ cur_ics \in Nat /\ DOMAIN ics_array = 0 .. ICS_MAX - 1
      /\ stored = 0 /\ ioapic_address = 0
      /\ \A k \in DOMAIN ics_array : ics_array[k] = NULL
  BY <1>1 DEF AcpiIInv, AcpiTypeOK, MadtInv
<1>3. machine.rsdp # NULL =>
        /\ machine.rsdp.rsdtaddress # 0 \/ machine.rsdp.xsdtaddress # 0
        /\ machine.rsdp.rsdtaddress \in DOMAIN machine.tables \cup {0}
        /\ machine.rsdp.xsdtaddress \in DOMAIN machine.tables \cup {0}
  BY <1>2, MachinesAssumption DEF ValidMachine, ValidRoot
<1>4. RedtInv' /\ \A a \in DOMAIN redt' : \A p \in DOMAIN redt'[a] :
                    redt'[a][p] \in [vector : 0 .. 255, masked : BOOLEAN]
  BY <1>1, SameRedt
<1>5. {rsdt', xsdt', madt', fadt'} \subseteq DOMAIN machine.tables \cup {0}
  BY <1>1, <1>2, <1>3
<1>6. AcpiTypeOK'
  BY <1>1, <1>2, <1>4, <1>5 DEF AcpiTypeOK, Walked
<1>7. RootInv'
  BY <1>1, <1>3 DEF AcpiIInv, RootInv
<1>8. MadtInv' /\ WalkInv' /\ ArrayInv'
  BY <1>1, <1>2 DEF MadtInv, WalkInv, ArrayInv, Walked
<1>9. QED
  BY <1>4, <1>6, <1>7, <1>8 DEF AcpiIInv

\* The root table that is searched has as many pointers as entries says.
LEMMA RootTable ==
  ASSUME AcpiIInv, pc \notin {"start", "panic"}
  PROVE  /\ Root \in DOMAIN machine.tables
         /\ machine.tables[Root].tableptrs \in Seq(DOMAIN machine.tables \ {0})
         /\ entries(Root) = Len(machine.tables[Root].tableptrs)
<1>1. /\ machine.rsdp # NULL /\ machine \in Machines
      /\ rsdt = machine.rsdp.rsdtaddress /\ xsdt = machine.rsdp.xsdtaddress
      /\ rsdt # 0 \/ xsdt # 0
  BY DEF AcpiIInv, RootInv, AcpiTypeOK
<1>2. /\ rsdt # 0 => ValidRoot(machine, rsdt, 4)
      /\ xsdt # 0 => ValidRoot(machine, xsdt, 8)
  BY <1>1, MachinesAssumption DEF ValidMachine, ROOT_PTR
<1>3. PICK size \in {4, 8} :
        /\ ValidRoot(machine, Root, size)
        /\ size = IF Root = xsdt THEN ROOT_PTR.xsdt ELSE ROOT_PTR.rsdt
  BY <1>1, <1>2 DEF Root, ROOT_PTR
<1> DEFINE L == Len(machine.tables[Root].tableptrs)
<1>4. /\ machine.tables[Root].tableptrs \in Seq(DOMAIN machine.tables \ {0})
      /\ machine.tables[Root].length = 36 + size * L /\ Root \in DOMAIN machine.tables
  BY <1>3 DEF ValidRoot, sizeof_sdt
<1>5. L \in Nat
  BY <1>4
<1>6. entries(Root) = (machine.tables[Root].length - 36) \div size
  BY <1>3 DEF entries, sizeof_sdt
<1> HIDE DEF L
<1>7. ASSUME NEW len, len = 36 + size * L PROVE (len - 36) \div size = L
  <2>1. CASE size = 4
    BY ONLY <1>5, <1>7, <2>1, SMT
  <2>2. CASE size = 8
    BY ONLY <1>5, <1>7, <2>2, SMT
  <2>3. QED
    BY <2>1, <2>2
<1>8. entries(Root) = L
  BY ONLY <1>4, <1>6, <1>7, Zenon
<1>9. QED
  BY <1>4, <1>8 DEF L

\* The pointers read are those of tables.
LEMMA HeaderIsTable ==
  ASSUME AcpiIInv, pc \notin {"start", "panic"}, i < entries(Root)
  PROVE  header \in DOMAIN machine.tables \ {0}
<1>1. /\ machine.tables[Root].tableptrs \in Seq(DOMAIN machine.tables \ {0})
      /\ i < Len(machine.tables[Root].tableptrs)
  BY RootTable
<1>2. i \in Nat
  BY DEF AcpiIInv, AcpiTypeOK
<1>3. i + 1 \in 1 .. Len(machine.tables[Root].tableptrs)
  BY <1>1, <1>2
<1>4. QED
  BY <1>1, <1>3 DEF header

\* A round of the search.
LEMMA SearchStep ==
  ASSUME AcpiIInv, FindMadt \/ FindFadt
  PROVE  AcpiIInv'
<1>1. /\ pc \in {"APIC", "FACP"} /\ i' \in {i, i + 1, 0}
      /\ UNCHANGED <<machine, rsdt, xsdt, ics_array, stored>>
      /\ UNCHANGED <<ioapic_address, redt>>
  BY DEF FindMadt, FindFadt, find_acpi_table, Found, madtVars
<1>2. /\ machine \in Machines /\ i \in Nat /\ length \in Int /\ stored \in Nat
      /\ {rsdt, xsdt, madt, fadt} \subseteq DOMAIN machine.tables \cup {0}
      /\ cur_ics \in Nat /\ DOMAIN ics_array = 0 .. ICS_MAX - 1
      /\ stored = 0 /\ ioapic_address = 0
      /\ \A k \in DOMAIN ics_array : ics_array[k] = NULL
  BY <1>1 DEF AcpiIInv, AcpiTypeOK, MadtInv
<1>3. i' \in Nat
  BY <1>1, <1>2
<1>4. /\ rsdt # 0 \/ xsdt # 0
      /\ machine.rsdp # NULL
      /\ rsdt = machine.rsdp.rsdtaddress /\ xsdt = machine.rsdp.xsdtaddress
  BY <1>1 DEF AcpiIInv, RootInv
<1>5. RootInv'
  BY <1>1, <1>4 DEF RootInv
<1>6. pc' \notin {"vector", "ready"} =>
        RedtInv' /\ \A a \in DOMAIN redt' : \A p \in DOMAIN redt'[a] :
                      redt'[a][p] \in [vector : 0 .. 255, masked : BOOLEAN]
  BY <1>1, SameRedt
<1>7. CASE find_acpi_table("APIC") \/ find_acpi_table("FACP")
  <2>1. pc' \in {pc, "panic"} /\ UNCHANGED <<madt, fadt, cur_ics, length>>
    BY <1>7 DEF find_acpi_table, madtVars
  <2>2. pc' \in {"APIC", "FACP", "panic"}
    BY <1>1, <2>1
  <2>3. AcpiTypeOK'
    BY <1>1, <1>2, <1>3, <1>6, <2>1, <2>2 DEF AcpiTypeOK, Walked
  <2>4. MadtInv'
    BY <1>1, <1>2, <2>1, <2>2 DEF AcpiIInv, MadtInv
  <2>5. WalkInv' /\ ArrayInv'
    BY <2>2 DEF WalkInv, ArrayInv, Walked
  <2>6. QED
    BY <1>5, <1>6, <2>2, <2>3, <2>4, <2>5 DEF AcpiIInv
<1>8. CASE Found("APIC") /\ pc' = "FACP" /\ madt' = header /\ UNCHANGED <<fadt, cur_ics, length>>
  <2>1. pc = "APIC" /\ i < entries(Root) /\ machine.tables[header].signature = "APIC"
    BY <1>8 DEF Found
  <2>2. header \in DOMAIN machine.tables \ {0}
    BY <2>1, HeaderIsTable
  <2>3. {rsdt', xsdt', madt', fadt'} \subseteq DOMAIN machine.tables \cup {0}
    BY <1>1, <1>2, <1>8, <2>2
  <2>4. AcpiTypeOK'
    BY <1>1, <1>2, <1>3, <1>6, <1>8, <2>3 DEF AcpiTypeOK, Walked
  <2>5. MadtInv'
    BY <1>1, <1>2, <1>8, <2>1, <2>2 DEF MadtInv
  <2>6. WalkInv' /\ ArrayInv'
    BY <1>8 DEF WalkInv, ArrayInv, Walked
  <2>7. QED
    BY <1>5, <1>6, <1>8, <2>4, <2>5, <2>6 DEF AcpiIInv
<1>9. CASE /\ Found("FACP") /\ pc' = "records" /\ fadt' = header
           /\ cur_ics' = 0 /\ length' = MadtBytes(madt) /\ UNCHANGED madt
  <2>1. pc = "FACP" /\ i < entries(Root)
    BY <1>9 DEF Found
  <2>2. header \in DOMAIN machine.tables
    BY <2>1, HeaderIsTable
  <2>3. {rsdt', xsdt', madt', fadt'} \subseteq DOMAIN machine.tables \cup {0}
    BY <1>1, <1>2, <1>9, <2>2
  <2>4. IsMadt
    BY <2>1, MadtValid
  <2>5. /\ Records' = Records /\ Needed' = Needed /\ Bytes' = Bytes
        /\ \A x : Before(x)' = Before(x)
    BY <1>1, <1>9, SameMachine
  <2>6. length' = Bytes /\ Bytes \in Int
    <3>1. machine.tables[madt].length \in Int
      BY <2>1, MachinesAssumption DEF AcpiIInv, AcpiTypeOK, MadtInv, ValidMachine, ValidMadt
    <3>2. QED
      BY <1>9, <3>1 DEF MadtBytes, Bytes, sizeof_madt
  <2>7. 0 \in DOMAIN Records /\ \A o \in DOMAIN Records : ~(o < 0)
    BY <2>4 DEF IsMadt
  <2>8. AcpiTypeOK'
    BY <1>1, <1>2, <1>3, <1>6, <1>9, <2>3, <2>6 DEF AcpiTypeOK, Walked
  <2>9. MadtInv'
    BY <1>1, <1>9, <2>1 DEF AcpiIInv, MadtInv
  <2>10. WalkInv'
    BY <1>9, <2>5, <2>6, <2>7 DEF WalkInv, Walked
  <2>11. Before(0) = 0
    <3>1. {o \in Needed : o < 0} = {}
      BY <2>7 DEF Needed
    <3>2. QED
      BY <3>1, FS_EmptySet DEF Before
  <2>12. ArrayInv'
    <3>1. Needed \subseteq DOMAIN Records
      BY DEF Needed
    <3>2. \A o \in Needed : ~(o < 0)
      BY <2>7, <3>1
    <3>3. QED
      BY <1>1, <1>2, <1>9, <2>5, <2>7, <2>11, <3>2 DEF ArrayInv
  <2>13. QED
    BY <1>5, <1>6, <1>9, <2>8, <2>9, <2>10, <2>12 DEF AcpiIInv
<1>10. QED
  BY <1>7, <1>8, <1>9 DEF FindMadt, FindFadt

\* A round of get_madt_tables.
LEMMA WalkStep ==
  ASSUME AcpiIInv, WalkRecord
  PROVE  AcpiIInv'
<1> DEFINE c == cur_ics  n == After(cur_ics)
<1>1. /\ pc = "records" /\ length > 0 /\ pc' = "records"
      /\ UNCHANGED <<machine, i, rsdt, xsdt, madt, fadt, redt>>
      /\ length' = length - Records[c].record_length /\ cur_ics' = n
      /\ ioapic_address' = IF Records[c].entry_type = IOAPIC THEN Records[c].ioapicaddr
                                                            ELSE ioapic_address
      /\ IF Stored(Records[c])
           THEN /\ ics_array' = [k \in DOMAIN ics_array |->
                                   IF k = stored THEN Records[c] ELSE ics_array[k]]
                /\ stored' = stored + 1
           ELSE UNCHANGED <<ics_array, stored>>
  BY DEF WalkRecord, Advance, record, Records, After, IoapicAddr, rootVars
<1>2. /\ machine \in Machines /\ i \in Nat /\ length \in Int /\ stored \in Nat
      /\ {rsdt, xsdt, madt, fadt} \subseteq DOMAIN machine.tables \cup {0}
      /\ cur_ics \in Nat /\ DOMAIN ics_array = 0 .. ICS_MAX - 1
      /\ ioapic_address \in DOMAIN machine.ioapics \cup {0}
  BY DEF AcpiIInv, AcpiTypeOK
<1>3. IsMadt
  BY <1>1, MadtValid
<1>4. c \in DOMAIN Records /\ length = Bytes - c /\ Bytes \in Int
  <2>1. cur_ics \in DOMAIN Records \cup {Bytes} /\ length = Bytes - cur_ics
    BY <1>1 DEF AcpiIInv, WalkInv
  <2>2. Bytes \in Int /\ c # Bytes
    BY <1>1, <1>2, <1>3, <2>1 DEF IsMadt
  <2>3. QED
    BY <2>1, <2>2
<1>5. /\ stored = Before(c)
      /\ \A o \in Needed : o < c /\ Before(o) < ICS_MAX => ics_array[Before(o)] = Records[o]
      /\ \A k \in DOMAIN ics_array :
           ics_array[k] # NULL =>
             \E o \in Needed : o < c /\ k = Before(o) /\ ics_array[k] = Records[o]
      /\ \/ ioapic_address \in DOMAIN machine.ioapics
         \/ /\ ioapic_address = 0
            /\ \A o \in DOMAIN Records : o < c => Records[o].entry_type # IOAPIC
  BY <1>1 DEF AcpiIInv, ArrayInv
<1>6. /\ n \in Int /\ c < n /\ c \in Int
      /\ \A o \in DOMAIN Records : o < n <=> o < c \/ o = c
      /\ Before(n) = IF c \in Needed THEN Before(c) + 1 ELSE Before(c)
  BY <1>3, <1>4, BeforeNext
<1>7. Stored(Records[c]) <=> c \in Needed
  BY <1>3, <1>4, StoredNeeded
<1>8. /\ Records' = Records /\ Needed' = Needed /\ Bytes' = Bytes
      /\ \A x : Before(x)' = Before(x)
  BY <1>1, SameMachine
<1>9. ValidPlace(c) /\ n \in DOMAIN Records \cup {Bytes}
  BY <1>3, <1>4 DEF IsMadt, ValidPlace
<1>10. Needed \subseteq DOMAIN Records
  BY DEF Needed
<1>11. ioapic_address' \in DOMAIN machine.ioapics
       \/ /\ ioapic_address' = 0
          /\ \A o \in DOMAIN Records : o < n => Records[o].entry_type # IOAPIC
  BY <1>1, <1>5, <1>6, <1>9 DEF ValidPlace
<1>12. /\ length' = Bytes - n /\ length' \in Int /\ cur_ics' \in Nat
  <2>1. Records[c].record_length \in 1 .. 255
    BY <1>9, RecordFacts DEF ValidPlace
  <2>2. n = c + Records[c].record_length
    BY DEF After
  <2>3. /\ length' = length - Records[c].record_length /\ cur_ics' = n /\ cur_ics \in Nat
        /\ length = Bytes - c /\ Bytes \in Int
    BY <1>1, <1>2, <1>4
  <2>4. QED
    BY ONLY <2>1, <2>2, <2>3
<1>13. RedtInv' /\ \A a \in DOMAIN redt' : \A p \in DOMAIN redt'[a] :
                     redt'[a][p] \in [vector : 0 .. 255, masked : BOOLEAN]
  BY <1>1, SameRedt
<1> HIDE DEF c, n
<1>14. /\ DOMAIN ics_array' = 0 .. ICS_MAX - 1 /\ stored' \in Nat /\ stored' = Before(n)
       /\ \A k \in DOMAIN ics_array : ics_array'[k] =
            IF k = stored /\ c \in Needed THEN Records[c] ELSE ics_array[k]
  BY <1>1, <1>2, <1>5, <1>6, <1>7
<1>15. \A o \in Needed : Before(o) \in Nat /\ (o < c => Before(o) < stored)
  BY <1>3, <1>5, <1>6, NeededFinite, BeforeGrows
<1>16. ASSUME NEW o \in Needed, o < n, Before(o) < ICS_MAX
       PROVE  ics_array'[Before(o)] = Records[o]
  <2>1. Before(o) \in DOMAIN ics_array
    BY <1>2, <1>15, <1>16
  <2>2. o < c \/ o = c
    BY <1>6, <1>10, <1>16
  <2>3. CASE o < c
    BY <1>2, <1>5, <1>14, <1>15, <1>16, <2>1, <2>3
  <2>4. CASE o = c
    BY <1>5, <1>14, <2>1, <2>4
  <2>5. QED
    BY <2>2, <2>3, <2>4
<1>17. ASSUME NEW k \in DOMAIN ics_array', ics_array'[k] # NULL
       PROVE  \E o \in Needed : o < n /\ k = Before(o) /\ ics_array'[k] = Records[o]
  <2>1. k \in DOMAIN ics_array
    BY <1>2, <1>14
  <2>2. CASE k = stored /\ c \in Needed
    BY <1>5, <1>6, <1>14, <2>1, <2>2
  <2>3. CASE ~(k = stored /\ c \in Needed)
    BY <1>5, <1>6, <1>10, <1>14, <1>17, <2>1, <2>3
  <2>4. QED
    BY <2>2, <2>3
<1>18. AcpiTypeOK'
  BY <1>1, <1>2, <1>11, <1>12, <1>13, <1>14 DEF AcpiTypeOK, Walked
<1>19. RootInv' /\ MadtInv'
  BY <1>1 DEF AcpiIInv, RootInv, MadtInv
<1>20. WalkInv'
  BY <1>1, <1>8, <1>9, <1>12 DEF WalkInv, Walked
<1>21. ArrayInv'
  <2>1. cur_ics' = n /\ pc' = "records" /\ UNCHANGED machine
    BY <1>1
  <2>2. Before(cur_ics)' = Before(n)
    BY <1>8, <2>1
  <2>3. QED
    BY <1>8, <1>11, <1>14, <1>16, <1>17, <2>1, <2>2 DEF ArrayInv
<1>22. QED
  BY <1>13, <1>18, <1>19, <1>20, <1>21 DEF AcpiIInv

\* The walk ends at the end of the MADT, and has met an I/O APIC.
LEMMA WalkDoneStep ==
  ASSUME AcpiIInv, WalkDone
  PROVE  AcpiIInv'
<1>1. /\ pc = "records" /\ length <= 0 /\ pc' = "mask" /\ i' = 0
      /\ UNCHANGED <<machine, rsdt, xsdt, madt, fadt, redt>>
      /\ UNCHANGED <<cur_ics, length, ics_array, stored, ioapic_address>>
  BY DEF WalkDone, madtVars
<1>2. /\ machine \in Machines /\ i' \in Nat /\ length \in Int /\ stored \in Nat
      /\ {rsdt, xsdt, madt, fadt} \subseteq DOMAIN machine.tables \cup {0}
      /\ cur_ics \in Nat /\ DOMAIN ics_array = 0 .. ICS_MAX - 1
  BY <1>1 DEF AcpiIInv, AcpiTypeOK
<1>3. IsMadt
  BY <1>1, MadtValid
<1>4. \A o \in DOMAIN Records : o < Bytes /\ o \in Int
  BY <1>3, BeforeEnd
<1>5. cur_ics = Bytes
  <2>1. cur_ics \in DOMAIN Records \cup {Bytes} /\ length = Bytes - cur_ics
    BY <1>1 DEF AcpiIInv, WalkInv
  <2>2. Bytes \in Int
    BY <1>3 DEF IsMadt
  <2>3. QED
    BY <1>1, <1>4, <2>1, <2>2
<1>6. ioapic_address \in DOMAIN machine.ioapics
  <2>1. \E o \in DOMAIN Records : Records[o].entry_type = IOAPIC
    BY <1>3 DEF IsMadt
  <2>2. QED
    BY <1>1, <1>4, <1>5, <2>1 DEF AcpiIInv, ArrayInv
<1>7. RedtInv' /\ \A a \in DOMAIN redt' : \A p \in DOMAIN redt'[a] :
                    redt'[a][p] \in [vector : 0 .. 255, masked : BOOLEAN]
  BY <1>1, SameRedt
<1>8. /\ Records' = Records /\ Needed' = Needed /\ Bytes' = Bytes
      /\ \A x : Before(x)' = Before(x)
  BY <1>1, SameMachine
<1>9. AcpiTypeOK'
  BY <1>1, <1>2, <1>6, <1>7 DEF AcpiTypeOK
<1>10. RootInv' /\ MadtInv' /\ WalkInv'
  BY <1>1, <1>5, <1>8 DEF AcpiIInv, RootInv, MadtInv, WalkInv
<1>11. ArrayInv'
  <2>1. Before(cur_ics)' = Before(cur_ics)
    BY <1>1, <1>8
  <2>2. QED
    BY <1>1, <1>6, <1>8, <2>1 DEF AcpiIInv, ArrayInv
<1>12. QED
  BY <1>7, <1>9, <1>10, <1>11 DEF AcpiIInv

\* Behind the walk only the redirection entries change.
LEMMA LateStep ==
  ASSUME AcpiIInv, Walked, Walked', i' \in Nat, RedtInv',
         UNCHANGED <<machine, rsdt, xsdt, madt, fadt>>,
         UNCHANGED <<cur_ics, length, ics_array, stored, ioapic_address>>,
         \A a \in DOMAIN redt' : \A p \in DOMAIN redt'[a] :
           redt'[a][p] \in [vector : 0 .. 255, masked : BOOLEAN]
  PROVE  AcpiIInv'
<1>1. /\ Records' = Records /\ Needed' = Needed /\ Bytes' = Bytes
      /\ \A x : Before(x)' = Before(x)
  BY SameMachine
<1>2. AcpiTypeOK'
  BY DEF AcpiIInv, AcpiTypeOK, Walked
<1>3. RootInv'
  BY DEF AcpiIInv, RootInv, Walked
<1>4. MadtInv'
  BY DEF AcpiIInv, MadtInv, Walked
<1>5. WalkInv'
  BY <1>1 DEF AcpiIInv, WalkInv, Walked
<1>6. ArrayInv'
  <2>1. Before(cur_ics)' = Before(cur_ics)
    BY <1>1
  <2>2. QED
    BY <1>1, <2>1 DEF AcpiIInv, ArrayInv
<1>7. QED
  BY <1>2, <1>3, <1>4, <1>5, <1>6 DEF AcpiIInv

\* Writing an entry of the I/O APIC changes the entries of one register.
LEMMA EntryWritten ==
  ASSUME AcpiIInv, Walked, UNCHANGED machine, NEW n,
         NEW v \in [vector : 0 .. 255, masked : BOOLEAN], ioapic_configure_entry(n, v)
  PROVE  /\ DOMAIN redt' = DOMAIN machine.ioapics /\ DOMAIN redt' = DOMAIN redt
         /\ \A a \in DOMAIN redt' : DOMAIN redt'[a] = Pins(a) /\ DOMAIN redt'[a] = DOMAIN redt[a]
         /\ \A a \in DOMAIN redt' : \A p \in DOMAIN redt'[a] :
              /\ redt'[a][p] = IF a = ioapic_address /\ 16 + 2 * p = IOAPICREDTBL_REG(n)
                                THEN v ELSE redt[a][p]
              /\ redt'[a][p] \in [vector : 0 .. 255, masked : BOOLEAN]
<1> DEFINE R == IOAPICREDTBL_REG(n)  E == [vector : 0 .. 255, masked : BOOLEAN]
<1>1. ioapic_address \in DOMAIN redt /\ DOMAIN redt = DOMAIN machine.ioapics
  BY DEF AcpiIInv, AcpiTypeOK, RedtInv
<1>2. \A a \in DOMAIN redt : DOMAIN redt[a] = Pins(a)
  BY DEF AcpiIInv, RedtInv
<1>3. \A a \in DOMAIN redt : \A p \in DOMAIN redt[a] : redt[a][p] \in E
  BY DEF AcpiIInv, AcpiTypeOK
<1>4. redt' = [redt EXCEPT ![ioapic_address] =
                 [p \in DOMAIN @ |-> IF 16 + 2 * p = R THEN v ELSE @[p]]]
  BY DEF ioapic_configure_entry
<1>5. v \in E
  OBVIOUS
<1> HIDE DEF R, E
<1>6. /\ DOMAIN redt' = DOMAIN redt
      /\ redt'[ioapic_address] = [p \in DOMAIN redt[ioapic_address] |->
            IF 16 + 2 * p = R THEN v ELSE redt[ioapic_address][p]]
      /\ \A a \in DOMAIN redt : a # ioapic_address => redt'[a] = redt[a]
  BY ONLY <1>1, <1>4
<1>7. \A a \in DOMAIN redt : DOMAIN redt'[a] = DOMAIN redt[a]
  BY ONLY <1>1, <1>6
<1>8. \A a \in DOMAIN redt : \A p \in DOMAIN redt[a] :
        redt'[a][p] = IF a = ioapic_address /\ 16 + 2 * p = R THEN v ELSE redt[a][p]
  BY ONLY <1>1, <1>6
<1>9. \A a \in DOMAIN redt : \A p \in DOMAIN redt[a] : redt'[a][p] \in E
  BY ONLY <1>3, <1>5, <1>8
<1>10. QED
  <2>1. DOMAIN redt' = DOMAIN redt /\ DOMAIN redt' = DOMAIN machine.ioapics
    BY <1>1, <1>6
  <2>2. \A a \in DOMAIN redt' : DOMAIN redt'[a] = Pins(a) /\ DOMAIN redt'[a] = DOMAIN redt[a]
    BY ONLY <1>2, <1>7, <2>1
  <2>3. \A a \in DOMAIN redt' : \A p \in DOMAIN redt'[a] :
          a \in DOMAIN redt /\ p \in DOMAIN redt[a]
    BY ONLY <2>1, <2>2
  <2>4. \A a \in DOMAIN redt' : \A p \in DOMAIN redt'[a] :
          /\ redt'[a][p] = IF a = ioapic_address /\ 16 + 2 * p = R THEN v ELSE redt[a][p]
          /\ redt'[a][p] \in E
    BY ONLY <1>8, <1>9, <2>3
  <2>5. QED
    BY ONLY <2>1, <2>2, <2>4, Zenon DEF R, E

\* find_gsi gives the interrupt the firmware wires IRQ 1 to.
LEMMA KeyboardFound ==
  ASSUME AcpiIInv, Walked, Simple
  PROVE  find_gsi(1) = KeyboardGsi /\ KeyboardGsi \in Pins(ioapic_address)
<1> DEFINE O == Overrides(machine.tables[madt], 1)
           K == {k \in DOMAIN ics_array : /\ ics_array[k] # NULL
                                          /\ ics_array[k].entry_type = ISO
                                          /\ ics_array[k].source = 1}
<1>1. /\ machine \in Machines /\ ioapic_address \in DOMAIN machine.ioapics
      /\ DOMAIN ics_array = 0 .. ICS_MAX - 1 /\ machine.ioapics[ioapic_address].base = 0
      /\ Cardinality(Needed) <= ICS_MAX
  BY DEF AcpiIInv, AcpiTypeOK, Simple
<1>2. IsMadt
  BY MadtValid DEF Walked
<1>3. cur_ics = Bytes /\ Bytes \in Int
  BY <1>2 DEF AcpiIInv, WalkInv, IsMadt
<1>4. /\ \A o \in Needed :
           o < Bytes /\ Before(o) < ICS_MAX => ics_array[Before(o)] = Records[o]
      /\ \A k \in DOMAIN ics_array :
           ics_array[k] # NULL =>
             \E o \in Needed : o < Bytes /\ k = Before(o) /\ ics_array[k] = Records[o]
  BY <1>3 DEF AcpiIInv, ArrayInv
<1>5. O = {o \in DOMAIN Records : Records[o].entry_type = ISO /\ Records[o].source = 1}
  BY DEF Overrides, Records
<1>6. /\ \A o \in O : o \in Needed /\ o \in DOMAIN Records /\ Records[o].entry_type = ISO
      /\ \A o, other \in O : o = other
  BY <1>2, <1>5 DEF Needed, IsMadt
<1>7. \A k \in K : \E o \in O : k = Before(o)
  BY <1>4, <1>5 DEF Needed
<1>8. find_gsi(1) = IF K = {} THEN 1 ELSE ics_array[CHOOSE k \in K : \A l \in K : k <= l].gsi
  BY DEF find_gsi
<1>9. KeyboardGsi = IF O = {} THEN 1 ELSE Records[CHOOSE o \in O : TRUE].gsi
  BY DEF KeyboardGsi
<1>10. CASE O = {}
  <2>1. K = {}
    BY <1>7, <1>10
  <2>2. 1 \in Pins(ioapic_address)
    BY <1>1, MachinesAssumption DEF ValidMachine, ValidIoapics, Pins
  <2>3. QED
    BY <1>8, <1>9, <1>10, <2>1, <2>2
<1>11. CASE O # {}
  <2>1. PICK o \in O : TRUE
    BY <1>11
  <2>2. o \in Needed /\ o \in DOMAIN Records /\ Records[o].entry_type = ISO
        /\ Records[o].source = 1
    BY <1>5, <1>6, <2>1
  <2>3. o < Bytes /\ Before(Bytes) = Cardinality(Needed)
    BY <1>2, <2>2, BeforeEnd
  <2>4. Before(o) < Before(Bytes)
    BY <1>2, <1>3, <2>2, <2>3, BeforeGrows
  <2>5. Before(o) \in Nat /\ Cardinality(Needed) \in Nat
    BY <1>2, NeededFinite
  <2>6. Before(o) < ICS_MAX /\ Before(o) \in DOMAIN ics_array
    BY <1>1, <2>3, <2>4, <2>5
  <2>7. ics_array[Before(o)] = Records[o] /\ Records[o] # NULL
    BY <1>2, <1>4, <2>2, <2>3, <2>6, RecordFacts DEF IsMadt, ValidPlace
  <2>8. Before(o) \in K
    BY <2>2, <2>6, <2>7
  <2>9. \A k \in K : k = Before(o)
    BY <1>6, <1>7
  <2> HIDE DEF O, K
  <2>10. K = {Before(o)} /\ O = {o}
    BY <1>6, <2>1, <2>8, <2>9
  <2>11. (CHOOSE k \in K : \A l \in K : k <= l) = Before(o)
    BY <2>5, <2>10
  <2>12. (CHOOSE u \in O : TRUE) = o
    BY <2>10
  <2>13. Records[o].gsi \in Pins(ioapic_address)
    BY <1>1, <1>2, <2>2 DEF IsMadt, ValidPlace
  <2>14. QED
    BY <1>8, <1>9, <1>11, <2>7, <2>10, <2>11, <2>12, <2>13
<1>12. QED
  BY <1>10, <1>11

\* The entry that ps2_int_init writes is that of the keyboard's pin.
LEMMA KeyboardPin ==
  ASSUME AcpiIInv, Walked, Simple, NEW a \in DOMAIN machine.ioapics, NEW p \in Pins(a)
  PROVE  IsKeyboard(a, p) <=> a = ioapic_address /\ 16 + 2 * p = IOAPICREDTBL_REG(find_gsi(1))
<1>1. find_gsi(1) = KeyboardGsi /\ KeyboardGsi \in Pins(ioapic_address)
  BY KeyboardFound
<1>2. /\ machine \in Machines /\ ioapic_address \in DOMAIN machine.ioapics
      /\ machine.ioapics[ioapic_address].base = 0
  BY DEF AcpiIInv, AcpiTypeOK, Simple
<1>3. ValidIoapics(machine.ioapics)
  BY <1>2, MachinesAssumption DEF ValidMachine
<1>4. PICK g : g = KeyboardGsi
  OBVIOUS
<1>5. p \in 0 .. 119 /\ g \in 0 .. 119 /\ machine.ioapics[a].base \in Nat
  BY <1>1, <1>2, <1>3, <1>4 DEF ValidIoapics, Pins
<1>6. machine.ioapics[a].base + p = machine.ioapics[ioapic_address].base + g => a = ioapic_address
  <2>1. \A b \in DOMAIN machine.ioapics : \A q \in DOMAIN machine.ioapics[b].pins :
          machine.ioapics[a].base + p = machine.ioapics[b].base + q => a = b
    BY <1>3 DEF ValidIoapics, Pins
  <2>2. ioapic_address \in DOMAIN machine.ioapics
        /\ g \in DOMAIN machine.ioapics[ioapic_address].pins
    BY <1>1, <1>2, <1>4 DEF Pins
  <2>3. QED
    BY ONLY <2>1, <2>2, Zenon
<1>7. IOAPICREDTBL_REG(g) = 16 + 2 * g
  BY <1>5 DEF IOAPICREDTBL_REG
<1>8. IsKeyboard(a, p) <=> machine.ioapics[a].base + p = g
  BY <1>4 DEF IsKeyboard
<1>9. PICK b : b = machine.ioapics[a].base
  OBVIOUS
<1>10. b \in Nat /\ (a = ioapic_address => b = 0) /\ (b + p = 0 + g => a = ioapic_address)
  BY <1>2, <1>5, <1>6, <1>9
<1>11. b + p = g <=> a = ioapic_address /\ 16 + 2 * p = 16 + 2 * g
  <2>1. b + p = g => a = ioapic_address /\ p = g
    BY ONLY <1>5, <1>10
  <2>2. a = ioapic_address /\ 16 + 2 * p = 16 + 2 * g => b = 0 /\ p = g
    BY ONLY <1>5, <1>10
  <2>3. QED
    BY ONLY <1>5, <2>1, <2>2
<1>12. QED
  BY ONLY <1>1, <1>4, <1>7, <1>8, <1>9, <1>11, Zenon

\* The three values that are written.
LEMMA EntryValues ==
  /\ Masked \in [vector : 0 .. 255, masked : BOOLEAN] /\ Masked.masked /\ Masked.vector # 33
  /\ KeyboardEntry \in [vector : 0 .. 255, masked : BOOLEAN]
  /\ KeyboardEntry.vector = 33
  /\ [vector |-> 0, masked |-> FALSE] \in [vector : 0 .. 255, masked : BOOLEAN]
  /\ [vector |-> 0, masked |-> FALSE].vector # 33
BY DEF Masked, KeyboardEntry

\* init_apic masks the pins.
LEMMA MaskStep ==
  ASSUME AcpiIInv, MaskPin \/ MaskDone
  PROVE  AcpiIInv'
<1>1. /\ pc = "mask" /\ pc' \in {"mask", "unmask"} /\ i' \in {i, i + 1}
      /\ UNCHANGED <<machine, rsdt, xsdt, madt, fadt>>
      /\ UNCHANGED <<cur_ics, length, ics_array, stored, ioapic_address>>
  BY DEF MaskPin, MaskDone, rootVars, madtVars
<1>2. Walked /\ Walked' /\ i' \in Nat
  BY <1>1 DEF AcpiIInv, AcpiTypeOK, Walked
<1>3. CASE MaskPin
  <2>1. ioapic_configure_entry(i, Masked)
    BY <1>3 DEF MaskPin
  <2>2. /\ DOMAIN redt' = DOMAIN machine.ioapics /\ DOMAIN redt' = DOMAIN redt
        /\ \A a \in DOMAIN redt' : DOMAIN redt'[a] = Pins(a) /\ DOMAIN redt'[a] = DOMAIN redt[a]
        /\ \A a \in DOMAIN redt' : \A p \in DOMAIN redt'[a] :
             /\ redt'[a][p] \in {Masked, redt[a][p]}
             /\ redt'[a][p] \in [vector : 0 .. 255, masked : BOOLEAN]
    BY <1>1, <1>2, <2>1, EntryWritten, EntryValues
  <2>3. \A a \in DOMAIN redt : \A p \in DOMAIN redt[a] :
          redt[a][p].masked /\ redt[a][p].vector # 33
    BY <1>1 DEF AcpiIInv, RedtInv
  <2>4. \A a \in DOMAIN redt' : \A p \in DOMAIN redt'[a] :
          redt'[a][p].masked /\ redt'[a][p].vector # 33
    <3> SUFFICES ASSUME NEW a \in DOMAIN redt', NEW p \in DOMAIN redt'[a]
                 PROVE  redt'[a][p].masked /\ redt'[a][p].vector # 33
      OBVIOUS
    <3>1. a \in DOMAIN redt /\ p \in DOMAIN redt[a]
          /\ (redt'[a][p] = Masked \/ redt'[a][p] = redt[a][p])
      BY <2>2
    <3>2. redt[a][p].masked /\ redt[a][p].vector # 33
      BY ONLY <2>3, <3>1
    <3>3. QED
      BY ONLY <3>1, <3>2, EntryValues, Zenon
  <2>5. \A a : Pins(a)' = Pins(a)
    BY <1>1, SameMachine
  <2>6. pc' # "vector" /\ pc' # "ready"
    BY <1>1
  <2>7. RedtInv'
    BY ONLY <1>1, <2>2, <2>4, <2>5, <2>6 DEF RedtInv
  <2>8. QED
    BY <1>1, <1>2, <2>2, <2>7, LateStep
<1>4. CASE MaskDone
  <2>1. UNCHANGED redt
    BY <1>4 DEF MaskDone
  <2>2. QED
    BY <1>1, <1>2, <2>1, SameRedt, LateStep
<1>5. QED
  BY <1>3, <1>4

\* ps2_int_init unmasks the keyboard's pin and gives it its vector.
LEMMA KeyboardStep ==
  ASSUME AcpiIInv, ps2_int_init
  PROVE  AcpiIInv'
<1>1. PICK v \in [vector : 0 .. 255, masked : BOOLEAN] :
        /\ ioapic_configure_entry(find_gsi(1), v)
        /\ UNCHANGED <<machine, rootVars, madtVars>>
        /\ \/ pc = "unmask" /\ pc' = "vector" /\ v = [vector |-> 0, masked |-> FALSE]
           \/ pc = "vector" /\ pc' = "ready" /\ v = KeyboardEntry
  BY EntryValues DEF ps2_int_init
<1>2. /\ UNCHANGED <<machine, i, rsdt, xsdt, madt, fadt>>
      /\ UNCHANGED <<cur_ics, length, ics_array, stored, ioapic_address>>
  BY <1>1 DEF rootVars, madtVars
<1>3. Walked /\ Walked' /\ i' \in Nat
  BY <1>1, <1>2 DEF AcpiIInv, AcpiTypeOK, Walked
<1> DEFINE Key(a, p) == a = ioapic_address /\ 16 + 2 * p = IOAPICREDTBL_REG(find_gsi(1))
<1>4. /\ DOMAIN redt' = DOMAIN machine.ioapics /\ DOMAIN redt' = DOMAIN redt
      /\ \A a \in DOMAIN redt' : DOMAIN redt'[a] = Pins(a) /\ DOMAIN redt'[a] = DOMAIN redt[a]
      /\ \A a \in DOMAIN redt' : \A p \in DOMAIN redt'[a] :
           /\ redt'[a][p] = IF Key(a, p) THEN v ELSE redt[a][p]
           /\ redt'[a][p] \in [vector : 0 .. 255, masked : BOOLEAN]
  BY <1>1, <1>2, <1>3, EntryWritten
<1>5. /\ \A a, p : IsKeyboard(a, p)' <=> IsKeyboard(a, p)
      /\ \A a : Pins(a)' = Pins(a)
      /\ Simple' = Simple
  BY <1>2, SameMachine
<1>6. ASSUME Simple, NEW a \in DOMAIN redt', NEW p \in DOMAIN redt'[a]
      PROVE  /\ pc' = "vector" =>
                  redt'[a][p].vector # 33 /\ (~redt'[a][p].masked => IsKeyboard(a, p))
             /\ pc' = "ready" =>
                  /\ ~redt'[a][p].masked => IsKeyboard(a, p)
                  /\ redt'[a][p].vector = 33 <=> IsKeyboard(a, p)
  <2>1. a \in DOMAIN redt /\ p \in DOMAIN redt[a] /\ a \in DOMAIN machine.ioapics /\ p \in Pins(a)
    BY <1>4
  <2>2. IsKeyboard(a, p) <=> Key(a, p)
    BY <1>3, <1>6, <2>1, KeyboardPin
  <2>3. /\ pc = "unmask" => redt[a][p].masked /\ redt[a][p].vector # 33
        /\ pc = "vector" =>
             redt[a][p].vector # 33 /\ (~redt[a][p].masked => IsKeyboard(a, p))
    BY <1>6, <2>1 DEF AcpiIInv, RedtInv
  <2>4. redt'[a][p] = IF Key(a, p) THEN v ELSE redt[a][p]
    BY <1>4
  <2> HIDE DEF Key
  <2>5. CASE Key(a, p)
    <3>1. redt'[a][p] = v /\ IsKeyboard(a, p)
      BY <2>2, <2>4, <2>5
    <3>2. (pc' = "vector" => v.vector # 33) /\ (pc' = "ready" => v.vector = 33)
      BY <1>1, EntryValues
    <3>3. QED
      BY ONLY <3>1, <3>2, Zenon
  <2>6. CASE ~Key(a, p)
    <3>1. redt'[a][p] = redt[a][p] /\ ~IsKeyboard(a, p)
      BY <2>2, <2>4, <2>6
    <3>2. redt[a][p].masked /\ redt[a][p].vector # 33
      BY <1>1, <2>3, <3>1
    <3>3. QED
      BY ONLY <3>1, <3>2, Zenon
  <2>7. QED
    BY ONLY <2>5, <2>6
<1>7. RedtInv'
  <2>1. pc' \in {"vector", "ready"}
    BY <1>1
  <2>2. DOMAIN redt' = DOMAIN machine'.ioapics /\ \A a \in DOMAIN redt' : DOMAIN redt'[a] = Pins(a)'
    BY <1>2, <1>4, <1>5
  <2>3. QED
    BY ONLY <1>5, <1>6, <2>1, <2>2, Zenon DEF RedtInv
<1>8. QED
  BY <1>2, <1>3, <1>4, <1>7, LateStep

\* Every step keeps the invariant.
LEMMA AcpiInvStep == AcpiIInv /\ [AcpiNext]_acpiVars => AcpiIInv'
<1> SUFFICES ASSUME AcpiIInv, [AcpiNext]_acpiVars PROVE AcpiIInv'
  OBVIOUS
<1>1. CASE init_acpi
  BY <1>1, StartAcpiStep, SearchStep DEF init_acpi
<1>2. CASE init_apic
  BY <1>2, WalkStep, WalkDoneStep, MaskStep DEF init_apic
<1>3. CASE ps2_int_init
  BY <1>3, KeyboardStep
<1>4. CASE UNCHANGED acpiVars
  <2>1. /\ UNCHANGED <<machine, pc, i, rsdt, xsdt, madt, fadt, redt>>
        /\ UNCHANGED <<cur_ics, length, ics_array, stored, ioapic_address>>
    BY <1>4 DEF acpiVars, rootVars, madtVars
  <2>2. AcpiTypeOK' /\ RootInv' /\ MadtInv'
    BY <2>1 DEF AcpiIInv, AcpiTypeOK, RootInv, MadtInv, Walked
  <2>3. /\ Records' = Records /\ Needed' = Needed /\ Bytes' = Bytes
        /\ \A x : Before(x)' = Before(x)
        /\ \A a, p : IsKeyboard(a, p)' <=> IsKeyboard(a, p)
        /\ \A a : Pins(a)' = Pins(a)
        /\ Simple' = Simple
    BY <2>1, SameMachine
  <2>4. WalkInv'
    BY <2>1, <2>3 DEF AcpiIInv, WalkInv, Walked
  <2>5. ArrayInv'
    <3>1. Before(cur_ics)' = Before(cur_ics) /\ Walked' = Walked
      BY <2>1, <2>3 DEF Walked
    <3>2. QED
      BY <2>1, <2>3, <3>1 DEF AcpiIInv, ArrayInv
  <2>6. RedtInv'
    BY <2>1, <2>3 DEF AcpiIInv, RedtInv
  <2>7. QED
    BY <2>2, <2>4, <2>5, <2>6 DEF AcpiIInv
<1>5. QED
  BY <1>1, <1>2, <1>3, <1>4 DEF AcpiNext, AcpiEnd

--------------------------------------------------------------------------------
\* On every valid machine, the root pointers stay the firmware's, the walk of
\* get_madt_tables stands at a record or at the end of the MADT, ics_array holds
\* what is needed of the records behind it, and the redirection entries stay
\* masked until ps2_int_init writes the keyboard's.
THEOREM AcpiInvariant == AcpiSpec => []AcpiIInv
<1>1. AcpiInit => AcpiIInv
  BY AcpiInitInv
<1>2. AcpiIInv /\ [AcpiNext]_acpiVars => AcpiIInv'
  BY AcpiInvStep
<1>3. QED
  BY <1>1, <1>2, PTL DEF AcpiSpec

\* The variables of init_acpi and init_apic have their types; in particular an
\* I/O APIC has been found by the time its registers are written.
THEOREM AcpiTypeCorrect == AcpiSpec => []AcpiTypeOK
<1>1. AcpiIInv => AcpiTypeOK
  BY DEF AcpiIInv
<1>2. QED
  BY <1>1, AcpiInvariant, PTL

\* find_acpi_table reads only pointers that the root table holds, and
\* get_madt_tables reads every record, none behind the last, and leaves the
\* needed ones in ics_array in their order, as far as it reaches.
THEOREM AcpiTablesRead == AcpiSpec => []TablesRead
<1>1. AcpiIInv => TablesRead
  <2> SUFFICES ASSUME AcpiIInv PROVE TablesRead
    OBVIOUS
  <2>1. Searching /\ i < entries(Root) => i < Len(machine.tables[Root].tableptrs)
    BY RootTable DEF Searching
  <2>2. ASSUME pc = "records", length > 0
        PROVE  cur_ics \in DOMAIN Records
    <3>1. cur_ics \in DOMAIN Records \cup {Bytes} /\ length = Bytes - cur_ics
      BY <2>2 DEF AcpiIInv, WalkInv
    <3>2. IsMadt
      BY <2>2, MadtValid
    <3>3. Bytes \in Int
      BY <3>2 DEF IsMadt
    <3>4. cur_ics # Bytes
      BY <2>2, <3>1, <3>3
    <3>5. QED
      BY <3>1, <3>4
  <2>3. ASSUME Walked
        PROVE  /\ \A o \in Needed : Before(o) < ICS_MAX => ics_array[Before(o)] = Records[o]
               /\ \A k \in DOMAIN ics_array : k >= Cardinality(Needed) => ics_array[k] = NULL
    <3>1. IsMadt
      BY <2>3, MadtValid DEF Walked
    <3>2. cur_ics = Bytes /\ Bytes \in Int
      BY <2>3, <3>1 DEF AcpiIInv, WalkInv, IsMadt
    <3>3. /\ Before(Bytes) = Cardinality(Needed)
          /\ \A o \in Needed : o < Bytes /\ o \in Int
      BY <3>1, BeforeEnd DEF Needed
    <3>4. \A o \in Needed : /\ Before(o) \in Nat /\ Cardinality(Needed) \in Nat
                            /\ Before(o) < Cardinality(Needed)
      BY <3>1, <3>2, <3>3, NeededFinite, BeforeGrows
    <3>5. \A o \in Needed : Before(o) < ICS_MAX => ics_array[Before(o)] = Records[o]
      BY <2>3, <3>2, <3>3 DEF AcpiIInv, ArrayInv
    <3>6. ASSUME NEW k \in DOMAIN ics_array, k >= Cardinality(Needed), ics_array[k] # NULL
          PROVE  FALSE
      <4>1. PICK o \in Needed : k = Before(o)
        BY <2>3, <3>6 DEF AcpiIInv, ArrayInv
      <4>2. QED
        BY <3>4, <3>6, <4>1
    <3>7. QED
      BY <3>5, <3>6
  <2>4. QED
    BY <2>1, <2>2, <2>3 DEF TablesRead
<1>2. QED
  BY <1>1, AcpiInvariant, PTL

\* ps2_int_init routes the keyboard's interrupt, and nothing else: on a valid
\* machine whose records fit ics_array and whose last I/O APIC has the legacy
\* interrupts, no pin but the keyboard's is unmasked at any time, and in the end
\* it alone has vector 33.
THEOREM AcpiKeyboardRouted == AcpiSpec => []KeyboardRouted
<1>1. AcpiIInv => KeyboardRouted
  <2> SUFFICES ASSUME AcpiIInv, Walked, Simple, NEW a \in DOMAIN redt, NEW p \in DOMAIN redt[a]
               PROVE  /\ ~redt[a][p].masked => IsKeyboard(a, p)
                      /\ pc = "ready" => (redt[a][p].vector = 33 <=> IsKeyboard(a, p))
    BY DEF KeyboardRouted
  <2>1. /\ pc \notin {"vector", "ready"} => redt[a][p].masked
        /\ pc = "vector" => (~redt[a][p].masked => IsKeyboard(a, p))
        /\ pc = "ready" => /\ ~redt[a][p].masked => IsKeyboard(a, p)
                           /\ redt[a][p].vector = 33 <=> IsKeyboard(a, p)
    BY DEF AcpiIInv, RedtInv
  <2>2. QED
    BY <2>1
<1>2. QED
  BY <1>1, AcpiInvariant, PTL
================================================================================
