---------------------------------- MODULE Acpi ---------------------------------
(***************************************************************************)
(* Finding the interrupt hardware: init_acpi and find_acpi_table           *)
(* (kern/sys/acpi/acpi.c), and what init_apic does with the MADT: the walk *)
(* over its records, the table ics_array, and the redirection entries of   *)
(* the I/O APIC up to the keyboard's (kern/sys/acpi/apic.c).               *)
(*                                                                         *)
(* A machine is what the firmware left in memory: the RSDP, the tables at  *)
(* their addresses, and the I/O APICs.  Lengths are in bytes.  The records *)
(* of the MADT are given by their place, in bytes from the first, and so   *)
(* is the pointer cur_ics.                                                 *)
(***************************************************************************)
EXTENDS Integers, Sequences, FiniteSets

CONSTANTS Machines,  \* the machines the kernel may be booted on
          ICS_MAX,   \* elements of ics_array (64)
          NULL

VARIABLES machine,         \* the machine booted on
          pc,              \* where init_acpi is
          i,               \* find_acpi_table: the pointer looked at, from 0
          rsdt, xsdt,      \* addresses of the root tables, 0 for NULL
          madt, fadt,      \* addresses of the tables found
          cur_ics,         \* get_madt_tables: the place looked at
          length,          \* ... and the bytes left
          ics_array,       \* the records stored, by index
          stored,          \* its local i: how many stores there were
          ioapic_address,
          redt             \* the redirection entries, by I/O APIC and pin

rootVars == <<i, rsdt, xsdt, madt, fadt>>
madtVars == <<cur_ics, length, ics_array, stored, ioapic_address>>
acpiVars == <<machine, pc, rootVars, madtVars, redt>>

sizeof_sdt == 36
sizeof_madt == 46
ROOT_PTR == [rsdt |-> 4, xsdt |-> 8]

LAPIC == 0
IOAPIC == 1
ISO == 2

(***************************************************************************)
(* What ACPI and the boot loader guarantee.  The records of a MADT follow  *)
(* one another to its end, there is an I/O APIC among them, and IRQ 1 is   *)
(* overridden once at most.  The interrupts that an IRQ can be wired to    *)
(* are those of the I/O APIC that counts from 0, no interrupt is at two    *)
(* I/O APICs, and all are masked and have another vector than the          *)
(* keyboard's.  A root table has a pointer size of its own, and its length *)
(* is that of its header and its pointers.                                 *)
(***************************************************************************)
MadtRecords ==
  [entry_type : {LAPIC}, record_length : 1 .. 255, flags : Nat] \cup
  [entry_type : {IOAPIC}, record_length : 1 .. 255, ioapicaddr : Nat, gsi : Nat] \cup
  [entry_type : {ISO}, record_length : 1 .. 255, source : Nat, gsi : Nat] \cup
  [entry_type : Nat \ {LAPIC, IOAPIC, ISO}, record_length : 1 .. 255]

Overrides(t, irq) ==
  {o \in DOMAIN t.records : t.records[o].entry_type = ISO /\ t.records[o].source = irq}

ValidMadt(m, t) ==
  LET bytes == t.length - 44
      next(o) == o + t.records[o].record_length
  IN
  /\ t.length \in Nat /\ DOMAIN t.records \subseteq 0 .. bytes - 1 /\ 0 \in DOMAIN t.records
  /\ \A o \in DOMAIN t.records :
       /\ t.records[o] \in MadtRecords
       /\ next(o) \in DOMAIN t.records \cup {bytes}
       /\ \A other \in DOMAIN t.records : other <= o \/ next(o) <= other
       /\ t.records[o].entry_type = IOAPIC => t.records[o].ioapicaddr \in DOMAIN m.ioapics
       /\ t.records[o].entry_type = ISO =>
            \A a \in DOMAIN m.ioapics :
              m.ioapics[a].base = 0 => t.records[o].gsi \in DOMAIN m.ioapics[a].pins
  /\ \E o \in DOMAIN t.records : t.records[o].entry_type = IOAPIC
  /\ \A o, other \in Overrides(t, 1) : o = other

ValidRoot(m, addr, size) ==
  /\ addr \in DOMAIN m.tables
  /\ m.tables[addr].tableptrs \in Seq(DOMAIN m.tables \ {0})
  /\ m.tables[addr].length = sizeof_sdt + size * Len(m.tables[addr].tableptrs)

ValidIoapics(apics) ==
  \A a \in DOMAIN apics :
    /\ apics[a].base \in Nat
    /\ DOMAIN apics[a].pins \subseteq 0 .. 119
    /\ apics[a].base = 0 => 1 \in DOMAIN apics[a].pins
    /\ \A p \in DOMAIN apics[a].pins :
         /\ apics[a].pins[p] \in [vector : (0 .. 255) \ {33}, masked : {TRUE}]
         /\ \A b \in DOMAIN apics : \A q \in DOMAIN apics[b].pins :
              apics[a].base + p = apics[b].base + q => a = b

ValidMachine(m) ==
  /\ ValidIoapics(m.ioapics)
  /\ \A t \in DOMAIN m.tables :
       m.tables[t].signature = "APIC" => ValidMadt(m, m.tables[t])
  /\ m.rsdp # NULL =>
       /\ m.rsdp.rsdtaddress # 0 \/ m.rsdp.xsdtaddress # 0
       /\ m.rsdp.rsdtaddress # 0 => ValidRoot(m, m.rsdp.rsdtaddress, ROOT_PTR.rsdt)
       /\ m.rsdp.xsdtaddress # 0 => ValidRoot(m, m.rsdp.xsdtaddress, ROOT_PTR.xsdt)

ASSUME IcsAssumption == ICS_MAX \in Nat /\ NULL \notin MadtRecords
ASSUME MachinesAssumption == \A m \in Machines : ValidMachine(m)

Masked == [vector |-> 0, masked |-> TRUE]
Pins(a) == DOMAIN machine.ioapics[a].pins

AcpiInit ==
  /\ machine \in Machines
  /\ pc = "start" /\ i = 0
  /\ rsdt = 0 /\ xsdt = 0 /\ madt = 0 /\ fadt = 0
  /\ cur_ics = 0 /\ length = 0
  /\ ics_array = [k \in 0 .. ICS_MAX - 1 |-> NULL] /\ stored = 0
  /\ ioapic_address = 0
  /\ redt = [a \in DOMAIN machine.ioapics |-> machine.ioapics[a].pins]

--------------------------------------------------------------------------------
\* init_acpi up to the first search; parse_rsdt and parse_xsdt give NULL for 0.
StartAcpi ==
  /\ pc = "start"
  /\ IF machine.rsdp = NULL
       THEN pc' = "panic" /\ UNCHANGED rootVars
       ELSE /\ pc' = "APIC" /\ i' = 0
            /\ rsdt' = machine.rsdp.rsdtaddress
            /\ xsdt' = machine.rsdp.xsdtaddress
            /\ UNCHANGED <<madt, fadt>>
  /\ UNCHANGED <<machine, madtVars, redt>>

\* The number of pointers in the root table that is used.
entries(root) == (machine.tables[root].length - sizeof_sdt) \div
                   (IF root = xsdt THEN ROOT_PTR.xsdt ELSE ROOT_PTR.rsdt)

Root == IF xsdt = 0 THEN rsdt ELSE xsdt
header == machine.tables[Root].tableptrs[i + 1]

\* A round of find_acpi_table that has not found its table, or gives up.
find_acpi_table(signature) ==
  /\ pc = signature
  /\ \/ /\ i < entries(Root) /\ machine.tables[header].signature # signature
        /\ i' = i + 1 /\ UNCHANGED pc
     \/ /\ i >= entries(Root)
        /\ pc' = "panic" /\ UNCHANGED i
  /\ UNCHANGED <<machine, rsdt, xsdt, madt, fadt, madtVars, redt>>

\* A round that returns header; what follows is its caller's.
Found(signature) ==
  /\ pc = signature
  /\ i < entries(Root) /\ machine.tables[header].signature = signature
  /\ i' = 0
  /\ UNCHANGED <<machine, rsdt, xsdt, ics_array, stored, ioapic_address, redt>>

FindMadt ==
  \/ find_acpi_table("APIC")
  \/ Found("APIC") /\ pc' = "FACP" /\ madt' = header /\ UNCHANGED <<fadt, cur_ics, length>>

\* Mutant: only the header of the table is taken off its length.
MadtBytes_Header(addr) == machine.tables[addr].length - sizeof_sdt

\* The bytes of the records: madt_t ends with the head of the first one.
MadtBytes(addr) == machine.tables[addr].length - sizeof_madt + 2

\* init_apic is called, and get_madt_tables from it.
FindFadt ==
  \/ find_acpi_table("FACP")
  \/ /\ Found("FACP")
     /\ pc' = "records" /\ fadt' = header
     /\ cur_ics' = 0 /\ length' = MadtBytes(madt)
     /\ UNCHANGED madt

init_acpi == StartAcpi \/ FindMadt \/ FindFadt

--------------------------------------------------------------------------------
record == machine.tables[madt].records[cur_ics]

\* Processors that are disabled, and other types of records, are skipped.
Stored(r) == r.entry_type \in {IOAPIC, ISO} \/ (r.entry_type = LAPIC /\ r.flags # 0)

\* Mutant: a record that is not stored is not stepped over.
Advance_Stored ==
  IF Stored(record)
    THEN /\ length' = length - record.record_length
         /\ cur_ics' = cur_ics + record.record_length
    ELSE UNCHANGED <<length, cur_ics>>

\* The end of the loop's body; a record of no length would be met again.
Advance == /\ length' = length - record.record_length
           /\ cur_ics' = cur_ics + record.record_length

\* Mutant: the base of the I/O APIC's interrupts is taken for its address.
IoapicAddr_Gsi(r) == r.gsi

IoapicAddr(r) == r.ioapicaddr

\* A round of get_madt_tables.  A store past the end of ics_array is lost to
\* whoever reads the array (and overwrites what lies behind it).
WalkRecord ==
  /\ pc = "records" /\ length > 0
  /\ IF Stored(record)
       THEN /\ ics_array' = [k \in DOMAIN ics_array |->
                               IF k = stored THEN record ELSE ics_array[k]]
            /\ stored' = stored + 1
       ELSE UNCHANGED <<ics_array, stored>>
  /\ ioapic_address' = IF record.entry_type = IOAPIC THEN IoapicAddr(record)
                                                     ELSE ioapic_address
  /\ Advance
  /\ UNCHANGED <<machine, pc, rootVars, redt>>

WalkDone ==
  /\ pc = "records" /\ length <= 0
  /\ pc' = "mask" /\ i' = 0
  /\ UNCHANGED <<machine, rsdt, xsdt, madt, fadt, madtVars, redt>>

--------------------------------------------------------------------------------
\* The register of a pin's entry, a uint8_t.
IOAPICREDTBL_REG(n) == (16 + 2 * n) % 256

\* Both halves of an entry; a register the I/O APIC does not have is ignored.
ioapic_configure_entry(n, val) ==
  redt' = [redt EXCEPT ![ioapic_address] =
             [p \in DOMAIN @ |-> IF 16 + 2 * p = IOAPICREDTBL_REG(n) THEN val ELSE @[p]]]

\* The version register holds the number of the last pin, where the loop stops.
LastPin == Cardinality(Pins(ioapic_address)) - 1

MaskPin ==
  /\ pc = "mask" /\ i # LastPin
  /\ ioapic_configure_entry(i, Masked)
  /\ i' = i + 1
  /\ UNCHANGED <<machine, pc, rsdt, xsdt, madt, fadt, madtVars>>

MaskDone ==
  /\ pc = "mask" /\ i = LastPin
  /\ pc' = "unmask"
  /\ UNCHANGED <<machine, rootVars, madtVars, redt>>

\* calibrate_timer comes between the walk and the pins.  It changes nothing that is
\* kept here; it and its panic for a missing PM timer are in modules Timer and Boot.
init_apic == WalkRecord \/ WalkDone \/ MaskPin \/ MaskDone

\* Mutant: the source overrides are not looked at.
find_gsi_Legacy(legacy_pin) == legacy_pin

\* The first override of the pin in ics_array, or the pin itself.
find_gsi(legacy_pin) ==
  LET overrides == {k \in DOMAIN ics_array : /\ ics_array[k] # NULL
                                             /\ ics_array[k].entry_type = ISO
                                             /\ ics_array[k].source = legacy_pin}
      first == CHOOSE k \in overrides : \A l \in overrides : k <= l
  IN  IF overrides = {} THEN legacy_pin ELSE ics_array[first].gsi

KeyboardEntry == [vector |-> 33, masked |-> FALSE]

\* ps2_int_init: find_gsi(1), and the entry is written twice.
ps2_int_init ==
  \/ /\ pc = "unmask" /\ pc' = "vector"
     /\ ioapic_configure_entry(find_gsi(1), [vector |-> 0, masked |-> FALSE])
     /\ UNCHANGED <<machine, rootVars, madtVars>>
  \/ /\ pc = "vector" /\ pc' = "ready"
     /\ ioapic_configure_entry(find_gsi(1), KeyboardEntry)
     /\ UNCHANGED <<machine, rootVars, madtVars>>

AcpiEnd == pc \in {"ready", "panic"} /\ UNCHANGED acpiVars

AcpiNext == init_acpi \/ init_apic \/ ps2_int_init \/ AcpiEnd

\* The processor goes on executing.
AcpiSpec == /\ AcpiInit /\ [][AcpiNext]_acpiVars
            /\ WF_acpiVars(init_acpi \/ init_apic \/ ps2_int_init)

--------------------------------------------------------------------------------
Searching == pc \in {"APIC", "FACP"}
Walked == pc \in {"mask", "unmask", "vector", "ready"}

AcpiTypeOK ==
  /\ machine \in Machines
  /\ pc \in {"start", "APIC", "FACP", "records", "mask", "unmask", "vector",
             "ready", "panic"}
  /\ i \in Nat /\ length \in Int /\ stored \in Nat
  /\ {rsdt, xsdt, madt, fadt} \subseteq DOMAIN machine.tables \cup {0}
  /\ cur_ics \in Nat
  /\ DOMAIN ics_array = 0 .. ICS_MAX - 1
  /\ ioapic_address \in DOMAIN machine.ioapics \/ (~Walked /\ ioapic_address = 0)
  /\ \A a \in DOMAIN redt : \A p \in DOMAIN redt[a] :
       redt[a][p] \in [vector : 0 .. 255, masked : BOOLEAN]

Records == machine.tables[madt].records

\* The records the kernel needs: processors that are enabled or can be (a flag for
\* each), I/O APICs and overrides.
Needed == {o \in DOMAIN Records : \/ Records[o].entry_type \in {IOAPIC, ISO}
                                  \/ Records[o].entry_type = LAPIC /\ Records[o].flags > 0}

\* How many of them stand before a place of the MADT.
Before(place) == Cardinality({o \in Needed : o < place})

(***************************************************************************)
(* The search for a table reads only pointers that the root table holds,   *)
(* be it an RSDT or an XSDT.  The walk over the MADT, which counts bytes,  *)
(* visits every record and reads none behind the last; ics_array then      *)
(* holds the records needed in their order, as far as it reaches, whatever *)
(* stands between them.                                                    *)
(***************************************************************************)
TablesRead ==
  /\ Searching /\ i < entries(Root) => i < Len(machine.tables[Root].tableptrs)
  /\ pc = "records" /\ length > 0 => cur_ics \in DOMAIN Records
  /\ Walked =>
       /\ \A o \in Needed : Before(o) < ICS_MAX => ics_array[Before(o)] = Records[o]
       /\ \A k \in DOMAIN ics_array : k >= Cardinality(Needed) => ics_array[k] = NULL

\* The I/O APIC and pin that IRQ 1 is wired to, by the firmware's account.
KeyboardGsi ==
  LET overrides == Overrides(machine.tables[madt], 1)
  IN  IF overrides = {} THEN 1 ELSE Records[CHOOSE o \in overrides : TRUE].gsi
IsKeyboard(a, p) == machine.ioapics[a].base + p = KeyboardGsi

\* ics_array is long enough, and the I/O APIC used counts its pins from 0.
Simple == Cardinality(Needed) <= ICS_MAX /\ machine.ioapics[ioapic_address].base = 0

(***************************************************************************)
(* On a machine whose records fit ics_array and whose last I/O APIC is the *)
(* one for the legacy interrupts, the keyboard's interrupt is routed in    *)
(* the end: the pin IRQ 1 is wired to, and no other, has vector 33.  No    *)
(* other pin is unmasked at any time, so nothing can interrupt with a      *)
(* vector that has no handler.                                             *)
(***************************************************************************)
KeyboardRouted ==
  Walked /\ Simple =>
    \A a \in DOMAIN redt : \A p \in DOMAIN redt[a] :
      /\ ~redt[a][p].masked => IsKeyboard(a, p)
      /\ pc = "ready" => (redt[a][p].vector = 33 <=> IsKeyboard(a, p))

\* The firmware provides an RSDP and both tables, in the root table it names.
Complete ==
  /\ machine.rsdp # NULL
  /\ LET root == IF machine.rsdp.xsdtaddress # 0 THEN machine.rsdp.xsdtaddress
                                                ELSE machine.rsdp.rsdtaddress
         ptrs == machine.tables[root].tableptrs
     IN  {"APIC", "FACP"} \subseteq {machine.tables[ptrs[k]].signature : k \in DOMAIN ptrs}

(***************************************************************************)
(* The search and the walk come to an end: set-up is done on every machine *)
(* whose firmware is complete, and on the others the kernel gives up.      *)
(***************************************************************************)
AcpiDone == <>(pc = IF Complete THEN "ready" ELSE "panic")
================================================================================
