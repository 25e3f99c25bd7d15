-------------------------------- MODULE MCAcpi ---------------------------------
(***************************************************************************)
(* Machines with all MADTs of up to three records after an I/O APIC's, and *)
(* all root tables; ics_array has three elements.                          *)
(***************************************************************************)
EXTENDS Acpi, SequencesExt

Cpu(flags) == [entry_type |-> LAPIC, record_length |-> 8, flags |-> flags]
IoApic(addr, base) == [entry_type |-> IOAPIC, record_length |-> 12,
                       ioapicaddr |-> addr, gsi |-> base]
Override(source, gsi) == [entry_type |-> ISO, record_length |-> 10,
                          source |-> source, gsi |-> gsi]
Nmi == [entry_type |-> 4, record_length |-> 6]

MCRecords == {Cpu(0), Cpu(1), IoApic(702, 3), Override(0, 2), Override(1, 2), Nmi}

\* The first I/O APIC has the legacy interrupts; firmware overrides a source once.
RecordSeqs ==
  {s \in {<<IoApic(701, 0)>> \o t : t \in SeqOf(MCRecords, 3)} :
     \A k, m \in DOMAIN s :
       s[k].entry_type \in {IOAPIC, ISO} /\ s[k] = s[m] => k = m}

\* The records one after the other.
Bytes(records) == FoldLeft(LAMBDA n, r : n + r.record_length, 0, records)
Place(records, k) == Bytes(SubSeq(records, 1, k - 1))
Madt(records) ==
  [signature |-> "APIC", length |-> 44 + Bytes(records),
   records |-> [o \in {Place(records, k) : k \in DOMAIN records} |->
                  records[CHOOSE k \in DOMAIN records : Place(records, k) = o]]]
Fadt == [signature |-> "FACP", length |-> 116]
Other == [signature |-> "HPET", length |-> 56]
RootTable(signature, size, ptrs) ==
  [signature |-> signature, length |-> 36 + size * Len(ptrs), tableptrs |-> ptrs]

\* Two I/O APICs of three pins, as the boot loader leaves them.
IoApics == [a \in {701, 702} |->
              [base |-> IF a = 701 THEN 0 ELSE 3, pins |-> [p \in 0 .. 2 |-> Masked]]]

\* The tables are at 10 (MADT), 20 (FADT) and 30, the roots at 40 and 50.
Machine(rsdp, records, ptrs) ==
  [rsdp |-> rsdp, ioapics |-> IoApics,
   tables |-> [a \in {10, 20, 30, 40, 50} |->
                 CASE a = 10 -> Madt(records) [] a = 20 -> Fadt
                   [] a = 30 -> Other
                   [] a = 40 -> RootTable("RSDT", 4, ptrs)
                   [] a = 50 -> RootTable("XSDT", 8, ptrs)]]

Rsdp(r, x) == [rsdtaddress |-> r, xsdtaddress |-> x]

MCMachines ==
  {Machine(Rsdp(40, 50), s, <<30, 20, 10>>) : s \in RecordSeqs} \cup
  {Machine(rsdp, <<IoApic(701, 0), Override(1, 2)>>, ptrs) :
     rsdp \in {NULL, Rsdp(40, 0), Rsdp(40, 50), Rsdp(0, 50)},
     ptrs \in {<<10, 30, 20>>, <<20, 30>>, <<10, 30>>, <<>>}}
================================================================================
