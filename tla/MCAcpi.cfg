SPECIFICATION AcpiSpec
CONSTANTS
  Machines <- MCMachines
  ICS_MAX = 3
  NULL = NULL
INVARIANTS
  AcpiTypeOK
  TablesRead
  KeyboardRouted
PROPERTY AcpiDone
