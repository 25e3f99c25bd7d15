SPECIFICATION BootSpec
CONSTANTS
  APs = {"ap1", "ap2"}
  Missing = {"memmap", "rsdp", "madt", "fadt", "pm timer", "kernel address", "smp",
             "hhdm offset", "memory", "framebuffer", "hhdm"}
  SLEEP = 2
INVARIANTS
  BootTypeOK
  NoFault
 
