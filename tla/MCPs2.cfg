SPECIFICATION Ps2Spec
CONSTANT QUEUE = 2
INVARIANTS
  Ps2TypeOK
  CapsFollowsKey
  ShiftNotStuck
  InterruptHasByte
PROPERTY KeyboardAlive
