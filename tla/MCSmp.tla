--------------------------------- MODULE MCSmp ---------------------------------
(***************************************************************************)
(* Processor counts to start the kernel on.                                *)
(***************************************************************************)
EXTENDS Smp

UpToThree == 0 .. 3
Three == {3}
================================================================================
