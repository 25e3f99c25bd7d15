-------------------------------- MODULE MCTimer --------------------------------
(***************************************************************************)
(* Four bits of the PM timer are compared; it has four or six.  It starts  *)
(* at 0, before a wrap of the compared bits, or before one of all six.     *)
(***************************************************************************)
EXTENDS Timer

MCPmMods == {16, 64}
MCPmStarts == {0, 14, 62}

\* No delay, a short one, the longest that surely ends, and one too long.
MCTargets == {0, 3, 14, 20}
MCSleeps == {1, 2}
================================================================================
