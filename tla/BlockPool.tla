------------------------------- MODULE BlockPool -------------------------------
(***************************************************************************)
(* What a physical memory manager promises its callers: once it is set up  *)
(* it keeps a pool of free blocks, hands each of them to one caller at a   *)
(* time, refuses only when the pool is empty, and takes back what was      *)
(* handed out.  Which free block is chosen is left open.  The answer None  *)
(* (a refusal) can be told from every block.                               *)
(***************************************************************************)

CONSTANTS Pool,  \* the blocks that may ever be handed out
          None   \* the answer of a refused request

VARIABLES up, free, held, answer

poolVars == <<up, free, held, answer>>

PoolInit == ~up /\ free = {} /\ held = {} /\ answer = None

Setup == /\ ~up
         /\ up' = TRUE
         /\ free' \in SUBSET Pool
         /\ UNCHANGED <<held, answer>>

Take == /\ up
        /\ \E b \in free : /\ free' = free \ {b}
                           /\ held' = held \cup {b}
                           /\ answer' = b
        /\ UNCHANGED up

Refuse == /\ up
          /\ free = {}
          /\ answer' = None
          /\ UNCHANGED <<up, free, held>>

Return == /\ up
          /\ \E b \in held : free' = free \cup {b} /\ held' = held \ {b}
          /\ UNCHANGED <<up, answer>>

PoolNext == Setup \/ Take \/ Refuse \/ Return

PoolSpec == PoolInit /\ [][PoolNext]_poolVars
================================================================================
