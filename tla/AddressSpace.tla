----------------------------- MODULE AddressSpace ------------------------------
(***************************************************************************)
(* What the virtual memory manager promises its callers: an address space  *)
(* is a function from virtual pages to what they are mapped to, and a      *)
(* request to map or unmap a page changes that page and no other.  A       *)
(* request may also never be answered (the kernel panics).                 *)
(***************************************************************************)

CONSTANTS VPages,    \* the virtual pages
          Unmapped,  \* what an unmapped page is mapped to
          None       \* no request is being served

VARIABLES space, request

spaceVars == <<space, request>>

SpaceInit == space = [va \in VPages |-> Unmapped] /\ request = None

Ask == /\ request = None
       /\ request' # None
       /\ UNCHANGED space

Answer == /\ request # None
          /\ space' = [space EXCEPT ![request.va] = request.to]
          /\ request' = None

SpaceNext == Ask \/ Answer

SpaceSpec == SpaceInit /\ [][SpaceNext]_spaceVars
================================================================================
