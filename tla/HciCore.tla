------------------------------- MODULE HciCore -------------------------------
(***************************************************************************)
(* What the Bluetooth core asks of a driver with one controller: a device  *)
(* is allocated when there is no other, registered and unregistered in     *)
(* turn, freed once and never while it is registered.  Any other call is   *)
(* not defined: none is ever made.                                         *)
(***************************************************************************)
CONSTANT Dev

VARIABLES
  allocated,    \* devices the driver has allocated and not freed
  registered,   \* devices the core offers to user space
  freed,        \* devices that are no more
  misused       \* has a call been made that is not one of those below

coreVars == <<allocated, registered, freed, misused>>

Init == allocated = {} /\ registered = {} /\ freed = {} /\ misused = FALSE

Alloc(d) ==
  /\ allocated = {}
  /\ d \notin freed
  /\ allocated' = {d}
  /\ UNCHANGED <<registered, freed, misused>>

Register(d) ==
  /\ d \in allocated \ registered
  /\ registered' = registered \cup {d}
  /\ UNCHANGED <<allocated, freed, misused>>

Unregister(d) ==
  /\ d \in registered
  /\ registered' = registered \ {d}
  /\ UNCHANGED <<allocated, freed, misused>>

Free(d) ==
  /\ d \in allocated \ registered
  /\ allocated' = allocated \ {d}
  /\ freed' = freed \cup {d}
  /\ UNCHANGED <<registered, misused>>

Next == \E d \in Dev : Alloc(d) \/ Register(d) \/ Unregister(d) \/ Free(d)

Spec == Init /\ [][Next]_coreVars
=============================================================================
