-------------------------------- MODULE Screen --------------------------------
(***************************************************************************)
(* What a frame buffer promises to those who draw into it: the panel may   *)
(* lag behind the memory, but every line it lags on is shown in the end.   *)
(* "stale" are the lines on which the panel differs from the memory.       *)
(***************************************************************************)
CONSTANT Lines

VARIABLE stale

Init == stale = {}

Draw == \E ys \in SUBSET Lines : stale' = stale \cup ys

Refresh(y) == y \in stale /\ stale' = stale \ {y}

Next == Draw \/ \E y \in Lines : Refresh(y)

Spec ==
  /\ Init /\ [][Next]_stale
  /\ \A y \in Lines : WF_stale(Refresh(y))
=============================================================================
