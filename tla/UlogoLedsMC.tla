---------------------------- MODULE UlogoLedsMC -----------------------------
(***************************************************************************)
(* Values for UlogoLeds: two LEDs; a pattern in which nothing parses, and  *)
(* one with a step more than the table has room for (a single step comes   *)
(* of the two when their writers meet); and an integer that turns one LED  *)
(* on and the other off.                                                   *)
(***************************************************************************)
EXTENDS UlogoLeds

MCLedIdx == <<0, 1>>
MCPatterns == {<<>>, <<{0}, {1}, {}>>}
MCValues == {{0}}
=============================================================================
