------------------------------ MODULE Courier -------------------------------
(***************************************************************************)
(* What a relay of messages promises: it hands over the messages it has    *)
(* been given, each of them once and in their order.                       *)
(***************************************************************************)
EXTENDS Sequences

VARIABLES
  coming,   \* messages still to be handed over
  got       \* messages the receiver has

Init == got = <<>>

HandOver ==
  /\ coming # <<>>
  /\ got' = Append(got, Head(coming))
  /\ coming' = Tail(coming)

Spec == Init /\ [][HandOver]_<<coming, got>>
=============================================================================
