---------------------------- MODULE DriveRelayMC ----------------------------
(***************************************************************************)
(* Values for DriveRelay: three frames in every order a server may send    *)
(* them.  The payloads are a sub-message with the old identity, which      *)
(* grows beyond SmallMax, two sub-messages, the two pieces of one, a       *)
(* length that overruns, and nothing.                                      *)
(***************************************************************************)
EXTENDS DriveRelay

Frame(fin, op, payload) == [fin |-> fin, op |-> op, payload |-> payload]

Frames ==
  {Frame(TRUE, 9, <<7>>), Frame(TRUE, 1, <<1, 1, 7>>),
   Frame(TRUE, 2, <<5, 0, 5, 1, 7>>), Frame(TRUE, 2, <<5, 2, 7>>)}
    \cup {Frame(fin, 2, p) : fin \in BOOLEAN, p \in {<<1, 1, 7>>, <<5>>}}
    \cup {Frame(fin, 0, <<1, 7>>) : fin \in BOOLEAN} \cup {Frame(TRUE, 0, <<>>)}

(* A continuation continues something, and only then. *)
Legal(fs) ==
  LET Open(i) == \E j \in 1 .. i - 1 :
        /\ fs[j].op \in DataOps /\ ~fs[j].fin
        /\ \A l \in j + 1 .. i - 1 : fs[l].op \in Control \cup {0}
        /\ \A l \in j + 1 .. i - 1 : fs[l].op = 0 => ~fs[l].fin
  IN \A i \in 1 .. Len(fs) : fs[i].op \notin Control => (fs[i].op = 0 <=> Open(i))

MCNew == <<4, 4>>
MCStreams == {fs \in [1 .. 3 -> Frames] : Legal(fs)}
=============================================================================
