---------------------------- MODULE FbtftDeviceMC ----------------------------
(* Device trees of FbtftDevice: a good one, one without a bus width, one
   without a DC line and one whose gamma curve is too short.               *)
EXTENDS FbtftDevice, TLC

Tree(w, d, g) == [buswidth |-> w, dc |-> d, gamma |-> g]
MCBoards == {Tree(8, TRUE, <<15>>), Tree(0, TRUE, <<15>>), Tree(8, FALSE, <<15>>),
             Tree(8, TRUE, <<14>>)}
BandSymmetry == Permutations(Bands)
=============================================================================
