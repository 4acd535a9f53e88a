---------------------------- MODULE MCGameEvents ----------------------------
(* Small instances of GameEvents for TLC. *)
EXTENDS GameEvents, TLC

CONSTANTS p1, p2, w1, w2, k1, k2

MCHost == (w1 :> p1) @@ (w2 :> p2)
OneHost == (w1 :> p1)
MCWanted == {1, 3}
AllWanted == 1 .. MaxSeq

ConnSymmetry == Permutations(Conns)

=============================================================================
