--------------------------- MODULE MCMediaServer ---------------------------
(***************************************************************************)
(* Instances of MediaServer for TLC.                                       *)
(***************************************************************************)
EXTENDS MediaServer, TLC

CONSTANTS r1, r2, v1, v2, f1, f2

OwnFile == v1 :> f1 @@ v2 :> f2
OneList == {<<v1, v2>>}

Symmetry == Permutations(Requests)
=============================================================================
