--------------------------- MODULE MCClientServer ---------------------------
(***************************************************************************)
(* Instances of ClientServer for TLC: one list of one song, and two texts  *)
(* that differ in a character with a meaning in a URL.                     *)
(***************************************************************************)
EXTENDS ClientServer, TLC

CONSTANTS r1, r2, v1, v2, f1, f2

OwnFile == v1 :> f1 @@ v2 :> f2
ShortList == {<<v1>>}
TwoTexts == <<"a", " ">> :> v1 @@ <<"a", "+">> :> v2
=============================================================================
