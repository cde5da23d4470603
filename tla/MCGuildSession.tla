--------------------------- MODULE MCGuildSession ---------------------------
(***************************************************************************)
(* Instances of GuildSession for TLC.  All threads of a kind behave alike, *)
(* and so do addresses: permuting them is a symmetry of the safety runs.   *)
(***************************************************************************)
EXTENDS GuildSession, TLC

CONSTANTS h1, h2, l1, a1, a2, a3, i1, i2, i3, i4

Symmetry == Permutations(Handlers) \cup Permutations(AudioThreads) \cup Permutations(Infos)

\* One handler or leaver needs one audio thread of its own, and every thread may
\* keep the address of a GuildInfo that is gone, so these never run out.
ASSUME /\ Cardinality(AudioThreads) >= Cardinality(Workers)
       /\ Infos # {}
=============================================================================
