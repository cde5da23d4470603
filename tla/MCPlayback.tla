----------------------------- MODULE MCPlayback -----------------------------
(***************************************************************************)
(* Instances of Playback for TLC: every constant is given in the cfg.      *)
(***************************************************************************)
EXTENDS Playback

\* A batch must be able to overtake and be overtaken by another one.
ASSUME MaxBatch <= MaxSongs
=============================================================================
