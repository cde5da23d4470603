-------------------------- MODULE MCVoiceTracking --------------------------
(***************************************************************************)
(* Instances of VoiceTracking for TLC.                                     *)
(***************************************************************************)
EXTENDS VoiceTracking

CONSTANTS p1, b1, c1, c2

\* People, and this bot, go everywhere; the other bot has one channel.
OneForBots == [u \in Users |-> IF u \in Bots THEN {c1} ELSE Channels]

\* Somebody has to be able to come and go.
ASSUME Humans # {} /\ Channels # {}
=============================================================================
