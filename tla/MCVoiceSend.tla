---------------------------- MODULE MCVoiceSend ----------------------------
(***************************************************************************)
(* Instances of VoiceSend for TLC: every constant is given in the cfg.     *)
(***************************************************************************)
EXTENDS VoiceSend

\* One second, five and twenty, in their order.
ASSUME RebuildDelay < ReconnectInterval /\ ReconnectInterval + 2 < RecoveryTimeout
=============================================================================
