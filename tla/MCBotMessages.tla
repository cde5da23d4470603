--------------------------- MODULE MCBotMessages ---------------------------
(***************************************************************************)
(* Instances of BotMessages for TLC.                                       *)
(***************************************************************************)
EXTENDS BotMessages

\* No number to read, or one too many.
NoneOrTooMany == {0, CleanLimit + 1}
=============================================================================
