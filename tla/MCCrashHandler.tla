--------------------------- MODULE MCCrashHandler ---------------------------
(***************************************************************************)
(* Instances of CrashHandler for TLC.  Three signals and as many faults    *)
(* are what a handler needs to be three deep in itself, if it could.       *)
(***************************************************************************)
EXTENDS CrashHandler

CONSTANTS t1, t2

ASSUME MaxFaults >= 3 /\ Main = t1 /\ Threads = {t1, t2}
=============================================================================
