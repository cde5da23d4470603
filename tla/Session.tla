------------------------------- MODULE Session -------------------------------
(***************************************************************************)
(* The life of a guild's session as its users may rely on it: a session    *)
(* has at most one audio thread, which ends only when it is told to stop,  *)
(* and the session is given up, or its GuildInfo replaced by a new one,    *)
(* only when that thread has ended.  GuildSession implements it as long    *)
(* as joins and leaves of the guild do not overlap, and Playback, which is *)
(* about what the thread plays, goes through the same life.                *)
(***************************************************************************)
VARIABLES alive,  \* the guild has a session
          stop,   \* its thread has been told to stop
          thread  \* "none", "running", or "ended" and not yet joined

vars == <<alive, stop, thread>>

Init == alive = FALSE /\ stop = FALSE /\ thread = "none"

\* By the reply to a request, without a thread, or by a join, with one.
Create ==
  /\ ~alive /\ thread = "none"
  /\ alive' = TRUE /\ stop' = FALSE /\ thread' \in {"none", "running"}

\* A join puts a new session into the place of one without a thread.
Replace ==
  /\ alive /\ thread = "none"
  /\ stop' = FALSE /\ UNCHANGED <<alive, thread>>

Start ==
  /\ alive /\ thread = "none"
  /\ thread' = "running" /\ stop' = FALSE /\ UNCHANGED alive

Stop == alive /\ stop' = TRUE /\ UNCHANGED <<alive, thread>>

End ==
  /\ thread = "running" /\ alive /\ stop
  /\ thread' = "ended" /\ UNCHANGED <<alive, stop>>

Join ==
  /\ thread = "ended"
  /\ thread' = "none" /\ UNCHANGED <<alive, stop>>

Erase ==
  /\ alive /\ thread # "running"
  /\ alive' = FALSE /\ stop' = FALSE /\ thread' = "none"

Next == Create \/ Replace \/ Start \/ Stop \/ End \/ Join \/ Erase

Spec == Init /\ [][Next]_vars

\* What follows from it alone: a thread always has its session.
ThreadHasSession == thread # "none" => alive
=============================================================================
