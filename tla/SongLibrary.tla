----------------------------- MODULE SongLibrary -----------------------------
(***************************************************************************)
(* What the server promises of the files of its songs, whatever requests,  *)
(* mutexes, failures and restarts there are: a file is written once, and   *)
(* nobody is told that a song is downloaded before the write of its file   *)
(* has ended, well or not.  MediaServer implements it.                     *)
(***************************************************************************)
CONSTANTS Requests, Videos, Paths,
          PathOf  \* the file of a song

VARIABLES stage,  \* of a file: "absent", "writing", "broken", or the song it holds
          told    \* the songs a request has just been told are downloaded

vars == <<stage, told>>

Ended(p) == stage[p] \notin {"absent", "writing"}

Init == stage = [p \in Paths |-> "absent"] /\ told = [r \in Requests |-> {}]

\* Answers are given and forgotten; one that is given is true by then.
Tell ==
  /\ told' \in [Requests -> SUBSET Videos]
  /\ \A r \in Requests : \A v \in told'[r] \ told[r] : Ended(PathOf[v])'

Begin(p) ==
  /\ stage[p] = "absent"
  /\ stage' = [stage EXCEPT ![p] = "writing"] /\ UNCHANGED told

Finish(v) ==
  /\ stage[PathOf[v]] = "writing"
  /\ stage' = [stage EXCEPT ![PathOf[v]] = v] /\ Tell

\* A write fails, or the server dies in the middle of some: they are never taken up again.
Break(broken) ==
  /\ \A p \in broken : stage[p] = "writing"
  /\ stage' = [p \in Paths |-> IF p \in broken THEN "broken" ELSE stage[p]] /\ Tell

Respond == Tell /\ UNCHANGED stage

Next ==
  \/ \E p \in Paths : Begin(p)
  \/ \E v \in Videos : Finish(v)
  \/ \E broken \in SUBSET Paths : Break(broken)
  \/ Respond

Spec == Init /\ [][Next]_vars

\* What follows from it alone.
\* Nobody is told of a song that has no file, or one that is being written.
ToldIsThere == \A r \in Requests : \A v \in told[r] : Ended(PathOf[v])

\* A file whose write has ended stays as it is.
Lasting == [][\A p \in Paths : Ended(p) => stage'[p] = stage[p]]_vars
=============================================================================
