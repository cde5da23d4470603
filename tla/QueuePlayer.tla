----------------------------- MODULE QueuePlayer -----------------------------
(***************************************************************************)
(* What the player of a guild promises to those who queue songs, whatever  *)
(* threads, flags and locks it takes: a song that arrives waits, plays at  *)
(* most for as long as it is the one that plays, and is out for good.      *)
(* Songs are numbered as they arrive.  Playback implements it.             *)
(***************************************************************************)
EXTENDS Naturals, Sequences, SequencesExt

CONSTANT MaxBatch  \* songs that arrive together, at most

VARIABLES waiting,  \* the songs that are queued, in order
          playing,  \* the song that plays, or 0
          arrived,  \* how many have arrived
          out       \* those played, removed or dropped

vars == <<waiting, playing, arrived, out>>

In(s) == {s[i] : i \in DOMAIN s}
Playing == {playing} \ {0}

Init == waiting = <<>> /\ playing = 0 /\ arrived = 0 /\ out = {}

\* A song or a playlist arrives, to be played last or first.
Arrive(n, first) ==
  LET new == [i \in 1..n |-> arrived + i]
  IN  /\ arrived' = arrived + n
      /\ waiting' = IF first THEN new \o waiting ELSE waiting \o new
      /\ UNCHANGED <<playing, out>>

Shuffle ==
  /\ \E p \in Bijection(DOMAIN waiting, DOMAIN waiting) :
       waiting' = [i \in DOMAIN waiting |-> waiting[p[i]]]
  /\ UNCHANGED <<playing, arrived, out>>

TakeOut(i) ==
  /\ waiting' = RemoveAt(waiting, i) /\ out' = out \cup {waiting[i]}
  /\ UNCHANGED <<playing, arrived>>

\* The song that has waited in front, and only when nothing plays.
Play ==
  /\ playing = 0 /\ waiting # <<>>
  /\ playing' = Head(waiting) /\ waiting' = Tail(waiting)
  /\ UNCHANGED <<arrived, out>>

Finish ==
  /\ playing # 0
  /\ playing' = 0 /\ out' = out \cup {playing}
  /\ UNCHANGED <<waiting, arrived>>

Close ==
  /\ waiting' = <<>> /\ playing' = 0 /\ out' = out \cup In(waiting) \cup Playing
  /\ UNCHANGED arrived

Next ==
  \/ \E n \in 0..MaxBatch, first \in BOOLEAN : Arrive(n, first)
  \/ Shuffle \/ Play \/ Finish \/ Close
  \/ \E i \in DOMAIN waiting : TakeOut(i)

Spec == Init /\ [][Next]_vars

\* No song is lost, doubled or played again once it is out: every one that has arrived is
\* in exactly one place.
Conserved ==
  /\ \A i, j \in DOMAIN waiting : waiting[i] = waiting[j] => i = j
  /\ playing \notin In(waiting) \cup out
  /\ In(waiting) \cap out = {}
  /\ 1..arrived = In(waiting) \cup out \cup Playing
=============================================================================
