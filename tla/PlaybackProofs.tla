--------------------------- MODULE PlaybackProofs ---------------------------
(***************************************************************************)
(* The queue and the song loop, for any number of songs, batches, frames   *)
(* and requests: types, the order of the queue, what is played again, and  *)
(* that Playback implements QueuePlayer.                                   *)
(***************************************************************************)
EXTENDS Playback, SequenceTheorems, TLAPS

\* The theorems about the abstract player, for the one that Playback implements.
QPP == INSTANCE QueuePlayerProofs WITH
  waiting <- [i \in DOMAIN queue |-> queue[i].id], playing <- current.id,
  arrived <- accepted, out <- gone

USE DEF flags, history, Moves, AudioKeeps, AllCommands

-----------------------------------------------------------------------------
(***************************************************************************)
(* Songs and sequences of songs.                                           *)
(***************************************************************************)
LEMMA SongFields ==
  /\ \A s \in Song : s.id \in 1..MaxSongs /\ s.batch \in 1..MaxSongs /\ s.front \in BOOLEAN
  /\ NoSong \notin Song /\ NoSong.id = 0
BY PlaybackAssumption DEF Song, NoSong

LEMMA NewSongsTypes ==
  ASSUME accepted \in Nat, NEW n \in Nat, accepted + n <= MaxSongs, NEW isFront \in BOOLEAN
  PROVE  /\ NewSongs(n, isFront) \in Seq(Song) /\ Len(NewSongs(n, isFront)) = n
         /\ \A i \in 1..n : LET s == NewSongs(n, isFront)[i]
                            IN  s.id = accepted + i /\ s.batch = accepted + 1 /\ s.front = isFront
<1>1. MaxSongs \in Nat
  BY PlaybackAssumption
<1>2. ASSUME NEW i \in 1..n
      PROVE [id |-> accepted + i, batch |-> accepted + 1, front |-> isFront] \in Song
  BY <1>1 DEF Song
<1> QED
  BY <1>2 DEF NewSongs

\* The queue after a shuffle.
LEMMA ShuffledTypes ==
  ASSUME NEW q \in Seq(Song), NEW p \in Bijection(DOMAIN q, DOMAIN q)
  PROVE  [i \in DOMAIN q |-> q[p[i]]] \in Seq(Song)
<1>1. p \in [DOMAIN q -> DOMAIN q]
  BY DEF Bijection, Injection
<1>2. Len(q) \in Nat /\ DOMAIN q = 1..Len(q) /\ q \in [1..Len(q) -> Song]
  BY LenProperties
<1> QED
  BY <1>1, <1>2

\* The type invariant in parts; while a song is at work there is one.
SongsTyped == queue \in Seq(Song) /\ current \in Song \cup {NoSong}
DeletionsTyped == deletions \subseteq [song : Song, skip : BOOLEAN]
FlagsTyped ==
  /\ alive \in BOOLEAN /\ stop \in BOOLEAN /\ skip \in BOOLEAN /\ repeat \in BOOLEAN
  /\ connected \in BOOLEAN
  /\ pc \in AudioPCs /\ natural \in BOOLEAN /\ shuffled \in BOOLEAN
NumbersTyped ==
  /\ left \in 0..MaxFrames
  /\ asked \in [{"play", "first"} -> 0..MaxRequests]
  /\ accepted \in 0..MaxSongs /\ gone \subseteq 1..MaxSongs
  /\ skipFor \in 0..MaxSongs
Working == pc \in {"open", "playing", "skipping", "send", "finish", "clear"} => current # NoSong

Typed == SongsTyped /\ DeletionsTyped /\ FlagsTyped /\ NumbersTyped /\ Working

LEMMA TypedIsOK == Typed => TypeOK
BY DEF Typed, TypeOK, SongsTyped, DeletionsTyped, FlagsTyped, NumbersTyped

LEMMA Bounds == MaxSongs \in Nat /\ MaxFrames \in Nat /\ MaxRequests \in Nat /\ MaxBatch \in Nat
BY PlaybackAssumption

\* What numbers the songs of a guild have.
LEMMA SongNumbers ==
  ASSUME SongsTyped
  PROVE  /\ current.id \in 0..MaxSongs
         /\ Len(queue) \in Nat /\ DOMAIN queue = 1..Len(queue)
         /\ \A i \in DOMAIN queue : queue[i] \in Song /\ queue[i].id \in 1..MaxSongs
<1>1. current.id \in 0..MaxSongs
  BY SongFields, Bounds DEF SongsTyped
<1>2. /\ Len(queue) \in Nat /\ DOMAIN queue = 1..Len(queue)
      /\ \A i \in 1..Len(queue) : queue[i] \in Song
  BY LenProperties, ElementOfSeq DEF SongsTyped
<1> QED
  BY <1>1, <1>2, SongFields

LEMMA InitTyped == Init => Typed
<1> SUFFICES ASSUME Init PROVE Typed
  OBVIOUS
<1>1. SongsTyped
  BY EmptySeq DEF Init, SongsTyped
<1>2. DeletionsTyped /\ FlagsTyped /\ Working
  BY DEF Init, DeletionsTyped, FlagsTyped, AudioPCs, Working
<1>3. NumbersTyped
  BY Bounds DEF Init, NumbersTyped
<1> QED
  BY <1>1, <1>2, <1>3 DEF Typed

\* The ways in which the songs of a guild change.
SongsStep ==
  \/ UNCHANGED <<queue, current>>
  \/ queue' = <<>> /\ current' = NoSong
  \/ \E n \in Nat : /\ accepted \in Nat /\ accepted + n <= MaxSongs /\ current' = current
                    /\ \/ queue' = NewSongs(n, TRUE) \o queue
                       \/ queue' = queue \o NewSongs(n, FALSE)
  \/ HandleRandomCommand
  \/ \E index \in DOMAIN queue : queue' = RemoveAt(queue, index) /\ current' = current
  \/ queue # <<>> /\ current' = Head(queue) /\ queue' = Tail(queue)
  \/ current' = NoSong /\ queue' = queue

LEMMA SongsStepTyped == SongsTyped /\ SongsStep => SongsTyped'
<1> SUFFICES ASSUME SongsTyped, SongsStep PROVE SongsTyped'
  OBVIOUS
<1>1. CASE UNCHANGED <<queue, current>>
  BY <1>1 DEF SongsTyped
<1>2. CASE queue' = <<>> /\ current' = NoSong
  BY <1>2, EmptySeq DEF SongsTyped
<1>3. ASSUME NEW n \in Nat, accepted \in Nat, accepted + n <= MaxSongs, current' = current,
             \/ queue' = NewSongs(n, TRUE) \o queue
             \/ queue' = queue \o NewSongs(n, FALSE)
      PROVE  SongsTyped'
  <2>1. NewSongs(n, TRUE) \in Seq(Song) /\ NewSongs(n, FALSE) \in Seq(Song)
    BY <1>3, NewSongsTypes
  <2>2. CASE queue' = NewSongs(n, TRUE) \o queue
    BY <1>3, <2>1, <2>2, ConcatProperties DEF SongsTyped
  <2>3. CASE queue' = queue \o NewSongs(n, FALSE)
    BY <1>3, <2>1, <2>3, ConcatProperties DEF SongsTyped
  <2> QED
    BY <1>3, <2>2, <2>3
<1>4. CASE HandleRandomCommand
  BY <1>4, ShuffledTypes DEF HandleRandomCommand, SongsTyped
<1>5. ASSUME NEW index \in DOMAIN queue, queue' = RemoveAt(queue, index), current' = current
      PROVE  SongsTyped'
  <2>1. index \in 1..Len(queue)
    BY SongNumbers
  <2>2. RemoveAt(queue, index) \in Seq(Song)
    BY <2>1, QPP!RemoveAtProperties DEF SongsTyped, RemoveAt, QPP!RemoveAt
  <2> QED
    BY <1>5, <2>2 DEF SongsTyped
<1>6. CASE queue # <<>> /\ current' = Head(queue) /\ queue' = Tail(queue)
  BY <1>6, HeadTailProperties DEF SongsTyped
<1>7. CASE current' = NoSong /\ queue' = queue
  BY <1>7 DEF SongsTyped
<1> QED
  BY <1>1, <1>2, <1>3, <1>4, <1>5, <1>6, <1>7 DEF SongsStep

\* Every step preserves the types.
LEMMA TypedStep == Typed /\ [Next]_vars => Typed'
<1> SUFFICES ASSUME SongsTyped, DeletionsTyped, FlagsTyped, NumbersTyped, Working, [Next]_vars
             PROVE  Typed'
  BY DEF Typed
<1>0. SongsStep /\ DeletionsTyped' /\ FlagsTyped' /\ NumbersTyped' /\ Working' => Typed'
  BY SongsStepTyped DEF Typed
<1>1. CASE UNCHANGED vars
  BY <1>0, <1>1 DEF vars, SongsStep, DeletionsTyped, FlagsTyped, NumbersTyped, Working
<1>2. ASSUME HandleJoinCommand \/ LeaveVoice PROVE Typed'
  <2>1. FlagsTyped' /\ Working'
    BY <1>2 DEF HandleJoinCommand, LeaveVoice, FlagsTyped, AudioPCs, Working
  <2>2. UNCHANGED <<left, asked, accepted, gone>> /\ skipFor' \in {skipFor, 0}
    BY <1>2 DEF HandleJoinCommand, LeaveVoice
  <2>3. NumbersTyped'
    BY <2>2, Bounds DEF NumbersTyped
  <2>4. DeletionsTyped' /\ SongsStep
    BY <1>2 DEF HandleJoinCommand, LeaveVoice, DeletionsTyped, SongsStep
  <2> QED
    BY <1>0, <2>1, <2>3, <2>4
<1>3. ASSUME EraseSession PROVE Typed'
  <2>1. Ids(queue) \subseteq 1..MaxSongs /\ {current.id} \ {0} \subseteq 1..MaxSongs
    BY SongNumbers DEF Ids
  <2>2. NumbersTyped'
    <3>1. /\ UNCHANGED <<left, asked, accepted>> /\ skipFor' = 0
          /\ gone' = gone \cup Ids(queue) \cup ({current.id} \ {0})
      BY <1>3 DEF EraseSession
    <3>2. gone' \subseteq 1..MaxSongs
      BY <2>1, <3>1 DEF NumbersTyped
    <3>3. skipFor' \in 0..MaxSongs
      BY <3>1, Bounds
    <3> QED
      BY <3>1, <3>2, <3>3 DEF NumbersTyped
  <2>3. FlagsTyped' /\ Working' /\ DeletionsTyped' /\ SongsStep
    BY <1>3 DEF EraseSession, FlagsTyped, AudioPCs, Working, DeletionsTyped, SongsStep
  <2> QED
    BY <1>0, <2>2, <2>3
<1>4. ASSUME NEW kind \in {"play", "first"}, RequestAndEnqueue(kind) PROVE Typed'
  <2>1. NumbersTyped'
    BY <1>4, Bounds DEF RequestAndEnqueue, NumbersTyped
  <2> QED
    BY <1>0, <1>4, <2>1 DEF RequestAndEnqueue, FlagsTyped, Working, DeletionsTyped, SongsStep
<1>5. ASSUME NEW kind \in {"play", "first"}, NEW n \in 0..MaxBatch, ProcessReply(kind, n)
      PROVE Typed'
  <2>1. SongsStep
    <3>1. n \in Nat /\ accepted \in Nat /\ accepted + n <= MaxSongs /\ current' = current
      BY <1>5, Bounds DEF ProcessReply, NumbersTyped
    <3>2. \/ queue' = queue
          \/ queue' = NewSongs(n, TRUE) \o queue
          \/ queue' = queue \o NewSongs(n, FALSE)
      BY <1>5 DEF ProcessReply
    <3> QED
      BY <3>1, <3>2 DEF SongsStep
  <2>2. NumbersTyped'
    <3>1. UNCHANGED <<left, gone, skipFor>> /\ accepted' \in {accepted, accepted + n}
      BY <1>5 DEF ProcessReply
    <3>2. accepted' \in 0..MaxSongs
      BY <1>5, <3>1, Bounds DEF ProcessReply, NumbersTyped
    <3>3. asked' \in [{"play", "first"} -> 0..MaxRequests]
      BY <1>5, Bounds DEF ProcessReply, NumbersTyped
    <3> QED
      BY <3>1, <3>2, <3>3 DEF NumbersTyped
  <2>3. FlagsTyped' /\ Working' /\ DeletionsTyped'
    BY <1>5 DEF ProcessReply, FlagsTyped, Working, DeletionsTyped
  <2> QED
    BY <1>0, <2>1, <2>2, <2>3
<1>6. ASSUME NEW b \in BOOLEAN, HandleDeleteCommand(b) PROVE Typed'
  <2>1. [song |-> current, skip |-> b] \in [song : Song, skip : BOOLEAN]
    BY <1>6 DEF HandleDeleteCommand, SongsTyped
  <2>2. DeletionsTyped'
    BY <1>6, <2>1 DEF HandleDeleteCommand, DeletionsTyped
  <2> QED
    BY <1>0, <1>6, <2>2 DEF HandleDeleteCommand, SongsStep, FlagsTyped, NumbersTyped, Working
<1>7. ASSUME NEW d \in deletions, DeactivateReply(d) PROVE Typed'
  <2>1. d.song.id \in 0..MaxSongs
    <3>1. d.song \in Song
      BY DEF DeletionsTyped
    <3> QED
      BY <3>1, SongFields, Bounds
  <2>2. DeletionsTyped'
    BY <1>7 DEF DeactivateReply, DeletionsTyped
  <2>3. NumbersTyped'
    BY <1>7, <2>1 DEF DeactivateReply, NumbersTyped
  <2>4. FlagsTyped'
    BY <1>7 DEF DeactivateReply, FlagsTyped
  <2> QED
    BY <1>0, <1>7, <2>2, <2>3, <2>4 DEF DeactivateReply, SongsStep, Working
<1>8. ASSUME HandleSkipCommand \/ HandleRepeatCommand PROVE Typed'
  <2>1. NumbersTyped'
    BY <1>8, SongNumbers DEF HandleSkipCommand, HandleRepeatCommand, NumbersTyped
  <2>2. FlagsTyped'
    BY <1>8 DEF HandleSkipCommand, HandleRepeatCommand, FlagsTyped
  <2> QED
    BY <1>0, <1>8, <2>1, <2>2 DEF HandleSkipCommand, HandleRepeatCommand, SongsStep, DeletionsTyped,
                                  Working
<1>9. ASSUME HandleRandomCommand PROVE Typed'
  <2>1. FlagsTyped' /\ NumbersTyped' /\ DeletionsTyped' /\ Working'
    BY <1>9 DEF HandleRandomCommand, FlagsTyped, NumbersTyped, DeletionsTyped, Working
  <2> QED
    BY <1>0, <1>9, <2>1 DEF SongsStep
<1>10. ASSUME NEW index \in 1..MaxSongs, HandleRemoveCommand(index) PROVE Typed'
  <2>1. NumbersTyped'
    BY <1>10, SongNumbers DEF HandleRemoveCommand, NumbersTyped
  <2>2. SongsStep
    BY <1>10 DEF HandleRemoveCommand, SongsStep
  <2> QED
    BY <1>0, <1>10, <2>1, <2>2 DEF HandleRemoveCommand, FlagsTyped, DeletionsTyped, Working
<1>11. ASSUME AudioPick PROVE Typed'
  <2>1. SongsStep
    BY <1>11 DEF AudioPick, SongsStep
  <2>2. queue # <<>> => Head(queue) # NoSong
    BY HeadTailProperties, SongFields DEF SongsTyped
  <2>3. FlagsTyped' /\ Working'
    BY <1>11, <2>2 DEF AudioPick, FlagsTyped, AudioPCs, Working
  <2> QED
    BY <1>0, <1>11, <2>1, <2>3 DEF AudioPick, NumbersTyped, DeletionsTyped
<1>12. ASSUME AudioTop \/ AudioSkip \/ AudioSend \/ AudioFinish PROVE Typed'
  <2>1. NumbersTyped'
    <3>1. UNCHANGED <<left, asked, accepted, gone>> /\ skipFor' \in {skipFor, 0}
      BY <1>12 DEF AudioTop, AudioSkip, AudioSend, AudioFinish
    <3> QED
      BY <3>1, Bounds DEF NumbersTyped
  <2>2. FlagsTyped' /\ Working'
    BY <1>12 DEF AudioTop, AudioSkip, AudioSend, AudioFinish, FlagsTyped, AudioPCs, Working
  <2> QED
    BY <1>0, <1>12, <2>1, <2>2 DEF AudioTop, AudioSkip, AudioSend, AudioFinish, SongsStep,
                                   DeletionsTyped
<1>13. ASSUME AudioOpen \/ AudioFrame PROVE Typed'
  <2>1. NumbersTyped'
    <3>1. UNCHANGED <<asked, accepted, gone, skipFor>>
      BY <1>13 DEF AudioOpen, AudioFrame
    <3>2. left' \in 0..MaxFrames
      BY <1>13, Bounds DEF AudioOpen, AudioFrame, NumbersTyped
    <3> QED
      BY <3>1, <3>2 DEF NumbersTyped
  <2>2. FlagsTyped' /\ Working'
    BY <1>13 DEF AudioOpen, AudioFrame, FlagsTyped, AudioPCs, Working
  <2> QED
    BY <1>0, <1>13, <2>1, <2>2 DEF AudioOpen, AudioFrame, SongsStep, DeletionsTyped
<1>14. ASSUME AudioClear PROVE Typed'
  <2>1. current.id \in 1..MaxSongs
    BY <1>14, SongFields DEF AudioClear, SongsTyped, Working
  <2>2. NumbersTyped'
    BY <1>14, <2>1 DEF AudioClear, NumbersTyped
  <2>3. FlagsTyped' /\ Working'
    BY <1>14 DEF AudioClear, FlagsTyped, AudioPCs, Working
  <2> QED
    BY <1>0, <1>14, <2>2, <2>3 DEF AudioClear, SongsStep, DeletionsTyped
<1>15. CASE CommandStep
  BY <1>15, <1>2, <1>4, <1>6, <1>8, <1>9, <1>10 DEF CommandStep
<1>16. CASE ReplyStep
  BY <1>16, <1>5, <1>7 DEF ReplyStep
<1>17. CASE AudioStep
  BY <1>17, <1>11, <1>12, <1>13, <1>14 DEF AudioStep
<1>18. CASE ConnectionChanges
  BY <1>0, <1>18 DEF ConnectionChanges, SongsStep, DeletionsTyped, FlagsTyped, NumbersTyped, Working
<1> QED
  BY <1>1, <1>3, <1>15, <1>16, <1>17, <1>18 DEF Next

\* The state of a guild keeps its types, whatever is typed and answered.
THEOREM TypeCorrect == Spec => []TypeOK
BY InitTyped, TypedStep, TypedIsOK, PTL DEF Spec

-----------------------------------------------------------------------------
(***************************************************************************)
(* Repeat mode.                                                            *)
(***************************************************************************)
\* Between two songs, a current song is one that has come to its end.
Rested == pc \in {"top", "pick"} /\ current # NoSong => natural

LEMMA RestedStep == Rested /\ [Next]_vars => Rested'
<1> SUFFICES ASSUME Rested, [Next]_vars PROVE Rested'
  OBVIOUS
<1> USE DEF Rested
<1>1. CASE UNCHANGED vars
  BY <1>1 DEF vars
<1>2. CASE CommandStep
  BY <1>2 DEF CommandStep, HandleJoinCommand, LeaveVoice, RequestAndEnqueue, HandleDeleteCommand,
              HandleSkipCommand, HandleRepeatCommand, HandleRandomCommand, HandleRemoveCommand
<1>3. CASE ReplyStep \/ EraseSession \/ ConnectionChanges
  BY <1>3 DEF ReplyStep, ProcessReply, DeactivateReply, EraseSession, ConnectionChanges
<1>4. CASE AudioTop \/ AudioPick \/ AudioOpen
  BY <1>4 DEF AudioTop, AudioPick, AudioOpen
<1>5. CASE AudioFrame \/ AudioSkip \/ AudioSend \/ AudioFinish \/ AudioClear
  BY <1>5 DEF AudioFrame, AudioSkip, AudioSend, AudioFinish, AudioClear
<1> QED
  BY <1>1, <1>2, <1>3, <1>4, <1>5 DEF Next, AudioStep

\* For any number of songs: what is opened again has come to the end of its file.
THEOREM OnlyEndedAgain == Spec => AgainOnlyAfterEnd
<1>1. Init => Rested
  BY DEF Init, Rested
<1>2. Rested /\ [Next]_vars => [pc = "pick" /\ pc' = "open" /\ current # NoSong => natural]_vars
  BY DEF Rested
<1> QED
  BY <1>1, <1>2, RestedStep, PTL DEF Spec, AgainOnlyAfterEnd

-----------------------------------------------------------------------------
(***************************************************************************)
(* The order of the queue.                                                 *)
(***************************************************************************)
\* Song a may wait in front of song b.
Before(a, b) ==
  IF b.front THEN a.front /\ IF a.batch = b.batch THEN a.id < b.id ELSE a.id > b.id
             ELSE a.front \/ a.id < b.id
InOrder(q) == \A j \in DOMAIN q : \A i \in 1..(j - 1) : Before(q[i], q[j])

\* The songs of the queue have arrived.
Arrived == \A i \in DOMAIN queue : queue[i].id <= accepted /\ queue[i].batch <= accepted

LEMMA OrderKeptWithout ==
  ASSUME NEW q \in Seq(Song), InOrder(q), NEW k \in 1..Len(q)
  PROVE  InOrder(RemoveAt(q, k))
<1> DEFINE n == Len(q)
           u == RemoveAt(q, k)
<1>1. n \in Nat /\ DOMAIN q = 1..n /\ k \in 1..n
  BY LenProperties
<1>2. /\ u \in Seq(Song) /\ Len(u) = n - 1
      /\ \A j \in 1..(n - 1) : u[j] = IF j < k THEN q[j] ELSE q[j + 1]
  BY QPP!RemoveAtProperties DEF RemoveAt, QPP!RemoveAt
<1> HIDE DEF u, n
<1>3. DOMAIN u = 1..(n - 1)
  BY <1>1, <1>2, LenProperties
<1>4. ASSUME NEW j \in 1..(n - 1), NEW i \in 1..(j - 1) PROVE Before(u[i], u[j])
  <2>1. i \in 1..(n - 1) /\ i < j /\ j \in 1..n /\ j + 1 \in 1..n
    BY <1>1
  <2>2. CASE j < k
    <3>1. i \in 1..(j - 1) /\ u[i] = q[i] /\ u[j] = q[j]
      BY <1>2, <2>1, <2>2, <1>1
    <3> QED
      BY <3>1, <2>1, <1>1 DEF InOrder
  <2>3. CASE i < k /\ ~(j < k)
    <3>1. i \in 1..((j + 1) - 1) /\ u[i] = q[i] /\ u[j] = q[j + 1]
      BY <1>2, <2>1, <2>3, <1>1
    <3> QED
      BY <3>1, <2>1, <1>1 DEF InOrder
  <2>4. CASE ~(i < k) /\ ~(j < k)
    <3>1. i + 1 \in 1..((j + 1) - 1) /\ u[i] = q[i + 1] /\ u[j] = q[j + 1]
      BY <1>2, <2>1, <2>4, <1>1
    <3> QED
      BY <3>1, <2>1, <1>1 DEF InOrder
  <2> QED
    BY <2>1, <2>2, <2>3, <2>4, <1>1
<1> QED
  BY <1>3, <1>4 DEF InOrder, u

LEMMA OrderOfConcat ==
  ASSUME NEW q \in Seq(Song), NEW r \in Seq(Song), InOrder(q), InOrder(r),
         \A i \in DOMAIN q, j \in DOMAIN r : Before(q[i], r[j])
  PROVE  InOrder(q \o r)
<1> DEFINE n == Len(q)
           m == Len(r)
           u == q \o r
<1>1. n \in Nat /\ DOMAIN q = 1..n /\ m \in Nat /\ DOMAIN r = 1..m
  BY LenProperties
<1>2. /\ u \in Seq(Song) /\ Len(u) = n + m
      /\ \A i \in 1..(n + m) : u[i] = IF i <= n THEN q[i] ELSE r[i - n]
  BY ConcatProperties
<1> HIDE DEF u, n, m
<1>3. DOMAIN u = 1..(n + m)
  BY <1>2, LenProperties
<1>4. ASSUME NEW j \in 1..(n + m), NEW i \in 1..(j - 1) PROVE Before(u[i], u[j])
  <2>1. i \in 1..(n + m) /\ i < j /\ i \in Int /\ j \in Int
    BY <1>1
  <2>2. CASE j <= n
    <3>1. j \in 1..n /\ i <= n /\ u[i] = q[i] /\ u[j] = q[j]
      BY <1>1, <1>2, <2>1, <2>2
    <3> QED
      BY <3>1, <1>1 DEF InOrder
  <2>3. CASE i <= n /\ ~(j <= n)
    <3>1. i \in 1..n /\ j - n \in 1..m /\ u[i] = q[i] /\ u[j] = r[j - n]
      BY <1>1, <1>2, <2>1, <2>3
    <3> QED
      BY <3>1, <1>1
  <2>4. CASE ~(i <= n)
    <3>1. ~(j <= n) /\ j - n \in 1..m /\ i - n \in 1..((j - n) - 1)
      BY <1>1, <2>1, <2>4
    <3>2. u[i] = r[i - n] /\ u[j] = r[j - n]
      BY <1>1, <1>2, <2>1, <2>4, <3>1
    <3> QED
      BY <3>1, <3>2, <1>1 DEF InOrder
  <2> QED
    BY <2>2, <2>3, <2>4, <2>1
<1> QED
  BY <1>3, <1>4 DEF InOrder, u

LEMMA ElementOfConcat ==
  ASSUME NEW q \in Seq(Song), NEW r \in Seq(Song), NEW i \in DOMAIN (q \o r)
  PROVE  \/ \E j \in DOMAIN q : (q \o r)[i] = q[j]
         \/ \E j \in DOMAIN r : (q \o r)[i] = r[j]
<1> DEFINE n == Len(q)
           m == Len(r)
           u == q \o r
<1>1. n \in Nat /\ DOMAIN q = 1..n /\ m \in Nat /\ DOMAIN r = 1..m
  BY LenProperties
<1>2. /\ u \in Seq(Song) /\ Len(u) = n + m
      /\ \A k \in 1..(n + m) : u[k] = IF k <= n THEN q[k] ELSE r[k - n]
  BY ConcatProperties
<1>3. i \in 1..(n + m)
  BY <1>2, LenProperties
<1> HIDE DEF u, n, m
<1>4. CASE i <= n
  <2>1. i \in DOMAIN q /\ u[i] = q[i]
    BY <1>1, <1>2, <1>3, <1>4
  <2> QED
    BY <2>1 DEF u
<1>5. CASE ~(i <= n)
  <2>1. i - n \in DOMAIN r /\ u[i] = r[i - n]
    BY <1>1, <1>2, <1>3, <1>5
  <2> QED
    BY <2>1 DEF u
<1> QED
  BY <1>4, <1>5

\* The inductive invariant: unless somebody shuffled, what waits is in order.
Lined == Arrived /\ (shuffled \/ InOrder(queue))

LEMMA LinedStep == Typed /\ Lined /\ [Next]_vars => Lined'
<1> SUFFICES ASSUME Typed, Lined, [Next]_vars PROVE Lined'
  OBVIOUS
<1>0. /\ queue \in Seq(Song) /\ accepted \in Nat
      /\ Len(queue) \in Nat /\ DOMAIN queue = 1..Len(queue)
      /\ \A i \in DOMAIN queue : queue[i] \in Song /\ queue[i].id \in Nat /\ queue[i].batch \in Nat
  <2>1. queue \in Seq(Song) /\ accepted \in Nat /\ SongsTyped
    BY Bounds DEF Typed, SongsTyped, NumbersTyped
  <2> QED
    BY <2>1, SongNumbers, SongFields, Bounds
<1>1. CASE UNCHANGED <<queue, accepted, shuffled>>
  BY <1>1 DEF Lined, Arrived, InOrder
<1>2. CASE queue' = <<>>
  <2>1. DOMAIN queue' = {}
    BY <1>2, EmptySeq
  <2> QED
    BY <2>1 DEF Lined, Arrived, InOrder
<1>3. ASSUME NEW k \in 1..Len(queue), queue' = RemoveAt(queue, k), UNCHANGED <<accepted, shuffled>>
      PROVE  Lined'
  <2>1. /\ queue' \in Seq(Song) /\ Len(queue') = Len(queue) - 1
        /\ \A j \in 1..(Len(queue) - 1) : queue'[j] = IF j < k THEN queue[j] ELSE queue[j + 1]
    BY <1>0, <1>3, QPP!RemoveAtProperties DEF RemoveAt, QPP!RemoveAt
  <2>2. DOMAIN queue' = 1..(Len(queue) - 1)
    BY <2>1, LenProperties
  <2>3. ASSUME NEW j \in DOMAIN queue'
        PROVE  queue'[j].id <= accepted' /\ queue'[j].batch <= accepted'
    <3>1. j \in 1..Len(queue) /\ j + 1 \in 1..Len(queue)
      BY <2>2, <1>0
    <3>2. queue'[j] = queue[j] \/ queue'[j] = queue[j + 1]
      BY <2>1, <2>2
    <3> QED
      BY <3>1, <3>2, <1>0, <1>3 DEF Lined, Arrived
  <2>4. InOrder(queue) => InOrder(queue')
    BY <1>0, <1>3, OrderKeptWithout
  <2> QED
    BY <1>3, <2>3, <2>4 DEF Lined, Arrived
<1>4. CASE HandleRandomCommand
  <2>1. PICK p \in Bijection(DOMAIN queue, DOMAIN queue) :
          queue' = [i \in DOMAIN queue |-> queue[p[i]]]
    BY <1>4 DEF HandleRandomCommand
  <2>2. p \in [DOMAIN queue -> DOMAIN queue]
    BY DEF Bijection, Injection
  <2>3. \A i \in DOMAIN queue' : \E j \in DOMAIN queue : queue'[i] = queue[j]
    BY <2>1, <2>2
  <2>4. accepted' = accepted /\ shuffled'
    BY <1>4 DEF HandleRandomCommand
  <2> QED
    BY <2>3, <2>4 DEF Lined, Arrived
<1>5. ASSUME NEW kind \in {"play", "first"}, NEW n \in 0..MaxBatch, ProcessReply(kind, n)
      PROVE  Lined'
  <2> DEFINE new == NewSongs(n, kind = "first")
  <2>1. n \in Nat /\ accepted + n <= MaxSongs /\ shuffled' = shuffled
    BY <1>5, Bounds DEF ProcessReply
  <2>2. /\ new \in Seq(Song) /\ Len(new) = n
        /\ \A i \in 1..n : /\ new[i].id = accepted + i /\ new[i].batch = accepted + 1
                            /\ new[i].front = (kind = "first")
    <3>1. (kind = "first") \in BOOLEAN
      OBVIOUS
    <3> QED
      BY <2>1, <3>1, <1>0, NewSongsTypes
  <2> HIDE DEF new
  <2>3. DOMAIN new = 1..n
    BY <2>2, LenProperties
  <2>4. InOrder(new)
    <3>1. ASSUME NEW j \in 1..n, NEW i \in 1..(j - 1) PROVE Before(new[i], new[j])
      <4>1. i \in 1..n /\ accepted + i < accepted + j
        BY <2>1, <1>0
      <4> QED
        BY <4>1, <2>2 DEF Before
    <3> QED
      BY <2>3, <3>1 DEF InOrder
  <2>5. ASSUME NEW i \in DOMAIN new, NEW j \in DOMAIN queue
        PROVE  /\ new[i].id <= accepted + n /\ new[i].batch <= accepted + n
               /\ queue[j].id <= accepted + n /\ queue[j].batch <= accepted + n
               /\ queue[j].id < new[i].id /\ new[i].batch # queue[j].batch
    <3>1. queue[j].id <= accepted /\ queue[j].batch <= accepted
      BY DEF Lined, Arrived
    <3> QED
      BY <3>1, <2>1, <2>2, <2>3, <1>0
  <2>6. \A i \in DOMAIN new : new[i].id <= accepted + n /\ new[i].batch <= accepted + n
    BY <2>1, <2>2, <2>3, <1>0
  <2>7. \A j \in DOMAIN queue : queue[j].id <= accepted + n /\ queue[j].batch <= accepted + n
    BY <2>1, <1>0 DEF Lined, Arrived
  <2>8. CASE kind = "first" /\ queue' = new \o queue /\ accepted' = accepted + n
    <3>1. \A i \in DOMAIN new, j \in DOMAIN queue : Before(new[i], queue[j])
      BY <2>2, <2>3, <2>5, <2>8, <1>0 DEF Before
    <3>2. InOrder(queue) => InOrder(queue')
      BY <2>8, <3>1, <2>2, <2>4, <1>0, OrderOfConcat
    <3>3. \A i \in DOMAIN queue' : \/ \E j \in DOMAIN new : queue'[i] = new[j]
                                   \/ \E j \in DOMAIN queue : queue'[i] = queue[j]
      <4>1. ASSUME NEW i \in DOMAIN (new \o queue)
            PROVE  \/ \E j \in DOMAIN new : (new \o queue)[i] = new[j]
                   \/ \E j \in DOMAIN queue : (new \o queue)[i] = queue[j]
        BY <2>2, <1>0, ElementOfConcat
      <4> QED
        BY <2>8, <4>1
    <3> QED
      BY <3>2, <3>3, <2>1, <2>6, <2>7, <2>8 DEF Lined, Arrived
  <2>9. CASE kind # "first" /\ queue' = queue \o new /\ accepted' = accepted + n
    <3>1. \A i \in DOMAIN queue, j \in DOMAIN new : Before(queue[i], new[j])
      BY <2>2, <2>3, <2>5, <2>9, <1>0 DEF Before
    <3>2. InOrder(queue) => InOrder(queue')
      BY <2>9, <3>1, <2>2, <2>4, <1>0, OrderOfConcat
    <3>3. \A i \in DOMAIN queue' : \/ \E j \in DOMAIN queue : queue'[i] = queue[j]
                                   \/ \E j \in DOMAIN new : queue'[i] = new[j]
      BY <2>2, <2>9, <1>0, ElementOfConcat
    <3> QED
      BY <3>2, <3>3, <2>1, <2>6, <2>7, <2>9 DEF Lined, Arrived
  <2>10. \/ UNCHANGED <<queue, accepted, shuffled>>
         \/ kind = "first" /\ queue' = new \o queue /\ accepted' = accepted + n
         \/ kind # "first" /\ queue' = queue \o new /\ accepted' = accepted + n
    <3>1. (kind = "first" => (kind = "first") = TRUE) /\ (kind # "first" => (kind = "first") = FALSE)
      OBVIOUS
    <3> QED
      BY <1>5, <2>1, <3>1 DEF ProcessReply, new
  <2> QED
    BY <1>1, <2>8, <2>9, <2>10
<1>6. CASE AudioPick
  <2>1. \/ UNCHANGED <<queue, accepted, shuffled>>
        \/ queue # <<>> /\ queue' = Tail(queue) /\ UNCHANGED <<accepted, shuffled>>
    BY <1>6 DEF AudioPick
  <2>2. queue # <<>> => 1 \in 1..Len(queue) /\ Tail(queue) = RemoveAt(queue, 1)
    BY <1>0, EmptySeq, QPP!TailIsRemoveAt DEF RemoveAt, QPP!RemoveAt
  <2> QED
    BY <1>1, <1>3, <2>1, <2>2
<1>7. ASSUME NEW index \in 1..MaxSongs, HandleRemoveCommand(index) PROVE Lined'
  BY <1>0, <1>3, <1>7 DEF HandleRemoveCommand
<1>8. CASE CommandStep
  BY <1>1, <1>2, <1>4, <1>7, <1>8
     DEF CommandStep, HandleJoinCommand, LeaveVoice, RequestAndEnqueue, HandleDeleteCommand,
         HandleSkipCommand, HandleRepeatCommand
<1>9. CASE ReplyStep
  BY <1>1, <1>5, <1>9 DEF ReplyStep, DeactivateReply
<1>10. CASE AudioStep
  BY <1>1, <1>6, <1>10 DEF AudioStep, AudioTop, AudioOpen, AudioFrame, AudioSkip, AudioSend,
                           AudioFinish, AudioClear
<1>11. CASE EraseSession
  BY <1>2, <1>11 DEF EraseSession
<1>12. CASE UNCHANGED vars
  BY <1>1, <1>12 DEF vars
<1>13. CASE ConnectionChanges
  BY <1>1, <1>13 DEF ConnectionChanges
<1> QED
  BY <1>8, <1>9, <1>10, <1>11, <1>12, <1>13 DEF Next

\* For any number of songs: as long as nobody shuffles, the queue is in the order in which
\* !play, !first and playlists were answered.
THEOREM QueueStaysOrdered == Spec => []QueueOrder
<1>1. Init => Lined
  <2> SUFFICES ASSUME Init PROVE Lined
    OBVIOUS
  <2>1. DOMAIN queue = {}
    BY EmptySeq DEF Init
  <2> QED
    BY <2>1 DEF Lined, Arrived, InOrder
<1>2. Lined => QueueOrder
  BY DEF Lined, InOrder, Before, QueueOrder
<1> QED
  BY <1>1, <1>2, InitTyped, TypedStep, LinedStep, PTL DEF Spec

-----------------------------------------------------------------------------
(***************************************************************************)
(* Playback implements QueuePlayer.                                        *)
(***************************************************************************)
IdsOf(q) == [i \in DOMAIN q |-> q[i].id]

LEMMA IdsTypes ==
  ASSUME NEW q \in Seq(Song)
  PROVE  /\ IdsOf(q) \in Seq(Nat) /\ Len(IdsOf(q)) = Len(q) /\ DOMAIN IdsOf(q) = DOMAIN q
         /\ \A i \in 1..Len(q) : IdsOf(q)[i] = q[i].id
         /\ DOMAIN q = 1..Len(q) /\ Len(q) \in Nat
<1>1. /\ Len(q) \in Nat /\ DOMAIN q = 1..Len(q)
      /\ \A i \in 1..Len(q) : q[i] \in Song
  BY LenProperties, ElementOfSeq
<1>2. \A i \in 1..Len(q) : q[i].id \in Nat
  BY <1>1, SongFields, Bounds
<1> QED
  BY <1>1, <1>2 DEF IdsOf

\* The numbers of a concatenation, and of what is left by a removal.
LEMMA IdsOfConcat ==
  ASSUME NEW q \in Seq(Song), NEW r \in Seq(Song) PROVE IdsOf(q \o r) = IdsOf(q) \o IdsOf(r)
<1> DEFINE n == Len(q)
           m == Len(r)
           u == q \o r
           w == IdsOf(q) \o IdsOf(r)
<1>1. n \in Nat /\ m \in Nat
  BY LenProperties
<1>2. /\ u \in Seq(Song) /\ Len(u) = n + m
      /\ \A i \in 1..(n + m) : u[i] = IF i <= n THEN q[i] ELSE r[i - n]
  BY ConcatProperties
<1>3. /\ w \in Seq(Nat) /\ Len(w) = n + m
      /\ \A i \in 1..(n + m) : w[i] = IF i <= n THEN IdsOf(q)[i] ELSE IdsOf(r)[i - n]
  <2>1. /\ IdsOf(q) \in Seq(Nat) /\ Len(IdsOf(q)) = n
        /\ IdsOf(r) \in Seq(Nat) /\ Len(IdsOf(r)) = m
    BY IdsTypes
  <2> HIDE DEF n, m
  <2> QED
    BY <2>1, ConcatProperties
<1>4. /\ \A i \in 1..n : IdsOf(q)[i] = q[i].id
      /\ \A i \in 1..m : IdsOf(r)[i] = r[i].id
      /\ IdsOf(u) \in Seq(Nat) /\ Len(IdsOf(u)) = n + m
      /\ \A i \in 1..(n + m) : IdsOf(u)[i] = u[i].id
  BY <1>2, IdsTypes
<1> HIDE DEF u, w, n, m
<1>5. ASSUME NEW i \in 1..(n + m) PROVE IdsOf(u)[i] = w[i]
  <2>1. CASE i <= n
    <3>1. i \in 1..n
      BY <2>1, <1>1
    <3> QED
      BY <3>1, <2>1, <1>2, <1>3, <1>4
  <2>2. CASE ~(i <= n)
    <3>1. i - n \in 1..m
      BY <2>2, <1>1
    <3> QED
      BY <3>1, <2>2, <1>2, <1>3, <1>4
  <2> QED
    BY <2>1, <2>2
<1>6. IdsOf(u) = w
  BY <1>3, <1>4, <1>5, SeqEqual
<1> QED
  BY <1>6 DEF u, w

LEMMA IdsOfRemoval ==
  ASSUME NEW q \in Seq(Song), NEW k \in 1..Len(q)
  PROVE  IdsOf(RemoveAt(q, k)) = RemoveAt(IdsOf(q), k)
<1> DEFINE n == Len(q)
           u == RemoveAt(q, k)
           w == RemoveAt(IdsOf(q), k)
<1>1. n \in Nat /\ k \in 1..n /\ \A i \in 1..n : IdsOf(q)[i] = q[i].id
  BY IdsTypes
<1>2. /\ u \in Seq(Song) /\ Len(u) = n - 1
      /\ \A i \in 1..(n - 1) : u[i] = IF i < k THEN q[i] ELSE q[i + 1]
  BY QPP!RemoveAtProperties DEF RemoveAt, QPP!RemoveAt
<1>3. /\ w \in Seq(Nat) /\ Len(w) = n - 1
      /\ \A i \in 1..(n - 1) : w[i] = IF i < k THEN IdsOf(q)[i] ELSE IdsOf(q)[i + 1]
  <2>1. IdsOf(q) \in Seq(Nat) /\ Len(IdsOf(q)) = n
    BY IdsTypes
  <2> DEFINE x == IdsOf(q)
  <2>2. x \in Seq(Nat) /\ Len(x) = n /\ k \in 1..Len(x)
    BY <2>1
  <2> HIDE DEF x, n
  <2>3. /\ RemoveAt(x, k) \in Seq(Nat) /\ Len(RemoveAt(x, k)) = Len(x) - 1
        /\ \A i \in 1..(Len(x) - 1) : RemoveAt(x, k)[i] = IF i < k THEN x[i] ELSE x[i + 1]
    BY <2>2, QPP!RemoveAtProperties DEF RemoveAt, QPP!RemoveAt
  <2> QED
    BY <2>2, <2>3 DEF x
<1>4. /\ IdsOf(u) \in Seq(Nat) /\ Len(IdsOf(u)) = n - 1
      /\ \A i \in 1..(n - 1) : IdsOf(u)[i] = u[i].id
  BY <1>2, IdsTypes
<1> HIDE DEF u, w, n
<1>5. ASSUME NEW i \in 1..(n - 1) PROVE IdsOf(u)[i] = w[i]
  <2>1. i \in 1..n /\ i + 1 \in 1..n
    BY <1>1
  <2> QED
    BY <2>1, <1>1, <1>2, <1>3, <1>4
<1>6. IdsOf(u) = w
  BY <1>3, <1>4, <1>5, SeqEqual
<1> QED
  BY <1>6 DEF u, w

\* Without a session nothing waits or plays.
Closed == ~alive => queue = <<>> /\ current = NoSong

LEMMA ClosedStep == Typed /\ Closed /\ [Next]_vars => Closed'
<1> SUFFICES ASSUME Closed, [Next]_vars, FlagsTyped, Working PROVE Closed'
  BY DEF Typed
<1> USE DEF Closed
<1>1. CASE UNCHANGED vars
  BY <1>1 DEF vars
<1>2. CASE CommandStep
  BY <1>2 DEF CommandStep, HandleJoinCommand, LeaveVoice, RequestAndEnqueue, HandleDeleteCommand,
              HandleSkipCommand, HandleRepeatCommand, HandleRandomCommand, HandleRemoveCommand
<1>3. CASE ReplyStep \/ EraseSession \/ ConnectionChanges
  BY <1>3 DEF ReplyStep, ProcessReply, DeactivateReply, EraseSession, ConnectionChanges
<1>4. CASE AudioTop \/ AudioPick \/ AudioOpen
  BY <1>4 DEF AudioTop, AudioPick, AudioOpen
<1>5. CASE AudioFrame \/ AudioSkip \/ AudioSend \/ AudioFinish \/ AudioClear
  BY <1>5 DEF AudioFrame, AudioSkip, AudioSend, AudioFinish, AudioClear
<1> QED
  BY <1>1, <1>2, <1>3, <1>4, <1>5 DEF Next, AudioStep

LEMMA InitImplements == Init => QP!Init
<1> SUFFICES ASSUME Init PROVE QP!Init
  OBVIOUS
<1>1. DOMAIN queue = {} /\ queue = <<>>
  BY EmptySeq DEF Init
<1>2. [i \in DOMAIN queue |-> queue[i].id] = <<>>
  BY <1>1
<1> QED
  BY <1>2 DEF Init, QP!Init, NoSong

LEMMA StepImplements == Typed /\ Closed /\ [Next]_vars => [QP!Next]_(QP!vars)
<1> SUFFICES ASSUME Typed, Closed, [Next]_vars PROVE [QP!Next]_(QP!vars)
  OBVIOUS
<1>0. /\ queue \in Seq(Song) /\ DOMAIN queue = 1..Len(queue) /\ Len(queue) \in Nat
      /\ current \in Song \cup {NoSong}
  BY IdsTypes DEF Typed, SongsTyped
<1>1. ASSUME UNCHANGED <<queue, current, accepted, gone>> PROVE [QP!Next]_(QP!vars)
  BY <1>1 DEF QP!vars
<1>2. CASE HandleJoinCommand
  <2>1. UNCHANGED <<queue, current, accepted, gone>>
    BY <1>2 DEF HandleJoinCommand, Closed
  <2> QED
    BY <1>1, <2>1
<1>3. CASE EraseSession
  <2>1. [i \in DOMAIN queue' |-> queue'[i].id] = <<>> /\ current'.id = 0 /\ accepted' = accepted
    <3>1. queue' = <<>> /\ DOMAIN queue' = {} /\ current' = NoSong
      BY <1>3, EmptySeq DEF EraseSession
    <3> QED
      BY <1>3, <3>1 DEF EraseSession, NoSong
  <2>2. Ids(queue) = QP!In([i \in DOMAIN queue |-> queue[i].id])
    BY DEF Ids, QP!In
  <2>3. QP!Close
    BY <1>3, <2>1, <2>2 DEF EraseSession, QP!Close, QP!Playing
  <2> QED
    BY <2>3 DEF QP!Next
<1>4. ASSUME NEW kind \in {"play", "first"}, NEW n \in 0..MaxBatch, ProcessReply(kind, n)
      PROVE  [QP!Next]_(QP!vars)
  <2> DEFINE new(front) == NewSongs(n, front)
             ids == [i \in 1..n |-> accepted + i]
  <2>1. n \in Nat /\ accepted \in Nat /\ accepted + n <= MaxSongs
    BY <1>4, Bounds DEF ProcessReply, Typed, NumbersTyped
  <2>2. ASSUME NEW front \in BOOLEAN PROVE new(front) \in Seq(Song) /\ IdsOf(new(front)) = ids
    <3>1. /\ new(front) \in Seq(Song) /\ Len(new(front)) = n
          /\ \A i \in 1..n : new(front)[i].id = accepted + i
      BY <2>1, NewSongsTypes
    <3>2. DOMAIN new(front) = 1..n
      BY <3>1, LenProperties
    <3> QED
      BY <3>1, <3>2 DEF IdsOf
  <2> HIDE DEF new, ids
  <2>3. CASE kind = "first" /\ queue' = new(TRUE) \o queue /\ accepted' = accepted + n
    <3>1. IdsOf(queue') = ids \o IdsOf(queue)
      BY <2>2, <2>3, <1>0, IdsOfConcat
    <3>2. QP!Arrive(n, TRUE)
      BY <3>1, <2>3, <1>4 DEF QP!Arrive, IdsOf, ids, ProcessReply
    <3> QED
      BY <3>2 DEF QP!Next
  <2>4. CASE kind # "first" /\ queue' = queue \o new(FALSE) /\ accepted' = accepted + n
    <3>1. IdsOf(queue') = IdsOf(queue) \o ids
      BY <2>2, <2>4, <1>0, IdsOfConcat
    <3>2. QP!Arrive(n, FALSE)
      BY <3>1, <2>4, <1>4 DEF QP!Arrive, IdsOf, ids, ProcessReply
    <3> QED
      BY <3>2 DEF QP!Next
  <2>5. \/ UNCHANGED <<queue, current, accepted, gone>>
        \/ kind = "first" /\ queue' = new(TRUE) \o queue /\ accepted' = accepted + n
        \/ kind # "first" /\ queue' = queue \o new(FALSE) /\ accepted' = accepted + n
    BY <1>4 DEF ProcessReply, new
  <2> QED
    BY <1>1, <2>3, <2>4, <2>5
<1>5. CASE HandleRandomCommand
  <2>1. PICK p \in Bijection(DOMAIN queue, DOMAIN queue) :
          queue' = [i \in DOMAIN queue |-> queue[p[i]]]
    BY <1>5 DEF HandleRandomCommand
  <2>2. p \in [DOMAIN queue -> DOMAIN queue]
    BY DEF Bijection, Injection
  <2>3. IdsOf(queue') = [i \in DOMAIN IdsOf(queue) |-> IdsOf(queue)[p[i]]]
    BY <2>1, <2>2 DEF IdsOf
  <2>4. DOMAIN IdsOf(queue) = DOMAIN queue
    BY DEF IdsOf
  <2>5. p \in QP!Bijection(DOMAIN IdsOf(queue), DOMAIN IdsOf(queue))
    BY <2>1, <2>4 DEF Bijection, Injection, Surjection, IsInjective,
                      QP!Bijection, QP!Injection, QP!Surjection, QP!IsInjective
  <2>6. QP!Shuffle
    BY <1>5, <2>3, <2>5 DEF HandleRandomCommand, QP!Shuffle, IdsOf
  <2> QED
    BY <2>6 DEF QP!Next
<1>6. ASSUME NEW index \in 1..MaxSongs, HandleRemoveCommand(index) PROVE [QP!Next]_(QP!vars)
  <2>1. index \in DOMAIN queue /\ queue' = RemoveAt(queue, index)
    BY <1>6 DEF HandleRemoveCommand
  <2>2. IdsOf(queue') = RemoveAt(IdsOf(queue), index)
    BY <2>1, <1>0, IdsOfRemoval
  <2>3. index \in DOMAIN IdsOf(queue) /\ IdsOf(queue)[index] = queue[index].id
    BY <2>1 DEF IdsOf
  <2>4. QP!TakeOut(index)
    BY <1>6, <2>2, <2>3 DEF HandleRemoveCommand, QP!TakeOut, RemoveAt, QP!RemoveAt, IdsOf
  <2> QED
    BY <2>3, <2>4 DEF QP!Next, IdsOf
<1>7. CASE AudioPick
  <2>1. CASE /\ current = NoSong /\ queue # <<>>
             /\ current' = Head(queue) /\ queue' = Tail(queue) /\ UNCHANGED <<accepted, gone>>
    <3>1. 1 \in 1..Len(queue) /\ Tail(queue) = RemoveAt(queue, 1)
      BY <2>1, <1>0, EmptySeq, QPP!TailIsRemoveAt DEF RemoveAt, QPP!RemoveAt
    <3>2. /\ IdsOf(queue) \in Seq(Nat) /\ IdsOf(queue) # <<>> /\ Len(IdsOf(queue)) = Len(queue)
          /\ IdsOf(queue)[1] = queue[1].id
      BY <3>1, <1>0, IdsTypes, EmptySeq
    <3>3. IdsOf(queue') = RemoveAt(IdsOf(queue), 1)
      BY <2>1, <3>1, <1>0, IdsOfRemoval
    <3>4. Tail(IdsOf(queue)) = RemoveAt(IdsOf(queue), 1)
      BY <3>2, QPP!TailIsRemoveAt DEF RemoveAt, QPP!RemoveAt
    <3>5. Head(IdsOf(queue)) = current'.id
      BY <2>1, <3>2
    <3>6. QP!Play
      BY <2>1, <3>2, <3>3, <3>4, <3>5 DEF QP!Play, IdsOf, NoSong
    <3> QED
      BY <3>6 DEF QP!Next
  <2>2. \/ UNCHANGED <<queue, current, accepted, gone>>
        \/ /\ current = NoSong /\ queue # <<>>
           /\ current' = Head(queue) /\ queue' = Tail(queue) /\ UNCHANGED <<accepted, gone>>
    BY <1>7 DEF AudioPick
  <2> QED
    BY <1>1, <2>1, <2>2
<1>8. CASE AudioClear
  <2>1. current.id # 0
    BY <1>0, <1>8, SongFields DEF AudioClear, Typed, Working
  <2>2. QP!Finish
    BY <1>8, <2>1 DEF AudioClear, QP!Finish, NoSong
  <2> QED
    BY <2>2 DEF QP!Next
<1>9. CASE CommandStep
  BY <1>1, <1>2, <1>5, <1>6, <1>9
     DEF CommandStep, LeaveVoice, RequestAndEnqueue, HandleDeleteCommand, HandleSkipCommand,
         HandleRepeatCommand
<1>10. CASE ReplyStep
  BY <1>1, <1>4, <1>10 DEF ReplyStep, DeactivateReply
<1>11. CASE AudioStep
  BY <1>1, <1>7, <1>8, <1>11 DEF AudioStep, AudioTop, AudioOpen, AudioFrame, AudioSkip, AudioSend,
                                 AudioFinish
<1>12. CASE UNCHANGED vars
  BY <1>1, <1>12 DEF vars
<1>13. CASE ConnectionChanges
  BY <1>1, <1>13 DEF ConnectionChanges
<1> QED
  BY <1>3, <1>9, <1>10, <1>11, <1>12, <1>13 DEF Next

\* For any number of songs: every step of the commands, the replies and the song loop is one
\* of the abstract player, or changes nothing that it has.
THEOREM PlayerImplemented == Spec => Implements
<1>1. Init => Closed
  BY DEF Init, Closed
<1> QED
  BY <1>1, InitTyped, TypedStep, ClosedStep, InitImplements, StepImplements, PTL
     DEF Spec, Implements, QP!Spec

\* For any number of songs: none is lost or doubled, as the abstract player loses none.
THEOREM SongsConserved == Spec => []Conservation
<1>1. QP!Init => QPP!Init
  BY DEF QP!Init, QPP!Init
<1>2. [QP!Next]_(QP!vars) => [QPP!Next]_(QPP!vars)
  BY DEF QP!Next, QPP!Next, QP!vars, QPP!vars, QP!Arrive, QPP!Arrive, QP!Shuffle, QPP!Shuffle,
         QP!TakeOut, QPP!TakeOut, QP!Play, QPP!Play, QP!Finish, QPP!Finish, QP!Close, QPP!Close,
         QP!In, QPP!In, QP!Playing, QPP!Playing, QP!RemoveAt, QPP!RemoveAt,
         QP!Bijection, QP!Injection, QP!Surjection, QP!IsInjective,
         QPP!Bijection, QPP!Injection, QPP!Surjection, QPP!IsInjective
<1>3. QPP!Conserved => Conservation
  BY DEF Conservation, QP!Conserved, QPP!Conserved, QP!In, QPP!In, QP!Playing, QPP!Playing
<1>4. QPP!Spec => []QPP!Conserved
  BY Bounds, QPP!NothingLost
<1> QED
  BY <1>1, <1>2, <1>3, <1>4, PlayerImplemented, PTL DEF Implements, QP!Spec, QPP!Spec

-----------------------------------------------------------------------------
(***************************************************************************)
(* Playback goes through the life of a session that GuildSession           *)
(* implements: what it says of songs rests on the same session.            *)
(***************************************************************************)
Thread == IF pc = "none" THEN "none" ELSE IF pc = "exited" THEN "ended" ELSE "running"
Life == INSTANCE Session WITH thread <- Thread

\* Without a session there is no thread, and no stop is left over for the next one.
Lived == ~alive => ~stop /\ pc = "none"

LEMMA LivedStep == Lived /\ [Next]_vars => Lived'
<1> SUFFICES ASSUME Lived, [Next]_vars PROVE Lived'
  OBVIOUS
<1> USE DEF Lived
<1>1. CASE UNCHANGED vars
  BY <1>1 DEF vars
<1>2. CASE CommandStep
  BY <1>2 DEF CommandStep, HandleJoinCommand, LeaveVoice, RequestAndEnqueue, HandleDeleteCommand,
              HandleSkipCommand, HandleRepeatCommand, HandleRandomCommand, HandleRemoveCommand
<1>3. CASE ReplyStep \/ EraseSession \/ ConnectionChanges
  BY <1>3 DEF ReplyStep, ProcessReply, DeactivateReply, EraseSession, ConnectionChanges
<1>4. CASE AudioTop \/ AudioPick \/ AudioOpen
  BY <1>4 DEF AudioTop, AudioPick, AudioOpen
<1>5. CASE AudioFrame \/ AudioSkip \/ AudioSend \/ AudioFinish \/ AudioClear
  BY <1>5 DEF AudioFrame, AudioSkip, AudioSend, AudioFinish, AudioClear
<1> QED
  BY <1>1, <1>2, <1>3, <1>4, <1>5 DEF Next, AudioStep

LEMMA LifeStep == Typed /\ Lived /\ [Next]_vars => [Life!Next]_(Life!vars)
<1> SUFFICES ASSUME Typed, Lived, [Next]_vars PROVE [Life!Next]_(Life!vars)
  OBVIOUS
<1>1. ASSUME UNCHANGED <<alive, stop, pc>> PROVE [Life!Next]_(Life!vars)
  BY <1>1 DEF Life!vars, Thread
<1>2. CASE HandleJoinCommand
  <2>1. Life!Create
    BY <1>2 DEF HandleJoinCommand, Life!Create, Thread
  <2> QED
    BY <2>1 DEF Life!Next
<1>3. CASE LeaveVoice
  <2>1. Life!Stop
    BY <1>3 DEF LeaveVoice, Life!Stop, Thread
  <2> QED
    BY <2>1 DEF Life!Next
<1>4. CASE EraseSession
  <2>1. Life!Erase
    BY <1>4 DEF EraseSession, Life!Erase, Thread
  <2> QED
    BY <2>1 DEF Life!Next
<1>5. CASE CommandStep
  BY <1>1, <1>2, <1>3, <1>5
     DEF CommandStep, RequestAndEnqueue, HandleDeleteCommand, HandleSkipCommand,
         HandleRepeatCommand, HandleRandomCommand, HandleRemoveCommand
<1>6. ASSUME NEW kind \in {"play", "first"}, NEW n \in 0..MaxBatch, ProcessReply(kind, n)
      PROVE  [Life!Next]_(Life!vars)
  <2>1. UNCHANGED <<stop, pc>> /\ (alive' = alive \/ alive' = TRUE)
    BY <1>6 DEF ProcessReply
  <2>2. CASE alive' = alive
    BY <1>1, <2>1, <2>2
  <2>3. CASE ~alive /\ alive' = TRUE
    <3>1. Life!Create
      BY <2>1, <2>3 DEF Lived, Life!Create, Thread
    <3> QED
      BY <3>1 DEF Life!Next
  <2>4. alive \in BOOLEAN
    BY DEF Typed, FlagsTyped
  <2> QED
    BY <2>1, <2>2, <2>3, <2>4
<1>7. CASE ReplyStep
  BY <1>1, <1>6, <1>7 DEF ReplyStep, DeactivateReply
\* The thread leaves its loop only for a stop: without a session it would not run.
<1>8. CASE (AudioTop \/ AudioPick) /\ pc' = "exited"
  <2>1. Life!End
    BY <1>8 DEF AudioTop, AudioPick, Lived, Life!End, Thread
  <2> QED
    BY <2>1 DEF Life!Next
<1>9. CASE AudioStep /\ pc' # "exited"
  <2>1. UNCHANGED <<alive, stop>> /\ pc \notin {"none", "exited"} /\ pc' \notin {"none", "exited"}
    BY <1>9 DEF AudioStep, AudioTop, AudioPick, AudioOpen, AudioFrame, AudioSkip, AudioSend,
                AudioFinish, AudioClear
  <2> QED
    BY <2>1 DEF Life!vars, Thread
<1>10. AudioStep /\ pc' = "exited" => AudioTop \/ AudioPick
  BY DEF AudioStep, AudioOpen, AudioFrame, AudioSkip, AudioSend, AudioFinish, AudioClear
<1>11. CASE UNCHANGED vars
  BY <1>1, <1>11 DEF vars
<1>12. CASE ConnectionChanges
  BY <1>1, <1>12 DEF ConnectionChanges
<1> QED
  BY <1>4, <1>5, <1>7, <1>8, <1>9, <1>10, <1>11, <1>12 DEF Next

\* For any number of songs: every command, reply and step of the song loop is a step in the
\* life of a session, or none; so the serial session playback assumes is the one that
\* GuildSession's joins and leaves provide.
THEOREM SessionLived == Spec => Life!Spec
<1>1. Init => Lived /\ Life!Init
  BY DEF Init, Lived, Life!Init, Thread
<1> QED
  BY <1>1, InitTyped, TypedStep, LivedStep, LifeStep, PTL DEF Spec, Life!Spec
=============================================================================
