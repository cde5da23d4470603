------------------------------ MODULE Playback ------------------------------
(***************************************************************************)
(* What one guild plays: the queue and the current song of its GuildInfo,  *)
(* the commands that change them, the server replies that fill them, and   *)
(* the song loop of PlayAudioThread.                                       *)
(*                                                                         *)
(* The life of the session is the serial one of GuildSession: a leave stops*)
(* the audio thread, waits for it and erases the session.  Every handler   *)
(* below runs under guildInfosMutex and listMutex and is one action; the   *)
(* audio thread takes the locks and reads the atomic flags one at a time.  *)
(* A song is one request's entry in the queue, numbered in the order the   *)
(* entries arrive; the same video asked for twice is two songs.            *)
(***************************************************************************)
EXTENDS Naturals, Sequences, SequencesExt

CONSTANTS Commands,     \* the commands users type
          MaxSongs,     \* bound: songs that ever enter the queue
          MaxBatch,     \* bound: songs of one reply
          MaxFrames,    \* bound: frames of a file
          MaxRequests   \* bound: requests in flight, of each kind

AllCommands == {"play", "first", "skip", "repeat", "random", "remove", "delete", "leave", "join"}

ASSUME PlaybackAssumption ==
  /\ Commands \subseteq AllCommands
  /\ {MaxSongs, MaxBatch, MaxFrames, MaxRequests} \subseteq Nat

Song == [id : 1..MaxSongs, batch : 1..MaxSongs, front : BOOLEAN]
NoSong == [id |-> 0, batch |-> 0, front |-> FALSE]

VARIABLES
  alive,      \* the guild has a GuildInfo
  stop,       \* shouldStop
  queue,      \* videoLists
  current,    \* currentPlay, or NoSong
  skip,       \* skipRequested
  repeat,     \* repeatCurrent
  connected,  \* dpp's voice client is there and safe to send to
  pc,         \* where the audio thread is
  left,       \* frames left in the open file
  natural,    \* finishedNaturally
  asked,      \* /process requests in flight: how many of !play and of !first
  deletions,  \* /deactivate requests in flight: the song and whether to skip
  accepted,   \* history: songs that have entered the queue
  gone,       \* history: numbers of the songs that have left queue and current
  shuffled,   \* history: the queue has been shuffled
  skipFor     \* history: what the pending skip was meant for

flags == <<stop, skip, repeat>>
history == <<shuffled, skipFor>>
vars == <<alive, stop, queue, current, skip, repeat, connected, pc, left, natural, asked,
          deletions, accepted, gone, shuffled, skipFor>>

AudioPCs == {"none", "top", "pick", "open", "playing", "skipping", "send", "finish", "clear",
             "exited"}
Ids(songs) == {songs[i].id : i \in DOMAIN songs}

TypeOK ==
  /\ alive \in BOOLEAN /\ stop \in BOOLEAN /\ skip \in BOOLEAN /\ repeat \in BOOLEAN
  /\ connected \in BOOLEAN
  /\ queue \in Seq(Song) /\ current \in Song \cup {NoSong}
  /\ pc \in AudioPCs /\ left \in 0..MaxFrames /\ natural \in BOOLEAN
  /\ asked \in [{"play", "first"} -> 0..MaxRequests]
  /\ deletions \subseteq [song : Song, skip : BOOLEAN]
  /\ accepted \in 0..MaxSongs /\ gone \subseteq 1..MaxSongs
  /\ shuffled \in BOOLEAN /\ skipFor \in 0..MaxSongs

Init ==
  /\ alive = FALSE /\ stop = FALSE /\ queue = <<>> /\ current = NoSong
  /\ skip = FALSE /\ repeat = FALSE /\ connected = FALSE
  /\ pc = "none" /\ left = 0 /\ natural = FALSE
  /\ asked = [k \in {"play", "first"} |-> 0] /\ deletions = {}
  /\ accepted = 0 /\ gone = {} /\ shuffled = FALSE /\ skipFor = 0

-----------------------------------------------------------------------------
(***************************************************************************)
(* The session: join and leave, serial.                                    *)
(***************************************************************************)
\* A new GuildInfo with its audio thread.
HandleJoinCommand ==
  /\ ~alive /\ pc = "none"
  /\ alive' = TRUE /\ stop' = FALSE /\ skip' = FALSE /\ repeat' = FALSE
  /\ queue' = <<>> /\ current' = NoSong /\ pc' = "top"
  /\ skipFor' = 0
  /\ UNCHANGED <<connected, left, natural, asked, deletions, accepted, gone, shuffled>>

\* shouldStop is raised; the audio thread, if there is one, is still to be joined.
LeaveVoice ==
  /\ alive /\ ~stop
  /\ stop' = TRUE
  /\ UNCHANGED <<alive, queue, current, skip, repeat, connected, pc, left, natural, asked,
                 deletions, accepted, gone, history>>

\* The thread has been joined: guildInfos.erase.
EraseSession ==
  /\ alive /\ stop /\ pc \in {"none", "exited"}
  /\ alive' = FALSE /\ stop' = FALSE /\ skip' = FALSE /\ repeat' = FALSE
  /\ queue' = <<>> /\ current' = NoSong /\ pc' = "none"
  /\ gone' = gone \cup Ids(queue) \cup ({current.id} \ {0})
  /\ skipFor' = 0
  /\ UNCHANGED <<connected, left, natural, asked, deletions, accepted, shuffled>>

-----------------------------------------------------------------------------
(***************************************************************************)
(* Requests and their replies.                                             *)
(***************************************************************************)
\* !play and !first send /process, joined or not.
RequestAndEnqueue(kind) ==
  /\ asked[kind] < MaxRequests
  /\ asked' = [asked EXCEPT ![kind] = @ + 1]
  /\ UNCHANGED <<alive, flags, queue, current, connected, pc, left, natural, deletions, accepted,
                 gone, history>>

\* The songs of a reply, in the order of its list.
NewSongs(n, isFront) ==
  [i \in 1..n |-> [id |-> accepted + i, batch |-> accepted + 1, front |-> isFront]]

\* Bug: a reply is delivered again after it was handled.
ProcessReplyTwice(kind, n) ==
  /\ accepted + n <= MaxSongs
  /\ asked' = [asked EXCEPT ![kind] = @ - 1]
  /\ alive' = TRUE
  /\ queue' = queue \o NewSongs(n, FALSE)
  /\ accepted' = accepted + n
  /\ UNCHANGED <<flags, current, connected, pc, left, natural, deletions, gone, history>>

\* Bug: the songs of a reply are pushed to the front one by one.
ProcessReplyReversed(kind, n) ==
  /\ asked[kind] > 0 /\ accepted + n <= MaxSongs
  /\ asked' = [asked EXCEPT ![kind] = @ - 1]
  /\ alive' = TRUE
  /\ queue' = IF kind = "first" THEN Reverse(NewSongs(n, TRUE)) \o queue
                                ELSE queue \o NewSongs(n, FALSE)
  /\ accepted' = accepted + n
  /\ UNCHANGED <<flags, current, connected, pc, left, natural, deletions, gone, history>>

\* The reply: a failure, or n songs with a file; EnsureGuildInfo makes a session,
\* without an audio thread, if there is none any more.
ProcessReply(kind, n) ==
  /\ asked[kind] > 0 /\ accepted + n <= MaxSongs
  /\ asked' = [asked EXCEPT ![kind] = @ - 1]
  /\ \/ UNCHANGED <<alive, queue, accepted>>
     \/ /\ alive' = TRUE
        /\ queue' = IF kind = "first" THEN NewSongs(n, TRUE) \o queue
                                      ELSE queue \o NewSongs(n, FALSE)
        /\ accepted' = accepted + n
  /\ UNCHANGED <<flags, current, connected, pc, left, natural, deletions, gone, history>>

\* !delete asks the server to deactivate the song that is current now.
HandleDeleteCommand(withSkip) ==
  /\ alive /\ current # NoSong /\ Cardinality(deletions) < MaxRequests
  /\ deletions' = deletions \cup {[song |-> current, skip |-> withSkip]}
  /\ UNCHANGED <<alive, flags, queue, current, connected, pc, left, natural, asked, accepted,
                 gone, history>>

\* Its reply: an error, or success and, for !delete s, HandleSkipCommand.
DeactivateReply(d) ==
  /\ deletions' = deletions \ {d}
  /\ \/ UNCHANGED <<skip, skipFor>>
     \/ /\ skip' = IF d.skip /\ alive THEN TRUE ELSE skip
        /\ skipFor' = IF d.skip /\ alive THEN d.song.id ELSE skipFor
  /\ UNCHANGED <<alive, stop, repeat, queue, current, connected, pc, left, natural, asked,
                 accepted, gone, shuffled>>

-----------------------------------------------------------------------------
(***************************************************************************)
(* Commands on the queue and the current song.                             *)
(***************************************************************************)
HandleSkipCommand ==
  /\ alive
  /\ skip' = TRUE /\ skipFor' = current.id
  /\ UNCHANGED <<alive, stop, repeat, queue, current, connected, pc, left, natural, asked,
                 deletions, accepted, gone, shuffled>>

HandleRepeatCommand ==
  /\ alive
  /\ repeat' = ~repeat
  /\ UNCHANGED <<alive, stop, skip, queue, current, connected, pc, left, natural, asked,
                 deletions, accepted, gone, history>>

\* std::shuffle: any order of the same songs.
HandleRandomCommand ==
  /\ alive /\ queue # <<>>
  /\ \E p \in Bijection(DOMAIN queue, DOMAIN queue) :
       queue' = [i \in DOMAIN queue |-> queue[p[i]]]
  /\ shuffled' = TRUE
  /\ UNCHANGED <<alive, flags, current, connected, pc, left, natural, asked, deletions, accepted,
                 gone, skipFor>>

\* A number beyond the list only answers.
HandleRemoveCommand(index) ==
  /\ alive /\ index \in DOMAIN queue
  /\ gone' = gone \cup {queue[index].id}
  /\ queue' = RemoveAt(queue, index)
  /\ UNCHANGED <<alive, flags, current, connected, pc, left, natural, asked, deletions, accepted,
                 history>>

-----------------------------------------------------------------------------
(***************************************************************************)
(* PlayAudioThread.  Its steps leave the requests alone.                   *)
(***************************************************************************)
AudioKeeps == UNCHANGED <<alive, stop, repeat, connected, asked, deletions, accepted, shuffled>>
Moves(label) == pc' = label /\ AudioKeeps

\* The session is looked up; while the voice connection is not ready to send, the thread
\* sleeps 100 ms and looks again.
AudioTop ==
  /\ pc = "top"
  /\ \/ (~alive \/ stop) /\ Moves("exited")
     \/ alive /\ ~stop /\ connected /\ Moves("pick")
     \/ alive /\ ~stop /\ ~connected /\ Moves("top")
  /\ UNCHANGED <<queue, current, skip, left, natural, gone, skipFor>>

\* Bug: the song is copied and stays in the list.
AudioPickCopies ==
  /\ pc = "pick"
  /\ IF alive /\ ~stop /\ current = NoSong /\ queue # <<>>
     THEN current' = Head(queue) /\ Moves("open")
     ELSE Moves(IF ~alive \/ stop THEN "exited" ELSE IF current # NoSong THEN "open" ELSE "top")
          /\ UNCHANGED current
  /\ UNCHANGED <<queue, skip, left, natural, gone, skipFor>>

\* Bug: the next song is taken though the current one is to be repeated.
AudioPickAlways ==
  /\ pc = "pick"
  /\ IF alive /\ ~stop /\ queue # <<>>
     THEN current' = Head(queue) /\ queue' = Tail(queue) /\ Moves("open")
     ELSE Moves(IF ~alive \/ stop THEN "exited" ELSE IF current # NoSong THEN "open" ELSE "top")
          /\ UNCHANGED <<queue, current>>
  /\ UNCHANGED <<skip, left, natural, gone, skipFor>>

\* Under both locks: keep the current song or take the first of the list.
AudioPick ==
  /\ pc = "pick"
  /\ \/ /\ ~alive \/ stop
        /\ Moves("exited") /\ UNCHANGED <<queue, current>>
     \/ /\ alive /\ ~stop /\ current # NoSong
        /\ Moves("open") /\ UNCHANGED <<queue, current>>
     \/ /\ alive /\ ~stop /\ current = NoSong /\ queue # <<>>
        /\ current' = Head(queue) /\ queue' = Tail(queue)
        /\ Moves("open")
     \/ /\ alive /\ ~stop /\ current = NoSong /\ queue = <<>>
        /\ Moves("top") /\ UNCHANGED <<queue, current>>
  /\ UNCHANGED <<skip, left, natural, gone, skipFor>>

\* Bug: finishedNaturally survives from the song before.
AudioOpenKeeps ==
  /\ pc = "open"
  /\ \/ left' \in 0..MaxFrames /\ Moves("playing")
     \/ left' = 0 /\ Moves("finish")
  /\ UNCHANGED <<queue, current, skip, natural, gone, skipFor>>

\* finishedNaturally is false until the end of the file; a file that cannot be
\* opened is left like a stopped one.
AudioOpen ==
  /\ pc = "open"
  /\ natural' = FALSE
  /\ \/ left' \in 0..MaxFrames /\ Moves("playing")
     \/ left' = 0 /\ Moves("finish")
  /\ UNCHANGED <<queue, current, skip, gone, skipFor>>

\* Top of the frame loop: stop, skip, the end of the file, or the next frame.
AudioFrame ==
  /\ pc = "playing"
  /\ \/ stop /\ Moves("finish") /\ UNCHANGED <<natural, left>>
     \/ ~stop /\ skip /\ Moves("skipping") /\ UNCHANGED <<natural, left>>
     \/ ~stop /\ ~skip /\ left = 0 /\ Moves("finish") /\ natural' = TRUE /\ UNCHANGED left
     \/ ~stop /\ ~skip /\ left > 0 /\ Moves("send") /\ left' = left - 1 /\ UNCHANGED natural
  /\ UNCHANGED <<queue, current, skip, gone, skipFor>>

\* The skip is taken: the flag is reset under the lock.
AudioSkip ==
  /\ pc = "skipping"
  /\ skip' = FALSE /\ skipFor' = 0
  /\ Moves("finish")
  /\ UNCHANGED <<queue, current, left, natural, gone>>

\* Sent, or interrupted by a stop or skip; or given up after an exception or
\* VOICE_RECOVERY_TIMEOUT.
AudioSend ==
  /\ pc = "send"
  /\ Moves("playing") \/ Moves("finish")
  /\ UNCHANGED <<queue, current, skip, left, natural, gone, skipFor>>

\* Bug: repeat mode also holds on to a song that was skipped.
AudioFinishAlways ==
  /\ pc = "finish"
  /\ Moves(IF repeat THEN "top" ELSE "clear")
  /\ UNCHANGED <<queue, current, skip, left, natural, gone, skipFor>>

\* shouldRepeat: only for a song that played to its end.
AudioFinish ==
  /\ pc = "finish"
  /\ Moves(IF natural /\ repeat THEN "top" ELSE "clear")
  /\ UNCHANGED <<queue, current, skip, left, natural, gone, skipFor>>

\* Bug: currentPlay is not reset.
AudioClearNot ==
  /\ pc = "clear"
  /\ Moves("top")
  /\ UNCHANGED <<queue, current, skip, left, natural, gone, skipFor>>

\* currentPlay = VideoDbInfo() under the lock.
AudioClear ==
  /\ pc = "clear"
  /\ current' = NoSong /\ gone' = gone \cup {current.id}
  /\ Moves("top")
  /\ UNCHANGED <<queue, skip, left, natural, skipFor>>

AudioStep == \/ AudioTop \/ AudioPick \/ AudioOpen \/ AudioFrame \/ AudioSkip
             \/ AudioSend \/ AudioFinish \/ AudioClear

\* dpp's: the voice connection comes up, is lost, and may be repaired or not.
ConnectionChanges ==
  /\ connected' = ~connected
  /\ UNCHANGED <<alive, flags, queue, current, pc, left, natural, asked, deletions, accepted,
                 gone, history>>

CommandStep ==
  \/ "join" \in Commands /\ HandleJoinCommand
  \/ "leave" \in Commands /\ LeaveVoice
  \/ \E kind \in {"play", "first"} \cap Commands : RequestAndEnqueue(kind)
  \/ "delete" \in Commands /\ \E withSkip \in BOOLEAN : HandleDeleteCommand(withSkip)
  \/ "skip" \in Commands /\ HandleSkipCommand
  \/ "repeat" \in Commands /\ HandleRepeatCommand
  \/ "random" \in Commands /\ HandleRandomCommand
  \/ "remove" \in Commands /\ \E index \in 1..MaxSongs : HandleRemoveCommand(index)

ReplyStep ==
  \/ \E kind \in {"play", "first"}, n \in 0..MaxBatch : ProcessReply(kind, n)
  \/ \E d \in deletions : DeactivateReply(d)

Next == CommandStep \/ ReplyStep \/ EraseSession \/ AudioStep \/ ConnectionChanges

Spec == Init /\ [][Next]_vars
\* Of the threads only: whether a lost connection comes back is up to dpp.
FairSpec == Spec /\ WF_vars(AudioStep) /\ WF_vars(EraseSession)

-----------------------------------------------------------------------------
(***************************************************************************)
(* Safety.                                                                 *)
(***************************************************************************)
\* The abstract player, of which a song is known by its number.
QP == INSTANCE QueuePlayer WITH
  waiting <- [i \in DOMAIN queue |-> queue[i].id], playing <- current.id,
  arrived <- accepted, out <- gone

\* Every command, reply and step of the song loop is a step of the abstract player, or
\* none: a song is taken only from the front and when nothing plays, and nothing is
\* dropped but by a removal, its end or a leave.
Implements == QP!Spec

\* No song is lost or played twice: every one that entered the queue is in exactly
\* one place, the queue, currentPlay or gone (played, removed, dropped by a leave).
Conservation == QP!Conserved

\* Unless somebody shuffles, songs of !first come before all others, the latest
\* request first; all others in the order they arrived; and the songs of one
\* playlist stay in its order either way, whatever is played or removed meanwhile.
QueueOrder ==
  ~shuffled =>
    \A j \in DOMAIN queue : \A i \in 1..(j - 1) :
      LET a == queue[i]
          b == queue[j]
      IN  IF b.front THEN a.front /\ IF a.batch = b.batch THEN a.id < b.id ELSE a.id > b.id
                     ELSE a.front \/ a.id < b.id

\* A song is opened again only when its last run came to the end of the file: a
\* skipped, stopped or failed song always gives way, repeat mode or not.
AgainOnlyAfterEnd ==
  [][pc = "pick" /\ pc' = "open" /\ current # NoSong => natural]_vars

-----------------------------------------------------------------------------
(***************************************************************************)
(* Liveness.                                                               *)
(***************************************************************************)
\* A skip of the current song ends it, in repeat mode too: whatever becomes of the
\* connection if the song is being picked, opened or played; between two runs of the
\* song the thread waits for the connection first, and the skip waits with it.
Running == {"pick", "open", "playing", "skipping", "send", "clear"}
Skipped(s) == skip /\ current.id = s /\ skipFor = s
SkipEnds ==
  \A s \in 1..MaxSongs :
    /\ (Skipped(s) /\ pc \in Running) ~> (current.id # s)
    /\ <>[]connected => (Skipped(s) ~> (current.id # s))

\* If the voice connection comes up for good (dpp's, no fairness makes it) and repeat mode
\* does not stay on, every song queued while there is an audio thread leaves the queue,
\* whatever is shuffled, removed or skipped, and however much of the bounded number of
\* songs is queued before it; !first for ever would keep it there.
Served ==
  <>[]~repeat /\ <>[]connected =>
    \A s \in 1..MaxSongs :
      (s \in Ids(queue) /\ pc # "none") ~> (s \notin Ids(queue))

-----------------------------------------------------------------------------
(***************************************************************************)
(* What the documentation says, and the code does not keep.                *)
(***************************************************************************)
\* !skip skips the current song (DESIGN.md:44): none other.
SkipsCurrent == pc = "skipping" => skipFor = current.id

\* Leaving resets the playback state (DESIGN.md:41): no song is queued until
\* somebody joins again.
LeaveResets == pc = "none" => queue = <<>>
=============================================================================
