------------------------------ MODULE VoiceSend ------------------------------
(***************************************************************************)
(* The audio thread of a guild and dpp's voice client, whose encoder it    *)
(* uses without a lock.  When the socket of a voice client is lost, the    *)
(* client is unsafe to send to at once, and a second later a timer thread  *)
(* of dpp destroys the encoder and makes it anew in the same object, or    *)
(* the object is replaced.  Some losses (of the gateway) dpp does not      *)
(* repair; then the thread asks for a connection itself.                   *)
(*                                                                         *)
(* Time is counted in ticks.  Between two steps of the audio thread at     *)
(* most one tick passes, unless it waits for guildInfosMutex or sleeps     *)
(* until the rest of a song has been heard; the pauses of 20, 50, 58 and   *)
(* 100 ms are within a tick.  What is queued is a free choice (Playback    *)
(* has the queue), and flags are raised but not taken back by others.      *)
(***************************************************************************)
EXTENDS Naturals

CONSTANTS RebuildDelay,       \* dpp's second, in ticks
          ReconnectInterval,  \* 5 seconds
          RecoveryTimeout,    \* VOICE_RECOVERY_TIMEOUT
          MaxFrames           \* bound: frames of a song

\* From one check of the client to the next one the thread takes three steps.
ASSUME VoiceAssumption ==
  /\ {RebuildDelay, ReconnectInterval, RecoveryTimeout, MaxFrames} \subseteq Nat
  /\ RebuildDelay > 3

VARIABLES
  conn,      \* the voice client of the guild, as dpp has it now
  down,      \* ticks since its socket was lost
  v,         \* the client looked up for silence: "none", "current" or "stale"
  known,     \* voiceChannelId is a channel
  pc,        \* where the audio thread is
  stepped,   \* it has made a step since the last tick
  stop, skip,\* shouldStop, skipRequested
  since,     \* ticks since lastReconnectAttempt
  frames,    \* frames left in the file
  waited,    \* ticks since waitStart
  noticed,   \* loggedWaiting
  lead,      \* waitTime, in LEAD_PER_FRAME_MS
  unsent,    \* history: the frame read last has not been sent
  buffered,  \* history: frames of this song that the present encoder has got
  steady,    \* history: the client was safe at the last tick and since
  dark       \* history: ticks since the last one that was steady

dpp == <<conn, down>>
flags == <<known, stop, skip>>
timers == <<since, waited, dark, steady>>
song == <<frames, noticed, lead, unsent, buffered>>
vars == <<conn, down, v, known, pc, stepped, stop, skip, since, frames, waited, noticed,
          lead, unsent, buffered, steady, dark>>

Up(n, cap) == IF n < cap THEN n + 1 ELSE n
Unhurried == {"pick", "drain", "exited"}

TypeOK ==
  /\ conn \in {"up", "down", "rebuilding", "connecting", "lost"}
  /\ down \in 0..RebuildDelay
  /\ v \in {"none", "current", "stale"}
  /\ pc \in {"top", "silence", "quiet", "frame", "wait", "sending"} \cup Unhurried
  /\ known \in BOOLEAN /\ stop \in BOOLEAN /\ skip \in BOOLEAN
  /\ stepped \in BOOLEAN /\ noticed \in BOOLEAN /\ unsent \in BOOLEAN /\ steady \in BOOLEAN
  /\ since \in 0..(ReconnectInterval + 2) /\ waited \in 0..(RecoveryTimeout + 1)
  /\ {frames, lead, buffered} \subseteq 0..MaxFrames
  /\ dark \in 0..(RecoveryTimeout + 1)

Init ==
  /\ conn = "connecting" /\ down = 0 /\ v = "none" /\ known \in BOOLEAN
  /\ pc = "top" /\ stepped = FALSE /\ stop = FALSE /\ skip = FALSE
  /\ since = 0 /\ frames = 0 /\ waited = 0 /\ noticed = FALSE /\ lead = 0
  /\ unsent = FALSE /\ buffered = 0 /\ steady = FALSE /\ dark = 0

IsVoiceClientSafeToSend == conn = "up"

-----------------------------------------------------------------------------
(***************************************************************************)
(* Time, dpp, and commands.                                                *)
(***************************************************************************)
Tick ==
  /\ stepped \/ pc \in Unhurried
  /\ stepped' = FALSE
  /\ down' = IF conn = "down" THEN Up(down, RebuildDelay) ELSE 0
  /\ waited' = IF pc = "wait" THEN Up(waited, RecoveryTimeout + 1) ELSE waited
  /\ since' = Up(since, ReconnectInterval + 2)
  /\ steady' = (conn = "up")
  /\ dark' = IF steady /\ conn = "up" THEN 0 ELSE Up(dark, RecoveryTimeout + 1)
  /\ UNCHANGED <<conn, v, flags, pc, song>>

\* The object a pointer named is gone.
Destroyed == v' = IF v = "current" THEN "stale" ELSE v

LoseSocket ==
  /\ conn = "up"
  /\ conn' = "down" /\ down' = 0 /\ steady' = FALSE
  /\ UNCHANGED <<v, flags, pc, stepped, since, waited, dark, song>>

\* cleanup() begins, or a full reconnection replaces the object.
Rebuild ==
  /\ conn = "down" /\ down >= RebuildDelay
  /\ \/ conn' = "rebuilding" /\ UNCHANGED v
     \/ conn' = "connecting" /\ Destroyed
  /\ down' = 0 /\ buffered' = 0
  /\ UNCHANGED <<flags, pc, stepped, timers, frames, noticed, lead, unsent>>

\* setup() and the handshake are over, with or without success.
Connected ==
  /\ conn \in {"rebuilding", "connecting"}
  /\ \/ conn' = "up" /\ UNCHANGED v
     \/ conn' = "lost" /\ Destroyed
  /\ UNCHANGED <<down, flags, pc, stepped, timers, song>>

\* The gateway connection is replaced, and the voice connection is gone with it.
LoseGateway ==
  /\ conn \in {"up", "down"}
  /\ conn' = "lost" /\ down' = 0 /\ steady' = FALSE
  /\ Destroyed
  /\ UNCHANGED <<flags, pc, stepped, since, waited, dark, song>>

Interrupt ==
  /\ pc # "exited"
  /\ \/ stop' = TRUE /\ UNCHANGED skip
     \/ skip' = TRUE /\ UNCHANGED stop
  /\ UNCHANGED <<dpp, v, known, pc, stepped, timers, song>>

-----------------------------------------------------------------------------
(***************************************************************************)
(* PlayAudioThread.                                                        *)
(***************************************************************************)
Goes(label) == pc' = label /\ stepped' = TRUE /\ UNCHANGED <<known, dark, steady>>

\* The loop begins: the client is looked up; if it is not safe, and the last attempt
\* is long enough ago, dpp is asked to connect.
Top ==
  /\ pc = "top"
  /\ IF stop THEN Goes("exited") /\ UNCHANGED <<dpp, v, since>>
     ELSE IF IsVoiceClientSafeToSend
     THEN Goes("pick") /\ v' = "current" /\ UNCHANGED <<dpp, since>>
     ELSE /\ Goes("top") /\ v' = "none"
          /\ IF known /\ since > ReconnectInterval
             THEN /\ since' = 0 /\ down' = 0
                  /\ conn' \in IF conn = "lost" THEN {"connecting"} ELSE {conn, "connecting"}
             ELSE UNCHANGED <<dpp, since>>
  /\ UNCHANGED <<stop, skip, waited, song>>

\* Once it has guildInfosMutex: a song, or none.
Pick ==
  /\ pc = "pick"
  /\ \/ stop /\ Goes("exited") /\ UNCHANGED song
     \/ ~stop /\ Goes("silence") /\ UNCHANGED song
     \/ /\ ~stop /\ Goes("frame")
        /\ frames' \in 0..MaxFrames /\ lead' = 0 /\ buffered' = 0 /\ unsent' = FALSE
        /\ UNCHANGED noticed
  /\ UNCHANGED <<dpp, v, stop, skip, since, waited>>

\* Bug: the check at the top of the loop is thought to be enough.
SilenceUnchecked ==
  /\ pc = "silence"
  /\ Goes("quiet")
  /\ UNCHANGED <<dpp, v, stop, skip, since, waited, song>>

\* The client is checked again, through the pointer of the top of the loop; what an
\* object says that is gone can be anything.
Silence ==
  /\ pc = "silence"
  /\ \/ (v = "stale" \/ IsVoiceClientSafeToSend) /\ Goes("quiet") /\ UNCHANGED v
     \/ (v = "stale" \/ ~IsVoiceClientSafeToSend) /\ Goes("top") /\ v' = "none"
  /\ UNCHANGED <<dpp, stop, skip, since, waited, song>>

\* send_silence returns.
Quiet ==
  /\ pc = "quiet"
  /\ Goes("top") /\ v' = "none"
  /\ UNCHANGED <<dpp, stop, skip, since, waited, song>>

\* Bug: the wait for a lost connection counts from the beginning of the song.
FrameKeepsClock ==
  /\ pc = "frame"
  /\ IF stop \/ skip \/ frames = 0
     THEN Goes("drain") /\ skip' = (skip /\ stop) /\ waited' = 0 /\ UNCHANGED <<frames, noticed, unsent>>
     ELSE Goes("wait") /\ frames' = frames - 1 /\ noticed' = FALSE /\ unsent' = TRUE
          /\ UNCHANGED <<skip, waited>>
  /\ UNCHANGED <<dpp, v, stop, since, lead, buffered>>

\* Bug: the end of the file goes unnoticed.
FrameBeyondEnd ==
  /\ pc = "frame"
  /\ \/ (stop \/ skip) /\ skip' = (skip /\ stop)
        /\ Goes("drain") /\ UNCHANGED <<frames, waited, noticed, unsent>>
     \/ ~stop /\ ~skip
        /\ frames' = frames - 1 /\ waited' = 0 /\ noticed' = FALSE /\ unsent' = TRUE
        /\ Goes("wait") /\ UNCHANGED skip
  /\ UNCHANGED <<dpp, v, stop, since, lead, buffered>>

\* Top of the frame loop.
Frame ==
  /\ pc = "frame"
  /\ \/ /\ stop \/ skip \/ frames = 0
        /\ skip' = (skip /\ stop)
        /\ Goes("drain") /\ UNCHANGED <<frames, waited, noticed, unsent>>
     \/ /\ ~stop /\ ~skip /\ frames > 0
        /\ frames' = frames - 1 /\ waited' = 0 /\ noticed' = FALSE /\ unsent' = TRUE
        /\ Goes("wait") /\ UNCHANGED skip
  /\ UNCHANGED <<dpp, v, stop, since, lead, buffered>>

\* Bug: the wait takes the skip itself.
InterruptedTakesSkip ==
  pc = "wait" /\ (stop \/ skip) /\ Goes("frame") /\ skip' = FALSE /\ UNCHANGED <<noticed, lead>>

Interrupted == pc = "wait" /\ (stop \/ skip) /\ Goes("frame") /\ UNCHANGED <<skip, noticed, lead>>

Safe == /\ pc = "wait" /\ ~stop /\ ~skip /\ IsVoiceClientSafeToSend
        /\ Goes("sending") /\ UNCHANGED <<skip, noticed, lead>>

\* Bug: no end to the wait for the connection.
StillDarkForever ==
  /\ pc = "wait" /\ ~stop /\ ~skip /\ ~IsVoiceClientSafeToSend
  /\ Goes("wait") /\ noticed' = TRUE /\ UNCHANGED <<skip, lead>>

StillDark ==
  /\ pc = "wait" /\ ~stop /\ ~skip /\ ~IsVoiceClientSafeToSend
  /\ noticed' = TRUE
  /\ IF waited > RecoveryTimeout THEN Goes("drain") /\ lead' = 0
     ELSE Goes("wait") /\ UNCHANGED lead
  /\ UNCHANGED skip

\* One round of the wait with a frame in hand, whose client is looked up each time.
Wait ==
  /\ Interrupted \/ Safe \/ StillDark
  /\ UNCHANGED <<dpp, v, stop, since, frames, waited, unsent, buffered>>

\* Bug: the lead of the encoder before is kept.
SendingKeepsLead ==
  /\ pc = "sending"
  /\ Goes("frame") /\ lead' = lead + 1
  /\ unsent' = FALSE /\ buffered' = Up(buffered, MaxFrames)
  /\ UNCHANGED <<dpp, v, stop, skip, since, waited, frames, noticed>>

\* send_audio_raw returns, after which the thread paces itself, or throws.
Sending ==
  /\ pc = "sending"
  /\ \/ /\ Goes("frame") /\ lead' = IF noticed THEN 1 ELSE lead + 1
        /\ unsent' = FALSE /\ buffered' = Up(buffered, MaxFrames)
     \/ Goes("drain") /\ lead' = 0 /\ UNCHANGED <<unsent, buffered>>
  /\ UNCHANGED <<dpp, v, stop, skip, since, waited, frames, noticed>>

\* What is left of the song is heard, unless the session ends; the file is closed.
Drain ==
  /\ pc = "drain"
  /\ Goes("top") /\ v' = "none" /\ lead' = 0 /\ buffered' = 0 /\ frames' = 0
  /\ waited' = 0 /\ noticed' = FALSE /\ unsent' = FALSE
  /\ UNCHANGED <<dpp, stop, skip, since>>

AudioStep == \/ Top \/ Pick \/ Silence \/ Quiet \/ Frame \/ Wait \/ Sending \/ Drain

Next == \/ Tick \/ LoseSocket \/ Rebuild \/ Connected \/ LoseGateway \/ Interrupt \/ AudioStep

Spec == Init /\ [][Next]_vars

\* The thread is scheduled, mutexes are released, and time passes.
FairSpec == Spec /\ WF_vars(AudioStep) /\ WF_vars(Tick)

-----------------------------------------------------------------------------
(***************************************************************************)
(* Properties.                                                             *)
(***************************************************************************)
\* The thread is in no send call while dpp destroys and makes anew the encoder which
\* that call uses: each call follows a check closely enough.
NeverDuringRebuild == pc = "sending" \/ (pc = "quiet" /\ v = "current") => conn # "rebuilding"

\* A song is not given up for its connection unless that was never safe for a whole tick
\* in all of VOICE_RECOVERY_TIMEOUT: earlier losses during the song do not count.
GivesUpLate == [][pc = "wait" /\ pc' = "drain" => dark >= RecoveryTimeout]_vars

\* No frame is left out in the middle of a song: what has not been sent is followed by
\* no other frame, across lost connections, skips and stops.
NoGap == [][pc = "frame" /\ pc' = "wait" => ~unsent]_vars

\* Whenever a frame has been sent, the time that the thread would wait for the rest of the
\* song is backed by frames the present encoder has got, however often it was made anew.
LeadIsBuffered == [][pc = "sending" /\ pc' = "frame" => lead' <= buffered']_vars

\* A connection that dpp does not repair is asked for again, with a song in hand, too.
LostIsRetried == conn = "lost" /\ known ~> conn # "lost" \/ pc = "exited"

\* DESIGN.md:56: a connection that is dead for five seconds is asked for again, at that
\* interval: here, one that a frame has waited for as long.
DeadIsRetried ==
  pc = "wait" /\ known /\ conn = "lost" /\ waited > ReconnectInterval + 1
    => since <= ReconnectInterval + 1
=============================================================================
