# DppBot in TLA+

DppBot plays music in Discord voice channels.  It is two programs: a C++ client
(`src/src/`, on the dpp library) that takes commands, keeps a queue per guild and
streams PCM files to Discord, and a Go server (`src/server/`) that finds songs on
YouTube, records them in MySQL and downloads them to files.  They talk over HTTP on
one host.  The specifications here model what both keep in memory, in the table and
on disk, and the order in which their threads change it.

## 1. The system

| component | state it keeps | operations |
|---|---|---|
| guild session (`DiscordBotClient`, `GuildInfo`) | `guildInfos` under `guildInfosMutex`; per guild `shouldStop`, `audioThread`, `leavePending`; dpp's voice connection | `HandleJoinCommand`, `HandleLeaveCommand`/`LeaveVoice`, `StartAudioThread`, `StopAudioThread`, `~GuildInfo`, `CheckVoiceChannels` (leave), the callbacks of server requests, `PlayAudioThread` |
| playback | `videoLists` under `listMutex`, `currentPlay`, the atomics `skipRequested`, `repeatCurrent`, `shouldStop` | `!p !f !s !random !remove !delete !repeat`, replies, the song loop |
| voice tracking | `voiceOccupancy`, `seededVoiceGuilds` under `voiceMutex`; `emptyTracking`, `emptySince` | `OnVoiceStateUpdate`, `EnsureVoiceSeeded`, `ObserveVoice`, `ResetVoiceTracking`, `CheckVoiceChannels` every 2 s |
| voice client | dpp's `discord_voice_client`, its encoder; the thread's lead, wait and reconnection clocks | `IsVoiceClientSafeToSend`, silence, a frame and its wait (20 s), reconnection (5 s) |
| bot messages | `lastBotMessages` under its mutex | `SendBotMessage`, `DeleteMessage`, `!clean` |
| server requests (`FileLoader`) | none; the songs received, the open file | `RequestServer`: HTTP, JSON, one callback; `GetAudioStream`, `Cleanup` |
| media server (`main.go`) | table `youtube_videos`, files under `db/`, `downloadLocks` | `/process` (song, search, playlist), `/getrandom`, `/deactivate` |
| crash handler, `main` | `g_crashLogFd`, the static flag `entered`, the actions of five signals | `InstallCrashHandler`, `CrashHandler`, start of the bot |

**Interactions.**  Message handlers run on dpp threads and call each other
(`!p` joins first).  Server requests leave a handler and come back as a callback on
another dpp thread, in any order and after anything else has happened.  The audio
thread reads its `GuildInfo` through a raw pointer and atomics, and takes
`guildInfosMutex` for everything else; a leave joins it.  The timer observes under
`voiceMutex`, decides under `guildInfosMutex`, and leaves on a detached thread.  dpp
destroys and makes its encoder on a thread of its own.  On the
server every request is a goroutine; only the mutex of a path makes two of them wait.

**What is hard.**  Teardown against teardown; a pointer kept outside its lock;
callbacks that arrive after the session they were meant for; flags raised for one
song and read during another; a snapshot merged with newer events; a check and the act
it allows in two steps; a wait that keeps the thread from what would end it; partial
failure and a kill between the table and the files; requests to Discord that are executed
in another order.  `PROJECT.json` lists every such place under "hazards" with its line, and
the properties that watch it.

**What makes each component correct.**
Session: a thread handle has one owner; one audio thread per guild, stopped before its
connection goes; no read through a dead pointer; no join under the lock; leaves end.
Playback: songs are neither lost nor doubled and keep their order; a skip ends the song it
was meant for; only a song that ended is repeated; queued songs get their turn once the voice
connection is up for good.
Tracking: nobody who is in a channel is missing from the record; the bot leaves only after a
whole grace period alone, and does leave if its record is right.
Voice client: nothing is sent while dpp rebuilds its encoder; no frame is left out; a song
is given up late, and a dead connection is asked for again.
Messages: the bot forgets no message of its own without a reason, and keeps its last one.
Server: one download per file; what is answered as downloaded, or recommended, is there.
Both together: what was promised is there when it is played; `!play` finds what was typed;
every call is called back.
Crash handler: it does not run in itself for ever, it leaves its trace, and the process dies.

## 2. Modules

| module | models | checked by | proofs |
|---|---|---|---|
| `Session` | the life of a session (abstract) | through `GuildSession` | `GuildSessionProofs`, `PlaybackProofs` |
| `GuildSession` | session life cycle, all threads; implements `Session` when serial | `MCGuildSession` | `GuildSessionProofs` |
| `QueuePlayer` | what a player promises (abstract) | through `Playback` | `QueuePlayerProofs` |
| `Playback` | queue, flags, song loop of one guild; implements `QueuePlayer` | `MCPlayback` | `PlaybackProofs` |
| `VoiceSend` | the audio thread and the voice client, in time | `MCVoiceSend` | `VoiceSendProofs` |
| `VoiceTracking` | occupancy, seeding, timer | `MCVoiceTracking` | `VoiceTrackingProofs` |
| `BotMessages` | messages of one text channel | `MCBotMessages` | `BotMessagesProofs` |
| `SongLibrary` | what the server promises of its files (abstract) | through `MediaServer` | `ServerProofs` |
| `MediaServer` | requests, table, files, locks; implements `SongLibrary` | `MCMediaServer` | `ServerProofs` |
| `ClientServer` | the client's calls, songs and files, composed with `MediaServer` (`EXTENDS`) | `MCClientServer` | `ServerProofs` |
| `CrashHandler` | `main` and the signal handler | `MCCrashHandler` | `CrashHandlerProofs` |

All are of one guild, one text channel, or one server: the client keeps nothing that
relates two guilds but the mutexes, and `GuildSession` has `guildInfosMutex` as a variable at
the two kinds of places where a thread blocks under it (the join inside an erase; a callback
that locks it twice).  Elsewhere a locked section is one action.

**GuildSession.**  `pc[t]` is where handler, leaver or audio thread `t` is; each of its
locations is the gap between two locked sections.  `info` is the *address* of the
`GuildInfo`, so that a new session at another address differs from the one a thread
still points to; an address is used again only when nobody points to it.
`handle` is `audioThread` in the object and `mine[w]` the local into which
`StopAudioThread` moves it.  Who is in the voice channel and what is queued are free choices.

**Session.**  Abstractly a guild has a session or not, which has been told to stop or not, with a thread
that runs, has ended, or is not there.  In `GuildSession` the session is the live address, and the thread
whichever audio thread runs or waits to be joined, so that a second one cannot hide.  `Playback` goes through the
same life, which is why its songs may rest on a session without the session's interleavings.

**QueuePlayer and Playback.**  The abstract player has songs that wait, one that plays and those that are
out.  In `Playback` a song is an entry of a queue, numbered on arrival.  Each handler is one
action, as it holds both locks throughout; the audio thread takes one step per locked
section or read of a flag.  `connected` is whether dpp's voice client is there and safe to send to: it changes
at any time, and while it is not set `AudioTop` goes round its 100 ms wait instead of on to the next pick.  `accepted`, `gone`, `shuffled`, `skipFor` are history.  The session is
the serial one: a leave stops the thread, waits, erases.  The refinement maps the queue to its
numbers, `currentPlay` to what plays, `gone` to what is out; the flags, the thread, the replies and the
session are hidden.

**VoiceSend.**  The same song loop, one frame at a time and against time, which is counted in
ticks: between two steps of the thread at most one tick passes, unless it waits for a mutex or
lets the rest of a song be heard.  `conn` is dpp's client: safe, down, being rebuilt,
connecting, or lost for good; `down` is dpp's timer of one second.  `v` is the pointer that the outer
loop has looked up, which may be stale.  `lead` is `waitTime` in units of a frame's lead;
`buffered`, `unsent`, `dark`, `steady` are history.

**VoiceTracking.**  `cache` is dpp's, `events` the voice states whose handler has yet
to run, `occupancy` the bot's own record.  A run of the timer is the steps `TimerFires`,
`NothingToSeed` or `CopyVoiceMembers` and `MergeSnapshot` (`EnsureVoiceSeeded`), `ObserveVoice`,
and `NotYet` or `AutoLeave`; voice states, joins and leaves come between any two of them.  Time is counted in
runs.  `stayed` and `quiet` are history: who has been with the bot since a run began, their voice states and the
bot's handled before it, and for how many runs nobody was.  So is `torn`: a join or leave has forgotten the record
while a copy was on its way, which is then merged over the newer entries that were lost.

**BotMessages.**  A call of Discord is a request in flight, executed later in any order, or
failing: `creates` and then `confirming` (the callback), `deletions`, `cleans`.  `overlaps` and `kept`
count what may leave a message behind.

**MediaServer.**  A request is a goroutine with a `pc`; one step is what it does between
two external calls, each of which may fail.  A file is absent, partial or holds the audio of
one video; `os.WriteFile` is two steps.  The table keeps whether a song is active and whether
`channel_id` holds a title or an ID, since the path is computed from it.  `Crash` kills the
process: goroutines and locks are gone, table and files stay.  For the abstract `SongLibrary` a file is
absent, being written, broken for good, or whole, and a request has been told of some songs; which of its
partial files are broken, `MediaServer` knows from the history `interrupted`.

**ClientServer.**  Each call of the client is served by a goroutine of `MediaServer`, whose
actions this module conjoins.  A call ends by the server's answer, by dpp giving it up (the server
goes on) or by a kill; its callback runs later.  Songs carry whether the answer promised that
they are downloaded, and whether the path sent is theirs.  `UrlEncode` and the server's decoding are
modelled character by character, since `RightSong` is about them.

**CrashHandler.**  `stack[t]` is the handlers that thread `t` is in.  A fault may happen anywhere,
inside the handler too; a signal is blocked while its handler runs and delivered when that returns.

Each module has, beside an operator of the code, variants of it marked `Bug:` in their
comments, which no specification uses: each is a plausible mistake in that place, with which
one of the properties fails (`PROJECT.json`, "mutants").

## 3. Runs

Passing runs:

| run | instance | shows |
|---|---|---|
| `session_concurrent` | 2 handlers, 2 audio threads, 4 addresses, every command, 1 reply of a kind; `Spec` | types; a thread handle is never lost or joined twice |
| `session_serial` | 1 handler, 1 leaver, 2 audio threads, 3 addresses, no `!omakase` (it would block for ever); `FairSerialSpec` | `GuildSession` implements `Session`, one audio thread included; no dangling pointer, stop before disconnect, no join under the lock; a leave ends |
| `playback` | 2 songs, batches of up to 2, one frame each, 1 request of a kind, every command; `FairSpec` | `Playback` implements `QueuePlayer`; conservation, order, repeat; a skip ends its song, whatever becomes of the connection while the song runs; queued songs are served if the connection comes up for good |
| `voice_send` | dpp's delay 4 ticks, reconnection 5, time-out 8, 2 frames; `FairSpec` | no call during a rebuild; no gap; the lead is backed; a song is given up late; a lost connection is asked for again |
| `tracking` | 1 person, 1 bot, 2 channels, 1 waiting voice state, grace of 2 runs, all of them everywhere but the other bot, which has one channel; `FairSpec` | nobody in a channel is missing from the record; the bot leaves only after the grace period alone, and does leave |
| `messages` | 5 messages, `!clean` of at most 2, asked with no number or with one too many; `Spec` | how many messages are left behind; the last one stays |
| `server_safety` | 2 requests, 2 songs, a playlist of both, 1 kill; `Spec` | `MediaServer` implements `SongLibrary`; one download, true answers, playable recommendations |
| `client_server` | 2 requests, 2 calls, 2 songs, 2 texts that differ in a character with a meaning in a URL, 1 kill; `ClientFairSpec` | promises kept, the right song, every call called back |
| `crash_handler` | 2 threads, 3 signals, 4 faults; `FairSpec` | bounded recursion, a whole trace, death |

The bounds are named constants.  They are enough for the hazards because each of these is a
matter of two actors: two workers that tear down one session (with the audio thread of each,
and one more address than objects that can be alive or pointed to); one skip and one reply
against one song loop; one voice state against one run of the timer and one join or leave; two messages over one
record; two requests for one file; two threads that fault.  A song of one frame is read at its
beginning and at its end, and in `voice_send` one of two frames also in the middle.  There
dpp's delay is above the three steps between check and call, and the time-out above the
reconnection interval, as in the code (20 s, 5 s, and a second against steps of 20 ms).
A grace of 2 runs has a first, a middle and a last run.  Larger sets are left to the
proofs of section 4, which bound nothing.  `Served` holds as only so many songs arrive: a user
who types `!first` for ever keeps a song in the queue for ever.

Runs that are expected to fail, each of one property that a document or comment of the
repository states and the code does not keep:

| run | the document | the code |
|---|---|---|
| `omakase_self_lock` | callbacks lock `guildInfosMutex` only briefly (`FileLoader.h:25`) | the callback of `!omakase` locks it twice and never returns |
| `overlap_two_threads` | at most one audio thread per guild (`DESIGN.md:61`) | a join overlapping an automatic leave starts a second |
| `late_reconnect` | a connection dead for 5 s is asked for again, every 5 s (`DESIGN.md:56`) | not while a frame waits for it: `connect_voice` is in the outer loop, reached after 20 s, when the song is given up |

The modules state more expectations, which no listed run checks and which TLC
refutes in instances of the same size:

- `SkipsCurrent` (`!skip` is of the current song, `DESIGN.md:44`): the flag is of the guild and is read by whatever plays next; so is the skip of `!delete s`.
- `BeliefConverges` (`VoiceTracking`): newer events win over the snapshot (`DiscordBotClient.cpp:633`).  Arrivals
  and moves do.  A departure between the copy (line 619) and the merge (line 633) erases an entry, so that the merge
  finds a gap and puts the member who has left back; the ghost stays until it moves again, or the record is
  forgotten, and keeps the bot in the channel.
- `NobodyMissed` and `NeverLeavesCompany` without their exception for `torn`: a join makes the record anew "even if
  events were missed" (`DiscordBotClient.cpp:521`).  If its reset comes between the copy and the merge of a run of the
  timer, the old copy is merged after it, marks the guild as seeded, and what came in between is lost.
- `ColumnHoldsTitle` (`main.go:479`): a search writes the channel's ID, and `/getrandom` sends a path that is not the song's until the metadata has been saved.
- `RemoveOnLiveInfo`: `!remove` edits a `GuildInfo` after unlocking.
- `LeaveOffEventThread` (`DiscordBotClient.h:103`): `!leave` joins on a dpp thread.
- `LeaveResets` (`DESIGN.md:41`): a late reply makes a session without a thread.
- `ItemsAreAList`: `items` may be `null`.  `FileIsTheVideo`: two songs of one title share a file.
- `StopBeforeDisconnect` and `NoJoinUnderLock` fail like `OneAudioThread` if teardowns of a guild overlap.

Met while modelling, and no question of these runs: `!delete s` sends two messages at once
and so always leaves one behind; the first attempt at a reconnection after a drop is made at once;
a skip during a lost connection still waits for the lead of the old one; `!clean` may or
may not count itself among the latest messages.

### Disciplines

One specification is a restriction of `Next`, and says so in its name: `SerialSpec`
lets no two joins or leaves of a guild overlap.  The code does not enforce it;
`overlap_two_threads` and the list above show what happens without it.
Everything else interleaves freely.  The session of `Playback`, and the joins and leaves of
`VoiceTracking`, are serial, too.  In `VoiceSend` the discipline is on time: dpp's second is longer than the few steps
from a check to the end of the call that it allows (`VoiceAssumption`).

Some properties name their exceptions in the formula.  `NobodyMissed` and `NeverLeavesCompany` leave out a `torn`
record, `LeavesWhenAlone` a record that is wrong again and again (`BeliefConverges`).  `SuccessIsWhole`, `PromisedIsWhole` and
`RecommendedIsPlayable` leave out files of which a write was interrupted, the last one also songs that failed or are being
worked on.  `NeverDuringRebuild` is about the client that dpp uses: the outer loop looks a pointer up
(`DiscordBotClient.cpp:752`) and uses it after the queue (898-900), when dpp may have destroyed that client; a call
through such a stale pointer is not seen by it.

### Fairness

- Session: weak fairness of each thread that has begun a step (`std::thread` and dpp's pool are
  preemptive); none for the users' commands, dpp's connection or replies.
- Playback: weak fairness of the audio thread and of the erase that follows a leave; none for
  commands, replies and the connection, which may stay down for ever.  `Served` therefore has `<>[]connected` as a
  premise, and so has that part of `SkipEnds` which is about a skip between two runs of a repeated song: there the
  thread waits for the connection before it looks at the flag.
- Voice: weak fairness of the audio thread and of time; none for dpp's repairs.
- Tracking: the timer (`bot.start_timer`) fires again and again and its runs go on, handlers and started workers
  do, too; strong fairness of `CopyVoiceMembers`, since a guild looked up again and again is some time in dpp's cache.
- Client and server: calls return or fail (weak fairness of a request's steps), and dpp runs
  callbacks; strong fairness of `Lock`, since `sync.Mutex` hands itself to a waiter that has starved
  for a millisecond.
- Crash handler: threads are scheduled.  Messages: none; both properties are of safety.

Deadlock is not checked: users may stop typing, and bounds on songs, addresses, messages, faults and
replies end behaviours that the program would go on with.

## 4. Proofs

For every value of the constants (any number of threads, requests, songs, messages, users, ticks):

- **`GuildSessionProofs`**: `TypeCorrect` and `Ownership` (`HandleOwnership`) of `Spec`.
  `HandleOwnership` is not inductive: that `StartAudioThread` takes a thread that is in nobody's hands, and that the
  object waited for in an erase is still the one with the handle, needs `LockDiscipline`, which only ties the
  variable `mutex` to the places where a thread blocks.
  Of `SerialSpec`: `AliveWhileRead`, `AtMostOneThread`, `StopsFirst` and
  `NeverJoinsLocked`.  The inductive invariant (`SerialInv`) says what each location of a teardown
  has achieved: after `StopAudioThread` nobody runs and nobody owns a thread until the next
  start, so that an erase finds no handle and a pointer in use is to the live object.  It rests on the
  ownership of handles (a thread that runs is owned by the object or by the one teardown).
  `SessionImplemented`: `SerialSpec` implements `Session` (`ImplementsSession`).  Beside `SerialInv` it needs
  that only a session is told to stop, and that a thread taken to be joined still has its session (`LifeInv`);
  `SessionOutlivesThread` then follows from the abstract session alone.
- **`QueuePlayerProofs`**: `NothingLost`, of the abstract player: `Conserved` is inductive with the types.  A
  shuffle needs the bijection, an arrival and a removal lemmas about sequences without doubles.
- **`PlaybackProofs`**: `TypeCorrect`; `PlayerImplemented` (every initial state and step maps to
  one of `QueuePlayer`, for which a guild without a session must be shown to have no songs), from which
  `SongsConserved` follows with `NothingLost`; `OnlyEndedAgain`, from `Rested` (between two songs, a current
  song is one that has come to its end); `QueueStaysOrdered`, from `Lined` (what waits is in order and has
  arrived, so that what comes next is newer); `SessionLived` (`Playback` goes through the life of `Session`), for
  which no stop and no thread may be left over without a session (`Lived`).
- **`VoiceSendProofs`**: `TypeCorrect`, `NoCallDuringRebuild`, `NoFrameLeftOut`, `LeadStaysBuffered`,
  `GivenUpLate`.  The first and the third rest on `Fresh(k)`: at most `k` ticks, and one for the last step of the
  thread, have passed since the client was safe, and dpp waits longer than that.
- **`VoiceTrackingProofs`**: of `Spec`, `TypeCorrect`; `NobodyIsMissed` (`NobodyMissed`), from `AllFollowed` (the last
  waiting voice state of a user is where the user is) and `AllRecorded` (of a user in a channel of whom none waits the
  record, or the copy that will fill its gaps, knows where, unless it is torn); and `LeavesOnlyWhenAlone`
  (`NeverLeavesCompany`), from `Together` (who has been with the bot since a run began has no voice state waiting, and is
  seen) and `Waited` (the grace period is never longer than the runs in a row without company).
- **`BotMessagesProofs`**: `TypeCorrect`; `LastStays`, from `Fresh` (a message whose callback has not run is there
  and nobody is about to delete it); `StraysAccounted`, from `Accounted`: each message left behind is charged to an
  overlap or a failure before it is one, when it is still on its way.
- **`ServerProofs`**, of the server: `TypeCorrect`, `DownloadsExclude` (`OneDownload`),
  `AnswersTrue` (`SuccessIsWhole`) and `RecommendationsPlayable` of `Spec`.  `Held` (who is past
  `Lock` holds the mutex of its path) gives exclusion.  `Unwritten` (the holder's file is absent until it truncates
  it) and `Traced` (a partial file is being filled, or has been interrupted) use exclusion to
  say what a file is; with them a written file stays, and a request that finds its file under
  the mutex finds it whole.  `Claims` carries this through the counting of a playlist to the answer.
  `Fitting` (a file only ever holds a song that is named by it) adds that it is the right one, but for songs of one
  file name: `OnlyNamesakes`, and `OneNameOneSong` (`FileIsTheVideo`, if there are none).
  For recommendations, a row with the wrong column, or without a file, has a request at work that mends it, or a failure.
  `LibraryImplemented` (`ImplementsLibrary`): every step of a request, and a kill in the middle of any
  number of writes, is a step of `SongLibrary`.  It needs that a file given up is filled by nobody
  (`Abandoned`), and from it follow `NeverRewritten` and `NeverToldEarly`, which are of the library alone.
- **`ServerProofs`**, of client and server together: `ServerBesideClient` (`ClientSpec` implements `Spec`, so
  that everything above holds in the composition), `LibraryBesideClient`, `ClientTypeCorrect`, `PromisesKept` (`PromisedIsWhole`) and `TypedIsFound`
  (`RightSong`) of `ClientSpec`.  Every step of the composition is a step of `MediaServer` or leaves it as it is
  (`ServerSteps`), so the server's invariant (`Told`) holds in it; the promise then goes with the answer
  from the goroutine to the inbox, the queue and the open file, and a file that has arrived stays.
  By `Fitting` it is that song, or one of the same file name.
  `TypedIsFound` needs that a text survives its encoding (`QueryOfUrl`) and that the goroutine of a `!play` that
  was not called back still works for it, given up or not.
- **`CrashHandlerProofs`**: `TypeCorrect`, `TwoDeep` (`NoRecursion`), `DeathIsTraced` (`TracedBeforeDeath`),
  and `NeverResumed` (a handler that returns ends the process).  Their common invariant (`Guarded`) says where
  handlers can be: before the installation, and before the first fault, nowhere (`Unguarded`, `Fresh`); at most
  two deep in a thread, the outer one interrupted while it writes with the flag set, the inner one not
  writing (`Nested`); once a handler has raised its signal, that signal kills (`Doomed`); and after a single fault in
  one thread alone, with as much of the trace written as its place says (`Lone`).

Assumptions are the named ones of the modules: disjoint sets of threads, finite `Videos`, a path for each
video, dpp's delay longer than a call, and the like; TLC evaluates them on every run.

Only model-checked: all liveness (`LeaveEnds`, `SkipEnds`, `Served`, `LostIsRetried`, `LeavesWhenAlone`,
`CalledBack`, `FaultKills`), as the prover does not reach fairness and ENABLED.  Every invariant and every
action or refinement property of a run has a theorem.  The runs that are expected to fail are
counterexamples and need no proof.

## 5. Not modelled

- Server helpers (`extractVideoID`, `extractPlaylistID`, `parseISO8601Duration`, `sanitizeFilename`,
  `resolveBindAddress`): pure functions of strings; names of files matter only through "two songs may share one".
- Server start-up and schema: sequential, and finished before the first request.
- Parsing of prefixes and numbers of commands, and all texts (`!list`, the help, durations); of the numbers only
  those of `!clean` and the index of `!remove` are there.
- Build and run scripts.
- More than one guild; see section 2.
- `std::terminate` and use after free are not behaviours: the properties exclude the state before.
- An exception thrown by a callback of `RequestServer`, which would run it twice (`FileLoader.cpp:43`): the
  server sends every field with the type that the callbacks read.  That dpp itself runs a callback once for each
  request is assumed, too; `ClientTypeOK` does not show it.
- The reply `?` to a `!play` with nothing after its space (`DiscordBotClient.cpp:156-158`), a message of the bot that
  is never recorded: `HandleCommand` of `BotMessages` leaves it out, as Discord trims that space away and the command
  is then no `!play`.

## 6. Plan

1. *Done*: all modules of section 2, with the proofs of section 4.
2. Composition of `Playback` with the concurrent session of `GuildSession`, so that queues are lost, or not, under
   overlapping teardowns.
3. Pure functions of the server against reference definitions, where their strings can be kept small.
