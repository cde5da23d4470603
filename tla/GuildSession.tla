---------------------------- MODULE GuildSession ----------------------------
(***************************************************************************)
(* The life of one guild's session in the C++ client: the GuildInfo object *)
(* held by guildInfos, the audio thread it owns, the voice connection they *)
(* use, and every thread that creates, restarts or destroys them.          *)
(*                                                                         *)
(* Handlers are the dpp threads that run message handlers and HTTP         *)
(* callbacks, Leavers the detached threads the timer starts for an         *)
(* automatic leave (DiscordBotClient.cpp:722), AudioThreads the            *)
(* PlayAudioThread instances.  guildInfosMutex is taken and released       *)
(* inside one action wherever the code does nothing that can block under   *)
(* it; the variable mutex records the two places where it does block: the  *)
(* join of ~GuildInfo during an erase, and StartAudioThread called with    *)
(* the lock already held.                                                  *)
(*                                                                         *)
(* What a song is, and the queue, are the subject of Playback; who is in   *)
(* the voice channel, of VoiceTracking.  Here both are free choices.       *)
(***************************************************************************)
EXTENDS Naturals, FiniteSets

CONSTANTS Handlers,      \* dpp threads running handlers and HTTP callbacks
          Leavers,       \* detached automatic-leave threads
          AudioThreads,  \* PlayAudioThread instances
          Infos,         \* addresses a GuildInfo may be allocated at
          Commands,      \* the commands users type
          Nobody,        \* null: no thread, no object
          MaxReplies     \* bound: server requests of a kind in flight

Workers == Handlers \cup Leavers
ReplyKinds == {"play", "omakase"}
AllCommands == {"join", "leave", "play", "omakase", "remove"}

ASSUME ThreadsAssumption ==
  /\ Handlers \cap Leavers = {}
  /\ Workers \cap AudioThreads = {}
  /\ Nobody \notin Workers \cup AudioThreads \cup Infos
  /\ MaxReplies \in Nat
  /\ Commands \subseteq AllCommands

VARIABLES
  info,          \* the GuildInfo in guildInfos, or Nobody
  stop,          \* info.shouldStop
  handle,        \* info.audioThread: the thread it owns, or Nobody
  leavePending,  \* info.leavePending
  voice,         \* dpp's voice connection: "absent", "opening" or "ready"
  mutex,         \* thread blocked while it holds guildInfosMutex, or Nobody
  pc,            \* where each thread is
  op,            \* the command or callback each worker is running
  mine,          \* threadToJoin of StopAudioThread
  ptr,           \* the GuildInfo* a thread keeps outside the lock
  replies        \* server requests in flight, by kind

session == <<info, stop, handle, leavePending>>
vars == <<info, stop, handle, leavePending, voice, mutex, pc, op, mine, ptr, replies>>

(***************************************************************************)
(* Program locations.                                                      *)
(***************************************************************************)
JoinPCs == {"joinExisting", "stop", "stopJoin", "hangup", "eraseOld", "eraseOldWait",
            "disconnect", "connect", "lookupNew", "emplace", "emplaceWait", "start"}
LeavePCs == {"leaveMark", "stop", "stopJoin", "leaveDisconnect", "leaveErase", "leaveEraseWait"}
WaitPCs == {"eraseOldWait", "emplaceWait", "leaveEraseWait"}
WorkerPCs == JoinPCs \cup LeavePCs \cup
             {"idle", "joinCheck", "needJoin", "request", "enqueue", "startIfNeeded",
              "selfLock", "listing", "findInfo", "removeAt"}
AudioPCs == {"none", "top", "lookup", "pick", "playing", "send", "finish", "clear",
             "silence", "exited"}

\* Locations of PlayAudioThread that read through its GuildInfo pointer.
DerefPCs == {"lookup", "playing", "send", "finish"}

Running(a) == pc[a] \notin {"none", "exited"}
Teardown(w) == pc[w] \in JoinPCs \cup LeavePCs
Unlocked == mutex = Nobody
InFlight == {w \in Handlers : op[w] \in ReplyKinds}

TypeOK ==
  /\ info \in Infos \cup {Nobody}
  /\ stop \in BOOLEAN
  /\ handle \in AudioThreads \cup {Nobody}
  /\ leavePending \in BOOLEAN
  /\ voice \in {"absent", "opening", "ready"}
  /\ mutex \in Workers \cup {Nobody}
  /\ pc \in [Workers \cup AudioThreads -> WorkerPCs \cup AudioPCs]
  /\ \A w \in Workers : pc[w] \in WorkerPCs
  /\ \A a \in AudioThreads : pc[a] \in AudioPCs
  /\ op \in [Workers -> AllCommands \cup {"none"}]
  /\ mine \in [Workers -> AudioThreads \cup {Nobody}]
  /\ ptr \in [Workers \cup AudioThreads -> Infos \cup {Nobody}]
  /\ replies \in [ReplyKinds -> Nat]

Init ==
  /\ info = Nobody /\ stop = FALSE /\ handle = Nobody /\ leavePending = FALSE
  /\ voice = "absent" /\ mutex = Nobody
  /\ pc = [t \in Workers \cup AudioThreads |-> IF t \in Workers THEN "idle" ELSE "none"]
  /\ op = [w \in Workers |-> "none"]
  /\ mine = [w \in Workers |-> Nobody]
  /\ ptr = [t \in Workers \cup AudioThreads |-> Nobody]
  /\ replies = [k \in ReplyKinds |-> 0]

-----------------------------------------------------------------------------
(***************************************************************************)
(* The pieces the handlers share.                                          *)
(***************************************************************************)
Goto(t, label) == pc' = [pc EXCEPT ![t] = label]
Done(w) == /\ Goto(w, "idle")
           /\ op' = [op EXCEPT ![w] = "none"]

\* An address for a new GuildInfo that no thread still points to.
Fresh(i) == i \in Infos /\ i # info /\ \A t \in DOMAIN ptr : ptr[t] # i

\* guildInfos.emplace(guildId, GuildInfo(shardId, channel)).
NewInfo == /\ \E i \in Infos : Fresh(i) /\ info' = i
           /\ stop' = FALSE /\ handle' = Nobody /\ leavePending' = FALSE

NoInfo == info' = Nobody /\ stop' = FALSE /\ handle' = Nobody /\ leavePending' = FALSE

\* Where HandleJoinCommand returns to: HandleCommand, or the command that called it.
AfterJoin(w) == IF op[w] = "join" THEN Done(w) ELSE Goto(w, "request") /\ UNCHANGED op

\* guildInfos.erase under the lock.  ~GuildInfo of an object that owns a
\* joinable thread sets shouldStop and joins it: w then waits at `waiting`
\* with guildInfosMutex held.
EraseBlocks(w, waiting) ==
  /\ Unlocked /\ info # Nobody /\ handle # Nobody
  /\ stop' = TRUE /\ mutex' = w
  /\ Goto(w, waiting)
  /\ UNCHANGED <<info, handle, leavePending, voice, op, mine, ptr, replies>>

\* The join of ~GuildInfo has returned.
DestructorJoined == handle # Nobody /\ pc[handle] = "exited"

-----------------------------------------------------------------------------
(***************************************************************************)
(* Message handlers: HandleCommand and its dispatch.                       *)
(***************************************************************************)
FirstStep == [join |-> "joinCheck", leave |-> "leaveMark", play |-> "needJoin",
              omakase |-> "needJoin", remove |-> "findInfo"]

HandleCommand(h, c) ==
  /\ pc[h] = "idle" /\ Unlocked
  /\ c \in ReplyKinds => replies[c] + Cardinality(InFlight) < MaxReplies
  /\ op' = [op EXCEPT ![h] = c]
  /\ Goto(h, FirstStep[c])
  /\ UNCHANGED <<session, voice, mutex, mine, ptr, replies>>

\* RequestAndEnqueue and HandleOmakaseCommand: join first if there is no session.
NeedJoin(h) ==
  /\ pc[h] = "needJoin" /\ Unlocked
  /\ Goto(h, IF info = Nobody THEN "joinCheck" ELSE "request")
  /\ UNCHANGED <<session, voice, mutex, op, mine, ptr, replies>>

\* FileLoader::RequestServer: the reply comes back on some handler thread.
RequestServer(h) ==
  /\ pc[h] = "request"
  /\ replies' = [replies EXCEPT ![op[h]] = @ + 1]
  /\ Done(h)
  /\ UNCHANGED <<session, voice, mutex, mine, ptr>>

-----------------------------------------------------------------------------
(***************************************************************************)
(* HandleJoinCommand.                                                      *)
(***************************************************************************)
\* Unknown guild or author not in a voice channel: the command only answers.
JoinCheck(h) ==
  /\ pc[h] = "joinCheck"
  /\ \/ Goto(h, "joinExisting") /\ UNCHANGED op
     \/ AfterJoin(h)
  /\ UNCHANGED <<session, voice, mutex, mine, ptr, replies>>

\* Bug: hang up first, stop the audio thread never.
JoinExistingNoStop(h) ==
  /\ pc[h] = "joinExisting" /\ Unlocked
  /\ Goto(h, IF info # Nobody THEN "hangup" ELSE "disconnect")
  /\ UNCHANGED <<session, voice, mutex, op, mine, ptr, replies>>

JoinExisting(h) ==
  /\ pc[h] = "joinExisting" /\ Unlocked
  /\ Goto(h, IF info # Nobody THEN "stop" ELSE "disconnect")
  /\ UNCHANGED <<session, voice, mutex, op, mine, ptr, replies>>

\* existingVconn->disconnect() destroys the voice client of a ready connection.
JoinHangUp(h) ==
  /\ pc[h] = "hangup"
  /\ voice' = IF voice = "ready" THEN "opening" ELSE voice
  /\ Goto(h, "eraseOld")
  /\ UNCHANGED <<session, mutex, op, mine, ptr, replies>>

JoinEraseOld(h) ==
  /\ pc[h] = "eraseOld"
  /\ \/ EraseBlocks(h, "eraseOldWait")
     \/ /\ Unlocked /\ handle = Nobody
        /\ NoInfo
        /\ Goto(h, "disconnect")
        /\ UNCHANGED <<voice, mutex, op, mine, ptr, replies>>

JoinEraseOldDone(h) ==
  /\ pc[h] = "eraseOldWait" /\ DestructorJoined
  /\ NoInfo /\ mutex' = Nobody
  /\ pc' = [pc EXCEPT ![h] = "disconnect", ![handle] = "none"]
  /\ UNCHANGED <<voice, op, mine, ptr, replies>>

\* shard->disconnect_voice(guild).
JoinDisconnect(h) ==
  /\ pc[h] = "disconnect"
  /\ voice' = "absent"
  /\ Goto(h, "connect")
  /\ UNCHANGED <<session, mutex, op, mine, ptr, replies>>

\* g->connect_member_voice: fails when the author has left the voice channel;
\* keeps a connection that another thread has opened meanwhile.
JoinConnect(h) ==
  /\ pc[h] = "connect"
  /\ \/ /\ voice' = IF voice = "absent" THEN "opening" ELSE voice
        /\ Goto(h, "lookupNew") /\ UNCHANGED op
     \/ voice' = voice /\ AfterJoin(h)
  /\ UNCHANGED <<session, mutex, mine, ptr, replies>>

\* shard->get_voice(guild): null if the connection is already gone again.
JoinLookup(h) ==
  /\ pc[h] = "lookupNew"
  /\ \/ voice # "absent" /\ Goto(h, "emplace") /\ UNCHANGED op
     \/ voice = "absent" /\ AfterJoin(h)
  /\ UNCHANGED <<session, voice, mutex, mine, ptr, replies>>

JoinEmplace(h) ==
  /\ pc[h] = "emplace"
  /\ \/ EraseBlocks(h, "emplaceWait")
     \/ /\ Unlocked /\ handle = Nobody
        /\ NewInfo
        /\ Goto(h, "start")
        /\ UNCHANGED <<voice, mutex, op, mine, ptr, replies>>

JoinEmplaceDone(h) ==
  /\ pc[h] = "emplaceWait" /\ DestructorJoined
  /\ NewInfo /\ mutex' = Nobody
  /\ pc' = [pc EXCEPT ![h] = "start", ![handle] = "none"]
  /\ UNCHANGED <<voice, op, mine, ptr, replies>>

\* StartAudioThread.
StartAudioThread(h) ==
  /\ pc[h] = "start" /\ Unlocked
  /\ \/ /\ info = Nobody \/ handle # Nobody
        /\ AfterJoin(h)
        /\ UNCHANGED session
     \/ /\ info # Nobody /\ handle = Nobody
        /\ \E a \in AudioThreads :
             /\ pc[a] = "none"
             /\ handle' = a /\ stop' = FALSE
             /\ pc' = [pc EXCEPT ![a] = "top", ![h] = IF op[h] = "join" THEN "idle" ELSE "request"]
        /\ op' = [op EXCEPT ![h] = IF @ = "join" THEN "none" ELSE @]
        /\ UNCHANGED <<info, leavePending>>
  /\ UNCHANGED <<voice, mutex, mine, ptr, replies>>

-----------------------------------------------------------------------------
(***************************************************************************)
(* StopAudioThread, shared by join and leave.                              *)
(***************************************************************************)
\* Bug: the handle is copied, not moved.
StopAudioThreadCopies(w) ==
  /\ pc[w] = "stop" /\ Unlocked
  /\ stop' = (info # Nobody)
  /\ mine' = [mine EXCEPT ![w] = handle]
  /\ Goto(w, "stopJoin")
  /\ UNCHANGED <<info, handle, leavePending, voice, mutex, op, ptr, replies>>

\* Bug: the thread is detached instead of taken.
StopAudioThreadDetaches(w) ==
  /\ pc[w] = "stop" /\ Unlocked
  /\ stop' = (info # Nobody)
  /\ handle' = Nobody
  /\ Goto(w, "stopJoin")
  /\ UNCHANGED <<info, leavePending, voice, mutex, op, mine, ptr, replies>>

\* Under the lock: raise shouldStop and move the thread handle out.
StopAudioThread(w) ==
  /\ pc[w] = "stop" /\ Unlocked
  /\ stop' = (info # Nobody)
  /\ mine' = [mine EXCEPT ![w] = handle]
  /\ handle' = Nobody
  /\ Goto(w, "stopJoin")
  /\ UNCHANGED <<info, leavePending, voice, mutex, op, ptr, replies>>

\* Bug: no wait for the thread to end.
StopJoinNoWait(w) ==
  /\ pc[w] = "stopJoin"
  /\ mine' = [mine EXCEPT ![w] = Nobody]
  /\ Goto(w, IF op[w] = "leave" THEN "leaveDisconnect" ELSE "hangup")
  /\ UNCHANGED <<session, voice, mutex, op, ptr, replies>>

\* After the lock: join the thread, if there was a handle to take.
StopJoin(w) ==
  /\ pc[w] = "stopJoin"
  /\ mine[w] # Nobody => pc[mine[w]] = "exited"
  /\ mine' = [mine EXCEPT ![w] = Nobody]
  /\ pc' = [t \in Workers \cup AudioThreads |->
              CASE t = w       -> IF op[w] = "leave" THEN "leaveDisconnect" ELSE "hangup"
                [] t = mine[w] -> "none"
                [] OTHER       -> pc[t]]
  /\ UNCHANGED <<session, voice, mutex, op, ptr, replies>>

-----------------------------------------------------------------------------
(***************************************************************************)
(* LeaveVoice: !leave on a handler thread, automatic leave on a leaver.    *)
(***************************************************************************)
\* The grace period of an automatic leave starts after the session is created, so
\* it does not end between the emplace and the StartAudioThread of one join.
Settled == \A h \in Handlers : pc[h] # "start"

\* The last section of CheckVoiceChannels: the channel counted as empty for the
\* grace period, so mark the session and start a detached LeaveVoice thread.
AutoLeave(l) ==
  /\ pc[l] = "idle" /\ Unlocked
  /\ info # Nobody /\ ~leavePending /\ Settled
  /\ leavePending' = TRUE
  /\ op' = [op EXCEPT ![l] = "leave"]
  /\ Goto(l, "leaveMark")
  /\ UNCHANGED <<info, stop, handle, voice, mutex, mine, ptr, replies>>

\* Bug: trusts ~GuildInfo to stop the thread.
LeaveMarkNoStop(w) ==
  /\ pc[w] = "leaveMark" /\ Unlocked
  /\ stop' = (info # Nobody)
  /\ Goto(w, "leaveDisconnect")
  /\ UNCHANGED <<info, handle, leavePending, voice, mutex, op, mine, ptr, replies>>

LeaveMark(w) ==
  /\ pc[w] = "leaveMark" /\ Unlocked
  /\ stop' = (info # Nobody)
  /\ Goto(w, "stop")
  /\ UNCHANGED <<info, handle, leavePending, voice, mutex, op, mine, ptr, replies>>

LeaveDisconnect(w) ==
  /\ pc[w] = "leaveDisconnect"
  /\ voice' = "absent"
  /\ Goto(w, "leaveErase")
  /\ UNCHANGED <<session, mutex, op, mine, ptr, replies>>

LeaveErase(w) ==
  /\ pc[w] = "leaveErase"
  /\ \/ EraseBlocks(w, "leaveEraseWait")
     \/ /\ Unlocked /\ handle = Nobody
        /\ NoInfo /\ Done(w)
        /\ UNCHANGED <<voice, mutex, mine, ptr, replies>>

LeaveEraseDone(w) ==
  /\ pc[w] = "leaveEraseWait" /\ DestructorJoined
  /\ NoInfo /\ mutex' = Nobody
  /\ pc' = [pc EXCEPT ![w] = "idle", ![handle] = "none"]
  /\ op' = [op EXCEPT ![w] = "none"]
  /\ UNCHANGED <<voice, mine, ptr, replies>>

-----------------------------------------------------------------------------
(***************************************************************************)
(* HTTP callbacks of /process and /getrandom, and HandleRemoveCommand.     *)
(***************************************************************************)
\* Bug: a reply is delivered again after it was handled.
ReplyTwice(h, k) ==
  /\ pc[h] = "idle"
  /\ replies' = [replies EXCEPT ![k] = @ - 1]
  /\ Goto(h, "enqueue") /\ op' = [op EXCEPT ![h] = k]
  /\ UNCHANGED <<session, voice, mutex, mine, ptr>>

\* The reply arrives: an error only answers the user, success goes on to enqueue.
Reply(h, k) ==
  /\ pc[h] = "idle" /\ replies[k] > 0
  /\ replies' = [replies EXCEPT ![k] = @ - 1]
  /\ \/ UNCHANGED <<pc, op>>
     \/ Goto(h, "enqueue") /\ op' = [op EXCEPT ![h] = k]
  /\ UNCHANGED <<session, voice, mutex, mine, ptr>>

\* EnsureGuildInfo and the insertion, under the lock.
Enqueue(h) ==
  /\ pc[h] = "enqueue" /\ Unlocked
  /\ IF info = Nobody THEN NewInfo ELSE UNCHANGED session
  /\ IF op[h] = "omakase" THEN Goto(h, "startIfNeeded") /\ UNCHANGED op ELSE Done(h)
  /\ UNCHANGED <<voice, mutex, mine, ptr, replies>>

\* !omakase calls StartAudioThread while it holds guildInfosMutex, and
\* StartAudioThread locks it again: the thread never gets past that lock.
StartIfNeeded(h) ==
  /\ pc[h] = "startIfNeeded" /\ Unlocked
  /\ \/ /\ info # Nobody /\ handle = Nobody
        /\ mutex' = h /\ Goto(h, "selfLock")
     \/ /\ info = Nobody \/ handle # Nobody
        /\ Goto(h, "listing") /\ UNCHANGED mutex
  /\ UNCHANGED <<session, voice, op, mine, ptr, replies>>

\* SendListMessage reads the session under the lock.
SendListMessage(h) ==
  /\ pc[h] = "listing" /\ Unlocked
  /\ Done(h)
  /\ UNCHANGED <<session, voice, mutex, mine, ptr, replies>>

\* HandleRemoveCommand takes a pointer under guildInfosMutex ...
RemoveFind(h) ==
  /\ pc[h] = "findInfo" /\ Unlocked
  /\ \/ /\ info = Nobody
        /\ Done(h) /\ UNCHANGED ptr
     \/ /\ info # Nobody
        /\ ptr' = [ptr EXCEPT ![h] = info]
        /\ Goto(h, "removeAt") /\ UNCHANGED op
  /\ UNCHANGED <<session, voice, mutex, mine, replies>>

\* ... and locks and edits the list through it after releasing that mutex.
RemoveAt(h) ==
  /\ pc[h] = "removeAt"
  /\ ptr' = [ptr EXCEPT ![h] = Nobody]
  /\ Done(h)
  /\ UNCHANGED <<session, voice, mutex, mine, replies>>

-----------------------------------------------------------------------------
(***************************************************************************)
(* PlayAudioThread.                                                        *)
(***************************************************************************)
AudioGoto(a, label) == Goto(a, label) /\ UNCHANGED ptr
\* Back to where the pointer is not used before it is looked up again.
AudioDrop(a, label) == Goto(a, label) /\ ptr' = [ptr EXCEPT ![a] = Nobody]

\* What a read of guildInfo->shouldStop may return: anything once it is freed.
StopRead(a) == IF ptr[a] = info THEN {stop} ELSE BOOLEAN

\* Look the session up under the lock: leave the loop, or keep its address.
AudioTop(a) ==
  /\ pc[a] = "top" /\ Unlocked
  /\ \/ /\ info = Nobody \/ stop
        /\ AudioDrop(a, "exited")
     \/ /\ info # Nobody /\ ~stop
        /\ ptr' = [ptr EXCEPT ![a] = info]
        /\ Goto(a, "lookup")
  /\ UNCHANGED <<session, voice, mutex, op, mine, replies>>

\* Voice not usable: maybe connect_voice to the last channel, sleep, start over.
AudioLookup(a) ==
  /\ pc[a] = "lookup"
  /\ \/ /\ voice = "ready"
        /\ AudioGoto(a, "pick") /\ UNCHANGED voice
     \/ /\ voice # "ready"
        /\ voice' \in {voice, "opening"}
        /\ AudioDrop(a, "top")
  /\ UNCHANGED <<session, mutex, op, mine, replies>>

\* Check again under the lock and take the next song, if there is one.
AudioPick(a) ==
  /\ pc[a] = "pick" /\ Unlocked
  /\ \/ /\ info = Nobody \/ stop
        /\ AudioDrop(a, "exited")
     \/ /\ info # Nobody /\ ~stop
        /\ \/ ptr' = [ptr EXCEPT ![a] = info] /\ Goto(a, "playing")
           \/ AudioDrop(a, "silence")
  /\ UNCHANGED <<session, voice, mutex, op, mine, replies>>

\* Bug: the frame loop does not look at shouldStop.
AudioFrameNoStop(a) ==
  /\ pc[a] = "playing"
  /\ \/ AudioGoto(a, "finish")
     \/ AudioGoto(a, "send")
  /\ UNCHANGED <<session, voice, mutex, op, mine, replies>>

\* Top of the frame loop: stop, one more frame, or the song is over (skip, end of
\* file, a file that cannot be opened).
AudioFrame(a) ==
  /\ pc[a] = "playing"
  /\ \E stopped \in StopRead(a) :
       \/ AudioGoto(a, "finish")
       \/ ~stopped /\ AudioGoto(a, "send")
  /\ UNCHANGED <<session, voice, mutex, op, mine, replies>>

\* The loop that waits to send the frame ends: stopped, skipped or sent, or given
\* up (exception, or 20s without a usable connection).  Waiting 50ms is a stutter.
AudioSend(a) ==
  /\ pc[a] = "send"
  /\ AudioGoto(a, "playing") \/ AudioGoto(a, "finish")
  /\ UNCHANGED <<session, voice, mutex, op, mine, replies>>

\* Close the file; a song that ended by itself may be repeated.
AudioFinish(a) ==
  /\ pc[a] = "finish"
  /\ \/ AudioDrop(a, "clear")
     \/ AudioDrop(a, "top")
  /\ UNCHANGED <<session, voice, mutex, op, mine, replies>>

\* Reset currentPlay under the lock, if the session is still there.
AudioClear(a) ==
  /\ pc[a] = "clear" /\ Unlocked
  /\ AudioDrop(a, "top")
  /\ UNCHANGED <<session, voice, mutex, op, mine, replies>>

\* Nothing to play: send silence, sleep, start over.
AudioSilence(a) ==
  /\ pc[a] = "silence"
  /\ AudioDrop(a, "top")
  /\ UNCHANGED <<session, voice, mutex, op, mine, replies>>

-----------------------------------------------------------------------------
(***************************************************************************)
(* dpp: a connection becomes usable, drops and is retried, or is closed.   *)
(***************************************************************************)
VoiceUp == /\ voice = "opening" /\ voice' = "ready"
           /\ UNCHANGED <<session, mutex, pc, op, mine, ptr, replies>>
VoiceDown == /\ \/ voice = "ready" /\ voice' = "opening"
                \/ voice = "opening" /\ voice' = "absent"
             /\ UNCHANGED <<session, mutex, pc, op, mine, ptr, replies>>

JoinStep(h) == \/ JoinCheck(h) \/ JoinExisting(h) \/ JoinHangUp(h)
               \/ JoinEraseOld(h) \/ JoinEraseOldDone(h) \/ JoinDisconnect(h)
               \/ JoinConnect(h) \/ JoinLookup(h) \/ JoinEmplace(h)
               \/ JoinEmplaceDone(h) \/ StartAudioThread(h)
LeaveStep(w) == \/ StopAudioThread(w) \/ StopJoin(w) \/ LeaveMark(w)
                \/ LeaveDisconnect(w) \/ LeaveErase(w) \/ LeaveEraseDone(w)
RequestStep(h) == \/ NeedJoin(h) \/ RequestServer(h) \/ Enqueue(h) \/ StartIfNeeded(h)
                  \/ SendListMessage(h) \/ RemoveFind(h) \/ RemoveAt(h)
AudioStep(a) == \/ AudioTop(a) \/ AudioLookup(a) \/ AudioPick(a) \/ AudioFrame(a)
                \/ AudioSend(a) \/ AudioFinish(a) \/ AudioClear(a) \/ AudioSilence(a)

Next ==
  \/ \E h \in Handlers : \/ \E c \in Commands : HandleCommand(h, c)
                         \/ \E k \in ReplyKinds : Reply(h, k)
                         \/ JoinStep(h) \/ RequestStep(h)
  \/ \E w \in Workers : LeaveStep(w)
  \/ \E l \in Leavers : AutoLeave(l)
  \/ \E a \in AudioThreads : AudioStep(a)
  \/ VoiceUp \/ VoiceDown

Spec == Init /\ [][Next]_vars

(***************************************************************************)
(* The discipline under which the code keeps its own rules: the session    *)
(* commands of a guild and the automatic leave do not overlap.  Nothing in *)
(* the code enforces it; everything else may still interleave with them.   *)
(***************************************************************************)
OneTeardown == \A w1, w2 \in Workers : Teardown(w1) /\ Teardown(w2) => w1 = w2

SerialNext == Next /\ OneTeardown'
SerialSpec == Init /\ [][SerialNext]_vars

(***************************************************************************)
(* Threads that have started keep running; which command comes next is the *)
(* users' choice, and neither dpp's connection nor a reply is promised.    *)
(***************************************************************************)
Fairness ==
  /\ \A h \in Handlers : WF_vars(SerialNext /\ (JoinStep(h) \/ RequestStep(h)))
  /\ \A w \in Workers : WF_vars(SerialNext /\ LeaveStep(w))
  /\ \A a \in AudioThreads : WF_vars(SerialNext /\ AudioStep(a))

FairSerialSpec == SerialSpec /\ Fairness

-----------------------------------------------------------------------------
(***************************************************************************)
(* Properties that hold whatever the threads do.                           *)
(***************************************************************************)
\* The GuildInfo owns audio thread a, or a StopAudioThread has taken it over.
Owned(a) == handle = a
Taken(a) == \E w \in Workers : mine[w] = a

\* Every audio thread that was started and not yet joined has exactly one owner,
\* the GuildInfo or one StopAudioThread, and no other thread has any.  Otherwise
\* a std::thread would be joined twice, or destroyed while joinable, which ends
\* the process: the hand-over of audioThread in StopAudioThread, the destructor
\* and StartAudioThread together must never lose or duplicate it.
HandleOwnership ==
  \A a \in AudioThreads :
    /\ pc[a] # "none" <=> Owned(a) \/ Taken(a)
    /\ ~(Owned(a) /\ Taken(a))
    /\ \A v, w \in Workers : mine[v] = a /\ mine[w] = a => v = w

-----------------------------------------------------------------------------
(***************************************************************************)
(* Properties of serial teardowns.                                         *)
(***************************************************************************)
\* PlayAudioThread reads shouldStop, skipRequested, repeatCurrent and the ids
\* through a raw GuildInfo pointer without the lock: that object must be alive.
NoDanglingInfo == \A a \in AudioThreads : pc[a] \in DerefPCs => ptr[a] = info

\* At most one audio thread per guild.
OneAudioThread == \A a, b \in AudioThreads : Running(a) /\ Running(b) => a = b

\* The abstract session.
Thread ==
  IF \E a \in AudioThreads : Running(a) THEN "running"
  ELSE IF \E a \in AudioThreads : pc[a] = "exited" THEN "ended" ELSE "none"

Life == INSTANCE Session WITH alive <- info # Nobody, thread <- Thread

\* Every step of the threads is a step of the abstract session, or none: a thread is
\* started only where there is none, ends only when it was told to, and is joined before
\* its session goes.
ImplementsSession == Life!Spec

\* A thread about to close or replace the voice connection has stopped the audio
\* thread, which otherwise keeps using the voice client.
StopBeforeDisconnect ==
  \A w \in Workers :
    pc[w] \in {"hangup", "disconnect", "leaveDisconnect"} => \A a \in AudioThreads : ~Running(a)

\* ~GuildInfo never joins a thread while guildInfosMutex is held: the thread it
\* waits for needs that lock to leave its loop.
NoJoinUnderLock == \A w \in Workers : pc[w] \notin WaitPCs

\* Every leave ends: the audio thread it waits for sees the stop in each of its
\* loops, and the mutex is free again.
LeaveEnds ==
  \A w \in Workers : (op[w] = "leave" /\ Teardown(w)) ~> pc[w] = "idle"

-----------------------------------------------------------------------------
(***************************************************************************)
(* What the documentation says, refuted by runs of their own.              *)
(***************************************************************************)
\* A callback of RequestServer holds guildInfosMutex only briefly and does not
\* block under it (FileLoader.h:25).
CallbackNeverBlocks == \A h \in Handlers : pc[h] # "selfLock"

\* LeaveVoice may block in a join, so it is not called on a dpp event thread
\* (DiscordBotClient.h:104).
LeaveOffEventThread == \A h \in Handlers : ~(op[h] = "leave" /\ pc[h] = "stopJoin" /\ mine[h] # Nobody)

\* A GuildInfo is protected by guildInfosMutex (DESIGN.md:60): the one whose list
\* HandleRemoveCommand edits has not been freed since it was found.
RemoveOnLiveInfo == \A h \in Handlers : pc[h] = "removeAt" => ptr[h] = info
=============================================================================
