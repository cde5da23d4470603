---------------------------- MODULE VoiceTracking ----------------------------
(***************************************************************************)
(* Automatic leave: the bot's own record of who is in the voice channels   *)
(* of a guild, kept from voice state events and one snapshot per session,  *)
(* and the timer that leaves when the bot has been alone for a while.      *)
(*                                                                         *)
(* voiceOccupancy and seededVoiceGuilds are under voiceMutex, the session  *)
(* under guildInfosMutex; the two are never held together, so the timer    *)
(* runs in steps that everything else may come between.  Joins and leaves  *)
(* of the guild are serial, as in GuildSession!SerialSpec.                 *)
(*                                                                         *)
(* dpp changes its cache when a voice state arrives and calls the handler  *)
(* afterwards, in order.  Time is counted in timer periods.                *)
(***************************************************************************)
EXTENDS Naturals, Sequences, FiniteSets

CONSTANTS Humans, Bots, Me,   \* users: people, other bots, this bot
          Uncached,           \* bots that dpp::find_user does not know
          Channels, Away,     \* voice channels, and being in none
          Access,             \* the channels that a user is permitted to enter
          Grace,              \* EMPTY_CHANNEL_GRACE in timer periods
          MaxEvents,          \* bound: voice states whose handler has not run
          MaxLeavers          \* bound: leave threads that have not begun

Users == Humans \cup Bots \cup {Me}
Places == Channels \cup {Away}

ASSUME TrackingAssumption ==
  /\ Humans \cap Bots = {} /\ Me \notin Humans \cup Bots
  /\ Away \notin Channels
  /\ Uncached \subseteq Bots /\ Access \in [Users -> SUBSET Channels]
  /\ Grace \in Nat \ {0} /\ MaxEvents \in Nat /\ MaxLeavers \in Nat

VARIABLES
  cache,         \* dpp's guild->voice_members: where everyone is
  events,        \* voice states whose handler has not run yet, in order
  occupancy,     \* voiceOccupancy: where everyone is believed to be, Away if no entry
  seeded,        \* the guild is in seededVoiceGuilds
  alive,         \* the guild has a GuildInfo
  leavePending,  \* its leavePending
  tracking,      \* its emptyTracking
  age,           \* timer periods since its emptySince
  timer,         \* where CheckVoiceChannels is
  snapshot,      \* the entries EnsureVoiceSeeded copied
  obs,           \* what ObserveVoice returned
  worker,        \* where the running join or leave is
  leavers,       \* detached leave threads that have not begun
  stayed,        \* history: people with the bot ever since the timer's run began
  quiet,         \* history: runs in a row that nobody spent with the bot
  torn           \* history: the record was forgotten between the copy it is filled from
                 \* and the merge

session == <<alive, leavePending, tracking, age>>
belief == <<occupancy, seeded>>
history == <<stayed, quiet, torn>>
vars == <<cache, events, occupancy, seeded, alive, leavePending, tracking, age, timer,
          snapshot, obs, worker, leavers, stayed, quiet, torn>>

IsBot(u) == u \in Bots \ Uncached
WithMe(h) == cache[Me] # Away /\ cache[h] = cache[Me]
Unheard(u) == \A i \in DOMAIN events : events[i].user # u
Nowhere == [u \in Users |-> Away]

TypeOK ==
  /\ cache \in [Users -> Places] /\ occupancy \in [Users -> Places]
  /\ snapshot \in [Users -> Places]
  /\ events \in Seq([user : Users, channel : Places]) /\ Len(events) <= MaxEvents
  /\ seeded \in BOOLEAN /\ alive \in BOOLEAN /\ leavePending \in BOOLEAN
  /\ tracking \in BOOLEAN /\ age \in 0..(Grace - 1)
  /\ timer \in {"idle", "ensure", "merge", "observe", "decide"}
  /\ obs \in {"unknown", "absent", "company", "empty"}
  /\ worker \in {"idle", "joinReset", "joinEmplace", "leaveErase", "leaveReset"}
  /\ leavers \in 0..MaxLeavers /\ stayed \subseteq Humans /\ quiet \in 0..(Grace + 1)
  /\ torn \in BOOLEAN

Init ==
  /\ cache = Nowhere /\ events = <<>> /\ occupancy = Nowhere /\ seeded = FALSE
  /\ alive = FALSE /\ leavePending = FALSE /\ tracking = FALSE /\ age = 0
  /\ timer = "idle" /\ snapshot = Nowhere /\ obs = "unknown"
  /\ worker = "idle" /\ leavers = 0 /\ stayed = {} /\ quiet = 0 /\ torn = FALSE

-----------------------------------------------------------------------------
(***************************************************************************)
(* Voice states.                                                           *)
(***************************************************************************)
\* Somebody enters, changes or leaves a channel; the cache knows at once.
VoiceState(u, c) ==
  /\ cache[u] # c /\ c \in Access[u] \cup {Away} /\ Len(events) < MaxEvents
  /\ cache' = [cache EXCEPT ![u] = c]
  /\ events' = Append(events, [user |-> u, channel |-> c])
  /\ stayed' = {h \in stayed : cache'[Me] # Away /\ cache'[h] = cache'[Me]}
  /\ UNCHANGED <<belief, session, timer, snapshot, obs, worker, leavers, quiet,
                 torn>>

OnVoiceStateUpdate ==
  /\ events # <<>>
  /\ events' = Tail(events)
  /\ occupancy' = [occupancy EXCEPT ![Head(events).user] = Head(events).channel]
  /\ UNCHANGED <<cache, seeded, session, timer, snapshot, obs, worker, leavers, history>>

-----------------------------------------------------------------------------
(***************************************************************************)
(* CheckVoiceChannels, one run of the timer.                               *)
(***************************************************************************)
\* The guild is a target if it has a session that is not leaving.  Those are with the
\* bot as far as the code can know whose voice states have all been handled, and the
\* bot's own.
TimerFires ==
  /\ timer = "idle"
  /\ alive /\ ~leavePending
  /\ timer' = "ensure"
  /\ stayed' = {h \in Humans : WithMe(h) /\ Unheard(h) /\ Unheard(Me)}
  /\ UNCHANGED <<cache, events, belief, session, snapshot, obs, worker, leavers, quiet, torn>>

\* EnsureVoiceSeeded: the guild is seeded, or dpp::find_guild does not know it yet; or
NothingToSeed ==
  /\ timer = "ensure"
  /\ timer' = "observe"
  /\ UNCHANGED <<cache, events, belief, session, snapshot, obs, worker, leavers, history>>

\* its voice_members are copied ...
CopyVoiceMembers ==
  /\ timer = "ensure" /\ ~seeded
  /\ timer' = "merge" /\ snapshot' = cache
  /\ UNCHANGED <<cache, events, belief, session, obs, worker, leavers, history>>

\* Bug: the copy replaces what events wrote meanwhile (insert_or_assign, not emplace).
MergeOverwrites ==
  /\ timer = "merge"
  /\ occupancy' = [u \in Users |-> IF snapshot[u] # Away THEN snapshot[u] ELSE occupancy[u]]
  /\ seeded' = TRUE /\ timer' = "observe" /\ snapshot' = Nowhere
  /\ UNCHANGED <<cache, events, session, obs, worker, leavers, history>>

\* ... that later fills the gaps of voiceOccupancy: emplace keeps what events wrote.
MergeSnapshot ==
  /\ timer = "merge"
  /\ occupancy' = [u \in Users |-> IF occupancy[u] = Away THEN snapshot[u] ELSE occupancy[u]]
  /\ seeded' = TRUE /\ timer' = "observe" /\ snapshot' = Nowhere
  /\ UNCHANGED <<cache, events, session, obs, worker, leavers, history>>

\* Bug: the bot counts itself.
BelievedHumansAndMe == {u \in Users : ~IsBot(u) /\ occupancy[u] = occupancy[Me]}

BelievedHumans == {u \in Users \ {Me} : ~IsBot(u) /\ occupancy[u] = occupancy[Me]}

ObserveVoice ==
  /\ timer = "observe"
  /\ obs' = IF ~seeded THEN "unknown"
            ELSE IF occupancy[Me] = Away THEN "absent"
            ELSE IF BelievedHumans # {} THEN "company" ELSE "empty"
  /\ timer' = "decide" /\ stayed' = {}
  /\ quiet' = IF stayed # {} /\ ~torn THEN 0
              ELSE IF quiet > Grace THEN quiet ELSE quiet + 1
  /\ UNCHANGED <<cache, events, belief, session, snapshot, worker, leavers, torn>>

\* Bug: company does not end the grace period.
NotYetKeepsTracking ==
  /\ timer = "decide"
  /\ ~(alive /\ ~leavePending /\ obs = "empty" /\ tracking /\ age + 1 >= Grace)
  /\ IF alive /\ ~leavePending /\ obs = "empty"
     THEN tracking' = TRUE /\ age' = IF tracking THEN age + 1 ELSE 0
     ELSE UNCHANGED <<tracking, age>>
  /\ timer' = "idle" /\ obs' = "unknown"
  /\ UNCHANGED <<cache, events, belief, alive, leavePending, snapshot, worker, leavers, history>>

\* Bug: one period too many is waited for (> instead of >=).
NotYetTooLong ==
  /\ timer = "decide"
  /\ alive /\ ~leavePending /\ obs = "empty" => ~tracking \/ age < Grace
  /\ tracking' = (IF alive /\ ~leavePending THEN obs = "empty" ELSE tracking)
  /\ age' = IF alive /\ ~leavePending /\ obs = "empty" /\ tracking THEN age + 1 ELSE 0
  /\ timer' = "idle" /\ obs' = "unknown"
  /\ UNCHANGED <<cache, events, belief, alive, leavePending, snapshot, worker, leavers, history>>

\* Gone or leaving already; not known to be alone; alone from now on.
NotYet ==
  /\ timer = "decide"
  /\ \/ /\ ~alive \/ leavePending
        /\ UNCHANGED <<tracking, age>>
     \/ /\ alive /\ ~leavePending /\ obs # "empty"
        /\ tracking' = FALSE /\ age' = 0
     \/ /\ alive /\ ~leavePending /\ obs = "empty" /\ ~tracking
        /\ tracking' = TRUE /\ age' = 0
     \/ /\ alive /\ ~leavePending /\ obs = "empty" /\ tracking /\ age + 1 < Grace
        /\ age' = age + 1 /\ UNCHANGED tracking
  /\ timer' = "idle" /\ obs' = "unknown"
  /\ UNCHANGED <<cache, events, belief, alive, leavePending, snapshot, worker, leavers, history>>

\* Alone for the whole grace period: mark the session, start a leave thread.
AutoLeave ==
  /\ timer = "decide"
  /\ alive /\ ~leavePending /\ obs = "empty" /\ tracking /\ age + 1 >= Grace
  /\ leavers < MaxLeavers
  /\ leavePending' = TRUE /\ leavers' = leavers + 1
  /\ timer' = "idle" /\ obs' = "unknown"
  /\ UNCHANGED <<cache, events, belief, alive, tracking, age, snapshot, worker, history>>

-----------------------------------------------------------------------------
(***************************************************************************)
(* Joins and leaves, as far as they touch the tracking.                    *)
(***************************************************************************)
Erase == alive' = FALSE /\ leavePending' = FALSE /\ tracking' = FALSE /\ age' = 0

\* HandleJoinCommand erases the old session, forgets the tracking, makes a session.
JoinErase ==
  /\ worker = "idle"
  /\ Erase /\ worker' = "joinReset"
  /\ UNCHANGED <<cache, events, belief, timer, snapshot, obs, leavers, history>>

\* Nothing undoes a copy of the cache that is already on its way.
ResetVoiceTracking == occupancy' = Nowhere /\ seeded' = FALSE /\ torn' = (timer = "merge")

JoinReset ==
  /\ worker = "joinReset"
  /\ ResetVoiceTracking /\ worker' = "joinEmplace"
  /\ UNCHANGED <<cache, events, session, timer, snapshot, obs, leavers, stayed, quiet>>

\* The connection may also fail, and then there is no session.
JoinEmplace ==
  /\ worker = "joinEmplace"
  /\ alive' \in BOOLEAN /\ worker' = "idle"
  /\ UNCHANGED <<cache, events, belief, leavePending, tracking, age, timer, snapshot, obs,
                 leavers, history>>

\* LeaveVoice, for !leave or on a thread the timer started.
HandleLeaveCommand ==
  /\ worker = "idle"
  /\ worker' = "leaveErase"
  /\ UNCHANGED <<cache, events, belief, session, timer, snapshot, obs, leavers, history>>

LeaveThread ==
  /\ worker = "idle" /\ leavers > 0
  /\ leavers' = leavers - 1 /\ worker' = "leaveErase"
  /\ UNCHANGED <<cache, events, belief, session, timer, snapshot, obs, history>>

LeaveErase ==
  /\ worker = "leaveErase"
  /\ Erase /\ worker' = "leaveReset"
  /\ UNCHANGED <<cache, events, belief, timer, snapshot, obs, leavers, history>>

LeaveReset ==
  /\ worker = "leaveReset"
  /\ ResetVoiceTracking /\ worker' = "idle"
  /\ UNCHANGED <<cache, events, session, timer, snapshot, obs, leavers, stayed, quiet>>

Next ==
  \/ \E u \in Users, c \in Places : VoiceState(u, c)
  \/ OnVoiceStateUpdate
  \/ TimerFires \/ NothingToSeed \/ CopyVoiceMembers \/ MergeSnapshot
  \/ ObserveVoice \/ NotYet \/ AutoLeave
  \/ JoinErase \/ JoinReset \/ JoinEmplace
  \/ HandleLeaveCommand \/ LeaveThread \/ LeaveErase \/ LeaveReset

Spec == Init /\ [][Next]_vars

(***************************************************************************)
(* The timer fires again and again, its run and the handlers go on, and so *)
(* do joins and leaves that have begun; a guild that is looked up again    *)
(* and again is some time in the cache.                                    *)
(***************************************************************************)
TimerRuns == NothingToSeed \/ CopyVoiceMembers \/ MergeSnapshot \/ ObserveVoice \/ NotYet \/ AutoLeave
WorkerRuns == JoinReset \/ JoinEmplace \/ LeaveThread \/ LeaveErase \/ LeaveReset

Fairness ==
  /\ WF_vars(TimerFires) /\ WF_vars(TimerRuns) /\ SF_vars(CopyVoiceMembers)
  /\ WF_vars(OnVoiceStateUpdate) /\ WF_vars(WorkerRuns)

FairSpec == Spec /\ Fairness

-----------------------------------------------------------------------------
(***************************************************************************)
(* Properties, whatever comes between the copy and the merge.              *)
(***************************************************************************)
\* Where user u will be believed to be when all waiting voice states are handled.
Final(u) ==
  LET mine == {i \in DOMAIN events : events[i].user = u}
  IN  IF mine = {} THEN occupancy[u]
      ELSE events[CHOOSE i \in mine : \A j \in mine : j <= i].channel

\* Once seeded, the record and the voice states still to be handled know everyone who
\* is in a channel, and in which: entries that events wrote between the copy and the
\* merge are not replaced by the older copy, and the copy fills the gaps.  Two things the
\* code does not ensure are left out: who is gone may still be recorded (BeliefConverges),
\* and a join or leave between copy and merge forgets the newer entries of a torn record.
NobodyMissed ==
  seeded /\ ~torn => \A u \in Users : cache[u] # Away => Final(u) = cache[u]

\* The bot leaves of itself only after a whole grace period, beginning and end
\* included, in which every run of the timer found it alone: nobody spent one of
\* those runs with it, however joins, moves and other leaves came in between.  A run
\* that looks at a torn record may miss somebody and does not count as spent with it.
NeverLeavesCompany == [][leavers' > leavers => quiet = Grace + 1]_vars

\* Nobody but bots that dpp knows is with the bot.
Alone == /\ alive /\ cache[Me] # Away
         /\ \A u \in Users \ {Me} : ~IsBot(u) => cache[u] # cache[Me]

\* What an event wrote is newer than the snapshot and is not overwritten
\* (DiscordBotClient.cpp:633), so that the record follows the channels.  It does not: a
\* departure is written by erasing an entry, and the merge puts the member back.
BeliefConverges == seeded => \A u \in Users : Final(u) = cache[u]

\* The bot does not stay alone in a channel for ever, unless its record of the channels
\* is wrong again and again.
LeavesWhenAlone == ~<>[](Alone /\ BeliefConverges)
=============================================================================
