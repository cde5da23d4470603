------------------------- MODULE VoiceTrackingProofs -------------------------
(***************************************************************************)
(* The record of the voice channels and the automatic leave, for any       *)
(* number of users, channels and voice states, and any grace period.       *)
(***************************************************************************)
EXTENDS VoiceTracking, SequenceTheorems, TLAPS

USE DEF session, belief, history

Event == [user : Users, channel : Places]

LEMMA Bounds == Grace \in Nat \ {0} /\ MaxEvents \in Nat /\ MaxLeavers \in Nat
BY TrackingAssumption

-----------------------------------------------------------------------------
(***************************************************************************)
(* Types.                                                                  *)
(***************************************************************************)
MapsTyped == /\ cache \in [Users -> Places] /\ occupancy \in [Users -> Places]
             /\ snapshot \in [Users -> Places]
EventsTyped == events \in Seq(Event) /\ Len(events) <= MaxEvents
FlagsTyped ==
  /\ seeded \in BOOLEAN /\ alive \in BOOLEAN /\ leavePending \in BOOLEAN /\ tracking \in BOOLEAN
  /\ stayed \subseteq Humans /\ torn \in BOOLEAN
LabelsTyped ==
  /\ timer \in {"idle", "ensure", "merge", "observe", "decide"}
  /\ obs \in {"unknown", "absent", "company", "empty"}
  /\ worker \in {"idle", "joinReset", "joinEmplace", "leaveErase", "leaveReset"}
CountsTyped == age \in 0..(Grace - 1) /\ leavers \in 0..MaxLeavers /\ quiet \in 0..(Grace + 1)

Typed == MapsTyped /\ EventsTyped /\ FlagsTyped /\ LabelsTyped /\ CountsTyped

LEMMA TypedIsOK == Typed <=> TypeOK
BY DEF Typed, TypeOK, MapsTyped, EventsTyped, FlagsTyped, LabelsTyped, CountsTyped, Event

LEMMA InitTyped == Init => Typed
<1> SUFFICES ASSUME Init PROVE Typed
  OBVIOUS
<1>1. MapsTyped
  BY DEF Init, MapsTyped, Nowhere, Places
<1>2. EventsTyped
  BY EmptySeq, Bounds DEF Init, EventsTyped
<1>3. FlagsTyped /\ LabelsTyped
  BY DEF Init, FlagsTyped, LabelsTyped
<1>4. CountsTyped
  BY Bounds DEF Init, CountsTyped
<1> QED
  BY <1>1, <1>2, <1>3, <1>4 DEF Typed

LEMMA EventsStep == EventsTyped /\ [Next]_vars => EventsTyped'
<1> SUFFICES ASSUME EventsTyped, [Next]_vars PROVE EventsTyped'
  OBVIOUS
<1>1. CASE UNCHANGED events
  BY <1>1 DEF EventsTyped
<1>2. ASSUME NEW u \in Users, NEW c \in Places, VoiceState(u, c) PROVE EventsTyped'
  <2>1. [user |-> u, channel |-> c] \in Event
    BY DEF Event
  <2>2. events' = Append(events, [user |-> u, channel |-> c]) /\ Len(events) < MaxEvents
    BY <1>2 DEF VoiceState
  <2>3. events' \in Seq(Event) /\ Len(events') = Len(events) + 1 /\ Len(events) \in Nat
    BY <2>1, <2>2, AppendProperties, LenProperties DEF EventsTyped
  <2> QED
    BY <2>2, <2>3, Bounds DEF EventsTyped
<1>3. ASSUME OnVoiceStateUpdate PROVE EventsTyped'
  <2>1. events # <<>> /\ events' = Tail(events)
    BY <1>3 DEF OnVoiceStateUpdate
  <2>2. events' \in Seq(Event) /\ Len(events') = Len(events) - 1 /\ Len(events) \in Nat
    BY <2>1, HeadTailProperties, LenProperties DEF EventsTyped
  <2> QED
    BY <2>2, Bounds DEF EventsTyped
<1>4. CASE TimerFires \/ NothingToSeed \/ CopyVoiceMembers \/ MergeSnapshot
           \/ ObserveVoice \/ NotYet \/ AutoLeave
  BY <1>1, <1>4 DEF TimerFires, NothingToSeed, CopyVoiceMembers, MergeSnapshot, ObserveVoice,
                    NotYet, AutoLeave
<1>5. CASE JoinErase \/ JoinReset \/ JoinEmplace \/ HandleLeaveCommand \/ LeaveThread
           \/ LeaveErase \/ LeaveReset
  BY <1>1, <1>5 DEF JoinErase, JoinReset, JoinEmplace, HandleLeaveCommand, LeaveThread,
                    LeaveErase, LeaveReset
<1> QED
  BY <1>1, <1>2, <1>3, <1>4, <1>5 DEF Next, vars

LEMMA MapsStep == MapsTyped /\ EventsTyped /\ [Next]_vars => MapsTyped'
<1> SUFFICES ASSUME MapsTyped, EventsTyped, [Next]_vars PROVE MapsTyped'
  OBVIOUS
<1>0. Nowhere \in [Users -> Places]
  BY DEF Nowhere, Places
<1>1. CASE UNCHANGED <<cache, occupancy, snapshot>>
  BY <1>1 DEF MapsTyped
<1>2. ASSUME NEW u \in Users, NEW c \in Places, VoiceState(u, c) PROVE MapsTyped'
  BY <1>2 DEF VoiceState, MapsTyped
<1>3. ASSUME OnVoiceStateUpdate PROVE MapsTyped'
  <2>1. Head(events) \in Event
    BY <1>3, HeadTailProperties DEF OnVoiceStateUpdate, EventsTyped
  <2>2. Head(events).user \in Users /\ Head(events).channel \in Places
    BY <2>1 DEF Event
  <2> QED
    BY <1>3, <2>2 DEF OnVoiceStateUpdate, MapsTyped
<1>4. CASE TimerFires \/ NothingToSeed \/ ObserveVoice \/ NotYet \/ AutoLeave
  BY <1>1, <1>4 DEF TimerFires, NothingToSeed, ObserveVoice, NotYet, AutoLeave
<1>5. CASE CopyVoiceMembers
  BY <1>5 DEF CopyVoiceMembers, MapsTyped
<1>6. CASE MergeSnapshot
  BY <1>0, <1>6 DEF MergeSnapshot, MapsTyped
<1>7. CASE JoinReset \/ LeaveReset
  BY <1>0, <1>7 DEF JoinReset, LeaveReset, ResetVoiceTracking, MapsTyped
<1>8. CASE JoinErase \/ JoinEmplace \/ HandleLeaveCommand \/ LeaveThread \/ LeaveErase
  BY <1>1, <1>8 DEF JoinErase, JoinEmplace, HandleLeaveCommand, LeaveThread, LeaveErase
<1> QED
  BY <1>1, <1>2, <1>3, <1>4, <1>5, <1>6, <1>7, <1>8 DEF Next, vars

LEMMA FlagsStep == FlagsTyped /\ [Next]_vars => FlagsTyped'
<1> SUFFICES ASSUME FlagsTyped, [Next]_vars PROVE FlagsTyped'
  OBVIOUS
<1> USE DEF FlagsTyped
<1>1. CASE UNCHANGED vars
  BY <1>1 DEF vars
<1>2. ASSUME NEW u \in Users, NEW c \in Places, VoiceState(u, c) PROVE FlagsTyped'
  BY <1>2 DEF VoiceState
<1>3. CASE OnVoiceStateUpdate \/ TimerFires \/ NothingToSeed \/ CopyVoiceMembers \/ MergeSnapshot
  BY <1>3 DEF OnVoiceStateUpdate, TimerFires, NothingToSeed, CopyVoiceMembers, MergeSnapshot
<1>4. CASE ObserveVoice \/ AutoLeave
  BY <1>4 DEF ObserveVoice, AutoLeave
<1>5. CASE NotYet
  BY <1>5 DEF NotYet
<1>6. CASE JoinErase \/ JoinReset \/ JoinEmplace
  BY <1>6 DEF JoinErase, JoinReset, JoinEmplace, Erase, ResetVoiceTracking
<1>7. CASE HandleLeaveCommand \/ LeaveThread \/ LeaveErase \/ LeaveReset
  BY <1>7 DEF HandleLeaveCommand, LeaveThread, LeaveErase, LeaveReset, Erase, ResetVoiceTracking
<1> QED
  BY <1>1, <1>2, <1>3, <1>4, <1>5, <1>6, <1>7 DEF Next

LEMMA LabelsStep == LabelsTyped /\ [Next]_vars => LabelsTyped'
<1> SUFFICES ASSUME LabelsTyped, [Next]_vars PROVE LabelsTyped'
  OBVIOUS
<1> USE DEF LabelsTyped
<1>1. CASE UNCHANGED vars
  BY <1>1 DEF vars
<1>2. ASSUME NEW u \in Users, NEW c \in Places, VoiceState(u, c) PROVE LabelsTyped'
  BY <1>2 DEF VoiceState
<1>3. CASE OnVoiceStateUpdate \/ TimerFires \/ NothingToSeed \/ CopyVoiceMembers \/ MergeSnapshot
  BY <1>3 DEF OnVoiceStateUpdate, TimerFires, NothingToSeed, CopyVoiceMembers, MergeSnapshot
<1>4. CASE ObserveVoice \/ NotYet \/ AutoLeave
  BY <1>4 DEF ObserveVoice, NotYet, AutoLeave
<1>5. CASE JoinErase \/ JoinReset \/ JoinEmplace \/ HandleLeaveCommand \/ LeaveThread
           \/ LeaveErase \/ LeaveReset
  BY <1>5 DEF JoinErase, JoinReset, JoinEmplace, HandleLeaveCommand, LeaveThread, LeaveErase,
              LeaveReset
<1> QED
  BY <1>1, <1>2, <1>3, <1>4, <1>5 DEF Next

LEMMA CountsStep == CountsTyped /\ [Next]_vars => CountsTyped'
<1> SUFFICES ASSUME CountsTyped, [Next]_vars PROVE CountsTyped'
  OBVIOUS
<1> USE Bounds DEF CountsTyped
<1>1. CASE UNCHANGED <<age, leavers, quiet>>
  BY <1>1
<1>2. ASSUME NEW u \in Users, NEW c \in Places, VoiceState(u, c) PROVE CountsTyped'
  BY <1>1, <1>2 DEF VoiceState
<1>3. CASE OnVoiceStateUpdate \/ TimerFires \/ NothingToSeed \/ CopyVoiceMembers \/ MergeSnapshot
           \/ JoinReset \/ JoinEmplace \/ HandleLeaveCommand \/ LeaveReset
  BY <1>1, <1>3 DEF OnVoiceStateUpdate, TimerFires, NothingToSeed, CopyVoiceMembers, MergeSnapshot,
                    JoinReset, JoinEmplace, HandleLeaveCommand, LeaveReset
<1>4. CASE ObserveVoice
  BY <1>4 DEF ObserveVoice
<1>5. CASE NotYet
  BY <1>5 DEF NotYet
<1>6. CASE AutoLeave
  BY <1>6 DEF AutoLeave
<1>7. CASE LeaveThread
  BY <1>7 DEF LeaveThread
<1>8. CASE JoinErase \/ LeaveErase
  BY <1>8 DEF JoinErase, LeaveErase, Erase
<1> QED
  BY <1>1, <1>2, <1>3, <1>4, <1>5, <1>6, <1>7, <1>8 DEF Next, vars

LEMMA TypedStep == Typed /\ [Next]_vars => Typed'
BY MapsStep, EventsStep, FlagsStep, LabelsStep, CountsStep DEF Typed

\* The tracking state keeps its types.
THEOREM TypeCorrect == Spec => []TypeOK
BY InitTyped, TypedStep, TypedIsOK, PTL DEF Spec

-----------------------------------------------------------------------------
(***************************************************************************)
(* The voice states of one user that wait, and the last of them.           *)
(***************************************************************************)
MineOf(ev, u) == {i \in DOMAIN ev : ev[i].user = u}
LastIs(ev, u, c) ==
  \E i \in MineOf(ev, u) : (\A j \in MineOf(ev, u) : j <= i) /\ ev[i].channel = c

LEMMA MineAppend ==
  ASSUME NEW ev \in Seq(Event), NEW u \in Users, NEW w \in Users, NEW c \in Places
  PROVE  LET after == Append(ev, [user |-> w, channel |-> c])
         IN  /\ u # w => MineOf(after, u) = MineOf(ev, u)
             /\ u # w => \A d : LastIs(ev, u, d) => LastIs(after, u, d)
             /\ u = w => LastIs(after, u, c)
<1> DEFINE e == [user |-> w, channel |-> c]
           after == Append(ev, e)
           n == Len(ev)
<1>1. e \in Event
  BY DEF Event
<1>2. /\ n \in Nat /\ DOMAIN ev = 1..n /\ DOMAIN after = 1..(n + 1)
      /\ after[n + 1] = e /\ \A i \in 1..n : after[i] = ev[i]
  BY <1>1, AppendProperties, LenProperties
<1>3. e.user = w /\ e.channel = c
  OBVIOUS
<1> HIDE DEF e, after, n
<1>4. ASSUME u # w PROVE MineOf(after, u) = MineOf(ev, u)
  BY <1>2, <1>3, <1>4 DEF MineOf
<1>5. ASSUME u # w, NEW d, LastIs(ev, u, d) PROVE LastIs(after, u, d)
  <2>1. PICK i \in MineOf(ev, u) : (\A j \in MineOf(ev, u) : j <= i) /\ ev[i].channel = d
    BY <1>5 DEF LastIs
  <2>2. after[i] = ev[i]
    BY <1>2, <2>1 DEF MineOf
  <2> QED
    BY <1>4, <1>5, <2>1, <2>2 DEF LastIs
<1>6. ASSUME u = w PROVE LastIs(after, u, c)
  <2>1. n + 1 \in MineOf(after, u)
    BY <1>2, <1>3, <1>6 DEF MineOf
  <2>2. \A j \in MineOf(after, u) : j <= n + 1
    BY <1>2 DEF MineOf
  <2> QED
    BY <1>2, <1>3, <2>1, <2>2 DEF LastIs
<1> QED
  BY <1>4, <1>5, <1>6 DEF after, e

LEMMA MineTail ==
  ASSUME NEW ev \in Seq(Event), ev # <<>>, NEW u \in Users
  PROVE  /\ MineOf(ev, u) = {} => MineOf(Tail(ev), u) = {} /\ Head(ev).user # u
         /\ \A c : LastIs(ev, u, c) =>
              \/ LastIs(Tail(ev), u, c)
              \/ MineOf(Tail(ev), u) = {} /\ Head(ev).user = u /\ Head(ev).channel = c
<1> DEFINE n == Len(ev)
           rest == Tail(ev)
<1>1. /\ n \in Nat /\ n >= 1 /\ DOMAIN ev = 1..n /\ DOMAIN rest = 1..(n - 1)
      /\ \A i \in 1..(n - 1) : rest[i] = ev[i + 1]
      /\ Head(ev) = ev[1]
  BY HeadTailProperties, LenProperties, EmptySeq
<1> HIDE DEF n, rest
<1>2. ASSUME MineOf(ev, u) = {} PROVE MineOf(rest, u) = {} /\ Head(ev).user # u
  <2>1. \A i \in 1..n : ev[i].user # u
    BY <1>1, <1>2 DEF MineOf
  <2>2. \A i \in 1..(n - 1) : i + 1 \in 1..n
    BY <1>1
  <2> QED
    BY <1>1, <2>1, <2>2 DEF MineOf
<1>3. ASSUME NEW c, LastIs(ev, u, c)
      PROVE  LastIs(rest, u, c) \/ (MineOf(rest, u) = {} /\ Head(ev).user = u /\ Head(ev).channel = c)
  <2>1. PICK i \in MineOf(ev, u) : (\A j \in MineOf(ev, u) : j <= i) /\ ev[i].channel = c
    BY <1>3 DEF LastIs
  <2>2. i \in 1..n /\ ev[i].user = u
    BY <1>1, <2>1 DEF MineOf
  <2>3. \A j \in MineOf(rest, u) : j \in 1..(n - 1) /\ j + 1 \in MineOf(ev, u)
    <3>1. \A j \in 1..(n - 1) : j + 1 \in 1..n
      BY <1>1
    <3> QED
      BY <1>1, <3>1 DEF MineOf
  <2>4. \A j \in MineOf(rest, u) : j <= i - 1
    BY <1>1, <2>1, <2>2, <2>3
  <2>5. CASE i = 1
    <3>1. \A j \in MineOf(rest, u) : FALSE
      BY <1>1, <2>3, <2>4, <2>5
    <3>2. MineOf(rest, u) = {}
      BY <3>1 DEF MineOf
    <3> QED
      BY <1>1, <2>1, <2>2, <2>5, <3>2
  <2>6. CASE i # 1
    <3>1. i - 1 \in 1..(n - 1) /\ (i - 1) + 1 = i
      BY <1>1, <2>2, <2>6
    <3>2. rest[i - 1] = ev[i]
      BY <1>1, <3>1
    <3>3. i - 1 \in MineOf(rest, u)
      BY <1>1, <2>2, <3>1, <3>2 DEF MineOf
    <3> QED
      BY <2>1, <2>4, <3>2, <3>3 DEF LastIs
  <2> QED
    BY <2>5, <2>6
<1> QED
  BY <1>2, <1>3 DEF rest

-----------------------------------------------------------------------------
(***************************************************************************)
(* What is known of a user who is in a channel: if voice states of theirs  *)
(* wait, the last one says where they are.  If none waits, voiceOccupancy  *)
(* says so; or it does not know yet, and the copy that will fill its gaps  *)
(* does, unless the record was forgotten under way.                        *)
(***************************************************************************)
Followed(u) == MineOf(events, u) = {} \/ LastIs(events, u, cache[u])
Recorded(u) ==
  ~torn /\ cache[u] # Away /\ MineOf(events, u) = {} =>
    /\ occupancy[u] = cache[u] \/ (~seeded /\ occupancy[u] = Away)
    /\ timer = "merge" /\ occupancy[u] = Away => snapshot[u] = cache[u]
AllFollowed == \A u \in Users : Followed(u)
AllRecorded == \A u \in Users : Recorded(u)

LEMMA RecordedIsKnown == EventsTyped /\ AllFollowed /\ AllRecorded => NobodyMissed
<1> SUFFICES ASSUME EventsTyped, AllFollowed, AllRecorded, seeded, ~torn,
                    NEW u \in Users, cache[u] # Away
             PROVE  Final(u) = cache[u]
  BY DEF NobodyMissed
<1>1. CASE MineOf(events, u) = {}
  BY <1>1 DEF AllRecorded, Recorded, Final, MineOf
<1>2. CASE LastIs(events, u, cache[u])
  <2> DEFINE mine == MineOf(events, u)
             last == CHOOSE i \in mine : \A j \in mine : j <= i
  <2>1. PICK i \in mine : (\A j \in mine : j <= i) /\ events[i].channel = cache[u]
    BY <1>2 DEF LastIs
  <2>2. last \in mine /\ \A j \in mine : j <= last
    BY <2>1
  <2>3. mine # {} /\ Final(u) = events[last].channel
    BY <2>1 DEF Final, MineOf
  <2>4. i \in DOMAIN events /\ last \in DOMAIN events /\ i <= last /\ last <= i
    BY <2>1, <2>2 DEF MineOf
  <2>5. DOMAIN events = 1..Len(events) /\ Len(events) \in Nat
    BY LenProperties DEF EventsTyped
  <2>6. i \in Int /\ last \in Int
    BY <2>4, <2>5
  <2> HIDE DEF last
  <2>7. last = i
    BY <2>4, <2>6
  <2> QED
    BY <2>1, <2>3, <2>7
<1> QED
  BY <1>1, <1>2 DEF AllFollowed, Followed

LEMMA InitKnown == Init => AllFollowed /\ AllRecorded
BY DEF Init, AllFollowed, AllRecorded, Followed, Recorded, MineOf, Nowhere

LEMMA FollowedStep == Typed /\ AllFollowed /\ [Next]_vars => AllFollowed'
<1> SUFFICES ASSUME Typed, AllFollowed, [Next]_vars, NEW u \in Users PROVE Followed(u)'
  BY DEF AllFollowed
<1>0. Followed(u) /\ events \in Seq(Event) /\ cache \in [Users -> Places]
  BY DEF AllFollowed, Typed, EventsTyped, MapsTyped
<1>1. CASE UNCHANGED <<cache, events>>
  BY <1>0, <1>1 DEF Followed, LastIs, MineOf
<1>2. ASSUME NEW w \in Users, NEW c \in Places, VoiceState(w, c) PROVE Followed(u)'
  <2>1. /\ events' = Append(events, [user |-> w, channel |-> c])
        /\ cache' = [cache EXCEPT ![w] = c]
    BY <1>2 DEF VoiceState
  <2>2. CASE u = w
    <3>1. LastIs(events', u, c)
      BY <1>0, <2>1, <2>2, MineAppend
    <3>2. cache'[u] = c
      BY <1>0, <2>1, <2>2
    <3> QED
      BY <3>1, <3>2 DEF Followed, LastIs, MineOf
  <2>3. CASE u # w
    <3>1. cache'[u] = cache[u]
      BY <1>0, <2>1, <2>3
    <3>2. MineOf(events', u) = MineOf(events, u)
      BY <1>0, <2>1, <2>3, MineAppend
    <3>3. LastIs(events, u, cache[u]) => LastIs(events', u, cache[u])
      BY <1>0, <2>1, <2>3, MineAppend
    <3> QED
      BY <1>0, <3>1, <3>2, <3>3 DEF Followed, LastIs, MineOf
  <2> QED
    BY <2>2, <2>3
<1>3. ASSUME OnVoiceStateUpdate PROVE Followed(u)'
  <2>1. events # <<>> /\ events' = Tail(events) /\ cache' = cache
    BY <1>3 DEF OnVoiceStateUpdate
  <2>2. MineOf(events', u) = {} \/ LastIs(events', u, cache[u])
    BY <1>0, <2>1, MineTail DEF Followed
  <2> QED
    BY <2>1, <2>2 DEF Followed, LastIs, MineOf
<1>4. CASE TimerFires \/ NothingToSeed \/ CopyVoiceMembers \/ MergeSnapshot \/ ObserveVoice
           \/ NotYet \/ AutoLeave
  BY <1>1, <1>4 DEF TimerFires, NothingToSeed, CopyVoiceMembers, MergeSnapshot, ObserveVoice,
                    NotYet, AutoLeave
<1>5. CASE JoinErase \/ JoinReset \/ JoinEmplace \/ HandleLeaveCommand \/ LeaveThread
           \/ LeaveErase \/ LeaveReset
  BY <1>1, <1>5 DEF JoinErase, JoinReset, JoinEmplace, HandleLeaveCommand, LeaveThread,
                    LeaveErase, LeaveReset
<1>6. CASE UNCHANGED vars
  BY <1>1, <1>6 DEF vars
<1> QED
  BY <1>2, <1>3, <1>4, <1>5, <1>6 DEF Next

LEMMA RecordedStep == Typed /\ AllFollowed /\ AllRecorded /\ [Next]_vars => AllRecorded'
<1> SUFFICES ASSUME Typed, AllFollowed, AllRecorded, [Next]_vars, NEW u \in Users
             PROVE  Recorded(u)'
  BY DEF AllRecorded
<1>0. /\ Followed(u) /\ Recorded(u) /\ events \in Seq(Event)
      /\ cache \in [Users -> Places] /\ occupancy \in [Users -> Places]
  BY DEF AllFollowed, AllRecorded, Typed, EventsTyped, MapsTyped
<1>1. CASE /\ UNCHANGED <<cache, events, occupancy, seeded, snapshot, torn>>
           /\ timer' = timer \/ timer' # "merge"
  BY <1>0, <1>1 DEF Recorded, MineOf
<1>2. ASSUME NEW w \in Users, NEW c \in Places, VoiceState(w, c) PROVE Recorded(u)'
  <2>1. /\ events' = Append(events, [user |-> w, channel |-> c])
        /\ cache' = [cache EXCEPT ![w] = c]
        /\ UNCHANGED <<occupancy, seeded, timer, snapshot, torn>>
    BY <1>2 DEF VoiceState
  <2>2. CASE u = w
    <3>1. LastIs(events', u, c)
      BY <1>0, <2>1, <2>2, MineAppend
    <3>2. MineOf(events', u) # {}
      BY <3>1 DEF LastIs
    <3> QED
      BY <3>2 DEF Recorded, MineOf
  <2>3. CASE u # w
    <3>1. cache'[u] = cache[u]
      BY <1>0, <2>1, <2>3
    <3>2. MineOf(events', u) = MineOf(events, u)
      BY <1>0, <2>1, <2>3, MineAppend
    <3> QED
      BY <1>0, <2>1, <3>1, <3>2 DEF Recorded, MineOf
  <2> QED
    BY <2>2, <2>3
<1>3. ASSUME OnVoiceStateUpdate PROVE Recorded(u)'
  <2> DEFINE who == Head(events).user
             where == Head(events).channel
  <2>1. /\ events # <<>> /\ events' = Tail(events)
        /\ occupancy' = [occupancy EXCEPT ![who] = where]
        /\ UNCHANGED <<cache, seeded, timer, snapshot, torn>>
    BY <1>3 DEF OnVoiceStateUpdate
  <2>2. CASE MineOf(events, u) = {}
    <3>1. MineOf(events', u) = {} /\ who # u
      BY <1>0, <2>1, <2>2, MineTail
    <3>2. occupancy'[u] = occupancy[u]
      BY <1>0, <2>1, <3>1
    <3> QED
      BY <1>0, <2>1, <2>2, <3>2 DEF Recorded, MineOf
  <2>3. CASE LastIs(events, u, cache[u])
    <3>1. \/ LastIs(events', u, cache[u])
          \/ MineOf(events', u) = {} /\ who = u /\ where = cache[u]
      BY <1>0, <2>1, <2>3, MineTail
    <3>2. CASE LastIs(events', u, cache[u])
      <4>1. MineOf(events', u) # {}
        BY <3>2 DEF LastIs
      <4> QED
        BY <4>1 DEF Recorded, MineOf
    <3>3. CASE MineOf(events', u) = {} /\ who = u /\ where = cache[u]
      <4>1. occupancy'[u] = cache'[u]
        BY <1>0, <2>1, <3>3
      <4> QED
        BY <4>1 DEF Recorded, MineOf
    <3> QED
      BY <3>1, <3>2, <3>3
  <2> QED
    BY <1>0, <2>2, <2>3 DEF Followed
<1>4. ASSUME CopyVoiceMembers PROVE Recorded(u)'
  <2>1. snapshot' = cache /\ UNCHANGED <<cache, events, occupancy, seeded, torn>>
    BY <1>4 DEF CopyVoiceMembers
  <2> QED
    BY <1>0, <2>1 DEF Recorded, MineOf
<1>5. ASSUME MergeSnapshot PROVE Recorded(u)'
  <2>1. /\ timer = "merge" /\ timer' = "observe" /\ UNCHANGED <<cache, events, torn>>
        /\ occupancy' = [v \in Users |-> IF occupancy[v] = Away THEN snapshot[v] ELSE occupancy[v]]
    BY <1>5 DEF MergeSnapshot
  <2>2. occupancy'[u] = IF occupancy[u] = Away THEN snapshot[u] ELSE occupancy[u]
    BY <2>1
  <2> QED
    BY <1>0, <2>1, <2>2 DEF Recorded, MineOf
<1>6. ASSUME JoinReset \/ LeaveReset PROVE Recorded(u)'
  <2>1. /\ timer' = timer /\ torn' = (timer = "merge")
        /\ occupancy' = Nowhere /\ seeded' = FALSE
    BY <1>6 DEF JoinReset, LeaveReset, ResetVoiceTracking
  <2>2. occupancy'[u] = Away
    BY <2>1 DEF Nowhere
  <2> QED
    BY <2>1, <2>2 DEF Recorded, MineOf
<1>7. CASE TimerFires \/ NothingToSeed \/ ObserveVoice \/ NotYet \/ AutoLeave
  BY <1>1, <1>7 DEF TimerFires, NothingToSeed, ObserveVoice, NotYet, AutoLeave
<1>8. CASE JoinErase \/ JoinEmplace \/ HandleLeaveCommand \/ LeaveThread \/ LeaveErase
  BY <1>1, <1>8 DEF JoinErase, JoinEmplace, HandleLeaveCommand, LeaveThread, LeaveErase
<1>9. CASE UNCHANGED vars
  BY <1>1, <1>9 DEF vars
<1> QED
  BY <1>2, <1>3, <1>4, <1>5, <1>6, <1>7, <1>8, <1>9 DEF Next

\* For any number of users, channels and waiting voice states, and whatever is handled
\* between the copy and the merge: nobody in a channel is missing from the record of a
\* seeded guild, or recorded elsewhere, unless the record was forgotten between the two.
THEOREM NobodyIsMissed == Spec => []NobodyMissed
<1>1. Typed /\ AllFollowed /\ AllRecorded => NobodyMissed
  BY RecordedIsKnown DEF Typed
<1> QED
  BY <1>1, InitTyped, TypedStep, InitKnown, FollowedStep, RecordedStep, PTL DEF Spec

-----------------------------------------------------------------------------
(***************************************************************************)
(* Leaving only when alone.  Nothing is in doubt about the people who were *)
(* with the bot during the whole run so far: neither they nor the bot have *)
(* a voice state that waits.  So the run observes company if there is any, *)
(* and the grace period is never longer than the runs in a row without it. *)
(***************************************************************************)
Together ==
  \A h \in stayed :
    /\ MineOf(events, h) = {} /\ MineOf(events, Me) = {}
    /\ cache[Me] # Away /\ cache[h] = cache[Me]

Owned ==
  /\ leavePending => timer = "idle"
  /\ ~alive => ~tracking
  /\ worker \in {"joinReset", "joinEmplace"} => ~alive

Waited ==
  /\ timer # "decide" /\ tracking => quiet >= age + 1
  /\ timer = "decide" /\ obs = "empty" => quiet >= 1 /\ (tracking => quiet >= age + 2)

LEMMA UsersDistinct ==
  Me \in Users /\ Humans \subseteq Users /\ \A h \in Humans : h # Me /\ ~IsBot(h)
BY TrackingAssumption DEF Users, IsBot

LEMMA TogetherStep == Typed /\ Together /\ [Next]_vars => Together'
<1> SUFFICES ASSUME Typed, Together, [Next]_vars, NEW h \in stayed' PROVE
        /\ MineOf(events', h) = {} /\ MineOf(events', Me) = {}
        /\ cache'[Me] # Away /\ cache'[h] = cache'[Me]
  BY DEF Together, MineOf
<1>1. CASE UNCHANGED <<cache, events, stayed>>
  BY <1>1 DEF Together
<1>2. ASSUME NEW w \in Users, NEW c \in Places, VoiceState(w, c) PROVE
        /\ MineOf(events', h) = {} /\ MineOf(events', Me) = {}
        /\ cache'[Me] # Away /\ cache'[h] = cache'[Me]
  <2>1. /\ events' = Append(events, [user |-> w, channel |-> c])
        /\ cache' = [cache EXCEPT ![w] = c] /\ cache[w] # c
        /\ stayed' = {k \in stayed : cache'[Me] # Away /\ cache'[k] = cache'[Me]}
    BY <1>2 DEF VoiceState
  <2>2. events \in Seq(Event) /\ cache \in [Users -> Places] /\ h \in stayed /\ h \in Users
        /\ Me \in Users /\ h # Me
    BY <2>1, UsersDistinct DEF Typed, EventsTyped, MapsTyped, FlagsTyped
  <2>3. /\ MineOf(events, h) = {} /\ MineOf(events, Me) = {} /\ cache[h] = cache[Me]
        /\ cache'[Me] # Away /\ cache'[h] = cache'[Me]
    BY <2>1, <2>2 DEF Together
  <2>4. w # h /\ w # Me
    BY <2>1, <2>2, <2>3
  <2>5. MineOf(events', h) = MineOf(events, h) /\ MineOf(events', Me) = MineOf(events, Me)
    BY <2>1, <2>2, <2>4, MineAppend
  <2> QED
    BY <2>3, <2>5
<1>3. ASSUME OnVoiceStateUpdate PROVE
        /\ MineOf(events', h) = {} /\ MineOf(events', Me) = {}
        /\ cache'[Me] # Away /\ cache'[h] = cache'[Me]
  <2>1. events # <<>> /\ events' = Tail(events) /\ UNCHANGED <<cache, stayed>>
    BY <1>3 DEF OnVoiceStateUpdate
  <2>2. events \in Seq(Event) /\ h \in Users /\ Me \in Users
    BY <2>1, UsersDistinct DEF Typed, EventsTyped, FlagsTyped
  <2>3. MineOf(events, h) = {} /\ MineOf(events, Me) = {}
    BY <2>1 DEF Together
  <2>4. MineOf(events', h) = {} /\ MineOf(events', Me) = {}
    BY <2>1, <2>2, <2>3, MineTail
  <2> QED
    BY <2>1, <2>4 DEF Together
<1>4. ASSUME TimerFires PROVE
        /\ MineOf(events', h) = {} /\ MineOf(events', Me) = {}
        /\ cache'[Me] # Away /\ cache'[h] = cache'[Me]
  <2>1. UNCHANGED <<events, cache>> /\ WithMe(h) /\ Unheard(h) /\ Unheard(Me)
    BY <1>4 DEF TimerFires
  <2> QED
    BY <2>1 DEF MineOf, WithMe, Unheard
<1>5. CASE ObserveVoice
  BY <1>5 DEF ObserveVoice
<1>6. CASE NothingToSeed \/ CopyVoiceMembers \/ MergeSnapshot \/ NotYet \/ AutoLeave
  BY <1>1, <1>6 DEF NothingToSeed, CopyVoiceMembers, MergeSnapshot, NotYet, AutoLeave
<1>7. CASE JoinErase \/ JoinReset \/ JoinEmplace \/ HandleLeaveCommand \/ LeaveThread
           \/ LeaveErase \/ LeaveReset
  BY <1>1, <1>7 DEF JoinErase, JoinReset, JoinEmplace, HandleLeaveCommand, LeaveThread,
                    LeaveErase, LeaveReset
<1>8. CASE UNCHANGED vars
  BY <1>1, <1>8 DEF vars
<1> QED
  BY <1>2, <1>3, <1>4, <1>5, <1>6, <1>7, <1>8 DEF Next

LEMMA OwnedStep == Typed /\ Owned /\ [Next]_vars => Owned'
<1> SUFFICES ASSUME Typed, Owned, [Next]_vars PROVE Owned'
  OBVIOUS
<1> USE DEF Typed, FlagsTyped, LabelsTyped, Owned
<1>1. CASE UNCHANGED <<alive, leavePending, tracking, timer, worker>>
  BY <1>1
<1>2. ASSUME NEW u \in Users, NEW c \in Places, VoiceState(u, c) PROVE Owned'
  BY <1>1, <1>2 DEF VoiceState
<1>3. CASE OnVoiceStateUpdate
  BY <1>1, <1>3 DEF OnVoiceStateUpdate
<1>4. CASE TimerFires \/ NothingToSeed \/ CopyVoiceMembers \/ MergeSnapshot \/ ObserveVoice
  BY <1>4 DEF TimerFires, NothingToSeed, CopyVoiceMembers, MergeSnapshot, ObserveVoice
<1>5. CASE NotYet
  BY <1>5 DEF NotYet
<1>6. CASE AutoLeave
  BY <1>6 DEF AutoLeave
<1>7. CASE JoinErase \/ LeaveErase
  BY <1>7 DEF JoinErase, LeaveErase, Erase
<1>8. CASE JoinReset \/ JoinEmplace \/ HandleLeaveCommand \/ LeaveThread \/ LeaveReset
  BY <1>8 DEF JoinReset, JoinEmplace, HandleLeaveCommand, LeaveThread, LeaveReset
<1> QED
  BY <1>1, <1>2, <1>3, <1>4, <1>5, <1>6, <1>7, <1>8 DEF Next, vars

\* A run that somebody spent with the bot does not find it alone, if its record is whole.
LEMMA CompanyIsSeen ==
  ASSUME Typed, AllRecorded, Together, ObserveVoice, stayed # {}, ~torn
  PROVE  obs' # "empty"
<1>1. PICK h : h \in stayed
  OBVIOUS
<1>2. h \in Users /\ h # Me /\ ~IsBot(h) /\ Me \in Users
  BY <1>1, UsersDistinct DEF Typed, FlagsTyped
<1>3. MineOf(events, h) = {} /\ MineOf(events, Me) = {} /\ cache[Me] # Away /\ cache[h] = cache[Me]
  BY <1>1 DEF Together
<1>4. CASE ~seeded
  BY <1>4 DEF ObserveVoice
<1>5. CASE seeded
  <2>1. occupancy[h] = cache[h] /\ occupancy[Me] = cache[Me]
    BY <1>2, <1>3, <1>5 DEF AllRecorded, Recorded
  <2>2. h \in BelievedHumans
    BY <1>2, <1>3, <2>1 DEF BelievedHumans
  <2> QED
    BY <1>5, <2>2 DEF ObserveVoice
<1> QED
  BY <1>4, <1>5

LEMMA WaitedStep ==
  Typed /\ AllRecorded /\ Together /\ Owned /\ Waited /\ [Next]_vars => Waited'
<1> SUFFICES ASSUME Typed, AllRecorded, Together, Owned, Waited, [Next]_vars PROVE Waited'
  OBVIOUS
<1>0. /\ age \in 0..(Grace - 1) /\ quiet \in 0..(Grace + 1) /\ Grace \in Nat \ {0}
      /\ tracking \in BOOLEAN
  BY Bounds DEF Typed, CountsTyped, FlagsTyped
<1> USE DEF Waited
<1>1. CASE UNCHANGED <<tracking, age, obs, quiet>>
           /\ \/ timer' = timer
              \/ timer # "decide" /\ timer' # "decide"
  BY <1>1
<1>2. ASSUME NEW u \in Users, NEW c \in Places, VoiceState(u, c) PROVE Waited'
  BY <1>1, <1>2 DEF VoiceState
<1>3. CASE OnVoiceStateUpdate \/ TimerFires \/ NothingToSeed \/ CopyVoiceMembers
           \/ MergeSnapshot
  BY <1>1, <1>3 DEF OnVoiceStateUpdate, TimerFires, NothingToSeed, CopyVoiceMembers,
                    MergeSnapshot
<1>4. ASSUME ObserveVoice PROVE Waited'
  <2>1. /\ timer = "observe" /\ timer' = "decide" /\ UNCHANGED <<tracking, age>>
        /\ quiet' = IF stayed # {} /\ ~torn THEN 0
                    ELSE IF quiet > Grace THEN quiet ELSE quiet + 1
    BY <1>4 DEF ObserveVoice
  <2>2. CASE stayed # {} /\ ~torn
    BY <1>4, <2>1, <2>2, CompanyIsSeen
  <2>3. CASE ~(stayed # {} /\ ~torn)
    BY <1>0, <2>1, <2>3
  <2> QED
    BY <2>2, <2>3
<1>5. ASSUME NotYet PROVE Waited'
  <2>1. timer = "decide" /\ timer' = "idle" /\ quiet' = quiet
    BY <1>5 DEF NotYet
  <2>2. CASE (~alive \/ leavePending) /\ UNCHANGED <<tracking, age>>
    BY <2>1, <2>2 DEF Owned
  <2>3. CASE tracking' = FALSE
    BY <2>1, <2>3
  <2>4. CASE obs = "empty" /\ ~tracking /\ tracking' = TRUE /\ age' = 0
    BY <1>0, <2>1, <2>4
  <2>5. CASE obs = "empty" /\ tracking /\ age' = age + 1
    BY <1>0, <2>1, <2>5
  <2> QED
    BY <1>5, <2>2, <2>3, <2>4, <2>5 DEF NotYet
<1>6. ASSUME AutoLeave PROVE Waited'
  <2>1. timer = "decide" /\ obs = "empty" /\ tracking /\ timer' = "idle"
        /\ UNCHANGED <<tracking, age, quiet>>
    BY <1>6 DEF AutoLeave
  <2> QED
    BY <1>0, <2>1
<1>7. CASE JoinErase \/ LeaveErase
  BY <1>7 DEF JoinErase, LeaveErase, Erase
<1>8. CASE JoinReset \/ JoinEmplace \/ HandleLeaveCommand \/ LeaveThread \/ LeaveReset
  BY <1>1, <1>8 DEF JoinReset, JoinEmplace, HandleLeaveCommand, LeaveThread, LeaveReset
<1>9. CASE UNCHANGED vars
  BY <1>1, <1>9 DEF vars
<1> QED
  BY <1>2, <1>3, <1>4, <1>5, <1>6, <1>7, <1>8, <1>9 DEF Next

LEMMA LeavesLate ==
  ASSUME Typed, Waited, [Next]_vars, leavers' > leavers
  PROVE  quiet = Grace + 1
<1>0. /\ age \in 0..(Grace - 1) /\ quiet \in 0..(Grace + 1) /\ Grace \in Nat \ {0}
      /\ leavers \in Nat
  BY Bounds DEF Typed, CountsTyped
<1>1. leavers' # leavers /\ leavers' # leavers - 1
  BY <1>0
<1>2. AutoLeave
  <2>1. ASSUME NEW u \in Users, NEW c \in Places, VoiceState(u, c) PROVE FALSE
    BY <1>1, <2>1 DEF VoiceState
  <2>2. CASE OnVoiceStateUpdate \/ TimerFires \/ NothingToSeed \/ CopyVoiceMembers
             \/ MergeSnapshot \/ ObserveVoice \/ NotYet
    BY <1>1, <2>2 DEF OnVoiceStateUpdate, TimerFires, NothingToSeed, CopyVoiceMembers,
                      MergeSnapshot, ObserveVoice, NotYet
  <2>3. CASE JoinErase \/ JoinReset \/ JoinEmplace \/ HandleLeaveCommand \/ LeaveThread
             \/ LeaveErase \/ LeaveReset
    BY <1>1, <2>3 DEF JoinErase, JoinReset, JoinEmplace, HandleLeaveCommand, LeaveThread,
                      LeaveErase, LeaveReset
  <2>4. CASE UNCHANGED vars
    BY <1>1, <2>4 DEF vars
  <2> QED
    BY <2>1, <2>2, <2>3, <2>4 DEF Next
<1>3. timer = "decide" /\ obs = "empty" /\ tracking /\ age + 1 >= Grace
  BY <1>2 DEF AutoLeave
<1>4. quiet >= age + 2
  BY <1>3 DEF Waited
<1> QED
  BY <1>0, <1>3, <1>4

\* The timer leaves only after a whole grace period of runs that nobody spent
\* with the bot, whatever joins, moves and other leaves came in between; a run that
\* reads a record forgotten between copy and merge does not count as spent with it.
THEOREM LeavesOnlyWhenAlone == Spec => NeverLeavesCompany
<1>1. Init => Together /\ Owned /\ Waited
  BY DEF Init, Together, Owned, Waited
<1>2. Typed /\ Waited /\ [Next]_vars => [leavers' > leavers => quiet = Grace + 1]_vars
  BY LeavesLate
<1> QED
  BY <1>1, <1>2, InitTyped, TypedStep, InitKnown, FollowedStep, RecordedStep, TogetherStep,
     OwnedStep, WaitedStep, PTL DEF Spec, NeverLeavesCompany
=============================================================================
