------------------------- MODULE GuildSessionProofs -------------------------
(***************************************************************************)
(* Theorems about GuildSession, for any threads and addresses.             *)
(***************************************************************************)
EXTENDS GuildSession, TLAPS

\* The conjuncts of TypeOK about the program counters.
PcTyped(f) ==
  /\ f \in [Workers \cup AudioThreads -> WorkerPCs \cup AudioPCs]
  /\ \A w \in Workers : f[w] \in WorkerPCs
  /\ \A a \in AudioThreads : f[a] \in AudioPCs

-----------------------------------------------------------------------------
(***************************************************************************)
(* Type correctness.                                                       *)
(***************************************************************************)
LEMMA InitType == Init => TypeOK
<1> SUFFICES ASSUME Init PROVE TypeOK
  OBVIOUS
<1>1. "idle" \in WorkerPCs /\ "none" \in AudioPCs
  BY DEF WorkerPCs, AudioPCs
<1>2. \A a \in AudioThreads : a \notin Workers
  BY ThreadsAssumption
<1>3. /\ pc \in [Workers \cup AudioThreads -> WorkerPCs \cup AudioPCs]
      /\ \A w \in Workers : pc[w] \in WorkerPCs
      /\ \A a \in AudioThreads : pc[a] \in AudioPCs
  BY <1>1, <1>2 DEF Init
<1>4. ptr \in [Workers \cup AudioThreads -> Infos \cup {Nobody}]
  BY DEF Init
<1> QED BY <1>3, <1>4 DEF Init, TypeOK

LEMMA HandlerType ==
  ASSUME TypeOK, NEW h \in Handlers, JoinStep(h) \/ RequestStep(h)
  PROVE  TypeOK'
<1> USE ThreadsAssumption DEF TypeOK, PcTyped, Workers, Goto, Done, session
<1>1. CASE JoinCheck(h) BY <1>1 DEF JoinCheck, AfterJoin, WorkerPCs, JoinPCs
<1>2. CASE JoinExisting(h) BY <1>2 DEF JoinExisting, WorkerPCs, JoinPCs
<1>3. CASE JoinHangUp(h) BY <1>3 DEF JoinHangUp, WorkerPCs, JoinPCs
<1>4. CASE JoinEraseOld(h) BY <1>4 DEF JoinEraseOld, EraseBlocks, NoInfo, WorkerPCs, JoinPCs
<1>5. CASE JoinEraseOldDone(h)
  <2>1. handle \in AudioThreads /\ handle \notin Workers
    BY <1>5 DEF JoinEraseOldDone, DestructorJoined
  <2>2. PcTyped(pc')
    BY <1>5, <2>1 DEF JoinEraseOldDone, WorkerPCs, JoinPCs, AudioPCs
  <2> QED BY <1>5, <2>2 DEF JoinEraseOldDone, NoInfo
<1>6. CASE JoinDisconnect(h) BY <1>6 DEF JoinDisconnect, WorkerPCs, JoinPCs
<1>7. CASE JoinConnect(h) BY <1>7 DEF JoinConnect, AfterJoin, WorkerPCs, JoinPCs
<1>8. CASE JoinLookup(h) BY <1>8 DEF JoinLookup, AfterJoin, WorkerPCs, JoinPCs
<1>9. CASE JoinEmplace(h)
  <2>1. CASE EraseBlocks(h, "emplaceWait")
    BY <2>1 DEF EraseBlocks, WorkerPCs, JoinPCs
  <2>2. CASE ~EraseBlocks(h, "emplaceWait")
    BY <1>9, <2>2 DEF JoinEmplace, NewInfo, Fresh, WorkerPCs, JoinPCs
  <2> QED BY <2>1, <2>2
<1>10. CASE JoinEmplaceDone(h)
  <2>1. handle \in AudioThreads /\ handle \notin Workers
    BY <1>10 DEF JoinEmplaceDone, DestructorJoined
  <2>2. PcTyped(pc')
    BY <1>10, <2>1 DEF JoinEmplaceDone, WorkerPCs, JoinPCs, AudioPCs
  <2> QED BY <1>10, <2>2 DEF JoinEmplaceDone, NewInfo, Fresh
<1>11. CASE StartAudioThread(h)
  <2>1. CASE info = Nobody \/ handle # Nobody
    BY <1>11, <2>1 DEF StartAudioThread, AfterJoin, WorkerPCs, JoinPCs
  <2>2. CASE info # Nobody /\ handle = Nobody
    <3>1. PICK a \in AudioThreads : 
            /\ handle' = a /\ stop' = FALSE
            /\ pc' = [pc EXCEPT ![a] = "top", ![h] = IF op[h] = "join" THEN "idle" ELSE "request"]
      BY <1>11, <2>2 DEF StartAudioThread
    <3>2. a \notin Workers
      OBVIOUS
    <3>3. PcTyped(pc')
      BY <3>1, <3>2 DEF WorkerPCs, JoinPCs, AudioPCs
    <3> QED BY <1>11, <2>2, <3>1, <3>3 DEF StartAudioThread
  <2> QED BY <2>1, <2>2
<1>12. CASE NeedJoin(h) BY <1>12 DEF NeedJoin, WorkerPCs, JoinPCs
<1>13. CASE RequestServer(h)
  <2>1. replies' \in [ReplyKinds -> Nat]
    <3>1. replies' = [replies EXCEPT ![op[h]] = replies[op[h]] + 1]
      BY <1>13 DEF RequestServer
    <3>2. ASSUME NEW k \in ReplyKinds PROVE replies'[k] \in Nat
      BY <3>1, replies[k] \in Nat, replies[k] + 1 \in Nat
    <3> QED BY <3>1, <3>2
  <2>2. PcTyped(pc')
    BY <1>13 DEF RequestServer, WorkerPCs
  <2> QED BY <1>13, <2>1, <2>2 DEF RequestServer
<1>14. CASE Enqueue(h) BY <1>14 DEF Enqueue, NewInfo, Fresh, WorkerPCs, JoinPCs
<1>15. CASE StartIfNeeded(h) BY <1>15 DEF StartIfNeeded, WorkerPCs, JoinPCs
<1>16. CASE SendListMessage(h) BY <1>16 DEF SendListMessage, WorkerPCs, JoinPCs
<1>17. CASE RemoveFind(h) BY <1>17 DEF RemoveFind, WorkerPCs, JoinPCs
<1>18. CASE RemoveAt(h) BY <1>18 DEF RemoveAt, WorkerPCs, JoinPCs
<1> QED BY <1>1, <1>2, <1>3, <1>4, <1>5, <1>6, <1>7, <1>8, <1>9, <1>10, <1>11, <1>12,
           <1>13, <1>14, <1>15, <1>16, <1>17, <1>18 DEF JoinStep, RequestStep

LEMMA WorkerType ==
  ASSUME TypeOK, NEW w \in Workers, LeaveStep(w)
  PROVE  TypeOK'
<1> USE ThreadsAssumption DEF TypeOK, PcTyped, Goto, Done, session
<1>1. CASE StopAudioThread(w) BY <1>1 DEF StopAudioThread, WorkerPCs, JoinPCs
<1>2. CASE StopJoin(w)
  <2>1. \A a \in AudioThreads : a \notin Workers
    OBVIOUS
  <2>2. PcTyped(pc')
    <3>1. pc' = [t \in Workers \cup AudioThreads |->
                   CASE t = w       -> IF op[w] = "leave" THEN "leaveDisconnect" ELSE "hangup"
                     [] t = mine[w] -> "none"
                     [] OTHER       -> pc[t]]
      BY <1>2 DEF StopJoin
    <3>2. /\ {"leaveDisconnect", "hangup"} \subseteq WorkerPCs
          /\ "none" \in AudioPCs
      BY DEF WorkerPCs, JoinPCs, LeavePCs, AudioPCs
    <3>3. ASSUME NEW v \in Workers PROVE pc'[v] \in WorkerPCs
      <4>1. v # mine[w]
        BY <2>1
      <4> QED BY <3>1, <3>2, <4>1
    <3>4. ASSUME NEW a \in AudioThreads PROVE pc'[a] \in AudioPCs
      <4>1. a # w
        BY <2>1
      <4> QED BY <3>1, <3>2, <4>1
    <3> QED BY <3>1, <3>3, <3>4
  <2> QED BY <1>2, <2>2 DEF StopJoin
<1>3. CASE LeaveMark(w) BY <1>3 DEF LeaveMark, WorkerPCs, JoinPCs
<1>4. CASE LeaveDisconnect(w) BY <1>4 DEF LeaveDisconnect, WorkerPCs, LeavePCs
<1>5. CASE LeaveErase(w) BY <1>5 DEF LeaveErase, EraseBlocks, NoInfo, WorkerPCs, LeavePCs
<1>6. CASE LeaveEraseDone(w)
  <2>1. handle \in AudioThreads /\ handle \notin Workers
    BY <1>6 DEF LeaveEraseDone, DestructorJoined
  <2>2. PcTyped(pc')
    BY <1>6, <2>1 DEF LeaveEraseDone, WorkerPCs, AudioPCs
  <2> QED BY <1>6, <2>2 DEF LeaveEraseDone, NoInfo
<1> QED BY <1>1, <1>2, <1>3, <1>4, <1>5, <1>6 DEF LeaveStep

LEMMA AudioType ==
  ASSUME TypeOK, NEW a \in AudioThreads, AudioStep(a)
  PROVE  TypeOK'
<1> USE ThreadsAssumption DEF TypeOK, PcTyped, AudioPCs, Goto, AudioGoto, AudioDrop, session
<1>1. a \notin Workers
  OBVIOUS
<1>2. CASE AudioTop(a) BY <1>1, <1>2 DEF AudioTop
<1>3. CASE AudioLookup(a) BY <1>1, <1>3 DEF AudioLookup
<1>4. CASE AudioPick(a) BY <1>1, <1>4 DEF AudioPick
<1>5. CASE AudioFrame(a) BY <1>1, <1>5 DEF AudioFrame
<1>6. CASE AudioSend(a) BY <1>1, <1>6 DEF AudioSend
<1>7. CASE AudioFinish(a) BY <1>1, <1>7 DEF AudioFinish
<1>8. CASE AudioClear(a) BY <1>1, <1>8 DEF AudioClear
<1>9. CASE AudioSilence(a) BY <1>1, <1>9 DEF AudioSilence
<1> QED BY <1>2, <1>3, <1>4, <1>5, <1>6, <1>7, <1>8, <1>9 DEF AudioStep

LEMMA StepType == TypeOK /\ [Next]_vars => TypeOK'
<1> SUFFICES ASSUME TypeOK, [Next]_vars PROVE TypeOK'
  OBVIOUS
<1> USE ThreadsAssumption DEF Goto, session
<1>1. ASSUME NEW h \in Handlers, NEW c \in Commands, HandleCommand(h, c) PROVE TypeOK'
  <2>1. c \in AllCommands /\ FirstStep[c] \in WorkerPCs
    BY DEF AllCommands, FirstStep, WorkerPCs, LeavePCs
  <2> QED BY <1>1, <2>1 DEF HandleCommand, TypeOK, Workers
<1>2. ASSUME NEW h \in Handlers, NEW k \in ReplyKinds, Reply(h, k) PROVE TypeOK'
  <2>1. replies' \in [ReplyKinds -> Nat]
    BY <1>2 DEF Reply, TypeOK
  <2> QED BY <1>2, <2>1 DEF Reply, TypeOK, Workers, ReplyKinds, AllCommands, WorkerPCs
<1>3. ASSUME NEW h \in Handlers, JoinStep(h) \/ RequestStep(h) PROVE TypeOK'
  BY <1>3, HandlerType
<1>4. ASSUME NEW w \in Workers, LeaveStep(w) PROVE TypeOK'
  BY <1>4, WorkerType
<1>5. ASSUME NEW l \in Leavers, AutoLeave(l) PROVE TypeOK'
  BY <1>5 DEF AutoLeave, TypeOK, Workers, WorkerPCs, LeavePCs, AllCommands
<1>6. ASSUME NEW a \in AudioThreads, AudioStep(a) PROVE TypeOK'
  BY <1>6, AudioType
<1>7. CASE VoiceUp \/ VoiceDown
  BY <1>7 DEF VoiceUp, VoiceDown, TypeOK
<1>8. CASE UNCHANGED vars
  BY <1>8 DEF vars, TypeOK
<1> QED BY <1>1, <1>2, <1>3, <1>4, <1>5, <1>6, <1>7, <1>8 DEF Next

\* Every reachable state is well typed: in particular no command or reply is
\* counted below zero, and no thread is at a location that is not its own.
THEOREM TypeCorrect == Spec => []TypeOK
BY InitType, StepType, PTL DEF Spec

-----------------------------------------------------------------------------
(***************************************************************************)
(* Ownership of audio threads.                                             *)
(***************************************************************************)
\* How the model writes down who blocks with guildInfosMutex held.
BlockedPCs == WaitPCs \cup {"selfLock"}
LockDiscipline == \A w \in Workers : mutex = w <=> pc[w] \in BlockedPCs

\* A guild without a session has no thread, and a StopAudioThread keeps a thread
\* it took only until it has joined it.
HandleOfSession == info = Nobody => handle = Nobody
TakenToJoin == \A w \in Workers : mine[w] # Nobody => pc[w] = "stopJoin"

OwnershipInv ==
  /\ TypeOK
  /\ HandleOwnership
  /\ LockDiscipline
  /\ HandleOfSession
  /\ TakenToJoin

LEMMA InitOwnership == Init => OwnershipInv
<1> SUFFICES ASSUME Init PROVE OwnershipInv
  OBVIOUS
<1>1. TypeOK
  BY InitType
<1>2. \A a \in AudioThreads : pc[a] = "none" /\ a # Nobody
  BY ThreadsAssumption DEF Init
<1>3. HandleOwnership
  BY <1>2 DEF Init, HandleOwnership, Owned, Taken
<1>4. LockDiscipline
  BY ThreadsAssumption DEF Init, LockDiscipline, BlockedPCs, WaitPCs, Workers
<1> QED BY <1>1, <1>3, <1>4 DEF Init, OwnershipInv, HandleOfSession, TakenToJoin

\* A worker moves between two locations where it holds nothing.
LEMMA WorkerMoves ==
  ASSUME OwnershipInv, TypeOK', NEW w \in Workers, NEW label,
         pc[w] \notin BlockedPCs \cup {"stopJoin"}, label \notin BlockedPCs,
         Goto(w, label), UNCHANGED <<info, handle, mine, mutex>>
  PROVE  OwnershipInv'
<1> USE ThreadsAssumption DEF OwnershipInv
<1>1. \A v \in Workers : pc'[v] = IF v = w THEN label ELSE pc[v]
  BY DEF Goto, TypeOK
<1>2. \A a \in AudioThreads : pc'[a] = pc[a]
  BY DEF Goto, TypeOK
<1>3. HandleOwnership'
  BY <1>2 DEF HandleOwnership, Owned, Taken
<1>4. LockDiscipline'
  BY <1>1 DEF LockDiscipline, BlockedPCs
<1>5. TakenToJoin'
  BY <1>1 DEF TakenToJoin
<1> QED BY <1>3, <1>4, <1>5 DEF HandleOfSession

\* A worker blocks in ~GuildInfo with the lock.
LEMMA WorkerBlocks ==
  ASSUME OwnershipInv, TypeOK', NEW w \in Workers, NEW waiting \in WaitPCs,
         pc[w] \notin BlockedPCs \cup {"stopJoin"}, EraseBlocks(w, waiting)
  PROVE  OwnershipInv'
<1> USE ThreadsAssumption DEF OwnershipInv
<1>1. \A v \in Workers : pc'[v] = IF v = w THEN waiting ELSE pc[v]
  BY DEF EraseBlocks, Goto, TypeOK
<1>2. \A a \in AudioThreads : pc'[a] = pc[a]
  BY DEF EraseBlocks, Goto, TypeOK
<1>3. HandleOwnership'
  BY <1>2 DEF EraseBlocks, HandleOwnership, Owned, Taken
<1>4. LockDiscipline'
  BY <1>1 DEF EraseBlocks, Unlocked, LockDiscipline, BlockedPCs, Workers
<1>5. TakenToJoin'
  BY <1>1 DEF EraseBlocks, TakenToJoin
<1> QED BY <1>3, <1>4, <1>5 DEF EraseBlocks, HandleOfSession

\* ~GuildInfo has joined the thread of the session it destroys.
LEMMA WorkerUnblocks ==
  ASSUME OwnershipInv, TypeOK', NEW w \in Workers, NEW label, label \notin BlockedPCs,
         pc[w] \in WaitPCs, DestructorJoined, handle' = Nobody, mutex' = Nobody,
         pc' = [pc EXCEPT ![w] = label, ![handle] = "none"], UNCHANGED mine
  PROVE  OwnershipInv'
<1> USE ThreadsAssumption DEF OwnershipInv
<1>1. handle \in AudioThreads /\ handle \notin Workers
  BY DEF DestructorJoined, TypeOK
<1>2. \A v \in Workers : pc'[v] = IF v = w THEN label ELSE pc[v]
  BY <1>1 DEF TypeOK
<1>3. \A a \in AudioThreads : pc'[a] = IF a = handle THEN "none" ELSE pc[a]
  BY <1>1 DEF TypeOK
<1>4. \A a \in AudioThreads : a # Nobody
  OBVIOUS
<1>5. HandleOwnership'
  BY <1>1, <1>3, <1>4 DEF HandleOwnership, Owned, Taken
<1>6. mutex = w
  BY DEF LockDiscipline, BlockedPCs
<1>7. LockDiscipline'
  BY <1>2, <1>6 DEF LockDiscipline, BlockedPCs, Workers
<1>8. TakenToJoin'
  BY <1>2 DEF TakenToJoin, WaitPCs
<1> QED BY <1>5, <1>7, <1>8 DEF HandleOfSession

\* An audio thread moves on: it never becomes unstarted by itself.
LEMMA AudioMoves ==
  ASSUME OwnershipInv, TypeOK', NEW a \in AudioThreads, NEW label, label # "none",
         pc[a] # "none", Goto(a, label), UNCHANGED <<info, handle, mine, mutex>>
  PROVE  OwnershipInv'
<1> USE ThreadsAssumption DEF OwnershipInv
<1>1. a \notin Workers
  OBVIOUS
<1>2. \A v \in Workers : pc'[v] = pc[v]
  BY <1>1 DEF Goto, TypeOK
<1>3. \A b \in AudioThreads : pc'[b] = IF b = a THEN label ELSE pc[b]
  BY DEF Goto, TypeOK
<1>4. HandleOwnership'
  BY <1>3 DEF HandleOwnership, Owned, Taken
<1>5. LockDiscipline' /\ TakenToJoin'
  BY <1>2 DEF LockDiscipline, BlockedPCs, TakenToJoin
<1> QED BY <1>4, <1>5 DEF HandleOfSession

\* A worker replaces a session that owns no thread: by none, or by a new one.
LEMMA WorkerClears ==
  ASSUME OwnershipInv, TypeOK', NEW w \in Workers, NEW label,
         pc[w] \notin BlockedPCs \cup {"stopJoin"}, label \notin BlockedPCs, handle = Nobody,
         Goto(w, label), handle' = Nobody, UNCHANGED <<mine, mutex>>
  PROVE  OwnershipInv'
<1> USE ThreadsAssumption DEF OwnershipInv
<1>1. \A v \in Workers : pc'[v] = IF v = w THEN label ELSE pc[v]
  BY DEF Goto, TypeOK
<1>2. \A a \in AudioThreads : pc'[a] = pc[a]
  BY DEF Goto, TypeOK
<1>3. HandleOwnership'
  BY <1>2 DEF HandleOwnership, Owned, Taken
<1>4. LockDiscipline'
  BY <1>1 DEF LockDiscipline, BlockedPCs
<1>5. TakenToJoin'
  BY <1>1 DEF TakenToJoin
<1> QED BY <1>3, <1>4, <1>5 DEF HandleOfSession

\* !omakase blocks on the mutex it holds.
LEMMA WorkerSelfLocks ==
  ASSUME OwnershipInv, TypeOK', NEW w \in Workers,
         pc[w] \notin BlockedPCs \cup {"stopJoin"}, Unlocked,
         Goto(w, "selfLock"), mutex' = w, UNCHANGED <<info, handle, mine>>
  PROVE  OwnershipInv'
<1> USE ThreadsAssumption DEF OwnershipInv
<1>1. \A v \in Workers : pc'[v] = IF v = w THEN "selfLock" ELSE pc[v]
  BY DEF Goto, TypeOK
<1>2. \A a \in AudioThreads : pc'[a] = pc[a]
  BY DEF Goto, TypeOK
<1>3. HandleOwnership'
  BY <1>2 DEF HandleOwnership, Owned, Taken
<1>4. LockDiscipline'
  BY <1>1 DEF Unlocked, LockDiscipline, BlockedPCs, Workers
<1>5. TakenToJoin'
  BY <1>1 DEF TakenToJoin
<1> QED BY <1>3, <1>4, <1>5 DEF HandleOfSession

LEMMA StartOwnership ==
  ASSUME OwnershipInv, TypeOK', NEW h \in Handlers, StartAudioThread(h)
  PROVE  OwnershipInv'
<1> USE ThreadsAssumption DEF OwnershipInv, BlockedPCs, WaitPCs
<1>0. h \in Workers
  BY DEF Workers
<1>1. CASE info = Nobody \/ handle # Nobody
  BY <1>0, <1>1, WorkerMoves DEF StartAudioThread, AfterJoin, Done, session
<1>2. CASE info # Nobody /\ handle = Nobody
  <2> DEFINE next == IF op[h] = "join" THEN "idle" ELSE "request"
  <2>1. PICK a \in AudioThreads :
          /\ pc[a] = "none" /\ handle' = a
          /\ pc' = [pc EXCEPT ![a] = "top", ![h] = next]
          /\ UNCHANGED <<info, mine, mutex>>
    BY <1>2 DEF StartAudioThread
  <2>2. a \notin Workers
    OBVIOUS
  <2>3. \A v \in Workers : pc'[v] = IF v = h THEN next ELSE pc[v]
    BY <1>0, <2>1, <2>2 DEF TypeOK
  <2>4. \A b \in AudioThreads : pc'[b] = IF b = a THEN "top" ELSE pc[b]
    BY <1>0, <2>1, <2>2 DEF TypeOK
  <2>5. HandleOwnership'
    <3>1. \A w \in Workers : mine[w] # a
      BY <2>1 DEF HandleOwnership, Taken
    <3> SUFFICES ASSUME NEW b \in AudioThreads
                 PROVE  /\ pc'[b] # "none" <=> handle' = b \/ \E w \in Workers : mine'[w] = b
                        /\ ~(handle' = b /\ \E w \in Workers : mine'[w] = b)
                        /\ \A v, w \in Workers : mine'[v] = b /\ mine'[w] = b => v = w
      BY DEF HandleOwnership, Owned, Taken
    <3>2. CASE b = a
      <4>1. pc'[b] = "top" /\ handle' = b /\ mine' = mine
        BY <2>1, <2>4, <3>2
      <4> QED BY <3>1, <3>2, <4>1
    <3>3. CASE b # a
      <4>1. pc'[b] = pc[b] /\ handle' # b /\ handle # b /\ mine' = mine
        BY <1>2, <2>1, <2>4, <3>3
      <4> QED BY <4>1 DEF HandleOwnership, Owned, Taken
    <3> QED BY <3>2, <3>3
  <2>6. pc[h] = "start" /\ next \in {"idle", "request"}
    BY DEF StartAudioThread
  <2>7. LockDiscipline'
    <3>1. mutex # h
      BY <1>0, <2>6 DEF LockDiscipline, BlockedPCs
    <3> HIDE DEF next
    <3> QED BY <1>0, <2>1, <2>3, <2>6, <3>1 DEF LockDiscipline, BlockedPCs
  <2>8. TakenToJoin'
    BY <2>1, <2>3, <2>6 DEF TakenToJoin
  <2> QED BY <1>2, <2>1, <2>5, <2>7, <2>8 DEF HandleOfSession
<1> QED BY <1>1, <1>2

LEMMA HandlerOwnership ==
  ASSUME OwnershipInv, TypeOK', NEW h \in Handlers, JoinStep(h) \/ RequestStep(h)
  PROVE  OwnershipInv'
<1> USE DEF BlockedPCs, WaitPCs, session
<1>0. h \in Workers
  BY DEF Workers
<1>1. CASE JoinCheck(h)
  BY <1>0, <1>1, WorkerMoves DEF JoinCheck, AfterJoin, Done
<1>2. CASE JoinExisting(h)
  BY <1>0, <1>2, WorkerMoves DEF JoinExisting
<1>3. CASE JoinHangUp(h)
  BY <1>0, <1>3, WorkerMoves DEF JoinHangUp
<1>4. CASE JoinDisconnect(h)
  BY <1>0, <1>4, WorkerMoves DEF JoinDisconnect
<1>5. CASE JoinConnect(h)
  BY <1>0, <1>5, WorkerMoves DEF JoinConnect, AfterJoin, Done
<1>6. CASE JoinLookup(h)
  BY <1>0, <1>6, WorkerMoves DEF JoinLookup, AfterJoin, Done
<1>7. CASE NeedJoin(h)
  BY <1>0, <1>7, WorkerMoves DEF NeedJoin
<1>8. CASE RequestServer(h)
  BY <1>0, <1>8, WorkerMoves DEF RequestServer, Done
<1>9. CASE SendListMessage(h)
  BY <1>0, <1>9, WorkerMoves DEF SendListMessage, Done
<1>10. CASE RemoveFind(h)
  BY <1>0, <1>10, WorkerMoves DEF RemoveFind, Done
<1>11. CASE RemoveAt(h)
  BY <1>0, <1>11, WorkerMoves DEF RemoveAt, Done
<1>20. CASE JoinEraseOld(h)
  <2>1. CASE EraseBlocks(h, "eraseOldWait")
    BY <1>0, <1>20, <2>1, WorkerBlocks DEF JoinEraseOld
  <2>2. CASE handle = Nobody /\ NoInfo /\ Goto(h, "disconnect") /\ UNCHANGED <<mutex, mine>>
    BY <1>0, <1>20, <2>2, WorkerClears DEF JoinEraseOld, NoInfo
  <2> QED BY <1>20, <2>1, <2>2 DEF JoinEraseOld
<1>21. CASE JoinEraseOldDone(h)
  BY <1>0, <1>21, WorkerUnblocks DEF JoinEraseOldDone, NoInfo
<1>22. CASE JoinEmplace(h)
  <2>1. CASE EraseBlocks(h, "emplaceWait")
    BY <1>0, <1>22, <2>1, WorkerBlocks DEF JoinEmplace
  <2>2. CASE handle = Nobody /\ NewInfo /\ Goto(h, "start") /\ UNCHANGED <<mutex, mine>>
    BY <1>0, <1>22, <2>2, WorkerClears DEF JoinEmplace, NewInfo
  <2> QED BY <1>22, <2>1, <2>2 DEF JoinEmplace
<1>23. CASE JoinEmplaceDone(h)
  BY <1>0, <1>23, WorkerUnblocks DEF JoinEmplaceDone, NewInfo
<1>24. CASE Enqueue(h)
  <2>1. CASE info = Nobody
    <3>1. handle = Nobody /\ handle' = Nobody /\ UNCHANGED <<mine, mutex>> /\ pc[h] = "enqueue"
      BY <1>24, <2>1 DEF Enqueue, NewInfo, OwnershipInv, HandleOfSession
    <3>2. Goto(h, "startIfNeeded") \/ Goto(h, "idle")
      BY <1>24 DEF Enqueue, Done
    <3> QED BY <1>0, <3>1, <3>2, WorkerClears
  <2>2. CASE info # Nobody
    <3>1. UNCHANGED <<info, handle, mine, mutex>> /\ pc[h] = "enqueue"
      BY <1>24, <2>2 DEF Enqueue
    <3>2. Goto(h, "startIfNeeded") \/ Goto(h, "idle")
      BY <1>24 DEF Enqueue, Done
    <3> QED BY <1>0, <3>1, <3>2, WorkerMoves
  <2> QED BY <2>1, <2>2
<1>25. CASE StartIfNeeded(h)
  <2>1. CASE mutex' = h /\ Goto(h, "selfLock")
    BY <1>0, <1>25, <2>1, WorkerSelfLocks DEF StartIfNeeded
  <2>2. CASE Goto(h, "listing") /\ UNCHANGED mutex
    BY <1>0, <1>25, <2>2, WorkerMoves DEF StartIfNeeded
  <2> QED BY <1>25, <2>1, <2>2 DEF StartIfNeeded
<1>26. CASE StartAudioThread(h)
  BY <1>26, StartOwnership
<1> QED BY <1>1, <1>2, <1>3, <1>4, <1>5, <1>6, <1>7, <1>8, <1>9, <1>10, <1>11,
           <1>20, <1>21, <1>22, <1>23, <1>24, <1>25, <1>26 DEF JoinStep, RequestStep

LEMMA LeaveOwnership ==
  ASSUME OwnershipInv, TypeOK', NEW w \in Workers, LeaveStep(w)
  PROVE  OwnershipInv'
<1> USE ThreadsAssumption DEF BlockedPCs, WaitPCs, session
<1>1. CASE StopAudioThread(w)
  <2>1. /\ pc[w] = "stop" /\ mine' = [mine EXCEPT ![w] = handle] /\ handle' = Nobody
        /\ pc' = [pc EXCEPT ![w] = "stopJoin"] /\ UNCHANGED <<info, mutex>>
    BY <1>1 DEF StopAudioThread, Goto
  <2>2. mine[w] = Nobody
    BY <2>1 DEF OwnershipInv, TakenToJoin
  <2>3. \A v \in Workers : /\ pc'[v] = IF v = w THEN "stopJoin" ELSE pc[v]
                           /\ mine'[v] = IF v = w THEN handle ELSE mine[v]
    BY <2>1 DEF OwnershipInv, TypeOK
  <2>4. \A a \in AudioThreads : pc'[a] = pc[a] /\ a # Nobody
    BY <2>1 DEF OwnershipInv, TypeOK
  <2>5. HandleOwnership'
    BY <2>1, <2>2, <2>3, <2>4 DEF OwnershipInv, HandleOwnership, Owned, Taken
  <2>6. LockDiscipline' /\ TakenToJoin'
    BY <2>1, <2>3 DEF OwnershipInv, LockDiscipline, BlockedPCs, TakenToJoin
  <2> QED BY <2>1, <2>5, <2>6 DEF OwnershipInv, HandleOfSession
<1>2. CASE StopJoin(w)
  <2> DEFINE next == IF op[w] = "leave" THEN "leaveDisconnect" ELSE "hangup"
  <2>1. /\ pc[w] = "stopJoin" /\ mine' = [mine EXCEPT ![w] = Nobody]
        /\ pc' = [t \in Workers \cup AudioThreads |->
                    CASE t = w       -> next
                      [] t = mine[w] -> "none"
                      [] OTHER       -> pc[t]]
        /\ UNCHANGED <<info, handle, mutex>>
    BY <1>2 DEF StopJoin
  <2>2. \A v \in Workers : /\ pc'[v] = IF v = w THEN next ELSE pc[v]
                           /\ mine'[v] = IF v = w THEN Nobody ELSE mine[v]
    BY <2>1 DEF OwnershipInv, TypeOK
  <2>3. \A a \in AudioThreads : /\ pc'[a] = IF a = mine[w] THEN "none" ELSE pc[a]
                                /\ a # Nobody
    BY <2>1 DEF OwnershipInv, TypeOK
  <2>4. HandleOwnership'
    BY <2>1, <2>2, <2>3 DEF OwnershipInv, HandleOwnership, Owned, Taken
  <2>5. LockDiscipline' /\ TakenToJoin'
    BY <2>1, <2>2 DEF OwnershipInv, LockDiscipline, BlockedPCs, TakenToJoin
  <2> QED BY <2>1, <2>4, <2>5 DEF OwnershipInv, HandleOfSession
<1>3. CASE LeaveMark(w)
  BY <1>3, WorkerMoves DEF LeaveMark
<1>4. CASE LeaveDisconnect(w)
  BY <1>4, WorkerMoves DEF LeaveDisconnect
<1>5. CASE LeaveErase(w)
  <2>1. CASE EraseBlocks(w, "leaveEraseWait")
    BY <1>5, <2>1, WorkerBlocks DEF LeaveErase
  <2>2. CASE handle = Nobody /\ NoInfo /\ Done(w) /\ UNCHANGED <<mutex, mine>>
    BY <1>5, <2>2, WorkerClears DEF LeaveErase, NoInfo, Done
  <2> QED BY <1>5, <2>1, <2>2 DEF LeaveErase
<1>6. CASE LeaveEraseDone(w)
  BY <1>6, WorkerUnblocks DEF LeaveEraseDone, NoInfo
<1> QED BY <1>1, <1>2, <1>3, <1>4, <1>5, <1>6 DEF LeaveStep

LEMMA AudioOwnership ==
  ASSUME OwnershipInv, TypeOK', NEW a \in AudioThreads, AudioStep(a)
  PROVE  OwnershipInv'
<1>1. /\ pc[a] # "none" /\ UNCHANGED <<info, handle, mine, mutex>>
      /\ \E label \in AudioPCs \ {"none"} : Goto(a, label)
  <2> USE DEF AudioGoto, AudioDrop, AudioPCs, session
  <2>1. CASE AudioTop(a) BY <2>1 DEF AudioTop
  <2>2. CASE AudioLookup(a) BY <2>2 DEF AudioLookup
  <2>3. CASE AudioPick(a) BY <2>3 DEF AudioPick
  <2>4. CASE AudioFrame(a) BY <2>4 DEF AudioFrame
  <2>5. CASE AudioSend(a) BY <2>5 DEF AudioSend
  <2>6. CASE AudioFinish(a) BY <2>6 DEF AudioFinish
  <2>7. CASE AudioClear(a) BY <2>7 DEF AudioClear
  <2>8. CASE AudioSilence(a) BY <2>8 DEF AudioSilence
  <2> QED BY <2>1, <2>2, <2>3, <2>4, <2>5, <2>6, <2>7, <2>8 DEF AudioStep
<1> QED BY <1>1, AudioMoves

LEMMA StepOwnership == OwnershipInv /\ [Next]_vars => OwnershipInv'
<1> SUFFICES ASSUME OwnershipInv, [Next]_vars PROVE OwnershipInv'
  OBVIOUS
<1>0. TypeOK'
  BY StepType DEF OwnershipInv
<1>1. ASSUME NEW h \in Handlers, NEW c \in Commands, HandleCommand(h, c) PROVE OwnershipInv'
  <2>1. h \in Workers /\ FirstStep[c] \notin BlockedPCs
    BY ThreadsAssumption DEF Workers, AllCommands, FirstStep, BlockedPCs, WaitPCs
  <2> QED BY <1>0, <1>1, <2>1, WorkerMoves DEF HandleCommand, BlockedPCs, WaitPCs, session
<1>2. ASSUME NEW h \in Handlers, NEW k \in ReplyKinds, Reply(h, k) PROVE OwnershipInv'
  <2>1. h \in Workers /\ pc[h] = "idle" /\ UNCHANGED <<info, handle, mine, mutex>>
    BY <1>2 DEF Reply, Workers, session
  <2>2. CASE UNCHANGED pc
    BY <1>0, <2>1, <2>2 DEF OwnershipInv, HandleOwnership, Owned, Taken, LockDiscipline, BlockedPCs,
                            HandleOfSession, TakenToJoin
  <2>3. CASE Goto(h, "enqueue")
    BY <1>0, <2>1, <2>3, WorkerMoves DEF BlockedPCs, WaitPCs
  <2> QED BY <1>2, <2>2, <2>3 DEF Reply
<1>3. ASSUME NEW h \in Handlers, JoinStep(h) \/ RequestStep(h) PROVE OwnershipInv'
  BY <1>0, <1>3, HandlerOwnership
<1>4. ASSUME NEW w \in Workers, LeaveStep(w) PROVE OwnershipInv'
  BY <1>0, <1>4, LeaveOwnership
<1>5. ASSUME NEW l \in Leavers, AutoLeave(l) PROVE OwnershipInv'
  BY <1>0, <1>5, WorkerMoves DEF AutoLeave, Workers, BlockedPCs, WaitPCs
<1>6. ASSUME NEW a \in AudioThreads, AudioStep(a) PROVE OwnershipInv'
  BY <1>0, <1>6, AudioOwnership
<1>7. CASE VoiceUp \/ VoiceDown \/ UNCHANGED vars
  BY <1>0, <1>7 DEF VoiceUp, VoiceDown, vars, session, OwnershipInv, HandleOwnership, Owned,
                    Taken, LockDiscipline, BlockedPCs, HandleOfSession, TakenToJoin
<1> QED BY <1>1, <1>2, <1>3, <1>4, <1>5, <1>6, <1>7 DEF Next

LEMMA OwnershipInvariant == Spec => []OwnershipInv
BY InitOwnership, StepOwnership, PTL DEF Spec

\* However joins, leaves, automatic leaves and audio threads interleave, each
\* audio thread has one owner until it has been joined: no std::thread is joined
\* twice or destroyed while joinable.
THEOREM Ownership == Spec => []HandleOwnership
<1>1. OwnershipInv => HandleOwnership
  BY DEF OwnershipInv
<1> QED BY <1>1, OwnershipInvariant, PTL

-----------------------------------------------------------------------------
(***************************************************************************)
(* Serial sessions: as long as joins and leaves of a guild do not overlap, *)
(* the audio thread never outlives the session or the voice connection it  *)
(* uses.                                                                   *)
(***************************************************************************)
\* Where a worker has stopped and joined the audio thread and not yet started
\* another one.
StoppedPCs == {"stopJoin", "hangup", "eraseOld", "disconnect", "connect", "lookupNew",
               "emplace", "start", "leaveDisconnect", "leaveErase"}

StoppedHasNoThread == \A w \in Workers : pc[w] \in StoppedPCs => handle = Nobody
RunningHasSession == \A a \in AudioThreads : Running(a) => info # Nobody

\* Each conjunct needs the others: an erase does not block because the handle is
\* gone, the handle is gone because one worker at a time tears the session down,
\* and the pointer stays valid because no thread is left when info changes.
SerialInv ==
  /\ OwnershipInv
  /\ OneTeardown
  /\ NoJoinUnderLock
  /\ StoppedHasNoThread
  /\ RunningHasSession
  /\ NoDanglingInfo

LEMMA InitSerial == Init => SerialInv
<1> SUFFICES ASSUME Init PROVE SerialInv
  OBVIOUS
<1>1. OwnershipInv
  BY InitOwnership
<1>2. \A w \in Workers : pc[w] = "idle"
  BY DEF Init
<1>3. \A a \in AudioThreads : pc[a] = "none"
  BY ThreadsAssumption DEF Init
<1> QED BY <1>1, <1>2, <1>3 DEF SerialInv, OneTeardown, Teardown, JoinPCs, LeavePCs,
             NoJoinUnderLock, WaitPCs, StoppedHasNoThread, StoppedPCs, RunningHasSession,
             Running, NoDanglingInfo, DerefPCs

\* Past the join of StopAudioThread no audio thread exists.
LEMMA NoThreadLeft ==
  ASSUME SerialInv, NEW w \in Workers, pc[w] \in StoppedPCs \ {"stopJoin"}, NEW a \in AudioThreads
  PROVE  pc[a] = "none"
<1>1. handle = Nobody /\ a # Nobody
  BY ThreadsAssumption DEF SerialInv, StoppedHasNoThread
<1>2. ASSUME NEW v \in Workers, mine[v] = a PROVE FALSE
  <2>1. pc[v] = "stopJoin"
    BY <1>1, <1>2 DEF SerialInv, OwnershipInv, TakenToJoin
  <2>2. Teardown(v) /\ Teardown(w)
    BY <2>1 DEF Teardown, JoinPCs, LeavePCs, StoppedPCs
  <2> QED BY <2>1, <2>2 DEF SerialInv, OneTeardown
<1> QED BY <1>1, <1>2 DEF SerialInv, OwnershipInv, HandleOwnership, Owned, Taken

\* A worker moves; the session and the audio threads stay as they are.
LEMMA SerialMoves ==
  ASSUME SerialInv, OwnershipInv', OneTeardown', NEW w \in Workers, NEW label,
         label \notin WaitPCs, label \in StoppedPCs => handle' = Nobody,
         Goto(w, label), UNCHANGED <<info, ptr>>, handle' \in {handle, Nobody}
  PROVE  SerialInv'
<1> USE ThreadsAssumption
<1>1. \A v \in Workers : pc'[v] = IF v = w THEN label ELSE pc[v]
  BY DEF Goto, SerialInv, OwnershipInv, TypeOK
<1>2. \A a \in AudioThreads : pc'[a] = pc[a]
  BY DEF Goto, SerialInv, OwnershipInv, TypeOK
<1>3. NoJoinUnderLock'
  BY <1>1 DEF SerialInv, NoJoinUnderLock
<1>4. StoppedHasNoThread'
  BY <1>1 DEF SerialInv, StoppedHasNoThread
<1>5. RunningHasSession'
  BY <1>2 DEF SerialInv, RunningHasSession, Running
<1>6. NoDanglingInfo'
  BY <1>2 DEF SerialInv, NoDanglingInfo
<1> QED BY <1>3, <1>4, <1>5, <1>6 DEF SerialInv

\* A worker replaces the session while no audio thread exists.
LEMMA SerialReplaces ==
  ASSUME SerialInv, OwnershipInv', OneTeardown', NEW w \in Workers, NEW label,
         \A a \in AudioThreads : ~Running(a),
         label \notin WaitPCs, Goto(w, label), handle' = Nobody
  PROVE  SerialInv'
<1> USE ThreadsAssumption
<1>1. \A v \in Workers : pc'[v] = IF v = w THEN label ELSE pc[v]
  BY DEF Goto, SerialInv, OwnershipInv, TypeOK
<1>2. \A a \in AudioThreads : pc'[a] \in {"none", "exited"}
  BY DEF Goto, SerialInv, OwnershipInv, TypeOK, Running
<1>3. NoJoinUnderLock' /\ StoppedHasNoThread'
  BY <1>1 DEF SerialInv, NoJoinUnderLock, StoppedHasNoThread
<1>4. RunningHasSession' /\ NoDanglingInfo'
  BY <1>2 DEF RunningHasSession, Running, NoDanglingInfo, DerefPCs
<1> QED BY <1>3, <1>4 DEF SerialInv

LEMMA StopJoinSerial ==
  ASSUME SerialInv, OwnershipInv', OneTeardown', NEW w \in Workers, StopJoin(w)
  PROVE  SerialInv'
<1> USE ThreadsAssumption
<1> DEFINE next == IF op[w] = "leave" THEN "leaveDisconnect" ELSE "hangup"
<1>1. /\ pc[w] = "stopJoin" /\ UNCHANGED <<info, handle, ptr>>
      /\ \A v \in Workers : pc'[v] = IF v = w THEN next ELSE pc[v]
      /\ \A a \in AudioThreads : pc'[a] = IF a = mine[w] THEN "none" ELSE pc[a]
  <2>1. pc' = [t \in Workers \cup AudioThreads |->
                 CASE t = w       -> next
                   [] t = mine[w] -> "none"
                   [] OTHER       -> pc[t]]
    BY DEF StopJoin
  <2>2. mine[w] \notin Workers
    BY DEF SerialInv, OwnershipInv, TypeOK
  <2> QED BY <2>1, <2>2 DEF StopJoin, session
<1>2. handle = Nobody
  BY <1>1 DEF SerialInv, StoppedHasNoThread, StoppedPCs
<1>3. NoJoinUnderLock'
  BY <1>1 DEF SerialInv, NoJoinUnderLock, WaitPCs
<1>4. StoppedHasNoThread'
  BY <1>1, <1>2 DEF StoppedHasNoThread
<1>5. RunningHasSession' /\ NoDanglingInfo'
  BY <1>1 DEF SerialInv, RunningHasSession, Running, NoDanglingInfo, DerefPCs
<1> QED BY <1>3, <1>4, <1>5 DEF SerialInv

LEMMA StartSerial ==
  ASSUME SerialInv, OwnershipInv', OneTeardown', NEW h \in Handlers, StartAudioThread(h)
  PROVE  SerialInv'
<1> USE ThreadsAssumption
<1>0. h \in Workers /\ pc[h] = "start" /\ UNCHANGED <<info, ptr>>
  BY DEF Workers, StartAudioThread, session
<1> DEFINE next == IF op[h] = "join" THEN "idle" ELSE "request"
<1>1. CASE info = Nobody \/ handle # Nobody
  <2>1. Goto(h, next) /\ handle' = handle
    BY <1>1 DEF StartAudioThread, AfterJoin, Done, session
  <2>2. next \notin WaitPCs \cup StoppedPCs
    BY DEF WaitPCs, StoppedPCs
  <2> QED BY <1>0, <2>1, <2>2, SerialMoves
<1>2. CASE info # Nobody /\ handle = Nobody
  <2>1. PICK a \in AudioThreads : pc' = [pc EXCEPT ![a] = "top", ![h] = next]
    BY <1>2 DEF StartAudioThread
  <2>2. \A v \in Workers : pc'[v] = IF v = h THEN next ELSE pc[v]
    BY <1>0, <2>1 DEF SerialInv, OwnershipInv, TypeOK
  <2>3. \A b \in AudioThreads : pc'[b] = IF b = a THEN "top" ELSE pc[b]
    BY <1>0, <2>1 DEF SerialInv, OwnershipInv, TypeOK
  <2>4. NoJoinUnderLock'
    BY <2>2 DEF SerialInv, NoJoinUnderLock, WaitPCs
  <2>5. StoppedHasNoThread'
    <3>1. ASSUME NEW v \in Workers, pc'[v] \in StoppedPCs PROVE FALSE
      <4>1. v # h /\ pc[v] \in StoppedPCs
        BY <1>0, <2>2, <3>1 DEF StoppedPCs
      <4>2. Teardown(v) /\ Teardown(h)
        BY <1>0, <4>1 DEF Teardown, JoinPCs, LeavePCs, StoppedPCs
      <4> QED BY <1>0, <4>1, <4>2 DEF SerialInv, OneTeardown
    <3> QED BY <3>1 DEF StoppedHasNoThread
  <2>6. RunningHasSession'
    BY <1>0, <1>2 DEF RunningHasSession
  <2>7. NoDanglingInfo'
    BY <1>0, <2>3 DEF SerialInv, NoDanglingInfo, DerefPCs
  <2> QED BY <2>4, <2>5, <2>6, <2>7 DEF SerialInv
<1> QED BY <1>1, <1>2

LEMMA JoinSerial ==
  ASSUME SerialInv, OwnershipInv', OneTeardown', NEW h \in Handlers, JoinStep(h)
  PROVE  SerialInv'
<1> USE DEF WaitPCs, StoppedPCs, session
<1>0. h \in Workers
  BY DEF Workers
<1>1. CASE JoinCheck(h)
  BY <1>0, <1>1, SerialMoves DEF JoinCheck, AfterJoin, Done, StoppedHasNoThread, SerialInv
<1>2. CASE JoinHangUp(h)
  BY <1>0, <1>2, SerialMoves DEF JoinHangUp, StoppedHasNoThread, SerialInv
<1>3. CASE JoinDisconnect(h)
  BY <1>0, <1>3, SerialMoves DEF JoinDisconnect, StoppedHasNoThread, SerialInv
<1>4. CASE JoinConnect(h)
  BY <1>0, <1>4, SerialMoves DEF JoinConnect, AfterJoin, Done, StoppedHasNoThread, SerialInv
<1>5. CASE JoinLookup(h)
  BY <1>0, <1>5, SerialMoves DEF JoinLookup, AfterJoin, Done, StoppedHasNoThread, SerialInv
<1>6. CASE JoinExisting(h)
  <2>1. info = Nobody => handle = Nobody
    BY DEF SerialInv, OwnershipInv, HandleOfSession
  <2> QED BY <1>0, <1>6, <2>1, SerialMoves DEF JoinExisting
<1>7. CASE JoinEraseOld(h) \/ JoinEmplace(h)
  <2>1. pc[h] \in {"eraseOld", "emplace"}
    BY <1>7 DEF JoinEraseOld, JoinEmplace
  <2>2. handle = Nobody /\ \A a \in AudioThreads : ~Running(a)
    BY <1>0, <2>1, NoThreadLeft DEF SerialInv, StoppedHasNoThread, Running
  <2>3. handle' = Nobody /\ (Goto(h, "disconnect") \/ Goto(h, "start"))
    BY <1>7, <2>2 DEF JoinEraseOld, JoinEmplace, EraseBlocks, NoInfo, NewInfo
  <2> QED BY <1>0, <2>2, <2>3, SerialReplaces
<1>8. CASE JoinEraseOldDone(h) \/ JoinEmplaceDone(h)
  BY <1>0, <1>8 DEF JoinEraseOldDone, JoinEmplaceDone, SerialInv, NoJoinUnderLock
<1>9. CASE StartAudioThread(h)
  BY <1>9, StartSerial
<1> QED BY <1>1, <1>2, <1>3, <1>4, <1>5, <1>6, <1>7, <1>8, <1>9 DEF JoinStep

LEMMA RequestSerial ==
  ASSUME SerialInv, OwnershipInv', OneTeardown', NEW h \in Handlers, RequestStep(h)
  PROVE  SerialInv'
<1> USE DEF WaitPCs, StoppedPCs, session, Goto, Done
<1>0. h \in Workers
  BY DEF Workers
<1>1. CASE Enqueue(h)
  <2>1. CASE info = Nobody
    <3>1. \A a \in AudioThreads : ~Running(a)
      BY <2>1 DEF SerialInv, RunningHasSession
    <3>2. handle' = Nobody /\ (Goto(h, "startIfNeeded") \/ Goto(h, "idle"))
      BY <1>1, <2>1 DEF Enqueue, NewInfo
    <3> QED BY <1>0, <3>1, <3>2, SerialReplaces
  <2>2. CASE info # Nobody
    <3>1. UNCHANGED <<info, handle, ptr>> /\ (Goto(h, "startIfNeeded") \/ Goto(h, "idle"))
      BY <1>1, <2>2 DEF Enqueue
    <3> QED BY <1>0, <3>1, SerialMoves
  <2> QED BY <2>1, <2>2
<1>2. CASE RemoveFind(h) \/ RemoveAt(h)
  <2>1. \E label \in {"idle", "removeAt"} : Goto(h, label)
    BY <1>2 DEF RemoveFind, RemoveAt
  <2>2. PICK label \in {"idle", "removeAt"} : Goto(h, label)
    BY <2>1
  <2>3. UNCHANGED <<info, handle>> /\ \A a \in AudioThreads : ptr'[a] = ptr[a]
    BY <1>0, <1>2, ThreadsAssumption DEF RemoveFind, RemoveAt, SerialInv, OwnershipInv, TypeOK
  <2>4. \A v \in Workers : pc'[v] = IF v = h THEN label ELSE pc[v]
    BY <1>0, <2>2 DEF SerialInv, OwnershipInv, TypeOK
  <2>5. \A a \in AudioThreads : pc'[a] = pc[a]
    BY <1>0, <2>2, ThreadsAssumption DEF SerialInv, OwnershipInv, TypeOK
  <2>6. NoJoinUnderLock' /\ StoppedHasNoThread'
    BY <2>2, <2>3, <2>4 DEF SerialInv, NoJoinUnderLock, StoppedHasNoThread
  <2>7. RunningHasSession' /\ NoDanglingInfo'
    BY <2>3, <2>5 DEF SerialInv, RunningHasSession, Running, NoDanglingInfo, DerefPCs
  <2> QED BY <2>6, <2>7 DEF SerialInv
<1>3. CASE NeedJoin(h)
  BY <1>0, <1>3, SerialMoves DEF NeedJoin
<1>4. CASE RequestServer(h)
  BY <1>0, <1>4, SerialMoves DEF RequestServer
<1>5. CASE StartIfNeeded(h)
  BY <1>0, <1>5, SerialMoves DEF StartIfNeeded
<1>6. CASE SendListMessage(h)
  BY <1>0, <1>6, SerialMoves DEF SendListMessage
<1> QED BY <1>1, <1>2, <1>3, <1>4, <1>5, <1>6 DEF RequestStep

LEMMA LeaveSerial ==
  ASSUME SerialInv, OwnershipInv', OneTeardown', NEW w \in Workers, LeaveStep(w)
  PROVE  SerialInv'
<1> USE DEF WaitPCs, StoppedPCs, session
<1>1. CASE StopAudioThread(w)
  BY <1>1, SerialMoves DEF StopAudioThread
<1>2. CASE StopJoin(w)
  BY <1>2, StopJoinSerial
<1>3. CASE LeaveMark(w)
  BY <1>3, SerialMoves DEF LeaveMark
<1>4. CASE LeaveDisconnect(w)
  BY <1>4, SerialMoves DEF LeaveDisconnect, SerialInv, StoppedHasNoThread
<1>5. CASE LeaveErase(w)
  <2>1. handle = Nobody /\ \A a \in AudioThreads : ~Running(a)
    BY <1>5, NoThreadLeft DEF LeaveErase, SerialInv, StoppedHasNoThread, Running
  <2> QED BY <1>5, <2>1, SerialReplaces DEF LeaveErase, EraseBlocks, NoInfo, Done
<1>6. CASE LeaveEraseDone(w)
  BY <1>6 DEF LeaveEraseDone, SerialInv, NoJoinUnderLock
<1> QED BY <1>1, <1>2, <1>3, <1>4, <1>5, <1>6 DEF LeaveStep

LEMMA AudioSerial ==
  ASSUME SerialInv, OwnershipInv', OneTeardown', NEW a \in AudioThreads, AudioStep(a)
  PROVE  SerialInv'
<1> USE ThreadsAssumption
<1> DEFINE Kept == /\ pc'[a] \in DerefPCs => ptr'[a] = info
                   /\ pc'[a] \notin {"none", "exited"} => Running(a)
<1>1. UNCHANGED <<info, handle, stop>> /\ Kept
  <2>1. pc \in [Workers \cup AudioThreads -> WorkerPCs \cup AudioPCs]
        /\ ptr \in [Workers \cup AudioThreads -> Infos \cup {Nobody}]
        /\ (pc[a] \in DerefPCs => ptr[a] = info)
    BY DEF SerialInv, OwnershipInv, TypeOK, NoDanglingInfo
  <2> USE <2>1 DEF Goto, AudioGoto, AudioDrop, DerefPCs, Running, session
  <2>2. CASE AudioTop(a) BY <2>2 DEF AudioTop
  <2>3. CASE AudioLookup(a) BY <2>3 DEF AudioLookup
  <2>4. CASE AudioPick(a) BY <2>4 DEF AudioPick
  <2>5. CASE AudioFrame(a) BY <2>5 DEF AudioFrame
  <2>6. CASE AudioSend(a) BY <2>6 DEF AudioSend
  <2>7. CASE AudioFinish(a) BY <2>7 DEF AudioFinish
  <2>8. CASE AudioClear(a) BY <2>8 DEF AudioClear
  <2>9. CASE AudioSilence(a) BY <2>9 DEF AudioSilence
  <2> QED BY <2>2, <2>3, <2>4, <2>5, <2>6, <2>7, <2>8, <2>9 DEF AudioStep
<1>2. \A t \in Workers \cup AudioThreads : t # a => pc'[t] = pc[t] /\ ptr'[t] = ptr[t]
  <2>1. pc \in [Workers \cup AudioThreads -> WorkerPCs \cup AudioPCs]
        /\ ptr \in [Workers \cup AudioThreads -> Infos \cup {Nobody}]
    BY DEF SerialInv, OwnershipInv, TypeOK
  <2>2. /\ \E label \in AudioPCs : Goto(a, label)
        /\ UNCHANGED ptr \/ \E i \in Infos \cup {Nobody} : ptr' = [ptr EXCEPT ![a] = i]
    <3> USE DEF AudioGoto, AudioDrop, AudioPCs
    <3>0. info \in Infos \cup {Nobody}
      BY DEF SerialInv, OwnershipInv, TypeOK
    <3>1. CASE AudioTop(a) BY <3>0, <3>1 DEF AudioTop
    <3>2. CASE AudioLookup(a) BY <3>2 DEF AudioLookup
    <3>3. CASE AudioPick(a) BY <3>0, <3>3 DEF AudioPick
    <3>4. CASE AudioFrame(a) BY <3>4 DEF AudioFrame
    <3>5. CASE AudioSend(a) BY <3>5 DEF AudioSend
    <3>6. CASE AudioFinish(a) BY <3>6 DEF AudioFinish
    <3>7. CASE AudioClear(a) BY <3>7 DEF AudioClear
    <3>8. CASE AudioSilence(a) BY <3>8 DEF AudioSilence
    <3> QED BY <3>1, <3>2, <3>3, <3>4, <3>5, <3>6, <3>7, <3>8 DEF AudioStep
  <2> QED BY <2>1, <2>2 DEF Goto
<1>3. \A w \in Workers : pc'[w] = pc[w]
  BY <1>2
<1>4. NoJoinUnderLock' /\ StoppedHasNoThread'
  BY <1>1, <1>3 DEF SerialInv, NoJoinUnderLock, StoppedHasNoThread
<1>5. RunningHasSession'
  BY <1>1, <1>2 DEF SerialInv, RunningHasSession, Running
<1>6. NoDanglingInfo'
  BY <1>1, <1>2 DEF SerialInv, NoDanglingInfo
<1> QED BY <1>4, <1>5, <1>6 DEF SerialInv

LEMMA StepSerial == SerialInv /\ [SerialNext]_vars => SerialInv'
<1> SUFFICES ASSUME SerialInv, [SerialNext]_vars PROVE SerialInv'
  OBVIOUS
<1>1. OwnershipInv'
  BY StepOwnership DEF SerialInv, SerialNext
<1>2. CASE UNCHANGED vars
  BY <1>1, <1>2 DEF vars, SerialInv, OneTeardown, Teardown, NoJoinUnderLock,
       StoppedHasNoThread, RunningHasSession, Running, NoDanglingInfo
<1>3. CASE SerialNext
  <2>0. OneTeardown'
    BY <1>3 DEF SerialNext
  <2>1. ASSUME NEW h \in Handlers, NEW c \in Commands, HandleCommand(h, c) PROVE SerialInv'
    <3>1. h \in Workers /\ FirstStep[c] \notin WaitPCs \cup StoppedPCs
      BY ThreadsAssumption DEF Workers, AllCommands, FirstStep, WaitPCs, StoppedPCs
    <3> QED BY <1>1, <2>0, <2>1, <3>1, SerialMoves DEF HandleCommand, session
  <2>2. ASSUME NEW h \in Handlers, NEW k \in ReplyKinds, Reply(h, k) PROVE SerialInv'
    <3>1. h \in Workers /\ UNCHANGED <<info, handle, ptr>>
      BY <2>2 DEF Reply, Workers, session
    <3>2. CASE UNCHANGED pc
      BY <1>1, <2>0, <3>1, <3>2 DEF SerialInv, NoJoinUnderLock, StoppedHasNoThread,
                                   RunningHasSession, Running, NoDanglingInfo
    <3>3. CASE Goto(h, "enqueue")
      BY <1>1, <2>0, <3>1, <3>3, SerialMoves DEF WaitPCs, StoppedPCs
    <3> QED BY <2>2, <3>2, <3>3 DEF Reply
  <2>3. ASSUME NEW h \in Handlers, JoinStep(h) \/ RequestStep(h) PROVE SerialInv'
    BY <1>1, <2>0, <2>3, JoinSerial, RequestSerial
  <2>4. ASSUME NEW w \in Workers, LeaveStep(w) PROVE SerialInv'
    BY <1>1, <2>0, <2>4, LeaveSerial
  <2>5. ASSUME NEW l \in Leavers, AutoLeave(l) PROVE SerialInv'
    BY <1>1, <2>0, <2>5, SerialMoves DEF AutoLeave, Workers, WaitPCs, StoppedPCs
  <2>6. ASSUME NEW a \in AudioThreads, AudioStep(a) PROVE SerialInv'
    BY <1>1, <2>0, <2>6, AudioSerial
  <2>7. CASE VoiceUp \/ VoiceDown
    BY <1>1, <2>0, <2>7 DEF VoiceUp, VoiceDown, session, SerialInv, NoJoinUnderLock,
         StoppedHasNoThread, RunningHasSession, Running, NoDanglingInfo
  <2> QED BY <1>3, <2>1, <2>2, <2>3, <2>4, <2>5, <2>6, <2>7 DEF SerialNext, Next
<1> QED BY <1>2, <1>3

LEMMA SerialInvariant == SerialSpec => []SerialInv
BY InitSerial, StepSerial, PTL DEF SerialSpec

-----------------------------------------------------------------------------
\* The GuildInfo an audio thread reads through its pointer is alive whenever the
\* thread reads it, if joins and leaves of the guild do not overlap.
THEOREM AliveWhileRead == SerialSpec => []NoDanglingInfo
<1>1. SerialInv => NoDanglingInfo
  BY DEF SerialInv
<1> QED BY <1>1, SerialInvariant, PTL

LEMMA OneRuns == SerialInv => OneAudioThread
<1> SUFFICES ASSUME SerialInv, NEW a \in AudioThreads, NEW b \in AudioThreads,
                    Running(a), Running(b)
             PROVE  a = b
  BY DEF OneAudioThread
<1>1. /\ Owned(a) \/ Taken(a)
      /\ Owned(b) \/ Taken(b)
  BY DEF SerialInv, OwnershipInv, HandleOwnership, Running
<1>2. ASSUME NEW c \in AudioThreads, Taken(c), Owned(a) \/ Owned(b) PROVE FALSE
  <2>1. PICK w \in Workers : mine[w] = c /\ pc[w] = "stopJoin"
    BY <1>2, ThreadsAssumption DEF Taken, SerialInv, OwnershipInv, TakenToJoin
  <2>2. handle = Nobody
    BY <2>1 DEF SerialInv, StoppedHasNoThread, StoppedPCs
  <2> QED BY <1>2, <2>2, ThreadsAssumption DEF Owned
<1>3. CASE Owned(a) /\ Owned(b)
  BY <1>3 DEF Owned
<1>4. CASE Taken(a) /\ Taken(b)
  <2>1. PICK v \in Workers : mine[v] = a /\ pc[v] = "stopJoin"
    BY <1>4, ThreadsAssumption DEF Taken, SerialInv, OwnershipInv, TakenToJoin
  <2>2. PICK w \in Workers : mine[w] = b /\ pc[w] = "stopJoin"
    BY <1>4, ThreadsAssumption DEF Taken, SerialInv, OwnershipInv, TakenToJoin
  <2>3. v = w
    BY <2>1, <2>2 DEF SerialInv, OneTeardown, Teardown, JoinPCs
  <2> QED BY <2>1, <2>2, <2>3
<1> QED BY <1>1, <1>2, <1>3, <1>4

\* The same discipline gives the design's rule of one audio thread per guild.
THEOREM AtMostOneThread == SerialSpec => []OneAudioThread
BY OneRuns, SerialInvariant, PTL

\* And its rule that the audio thread stops before the connection is closed.
THEOREM StopsFirst == SerialSpec => []StopBeforeDisconnect
<1>1. SerialInv => StopBeforeDisconnect
  BY NoThreadLeft DEF StopBeforeDisconnect, StoppedPCs, Running
<1> QED BY <1>1, SerialInvariant, PTL

\* No thread is ever joined with guildInfosMutex held.
THEOREM NeverJoinsLocked == SerialSpec => []NoJoinUnderLock
<1>1. SerialInv => NoJoinUnderLock
  BY DEF SerialInv
<1> QED BY <1>1, SerialInvariant, PTL

-----------------------------------------------------------------------------
(***************************************************************************)
(* The abstract session, of serial sessions.                               *)
(***************************************************************************)
\* Only a session is told to stop, and a thread that StopAudioThread took had one.
StopHasSession == stop => info # Nobody
TakenHasSession == \A w \in Workers : mine[w] # Nobody => info # Nobody

LifeInv == SerialInv /\ StopHasSession /\ TakenHasSession

\* What a step is to show for itself.
LifeStep == [Life!Next]_(Life!vars) /\ StopHasSession' /\ TakenHasSession'

\* No audio thread starts, ends or is joined.
SamePhase ==
  \A a \in AudioThreads : /\ pc'[a] = "none" <=> pc[a] = "none"
                          /\ pc'[a] = "exited" <=> pc[a] = "exited"

LEMMA SameThread == SamePhase => Thread' = Thread
BY DEF SamePhase, Thread, Running

LEMMA WorkerPhase ==
  ASSUME TypeOK, NEW w \in Workers, NEW label, pc' = [pc EXCEPT ![w] = label]
  PROVE  SamePhase
BY ThreadsAssumption DEF TypeOK, SamePhase

\* Steps of which the abstract session takes no notice.
LEMMA Unnoticed ==
  ASSUME LifeInv, SamePhase, UNCHANGED <<info, stop, mine>>
  PROVE  LifeStep
BY SameThread DEF LifeInv, LifeStep, Life!vars, StopHasSession, TakenHasSession

\* LeaveMark and StopAudioThread tell a session to stop if there is one.
LEMMA StopsLife ==
  ASSUME LifeInv, NEW w \in Workers, LeaveMark(w) \/ StopAudioThread(w)
  PROVE  LifeStep
<1>1. TypeOK /\ HandleOfSession
  BY DEF LifeInv, SerialInv, OwnershipInv
<1>2. SamePhase /\ info' = info /\ stop' = (info # Nobody)
  BY <1>1, WorkerPhase DEF LeaveMark, StopAudioThread, Goto
<1>3. StopHasSession'
  BY <1>2 DEF StopHasSession
<1>4. TakenHasSession'
  <2>1. \A v \in Workers : mine'[v] = mine[v] \/ mine'[v] = handle
    BY <1>1 DEF LeaveMark, StopAudioThread, TypeOK
  <2> QED
    BY <1>1, <1>2, <2>1 DEF TakenHasSession, HandleOfSession, LifeInv
<1>5. [Life!Next]_(Life!vars)
  BY <1>1, <1>2, SameThread
     DEF LifeInv, StopHasSession, TypeOK, Life!Next, Life!Stop, Life!vars
<1> QED
  BY <1>3, <1>4, <1>5 DEF LifeStep

\* Without a thread the session is given up ...
LEMMA NobodyTaken ==
  ASSUME SerialInv, NEW w \in Workers, pc[w] \in StoppedPCs \ {"stopJoin"}
  PROVE  Thread = "none" /\ \A v \in Workers : mine[v] = Nobody
<1>1. Thread = "none"
  BY NoThreadLeft DEF Thread, Running
<1>2. ASSUME NEW v \in Workers, mine[v] # Nobody PROVE FALSE
  <2>1. pc[v] = "stopJoin"
    BY <1>2 DEF SerialInv, OwnershipInv, TakenToJoin
  <2>2. Teardown(v) /\ Teardown(w)
    BY <2>1 DEF Teardown, JoinPCs, LeavePCs, StoppedPCs
  <2> QED
    BY <2>1, <2>2 DEF SerialInv, OneTeardown
<1> QED
  BY <1>1, <1>2

LEMMA ErasesLife ==
  ASSUME LifeInv, SerialInv', NEW w \in Workers, JoinEraseOld(w) \/ LeaveErase(w)
  PROVE  LifeStep
<1>1. TypeOK /\ pc[w] \in StoppedPCs \ {"stopJoin"}
  BY DEF JoinEraseOld, LeaveErase, StoppedPCs, LifeInv, SerialInv, OwnershipInv
<1>2. ~EraseBlocks(w, "eraseOldWait") /\ ~EraseBlocks(w, "leaveEraseWait")
  BY <1>1 DEF EraseBlocks, Goto, TypeOK, SerialInv, NoJoinUnderLock, WaitPCs
<1>3. NoInfo /\ SamePhase /\ mine' = mine
  BY <1>1, <1>2, WorkerPhase DEF JoinEraseOld, LeaveErase, Done, Goto
<1>4. Thread = "none" /\ Thread' = "none" /\ \A v \in Workers : mine'[v] = Nobody
  BY <1>1, <1>3, NobodyTaken, SameThread DEF LifeInv
<1>5. [Life!Next]_(Life!vars)
  BY <1>1, <1>3, <1>4
     DEF NoInfo, LifeInv, StopHasSession, TypeOK, Life!Next, Life!Erase, Life!vars
<1> QED
  BY <1>3, <1>4, <1>5 DEF LifeStep, NoInfo, StopHasSession, TakenHasSession

\* ... or replaced ...
LEMMA EmplacesLife ==
  ASSUME LifeInv, SerialInv', NEW h \in Handlers, JoinEmplace(h)
  PROVE  LifeStep
<1>1. TypeOK /\ h \in Workers /\ pc[h] \in StoppedPCs \ {"stopJoin"}
  BY DEF JoinEmplace, StoppedPCs, LifeInv, SerialInv, OwnershipInv, Workers
<1>2. ~EraseBlocks(h, "emplaceWait")
  BY <1>1 DEF EraseBlocks, Goto, TypeOK, SerialInv, NoJoinUnderLock, WaitPCs
<1>3. NewInfo /\ SamePhase /\ mine' = mine
  BY <1>1, <1>2, WorkerPhase DEF JoinEmplace, Goto
<1>4. Thread = "none" /\ Thread' = "none"
  BY <1>1, <1>3, NobodyTaken, SameThread DEF LifeInv
<1>5. info' # Nobody /\ stop' = FALSE
  BY <1>3, ThreadsAssumption DEF NewInfo, Fresh
<1>6. [Life!Next]_(Life!vars)
  BY <1>4, <1>5 DEF Life!Next, Life!Create, Life!Replace
<1> QED
  BY <1>5, <1>6 DEF LifeStep, StopHasSession, TakenHasSession

\* ... and it is given its only one.
LEMMA StartsLife ==
  ASSUME LifeInv, NEW h \in Handlers, StartAudioThread(h)
  PROVE  LifeStep
<1>1. TypeOK /\ h \in Workers /\ pc[h] \in StoppedPCs \ {"stopJoin"}
  BY DEF StartAudioThread, StoppedPCs, LifeInv, SerialInv, OwnershipInv, Workers
<1>2. CASE info = Nobody \/ handle # Nobody
  <2>1. SamePhase /\ UNCHANGED <<info, stop, mine>>
    BY <1>1, <1>2, WorkerPhase DEF StartAudioThread, AfterJoin, Done, Goto, session
  <2> QED
    BY <2>1, Unnoticed
<1>3. CASE info # Nobody /\ handle = Nobody
  <2>1. PICK a \in AudioThreads :
          pc' = [pc EXCEPT ![a] = "top", ![h] = IF op[h] = "join" THEN "idle" ELSE "request"]
    BY <1>3 DEF StartAudioThread
  <2>2. stop' = FALSE /\ info' = info /\ mine' = mine
    BY <1>3 DEF StartAudioThread
  <2>3. Thread = "none"
    BY <1>1, NobodyTaken DEF LifeInv
  <2>4. pc'[a] = "top"
    BY <1>1, <2>1, ThreadsAssumption DEF TypeOK
  <2>5. Thread' = "running"
    BY <2>4 DEF Thread, Running
  <2>6. [Life!Next]_(Life!vars)
    BY <1>3, <2>2, <2>3, <2>5 DEF Life!Next, Life!Start
  <2> QED
    BY <1>3, <2>2, <2>6 DEF LifeStep, StopHasSession, TakenHasSession
<1> QED
  BY <1>2, <1>3

\* The thread that StopAudioThread took is the only one there is.
LEMMA JoinsLife ==
  ASSUME LifeInv, NEW w \in Workers, StopJoin(w)
  PROVE  LifeStep
<1>1. TypeOK /\ pc[w] = "stopJoin" /\ UNCHANGED <<info, stop>>
  BY DEF StopJoin, LifeInv, SerialInv, OwnershipInv, session
<1>2. \A v \in Workers : mine'[v] # Nobody => mine[v] # Nobody
  BY DEF StopJoin, LifeInv, SerialInv, OwnershipInv, TypeOK
<1>3. StopHasSession' /\ TakenHasSession'
  BY <1>1, <1>2 DEF LifeInv, StopHasSession, TakenHasSession
<1>4. \A a \in AudioThreads : pc'[a] = IF a = mine[w] THEN "none" ELSE pc[a]
  BY ThreadsAssumption DEF StopJoin
<1>5. CASE mine[w] = Nobody
  <2>1. SamePhase
    BY <1>4, <1>5, ThreadsAssumption DEF SamePhase
  <2>2. Thread' = Thread
    BY <2>1, SameThread
  <2> QED
    BY <1>1, <1>3, <2>2 DEF LifeStep, Life!vars
<1>6. CASE mine[w] # Nobody
  <2>1. mine[w] \in AudioThreads /\ pc[mine[w]] = "exited"
    BY <1>1, <1>6 DEF StopJoin, TypeOK
  <2>2. ASSUME NEW a \in AudioThreads, pc[a] # "none" PROVE a = mine[w]
    <3>1. handle = Nobody /\ a # Nobody
      BY <1>1, ThreadsAssumption DEF LifeInv, SerialInv, StoppedHasNoThread, StoppedPCs
    <3>2. PICK v \in Workers : mine[v] = a
      BY <2>2, <3>1 DEF LifeInv, SerialInv, OwnershipInv, HandleOwnership, Owned, Taken
    <3>3. pc[v] = "stopJoin"
      BY <3>1, <3>2 DEF LifeInv, SerialInv, OwnershipInv, TakenToJoin
    <3>4. Teardown(v) /\ Teardown(w)
      BY <1>1, <3>3 DEF Teardown, JoinPCs
    <3> QED
      BY <3>2, <3>4 DEF LifeInv, SerialInv, OneTeardown
  <2>3. Thread = "ended"
    BY <2>1, <2>2 DEF Thread, Running
  <2>4. Thread' = "none"
    <3>1. \A a \in AudioThreads : pc'[a] = "none"
      BY <1>4, <2>2
    <3> QED
      BY <3>1 DEF Thread, Running
  <2>5. [Life!Next]_(Life!vars)
    BY <1>1, <2>3, <2>4 DEF Life!Next, Life!Join
  <2> QED
    BY <1>3, <2>5 DEF LifeStep
<1> QED
  BY <1>5, <1>6

\* The reply to a request makes a session where there is none.
LEMMA EnqueuesLife ==
  ASSUME LifeInv, NEW h \in Handlers, Enqueue(h)
  PROVE  LifeStep
<1>1. TypeOK /\ h \in Workers /\ SamePhase /\ mine' = mine
  <2>1. TypeOK /\ h \in Workers
    BY DEF LifeInv, SerialInv, OwnershipInv, Workers
  <2> QED
    BY <2>1, WorkerPhase DEF Enqueue, Done, Goto
<1>2. CASE info # Nobody
  BY <1>1, <1>2, Unnoticed DEF Enqueue, session
<1>3. CASE info = Nobody
  <2>1. info' # Nobody /\ stop' = FALSE
    BY <1>3, ThreadsAssumption DEF Enqueue, NewInfo, Fresh
  <2>2. ASSUME NEW a \in AudioThreads PROVE pc[a] = "none"
    <3>1. ~Owned(a)
      BY <1>3, ThreadsAssumption DEF Owned, LifeInv, SerialInv, OwnershipInv, HandleOfSession
    <3>2. ~Taken(a)
      BY <1>3, ThreadsAssumption DEF Taken, LifeInv, TakenHasSession
    <3> QED
      BY <3>1, <3>2 DEF LifeInv, SerialInv, OwnershipInv, HandleOwnership
  <2>3. Thread = "none" /\ Thread' = "none"
    BY <1>1, <2>2, SameThread DEF Thread, Running
  <2>4. [Life!Next]_(Life!vars)
    BY <1>3, <2>1, <2>3 DEF Life!Next, Life!Create
  <2> QED
    BY <1>1, <2>1, <2>4 DEF LifeStep, StopHasSession, TakenHasSession
<1> QED
  BY <1>2, <1>3

\* The only thread that runs ends when its session was told to stop.
LEMMA EndsLife ==
  ASSUME LifeInv, NEW a \in AudioThreads, Running(a), info = Nobody \/ stop,
         AudioDrop(a, "exited"), UNCHANGED <<session, mine>>
  PROVE  LifeStep
<1>1. TypeOK /\ info # Nobody /\ stop
  BY DEF LifeInv, SerialInv, OwnershipInv, RunningHasSession
<1>2. \A b \in AudioThreads : pc'[b] = IF b = a THEN "exited" ELSE pc[b]
  BY <1>1 DEF AudioDrop, Goto, TypeOK
<1>3. \A b \in AudioThreads : Running(b) => b = a
  BY OneRuns DEF LifeInv, OneAudioThread
<1>4. Thread = "running" /\ Thread' = "ended"
  BY <1>2, <1>3 DEF Thread, Running
<1>5. [Life!Next]_(Life!vars)
  BY <1>1, <1>4 DEF Life!Next, Life!End, session
<1> QED
  BY <1>5 DEF LifeInv, LifeStep, StopHasSession, TakenHasSession, session

LEMMA AudioLife ==
  ASSUME LifeInv, NEW a \in AudioThreads, AudioStep(a)
  PROVE  LifeStep
<1>1. TypeOK /\ UNCHANGED <<info, stop, mine, session>>
  BY DEF LifeInv, SerialInv, OwnershipInv, session, AudioStep, AudioTop, AudioLookup, AudioPick,
         AudioFrame, AudioSend, AudioFinish, AudioClear, AudioSilence
<1>2. ASSUME Running(a), NEW label \in AudioPCs \ {"none", "exited"}, Goto(a, label)
      PROVE  LifeStep
  <2>1. SamePhase
    BY <1>1, <1>2, ThreadsAssumption DEF Goto, TypeOK, SamePhase, Running
  <2> QED
    BY <1>1, <2>1, Unnoticed
<1> USE DEF Running, AudioPCs, AudioDrop, AudioGoto
<1>3. CASE AudioTop(a)
  BY <1>1, <1>2, <1>3, EndsLife DEF AudioTop
<1>4. CASE AudioLookup(a)
  BY <1>2, <1>4 DEF AudioLookup
<1>5. CASE AudioPick(a)
  BY <1>1, <1>2, <1>5, EndsLife DEF AudioPick
<1>6. CASE AudioFrame(a)
  BY <1>2, <1>6 DEF AudioFrame
<1>7. CASE AudioSend(a)
  BY <1>2, <1>7 DEF AudioSend
<1>8. CASE AudioFinish(a)
  BY <1>2, <1>8 DEF AudioFinish
<1>9. CASE AudioClear(a) \/ AudioSilence(a)
  BY <1>2, <1>9 DEF AudioClear, AudioSilence
<1> QED
  BY <1>3, <1>4, <1>5, <1>6, <1>7, <1>8, <1>9 DEF AudioStep

\* The other steps of handlers and leavers.
LEMMA OthersLife ==
  ASSUME LifeInv, NEW h \in Workers,
         \/ JoinCheck(h) \/ JoinExisting(h) \/ JoinHangUp(h) \/ JoinDisconnect(h)
         \/ JoinConnect(h) \/ JoinLookup(h) \/ NeedJoin(h) \/ RequestServer(h)
         \/ StartIfNeeded(h) \/ SendListMessage(h) \/ RemoveFind(h) \/ RemoveAt(h)
         \/ LeaveDisconnect(h) \/ AutoLeave(h)
         \/ \E c \in Commands : HandleCommand(h, c)
         \/ \E k \in ReplyKinds : Reply(h, k)
  PROVE  LifeStep
<1>1. TypeOK
  BY DEF LifeInv, SerialInv, OwnershipInv
<1>2. ASSUME NEW label, Goto(h, label), UNCHANGED <<info, stop, mine>> PROVE LifeStep
  BY <1>1, <1>2, WorkerPhase, Unnoticed DEF Goto
<1>3. ASSUME UNCHANGED <<pc, info, stop, mine>> PROVE LifeStep
  BY <1>3, Unnoticed DEF SamePhase
<1> USE DEF AfterJoin, Done, session
<1>4. CASE JoinCheck(h) \/ JoinExisting(h) \/ JoinHangUp(h) \/ JoinDisconnect(h)
  BY <1>2, <1>4 DEF JoinCheck, JoinExisting, JoinHangUp, JoinDisconnect
<1>5. CASE JoinConnect(h) \/ JoinLookup(h) \/ NeedJoin(h) \/ RequestServer(h)
  BY <1>2, <1>5 DEF JoinConnect, JoinLookup, NeedJoin, RequestServer
<1>6. CASE StartIfNeeded(h) \/ SendListMessage(h) \/ RemoveFind(h) \/ RemoveAt(h)
  BY <1>2, <1>6 DEF StartIfNeeded, SendListMessage, RemoveFind, RemoveAt
<1>7. CASE LeaveDisconnect(h) \/ AutoLeave(h)
  BY <1>2, <1>7 DEF LeaveDisconnect, AutoLeave
<1>8. CASE \E c \in Commands : HandleCommand(h, c)
  BY <1>2, <1>8 DEF HandleCommand
<1>9. CASE \E k \in ReplyKinds : Reply(h, k)
  BY <1>2, <1>3, <1>9 DEF Reply
<1> QED
  BY <1>4, <1>5, <1>6, <1>7, <1>8, <1>9

LEMMA EveryLifeStep == LifeInv /\ [SerialNext]_vars => LifeStep
<1> SUFFICES ASSUME LifeInv, [SerialNext]_vars PROVE LifeStep
  OBVIOUS
<1>0. SerialInv'
  BY StepSerial DEF LifeInv
<1>1. CASE UNCHANGED vars
  <2>1. SamePhase /\ UNCHANGED <<info, stop, mine>>
    BY <1>1 DEF vars, SamePhase
  <2> QED
    BY <2>1, Unnoticed
<1>2. ASSUME NEW h \in Handlers, JoinStep(h) \/ RequestStep(h) PROVE LifeStep
  <2>1. h \in Workers /\ pc[h] \notin WaitPCs
    BY DEF Workers, LifeInv, SerialInv, NoJoinUnderLock
  <2>2. ~JoinEraseOldDone(h) /\ ~JoinEmplaceDone(h)
    BY <2>1 DEF JoinEraseOldDone, JoinEmplaceDone, WaitPCs
  <2> QED
    BY <1>0, <1>2, <2>1, <2>2, OthersLife, ErasesLife, EmplacesLife, StartsLife, EnqueuesLife
       DEF JoinStep, RequestStep
<1>3. ASSUME NEW w \in Workers, LeaveStep(w) PROVE LifeStep
  <2>1. pc[w] \notin WaitPCs
    BY DEF LifeInv, SerialInv, NoJoinUnderLock
  <2>2. ~LeaveEraseDone(w)
    BY <2>1 DEF LeaveEraseDone, WaitPCs
  <2> QED
    BY <1>0, <1>3, <2>2, StopsLife, JoinsLife, OthersLife, ErasesLife DEF LeaveStep
<1>4. ASSUME NEW h \in Handlers,
             (\E c \in Commands : HandleCommand(h, c)) \/ \E k \in ReplyKinds : Reply(h, k)
      PROVE  LifeStep
  BY <1>4, OthersLife DEF Workers
<1>5. ASSUME NEW l \in Leavers, AutoLeave(l) PROVE LifeStep
  BY <1>5, OthersLife DEF Workers
<1>6. CASE VoiceUp \/ VoiceDown
  <2>1. SamePhase /\ UNCHANGED <<info, stop, mine>>
    BY <1>6 DEF VoiceUp, VoiceDown, session, SamePhase
  <2> QED
    BY <2>1, Unnoticed
<1> QED
  BY <1>1, <1>2, <1>3, <1>4, <1>5, <1>6, AudioLife DEF SerialNext, Next

LEMMA InitLife == Init => LifeInv /\ Life!Init
<1> SUFFICES ASSUME Init PROVE LifeInv /\ Life!Init
  OBVIOUS
<1>1. \A a \in AudioThreads : pc[a] = "none"
  BY ThreadsAssumption DEF Init
<1>2. Thread = "none"
  BY <1>1 DEF Thread, Running
<1> QED
  BY <1>2, InitSerial DEF Init, LifeInv, StopHasSession, TakenHasSession, Life!Init

LEMMA LifeStepKeeps == LifeInv /\ [SerialNext]_vars => LifeInv'
BY StepSerial, EveryLifeStep DEF LifeInv, LifeStep

\* As long as joins and leaves do not overlap, the threads implement the abstract session.
THEOREM SessionImplemented == SerialSpec => ImplementsSession
<1>1. LifeInv /\ [SerialNext]_vars => [Life!Next]_(Life!vars)
  BY EveryLifeStep DEF LifeStep
<1> QED
  BY <1>1, InitLife, LifeStepKeeps, PTL DEF SerialSpec, ImplementsSession, Life!Spec

\* Of the abstract session alone: a thread has its session until it has been joined.
LEMMA LifeKeepsSession == Life!Spec => []Life!ThreadHasSession
<1>1. Life!Init => Life!ThreadHasSession
  BY DEF Life!Init, Life!ThreadHasSession
<1>2. Life!ThreadHasSession /\ [Life!Next]_(Life!vars) => Life!ThreadHasSession'
  BY DEF Life!ThreadHasSession, Life!Next, Life!vars, Life!Create, Life!Replace, Life!Start,
         Life!Stop, Life!End, Life!Join, Life!Erase
<1> QED
  BY <1>1, <1>2, PTL DEF Life!Spec

\* So the GuildInfo outlives its thread: nothing that the thread has yet to do for the
\* session, nor the join, comes after its end.
THEOREM SessionOutlivesThread == SerialSpec => []Life!ThreadHasSession
BY SessionImplemented, LifeKeepsSession DEF ImplementsSession
=============================================================================
