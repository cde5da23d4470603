---------------------------- MODULE ServerProofs ----------------------------
(***************************************************************************)
(* What holds of the media server, for any requests, videos, libraries and *)
(* number of crashes, and then what holds of the client and the server     *)
(* together, for any number of calls, texts, songs and kills.              *)
(***************************************************************************)
EXTENDS ClientServer, FiniteSetTheorems, SequenceTheorems, TLAPS

USE DEF Goto, WorkOn, Answer, AfterSave, AfterDownload, Return, SaveSearchResult, SongsOf,
        Min, Free, AllAre, table, history

-----------------------------------------------------------------------------
(***************************************************************************)
(* Types.                                                                  *)
(***************************************************************************)
\* Locations at which a request works on a song, and that it then has one.
WithSong == {"search", "meta", "save", "lock"} \cup Locked
HasSong == \A r \in Requests : pc[r] \in WithSong => video[r] \in Videos

Typed == TypeOK /\ HasSong

\* The answers the server gives are answers.
LEMMA AnswerTypes ==
  /\ Failure \in Answers
  /\ \A S, T, U \in SUBSET Videos, b \in BOOLEAN : Success(S, b, T, U) \in Answers
BY DEF Failure, Success, Answers

\* What a request keeps, one field changed.
LEMMA DataTypes ==
  /\ NoData \in Data
  /\ \A d \in Data :
       /\ [d EXCEPT !.list = TRUE] \in Data
       /\ \A s \in Seq(Videos) : /\ [d EXCEPT !.todo = s] \in Data
                                 /\ [d EXCEPT !.found = s] \in Data
       /\ \A S \in SUBSET Videos : [d EXCEPT !.good = S] \in Data
       /\ \A w \in 0..CountCap : [d EXCEPT !.wanted = w] \in Data
       /\ d.todo \in Seq(Videos) /\ d.found \in Seq(Videos) /\ d.good \in SUBSET Videos
       /\ d.list \in BOOLEAN
<1> CountCap \in Nat
  BY ServerAssumption
<1>1. NoData \in Data
  BY DEF Data, NoData
<1>2. ASSUME NEW d \in Data, NEW s \in Seq(Videos)
      PROVE  [d EXCEPT !.todo = s] \in Data /\ [d EXCEPT !.found = s] \in Data
  BY <1>2 DEF Data
<1>3. ASSUME NEW d \in Data, NEW S \in SUBSET Videos PROVE [d EXCEPT !.good = S] \in Data
  BY <1>3 DEF Data
<1>4. ASSUME NEW d \in Data, NEW w \in 0..CountCap PROVE [d EXCEPT !.wanted = w] \in Data
  BY <1>4 DEF Data
<1>5. ASSUME NEW d \in Data
      PROVE  /\ [d EXCEPT !.list = TRUE] \in Data /\ d.list \in BOOLEAN
             /\ d.todo \in Seq(Videos) /\ d.found \in Seq(Videos) /\ d.good \in SUBSET Videos
  BY <1>5 DEF Data
<1> QED
  BY <1>1, <1>2, <1>3, <1>4, <1>5

LEMMA InitTyped == Init => Typed
BY ServerAssumption, DataTypes, AnswerTypes
   DEF Init, Typed, TypeOK, HasSong, WithSong, Locations, Locked

\* After a download a request goes to a place where it has its song, or needs none.
LEMMA AfterDownloadTypes ==
  ASSUME Typed, NEW r \in Requests, video[r] \in Videos, NEW ok \in BOOLEAN,
         AfterDownload(r, ok)
  PROVE  /\ pc' \in [Requests -> Locations] /\ answer' \in [Requests -> Answers]
         /\ \A q \in Requests : q # r => pc'[q] = pc[q]
<1>1. Success({video[r]}, FALSE, {}, {video[r]}) \in Answers /\ Failure \in Answers
  BY AnswerTypes
<1> QED
  BY <1>1 DEF Typed, TypeOK, Locations

\* What is asked of /getrandom, capped and limited to what there is.
LEMMA CapBounds ==
  \A n \in Counts, total \in Nat : Min(Min(n, CountCap), total) \in 0..CountCap
<1>1. \A n, c, t \in Nat : Min(Min(n, c), t) \in 0..c
  OBVIOUS
<1>2. CountCap \in Nat /\ Counts \subseteq Nat
  BY ServerAssumption
<1> HIDE DEF Min
<1> QED
  BY <1>1, <1>2

\* Every step preserves the types, and a request that is to work on a song has one.
LEMMA TypedStep == Typed /\ [Next]_vars => Typed'
<1> SUFFICES ASSUME Typed, [Next]_vars PROVE Typed'
  OBVIOUS
<1> USE ServerAssumption, AnswerTypes
    DEF Typed, TypeOK, HasSong, WithSong, Locations, Locked
<1>1. ASSUME NEW r \in Requests, Reply(r) PROVE Typed'
  BY <1>1, DataTypes DEF Reply
<1>2. ASSUME NEW r \in Requests, BadRequest(r) PROVE Typed'
  BY <1>2 DEF BadRequest
<1>3. ASSUME NEW r \in Requests, HandleProcess(r) PROVE Typed'
  BY <1>3 DEF HandleProcess
<1>4. ASSUME NEW r \in Requests, ResolveVideoID(r) PROVE Typed'
  BY <1>4 DEF ResolveVideoID
<1>5. ASSUME NEW r \in Requests, SearchFails(r) PROVE Typed'
  BY <1>5 DEF SearchFails
<1>6. ASSUME NEW r \in Requests, FetchVideoMeta(r) PROVE Typed'
  BY <1>6 DEF FetchVideoMeta
<1>7. ASSUME NEW r \in Requests, SaveToDB(r) PROVE Typed'
  <2>1. req[r].good \cup {video[r]} \in SUBSET Videos
    BY <1>7, DataTypes DEF SaveToDB
  <2>2. /\ [req[r] EXCEPT !.good = req[r].good \cup {video[r]}] \in Data
        /\ [req[r] EXCEPT !.good = req[r].good] \in Data
    BY <2>1, DataTypes
  <2>3. PICK saved \in BOOLEAN : AfterSave(r, saved)
    BY <1>7 DEF SaveToDB
  <2>4. req' \in [Requests -> Data] /\ pc' \in [Requests -> Locations]
    <3>1. CASE req[r].list
      <4>1. \/ req' = [req EXCEPT ![r] = [req[r] EXCEPT !.good = req[r].good \cup {video[r]}]]
            \/ req' = [req EXCEPT ![r] = [req[r] EXCEPT !.good = req[r].good]]
        BY <2>3, <3>1
      <4>2. pc' \in [Requests -> Locations]
        BY <2>3, <3>1
      <4>3. req' \in [Requests -> Data]
        BY <2>2, <4>1
      <4> QED
        BY <4>2, <4>3
    <3>2. CASE ~req[r].list
      BY <2>3, <3>2
    <3> QED
      BY <3>1, <3>2
  <2> QED
    <3>1. /\ row' \in [Videos -> {"none", "active", "inactive"}]
          /\ column' \in [Videos -> {"title", "id"}] /\ failed' \subseteq Videos
          /\ UNCHANGED <<file, holder, video, answer, crashes, interrupted>>
      BY <1>7 DEF SaveToDB
    <3>2. \A q \in Requests : q # r => pc'[q] = pc[q]
      BY <2>3
    <3> QED
      BY <1>7, <2>4, <3>1, <3>2 DEF SaveToDB
<1>8. ASSUME NEW r \in Requests, Lock(r) PROVE Typed'
  BY <1>8 DEF Lock
<1>9. ASSUME NEW r \in Requests, Stat(r) PROVE Typed'
  <2>1. CASE file[Target(r)] # "absent"
    <3>1. AfterDownload(r, TRUE) /\ holder' = [holder EXCEPT ![Target(r)] = Nobody]
      BY <1>9, <2>1 DEF Stat
    <3>2. video[r] \in Videos /\ UNCHANGED <<table, file, video, req, history>>
      BY <1>9 DEF Stat
    <3> HIDE DEF AfterDownload
    <3> QED
      BY <3>1, <3>2, AfterDownloadTypes
  <2>2. CASE file[Target(r)] = "absent"
    BY <1>9, <2>2 DEF Stat
  <2> QED
    BY <2>1, <2>2
<1>10. ASSUME NEW r \in Requests, Download(r) PROVE Typed'
  BY <1>10 DEF Download
<1>11. ASSUME NEW r \in Requests, Truncate(r) PROVE Typed'
  BY <1>11 DEF Truncate
<1>12. ASSUME NEW r \in Requests, Fill(r) PROVE Typed'
  <2>1. /\ video[r] \in Videos /\ Target(r) \in Paths
        /\ holder' = [holder EXCEPT ![Target(r)] = Nobody]
        /\ UNCHANGED <<table, video, req, crashes, failed>>
    BY <1>12 DEF Fill, Target
  <2>2. /\ file' = [file EXCEPT ![Target(r)] = video[r]] \/ UNCHANGED file
        /\ interrupted' = interrupted \cup {Target(r)} \/ UNCHANGED interrupted
    BY <1>12 DEF Fill
  <2>3. PICK ok \in BOOLEAN : AfterDownload(r, ok)
    BY <1>12 DEF Fill
  <2> HIDE DEF AfterDownload
  <2> QED
    BY <2>1, <2>2, <2>3, AfterDownloadTypes
<1>13. ASSUME NEW r \in Requests, HandlePlaylist(r) PROVE Typed'
  <2>1. PICK s \in Playlists : req' = [req EXCEPT ![r].list = TRUE, ![r].todo = s]
    BY <1>13 DEF HandlePlaylist
  <2>2. [[req[r] EXCEPT !.list = TRUE] EXCEPT !.todo = s] \in Data
    BY DataTypes
  <2>3. req' \in [Requests -> Data]
    BY <2>1, <2>2
  <2> QED
    BY <1>13, <2>3 DEF HandlePlaylist
<1>14. ASSUME NEW r \in Requests, LookUp(r) PROVE Typed'
  <2> DEFINE rest == [req[r] EXCEPT !.todo = Tail(req[r].todo)]
             more == [rest EXCEPT !.found = Append(req[r].found, Head(req[r].todo))]
  <2>1. /\ req[r] \in Data /\ req[r].found \in Seq(Videos)
        /\ req[r].todo \in Seq(Videos) /\ req[r].todo # <<>>
    BY <1>14, DataTypes DEF LookUp
  <2>2. Tail(req[r].todo) \in Seq(Videos) /\ Head(req[r].todo) \in Videos
    BY <2>1
  <2>3. rest \in Data
    BY <2>1, <2>2, DataTypes
  <2>4. more \in Data
    <3>1. Append(req[r].found, Head(req[r].todo)) \in Seq(Videos)
      BY <2>1, <2>2
    <3> QED
      BY <2>3, <3>1, DataTypes
  <2>5. \/ req' = [req EXCEPT ![r] = rest]
        \/ req' = [req EXCEPT ![r] = more]
    BY <1>14, <2>1 DEF LookUp, Data
  <2>6. req' \in [Requests -> Data]
    BY <2>3, <2>4, <2>5
  <2> QED
    BY <1>14, <2>6 DEF LookUp
<1>15. ASSUME NEW r \in Requests, PageFails(r) PROVE Typed'
  BY <1>15 DEF PageFails
<1>16. ASSUME NEW r \in Requests, LastPage(r) PROVE Typed'
  <2>1. [req[r] EXCEPT !.todo = req[r].found] \in Data
    BY DataTypes
  <2>2. req' \in [Requests -> Data]
    BY <1>16, <2>1 DEF LastPage
  <2> QED
    BY <1>16, <2>2 DEF LastPage
<1>17. ASSUME NEW r \in Requests, NextItem(r) PROVE Typed'
  <2>1. req[r].todo \in Seq(Videos) /\ req[r].todo # <<>>
    BY <1>17, DataTypes DEF NextItem
  <2>2. Tail(req[r].todo) \in Seq(Videos) /\ Head(req[r].todo) \in Videos
    BY <2>1
  <2>3. [req[r] EXCEPT !.todo = Tail(req[r].todo)] \in Data
    BY <2>2, DataTypes
  <2>4. req' \in [Requests -> Data]
    BY <1>17, <2>3 DEF NextItem
  <2> QED
    BY <1>17, <2>2, <2>4 DEF NextItem
<1>18. ASSUME NEW r \in Requests, LastItem(r) PROVE Typed'
  <2>1. req[r].found \in Seq(Videos) /\ req[r].good \in SUBSET Videos
    BY DataTypes
  <2>2. SongsOf(req[r].found) \in SUBSET Videos
    BY <2>1
  <2>3. Success(SongsOf(req[r].found), req[r].found = <<>>, {}, req[r].good) \in Answers
    BY <2>1, <2>2 DEF Success, Answers
  <2> QED
    BY <1>18, <2>3 DEF LastItem
<1>19. ASSUME NEW r \in Requests, SelectRandom(r) PROVE Typed'
  <2>1. PICK S \in SUBSET Active :
          Answer(r, Success(S, S = {}, {v \in S : column[v] = "id"}, {}))
    BY <1>19 DEF SelectRandom
  <2>2. Success(S, S = {}, {v \in S : column[v] = "id"}, {}) \in Answers
    BY DEF Success, Answers, Active
  <2> QED
    BY <1>19, <2>1, <2>2 DEF SelectRandom
<1>20. ASSUME NEW r \in Requests, DatabaseFails(r) PROVE Typed'
  BY <1>20 DEF DatabaseFails
<1>21. ASSUME NEW r \in Requests, HandleDeactivate(r) PROVE Typed'
  <2>1. \A v \in Videos : Success({v}, FALSE, {}, {}) \in Answers
    BY DEF Success, Answers
  <2>2. PICK v \in Videos : row' = [row EXCEPT ![v] = "inactive"] \/ UNCHANGED row
    BY <1>21 DEF HandleDeactivate
  <2>3. \E a \in Answers : Answer(r, a)
    BY <1>21, <2>1, AnswerTypes DEF HandleDeactivate
  <2>4. UNCHANGED <<column, file, holder, video, req, history>>
    BY <1>21 DEF HandleDeactivate
  <2> QED
    BY <2>2, <2>3, <2>4
<1>22. ASSUME NEW r \in Requests, CountActive(r) PROVE Typed'
  <2> DEFINE total == Cardinality(Active)
             kept(n) == Min(Min(n, CountCap), total)
  <2>1. total \in Nat
    BY FS_CardinalityType, FS_Subset DEF Active
  <2>2. \A n \in Counts : kept(n) \in 0..CountCap
    BY <2>1, CapBounds
  <2>3. Success({}, FALSE, {}, {}) \in Answers
    BY DEF Success, Answers
  <2>4. \A n \in Counts : [req[r] EXCEPT !.wanted = kept(n)] \in Data
    <3> HIDE DEF kept
    <3> QED BY <2>2, DataTypes
  <2>5. PICK n \in Counts :
          \/ Answer(r, Success({}, FALSE, {}, {})) /\ UNCHANGED req
          \/ /\ req' = [req EXCEPT ![r] = [req[r] EXCEPT !.wanted = kept(n)]]
             /\ Goto(r, "select") /\ UNCHANGED answer
    BY <1>22 DEF CountActive
  <2>6. req' \in [Requests -> Data]
    <3> HIDE DEF kept
    <3> QED BY <2>4, <2>5
  <2>7. UNCHANGED <<table, file, holder, video, history>>
    BY <1>22 DEF CountActive
  <2>8. /\ pc' \in [Requests -> Locations] /\ answer' \in [Requests -> Answers]
        /\ \A q \in Requests : pc'[q] # pc[q] => pc'[q] \in {"answered", "select"}
    <3>1. \/ \E a \in Answers : Answer(r, a)
          \/ Goto(r, "select") /\ UNCHANGED answer
      BY <2>3, <2>5
    <3> QED
      BY <3>1
  <2> QED
    BY <2>6, <2>7, <2>8
<1>23. CASE Crash
  BY <1>23, DataTypes DEF Crash, Target
<1>24. CASE UNCHANGED vars
  BY <1>24 DEF vars
<1> QED
  BY <1>1, <1>2, <1>3, <1>4, <1>5, <1>6, <1>7, <1>8, <1>9, <1>10, <1>11, <1>12,
     <1>13, <1>14, <1>15, <1>16, <1>17, <1>18, <1>19, <1>20, <1>21, <1>22, <1>23, <1>24
  DEF Next, NewRequest, SongStep, DownloadStep, PlaylistStep

\* Every value has its type, in every state the server can be in.
THEOREM TypeCorrect == Spec => []TypeOK
<1>1. Typed => TypeOK
  BY DEF Typed
<1> QED
  BY InitTyped, TypedStep, <1>1, PTL DEF Spec
-----------------------------------------------------------------------------
(***************************************************************************)
(* Downloads exclude each other.                                           *)
(***************************************************************************)
\* A request between Lock and unlock holds the mutex of its file.
Held == \A r \in Requests : pc[r] \in Locked => holder[Target(r)] = r

\* A step of request r that has to do with neither mutexes nor files.
Quiet(r) ==
  /\ UNCHANGED <<file, holder, interrupted>>
  /\ pc[r] \notin Locked /\ pc'[r] \notin Locked
  /\ \A q \in Requests \ {r} : pc'[q] = pc[q] /\ video'[q] = video[q]

LEMMA QuietSteps ==
  ASSUME Typed, [Next]_vars
  PROVE  \/ \E r \in Requests : \/ Quiet(r)
                                \/ Lock(r) \/ Stat(r) \/ Download(r) \/ Truncate(r) \/ Fill(r)
         \/ Crash
         \/ UNCHANGED vars
<1> USE DEF Typed, TypeOK, Quiet, Locked
<1>1. ASSUME NEW r \in Requests, Reply(r) PROVE Quiet(r)
  BY <1>1 DEF Reply
<1>2. ASSUME NEW r \in Requests, BadRequest(r) PROVE Quiet(r)
  BY <1>2 DEF BadRequest
<1>3. ASSUME NEW r \in Requests, HandleProcess(r) PROVE Quiet(r)
  BY <1>3 DEF HandleProcess
<1>4. ASSUME NEW r \in Requests, ResolveVideoID(r) PROVE Quiet(r)
  BY <1>4 DEF ResolveVideoID
<1>5. ASSUME NEW r \in Requests, SearchFails(r) PROVE Quiet(r)
  BY <1>5 DEF SearchFails
<1>6. ASSUME NEW r \in Requests, FetchVideoMeta(r) PROVE Quiet(r)
  BY <1>6 DEF FetchVideoMeta
<1>7. ASSUME NEW r \in Requests, SaveToDB(r) PROVE Quiet(r)
  BY <1>7 DEF SaveToDB
<1>8. ASSUME NEW r \in Requests, HandlePlaylist(r) PROVE Quiet(r)
  BY <1>8 DEF HandlePlaylist
<1>9. ASSUME NEW r \in Requests, LookUp(r) PROVE Quiet(r)
  BY <1>9 DEF LookUp
<1>10. ASSUME NEW r \in Requests, PageFails(r) PROVE Quiet(r)
  BY <1>10 DEF PageFails
<1>11. ASSUME NEW r \in Requests, LastPage(r) PROVE Quiet(r)
  BY <1>11 DEF LastPage
<1>12. ASSUME NEW r \in Requests, NextItem(r) PROVE Quiet(r)
  BY <1>12 DEF NextItem
<1>13. ASSUME NEW r \in Requests, LastItem(r) PROVE Quiet(r)
  BY <1>13 DEF LastItem
<1>14. ASSUME NEW r \in Requests, CountActive(r) PROVE Quiet(r)
  BY <1>14 DEF CountActive
<1>15. ASSUME NEW r \in Requests, SelectRandom(r) PROVE Quiet(r)
  BY <1>15 DEF SelectRandom
<1>16. ASSUME NEW r \in Requests, DatabaseFails(r) PROVE Quiet(r)
  BY <1>16 DEF DatabaseFails
<1>17. ASSUME NEW r \in Requests, HandleDeactivate(r) PROVE Quiet(r)
  BY <1>17 DEF HandleDeactivate
<1> HIDE DEF Quiet
<1> QED
  BY <1>1, <1>2, <1>3, <1>4, <1>5, <1>6, <1>7, <1>8, <1>9,
     <1>10, <1>11, <1>12, <1>13, <1>14, <1>15, <1>16, <1>17
  DEF Next, NewRequest, SongStep, DownloadStep, PlaylistStep

\* Once ensureDownloaded has returned, r holds nothing.
LEMMA AfterDownloadUnlocked ==
  ASSUME Typed, NEW r \in Requests, NEW ok \in BOOLEAN, AfterDownload(r, ok)
  PROVE  pc'[r] \notin Locked /\ \A q \in Requests \ {r} : pc'[q] = pc[q]
BY DEF Typed, TypeOK, Locked

LEMMA HeldStep == Typed /\ Held /\ [Next]_vars => Held'
<1> SUFFICES ASSUME Typed, Held, [Next]_vars PROVE Held'
  OBVIOUS
<1> USE DEF Held, Target
<1>1. ASSUME NEW r \in Requests, Quiet(r) PROVE Held'
  BY <1>1 DEF Quiet
<1>2. ASSUME NEW r \in Requests, Lock(r) PROVE Held'
  <2>1. /\ video' = video /\ holder[Target(r)] = Nobody
        /\ holder' = [holder EXCEPT ![Target(r)] = r]
        /\ pc' = [pc EXCEPT ![r] = "stat"]
    BY <1>2 DEF Lock
  <2>2. Target(r) \in Paths
    BY <1>2, ServerAssumption DEF Lock, Typed, HasSong, WithSong
  <2>3. \A q \in Requests \ {r} : pc[q] \in Locked => Target(q) # Target(r)
    BY <2>1, ServerAssumption
  <2> QED
    BY <2>1, <2>2, <2>3 DEF Typed, TypeOK
<1>3. ASSUME NEW r \in Requests, pc[r] \in Locked, video' = video,
             holder' = [holder EXCEPT ![Target(r)] = Nobody],
             NEW ok \in BOOLEAN, AfterDownload(r, ok)
      PROVE  Held'
  <2>1. pc'[r] \notin Locked /\ \A q \in Requests \ {r} : pc'[q] = pc[q]
    BY <1>3, AfterDownloadUnlocked
  <2>2. \A q \in Requests \ {r} : pc[q] \in Locked => Target(q) # Target(r)
    BY <1>3
  <2> QED
    BY <1>3, <2>1, <2>2 DEF Typed, TypeOK
<1>4. ASSUME NEW r \in Requests, pc[r] \in Locked, NEW l \in Locked,
             Goto(r, l), UNCHANGED <<holder, video>>
      PROVE  Held'
  BY <1>4 DEF Typed, TypeOK
<1>5. ASSUME NEW r \in Requests, Stat(r) PROVE Held'
  BY <1>3, <1>4, <1>5 DEF Stat, Locked
<1>6. ASSUME NEW r \in Requests, Download(r) PROVE Held'
  BY <1>3, <1>4, <1>6 DEF Download, Locked
<1>7. ASSUME NEW r \in Requests, Truncate(r) PROVE Held'
  BY <1>4, <1>7 DEF Truncate, Locked
<1>8. ASSUME NEW r \in Requests, Fill(r) PROVE Held'
  BY <1>3, <1>8 DEF Fill, Locked
<1>9. CASE Crash
  BY <1>9 DEF Crash, Locked
<1>10. CASE UNCHANGED vars
  BY <1>10 DEF vars
<1> QED
  BY QuietSteps, <1>1, <1>2, <1>5, <1>6, <1>7, <1>8, <1>9, <1>10

\* Two requests never download to one file at a time: each holds its mutex.
THEOREM DownloadsExclude == Spec => []OneDownload
<1>1. Init => Held
  BY DEF Init, Held, Locked
<1>2. Held => OneDownload
  BY DEF Held, OneDownload
<1> QED
  BY InitTyped, TypedStep, HeldStep, <1>1, <1>2, PTL DEF Spec
-----------------------------------------------------------------------------
(***************************************************************************)
(* Files.                                                                  *)
(***************************************************************************)
\* What the holder of a mutex knows of its file.
Unwritten ==
  \A r \in Requests : /\ pc[r] \in {"download", "write"} => file[Target(r)] = "absent"
                      /\ pc[r] = "fill" => file[Target(r)] = "partial"

\* Somebody is filling a file that is there in part, or did not finish.
Traced ==
  \A p \in Paths : file[p] = "partial" =>
    p \in interrupted \/ \E r \in Requests : pc[r] = "fill" /\ Target(r) = p

Files == Typed /\ Held /\ Unwritten /\ Traced

\* A file that is as whole as it will ever be.
Arrived(p) == file[p] \in Videos \/ p \in interrupted

\* Nobody else works on the file of a request that holds its mutex.
LEMMA Exclusive ==
  ASSUME Held, NEW r \in Requests, pc[r] \in Locked, NEW q \in Requests \ {r},
         pc[q] \in Locked
  PROVE  Target(q) # Target(r)
BY DEF Held

LEMMA UnwrittenStep == Files /\ [Next]_vars => Unwritten'
<1> SUFFICES ASSUME Files, [Next]_vars PROVE Unwritten'
  OBVIOUS
<1> USE DEF Files, Unwritten, Target
<1>1. ASSUME NEW r \in Requests, Quiet(r) PROVE Unwritten'
  BY <1>1 DEF Quiet, Locked
<1>2. ASSUME NEW r \in Requests, Lock(r) PROVE Unwritten'
  BY <1>2 DEF Lock, Typed, TypeOK
<1>3. ASSUME NEW r \in Requests, UNCHANGED <<file, video>>,
             NEW ok \in BOOLEAN, AfterDownload(r, ok)
      PROVE  Unwritten'
  <2>1. pc'[r] \notin Locked /\ \A q \in Requests \ {r} : pc'[q] = pc[q]
    BY <1>3, AfterDownloadUnlocked
  <2> QED
    BY <1>3, <2>1 DEF Locked
<1>4. ASSUME NEW r \in Requests, Stat(r) PROVE Unwritten'
  <2>1. CASE file[Target(r)] # "absent"
    BY <1>3, <1>4, <2>1 DEF Stat
  <2>2. CASE file[Target(r)] = "absent"
    BY <1>4, <2>2 DEF Stat, Typed, TypeOK
  <2> QED
    BY <2>1, <2>2
<1>5. ASSUME NEW r \in Requests, Download(r) PROVE Unwritten'
  <2>1. CASE Goto(r, "write")
    BY <1>5, <2>1 DEF Download, Typed, TypeOK
  <2>2. CASE Return(r, FALSE)
    BY <1>3, <1>5, <2>2 DEF Download
  <2> QED
    BY <1>5, <2>1, <2>2 DEF Download
<1>6. ASSUME NEW r \in Requests, Truncate(r) PROVE Unwritten'
  <2>1. \A q \in Requests \ {r} : pc[q] \in Locked => Target(q) # Target(r)
    BY <1>6, Exclusive DEF Truncate, Locked
  <2>2. Target(r) \in Paths
    BY <1>6, ServerAssumption DEF Truncate, Typed, HasSong, WithSong, Locked
  <2> QED
    BY <1>6, <2>1, <2>2 DEF Truncate, Typed, TypeOK, Locked
<1>7. ASSUME NEW r \in Requests, Fill(r) PROVE Unwritten'
  <2>1. \A q \in Requests \ {r} : pc[q] \in Locked => Target(q) # Target(r)
    BY <1>7, Exclusive DEF Fill, Locked
  <2>2. PICK ok \in BOOLEAN : AfterDownload(r, ok)
    BY <1>7 DEF Fill
  <2>3. pc'[r] \notin Locked /\ \A q \in Requests \ {r} : pc'[q] = pc[q]
    BY <2>2, AfterDownloadUnlocked
  <2>4. /\ file' = [file EXCEPT ![Target(r)] = video[r]] \/ UNCHANGED file
        /\ video' = video
    BY <1>7 DEF Fill
  <2>5. ASSUME NEW q \in Requests \ {r}, pc[q] \in Locked
        PROVE  file'[Target(q)] = file[Target(q)]
    <3>1. Target(q) \in Paths
      BY <2>5, ServerAssumption DEF Typed, HasSong, WithSong
    <3> QED
      BY <2>1, <2>4, <2>5, <3>1 DEF Typed, TypeOK
  <2> QED
    BY <2>3, <2>4, <2>5 DEF Locked
<1>8. CASE Crash
  BY <1>8 DEF Crash
<1>9. CASE UNCHANGED vars
  BY <1>9 DEF vars
<1> QED
  BY QuietSteps, <1>1, <1>2, <1>4, <1>5, <1>6, <1>7, <1>8, <1>9

LEMMA TracedStep == Files /\ [Next]_vars => Traced'
<1> SUFFICES ASSUME Files, [Next]_vars PROVE Traced'
  OBVIOUS
<1> USE DEF Files, Traced, Target
\* A request that is not filling a file and does not touch one.
<1>1. ASSUME NEW r \in Requests, pc[r] # "fill", UNCHANGED <<file, interrupted>>,
             \A q \in Requests \ {r} : pc'[q] = pc[q] /\ video'[q] = video[q]
      PROVE  Traced'
  BY <1>1
<1>2. ASSUME NEW r \in Requests, Quiet(r) PROVE Traced'
  BY <1>1, <1>2 DEF Quiet, Locked
<1>3. ASSUME NEW r \in Requests, Lock(r) PROVE Traced'
  BY <1>1, <1>3 DEF Lock, Typed, TypeOK
<1>4. ASSUME NEW r \in Requests, Stat(r) PROVE Traced'
  <2>1. CASE file[Target(r)] # "absent"
    <3>1. AfterDownload(r, TRUE) /\ pc[r] = "stat" /\ UNCHANGED <<file, video, interrupted>>
      BY <1>4, <2>1 DEF Stat
    <3>2. \A q \in Requests \ {r} : pc'[q] = pc[q]
      BY <3>1, AfterDownloadUnlocked
    <3> HIDE DEF AfterDownload, Traced, Files
    <3> QED
      BY <1>1, <3>1, <3>2
  <2>2. CASE file[Target(r)] = "absent"
    BY <1>1, <1>4, <2>2 DEF Stat, Typed, TypeOK
  <2> QED
    BY <2>1, <2>2
<1>5. ASSUME NEW r \in Requests, Download(r) PROVE Traced'
  <2>1. CASE Goto(r, "write")
    BY <1>1, <1>5, <2>1 DEF Download, Typed, TypeOK
  <2>2. CASE AfterDownload(r, FALSE)
    <3>1. \A q \in Requests \ {r} : pc'[q] = pc[q]
      BY <2>2, AfterDownloadUnlocked
    <3>2. pc[r] = "download" /\ UNCHANGED <<file, video, interrupted>>
      BY <1>5 DEF Download
    <3> HIDE DEF AfterDownload, Traced, Files
    <3> QED
      BY <1>1, <3>1, <3>2
  <2> QED
    BY <1>5, <2>1, <2>2 DEF Download
<1>6. ASSUME NEW r \in Requests, Truncate(r) PROVE Traced'
  BY <1>6 DEF Truncate, Typed, TypeOK
<1>7. ASSUME NEW r \in Requests, Fill(r) PROVE Traced'
  <2>1. PICK ok \in BOOLEAN : AfterDownload(r, ok)
    BY <1>7 DEF Fill
  <2>2. \A q \in Requests \ {r} : pc'[q] = pc[q]
    BY <2>1, AfterDownloadUnlocked
  <2>3. /\ video' = video /\ video[r] \in Videos
        /\ \/ file' = [file EXCEPT ![Target(r)] = video[r]] /\ UNCHANGED interrupted
           \/ interrupted' = interrupted \cup {Target(r)} /\ UNCHANGED file
    BY <1>7 DEF Fill, Typed, HasSong, WithSong, Locked
  <2> QED
    BY <2>2, <2>3, ServerAssumption DEF Typed, TypeOK
<1>8. CASE Crash
  BY <1>8 DEF Crash
<1>9. CASE UNCHANGED vars
  BY <1>9 DEF vars
<1> QED
  BY QuietSteps, <1>2, <1>3, <1>4, <1>5, <1>6, <1>7, <1>8, <1>9

\* Only a file that is not there, or is being filled, is written to.
LEMMA FileStep ==
  Files /\ [Next]_vars =>
    /\ interrupted \subseteq interrupted'
    /\ \A p \in Paths : file[p] \in Videos => file'[p] = file[p]
<1> SUFFICES ASSUME Files, [Next]_vars
             PROVE  /\ interrupted \subseteq interrupted'
                    /\ \A p \in Paths : file[p] \in Videos => file'[p] = file[p]
  OBVIOUS
<1>1. ASSUME NEW r \in Requests, Truncate(r) \/ Fill(r)
      PROVE  /\ interrupted \subseteq interrupted'
             /\ \A p \in Paths \ {Target(r)} : file'[p] = file[p]
             /\ file[Target(r)] \in {"absent", "partial"}
  BY <1>1 DEF Truncate, Fill, Files, Typed, TypeOK, Unwritten
<1>2. ASSUME NEW r \in Requests, Quiet(r) \/ Lock(r) \/ Stat(r) \/ Download(r)
      PROVE  UNCHANGED <<file, interrupted>>
  BY <1>2 DEF Quiet, Lock, Stat, Download
<1>3. CASE Crash
  BY <1>3 DEF Crash
<1>4. CASE UNCHANGED vars
  BY <1>4 DEF vars
<1> QED
  BY QuietSteps, <1>1, <1>2, <1>3, <1>4, ServerAssumption DEF Files

LEMMA InitFiles == Init => Files
BY InitTyped, ServerAssumption DEF Init, Files, Held, Unwritten, Traced, Locked

LEMMA FilesStep == Files /\ [Next]_vars => Files'
BY TypedStep, HeldStep, UnwrittenStep, TracedStep DEF Files

-----------------------------------------------------------------------------
(***************************************************************************)
(* What answers say of files.                                              *)
(***************************************************************************)
\* Before a request is known to be for a playlist, it is for a song.
Single == \A r \in Requests : pc[r] \in {"idle", "search", "meta"} => ~req[r].list

\* A playlist's song that is about to count as a success, those that did, and those
\* that an answer calls downloaded have arrived.
Claims(r) ==
  /\ pc[r] = "save" /\ req[r].list => Arrived(Target(r))
  /\ \A v \in req[r].good : Arrived(PathOf[v])
  /\ \A v \in answer[r].done : Arrived(PathOf[v])

Told == Files /\ Single /\ \A r \in Requests : Claims(r)

LEMMA ArrivedStays ==
  ASSUME Files, [Next]_vars, NEW p \in Paths, Arrived(p)
  PROVE  Arrived(p)'
BY FileStep DEF Arrived

LEMMA SingleStep == Typed /\ Single /\ [Next]_vars => Single'
<1> SUFFICES ASSUME Typed, Single, [Next]_vars PROVE Single'
  OBVIOUS
<1> USE DEF Single, Typed, TypeOK
<1>1. ASSUME NEW r \in Requests, Reply(r) PROVE Single'
  BY <1>1 DEF Reply, NoData
<1>2. ASSUME NEW r \in Requests, BadRequest(r) PROVE Single'
  BY <1>2 DEF BadRequest
<1>3. ASSUME NEW r \in Requests, HandleProcess(r) PROVE Single'
  BY <1>3 DEF HandleProcess
<1>4. ASSUME NEW r \in Requests, ResolveVideoID(r) PROVE Single'
  BY <1>4 DEF ResolveVideoID
<1>5. ASSUME NEW r \in Requests, SearchFails(r) PROVE Single'
  BY <1>5 DEF SearchFails
<1>6. ASSUME NEW r \in Requests, FetchVideoMeta(r) PROVE Single'
  BY <1>6 DEF FetchVideoMeta
<1>7. ASSUME NEW r \in Requests, SaveToDB(r) PROVE Single'
  BY <1>7 DEF SaveToDB
<1>8. ASSUME NEW r \in Requests, Lock(r) PROVE Single'
  BY <1>8 DEF Lock
<1>9. ASSUME NEW r \in Requests, Stat(r) PROVE Single'
  BY <1>9 DEF Stat
<1>10. ASSUME NEW r \in Requests, Download(r) PROVE Single'
  BY <1>10 DEF Download
<1>11. ASSUME NEW r \in Requests, Truncate(r) PROVE Single'
  BY <1>11 DEF Truncate
<1>12. ASSUME NEW r \in Requests, Fill(r) PROVE Single'
  BY <1>12 DEF Fill
<1>13. ASSUME NEW r \in Requests, HandlePlaylist(r) PROVE Single'
  BY <1>13 DEF HandlePlaylist
<1>14. ASSUME NEW r \in Requests, LookUp(r) PROVE Single'
  BY <1>14 DEF LookUp
<1>15. ASSUME NEW r \in Requests, PageFails(r) PROVE Single'
  BY <1>15 DEF PageFails
<1>16. ASSUME NEW r \in Requests, LastPage(r) PROVE Single'
  BY <1>16 DEF LastPage
<1>17. ASSUME NEW r \in Requests, NextItem(r) PROVE Single'
  BY <1>17 DEF NextItem
<1>18. ASSUME NEW r \in Requests, LastItem(r) PROVE Single'
  BY <1>18 DEF LastItem
<1>19. ASSUME NEW r \in Requests, CountActive(r) PROVE Single'
  BY <1>19 DEF CountActive
<1>20. ASSUME NEW r \in Requests, SelectRandom(r) PROVE Single'
  BY <1>20 DEF SelectRandom
<1>21. ASSUME NEW r \in Requests, DatabaseFails(r) PROVE Single'
  BY <1>21 DEF DatabaseFails
<1>22. ASSUME NEW r \in Requests, HandleDeactivate(r) PROVE Single'
  BY <1>22 DEF HandleDeactivate
<1>23. CASE Crash
  BY <1>23 DEF Crash, NoData
<1>24. CASE UNCHANGED vars
  BY <1>24 DEF vars
<1> QED
  BY <1>1, <1>2, <1>3, <1>4, <1>5, <1>6, <1>7, <1>8, <1>9, <1>10, <1>11, <1>12,
     <1>13, <1>14, <1>15, <1>16, <1>17, <1>18, <1>19, <1>20, <1>21, <1>22, <1>23, <1>24
  DEF Next, NewRequest, SongStep, DownloadStep, PlaylistStep

\* A step after which q claims nothing that it did not claim before.
NoNews(q) ==
  /\ pc'[q] = "save" /\ req'[q].list => /\ pc[q] = "save" /\ req[q].list
                                        /\ video'[q] = video[q]
  /\ req'[q].good \subseteq req[q].good
  /\ answer'[q].done \subseteq answer[q].done

LEMMA OldClaims ==
  ASSUME Files, [Next]_vars, NEW q \in Requests, Claims(q), NoNews(q)
  PROVE  Claims(q)'
<1>1. \A v \in Videos : PathOf[v] \in Paths
  BY ServerAssumption
<1>2. req[q].good \subseteq Videos /\ answer[q].done \subseteq Videos
  BY DEF Files, Typed, TypeOK, Data, Answers
<1>3. pc[q] = "save" => video[q] \in Videos
  BY DEF Files, Typed, HasSong, WithSong
<1> QED
  BY <1>1, <1>2, <1>3, ArrivedStays DEF Claims, NoNews, Target

\* The songs counted as successes stay when another field changes.
LEMMA GoodKept ==
  ASSUME NEW d \in Data, NEW x
  PROVE  /\ [d EXCEPT !.todo = x].good = d.good /\ [d EXCEPT !.found = x].good = d.good
         /\ [d EXCEPT !.wanted = x].good = d.good
BY DEF Data

\* Only a download that succeeded, the row of a playlist's song and the end of a
\* playlist bring news.
LEMMA SilentSteps ==
  ASSUME Typed, Single, [Next]_vars
  PROVE  \/ \A q \in Requests : NoNews(q)
         \/ \E r \in Requests : Stat(r) \/ Fill(r) \/ SaveToDB(r) \/ LastItem(r)
<1> USE DEF Typed, TypeOK, NoNews, Data
\* A request goes elsewhere than to the table, with an answer that names no song as
\* downloaded or none.
<1>0. ASSUME NEW r \in Requests, NEW l, l # "save", Goto(r, l), UNCHANGED <<video, req>>,
             NEW a, a.done = {}, UNCHANGED answer \/ answer' = [answer EXCEPT ![r] = a]
      PROVE  \A q \in Requests : NoNews(q)
  BY <1>0
<1>1. ASSUME NEW r \in Requests, Reply(r) PROVE \A q \in Requests : NoNews(q)
  BY <1>1 DEF Reply, NoData, Failure
<1>2. ASSUME NEW r \in Requests, BadRequest(r) PROVE \A q \in Requests : NoNews(q)
  BY <1>2 DEF BadRequest, Failure
<1>3. ASSUME NEW r \in Requests, HandleProcess(r) PROVE \A q \in Requests : NoNews(q)
  BY <1>3 DEF HandleProcess
<1>4. ASSUME NEW r \in Requests, ResolveVideoID(r) PROVE \A q \in Requests : NoNews(q)
  BY <1>4 DEF ResolveVideoID
<1>5. ASSUME NEW r \in Requests, SearchFails(r) PROVE \A q \in Requests : NoNews(q)
  BY <1>5 DEF SearchFails, Failure
<1>6. ASSUME NEW r \in Requests, FetchVideoMeta(r) PROVE \A q \in Requests : NoNews(q)
  <2>1. CASE Answer(r, Failure)
    BY <1>0, <1>6, <2>1 DEF FetchVideoMeta, Failure
  <2>2. CASE Goto(r, "save") /\ UNCHANGED answer
    <3>1. ~req[r].list /\ UNCHANGED <<video, req>>
      BY <1>6 DEF FetchVideoMeta, Single
    <3> QED
      BY <2>2, <3>1
  <2> QED
    BY <1>6, <2>1, <2>2 DEF FetchVideoMeta
<1>7. ASSUME NEW r \in Requests, Lock(r) PROVE \A q \in Requests : NoNews(q)
  BY <1>7 DEF Lock
<1>8. ASSUME NEW r \in Requests, Download(r) PROVE \A q \in Requests : NoNews(q)
  <2>1. CASE Goto(r, "write") /\ UNCHANGED answer
    BY <1>0, <1>8, <2>1 DEF Download, Failure
  <2>2. CASE AfterDownload(r, FALSE)
    <3>1. UNCHANGED <<video, req>>
      BY <1>8 DEF Download
    <3> QED
      BY <2>2, <3>1 DEF Failure
  <2> QED
    BY <1>8, <2>1, <2>2 DEF Download
<1>9. ASSUME NEW r \in Requests, Truncate(r) PROVE \A q \in Requests : NoNews(q)
  BY <1>9 DEF Truncate
<1>10. ASSUME NEW r \in Requests, HandlePlaylist(r) PROVE \A q \in Requests : NoNews(q)
  BY <1>10 DEF HandlePlaylist
<1>11. ASSUME NEW r \in Requests, LookUp(r) PROVE \A q \in Requests : NoNews(q)
  <2>1. UNCHANGED <<pc, video, answer>> /\ pc[r] = "pages"
    BY <1>11 DEF LookUp
  <2> DEFINE rest == [req[r] EXCEPT !.todo = Tail(req[r].todo)]
             more == [rest EXCEPT !.found = Append(req[r].found, Head(req[r].todo))]
  <2>2. req[r] \in Data /\ req[r].todo \in Seq(Videos) /\ req[r].todo # <<>>
    BY <1>11, DataTypes DEF LookUp
  <2>3. rest \in Data
    <3>1. Tail(req[r].todo) \in Seq(Videos)
      BY <2>2
    <3> QED
      BY <2>2, <3>1, DataTypes
  <2>4. rest.good = req[r].good /\ more.good = req[r].good
    <3> HIDE DEF Data
    <3> QED
      BY <2>2, <2>3, GoodKept
  <2>5. \/ req' = [req EXCEPT ![r] = rest]
        \/ req' = [req EXCEPT ![r] = more]
    BY <1>11, <2>2 DEF LookUp, Data
  <2> HIDE DEF rest, more
  <2> QED
    BY <2>1, <2>4, <2>5
<1>12. ASSUME NEW r \in Requests, PageFails(r) PROVE \A q \in Requests : NoNews(q)
  BY <1>12 DEF PageFails, Failure
<1>13. ASSUME NEW r \in Requests, LastPage(r) PROVE \A q \in Requests : NoNews(q)
  BY <1>13 DEF LastPage
<1>14. ASSUME NEW r \in Requests, NextItem(r) PROVE \A q \in Requests : NoNews(q)
  BY <1>14 DEF NextItem
<1>15. ASSUME NEW r \in Requests, CountActive(r) PROVE \A q \in Requests : NoNews(q)
  <2>1. \/ Answer(r, Success({}, FALSE, {}, {})) /\ UNCHANGED req
        \/ /\ \E w : req' = [req EXCEPT ![r].wanted = w]
           /\ Goto(r, "select") /\ UNCHANGED answer
    <3>1. PICK n \in Counts :
            \/ Answer(r, Success({}, FALSE, {}, {})) /\ UNCHANGED req
            \/ /\ req' = [req EXCEPT ![r].wanted = Min(Min(n, CountCap), Cardinality(Active))]
               /\ Goto(r, "select") /\ UNCHANGED answer
      BY <1>15 DEF CountActive
    <3> DEFINE w == Min(Min(n, CountCap), Cardinality(Active))
    <3>2. w = Min(Min(n, CountCap), Cardinality(Active))
      OBVIOUS
    <3> HIDE DEF w
    <3> QED
      BY <3>1, <3>2, Zenon
  <2>2. CASE Answer(r, Success({}, FALSE, {}, {})) /\ UNCHANGED req
    BY <1>0, <1>15, <2>2 DEF CountActive, Success
  <2>3. ASSUME NEW w, req' = [req EXCEPT ![r].wanted = w]
        PROVE  \A q \in Requests : req'[q].good = req[q].good
    <3> DEFINE d == [req[r] EXCEPT !.wanted = w]
    <3>1. d.good = req[r].good
      BY GoodKept
    <3>2. req' = [req EXCEPT ![r] = d]
      BY <2>3
    <3> HIDE DEF d
    <3> QED
      BY <3>1, <3>2
  <2>4. UNCHANGED video
    BY <1>15 DEF CountActive
  <2>5. ASSUME NEW w, req' = [req EXCEPT ![r].wanted = w], Goto(r, "select"), UNCHANGED answer
        PROVE  \A q \in Requests : NoNews(q)
    <3>1. \A q \in Requests : req'[q].good = req[q].good
      BY <2>3, <2>5
    <3>2. pc'[r] = "select" /\ \A q \in Requests \ {r} : pc'[q] = pc[q] /\ req'[q] = req[q]
      BY <2>5
    <3> QED
      BY <2>4, <2>5, <3>1, <3>2
  <2> HIDE DEF NoNews
  <2> QED
    BY <2>1, <2>2, <2>5
<1>16. ASSUME NEW r \in Requests, SelectRandom(r) PROVE \A q \in Requests : NoNews(q)
  BY <1>16 DEF SelectRandom, Success
<1>17. ASSUME NEW r \in Requests, DatabaseFails(r) PROVE \A q \in Requests : NoNews(q)
  BY <1>17 DEF DatabaseFails, Failure
<1>18. ASSUME NEW r \in Requests, HandleDeactivate(r) PROVE \A q \in Requests : NoNews(q)
  <2>1. \/ Answer(r, Failure)
        \/ \E v \in Videos : Answer(r, Success({v}, FALSE, {}, {}))
    BY <1>18 DEF HandleDeactivate
  <2>2. UNCHANGED <<video, req>>
    BY <1>18 DEF HandleDeactivate
  <2> QED
    BY <1>0, <2>1, <2>2 DEF Failure, Success
<1>19. CASE Crash
  BY <1>19 DEF Crash, NoData, Failure
<1>20. CASE UNCHANGED vars
  BY <1>20 DEF vars
<1> HIDE DEF NoNews
<1> QED
  BY <1>1, <1>2, <1>3, <1>4, <1>5, <1>6, <1>7, <1>8, <1>9, <1>10, <1>11, <1>12, <1>13, <1>14,
     <1>15, <1>16, <1>17, <1>18, <1>19, <1>20
  DEF Next, NewRequest, SongStep, DownloadStep, PlaylistStep

\* The file of a request that has the mutex is not half written by anybody else.
LEMMA PresentIsWhole ==
  ASSUME Files, NEW r \in Requests, pc[r] = "stat", file[Target(r)] # "absent"
  PROVE  Arrived(Target(r))
<1>1. Target(r) \in Paths
  BY ServerAssumption DEF Files, Typed, HasSong, WithSong, Locked, Target
<1>2. file[Target(r)] \in {"partial"} \cup Videos
  BY <1>1 DEF Files, Typed, TypeOK
<1>3. ASSUME file[Target(r)] = "partial" PROVE Target(r) \in interrupted
  <2>1. ~\E q \in Requests : pc[q] = "fill" /\ Target(q) = Target(r)
    BY Exclusive DEF Files, Locked
  <2> QED
    BY <1>1, <1>3, <2>1 DEF Files, Traced
<1> QED
  BY <1>2, <1>3 DEF Arrived

\* Once the song of r has arrived, the answer or the row may say so.
LEMMA SuccessClaims ==
  ASSUME Files, [Next]_vars, NEW r \in Requests, pc[r] \in Locked, Claims(r),
         AfterDownload(r, TRUE), UNCHANGED <<video, req>>, Arrived(Target(r))'
  PROVE  Claims(r)'
<1>1. \A v \in req[r].good : Arrived(PathOf[v])'
  BY ServerAssumption, ArrivedStays DEF Claims, Files, Typed, TypeOK, Data
<1>2. \A v \in answer[r].done : Arrived(PathOf[v])'
  BY ServerAssumption, ArrivedStays DEF Claims, Files, Typed, TypeOK, Answers
<1>3. CASE req[r].list
  <2>1. answer' = answer
    BY <1>3
  <2> QED
    BY <1>1, <1>2, <2>1 DEF Claims
<1>4. CASE ~req[r].list
  <2>1. answer'[r].done = {video[r]}
    BY <1>4 DEF Files, Typed, TypeOK, Success
  <2> QED
    BY <1>1, <1>4, <2>1 DEF Claims, Target
<1> QED
  BY <1>3, <1>4

\* A download that failed claims nothing.
LEMMA FailureSilent ==
  ASSUME Typed, NEW r \in Requests, AfterDownload(r, FALSE), UNCHANGED <<video, req>>
  PROVE  NoNews(r)
BY DEF Typed, TypeOK, NoNews, Failure

LEMMA ClaimsStep ==
  ASSUME Told, [Next]_vars, NEW q \in Requests
  PROVE  Claims(q)'
<1> USE DEF Told
<1>1. ASSUME NoNews(q) PROVE Claims(q)'
  BY <1>1, OldClaims
<1>2. ASSUME NEW r \in Requests, Stat(r) PROVE Claims(q)'
  <2>1. CASE file[Target(r)] # "absent" /\ q = r
    <3>1. Arrived(Target(r))'
      BY <1>2, <2>1, PresentIsWhole DEF Stat, Arrived, Target
    <3> QED
      BY <1>2, <2>1, <3>1, SuccessClaims DEF Stat, Locked
  <2>2. CASE file[Target(r)] = "absent" \/ q # r
    <3>1. NoNews(q)
      BY <1>2, <2>2 DEF Stat, NoNews, Files, Typed, TypeOK
    <3> QED
      BY <1>1, <3>1
  <2> QED
    BY <2>1, <2>2
<1>3. ASSUME NEW r \in Requests, Fill(r) PROVE Claims(q)'
  <2>1. CASE q # r
    <3>1. NoNews(q)
      BY <1>3, <2>1 DEF Fill, NoNews, Files, Typed, TypeOK
    <3> QED
      BY <1>1, <3>1
  <2>2. CASE q = r /\ Return(r, FALSE)
    BY <1>1, <1>3, <2>2, FailureSilent DEF Fill, Files
  <2>3. CASE q = r /\ file' = [file EXCEPT ![Target(r)] = video[r]] /\ Return(r, TRUE)
    <3>1. video[r] \in Videos /\ Target(r) \in Paths
      BY <1>3, ServerAssumption DEF Fill, Files, Typed, HasSong, WithSong, Locked, Target
    <3>2. Arrived(Target(r))'
      BY <1>3, <2>3, <3>1 DEF Fill, Files, Typed, TypeOK, Arrived, Target
    <3> QED
      BY <1>3, <2>3, <3>2, SuccessClaims DEF Fill, Locked
  <2> QED
    BY <1>3, <2>1, <2>2, <2>3 DEF Fill
<1>4. ASSUME NEW r \in Requests, SaveToDB(r) PROVE Claims(q)'
  <2>1. CASE q = r /\ req[r].list
    <3>1. /\ video[r] \in Videos /\ pc[r] = "save" /\ pc'[r] = "item"
          /\ req'[r].good \subseteq req[r].good \cup {video[r]}
          /\ UNCHANGED <<file, interrupted, answer>>
      BY <1>4, <2>1 DEF SaveToDB, Files, Typed, TypeOK, HasSong, WithSong, Data
    <3> QED
      BY <2>1, <3>1 DEF Claims, Arrived, Target
  <2>2. CASE ~(q = r /\ req[r].list)
    <3>1. NoNews(q)
      BY <1>4, <2>2 DEF SaveToDB, NoNews, Files, Typed, TypeOK
    <3> QED
      BY <1>1, <3>1
  <2> QED
    BY <2>1, <2>2
<1>5. ASSUME NEW r \in Requests, LastItem(r) PROVE Claims(q)'
  <2>1. CASE q = r
    <3>1. /\ answer'[r].done = req[r].good /\ pc'[r] = "answered"
          /\ UNCHANGED <<file, interrupted, req>>
      BY <1>5 DEF LastItem, Files, Typed, TypeOK, Success
    <3> QED
      BY <2>1, <3>1 DEF Claims, Arrived
  <2>2. CASE q # r
    <3>1. NoNews(q)
      BY <1>5, <2>2 DEF LastItem, NoNews, Files, Typed, TypeOK
    <3> QED
      BY <1>1, <3>1
  <2> QED
    BY <2>1, <2>2
<1> QED
  BY <1>1, <1>2, <1>3, <1>4, <1>5, SilentSteps DEF Files

LEMMA InitTold == Init => Told
BY InitFiles DEF Init, Told, Single, Claims, NoData, Failure

LEMMA ToldKept == Told /\ [Next]_vars => Told'
BY FilesStep, SingleStep, ClaimsStep DEF Told, Files

\* A song that an answer says is downloaded is there to its end, unless a write of its
\* file did once not finish.
THEOREM AnswersTrue == Spec => []SuccessIsWhole
<1>1. Told => SuccessIsWhole
  BY DEF Told, Claims, Arrived, SuccessIsWhole
<1> QED
  BY <1>1, InitTold, ToldKept, PTL DEF Spec

\* A file only ever holds a song that is named by it.
Fitting == \A p \in Paths : file[p] \in Videos => PathOf[file[p]] = p

LEMMA FittingStep == Typed /\ Fitting /\ [Next]_vars => Fitting'
<1> SUFFICES ASSUME Typed, Fitting, [Next]_vars PROVE Fitting'
  OBVIOUS
<1>1. ASSUME UNCHANGED file PROVE Fitting'
  BY <1>1 DEF Fitting
<1>2. ASSUME NEW r \in Requests, Quiet(r) \/ Lock(r) \/ Stat(r) \/ Download(r) PROVE Fitting'
  BY <1>1, <1>2 DEF Quiet, Lock, Stat, Download
<1>3. ASSUME NEW r \in Requests, Truncate(r) PROVE Fitting'
  BY <1>3, ServerAssumption DEF Truncate, Fitting, Typed, TypeOK
<1>4. ASSUME NEW r \in Requests, Fill(r) PROVE Fitting'
  <2>1. file' = file \/ file' = [file EXCEPT ![PathOf[video[r]]] = video[r]]
    BY <1>4 DEF Fill, Target
  <2>2. DOMAIN file = Paths
    BY DEF Typed, TypeOK
  <2> QED
    BY <2>1, <2>2 DEF Fitting
<1>5. CASE Crash \/ UNCHANGED vars
  BY <1>1, <1>5 DEF Crash, vars
<1> QED
  BY QuietSteps, <1>2, <1>3, <1>4, <1>5

LEMMA Fits == Spec => []Fitting
<1>1. Init => Fitting
  BY ServerAssumption DEF Init, Fitting
<1> QED
  BY <1>1, InitTyped, TypedStep, FittingStep, PTL DEF Spec

\* Files are named by sanitised titles, which two songs may share: what an answer calls
\* downloaded is that song or one of the same name, and no other, unless a write of the
\* file did once not finish.
Namesakes ==
  \A r \in Requests : \A v \in answer[r].done :
    \/ PathOf[v] \in interrupted
    \/ \E u \in Videos : file[PathOf[v]] = u /\ PathOf[u] = PathOf[v]

THEOREM OnlyNamesakes == Spec => []Namesakes
<1>1. Told /\ Fitting => Namesakes
  <2>1. Typed => \A r \in Requests : answer[r].done \subseteq Videos
    BY DEF Typed, TypeOK, Answers
  <2> QED
    BY <2>1, ServerAssumption DEF Told, Files, Claims, Arrived, Fitting, Namesakes
<1> QED
  BY <1>1, InitTold, ToldKept, Fits, PTL DEF Spec

\* So shared names are all that can make an answer speak of another song than its file has.
Distinct == \A u, v \in Videos : PathOf[u] = PathOf[v] => u = v

THEOREM OneNameOneSong == Spec => [](Distinct => FileIsTheVideo)
<1>1. Typed /\ Namesakes => (Distinct => FileIsTheVideo)
  <2>1. Typed => \A r \in Requests : answer[r].done \subseteq Videos
    BY DEF Typed, TypeOK, Answers
  <2> QED
    BY <2>1 DEF Namesakes, Distinct, FileIsTheVideo
<1> QED
  BY <1>1, InitTyped, TypedStep, OnlyNamesakes, PTL DEF Spec

-----------------------------------------------------------------------------
(***************************************************************************)
(* The abstract library.                                                   *)
(***************************************************************************)
\* A file that was given up is there in part, and nobody is filling it.
Abandoned ==
  \A p \in interrupted : /\ file[p] = "partial"
                         /\ \A r \in Requests : pc[r] = "fill" => Target(r) # p

LEMMA AbandonedStep == Files /\ Abandoned /\ [Next]_vars => Abandoned'
<1> SUFFICES ASSUME Files, Abandoned, [Next]_vars PROVE Abandoned'
  OBVIOUS
<1> USE DEF Files, Abandoned, Target
<1>1. ASSUME NEW r \in Requests, pc'[r] # "fill", UNCHANGED <<file, interrupted>>,
             \A q \in Requests \ {r} : pc'[q] = pc[q] /\ video'[q] = video[q]
      PROVE  Abandoned'
  BY <1>1
<1>2. ASSUME NEW r \in Requests, Quiet(r) PROVE Abandoned'
  BY <1>1, <1>2 DEF Quiet, Locked
<1>3. ASSUME NEW r \in Requests, Lock(r) PROVE Abandoned'
  BY <1>1, <1>3 DEF Lock, Typed, TypeOK
<1>4. ASSUME NEW r \in Requests, Stat(r) PROVE Abandoned'
  <2>1. CASE file[Target(r)] # "absent"
    <3>1. AfterDownload(r, TRUE) /\ UNCHANGED <<file, video, interrupted>>
      BY <1>4, <2>1 DEF Stat
    <3>2. pc'[r] \notin Locked /\ \A q \in Requests \ {r} : pc'[q] = pc[q]
      BY <3>1, AfterDownloadUnlocked
    <3>3. pc'[r] # "fill"
      BY <3>2 DEF Locked
    <3> HIDE DEF AfterDownload, Abandoned, Files
    <3> QED
      BY <1>1, <3>1, <3>2, <3>3
  <2>2. CASE file[Target(r)] = "absent"
    BY <1>1, <1>4, <2>2 DEF Stat, Typed, TypeOK
  <2> QED
    BY <2>1, <2>2
<1>5. ASSUME NEW r \in Requests, Download(r) PROVE Abandoned'
  <2>1. CASE Goto(r, "write")
    BY <1>1, <1>5, <2>1 DEF Download, Typed, TypeOK
  <2>2. CASE AfterDownload(r, FALSE)
    <3>1. pc'[r] \notin Locked /\ \A q \in Requests \ {r} : pc'[q] = pc[q]
      BY <2>2, AfterDownloadUnlocked
    <3>2. pc'[r] # "fill" /\ UNCHANGED <<file, video, interrupted>>
      BY <1>5, <3>1 DEF Download, Locked
    <3> HIDE DEF AfterDownload, Abandoned, Files
    <3> QED
      BY <1>1, <3>1, <3>2
  <2> QED
    BY <1>5, <2>1, <2>2 DEF Download
<1>6. ASSUME NEW r \in Requests, Truncate(r) PROVE Abandoned'
  <2>1. file[Target(r)] = "absent" /\ interrupted' = interrupted
    BY <1>6 DEF Truncate, Unwritten
  <2>2. Target(r) \notin interrupted
    BY <2>1
  <2> QED
    BY <1>6, <2>1, <2>2 DEF Truncate, Typed, TypeOK
<1>7. ASSUME NEW r \in Requests, Fill(r) PROVE Abandoned'
  <2>1. PICK ok \in BOOLEAN : AfterDownload(r, ok)
    BY <1>7 DEF Fill
  <2>2. pc'[r] # "fill" /\ \A q \in Requests \ {r} : pc'[q] = pc[q]
    BY <2>1, AfterDownloadUnlocked DEF Locked
  <2>3. \A q \in Requests \ {r} : pc[q] = "fill" => Target(q) # Target(r)
    BY <1>7, Exclusive DEF Fill, Locked
  <2>4. file[Target(r)] = "partial" /\ Target(r) \notin interrupted
    BY <1>7 DEF Fill, Unwritten
  <2>5. /\ video' = video
        /\ \/ file' = [file EXCEPT ![Target(r)] = video[r]] /\ UNCHANGED interrupted
           \/ interrupted' = interrupted \cup {Target(r)} /\ UNCHANGED file
    BY <1>7 DEF Fill
  <2> QED
    BY <2>2, <2>3, <2>4, <2>5 DEF Typed, TypeOK
<1>8. CASE Crash
  <2>1. \A r \in Requests : pc'[r] = "idle"
    BY <1>8 DEF Crash
  <2>2. \A p \in interrupted' : file[p] = "partial"
    BY <1>8 DEF Crash, Unwritten
  <2> QED
    BY <1>8, <2>1, <2>2 DEF Crash
<1>9. CASE UNCHANGED vars
  BY <1>9 DEF vars
<1> QED
  BY QuietSteps, <1>2, <1>3, <1>4, <1>5, <1>6, <1>7, <1>8, <1>9

\* What the library sees of the server.
Stage(p) == IF file[p] # "partial" THEN file[p]
            ELSE IF p \in interrupted THEN "broken" ELSE "writing"
Stages == [p \in Paths |-> Stage(p)]
Tellings == [r \in Requests |-> answer[r].done]

Shelved == Told /\ Abandoned

LEMMA ShelvedStep == Shelved /\ [Next]_vars => Shelved'
BY ToldKept, AbandonedStep DEF Shelved, Told

\* Whoever is told of a song after a step is told the truth.
LEMMA TellsTruth ==
  ASSUME Shelved, [Next]_vars
  PROVE  Library!Tell
<1>1. Shelved'
  BY ShelvedStep
<1>2. Tellings' \in [Requests -> SUBSET Videos]
  BY <1>1 DEF Tellings, Shelved, Told, Files, Typed, TypeOK, Answers
<1>3. ASSUME NEW r \in Requests, NEW v \in Tellings'[r]
      PROVE  Stages'[PathOf[v]] \notin {"absent", "writing"}
  <2>1. v \in answer'[r].done /\ v \in Videos
    BY <1>2, <1>3 DEF Tellings
  <2>2. PathOf[v] \in Paths
    BY <2>1, ServerAssumption
  <2>3. file'[PathOf[v]] \in Videos \/ PathOf[v] \in interrupted'
    BY <1>1, <2>1 DEF Shelved, Told, Claims, Arrived
  <2>4. CASE file'[PathOf[v]] \in Videos
    BY <2>2, <2>4, ServerAssumption DEF Stages, Stage
  <2>5. CASE PathOf[v] \in interrupted'
    <3>1. file'[PathOf[v]] = "partial"
      BY <1>1, <2>5 DEF Shelved, Abandoned
    <3> QED
      BY <2>2, <2>5, <3>1 DEF Stages, Stage
  <2> QED
    BY <2>3, <2>4, <2>5
<1> QED
  BY <1>2, <1>3 DEF Library!Tell, Library!Ended, Tellings, Stages, Stage

\* Every step of a request or of the server is one of the library.
LEMMA LibraryStep == Shelved /\ [Next]_vars => [Library!Next]_(Library!vars)
<1> SUFFICES ASSUME Shelved, [Next]_vars PROVE Library!Next
  OBVIOUS
<1> USE DEF Target
<1>1. Library!Tell
  BY TellsTruth
<1>2. /\ Files /\ Abandoned /\ TypeOK
      /\ \A r \in Requests :
           pc[r] \in {"write", "fill"} => video[r] \in Videos /\ Target(r) \in Paths
  BY ServerAssumption DEF Shelved, Told, Files, Typed, HasSong, WithSong, Locked
<1>3. ASSUME UNCHANGED <<file, interrupted>> PROVE Library!Next
  <2>1. Stages' = Stages
    BY <1>3 DEF Stages, Stage
  <2> QED
    BY <1>1, <2>1 DEF Library!Next, Library!Respond, Stages, Stage
<1>4. ASSUME NEW r \in Requests, Quiet(r) \/ Lock(r) \/ Stat(r) \/ Download(r)
      PROVE  Library!Next
  <2>1. UNCHANGED <<file, interrupted>>
    BY <1>4 DEF Quiet, Lock, Stat, Download
  <2> QED
    BY <1>3, <2>1
<1>5. ASSUME NEW r \in Requests, Truncate(r) PROVE Library!Next
  <2>1. PICK p \in Paths :
          /\ file[p] = "absent" /\ p \notin interrupted
          /\ file' = [file EXCEPT ![p] = "partial"]
          /\ UNCHANGED <<interrupted, answer>>
    BY <1>2, <1>5 DEF Truncate, Files, Unwritten, Abandoned
  <2>2. Stages[p] = "absent" /\ Stages' = [Stages EXCEPT ![p] = "writing"]
    BY <1>2, <2>1 DEF Stages, Stage, TypeOK
  <2>3. Library!Begin(p)
    BY <2>1, <2>2 DEF Library!Begin, Stages, Stage
  <2> QED
    BY <2>1, <2>3 DEF Library!Next
<1>6. ASSUME NEW r \in Requests, Fill(r) PROVE Library!Next
  <2>1. PICK v \in Videos, p \in Paths :
          p = PathOf[v] /\ v = video[r] /\ file[p] = "partial" /\ p \notin interrupted
    BY <1>2, <1>6 DEF Fill, Files, Unwritten, Abandoned
  <2>2. \/ file' = [file EXCEPT ![p] = v] /\ interrupted' = interrupted
        \/ file' = file /\ interrupted' = interrupted \cup {p}
    BY <1>6, <2>1 DEF Fill
  <2>3. Stages[p] = "writing"
    BY <2>1 DEF Stages, Stage
  <2>4. CASE file' = [file EXCEPT ![p] = v] /\ interrupted' = interrupted
    <3>1. Stages' = [Stages EXCEPT ![p] = v]
      BY <1>2, <2>1, <2>4, ServerAssumption DEF Stages, Stage, TypeOK
    <3>2. Library!Finish(v)
      BY <1>1, <2>1, <2>3, <3>1 DEF Library!Finish, Stages, Stage
    <3> QED
      BY <3>2 DEF Library!Next
  <2>5. CASE file' = file /\ interrupted' = interrupted \cup {p}
    <3>1. Stages' = [q \in Paths |-> IF q \in {p} THEN "broken" ELSE Stages[q]]
      BY <2>1, <2>5 DEF Stages, Stage
    <3>2. Library!Break({p})
      BY <1>1, <2>3, <3>1 DEF Library!Break, Stages, Stage
    <3> QED
      BY <3>2 DEF Library!Next
  <2> QED
    BY <2>2, <2>4, <2>5
<1>7. CASE Crash
  <2>1. PICK broken \in SUBSET Paths :
          /\ broken = {Target(r) : r \in {q \in Requests : pc[q] = "fill"}}
          /\ file' = file /\ interrupted' = interrupted \cup broken
    BY <1>2, <1>7 DEF Crash
  <2>2. \A p \in broken : p \in Paths /\ file[p] = "partial" /\ p \notin interrupted
    BY <1>2, <2>1 DEF Files, Unwritten, Abandoned
  <2>3. \A p \in broken : Stages[p] = "writing"
    BY <2>2 DEF Stages, Stage
  <2>4. Stages' = [p \in Paths |-> IF p \in broken THEN "broken" ELSE Stages[p]]
    BY <2>1, <2>2 DEF Stages, Stage
  <2>5. Library!Break(broken)
    BY <1>1, <2>3, <2>4 DEF Library!Break, Stages, Stage
  <2> QED
    BY <2>5 DEF Library!Next
<1>8. CASE UNCHANGED vars
  BY <1>3, <1>8 DEF vars
<1> QED
  BY QuietSteps, <1>4, <1>5, <1>6, <1>7, <1>8 DEF Shelved, Told, Files

LEMMA InitShelved == Init => Shelved
BY InitTold DEF Init, Shelved, Abandoned

LEMMA InitLibrary == Init => Library!Init
<1> SUFFICES ASSUME Init PROVE Library!Init
  OBVIOUS
<1>1. Stages = [p \in Paths |-> "absent"]
  BY DEF Init, Stages, Stage
<1>2. Tellings = [r \in Requests |-> {}]
  BY DEF Init, Tellings, Failure
<1> QED
  BY <1>1, <1>2 DEF Library!Init, Stages, Stage, Tellings

\* The server implements the library.
THEOREM LibraryImplemented == Spec => ImplementsLibrary
BY InitShelved, ShelvedStep, InitLibrary, LibraryStep, PTL DEF Spec, ImplementsLibrary, Library!Spec

\* Of the library alone: a file whose write has ended, well or not, stays as it is.
LEMMA LibraryLasts == Library!Spec => Library!Lasting
<1>1. Library!Next => \A p \in Paths : Library!Ended(p) => Stages'[p] = Stages[p]
  BY DEF Library!Next, Library!Begin, Library!Finish, Library!Break, Library!Respond,
         Library!Ended, Stages, Stage
<1> QED
  BY <1>1, PTL DEF Library!Spec, Library!Lasting, Stages, Stage

\* So no file of the server is written or taken up again once a write of it has ended.
THEOREM NeverRewritten == Spec => Library!Lasting
BY LibraryImplemented, LibraryLasts DEF ImplementsLibrary

\* Of the library alone: what somebody was told stays true, since a file that has ended stays
\* and only files that have ended are spoken of.
Over(v) == Stages[PathOf[v]] \notin {"absent", "writing"}
ToldOver == /\ Tellings \in [Requests -> SUBSET Videos]
            /\ \A r \in Requests : \A v \in Tellings[r] : Over(v)

LEMMA ToldOverStep == ToldOver /\ [Library!Next]_(Library!vars) => ToldOver'
<1> SUFFICES ASSUME ToldOver, [Library!Next]_(Library!vars) PROVE ToldOver'
  OBVIOUS
<1>1. \A v \in Videos : PathOf[v] \in Paths /\ v \notin {"absent", "writing"}
  BY ServerAssumption
<1>2. ASSUME Tellings' = Tellings \/ Library!Tell, \A v \in Videos : Over(v) => Over(v)'
      PROVE  ToldOver'
  <2>1. \/ Tellings' = Tellings
        \/ /\ Tellings' \in [Requests -> SUBSET Videos]
           /\ \A r \in Requests : \A v \in Tellings'[r] \ Tellings[r] : Over(v)'
    BY <1>2 DEF Library!Tell, Library!Ended, Tellings, Stages, Stage, Over
  <2> QED
    BY <1>2, <2>1 DEF ToldOver
<1>3. ASSUME NEW p \in Paths, Library!Begin(p) PROVE ToldOver'
  <2>1. Stages[p] = "absent" /\ Stages' = [Stages EXCEPT ![p] = "writing"] /\ Tellings' = Tellings
    BY <1>3 DEF Library!Begin, Stages, Stage, Tellings
  <2>2. DOMAIN Stages = Paths
    BY DEF Stages
  <2> QED
    BY <1>1, <1>2, <2>1, <2>2 DEF Over
<1>4. ASSUME NEW w \in Videos, Library!Finish(w) PROVE ToldOver'
  <2>1. /\ Stages' = [Stages EXCEPT ![PathOf[w]] = w]
        /\ Library!Tell
    BY <1>4 DEF Library!Finish, Stages, Stage
  <2>2. DOMAIN Stages = Paths
    BY DEF Stages
  <2> QED
    BY <1>1, <1>2, <2>1, <2>2 DEF Over
<1>5. ASSUME NEW broken \in SUBSET Paths, Library!Break(broken) PROVE ToldOver'
  <2>1. /\ Stages' = [p \in Paths |-> IF p \in broken THEN "broken" ELSE Stages[p]]
        /\ Library!Tell
    BY <1>5 DEF Library!Break, Stages, Stage
  <2> QED
    BY <1>1, <1>2, <2>1 DEF Over
<1>6. CASE Library!Respond
  <2>1. Stages' = Stages /\ Library!Tell
    BY <1>6 DEF Library!Respond, Stages, Stage
  <2> QED
    BY <1>2, <2>1 DEF Over
<1>7. CASE UNCHANGED (Library!vars)
  <2>1. Stages' = Stages /\ Tellings' = Tellings
    BY <1>7 DEF Library!vars, Stages, Stage, Tellings
  <2> QED
    BY <2>1, <1>2 DEF Over
<1> QED
  BY <1>3, <1>4, <1>5, <1>6, <1>7 DEF Library!Next

LEMMA LibraryTells == Library!Spec => []Library!ToldIsThere
<1>1. Library!Init => ToldOver
  <2> SUFFICES ASSUME Library!Init PROVE ToldOver
    OBVIOUS
  <2>1. Tellings = [r \in Requests |-> {}]
    BY DEF Library!Init, Tellings
  <2> QED
    BY <2>1 DEF ToldOver
<1>2. ToldOver => Library!ToldIsThere
  BY DEF ToldOver, Over, Library!ToldIsThere, Library!Ended, Stages, Stage, Tellings
<1> QED
  BY <1>1, <1>2, ToldOverStep, PTL DEF Library!Spec

\* So nobody keeps an answer that speaks of a song whose file is not there or is being written.
THEOREM NeverToldEarly == Spec => []Library!ToldIsThere
BY LibraryImplemented, LibraryTells DEF ImplementsLibrary
-----------------------------------------------------------------------------
(***************************************************************************)
(* What may be recommended.  A row that a search has left with the channel *)
(* in the wrong form has a request that will set it right or fail; and an  *)
(* active song has its file, or a request that will get it or fail.        *)
(***************************************************************************)
Mends(r, v) == video[r] = v /\ pc[r] \in {"meta", "save"}
Works(r, v) == video[r] = v /\ pc[r] \in {"meta", "save", "lock"} \cup Locked

Titled(v) == column[v] = "title" \/ v \in failed \/ \E r \in Requests : Mends(r, v)
Provided(v) == row[v] = "active" =>
                 Arrived(PathOf[v]) \/ v \in failed \/ \E r \in Requests : Works(r, v)

\* A step of request r, at work on no song, that recommends nothing new.
Aside(r) ==
  /\ pc[r] \notin {"meta", "save", "lock"} \cup Locked
  /\ \A q \in Requests \ {r} : pc'[q] = pc[q] /\ video'[q] = video[q]
  /\ \A v \in Videos : row'[v] = "active" => row[v] = "active"
  /\ UNCHANGED <<column, failed>>

LEMMA AsideSteps ==
  ASSUME Typed, [Next]_vars
  PROVE  \/ \E r \in Requests :
              \/ Aside(r)
              \/ ResolveVideoID(r) \/ FetchVideoMeta(r) \/ SaveToDB(r)
              \/ Lock(r) \/ Stat(r) \/ Download(r) \/ Truncate(r) \/ Fill(r)
         \/ Crash
         \/ UNCHANGED vars
<1> USE DEF Typed, TypeOK, Aside, Locked
<1>1. ASSUME NEW r \in Requests, Reply(r) PROVE Aside(r)
  BY <1>1 DEF Reply
<1>2. ASSUME NEW r \in Requests, BadRequest(r) PROVE Aside(r)
  BY <1>2 DEF BadRequest
<1>3. ASSUME NEW r \in Requests, HandleProcess(r) PROVE Aside(r)
  BY <1>3 DEF HandleProcess
<1>4. ASSUME NEW r \in Requests, SearchFails(r) PROVE Aside(r)
  BY <1>4 DEF SearchFails
<1>5. ASSUME NEW r \in Requests, HandlePlaylist(r) PROVE Aside(r)
  BY <1>5 DEF HandlePlaylist
<1>6. ASSUME NEW r \in Requests, LookUp(r) PROVE Aside(r)
  BY <1>6 DEF LookUp
<1>7. ASSUME NEW r \in Requests, PageFails(r) PROVE Aside(r)
  BY <1>7 DEF PageFails
<1>8. ASSUME NEW r \in Requests, LastPage(r) PROVE Aside(r)
  BY <1>8 DEF LastPage
<1>9. ASSUME NEW r \in Requests, NextItem(r) PROVE Aside(r)
  BY <1>9 DEF NextItem
<1>10. ASSUME NEW r \in Requests, LastItem(r) PROVE Aside(r)
  BY <1>10 DEF LastItem
<1>11. ASSUME NEW r \in Requests, CountActive(r) PROVE Aside(r)
  BY <1>11 DEF CountActive
<1>12. ASSUME NEW r \in Requests, SelectRandom(r) PROVE Aside(r)
  BY <1>12 DEF SelectRandom
<1>13. ASSUME NEW r \in Requests, DatabaseFails(r) PROVE Aside(r)
  BY <1>13 DEF DatabaseFails
<1>14. ASSUME NEW r \in Requests, HandleDeactivate(r) PROVE Aside(r)
  BY <1>14 DEF HandleDeactivate
<1> HIDE DEF Aside
<1> QED
  BY <1>1, <1>2, <1>3, <1>4, <1>5, <1>6, <1>7, <1>8, <1>9, <1>10, <1>11, <1>12, <1>13, <1>14
  DEF Next, NewRequest, SongStep, DownloadStep, PlaylistStep

LEMMA TitledStep ==
  ASSUME Typed, [Next]_vars, NEW v \in Videos, Titled(v)
  PROVE  Titled(v)'
<1> USE DEF Typed, TypeOK, Titled, Mends
<1>1. ASSUME NEW r \in Requests, Aside(r) PROVE Titled(v)'
  BY <1>1 DEF Aside
<1>2. ASSUME NEW r \in Requests, ResolveVideoID(r) PROVE Titled(v)'
  <2>1. pc'[r] = "meta" /\ video'[r] = video[r]
    BY <1>2 DEF ResolveVideoID
  <2>2. CASE v = video[r]
    BY <2>1, <2>2
  <2>3. CASE v # video[r]
    BY <1>2, <2>3 DEF ResolveVideoID
  <2> QED
    BY <2>2, <2>3
<1>3. ASSUME NEW r \in Requests, FetchVideoMeta(r) PROVE Titled(v)'
  BY <1>3 DEF FetchVideoMeta
<1>4. ASSUME NEW r \in Requests, SaveToDB(r) PROVE Titled(v)'
  <2>1. CASE v = video[r]
    BY <1>4, <2>1 DEF SaveToDB
  <2>2. CASE v # video[r]
    BY <1>4, <2>2 DEF SaveToDB
  <2> QED
    BY <2>1, <2>2
<1>5. ASSUME NEW r \in Requests, Lock(r) \/ Truncate(r) PROVE Titled(v)'
  BY <1>5 DEF Lock, Truncate
<1>6. ASSUME NEW r \in Requests, Stat(r) \/ Download(r) \/ Fill(r) PROVE Titled(v)'
  BY <1>6 DEF Stat, Download, Fill
<1>7. CASE Crash
  BY <1>7, ServerAssumption DEF Crash
<1>8. CASE UNCHANGED vars
  BY <1>8 DEF vars
<1> QED
  BY AsideSteps, <1>1, <1>2, <1>3, <1>4, <1>5, <1>6, <1>7, <1>8

LEMMA ProvidedStep ==
  ASSUME Told, [Next]_vars, NEW v \in Videos, Provided(v)
  PROVE  Provided(v)'
<1>0. /\ Typed /\ PathOf[v] \in Paths /\ (Arrived(PathOf[v]) => Arrived(PathOf[v])')
      /\ Arrived(PathOf[v])' <=> (file'[PathOf[v]] \in Videos \/ PathOf[v] \in interrupted')
  BY ArrivedStays, ServerAssumption DEF Told, Files, Arrived
<1> USE <1>0 DEF Typed, TypeOK, Provided, Works
<1>1. ASSUME NEW r \in Requests, Aside(r) PROVE Provided(v)'
  BY <1>1 DEF Aside
<1>2. ASSUME NEW r \in Requests, ResolveVideoID(r) PROVE Provided(v)'
  <2>1. pc'[r] = "meta" /\ video'[r] = video[r]
    BY <1>2 DEF ResolveVideoID
  <2>2. CASE v = video[r]
    BY <2>1, <2>2
  <2>3. CASE v # video[r]
    BY <1>2, <2>3 DEF ResolveVideoID
  <2> QED
    BY <2>2, <2>3
<1>3. ASSUME NEW r \in Requests, FetchVideoMeta(r) PROVE Provided(v)'
  BY <1>3 DEF FetchVideoMeta
<1>4. ASSUME NEW r \in Requests, SaveToDB(r) PROVE Provided(v)'
  <2>1. CASE v # video[r]
    BY <1>4, <2>1 DEF SaveToDB
  <2>2. CASE v = video[r] /\ req[r].list
    <3>1. Arrived(PathOf[v])
      BY <1>4, <2>2 DEF Told, Claims, SaveToDB, Target
    <3> QED
      BY <3>1
  <2>3. CASE v = video[r] /\ ~req[r].list
    <3>1. pc'[r] = "lock" /\ video'[r] = v
      BY <1>4, <2>3 DEF SaveToDB
    <3> QED
      BY <3>1
  <2> QED
    BY <2>1, <2>2, <2>3
<1>5. ASSUME NEW r \in Requests, Lock(r) \/ Truncate(r) PROVE Provided(v)'
  BY <1>5 DEF Lock, Truncate, Locked
<1>6. ASSUME NEW r \in Requests, Stat(r) PROVE Provided(v)'
  <2>1. CASE v = video[r] /\ file[Target(r)] # "absent"
    <3>1. Arrived(PathOf[v])
      BY <1>6, <2>1, PresentIsWhole DEF Told, Stat, Target
    <3> QED
      BY <3>1
  <2>2. CASE v = video[r] /\ file[Target(r)] = "absent"
    <3>1. pc'[r] = "download" /\ video'[r] = v
      BY <1>6, <2>2 DEF Stat
    <3> QED
      BY <3>1 DEF Locked
  <2>3. CASE v # video[r]
    <3>1. /\ UNCHANGED <<row, failed, video>>
          /\ \A q \in Requests \ {r} : pc'[q] = pc[q]
      BY <1>6 DEF Stat
    <3> QED
      BY <2>3, <3>1
  <2> QED
    BY <2>1, <2>2, <2>3
<1>7. ASSUME NEW r \in Requests, Download(r) PROVE Provided(v)'
  BY <1>7 DEF Download, Locked
<1>8. ASSUME NEW r \in Requests, Fill(r) PROVE Provided(v)'
  <2>1. CASE v = video[r]
    <3>1. Arrived(PathOf[v])'
      BY <1>8, <2>1 DEF Fill, Target
    <3> QED
      BY <3>1
  <2>2. CASE v # video[r]
    BY <1>8, <2>2 DEF Fill
  <2> QED
    BY <2>1, <2>2
<1>9. CASE Crash
  BY <1>9, ServerAssumption DEF Crash
<1>10. CASE UNCHANGED vars
  BY <1>10 DEF vars
<1> QED
  BY AsideSteps, <1>1, <1>2, <1>3, <1>4, <1>5, <1>6, <1>7, <1>8, <1>9, <1>10

\* A song open to recommendation that nobody works on and for which nothing failed has
\* its file, and its row leads to it.
THEOREM RecommendationsPlayable == Spec => []RecommendedIsPlayable
<1> DEFINE Offered == \A v \in Videos : Titled(v) /\ Provided(v)
<1>1. Init => Told /\ Offered
  BY InitFiles DEF Init, Told, Single, Claims, NoData, Failure, Titled, Provided
<1>2. Told /\ [Next]_vars => Told'
  BY FilesStep, SingleStep, ClaimsStep DEF Told, Files
<1>3. Told /\ Offered /\ [Next]_vars => Offered'
  BY TitledStep, ProvidedStep DEF Told, Files
<1>4. Offered => RecommendedIsPlayable
  BY DEF RecommendedIsPlayable, Active, Busy, Titled, Provided, Mends, Works, Arrived, Locked
<1> QED
  BY <1>1, <1>2, <1>3, <1>4, PTL DEF Spec
-----------------------------------------------------------------------------
(***************************************************************************)
(* The client and the server.                                              *)
(***************************************************************************)
\* Every step of the two is one of the server or leaves it as it is.
LEMMA ServerSteps == ClientNext => Next \/ UNCHANGED vars
<1> SUFFICES ASSUME ClientNext PROVE Next \/ UNCHANGED vars
  OBVIOUS
<1>1. ASSUME NEW r \in Requests, NEW t \in Texts, Play(r, t) PROVE Next
  BY <1>1 DEF Play, Next, NewRequest
<1>2. ASSUME NEW r \in Requests, PlayList(r) PROVE Next
  BY <1>2 DEF PlayList, Next, NewRequest
<1>3. ASSUME NEW r \in Requests, Omakase(r) PROVE Next
  BY <1>3 DEF Omakase, Next, NewRequest
<1>4. ASSUME NEW r \in Requests, Delete(r) PROVE Next
  BY <1>4 DEF Delete, Next, NewRequest
<1>5. ASSUME NEW r \in Requests, ServerStep(r) PROVE Next
  BY <1>5 DEF ServerStep, Next
<1>6. ASSUME NEW r \in Requests, AnswerCall(r) PROVE Next
  BY <1>6 DEF AnswerCall, Next
<1>7. ASSUME NEW r \in Requests, GiveUp(r) \/ Callback(r) PROVE UNCHANGED vars
  BY <1>7 DEF GiveUp, Callback
<1>8. CASE ServerCrash
  BY <1>8 DEF ServerCrash, Next
<1>9. ASSUME NEW s \in queued, GetAudioStream(s) PROVE UNCHANGED vars
  BY <1>9 DEF GetAudioStream
<1>10. CASE CloseAudioStream
  BY <1>10 DEF CloseAudioStream, Cleanup, vars, table, history
<1> QED
  BY <1>1, <1>2, <1>3, <1>4, <1>5, <1>6, <1>7, <1>8, <1>9, <1>10 DEF ClientNext

\* The client takes nothing from the server: its calls and kills are the server's own
\* requests and crashes, so that all that was proved of the server holds beside it.
THEOREM ServerBesideClient == ClientSpec => Spec
<1>1. ClientInit => Init
  BY DEF ClientInit
<1>2. [ClientNext]_allVars => [Next]_vars
  BY ServerSteps DEF allVars
<1> QED
  BY <1>1, <1>2, PTL DEF ClientSpec, Spec

\* With the client's calls, too, the server keeps the promise of the library.
THEOREM LibraryBesideClient == ClientSpec => ImplementsLibrary
BY ServerBesideClient, LibraryImplemented

LEMMA ToldStep == Told /\ [ClientNext]_allVars => Told'
<1>1. Told /\ [Next]_vars => Told'
  BY ToldKept
<1>2. [ClientNext]_allVars => [Next]_vars
  BY ServerSteps DEF allVars
<1> QED
  BY <1>1, <1>2

-----------------------------------------------------------------------------
(***************************************************************************)
(* Types.                                                                  *)
(***************************************************************************)
CallTyped ==
  /\ call \in [Requests -> [op : Ops, text : Texts \cup {<<>>}]]
  /\ calls \in 0..MaxCalls
SongsTyped == queued \subseteq Received /\ reading \in Received \cup {Silence}

\* A call has at most one callback.
InboxTyped ==
  /\ inbox \in [Requests -> {<<>>} \cup {<<a>> : a \in Answers}]
  /\ \A r \in Requests : call[r] = NoCall => inbox[r] = <<>>

ClientTyped == CallTyped /\ SongsTyped /\ InboxTyped

\* A sequence of one element.
LEMMA OneElement ==
  ASSUME NEW a
  PROVE  /\ Head(<<a>>) = a /\ Tail(<<a>>) = <<>> /\ Append(<<>>, a) = <<a>>
         /\ <<a>> # <<>> /\ Len(<<a>>) = 1 /\ Len(<<>>) = 0
         /\ DOMAIN <<a>> = {1} /\ <<a>>[1] = a
OBVIOUS

\* A callback that has been handed over is the answer of the server or a failure.
Delivery ==
  /\ call' = call
  /\ \A q \in Requests :
       \/ inbox'[q] = inbox[q]
       \/ /\ inbox[q] = <<>> /\ call[q] # NoCall
          /\ \/ inbox'[q] = <<Failure>>
             \/ inbox'[q] = <<answer[q]>> /\ pc[q] = "answered"

LEMMA Deliveries ==
  ASSUME ClientTyped, Typed,
         (\E r \in Requests : AnswerCall(r) \/ GiveUp(r)) \/ ServerCrash
  PROVE  Delivery /\ InboxTyped'
<1> USE DEF ClientTyped, InboxTyped, Delivery
<1>1. Failure \in Answers /\ answer \in [Requests -> Answers]
  BY AnswerTypes DEF Typed, TypeOK
<1>2. ASSUME NEW r \in Requests, NEW a \in Answers, call[r] # NoCall, inbox[r] = <<>>,
             inbox' = Tell(r, a), call' = call, a = Failure \/ (pc[r] = "answered" /\ a = answer[r])
      PROVE  Delivery /\ InboxTyped'
  <2>1. inbox' = [inbox EXCEPT ![r] = <<a>>]
    BY <1>2, OneElement DEF Tell
  <2> QED
    BY <1>2, <2>1
<1>3. ASSUME NEW r \in Requests, AnswerCall(r) PROVE Delivery /\ InboxTyped'
  <2>1. CASE call[r] # NoCall /\ inbox[r] = <<>>
    BY <1>1, <1>2, <1>3, <2>1 DEF AnswerCall, Reply
  <2>2. CASE ~(call[r] # NoCall /\ inbox[r] = <<>>)
    BY <1>3, <2>2 DEF AnswerCall
  <2> QED
    BY <2>1, <2>2
<1>4. ASSUME NEW r \in Requests, GiveUp(r) PROVE Delivery /\ InboxTyped'
  <2>1. /\ call[r] # NoCall /\ inbox[r] = <<>>
        /\ inbox' = Tell(r, Failure) /\ call' = call
    BY <1>4 DEF GiveUp
  <2>2. inbox' = [inbox EXCEPT ![r] = <<Failure>>]
    BY <2>1, OneElement DEF Tell
  <2> QED
    BY <1>1, <2>1, <2>2
<1>5. CASE ServerCrash
  BY <1>1, <1>5 DEF ServerCrash
<1> QED
  BY <1>3, <1>4, <1>5

LEMMA InitClientTyped == ClientInit => ClientTyped
<1> SUFFICES ASSUME ClientInit PROVE ClientTyped
  OBVIOUS
<1>1. 0 \in 0..MaxCalls
  <2>1. MaxCalls \in Nat
    BY ClientAssumption
  <2> QED
    BY <2>1
<1>2. NoCall \in [op : Ops, text : Texts \cup {<<>>}]
  BY DEF NoCall, Ops
<1> QED
  BY <1>1, <1>2 DEF ClientInit, ClientTyped, CallTyped, SongsTyped, InboxTyped

\* What an answer brings into the queue.
LEMMA SongsAreReceived ==
  ASSUME NEW a \in Answers
  PROVE  Songs(a) \subseteq Received
<1>1. ASSUME NEW v \in a.items
      PROVE  [song |-> v, promised |-> v \in a.done, lost |-> v \in a.odd] \in Received
  <2>1. v \in Videos /\ (v \in a.done) \in BOOLEAN /\ (v \in a.odd) \in BOOLEAN
    BY DEF Answers
  <2> QED
    BY <2>1 DEF Received
<1> QED
  BY <1>1 DEF Songs

LEMMA ClientTypedStep == ClientTyped /\ Typed /\ [ClientNext]_allVars => ClientTyped'
<1> SUFFICES ASSUME ClientTyped, Typed, [ClientNext]_allVars PROVE ClientTyped'
  OBVIOUS
<1> USE DEF ClientTyped
<1>1. ASSUME NEW r \in Requests, NEW op \in Ops \ {"none"}, NEW t \in Texts \cup {<<>>},
             RequestServer(r, op, t)
      PROVE  ClientTyped'
  <2> DEFINE asked == [op |-> op, text |-> t]
  <2>1. /\ call[r] = NoCall /\ call' = [call EXCEPT ![r] = asked]
        /\ calls < MaxCalls /\ calls' = calls + 1
        /\ UNCHANGED <<inbox, queued, reading>>
    BY <1>1 DEF RequestServer
  <2>2. CallTyped'
    <3>1. asked \in [op : Ops, text : Texts \cup {<<>>}]
      OBVIOUS
    <3>2. calls' \in 0..MaxCalls
      <4>1. MaxCalls \in Nat
        BY ClientAssumption
      <4> QED
        BY <2>1, <4>1 DEF CallTyped
    <3> HIDE DEF asked
    <3> QED
      BY <2>1, <3>1, <3>2 DEF CallTyped
  <2>3. SongsTyped'
    BY <2>1 DEF SongsTyped
  <2>4. InboxTyped'
    BY <2>1 DEF InboxTyped, CallTyped, NoCall
  <2> QED
    BY <2>2, <2>3, <2>4
<1>2. ASSUME NEW r \in Requests,
             (\E t \in Texts : Play(r, t)) \/ PlayList(r) \/ Omakase(r) \/ Delete(r)
      PROVE  ClientTyped'
  BY <1>1, <1>2 DEF Play, PlayList, Omakase, Delete, Ops
<1>3. CASE UNCHANGED client
  BY <1>3 DEF client, CallTyped, SongsTyped, InboxTyped
<1>4. CASE (\E r \in Requests : AnswerCall(r) \/ GiveUp(r)) \/ ServerCrash
  <2>1. UNCHANGED <<call, queued, reading, calls>>
    BY <1>4 DEF AnswerCall, GiveUp, ServerCrash
  <2> QED
    BY <1>4, <2>1, Deliveries DEF CallTyped, SongsTyped
<1>5. ASSUME NEW r \in Requests, Callback(r) PROVE ClientTyped'
  <2>1. PICK a \in Answers : inbox[r] = <<a>>
    BY <1>5 DEF Callback, InboxTyped
  <2>2. inbox' = [inbox EXCEPT ![r] = <<>>] /\ call' = [call EXCEPT ![r] = NoCall]
    BY <1>5, <2>1, OneElement DEF Callback
  <2>3. queued' \subseteq queued \cup Songs(a) /\ UNCHANGED <<reading, calls>>
    BY <1>5, <2>1, OneElement DEF Callback
  <2>4. CallTyped'
    BY <2>2, <2>3 DEF CallTyped, NoCall, Ops
  <2>5. SongsTyped'
    BY <2>3, SongsAreReceived DEF SongsTyped
  <2>6. InboxTyped'
    BY <2>2 DEF InboxTyped, CallTyped
  <2> QED
    BY <2>4, <2>5, <2>6
<1>6. CASE CloseAudioStream \/ \E s \in queued : GetAudioStream(s)
  BY <1>6 DEF CloseAudioStream, GetAudioStream, CallTyped, SongsTyped, InboxTyped
<1> QED
  BY <1>2, <1>3, <1>4, <1>5, <1>6 DEF ClientNext, allVars

\* Client and server only ever have states of their types, and a call is never called
\* back twice.
THEOREM ClientTypeCorrect == ClientSpec => []ClientTypeOK
<1>1. ClientInit => Told /\ ClientTyped
  BY InitTold, InitClientTyped DEF ClientInit
<1>2. Told /\ ClientTyped /\ [ClientNext]_allVars => Told' /\ ClientTyped'
  BY ToldStep, ClientTypedStep DEF Told, Files
<1>3. ClientTyped => ClientTypeOK
  <2> SUFFICES ASSUME ClientTyped PROVE ClientTypeOK
    OBVIOUS
  <2> USE DEF ClientTyped, CallTyped, SongsTyped, InboxTyped
  <2>1. ASSUME NEW r \in Requests
        PROVE  Len(inbox[r]) <= (IF call[r] = NoCall THEN 0 ELSE 1)
    <3>1. CASE inbox[r] = <<>>
      BY <3>1, OneElement
    <3>2. CASE inbox[r] # <<>>
      <4>1. PICK a \in Answers : inbox[r] = <<a>>
        BY <3>2
      <4>2. Len(inbox[r]) = 1 /\ call[r] # NoCall
        BY <3>2, <4>1, OneElement
      <4> QED
        BY <4>2
    <3> QED
      BY <3>1, <3>2
  <2> QED
    BY <2>1 DEF ClientTypeOK
<1> QED
  BY <1>1, <1>2, <1>3, PTL DEF ClientSpec
-----------------------------------------------------------------------------
(***************************************************************************)
(* Promises.                                                               *)
(***************************************************************************)
\* The files of the songs that are called downloaded are there, while the answer waits
\* for its callback and while the songs wait or play.
Delivered ==
  \A r \in Requests : \A a \in Answers :
    inbox[r] = <<a>> => \A v \in a.done : Arrived(PathOf[v])
Promised == \A s \in queued \cup {reading} : s.promised => Arrived(PathOf[s.song])

\* A callback that is to run has been told of the song.
Answered(s) == \E q \in Requests : \E a \in Answers : inbox[q] = <<a>> /\ s \in Songs(a)

Kept == Told /\ ClientTyped /\ Delivered /\ Promised

LEMMA DeliveredStep == Kept /\ [ClientNext]_allVars => Delivered'
<1> SUFFICES ASSUME Kept, [ClientNext]_allVars PROVE Delivered'
  OBVIOUS
<1> USE DEF Kept
<1>1. \A v \in Videos : Arrived(PathOf[v]) => Arrived(PathOf[v])'
  <2>1. [Next]_vars
    BY ServerSteps DEF allVars
  <2>2. \A v \in Videos : PathOf[v] \in Paths
    BY ServerAssumption
  <2> QED
    BY <2>1, <2>2, ArrivedStays DEF Told
<1>2. \A a \in Answers : a.done \subseteq Videos
  BY DEF Answers
\* What is in an inbox afterwards was there, is a failure or is an answer of the server.
<1>3. ASSUME NEW r \in Requests, NEW a \in Answers, inbox'[r] = <<a>>
      PROVE  inbox[r] = <<a>> \/ a = Failure \/ a = answer[r]
  <2>1. CASE (\E q \in Requests : AnswerCall(q) \/ GiveUp(q)) \/ ServerCrash
    <3>1. Delivery
      BY <2>1, Deliveries DEF Told, Files
    <3>2. inbox'[r] = inbox[r] \/ inbox'[r] = <<Failure>> \/ inbox'[r] = <<answer[r]>>
      BY <3>1 DEF Delivery
    <3>3. \A b : <<a>> = <<b>> => a = b
      BY OneElement
    <3> QED
      BY <1>3, <3>2, <3>3
  <2>2. ASSUME NEW q \in Requests, Callback(q) PROVE inbox[r] = <<a>>
    <3>1. PICK b \in Answers : inbox[q] = <<b>>
      BY <2>2 DEF Callback, ClientTyped, InboxTyped
    <3>2. inbox' = [inbox EXCEPT ![q] = <<>>] /\ inbox \in [Requests -> {<<>>} \cup {<<c>> : c \in Answers}]
      BY <2>2, <3>1, OneElement DEF Callback, ClientTyped, InboxTyped
    <3> QED
      BY <1>3, <3>2, OneElement
  <2>3. CASE \/ \E q \in Requests : \/ \E t \in Texts : Play(q, t)
                                    \/ PlayList(q) \/ Omakase(q) \/ Delete(q)
             \/ UNCHANGED client \/ CloseAudioStream
             \/ \E s \in queued : GetAudioStream(s)
    BY <1>3, <2>3 DEF Play, PlayList, Omakase, Delete, RequestServer, client, CloseAudioStream,
                      GetAudioStream
  <2> QED
    BY <2>1, <2>2, <2>3 DEF ClientNext, allVars
<1>4. Failure.done = {}
  BY DEF Failure
<1>5. \A r \in Requests : \A v \in answer[r].done : Arrived(PathOf[v])
  BY DEF Told, Claims
<1> QED
  BY <1>1, <1>2, <1>3, <1>4, <1>5 DEF Delivered

LEMMA PromisedStep == Kept /\ [ClientNext]_allVars => Promised'
<1> SUFFICES ASSUME Kept, [ClientNext]_allVars PROVE Promised'
  OBVIOUS
<1> USE DEF Kept
<1>1. \A v \in Videos : Arrived(PathOf[v]) => Arrived(PathOf[v])'
  <2>1. [Next]_vars
    BY ServerSteps DEF allVars
  <2>2. \A v \in Videos : PathOf[v] \in Paths
    BY ServerAssumption
  <2> QED
    BY <2>1, <2>2, ArrivedStays DEF Told
\* A song that is there afterwards was there or comes with an answer.
<1>2. ASSUME NEW s \in Received, s \in queued' \cup {reading'}
      PROVE  \/ s \in queued \cup {reading}
             \/ Answered(s)
  <2>1. ASSUME NEW r \in Requests, Callback(r)
        PROVE  \/ s \in queued \cup {reading}
               \/ Answered(s)
    <3>1. PICK a \in Answers : inbox[r] = <<a>>
      BY <2>1 DEF Callback, ClientTyped, InboxTyped
    <3>2. queued' \subseteq queued \cup Songs(a) /\ reading' = reading
      BY <2>1, <3>1, OneElement DEF Callback
    <3> QED
      BY <1>2, <3>1, <3>2 DEF Answered
  <2>2. CASE \/ \E r \in Requests : \/ \E t \in Texts : Play(r, t)
                                    \/ PlayList(r) \/ Omakase(r) \/ Delete(r)
                                    \/ AnswerCall(r) \/ GiveUp(r)
             \/ UNCHANGED client \/ ServerCrash
    BY <1>2, <2>2 DEF Play, PlayList, Omakase, Delete, RequestServer, client, AnswerCall, GiveUp,
                      ServerCrash
  <2>3. CASE CloseAudioStream
    <3>1. Silence.song \notin Videos /\ s.song \in Videos
      BY ServerAssumption DEF Silence, Received
    <3> QED
      BY <1>2, <2>3, <3>1 DEF CloseAudioStream
  <2>4. ASSUME NEW x \in queued, GetAudioStream(x) PROVE s \in queued \cup {reading}
    BY <1>2, <2>4 DEF GetAudioStream
  <2> QED
    BY <2>1, <2>2, <2>3, <2>4 DEF ClientNext, allVars
<1>3. ASSUME NEW s \in Received, Answered(s), s.promised
      PROVE  Arrived(PathOf[s.song])
  <2>1. PICK q \in Requests, a \in Answers : inbox[q] = <<a>> /\ s \in Songs(a)
    BY <1>3 DEF Answered
  <2>2. PICK v \in a.items : s = [song |-> v, promised |-> v \in a.done, lost |-> v \in a.odd]
    BY <2>1 DEF Songs
  <2>3. s.song = v /\ v \in a.done
    BY <1>3, <2>2
  <2> QED
    BY <2>1, <2>3 DEF Delivered
<1>4. ~Silence.promised
  BY DEF Silence
<1>5. \A x \in Received : x.song \in Videos
  BY DEF Received
<1>6. (queued \cup {reading})' \subseteq Received \cup {Silence}
  BY ClientTypedStep DEF Told, Files, ClientTyped, SongsTyped
<1> QED
  BY <1>1, <1>2, <1>3, <1>4, <1>5, <1>6 DEF Promised

\* What was promised is there as long as it waits and while it plays, unless a write of
\* its file did once not finish.
LEMMA PromisedIsThere == ClientSpec => []Promised
<1>1. ClientInit => Kept
  BY InitTold, InitClientTyped, OneElement
  DEF ClientInit, Kept, Delivered, Promised, Silence
<1>2. Kept /\ [ClientNext]_allVars => Kept'
  BY ToldStep, ClientTypedStep, DeliveredStep, PromisedStep DEF Kept, Told, Files
<1>3. Kept => Promised
  BY DEF Kept
<1> QED
  BY <1>1, <1>2, <1>3, PTL DEF ClientSpec

\* And it is that song, or one whose title makes the same file name.
THEOREM PromisesKept == ClientSpec => []PromisedIsWhole
<1>1. ClientTypeOK /\ Promised /\ Fitting => PromisedIsWhole
  <2> SUFFICES ASSUME ClientTypeOK, Promised, Fitting,
                      NEW s \in queued \cup {reading}, s.promised,
                      PathOf[s.song] \notin interrupted
               PROVE  \E u \in Videos : file[PathOf[s.song]] = u /\ PathOf[u] = PathOf[s.song]
    BY DEF PromisedIsWhole
  <2>1. s.song \in Videos
    BY DEF ClientTypeOK, Received, Silence
  <2>2. PathOf[s.song] \in Paths
    BY <2>1, ServerAssumption
  <2>3. file[PathOf[s.song]] \in Videos
    BY DEF Promised, Arrived
  <2> QED
    BY <2>2, <2>3 DEF Fitting
<1> QED
  BY <1>1, ClientTypeCorrect, PromisedIsThere, ServerBesideClient, Fits, PTL

-----------------------------------------------------------------------------
(***************************************************************************)
(* What !play finds.                                                       *)
(***************************************************************************)
\* A text survives its way through the URL: only a space becomes "+", which is the one
\* character that a URL has as it is and the server reads as another one.
LEMMA QueryOfUrl ==
  ASSUME NEW t \in Texts
  PROVE  Query(UrlEncode(t)) = t
<1>1. t \in Seq(STRING) /\ " " \notin Unreserved /\ "+" \notin Unreserved
  BY ClientAssumption
<1>2. DOMAIN UrlEncode(t) = DOMAIN t
  BY DEF UrlEncode
<1>3. ASSUME NEW i \in DOMAIN t
      PROVE  (IF UrlEncode(t)[i] = Char("+") THEN " " ELSE UrlEncode(t)[i][2]) = t[i]
  <2>1. CASE t[i] \in Unreserved
    BY <1>1, <2>1 DEF UrlEncode, Char
  <2>2. CASE t[i] \notin Unreserved /\ t[i] = " "
    BY <2>2 DEF UrlEncode
  <2>3. CASE t[i] \notin Unreserved /\ t[i] # " "
    BY <2>3 DEF UrlEncode, Char, Hex
  <2> QED
    BY <2>1, <2>2, <2>3
<1>4. Query(UrlEncode(t)) = [i \in DOMAIN t |-> t[i]]
  BY <1>2, <1>3 DEF Query
<1>5. t \in [1..Len(t) -> STRING]
  BY <1>1, LenProperties
<1> QED
  BY <1>4, <1>5

\* A request that serves a song, and not a playlist or recommendations, serves v.
Serves(r, v) ==
  /\ pc[r] \notin {"pages", "item", "select"}
  /\ pc[r] \in WithSong => video[r] = v /\ ~req[r].list
  /\ pc[r] = "answered" => answer[r].items \subseteq {v}

\* The steps of a request leave the others as they are.
LEMMA OthersServe ==
  ASSUME Typed, NEW r \in Requests,
         NewRequest(r) \/ ServerStep(r) \/ DatabaseFails(r) \/ Reply(r),
         NEW q \in Requests \ {r}
  PROVE  pc'[q] = pc[q] /\ video'[q] = video[q] /\ req'[q] = req[q] /\ answer'[q] = answer[q]
<1> USE DEF Typed, TypeOK, Return, AfterDownload
<1>1. CASE NewRequest(r)
  BY <1>1 DEF NewRequest, BadRequest, HandleProcess, HandlePlaylist, CountActive,
              HandleDeactivate
<1>2. CASE SongStep(r)
  BY <1>2 DEF SongStep, SearchFails, ResolveVideoID, FetchVideoMeta, SaveToDB, AfterSave
<1>3. CASE Lock(r) \/ DownloadStep(r)
  BY <1>3 DEF Lock, DownloadStep, Stat, Download, Truncate, Fill
<1>4. CASE PlaylistStep(r) \/ SelectRandom(r)
  BY <1>4 DEF PlaylistStep, LookUp, PageFails, LastPage, NextItem, LastItem, SelectRandom
<1>5. CASE DatabaseFails(r) \/ Reply(r)
  BY <1>5 DEF DatabaseFails, Reply
<1> QED
  BY <1>1, <1>2, <1>3, <1>4, <1>5 DEF ServerStep

LEMMA ServesStep ==
  ASSUME Typed, NEW r \in Requests, ServerStep(r) \/ Reply(r), NEW v, Serves(r, v)
  PROVE  Serves(r, v)'
<1> USE DEF Typed, TypeOK, Serves, WithSong, Locked
<1>1. CASE SearchFails(r) \/ ResolveVideoID(r) \/ FetchVideoMeta(r)
  BY <1>1 DEF SearchFails, ResolveVideoID, FetchVideoMeta, Failure
<1>2. CASE SaveToDB(r)
  BY <1>2 DEF SaveToDB, AfterSave
<1>3. CASE Lock(r)
  BY <1>3 DEF Lock
<1>4. ASSUME NEW ok \in BOOLEAN, pc[r] \in Locked, AfterDownload(r, ok),
             UNCHANGED <<video, req>>
      PROVE  Serves(r, v)'
  <2>1. pc'[r] = "answered" /\ answer'[r] \in {Success({v}, FALSE, {}, {v}), Failure}
    BY <1>4 DEF AfterDownload
  <2>2. Success({v}, FALSE, {}, {v}).items = {v} /\ Failure.items = {}
    BY DEF Success, Failure
  <2> QED
    BY <2>1, <2>2
<1>5. CASE Stat(r)
  BY <1>4, <1>5 DEF Stat, Return
<1>6. CASE Download(r)
  BY <1>4, <1>6 DEF Download, Return
<1>7. CASE Truncate(r)
  BY <1>7 DEF Truncate
<1>8. CASE Fill(r)
  BY <1>4, <1>8 DEF Fill, Return
<1>9. CASE PlaylistStep(r) \/ SelectRandom(r) \/ (pc[r] = "select" /\ DatabaseFails(r))
  BY <1>9 DEF PlaylistStep, LookUp, PageFails, LastPage, NextItem, LastItem, SelectRandom
<1>10. CASE Reply(r)
  BY <1>10 DEF Reply
<1> QED
  BY <1>1, <1>2, <1>3, <1>5, <1>6, <1>7, <1>8, <1>9, <1>10
  DEF ServerStep, SongStep, DownloadStep

Wanted(r) == Finds[call[r].text]

\* While a call of !play is not called back, the request that it uses works for it.
Right ==
  \A r \in Requests : call[r].op = "process" =>
    /\ Serves(r, Wanted(r))
    /\ \A a \in Answers : inbox[r] = <<a>> => a.items \subseteq {Wanted(r)}

LEMMA RightStep ==
  Told /\ ClientTyped /\ Right /\ [ClientNext]_allVars => Right'
<1> SUFFICES ASSUME Told, ClientTyped, Right, [ClientNext]_allVars PROVE Right'
  OBVIOUS
<1>0. Typed /\ Single
  BY DEF Told, Files
\* A call that stays the same is served by the same request.
<1>1. ASSUME NEW q \in Requests, call'[q] = call[q], Serves(q, Wanted(q))',
             \A a \in Answers : inbox'[q] = <<a>> =>
               inbox[q] = <<a>> \/ a = Failure \/ (pc[q] = "answered" /\ a = answer[q])
      PROVE  (call[q].op = "process" =>
                /\ Serves(q, Wanted(q))
                /\ \A a \in Answers : inbox[q] = <<a>> => a.items \subseteq {Wanted(q)})'
  <2>1. Failure.items = {}
    BY DEF Failure
  <2> QED
    BY <1>1, <2>1 DEF Right, Serves, Wanted
<1>2. ASSUME NEW r \in Requests, NEW op, NEW t, RequestServer(r, op, t),
             NEW q \in Requests \ {r},
             NewRequest(r) \/ DatabaseFails(r)
      PROVE  (call[q].op = "process" =>
                /\ Serves(q, Wanted(q))
                /\ \A a \in Answers : inbox[q] = <<a>> => a.items \subseteq {Wanted(q)})'
  <2>1. call'[q] = call[q] /\ inbox' = inbox
    BY <1>2 DEF RequestServer, ClientTyped, CallTyped
  <2>2. pc'[q] = pc[q] /\ video'[q] = video[q] /\ req'[q] = req[q] /\ answer'[q] = answer[q]
    BY <1>0, <1>2, OthersServe
  <2> QED
    BY <2>1, <2>2 DEF Right, Serves, Wanted
\* A call begins.
<1>3. ASSUME NEW r \in Requests, NEW t \in Texts, Play(r, t) PROVE Right'
  <2>1. /\ call'[r] = [op |-> "process", text |-> t] /\ call[r] = NoCall
        /\ inbox' = inbox /\ pc[r] = "idle"
    BY <1>3 DEF Play, RequestServer, ClientTyped, CallTyped
  <2>2. inbox'[r] = <<>>
    BY <2>1 DEF ClientTyped, InboxTyped
  <2>3. Wanted(r)' = Finds[t]
    BY <2>1 DEF Wanted
  <2>4. Serves(r, Finds[t])'
    <3>1. CASE BadRequest(r)
      BY <1>0, <3>1 DEF BadRequest, Serves, WithSong, Locked, Failure, Typed, TypeOK
    <3>2. CASE HandleProcess(r) /\ video'[r] = Finds[Query(UrlEncode(t))]
      <4>1. pc'[r] \in {"meta", "search"} /\ req' = req /\ ~req[r].list
        BY <1>0, <2>1, <3>2 DEF HandleProcess, Single, Typed, TypeOK
      <4> QED
        BY <3>2, <4>1, QueryOfUrl DEF Serves
    <3> QED
      BY <1>3, <3>1, <3>2 DEF Play
  <2>5. RequestServer(r, "process", t) /\ NewRequest(r)
    BY <1>3 DEF Play, NewRequest
  <2>6. \A a \in Answers : <<>> # <<a>>
    BY OneElement
  <2> QED
    BY <1>2, <2>2, <2>3, <2>4, <2>5, <2>6 DEF Right
<1>4. ASSUME NEW r \in Requests, PlayList(r) \/ Omakase(r) \/ Delete(r) PROVE Right'
  <2>1. PICK op \in {"playlist", "random", "deactivate"} : RequestServer(r, op, <<>>)
    BY <1>4 DEF PlayList, Omakase, Delete
  <2>2. NewRequest(r) \/ DatabaseFails(r)
    BY <1>4 DEF PlayList, Omakase, Delete, NewRequest
  <2>3. call'[r].op # "process"
    BY <2>1 DEF RequestServer, ClientTyped, CallTyped
  <2> QED
    BY <1>2, <2>1, <2>2, <2>3 DEF Right
<1>5. ASSUME NEW r \in Requests, ServerStep(r) \/ Reply(r), call' = call,
             NEW q \in Requests, call[q].op = "process"
      PROVE  Serves(q, Wanted(q))'
  <2>1. Serves(q, Wanted(q)) /\ Wanted(q)' = Wanted(q)
    BY <1>5 DEF Right, Wanted
  <2>2. CASE q = r
    BY <1>0, <1>5, <2>1, <2>2, ServesStep
  <2>3. CASE q # r
    BY <1>0, <1>5, <2>1, <2>3, OthersServe DEF Serves
  <2> QED
    BY <2>2, <2>3
<1>6. ASSUME NEW r \in Requests, ServerStep(r), UNCHANGED client PROVE Right'
  BY <1>1, <1>5, <1>6 DEF Right, client
<1>7. CASE (\E r \in Requests : AnswerCall(r) \/ GiveUp(r)) \/ ServerCrash
  <2>1. Delivery
    BY <1>0, <1>7, Deliveries
  <2>2. ASSUME NEW q \in Requests, call[q].op = "process" PROVE Serves(q, Wanted(q))'
    <3>1. ASSUME NEW r \in Requests, AnswerCall(r) PROVE Serves(q, Wanted(q))'
      BY <1>5, <2>1, <2>2, <3>1 DEF AnswerCall, Delivery
    <3>2. ASSUME NEW r \in Requests, GiveUp(r) PROVE Serves(q, Wanted(q))'
      BY <2>2, <3>2 DEF GiveUp, Right, Serves, Wanted, vars
    <3>3. CASE ServerCrash
      BY <3>3 DEF ServerCrash, Crash, Serves, WithSong, Locked
    <3> QED
      BY <1>7, <3>1, <3>2, <3>3
  <2>3. \A a, b : <<a>> = <<b>> => a = b
    BY OneElement
  <2> QED
    BY <1>1, <2>1, <2>2, <2>3 DEF Right, Delivery
\* A call that is called back is over.
<1>8. ASSUME NEW r \in Requests, Callback(r) PROVE Right'
  <2>1. /\ call' = [call EXCEPT ![r] = NoCall] /\ inbox' = [inbox EXCEPT ![r] = Tail(@)]
        /\ UNCHANGED vars
    BY <1>8 DEF Callback
  <2>2. call'[r].op # "process"
    BY <2>1 DEF ClientTyped, CallTyped, NoCall
  <2>3. \A q \in Requests \ {r} : call'[q] = call[q] /\ inbox'[q] = inbox[q]
    BY <2>1 DEF ClientTyped, CallTyped, InboxTyped
  <2> QED
    BY <2>1, <2>2, <2>3 DEF Right, Serves, Wanted, vars
<1>9. CASE CloseAudioStream \/ (\E s \in queued : GetAudioStream(s)) \/ UNCHANGED allVars
  BY <1>9 DEF CloseAudioStream, GetAudioStream, allVars, vars, client, Right, Serves, Wanted
<1> QED
  BY <1>3, <1>4, <1>6, <1>7, <1>8, <1>9 DEF ClientNext

\* What is answered to !play is the song that the text finds which was typed.
THEOREM TypedIsFound == ClientSpec => []RightSong
<1> DEFINE Inv == Told /\ ClientTyped /\ Right
<1>1. ClientInit => Inv
  BY InitTold, InitClientTyped DEF ClientInit, Right, NoCall
<1>2. Inv /\ [ClientNext]_allVars => Inv'
  BY ToldStep, ClientTypedStep, RightStep DEF Told, Files
<1>3. Inv => RightSong
  <2> SUFFICES ASSUME Inv, NEW r \in Requests, NEW i \in DOMAIN inbox[r],
                      call[r].op = "process"
               PROVE  inbox[r][i].items \subseteq {Finds[call[r].text]}
    BY DEF RightSong
  <2>1. inbox[r] # <<>>
    OBVIOUS
  <2>2. PICK a \in Answers : inbox[r] = <<a>>
    BY <2>1 DEF ClientTyped, InboxTyped
  <2> QED
    BY <2>2, OneElement DEF Right, Wanted
<1> QED
  BY <1>1, <1>2, <1>3, PTL DEF ClientSpec
=============================================================================
