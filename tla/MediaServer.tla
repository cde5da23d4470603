----------------------------- MODULE MediaServer -----------------------------
(***************************************************************************)
(* The Go server: requests that resolve, record and download songs, the    *)
(* table of songs, and the files.  Every request runs in a goroutine of    *)
(* its own; what it does between two calls of YouTube, MySQL, yt-dlp or    *)
(* the file system is one step.  Any call may fail, and the server may be  *)
(* killed and started again: the table and the files stay.                 *)
(*                                                                         *)
(* downloadLocks never forgets a mutex, so that the mutex of a path can be *)
(* identified with the path.                                               *)
(***************************************************************************)
EXTENDS Naturals, Sequences, FiniteSets

CONSTANTS Requests,       \* goroutines that serve requests
          Videos,
          Paths,          \* .pcm files under db/
          PathOf,         \* getTargetPCMPath: a song's file, by channel and title
          Playlists,      \* playlists, sequences of videos
          Counts,         \* values of the parameter of /getrandom
          CountCap,       \* at most so many songs are recommended (100)
          Nobody,         \* no request, no song
          MaxCrashes      \* bound: how often the server is killed

ASSUME ServerAssumption ==
  /\ PathOf \in [Videos -> Paths]
  /\ IsFiniteSet(Videos) /\ Playlists \subseteq Seq(Videos)
  /\ Counts \subseteq Nat \ {0} /\ CountCap \in Nat \ {0}
  /\ Nobody \notin Requests \cup Videos
  /\ Videos \cap {"absent", "partial", "writing", "broken"} = {}
  /\ MaxCrashes \in Nat

VARIABLES
  row,          \* the table: "none", or whether the song is active
  column,       \* what channel_id of a row holds: the channel's "title" or its "id"
  file,         \* "absent", "partial", or the song whose audio the file is
  holder,       \* of the mutex of a path in downloadLocks, or Nobody
  pc,           \* where a request is
  video,        \* the song it works on, or Nobody
  req,          \* what else it keeps
  answer,       \* its JSON answer, once there is one
  crashes,      \* history: how often the server was killed
  interrupted,  \* history: files a write of which did not finish
  failed        \* history: songs for which a step has failed

table == <<row, column>>
history == <<crashes, interrupted, failed>>
vars == <<row, column, file, holder, pc, video, req, answer, crashes, interrupted, failed>>

Target(r) == PathOf[video[r]]
Active == {v \in Videos : row[v] = "active"}
Min(a, b) == IF a < b THEN a ELSE b

\* A playlist's songs still to look up or to download, those looked up, those counted
\* as successes; how many songs /getrandom selects.
Data == [list : BOOLEAN, todo : Seq(Videos), found : Seq(Videos), good : SUBSET Videos,
         wanted : 0..CountCap]
NoData == [list |-> FALSE, todo |-> <<>>, found |-> <<>>, good |-> {}, wanted |-> 0]
SongsOf(s) == {s[i] : i \in DOMAIN s}

\* items: the songs in the answer.  null: they are sent as null, not as a list.
\* odd: those sent with another channel and file than theirs.  done: those that the
\* answer says are downloaded.
Answers == [ok : BOOLEAN, items : SUBSET Videos, null : BOOLEAN, odd : SUBSET Videos,
            done : SUBSET Videos]
Failure == [ok |-> FALSE, items |-> {}, null |-> FALSE, odd |-> {}, done |-> {}]
Success(items, null, odd, done) ==
  [ok |-> TRUE, items |-> items, null |-> null, odd |-> odd, done |-> done]

Locked == {"stat", "download", "write", "fill"}  \* between Lock and unlock
Locations == {"idle", "search", "meta", "pages", "item", "lock", "save", "select",
              "answered"} \cup Locked

TypeOK ==
  /\ row \in [Videos -> {"none", "active", "inactive"}]
  /\ column \in [Videos -> {"title", "id"}]
  /\ file \in [Paths -> {"absent", "partial"} \cup Videos]
  /\ holder \in [Paths -> Requests \cup {Nobody}]
  /\ pc \in [Requests -> Locations] /\ video \in [Requests -> Videos \cup {Nobody}]
  /\ req \in [Requests -> Data]
  /\ answer \in [Requests -> Answers]
  /\ crashes \in 0..MaxCrashes
  /\ interrupted \subseteq Paths /\ failed \subseteq Videos

Free == [p \in Paths |-> Nobody]
AllAre(x) == [r \in Requests |-> x]

Init ==
  /\ row = [v \in Videos |-> "none"] /\ column = [v \in Videos |-> "title"]
  /\ file = [p \in Paths |-> "absent"]
  /\ holder = Free /\ pc = AllAre("idle") /\ video = AllAre(Nobody)
  /\ req = AllAre(NoData) /\ answer = AllAre(Failure)
  /\ crashes = 0 /\ interrupted = {} /\ failed = {}

-----------------------------------------------------------------------------
(***************************************************************************)
(* Answers.                                                                *)
(***************************************************************************)
Goto(r, l) == pc' = [pc EXCEPT ![r] = l]
WorkOn(r, v) == video' = [video EXCEPT ![r] = v]

Answer(r, a) == Goto(r, "answered") /\ answer' = [answer EXCEPT ![r] = a]

\* The answer is sent and the goroutine ends.
Reply(r) ==
  /\ pc[r] = "answered"
  /\ Goto(r, "idle") /\ WorkOn(r, Nobody)
  /\ req' = [req EXCEPT ![r] = NoData] /\ answer' = [answer EXCEPT ![r] = Failure]
  /\ UNCHANGED <<table, file, holder, history>>

-----------------------------------------------------------------------------
(***************************************************************************)
(* handleProcess: one song.                                                *)
(***************************************************************************)
\* The input is missing, a radio or no playlist id.
BadRequest(r) ==
  /\ pc[r] = "idle" /\ Answer(r, Failure)
  /\ UNCHANGED <<table, file, holder, video, req, history>>

HandleProcess(r) ==
  /\ pc[r] = "idle"
  /\ \E v \in Videos : WorkOn(r, v)
  /\ \/ Goto(r, "meta")    \* the video's URL
     \/ Goto(r, "search")  \* words that find it
  /\ UNCHANGED <<table, file, holder, req, answer, history>>

SaveSearchResult(v) ==
  /\ row' = [row EXCEPT ![v] = "active"] /\ column' = [column EXCEPT ![v] = "id"]

\* resolveVideoID after a search, whose result goes into the table as YouTube sent it:
\* channel_id is the channel's ID, the duration 0.  If that fails it is only logged.
ResolveVideoID(r) ==
  /\ pc[r] = "search"
  /\ SaveSearchResult(video[r]) \/ UNCHANGED table
  /\ Goto(r, "meta")
  /\ UNCHANGED <<file, holder, video, req, answer, history>>

SearchFails(r) ==
  /\ pc[r] = "search"
  /\ Answer(r, Failure)
  /\ UNCHANGED <<table, file, holder, video, req, history>>

FetchVideoMeta(r) ==
  /\ pc[r] = "meta"
  /\ \/ Goto(r, "save") /\ UNCHANGED <<answer, failed>>
     \/ Answer(r, Failure) /\ failed' = failed \cup {video[r]}
  /\ UNCHANGED <<table, file, holder, video, req, crashes, interrupted>>

\* A song goes on to its download whether it could be saved or not.
AfterSave(r, saved) ==
  IF req[r].list
  THEN /\ Goto(r, "item")
       /\ req' = [req EXCEPT ![r].good = IF saved THEN @ \cup {video[r]} ELSE @]
  ELSE Goto(r, "lock") /\ UNCHANGED req

\* Bug: the columns of a row that is there already are not updated.
SaveToDBInsertOnly(r) ==
  /\ pc[r] = "save"
  /\ row' = [row EXCEPT ![video[r]] = "active"]
  /\ AfterSave(r, TRUE)
  /\ UNCHANGED <<column, file, holder, video, answer, history>>

SaveToDB(r) ==
  /\ pc[r] = "save"
  /\ \/ /\ row' = [row EXCEPT ![video[r]] = "active"]
        /\ column' = [column EXCEPT ![video[r]] = "title"]
        /\ AfterSave(r, TRUE) /\ UNCHANGED failed
     \/ /\ failed' = failed \cup {video[r]}
        /\ AfterSave(r, FALSE) /\ UNCHANGED table
  /\ UNCHANGED <<file, holder, video, answer, crashes, interrupted>>

-----------------------------------------------------------------------------
(***************************************************************************)
(* ensureDownloaded and downloadAndConvert.                                *)
(***************************************************************************)
\* Bug: the mutex does not exclude anybody.
LockOpen(r) ==
  /\ pc[r] = "lock"
  /\ holder' = [holder EXCEPT ![Target(r)] = r] /\ Goto(r, "stat")
  /\ UNCHANGED <<table, file, video, req, answer, history>>

\* Bug: whether the file exists is not looked up under the mutex.
LockNoStat(r) ==
  /\ pc[r] = "lock" /\ holder[Target(r)] = Nobody
  /\ holder' = [holder EXCEPT ![Target(r)] = r] /\ Goto(r, "download")
  /\ UNCHANGED <<table, file, video, req, answer, history>>

Lock(r) ==
  /\ pc[r] = "lock" /\ holder[Target(r)] = Nobody
  /\ holder' = [holder EXCEPT ![Target(r)] = r] /\ Goto(r, "stat")
  /\ UNCHANGED <<table, file, video, req, answer, history>>

\* Bug: the error of a download does not reach the answer.
AfterDownloadIgnored(r, ok) ==
  IF req[r].list THEN Goto(r, "save") /\ UNCHANGED answer
  ELSE Answer(r, Success({video[r]}, FALSE, {}, {video[r]}))

\* What follows the download: the answer, or the table and the next song of the list.
AfterDownload(r, ok) ==
  IF req[r].list
  THEN Goto(r, IF ok THEN "save" ELSE "item") /\ UNCHANGED answer
  ELSE Answer(r, IF ok THEN Success({video[r]}, FALSE, {}, {video[r]})
                 ELSE Failure)

\* Bug: only a success unlocks.
ReturnNoDefer(r, ok) ==
  /\ holder' = IF ok THEN [holder EXCEPT ![Target(r)] = Nobody] ELSE holder
  /\ AfterDownload(r, ok)

\* ensureDownloaded returns; its deferred unlock runs.
Return(r, ok) ==
  /\ holder' = [holder EXCEPT ![Target(r)] = Nobody]
  /\ AfterDownload(r, ok)

Stat(r) ==
  /\ pc[r] = "stat"
  /\ IF file[Target(r)] # "absent" THEN Return(r, TRUE)
     ELSE Goto(r, "download") /\ UNCHANGED <<holder, answer>>
  /\ UNCHANGED <<table, file, video, req, history>>

\* yt-dlp with one client after another, then ffmpeg; all of it may fail.
Download(r) ==
  /\ pc[r] = "download"
  /\ \/ Goto(r, "write") /\ UNCHANGED <<holder, answer, failed>>
     \/ Return(r, FALSE) /\ failed' = failed \cup {video[r]}
  /\ UNCHANGED <<table, file, video, req, crashes, interrupted>>

\* os.WriteFile makes the file empty before it fills it.
Truncate(r) ==
  /\ pc[r] = "write"
  /\ file' = [file EXCEPT ![Target(r)] = "partial"] /\ Goto(r, "fill")
  /\ UNCHANGED <<table, holder, video, req, answer, history>>

Fill(r) ==
  /\ pc[r] = "fill"
  /\ \/ /\ file' = [file EXCEPT ![Target(r)] = video[r]]
        /\ Return(r, TRUE) /\ UNCHANGED interrupted
     \/ /\ interrupted' = interrupted \cup {Target(r)}
        /\ Return(r, FALSE) /\ UNCHANGED file
  /\ UNCHANGED <<table, video, req, crashes, failed>>

-----------------------------------------------------------------------------
(***************************************************************************)
(* handlePlaylist.                                                         *)
(***************************************************************************)
HandlePlaylist(r) ==
  /\ pc[r] = "idle"
  /\ \E s \in Playlists : req' = [req EXCEPT ![r].list = TRUE, ![r].todo = s]
  /\ Goto(r, "pages")
  /\ UNCHANGED <<table, file, holder, video, answer, history>>

\* searchVideoByURL for the next song; one that cannot be looked up is left out.
LookUp(r) ==
  /\ pc[r] = "pages" /\ req[r].todo # <<>>
  /\ \/ req' = [req EXCEPT ![r].todo = Tail(@), ![r].found = Append(@, Head(req[r].todo))]
     \/ req' = [req EXCEPT ![r].todo = Tail(@)]
  /\ UNCHANGED <<table, file, holder, pc, video, answer, history>>

\* The next page cannot be fetched.
PageFails(r) ==
  /\ pc[r] = "pages" /\ Answer(r, Failure)
  /\ UNCHANGED <<table, file, holder, video, req, history>>

LastPage(r) ==
  /\ pc[r] = "pages" /\ req[r].todo = <<>>
  /\ req' = [req EXCEPT ![r].todo = req[r].found] /\ Goto(r, "item")
  /\ UNCHANGED <<table, file, holder, video, answer, history>>

NextItem(r) ==
  /\ pc[r] = "item" /\ req[r].todo # <<>>
  /\ WorkOn(r, Head(req[r].todo)) /\ req' = [req EXCEPT ![r].todo = Tail(@)]
  /\ Goto(r, "lock")
  /\ UNCHANGED <<table, file, holder, answer, history>>

\* The answer lists the songs that failed, too; a list never appended to is null.
LastItem(r) ==
  /\ pc[r] = "item" /\ req[r].todo = <<>>
  /\ Answer(r, Success(SongsOf(req[r].found), req[r].found = <<>>, {}, req[r].good))
  /\ UNCHANGED <<table, file, holder, video, req, history>>

-----------------------------------------------------------------------------
(***************************************************************************)
(* handleGetRandom and handleDeactivate.                                   *)
(***************************************************************************)
\* Bug: the number asked for is not capped.
CountActiveNoCap(r) ==
  /\ pc[r] = "idle" /\ Active # {}
  /\ \E n \in Counts : req' = [req EXCEPT ![r].wanted = Min(n, Cardinality(Active))]
  /\ Goto(r, "select")
  /\ UNCHANGED <<table, file, holder, video, answer, history>>

\* GetRandom counts the active songs ...
CountActive(r) ==
  /\ pc[r] = "idle"
  /\ \E n \in Counts :
       LET total == Cardinality(Active)
       IN  IF total = 0 THEN Answer(r, Success({}, FALSE, {}, {})) /\ UNCHANGED req
           ELSE /\ req' = [req EXCEPT ![r].wanted = Min(Min(n, CountCap), total)]
                /\ Goto(r, "select") /\ UNCHANGED answer
  /\ UNCHANGED <<table, file, holder, video, history>>

\* ... and then selects that many of those active by then.
SelectRandom(r) ==
  /\ pc[r] = "select"
  /\ \E S \in SUBSET Active :
       /\ Cardinality(S) = Min(req[r].wanted, Cardinality(Active))
       /\ Answer(r, Success(S, S = {}, {v \in S : column[v] = "id"}, {}))
  /\ UNCHANGED <<table, file, holder, video, req, history>>

DatabaseFails(r) ==
  /\ pc[r] \in {"idle", "select"} /\ Answer(r, Failure)
  /\ UNCHANGED <<table, file, holder, video, req, history>>

\* The UPDATE affects a row only if it changes it.
HandleDeactivate(r) ==
  /\ pc[r] = "idle"
  /\ \E v \in Videos :
       IF row[v] = "active"
       THEN row' = [row EXCEPT ![v] = "inactive"] /\ Answer(r, Success({v}, FALSE, {}, {}))
       ELSE UNCHANGED row /\ Answer(r, Failure)
  /\ UNCHANGED <<column, file, holder, video, req, history>>

-----------------------------------------------------------------------------
\* The server is killed and started again.
Crash ==
  /\ crashes < MaxCrashes /\ crashes' = crashes + 1
  /\ interrupted' = interrupted \cup {Target(r) : r \in {q \in Requests : pc[q] = "fill"}}
  /\ failed' = failed \cup ({video[r] : r \in Requests} \ {Nobody})
  /\ holder' = Free /\ pc' = AllAre("idle") /\ video' = AllAre(Nobody)
  /\ req' = AllAre(NoData) /\ answer' = AllAre(Failure)
  /\ UNCHANGED <<table, file>>

SongStep(r) == SearchFails(r) \/ ResolveVideoID(r) \/ FetchVideoMeta(r) \/ SaveToDB(r)
DownloadStep(r) == Stat(r) \/ Download(r) \/ Truncate(r) \/ Fill(r)
PlaylistStep(r) == LookUp(r) \/ PageFails(r) \/ LastPage(r) \/ NextItem(r) \/ LastItem(r)
NewRequest(r) == \/ BadRequest(r) \/ HandleProcess(r) \/ HandlePlaylist(r)
                 \/ CountActive(r) \/ HandleDeactivate(r)

Next ==
  \/ \E r \in Requests : \/ NewRequest(r) \/ SongStep(r) \/ Lock(r) \/ DownloadStep(r)
                         \/ PlaylistStep(r) \/ SelectRandom(r) \/ DatabaseFails(r) \/ Reply(r)
  \/ Crash

Spec == Init /\ [][Next]_vars

(***************************************************************************)
(* Calls return, and sync.Mutex hands itself over to whoever has waited    *)
(* for a millisecond, so that a goroutine that keeps finding it free some  *)
(* time gets it.                                                           *)
(***************************************************************************)
Fairness ==
  \A r \in Requests :
    /\ WF_vars(SongStep(r) \/ DownloadStep(r) \/ PlaylistStep(r) \/ SelectRandom(r) \/ Reply(r))
    /\ SF_vars(Lock(r))

FairSpec == Spec /\ Fairness

-----------------------------------------------------------------------------
(***************************************************************************)
(* Properties.                                                             *)
(***************************************************************************)
\* Two requests never download to one file at a time, whatever asks for them and
\* whatever fails in between.
OneDownload ==
  \A r, s \in Requests :
    r # s /\ pc[r] \in Locked /\ pc[s] \in Locked => Target(r) # Target(s)

\* The abstract library: a file that is there in part is being written or was given up.
Library == INSTANCE SongLibrary WITH
  stage <- [p \in Paths |-> IF file[p] # "partial" THEN file[p]
                            ELSE IF p \in interrupted THEN "broken" ELSE "writing"],
  told <- [r \in Requests |-> answer[r].done]

\* Every step of the requests and every crash is a step of the library: a file is begun
\* once, by one request, only the end of its write fills or breaks it, and no answer speaks
\* of it before.
ImplementsLibrary == Library!Spec

\* A song that an answer says is downloaded is: its file is there to its end when the
\* answer is given, unless a write of it did once not finish.
SuccessIsWhole ==
  \A r \in Requests : \A v \in answer[r].done :
    PathOf[v] \in interrupted \/ file[PathOf[v]] \in Videos

\* Requests at work on the song.
Busy(v) == \E r \in Requests : pc[r] # "answered" /\ video[r] = v

\* A song open to recommendation can be played: unless something failed for it or is
\* still under way, its row leads to its file and the file is there.
RecommendedIsPlayable ==
  \A v \in Active \ failed :
    ~Busy(v) => column[v] = "title" /\ (file[PathOf[v]] \in Videos \/ PathOf[v] \in interrupted)

\* What the documents say, and the code does not keep.
\* The answer of /getrandom has a list of items.
ItemsAreAList == \A r \in Requests : answer[r].ok => ~answer[r].null

\* The column channel_id holds the title of the channel, so that songs are sent with
\* their file.
ColumnHoldsTitle == \A r \in Requests : answer[r].odd = {}

\* The same file is the same video.
FileIsTheVideo ==
  \A r \in Requests : \A v \in answer[r].done :
    PathOf[v] \in interrupted \/ file[PathOf[v]] = v
=============================================================================
