---------------------------- MODULE ClientServer ----------------------------
(***************************************************************************)
(* The client's requests and the songs it plays, composed with the media   *)
(* server that answers them: both run on one host, talk over HTTP, and     *)
(* share the files, which the server writes and the client reads.          *)
(*                                                                         *)
(* A goroutine of the server is the one that serves a call of the client.  *)
(* When a request travels does not matter; its answer is a callback of the *)
(* client that runs some time after it was given, or after the client has  *)
(* given up.  The order of the queue is in Playback; here it is a set.     *)
(***************************************************************************)
EXTENDS MediaServer

CONSTANTS Finds,      \* the video that a text typed by a user finds on YouTube
          Unreserved, \* characters that a URL has as they are
          MaxCalls    \* bound: calls of the client

Texts == DOMAIN Finds

ASSUME ClientAssumption ==
  /\ Finds \in [Texts -> Videos] /\ \A t \in Texts : t \in Seq(STRING)
  /\ " " \notin Unreserved /\ "+" \notin Unreserved
  /\ MaxCalls \in Nat

VARIABLES
  call,     \* what the client has asked and not yet been called back for
  inbox,    \* callbacks of a call that are to run, with what they are told
  queued,   \* songs in the client's queue, as they were received
  reading,  \* the song whose file the audio thread has open, or Silence
  calls     \* how many calls there were

client == <<call, inbox, queued, reading, calls>>
allVars == <<vars, client>>

Ops == {"none", "process", "playlist", "random", "deactivate"}
NoCall == [op |-> "none", text |-> <<>>]

\* promised: the answer said that it has been downloaded.  lost: its path is not its own.
Received == [song : Videos, promised : BOOLEAN, lost : BOOLEAN]
Silence == [song |-> Nobody, promised |-> FALSE, lost |-> FALSE]

ClientTypeOK ==
  /\ \A r \in Requests : call[r].op \in Ops /\ call[r].text \in Texts \cup {<<>>}
  /\ \A r \in Requests : Len(inbox[r]) <= (IF call[r] = NoCall THEN 0 ELSE 1)
  /\ queued \subseteq Received /\ reading \in Received \cup {Silence}
  /\ calls \in 0..MaxCalls

ClientInit ==
  /\ Init
  /\ call = AllAre(NoCall) /\ inbox = AllAre(<<>>) /\ queued = {} /\ reading = Silence
  /\ calls = 0

-----------------------------------------------------------------------------
(***************************************************************************)
(* Requests.                                                               *)
(***************************************************************************)
Char(c) == <<"char", c>>
Hex(c) == <<"hex", c>>

\* Bug: what a URL has for a space is sent as it is.
UrlEncodeKeepsPlus(text) ==
  [i \in DOMAIN text |-> LET c == text[i] IN
     IF c \in Unreserved \cup {"+"} THEN Char(c) ELSE IF c = " " THEN Char("+") ELSE Hex(c)]

UrlEncode(text) ==
  [i \in DOMAIN text |-> LET c == text[i] IN
     IF c \in Unreserved THEN Char(c) ELSE IF c = " " THEN Char("+") ELSE Hex(c)]

\* What net/http makes of it.
Query(url) == [i \in DOMAIN url |-> IF url[i] = Char("+") THEN " " ELSE url[i][2]]

\* RequestServer, and the server's acceptance of what is asked.
RequestServer(r, op, text) ==
  /\ call[r] = NoCall /\ pc[r] = "idle" /\ calls < MaxCalls
  /\ call' = [call EXCEPT ![r] = [op |-> op, text |-> text]] /\ calls' = calls + 1
  /\ UNCHANGED <<inbox, queued, reading>>

Play(r, text) ==
  /\ RequestServer(r, "process", text)
  /\ \/ HandleProcess(r) /\ video'[r] = Finds[Query(UrlEncode(text))]
     \/ BadRequest(r)

PlayList(r) == RequestServer(r, "playlist", <<>>) /\ (HandlePlaylist(r) \/ BadRequest(r))

Omakase(r) ==
  /\ RequestServer(r, "random", <<>>)
  /\ CountActive(r) \/ (pc[r] = "idle" /\ DatabaseFails(r))

\* !delete is for the song that plays.
Delete(r) ==
  /\ reading # Silence
  /\ RequestServer(r, "deactivate", <<>>)
  /\ \/ HandleDeactivate(r) /\ \A v \in Videos \ {reading.song} : row'[v] = row[v]
     \/ DatabaseFails(r)

-----------------------------------------------------------------------------
(***************************************************************************)
(* Answers.                                                                *)
(***************************************************************************)
Tell(r, a) == [inbox EXCEPT ![r] = Append(@, a)]

\* Bug: the callback runs for an answer that comes after the client has given up, too.
AnswerAnyway(r) ==
  /\ Reply(r)
  /\ inbox' = Tell(r, answer[r])
  /\ UNCHANGED <<call, queued, reading, calls>>

\* The answer arrives, if somebody still waits for it.
AnswerCall(r) ==
  /\ Reply(r)
  /\ inbox' = IF call[r] # NoCall /\ inbox[r] = <<>> THEN Tell(r, answer[r]) ELSE inbox
  /\ UNCHANGED <<call, queued, reading, calls>>

\* dpp gives up the request: no status.  The server goes on.
GiveUp(r) ==
  /\ call[r] # NoCall /\ inbox[r] = <<>>
  /\ inbox' = Tell(r, Failure)
  /\ UNCHANGED <<vars, call, queued, reading, calls>>

\* The server is killed, and with it its connections.
ServerCrash ==
  /\ Crash
  /\ inbox' = [r \in Requests |-> IF pc[r] # "idle" /\ call[r] # NoCall /\ inbox[r] = <<>>
                                  THEN <<Failure>> ELSE inbox[r]]
  /\ UNCHANGED <<call, queued, reading, calls>>

\* ParseVideoDbInfo of every item; all of them have a path.
Songs(a) == {[song |-> v, promised |-> v \in a.done, lost |-> v \in a.odd] : v \in a.items}

\* The callbacks: a failure changes nothing, and neither does null in place of a list.
Callback(r) ==
  /\ inbox[r] # <<>>
  /\ LET a == Head(inbox[r])
     IN  queued' = IF a.ok /\ call[r].op # "deactivate" THEN queued \cup Songs(a) ELSE queued
  /\ call' = [call EXCEPT ![r] = NoCall] /\ inbox' = [inbox EXCEPT ![r] = Tail(@)]
  /\ UNCHANGED <<vars, reading, calls>>

-----------------------------------------------------------------------------
(***************************************************************************)
(* Files.                                                                  *)
(***************************************************************************)
Exists(s) == ~s.lost /\ file[PathOf[s.song]] # "absent"

\* The song is open, or gives way to the next one.
GetAudioStream(s) ==
  /\ reading = Silence
  /\ queued' = queued \ {s}
  /\ reading' = IF Exists(s) THEN s ELSE Silence
  /\ UNCHANGED <<vars, call, inbox, calls>>

\* Bug: the file is removed after it has been played.
CleanupRemoves(path) == file' = [file EXCEPT ![path] = "absent"]

\* The files are the server's.
Cleanup(path) == UNCHANGED file

CloseAudioStream ==
  /\ reading # Silence /\ reading' = Silence
  /\ Cleanup(PathOf[reading.song])
  /\ UNCHANGED <<table, holder, pc, video, req, answer, history, call, inbox, queued, calls>>

ServerStep(r) ==
  SongStep(r) \/ Lock(r) \/ DownloadStep(r) \/ PlaylistStep(r) \/ SelectRandom(r)
    \/ (pc[r] = "select" /\ DatabaseFails(r))

ClientNext ==
  \/ \E r \in Requests :
       \/ \E t \in Texts : Play(r, t)
       \/ PlayList(r) \/ Omakase(r) \/ Delete(r)
       \/ ServerStep(r) /\ UNCHANGED client
       \/ AnswerCall(r) \/ GiveUp(r) \/ Callback(r)
  \/ ServerCrash
  \/ \E s \in queued : GetAudioStream(s)
  \/ CloseAudioStream

ClientSpec == ClientInit /\ [][ClientNext]_allVars

\* That of the server's goroutines; dpp's threads run the callbacks.
ClientFairSpec ==
  /\ ClientSpec
  /\ \A r \in Requests :
       /\ WF_allVars(UNCHANGED client /\
            (SongStep(r) \/ DownloadStep(r) \/ PlaylistStep(r) \/ SelectRandom(r)))
       /\ SF_allVars(Lock(r) /\ UNCHANGED client)
       /\ WF_allVars(AnswerCall(r) \/ Callback(r))

-----------------------------------------------------------------------------
(***************************************************************************)
(* Properties.                                                             *)
(***************************************************************************)
\* A song that came with the promise that it has been downloaded has its whole file for as
\* long as it waits and while it is played, unless a write of that file did once not
\* finish: no other request, kill or played copy of it takes the file away, and no late
\* download puts another song there, but one whose title makes the same file name.
PromisedIsWhole ==
  \A s \in queued \cup {reading} :
    s.promised => \/ PathOf[s.song] \in interrupted
                  \/ \E u \in Videos : file[PathOf[s.song]] = u /\ PathOf[u] = PathOf[s.song]

\* The song that is answered to !play is the one that the text finds which the user typed,
\* characters with a meaning in a URL included.
RightSong ==
  \A r \in Requests : \A i \in DOMAIN inbox[r] :
    call[r].op = "process" => inbox[r][i].items \subseteq {Finds[call[r].text]}

\* Every call is called back, whatever fails and even if the server is killed.
CalledBack == \A r \in Requests : call[r] # NoCall ~> call[r] = NoCall
=============================================================================
