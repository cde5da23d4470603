----------------------------- MODULE BotMessages -----------------------------
(***************************************************************************)
(* The messages of one text channel.  The bot keeps the last message of    *)
(* its own and deletes that one when it says something else; it deletes    *)
(* the commands that it has handled, and the latest messages on !clean.    *)
(*                                                                         *)
(* Every call of Discord is a request that is executed some time later,    *)
(* in any order, or fails; of the answers only those to message_create     *)
(* and messages_get matter.  A handler reads lastBotMessages under its     *)
(* mutex; as only the answers write to it, a handler is one action.        *)
(***************************************************************************)
EXTENDS Integers, FiniteSets

CONSTANTS CleanLimit,   \* !clean deletes so many messages at most (10)
          Asked,        \* numbers given to !clean; 0 if there is none that can be read
          MaxMessages   \* bound: messages ever posted, or tried to be

ASSUME MessagesAssumption ==
  /\ CleanLimit \in Nat \ {0} /\ Asked \subseteq Int
  /\ MaxMessages \in Nat

VARIABLES
  posted,      \* messages ever posted, numbered in their order; a failure uses a number, too
  shown,       \* those that are in the channel
  mine,        \* those that the bot posted
  last,        \* lastBotMessages of the channel, or 0
  creates,     \* message_create requests in flight
  confirming,  \* messages created whose callback has not run
  deletions,   \* message_delete and message_delete_bulk requests in flight
  asking,      \* commands that wait for an answer of the server
  cleans,      \* messages_get requests in flight: how many messages they are for
  overlaps,    \* history: messages sent while another one was not yet recorded
  kept,        \* history: messages of the bot's that Discord failed to delete or to confirm
  lost,        \* history: something failed to be created
  swept        \* history: a !clean has deleted something

history == <<overlaps, kept, lost, swept>>
vars == <<posted, shown, mine, last, creates, confirming, deletions, asking, cleans,
          overlaps, kept, lost, swept>>

Messages == 1..MaxMessages
Doomed == UNION deletions
Unfinished == creates + Cardinality(confirming)

TypeOK ==
  /\ posted \in 0..MaxMessages /\ shown \subseteq 1..posted /\ mine \subseteq 1..posted
  /\ last \in mine \cup {0} /\ confirming \subseteq mine
  /\ creates \in Nat /\ overlaps \in Nat /\ kept \in Nat
  /\ deletions \subseteq SUBSET (1..posted)
  /\ asking \subseteq 1..posted
  /\ cleans \subseteq [by : 1..posted, count : 1..CleanLimit]
  /\ lost \in BOOLEAN /\ swept \in BOOLEAN

Init ==
  /\ posted = 0 /\ shown = {} /\ mine = {} /\ last = 0
  /\ creates = 0 /\ confirming = {} /\ deletions = {} /\ asking = {} /\ cleans = {}
  /\ overlaps = 0 /\ kept = 0 /\ lost = FALSE /\ swept = FALSE

-----------------------------------------------------------------------------
(***************************************************************************)
(* The bot's own messages.                                                 *)
(***************************************************************************)
\* SendBotMessage n times in a row; the handler deletes others besides.
Say(n, also) ==
  /\ creates' = creates + n
  /\ deletions' = deletions \cup also \cup (IF last = 0 THEN {} ELSE {{last}})
  /\ overlaps' = overlaps + (n - 1) + (IF Unfinished = 0 THEN 0 ELSE 1)

Quiet(also) ==
  /\ deletions' = deletions \cup also
  /\ UNCHANGED <<creates, overlaps>>

\* A user posts a message.
Post == posted' = posted + 1 /\ shown' = shown \cup {posted'}

Talk ==
  /\ Post
  /\ UNCHANGED <<mine, last, creates, confirming, deletions, asking, cleans, history>>

\* Most commands answer, with one message, and are deleted.  !play, !first, !omakase and
\* !delete may ask the server; the first two are deleted when they have been answered,
\* and a join before them may have something to say.  Left out: the "?" to a !play with
\* nothing after its space, which Discord trims away.
HandleCommand ==
  /\ Post
  /\ \E says, tidied, asks \in BOOLEAN :
       /\ asks \/ (says /\ tidied)
       /\ asking' = IF asks THEN asking \cup {posted'} ELSE asking
       /\ LET also == IF tidied THEN {{posted'}} ELSE {}
          IN  IF says THEN Say(1, also) ELSE Quiet(also)
  /\ UNCHANGED <<mine, last, confirming, cleans, kept, lost, swept>>

\* The answer of the server: songs or a list (and the command is deleted), a failure, a
\* failure that is only marked, a deactivation with or without a skip.
ServerReply(m) ==
  /\ asking' = asking \ {m}
  /\ \/ Say(1, {{m}}) \/ Say(1, {}) \/ Quiet({}) \/ Say(2, {})
  /\ UNCHANGED <<posted, shown, mine, last, confirming, cleans, kept, lost, swept>>

\* The detached thread of an automatic leave.
CheckVoiceChannels ==
  /\ Say(1, {})
  /\ UNCHANGED <<posted, shown, mine, last, confirming, asking, cleans, kept, lost, swept>>

-----------------------------------------------------------------------------
(***************************************************************************)
(* !clean.                                                                 *)
(***************************************************************************)
HandleCleanCommand(asked) ==
  LET count == IF asked <= 0 THEN CleanLimit ELSE asked
  IN  /\ Post
      /\ IF count > CleanLimit
         THEN Say(1, {}) /\ UNCHANGED cleans
         ELSE Quiet({}) /\ cleans' = cleans \cup {[by |-> posted', count |-> count]}
      /\ UNCHANGED <<mine, last, confirming, asking, kept, lost, swept>>

Latest(n) == {m \in shown : Cardinality({k \in shown : k >= m}) <= n}

\* Discord answers messages_get with the messages that are there by then.
MessagesGot(c) ==
  /\ cleans' = cleans \ {c}
  /\ \/ Say(1, {}) /\ UNCHANGED swept
     \/ Quiet({Latest(c.count)} \ {{}}) /\ swept' = TRUE
  /\ UNCHANGED <<posted, shown, mine, last, confirming, asking, kept, lost>>

-----------------------------------------------------------------------------
(***************************************************************************)
(* Discord.                                                                *)
(***************************************************************************)
\* A message is posted, or not.
Created ==
  /\ creates > 0 /\ creates' = creates - 1 /\ posted' = posted + 1
  /\ \/ /\ shown' = shown \cup {posted'} /\ mine' = mine \cup {posted'}
        /\ confirming' = confirming \cup {posted'}
        /\ UNCHANGED lost
     \/ lost' = TRUE /\ UNCHANGED <<shown, mine, confirming>>
  /\ UNCHANGED <<last, deletions, asking, cleans, overlaps, kept, swept>>

\* Bug: the callback does not look whether there was an error.
ConfirmedUnchecked(m) ==
  /\ confirming' = confirming \ {m}
  /\ \/ last' = m /\ UNCHANGED kept
     \/ last' = posted + 1 /\ kept' = kept + 1
  /\ UNCHANGED <<posted, shown, mine, creates, deletions, asking, cleans, overlaps, lost, swept>>

\* Bug: the callback deletes the message before, which is gone by then, or is its own.
ConfirmedDeletes(m) ==
  /\ confirming' = confirming \ {m}
  /\ last' = m /\ deletions' = deletions \cup {{last'}}
  /\ UNCHANGED <<posted, shown, mine, creates, asking, cleans, history>>

\* Bug: emplace, which leaves an entry that is there as it is.
ConfirmedEmplaces(m) ==
  /\ confirming' = confirming \ {m}
  /\ \/ last' = (IF last = 0 THEN m ELSE last) /\ UNCHANGED kept
     \/ kept' = kept + 1 /\ UNCHANGED last
  /\ UNCHANGED <<posted, shown, mine, creates, deletions, asking, cleans, overlaps, lost, swept>>

\* The callback of message_create, unless the answer has been lost.
Confirmed(m) ==
  /\ confirming' = confirming \ {m}
  /\ \/ last' = m /\ UNCHANGED kept
     \/ kept' = kept + 1 /\ UNCHANGED last
  /\ UNCHANGED <<posted, shown, mine, creates, deletions, asking, cleans, overlaps, lost, swept>>

\* Nobody looks at the answer of a deletion.
Deleted(D) ==
  /\ deletions' = deletions \ {D}
  /\ \/ shown' = shown \ D /\ UNCHANGED kept
     \/ kept' = kept + Cardinality(D \cap mine \cap shown) /\ UNCHANGED shown
  /\ UNCHANGED <<posted, mine, last, creates, confirming, asking, cleans, overlaps, lost, swept>>

Next ==
  /\ \/ Talk \/ HandleCommand \/ CheckVoiceChannels
     \/ \E m \in asking : ServerReply(m)
     \/ \E asked \in Asked : HandleCleanCommand(asked)
     \/ \E c \in cleans : MessagesGot(c)
     \/ Created
     \/ \E m \in confirming : Confirmed(m)
     \/ \E D \in deletions : Deleted(D)
  /\ posted' + creates' <= MaxMessages  \* the bound

Spec == Init /\ [][Next]_vars

-----------------------------------------------------------------------------
(***************************************************************************)
(* Properties.                                                             *)
(***************************************************************************)
\* The bot's messages that are there to stay: neither the last one nor on their way out.
Strays == (shown \cap mine) \ ({last} \cup Doomed \cup confirming)

\* Only what was sent while another message was not yet recorded, or what Discord failed to
\* delete or to confirm, leaves a message behind, and not more than one each.
StraysBounded == Cardinality(Strays) <= overlaps + kept

\* What the bot said last stays, unless something else is on its way, failed to be sent, or
\* there was a !clean: no callback takes away the message it has just recorded.
LastShown ==
  last # 0 /\ Unfinished = 0 /\ ~lost /\ kept = 0 /\ ~swept =>
    last \in shown /\ last \notin Doomed
=============================================================================
