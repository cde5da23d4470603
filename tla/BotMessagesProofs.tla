-------------------------- MODULE BotMessagesProofs --------------------------
(***************************************************************************)
(* The messages of a channel, for any number of messages and any limit of  *)
(* !clean: what the bot said last stays, and the messages it leaves behind *)
(* are accounted for.                                                      *)
(***************************************************************************)
EXTENDS BotMessages, FiniteSetTheorems, TLAPS

LEMMA Limits == CleanLimit \in Nat \ {0} /\ MaxMessages \in Nat /\ Asked \subseteq Int
BY MessagesAssumption

-----------------------------------------------------------------------------
(***************************************************************************)
(* A handler, or a callback that speaks, adds one message at most, one of  *)
(* somebody else's; deletes messages that are not the bot's, its last one, *)
(* or those of a !clean; and sends one message, two or none.               *)
(***************************************************************************)
\* The commands that wait for the server are not messages of the bot's.
Theirs == asking \cap mine = {}

Handles ==
  /\ (posted' = posted /\ shown' = shown /\ asking' \subseteq asking)
     \/ (Post /\ asking' \subseteq asking \cup {posted'})
  /\ UNCHANGED <<mine, last, confirming, kept, lost>>
  /\ swept' \in BOOLEAN /\ (swept => swept')
  /\ cleans' \subseteq [by : 1..posted', count : 1..CleanLimit]
  /\ \E also : /\ also \subseteq SUBSET (1..posted')
               /\ swept' \/ \A D \in also : D \cap mine = {}
               /\ Quiet(also) \/ Say(1, also) \/ Say(2, also)

LEMMA CleansGrow ==
  ASSUME TypeOK
  PROVE  /\ posted \in Nat /\ posted + 1 \in Nat
         /\ 1..posted \subseteq 1..(posted + 1) /\ posted + 1 \in 1..(posted + 1)
         /\ cleans \subseteq [by : 1..(posted + 1), count : 1..CleanLimit]
<1>1. posted \in Nat /\ 1..posted \subseteq 1..(posted + 1) /\ posted + 1 \in 1..(posted + 1)
  BY Limits DEF TypeOK
<1>2. cleans \subseteq [by : 1..(posted + 1), count : 1..CleanLimit]
  BY <1>1 DEF TypeOK
<1> QED
  BY <1>1, <1>2

LEMMA HandlerSteps ==
  ASSUME TypeOK, Theirs, Next
  PROVE  \/ Handles
         \/ Created
         \/ \E m \in confirming : Confirmed(m)
         \/ \E D \in deletions : Deleted(D)
<1> USE CleansGrow DEF TypeOK
<1>1. ASSUME Talk PROVE Handles
  <2>1. Quiet({})
    BY <1>1 DEF Talk, Quiet, history
  <2> QED
    BY <1>1, <2>1 DEF Talk, Post, Handles, history
<1>2. ASSUME HandleCommand PROVE Handles
  <2>1. PICK says \in BOOLEAN, tidied \in BOOLEAN, asks \in BOOLEAN :
          /\ asking' = IF asks THEN asking \cup {posted'} ELSE asking
          /\ LET also == IF tidied THEN {{posted'}} ELSE {}
             IN  IF says THEN Say(1, also) ELSE Quiet(also)
    BY <1>2 DEF HandleCommand
  <2> DEFINE also == IF tidied THEN {{posted'}} ELSE {}
  <2>2. posted' = posted + 1 /\ also \subseteq SUBSET (1..posted')
    BY <1>2 DEF HandleCommand, Post
  <2>3. \A D \in also : D \cap mine = {}
    <3>1. posted' \notin mine
      BY <2>2
    <3> QED
      BY <3>1
  <2>4. Quiet(also) \/ Say(1, also)
    BY <2>1
  <2>5. asking' \subseteq asking \cup {posted'}
    BY <2>1
  <2> HIDE DEF also
  <2> QED
    BY <1>2, <2>2, <2>3, <2>4, <2>5 DEF HandleCommand, Post, Handles
<1>3. ASSUME CheckVoiceChannels PROVE Handles
  <2>1. Say(1, {})
    BY <1>3 DEF CheckVoiceChannels
  <2> QED
    BY <1>3, <2>1 DEF CheckVoiceChannels, Handles
<1>4. ASSUME NEW m \in asking, ServerReply(m) PROVE Handles
  <2>1. \E also \in {{{m}}, {}} : Quiet(also) \/ Say(1, also) \/ Say(2, also)
    BY <1>4 DEF ServerReply
  <2>2. \A also \in {{{m}}, {}} : also \subseteq SUBSET (1..posted)
                                  /\ \A D \in also : D \cap mine = {}
    BY <1>4 DEF Theirs
  <2>3. /\ UNCHANGED <<posted, shown, mine, last, confirming, cleans, kept, lost, swept>>
        /\ asking' \subseteq asking
    BY <1>4 DEF ServerReply
  <2> QED
    BY <2>1, <2>2, <2>3 DEF Handles
<1>5. ASSUME NEW asked \in Asked, HandleCleanCommand(asked) PROVE Handles
  <2> DEFINE count == IF asked <= 0 THEN CleanLimit ELSE asked
  <2>1. /\ Post /\ UNCHANGED <<mine, last, confirming, asking, kept, lost, swept>>
        /\ IF count > CleanLimit
           THEN Say(1, {}) /\ UNCHANGED cleans
           ELSE Quiet({}) /\ cleans' = cleans \cup {[by |-> posted', count |-> count]}
    BY <1>5 DEF HandleCleanCommand
  <2>2. posted' = posted + 1
    BY <2>1 DEF Post
  <2>3. count \in Int /\ count >= 1
    BY Limits
  <2>4. cleans' \subseteq [by : 1..posted', count : 1..CleanLimit]
    BY <2>1, <2>2, <2>3, Limits
  <2>5. Quiet({}) \/ Say(1, {})
    BY <2>1
  <2> HIDE DEF count
  <2> QED
    BY <2>1, <2>2, <2>4, <2>5 DEF Handles
<1>6. ASSUME NEW c \in cleans, MessagesGot(c) PROVE Handles
  <2>1. /\ UNCHANGED <<posted, shown, mine, last, confirming, asking, kept, lost>>
        /\ cleans' \subseteq cleans
    BY <1>6 DEF MessagesGot
  <2>2. CASE Say(1, {}) /\ UNCHANGED swept
    BY <2>1, <2>2 DEF Handles
  <2>3. CASE Quiet({Latest(c.count)} \ {{}}) /\ swept' = TRUE
    <3>1. {Latest(c.count)} \ {{}} \subseteq SUBSET (1..posted')
      BY <2>1 DEF Latest
    <3> QED
      BY <2>1, <2>3, <3>1 DEF Handles
  <2> QED
    BY <1>6, <2>2, <2>3 DEF MessagesGot
<1> QED
  BY <1>1, <1>2, <1>3, <1>4, <1>5, <1>6 DEF Next
-----------------------------------------------------------------------------
(***************************************************************************)
(* Types.                                                                  *)
(***************************************************************************)
Typed == TypeOK /\ Theirs

LEMMA InitTyped == Init => Typed
<1> SUFFICES ASSUME Init PROVE Typed
  OBVIOUS
<1>1. posted = 0 /\ creates = 0 /\ overlaps = 0 /\ kept = 0 /\ last = 0
  BY DEF Init
<1>2. posted \in 0..MaxMessages
  BY <1>1, Limits
<1>3. /\ shown = {} /\ mine = {} /\ confirming = {} /\ deletions = {} /\ asking = {} /\ cleans = {}
      /\ lost = FALSE /\ swept = FALSE
  BY DEF Init
<1> QED
  BY <1>1, <1>2, <1>3 DEF Typed, TypeOK, Theirs

LEMMA UnfinishedTypes ==
  ASSUME TypeOK
  PROVE  /\ IsFiniteSet(confirming) /\ Cardinality(confirming) \in Nat /\ Unfinished \in Nat
         /\ Unfinished = creates + Cardinality(confirming)
         /\ Unfinished = 0 <=> creates = 0 /\ confirming = {}
<1>1. IsFiniteSet(1..posted) /\ confirming \in SUBSET (1..posted)
  BY FS_Interval DEF TypeOK
<1>2. IsFiniteSet(confirming)
  BY <1>1, FS_Subset
<1>3. Cardinality(confirming) \in Nat /\ (Cardinality(confirming) = 0 <=> confirming = {})
  BY <1>2, FS_CardinalityType, FS_EmptySet
<1> QED
  BY <1>2, <1>3 DEF Unfinished, TypeOK

\* What a handler deletes exists, and what it counts are numbers.
LEMMA HandleCounts ==
  ASSUME Typed, Handles
  PROVE  /\ deletions' \subseteq SUBSET (1..posted') /\ creates' \in Nat /\ overlaps' \in Nat
         /\ posted' \in Nat /\ 1..posted \subseteq 1..posted'
<1> USE DEF Typed, TypeOK
<1>1. posted' \in Nat /\ 1..posted \subseteq 1..posted'
  BY CleansGrow DEF Handles, Post
<1>2. PICK also : /\ also \subseteq SUBSET (1..posted')
                  /\ Quiet(also) \/ Say(1, also) \/ Say(2, also)
  BY DEF Handles
<1>3. CASE Quiet(also)
  BY <1>1, <1>2, <1>3 DEF Quiet
<1>4. CASE Say(1, also) \/ Say(2, also)
  <2>1. deletions' = deletions \cup also \cup (IF last = 0 THEN {} ELSE {{last}})
    BY <1>4 DEF Say
  <2>2. last # 0 => {last} \in SUBSET (1..posted)
    OBVIOUS
  <2>3. deletions' \subseteq SUBSET (1..posted')
    BY <1>1, <1>2, <2>1, <2>2
  <2>4. creates' \in Nat /\ overlaps' \in Nat
    BY <1>4 DEF Say
  <2> QED
    BY <1>1, <2>3, <2>4
<1> QED
  BY <1>2, <1>3, <1>4

LEMMA StaysBounded ==
  ASSUME Next, posted' \in Nat, creates' \in Nat
  PROVE  posted' \in 0..MaxMessages
<1>1. posted' + creates' <= MaxMessages
  BY DEF Next
<1>2. MaxMessages \in Nat
  BY Limits
<1>3. ASSUME NEW p \in Nat, NEW c \in Nat, p + c <= MaxMessages PROVE p \in 0..MaxMessages
  BY <1>2, <1>3
<1> QED
  BY <1>1, <1>3

LEMMA TypedStep == Typed /\ [Next]_vars => Typed'
<1> SUFFICES ASSUME Typed, [Next]_vars PROVE Typed'
  OBVIOUS
<1> USE CleansGrow DEF Typed, TypeOK, Theirs
<1>1. CASE UNCHANGED vars
  BY <1>1 DEF vars, history
<1>2. CASE Next
  <2>0. creates' \in Nat /\ posted' \in Nat => posted' \in 0..MaxMessages
    BY <1>2, StaysBounded
  <2>1. ASSUME Handles PROVE Typed'
    <3>1. /\ mine \subseteq 1..posted' /\ shown' \subseteq 1..posted' /\ asking' \subseteq 1..posted'
          /\ asking' \cap mine' = {}
      <4>1. CASE posted' = posted /\ shown' = shown /\ asking' \subseteq asking
        BY <2>1, <4>1 DEF Handles
      <4>2. CASE Post /\ asking' \subseteq asking \cup {posted'}
        BY <2>1, <4>2 DEF Handles, Post
      <4> QED
        BY <2>1, <4>1, <4>2 DEF Handles
    <3> QED
      BY <2>0, <2>1, <3>1, HandleCounts DEF Handles
  <2>2. ASSUME Created PROVE Typed'
    <3>1. posted' = posted + 1 /\ creates' \in Nat
      BY <2>2 DEF Created
    <3>2. /\ shown' \subseteq 1..posted' /\ mine' \subseteq 1..posted' /\ confirming' \subseteq mine'
          /\ asking \cap mine' = {} /\ lost' \in BOOLEAN /\ mine \subseteq mine'
      <4>1. posted' \notin asking /\ posted' \in 1..posted' /\ 1..posted \subseteq 1..posted'
        BY <3>1
      <4>2. CASE lost' = TRUE /\ UNCHANGED <<shown, mine, confirming>>
        BY <4>1, <4>2
      <4>3. CASE /\ shown' = shown \cup {posted'} /\ mine' = mine \cup {posted'}
                 /\ confirming' = confirming \cup {posted'} /\ UNCHANGED lost
        BY <4>1, <4>3
      <4> QED
        BY <2>2, <4>2, <4>3 DEF Created
    <3>3. /\ UNCHANGED <<last, deletions, asking, cleans, overlaps, kept, swept>>
          /\ 1..posted \subseteq 1..posted' /\ posted' \in Nat
      BY <2>2, <3>1 DEF Created
    <3> QED
      BY <2>0, <3>1, <3>2, <3>3
  <2>3. ASSUME NEW m \in confirming, Confirmed(m) PROVE Typed'
    BY <2>3 DEF Confirmed
  <2>4. ASSUME NEW D \in deletions, Deleted(D) PROVE Typed'
    <3>1. IsFiniteSet(1..posted) /\ D \cap mine \cap shown \in SUBSET (1..posted)
      BY FS_Interval
    <3>2. Cardinality(D \cap mine \cap shown) \in Nat
      BY <3>1, FS_Subset, FS_CardinalityType
    <3>3. kept' \in Nat /\ shown' \subseteq shown
      BY <2>4, <3>2 DEF Deleted
    <3> QED
      BY <2>4, <3>3 DEF Deleted
  <2> QED
    BY <1>2, <2>1, <2>2, <2>3, <2>4, HandlerSteps
<1> QED
  BY <1>1, <1>2

\* Numbers stay numbers, and messages messages that were posted.
THEOREM TypeCorrect == Spec => []TypeOK
<1>1. Typed => TypeOK
  BY DEF Typed
<1> QED
  BY InitTyped, TypedStep, <1>1, PTL DEF Spec

-----------------------------------------------------------------------------
(***************************************************************************)
(* What the bot said last.                                                 *)
(***************************************************************************)
\* A message whose callback has not run is there, and nobody is about to delete it.
Fresh == ~swept => \A m \in confirming : m \in shown /\ m \notin Doomed /\ m # last

Remembered == Typed /\ Fresh /\ LastShown

LEMMA DoomedBy ==
  ASSUME TypeOK, NEW x, NEW also, Quiet(also) \/ Say(1, also) \/ Say(2, also), x \in Doomed'
  PROVE  x \in Doomed \/ (\E D \in also : x \in D) \/ (x = last /\ ~Quiet(also))
BY DEF Doomed, Quiet, Say

LEMMA RememberedStep == Remembered /\ [Next]_vars => Remembered'
<1> SUFFICES ASSUME Remembered, [Next]_vars PROVE Remembered'
  OBVIOUS
<1>0. Typed /\ TypeOK /\ Typed' /\ TypeOK'
  BY TypedStep DEF Remembered, Typed
<1>a. Fresh /\ LastShown /\ mine \subseteq 1..posted /\ confirming \subseteq mine /\ posted \in Nat
      /\ last \in mine \cup {0} /\ creates \in Nat /\ deletions \subseteq SUBSET (1..posted)
  BY <1>0, CleansGrow DEF Remembered, TypeOK
<1>u. /\ Unfinished = 0 <=> creates = 0 /\ confirming = {}
      /\ Unfinished' = 0 <=> creates' = 0 /\ confirming' = {}
  <2>1. Unfinished = 0 <=> creates = 0 /\ confirming = {}
    BY <1>0, UnfinishedTypes
  <2>2. (Unfinished = 0 <=> creates = 0 /\ confirming = {})'
    BY <1>0, UnfinishedTypes, PTL
  <2> QED
    BY <2>1, <2>2
<1> SUFFICES Fresh' /\ LastShown'
  BY <1>0 DEF Remembered
<1>1. CASE UNCHANGED vars
  BY <1>1, <1>a DEF vars, history, Fresh, LastShown, Doomed, Unfinished
<1>2. ASSUME Handles PROVE Fresh' /\ LastShown'
  <2>1. PICK also : /\ swept' \/ \A D \in also : D \cap mine = {}
                    /\ Quiet(also) \/ Say(1, also) \/ Say(2, also)
    BY <1>2 DEF Handles
  <2>2. /\ shown \subseteq shown' /\ (swept => swept')
        /\ UNCHANGED <<mine, last, confirming, kept, lost>>
    BY <1>2 DEF Handles, Post
  <2>3. \A x \in mine : ~swept' /\ x \in Doomed' => x \in Doomed \/ (x = last /\ ~Quiet(also))
    BY <1>0, <2>1, DoomedBy
  <2>4. Fresh'
    BY <1>a, <2>2, <2>3 DEF Fresh
  <2>5. CASE Quiet(also)
    <3>1. creates' = creates
      BY <2>5 DEF Quiet
    <3>2. ASSUME last # 0, Unfinished' = 0, ~lost, kept = 0, ~swept'
          PROVE  last \in shown' /\ last \notin Doomed'
      <4>1. Unfinished = 0 /\ ~swept /\ last \in mine
        BY <1>a, <1>u, <2>2, <3>1, <3>2
      <4>2. last \in shown /\ last \notin Doomed
        BY <1>a, <3>2, <4>1 DEF LastShown
      <4> QED
        BY <2>2, <2>3, <2>5, <3>2, <4>1, <4>2
    <3>3. LastShown'
      BY <2>2, <3>2 DEF LastShown
    <3> QED
      BY <2>4, <3>3
  <2>6. CASE Say(1, also) \/ Say(2, also)
    <3>1. creates' # 0
      BY <1>a, <2>6 DEF Say
    <3>2. LastShown'
      BY <1>u, <3>1 DEF LastShown
    <3> QED
      BY <2>4, <3>2
  <2> QED
    BY <2>1, <2>4, <2>5, <2>6
<1>3. ASSUME Created PROVE Fresh' /\ LastShown'
  <2>1. /\ posted' = posted + 1 /\ UNCHANGED <<last, deletions, kept, swept>> /\ creates # 0
        /\ \/ /\ shown' = shown \cup {posted'} /\ confirming' = confirming \cup {posted'}
           \/ lost' = TRUE /\ UNCHANGED <<shown, confirming>>
    BY <1>3, <1>a DEF Created
  <2>2. posted' \notin Doomed /\ posted' # last /\ Doomed' = Doomed
    BY <1>a, <2>1 DEF Doomed
  <2>3. Fresh'
    BY <1>a, <2>1, <2>2 DEF Fresh
  <2>4. LastShown'
    BY <1>u, <2>1 DEF LastShown
  <2> QED
    BY <2>3, <2>4
<1>4. ASSUME NEW m \in confirming, Confirmed(m) PROVE Fresh' /\ LastShown'
  <2>1. /\ confirming' = confirming \ {m}
        /\ UNCHANGED <<shown, deletions, lost, swept>>
        /\ (last' = m /\ kept' = kept) \/ (kept' = kept + 1 /\ last' = last)
    BY <1>4 DEF Confirmed
  <2>2. Doomed' = Doomed /\ kept \in Nat
    BY <1>0, <2>1 DEF Doomed, TypeOK
  <2>3. Fresh'
    BY <1>a, <2>1, <2>2 DEF Fresh
  <2>4. LastShown'
    BY <1>a, <2>1, <2>2 DEF LastShown, Fresh
  <2> QED
    BY <2>3, <2>4
<1>5. ASSUME NEW D \in deletions, Deleted(D) PROVE Fresh' /\ LastShown'
  <2>1. /\ deletions' = deletions \ {D} /\ UNCHANGED <<last, creates, confirming, lost, swept>>
        /\ shown' = shown \ D \/ shown' = shown
        /\ kept' = kept \/ kept' = kept + Cardinality(D \cap mine \cap shown)
    BY <1>5 DEF Deleted
  <2>2. Doomed' \subseteq Doomed /\ D \subseteq Doomed
    BY <2>1 DEF Doomed
  <2>3. kept' = 0 => kept = 0
    <3>1. posted \in Nat /\ mine \subseteq 1..posted
      BY <1>a
    <3>2. D \cap mine \cap shown \in SUBSET (1..posted)
      BY <3>1
    <3>3. posted \in Int
      BY <3>1
    <3>4. IsFiniteSet(1..posted)
      BY <3>3, FS_Interval
    <3>5. Cardinality(D \cap mine \cap shown) \in Nat
      BY <3>2, <3>4, FS_Subset, FS_CardinalityType
    <3> QED
      BY <1>0, <2>1, <3>5 DEF TypeOK
  <2>4. Fresh'
    BY <1>a, <2>1, <2>2 DEF Fresh
  <2>5. LastShown'
    BY <1>a, <1>u, <2>1, <2>2, <2>3 DEF LastShown
  <2> QED
    BY <2>4, <2>5
<1> QED
  BY <1>0, <1>1, <1>2, <1>3, <1>4, <1>5, HandlerSteps DEF Typed

\* Whatever handlers, answers and deletions come in between, the last message stays.
THEOREM LastStays == Spec => []LastShown
<1>1. Init => Remembered
  BY InitTyped DEF Init, Remembered, Fresh, LastShown
<1>2. Remembered => LastShown
  BY DEF Remembered
<1> QED
  BY <1>1, <1>2, RememberedStep, PTL DEF Spec
-----------------------------------------------------------------------------
(***************************************************************************)
(* What is left behind.  Every message on its way may leave one behind     *)
(* when it is recorded, except that one of them only replaces the last one *)
(* that is gone already.                                                   *)
(***************************************************************************)
Gone == last = 0 \/ last \notin shown \/ last \in Doomed
Left == Cardinality(Strays)
Spare == IF Unfinished > 0 /\ Gone THEN 1 ELSE 0
Accounted == Left + Unfinished <= overlaps + kept + Spare

LEMMA LeftTypes ==
  ASSUME TypeOK
  PROVE  IsFiniteSet(Strays) /\ Left \in Nat
<1>1. posted \in Int
  BY DEF TypeOK
<1>2. Strays \in SUBSET (1..posted)
  BY DEF TypeOK, Strays
<1>3. IsFiniteSet(1..posted)
  BY <1>1, FS_Interval
<1> QED
  BY <1>2, <1>3, FS_Subset, FS_CardinalityType DEF Left

\* No more are left behind if none, or only one, is new.
LEMMA NoMoreLeft ==
  ASSUME TypeOK, Strays' \subseteq Strays
  PROVE  Left' <= Left
BY LeftTypes, FS_Subset DEF Left

LEMMA OneMoreLeft ==
  ASSUME TypeOK, TypeOK', NEW x, Strays' \subseteq Strays \cup {x}
  PROVE  Left' <= Left + 1
<1>1. IsFiniteSet(Strays) /\ Left \in Nat
  BY LeftTypes
<1>2. IsFiniteSet(Strays \cup {x}) /\ Cardinality(Strays \cup {x}) \in {Left, Left + 1}
  BY <1>1, FS_AddElement DEF Left
<1>3. Cardinality(Strays') <= Cardinality(Strays \cup {x})
  BY <1>2, FS_Subset
<1>4. (IsFiniteSet(Strays) /\ Left \in Nat)'
  BY LeftTypes, PTL
<1>5. Cardinality(Strays') \in Nat /\ Cardinality(Strays) \in Nat
  BY <1>1, <1>4 DEF Left
<1>6. Cardinality(Strays') <= Cardinality(Strays) + 1
  BY <1>2, <1>3, <1>5 DEF Left
<1> QED
  BY <1>6 DEF Left

LEMMA AccountTypes ==
  ASSUME TypeOK
  PROVE  Left \in Nat /\ Unfinished \in Nat /\ overlaps \in Nat /\ kept \in Nat /\ Spare \in {0, 1}
BY LeftTypes, UnfinishedTypes DEF TypeOK, Spare

\* The sums that the steps change: nothing new is left behind and the spare one stays;
LEMMA NothingAdds ==
  \A l, u, o, k, m \in Nat, s, t \in {0, 1} :
    l + u <= o + k + s /\ m <= l /\ s <= t => m + u <= o + k + t
OBVIOUS

\* n messages are sent, the first of them on top of what is on its way, or after the last;
LEMMA SendingAdds ==
  /\ \A l, u, o, k, m \in Nat, s \in {0, 1}, n \in {1, 2} :
       l + u <= o + k + s /\ m <= l => m + (u + n) <= (o + (n - 1) + 1) + k + 1
  /\ \A l, u, o, k, m \in Nat, s \in {0, 1}, n \in {1, 2} :
       l + u <= o + k + s /\ m <= l /\ u = 0 /\ s = 0 => m + (u + n) <= (o + (n - 1) + 0) + k + 1
OBVIOUS

\* one arrives or fails and replaces the last one if that is there, or it is lost itself;
LEMMA ArrivalAdds ==
  /\ \A l, u, o, k, m \in Nat, s, t \in {0, 1} :
       l + u <= o + k + s /\ m <= l + (1 - s) /\ u >= 1 => m + (u - 1) <= o + k + t
  /\ \A l, u, o, k, m \in Nat, s, t \in {0, 1} :
       l + u <= o + k + s /\ m <= l + 1 /\ u >= 1 => m + (u - 1) <= o + (k + 1) + t
OBVIOUS

\* d deletions fail, and one of those messages may be the last.
LEMMA FailureAdds ==
  /\ \A l, u, o, k, m, d \in Nat, s, t \in {0, 1} :
       l + u <= o + k + s /\ m <= l + d /\ s <= t => m + u <= o + (k + d) + t
  /\ \A l, u, o, k, m, d \in Nat, s, t \in {0, 1} :
       l + u <= o + k + s /\ m <= l + (d - 1) => m + u <= o + (k + d) + t
OBVIOUS

\* A handler leaves nothing behind; when it speaks, the last message goes.
LEMMA HandlesAccounted ==
  ASSUME TypeOK, TypeOK', Accounted, Handles
  PROVE  Accounted'
<1>1. /\ Left \in Nat /\ Unfinished \in Nat /\ overlaps \in Nat /\ kept \in Nat /\ Spare \in {0, 1}
      /\ Left + Unfinished <= overlaps + kept + Spare
  BY AccountTypes DEF Accounted
<1>2. (Left \in Nat /\ Unfinished \in Nat /\ overlaps \in Nat /\ kept \in Nat /\ Spare \in {0, 1})'
  BY AccountTypes, PTL
<1>3. PICK also : Quiet(also) \/ Say(1, also) \/ Say(2, also)
  BY DEF Handles
<1>4. /\ UNCHANGED <<mine, last, confirming, kept>> /\ shown \subseteq shown'
      /\ mine \cap shown' = mine \cap shown /\ last \in mine \cup {0}
  BY CleansGrow DEF Handles, Post, TypeOK
<1>5. Doomed \subseteq Doomed'
  BY <1>3 DEF Doomed, Quiet, Say
<1>6. Strays' \subseteq Strays
  BY <1>4, <1>5 DEF Strays
<1>7. Left' <= Left
  BY <1>6, NoMoreLeft
<1>8. CASE Quiet(also)
  <2>1. Unfinished' = Unfinished /\ overlaps' = overlaps /\ kept' = kept
    BY <1>4, <1>8 DEF Quiet, Unfinished
  <2>2. Gone => Gone'
    BY <1>4, <1>5 DEF Gone
  <2>3. Spare <= Spare'
    BY <2>1, <2>2 DEF Spare
  <2>4. Left' + Unfinished <= overlaps + kept + Spare'
    BY <1>1, <1>2, <1>7, <2>3, NothingAdds, Zenon
  <2> QED
    BY <2>1, <2>4, Zenon DEF Accounted
<1>9. ASSUME NEW n \in {1, 2}, Say(n, also) PROVE Accounted'
  <2>1. Gone'
    BY <1>4, <1>9 DEF Gone, Say, Doomed
  <2>2. Unfinished' = Unfinished + n
    <3>1. creates' = creates + n /\ creates \in Nat /\ Cardinality(confirming) \in Nat
      BY <1>9, UnfinishedTypes DEF Say, TypeOK
    <3>2. Cardinality(confirming') = Cardinality(confirming)
      BY <1>4
    <3> QED
      BY <3>1, <3>2 DEF Unfinished
  <2>3. Spare' = 1
    BY <1>1, <2>1, <2>2 DEF Spare
  <2>4. kept' = kept
    BY <1>4
  <2>5. CASE Unfinished = 0
    <3>1. overlaps' = overlaps + (n - 1) + 0 /\ Spare = 0
      BY <1>9, <2>5 DEF Say, Spare
    <3>2. Left' + (Unfinished + n) <= (overlaps + (n - 1) + 0) + kept + 1
      BY <1>1, <1>2, <1>7, <2>5, <3>1, SendingAdds, Zenon
    <3> QED
      BY <2>2, <2>3, <2>4, <3>1, <3>2, Zenon DEF Accounted
  <2>6. CASE Unfinished # 0
    <3>1. overlaps' = overlaps + (n - 1) + 1
      BY <1>9, <2>6 DEF Say
    <3>2. Left' + (Unfinished + n) <= (overlaps + (n - 1) + 1) + kept + 1
      BY <1>1, <1>2, <1>7, SendingAdds, Zenon
    <3> QED
      BY <2>2, <2>3, <2>4, <3>1, <3>2, Zenon DEF Accounted
  <2> QED
    BY <2>5, <2>6
<1> QED
  BY <1>3, <1>8, <1>9
\* A message that is posted is on its way still; one that is not makes room.
LEMMA CreatedAccounted ==
  ASSUME TypeOK, TypeOK', Accounted, Created
  PROVE  Accounted'
<1>1. /\ Left \in Nat /\ Unfinished \in Nat /\ overlaps \in Nat /\ kept \in Nat /\ Spare \in {0, 1}
      /\ Left + Unfinished <= overlaps + kept + Spare
  BY AccountTypes DEF Accounted
<1>2. (Left \in Nat /\ Unfinished \in Nat /\ overlaps \in Nat /\ kept \in Nat /\ Spare \in {0, 1})'
  BY AccountTypes, PTL
<1>3. /\ creates > 0 /\ creates' = creates - 1 /\ posted' = posted + 1
      /\ UNCHANGED <<last, deletions>> /\ overlaps' = overlaps /\ kept' = kept
  BY DEF Created
<1>4. posted' \notin confirming /\ posted' \notin shown /\ posted' # last /\ creates \in Nat
  BY <1>3, CleansGrow DEF TypeOK
<1>5. Doomed' = Doomed
  BY <1>3 DEF Doomed
<1>6. IsFiniteSet(confirming) /\ Cardinality(confirming) \in Nat
  BY UnfinishedTypes
<1>7. CASE /\ shown' = shown \cup {posted'} /\ mine' = mine \cup {posted'}
           /\ confirming' = confirming \cup {posted'}
  <2>1. Strays' \subseteq Strays
    BY <1>3, <1>5, <1>7 DEF Strays
  <2>2. Left' <= Left
    BY <2>1, NoMoreLeft
  <2>3. Unfinished' = Unfinished
    <3>1. Cardinality(confirming \cup {posted'}) = Cardinality(confirming) + 1
      BY <1>4, <1>6, FS_AddElement
    <3> QED
      BY <1>3, <1>4, <1>6, <1>7, <3>1 DEF Unfinished
  <2>4. Gone' <=> Gone
    BY <1>3, <1>4, <1>5, <1>7 DEF Gone
  <2>5. Spare' = Spare
    BY <2>3, <2>4 DEF Spare
  <2>6. Spare <= Spare
    BY <1>1
  <2>7. Left' + Unfinished <= overlaps + kept + Spare
    BY <1>1, <1>2, <2>2, <2>6, NothingAdds, Zenon
  <2> QED
    BY <1>3, <2>3, <2>5, <2>7, Zenon DEF Accounted
<1>8. CASE UNCHANGED <<shown, mine, confirming>>
  <2>1. Strays' = Strays
    BY <1>3, <1>5, <1>8 DEF Strays
  <2>2. Left' = Left
    BY <2>1 DEF Left
  <2>3. Unfinished' = Unfinished - 1 /\ Unfinished >= 1
    <3>1. Cardinality(confirming') = Cardinality(confirming)
      BY <1>8
    <3> QED
      BY <1>3, <1>4, <1>6, <3>1 DEF Unfinished
  <2>4. Left' <= Left + (1 - Spare)
    BY <1>1, <2>2
  <2>5. Left' + (Unfinished - 1) <= overlaps + kept + Spare'
    BY <1>1, <1>2, <2>3, <2>4, ArrivalAdds, Zenon
  <2> QED
    BY <1>3, <2>3, <2>5, Zenon DEF Accounted
<1> QED
  BY <1>7, <1>8 DEF Created

\* A message that is recorded leaves the one before, unless that is gone; a message whose
\* answer is lost is left itself.
LEMMA ConfirmedAccounted ==
  ASSUME TypeOK, TypeOK', Accounted, NEW m \in confirming, Confirmed(m)
  PROVE  Accounted'
<1>1. /\ Left \in Nat /\ Unfinished \in Nat /\ overlaps \in Nat /\ kept \in Nat /\ Spare \in {0, 1}
      /\ Left + Unfinished <= overlaps + kept + Spare
  BY AccountTypes DEF Accounted
<1>2. (Left \in Nat /\ Unfinished \in Nat /\ overlaps \in Nat /\ kept \in Nat /\ Spare \in {0, 1})'
  BY AccountTypes, PTL
<1>3. /\ confirming' = confirming \ {m} /\ creates' = creates /\ overlaps' = overlaps
      /\ UNCHANGED <<shown, mine, deletions>>
  BY DEF Confirmed
<1>4. Doomed' = Doomed
  BY <1>3 DEF Doomed
<1>5. Unfinished' = Unfinished - 1 /\ Unfinished >= 1
  <2>1. IsFiniteSet(confirming) /\ Cardinality(confirming) \in Nat /\ creates \in Nat
    BY UnfinishedTypes DEF TypeOK
  <2>2. Cardinality(confirming \ {m}) = Cardinality(confirming) - 1
    BY <2>1, FS_RemoveElement
  <2>3. IsFiniteSet(confirming \ {m})
    BY <2>1, FS_RemoveElement
  <2>4. Cardinality(confirming \ {m}) \in Nat
    BY <2>3, FS_CardinalityType
  <2> QED
    BY <1>3, <2>1, <2>2, <2>4 DEF Unfinished
<1>6. CASE last' = m /\ kept' = kept
  <2>1. ~(0 \in mine) /\ last \in mine \cup {0}
    BY DEF TypeOK
  <2>2. CASE Gone
    <3>1. Strays' \subseteq Strays
      BY <1>3, <1>4, <1>6, <2>1, <2>2 DEF Strays, Gone
    <3>2. Left' <= Left /\ Spare = 1
      BY <1>1, <1>5, <2>2, <3>1, NoMoreLeft DEF Spare
    <3>3. Left' <= Left + (1 - Spare)
      BY <1>1, <1>2, <3>2
    <3>4. Left' + (Unfinished - 1) <= overlaps + kept + Spare'
      BY <1>1, <1>2, <1>5, <3>3, ArrivalAdds, Zenon
    <3> QED
      BY <1>3, <1>5, <1>6, <3>4, Zenon DEF Accounted
  <2>3. CASE ~Gone
    <3>1. Strays' \subseteq Strays \cup {last}
      BY <1>3, <1>4, <1>6 DEF Strays
    <3>2. Left' <= Left + 1 /\ Spare = 0
      BY <2>3, <3>1, OneMoreLeft DEF Spare
    <3>3. Left' <= Left + (1 - Spare)
      BY <1>1, <1>2, <3>2
    <3>4. Left' + (Unfinished - 1) <= overlaps + kept + Spare'
      BY <1>1, <1>2, <1>5, <3>3, ArrivalAdds, Zenon
    <3> QED
      BY <1>3, <1>5, <1>6, <3>4, Zenon DEF Accounted
  <2> QED
    BY <2>2, <2>3
<1>7. CASE kept' = kept + 1 /\ last' = last
  <2>1. Strays' \subseteq Strays \cup {m}
    BY <1>3, <1>4, <1>7 DEF Strays
  <2>2. Left' <= Left + 1
    BY <2>1, OneMoreLeft
  <2>3. Left' + (Unfinished - 1) <= overlaps + (kept + 1) + Spare'
    BY <1>1, <1>2, <1>5, <2>2, ArrivalAdds, Zenon
  <2> QED
    BY <1>3, <1>5, <1>7, <2>3, Zenon DEF Accounted
<1> QED
  BY <1>6, <1>7 DEF Confirmed

\* Deletions that fail leave what they should have deleted.
LEMMA DeletedAccounted ==
  ASSUME TypeOK, TypeOK', Accounted, NEW D \in deletions, Deleted(D)
  PROVE  Accounted'
<1> DEFINE K == D \cap mine \cap shown
<1>1. /\ Left \in Nat /\ Unfinished \in Nat /\ overlaps \in Nat /\ kept \in Nat /\ Spare \in {0, 1}
      /\ Left + Unfinished <= overlaps + kept + Spare
  BY AccountTypes DEF Accounted
<1>2. (Left \in Nat /\ Unfinished \in Nat /\ overlaps \in Nat /\ kept \in Nat /\ Spare \in {0, 1})'
  BY AccountTypes, PTL
<1>3. /\ deletions' = deletions \ {D} /\ overlaps' = overlaps
      /\ UNCHANGED <<mine, last, creates, confirming>>
      /\ (shown' = shown \ D /\ kept' = kept) \/ (shown' = shown /\ kept' = kept + Cardinality(K))
  BY DEF Deleted
<1>4. Unfinished' = Unfinished
  BY <1>3 DEF Unfinished
<1>5. Doomed' \subseteq Doomed /\ Doomed \subseteq Doomed' \cup D
  BY <1>3 DEF Doomed
<1>6. CASE shown' = shown \ D /\ kept' = kept
  <2>1. Strays' \subseteq Strays
    BY <1>3, <1>5, <1>6 DEF Strays
  <2>2. Left' <= Left
    BY <2>1, NoMoreLeft
  <2>3. Gone => Gone'
    BY <1>3, <1>5, <1>6 DEF Gone
  <2>4. Spare <= Spare'
    BY <1>4, <2>3 DEF Spare
  <2>5. Left' + Unfinished <= overlaps + kept + Spare'
    BY <1>1, <1>2, <2>2, <2>4, NothingAdds, Zenon
  <2> QED
    BY <1>3, <1>4, <1>6, <2>5, Zenon DEF Accounted
<1>7. CASE shown' = shown /\ kept' = kept + Cardinality(K)
  <2>1. IsFiniteSet(K) /\ IsFiniteSet(K \ {last})
    <3>1. posted \in Int
      BY DEF TypeOK
    <3>2. K \in SUBSET (1..posted) /\ K \ {last} \in SUBSET (1..posted)
      BY DEF TypeOK
    <3>3. IsFiniteSet(1..posted)
      BY <3>1, FS_Interval
    <3> QED
      BY <3>2, <3>3, FS_Subset
  <2>2. Cardinality(K) \in Nat /\ Cardinality(K \ {last}) \in Nat
    BY <2>1, FS_CardinalityType
  <2>3. Strays' \subseteq Strays \cup (K \ {last})
    BY <1>3, <1>5, <1>7 DEF Strays
  <2>4. Left' <= Left + Cardinality(K \ {last})
    <3>1. IsFiniteSet(Strays)
      BY LeftTypes
    <3>2. /\ IsFiniteSet(Strays \cup (K \ {last}))
          /\ Cardinality(Strays \cup (K \ {last})) =
               Cardinality(Strays) + Cardinality(K \ {last}) - Cardinality(Strays \cap (K \ {last}))
      BY <2>1, <3>1, FS_Union
    <3>3. IsFiniteSet(Strays \cap (K \ {last}))
      BY <3>1, FS_Subset
    <3>4. Cardinality(Strays \cap (K \ {last})) \in Nat /\ Cardinality(Strays) \in Nat
      BY <3>1, <3>3, FS_CardinalityType
    <3>5. Cardinality(Strays') <= Cardinality(Strays \cup (K \ {last}))
      BY <2>3, <3>2, FS_Subset
    <3>6. Cardinality(Strays') \in Nat
      BY <1>2 DEF Left
    <3> HIDE DEF K
    <3>7. Cardinality(Strays') <= Cardinality(Strays) + Cardinality(K \ {last})
      BY <2>2, <3>2, <3>4, <3>5, <3>6
    <3> QED
      BY <3>7 DEF Left
  <2>5. CASE last \in K
    <3>1. Cardinality(K \ {last}) = Cardinality(K) - 1
      BY <2>1, <2>5, FS_RemoveElement
    <3>2. Left' <= Left + (Cardinality(K) - 1)
      BY <2>4, <3>1
    <3>3. Left' + Unfinished <= overlaps + (kept + Cardinality(K)) + Spare'
      BY <1>1, <1>2, <2>2, <3>2, FailureAdds, Zenon
    <3> QED
      BY <1>3, <1>4, <1>7, <3>3, Zenon DEF Accounted
  <2>6. CASE last \notin K
    <3>1. K \ {last} = K
      BY <2>6
    <3>2. Left' <= Left + Cardinality(K)
      BY <2>4, <3>1
    <3>3. Gone => Gone'
      BY <1>3, <1>5, <1>7, <2>6 DEF Gone, TypeOK
    <3>4. Spare <= Spare'
      BY <1>4, <3>3 DEF Spare
    <3>5. Left' + Unfinished <= overlaps + (kept + Cardinality(K)) + Spare'
      <4>1. \A m, d \in Nat, t \in {0, 1} : m <= Left + d /\ Spare <= t =>
              m + Unfinished <= overlaps + (kept + d) + t
        <5>1. \A l, u, o, k \in Nat, s \in {0, 1} : l + u <= o + k + s =>
                \A m, d \in Nat, t \in {0, 1} : m <= l + d /\ s <= t => m + u <= o + (k + d) + t
          BY FailureAdds
        <5> QED
          BY <1>1, <5>1, Zenon
      <4> QED
        BY <1>2, <2>2, <3>2, <3>4, <4>1, Zenon
    <3> QED
      BY <1>3, <1>4, <1>7, <3>5, Zenon DEF Accounted
  <2> QED
    BY <2>5, <2>6
<1> QED
  BY <1>3, <1>6, <1>7

LEMMA AccountedStep == Typed /\ Accounted /\ [Next]_vars => Accounted'
<1> SUFFICES ASSUME Typed, Accounted, [Next]_vars PROVE Accounted'
  OBVIOUS
<1>1. TypeOK /\ Theirs /\ TypeOK'
  BY TypedStep DEF Typed
<1>2. CASE UNCHANGED vars
  BY <1>2 DEF vars, history, Accounted, Left, Strays, Doomed, Unfinished, Spare, Gone
<1>3. CASE Next
  BY <1>1, <1>3, HandlerSteps, HandlesAccounted, CreatedAccounted, ConfirmedAccounted,
     DeletedAccounted
<1> QED
  BY <1>2, <1>3

\* The bot leaves no more messages behind than were sent while another one was not yet
\* recorded, or could not be deleted or confirmed.
THEOREM StraysAccounted == Spec => []StraysBounded
<1>1. Init => Accounted
  <2> SUFFICES ASSUME Init PROVE Accounted
    OBVIOUS
  <2>1. Strays = {} /\ confirming = {} /\ creates = 0 /\ overlaps = 0 /\ kept = 0
    BY DEF Init, Strays
  <2>2. Left = 0 /\ Unfinished = 0
    BY <2>1, FS_EmptySet DEF Left, Unfinished
  <2>3. Spare = 0
    BY <2>2 DEF Spare
  <2> QED
    BY <2>1, <2>2, <2>3 DEF Accounted
<1>2. Typed /\ Accounted => StraysBounded
  <2> SUFFICES ASSUME Typed, Accounted PROVE Cardinality(Strays) <= overlaps + kept
    BY DEF StraysBounded
  <2>1. /\ Left \in Nat /\ Unfinished \in Nat /\ overlaps \in Nat /\ kept \in Nat
        /\ Left + Unfinished <= overlaps + kept + Spare
    BY AccountTypes DEF Typed, Accounted
  <2>2. Spare <= Unfinished /\ Spare \in {0, 1}
    BY <2>1 DEF Spare
  <2>3. \A l, u, o, k \in Nat, s \in {0, 1} : l + u <= o + k + s /\ s <= u => l <= o + k
    OBVIOUS
  <2>4. Left <= overlaps + kept
    <3>1. \A s \in {0, 1} : Left + Unfinished <= overlaps + kept + s /\ s <= Unfinished =>
            Left <= overlaps + kept
      BY <2>1, <2>3, Zenon
    <3> QED
      BY <2>1, <2>2, <3>1, Zenon
  <2> QED
    BY <2>4 DEF Left
<1> QED
  BY InitTyped, TypedStep, AccountedStep, <1>1, <1>2, PTL DEF Spec
=============================================================================
