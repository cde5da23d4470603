--------------------------- MODULE VoiceSendProofs ---------------------------
(***************************************************************************)
(* Send calls against the losses and repairs of dpp, for any delays of     *)
(* dpp, any timeouts of the bot and any length of a song.                  *)
(***************************************************************************)
EXTENDS VoiceSend, TLAPS

USE DEF dpp, flags, timers, song, Goes, Unhurried, IsVoiceClientSafeToSend

LEMMA Bounds ==
  /\ RebuildDelay \in Nat /\ ReconnectInterval \in Nat /\ RecoveryTimeout \in Nat
  /\ MaxFrames \in Nat /\ RebuildDelay > 3
BY VoiceAssumption

-----------------------------------------------------------------------------
(***************************************************************************)
(* Types.                                                                  *)
(***************************************************************************)
LabelsTyped ==
  /\ conn \in {"up", "down", "rebuilding", "connecting", "lost"}
  /\ v \in {"none", "current", "stale"}
  /\ pc \in {"top", "silence", "quiet", "frame", "wait", "sending"} \cup Unhurried
FlagsTyped ==
  /\ known \in BOOLEAN /\ stop \in BOOLEAN /\ skip \in BOOLEAN
  /\ stepped \in BOOLEAN /\ noticed \in BOOLEAN /\ unsent \in BOOLEAN /\ steady \in BOOLEAN
ClocksTyped ==
  /\ down \in 0..RebuildDelay
  /\ since \in 0..(ReconnectInterval + 2) /\ waited \in 0..(RecoveryTimeout + 1)
  /\ dark \in 0..(RecoveryTimeout + 1)

\* The lead is of frames that have been read.
CountsTyped ==
  /\ frames \in 0..MaxFrames /\ lead \in 0..MaxFrames /\ buffered \in 0..MaxFrames
  /\ pc = "frame" => lead + frames <= MaxFrames
  /\ pc \in {"wait", "sending"} => lead + frames < MaxFrames

Typed == LabelsTyped /\ FlagsTyped /\ ClocksTyped /\ CountsTyped

LEMMA TypedIsOK == Typed => TypeOK
BY DEF Typed, LabelsTyped, FlagsTyped, ClocksTyped, CountsTyped, TypeOK

LEMMA InitTyped == Init => Typed
<1> SUFFICES ASSUME Init PROVE Typed
  OBVIOUS
<1>1. LabelsTyped /\ FlagsTyped
  BY DEF Init, LabelsTyped, FlagsTyped
<1>2. ClocksTyped
  BY Bounds DEF Init, ClocksTyped
<1>3. CountsTyped
  BY Bounds DEF Init, CountsTyped
<1> QED
  BY <1>1, <1>2, <1>3 DEF Typed

LEMMA LabelsStep == LabelsTyped /\ [Next]_vars => LabelsTyped'
<1> SUFFICES ASSUME LabelsTyped, [Next]_vars PROVE LabelsTyped'
  OBVIOUS
<1> USE DEF LabelsTyped
<1>1. CASE UNCHANGED vars
  BY <1>1 DEF vars
<1>2. CASE Tick \/ LoseSocket \/ Rebuild \/ Connected \/ LoseGateway \/ Interrupt
  BY <1>2 DEF Tick, LoseSocket, Rebuild, Connected, LoseGateway, Interrupt, Destroyed
<1>3. CASE Top
  BY <1>3 DEF Top
<1>4. CASE Pick \/ Silence \/ Quiet \/ Frame
  BY <1>4 DEF Pick, Silence, Quiet, Frame
<1>5. CASE Wait \/ Sending \/ Drain
  BY <1>5 DEF Wait, Interrupted, Safe, StillDark, Sending, Drain
<1> QED
  BY <1>1, <1>2, <1>3, <1>4, <1>5 DEF Next, AudioStep

LEMMA FlagsStep == FlagsTyped /\ [Next]_vars => FlagsTyped'
<1> SUFFICES ASSUME FlagsTyped, [Next]_vars PROVE FlagsTyped'
  OBVIOUS
<1> USE DEF FlagsTyped
<1>1. CASE UNCHANGED vars
  BY <1>1 DEF vars
<1>2. CASE Tick
  BY <1>2 DEF Tick
<1>3. CASE LoseSocket \/ Rebuild \/ Connected \/ LoseGateway \/ Interrupt
  BY <1>3 DEF LoseSocket, Rebuild, Connected, LoseGateway, Interrupt
<1>4. CASE Top
  BY <1>4 DEF Top
<1>5. CASE Pick \/ Silence \/ Quiet
  BY <1>5 DEF Pick, Silence, Quiet
<1>6. CASE Frame
  BY <1>6 DEF Frame
<1>7. CASE Wait
  BY <1>7 DEF Wait, Interrupted, Safe, StillDark
<1>8. CASE Sending \/ Drain
  BY <1>8 DEF Sending, Drain
<1> QED
  BY <1>1, <1>2, <1>3, <1>4, <1>5, <1>6, <1>7, <1>8 DEF Next, AudioStep

LEMMA ClocksStep == ClocksTyped /\ [Next]_vars => ClocksTyped'
<1> SUFFICES ASSUME ClocksTyped, [Next]_vars PROVE ClocksTyped'
  OBVIOUS
<1> USE Bounds DEF ClocksTyped
<1>1. CASE UNCHANGED vars
  BY <1>1 DEF vars
<1>2. CASE Tick
  BY <1>2 DEF Tick, Up
<1>3. CASE LoseSocket \/ Rebuild \/ Connected \/ LoseGateway \/ Interrupt
  BY <1>3 DEF LoseSocket, Rebuild, Connected, LoseGateway, Interrupt
<1>4. CASE Top
  BY <1>4 DEF Top
<1>5. CASE Pick \/ Silence \/ Quiet \/ Frame
  BY <1>5 DEF Pick, Silence, Quiet, Frame
<1>6. CASE Wait \/ Sending \/ Drain
  BY <1>6 DEF Wait, Interrupted, Safe, StillDark, Sending, Drain
<1> QED
  BY <1>1, <1>2, <1>3, <1>4, <1>5, <1>6 DEF Next, AudioStep

LEMMA CountsStep == CountsTyped /\ [Next]_vars => CountsTyped'
<1> SUFFICES ASSUME CountsTyped, [Next]_vars PROVE CountsTyped'
  OBVIOUS
<1> USE Bounds DEF CountsTyped
<1>1. CASE UNCHANGED vars
  BY <1>1 DEF vars
<1>2. CASE Tick \/ LoseSocket \/ Connected \/ LoseGateway \/ Interrupt
  BY <1>2 DEF Tick, LoseSocket, Connected, LoseGateway, Interrupt
<1>3. CASE Rebuild
  BY <1>3 DEF Rebuild
<1>4. CASE Top
  BY <1>4 DEF Top
<1>5. CASE Pick
  BY <1>5 DEF Pick
<1>6. CASE Silence \/ Quiet
  BY <1>6 DEF Silence, Quiet
<1>7. CASE Frame
  BY <1>7 DEF Frame
<1>8. CASE Wait
  BY <1>8 DEF Wait, Interrupted, Safe, StillDark
<1>9. CASE Sending
  BY <1>9 DEF Sending, Up
<1>10. CASE Drain
  BY <1>10 DEF Drain
<1> QED
  BY <1>1, <1>2, <1>3, <1>4, <1>5, <1>6, <1>7, <1>8, <1>9, <1>10 DEF Next, AudioStep

LEMMA TypedStep == Typed /\ [Next]_vars => Typed'
BY LabelsStep, FlagsStep, ClocksStep, CountsStep DEF Typed

\* The state keeps its types, whatever is lost when; the lead never exceeds the song.
THEOREM TypeCorrect == Spec => []TypeOK
BY InitTyped, TypedStep, TypedIsOK, PTL DEF Spec

-----------------------------------------------------------------------------
(***************************************************************************)
(* Send calls and the encoder.                                             *)
(***************************************************************************)
\* The client was safe to send to so recently that dpp has not begun to destroy its encoder:
\* at most k ticks ago, and one that has passed since the last step of the thread.
Fresh(k) == /\ conn \in {"up", "down", "lost"}
            /\ conn = "down" => down <= IF stepped THEN k ELSE k + 1

\* The thread is in a send call.
Calling == pc = "sending" \/ (pc = "quiet" /\ v = "current")

CallsAreFresh == Calling => Fresh(0)

\* dpp, the clock and commands: the thread stays where it is.
World == Tick \/ LoseSocket \/ Rebuild \/ Connected \/ LoseGateway \/ Interrupt

\* What they do leaves recent what is recent, as the clock waits for the thread.
LEMMA FreshKept ==
  ASSUME NEW k \in 0..2, Fresh(k), Typed, pc \notin Unhurried, World PROVE Fresh(k)'
<1> USE Bounds DEF Fresh
<1>0. down \in Nat
  BY DEF Typed, ClocksTyped
<1>1. CASE Tick
  <2>1. stepped /\ conn' = conn /\ stepped' = FALSE /\ (conn = "down" => down' <= down + 1)
    BY <1>0, <1>1 DEF Tick, Up
  <2>2. down' \in Nat
    BY <1>0, <1>1 DEF Tick, Up
  <2> QED
    BY <1>0, <2>1, <2>2
<1>2. CASE LoseSocket \/ LoseGateway \/ Interrupt
  BY <1>2 DEF LoseSocket, LoseGateway, Interrupt
<1>3. CASE Rebuild
  BY <1>0, <1>3 DEF Rebuild
<1>4. CASE Connected
  BY <1>4 DEF Connected
<1> QED
  BY <1>1, <1>2, <1>3, <1>4 DEF World

LEMMA CallsStep == Typed /\ CallsAreFresh /\ [Next]_vars => CallsAreFresh'
<1> SUFFICES ASSUME Typed, CallsAreFresh, [Next]_vars, Calling' PROVE Fresh(0)'
  BY DEF CallsAreFresh
<1>1. CASE UNCHANGED vars
  BY <1>1 DEF vars, CallsAreFresh, Calling, Fresh
<1>2. CASE World
  <2>1. pc' = pc /\ (v' = "current" => v = "current")
    BY <1>2 DEF World, Tick, LoseSocket, Rebuild, Connected, LoseGateway, Interrupt, Destroyed
  <2>2. Calling /\ pc \notin Unhurried
    BY <2>1 DEF Calling
  <2> QED
    BY <1>2, <2>2, FreshKept DEF CallsAreFresh
<1>3. CASE Top \/ Pick \/ Quiet \/ Frame \/ Sending \/ Drain
  BY <1>3 DEF Top, Pick, Quiet, Frame, Sending, Drain, Calling
<1>4. CASE Silence
  BY <1>4 DEF Silence, Calling, Fresh
<1>5. CASE Wait
  BY <1>5 DEF Wait, Interrupted, Safe, StillDark, Calling, Fresh
<1> QED
  BY <1>1, <1>2, <1>3, <1>4, <1>5 DEF Next, AudioStep, World

\* For any delay of dpp of at least that of its timer: no send call runs while the encoder
\* that it uses is destroyed and made anew.
THEOREM NoCallDuringRebuild == Spec => []NeverDuringRebuild
<1>1. Init => CallsAreFresh
  BY DEF Init, CallsAreFresh, Calling
<1>2. CallsAreFresh => NeverDuringRebuild
  BY DEF CallsAreFresh, Calling, Fresh, NeverDuringRebuild
<1> QED
  BY <1>1, <1>2, InitTyped, TypedStep, CallsStep, PTL DEF Spec

-----------------------------------------------------------------------------
(***************************************************************************)
(* Frames and the lead.                                                    *)
(***************************************************************************)
\* A frame that was not sent is the last one of its song.
Interrupting == pc = "frame" => ~unsent \/ stop \/ skip

LEMMA InterruptingStep == Interrupting /\ [Next]_vars => Interrupting'
<1> SUFFICES ASSUME Interrupting, [Next]_vars PROVE Interrupting'
  OBVIOUS
<1> USE DEF Interrupting
<1>1. CASE UNCHANGED vars
  BY <1>1 DEF vars
<1>2. CASE World
  BY <1>2 DEF World, Tick, LoseSocket, Rebuild, Connected, LoseGateway, Interrupt
<1>3. CASE Top \/ Pick \/ Silence \/ Quiet \/ Frame
  BY <1>3 DEF Top, Pick, Silence, Quiet, Frame
<1>4. CASE Wait \/ Sending \/ Drain
  BY <1>4 DEF Wait, Interrupted, Safe, StillDark, Sending, Drain
<1> QED
  BY <1>1, <1>2, <1>3, <1>4 DEF Next, AudioStep, World

\* For songs of any length: a frame that could not be sent is followed by none of its song.
THEOREM NoFrameLeftOut == Spec => NoGap
<1>1. Init => Interrupting
  BY DEF Init, Interrupting
<1>2. Interrupting /\ [Next]_vars => [pc = "frame" /\ pc' = "wait" => ~unsent]_vars
  <2> SUFFICES ASSUME Interrupting, Next, pc = "frame", pc' = "wait" PROVE ~unsent
    OBVIOUS
  <2>1. Frame
    BY DEF Next, AudioStep, Tick, LoseSocket, Rebuild, Connected, LoseGateway, Interrupt,
           Top, Pick, Silence, Quiet, Wait, Interrupted, Safe, StillDark, Sending, Drain
  <2> QED
    BY <2>1 DEF Frame, Interrupting
<1> QED
  BY <1>1, <1>2, InterruptingStep, PTL DEF Spec, NoGap

\* The lead is backed by frames in the encoder, unless the frame in hand has noticed that the
\* connection was lost, or none follows.  An encoder that was destroyed has been noticed, as
\* from one check to the next one there are too few ticks for that.
Backed(k) == lead = 0 \/ (lead <= buffered /\ Fresh(k))
LeadKnown ==
  /\ pc = "frame" => stop \/ skip \/ Backed(1)
  /\ pc = "wait" => noticed \/ Backed(2)
  /\ pc = "sending" => noticed \/ Backed(0)

LEMMA BackedKept ==
  ASSUME NEW k \in 0..2, Backed(k), Typed, pc \notin Unhurried, World PROVE Backed(k)'
<1>1. CASE lead = 0
  BY <1>1 DEF World, Tick, LoseSocket, Rebuild, Connected, LoseGateway, Interrupt, Backed
<1>2. CASE lead <= buffered /\ Fresh(k)
  <2>1. Fresh(k)'
    BY <1>2, FreshKept
  <2>2. ~Rebuild
    BY <1>2, Bounds DEF Rebuild, Fresh, Typed, ClocksTyped
  <2>3. UNCHANGED <<lead, buffered>>
    BY <2>2 DEF World, Tick, LoseSocket, Connected, LoseGateway, Interrupt
  <2> QED
    BY <1>2, <2>1, <2>3 DEF Backed
<1> QED
  BY <1>1, <1>2 DEF Backed

\* A step of the thread: one tick may follow it.
LEMMA FreshAfterStep ==
  ASSUME NEW k \in 0..1, Fresh(k), Typed, UNCHANGED dpp, stepped' = TRUE PROVE Fresh(k + 1)'
BY DEF Fresh, Typed, ClocksTyped

LEMMA SendingStep ==
  ASSUME Typed, CallsAreFresh, LeadKnown, Sending, pc' = "frame"
  PROVE  lead' <= buffered' /\ Backed(1)'
<1> USE Bounds
<1>1. /\ lead \in Nat /\ buffered \in 0..MaxFrames /\ frames \in Nat
      /\ lead + frames < MaxFrames
  BY DEF Typed, CountsTyped, Sending
<1>2. lead' = (IF noticed THEN 1 ELSE lead + 1) /\ buffered' = Up(buffered, MaxFrames)
  BY DEF Sending
<1>3. noticed \/ lead <= buffered
  BY <1>1 DEF LeadKnown, Backed, Sending
<1>4. lead' <= buffered'
  BY <1>1, <1>2, <1>3 DEF Up
<1>5. Fresh(1)'
  BY FreshAfterStep DEF CallsAreFresh, Calling, Sending
<1> QED
  BY <1>4, <1>5 DEF Backed

LEMMA LeadStep == Typed /\ CallsAreFresh /\ LeadKnown /\ [Next]_vars => LeadKnown'
<1> SUFFICES ASSUME Typed, CallsAreFresh, LeadKnown, [Next]_vars PROVE LeadKnown'
  OBVIOUS
<1>1. CASE UNCHANGED vars
  BY <1>1 DEF vars, LeadKnown, Backed, Fresh
<1>2. CASE World
  <2>1. /\ pc' = pc /\ noticed' = noticed /\ (stop => stop') /\ (skip => skip')
    BY <1>2 DEF World, Tick, LoseSocket, Rebuild, Connected, LoseGateway, Interrupt
  <2>2. pc \in {"frame", "wait", "sending"} => pc \notin Unhurried
    OBVIOUS
  <2>3. \A k \in 0..2 : pc \notin Unhurried /\ Backed(k) => Backed(k)'
    BY <1>2, BackedKept
  <2> QED
    BY <2>1, <2>2, <2>3 DEF LeadKnown
<1>3. CASE Top \/ Silence \/ Quiet \/ Drain
  BY <1>3 DEF Top, Silence, Quiet, Drain, LeadKnown
<1>4. CASE Pick
  BY <1>4 DEF Pick, LeadKnown, Backed
<1>5. CASE Frame
  <2>1. CASE pc' = "drain"
    BY <2>1 DEF LeadKnown
  <2>2. CASE pc' = "wait"
    <3>1. /\ Backed(1) /\ UNCHANGED <<dpp, lead, buffered>> /\ stepped' = TRUE
      BY <1>5, <2>2 DEF Frame, LeadKnown
    <3>2. Fresh(1) => Fresh(2)'
      BY <3>1, FreshAfterStep
    <3> QED
      BY <2>2, <3>1, <3>2 DEF LeadKnown, Backed
  <2> QED
    BY <1>5, <2>1, <2>2 DEF Frame
<1>6. CASE Wait
  <2>1. CASE Interrupted
    BY <1>6, <2>1 DEF Wait, Interrupted, LeadKnown
  <2>2. CASE Safe
    BY <1>6, <2>2 DEF Wait, Safe, LeadKnown, Backed, Fresh
  <2>3. CASE StillDark
    BY <1>6, <2>3 DEF Wait, StillDark, LeadKnown
  <2> QED
    BY <1>6, <2>1, <2>2, <2>3 DEF Wait
<1>7. CASE Sending
  BY <1>7, SendingStep DEF Sending, LeadKnown
<1> QED
  BY <1>1, <1>2, <1>3, <1>4, <1>5, <1>6, <1>7 DEF Next, AudioStep, World

\* For any delays, timeouts and lengths: a sent frame leaves no lead that the present encoder
\* could not back.
THEOREM LeadStaysBuffered == Spec => LeadIsBuffered
<1>1. Init => CallsAreFresh /\ LeadKnown
  BY DEF Init, CallsAreFresh, Calling, LeadKnown
<1>2. Typed /\ CallsAreFresh /\ LeadKnown /\ [Next]_vars
        => [pc = "sending" /\ pc' = "frame" => lead' <= buffered']_vars
  <2> SUFFICES ASSUME Typed, CallsAreFresh, LeadKnown, Next, pc = "sending", pc' = "frame"
               PROVE  lead' <= buffered'
    OBVIOUS
  <2>1. Sending
    BY DEF Next, AudioStep, Tick, LoseSocket, Rebuild, Connected, LoseGateway, Interrupt,
           Top, Pick, Silence, Quiet, Frame, Wait, Interrupted, Safe, StillDark, Drain
  <2> QED
    BY <2>1, SendingStep
<1> QED
  BY <1>1, <1>2, InitTyped, TypedStep, CallsStep, LeadStep, PTL DEF Spec, LeadIsBuffered

-----------------------------------------------------------------------------
(***************************************************************************)
(* Giving up.                                                              *)
(***************************************************************************)
\* While a frame waits, every tick but the first one is dark.
Dark ==
  /\ steady => conn = "up"
  /\ pc = "wait" => waited <= dark + 1 /\ (stepped /\ waited > 0 => ~steady)

LEMMA DarkStep == Typed /\ Dark /\ [Next]_vars => Dark'
<1> SUFFICES ASSUME Typed, Dark, [Next]_vars PROVE Dark'
  OBVIOUS
<1>0. waited \in 0..(RecoveryTimeout + 1) /\ dark \in 0..(RecoveryTimeout + 1)
  BY DEF Typed, ClocksTyped
<1> USE Bounds DEF Dark
<1>1. CASE UNCHANGED vars
  BY <1>1 DEF vars
<1>2. CASE Tick
  <2>1. steady' => conn' = "up"
    BY <1>2 DEF Tick
  <2>2. ASSUME pc' = "wait" PROVE waited' <= dark' + 1 /\ stepped' = FALSE
    <3>1. pc = "wait" /\ stepped /\ stepped' = FALSE /\ waited' = Up(waited, RecoveryTimeout + 1)
      BY <1>2, <2>2 DEF Tick
    <3>2. dark' = IF steady /\ conn = "up" THEN 0 ELSE Up(dark, RecoveryTimeout + 1)
      BY <1>2 DEF Tick
    <3>3. CASE waited = 0
      BY <1>0, <3>1, <3>2, <3>3 DEF Up
    <3>4. CASE waited > 0
      BY <1>0, <3>1, <3>2, <3>4 DEF Up
    <3>5. waited = 0 \/ waited > 0
      BY <1>0
    <3> QED
      BY <3>1, <3>3, <3>4, <3>5
  <2> QED
    BY <2>1, <2>2
<1>3. CASE LoseSocket \/ Rebuild \/ Connected \/ LoseGateway \/ Interrupt
  BY <1>3 DEF LoseSocket, Rebuild, Connected, LoseGateway, Interrupt
<1>4. CASE Top
  BY <1>4 DEF Top
<1>5. CASE Pick \/ Silence \/ Quiet \/ Sending \/ Drain
  BY <1>5 DEF Pick, Silence, Quiet, Sending, Drain
<1>6. CASE Frame
  BY <1>0, <1>6 DEF Frame
<1>7. CASE Wait
  BY <1>7 DEF Wait, Interrupted, Safe, StillDark
<1> QED
  BY <1>1, <1>2, <1>3, <1>4, <1>5, <1>6, <1>7 DEF Next, AudioStep

\* For any timeout: a song is given up for its connection only after that was not safe for a
\* whole tick in all that time.
THEOREM GivenUpLate == Spec => GivesUpLate
<1>1. Init => Dark
  BY DEF Init, Dark
<1>2. Typed /\ Dark /\ [Next]_vars
        => [pc = "wait" /\ pc' = "drain" => dark >= RecoveryTimeout]_vars
  <2> SUFFICES ASSUME Typed, Dark, Next, pc = "wait", pc' = "drain" PROVE dark >= RecoveryTimeout
    OBVIOUS
  <2>1. Wait
    BY DEF Next, AudioStep, Tick, LoseSocket, Rebuild, Connected, LoseGateway, Interrupt,
           Top, Pick, Silence, Quiet, Frame, Sending, Drain
  <2>2. waited > RecoveryTimeout
    BY <2>1 DEF Wait, Interrupted, Safe, StillDark
  <2> QED
    BY <2>2, Bounds DEF Dark, Typed, ClocksTyped
<1> QED
  BY <1>1, <1>2, InitTyped, TypedStep, DarkStep, PTL DEF Spec, GivesUpLate
=============================================================================
