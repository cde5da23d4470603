------------------------- MODULE CrashHandlerProofs -------------------------
(***************************************************************************)
(* What holds of the start of the client and of its signal handler, for    *)
(* any threads, signals and number of faults.                              *)
(***************************************************************************)
EXTENDS CrashHandler, TLAPS

Handlers == [sig : Signals, at : Labels]
Idle == \A t \in Threads : stack[t] = <<>>

-----------------------------------------------------------------------------
(***************************************************************************)
(* The inductive invariant.                                                *)
(***************************************************************************)
\* Before the handler is installed every fault kills.
Unguarded == process = "started" => default = Signals /\ faults = 0

\* Without a fault nothing has happened.
Fresh ==
  faults = 0 =>
    /\ Idle /\ ~entered /\ first = "none" /\ process # "killed"
    /\ process # "started" => default = {}

\* Where a handler may be that interrupted another one.
Second == {"check", "default", "raise", "return"}

\* A thread is in one handler, which has set the flag before it writes, or in one that was
\* interrupted while it wrote and in a second one that writes nothing.
Shallow(t) ==
  \/ stack[t] = <<>>
  \/ \E h \in Handlers : stack[t] = <<h>> /\ (h.at \in Writing => entered)
  \/ \E h, g \in Handlers :
       /\ stack[t] = <<h, g>> /\ h.at \in Writing /\ entered
       /\ g.at \in Second
Nested == \A t \in Threads : Shallow(t)

\* A handler that has raised its signal dies of it when it returns.
Doomed ==
  \A t \in Threads : \A i \in DOMAIN stack[t] :
    stack[t][i].at \in {"raise", "return"} => stack[t][i].sig \in default

\* The only fault there was is in one thread, in one handler, which has done so much of its
\* work as its place says.
Done == "stderr" \in written /\ (logFile => "log" \in written)
Progress(at) ==
  /\ at \in {"check", "mark"} => ~entered
  /\ default = IF at \in {"raise", "return"} THEN {first} ELSE {}
  /\ at \in {"footer", "default", "raise", "return"} => Done
  /\ process = "killed" => at = "return"
OnlyIn(t) ==
  /\ \A u \in Threads \ {t} : stack[u] = <<>>
  /\ \E at \in Labels : stack[t] = <<[sig |-> first, at |-> at]>> /\ Progress(at)
Lone == faults = 1 /\ first # "none" => \E t \in Threads : OnlyIn(t)

Guarded == TypeOK /\ Unguarded /\ Fresh /\ Nested /\ Doomed /\ Lone

-----------------------------------------------------------------------------
(***************************************************************************)
(* Handlers one in the other.                                              *)
(***************************************************************************)
At(h, label) == [sig |-> h.sig, at |-> label]

\* Thread t is in handler h, or in g which interrupted h.
One(t, h) == h \in Handlers /\ stack[t] = <<h>>
Two(t, h, g) == h \in Handlers /\ g \in Handlers /\ stack[t] = <<h, g>>

\* The innermost handler of the thread goes on to the label; the other threads stay.
Moved(t, label) ==
  /\ stack' \in [Threads -> Seq(Handlers)]
  /\ \A u \in Threads \ {t} : stack'[u] = stack[u]
  /\ \A h : One(t, h) => stack'[t] = <<At(h, label)>>
  /\ \A h, g : Two(t, h, g) => stack'[t] = <<h, At(g, label)>>

LEMMA Shapes ==
  ASSUME NEW h, NEW g
  PROVE  /\ <<h>> # <<>> /\ Len(<<h>>) = 1 /\ <<h>>[1] = h /\ DOMAIN <<h>> = {1}
         /\ <<h, g>> # <<>> /\ Len(<<h, g>>) = 2 /\ DOMAIN <<h, g>> = {1, 2}
         /\ <<h, g>>[1] = h /\ <<h, g>>[2] = g
         /\ Append(<<>>, h) = <<h>> /\ Len(<<>>) = 0 /\ DOMAIN <<>> = {}
OBVIOUS

LEMMA Deeper ==
  ASSUME NEW h \in Handlers, NEW g \in Handlers
  PROVE  /\ <<h>> \in Seq(Handlers) /\ <<h, g>> \in Seq(Handlers)
         /\ Append(<<h>>, g) = <<h, g>>
<1>1. <<h>> \in Seq(Handlers) /\ <<h, g>> \in Seq(Handlers)
  OBVIOUS
<1>2. Len(<<h>>) = 1 /\ <<h>>[1] = h
  OBVIOUS
<1>3. Append(<<h>>, g) = [i \in 1..2 |-> IF i = 2 THEN g ELSE h]
  <2>1. Append(<<h>>, g)
          = [i \in 1..(Len(<<h>>) + 1) |-> IF i = Len(<<h>>) + 1 THEN g ELSE <<h>>[i]]
    OBVIOUS
  <2> QED
    BY <1>2, <2>1
<1>4. <<h, g>> = [i \in 1..2 |-> IF i = 2 THEN g ELSE h]
  OBVIOUS
<1> QED
  BY <1>1, <1>3, <1>4

LEMMA Innermost ==
  ASSUME NEW t
  PROVE  /\ \A h : One(t, h) => Top(t) = h
         /\ \A h, g : Two(t, h, g) => Top(t) = g
<1>1. ASSUME NEW h, One(t, h) PROVE Top(t) = h
  <2>1. Len(stack[t]) = 1 /\ stack[t][1] = h
    BY <1>1, Shapes DEF One
  <2> QED
    BY <2>1 DEF Top
<1>2. ASSUME NEW h, NEW g, Two(t, h, g) PROVE Top(t) = g
  <2>1. Len(stack[t]) = 2 /\ stack[t][2] = g
    BY <1>2, Shapes DEF Two
  <2> QED
    BY <2>1 DEF Top
<1> QED
  BY <1>1, <1>2

\* The two ways to be in a handler.
LEMMA Depths ==
  ASSUME NEW t \in Threads, Nested, NEW label, In(t, label)
  PROVE  \/ \E h \in Handlers : One(t, h) /\ h.at = label /\ (label \in Writing => entered)
         \/ \E h, g \in Handlers :
              /\ Two(t, h, g) /\ g.at = label /\ h.at \in Writing /\ entered
              /\ label \in Second
<1>1. stack[t] # <<>> /\ Top(t).at = label /\ Shallow(t)
  BY DEF In, Nested
<1>2. CASE \E h \in Handlers : stack[t] = <<h>> /\ (h.at \in Writing => entered)
  BY <1>1, <1>2, Innermost DEF One
<1>3. CASE \E h, g \in Handlers :
              /\ stack[t] = <<h, g>> /\ h.at \in Writing /\ entered
              /\ g.at \in Second
  BY <1>1, <1>3, Innermost DEF Two
<1> QED
  BY <1>1, <1>2, <1>3 DEF Shallow

LEMMA GotoMoves ==
  ASSUME stack \in [Threads -> Seq(Handlers)], Nested,
         NEW t \in Threads, NEW l, In(t, l), NEW label \in Labels, Goto(t, label)
  PROVE  Moved(t, label)
<1>1. ASSUME NEW h, One(t, h)
      PROVE  stack' = [stack EXCEPT ![t] = <<At(h, label)>>] /\ At(h, label) \in Handlers
  <2>1. stack' = [stack EXCEPT ![t][1].at = label]
    BY <1>1, Shapes DEF Goto, One
  <2>2. [stack[t] EXCEPT ![1].at = label] = <<At(h, label)>>
    BY <1>1 DEF One, At, Handlers
  <2> QED
    BY <1>1, <2>1, <2>2 DEF One, At, Handlers
<1>2. ASSUME NEW h, NEW g, Two(t, h, g)
      PROVE  /\ stack' = [stack EXCEPT ![t] = <<h, At(g, label)>>]
             /\ h \in Handlers /\ At(g, label) \in Handlers
  <2>1. stack' = [stack EXCEPT ![t][2].at = label]
    BY <1>2, Shapes DEF Goto, Two
  <2>2. [stack[t] EXCEPT ![2].at = label] = <<h, At(g, label)>>
    BY <1>2 DEF Two, At, Handlers
  <2> QED
    BY <1>2, <2>1, <2>2 DEF Two, At, Handlers
<1>3. CASE \E h \in Handlers : One(t, h)
  <2>1. PICK h \in Handlers : One(t, h)
    BY <1>3
  <2>2. \A g, k : ~ Two(t, g, k)
    BY <2>1, Shapes DEF One, Two
  <2>3. \A k : One(t, k) => k = h
    BY <2>1, Shapes DEF One
  <2>4. /\ stack' = [stack EXCEPT ![t] = <<At(h, label)>>]
        /\ <<At(h, label)>> \in Seq(Handlers)
    BY <1>1, <2>1, Deeper
  <2>5. stack' \in [Threads -> Seq(Handlers)]
    BY <2>4
  <2> QED
    BY <2>2, <2>3, <2>4, <2>5 DEF Moved
<1>4. CASE \E h, g \in Handlers : Two(t, h, g)
  <2>1. PICK h \in Handlers, g \in Handlers : Two(t, h, g)
    BY <1>4
  <2>2. \A k : ~ One(t, k)
    BY <2>1, Shapes DEF One, Two
  <2>3. \A k, l2 : Two(t, k, l2) => k = h /\ l2 = g
    BY <2>1, Shapes DEF Two
  <2>4. /\ stack' = [stack EXCEPT ![t] = <<h, At(g, label)>>]
        /\ <<h, At(g, label)>> \in Seq(Handlers)
    BY <1>2, <2>1, Deeper
  <2>5. stack' \in [Threads -> Seq(Handlers)]
    BY <2>4
  <2> QED
    BY <2>2, <2>3, <2>4, <2>5 DEF Moved
<1> QED
  BY <1>3, <1>4, Depths

-----------------------------------------------------------------------------
(***************************************************************************)
(* What a handler that goes on keeps.                                      *)
(***************************************************************************)
StackTyped == stack \in [Threads -> Seq(Handlers)]

LEMMA NestedMoves ==
  ASSUME Nested, NEW t \in Threads, NEW from, NEW to \in Labels, In(t, from), Moved(t, to),
         entered => entered', to \in Writing => entered',
         entered /\ from \in Second => to \in Second
  PROVE  Nested'
<1>1. ASSUME NEW u \in Threads \ {t} PROVE Shallow(u)'
  <2>1. stack'[u] = stack[u] /\ Shallow(u)
    BY DEF Moved, Nested
  <2> QED
    BY <2>1 DEF Shallow
<1>2. ASSUME NEW h \in Handlers, One(t, h) PROVE Shallow(t)'
  <2>1. stack'[t] = <<At(h, to)>>
    BY <1>2 DEF Moved
  <2>2. At(h, to) \in Handlers /\ At(h, to).at = to
    BY DEF At, Handlers
  <2> QED
    BY <2>1, <2>2 DEF Shallow
<1>3. ASSUME NEW h \in Handlers, NEW g \in Handlers, Two(t, h, g), h.at \in Writing, entered,
             from \in Second
      PROVE  Shallow(t)'
  <2>1. stack'[t] = <<h, At(g, to)>>
    BY <1>3 DEF Moved
  <2>2. At(g, to) \in Handlers /\ At(g, to).at = to
    BY DEF At, Handlers
  <2> QED
    BY <1>3, <2>1, <2>2 DEF Shallow
<1>4. Shallow(t)'
  BY <1>2, <1>3, Depths
<1> QED
  BY <1>1, <1>4 DEF Nested

LEMMA DoomedMoves ==
  ASSUME Nested, Doomed, NEW t \in Threads, NEW from, NEW to \in Labels,
         In(t, from), Moved(t, to),
         default \subseteq default', to \in {"raise", "return"} => Top(t).sig \in default'
  PROVE  Doomed'
<1> DEFINE Safe(u) == \A i \in DOMAIN stack[u] :
                        stack[u][i].at \in {"raise", "return"} => stack[u][i].sig \in default
<1>1. ASSUME NEW u \in Threads \ {t} PROVE Safe(u)'
  <2>1. stack'[u] = stack[u] /\ Safe(u)
    BY DEF Moved, Doomed
  <2> QED
    BY <2>1
<1>2. ASSUME NEW h \in Handlers, One(t, h) PROVE Safe(t)'
  <2>1. stack'[t] = <<At(h, to)>> /\ Top(t) = h
    BY <1>2, Innermost DEF Moved
  <2>2. At(h, to).at = to /\ At(h, to).sig = h.sig
    BY DEF At
  <2> QED
    BY <2>1, <2>2, Shapes
<1>3. ASSUME NEW h \in Handlers, NEW g \in Handlers, Two(t, h, g), h.at \in Writing
      PROVE  Safe(t)'
  <2>1. stack'[t] = <<h, At(g, to)>> /\ Top(t) = g
    BY <1>3, Innermost DEF Moved
  <2>2. At(g, to).at = to /\ At(g, to).sig = g.sig
    BY DEF At
  <2>3. h.at \notin {"raise", "return"}
    BY <1>3 DEF Writing
  <2>4. ASSUME NEW i \in DOMAIN <<h, At(g, to)>> PROVE i = 1 \/ i = 2
    BY <2>4, Shapes
  <2> QED
    BY <2>1, <2>2, <2>3, <2>4, Shapes
<1>4. Safe(t)'
  BY <1>2, <1>3, Depths
<1> QED
  BY <1>1, <1>4 DEF Doomed

\* If there was one fault, the handler that goes on is the one it is in.
LEMMA LoneMoves ==
  ASSUME Lone, NEW t \in Threads, NEW from, NEW to \in Labels, In(t, from), Moved(t, to),
         faults' = faults, first' = first, first \in Signals \cup {"none"},
         Progress(from) /\ Top(t).sig = first => Progress(to)'
  PROVE  Lone'
<1> SUFFICES ASSUME faults = 1, first # "none" PROVE OnlyIn(t)'
  BY DEF Lone
<1>1. PICK w \in Threads : OnlyIn(w)
  BY DEF Lone
<1>2. w = t
  BY <1>1 DEF OnlyIn, In
<1>3. PICK at \in Labels : stack[t] = <<[sig |-> first, at |-> at]>> /\ Progress(at)
  BY <1>1, <1>2 DEF OnlyIn
<1> DEFINE h == [sig |-> first, at |-> at]
<1>4. Top(t) = h
  <2>1. Len(stack[t]) = 1 /\ stack[t][1] = h
    BY <1>3, Shapes
  <2> QED
    BY <2>1 DEF Top
<1>5. h.at = from /\ Progress(to)'
  BY <1>3, <1>4 DEF In
<1>6. h \in Handlers
  BY DEF Handlers
<1>7. stack'[t] = <<[sig |-> first, at |-> to]>>
  BY <1>3, <1>6 DEF Moved, One, At
<1>8. \A u \in Threads \ {t} : stack'[u] = <<>>
  BY <1>1, <1>2 DEF OnlyIn, Moved
<1> QED
  BY <1>5, <1>7, <1>8 DEF OnlyIn

-----------------------------------------------------------------------------
(***************************************************************************)
(* Every step keeps every part.                                            *)
(***************************************************************************)
LEMMA Typed == TypeOK => StackTyped /\ first \in Signals \cup {"none"}
BY DEF TypeOK, StackTyped, Handlers

\* Each of the steps of a handler but the first half of the trace and the last one, which
\* kills, takes the thread from one place to the next.
LEMMA HandlerMoves ==
  ASSUME TypeOK, Nested, NEW t \in Threads
  PROVE  /\ Check(t) => Moved(t, IF entered THEN "default" ELSE "mark")
         /\ Mark(t) => Moved(t, "header")
         /\ WriteHeader(t) => Moved(t, "trace")
         /\ WriteTrace(t) => (logFile /\ "stderr" \notin written /\ stack' = stack)
                              \/ Moved(t, "footer")
         /\ WriteFooter(t) => Moved(t, "default")
         /\ Default(t) => Moved(t, "raise")
         /\ Raise(t) => Moved(t, "return")
<1> USE Typed, GotoMoves DEF StackTyped
<1>1. \A l \in {"default", "mark", "header", "trace", "footer", "raise", "return"} : l \in Labels
  BY DEF Labels
<1>2. Check(t) => Moved(t, IF entered THEN "default" ELSE "mark")
  BY <1>1 DEF Check
<1>3. Mark(t) => Moved(t, "header")
  BY <1>1 DEF Mark
<1>4. WriteHeader(t) => Moved(t, "trace")
  BY <1>1 DEF WriteHeader
<1>5. WriteTrace(t) => (logFile /\ "stderr" \notin written /\ stack' = stack)
                        \/ Moved(t, "footer")
  BY <1>1 DEF WriteTrace
<1>6. WriteFooter(t) => Moved(t, "default")
  BY <1>1 DEF WriteFooter
<1>7. Default(t) => Moved(t, "raise")
  BY <1>1 DEF Default
<1>8. Raise(t) => Moved(t, "return")
  BY <1>1 DEF Raise
<1> QED
  BY <1>2, <1>3, <1>4, <1>5, <1>6, <1>7, <1>8

\* The signal of the innermost handler is one.
LEMMA TopSignal ==
  ASSUME Nested, NEW t \in Threads, NEW label, In(t, label)
  PROVE  Top(t).sig \in Signals
BY Depths, Innermost DEF Handlers

\* A handler that returns has its signal at the default action.
LEMMA ReturnKills ==
  ASSUME Nested, Doomed, NEW t \in Threads, In(t, "return")
  PROVE  Top(t).sig \in default
<1>1. ASSUME NEW h, One(t, h), h.at = "return" PROVE h.sig \in default
  BY <1>1, Shapes DEF One, Doomed
<1>2. ASSUME NEW h, NEW g, Two(t, h, g), g.at = "return" PROVE g.sig \in default
  BY <1>2, Shapes DEF Two, Doomed
<1> QED
  BY <1>1, <1>2, Depths, Innermost

\* A thread is in a handler only after a fault, and never before the handler is installed.
LEMMA Inside ==
  ASSUME Guarded, NEW t \in Threads, NEW label, In(t, label)
  PROVE  faults # 0 /\ process # "started"
BY DEF Guarded, Fresh, Idle, In, Unguarded

\* What is left to show of a step that takes the handler from one place to the next.
LEMMA MovesKeep ==
  ASSUME Guarded, NEW t \in Threads, NEW from, NEW to \in Labels, In(t, from), Moved(t, to),
         UNCHANGED <<process, logFile, faults, first>>,
         entered' \in BOOLEAN, entered => entered', to \in Writing => entered',
         entered /\ from \in Second => to \in Second,
         written' \subseteq {"stderr", "log"}, written' # {} => entered',
         default' \subseteq Signals, default \subseteq default',
         to \in {"raise", "return"} => Top(t).sig \in default',
         Progress(from) /\ Top(t).sig = first => Progress(to)'
  PROVE  Guarded'
<1>1. TypeOK'
  <2>1. StackTyped'
    BY DEF Moved, StackTyped
  <2> QED
    BY <2>1 DEF Guarded, TypeOK, StackTyped, Handlers
<1>2. Unguarded' /\ Fresh'
  BY Inside DEF Unguarded, Fresh
<1>3. Nested'
  BY NestedMoves DEF Guarded
<1>4. Doomed'
  BY DoomedMoves DEF Guarded
<1>5. Lone'
  BY LoneMoves, Typed DEF Guarded
<1> QED
  BY <1>1, <1>2, <1>3, <1>4, <1>5 DEF Guarded

LEMMA HandlerKeeps ==
  ASSUME Guarded, NEW t \in Threads, HandlerStep(t)
  PROVE  Guarded'
<1> USE DEF Writing, Second, Labels, Progress, Done
<1>t. /\ entered \in BOOLEAN /\ written \subseteq {"stderr", "log"} /\ default \subseteq Signals
      /\ written # {} => entered
  BY DEF Guarded, TypeOK
<1>g. TypeOK /\ Nested /\ Doomed
  BY DEF Guarded
<1>1. CASE Check(t)
  <2>1. Moved(t, IF entered THEN "default" ELSE "mark") /\ In(t, "check")
    BY <1>1, <1>g, HandlerMoves DEF Check
  <2> QED
    BY <1>t, <1>1, <2>1, MovesKeep DEF Check
<1>2. CASE Mark(t)
  <2>1. Moved(t, "header") /\ In(t, "mark")
    BY <1>2, <1>g, HandlerMoves DEF Mark
  <2> QED
    BY <1>t, <1>2, <2>1, MovesKeep DEF Mark
<1>3. CASE WriteHeader(t)
  <2>1. Moved(t, "trace") /\ In(t, "header") /\ entered
    BY <1>3, <1>g, HandlerMoves, Depths DEF WriteHeader
  <2> QED
    BY <1>t, <1>3, <2>1, MovesKeep DEF WriteHeader
<1>4. CASE WriteTrace(t)
  <2>1. In(t, "trace") /\ entered
    BY <1>4, <1>g, Depths DEF WriteTrace
  <2>2. CASE stack' = stack /\ logFile /\ "stderr" \notin written
    <3>1. written' = written \cup {"stderr"}
      BY <1>4, <2>2 DEF WriteTrace
    <3>2. UNCHANGED <<process, logFile, entered, default, stack, faults, first>>
      BY <1>4, <2>2 DEF WriteTrace
    <3>3. TypeOK'
      BY <1>g, <2>1, <3>1, <3>2 DEF TypeOK
    <3>4. Unguarded' /\ Fresh' /\ Nested' /\ Doomed'
      BY <3>2 DEF Guarded, Unguarded, Fresh, Idle, Nested, Shallow, Doomed
    <3>5. Lone'
      BY <3>1, <3>2 DEF Guarded, Lone, OnlyIn
    <3> QED
      BY <3>3, <3>4, <3>5 DEF Guarded
  <2>3. CASE Moved(t, "footer")
    <3>1. "stderr" \in written' /\ written' \subseteq {"stderr", "log"}
      BY <1>t, <1>4 DEF WriteTrace
    <3>2. logFile => "log" \in written' \/ stack' = stack
      BY <1>4 DEF WriteTrace
    <3>3. stack' # stack
      BY <1>g, <2>1, <2>3, Depths, Shapes DEF Moved, One, Two, At
    <3> QED
      BY <1>t, <1>4, <2>1, <2>3, <3>1, <3>2, <3>3, MovesKeep DEF WriteTrace
  <2> QED
    BY <1>4, <1>g, <2>2, <2>3, HandlerMoves
<1>5. CASE WriteFooter(t)
  <2>1. Moved(t, "default") /\ In(t, "footer") /\ entered
    BY <1>5, <1>g, HandlerMoves, Depths DEF WriteFooter
  <2> QED
    BY <1>t, <1>5, <2>1, MovesKeep DEF WriteFooter
<1>6. CASE Default(t)
  <2>1. Moved(t, "raise") /\ In(t, "default") /\ Top(t).sig \in Signals
    BY <1>6, <1>g, HandlerMoves, TopSignal DEF Default
  <2> QED
    BY <1>t, <1>6, <2>1, MovesKeep DEF Default
<1>7. CASE Raise(t)
  <2>1. Moved(t, "return") /\ In(t, "raise")
    BY <1>7, <1>g, HandlerMoves DEF Raise
  <2>2. Top(t).sig \in default
    BY <1>g, <2>1, Depths, Innermost, Shapes DEF One, Two, Doomed
  <2> QED
    BY <1>t, <1>7, <2>1, <2>2, MovesKeep DEF Raise
<1>8. CASE Return(t)
  <2>1. In(t, "return") /\ Top(t).sig \in default
    BY <1>8, <1>g, ReturnKills DEF Return
  <2>2. /\ process' = "killed"
        /\ UNCHANGED <<logFile, entered, default, stack, written, faults, first>>
    BY <1>8, <2>1 DEF Return
  <2>3. TypeOK'
    BY <1>g, <2>2 DEF TypeOK
  <2>4. Unguarded' /\ Fresh' /\ Nested' /\ Doomed'
    BY <2>1, <2>2, Inside DEF Guarded, Unguarded, Fresh, Nested, Shallow, Doomed
  <2>5. Lone'
    <3> SUFFICES ASSUME faults = 1, first # "none" PROVE \E u \in Threads : OnlyIn(u)'
      BY <2>2 DEF Lone
    <3>1. PICK u \in Threads : OnlyIn(u)
      BY DEF Guarded, Lone
    <3>2. u = t
      BY <2>1, <3>1 DEF OnlyIn, In
    <3>3. PICK at \in Labels : stack[t] = <<[sig |-> first, at |-> at]>> /\ Progress(at)
      BY <3>1, <3>2 DEF OnlyIn
    <3>4. at = "return"
      <4>1. Len(stack[t]) = 1 /\ stack[t][1] = [sig |-> first, at |-> at]
        BY <3>3, Shapes
      <4> QED
        BY <2>1, <4>1 DEF In, Top
    <3>5. Progress(at)'
      BY <2>2, <3>3, <3>4
    <3> QED
      BY <2>2, <3>1, <3>2, <3>3, <3>5 DEF OnlyIn
  <2> QED
    BY <2>3, <2>4, <2>5 DEF Guarded
<1> QED
  BY <1>1, <1>2, <1>3, <1>4, <1>5, <1>6, <1>7, <1>8 DEF HandlerStep

LEMMA MainKeeps ==
  ASSUME Guarded, InstallCrashHandler \/ RunWithToken
  PROVE  Guarded'
<1>1. CASE InstallCrashHandler
  <2>1. process = "started" /\ process' = "guarded" /\ default' = {} /\ logFile' \in BOOLEAN
    BY <1>1 DEF InstallCrashHandler
  <2>2. UNCHANGED <<entered, stack, written, faults, first>>
    BY <1>1 DEF InstallCrashHandler
  <2>3. faults = 0 /\ Idle /\ ~entered /\ first = "none"
    BY <2>1 DEF Guarded, Unguarded, Fresh
  <2>4. TypeOK'
    BY <2>1, <2>2 DEF Guarded, TypeOK
  <2>5. Unguarded' /\ Fresh' /\ Lone'
    BY <2>1, <2>2, <2>3 DEF Unguarded, Fresh, Idle, Lone
  <2>6. Nested' /\ Doomed'
    BY <2>2, <2>3, Shapes DEF Idle, Nested, Shallow, Doomed
  <2> QED
    BY <2>4, <2>5, <2>6 DEF Guarded
<1>2. CASE RunWithToken
  <2>1. process = "guarded" /\ process' \in {"running", "ended"}
    BY <1>2 DEF RunWithToken
  <2>2. UNCHANGED <<logFile, entered, default, stack, written, faults, first>>
    BY <1>2 DEF RunWithToken
  <2>3. TypeOK'
    BY <2>1, <2>2 DEF Guarded, TypeOK
  <2>4. Unguarded' /\ Fresh' /\ Nested' /\ Doomed'
    BY <2>1, <2>2 DEF Guarded, Unguarded, Fresh, Idle, Nested, Shallow, Doomed
  <2>5. ASSUME NEW t \in Threads, OnlyIn(t) PROVE OnlyIn(t)'
    BY <2>1, <2>2, <2>5 DEF OnlyIn, Progress, Done
  <2>6. Lone'
    BY <2>2, <2>5 DEF Guarded, Lone
  <2> QED
    BY <2>3, <2>4, <2>6 DEF Guarded
<1> QED
  BY <1>1, <1>2

LEMMA FaultKeeps ==
  ASSUME Guarded, NEW t \in Threads, NEW s \in Signals, Fault(t, s)
  PROVE  Guarded'
<1>t. /\ TypeOK /\ StackTyped /\ Nested /\ Doomed
      /\ faults' = faults + 1 /\ faults' \in 0..MaxFaults /\ faults' # 0 /\ faults \in Nat
      /\ UNCHANGED <<logFile, entered, default, written>>
  <2>1. faults \in 0..MaxFaults /\ MaxFaults \in Nat /\ faults < MaxFaults /\ faults' = faults + 1
    BY CrashAssumption DEF Guarded, TypeOK, Fault
  <2>2. faults' \in 0..MaxFaults /\ faults' # 0 /\ faults \in Nat
    BY <2>1
  <2> QED
    BY <2>1, <2>2, Typed DEF Guarded, Fault
<1>1. CASE s \in default \/ Blocked(t, s)
  <2>1. process' = "killed" /\ UNCHANGED <<stack, first>>
    BY <1>1 DEF Fault
  <2>2. TypeOK'
    BY <1>t, <2>1 DEF TypeOK
  <2>3. Unguarded' /\ Fresh' /\ Nested' /\ Doomed'
    BY <1>t, <2>1 DEF Unguarded, Fresh, Nested, Shallow, Doomed
  <2>4. Lone'
    <3>1. faults' = 1 => faults = 0
      BY <1>t
    <3> QED
      BY <2>1, <3>1 DEF Guarded, Lone, Fresh
  <2> QED
    BY <2>2, <2>3, <2>4 DEF Guarded
<1>2. CASE ~(s \in default \/ Blocked(t, s))
  <2> DEFINE h == [sig |-> s, at |-> "check"]
  <2>1. /\ stack' = [stack EXCEPT ![t] = Append(stack[t], h)] /\ process' = process
        /\ first' = (IF first = "none" THEN s ELSE first)
    BY <1>2 DEF Fault, Enter
  <2>2. process # "started"
    BY <1>2 DEF Guarded, Unguarded
  <2>3. h \in Handlers
    BY DEF Handlers, Labels
  <2> HIDE DEF h
  <2>4. StackTyped'
    <3>1. stack[t] \in Seq(Handlers)
      BY <1>t DEF StackTyped
    <3>2. Append(stack[t], h) \in Seq(Handlers)
      BY <2>3, <3>1
    <3> QED
      BY <1>t, <2>1, <3>2 DEF StackTyped
  <2>5. TypeOK'
    BY <1>t, <2>1, <2>4 DEF TypeOK, StackTyped, Handlers
  <2>6. Unguarded' /\ Fresh'
    BY <1>t, <2>1, <2>2 DEF Unguarded, Fresh
  <2>7. \A u \in Threads \ {t} : stack'[u] = stack[u]
    BY <1>t, <2>1 DEF StackTyped
  <2>8. \/ stack[t] = <<>> /\ stack'[t] = <<h>>
        \/ \E k \in Handlers : /\ One(t, k) /\ k.at \in Writing /\ entered
                               /\ stack'[t] = <<k, h>>
    <3>1. stack'[t] = Append(stack[t], h)
      BY <1>t, <2>1 DEF StackTyped
    <3>2. stack[t] # <<>> => Top(t).at \in Writing
      BY DEF Fault
    <3>3. CASE stack[t] = <<>>
      BY <3>1, <3>3, Shapes
    <3>4. CASE \E k \in Handlers : stack[t] = <<k>> /\ (k.at \in Writing => entered)
      <4>1. PICK k \in Handlers : stack[t] = <<k>> /\ (k.at \in Writing => entered)
        BY <3>4
      <4>2. One(t, k) /\ k.at \in Writing
        BY <3>2, <4>1, Shapes, Innermost DEF One
      <4>3. stack'[t] = <<k, h>>
        BY <2>3, <3>1, <4>1, Deeper
      <4> QED
        BY <4>1, <4>2, <4>3
    <3>5. ~ \E k, g \in Handlers :
              stack[t] = <<k, g>> /\ k.at \in Writing /\ entered /\ g.at \in Second
      <4> SUFFICES ASSUME NEW k \in Handlers, NEW g \in Handlers, stack[t] = <<k, g>>,
                          g.at \in Second
                   PROVE  FALSE
        OBVIOUS
      <4>1. Top(t) = g /\ stack[t] # <<>>
        BY Shapes, Innermost DEF Two
      <4> QED
        BY <3>2, <4>1 DEF Writing, Second
    <3> QED
      BY <1>t, <3>3, <3>4, <3>5 DEF Nested, Shallow
  <2>9. h.at = "check" /\ h.sig = s
    BY DEF h
  <2>10. Nested'
    <3>1. ASSUME NEW u \in Threads \ {t} PROVE Shallow(u)'
      BY <1>t, <2>7 DEF Nested, Shallow
    <3>2. Shallow(t)'
      BY <1>t, <2>3, <2>8, <2>9 DEF Shallow, Second, Writing
    <3> QED
      BY <3>1, <3>2 DEF Nested
  <2>11. Doomed'
    <3>1. ASSUME NEW u \in Threads, NEW i \in DOMAIN stack'[u],
                 stack'[u][i].at \in {"raise", "return"}
          PROVE  stack'[u][i].sig \in default
      <4>1. CASE u # t
        BY <1>t, <2>7, <3>1, <4>1 DEF Doomed
      <4>2. CASE u = t /\ stack'[t] = <<h>>
        BY <2>9, <3>1, <4>2, Shapes
      <4>3. ASSUME u = t, NEW k, k.at \in Writing, stack'[t] = <<k, h>> PROVE FALSE
        <5>1. i = 1 \/ i = 2
          BY <3>1, <4>3, Shapes
        <5> QED
          BY <2>9, <3>1, <4>3, <5>1, Shapes DEF Writing
      <4> QED
        BY <2>8, <4>1, <4>2, <4>3
    <3> QED
      BY <1>t, <3>1 DEF Doomed
  <2>12. Lone'
    <3> SUFFICES ASSUME faults' = 1 PROVE OnlyIn(t)'
      BY DEF Lone
    <3>1. faults = 0
      BY <1>t
    <3>2. Idle /\ ~entered /\ first = "none" /\ process # "killed" /\ default = {}
      BY <2>2, <3>1 DEF Guarded, Fresh
    <3>3. stack'[t] = <<h>> /\ first' = s
      BY <2>1, <2>8, <3>2, Shapes DEF Idle, One
    <3>4. Progress("check")'
      BY <1>t, <2>1, <3>2 DEF Progress
    <3>5. \A u \in Threads \ {t} : stack'[u] = <<>>
      BY <2>7, <3>2 DEF Idle
    <3> QED
      BY <3>3, <3>4, <3>5 DEF OnlyIn, Labels, h
  <2> QED
    BY <2>5, <2>6, <2>10, <2>11, <2>12 DEF Guarded
<1> QED
  BY <1>1, <1>2

LEMMA GuardedStep == Guarded /\ [Next]_vars => Guarded'
<1> SUFFICES ASSUME Guarded, [Next]_vars PROVE Guarded'
  OBVIOUS
<1>1. CASE UNCHANGED vars
  BY <1>1 DEF vars, Guarded, TypeOK, Unguarded, Fresh, Idle, Nested, Shallow, Doomed, Lone,
              OnlyIn, Progress, Done
<1> QED
  BY <1>1, MainKeeps, HandlerKeeps, FaultKeeps DEF Next

LEMMA InitGuarded == Init => Guarded
<1> SUFFICES ASSUME Init PROVE Guarded
  OBVIOUS
<1>1. faults \in 0..MaxFaults
  <2>1. MaxFaults \in Nat
    BY CrashAssumption
  <2> QED
    BY <2>1 DEF Init
<1>2. TypeOK
  <2>1. <<>> \in Seq([sig : Signals, at : Labels])
    OBVIOUS
  <2>2. stack \in [Threads -> Seq([sig : Signals, at : Labels])]
    BY <2>1 DEF Init
  <2> QED
    BY <1>1, <2>2 DEF Init, TypeOK
<1>3. Nested /\ Doomed
  BY Shapes DEF Init, Nested, Shallow, Doomed
<1> QED
  BY <1>2, <1>3 DEF Init, Guarded, Unguarded, Fresh, Idle, Lone

LEMMA AlwaysGuarded == Spec => []Guarded
BY InitGuarded, GuardedStep, PTL DEF Spec

-----------------------------------------------------------------------------
(***************************************************************************)
(* The theorems.                                                           *)
(***************************************************************************)
\* Every variable has its type, and there is no part of a trace without the flag.
THEOREM TypeCorrect == Spec => []TypeOK
<1>1. Guarded => TypeOK
  BY DEF Guarded
<1> QED
  BY <1>1, AlwaysGuarded, PTL

\* A handler is interrupted by one other and not by a third, whatever faults it makes.
THEOREM TwoDeep == Spec => []NoRecursion
<1>1. Guarded => NoRecursion
  <2> SUFFICES ASSUME Guarded, NEW t \in Threads PROVE Len(stack[t]) <= 2
    BY DEF NoRecursion
  <2>1. Shallow(t)
    BY DEF Guarded, Nested
  <2>2. Len(stack[t]) = 0 \/ Len(stack[t]) = 1 \/ Len(stack[t]) = 2
    BY <2>1, Shapes DEF Shallow
  <2>3. \A n : n = 0 \/ n = 1 \/ n = 2 => n <= 2
    OBVIOUS
  <2> QED
    BY <2>2, <2>3, Zenon
<1> QED
  BY <1>1, AlwaysGuarded, PTL

\* A process that dies of its only fault has left the whole trace.
THEOREM DeathIsTraced == Spec => []TracedBeforeDeath
<1>1. Guarded => TracedBeforeDeath
  <2> SUFFICES ASSUME Guarded, process = "killed", faults = 1, first # "none"
               PROVE  default = {first} /\ Done
    BY DEF TracedBeforeDeath, Done
  <2>1. PICK t \in Threads : OnlyIn(t)
    BY DEF Guarded, Lone
  <2>2. Progress("return")
    BY <2>1 DEF OnlyIn, Progress
  <2> QED
    BY <2>2 DEF Progress
<1> QED
  BY <1>1, AlwaysGuarded, PTL

\* A handler that returns does not resume what it interrupted: the process dies.
ReturnIsFatal == [][\A t \in Threads : Return(t) => process' = "killed"]_vars

\* No return of a handler finds its signal still handled, so that none runs twice: the
\* safety half of FaultKills.
THEOREM NeverResumed == Spec => ReturnIsFatal
<1>1. Guarded => \A t \in Threads : Return(t) => process' = "killed"
  BY ReturnKills DEF Guarded, Return
<1> QED
  BY <1>1, AlwaysGuarded, PTL DEF ReturnIsFatal
=============================================================================
