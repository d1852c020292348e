---------------------------- MODULE RunnerProofs ----------------------------
(***************************************************************************)
(* Proofs about Runner, for every set of entries and values and every      *)
(* number of edits and restarts.                                           *)
(***************************************************************************)
EXTENDS Runner, SequenceTheorems, TLAPS

\* The changes logChanges can count are entries with one of the three actions.
LEMMA CountedChangesType ==
    ASSUME NEW old \in Specs \cup {Nil}, NEW last \in Specs \cup {Nil},
           NEW new \in Specs
    PROVE  CountedChanges(old, last, new)
               \in SUBSET (Entries \X {"added", "removed", "changed"})
  <1>1. \A before, after : Action(before, after) \in {"added", "removed", "changed"}
    BY DEF Action
  <1> QED
    BY <1>1 DEF CountedChanges, Diff

\* Every variable keeps its type in every reachable state.
THEOREM TypeCorrect == Spec => []TypeOK
  <1>0. /\ Absent \in Contents
        /\ 0 \in 0..MaxEdits
        /\ 0 \in 0..MaxCrashes
        /\ <<>> \in Seq(Contents)
    BY BoundAssumption DEF Contents
  <1>1. Init => TypeOK
    BY <1>0 DEF Init, FreshProcess, TypeOK
  <1>2. ASSUME TypeOK, [Next]_vars
        PROVE  TypeOK'
    <2> USE <1>2, BoundAssumption DEF TypeOK
    <2>1. ASSUME NEW c \in Contents, EditConfigMap(c)
          PROVE  TypeOK'
      BY <2>1 DEF EditConfigMap, informer, loop, health
    <2>2. CASE List
      BY <2>2 DEF List, cluster, loop, health
    <2>3. CASE HandlerSet
      BY <2>3 DEF HandlerSet, cluster, loop, health
    <2>4. CASE HandlerNotify
      BY <2>4 DEF HandlerNotify, cluster, informer, loop, health
    <2>5. CASE Started \/ TakeTrigger \/ TimerFires \/ Stop
      BY <2>5 DEF Started, TakeTrigger, TimerFires, Stop, cluster, informer, health
    <2>6. CASE BeginPass
      <3>1. CountedChanges(applied, counted, latest)
                \in SUBSET (Entries \X {"added", "removed", "changed"})
        BY <2>6, CountedChangesType DEF BeginPass, Usable
      <3> QED
        BY <2>6, <3>1 DEF BeginPass, Usable, cluster, informer, health
    <2>7. CASE SkipPass
      BY <2>7 DEF SkipPass, cluster, informer, health
    <2>8. CASE PassSucceeds \/ PassFails
      BY <2>8 DEF PassSucceeds, PassFails, cluster, informer
    <2>9. CASE Cancel
      BY <2>9 DEF Cancel, cluster, informer, loop, health
    <2>10. CASE Crash
      <3>1. UNCHANGED <<cm, edits, cancelled>> /\ crashes' \in 0..MaxCrashes
        BY <2>10 DEF Crash, cluster
      <3>2. cached' \in Contents /\ cachedAt' \in 0..MaxEdits /\ events' \in Seq(Contents)
            /\ latest' \in Contents /\ seen' \in Contents
        BY <1>0, <2>10 DEF Crash
      <3> QED
        BY <2>10, <3>1, <3>2 DEF Crash
    <2>11. CASE UNCHANGED vars
      BY <2>11 DEF vars
    <2> QED
      BY <2>1, <2>2, <2>3, <2>4, <2>5, <2>6, <2>7, <2>8, <2>9, <2>10, <2>11 DEF Next
  <1> QED
    BY <1>1, <1>2, PTL DEF Spec

\* An edit the handler stored is never forgotten, at whatever moment of a pass
\* it arrives: the trigger is pending or the loop is about to read.
THEOREM StoredEditIsNotForgotten == Spec => []NoLostWakeup
  <1>1. Init => NoLostWakeup
    BY DEF Init, FreshProcess, NoLostWakeup
  <1>2. ASSUME NoLostWakeup, [Next]_vars
        PROVE  NoLostWakeup'
    <2> USE <1>2 DEF NoLostWakeup
    <2>1. ASSUME NEW c \in Contents, EditConfigMap(c)
          PROVE  NoLostWakeup'
      BY <2>1 DEF EditConfigMap, loop
    <2>2. CASE List
      BY <2>2 DEF List, loop
    <2>3. CASE HandlerSet \/ HandlerNotify
      BY <2>3 DEF HandlerSet, HandlerNotify, loop
    <2>4. CASE Started \/ TakeTrigger \/ TimerFires \/ Stop
      BY <2>4 DEF Started, TakeTrigger, TimerFires, Stop
    <2>5. CASE BeginPass \/ SkipPass
      BY <2>5 DEF BeginPass, SkipPass
    <2>6. CASE PassSucceeds \/ PassFails
      BY <2>6 DEF PassSucceeds, PassFails
    <2>7. CASE Cancel
      BY <2>7 DEF Cancel, loop
    <2>8. CASE Crash
      BY <2>8 DEF Crash
    <2>9. CASE UNCHANGED vars
      BY <2>9 DEF vars
    <2> QED
      BY <2>1, <2>2, <2>3, <2>4, <2>5, <2>6, <2>7, <2>8, <2>9 DEF Next
  <1> QED
    BY <1>1, <1>2, PTL DEF Spec

\* What the loop remembers of the specs, in every state and not only between
\* passes: the strengthening of BaselinesMatch and NeverReconcilesAccident.
SpecHistory ==
    /\ (counted = Nil) <=> (seen \notin Specs)
    /\ counted # Nil => counted = seen
    /\ applied # Nil => counted # Nil /\ ready
    /\ pc # "pass" => (~lastError /\ counted # Nil => applied = counted)
    /\ pc = "pass" => seen \in Specs /\ passSpec = seen

LEMMA SpecHistoryInductive == Spec => []SpecHistory
  <1> USE SentinelAssumption DEF SpecHistory
  <1>1. Init => SpecHistory
    BY DEF Init, FreshProcess
  <1>2. ASSUME SpecHistory, [Next]_vars
        PROVE  SpecHistory'
    <2> USE <1>2
    <2>1. ASSUME NEW c \in Contents, EditConfigMap(c)
          PROVE  SpecHistory'
      BY <2>1 DEF EditConfigMap, loop, health
    <2>2. CASE List
      BY <2>2 DEF List, loop, health
    <2>3. CASE HandlerSet \/ HandlerNotify
      BY <2>3 DEF HandlerSet, HandlerNotify, loop, health
    <2>4. CASE Started \/ TakeTrigger \/ TimerFires \/ Stop
      BY <2>4 DEF Started, TakeTrigger, TimerFires, Stop, health
    <2>5. CASE BeginPass
      BY <2>5 DEF BeginPass, Usable, health
    <2>6. CASE SkipPass
      BY <2>6 DEF SkipPass, Usable, health
    <2>7. CASE PassSucceeds \/ PassFails
      BY <2>7 DEF PassSucceeds, PassFails
    <2>8. CASE Cancel
      BY <2>8 DEF Cancel, loop, health
    <2>9. CASE Crash
      BY <2>9 DEF Crash
    <2>10. CASE UNCHANGED vars
      BY <2>10 DEF vars
    <2> QED
      BY <2>1, <2>2, <2>3, <2>4, <2>5, <2>6, <2>7, <2>8, <2>9, <2>10 DEF Next
  <1> QED
    BY <1>1, <1>2, PTL DEF Spec

\* No pass works on an absent, blank or invalid ConfigMap.
THEOREM AccidentsAreSkipped == Spec => []NeverReconcilesAccident
  <1>1. SpecHistory => NeverReconcilesAccident
    BY SentinelAssumption DEF SpecHistory, NeverReconcilesAccident
  <1> QED
    BY <1>1, SpecHistoryInductive, PTL

\* Between passes the baselines of the change log match what was read.
THEOREM BaselinesFollow == Spec => []BaselinesMatch
  <1>1. SpecHistory => BaselinesMatch
    BY DEF SpecHistory, BaselinesMatch
  <1> QED
    BY <1>1, SpecHistoryInductive, PTL

\* A pass over the spec already counted counts nothing: Diff of a spec with
\* itself is empty, and what is counted is part of it.
THEOREM RetriesCountNothing == Spec => RetryCountsNothing
  <1>1. \A old, new : new # Nil => CountedChanges(old, new, new) = {}
    BY DEF CountedChanges, Diff, Base
  <1>2. SpecHistory /\ [Next]_vars => [BeginPass /\ counted = latest => tally' = {}]_vars
    BY <1>1, SentinelAssumption DEF BeginPass, Usable
  <1> QED
    BY <1>2, SpecHistoryInductive, PTL DEF Spec, RetryCountsNothing

\* Readiness is a latch within a process, opened only by a pass that succeeded
\* on the content last read.
THEOREM ReadinessIsALatch == Spec => ReadyLatch
  <1>1. ASSUME TypeOK, SpecHistory, [Next]_vars
        PROVE  [/\ ready /\ ~ready' => crashes' # crashes
                /\ ~ready /\ ready' => applied' = seen /\ seen \in Specs]_vars
    <2>1. CASE PassSucceeds
      BY <1>1, <2>1 DEF PassSucceeds, SpecHistory
    <2>2. CASE Crash
      BY <1>1, <2>2, BoundAssumption DEF Crash, TypeOK
    <2>3. CASE ~PassSucceeds /\ ~Crash
      <3>1. ready' = ready
        BY <1>1, <2>3 DEF Next, vars, health, EditConfigMap, List, HandlerSet,
           HandlerNotify, Started, TakeTrigger, TimerFires, Stop, BeginPass,
           SkipPass, PassFails, Cancel
      <3> QED
        BY <3>1
    <2> QED
      BY <2>1, <2>2, <2>3
  <1> QED
    BY <1>1, TypeCorrect, SpecHistoryInductive, PTL DEF Spec, ReadyLatch

\* What the loop last read is the latest content, unless a newer one waits.
Caught == ~unread => seen = latest

LEMMA CaughtInductive == Spec => []Caught
  <1>1. Init => Caught
    BY DEF Init, FreshProcess, Caught
  <1>2. ASSUME Caught, [Next]_vars
        PROVE  Caught'
    BY <1>2 DEF Caught, Next, vars, EditConfigMap, List, HandlerSet, HandlerNotify,
       Started, TakeTrigger, TimerFires, Stop, BeginPass, SkipPass, PassSucceeds,
       PassFails, Cancel, Crash
  <1> QED
    BY <1>1, <1>2, PTL DEF Spec

\* The last element of a sequence that grows at its end and loses its head.
LEMMA LastOfAppend ==
    ASSUME NEW S, NEW s \in Seq(S), NEW c \in S
    PROVE  /\ Append(s, c) # <<>>
           /\ Append(s, c)[Len(Append(s, c))] = c
  BY AppendProperties

LEMMA LastOfTail ==
    ASSUME NEW S, NEW s \in Seq(S), s # <<>>
    PROVE  /\ Tail(s) = <<>> => s[Len(s)] = Head(s)
           /\ Tail(s) # <<>> => Tail(s)[Len(Tail(s))] = s[Len(s)]
  <1>1. /\ Len(s) \in Nat \ {0}
        /\ Head(s) = s[1]
        /\ Len(Tail(s)) = Len(s) - 1
        /\ \A i \in 1..Len(Tail(s)) : Tail(s)[i] = s[i + 1]
    BY HeadTailProperties, EmptySeq
  <1>2. ASSUME Tail(s) = <<>>
        PROVE  Len(s) = 1
    <2>1. Len(Tail(s)) = 0
      BY <1>2, EmptySeq
    <2>2. Len(s) - 1 = 0
      BY <1>1, <2>1, Zenon
    <2>3. Len(s) \in Nat
      BY <1>1
    <2> QED
      BY <2>2, <2>3
  <1>3. Tail(s) # <<>> => Len(Tail(s)) # 0
    BY HeadTailProperties, EmptySeq
  <1> QED
    BY <1>1, <1>2, <1>3

\* What the handler will have stored once it has been given everything that was
\* announced, and what the informer owes: the strengthening of RestIsConverged
\* on the side of the informer.
Newest == IF events = <<>> THEN latest ELSE events[Len(events)]

InformerHistory ==
    /\ cachedAt <= edits
    /\ synced /\ cachedAt = edits => cached = cm
    /\ Newest = cached

LEMMA InformerHistoryInductive == Spec => []InformerHistory
  <1> USE DEF InformerHistory, Newest
  <1>1. Init => InformerHistory
    BY DEF Init, FreshProcess
  <1>2. ASSUME TypeOK, InformerHistory, [Next]_vars
        PROVE  InformerHistory'
    <2> USE <1>2
    <2>1. ASSUME NEW c \in Contents, EditConfigMap(c)
          PROVE  InformerHistory'
      BY <2>1, BoundAssumption DEF EditConfigMap, informer, TypeOK
    <2>2. CASE List
      <3>1. cachedAt' <= edits'
        BY <2>2, BoundAssumption DEF List, cluster, TypeOK
      <3>2. events \in Seq(Contents) /\ cm \in Contents
        BY DEF TypeOK
      <3> QED
        BY <2>2, <3>1, <3>2, LastOfAppend DEF List, cluster
    <2>3. CASE HandlerSet
      <3>1. events \in Seq(Contents) /\ events # <<>>
        BY <2>3 DEF HandlerSet, TypeOK
      <3> QED
        BY <2>3, <3>1, LastOfTail DEF HandlerSet, cluster
    <2>4. CASE Crash
      BY <2>4, BoundAssumption DEF Crash, cluster, TypeOK
    <2>5. CASE HandlerNotify \/ Started \/ TakeTrigger \/ TimerFires \/ Stop
      BY <2>5 DEF HandlerNotify, Started, TakeTrigger, TimerFires, Stop, cluster, informer
    <2>6. CASE BeginPass \/ SkipPass \/ PassSucceeds \/ PassFails \/ Cancel
      BY <2>6 DEF BeginPass, SkipPass, PassSucceeds, PassFails, Cancel, cluster, informer
    <2>7. CASE UNCHANGED vars
      BY <2>7 DEF vars
    <2> QED
      BY <2>1, <2>2, <2>3, <2>4, <2>5, <2>6, <2>7 DEF Next
  <1> QED
    BY <1>1, <1>2, TypeCorrect, PTL DEF Spec

\* With nothing on its way, what the loop last read is the ConfigMap and what
\* it last applied is its spec: the informer owes nothing, the handler stored
\* the newest content, no wakeup was lost, and the baselines follow the read.
THEOREM RestMeansConverged == Spec => []RestIsConverged
  <1>1. InformerHistory /\ NoLostWakeup /\ Caught /\ SpecHistory => RestIsConverged
    <2> SUFFICES ASSUME InformerHistory, NoLostWakeup, Caught, SpecHistory,
                        synced, cachedAt = edits, events = <<>>,
                        hpc = "idle", ~trigger, pc = "wait"
                 PROVE  /\ seen = cm
                        /\ cm \in Specs /\ ~lastError => applied = cm
                        /\ cm \notin Specs => applied = Nil
      BY DEF RestIsConverged
    <2>1. latest = cm
      BY DEF InformerHistory, Newest
    <2>2. seen = latest
      BY DEF NoLostWakeup, Caught
    <2> QED
      BY <2>1, <2>2 DEF SpecHistory
  <1> QED
    BY <1>1, InformerHistoryInductive, StoredEditIsNotForgotten, CaughtInductive,
       SpecHistoryInductive, PTL

\* Every behaviour of the runner is one of the newest-wins mailbox: each step
\* publishes, takes, resets or closes, or is invisible to it.
THEOREM RunnerImplementsMailbox == Spec => Mailbox!Safety
  <1>1. Init => Mailbox!Init
    BY DEF Init, FreshProcess, Mailbox!Init
  <1>2. ASSUME TypeOK, Caught, [Next]_vars
        PROVE  [Mailbox!Next]_(Mailbox!vars)
    <2> USE <1>2 DEF Mailbox!vars
    <2>1. CASE HandlerSet
      <3>1. Head(events) \in Contents
        BY <2>1 DEF HandlerSet, TypeOK
      <3>2. Mailbox!Publish(Head(events))
        BY <2>1 DEF HandlerSet, Mailbox!Publish
      <3> QED
        BY <3>1, <3>2 DEF Mailbox!Next
    <2>2. CASE BeginPass \/ SkipPass
      <3>1. CASE unread
        BY <2>2, <3>1 DEF BeginPass, SkipPass, Mailbox!Take, Mailbox!Next
      <3>2. CASE ~unread
        BY <2>2, <3>2 DEF BeginPass, SkipPass, Caught, TypeOK
      <3> QED
        BY <3>1, <3>2
    <2>3. CASE Cancel
      BY <2>3 DEF Cancel, Mailbox!Close, Mailbox!Next
    <2>4. CASE Crash
      BY <2>4 DEF Crash, Mailbox!Reset, Mailbox!Next
    <2>5. ASSUME NEW c \in Contents, EditConfigMap(c)
          PROVE  UNCHANGED Mailbox!vars
      BY <2>5 DEF EditConfigMap
    <2>6. CASE List \/ HandlerNotify
      BY <2>6 DEF List, HandlerNotify
    <2>7. CASE Started \/ TakeTrigger \/ TimerFires \/ Stop \/ PassSucceeds \/ PassFails
      BY <2>7 DEF Started, TakeTrigger, TimerFires, Stop, PassSucceeds, PassFails
    <2>8. CASE UNCHANGED vars
      BY <2>8 DEF vars
    <2> QED
      BY <2>1, <2>2, <2>3, <2>4, <2>5, <2>6, <2>7, <2>8 DEF Next
  <1> QED
    BY <1>1, <1>2, TypeCorrect, CaughtInductive, PTL DEF Spec, Mailbox!Safety
=============================================================================
