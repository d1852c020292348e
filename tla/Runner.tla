------------------------------- MODULE Runner -------------------------------
(***************************************************************************)
(* The reconcile loop of internal/reconcile/runner.go and the informer     *)
(* that feeds it (internal/k8s/informer.go).  Three actors share one       *)
(* mutex-protected content and a channel of capacity one:                  *)
(*                                                                         *)
(*   API server -> informer -> handler goroutine --set--> latest           *)
(*                                    |                      |             *)
(*                                    +--notify--> trigger --+--> loop     *)
(*                                                                         *)
(* set and notify are two steps, and the loop's select, its read of the    *)
(* content and its pass are three, so every interleaving of an edit with a *)
(* pass is a behaviour.  A pass itself is one long step here (its inside   *)
(* is in EngineConfig and Reconcile) that ends well or with an error.      *)
(***************************************************************************)
EXTENDS Naturals, Sequences, FiniteSets

CONSTANTS Entries,      \* keys of config.Diff: catalog, mount, role, ... entries
          Values,       \* what an entry may be set to
          NoEntry,      \* the entry is not in the spec
          Empty,        \* the data key is missing or blank
          Invalid,      \* config.Parse refuses the document
          Absent,       \* there is no ConfigMap
          Nil,          \* a nil *config.Spec
          MaxEdits,     \* bound: edits of the ConfigMap
          MaxCrashes    \* bound: restarts of the process

\* A document that Parse accepts, as the set of its entries.
Specs == [Entries -> Values \cup {NoEntry}]
Contents == Specs \cup {Empty, Invalid, Absent}

ASSUME SentinelAssumption ==
    /\ NoEntry \notin Values
    /\ {Empty, Invalid, Absent, Nil} \cap Specs = {}
    /\ Nil \notin {Empty, Invalid, Absent}
ASSUME BoundAssumption == MaxEdits \in Nat /\ MaxCrashes \in Nat

VARIABLES
    cm,         \* the ConfigMap in the API server
    edits,      \* its resourceVersion: how often it was written
    cached,     \* what the informer's store holds
    cachedAt,   \* the resourceVersion the informer has caught up with
    synced,     \* the informer's first list is in the store
    events,     \* notifications the handler has not been given yet
    hpc,        \* the handler goroutine: between events, or between set and notify
    latest,     \* ru.raw and ru.present, always written together under ru.mu
    trigger,    \* the trigger channel holds its one element
    pc,         \* the loop: starting, wait (in select), read, pass, stopped
    passSpec,   \* the local variable spec of the pass
    applied,    \* the last spec that reconciled cleanly
    counted,    \* the last spec observed at all
    tally,      \* the changes the latest logChanges added to the metric
    ready,      \* health.State.ready
    lastError,  \* health.State.lastError is set
    cancelled,  \* ctx is done
    crashes,    \* restarts so far
    unread,     \* history: latest was written after the loop last read it
    seen        \* history: what the loop last read from latest

cluster == <<cm, edits>>
informer == <<cached, cachedAt, synced, events>>
health == <<ready, lastError>>
loop == <<pc, passSpec, applied, counted, tally>>
vars == <<cm, edits, cached, cachedAt, synced, events, hpc, latest, trigger,
          pc, passSpec, applied, counted, tally, ready, lastError, cancelled,
          crashes, unread, seen>>

(***************************************************************************)
(* config.Diff: the changes between two specs, as pairs of an entry and an *)
(* action.  A nil old spec is the spec with no entries.                    *)
(***************************************************************************)
Base(old) == IF old = Nil THEN [e \in Entries |-> NoEntry] ELSE old

Action(before, after) == CASE before = NoEntry -> "added"
                           [] after = NoEntry  -> "removed"
                           [] OTHER            -> "changed"

Diff(old, new) ==
    { <<e, Action(Base(old)[e], new[e])>> :
        e \in { x \in Entries : Base(old)[x] # new[x] } }

\* logChanges names Diff(applied, new) and counts the part of it that is also
\* in Diff(counted, new).
CountedChanges(old, last, new) == Diff(old, new) \cap Diff(last, new)

(***************************************************************************)
(* State                                                                   *)
(***************************************************************************)
TypeOK ==
    /\ cm \in Contents
    /\ edits \in 0..MaxEdits
    /\ cached \in Contents
    /\ cachedAt \in 0..MaxEdits
    /\ synced \in BOOLEAN
    /\ events \in Seq(Contents)
    /\ hpc \in {"idle", "notify"}
    /\ latest \in Contents
    /\ trigger \in BOOLEAN
    /\ pc \in {"starting", "wait", "read", "pass", "stopped"}
    /\ passSpec \in Specs \cup {Nil}
    /\ applied \in Specs \cup {Nil}
    /\ counted \in Specs \cup {Nil}
    /\ tally \in SUBSET (Entries \X {"added", "removed", "changed"})
    /\ ready \in BOOLEAN
    /\ lastError \in BOOLEAN
    /\ cancelled \in BOOLEAN
    /\ crashes \in 0..MaxCrashes
    /\ unread \in BOOLEAN
    /\ seen \in Contents

\* NewRunner, and what Run sets up before its loop.
FreshProcess ==
    /\ cached = Absent
    /\ cachedAt = 0
    /\ synced = FALSE
    /\ events = <<>>
    /\ hpc = "idle"
    /\ latest = Absent
    /\ trigger = FALSE
    /\ pc = "starting"
    /\ passSpec = Nil
    /\ applied = Nil
    /\ counted = Nil
    /\ tally = {}
    /\ ready = FALSE
    /\ lastError = FALSE
    /\ unread = FALSE
    /\ seen = Absent

Init ==
    /\ cm \in Contents
    /\ edits = 0
    /\ cancelled = FALSE
    /\ crashes = 0
    /\ FreshProcess

(***************************************************************************)
(* The cluster and the informer                                            *)
(***************************************************************************)

\* An operator, or a templating tool, writes or deletes the ConfigMap.  A
\* write need not change the data: annotations bump the version too.
EditConfigMap(c) ==
    /\ edits < MaxEdits
    /\ c = Absent => cm # Absent
    /\ cm' = c
    /\ edits' = edits + 1
    /\ UNCHANGED <<informer, hpc, latest, trigger, loop, health, cancelled,
                   crashes, unread, seen>>

\* Mutant: no DeleteFunc is registered, so a deletion goes unnoticed.
ListMissingDeletes ==
    /\ ~synced \/ cachedAt # edits
    /\ synced' = TRUE
    /\ cached' = cm
    /\ cachedAt' = edits
    /\ events' = IF cm = Absent THEN events ELSE Append(events, cm)
    /\ UNCHANGED <<cluster, hpc, latest, trigger, loop, health, cancelled,
                   crashes, unread, seen>>

\* The informer's list: at start, and again after a watch broke.  It sees the
\* ConfigMap of now and none of the contents in between, and it notifies only
\* when the object is not the one in its store.
List ==
    /\ ~synced \/ cachedAt # edits
    /\ synced' = TRUE
    /\ cached' = cm
    /\ cachedAt' = edits
    /\ events' = IF cm = Absent /\ cached = Absent THEN events
                                                   ELSE Append(events, cm)
    /\ UNCHANGED <<cluster, hpc, latest, trigger, loop, health, cancelled,
                   crashes, unread, seen>>

\* Mutant: the handler stores the content and forgets to notify.
HandlerSetOnly ==
    /\ hpc = "idle"
    /\ events # <<>>
    /\ latest' = Head(events)
    /\ events' = Tail(events)
    /\ unread' = TRUE
    /\ UNCHANGED <<cluster, cached, cachedAt, synced, hpc, trigger, loop,
                   health, cancelled, crashes, seen>>

\* OnChange and OnDelete, first half: ru.set under ru.mu.
HandlerSet ==
    /\ hpc = "idle"
    /\ events # <<>>
    /\ latest' = Head(events)
    /\ events' = Tail(events)
    /\ hpc' = "notify"
    /\ unread' = TRUE
    /\ UNCHANGED <<cluster, cached, cachedAt, synced, trigger, loop, health,
                   cancelled, crashes, seen>>

\* Second half: ru.notify, whose send is dropped when one is pending.
HandlerNotify ==
    /\ hpc = "notify"
    /\ trigger' = TRUE
    /\ hpc' = "idle"
    /\ UNCHANGED <<cluster, informer, latest, loop, health, cancelled, crashes,
                   unread, seen>>

(***************************************************************************)
(* The loop                                                                *)
(***************************************************************************)

\* WatchConfigMap returns once the informer's cache has synced.
Started ==
    /\ pc = "starting"
    /\ synced
    /\ pc' = "wait"
    /\ UNCHANGED <<cluster, informer, hpc, latest, trigger, passSpec, applied,
                   counted, tally, health, cancelled, crashes, unread, seen>>

\* The select of Run: ctx.Done, the trigger and the timer.
TakeTrigger ==
    /\ pc = "wait"
    /\ trigger
    /\ trigger' = FALSE
    /\ pc' = "read"
    /\ UNCHANGED <<cluster, informer, hpc, latest, passSpec, applied, counted,
                   tally, health, cancelled, crashes, unread, seen>>

\* Mutant: the timer is not reset after a pass.
TimerNeverRearmed == FALSE /\ UNCHANGED vars

TimerFires ==
    /\ pc = "wait"
    /\ pc' = "read"
    /\ UNCHANGED <<cluster, informer, hpc, latest, trigger, passSpec, applied,
                   counted, tally, health, cancelled, crashes, unread, seen>>

\* ctx is done: the select returns, or WatchConfigMap gives up waiting.
Stop ==
    /\ cancelled
    /\ pc \in {"wait", "starting"}
    /\ pc' = "stopped"
    /\ UNCHANGED <<cluster, informer, hpc, latest, trigger, passSpec, applied,
                   counted, tally, health, cancelled, crashes, unread, seen>>

\* currentSpec: only a ConfigMap that exists, is not blank and parses is ok.
Usable(content) == content \in Specs

\* currentSpec is ok: log and count the changes, remember the spec, reconcile.
BeginPass ==
    /\ pc = "read"
    /\ Usable(latest)
    /\ seen' = latest
    /\ unread' = FALSE
    /\ passSpec' = latest
    /\ tally' = CountedChanges(applied, counted, latest)
    /\ counted' = latest
    /\ pc' = "pass"
    /\ UNCHANGED <<cluster, informer, hpc, latest, trigger, applied, health,
                   cancelled, crashes>>

\* A pass that is not made, with what it does to the two baselines, the gate
\* and the program counter left open (shared by the mutants of SkipPass).
Skipping(baseline, gate, next) ==
    /\ pc = "read"
    /\ ~Usable(latest)
    /\ seen' = latest
    /\ unread' = FALSE
    /\ applied' = baseline
    /\ counted' = baseline
    /\ ready' = gate
    /\ pc' = next
    /\ tally' = {}
    /\ UNCHANGED <<cluster, informer, hpc, latest, trigger, passSpec, lastError,
                   cancelled, crashes>>

\* Mutants: a skip keeps the document it refused as the observed spec; keeps
\* the baselines; reconciles the last good spec.
SkipKeepsDocument == Skipping(latest, ready, "wait")
SkipKeepsBaselines == Skipping(counted, ready, "wait")
SkipReusesLastSpec == Skipping(counted, ready, "pass")

\* currentSpec is not ok: forget the specs, record the skip, wait again.
SkipPass ==
    /\ pc = "read"
    /\ ~Usable(latest)
    /\ seen' = latest
    /\ unread' = FALSE
    /\ passSpec' = Nil
    /\ applied' = Nil
    /\ counted' = Nil
    /\ tally' = {}
    /\ pc' = "wait"
    /\ UNCHANGED <<cluster, informer, hpc, latest, trigger, health, cancelled,
                   crashes>>

\* Reconcile returned nil: ReconcileDone(nil) opens the readiness gate.
PassSucceeds ==
    /\ pc = "pass"
    /\ applied' = passSpec
    /\ ready' = TRUE
    /\ lastError' = FALSE
    /\ pc' = "wait"
    /\ UNCHANGED <<cluster, informer, hpc, latest, trigger, passSpec, counted,
                   tally, cancelled, crashes, unread, seen>>

\* Mutant: Run returns the error of a failed pass.
PassFailsForGood ==
    /\ pc = "pass"
    /\ lastError' = TRUE
    /\ pc' = "stopped"
    /\ UNCHANGED <<cluster, informer, hpc, latest, trigger, passSpec, applied,
                   counted, tally, ready, cancelled, crashes, unread, seen>>

\* Reconcile returned an error: recorded, never unreadies.
PassFails ==
    /\ pc = "pass"
    /\ lastError' = TRUE
    /\ pc' = "wait"
    /\ UNCHANGED <<cluster, informer, hpc, latest, trigger, passSpec, applied,
                   counted, tally, ready, cancelled, crashes, unread, seen>>

\* SIGTERM: serve's context is cancelled.
Cancel ==
    /\ ~cancelled
    /\ cancelled' = TRUE
    /\ UNCHANGED <<cluster, informer, hpc, latest, trigger, loop, health,
                   crashes, unread, seen>>

\* The process dies, by a failed liveness probe or otherwise, and the kubelet
\* starts it again: everything but the cluster's state is lost.
Crash ==
    /\ crashes < MaxCrashes
    /\ ~cancelled
    /\ crashes' = crashes + 1
    /\ cached' = Absent
    /\ cachedAt' = 0
    /\ synced' = FALSE
    /\ events' = <<>>
    /\ hpc' = "idle"
    /\ latest' = Absent
    /\ trigger' = FALSE
    /\ pc' = "starting"
    /\ passSpec' = Nil
    /\ applied' = Nil
    /\ counted' = Nil
    /\ tally' = {}
    /\ ready' = FALSE
    /\ lastError' = FALSE
    /\ unread' = FALSE
    /\ seen' = Absent
    /\ UNCHANGED <<cluster, cancelled>>

Handler == HandlerSet \/ HandlerNotify
Loop == TakeTrigger \/ TimerFires \/ Stop \/ Started \/ BeginPass \/ SkipPass
PassEnds == PassSucceeds \/ PassFails

Next ==
    \/ \E c \in Contents : EditConfigMap(c)
    \/ List
    \/ HandlerSet
    \/ HandlerNotify
    \/ Started
    \/ TakeTrigger
    \/ TimerFires
    \/ Stop
    \/ BeginPass
    \/ SkipPass
    \/ PassSucceeds
    \/ PassFails
    \/ Cancel
    \/ Crash

Spec == Init /\ [][Next]_vars

(***************************************************************************)
(* Fairness: client-go keeps relisting, Go's scheduler runs the handler    *)
(* and the loop, the timer is armed whenever the loop waits, and a pass    *)
(* ends.  The last one is what the stall watchdog enforces: a pass that    *)
(* does not end fails the liveness probe and the process is restarted.     *)
(***************************************************************************)
Fairness ==
    /\ WF_vars(List)
    /\ WF_vars(Handler)
    /\ WF_vars(Loop)
    /\ WF_vars(PassEnds)
FairSpec == Spec /\ Fairness

(***************************************************************************)
(* Safety                                                                  *)
(***************************************************************************)

\* An edit the handler has stored is never forgotten: until the loop reads
\* it, the trigger is pending, or about to be, or the loop is on its way to
\* the read.  This is what the order set-then-notify, the capacity of one and
\* the read after the receive achieve together, for an edit at any moment of
\* a pass.
NoLostWakeup ==
    unread => \/ trigger
              \/ hpc = "notify"
              \/ pc \in {"read", "stopped"}

\* When nothing is on its way any more, neither from the API server nor to the
\* loop, the loop has read the ConfigMap there is, and what it last applied is
\* that, or nothing if that is no spec or its passes fail: an edit cannot get
\* lost between the informer, the handler and a pass without a trace.
RestIsConverged ==
    /\ synced /\ cachedAt = edits /\ events = <<>>
    /\ hpc = "idle" /\ ~trigger /\ pc = "wait"
    => /\ seen = cm
       /\ cm \in Specs /\ ~lastError => applied = cm
       /\ cm \notin Specs => applied = Nil

\* An absent, blank or invalid ConfigMap is never reconciled, whatever was
\* reconciled before it: a pass works on exactly the content the loop last
\* read, so an accident in the ConfigMap cannot become a full prune.
NeverReconcilesAccident ==
    pc = "pass" => /\ seen \in Specs
                   /\ passSpec = seen
                   /\ counted = seen

\* Between passes the change log's baselines match what was read: a skipped
\* pass forgets both, an observed spec is the counted one, and the applied
\* spec is a success that no skip has voided and that opened the gate.
BaselinesMatch ==
    pc = "wait" => /\ (counted = Nil) <=> (seen \notin Specs)
                   /\ counted # Nil => counted = seen
                   /\ applied # Nil => counted # Nil /\ ready
                   /\ (~lastError /\ counted # Nil) => applied = counted

\* Retrying a spec, failed or not, never counts a change again
\* (configmap_changes_total does not grow with the retries).
RetryCountsNothing ==
    [][BeginPass /\ counted = latest => tally' = {}]_vars

\* Readiness is a latch of this process: once a pass succeeded no failing or
\* skipped pass closes it, and before that no number of them opens it.
ReadyLatch ==
    [][/\ ready /\ ~ready' => crashes' # crashes
       /\ ~ready /\ ready' => applied' = seen /\ seen \in Specs]_vars

(***************************************************************************)
(* The runner implements the mailbox                                       *)
(***************************************************************************)
Mailbox == INSTANCE LatestWins
    WITH Initial <- Absent, fresh <- unread, taken <- seen,
         closed <- cancelled

\* Whatever the interleaving, the loop takes contents as from a mailbox in
\* which the newest replaces the older, and never leaves a fresh one untaken.
ImplementsMailbox == Mailbox!Spec

(***************************************************************************)
(* Liveness                                                                *)
(***************************************************************************)

\* Once the ConfigMap stops changing the loop gets to see its content, through
\* lost intermediate events, coalesced triggers and restarts; and until it is
\* cancelled it keeps coming back to read it, whatever the passes end in.
LastContentIsReread ==
    \A c \in Contents :
        <>[](cm = c) => /\ <>[](cancelled \/ seen = c)
                        /\ []<>(cancelled \/ (pc = "read" /\ latest = c))

\* Vault and the cluster recover: passes that keep being made do not all fail.
PassesRecover == []<><<PassFails>>_vars => []<><<PassSucceeds>>_vars

\* If passes do not fail for ever the last spec is eventually applied, though
\* no further event announces it: the timer retries a failed pass.
LastSpecApplied ==
    \A s \in Specs :
        <>[](cm = s) /\ PassesRecover => <>[](cancelled \/ applied = s)
=============================================================================
