------------------------------- MODULE Health -------------------------------
(***************************************************************************)
(* The health probes (internal/health/health.go) in time, with the three   *)
(* that report to them:                                                    *)
(*                                                                         *)
(*   runner.go    the loop, which declares before each wait and each pass  *)
(*                when its next signal is due                              *)
(*   client.go    the Vault client's login and renewal                     *)
(*   informer.go  the ConfigMap watch, whose failures and events arrive on *)
(*                goroutines of client-go                                  *)
(*                                                                         *)
(* Every call into health.State is one step under its mutex, so any order  *)
(* of the three is a behaviour; the calls the loop makes in a row before a *)
(* pass touch different clocks and are one step.  A pass may take for      *)
(* ever.  Time is discrete; it does not run past a timer that is due.      *)
(***************************************************************************)
EXTENDS Integers

CONSTANTS Settings,      \* the settings a ConfigMap may hold, as Parse returns them
          Defaults,      \* the settings in effect before the first usable one
          StartupGrace,  \* serve.go: startupGrace
          LoginBudget,   \* client.go: initialLoginBudget
          RetryCycle,    \* health.go: watchRetryCycle
          Backoff,       \* client-go retries a broken watch at least this often
          MaxTime        \* bound: the clock

Never == -1
Time == 0..MaxTime

\* Validate: durations are positive, and liveness outlasts readiness.
Durations == 1..MaxTime
SettingsShapes == [resync : Durations, stall : Durations, tokenGrace : Durations,
                   tokenFail : Durations, watchGrace : Durations]
Validated(s) == s \in SettingsShapes /\ s.tokenGrace <= s.tokenFail

ASSUME SettingsAssumption == \A s \in Settings \cup {Defaults} : Validated(s)
ASSUME TimeAssumption ==
    /\ MaxTime \in Nat
    /\ {StartupGrace, LoginBudget, RetryCycle, Backoff} \subseteq Durations

VARIABLES
    now,
    \* health.State
    deadline,        \* liveness fails once now passes this
    ready,           \* the startup gate
    tokenValid,
    tokenInvalidAt,  \* when the token first went invalid
    windows,         \* tokenGrace, tokenFailAfter and watchGrace
    watcherCheck,    \* the informer can be interrogated
    watchErrorAt,    \* when the watch first started failing
    watchLastErr,    \* when it most recently failed
    \* the runner
    pc,              \* login, sync, wait, pass, exited
    settings,        \* its resync and stall, with the rest of the same settings
    timerAt,         \* when its timer fires
    \* the Vault client
    auth,            \* first, renew, login
    \* the informer
    watch,           \* ok, broken, stopped
    \* histories
    began,           \* when the pass started
    outage,          \* the first failed login since the token was last good
    broke,           \* the first failure of this watch outage no event cleared
    burst,           \* the first of the failures that no retry cycle separates
    lastFail         \* the last failure of the watch

probes == <<deadline, ready, tokenValid, tokenInvalidAt, windows, watcherCheck,
            watchErrorAt, watchLastErr>>
token == <<tokenValid, tokenInvalidAt, outage>>
watching == <<watchErrorAt, watchLastErr, broke, burst, lastFail>>
loop == <<pc, settings, timerAt, began>>
vars == <<now, deadline, ready, tokenValid, tokenInvalidAt, windows, watcherCheck,
          watchErrorAt, watchLastErr, pc, settings, timerAt, auth, watch, began,
          outage, broke, burst, lastFail>>

Windows == [tokenGrace : Durations, tokenFail : Durations, watchGrace : Durations]
WindowsOf(s) == [tokenGrace |-> s.tokenGrace, tokenFail |-> s.tokenFail,
                 watchGrace |-> s.watchGrace]

TypeOK ==
    /\ now \in Time
    /\ deadline \in 0..3 * MaxTime
    /\ ready \in BOOLEAN
    /\ tokenValid \in BOOLEAN
    /\ tokenInvalidAt \in Time \cup {Never}
    /\ ~tokenValid => tokenInvalidAt # Never
    /\ windows \in Windows
    /\ watcherCheck \in BOOLEAN
    /\ watchErrorAt \in Time \cup {Never}
    /\ watchLastErr \in Time \cup {Never}
    /\ pc \in {"login", "sync", "wait", "pass", "exited"}
    /\ settings \in Settings \cup {Defaults}
    /\ timerAt \in 0..2 * MaxTime
    /\ auth \in {"first", "renew", "login"}
    /\ watch \in {"ok", "broken", "stopped"}
    /\ began \in Time
    /\ {outage, broke, burst, lastFail} \subseteq Time \cup {Never}

\* health.New, with the clock of the first token and the rest of the process.
Starting(invalidAt) ==
    /\ now = 0
    /\ deadline = StartupGrace
    /\ ready = FALSE
    /\ tokenValid = FALSE
    /\ tokenInvalidAt = invalidAt
    /\ windows = WindowsOf(Defaults)
    /\ watcherCheck = FALSE
    /\ watchErrorAt = Never /\ watchLastErr = Never
    /\ pc = "login"
    /\ settings = Defaults
    /\ timerAt = 0
    /\ auth = "first"
    /\ watch = "ok"
    /\ began = 0
    /\ outage = 0
    /\ broke = Never /\ burst = Never /\ lastFail = Never

\* Mutant: the clock is started by the first failed login only.
InitWithoutClock == Starting(Never)

\* The clock on the first token starts with the process.
Init == Starting(0)

Running == pc # "exited"

\* A timer that is due fires first: the loop's, and client-go's next retry.
Tick ==
    /\ Running
    /\ now < MaxTime
    /\ pc = "wait" => now < timerAt
    /\ watch = "broken" => now < lastFail + Backoff
    /\ now' = now + 1
    /\ UNCHANGED <<probes, loop, auth, watch, outage, broke, burst, lastFail>>

(***************************************************************************)
(* The Vault client                                                        *)
(***************************************************************************)
TokenValid ==
    /\ tokenValid' = TRUE
    /\ tokenInvalidAt' = Never
    /\ outage' = Never

\* The first failure starts the clock.
\* Mutant: every failure does.
ClockRestarts == TRUE
ClockStarts == tokenValid \/ tokenInvalidAt = Never
TokenInvalid ==
    /\ tokenInvalidAt' = IF ClockStarts THEN now ELSE tokenInvalidAt
    /\ tokenValid' = FALSE
    /\ outage' = IF outage = Never THEN now ELSE outage

AuthOnly == UNCHANGED <<now, deadline, ready, windows, watcherCheck, settings, timerAt,
                        watch, began, watching>>

\* initialLogin: until it succeeds Run does not get further.
FirstLoginSucceeds ==
    /\ pc = "login"
    /\ TokenValid
    /\ auth' = "renew"
    /\ pc' = "sync"
    /\ AuthOnly

\* A failure past the budget ends the process.
FirstLoginFails ==
    /\ pc = "login"
    /\ TokenInvalid
    /\ pc' = IF now > LoginBudget THEN "exited" ELSE "login"
    /\ UNCHANGED auth
    /\ AuthOnly

\* watch: a renewal.
Renewed ==
    /\ Running
    /\ auth = "renew"
    /\ TokenValid
    /\ UNCHANGED <<auth, pc>>
    /\ AuthOnly

\* The renewals stopped, or a token that cannot be renewed comes to its end:
\* the observer learns nothing before the next login.
RenewalEnds ==
    /\ Running
    /\ auth = "renew"
    /\ auth' = "login"
    /\ UNCHANGED <<pc, token>>
    /\ AuthOnly

\* The lifetime watcher cannot be started.
NoLifetimeWatcher ==
    /\ Running
    /\ auth = "renew"
    /\ TokenInvalid
    /\ auth' = "login"
    /\ UNCHANGED pc
    /\ AuthOnly

\* loginWithRetry.
LoginSucceeds ==
    /\ Running
    /\ auth = "login"
    /\ TokenValid
    /\ auth' = "renew"
    /\ UNCHANGED pc
    /\ AuthOnly

LoginFails ==
    /\ Running
    /\ auth = "login"
    /\ TokenInvalid
    /\ UNCHANGED <<auth, pc>>
    /\ AuthOnly

(***************************************************************************)
(* The loop                                                                *)
(***************************************************************************)
Heartbeat(d) == deadline' = now + d

LoopOnly == UNCHANGED <<now, token, auth, watch, watching>>

\* WatchConfigMap returned: the informer can be asked, and the loop waits.
Started ==
    /\ pc = "sync"
    /\ watcherCheck' = TRUE
    /\ Heartbeat(settings.resync + settings.stall)
    /\ timerAt' = now + settings.resync
    /\ pc' = "wait"
    /\ UNCHANGED <<ready, windows, settings, began>>
    /\ LoopOnly

\* Mutant: the deadline of a pass comes from the settings of the last one.
BeginPassThenRead(s) ==
    /\ pc = "wait"
    /\ settings' = s
    /\ windows' = WindowsOf(s)
    /\ Heartbeat(settings.stall)
    /\ began' = now
    /\ pc' = "pass"
    /\ UNCHANGED <<ready, watcherCheck, timerAt>>
    /\ LoopOnly

\* Mutant: one of the two token windows is replaced.
BeginPassHalf(s) ==
    /\ pc = "wait"
    /\ settings' = s
    /\ windows' = [WindowsOf(s) EXCEPT !.tokenGrace = windows.tokenGrace]
    /\ Heartbeat(settings'.stall)
    /\ began' = now
    /\ pc' = "pass"
    /\ UNCHANGED <<ready, watcherCheck, timerAt>>
    /\ LoopOnly

\* A trigger, or the timer: the settings are read, then the deadline declared.
BeginPass(s) ==
    /\ pc = "wait"
    /\ settings' = s
    /\ windows' = WindowsOf(s)
    /\ Heartbeat(settings'.stall)
    /\ began' = now
    /\ pc' = "pass"
    /\ UNCHANGED <<ready, watcherCheck, timerAt>>
    /\ LoopOnly

\* The ConfigMap is unusable: the pass is over at once, the settings stay.
SkipPass ==
    /\ pc = "wait"
    /\ Heartbeat(settings.resync + settings.stall)
    /\ timerAt' = now + settings.resync
    /\ UNCHANGED <<ready, windows, watcherCheck, pc, settings, began>>
    /\ LoopOnly

\* ReconcileDone, with an error or without.
PassEnds(ok) ==
    /\ pc = "pass"
    /\ ready' = (ready \/ ok)
    /\ Heartbeat(settings.resync + settings.stall)
    /\ timerAt' = now + settings.resync
    /\ pc' = "wait"
    /\ UNCHANGED <<windows, watcherCheck, settings, began>>
    /\ LoopOnly

(***************************************************************************)
(* The watch                                                               *)
(***************************************************************************)

\* The silence that ends a failure episode.
\* Mutant: it is the grace, so that blips far apart are one outage.
QuietWindowOfGrace == windows.watchGrace
QuietWindow == IF RetryCycle < windows.watchGrace THEN RetryCycle
                                                  ELSE windows.watchGrace

\* Mutant: every failure starts the clock.
EpisodeRestarts == TRUE
NewEpisode ==
    \/ watchErrorAt = Never
    \/ watchLastErr # Never /\ now - watchLastErr > QuietWindow

WatchError ==
    /\ watchErrorAt' = IF NewEpisode THEN now ELSE watchErrorAt
    /\ watchLastErr' = now
    /\ broke' = IF broke = Never THEN now ELSE broke
    /\ burst' = IF burst = Never \/ now - lastFail > RetryCycle THEN now ELSE burst
    /\ lastFail' = now

WatchOnly == UNCHANGED <<now, deadline, ready, windows, watcherCheck, loop, token, auth>>

\* A failure that is not benign, in a watch that worked or in the next retry.
WatchFails ==
    /\ pc \in {"sync", "wait", "pass"}
    /\ watch # "stopped"
    /\ watch' = "broken"
    /\ WatchError
    /\ WatchOnly

\* The relist of an unchanged ConfigMap: nothing is delivered.
WatchRecovers ==
    /\ Running
    /\ watch = "broken"
    /\ watch' = "ok"
    /\ broke' = Never
    /\ UNCHANGED <<watchErrorAt, watchLastErr, burst, lastFail>>
    /\ WatchOnly

\* WatchHealthy: an event is delivered, which may be one from before the watch
\* broke that the handler gets to only now.
Delivered ==
    /\ pc \in {"sync", "wait", "pass"}
    /\ watchErrorAt' = Never
    /\ watchLastErr' = Never
    /\ broke' = Never
    /\ burst' = Never
    /\ UNCHANGED <<watch, lastFail>>
    /\ WatchOnly

\* The informer stops for good.
WatcherStops ==
    /\ pc \in {"sync", "wait", "pass"}
    /\ watch' = "stopped"
    /\ broke' = Never
    /\ UNCHANGED <<watchErrorAt, watchLastErr, burst, lastFail>>
    /\ WatchOnly

Next ==
    \/ Tick
    \/ FirstLoginSucceeds
    \/ FirstLoginFails
    \/ Renewed
    \/ RenewalEnds
    \/ NoLifetimeWatcher
    \/ LoginSucceeds
    \/ LoginFails
    \/ Started
    \/ \E s \in Settings : BeginPass(s)
    \/ SkipPass
    \/ \E ok \in BOOLEAN : PassEnds(ok)
    \/ WatchFails
    \/ WatchRecovers
    \/ Delivered
    \/ WatcherStops

Spec == Init /\ [][Next]_vars

(***************************************************************************)
(* The probes: snapshot                                                    *)
(***************************************************************************)
LoopLive == now <= deadline

TokenDown == now - tokenInvalidAt
TokenReady == tokenValid \/ TokenDown <= windows.tokenGrace
TokenLive == tokenValid \/ TokenDown <= windows.tokenFail

WatchFailing == watchErrorAt # Never /\ now - watchLastErr <= QuietWindow
WatchReady == ~WatchFailing \/ now - watchErrorAt <= windows.watchGrace

WatcherRunning == watcherCheck => watch # "stopped"

Live == LoopLive /\ TokenLive /\ WatcherRunning
Ready == ready /\ TokenReady /\ WatchReady /\ WatcherRunning

(***************************************************************************)
(* Safety                                                                  *)
(***************************************************************************)

\* The watchdog bites exactly when it should: a pass that is within the
\* stallTimeout of its own spec is spared, one past it is not, waiting is never
\* stalling, and starting up is within startupGrace.
WatchdogIsExact ==
    Running =>
        (LoopLive <=> CASE pc \in {"login", "sync"} -> now <= StartupGrace
                        [] pc = "pass"              -> now <= began + settings.stall
                        [] pc = "wait"              -> TRUE)

\* The token's clocks run from the first failure since the token was last
\* good, however often the login is retried meanwhile.
TokenOutageDecides ==
    /\ outage # Never /\ now - outage > windows.tokenFail => ~Live
    /\ outage # Never /\ now - outage > windows.tokenGrace => ~Ready
    /\ ~TokenLive => outage # Never /\ now - outage > windows.tokenFail

\* A lost token never restarts a pod that is still reported ready: readiness
\* goes no later than liveness, at the same moment if the windows are equal.
UnreadyBeforeRestarted == ~TokenLive => ~Ready

\* A watch that has been failing for longer than the grace unreadies the pod,
\* when no grace is shorter than the gap between two retries.
GracesCoverRetries ==
    /\ Backoff <= RetryCycle
    /\ \A s \in Settings \cup {Defaults} : Backoff <= s.watchGrace
LongOutage == watch = "broken" /\ broke # Never /\ now - broke > windows.watchGrace
WatchOutageIsReported == GracesCoverRetries /\ LongOutage => ~WatchReady

\* A watch unreadies the pod only for failures that go on: they began longer
\* than the grace ago, and no event and no retry cycle of silence was between.
WatchAlarmIsReal ==
    ~WatchReady => /\ burst # Never
                   /\ now - burst > windows.watchGrace
                   /\ now - lastFail <= RetryCycle

(***************************************************************************)
(* A statement of the documentation the code does not keep                 *)
(***************************************************************************)

\* health.go:164: the quiet window is never longer than the grace itself, "so
\* a short configured grace still decides readiness": a watch that has been
\* failing for longer than the grace the loop read before the outage unreadies
\* the pod.
ShortGraceDecides == LongOutage /\ began <= broke => ~WatchReady
=============================================================================
