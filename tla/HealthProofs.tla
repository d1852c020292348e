---------------------------- MODULE HealthProofs ----------------------------
(***************************************************************************)
(* Proofs about Health, for every set of valid settings, every grace,      *)
(* budget and retry interval, and any length of time; and about the        *)
(* documents of SpecSettings.                                              *)
(***************************************************************************)
EXTENDS SpecSettings, TLAPS

\* The deadline is the one that was declared last, and the loop's timer fires
\* before it.
DeadlineIsDeclared ==
    /\ pc \in {"login", "sync"} => deadline = StartupGrace
    /\ pc = "pass" => deadline = began + settings.stall
    /\ pc = "wait" => now <= timerAt /\ timerAt <= deadline

\* The token's clock stands at the first failure.
ClockIsOutage ==
    IF tokenValid THEN tokenInvalidAt = Never /\ outage = Never
                  ELSE outage = tokenInvalidAt

\* The windows the probes use all come from one ConfigMap.
WindowsAreSettings == windows = WindowsOf(settings)

\* The clock of the watch stands at one of the failures that no retry cycle
\* and no event separate from the last.
ClockIsBurst ==
    /\ watchErrorAt = Never <=> watchLastErr = Never
    /\ watchErrorAt # Never => /\ burst # Never
                               /\ burst <= watchErrorAt
                               /\ watchLastErr = lastFail

FailuresArePast ==
    /\ watchErrorAt <= now
    /\ burst <= now
    /\ lastFail <= now

\* While a watch is broken the next retry is never far, and an outage that no
\* event cleared lies within the episode on the clock.
EpisodeGoesOn ==
    /\ watch = "broken" => now <= lastFail + Backoff
    /\ broke # Never => /\ watch = "broken"
                        /\ watchErrorAt # Never
                        /\ watchErrorAt <= broke

LEMMA SettingsAreValid ==
    ASSUME NEW s \in Settings \cup {Defaults}
    PROVE  /\ s.resync \in Durations /\ s.stall \in Durations
           /\ s.tokenGrace \in Durations /\ s.tokenFail \in Durations
           /\ s.watchGrace \in Durations
           /\ s.tokenGrace <= s.tokenFail
           /\ WindowsOf(s) \in Windows
  BY SettingsAssumption DEF Validated, SettingsShapes, WindowsOf, Windows

\* Every variable keeps its type; a token that is not valid has a clock.
THEOREM TypeCorrect == Spec => []TypeOK
  <1>1. ASSUME Init
        PROVE  TypeOK
    <2>1. 0 \in Time /\ 0 \in 0..2 * MaxTime /\ StartupGrace \in 0..3 * MaxTime
      BY TimeAssumption DEF Time, Durations
    <2>2. WindowsOf(Defaults) \in Windows
      BY SettingsAreValid
    <2>3. /\ {outage, broke, burst, lastFail} \subseteq Time \cup {Never}
          /\ ~tokenValid => tokenInvalidAt # Never
      BY <1>1, <2>1 DEF Init, Starting, Never
    <2> QED
      BY <1>1, <2>1, <2>2, <2>3 DEF Init, Starting, TypeOK
  <1>2. ASSUME TypeOK, [Next]_vars
        PROVE  TypeOK'
    <2> USE <1>2, TimeAssumption
    <2>0. Never \notin Time
      BY DEF Never, Time
    <2>1. CASE Tick
      <3>1. now' \in Time
        BY <2>1 DEF Tick, TypeOK, Time
      <3> QED
        BY <2>1, <3>1 DEF Tick, TypeOK, probes, loop
    <2>2. ASSUME TokenInvalid \/ TokenValid
          PROVE  /\ tokenValid' \in BOOLEAN
                 /\ tokenInvalidAt' \in Time \cup {Never}
                 /\ outage' \in Time \cup {Never}
                 /\ ~tokenValid' => tokenInvalidAt' # Never
      BY <2>0, <2>2 DEF TokenInvalid, TokenValid, ClockStarts, TypeOK
    <2>3. CASE FirstLoginSucceeds \/ FirstLoginFails \/ Renewed \/ NoLifetimeWatcher
               \/ LoginSucceeds \/ LoginFails
      BY <2>2, <2>3 DEF FirstLoginSucceeds, FirstLoginFails, Renewed, NoLifetimeWatcher,
         LoginSucceeds, LoginFails, AuthOnly, watching, TypeOK
    <2>4. CASE RenewalEnds
      BY <2>4 DEF RenewalEnds, AuthOnly, token, watching, TypeOK
    <2>5. ASSUME NEW s \in Settings \cup {Defaults}
          PROVE  /\ now + s.stall \in 0..3 * MaxTime
                 /\ now + (s.resync + s.stall) \in 0..3 * MaxTime
                 /\ now + s.resync \in 0..2 * MaxTime
      BY SettingsAreValid DEF TypeOK, Time, Durations
    <2>6. CASE Started
      BY <2>5, <2>6 DEF Started, Heartbeat, LoopOnly, token, watching, TypeOK
    <2>7. ASSUME NEW s \in Settings, BeginPass(s)
          PROVE  TypeOK'
      BY <2>5, <2>7, SettingsAreValid DEF BeginPass, Heartbeat, LoopOnly, token, watching,
         TypeOK
    <2>8. CASE SkipPass
      BY <2>5, <2>8 DEF SkipPass, Heartbeat, LoopOnly, token, watching, TypeOK
    <2>9. ASSUME NEW ok \in BOOLEAN, PassEnds(ok)
          PROVE  TypeOK'
      BY <2>5, <2>9 DEF PassEnds, Heartbeat, LoopOnly, token, watching, TypeOK
    <2>10. CASE WatchFails
      <3>1. /\ watchErrorAt' \in Time \cup {Never} /\ watchLastErr' \in Time \cup {Never}
            /\ {broke', burst', lastFail'} \subseteq Time \cup {Never}
        BY <2>10 DEF WatchFails, WatchError, TypeOK
      <3> QED
        BY <2>10, <3>1 DEF WatchFails, WatchOnly, loop, token, TypeOK
    <2>11. CASE WatchRecovers \/ Delivered \/ WatcherStops
      BY <2>11 DEF WatchRecovers, Delivered, WatcherStops, WatchOnly, loop, token, TypeOK
    <2>12. CASE UNCHANGED vars
      BY <2>12 DEF vars, TypeOK
    <2> QED
      BY <2>1, <2>3, <2>4, <2>6, <2>7, <2>8, <2>9, <2>10, <2>11, <2>12 DEF Next
  <1> QED
    BY <1>1, <1>2, PTL DEF Spec

\* A pass is spared up to the stallTimeout of its own spec and no longer; a
\* loop that waits is never taken to be stalled.
THEOREM WatchdogCorrect == Spec => []WatchdogIsExact
  <1>1. Init => DeadlineIsDeclared
    BY DEF Init, Starting, DeadlineIsDeclared
  <1>2. ASSUME TypeOK, DeadlineIsDeclared, [Next]_vars
        PROVE  DeadlineIsDeclared'
    <2> USE <1>2
    <2>0. /\ now \in Nat /\ timerAt \in Nat /\ deadline \in Int
          /\ \A s \in Settings \cup {Defaults} : s.resync \in Nat /\ s.stall \in Nat
          /\ settings \in Settings \cup {Defaults}
      BY SettingsAreValid, TimeAssumption DEF TypeOK, Time, Durations
    <2>1. CASE UNCHANGED <<now, deadline, settings, timerAt, began>>
               /\ (pc' = pc \/ (pc = "login" /\ pc' \in {"sync", "exited"}))
      BY <2>1 DEF DeadlineIsDeclared
    <2>2. CASE Tick
      BY <2>0, <2>2 DEF Tick, probes, loop, DeadlineIsDeclared
    <2>3. CASE Started
      BY <2>0, <2>3 DEF Started, Heartbeat, LoopOnly, DeadlineIsDeclared
    <2>4. ASSUME NEW s \in Settings, BeginPass(s)
          PROVE  DeadlineIsDeclared'
      BY <2>0, <2>4 DEF BeginPass, Heartbeat, LoopOnly, DeadlineIsDeclared
    <2>5. CASE SkipPass
      BY <2>0, <2>5 DEF SkipPass, Heartbeat, LoopOnly, DeadlineIsDeclared
    <2>6. ASSUME NEW ok \in BOOLEAN, PassEnds(ok)
          PROVE  DeadlineIsDeclared'
      BY <2>0, <2>6 DEF PassEnds, Heartbeat, LoopOnly, DeadlineIsDeclared
    <2> QED
      BY <2>1, <2>2, <2>3, <2>4, <2>5, <2>6 DEF Next, vars, FirstLoginSucceeds,
         FirstLoginFails, Renewed, RenewalEnds, NoLifetimeWatcher, LoginSucceeds,
         LoginFails, AuthOnly, WatchFails, WatchRecovers, Delivered, WatcherStops,
         WatchOnly, loop
  <1>3. ASSUME TypeOK, DeadlineIsDeclared
        PROVE  WatchdogIsExact
    <2>1. now \in Int /\ timerAt \in Int /\ deadline \in Int
      BY <1>3, TimeAssumption DEF TypeOK, Time
    <2>2. CASE pc \in {"login", "sync"}
      BY <1>3, <2>2 DEF DeadlineIsDeclared, WatchdogIsExact, LoopLive
    <2>3. CASE pc = "pass"
      BY <1>3, <2>3 DEF DeadlineIsDeclared, WatchdogIsExact, LoopLive
    <2>4. CASE pc = "wait"
      BY <1>3, <2>1, <2>4 DEF DeadlineIsDeclared, WatchdogIsExact, LoopLive
    <2>5. CASE pc = "exited"
      BY <2>5 DEF WatchdogIsExact, Running
    <2> QED
      BY <1>3, <2>2, <2>3, <2>4, <2>5 DEF TypeOK
  <1> QED
    BY <1>1, <1>2, <1>3, TypeCorrect, PTL DEF Spec

LEMMA TokenInductive == Spec => [](ClockIsOutage /\ WindowsAreSettings)
  <1>1. Init => ClockIsOutage /\ WindowsAreSettings
    BY SettingsAreValid DEF Init, Starting, ClockIsOutage, WindowsAreSettings, WindowsOf
  <1>2. ASSUME TypeOK, ClockIsOutage /\ WindowsAreSettings, [Next]_vars
        PROVE  (ClockIsOutage /\ WindowsAreSettings)'
    <2>0. Never \notin Time
      BY DEF Never, Time
    <2>1. CASE UNCHANGED <<tokenValid, tokenInvalidAt, outage, windows, settings>>
      BY <1>2, <2>1 DEF ClockIsOutage, WindowsAreSettings
    <2>2. CASE (TokenValid \/ TokenInvalid) /\ UNCHANGED <<windows, settings>>
      BY <1>2, <2>0, <2>2 DEF TokenValid, TokenInvalid, ClockStarts, ClockIsOutage,
         WindowsAreSettings, TypeOK
    <2>3. ASSUME NEW s \in Settings, BeginPass(s)
          PROVE  (ClockIsOutage /\ WindowsAreSettings)'
      BY <1>2, <2>3, SettingsAreValid DEF BeginPass, LoopOnly, token, ClockIsOutage,
         WindowsAreSettings, WindowsOf
    <2> QED
      BY <1>2, <2>1, <2>2, <2>3 DEF Next, vars, Tick, probes, FirstLoginSucceeds,
         FirstLoginFails, Renewed, RenewalEnds, NoLifetimeWatcher, LoginSucceeds,
         LoginFails, AuthOnly, Started, SkipPass, PassEnds, LoopOnly, WatchFails,
         WatchRecovers, Delivered, WatcherStops, WatchOnly, loop, token
  <1> QED
    BY <1>1, <1>2, TypeCorrect, PTL DEF Spec

\* The token's windows run from the first failure since it was last good.
THEOREM TokenOutagesDecide == Spec => []TokenOutageDecides
  <1>1. TypeOK /\ ClockIsOutage => TokenOutageDecides
    BY SettingsAreValid, TimeAssumption DEF TypeOK, ClockIsOutage, TokenOutageDecides, Live, Ready, TokenLive,
       TokenReady, TokenDown, Time, Never, Windows, Durations
  <1> QED
    BY <1>1, TypeCorrect, TokenInductive, PTL

\* A lost token never restarts a pod that is still reported ready: readiness
\* goes no later than liveness, at the same moment if the windows are equal.
THEOREM UnreadyFirst == Spec => []UnreadyBeforeRestarted
  <1>1. ASSUME TypeOK, WindowsAreSettings
        PROVE  UnreadyBeforeRestarted
    <2>1. windows.tokenGrace <= windows.tokenFail
      BY <1>1, SettingsAreValid DEF TypeOK, WindowsAreSettings, WindowsOf
    <2> QED
      BY <1>1, <2>1, TimeAssumption DEF TypeOK, UnreadyBeforeRestarted, Ready, TokenLive,
         TokenReady, TokenDown, Time, Never, Windows, Durations
  <1> QED
    BY <1>1, TypeCorrect, TokenInductive, PTL

LEMMA WatchTimes ==
    ASSUME TypeOK
    PROVE  /\ now \in Int /\ now >= 0
           /\ Backoff \in Int /\ RetryCycle \in Int
           /\ windows.watchGrace \in Int
           /\ watchErrorAt \in Int /\ watchLastErr \in Int
           /\ broke \in Int /\ burst \in Int /\ lastFail \in Int
  BY TimeAssumption DEF TypeOK, Time, Never, Windows, Durations

LEMMA QuietWindowBounds ==
    ASSUME TypeOK
    PROVE  /\ QuietWindow \in Int
           /\ QuietWindow <= RetryCycle
           /\ QuietWindow = RetryCycle \/ QuietWindow = windows.watchGrace
  BY WatchTimes DEF QuietWindow

\* The watch clock through every step.
LEMMA WatchInductive == Spec => [](ClockIsBurst /\ FailuresArePast)
  <1>1. Init => ClockIsBurst /\ FailuresArePast
    BY DEF Init, Starting, ClockIsBurst, FailuresArePast, Never
  <1>2. ASSUME TypeOK, ClockIsBurst /\ FailuresArePast, [Next]_vars
        PROVE  (ClockIsBurst /\ FailuresArePast)'
    <2>1. CASE UNCHANGED <<watchErrorAt, watchLastErr, burst, lastFail>> /\ now' \in {now, now + 1}
      BY <1>2, <2>1, WatchTimes DEF ClockIsBurst, FailuresArePast
    <2>2. CASE Delivered
      BY <1>2, <2>2, WatchTimes DEF Delivered, WatchOnly, ClockIsBurst, FailuresArePast, Never
    <2>3. CASE WatchFails
      <3>1. /\ now' = now /\ watchLastErr' = now /\ lastFail' = now
            /\ burst' \in {now, burst}
            /\ watchErrorAt' = IF NewEpisode THEN now ELSE watchErrorAt
            /\ burst' = IF burst = Never \/ now - lastFail > RetryCycle THEN now ELSE burst
        BY <2>3 DEF WatchFails, WatchError, WatchOnly
      <3>2. now # Never
        BY <1>2, WatchTimes DEF Never
      <3>3. CASE NewEpisode
        BY <1>2, <3>1, <3>2, <3>3, WatchTimes DEF ClockIsBurst, FailuresArePast
      <3>4. CASE ~NewEpisode
        <4>1. /\ watchErrorAt # Never
              /\ burst # Never /\ burst <= watchErrorAt
              /\ now - lastFail <= RetryCycle
          BY <1>2, <3>4, WatchTimes, QuietWindowBounds DEF NewEpisode, ClockIsBurst
        <4> QED
          BY <1>2, <3>1, <3>2, <3>4, <4>1, WatchTimes DEF ClockIsBurst, FailuresArePast
      <3> QED
        BY <3>3, <3>4
    <2> QED
      BY <1>2, <2>1, <2>2, <2>3 DEF Next, vars, Tick, probes, FirstLoginSucceeds,
         FirstLoginFails, Renewed, RenewalEnds, NoLifetimeWatcher, LoginSucceeds,
         LoginFails, AuthOnly, Started, BeginPass, SkipPass, PassEnds, LoopOnly,
         WatchRecovers, WatcherStops, WatchOnly, watching
  <1> QED
    BY <1>1, <1>2, TypeCorrect, PTL DEF Spec

\* A watch unreadies the pod only for failures that go on.
THEOREM WatchAlarmsAreReal == Spec => []WatchAlarmIsReal
  <1>1. ASSUME TypeOK, ClockIsBurst
        PROVE  WatchAlarmIsReal
    <2> SUFFICES ASSUME ~WatchReady
                 PROVE  /\ burst # Never
                        /\ now - burst > windows.watchGrace
                        /\ now - lastFail <= RetryCycle
      BY DEF WatchAlarmIsReal
    <2>1. /\ watchErrorAt # Never
          /\ now - watchLastErr <= QuietWindow
          /\ now - watchErrorAt > windows.watchGrace
      BY <1>1, WatchTimes DEF WatchReady, WatchFailing
    <2> QED
      BY <1>1, <2>1, WatchTimes, QuietWindowBounds DEF ClockIsBurst
  <1> QED
    BY <1>1, TypeCorrect, WatchInductive, PTL DEF Spec

\* When no grace is shorter than the gap between two retries, an outage of the
\* watch is one episode, and unreadies the pod once it is longer than the grace.
THEOREM WatchOutagesAreReported == Spec => []WatchOutageIsReported
  <1>1. ASSUME GracesCoverRetries, TypeOK, WindowsAreSettings
        PROVE  Backoff <= QuietWindow
    BY <1>1, WatchTimes DEF GracesCoverRetries, TypeOK, WindowsAreSettings, WindowsOf, QuietWindow
  <1>2. ASSUME GracesCoverRetries, Init
        PROVE  EpisodeGoesOn
    BY <1>2 DEF Init, Starting, EpisodeGoesOn
  <1>3. ASSUME GracesCoverRetries, TypeOK, WindowsAreSettings, ClockIsBurst, FailuresArePast,
               EpisodeGoesOn, [Next]_vars
        PROVE  EpisodeGoesOn'
    <2>1. CASE UNCHANGED <<now, watchErrorAt, broke, lastFail, watch>>
      BY <1>3, <2>1 DEF EpisodeGoesOn
    <2>2. CASE Tick
      BY <1>3, <2>2, WatchTimes DEF Tick, probes, EpisodeGoesOn
    <2>3. CASE WatchRecovers \/ Delivered \/ WatcherStops
      BY <1>3, <2>3 DEF WatchRecovers, Delivered, WatcherStops, WatchOnly, EpisodeGoesOn
    <2>4. CASE WatchFails
      <3>1. /\ now' = now /\ lastFail' = now /\ watch' = "broken"
            /\ broke' = IF broke = Never THEN now ELSE broke
            /\ watchErrorAt' = IF NewEpisode THEN now ELSE watchErrorAt
        BY <2>4 DEF WatchFails, WatchError, WatchOnly
      <3>2. now # Never /\ now <= now + Backoff
        BY <1>3, WatchTimes, TimeAssumption DEF Never, Durations
      <3>3. CASE broke = Never
        BY <1>3, <3>1, <3>2, <3>3, WatchTimes DEF NewEpisode, FailuresArePast, EpisodeGoesOn
      <3>4. CASE broke # Never
        <4>1. ~NewEpisode
          BY <1>1, <1>3, <3>4, WatchTimes, QuietWindowBounds DEF NewEpisode, EpisodeGoesOn,
             ClockIsBurst
        <4> QED
          BY <1>3, <3>1, <3>2, <3>4, <4>1 DEF EpisodeGoesOn
      <3> QED
        BY <3>3, <3>4
    <2> QED
      BY <1>3, <2>1, <2>2, <2>3, <2>4 DEF Next, vars, FirstLoginSucceeds, FirstLoginFails,
         Renewed, RenewalEnds, NoLifetimeWatcher, LoginSucceeds, LoginFails, AuthOnly,
         Started, BeginPass, SkipPass, PassEnds, LoopOnly, watching
  <1>4. ASSUME GracesCoverRetries, TypeOK, WindowsAreSettings, ClockIsBurst, EpisodeGoesOn
        PROVE  WatchOutageIsReported
    <2> SUFFICES ASSUME LongOutage
                 PROVE  ~WatchReady
      BY DEF WatchOutageIsReported
    <2> QED
      BY <1>1, <1>4, WatchTimes, QuietWindowBounds DEF LongOutage, EpisodeGoesOn, ClockIsBurst,
         WatchReady, WatchFailing
  <1>5. Init => (GracesCoverRetries => EpisodeGoesOn)
    BY <1>2
  <1>6. /\ TypeOK /\ WindowsAreSettings /\ ClockIsBurst /\ FailuresArePast
        /\ (GracesCoverRetries => EpisodeGoesOn)
        /\ [Next]_vars
        => (GracesCoverRetries => EpisodeGoesOn)'
    BY <1>3 DEF GracesCoverRetries
  <1>7. /\ TypeOK /\ WindowsAreSettings /\ ClockIsBurst
        /\ (GracesCoverRetries => EpisodeGoesOn)
        => WatchOutageIsReported
    BY <1>4 DEF WatchOutageIsReported
  <1> QED
    BY <1>5, <1>6, <1>7, TypeCorrect, TokenInductive, WatchInductive, PTL DEF Spec

(***************************************************************************)
(* The rule of the two token windows, for every set of documents and every *)
(* shipped default that is valid itself.                                   *)
(***************************************************************************)

\* From any document in effect that leaves tokenFailTimeout out, any positive
\* tokenGracePeriod is accepted (ApplyDefaults, Settings.validate).
THEOREM GraceEditsAreAccepted == Spec => []GraceMovesFreely
<1>1. GraceMovesFreely
  <2> SUFFICES ASSUME NEW d \in Documents, Accepted(d), NEW grace \in Durations,
                      d.tokenFail = LeftOut
               PROVE  LET edited == [d EXCEPT !.tokenGrace = grace]
                      IN  Accepted(edited) /\ Validated(Times(ApplyDefaults(edited)))
    BY DEF GraceMovesFreely, InEffect
  <2> DEFINE edited == [d EXCEPT !.tokenGrace = grace]
             before == ApplyDefaults(d)
             after  == ApplyDefaults(edited)
  <2>1. /\ d \in DocumentShapes /\ Times(before) \in Settings
        /\ grace \in Int /\ grace > 0
    BY DocumentAssumption, TimeAssumption DEF Durations
  <2>2. /\ edited.mode = d.mode /\ edited.resync = d.resync
        /\ edited.stall = d.stall /\ edited.tokenGrace = grace
        /\ edited.tokenFail = LeftOut /\ edited.watchGrace = d.watchGrace
    BY <2>1 DEF DocumentShapes
  <2>3. /\ after.mode = before.mode /\ after.resync = before.resync
        /\ after.stall = before.stall /\ after.watchGrace = before.watchGrace
        /\ after.tokenGrace = grace
        /\ after.tokenFail = DefaultFail(grace)
    BY <2>1, <2>2 DEF ApplyDefaults, Or, LeftOut
  <2>4. /\ Validated(Times(before)) /\ Validated(Defaults)
        /\ ShippedSettings.tokenFail = Defaults.tokenFail
    BY <2>1, SettingsAssumption, ShippedAssumption DEF Times
  <2>5. /\ before.resync \in Durations /\ before.stall \in Durations
        /\ before.watchGrace \in Durations
        /\ ShippedSettings.tokenFail \in Durations
    BY <2>4 DEF Validated, SettingsShapes, Times
  <2>6. DefaultFail(grace) \in Durations /\ DefaultFail(grace) >= grace
    BY <2>5, TimeAssumption DEF DefaultFail, Longer, Durations
  <2>7. Accepted(edited)
    <3>1. before.mode \in Modes
      BY DEF Accepted, ValidSettings
    <3>2. QED
      BY <2>1, <2>3, <2>5, <2>6, <3>1, TimeAssumption DEF Accepted, ValidSettings, Durations
  <2>8. Validated(Times(after))
    BY <2>3, <2>5, <2>6 DEF Validated, SettingsShapes, Times
  <2>9. QED
    BY <2>7, <2>8
<1>2. QED
  BY <1>1, PTL
=============================================================================
