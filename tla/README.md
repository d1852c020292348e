# vault-plugin-manager in TLA+

`vault-plugin-manager` is one process that watches a ConfigMap and drives a
Vault cluster toward it: plugin binaries on the Vault pods, the plugin catalog,
mounts, engine configs, roles. This directory holds TLA+ models of it, the TLC
configurations that check them, and TLAPS proofs of their main properties.

Contents: [the system](#the-system) · [the modules](#the-modules) ·
[what the runs show](#what-the-runs-show) · [bounds](#bounds) ·
[fairness and urgency](#fairness-and-urgency) · [proofs](#proofs) ·
[divergences](#divergences) · [not modelled](#not-modelled) · [plan](#plan)

## The system

```
 API server ──watch──> informer ──OnChange/OnDelete──> runner (loop) ──> pass
                          │ watch errors, events          │ deadlines     │
                          v                               v               v
                        health.State <──token valid/invalid── client   pods (exec)
                          │                                            Secrets
                       /healthz, /readyz                               Vault
```

| component | state | operations | interacts by |
|---|---|---|---|
| runner (`internal/reconcile/runner.go`) | content under a mutex, a one-place trigger channel, a timer, two baselines of the change log | set, notify, currentSpec, the select loop, logChanges | callbacks of the informer on another goroutine; calls the pass and the health state |
| informer (`internal/k8s/informer.go`, client-go) | a store, a queue of notifications | list, watch, relist; callbacks | the handler goroutine; `IsStopped` asked by each probe |
| pass: binaries, catalog, mounts, reloads (`reconcile.go`, `k8s/pods.go`, `vault/catalog.go`, `mounts.go`, `reload.go`) | locals only: pods, plugins to reload | fetch, EnsureFile, EnsurePlugin, EnsureMount, ReloadPlugin | exec on the pods, Vault's API |
| pass: prune | locals | ListManagedMounts, DisableMount, DeregisterPlugin, RemoveFile | the same |
| pass: engine configs (`reconcile/engineconfig.go`, `k8s/secrets.go`) | the state Secret, across passes and restarts | load, resolve, write, save | Kubernetes Secrets with resourceVersions, Vault |
| pass: roles (`vault/roles.go`) | the key sets written last, in memory | EnsureRole, role prune | Vault |
| Vault client (`vault/client.go`) | the token | initial login, renewal, re-login | the token observer, which is the health state |
| health (`internal/health/health.go`) | watchdog deadline, token clock, watch clocks, windows, readiness latch | the calls of the three above; snapshot | a mutex; two goroutines write, probes read |
| ConfigMap document (`internal/config`) | none | Parse, validate, Diff | called by the runner |
| sources (`internal/fetch`) | none | HTTP and OCI fetch | called by the pass |

What is hard in it:

* **Concurrency** is small and sharp: edits arrive on the informer's goroutine
  during a pass, and three writers move the clocks the probes read. Correct
  means: no stored edit is forgotten, and no report is early or late.
* **Partial failure** is everywhere. A pass is a sequence of remote requests,
  the first failure ends it, a request may take effect and still return an
  error, and what is remembered within a pass is lost with it. Correct means:
  the next pass finds its work again.
* **Write without read-back.** Engine configs cannot be read from Vault. What
  was written is remembered in a Secret that is updated after Vault. Correct
  means: a record never lies about the live mount, and a credential is not
  rewritten without a reason.
* **Others** work in the same Vault and on the same Secrets: pods come and go,
  operators mount, disable, delete the state. Correct means: what the manager
  does not own stays.
* **Accidents** in the ConfigMap. Under `pruneMode: full` an empty spec removes
  everything. Correct means: an absent, blank or invalid document is skipped.
* **Time**: a hung pass must fail liveness, a slow one must not; outages of the
  token and the watch are graced, and retries must not restart the grace.

## The modules
| module | models | composed with |
|---|---|---|
| `Runner` | the loop, the handler, the informer, restarts; the readiness latch | implements `LatestWins` |
| `LatestWins` | the abstract promise of the runner: a mailbox in which the newest content replaces the older | |
| `SpecRules` | which documents are specs: paths, catalog, mounts, roles, engine configs | extends `Runner`, whose `Specs` it is about |
| `ChangeLog` | `Diff` over whole specs: what a pass says of the edit it was woken for | extends `SpecRules` |
| `EngineConfig` | the engine config step, request by request, with the Secrets, the mounts' UUIDs and operators | stands for a part of a pass in `Runner` |
| `Reconcile` | the pass over binaries, catalog, mounts, reloads and prune, request by request, with the pods and operators | the same |
| `MountTune` | the option maps of a mount, behind the one value `Reconcile` has for them | extends `Reconcile` |
| `Roles` | the role step, request by request, with the process's memory of keys and operators | the same as `EngineConfig` |
| `RoleValues` | when a value read back is the declared one (lists, numbers, durations) | `Roles` has its classes as `ValueOf` |
| `Health` | the probes in discrete time, with the loop, the Vault client and the watch that report to them | |
| `SpecSettings` | settings from documents: defaults and the rules across fields | extends `Health`, whose `Settings` it makes |
| `RunnerProofs`, `SpecRulesProofs`, `ChangeLogProofs`, `EngineConfigProofs`, `ReconcileProofs`, `RolesProofs`, `RoleValuesProofs`, `HealthProofs` | theorems and proofs | extend the module they are about; `ReconcileProofs` and `HealthProofs` have those of `MountTune` and `SpecSettings` too |
| `MCRunner`, `MCEngineConfig`, `MCReconcile`, `MCRoles`, `MCHealth` | the instances TLC checks | |

The models cut the program where its parts meet through few variables. In
`Runner` a pass is one step that ends well or with an error; `EngineConfig`,
`Reconcile` and `Roles` open that step up; `Health` keeps of the pass only how
long it takes and how it ends. Each cut is an over-approximation from the other
side: a pass in `Runner` may fail for no reason, and the other three begin passes
whenever none is running. The pure parts of the code (`SpecRules`, `ChangeLog`,
`MountTune`, `RoleValues`, `SpecSettings`) are operators attached to the machine
that calls them and compared there with a reference definition.

### Runner

One variable per variable of the code: `latest` is `raw` and `present`, always
written together under `mu`; `trigger` is the channel; `passSpec`, `applied`,
`counted` are the locals of `Run`; `pc` is the place in the loop. `set` and
`notify` are two actions (`HandlerSet`, `HandlerNotify`), and so are the
receive, the read of the content, and the end of the pass. The informer is
external: a list delivers the ConfigMap of now and none of the contents between
two lists, and nothing if its store already holds it. `unread` and `seen` are
histories; they are also the refinement mapping to `LatestWins`.

### SpecRules and ChangeLog

`SpecRules` has the conditions of `Validate` and `validateEngineConfigs` one by
one, and `Parsed`, the form the accepted entries are left in. A path is cut at its
slashes, so that what `normMountPath` and `normSubPath` do to leading, trailing
and doubled slashes is visible, and a prefix of a path is a prefix of a sequence.
`ApartIn` is what the rules are for: entries that do not write over, or prune,
each other's work. The directory of a role is compared with the place of an engine
config of any mount, not of the role's own only: auth mounts live below `auth/`, so
Vault accepts an auth mount `m` beside a secret mount `m/roles`, and the rule for
engine configs, which compares the paths of mounts for equality, does not see the
overlap.

`ChangeLog` has the sections of `Diff` with their keys and the details they
compare. The reference is `WorkOf`, written from the steps of a pass: the places of
Vault a spec keeps something at, and what a pass restores there. Plugins are
registered by type, name and version, with the command of a file named for the
version as spelled; the options of a mount are those that are set, without the
marker, and its plugin is no part of it, since no pass changes that; an engine
config is the JSON of its body (`Encoded`); a value of a role is its class under
`sameRoleValue` (`Meaning`). `Runner` knows a spec as a map
from entries to values; these two modules are what is behind that map.

### EngineConfig

An entry is a `<mount>/<path>`; its body is its literal data with the value of
its Secret. The body stands for its digest, which is taken to be injective. A
mount has a UUID, and a mount that is disabled and enabled again has another.
`state` is the state Secret, `rv` whether the resourceVersion the pass holds is
the current one. `excuse` is a history: why an entry may be written again
although Vault holds the body already. A write lands in the mount that is live
when it arrives, under the UUID that was read before.

### Reconcile and MountTune

A version has a spelling (`1`, `v1`) and a number; the catalog and the mounts
know the number, files are named with the spelling. A file may be absent, whole
or torn. `loaded` is what the running instance of a mount was started with, so
`Stale` says that an instance lags behind the catalog or the options of its
mount. Catalog entries and mounts are processed in any order; the code goes by
the order of the spec, so it has fewer behaviours. `calm` is a history: nobody
else changed anything during this pass; properties about one pass are stated
for such passes, since a change made during a pass may be seen by half of it.

In `Reconcile` the options of a mount are one value and the manager's marker a
flag. `MountTune` has the maps Vault holds, with the marker as a key, missing
keys, blank values and what was there before, and shows that `desiredOptions`
does on the maps what `Reconcile` does on the value, whether Vault merges the
map it is given or replaces its own.

### Roles

`memory` is `roleKeys`, the keys of the last write of this process; `vault` is
what Vault holds of each role, with the plugin's defaults for keys that were not
given. `Merging` are the paths whose plugin merges a write into the role it holds, so
that a key that is not sent keeps its value; the others replace the role. The test
server of `roles_test.go:149` merges, and `README.md:191` supposes a plugin that
replaces, so both are there: `Roles.cfg` has one path of each kind. `mount` is the mount below each path, as the manager or an operator made
it; a path may carry a secret and an auth mount, and `ListManagedMounts` returns
paths. Read, compare and write of one role are one step that may fail before or
after it took effect; listing and deleting are steps of their own. `excuse` is a
history: an operator wrote the role, or a write was accepted whose answer was an
error. A process may start on roles an earlier one left (`Found`).

`RoleValues` is `sameRoleValue`, recursion and all: a recursive function on pairs
of values, whose `Depth` says how deep they are nested. The slice `used` and the two
loops are `FirstFit`: a choice for every wanted element, each the first that is not
used before.

### Health and SpecSettings

`now` is a clock that advances by one. `deadline`, `tokenInvalidAt`,
`watchErrorAt`, `watchLastErr` are the fields of `State`, and every call into it
is one step, as under its mutex. The reports (`Live`, `Ready`) are state
predicates, because `snapshot` reads and does not write. `outage`, `broke`,
`burst`, `lastFail` are histories of what really happened; the properties
compare them with what the fields say. The settings a pass begins with are what
`ApplyDefaults` makes of a document `validate` accepts (`SpecSettings`); which
settings `Health` runs with is checked to be exactly that.

## What the runs show
| run | question | answer |
|---|---|---|
| `Runner` | Two edits and a restart in every interleaving with informer, handler and loop: is an edit lost, an accident reconciled, a change counted twice, the timer left unarmed? And over sample documents, while a pass begins: do accepted entries stay out of each other's way, and does the change log name the work, and nothing but the work? | holds, but for named exceptions |
| `EngineConfig` | Two entries that share a mount and a Secret, three changes by operators, a failure or crash at any request: do records lie, is an owed rewrite forgotten, is a credential rewritten without a reason, and does every declared entry get there in the end? | holds, but for entries with an unrecorded write |
| `EngineConfigReverts` | Does a clean pass mean that Vault holds the bodies of the spec? | **no** |
| `Reconcile` | One plugin, two pods, four specs, two changes and one failure anywhere: does a clean pass converge, and leave alone what has converged? Are binaries placed first? Do instances lag only for a known reason? Does the state converge in the end? Are the option maps tuned to what is declared? | holds |
| `ReconcilePrune` | Two mounts that swap versions, under `never` and `full`, with operators mounting by hand: does prune take what the spec names or what others own? | holds |
| `ReconcileLostReload` | Do instances run what the catalog has after a clean pass? | **no** |
| `ReconcileSwap` | Does a clean pass mean that a mount runs its plugin? | **no** |
| `ReconcileLeftover` | Does `full` delete the binary? | **not for a version spelled without the v** |
| `Roles` | Two directories of two names on two paths, two changes, a failure or crash at any request: does a clean step leave the declared values, and no other keys where a write replaces the role, is the next one quiet, and are other roles left alone? | holds |
| `RolesReverts` | Is a key removed from a role's data removed from Vault? | **not if a write between was accepted unseen** |
| `Health` | Logins, renewals, watch failures, events and passes in every order: is a report early, late, or in the wrong order? Can the token grace be moved alone? | holds |
| `HealthShortGrace` | Does a short watch grace decide readiness? | **no** |

The bold ones are described under [divergences](#divergences). Every property
of a passing run is accompanied by a mutant: an operator, placed before the
definition it alters and marked `Mutant:`, that changes the definition as a
plausible bug would; with it TLC finds the property violated.

What the properties say, by component:

* **Runner.** `RestIsConverged`: when nothing is on its way from the API server to
  the loop any more, the loop has read the ConfigMap there is, and what it applied
  last is that, unless its passes fail. It rests on `NoLostWakeup` (an edit stored
  and not read has a trigger pending, or about to be, or a loop on its way to the
  read), which the order set-then-notify and the read after the receive achieve
  together, and which is proved.
  `NeverReconcilesAccident`: a pass works on exactly the content last read, and
  that is a spec. `BaselinesMatch`: the change log and its metric compare with
  what was applied, and an applied spec opened the gate. `ImplementsMailbox`: the loop refines
  `LatestWins`, its fairness included. `LastContentIsReread`: what the ConfigMap
  holds in the end is read again and again, by resync. `LastSpecApplied`: and
  applied, if passes do not all fail.
* **Documents.** `PlacesApart`: in an accepted spec every engine config has a
  place of its own, no role spells the config of a mount, and no directory whose
  roles are listed and pruned contains an engine config of the role's own mount, or,
  secret mounts not being nested, of any mount if the role's is a secret one. Roles on
  a path that is an auth mount only may reach the config of a secret mount inside it.
  `LogTellsTheWork`: the log names every place at which the passes will keep
  something else than before, but for a plugin version declared with two types
  (`Twins`) or only spelled otherwise (`Renamed`); it names no other place, but for
  twins and for edits a pass does nothing about (`Idle`); and as added just when
  nothing was there. Of the first spec of a process it is the work without exception.
* **EngineConfig.** `RecordIsTrue`: a record that names the live mount is what
  Vault accepted there last, unless a write went unrecorded. `RewriteStaysOwed`:
  the save of a pass under way never brings back a record an operator deleted.
  `OneSnapshot`, `WritesAreCheckpointed`. `RewritesAreExcused`: Vault gets a body
  it already holds only by a write, and for one of five named reasons.
  `DeliversButForUnsaved`: a pass that returns no error has every declared body in
  Vault, what it skipped included, but for a write that went unrecorded. `Settles`.
* **Reconcile.** `StaleIsPending`: an instance lags only while its reload is
  pending in the pass, or a pass failed since, or somebody deregistered the
  version. `BinariesFirst`, of passes in which no pod restarts; `CleanPassConverges`, `ConvergedIsLeftAlone`,
  `NeverPrunesDesired`, `ForeignMountsStay`, `Settles`. `TuneIsFaithful`: a tune
  is sent when the effective options differ from the declared ones, an option
  that was taken out included, and leaves the declared ones and the marker.
* **Roles.** `MemoryBoundsKeys`: where a write replaces the role, and without an
  excuse, Vault has no key that is not remembered; this is why comparing the declared
  keys is enough there. `CleanStepConverges`: a clean step leaves every declared
  value, and, where a write replaces the role, no other key, whatever an earlier
  process or a failed pass left, a key removed while the manager was down included.
  Of a plugin that merges only the declared values are claimed: a removed key is
  noticed and the role is written again, and the key stays. `ResyncIsQuiet`,
  `OnlyItsOwnRoles` and `Settles` are about both kinds.
  `ComparisonIsFair`: the comparison is an equivalence, and taking the first match in
  a list is as good as trying all pairings, so reordered lists and respelled
  durations pass, nested ones too.
* **Health.** `WatchdogIsExact`: liveness spares a pass up to the `stallTimeout`
  of its own spec and not a tick longer, and never takes waiting for stalling.
  `TokenOutageDecides`: the grace runs from the first failed login of the
  outage. `UnreadyBeforeRestarted`: readiness goes no later than
  liveness while settings change, and at the same moment if the windows are equal. `WatchOutageIsReported` and `WatchAlarmIsReal`: a watch broken
  for longer than the grace unreadies the pod, and nothing else of the watch
  does. `GraceMovesFreely`: a document that leaves `tokenFailTimeout` out stays
  acceptable whatever `tokenGracePeriod` is moved to.

## Bounds
| bound | where | why it is enough |
|---|---|---|
| `MaxEdits` = 2, `MaxCrashes` = 1 | Runner | an edit overtakes another, one arrives during a pass, and one after a restart. One entry with two values gives three specs, so a spec can be left and come back; the safety properties are proved for all bounds |
| `MaxChanges` = 3, `MaxFaults` = 1, `MaxUUID` = 2 | EngineConfig | a failure with an edit, a rotation and a recreated mount around it. `EngineConfigReverts` has two failures and one entry. The safety properties are proved for all bounds |
| `MaxChanges` = 2 or 3, `MaxFaults` = 1 | Reconcile | one failure leaves every intermediate state of a pass behind; two changes move the spec away and back, or edit it while a pod or operator moves. The main properties are proved for all bounds |
| two pods, two binaries, two numbers in two spellings | Reconcile | the pods differ only by name: one that has the binary and one that has not |
| `MaxChanges` = 2, `MaxFaults` = 1 | Roles | an edit and an operator's write, or an edit away and back, around a failure or restart. The safety properties are proved for all bounds |
| `MaxTime` = 6, windows of 1 to 3 | Health | an outage, its recovery and a second outage fit; the safety properties are proved for all bounds |
| `RuleSamples` | SpecRules | some 7 700 documents, 1 700 of them accepted: paths of up to three segments (blank, dotted and doubled ones among them) against each other, each pair of an engine config and a role, a mount inside another with an auth mount within or without, each rule broken once. Proved for all documents |
| `LogSamples` | ChangeLog | for every section all pairs of its sample forms: lists in other order, repeated keys, versions in both spellings, two types of one plugin, references with and without keys, missing, blank and marker options, values that are spelled otherwise and mean the same. Proved for all specs |
| `FieldValues` | RoleValues | scalars with three spellings of one amount, lists of up to three and objects of them, and lists of lists. Proved for all values |

In `Health`, `Runner` and the other modules nothing but the named bounds keeps
the state space finite: a bound stops edits, restarts, changes, faults or the
clock, never a step of the program. `CHECK_DEADLOCK FALSE` is in the cfgs of
`Runner`, which ends when its context is cancelled, and `Health`, whose clock
ends at its bound.

## Fairness and urgency

`Runner` assumes weak fairness of: the informer's list (client-go relists for
ever), the handler and the loop (the Go scheduler; the timer is armed whenever
the loop waits, which the model shows by `TimerFires` being enabled there), and
the end of a pass. A pass that does not end fails the liveness probe
(`WatchdogIsExact`) and the kubelet restarts the process; the fairness says that
this does not go on for ever. `LastSpecApplied` has a further premise,
`PassesRecover`, because no fairness of the code makes Vault answer.
`EngineConfig`, `Reconcile` and `Roles` assume weak fairness of the pass as a
whole, for the same reasons; faults and crashes are not fair and are bounded.

`Health` has no fairness, it has urgency: time does not pass a timer that is due.
The loop's timer fires on time, so a process that is starved of CPU for longer
than `stallTimeout` while it waits is outside the model. A broken watch is retried
at least every `Backoff`: the code relies on this (`health.go` says the backoff is
"capped around 30s"), it does not enforce it. `WatchOutageIsReported` has the
premise that `Backoff` is at most the retry cycle of 60 seconds and at most every
configured grace; `HealthShortGrace` is what happens without the second half. A
request that hangs inside a retry can stretch the interval beyond `Backoff`.

## Proofs

Each proof module is proved by `tlapm` without assumptions other than the named
`ASSUME`s of the module it extends: sentinels differ from the values they stand
beside, maps have their types, bounds are natural numbers, what operators may leave
in Vault is of the shapes Vault has, the settings of `Health` are as `Validate`
leaves them, and those of `SpecSettings` are what its documents make. The invariants are proved for every
value of the constants, so for any number of edits, faults and restarts, and any
length of time.

`RunnerProofs`: `TypeCorrect`; `StoredEditIsNotForgotten` and
`AccidentsAreSkipped` (`NoLostWakeup`, `NeverReconcilesAccident`);
`BaselinesFollow`, which needs the invariant strengthened by what the baselines
are while a pass is under way (`SpecHistory`); `RestMeansConverged`, from four
invariants: what the handler will have stored once it was given every event is
what the informer holds, and that is the ConfigMap when it has caught up
(`InformerHistory`); no wakeup is lost; what is not unread was read (`Caught`);
and `SpecHistory`. `RetriesCountNothing` and `ReadinessIsALatch` are action
properties without a run of their own: each is one guard away from the model.
`RunnerImplementsMailbox`: the initial state and every step of
`Runner` map to an initial state and a step or stutter of `LatestWins`. The
mailbox's own fairness stays with TLC.

`EngineConfigProofs`: no property of this module is inductive by itself. The
invariant is built in layers, each proved from those before it.

1. `TypeInv`: types, and what is pending is built, for a mount that has a UUID.
2. `Bookkeeping`: the local records of a pass whose Secret nobody touched are the
   Secret's, but for what the pass wrote. This is where the resourceVersion
   matters. It gives `StatePrecedesWrites` and `WritesAreCheckpointed`; the first is
   proved only, since the order of two statements is all that can break it.
3. `UUIDsAreIssued`: no record has a UUID Vault has not given out yet, so a mount
   enabled later is never mistaken for one in a record.
4. `BodiesFromSnapshot`, for `OneSnapshot`.
5. `WritesAreTrue`: what the pass wrote and has not saved is true in the sense of
   `RecordIsTrue`; with it `RecordIsTrue` and `RewriteStaysOwed` are inductive.
6. `Excused`: without an excuse, what Vault holds is recorded, in the Secret and
   in the pass under way; then `RewritesAreExcused`.
7. `Delivery`: the records a pass loaded are true of the mounts they name, and
   what it has skipped or written is in Vault, in the mount whose UUID it read, but
   for the writes that went unrecorded; then `DeliversButForUnsaved`.

`ReconcileProofs` follows a pass through its phases.

1. `TypeInv`: types, and `Phases`, what a pass may still have to do in each phase:
   nothing is to place but what the goal declares, nothing is due after the prune
   has begun, what is to be disabled or deregistered is not desired. `StaleIsPending`
   and `NeverPrunesDesired` follow from it, step by step.
2. `PlacedSoFar`: the pods that are done have the binary that is being placed, if
   nobody interferes; `BinariesFirst`.
3. `DoomedWereManaged`: what is listed for the prune carries the marker, or was made
   in the place of a mount that did; `ForeignMountsStay`.
4. `Progress`: in an undisturbed pass what is not to do any more is done: entries,
   mounts, and the list of leftovers. It gives `CleanPassConverges`, and, with the
   lemma that a mount that is as declared is tuned to itself, `ConvergedIsLeftAlone`.

Of `MountTune`: `TuneIsFaithful` for all keys, values and maps, key by key: what
is tuned with is the marker and the declared value or the blank of every other key,
and then the maps differ just when the effective options do.

`RolesProofs`: `MemoryBoundsKeys` is inductive with the types: where it is claimed a
write replaces the whole body, and a crash forgets everything. `PassInv` says what a pass may do
(`Authority`: what is doomed is undeclared, beside a declared role, on a listed
mount) and what an undisturbed one has done (`Progress`); it gives
`CleanStepConverges`, where `MemoryBoundsKeys` turns "declared keys are current"
into "the role is exact" for roles that are not on a `Merging` path, and `OnlyItsOwnRoles`. `Settled`, for `ResyncIsQuiet`: after
an undisturbed success every declared role is current and remembered, and stays so.

`HealthProofs`: `DeadlineIsDeclared` (the deadline is the one declared last, and the
timer comes before it) for the watchdog; `ClockIsOutage` and `WindowsAreSettings`
(the windows come from one document) for the token; `ClockIsBurst` and
`FailuresArePast` for the watch; and `EpisodeGoesOn` for the watch outage: under
the premise, two failures of one outage are never further apart than the quiet
window, so the clock stands at its first failure or before. Of `SpecSettings`:
`GraceMovesFreely`, from the defaults and the rules alone.

`SpecRulesProofs`: `PlacesApart` for documents of any size and paths of any length.
It rests on lemmas about paths: when joined paths are prefixes of each other, so are
their first parts; a common beginning can be left off; trimming twice is trimming
once. An engine config of the role's own mount in the directory of the role would then
be below its `rolesPath`, which the rule refuses; one of another mount has the path of
one of the two mounts begin with that of the other, so with secret mounts apart the
role's is no secret mount.

`ChangeLogProofs`: `LogTellsTheWork` for any two accepted specs. Section by section,
the map `Diff` builds from a list has the last entry of every key, and so has the work
of a pass (`PutIsByKey`). For a key both specs have, the detail of the change is empty
only when the work is the same, and the work is the same under a detail only when the
entry is respelled (`DetailIsWork`). The catalog needs more, since its keys in the log are
coarser than its places: a plugin version that is no twin has one registration, of the
last entry of that key (`OneRegistration`, `CatalogIsExact`). An accepted document,
parsed, has the shape this needs.

`RoleValuesProofs`: `ComparisonIsFair` for values of any depth and lists and objects of
any size. The library's induction theorems cannot be used here, so each induction on
depth is by a least counterexample.

1. `SameIsDefined`: the recursive function exists and satisfies its equation. At every
   depth there is a function that is correct so far, since a comparison asks about parts
   only; two of them agree, and together they are the function.
2. `Exchange`: when elements that are alike fit the same places, a pairing of two lists
   whose first k elements are the first fits can be changed into one whose first k + 1
   are. So `FirstFit` succeeds whenever a pairing exists.
3. `EquivalenceBelow`: reflexive, symmetric and transitive up to a depth; the condition
   of 2 holds for parts by the same induction, and symmetry of lists is the pigeonhole
   principle: a pairing of lists of one length can be read backwards.

Only model-checked: the liveness properties (`LastContentIsReread`, `LastSpecApplied`,
the three `Settles`) and `ImplementsMailbox`'s fairness, since temporal reasoning under
fairness is beyond the prover.

## Divergences

Places where the code does not do what a comment or document of the repository
says. Six are shown by a run:

| run | where | what |
|---|---|---|
| `EngineConfigReverts` | `engineconfig.go:90` | Vault accepts a write, its record is not saved, the spec is reverted: the old record looks current, the pass skips the entry and reports success, and Vault keeps the other body |
| `ReconcileLostReload` | `reconcile.go:101` | the plugins to reload are a local of the pass: a failure after a registration loses the reload, and the next pass sees nothing changed |
| `ReconcileSwap` | `mounts.go:166` | the plugin of an existing mount is not compared: a mount moved to another plugin of the same version keeps the old one |
| `ReconcileLeftover` | `reconcile.go:314` | the file to remove is named with the version as Vault reports it (`v1`), and was placed under the spelling of the spec (`1`) |
| `RolesReverts` | `roles.go:44` | a write that adds a key is accepted, its answer is an error, and the key is taken out of the spec again: the keys declared match the memory and Vault, the step reports the role as current, and the key stays |
| `HealthShortGrace` | `health.go:168` | with a grace below the retry interval every failure starts its own episode, and the watch never unreadies the pod |

Others were met on the way and have no run, since each follows from a line or two:

* `runner.go:240`: with `applied` A, an edit to B that fails and is then taken
  back is not counted, though `runner.go:141` says a change is counted once: the
  counted changes are those of `Diff(applied, new)`, and A to A has none.
* `health.go:234`: a skipped pass does not mark the manager ready, and the comment on
  `ReconcileSkipped` says so; the one on `ReconcileDone` (`health.go:211`),
  `runner.go:175`, `README.md:280` and `SPEC.md:318` let it count as a clean pass for
  readiness.
* `engineconfig.go:122` and `SPEC.md:223`, which lists three cases that rewrite
  content: a mount replaced between the read of its UUID and the write is a
  fourth (the excuse `raced`).
* `pods.go:79`: a copy that was complete while its `chmod` was lost has the right
  checksum and is not repaired, though `pods.go:71` promises the mode.
* `reconcile.go:306`: a version whose deregistration failed is not found again,
  because the list of versions comes from the mounts just disabled.
* `reconcile.go:166` and `reconcile_test.go:579` say that only a version move reloads,
  an edit of options not; `mounts.go:198` reloads for options, and says why.
* `roles.go:49`: a key removed from a role is removed by sending the others. Of a
  plugin that merges what is written, as the test server of `roles_test.go:149` does,
  the role is written again and the key keeps its value, though `README.md:191` says
  that the field goes back to the plugin's default. `CleanStepConverges` claims that
  of plugins that replace only (`Merging`).
* `parse.go:132` compares the paths of mounts for equality, so it accepts an engine
  config at `m/roles/config` (`config` of a secret mount `m/roles`) beside a role of an
  auth mount `m`, whose directory is `m/roles`. The role prune addresses what it lists
  there by path, and under `full` may delete the config it was to keep clear of.
  `PlacesApart` allows it by name.
* `roles.go:167`: lists of other lengths differ, though `README.md:195` says that
  they compare as sets and `roles.go:159` names plugins that read them back
  deduplicated: a list declared with a repeated item is written in every pass.
* `roles.go:148`: texts that look like numbers or durations compare by amount, so
  an edit of a plain text field from `1` to `1.0`, or from `60m` to `1h`, is not
  written (`ComparisonIsFair` takes amounts for what the code takes them for).
* `reconcile.go:253`: an auth mount of the manager and a secret mount of an operator
  may share a path; the prune lists the path, and deletes the undeclared roles of the
  operator's mount, though `README.md:208` speaks of managed mounts. `OnlyItsOwnRoles`
  allows it by name.
* `diff.go:44` and `mounts.go:140` say that a logged change maps to the work it
  causes, with keys that are the reconciler's. `LogTellsTheWork` allows by name where
  it does not. Logged and not done: the plugin of a mount that is there (`diff.go:289`,
  `mounts.go:166`); options that are missing, blank or the manager's marker
  (`diff.go:300`, `mounts.go:211`); role data that reads back as it did, `60m` for `1h`
  (`diff.go:203`, `roles.go:148`); engine data with the JSON it had (`engineconfig.go:285`).
  Done and not logged: an edit of a plugin version that is declared with two types,
  since Vault keeps both and the log's key has no type (`diff.go:219`, `catalog.go:32`);
  and a catalog version spelled otherwise, whose file is copied under the new name and
  registered again (`reconcile.go:105`, `catalog.go:39`).
* `parse.go`: `.` and `..` are refused in a `rolesPath` and accepted as a role name;
  of entries for one place, only engine configs are refused; a `rolesPath` inside
  another is accepted, though the listing of the outer may show the inner.
* `client.go:29`: the observer hears of a failed renewal only when the login
  that follows it fails too.

## Not modelled

* **Two managers.** The chart deploys one replica with strategy `Recreate`, so
  there is one writer. A write that was under way when the process died and that
  arrives during the next pass is left out as well.
* **Engines that change their own config** (credential rotation by Vault), and a
  state Secret restored by hand from an older copy.
* **EnsureMount, EnsurePlugin and EnsureRole are one step each**, although they read
  and then write. A change by an operator between the two is the same as one before
  or after, except that the decision to reload, or to write, is older.
* **A mount without a version, a mount declared twice, plugin types.** In
  `Reconcile` types are part of the mount key and the plugin name; of one name with
  two types, whose reload and prune the code does by name, it says nothing (the log of
  such catalogs is in `ChangeLog`). Of catalogs that declare one version
  twice, in two spellings, the convergence properties leave out the effect: such
  entries overwrite each other in every pass.
* **File modes** and the restarts of Vault itself (an instance runs what it was
  started with until it is reloaded or its mount is disabled).
* **Decoding the ConfigMap**: YAML, unknown fields, the syntax of durations, and
  `validateEngineData`, which refuses data JSON cannot carry. Each is a function of
  one value without state; what they refuse is `Invalid` in `Runner`.
* **The insides of a fetch**: archives, OCI layers, checksums of downloads. A fetch
  yields the content of the source, or fails.
* **The insides of a login**: token files, backoff, TLS. `Health` has its outcomes.
* **HTTP serving of the probes, metrics, logging and its wording, flags.** The code
  keeps no state there that another part reads, but for the count of changes in
  `Runner`.
* **client-go, Kubernetes and Vault** are modelled from how the code uses them.

* **What stands for something else.** In `ChangeLog` a source stands for the binary it
  serves and the key of a Secret for its value: a source or Secret that changes behind
  an unchanged spec is work no log of edits can tell. In `Roles` a path merges or
  replaces once and for all. That Vault refuses a secret mount inside another is taken
  from Vault, and stated where it is used (`SecretMountsApart`).

## Plan

Built, in this order, because each is more likely to go wrong than the next:
`Runner` with `LatestWins` (an edit lost is invisible), `EngineConfig` (the only
state that outlives the process), `Reconcile`, `Health`, `Roles`; then the pure
parts `SpecSettings`, `MountTune`, `SpecRules` and `ChangeLog` beside the machines
that call them, and the proofs of `Reconcile` and `Roles`.

What is left, in order of worth:

1. One machine for the whole pass, binaries to roles, for what its parts do to each
   other: a mount the prune disables takes its engine configs and roles with it.
2. The login in detail: a token file that changes between attempts, the backoff.
