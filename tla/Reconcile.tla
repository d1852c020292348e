------------------------------ MODULE Reconcile ------------------------------
(***************************************************************************)
(* A reconcile pass over binaries, catalog, mounts and reloads             *)
(* (internal/reconcile/reconcile.go), with the files it places by exec on  *)
(* the Vault pods (internal/k8s/pods.go) and Vault's plugin catalog and    *)
(* mounts (internal/vault/catalog.go, mounts.go, reload.go).               *)
(*                                                                         *)
(* Every request may fail, before or after it took effect, and the first   *)
(* failure ends the pass; the process may die anywhere.  Meanwhile         *)
(* operators edit the ConfigMap, sources serve other binaries, Vault pods  *)
(* come and go, and operators work in Vault by hand.  The engine config    *)
(* step, between the reloads and the prune, is EngineConfig's; here it and *)
(* the roles are a place where a pass may fail.                            *)
(***************************************************************************)
EXTENDS Naturals, FiniteSets

CONSTANTS Plugins,      \* catalog names
          Versions,     \* versions, as a spec may spell them
          Numbers,      \* versions, as Vault compares them
          NumberOf,     \* [Versions -> Numbers]: drops a leading "v"
          Reported,     \* [Numbers -> Versions]: the spelling Vault reports
          Mounts,       \* mount keys, "<type>:<path>"
          Pods,         \* the pods the selector matches
          Contents,     \* what a plugin binary may be
          Options, Descriptions,
          Specs,        \* the specs a ConfigMap may hold
          Undeclared,   \* the spec does not have the mount
          NoSpec, NoEntry, NoFile, NoMount,
          Unregistered, \* the catalog does not have the version
          Torn,         \* a file whose copy was cut short
          MaxChanges,   \* bound: changes by operators, sources and pods
          MaxFaults     \* bound: failed requests and crashes

\* A catalog entry, which is also the name of its file (pluginFileName), and
\* the slot of Vault's catalog it is registered in (nvKey).
Entries == Plugins \X Versions
Slots == Plugins \X Numbers
Slot(e) == <<e[1], NumberOf[e[2]]>>

\* What the catalog holds of a version, the command spelled as in the spec; a
\* mount as the spec declares it, and as Vault has it.
Registrations == [content : Contents, command : Versions]
DeclaredMounts == [plugin : Plugins, version : Versions,
                   options : Options, description : Descriptions]
LiveMounts == [plugin : Plugins, number : Numbers, managed : BOOLEAN,
               options : Options, description : Descriptions]

\* What a running instance of a mount was started with.
Instances == [registered : Registrations \cup {Unregistered}, options : Options]

\* Validate: a mount references a plugin of the catalog, in any version.
SpecShapes == [catalog : SUBSET Entries,
               mounts : [Mounts -> DeclaredMounts \cup {Undeclared}],
               pruneMode : {"full", "deregister", "never"}]
Declared(s) == { m \in Mounts : s.mounts[m] # Undeclared }
PinnedSlot(s, m) == <<s.mounts[m].plugin, NumberOf[s.mounts[m].version]>>
Validated(s) ==
    \A m \in Declared(s) :
        \E e \in s.catalog : e[1] = s.mounts[m].plugin

ASSUME SpecAssumption ==
    /\ \A s \in Specs : s \in SpecShapes /\ Validated(s)
    /\ NoSpec \notin Specs
ASSUME VersionAssumption ==
    /\ NumberOf \in [Versions -> Numbers]
    /\ Reported \in [Numbers -> Versions]
    /\ \A n \in Numbers : NumberOf[Reported[n]] = n
ASSUME SentinelAssumption ==
    /\ Undeclared \notin DeclaredMounts
    /\ NoEntry \notin Entries
    /\ {NoFile, Torn} \cap Contents = {} /\ NoFile # Torn
    /\ NoMount \notin Mounts \cup LiveMounts \cup Instances
    /\ Unregistered \notin Registrations
ASSUME BoundAssumption == {MaxChanges, MaxFaults} \subseteq Nat

VARIABLES
    spec,       \* the spec of the ConfigMap
    source,     \* what the source of each catalog entry serves
    up,         \* the Running Vault pods
    file,       \* the plugin directory of each pod
    catalog,    \* Vault's plugin catalog
    mount,      \* Vault's mounts
    loaded,     \* what the running instance of each mount was started with
    pc,         \* the pass: idle, ensure, place, prune, deregister, remove
    goal,       \* the spec of the pass
    pods,       \* the pods it listed
    todo,       \* catalog entries still to ensure
    entry,      \* the one being placed
    content,    \*   and what was fetched for it
    left,       \* pods it still has to be placed on, or removed from
    due,        \* mounts still to ensure
    reload,     \* plugins to reload
    doomed,     \* mounts still to prune, with the slots they were on
    gone,       \* the slot of the mount just disabled
    result,     \* what the last pass returned: none, ok, error
    changes,    \* changes by others so far
    faults,     \* failed requests and crashes so far
    calm,       \* history: nobody changed anything during this pass
    made,       \* history: mounts operators enabled during this pass
    excused     \* history: mounts that may be stale with no reload pending: a
                \* pass failed, the version was deregistered, or the plugin in
                \* the spec is another one

world == <<spec, source, up>>
live == <<file, catalog, mount, loaded>>
local == <<goal, pods, todo, entry, content, left, due, reload, doomed, gone>>
vars == <<spec, source, up, file, catalog, mount, loaded, pc, goal, pods, todo,
          entry, content, left, due, reload, doomed, gone, result, changes,
          faults, calm, made, excused>>

TypeOK ==
    /\ spec \in Specs
    /\ source \in [Entries -> Contents]
    /\ up \in SUBSET Pods
    /\ file \in [Pods -> [Entries -> Contents \cup {NoFile, Torn}]]
    /\ catalog \in [Slots -> Registrations \cup {Unregistered}]
    /\ mount \in [Mounts -> LiveMounts \cup {NoMount}]
    /\ loaded \in [Mounts -> Instances \cup {NoMount}]
    /\ pc \in {"idle", "ensure", "place", "prune", "deregister", "remove"}
    /\ goal \in Specs \cup {NoSpec}
    /\ pods \in SUBSET Pods
    /\ todo \in SUBSET Entries
    /\ entry \in Entries \cup {NoEntry}
    /\ content \in Contents \cup {NoFile}
    /\ left \in SUBSET pods
    /\ due \in SUBSET Mounts
    /\ reload \in SUBSET Plugins
    /\ doomed \in SUBSET (Mounts \X Slots)
    /\ gone \in Slots \cup {NoEntry}
    /\ result \in {"none", "ok", "error"}
    /\ changes \in 0..MaxChanges
    /\ faults \in 0..MaxFaults
    /\ calm \in BOOLEAN
    /\ made \in SUBSET Mounts
    /\ excused \in SUBSET Mounts

\* A manager that starts on an empty Vault.  Any other Vault it may start on
\* is left by a crash, or made by operators.
Init ==
    /\ spec \in Specs
    /\ source \in [Entries -> Contents]
    /\ up = Pods
    /\ file = [p \in Pods |-> [e \in Entries |-> NoFile]]
    /\ catalog = [s \in Slots |-> Unregistered]
    /\ mount = [m \in Mounts |-> NoMount]
    /\ loaded = [m \in Mounts |-> NoMount]
    /\ pc = "idle"
    /\ goal = NoSpec
    /\ pods = {} /\ left = {}
    /\ todo = {} /\ due = {} /\ reload = {} /\ doomed = {}
    /\ entry = NoEntry /\ content = NoFile /\ gone = NoEntry
    /\ result = "none"
    /\ changes = 0 /\ faults = 0
    /\ calm = TRUE
    /\ made = {} /\ excused = {}

(***************************************************************************)
(* Vault                                                                   *)
(***************************************************************************)
Registered(m) == catalog[<<mount[m].plugin, mount[m].number>>]

\* What an instance of the mount would be started with now; a mount is stale
\* when its running instance was started with something else.
Now(m) == [registered |-> Registered(m), options |-> mount[m].options]
Stale(m) == mount[m] # NoMount /\ loaded[m] # Now(m)

Excuse == excused' = excused \cup { m \in Mounts : Stale(m)' }

(***************************************************************************)
(* What happens outside the manager                                        *)
(***************************************************************************)
Change ==
    /\ changes < MaxChanges
    /\ changes' = changes + 1
    /\ calm' = (pc = "idle")

Elsewhere == UNCHANGED <<pc, local, result, faults, made>>

EditSpec(s) ==
    /\ Change
    /\ spec' = s
    /\ UNCHANGED <<source, up, live, excused>> /\ Elsewhere

\* A source that is not pinned by a checksum serves another binary.
Publish(e, c) ==
    /\ Change
    /\ source' = [source EXCEPT ![e] = c]
    /\ UNCHANGED <<spec, up, live, excused>> /\ Elsewhere

StopPod(p) ==
    /\ Change
    /\ p \in up
    /\ up' = up \ {p}
    /\ UNCHANGED <<spec, source, live, excused>> /\ Elsewhere

\* A pod comes back with its plugin directory, or with a new one.
StartPod(p) ==
    /\ p \notin up
    /\ up' = up \cup {p}
    /\ \/ UNCHANGED file
       \/ file' = [file EXCEPT ![p] = [e \in Entries |-> NoFile]]
    /\ calm' = (pc = "idle")
    /\ UNCHANGED <<spec, source, catalog, mount, loaded, changes, excused>> /\ Elsewhere

OperatorDisables(m) ==
    /\ Change
    /\ mount[m] # NoMount
    /\ mount' = [mount EXCEPT ![m] = NoMount]
    /\ loaded' = [loaded EXCEPT ![m] = NoMount]
    /\ UNCHANGED <<world, file, catalog, excused>> /\ Elsewhere

\* A mount made by hand carries no marker.
OperatorEnables(m, s, o, d) ==
    /\ Change
    /\ mount[m] = NoMount
    /\ catalog[s] # Unregistered
    /\ mount' = [mount EXCEPT ![m] = [plugin |-> s[1], number |-> s[2],
                     managed |-> FALSE, options |-> o, description |-> d]]
    /\ loaded' = [loaded EXCEPT ![m] = [registered |-> catalog[s], options |-> o]]
    /\ made' = IF pc = "idle" THEN made ELSE made \cup {m}
    /\ UNCHANGED <<world, file, catalog, excused, pc, local, result, faults>>

OperatorDeregisters(s) ==
    /\ Change
    /\ catalog[s] # Unregistered
    /\ catalog' = [catalog EXCEPT ![s] = Unregistered]
    /\ UNCHANGED <<world, file, mount, loaded>> /\ Elsewhere
    /\ Excuse

(***************************************************************************)
(* The pass                                                                *)
(***************************************************************************)
Quiet == UNCHANGED <<world, changes, calm, made>>
Fault == faults < MaxFaults /\ faults' = faults + 1

\* The pass returns; its locals are gone.
Return(outcome) ==
    /\ pc' = "idle"
    /\ goal' = NoSpec
    /\ pods' = {} /\ left' = {}
    /\ todo' = {} /\ due' = {} /\ reload' = {} /\ doomed' = {}
    /\ entry' = NoEntry /\ content' = NoFile /\ gone' = NoEntry
    /\ result' = outcome
    /\ calm' = TRUE /\ made' = {}
    /\ UNCHANGED <<world, changes>>

\* What an error leaves stale is not reloaded by a later pass: the plugins to
\* reload are a local.
ReturnError == Return("error") /\ Excuse

BeginPass ==
    /\ pc = "idle"
    /\ up # {}
    /\ pc' = "ensure"
    /\ goal' = spec
    /\ pods' = up
    /\ todo' = spec.catalog
    /\ due' = Declared(spec)
    /\ UNCHANGED <<live, entry, content, left, reload, doomed, gone, result, faults,
                   excused>>
    /\ Quiet

\* No Running pod is an error, and so is a failure to list them.
BeginFails ==
    /\ pc = "idle"
    /\ \/ up = {} /\ UNCHANGED faults
       \/ Fault
    /\ UNCHANGED live
    /\ ReturnError

\* The pods listed at the start stay the pass's, whatever comes and goes.
\* Mutant: they are listed again.
TargetsNow == up
Targets == pods

Fetch(e) ==
    /\ pc = "ensure"
    /\ e \in todo
    /\ pc' = "place"
    /\ entry' = e
    /\ content' = source[e]
    /\ left' = Targets
    /\ UNCHANGED <<live, goal, pods, todo, due, reload, doomed, gone, result, faults,
                   excused>>
    /\ Quiet

FetchFails ==
    /\ pc = "ensure"
    /\ todo # {}
    /\ Fault
    /\ UNCHANGED live
    /\ ReturnError

\* EnsureFile, by checksum.
\* Mutant: a file that is there is taken for the binary.
HoldsSomething(p) == file[p][entry] # NoFile
Holds(p) == file[p][entry] = content
Put(p, f) == file' = [file EXCEPT ![p][entry] = f]

EnsureFile(p) ==
    /\ pc = "place"
    /\ p \in left \cap up
    /\ IF Holds(p) THEN UNCHANGED file
       ELSE Put(p, content)
    /\ left' = left \ {p}
    /\ UNCHANGED <<catalog, mount, loaded, pc, goal, pods, todo, entry, content, due,
                   reload, doomed, gone, result, faults, excused>>
    /\ Quiet

\* The pod is gone, or an exec fails: before the copy, in it, or after it.
EnsureFileFails(p) ==
    /\ pc = "place"
    /\ p \in left
    /\ \/ p \notin up /\ UNCHANGED <<file, faults>>
       \/ Fault /\ UNCHANGED file
       \/ /\ Fault
          /\ p \in up
          /\ ~Holds(p)
          /\ \E f \in {Torn, content} : Put(p, f)
    /\ UNCHANGED <<catalog, mount, loaded>>
    /\ ReturnError

\* EnsurePlugin: registers what the catalog does not have like this.
Wanted == [content |-> content, command |-> entry[2]]
\* Mutant: only a new version is a change.
RegistersNew == catalog[Slot(entry)] = Unregistered
Registers == catalog[Slot(entry)] # Wanted
NextEntry ==
    /\ pc' = "ensure"
    /\ todo' = todo \ {entry}
    /\ entry' = NoEntry
    /\ content' = NoFile

\* Mutant: the first pod is enough.
PlacedSomewhere == left # pods
Placed == left = {}

EnsurePlugin ==
    /\ pc = "place"
    /\ Placed
    /\ catalog' = [catalog EXCEPT ![Slot(entry)] = Wanted]
    /\ reload' = IF Registers THEN reload \cup {entry[1]} ELSE reload
    /\ NextEntry
    /\ UNCHANGED <<file, mount, loaded, goal, pods, left, due, doomed, gone, result,
                   faults, excused>>
    /\ Quiet

EnsurePluginFails ==
    /\ pc = "place"
    /\ Placed
    /\ Fault
    /\ catalog' \in {catalog, [catalog EXCEPT ![Slot(entry)] = Wanted]}
    /\ UNCHANGED <<file, mount, loaded>>
    /\ ReturnError

\* EnsureMount, once the catalog is done.  The plugin of a mount that exists
\* is not looked at, and its options and description only if it is managed:
\* the version of the spec's plugin may be pinned on another one, and then the
\* spec's plugin is what is reloaded.
AtMounts == pc = "ensure" /\ todo = {}

\* Mutant: versions are compared as they are spelled.
VersionMovesBySpelling(m, w) == Reported[mount[m].number] # w.version
VersionMoves(m, w) == mount[m].number # NumberOf[w.version]

OptionsMove(m, w) == mount[m].managed /\ mount[m].options # w.options

Tuned(m, w) ==
    IF mount[m] = NoMount
    THEN [plugin |-> w.plugin, number |-> NumberOf[w.version], managed |-> TRUE,
          options |-> w.options, description |-> w.description]
    ELSE IF mount[m].managed
    THEN [mount[m] EXCEPT !.number = NumberOf[w.version],
                          !.options = w.options, !.description = w.description]
    ELSE [mount[m] EXCEPT !.number = NumberOf[w.version]]

\* MountResult.Reload: a new mount, a version or options that move.
NeedsReload(m, w) == mount[m] = NoMount \/ VersionMoves(m, w) \/ OptionsMove(m, w)

\* Vault enables a mount, or moves it to a version, only from the catalog; it
\* starts an instance of a new mount, and leaves that of a tuned one alone.
Accepts(m, w) ==
    mount[m] = NoMount \/ VersionMoves(m, w) =>
        catalog[<<Tuned(m, w).plugin, NumberOf[w.version]>>] # Unregistered

Apply(m, w) ==
    /\ Accepts(m, w)
    /\ mount' = [mount EXCEPT ![m] = Tuned(m, w)]
    /\ loaded' = IF mount[m] # NoMount THEN loaded
                 ELSE [loaded EXCEPT ![m] =
                         [registered |-> catalog[<<w.plugin, NumberOf[w.version]>>],
                          options |-> w.options]]

EnsureMount(m) ==
    /\ AtMounts
    /\ m \in due
    /\ Apply(m, goal.mounts[m])
    /\ reload' = IF NeedsReload(m, goal.mounts[m])
                 THEN reload \cup {goal.mounts[m].plugin} ELSE reload
    /\ due' = due \ {m}
    /\ excused' = IF mount'[m].plugin = goal.mounts[m].plugin THEN excused
                  ELSE excused \cup {m}
    /\ UNCHANGED <<file, catalog, pc, goal, pods, todo, entry, content, left, doomed,
                   gone, result, faults>>
    /\ Quiet

EnsureMountFails(m) ==
    /\ AtMounts
    /\ m \in due
    /\ \/ ~Accepts(m, goal.mounts[m]) /\ UNCHANGED <<mount, loaded, faults>>
       \/ Fault /\ UNCHANGED <<mount, loaded>>
       \/ Fault /\ Apply(m, goal.mounts[m])
    /\ UNCHANGED <<file, catalog>>
    /\ ReturnError

\* ReloadPlugin restarts the instances of every mount of the plugin.
AtReloads == AtMounts /\ due = {}
Mounted(n) == { m \in Mounts : mount[m] # NoMount /\ mount[m].plugin = n }
Restart(n) == loaded' = [m \in Mounts |-> IF m \in Mounted(n) THEN Now(m) ELSE loaded[m]]

ReloadPlugin(n) ==
    /\ AtReloads
    /\ n \in reload
    /\ Restart(n)
    /\ reload' = reload \ {n}
    /\ excused' = excused \ Mounted(n)
    /\ UNCHANGED <<file, catalog, mount, pc, goal, pods, todo, entry, content, left,
                   due, doomed, gone, result, faults>>
    /\ Quiet

ReloadFails(n) ==
    /\ AtReloads
    /\ n \in reload
    /\ Fault
    /\ Restart(n) \/ UNCHANGED loaded
    /\ UNCHANGED <<file, catalog, mount>>
    /\ ReturnError

\* reconcileEngineConfigs, reconcileRoles or ListManagedMounts fails.
AtPrune == AtReloads /\ reload = {}
LaterStepFails ==
    /\ AtPrune
    /\ Fault
    /\ UNCHANGED live
    /\ ReturnError

\* ListManagedMounts: only mounts that carry the marker.
\* Mutant: every mount is taken for a managed one.
ManagedAll == { m \in Mounts : mount[m] # NoMount }
Managed == { m \in Mounts : mount[m] # NoMount /\ mount[m].managed }

ListManagedMounts ==
    /\ AtPrune
    /\ goal.pruneMode # "never"
    /\ doomed' = { <<m, <<mount[m].plugin, mount[m].number>>>> :
                     m \in Managed \ Declared(goal) }
    /\ pc' = "prune"
    /\ UNCHANGED <<live, goal, pods, todo, entry, content, left, due, reload, gone,
                   result, faults, excused>>
    /\ Quiet

\* desiredVersions: the catalog's, and those the mounts pin.
\* Mutant: they are compared as they are spelled.
DesiredSlotsAsSpelled(s) ==
    { t \in Slots : <<t[1], Reported[t[2]]>> \in s.catalog }
DesiredSlots(s) ==
    { Slot(e) : e \in s.catalog } \cup { PinnedSlot(s, m) : m \in Declared(s) }

Disable(m) ==
    /\ mount' = [mount EXCEPT ![m] = NoMount]
    /\ loaded' = [loaded EXCEPT ![m] = NoMount]

\* What is at the path goes, whatever it is by now; what is deregistered next
\* is the version that was listed there.
DisableMount(d) ==
    /\ pc = "prune"
    /\ d \in doomed
    /\ Disable(d[1])
    /\ doomed' = doomed \ {d}
    /\ IF d[2] \in DesiredSlots(goal) THEN UNCHANGED <<pc, gone>>
       ELSE pc' = "deregister" /\ gone' = d[2]
    /\ UNCHANGED <<file, catalog, goal, pods, todo, entry, content, left, due, reload,
                   result, faults, excused>>
    /\ Quiet

DisableMountFails(d) ==
    /\ pc = "prune"
    /\ d \in doomed
    /\ Fault
    /\ Disable(d[1]) \/ UNCHANGED <<mount, loaded>>
    /\ UNCHANGED <<file, catalog>>
    /\ ReturnError

DeregisterPlugin ==
    /\ pc = "deregister"
    /\ catalog' = [catalog EXCEPT ![gone] = Unregistered]
    /\ IF goal.pruneMode = "full" THEN pc' = "remove" /\ left' = Targets /\ UNCHANGED gone
       ELSE pc' = "prune" /\ gone' = NoEntry /\ UNCHANGED left
    /\ UNCHANGED <<file, mount, loaded, goal, pods, todo, entry, content, due, reload,
                   doomed, result, faults>>
    /\ Quiet
    /\ Excuse

DeregisterPluginFails ==
    /\ pc = "deregister"
    /\ Fault
    /\ catalog' \in {catalog, [catalog EXCEPT ![gone] = Unregistered]}
    /\ UNCHANGED <<file, mount, loaded>>
    /\ ReturnError

\* The file is named with the version as Vault reports it.
PrunedFile == <<gone[1], Reported[gone[2]]>>
Remove(p) == file' = [file EXCEPT ![p][PrunedFile] = NoFile]

RemoveFile(p) ==
    /\ pc = "remove"
    /\ p \in left \cap up
    /\ Remove(p)
    /\ left' = left \ {p}
    /\ IF left' = {} THEN pc' = "prune" /\ gone' = NoEntry ELSE UNCHANGED <<pc, gone>>
    /\ UNCHANGED <<catalog, mount, loaded, goal, pods, todo, entry, content, due,
                   reload, doomed, result, faults, excused>>
    /\ Quiet

RemoveFileFails(p) ==
    /\ pc = "remove"
    /\ p \in left
    /\ \/ p \notin up /\ UNCHANGED <<file, faults>>
       \/ Fault /\ UNCHANGED file
       \/ Fault /\ p \in up /\ Remove(p)
    /\ UNCHANGED <<catalog, mount, loaded>>
    /\ ReturnError

PassSucceeds ==
    /\ \/ AtPrune /\ goal.pruneMode = "never"
       \/ pc = "prune" /\ doomed = {}
    /\ UNCHANGED <<live, faults, excused>>
    /\ Return("ok")

\* The process dies between any two requests.
Crash ==
    /\ pc # "idle"
    /\ Fault
    /\ UNCHANGED live
    /\ ReturnError

Others ==
    \/ \E s \in Specs : EditSpec(s)
    \/ \E e \in Entries, c \in Contents : Publish(e, c)
    \/ \E p \in Pods : StopPod(p)
    \/ \E p \in Pods : StartPod(p)
    \/ \E m \in Mounts : OperatorDisables(m)
    \/ \E m \in Mounts, s \in Slots, o \in Options, d \in Descriptions :
           OperatorEnables(m, s, o, d)
    \/ \E s \in Slots : OperatorDeregisters(s)

Ensuring ==
    \/ BeginPass
    \/ BeginFails
    \/ \E e \in Entries : Fetch(e)
    \/ FetchFails
    \/ \E p \in Pods : EnsureFile(p)
    \/ \E p \in Pods : EnsureFileFails(p)
    \/ EnsurePlugin
    \/ EnsurePluginFails
    \/ \E m \in Mounts : EnsureMount(m)
    \/ \E m \in Mounts : EnsureMountFails(m)
    \/ \E n \in Plugins : ReloadPlugin(n)
    \/ \E n \in Plugins : ReloadFails(n)
    \/ LaterStepFails

Pruning ==
    \/ ListManagedMounts
    \/ \E d \in Mounts \X Slots : DisableMount(d)
    \/ \E d \in Mounts \X Slots : DisableMountFails(d)
    \/ DeregisterPlugin
    \/ DeregisterPluginFails
    \/ \E p \in Pods : RemoveFile(p)
    \/ \E p \in Pods : RemoveFileFails(p)
    \/ PassSucceeds

Pass == Ensuring \/ Pruning
Next == Others \/ Pass \/ Crash

Spec == Init /\ [][Next]_vars

\* The runner keeps making passes, and a pass ends (see Runner).
FairSpec == Spec /\ WF_vars(Pass)

(***************************************************************************)
(* Safety                                                                  *)
(***************************************************************************)

\* A running instance falls behind the catalog or the options of its mount
\* only while a reload of its plugin is pending in the pass, or because a
\* pass failed or somebody else took the version away.
StaleIsPending ==
    \A m \in Mounts : Stale(m) => mount[m].plugin \in reload \/ m \in excused

\* What a pod holds under the name of a catalog entry.
PodHolds(p, e, c) == file[p][e] = c

\* A version is registered only after every pod the pass listed has the
\* binary: any of them may be the one Vault starts the plugin on next.  Said of
\* passes in which no pod restarts, and nothing else changes, meanwhile.
BinariesFirst ==
    [][\A s \in Slots :
          calm /\ calm' /\ catalog'[s] # catalog[s] /\ catalog'[s] # Unregistered
              => \A p \in pods : PodHolds(p, <<s[1], catalog'[s].command>>,
                                          catalog'[s].content)]_vars

\* The live state is what the spec asks for, on these pods: binaries, catalog,
\* mounts, and nothing managed is left over.  The plugin of a mount that was
\* there before is the exception MountsRunTheirPlugin is about.
OneEntryPerSlot(s) == \A e, f \in s.catalog : Slot(e) = Slot(f) => e = f
Converged(s, where) ==
    /\ \A e \in s.catalog :
          /\ \A p \in where : PodHolds(p, e, source[e])
          /\ catalog[Slot(e)] = [content |-> source[e], command |-> e[2]]
    /\ \A m \in Declared(s) :
          /\ mount[m] # NoMount
          /\ mount[m].number = NumberOf[s.mounts[m].version]
          /\ mount[m].managed => /\ mount[m].options = s.mounts[m].options
                                 /\ mount[m].description = s.mounts[m].description
    /\ s.pruneMode # "never" => Managed \subseteq Declared(s)

\* A pass that returns no error, and that nobody interfered with, has
\* converged, whatever state earlier passes, faults and people left.
CleanPassConverges ==
    [][pc # "idle" /\ pc' = "idle" /\ result' = "ok" /\ calm /\ OneEntryPerSlot(goal)
          => Converged(goal, pods)]_vars

\* What converged is left alone: no copy, no registration, no tune, no reload.
ConvergedIsLeftAlone ==
    [][(pc \in {"ensure", "place"}) /\ calm /\ OneEntryPerSlot(goal)
          /\ Converged(goal, pods) /\ calm'
          => UNCHANGED <<file, catalog, mount>> /\ reload' \subseteq reload]_vars

\* A step of the pass, and not of anybody else.
ByThePass == UNCHANGED <<world, changes>>

\* The prune never takes away what the spec of its pass names, whatever others
\* do meanwhile.
NeverPrunesDesired ==
    [][(pc \in {"prune", "deregister", "remove"}) /\ ByThePass =>
          /\ \A e \in goal.catalog :
                /\ catalog'[Slot(e)] = catalog[Slot(e)]
                /\ \A p \in Pods : file'[p][e] = file[p][e]
          /\ \A m \in Declared(goal) :
                /\ mount'[m] = mount[m]
                /\ catalog'[PinnedSlot(goal, m)] = catalog[PinnedSlot(goal, m)]]_vars

\* A mount the manager did not make keeps its options and description, and is
\* not pruned, whatever others do meanwhile.  Nothing is said of the mounts that
\* operators enabled while this pass was under way (made): one that was put in
\* the place of a listed mount before it is disabled goes.
ForeignMountsStay ==
    [][\A m \in Mounts \ made :
          ByThePass /\ mount[m] # NoMount /\ ~mount[m].managed
              => mount'[m] # NoMount
                 /\ mount'[m] \in {mount[m], [mount[m] EXCEPT !.number = mount'[m].number]}]_vars

(***************************************************************************)
(* Liveness                                                                *)
(***************************************************************************)

\* A spec a pass can deliver: pods to place binaries on, every version a mount
\* pins in its catalog, no mount of another plugin in the way.
Deliverable ==
    /\ up # {}
    /\ OneEntryPerSlot(spec)
    /\ \A m \in Declared(spec) :
          /\ \E e \in spec.catalog : Slot(e) = PinnedSlot(spec, m)
          /\ mount[m] # NoMount => mount[m].plugin = spec.mounts[m].plugin

\* When changes and faults are over, Vault ends up as the spec says.
Settles == <>[]Deliverable => <>[]Converged(spec, up)

(***************************************************************************)
(* Statements of the documentation the code does not keep                  *)
(***************************************************************************)
CleanPass == pc # "idle" /\ pc' = "idle" /\ result' = "ok" /\ calm

\* reconcile.go:99: plugins whose registration or mount changed are reloaded
\* "so running instances pick up the new binary/version".
InstancesAreCurrent ==
    [][CleanPass => \A m \in Declared(goal) : ~Stale(m)]_vars

\* reconcile.go:65: a pass "drives live state toward the given spec
\* regardless of what changed".
MountsRunTheirPlugin ==
    [][CleanPass => \A m \in Declared(goal) :
          mount[m].plugin = goal.mounts[m].plugin]_vars

\* types.go:61: full "deletes the binary from every Vault pod's
\* plugin_directory".
BinariesAreDeleted ==
    [][pc = "remove" /\ pc' = "prune" =>
          \A p \in pods, e \in Entries : Slot(e) = gone => file'[p][e] = NoFile]_vars
=============================================================================
