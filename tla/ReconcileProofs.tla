--------------------------- MODULE ReconcileProofs ---------------------------
(***************************************************************************)
(* Proofs about Reconcile, for any number of plugins, versions, mounts,    *)
(* pods, specs, changes and faults, and the option maps of MountTune.      *)
(***************************************************************************)
EXTENDS MountTune, TLAPS

LEMMA SpecsHaveShapes ==
    ASSUME NEW s \in Specs
    PROVE  /\ s.catalog \in SUBSET Entries
           /\ \A m \in Declared(s) : m \in Mounts /\ s.mounts[m] \in DeclaredMounts
    BY SpecAssumption DEF SpecShapes, Declared

LEMMA EntriesHaveSlots ==
    ASSUME NEW e \in Entries
    PROVE  /\ Slot(e) \in Slots
           /\ e[1] \in Plugins /\ e[2] \in Versions
           /\ e = <<e[1], e[2]>>
    BY VersionAssumption DEF Entries, Slot, Slots

LEMMA TunedIsLive ==
    ASSUME NEW m \in Mounts, NEW w \in DeclaredMounts,
           mount \in [Mounts -> LiveMounts \cup {NoMount}]
    PROVE  Tuned(m, w) \in LiveMounts
<1>1. NumberOf[w.version] \in Numbers
  BY VersionAssumption DEF DeclaredMounts
<1>2. CASE mount[m] = NoMount
  BY <1>1, <1>2 DEF Tuned, LiveMounts, DeclaredMounts
<1>3. CASE mount[m] # NoMount
  <2>1. mount[m] \in LiveMounts
    BY <1>3
  <2>2. QED
    BY <1>1, <1>3, <2>1 DEF Tuned, LiveMounts, DeclaredMounts
<1>4. QED
  BY <1>2, <1>3

\* What a pass starts its instances with.
LEMMA InstancesStart ==
    ASSUME TypeOK
    PROVE  /\ \A m \in Mounts : mount[m] # NoMount => Now(m) \in Instances
           /\ \A m \in Mounts, w \in DeclaredMounts :
                 [registered |-> catalog[<<w.plugin, NumberOf[w.version]>>],
                  options |-> w.options] \in Instances
<1>1. ASSUME NEW m \in Mounts, mount[m] # NoMount PROVE Now(m) \in Instances
  <2>1. mount[m] \in LiveMounts
    BY <1>1 DEF TypeOK
  <2>2. <<mount[m].plugin, mount[m].number>> \in Slots
    BY <2>1 DEF LiveMounts, Slots
  <2>3. Registered(m) \in Registrations \cup {Unregistered}
    BY <2>2 DEF TypeOK, Registered
  <2>4. QED
    BY <2>1, <2>3 DEF Now, Instances, LiveMounts
<1>2. ASSUME NEW m \in Mounts, NEW w \in DeclaredMounts
      PROVE  [registered |-> catalog[<<w.plugin, NumberOf[w.version]>>],
              options |-> w.options] \in Instances
  <2>1. <<w.plugin, NumberOf[w.version]>> \in Slots
    BY VersionAssumption DEF DeclaredMounts, Slots
  <2>2. catalog[<<w.plugin, NumberOf[w.version]>>] \in Registrations \cup {Unregistered}
    BY <2>1 DEF TypeOK
  <2>3. QED
    BY <2>2 DEF Instances, DeclaredMounts
<1>3. QED
  BY <1>1, <1>2

LEMMA Counters ==
    ASSUME TypeOK
    PROVE  /\ Change => changes' \in 0..MaxChanges /\ calm' \in BOOLEAN
           /\ Fault => faults' \in 0..MaxFaults
<1>1. MaxChanges \in Nat /\ MaxFaults \in Nat
  BY BoundAssumption
<1>2. Change => changes' \in 0..MaxChanges
  BY <1>1 DEF TypeOK, Change
<1>3. Change => calm' \in BOOLEAN
  BY DEF Change
<1>4. Fault => faults' \in 0..MaxFaults
  BY <1>1 DEF TypeOK, Fault
<1>5. QED
  BY <1>2, <1>3, <1>4

\* What the locals of a pass are in each of its phases.
Phases ==
    /\ pc = "idle" => left = {} /\ todo = {} /\ due = {} /\ reload = {}
    /\ pc # "idle" => /\ goal \in Specs
                      /\ todo \subseteq goal.catalog
                      /\ due \subseteq Declared(goal)
    /\ pc = "place" => entry \in todo /\ content \in Contents
    /\ pc \in {"idle", "ensure", "place"} => doomed = {}
    /\ pc \in {"prune", "deregister", "remove"} => todo = {} /\ due = {} /\ reload = {}
    /\ \A d \in doomed : d[1] \notin Declared(goal)
    /\ pc \in {"deregister", "remove"} => gone \in Slots \ DesiredSlots(goal)

TypeInv == TypeOK /\ Phases

\* What others do leaves the locals of the pass alone.
LEMMA OthersKeepPhases ==
    ASSUME Phases, UNCHANGED <<pc, local>>
    PROVE  Phases'
    BY DEF Phases, local

LEMMA ReturnKeepsTypes ==
    ASSUME TypeOK, NEW outcome \in {"ok", "error"}, Return(outcome),
           file' \in [Pods -> [Entries -> Contents \cup {NoFile, Torn}]],
           catalog' \in [Slots -> Registrations \cup {Unregistered}],
           mount' \in [Mounts -> LiveMounts \cup {NoMount}],
           loaded' \in [Mounts -> Instances \cup {NoMount}],
           faults' \in 0..MaxFaults,
           excused' \in SUBSET Mounts
    PROVE  TypeInv'
    BY DEF TypeOK, Return, TypeInv, Phases, world

LEMMA ErrorKeepsTypes ==
    ASSUME TypeOK, ReturnError,
           file' \in [Pods -> [Entries -> Contents \cup {NoFile, Torn}]],
           catalog' \in [Slots -> Registrations \cup {Unregistered}],
           mount' \in [Mounts -> LiveMounts \cup {NoMount}],
           loaded' \in [Mounts -> Instances \cup {NoMount}],
           faults' \in 0..MaxFaults
    PROVE  TypeInv'
<1>1. excused' \in SUBSET Mounts
  BY DEF ReturnError, Excuse, TypeOK
<1>2. QED
  BY <1>1, ReturnKeepsTypes DEF ReturnError

\* A file that is put, or removed, is one a pod may have.
LEMMA FilesAreFiles ==
    ASSUME TypeOK, NEW p \in Pods, NEW e \in Entries,
           NEW f \in Contents \cup {NoFile, Torn}
    PROVE  [file EXCEPT ![p][e] = f] \in [Pods -> [Entries -> Contents \cup {NoFile, Torn}]]
    BY DEF TypeOK

LEMMA WantedIsRegistration ==
    ASSUME TypeInv, pc = "place"
    PROVE  /\ entry \in Entries
           /\ Wanted \in Registrations
           /\ [catalog EXCEPT ![Slot(entry)] = Wanted]
                  \in [Slots -> Registrations \cup {Unregistered}]
<1>1. entry \in Entries /\ content \in Contents
  BY SpecsHaveShapes DEF TypeInv, Phases
<1>2. Wanted \in Registrations
  BY <1>1, EntriesHaveSlots DEF Wanted, Registrations
<1>3. QED
  BY <1>1, <1>2, EntriesHaveSlots DEF TypeInv, TypeOK

LEMMA ApplyKeepsTypes ==
    ASSUME TypeOK, NEW m \in Mounts, NEW w \in DeclaredMounts, Apply(m, w)
    PROVE  /\ mount' \in [Mounts -> LiveMounts \cup {NoMount}]
           /\ loaded' \in [Mounts -> Instances \cup {NoMount}]
<1>1. Tuned(m, w) \in LiveMounts
  BY TunedIsLive DEF TypeOK
<1>2. [registered |-> catalog[<<w.plugin, NumberOf[w.version]>>],
       options |-> w.options] \in Instances
  BY InstancesStart
<1>3. QED
  BY <1>1, <1>2 DEF TypeOK, Apply

LEMMA RestartKeepsTypes ==
    ASSUME TypeOK, NEW n \in Plugins, Restart(n)
    PROVE  loaded' \in [Mounts -> Instances \cup {NoMount}]
    BY InstancesStart DEF TypeOK, Restart, Mounted

LEMMA TypeInvariant == Spec => []TypeInv
<1>1. Init => TypeInv
  <2>1. 0 \in 0..MaxChanges /\ 0 \in 0..MaxFaults
    BY BoundAssumption
  <2>2. QED
    BY <2>1 DEF Init, TypeInv, TypeOK, Phases
<1>2. TypeInv /\ [Next]_vars => TypeInv'
  <2> SUFFICES ASSUME TypeInv, [Next]_vars PROVE TypeInv'
    OBVIOUS
  <2> USE Counters DEF TypeInv
  <2>1. ASSUME NEW s \in Specs, EditSpec(s) PROVE TypeInv'
    BY <2>1, OthersKeepPhases DEF TypeOK, EditSpec, Elsewhere, live, local
  <2>2. ASSUME NEW e \in Entries, NEW c \in Contents, Publish(e, c) PROVE TypeInv'
    BY <2>2, OthersKeepPhases DEF TypeOK, Publish, Elsewhere, live, local
  <2>3. ASSUME NEW p \in Pods, StopPod(p) PROVE TypeInv'
    BY <2>3, OthersKeepPhases DEF TypeOK, StopPod, Elsewhere, live, local
  <2>4. ASSUME NEW p \in Pods, StartPod(p) PROVE TypeInv'
    <3>1. file' \in [Pods -> [Entries -> Contents \cup {NoFile, Torn}]]
      BY <2>4 DEF TypeOK, StartPod
    <3>2. QED
      BY <2>4, <3>1, OthersKeepPhases DEF TypeOK, StartPod, Elsewhere, local
  <2>5. ASSUME NEW m \in Mounts, OperatorDisables(m) PROVE TypeInv'
    BY <2>5, OthersKeepPhases DEF TypeOK, OperatorDisables, Elsewhere, world, local
  <2>6. ASSUME NEW m \in Mounts, NEW s \in Slots, NEW o \in Options,
               NEW d \in Descriptions, OperatorEnables(m, s, o, d)
        PROVE  TypeInv'
    <3>1. [plugin |-> s[1], number |-> s[2], managed |-> FALSE, options |-> o,
           description |-> d] \in LiveMounts
      BY DEF Slots, LiveMounts
    <3>2. [registered |-> catalog[s], options |-> o] \in Instances
      BY DEF TypeOK, Instances
    <3>3. /\ mount' \in [Mounts -> LiveMounts \cup {NoMount}]
          /\ loaded' \in [Mounts -> Instances \cup {NoMount}]
          /\ made' \in SUBSET Mounts
      BY <2>6, <3>1, <3>2 DEF TypeOK, OperatorEnables
    <3>4. QED
      BY <2>6, <3>3, OthersKeepPhases DEF TypeOK, OperatorEnables, world, local
  <2>7. ASSUME NEW s \in Slots, OperatorDeregisters(s) PROVE TypeInv'
    BY <2>7, OthersKeepPhases
       DEF TypeOK, OperatorDeregisters, Excuse, Elsewhere, world, local
  <2>8. CASE BeginPass
    <3>1. /\ spec \in Specs /\ spec.catalog \in SUBSET Entries
          /\ due' = Declared(spec) /\ due' \in SUBSET Mounts
      BY <2>8, SpecsHaveShapes DEF TypeOK, BeginPass, Declared
    <3>2. TypeOK'
      BY <2>8, <3>1 DEF TypeOK, Phases, BeginPass, live, Quiet, world
    <3>3. QED
      BY <2>8, <3>1, <3>2 DEF Phases, BeginPass
  <2>9. CASE BeginFails
    BY <2>9, ErrorKeepsTypes DEF TypeOK, BeginFails, live
  <2>10. ASSUME NEW e \in Entries, Fetch(e) PROVE TypeInv'
    <3>1. source[e] \in Contents /\ pods \in SUBSET Pods
      BY DEF TypeOK
    <3>2. TypeOK'
      BY <2>10, <3>1 DEF TypeOK, Fetch, Targets, live, Quiet, world
    <3>3. QED
      BY <2>10, <3>1, <3>2 DEF Phases, Fetch
  <2>11. CASE FetchFails
    BY <2>11, ErrorKeepsTypes DEF TypeOK, FetchFails, live
  <2>12. ASSUME NEW p \in Pods, EnsureFile(p) PROVE TypeInv'
    <3>1. file' \in [Pods -> [Entries -> Contents \cup {NoFile, Torn}]]
      <4>1. entry \in Entries /\ content \in Contents
        BY <2>12, WantedIsRegistration DEF EnsureFile, Phases
      <4>2. [file EXCEPT ![p][entry] = content]
                \in [Pods -> [Entries -> Contents \cup {NoFile, Torn}]]
        BY <4>1, FilesAreFiles
      <4>3. file' \in {file, [file EXCEPT ![p][entry] = content]}
        BY <2>12 DEF EnsureFile, Put
      <4>4. QED
        BY <4>2, <4>3 DEF TypeOK
    <3>2. TypeOK'
      BY <2>12, <3>1 DEF TypeOK, EnsureFile, Quiet, world
    <3>3. QED
      BY <2>12, <3>2 DEF Phases, EnsureFile
  <2>13. ASSUME NEW p \in Pods, EnsureFileFails(p) PROVE TypeInv'
    <3>1. file' \in [Pods -> [Entries -> Contents \cup {NoFile, Torn}]]
      <4>1. entry \in Entries /\ content \in Contents
        BY <2>13, WantedIsRegistration DEF EnsureFileFails, Phases
      <4>2. \A f \in {Torn, content} : [file EXCEPT ![p][entry] = f]
                \in [Pods -> [Entries -> Contents \cup {NoFile, Torn}]]
        BY <4>1, FilesAreFiles
      <4>3. file' = file \/ \E f \in {Torn, content} : file' = [file EXCEPT ![p][entry] = f]
        BY <2>13 DEF EnsureFileFails, Put
      <4>4. QED
        BY <4>2, <4>3 DEF TypeOK
    <3>2. QED
      BY <2>13, <3>1, ErrorKeepsTypes DEF TypeOK, EnsureFileFails
  <2>14. CASE EnsurePlugin
    <3>1. TypeOK'
      BY <2>14, WantedIsRegistration, EntriesHaveSlots
         DEF TypeOK, EnsurePlugin, NextEntry, Quiet, world
    <3>2. QED
      BY <2>14, <3>1 DEF Phases, EnsurePlugin, NextEntry
  <2>15. CASE EnsurePluginFails
    <3>1. catalog' \in [Slots -> Registrations \cup {Unregistered}]
      BY <2>15, WantedIsRegistration DEF TypeOK, EnsurePluginFails
    <3>2. QED
      BY <2>15, <3>1, ErrorKeepsTypes DEF TypeOK, EnsurePluginFails
  <2>16. ASSUME NEW m \in Mounts, EnsureMount(m) PROVE TypeInv'
    <3>1. goal.mounts[m] \in DeclaredMounts
      BY <2>16, SpecsHaveShapes DEF Phases, EnsureMount, AtMounts
    <3>2. goal.mounts[m].plugin \in Plugins
      BY <3>1 DEF DeclaredMounts
    <3>3. TypeOK'
      BY <2>16, <3>1, <3>2, ApplyKeepsTypes DEF TypeOK, EnsureMount, Quiet, world
    <3>4. QED
      BY <2>16, <3>3 DEF Phases, EnsureMount, AtMounts
  <2>17. ASSUME NEW m \in Mounts, EnsureMountFails(m) PROVE TypeInv'
    <3>1. goal.mounts[m] \in DeclaredMounts
      BY <2>17, SpecsHaveShapes DEF Phases, EnsureMountFails, AtMounts
    <3>2. /\ mount' \in [Mounts -> LiveMounts \cup {NoMount}]
          /\ loaded' \in [Mounts -> Instances \cup {NoMount}]
      BY <2>17, <3>1, ApplyKeepsTypes DEF TypeOK, EnsureMountFails
    <3>3. QED
      BY <2>17, <3>2, ErrorKeepsTypes DEF TypeOK, EnsureMountFails
  <2>18. ASSUME NEW n \in Plugins, ReloadPlugin(n) PROVE TypeInv'
    <3>1. TypeOK'
      BY <2>18, RestartKeepsTypes DEF TypeOK, ReloadPlugin, Quiet, world
    <3>2. QED
      BY <2>18, <3>1 DEF Phases, ReloadPlugin, AtReloads, AtMounts
  <2>19. ASSUME NEW n \in Plugins, ReloadFails(n) PROVE TypeInv'
    BY <2>19, RestartKeepsTypes, ErrorKeepsTypes DEF TypeOK, ReloadFails
  <2>20. CASE LaterStepFails
    BY <2>20, ErrorKeepsTypes DEF TypeOK, LaterStepFails, live
  <2>21. CASE ListManagedMounts
    <3>1. doomed' \in SUBSET (Mounts \X Slots)
      BY <2>21 DEF ListManagedMounts, Managed, TypeOK, LiveMounts, Slots
    <3>2. \A d \in doomed' : d[1] \notin Declared(goal)
      BY <2>21 DEF ListManagedMounts, Declared
    <3>3. TypeOK'
      BY <2>21, <3>1 DEF TypeOK, ListManagedMounts, live, Quiet, world
    <3>4. QED
      BY <2>21, <3>2, <3>3
         DEF Phases, ListManagedMounts, AtPrune, AtReloads, AtMounts
  <2>22. ASSUME NEW d \in Mounts \X Slots, DisableMount(d) PROVE TypeInv'
    <3>1. d[1] \in Mounts /\ d[2] \in Slots
      BY <2>22
    <3>2. TypeOK'
      BY <2>22, <3>1 DEF TypeOK, DisableMount, Disable, Quiet, world
    <3>3. QED
      BY <2>22, <3>1, <3>2 DEF Phases, DisableMount
  <2>23. ASSUME NEW d \in Mounts \X Slots, DisableMountFails(d) PROVE TypeInv'
    <3>1. /\ mount' \in [Mounts -> LiveMounts \cup {NoMount}]
          /\ loaded' \in [Mounts -> Instances \cup {NoMount}]
      BY <2>23 DEF TypeOK, DisableMountFails, Disable
    <3>2. QED
      BY <2>23, <3>1, ErrorKeepsTypes DEF TypeOK, DisableMountFails
  <2>24. CASE DeregisterPlugin
    <3>1. TypeOK'
      BY <2>24 DEF TypeOK, DeregisterPlugin, Targets, Quiet, world, Excuse
    <3>2. QED
      BY <2>24, <3>1 DEF Phases, DeregisterPlugin
  <2>25. CASE DeregisterPluginFails
    BY <2>25, ErrorKeepsTypes DEF TypeOK, DeregisterPluginFails
  <2>26. ASSUME NEW p \in Pods, RemoveFile(p) PROVE TypeInv'
    <3>1. PrunedFile \in Entries
      BY <2>26, VersionAssumption DEF Phases, RemoveFile, PrunedFile, Slots, Entries
    <3>2. TypeOK'
      BY <2>26, <3>1, FilesAreFiles DEF TypeOK, RemoveFile, Remove, Quiet, world
    <3>3. QED
      BY <2>26, <3>2 DEF Phases, RemoveFile
  <2>27. ASSUME NEW p \in Pods, RemoveFileFails(p) PROVE TypeInv'
    <3>1. PrunedFile \in Entries
      BY <2>27, VersionAssumption DEF Phases, RemoveFileFails, PrunedFile, Slots, Entries
    <3>2. QED
      BY <2>27, <3>1, FilesAreFiles, ErrorKeepsTypes
         DEF TypeOK, RemoveFileFails, Remove
  <2>28. CASE PassSucceeds
    BY <2>28, ReturnKeepsTypes DEF TypeOK, PassSucceeds, live
  <2>29. CASE Crash
    BY <2>29, ErrorKeepsTypes DEF TypeOK, Crash, live
  <2>30. CASE UNCHANGED vars
    BY <2>30 DEF TypeOK, Phases, vars
  <2>31. QED
    BY <2>1, <2>2, <2>3, <2>4, <2>5, <2>6, <2>7, <2>8, <2>9, <2>10, <2>11, <2>12,
       <2>13, <2>14, <2>15, <2>16, <2>17, <2>18, <2>19, <2>20, <2>21, <2>22, <2>23,
       <2>24, <2>25, <2>26, <2>27, <2>28, <2>29, <2>30
       DEF Next, Others, Pass, Ensuring, Pruning
<1>3. QED
  BY <1>1, <1>2, PTL DEF Spec

\* Every variable has its type: a pass registers, mounts and removes only what
\* its spec and the listing named.
THEOREM TypeCorrect == Spec => []TypeOK
BY TypeInvariant, PTL DEF TypeInv

LEMMA SameInstances ==
    ASSUME UNCHANGED <<catalog, mount, loaded>>
    PROVE  \A m \in Mounts : Stale(m)' <=> Stale(m)
    BY DEF Stale, Now, Registered

LEMMA ErrorsExcuse ==
    ASSUME Excuse
    PROVE  StaleIsPending'
    BY DEF Excuse, StaleIsPending

\* A mount moves behind its instance only with a reload, or under another
\* plugin than the spec's.
LEMMA MountsMoveWithReload ==
    ASSUME TypeInv, StaleIsPending, NEW m \in Mounts, EnsureMount(m)
    PROVE  StaleIsPending'
<1> DEFINE w == goal.mounts[m]
<1>1. w \in DeclaredMounts
  BY SpecsHaveShapes DEF TypeInv, Phases, EnsureMount, AtMounts
<1>2. Tuned(m, w) \in LiveMounts
  BY <1>1, TunedIsLive DEF TypeInv, TypeOK
<1>3. /\ mount' = [mount EXCEPT ![m] = Tuned(m, w)]
      /\ catalog' = catalog
      /\ reload \subseteq reload'
      /\ excused \subseteq excused'
      /\ NeedsReload(m, w) => w.plugin \in reload'
      /\ mount'[m].plugin # w.plugin => m \in excused'
  BY DEF EnsureMount, Apply
<1>4. ASSUME NEW k \in Mounts, k # m, Stale(k)'
      PROVE  mount'[k].plugin \in reload' \/ k \in excused'
  <2>1. mount'[k] = mount[k] /\ loaded'[k] = loaded[k]
    BY <1>4 DEF EnsureMount, Apply, TypeInv, TypeOK
  <2>2. Stale(k)
    BY <1>3, <1>4, <2>1 DEF Stale, Now, Registered
  <2>3. QED
    BY <1>3, <2>1, <2>2 DEF StaleIsPending
<1>5. mount'[m] = Tuned(m, w)
  BY <1>3 DEF TypeInv, TypeOK
<1>6. ASSUME Stale(m)', ~NeedsReload(m, w)
      PROVE  mount'[m].plugin \in reload' \/ m \in excused'
  <2>1. mount[m] # NoMount /\ mount[m] \in LiveMounts /\ loaded' = loaded
    BY <1>6 DEF NeedsReload, EnsureMount, Apply, TypeInv, TypeOK
  <2>2. /\ Tuned(m, w).plugin = mount[m].plugin
        /\ Tuned(m, w).number = mount[m].number
        /\ Tuned(m, w).options = mount[m].options
    BY <1>6, <2>1 DEF NeedsReload, VersionMoves, OptionsMove, Tuned, LiveMounts
  <2>3. Stale(m)
    BY <1>3, <1>5, <1>6, <2>1, <2>2 DEF Stale, Now, Registered
  <2>4. QED
    BY <1>3, <1>5, <2>2, <2>3 DEF StaleIsPending
<1>7. QED
  BY <1>3, <1>4, <1>6 DEF StaleIsPending

\* An instance falls behind only while its reload is pending (reload in
\* Reconcile, MountResult.Reload), or with an excuse.
THEOREM StaleInstancesArePending == Spec => []StaleIsPending
<1>1. Init => StaleIsPending
  BY DEF Init, StaleIsPending, Stale
<1>2. TypeInv /\ StaleIsPending /\ [Next]_vars => StaleIsPending'
  <2> SUFFICES ASSUME TypeInv, StaleIsPending, [Next]_vars PROVE StaleIsPending'
    OBVIOUS
  <2>1. CASE UNCHANGED <<catalog, mount, loaded, reload, excused>>
    BY <2>1, SameInstances DEF StaleIsPending
  <2>2. CASE Excuse
    BY <2>2, ErrorsExcuse
  <2>3. ASSUME NEW m \in Mounts, OperatorDisables(m) PROVE StaleIsPending'
    <3>1. \A k \in Mounts : Stale(k)' => Stale(k) /\ mount'[k] = mount[k]
      BY <2>3 DEF OperatorDisables, Stale, Now, Registered, TypeInv, TypeOK
    <3>2. QED
      BY <2>3, <3>1 DEF StaleIsPending, OperatorDisables, Elsewhere, local
  <2>4. ASSUME NEW m \in Mounts, NEW s \in Slots, NEW o \in Options,
               NEW d \in Descriptions, OperatorEnables(m, s, o, d)
        PROVE  StaleIsPending'
    <3>1. s = <<s[1], s[2]>>
      BY DEF Slots
    <3>2. ~Stale(m)'
      BY <2>4, <3>1 DEF OperatorEnables, Stale, Now, Registered, TypeInv, TypeOK
    <3>3. \A k \in Mounts \ {m} : Stale(k)' => Stale(k) /\ mount'[k] = mount[k]
      BY <2>4 DEF OperatorEnables, Stale, Now, Registered, TypeInv, TypeOK
    <3>4. QED
      BY <2>4, <3>2, <3>3 DEF StaleIsPending, OperatorEnables, local
  <2>5. CASE EnsurePlugin
    <3>1. entry \in Entries /\ Slot(entry) \in Slots
      BY <2>5, WantedIsRegistration, EntriesHaveSlots DEF EnsurePlugin
    <3>2. ASSUME NEW k \in Mounts, Stale(k)', mount[k].plugin \notin reload'
          PROVE  Stale(k)
      <4>1. mount[k] \in LiveMounts /\ <<mount[k].plugin, mount[k].number>> \in Slots
        BY <2>5, <3>2 DEF EnsurePlugin, Stale, TypeInv, TypeOK, LiveMounts, Slots
      <4>2. CASE <<mount[k].plugin, mount[k].number>> = Slot(entry)
        <5>1. mount[k].plugin = entry[1]
          BY <4>2 DEF Slot
        <5>2. ~Registers
          BY <2>5, <3>2, <5>1 DEF EnsurePlugin
        <5>3. catalog'[Slot(entry)] = catalog[Slot(entry)]
          BY <2>5, <3>1, <5>2 DEF EnsurePlugin, Registers, TypeInv, TypeOK
        <5>4. QED
          BY <2>5, <3>2, <4>2, <5>3 DEF EnsurePlugin, Stale, Now, Registered
      <4>3. CASE <<mount[k].plugin, mount[k].number>> # Slot(entry)
        <5>1. catalog'[<<mount[k].plugin, mount[k].number>>]
                  = catalog[<<mount[k].plugin, mount[k].number>>]
          BY <2>5, <4>1, <4>3 DEF EnsurePlugin, TypeInv, TypeOK
        <5>2. QED
          BY <2>5, <3>2, <5>1 DEF EnsurePlugin, Stale, Now, Registered
      <4>4. QED
        BY <4>2, <4>3
    <3>3. UNCHANGED <<mount, excused>> /\ reload \subseteq reload'
      BY <2>5 DEF EnsurePlugin
    <3>4. QED
      BY <3>2, <3>3 DEF StaleIsPending
  <2>6. ASSUME NEW m \in Mounts, EnsureMount(m) PROVE StaleIsPending'
    BY <2>6, MountsMoveWithReload
  <2>7. ASSUME NEW n \in Plugins, ReloadPlugin(n) PROVE StaleIsPending'
    <3>1. /\ UNCHANGED <<catalog, mount>>
          /\ reload' = reload \ {n}
          /\ excused' = excused \ Mounted(n)
          /\ loaded' = [m \in Mounts |-> IF m \in Mounted(n) THEN Now(m) ELSE loaded[m]]
      BY <2>7 DEF ReloadPlugin, Restart
    <3>2. \A m \in Mounted(n) : ~Stale(m)'
      BY <3>1 DEF Mounted, Stale, Now, Registered
    <3>3. \A m \in Mounts \ Mounted(n) :
             Stale(m)' => Stale(m) /\ mount[m].plugin # n
      BY <3>1 DEF Mounted, Stale, Now, Registered
    <3>4. QED
      BY <3>1, <3>2, <3>3 DEF StaleIsPending
  <2>8. ASSUME NEW d \in Mounts \X Slots, DisableMount(d) PROVE StaleIsPending'
    <3>1. \A k \in Mounts : Stale(k)' => Stale(k) /\ mount'[k] = mount[k]
      BY <2>8 DEF DisableMount, Disable, Stale, Now, Registered, TypeInv, TypeOK
    <3>2. QED
      BY <2>8, <3>1 DEF StaleIsPending, DisableMount
  <2>9. CASE PassSucceeds
    <3>1. reload = {} /\ reload' = {} /\ UNCHANGED <<catalog, mount, loaded, excused>>
      BY <2>9 DEF PassSucceeds, AtPrune, Return, live, TypeInv, Phases
    <3>2. QED
      BY <2>1, <3>1
  <2>10. QED
    BY <2>1, <2>2, <2>3, <2>4, <2>5, <2>6, <2>7, <2>8, <2>9
       DEF Next, Others, Pass, Ensuring, Pruning, vars, local, live, world, Elsewhere,
           EditSpec, Publish, StopPod, StartPod, OperatorDeregisters, BeginPass,
           BeginFails, Fetch, FetchFails, EnsureFile, EnsureFileFails,
           EnsurePluginFails, EnsureMountFails, ReloadFails, LaterStepFails,
           ListManagedMounts, DisableMountFails, DeregisterPlugin,
           DeregisterPluginFails, RemoveFile, RemoveFileFails, Crash, ReturnError
<1>3. QED
  BY <1>1, <1>2, TypeInvariant, PTL DEF Spec

\* While an entry is placed and nobody interferes, the pods that are done have
\* the binary.
PlacedSoFar ==
    pc = "place" /\ calm => \A p \in pods \ left : file[p][entry] = content

LEMMA PlacedInvariant == Spec => []PlacedSoFar
<1>1. Init => PlacedSoFar
  BY DEF Init, PlacedSoFar
<1>2. TypeInv /\ PlacedSoFar /\ [Next]_vars => PlacedSoFar'
  <2> SUFFICES ASSUME TypeInv, PlacedSoFar, [Next]_vars, pc' = "place", calm'
               PROVE  \A p \in pods' \ left' : file'[p][entry'] = content'
    BY DEF PlacedSoFar
  <2>1. CASE /\ UNCHANGED <<pc, file, pods, left, entry, content>>
             /\ calm' => calm
    BY <2>1 DEF PlacedSoFar
  <2>2. CASE calm' = (pc = "idle") /\ UNCHANGED pc
    BY <2>2
  <2>3. ASSUME NEW e \in Entries, Fetch(e)
        PROVE  \A p \in pods' \ left' : file'[p][entry'] = content'
    BY <2>3 DEF Fetch, Targets
  <2>4. ASSUME NEW p \in Pods, EnsureFile(p)
        PROVE  \A q \in pods' \ left' : file'[q][entry'] = content'
    <3>1. entry \in Entries /\ pc = "place" /\ calm
      BY <2>4, WantedIsRegistration DEF EnsureFile, Quiet
    <3>2. file'[p][entry] = content
      BY <2>4, <3>1 DEF EnsureFile, Holds, Put, TypeInv, TypeOK
    <3>3. \A q \in Pods \ {p} : file'[q] = file[q]
      BY <2>4 DEF EnsureFile, Put, TypeInv, TypeOK
    <3>4. QED
      BY <2>4, <3>1, <3>2, <3>3 DEF PlacedSoFar, EnsureFile, TypeInv, TypeOK
  <2>5. CASE pc' # "place"
    BY <2>5
  <2>6. QED
    BY <2>1, <2>2, <2>3, <2>4, <2>5
       DEF Next, Others, Pass, Ensuring, Pruning, vars, local, live, world, Elsewhere,
           Change, Quiet, EditSpec, Publish, StopPod, StartPod, OperatorDisables,
           OperatorEnables, OperatorDeregisters, BeginPass, BeginFails, FetchFails,
           EnsureFileFails, EnsurePlugin, NextEntry, EnsurePluginFails, EnsureMount,
           EnsureMountFails, ReloadPlugin, ReloadFails, LaterStepFails,
           ListManagedMounts, DisableMount, DisableMountFails, DeregisterPlugin,
           DeregisterPluginFails, RemoveFile, RemoveFileFails, PassSucceeds, Crash,
           ReturnError, Return, AtReloads, AtMounts, AtPrune
<1>3. QED
  BY <1>1, <1>2, TypeInvariant, PTL DEF Spec

\* No version is registered before every pod the pass listed has its binary
\* (EnsureFile on all pods, then EnsurePlugin).
THEOREM BinariesComeFirst == Spec => BinariesFirst
<1>1. TypeInv /\ PlacedSoFar /\ [Next]_vars =>
        [\A s \in Slots :
            calm /\ calm' /\ catalog'[s] # catalog[s] /\ catalog'[s] # Unregistered
                => \A p \in pods : PodHolds(p, <<s[1], catalog'[s].command>>,
                                            catalog'[s].content)]_vars
  <2> SUFFICES ASSUME TypeInv, PlacedSoFar, Next,
                      NEW s \in Slots, calm, catalog'[s] # catalog[s],
                      catalog'[s] # Unregistered, NEW p \in pods
               PROVE  PodHolds(p, <<s[1], catalog'[s].command>>, catalog'[s].content)
    BY DEF vars
  <2>1. CASE /\ pc = "place" /\ left = {}
             /\ catalog' = [catalog EXCEPT ![Slot(entry)] = Wanted]
    <3>1. entry \in Entries /\ Slot(entry) \in Slots /\ entry = <<entry[1], entry[2]>>
      BY <2>1, WantedIsRegistration, EntriesHaveSlots
    <3>2. s = Slot(entry) /\ catalog'[s] = Wanted
      BY <2>1, <3>1 DEF TypeInv, TypeOK
    <3>3. s[1] = entry[1] /\ Wanted.command = entry[2] /\ Wanted.content = content
      BY <3>2 DEF Slot, Wanted
    <3>4. file[p][entry] = content
      BY <2>1 DEF PlacedSoFar
    <3>5. QED
      BY <3>1, <3>2, <3>3, <3>4 DEF PodHolds
  <2>2. CASE catalog' = catalog
    BY <2>2
  <2>3. ASSUME NEW t \in Slots, catalog' = [catalog EXCEPT ![t] = Unregistered]
        PROVE  FALSE
    BY <2>3 DEF TypeInv, TypeOK
  <2>4. pc \in {"deregister"} => gone \in Slots
    BY DEF TypeInv, Phases
  <2>5. QED
    BY <2>1, <2>2, <2>3, <2>4
       DEF Next, Others, Pass, Ensuring, Pruning, live, Elsewhere,
           EditSpec, Publish, StopPod, StartPod, OperatorDisables,
           OperatorEnables, OperatorDeregisters, BeginPass, BeginFails, Fetch,
           FetchFails, EnsureFile, EnsureFileFails, EnsurePlugin, Placed,
           EnsurePluginFails, EnsureMount, EnsureMountFails, ReloadPlugin,
           ReloadFails, LaterStepFails, ListManagedMounts, DisableMount,
           DisableMountFails, DeregisterPlugin, DeregisterPluginFails, RemoveFile,
           RemoveFileFails, PassSucceeds, Crash
<1>2. QED
  BY <1>1, TypeInvariant, PlacedInvariant, PTL DEF Spec, BinariesFirst

\* What a pass deregisters and removes is not what its spec names.
LEMMA PrunedIsNotDesired ==
    ASSUME TypeInv, pc \in {"deregister", "remove"}
    PROVE  /\ gone \in Slots
           /\ \A e \in goal.catalog : Slot(e) # gone /\ e # PrunedFile
           /\ \A m \in Declared(goal) :
                 PinnedSlot(goal, m) # gone
<1>1. gone \in Slots /\ gone \notin DesiredSlots(goal)
  BY DEF TypeInv, Phases
<1>2. \A e \in goal.catalog : Slot(e) # gone
  BY <1>1 DEF DesiredSlots
<1>3. Slot(PrunedFile) = gone
  BY <1>1, VersionAssumption DEF Slot, PrunedFile, Slots
<1>4. QED
  BY <1>1, <1>2, <1>3 DEF DesiredSlots, Declared

\* The prune takes nothing its spec names, whatever others do meanwhile
\* (desiredMounts and desiredVersions in Reconcile).
THEOREM PruneSparesTheDesired == Spec => NeverPrunesDesired
<1>1. TypeInv /\ [Next]_vars =>
        [(pc \in {"prune", "deregister", "remove"}) /\ ByThePass =>
          /\ \A e \in goal.catalog :
                /\ catalog'[Slot(e)] = catalog[Slot(e)]
                /\ \A p \in Pods : file'[p][e] = file[p][e]
          /\ \A m \in Declared(goal) :
                /\ mount'[m] = mount[m]
                /\ catalog'[PinnedSlot(goal, m)] = catalog[PinnedSlot(goal, m)]]_vars
  <2> SUFFICES ASSUME TypeInv, Next, pc \in {"prune", "deregister", "remove"}, ByThePass
               PROVE  /\ \A e \in goal.catalog :
                            /\ catalog'[Slot(e)] = catalog[Slot(e)]
                            /\ \A p \in Pods : file'[p][e] = file[p][e]
                      /\ \A m \in Declared(goal) :
                            /\ mount'[m] = mount[m]
                            /\ catalog'[PinnedSlot(goal, m)] = catalog[PinnedSlot(goal, m)]
    BY DEF vars
  <2>1. CASE UNCHANGED <<file, catalog, mount>>
    BY <2>1
  <2>2. ASSUME NEW d \in doomed, pc = "prune", Disable(d[1]), UNCHANGED <<file, catalog>>
        PROVE  \A m \in Declared(goal) : mount'[m] = mount[m]
    BY <2>2 DEF Disable, TypeInv, TypeOK, Phases, Declared
  <2>3. CASE /\ pc = "deregister" /\ UNCHANGED <<file, mount>>
             /\ catalog' = [catalog EXCEPT ![gone] = Unregistered]
    <3>1. \A t \in Slots : t # gone => catalog'[t] = catalog[t]
      BY <2>3 DEF TypeInv, TypeOK
    <3>2. \A e \in goal.catalog : Slot(e) \in Slots
      BY SpecsHaveShapes, EntriesHaveSlots DEF TypeInv, Phases
    <3>3. \A m \in Declared(goal) :
             PinnedSlot(goal, m) \in Slots
      BY SpecsHaveShapes, VersionAssumption
         DEF TypeInv, Phases, DeclaredMounts, Slots, PinnedSlot
    <3>4. QED
      BY <2>3, <3>1, <3>2, <3>3, PrunedIsNotDesired
  <2>4. ASSUME NEW q \in Pods, pc = "remove", Remove(q), UNCHANGED <<catalog, mount>>
        PROVE  \A e \in goal.catalog : \A p \in Pods : file'[p][e] = file[p][e]
    <3>1. goal.catalog \subseteq Entries
      BY SpecsHaveShapes DEF TypeInv, Phases
    <3>2. QED
      BY <2>4, <3>1, PrunedIsNotDesired DEF Remove, TypeInv, TypeOK
  <2>5. CASE Others
    <3>1. changes' # changes \/ up' # up
      BY <2>5 DEF Others, Change, EditSpec, Publish, StopPod, StartPod,
         OperatorDisables, OperatorEnables, OperatorDeregisters, TypeInv, TypeOK
    <3>2. QED
      BY <3>1 DEF ByThePass, world
  <2>6. QED
    BY <2>1, <2>2, <2>3, <2>4, <2>5
       DEF Next, Pass, Ensuring, Pruning, live,
           BeginPass, BeginFails, Fetch,
           FetchFails, EnsureFile, EnsureFileFails, EnsurePlugin,
           EnsurePluginFails, EnsureMount, EnsureMountFails, ReloadPlugin,
           ReloadFails, LaterStepFails, ListManagedMounts, DisableMount,
           DisableMountFails, DeregisterPlugin, DeregisterPluginFails, RemoveFile,
           RemoveFileFails, PassSucceeds, Crash, AtReloads, AtMounts, AtPrune
<1>2. QED
  BY <1>1, TypeInvariant, PTL DEF Spec, NeverPrunesDesired

\* A mount that is to be pruned and does not carry the marker was made in the
\* place of one that did.
DoomedWereManaged ==
    \A d \in doomed : mount[d[1]] # NoMount /\ ~mount[d[1]].managed => d[1] \in made

LEMMA DoomedInvariant == Spec => []DoomedWereManaged
<1>1. Init => DoomedWereManaged
  BY DEF Init, DoomedWereManaged
<1>2. TypeInv /\ DoomedWereManaged /\ [Next]_vars => DoomedWereManaged'
  <2> SUFFICES ASSUME TypeInv, DoomedWereManaged, [Next]_vars
               PROVE  DoomedWereManaged'
    OBVIOUS
  <2>1. CASE doomed' \subseteq doomed /\ UNCHANGED <<mount, made>>
    BY <2>1 DEF DoomedWereManaged
  <2>2. CASE doomed' = {}
    BY <2>2 DEF DoomedWereManaged
  <2>3. ASSUME NEW m \in Mounts, Disable(m), doomed' \subseteq doomed, UNCHANGED made
        PROVE  DoomedWereManaged'
    BY <2>3 DEF Disable, DoomedWereManaged, TypeInv, TypeOK
  <2>4. ASSUME NEW m \in Mounts, NEW s \in Slots, NEW o \in Options,
               NEW d \in Descriptions, OperatorEnables(m, s, o, d)
        PROVE  DoomedWereManaged'
    <3>1. CASE pc = "idle"
      BY <2>4, <3>1 DEF OperatorEnables, DoomedWereManaged, TypeInv, Phases, local
    <3>2. CASE pc # "idle"
      <4>1. made' = made \cup {m} /\ doomed' = doomed
        BY <2>4, <3>2 DEF OperatorEnables, local
      <4>2. \A k \in Mounts \ {m} : mount'[k] = mount[k]
        BY <2>4 DEF OperatorEnables, TypeInv, TypeOK
      <4>3. QED
        BY <4>1, <4>2 DEF DoomedWereManaged, TypeInv, TypeOK
    <3>3. QED
      BY <3>1, <3>2
  <2>5. CASE ListManagedMounts
    BY <2>5 DEF ListManagedMounts, Managed, live, DoomedWereManaged
  <2>6. CASE pc = "ensure" /\ UNCHANGED doomed
    BY <2>6 DEF DoomedWereManaged, TypeInv, Phases
  <2>7. \A d \in doomed : d[1] \in Mounts
    BY DEF TypeInv, TypeOK
  <2>8. QED
    BY <2>1, <2>2, <2>3, <2>4, <2>5, <2>6, <2>7
       DEF Next, Others, Pass, Ensuring, Pruning, vars, local, live, world, Elsewhere,
           Quiet, Disable, EditSpec, Publish, StopPod, StartPod, OperatorDisables,
           OperatorDeregisters, BeginPass, BeginFails, Fetch, FetchFails, EnsureFile,
           EnsureFileFails, EnsurePlugin, NextEntry, EnsurePluginFails, EnsureMount,
           AtMounts, EnsureMountFails, ReloadPlugin, ReloadFails, LaterStepFails,
           DisableMount, DisableMountFails, DeregisterPlugin,
           DeregisterPluginFails, RemoveFile, RemoveFileFails, PassSucceeds, Crash,
           ReturnError, Return
<1>3. QED
  BY <1>1, <1>2, TypeInvariant, PTL DEF Spec

\* The manager neither prunes nor retunes a mount it did not make, unless an
\* operator enabled it during the pass (isManaged, mountTune).
THEOREM OperatorsMountsStay == Spec => ForeignMountsStay
<1>1. TypeInv /\ DoomedWereManaged /\ [Next]_vars =>
        [\A m \in Mounts \ made :
            ByThePass /\ mount[m] # NoMount /\ ~mount[m].managed
              => mount'[m] # NoMount
                 /\ mount'[m] \in {mount[m], [mount[m] EXCEPT !.number = mount'[m].number]}]_vars
  <2> SUFFICES ASSUME TypeInv, DoomedWereManaged, Next, ByThePass,
                      NEW m \in Mounts \ made, mount[m] # NoMount, ~mount[m].managed
               PROVE  mount'[m] # NoMount /\
                      mount'[m] \in {mount[m], [mount[m] EXCEPT !.number = mount'[m].number]}
    BY DEF vars
  <2>1. CASE UNCHANGED mount
    BY <2>1
  <2>2. ASSUME NEW k \in Mounts, pc = "ensure", k \in due, Apply(k, goal.mounts[k])
        PROVE  mount'[m] # NoMount /\
               mount'[m] \in {mount[m], [mount[m] EXCEPT !.number = mount'[m].number]}
    <3>1. CASE k # m
      BY <2>2, <3>1 DEF Apply, TypeInv, TypeOK
    <3>2. CASE k = m
      <4>1. mount'[m] = [mount[m] EXCEPT !.number = NumberOf[goal.mounts[m].version]]
        BY <2>2, <3>2 DEF Apply, Tuned, TypeInv, TypeOK
      <4>2. mount'[m].number = NumberOf[goal.mounts[m].version]
        BY <4>1 DEF TypeInv, TypeOK, LiveMounts
      <4>3. mount'[m] \in LiveMounts
        BY <2>2, <3>2, SpecsHaveShapes, TunedIsLive DEF Apply, TypeInv, TypeOK, Phases
      <4>4. QED
        BY <4>1, <4>2, <4>3, SentinelAssumption
    <3>3. QED
      BY <3>1, <3>2
  <2>3. ASSUME NEW d \in doomed, Disable(d[1])
        PROVE  mount'[m] = mount[m]
    BY <2>3 DEF Disable, DoomedWereManaged, TypeInv, TypeOK
  <2>4. CASE Others
    <3>1. changes' # changes \/ up' # up
      BY <2>4 DEF Others, Change, EditSpec, Publish, StopPod, StartPod,
         OperatorDisables, OperatorEnables, OperatorDeregisters, TypeInv, TypeOK
    <3>2. QED
      BY <3>1 DEF ByThePass, world
  <2>5. QED
    BY <2>1, <2>2, <2>3, <2>4
       DEF Next, Pass, Ensuring, Pruning, live, BeginPass, BeginFails, Fetch,
           FetchFails, EnsureFile, EnsureFileFails, EnsurePlugin,
           EnsurePluginFails, EnsureMount, EnsureMountFails, ReloadPlugin,
           ReloadFails, LaterStepFails, ListManagedMounts, DisableMount,
           DisableMountFails, DeregisterPlugin, DeregisterPluginFails, RemoveFile,
           RemoveFileFails, PassSucceeds, Crash, AtMounts
<1>2. QED
  BY <1>1, TypeInvariant, DoomedInvariant, PTL DEF Spec, ForeignMountsStay

(***************************************************************************)
(* Convergence.  What a pass has been through stays done as long as nobody *)
(* interferes, whatever was there when it began.                           *)
(***************************************************************************)
EntryDone(e) ==
    /\ \A p \in pods : PodHolds(p, e, source[e])
    /\ catalog[Slot(e)] = [content |-> source[e], command |-> e[2]]

MountDone(m) ==
    /\ mount[m] # NoMount
    /\ mount[m].number = NumberOf[goal.mounts[m].version]
    /\ mount[m].managed => /\ mount[m].options = goal.mounts[m].options
                           /\ mount[m].description = goal.mounts[m].description

EntriesDone == \A e \in goal.catalog \ todo : EntryDone(e)
FetchedIsServed == pc = "place" => content = source[entry]
MountsDone == \A m \in Declared(goal) \ due : MountDone(m)
LeftoversDoomed ==
    pc \in {"prune", "deregister", "remove"} =>
        \A m \in Managed \ Declared(goal) : \E d \in doomed : d[1] = m

Undisturbed == pc # "idle" /\ calm /\ OneEntryPerSlot(goal)
Progress == Undisturbed => EntriesDone /\ FetchedIsServed /\ MountsDone /\ LeftoversDoomed

\* A tuned mount is as the spec has it.
LEMMA TunedIsDone ==
    ASSUME NEW m \in Mounts, NEW w \in DeclaredMounts,
           mount \in [Mounts -> LiveMounts \cup {NoMount}]
    PROVE  /\ Tuned(m, w) # NoMount
           /\ Tuned(m, w).number = NumberOf[w.version]
           /\ Tuned(m, w).managed => /\ Tuned(m, w).options = w.options
                                     /\ Tuned(m, w).description = w.description
<1>1. Tuned(m, w) # NoMount
  BY TunedIsLive, SentinelAssumption
<1>2. CASE mount[m] = NoMount
  BY <1>1, <1>2 DEF Tuned
<1>3. CASE mount[m] # NoMount
  <2>1. mount[m] \in LiveMounts
    BY <1>3
  <2>2. QED
    BY <1>1, <1>3, <2>1 DEF Tuned, LiveMounts
<1>4. QED
  BY <1>2, <1>3

LEMMA ProgressInvariant == Spec => []Progress
<1>1. Init => Progress
  BY DEF Init, Progress, Undisturbed
<1>2. TypeInv /\ PlacedSoFar /\ Progress /\ [Next]_vars => Progress'
  <2> SUFFICES ASSUME TypeInv, PlacedSoFar, Progress, [Next]_vars, Undisturbed'
               PROVE  (EntriesDone /\ FetchedIsServed /\ MountsDone /\ LeftoversDoomed)'
    BY DEF Progress
  <2>1. ASSUME calm' = (pc = "idle"), UNCHANGED pc PROVE FALSE
    BY <2>1 DEF Undisturbed
  <2>2. CASE BeginPass
    BY <2>2 DEF BeginPass, EntriesDone, FetchedIsServed, MountsDone, LeftoversDoomed
  <2>3. CASE pc' = "idle"
    BY <2>3 DEF Undisturbed
  <2> DEFINE Going == pc # "idle" /\ Quiet /\ UNCHANGED <<goal, pods>>
  <2>4. ASSUME Going
        PROVE  EntriesDone /\ FetchedIsServed /\ MountsDone /\ LeftoversDoomed
    BY <2>4 DEF Progress, Undisturbed, OneEntryPerSlot, Quiet
  <2>5. CASE UNCHANGED vars
    BY <2>5 DEF vars, Progress, Undisturbed, OneEntryPerSlot, EntriesDone, EntryDone,
         PodHolds, FetchedIsServed, MountsDone, MountDone, LeftoversDoomed, Managed
  <2>6. ASSUME NEW e \in Entries, Fetch(e)
        PROVE  (EntriesDone /\ FetchedIsServed /\ MountsDone /\ LeftoversDoomed)'
    BY <2>4, <2>6 DEF Fetch, live, Quiet, world, EntriesDone, EntryDone, PodHolds,
         FetchedIsServed, MountsDone, MountDone, LeftoversDoomed
  <2>7. ASSUME NEW p \in Pods, EnsureFile(p)
        PROVE  (EntriesDone /\ FetchedIsServed /\ MountsDone /\ LeftoversDoomed)'
    <3>1. Going /\ pc' = "place" /\ UNCHANGED <<source, catalog, mount, todo, entry, content, due>>
      BY <2>7 DEF EnsureFile, Quiet, world
    <3>2. entry \in todo /\ entry \in Entries /\ goal.catalog \subseteq Entries
      BY <2>7, WantedIsRegistration, SpecsHaveShapes DEF EnsureFile, TypeInv, Phases
    <3>3. \A q \in Pods, e \in Entries : e # entry => file'[q][e] = file[q][e]
      BY <2>7, <3>2 DEF EnsureFile, Put, TypeInv, TypeOK
    <3>4. pods \subseteq Pods
      BY DEF TypeInv, TypeOK
    <3>5. EntriesDone'
      BY <2>4, <3>1, <3>2, <3>3, <3>4 DEF EntriesDone, EntryDone, PodHolds
    <3>6. QED
      BY <2>4, <2>7, <3>1, <3>5
         DEF EnsureFile, FetchedIsServed, MountsDone, MountDone, LeftoversDoomed
  <2>8. CASE EnsurePlugin
    <3>1. Going /\ pc' = "ensure" /\ UNCHANGED <<source, file, mount, due>>
      BY <2>8 DEF EnsurePlugin, NextEntry, Quiet, world
    <3>2. /\ entry \in goal.catalog /\ goal.catalog \subseteq Entries
          /\ content = source[entry]
      BY <2>4, <2>8, <3>1, SpecsHaveShapes
         DEF EnsurePlugin, FetchedIsServed, TypeInv, Phases
    <3>3. todo' = todo \ {entry} /\ catalog' = [catalog EXCEPT ![Slot(entry)] = Wanted]
      BY <2>8 DEF EnsurePlugin, NextEntry
    <3>4. ASSUME NEW e \in Entries, e = entry PROVE EntryDone(e)'
      <4>1. \A p \in pods : file[p][e] = content
        BY <2>8, <3>1, <3>4 DEF EnsurePlugin, Placed, PlacedSoFar, Undisturbed, Quiet
      <4>2. catalog'[Slot(e)] = Wanted
        BY <3>2, <3>3, <3>4, EntriesHaveSlots DEF TypeInv, TypeOK
      <4>3. Wanted = [content |-> source[e], command |-> e[2]]
        BY <3>2, <3>4 DEF Wanted
      <4>4. QED
        BY <3>1, <3>2, <3>4, <4>1, <4>2, <4>3 DEF EntryDone, PodHolds
    <3>5. ASSUME NEW e \in goal.catalog \ todo' PROVE EntryDone(e)'
      <4>1. CASE e = entry
        BY <3>2, <3>4, <4>1
      <4>2. CASE e # entry
        <5>1. Slot(e) # Slot(entry)
          BY <3>1, <3>2, <4>2 DEF Undisturbed, OneEntryPerSlot
        <5>2. catalog'[Slot(e)] = catalog[Slot(e)]
          BY <3>2, <3>3, <5>1, EntriesHaveSlots DEF TypeInv, TypeOK
        <5>3. EntryDone(e)
          BY <2>4, <3>1, <3>3, <4>2 DEF EntriesDone
        <5>4. QED
          BY <3>1, <5>2, <5>3 DEF EntryDone, PodHolds
      <4>3. QED
        BY <4>1, <4>2
    <3>6. QED
      BY <2>4, <3>1, <3>5
         DEF EntriesDone, FetchedIsServed, MountsDone, MountDone, LeftoversDoomed
  <2>9. ASSUME NEW m \in Mounts, EnsureMount(m)
        PROVE  (EntriesDone /\ FetchedIsServed /\ MountsDone /\ LeftoversDoomed)'
    <3>1. /\ Going /\ pc = "ensure" /\ pc' = "ensure"
          /\ UNCHANGED <<source, file, catalog, todo>> /\ due' = due \ {m}
      BY <2>9 DEF EnsureMount, AtMounts, Apply, Quiet, world
    <3>2. goal.mounts[m] \in DeclaredMounts
      BY <2>9, SpecsHaveShapes DEF EnsureMount, AtMounts, TypeInv, Phases
    <3>3. mount' = [mount EXCEPT ![m] = Tuned(m, goal.mounts[m])]
      BY <2>9 DEF EnsureMount, Apply
    <3>4. mount'[m] = Tuned(m, goal.mounts[m]) /\ \A k \in Mounts \ {m} : mount'[k] = mount[k]
      BY <3>3 DEF TypeInv, TypeOK
    <3>5. MountDone(m)'
      BY <3>1, <3>2, <3>4, TunedIsDone DEF MountDone, TypeInv, TypeOK
    <3>6. \A k \in Declared(goal) \ due' : MountDone(k)'
      BY <2>4, <3>1, <3>4, <3>5 DEF MountsDone, MountDone, Declared
    <3>7. QED
      BY <2>4, <3>1, <3>6
         DEF EntriesDone, EntryDone, PodHolds, FetchedIsServed, MountsDone, LeftoversDoomed
  <2>10. ASSUME NEW n \in Plugins, ReloadPlugin(n)
         PROVE  (EntriesDone /\ FetchedIsServed /\ MountsDone /\ LeftoversDoomed)'
    BY <2>4, <2>10 DEF ReloadPlugin, AtReloads, AtMounts, Quiet, world, EntriesDone,
         EntryDone, PodHolds, FetchedIsServed, MountsDone, MountDone, LeftoversDoomed
  <2>11. CASE ListManagedMounts
    <3>1. Going /\ pc' = "prune" /\ UNCHANGED <<source, file, catalog, mount, todo, due>>
      BY <2>11 DEF ListManagedMounts, AtPrune, AtReloads, AtMounts, live, Quiet, world
    <3>2. ASSUME NEW m \in Managed \ Declared(goal) PROVE \E d \in doomed' : d[1] = m
      <4>1. <<m, <<mount[m].plugin, mount[m].number>>>> \in doomed'
        BY <2>11 DEF ListManagedMounts
      <4>2. QED
        BY <4>1
    <3>3. QED
      BY <2>4, <3>1, <3>2 DEF EntriesDone, EntryDone, PodHolds, FetchedIsServed,
         MountsDone, MountDone, LeftoversDoomed, Managed
  <2>12. ASSUME NEW d \in Mounts \X Slots, DisableMount(d)
         PROVE  (EntriesDone /\ FetchedIsServed /\ MountsDone /\ LeftoversDoomed)'
    <3>1. /\ Going /\ pc = "prune" /\ pc' # "place"
          /\ UNCHANGED <<source, file, catalog, todo, due>>
          /\ d[1] \in Mounts \ Declared(goal) /\ doomed' = doomed \ {d}
      BY <2>12 DEF DisableMount, Quiet, world, TypeInv, Phases
    <3>2. mount' = [mount EXCEPT ![d[1]] = NoMount]
      BY <2>12 DEF DisableMount, Disable
    <3>3. mount'[d[1]] = NoMount /\ \A k \in Mounts \ {d[1]} : mount'[k] = mount[k]
      BY <3>1, <3>2 DEF TypeInv, TypeOK
    <3>4. MountsDone'
      BY <2>4, <3>1, <3>3 DEF MountsDone, MountDone, Declared
    <3>5. LeftoversDoomed'
      BY <2>4, <3>1, <3>3 DEF LeftoversDoomed, Managed
    <3>6. QED
      BY <2>4, <3>1, <3>4, <3>5 DEF EntriesDone, EntryDone, PodHolds, FetchedIsServed
  <2>13. CASE DeregisterPlugin
    <3>1. /\ Going /\ pc = "deregister" /\ pc' \in {"remove", "prune"}
          /\ UNCHANGED <<source, file, mount, todo, due, doomed>>
      BY <2>13 DEF DeregisterPlugin, Quiet, world
    <3>2. \A t \in Slots : t # gone => catalog'[t] = catalog[t]
      BY <2>13 DEF DeregisterPlugin, TypeInv, TypeOK
    <3>3. \A e \in goal.catalog : catalog'[Slot(e)] = catalog[Slot(e)]
      BY <3>1, <3>2, SpecsHaveShapes, EntriesHaveSlots, PrunedIsNotDesired
         DEF TypeInv, Phases
    <3>4. QED
      BY <2>4, <3>1, <3>3 DEF EntriesDone, EntryDone, PodHolds, FetchedIsServed,
         MountsDone, MountDone, LeftoversDoomed, Managed
  <2>14. ASSUME NEW p \in Pods, RemoveFile(p)
         PROVE  (EntriesDone /\ FetchedIsServed /\ MountsDone /\ LeftoversDoomed)'
    <3>1. /\ Going /\ pc = "remove" /\ pc' \in {"remove", "prune"}
          /\ UNCHANGED <<source, catalog, mount, todo, due, doomed>>
      BY <2>14 DEF RemoveFile, Quiet, world
    <3>2. goal.catalog \subseteq Entries /\ pods \subseteq Pods
      BY <3>1, SpecsHaveShapes DEF TypeInv, TypeOK, Phases
    <3>3. \A e \in goal.catalog, q \in pods : file'[q][e] = file[q][e]
      BY <2>14, <3>1, <3>2, PrunedIsNotDesired DEF RemoveFile, Remove, TypeInv, TypeOK
    <3>4. QED
      BY <2>4, <3>1, <3>3 DEF EntriesDone, EntryDone, PodHolds, FetchedIsServed,
         MountsDone, MountDone, LeftoversDoomed, Managed
  <2>15. QED
    BY <2>1, <2>2, <2>3, <2>5, <2>6, <2>7, <2>8, <2>9, <2>10, <2>11, <2>12, <2>13, <2>14
       DEF Next, Others, Pass, Ensuring, Pruning, Elsewhere, Change, EditSpec, Publish,
           StopPod, StartPod, OperatorDisables, OperatorEnables, OperatorDeregisters,
           BeginFails, FetchFails, EnsureFileFails, EnsurePluginFails,
           EnsureMountFails, ReloadFails, LaterStepFails, DisableMountFails,
           DeregisterPluginFails, RemoveFileFails, PassSucceeds, Crash, ReturnError,
           Return
<1>3. QED
  BY <1>1, <1>2, TypeInvariant, PlacedInvariant, PTL DEF Spec

\* A pass that succeeds undisturbed has made everything as its spec says, and
\* left nothing managed over (the whole of Reconcile).
THEOREM CleanPassesConverge == Spec => CleanPassConverges
<1>1. TypeInv /\ Progress /\ [Next]_vars =>
        [pc # "idle" /\ pc' = "idle" /\ result' = "ok" /\ calm /\ OneEntryPerSlot(goal)
            => Converged(goal, pods)]_vars
  <2> SUFFICES ASSUME TypeInv, Progress, Next, Undisturbed, pc' = "idle", result' = "ok"
               PROVE  Converged(goal, pods)
    BY DEF vars, Undisturbed
  <2>1. PassSucceeds
    BY DEF Undisturbed, Next, Others, Pass, Ensuring, Pruning, Elsewhere, EditSpec,
       Publish, StopPod, StartPod, OperatorDisables, OperatorEnables,
       OperatorDeregisters, BeginPass, BeginFails, Fetch, FetchFails, EnsureFile,
       EnsureFileFails, EnsurePlugin, NextEntry, EnsurePluginFails, EnsureMount,
       AtMounts, EnsureMountFails, ReloadPlugin, AtReloads, ReloadFails,
       LaterStepFails, ListManagedMounts, DisableMount, DisableMountFails,
       DeregisterPlugin, DeregisterPluginFails, RemoveFile, RemoveFileFails, Crash,
       ReturnError, Return
  <2>2. EntriesDone /\ MountsDone /\ LeftoversDoomed
    BY DEF Progress
  <2>3. todo = {} /\ due = {}
    BY <2>1 DEF PassSucceeds, AtPrune, AtReloads, AtMounts, TypeInv, Phases
  <2>4. goal.pruneMode # "never" => Managed \subseteq Declared(goal)
    BY <2>1, <2>2 DEF PassSucceeds, LeftoversDoomed
  <2>5. QED
    BY <2>2, <2>3, <2>4 DEF EntriesDone, EntryDone, MountsDone, MountDone, Converged
<1>2. QED
  BY <1>1, TypeInvariant, ProgressInvariant, PTL DEF Spec, CleanPassConverges

\* A mount that is as the spec has it is tuned to itself, and not reloaded.
LEMMA DoneIsNotTuned ==
    ASSUME TypeInv, NEW m \in Declared(goal), pc # "idle", MountDone(m)
    PROVE  /\ [mount EXCEPT ![m] = Tuned(m, goal.mounts[m])] = mount
           /\ ~NeedsReload(m, goal.mounts[m])
<1>1. mount[m] \in LiveMounts /\ m \in Mounts
  BY DEF TypeInv, TypeOK, MountDone, Declared
<1>2. Tuned(m, goal.mounts[m]) = mount[m]
  BY <1>1 DEF Tuned, MountDone, LiveMounts
<1>3. ~NeedsReload(m, goal.mounts[m])
  BY DEF NeedsReload, VersionMoves, OptionsMove, MountDone
<1>4. QED
  BY <1>1, <1>2, <1>3 DEF TypeInv, TypeOK

\* Where everything is as the spec says, a pass copies, registers, tunes and
\* reloads nothing (EnsureFile, EnsurePlugin and mountTune compare first).
THEOREM ConvergedPassesAreQuiet == Spec => ConvergedIsLeftAlone
<1>1. TypeInv /\ Progress /\ [Next]_vars =>
        [(pc \in {"ensure", "place"}) /\ calm /\ OneEntryPerSlot(goal)
            /\ Converged(goal, pods) /\ calm'
            => UNCHANGED <<file, catalog, mount>> /\ reload' \subseteq reload]_vars
  <2> SUFFICES ASSUME TypeInv, Progress, Next, pc \in {"ensure", "place"}, calm, calm',
                      OneEntryPerSlot(goal), Converged(goal, pods)
               PROVE  UNCHANGED <<file, catalog, mount>> /\ reload' \subseteq reload
    BY DEF vars
  <2>1. /\ pc = "place" => entry \in goal.catalog /\ entry \in Entries
                           /\ content = source[entry]
        /\ left \subseteq pods /\ pods \subseteq Pods
    BY WantedIsRegistration
       DEF Progress, Undisturbed, FetchedIsServed, TypeInv, TypeOK, Phases
  <2>2. pc = "place" => \A p \in pods : Holds(p)
    BY <2>1 DEF Converged, PodHolds, Holds
  <2>3. pc = "place" => ~Registers /\ [catalog EXCEPT ![Slot(entry)] = Wanted] = catalog
    <3>1. pc = "place" => catalog[Slot(entry)] = Wanted
      BY <2>1 DEF Converged, Wanted
    <3>2. QED
      BY <2>1, <3>1, EntriesHaveSlots DEF Registers, TypeInv, TypeOK
  <2>4. \A m \in Declared(goal) : MountDone(m)
    BY DEF Converged, MountDone
  <2>5. \A m \in due : /\ [mount EXCEPT ![m] = Tuned(m, goal.mounts[m])] = mount
                       /\ ~NeedsReload(m, goal.mounts[m])
    BY <2>4, DoneIsNotTuned DEF TypeInv, Phases
  <2>6. ASSUME NEW p \in Pods, EnsureFile(p)
        PROVE  UNCHANGED <<file, catalog, mount>> /\ reload' \subseteq reload
    BY <2>1, <2>2, <2>6 DEF EnsureFile
  <2>7. ASSUME NEW p \in Pods, EnsureFileFails(p)
        PROVE  UNCHANGED <<file, catalog, mount>> /\ reload' \subseteq reload
    BY <2>1, <2>2, <2>7 DEF EnsureFileFails, ReturnError, Return
  <2>8. CASE EnsurePlugin \/ EnsurePluginFails
    BY <2>3, <2>8 DEF EnsurePlugin, EnsurePluginFails, ReturnError, Return
  <2>9. ASSUME NEW m \in Mounts, EnsureMount(m) \/ EnsureMountFails(m)
        PROVE  UNCHANGED <<file, catalog, mount>> /\ reload' \subseteq reload
    BY <2>5, <2>9 DEF EnsureMount, EnsureMountFails, Apply, ReturnError, Return
  <2>10. CASE Others
    BY <2>10 DEF Others, Change, EditSpec, Publish, StopPod, StartPod,
       OperatorDisables, OperatorEnables, OperatorDeregisters
  <2>11. QED
    BY <2>6, <2>7, <2>8, <2>9, <2>10
       DEF Next, Pass, Ensuring, Pruning, live, BeginPass, BeginFails, Fetch, FetchFails,
           ReloadPlugin, ReloadFails, LaterStepFails, ListManagedMounts, DisableMount,
           DisableMountFails, DeregisterPlugin, DeregisterPluginFails, RemoveFile,
           RemoveFileFails, PassSucceeds, Crash, ReturnError, Return
<1>2. QED
  BY <1>1, TypeInvariant, ProgressInvariant, PTL DEF Spec, ConvergedIsLeftAlone

(***************************************************************************)
(* A tune of the option maps is the step of Reconcile, for any options and *)
(* values, and both ways Vault may take a tuned map.                       *)
(***************************************************************************)
LEMMA EffectiveIsByKey ==
    ASSUME NEW a, NEW b
    PROVE  Effective(a) = Effective(b)
             <=> \A k \in OptionKeys \ {ManagedBy} : Get(a, k) = Get(b, k)
BY DEF Effective

\* What is tuned with: the marker, and every other key as it is declared, with
\* the empty value for one that is only held (desiredOptions).
LEMMA DesiredByKey ==
    ASSUME NEW held \in OptionMaps, NEW declared \in OptionMaps,
           NEW want, want = DesiredOptions(held, declared)
    PROVE  /\ DOMAIN want = DOMAIN declared \cup {ManagedBy} \cup DOMAIN held
           /\ DOMAIN want \subseteq OptionKeys
           /\ want[ManagedBy] = Manager
           /\ \A k \in DOMAIN want \ {ManagedBy} : want[k] = Get(declared, k)
<1>1. DOMAIN held \subseteq OptionKeys /\ DOMAIN declared \subseteq OptionKeys
  BY DEF OptionMaps
<1>2. /\ DOMAIN WithManaged(declared) = DOMAIN declared \cup {ManagedBy}
      /\ \A k \in DOMAIN WithManaged(declared) :
            WithManaged(declared)[k] = IF k = ManagedBy THEN Manager ELSE declared[k]
  BY DEF WithManaged
<1>3. /\ DOMAIN want = DOMAIN WithManaged(declared) \cup DOMAIN held
      /\ \A k \in DOMAIN want : want[k] = Get(WithManaged(declared), k)
  BY DEF DesiredOptions
<1>4. QED
  BY <1>1, <1>2, <1>3, OptionAssumption DEF Get

\* On a managed mount the maps differ when the effective options do.
LEMMA DiffersByEffect ==
    ASSUME NEW held \in OptionMaps, NEW declared \in OptionMaps, IsManaged(held)
    PROVE  Differs(held, DesiredOptions(held, declared))
             <=> Effective(held) # Effective(declared)
<1> DEFINE want == DesiredOptions(held, declared)
<1>1. /\ DOMAIN want = DOMAIN declared \cup {ManagedBy} \cup DOMAIN held
      /\ DOMAIN want \subseteq OptionKeys
      /\ want[ManagedBy] = Manager
      /\ \A k \in DOMAIN want \ {ManagedBy} : want[k] = Get(declared, k)
  BY DesiredByKey
<1> HIDE DEF want
<1>2. \A k \in OptionKeys \ DOMAIN want : Get(held, k) = Get(declared, k)
  BY <1>1 DEF Get
<1>3. Get(held, ManagedBy) = want[ManagedBy]
  BY <1>1 DEF IsManaged
<1>4. Differs(held, want)
        <=> \E k \in OptionKeys \ {ManagedBy} : Get(held, k) # Get(declared, k)
  BY <1>1, <1>2, <1>3 DEF Differs
<1>5. QED
  BY <1>4, EffectiveIsByKey DEF want

\* What Vault has after a tune of a managed mount.
LEMMA TunedByKey ==
    ASSUME NEW held \in OptionMaps, NEW declared \in OptionMaps, IsManaged(held),
           NEW after \in AfterTune(held, declared)
    PROVE  IsManaged(after) /\ Effective(after) = Effective(declared)
<1> DEFINE want == DesiredOptions(held, declared)
<1>1. /\ DOMAIN want = DOMAIN declared \cup {ManagedBy} \cup DOMAIN held
      /\ want[ManagedBy] = Manager
      /\ \A k \in DOMAIN want \ {ManagedBy} : want[k] = Get(declared, k)
  BY DesiredByKey
<1>2. CASE ~Differs(held, want)
  BY <1>2, DiffersByEffect DEF AfterTune
<1>3. CASE Differs(held, want)
  <2>1. after \in {Merged(held, want), want}
    BY <1>3 DEF AfterTune
  <2> HIDE DEF want
  <2>2. CASE after = want
    <3>1. Get(after, ManagedBy) = Manager
      BY <1>1, <2>2 DEF Get
    <3>2. \A k \in OptionKeys \ {ManagedBy} : Get(after, k) = Get(declared, k)
      BY <1>1, <2>2 DEF Get
    <3>3. QED
      BY <3>1, <3>2, EffectiveIsByKey DEF IsManaged
  <2>3. CASE after = Merged(held, want)
    <3>1. DOMAIN after = { k \in DOMAIN want : want[k] # Blank }
      BY <1>1, <2>3 DEF Merged
    <3>2. \A k \in DOMAIN after : after[k] = want[k]
      BY <1>1, <2>3, <3>1 DEF Merged
    <3>3. Get(after, ManagedBy) = Manager
      BY <1>1, <3>1, <3>2, OptionAssumption DEF Get
    <3>4. \A k \in OptionKeys \ {ManagedBy} : Get(after, k) = Get(declared, k)
      BY <1>1, <3>1, <3>2 DEF Get
    <3>5. QED
      BY <3>3, <3>4, EffectiveIsByKey DEF IsManaged
  <2>4. QED
    BY <2>1, <2>2, <2>3
<1>4. QED
  BY <1>2, <1>3

\* Whichever way Vault takes a tuned map, the tune of a pass is the step that
\* Reconcile makes of it, and leaves nothing to tune (mountTune).
THEOREM TunesAreFaithful == Spec => []TuneIsFaithful
<1>1. TypeOK => TuneIsFaithful
  <2> SUFFICES ASSUME TypeOK, NEW m \in due, mount[m] # NoMount,
                      NEW held \in OptionMaps, NEW declared \in OptionMaps,
                      Stands(held, mount[m]),
                      Effective(declared) = goal.mounts[m].options
               PROVE  /\ OptionsMove(m, goal.mounts[m]) <=>
                            IsManaged(held)
                              /\ Differs(held, DesiredOptions(held, declared))
                      /\ \A after \in AfterTune(held, declared) :
                            Stands(after, Tuned(m, goal.mounts[m]))
    BY DEF TuneIsFaithful
  <2>1. mount[m] \in LiveMounts
    BY DEF TypeOK
  <2>2. /\ Effective(held) = mount[m].options
        /\ IsManaged(held) = mount[m].managed
    BY DEF Stands
  <2>3. OptionsMove(m, goal.mounts[m]) <=>
            IsManaged(held) /\ Differs(held, DesiredOptions(held, declared))
    BY <2>2, DiffersByEffect DEF OptionsMove
  <2>4. ASSUME NEW after \in AfterTune(held, declared)
        PROVE  Stands(after, Tuned(m, goal.mounts[m]))
    <3>1. CASE IsManaged(held)
      <4>1. /\ Tuned(m, goal.mounts[m]).options = goal.mounts[m].options
            /\ Tuned(m, goal.mounts[m]).managed = mount[m].managed
        BY <2>1, <2>2, <3>1 DEF Tuned, LiveMounts
      <4>2. IsManaged(after) /\ Effective(after) = Effective(declared)
        BY <2>4, <3>1, TunedByKey
      <4>3. QED
        BY <2>1, <2>2, <3>1, <4>1, <4>2 DEF Stands, LiveMounts
    <3>2. CASE ~IsManaged(held)
      <4>1. after = held
        BY <2>4, <3>2 DEF AfterTune
      <4>2. /\ Tuned(m, goal.mounts[m]).options = mount[m].options
            /\ Tuned(m, goal.mounts[m]).managed = mount[m].managed
        BY <2>1, <2>2, <3>2 DEF Tuned, LiveMounts
      <4>3. QED
        BY <2>2, <4>1, <4>2 DEF Stands
    <3>3. QED
      BY <3>1, <3>2
  <2>5. QED
    BY <2>3, <2>4
<1>2. QED
  BY <1>1, TypeCorrect, PTL
=============================================================================
