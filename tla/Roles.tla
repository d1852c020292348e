-------------------------------- MODULE Roles --------------------------------
(***************************************************************************)
(* The role step of a reconcile pass: declared roles are read, compared    *)
(* and written (internal/vault/roles.go), then, under pruneMode full,      *)
(* undeclared ones are deleted (reconcileRoles in                          *)
(* internal/reconcile/reconcile.go).                                       *)
(*                                                                         *)
(* A role read back carries the plugin's defaults for what the spec omits, *)
(* so only declared keys can be compared, and a key taken out of the spec  *)
(* does not show.  The process remembers the keys it wrote last to notice  *)
(* it; the memory is lost with the process.  A key that a write leaves out *)
(* goes back to its default with some plugins and keeps its value with     *)
(* others (the one of roles_test.go:149).  Any request may fail, before or *)
(* after it took effect, and operators edit roles and mounts by hand.      *)
(***************************************************************************)
EXTENDS Naturals, FiniteSets

CONSTANTS Paths,        \* mount paths, which a secret and an auth mount may share
          Dirs,         \* "<mount>/<rolesPath>"
          Names,        \* role names
          PathOf,       \* [Dirs -> Paths]
          AuthManaged,  \* paths with an auth mount the manager made
          Merging,      \* paths whose plugin merges a write into the role it has
          Keys,         \* keys of role bodies
          Spelled,      \* values, as a spec may spell them ("5m")
          Values,       \* values, as Vault reports them ("300")
          ValueOf,      \* [Spelled -> Values]: the classes of RoleValues
          Omitted,      \* the spec does not have the key
          Default,      \* the plugin's value for a key that was not given
          NoRole,       \* Vault does not have the role
          Undeclared,   \* the spec does not have the role
          Unwritten,    \* this process has not written the role
          Specs,        \* the specs a ConfigMap may hold
          Found,        \* roles a manager may find when it starts
          MaxChanges,   \* bound: changes by operators
          MaxFaults     \* bound: failed requests and crashes

Roles == Dirs \X Names
At(r) == PathOf[r[1]]

Bodies == [Keys -> Spelled \cup {Omitted}]
Held == [Keys -> Values \cup {Default}]
SpecShapes == [roles : [Roles -> Bodies \cup {Undeclared}], full : BOOLEAN]

ASSUME SpecAssumption == Specs \subseteq SpecShapes /\ Specs # {}
ASSUME MapAssumption ==
    /\ PathOf \in [Dirs -> Paths]
    /\ ValueOf \in [Spelled -> Values]
    /\ AuthManaged \subseteq Paths
    /\ Merging \subseteq Paths
    /\ Found \subseteq Held
ASSUME SentinelAssumption ==
    /\ Omitted \notin Spelled
    /\ Default \notin Values
    /\ NoRole \notin Held
    /\ Undeclared \notin Bodies
    /\ Unwritten \notin SUBSET Keys
ASSUME BoundAssumption == {MaxChanges, MaxFaults} \subseteq Nat

VARIABLES
    spec,       \* roles and prune mode of the ConfigMap
    vault,      \* the roles Vault holds
    mount,      \* the secret mount at each path: none, foreign, managed
    memory,     \* roleKeys: the keys of the last write this process made
    pc,         \* the step: idle, upsert, prune
    goal,       \* the spec of the pass
    todo,       \* declared roles still to ensure
    dirs,       \* directories still to list
    doomed,     \* roles listed and not desired, still to delete
    wrote,      \* roles EnsureRole reported as changed in this pass
    result,     \* what the last pass returned: none, ok, error
    changes,    \* operators' changes so far
    faults,     \* failed requests and crashes so far
    calm,       \* history: nobody changed anything during this pass
    settled,    \* history: nothing happened since a calm pass succeeded
    excuse      \* history: why a role may hold keys beyond the remembered ones

local == <<goal, todo, dirs, doomed, wrote>>
vars == <<spec, vault, mount, memory, pc, goal, todo, dirs, doomed, wrote, result,
          changes, faults, calm, settled, excuse>>

Excuses == {"operator",     \* an operator wrote it since
            "unsaved"}      \* Vault accepted a write that returned an error

TypeOK ==
    /\ spec \in Specs
    /\ vault \in [Roles -> Held \cup {NoRole}]
    /\ mount \in [Paths -> {"none", "foreign", "managed"}]
    /\ memory \in [Roles -> (SUBSET Keys) \cup {Unwritten}]
    /\ pc \in {"idle", "upsert", "prune"}
    /\ goal \in Specs
    /\ todo \in SUBSET Roles
    /\ dirs \in SUBSET Dirs
    /\ doomed \in SUBSET Roles
    /\ wrote \in SUBSET Roles
    /\ result \in {"none", "ok", "error"}
    /\ changes \in 0..MaxChanges
    /\ faults \in 0..MaxFaults
    /\ calm \in BOOLEAN
    /\ settled \in BOOLEAN
    /\ excuse \in [Roles -> SUBSET Excuses]

\* A manager that starts on mounts whose roles may be left from an earlier
\* process, or made by hand.
Init ==
    /\ spec \in Specs
    /\ mount \in [Paths -> {"foreign", "managed"}]
    /\ vault \in [Roles -> Found \cup {NoRole}]
    /\ memory = [r \in Roles |-> Unwritten]
    /\ pc = "idle"
    /\ goal = spec
    /\ todo = {} /\ dirs = {} /\ doomed = {} /\ wrote = {}
    /\ result = "none"
    /\ changes = 0 /\ faults = 0
    /\ calm = TRUE /\ settled = FALSE
    /\ excuse = [r \in Roles |-> {}]

DeclaredRoles == { r \in Roles : goal.roles[r] # Undeclared }
KeysOf(b) == { k \in Keys : b[k] # Omitted }

\* The value of a key that a write to a role leaves out.
Unsent(r, k) ==
    IF At(r) \in Merging /\ vault[r] # NoRole THEN vault[r][k] ELSE Default

\* Mutant: values are stored as they are spelled.
WrittenAsSpelled(r, b) == [k \in Keys |-> IF b[k] = Omitted THEN Unsent(r, k) ELSE b[k]]
\* What Vault holds after a write to the role it holds now.
Written(r, b) == [k \in Keys |-> IF b[k] = Omitted THEN Unsent(r, k) ELSE ValueOf[b[k]]]
KeysSet(h) == { k \in Keys : h[k] # Default }

(***************************************************************************)
(* What happens outside the role step                                      *)
(***************************************************************************)
Change ==
    /\ changes < MaxChanges
    /\ changes' = changes + 1
    /\ calm' = (pc = "idle")
    /\ settled' = FALSE

Elsewhere == UNCHANGED <<memory, pc, local, result, faults>>

EditSpec(s) ==
    /\ Change
    /\ spec' = s
    /\ UNCHANGED <<vault, mount, excuse>> /\ Elsewhere

\* An operator writes a role, or deletes it.
OperatorWrites(r, h) ==
    /\ Change
    /\ mount[At(r)] # "none"
    /\ vault' = [vault EXCEPT ![r] = h]
    /\ excuse' = [excuse EXCEPT ![r] = @ \cup {"operator"}]
    /\ UNCHANGED <<spec, mount>> /\ Elsewhere

\* Disabling a mount destroys its roles.
OperatorDisables(p) ==
    /\ Change
    /\ mount[p] # "none"
    /\ mount' = [mount EXCEPT ![p] = "none"]
    /\ vault' = [r \in Roles |-> IF At(r) = p THEN NoRole ELSE vault[r]]
    /\ UNCHANGED <<spec, excuse>> /\ Elsewhere

\* A mount comes back: made by hand, or by the mount step of a pass.
Mounted(p, by) ==
    /\ mount[p] = "none"
    /\ by = "managed" => pc = "idle"
    /\ mount' = [mount EXCEPT ![p] = by]
    /\ calm' = (pc = "idle")
    /\ settled' = FALSE
    /\ UNCHANGED <<spec, vault, changes, excuse>> /\ Elsewhere

(***************************************************************************)
(* The pass                                                                *)
(***************************************************************************)
Quiet == UNCHANGED <<spec, mount, changes, calm>>
Fault == faults < MaxFaults /\ faults' = faults + 1 /\ settled' = FALSE
NoFault == UNCHANGED <<faults, settled>>

\* The step returns; what it changed and remembered stays.
ReturnError ==
    /\ pc' = "idle"
    /\ todo' = {} /\ dirs' = {} /\ doomed' = {}
    /\ result' = "error"
    /\ calm' = TRUE
    /\ UNCHANGED <<spec, mount, changes, goal, wrote>>

BeginStep ==
    /\ pc = "idle"
    /\ pc' = "upsert"
    /\ goal' = spec
    /\ todo' = { r \in Roles : spec.roles[r] # Undeclared }
    /\ wrote' = {}
    /\ UNCHANGED <<vault, memory, dirs, doomed, result, excuse>>
    /\ NoFault /\ Quiet

\* sameRoleValue, as the pure function RoleValues is about.
\* Mutant: what was declared is compared as it is spelled.
SameAsSpelled(got, want) == got = want
SameValue(got, want) == got = ValueOf[want]

\* roleUpToDate, after a read that found the role.
RoleUpToDate(h, b) ==
    h # NoRole /\ \A k \in KeysOf(b) : SameValue(h[k], b[k])

\* Mutant: fewer keys than were written are trusted like the same keys.
TrustsFewerKeys(r) == memory[r] # Unwritten /\ KeysOf(goal.roles[r]) \subseteq memory[r]

\* sameRoleKeysAsLastWrite
SameRoleKeysAsLastWrite(r) == memory[r] = KeysOf(goal.roles[r])
Current(r) == SameRoleKeysAsLastWrite(r) /\ RoleUpToDate(vault[r], goal.roles[r])

Accepted(r) ==
    /\ mount[At(r)] # "none"
    /\ vault' = [vault EXCEPT ![r] = Written(r, goal.roles[r])]

RecordRoleKeys(r) == memory' = [memory EXCEPT ![r] = KeysOf(goal.roles[r])]

WriteRole(r) ==
    /\ Accepted(r)
    /\ RecordRoleKeys(r)
    /\ wrote' = wrote \cup {r}
    /\ excuse' = [excuse EXCEPT ![r] = {}]

\* EnsureRole: a read that fails is no error, the role is written.
EnsureRole(r) ==
    /\ pc = "upsert"
    /\ r \in todo
    /\ \/ Current(r) /\ NoFault /\ UNCHANGED <<vault, memory, wrote, excuse>>
       \/ ~Current(r) /\ NoFault /\ WriteRole(r)
       \/ SameRoleKeysAsLastWrite(r) /\ Fault /\ WriteRole(r)
    /\ todo' = todo \ {r}
    /\ UNCHANGED <<pc, goal, dirs, doomed, result>>
    /\ Quiet

\* Mutant: the keys are recorded before the error of the write is looked at.
ForgetsTheError(r) == RecordRoleKeys(r)
\* A write that returned an error is not remembered.
Unremembered(r) == UNCHANGED memory

\* The mount is not there, or the write fails, before or after it took effect.
EnsureRoleFails(r) ==
    /\ pc = "upsert"
    /\ r \in todo
    /\ \/ ~Current(r) /\ mount[At(r)] = "none" /\ NoFault /\ UNCHANGED <<vault, excuse>>
       \/ Fault /\ UNCHANGED <<vault, excuse>>
       \/ /\ Fault
          /\ Accepted(r)
          /\ excuse' = [excuse EXCEPT ![r] = @ \cup {"unsaved"}]
    /\ Unremembered(r)
    /\ ReturnError

AtPrune == pc = "upsert" /\ todo = {}

\* ListManagedMounts lists paths of both types, and each stands for the mount
\* the roles below it are in, which is the secret one.
\* Mutant: every mount is listed.
ListedAll == { p \in Paths : mount[p] # "none" } \cup AuthManaged
Listed == { p \in Paths : mount[p] = "managed" } \cup AuthManaged

\* desiredRoles: the directories with a declared role, and its names.
DesiredDirs == { r[1] : r \in DeclaredRoles }
\* Mutant: a name is desired in every directory.
DesiredByName(r) == \E d \in DeclaredRoles : d[2] = r[2]
Desired(r) == r \in DeclaredRoles

ListManagedMounts ==
    /\ AtPrune
    /\ goal.full
    /\ dirs' = { d \in DesiredDirs : PathOf[d] \in Listed }
    /\ pc' = "prune"
    /\ UNCHANGED <<vault, memory, goal, todo, doomed, wrote, result, excuse>>
    /\ NoFault /\ Quiet

\* A path that is not mounted lists nothing.
ListRoles(d) ==
    /\ pc = "prune"
    /\ doomed = {}
    /\ d \in dirs
    /\ doomed' = { r \in Roles : r[1] = d /\ vault[r] # NoRole /\ ~Desired(r) }
    /\ dirs' = dirs \ {d}
    /\ UNCHANGED <<vault, memory, pc, goal, todo, wrote, result, excuse>>
    /\ NoFault /\ Quiet

ListFails ==
    /\ \/ AtPrune /\ goal.full
       \/ pc = "prune" /\ doomed = {} /\ dirs # {}
    /\ Fault
    /\ UNCHANGED <<vault, memory, excuse>>
    /\ ReturnError

\* A role that is missing by now is no error.
Delete(r) == vault' = [vault EXCEPT ![r] = NoRole]

DeleteRole(r) ==
    /\ pc = "prune"
    /\ r \in doomed
    /\ Delete(r)
    /\ doomed' = doomed \ {r}
    /\ UNCHANGED <<memory, pc, goal, todo, dirs, wrote, result, excuse>>
    /\ NoFault /\ Quiet

DeleteRoleFails(r) ==
    /\ pc = "prune"
    /\ r \in doomed
    /\ Fault
    /\ Delete(r) \/ UNCHANGED vault
    /\ UNCHANGED <<memory, excuse>>
    /\ ReturnError

StepSucceeds ==
    /\ \/ AtPrune /\ ~goal.full
       \/ pc = "prune" /\ dirs = {} /\ doomed = {}
    /\ pc' = "idle"
    /\ result' = "ok"
    /\ settled' = calm
    /\ calm' = TRUE
    /\ UNCHANGED <<spec, vault, mount, memory, local, changes, faults, excuse>>

\* The process dies anywhere: what it remembers is lost, and every role is
\* written again.
Crash ==
    /\ Fault
    /\ memory' = [r \in Roles |-> Unwritten]
    /\ excuse' = [r \in Roles |-> {}]
    /\ UNCHANGED vault
    /\ ReturnError

Operator ==
    \/ \E s \in Specs : EditSpec(s)
    \/ \E r \in Roles, h \in Found \cup {NoRole} : OperatorWrites(r, h)
    \/ \E p \in Paths : OperatorDisables(p)
    \/ \E p \in Paths, by \in {"foreign", "managed"} : Mounted(p, by)

Pass ==
    \/ BeginStep
    \/ \E r \in Roles : EnsureRole(r)
    \/ \E r \in Roles : EnsureRoleFails(r)
    \/ ListManagedMounts
    \/ \E d \in Dirs : ListRoles(d)
    \/ ListFails
    \/ \E r \in Roles : DeleteRole(r)
    \/ \E r \in Roles : DeleteRoleFails(r)
    \/ StepSucceeds

Next == Operator \/ Pass \/ Crash

Spec == Init /\ [][Next]_vars

\* The runner keeps making passes, and a pass ends (see Runner).
FairSpec == Spec /\ WF_vars(Pass)

(***************************************************************************)
(* Safety                                                                  *)
(***************************************************************************)

\* Where a write replaces the role, the memory is an upper bound on what Vault
\* holds: a role of which nobody else wrote a version, with no write of unknown
\* outcome, has no key set but the remembered ones.  This is what makes a
\* comparison of the declared keys enough; it survives mounts that go and come
\* back without their roles.  Where the plugin merges, nothing bounds the keys.
MemoryBoundsKeys ==
    \A r \in Roles :
        /\ At(r) \notin Merging
        /\ memory[r] # Unwritten /\ vault[r] # NoRole /\ excuse[r] = {}
        => KeysSet(vault[r]) \subseteq memory[r]

\* The role has the declared values and no other.
Exact(r, b) ==
    vault[r] = [k \in Keys |-> IF b[k] = Omitted THEN Default ELSE ValueOf[b[k]]]

\* What a clean step leaves: every declared key has its value; where a write
\* replaces the role no other key has one, but for the roles with an excuse;
\* no undeclared role is left where the manager is the authority.
Converged(s) ==
    /\ \A r \in Roles : s.roles[r] # Undeclared =>
          /\ RoleUpToDate(vault[r], s.roles[r])
          /\ At(r) \notin Merging /\ excuse[r] = {} => Exact(r, s.roles[r])
    /\ s.full => \A r, d \in Roles :
          s.roles[r] = Undeclared /\ vault[r] # NoRole
             /\ s.roles[d] # Undeclared /\ d[1] = r[1] => mount[At(r)] = "foreign"

Ends(outcome) == pc # "idle" /\ pc' = "idle" /\ result' = outcome

\* A step that succeeds undisturbed has converged, whatever was left by an
\* earlier process, a failed pass or an operator; a key removed while the
\* manager was down is gone after the first one, unless the plugin merges.
CleanStepConverges == [][Ends("ok") /\ calm => Converged(goal)]_vars

\* A resync is quiet: when nothing happened since a clean step, the next one
\* neither writes nor deletes.
ResyncIsQuiet == [][settled /\ settled' => vault' = vault /\ wrote' = {}]_vars

\* The step touches no role it has no authority over: declared ones are only
\* written, with the declared values and what the plugin makes of the rest;
\* others only deleted, under full, beside a declared role, and on a mount that
\* was marked, or shares its path with a marked auth mount, unless the mounts
\* changed in the middle of the step.
OnlyItsOwnRoles ==
    [][\A r \in Roles :
          calm /\ calm' /\ pc # "idle" /\ vault'[r] # vault[r] =>
             IF goal.roles[r] # Undeclared THEN vault'[r] = Written(r, goal.roles[r])
             ELSE /\ vault'[r] = NoRole
                  /\ goal.full
                  /\ r[1] \in DesiredDirs
                  /\ mount[At(r)] = "foreign" => At(r) \in AuthManaged]_vars

(***************************************************************************)
(* Liveness                                                                *)
(***************************************************************************)
Deliverable == \A r \in Roles : spec.roles[r] # Undeclared => mount[At(r)] # "none"

\* When the changes and faults are over, Vault ends up with the roles of the
\* spec, if they have a mount to be in.
Settles == <>[]Deliverable => <>[]Converged(spec)

(***************************************************************************)
(* Statements of the documentation the code does not keep                  *)
(***************************************************************************)

\* README.md:191: "Removing a key from a role's data is applied, not skipped",
\* "so the field goes back to the plugin's default".
RemovedKeysLeave ==
    [][Ends("ok") /\ calm =>
          \A r \in DeclaredRoles : "operator" \notin excuse[r] => Exact(r, goal.roles[r])]_vars
=============================================================================
