---------------------------- MODULE EngineConfig ----------------------------
(***************************************************************************)
(* The engine config step of a reconcile pass                              *)
(* (internal/reconcile/engineconfig.go) with the Kubernetes Secrets it     *)
(* reads and keeps its records in (internal/k8s/secrets.go) and the Vault  *)
(* mounts it writes to (internal/vault/engineconfig.go).                   *)
(*                                                                         *)
(* Engine configs cannot be read back, so the step remembers in a state    *)
(* Secret what it wrote, and to which mount; it writes Vault first and the *)
(* record second.  Every request may fail, or fail after it took effect,   *)
(* the process may die between any two, and meanwhile operators edit the   *)
(* ConfigMap, the Secrets, the mounts and the state Secret.                *)
(***************************************************************************)
EXTENDS Naturals, FiniteSets

CONSTANTS Entries,      \* "<mount>/<path>" of the engine configs
          Mounts,       \* secret mounts
          Secrets,      \* Secrets a secretRef may name
          MountOf,      \* [Entries -> Mounts]
          SecretOf,     \* [Entries -> Secrets \cup {NoRef}]
          NoRef,        \* an entry without secretRef, and its missing value
          Data,         \* the literal data of an entry
          Values,       \* values of a Secret
          Missing,      \* no such Secret or key, an empty or a non-UTF-8 value
          Unread,       \* not in the pass's snapshot
          Undeclared,   \* the spec does not have the entry
          NoRecord,     \* the state has no record of the entry
          NoConfig,     \* the mount has no config at the path
          NoSecret,     \* the state Secret does not exist
          Corrupt,      \* it has no engine-configs.json, or an undecodable one
          MaxUUID,      \* bound: mounts ever enabled
          MaxChanges,   \* bound: changes by operators and engines
          MaxFaults     \* bound: failed requests and crashes

\* The whole body is built before it is digested, and the digest of
\* {path, body} is injective for what follows: the body stands for both.
Bodies == [data : Data, secret : Values \cup {NoRef}]

\* engineConfigRecord: what was written, to the mount with which UUID.
Records == [body : Bodies, uuid : 1..MaxUUID]
StateData == [Entries -> Records \cup {NoRecord}]
NoRecords == [e \in Entries |-> NoRecord]

\* Why an entry may have to be written though Vault holds the same body.
Excuses == {"adoption",     \* it was configured before it had a record
            "operator",     \* an operator deleted the record
            "dropped",      \* the entry left the spec, and its record with it
            "unsaved",      \* its write was accepted, and the save of it lost
            "raced"}        \* the mount was replaced before the write reached it

ASSUME MapAssumption ==
    /\ MountOf \in [Entries -> Mounts]
    /\ SecretOf \in [Entries -> Secrets \cup {NoRef}]
    /\ NoRef \notin Secrets \cup Values
ASSUME SentinelAssumption ==
    /\ {Missing, Unread} \cap Values = {}
    /\ Missing # Unread
    /\ Undeclared \notin Data
    /\ NoRecord \notin Records
    /\ NoConfig \notin Bodies
    /\ {NoSecret, Corrupt} \cap StateData = {}
    /\ NoSecret # Corrupt
ASSUME BoundAssumption == {MaxUUID, MaxChanges, MaxFaults} \subseteq Nat

VARIABLES
    spec,       \* the engineConfigs of the current spec
    secret,     \* the referenced Secrets
    uuid,       \* the live secret mounts, 0 for a path that is not mounted
    issued,     \* the UUIDs Vault gave out so far
    vault,      \* the body each config endpoint accepted last
    state,      \* the state Secret
    pc,         \* the step: idle, load, resolve, create, write, save
    declared,   \* spec.EngineConfigs of the pass
    records,    \* local: the records loaded, updated by the writes
    rv,         \* local: the resourceVersion: none, held, or stale by now
    snapshot,   \* local: the Secrets read so far
    body,       \* local: the bodies built
    uuids,      \* local: the mount UUIDs read
    pending,    \* local: the entries still to write
    wrote,      \* local: the entries written (dirty is wrote # {})
    failed,     \* local: writeErr is set
    result,     \* what the last pass returned: none, ok, error
    changes,    \* operators' and engines' changes so far
    faults,     \* failed requests and crashes so far
    excuse      \* history: why each entry may be written again

world == <<spec, secret, uuid, issued>>
local == <<declared, records, rv, snapshot, body, uuids, pending, wrote, failed>>
vars == <<spec, secret, uuid, issued, vault, state, pc, declared, records, rv,
          snapshot, body, uuids, pending, wrote, failed, result, changes,
          faults, excuse>>

Names == { e \in Entries : declared[e] # Undeclared }

TypeOK ==
    /\ spec \in [Entries -> Data \cup {Undeclared}]
    /\ secret \in [Secrets -> Values \cup {Missing}]
    /\ uuid \in [Mounts -> 0..MaxUUID]
    /\ issued \in 0..MaxUUID
    /\ vault \in [Entries -> Bodies \cup {NoConfig}]
    /\ state \in StateData \cup {NoSecret, Corrupt}
    /\ pc \in {"idle", "load", "resolve", "create", "write", "save"}
    /\ declared \in [Entries -> Data \cup {Undeclared}]
    /\ records \in StateData
    /\ rv \in {"none", "held", "stale"}
    /\ snapshot \in [Secrets -> Values \cup {Missing, Unread}]
    /\ body \in [Entries -> Bodies \cup {NoConfig}]
    /\ uuids \in [Mounts -> 0..MaxUUID]
    /\ pending \in SUBSET Entries
    /\ wrote \in SUBSET Entries
    /\ failed \in BOOLEAN
    /\ result \in {"none", "ok", "error"}
    /\ changes \in 0..MaxChanges
    /\ faults \in 0..MaxFaults
    /\ excuse \in [Entries -> SUBSET Excuses]

\* A manager that starts on a cluster: every mount is new, an engine may have
\* been configured by hand before, and there is no state Secret.
Init ==
    /\ spec \in [Entries -> Data \cup {Undeclared}]
    /\ secret \in [Secrets -> Values]
    /\ issued \in 0..MaxUUID
    /\ issued = Cardinality(Mounts)
    /\ uuid \in [Mounts -> 1..issued]
    /\ \A m, n \in Mounts : uuid[m] = uuid[n] => m = n
    /\ vault \in [Entries -> Bodies \cup {NoConfig}]
    /\ state = NoSecret
    /\ pc = "idle"
    /\ declared = [e \in Entries |-> Undeclared]
    /\ records = NoRecords
    /\ rv = "none"
    /\ snapshot = [s \in Secrets |-> Unread]
    /\ body = [e \in Entries |-> NoConfig]
    /\ uuids = [m \in Mounts |-> 0]
    /\ pending = {}
    /\ wrote = {}
    /\ failed = FALSE
    /\ result = "none"
    /\ changes = 0
    /\ faults = 0
    /\ excuse = [e \in Entries |-> {"adoption"}]

(***************************************************************************)
(* What happens outside the manager.  Each is an external change; none     *)
(* touches the pass's locals, but a change of the state Secret makes the   *)
(* resourceVersion the pass holds stale.                                   *)
(***************************************************************************)
Change == changes < MaxChanges /\ changes' = changes + 1

Staled == IF rv = "held" THEN "stale" ELSE rv

EditSpec(e, d) ==
    /\ Change
    /\ spec' = [spec EXCEPT ![e] = d]
    /\ UNCHANGED <<secret, uuid, issued, vault, state, pc, local, result, faults,
                   excuse>>

EditSecret(s, v) ==
    /\ Change
    /\ secret' = [secret EXCEPT ![s] = v]
    /\ UNCHANGED <<spec, uuid, issued, vault, state, pc, local, result, faults,
                   excuse>>

\* Disabling a mount destroys the configs written to it.
DisableMount(m) ==
    /\ Change
    /\ uuid[m] # 0
    /\ uuid' = [uuid EXCEPT ![m] = 0]
    /\ vault' = [e \in Entries |-> IF MountOf[e] = m THEN NoConfig ELSE vault[e]]
    /\ UNCHANGED <<spec, secret, issued, state, pc, local, result, faults, excuse>>

\* Enabling one gives it a UUID no mount had before.
EnableMount(m) ==
    /\ uuid[m] = 0
    /\ issued < MaxUUID
    /\ issued' = issued + 1
    /\ uuid' = [uuid EXCEPT ![m] = issued + 1]
    /\ UNCHANGED <<spec, secret, vault, state, pc, local, result, changes, faults,
                   excuse>>

\* An operator deletes the state Secret, or one record of it, to ask for a
\* rewrite; or damages it.
DeleteState ==
    /\ Change
    /\ state # NoSecret
    /\ state' = NoSecret
    /\ rv' = Staled
    /\ excuse' = [e \in Entries |-> excuse[e] \cup {"operator"}]
    /\ UNCHANGED <<world, vault, pc, declared, records, snapshot, body, uuids,
                   pending, wrote, failed, result, faults>>

DeleteRecord(e) ==
    /\ Change
    /\ state \in StateData
    /\ state[e] # NoRecord
    /\ state' = [state EXCEPT ![e] = NoRecord]
    /\ rv' = Staled
    /\ excuse' = [excuse EXCEPT ![e] = @ \cup {"operator"}]
    /\ UNCHANGED <<world, vault, pc, declared, records, snapshot, body, uuids,
                   pending, wrote, failed, result, faults>>

DamageState ==
    /\ Change
    /\ state \in StateData
    /\ state' = Corrupt
    /\ rv' = Staled
    /\ UNCHANGED <<world, vault, pc, declared, records, snapshot, body, uuids,
                   pending, wrote, failed, result, faults, excuse>>

(***************************************************************************)
(* The pass                                                                *)
(***************************************************************************)
Fault == faults < MaxFaults /\ faults' = faults + 1

\* The step returns, with an error or without; its locals are gone.
Return(outcome) ==
    /\ result' = outcome
    /\ pc' = "idle"
    /\ UNCHANGED local

\* reconcileEngineConfigs is reached, with the spec the pass started from.
BeginStep ==
    /\ pc = "idle"
    /\ pc' = "load"
    /\ declared' = spec
    /\ records' = NoRecords
    /\ rv' = "none"
    /\ snapshot' = [s \in Secrets |-> Unread]
    /\ body' = [e \in Entries |-> NoConfig]
    /\ uuids' = [m \in Mounts |-> 0]
    /\ pending' = {}
    /\ wrote' = {}
    /\ failed' = FALSE
    /\ UNCHANGED <<world, vault, state, result, changes, faults, excuse>>

\* Mutant: a damaged Secret is taken as it is.
LoadStateUnchecked ==
    /\ pc = "load"
    /\ records' = IF state = NoSecret THEN NoRecords ELSE state
    /\ rv' = IF state = NoSecret THEN "none" ELSE "held"
    /\ pc' = "resolve"
    /\ UNCHANGED <<world, vault, state, declared, snapshot, body, uuids, pending,
                   wrote, failed, result, changes, faults, excuse>>

\* Only a missing Secret is empty state.
LoadState ==
    /\ pc = "load"
    /\ state # Corrupt
    /\ records' = IF state = NoSecret THEN NoRecords ELSE state
    /\ rv' = IF state = NoSecret THEN "none" ELSE "held"
    /\ pc' = "resolve"
    /\ UNCHANGED <<world, vault, state, declared, snapshot, body, uuids, pending,
                   wrote, failed, result, changes, faults, excuse>>

\* Any other outcome fails the pass, unless nothing is declared.
LoadFails ==
    /\ pc = "load"
    /\ \/ state = Corrupt /\ UNCHANGED faults
       \/ Fault
    /\ Return(IF Names = {} THEN "ok" ELSE "error")
    /\ UNCHANGED <<world, vault, state, changes, excuse>>

Unbuilt == { e \in Names : body[e] = NoConfig }

\* Mutant: the Secret is read again for every entry.
ValueReread(e) == IF SecretOf[e] = NoRef THEN NoRef ELSE secret[SecretOf[e]]

\* The value an entry's fields get: each Secret is read once per pass.
ValueOf(e) ==
    CASE SecretOf[e] = NoRef                -> NoRef
      [] SecretOf[e] # NoRef /\ snapshot[SecretOf[e]] # Unread
                                            -> snapshot[SecretOf[e]]
      [] OTHER                              -> secret[SecretOf[e]]

ResolveEntry(e) ==
    /\ pc = "resolve"
    /\ e \in Unbuilt
    /\ ValueOf(e) # Missing
    /\ snapshot' = IF SecretOf[e] = NoRef THEN snapshot
                   ELSE [snapshot EXCEPT ![SecretOf[e]] = ValueOf(e)]
    /\ body' = [body EXCEPT ![e] = [data |-> declared[e], secret |-> ValueOf(e)]]
    /\ UNCHANGED <<world, vault, state, pc, declared, records, rv, uuids, pending,
                   wrote, failed, result, changes, faults, excuse>>

ResolveFails(e) ==
    /\ pc = "resolve"
    /\ e \in Unbuilt
    /\ SecretOf[e] # NoRef
    /\ \/ ValueOf(e) = Missing /\ UNCHANGED faults
       \/ snapshot[SecretOf[e]] = Unread /\ Fault
    /\ Return("error")
    /\ UNCHANGED <<world, vault, state, changes, excuse>>

AllMounted == \A e \in Names : uuid[MountOf[e]] # 0

\* Mutant: a recreated mount is not noticed.
NeedsWriteByDigest(rec, wanted, live) == rec = NoRecord \/ rec.body # wanted

\* writeReason: unrecorded, mount_recreated, changed.
NeedsWrite(rec, wanted, live) ==
    \/ rec = NoRecord
    \/ rec.uuid # live
    \/ rec.body # wanted

\* Mutant: the state Secret is left for the save to create.
ReadMountsCreatesNothing ==
    /\ pc = "resolve"
    /\ Unbuilt = {}
    /\ AllMounted
    /\ uuids' = uuid
    /\ pending' = { e \in Names : NeedsWrite(records[e], body[e], uuid[MountOf[e]]) }
    /\ pc' = "write"
    /\ UNCHANGED <<world, vault, state, declared, records, rv, snapshot, body,
                   wrote, failed, result, changes, faults, excuse>>

\* engineConfigMountUUIDs, and the pending writes computed from what it read.
ReadMounts ==
    /\ pc = "resolve"
    /\ Unbuilt = {}
    /\ AllMounted
    /\ uuids' = uuid
    /\ pending' = { e \in Names : NeedsWrite(records[e], body[e], uuid[MountOf[e]]) }
    /\ pc' = IF rv = "none" /\ pending' # {} THEN "create" ELSE "write"
    /\ UNCHANGED <<world, vault, state, declared, records, rv, snapshot, body,
                   wrote, failed, result, changes, faults, excuse>>

ReadMountsFails ==
    /\ pc = "resolve"
    /\ Unbuilt = {}
    /\ Names # {}
    /\ \/ ~AllMounted /\ UNCHANGED faults
       \/ Fault
    /\ Return("error")
    /\ UNCHANGED <<world, vault, state, changes, excuse>>

\* PutSecretData with an empty resourceVersion: the Secret must not exist.
CreateState ==
    /\ pc = "create"
    /\ state = NoSecret
    /\ state' = NoRecords
    /\ rv' = "held"
    /\ pc' = "write"
    /\ UNCHANGED <<world, vault, declared, records, snapshot, body, uuids, pending,
                   wrote, failed, result, changes, faults, excuse>>

\* It exists by now, or the request fails, before or after it took effect.
CreateFails ==
    /\ pc = "create"
    /\ \/ state # NoSecret /\ UNCHANGED <<state, faults>>
       \/ Fault /\ state' \in {state, NoRecords} /\ (state # NoSecret => state' = state)
    /\ Return("error")
    /\ UNCHANGED <<world, vault, changes, excuse>>

\* Vault accepts the body: whatever the caller learns of it, it is in effect,
\* in the mount that is live now, and not recorded yet.  That is no excuse for
\* a pass without a state Secret, which could not have recorded it.
Accepted(e) ==
    /\ uuid[MountOf[e]] # 0
    /\ vault' = [vault EXCEPT ![e] = body[e]]
    /\ excuse' = [excuse EXCEPT ![e] =
           (IF rv = "none" THEN {} ELSE {"unsaved"})
           \cup (IF uuid[MountOf[e]] = uuids[MountOf[e]] THEN {} ELSE {"raced"})]

WriteEntry(e) ==
    /\ pc = "write"
    /\ e \in pending
    /\ Accepted(e)
    /\ records' = [records EXCEPT ![e] =
           [body |-> body[e], uuid |-> uuids[MountOf[e]]]]
    /\ pending' = pending \ {e}
    /\ wrote' = wrote \cup {e}
    /\ UNCHANGED <<world, state, pc, declared, rv, snapshot, body, uuids, failed,
                   result, changes, faults>>

\* Mutant: the record is made before the error of the write is looked at.
WriteFailsRecorded(e) ==
    /\ pc = "write"
    /\ e \in pending
    /\ Fault
    /\ records' = [records EXCEPT ![e] =
           [body |-> body[e], uuid |-> uuids[MountOf[e]]]]
    /\ wrote' = wrote \cup {e}
    /\ failed' = TRUE
    /\ pc' = "save"
    /\ UNCHANGED <<world, vault, state, declared, rv, snapshot, body, uuids,
                   pending, result, changes, excuse>>

\* The write returns an error: it did not reach a live mount, or Vault refused
\* it, or it took effect and the answer was lost.  Nothing more is written,
\* but what was is still saved.
WriteFails(e) ==
    /\ pc = "write"
    /\ e \in pending
    /\ \/ uuid[MountOf[e]] = 0 /\ UNCHANGED <<vault, excuse, faults>>
       \/ Fault /\ UNCHANGED <<vault, excuse>>
       \/ Fault /\ Accepted(e)
    /\ failed' = TRUE
    /\ pc' = "save"
    /\ UNCHANGED <<world, state, declared, records, rv, snapshot, body, uuids,
                   pending, wrote, result, changes>>

\* The records of undeclared entries are dropped before the save.
Saving == pc = "save" \/ (pc = "write" /\ pending = {})
Kept == [e \in Entries |-> IF e \in Names THEN records[e] ELSE NoRecord]
\* Mutant: the save is skipped when a write failed.
DirtyUnlessFailed == ~failed /\ (wrote # {} \/ Kept # records)
Dirty == wrote # {} \/ Kept # records

\* Mutant: the update is not guarded by the resourceVersion.
StoredUnguarded ==
    /\ state' = Kept
    /\ excuse' = [e \in Entries |->
           (excuse[e] \ (IF e \in wrote THEN {"unsaved"} ELSE {}))
           \cup (IF Kept[e] # records[e] THEN {"dropped"} ELSE {})]

\* The state Secret takes the records: what the pass wrote is recorded, and
\* what it dropped will be written again if it comes back.
Stored ==
    /\ rv = "held"
    /\ state' = Kept
    /\ excuse' = [e \in Entries |->
           (excuse[e] \ (IF e \in wrote THEN {"unsaved"} ELSE {}))
           \cup (IF Kept[e] # records[e] THEN {"dropped"} ELSE {})]

NothingToSave ==
    /\ Saving
    /\ ~Dirty
    /\ Return(IF failed THEN "error" ELSE "ok")
    /\ UNCHANGED <<world, vault, state, changes, faults, excuse>>

\* saveEngineConfigState: an update guarded by the resourceVersion.
SaveState ==
    /\ Saving
    /\ Dirty
    /\ Stored
    /\ Return(IF failed THEN "error" ELSE "ok")
    /\ UNCHANGED <<world, vault, changes, faults>>

\* A conflict, or a failure, before or after the update took effect.
SaveFails ==
    /\ Saving
    /\ Dirty
    /\ \/ rv # "held" /\ UNCHANGED <<state, excuse, faults>>
       \/ Fault /\ UNCHANGED <<state, excuse>>
       \/ Fault /\ Stored
    /\ Return("error")
    /\ UNCHANGED <<world, vault, changes>>

\* The process dies between any two steps of the pass.
Crash ==
    /\ pc # "idle"
    /\ Fault
    /\ Return("error")
    /\ UNCHANGED <<world, vault, state, changes, excuse>>

Operator ==
    \/ \E e \in Entries, d \in Data \cup {Undeclared} : EditSpec(e, d)
    \/ \E s \in Secrets, v \in Values \cup {Missing} : EditSecret(s, v)
    \/ \E m \in Mounts : DisableMount(m)
    \/ \E m \in Mounts : EnableMount(m)
    \/ DeleteState
    \/ \E e \in Entries : DeleteRecord(e)
    \/ DamageState

Pass ==
    \/ BeginStep
    \/ LoadState
    \/ LoadFails
    \/ \E e \in Entries : ResolveEntry(e)
    \/ \E e \in Entries : ResolveFails(e)
    \/ ReadMounts
    \/ ReadMountsFails
    \/ CreateState
    \/ CreateFails
    \/ \E e \in Entries : WriteEntry(e)
    \/ \E e \in Entries : WriteFails(e)
    \/ NothingToSave
    \/ SaveState
    \/ SaveFails

Next == Operator \/ Pass \/ Crash

Spec == Init /\ [][Next]_vars

\* The runner keeps making passes, and a pass ends (see Runner).
FairSpec == Spec /\ WF_vars(Pass)

(***************************************************************************)
(* Safety                                                                  *)
(***************************************************************************)
Recorded(e) == state \in StateData /\ state[e] # NoRecord

\* A record that looks current is true: when it names the live mount, Vault
\* accepted that body there last, unless a write was accepted and never
\* recorded.  This is what lets a pass skip an entry it cannot read back.
RecordIsTrue ==
    \A e \in Entries :
        Recorded(e) /\ state[e].uuid = uuid[MountOf[e]] /\ "unsaved" \notin excuse[e]
            => vault[e] = state[e].body

\* A rewrite that is owed stays owed: no save of a pass that was under way
\* brings back a record an operator deleted, or one dropped with its entry.
RewriteStaysOwed ==
    \A e \in Entries :
        excuse[e] \cap {"operator", "dropped"} # {} => ~Recorded(e)

\* Nothing is written that could not be recorded: Vault is only written, and
\* records only saved, in a pass that loaded or created the state Secret.
StatePrecedesWrites ==
    /\ pc = "write" /\ pending # {} => rv # "none"
    /\ Saving /\ Dirty => rv # "none"

\* Entries that share a Secret are written from one snapshot of it, although
\* it may be rotated between their resolutions.
OneSnapshot ==
    \A e, f \in Entries :
        SecretOf[e] = SecretOf[f] /\ NoConfig \notin {body[e], body[f]}
            => body[e].secret = body[f].secret

\* A credential is never reseeded without a reason: Vault gets a body it
\* already holds only when the entry has one of the excuses.  A write of a pass
\* that has no state Secret to record it in is none.
RewritesAreExcused ==
    [][\A e \in Entries :
          pc = "write" /\ e \in pending /\ Accepted(e) /\ vault[e] = body[e]
              => excuse[e] # {}]_vars

\* Writes that landed are checkpointed even when a later one failed: a pass
\* whose save is neither refused nor failing leaves none of them unrecorded.
WritesAreCheckpointed ==
    [][Saving /\ pc' = "idle" /\ rv = "held" /\ faults' = faults
          => \A e \in wrote : "unsaved" \notin excuse'[e]]_vars

\* A pass that returns no error delivered its spec: the body of every declared
\* entry is in Vault, in the mount whose UUID the pass read, also when the entry
\* was skipped for its record; but for a write that was accepted and never
\* recorded, which is the one gap in what the documentation says
\* (CleanPassDelivers).
DeliversButForUnsaved ==
    [][Saving /\ pc' = "idle" /\ result' = "ok" =>
          \A e \in Names :
              uuid[MountOf[e]] = uuids[MountOf[e]] /\ "unsaved" \notin excuse'[e]
                  => vault[e] = body[e]]_vars

(***************************************************************************)
(* Liveness                                                                *)
(***************************************************************************)
Wanted(e) == [data |-> spec[e],
              secret |-> IF SecretOf[e] = NoRef THEN NoRef ELSE secret[SecretOf[e]]]

\* What the manager cannot repair: a damaged state Secret, a Secret without
\* the key, a mount that is not there.
Repaired ==
    /\ state # Corrupt
    /\ \A e \in Entries : spec[e] # Undeclared =>
          /\ uuid[MountOf[e]] # 0
          /\ SecretOf[e] # NoRef => secret[SecretOf[e]] # Missing

\* When the changes, the faults and the damage are over, every declared entry
\* ends up in Vault, but for the case CleanPassDelivers is about.
Settles ==
    \A e \in Entries :
        <>[]Repaired =>
            <>[](spec[e] # Undeclared =>
                   vault[e] = Wanted(e) \/ "unsaved" \in excuse[e])

(***************************************************************************)
(* Statements of the documentation the code does not keep                  *)
(***************************************************************************)

\* SPEC.md:68: "every run drives live state toward the ConfigMap regardless
\* of what changed": when a pass returns no error, every entry whose mount
\* stayed the same is in Vault.
CleanPassDelivers ==
    [][Saving /\ pc' = "idle" /\ result' = "ok" =>
          \A e \in Names :
              uuid[MountOf[e]] = uuids[MountOf[e]] => vault[e] = body[e]]_vars
=============================================================================
