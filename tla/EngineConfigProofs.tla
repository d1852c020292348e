------------------------- MODULE EngineConfigProofs -------------------------
(***************************************************************************)
(* Proofs about EngineConfig, for every set of entries, mounts and Secrets *)
(* and every number of changes, faults and recreated mounts.               *)
(*                                                                         *)
(* The invariant is proved in layers, each from the ones before it: types, *)
(* the pass's bookkeeping, its snapshot of the Secrets, and what the       *)
(* records and the excuses say about Vault.                                *)
(***************************************************************************)
EXTENDS EngineConfig, TLAPS

Active == pc \in {"resolve", "create", "write", "save"}

\* What is still to be written is built, for a mount that had a UUID.
PendingIsBuilt ==
    pc \in {"create", "write"} =>
        \A e \in pending : body[e] # NoConfig /\ uuids[MountOf[e]] # 0

TypeInv == TypeOK /\ PendingIsBuilt

\* The records of a pass that found no state Secret are empty until it has
\* created one; those of a pass whose Secret nobody touched are the Secret's,
\* but for what the pass wrote.
Bookkeeping ==
    /\ Active /\ rv = "none" =>
          /\ records = NoRecords
          /\ wrote = {}
          /\ pc = "write" => pending = {}
    /\ Active /\ rv = "held" =>
          /\ state \in StateData
          /\ \A e \in Entries \ wrote : records[e] = state[e]
    /\ pc \in {"load", "resolve", "create"} => wrote = {}
    /\ pc = "create" => rv = "none"
    /\ pc = "write" => pending \cap wrote = {}
    /\ Active => \A e \in wrote : records[e] # NoRecord

\* No UUID is in a record before Vault gave it out: a mount enabled later is
\* never mistaken for the one in a record.
UUIDsAreIssued ==
    /\ \A m \in Mounts : uuid[m] <= issued /\ uuids[m] <= issued
    /\ \A e \in Entries : Recorded(e) => state[e].uuid <= issued
    /\ \A e \in Entries : records[e] # NoRecord => records[e].uuid <= issued

\* A body holds the value the pass has in its snapshot of the Secret.
BodiesFromSnapshot ==
    \A e \in Entries : body[e] # NoConfig =>
        IF SecretOf[e] = NoRef
        THEN body[e].secret = NoRef
        ELSE /\ snapshot[SecretOf[e]] # Unread
             /\ body[e].secret = snapshot[SecretOf[e]]

\* What a pass wrote and has not saved yet is true in the same sense.
WritesAreTrue ==
    Active => \A e \in wrote :
        /\ "unsaved" \in excuse[e]
        /\ records[e].uuid = uuid[MountOf[e]] => vault[e] = records[e].body
        /\ rv = "held" => excuse[e] \cap {"operator", "dropped"} = {}

Truth == RecordIsTrue /\ RewriteStaysOwed /\ WritesAreTrue

\* Without an excuse, what Vault holds is what is recorded, in the Secret and
\* in a pass under way, so no pass has a reason to write it again.
Current(rec, e) == rec = [body |-> vault[e], uuid |-> uuid[MountOf[e]]]
UnmountedIsEmpty ==
    \A e \in Entries : uuid[MountOf[e]] = 0 => vault[e] = NoConfig
UnexcusedIsRecorded ==
    \A e \in Entries : excuse[e] = {} /\ vault[e] # NoConfig =>
        /\ state # NoSecret
        /\ state \in StateData => Current(state[e], e)
        /\ Active => Current(records[e], e)
WrittenIsCurrent ==
    Active => \A e \in wrote :
        "raced" \notin excuse[e] /\ vault[e] # NoConfig => Current(records[e], e)
PendingIsNew ==
    pc \in {"create", "write"} => \A e \in pending :
        excuse[e] = {} => vault[e] # body[e]
Excused == /\ UnmountedIsEmpty
           /\ UnexcusedIsRecorded
           /\ WrittenIsCurrent
           /\ PendingIsNew

(***************************************************************************)
(* Facts about the parts actions share                                     *)
(***************************************************************************)

\* An entry that has no Secret gets no value; another gets one of its Secret,
\* unless the value is missing.
LEMMA ValueOfType ==
    ASSUME TypeOK, NEW e \in Entries, ValueOf(e) # Missing
    PROVE  /\ ValueOf(e) \in Values \cup {NoRef}
           /\ SecretOf[e] # NoRef => SecretOf[e] \in Secrets /\ ValueOf(e) \in Values
  <1>1. CASE SecretOf[e] = NoRef
    BY <1>1 DEF ValueOf
  <1>2. CASE SecretOf[e] # NoRef
    <2>1. SecretOf[e] \in Secrets
      BY <1>2, MapAssumption
    <2>2. secret[SecretOf[e]] \in Values \cup {Missing}
      BY <2>1 DEF TypeOK
    <2>3. snapshot[SecretOf[e]] \in Values \cup {Missing, Unread}
      BY <2>1 DEF TypeOK
    <2>4. CASE snapshot[SecretOf[e]] = Unread
      <3>1. ValueOf(e) = secret[SecretOf[e]]
        BY <1>2, <2>4 DEF ValueOf
      <3> QED
        BY <2>1, <2>2, <3>1
    <2>5. CASE snapshot[SecretOf[e]] # Unread
      <3>1. ValueOf(e) = snapshot[SecretOf[e]]
        BY <1>2, <2>5 DEF ValueOf
      <3> QED
        BY <2>1, <2>3, <2>5, <3>1
    <2> QED
      BY <2>4, <2>5
  <1> QED
    BY <1>1, <1>2

\* Every variable keeps its type, and what is pending is built.
LEMMA TypeInvariant == Spec => []TypeInv
  <1>1. Init => TypeInv
    <2>1. /\ NoRecords \in StateData
          /\ 0 \in 0..MaxUUID /\ 0 \in 0..MaxChanges /\ 0 \in 0..MaxFaults
      BY BoundAssumption DEF NoRecords, StateData
    <2>2. \A i \in 0..MaxUUID : 1..i \subseteq 0..MaxUUID
      BY BoundAssumption
    <2>3. ASSUME Init
          PROVE  uuid \in [Mounts -> 0..MaxUUID]
      <3>1. \A m \in Mounts : uuid[m] \in 0..MaxUUID
        BY <2>2, <2>3 DEF Init
      <3> QED
        BY <2>3, <3>1 DEF Init
    <2>4. {"adoption"} \subseteq Excuses
      BY DEF Excuses
    <2>5. ASSUME Init
          PROVE  /\ secret \in [Secrets -> Values \cup {Missing}]
                 /\ excuse \in [Entries -> SUBSET Excuses]
      BY <2>4, <2>5 DEF Init
    <2>6. ASSUME Init
          PROVE  TypeOK
      BY <2>1, <2>3, <2>5, <2>6 DEF Init, TypeOK
    <2> QED
      BY <2>6 DEF Init, TypeInv, PendingIsBuilt
  <1>2. ASSUME TypeInv, [Next]_vars
        PROVE  TypeInv'
    <2> USE <1>2 DEF TypeInv
    <2>0. /\ NoRecords \in StateData
          /\ StateData \cap {NoSecret, Corrupt} = {}
      BY SentinelAssumption DEF NoRecords, StateData
    <2>1. ASSUME NEW e \in Entries, NEW d \in Data \cup {Undeclared}, EditSpec(e, d)
          PROVE  TypeInv'
      BY <2>1, BoundAssumption DEF EditSpec, Change, local, TypeOK, PendingIsBuilt
    <2>2. ASSUME NEW s \in Secrets, NEW v \in Values \cup {Missing}, EditSecret(s, v)
          PROVE  TypeInv'
      BY <2>2, BoundAssumption DEF EditSecret, Change, local, TypeOK, PendingIsBuilt
    <2>3. ASSUME NEW m \in Mounts, DisableMount(m)
          PROVE  TypeInv'
      BY <2>3, BoundAssumption DEF DisableMount, Change, local, TypeOK, PendingIsBuilt
    <2>4. ASSUME NEW m \in Mounts, EnableMount(m)
          PROVE  TypeInv'
      BY <2>4, BoundAssumption DEF EnableMount, local, TypeOK, PendingIsBuilt
    <2>5. CASE DeleteState
      <3>1. "operator" \in Excuses
        BY DEF Excuses
      <3> QED
        BY <2>5, <3>1, BoundAssumption DEF DeleteState, Change, Staled, world, TypeOK,
           PendingIsBuilt
    <2>6. ASSUME NEW e \in Entries, DeleteRecord(e)
          PROVE  TypeInv'
      <3>1. "operator" \in Excuses
        BY DEF Excuses
      <3>2. state' \in StateData
        BY <2>6 DEF DeleteRecord, StateData
      <3> QED
        BY <2>6, <3>1, <3>2, BoundAssumption DEF DeleteRecord, Change, Staled, world,
           TypeOK, PendingIsBuilt
    <2>7. CASE DamageState
      BY <2>7, BoundAssumption DEF DamageState, Change, Staled, world, TypeOK,
         PendingIsBuilt
    <2>8. CASE BeginStep
      <3>1. 0 \in 0..MaxUUID
        BY BoundAssumption
      <3> QED
        BY <2>0, <2>8, <3>1 DEF BeginStep, world, TypeOK, PendingIsBuilt
    <2>9. CASE LoadState
      BY <2>0, <2>9 DEF LoadState, world, TypeOK, PendingIsBuilt
    <2>10. CASE LoadFails \/ ReadMountsFails \/ Crash
      BY <2>10, BoundAssumption DEF LoadFails, ReadMountsFails, Crash, Fault, Return,
         world, local, TypeOK, PendingIsBuilt
    <2>11. ASSUME NEW e \in Entries, ResolveEntry(e)
           PROVE  TypeInv'
      <3>1. declared[e] \in Data
        BY <2>11 DEF ResolveEntry, Unbuilt, Names, TypeOK
      <3>2. [data |-> declared[e], secret |-> ValueOf(e)] \in Bodies
        BY <2>11, <3>1, ValueOfType DEF ResolveEntry, Bodies
      <3>3. snapshot' \in [Secrets -> Values \cup {Missing, Unread}]
        BY <2>11, ValueOfType DEF ResolveEntry, TypeOK
      <3> QED
        BY <2>11, <3>2, <3>3 DEF ResolveEntry, world, TypeOK, PendingIsBuilt
    <2>12. ASSUME NEW e \in Entries, ResolveFails(e)
           PROVE  TypeInv'
      BY <2>12, BoundAssumption DEF ResolveFails, Fault, Return, world, local, TypeOK,
         PendingIsBuilt
    <2>13. CASE ReadMounts
      <3>1. \A e \in pending' : e \in Entries /\ e \in Names /\ uuids'[MountOf[e]] # 0
        BY <2>13 DEF ReadMounts, AllMounted, Names
      <3>2. \A e \in pending' : body[e] # NoConfig
        BY <2>13, <3>1 DEF ReadMounts, Unbuilt
      <3> QED
        BY <2>13, <3>1, <3>2 DEF ReadMounts, world, TypeOK, PendingIsBuilt
    <2>14. CASE CreateState \/ CreateFails
      BY <2>0, <2>14, BoundAssumption DEF CreateState, CreateFails, Fault, Return, world,
         local, TypeOK, PendingIsBuilt
    <2>15. ASSUME NEW e \in Entries, Accepted(e), e \in pending, pc = "write"
           PROVE  /\ vault' \in [Entries -> Bodies \cup {NoConfig}]
                  /\ excuse' \in [Entries -> SUBSET Excuses]
      <3>1. body[e] \in Bodies
        BY <2>15 DEF TypeOK, PendingIsBuilt
      <3>2. (IF rv = "none" THEN {} ELSE {"unsaved"})
            \cup (IF uuid[MountOf[e]] = uuids[MountOf[e]] THEN {} ELSE {"raced"})
                \subseteq Excuses
        BY DEF Excuses
      <3> QED
        BY <2>15, <3>1, <3>2 DEF Accepted, TypeOK
    <2>16. ASSUME NEW e \in Entries, WriteEntry(e)
           PROVE  TypeInv'
      <3>1. [body |-> body[e], uuid |-> uuids[MountOf[e]]] \in Records
        <4>1. body[e] \in Bodies
          BY <2>16 DEF WriteEntry, TypeOK, PendingIsBuilt
        <4>2. uuids[MountOf[e]] \in 1..MaxUUID
          BY <2>16, MapAssumption, BoundAssumption DEF WriteEntry, TypeOK, PendingIsBuilt
        <4> QED
          BY <4>1, <4>2 DEF Records
      <3>2. records' \in StateData
        BY <2>16, <3>1 DEF WriteEntry, StateData, TypeOK
      <3> QED
        BY <2>15, <2>16, <3>2 DEF WriteEntry, world, TypeOK, PendingIsBuilt
    <2>17. ASSUME NEW e \in Entries, WriteFails(e)
           PROVE  TypeInv'
      <3>1. /\ vault' \in [Entries -> Bodies \cup {NoConfig}]
            /\ excuse' \in [Entries -> SUBSET Excuses]
            /\ faults' \in 0..MaxFaults
        BY <2>15, <2>17, BoundAssumption DEF WriteFails, Fault, TypeOK
      <3> QED
        BY <2>17, <3>1 DEF WriteFails, world, TypeOK, PendingIsBuilt
    <2>18. ASSUME Stored
           PROVE  state' \in StateData /\ excuse' \in [Entries -> SUBSET Excuses]
      <3>1. Kept \in StateData
        BY DEF Kept, StateData, TypeOK
      <3>2. "dropped" \in Excuses
        BY DEF Excuses
      <3> QED
        BY <2>18, <3>1, <3>2 DEF Stored, TypeOK
    <2>19. CASE NothingToSave
      BY <2>19 DEF NothingToSave, Return, world, local, TypeOK, PendingIsBuilt
    <2>20. CASE SaveState
      BY <2>18, <2>20 DEF SaveState, Return, world, local, TypeOK, PendingIsBuilt
    <2>21. CASE SaveFails
      <3>1. /\ state' \in StateData \cup {NoSecret, Corrupt}
            /\ excuse' \in [Entries -> SUBSET Excuses]
            /\ faults' \in 0..MaxFaults
        BY <2>18, <2>21, BoundAssumption DEF SaveFails, Fault, TypeOK
      <3> QED
        BY <2>21, <3>1 DEF SaveFails, Return, world, local, TypeOK, PendingIsBuilt
    <2>22. CASE UNCHANGED vars
      BY <2>22 DEF vars, TypeOK, PendingIsBuilt
    <2> QED
      BY <2>1, <2>2, <2>3, <2>4, <2>5, <2>6, <2>7, <2>8, <2>9, <2>10, <2>11, <2>12,
         <2>13, <2>14, <2>16, <2>17, <2>19, <2>20, <2>21, <2>22 DEF Next, Operator, Pass
  <1> QED
    BY <1>1, <1>2, PTL DEF Spec

\* Every variable has its type: what a pass records, builds and writes has the
\* shape the Secret and Vault expect.
THEOREM TypeCorrect == Spec => []TypeOK
BY TypeInvariant, PTL DEF TypeInv

(***************************************************************************)
(* The bookkeeping of a pass                                               *)
(***************************************************************************)
LEMMA BookkeepingInductive == Spec => []Bookkeeping
  <1> USE DEF Active
  <1>1. Init => Bookkeeping
    BY DEF Init, Bookkeeping
  <1>2. ASSUME TypeInv, Bookkeeping, [Next]_vars
        PROVE  Bookkeeping'
    <2> USE <1>2 DEF TypeInv
    <2>1. CASE /\ UNCHANGED <<state, pc, records, pending, wrote>>
               /\ rv' = rv
      BY <2>1 DEF Bookkeeping
    <2>2. CASE /\ UNCHANGED <<pc, records, pending, wrote>>
               /\ state # NoSecret
               /\ rv' = Staled
      <3>1. rv' # "held" /\ (rv' = "none" <=> rv = "none")
        BY <2>2 DEF Staled
      <3> QED
        BY <2>2, <3>1 DEF Bookkeeping
    <2>3. CASE pc' = "idle" \/ (pc' = "load" /\ wrote' = {})
      BY <2>3 DEF Bookkeeping
    <2>4. CASE LoadState
      <3>1. state \in StateData \/ state = NoSecret
        BY <2>4 DEF LoadState, TypeOK
      <3> QED
        BY <2>4, <3>1 DEF LoadState, Bookkeeping
    <2>5. ASSUME NEW e \in Entries, ResolveEntry(e)
          PROVE  Bookkeeping'
      BY <2>5 DEF ResolveEntry, Bookkeeping
    <2>6. CASE ReadMounts
      BY <2>6 DEF ReadMounts, Bookkeeping
    <2>7. CASE CreateState
      BY <2>7, SentinelAssumption DEF CreateState, Bookkeeping, NoRecords, StateData
    <2>8. ASSUME NEW e \in Entries, WriteEntry(e)
          PROVE  Bookkeeping'
      <3>1. rv # "none"
        BY <2>8 DEF WriteEntry, Bookkeeping
      <3>2. [body |-> body[e], uuid |-> uuids[MountOf[e]]] # NoRecord
        <4>1. body[e] \in Bodies
          BY <2>8 DEF WriteEntry, TypeOK, PendingIsBuilt
        <4>2. uuids[MountOf[e]] \in 1..MaxUUID
          BY <2>8, MapAssumption, BoundAssumption DEF WriteEntry, TypeOK, PendingIsBuilt
        <4> QED
          BY <4>1, <4>2, SentinelAssumption DEF Records
      <3>3. records \in [Entries -> Records \cup {NoRecord}]
        BY DEF TypeOK, StateData
      <3> QED
        BY <2>8, <3>1, <3>2, <3>3 DEF WriteEntry, Bookkeeping
    <2>9. ASSUME NEW e \in Entries, WriteFails(e)
          PROVE  Bookkeeping'
      BY <2>9 DEF WriteFails, Bookkeeping
    <2> QED
      <3>1. ASSUME Operator
            PROVE  Bookkeeping'
        BY <2>1, <2>2, <3>1, SentinelAssumption DEF Operator, EditSpec, EditSecret,
           DisableMount, EnableMount, DeleteState, DeleteRecord, DamageState, local
      <3>2. ASSUME Pass
            PROVE  Bookkeeping'
        BY <2>3, <2>4, <2>5, <2>6, <2>7, <2>8, <2>9, <3>2 DEF Pass, BeginStep,
           LoadFails, ResolveFails, ReadMountsFails, CreateFails, NothingToSave,
           SaveState, SaveFails, Return
      <3> QED
        BY <2>1, <2>3, <3>1, <3>2 DEF Next, Crash, Return, vars
  <1> QED
    BY <1>1, <1>2, TypeInvariant, PTL DEF Spec

\* Vault is only written, and records only saved, in a pass that loaded or
\* created the state Secret.
THEOREM StateIsThereFirst == Spec => []StatePrecedesWrites
  <1>1. TypeInv /\ Bookkeeping => StatePrecedesWrites
    <2> SUFFICES ASSUME TypeInv, Bookkeeping, rv = "none"
                 PROVE  /\ ~(pc = "write" /\ pending # {})
                        /\ ~(Saving /\ Dirty)
      BY DEF StatePrecedesWrites
    <2>1. ~(pc = "write" /\ pending # {})
      BY DEF Bookkeeping, Active
    <2>2. ASSUME Saving
          PROVE  ~Dirty
      <3>1. records = NoRecords /\ wrote = {}
        BY <2>2 DEF Saving, Bookkeeping, Active
      <3>2. Kept = records
        BY <3>1 DEF Kept, NoRecords
      <3> QED
        BY <3>1, <3>2 DEF Dirty
    <2> QED
      BY <2>1, <2>2
  <1> QED
    BY <1>1, TypeInvariant, BookkeepingInductive, PTL

\* Every write that landed is recorded at the end of a pass whose save was
\* neither refused nor failing.
THEOREM LandedWritesAreCheckpointed == Spec => WritesAreCheckpointed
  <1>1. ASSUME TypeInv, [Next]_vars
        PROVE  [Saving /\ pc' = "idle" /\ rv = "held" /\ faults' = faults
                  => \A e \in wrote : "unsaved" \notin excuse'[e]]_vars
    <2> SUFFICES ASSUME Next, Saving, pc' = "idle", rv = "held", faults' = faults,
                        NEW e \in wrote
                 PROVE  "unsaved" \notin excuse'[e]
      BY <1>1
    <2>1. e \in Entries
      BY <1>1 DEF TypeInv, TypeOK
    <2>2. SaveState
      <3>1. ~Fault
        BY <1>1, BoundAssumption DEF Fault, TypeInv, TypeOK
      <3>2. Dirty
        BY DEF Dirty
      <3>3. pc \in {"write", "save"}
        BY DEF Saving
      <3> QED
        BY <3>1, <3>2, <3>3 DEF Next, Operator, Pass, EditSpec, EditSecret, DisableMount,
           EnableMount, DeleteState, DeleteRecord, DamageState, BeginStep, LoadState,
           LoadFails, ResolveEntry, ResolveFails, ReadMounts, ReadMountsFails,
           CreateState, CreateFails, WriteEntry, WriteFails, NothingToSave, SaveFails,
           Crash
    <2> QED
      BY <2>1, <2>2 DEF SaveState, Stored
  <1> QED
    BY <1>1, TypeInvariant, PTL DEF Spec, WritesAreCheckpointed

(***************************************************************************)
(* The snapshot of the Secrets                                             *)
(***************************************************************************)
LEMMA SnapshotInductive == Spec => []BodiesFromSnapshot
  <1>1. Init => BodiesFromSnapshot
    BY DEF Init, BodiesFromSnapshot
  <1>2. ASSUME TypeInv, BodiesFromSnapshot, [Next]_vars
        PROVE  BodiesFromSnapshot'
    <2> USE <1>2 DEF TypeInv
    <2>1. CASE UNCHANGED <<body, snapshot>>
      BY <2>1 DEF BodiesFromSnapshot
    <2>2. CASE BeginStep
      BY <2>2 DEF BeginStep, BodiesFromSnapshot
    <2>3. ASSUME NEW e \in Entries, ResolveEntry(e)
          PROVE  BodiesFromSnapshot'
      <3> SUFFICES ASSUME NEW f \in Entries, body'[f] # NoConfig
                   PROVE  IF SecretOf[f] = NoRef
                          THEN body'[f].secret = NoRef
                          ELSE /\ snapshot'[SecretOf[f]] # Unread
                               /\ body'[f].secret = snapshot'[SecretOf[f]]
        BY DEF BodiesFromSnapshot
      <3>1. ValueOf(e) # Missing
        BY <2>3 DEF ResolveEntry
      <3>2. /\ ValueOf(e) \in Values \cup {NoRef}
            /\ SecretOf[e] # NoRef => SecretOf[e] \in Secrets /\ ValueOf(e) \in Values
        BY <3>1, ValueOfType
      <3>3. SecretOf[f] # NoRef => SecretOf[f] \in Secrets
        BY MapAssumption
      <3>4. /\ SecretOf[e] = NoRef => ValueOf(e) = NoRef
            /\ SecretOf[e] # NoRef /\ snapshot[SecretOf[e]] # Unread
                  => ValueOf(e) = snapshot[SecretOf[e]]
        BY DEF ValueOf
      <3>5. SecretOf[f] # NoRef /\ snapshot[SecretOf[f]] # Unread
               => snapshot'[SecretOf[f]] = snapshot[SecretOf[f]]
        BY <2>3, <3>3, <3>4 DEF ResolveEntry, TypeOK
      <3>6. CASE f = e
        <4>1. body'[f].secret = ValueOf(e)
          BY <2>3, <3>6 DEF ResolveEntry, TypeOK
        <4>2. SecretOf[e] # NoRef => snapshot'[SecretOf[e]] = ValueOf(e)
          BY <2>3, <3>2 DEF ResolveEntry, TypeOK
        <4> QED
          BY <3>2, <3>4, <3>6, <4>1, <4>2, SentinelAssumption
      <3>7. CASE f # e
        <4>1. body'[f] = body[f]
          BY <2>3, <3>7 DEF ResolveEntry, TypeOK
        <4> QED
          BY <3>5, <4>1 DEF BodiesFromSnapshot
      <3> QED
        BY <3>6, <3>7
    <2> QED
      BY <2>1, <2>2, <2>3 DEF Next, Operator, Pass, vars, local, Return, EditSpec,
         EditSecret, DisableMount, EnableMount, DeleteState, DeleteRecord, DamageState,
         LoadState, LoadFails, ResolveFails, ReadMounts, ReadMountsFails, CreateState,
         CreateFails, WriteEntry, WriteFails, NothingToSave, SaveState, SaveFails, Crash
  <1> QED
    BY <1>1, <1>2, TypeInvariant, PTL DEF Spec

\* Entries that share a Secret are written from one snapshot of it.
THEOREM SharedSecretReadOnce == Spec => []OneSnapshot
  <1>1. BodiesFromSnapshot => OneSnapshot
    BY DEF BodiesFromSnapshot, OneSnapshot
  <1> QED
    BY <1>1, SnapshotInductive, PTL

(***************************************************************************)
(* The records and the excuses                                             *)
(***************************************************************************)
LEMMA UUIDsInductive == Spec => []UUIDsAreIssued
  <1>1. ASSUME Init
        PROVE  UUIDsAreIssued
    <2>1. issued \in Nat /\ NoSecret \notin StateData
      BY <1>1, BoundAssumption, SentinelAssumption DEF Init
    <2>2. \A m \in Mounts : uuid[m] \in 1..issued /\ uuids[m] = 0
      BY <1>1 DEF Init
    <2>3. \A e \in Entries : records[e] = NoRecord
      BY <1>1 DEF Init, NoRecords
    <2> QED
      BY <1>1, <2>1, <2>2, <2>3 DEF Init, UUIDsAreIssued, Recorded
  <1>2. ASSUME TypeInv, UUIDsAreIssued, [Next]_vars
        PROVE  UUIDsAreIssued'
    <2> USE <1>2 DEF TypeInv
    <2>0. /\ issued \in Nat
          /\ \A e \in Entries : NoRecords[e] = NoRecord
          /\ \A r \in Records : r.uuid \in Nat
      BY BoundAssumption DEF TypeOK, NoRecords, Records
    <2>1. CASE UNCHANGED <<uuid, issued, state, records, uuids>>
      BY <2>1 DEF UUIDsAreIssued, Recorded
    <2>2. ASSUME NEW m \in Mounts, DisableMount(m)
          PROVE  UUIDsAreIssued'
      BY <2>0, <2>2 DEF DisableMount, UUIDsAreIssued, Recorded, local, TypeOK
    <2>3. ASSUME NEW m \in Mounts, EnableMount(m)
          PROVE  UUIDsAreIssued'
      <3>1. /\ issued' = issued + 1
            /\ UNCHANGED <<state, records, uuids>>
        BY <2>3 DEF EnableMount, local
      <3>2. \A n \in Mounts : uuid'[n] <= issued' /\ uuids'[n] <= issued'
        BY <2>0, <2>3, <3>1, BoundAssumption DEF EnableMount, UUIDsAreIssued, TypeOK
      <3>3. \A e \in Entries : Recorded(e) =>
               state[e] \in Records /\ state[e].uuid <= issued'
        BY <2>0, <3>1 DEF UUIDsAreIssued, Recorded, StateData
      <3>4. \A e \in Entries : records[e] # NoRecord =>
               records[e] \in Records /\ records[e].uuid <= issued'
        BY <2>0, <3>1 DEF UUIDsAreIssued, StateData, TypeOK
      <3> QED
        BY <3>1, <3>2, <3>3, <3>4 DEF UUIDsAreIssued, Recorded
    <2>4. ASSUME UNCHANGED <<uuid, issued, records, uuids>>,
                 \A e \in Entries : Recorded(e)' =>
                     \/ Recorded(e) /\ state'[e] = state[e]
                     \/ records[e] # NoRecord /\ state'[e] = records[e]
          PROVE  UUIDsAreIssued'
      BY <2>4 DEF UUIDsAreIssued
    <2>5. CASE DeleteState \/ DamageState
      BY <2>4, <2>5, SentinelAssumption DEF DeleteState, DamageState, world, Recorded
    <2>6. ASSUME NEW e \in Entries, DeleteRecord(e)
          PROVE  UUIDsAreIssued'
      BY <2>4, <2>6 DEF DeleteRecord, world, Recorded, StateData
    <2>7. CASE BeginStep
      BY <2>0, <2>7 DEF BeginStep, world, UUIDsAreIssued, Recorded
    <2>8. CASE LoadState
      BY <2>0, <2>8 DEF LoadState, world, UUIDsAreIssued, Recorded, TypeOK
    <2>9. CASE ReadMounts
      BY <2>9 DEF ReadMounts, world, UUIDsAreIssued, Recorded
    <2>10. CASE CreateState \/ CreateFails
      BY <2>0, <2>4, <2>10 DEF CreateState, CreateFails, Return, world, local, Recorded
    <2>11. ASSUME NEW e \in Entries, WriteEntry(e)
           PROVE  UUIDsAreIssued'
      BY <2>11, MapAssumption DEF WriteEntry, world, UUIDsAreIssued, Recorded, TypeOK,
         StateData
    <2>12. CASE SaveState \/ SaveFails
      BY <2>4, <2>12 DEF SaveState, SaveFails, Stored, Kept, Return, world, local, Recorded
    <2> QED
      BY <2>1, <2>2, <2>3, <2>5, <2>6, <2>7, <2>8, <2>9, <2>10, <2>11, <2>12
      DEF Next, Operator, Pass, vars, local, world, Return, EditSpec, EditSecret,
         LoadFails, ResolveEntry, ResolveFails, ReadMountsFails, WriteFails,
         NothingToSave, Crash
  <1> QED
    BY <1>1, <1>2, TypeInvariant, PTL DEF Spec

\* What a write that Vault accepts leaves: the excuses of its entry are
\* replaced, and nothing is said of the other entries.
LEMMA AcceptedEffect ==
    ASSUME TypeInv, Bookkeeping, pc = "write",
           NEW e \in Entries, e \in pending, Accepted(e)
    PROVE  /\ vault' = [vault EXCEPT ![e] = body[e]]
           /\ vault'[e] = body[e]
           /\ "unsaved" \in excuse'[e]
           /\ excuse'[e] \cap {"operator", "dropped"} = {}
           /\ "raced" \notin excuse'[e] => uuid[MountOf[e]] = uuids[MountOf[e]]
           /\ uuid[MountOf[e]] # 0
           /\ \A f \in Entries \ {e} : vault'[f] = vault[f] /\ excuse'[f] = excuse[f]
  <1>1. rv # "none"
    BY DEF Bookkeeping, Active
  <1> QED
    BY <1>1 DEF Accepted, TypeInv, TypeOK

\* What a save that took effect leaves.
LEMMA StoredEffect ==
    ASSUME TypeInv, Bookkeeping, Saving, Stored, NEW e \in Entries
    PROVE  /\ state' \in StateData
           /\ state'[e] # NoRecord =>
                 /\ state'[e] = records[e]
                 /\ e \notin wrote => state[e] = state'[e] /\ state \in StateData
                 /\ excuse'[e] \subseteq excuse[e]
           /\ e \notin wrote => excuse[e] \subseteq excuse'[e]
           /\ "dropped" \notin excuse'[e] => state'[e] = records[e]
           /\ excuse[e] \ {"unsaved"} \subseteq excuse'[e]
  <1>1. Kept \in StateData
    BY DEF Kept, StateData, TypeInv, TypeOK
  <1>2. e \notin wrote => state \in StateData /\ records[e] = state[e]
    BY DEF Saving, Stored, Bookkeeping, Active
  <1>3. state' = Kept /\ Kept[e] \in {records[e], NoRecord}
    BY DEF Stored, Kept
  <1>4. excuse'[e] = (excuse[e] \ (IF e \in wrote THEN {"unsaved"} ELSE {}))
                     \cup (IF Kept[e] # records[e] THEN {"dropped"} ELSE {})
    BY DEF Stored
  <1> QED
    BY <1>1, <1>2, <1>3, <1>4

LEMMA TruthInductive == Spec => []Truth
  <1> USE DEF Active
  <1>1. ASSUME Init
        PROVE  Truth
    <2>1. NoSecret \notin StateData
      BY SentinelAssumption
    <2> QED
      BY <1>1, <2>1 DEF Init, Truth, RecordIsTrue, RewriteStaysOwed, WritesAreTrue, Recorded
  <1>2. ASSUME TypeInv, TypeInv', Bookkeeping, Bookkeeping', UUIDsAreIssued, Truth, [Next]_vars
        PROVE  Truth'
    <2> USE <1>2
    <2>0. /\ NoSecret \notin StateData /\ Corrupt \notin StateData
          /\ \A e \in Entries : NoRecords[e] = NoRecord
      BY SentinelAssumption DEF NoRecords
    \* Steps that leave Vault, the records and the excuses alone.
    <2>1. ASSUME UNCHANGED <<uuid, vault, state, excuse>>,
                 \/ UNCHANGED <<records, wrote, rv, pc>>
                 \/ UNCHANGED <<records, wrote, rv>> /\ pc # "idle" /\ Active
                 \/ pc' \in {"idle", "load"}
                 \/ wrote' = {}
          PROVE  Truth'
      BY <2>1 DEF Truth, RecordIsTrue, RewriteStaysOwed, WritesAreTrue, Recorded
    \* A mount that goes takes its configs along; no record names no mount.
    <2>2. ASSUME NEW m \in Mounts, DisableMount(m)
          PROVE  Truth'
      <3>1. UNCHANGED <<state, excuse, records, wrote, rv, pc>>
        BY <2>2 DEF DisableMount, local
      <3>2. \A e \in Entries : MountOf[e] # m =>
               vault'[e] = vault[e] /\ uuid'[MountOf[e]] = uuid[MountOf[e]]
        BY <2>2, MapAssumption DEF DisableMount, TypeInv, TypeOK
      <3>3. \A e \in Entries : MountOf[e] = m => uuid'[MountOf[e]] = 0
        BY <2>2, MapAssumption DEF DisableMount, TypeInv, TypeOK
      <3>4. \A r \in Records : r.uuid # 0
        BY BoundAssumption DEF Records
      <3>5. RecordIsTrue'
        <4> SUFFICES ASSUME NEW e \in Entries, Recorded(e), "unsaved" \notin excuse[e],
                            state[e].uuid = uuid'[MountOf[e]]
                     PROVE  vault'[e] = state[e].body
          BY <3>1 DEF RecordIsTrue, Recorded
        <4>1. state[e] \in Records
          BY DEF Recorded, StateData
        <4>2. MountOf[e] # m
          BY <3>3, <3>4, <4>1
        <4> QED
          BY <3>2, <4>2 DEF Truth, RecordIsTrue
      <3>6. WritesAreTrue'
        <4> SUFFICES ASSUME Active, NEW e \in wrote
                     PROVE  /\ "unsaved" \in excuse[e]
                            /\ records[e].uuid = uuid'[MountOf[e]]
                                  => vault'[e] = records[e].body
                            /\ rv = "held" => excuse[e] \cap {"operator", "dropped"} = {}
          BY <3>1 DEF WritesAreTrue
        <4>1. e \in Entries /\ records[e] \in Records
          BY DEF TypeInv, TypeOK, StateData, Bookkeeping
        <4> QED
          BY <3>2, <3>3, <3>4, <4>1 DEF Truth, WritesAreTrue
      <3> QED
        BY <3>1, <3>5, <3>6 DEF Truth, RewriteStaysOwed, Recorded
    \* The UUID of a mount that comes is in no record yet.
    <2>3. ASSUME NEW m \in Mounts, EnableMount(m)
          PROVE  Truth'
      <3>1. /\ UNCHANGED <<vault, state, excuse, records, wrote, rv, pc>>
            /\ \A n \in Mounts : n # m => uuid'[n] = uuid[n]
            /\ uuid'[m] = issued + 1
        BY <2>3 DEF EnableMount, local, TypeInv, TypeOK
      <3>2. issued \in Nat /\ \A r \in Records : r.uuid \in Nat
        BY BoundAssumption DEF TypeInv, TypeOK, Records
      <3>3. \A e \in Entries : Recorded(e) /\ state[e].uuid = uuid'[MountOf[e]]
               => state[e].uuid = uuid[MountOf[e]]
        <4> SUFFICES ASSUME NEW e \in Entries, Recorded(e), MountOf[e] = m
                     PROVE  state[e].uuid # uuid'[m]
          BY <3>1, MapAssumption
        <4>1. state[e] \in Records /\ state[e].uuid <= issued
          BY DEF Recorded, StateData, UUIDsAreIssued
        <4> QED
          BY <3>1, <3>2, <4>1
      <3>4. ASSUME Active, NEW e \in wrote, records[e].uuid = uuid'[MountOf[e]]
            PROVE  records[e].uuid = uuid[MountOf[e]]
        <4>1. /\ e \in Entries
              /\ records[e] \in Records /\ records[e].uuid <= issued
          BY <3>4 DEF TypeInv, TypeOK, StateData, Bookkeeping, UUIDsAreIssued
        <4> QED
          BY <3>1, <3>2, <3>4, <4>1, MapAssumption
      <3>5. RecordIsTrue'
        BY <3>1, <3>3 DEF Truth, RecordIsTrue, Recorded
      <3>6. WritesAreTrue'
        BY <3>1, <3>4 DEF Truth, WritesAreTrue
      <3> QED
        BY <3>1, <3>5, <3>6 DEF Truth, RewriteStaysOwed, Recorded
    \* What operators do to the state Secret is what the excuses say.
    <2>4. CASE DeleteState \/ DamageState
      <3>1. /\ UNCHANGED <<uuid, vault, records, wrote, pc>>
            /\ \A e \in Entries : ~Recorded(e)'
            /\ rv' # "held"
            /\ \A e \in Entries : excuse[e] \subseteq excuse'[e]
        BY <2>0, <2>4 DEF DeleteState, DamageState, Recorded, Staled, world
      <3>2. wrote \subseteq Entries
        BY DEF TypeInv, TypeOK
      <3> QED
        BY <3>1, <3>2 DEF Truth, RecordIsTrue, RewriteStaysOwed, WritesAreTrue
    <2>5. ASSUME NEW e \in Entries, DeleteRecord(e)
          PROVE  Truth'
      <3>1. /\ UNCHANGED <<uuid, vault, records, wrote, pc>>
            /\ state'[e] = NoRecord
            /\ rv' # "held"
            /\ "unsaved" \in excuse[e] => "unsaved" \in excuse'[e]
            /\ \A f \in Entries \ {e} : excuse'[f] = excuse[f] /\ state'[f] = state[f]
            /\ state \in StateData
        BY <2>5 DEF DeleteRecord, Staled, world, TypeInv, TypeOK, StateData
      <3>2. wrote \subseteq Entries
        BY DEF TypeInv, TypeOK
      <3>3. ~Recorded(e)' /\ \A f \in Entries : Recorded(f)' => f # e /\ Recorded(f)
        BY <3>1 DEF Recorded
      <3>4. RecordIsTrue'
        BY <3>1, <3>3 DEF Truth, RecordIsTrue
      <3>5. RewriteStaysOwed'
        BY <3>1, <3>3 DEF Truth, RewriteStaysOwed, Recorded
      <3>6. WritesAreTrue'
        BY <3>1, <3>2 DEF Truth, WritesAreTrue
      <3> QED
        BY <3>4, <3>5, <3>6 DEF Truth
    <2>6. CASE CreateState \/ CreateFails
      <3>1. /\ UNCHANGED <<uuid, vault, excuse, records>>
            /\ \A e \in Entries : Recorded(e)' => Recorded(e) /\ state' = state
            /\ wrote' = {} \/ pc' = "idle"
        BY <2>0, <2>6 DEF CreateState, CreateFails, Return, local, world, Recorded,
           Bookkeeping
      <3> QED
        BY <3>1 DEF Truth, RecordIsTrue, RewriteStaysOwed, WritesAreTrue
    \* A write that Vault accepts makes its record true and pays what is owed.
    <2>7. ASSUME NEW e \in Entries, pc = "write", e \in pending, Accepted(e),
                 UNCHANGED <<uuid, state>>
          PROVE  /\ RecordIsTrue' /\ RewriteStaysOwed'
                 /\ \A f \in wrote : /\ "unsaved" \in excuse'[f]
                                     /\ records[f].uuid = uuid[MountOf[f]]
                                           => vault'[f] = records[f].body
                                     /\ rv = "held" => excuse'[f] \cap {"operator", "dropped"} = {}
      <3>1. e \notin wrote /\ wrote \subseteq Entries
        BY <2>7 DEF Bookkeeping, TypeInv, TypeOK
      <3> QED
        BY <2>7, <3>1, AcceptedEffect DEF Truth, RecordIsTrue, RewriteStaysOwed,
           WritesAreTrue, Recorded
    <2>8. ASSUME NEW e \in Entries, WriteEntry(e)
          PROVE  Truth'
      <3>1. /\ UNCHANGED <<uuid, state, rv, pc>>
            /\ pc = "write" /\ e \in pending /\ Accepted(e)
            /\ wrote' = wrote \cup {e}
            /\ records'[e].body = body[e]
            /\ \A f \in Entries \ {e} : records'[f] = records[f]
        BY <2>8 DEF WriteEntry, world, TypeInv, TypeOK, StateData
      <3>2. e \notin wrote /\ wrote \subseteq Entries
        BY <3>1 DEF Bookkeeping, TypeInv, TypeOK
      <3>3. WritesAreTrue'
        BY <2>7, <3>1, <3>2, AcceptedEffect DEF WritesAreTrue
      <3> QED
        BY <2>7, <3>1, <3>3 DEF Truth
    <2>9. ASSUME NEW e \in Entries, WriteFails(e)
          PROVE  Truth'
      <3>1. /\ UNCHANGED <<uuid, state, rv, records, wrote>>
            /\ pc = "write" /\ pc' = "save" /\ e \in pending
            /\ UNCHANGED <<vault, excuse>> \/ Accepted(e)
        BY <2>9 DEF WriteFails, world
      <3>2. CASE UNCHANGED <<vault, excuse>>
        BY <2>1, <3>1, <3>2
      <3>3. CASE Accepted(e)
        BY <2>7, <3>1, <3>3 DEF Truth, WritesAreTrue
      <3> QED
        BY <3>1, <3>2, <3>3
    \* A save that takes effect records only what is true.
    <2>10. ASSUME Saving, Stored, UNCHANGED <<uuid, vault>>, pc' = "idle"
           PROVE  Truth'
      <3>0. Active
        BY <2>10 DEF Saving
      <3>1. RecordIsTrue'
        <4> SUFFICES ASSUME NEW e \in Entries, Recorded(e)', "unsaved" \notin excuse'[e],
                            state'[e].uuid = uuid[MountOf[e]]
                     PROVE  vault[e] = state'[e].body
          BY <2>10 DEF RecordIsTrue
        <4>1. CASE e \in wrote
          BY <2>10, <3>0, <4>1, StoredEffect DEF Truth, WritesAreTrue, Recorded
        <4>2. CASE e \notin wrote
          BY <2>10, <4>2, StoredEffect DEF Truth, RecordIsTrue, Recorded
        <4> QED
          BY <4>1, <4>2
      <3>2. RewriteStaysOwed'
        <4> SUFFICES ASSUME NEW e \in Entries, Recorded(e)'
                     PROVE  excuse'[e] \cap {"operator", "dropped"} = {}
          BY DEF RewriteStaysOwed
        <4>1. excuse'[e] \subseteq excuse[e]
          BY <2>10, StoredEffect DEF Recorded
        <4>2. CASE e \in wrote
          BY <2>10, <3>0, <4>1, <4>2 DEF Truth, WritesAreTrue, Stored
        <4>3. CASE e \notin wrote
          <5>1. Recorded(e)
            BY <2>10, <4>3, StoredEffect DEF Recorded
          <5> QED
            BY <4>1, <5>1 DEF Truth, RewriteStaysOwed
        <4> QED
          BY <4>2, <4>3
      <3> QED
        BY <2>10, <3>1, <3>2 DEF Truth, WritesAreTrue
    <2>11. CASE SaveState \/ SaveFails
      <3>1. Saving /\ pc' = "idle" /\ UNCHANGED <<uuid, vault>>
        BY <2>11 DEF SaveState, SaveFails, Return, world
      <3>2. Stored \/ UNCHANGED <<state, excuse>>
        BY <2>11 DEF SaveState, SaveFails
      <3> QED
        BY <2>1, <2>10, <3>1, <3>2
    <2>12. CASE LoadState \/ ReadMounts
      BY <2>1, <2>12 DEF LoadState, ReadMounts, world, Bookkeeping
    <2>13. ASSUME NEW e \in Entries, ResolveEntry(e)
           PROVE  Truth'
      BY <2>1, <2>13 DEF ResolveEntry, world
    <2> QED
      <3>1. ASSUME Operator
            PROVE  Truth'
        BY <2>1, <2>2, <2>3, <2>4, <2>5, <3>1 DEF Operator, EditSpec, EditSecret, local
      <3>2. ASSUME Pass
            PROVE  Truth'
        BY <2>1, <2>6, <2>8, <2>9, <2>11, <2>12, <2>13, <3>2 DEF Pass, BeginStep,
           LoadFails, ResolveFails, ReadMountsFails, NothingToSave, Return, world
      <3> QED
        BY <2>1, <3>1, <3>2 DEF Next, Crash, Return, vars, world
  <1> QED
    BY <1>1, <1>2, TypeInvariant, BookkeepingInductive, UUIDsInductive, PTL DEF Spec

\* A record that names the live mount is true: a pass may skip the entry.
THEOREM RecordsAreTrue == Spec => []RecordIsTrue
  BY TruthInductive, PTL DEF Truth

\* A rewrite that is owed stays owed.
THEOREM RewritesStayOwed == Spec => []RewriteStaysOwed
  BY TruthInductive, PTL DEF Truth

(***************************************************************************)
(* Rewrites                                                                *)
(***************************************************************************)
LEMMA ExcusedInductive == Spec => []Excused
  <1> USE DEF Active
  <1>1. ASSUME Init
        PROVE  Excused
    <2>1. \A m \in Mounts : uuid[m] # 0
      BY <1>1, BoundAssumption DEF Init
    <2> QED
      BY <1>1, <2>1, MapAssumption DEF Init, Excused, UnmountedIsEmpty,
         UnexcusedIsRecorded, WrittenIsCurrent, PendingIsNew
  <1>2. ASSUME TypeInv, Bookkeeping, Excused, [Next]_vars
        PROVE  Excused'
    <2> USE <1>2
    <2>0. /\ NoSecret \notin StateData /\ Corrupt \notin StateData
          /\ wrote \subseteq Entries /\ pending \subseteq Entries
          /\ \A e \in Entries : MountOf[e] \in Mounts
      BY SentinelAssumption, MapAssumption DEF TypeInv, TypeOK
    \* Steps that leave Vault and the Secret alone, and begin no write.
    <2>1. ASSUME UNCHANGED <<uuid, vault, state, excuse>>,
                 \/ UNCHANGED <<records, wrote, pc, pending, body>>
                 \/ pc' \in {"idle", "load"}
                 \/ /\ UNCHANGED <<records, wrote>>
                    /\ pc = "write" /\ pc' = "save"
                 \/ UNCHANGED <<records, wrote>> /\ pc = "resolve" /\ pc' = "resolve"
          PROVE  Excused'
      BY <2>1 DEF Excused, UnmountedIsEmpty, UnexcusedIsRecorded, WrittenIsCurrent,
         PendingIsNew, Current
    \* A mount that goes leaves its entries without a config.
    <2>2. ASSUME NEW m \in Mounts, DisableMount(m)
          PROVE  Excused'
      <3>1. UNCHANGED <<state, excuse, records, wrote, pc, pending, body>>
        BY <2>2 DEF DisableMount, local
      <3>2. \A e \in Entries :
               \/ vault'[e] = NoConfig
               \/ vault'[e] = vault[e] /\ uuid'[MountOf[e]] = uuid[MountOf[e]]
        BY <2>0, <2>2 DEF DisableMount, TypeInv, TypeOK
      <3>3. PendingIsNew'
        BY <2>0, <3>1, <3>2 DEF Excused, PendingIsNew, TypeInv, PendingIsBuilt
      <3>4. UnmountedIsEmpty'
        BY <3>2 DEF Excused, UnmountedIsEmpty
      <3>5. UnexcusedIsRecorded'
        BY <3>1, <3>2 DEF Excused, UnexcusedIsRecorded, Current
      <3>6. WrittenIsCurrent'
        BY <2>0, <3>1, <3>2 DEF Excused, WrittenIsCurrent, Current
      <3> QED
        BY <3>3, <3>4, <3>5, <3>6 DEF Excused
    \* A mount that comes was empty.
    <2>3. ASSUME NEW m \in Mounts, EnableMount(m)
          PROVE  Excused'
      <3>1. UNCHANGED <<vault, state, excuse, records, wrote, pc, pending, body>>
        BY <2>3 DEF EnableMount, local
      <3>2. \A e \in Entries :
               vault[e] = NoConfig \/ uuid'[MountOf[e]] = uuid[MountOf[e]]
        BY <2>0, <2>3 DEF EnableMount, Excused, UnmountedIsEmpty, TypeInv, TypeOK
      <3> QED
        BY <2>0, <3>1, <3>2 DEF Excused, UnmountedIsEmpty, UnexcusedIsRecorded,
           WrittenIsCurrent, PendingIsNew, Current
    <2>4. CASE DeleteState
      <3>1. /\ UNCHANGED <<uuid, vault, records, wrote, pc, pending, body>>
            /\ \A e \in Entries : /\ excuse'[e] # {}
                                  /\ "raced" \notin excuse'[e] => "raced" \notin excuse[e]
        BY <2>4 DEF DeleteState, world
      <3> QED
        BY <2>0, <3>1 DEF Excused, UnmountedIsEmpty, UnexcusedIsRecorded,
           WrittenIsCurrent, PendingIsNew, Current
    <2>5. CASE DamageState
      BY <2>0, <2>5, SentinelAssumption DEF DamageState, world, Excused,
         UnmountedIsEmpty, UnexcusedIsRecorded, WrittenIsCurrent, PendingIsNew, Current
    <2>6. ASSUME NEW e \in Entries, DeleteRecord(e)
          PROVE  Excused'
      <3>1. /\ UNCHANGED <<uuid, vault, records, wrote, pc, pending, body>>
            /\ excuse'[e] # {}
            /\ "raced" \notin excuse'[e] => "raced" \notin excuse[e]
            /\ state \in StateData
            /\ state' # NoSecret
            /\ \A f \in Entries \ {e} : excuse'[f] = excuse[f] /\ state'[f] = state[f]
        <4>1. state' \in StateData
          BY <2>6 DEF DeleteRecord, StateData
        <4> QED
          BY <2>0, <2>6, <4>1 DEF DeleteRecord, world, TypeInv, TypeOK, StateData
      <3> QED
        BY <2>0, <3>1 DEF Excused, UnmountedIsEmpty, UnexcusedIsRecorded,
           WrittenIsCurrent, PendingIsNew, Current
    <2>7. CASE LoadState
      <3>1. /\ UNCHANGED <<uuid, vault, state, excuse>>
            /\ pc' = "resolve"
            /\ state # NoSecret => records' = state /\ state \in StateData
            /\ wrote' = {}
        BY <2>7 DEF LoadState, world, TypeInv, TypeOK, Bookkeeping
      <3> QED
        BY <3>1 DEF Excused, UnmountedIsEmpty, UnexcusedIsRecorded, WrittenIsCurrent,
           PendingIsNew, Current
    \* What is recorded as it is in Vault is not pending.
    <2>8. CASE ReadMounts
      <3>1. /\ UNCHANGED <<uuid, vault, state, excuse, records, wrote, body>>
            /\ pc = "resolve" /\ pc' \in {"create", "write"}
            /\ pending' \subseteq Entries
            /\ \A e \in pending' : /\ body[e] # NoConfig
                                   /\ NeedsWrite(records[e], body[e], uuid[MountOf[e]])
        BY <2>8 DEF ReadMounts, Unbuilt, Names, world
      <3>2. ASSUME NEW e \in pending', excuse[e] = {}, vault[e] = body[e]
            PROVE  FALSE
        <4>1. e \in Entries /\ body[e] \in Bodies /\ records[e] \in Records \cup {NoRecord}
          BY <3>1, <3>2 DEF TypeInv, TypeOK, StateData
        <4>2. /\ records[e] = [body |-> vault[e], uuid |-> uuid[MountOf[e]]]
              /\ records[e].uuid = uuid[MountOf[e]] /\ records[e].body = body[e]
          BY <3>1, <3>2, <4>1 DEF Excused, UnexcusedIsRecorded, Current
        <4>3. uuid[MountOf[e]] \in 1..MaxUUID
          BY <2>8, <3>1, <3>2, <2>0, <4>1, BoundAssumption DEF ReadMounts, AllMounted, Names,
             TypeInv, TypeOK
        <4>4. records[e] \in Records
          BY <3>2, <4>1, <4>2, <4>3 DEF Records
        <4> QED
          BY <3>1, <3>2, <4>2, <4>4, SentinelAssumption DEF NeedsWrite
      <3>3. PendingIsNew'
        BY <3>1, <3>2 DEF PendingIsNew
      <3> QED
        BY <3>1, <3>3 DEF Excused, UnmountedIsEmpty, UnexcusedIsRecorded,
           WrittenIsCurrent, Current
    \* A Secret is created only when nothing is excused.
    <2>9. CASE CreateState \/ CreateFails
      <3>1. /\ UNCHANGED <<uuid, vault, excuse, records, wrote, pending, body>>
            /\ pc = "create" /\ pc' \in {"write", "idle"}
            /\ state' = state \/ state = NoSecret
        BY <2>9 DEF CreateState, CreateFails, Return, local, world
      <3> QED
        BY <2>0, <3>1 DEF Excused, UnmountedIsEmpty, UnexcusedIsRecorded,
           WrittenIsCurrent, PendingIsNew, Current
    <2>10. ASSUME NEW e \in Entries, pc = "write", e \in pending, Accepted(e),
                  UNCHANGED <<uuid, state, body>>
           PROVE  /\ UnmountedIsEmpty'
                  /\ excuse'[e] # {}
                  /\ e \notin wrote
                  /\ \A f \in Entries \ {e} : vault'[f] = vault[f] /\ excuse'[f] = excuse[f]
      BY <2>10, AcceptedEffect DEF Excused, UnmountedIsEmpty, Bookkeeping
    <2>11. ASSUME NEW e \in Entries, WriteEntry(e)
           PROVE  Excused'
      <3>1. /\ UNCHANGED <<uuid, state, body, uuids>>
            /\ pc = "write" /\ pc' = "write" /\ e \in pending /\ Accepted(e)
            /\ wrote' = wrote \cup {e} /\ pending' = pending \ {e}
            /\ records'[e] = [body |-> body[e], uuid |-> uuids[MountOf[e]]]
            /\ \A f \in Entries \ {e} : records'[f] = records[f]
        BY <2>11 DEF WriteEntry, world, TypeInv, TypeOK, StateData
      <3>2. "raced" \notin excuse'[e] => Current(records[e], e)'
        BY <3>1, AcceptedEffect DEF Current
      <3>3. UnexcusedIsRecorded'
        BY <2>10, <3>1 DEF Excused, UnexcusedIsRecorded, Current
      <3>4. WrittenIsCurrent'
        BY <2>0, <2>10, <3>1, <3>2 DEF Excused, WrittenIsCurrent, Current
      <3>5. PendingIsNew'
        BY <2>0, <2>10, <3>1 DEF Excused, PendingIsNew
      <3> QED
        BY <2>10, <3>1, <3>3, <3>4, <3>5 DEF Excused
    <2>12. ASSUME NEW e \in Entries, WriteFails(e)
           PROVE  Excused'
      <3>1. /\ UNCHANGED <<uuid, state, records, wrote, body>>
            /\ pc = "write" /\ pc' = "save" /\ e \in pending
            /\ UNCHANGED <<vault, excuse>> \/ Accepted(e)
        BY <2>12 DEF WriteFails, world
      <3>2. CASE UNCHANGED <<vault, excuse>>
        BY <2>1, <3>1, <3>2
      <3>3. CASE Accepted(e)
        BY <2>0, <2>10, <3>1, <3>3 DEF Excused, UnexcusedIsRecorded, WrittenIsCurrent,
           PendingIsNew, Current
      <3> QED
        BY <3>1, <3>2, <3>3
    \* A save excuses nothing that its records do not tell.
    <2>13. ASSUME Saving, Stored, UNCHANGED <<uuid, vault>>, pc' = "idle"
           PROVE  Excused'
      <3>1. Active /\ state' \in StateData
        <4>1. Kept \in StateData
          BY DEF Kept, StateData, TypeInv, TypeOK
        <4> QED
          BY <2>13, <4>1 DEF Saving, Stored
      <3>2. UnexcusedIsRecorded'
        <4> SUFFICES ASSUME NEW e \in Entries, excuse'[e] = {}, vault[e] # NoConfig
                     PROVE  Current(records[e], e) /\ state'[e] = records[e]
          BY <2>0, <2>13, <3>1 DEF UnexcusedIsRecorded, Current
        <4>1. /\ state'[e] = records[e]
              /\ excuse[e] \subseteq {"unsaved"}
              /\ e \notin wrote => excuse[e] = {}
          BY <2>13, StoredEffect
        <4>2. CASE e \in wrote
          BY <3>1, <4>1, <4>2 DEF Excused, WrittenIsCurrent
        <4>3. CASE e \notin wrote
          BY <3>1, <4>1, <4>3 DEF Excused, UnexcusedIsRecorded
        <4> QED
          BY <4>1, <4>2, <4>3
      <3> QED
        BY <2>13, <3>2 DEF Excused, UnmountedIsEmpty, WrittenIsCurrent, PendingIsNew
    <2>14. CASE SaveState \/ SaveFails
      <3>1. Saving /\ pc' = "idle" /\ UNCHANGED <<uuid, vault>>
        BY <2>14 DEF SaveState, SaveFails, Return, world
      <3>2. Stored \/ UNCHANGED <<state, excuse>>
        BY <2>14 DEF SaveState, SaveFails
      <3> QED
        BY <2>1, <2>13, <3>1, <3>2
    <2>15. ASSUME NEW e \in Entries, ResolveEntry(e)
           PROVE  Excused'
      BY <2>1, <2>15 DEF ResolveEntry, world
    <2> QED
      <3>1. ASSUME Operator
            PROVE  Excused'
        BY <2>1, <2>2, <2>3, <2>4, <2>5, <2>6, <3>1 DEF Operator, EditSpec, EditSecret,
           local
      <3>2. ASSUME Pass
            PROVE  Excused'
        BY <2>1, <2>7, <2>8, <2>9, <2>11, <2>12, <2>14, <2>15, <3>2 DEF Pass, BeginStep,
           LoadFails, ResolveFails, ReadMountsFails, NothingToSave, Return, world
      <3> QED
        BY <2>1, <3>1, <3>2 DEF Next, Crash, Return, vars, world
  <1> QED
    BY <1>1, <1>2, TypeInvariant, BookkeepingInductive, PTL DEF Spec

\* Vault gets a body it already holds only when the entry has an excuse: a
\* credential is never reseeded without a reason.
THEOREM RewritesHaveReasons == Spec => RewritesAreExcused
  <1>1. ASSUME Excused
        PROVE  [\A e \in Entries :
                  pc = "write" /\ e \in pending /\ Accepted(e) /\ vault[e] = body[e]
                      => excuse[e] # {}]_vars
    BY <1>1 DEF Excused, PendingIsNew
  <1> QED
    BY <1>1, ExcusedInductive, PTL DEF RewritesAreExcused

(***************************************************************************)
(* Passes that return no error                                             *)
(***************************************************************************)

\* Of the entries of a pass that have nothing left to write: the records it
\* loaded are true of the mounts that are live, then what it skipped or wrote
\* is in Vault, in the mount whose UUID it read.
LoadedIsTrue ==
    pc = "resolve" => \A e \in Entries :
        /\ records[e] # NoRecord /\ records[e].uuid = uuid[MountOf[e]]
        /\ "unsaved" \notin excuse[e]
        => vault[e] = records[e].body
DoneIsDelivered ==
    pc \in {"create", "write"} => \A e \in Names :
        /\ uuids[MountOf[e]] # 0
        /\ e \notin pending /\ uuid[MountOf[e]] = uuids[MountOf[e]]
           /\ (e \in wrote \/ "unsaved" \notin excuse[e])
           => vault[e] = body[e]
Delivery ==
    /\ LoadedIsTrue
    /\ DoneIsDelivered
    /\ pc = "save" => failed

LEMMA DeliveryInductive == Spec => []Delivery
  <1>1. Init => Delivery
    BY DEF Init, Delivery, LoadedIsTrue, DoneIsDelivered
  <1>2. ASSUME TypeInv, TypeInv', Bookkeeping, UUIDsAreIssued, RecordIsTrue, Delivery,
               [Next]_vars
        PROVE  Delivery'
    <2> USE <1>2
    <2>0. \A e \in Entries : MountOf[e] \in Mounts
      BY MapAssumption
    \* Steps that leave what the pass knows, and what Vault has, alone.
    <2>1. ASSUME UNCHANGED <<pc, failed, declared, records, uuid, uuids, pending, wrote,
                             vault>>,
                 \/ UNCHANGED body \/ pc = "resolve",
                 \A e \in Entries : "unsaved" \in excuse'[e] <=> "unsaved" \in excuse[e]
          PROVE  Delivery'
      BY <2>1 DEF Delivery, LoadedIsTrue, DoneIsDelivered, Names
    <2>2. ASSUME pc' \in {"idle", "load"}
          PROVE  Delivery'
      BY <2>2 DEF Delivery, LoadedIsTrue, DoneIsDelivered
    \* The UUID of a mount that changed is in no record, and was not read.
    <2>3. ASSUME NEW m \in Mounts, NEW new \in {0, issued + 1},
                 uuid' = [uuid EXCEPT ![m] = new],
                 UNCHANGED <<pc, failed, declared, records, uuids, pending, wrote, body,
                             excuse>>,
                 \A e \in Entries : MountOf[e] # m => vault'[e] = vault[e]
          PROVE  Delivery'
      <3>1. /\ issued \in Nat
            /\ \A r \in Records : r.uuid \in Nat \ {0}
        BY BoundAssumption DEF TypeInv, TypeOK, Records
      <3>2. \A n \in Mounts : uuids[n] \in Nat /\ uuids[n] <= issued
        BY BoundAssumption DEF TypeInv, TypeOK, UUIDsAreIssued
      <3>3. \A n \in Mounts : uuid'[n] = IF n = m THEN new ELSE uuid[n]
        BY <2>3 DEF TypeInv, TypeOK
      <3>4. ASSUME NEW e \in Entries, records[e] # NoRecord, records[e].uuid = uuid'[MountOf[e]]
            PROVE  MountOf[e] # m
        <4>1. records[e].uuid \in Nat \ {0} /\ records[e].uuid <= issued
          BY <3>1, <3>4 DEF TypeInv, TypeOK, StateData, UUIDsAreIssued
        <4>2. records[e].uuid # new
          BY <3>1, <4>1
        <4>3. QED
          BY <2>0, <3>3, <3>4, <4>2
      <3>5. ASSUME NEW e \in Entries, uuids[MountOf[e]] # 0,
                   uuid'[MountOf[e]] = uuids[MountOf[e]]
            PROVE  MountOf[e] # m
        <4>1. uuids[MountOf[e]] # new
          BY <2>0, <3>1, <3>2, <3>5
        <4>2. QED
          BY <2>0, <3>3, <3>5, <4>1
      <3>6. LoadedIsTrue'
        BY <2>0, <2>3, <3>3, <3>4 DEF Delivery, LoadedIsTrue
      <3>7. DoneIsDelivered'
        BY <2>0, <2>3, <3>3, <3>5 DEF Delivery, DoneIsDelivered, Names
      <3>8. QED
        BY <2>3, <3>6, <3>7 DEF Delivery
    <2>4. ASSUME NEW m \in Mounts, DisableMount(m) PROVE Delivery'
      BY <2>3, <2>4 DEF DisableMount, local
    <2>5. ASSUME NEW m \in Mounts, EnableMount(m) PROVE Delivery'
      BY <2>3, <2>5 DEF EnableMount, local
    <2>6. CASE DeleteState \/ DamageState \/ \E e \in Entries : DeleteRecord(e)
      <3>1. \A e \in Entries : "unsaved" \in excuse'[e] <=> "unsaved" \in excuse[e]
        BY <2>6 DEF DeleteState, DamageState, DeleteRecord, TypeInv, TypeOK
      <3>2. QED
        BY <2>1, <2>6, <3>1 DEF DeleteState, DamageState, DeleteRecord, world
    <2>7. CASE LoadState
      <3>1. UNCHANGED <<uuid, vault, excuse>> /\ pc' = "resolve"
        BY <2>7 DEF LoadState, world
      <3>2. ASSUME NEW e \in Entries, records'[e] # NoRecord
            PROVE  Recorded(e) /\ records'[e] = state[e]
        <4>1. state # NoSecret /\ records' = state
          BY <2>7, <3>2 DEF LoadState, NoRecords
        <4>2. state \in StateData
          BY <2>7, <4>1 DEF LoadState, TypeInv, TypeOK
        <4>3. QED
          BY <3>2, <4>1, <4>2 DEF Recorded
      <3>3. LoadedIsTrue'
        BY <3>1, <3>2 DEF LoadedIsTrue, RecordIsTrue
      <3>4. QED
        BY <3>1, <3>3 DEF Delivery, DoneIsDelivered
    <2>8. ASSUME NEW e \in Entries, ResolveEntry(e) PROVE Delivery'
      BY <2>1, <2>8 DEF ResolveEntry, world
    <2>9. CASE ReadMounts
      <3>1. /\ pc = "resolve" /\ pc' \in {"create", "write"} /\ uuids' = uuid
            /\ \A e \in Names : uuid[MountOf[e]] # 0
            /\ pending' = { e \in Names : NeedsWrite(records[e], body[e], uuid[MountOf[e]]) }
            /\ UNCHANGED <<declared, vault, uuid, body, wrote, excuse>>
        BY <2>9 DEF ReadMounts, world, AllMounted
      <3>2. Names' = Names /\ wrote = {} /\ Names \subseteq Entries
        BY <3>1 DEF Names, Bookkeeping
      <3>3. \A e \in Names \ pending' : /\ records[e] # NoRecord
                                        /\ records[e].uuid = uuid[MountOf[e]]
                                        /\ records[e].body = body[e]
        BY <3>1 DEF NeedsWrite
      <3>4. DoneIsDelivered'
        BY <3>1, <3>2, <3>3 DEF DoneIsDelivered, Delivery, LoadedIsTrue
      <3>5. QED
        BY <3>1, <3>4 DEF Delivery, LoadedIsTrue
    <2>10. CASE CreateState
      <3>1. /\ pc = "create" /\ pc' = "write"
            /\ UNCHANGED <<declared, vault, uuid, uuids, body, pending, wrote, excuse>>
        BY <2>10 DEF CreateState, world
      <3>2. QED
        BY <3>1 DEF Delivery, LoadedIsTrue, DoneIsDelivered, Names
    <2>11. ASSUME NEW e \in Entries, WriteEntry(e) PROVE Delivery'
      <3>1. /\ pc = "write" /\ pc' = "write" /\ pending' = pending \ {e}
            /\ wrote' = wrote \cup {e}
            /\ UNCHANGED <<declared, uuid, uuids, body, failed>>
        BY <2>11 DEF WriteEntry, world
      <3>2. /\ vault'[e] = body[e]
            /\ \A f \in Entries \ {e} : vault'[f] = vault[f] /\ excuse'[f] = excuse[f]
        BY <2>11, AcceptedEffect DEF WriteEntry
      <3>3. Names' = Names /\ Names \subseteq Entries
        BY <3>1 DEF Names
      <3>4. DoneIsDelivered'
        BY <3>1, <3>2, <3>3 DEF DoneIsDelivered, Delivery
      <3>5. QED
        BY <3>1, <3>4 DEF Delivery, LoadedIsTrue
    <2>12. ASSUME NEW e \in Entries, WriteFails(e) PROVE Delivery'
      BY <2>12 DEF WriteFails, Delivery, LoadedIsTrue, DoneIsDelivered
    <2>13. QED
      BY <2>1, <2>2, <2>4, <2>5, <2>6, <2>7, <2>8, <2>9, <2>10, <2>11, <2>12
      DEF Next, Operator, Pass, vars, local, world, Return, EditSpec, EditSecret, BeginStep,
         LoadFails, ResolveFails, ReadMountsFails, CreateFails, NothingToSave, SaveState,
         SaveFails, Crash
  <1> QED
    BY <1>1, <1>2, TypeInvariant, BookkeepingInductive, UUIDsInductive, RecordsAreTrue, PTL
    DEF Spec

\* A pass that returns no error delivered every declared entry, but for a
\* write that was accepted and never recorded.
THEOREM PassesDeliver == Spec => DeliversButForUnsaved
  <1>1. ASSUME TypeInv, Delivery, Next, Saving, pc' = "idle", result' = "ok"
        PROVE  \A e \in Names :
                  uuid[MountOf[e]] = uuids[MountOf[e]] /\ "unsaved" \notin excuse'[e]
                      => vault[e] = body[e]
    <2> USE <1>1
    <2>1. NothingToSave \/ SaveState
      BY DEF Next, Operator, Pass, vars, local, world, Return, EditSpec, EditSecret,
         DisableMount, EnableMount, DeleteState, DeleteRecord, DamageState, BeginStep,
         LoadState, LoadFails, ResolveEntry, ResolveFails, ReadMounts, ReadMountsFails,
         CreateState, CreateFails, WriteEntry, WriteFails, SaveFails, Crash, Saving
    <2>2. ~failed /\ pc = "write" /\ pending = {}
      BY <2>1 DEF NothingToSave, SaveState, Return, Saving, Delivery
    <2>3. \A e \in Entries : "unsaved" \notin excuse'[e] => e \in wrote \/ "unsaved" \notin excuse[e]
      BY <2>1 DEF NothingToSave, SaveState, Stored
    <2>4. QED
      BY <2>2, <2>3 DEF Delivery, DoneIsDelivered, Names
  <1> QED
    BY <1>1, TypeInvariant, DeliveryInductive, PTL DEF Spec, DeliversButForUnsaved
=============================================================================
