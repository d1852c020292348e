----------------------------- MODULE RolesProofs -----------------------------
(***************************************************************************)
(* Proofs about Roles, for any number of roles, keys, edits and faults.    *)
(***************************************************************************)
EXTENDS Roles, TLAPS

LEMMA WrittenIsHeld ==
    ASSUME TypeOK, NEW r \in Roles, NEW b \in Bodies
    PROVE  /\ Written(r, b) \in Held
           /\ KeysOf(b) \in SUBSET Keys
           /\ At(r) \notin Merging => KeysSet(Written(r, b)) = KeysOf(b)
           /\ RoleUpToDate(Written(r, b), b)
<1>1. \A k \in Keys : Unsent(r, k) \in Values \cup {Default}
  BY DEF TypeOK, Unsent, Held
<1>2. Written(r, b) \in Held
  BY <1>1, MapAssumption DEF Written, Held, Bodies
<1>3. At(r) \notin Merging => KeysSet(Written(r, b)) = KeysOf(b)
  BY MapAssumption, SentinelAssumption DEF Written, Unsent, Bodies, KeysOf, KeysSet
<1>4. RoleUpToDate(Written(r, b), b)
  BY <1>2, SentinelAssumption DEF RoleUpToDate, SameValue, Written, KeysOf
<1>5. QED
  BY <1>2, <1>3, <1>4 DEF KeysOf

\* Only declared roles are ensured, so what is written is a body.
TypeInv == TypeOK /\ todo \subseteq DeclaredRoles

LEMMA DeclaredHaveBodies ==
    ASSUME TypeOK
    PROVE  \A r \in DeclaredRoles : r \in Roles /\ goal.roles[r] \in Bodies
    BY SpecAssumption DEF TypeOK, DeclaredRoles, SpecShapes

LEMMA Counters ==
    ASSUME TypeOK
    PROVE  /\ 0 \in 0..MaxChanges /\ 0 \in 0..MaxFaults
           /\ Change => changes' \in 0..MaxChanges /\ calm' \in BOOLEAN
           /\ Fault => faults' \in 0..MaxFaults
<1>1. MaxChanges \in Nat /\ MaxFaults \in Nat
  BY BoundAssumption
<1>2. 0 \in 0..MaxChanges /\ 0 \in 0..MaxFaults
  BY <1>1
<1>3. Change => changes' \in 0..MaxChanges
  BY <1>1 DEF TypeOK, Change
<1>4. Change => calm' \in BOOLEAN
  BY DEF Change
<1>5. Fault => faults' \in 0..MaxFaults
  BY <1>1 DEF TypeOK, Fault
<1>6. QED
  BY <1>2, <1>3, <1>4, <1>5

LEMMA TypeInvariant == Spec => []TypeInv
<1>1. Init => TypeInv
  <2>1. 0 \in 0..MaxChanges /\ 0 \in 0..MaxFaults
    BY BoundAssumption
  <2>2. QED
    BY <2>1, SpecAssumption, MapAssumption, SentinelAssumption
       DEF Init, TypeInv, TypeOK, DeclaredRoles, Excuses
<1>2. TypeInv /\ [Next]_vars => TypeInv'
  <2> SUFFICES ASSUME TypeInv, [Next]_vars PROVE TypeInv'
    OBVIOUS
  <2> USE Counters DEF TypeInv, TypeOK
  <2>1. ASSUME NEW s \in Specs, EditSpec(s) PROVE TypeInv'
    BY <2>1 DEF EditSpec, Change, Elsewhere, local, DeclaredRoles
  <2>2. ASSUME NEW r \in Roles, NEW h \in Found \cup {NoRole}, OperatorWrites(r, h)
        PROVE  TypeInv'
    BY <2>2, MapAssumption
       DEF OperatorWrites, Change, Elsewhere, local, DeclaredRoles, Excuses
  <2>3. ASSUME NEW p \in Paths, OperatorDisables(p) PROVE TypeInv'
    BY <2>3 DEF OperatorDisables, Change, Elsewhere, local, DeclaredRoles
  <2>4. ASSUME NEW p \in Paths, NEW by \in {"foreign", "managed"}, Mounted(p, by)
        PROVE  TypeInv'
    BY <2>4 DEF Mounted, Elsewhere, local, DeclaredRoles
  <2>5. CASE BeginStep
    BY <2>5 DEF BeginStep, NoFault, Quiet, DeclaredRoles
  <2>6. ASSUME NEW r \in Roles, EnsureRole(r) PROVE TypeInv'
    <3>1. Written(r, goal.roles[r]) \in Held /\ KeysOf(goal.roles[r]) \in SUBSET Keys
      BY <2>6, DeclaredHaveBodies, WrittenIsHeld DEF EnsureRole
    <3>2. (NoFault \/ Fault) /\ settled' \in BOOLEAN /\ faults' \in 0..MaxFaults
      BY <2>6 DEF EnsureRole, NoFault, Fault
    <3>3. CASE UNCHANGED <<vault, memory, wrote, excuse>>
      BY <2>6, <3>2, <3>3 DEF EnsureRole, Quiet, DeclaredRoles
    <3>4. CASE WriteRole(r)
      <4>1. /\ vault' \in [Roles -> Held \cup {NoRole}]
            /\ memory' \in [Roles -> (SUBSET Keys) \cup {Unwritten}]
            /\ excuse' \in [Roles -> SUBSET Excuses]
            /\ wrote' \in SUBSET Roles
        BY <3>1, <3>4 DEF WriteRole, Accepted, RecordRoleKeys
      <4>2. QED
        BY <2>6, <3>2, <4>1 DEF EnsureRole, Quiet, DeclaredRoles
    <3>5. QED
      BY <2>6, <3>3, <3>4 DEF EnsureRole
  <2>7. ASSUME NEW r \in Roles, EnsureRoleFails(r) PROVE TypeInv'
    <3>1. Written(r, goal.roles[r]) \in Held
      BY <2>7, DeclaredHaveBodies, WrittenIsHeld DEF EnsureRoleFails
    <3>2. /\ vault' \in [Roles -> Held \cup {NoRole}]
          /\ excuse' \in [Roles -> SUBSET Excuses]
      BY <2>7, <3>1 DEF EnsureRoleFails, Accepted, Excuses
    <3>3. settled' \in BOOLEAN /\ faults' \in 0..MaxFaults
      BY <2>7 DEF EnsureRoleFails, Fault, NoFault
    <3>4. QED
      BY <2>7, <3>2, <3>3 DEF EnsureRoleFails, Unremembered, ReturnError, DeclaredRoles
  <2>8. CASE ListManagedMounts
    BY <2>8 DEF ListManagedMounts, DesiredDirs, NoFault, Quiet, DeclaredRoles, Roles
  <2>9. ASSUME NEW d \in Dirs, ListRoles(d) PROVE TypeInv'
    BY <2>9 DEF ListRoles, NoFault, Quiet, DeclaredRoles
  <2>10. CASE ListFails
    BY <2>10 DEF ListFails, Fault, ReturnError, DeclaredRoles
  <2>11. ASSUME NEW r \in Roles, DeleteRole(r) PROVE TypeInv'
    BY <2>11 DEF DeleteRole, Delete, NoFault, Quiet, DeclaredRoles
  <2>12. ASSUME NEW r \in Roles, DeleteRoleFails(r) PROVE TypeInv'
    BY <2>12 DEF DeleteRoleFails, Delete, Fault, ReturnError, DeclaredRoles
  <2>13. CASE StepSucceeds
    BY <2>13 DEF StepSucceeds, local, DeclaredRoles
  <2>14. CASE Crash
    BY <2>14 DEF Crash, Fault, ReturnError, DeclaredRoles
  <2>15. CASE UNCHANGED vars
    BY <2>15 DEF vars, DeclaredRoles
  <2>16. QED
    BY <2>1, <2>2, <2>3, <2>4, <2>5, <2>6, <2>7, <2>8, <2>9, <2>10, <2>11, <2>12,
       <2>13, <2>14, <2>15 DEF Next, Operator, Pass
<1>3. QED
  BY <1>1, <1>2, PTL DEF Spec

\* Every variable has its type: what is written is what Vault can report, what
\* is remembered are keys (recordRoleKeys).
THEOREM TypeCorrect == Spec => []TypeOK
BY TypeInvariant, PTL DEF TypeInv

\* Where a write replaces the role, the remembered keys bound what Vault holds:
\* a failed write is not remembered, a successful one leaves exactly what is
\* (EnsureRole).
THEOREM MemoryIsABound == Spec => []MemoryBoundsKeys
<1>1. Init => MemoryBoundsKeys
  BY DEF Init, MemoryBoundsKeys
<1>2. TypeInv /\ MemoryBoundsKeys /\ [Next]_vars => MemoryBoundsKeys'
  <2> SUFFICES ASSUME TypeInv, MemoryBoundsKeys, [Next]_vars PROVE MemoryBoundsKeys'
    OBVIOUS
  <2> USE DEF TypeInv, TypeOK, MemoryBoundsKeys
  <2>1. ASSUME NEW s \in Specs, EditSpec(s) PROVE MemoryBoundsKeys'
    BY <2>1 DEF EditSpec, Elsewhere, local
  <2>2. ASSUME NEW r \in Roles, NEW h \in Found \cup {NoRole}, OperatorWrites(r, h)
        PROVE  MemoryBoundsKeys'
    BY <2>2 DEF OperatorWrites, Elsewhere, local
  <2>3. ASSUME NEW p \in Paths, OperatorDisables(p) PROVE MemoryBoundsKeys'
    BY <2>3 DEF OperatorDisables, Elsewhere, local
  <2>4. ASSUME NEW r \in Roles, EnsureRole(r) PROVE MemoryBoundsKeys'
    <3>1. At(r) \notin Merging
            => KeysSet(Written(r, goal.roles[r])) = KeysOf(goal.roles[r])
      BY <2>4, DeclaredHaveBodies, WrittenIsHeld DEF EnsureRole
    <3>2. CASE UNCHANGED <<vault, memory, excuse>>
      BY <3>2
    <3>3. CASE WriteRole(r)
      BY <3>1, <3>3 DEF WriteRole, Accepted, RecordRoleKeys
    <3>4. QED
      BY <2>4, <3>2, <3>3 DEF EnsureRole
  <2>5. ASSUME NEW r \in Roles, EnsureRoleFails(r) PROVE MemoryBoundsKeys'
    BY <2>5 DEF EnsureRoleFails, Accepted, Unremembered
  <2>6. ASSUME NEW r \in Roles, DeleteRole(r) \/ DeleteRoleFails(r)
        PROVE  MemoryBoundsKeys'
    BY <2>6 DEF DeleteRole, DeleteRoleFails, Delete
  <2>7. CASE Crash
    BY <2>7 DEF Crash
  <2>8. ASSUME UNCHANGED <<vault, memory, excuse>> PROVE MemoryBoundsKeys'
    BY <2>8
  <2>9. QED
    BY <2>1, <2>2, <2>3, <2>4, <2>5, <2>6, <2>7, <2>8
       DEF Next, Operator, Pass, Mounted, Elsewhere, local, BeginStep,
           ListManagedMounts, ListRoles, ListFails, StepSucceeds, vars
<1>3. QED
  BY <1>1, <1>2, TypeInvariant, PTL DEF Spec

(***************************************************************************)
(* What a pass may do, and what it has done so far                         *)
(***************************************************************************)
Idle == pc = "idle" /\ todo = {} /\ dirs = {} /\ doomed = {}

\* The place in the step, and what is left to do there.
Places ==
    /\ pc = "idle" => Idle /\ calm
    /\ pc = "upsert" => dirs = {} /\ doomed = {}
    /\ pc = "prune" => todo = {} /\ goal.full

\* What is to be deleted is undeclared, beside a declared role, on a mount
\* that was listed, unless the mounts changed since.
Authority ==
    /\ \A r \in doomed : ~Desired(r) /\ r[1] \in DesiredDirs
    /\ \A d \in dirs : d \in DesiredDirs
    /\ calm => /\ \A r \in doomed : At(r) \in Listed
               /\ \A d \in dirs : PathOf[d] \in Listed

RolesHaveAMount == \A r \in Roles : vault[r] # NoRole => mount[At(r)] # "none"

\* What an undisturbed pass has behind it: declared roles that are current,
\* and directories with declared roles only.
Behind(s) ==
    /\ \A r \in Roles \ todo : s.roles[r] # Undeclared =>
          /\ memory[r] = KeysOf(s.roles[r])
          /\ RoleUpToDate(vault[r], s.roles[r])
    /\ pc = "prune" => \A r \in Roles \ doomed :
          vault[r] # NoRole /\ ~Desired(r) /\ r[1] \in DesiredDirs /\ At(r) \in Listed
              => r[1] \in dirs
Progress == calm /\ pc # "idle" => goal = spec /\ Behind(goal)

PassInv == Places /\ Authority /\ RolesHaveAMount /\ Progress

LEMMA RolesAreInDirs ==
    \A r \in Roles : r[1] \in Dirs /\ At(r) \in Paths
BY MapAssumption DEF Roles, At

LEMMA PassInvariant == Spec => []PassInv
<1>1. Init => PassInv
  BY RolesAreInDirs DEF Init, PassInv, Places, Idle, Authority, RolesHaveAMount, Progress, At
<1>2. TypeInv /\ PassInv /\ [Next]_vars => PassInv'
  <2> SUFFICES ASSUME TypeInv, PassInv, [Next]_vars PROVE PassInv'
    OBVIOUS
  <2> USE DEF PassInv, Places, Idle
  <2>1. ASSUME NEW s \in Specs, EditSpec(s) PROVE PassInv'
    BY <2>1 DEF EditSpec, Change, Elsewhere, local, Authority, RolesHaveAMount,
                Progress, Desired, DesiredDirs, DeclaredRoles, At
  <2>2. ASSUME NEW r \in Roles, NEW h \in Found \cup {NoRole}, OperatorWrites(r, h)
        PROVE  PassInv'
    BY <2>2 DEF OperatorWrites, Change, Elsewhere, local, Authority, RolesHaveAMount,
                Progress, Desired, DesiredDirs, DeclaredRoles, At, TypeInv, TypeOK
  <2>3. ASSUME NEW p \in Paths, OperatorDisables(p) PROVE PassInv'
    BY <2>3, RolesAreInDirs
       DEF OperatorDisables, Change, Elsewhere, local, Authority, RolesHaveAMount,
           Progress, Desired, DesiredDirs, DeclaredRoles, TypeInv, TypeOK
  <2>4. ASSUME NEW p \in Paths, NEW by \in {"foreign", "managed"}, Mounted(p, by)
        PROVE  PassInv'
    BY <2>4, RolesAreInDirs
       DEF Mounted, Elsewhere, local, Authority, RolesHaveAMount,
           Progress, Desired, DesiredDirs, DeclaredRoles, TypeInv, TypeOK
  <2>5. CASE BeginStep
    BY <2>5 DEF BeginStep, Quiet, Authority, RolesHaveAMount, Progress, Behind, At
  <2>6. ASSUME NEW r \in Roles, EnsureRole(r) PROVE PassInv'
    <3>1. goal.roles[r] \in Bodies /\ r \in DeclaredRoles
      BY <2>6, DeclaredHaveBodies DEF EnsureRole, TypeInv
    <3>2. RoleUpToDate(Written(r, goal.roles[r]), goal.roles[r])
      BY <3>1, WrittenIsHeld DEF TypeInv
    <3>3. CASE Current(r) /\ UNCHANGED <<vault, memory>>
      BY <2>6, <3>3 DEF EnsureRole, Quiet, Current, SameRoleKeysAsLastWrite, Authority,
                        RolesHaveAMount, Progress, Behind, At
    <3>4. CASE WriteRole(r)
      <4>1. Behind(goal) => Behind(goal)'
        BY <2>6, <3>2, <3>4
           DEF EnsureRole, WriteRole, Accepted, RecordRoleKeys, Behind, TypeInv, TypeOK
      <4>2. QED
        BY <2>6, <3>1, <3>4, <4>1
           DEF EnsureRole, WriteRole, Accepted, Quiet, Authority, RolesHaveAMount,
               Progress, At, TypeInv, TypeOK
    <3>5. QED
      BY <2>6, <3>3, <3>4 DEF EnsureRole
  <2>7. ASSUME NEW r \in Roles, EnsureRoleFails(r) PROVE PassInv'
    BY <2>7 DEF EnsureRoleFails, Accepted, ReturnError, Authority, RolesHaveAMount,
                Progress, At, TypeInv, TypeOK
  <2>8. CASE ListManagedMounts
    BY <2>8 DEF ListManagedMounts, AtPrune, Quiet, Authority, RolesHaveAMount,
                Progress, Behind, Desired, DesiredDirs, DeclaredRoles, Listed, At
  <2>9. ASSUME NEW d \in Dirs, ListRoles(d) PROVE PassInv'
    BY <2>9 DEF ListRoles, Quiet, Authority, RolesHaveAMount,
                Progress, Behind, Desired, DesiredDirs, DeclaredRoles, Listed, At
  <2>10. CASE ListFails
    BY <2>10 DEF ListFails, ReturnError, Authority, RolesHaveAMount, Progress, At
  <2>11. ASSUME NEW r \in Roles, DeleteRole(r) PROVE PassInv'
    BY <2>11 DEF DeleteRole, Delete, Quiet, Authority, RolesHaveAMount, Progress,
                 Behind, Desired, DesiredDirs, DeclaredRoles, Listed, At, TypeInv, TypeOK
  <2>12. ASSUME NEW r \in Roles, DeleteRoleFails(r) PROVE PassInv'
    BY <2>12 DEF DeleteRoleFails, Delete, ReturnError, Authority, RolesHaveAMount,
                 Progress, At, TypeInv, TypeOK
  <2>13. CASE StepSucceeds
    BY <2>13 DEF StepSucceeds, local, AtPrune, Authority, RolesHaveAMount, Progress, At
  <2>14. CASE Crash
    BY <2>14 DEF Crash, ReturnError, Authority, RolesHaveAMount, Progress, At
  <2>15. CASE UNCHANGED vars
    BY <2>15 DEF vars, Authority, RolesHaveAMount, Progress, Behind, Desired,
                 DesiredDirs, DeclaredRoles, Listed, At
  <2>16. QED
    BY <2>1, <2>2, <2>3, <2>4, <2>5, <2>6, <2>7, <2>8, <2>9, <2>10, <2>11, <2>12,
       <2>13, <2>14, <2>15 DEF Next, Operator, Pass
<1>3. QED
  BY <1>1, <1>2, TypeInvariant, PTL DEF Spec

LEMMA UpToDateIsExact ==
    ASSUME NEW b \in Bodies, NEW h \in Held \cup {NoRole},
           RoleUpToDate(h, b), KeysSet(h) \subseteq KeysOf(b)
    PROVE  h = [k \in Keys |-> IF b[k] = Omitted THEN Default ELSE ValueOf[b[k]]]
<1>1. h \in [Keys -> Values \cup {Default}]
  BY DEF RoleUpToDate, Held
<1>2. ASSUME NEW k \in Keys PROVE h[k] = IF b[k] = Omitted THEN Default ELSE ValueOf[b[k]]
  BY DEF RoleUpToDate, SameValue, KeysSet, KeysOf
<1>3. QED
  BY <1>1, <1>2

\* The end of an undisturbed step.
LEMMA EndIsConverged ==
    ASSUME TypeInv, PassInv, MemoryBoundsKeys, StepSucceeds, calm
    PROVE  Converged(goal)
<1>1. goal = spec /\ Behind(goal) /\ todo = {} /\ doomed = {} /\ dirs = {}
  BY DEF PassInv, Places, Progress, StepSucceeds, AtPrune
<1>2. ASSUME NEW r \in Roles, goal.roles[r] # Undeclared
      PROVE  /\ RoleUpToDate(vault[r], goal.roles[r])
             /\ At(r) \notin Merging /\ excuse[r] = {} => Exact(r, goal.roles[r])
  <2>1. /\ memory[r] = KeysOf(goal.roles[r])
        /\ RoleUpToDate(vault[r], goal.roles[r])
        /\ vault[r] # NoRole
    BY <1>1, <1>2 DEF Behind, RoleUpToDate
  <2>2. goal.roles[r] \in Bodies /\ vault[r] \in Held \cup {NoRole}
    BY <1>2, DeclaredHaveBodies DEF DeclaredRoles, TypeInv, TypeOK
  <2>3. memory[r] # Unwritten
    BY <2>1, SentinelAssumption DEF KeysOf
  <2>4. At(r) \notin Merging /\ excuse[r] = {}
          => KeysSet(vault[r]) \subseteq KeysOf(goal.roles[r])
    BY <2>1, <2>3 DEF MemoryBoundsKeys
  <2>5. QED
    BY <2>1, <2>2, <2>4, UpToDateIsExact DEF Exact
<1>3. ASSUME goal.full, NEW r \in Roles, NEW d \in Roles, goal.roles[r] = Undeclared,
             vault[r] # NoRole, goal.roles[d] # Undeclared, d[1] = r[1]
      PROVE  mount[At(r)] = "foreign"
  <2>1. pc = "prune" /\ ~Desired(r) /\ r[1] \in DesiredDirs
    BY <1>3 DEF StepSucceeds, Desired, DesiredDirs, DeclaredRoles
  <2>2. At(r) \notin Listed
    BY <1>1, <2>1, <1>3 DEF Behind
  <2>3. At(r) \in Paths /\ mount[At(r)] \in {"none", "foreign", "managed"}
    BY RolesAreInDirs DEF TypeInv, TypeOK
  <2>4. QED
    BY <1>3, <2>2, <2>3 DEF Listed, PassInv, RolesHaveAMount
<1>4. QED
  BY <1>2, <1>3 DEF Converged

LEMMA OnlyStepSucceeds ==
    ASSUME Next, Ends("ok") PROVE StepSucceeds
BY DEF Next, Operator, Pass, Ends, EditSpec, OperatorWrites, OperatorDisables, Mounted,
       Elsewhere, BeginStep, EnsureRole, EnsureRoleFails, ListManagedMounts, ListRoles,
       ListFails, DeleteRole, DeleteRoleFails, Crash, ReturnError

\* A role step that succeeds undisturbed leaves the declared values, with no
\* other key where a write replaces the role, and no undeclared role it has
\* authority over, however many failures, restarts and edits by hand came before
\* (reconcileRoles).
THEOREM CleanStepsConverge == Spec => CleanStepConverges
<1>1. TypeInv /\ PassInv /\ MemoryBoundsKeys /\ [Next]_vars
        => [Ends("ok") /\ calm => Converged(goal)]_vars
  BY EndIsConverged, OnlyStepSucceeds
<1>2. QED
  BY <1>1, TypeInvariant, PassInvariant, MemoryIsABound, PTL
     DEF Spec, CleanStepConverges

\* The pass has authority over declared roles, and over undeclared ones beside
\* them on the mounts it listed (the role prune).
THEOREM OtherRolesStay == Spec => OnlyItsOwnRoles
<1>1. ASSUME TypeInv, PassInv, Next, NEW r \in Roles,
             calm, calm', pc # "idle", vault'[r] # vault[r]
      PROVE  IF goal.roles[r] # Undeclared THEN vault'[r] = Written(r, goal.roles[r])
             ELSE /\ vault'[r] = NoRole
                  /\ goal.full
                  /\ r[1] \in DesiredDirs
                  /\ mount[At(r)] = "foreign" => At(r) \in AuthManaged
  <2>1. PICK q \in Roles : \/ EnsureRole(q) \/ EnsureRoleFails(q)
                           \/ DeleteRole(q) \/ DeleteRoleFails(q)
    BY <1>1 DEF Next, Operator, Pass, EditSpec, OperatorWrites, OperatorDisables,
                Mounted, Change, BeginStep, ListManagedMounts, ListRoles, ListFails,
                StepSucceeds, Crash
  <2>2. CASE EnsureRole(q) \/ EnsureRoleFails(q)
    <3>1. q = r /\ vault'[r] = Written(r, goal.roles[r])
      BY <1>1, <2>2 DEF EnsureRole, EnsureRoleFails, WriteRole, Accepted, TypeInv, TypeOK
    <3>2. goal.roles[r] # Undeclared
      BY <1>1, <2>2, <3>1 DEF EnsureRole, EnsureRoleFails, TypeInv, DeclaredRoles
    <3>3. QED
      BY <3>1, <3>2
  <2>3. CASE DeleteRole(q) \/ DeleteRoleFails(q)
    <3>1. q = r /\ vault'[r] = NoRole /\ r \in doomed /\ pc = "prune"
      BY <1>1, <2>3 DEF DeleteRole, DeleteRoleFails, Delete, TypeInv, TypeOK
    <3>2. ~Desired(r) /\ r[1] \in DesiredDirs /\ At(r) \in Listed /\ goal.full
      BY <1>1, <3>1 DEF PassInv, Authority, Places
    <3>3. QED
      BY <3>1, <3>2 DEF Desired, DeclaredRoles, Listed
  <2>4. QED
    BY <2>1, <2>2, <2>3
<1>2. TypeInv /\ PassInv /\ [Next]_vars => [
          \A r \in Roles :
          calm /\ calm' /\ pc # "idle" /\ vault'[r] # vault[r] =>
             IF goal.roles[r] # Undeclared THEN vault'[r] = Written(r, goal.roles[r])
             ELSE /\ vault'[r] = NoRole
                  /\ goal.full
                  /\ r[1] \in DesiredDirs
                  /\ mount[At(r)] = "foreign" => At(r) \in AuthManaged]_vars
  BY <1>1
<1>3. QED
  BY <1>2, TypeInvariant, PassInvariant, PTL DEF Spec, OnlyItsOwnRoles

(***************************************************************************)
(* Resyncs                                                                 *)
(***************************************************************************)

\* Since a calm step succeeded and nothing happened, every declared role is
\* current, nothing is left to delete, and a pass under way wrote nothing.
Settled ==
    settled =>
        /\ calm
        /\ goal = spec
        /\ \A r \in DeclaredRoles : Current(r)
        /\ goal.full => \A r \in Roles :
              ~Desired(r) /\ r[1] \in DesiredDirs /\ At(r) \in Listed => vault[r] = NoRole
        /\ doomed = {}
        /\ pc # "idle" => wrote = {}

LEMMA SettledInvariant == Spec => []Settled
<1>1. Init => Settled
  BY DEF Init, Settled
<1>2. TypeInv /\ PassInv /\ Settled /\ [Next]_vars => Settled'
  <2> SUFFICES ASSUME TypeInv, PassInv, Settled, [Next]_vars PROVE Settled'
    OBVIOUS
  <2>1. CASE Operator \/ Crash
    BY <2>1 DEF Operator, Crash, Fault, EditSpec, OperatorWrites, OperatorDisables,
                Mounted, Change, Settled
  <2>2. CASE BeginStep
    BY <2>2 DEF BeginStep, NoFault, Quiet, Settled, Desired, DesiredDirs, DeclaredRoles,
                Current, SameRoleKeysAsLastWrite, Listed, PassInv, Places, Idle
  <2>3. ASSUME NEW r \in Roles, EnsureRole(r) PROVE Settled'
    BY <2>3 DEF EnsureRole, NoFault, Fault, Quiet, Settled, Desired, DesiredDirs,
                DeclaredRoles, Current, SameRoleKeysAsLastWrite, Listed, TypeInv
  <2>4. ASSUME NEW r \in Roles, EnsureRoleFails(r) PROVE Settled'
    BY <2>4 DEF EnsureRoleFails, NoFault, Fault, Settled, DeclaredRoles, TypeInv
  <2>5. CASE ListManagedMounts
    BY <2>5 DEF ListManagedMounts, AtPrune, NoFault, Quiet, Settled, Desired, DesiredDirs,
                DeclaredRoles, Current, SameRoleKeysAsLastWrite, Listed
  <2>6. ASSUME NEW d \in Dirs, ListRoles(d) PROVE Settled'
    <3>1. settled => doomed' = {}
      BY <2>6 DEF ListRoles, Settled, PassInv, Places, Authority, At
    <3>2. QED
      BY <2>6, <3>1 DEF ListRoles, NoFault, Quiet, Settled, Desired, DesiredDirs,
                DeclaredRoles, Current, SameRoleKeysAsLastWrite, Listed
  <2>7. CASE ListFails
    BY <2>7 DEF ListFails, Fault, Settled
  <2>8. ASSUME NEW r \in Roles, DeleteRole(r) \/ DeleteRoleFails(r) PROVE Settled'
    BY <2>8 DEF DeleteRole, DeleteRoleFails, NoFault, Fault, Settled
  <2>9. CASE StepSucceeds
    <3>1. settled' = calm /\ calm' = TRUE /\ UNCHANGED <<spec, vault, mount, memory, local>>
      BY <2>9 DEF StepSucceeds
    <3>2. ASSUME calm
          PROVE  /\ goal = spec
                 /\ \A r \in DeclaredRoles : Current(r)
                 /\ goal.full => \A r \in Roles :
                       ~Desired(r) /\ r[1] \in DesiredDirs /\ At(r) \in Listed
                           => vault[r] = NoRole
                 /\ doomed = {}
      BY <2>9, <3>2 DEF StepSucceeds, AtPrune, PassInv, Places, Progress, Behind,
                        DeclaredRoles, Current, SameRoleKeysAsLastWrite
    <3>3. pc' = "idle"
      BY <2>9 DEF StepSucceeds
    <3>4. QED
      BY <3>1, <3>2, <3>3 DEF local, Settled, Desired, DesiredDirs, DeclaredRoles,
                              Current, SameRoleKeysAsLastWrite, Listed
  <2>10. CASE UNCHANGED vars
    BY <2>10 DEF vars, Settled, Desired, DesiredDirs, DeclaredRoles, Current,
                 SameRoleKeysAsLastWrite, Listed
  <2>11. QED
    BY <2>1, <2>2, <2>3, <2>4, <2>5, <2>6, <2>7, <2>8, <2>9, <2>10 DEF Next, Pass
<1>3. QED
  BY <1>1, <1>2, TypeInvariant, PassInvariant, PTL DEF Spec

\* A resync of what has settled makes no request that changes Vault
\* (EnsureRole's read, compare and write; the role prune).
THEOREM ResyncsAreQuiet == Spec => ResyncIsQuiet
<1>1. ASSUME TypeInv, PassInv, Settled, Settled', Next, settled, settled'
      PROVE  vault' = vault /\ wrote' = {}
  <2>1. CASE Operator \/ Crash
    BY <1>1, <2>1 DEF Operator, Crash, Fault, EditSpec, OperatorWrites,
                      OperatorDisables, Mounted, Change
  <2>2. ASSUME NEW r \in Roles, EnsureRole(r) \/ EnsureRoleFails(r)
        PROVE  vault' = vault /\ wrote' = {}
    BY <1>1, <2>2 DEF EnsureRole, EnsureRoleFails, Fault, Settled, DeclaredRoles, TypeInv
  <2>3. CASE BeginStep \/ ListManagedMounts \/ (\E d \in Dirs : ListRoles(d))
    BY <1>1, <2>3 DEF BeginStep, ListManagedMounts, ListRoles, Settled, AtPrune
  <2>4. CASE ListFails \/ \E r \in Roles : DeleteRole(r) \/ DeleteRoleFails(r)
    BY <1>1, <2>4 DEF ListFails, DeleteRole, DeleteRoleFails, Fault, Settled
  <2>5. CASE StepSucceeds
    BY <1>1, <2>5 DEF StepSucceeds, AtPrune, local, Settled
  <2>6. QED
    BY <1>1, <2>1, <2>2, <2>3, <2>4, <2>5 DEF Next, Pass
<1>2. TypeInv /\ PassInv /\ Settled /\ Settled' /\ [Next]_vars
        => [settled /\ settled' => vault' = vault /\ wrote' = {}]_vars
  BY <1>1
<1>3. QED
  BY <1>2, TypeInvariant, PassInvariant, SettledInvariant, PTL DEF Spec, ResyncIsQuiet
=============================================================================
