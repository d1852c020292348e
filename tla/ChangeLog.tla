------------------------------ MODULE ChangeLog ------------------------------
(***************************************************************************)
(* What a pass says of the edit it was woken for: config.Diff over whole   *)
(* specs (internal/config/diff.go), of which Runner's Diff is the outline. *)
(* Specs are as Parse returns them; a version is spelled with a v or       *)
(* without, and a map of options may be missing altogether.                *)
(***************************************************************************)
EXTENDS SpecRules

CONSTANTS DefaultSettings,  \* ApplyDefaults of no settings
          PlainSpec,        \* a spec the samples vary by one section
          LogSamples,       \* section -> forms of it
          ManagedBy,        \* the option that is the manager's marker
          Meaning,          \* value of a role -> its class in sameRoleValue
          Encoded           \* value of an engine config -> its JSON

Sections == {"settings", "catalog", "mounts", "engineConfigs", "roles"}

\* Lists, and maps from fields: every value has one for each.
IsList(list) == Len(list) \in Nat /\ DOMAIN list = 1..Len(list)
IsMap(map) == map = [f \in DOMAIN map |-> map[f]]
SpecShape(d) ==
    /\ d = [settings |-> d.settings, catalog |-> d.catalog, mounts |-> d.mounts,
            engineConfigs |-> d.engineConfigs, roles |-> d.roles]
    /\ DOMAIN d.settings = DOMAIN DefaultSettings
    /\ \A s \in Sections \ {"settings"} : IsList(d[s])
    /\ \A r \in Items(d.roles) : IsMap(r.data)
    /\ \A e \in Items(d.engineConfigs) :
          /\ IsMap(e.data)
          /\ e.secretRef # NoEntry =>
                /\ e.secretRef = [name |-> e.secretRef.name, keys |-> e.secretRef.keys]
                /\ IsMap(e.secretRef.keys) /\ DOMAIN e.secretRef.keys # {}

ASSUME LogAssumption ==
    \A s \in Sections : \A x \in LogSamples[s] :
        LET d == [PlainSpec EXCEPT ![s] = x]
        IN  /\ SpecShape(d) /\ d # Nil
            /\ \A r \in Items(d.roles) : \A f \in DOMAIN r.data : r.data[f] \in DOMAIN Meaning
            /\ \A e \in Items(d.engineConfigs) :
                  \A f \in DOMAIN e.data : e.data[f] \in DOMAIN Encoded

\* The keys: catalogKey, mountDiffKey, engineConfigKey and roleKey.
CatalogKey(c) == <<c.name, c.version.number>>
MountDiffKey(m) == <<m.type, Trim(m.path)>>
EngineConfigKey(e) == EnginePlace(e)
RoleKey(r) == RolePlace(r)
KeyOf(section, x) == CASE section = "catalog"       -> CatalogKey(x)
                       [] section = "mounts"        -> MountDiffKey(x)
                       [] section = "engineConfigs" -> EngineConfigKey(x)
                       [] section = "roles"         -> RoleKey(x)

\* A map built entry by entry: the last entry of a key is the one it has.
ByKey(section, list) ==
    [k \in { KeyOf(section, x) : x \in Items(list) } |->
        list[CHOOSE i \in DOMAIN list :
                /\ KeyOf(section, list[i]) = k
                /\ \A j \in DOMAIN list : KeyOf(section, list[j]) = k => j <= i]]

\* changedDataKeys.
MovedKeys(o, n) ==
    { k \in DOMAIN o \cup DOMAIN n :
        k \in DOMAIN o /\ k \in DOMAIN n => o[k] # n[k] }

\* What moved within an entry: the details of the change, none if empty.
CatalogDetail(o, n) == { f \in {"type", "source"} : o[f] # n[f] }

MountDetail(o, n) ==
    { f \in {"plugin", "description", "options"} : o[f] # n[f] }
    \cup { f \in {"version"} : o.version.number # n.version.number }

\* Mutant: the secretRef is not looked at.
EngineConfigDetailOfData(o, n) == MovedKeys(o.data, n.data)

SecretRefDetail(o, n) ==
    CASE o = n                           -> {}
      [] o # n /\ NoEntry \in {o, n}     -> {"secretRef"}
      [] OTHER -> { f \in {"name"} : o[f] # n[f] } \cup MovedKeys(o.keys, n.keys)
EngineConfigDetail(o, n) ==
    MovedKeys(o.data, n.data) \cup SecretRefDetail(o.secretRef, n.secretRef)

RoleDetail(o, n) == MovedKeys(o.data, n.data)

Detail(section, o, n) == CASE section = "catalog"       -> CatalogDetail(o, n)
                           [] section = "mounts"        -> MountDetail(o, n)
                           [] section = "engineConfigs" -> EngineConfigDetail(o, n)
                           [] section = "roles"         -> RoleDetail(o, n)

DiffSection(section, old, new) ==
    LET o == ByKey(section, old[section])
        n == ByKey(section, new[section])
    IN  { <<section, k, "added">> : k \in DOMAIN n \ DOMAIN o }
        \cup { <<section, k, "removed">> : k \in DOMAIN o \ DOMAIN n }
        \cup { <<section, k, "changed">> :
                 k \in { x \in DOMAIN o \cap DOMAIN n : Detail(section, o[x], n[x]) # {} } }

NoSpec == [settings |-> DefaultSettings, catalog |-> <<>>, mounts |-> <<>>,
           engineConfigs |-> <<>>, roles |-> <<>>]

\* A nil spec is one without entries and with the default settings.
Known(before) == IF before = Nil THEN NoSpec ELSE before

\* Diff.
Changes(before, new) ==
    LET old == Known(before)
    IN  { <<"settings", f, "changed">> : f \in MovedKeys(old.settings, new.settings) }
        \cup UNION { DiffSection(s, old, new) : s \in Sections \ {"settings"} }

(***************************************************************************)
(* The reference: what the passes for a spec keep in Vault.  Each entry    *)
(* has a place, where a pass restores its part of Vault if it is not so,   *)
(* over what an earlier entry made of the place; what an entry may say     *)
(* without a pass doing anything about it is left out.                     *)
(***************************************************************************)

\* A plugin is registered by type, name and version, with the command of the
\* file that is named for the version as it is spelled.
Registration(c) == <<c.type, c.name, c.version.number>>
RegistrationWork(c) == <<c.version, c.source>>

\* A mount the manager made is tuned to the version, the description and the
\* options that are set, the marker being the manager's; the plugin counts when
\* the mount is enabled, and for no mount that is there.
SetOptions(options) ==
    IF options = Nil THEN {}
    ELSE { <<k, options[k]>> : k \in { x \in DOMAIN options \ {ManagedBy} : options[x] # Blank } }
MountWork(m) == <<m.version.number, m.description, SetOptions(m.options)>>

\* A body is written again when its JSON moves, or a value of its Secret, which
\* the Secret's key stands for.
EngineWork(e) ==
    { <<f, Encoded[e.data[f]]>> : f \in DOMAIN e.data } \cup
    IF e.secretRef = NoEntry THEN {}
    ELSE { <<f, e.secretRef.name, e.secretRef.keys[f]>> : f \in DOMAIN e.secretRef.keys }

\* A role is written again when its keys move or a value reads back as another.
RoleWork(r) == [f \in DOMAIN r.data |-> Meaning[r.data[f]]]

Put(list, Place(_), Work(_)) ==
    { <<Place(list[i]), Work(list[i])>> :
        i \in { j \in DOMAIN list :
                  \A k \in DOMAIN list : Place(list[k]) = Place(list[j]) => k <= j } }

\* By section: the places, and what is kept there.
WorkOf(before) ==
    LET d == Known(before)
    IN  [settings |-> { <<f, d.settings[f]>> : f \in DOMAIN d.settings },
         catalog |-> Put(d.catalog, Registration, RegistrationWork),
         mounts |-> Put(d.mounts, LAMBDA m : <<m.type, Trim(m.path)>>, MountWork),
         engineConfigs |-> Put(d.engineConfigs, EnginePlace, EngineWork),
         roles |-> Put(d.roles, RolePlace, RoleWork)]

\* The log names places, those in the catalog without the type.
NameOf(section, place) == IF section = "catalog" THEN <<place[2], place[3]>> ELSE place
Places(work) == UNION { { <<s, NameOf(s, w[1])>> : w \in work[s] } : s \in Sections }
Moved(before, new) ==
    LET o == WorkOf(before)
        n == WorkOf(new)
    IN  Places([s \in Sections |-> (o[s] \ n[s]) \cup (n[s] \ o[s])])

\* Plugin versions in both specs that one of them has with two types: the log
\* compares the last entry of each spec only.
TwoTypes(list, k) ==
    \E x, y \in Items(list) : CatalogKey(x) = k /\ CatalogKey(y) = k /\ x.type # y.type
Twins(old, new) ==
    { <<"catalog", CatalogKey(x)>> : x \in { c \in Items(old.catalog) :
        /\ \E y \in Items(new.catalog) : CatalogKey(y) = CatalogKey(c)
        /\ TwoTypes(old.catalog, CatalogKey(c)) \/ TwoTypes(new.catalog, CatalogKey(c)) } }

\* Plugin versions that are only spelled otherwise: the file is copied under its
\* new name and the plugin registered again, and the log does not say so.
Renamed(old, new) ==
    { <<"catalog", CatalogKey(x)>> : x \in { c \in Items(old.catalog) :
        \E y \in Items(new.catalog) :
            /\ CatalogKey(y) = CatalogKey(c) /\ y.type = c.type /\ y.source = c.source
            /\ y.version # c.version } }

\* Pairs of entries that stay and say something else to the same effect: the
\* plugin of a mount, options that are missing, blank or the marker, a value
\* with the JSON it had, a value of a role that reads back as it did.
OnlyRespelled(section, o, n) ==
    CASE section = "mounts" ->
            \/ o.plugin # n.plugin
            \/ o.options # n.options /\ SetOptions(o.options) = SetOptions(n.options)
      [] section = "engineConfigs" ->
            \E f \in DOMAIN o.data \cap DOMAIN n.data :
                o.data[f] # n.data[f] /\ Encoded[o.data[f]] = Encoded[n.data[f]]
      [] section = "roles" ->
            \E f \in DOMAIN o.data \cap DOMAIN n.data :
                o.data[f] # n.data[f] /\ Meaning[o.data[f]] = Meaning[n.data[f]]
Idle(old, new) ==
    UNION { { <<s, KeyOf(s, x)>> : x \in { e \in Items(old[s]) :
                \E y \in Items(new[s]) : KeyOf(s, e) = KeyOf(s, y) /\ OnlyRespelled(s, e, y) } }
            : s \in {"mounts", "engineConfigs", "roles"} }

\* The log of an edit is the work it causes.  Every place at which the passes
\* will now keep something else is named, but for twins and renamed versions;
\* every other place is not, but for twins and edits without effect; a place is
\* named as added just when nothing of its name was kept before.  Of the first
\* spec of a process the log is the work without exception.
LogIsExact(before, new) ==
    LET old   == Known(before)
        named == { <<c[1], c[2]>> : c \in Changes(before, new) }
        added == { <<c[1], c[2]>> : c \in { x \in Changes(before, new) : x[3] = "added" } }
        moved == Moved(before, new)
    IN  /\ moved \ named \subseteq Twins(old, new) \cup Renamed(old, new)
        /\ named \ moved \subseteq Twins(old, new) \cup Idle(old, new)
        /\ before = Nil => named = moved
        /\ added = Places(WorkOf(new)) \ Places(WorkOf(before))
LogsAreExact ==
    \A s \in Sections :
        \A y \in LogSamples[s] :
            LET new == [PlainSpec EXCEPT ![s] = y]
            IN  /\ LogIsExact(Nil, new)
                /\ \A x \in LogSamples[s] : LogIsExact([PlainSpec EXCEPT ![s] = x], new)
LogTellsTheWork == pc = "pass" => LogsAreExact
=============================================================================
