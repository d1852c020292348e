--------------------------- MODULE ChangeLogProofs ---------------------------
(***************************************************************************)
(* The change log names the work of an edit, for specs of any size.        *)
(***************************************************************************)
EXTENDS ChangeLog, SpecRulesProofs

Lists == Sections \ {"settings"}
\* The sections with one place for a key.
Plain == {"mounts", "engineConfigs", "roles"}

\* What is kept at the place of an entry.
Work(section, x) == CASE section = "mounts"        -> MountWork(x)
                      [] section = "engineConfigs" -> EngineWork(x)
                      [] section = "roles"         -> RoleWork(x)

\* The work of a section, one entry for a key.
WorkByKey(section, list) ==
    { <<k, Work(section, ByKey(section, list)[k])>> : k \in DOMAIN ByKey(section, list) }

\* A key has a last entry.
LEMMA LastOfKey ==
    ASSUME NEW section, NEW list, IsList(list), NEW k \in DOMAIN ByKey(section, list)
    PROVE  \E i \in DOMAIN list :
              /\ ByKey(section, list)[k] = list[i] /\ KeyOf(section, list[i]) = k
              /\ \A j \in DOMAIN list : KeyOf(section, list[j]) = k => j <= i
<1> DEFINE S == { i \in DOMAIN list : KeyOf(section, list[i]) = k }
<1>1. /\ k \in { KeyOf(section, x) : x \in Items(list) }
      /\ ByKey(section, list)[k] = list[CHOOSE i \in DOMAIN list :
                /\ KeyOf(section, list[i]) = k
                /\ \A j \in DOMAIN list : KeyOf(section, list[j]) = k => j <= i]
  BY DEF ByKey
<1>2. Len(list) \in Nat /\ S \in SUBSET (1..Len(list))
  BY DEF IsList
<1>3. S # {}
  BY <1>1 DEF Items
<1>4. \E i \in S : \A j \in S : j <= i
  <2>1. LET last == CHOOSE i \in S : \A j \in S : j <= i
        IN  last \in S /\ \A j \in S : j <= last
    BY <1>2, <1>3, LargestSegment
  <2>2. QED
    BY <2>1
<1>5. QED
  BY <1>1, <1>4

\* Putting entries over earlier ones and building a map come to the same.
LEMMA PutIsByKey ==
    ASSUME NEW section, NEW list, IsList(list)
    PROVE  { <<KeyOf(section, list[i]), Work(section, list[i])>> :
                i \in { j \in DOMAIN list :
                          \A k \in DOMAIN list :
                              KeyOf(section, list[k]) = KeyOf(section, list[j]) => k <= j } }
             = WorkByKey(section, list)
<1> DEFINE last == { j \in DOMAIN list :
                       \A k \in DOMAIN list :
                           KeyOf(section, list[k]) = KeyOf(section, list[j]) => k <= j }
<1>1. ASSUME NEW i \in last
      PROVE  /\ KeyOf(section, list[i]) \in DOMAIN ByKey(section, list)
             /\ ByKey(section, list)[KeyOf(section, list[i])] = list[i]
  <2>1. KeyOf(section, list[i]) \in DOMAIN ByKey(section, list)
    BY DEF ByKey, Items
  <2>2. PICK j \in DOMAIN list :
            /\ ByKey(section, list)[KeyOf(section, list[i])] = list[j]
            /\ KeyOf(section, list[j]) = KeyOf(section, list[i])
            /\ \A k \in DOMAIN list : KeyOf(section, list[k]) = KeyOf(section, list[i]) => k <= j
    BY <2>1, LastOfKey
  <2>3. i <= j /\ j <= i /\ i \in Int /\ j \in Int
    BY <2>2 DEF IsList
  <2>4. QED
    BY <2>1, <2>2, <2>3
<1>2. ASSUME NEW k \in DOMAIN ByKey(section, list)
      PROVE  \E i \in last : KeyOf(section, list[i]) = k /\ ByKey(section, list)[k] = list[i]
  BY LastOfKey
<1>3. QED
  BY <1>1, <1>2 DEF WorkByKey

LEMMA WorkOfSections ==
    ASSUME NEW before, SpecShape(Known(before)), NEW s \in Plain
    PROVE  WorkOf(before)[s] = WorkByKey(s, Known(before)[s])
<1> DEFINE list == Known(before)[s]
<1>1. IsList(list)
  BY DEF SpecShape, Plain, Sections
<1> HIDE DEF list
<1>2. WorkOf(before)[s] =
         { <<KeyOf(s, list[i]), Work(s, list[i])>> :
                i \in { j \in DOMAIN list :
                          \A k \in DOMAIN list :
                              KeyOf(s, list[k]) = KeyOf(s, list[j]) => k <= j } }
  <2>1. CASE s = "mounts"
    BY <2>1 DEF WorkOf, Put, KeyOf, Work, MountDiffKey, list
  <2>2. CASE s = "engineConfigs"
    BY <2>2 DEF WorkOf, Put, KeyOf, Work, EngineConfigKey, list
  <2>3. CASE s = "roles"
    BY <2>3 DEF WorkOf, Put, KeyOf, Work, RoleKey, list
  <2>4. QED
    BY <2>1, <2>2, <2>3 DEF Plain
<1>3. QED
  BY <1>1, <1>2, PutIsByKey DEF list

(***************************************************************************)
(* Entries that stay: the detail says whether their work moved.            *)
(***************************************************************************)
LEMMA SameMaps ==
    ASSUME NEW o, NEW n, IsMap(o), IsMap(n)
    PROVE  MovedKeys(o, n) = {} <=> o = n
<1>1. ASSUME MovedKeys(o, n) = {} PROVE o = n
  <2>1. \A k \in DOMAIN o \cup DOMAIN n : k \in DOMAIN o /\ k \in DOMAIN n /\ o[k] = n[k]
    BY <1>1 DEF MovedKeys
  <2>2. DOMAIN o = DOMAIN n /\ \A k \in DOMAIN o : o[k] = n[k]
    BY <2>1
  <2>3. QED
    BY <2>2 DEF IsMap
<1>2. ASSUME o = n PROVE MovedKeys(o, n) = {}
  BY <1>2 DEF MovedKeys
<1>3. QED
  BY <1>1, <1>2

EntryShape(section, x) ==
    /\ section = "roles" => IsMap(x.data)
    /\ section = "engineConfigs" =>
          /\ IsMap(x.data)
          /\ x.secretRef # NoEntry =>
                /\ x.secretRef = [name |-> x.secretRef.name, keys |-> x.secretRef.keys]
                /\ IsMap(x.secretRef.keys) /\ DOMAIN x.secretRef.keys # {}

\* The two parts of a body can be told apart, and each can be read back.
LEMMA EngineWorkIsExact ==
    ASSUME NEW o, NEW n, EntryShape("engineConfigs", o), EntryShape("engineConfigs", n),
           EngineWork(o) = EngineWork(n)
    PROVE  /\ DOMAIN o.data = DOMAIN n.data
           /\ \A f \in DOMAIN o.data : Encoded[o.data[f]] = Encoded[n.data[f]]
           /\ o.secretRef = n.secretRef
<1> DEFINE literals(e) == { <<f, Encoded[e.data[f]]>> : f \in DOMAIN e.data }
           fetched(e) == IF e.secretRef = NoEntry THEN {}
                         ELSE { <<f, e.secretRef.name, e.secretRef.keys[f]>> :
                                   f \in DOMAIN e.secretRef.keys }
<1>1. \A a, b, c, f, v : <<a, b>> # <<c, f, v>>
  <2>1. \A a, b, c, f, v : Len(<<a, b>>) = 2 /\ Len(<<c, f, v>>) = 3
    OBVIOUS
  <2>2. QED
    BY <2>1
<1>2. EngineWork(o) = literals(o) \cup fetched(o) /\ EngineWork(n) = literals(n) \cup fetched(n)
  BY DEF EngineWork
<1>3. /\ \A w \in literals(o) : \A v \in fetched(n) : w # v
      /\ \A w \in literals(n) : \A v \in fetched(o) : w # v
  BY <1>1
<1>4. literals(o) = literals(n) /\ fetched(o) = fetched(n)
  BY <1>2, <1>3
<1>5. /\ DOMAIN o.data = DOMAIN n.data
      /\ \A f \in DOMAIN o.data : Encoded[o.data[f]] = Encoded[n.data[f]]
  <2>1. \A f \in DOMAIN o.data :
            f \in DOMAIN n.data /\ Encoded[o.data[f]] = Encoded[n.data[f]]
    <3>1. \A f \in DOMAIN o.data : <<f, Encoded[o.data[f]]>> \in literals(n)
      BY <1>4
    <3>2. QED
      BY <3>1
  <2>2. \A f \in DOMAIN n.data : f \in DOMAIN o.data
    <3>1. \A f \in DOMAIN n.data : <<f, Encoded[n.data[f]]>> \in literals(o)
      BY <1>4
    <3>2. QED
      BY <3>1
  <2>3. QED
    BY <2>1, <2>2
<1>6. o.secretRef = NoEntry <=> n.secretRef = NoEntry
  <2>1. \A e : EntryShape("engineConfigs", e) => (e.secretRef = NoEntry <=> fetched(e) = {})
    BY DEF EntryShape
  <2>2. QED
    BY <1>4, <2>1
<1>7. ASSUME o.secretRef # NoEntry PROVE o.secretRef = n.secretRef
  <2> DEFINE ok == o.secretRef.keys
             nk == n.secretRef.keys
  <2>0. /\ n.secretRef # NoEntry
        /\ o.secretRef = [name |-> o.secretRef.name, keys |-> ok]
        /\ n.secretRef = [name |-> n.secretRef.name, keys |-> nk]
        /\ IsMap(ok) /\ IsMap(nk) /\ DOMAIN ok # {}
    BY <1>6, <1>7 DEF EntryShape
  <2>1. /\ fetched(o) = { <<f, o.secretRef.name, ok[f]>> : f \in DOMAIN ok }
        /\ fetched(n) = { <<f, n.secretRef.name, nk[f]>> : f \in DOMAIN nk }
    BY <1>7, <2>0
  <2> HIDE DEF ok, nk, fetched
  <2>2. \A f \in DOMAIN ok : f \in DOMAIN nk /\ ok[f] = nk[f] /\ o.secretRef.name = n.secretRef.name
    <3>1. \A f \in DOMAIN ok : <<f, o.secretRef.name, ok[f]>> \in fetched(n)
      BY <1>4, <2>1
    <3>2. QED
      BY <2>1, <3>1
  <2>3. \A f \in DOMAIN nk : f \in DOMAIN ok
    <3>1. \A f \in DOMAIN nk : <<f, n.secretRef.name, nk[f]>> \in fetched(o)
      BY <1>4, <2>1
    <3>2. QED
      BY <2>1, <3>1
  <2>4. DOMAIN ok = DOMAIN nk
    BY <2>2, <2>3
  <2>5. ok = nk
    BY <2>0, <2>2, <2>4 DEF IsMap
  <2>6. QED
    BY <2>0, <2>2, <2>5
<1>8. QED
  BY <1>5, <1>6, <1>7

\* A detail that stays within the keys is a value that moved.
LEMMA MovedValue ==
    ASSUME NEW o, NEW n, MovedKeys(o, n) # {}, DOMAIN o = DOMAIN n
    PROVE  \E f \in DOMAIN o \cap DOMAIN n : o[f] # n[f]
BY DEF MovedKeys

\* No detail, no work; and a detail is work, but for what is only respelled.
LEMMA DetailIsWork ==
    ASSUME NEW s \in Plain, NEW o, NEW n, EntryShape(s, o), EntryShape(s, n)
    PROVE  /\ Detail(s, o, n) = {} => Work(s, o) = Work(s, n)
           /\ Work(s, o) = Work(s, n) /\ Detail(s, o, n) # {} => OnlyRespelled(s, o, n)
<1>1. CASE s = "mounts"
  <2>1. Detail(s, o, n) = { f \in {"plugin", "description", "options"} : o[f] # n[f] }
                          \cup { f \in {"version"} : o.version.number # n.version.number }
    BY <1>1 DEF Detail, MountDetail
  <2>2. Detail(s, o, n) = {} <=>
            /\ o.plugin = n.plugin /\ o.description = n.description /\ o.options = n.options
            /\ o.version.number = n.version.number
    BY <2>1
  <2>3. Work(s, o) = Work(s, n) <=>
            /\ o.description = n.description
            /\ o.version.number = n.version.number
            /\ SetOptions(o.options) = SetOptions(n.options)
    BY <1>1 DEF Work, MountWork
  <2>4. OnlyRespelled(s, o, n) <=>
            \/ o.plugin # n.plugin
            \/ o.options # n.options /\ SetOptions(o.options) = SetOptions(n.options)
    BY <1>1 DEF OnlyRespelled
  <2>5. QED
    BY <2>2, <2>3, <2>4
<1>2. CASE s = "engineConfigs"
  <2>1. Detail(s, o, n) = MovedKeys(o.data, n.data) \cup SecretRefDetail(o.secretRef, n.secretRef)
    BY <1>2 DEF Detail, EngineConfigDetail
  <2>2. MovedKeys(o.data, n.data) = {} <=> o.data = n.data
    BY <1>2, SameMaps DEF EntryShape
  <2>3. SecretRefDetail(o.secretRef, n.secretRef) = {} <=> o.secretRef = n.secretRef
    <3>1. CASE o.secretRef = n.secretRef \/ NoEntry \in {o.secretRef, n.secretRef}
      BY <3>1 DEF SecretRefDetail
    <3>2. CASE o.secretRef # n.secretRef /\ NoEntry \notin {o.secretRef, n.secretRef}
      <4>1. SecretRefDetail(o.secretRef, n.secretRef)
                = { f \in {"name"} : o.secretRef[f] # n.secretRef[f] }
                  \cup MovedKeys(o.secretRef.keys, n.secretRef.keys)
        BY <3>2 DEF SecretRefDetail
      <4>2. o.secretRef.name # n.secretRef.name \/ o.secretRef.keys # n.secretRef.keys
        BY <1>2, <3>2 DEF EntryShape
      <4>3. MovedKeys(o.secretRef.keys, n.secretRef.keys) = {}
                <=> o.secretRef.keys = n.secretRef.keys
        BY <1>2, <3>2, SameMaps DEF EntryShape
      <4>4. QED
        BY <3>2, <4>1, <4>2, <4>3
    <3>3. QED
      BY <3>1, <3>2
  <2>4. Work(s, o) = EngineWork(o) /\ Work(s, n) = EngineWork(n)
    BY <1>2 DEF Work
  <2>5. o.data = n.data /\ o.secretRef = n.secretRef => EngineWork(o) = EngineWork(n)
    BY DEF EngineWork
  <2>6. ASSUME Work(s, o) = Work(s, n), Detail(s, o, n) # {} PROVE OnlyRespelled(s, o, n)
    <3>1. /\ DOMAIN o.data = DOMAIN n.data
          /\ \A f \in DOMAIN o.data : Encoded[o.data[f]] = Encoded[n.data[f]]
          /\ o.secretRef = n.secretRef
      <4>1. /\ EntryShape("engineConfigs", o) /\ EntryShape("engineConfigs", n)
            /\ EngineWork(o) = EngineWork(n)
        BY <1>2, <2>4, <2>6
      <4>2. QED
        BY <4>1, EngineWorkIsExact
    <3>2. \E f \in DOMAIN o.data \cap DOMAIN n.data : o.data[f] # n.data[f]
      BY <2>1, <2>3, <2>6, <3>1, MovedValue
    <3>3. QED
      BY <1>2, <3>1, <3>2 DEF OnlyRespelled
  <2>7. QED
    BY <2>1, <2>2, <2>3, <2>4, <2>5, <2>6
<1>3. CASE s = "roles"
  <2>1. /\ Detail(s, o, n) = MovedKeys(o.data, n.data)
        /\ Work(s, o) = RoleWork(o) /\ Work(s, n) = RoleWork(n)
    BY <1>3 DEF Detail, RoleDetail, Work
  <2>2. Detail(s, o, n) = {} => Work(s, o) = Work(s, n)
    <3>1. IsMap(o.data) /\ IsMap(n.data)
      BY <1>3 DEF EntryShape
    <3>2. Detail(s, o, n) = {} => o.data = n.data
      BY <2>1, <3>1, SameMaps
    <3>3. o.data = n.data => RoleWork(o) = RoleWork(n)
      BY DEF RoleWork
    <3>4. QED
      BY <2>1, <3>2, <3>3
  <2>3. ASSUME RoleWork(o) = RoleWork(n), MovedKeys(o.data, n.data) # {}
        PROVE  OnlyRespelled(s, o, n)
    <3>1. DOMAIN o.data = DOMAIN n.data
      <4>1. DOMAIN RoleWork(o) = DOMAIN o.data /\ DOMAIN RoleWork(n) = DOMAIN n.data
        BY DEF RoleWork
      <4>2. QED
        BY <2>3, <4>1
    <3>2. \A f \in DOMAIN o.data : Meaning[o.data[f]] = Meaning[n.data[f]]
      <4>1. \A f \in DOMAIN o.data : /\ RoleWork(o)[f] = Meaning[o.data[f]]
                                     /\ RoleWork(n)[f] = Meaning[n.data[f]]
        BY <3>1 DEF RoleWork
      <4>2. QED
        BY <2>3, <4>1
    <3>3. \E f \in DOMAIN o.data \cap DOMAIN n.data : o.data[f] # n.data[f]
      BY <2>3, <3>1, MovedValue
    <3>4. QED
      BY <1>3, <3>2, <3>3 DEF OnlyRespelled
  <2>4. QED
    BY <2>1, <2>2, <2>3
<1>4. QED
  BY <1>1, <1>2, <1>3 DEF Plain

(***************************************************************************)
(* Sections with one place for a key                                       *)
(***************************************************************************)
LEMMA EntriesByKey ==
    ASSUME NEW d, SpecShape(d), NEW s \in Lists, NEW k \in DOMAIN ByKey(s, d[s])
    PROVE  /\ ByKey(s, d[s])[k] \in Items(d[s])
           /\ KeyOf(s, ByKey(s, d[s])[k]) = k
           /\ EntryShape(s, ByKey(s, d[s])[k])
<1>1. IsList(d[s])
  BY DEF SpecShape, Lists
<1>2. /\ ByKey(s, d[s])[k] \in Items(d[s])
      /\ KeyOf(s, ByKey(s, d[s])[k]) = k
  BY <1>1, LastOfKey DEF Items
<1>3. \A x \in Items(d[s]) : EntryShape(s, x)
  BY DEF SpecShape, EntryShape, Lists, Sections
<1>4. QED
  BY <1>2, <1>3

LEMMA KeysOfWork ==
    ASSUME NEW s, NEW list
    PROVE  { w[1] : w \in WorkByKey(s, list) } = DOMAIN ByKey(s, list)
<1>1. \A w \in WorkByKey(s, list) : w[1] \in DOMAIN ByKey(s, list)
  BY DEF WorkByKey
<1>2. ASSUME NEW k \in DOMAIN ByKey(s, list)
      PROVE  \E w \in WorkByKey(s, list) : k = w[1]
  <2> DEFINE w == <<k, Work(s, ByKey(s, list)[k])>>
  <2>1. w \in WorkByKey(s, list) /\ w[1] = k
    BY DEF WorkByKey
  <2>2. QED
    BY <2>1
<1>3. QED
  BY <1>1, <1>2

\* In a section: what differs and what is named, key by key.
LEMMA SectionIsExact ==
    ASSUME NEW old, SpecShape(old), NEW new, SpecShape(new), NEW s \in Plain,
           NEW k
    PROVE  LET o  == ByKey(s, old[s])
               n  == ByKey(s, new[s])
               ow == WorkByKey(s, old[s])
               nw == WorkByKey(s, new[s])
               differs == \E w \in (ow \ nw) \cup (nw \ ow) : w[1] = k
               named == \E a : <<s, k, a>> \in DiffSection(s, old, new)
           IN  /\ differs => named
               /\ named => \/ differs
                           \/ /\ k \in DOMAIN o /\ k \in DOMAIN n
                              /\ OnlyRespelled(s, o[k], n[k])
               /\ <<s, k, "added">> \in DiffSection(s, old, new)
                     <=> k \in DOMAIN n /\ k \notin DOMAIN o
<1> DEFINE o  == ByKey(s, old[s])
           n  == ByKey(s, new[s])
           ow == WorkByKey(s, old[s])
           nw == WorkByKey(s, new[s])
           differs == \E w \in (ow \ nw) \cup (nw \ ow) : w[1] = k
<1>1. DiffSection(s, old, new) =
          { <<s, x, "added">> : x \in DOMAIN n \ DOMAIN o }
          \cup { <<s, x, "removed">> : x \in DOMAIN o \ DOMAIN n }
          \cup { <<s, x, "changed">> :
                   x \in { y \in DOMAIN o \cap DOMAIN n : Detail(s, o[y], n[y]) # {} } }
  BY DEF DiffSection
<1>2. /\ ow = { <<x, Work(s, o[x])>> : x \in DOMAIN o }
      /\ nw = { <<x, Work(s, n[x])>> : x \in DOMAIN n }
  BY DEF WorkByKey
<1>3. /\ k \in DOMAIN o => EntryShape(s, o[k])
      /\ k \in DOMAIN n => EntryShape(s, n[k])
  BY EntriesByKey DEF Plain, Lists, Sections
<1> HIDE DEF o, n, ow, nw
<1>4. differs <=> \/ k \in DOMAIN n /\ k \notin DOMAIN o
                  \/ k \in DOMAIN o /\ k \notin DOMAIN n
                  \/ k \in DOMAIN o /\ k \in DOMAIN n /\ Work(s, o[k]) # Work(s, n[k])
  <2>1. /\ \A w \in ow \cup nw : w = <<w[1], w[2]>>
        /\ \A x, v : <<x, v>> \in ow <=> x \in DOMAIN o /\ v = Work(s, o[x])
        /\ \A x, v : <<x, v>> \in nw <=> x \in DOMAIN n /\ v = Work(s, n[x])
    BY <1>2
  <2>2. differs <=> \E v : ~(<<k, v>> \in ow <=> <<k, v>> \in nw)
    <3>1. ASSUME differs PROVE \E v : ~(<<k, v>> \in ow <=> <<k, v>> \in nw)
      <4>1. PICK w \in (ow \ nw) \cup (nw \ ow) : w[1] = k
        BY <3>1
      <4>2. w = <<k, w[2]>>
        BY <2>1, <4>1
      <4>3. QED
        BY <4>1, <4>2
    <3>2. ASSUME NEW v, ~(<<k, v>> \in ow <=> <<k, v>> \in nw) PROVE differs
      BY <3>2
    <3>3. QED
      BY <3>1, <3>2
  <2>3. differs <=>
            \E v : ~(   (k \in DOMAIN o /\ v = Work(s, o[k]))
                    <=> (k \in DOMAIN n /\ v = Work(s, n[k])))
    <3>1. \A v : /\ <<k, v>> \in ow <=> k \in DOMAIN o /\ v = Work(s, o[k])
                 /\ <<k, v>> \in nw <=> k \in DOMAIN n /\ v = Work(s, n[k])
      BY <2>1
    <3> HIDE DEF differs
    <3>2. QED
      BY <2>2, <3>1
  <2> HIDE DEF differs
  <2> DEFINE wo == Work(s, o[k])
             wn == Work(s, n[k])
  <2>4. differs <=> \E v : ~((k \in DOMAIN o /\ v = wo) <=> (k \in DOMAIN n /\ v = wn))
    BY <2>3
  <2> HIDE DEF wo, wn
  <2>5. differs <=> \/ k \in DOMAIN n /\ k \notin DOMAIN o
                    \/ k \in DOMAIN o /\ k \notin DOMAIN n
                    \/ k \in DOMAIN o /\ k \in DOMAIN n /\ wo # wn
    BY <2>4
  <2>6. QED
    BY <2>5 DEF wo, wn
<1>5. /\ <<s, k, "added">> \in DiffSection(s, old, new) <=> k \in DOMAIN n /\ k \notin DOMAIN o
      /\ <<s, k, "removed">> \in DiffSection(s, old, new) <=> k \in DOMAIN o /\ k \notin DOMAIN n
      /\ <<s, k, "changed">> \in DiffSection(s, old, new) <=>
            k \in DOMAIN o /\ k \in DOMAIN n /\ Detail(s, o[k], n[k]) # {}
      /\ \A a : <<s, k, a>> \in DiffSection(s, old, new) => a \in {"added", "removed", "changed"}
  BY <1>1
<1> DEFINE named == \E a : <<s, k, a>> \in DiffSection(s, old, new)
<1>6. named <=> \/ k \in DOMAIN n /\ k \notin DOMAIN o
                \/ k \in DOMAIN o /\ k \notin DOMAIN n
                \/ k \in DOMAIN o /\ k \in DOMAIN n /\ Detail(s, o[k], n[k]) # {}
  BY <1>5
<1>7. k \in DOMAIN o /\ k \in DOMAIN n =>
          /\ Detail(s, o[k], n[k]) = {} => Work(s, o[k]) = Work(s, n[k])
          /\ Work(s, o[k]) = Work(s, n[k]) /\ Detail(s, o[k], n[k]) # {}
                => OnlyRespelled(s, o[k], n[k])
  BY <1>3, DetailIsWork
<1> HIDE DEF differs, named
<1>8. /\ differs => named
      /\ named => \/ differs
                  \/ k \in DOMAIN o /\ k \in DOMAIN n /\ OnlyRespelled(s, o[k], n[k])
  BY <1>4, <1>6, <1>7
<1>9. QED
  BY <1>5, <1>8 DEF o, n, ow, nw, differs, named

(***************************************************************************)
(* The catalog, where the log has one key for the places of all types      *)
(***************************************************************************)
Registrations(list) == Put(list, Registration, RegistrationWork)

LEMMA RegistrationsAre ==
    ASSUME NEW list
    PROVE  Registrations(list) =
              { <<Registration(list[i]), RegistrationWork(list[i])>> :
                  i \in { j \in DOMAIN list :
                            \A k \in DOMAIN list :
                                Registration(list[k]) = Registration(list[j]) => k <= j } }
BY DEF Registrations, Put

LEMMA RegistrationNames ==
    ASSUME NEW c, NEW x
    PROVE  /\ NameOf("catalog", Registration(c)) = CatalogKey(c)
           /\ Registration(c) = Registration(x) => CatalogKey(c) = CatalogKey(x)
           /\ CatalogKey(c) = CatalogKey(x) /\ c.type = x.type => Registration(c) = Registration(x)
           /\ Registration(c) = Registration(x) => c.type = x.type
BY DEF NameOf, Registration, CatalogKey

\* What is registered is registered for an entry.
LEMMA RegisteredByEntry ==
    ASSUME NEW list, NEW w \in Registrations(list)
    PROVE  \E i \in DOMAIN list :
              /\ w = <<Registration(list[i]), RegistrationWork(list[i])>>
              /\ NameOf("catalog", w[1]) = CatalogKey(list[i])
              /\ \A k \in DOMAIN list :
                    Registration(list[k]) = Registration(list[i]) => k <= i
<1>1. PICK i \in DOMAIN list :
          /\ w = <<Registration(list[i]), RegistrationWork(list[i])>>
          /\ \A k \in DOMAIN list : Registration(list[k]) = Registration(list[i]) => k <= i
  BY RegistrationsAre
<1>2. w[1] = Registration(list[i])
  BY <1>1
<1>3. QED
  BY <1>1, <1>2, RegistrationNames

\* The last entry of a key is registered.
LEMMA LastIsRegistered ==
    ASSUME NEW list, IsList(list), NEW k \in DOMAIN ByKey("catalog", list)
    PROVE  LET c == ByKey("catalog", list)[k]
           IN  /\ c \in Items(list) /\ CatalogKey(c) = k
               /\ <<Registration(c), RegistrationWork(c)>> \in Registrations(list)
               /\ NameOf("catalog", Registration(c)) = k
<1>1. PICK i \in DOMAIN list :
          /\ ByKey("catalog", list)[k] = list[i] /\ KeyOf("catalog", list[i]) = k
          /\ \A j \in DOMAIN list : KeyOf("catalog", list[j]) = k => j <= i
  BY LastOfKey
<1>2. \A c : KeyOf("catalog", c) = CatalogKey(c)
  BY DEF KeyOf
<1>3. \A j \in DOMAIN list : Registration(list[j]) = Registration(list[i]) => j <= i
  BY <1>1, <1>2, RegistrationNames
<1>4. <<Registration(list[i]), RegistrationWork(list[i])>> \in Registrations(list)
  BY <1>3, RegistrationsAre
<1>5. QED
  BY <1>1, <1>2, <1>4, RegistrationNames DEF Items

\* Under a key there is a registration just when there is an entry.
LEMMA NamesRegistered ==
    ASSUME NEW list, IsList(list), NEW k
    PROVE  (\E w \in Registrations(list) : NameOf("catalog", w[1]) = k)
              <=> k \in DOMAIN ByKey("catalog", list)
<1>1. ASSUME NEW w \in Registrations(list), NameOf("catalog", w[1]) = k
      PROVE  k \in DOMAIN ByKey("catalog", list)
  <2>1. PICK i \in DOMAIN list : k = CatalogKey(list[i])
    BY <1>1, RegisteredByEntry
  <2>2. list[i] \in Items(list) /\ k = KeyOf("catalog", list[i])
    BY <2>1 DEF Items, KeyOf
  <2>3. QED
    BY <2>2 DEF ByKey
<1>2. ASSUME k \in DOMAIN ByKey("catalog", list)
      PROVE  \E w \in Registrations(list) : NameOf("catalog", w[1]) = k
  <2> DEFINE c == ByKey("catalog", list)[k]
             w == <<Registration(c), RegistrationWork(c)>>
  <2>1. w \in Registrations(list) /\ NameOf("catalog", Registration(c)) = k
    BY <1>2, LastIsRegistered
  <2>2. w[1] = Registration(c)
    OBVIOUS
  <2>3. QED
    BY <2>1, <2>2
<1>3. QED
  BY <1>1, <1>2

\* Under a key of one type there is one registration, of the last entry.
LEMMA OneRegistration ==
    ASSUME NEW list, IsList(list), NEW k \in DOMAIN ByKey("catalog", list),
           ~TwoTypes(list, k),
           NEW w \in Registrations(list), NameOf("catalog", w[1]) = k
    PROVE  w = <<Registration(ByKey("catalog", list)[k]),
                 RegistrationWork(ByKey("catalog", list)[k])>>
<1>1. PICK i \in DOMAIN list :
          /\ w = <<Registration(list[i]), RegistrationWork(list[i])>>
          /\ k = CatalogKey(list[i])
          /\ \A j \in DOMAIN list : Registration(list[j]) = Registration(list[i]) => j <= i
  BY RegisteredByEntry
<1>2. PICK l \in DOMAIN list :
          /\ ByKey("catalog", list)[k] = list[l] /\ KeyOf("catalog", list[l]) = k
          /\ \A j \in DOMAIN list : KeyOf("catalog", list[j]) = k => j <= l
  BY LastOfKey
<1>3. \A c : KeyOf("catalog", c) = CatalogKey(c)
  BY DEF KeyOf
<1>4. list[i] \in Items(list) /\ list[l] \in Items(list)
  BY DEF Items
<1>5. list[i].type = list[l].type
  BY <1>1, <1>2, <1>3, <1>4 DEF TwoTypes
<1>6. Registration(list[l]) = Registration(list[i])
  BY <1>1, <1>2, <1>3, <1>5, RegistrationNames
<1>7. i <= l /\ l <= i /\ i \in Int /\ l \in Int
  BY <1>1, <1>2, <1>3, <1>6 DEF IsList
<1>8. QED
  BY <1>1, <1>2, <1>7

LEMMA CatalogIsExact ==
    ASSUME NEW old, SpecShape(old), NEW new, SpecShape(new), NEW k
    PROVE  LET o  == ByKey("catalog", old.catalog)
               n  == ByKey("catalog", new.catalog)
               ow == Registrations(old.catalog)
               nw == Registrations(new.catalog)
               differs == \E w \in (ow \ nw) \cup (nw \ ow) : NameOf("catalog", w[1]) = k
               named == \E a : <<"catalog", k, a>> \in DiffSection("catalog", old, new)
           IN  /\ differs /\ ~named =>
                     <<"catalog", k>> \in Twins(old, new) \cup Renamed(old, new)
               /\ named /\ ~differs => <<"catalog", k>> \in Twins(old, new)
               /\ <<"catalog", k, "added">> \in DiffSection("catalog", old, new)
                     <=> k \in DOMAIN n /\ k \notin DOMAIN o
<1> DEFINE ol == old.catalog
           nl == new.catalog
           o  == ByKey("catalog", ol)
           n  == ByKey("catalog", nl)
           ow == Registrations(ol)
           nw == Registrations(nl)
           differs == \E w \in (ow \ nw) \cup (nw \ ow) : NameOf("catalog", w[1]) = k
           named == \E a : <<"catalog", k, a>> \in DiffSection("catalog", old, new)
<1>1. IsList(ol) /\ IsList(nl)
  BY DEF SpecShape, Sections
<1>2. DiffSection("catalog", old, new) =
          { <<"catalog", x, "added">> : x \in DOMAIN n \ DOMAIN o }
          \cup { <<"catalog", x, "removed">> : x \in DOMAIN o \ DOMAIN n }
          \cup { <<"catalog", x, "changed">> :
                   x \in { y \in DOMAIN o \cap DOMAIN n : CatalogDetail(o[y], n[y]) # {} } }
  BY DEF DiffSection, Detail
<1>3. /\ (\E w \in ow : NameOf("catalog", w[1]) = k) <=> k \in DOMAIN o
      /\ (\E w \in nw : NameOf("catalog", w[1]) = k) <=> k \in DOMAIN n
  BY <1>1, NamesRegistered
<1>4. k \in DOMAIN o =>
          /\ o[k] \in Items(ol) /\ CatalogKey(o[k]) = k
          /\ <<Registration(o[k]), RegistrationWork(o[k])>> \in ow
          /\ NameOf("catalog", Registration(o[k])) = k
  BY <1>1, LastIsRegistered
<1>5. k \in DOMAIN n =>
          /\ n[k] \in Items(nl) /\ CatalogKey(n[k]) = k
          /\ <<Registration(n[k]), RegistrationWork(n[k])>> \in nw
          /\ NameOf("catalog", Registration(n[k])) = k
  BY <1>1, LastIsRegistered
<1>6. k \in DOMAIN o /\ ~TwoTypes(ol, k) => \A w \in ow : NameOf("catalog", w[1]) = k =>
          w = <<Registration(o[k]), RegistrationWork(o[k])>>
  BY <1>1, OneRegistration
<1>7. k \in DOMAIN n /\ ~TwoTypes(nl, k) => \A w \in nw : NameOf("catalog", w[1]) = k =>
          w = <<Registration(n[k]), RegistrationWork(n[k])>>
  BY <1>1, OneRegistration
<1>8. /\ Twins(old, new) =
            { <<"catalog", CatalogKey(x)>> : x \in { c \in Items(ol) :
                /\ \E y \in Items(nl) : CatalogKey(y) = CatalogKey(c)
                /\ TwoTypes(ol, CatalogKey(c)) \/ TwoTypes(nl, CatalogKey(c)) } }
      /\ Renamed(old, new) =
            { <<"catalog", CatalogKey(x)>> : x \in { c \in Items(ol) :
                \E y \in Items(nl) :
                    /\ CatalogKey(y) = CatalogKey(c) /\ y.type = c.type /\ y.source = c.source
                    /\ y.version # c.version } }
  BY DEF Twins, Renamed
<1> HIDE DEF ol, nl, o, n, ow, nw
<1>9. k \in DOMAIN o /\ k \in DOMAIN n =>
          (CatalogDetail(o[k], n[k]) = {} <=> o[k].type = n[k].type /\ o[k].source = n[k].source)
  BY DEF CatalogDetail
<1>10. /\ <<"catalog", k, "added">> \in DiffSection("catalog", old, new)
             <=> k \in DOMAIN n /\ k \notin DOMAIN o
       /\ named <=> \/ k \in DOMAIN n /\ k \notin DOMAIN o
                    \/ k \in DOMAIN o /\ k \notin DOMAIN n
                    \/ k \in DOMAIN o /\ k \in DOMAIN n /\ CatalogDetail(o[k], n[k]) # {}
  BY <1>2
<1> HIDE DEF named
<1>11. CASE k \notin DOMAIN o \/ k \notin DOMAIN n
  <2>1. differs <=> named
    BY <1>3, <1>10, <1>11
  <2>2. QED
    BY <1>10, <2>1 DEF ol, nl, o, n, ow, nw, named
<1>12. CASE k \in DOMAIN o /\ k \in DOMAIN n /\ (TwoTypes(ol, k) \/ TwoTypes(nl, k))
  <2>1. <<"catalog", k>> \in Twins(old, new)
    BY <1>4, <1>5, <1>8, <1>12
  <2>2. QED
    BY <1>10, <2>1 DEF ol, nl, o, n, ow, nw, named
<1>13. CASE k \in DOMAIN o /\ k \in DOMAIN n /\ ~TwoTypes(ol, k) /\ ~TwoTypes(nl, k)
  <2> DEFINE ro == <<Registration(o[k]), RegistrationWork(o[k])>>
             rn == <<Registration(n[k]), RegistrationWork(n[k])>>
  <2>1. differs <=> ro # rn
    <3>1. /\ ro \in ow /\ NameOf("catalog", ro[1]) = k
          /\ rn \in nw /\ NameOf("catalog", rn[1]) = k
      BY <1>4, <1>5, <1>13
    <3>2. /\ \A w \in ow : NameOf("catalog", w[1]) = k => w = ro
          /\ \A w \in nw : NameOf("catalog", w[1]) = k => w = rn
      BY <1>6, <1>7, <1>13
    <3> HIDE DEF ro, rn
    <3>3. QED
      BY <3>1, <3>2
  <2>2. ro = rn <=> /\ o[k].type = n[k].type /\ o[k].version = n[k].version
                    /\ o[k].source = n[k].source
    <3>1. CatalogKey(o[k]) = CatalogKey(n[k])
      BY <1>4, <1>5, <1>13
    <3>2. o[k].type = n[k].type <=> Registration(o[k]) = Registration(n[k])
      BY <3>1, RegistrationNames
    <3>3. RegistrationWork(o[k]) = RegistrationWork(n[k])
              <=> o[k].version = n[k].version /\ o[k].source = n[k].source
      BY DEF RegistrationWork
    <3>4. QED
      BY <3>2, <3>3
  <2>3. named => differs
    BY <1>9, <1>10, <1>13, <2>1, <2>2
  <2>4. ASSUME differs, ~named PROVE <<"catalog", k>> \in Renamed(old, new)
    <3>1. /\ n[k].type = o[k].type /\ n[k].source = o[k].source
          /\ n[k].version # o[k].version
      BY <1>9, <1>10, <1>13, <2>1, <2>2, <2>4
    <3>2. QED
      BY <1>4, <1>5, <1>8, <1>13, <3>1
  <2>5. QED
    BY <1>10, <2>3, <2>4 DEF ol, nl, o, n, ow, nw, named
<1>14. QED
  BY <1>11, <1>12, <1>13

(***************************************************************************)
(* Specs                                                                   *)
(***************************************************************************)
Differs(before, new, s, k) ==
    \E w \in (WorkOf(before)[s] \ WorkOf(new)[s]) \cup (WorkOf(new)[s] \ WorkOf(before)[s]) :
        NameOf(s, w[1]) = k
\* Something is kept under a key.
Kept(x, s, k) == \E w \in WorkOf(x)[s] : k = NameOf(s, w[1])
Named(before, new, s, k) == \E a : <<s, k, a>> \in Changes(before, new)

\* The edits of which the log says too little, and too much.
Missed(before, new) == Twins(Known(before), new) \cup Renamed(Known(before), new)
Idled(before, new) == Twins(Known(before), new) \cup Idle(Known(before), new)

LEMMA OldShape ==
    ASSUME NEW before, before # Nil => SpecShape(before)
    PROVE  SpecShape(Known(before))
<1>1. SpecShape(NoSpec)
  <2>1. Items(<<>>) = {} /\ IsList(<<>>)
    BY DEF Items, IsList
  <2>2. \A s \in Sections \ {"settings"} : NoSpec[s] = <<>>
    BY DEF NoSpec, Sections
  <2>3. QED
    BY <2>1, <2>2 DEF SpecShape, NoSpec
<1>2. QED
  BY <1>1 DEF Known

\* The log, section by section.
LEMMA ChangesBySection ==
    ASSUME NEW before, NEW new
    PROVE  /\ \A c \in Changes(before, new) : c = <<c[1], c[2], c[3]>> /\ c[1] \in Sections
           /\ \A k, a : <<"settings", k, a>> \in Changes(before, new) <=>
                 k \in MovedKeys(Known(before).settings, new.settings) /\ a = "changed"
           /\ \A s \in Lists : \A k, a : <<s, k, a>> \in Changes(before, new) <=>
                 <<s, k, a>> \in DiffSection(s, Known(before), new)
<1> DEFINE moved == { <<"settings", f, "changed">> :
                        f \in MovedKeys(Known(before).settings, new.settings) }
           of(s) == DiffSection(s, Known(before), new)
<1>1. Changes(before, new) = moved \cup UNION { of(s) : s \in Lists }
  BY DEF Changes, Known, Lists
<1>2. \A c \in moved : c = <<c[1], c[2], c[3]>> /\ c[1] = "settings"
  OBVIOUS
<1>3. \A s : \A c \in of(s) : c = <<c[1], c[2], c[3]>> /\ c[1] = s
  BY DEF DiffSection
<1>4. \A k, a : <<"settings", k, a>> \in moved <=>
         k \in MovedKeys(Known(before).settings, new.settings) /\ a = "changed"
  OBVIOUS
<1> HIDE DEF moved, of
<1>5. \A c : c \in Changes(before, new) <=> c \in moved \/ \E s \in Lists : c \in of(s)
  BY <1>1
<1>6. \A s, k, a : <<s, k, a>>[1] = s
  OBVIOUS
<1>7. \A s \in Lists : \A k, a : <<s, k, a>> \in Changes(before, new) <=> <<s, k, a>> \in of(s)
  BY <1>2, <1>3, <1>5, <1>6 DEF Lists
<1>8. \A k, a : <<"settings", k, a>> \in Changes(before, new) <=> <<"settings", k, a>> \in moved
  BY <1>3, <1>5, <1>6 DEF Lists
<1>9. \A c \in Changes(before, new) : c = <<c[1], c[2], c[3]>> /\ c[1] \in Sections
  BY <1>2, <1>3, <1>5 DEF Lists, Sections
<1>10. QED
  BY <1>4, <1>7, <1>8, <1>9 DEF of

LEMMA SettingsAreExact ==
    ASSUME NEW before, before # Nil => SpecShape(before), NEW new, SpecShape(new), new # Nil,
           NEW k
    PROVE  /\ Differs(before, new, "settings", k) <=> Named(before, new, "settings", k)
           /\ Kept(new, "settings", k) <=> Kept(before, "settings", k)
<1> DEFINE o == Known(before).settings
           n == new.settings
           ow == WorkOf(before).settings
           nw == WorkOf(new).settings
<1>1. DOMAIN o = DOMAIN DefaultSettings /\ DOMAIN n = DOMAIN DefaultSettings
  BY OldShape DEF SpecShape
<1>2. /\ ow = { <<f, o[f]>> : f \in DOMAIN o }
      /\ nw = { <<f, n[f]>> : f \in DOMAIN n }
  BY DEF WorkOf, Known
<1>3. Named(before, new, "settings", k) <=> k \in MovedKeys(o, n)
  BY ChangesBySection DEF Named
<1>4. /\ Differs(before, new, "settings", k) <=> \E w \in (ow \ nw) \cup (nw \ ow) : w[1] = k
      /\ \A p : NameOf("settings", p) = p
  BY DEF Differs, NameOf
<1> HIDE DEF o, n, ow, nw
<1>5. k \in MovedKeys(o, n) <=> k \in DOMAIN DefaultSettings /\ o[k] # n[k]
  BY <1>1 DEF MovedKeys
<1>6. (\E w \in (ow \ nw) \cup (nw \ ow) : w[1] = k)
          <=> k \in DOMAIN DefaultSettings /\ o[k] # n[k]
  <2>1. ASSUME NEW w \in (ow \ nw) \cup (nw \ ow), w[1] = k
        PROVE  k \in DOMAIN DefaultSettings /\ o[k] # n[k]
    BY <1>1, <1>2, <2>1
  <2>2. ASSUME k \in DOMAIN DefaultSettings, o[k] # n[k]
        PROVE  \E w \in (ow \ nw) \cup (nw \ ow) : w[1] = k
    <3>1. <<k, o[k]>> \in ow /\ <<k, o[k]>> \notin nw
      BY <1>1, <1>2, <2>2
    <3>2. QED
      BY <3>1
  <2>3. QED
    BY <2>1, <2>2
<1>7. { w[1] : w \in ow } = DOMAIN DefaultSettings /\ { w[1] : w \in nw } = DOMAIN DefaultSettings
  <2>1. \A w \in ow \cup nw : w[1] \in DOMAIN DefaultSettings
    BY <1>1, <1>2
  <2>2. \A f \in DOMAIN DefaultSettings :
            <<f, o[f]>> \in ow /\ <<f, n[f]>> \in nw /\ \A v : <<f, v>>[1] = f
    BY <1>1, <1>2
  <2>3. \A f \in DOMAIN DefaultSettings : (\E w \in ow : f = w[1]) /\ (\E w \in nw : f = w[1])
    BY <2>2
  <2>4. QED
    BY <2>1, <2>3
<1>8. /\ Kept(new, "settings", k) <=> k \in { w[1] : w \in nw }
      /\ Kept(before, "settings", k) <=> k \in { w[1] : w \in ow }
  BY <1>4 DEF Kept, ow, nw
<1>9. QED
  BY <1>3, <1>4, <1>5, <1>6, <1>7, <1>8

LEMMA PlainListsAreExact ==
    ASSUME NEW before, before # Nil => SpecShape(before), NEW new, SpecShape(new), new # Nil,
           NEW s \in Plain, NEW k
    PROVE  /\ Differs(before, new, s, k) => Named(before, new, s, k)
           /\ Named(before, new, s, k) /\ ~Differs(before, new, s, k) =>
                 before # Nil /\ <<s, k>> \in Idled(before, new)
           /\ <<s, k, "added">> \in Changes(before, new) <=>
                 Kept(new, s, k) /\ ~Kept(before, s, k)
<1> DEFINE old == Known(before)
           o  == ByKey(s, old[s])
           n  == ByKey(s, new[s])
           ow == WorkByKey(s, old[s])
           nw == WorkByKey(s, new[s])
<1>0. s \in Lists /\ \A p : NameOf(s, p) = p
  BY DEF Plain, Lists, Sections, NameOf
<1>1. SpecShape(old) /\ SpecShape(Known(new)) /\ Known(new) = new
  BY OldShape DEF Known
<1>2. WorkOf(before)[s] = ow /\ WorkOf(new)[s] = nw
  BY <1>1, WorkOfSections
<1>3. { w[1] : w \in ow } = DOMAIN o /\ { w[1] : w \in nw } = DOMAIN n
  BY KeysOfWork
<1>4. \A a : <<s, k, a>> \in Changes(before, new) <=> <<s, k, a>> \in DiffSection(s, old, new)
  BY <1>0, ChangesBySection
<1>5. /\ Differs(before, new, s, k) <=> \E w \in (ow \ nw) \cup (nw \ ow) : w[1] = k
      /\ Named(before, new, s, k) <=> \E a : <<s, k, a>> \in DiffSection(s, old, new)
  BY <1>0, <1>2, <1>4 DEF Differs, Named
<1>6. /\ Differs(before, new, s, k) => Named(before, new, s, k)
      /\ Named(before, new, s, k) =>
            \/ Differs(before, new, s, k)
            \/ k \in DOMAIN o /\ k \in DOMAIN n /\ OnlyRespelled(s, o[k], n[k])
      /\ <<s, k, "added">> \in DiffSection(s, old, new) <=> k \in DOMAIN n /\ k \notin DOMAIN o
  BY <1>1, <1>5, SectionIsExact
<1>7. ASSUME k \in DOMAIN o, k \in DOMAIN n, OnlyRespelled(s, o[k], n[k])
      PROVE  before # Nil /\ <<s, k>> \in Idled(before, new)
  <2>1. /\ o[k] \in Items(old[s]) /\ KeyOf(s, o[k]) = k
        /\ n[k] \in Items(new[s]) /\ KeyOf(s, n[k]) = k
    BY <1>0, <1>1, <1>7, EntriesByKey
  <2>2. before # Nil
    BY <2>1 DEF Known, NoSpec, Items, Plain
  <2> HIDE DEF old, o, n
  <2>3. <<s, k>> \in { <<s, KeyOf(s, x)>> : x \in { e \in Items(old[s]) :
                \E y \in Items(new[s]) : KeyOf(s, e) = KeyOf(s, y) /\ OnlyRespelled(s, e, y) } }
    BY <1>7, <2>1
  <2>4. <<s, k>> \in Idle(old, new)
    BY <2>3 DEF Idle, Plain
  <2>5. QED
    BY <2>2, <2>4 DEF Idled, old
<1>8. <<s, k, "added">> \in Changes(before, new) <=> k \in DOMAIN n /\ k \notin DOMAIN o
  BY <1>4, <1>6
<1> HIDE DEF old, o, n, ow, nw
<1>9. <<s, k, "added">> \in Changes(before, new) <=> Kept(new, s, k) /\ ~Kept(before, s, k)
  <2>1. Kept(new, s, k) <=> k \in DOMAIN n
    BY <1>0, <1>2, <1>3 DEF Kept
  <2>2. Kept(before, s, k) <=> k \in DOMAIN o
    BY <1>0, <1>2, <1>3 DEF Kept
  <2>3. QED
    BY <1>8, <2>1, <2>2
<1>10. QED
  BY <1>6, <1>7, <1>9

LEMMA CatalogLogIsExact ==
    ASSUME NEW before, before # Nil => SpecShape(before), NEW new, SpecShape(new), new # Nil,
           NEW k
    PROVE  /\ Differs(before, new, "catalog", k) /\ ~Named(before, new, "catalog", k) =>
                 before # Nil /\ <<"catalog", k>> \in Missed(before, new)
           /\ Named(before, new, "catalog", k) /\ ~Differs(before, new, "catalog", k) =>
                 before # Nil /\ <<"catalog", k>> \in Idled(before, new)
           /\ <<"catalog", k, "added">> \in Changes(before, new) <=>
                 Kept(new, "catalog", k) /\ ~Kept(before, "catalog", k)
<1> DEFINE old == Known(before)
           ow == Registrations(old.catalog)
           nw == Registrations(new.catalog)
<1>1. SpecShape(old) /\ Known(new) = new
  BY OldShape DEF Known
<1>2. IsList(old.catalog) /\ IsList(new.catalog)
  BY <1>1 DEF SpecShape, Sections
<1>3. WorkOf(before).catalog = ow /\ WorkOf(new).catalog = nw
  BY <1>1 DEF WorkOf, Registrations
<1>4. \A a : <<"catalog", k, a>> \in Changes(before, new)
                <=> <<"catalog", k, a>> \in DiffSection("catalog", old, new)
  BY ChangesBySection DEF Lists, Sections
<1>5. before = Nil => Twins(old, new) = {} /\ Renamed(old, new) = {}
  <2>1. before = Nil => Items(old.catalog) = {}
    BY DEF Known, NoSpec, Items
  <2>2. QED
    BY <2>1 DEF Twins, Renamed
<1>6. /\ Differs(before, new, "catalog", k)
            <=> \E w \in (ow \ nw) \cup (nw \ ow) : NameOf("catalog", w[1]) = k
      /\ Named(before, new, "catalog", k)
            <=> \E a : <<"catalog", k, a>> \in DiffSection("catalog", old, new)
  BY <1>3, <1>4 DEF Differs, Named
<1>7. /\ Differs(before, new, "catalog", k) /\ ~Named(before, new, "catalog", k) =>
            <<"catalog", k>> \in Twins(old, new) \cup Renamed(old, new)
      /\ Named(before, new, "catalog", k) /\ ~Differs(before, new, "catalog", k) =>
            <<"catalog", k>> \in Twins(old, new)
      /\ <<"catalog", k, "added">> \in DiffSection("catalog", old, new)
            <=> /\ k \in DOMAIN ByKey("catalog", new.catalog)
                /\ k \notin DOMAIN ByKey("catalog", old.catalog)
  BY <1>1, <1>6, CatalogIsExact
<1>8. /\ Kept(new, "catalog", k) <=> k \in DOMAIN ByKey("catalog", new.catalog)
      /\ Kept(before, "catalog", k) <=> k \in DOMAIN ByKey("catalog", old.catalog)
  BY <1>2, <1>3, NamesRegistered DEF Kept
<1>9. QED
  BY <1>3, <1>4, <1>5, <1>7, <1>8 DEF Missed, Idled

\* The log of an edit, for any two specs.
LEMMA LogsOfSpecs ==
    ASSUME NEW before, before # Nil => SpecShape(before), NEW new, SpecShape(new), new # Nil
    PROVE  LogIsExact(before, new)
<1> DEFINE named == { <<c[1], c[2]>> : c \in Changes(before, new) }
           added == { <<c[1], c[2]>> : c \in { x \in Changes(before, new) : x[3] = "added" } }
           moved == Moved(before, new)
           missed == Missed(before, new)
           idle == Idled(before, new)
<1>1. \A p \in moved : p = <<p[1], p[2]>> /\ p[1] \in Sections
  BY DEF Moved, Places
<1>2. \A s \in Sections : \A k : <<s, k>> \in moved <=> Differs(before, new, s, k)
  BY DEF Moved, Places, Differs
<1>3. \A c \in Changes(before, new) : c = <<c[1], c[2], c[3]>> /\ c[1] \in Sections
  BY ChangesBySection
<1>4. \A p \in named \cup added : p = <<p[1], p[2]>> /\ p[1] \in Sections
  BY <1>3
<1>5. \A s, k : <<s, k>> \in named <=> Named(before, new, s, k)
  BY <1>3 DEF Named
<1>6. \A s, k : <<s, k>> \in added <=> <<s, k, "added">> \in Changes(before, new)
  BY <1>3
<1>7. \A x, s, k : s \in Sections =>
          (<<s, k>> \in Places(WorkOf(x)) <=> Kept(x, s, k))
  BY DEF Places, Kept
<1>8. \A x : \A p \in Places(WorkOf(x)) : p = <<p[1], p[2]>> /\ p[1] \in Sections
  BY DEF Places
<1>9. Sections = Plain \cup {"settings", "catalog"}
  BY DEF Plain, Sections
<1>10. \A k : <<"settings", k, "added">> \notin Changes(before, new)
  BY ChangesBySection
<1>11. LogIsExact(before, new) =
          /\ moved \ named \subseteq missed
          /\ named \ moved \subseteq idle
          /\ before = Nil => named = moved
          /\ added = Places(WorkOf(new)) \ Places(WorkOf(before))
  BY DEF LogIsExact, Missed, Idled
<1> HIDE DEF named, added, moved, missed, idle
<1>12. ASSUME NEW s \in Sections, NEW k
       PROVE  /\ Differs(before, new, s, k) /\ ~Named(before, new, s, k) =>
                     before # Nil /\ <<s, k>> \in missed
              /\ Named(before, new, s, k) /\ ~Differs(before, new, s, k) =>
                     before # Nil /\ <<s, k>> \in idle
              /\ <<s, k, "added">> \in Changes(before, new) <=>
                    Kept(new, s, k) /\ ~Kept(before, s, k)
  <2>1. CASE s = "settings"
    BY <1>10, <2>1, SettingsAreExact
  <2>2. CASE s = "catalog"
    BY <2>2, CatalogLogIsExact DEF missed, idle
  <2>3. CASE s \in Plain
    BY <2>3, PlainListsAreExact DEF idle
  <2>4. QED
    BY <1>9, <2>1, <2>2, <2>3
<1> DEFINE places(x) == Places(WorkOf(x))
<1>13. ASSUME NEW p, p \in moved \cup named \cup added \cup places(before) \cup places(new)
       PROVE  \E s \in Sections : \E k : p = <<s, k>>
  BY <1>1, <1>4, <1>8, <1>13
<1>14. ASSUME NEW s \in Sections, NEW k
       PROVE  /\ <<s, k>> \in moved \ named => before # Nil /\ <<s, k>> \in missed
              /\ <<s, k>> \in named \ moved => before # Nil /\ <<s, k>> \in idle
              /\ <<s, k>> \in added <=> <<s, k>> \in places(new) /\ <<s, k>> \notin places(before)
  BY <1>2, <1>5, <1>6, <1>7, <1>12
<1> HIDE DEF places
<1>15. \A p \in moved \ named : before # Nil /\ p \in missed
  BY <1>13, <1>14
<1>16. \A p \in named \ moved : before # Nil /\ p \in idle
  BY <1>13, <1>14
<1>17. added = places(new) \ places(before)
  BY <1>13, <1>14
<1>18. before = Nil => named = moved
  BY <1>15, <1>16
<1>19. QED
  BY <1>11, <1>15, <1>16, <1>17, <1>18 DEF places

\* What a pass says of an edit is the work the edit causes (Diff), with the
\* exceptions LogIsExact names, for specs of any size.
THEOREM LogsTellTheWork == Spec => []LogTellsTheWork
<1>1. LogsAreExact
  BY LogAssumption, LogsOfSpecs DEF LogsAreExact
<1>2. LogTellsTheWork
  BY <1>1 DEF LogTellsTheWork
<1>3. QED
  BY <1>2, PTL
=============================================================================
