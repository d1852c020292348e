--------------------------- MODULE SpecRulesProofs ---------------------------
(***************************************************************************)
(* Accepted entries stay out of each other's way, in documents of any size *)
(* with paths of any length.                                               *)
(***************************************************************************)
EXTENDS SpecRules, SequenceTheorems, WellFoundedInduction, TLAPS

(***************************************************************************)
(* Paths                                                                   *)
(***************************************************************************)

\* A prefix, segment by segment.
LEMMA PrefixBySegment ==
    ASSUME NEW s \in PathTexts, NEW t \in PathTexts
    PROVE  IsPrefix(s, t) <=> Len(s) <= Len(t) /\ \A i \in 1..Len(s) : s[i] = t[i]
<1>1. Len(s) \in Nat /\ Len(t) \in Nat
  BY LenProperties DEF PathTexts
<1>2. SubSeq(s, 1, Len(s)) = s
  BY SubSeqFull DEF PathTexts
<1>3. ASSUME Len(s) <= Len(t)
      PROVE  /\ SubSeq(t, 1, Len(s)) \in Seq(Segments)
             /\ Len(SubSeq(t, 1, Len(s))) = Len(s)
             /\ \A i \in 1..Len(s) : SubSeq(t, 1, Len(s))[i] = t[i]
  <2>1. \A i \in 1..Len(s) : t[i] \in Segments
    BY <1>1, <1>3, ElementOfSeq DEF PathTexts
  <2>2. /\ SubSeq(t, 1, Len(s)) \in Seq(Segments)
        /\ Len(SubSeq(t, 1, Len(s))) = IF 1 <= Len(s) THEN Len(s) - 1 + 1 ELSE 0
        /\ \A i \in 1..(Len(s) - 1 + 1) : SubSeq(t, 1, Len(s))[i] = t[1 + i - 1]
    BY <1>1, <2>1, SubSeqProperties
  <2>3. QED
    BY <1>1, <2>2
<1>4. ASSUME Len(s) <= Len(t), \A i \in 1..Len(s) : s[i] = t[i]
      PROVE  s = SubSeq(t, 1, Len(s))
  BY <1>3, <1>4, SeqEqual DEF PathTexts
<1>5. QED
  BY <1>2, <1>3, <1>4 DEF IsPrefix

\* A name for what the provers otherwise take apart segment by segment.
Joined(s, t) == s \o t

LEMMA JoinedPaths ==
    ASSUME NEW s \in PathTexts, NEW t \in PathTexts
    PROVE  /\ s \o t \in PathTexts
           /\ Len(s) \in Nat /\ Len(t) \in Nat
           /\ Len(s \o t) = Len(s) + Len(t)
           /\ \A i \in 1..Len(s) : (s \o t)[i] = s[i]
           /\ \A i \in 1..Len(t) : (s \o t)[Len(s) + i] = t[i]
<1>1. Len(s) \in Nat /\ Len(t) \in Nat
  BY LenProperties DEF PathTexts
<1>2. /\ s \o t \in Seq(Segments)
      /\ Len(s \o t) = Len(s) + Len(t)
      /\ \A i \in 1..(Len(s) + Len(t)) :
            (s \o t)[i] = IF i <= Len(s) THEN s[i] ELSE t[i - Len(s)]
  BY ConcatProperties DEF PathTexts
<1>3. \A i \in 1..Len(t) : Len(s) + i \in 1..(Len(s) + Len(t)) /\ ~(Len(s) + i <= Len(s))
                             /\ Len(s) + i - Len(s) = i
  BY <1>1
<1>4. QED
  BY <1>1, <1>2, <1>3 DEF PathTexts

\* Of two paths that are joined to prefixes of each other, the first parts are
\* prefixes of each other.
LEMMA PrefixesCompare ==
    ASSUME NEW s \in PathTexts, NEW t \in PathTexts, NEW u \in PathTexts, NEW v \in PathTexts,
           IsPrefix(s \o t, u \o v)
    PROVE  IsPrefix(s, u) \/ IsPrefix(u, s)
<1> DEFINE st == s \o t
           uv == u \o v
<1>0. IsPrefix(st, uv)
  OBVIOUS
<1>1. /\ Len(s) \in Nat /\ Len(t) \in Nat /\ Len(u) \in Nat /\ Len(v) \in Nat
      /\ Len(st) = Len(s) + Len(t)
      /\ st \in PathTexts /\ uv \in PathTexts
      /\ \A i \in 1..Len(s) : st[i] = s[i]
      /\ \A i \in 1..Len(u) : uv[i] = u[i]
  BY JoinedPaths
<1> HIDE DEF st, uv
<1>2. \A i \in 1..(Len(s) + Len(t)) : st[i] = uv[i]
  BY <1>0, <1>1, PrefixBySegment
<1>3. \A i \in 1..Len(s) : i <= Len(u) => s[i] = u[i]
  BY <1>1, <1>2
<1>4. CASE Len(s) <= Len(u)
  <2>1. \A i \in 1..Len(s) : s[i] = u[i]
    BY <1>1, <1>3, <1>4
  <2>2. QED
    BY <1>4, <2>1, PrefixBySegment
<1>5. CASE ~(Len(s) <= Len(u))
  <2>1. Len(u) <= Len(s) /\ \A i \in 1..Len(u) : u[i] = s[i]
    BY <1>1, <1>3, <1>5
  <2>2. QED
    BY <2>1, PrefixBySegment
<1>6. QED
  BY <1>4, <1>5

\* A common beginning can be left off.
LEMMA PrefixesCancel ==
    ASSUME NEW s \in PathTexts, NEW t \in PathTexts, NEW v \in PathTexts,
           IsPrefix(s \o t, s \o v)
    PROVE  IsPrefix(t, v)
<1> DEFINE st == s \o t
           sv == s \o v
<1>0. IsPrefix(st, sv)
  OBVIOUS
<1>1. /\ Len(s) \in Nat /\ Len(t) \in Nat /\ Len(v) \in Nat
      /\ Len(st) = Len(s) + Len(t) /\ Len(sv) = Len(s) + Len(v)
      /\ st \in PathTexts /\ sv \in PathTexts
      /\ \A i \in 1..Len(t) : st[Len(s) + i] = t[i]
      /\ \A i \in 1..Len(v) : sv[Len(s) + i] = v[i]
  BY JoinedPaths
<1> HIDE DEF st, sv
<1>2. /\ Len(s) + Len(t) <= Len(s) + Len(v)
      /\ \A i \in 1..(Len(s) + Len(t)) : st[i] = sv[i]
  BY <1>0, <1>1, PrefixBySegment
<1>3. Len(t) <= Len(v) /\ \A i \in 1..Len(t) : Len(s) + i \in 1..(Len(s) + Len(t))
  BY <1>1, <1>2
<1>4. ASSUME NEW i \in 1..Len(t) PROVE t[i] = v[i]
  <2>1. i \in 1..Len(v)
    BY <1>1, <1>3
  <2>2. t[i] = st[Len(s) + i] /\ v[i] = sv[Len(s) + i]
    BY <1>1, <2>1
  <2>3. st[Len(s) + i] = sv[Len(s) + i]
    BY <1>2, <1>3
  <2>4. QED
    BY <2>2, <2>3
<1>5. QED
  BY <1>3, <1>4, PrefixBySegment

\* Paths with last segments of their own agree in the rest and in these.
LEMMA LastSegments ==
    ASSUME NEW s \in PathTexts, NEW t \in PathTexts, NEW n \in PathTexts, NEW m \in PathTexts,
           Len(n) = 1, Len(m) = 1, Joined(s, n) = Joined(t, m)
    PROVE  s = t /\ n = m
<1> DEFINE sn == s \o n
           tm == t \o m
<1>0. sn = tm
  BY DEF Joined
<1>1. /\ Len(s) \in Nat /\ Len(sn) = Len(s) + Len(n)
      /\ \A i \in 1..Len(s) : sn[i] = s[i]
      /\ \A i \in 1..Len(n) : sn[Len(s) + i] = n[i]
  BY JoinedPaths
<1>2. /\ Len(t) \in Nat /\ Len(tm) = Len(t) + Len(m)
      /\ \A i \in 1..Len(t) : tm[i] = t[i]
      /\ \A i \in 1..Len(m) : tm[Len(t) + i] = m[i]
  BY JoinedPaths
<1> HIDE DEF sn, tm
<1>3. Len(s) = Len(t)
  BY <1>0, <1>1, <1>2
<1>4. \A i \in 1..Len(s) : s[i] = t[i]
  BY <1>0, <1>1, <1>2, <1>3
<1>5. \A i \in 1..Len(n) : n[i] = m[i]
  BY <1>0, <1>1, <1>2, <1>3
<1>6. QED
  BY <1>3, <1>4, <1>5, SeqEqual DEF PathTexts

(***************************************************************************)
(* Normal forms                                                            *)
(***************************************************************************)
Clean(p) == p # <<>> => p[1] # Blank /\ p[Len(p)] # Blank

LEMMA SmallestSegment ==
    ASSUME NEW S \in SUBSET Nat, S # {}
    PROVE  LET first == CHOOSE i \in S : \A j \in S : i <= j
           IN  first \in S /\ \A j \in S : first <= j
<1>1. PICK i \in S : \A j \in S : ~(<<j, i>> \in OpToRel(<, Nat))
  BY NatLessThanWellFounded, WFMin
<1>2. \A j \in S : ~(j < i)
  BY <1>1 DEF OpToRel
<1>3. \A j \in S : i <= j
  BY <1>2
<1>4. QED
  BY <1>3

LEMMA LargestSegment ==
    ASSUME NEW n \in Nat, NEW S \in SUBSET (1..n), S # {}
    PROVE  LET last == CHOOSE i \in S : \A j \in S : j <= i
           IN  last \in S /\ \A j \in S : j <= last
<1> DEFINE below == { n - i : i \in S }
<1>1. \A i \in S : i \in Nat /\ i <= n /\ n - i \in Nat
  OBVIOUS
<1>2. below \in SUBSET Nat
  BY <1>1
<1>3. below # {}
  OBVIOUS
<1>4. PICK least \in below : \A k \in below : least <= k
  <2>1. LET first == CHOOSE i \in below : \A j \in below : i <= j
        IN  first \in below /\ \A j \in below : first <= j
    BY <1>2, <1>3, SmallestSegment
  <2>2. QED
    BY <2>1
<1>5. PICK i \in S : least = n - i
  BY <1>4
<1>6. ASSUME NEW j \in S PROVE j <= i
  <2>1. n - j \in below
    OBVIOUS
  <2>2. n - i <= n - j
    BY <1>4, <1>5, <2>1
  <2>3. QED
    BY <1>1, <2>2
<1>7. QED
  BY <1>6

\* A trimmed path is a path, without slashes around it.
LEMMA TrimCleans ==
    ASSUME NEW p \in PathTexts
    PROVE  Trim(p) \in PathTexts /\ Clean(Trim(p))
<1> DEFINE full  == { i \in DOMAIN p : p[i] # Blank }
           first == CHOOSE i \in full : \A j \in full : i <= j
           last  == CHOOSE i \in full : \A j \in full : j <= i
<1>1. Len(p) \in Nat /\ DOMAIN p = 1..Len(p) /\ \A i \in 1..Len(p) : p[i] \in Segments
  BY LenProperties, ElementOfSeq DEF PathTexts
<1>2. CASE full = {}
  <2>1. Trim(p) = <<>>
    BY <1>2 DEF Trim
  <2>2. QED
    BY <2>1, EmptySeq DEF PathTexts, Clean
<1>3. CASE full # {}
  <2>1. Trim(p) = SubSeq(p, first, last)
    BY <1>3 DEF Trim
  <2>2. full \in SUBSET Nat
    BY <1>1
  <2>3. first \in full /\ \A j \in full : first <= j
    BY <1>3, <2>2, SmallestSegment
  <2>4. last \in full /\ \A j \in full : j <= last
    BY <1>1, <1>3, <2>2, LargestSegment
  <2>5. /\ first \in 1..Len(p) /\ last \in 1..Len(p) /\ first <= last
        /\ p[first] # Blank /\ p[last] # Blank
    BY <1>1, <2>3, <2>4
  <2> HIDE DEF full, first, last
  <2>6. \A i \in first..last : p[i] \in Segments
    BY <1>1, <2>5
  <2>7. /\ SubSeq(p, first, last) \in Seq(Segments)
        /\ Len(SubSeq(p, first, last)) = last - first + 1
        /\ \A i \in 1..(last - first + 1) : SubSeq(p, first, last)[i] = p[first + i - 1]
    BY <2>5, <2>6, SubSeqProperties
  <2>8. QED
    BY <1>1, <2>1, <2>5, <2>7 DEF PathTexts, Clean
<1>4. QED
  BY <1>2, <1>3

\* And a path without slashes around it is left alone.
LEMMA CleanIsTrimmed ==
    ASSUME NEW p \in PathTexts, Clean(p)
    PROVE  Trim(p) = p
<1> DEFINE full  == { i \in DOMAIN p : p[i] # Blank }
           first == CHOOSE i \in full : \A j \in full : i <= j
           last  == CHOOSE i \in full : \A j \in full : j <= i
<1>1. Len(p) \in Nat /\ DOMAIN p = 1..Len(p)
  BY LenProperties DEF PathTexts
<1>2. CASE p = <<>>
  <2>1. full = {}
    BY <1>2
  <2>2. QED
    BY <1>2, <2>1 DEF Trim
<1>3. CASE p # <<>>
  <2>1. Len(p) # 0
    BY <1>3, EmptySeq DEF PathTexts
  <2>2. 1 \in full /\ Len(p) \in full /\ full \subseteq 1..Len(p)
    BY <1>1, <1>3, <2>1 DEF Clean
  <2>3. /\ first \in 1..Len(p) /\ first <= 1
        /\ last \in 1..Len(p) /\ Len(p) <= last
    <3>1. /\ 1 \in full /\ \A j \in full : 1 <= j
          /\ Len(p) \in full /\ \A j \in full : j <= Len(p)
      BY <1>1, <2>2
    <3>2. first \in full /\ \A j \in full : first <= j
      BY <3>1
    <3>3. last \in full /\ \A j \in full : j <= last
      BY <3>1
    <3>4. QED
      BY <2>2, <3>1, <3>2, <3>3
  <2>4. Trim(p) = SubSeq(p, first, last)
    BY <2>2 DEF Trim
  <2> HIDE DEF full, first, last
  <2>5. first = 1
    BY <1>1, <2>3
  <2>6. last = Len(p)
    <3>1. \A n \in Nat : \A i \in 1..n : n <= i => i = n
      OBVIOUS
    <3>2. QED
      BY <1>1, <2>3, <3>1
  <2>7. QED
    BY <2>4, <2>5, <2>6, SubSeqFull DEF PathTexts
<1>4. QED
  BY <1>2, <1>3

LEMMA TrimTwice ==
    ASSUME NEW p \in PathTexts
    PROVE  Trim(Trim(p)) = Trim(p)
BY TrimCleans, CleanIsTrimmed

LEMMA DefaultsAreClean ==
    ASSUME NEW name \in {"roles", "config"}
    PROVE  <<name>> \in PathTexts /\ Clean(<<name>>) /\ <<name>> # <<>> /\ Len(<<name>>) = 1
<1>1. name \in Segments
  BY SegmentAssumption
<1>2. <<name>> \in Seq(Segments)
  BY <1>1
<1>3. name # Blank
  BY DEF Blank
<1>4. QED
  BY <1>2, <1>3 DEF PathTexts, Clean

\* What is accepted below a mount is a clean path, normal after one pass.
LEMMA SubPathIsNormal ==
    ASSUME NEW p \in PathTexts, ValidSubPath(p),
           NEW default \in {DefaultRolesPath, DefaultEngineConfigPath}
    PROVE  /\ SubPath(p, default) \in PathTexts
           /\ SubPath(SubPath(p, default), default) = SubPath(p, default)
<1>1. default \in PathTexts /\ Clean(default) /\ default # <<>>
  BY DefaultsAreClean DEF DefaultRolesPath, DefaultEngineConfigPath
<1>2. CASE p = <<>>
  <2>1. SubPath(p, default) = default
    BY <1>2 DEF SubPath
  <2>2. Trim(default) = default
    BY <1>1, CleanIsTrimmed
  <2>3. QED
    BY <1>1, <2>1, <2>2 DEF SubPath
<1>3. CASE p # <<>>
  <2>1. SubPath(p, default) = Trim(p) /\ Trim(p) # <<>>
    BY <1>3 DEF SubPath, ValidSubPath
  <2>2. QED
    BY <2>1, TrimCleans, TrimTwice DEF SubPath
<1>4. QED
  BY <1>2, <1>3

(***************************************************************************)
(* Accepted documents                                                      *)
(***************************************************************************)
LEMMA ParsedMounts ==
    ASSUME NEW d \in RuleSamples
    PROVE  Parsed(d).mounts = d.mounts
BY SampleAssumption DEF Parsed

\* A role of what Parse returns is one of the document, in normal form.
LEMMA ParsedRoles ==
    ASSUME NEW d \in RuleSamples, Validates(d), NEW q \in Items(Parsed(d).roles)
    PROVE  \E r \in Items(d.roles) :
              /\ Trim(q.mount) = Trim(r.mount) /\ Trim(r.mount) \in PathTexts
              /\ q.name = r.name /\ q.name \in PathTexts
              /\ Len(q.name) = 1 /\ q.name # <<"config">>
              /\ q.rolesPath = SubPath(r.rolesPath, DefaultRolesPath)
              /\ SubPath(q.rolesPath, DefaultRolesPath) = q.rolesPath
              /\ q.rolesPath \in PathTexts
<1>1. Parsed(d).roles = [i \in DOMAIN d.roles |-> ParsedRole(d.roles[i])]
  BY SampleAssumption DEF Parsed
<1>2. PICK i \in DOMAIN d.roles : q = Parsed(d).roles[i]
  BY <1>1 DEF Items
<1>3. d.roles[i] \in Items(d.roles)
  BY DEF Items
<1>4. d.roles[i] \in [mount : PathTexts, rolesPath : PathTexts, name : PathTexts]
  BY <1>3, SampleAssumption
<1>5. /\ q.mount = d.roles[i].mount /\ q.name = d.roles[i].name
      /\ q.rolesPath = SubPath(d.roles[i].rolesPath, DefaultRolesPath)
  BY <1>1, <1>2, <1>4 DEF ParsedRole
<1>6. /\ Len(d.roles[i].name) = 1 /\ d.roles[i].name # <<"config">>
      /\ ValidSubPath(d.roles[i].rolesPath)
  BY <1>3 DEF Validates, ValidRoles
<1>7. /\ SubPath(d.roles[i].rolesPath, DefaultRolesPath) \in PathTexts
      /\ SubPath(q.rolesPath, DefaultRolesPath) = q.rolesPath
  BY <1>4, <1>5, <1>6, SubPathIsNormal
<1>8. Trim(d.roles[i].mount) \in PathTexts
  BY <1>4, TrimCleans
<1>9. QED
  BY <1>3, <1>4, <1>5, <1>6, <1>7, <1>8

\* The same of the engine configs, which keep their places in the list.
LEMMA ParsedEngineConfigs ==
    ASSUME NEW d \in RuleSamples, Validates(d)
    PROVE  /\ DOMAIN Parsed(d).engineConfigs = DOMAIN d.engineConfigs
           /\ \A i \in DOMAIN d.engineConfigs :
                 LET e == d.engineConfigs[i]
                     f == Parsed(d).engineConfigs[i]
                 IN  /\ Trim(f.mount) = Trim(e.mount) /\ Trim(e.mount) \in PathTexts
                     /\ EnginePath(f) = EnginePath(e) /\ EnginePath(e) \in PathTexts
<1>1. Parsed(d).engineConfigs =
          [i \in DOMAIN d.engineConfigs |-> ParsedEngineConfig(d.engineConfigs[i])]
  BY SampleAssumption DEF Parsed
<1>2. ASSUME NEW i \in DOMAIN d.engineConfigs
      PROVE  LET e == d.engineConfigs[i]
                 f == Parsed(d).engineConfigs[i]
             IN  /\ Trim(f.mount) = Trim(e.mount) /\ Trim(e.mount) \in PathTexts
                 /\ EnginePath(f) = EnginePath(e) /\ EnginePath(e) \in PathTexts
  <2> DEFINE e == d.engineConfigs[i]
             f == Parsed(d).engineConfigs[i]
  <2>1. e \in Items(d.engineConfigs)
    BY DEF Items
  <2>2. /\ e = [mount |-> e.mount, path |-> e.path, data |-> e.data,
                secretRef |-> e.secretRef]
        /\ e.mount \in PathTexts /\ e.path \in PathTexts
    BY <2>1, SampleAssumption
  <2>3. /\ f.mount = Trim(e.mount)
        /\ f.path = SubPath(e.path, DefaultEngineConfigPath)
    BY <1>1, <2>2 DEF ParsedEngineConfig
  <2>4. ValidSubPath(e.path)
    BY DEF Validates, ValidEngineConfigs
  <2> HIDE DEF e, f
  <2>5. Trim(f.mount) = Trim(e.mount) /\ Trim(e.mount) \in PathTexts
    BY <2>2, <2>3, TrimTwice, TrimCleans
  <2>6. EnginePath(f) = EnginePath(e) /\ EnginePath(e) \in PathTexts
    BY <2>2, <2>3, <2>4, SubPathIsNormal DEF EnginePath
  <2>7. QED
    BY <2>5, <2>6 DEF e, f
<1>3. QED
  BY <1>1, <1>2

\* No two engine configs have one place.
LEMMA EngineConfigsApart ==
    ASSUME NEW d \in RuleSamples, Validates(d),
           NEW i \in DOMAIN Parsed(d).engineConfigs, NEW j \in DOMAIN Parsed(d).engineConfigs,
           EnginePlace(Parsed(d).engineConfigs[i]) = EnginePlace(Parsed(d).engineConfigs[j])
    PROVE  i = j
<1>1. i \in 1..Len(d.engineConfigs) /\ j \in 1..Len(d.engineConfigs)
      /\ Len(d.engineConfigs) \in Nat /\ DOMAIN d.engineConfigs = 1..Len(d.engineConfigs)
  BY ParsedEngineConfigs, SampleAssumption
<1>2. EnginePlace(d.engineConfigs[i]) = EnginePlace(d.engineConfigs[j])
  BY <1>1, ParsedEngineConfigs DEF EnginePlace
<1>3. \A k \in 1..Len(d.engineConfigs) : \A l \in 1..(k - 1) :
          EnginePlace(d.engineConfigs[l]) # EnginePlace(d.engineConfigs[k])
  BY <1>1 DEF Validates, ValidEngineConfigs
<1>4. ~(i < j) /\ ~(j < i)
  <2>1. ASSUME i < j PROVE FALSE
    <3>1. i \in 1..(j - 1)
      BY <1>1, <2>1
    <3>2. QED
      BY <1>1, <1>2, <1>3, <3>1
  <2>2. ASSUME j < i PROVE FALSE
    <3>1. j \in 1..(i - 1)
      BY <1>1, <2>2
    <3>2. QED
      BY <1>1, <1>2, <1>3, <3>1
  <2>3. QED
    BY <2>1, <2>2
<1>5. QED
  BY <1>1, <1>4

LEMMA RolesAreNoConfigs ==
    ASSUME NEW d \in RuleSamples, Validates(d),
           NEW r \in Items(Parsed(d).roles), NEW m \in Items(Parsed(d).mounts)
    PROVE  RolePlace(r) # Trim(m.path) \o DefaultEngineConfigPath
<1>1. /\ r.name \in PathTexts /\ Len(r.name) = 1 /\ r.name # <<"config">>
      /\ RoleDirectory(r) \in PathTexts
  BY ParsedRoles, JoinedPaths DEF RoleDirectory
<1>2. Trim(m.path) \in PathTexts
  BY ParsedMounts, SampleAssumption, TrimCleans
<1>3. DefaultEngineConfigPath \in PathTexts /\ Len(DefaultEngineConfigPath) = 1
  BY DefaultsAreClean DEF DefaultEngineConfigPath
<1>4. RolePlace(r) = Trim(m.path) \o DefaultEngineConfigPath => r.name = DefaultEngineConfigPath
  BY <1>1, <1>2, <1>3, LastSegments DEF RolePlace, Joined
<1>5. QED
  BY <1>1, <1>4 DEF DefaultEngineConfigPath

\* What is listed under one mount as one role is one role.
LEMMA RolesAreOne ==
    ASSUME NEW d \in RuleSamples, Validates(d),
           NEW r \in Items(Parsed(d).roles), NEW q \in Items(Parsed(d).roles),
           RolePlace(r) = RolePlace(q), Trim(r.mount) = Trim(q.mount)
    PROVE  r.rolesPath = q.rolesPath /\ r.name = q.name
<1>1. /\ r.name \in PathTexts /\ Len(r.name) = 1 /\ Trim(r.mount) \in PathTexts
      /\ r.rolesPath \in PathTexts /\ RoleDirectory(r) = Trim(r.mount) \o r.rolesPath
  BY ParsedRoles DEF RoleDirectory
<1>2. /\ q.name \in PathTexts /\ Len(q.name) = 1 /\ Trim(q.mount) \in PathTexts
      /\ q.rolesPath \in PathTexts /\ RoleDirectory(q) = Trim(q.mount) \o q.rolesPath
  BY ParsedRoles DEF RoleDirectory
<1>3. RoleDirectory(r) \in PathTexts /\ RoleDirectory(q) \in PathTexts
  <2>1. \A s, t \in PathTexts : s \o t \in PathTexts
    BY JoinedPaths
  <2>2. QED
    BY <1>1, <1>2, <2>1
<1>4. RoleDirectory(r) = RoleDirectory(q) /\ r.name = q.name
  <2> DEFINE dr == RoleDirectory(r)
             dq == RoleDirectory(q)
             nr == r.name
             nq == q.name
  <2>1. Joined(dr, nr) = Joined(dq, nq)
    BY DEF RolePlace, Joined
  <2>2. /\ nr \in PathTexts /\ Len(nr) = 1 /\ nq \in PathTexts /\ Len(nq) = 1
        /\ dr \in PathTexts /\ dq \in PathTexts
    BY <1>1, <1>2, <1>3
  <2> HIDE DEF dr, dq, nr, nq
  <2>3. dr = dq /\ nr = nq
    BY <2>1, <2>2, LastSegments
  <2>4. QED
    BY <2>3 DEF dr, dq, nr, nq
<1>5. r.rolesPath = q.rolesPath
  BY <1>1, <1>2, <1>4, ConcatSimplifications DEF PathTexts
<1>6. QED
  BY <1>4, <1>5

\* An engine config in the directory of a role is on another mount: on the
\* role's own the rule refuses it.  If the role's mount is a secret one, so are
\* both, and one is inside the other.
LEMMA ConfigsInReach ==
    ASSUME NEW d \in RuleSamples, Validates(d),
           NEW f \in Items(Parsed(d).engineConfigs), NEW q \in Items(Parsed(d).roles),
           Reaches(q, f)
    PROVE  /\ Trim(q.mount) # Trim(f.mount)
           /\ SecretMountsApart(Parsed(d))
                => "secret" \notin MountTypes(Parsed(d), Trim(q.mount))
<1>1. PICK i \in DOMAIN d.engineConfigs : f = Parsed(d).engineConfigs[i]
  BY ParsedEngineConfigs DEF Items
<1> DEFINE e == d.engineConfigs[i]
<1>2. /\ Trim(f.mount) = Trim(e.mount) /\ Trim(e.mount) \in PathTexts
      /\ EnginePath(f) = EnginePath(e) /\ EnginePath(e) \in PathTexts
  BY <1>1, ParsedEngineConfigs
<1>3. /\ "secret" \in MountTypes(d, Trim(e.mount))
      /\ \A r \in Items(d.roles) : ~Overlaps(e, r)
  BY DEF Validates, ValidEngineConfigs
<1> HIDE DEF e
<1>4. PICK r \in Items(d.roles) :
          /\ Trim(q.mount) = Trim(r.mount) /\ Trim(r.mount) \in PathTexts
          /\ q.rolesPath = SubPath(r.rolesPath, DefaultRolesPath)
          /\ SubPath(q.rolesPath, DefaultRolesPath) = q.rolesPath
          /\ q.rolesPath \in PathTexts
  BY ParsedRoles
<1>5. IsPrefix(Trim(r.mount) \o q.rolesPath, Trim(e.mount) \o EnginePath(e))
  BY <1>2, <1>4 DEF Reaches, RoleDirectory, EnginePlace
<1>6. Trim(r.mount) # Trim(e.mount)
  <2> SUFFICES ASSUME Trim(r.mount) = Trim(e.mount) PROVE FALSE
    OBVIOUS
  <2>1. IsPrefix(q.rolesPath, EnginePath(e))
    BY <1>2, <1>4, <1>5, PrefixesCancel
  <2>2. Overlaps(e, r)
    BY <1>4, <2>1 DEF Overlaps
  <2>3. QED
    BY <1>3, <2>2
<1>7. ASSUME SecretMountsApart(Parsed(d)),
             "secret" \in MountTypes(Parsed(d), Trim(q.mount))
      PROVE  FALSE
  <2>1. IsPrefix(Trim(r.mount), Trim(e.mount)) \/ IsPrefix(Trim(e.mount), Trim(r.mount))
    BY <1>2, <1>4, <1>5, PrefixesCompare
  <2>2. /\ \E m \in Items(d.mounts) : Trim(m.path) = Trim(r.mount) /\ m.type = "secret"
        /\ \E m \in Items(d.mounts) : Trim(m.path) = Trim(e.mount) /\ m.type = "secret"
    BY <1>3, <1>4, <1>7, ParsedMounts DEF MountTypes
  <2>3. Trim(r.mount) = Trim(e.mount)
    BY <1>7, <2>1, <2>2, ParsedMounts DEF SecretMountsApart
  <2>4. QED
    BY <1>6, <2>3
<1>8. QED
  BY <1>2, <1>4, <1>6, <1>7

\* The entries of an accepted spec have places of their own, and roles of secret
\* mounts are listed where no engine config is (validateEngineConfigs, and the
\* checks of roles in Validate).
THEOREM AcceptedEntriesAreApart == Spec => []PlacesApart
<1>1. SamplesAreApart
  <2> SUFFICES ASSUME NEW d \in RuleSamples, Validates(d) PROVE ApartIn(Parsed(d))
    BY DEF SamplesAreApart
  <2>1. QED
    BY EngineConfigsApart, RolesAreNoConfigs, RolesAreOne, ConfigsInReach DEF ApartIn
<1>2. PlacesApart
  BY <1>1 DEF PlacesApart
<1>3. QED
  BY <1>2, PTL
=============================================================================
