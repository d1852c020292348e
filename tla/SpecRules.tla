------------------------------ MODULE SpecRules ------------------------------
(***************************************************************************)
(* What makes a document one of Runner's Specs: the rules of Validate and  *)
(* validateEngineConfigs, and the form they leave the entries in           *)
(* (internal/config/parse.go; the settings are in SpecSettings).           *)
(*                                                                         *)
(* A path is its text cut at the slashes: "a//b/" is <<"a", "", "b", "">>  *)
(* and a path that is left out is <<>>.                                    *)
(***************************************************************************)
EXTENDS Runner, SequencesExt

CONSTANTS Segments,     \* what may stand between two slashes
          RuleSamples   \* documents, refused ones among them

Blank == ""
PathTexts == Seq(Segments)
Items(list) == { list[i] : i \in DOMAIN list }

ASSUME SegmentAssumption == {Blank, "roles", "config"} \subseteq Segments
ASSUME SampleAssumption ==
    \A d \in RuleSamples :
        /\ d = [catalog |-> d.catalog, mounts |-> d.mounts, roles |-> d.roles,
                engineConfigs |-> d.engineConfigs]
        /\ \A m \in Items(d.mounts) : m.path \in PathTexts
        /\ \A r \in Items(d.roles) :
              r \in [mount : PathTexts, rolesPath : PathTexts, name : PathTexts]
        /\ DOMAIN d.engineConfigs = 1..Len(d.engineConfigs) /\ Len(d.engineConfigs) \in Nat
        /\ \A e \in Items(d.engineConfigs) :
              /\ e = [mount |-> e.mount, path |-> e.path, data |-> e.data,
                      secretRef |-> e.secretRef]
              /\ {e.mount, e.path} \subseteq PathTexts

\* normMountPath: the text without the slashes around it.
Trim(path) ==
    LET full == { i \in DOMAIN path : path[i] # Blank }
    IN  IF full = {} THEN <<>>
        ELSE SubSeq(path, CHOOSE i \in full : \A j \in full : i <= j,
                          CHOOSE i \in full : \A j \in full : j <= i)

\* normSubPath: what it refuses, and what it makes of the rest.
ValidSubPath(path) ==
    path # <<>> => Trim(path) # <<>> /\ {Blank, ".", ".."} \cap Items(Trim(path)) = {}
SubPath(path, default) == IF path = <<>> THEN default ELSE Trim(path)

PluginTypes == {"secret", "auth", "database"}
DefaultRolesPath == <<"roles">>
DefaultEngineConfigPath == <<"config">>

ValidSource(s) ==
    /\ (s.url = Blank) # (s.image = Blank)
    /\ s.image # Blank => s.path # Blank

ValidCatalog(d) ==
    \A c \in Items(d.catalog) :
        /\ c.name # Blank /\ c.version # Blank /\ c.type \in PluginTypes
        /\ ValidSource(c.source)

ValidMounts(d) ==
    \A m \in Items(d.mounts) :
        /\ m.path # <<>> /\ m.plugin # Blank /\ m.version # Blank
        /\ m.type \in PluginTypes
        /\ \E c \in Items(d.catalog) : c.name = m.plugin

MountTypes(d, path) == { m.type : m \in { n \in Items(d.mounts) : Trim(n.path) = path } }

\* A name without a slash is one segment.
ValidRoles(d) ==
    \A r \in Items(d.roles) :
        /\ r.mount # <<>>
        /\ MountTypes(d, Trim(r.mount)) # {}
        /\ Len(r.name) = 1 /\ r.name # <<"config">>
        /\ ValidSubPath(r.rolesPath)

RoleDirectory(r) == Trim(r.mount) \o SubPath(r.rolesPath, DefaultRolesPath)
RolePlace(r) == RoleDirectory(r) \o r.name
EnginePath(e) == SubPath(e.path, DefaultEngineConfigPath)
EnginePlace(e) == Trim(e.mount) \o EnginePath(e)

\* Mutant: only the roles path itself is out of bounds.
OverlapsExactly(e, r) ==
    /\ Trim(r.mount) = Trim(e.mount)
    /\ EnginePath(e) = SubPath(r.rolesPath, DefaultRolesPath)

\* An engine config may not lie in the directory of a role.
Overlaps(e, r) ==
    /\ Trim(r.mount) = Trim(e.mount)
    /\ IsPrefix(SubPath(r.rolesPath, DefaultRolesPath), EnginePath(e))

\* secretRef is NoEntry, or the name of a Secret and its keys by field.
ValidBody(e) ==
    /\ DOMAIN e.data # {} \/ e.secretRef # NoEntry
    /\ e.secretRef # NoEntry =>
          /\ e.secretRef.name # Blank /\ DOMAIN e.secretRef.keys # {}
          /\ \A f \in DOMAIN e.secretRef.keys :
                f # Blank /\ e.secretRef.keys[f] # Blank /\ f \notin DOMAIN e.data

ValidEngineConfigs(d) ==
    \A i \in DOMAIN d.engineConfigs :
        LET e == d.engineConfigs[i]
        IN  /\ e.mount # <<>>
            /\ "secret" \in MountTypes(d, Trim(e.mount))
            /\ ValidSubPath(e.path)
            /\ \A j \in 1..(i - 1) : EnginePlace(d.engineConfigs[j]) # EnginePlace(e)
            /\ \A r \in Items(d.roles) : ~Overlaps(e, r)
            /\ ValidBody(e)

Validates(d) == ValidCatalog(d) /\ ValidMounts(d) /\ ValidRoles(d) /\ ValidEngineConfigs(d)

\* What Parse returns: Validate has put the normal forms in place.
ParsedRole(r) == [r EXCEPT !.rolesPath = SubPath(@, DefaultRolesPath)]
ParsedEngineConfig(e) == [e EXCEPT !.mount = Trim(@),
                                   !.path = SubPath(@, DefaultEngineConfigPath)]
Parsed(d) ==
    [d EXCEPT !.roles = [i \in DOMAIN d.roles |-> ParsedRole(d.roles[i])],
              !.engineConfigs = [i \in DOMAIN d.engineConfigs |->
                                    ParsedEngineConfig(d.engineConfigs[i])]]

\* Vault refuses a secret mount inside another one.  An auth mount is no
\* obstacle: it lives below auth/, and the same path, or one inside it, may be
\* that of a secret mount.
SecretMountsApart(d) ==
    \A m, n \in Items(d.mounts) :
        /\ m.type = "secret" /\ n.type = "secret"
        /\ IsPrefix(Trim(m.path), Trim(n.path))
        => Trim(m.path) = Trim(n.path)

\* The engine config is in the directory in which the role is listed.
Reaches(r, e) == IsPrefix(RoleDirectory(r), EnginePlace(e))

\* In a spec that is accepted no entry overwrites another's work: no two engine
\* configs have one place; no role is written to the config of a mount, though
\* its mount and directory may spell that path; and roles at one place are
\* entries for one role.  No role's directory, which is listed and pruned, has
\* an engine config of the role's own mount in it, and, secret mounts being
\* apart, none at all if the role is on a secret mount.  Roles of a path that
\* is an auth mount only may reach the config of a secret mount inside that
\* path: the rule compares paths of mounts for equality.
ApartIn(d) ==
    /\ \A i, j \in DOMAIN d.engineConfigs :
          EnginePlace(d.engineConfigs[i]) = EnginePlace(d.engineConfigs[j]) => i = j
    /\ \A r, q \in Items(d.roles) :
          /\ \A m \in Items(d.mounts) :
                RolePlace(r) # Trim(m.path) \o DefaultEngineConfigPath
          /\ RolePlace(r) = RolePlace(q) /\ Trim(r.mount) = Trim(q.mount) =>
                r.rolesPath = q.rolesPath /\ r.name = q.name
    /\ \A e \in Items(d.engineConfigs), r \in Items(d.roles) :
          Reaches(r, e) =>
              /\ Trim(r.mount) # Trim(e.mount)
              /\ SecretMountsApart(d) => "secret" \notin MountTypes(d, Trim(r.mount))
SamplesAreApart == \A d \in RuleSamples : Validates(d) => ApartIn(Parsed(d))
PlacesApart == pc = "pass" => SamplesAreApart
=============================================================================
