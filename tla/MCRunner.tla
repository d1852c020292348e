------------------------------ MODULE MCRunner ------------------------------
(***************************************************************************)
(* Small instances of Runner: one entry that is missing or has one of two  *)
(* values (three specs, so that a spec can be left and come back), and the *)
(* three unusable contents.  The documents behind the specs are samples.   *)
(***************************************************************************)
EXTENDS ChangeLog

Upto(n, S) == UNION { [1..k -> S] : k \in 0..n }

Source(url, image, path) == [url |-> url, image |-> image, path |-> path]
Plugin(name, version, type, source) ==
    [name |-> name, version |-> version, type |-> type, source |-> source]
Mount(path, type, plugin) ==
    [path |-> path, type |-> type, plugin |-> plugin, version |-> "1"]
Role(mount, path, name) == [mount |-> mount, rolesPath |-> path, name |-> name]
Ref(name, keys) == [name |-> name, keys |-> keys]
EngineConfig(mount, path, data, ref) ==
    [mount |-> mount, path |-> path, data |-> data, secretRef |-> ref]

Fields(value, S) == { [f \in s |-> value] : s \in SUBSET S }
NoFields == [f \in {} |-> ""]
Refs(S) == { NoEntry } \cup { Ref(n, k) : n \in {"", "s"}, k \in Fields("k", S) \cup Fields("", S) }

(***************************************************************************)
(* Documents: every path of up to three segments, in one entry or in two   *)
(* that may meet, over a mount, and a mount inside it that Vault refuses,  *)
(* if both are secret, or accepts, if one is an auth mount; and entries    *)
(* that lack something.                                                    *)
(***************************************************************************)
McSegments == {"", "a", "b", "m", "n", "x", ".", "..", "roles", "config"}
Paths == Upto(2, {"", "a", "b"}) \cup [1..3 -> {"", "a"}]
         \cup { <<"roles">>, <<"config">>, <<"a", "..">>, <<".">>, <<"roles", "a">> }
SpelledPaths == (Paths \ {<<"">>})
Names == { <<>>, <<"a">>, <<"config">>, <<"a", "b">> }
Good == Plugin("p", "1", "secret", Source("u", "", ""))
Document(mounts, roles, configs) ==
    [catalog |-> <<Good>>, mounts |-> mounts, roles |-> roles, engineConfigs |-> configs]
Apart == << Mount(<<"m", "">>, "secret", "p"), Mount(<<"n">>, "auth", "p") >>
Nested == << Mount(<<"m">>, "secret", "p"), Mount(<<"m", "a">>, "secret", "p") >>
AuthOutside == << Mount(<<"m">>, "auth", "p"), Mount(<<"m", "roles">>, "secret", "p") >>
AuthInside == << Mount(<<"m">>, "secret", "p"), Mount(<<"m", "a">>, "auth", "p") >>
FewPaths == { <<>>, <<"a">>, <<"roles", "">>, <<"roles", "a">>, <<"a", "roles">>,
              <<"a", "roles", "config">> }
OneField == [f \in {"f"} |-> "x"]
Configs(mount, paths) == { EngineConfig(mount, p, OneField, NoEntry) : p \in paths }
RolesAt(mount, names) == { Role(mount, p, n) : p \in SpelledPaths, n \in names }

McRuleSamples ==
    { Document(Apart, <<r>>, <<e>>) :
        r \in RolesAt(<<"", "m">>, Names) \cup RolesAt(<<"n">>, {<<"a">>}),
        e \in Configs(<<"m">>, SpelledPaths) }
    \cup { Document(Apart, <<>>, <<e, f>>) :
        e \in Configs(<<"m">>, SpelledPaths), f \in Configs(<<"m", "">>, SpelledPaths) }
    \cup { Document(Nested, <<r, q>>, <<>>) :
        r \in RolesAt(<<"m">>, {<<"a">>, <<"config">>}), q \in RolesAt(<<"m", "">>, {<<"a">>, <<"a", "a">>}) }
    \cup { Document(ms, <<Role(mr, p, <<"a">>)>>, <<EngineConfig(me, q, OneField, NoEntry)>>) :
        ms \in {Nested, AuthOutside, AuthInside},
        mr, me \in { <<"m">>, <<"m", "a">>, <<"m", "roles">> },
        p, q \in FewPaths }
    \cup { Document(Apart, <<>>, <<EngineConfig(m, <<>>, d, ref)>>) :
        m \in {<<>>, <<"m">>, <<"n">>, <<"x">>}, d \in Fields("x", {"f", "g"}),
        ref \in Refs({"f", ""}) }
    \cup { [Document(<<Mount(p, t, n)>>, <<>>, <<>>) EXCEPT !.catalog = <<c>>] :
        p \in {<<>>, <<"m">>}, t \in {"", "secret"}, n \in {"", "p", "q"},
        c \in { Plugin("p", v, "secret", Source(u, i, x)) :
                  v \in {"", "1"}, u, i, x \in {"", "u"} } }

(***************************************************************************)
(* Specs that differ in one section.                                       *)
(***************************************************************************)
Version(prefixed, number) == [prefixed |-> prefixed, number |-> number]
Versions == { Version(FALSE, "1"), Version(TRUE, "1"), Version(TRUE, "2") }
Maps == { NoFields } \cup { [f \in {"f"} |-> v] : v \in {"", "x"} }
        \cup { [f \in {"f", "g"} |-> "x"] }
Respellings == { [f \in {"f"} |-> v] : v \in {"1", "1.0"} }
Marked == [k \in {"f", ManagedBy} |-> "x"]
MountForm(path, plugin, version, description, options) ==
    [path |-> path, type |-> "secret", plugin |-> plugin, version |-> version,
     description |-> description, options |-> options]
TwinMounts == { MountForm(p, "p", v, "", Nil) : p \in {<<"m">>, <<"m", "">>}, v \in Versions }
MountForms ==
    TwinMounts
    \cup { MountForm(<<"m">>, n, v, "d", Nil) : n \in {"p", "q"}, v \in Versions }
    \cup { MountForm(p, n, Version(FALSE, "1"), "", o) :
            p \in {<<"m">>, <<"m", "">>}, n \in {"p", "q"}, o \in Maps \cup {Nil, Marked} }
EngineForms ==
    { EngineConfig(<<"m">>, p, d, ref) : p \in {<<"config">>, <<"a">>}, d \in Maps \cup Respellings,
        ref \in {NoEntry, Ref("s", [f \in {"h"} |-> "k"]), Ref("s", [f \in {"h"} |-> "l"]),
                 Ref("t", [f \in {"h"} |-> "k"])} }
RoleForms ==
    { [mount |-> m, rolesPath |-> <<"roles">>, name |-> <<n>>, data |-> d] :
        m \in {<<"m">>, <<"", "m">>}, n \in {"x", "y"},
        d \in {NoFields, OneField} \cup { [f \in {"f"} |-> v] : v \in {"60m", "1h"} } }
CatalogForms ==
    { Plugin("p", v, t, Source(u, "", "")) : v \in Versions, t \in {"secret", "auth"},
        u \in {"u", "w"} }
McDefaultSettings == [pruneMode |-> "full", resyncInterval |-> 1, logLevel |-> "info"]
McLogSamples ==
    [settings |-> [pruneMode : {"full", "never"}, resyncInterval : {1, 2},
                   logLevel : {"info", "debug"}],
     catalog |-> Upto(1, CatalogForms)
                 \cup { <<x, y>> : x \in { z \in CatalogForms : z.source.url = "u" },
                                  y \in CatalogForms },
     mounts |-> Upto(1, MountForms) \cup { <<x, y>> : x, y \in TwinMounts },
     engineConfigs |-> Upto(1, EngineForms),
     roles |-> Upto(1, RoleForms)
               \cup { <<x, y>> : x, y \in { z \in RoleForms : z.data \in {NoFields, OneField} } }]
McEncoded == [v \in {"", "x", "1", "1.0"} |-> IF v = "1.0" THEN "1" ELSE v]
McMeaning == [v \in {"x", "60m", "1h"} |-> IF v = "60m" THEN "1h" ELSE v]
McPlainSpec ==
    [settings |-> McDefaultSettings,
     catalog |-> <<Plugin("p", Version(FALSE, "1"), "secret", Source("u", "", ""))>>,
     mounts |-> <<>>, engineConfigs |-> <<>>, roles |-> <<>>]
=============================================================================
