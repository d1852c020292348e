----------------------------- MODULE MCReconcile -----------------------------
(***************************************************************************)
(* Versions and specs for TLC.  A version is spelled "1" in a ConfigMap,   *)
(* or "v1" as Vault reports it.                                            *)
(***************************************************************************)
EXTENDS MountTune, TLC

McVersions == {"1", "v1", "2", "v2"}
\* Enough for UpgradeSpecs.
UpgradeVersions == McVersions \ {"2"}
McNumbers == {1, 2}
McNumberOf == [v \in Versions |-> IF v \in {"1", "v1"} THEN 1 ELSE 2]
McReported == [n \in McNumbers |-> IF n = 1 THEN "v1" ELSE "v2"]

\* One option, declared or not, beside the marker.
McOptionKeys == {"ttl", "managed-by"}
McOptionValues == {"", "1h", "manager"}
NoTtl == "ttl" :> ""
SomeTtl == "ttl" :> "1h"
McOptions == {NoTtl, SomeTtl}
McDescriptions == {"text"}

On(plugin, version, options) ==
    [plugin |-> plugin, version |-> version, options |-> options, description |-> "text"]
Of(entries, mounts, mode) ==
    [catalog |-> entries,
     mounts |-> [m \in Mounts |-> IF m \in DOMAIN mounts THEN mounts[m] ELSE Undeclared],
     pruneMode |-> mode]

\* An upgrade with an edit of the options, a mount that goes while its version
\* stays, and everything removed.
UpgradeSpecs ==
    { Of({<<"foo", "1">>}, "m" :> On("foo", "1", NoTtl), "full"),
      Of({<<"foo", "v2">>}, "m" :> On("foo", "v2", SomeTtl), "full"),
      Of({<<"foo", "1">>}, <<>>, "deregister"),
      Of({}, <<>>, "full") }

\* Two mounts on two versions; one goes and the other moves to its version.
TwoMountSpecs ==
    { Of({<<"foo", "1">>, <<"foo", "2">>},
         "m" :> On("foo", "1", NoTtl) @@ "n" :> On("foo", "v2", NoTtl), "never"),
      Of({<<"foo", "1">>}, "n" :> On("foo", "v1", SomeTtl), "full"),
      Of({}, <<>>, "full") }

\* A mount that moves to another plugin of the same version.
SwapSpecs ==
    { Of({<<"foo", "1">>, <<"bar", "1">>}, "m" :> On(p, "1", NoTtl), "full") :
        p \in {"foo", "bar"} }
=============================================================================
