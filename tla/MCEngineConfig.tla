--------------------------- MODULE MCEngineConfig ---------------------------
(***************************************************************************)
(* Small instances of EngineConfig.                                        *)
(***************************************************************************)
EXTENDS EngineConfig, TLC

CONSTANTS e1, e2, m1, m2, s1

\* Two entries on one mount that share a Secret, or one without a secretRef.
OneMount == e1 :> m1 @@ e2 :> m1
OneSecret == e1 :> s1 @@ e2 :> s1
OneEntryMount == e1 :> m1
OneEntryNoSecret == e1 :> NoRef
=============================================================================
