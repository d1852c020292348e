------------------------------ MODULE MountTune ------------------------------
(***************************************************************************)
(* The option maps behind the options of Reconcile (mountTune,             *)
(* desiredOptions, withManaged and isManaged in internal/vault/mounts.go). *)
(*                                                                         *)
(* Vault's map of a mount holds the declared options, the manager's marker *)
(* and whatever was there before.  A missing key and an empty value read   *)
(* the same, and an empty value is how a removal is asked for.  Whether    *)
(* Vault merges a tuned map into the one it has, or replaces it, is left   *)
(* open.                                                                   *)
(***************************************************************************)
EXTENDS Reconcile

CONSTANTS OptionKeys, OptionValues,
          ManagedBy,    \* the marker's key
          Manager,      \*   and its value
          Blank         \* the empty value

OptionMaps == UNION { [ks -> OptionValues] : ks \in SUBSET OptionKeys }

\* A key that is missing reads as the empty value.
Get(map, k) == IF k \in DOMAIN map THEN map[k] ELSE Blank

\* What Reconcile keeps of a map.
Effective(map) == [k \in OptionKeys \ {ManagedBy} |-> Get(map, k)]

ASSUME OptionAssumption ==
    /\ ManagedBy \in OptionKeys
    /\ {Manager, Blank} \subseteq OptionValues
    /\ Manager # Blank
    /\ Options \subseteq { Effective(map) : map \in OptionMaps }

WithManaged(map) ==
    [k \in DOMAIN map \cup {ManagedBy} |-> IF k = ManagedBy THEN Manager ELSE map[k]]
IsManaged(map) == Get(map, ManagedBy) = Manager

\* Mutant: an option that is not declared any more is left out of the tune.
DeclaredOptions(held, declared) == WithManaged(declared)

\* desiredOptions: what to tune with, and whether what is held differs.
DesiredOptions(held, declared) ==
    LET want == WithManaged(declared)
    IN  [k \in DOMAIN want \cup DOMAIN held |-> Get(want, k)]
Differs(held, want) == \E k \in DOMAIN want : Get(held, k) # want[k]

\* What Vault has after a tune.
Merged(held, want) ==
    LET kept == { k \in DOMAIN held \cup DOMAIN want :
                    k \in DOMAIN want => want[k] # Blank }
    IN  [k \in kept |-> IF k \in DOMAIN want THEN want[k] ELSE held[k]]
AfterTune(held, declared) ==
    LET want == DesiredOptions(held, declared)
    IN  IF IsManaged(held) /\ Differs(held, want) THEN {Merged(held, want), want}
        ELSE {held}

\* The maps a mount of Reconcile may stand for.
Stands(map, mt) == Effective(map) = mt.options /\ IsManaged(map) = mt.managed

\* A tune of the option maps is the step of Reconcile: it is made when the
\* declared options are not the effective ones, a removed option included, on
\* managed mounts only, and leaves the declared ones and the marker, whichever
\* way Vault takes the map.  So the next pass makes none.
TuneIsFaithful ==
    \A m \in due : AtMounts /\ mount[m] # NoMount =>
        \A held, declared \in OptionMaps :
            Stands(held, mount[m]) /\ Effective(declared) = goal.mounts[m].options =>
                /\ OptionsMove(m, goal.mounts[m]) <=>
                      IsManaged(held) /\ Differs(held, DesiredOptions(held, declared))
                /\ \A after \in AfterTune(held, declared) :
                      Stands(after, Tuned(m, goal.mounts[m]))
=============================================================================
