----------------------------- MODULE RoleValues ------------------------------
(***************************************************************************)
(* The comparison of a role's values across the write/read-back boundary   *)
(* (sameRoleValue in internal/vault/roles.go).  A value is a record with a *)
(* kind: null, number, text, list or object.  A text may be read as an     *)
(* amount: "5m" and "300" are 300 seconds.  The text "nan", which Go reads *)
(* as a number that differs from itself, is left out.                      *)
(***************************************************************************)
EXTENDS Roles, SequencesExt

CONSTANTS NoAmount,     \* a text that is neither a duration nor a number
          FieldValues,  \* values a field may have, and their parts
          Depth         \* [FieldValues -> Nat]: of the nesting

Null == [kind |-> "null"]
Number(n) == [kind |-> "number", amount |-> n]
Text(id, amount) == [kind |-> "text", id |-> id, amount |-> amount]
List(items) == [kind |-> "list", items |-> items]
Object(fields) == [kind |-> "object", fields |-> fields]

ValueShape(v) ==
    \/ v = Null
    \/ v.kind = "number" /\ v = Number(v.amount) /\ v.amount # NoAmount
    \/ v.kind = "text" /\ v = Text(v.id, v.amount)
    \/ v.kind = "list" /\ v = List(v.items) /\ v.items \in Seq(FieldValues)
    \/ v.kind = "object" /\ v = Object(v.fields) /\ v.fields \in [DOMAIN v.fields -> FieldValues]

Parts(v) == CASE v.kind = "list"   -> Range(v.items)
              [] v.kind = "object" -> Range(v.fields)
              [] v.kind \in {"null", "number", "text"} -> {}

ASSUME FieldAssumption ==
    /\ Depth \in [FieldValues -> Nat]
    /\ \A v \in FieldValues :
          ValueShape(v) /\ \A part \in Parts(v) : Depth[part] < Depth[v]

\* asNumber and asSeconds
IsAmount(v) == v.kind \in {"number", "text"} /\ v.amount # NoAmount

\* emptyList
EmptyList(v) == v = Null \/ v = List(<<>>)

LengthsAgree(gl, wl) == Len(gl) = Len(wl)

\* Mutant: an element may be matched twice.
UsedAgain(pick, k) == {}
\* The elements that are used when it is the turn of the k-th wanted one.
Used(pick, k) == { pick[j] : j \in 1..(k - 1) }

\* Every wanted element takes the first unused one that is the same.
FirstFit(same, gl, wl) ==
    \E pick \in [DOMAIN wl -> DOMAIN gl] :
        \A k \in DOMAIN wl :
            LET fits == { i \in DOMAIN gl \ Used(pick, k) : same[<<gl[i], wl[k]>>] }
            IN  pick[k] \in fits /\ \A i \in fits : pick[k] <= i

Compare(same, got, want) ==
    \/ Null \in {got, want} /\ EmptyList(got) /\ EmptyList(want)
    \/ IsAmount(got) /\ IsAmount(want) /\ got.amount = want.amount
    \/ /\ got.kind = "list" /\ want.kind = "list"
       /\ LengthsAgree(got.items, want.items)
       /\ FirstFit(same, got.items, want.items)
    \/ /\ got.kind = "object" /\ want.kind = "object"
       /\ DOMAIN got.fields = DOMAIN want.fields
       /\ \A k \in DOMAIN want.fields : same[<<got.fields[k], want.fields[k]>>]
    \/ got = want /\ want.kind = "text" /\ ~IsAmount(want)

SameRoleValue[pair \in FieldValues \X FieldValues] ==
    Compare(SameRoleValue, pair[1], pair[2])

(***************************************************************************)
(* What the comparison promises to the role step, which sees classes of    *)
(* values only (ValueOf).                                                  *)
(***************************************************************************)

\* Two values are the same just when the same values are the same as they are.
SameIsEquivalence ==
    LET like == [v \in FieldValues |-> { w \in FieldValues : SameRoleValue[<<v, w>>] }]
    IN  \A got, want \in FieldValues :
            SameRoleValue[<<got, want>>] <=> like[got] = like[want]

\* Lists are compared as bags: taking the first match is as good as trying all
\* ways to pair the elements.
FirstFitIsAnyFit ==
    \A got, want \in { v \in FieldValues : v.kind = "list" } :
        SameRoleValue[<<got, want>>] <=>
            /\ LengthsAgree(got.items, want.items)
            /\ \E p \in [DOMAIN want.items -> DOMAIN got.items] :
                  /\ IsInjective(p)
                  /\ \A k \in DOMAIN want.items :
                        SameRoleValue[<<got.items[p[k]], want.items[k]>>]

\* While roles are compared, the comparison is an equivalence of bags, so it
\* is the same either way round, and a list that comes back reordered, an
\* amount respelled, at any depth, is no drift: it causes no write.
ComparisonIsFair == pc = "upsert" => SameIsEquivalence /\ FirstFitIsAnyFit
=============================================================================
