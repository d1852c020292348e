-------------------------- MODULE RoleValuesProofs ---------------------------
(***************************************************************************)
(* Proofs about the comparison of role values, for values of any depth and *)
(* lists of any length.                                                    *)
(***************************************************************************)
EXTENDS RoleValues, FiniteSetTheorems, WellFoundedInduction, TLAPS

Pairs == FieldValues \X FieldValues
Comparisons == [Pairs -> BOOLEAN]

\* Induction on depth: of the numbers with a property, one is the least.
LEMMA LeastNumber ==
    ASSUME NEW S \in SUBSET Nat, S # {}
    PROVE  \E n \in S : \A m \in S : n <= m
<1>1. PICK n \in S : \A m \in S : ~(<<m, n>> \in OpToRel(<, Nat))
  BY NatLessThanWellFounded, WFMin
<1>2. \A m \in S : ~(m < n)
  BY <1>1 DEF OpToRel
<1>3. QED
  BY <1>2

LEMMA KindsOfValues ==
    ASSUME NEW v \in FieldValues
    PROVE  /\ ValueShape(v)
           /\ v.kind \in {"null", "number", "text", "list", "object"}
           /\ v = Null <=> v.kind = "null"
           /\ v.kind = "number" => IsAmount(v)
           /\ v.kind = "list" => v.items \in Seq(FieldValues)
           /\ v.kind = "object" => v.fields \in [DOMAIN v.fields -> FieldValues]
           /\ EmptyList(v) <=> (v.kind = "null" \/ (v.kind = "list" /\ Len(v.items) = 0))
<1>1. ValueShape(v)
  BY FieldAssumption
<1>2. CASE v = Null
  BY <1>1, <1>2 DEF Null, List, EmptyList, IsAmount
<1>3. CASE v.kind = "number" /\ v = Number(v.amount) /\ v.amount # NoAmount
  BY <1>1, <1>3 DEF Number, Null, List, EmptyList, IsAmount
<1>4. CASE v.kind = "text" /\ v = Text(v.id, v.amount)
  BY <1>1, <1>4 DEF Text, Null, List, EmptyList, IsAmount
<1>5. CASE v.kind = "list" /\ v = List(v.items) /\ v.items \in Seq(FieldValues)
  <2>1. v.items = <<>> <=> Len(v.items) = 0
    BY <1>5
  <2>2. v = List(<<>>) <=> v.items = <<>>
    BY <1>5 DEF List
  <2>3. QED
    BY <1>1, <1>5, <2>1, <2>2 DEF Null, EmptyList
<1>6. CASE /\ v.kind = "object" /\ v = Object(v.fields)
           /\ v.fields \in [DOMAIN v.fields -> FieldValues]
  BY <1>1, <1>6 DEF Object, Null, List, EmptyList
<1>7. QED
  BY <1>1, <1>2, <1>3, <1>4, <1>5, <1>6 DEF ValueShape

\* The elements of a list and the fields of an object are nested less deep.
LEMMA PartsAreLessDeep ==
    ASSUME NEW v \in FieldValues
    PROVE  /\ Depth[v] \in Nat
           /\ v.kind = "list" => \A i \in DOMAIN v.items :
                 v.items[i] \in FieldValues /\ Depth[v.items[i]] < Depth[v]
           /\ v.kind = "object" => \A k \in DOMAIN v.fields :
                 v.fields[k] \in FieldValues /\ Depth[v.fields[k]] < Depth[v]
<1>1. Depth[v] \in Nat /\ \A part \in Parts(v) : Depth[part] < Depth[v]
  BY FieldAssumption
<1>2. CASE v.kind = "list"
  <2>1. v.items \in Seq(FieldValues) /\ Parts(v) = Range(v.items)
    BY <1>2, KindsOfValues DEF Parts
  <2>2. \A i \in DOMAIN v.items : v.items[i] \in FieldValues /\ v.items[i] \in Range(v.items)
    BY <2>1 DEF Range
  <2>3. QED
    BY <1>1, <1>2, <2>1, <2>2
<1>3. CASE v.kind = "object"
  <2>1. v.fields \in [DOMAIN v.fields -> FieldValues] /\ Parts(v) = Range(v.fields)
    BY <1>3, KindsOfValues DEF Parts
  <2>2. \A k \in DOMAIN v.fields : v.fields[k] \in FieldValues /\ v.fields[k] \in Range(v.fields)
    BY <2>1 DEF Range
  <2>3. QED
    BY <1>1, <1>3, <2>1, <2>2
<1>4. QED
  BY <1>1, <1>2, <1>3

(***************************************************************************)
(* The comparison is well defined: it goes down in depth.                  *)
(***************************************************************************)

\* The comparison asks about parts only, which are less deep.
LEMMA CompareAsksAboutParts ==
    ASSUME NEW f, NEW g, NEW got \in FieldValues, NEW want \in FieldValues,
           \A x, y \in FieldValues : Depth[y] < Depth[want] => f[<<x, y>>] = g[<<x, y>>]
    PROVE  Compare(f, got, want) = Compare(g, got, want)
<1>1. ASSUME got.kind = "list", want.kind = "list"
      PROVE  FirstFit(f, got.items, want.items) = FirstFit(g, got.items, want.items)
  <2>1. \A i \in DOMAIN got.items, k \in DOMAIN want.items :
            f[<<got.items[i], want.items[k]>>] = g[<<got.items[i], want.items[k]>>]
    BY <1>1, PartsAreLessDeep
  <2>2. ASSUME NEW pick, NEW k \in DOMAIN want.items
        PROVE  { i \in DOMAIN got.items \ Used(pick, k) : f[<<got.items[i], want.items[k]>>] }
               = { i \in DOMAIN got.items \ Used(pick, k) : g[<<got.items[i], want.items[k]>>] }
    BY <2>1
  <2>3. QED
    BY <2>2 DEF FirstFit
<1>2. ASSUME got.kind = "object", want.kind = "object", DOMAIN got.fields = DOMAIN want.fields
      PROVE  \A k \in DOMAIN want.fields :
                f[<<got.fields[k], want.fields[k]>>] = g[<<got.fields[k], want.fields[k]>>]
  BY <1>2, PartsAreLessDeep
<1>3. QED
  BY <1>1, <1>2 DEF Compare

\* A function that compares as sameRoleValue does, up to a depth.
Correct(f, n) ==
    /\ f \in Comparisons
    /\ \A x, y \in FieldValues : Depth[y] < n => f[<<x, y>>] = Compare(f, x, y)

LEMMA CorrectIsUnique ==
    ASSUME NEW m \in Nat, NEW n \in Nat, m <= n, NEW f, NEW g, Correct(f, m), Correct(g, n)
    PROVE  \A x, y \in FieldValues : Depth[y] < m => f[<<x, y>>] = g[<<x, y>>]
<1> DEFINE wrong == { d \in 0..(m - 1) :
                        \E x, y \in FieldValues : Depth[y] = d /\ f[<<x, y>>] # g[<<x, y>>] }
<1>1. SUFFICES wrong = {}
  <2>1. \A y \in FieldValues : Depth[y] \in Nat
    BY PartsAreLessDeep
  <2>2. \A y \in FieldValues : Depth[y] < m => Depth[y] \in 0..(m - 1)
    BY <2>1
  <2>3. QED
    BY <1>1, <2>2
<1>2. SUFFICES ASSUME wrong # {} PROVE FALSE
  OBVIOUS
<1>3. PICK d \in wrong : \A e \in wrong : d <= e
  <2>1. wrong \in SUBSET Nat
    OBVIOUS
  <2> HIDE DEF wrong
  <2>2. QED
    BY <1>2, <2>1, LeastNumber
<1>4. PICK got, want \in FieldValues : Depth[want] = d /\ f[<<got, want>>] # g[<<got, want>>]
  OBVIOUS
<1>5. d \in Nat /\ d < m /\ d < n
  OBVIOUS
<1>6. \A x, y \in FieldValues : Depth[y] < Depth[want] => f[<<x, y>>] = g[<<x, y>>]
  <2>1. SUFFICES ASSUME NEW x \in FieldValues, NEW y \in FieldValues, Depth[y] < d,
                        f[<<x, y>>] # g[<<x, y>>]
                 PROVE  FALSE
    BY <1>4
  <2>2. Depth[y] \in Nat
    BY PartsAreLessDeep
  <2>3. Depth[y] \in wrong
    <3>1. m \in Int /\ d < m /\ Depth[y] < d /\ d \in Nat
      BY <1>5, <2>1
    <3>2. Depth[y] \in 0..(m - 1)
      BY <2>2, <3>1
    <3>3. QED
      BY <2>1, <3>2
  <2>4. d <= Depth[y]
    <3> HIDE DEF wrong
    <3> QED
      BY <1>3, <2>3
  <2>5. QED
    BY <1>5, <2>1, <2>2, <2>4
<1>7. Compare(f, got, want) = Compare(g, got, want)
  BY <1>6, CompareAsksAboutParts
<1>8. f[<<got, want>>] = Compare(f, got, want) /\ g[<<got, want>>] = Compare(g, got, want)
  BY <1>4, <1>5 DEF Correct
<1>9. QED
  BY <1>4, <1>7, <1>8

LEMMA CorrectExists ==
    ASSUME NEW n \in Nat
    PROVE  \E f : Correct(f, n)
<1> DEFINE none == { m \in Nat : ~ \E f : Correct(f, m) }
<1>1. SUFFICES ASSUME none # {} PROVE FALSE
  OBVIOUS
<1>2. PICK m \in none : \A e \in none : m <= e
  <2>1. none \in SUBSET Nat
    OBVIOUS
  <2> HIDE DEF none
  <2>2. QED
    BY <1>1, <2>1, LeastNumber
<1>3. m \in Nat /\ ~ \E f : Correct(f, m)
  OBVIOUS
<1>4. m # 0
  <2>1. [pair \in Pairs |-> TRUE] \in Comparisons
    BY DEF Comparisons
  <2>2. \A y \in FieldValues : ~(Depth[y] < 0)
    BY PartsAreLessDeep
  <2>3. Correct([pair \in Pairs |-> TRUE], 0)
    BY <2>1, <2>2 DEF Correct
  <2>4. QED
    BY <1>3, <2>3
<1>5. PICK f : Correct(f, m - 1)
  <2>1. m - 1 \in Nat /\ ~(m <= m - 1)
    BY <1>3, <1>4
  <2>2. m - 1 \notin none
    BY <1>2, <2>1
  <2>3. QED
    BY <2>1, <2>2
<1> DEFINE g == [pair \in Pairs |-> Compare(f, pair[1], pair[2])]
<1>6. g \in Comparisons /\ \A x, y \in FieldValues : g[<<x, y>>] = Compare(f, x, y)
  <2>1. \A x, y \in FieldValues : Compare(f, x, y) \in BOOLEAN
    BY DEF Compare
  <2>2. QED
    BY <2>1 DEF Comparisons, Pairs
<1> HIDE DEF g
<1>7. ASSUME NEW got \in FieldValues, NEW want \in FieldValues, Depth[want] < m
      PROVE  g[<<got, want>>] = Compare(g, got, want)
  <2>1. ASSUME NEW x \in FieldValues, NEW y \in FieldValues, Depth[y] < Depth[want]
        PROVE  f[<<x, y>>] = g[<<x, y>>]
    <3>1. Depth[y] < m - 1
      BY <1>3, <1>7, <2>1, PartsAreLessDeep
    <3>2. QED
      BY <1>5, <1>6, <3>1 DEF Correct
  <2>2. Compare(f, got, want) = Compare(g, got, want)
    BY <2>1, CompareAsksAboutParts
  <2>3. QED
    BY <1>6, <2>2
<1>8. QED
  BY <1>3, <1>6, <1>7 DEF Correct

\* sameRoleValue is the function that is correct at every depth.
LEMMA SameIsDefined ==
    /\ SameRoleValue \in Comparisons
    /\ \A got, want \in FieldValues :
          SameRoleValue[<<got, want>>] = Compare(SameRoleValue, got, want)
<1> DEFINE upTo(n) == CHOOSE f : Correct(f, n)
           F == [pair \in Pairs |-> upTo(Depth[pair[2]] + 1)[pair]]
<1>1. \A n \in Nat : Correct(upTo(n), n)
  BY CorrectExists
<1>2. ASSUME NEW x \in FieldValues, NEW y \in FieldValues
      PROVE  F[<<x, y>>] = upTo(Depth[y] + 1)[<<x, y>>] /\ F[<<x, y>>] \in BOOLEAN
  <2>1. Depth[y] + 1 \in Nat
    BY PartsAreLessDeep
  <2>2. upTo(Depth[y] + 1) \in Comparisons
    BY <1>1, <2>1 DEF Correct
  <2>3. F[<<x, y>>] = upTo(Depth[y] + 1)[<<x, y>>]
    BY DEF Pairs
  <2> HIDE DEF F, upTo
  <2>4. QED
    BY <2>2, <2>3 DEF Comparisons, Pairs
<1>3. F \in [Pairs -> BOOLEAN]
  <2>1. F = [pair \in Pairs |-> F[pair]]
    BY DEF Pairs
  <2>2. \A pair \in Pairs : F[pair] \in BOOLEAN
    <3> HIDE DEF F
    <3> QED
      BY <1>2 DEF Pairs
  <2> HIDE DEF F
  <2>3. QED
    BY <2>1, <2>2
<1> HIDE DEF F, upTo
<1>4. ASSUME NEW got \in FieldValues, NEW want \in FieldValues
      PROVE  F[<<got, want>>] = Compare(F, got, want)
  <2> DEFINE n == Depth[want] + 1
             f == upTo(n)
  <2>1. n \in Nat /\ Depth[want] < n /\ Depth[want] \in Nat
    BY PartsAreLessDeep
  <2>2. Correct(f, n)
    BY <1>1, <2>1
  <2>3. F[<<got, want>>] = f[<<got, want>>]
    BY <1>2
  <2>4. ASSUME NEW x \in FieldValues, NEW y \in FieldValues, Depth[y] < Depth[want]
        PROVE  f[<<x, y>>] = F[<<x, y>>]
    <3>1. Depth[y] + 1 \in Nat /\ Depth[y] < Depth[y] + 1 /\ Depth[y] + 1 <= n
      BY <2>1, <2>4, PartsAreLessDeep
    <3>2. Correct(upTo(Depth[y] + 1), Depth[y] + 1)
      BY <1>1, <3>1
    <3>3. upTo(Depth[y] + 1)[<<x, y>>] = f[<<x, y>>]
      BY <2>1, <2>2, <3>1, <3>2, CorrectIsUnique
    <3>4. QED
      BY <1>2, <3>3
  <2> HIDE DEF n, f
  <2>5. Compare(f, got, want) = Compare(F, got, want)
    BY <2>4, CompareAsksAboutParts
  <2>6. f[<<got, want>>] = Compare(f, got, want)
    BY <2>1, <2>2 DEF Correct
  <2>7. QED
    BY <2>3, <2>5, <2>6
<1> DEFINE Equation(f) == f = [pair \in Pairs |-> Compare(f, pair[1], pair[2])]
<1>5. Equation(F)
  <2>1. F = [pair \in Pairs |-> F[pair]] /\ \A pair \in Pairs : F[pair] = Compare(F, pair[1], pair[2])
    BY <1>3, <1>4 DEF Pairs
  <2>2. QED
    BY <2>1
<1>6. SameRoleValue = CHOOSE f : Equation(f)
  BY DEF SameRoleValue, Pairs
<1>7. Equation(SameRoleValue)
  BY <1>5, <1>6
<1>8. \A x, y \in FieldValues : Compare(SameRoleValue, x, y) \in BOOLEAN
  BY DEF Compare
<1>9. QED
  BY <1>7, <1>8 DEF Comparisons, Pairs

(***************************************************************************)
(* Taking the first fit is as good as any pairing.                         *)
(***************************************************************************)

\* Elements that are alike fit the same places.
Consistent(same, gl, wl) ==
    \A i, j \in DOMAIN gl, k, l \in DOMAIN wl :
        same[<<gl[i], wl[k]>>] /\ same[<<gl[j], wl[k]>>] /\ same[<<gl[i], wl[l]>>]
        => same[<<gl[j], wl[l]>>]

Pairing(same, gl, wl, p) ==
    /\ p \in [DOMAIN wl -> DOMAIN gl]
    /\ IsInjective(p)
    /\ \A k \in DOMAIN wl : same[<<gl[p[k]], wl[k]>>]

\* The k-th wanted element takes the first unused one that is the same.
TakesFirst(same, gl, wl, pick, k) ==
    /\ pick[k] \in DOMAIN gl \ Used(pick, k)
    /\ same[<<gl[pick[k]], wl[k]>>]
    /\ \A i \in DOMAIN gl \ Used(pick, k) : same[<<gl[i], wl[k]>>] => pick[k] <= i

LEMMA FirstFitTakesFirst ==
    ASSUME NEW same, NEW gl, NEW wl
    PROVE  FirstFit(same, gl, wl) <=>
              \E pick \in [DOMAIN wl -> DOMAIN gl] :
                  \A k \in DOMAIN wl : TakesFirst(same, gl, wl, pick, k)
BY DEF FirstFit, TakesFirst

LEMMA FirstFitIsPairing ==
    ASSUME NEW same, NEW gl \in Seq(FieldValues), NEW wl \in Seq(FieldValues),
           FirstFit(same, gl, wl)
    PROVE  \E p : Pairing(same, gl, wl, p)
<1>1. PICK pick \in [DOMAIN wl -> DOMAIN gl] :
          \A k \in DOMAIN wl : TakesFirst(same, gl, wl, pick, k)
  BY FirstFitTakesFirst
<1>2. ASSUME NEW j \in DOMAIN wl, NEW k \in DOMAIN wl, j < k
      PROVE  pick[j] # pick[k]
  <2>1. j \in 1..(k - 1)
    BY <1>2
  <2>2. QED
    BY <1>1, <2>1 DEF TakesFirst, Used
<1>3. IsInjective(pick)
  <2>1. \A j, k \in DOMAIN wl : j # k => j < k \/ k < j
    OBVIOUS
  <2>2. QED
    BY <1>2, <2>1 DEF IsInjective
<1>4. QED
  BY <1>1, <1>3 DEF Pairing, TakesFirst

\* A pairing whose first elements are taken first can take one more so.
LEMMA Exchange ==
    ASSUME NEW same, NEW gl \in Seq(FieldValues), NEW wl \in Seq(FieldValues),
           Consistent(same, gl, wl), NEW k \in DOMAIN wl, NEW p, Pairing(same, gl, wl, p),
           \A j \in 1..(k - 1) : TakesFirst(same, gl, wl, p, j)
    PROVE  \E q : /\ Pairing(same, gl, wl, q)
                  /\ \A j \in 1..k : TakesFirst(same, gl, wl, q, j)
<1> DEFINE fits == { i \in DOMAIN gl \ Used(p, k) : same[<<gl[i], wl[k]>>] }
<1>1. k \in Nat /\ 1..(k - 1) \subseteq DOMAIN wl /\ DOMAIN gl \subseteq Nat
  OBVIOUS
<1>2. p \in [DOMAIN wl -> DOMAIN gl] /\ \A j, l \in DOMAIN wl : p[j] = p[l] => j = l
  BY DEF Pairing, IsInjective
<1>3. p[k] \in fits
  <2>1. \A j \in 1..(k - 1) : j \in DOMAIN wl /\ j # k
    BY <1>1
  <2>2. p[k] \notin Used(p, k)
    BY <1>2, <2>1 DEF Used
  <2>3. QED
    BY <1>2, <2>2 DEF Pairing
<1>4. PICK i \in fits : \A j \in fits : i <= j
  <2>1. fits \in SUBSET Nat /\ fits # {}
    BY <1>1, <1>3
  <2> HIDE DEF fits
  <2>2. QED
    BY <2>1, LeastNumber
<1>5. i \in DOMAIN gl /\ i \notin Used(p, k) /\ same[<<gl[i], wl[k]>>]
  OBVIOUS
\* If another place had i, it gets what the k-th had.
<1> DEFINE q == [m \in DOMAIN wl |-> IF m = k THEN i ELSE IF p[m] = i THEN p[k] ELSE p[m]]
<1>6. q \in [DOMAIN wl -> DOMAIN gl]
  BY <1>2, <1>5
<1>7. \A j \in 1..(k - 1) : q[j] = p[j]
  <2>1. \A j \in 1..(k - 1) : j \in DOMAIN wl /\ j # k /\ p[j] # i
    BY <1>1, <1>5 DEF Used
  <2>2. QED
    BY <2>1
<1>8. IsInjective(q)
  <2>1. \A j, l \in DOMAIN wl : q[j] = q[l] => j = l
    BY <1>2
  <2>2. QED
    BY <1>6, <2>1 DEF IsInjective
<1>9. ASSUME NEW m \in DOMAIN wl PROVE same[<<gl[q[m]], wl[m]>>]
  <2>1. CASE m = k
    BY <1>5, <2>1
  <2>2. CASE m # k /\ p[m] = i
    <3>1. same[<<gl[i], wl[m]>>] /\ same[<<gl[p[k]], wl[k]>>]
      BY <2>2 DEF Pairing
    <3>2. same[<<gl[p[k]], wl[m]>>]
      BY <1>2, <1>5, <3>1 DEF Consistent
    <3>3. QED
      BY <2>2, <3>2
  <2>3. CASE m # k /\ p[m] # i
    BY <2>3 DEF Pairing
  <2>4. QED
    BY <2>1, <2>2, <2>3
<1>10. q[k] = i
  OBVIOUS
<1> HIDE DEF q
<1>11. \A j \in 1..k : Used(q, j) = Used(p, j)
  <2>1. ASSUME NEW j \in 1..k PROVE \A l \in 1..(j - 1) : q[l] = p[l]
    BY <1>1, <1>7
  <2>2. QED
    BY <2>1 DEF Used
<1>12. ASSUME NEW j \in 1..k PROVE TakesFirst(same, gl, wl, q, j)
  <2>1. CASE j = k
    BY <1>4, <1>5, <1>10, <1>11, <2>1 DEF TakesFirst
  <2>2. CASE j \in 1..(k - 1)
    BY <1>7, <1>11, <2>2 DEF TakesFirst
  <2>3. QED
    BY <1>1, <2>1, <2>2
<1>13. QED
  BY <1>6, <1>8, <1>9, <1>12 DEF Pairing

LEMMA PairingGivesFirstFit ==
    ASSUME NEW same, NEW gl \in Seq(FieldValues), NEW wl \in Seq(FieldValues),
           Consistent(same, gl, wl), NEW p, Pairing(same, gl, wl, p)
    PROVE  FirstFit(same, gl, wl)
<1> DEFINE Reached(k) == \E q : /\ Pairing(same, gl, wl, q)
                                /\ \A j \in 1..k : TakesFirst(same, gl, wl, q, j)
           missed == { k \in 0..Len(wl) : ~Reached(k) }
<1>1. Len(wl) \in Nat /\ DOMAIN wl = 1..Len(wl)
  OBVIOUS
<1>2. missed = {}
  <2>1. SUFFICES ASSUME missed # {} PROVE FALSE
    OBVIOUS
  <2>2. PICK k \in missed : \A m \in missed : k <= m
    <3>1. missed \in SUBSET Nat
      BY <1>1
    <3> HIDE DEF missed
    <3>2. QED
      BY <2>1, <3>1, LeastNumber
  <2>3. k \in 0..Len(wl) /\ ~Reached(k)
    OBVIOUS
  <2>4. Reached(0)
    OBVIOUS
  <2> HIDE DEF Reached
  <2>5. k # 0
    BY <2>3, <2>4
  <2>6. k \in DOMAIN wl /\ k - 1 \in 0..Len(wl) /\ ~(k <= k - 1)
    BY <1>1, <2>3, <2>5
  <2>7. Reached(k - 1)
    BY <2>2, <2>6
  <2>8. Reached(k)
    BY <2>6, <2>7, Exchange DEF Reached
  <2>9. QED
    BY <2>3, <2>8
<1>3. Reached(Len(wl))
  BY <1>1, <1>2
<1>4. QED
  BY <1>1, <1>3, FirstFitTakesFirst DEF Pairing

(***************************************************************************)
(* The comparison is an equivalence, by induction on depth.                *)
(***************************************************************************)
Same(v, w) == SameRoleValue[<<v, w>>]

Below(n) == { v \in FieldValues : Depth[v] < n }

IsEquivalenceOn(vs) ==
    /\ \A v \in vs : Same(v, v)
    /\ \A v, w \in vs : Same(v, w) => Same(w, v)
    /\ \A u, v, w \in vs : Same(u, v) /\ Same(v, w) => Same(u, w)

\* The comparison, with lists paired in any way.
BothEmpty(v, w) == EmptyList(v) /\ EmptyList(w)
SameAmounts(v, w) == IsAmount(v) /\ IsAmount(w) /\ v.amount = w.amount
SameTexts(v, w) == v = w /\ w.kind = "text" /\ ~IsAmount(w)
SameLists(v, w) ==
    /\ v.kind = "list" /\ w.kind = "list" /\ Len(v.items) = Len(w.items)
    /\ \E p : Pairing(SameRoleValue, v.items, w.items, p)
SameObjects(v, w) ==
    /\ v.kind = "object" /\ w.kind = "object" /\ DOMAIN v.fields = DOMAIN w.fields
    /\ \A k \in DOMAIN w.fields : Same(v.fields[k], w.fields[k])

LEMMA PartsBelow ==
    ASSUME NEW n \in Nat, NEW v \in FieldValues, Depth[v] <= n
    PROVE  /\ v.kind = "list" => \A i \in DOMAIN v.items : v.items[i] \in Below(n)
           /\ v.kind = "object" => \A k \in DOMAIN v.fields : v.fields[k] \in Below(n)
<1>1. \A x \in FieldValues : Depth[x] \in Nat
  BY PartsAreLessDeep
<1>2. \A x \in FieldValues : Depth[x] < Depth[v] => x \in Below(n)
  BY <1>1 DEF Below
<1>3. QED
  BY <1>2, PartsAreLessDeep

LEMMA ListsOfAlike ==
    ASSUME NEW n \in Nat, IsEquivalenceOn(Below(n)),
           NEW v \in FieldValues, NEW w \in FieldValues, v.kind = "list", w.kind = "list",
           Depth[v] <= n, Depth[w] <= n
    PROVE  FirstFit(SameRoleValue, v.items, w.items)
           <=> \E p : Pairing(SameRoleValue, v.items, w.items, p)
<1>1. v.items \in Seq(FieldValues) /\ w.items \in Seq(FieldValues)
  BY KindsOfValues
<1>2. /\ \A i \in DOMAIN v.items : v.items[i] \in Below(n)
      /\ \A i \in DOMAIN w.items : w.items[i] \in Below(n)
  BY PartsBelow
<1>3. Consistent(SameRoleValue, v.items, w.items)
  <2>1. ASSUME NEW i \in DOMAIN v.items, NEW j \in DOMAIN v.items,
               NEW k \in DOMAIN w.items, NEW l \in DOMAIN w.items,
               Same(v.items[i], w.items[k]), Same(v.items[j], w.items[k]),
               Same(v.items[i], w.items[l])
        PROVE  Same(v.items[j], w.items[l])
    <3>1. Same(w.items[k], v.items[i])
      BY <1>2, <2>1 DEF IsEquivalenceOn
    <3>2. Same(v.items[j], v.items[i])
      BY <1>2, <2>1, <3>1 DEF IsEquivalenceOn
    <3>3. QED
      BY <1>2, <2>1, <3>2 DEF IsEquivalenceOn
  <2>2. QED
    BY <2>1 DEF Consistent, Same
<1>4. QED
  BY <1>1, <1>3, FirstFitIsPairing, PairingGivesFirstFit

LEMMA SameByKind ==
    ASSUME NEW n \in Nat, IsEquivalenceOn(Below(n)),
           NEW v \in FieldValues, NEW w \in FieldValues, Depth[v] <= n, Depth[w] <= n
    PROVE  Same(v, w) <=> \/ BothEmpty(v, w) \/ SameAmounts(v, w) \/ SameTexts(v, w)
                          \/ SameLists(v, w) \/ SameObjects(v, w)
<1>1. Same(v, w) <=> Compare(SameRoleValue, v, w)
  BY SameIsDefined DEF Same, Comparisons, Pairs
<1>2. v.kind = "list" /\ w.kind = "list" =>
         (FirstFit(SameRoleValue, v.items, w.items)
          <=> \E p : Pairing(SameRoleValue, v.items, w.items, p))
  BY ListsOfAlike
<1>3. ASSUME BothEmpty(v, w), Null \notin {v, w} PROVE SameLists(v, w)
  <2>1. /\ v.kind = "list" /\ v.items \in Seq(FieldValues) /\ Len(v.items) = 0
        /\ w.kind = "list" /\ w.items \in Seq(FieldValues) /\ Len(w.items) = 0
    BY <1>3, KindsOfValues DEF BothEmpty
  <2>2. DOMAIN v.items = {} /\ DOMAIN w.items = {}
    BY <2>1
  <2>3. Pairing(SameRoleValue, v.items, w.items, [k \in {} |-> 1])
    BY <2>2 DEF Pairing, IsInjective
  <2>4. QED
    BY <2>1, <2>3 DEF SameLists
<1>4. QED
  BY <1>1, <1>2, <1>3
     DEF Compare, BothEmpty, SameAmounts, SameTexts, SameLists, SameObjects, Same, LengthsAgree

LEMMA SameIsReflexive ==
    ASSUME NEW n \in Nat, IsEquivalenceOn(Below(n)), NEW v \in FieldValues, Depth[v] <= n
    PROVE  Same(v, v)
<1>1. /\ v.kind \in {"null", "number", "text", "list", "object"}
      /\ v.kind = "null" => EmptyList(v)
      /\ v.kind = "number" => IsAmount(v)
  BY KindsOfValues
<1>2. CASE v.kind = "list"
  <2> DEFINE id == [k \in DOMAIN v.items |-> k]
  <2>1. \A k \in DOMAIN v.items : v.items[k] \in Below(n)
    BY <1>2, PartsBelow
  <2>2. \A k \in DOMAIN v.items : Same(v.items[k], v.items[k])
    BY <2>1 DEF IsEquivalenceOn
  <2>3. Pairing(SameRoleValue, v.items, v.items, id)
    BY <2>2 DEF Pairing, IsInjective, Same
  <2>4. SameLists(v, v)
    BY <1>2, <2>3 DEF SameLists
  <2>5. QED
    BY <2>4, SameByKind
<1>3. CASE v.kind = "object"
  <2>1. \A k \in DOMAIN v.fields : v.fields[k] \in Below(n)
    BY <1>3, PartsBelow
  <2>2. SameObjects(v, v)
    BY <1>3, <2>1 DEF SameObjects, IsEquivalenceOn
  <2>3. QED
    BY <2>2, SameByKind
<1>4. CASE v.kind \notin {"list", "object"}
  <2>1. BothEmpty(v, v) \/ SameAmounts(v, v) \/ SameTexts(v, v)
    BY <1>1, <1>4 DEF BothEmpty, SameAmounts, SameTexts
  <2>2. QED
    BY <2>1, SameByKind
<1>5. QED
  BY <1>2, <1>3, <1>4

\* A pairing of lists of one length can be read backwards.
LEMMA PairingBackwards ==
    ASSUME NEW gl \in Seq(FieldValues), NEW wl \in Seq(FieldValues), Len(gl) = Len(wl),
           \A i \in DOMAIN gl, k \in DOMAIN wl : Same(gl[i], wl[k]) => Same(wl[k], gl[i]),
           NEW p, Pairing(SameRoleValue, gl, wl, p)
    PROVE  \E q : Pairing(SameRoleValue, wl, gl, q)
<1> DEFINE D == 1..Len(gl)
<1>1. DOMAIN gl = D /\ DOMAIN wl = D
  OBVIOUS
<1>2. IsFiniteSet(D)
  BY FS_Interval
<1>3. p \in Injection(D, D)
  BY <1>1 DEF Pairing, Injection
<1>4. p \in Surjection(D, D)
  BY <1>2, <1>3, FS_Injection
<1>5. p \in [D -> D] /\ \A i \in D : \E k \in D : p[k] = i
  BY <1>4 DEF Surjection
<1> DEFINE q == [i \in D |-> CHOOSE k \in D : p[k] = i]
<1>6. \A i \in D : q[i] \in D /\ p[q[i]] = i
  BY <1>5
<1>7. q \in [D -> D] /\ DOMAIN q = D
  BY <1>6
<1> HIDE DEF q, D
<1>8. IsInjective(q)
  BY <1>6, <1>7 DEF IsInjective
<1>9. \A i \in D : Same(wl[q[i]], gl[i])
  BY <1>1, <1>6 DEF Pairing, Same
<1>10. QED
  BY <1>1, <1>7, <1>8, <1>9 DEF Pairing, Same


LEMMA SameIsSymmetric ==
    ASSUME NEW n \in Nat, IsEquivalenceOn(Below(n)), NEW v \in FieldValues, NEW w \in FieldValues,
           Depth[v] <= n, Depth[w] <= n, Same(v, w)
    PROVE  Same(w, v)
<1>1. CASE SameLists(v, w)
  <2>1. PICK p : Pairing(SameRoleValue, v.items, w.items, p)
    BY <1>1 DEF SameLists
  <2>2. \A i \in DOMAIN v.items, k \in DOMAIN w.items :
            Same(v.items[i], w.items[k]) => Same(w.items[k], v.items[i])
    BY <1>1, PartsBelow DEF SameLists, IsEquivalenceOn
  <2>3. v.items \in Seq(FieldValues) /\ w.items \in Seq(FieldValues)
    BY <1>1, KindsOfValues DEF SameLists
  <2>4. SameLists(w, v)
    BY <1>1, <2>1, <2>2, <2>3, PairingBackwards DEF SameLists
  <2>5. QED
    BY <2>4, SameByKind
<1>2. CASE SameObjects(v, w)
  <2>1. \A k \in DOMAIN w.fields : v.fields[k] \in Below(n) /\ w.fields[k] \in Below(n)
    BY <1>2, PartsBelow DEF SameObjects
  <2>2. SameObjects(w, v)
    BY <1>2, <2>1 DEF SameObjects, IsEquivalenceOn
  <2>3. QED
    BY <2>2, SameByKind
<1>3. CASE BothEmpty(v, w) \/ SameAmounts(v, w) \/ SameTexts(v, w)
  <2>1. BothEmpty(w, v) \/ SameAmounts(w, v) \/ SameTexts(w, v)
    BY <1>3 DEF BothEmpty, SameAmounts, SameTexts
  <2>2. QED
    BY <2>1, SameByKind
<1>4. QED
  BY <1>1, <1>2, <1>3, SameByKind

LEMMA SameIsTransitive ==
    ASSUME NEW n \in Nat, IsEquivalenceOn(Below(n)),
           NEW u \in FieldValues, NEW v \in FieldValues, NEW w \in FieldValues,
           Depth[u] <= n, Depth[v] <= n, Depth[w] <= n, Same(u, v), Same(v, w)
    PROVE  Same(u, w)
<1>1. /\ \/ BothEmpty(u, v) \/ SameAmounts(u, v) \/ SameTexts(u, v)
         \/ SameLists(u, v) \/ SameObjects(u, v)
      /\ \/ BothEmpty(v, w) \/ SameAmounts(v, w) \/ SameTexts(v, w)
         \/ SameLists(v, w) \/ SameObjects(v, w)
  BY SameByKind
<1>2. \A x \in FieldValues :
         /\ EmptyList(x) <=> (x.kind = "null" \/ (x.kind = "list" /\ Len(x.items) = 0))
         /\ IsAmount(x) => x.kind \in {"number", "text"}
  BY KindsOfValues DEF IsAmount
<1>3. CASE EmptyList(v)
  <2>1. EmptyList(u)
    BY <1>1, <1>2, <1>3 DEF BothEmpty, SameAmounts, SameTexts, SameLists, SameObjects
  <2>2. EmptyList(w)
    BY <1>1, <1>2, <1>3 DEF BothEmpty, SameAmounts, SameTexts, SameLists, SameObjects
  <2>3. BothEmpty(u, w)
    BY <2>1, <2>2 DEF BothEmpty
  <2>4. QED
    BY <2>3, SameByKind
<1>4. CASE ~EmptyList(v) /\ v.kind = "list"
  <2>1. SameLists(u, v) /\ SameLists(v, w)
    BY <1>1, <1>2, <1>4 DEF BothEmpty, SameAmounts, SameTexts, SameLists, SameObjects
  <2>2. PICK p : Pairing(SameRoleValue, u.items, v.items, p)
    BY <2>1 DEF SameLists
  <2>3. PICK q : Pairing(SameRoleValue, v.items, w.items, q)
    BY <2>1 DEF SameLists
  <2> DEFINE r == [k \in DOMAIN w.items |-> p[q[k]]]
  <2>4. r \in [DOMAIN w.items -> DOMAIN u.items] /\ IsInjective(r)
    BY <2>2, <2>3 DEF Pairing, IsInjective
  <2>5. ASSUME NEW k \in DOMAIN w.items PROVE Same(u.items[r[k]], w.items[k])
    <3>1. q[k] \in DOMAIN v.items /\ r[k] = p[q[k]] /\ r[k] \in DOMAIN u.items
      BY <2>2, <2>3 DEF Pairing
    <3>2. Same(u.items[r[k]], v.items[q[k]]) /\ Same(v.items[q[k]], w.items[k])
      BY <2>2, <2>3, <3>1 DEF Pairing, Same
    <3>3. /\ u.items[r[k]] \in Below(n) /\ v.items[q[k]] \in Below(n)
          /\ w.items[k] \in Below(n)
      BY <2>1, <3>1, PartsBelow DEF SameLists
    <3>4. QED
      BY <3>2, <3>3 DEF IsEquivalenceOn
  <2> HIDE DEF r
  <2>6. SameLists(u, w)
    BY <2>1, <2>4, <2>5 DEF SameLists, Pairing, Same
  <2>7. QED
    BY <2>6, SameByKind
<1>5. CASE v.kind = "object"
  <2>1. SameObjects(u, v) /\ SameObjects(v, w)
    BY <1>1, <1>2, <1>5 DEF BothEmpty, SameAmounts, SameTexts, SameLists, SameObjects
  <2>2. \A k \in DOMAIN w.fields : /\ u.fields[k] \in Below(n) /\ v.fields[k] \in Below(n)
                                   /\ w.fields[k] \in Below(n)
    BY <2>1, PartsBelow DEF SameObjects
  <2>3. SameObjects(u, w)
    BY <2>1, <2>2 DEF SameObjects, IsEquivalenceOn
  <2>4. QED
    BY <2>3, SameByKind
<1>6. CASE ~EmptyList(v) /\ v.kind \notin {"list", "object"}
  <2>1. SameAmounts(u, w) \/ SameTexts(u, w)
    BY <1>1, <1>6 DEF BothEmpty, SameAmounts, SameTexts, SameLists, SameObjects
  <2>2. QED
    BY <2>1, SameByKind
<1>7. QED
  BY <1>3, <1>4, <1>5, <1>6

LEMMA EquivalenceBelow ==
    ASSUME NEW n \in Nat
    PROVE  IsEquivalenceOn(Below(n))
<1> DEFINE broken == { m \in Nat : ~IsEquivalenceOn(Below(m)) }
<1>1. SUFFICES ASSUME broken # {} PROVE FALSE
  OBVIOUS
<1>2. PICK m \in broken : \A e \in broken : m <= e
  <2>1. broken \in SUBSET Nat
    OBVIOUS
  <2> HIDE DEF broken
  <2>2. QED
    BY <1>1, <2>1, LeastNumber
<1>3. m \in Nat /\ ~IsEquivalenceOn(Below(m))
  OBVIOUS
<1>4. \A v \in FieldValues : Depth[v] \in Nat
  BY PartsAreLessDeep
<1>5. m # 0
  <2>1. Below(0) = {}
    BY <1>4 DEF Below
  <2>2. QED
    BY <1>3, <2>1 DEF IsEquivalenceOn
<1>6. m - 1 \in Nat /\ IsEquivalenceOn(Below(m - 1))
  <2>1. m - 1 \in Nat /\ ~(m <= m - 1)
    BY <1>3, <1>5
  <2>2. QED
    BY <1>2, <2>1
<1>7. \A v \in Below(m) : v \in FieldValues /\ Depth[v] <= m - 1
  BY <1>3, <1>4 DEF Below
<1>8. IsEquivalenceOn(Below(m))
  BY <1>6, <1>7, SameIsReflexive, SameIsSymmetric, SameIsTransitive DEF IsEquivalenceOn
<1>9. QED
  BY <1>3, <1>8

LEMMA SameIsAnEquivalence == IsEquivalenceOn(FieldValues)
<1>1. \A u, v, w \in FieldValues : \E n \in Nat : u \in Below(n) /\ v \in Below(n) /\ w \in Below(n)
  <2>1. SUFFICES ASSUME NEW u \in FieldValues, NEW v \in FieldValues, NEW w \in FieldValues
                 PROVE  \E n \in Nat : u \in Below(n) /\ v \in Below(n) /\ w \in Below(n)
    OBVIOUS
  <2> DEFINE n == Depth[u] + Depth[v] + Depth[w] + 1
  <2>2. Depth[u] \in Nat /\ Depth[v] \in Nat /\ Depth[w] \in Nat
    BY PartsAreLessDeep
  <2>3. n \in Nat /\ Depth[u] < n /\ Depth[v] < n /\ Depth[w] < n
    BY <2>2
  <2>4. QED
    BY <2>3 DEF Below
<1>2. QED
  BY <1>1, EquivalenceBelow DEF IsEquivalenceOn

(***************************************************************************)
(* Whatever values the roles hold, two of them are the same just when the  *)
(* same values are the same as they are: sameRoleValue is reflexive,       *)
(* symmetric and transitive, at any depth of nesting.                      *)
(***************************************************************************)
THEOREM SameRoleValueIsEquivalence == SameIsEquivalence
<1> DEFINE like == [v \in FieldValues |-> { w \in FieldValues : SameRoleValue[<<v, w>>] }]
<1>1. ASSUME NEW got \in FieldValues, NEW want \in FieldValues
      PROVE  SameRoleValue[<<got, want>>] <=> like[got] = like[want]
  <2>1. /\ like[got] = { w \in FieldValues : Same(got, w) }
        /\ like[want] = { w \in FieldValues : Same(want, w) }
    BY DEF Same
  <2>2. Same(got, want) => like[got] = like[want]
    BY <2>1, SameIsAnEquivalence DEF IsEquivalenceOn
  <2>3. like[got] = like[want] => Same(got, want)
    BY <2>1, SameIsAnEquivalence DEF IsEquivalenceOn
  <2>4. QED
    BY <2>2, <2>3, SameIsDefined DEF Same, Comparisons, Pairs
<1>2. QED
  BY <1>1 DEF SameIsEquivalence

(***************************************************************************)
(* Whatever lists the roles hold, the pairing in sameRoleValue that takes  *)
(* the first element that fits succeeds whenever any pairing does.         *)
(***************************************************************************)
THEOREM FirstFitIsGoodEnough == FirstFitIsAnyFit
<1>1. SUFFICES ASSUME NEW got \in FieldValues, NEW want \in FieldValues,
                      got.kind = "list", want.kind = "list"
               PROVE  SameRoleValue[<<got, want>>] <=>
                        /\ LengthsAgree(got.items, want.items)
                        /\ \E p : Pairing(SameRoleValue, got.items, want.items, p)
  BY DEF FirstFitIsAnyFit, Pairing
<1> DEFINE n == Depth[got] + Depth[want]
<1>2. Depth[got] \in Nat /\ Depth[want] \in Nat
  BY PartsAreLessDeep
<1>3. n \in Nat /\ Depth[got] <= n /\ Depth[want] <= n
  BY <1>2
<1> HIDE DEF n
<1>4. IsEquivalenceOn(Below(n))
  BY <1>3, EquivalenceBelow
<1>5. FirstFit(SameRoleValue, got.items, want.items)
      <=> \E p : Pairing(SameRoleValue, got.items, want.items, p)
  BY <1>1, <1>3, <1>4, ListsOfAlike
<1>6. SameRoleValue[<<got, want>>] <=> Compare(SameRoleValue, got, want)
  BY SameIsDefined
<1>7. ~IsAmount(got) /\ got # Null /\ want # Null /\ want.kind # "text"
  BY <1>1, KindsOfValues DEF IsAmount
<1>8. QED
  BY <1>1, <1>5, <1>6, <1>7 DEF Compare

(***************************************************************************)
(* While roles are compared, the comparison is an equivalence, and of      *)
(* lists it is that of bags.                                               *)
(***************************************************************************)
THEOREM ComparisonsAreFair == Spec => []ComparisonIsFair
<1>1. ComparisonIsFair
  BY SameRoleValueIsEquivalence, FirstFitIsGoodEnough DEF ComparisonIsFair
<1>2. QED
  BY <1>1, PTL
=============================================================================
