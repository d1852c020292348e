------------------------------- MODULE MCRoles -------------------------------
(***************************************************************************)
(* Small instances of Roles: one directory on each of two paths, and one   *)
(* path whose auth mount the manager made.                                 *)
(***************************************************************************)
EXTENDS RoleValues, TLC

CONSTANTS p1, p2, d1, d2, n1, n2, a, b

McPathOf == d1 :> p1 @@ d2 :> p2
McSpelled == {"5m", "300s", "1h"}
McValues == {"300", "3600"}
McValueOf == "5m" :> "300" @@ "300s" :> "300" @@ "1h" :> "3600"

Body(x, y) == a :> x @@ b :> y
Of(declared, full) ==
    [roles |-> [r \in Roles |-> IF r \in DOMAIN declared THEN declared[r] ELSE Undeclared],
     full |-> full]

\* A role with two keys, with one, with the same value spelled otherwise; a
\* role on the other path; nothing, with no authority.
McSpecs ==
    { Of(<<d1, n1>> :> Body("5m", "1h"), TRUE),
      Of(<<d1, n1>> :> Body("300s", Omitted), TRUE),
      Of(<<d1, n1>> :> Body("1h", Omitted) @@ <<d2, n2>> :> Body("5m", Omitted), TRUE),
      Of(<<d2, n2>> :> Body("5m", "5m"), FALSE) }

\* Values a role may have: scalars, three spellings of one amount, and lists
\* and objects of them, one level deep or two.
Minutes == { Number(300), Text("5m", 300), Text("60s", 60) }
Scalars == Minutes \cup { Null, Text("x", NoAmount) }
Lists(vs) == { List(<<>>) } \cup { List(<<v>>) : v \in vs }
             \cup { List(<<v, w>>) : v, w \in vs }
Objects(vs) == { Object("f" :> v) : v \in vs }
               \cup { Object("f" :> v @@ "g" :> w) : v, w \in vs }
McFieldValues ==
    Scalars \cup Lists(Scalars)
    \cup Objects({ Null, Number(300), Text("5m", 300), List(<<>>) })
    \cup Lists({ List(<<Number(300), Text("x", NoAmount)>>),
                 List(<<Text("x", NoAmount), Text("5m", 300)>>), List(<<>>), Null })
    \cup { List(<<v, w, u>>) : v, w, u \in { Text("5m", 300), Text("60s", 60) } }

RECURSIVE DepthOf(_)
DepthOf(v) == IF Parts(v) = {} THEN 0
              ELSE 1 + Max({ DepthOf(part) : part \in Parts(v) })
McDepth == [v \in McFieldValues |-> DepthOf(v)]

McFound == { Body("300", "3600") }
=============================================================================
