---------------------------- MODULE ValueProofs ----------------------------
(***************************************************************************)
(* Theorems about the parts that are only values: comparators, views of    *)
(* variants and concatenated views.                                        *)
(***************************************************************************)
EXTENDS Comparators, VariantView, ConcatView, Induction

-----------------------------------------------------------------------------
(* Comparators keeps PromiseKept for any elements, keys and comparators:   *)
(* each way to put comparators together makes a lawful one of lawful ones, *)
(* promote() if the ties of its first operand are transitive.              *)

\* The answers of composed comparators, one pair of elements at a time.
LEMMA ThenAt ==
  ASSUME NEW f, NEW g, NEW x \in Elements, NEW y \in Elements
  PROVE  Then(f, g)[x][y] = IF f[x][y] = "equivalent" THEN g[x][y] ELSE f[x][y]
BY DEF Then, ThenOutcome

LEMMA PromoteAt ==
  ASSUME NEW f, NEW g, NEW x \in Elements, NEW y \in Elements
  PROVE  Promote(f, g)[x][y] = IF f[x][y] \in Decisive THEN f[x][y] ELSE g[x][y]
BY DEF Promote

LEMMA ExtractAt ==
  ASSUME NEW f, NEW key, NEW x \in Elements, NEW y \in Elements
  PROVE  Extract(key, f)[x][y] = f[key[x]][key[y]]
BY DEF Extract

LEMMA OutcomeAt ==
  ASSUME NEW f, IsFun(f), NEW x \in Elements, NEW y \in Elements
  PROVE  f[x][y] \in Outcomes
BY DEF IsFun

\* Equivalent elements are interchangeable on either side.
LEMMA Interchangeable ==
  ASSUME NEW f, IsFun(f), Mirrored(f), Transitive(f),
         NEW x \in Elements, NEW y \in Elements, NEW z \in Elements,
         f[x][y] = "equivalent"
  PROVE  f[x][z] = f[y][z] /\ f[z][x] = f[z][y]
<1>1. f[x][z] = f[y][z]  BY DEF Transitive
<1>2. f[z][x] = Mirror(f[x][z]) /\ f[z][y] = Mirror(f[y][z])  BY DEF Mirrored
<1> QED  BY <1>1, <1>2

-----------------------------------------------------------------------------
LEMMA ThenIsFun ==
  ASSUME NEW f, NEW g, IsFun(f), IsFun(g)
  PROVE  IsFun(Then(f, g))
<1>1. \A x, y \in Elements : ThenOutcome(f[x][y], g[x][y]) \in Outcomes
  BY OutcomeAt DEF ThenOutcome
<1> QED  BY <1>1 DEF Then, IsFun

LEMMA PromoteIsFun ==
  ASSUME NEW f, NEW g, IsFun(f), IsFun(g)
  PROVE  IsFun(Promote(f, g))
<1>1. \A x, y \in Elements : (IF f[x][y] \in Decisive THEN f[x][y] ELSE g[x][y]) \in Outcomes
  BY OutcomeAt
<1> QED  BY <1>1 DEF Promote, IsFun

\* then() of two orders is an order: less by the first, or equal there and
\* less by the second.
LEMMA ThenTransitive ==
  ASSUME NEW f, NEW g, IsFun(f), Mirrored(f), Transitive(f), Transitive(g)
  PROVE  Transitive(Then(f, g))
<1> SUFFICES ASSUME NEW x \in Elements, NEW y \in Elements, NEW z \in Elements
             PROVE  /\ Then(f, g)[x][y] = "less" /\ Then(f, g)[y][z] = "less"
                         => Then(f, g)[x][z] = "less"
                    /\ Then(f, g)[x][y] = "equivalent" => Then(f, g)[x][z] = Then(f, g)[y][z]
  BY DEF Transitive
<1>1. ASSUME Then(f, g)[x][y] = "less", Then(f, g)[y][z] = "less"
      PROVE  Then(f, g)[x][z] = "less"
  <2>1. CASE f[x][y] = "less" /\ f[y][z] = "less"
    <3>1. f[x][z] = "less"  BY <2>1 DEF Transitive
    <3> QED  BY <3>1, ThenAt
  <2>2. CASE f[x][y] = "less" /\ f[y][z] = "equivalent"
    <3>1. f[x][z] = "less"  BY <2>2, Interchangeable
    <3> QED  BY <3>1, ThenAt
  <2>3. CASE f[x][y] = "equivalent" /\ f[y][z] = "less"
    <3>1. f[x][z] = "less"  BY <2>3, Interchangeable
    <3> QED  BY <3>1, ThenAt
  <2>4. CASE f[x][y] = "equivalent" /\ f[y][z] = "equivalent"
    <3>1. f[x][z] = "equivalent"  BY <2>4, Interchangeable
    <3>2. g[x][y] = "less" /\ g[y][z] = "less"  BY <1>1, <2>4, ThenAt
    <3>3. g[x][z] = "less"  BY <3>2 DEF Transitive
    <3> QED  BY <3>1, <3>3, ThenAt
  <2> QED  BY <1>1, <2>1, <2>2, <2>3, <2>4, ThenAt
<1>2. ASSUME Then(f, g)[x][y] = "equivalent"
      PROVE  Then(f, g)[x][z] = Then(f, g)[y][z]
  <2>1. f[x][y] = "equivalent" /\ g[x][y] = "equivalent"  BY <1>2, ThenAt
  <2>2. f[x][z] = f[y][z] /\ g[x][z] = g[y][z]  BY <2>1 DEF Transitive
  <2> QED  BY <2>2, ThenAt
<1> QED  BY <1>1, <1>2

LEMMA ThenLawful ==
  ASSUME NEW c, NEW d, NEW f, NEW g, Lawful(c, f), Lawful(d, g)
  PROVE  Lawful(CommonCategory(c, d), Then(f, g))
<1>1. IsFun(Then(f, g))  BY ThenIsFun DEF Lawful
<1>2. Mirrored(Then(f, g))
  <2> SUFFICES ASSUME NEW x \in Elements, NEW y \in Elements
               PROVE  Then(f, g)[y][x] = Mirror(Then(f, g)[x][y])
    BY DEF Mirrored
  <2>1. f[x][y] \in Outcomes /\ g[x][y] \in Outcomes  BY OutcomeAt DEF Lawful
  <2>2. f[y][x] = Mirror(f[x][y]) /\ g[y][x] = Mirror(g[x][y])  BY DEF Lawful, Mirrored
  <2> QED  BY <2>1, <2>2, ThenAt DEF Mirror, Outcomes
<1>3. Transitive(Then(f, g))  BY ThenTransitive DEF Lawful
<1>4. ASSUME CommonCategory(c, d) # "partial" PROVE Total(Then(f, g))
  <2>1. Total(f) /\ Total(g)  BY <1>4 DEF CommonCategory, Lawful
  <2> QED  BY <2>1, ThenAt DEF Total
<1> QED  BY <1>1, <1>2, <1>3, <1>4 DEF Lawful

-----------------------------------------------------------------------------
\* In an order whose ties are transitive, tied elements compare alike.
LEMMA TiedAlike ==
  ASSUME NEW f, IsFun(f), Mirrored(f), Transitive(f), TiesTransitive(f),
         NEW x \in Elements, NEW y \in Elements, NEW z \in Elements,
         f[x][y] \notin Decisive
  PROVE  /\ f[x][z] \in Decisive <=> f[y][z] \in Decisive
         /\ f[x][z] \in Decisive => f[x][z] = f[y][z]
<1>1. f[y][x] \notin Decisive
  <2>1. f[y][x] = Mirror(f[x][y]) /\ f[x][y] \in Outcomes  BY OutcomeAt DEF Mirrored
  <2> QED  BY <2>1 DEF Mirror, Decisive, Outcomes
<1>2. f[x][z] \notin Decisive => f[y][z] \notin Decisive  BY <1>1 DEF TiesTransitive
<1>3. f[y][z] \notin Decisive => f[x][z] \notin Decisive  BY DEF TiesTransitive
<1>4. ASSUME f[x][z] \in Decisive, f[x][z] # f[y][z] PROVE FALSE
  <2>1. f[z][y] = Mirror(f[y][z]) /\ f[z][x] = Mirror(f[x][z])  BY DEF Mirrored
  <2>2. CASE f[x][z] = "less" /\ f[y][z] = "greater"
    <3>1. f[z][y] = "less"  BY <2>1, <2>2 DEF Mirror
    <3>2. f[x][y] = "less"  BY <3>1, <2>2 DEF Transitive
    <3> QED  BY <3>2 DEF Decisive
  <2>3. CASE f[x][z] = "greater" /\ f[y][z] = "less"
    <3>1. f[z][x] = "less"  BY <2>1, <2>3 DEF Mirror
    <3>2. f[y][x] = "less"  BY <3>1, <2>3 DEF Transitive
    <3> QED  BY <3>2, <1>1 DEF Decisive
  <2> QED  BY <1>2, <1>3, <1>4, <2>2, <2>3 DEF Decisive
<1> QED  BY <1>2, <1>3, <1>4

\* promote(): the first comparator sorts into groups of ties, the second
\* sorts each group.
LEMMA PromoteTransitive ==
  ASSUME NEW f, NEW g, IsFun(f), Mirrored(f), Transitive(f), TiesTransitive(f), Transitive(g)
  PROVE  Transitive(Promote(f, g))
<1> DEFINE p == Promote(f, g)
<1> SUFFICES ASSUME NEW x \in Elements, NEW y \in Elements, NEW z \in Elements
             PROVE  /\ p[x][y] = "less" /\ p[y][z] = "less" => p[x][z] = "less"
                    /\ p[x][y] = "equivalent" => p[x][z] = p[y][z]
  BY DEF Transitive
<1>1. /\ p[x][y] = IF f[x][y] \in Decisive THEN f[x][y] ELSE g[x][y]
      /\ p[y][z] = IF f[y][z] \in Decisive THEN f[y][z] ELSE g[y][z]
      /\ p[x][z] = IF f[x][z] \in Decisive THEN f[x][z] ELSE g[x][z]
  BY PromoteAt
<1> HIDE DEF p
<1>2. ASSUME p[x][y] = "less", p[y][z] = "less" PROVE p[x][z] = "less"
  <2>1. CASE f[x][y] \in Decisive /\ f[y][z] \in Decisive
    <3>1. f[x][z] = "less"  BY <1>1, <1>2, <2>1 DEF Transitive
    <3> QED  BY <3>1, <1>1 DEF Decisive
  <2>2. CASE f[x][y] \in Decisive /\ f[y][z] \notin Decisive
    <3>1. f[x][y] = "less"  BY <1>1, <1>2, <2>2
    <3>2. f[y][x] = "greater"  BY <3>1 DEF Mirrored, Mirror
    <3>3. f[y][x] = f[z][x]  BY <2>2, <3>2, TiedAlike DEF Decisive
    <3>4. f[x][z] = "less"  BY <3>2, <3>3 DEF Mirrored, Mirror
    <3> QED  BY <3>4, <1>1 DEF Decisive
  <2>3. CASE f[x][y] \notin Decisive /\ f[y][z] \in Decisive
    <3>1. f[y][z] = "less"  BY <1>1, <1>2, <2>3
    <3>2. f[x][z] = "less"  BY <3>1, <2>3, TiedAlike DEF Decisive
    <3> QED  BY <3>2, <1>1 DEF Decisive
  <2>4. CASE f[x][y] \notin Decisive /\ f[y][z] \notin Decisive
    <3>1. f[x][z] \notin Decisive  BY <2>4 DEF TiesTransitive
    <3>2. g[x][z] = "less"  BY <1>1, <1>2, <2>4 DEF Transitive
    <3> QED  BY <3>1, <3>2, <1>1
  <2> QED  BY <2>1, <2>2, <2>3, <2>4
<1>3. ASSUME p[x][y] = "equivalent" PROVE p[x][z] = p[y][z]
  <2>1. f[x][y] \notin Decisive /\ g[x][y] = "equivalent"  BY <1>1, <1>3 DEF Decisive
  <2>2. g[x][z] = g[y][z]  BY <2>1 DEF Transitive
  <2>3. /\ f[x][z] \in Decisive <=> f[y][z] \in Decisive
        /\ f[x][z] \in Decisive => f[x][z] = f[y][z]
    BY <2>1, TiedAlike
  <2> QED  BY <1>1, <2>2, <2>3
<1> QED  BY <1>2, <1>3

LEMMA PromoteLawful ==
  ASSUME NEW c, NEW d, NEW f, NEW g, Lawful(c, f), Lawful(d, g), TiesTransitive(f)
  PROVE  Lawful(d, Promote(f, g))
<1>1. IsFun(Promote(f, g))  BY PromoteIsFun DEF Lawful
<1>2. Mirrored(Promote(f, g))
  <2> SUFFICES ASSUME NEW x \in Elements, NEW y \in Elements
               PROVE  Promote(f, g)[y][x] = Mirror(Promote(f, g)[x][y])
    BY DEF Mirrored
  <2>1. f[x][y] \in Outcomes /\ g[x][y] \in Outcomes  BY OutcomeAt DEF Lawful
  <2>2. f[y][x] = Mirror(f[x][y]) /\ g[y][x] = Mirror(g[x][y])  BY DEF Lawful, Mirrored
  <2> QED  BY <2>1, <2>2, PromoteAt DEF Mirror, Outcomes, Decisive
<1>3. Transitive(Promote(f, g))  BY PromoteTransitive DEF Lawful
<1>4. ASSUME d # "partial" PROVE Total(Promote(f, g))
  <2>1. Total(g)  BY <1>4 DEF Lawful
  <2> QED  BY <2>1, PromoteAt DEF Total, Decisive
<1> QED  BY <1>1, <1>2, <1>3, <1>4 DEF Lawful

LEMMA ExtractLawful ==
  ASSUME NEW c, NEW f, Lawful(c, f), NEW key \in [Elements -> Elements]
  PROVE  Lawful(c, Extract(key, f))
<1>1. IsFun(Extract(key, f))
  <2>1. \A x, y \in Elements : f[key[x]][key[y]] \in Outcomes  BY OutcomeAt DEF Lawful
  <2> QED  BY <2>1 DEF Extract, IsFun
<1>2. Mirrored(Extract(key, f))
  <2>1. \A x, y \in Elements : f[key[y]][key[x]] = Mirror(f[key[x]][key[y]])
    BY DEF Lawful, Mirrored
  <2> QED  BY <2>1, ExtractAt DEF Mirrored
<1>3. Transitive(Extract(key, f))
  <2>1. \A x, y, z \in Elements :
          /\ f[key[x]][key[y]] = "less" /\ f[key[y]][key[z]] = "less" => f[key[x]][key[z]] = "less"
          /\ f[key[x]][key[y]] = "equivalent" => f[key[x]][key[z]] = f[key[y]][key[z]]
    BY DEF Lawful, Transitive
  <2> QED  BY <2>1, ExtractAt DEF Transitive
<1>4. c # "partial" => Total(Extract(key, f))  BY ExtractAt DEF Lawful, Total
<1> QED  BY <1>1, <1>2, <1>3, <1>4 DEF Lawful

-----------------------------------------------------------------------------
\* A comparator piped together from any comparators with then(), promote() and
\* extract() keeps the promise of its category, unless promote() was given one
\* whose ties are not transitive.  PromiseKept is inductive.
THEOREM PromiseAlwaysKept == CmpSpec => []PromiseKept
<1> KeysOK  BY CmpParameters DEF CmpParameters
<1>1. CmpInit => PromiseKept  BY DEF CmpInit, PromiseKept
<1>2. PromiseKept /\ [CmpNext]_cmpVars => PromiseKept'
  <2> SUFFICES ASSUME PromiseKept, [CmpNext]_cmpVars, ~lossy' PROVE Lawful(cat', fun')
    BY DEF PromiseKept
  <2>1. CASE UNCHANGED cmpVars  BY <2>1 DEF cmpVars, PromiseKept
  <2>2. ASSUME NEW c \in Given, PipeThen(c) PROVE Lawful(cat', fun')
    <3>1. Lawful(cat, fun) /\ Lawful(c.cat, c.fun)  BY <2>2 DEF PipeThen, PromiseKept
    <3> QED  BY <2>2, <3>1, ThenLawful DEF PipeThen
  <2>3. ASSUME NEW c \in Given, PipePromote(c) PROVE Lawful(cat', fun')
    <3>1. Lawful(cat, fun) /\ Lawful(c.cat, c.fun) /\ TiesTransitive(fun)
      BY <2>3 DEF PipePromote, PromiseKept
    <3> QED  BY <2>3, <3>1, PromoteLawful DEF PipePromote
  <2>4. ASSUME NEW c \in Given, NEW key \in Keys, PipeKey(key, c) PROVE Lawful(cat', fun')
    <3>1. Lawful(cat, fun) /\ Lawful(c.cat, c.fun)  BY <2>4 DEF PipeKey, PromiseKept
    <3>2. Lawful(c.cat, Extract(key, c.fun))  BY <3>1, ExtractLawful DEF KeysOK
    <3> QED  BY <2>4, <3>1, <3>2, ThenLawful DEF PipeKey
  <2> QED  BY <2>1, <2>2, <2>3, <2>4 DEF CmpNext
<1> QED  BY <1>1, <1>2, PTL DEF CmpSpec

\* A comparator added later only breaks ties: what was less or greater stays
\* so, for whoever sorted by the shorter chain.
THEOREM LaterOnlyBreaksTies == CmpSpec => OnlyBreaksTies
<1> DEFINE Kept == \A x, y \in Elements : fun[x][y] \in Decisive => fun'[x][y] = fun[x][y]
<1>1. [CmpNext]_cmpVars => [Kept]_cmpVars
  <2> SUFFICES ASSUME CmpNext PROVE Kept  OBVIOUS
  <2>1. ASSUME NEW g, fun' = Then(fun, g) PROVE Kept
    BY <2>1, ThenAt DEF Decisive
  <2>2. ASSUME NEW g, fun' = Promote(fun, g) PROVE Kept
    BY <2>2, PromoteAt
  <2> QED  BY <2>1, <2>2 DEF CmpNext, PipeThen, PipePromote, PipeKey
<1> QED  BY <1>1, PTL DEF CmpSpec, OnlyBreaksTies

-----------------------------------------------------------------------------
(* variant_view: all ways to a value agree, for any variants and packs.    *)

ViewTypeOK ==
  /\ variant \in [Variants -> [type : Types, value : Values]]
  /\ view \in [Views -> [base : Variants \union {Null}, types : Packs]]

LEMMA ViewTypeInitial ==
  ASSUME ViewInit
  PROVE  ViewTypeOK
<1>1. (CHOOSE p \in Packs : TRUE) \in Packs  BY PackTypes DEF PackTypes
<1> QED  BY <1>1 DEF ViewInit, ViewTypeOK

LEMMA ViewTypeStep ==
  ASSUME ViewTypeOK, [ViewNext]_viewVars
  PROVE  ViewTypeOK'
<1> USE DEF ViewTypeOK
<1>1. ASSUME NEW a \in Variants, NEW t \in Types, NEW x \in Values, AssignVariant(a, t, x)
      PROVE  ViewTypeOK'
  BY <1>1 DEF AssignVariant
<1>2. ASSUME NEW v \in Views, NEW p \in Packs, NEW b \in Variants \union {Null}, Construct(v, b, p)
      PROVE  ViewTypeOK'
  BY <1>2 DEF Construct
<1>3. ASSUME NEW v \in Views, NEW p \in Packs, NEW w \in Views, Convert(v, w, p)
      PROVE  ViewTypeOK'
  <2>1. view[w].base \in Variants \union {Null}  OBVIOUS
  <2> QED  BY <1>3, <2>1 DEF Convert, Construct
<1>4. CASE Swap
  <2>1. view' = [n \in Views |-> IF n = "v" THEN view["w"] ELSE view["v"]]
    BY <1>4 DEF Swap, Views
  <2> QED  BY <1>4, <2>1 DEF Swap, Views
<1>5. CASE UNCHANGED viewVars  BY <1>5 DEF viewVars
<1> QED  BY <1>1, <1>2, <1>3, <1>4, <1>5 DEF ViewNext

\* A view, its pack and the variant it points to, if any.
LEMMA ViewParts ==
  ASSUME ViewTypeOK, NEW v \in Views
  PROVE  /\ view[v].types \in Seq(Types) /\ Len(view[v].types) \in Nat \ {0}
         /\ DOMAIN view[v].types = 1..Len(view[v].types)
         /\ ~Invalid(v) => /\ view[v].base \in Variants
                           /\ Base(v) = [type |-> Base(v).type, value |-> Base(v).value]
                           /\ Base(v).type \in Int /\ Base(v).value \in Int
<1>1. view[v].types \in Packs /\ view[v].base \in Variants \union {Null}  BY DEF ViewTypeOK
<1>2. view[v].types \in Seq(Types) /\ view[v].types # <<>>  BY <1>1, PackTypes DEF PackTypes
<1>3. Len(view[v].types) \in Nat \ {0}  BY <1>2
<1>4. ASSUME ~Invalid(v)
      PROVE  /\ view[v].base \in Variants
             /\ Base(v) = [type |-> Base(v).type, value |-> Base(v).value]
             /\ Base(v).type \in Int /\ Base(v).value \in Int
  <2>1. view[v].base \in Variants  BY <1>1, <1>4 DEF Invalid
  <2>2. Base(v) \in [type : Types, value : Values]  BY <2>1 DEF Base, ViewTypeOK
  <2> QED  BY <2>1, <2>2, PackTypes DEF PackTypes
<1> QED  BY <1>2, <1>3, <1>4

\* What a visit finds.
LEMMA VisitFinds ==
  ASSUME ViewTypeOK, NEW v \in Views
  PROVE  \/ Invalid(v) /\ VisitView(v) = Uninitialized
         \/ /\ ~Invalid(v) /\ VisitView(v) = BadAccess
            /\ \A i \in DOMAIN view[v].types : view[v].types[i] # Base(v).type
         \/ /\ ~Invalid(v) /\ VisitView(v) = Value(Base(v).value)
            /\ \E i \in DOMAIN view[v].types : view[v].types[i] = Base(v).type
BY DEF VisitView, Catches, InPack

LEMMA ResultsDiffer ==
  /\ \A x : Value(x) # BadAccess /\ Value(x) # Uninitialized /\ Value(x) # NullPointer
  /\ \A x : Value(x)[1] = "value"
  /\ BadAccess # Uninitialized /\ BadAccess # NullPointer /\ Uninitialized # NullPointer
  /\ BadAccess[1] # "value" /\ Uninitialized[1] # "value"
BY DEF Value, BadAccess, Uninitialized, NullPointer

\* get, get_if and visit.
LEMMA GetsAgree ==
  ASSUME ViewTypeOK, NEW v \in Views
  PROVE  /\ \/ /\ VisitView(v) \in {Uninitialized, BadAccess}
               /\ \A i \in DOMAIN view[v].types :
                    GetAt(v, i) = VisitView(v) /\ GetIf(v, view[v].types[i]) = NullPointer
            \/ \E i \in DOMAIN view[v].types :
                 /\ VisitView(v) = GetAt(v, i) /\ VisitView(v) = GetIf(v, view[v].types[i])
                 /\ \A j \in DOMAIN view[v].types :
                      view[v].types[j] # view[v].types[i] => GetAt(v, j) = BadAccess
         /\ \A i \in DOMAIN view[v].types :
              Holds(v, view[v].types[i]) <=> GetAt(v, i) = VisitView(v) /\ VisitView(v)[1] = "value"
<1> USE ResultsDiffer
<1>1. CASE Invalid(v)
  BY <1>1, VisitFinds DEF GetAt, Get, GetIf, Holds
<1>2. CASE ~Invalid(v) /\ VisitView(v) = BadAccess
  BY <1>2, VisitFinds DEF GetAt, Get, GetIf, Holds
<1>3. CASE ~Invalid(v) /\ VisitView(v) = Value(Base(v).value)
  <2>1. PICK i \in DOMAIN view[v].types : view[v].types[i] = Base(v).type
    BY <1>3, VisitFinds
  <2>2. VisitView(v) = GetAt(v, i) /\ VisitView(v) = GetIf(v, view[v].types[i])
    BY <1>3, <2>1 DEF GetAt, Get, GetIf
  <2>3. \A j \in DOMAIN view[v].types :
          view[v].types[j] # view[v].types[i] => GetAt(v, j) = BadAccess
    BY <1>3, <2>1 DEF GetAt, Get
  <2>4. \A j \in DOMAIN view[v].types :
          Holds(v, view[v].types[j]) <=> GetAt(v, j) = VisitView(v) /\ VisitView(v)[1] = "value"
    BY <1>3 DEF GetAt, Get, Holds
  <2> QED  BY <2>1, <2>2, <2>3, <2>4
<1> QED  BY <1>1, <1>2, <1>3, VisitFinds

\* operator*, operator-> and operator bool.
LEMMA SinglesAgree ==
  ASSUME ViewTypeOK, NEW v \in Views, Single(v)
  PROVE  /\ Deref(v) = VisitView(v) /\ Arrow(v) = VisitView(v)
         /\ Bool(v) <=> VisitView(v)[1] = "value"
<1> USE ResultsDiffer
<1>1. DOMAIN view[v].types = {1}  BY ViewParts DEF Single
<1>2. CASE Invalid(v)
  BY <1>2, VisitFinds DEF Deref, Arrow, Bool
<1>3. CASE ~Invalid(v) /\ view[v].types[1] # Base(v).type
  <2>1. VisitView(v) = BadAccess  BY <1>1, <1>3, VisitFinds
  <2> QED  BY <1>3, <2>1 DEF Deref, Arrow, Bool, GetAt, Get, GetIf
<1>4. CASE ~Invalid(v) /\ view[v].types[1] = Base(v).type
  <2>1. VisitView(v) = Value(Base(v).value)  BY <1>1, <1>4, VisitFinds
  <2> QED  BY <1>4, <2>1 DEF Deref, Arrow, Bool, GetAt, Get, GetIf
<1> QED  BY <1>2, <1>3, <1>4

\* visit of two views.
LEMMA VisitsAgree ==
  ASSUME NEW v \in Views, NEW w \in Views
  PROVE  VisitViews(v, w)[1] = "value" <=> VisitView(v)[1] = "value" /\ VisitView(w)[1] = "value"
<1>1. CASE VisitView(w)[1] # "value"  BY <1>1 DEF VisitViews
<1>2. CASE VisitView(w)[1] = "value" /\ VisitView(v)[1] # "value"  BY <1>2 DEF VisitViews
<1>3. CASE VisitView(w)[1] = "value" /\ VisitView(v)[1] = "value"
  <2>1. VisitViews(v, w) = <<"value", VisitView(v)[2], VisitView(w)[2]>>  BY <1>3 DEF VisitViews
  <2> QED  BY <1>3, <2>1
<1> QED  BY <1>1, <1>2, <1>3

\* == and <=>.
LEMMA ComparisonsAgree ==
  ASSUME ViewTypeOK, NEW v \in Views, NEW w \in Views
  PROVE  /\ Equal(v, w) <=> Order(v, w) = "equivalent"
         /\ Order(v, w) = "less" <=> Order(w, v) = "greater"
<1>1. CASE Invalid(v) \/ Invalid(w)  BY <1>1 DEF Equal, Order
<1>2. CASE ~Invalid(v) /\ ~Invalid(w)
  <2> DEFINE x == Base(v)
             y == Base(w)
  <2>1. /\ x = [type |-> x.type, value |-> x.value] /\ y = [type |-> y.type, value |-> y.value]
        /\ x.type \in Int /\ x.value \in Int /\ y.type \in Int /\ y.value \in Int
    BY <1>2, ViewParts
  <2> HIDE DEF x, y
  <2>2. ~(VariantLess(x, y) /\ VariantLess(y, x))  BY <2>1 DEF VariantLess
  <2>3. x = y <=> ~VariantLess(x, y) /\ ~VariantLess(y, x)
    <3>1. ~VariantLess(x, y) /\ ~VariantLess(y, x) => x.type = y.type /\ x.value = y.value
      BY <2>1 DEF VariantLess
    <3>2. x = y => ~VariantLess(x, y) /\ ~VariantLess(y, x)  BY <2>1 DEF VariantLess
    <3> QED  BY <2>1, <3>1, <3>2
  <2>4. Order(v, w) = IF VariantLess(x, y) THEN "less"
                      ELSE IF VariantLess(y, x) THEN "greater" ELSE "equivalent"
    BY <1>2 DEF Order, x, y
  <2>5. Order(w, v) = IF VariantLess(y, x) THEN "less"
                      ELSE IF VariantLess(x, y) THEN "greater" ELSE "equivalent"
    BY <1>2 DEF Order, x, y
  <2>6. Equal(v, w) <=> x = y  BY <1>2 DEF Equal, x, y
  <2> QED  BY <2>2, <2>3, <2>4, <2>5, <2>6
<1> QED  BY <1>1, <1>2

\* For any variants, alternatives and packs, and however often a variant
\* changes its alternative behind its views: get, get_if, holds_alternative,
\* visit and the operators of a view agree on what is there, and its
\* comparisons on what is equal.
THEOREM AccessesAlwaysAgree == ViewSpec => []AccessesAgree
<1>1. ViewInit => ViewTypeOK  BY ViewTypeInitial
<1>2. ViewTypeOK /\ [ViewNext]_viewVars => ViewTypeOK'  BY ViewTypeStep
<1>3. ViewTypeOK => AccessesAgree
  BY GetsAgree, SinglesAgree, VisitsAgree, ComparisonsAgree DEF AccessesAgree
<1> QED  BY <1>1, <1>2, <1>3, PTL DEF ViewSpec

-----------------------------------------------------------------------------
(* concat_view: the sums of its sizes, and its recursive functions.        *)

LEMMA SumsFunction ==
  ASSUME NEW s \in Seq(Nat)
  PROVE  /\ Sums(s) \in [0..Len(s) -> Nat]
         /\ Sums(s)[0] = 0
         /\ \A n \in 1..Len(s) : Sums(s)[n] = Sums(s)[n - 1] + s[n]
<1> DEFINE step == [a \in Int \X Nat |-> IF a[1] - 1 \in 1..Len(s) THEN a[2] + s[a[1] - 1] ELSE 0]
           N == Len(s) + 1
<1>1. Len(s) \in Nat /\ N \in Nat \ {0} /\ \A n \in 1..Len(s) : s[n] \in Nat  OBVIOUS
<1>2. step \in [Int \X Nat -> Nat]
  <2>1. ASSUME NEW a \in Int \X Nat
        PROVE  (IF a[1] - 1 \in 1..Len(s) THEN a[2] + s[a[1] - 1] ELSE 0) \in Nat
    BY <1>1
  <2> QED  BY <2>1
<1>3. PICK f \in [1..N -> Nat] : Up(f, N, 0, step)
  <2> HIDE DEF step, N
  <2> QED  BY <1>1, <1>2, UpwardsFunction
<1> DEFINE g == [n \in 0..Len(s) |-> f[n + 1]]
<1>4. g \in [0..Len(s) -> Nat]  BY <1>1, <1>3
<1>5. g[0] = 0  BY <1>1, <1>3 DEF Up
<1>6. ASSUME NEW n \in 1..Len(s) PROVE g[n] = g[n - 1] + s[n]
  <2>1. n + 1 \in 2..N /\ n + 1 - 1 = n /\ n \in 1..N /\ n + 1 \in Int  BY <1>1
  <2>2. f[n + 1] = step[<<n + 1, f[n]>>]
    <3> HIDE DEF step, N
    <3>1. f[n + 1] = step[<<n + 1, f[n + 1 - 1]>>]  BY <1>3, <2>1 DEF Up
    <3> QED  BY <2>1, <3>1
  <2>3. f[n] \in Nat  BY <1>3, <2>1
  <2>4. step[<<n + 1, f[n]>>] = f[n] + s[n]  BY <2>1, <2>3
  <2>5. g[n] = f[n + 1] /\ g[n - 1] = f[n]  BY <1>1
  <2> QED  BY <2>2, <2>4, <2>5
<1>7. g = [n \in 0..Len(s) |-> IF n = 0 THEN 0 ELSE g[n - 1] + s[n]]
  <2>1. ASSUME NEW n \in 0..Len(s) PROVE g[n] = IF n = 0 THEN 0 ELSE g[n - 1] + s[n]
    <3>1. n = 0 \/ n \in 1..Len(s)  BY <1>1
    <3> HIDE DEF g
    <3> QED  BY <3>1, <1>5, <1>6
  <2>2. g = [n \in 0..Len(s) |-> g[n]]  OBVIOUS
  <2> HIDE DEF g
  <2> QED  BY <2>1, <2>2
<1>8. Sums(s) = [n \in 0..Len(s) |-> IF n = 0 THEN 0 ELSE Sums(s)[n - 1] + s[n]]
  <2> HIDE DEF g
  <2>1. \E h : h = [n \in 0..Len(s) |-> IF n = 0 THEN 0 ELSE h[n - 1] + s[n]]  BY <1>7
  <2> QED  BY <2>1, Zenon DEF Sums
<1> DEFINE h == Sums(s)
<1> HIDE DEF h
<1>9. h = [n \in 0..Len(s) |-> IF n = 0 THEN 0 ELSE h[n - 1] + s[n]]  BY <1>8 DEF h
<1>10. h[0] = 0  BY <1>1, <1>9
<1>11. \A n \in 1..Len(s) : h[n] = h[n - 1] + s[n]
  <2> TAKE n \in 1..Len(s)
  <2>1. n \in 0..Len(s) /\ n # 0  BY <1>1
  <2> QED  BY <1>9, <2>1
<1>12. \A n \in 0..Len(s) : h[n] \in Nat
  <2> DEFINE T == {n \in Nat : h[n - 1] \in Nat}
  <2>1. 1 \in T  BY <1>10
  <2>2. ASSUME NEW n \in 2..N, n - 1 \in T PROVE n \in T
    <3>1. n - 1 \in 1..Len(s) /\ n - 1 - 1 = n - 2  BY <1>1
    <3>2. h[n - 1] = h[n - 2] + s[n - 1]  BY <1>11, <3>1
    <3>3. h[n - 2] \in Nat /\ s[n - 1] \in Nat  BY <1>1, <2>2, <3>1
    <3> QED  BY <3>2, <3>3
  <2>3. \A n \in 1..N : n \in T
    <3> HIDE DEF T, N
    <3> QED  BY <1>1, <2>1, <2>2, Upwards
  <2>4. ASSUME NEW n \in 0..Len(s) PROVE h[n] \in Nat
    <3>1. n + 1 \in 1..N /\ n + 1 - 1 = n  BY <1>1
    <3>2. n + 1 \in T  BY <2>3, <3>1
    <3> QED  BY <3>1, <3>2
  <2> QED  BY <2>4
<1>13. h \in [0..Len(s) -> Nat]
  <2>1. h = [n \in 0..Len(s) |-> h[n]]  BY <1>9
  <2> QED  BY <1>12, <2>1
<1> QED  BY <1>10, <1>11, <1>13 DEF h

\* The views' sizes, and where each begins in the concatenated range.
SizesOK == sizes \in Seq(Nat) /\ Count \in Nat \ {0}
Start(i) == Sums(sizes)[i - 1]

LEMMA Starts ==
  ASSUME SizesOK
  PROVE  /\ Start(1) = 0 /\ Size = Start(Count + 1)
         /\ \A i \in 1..(Count + 1) : Start(i) \in Nat
         /\ \A i \in 1..Count : sizes[i] \in Nat /\ Start(i + 1) = Start(i) + sizes[i]
         /\ \A i, j \in 1..(Count + 1) : i <= j => Start(i) <= Start(j)
<1> USE DEF SizesOK, Count
<1>1. Start(1) = 0  BY SumsFunction DEF Start
<1>2. ASSUME NEW i \in 1..(Count + 1) PROVE Start(i) \in Nat
  <2>1. i - 1 \in 0..Len(sizes)  OBVIOUS
  <2> QED  BY <2>1, SumsFunction DEF Start
<1>3. ASSUME NEW i \in 1..Count PROVE sizes[i] \in Nat /\ Start(i + 1) = Start(i) + sizes[i]
  <2>1. i + 1 - 1 = i  OBVIOUS
  <2>2. Sums(sizes)[i] = Sums(sizes)[i - 1] + sizes[i]  BY SumsFunction
  <2> QED  BY <2>1, <2>2 DEF Start
<1>4. ASSUME NEW i \in 1..(Count + 1), NEW j \in 1..(Count + 1), i <= j
      PROVE  Start(i) <= Start(j)
  <2> DEFINE T == {k \in Nat : i <= k => Start(i) <= Start(k)}
  <2>1. 1 \in T
    <3>1. i <= 1 => i = 1  OBVIOUS
    <3> QED  BY <1>2, <3>1
  <2>2. ASSUME NEW k \in 2..(Count + 1), k - 1 \in T PROVE k \in T
    <3> SUFFICES ASSUME i <= k PROVE Start(i) <= Start(k)  OBVIOUS
    <3>1. CASE i = k  BY <1>2, <3>1
    <3>2. CASE i # k
      <4>1. i <= k - 1 /\ k - 1 \in 1..Count /\ k - 1 + 1 = k  BY <3>2
      <4>2. Start(i) <= Start(k - 1)  BY <2>2, <4>1
      <4>3. Start(k) = Start(k - 1) + sizes[k - 1] /\ sizes[k - 1] \in Nat  BY <1>3, <4>1
      <4>4. k - 1 \in 1..(Count + 1)  BY <4>1
      <4>5. Start(i) \in Nat /\ Start(k - 1) \in Nat  BY <1>2, <4>4
      <4> QED  BY <4>2, <4>3, <4>5
    <3> QED  BY <3>1, <3>2
  <2>3. \A k \in 1..(Count + 1) : k \in T
    <3>1. Count + 1 \in Nat  OBVIOUS
    <3> HIDE DEF T
    <3> QED  BY <2>1, <2>2, <3>1, Upwards
  <2>4. j \in T  BY <2>3
  <2> QED  BY <1>4, <2>4
<1>5. Size = Start(Count + 1)
  <2>1. Count + 1 - 1 = Count /\ Start(1) = Sums(sizes)[1 - 1]  BY DEF Start
  <2>2. Sums(sizes)[Count] = Start(Count + 1)  BY <2>1 DEF Start
  <2>3. Start(Count + 1) \in Nat  BY <1>2
  <2> QED  BY <1>1, <2>1, <2>2, <2>3 DEF Size, SizeSum
<1> QED  BY <1>1, <1>2, <1>3, <1>4, <1>5

Iterator == [index : Int, offset : Int]

\* What one view adds to each recursive function.
Satisfying(i, next) == [o \in Int |-> IF i < Count /\ o = sizes[i] THEN next[0] ELSE It(i, o)]
Preceding(i, prev) == [o \in Int |-> IF i > 1 /\ o = 0 THEN prev[sizes[i - 1]] ELSE It(i, o - 1)]
Ascending(i, next) == [n \in Int |-> IF i = Count \/ n < sizes[i] THEN It(i, n) ELSE next[n - sizes[i]]]
Descending(i, prev) == [n \in Int |-> IF i = 1 \/ n >= 0 THEN It(i, n) ELSE prev[sizes[i - 1] + n]]

LEMMA Layers ==
  ASSUME SizesOK, NEW i \in Int, NEW f \in [Int -> Iterator]
  PROVE  /\ i \in 1..(Count - 1) => Satisfying(i, f) \in [Int -> Iterator]
         /\ i \in 2..Count => Preceding(i, f) \in [Int -> Iterator]
         /\ i \in 1..(Count - 1) => Ascending(i, f) \in [Int -> Iterator]
         /\ i \in 2..Count => Descending(i, f) \in [Int -> Iterator]
<1>1. \A k \in 1..Count : sizes[k] \in Int  BY DEF SizesOK, Count
<1>2. \A o \in Int : It(i, o) \in Iterator /\ It(i, o - 1) \in Iterator  BY DEF It, Iterator
<1>3. Count \in Nat  BY DEF SizesOK
<1>4. i \in 2..Count => i - 1 \in 1..Count  BY <1>3
<1>5. i \in 1..(Count - 1) => i \in 1..Count  BY <1>3
<1>6. i \in 1..(Count - 1) => Satisfying(i, f) \in [Int -> Iterator]
  BY <1>1, <1>2, <1>5 DEF Satisfying
<1>7. i \in 2..Count => Preceding(i, f) \in [Int -> Iterator]
  BY <1>1, <1>2, <1>4 DEF Preceding
<1>8. i \in 1..(Count - 1) => Ascending(i, f) \in [Int -> Iterator]
  BY <1>1, <1>2, <1>5 DEF Ascending
<1>9. i \in 2..Count => Descending(i, f) \in [Int -> Iterator]
  BY <1>1, <1>2, <1>4 DEF Descending
<1> QED  BY <1>6, <1>7, <1>8, <1>9

LEMMA SatisfiedLayers ==
  ASSUME SizesOK
  PROVE  \A i \in 1..Count : \A o \in Int : Satisfied[i][o] = IF i < Count /\ o = sizes[i] THEN Satisfied[i + 1][0] ELSE It(i, o)
<1> DEFINE step == [a \in Int \X [Int -> Iterator] |->
              IF a[1] \in 1..(Count - 1) THEN Satisfying(a[1], a[2]) ELSE [o \in Int |-> It(0, o)]]
           last == [o \in Int |-> It(Count, o)]
<1>1. Count \in Nat \ {0}  BY DEF SizesOK
<1>2. step \in [Int \X [Int -> Iterator] -> [Int -> Iterator]]
  <2>1. [o \in Int |-> It(0, o)] \in [Int -> Iterator]  BY DEF It, Iterator
  <2>2. ASSUME NEW a \in Int \X [Int -> Iterator]
        PROVE  (IF a[1] \in 1..(Count - 1) THEN Satisfying(a[1], a[2]) ELSE [o \in Int |-> It(0, o)])
                 \in [Int -> Iterator]
    BY <2>1, Layers
  <2> QED  BY <2>2
<1>3. last \in [Int -> Iterator]  BY <1>1 DEF It, Iterator
<1>4. PICK f \in [1..Count -> [Int -> Iterator]] : Down(f, Count, last, step)
  <2> HIDE DEF step, last
  <2> QED  BY <1>1, <1>2, <1>3, DownwardsFunction
<1>5. ASSUME NEW i \in 1..Count PROVE f[i] = [o \in Int |-> IF i < Count /\ o = sizes[i] THEN f[i + 1][0] ELSE It(i, o)]
  <2>1. CASE i = Count
    <3>1. f[i] = last  BY <1>4, <2>1 DEF Down
    <3> QED  BY <1>1, <2>1, <3>1
  <2>2. CASE i # Count
    <3>1. i \in 1..(Count - 1) /\ i \in Int /\ i + 1 \in 1..Count  BY <1>1, <2>2
    <3>2. f[i] = step[<<i, f[i + 1]>>]
      <4> HIDE DEF step, last
      <4> QED  BY <1>4, <3>1 DEF Down
    <3>3. <<i, f[i + 1]>> \in Int \X [Int -> Iterator]  BY <3>1
    <3>4. step[<<i, f[i + 1]>>] = Satisfying(i, f[i + 1])  BY <3>1, <3>3
    <3> HIDE DEF step, last
    <3> QED  BY <3>2, <3>4 DEF Satisfying
  <2> QED  BY <2>1, <2>2
<1>6. f = [i \in 1..Count |-> [o \in Int |-> IF i < Count /\ o = sizes[i] THEN f[i + 1][0] ELSE It(i, o)]]
  <2>1. f = [i \in 1..Count |-> f[i]]  OBVIOUS
  <2> QED  BY <1>5, <2>1, Zenon
<1>7. Satisfied = [i \in 1..Count |-> [o \in Int |-> IF i < Count /\ o = sizes[i] THEN Satisfied[i + 1][0] ELSE It(i, o)]]
  <2>1. \E g : g = [i \in 1..Count |-> [o \in Int |-> IF i < Count /\ o = sizes[i] THEN g[i + 1][0] ELSE It(i, o)]]
    BY <1>6, Zenon
  <2> HIDE DEF step, last
  <2> QED  BY <2>1, Zenon DEF Satisfied
<1>8. \A i \in 1..Count : Satisfied[i] = [o \in Int |-> IF i < Count /\ o = sizes[i] THEN Satisfied[i + 1][0] ELSE It(i, o)]
  BY <1>7, Zenon
<1>9. \A i \in 1..Count : \A o \in Int : Satisfied[i][o] = IF i < Count /\ o = sizes[i] THEN Satisfied[i + 1][0] ELSE It(i, o)
  <2> TAKE i \in 1..Count
  <2>1. Satisfied[i] = [o \in Int |-> IF i < Count /\ o = sizes[i] THEN Satisfied[i + 1][0] ELSE It(i, o)]  BY <1>8, Zenon
  <2> QED  BY <2>1, Zenon
<1> QED  BY <1>9, Zenon

LEMMA BeforeLayers ==
  ASSUME SizesOK
  PROVE  \A i \in 1..Count : \A o \in Int : Before[i][o] = IF i > 1 /\ o = 0 THEN Before[i - 1][sizes[i - 1]] ELSE It(i, o - 1)
<1> DEFINE step == [a \in Int \X [Int -> Iterator] |->
              IF a[1] \in 2..Count THEN Preceding(a[1], a[2]) ELSE [o \in Int |-> It(0, o)]]
           first == [o \in Int |-> It(1, o - 1)]
<1>1. Count \in Nat \ {0}  BY DEF SizesOK
<1>2. step \in [Int \X [Int -> Iterator] -> [Int -> Iterator]]
  <2>1. [o \in Int |-> It(0, o)] \in [Int -> Iterator]  BY DEF It, Iterator
  <2>2. ASSUME NEW a \in Int \X [Int -> Iterator]
        PROVE  (IF a[1] \in 2..Count THEN Preceding(a[1], a[2]) ELSE [o \in Int |-> It(0, o)])
                 \in [Int -> Iterator]
    BY <2>1, Layers
  <2> QED  BY <2>2
<1>3. first \in [Int -> Iterator]  BY <1>1 DEF It, Iterator
<1>4. PICK f \in [1..Count -> [Int -> Iterator]] : Up(f, Count, first, step)
  <2> HIDE DEF step, first
  <2> QED  BY <1>1, <1>2, <1>3, UpwardsFunction
<1>5. ASSUME NEW i \in 1..Count PROVE f[i] = [o \in Int |-> IF i > 1 /\ o = 0 THEN f[i - 1][sizes[i - 1]] ELSE It(i, o - 1)]
  <2>1. CASE i = 1
    <3>1. f[i] = first  BY <1>4, <2>1 DEF Up
    <3> QED  BY <1>1, <2>1, <3>1
  <2>2. CASE i # 1
    <3>1. i \in 2..Count /\ i \in Int /\ i - 1 \in 1..Count  BY <1>1, <2>2
    <3>2. f[i] = step[<<i, f[i - 1]>>]
      <4> HIDE DEF step, first
      <4> QED  BY <1>4, <3>1 DEF Up
    <3>3. <<i, f[i - 1]>> \in Int \X [Int -> Iterator]  BY <3>1
    <3>4. step[<<i, f[i - 1]>>] = Preceding(i, f[i - 1])  BY <3>1, <3>3
    <3> HIDE DEF step, first
    <3> QED  BY <3>2, <3>4 DEF Preceding
  <2> QED  BY <2>1, <2>2
<1>6. f = [i \in 1..Count |-> [o \in Int |-> IF i > 1 /\ o = 0 THEN f[i - 1][sizes[i - 1]] ELSE It(i, o - 1)]]
  <2>1. f = [i \in 1..Count |-> f[i]]  OBVIOUS
  <2> QED  BY <1>5, <2>1, Zenon
<1>7. Before = [i \in 1..Count |-> [o \in Int |-> IF i > 1 /\ o = 0 THEN Before[i - 1][sizes[i - 1]] ELSE It(i, o - 1)]]
  <2>1. \E g : g = [i \in 1..Count |-> [o \in Int |-> IF i > 1 /\ o = 0 THEN g[i - 1][sizes[i - 1]] ELSE It(i, o - 1)]]
    BY <1>6, Zenon
  <2> HIDE DEF step, first
  <2> QED  BY <2>1, Zenon DEF Before
<1>8. \A i \in 1..Count : Before[i] = [o \in Int |-> IF i > 1 /\ o = 0 THEN Before[i - 1][sizes[i - 1]] ELSE It(i, o - 1)]
  BY <1>7, Zenon
<1>9. \A i \in 1..Count : \A o \in Int : Before[i][o] = IF i > 1 /\ o = 0 THEN Before[i - 1][sizes[i - 1]] ELSE It(i, o - 1)
  <2> TAKE i \in 1..Count
  <2>1. Before[i] = [o \in Int |-> IF i > 1 /\ o = 0 THEN Before[i - 1][sizes[i - 1]] ELSE It(i, o - 1)]  BY <1>8, Zenon
  <2> QED  BY <2>1, Zenon
<1> QED  BY <1>9, Zenon

LEMMA ForwardLayers ==
  ASSUME SizesOK
  PROVE  \A i \in 1..Count : \A n \in Int : Forward[i][n] = IF i = Count \/ n < sizes[i] THEN It(i, n) ELSE Forward[i + 1][n - sizes[i]]
<1> DEFINE step == [a \in Int \X [Int -> Iterator] |->
              IF a[1] \in 1..(Count - 1) THEN Ascending(a[1], a[2]) ELSE [o \in Int |-> It(0, o)]]
           last == [n \in Int |-> It(Count, n)]
<1>1. Count \in Nat \ {0}  BY DEF SizesOK
<1>2. step \in [Int \X [Int -> Iterator] -> [Int -> Iterator]]
  <2>1. [o \in Int |-> It(0, o)] \in [Int -> Iterator]  BY DEF It, Iterator
  <2>2. ASSUME NEW a \in Int \X [Int -> Iterator]
        PROVE  (IF a[1] \in 1..(Count - 1) THEN Ascending(a[1], a[2]) ELSE [o \in Int |-> It(0, o)])
                 \in [Int -> Iterator]
    BY <2>1, Layers
  <2> QED  BY <2>2
<1>3. last \in [Int -> Iterator]  BY <1>1 DEF It, Iterator
<1>4. PICK f \in [1..Count -> [Int -> Iterator]] : Down(f, Count, last, step)
  <2> HIDE DEF step, last
  <2> QED  BY <1>1, <1>2, <1>3, DownwardsFunction
<1>5. ASSUME NEW i \in 1..Count PROVE f[i] = [n \in Int |-> IF i = Count \/ n < sizes[i] THEN It(i, n) ELSE f[i + 1][n - sizes[i]]]
  <2>1. CASE i = Count
    <3>1. f[i] = last  BY <1>4, <2>1 DEF Down
    <3> QED  BY <1>1, <2>1, <3>1
  <2>2. CASE i # Count
    <3>1. i \in 1..(Count - 1) /\ i \in Int /\ i + 1 \in 1..Count  BY <1>1, <2>2
    <3>2. f[i] = step[<<i, f[i + 1]>>]
      <4> HIDE DEF step, last
      <4> QED  BY <1>4, <3>1 DEF Down
    <3>3. <<i, f[i + 1]>> \in Int \X [Int -> Iterator]  BY <3>1
    <3>4. step[<<i, f[i + 1]>>] = Ascending(i, f[i + 1])  BY <3>1, <3>3
    <3> HIDE DEF step, last
    <3> QED  BY <3>2, <3>4 DEF Ascending
  <2> QED  BY <2>1, <2>2
<1>6. f = [i \in 1..Count |-> [n \in Int |-> IF i = Count \/ n < sizes[i] THEN It(i, n) ELSE f[i + 1][n - sizes[i]]]]
  <2>1. f = [i \in 1..Count |-> f[i]]  OBVIOUS
  <2> QED  BY <1>5, <2>1, Zenon
<1>7. Forward = [i \in 1..Count |-> [n \in Int |-> IF i = Count \/ n < sizes[i] THEN It(i, n) ELSE Forward[i + 1][n - sizes[i]]]]
  <2>1. \E g : g = [i \in 1..Count |-> [n \in Int |-> IF i = Count \/ n < sizes[i] THEN It(i, n) ELSE g[i + 1][n - sizes[i]]]]
    BY <1>6, Zenon
  <2> HIDE DEF step, last
  <2> QED  BY <2>1, Zenon DEF Forward
<1>8. \A i \in 1..Count : Forward[i] = [n \in Int |-> IF i = Count \/ n < sizes[i] THEN It(i, n) ELSE Forward[i + 1][n - sizes[i]]]
  BY <1>7, Zenon
<1>9. \A i \in 1..Count : \A n \in Int : Forward[i][n] = IF i = Count \/ n < sizes[i] THEN It(i, n) ELSE Forward[i + 1][n - sizes[i]]
  <2> TAKE i \in 1..Count
  <2>1. Forward[i] = [n \in Int |-> IF i = Count \/ n < sizes[i] THEN It(i, n) ELSE Forward[i + 1][n - sizes[i]]]  BY <1>8, Zenon
  <2> QED  BY <2>1, Zenon
<1> QED  BY <1>9, Zenon

LEMMA BackwardLayers ==
  ASSUME SizesOK
  PROVE  \A i \in 1..Count : \A n \in Int : Backward[i][n] = IF i = 1 \/ n >= 0 THEN It(i, n) ELSE Backward[i - 1][sizes[i - 1] + n]
<1> DEFINE step == [a \in Int \X [Int -> Iterator] |->
              IF a[1] \in 2..Count THEN Descending(a[1], a[2]) ELSE [o \in Int |-> It(0, o)]]
           first == [n \in Int |-> It(1, n)]
<1>1. Count \in Nat \ {0}  BY DEF SizesOK
<1>2. step \in [Int \X [Int -> Iterator] -> [Int -> Iterator]]
  <2>1. [o \in Int |-> It(0, o)] \in [Int -> Iterator]  BY DEF It, Iterator
  <2>2. ASSUME NEW a \in Int \X [Int -> Iterator]
        PROVE  (IF a[1] \in 2..Count THEN Descending(a[1], a[2]) ELSE [o \in Int |-> It(0, o)])
                 \in [Int -> Iterator]
    BY <2>1, Layers
  <2> QED  BY <2>2
<1>3. first \in [Int -> Iterator]  BY <1>1 DEF It, Iterator
<1>4. PICK f \in [1..Count -> [Int -> Iterator]] : Up(f, Count, first, step)
  <2> HIDE DEF step, first
  <2> QED  BY <1>1, <1>2, <1>3, UpwardsFunction
<1>5. ASSUME NEW i \in 1..Count PROVE f[i] = [n \in Int |-> IF i = 1 \/ n >= 0 THEN It(i, n) ELSE f[i - 1][sizes[i - 1] + n]]
  <2>1. CASE i = 1
    <3>1. f[i] = first  BY <1>4, <2>1 DEF Up
    <3> QED  BY <1>1, <2>1, <3>1
  <2>2. CASE i # 1
    <3>1. i \in 2..Count /\ i \in Int /\ i - 1 \in 1..Count  BY <1>1, <2>2
    <3>2. f[i] = step[<<i, f[i - 1]>>]
      <4> HIDE DEF step, first
      <4> QED  BY <1>4, <3>1 DEF Up
    <3>3. <<i, f[i - 1]>> \in Int \X [Int -> Iterator]  BY <3>1
    <3>4. step[<<i, f[i - 1]>>] = Descending(i, f[i - 1])  BY <3>1, <3>3
    <3> HIDE DEF step, first
    <3> QED  BY <3>2, <3>4 DEF Descending
  <2> QED  BY <2>1, <2>2
<1>6. f = [i \in 1..Count |-> [n \in Int |-> IF i = 1 \/ n >= 0 THEN It(i, n) ELSE f[i - 1][sizes[i - 1] + n]]]
  <2>1. f = [i \in 1..Count |-> f[i]]  OBVIOUS
  <2> QED  BY <1>5, <2>1, Zenon
<1>7. Backward = [i \in 1..Count |-> [n \in Int |-> IF i = 1 \/ n >= 0 THEN It(i, n) ELSE Backward[i - 1][sizes[i - 1] + n]]]
  <2>1. \E g : g = [i \in 1..Count |-> [n \in Int |-> IF i = 1 \/ n >= 0 THEN It(i, n) ELSE g[i - 1][sizes[i - 1] + n]]]
    BY <1>6, Zenon
  <2> HIDE DEF step, first
  <2> QED  BY <2>1, Zenon DEF Backward
<1>8. \A i \in 1..Count : Backward[i] = [n \in Int |-> IF i = 1 \/ n >= 0 THEN It(i, n) ELSE Backward[i - 1][sizes[i - 1] + n]]
  BY <1>7, Zenon
<1>9. \A i \in 1..Count : \A n \in Int : Backward[i][n] = IF i = 1 \/ n >= 0 THEN It(i, n) ELSE Backward[i - 1][sizes[i - 1] + n]
  <2> TAKE i \in 1..Count
  <2>1. Backward[i] = [n \in Int |-> IF i = 1 \/ n >= 0 THEN It(i, n) ELSE Backward[i - 1][sizes[i - 1] + n]]  BY <1>8, Zenon
  <2> QED  BY <2>1, Zenon
<1> QED  BY <1>9, Zenon

-----------------------------------------------------------------------------
(* concat_view: every move lands on the one form of its place.             *)

\* Within a view, and at its end only if it is the last one.
IsPlace(p) ==
  /\ p \in Iterator /\ p.index \in 1..Count
  /\ p.offset >= 0 /\ p.offset <= sizes[p.index]
  /\ p.index < Count => p.offset < sizes[p.index]

At(p, q) == IsPlace(p) /\ Position(p) = q

LEMMA Positions ==
  ASSUME SizesOK, NEW p \in Iterator, p.index \in 1..Count
  PROVE  Position(p) = Start(p.index) + p.offset
<1>1. Count \in Nat  BY DEF SizesOK
<1>2. p.index - 1 + 0 = p.index - 1 /\ p.index \in Int /\ p.offset \in Int  BY DEF Iterator
<1>3. p.index \in 1..(Count + 1) /\ 1 \in 1..(Count + 1)  BY <1>1
<1>4. Start(1) = 0 /\ Start(p.index) \in Nat  BY <1>3, Starts
<1>5. Sums(sizes)[1 - 1] = 0 /\ Sums(sizes)[p.index - 1] = Start(p.index)  BY <1>4 DEF Start
<1> QED  BY <1>2, <1>4, <1>5 DEF Position, SizeSum

LEMMA Lands ==
  ASSUME SizesOK, NEW i \in 1..Count, NEW o \in Int, o >= 0, o <= sizes[i],
         i < Count => o < sizes[i]
  PROVE  At(It(i, o), Start(i) + o)
<1>1. It(i, o) \in Iterator /\ It(i, o).index = i /\ It(i, o).offset = o
  BY DEF It, Iterator, SizesOK
<1>2. Position(It(i, o)) = Start(i) + o  BY <1>1, Positions
<1> QED  BY <1>1, <1>2 DEF At, IsPlace

LEMMA PlaceParts ==
  ASSUME SizesOK, NEW p, IsPlace(p)
  PROVE  /\ p \in Iterator /\ p = It(p.index, p.offset)
         /\ p.index \in 1..Count /\ p.offset \in Int /\ 0 <= p.offset
         /\ p.offset <= sizes[p.index] /\ (p.index < Count => p.offset < sizes[p.index])
         /\ Position(p) = Start(p.index) + p.offset
         /\ Position(p) \in Int /\ 0 <= Position(p) /\ Position(p) <= Size
<1>1. /\ p \in Iterator /\ p.index \in 1..Count /\ p.offset \in Int /\ 0 <= p.offset
      /\ p.offset <= sizes[p.index] /\ (p.index < Count => p.offset < sizes[p.index])
  BY DEF IsPlace, Iterator
<1>2. p = It(p.index, p.offset)  BY <1>1 DEF It, Iterator
<1>3. Position(p) = Start(p.index) + p.offset  BY <1>1, Positions
<1>4. Count \in Nat  BY DEF SizesOK
<1>5. p.index \in 1..(Count + 1) /\ p.index + 1 \in 1..(Count + 1) /\ Count + 1 \in 1..(Count + 1)
  BY <1>1, <1>4
<1>6. Start(p.index) \in Nat /\ Start(Count + 1) \in Nat /\ Start(p.index + 1) \in Nat
  BY <1>5, Starts
<1>7. Start(p.index + 1) = Start(p.index) + sizes[p.index] /\ sizes[p.index] \in Nat
  BY <1>1, Starts
<1>8. Start(p.index + 1) <= Start(Count + 1)  BY <1>1, <1>4, <1>5, Starts
<1>9. Size = Start(Count + 1)  BY Starts
<1>10. Position(p) \in Int /\ 0 <= Position(p) /\ Position(p) <= Size
  <2>1. \A a, b, o, s, t : /\ a \in Nat /\ b \in Nat /\ o \in Int /\ s \in Nat /\ t \in Nat
                           /\ 0 <= o /\ o <= s /\ b = a + s /\ b <= t
                           => a + o \in Int /\ 0 <= a + o /\ a + o <= t
    OBVIOUS
  <2>2. /\ Start(p.index) + p.offset \in Int /\ 0 <= Start(p.index) + p.offset
        /\ Start(p.index) + p.offset <= Start(Count + 1)
    BY <1>1, <1>6, <1>7, <1>8, <2>1
  <2> QED  BY <1>3, <1>9, <2>2
<1> QED  BY <1>1, <1>2, <1>3, <1>10

LEMMA SatisfiedLands ==
  ASSUME SizesOK
  PROVE  \A i \in 1..Count : \A o \in Nat :
           o <= sizes[i] => At(Satisfied[i][o], Start(i) + o)
<1> DEFINE T == {i \in 1..Count : \A o \in Nat : o <= sizes[i] => At(Satisfied[i][o], Start(i) + o)}
<1>1. Count \in Nat \ {0} /\ Count \in 1..Count  BY DEF SizesOK
<1>2. Count \in T
  <2>1. ASSUME NEW o \in Nat, o <= sizes[Count] PROVE At(Satisfied[Count][o], Start(Count) + o)
    <3>1. Satisfied[Count][o] = It(Count, o)  BY <1>1, SatisfiedLayers
    <3> QED  BY <1>1, <2>1, <3>1, Lands
  <2> QED  BY <1>1, <2>1
<1>3. ASSUME NEW i \in 1..(Count - 1), i + 1 \in T PROVE i \in T
  <2>1. i \in 1..Count /\ i + 1 \in 1..Count /\ i < Count  BY <1>1
  <2>2. Start(i + 1) = Start(i) + sizes[i] /\ sizes[i] \in Nat /\ sizes[i + 1] \in Nat
        /\ Start(i) \in Nat
    <3>1. i \in 1..(Count + 1)  BY <1>1
    <3> QED  BY <2>1, <3>1, Starts
  <2>3. ASSUME NEW o \in Nat, o <= sizes[i] PROVE At(Satisfied[i][o], Start(i) + o)
    <3>1. CASE o = sizes[i]
      <4>1. Satisfied[i][o] = Satisfied[i + 1][0]  BY <2>1, <3>1, SatisfiedLayers
      <4>2. 0 \in Nat /\ 0 <= sizes[i + 1]  BY <2>2
      <4>3. At(Satisfied[i + 1][0], Start(i + 1) + 0)  BY <1>3, <4>2
      <4>4. Start(i + 1) + 0 = Start(i) + o  BY <2>2, <3>1
      <4> QED  BY <4>1, <4>3, <4>4
    <3>2. CASE o # sizes[i]
      <4>1. Satisfied[i][o] = It(i, o)  BY <2>1, <3>2, SatisfiedLayers
      <4>2. o < sizes[i]  BY <2>2, <2>3, <3>2
      <4> QED  BY <2>1, <2>3, <4>1, <4>2, Lands
    <3> QED  BY <3>1, <3>2
  <2> QED  BY <2>1, <2>3
<1>4. \A i \in 1..Count : i \in T
  <2> HIDE DEF T
  <2> QED  BY <1>1, <1>2, <1>3, Downwards
<1> QED  BY <1>4

LEMMA BeforeLands ==
  ASSUME SizesOK
  PROVE  \A i \in 1..Count : \A o \in Nat :
           o <= sizes[i] /\ Start(i) + o > 0 => At(Before[i][o], Start(i) + o - 1)
<1> DEFINE T == {i \in 1..Count : \A o \in Nat :
                   o <= sizes[i] /\ Start(i) + o > 0 => At(Before[i][o], Start(i) + o - 1)}
<1>1. Count \in Nat \ {0} /\ 1 \in 1..Count  BY DEF SizesOK
<1>2. ASSUME NEW i \in 1..Count PROVE sizes[i] \in Nat /\ Start(i) \in Nat
  <2>1. i \in 1..(Count + 1)  BY <1>1
  <2> QED  BY <2>1, Starts
\* Within its view, a step back is a step back.
<1>3. ASSUME NEW i \in 1..Count, NEW o \in Nat, o <= sizes[i], o > 0
      PROVE  At(Before[i][o], Start(i) + o - 1)
  <2>1. Before[i][o] = It(i, o - 1)  BY <1>3, BeforeLayers
  <2>2. o - 1 \in Int /\ o - 1 >= 0 /\ o - 1 < sizes[i] /\ o - 1 <= sizes[i]  BY <1>2, <1>3
  <2>3. At(It(i, o - 1), Start(i) + (o - 1))  BY <2>2, Lands
  <2>4. Start(i) + (o - 1) = Start(i) + o - 1  BY <1>2
  <2> QED  BY <2>1, <2>3, <2>4
<1>4. 1 \in T
  <2>1. Start(1) = 0  BY Starts
  <2>2. ASSUME NEW o \in Nat, o <= sizes[1], Start(1) + o > 0 PROVE o > 0  BY <2>1, <2>2
  <2> QED  BY <1>1, <1>3, <2>2
<1>5. ASSUME NEW i \in 2..Count, i - 1 \in T PROVE i \in T
  <2>1. i \in 1..Count /\ i - 1 \in 1..Count /\ i > 1 /\ i - 1 + 1 = i  BY <1>1
  <2>2. Start(i) = Start(i - 1) + sizes[i - 1]  BY <2>1, Starts
  <2>3. ASSUME NEW o \in Nat, o <= sizes[i], Start(i) + o > 0
        PROVE  At(Before[i][o], Start(i) + o - 1)
    <3>1. CASE o = 0
      <4>1. Before[i][o] = Before[i - 1][sizes[i - 1]]  BY <2>1, <3>1, BeforeLayers
      <4>2. sizes[i - 1] \in Nat /\ sizes[i - 1] <= sizes[i - 1] /\ Start(i) \in Nat
        BY <1>2, <2>1
      <4>3. Start(i - 1) + sizes[i - 1] > 0  BY <2>2, <2>3, <3>1, <4>2
      <4>4. At(Before[i - 1][sizes[i - 1]], Start(i - 1) + sizes[i - 1] - 1)
        BY <1>5, <4>2, <4>3
      <4>5. Start(i - 1) + sizes[i - 1] - 1 = Start(i) + o - 1
        <5>1. Start(i - 1) \in Nat  BY <1>2, <2>1
        <5>2. \A a, b, c \in Nat : b = a + c => a + c - 1 = b + 0 - 1  OBVIOUS
        <5> QED  BY <2>2, <3>1, <4>2, <5>1, <5>2
      <4> QED  BY <4>1, <4>4, <4>5
    <3>2. CASE o # 0  BY <1>3, <2>1, <2>3, <3>2
    <3> QED  BY <3>1, <3>2
  <2> QED  BY <2>1, <2>3
<1>6. \A i \in 1..Count : i \in T
  <2> HIDE DEF T
  <2> QED  BY <1>1, <1>4, <1>5, Upwards
<1> QED  BY <1>6

LEMMA ForwardLands ==
  ASSUME SizesOK
  PROVE  \A i \in 1..Count : \A n \in Nat :
           Start(i) + n <= Size => At(Forward[i][n], Start(i) + n)
<1> DEFINE T == {i \in 1..Count : \A n \in Nat :
                   Start(i) + n <= Size => At(Forward[i][n], Start(i) + n)}
<1>1. Count \in Nat \ {0} /\ Count \in 1..Count  BY DEF SizesOK
<1>2. ASSUME NEW i \in 1..Count
      PROVE  sizes[i] \in Nat /\ Start(i) \in Nat /\ Start(i + 1) = Start(i) + sizes[i]
  <2>1. i \in 1..(Count + 1)  BY <1>1
  <2> QED  BY <2>1, Starts
<1>3. Count \in T
  <2>1. ASSUME NEW n \in Nat, Start(Count) + n <= Size
        PROVE  At(Forward[Count][n], Start(Count) + n)
    <3>1. Forward[Count][n] = It(Count, n)  BY <1>1, ForwardLayers
    <3>2. Size = Start(Count) + sizes[Count]  BY <1>1, <1>2, Starts
    <3>3. n <= sizes[Count]  BY <1>1, <1>2, <2>1, <3>2
    <3> QED  BY <1>1, <3>1, <3>3, Lands
  <2> QED  BY <1>1, <2>1
<1>4. ASSUME NEW i \in 1..(Count - 1), i + 1 \in T PROVE i \in T
  <2>1. i \in 1..Count /\ i + 1 \in 1..Count /\ i < Count  BY <1>1
  <2>2. ASSUME NEW n \in Nat, Start(i) + n <= Size PROVE At(Forward[i][n], Start(i) + n)
    <3>1. CASE n < sizes[i]
      <4>1. Forward[i][n] = It(i, n)  BY <2>1, <3>1, ForwardLayers
      <4>2. n <= sizes[i]  BY <1>2, <2>1, <3>1
      <4> QED  BY <2>1, <3>1, <4>1, <4>2, Lands
    <3>2. CASE ~(n < sizes[i])
      <4>1. Forward[i][n] = Forward[i + 1][n - sizes[i]]  BY <2>1, <3>2, ForwardLayers
      <4>2. n - sizes[i] \in Nat  BY <1>2, <2>1, <3>2
      <4>3. Start(i + 1) + (n - sizes[i]) = Start(i) + n  BY <1>2, <2>1
      <4>4. At(Forward[i + 1][n - sizes[i]], Start(i + 1) + (n - sizes[i]))
        BY <1>4, <2>2, <4>2, <4>3
      <4> QED  BY <4>1, <4>3, <4>4
    <3> QED  BY <3>1, <3>2
  <2> QED  BY <2>1, <2>2
<1>5. \A i \in 1..Count : i \in T
  <2> HIDE DEF T
  <2> QED  BY <1>1, <1>3, <1>4, Downwards
<1> QED  BY <1>5

LEMMA BackwardLands ==
  ASSUME SizesOK
  PROVE  \A i \in 1..Count : \A n \in Int :
           Start(i) + n >= 0 /\ n <= sizes[i] /\ (i < Count => n < sizes[i])
             => At(Backward[i][n], Start(i) + n)
<1> DEFINE Below(i, n) == Start(i) + n >= 0 /\ n <= sizes[i] /\ (i < Count => n < sizes[i])
           T == {i \in 1..Count : \A n \in Int : Below(i, n) => At(Backward[i][n], Start(i) + n)}
<1>1. Count \in Nat \ {0} /\ 1 \in 1..Count  BY DEF SizesOK
<1>2. ASSUME NEW i \in 1..Count PROVE sizes[i] \in Nat /\ Start(i) \in Nat
  <2>1. i \in 1..(Count + 1)  BY <1>1
  <2> QED  BY <2>1, Starts
<1>3. ASSUME NEW i \in 1..Count, NEW n \in Int, Below(i, n), n >= 0
      PROVE  At(Backward[i][n], Start(i) + n)
  <2>1. Backward[i][n] = It(i, n)  BY <1>3, BackwardLayers
  <2> QED  BY <1>3, <2>1, Lands
<1>4. 1 \in T
  <2>1. Start(1) = 0  BY Starts
  <2>2. ASSUME NEW n \in Int, Below(1, n) PROVE n >= 0  BY <2>1, <2>2
  <2> QED  BY <1>1, <1>3, <2>2
<1>5. ASSUME NEW i \in 2..Count, i - 1 \in T PROVE i \in T
  <2>1. i \in 1..Count /\ i - 1 \in 1..Count /\ i # 1 /\ i - 1 + 1 = i  BY <1>1
  <2>2. Start(i) = Start(i - 1) + sizes[i - 1]  BY <2>1, Starts
  <2>3. ASSUME NEW n \in Int, Below(i, n) PROVE At(Backward[i][n], Start(i) + n)
    <3>1. CASE n >= 0  BY <1>3, <2>1, <2>3, <3>1
    <3>2. CASE ~(n >= 0)
      <4> DEFINE m == sizes[i - 1] + n
      <4>1. Backward[i][n] = Backward[i - 1][m]  BY <2>1, <3>2, BackwardLayers
      <4>2. sizes[i - 1] \in Nat /\ Start(i - 1) \in Nat  BY <1>2, <2>1
      <4>3. m \in Int /\ m < sizes[i - 1] /\ m <= sizes[i - 1]  BY <3>2, <4>2
      <4>4. Start(i - 1) + m = Start(i) + n  BY <2>2, <4>2
      <4>5. Below(i - 1, m)  BY <2>3, <4>3, <4>4
      <4> HIDE DEF m, Below
      <4>6. At(Backward[i - 1][m], Start(i - 1) + m)  BY <1>5, <4>3, <4>5
      <4> QED  BY <4>1, <4>4, <4>6
    <3> QED  BY <3>1, <3>2
  <2> QED  BY <2>1, <2>3
<1>6. \A i \in 1..Count : i \in T
  <2> HIDE DEF T
  <2> QED  BY <1>1, <1>4, <1>5, Upwards
<1> QED  BY <1>6

\* The order of two places is the order of their forms.
LEMMA PlacesOrdered ==
  ASSUME SizesOK, NEW p, NEW q, IsPlace(p), IsPlace(q)
  PROVE  /\ (p = q) <=> (Position(p) = Position(q))
         /\ Less(p, q) <=> (Position(p) < Position(q))
         /\ p.index < q.index => /\ Position(p) < Position(q)
                                 /\ Ahead(q, p) = Position(q) - Position(p)
<1>1. Count \in Nat  BY DEF SizesOK
<1>2. ASSUME NEW r, NEW t, IsPlace(r), IsPlace(t), r.index < t.index
      PROVE  Position(r) < Position(t) /\ Ahead(t, r) = Position(t) - Position(r)
  <2> DEFINE i == r.index
             j == t.index
  <2>1. /\ i \in 1..Count /\ r.offset \in Int /\ r.offset < sizes[i]
        /\ j \in 1..Count /\ t.offset \in Int /\ 0 <= t.offset
        /\ Position(r) = Start(i) + r.offset /\ Position(t) = Start(j) + t.offset
    <3>1. /\ i \in 1..Count /\ r.offset \in Int /\ (i < Count => r.offset < sizes[i])
          /\ Position(r) = Start(i) + r.offset
      BY <1>2, PlaceParts
    <3>2. /\ j \in 1..Count /\ t.offset \in Int /\ 0 <= t.offset
          /\ Position(t) = Start(j) + t.offset
      BY <1>2, PlaceParts
    <3>3. i < Count  BY <1>1, <1>2, <3>1, <3>2
    <3> QED  BY <3>1, <3>2, <3>3
  <2>2. i < j  BY <1>2
  <2> HIDE DEF i, j
  <2>3. /\ i \in 1..(Count + 1) /\ i + 1 \in 1..(Count + 1) /\ j \in 1..(Count + 1) /\ i + 1 <= j
    BY <1>1, <2>1, <2>2
  <2>4. /\ Start(i) \in Nat /\ Start(j) \in Nat /\ Start(i + 1) \in Nat /\ sizes[i] \in Nat
        /\ Start(i + 1) = Start(i) + sizes[i] /\ Start(i + 1) <= Start(j)
    BY <2>1, <2>3, Starts
  <2>5. Position(r) < Position(t)
    <3>1. Start(i) + r.offset < Start(j) + t.offset  BY <2>1, <2>4
    <3> QED  BY <2>1, <3>1
  <2>6. SizeSum(i + 1, j - 1) = Start(j) - Start(i + 1)  BY DEF SizeSum, Start
  <2>7. Ahead(t, r) = (sizes[i] - r.offset) + (Start(j) - Start(i + 1)) + t.offset
    BY <2>6 DEF Ahead, i, j
  <2>8. (sizes[i] - r.offset) + (Start(j) - Start(i + 1)) + t.offset
          = (Start(j) + t.offset) - (Start(i) + r.offset)
    BY <2>1, <2>4
  <2> QED  BY <2>1, <2>5, <2>7, <2>8
<1>3. /\ p = It(p.index, p.offset) /\ p.index \in 1..Count /\ p.offset \in Int
      /\ Position(p) = Start(p.index) + p.offset /\ Position(p) \in Int
  BY PlaceParts
<1>4. /\ q = It(q.index, q.offset) /\ q.index \in 1..Count /\ q.offset \in Int
      /\ Position(q) = Start(q.index) + q.offset /\ Position(q) \in Int
  BY PlaceParts
<1>5. CASE p.index < q.index
  <2>1. p # q /\ ~(q.index < p.index) /\ p.index # q.index  BY <1>1, <1>3, <1>4, <1>5
  <2>2. Position(p) < Position(q) /\ Ahead(q, p) = Position(q) - Position(p)  BY <1>2, <1>5
  <2> QED  BY <1>3, <1>4, <1>5, <2>1, <2>2 DEF Less
<1>6. CASE q.index < p.index
  <2>1. p # q /\ ~(p.index < q.index) /\ p.index # q.index  BY <1>1, <1>3, <1>4, <1>6
  <2>2. Position(q) < Position(p)  BY <1>2, <1>6
  <2> QED  BY <1>3, <1>4, <1>6, <2>1, <2>2 DEF Less
<1>7. CASE p.index = q.index
  <2>1. p.index \in 1..(Count + 1)  BY <1>1, <1>3
  <2>2. Start(p.index) \in Nat  BY <2>1, Starts
  <2>3. p = q <=> p.offset = q.offset  BY <1>3, <1>4, <1>7
  <2>4. \A a \in Nat, x, y \in Int : (x = y <=> a + x = a + y) /\ (x < y <=> a + x < a + y)
    OBVIOUS
  <2>5. /\ Position(p) = Position(q) <=> p.offset = q.offset
        /\ Position(p) < Position(q) <=> p.offset < q.offset
    BY <1>3, <1>4, <1>7, <2>2, <2>4
  <2>6. ~(p.index < q.index)  BY <1>1, <1>3, <1>7
  <2> QED  BY <1>7, <2>3, <2>5, <2>6 DEF Less
<1>8. p.index < q.index \/ q.index < p.index \/ p.index = q.index  BY <1>1, <1>3, <1>4
<1> QED  BY <1>5, <1>6, <1>7, <1>8

LEMMA PlaceDifference ==
  ASSUME SizesOK, NEW p, NEW q, IsPlace(p), IsPlace(q)
  PROVE  Difference(p, q) = Position(p) - Position(q)
<1>1. /\ p.index \in 1..Count /\ p.offset \in Int
      /\ Position(p) = Start(p.index) + p.offset /\ Position(p) \in Int
  BY PlaceParts
<1>2. /\ q.index \in 1..Count /\ q.offset \in Int
      /\ Position(q) = Start(q.index) + q.offset /\ Position(q) \in Int
  BY PlaceParts
<1>3. Count \in Nat  BY DEF SizesOK
<1>4. CASE p.index > q.index
  <2>1. Ahead(p, q) = Position(p) - Position(q)  BY <1>1, <1>2, <1>3, <1>4, PlacesOrdered
  <2> QED  BY <1>4, <2>1 DEF Difference
<1>5. CASE p.index < q.index
  <2>1. Ahead(q, p) = Position(q) - Position(p)  BY <1>5, PlacesOrdered
  <2>2. ~(p.index > q.index)  BY <1>1, <1>2, <1>3, <1>5
  <2>3. -(Position(q) - Position(p)) = Position(p) - Position(q)  BY <1>1, <1>2
  <2> QED  BY <1>5, <2>1, <2>2, <2>3 DEF Difference
<1>6. CASE p.index = q.index
  <2>1. p.index \in 1..(Count + 1)  BY <1>1, <1>3
  <2>2. Start(p.index) \in Nat  BY <2>1, Starts
  <2>3. \A a \in Nat, x, y \in Int : x - y = (a + x) - (a + y)  OBVIOUS
  <2>4. p.offset - q.offset = Position(p) - Position(q)  BY <1>1, <1>2, <1>6, <2>2, <2>3
  <2>5. ~(p.index > q.index) /\ ~(p.index < q.index)  BY <1>1, <1>3, <1>6
  <2> QED  BY <2>4, <2>5 DEF Difference
<1> QED  BY <1>1, <1>2, <1>3, <1>4, <1>5, <1>6

LEMMA PlaceSentinel ==
  ASSUME SizesOK, NEW p, IsPlace(p)
  PROVE  /\ AtSentinel(p) <=> (Position(p) = Size)
         /\ SentinelDifference(p) = Position(p) - Size
         /\ p.index < Count => ~AtEndOf(p.index, p)
<1> DEFINE i == p.index
<1>1. /\ i \in 1..Count /\ p.offset \in Int /\ p.offset <= sizes[i]
      /\ (i < Count => p.offset < sizes[i]) /\ Position(p) = Start(i) + p.offset
  BY PlaceParts
<1> HIDE DEF i
<1>2. Count \in Nat  BY DEF SizesOK
<1>3. /\ i \in 1..(Count + 1) /\ i + 1 \in 1..(Count + 1) /\ Count + 1 \in 1..(Count + 1)
      /\ i + 1 <= Count + 1 /\ Count + 1 - 1 = Count /\ i + 1 - 1 = i
  BY <1>1, <1>2
<1>4. /\ Start(i) \in Nat /\ sizes[i] \in Nat /\ Size \in Nat /\ Start(i + 1) \in Nat
      /\ Start(i + 1) = Start(i) + sizes[i] /\ Start(i + 1) <= Size /\ Size = Start(Count + 1)
  BY <1>1, <1>3, Starts
<1>5. AtSentinel(p) <=> (Position(p) = Size)
  <2>1. CASE i = Count
    <3>1. Size = Start(i) + sizes[i]  BY <1>4, <2>1
    <3>2. Position(p) = Size <=> p.offset = sizes[i]  BY <1>1, <1>4, <3>1
    <3> QED  BY <2>1, <3>2 DEF AtSentinel, AtEndOf, i
  <2>2. CASE i # Count
    <3>1. p.offset < sizes[i]  BY <1>1, <1>2, <2>2
    <3>2. \A a, s, t \in Nat, o \in Int : a + s <= t /\ o < s => a + o # t  OBVIOUS
    <3>3. Start(i) + p.offset # Size  BY <1>1, <1>4, <3>1, <3>2
    <3> QED  BY <1>1, <2>2, <3>3 DEF AtSentinel, i
  <2> QED  BY <2>1, <2>2
<1>6. SentinelDifference(p) = Position(p) - Size
  <2>1. SizeSum(i + 1, Count) = Size - Start(i + 1)
    <3> DEFINE k == Count + 1
    <3>1. k - 1 = Count  BY <1>2
    <3>2. Size = Start(k)  BY <1>4
    <3> HIDE DEF k
    <3>3. Sums(sizes)[Count] = Size  BY <3>1, <3>2 DEF Start
    <3> QED  BY <3>3 DEF SizeSum, Start
  <2>2. SentinelDifference(p) = -((sizes[i] - p.offset) + (Size - Start(i + 1)))
    BY <2>1 DEF SentinelDifference, i
  <2>3. \A a, b, s, t \in Nat, o \in Int : b = a + s => -((s - o) + (t - b)) = (a + o) - t
    OBVIOUS
  <2>4. -((sizes[i] - p.offset) + (Size - Start(i + 1))) = (Start(i) + p.offset) - Size
    BY <1>1, <1>4, <2>3
  <2> QED  BY <1>1, <2>2, <2>4
<1>7. i < Count => ~AtEndOf(i, p)  BY <1>1, <1>4 DEF AtEndOf
<1> QED  BY <1>5, <1>6, <1>7 DEF i

\* begin() and end().
LEMMA EndsArePlaces ==
  ASSUME SizesOK
  PROVE  At(ConBegin, 0) /\ At(ConEnd, Size)
<1>1. Count \in Nat \ {0} /\ 1 \in 1..Count /\ Count \in 1..Count /\ Count \in 1..(Count + 1)
  BY DEF SizesOK
<1>2. sizes[1] \in Nat /\ sizes[Count] \in Nat  BY <1>1, Starts
<1>3. At(ConBegin, 0)
  <2>1. ConBegin = Satisfied[1][0]  BY DEF ConBegin, Satisfy, It
  <2>2. At(Satisfied[1][0], Start(1) + 0)  BY <1>1, <1>2, SatisfiedLands
  <2>3. Start(1) + 0 = 0  BY Starts
  <2> QED  BY <2>1, <2>2, <2>3
<1>4. At(ConEnd, Size)
  <2>1. At(It(Count, sizes[Count]), Start(Count) + sizes[Count])  BY <1>1, <1>2, Lands
  <2>2. Start(Count) + sizes[Count] = Size  BY <1>1, Starts
  <2> QED  BY <2>1, <2>2 DEF ConEnd
<1> QED  BY <1>3, <1>4

-----------------------------------------------------------------------------
(* The inductive invariant of concat_view: both iterators are at places.   *)

ConInd ==
  /\ SizesOK
  /\ it \in [Iterators -> Iterator]
  /\ \A w \in Iterators : IsPlace(it[w])

LEMMA ConInitial ==
  ASSUME ConInit
  PROVE  ConInd
<1>1. SizesOK
  <2>1. PICK n \in 1..MaxViews : sizes \in [1..n -> 0..MaxSize]  BY DEF ConInit
  <2>2. n \in Nat \ {0} /\ 0..MaxSize \subseteq Nat  BY ViewBounds DEF ViewBounds
  <2>3. sizes \in [1..n -> Nat]  BY <2>1, <2>2
  <2>4. sizes \in Seq(Nat) /\ Len(sizes) = n  BY <2>2, <2>3
  <2> QED  BY <2>2, <2>4 DEF SizesOK, Count
<1>2. IsPlace(ConBegin) /\ IsPlace(ConEnd)  BY <1>1, EndsArePlaces DEF At
<1>3. ConBegin \in Iterator /\ ConEnd \in Iterator  BY <1>2 DEF IsPlace
<1>4. it = [x |-> ConBegin, y |-> ConEnd]  BY DEF ConInit
<1>5. it["x"] = ConBegin /\ it["y"] = ConEnd /\ it \in [Iterators -> Iterator]
  BY <1>3, <1>4 DEF Iterators
<1> QED  BY <1>1, <1>2, <1>5 DEF ConInd, Iterators

\* A move that lands keeps the invariant, and is as long as it says.
LEMMA MovedLands ==
  ASSUME ConInd, NEW w \in Iterators, NEW p, NEW n \in Int, Moved(w, p, n),
         At(p, Position(it[w]) + n)
  PROVE  /\ ConInd'
         /\ \A v \in Iterators : v = asked'[1] => Position(it[v])' = Position(it[v]) + asked'[2]
<1>1. /\ it' = [it EXCEPT ![w] = p] /\ asked' = <<w, n>> /\ sizes' = sizes
  BY DEF Moved
<1>2. p \in Iterator /\ IsPlace(p)  BY DEF At, IsPlace
<1>3. SizesOK'  BY <1>1 DEF ConInd, SizesOK, Count
<1>4. it' \in [Iterators -> Iterator]  BY <1>1, <1>2 DEF ConInd
<1>5. it'[w] = p /\ \A v \in Iterators : v # w => it'[v] = it[v]  BY <1>1 DEF ConInd
<1>6. ASSUME NEW v \in Iterators PROVE IsPlace(it[v])'
  <2>1. IsPlace(it'[v])  BY <1>2, <1>5 DEF ConInd
  <2> QED  BY <1>1, <2>1 DEF IsPlace, Count
<1>7. Position(it[w])' = Position(it[w]) + n
  <2>1. Sums(sizes)' = Sums(sizes)  BY <1>1
  <2>2. Position(it[w])' = Position(it'[w])  BY <2>1 DEF Position, SizeSum
  <2>3. Position(p) = Position(it[w]) + n  BY DEF At
  <2> QED  BY <1>5, <2>2, <2>3
<1>8. asked'[1] = w /\ asked'[2] = n  BY <1>1
<1> QED  BY <1>3, <1>4, <1>6, <1>7, <1>8 DEF ConInd

LEMMA ConStep ==
  ASSUME ConInd, ConNext
  PROVE  /\ ConInd'
         /\ \A v \in Iterators : v = asked'[1] => Position(it[v])' = Position(it[v]) + asked'[2]
<1> DEFINE Exact == \A v \in Iterators : v = asked'[1] => Position(it[v])' = Position(it[v]) + asked'[2]
<1> HIDE DEF Exact
<1>0. ASSUME NEW w \in Iterators, NEW p, NEW n \in Int, Moved(w, p, n),
             At(p, Position(it[w]) + n)
      PROVE  ConInd' /\ Exact
  BY <1>0, MovedLands DEF Exact
<1>1. SizesOK /\ \A w \in Iterators : IsPlace(it[w])  BY DEF ConInd
<1>2. Count \in Nat  BY <1>1 DEF SizesOK
<1>3. ASSUME NEW w \in Iterators, Increment(w) PROVE ConInd' /\ Exact
  <2> DEFINE i == it[w].index
             o == it[w].offset
  <2>1. /\ it[w] = It(i, o) /\ i \in 1..Count /\ o \in Int /\ 0 <= o /\ o <= sizes[i]
        /\ (i < Count => o < sizes[i]) /\ Position(it[w]) = Start(i) + o
    BY <1>1, PlaceParts
  <2> HIDE DEF i, o
  <2>2. sizes[i] \in Nat /\ Start(i) \in Nat
    <3>1. i \in 1..(Count + 1)  BY <1>2, <2>1
    <3> QED  BY <1>1, <2>1, <3>1, Starts
  <2>3. ~(i = Count /\ o = sizes[Count])
    BY <1>3 DEF Increment, AtSentinel, AtEndOf, i, o
  <2>4. o < sizes[i]  BY <1>2, <2>1, <2>2, <2>3
  <2>5. o + 1 \in Nat /\ o + 1 <= sizes[i]  BY <2>1, <2>2, <2>4
  <2>6. [it[w] EXCEPT !.offset = @ + 1] = It(i, o + 1)  BY <2>1 DEF It
  <2>7. Satisfy(It(i, o + 1)) = Satisfied[i][o + 1]  BY DEF Satisfy, It
  <2>8. At(Satisfied[i][o + 1], Start(i) + (o + 1))  BY <1>1, <2>1, <2>5, SatisfiedLands
  <2>9. Start(i) + (o + 1) = Position(it[w]) + 1  BY <2>1, <2>2
  <2>10. Moved(w, Satisfied[i][o + 1], 1)  BY <1>3, <2>6, <2>7 DEF Increment
  <2> QED  BY <1>0, <2>8, <2>9, <2>10
<1>4. ASSUME NEW w \in Iterators, Decrement(w) PROVE ConInd' /\ Exact
  <2> DEFINE i == it[w].index
             o == it[w].offset
  <2>1. /\ i \in 1..Count /\ o \in Int /\ 0 <= o /\ o <= sizes[i]
        /\ Position(it[w]) = Start(i) + o
    BY <1>1, PlaceParts
  <2>2. Prev(it[w]) = Before[i][o]  BY DEF Prev
  <2> HIDE DEF i, o
  <2>3. Position(it[w]) > 0 /\ Moved(w, Before[i][o], -1)  BY <1>4, <2>2 DEF Decrement
  <2>4. o \in Nat /\ Start(i) \in Nat
    <3>1. i \in 1..(Count + 1)  BY <1>2, <2>1
    <3> QED  BY <1>1, <2>1, <3>1, Starts
  <2>5. At(Before[i][o], Start(i) + o - 1)  BY <1>1, <2>1, <2>3, <2>4, BeforeLands
  <2>6. Start(i) + o - 1 = Position(it[w]) + (-1)  BY <2>1, <2>4
  <2>7. -1 \in Int  OBVIOUS
  <2> QED  BY <1>0, <2>3, <2>5, <2>6, <2>7
<1>5. ASSUME NEW w \in Iterators, NEW n \in Int, PlusAssign(w, n) PROVE ConInd' /\ Exact
  <2> DEFINE i == it[w].index
             o == it[w].offset
             q == Position(it[w])
  <2>1. /\ i \in 1..Count /\ o \in Int /\ 0 <= o /\ o <= sizes[i]
        /\ (i < Count => o < sizes[i]) /\ q = Start(i) + o
    BY <1>1, PlaceParts
  <2>2. /\ q + n \in 0..Size
        /\ Moved(w, IF n > 0 THEN Forward[i][o + n]
                    ELSE IF n < 0 THEN Backward[i][o - (-n)] ELSE it[w], n)
    BY <1>5 DEF PlusAssign, AdvanceFwd, AdvanceBwd
  <2>3. IsPlace(it[w])  BY <1>1
  <2> HIDE DEF i, o
  <2>4. o \in Nat /\ Start(i) \in Nat /\ sizes[i] \in Nat /\ Size \in Nat /\ q \in Int
    <3>1. i \in 1..(Count + 1) /\ Count + 1 \in 1..(Count + 1)  BY <1>2, <2>1
    <3>2. Start(i) \in Nat /\ sizes[i] \in Nat /\ Size \in Nat  BY <1>1, <2>1, <3>1, Starts
    <3> QED  BY <2>1, <3>2
  <2>5. CASE n > 0
    <3>1. o + n \in Nat /\ Start(i) + (o + n) = q + n  BY <2>1, <2>4, <2>5
    <3>2. q + n <= Size  BY <2>2, <2>4
    <3>3. At(Forward[i][o + n], q + n)
      <4> HIDE DEF q
      <4>1. Start(i) + (o + n) <= Size  BY <3>1, <3>2
      <4>2. At(Forward[i][o + n], Start(i) + (o + n))  BY <1>1, <2>1, <3>1, <4>1, ForwardLands
      <4> QED  BY <3>1, <4>2
    <3>4. Moved(w, Forward[i][o + n], n)  BY <2>2, <2>5
    <3> QED  BY <1>0, <3>3, <3>4
  <2>6. CASE n < 0
    <3> DEFINE m == o - (-n)
    <3>1. m \in Int /\ Start(i) + m = q + n /\ m < o  BY <2>1, <2>4, <2>6
    <3>2. q + n >= 0  BY <2>2, <2>4
    <3>3. m < sizes[i] /\ m <= sizes[i]  BY <2>1, <2>4, <3>1
    <3>4. Moved(w, Backward[i][m], n)  BY <2>2, <2>4, <2>6
    <3> HIDE DEF m
    <3>5. At(Backward[i][m], q + n)
      <4> HIDE DEF q
      <4>1. Start(i) + m >= 0  BY <3>1, <3>2
      <4>2. At(Backward[i][m], Start(i) + m)  BY <1>1, <2>1, <3>1, <3>3, <4>1, BackwardLands
      <4> QED  BY <3>1, <4>2
    <3> QED  BY <1>0, <3>4, <3>5
  <2>7. CASE n = 0
    <3>1. Moved(w, it[w], n)  BY <2>2, <2>7
    <3>2. q + n = q  BY <2>4, <2>7
    <3>3. At(it[w], q + n)  BY <2>3, <3>2 DEF At
    <3> QED  BY <1>0, <3>1, <3>3
  <2> QED  BY <2>5, <2>6, <2>7
<1>6. ASSUME NEW w \in Iterators, NEW p \in {ConBegin, ConEnd, it["x"], it["y"]}, Assign(w, p)
      PROVE  ConInd' /\ Exact
  <2>1. IsPlace(p)  BY <1>1, EndsArePlaces DEF At, Iterators
  <2>2. Position(p) \in Int /\ Position(it[w]) \in Int  BY <1>1, <2>1, PlaceParts
  <2>3. Moved(w, p, Position(p) - Position(it[w]))  BY <1>6 DEF Assign
  <2>4. Position(p) = Position(it[w]) + (Position(p) - Position(it[w]))  BY <2>2
  <2>5. At(p, Position(it[w]) + (Position(p) - Position(it[w])))  BY <2>1, <2>4 DEF At
  <2>6. Position(p) - Position(it[w]) \in Int  BY <2>2
  <2> QED  BY <1>0, <2>3, <2>5, <2>6
<1>7. PICK w \in Iterators :
        \/ Increment(w) \/ Decrement(w)
        \/ \E n \in -(MaxViews * MaxSize)..(MaxViews * MaxSize) : PlusAssign(w, n)
        \/ \E p \in {ConBegin, ConEnd, it["x"], it["y"]} : Assign(w, p)
  BY DEF ConNext
<1>8. -(MaxViews * MaxSize)..(MaxViews * MaxSize) \subseteq Int  OBVIOUS
<1>9. ConInd' /\ Exact  BY <1>3, <1>4, <1>5, <1>6, <1>7, <1>8
<1> QED  BY <1>9 DEF Exact

LEMMA ConStutters ==
  ASSUME ConInd, UNCHANGED conVars
  PROVE  ConInd'
<1>1. sizes' = sizes /\ it' = it  BY DEF conVars
<1> QED  BY <1>1 DEF ConInd, SizesOK, Count, IsPlace

\* Any number of views of any sizes: each place of the concatenated range has
\* one representation, by which ==, <=>, the differences and the sentinel are
\* those of the places.
THEOREM OneFormAlways == ConSpec => []OneFormPerPlace
<1>1. ConInit => ConInd  BY ConInitial
<1>2. ConInd /\ [ConNext]_conVars => ConInd'  BY ConStep, ConStutters
<1>3. ConInd => OneFormPerPlace
  <2> SUFFICES ASSUME ConInd PROVE OneFormPerPlace  OBVIOUS
  <2>1. SizesOK  BY DEF ConInd
  <2>2. IsPlace(ConBegin) /\ Position(ConBegin) = 0 /\ IsPlace(ConEnd) /\ Position(ConEnd) = Size
    BY <2>1, EndsArePlaces DEF At
  <2>3. \A p \in {it["x"], it["y"], ConBegin, ConEnd} : IsPlace(p)
    BY <2>2 DEF ConInd, Iterators
  <2>4. Size = Difference(ConEnd, ConBegin)
    <3>1. Difference(ConEnd, ConBegin) = Position(ConEnd) - Position(ConBegin)
      BY <2>1, <2>2, PlaceDifference
    <3>2. Position(ConEnd) \in Int  BY <2>1, <2>2, PlaceParts
    <3> QED  BY <2>2, <3>1, <3>2
  <2> QED  BY <2>1, <2>3, <2>4, PlacesOrdered, PlaceDifference, PlaceSentinel DEF OneFormPerPlace
<1> QED  BY <1>1, <1>2, <1>3, PTL DEF ConSpec

\* ++, --, += and -= move as far as they say, over any number of boundaries
\* and empty views.
THEOREM MovesAlwaysExact == ConSpec => MovesExactly
<1>1. ConInit => ConInd  BY ConInitial
<1>2. ConInd /\ [ConNext]_conVars => ConInd'  BY ConStep, ConStutters
<1>3. ConInd /\ [ConNext]_conVars
      => [\A w \in Iterators : w = asked'[1] => Position(it[w])' = Position(it[w]) + asked'[2]]_conVars
  BY ConStep
<1> QED  BY <1>1, <1>2, <1>3, PTL DEF ConSpec, MovesExactly
=============================================================================
