---------------------------- MODULE Comparators ----------------------------
(***************************************************************************)
(* The three-way comparators of compare/: a comparator maps two elements   *)
(* to an outcome and promises, by its return type, a category of order.    *)
(* A comparator is built by piping one into another: then(), promote() and *)
(* extract().  A closure such as then(c) is the same step with its left    *)
(* operand given later.                                                    *)
(***************************************************************************)
CONSTANTS Elements,
          Keys,     \* projections of the elements
          Given     \* the user's comparators, [cat, fun]: fun[x][y] an outcome

KeysOK == Keys \subseteq [Elements -> Elements]

ASSUME CmpParameters == KeysOK

VARIABLES cat,      \* the category the comparator built so far promises
          fun,      \* what it answers
          lossy     \* history: some promote() dropped an incomparability

cmpVars == <<cat, fun, lossy>>

Outcomes   == {"less", "equivalent", "greater", "unordered"}
Categories == {"partial", "weak", "strong"}
Decisive   == {"less", "greater"}

\* Mutant of CommonCategory: the last one's category.
CommonCategory_Last(c, d) == d

\* std::common_comparison_category_t
CommonCategory(c, d) ==
  IF "partial" \in {c, d} THEN "partial" ELSE IF "weak" \in {c, d} THEN "weak" ELSE "strong"

\* then and then_with, on outcomes: the second counts if the first is equal.
ThenOutcome(o, p) == IF o = "equivalent" THEN p ELSE o

\* then_comparator
Then(f, g) == [x \in Elements |-> [y \in Elements |-> ThenOutcome(f[x][y], g[x][y])]]

\* is_promotable: strong to strong is refused, and so is any step down.
Promotable(c, d) == c # "strong" /\ ~(c = "weak" /\ d = "partial")

\* promote_comparator: equivalent or unordered, the second decides.
Promote(f, g) ==
  [x \in Elements |-> [y \in Elements |-> IF f[x][y] \in Decisive THEN f[x][y] ELSE g[x][y]]]

\* extract_comparator: compares what key, a projection, makes of the elements.
Extract(key, f) == [x \in Elements |-> [y \in Elements |-> f[key[x]][key[y]]]]

-----------------------------------------------------------------------------
(* What a category promises *)

Mirror(o) == CASE o = "less" -> "greater" [] o = "greater" -> "less" [] OTHER -> o

Mirrored(f) == \A x, y \in Elements : f[y][x] = Mirror(f[x][y])

\* "less" is transitive, and "equivalent" means interchangeable under f.
Transitive(f) ==
  \A x, y, z \in Elements :
    /\ f[x][y] = "less" /\ f[y][z] = "less" => f[x][z] = "less"
    /\ f[x][y] = "equivalent" => f[x][z] = f[y][z]

Total(f) == \A x, y \in Elements : f[x][y] # "unordered"

IsFun(f) == f \in [Elements -> [Elements -> Outcomes]]
Lawful(c, f) == IsFun(f) /\ Mirrored(f) /\ Transitive(f) /\ (c # "partial" => Total(f))

\* Elements a comparator does not tell apart, for either reason, make groups.
TiesTransitive(f) ==
  \A x, y, z \in Elements :
    f[x][y] \notin Decisive /\ f[y][z] \notin Decisive => f[x][z] \notin Decisive

-----------------------------------------------------------------------------
\* wrap: any binary function with lawful answers can begin a pipe.
CmpInit ==
  /\ \E c \in Given : Lawful(c.cat, c.fun) /\ cat = c.cat /\ fun = c.fun
  /\ lossy = FALSE

PipeThen(c) ==
  /\ Lawful(c.cat, c.fun)
  /\ fun' = Then(fun, c.fun)
  /\ cat' = CommonCategory(cat, c.cat)
  /\ UNCHANGED lossy

PipePromote(c) ==
  /\ Lawful(c.cat, c.fun) /\ Promotable(cat, c.cat)
  /\ fun' = Promote(fun, c.fun)
  /\ cat' = c.cat
  /\ lossy' = (lossy \/ ~TiesTransitive(fun))

\* comp | f: the shorthand for comp | then(extract(f)).
PipeKey(key, c) ==
  /\ Lawful(c.cat, c.fun)
  /\ fun' = Then(fun, Extract(key, c.fun))
  /\ cat' = CommonCategory(cat, c.cat)
  /\ UNCHANGED lossy

CmpNext ==
  \E c \in Given :
    \/ PipeThen(c)
    \/ PipePromote(c)
    \/ \E key \in Keys : PipeKey(key, c)

CmpSpec == CmpInit /\ [][CmpNext]_cmpVars

-----------------------------------------------------------------------------
\* However it was piped together, a comparator keeps what its category
\* promises, and a sort may rely on it, unless promote() was given a partial
\* comparator whose ties are not transitive (with a NaN that ties with
\* everything the result can run in a circle).
PromiseKept == ~lossy => Lawful(cat, fun)

\* A later comparator only breaks ties: it never turns an answer around.
OnlyBreaksTies ==
  [][\A x, y \in Elements : fun[x][y] \in Decisive => fun'[x][y] = fun[x][y]]_cmpVars
=============================================================================
