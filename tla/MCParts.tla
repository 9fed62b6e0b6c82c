------------------------------ MODULE MCParts ------------------------------
(***************************************************************************)
(* The parts of the library that share nothing with one another, one run   *)
(* for all of them: a behaviour is one of part's module, with the others   *)
(* at rest in an initial state.                                            *)
(***************************************************************************)
EXTENDS Integers, Comparators, WorkerPool, StatsTracker, ParForEach, ConcatView, VariantView,
        Colorize

CONSTANTS MaxText, TextTokens, FieldWords    \* strings for Colorize

VARIABLE part

vars == <<part, colVars, conVars, cmpVars, viewVars, eachVars, poolVars, trackVars>>

M == INSTANCE MCStrings
MCInputs == M!Strings

\* Comparators of three elements: by rank, by parity, by rank with one element
\* that compares with none, and one that ties everything.
Identity == [x \in Elements |-> x]
By(key) == [x \in Elements |-> [y \in Elements |->
  IF key[x] < key[y] THEN "less" ELSE IF key[x] > key[y] THEN "greater" ELSE "equivalent"]]
WithNaN(nan) == [x \in Elements |-> [y \in Elements |->
  IF nan \in {x, y} /\ x # y THEN "unordered" ELSE By(Identity)[x][y]]]
MCPacks == {<<1>>, <<1, 2>>, <<3, 1, 2>>}
MCKeys == {<<3, 2, 1>>, <<2, 2, 1>>, <<1, 3, 3>>}
MCGiven ==
  [cat : {"strong", "weak"}, fun : {By(Identity), By(<<1, 2, 1>>), By(<<3, 1, 1>>)}]
    \union [cat : {"partial"}, fun : {WithNaN(n) : n \in Elements} \union {By(<<1, 1, 1>>)}]

-----------------------------------------------------------------------------
Parts == {"colorize", "concat_view", "comparators", "variant_view", "par_for_each",
          "worker_pool", "stats_tracker"}

Init ==
  /\ part \in Parts
  /\ IF part = "colorize" THEN ColInit
     ELSE /\ str = <<>> /\ mode = "check" /\ phase = "done" /\ pos = 0 /\ left = NPos
          /\ right = NPos /\ spec = NoSpec /\ out = <<>>
  /\ IF part = "concat_view" THEN ConInit
     ELSE sizes = <<0>> /\ it = [x |-> It(1, 0), y |-> It(1, 0)] /\ asked = <<"x", 0>>
  /\ IF part = "comparators" THEN CmpInit
     ELSE cat = "strong" /\ fun = By(Identity) /\ lossy = FALSE
  /\ IF part = "variant_view" THEN ViewInit
     ELSE /\ variant = [a \in Variants |-> [type |-> 1, value |-> 0]]
          /\ view = [n \in Views |-> [base |-> Null, types |-> <<1>>]]
  /\ EachInit /\ (part # "par_for_each" => policy = "proceed")
  /\ PoolInit /\ (part # "worker_pool" => limit = 2)
  /\ TrackInit

Next ==
  \/ /\ part = "colorize" /\ ColNext
     /\ UNCHANGED <<part, conVars, cmpVars, viewVars, eachVars, poolVars, trackVars>>
  \/ /\ part = "concat_view" /\ ConNext
     /\ UNCHANGED <<part, colVars, cmpVars, viewVars, eachVars, poolVars, trackVars>>
  \/ /\ part = "comparators" /\ CmpNext
     /\ UNCHANGED <<part, colVars, conVars, viewVars, eachVars, poolVars, trackVars>>
  \/ /\ part = "variant_view" /\ ViewNext
     /\ UNCHANGED <<part, colVars, conVars, cmpVars, eachVars, poolVars, trackVars>>
  \/ /\ part = "par_for_each" /\ EachNext
     /\ UNCHANGED <<part, colVars, conVars, cmpVars, viewVars, poolVars, trackVars>>
  \/ /\ part = "worker_pool" /\ PoolNext
     /\ UNCHANGED <<part, colVars, conVars, cmpVars, viewVars, eachVars, trackVars>>
  \/ /\ part = "stats_tracker" /\ TrackNext
     /\ UNCHANGED <<part, colVars, conVars, cmpVars, viewVars, eachVars, poolVars>>

Spec == Init /\ [][Next]_vars /\ WF_(colVars)(ColNext) /\ PoolFairness /\ TrackFairness

=============================================================================
