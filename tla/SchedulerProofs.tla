-------------------------- MODULE SchedulerProofs ---------------------------
(***************************************************************************)
(* Scheduler keeps its accounts for any number of workers, inputs and      *)
(* executions, as long as its gates count what passes them: completion is  *)
(* never announced early, and no value is lost.                            *)
(***************************************************************************)
EXTENDS Scheduler, FiniteSetTheorems, TLAPS

-----------------------------------------------------------------------------
(* What workers hold together, when one of them changes.                   *)

Bundle(f, W) == UNION {{w} \X (1..f[w]) : w \in W}

LEMMA BundleFinite ==
  ASSUME NEW W, IsFiniteSet(W), NEW f, \A w \in W : f[w] \in Nat
  PROVE  IsFiniteSet(Bundle(f, W))
<1> DEFINE g == [w \in W |-> {w} \X (1..f[w])]
           T == {{w} \X (1..f[w]) : w \in W}
<1>1. g \in Surjection(W, T)  BY DEF Surjection
<1>2. IsFiniteSet(T)  BY <1>1, FS_Surjection
<1>3. ASSUME NEW B \in T PROVE IsFiniteSet(B)
  <2>1. PICK w \in W : B = {w} \X (1..f[w])  OBVIOUS
  <2>2. IsFiniteSet(1..f[w])  BY FS_Interval
  <2>3. IsFiniteSet({w})  BY FS_Singleton
  <2> QED  BY <2>1, <2>2, <2>3, FS_Product
<1>4. IsFiniteSet(UNION T)  BY <1>2, <1>3, FS_UNION
<1> QED  BY <1>4 DEF Bundle

LEMMA HeldType ==
  ASSUME NEW W, IsFiniteSet(W), NEW f, \A w \in W : f[w] \in Nat
  PROVE  Held(f, W) \in Nat
<1>1. IsFiniteSet(Bundle(f, W))  BY BundleFinite
<1> QED  BY <1>1, FS_CardinalityType DEF Held, Bundle

\* One worker's share.
LEMMA HeldSplit ==
  ASSUME NEW W, IsFiniteSet(W), NEW f, \A w \in W : f[w] \in Nat, NEW v \in W
  PROVE  Held(f, W) = Held(f, W \ {v}) + f[v]
<1> DEFINE A == Bundle(f, W \ {v})
           B == {v} \X (1..f[v])
<1>1. Bundle(f, W) = A \union B  BY DEF Bundle
<1>2. A \intersect B = {}  BY DEF Bundle
<1>3. IsFiniteSet(W \ {v})  BY FS_RemoveElement
<1>4. IsFiniteSet(A)
  <2> \A w \in W \ {v} : f[w] \in Nat  OBVIOUS
  <2> QED  BY <1>3, BundleFinite
<1>5. IsFiniteSet(1..f[v]) /\ Cardinality(1..f[v]) = f[v]
  <2>1. f[v] \in Nat  OBVIOUS
  <2>2. IsFiniteSet(1..f[v])  BY <2>1, FS_Interval
  <2>3. Cardinality(1..f[v]) = IF 1 > f[v] THEN 0 ELSE f[v] - 1 + 1  BY <2>1, FS_Interval
  <2> QED  BY <2>1, <2>2, <2>3
<1>6. IsFiniteSet({v}) /\ Cardinality({v}) = 1  BY FS_Singleton
<1>7. IsFiniteSet(B) /\ Cardinality(B) = 1 * f[v]
  <2> DEFINE one == {v}
             many == 1..f[v]
  <2>1. IsFiniteSet(one) /\ Cardinality(one) = 1  BY <1>6
  <2>2. IsFiniteSet(many) /\ Cardinality(many) = f[v]  BY <1>5
  <2> HIDE DEF one, many
  <2>3. IsFiniteSet(one \X many) /\ Cardinality(one \X many) = Cardinality(one) * Cardinality(many)
    BY <2>1, <2>2, FS_Product
  <2> QED  BY <2>1, <2>2, <2>3 DEF one, many
<1>8. Cardinality(A \union B) = Cardinality(A) + Cardinality(B) - Cardinality(A \intersect B)
  BY <1>4, <1>7, FS_Union
<1>9. Cardinality(A) \in Nat  BY <1>4, FS_CardinalityType
<1>10. Cardinality(A \intersect B) = 0  BY <1>2, FS_EmptySet
<1>11. Cardinality(B) = f[v]  BY <1>7
<1>12. Cardinality(A \union B) = Cardinality(A) + f[v]  BY <1>8, <1>9, <1>10, <1>11
<1> QED  BY <1>1, <1>12 DEF Held, Bundle

LEMMA HeldSame ==
  ASSUME NEW W, NEW f, NEW g, \A w \in W : f[w] = g[w]
  PROVE  Held(f, W) = Held(g, W)
<1>1. Bundle(f, W) = Bundle(g, W)  BY DEF Bundle
<1> QED  BY <1>1 DEF Held, Bundle

LEMMA HeldNothing ==
  ASSUME NEW W, NEW f, \A w \in W : f[w] = 0
  PROVE  Held(f, W) = 0
<1>1. Bundle(f, W) = {}  BY DEF Bundle
<1> QED  BY <1>1, FS_EmptySet DEF Held, Bundle

\* If workers hold nothing together, each holds nothing.
LEMMA NothingHeld ==
  ASSUME NEW W, IsFiniteSet(W), NEW f, \A w \in W : f[w] \in Nat, Held(f, W) = 0
  PROVE  \A w \in W : f[w] = 0
<1> SUFFICES ASSUME NEW v \in W PROVE f[v] = 0  OBVIOUS
<1>1. Held(f, W) = Held(f, W \ {v}) + f[v]  BY HeldSplit
<1>2. IsFiniteSet(W \ {v})  BY FS_RemoveElement
<1>3. Held(f, W \ {v}) \in Nat  BY <1>2, HeldType
<1> QED  BY <1>1, <1>3

Counts(f, W) == IsFiniteSet(W) /\ \A w \in W : f[w] \in Nat
SameBut(f, V, g, W, v) == V \ {v} = W \ {v} /\ \A w \in W \ {v} : f[w] = g[w]

\* Only worker v changes what it holds, or its side.
LEMMA HeldChange ==
  ASSUME NEW f, NEW V, NEW g, NEW W, NEW v, Counts(f, V), Counts(g, W), SameBut(f, V, g, W, v)
  PROVE  Held(g, W) - (IF v \in W THEN g[v] ELSE 0) = Held(f, V) - (IF v \in V THEN f[v] ELSE 0)
<1> USE DEF Counts, SameBut
<1> DEFINE R == Held(f, V \ {v})
<1>1. Held(g, W \ {v}) = R  BY HeldSame
<1>2. IsFiniteSet(V \ {v})  BY FS_RemoveElement
<1>3. R \in Nat  BY <1>2, HeldType
<1>4. Held(f, V) - (IF v \in V THEN f[v] ELSE 0) = R
  <2>1. CASE v \in V  BY <2>1, <1>3, HeldSplit
  <2>2. CASE v \notin V
    <3>1. V \ {v} = V  BY <2>2
    <3> QED  BY <2>2, <3>1, <1>3
  <2> QED  BY <2>1, <2>2
<1>5. Held(g, W) - (IF v \in W THEN g[v] ELSE 0) = R
  <2>1. CASE v \in W  BY <2>1, <1>1, <1>3, HeldSplit
  <2>2. CASE v \notin W
    <3>1. W \ {v} = W  BY <2>2
    <3>2. Held(g, W) = R  BY <3>1, <1>1
    <3> QED  BY <2>2, <3>2, <1>3
  <2> QED  BY <2>1, <2>2
<1> QED  BY <1>4, <1>5

-----------------------------------------------------------------------------
(* The invariant.                                                          *)

\* Gates count what passes: they are counting ones, or reject a second access,
\* or the user functions make one access at most.
GatesCount ==
  /\ MultiPush \/ Debug \/ (ChunkSize = 1 /\ Pushes \subseteq {0, 1})
  /\ MultiPop \/ Debug \/ Pops \subseteq {1}

\* The workers that start() has launched, or will have.
Target == IF runs = 0 THEN 0 ELSE Limit + 2 * (runs - 1)

Launches ==
  /\ master = "launch" => runs # 0 /\ launched < Target
  /\ master # "launch" => launched = Target
  /\ \A w \in Workers : w > launched => pc[w] = "none"

\* Where a worker is says what it can have in hand.
InHand(w) ==
  /\ pc[w] \in {"none", "loop"} => moved[w] = 0 /\ count[w] = 0
  /\ pc[w] \in {"input", "push"} =>
       mode[w] = "producer" /\ count[w] \in 1..ChunkSize /\ chunk[w] <= count[w]
  /\ pc[w] = "push" => chunk[w] >= 1 /\ todo[w] >= 1
  /\ pc[w] = "pop" => mode[w] = "consumer" /\ count[w] = 0
  /\ mode[w] = "producer" /\ count[w] = 0 => moved[w] = 0

\* What has passed a gate of a producer, by the inputs that are done, and what
\* one of a consumer, by the accesses still to come.
AtGate(w) ==
  ~closed =>
    /\ pc[w] \in {"input", "push", "pop"} => gate[w] = moved[w]
    /\ pc[w] \in {"input", "push"} /\ ~MultiPush =>
         /\ moved[w] <= 1
         /\ IF discarded[w] THEN pc[w] = "input" /\ chunk[w] = 0 /\ moved[w] = 0
                            ELSE moved[w] >= count[w] - chunk[w]
         /\ pc[w] = "input" /\ chunk[w] = count[w] => moved[w] = 0
         /\ ~Debug => moved[w] <= count[w] - chunk[w] /\ (pc[w] = "push" => todo[w] = 1)
    /\ pc[w] = "pop" => todo[w] > 0 \/ moved[w] >= 1
    /\ pc[w] = "pop" /\ ~MultiPop => moved[w] <= 1 /\ (~Debug => todo[w] + moved[w] <= 1)

Locals == \A w \in Workers : InHand(w) /\ AtGate(w)

\* The flags are set in the order in which things happen.
Flags == stats.processedAll => stats.consumedAll /\ stats.processed = stats.consumed

\* The master closes the queue on its way out, and leaves the wait for a reason.
Endings ==
  /\ closed => master \in {"rethrow", "threw", "stopped", "join", "finished"}
  /\ MasterAwake
  /\ master = "woken" => AllTaskDone \/ stop
  /\ master = "returned" => AllTaskDone

SInd ==
  /\ TypeOK /\ Launches /\ Locals
  /\ ValuesConserved /\ InputsAccounted /\ Flags /\ Endings

-----------------------------------------------------------------------------
LEMMA WorkersFinite == Workers \subseteq Nat /\ IsFiniteSet(Workers)
<1>1. Limit + 2 * (Runs - 1) \in Int  BY ConstantTypes DEF ConstantTypes
<1>2. IsFiniteSet(1..(Limit + 2 * (Runs - 1)))  BY <1>1, FS_Interval
<1> QED  BY <1>1, <1>2 DEF Workers

LEMMA SidesFinite ==
  /\ Producing \subseteq Workers /\ IsFiniteSet(Producing)
  /\ Consuming \subseteq Workers /\ IsFiniteSet(Consuming)
BY WorkersFinite, FS_Subset DEF Producing, Consuming

LEMMA UnreportedType ==
  ASSUME TypeOK
  PROVE  Unreported(Producing) \in Nat /\ Unreported(Consuming) \in Nat
<1>1. \A w \in Workers : moved[w] \in Nat  BY DEF TypeOK
<1> QED  BY <1>1, SidesFinite, HeldType DEF Unreported

LEMMA UnreportedTypeAfter ==
  ASSUME TypeOK'
  PROVE  Unreported(Producing)' \in Nat /\ Unreported(Consuming)' \in Nat
<1>1. \A w \in Workers : moved'[w] \in Nat  BY DEF TypeOK
<1>2. /\ Producing' \subseteq Workers /\ IsFiniteSet(Producing')
      /\ Consuming' \subseteq Workers /\ IsFiniteSet(Consuming')
  BY WorkersFinite, FS_Subset DEF Producing, Consuming
<1>3. Held(moved', Producing') \in Nat  BY <1>1, <1>2, HeldType
<1>4. Held(moved', Consuming') \in Nat  BY <1>1, <1>2, HeldType
<1> QED  BY <1>3, <1>4 DEF Unreported

\* When one worker acts, the accounts of both sides change by its share.
LEMMA UnreportedChange ==
  ASSUME TypeOK, TypeOK', NEW w \in Workers,
         \A v \in Workers \ {w} : moved'[v] = moved[v] /\ mode'[v] = mode[v]
  PROVE  /\ Unreported(Producing)' - (IF mode'[w] = "producer" THEN moved'[w] ELSE 0)
              = Unreported(Producing) - (IF mode[w] = "producer" THEN moved[w] ELSE 0)
         /\ Unreported(Consuming)' - (IF mode'[w] = "consumer" THEN moved'[w] ELSE 0)
              = Unreported(Consuming) - (IF mode[w] = "consumer" THEN moved[w] ELSE 0)
<1>1. \A v \in Workers : moved[v] \in Nat /\ moved'[v] \in Nat  BY DEF TypeOK
<1>2. /\ Producing' \subseteq Workers /\ IsFiniteSet(Producing')
      /\ Consuming' \subseteq Workers /\ IsFiniteSet(Consuming')
  BY WorkersFinite, FS_Subset DEF Producing, Consuming
<1>3. Producing' \ {w} = Producing \ {w} /\ Consuming' \ {w} = Consuming \ {w}
  BY DEF Producing, Consuming
<1>4. /\ \A v \in Producing' \ {w} : moved[v] = moved'[v]
      /\ \A v \in Consuming' \ {w} : moved[v] = moved'[v]
  BY <1>2
<1>5. /\ w \in Producing <=> mode[w] = "producer"
      /\ w \in Producing' <=> mode'[w] = "producer"
      /\ w \in Consuming <=> mode[w] = "consumer"
      /\ w \in Consuming' <=> mode'[w] = "consumer"
  BY DEF Producing, Consuming
<1>6. Held(moved', Producing') - (IF w \in Producing' THEN moved'[w] ELSE 0)
        = Held(moved, Producing) - (IF w \in Producing THEN moved[w] ELSE 0)
  <2>1. Counts(moved, Producing) /\ Counts(moved', Producing')
    BY <1>1, <1>2, SidesFinite DEF Counts
  <2>2. SameBut(moved, Producing, moved', Producing', w)  BY <1>3, <1>4 DEF SameBut
  <2> QED  BY <2>1, <2>2, HeldChange
<1>7. Held(moved', Consuming') - (IF w \in Consuming' THEN moved'[w] ELSE 0)
        = Held(moved, Consuming) - (IF w \in Consuming THEN moved[w] ELSE 0)
  <2>1. Counts(moved, Consuming) /\ Counts(moved', Consuming')
    BY <1>1, <1>2, SidesFinite DEF Counts
  <2>2. SameBut(moved, Consuming, moved', Consuming', w)  BY <1>3, <1>4 DEF SameBut
  <2> QED  BY <2>1, <2>2, HeldChange
<1> QED  BY <1>5, <1>6, <1>7 DEF Unreported

LEMMA CountChange ==
  ASSUME TypeOK, TypeOK', NEW w \in Workers, \A v \in Workers \ {w} : count'[v] = count[v]
  PROVE  Held(count, Workers)' - count'[w] = Held(count, Workers) - count[w]
<1>1. \A v \in Workers : count[v] \in Nat /\ count'[v] \in Nat  BY DEF TypeOK
<1>2. Held(count', Workers) - (IF w \in Workers THEN count'[w] ELSE 0)
        = Held(count, Workers) - (IF w \in Workers THEN count[w] ELSE 0)
  <2>1. Counts(count, Workers) /\ Counts(count', Workers)  BY <1>1, WorkersFinite DEF Counts
  <2>2. SameBut(count, Workers, count', Workers, w)  BY DEF SameBut
  <2> QED  BY <2>1, <2>2, HeldChange
<1> QED  BY <1>2

LEMMA CountType ==
  ASSUME TypeOK
  PROVE  Held(count, Workers) \in Nat
<1>1. \A w \in Workers : count[w] \in Nat  BY DEF TypeOK
<1> QED  BY <1>1, WorkersFinite, HeldType

LEMMA CountTypeAfter ==
  ASSUME TypeOK'
  PROVE  Held(count, Workers)' \in Nat
<1>1. \A w \in Workers : count'[w] \in Nat  BY DEF TypeOK
<1>2. Held(count', Workers) \in Nat  BY <1>1, WorkersFinite, HeldType
<1> QED  BY <1>2

-----------------------------------------------------------------------------
(* What a step leaves alone.                                               *)

LEMMA LocalFrame ==
  ASSUME NEW v \in Workers, InHand(v), AtGate(v), closed => closed',
         pc'[v] = pc[v], mode'[v] = mode[v], count'[v] = count[v], chunk'[v] = chunk[v],
         todo'[v] = todo[v], gate'[v] = gate[v], discarded'[v] = discarded[v],
         moved'[v] = moved[v]
  PROVE  InHand(v)' /\ AtGate(v)'
<1>1. InHand(v)'  BY DEF InHand
<1>2. AtGate(v)'  BY DEF AtGate
<1> QED  BY <1>1, <1>2

LEMMA ValuesFrame ==
  ASSUME ValuesConserved, closed => closed', queued' = queued,
         stats'.output = stats.output, stats'.input = stats.input,
         \A v \in Workers : moved'[v] = moved[v] /\ mode'[v] = mode[v]
  PROVE  ValuesConserved'
<1>1. Producing' = Producing /\ Consuming' = Consuming  BY DEF Producing, Consuming
<1>2. \A v \in Producing : moved'[v] = moved[v]  BY DEF Producing
<1>3. \A v \in Consuming : moved'[v] = moved[v]  BY DEF Consuming
<1>4. Held(moved', Producing) = Held(moved, Producing)  BY <1>2, HeldSame
<1>5. Held(moved', Consuming) = Held(moved, Consuming)  BY <1>3, HeldSame
<1>6. Unreported(Producing)' = Unreported(Producing)  BY <1>1, <1>4 DEF Unreported
<1>7. Unreported(Consuming)' = Unreported(Consuming)  BY <1>1, <1>5 DEF Unreported
<1> QED  BY <1>6, <1>7 DEF ValuesConserved

LEMMA InputsFrame ==
  ASSUME InputsAccounted, Flags, stats' = stats, inputsLeft' = inputsLeft,
         \A v \in Workers : count'[v] = count[v] /\ fault'[v] # "stats"
  PROVE  InputsAccounted' /\ Flags'
<1>1. Held(count', Workers) = Held(count, Workers)  BY HeldSame
<1>2. InputsAccounted'  BY <1>1 DEF InputsAccounted
<1>3. Flags'  BY DEF Flags
<1> QED  BY <1>2, <1>3

-----------------------------------------------------------------------------
(* Completion.                                                             *)

\* Processed means that no worker has an input in its hands.
LEMMA AllProcessedMeansNoInput ==
  ASSUME SInd, AllTaskDone
  PROVE  inputsLeft = 0 /\ \A w \in Workers : count[w] = 0
<1> USE DEF SInd
<1>1. stats.consumedAll /\ stats.processed = stats.consumed
  BY DEF AllTaskDone, Done, Flags
<1>2. stats.consumed \in Nat /\ inputsLeft \in Nat /\ Inputs \in Nat
  BY ConstantTypes DEF TypeOK, ConstantTypes
<1>3. inputsLeft = 0  BY <1>1, <1>2 DEF InputsAccounted
<1>4. Held(count, Workers) = 0  BY <1>1, <1>2, CountType DEF InputsAccounted
<1>5. \A w \in Workers : count[w] \in Nat  BY DEF TypeOK
<1> QED  BY <1>3, <1>4, <1>5, WorkersFinite, NothingHeld

\* When the counts meet, nothing is left anywhere.
LEMMA Drained ==
  ASSUME SInd
  PROVE  DoneMeansDrained
<1> SUFFICES ASSUME AllTaskDone, ~closed
             PROVE  /\ inputsLeft = 0 /\ queued = 0
                    /\ \A w \in Workers : moved[w] = 0 /\ pc[w] \notin {"input", "push"}
  BY DEF DoneMeansDrained
<1> USE DEF SInd
<1>1. stats.input = stats.output  BY DEF AllTaskDone, Done
<1>2. stats.output \in Nat /\ queued \in Nat  BY DEF TypeOK
<1>3. inputsLeft = 0 /\ \A w \in Workers : count[w] = 0  BY AllProcessedMeansNoInput
<1>4. \A w \in Workers : pc[w] \notin {"input", "push"}
  <2> SUFFICES ASSUME NEW w \in Workers, pc[w] \in {"input", "push"} PROVE FALSE  OBVIOUS
  <2>1. count[w] \in 1..ChunkSize  BY DEF Locals, InHand
  <2> QED  BY <2>1, <1>3
<1>5. \A w \in Producing : moved[w] = 0  BY <1>3 DEF Producing, Locals, InHand
<1>6. Unreported(Producing) = 0  BY <1>5, HeldNothing DEF Unreported
<1>7. queued = 0 /\ Unreported(Consuming) = 0
  <2>1. stats.output + 0 = queued + stats.output + Unreported(Consuming)
    BY <1>1, <1>6 DEF ValuesConserved
  <2>2. Unreported(Consuming) \in Nat  BY UnreportedType
  <2>3. \A o, q, u \in Nat : o + 0 = q + o + u => q = 0 /\ u = 0  OBVIOUS
  <2> HIDE DEF SInd
  <2> QED  BY <1>2, <2>1, <2>2, <2>3
<1>8. \A w \in Consuming : moved[w] = 0
  <2>1. \A w \in Consuming : moved[w] \in Nat  BY SidesFinite DEF TypeOK
  <2> QED  BY <2>1, <1>7, SidesFinite, NothingHeld DEF Unreported
<1>9. \A w \in Workers : w \in Producing \/ w \in Consuming  BY DEF TypeOK, Producing, Consuming
<1> QED  BY <1>3, <1>4, <1>5, <1>7, <1>8, <1>9

\* So nobody has anything to report any more.
LEMMA NothingToReport ==
  ASSUME SInd, AllTaskDone, ~closed, NEW w \in Workers
  PROVE  /\ pc[w] \notin {"input", "push"} /\ inputsLeft = 0
         /\ ~(pc[w] = "pop" /\ todo[w] = 0)
<1>1. moved[w] = 0 /\ pc[w] \notin {"input", "push"} /\ inputsLeft = 0
  BY Drained DEF DoneMeansDrained
<1>2. pc[w] = "pop" => todo[w] > 0 \/ moved[w] >= 1  BY DEF SInd, Locals, AtGate
<1>3. todo[w] \in Nat  BY DEF SInd, TypeOK
<1> QED  BY <1>1, <1>2, <1>3

-----------------------------------------------------------------------------
LEMMA SInitial ==
  ASSUME Init
  PROVE  SInd
<1> USE DEF Init, NewStats
<1>1. TypeOK
  <2>1. master \in MasterPlaces  BY DEF MasterPlaces
  <2>2. joined \in Nat /\ runs \in 0..Runs /\ launched \in {0} \union Workers
    BY ConstantTypes DEF ConstantTypes
  <2>3. stop \in BOOLEAN /\ closed \in BOOLEAN  BY Zenon
  <2>4. inputsLeft \in 0..Inputs /\ queued \in 0..Capacity  BY ConstantTypes DEF ConstantTypes
  <2>5. stats \in [consumed : Nat, processed : Nat, output : Nat, input : Nat,
                   consumedAll : BOOLEAN, processedAll : BOOLEAN]
    OBVIOUS
  <2>6. /\ pc \in [Workers -> {"none", "loop", "input", "push", "pop", "exited"}]
        /\ mode \in [Workers -> {"producer", "consumer"}]
    OBVIOUS
  <2>7. /\ count \in [Workers -> Nat] /\ chunk \in [Workers -> Nat]
        /\ todo \in [Workers -> Nat] /\ gate \in [Workers -> Nat] /\ moved \in [Workers -> Nat]
    OBVIOUS
  <2>8. discarded \in [Workers -> BOOLEAN]  OBVIOUS
  <2>9. fault \in [Workers -> {"none", "user", "gate", "stats"}]  OBVIOUS
  <2> QED  BY <2>1, <2>2, <2>3, <2>4, <2>5, <2>6, <2>7, <2>8, <2>9 DEF TypeOK
<1>2. Launches  BY DEF Launches, Target
<1>3. Locals  BY DEF Locals, InHand, AtGate
<1>4. ValuesConserved
  <2>1. \A w \in Workers : moved[w] = 0  OBVIOUS
  <2>2. Unreported(Producing) = 0 /\ Unreported(Consuming) = 0
    BY <2>1, HeldNothing DEF Unreported, Producing, Consuming
  <2> QED  BY <2>2 DEF ValuesConserved
<1>5. InputsAccounted
  <2>1. Held(count, Workers) = 0  BY HeldNothing
  <2>2. Inputs \in Nat  BY ConstantTypes DEF ConstantTypes
  <2> QED  BY <2>1, <2>2 DEF InputsAccounted
<1>6. Flags  BY DEF Flags
<1>7. Endings  BY DEF Endings, MasterAwake
<1> QED  BY <1>1, <1>2, <1>3, <1>4, <1>5, <1>6, <1>7 DEF SInd

-----------------------------------------------------------------------------
(* The workers.                                                            *)

\* A worker sees the stop between two calls.
LEMMA LeaveKeeps ==
  ASSUME SInd, NEW w \in Workers, Leave(w)
  PROVE  SInd'
<1> USE DEF SInd, Leave, Goto, masterVars, sharedVars
<1>1. TypeOK'  BY DEF TypeOK
<1>2. Launches'  BY DEF Launches, Target, TypeOK
<1>3. Locals'
  <2>1. ASSUME NEW v \in Workers, v # w PROVE InHand(v)' /\ AtGate(v)'
    BY <2>1, LocalFrame DEF Locals, TypeOK
  <2>2. InHand(w)'  BY DEF InHand, Locals, TypeOK
  <2>3. AtGate(w)'  BY DEF AtGate, InHand, Locals, TypeOK
  <2> QED  BY <2>1, <2>2, <2>3 DEF Locals
<1>4. ValuesConserved'  BY ValuesFrame DEF TypeOK
<1>5. InputsAccounted' /\ Flags'  BY InputsFrame DEF InputsAccounted, TypeOK
<1>6. Endings'  BY DEF Endings, MasterAwake, AllTaskDone
<1> QED  BY <1>1, <1>2, <1>3, <1>4, <1>5, <1>6

\* A producer without inputs has nothing in hand, and changes sides.
LEMMA TakeNothingKeeps ==
  ASSUME SInd, NEW w \in Workers, TakeNothing(w)
  PROVE  SInd'
<1> USE DEF SInd, TakeNothing, masterVars, sharedVars
<1>1. TypeOK'  BY DEF TypeOK
<1>2. Launches'  BY DEF Launches, Target, TypeOK
<1>3. Locals'
  <2>1. ASSUME NEW v \in Workers, v # w PROVE InHand(v)' /\ AtGate(v)'
    BY <2>1, LocalFrame DEF Locals, TypeOK
  <2>2. InHand(w)'  BY DEF InHand, Locals, TypeOK
  <2>3. AtGate(w)'  BY DEF AtGate, InHand, Locals, TypeOK
  <2> QED  BY <2>1, <2>2, <2>3 DEF Locals
<1>4. ValuesConserved'
  <2>1. moved[w] = 0 /\ moved' = moved /\ mode[w] = "producer" /\ mode'[w] = "consumer"
    BY DEF Locals, InHand, TypeOK
  <2>2. \A v \in Workers \ {w} : moved'[v] = moved[v] /\ mode'[v] = mode[v]  BY DEF TypeOK
  <2>3. /\ Unreported(Producing)' = Unreported(Producing)
        /\ Unreported(Consuming)' = Unreported(Consuming)
    <3>1. Unreported(Producing)' \in Nat /\ Unreported(Consuming)' \in Nat
      BY <1>1, UnreportedTypeAfter
    <3> QED  BY <1>1, <2>1, <2>2, <3>1, UnreportedChange, UnreportedType
  <2> QED  BY <2>3 DEF ValuesConserved
<1>5. InputsAccounted' /\ Flags'  BY InputsFrame DEF InputsAccounted, TypeOK
<1>6. Endings'  BY DEF Endings, MasterAwake, AllTaskDone
<1> QED  BY <1>1, <1>2, <1>3, <1>4, <1>5, <1>6

\* The inputs of the chunk go from the range into the worker's hands.
LEMMA TakeChunkKeeps ==
  ASSUME SInd, NEW w \in Workers, TakeChunk(w)
  PROVE  SInd'
<1> USE DEF SInd
<1> DEFINE n == IF inputsLeft < ChunkSize THEN inputsLeft ELSE ChunkSize
           all == stats.consumedAll \/ n = inputsLeft
<1>1. /\ inputsLeft \in 1..Inputs /\ Inputs \in Nat /\ ChunkSize \in Nat \ {0}
      /\ pc[w] = "loop" /\ mode[w] = "producer" /\ ~stop /\ moved[w] = 0 /\ count[w] = 0
  BY ConstantTypes DEF TypeOK, ConstantTypes, TakeChunk, Locals, InHand
<1>2. n \in 1..inputsLeft /\ n <= ChunkSize  BY <1>1
<1>3. all \in BOOLEAN  OBVIOUS
<1>4. /\ inputsLeft' = inputsLeft - n
      /\ stats' = [stats EXCEPT !.consumed = @ + n, !.consumedAll = all]
      /\ count' = [count EXCEPT ![w] = n] /\ chunk' = [chunk EXCEPT ![w] = n]
      /\ gate' = [gate EXCEPT ![w] = 0] /\ discarded' = [discarded EXCEPT ![w] = FALSE]
      /\ moved' = [moved EXCEPT ![w] = 0] /\ pc' = [pc EXCEPT ![w] = "input"]
      /\ UNCHANGED <<masterVars, stop, queued, closed, mode, todo, fault>>
  BY DEF TakeChunk, NewGate, Goto
<1> HIDE DEF n, all
<1>5. /\ stats'.consumed = stats.consumed + n /\ stats'.processed = stats.processed
      /\ stats'.output = stats.output /\ stats'.input = stats.input
      /\ stats'.consumedAll = all /\ stats'.processedAll = stats.processedAll
  BY <1>4 DEF TypeOK
<1>6. TypeOK'
  <2>1. stats' \in [consumed : Nat, processed : Nat, output : Nat, input : Nat,
                    consumedAll : BOOLEAN, processedAll : BOOLEAN]
    <3>1. n \in Nat  BY <1>1, <1>2
    <3>2. stats.consumed + n \in Nat  BY <3>1 DEF TypeOK
    <3> QED  BY <1>3, <1>4, <3>2 DEF TypeOK
  <2>2. count' \in [Workers -> Nat] /\ chunk' \in [Workers -> Nat] /\ gate' \in [Workers -> Nat]
    BY <1>2, <1>4 DEF TypeOK
  <2>3. moved' \in [Workers -> Nat] /\ discarded' \in [Workers -> BOOLEAN]
    BY <1>4 DEF TypeOK
  <2>4. pc' \in [Workers -> {"none", "loop", "input", "push", "pop", "exited"}]
    BY <1>4 DEF TypeOK
  <2>5. inputsLeft' \in 0..Inputs  BY <1>1, <1>2, <1>4
  <2> QED  BY <1>4, <2>1, <2>2, <2>3, <2>4, <2>5 DEF TypeOK, masterVars
<1>7. Launches'  BY <1>1, <1>4 DEF Launches, Target, TypeOK, masterVars
<1>8. Locals'
  <2>1. ASSUME NEW v \in Workers, v # w PROVE InHand(v)' /\ AtGate(v)'
    BY <1>4, <2>1, LocalFrame DEF Locals, TypeOK
  <2>2. /\ pc'[w] = "input" /\ mode'[w] = "producer" /\ count'[w] = n /\ chunk'[w] = n
        /\ gate'[w] = 0 /\ moved'[w] = 0 /\ discarded'[w] = FALSE
    BY <1>1, <1>4 DEF TypeOK
  <2>3. InHand(w)'  BY <1>1, <1>2, <2>2 DEF InHand
  <2>4. AtGate(w)'  BY <1>1, <1>2, <2>2 DEF AtGate
  <2> QED  BY <2>1, <2>3, <2>4 DEF Locals
<1>9. ValuesConserved'  BY <1>1, <1>4, <1>5, ValuesFrame DEF TypeOK
<1>10. InputsAccounted' /\ Flags'
  <2>1. Held(count, Workers)' = Held(count, Workers) + n
    <3>1. \A v \in Workers \ {w} : count'[v] = count[v]  BY <1>4 DEF TypeOK
    <3>2. count'[w] = n /\ n \in Nat  BY <1>2, <1>4 DEF TypeOK
    <3>3. Held(count, Workers)' \in Nat  BY <1>6, CountTypeAfter
    <3>4. Held(count, Workers) \in Nat  BY CountType
    <3>5. Held(count, Workers)' - count'[w] = Held(count, Workers) - count[w]
      BY <1>6, <3>1, CountChange
    <3> QED  BY <1>1, <3>2, <3>3, <3>4, <3>5
  <2>2. Held(count, Workers) \in Nat /\ stats.processed \in Nat /\ stats.consumed \in Nat
    BY CountType DEF TypeOK
  <2>3. all <=> stats'.consumed = Inputs
    BY <1>1, <1>2, <1>5, <2>2 DEF all, InputsAccounted
  <2>4. InputsAccounted'
    BY <1>1, <1>2, <1>4, <1>5, <2>1, <2>2, <2>3 DEF InputsAccounted
  <2>5. ~stats.processedAll  BY <1>1, <2>2 DEF InputsAccounted, Flags
  <2>6. ~stats'.processedAll  BY <1>5, <2>5
  <2> QED  BY <2>4, <2>6 DEF Flags
<1>11. Endings'
  <2>1. ~stats.processedAll
    BY <1>1 DEF TypeOK, InputsAccounted, Flags
  <2>2. ~AllTaskDone /\ ~AllTaskDone'  BY <1>5, <2>1 DEF AllTaskDone, Done
  <2> QED  BY <1>4, <2>2 DEF Endings, MasterAwake, masterVars
<1> QED  BY <1>6, <1>7, <1>8, <1>9, <1>10, <1>11

\* The gate is discarded only where a chunk is one input.
LEMMA CallProducerKeeps ==
  ASSUME SInd, GatesCount, NEW w \in Workers, CallProducer(w)
  PROVE  SInd'
<1> USE DEF SInd
<1>1. /\ pc[w] = "input" /\ chunk[w] \in Nat \ {0} /\ mode[w] = "producer"
      /\ count[w] \in 1..ChunkSize /\ chunk[w] <= count[w] /\ ChunkSize \in Nat \ {0}
      /\ moved[w] \in Nat
  BY ConstantTypes DEF TypeOK, ConstantTypes, CallProducer, Locals, InHand
<1>2. UNCHANGED <<masterVars, sharedVars, mode, count, gate, moved, fault>>
  BY DEF CallProducer
<1>3. PICK n \in Pushes :
        \/ /\ n > 0
           /\ todo' = [todo EXCEPT ![w] = n] /\ pc' = [pc EXCEPT ![w] = "push"]
           /\ UNCHANGED <<chunk, discarded>>
        \/ /\ n = 0
           /\ chunk' = [chunk EXCEPT ![w] = @ - 1]
           /\ discarded' = [discarded EXCEPT ![w] = ~MultiPush]
           /\ UNCHANGED <<todo, pc>>
  BY DEF CallProducer, Goto
<1>4. n \in Nat /\ (n = 0 /\ ~MultiPush => ChunkSize = 1)
  BY <1>1, ConstantTypes, GateAlive DEF ConstantTypes, GateAlive
<1>5. TypeOK'
  <2>1. todo' \in [Workers -> Nat] /\ chunk' \in [Workers -> Nat]
    BY <1>1, <1>3, <1>4 DEF TypeOK
  <2>2. discarded' \in [Workers -> BOOLEAN]
    <3>1. (~MultiPush) \in BOOLEAN  OBVIOUS
    <3> QED  BY <1>3, <3>1 DEF TypeOK
  <2>3. pc' \in [Workers -> {"none", "loop", "input", "push", "pop", "exited"}]
    BY <1>3 DEF TypeOK
  <2> QED  BY <1>2, <2>1, <2>2, <2>3 DEF TypeOK, masterVars, sharedVars
<1>6. Launches'  BY <1>1, <1>2, <1>3 DEF Launches, Target, TypeOK, masterVars
<1>7. Locals'
  <2>1. ASSUME NEW v \in Workers, v # w PROVE InHand(v)' /\ AtGate(v)'
    BY <1>2, <1>3, <2>1, LocalFrame DEF Locals, TypeOK, sharedVars
  <2>2. ASSUME n > 0 PROVE InHand(w)' /\ AtGate(w)'
    <3>1. /\ pc'[w] = "push" /\ todo'[w] = n /\ chunk'[w] = chunk[w]
          /\ discarded'[w] = discarded[w]
      BY <1>3, <2>2 DEF TypeOK
    <3>2. InHand(w)'  BY <1>1, <1>2, <1>4, <2>2, <3>1 DEF InHand, Locals
    <3>3. AtGate(w)'
      BY <1>1, <1>2, <1>4, <2>2, <3>1, ConstantTypes
      DEF AtGate, Locals, sharedVars, GatesCount, ConstantTypes
    <3> QED  BY <3>2, <3>3
  <2>3. ASSUME n = 0 PROVE InHand(w)' /\ AtGate(w)'
    <3>0. discarded' = [discarded EXCEPT ![w] = ~MultiPush]  BY <1>3, <2>3
    <3>1. /\ pc'[w] = "input" /\ todo'[w] = todo[w] /\ chunk'[w] = chunk[w] - 1
          /\ discarded'[w] <=> ~MultiPush
      <4>1. pc'[w] = "input" /\ todo'[w] = todo[w] /\ chunk'[w] = chunk[w] - 1
        BY <1>1, <1>3, <2>3 DEF TypeOK
      <4>2. w \in DOMAIN discarded  BY DEF TypeOK
      <4>3. discarded'[w] <=> ~MultiPush  BY <3>0, <4>2, Zenon
      <4> QED  BY <4>1, <4>3
    <3>2. InHand(w)'  BY <1>1, <1>2, <1>4, <2>3, <3>1 DEF InHand, Locals
    <3>3. ~MultiPush => chunk[w] = count[w] /\ chunk'[w] = 0  BY <1>1, <1>4, <2>3, <3>1
    <3>4. ~closed /\ ~MultiPush => moved[w] = 0  BY <1>1, <3>3 DEF Locals, AtGate
    <3>5. AtGate(w)'
      BY <1>1, <1>2, <2>3, <3>1, <3>3, <3>4 DEF AtGate, Locals, sharedVars
    <3> QED  BY <3>2, <3>5
  <2>4. InHand(w)' /\ AtGate(w)'  BY <1>4, <2>2, <2>3
  <2> QED  BY <2>1, <2>4 DEF Locals
<1>8. ValuesConserved'  BY <1>2, ValuesFrame DEF sharedVars
<1>9. InputsAccounted' /\ Flags'  BY <1>2, InputsFrame DEF sharedVars, InputsAccounted
<1>10. Endings'  BY <1>2 DEF Endings, MasterAwake, AllTaskDone, masterVars, sharedVars
<1> QED  BY <1>5, <1>6, <1>7, <1>8, <1>9, <1>10

\* A worker that ends with an exception keeps what it has in its hands.
LEMMA ThrowKeeps ==
  ASSUME SInd, NEW w \in Workers, pc[w] \in {"input", "push", "pop"},
         NEW what \in {"user", "gate"}, Throw(w, what)
  PROVE  SInd'
<1> USE DEF SInd, Throw, Goto
<1>1. TypeOK'
  <2>1. master' \in MasterPlaces  BY DEF TypeOK, MasterPlaces, WakeMaster
  <2>2. pc' \in [Workers -> {"none", "loop", "input", "push", "pop", "exited"}]  BY DEF TypeOK
  <2>3. fault' \in [Workers -> {"none", "user", "gate", "stats"}]  BY DEF TypeOK
  <2>4. stop' \in BOOLEAN  OBVIOUS
  <2> QED  BY <2>1, <2>2, <2>3, <2>4 DEF TypeOK
<1>2. Launches'  BY DEF Launches, Target, TypeOK, WakeMaster
<1>3. Locals'
  <2>1. ASSUME NEW v \in Workers, v # w PROVE InHand(v)' /\ AtGate(v)'
    BY <2>1, LocalFrame DEF Locals, TypeOK
  <2>2. pc'[w] = "exited"  BY DEF TypeOK
  <2>3. InHand(w)' /\ AtGate(w)'  BY <2>2 DEF InHand, AtGate, Locals
  <2> QED  BY <2>1, <2>3 DEF Locals
<1>4. ValuesConserved'  BY ValuesFrame
<1>5. InputsAccounted' /\ Flags'
  <2>1. \A v \in Workers : fault'[v] # "stats"  BY DEF InputsAccounted, TypeOK
  <2> QED  BY <2>1, InputsFrame
<1>6. Endings'  BY DEF Endings, MasterAwake, AllTaskDone, WakeMaster
<1> QED  BY <1>1, <1>2, <1>3, <1>4, <1>5, <1>6

\* A value passes from the producer's hands into the queue.
LEMMA PushKeeps ==
  ASSUME SInd, GatesCount, NEW w \in Workers, Push(w)
  PROVE  SInd'
<1> USE DEF SInd
<1>1. /\ pc[w] = "push" /\ mode[w] = "producer" /\ ~closed
      /\ queued \in 0..Capacity /\ queued < Capacity /\ Capacity \in Nat
      /\ chunk[w] \in Nat /\ chunk[w] >= 1 /\ todo[w] \in Nat /\ todo[w] >= 1
      /\ count[w] \in 1..ChunkSize /\ chunk[w] <= count[w]
      /\ gate[w] = moved[w] /\ moved[w] \in Nat
  BY ConstantTypes DEF Push, TypeOK, ConstantTypes, Locals, InHand, AtGate
<1>2. /\ queued' = queued + 1
      /\ gate' = [gate EXCEPT ![w] = @ + 1] /\ moved' = [moved EXCEPT ![w] = @ + 1]
      /\ UNCHANGED <<masterVars, stop, inputsLeft, stats, closed, mode, count, discarded, fault>>
  BY DEF Push
<1>3. \/ /\ todo[w] > 1 /\ todo' = [todo EXCEPT ![w] = @ - 1] /\ UNCHANGED <<chunk, pc>>
      \/ /\ todo[w] <= 1 /\ todo' = [todo EXCEPT ![w] = 0]
         /\ chunk' = [chunk EXCEPT ![w] = @ - 1] /\ pc' = [pc EXCEPT ![w] = "input"]
  BY <1>1 DEF Push, EndOfInput, Goto
<1>4. TypeOK'
  <2>1. gate' \in [Workers -> Nat] /\ moved' \in [Workers -> Nat]  BY <1>2 DEF TypeOK
  <2>2. todo' \in [Workers -> Nat] /\ chunk' \in [Workers -> Nat]
    BY <1>1, <1>3 DEF TypeOK
  <2>3. pc' \in [Workers -> {"none", "loop", "input", "push", "pop", "exited"}]
    BY <1>3 DEF TypeOK
  <2>4. queued' \in 0..Capacity  BY <1>1, <1>2
  <2> QED  BY <1>2, <2>1, <2>2, <2>3, <2>4 DEF TypeOK, masterVars
<1>5. Launches'  BY <1>1, <1>2, <1>3 DEF Launches, Target, TypeOK, masterVars
<1>6. gate'[w] = gate[w] + 1 /\ moved'[w] = moved[w] + 1  BY <1>2 DEF TypeOK
<1>7. Locals'
  <2>1. ASSUME NEW v \in Workers, v # w PROVE InHand(v)' /\ AtGate(v)'
    BY <1>2, <1>3, <2>1, LocalFrame DEF Locals, TypeOK
  <2>2. ~MultiPush => ~discarded[w] /\ moved[w] >= count[w] - chunk[w]
    BY <1>1 DEF Locals, AtGate
  <2>3. ~MultiPush /\ Debug => moved[w] = 0  BY <1>1 DEF Push, Rejected
  <2>4. ~MultiPush /\ ~Debug => moved[w] <= count[w] - chunk[w] /\ todo[w] = 1 /\ ChunkSize = 1
    BY <1>1 DEF Locals, AtGate, GatesCount
  <2>5. ASSUME todo[w] > 1 PROVE InHand(w)' /\ AtGate(w)'
    <3>1. pc'[w] = "push" /\ chunk'[w] = chunk[w] /\ todo'[w] = todo[w] - 1
      BY <1>1, <1>3, <2>5 DEF TypeOK
    <3>2. InHand(w)'  BY <1>1, <1>2, <2>5, <3>1 DEF InHand
    <3>3. AtGate(w)'
      BY <1>1, <1>2, <1>6, <2>2, <2>3, <2>4, <2>5, <3>1 DEF AtGate
    <3> QED  BY <3>2, <3>3
  <2>6. ASSUME todo[w] <= 1 PROVE InHand(w)' /\ AtGate(w)'
    <3>1. pc'[w] = "input" /\ chunk'[w] = chunk[w] - 1 /\ todo'[w] = 0
      BY <1>1, <1>3, <2>6 DEF TypeOK
    <3>2. InHand(w)'  BY <1>1, <1>2, <2>6, <3>1 DEF InHand
    <3>3. AtGate(w)'
      BY <1>1, <1>2, <1>6, <2>2, <2>3, <2>4, <3>1 DEF AtGate
    <3> QED  BY <3>2, <3>3
  <2> QED  BY <1>1, <2>1, <2>5, <2>6 DEF Locals
<1>8. ValuesConserved'
  <2>1. \A v \in Workers \ {w} : moved'[v] = moved[v] /\ mode'[v] = mode[v]
    BY <1>2 DEF TypeOK
  <2>2. Unreported(Producing)' - moved'[w] = Unreported(Producing) - moved[w]
    BY <1>1, <1>2, <1>4, <2>1, UnreportedChange
  <2>3. Unreported(Consuming)' - 0 = Unreported(Consuming) - 0
    BY <1>1, <1>2, <1>4, <2>1, UnreportedChange
  <2>4. Unreported(Producing)' \in Nat /\ Unreported(Consuming)' \in Nat
    BY <1>4, UnreportedTypeAfter
  <2>5. stats.output \in Nat /\ stats.input \in Nat  BY DEF TypeOK
  <2> QED  BY <1>1, <1>2, <1>6, <2>2, <2>3, <2>4, <2>5, UnreportedType DEF ValuesConserved
<1>9. InputsAccounted' /\ Flags'  BY <1>2, InputsFrame DEF InputsAccounted
<1>10. Endings'  BY <1>2 DEF Endings, MasterAwake, AllTaskDone, masterVars
<1> QED  BY <1>4, <1>5, <1>7, <1>8, <1>9, <1>10

\* A closed queue takes no value: the accounts are not claimed any more.
LEMMA PushRefusedKeeps ==
  ASSUME SInd, NEW w \in Workers, PushRefused(w)
  PROVE  SInd'
<1> USE DEF SInd, PushRefused, EndOfInput, Goto, masterVars, sharedVars
<1>1. chunk[w] \in Nat /\ chunk[w] >= 1  BY DEF TypeOK, Locals, InHand
<1>2. TypeOK'  BY <1>1 DEF TypeOK
<1>3. Launches'  BY DEF Launches, Target, TypeOK
<1>4. Locals'
  <2>1. ASSUME NEW v \in Workers, v # w PROVE InHand(v)' /\ AtGate(v)'
    BY <2>1, LocalFrame DEF Locals, TypeOK
  <2>2. InHand(w)'
    <3>1. pc'[w] = "input" /\ chunk'[w] = chunk[w] - 1  BY DEF TypeOK
    <3>2. mode[w] = "producer" /\ count[w] \in 1..ChunkSize /\ chunk[w] <= count[w]
      BY DEF Locals, InHand
    <3> QED  BY <1>1, <3>1, <3>2, ConstantTypes DEF InHand, ConstantTypes
  <2>3. AtGate(w)'  BY DEF AtGate
  <2> QED  BY <2>1, <2>2, <2>3 DEF Locals
<1>5. ValuesConserved'  BY DEF ValuesConserved
<1>6. InputsAccounted' /\ Flags'  BY InputsFrame DEF InputsAccounted
<1>7. Endings'  BY DEF Endings, MasterAwake, AllTaskDone
<1> QED  BY <1>2, <1>3, <1>4, <1>5, <1>6, <1>7

LEMMA CountShare ==
  ASSUME TypeOK, NEW w \in Workers
  PROVE  count[w] <= Held(count, Workers)
<1>1. \A v \in Workers : count[v] \in Nat  BY DEF TypeOK
<1>2. Held(count, Workers) = Held(count, Workers \ {w}) + count[w]
  BY <1>1, WorkersFinite, HeldSplit
<1>3. IsFiniteSet(Workers \ {w})  BY WorkersFinite, FS_RemoveElement
<1>4. Held(count, Workers \ {w}) \in Nat  BY <1>1, <1>3, HeldType
<1> QED  BY <1>1, <1>2, <1>4

\* A producer reports what passed its gate, and the setter never throws.
LEMMA ReportProducerKeeps ==
  ASSUME SInd, NEW w \in Workers, ReportProducer(w)
  PROVE  SInd'
<1> USE DEF SInd
<1> DEFINE n == count[w]
           o == Outputs(w)
           s == [stats EXCEPT !.processed = @ + n, !.output = @ + o]
           full == AllProcessed(s)
           t == [s EXCEPT !.processedAll = @ \/ full]
<1>1. /\ pc[w] = "input" /\ chunk[w] = 0 /\ mode[w] = "producer"
      /\ n \in Nat /\ n >= 1 /\ moved[w] \in Nat /\ gate[w] \in Nat
      /\ stats.processed \in Nat /\ stats.consumed \in Nat /\ stats.output \in Nat
      /\ stats.input \in Nat /\ Inputs \in Nat
  <2>1. n \in 1..ChunkSize /\ ChunkSize \in Nat
    BY ConstantTypes DEF ReportProducer, ConstantTypes, Locals, InHand
  <2> QED  BY <2>1, ConstantTypes DEF ReportProducer, TypeOK, ConstantTypes, Locals, InHand
<1>2. o \in Nat  BY <1>1 DEF Outputs
<1>3. ~closed => o = moved[w]
  <2> SUFFICES ASSUME ~closed PROVE o = moved[w]  OBVIOUS
  <2>1. CASE MultiPush  BY <1>1, <2>1 DEF Outputs, Locals, AtGate
  <2>2. CASE ~MultiPush  BY <1>1, <2>2 DEF Outputs, Locals, AtGate
  <2> QED  BY <2>1, <2>2
<1>4. /\ s.processed = stats.processed + n /\ s.output = stats.output + o
      /\ s.consumed = stats.consumed /\ s.input = stats.input
      /\ s.consumedAll = stats.consumedAll /\ s.processedAll = stats.processedAll
  BY DEF TypeOK
<1>5. full <=> stats.consumedAll /\ stats.processed + n >= stats.consumed
  BY <1>4 DEF AllProcessed
<1>6. stats.processed + n <= stats.consumed /\ ~stats.processedAll
  <2>1. n <= Held(count, Workers) /\ Held(count, Workers) \in Nat  BY CountShare, CountType
  <2>2. stats.consumed = stats.processed + Held(count, Workers)  BY DEF InputsAccounted
  <2>3. stats.processedAll => stats.processed = stats.consumed  BY DEF Flags
  <2> QED  BY <1>1, <2>1, <2>2, <2>3
<1>7. full => s.processed = Inputs  BY <1>1, <1>4, <1>5, <1>6 DEF InputsAccounted
<1>8. ~(full /\ (s.processedAll \/ s.processed # Inputs))  BY <1>4, <1>6, <1>7
<1>9. /\ stats' = t
      /\ pc' = [pc EXCEPT ![w] = "loop"]
      /\ mode' = mode \/ mode' = [mode EXCEPT ![w] = "consumer"]
      /\ count' = [count EXCEPT ![w] = 0]
      /\ gate' = [gate EXCEPT ![w] = 0] /\ discarded' = [discarded EXCEPT ![w] = FALSE]
      /\ moved' = [moved EXCEPT ![w] = 0]
      /\ UNCHANGED <<joined, runs, launched, stop, inputsLeft, queued, closed, chunk, todo, fault>>
  BY <1>8 DEF ReportProducer, NewGate, Goto
<1>10. Announce(Done(stats'))  BY <1>8 DEF ReportProducer
<1>11. /\ stats'.processed = stats.processed + n /\ stats'.output = stats.output + o
       /\ stats'.consumed = stats.consumed /\ stats'.input = stats.input
       /\ stats'.consumedAll = stats.consumedAll
       /\ stats'.processedAll <=> full
  BY <1>6, <1>9 DEF TypeOK
<1>12. stats' \in [consumed : Nat, processed : Nat, output : Nat, input : Nat,
                   consumedAll : BOOLEAN, processedAll : BOOLEAN]
  <2>1. stats.processed + n \in Nat /\ stats.output + o \in Nat  BY <1>1, <1>2
  <2> HIDE DEF n, o
  <2>2. s \in [consumed : Nat, processed : Nat, output : Nat, input : Nat,
               consumedAll : BOOLEAN, processedAll : BOOLEAN]
    BY <2>1 DEF TypeOK
  <2>3. (s.processedAll \/ full) \in BOOLEAN  OBVIOUS
  <2> HIDE DEF s, full
  <2> QED  BY <1>9, <2>2, <2>3
<1> HIDE DEF n, o, s, full, t
<1>13. TypeOK'
  <2>1. master' \in MasterPlaces  BY <1>10 DEF Announce, WakeMaster, TypeOK, MasterPlaces
  <2>2. count' \in [Workers -> Nat] /\ gate' \in [Workers -> Nat] /\ moved' \in [Workers -> Nat]
    BY <1>9 DEF TypeOK
  <2>3. discarded' \in [Workers -> BOOLEAN]  BY <1>9 DEF TypeOK
  <2>4. /\ pc' \in [Workers -> {"none", "loop", "input", "push", "pop", "exited"}]
        /\ mode' \in [Workers -> {"producer", "consumer"}]
    BY <1>9 DEF TypeOK
  <2> QED  BY <1>9, <1>12, <2>1, <2>2, <2>3, <2>4 DEF TypeOK
<1>14. Launches'
  BY <1>1, <1>9, <1>10 DEF Launches, Target, TypeOK, Announce, WakeMaster
<1>15. /\ pc'[w] = "loop" /\ count'[w] = 0 /\ gate'[w] = 0 /\ moved'[w] = 0
  BY <1>9 DEF TypeOK
<1>16. Locals'
  <2>1. ASSUME NEW v \in Workers, v # w PROVE InHand(v)' /\ AtGate(v)'
    <3>1. /\ pc'[v] = pc[v] /\ mode'[v] = mode[v] /\ count'[v] = count[v] /\ chunk'[v] = chunk[v]
          /\ todo'[v] = todo[v] /\ gate'[v] = gate[v] /\ discarded'[v] = discarded[v]
          /\ moved'[v] = moved[v] /\ closed' = closed
      BY <1>9, <2>1 DEF TypeOK
    <3>2. InHand(v) /\ AtGate(v)  BY DEF Locals
    <3> QED  BY <3>1, <3>2, LocalFrame
  <2>2. InHand(w)' /\ AtGate(w)'  BY <1>15 DEF InHand, AtGate
  <2> QED  BY <2>1, <2>2 DEF Locals
<1>17. ValuesConserved'
  <2>1. \A v \in Workers \ {w} : moved'[v] = moved[v] /\ mode'[v] = mode[v]
    BY <1>9 DEF TypeOK
  <2>2. Unreported(Producing)' - 0 = Unreported(Producing) - moved[w]
    BY <1>1, <1>13, <1>15, <2>1, UnreportedChange
  <2>3. Unreported(Consuming)' - 0 = Unreported(Consuming) - 0
    BY <1>1, <1>13, <1>15, <2>1, UnreportedChange
  <2>4. Unreported(Producing)' \in Nat /\ Unreported(Consuming)' \in Nat
    BY <1>13, UnreportedTypeAfter
  <2>5. queued \in Nat  BY DEF TypeOK
  <2> QED
    BY <1>1, <1>3, <1>9, <1>11, <2>2, <2>3, <2>4, <2>5, UnreportedType DEF ValuesConserved
<1>18. InputsAccounted' /\ Flags'
  <2>1. Held(count, Workers)' - 0 = Held(count, Workers) - n
    <3>1. \A v \in Workers \ {w} : count'[v] = count[v]  BY <1>9 DEF TypeOK
    <3> QED  BY <1>13, <1>15, <3>1, CountChange DEF n
  <2>2. Held(count, Workers)' \in Nat /\ Held(count, Workers) \in Nat
    BY <1>13, CountType, CountTypeAfter
  <2>3. InputsAccounted'
    BY <1>1, <1>9, <1>11, <2>1, <2>2 DEF InputsAccounted
  <2>4. Flags'  BY <1>1, <1>5, <1>6, <1>11 DEF Flags
  <2> QED  BY <2>3, <2>4
<1>19. Endings'
  <2>1. master \in {"woken", "returned"} => stop \/ closed
    BY <1>1, NothingToReport DEF Endings
  <2>2. master' = master \/ (master = "asleep" /\ master' = "wait")
    BY <1>10 DEF Announce, WakeMaster
  <2>3. master' = "asleep" => ~AllTaskDone'
    BY <1>10 DEF Announce, WakeMaster, AllTaskDone
  <2>4. closed => master \notin {"woken", "returned", "asleep"}  BY DEF Endings
  <2>5. master # "returned"  BY <1>1, <2>4, NothingToReport DEF Endings
  <2> QED  BY <1>9, <2>1, <2>2, <2>3, <2>4, <2>5 DEF Endings, MasterAwake
<1> QED  BY <1>13, <1>14, <1>16, <1>17, <1>18, <1>19

\* A consumer begins with empty hands.
LEMMA CallConsumerKeeps ==
  ASSUME SInd, GatesCount, NEW w \in Workers, CallConsumer(w)
  PROVE  SInd'
<1> USE DEF SInd
<1>1. /\ pc[w] = "loop" /\ mode[w] = "consumer" /\ moved[w] = 0 /\ count[w] = 0
  BY DEF CallConsumer, Locals, InHand
<1>2. PICK n \in Pops : todo' = [todo EXCEPT ![w] = n]  BY DEF CallConsumer
<1>3. /\ gate' = [gate EXCEPT ![w] = 0] /\ discarded' = [discarded EXCEPT ![w] = FALSE]
      /\ moved' = [moved EXCEPT ![w] = 0] /\ pc' = [pc EXCEPT ![w] = "pop"]
      /\ UNCHANGED <<masterVars, sharedVars, mode, count, chunk, fault>>
  BY DEF CallConsumer, NewGate, Goto
<1>4. n \in Nat \ {0} /\ (~MultiPop /\ ~Debug => n = 1)
  BY ConstantTypes DEF ConstantTypes, GatesCount
<1>5. TypeOK'
  <2>1. todo' \in [Workers -> Nat] /\ gate' \in [Workers -> Nat] /\ moved' \in [Workers -> Nat]
    BY <1>2, <1>3, <1>4 DEF TypeOK
  <2>2. discarded' \in [Workers -> BOOLEAN]  BY <1>3 DEF TypeOK
  <2>3. pc' \in [Workers -> {"none", "loop", "input", "push", "pop", "exited"}]
    BY <1>3 DEF TypeOK
  <2> QED  BY <1>3, <2>1, <2>2, <2>3 DEF TypeOK, masterVars, sharedVars
<1>6. Launches'  BY <1>1, <1>3 DEF Launches, Target, TypeOK, masterVars
<1>7. Locals'
  <2>1. ASSUME NEW v \in Workers, v # w PROVE InHand(v)' /\ AtGate(v)'
    BY <1>2, <1>3, <2>1, LocalFrame DEF Locals, TypeOK, sharedVars
  <2>2. pc'[w] = "pop" /\ todo'[w] = n /\ gate'[w] = 0 /\ moved'[w] = 0
    BY <1>2, <1>3 DEF TypeOK
  <2>3. InHand(w)'  BY <1>1, <1>3, <2>2 DEF InHand
  <2>4. AtGate(w)'  BY <1>4, <2>2 DEF AtGate
  <2> QED  BY <2>1, <2>3, <2>4 DEF Locals
<1>8. ValuesConserved'
  <2>1. \A v \in Workers : moved'[v] = moved[v] /\ mode'[v] = mode[v]
    BY <1>1, <1>3 DEF TypeOK
  <2> QED  BY <1>3, <2>1, ValuesFrame DEF sharedVars
<1>9. InputsAccounted' /\ Flags'  BY <1>3, InputsFrame DEF InputsAccounted, sharedVars
<1>10. Endings'  BY <1>3 DEF Endings, MasterAwake, AllTaskDone, masterVars, sharedVars
<1> QED  BY <1>5, <1>6, <1>7, <1>8, <1>9, <1>10

\* A value passes from the queue into the consumer's hands.
LEMMA PopKeeps ==
  ASSUME SInd, GatesCount, NEW w \in Workers, Pop(w)
  PROVE  SInd'
<1> USE DEF SInd
<1>1. /\ pc[w] = "pop" /\ mode[w] = "consumer" /\ ~closed /\ count[w] = 0
      /\ queued \in 0..Capacity /\ queued > 0 /\ Capacity \in Nat
      /\ todo[w] \in Nat /\ todo[w] >= 1 /\ gate[w] = moved[w] /\ moved[w] \in Nat
  BY ConstantTypes DEF Pop, TypeOK, ConstantTypes, Locals, InHand, AtGate
<1>2. /\ queued' = queued - 1
      /\ gate' = [gate EXCEPT ![w] = @ + 1] /\ moved' = [moved EXCEPT ![w] = @ + 1]
      /\ todo' = [todo EXCEPT ![w] = @ - 1]
      /\ UNCHANGED <<masterVars, stop, inputsLeft, stats, closed, pc, mode, count, chunk,
                     discarded, fault>>
  BY DEF Pop
<1>3. TypeOK'
  <2>1. gate' \in [Workers -> Nat] /\ moved' \in [Workers -> Nat] /\ todo' \in [Workers -> Nat]
    BY <1>1, <1>2 DEF TypeOK
  <2>2. queued' \in 0..Capacity  BY <1>1, <1>2
  <2> QED  BY <1>2, <2>1, <2>2 DEF TypeOK, masterVars
<1>4. Launches'  BY <1>2 DEF Launches, Target, masterVars
<1>5. gate'[w] = gate[w] + 1 /\ moved'[w] = moved[w] + 1 /\ todo'[w] = todo[w] - 1
  BY <1>2 DEF TypeOK
<1>6. Locals'
  <2>1. ASSUME NEW v \in Workers, v # w PROVE InHand(v)' /\ AtGate(v)'
    BY <1>2, <2>1, LocalFrame DEF Locals, TypeOK
  <2>2. InHand(w)'  BY <1>1, <1>2 DEF InHand
  <2>3. ~MultiPop /\ Debug => moved[w] = 0  BY <1>1 DEF Pop, Rejected
  <2>4. ~MultiPop /\ ~Debug => todo[w] + moved[w] <= 1  BY <1>1 DEF Locals, AtGate
  <2>5. AtGate(w)'  BY <1>1, <1>2, <1>5, <2>3, <2>4 DEF AtGate
  <2> QED  BY <2>1, <2>2, <2>5 DEF Locals
<1>7. ValuesConserved'
  <2>1. \A v \in Workers \ {w} : moved'[v] = moved[v] /\ mode'[v] = mode[v]
    BY <1>2 DEF TypeOK
  <2>2. Unreported(Consuming)' - moved'[w] = Unreported(Consuming) - moved[w]
    BY <1>1, <1>2, <1>3, <2>1, UnreportedChange
  <2>3. Unreported(Producing)' - 0 = Unreported(Producing) - 0
    BY <1>1, <1>2, <1>3, <2>1, UnreportedChange
  <2>4. Unreported(Producing)' \in Nat /\ Unreported(Consuming)' \in Nat
    BY <1>3, UnreportedTypeAfter
  <2>5. stats.output \in Nat /\ stats.input \in Nat  BY DEF TypeOK
  <2> QED  BY <1>1, <1>2, <1>5, <2>2, <2>3, <2>4, <2>5, UnreportedType DEF ValuesConserved
<1>8. InputsAccounted' /\ Flags'  BY <1>2, InputsFrame DEF InputsAccounted
<1>9. Endings'  BY <1>2 DEF Endings, MasterAwake, AllTaskDone, masterVars
<1> QED  BY <1>3, <1>4, <1>6, <1>7, <1>8, <1>9

LEMMA PopRefusedKeeps ==
  ASSUME SInd, NEW w \in Workers, PopRefused(w)
  PROVE  SInd'
<1> USE DEF SInd, PopRefused, masterVars, sharedVars
<1>1. TypeOK'  BY DEF TypeOK
<1>2. Launches'  BY DEF Launches, Target
<1>3. Locals'
  <2>1. ASSUME NEW v \in Workers, v # w PROVE InHand(v)' /\ AtGate(v)'
    BY <2>1, LocalFrame DEF Locals, TypeOK
  <2>2. InHand(w)'  BY DEF InHand, Locals
  <2>3. AtGate(w)'  BY DEF AtGate
  <2> QED  BY <2>1, <2>2, <2>3 DEF Locals
<1>4. ValuesConserved'  BY DEF ValuesConserved
<1>5. InputsAccounted' /\ Flags'  BY InputsFrame DEF InputsAccounted
<1>6. Endings'  BY DEF Endings, MasterAwake, AllTaskDone
<1> QED  BY <1>1, <1>2, <1>3, <1>4, <1>5, <1>6

\* A consumer reports what passed its gate.
LEMMA ReportConsumerKeeps ==
  ASSUME SInd, NEW w \in Workers, ReportConsumer(w)
  PROVE  SInd'
<1> USE DEF SInd
<1> DEFINE n == IF MultiPop THEN gate[w] ELSE 1
<1>1. /\ pc[w] = "pop" /\ todo[w] = 0 /\ mode[w] = "consumer" /\ count[w] = 0
      /\ moved[w] \in Nat /\ gate[w] \in Nat
      /\ stats.output \in Nat /\ stats.input \in Nat
  BY DEF ReportConsumer, TypeOK, Locals, InHand
<1>2. n \in Nat  BY <1>1
<1>3. ~closed => n = moved[w]  BY <1>1 DEF Locals, AtGate
<1>4. stats' = [stats EXCEPT !.input = @ + n]  BY DEF ReportConsumer
<1>5. /\ pc' = [pc EXCEPT ![w] = "loop"] \/ pc' = [pc EXCEPT ![w] = "exited"]
      /\ mode' = mode \/ (pc' = [pc EXCEPT ![w] = "loop"] /\ mode' = [mode EXCEPT ![w] = "producer"])
      /\ gate' = [gate EXCEPT ![w] = 0] /\ discarded' = [discarded EXCEPT ![w] = FALSE]
      /\ moved' = [moved EXCEPT ![w] = 0]
      /\ UNCHANGED <<joined, runs, launched, stop, inputsLeft, queued, closed, count, chunk,
                     todo, fault>>
  BY DEF ReportConsumer, NewGate, Goto
<1>6. Announce(Done(stats'))  BY DEF ReportConsumer
<1> HIDE DEF n
<1>7. /\ stats'.input = stats.input + n /\ stats'.output = stats.output
      /\ stats'.consumed = stats.consumed /\ stats'.processed = stats.processed
      /\ stats'.consumedAll = stats.consumedAll /\ stats'.processedAll = stats.processedAll
  BY <1>4 DEF TypeOK
<1>8. TypeOK'
  <2>1. stats' \in [consumed : Nat, processed : Nat, output : Nat, input : Nat,
                    consumedAll : BOOLEAN, processedAll : BOOLEAN]
    BY <1>1, <1>2, <1>4 DEF TypeOK
  <2>2. master' \in MasterPlaces  BY <1>6 DEF Announce, WakeMaster, TypeOK, MasterPlaces
  <2>3. gate' \in [Workers -> Nat] /\ moved' \in [Workers -> Nat]  BY <1>5 DEF TypeOK
  <2>4. discarded' \in [Workers -> BOOLEAN]  BY <1>5 DEF TypeOK
  <2>5. /\ pc' \in [Workers -> {"none", "loop", "input", "push", "pop", "exited"}]
        /\ mode' \in [Workers -> {"producer", "consumer"}]
    BY <1>5 DEF TypeOK
  <2> QED  BY <1>5, <2>1, <2>2, <2>3, <2>4, <2>5 DEF TypeOK
<1>9. Launches'
  BY <1>1, <1>5, <1>6 DEF Launches, Target, TypeOK, Announce, WakeMaster
<1>10. pc'[w] \in {"loop", "exited"} /\ gate'[w] = 0 /\ moved'[w] = 0 /\ count'[w] = 0
  BY <1>1, <1>5 DEF TypeOK
<1>11. Locals'
  <2>1. ASSUME NEW v \in Workers, v # w PROVE InHand(v)' /\ AtGate(v)'
    <3>1. /\ pc'[v] = pc[v] /\ mode'[v] = mode[v] /\ count'[v] = count[v] /\ chunk'[v] = chunk[v]
          /\ todo'[v] = todo[v] /\ gate'[v] = gate[v] /\ discarded'[v] = discarded[v]
          /\ moved'[v] = moved[v] /\ closed' = closed
      BY <1>5, <2>1 DEF TypeOK
    <3>2. InHand(v) /\ AtGate(v)  BY DEF Locals
    <3> QED  BY <3>1, <3>2, LocalFrame
  <2>2. InHand(w)' /\ AtGate(w)'  BY <1>10 DEF InHand, AtGate
  <2> QED  BY <2>1, <2>2 DEF Locals
<1>12. ValuesConserved'
  <2>1. \A v \in Workers \ {w} : moved'[v] = moved[v] /\ mode'[v] = mode[v]
    BY <1>5 DEF TypeOK
  <2>2. Unreported(Consuming)' - 0 = Unreported(Consuming) - moved[w]
    BY <1>1, <1>8, <1>10, <2>1, UnreportedChange
  <2>3. Unreported(Producing)' - 0 = Unreported(Producing) - 0
    BY <1>1, <1>8, <1>10, <2>1, UnreportedChange
  <2>4. Unreported(Producing)' \in Nat /\ Unreported(Consuming)' \in Nat
    BY <1>8, UnreportedTypeAfter
  <2>5. queued \in Nat  BY DEF TypeOK
  <2> QED
    BY <1>1, <1>2, <1>3, <1>5, <1>7, <2>2, <2>3, <2>4, <2>5, UnreportedType DEF ValuesConserved
<1>13. InputsAccounted' /\ Flags'
  <2>1. Held(count', Workers) = Held(count, Workers)  BY <1>5
  <2>2. InputsAccounted'  BY <1>5, <1>7, <2>1 DEF InputsAccounted
  <2> QED  BY <1>7, <2>2 DEF Flags
<1>14. Endings'
  <2>1. closed => master \notin {"woken", "returned", "asleep"}  BY DEF Endings
  <2>2. master' = master \/ (master = "asleep" /\ master' = "wait")
    BY <1>6 DEF Announce, WakeMaster
  <2>3. master' = "asleep" => ~AllTaskDone'
    BY <1>6 DEF Announce, WakeMaster, AllTaskDone
  <2>4. master # "returned"  BY <1>1, <2>1, NothingToReport DEF Endings
  <2>5. master = "woken" => stop  BY <1>1, <2>1, NothingToReport DEF Endings
  <2> QED  BY <1>5, <2>1, <2>2, <2>3, <2>4, <2>5 DEF Endings, MasterAwake
<1> QED  BY <1>8, <1>9, <1>11, <1>12, <1>13, <1>14

-----------------------------------------------------------------------------
(* The master thread.                                                      *)

\* A step of the master that leaves the accounts alone.
LEMMA MasterFrame ==
  ASSUME SInd, UNCHANGED <<workerVars, inputsLeft, stats, queued>>, closed => closed',
         TypeOK', Launches', Endings'
  PROVE  SInd'
<1> USE DEF SInd, workerVars
<1>1. Locals'  BY LocalFrame DEF Locals
<1>2. ValuesConserved'  BY ValuesFrame
<1>3. InputsAccounted' /\ Flags'  BY InputsFrame DEF InputsAccounted
<1> QED  BY <1>1, <1>2, <1>3

LEMMA StartKeeps ==
  ASSUME SInd, Start
  PROVE  SInd'
<1> USE DEF SInd, Start, workerVars, sharedVars
<1>1. TypeOK'  BY ConstantTypes DEF TypeOK, MasterPlaces, ConstantTypes
<1>2. Launches'  BY ConstantTypes DEF Launches, Target, TypeOK, ConstantTypes
<1>3. Endings'  BY DEF Endings, MasterAwake
<1> QED  BY <1>1, <1>2, <1>3, MasterFrame

LEMMA LaunchKeeps ==
  ASSUME SInd, Launch
  PROVE  SInd'
<1> USE DEF SInd
<1>0. PICK w \in Workers : w = launched + 1
  <2>1. launched \in Nat /\ runs \in 0..Runs /\ runs # 0 /\ launched < Target
    <3>1. runs # 0 /\ launched < Target  BY DEF Launch, Launches
    <3>2. runs \in 0..Runs /\ launched \in {0} \union Workers  BY DEF TypeOK
    <3>3. launched \in Nat  BY <3>2 DEF Workers
    <3> QED  BY <3>1, <3>2, <3>3
  <2>2. Limit \in Nat /\ Runs \in Nat  BY ConstantTypes DEF ConstantTypes
  <2>3. launched < Limit + 2 * (runs - 1)  BY <2>1 DEF Target
  <2>4. 2 * (runs - 1) <= 2 * (Runs - 1)  BY <2>1, <2>2
  <2>5. launched + 1 \in 1..(Limit + 2 * (Runs - 1))  BY <2>1, <2>2, <2>3, <2>4
  <2> QED  BY <2>5 DEF Workers
<1>1. w = launched + 1 /\ launched \in Nat /\ w <= Target /\ Target = Limit + 2 * (runs - 1)
  BY <1>0, ConstantTypes DEF Launch, Launches, Target, TypeOK, ConstantTypes, Workers
<1>2. /\ master = "launch" /\ launched' = w /\ pc' = [pc EXCEPT ![w] = "loop"]
      /\ master' = IF w = Target THEN "started" ELSE "launch"
      /\ UNCHANGED <<joined, runs, sharedVars, mode, count, chunk, todo, gate, discarded,
                     moved, fault>>
  BY <1>1 DEF Launch, Goto
<1>3. pc[w] = "none"  BY <1>1 DEF Launches
<1>4. TypeOK'
  <2>1. pc' \in [Workers -> {"none", "loop", "input", "push", "pop", "exited"}]
    BY <1>1, <1>2 DEF TypeOK
  <2> QED  BY <1>1, <1>2, <2>1 DEF TypeOK, MasterPlaces, sharedVars
<1>5. Launches'
  <2>1. Target' = Target /\ runs' = runs /\ runs # 0  BY <1>2 DEF Target, Launches
  <2>2. \A v \in Workers : v > w => pc'[v] = "none"
    <3>1. \A v \in Workers : v > w => v > launched /\ v # w
      BY <1>1, WorkersFinite
    <3> QED  BY <1>1, <1>2, <3>1 DEF Launches, TypeOK
  <2>3. w \in Int /\ Target \in Int
    BY <1>1, ConstantTypes DEF TypeOK, ConstantTypes
  <2> QED  BY <1>1, <1>2, <2>1, <2>2, <2>3 DEF Launches
<1>6. Locals'
  <2>1. ASSUME NEW v \in Workers, v # w PROVE InHand(v)' /\ AtGate(v)'
    BY <1>1, <1>2, <2>1, LocalFrame DEF Locals, TypeOK, sharedVars
  <2>2. pc'[w] = "loop"  BY <1>1, <1>2 DEF TypeOK
  <2>3. moved[w] = 0 /\ count[w] = 0  BY <1>3 DEF Locals, InHand
  <2>4. InHand(w)' /\ AtGate(w)'  BY <1>2, <2>2, <2>3 DEF InHand, AtGate
  <2> QED  BY <2>1, <2>4 DEF Locals
<1>7. ValuesConserved'  BY <1>2, ValuesFrame DEF sharedVars
<1>8. InputsAccounted' /\ Flags'  BY <1>2, InputsFrame DEF InputsAccounted, sharedVars
<1>9. Endings'  BY <1>2 DEF Endings, MasterAwake, sharedVars
<1> QED  BY <1>4, <1>5, <1>6, <1>7, <1>8, <1>9

\* wait_for_all_tasks(), from the call to its end or to the joining.
LEMMA WaitKeeps ==
  ASSUME SInd, Wait \/ Sleep \/ Woken \/ AfterWait \/ NothingToRethrow
  PROVE  SInd'
<1> USE DEF SInd, Wait, Sleep, Woken, AfterWait, NothingToRethrow, Master, workerVars, sharedVars
<1>1. TypeOK'
  <2>1. master' \in MasterPlaces /\ joined' \in Nat  BY DEF TypeOK, MasterPlaces
  <2>2. closed' \in BOOLEAN  BY DEF TypeOK
  <2> QED  BY <2>1, <2>2 DEF TypeOK
<1>2. Launches'  BY DEF Launches, Target
<1>3. Endings'  BY DEF Endings, MasterAwake, AllTaskDone
<1> QED  BY <1>1, <1>2, <1>3, MasterFrame

LEMMA JoinNextKeeps ==
  ASSUME SInd, JoinNext
  PROVE  SInd'
<1> USE DEF SInd, JoinNext, sharedVars
<1>1. TypeOK'
  <2>1. fault' \in [Workers -> {"none", "user", "gate", "stats"}]  BY DEF TypeOK
  <2>2. joined' \in Nat /\ master' \in MasterPlaces  BY DEF TypeOK, MasterPlaces
  <2> QED  BY <2>1, <2>2 DEF TypeOK
<1>2. Launches'  BY DEF Launches, Target
<1>3. Locals'  BY LocalFrame DEF Locals
<1>4. ValuesConserved'  BY ValuesFrame
<1>5. InputsAccounted' /\ Flags'
  <2>1. \A v \in Workers : fault'[v] # "stats"  BY DEF InputsAccounted, TypeOK
  <2> QED  BY <2>1, InputsFrame
<1>6. Endings'  BY DEF Endings, MasterAwake, AllTaskDone
<1> QED  BY <1>1, <1>2, <1>3, <1>4, <1>5, <1>6

\* A wait that returned has left nothing behind, so all begins again from zero.
LEMMA ResetKeeps ==
  ASSUME SInd, Reset
  PROVE  SInd'
<1> USE DEF SInd, Reset, Master, workerVars
<1>1. AllTaskDone /\ ~closed  BY DEF Endings
<1>2. queued = 0 /\ \A w \in Workers : moved[w] = 0
  BY <1>1, Drained DEF DoneMeansDrained
<1>3. \A w \in Workers : count[w] = 0  BY <1>1, AllProcessedMeansNoInput
<1>4. TypeOK'
  <2>1. stats' \in [consumed : Nat, processed : Nat, output : Nat, input : Nat,
                    consumedAll : BOOLEAN, processedAll : BOOLEAN]
    BY DEF NewStats
  <2>2. inputsLeft' \in 0..Inputs /\ master' \in MasterPlaces
    BY ConstantTypes DEF ConstantTypes, MasterPlaces
  <2> QED  BY <2>1, <2>2 DEF TypeOK
<1>5. Launches'  BY DEF Launches, Target
<1>6. Locals'  BY LocalFrame DEF Locals
<1>7. ValuesConserved'
  <2>1. \A w \in Workers : moved'[w] = 0  BY <1>2
  <2>2. Held(moved', Producing') = 0 /\ Held(moved', Consuming') = 0
    BY <2>1, HeldNothing DEF Producing, Consuming
  <2> QED  BY <1>2, <2>2 DEF ValuesConserved, Unreported, NewStats
<1>8. InputsAccounted' /\ Flags'
  <2>1. Held(count', Workers) = 0  BY <1>3, HeldNothing
  <2>2. InputsAccounted'
    BY <2>1, ConstantTypes DEF InputsAccounted, NewStats, ConstantTypes
  <2> QED  BY <2>2 DEF Flags, NewStats
<1>9. Endings'  BY <1>1 DEF Endings, MasterAwake
<1> QED  BY <1>4, <1>5, <1>6, <1>7, <1>8, <1>9

LEMMA EndKeeps ==
  ASSUME SInd, Abort \/ JoinAll \/ Halt
  PROVE  SInd'
<1> USE DEF SInd, Abort, JoinAll, Halt, Master, WakeMaster, workerVars, sharedVars
<1>1. TypeOK'  BY DEF TypeOK, MasterPlaces
<1>2. Launches'  BY DEF Launches, Target
<1>3. Endings'  BY DEF Endings, MasterAwake, AllTaskDone
<1> QED  BY <1>1, <1>2, <1>3, MasterFrame

-----------------------------------------------------------------------------
LEMMA SStep ==
  ASSUME SInd, GatesCount, [Next]_vars
  PROVE  SInd'
<1>1. ASSUME NEW w \in Workers, WorkerStep(w) PROVE SInd'
  <2>1. CASE Leave(w) \/ TakeChunk(w) \/ TakeNothing(w) \/ CallProducer(w)
    BY <2>1, LeaveKeeps, TakeChunkKeeps, TakeNothingKeeps, CallProducerKeeps
  <2>2. CASE Push(w) \/ PushRefused(w) \/ ReportProducer(w)
    BY <2>2, PushKeeps, PushRefusedKeeps, ReportProducerKeeps
  <2>3. CASE CallConsumer(w) \/ Pop(w) \/ PopRefused(w) \/ ReportConsumer(w)
    BY <2>3, CallConsumerKeeps, PopKeeps, PopRefusedKeeps, ReportConsumerKeeps
  <2>4. CASE PushRejected(w)  BY <2>4, ThrowKeeps DEF PushRejected
  <2>5. CASE PopRejected(w)  BY <2>5, ThrowKeeps DEF PopRejected
  <2>6. CASE UserThrows(w)  BY <2>6, ThrowKeeps DEF UserThrows
  <2> QED  BY <1>1, <2>1, <2>2, <2>3, <2>4, <2>5, <2>6 DEF WorkerStep, WorkerRuns
<1>2. CASE MasterStep
  BY <1>2, StartKeeps, LaunchKeeps, WaitKeeps, JoinNextKeeps, ResetKeeps, EndKeeps
  DEF MasterStep
<1>3. CASE Halt  BY <1>3, EndKeeps
<1>4. CASE UNCHANGED vars
  <2>1. TypeOK'  BY <1>4 DEF SInd, TypeOK, vars, masterVars, workerVars, sharedVars
  <2>2. Launches'  BY <1>4 DEF SInd, Launches, Target, vars, masterVars, workerVars
  <2>3. Endings'
    BY <1>4 DEF SInd, Endings, MasterAwake, AllTaskDone, vars, masterVars, sharedVars
  <2> QED  BY <1>4, <2>1, <2>2, <2>3, MasterFrame DEF vars, masterVars, sharedVars
<1> QED  BY <1>1, <1>2, <1>3, <1>4 DEF Next, Finished

LEMMA SInductive == GatesCount => (Spec => []SInd)
<1> SUFFICES ASSUME GatesCount PROVE Spec => []SInd  OBVIOUS
<1>1. Init => SInd  BY SInitial
<1>2. SInd /\ [Next]_vars => SInd'  BY SStep
<1> QED  BY <1>1, <1>2, PTL DEF Spec, Safe

\* Every variable keeps its type, whatever is thrown and whoever stops.
THEOREM TypeCorrect == GatesCount => (Spec => []TypeOK)
<1>1. SInd => TypeOK  BY DEF SInd
<1> QED  BY <1>1, SInductive, PTL

\* No value is lost between the queue and the statistics, for any number of
\* workers, inputs and executions: what is reported, queued and in the hands
\* of workers always adds up, although each is counted at another time.
THEOREM ValuesAlwaysConserved == GatesCount => (Spec => []ValuesConserved)
<1>1. SInd => ValuesConserved  BY DEF SInd
<1> QED  BY <1>1, SInductive, PTL

\* Every input is in one place, and the setters of the flags never throw.
THEOREM InputsAlwaysAccounted == GatesCount => (Spec => []InputsAccounted)
<1>1. SInd => InputsAccounted  BY DEF SInd
<1> QED  BY <1>1, SInductive, PTL

\* Completion is never announced early: when the statistics say that all is
\* done, no input and no value is left, in whatever order the workers report.
THEOREM DoneAlwaysMeansDrained == GatesCount => (Spec => []DoneMeansDrained)
<1>1. SInd => DoneMeansDrained  BY Drained
<1> QED  BY <1>1, SInductive, PTL

\* The master never sleeps through the completion or a stop.
THEOREM MasterNeverSleepsIn == GatesCount => (Spec => []MasterAwake)
<1>1. SInd => MasterAwake  BY DEF SInd, Endings
<1> QED  BY <1>1, SInductive, PTL

\* Where gates count, the logic_error that wait_for_all_tasks() would throw of
\* a queue that is not empty has no occasion.
THEOREM QueueEmptyAfterWait == GatesCount => (Spec => []WaitLeavesQueueEmpty)
<1>1. SInd => WaitLeavesQueueEmpty
  <2> SUFFICES ASSUME SInd, master = "returned" PROVE queued = 0  BY DEF WaitLeavesQueueEmpty
  <2>1. AllTaskDone /\ ~closed  BY DEF SInd, Endings
  <2> QED  BY <2>1, Drained DEF DoneMeansDrained
<1> QED  BY <1>1, SInductive, PTL

-----------------------------------------------------------------------------
(* Scheduler does a Job.                                                   *)

\* The end is reached by a stop, and with all workers gone.
Gone ==
  /\ master \in {"rethrow", "join", "finished"} => stop
  /\ master = "finished" => \A w \in Workers : pc[w] \in {"none", "exited"}

JInd == SInd /\ Gone

LEMMA GoneStep ==
  ASSUME SInd, Gone, [Next]_vars
  PROVE  Gone'
<1> USE DEF Gone
<1>1. ASSUME NEW w \in Workers, WorkerStep(w) PROVE Gone'
  <2>1. pc[w] \notin {"none", "exited"}
    BY <1>1 DEF WorkerStep, WorkerRuns, Leave, TakeChunk, TakeNothing, CallProducer, Push,
       PushRefused, PushRejected, ReportProducer, CallConsumer, Pop, PopRefused, PopRejected,
       ReportConsumer, UserThrows
  <2>2. master # "finished"  BY <2>1
  <2>3. master' = master \/ (master = "asleep" /\ master' = "wait")
    BY <1>1 DEF WorkerStep, WorkerRuns, Leave, TakeChunk, TakeNothing, CallProducer, Push,
       PushRefused, PushRejected, ReportProducer, CallConsumer, Pop, PopRefused, PopRejected,
       ReportConsumer, UserThrows, Throw, WakeMaster, Announce, masterVars
  <2>4. stop => stop'
    BY <1>1 DEF WorkerStep, WorkerRuns, Leave, TakeChunk, TakeNothing, CallProducer, Push,
       PushRefused, PushRejected, ReportProducer, CallConsumer, Pop, PopRefused, PopRejected,
       ReportConsumer, UserThrows, Throw, sharedVars
  <2> QED  BY <2>2, <2>3, <2>4
<1>2. CASE JoinAll
  <2>1. master = "join" /\ master' = "finished" /\ stop' = stop /\ pc' = pc
    BY <1>2 DEF JoinAll, Master, workerVars, sharedVars
  <2>2. \A w \in Workers : w \in 1..launched => pc[w] = "exited"
    BY <1>2 DEF JoinAll
  <2>3. \A w \in Workers : w > launched => pc[w] = "none"  BY DEF SInd, Launches
  <2>4. \A w \in Workers : w \in 1..launched \/ w > launched
    BY ConstantTypes DEF SInd, TypeOK, Workers, ConstantTypes
  <2> QED  BY <2>1, <2>2, <2>3, <2>4
<1>3. CASE Start \/ Launch \/ Wait \/ Sleep \/ Woken \/ AfterWait \/ JoinNext
           \/ NothingToRethrow \/ Reset \/ Abort
  BY <1>3 DEF Start, Launch, Wait, Sleep, Woken, AfterWait, JoinNext, NothingToRethrow, Reset,
     Abort, Master, sharedVars
<1>4. CASE Halt  BY <1>4 DEF Halt, WakeMaster, workerVars
<1>5. CASE UNCHANGED vars  BY <1>5 DEF vars, masterVars, workerVars, sharedVars
<1> QED  BY <1>1, <1>2, <1>3, <1>4, <1>5 DEF Next, MasterStep, Finished

LEMMA JInductive == GatesCount => (Spec => []JInd)
<1> SUFFICES ASSUME GatesCount PROVE Spec => []JInd  OBVIOUS
<1>1. Init => JInd  BY SInitial DEF JInd, Init, Gone
<1>2. JInd /\ [Next]_vars => JInd'  BY SStep, GoneStep DEF JInd
<1> QED  BY <1>1, <1>2, PTL DEF Spec, Safe

\* What the caller sees of the workers.
Working == Held(count, Workers)
Values == queued + Unreported(Consuming)

\* A worker that runs does so before the end, and the caller notices nothing.
LEMMA CallerSame ==
  ASSUME master' = master \/ WakeMaster
  PROVE  Caller' = Caller
BY DEF WakeMaster, Caller

LEMMA NotEnded ==
  ASSUME JInd, NEW w \in Workers, pc[w] \notin {"none", "exited"}
  PROVE  Caller # "ended"
<1>1. master \in MasterPlaces /\ master # "finished"  BY DEF JInd, SInd, TypeOK, Gone
<1> QED  BY <1>1 DEF Caller, MasterPlaces

LEMMA WorkingSame ==
  ASSUME \A v \in Workers : count'[v] = count[v]
  PROVE  Working' = Working
<1>1. Held(count', Workers) = Held(count, Workers)  BY HeldSame
<1> QED  BY <1>1 DEF Working

LEMMA WorkingChange ==
  ASSUME TypeOK, TypeOK', NEW w \in Workers, \A v \in Workers \ {w} : count'[v] = count[v]
  PROVE  Working' \in Nat /\ Working \in Nat /\ Working' - count'[w] = Working - count[w]
BY CountType, CountTypeAfter, CountChange DEF Working

\* Values that a worker moves while it produces are not yet anybody's.
LEMMA ValuesChange ==
  ASSUME TypeOK, TypeOK', NEW w \in Workers,
         \A v \in Workers \ {w} : moved'[v] = moved[v] /\ mode'[v] = mode[v]
  PROVE  /\ Values' \in Nat /\ Values \in Nat
         /\ Values' - queued' - (IF mode'[w] = "consumer" THEN moved'[w] ELSE 0)
              = Values - queued - (IF mode[w] = "consumer" THEN moved[w] ELSE 0)
<1> DEFINE x == IF mode[w] = "consumer" THEN moved[w] ELSE 0
           y == IF mode'[w] = "consumer" THEN moved'[w] ELSE 0
<1>1. queued \in Nat /\ queued' \in Nat /\ x \in Nat /\ y \in Nat  BY DEF TypeOK
<1>2. Unreported(Consuming) \in Nat /\ Unreported(Consuming)' \in Nat
  BY UnreportedType, UnreportedTypeAfter
<1>3. Unreported(Consuming)' - y = Unreported(Consuming) - x  BY UnreportedChange
<1>4. Values' = queued' + Unreported(Consuming)'  BY DEF Values
<1> HIDE DEF x, y
<1>5. Values' - queued' - y = Values - queued - x
  BY <1>1, <1>2, <1>3, <1>4 DEF Values
<1>6. Values' \in Nat /\ Values \in Nat  BY <1>1, <1>2, <1>4 DEF Values
<1> QED  BY <1>5, <1>6 DEF x, y

LEMMA ValuesSame ==
  ASSUME queued' = queued, \A v \in Workers : moved'[v] = moved[v] /\ mode'[v] = mode[v]
  PROVE  Values' = Values
<1>1. Consuming' = Consuming  BY DEF Consuming
<1>2. \A v \in Consuming : moved'[v] = moved[v]  BY DEF Consuming
<1>3. Held(moved', Consuming) = Held(moved, Consuming)  BY <1>2, HeldSame
<1>4. Unreported(Consuming)' = Unreported(Consuming)  BY <1>1, <1>3 DEF Unreported
<1> QED  BY <1>4 DEF Values

\* Steps that are the caller's or a worker's own business.
LEMMA QuietStutters ==
  ASSUME Caller' = Caller, UNCHANGED <<inputsLeft, stop, queued>>,
         \A v \in Workers : moved'[v] = moved[v] /\ mode'[v] = mode[v] /\ count'[v] = count[v]
  PROVE  UNCHANGED Promise!vars
<1>1. Working' = Working /\ Values' = Values  BY WorkingSame, ValuesSame
<1> QED  BY <1>1 DEF Promise!vars, Working, Values

LEMMA StopStops ==
  ASSUME Caller # "ended", Caller' = Caller, UNCHANGED <<inputsLeft, queued>>, stop' = TRUE,
         \A v \in Workers : moved'[v] = moved[v] /\ mode'[v] = mode[v] /\ count'[v] = count[v]
  PROVE  Promise!Stop
<1>1. Working' = Working /\ Values' = Values  BY WorkingSame, ValuesSame
<1> QED  BY <1>1 DEF Promise!Stop, Working, Values

\* A chunk goes from the inputs that are left to those that are worked on.
LEMMA TakeChunkTakes ==
  ASSUME JInd, SInd', NEW w \in Workers, TakeChunk(w)
  PROVE  \E n \in 1..inputsLeft : Promise!Take(n)
<1> USE DEF JInd, SInd
<1> DEFINE n == IF inputsLeft < ChunkSize THEN inputsLeft ELSE ChunkSize
<1>1. /\ inputsLeft \in 1..Inputs /\ Inputs \in Nat /\ ChunkSize \in Nat \ {0}
      /\ pc[w] = "loop" /\ mode[w] = "producer" /\ ~stop /\ moved[w] = 0 /\ count[w] = 0
  BY ConstantTypes DEF TypeOK, ConstantTypes, TakeChunk, Locals, InHand
<1>2. n \in 1..inputsLeft  BY <1>1
<1>3. /\ inputsLeft' = inputsLeft - n
      /\ count' = [count EXCEPT ![w] = n] /\ moved' = [moved EXCEPT ![w] = 0]
      /\ UNCHANGED <<master, stop, queued, mode>>
  BY DEF TakeChunk, NewGate, masterVars
<1> HIDE DEF n
<1>4. \A v \in Workers \ {w} : count'[v] = count[v]  BY <1>3 DEF TypeOK
<1>5. count'[w] = n /\ n \in Nat  BY <1>1, <1>2, <1>3 DEF TypeOK
<1>6. Working' = Working + n  BY <1>1, <1>4, <1>5, WorkingChange
<1>7. \A v \in Workers : moved'[v] = moved[v] /\ mode'[v] = mode[v]  BY <1>1, <1>3 DEF TypeOK
<1>8. Values' = Values  BY <1>3, <1>7, ValuesSame
<1>9. Caller' = Caller /\ Caller # "ended"  BY <1>1, <1>3, CallerSame, NotEnded
<1>10. Promise!Take(n)
  BY <1>1, <1>2, <1>3, <1>6, <1>8, <1>9 DEF Promise!Take, Working, Values
<1> QED  BY <1>2, <1>10

\* A push makes a value of an input that is worked on.
LEMMA PushProduces ==
  ASSUME JInd, SInd', NEW w \in Workers, Push(w)
  PROVE  Promise!Produce
<1> USE DEF JInd, SInd
<1>1. /\ pc[w] = "push" /\ mode[w] = "producer" /\ queued \in Nat /\ moved[w] \in Nat
      /\ count[w] \in 1..ChunkSize /\ ChunkSize \in Nat
  BY ConstantTypes DEF Push, TypeOK, ConstantTypes, Locals, InHand
<1>2. /\ queued' = queued + 1
      /\ moved' = [moved EXCEPT ![w] = @ + 1]
      /\ UNCHANGED <<master, stop, inputsLeft, mode, count>>
  BY DEF Push, masterVars
<1>3. \A v \in Workers \ {w} : moved'[v] = moved[v] /\ mode'[v] = mode[v]  BY <1>2 DEF TypeOK
<1>4. Values' - queued' - 0 = Values - queued - 0 /\ Values' \in Nat /\ Values \in Nat
  BY <1>1, <1>2, <1>3, ValuesChange
<1>5. Values' = Values + 1  BY <1>1, <1>2, <1>4
<1>6. Working' = Working  BY <1>2, WorkingSame
<1>7. Working > 0  BY <1>1, CountShare, CountType DEF Working
<1>8. Caller' = Caller /\ Caller # "ended"  BY <1>1, <1>2, CallerSame, NotEnded
<1> QED  BY <1>2, <1>5, <1>6, <1>7, <1>8 DEF Promise!Produce, Working, Values

\* A popped value stays in the consumer's hands until it is reported.
LEMMA PopStutters ==
  ASSUME JInd, SInd', NEW w \in Workers, Pop(w)
  PROVE  UNCHANGED Promise!vars
<1> USE DEF JInd, SInd
<1>1. pc[w] = "pop" /\ mode[w] = "consumer" /\ moved[w] \in Nat /\ queued \in Nat
  BY DEF Pop, TypeOK, Locals, InHand
<1>2. /\ queued' = queued - 1
      /\ moved' = [moved EXCEPT ![w] = @ + 1]
      /\ UNCHANGED <<master, stop, inputsLeft, mode, count>>
  BY DEF Pop, masterVars
<1>3. \A v \in Workers \ {w} : moved'[v] = moved[v] /\ mode'[v] = mode[v]  BY <1>2 DEF TypeOK
<1>4. moved'[w] = moved[w] + 1  BY <1>2 DEF TypeOK
<1>5. /\ Values' - queued' - moved'[w] = Values - queued - moved[w]
      /\ Values' \in Nat /\ Values \in Nat
  BY <1>1, <1>2, <1>3, ValuesChange
<1>6. Values' = Values
  <2>1. \A a, b, q, m \in Nat : a - (q - 1) - (m + 1) = b - q - m => a = b  OBVIOUS
  <2>2. Values' - (queued - 1) - (moved[w] + 1) = Values - queued - moved[w]
    BY <1>2, <1>4, <1>5
  <2> HIDE DEF JInd, SInd
  <2> QED  BY <1>1, <1>5, <2>1, <2>2
<1>7. Working' = Working  BY <1>2, WorkingSame
<1>8. Caller' = Caller  BY <1>2, CallerSame
<1> QED  BY <1>2, <1>6, <1>7, <1>8 DEF Promise!vars, Working, Values

\* A producer's report finishes the inputs of its chunk.
LEMMA ReportProducerFinishes ==
  ASSUME JInd, SInd', NEW w \in Workers, ReportProducer(w)
  PROVE  \E n \in 1..Working : Promise!Finish(n)
<1> USE DEF JInd, SInd
<1>1. /\ pc[w] = "input" /\ mode[w] = "producer" /\ moved[w] \in Nat /\ queued \in Nat
      /\ count[w] \in 1..ChunkSize /\ ChunkSize \in Nat
  BY ConstantTypes DEF ReportProducer, TypeOK, ConstantTypes, Locals, InHand
<1>2. fault'[w] # "stats"  BY DEF InputsAccounted
<1>3. /\ mode' = mode \/ mode' = [mode EXCEPT ![w] = "consumer"]
      /\ count' = [count EXCEPT ![w] = 0]
      /\ moved' = [moved EXCEPT ![w] = 0]
      /\ UNCHANGED <<stop, inputsLeft, queued>>
      /\ master' = master \/ WakeMaster
  BY <1>2 DEF ReportProducer, NewGate, Announce, TypeOK
<1>4. \A v \in Workers \ {w} : moved'[v] = moved[v] /\ mode'[v] = mode[v] /\ count'[v] = count[v]
  BY <1>3 DEF TypeOK
<1>5. moved'[w] = 0 /\ count'[w] = 0  BY <1>3 DEF TypeOK
<1>6. Working' = Working - count[w]
  BY <1>1, <1>4, <1>5, WorkingChange
<1>7. count[w] \in 1..Working
  BY <1>1, CountShare, CountType DEF Working
<1>8. Values' - queued' - 0 = Values - queued - 0 /\ Values' \in Nat /\ Values \in Nat
  BY <1>1, <1>4, <1>5, ValuesChange
<1>9. Values' = Values
  <2>1. \A a, b, q \in Nat : a - q - 0 = b - q - 0 => a = b  OBVIOUS
  <2>2. Values' - queued - 0 = Values - queued - 0  BY <1>3, <1>8
  <2> HIDE DEF JInd, SInd
  <2> QED  BY <1>1, <1>8, <2>1, <2>2
<1>10. Caller' = Caller /\ Caller # "ended"  BY <1>1, <1>3, CallerSame, NotEnded
<1>11. Promise!Finish(count[w])
  BY <1>3, <1>6, <1>7, <1>9, <1>10 DEF Promise!Finish, Working, Values
<1> QED  BY <1>7, <1>11

\* A consumer's report consumes what its call popped, if anything.
LEMMA ReportConsumerConsumes ==
  ASSUME JInd, SInd', NEW w \in Workers, ReportConsumer(w)
  PROVE  (\E n \in 1..Values : Promise!Consume(n)) \/ UNCHANGED Promise!vars
<1> USE DEF JInd, SInd
<1>1. pc[w] = "pop" /\ mode[w] = "consumer" /\ moved[w] \in Nat /\ queued \in Nat
  BY DEF ReportConsumer, TypeOK, Locals, InHand
<1>2. /\ mode' = mode \/ mode' = [mode EXCEPT ![w] = "producer"]
      /\ moved' = [moved EXCEPT ![w] = 0]
      /\ UNCHANGED <<stop, inputsLeft, queued, count>>
      /\ master' = master \/ WakeMaster
  BY DEF ReportConsumer, NewGate, Announce
<1>3. \A v \in Workers \ {w} : moved'[v] = moved[v] /\ mode'[v] = mode[v]
  BY <1>2 DEF TypeOK
<1>4. moved'[w] = 0  BY <1>2 DEF TypeOK
<1>5. Values' - queued' - 0 = Values - queued - moved[w] /\ Values' \in Nat /\ Values \in Nat
  BY <1>1, <1>3, <1>4, ValuesChange
<1>6. Values' = Values - moved[w]
  <2>1. \A a, b, q, m \in Nat : a - q - 0 = b - q - m => a = b - m  OBVIOUS
  <2>2. Values' - queued - 0 = Values - queued - moved[w]  BY <1>2, <1>5
  <2> HIDE DEF JInd, SInd
  <2> QED  BY <1>1, <1>5, <2>1, <2>2
<1>7. Working' = Working  BY <1>2, WorkingSame
<1>8. Caller' = Caller /\ Caller # "ended"  BY <1>1, <1>2, CallerSame, NotEnded
<1>9. CASE moved[w] = 0
  BY <1>2, <1>5, <1>6, <1>7, <1>8, <1>9 DEF Promise!vars, Working, Values
<1>10. CASE moved[w] # 0
  <2>1. moved[w] \in 1..Values  BY <1>1, <1>5, <1>6, <1>10
  <2>2. Promise!Consume(moved[w])
    BY <1>2, <1>6, <1>7, <1>8, <2>1 DEF Promise!Consume, Working, Values
  <2> QED  BY <2>1, <2>2
<1> QED  BY <1>9, <1>10

\* An exception stops the pool, and leaves the rest as it is.
LEMMA ThrowStops ==
  ASSUME JInd, NEW w \in Workers, NEW what, pc[w] \in {"input", "push", "pop"}, Throw(w, what)
  PROVE  Promise!Stop
<1>1. Caller' = Caller /\ Caller # "ended"
  BY CallerSame, NotEnded DEF Throw
<1> QED  BY <1>1, StopStops DEF Throw

\* The rest a worker does concerns itself only.
LEMMA WorkerStutters ==
  ASSUME JInd, NEW w \in Workers,
         \/ Leave(w) \/ CallProducer(w) \/ PushRefused(w) \/ CallConsumer(w) \/ PopRefused(w)
         \/ TakeNothing(w)
  PROVE  UNCHANGED Promise!vars
<1> USE DEF JInd, SInd
<1>1. master' = master /\ inputsLeft' = inputsLeft /\ stop' = stop /\ queued' = queued /\ count' = count
  BY DEF Leave, CallProducer, PushRefused, CallConsumer, PopRefused, TakeNothing, masterVars,
     sharedVars
<1>2. Caller' = Caller  BY <1>1, CallerSame
<1>3. CASE Leave(w) \/ CallProducer(w) \/ PushRefused(w) \/ PopRefused(w)
  BY <1>1, <1>2, <1>3, QuietStutters DEF Leave, CallProducer, PushRefused, PopRefused
<1>4. CASE CallConsumer(w)
  <2>1. moved[w] = 0  BY <1>4 DEF CallConsumer, Locals, InHand
  <2>2. \A v \in Workers : moved'[v] = moved[v] /\ mode'[v] = mode[v]
    BY <1>4, <2>1 DEF CallConsumer, NewGate, TypeOK
  <2> QED  BY <1>1, <1>2, <2>2, QuietStutters
<1>5. CASE TakeNothing(w)
  <2>1. /\ moved[w] = 0 /\ mode[w] = "producer" /\ moved' = moved
        /\ mode' = [mode EXCEPT ![w] = "consumer"]
    BY <1>5 DEF TakeNothing, Locals, InHand
  <2>2. Consuming' = Consuming \union {w} /\ w \notin Consuming
    BY <2>1 DEF Consuming, TypeOK
  <2>3. \A v \in Consuming' : moved[v] \in Nat  BY DEF TypeOK, Consuming
  <2>4. IsFiniteSet(Consuming')  BY <2>2, SidesFinite, FS_AddElement
  <2>5. Held(moved, Consuming') = Held(moved, Consuming' \ {w}) + moved[w]
    BY <2>2, <2>3, <2>4, HeldSplit
  <2>6. Consuming' \ {w} = Consuming  BY <2>2
  <2>7. Held(moved, Consuming') = Unreported(Consuming)
    BY <2>1, <2>5, <2>6, UnreportedType DEF Unreported
  <2>8. Values' = Values  BY <1>1, <2>1, <2>7 DEF Values, Unreported
  <2>9. Working' = Working  BY <1>1, WorkingSame
  <2> QED  BY <1>1, <1>2, <2>8, <2>9 DEF Promise!vars, Working, Values
<1> QED  BY <1>3, <1>4, <1>5

LEMMA WorkerDoesJob ==
  ASSUME JInd, SInd', NEW w \in Workers, WorkerStep(w)
  PROVE  [Promise!Next]_Promise!vars
<1>1. CASE TakeChunk(w)  BY <1>1, TakeChunkTakes DEF Promise!Next
<1>2. CASE Push(w)  BY <1>2, PushProduces DEF Promise!Next
<1>3. CASE Pop(w)  BY <1>3, PopStutters
<1>4. CASE ReportProducer(w)  BY <1>4, ReportProducerFinishes DEF Promise!Next, Working
<1>5. CASE ReportConsumer(w)  BY <1>5, ReportConsumerConsumes DEF Promise!Next, Values
<1>6. CASE PushRejected(w) \/ PopRejected(w) \/ UserThrows(w)
  BY <1>6, ThrowStops DEF PushRejected, PopRejected, UserThrows, Promise!Next
<1>7. CASE \/ Leave(w) \/ CallProducer(w) \/ PushRefused(w) \/ CallConsumer(w) \/ PopRefused(w)
           \/ TakeNothing(w)
  BY <1>7, WorkerStutters
<1> QED  BY <1>1, <1>2, <1>3, <1>4, <1>5, <1>6, <1>7 DEF WorkerStep, WorkerRuns

\* With all done and the queue open, nothing is left for the caller.
LEMMA NothingLeft ==
  ASSUME SInd, AllTaskDone, ~closed
  PROVE  inputsLeft = 0 /\ Working = 0 /\ Values = 0
<1>1. inputsLeft = 0 /\ queued = 0 /\ \A w \in Workers : moved[w] = 0
  BY Drained DEF DoneMeansDrained
<1>2. \A w \in Workers : count[w] = 0  BY AllProcessedMeansNoInput
<1>3. Held(count, Workers) = 0  BY <1>2, HeldNothing
<1>4. \A w \in Consuming : moved[w] = 0  BY <1>1 DEF Consuming
<1>5. Held(moved, Consuming) = 0  BY <1>4, HeldNothing
<1> QED  BY <1>1, <1>3, <1>5 DEF Working, Values, Unreported

\* start() refuses only when the inputs are used up.
LEMMA ProcessedMeansNoInput ==
  ASSUME SInd, stats.processedAll
  PROVE  inputsLeft = 0 /\ Working = 0
<1> USE DEF SInd
<1>1. stats.consumedAll /\ stats.processed = stats.consumed  BY DEF Flags
<1>2. stats.consumed \in Nat /\ inputsLeft \in Nat /\ Inputs \in Nat
  BY ConstantTypes DEF TypeOK, ConstantTypes
<1>3. Working \in Nat  BY CountType DEF Working
<1> QED  BY <1>1, <1>2, <1>3 DEF InputsAccounted, Working

LEMMA MasterQuiet ==
  ASSUME UNCHANGED <<workerVars, queued>>
  PROVE  Working' = Working /\ Values' = Values
BY WorkingSame, ValuesSame DEF workerVars

LEMMA MasterDoesJob ==
  ASSUME JInd, SInd', MasterStep
  PROVE  [Promise!Next]_Promise!vars
<1> USE DEF JInd
<1>1. CASE Start
  <2>1. Working' = Working /\ Values' = Values /\ UNCHANGED <<inputsLeft, stop>>
    BY <1>1, MasterQuiet DEF Start, sharedVars
  <2>2. Caller \in {"ready", "running"}  BY <1>1 DEF Start, Caller
  <2>3. CASE stats.processedAll
    <3>1. Caller' = "refused"  BY <1>1, <2>3 DEF Start, Caller
    <3>2. Promise!Refuse
      BY <2>1, <2>2, <2>3, <3>1, ProcessedMeansNoInput
      DEF Promise!Refuse, Promise!Goes, Working, Values
    <3> QED  BY <3>2 DEF Promise!Next
  <2>4. CASE ~stats.processedAll
    <3>1. Caller' = "running"  BY <1>1, <2>4 DEF Start, Caller
    <3>2. Promise!Start
      BY <2>1, <2>2, <3>1 DEF Promise!Start, Promise!Goes, Working, Values
    <3> QED  BY <3>2 DEF Promise!Next
  <2> QED  BY <2>3, <2>4
<1>2. CASE Launch
  <2>1. Working' = Working /\ Values' = Values /\ UNCHANGED <<inputsLeft, stop>>
    BY <1>2, WorkingSame, ValuesSame DEF Launch, sharedVars
  <2>2. Caller' = Caller  BY <1>2 DEF Launch, Caller
  <2> QED  BY <2>1, <2>2 DEF Promise!vars, Working, Values
<1>3. CASE Wait
  <2>1. Working' = Working /\ Values' = Values /\ UNCHANGED <<inputsLeft, stop>>
    BY <1>3, MasterQuiet DEF Wait, sharedVars
  <2>2. Caller = "running" /\ Caller' = "waiting"  BY <1>3 DEF Wait, Master, Caller
  <2>3. Promise!Wait  BY <2>1, <2>2 DEF Promise!Wait, Promise!Goes, Working, Values
  <2> QED  BY <2>3 DEF Promise!Next
<1>4. CASE Sleep \/ Woken
  <2>1. Working' = Working /\ Values' = Values /\ UNCHANGED <<inputsLeft, stop>>
    BY <1>4, MasterQuiet DEF Sleep, Woken, sharedVars
  <2>2. Caller' = Caller  BY <1>4 DEF Sleep, Woken, Master, Caller
  <2> QED  BY <2>1, <2>2 DEF Promise!vars, Working, Values
<1>5. CASE AfterWait
  <2>1. Working' = Working /\ Values' = Values /\ UNCHANGED <<inputsLeft, stop>>
    BY <1>5, MasterQuiet DEF AfterWait
  <2>2. Caller = "waiting"  BY <1>5 DEF AfterWait, Master, Caller
  <2>3. CASE master' = "returned"
    <3>1. ~stop /\ AllTaskDone /\ ~closed
      BY <1>5, <2>3 DEF AfterWait, Master, SInd, Endings
    <3>2. Caller' = "done"  BY <2>3 DEF Caller
    <3>3. Promise!Succeed
      BY <2>1, <2>2, <3>1, <3>2, NothingLeft
      DEF Promise!Succeed, Promise!Goes, Working, Values
    <3> QED  BY <3>3 DEF Promise!Next
  <2>4. CASE master' = "rethrow"
    <3>1. Caller' = "waiting"  BY <2>4 DEF Caller
    <3> QED  BY <2>1, <2>2, <3>1 DEF Promise!vars, Working, Values
  <2> QED  BY <1>5, <2>3, <2>4 DEF AfterWait, Master
<1>6. CASE JoinNext \/ NothingToRethrow
  <2>1. Working' = Working /\ Values' = Values /\ UNCHANGED <<inputsLeft, stop>>
    BY <1>6, WorkingSame, ValuesSame DEF JoinNext, NothingToRethrow, sharedVars, workerVars
  <2>2. master = "rethrow" /\ master' \in {"rethrow", "threw", "stopped"}
    BY <1>6 DEF JoinNext, NothingToRethrow, Master
  <2>3. Caller = "waiting" /\ stop  BY <2>2 DEF Caller, Gone
  <2>4. CASE master' = "rethrow"
    <3>1. Caller' = "waiting"  BY <2>4 DEF Caller
    <3> QED  BY <2>1, <2>3, <3>1 DEF Promise!vars, Working, Values
  <2>5. CASE master' \in {"threw", "stopped"}
    <3>1. Caller' = "failed"  BY <2>5 DEF Caller
    <3>2. Promise!Fail
      BY <2>1, <2>3, <3>1 DEF Promise!Fail, Promise!Goes, Working, Values
    <3> QED  BY <3>2 DEF Promise!Next
  <2> QED  BY <2>2, <2>4, <2>5
<1>7. CASE Reset
  <2>1. Working' = Working /\ Values' = Values /\ stop' = stop /\ inputsLeft' = Inputs
    BY <1>7, MasterQuiet DEF Reset
  <2>2. Caller = "done" /\ Caller' = "ready"  BY <1>7 DEF Reset, Master, Caller
  <2>3. Promise!Reset  BY <2>1, <2>2 DEF Promise!Reset, Promise!Goes, Working, Values
  <2> QED  BY <2>3 DEF Promise!Next
<1>8. CASE Abort
  <2>1. Working' = Working /\ Values' = Values /\ inputsLeft' = inputsLeft /\ stop' = TRUE
    BY <1>8, MasterQuiet DEF Abort
  <2>2. Caller \in {"running", "refused", "done", "failed"} /\ Caller' = "closing"
    BY <1>8 DEF Abort, Caller
  <2>3. Promise!Abort  BY <2>1, <2>2 DEF Promise!Abort, Promise!Goes, Working, Values
  <2> QED  BY <2>3 DEF Promise!Next
<1>9. CASE JoinAll
  <2>1. Working' = Working /\ Values' = Values /\ UNCHANGED <<inputsLeft, stop>>
    BY <1>9, MasterQuiet DEF JoinAll, sharedVars
  <2>2. Caller = "closing" /\ Caller' = "ended"  BY <1>9 DEF JoinAll, Master, Caller
  <2>3. Promise!Close  BY <2>1, <2>2 DEF Promise!Close, Promise!Goes, Working, Values
  <2> QED  BY <2>3 DEF Promise!Next
<1> QED  BY <1>1, <1>2, <1>3, <1>4, <1>5, <1>6, <1>7, <1>8, <1>9 DEF MasterStep

LEMMA HaltStops ==
  ASSUME JInd, Halt
  PROVE  Promise!Stop \/ UNCHANGED Promise!vars
<1>1. Caller' = Caller  BY CallerSame DEF Halt
<1>2. Caller # "ended"
  <2>1. master # "finished"  BY DEF Halt, JInd, Gone
  <2> QED  BY <2>1 DEF JInd, SInd, TypeOK, MasterPlaces, Caller
<1> QED  BY <1>1, <1>2, StopStops DEF Halt, workerVars

LEMMA JobBegins ==
  ASSUME Init
  PROVE  Promise!Init
<1>1. Held(count, Workers) = 0  BY HeldNothing DEF Init
<1>2. \A w \in Consuming : moved[w] = 0  BY DEF Init, Consuming
<1>3. Held(moved, Consuming) = 0  BY <1>2, HeldNothing
<1>4. Caller = "ready"  BY DEF Init, Caller
<1> QED  BY <1>1, <1>3, <1>4 DEF Init, Promise!Init, Unreported

LEMMA JobStep ==
  ASSUME JInd, JInd', [Next]_vars
  PROVE  [Promise!Next]_Promise!vars
<1>1. SInd'  BY DEF JInd
<1>2. ASSUME NEW w \in Workers, WorkerStep(w) PROVE [Promise!Next]_Promise!vars
  BY <1>1, <1>2, WorkerDoesJob
<1>3. CASE MasterStep  BY <1>1, <1>3, MasterDoesJob
<1>4. CASE Halt  BY <1>4, HaltStops DEF Promise!Next
<1>5. CASE UNCHANGED vars
  <2>1. Caller' = Caller  BY <1>5 DEF Caller, vars, masterVars
  <2> QED  BY <1>5, <2>1, QuietStutters DEF vars, workerVars, sharedVars
<1> QED  BY <1>2, <1>3, <1>4, <1>5 DEF Next, Finished

\* Where gates count, the scheduler does a job as its caller may expect: the
\* wait succeeds only with every input finished, every value consumed and no
\* stop requested, start() refuses only used-up inputs, and the end leaves no
\* worker at work, for any number of workers, inputs and executions.
THEOREM DoesJob == GatesCount => (Spec => ImplementsJob)
<1> SUFFICES ASSUME GatesCount PROVE Spec => ImplementsJob  OBVIOUS
<1>1. Init => Promise!Init  BY JobBegins
<1>2. JInd /\ JInd' /\ [Next]_vars => [Promise!Next]_Promise!vars  BY JobStep
<1>3. Spec => []JInd  BY JInductive
<1> QED  BY <1>1, <1>2, <1>3, PTL DEF Spec, Safe, ImplementsJob, Promise!Spec
=============================================================================
