---------------------------- MODULE ThreadProofs ----------------------------
(***************************************************************************)
(* Theorems about the small components with threads of their own, for any  *)
(* number of threads, jobs and elements: WorkerPool, StatsTracker and      *)
(* ParForEach.                                                             *)
(***************************************************************************)
EXTENDS WorkerPool, StatsTracker, ParForEach, TLAPS

-----------------------------------------------------------------------------
(* WorkerPool keeps account of threads and exceptions.  The invariants of  *)
(* the runs are not inductive: why a join is safe depends on how far the   *)
(* call has come, which JoinedSoFar says.                                  *)

\* A launch has room for all it will store.
LaunchFits == pc \in {"launch", "emplace"} => rest >= 1 /\ size + rest <= MaxThreads

\* A call that joins has joined the entries before the one it looks at, and
\* rethrow_exceptions() has found nothing there.
JoinedSoFar ==
  \A i \in Entries :
    /\ pc \in {"rethrow", "clear", "exit"} /\ i < at => ~joinable[i]
    /\ pc = "rethrow" /\ i < at => ~exception[i]

\* An exception is in an entry, one on its way has stopped the others, and
\* only an idle client has the outcome of a call.
Placed ==
  /\ \A i \in Ids : exception[i] => i \in Entries
  /\ \A i \in Ids : run[i] = "throwing" => stop
  /\ outcome = "clean" => pc = "idle"

PoolInd ==
  /\ PoolTypeOK /\ LaunchFits /\ ThreadsOwned
  /\ ExceptionsAccounted /\ JoinedSoFar /\ Placed /\ ReturnsClean

\* An empty pool.
LEMMA PoolInitial ==
  ASSUME BoundsOK, PoolInit
  PROVE  PoolInd
<1> USE DEF BoundsOK, PoolInit, Ids, Entries, Alive
<1>1. PoolTypeOK
  <2>1. joinable \in [Ids -> BOOLEAN] /\ exception \in [Ids -> BOOLEAN]  OBVIOUS
  <2>2. run \in [Ids -> {"none", "running", "throwing", "exited"}]  OBVIOUS
  <2>3. fate \in [Ids -> {"none", "kept", "lost", "rethrown"}]  OBVIOUS
  <2>4. size \in 0..MaxThreads  OBVIOUS
  <2>5. onExit \in BOOLEAN /\ stop \in BOOLEAN  BY Zenon
  <2>6. rest \in Nat /\ at \in Nat /\ last \in Nat /\ limit \in Limits  OBVIOUS
  <2> QED  BY <2>1, <2>2, <2>3, <2>4, <2>5, <2>6 DEF PoolTypeOK
<1>2. LaunchFits  BY DEF LaunchFits
<1>3. ThreadsOwned  BY DEF ThreadsOwned
<1>4. ExceptionsAccounted  BY DEF ExceptionsAccounted
<1>5. JoinedSoFar  BY DEF JoinedSoFar
<1>6. Placed  BY DEF Placed
<1>7. ReturnsClean  BY DEF ReturnsClean
<1> QED  BY <1>1, <1>2, <1>3, <1>4, <1>5, <1>6, <1>7 DEF PoolInd

-----------------------------------------------------------------------------
(* Every action keeps every conjunct of PoolInd: the actions of a worker   *)
(* first, then those of the client.                                        *)

LEMMA ReturnKeeps ==
  ASSUME BoundsOK, PoolInd, NEW i \in Ids, Return(i)
  PROVE  PoolInd'
<1> USE DEF BoundsOK, PoolInd, PoolTypeOK, Ids, Entries, Alive, Return, client, vector
<1>1. PoolTypeOK'  BY DEF LaunchFits
<1>2. LaunchFits'  BY DEF LaunchFits
<1>3. ThreadsOwned'  BY DEF ThreadsOwned, LaunchFits, ExceptionsAccounted, JoinedSoFar
<1>4. ExceptionsAccounted'  BY DEF ExceptionsAccounted, Placed, LaunchFits, JoinedSoFar, ThreadsOwned
<1>5. JoinedSoFar'  BY DEF JoinedSoFar, ExceptionsAccounted
<1>6. Placed'  BY DEF Placed, LaunchFits
<1>7. ReturnsClean'  BY DEF ReturnsClean, Placed, JoinedSoFar, ExceptionsAccounted, LaunchFits
<1> QED  BY <1>1, <1>2, <1>3, <1>4, <1>5, <1>6, <1>7

LEMMA RaiseKeeps ==
  ASSUME BoundsOK, PoolInd, NEW i \in Ids, Raise(i)
  PROVE  PoolInd'
<1> USE DEF BoundsOK, PoolInd, PoolTypeOK, Ids, Entries, Alive, Raise, client, vector
<1>1. PoolTypeOK'  BY DEF LaunchFits
<1>2. LaunchFits'  BY DEF LaunchFits
<1>3. ThreadsOwned'  BY DEF ThreadsOwned, LaunchFits, ExceptionsAccounted, JoinedSoFar
<1>4. ExceptionsAccounted'  BY DEF ExceptionsAccounted, Placed, LaunchFits, JoinedSoFar, ThreadsOwned
<1>5. JoinedSoFar'  BY DEF JoinedSoFar, ExceptionsAccounted
<1>6. Placed'  BY DEF Placed, LaunchFits
<1>7. ReturnsClean'  BY DEF ReturnsClean, Placed, JoinedSoFar, ExceptionsAccounted, LaunchFits
<1> QED  BY <1>1, <1>2, <1>3, <1>4, <1>5, <1>6, <1>7

LEMMA StoreKeeps ==
  ASSUME BoundsOK, PoolInd, NEW i \in Ids, Store(i)
  PROVE  PoolInd'
<1> USE DEF BoundsOK, PoolInd, PoolTypeOK, Ids, Entries, Alive, Store, client
<1>1. PoolTypeOK'  BY DEF LaunchFits
<1>2. LaunchFits'  BY DEF LaunchFits
<1>3. ThreadsOwned'  BY DEF ThreadsOwned, LaunchFits, ExceptionsAccounted, JoinedSoFar
<1>4. ExceptionsAccounted'  BY DEF ExceptionsAccounted, Placed, LaunchFits, JoinedSoFar, ThreadsOwned
<1>5. JoinedSoFar'  BY DEF JoinedSoFar, ExceptionsAccounted
<1>6. Placed'  BY DEF Placed, LaunchFits
<1>7. ReturnsClean'  BY DEF ReturnsClean, Placed, JoinedSoFar, ExceptionsAccounted, LaunchFits
<1> QED  BY <1>1, <1>2, <1>3, <1>4, <1>5, <1>6, <1>7

LEMMA SetWorkerLimitKeeps ==
  ASSUME BoundsOK, PoolInd, NEW l \in Limits, SetWorkerLimit(l)
  PROVE  PoolInd'
<1> USE DEF BoundsOK, PoolInd, PoolTypeOK, Ids, Entries, Alive, SetWorkerLimit, vector
<1>1. PoolTypeOK'  BY DEF LaunchFits
<1>2. LaunchFits'  BY DEF LaunchFits
<1>3. ThreadsOwned'  BY DEF ThreadsOwned, LaunchFits, ExceptionsAccounted, JoinedSoFar
<1>4. ExceptionsAccounted'  BY DEF ExceptionsAccounted, Placed, LaunchFits, JoinedSoFar, ThreadsOwned
<1>5. JoinedSoFar'  BY DEF JoinedSoFar, ExceptionsAccounted
<1>6. Placed'  BY DEF Placed, LaunchFits
<1>7. ReturnsClean'  BY DEF ReturnsClean, Placed, JoinedSoFar, ExceptionsAccounted, LaunchFits
<1> QED  BY <1>1, <1>2, <1>3, <1>4, <1>5, <1>6, <1>7

LEMMA SetRethrowOnExitKeeps ==
  ASSUME BoundsOK, PoolInd, NEW flag \in BOOLEAN, SetRethrowOnExit(flag)
  PROVE  PoolInd'
<1> USE DEF BoundsOK, PoolInd, PoolTypeOK, Ids, Entries, Alive, SetRethrowOnExit, vector
<1>1. PoolTypeOK'  BY DEF LaunchFits
<1>2. LaunchFits'  BY DEF LaunchFits
<1>3. ThreadsOwned'  BY DEF ThreadsOwned, LaunchFits, ExceptionsAccounted, JoinedSoFar
<1>4. ExceptionsAccounted'  BY DEF ExceptionsAccounted, Placed, LaunchFits, JoinedSoFar, ThreadsOwned
<1>5. JoinedSoFar'  BY DEF JoinedSoFar, ExceptionsAccounted
<1>6. Placed'  BY DEF Placed, LaunchFits
<1>7. ReturnsClean'  BY DEF ReturnsClean, Placed, JoinedSoFar, ExceptionsAccounted, LaunchFits
<1> QED  BY <1>1, <1>2, <1>3, <1>4, <1>5, <1>6, <1>7

LEMMA LaunchKeeps ==
  ASSUME BoundsOK, PoolInd, NEW n \in Nat, Launch(n)
  PROVE  PoolInd'
<1> USE DEF BoundsOK, PoolInd, PoolTypeOK, Ids, Entries, Alive, Launch, Begin, vector
<1>1. PoolTypeOK'  BY DEF LaunchFits
<1>2. LaunchFits'  BY DEF LaunchFits
<1>3. ThreadsOwned'  BY DEF ThreadsOwned, LaunchFits, ExceptionsAccounted, JoinedSoFar
<1>4. ExceptionsAccounted'  BY DEF ExceptionsAccounted, Placed, LaunchFits, JoinedSoFar, ThreadsOwned
<1>5. JoinedSoFar'  BY DEF JoinedSoFar, ExceptionsAccounted
<1>6. Placed'  BY DEF Placed, LaunchFits
<1>7. ReturnsClean'  BY DEF ReturnsClean, Placed, JoinedSoFar, ExceptionsAccounted, LaunchFits
<1> QED  BY <1>1, <1>2, <1>3, <1>4, <1>5, <1>6, <1>7

LEMMA StartThreadKeeps ==
  ASSUME BoundsOK, PoolInd, StartThread
  PROVE  PoolInd'
<1> USE DEF BoundsOK, PoolInd, PoolTypeOK, Ids, Entries, Alive, StartThread, vector
<1>1. PoolTypeOK'  BY DEF LaunchFits
<1>2. LaunchFits'  BY DEF LaunchFits
<1>3. ThreadsOwned'  BY DEF ThreadsOwned, LaunchFits, ExceptionsAccounted, JoinedSoFar
<1>4. ExceptionsAccounted'  BY DEF ExceptionsAccounted, Placed, LaunchFits, JoinedSoFar, ThreadsOwned
<1>5. JoinedSoFar'  BY DEF JoinedSoFar, ExceptionsAccounted
<1>6. Placed'  BY DEF Placed, LaunchFits
<1>7. ReturnsClean'  BY DEF ReturnsClean, Placed, JoinedSoFar, ExceptionsAccounted, LaunchFits
<1> QED  BY <1>1, <1>2, <1>3, <1>4, <1>5, <1>6, <1>7

LEMMA EmplaceBackKeeps ==
  ASSUME BoundsOK, PoolInd, EmplaceBack
  PROVE  PoolInd'
<1> USE DEF BoundsOK, PoolInd, PoolTypeOK, Ids, Entries, Alive, EmplaceBack
<1>1. PoolTypeOK'  BY DEF LaunchFits
<1>2. LaunchFits'  BY DEF LaunchFits
<1>3. ThreadsOwned'  BY DEF ThreadsOwned, LaunchFits, ExceptionsAccounted, JoinedSoFar
<1>4. ExceptionsAccounted'  BY DEF ExceptionsAccounted, Placed, LaunchFits, JoinedSoFar, ThreadsOwned
<1>5. JoinedSoFar'  BY DEF JoinedSoFar, ExceptionsAccounted
<1>6. Placed'  BY DEF Placed, LaunchFits
<1>7. ReturnsClean'  BY DEF ReturnsClean, Placed, JoinedSoFar, ExceptionsAccounted, LaunchFits
<1> QED  BY <1>1, <1>2, <1>3, <1>4, <1>5, <1>6, <1>7

LEMMA HaltKeeps ==
  ASSUME BoundsOK, PoolInd, Halt
  PROVE  PoolInd'
<1> USE DEF BoundsOK, PoolInd, PoolTypeOK, Ids, Entries, Alive, Halt, Begin, vector
<1>1. PoolTypeOK'  BY DEF LaunchFits
<1>2. LaunchFits'  BY DEF LaunchFits
<1>3. ThreadsOwned'  BY DEF ThreadsOwned, LaunchFits, ExceptionsAccounted, JoinedSoFar
<1>4. ExceptionsAccounted'  BY DEF ExceptionsAccounted, Placed, LaunchFits, JoinedSoFar, ThreadsOwned
<1>5. JoinedSoFar'  BY DEF JoinedSoFar, ExceptionsAccounted
<1>6. Placed'  BY DEF Placed, LaunchFits
<1>7. ReturnsClean'  BY DEF ReturnsClean, Placed, JoinedSoFar, ExceptionsAccounted, LaunchFits
<1> QED  BY <1>1, <1>2, <1>3, <1>4, <1>5, <1>6, <1>7

LEMMA RethrowKeeps ==
  ASSUME BoundsOK, PoolInd, Rethrow
  PROVE  PoolInd'
<1> USE DEF BoundsOK, PoolInd, PoolTypeOK, Ids, Entries, Alive, Rethrow, Begin, vector
<1>1. PoolTypeOK'  BY DEF LaunchFits
<1>2. LaunchFits'  BY DEF LaunchFits
<1>3. ThreadsOwned'  BY DEF ThreadsOwned, LaunchFits, ExceptionsAccounted, JoinedSoFar
<1>4. ExceptionsAccounted'  BY DEF ExceptionsAccounted, Placed, LaunchFits, JoinedSoFar, ThreadsOwned
<1>5. JoinedSoFar'  BY DEF JoinedSoFar, ExceptionsAccounted
<1>6. Placed'  BY DEF Placed, LaunchFits
<1>7. ReturnsClean'  BY DEF ReturnsClean, Placed, JoinedSoFar, ExceptionsAccounted, LaunchFits
<1> QED  BY <1>1, <1>2, <1>3, <1>4, <1>5, <1>6, <1>7

LEMMA RethrowNextKeeps ==
  ASSUME BoundsOK, PoolInd, RethrowNext
  PROVE  PoolInd'
<1> USE DEF BoundsOK, PoolInd, PoolTypeOK, Ids, Entries, Alive, RethrowNext, Joins
<1>1. PoolTypeOK'
  <2>1. CASE exception[at]  BY <2>1
  <2>2. CASE ~exception[at]  BY <2>2
  <2> QED  BY <2>1, <2>2
<1>2. LaunchFits'  BY DEF LaunchFits
<1>3. ThreadsOwned'  BY DEF ThreadsOwned, LaunchFits, ExceptionsAccounted, JoinedSoFar
<1>4. ExceptionsAccounted'  BY DEF ExceptionsAccounted, Placed, LaunchFits, JoinedSoFar, ThreadsOwned
<1>5. JoinedSoFar'  BY DEF JoinedSoFar, ExceptionsAccounted
<1>6. Placed'  BY DEF Placed, LaunchFits
<1>7. ReturnsClean'  BY DEF ReturnsClean, Placed, JoinedSoFar, ExceptionsAccounted, LaunchFits
<1> QED  BY <1>1, <1>2, <1>3, <1>4, <1>5, <1>6, <1>7

LEMMA RethrowDoneKeeps ==
  ASSUME BoundsOK, PoolInd, RethrowDone
  PROVE  PoolInd'
<1> USE DEF BoundsOK, PoolInd, PoolTypeOK, Ids, Entries, Alive, RethrowDone, vector
<1>1. PoolTypeOK'  BY DEF LaunchFits
<1>2. LaunchFits'  BY DEF LaunchFits
<1>3. ThreadsOwned'  BY DEF ThreadsOwned, LaunchFits, ExceptionsAccounted, JoinedSoFar
<1>4. ExceptionsAccounted'  BY DEF ExceptionsAccounted, Placed, LaunchFits, JoinedSoFar, ThreadsOwned
<1>5. JoinedSoFar'  BY DEF JoinedSoFar, ExceptionsAccounted
<1>6. Placed'  BY DEF Placed, LaunchFits
<1>7. ReturnsClean'  BY DEF ReturnsClean, Placed, JoinedSoFar, ExceptionsAccounted, LaunchFits
<1> QED  BY <1>1, <1>2, <1>3, <1>4, <1>5, <1>6, <1>7

LEMMA HaltAndClearKeeps ==
  ASSUME BoundsOK, PoolInd, NEW call \in {"clear", "exit"}, HaltAndClear(call)
  PROVE  PoolInd'
<1> USE DEF BoundsOK, PoolInd, PoolTypeOK, Ids, Entries, Alive, HaltAndClear, Begin, vector
<1>1. PoolTypeOK'  BY DEF LaunchFits
<1>2. LaunchFits'  BY DEF LaunchFits
<1>3. ThreadsOwned'  BY DEF ThreadsOwned, LaunchFits, ExceptionsAccounted, JoinedSoFar
<1>4. ExceptionsAccounted'  BY DEF ExceptionsAccounted, Placed, LaunchFits, JoinedSoFar, ThreadsOwned
<1>5. JoinedSoFar'  BY DEF JoinedSoFar, ExceptionsAccounted
<1>6. Placed'  BY DEF Placed, LaunchFits
<1>7. ReturnsClean'  BY DEF ReturnsClean, Placed, JoinedSoFar, ExceptionsAccounted, LaunchFits
<1> QED  BY <1>1, <1>2, <1>3, <1>4, <1>5, <1>6, <1>7

LEMMA JoinNextKeeps ==
  ASSUME BoundsOK, PoolInd, JoinNext
  PROVE  PoolInd'
<1> USE DEF BoundsOK, PoolInd, PoolTypeOK, Ids, Entries, Alive, JoinNext, Joins
<1>1. PoolTypeOK'  BY DEF LaunchFits
<1>2. LaunchFits'  BY DEF LaunchFits
<1>3. ThreadsOwned'  BY DEF ThreadsOwned, LaunchFits, ExceptionsAccounted, JoinedSoFar
<1>4. ExceptionsAccounted'  BY DEF ExceptionsAccounted, Placed, LaunchFits, JoinedSoFar, ThreadsOwned
<1>5. JoinedSoFar'  BY DEF JoinedSoFar, ExceptionsAccounted
<1>6. Placed'  BY DEF Placed, LaunchFits
<1>7. ReturnsClean'  BY DEF ReturnsClean, Placed, JoinedSoFar, ExceptionsAccounted, LaunchFits
<1> QED  BY <1>1, <1>2, <1>3, <1>4, <1>5, <1>6, <1>7

LEMMA ClearKeeps ==
  ASSUME BoundsOK, PoolInd, Clear
  PROVE  PoolInd'
<1> USE DEF BoundsOK, PoolInd, PoolTypeOK, Ids, Entries, Alive, Clear
<1>1. PoolTypeOK'  BY DEF LaunchFits
<1>2. LaunchFits'  BY DEF LaunchFits
<1>3. ThreadsOwned'  BY DEF ThreadsOwned, LaunchFits, ExceptionsAccounted, JoinedSoFar
<1>4. ExceptionsAccounted'  BY DEF ExceptionsAccounted, Placed, LaunchFits, JoinedSoFar, ThreadsOwned
<1>5. JoinedSoFar'  BY DEF JoinedSoFar, ExceptionsAccounted
<1>6. Placed'  BY DEF Placed, LaunchFits
<1>7. ReturnsClean'  BY DEF ReturnsClean, Placed, JoinedSoFar, ExceptionsAccounted, LaunchFits
<1> QED  BY <1>1, <1>2, <1>3, <1>4, <1>5, <1>6, <1>7

LEMMA PoolStep ==
  ASSUME BoundsOK, PoolInd, [PoolNext]_poolVars
  PROVE  PoolInd'
<1>1. CASE \E i \in Ids : Return(i) \/ Raise(i) \/ Store(i)
  BY <1>1, ReturnKeeps, RaiseKeeps, StoreKeeps
<1>2. CASE ClientGoesOn
  BY <1>2, StartThreadKeeps, EmplaceBackKeeps, RethrowNextKeeps, RethrowDoneKeeps, JoinNextKeeps,
     ClearKeeps DEF ClientGoesOn
<1>3. CASE ClientCalls
  <2>1. CASE \E l \in Limits : SetWorkerLimit(l)  BY <2>1, SetWorkerLimitKeeps
  <2>2. CASE \E flag \in BOOLEAN : SetRethrowOnExit(flag)  BY <2>2, SetRethrowOnExitKeeps
  <2>3. CASE Launch(1)  BY <2>3, LaunchKeeps
  <2>4. CASE limit > size /\ Launch(limit - size)
    <3>1. limit \in Nat /\ size \in Nat
      BY DEF PoolInd, PoolTypeOK, BoundsOK
    <3>2. limit - size \in Nat  BY <2>4, <3>1
    <3> QED  BY <2>4, <3>2, LaunchKeeps
  <2>5. CASE Halt \/ Rethrow  BY <2>5, HaltKeeps, RethrowKeeps
  <2>6. CASE \E call \in {"clear", "exit"} : HaltAndClear(call)  BY <2>6, HaltAndClearKeeps
  <2> QED  BY <1>3, <2>1, <2>2, <2>3, <2>4, <2>5, <2>6 DEF ClientCalls
<1>4. CASE UNCHANGED poolVars
  BY <1>4 DEF poolVars, client, vector, PoolInd, PoolTypeOK, LaunchFits, ThreadsOwned,
     ExceptionsAccounted, JoinedSoFar, Placed, ReturnsClean, Ids, Entries, Alive
<1> QED  BY <1>1, <1>2, <1>3, <1>4 DEF PoolNext

\* The invariant, for every behaviour of a pool.
LEMMA PoolInductive == PoolSpec => []PoolInd
<1> BoundsOK  BY PoolParameters DEF PoolParameters
<1>1. PoolInit => PoolInd  BY PoolInitial
<1>2. PoolInd /\ [PoolNext]_poolVars => PoolInd'  BY PoolStep
<1> QED  BY <1>1, <1>2, PTL DEF PoolSpec

\* The variables of a pool have their types, whatever is called on it.
THEOREM PoolTypes == PoolSpec => []PoolTypeOK
<1>1. PoolInd => PoolTypeOK  BY DEF PoolInd
<1> QED  BY <1>1, PoolInductive, PTL

\* However many threads there are, a thread that runs can always be joined:
\* no running thread is dropped, neither by clear() nor by the destructor.
THEOREM NoThreadLeftBehind == PoolSpec => []ThreadsOwned
<1>1. PoolInd => ThreadsOwned  BY DEF PoolInd
<1> QED  BY <1>1, PoolInductive, PTL

\* An entry holds exactly the exception its thread has stored and nobody has
\* thrown yet, however many threads throw at once.
THEOREM ExceptionsAlwaysAccounted == PoolSpec => []ExceptionsAccounted
<1>1. PoolInd => ExceptionsAccounted  BY DEF PoolInd
<1> QED  BY <1>1, PoolInductive, PTL

\* rethrow_exceptions() that returns after a stop has joined every thread and
\* has overlooked no exception.
THEOREM CleanReturnIsClean == PoolSpec => []ReturnsClean
<1>1. PoolInd => ReturnsClean  BY DEF PoolInd
<1> QED  BY <1>1, PoolInductive, PTL

-----------------------------------------------------------------------------
(* The ticks of a StatsTracker come in order, and the last one is the      *)
(* last.  A tick goes forward because of when its numbers were copied:     *)
(* after the tick before it, by the one thread that ticks at the time,     *)
(* unless the execution was stopped.                                       *)

Numbers ==
  /\ stats \in 0..Jobs /\ final \in Nat /\ copy \in Nat /\ prev \in Nat
  /\ poolStop \in BOOLEAN /\ again \in BOOLEAN /\ shown \in Nat \union {Nothing}

\* What was shown of this execution is what the last tick had.  If nothing was,
\* the last tick is one of an execution before, or there was none that had
\* anything to show.
Remembered ==
  /\ shown # Nothing => prev = shown /\ shown <= stats
  /\ shown = Nothing => again \/ prev = 0

\* The numbers on their way to a tick are at least those of the tick before.
InOrder ==
  /\ thread \in {"copied", "tick"} =>
       copy <= stats /\ (shown = Nothing \/ poolStop \/ shown <= copy)
  /\ master \in {"woken", "join", "tick"} => final <= stats /\ (final = Jobs \/ poolStop)

\* wait_for_all_tasks() ticks alone, and leaves no thread.  There was a job.
Alone ==
  /\ master \in {"started", "woken", "join", "tick"} => Jobs # 0
  /\ master \in {"tick", "returned"} => thread = "none"
  /\ master = "returned" => shown = Jobs \/ (shown = Nothing /\ again)

TrackInd == Numbers /\ Remembered /\ InOrder /\ Alone

\* Before the first execution.
LEMMA TrackInitial ==
  ASSUME JobsOK, TrackInit
  PROVE  TrackInd
<1> USE DEF JobsOK, TrackInit
<1>1. stats \in 0..Jobs /\ final \in Nat /\ copy \in Nat /\ prev \in Nat  OBVIOUS
<1>2. poolStop \in BOOLEAN /\ again \in BOOLEAN  BY Zenon
<1>3. InOrder  BY DEF InOrder
<1>4. Alone  BY DEF Alone
<1>5. shown = Nothing /\ Remembered  BY DEF Remembered
<1> QED  BY <1>1, <1>2, <1>3, <1>4, <1>5 DEF TrackInd, Numbers

-----------------------------------------------------------------------------
\* Every action, those of the thread while the master is anywhere too, keeps
\* the numbers in order.
LEMMA TrackStep ==
  ASSUME JobsOK, TrackInd, [TrackNext]_trackVars
  PROVE  TrackInd'
<1> USE DEF JobsOK, TrackInd, Numbers, Remembered, InOrder, Alone, trackerThread, tracker, Nothing
<1>1. CASE Report  BY <1>1 DEF Report
<1>2. CASE WorkerThrows  BY <1>2 DEF WorkerThrows
<1>3. CASE LookAtPool  BY <1>3 DEF LookAtPool
<1>4. CASE Copy  BY <1>4 DEF Copy
<1>5. CASE Check  BY <1>5 DEF Check
<1>6. CASE Tick  BY <1>6 DEF Tick, TickEnds, Shows
<1>7. CASE TickFails  BY <1>7 DEF TickFails, TickThrows
<1>8. CASE Start  BY <1>8 DEF Start
<1>9. CASE Relaunch  BY <1>9 DEF Relaunch
<1>10. CASE Launched  BY <1>10 DEF Launched, Joined
<1>11. CASE SetTracker  BY <1>11 DEF SetTracker
<1>12. CASE TrackerSet  BY <1>12 DEF TrackerSet, Joined
<1>13. CASE HaltTracker  BY <1>13 DEF HaltTracker
<1>14. CASE Awake  BY <1>14 DEF Awake
<1>15. CASE StopThread  BY <1>15 DEF StopThread
<1>16. CASE JoinThread  BY <1>16 DEF JoinThread, Joined
<1>17. CASE LastTick  BY <1>17 DEF LastTick, TickEnds, Shows, AfterTick
<1>18. CASE LastTickFails  BY <1>18 DEF LastTickFails, TickThrows
<1>19. CASE Reset  BY <1>19 DEF Reset
<1>20. CASE Abort  BY <1>20 DEF Abort
<1>21. CASE Aborted  BY <1>21 DEF Aborted, Joined
<1>22. CASE UNCHANGED trackVars  BY <1>22 DEF trackVars
<1> QED
  BY <1>1, <1>2, <1>3, <1>4, <1>5, <1>6, <1>7, <1>8, <1>9, <1>10, <1>11,
     <1>12, <1>13, <1>14, <1>15, <1>16, <1>17, <1>18, <1>19, <1>20, <1>21,
     <1>22
  DEF TrackNext, ThreadStep, MasterGoesOn, MasterCalls

\* The invariant, for every behaviour of a tracker.
LEMMA TrackInductive == TrackSpec => []TrackInd
<1> JobsOK  BY TrackParameters DEF TrackParameters
<1>1. TrackInit => TrackInd  BY TrackInitial
<1>2. TrackInd /\ [TrackNext]_trackVars => TrackInd'  BY TrackStep
<1> QED  BY <1>1, <1>2, PTL DEF TrackSpec

-----------------------------------------------------------------------------
\* Whatever the tracker thread was doing, when a wait returns the complete
\* numbers are the last that were shown of the execution, unless the tracker
\* had shown the same at the end of one before and nothing of this one; and no
\* tick can follow.
THEOREM LastTickIsFinal == TrackSpec => []LastTickFinal
<1>1. TrackInd => LastTickFinal  BY DEF TrackInd, Alone, LastTickFinal, Joined
<1> QED  BY <1>1, TrackInductive, PTL

\* A step that shows less than was shown before begins with a new execution
\* or tracker, or comes after a stop.
LEMMA StepForward ==
  ASSUME JobsOK, TrackInd, TrackNext, shown' < shown
  PROVE  shown' = Nothing \/ poolStop
<1> USE DEF JobsOK, TrackInd, Numbers, Remembered, InOrder, trackerThread, tracker, Nothing
<1>1. CASE Tick  BY <1>1 DEF Tick, TickEnds
<1>2. CASE LastTick
  <2>1. final = Jobs \/ poolStop  BY <1>2 DEF LastTick
  <2>2. shown' = final \/ shown' = shown  BY <1>2 DEF LastTick, TickEnds
  <2> QED  BY <2>1, <2>2
<1>3. CASE TrackerSet  BY <1>3 DEF TrackerSet
<1>4. CASE Reset  BY <1>4 DEF Reset
<1>5. CASE shown' = shown  BY <1>5
<1>6. TrackNext => Tick \/ LastTick \/ TrackerSet \/ Reset \/ shown' = shown
  BY DEF TrackNext, ThreadStep, MasterGoesOn, MasterCalls, Report, WorkerThrows, LookAtPool, Copy,
     Check, TickFails, TickThrows, Start, Relaunch, Launched, SetTracker, HaltTracker, Awake,
     StopThread, JoinThread, LastTickFails, Abort, Aborted
<1> QED  BY <1>1, <1>2, <1>3, <1>4, <1>5, <1>6

\* The numbers that are shown of an execution never go back, unless it is
\* stopped.
THEOREM TicksAlwaysForward == TrackSpec => TicksForward
<1> JobsOK  BY TrackParameters DEF TrackParameters
<1>1. TrackInd /\ [TrackNext]_trackVars
        => [shown' < shown => shown' = Nothing \/ poolStop]_trackVars
  BY StepForward
<1> QED  BY <1>1, TrackInductive, PTL DEF TrackSpec, TicksForward

-----------------------------------------------------------------------------
(* for_each is honest.                                                     *)

EachTypeOK ==
  /\ policy \in {"abort", "proceed"}
  /\ pending \subseteq Items /\ called \subseteq Items
  /\ place \in [Threads -> {"outside", "check", "call", "func", "catch"}]
  /\ arg \in [Threads -> Items \union {None}]
  /\ kept \in Items \union {None}
  /\ late \in [Threads -> Nat]

\* A thread in the wrapper has an element; proceed looks for no exception.
InWrapper ==
  \A t \in Threads : /\ place[t] # "outside" => arg[t] \in Items
                     /\ place[t] = "check" => policy = "abort"

\* An exception that was thrown is kept, or some thread is about to keep it.
Caught ==
  /\ kept # None => kept \in thrown
  /\ \A t \in Threads : place[t] = "catch" => arg[t] \in thrown
  /\ thrown # {} => kept # None \/ \E t \in Threads : place[t] = "catch"

\* No element is passed over as long as there is no reason for it.
NoneSkipped ==
  policy = "proceed" \/ kept = None =>
    \A e \in Items : \/ e \in pending \union called
                     \/ \E t \in Threads : place[t] \in {"check", "call"} /\ arg[t] = e

Ended ==
  result # "running" =>
    /\ pending = {} /\ \A t \in Threads : place[t] = "outside"
    /\ result = IF kept = None THEN "returned" ELSE kept

\* Of the calls after the exception each thread has at most the one it had
\* looked for before, and the thread that kept the exception has none.
LateCalls ==
  policy = "abort" =>
    /\ \A t \in Threads : /\ late[t] <= 1
                          /\ kept = None \/ place[t] = "call" => late[t] = 0
    /\ \E t \in Threads : late[t] = 0 /\ (kept # None => place[t] # "call")

EachInd == EachTypeOK /\ InWrapper /\ Caught /\ NoneSkipped /\ Ended /\ LateCalls

\* Before the first element, and then action by action.
LEMMA EachInitial ==
  ASSUME SetsOK, EachInit
  PROVE  EachInd
<1> USE DEF SetsOK, EachInit
<1>1. EachTypeOK  BY DEF EachTypeOK
<1>2. InWrapper /\ Caught /\ NoneSkipped /\ Ended
  BY DEF InWrapper, Caught, NoneSkipped, Ended
<1>3. LateCalls  BY DEF LateCalls
<1> QED  BY <1>1, <1>2, <1>3 DEF EachInd

-----------------------------------------------------------------------------
LEMMA VisitKeeps ==
  ASSUME SetsOK, EachInd, NEW t \in Threads, NEW e \in Items, Visit(t, e)
  PROVE  EachInd'
<1> USE DEF SetsOK, EachInd, EachTypeOK, Visit, Goto
<1>1. EachTypeOK'  OBVIOUS
<1>2. InWrapper'  BY DEF InWrapper
<1>3. Caught'  BY DEF Caught
<1>4. NoneSkipped'
  <2>1. place[t] = "outside" /\ arg'[t] = e /\ place'[t] \in {"check", "call"}  OBVIOUS
  <2>2. \A u \in Threads : u # t => place'[u] = place[u] /\ arg'[u] = arg[u]  OBVIOUS
  <2> QED  BY <2>1, <2>2 DEF NoneSkipped
<1>5. Ended'  BY DEF Ended
<1>6. LateCalls'  BY DEF LateCalls
<1> QED  BY <1>1, <1>2, <1>3, <1>4, <1>5, <1>6

LEMMA LookKeeps ==
  ASSUME SetsOK, EachInd, NEW t \in Threads, Look(t)
  PROVE  EachInd'
<1> USE DEF SetsOK, EachInd, EachTypeOK, Look, Goto
<1>1. EachTypeOK'  OBVIOUS
<1>2. InWrapper'  BY DEF InWrapper
<1>3. Caught'  BY DEF Caught
<1>4. NoneSkipped'  BY DEF NoneSkipped, InWrapper
<1>5. Ended'  BY DEF Ended
<1>6. LateCalls'  BY DEF LateCalls
<1> QED  BY <1>1, <1>2, <1>3, <1>4, <1>5, <1>6

LEMMA CallKeeps ==
  ASSUME SetsOK, EachInd, NEW t \in Threads, Call(t)
  PROVE  EachInd'
<1> USE DEF SetsOK, EachInd, EachTypeOK, Call, Goto
<1>1. EachTypeOK'  BY DEF InWrapper
<1>2. InWrapper'  BY DEF InWrapper
<1>3. Caught'  BY DEF Caught
<1>4. NoneSkipped'  BY DEF NoneSkipped
<1>5. Ended'  BY DEF Ended
<1>6. LateCalls'  BY DEF LateCalls
<1> QED  BY <1>1, <1>2, <1>3, <1>4, <1>5, <1>6

LEMMA ReturnsKeeps ==
  ASSUME SetsOK, EachInd, NEW t \in Threads, Returns(t)
  PROVE  EachInd'
<1> USE DEF SetsOK, EachInd, EachTypeOK, Returns, Goto
<1>1. EachTypeOK'  OBVIOUS
<1>2. InWrapper'  BY DEF InWrapper
<1>3. Caught'  BY DEF Caught
<1>4. NoneSkipped'  BY DEF NoneSkipped
<1>5. Ended'  BY DEF Ended
<1>6. LateCalls'  BY DEF LateCalls
<1> QED  BY <1>1, <1>2, <1>3, <1>4, <1>5, <1>6

LEMMA ThrowsKeeps ==
  ASSUME SetsOK, EachInd, NEW t \in Threads, Throws(t)
  PROVE  EachInd'
<1> USE DEF SetsOK, EachInd, EachTypeOK, Throws, Goto
<1>1. EachTypeOK'  OBVIOUS
<1>2. InWrapper'  BY DEF InWrapper
<1>3. Caught'  BY DEF Caught
<1>4. NoneSkipped'  BY DEF NoneSkipped
<1>5. Ended'  BY DEF Ended
<1>6. LateCalls'  BY DEF LateCalls
<1> QED  BY <1>1, <1>2, <1>3, <1>4, <1>5, <1>6

LEMMA CatchKeeps ==
  ASSUME SetsOK, EachInd, NEW t \in Threads, Catch(t)
  PROVE  EachInd'
<1> USE DEF SetsOK, EachInd, EachTypeOK, Catch, Goto
<1>1. arg[t] \in Items  BY DEF InWrapper
<1>2. EachTypeOK'  BY <1>1
<1>3. InWrapper'  BY DEF InWrapper
<1>4. Caught'  BY <1>1 DEF Caught
<1>5. NoneSkipped'  BY <1>1 DEF NoneSkipped
<1>6. Ended'  BY DEF Ended
<1>7. LateCalls'  BY <1>1 DEF LateCalls
<1> QED  BY <1>2, <1>3, <1>4, <1>5, <1>6, <1>7

LEMMA FinishKeeps ==
  ASSUME SetsOK, EachInd, Finish
  PROVE  EachInd'
BY DEF EachInd, EachTypeOK, InWrapper, Caught, NoneSkipped, Ended, LateCalls, Finish

\* The invariant, for every behaviour of the loop.
LEMMA EachInductive == EachSpec => []EachInd
<1> SetsOK  BY EachParameters DEF EachParameters
<1>1. EachInit => EachInd  BY EachInitial
<1>2. EachInd /\ [EachNext]_eachVars => EachInd'
  <2> SUFFICES ASSUME EachInd, [EachNext]_eachVars PROVE EachInd'  OBVIOUS
  <2>1. CASE EachNext
    BY <2>1, VisitKeeps, LookKeeps, CallKeeps, ReturnsKeeps, ThrowsKeeps, CatchKeeps, FinishKeeps
    DEF EachNext
  <2>2. CASE UNCHANGED eachVars
    BY <2>2 DEF eachVars, EachInd, EachTypeOK, InWrapper, Caught, NoneSkipped, Ended, LateCalls
  <2> QED  BY <2>1, <2>2
<1> QED  BY <1>1, <1>2, PTL DEF EachSpec

-----------------------------------------------------------------------------
\* However many threads there are and however their handlers interleave, the
\* loop throws exactly if a call threw, passes no element over without reason,
\* and under abort calls at most one more on every other thread.
THEOREM AlwaysHonest == EachSpec => []OutcomeHonest
<1> SetsOK  BY EachParameters DEF EachParameters
<1>1. EachInd => OutcomeHonest
  <2> SUFFICES ASSUME EachInd PROVE OutcomeHonest  OBVIOUS
  <2> USE DEF SetsOK, EachInd, EachTypeOK
  <2>1. ASSUME result # "running" PROVE result = "returned" <=> thrown = {}
    BY <2>1 DEF Ended, Caught
  <2>2. ASSUME result # "running", thrown # {} PROVE result \in thrown
    BY <2>2 DEF Ended, Caught
  <2>3. ASSUME result # "running", policy = "proceed" \/ thrown = {} PROVE called = Items
    BY <2>3 DEF Ended, Caught, NoneSkipped
  <2>4. policy = "abort" =>
          (\A t \in Threads : late[t] <= 1) /\ \E t \in Threads : late[t] = 0
    BY DEF LateCalls
  <2> QED  BY <2>1, <2>2, <2>3, <2>4 DEF OutcomeHonest
<1> QED  BY <1>1, EachInductive, PTL
=============================================================================
