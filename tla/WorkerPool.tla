----------------------------- MODULE WorkerPool -----------------------------
(***************************************************************************)
(* yk::exec::worker_pool: the vector threads_ of threads and exceptions,   *)
(* the one stop_source_, and the calls that join.  Scheduler models what a *)
(* worker does; here a worker function runs, and returns or throws.        *)
(*                                                                         *)
(* One client calls the pool.  A worker is known by its place in threads_. *)
(* launch() starts the thread first and stores it in threads_ afterwards,  *)
(* and a worker that throws writes into threads_ whenever it likes.        *)
(***************************************************************************)
EXTENDS Naturals

CONSTANTS Limits,      \* values of worker_limit_
          MaxThreads   \* bound: entries of threads_

BoundsOK == MaxThreads \in Nat /\ Limits \subseteq Nat

ASSUME PoolParameters == BoundsOK

VARIABLES pc,          \* the client's call
          rest,        \* launches the call still makes
          at,          \* the entry the call looks at next
          limit,       \* worker_limit_
          onExit,      \* rethrow_exceptions_on_exit_
          stop,        \* stop_source_
          size,        \* threads_.size()
          joinable,    \* the entries' threads
          exception,   \* the entries' exceptions, as whether there is one
          last,        \* first_exception of halt_and_clear_impl, by its entry
          run,         \* run[i]: what the thread of entry i is doing
          outcome,     \* how the last rethrow_exceptions() ended
          fate         \* history: what became of the exception thread i threw

vector == <<size, joinable, exception>>
client == <<pc, rest, at, limit, onExit, last, outcome>>
poolVars == <<client, vector, stop, run, fate>>

Ids == 1..MaxThreads
Entries == 1..size
Alive(i) == run[i] \in {"running", "throwing"}

PoolInit ==
  /\ pc = "idle" /\ rest = 0 /\ at = 1 /\ last = 0 /\ outcome = "none"
  /\ limit \in Limits /\ onExit = TRUE /\ stop = FALSE
  /\ size = 0
  /\ joinable = [i \in Ids |-> FALSE] /\ exception = [i \in Ids |-> FALSE]
  /\ run = [i \in Ids |-> "none"] /\ fate = [i \in Ids |-> "none"]

-----------------------------------------------------------------------------
(* The thread of one entry *)

Return(i) ==
  /\ run[i] = "running"
  /\ run' = [run EXCEPT ![i] = "exited"]
  /\ UNCHANGED <<client, vector, stop, fate>>

\* The handler asks everybody to stop first ...
Raise(i) ==
  /\ run[i] = "running"
  /\ run' = [run EXCEPT ![i] = "throwing"]
  /\ stop' = TRUE
  /\ UNCHANGED <<client, vector, fate>>

\* ... and then stores the exception.  While a launch puts an entry into
\* threads_ its own entry may not be there yet, or be in storage that is being
\* replaced (a data race): then the exception is lost, or may be.
Store(i) ==
  /\ run[i] = "throwing"
  /\ run' = [run EXCEPT ![i] = "exited"]
  /\ \/ /\ i \in Entries
        /\ exception' = [exception EXCEPT ![i] = TRUE]
        /\ fate' = [fate EXCEPT ![i] = "kept"]
     \/ /\ pc = "emplace"
        /\ fate' = [fate EXCEPT ![i] = "lost"]
        /\ UNCHANGED exception
  /\ UNCHANGED <<client, size, joinable, stop>>

-----------------------------------------------------------------------------
(* The client's calls *)

Begin(call) == pc = "idle" /\ pc' = call /\ outcome' = "none"

SetWorkerLimit(l) ==
  /\ pc = "idle" /\ l >= 2
  /\ limit' = l
  /\ UNCHANGED <<pc, rest, at, onExit, last, outcome, vector, stop, run, fate>>

SetRethrowOnExit(flag) ==
  /\ pc = "idle"
  /\ onExit' = flag
  /\ UNCHANGED <<pc, rest, at, limit, last, outcome, vector, stop, run, fate>>

\* launch(), or launch_rest(): as many as are missing from the limit, counting
\* the entries of threads that have exited.
Launch(n) ==
  /\ n > 0 /\ size + n <= MaxThreads
  /\ Begin("launch")
  /\ rest' = n
  /\ UNCHANGED <<at, limit, onExit, last, vector, stop, run, fate>>

StartThread ==
  /\ pc = "launch" /\ pc' = "emplace"
  /\ run' = [run EXCEPT ![size + 1] = "running"]
  /\ UNCHANGED <<rest, at, limit, onExit, last, outcome, vector, stop, fate>>

EmplaceBack ==
  /\ pc = "emplace"
  /\ size' = size + 1
  /\ joinable' = [joinable EXCEPT ![size + 1] = TRUE]
  /\ rest' = rest - 1
  /\ pc' = IF rest = 1 THEN "idle" ELSE "launch"
  /\ UNCHANGED <<at, limit, onExit, last, outcome, exception, stop, run, fate>>

Halt ==
  /\ Begin("idle")
  /\ stop' = TRUE
  /\ UNCHANGED <<rest, at, limit, onExit, last, vector, run, fate>>

\* rethrow_exceptions(): nothing to do unless a stop was requested.
Rethrow ==
  /\ stop /\ Begin("rethrow")
  /\ at' = 1
  /\ UNCHANGED <<rest, limit, onExit, last, vector, stop, run, fate>>

Joins(i) == i \in Entries /\ (joinable[i] => run[i] = "exited")

\* Mutant of RethrowNext: the entry keeps the exception.
RethrowNext_Keeps ==
  /\ pc = "rethrow" /\ Joins(at)
  /\ joinable' = [joinable EXCEPT ![at] = FALSE]
  /\ IF exception[at]
     THEN fate' = [fate EXCEPT ![at] = "rethrown"] /\ pc' = "idle" /\ outcome' = "threw" /\ UNCHANGED at
     ELSE at' = at + 1 /\ UNCHANGED <<fate, pc, outcome>>
  /\ UNCHANGED <<rest, limit, onExit, last, size, exception, stop, run>>

\* Mutant of RethrowNext: looks for an exception, then joins that thread.
RethrowNext_Early ==
  /\ pc = "rethrow" /\ at <= size
  /\ IF exception[at]
     THEN /\ joinable' = [joinable EXCEPT ![at] = FALSE]
          /\ exception' = [exception EXCEPT ![at] = FALSE]
          /\ fate' = [fate EXCEPT ![at] = "rethrown"]
          /\ pc' = "idle" /\ outcome' = "threw"
          /\ UNCHANGED at
     ELSE at' = at + 1 /\ UNCHANGED <<joinable, exception, fate, pc, outcome>>
  /\ UNCHANGED <<rest, limit, onExit, last, size, stop, run>>

\* Each thread is joined before its exception is looked at; the first found is
\* taken out and thrown, and the threads after it are left as they are.
RethrowNext ==
  /\ pc = "rethrow" /\ Joins(at)
  /\ joinable' = [joinable EXCEPT ![at] = FALSE]
  /\ IF exception[at]
     THEN /\ exception' = [exception EXCEPT ![at] = FALSE]
          /\ fate' = [fate EXCEPT ![at] = "rethrown"]
          /\ pc' = "idle" /\ outcome' = "threw"
          /\ UNCHANGED at
     ELSE at' = at + 1 /\ UNCHANGED <<exception, fate, pc, outcome>>
  /\ UNCHANGED <<rest, limit, onExit, last, size, stop, run>>

RethrowDone ==
  /\ pc = "rethrow" /\ at > size
  /\ pc' = "idle" /\ outcome' = "clean"
  /\ UNCHANGED <<rest, at, limit, onExit, last, vector, stop, run, fate>>

\* Mutant of HaltAndClear: joins without halt().
HaltAndClear_Unhalted(call) ==
  /\ Begin(call)
  /\ at' = 1 /\ last' = 0
  /\ UNCHANGED <<rest, limit, onExit, vector, stop, run, fate>>

\* halt_and_clear(), or the destructor.
HaltAndClear(call) ==
  /\ Begin(call)
  /\ stop' = TRUE /\ at' = 1 /\ last' = 0
  /\ UNCHANGED <<rest, limit, onExit, vector, run, fate>>

\* What was joined before is passed over.  The destructor remembers an
\* exception, and then the next one instead.
JoinNext ==
  /\ pc \in {"clear", "exit"} /\ Joins(at)
  /\ joinable' = [joinable EXCEPT ![at] = FALSE]
  /\ last' = IF pc = "exit" /\ joinable[at] /\ onExit /\ exception[at] THEN at ELSE last
  /\ at' = at + 1
  /\ UNCHANGED <<pc, rest, limit, onExit, outcome, size, exception, stop, run, fate>>

\* threads_.clear().  A destructor is noexcept: rethrowing from it terminates.
Clear ==
  /\ pc \in {"clear", "exit"} /\ at > size
  /\ pc' = IF pc = "clear" THEN "idle" ELSE IF last = 0 THEN "destroyed" ELSE "terminated"
  /\ size' = 0
  /\ joinable' = [i \in Ids |-> FALSE] /\ exception' = [i \in Ids |-> FALSE]
  /\ run' = [i \in Ids |-> IF Alive(i) THEN run[i] ELSE "none"]
  /\ fate' = [i \in Ids |-> "none"]
  /\ UNCHANGED <<rest, at, limit, onExit, last, outcome, stop>>

ClientGoesOn ==
  StartThread \/ EmplaceBack \/ RethrowNext \/ RethrowDone \/ JoinNext \/ Clear

ClientCalls ==
  \/ \E l \in Limits : SetWorkerLimit(l)
  \/ \E flag \in BOOLEAN : SetRethrowOnExit(flag)
  \/ Launch(1) \/ (limit > size /\ Launch(limit - size))
  \/ Halt \/ Rethrow
  \/ \E call \in {"clear", "exit"} : HaltAndClear(call)

PoolNext ==
  \/ \E i \in Ids : Return(i) \/ Raise(i) \/ Store(i)
  \/ ClientGoesOn \/ ClientCalls

\* A worker function comes to an end once it can see the stop.
Leaves(i) == Store(i) \/ (stop /\ Return(i))

PoolFairness == WF_poolVars(ClientGoesOn) /\ \A i \in Ids : WF_poolVars(Leaves(i))

PoolSpec == PoolInit /\ [][PoolNext]_poolVars /\ PoolFairness

-----------------------------------------------------------------------------
PoolTypeOK ==
  /\ pc \in {"idle", "launch", "emplace", "rethrow", "clear", "exit", "destroyed", "terminated"}
  /\ rest \in Nat /\ at \in Nat /\ last \in Nat /\ limit \in Limits
  /\ onExit \in BOOLEAN /\ stop \in BOOLEAN
  /\ size \in 0..MaxThreads
  /\ joinable \in [Ids -> BOOLEAN] /\ exception \in [Ids -> BOOLEAN]
  /\ run \in [Ids -> {"none", "running", "throwing", "exited"}]
  /\ outcome \in {"none", "threw", "clean"}
  /\ fate \in [Ids -> {"none", "kept", "lost", "rethrown"}]

\* No thread is left behind: one that runs has a joinable entry of its own, so
\* neither clear() nor the destructor drops a running thread, whose handler
\* would write into freed storage.  Only the one being launched has none yet.
ThreadsOwned ==
  \A i \in Ids : Alive(i) => \/ i \in Entries /\ joinable[i]
                             \/ pc = "emplace" /\ i = size + 1

\* An exception is in one place until the entries are cleared: its entry holds
\* it until rethrow_exceptions() throws it, once; only a launch can lose it.
ExceptionsAccounted ==
  \A i \in Ids :
    /\ exception[i] <=> fate[i] = "kept"
    /\ exception[i] => run[i] = "exited" /\ stop
    /\ i \in Entries /\ ~joinable[i] => run[i] = "exited"

\* When rethrow_exceptions() returns after a stop all threads have been joined
\* and no exception waits in an entry: none was looked at too early.
ReturnsClean ==
  outcome = "clean" => \A i \in Entries : run[i] = "exited" /\ ~joinable[i] /\ ~exception[i]

\* Every call comes back, or ends the pool: the joins wait for threads that
\* have been told to stop.
PoolCallsReturn == pc \notin {"idle", "destroyed", "terminated"}
                     ~> pc \in {"idle", "destroyed", "terminated"}
=============================================================================
