----------------------------- MODULE Scheduler ------------------------------
(***************************************************************************)
(* yk::exec::scheduler (src/include/yk/exec/scheduler.hpp) with its        *)
(* statistics (scheduler_stats.hpp), its queue gates (queue_gate.hpp) and  *)
(* as much of the worker_pool as it drives.                                *)
(*                                                                         *)
(* The master thread starts a fixed consumer, a fixed producer and dynamic *)
(* workers that change sides, then waits until the statistics say that all *)
(* is done.  Workers take chunks of the inputs, push what producer_func    *)
(* makes of them into a bounded queue and pop it again for consumer_func.  *)
(* They report what they did only after a whole chunk or consumer call,    *)
(* under stats_mtx_: completion is a matter of counting.                   *)
(*                                                                         *)
(* A critical section of stats_mtx_ (and producer_input_mtx_) is one       *)
(* action, and so is one push or pop, which waits while the queue is full  *)
(* or empty as module AwaitQueue allows (CvQueue implements that; with the *)
(* atomic_queue "closed" is a stop requested of queue_stop_source_).       *)
(***************************************************************************)
EXTENDS Integers, FiniteSets

CONSTANTS
    Limit,      \* worker_limit_ of the pool
    Inputs,     \* number of producer inputs
    ChunkSize,  \* producer_chunk_size_
    Capacity,   \* capacity of the queue
    MultiPush,  \* traits_type::is_multi_push: the producer gates count
    MultiPop,   \* traits_type::is_multi_pop: the consumer gates count
    Debug,      \* ~ NDEBUG: gates that do not count reject a second access
    Pushes,     \* how many values producer_func may push for one input
    Pops,       \* how many values one call of consumer_func may pop
    CanThrow,   \* whether producer_func and consumer_func may throw
    CanHalt,    \* whether somebody may call worker_pool::halt()
    Runs        \* bound: how often the master calls start()

ASSUME ConstantTypes ==
    /\ Limit \in Nat /\ Limit >= 2      \* set_worker_limit throws below 2
    /\ Inputs \in Nat
    /\ ChunkSize \in Nat \ {0}          \* set_producer_chunk_size throws below 1
    /\ Capacity \in Nat \ {0}
    /\ {MultiPush, MultiPop, Debug, CanThrow, CanHalt} \subseteq BOOLEAN
    /\ Pushes \subseteq Nat
    /\ Pops \subseteq Nat \ {0}
    /\ Runs \in Nat \ {0}

(* Pushing through a gate that was discarded for an earlier input of the   *)
(* chunk would dereference its null queue pointer: undefined behaviour.    *)
ASSUME GateAlive == ~MultiPush /\ ChunkSize > 1 => 0 \notin Pushes

VARIABLES
    master,      \* where the master thread is
    joined,      \* workers rethrow_exceptions() has joined so far
    runs,        \* how often start() has launched workers
    launched,    \* threads_.size() of the pool
    stop,        \* the pool's stop_source_ was asked to stop
    inputsLeft,  \* inputs from last_producer_input_it_ to the end
    stats,       \* stats_
    queued,      \* values in queue_
    closed,      \* queue_ was closed by close_queue()
    pc,          \* pc[w]: where worker w is
    mode,        \* mode[w]: worker_mode
    count,       \* count[w]: inputs of w's chunk
    chunk,       \* chunk[w]: inputs of the chunk not yet given to producer_func
    todo,        \* todo[w]: accesses the running user function still makes
    gate,        \* gate[w]: accesses through the gate (count_)
    discarded,   \* discarded[w]: the gate's queue_ is null
    moved,       \* history: moved[w], accesses that pushed or popped a value
    fault        \* fault[w]: the exception worker w ended with

masterVars == <<master, joined, runs, launched>>
workerVars == <<pc, mode, count, chunk, todo, gate, discarded, moved, fault>>
sharedVars == <<stop, inputsLeft, stats, queued, closed>>
vars == <<masterVars, workerVars, sharedVars>>

(* A later start() launches a fixed consumer and a fixed producer again,   *)
(* and launch_rest finds nothing left to launch.                           *)
Workers == 1..Limit + 2 * (Runs - 1)

FixedConsumers == {1} \union {w \in Workers : w > Limit /\ (w - Limit) % 2 = 1}
FixedProducers == {2} \union {w \in Workers : w > Limit /\ (w - Limit) % 2 = 0}

(* scheduler_stats, as its constructor leaves it.                          *)
NewStats == [consumed |-> 0, processed |-> 0, output |-> 0, input |-> 0,
             consumedAll |-> FALSE, processedAll |-> FALSE]

(* is_all_task_done()                                                      *)
Done(s) == s.processedAll /\ s.input = s.output
AllTaskDone == Done(stats)

Init ==
    /\ master = "new" /\ joined = 0 /\ runs = 0 /\ launched = 0
    /\ stop = FALSE
    /\ inputsLeft = Inputs
    /\ stats = NewStats
    /\ queued = 0
    /\ closed = FALSE
    /\ pc = [w \in Workers |-> "none"]
    /\ mode = [w \in Workers |-> IF w \in FixedConsumers THEN "consumer" ELSE "producer"]
    /\ count = [w \in Workers |-> 0]
    /\ chunk = [w \in Workers |-> 0]
    /\ todo = [w \in Workers |-> 0]
    /\ gate = [w \in Workers |-> 0]
    /\ discarded = [w \in Workers |-> FALSE]
    /\ moved = [w \in Workers |-> 0]
    /\ fault = [w \in Workers |-> "none"]

Goto(w, l) == pc' = [pc EXCEPT ![w] = l]

(* A stop request and a completed task both wake the master: one through   *)
(* the stop_token it waits with, the other through task_done_cv_.          *)
WakeMaster == master' = IF master = "asleep" THEN "wait" ELSE master

(* The pool's handler around the worker function: ask everybody to stop    *)
(* and keep the exception.  The call's gate and chunk are lost with it.    *)
Throw(w, what) ==
    /\ Goto(w, "exited")
    /\ fault' = [fault EXCEPT ![w] = what]
    /\ stop' = TRUE
    /\ WakeMaster
    /\ UNCHANGED <<joined, runs, launched, inputsLeft, stats, queued, closed,
                   mode, count, chunk, todo, gate, discarded, moved>>

-----------------------------------------------------------------------------
(* The worker loops: fixed_consumer, fixed_producer and dynamic_worker     *)
(* look at the stop_token between two calls.                               *)

Leave(w) ==
    /\ pc[w] = "loop"
    /\ stop
    /\ Goto(w, "exited")
    /\ UNCHANGED <<masterVars, sharedVars, mode, count, chunk, todo, gate,
                   discarded, moved, fault>>

NewGate(w) ==
    /\ gate' = [gate EXCEPT ![w] = 0]
    /\ discarded' = [discarded EXCEPT ![w] = FALSE]
    /\ moved' = [moved EXCEPT ![w] = 0]

-----------------------------------------------------------------------------
(* do_worker_producer: take a chunk, run producer_func on each input of it *)
(* through one gate, report.                                               *)

(* Mutant of TakeChunk: the last chunk is not cut at the end of the range. *)
TakeChunk_Overshoot(w) ==
    /\ pc[w] = "loop" /\ mode[w] = "producer"
    /\ ~stop
    /\ inputsLeft > 0
    /\ LET n == ChunkSize IN
       /\ inputsLeft' = inputsLeft - n
       /\ stats' = [stats EXCEPT !.consumed = @ + n,
                                 !.consumedAll = @ \/ n >= inputsLeft]
       /\ count' = [count EXCEPT ![w] = n]
       /\ chunk' = [chunk EXCEPT ![w] = n]
    /\ NewGate(w)
    /\ Goto(w, "input")
    /\ UNCHANGED <<masterVars, stop, queued, closed, mode, todo, fault>>

TakeChunk(w) ==
    /\ pc[w] = "loop" /\ mode[w] = "producer"
    /\ ~stop
    /\ inputsLeft > 0
    /\ LET n == IF inputsLeft < ChunkSize THEN inputsLeft ELSE ChunkSize IN
       /\ inputsLeft' = inputsLeft - n
       /\ stats' = [stats EXCEPT !.consumed = @ + n,
                                 !.consumedAll = @ \/ n = inputsLeft]
       /\ count' = [count EXCEPT ![w] = n]
       /\ chunk' = [chunk EXCEPT ![w] = n]
    /\ NewGate(w)
    /\ Goto(w, "input")
    /\ UNCHANGED <<masterVars, stop, queued, closed, mode, todo, fault>>

(* Nothing left to take: the worker becomes a consumer.                    *)
TakeNothing(w) ==
    /\ pc[w] = "loop" /\ mode[w] = "producer"
    /\ ~stop
    /\ inputsLeft = 0
    /\ mode' = [mode EXCEPT ![w] = "consumer"]
    /\ UNCHANGED <<masterVars, sharedVars, pc, count, chunk, todo, gate,
                   discarded, moved, fault>>

(* producer_func starts on the next input.  One that pushes nothing has to *)
(* discard a gate that does not count.                                     *)
CallProducer(w) ==
    /\ pc[w] = "input" /\ chunk[w] > 0
    /\ \E n \in Pushes :
         \/ /\ n > 0
            /\ todo' = [todo EXCEPT ![w] = n]
            /\ Goto(w, "push")
            /\ UNCHANGED <<chunk, discarded>>
         \/ /\ n = 0
            /\ chunk' = [chunk EXCEPT ![w] = @ - 1]
            /\ discarded' = [discarded EXCEPT ![w] = ~MultiPush]
            /\ UNCHANGED <<todo, pc>>
    /\ UNCHANGED <<masterVars, sharedVars, mode, count, gate, moved, fault>>

(* Mutant of Rejected: already_accessed_ is not looked at.                 *)
Rejected_Never(w, multi) == FALSE

(* mark_access() of a gate that does not count, in a debug build.          *)
Rejected(w, multi) == Debug /\ ~multi /\ gate[w] > 0

(* producer_func is done with the input.                                   *)
EndOfInput(w) ==
    /\ todo' = [todo EXCEPT ![w] = 0]
    /\ chunk' = [chunk EXCEPT ![w] = @ - 1]
    /\ Goto(w, "input")

Push(w) ==
    /\ pc[w] = "push"
    /\ ~Rejected(w, MultiPush)
    /\ ~closed /\ queued < Capacity
    /\ queued' = queued + 1
    /\ gate' = [gate EXCEPT ![w] = @ + 1]
    /\ moved' = [moved EXCEPT ![w] = @ + 1]
    /\ IF todo[w] > 1
       THEN todo' = [todo EXCEPT ![w] = @ - 1] /\ UNCHANGED <<chunk, pc>>
       ELSE EndOfInput(w)
    /\ UNCHANGED <<masterVars, stop, inputsLeft, stats, closed, mode, count,
                   discarded, fault>>

(* push_wait returns false, and producer_func returns.                     *)
PushRefused(w) ==
    /\ pc[w] = "push"
    /\ ~Rejected(w, MultiPush)
    /\ closed
    /\ gate' = [gate EXCEPT ![w] = @ + 1]
    /\ EndOfInput(w)
    /\ UNCHANGED <<masterVars, sharedVars, mode, count, discarded, moved, fault>>

PushRejected(w) ==
    /\ pc[w] = "push"
    /\ Rejected(w, MultiPush)
    /\ Throw(w, "gate")

(* Mutant of Outputs: one output is counted for every input.               *)
Outputs_PerInput(w) == count[w]

(* What a chunk's gate says was pushed: its count, or, of a gate that does *)
(* not count, one value unless it was discarded.                           *)
Outputs(w) == IF MultiPush THEN gate[w] ELSE IF discarded[w] THEN 0 ELSE 1

(* Mutant of AllProcessed: as soon as all inputs are consumed.             *)
AllProcessed_Early(s) == s.consumedAll

AllProcessed(s) == s.consumedAll /\ s.processed >= s.consumed

(* The worker that completes the task notifies task_done_cv_.              *)
Announce(done) == IF done THEN WakeMaster ELSE UNCHANGED master

(* set_producer_input_processed_all() throws where the statistics are      *)
(* inconsistent, and so does set_producer_input_consumed_all().            *)
ReportProducer(w) ==
    /\ pc[w] = "input" /\ chunk[w] = 0
    /\ LET s == [stats EXCEPT !.processed = @ + count[w], !.output = @ + Outputs(w)]
           t == [s EXCEPT !.processedAll = @ \/ AllProcessed(s)]
       IN
       /\ stats' = t
       /\ IF AllProcessed(s) /\ (s.processedAll \/ s.processed # Inputs)
          THEN /\ Goto(w, "exited")
               /\ fault' = [fault EXCEPT ![w] = "stats"]
               /\ stop' = TRUE
               /\ WakeMaster
               /\ UNCHANGED <<mode, count, gate, discarded, moved>>
          ELSE /\ Announce(Done(t))
               /\ Goto(w, "loop")
               /\ IF \/ Done(t) \/ t.consumedAll
                     \/ w \notin FixedProducers /\ t.input > 0 /\ t.output >= t.input
                  THEN mode' = [mode EXCEPT ![w] = "consumer"]
                  ELSE UNCHANGED mode
               /\ count' = [count EXCEPT ![w] = 0]
               /\ NewGate(w)
               /\ UNCHANGED <<stop, fault>>
    /\ UNCHANGED <<joined, runs, launched, inputsLeft, queued, closed, chunk, todo>>

-----------------------------------------------------------------------------
(* do_worker_consumer: run consumer_func once through a gate, report.      *)

CallConsumer(w) ==
    /\ pc[w] = "loop" /\ mode[w] = "consumer"
    /\ ~stop
    /\ \E n \in Pops : todo' = [todo EXCEPT ![w] = n]
    /\ NewGate(w)
    /\ Goto(w, "pop")
    /\ UNCHANGED <<masterVars, sharedVars, mode, count, chunk, fault>>

Pop(w) ==
    /\ pc[w] = "pop" /\ todo[w] > 0
    /\ ~Rejected(w, MultiPop)
    /\ ~closed /\ queued > 0
    /\ queued' = queued - 1
    /\ gate' = [gate EXCEPT ![w] = @ + 1]
    /\ moved' = [moved EXCEPT ![w] = @ + 1]
    /\ todo' = [todo EXCEPT ![w] = @ - 1]
    /\ UNCHANGED <<masterVars, stop, inputsLeft, stats, closed, pc, mode, count,
                   chunk, discarded, fault>>

PopRefused(w) ==
    /\ pc[w] = "pop" /\ todo[w] > 0
    /\ ~Rejected(w, MultiPop)
    /\ closed
    /\ gate' = [gate EXCEPT ![w] = @ + 1]
    /\ todo' = [todo EXCEPT ![w] = 0]
    /\ UNCHANGED <<masterVars, sharedVars, pc, mode, count, chunk, discarded,
                   moved, fault>>

PopRejected(w) ==
    /\ pc[w] = "pop" /\ todo[w] > 0
    /\ Rejected(w, MultiPop)
    /\ Throw(w, "gate")

(* Mutant of ChangesSides: the fixed workers do too.                       *)
ChangesSides_All(w) == w \in Workers

ChangesSides(w) == w \notin FixedConsumers \union FixedProducers

ReportConsumer(w) ==
    /\ pc[w] = "pop" /\ todo[w] = 0
    /\ LET t == [stats EXCEPT !.input = @ + (IF MultiPop THEN gate[w] ELSE 1)] IN
       /\ stats' = t
       /\ Announce(Done(t))
       /\ Goto(w, IF Done(t) THEN "exited" ELSE "loop")
       /\ IF ~Done(t) /\ ChangesSides(w) /\ (t.input = 0 \/ t.output < t.input)
          THEN mode' = [mode EXCEPT ![w] = "producer"]
          ELSE UNCHANGED mode
    /\ NewGate(w)
    /\ UNCHANGED <<joined, runs, launched, stop, inputsLeft, queued, closed,
                   count, chunk, todo, fault>>

(* producer_func or consumer_func throws before, between or after its      *)
(* accesses.                                                               *)
UserThrows(w) ==
    /\ CanThrow
    /\ pc[w] \in {"input", "push", "pop"}
    /\ Throw(w, "user")

WorkerRuns(w) ==
    \/ Leave(w)
    \/ TakeChunk(w) \/ TakeNothing(w) \/ CallProducer(w)
    \/ Push(w) \/ PushRefused(w) \/ PushRejected(w) \/ ReportProducer(w)
    \/ CallConsumer(w)
    \/ Pop(w) \/ PopRefused(w) \/ PopRejected(w) \/ ReportConsumer(w)

WorkerStep(w) == WorkerRuns(w) \/ UserThrows(w)

-----------------------------------------------------------------------------
(* The master thread.                                                      *)

Master(from, to) == master = from /\ master' = to

(* start() refuses after an iteration that has not been reset.  It also    *)
(* tests stats_.is_running, which nobody ever sets: a second start() while *)
(* the jobs are running goes through.                                      *)
Start ==
    /\ master \in {"new", "started"}
    /\ runs < Runs
    /\ IF stats.processedAll
       THEN master' = "startThrew" /\ UNCHANGED runs
       ELSE master' = "launch" /\ runs' = runs + 1
    /\ UNCHANGED <<joined, launched, workerVars, sharedVars>>

(* ... and launches the workers one by one.                                *)
Launch ==
    /\ master = "launch"
    /\ launched' = launched + 1
    /\ Goto(launched + 1, "loop")
    /\ master' = IF launched + 1 = Limit + 2 * (runs - 1) THEN "started" ELSE "launch"
    /\ UNCHANGED <<joined, runs, sharedVars, mode, count, chunk, todo, gate,
                   discarded, moved, fault>>

(* wait_for_all_tasks(): sleep until all is done or a stop is requested.   *)
Wait ==
    /\ Master("started", "wait")
    /\ UNCHANGED <<joined, runs, launched, workerVars, sharedVars>>

Sleep ==
    /\ Master("wait", "asleep")
    /\ ~AllTaskDone /\ ~stop
    /\ UNCHANGED <<joined, runs, launched, workerVars, sharedVars>>

Woken ==
    /\ Master("wait", "woken")
    /\ AllTaskDone \/ stop
    /\ UNCHANGED <<joined, runs, launched, workerVars, sharedVars>>

(* Mutant of AfterWait: close_queue() is not called.                       *)
AfterWait_Open ==
    /\ \/ Master("woken", "returned") /\ ~stop
       \/ Master("woken", "rethrow") /\ stop
    /\ joined' = 0
    /\ UNCHANGED <<runs, launched, workerVars, stop, inputsLeft, stats, queued, closed>>

(* With a stop requested by now, the queue is closed and the exceptions of *)
(* the workers are rethrown.                                               *)
AfterWait ==
    /\ \/ Master("woken", "returned") /\ ~stop /\ UNCHANGED closed
       \/ Master("woken", "rethrow") /\ stop /\ closed' = TRUE
    /\ joined' = 0
    /\ UNCHANGED <<runs, launched, workerVars, stop, inputsLeft, stats, queued>>

(* rethrow_exceptions(): join the threads in turn up to the first one with *)
(* an exception.                                                           *)
JoinNext ==
    /\ master = "rethrow"
    /\ joined < launched
    /\ pc[joined + 1] = "exited"
    /\ joined' = joined + 1
    /\ IF fault[joined + 1] = "none"
       THEN UNCHANGED <<master, fault>>
       ELSE /\ master' = "threw"
            /\ fault' = [fault EXCEPT ![joined + 1] = "none"]
    /\ UNCHANGED <<runs, launched, sharedVars, pc, mode, count, chunk, todo,
                   gate, discarded, moved>>

NothingToRethrow ==
    /\ Master("rethrow", "stopped")
    /\ joined = launched
    /\ UNCHANGED <<joined, runs, launched, workerVars, sharedVars>>

(* Mutant of Reset: the statistics are kept.                               *)
Reset_Inputs ==
    /\ Master("returned", "new")
    /\ runs < Runs
    /\ inputsLeft' = Inputs
    /\ UNCHANGED <<joined, runs, launched, workerVars, stop, stats, queued, closed>>

(* Mutant of Reset: last_producer_input_it_ is not rewound.                *)
Reset_Stats ==
    /\ Master("returned", "new")
    /\ runs < Runs
    /\ stats' = NewStats
    /\ UNCHANGED <<joined, runs, launched, workerVars, stop, inputsLeft, queued, closed>>

(* reset_same_inputs_for_next_execution() after a wait that returned.      *)
Reset ==
    /\ Master("returned", "new")
    /\ runs < Runs
    /\ stats' = NewStats
    /\ inputsLeft' = Inputs
    /\ UNCHANGED <<joined, runs, launched, workerVars, stop, queued, closed>>

(* Mutant of Abort: the queue is left open.                                *)
Abort_Open ==
    /\ master \in {"started", "returned", "threw", "stopped", "startThrew"}
    /\ master' = "join"
    /\ stop' = TRUE
    /\ UNCHANGED <<joined, runs, launched, workerVars, inputsLeft, stats, queued, closed>>

(* abort(), called or run by the destructor: close the queue, stop and     *)
(* join the workers.                                                       *)
Abort ==
    /\ master \in {"started", "returned", "threw", "stopped", "startThrew"}
    /\ master' = "join"
    /\ closed' = TRUE
    /\ stop' = TRUE
    /\ UNCHANGED <<joined, runs, launched, workerVars, inputsLeft, stats, queued>>

JoinAll ==
    /\ Master("join", "finished")
    /\ \A w \in 1..launched : pc[w] = "exited"
    /\ UNCHANGED <<joined, runs, launched, workerVars, sharedVars>>

MasterStep ==
    \/ Start \/ Launch \/ Wait \/ Sleep \/ Woken \/ AfterWait
    \/ JoinNext \/ NothingToRethrow \/ Reset \/ Abort \/ JoinAll

(* Somebody else who has the pool stops it.                                *)
Halt ==
    /\ CanHalt
    /\ ~stop
    /\ launched > 0
    /\ stop' = TRUE
    /\ WakeMaster
    /\ UNCHANGED <<joined, runs, launched, workerVars, inputsLeft, stats,
                   queued, closed>>

Finished == master = "finished" /\ UNCHANGED vars

-----------------------------------------------------------------------------

Next ==
    \/ \E w \in Workers : WorkerStep(w)
    \/ MasterStep
    \/ Halt
    \/ Finished

(* Every thread that can run does.  A user function that may throw is not  *)
(* made to, nor is the pool made to halt.                                  *)
Fairness ==
    /\ \A w \in Workers : WF_vars(WorkerRuns(w))
    /\ WF_vars(MasterStep)

Safe == Init /\ [][Next]_vars
Spec == Safe /\ Fairness

-----------------------------------------------------------------------------
(* Properties.                                                             *)

MasterPlaces == {"new", "launch", "started", "wait", "asleep", "woken",
                 "returned", "rethrow", "threw", "stopped", "startThrew",
                 "join", "finished"}

TypeOK ==
    /\ master \in MasterPlaces
    /\ joined \in Nat /\ runs \in 0..Runs /\ launched \in {0} \union Workers
    /\ stop \in BOOLEAN /\ closed \in BOOLEAN
    /\ inputsLeft \in 0..Inputs
    /\ stats \in [consumed : Nat, processed : Nat, output : Nat, input : Nat,
                  consumedAll : BOOLEAN, processedAll : BOOLEAN]
    /\ queued \in 0..Capacity
    /\ pc \in [Workers -> {"none", "loop", "input", "push", "pop", "exited"}]
    /\ mode \in [Workers -> {"producer", "consumer"}]
    /\ count \in [Workers -> Nat] /\ chunk \in [Workers -> Nat]
    /\ todo \in [Workers -> Nat] /\ gate \in [Workers -> Nat]
    /\ discarded \in [Workers -> BOOLEAN]
    /\ moved \in [Workers -> Nat]
    /\ fault \in [Workers -> {"none", "user", "gate", "stats"}]

Producing == {w \in Workers : mode[w] = "producer"}
Consuming == {w \in Workers : mode[w] = "consumer"}

(* What the workers of W have of something, together: as a set of pairs,   *)
(* which can be reasoned about without induction.                          *)
Held(f, W) == Cardinality(UNION {{w} \X (1..f[w]) : w \in W})
Unreported(W) == Held(moved, W)

(* Nothing is lost between the queue and the statistics, although values   *)
(* move at one time and are reported at another: what was reported pushed, *)
(* plus what is pushed and not yet reported, is what is in the queue plus  *)
(* what was popped, reported or not.                                       *)
ValuesConserved ==
    ~closed =>
        stats.output + Unreported(Producing)
            = queued + stats.input + Unreported(Consuming)

(* "All tasks done" is never announced early: not with a value in the      *)
(* queue, not with an input or a value in the hands of a worker, even when *)
(* a consumer's report overtakes the producer's ("reversed pattern").      *)
DoneMeansDrained ==
    AllTaskDone /\ ~closed =>
        /\ inputsLeft = 0
        /\ queued = 0
        /\ \A w \in Workers : moved[w] = 0 /\ pc[w] \notin {"input", "push"}

(* What wait_for_all_tasks() would have to throw a logic_error about.      *)
WaitLeavesQueueEmpty == master = "returned" => queued = 0

(* Every input is in exactly one place, and the setters of the "all" flags *)
(* never find cause to throw: each is called once in a run, the last when  *)
(* exactly all inputs have been processed.                                 *)
InputsAccounted ==
    /\ stats.consumed + inputsLeft = Inputs
    /\ stats.consumedAll <=> stats.consumed = Inputs /\ Inputs > 0
    /\ stats.consumed = stats.processed + Held(count, Workers)
    /\ \A w \in Workers : fault[w] # "stats"

(* The master does not sleep through the completion or through a stop.     *)
MasterAwake == master = "asleep" => ~AllTaskDone /\ ~stop

(* wait_for_all_tasks() comes back, whichever workers block on a full or   *)
(* an empty queue and whichever side the dynamic ones are on.              *)
WaitEnds == master = "wait" ~> master \in {"returned", "threw", "stopped"}

(* abort() comes back: every worker notices the stop or the closed queue.  *)
AbortEnds == master = "join" ~> master = "finished"

-----------------------------------------------------------------------------
(* What the caller sees: workers, queue, gates and statistics do a job.    *)

Caller ==
    CASE master = "new"                             -> "ready"
      [] master \in {"launch", "started"}           -> "running"
      [] master = "startThrew"                      -> "refused"
      [] master \in {"wait", "asleep", "woken", "rethrow"} -> "waiting"
      [] master = "returned"                        -> "done"
      [] master \in {"threw", "stopped"}            -> "failed"
      [] master = "join"                            -> "closing"
      [] master = "finished"                        -> "ended"

(* A value is consumed when the call that popped it is reported.           *)
Promise == INSTANCE Job WITH
    caller  <- Caller,
    left    <- inputsLeft,
    working <- Held(count, Workers),
    values  <- queued + Unreported(Consuming),
    stopped <- stop

(* Step by step, the scheduler does a job as module Job describes it: the   *)
(* wait returns only with every input finished, every value consumed and   *)
(* no stop requested; start() refuses only when all inputs are used up;    *)
(* and after the destructor no worker touches anything.  (That wait and    *)
(* destructor come back is WaitEnds and AbortEnds.)                        *)
ImplementsJob == Promise!Spec
=============================================================================
