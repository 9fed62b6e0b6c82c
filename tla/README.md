# A formal model of yk_util

yk_util is a header-only C++23 library. Its core with state is `yk::exec`: two
bounded queues, a pool of workers, a scheduler that moves the results of a
producer function to a consumer function through one of the queues, and a
tracker that reports on it. Around it stand smaller parts, most of them
templates without state: a parallel loop, a markup scanner, a concatenating
view, comparators, variant views. This directory holds TLA+ modules of these
parts, the configurations that check them with TLC, and proofs checked by
TLAPS.

Paths below are relative to `src/include/yk/`.

## 1. Inventory

| Component | State | Operations | Interacts with | What is hard |
|---|---|---|---|---|
| `cv_queue` (`exec/cv_queue.hpp`; aliases `cv_vector`, `cv_deque`, `cv_inplace_vector`) | buffer, `capacity_`, `closed_`, a mutex, `cv_not_full_`, `cv_not_empty_` | `push_wait`, `pop_wait` (with or without a stop token), `close`, `open`, `clear`, `set_capacity[_and_reserve]`, getters | called by gates; a stop token calls back into the condition variables | which side is notified, by `notify_one` or `notify_all`, and on which edge |
| `atomic_queue` (`exec/atomic_queue.hpp`) | `head_`, `tail_`, slots with `turn` and raw storage | `push`, `try_push`, `pop`, `try_pop`, `size` | retried by `queue_traits` until a stop | lock-free reuse of slots, object lifetimes, throwing constructors |
| `queue_gate` (`exec/queue_gate.hpp`) | pointer to the queue, `count_` or `already_accessed_` | `push_wait`, `pop_wait`, `discard` | made by the scheduler, used by user functions | what is counted is accesses, not values |
| `scheduler` (`exec/scheduler.hpp`) and `scheduler_stats` | inputs and how far they are taken, the statistics, the queue | `start`, `wait_for_all_tasks`, `abort`, resets, three worker loops | launches workers in the pool, sleeps on `task_done_cv_` | completion by counting, side changes on stale ratios, stops and exceptions with workers blocked |
| `worker_pool` (`exec/worker_pool.hpp`) | threads with their exceptions, a stop source | `launch`, `launch_rest`, `halt`, `rethrow_exceptions`, `halt_and_clear`, the destructor | runs the scheduler's loops | exceptions against joins; `threads_` shared while it grows |
| `scheduler_stats_tracker`, `scheduler_delta_stats` | last tick and last statistics | `tick`, `interval_elapsed` | a thread of the scheduler; the master ticks too | the last tick against the thread's own; callbacks that throw |
| `par_for_each` | one exception, a shared mutex | one function | the standard library's threads | abort and exceptions |
| `colorize` | the position of a scan, two bracket offsets | three scanners over one `scan` | `std::format` | offsets kept across escapes; where the loop ends |
| `ranges/concat` | an iterator: which view, and where in it | moves, comparisons, distances | the views' own iterators | boundaries, empty views |
| `compare/*` | a comparator | `then`, `promote`, `extract`, pipes | any user's comparator | what category the result may claim |
| `variant_view/*`, `variant/*` | a pointer to a variant, a list of types | get, visit, compare, convert | the variant may change under the view | all accesses agreeing on what is there |
| `enum_bitops*`, `stack`, `hash/*`, `util/*`, `allocator/*`, `print*`, `throwt`, `fixed_string`, `chrono`, `arch` | none beyond their arguments | bit operations, adapters, formatting, forwarding | - | nothing a state machine shows |

`PROJECT.json` lists each with its status, and under `hazards` what in this
code a test hardly reaches, line by line.

What makes each modelled component correct:

- **cv_queue**: nobody sleeps while there is something for him to do and no
  wake-up under way; values of one producer stay in order; `close` and a stop
  release blocked calls.
- **atomic_queue**: one thread at a time in a slot's storage; a value is built
  only in a dead slot and taken only from a live one; ticket *k* of the pops
  gets the value of ticket *k* of the pushes; a failing try tells the truth;
  every call returns once its partner exists.
- **scheduler**: "all tasks done" is announced when, and only when, every
  input was processed and every value consumed; the waiting master always
  comes back, on completion, on an exception and on a halt; `abort` joins.
- **worker_pool**: a thread that runs can be joined; an exception that reached
  its entry is there until it is thrown, once; `rethrow_exceptions` overlooks
  none; joins end.
- **tracker**: the numbers shown of an execution go forward, the complete ones
  are the last and nothing follows them; the wait ends although a thread sleeps
  on an interval. One case is excepted, where nothing is shown at all (section
  6, *Tracker*).
- **par_for_each**: an exception comes out exactly if a call threw; abort lets
  at most one more call per thread begin.
- **colorize**: what is written is what the markup means, and what one scanner
  refuses all refuse; the scan ends.
- **concat**: one iterator value per place, so equality and order may compare
  representations; moves go exactly as far as asked.
- **compare**: a comparator is as good an order as its category says.
- **variant_view**: `get`, `get_if`, `visit`, `operator bool` and the
  comparisons agree, whatever the variant holds by now.

## 2. Modules

| Module | Role |
|---|---|
| `AwaitQueue` | what `cv_queue` promises: calls that wait for a condition, no condition variables |
| `CvQueue` | `cv_queue` as written; refines `AwaitQueue` |
| `MCCvQueue` | the arguments of `set_capacity` for TLC |
| `CvQueueProofs` | theorems about `CvQueue` |
| `TicketQueue` | what `atomic_queue` promises: numbered pushes and pops |
| `AtomicQueue` | `atomic_queue` as written; refines `TicketQueue` |
| `MCAtomicQueue` | the symmetry of its threads for TLC |
| `AtomicQueueProofs` | theorems about `AtomicQueue`: whose a slot is |
| `AtomicStorageProofs` | theorems about `AtomicQueue`: what is in a slot, failing tries, and the refinement |
| `Job` | what the scheduler promises its caller: inputs and values under way, no workers and no queue |
| `Scheduler` | `scheduler`, `scheduler_stats`, `queue_gate` and the driven part of `worker_pool`, over a queue as in `AwaitQueue`; refines `Job` |
| `SchedulerProofs` | theorems about `Scheduler`: the books are right, the master wakes, and the refinement |
| `WorkerPool` | `worker_pool`: threads and exceptions |
| `StatsTracker` | the tracker, its thread and the master |
| `ParForEach` | `par_for_each` |
| `ThreadProofs` | theorems about these three |
| `Comparators` | `compare/` |
| `ConcatView` | the iterator of `concat_view` |
| `VariantView` | `variant_view` and the dispatch of `variant/` it rests on |
| `ValueProofs` | theorems about these three |
| `Colorize` | the scanner of `colorize.hpp`, and the markup language defined on its own |
| `ColorizeProofs` | theorems about `Colorize`: what is written is what is meant |
| `Induction` | induction and recursive functions on numbers, for the proofs about values and strings |
| `MCStrings`, `MCColorize`, `MCParts` | the strings scanned; the instances for TLC |

### CvQueue

Every member function holds `mtx_` throughout and releases it only in
`condition_variable::wait`, so the code between two waits is one action.
`call[t]` says whether thread *t* is outside a call, asleep in it, or awake and
on its way to the mutex. `PushSleep`, `PushFail`, `PushDone` (and the same for
pop) are the outcomes of evaluating the wait condition; `PushNotifies` and
`PopNotifies` are the sets of threads the notification at the end may wake,
taken from the state *before* the push or pop where the code tests the edge.
The capacity, the flags and the access order (`QueueBased`: oldest first;
otherwise newest first) are constants. The controlling thread calls `close`,
`open`, `clear`, `set_capacity` and requests a stop of the token the callers
pass. Spurious wake-ups are actions without fairness.

The contract of the flags is an assumption (`SingleMeansOne`): a queue declared
single-producer has one pushing thread. `CanGrow` says whether `set_capacity`
may raise the capacity, which the edge-triggered form does not survive
(finding 1).

### AtomicQueue

One action per atomic access and per access to a slot's storage. `pc[t]` is the
place in the call, `ticket[t]` the local `head` or `tail`. `push` goes
`idle -> spin -> construct -> publish -> idle`; `try_push` goes
`idle -> look -> cas -> construct ...` or `look -> reload -> look | idle`; pops
in the same way through `extract`, `destroy`, `release`. `storage[s]` is the
value alive in the slot or `Dead`; `sent`, `received` and `witness` are history
variables: the values by ticket, what pops extracted, and whether the queue was
full (empty) when a try last looked.

The model is sequentially consistent; the code's acquire/release pairs on
`turn` order exactly the accesses whose order matters here. Counters do not
wrap.

### Scheduler

A critical section of `stats_mtx_` is one action, a push or a pop is one
action, enabled when `AwaitQueue` lets it finish. With an `atomic_queue` the
scheduler "closes" it by requesting a stop of `queue_stop_source_`, which the
retry loops of `queue_traits` look at; the model's `closed` stands for both.
Workers are numbered in launch order, so worker 1 is the fixed consumer and 2
the fixed producer. `pc[w]` is `loop` between two calls, `input` between two
calls of `producer_func` in a chunk, `push` or `pop` inside a user function,
`exited` at the end. `producer_func` pushes `n \in Pushes` values for an input,
`consumer_func` pops `n \in Pops` values and gives up at the first refused pop,
as the functions in `test/scheduler.cpp` do. `moved[w]` is a history variable:
accesses that really moved a value, as opposed to those the gate counted.
`Throw` is the handler of `worker_pool::launch`. The `thread_local prev_stats`
of the workers is never read and is left out. A comparison of the
ratio `producer_output / consumer_input_processed` with 1 is one of the two
integers.

`Job` has none of this: inputs are taken, make values while they are worked
on, and are finished; values are consumed. Its `Succeed` is the point of it:
the wait comes back without an exception only when nothing is left of either.
Under the refinement `working` is what the producers hold, and a value counts
until the call that popped it is reported, so a worker between its pop and its
report still keeps the wait from succeeding.

### WorkerPool

`launch` starts a thread (`StartThread`) and stores it afterwards
(`EmplaceBack`); a worker may `Return`, or `Raise` and then `Store` its
exception, at any moment in between. A store while the vector is being changed
is a data race and may lose the exception: a nondeterministic choice. The
joining calls look at one entry per step (`at`). `fate[i]` is a history
variable: where the exception of thread *i* has gone. A destructor that
rethrows ends in `terminated`, since destructors are noexcept. `Scheduler`
models what workers do and takes from the pool only stops and exceptions;
`WorkerPool` models the vector and takes from the workers only that they end.

### StatsTracker

Of the jobs their number counts: `Report` is the accounting that `Scheduler`
has in full. The tracker thread goes `loop -> wait -> copied -> tick -> loop`;
`Copy` is made under `stats_mtx_` and used after it is released. The master goes
`started -> woken -> join -> tick -> returned`, one step for each of the stop,
the join and the last tick, so that everything can happen between them. A tick
of numbers equal to `prev_stats_` calls no callback and cannot throw; and
`prev_stats_` outlives the execution, so the last tick of a second one may be
such a tick. Properties therefore do not speak of `prev` but of two history
variables: `shown`, what the callback has last shown of this execution, and
`again`, that the tracker was there in an execution before. The tracker has a
callback; without one there is nothing to show.

### ParForEach

`std::for_each` (external) hands each element to one call of the wrapper, on
any thread, in any order. The wrapper looks under the shared lock (`Look`),
calls with the lock released (`Call`, `Returns`, `Throws`) and stores under the
exclusive lock (`Catch`). `late[t]` counts the calls of a thread that began
when there was an exception already.

### Colorize

A string is a sequence of tokens: the three characters `[`, `]`, `|` and the
words specifiers are made of; `npos` is a number beyond any offset, and the
arithmetic on it is the code's. One action is one turn of the loop in `scan`
or in `do_parse`. The three scanners differ in what they write and share
everything else, as in the code.

`OutputExact` compares with a definition of the language that knows no offsets
and no records: `Width` says how many tokens belong to what begins at a place
(a word, an escaped bracket, a field; none if it is an error), `Stands` what is
written for it, `Accepts` and `Sgr` when the specifiers of a field make sense
together and which escape sequence they ask for, as a set of words and not in
the order the parser meets them. `Meanings` puts the places together, from the
last one back.

### ConcatView

An iterator is a variant's index and an offset. The code's four recursions
over alternatives are recursive functions of the index: `Satisfied` and
`Before` go over the end and the beginning of a view, `Forward` and `Backward`
move by any distance, with the code's boundary conditions. `Satisfy`, `Prev`,
`AdvanceFwd` and `AdvanceBwd` call them at an iterator. `Position` is the
definition they are compared with. Views are their sizes, 0 included.

### Comparators

A comparator is a table of outcomes with the category its type claims.
`PipeThen`, `PipePromote` and `PipeKey` build longer ones out of the given
ones. `lossy` remembers a `promote` whose first operand had ties that are not
transitive: with a NaN that ties with everything the result runs in a circle,
whatever its type says.

### VariantView

A view is a pointer to a variant, or none, and a list of alternatives. Variants
are assigned while views look at them. A visit tries what
`SupersetTypeCatcher` does; `Holds` is `holds_alternative`, which no pack
limits; `get` by index and by type, `get_if`, `*`, `->` and
`bool` are written from their own code, so that agreeing is something to check.

## 3. Runs

All runs take seconds to a minute. "Violation" runs check one property that
a message, comment or test states and the code does not keep.

| Run | Instance | Shows |
|---|---|---|
| `cvq_spsc` | 1 producer, 1 consumer, capacity 2 then 1 or 2, 5 pushes, 3 control calls, stop tokens, queue order | edge-triggered notifications suffice; `close` and a stop release every blocked call; refines `AwaitQueue` with its liveness |
| `cvq_mpmc` | 2 + 2 threads, capacity 1 then 1 or 2, 3 pushes each, 1 control call | nobody asleep for good although `set_capacity` is silent; order per producer; the buffer drains; refines `AwaitQueue` |
| `cvq_spsc_grow` | 1 + 1 threads, capacity 1, may grow | violation, finding 1 |
| `aq_two` | 2 + 2 threads, 2 slots, 3 calls each, constructors may throw, thread symmetry | exclusive slots, lifetimes, destructor parity, tickets, honest failures |
| `aq_refine` | 2 + 1 threads, 2 slots, 6 values | refines `TicketQueue` with its liveness; every call returns |
| `sched_multi` | 3 workers, 5 inputs, chunks of 2, queue of 1, 0 or 1 values per input, counting gates | completion announced exactly when all is done, and reached |
| `sched_abort` | 2 inputs in a chunk, gates that do not count in a debug build, consumers of 1 or 2 values; user functions throw, the pool is halted | second accesses are rejected before progress is lost; the wait and the abort come back |
| `sched_again` | two executions with a reset in between, gates that do not count, chunks of 1, 0 or 1 values per input | refines `Job`: `discard()` keeps the books, and leftover workers do no harm to the counting; both waits end |
| `sched_release_gate`, `sched_empty` | see section 6 | violations, findings 2 and 3 |
| `parts` | strings of up to 5 tokens, and every field of two words; up to 3 views of 0 to 2 elements; comparators of 3 elements; 2 views of 2 variants with 3 alternatives; 4 elements on 2 threads; a pool of 3 threads; 3 jobs in each of 2 executions | seven parts that share nothing, one initial state choosing which: the properties of section 1 |
| `colorize_unclosed` | strings of up to 5 tokens with unclosed fields | violation, finding 4 |

In `parts` a behaviour belongs to one part, and the others rest in an initial
state: the parts do not interact in the code, and one run for the seven keeps
their state spaces added up, not multiplied. The forms of `cv_queue` with one
single side have no run of their own: the theorems of section 4 hold for
every choice of the flags.

**Bounds.** `Quota`, `PushQuota`, `PopQuota`, `MaxControl`, `Runs`, `MaxRuns`
and `MaxThreads` bound the calls and are guards of the actions; every other
variable follows. A capacity of one or two with two threads on each side
already has a full and an empty buffer, sleepers on both sides at different
times, three rounds through a slot and tries overtaken by whole rounds. Three
workers are the two fixed ones and one dynamic one; five inputs in chunks of
two make a chunk for each of them, the last one short, and a queue of one makes
nearly every push wait. Five tokens hold an escape before, inside and after a
field, and a field of two specifiers. Three views have an empty one at the
beginning, in the middle and at the end. Laws of an order are about three
elements, so three show each violation. Three threads of a pool have one
joined, one throwing and one being launched.

**Fairness.** Threads are operating-system threads, so each call that can go on
does (weak fairness per thread). A `cv_queue` consumer keeps calling
`pop_wait`, as `do_worker_consumer`'s loops do; nothing is assumed of
spurious wake-ups, of the controlling thread, or of which sleeper `notify_one`
picks. A spinning thread keeps running, but weak fairness of a try that may
fail says nothing about its success. In `Scheduler` no fairness is assumed of
exceptions or of `halt`. A mutex is not assumed fair: each action is enabled
whatever the others do, and none is disabled for ever by the mutex. In
`parts` the scan goes on, the pool's client finishes the call it is in, and a
worker function comes to an end once it can see a stop (that is what a stop
token is passed for); jobs get done, tracker and master thread take their
steps. No fairness is assumed of `Raise`, of callbacks that throw, or of the
client's decision to make a call.

**Deadlock** is checked except where the system may stop for good: `aq_two`
(a slot wedged by a throwing constructor), `sched_empty` (the hanging wait it is
about), and `parts` and `colorize_unclosed`, whose scans, loops and pools come
to an end.

## 4. Proofs

For every set of threads, every capacity, quota and flag:

`CvQueueProofs`
- `TypeCorrect`: the type invariant.
- `ConsumersNeverStranded`: `NoStrandedConsumer`. With the type invariant it is
  inductive by itself: an edge-triggered push notifies when the buffer was
  empty, and a sleeping consumer means, by the invariant, that it was; a
  `notify_one` is enough where `SingleMeansOne` says there is one to wake.
- `ProducersNeverStranded`: the same for producers, if the capacity never
  grows. Lowering it keeps the invariant: what is full stays full.
- `DeliveredInOrder`: `PerProducerOrder` for queue-like buffers. It is not
  inductive; `OrderInv` strengthens it to: `delivered` followed by `buf` is in
  order, and no value in either is newer than its producer's last call.
- `NeverAllAsleep`: `NotAllAsleep`, where one side at least is not declared
  single, no capacity is 0 and both sides have a thread. A producer asleep
  means a value in the buffer (`SleepInv`), a consumer asleep means none. It is
  the exact complement of finding 1: raising the capacity harms only the
  edge-triggered form.
- `ImplementsSafely`: each step of `CvQueue` is a step of `AwaitQueue` or
  leaves it unchanged; who is asleep and who is awake does not show, so the
  notifications vanish.

`AtomicQueueProofs`
- `TypeCorrect`: the type invariant.
- `StorageExclusive`: `SlotsExclusive`, the mutual exclusion the turns are for.
  It is not inductive: it says nothing of a thread before it enters the
  storage. `SlotInv` adds, for each side: a ticket held is below its counter;
  no two threads of a side hold the same; the turn of its slot has not passed
  its round, nor has the turn of any ticket to come; from the look at the turn
  to the release of the slot the turn stands at the ticket's round; and a
  compare-exchange that still finds the counter unmoved finds the turn so too,
  which is what entitles `try_push` and `try_pop` to skip the second look. Two
  threads in one slot would then have found its turn at the round, and on the
  side, of both tickets: one ticket with two holders. The arithmetic is in
  `SlotAndRound`: of two tickets for one slot the later has the later round.

`AtomicStorageProofs`
- `LifetimesCorrect`, `DestructorCorrect`, `TicketsInOrder`: `LifetimesOK`,
  `DestructorExact`, `TicketOrder`. They follow from `SlotInv` and `ValueInv`:
  a slot whose turn is the pusher's is empty, unless its pusher has constructed
  and not published; one whose turn is the popper's holds the value pushed with
  its ticket, unless its popper has destroyed and not released; and what was
  received was the value of its ticket, whose popper still holds the slot or
  has released it. A constructor that throws changes none of this: the slot
  stays empty at the pusher's turn.
- `FailuresHonest`: `FailureIsHonest`. The invariant is that a try about to
  reload the counter looked honestly if the counter is still its ticket; it
  needs `SlotInv` for the ticket being at most the counter, which only grows.
- `ImplementsSafely`: where constructors do not throw, `Spec => Tickets!Safe`,
  the step part of `ImplementsTicketQueue`. Drawing a ticket is the abstract
  call entered, the store to the turn its return, and every other step shows
  nothing. The guards of the abstract returns come from the turns: a pusher's
  turn in round r + 1 says that the pop of round r has released the slot
  (`RoundBefore`), a popper's that the push has published it. Two more facts
  are carried along: what was extracted or released was received (`Served`), and
  a try has not used up its calls (`CallsLeft`). A constructor that throws takes
  its ticket without returning, which no step of `TicketQueue` does.

`SchedulerProofs`, for any number of workers, inputs, executions, any chunk and
queue size, exceptions and halts at any time. The one assumption, `GatesCount`,
says that the gates count what passes (counting gates, or the debug check, or
one access per gate); finding 2 is what happens without it.
- `TypeCorrect`, `ValuesAlwaysConserved`, `InputsAlwaysAccounted`,
  `DoneAlwaysMeansDrained`, `MasterNeverSleepsIn`, `QueueEmptyAfterWait`. The
  invariant `SInd` ties what a worker holds to its place (`InHand`, `Locals`),
  the flags to the counters (`Flags`), and the two sums. A sum over the
  workers needs no induction if it is a cardinality: `Held(f, W)` is the number
  of pairs *(w, i)* with *i <= f[w]*, and one worker's change is one bundle of
  pairs taken out or put in (`HeldChange`). Completion is then arithmetic: when
  the counters meet, every term of the two sums is 0.

- `DoesJob`: `ImplementsJob`, every step of `Scheduler` is a step of `Job` or
  shows nothing. Beside `SInd` it needs `Gone`: the end is reached only by a
  stop, and with all workers out of their loops. Two cases carry the weight. A
  call that succeeds is the completion arithmetic again, now about what the
  workers hold; a refused start has to show that no leftover worker of the
  execution before still has an input in its hands.

`ThreadProofs`, for any number of threads, jobs, executions and elements:
- `PoolTypes`, `NoThreadLeftBehind` (`ThreadsOwned`),
  `ExceptionsAlwaysAccounted`, `CleanReturnIsClean`. `PoolInd` adds how far a
  joining call has come: the entries before `at` are joined, and
  `rethrow_exceptions` has found nothing in them (`JoinedSoFar`).
- `LastTickIsFinal`, `TicksAlwaysForward`. `TrackInd` orders the numbers: what
  was shown, then the copy under way, then `stats_` (`InOrder`); says that the
  thread is gone when the master ticks (`Alone`); and how `prev_stats_` and what
  was shown are related (`Remembered`): they agree if something was shown of
  this execution, and if not, `prev_stats_` is 0, so that the last tick of an
  execution with a job shows, or it is left from an execution before.
- `AlwaysHonest`. `EachInd` says which thread holds which element, that an
  exception on its way is one of `thrown`, and that a thread which is about to
  call late has not been late before.

`ValueProofs`, for any elements, projections, comparators, variants, packs,
numbers and sizes of views:
- `PromiseAlwaysKept`: `then`, `extract` and `promote` make lawful comparators
  of lawful ones, `promote` if ties are transitive.
- `LaterOnlyBreaksTies`: what is less or greater stays so.
- `AccessesAlwaysAgree`: `AccessesAgree`. It follows from the types alone
  (`ViewTypeOK`), whatever the variants were assigned: an access that remembered
  something would need an invariant about it.
- `OneFormAlways`, `MovesAlwaysExact`: `OneFormPerPlace`, `MovesExactly`. The
  invariant `ConInd` says that both iterators are at places: inside a view, or
  at the end of the last. Each of the four recursions, entered where the code
  enters it, lands on a place, at the position asked for; and a position has
  one place, so moves are exact and representations can be compared. That the
  recursions land there is by induction over the views, forwards or backwards.

`ColorizeProofs`, for every string:
- `ScanKeepsMeaning`, `OutputAlwaysExact`: `OutputExact`. The invariant `ColInv`
  says that what the string means is what was written followed by what the rest
  means (`Wrote`), that the error is in the rest if there is one, and that
  `left` and `right` are what a fresh search would find, which is the part that
  the stale offset of hazard `colorize.hpp:683` would break. In a field the
  parser's record has collected exactly the specifiers up to the one just read
  (`Collected`), so its last check sees the same contradictions as `Accepts`
  (`AllCollected`). A field that is never closed needs less: it can only be
  refused, however long the parser turns in it. The iterator may step back
  there, but never to before the `[` (`UnclosedTurn`), or the text already
  written would be read again.

`Induction` has what these two need: the installed provers cannot use an
induction theorem whose predicate is a parameter, so it is stated with a set in
the place of the predicate (`Upwards`, `Downwards`) and proved from the least
element of a set of numbers; a function defined by recursion exists by the
library's theorem on well-founded orders, with the step given as a function
(`UpwardsFunction`, `DownwardsFunction`, and `JumpsFunction` for a value that
depends on one any number of places later).

The assumptions on the constants (`TextFits`: no string is as long as `npos`;
`PackTypes`, `ViewBounds`, `TrackParameters`, `PoolParameters`,
`EachParameters`, `CmpParameters`, and those of the queues and the scheduler)
are stated in the modules that declare them, and TLC evaluates them.

Only model-checked: all liveness properties (`Drains`, `StopReleases`,
`CloseReleases`, `CallsReturn`, `WaitEnds`, `AbortEnds`, `ScanEnds`,
`PoolCallsReturn`, `TrackedWaitReturns`) and the fairness part of the
refinements, which need `ENABLED`. Every invariant and every action property
of a passing run is a theorem, some of them under the assumptions named above.

## 5. Not modelled

- Memory orders weaker than sequential consistency; the wrap of `head_` and
  `tail_`, which 2^64 calls are away; `size()` and the other getters, which
  change nothing.
- `buf_.max_size()` limits and `std::bad_alloc` from the buffers or from
  `threads_`, a thread that cannot be started, and a move-assignment that throws
  when `atomic_queue` hands a value out (constructors that throw are modelled).
- Two states inside `abort`: `close_queue` and the pool's `halt` are one step in
  `Scheduler`, the pool's halt and join and the tracker's stop one in
  `StatsTracker`; and the tracker thread's exit on `!cv_ok`
  without a stop, which would take an interval changed by the user meanwhile.
- Time statistics, and the arithmetic of rates on delta statistics.
- Inputs of unknown number (`UNPREDICTABLE`), for which one consistency check
  is skipped; a consumer that discards its gate; forward ranges that throw.
- Of `concat_view`, the converting constructor, `iter_move`, `iter_swap` and
  views without random access, whose moves are the same with fewer of them.
- Of `colorize`, the numbers in `rgb(...)`, all but two colours and four
  emphases, and `std::format`.
- `exec/port` (adapters of third-party containers), `stack`, `hash`, `util`,
  `allocator`, printing and throwing: no state beyond their arguments and no
  property that is not a restatement. `PROJECT.json` has the reason for each.

## 6. Findings

1. **set_capacity loses a wake-up** (`cvq_spsc_grow`). `set_capacity` raises
   the capacity without notifying `cv_not_full_`; the SPSC pop notifies only if
   the buffer was full by the *new* capacity. The producer sleeps on, the
   consumer drains the buffer and sleeps too.
2. **One gate per chunk** (`sched_release_gate`). With a gate that does not
   count and chunks of more than one input, a release build counts one output
   per chunk; the wait returns with values left in the queue. (A debug build
   throws instead: `sched_abort`.)
3. **No inputs, no end** (`sched_empty`). Nobody marks an empty range as
   processed.
4. **An unclosed field may loop for ever** (`colorize_unclosed`). In a field
   without `]` the last specifier has length `npos`; adding it moves the
   iterator back by one, onto the `|` before the specifier if there is one,
   which is parsed again. `"a[red|bold"` hangs instead of reporting
   "unmatched left brace".

Observations about uses the code neither forbids nor promises, and about code
that no property can reach:

- *Scheduler.* `is_running` is never set, so none of its three checks refuses
  anything: a second `start()` launches two more workers.
- *Batch consumers.* Pops are counted when `consumer_func` returns. Consumers
  that pop two values in one call, one of them holding the last value and
  blocking on the next, keep the run from completing: with `Pops = {2}` and
  counting gates `WaitEnds` fails.
- *Reset while old workers run.* A worker still in its producer loop takes the
  inputs that `reset_same_inputs_for_next_execution` rewound before `start` is
  called; `start` can find them all processed and refuse, with the message that
  recommends the reset. This is why `sched_again` reaches `startThrew`.
- *Tracker.* `scheduler.hpp:365` announces "always print tick at the end", but
  the call after it goes through `tick()`, which shows nothing if the counts are
  those of `prev_stats_` (`scheduler_stats_tracker.hpp:98`), and the reset for
  the next execution leaves `prev_stats_` as it was. An execution with the same
  counts as the one before it, over before its first interval, prints nothing:
  with `Jobs = 1` and two executions, each `Start`, `Report`, `Awake` and the
  join with the thread still waiting, the second returns with
  `shown = Nothing`. `LastTickFinal` states this as its exception, and that
  there is no other.
  After a stop the last tick can show less than the one before, and
  the first of a second execution is compared with the last of the first:
  negative rates. A thread that ended with an exception stays joinable, and
  `start()` keeps it. Its exception makes the wait skip `close_queue` and
  `rethrow_exceptions`, and outlives `set_stats_tracker`.
- *Pool.* An exception can be lost while an entry is being stored: a worker
  that throws before `emplace_back` has returned (`Store` while the client is
  there) has no entry to write to. The
  destructor remembers the *last* exception under the name `first_exception`
  and rethrows it where nothing can be thrown. `halt()` is for good;
  `launch_rest` counts threads that have exited.
- *Colorize.* `[[` is refused when no `]` follows anywhere. `reset` with a
  background colour is accepted and the colour dropped. A leading `|` is
  accepted, a trailing or double one is not. `format_colorize` scans the
  formatted string, so brackets in an argument are markup.
- *Concat.* The converting constructor of the iterator asks for its own
  alternative, still the first, instead of that of its argument: past the first
  view `std::get` throws.
- *Variant views.* The `static_assert` of the converting constructor compares
  the new pack with itself, so widening compiles; `visit` of three views does
  not.
- *Comparators.* `promote` of a partial comparator whose ties are not
  transitive (a NaN) gives a "strong" order that runs in a circle.

## 7. Plan

Done: all modules, runs and proofs above. What could follow, in this order:

1. `StatsTracker` and `WorkerPool` composed with `Scheduler`, over `Job`.
2. Inputs of unknown number and consumers that discard their gates.
3. In `Colorize`, all eight emphases, and the text of a `rgb(...)`.
