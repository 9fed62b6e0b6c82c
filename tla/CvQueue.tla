------------------------------ MODULE CvQueue -------------------------------
(***************************************************************************)
(* yk::exec::cv_queue (src/include/yk/exec/cv_queue.hpp): a bounded buffer *)
(* under one mutex with two condition variables, cv_not_full_ on which     *)
(* producers sleep and cv_not_empty_ on which consumers sleep.             *)
(*                                                                         *)
(* Every member function holds mtx_ from its first statement to its last,  *)
(* and gives it up only inside condition_variable::wait, so what a thread  *)
(* does between two waits is one action.  A thread is "idle" outside a     *)
(* call, "asleep" on its condition variable, and "awake" when it has been  *)
(* woken but does not hold mtx_ again yet: on its next step it finds the   *)
(* wait condition true and goes on, or goes back to sleep.                 *)
(*                                                                         *)
(* What makes the class delicate is who is notified, and when.  The single *)
(* producer / single consumer form notifies on the empty and the full edge *)
(* only; the other forms choose notify_one or notify_all by the flags.     *)
(***************************************************************************)
EXTENDS Integers, Sequences, SequencesExt

CONSTANTS
    Producers,      \* threads that call push_wait
    Consumers,      \* threads that call pop_wait
    MultiProducer,  \* ~ cv_queue_traits::is_single_producer
    MultiConsumer,  \* ~ cv_queue_traits::is_single_consumer
    QueueBased,     \* cv_queue_flag::queue_based_push_pop
    StopSupport,    \* cv_queue_flag::stop_token_support
    Capacity0,      \* the constructor's initial_capacity
    Capacities,     \* the arguments set_capacity is called with
    CanGrow,        \* whether set_capacity may raise the capacity
    Quota,          \* bound: push_wait calls of one producer
    MaxControl      \* bound: close, open, clear, set_capacity and stop calls

ASSUME ConstantTypes ==
    /\ {MultiProducer, MultiConsumer, QueueBased, StopSupport, CanGrow} \subseteq BOOLEAN
    /\ Capacity0 \in Nat
    /\ Capacities \subseteq Int
    /\ Quota \in Nat
    /\ MaxControl \in Nat

ASSUME RolesDisjoint == Producers \intersect Consumers = {}

(* The contract of the flags: a queue declared single_producer is used by  *)
(* one producing thread, one declared single_consumer by one consuming one.*)
ASSUME SingleMeansOne ==
    /\ ~MultiProducer => \A p, q \in Producers : p = q
    /\ ~MultiConsumer => \A c, d \in Consumers : c = d

VARIABLES
    buf,        \* buf_, oldest value first
    capacity,   \* capacity_
    closed,     \* closed_
    stopped,    \* stop_requested() of the stop_token the callers pass
    call,       \* call[t]: where thread t is in push_wait or pop_wait
    attempts,   \* attempts[p]: push_wait calls of p that returned
    delivered,  \* history: the values pop_wait returned, in order
    control     \* calls of the controlling thread so far

vars == <<buf, capacity, closed, stopped, call, attempts, delivered, control>>

Threads == Producers \union Consumers

(* Values are told apart by who pushed them and in which call.             *)
Values == Producers \X (Nat \ {0})

Init ==
    /\ buf = <<>>
    /\ capacity = Capacity0
    /\ closed = FALSE
    /\ stopped = FALSE
    /\ call = [t \in Threads |-> "idle"]
    /\ attempts = [p \in Producers |-> 0]
    /\ delivered = <<>>
    /\ control = 0

-----------------------------------------------------------------------------
(* The conditions the calls wait for, and the notifications they send.     *)

PushWaitCond == Len(buf) < capacity \/ closed
PopWaitCond  == buf # <<>> \/ closed
Interrupted  == StopSupport /\ stopped

Asleep(T) == {t \in T : call[t] = "asleep"}

(* The sets of threads notify_one and notify_all may wake.                 *)
NotifyOne(T) == IF Asleep(T) = {} THEN {{}} ELSE {{t} : t \in Asleep(T)}
NotifyAll(T) == {Asleep(T)}

(* Mutant of PushNotifies: was_empty is read after do_push.                *)
PushNotifies_LateEdge ==
    IF ~MultiProducer /\ ~MultiConsumer
    THEN {{}}
    ELSE IF MultiConsumer THEN NotifyAll(Consumers) ELSE NotifyOne(Consumers)

(* Mutant of PushNotifies: the two condition variables are swapped.        *)
PushNotifies_Swapped ==
    IF MultiProducer THEN NotifyAll(Producers) ELSE NotifyOne(Producers)

PushNotifies ==
    IF ~MultiProducer /\ ~MultiConsumer
    THEN IF buf = <<>> THEN NotifyOne(Consumers) ELSE {{}}
    ELSE IF MultiConsumer THEN NotifyAll(Consumers) ELSE NotifyOne(Consumers)

(* Mutant of PopNotifies: was_full is read after do_pop.                   *)
PopNotifies_LateEdge ==
    IF ~MultiProducer /\ ~MultiConsumer
    THEN IF Len(buf) > capacity THEN NotifyOne(Producers) ELSE {{}}
    ELSE IF MultiProducer THEN NotifyAll(Producers) ELSE NotifyOne(Producers)

(* Mutant of PopNotifies: every form notifies on the full edge only.       *)
PopNotifies_Edge ==
    IF Len(buf) >= capacity
    THEN IF MultiProducer THEN NotifyAll(Producers) ELSE NotifyOne(Producers)
    ELSE {{}}

PopNotifies ==
    IF ~MultiProducer /\ ~MultiConsumer
    THEN IF Len(buf) >= capacity THEN NotifyOne(Producers) ELSE {{}}
    ELSE IF MultiProducer THEN NotifyAll(Producers) ELSE NotifyOne(Producers)

Wake(W, f) == [t \in Threads |-> IF t \in W THEN "awake" ELSE f[t]]

-----------------------------------------------------------------------------
(* push_wait: wait until there is room, then throw interrupt_exception if  *)
(* a stop was requested, return false if the queue is closed, and append   *)
(* and notify otherwise.  The first two leave the queue alone.             *)

PushRunning(p) ==
    \/ call[p] = "idle" /\ attempts[p] < Quota
    \/ call[p] = "awake"

PushSleep(p) ==
    /\ PushRunning(p)
    /\ ~PushWaitCond /\ ~Interrupted
    /\ call' = [call EXCEPT ![p] = "asleep"]
    /\ UNCHANGED <<buf, capacity, closed, stopped, attempts, delivered, control>>

PushFail(p) ==
    /\ PushRunning(p)
    /\ Interrupted \/ closed
    /\ call' = [call EXCEPT ![p] = "idle"]
    /\ attempts' = [attempts EXCEPT ![p] = @ + 1]
    /\ UNCHANGED <<buf, capacity, closed, stopped, delivered, control>>

PushDone(p) ==
    /\ PushRunning(p)
    /\ PushWaitCond /\ ~Interrupted /\ ~closed
    /\ \E W \in PushNotifies : call' = Wake(W, [call EXCEPT ![p] = "idle"])
    /\ buf' = Append(buf, <<p, attempts[p] + 1>>)
    /\ attempts' = [attempts EXCEPT ![p] = @ + 1]
    /\ UNCHANGED <<capacity, closed, stopped, delivered, control>>

PushWait(p) == PushSleep(p) \/ PushFail(p) \/ PushDone(p)

-----------------------------------------------------------------------------
(* pop_wait: the same three outcomes.                                      *)

PopRunning(c) == call[c] \in {"idle", "awake"}

PopSleep(c) ==
    /\ PopRunning(c)
    /\ ~PopWaitCond /\ ~Interrupted
    /\ call' = [call EXCEPT ![c] = "asleep"]
    /\ UNCHANGED <<buf, capacity, closed, stopped, attempts, delivered, control>>

PopFail(c) ==
    /\ PopRunning(c)
    /\ Interrupted \/ closed
    /\ call' = [call EXCEPT ![c] = "idle"]
    /\ UNCHANGED <<buf, capacity, closed, stopped, attempts, delivered, control>>

(* Mutant of PopDone: do_pop takes the newest value of a queue too.        *)
PopDone_Newest(c) ==
    /\ PopRunning(c)
    /\ PopWaitCond /\ ~Interrupted /\ ~closed
    /\ delivered' = Append(delivered, Last(buf))
    /\ buf' = Front(buf)
    /\ \E W \in PopNotifies : call' = Wake(W, [call EXCEPT ![c] = "idle"])
    /\ UNCHANGED <<capacity, closed, stopped, attempts, control>>

(* do_pop: a stack gives its newest value, a queue its oldest.             *)
PopDone(c) ==
    /\ PopRunning(c)
    /\ PopWaitCond /\ ~Interrupted /\ ~closed
    /\ IF QueueBased
       THEN /\ delivered' = Append(delivered, Head(buf))
            /\ buf' = Tail(buf)
       ELSE /\ delivered' = Append(delivered, Last(buf))
            /\ buf' = Front(buf)
    /\ \E W \in PopNotifies : call' = Wake(W, [call EXCEPT ![c] = "idle"])
    /\ UNCHANGED <<capacity, closed, stopped, attempts, control>>

PopWait(c) == PopSleep(c) \/ PopFail(c) \/ PopDone(c)

(* A condition variable may wake a sleeper that nobody notified.           *)
SpuriousWakeup(t) ==
    /\ call[t] = "asleep"
    /\ call' = [call EXCEPT ![t] = "awake"]
    /\ UNCHANGED <<buf, capacity, closed, stopped, attempts, delivered, control>>

-----------------------------------------------------------------------------
(* The controlling thread.                                                 *)

Controlled ==
    /\ control < MaxControl
    /\ control' = control + 1
    /\ UNCHANGED <<attempts, delivered>>

(* Mutant of Close: only the consumers are notified.                       *)
Close_ConsumersOnly ==
    /\ Controlled
    /\ closed' = TRUE
    /\ call' = Wake(Asleep(Consumers), call)
    /\ UNCHANGED <<buf, capacity, stopped>>

Close ==
    /\ Controlled
    /\ closed' = TRUE
    /\ call' = Wake(Asleep(Threads), call)
    /\ UNCHANGED <<buf, capacity, stopped>>

Open ==
    /\ Controlled
    /\ closed' = FALSE
    /\ call' = Wake(Asleep(Threads), call)
    /\ UNCHANGED <<buf, capacity, stopped>>

(* Mutant of Clear: nobody is notified.                                    *)
Clear_Silent ==
    /\ Controlled
    /\ buf' = <<>>
    /\ UNCHANGED <<capacity, closed, stopped, call>>

Clear ==
    /\ Controlled
    /\ buf' = <<>>
    /\ call' = Wake(Asleep(Producers), call)
    /\ UNCHANGED <<capacity, closed, stopped>>

(* Mutant of SetCapacity: a negative argument is not rejected.             *)
SetCapacity_Unchecked(n) ==
    /\ Controlled
    /\ n > capacity => CanGrow
    /\ capacity' = n
    /\ UNCHANGED <<buf, closed, stopped, call>>

(* set_capacity and set_capacity_and_reserve throw on a negative argument, *)
(* and otherwise store it: nobody is notified.                             *)
SetCapacity(n) ==
    /\ Controlled
    /\ n >= 0
    /\ n > capacity => CanGrow
    /\ capacity' = n
    /\ UNCHANGED <<buf, closed, stopped, call>>

(* Mutant of RequestStop: the wait is the one without a stop_token, which  *)
(* registers no callback.                                                  *)
RequestStop_Unseen ==
    /\ StopSupport
    /\ Controlled
    /\ stopped' = TRUE
    /\ UNCHANGED <<buf, capacity, closed, call>>

(* request_stop() on the source of the callers' stop_token: the callback   *)
(* condition_variable_any::wait registered notifies every sleeper.         *)
RequestStop ==
    /\ StopSupport
    /\ Controlled
    /\ stopped' = TRUE
    /\ call' = Wake(Asleep(Threads), call)
    /\ UNCHANGED <<buf, capacity, closed>>

-----------------------------------------------------------------------------

Next ==
    \/ \E p \in Producers : PushWait(p)
    \/ \E c \in Consumers : PopWait(c)
    \/ \E t \in Threads : SpuriousWakeup(t)
    \/ Close \/ Open \/ Clear \/ RequestStop
    \/ \E n \in Capacities : SetCapacity(n)

(* A thread that can run does run, and a consumer calls pop_wait again and *)
(* again (the loop of scheduler.hpp's do_worker_consumer).  Nothing is     *)
(* assumed of spurious wake-ups or of the controlling thread.              *)
Fairness ==
    /\ \A p \in Producers : WF_vars(PushWait(p))
    /\ \A c \in Consumers : WF_vars(PopWait(c))

Safe == Init /\ [][Next]_vars
Spec == Safe /\ Fairness

-----------------------------------------------------------------------------
(* Properties.                                                             *)

TypeOK ==
    /\ buf \in Seq(Values)
    /\ capacity \in Nat
    /\ closed \in BOOLEAN
    /\ stopped \in BOOLEAN
    /\ call \in [Threads -> {"idle", "asleep", "awake"}]
    /\ attempts \in [Producers -> Nat]
    /\ delivered \in Seq(Values)
    /\ control \in 0..MaxControl

(* No consumer is left asleep, with no wake-up on its way, while there is  *)
(* something for it to do: the edge-triggered notify_one of the SPSC push, *)
(* the notify_one of the single-consumer push and the missing              *)
(* notification of clear() all have to be enough.                          *)
NoStrandedConsumer ==
    \A c \in Consumers : call[c] = "asleep" => ~PopWaitCond /\ ~Interrupted

(* The same of producers, for the notifications of pop and of clear().  It *)
(* is claimed only where set_capacity never raises the capacity.           *)
NoStrandedProducer ==
    \A p \in Producers : call[p] = "asleep" => ~PushWaitCond /\ ~Interrupted

(* Every thread that takes part asleep at once, in an open queue: nobody   *)
(* is left who could wake anybody.                                         *)
NotAllAsleep ==
    ~ \A t \in Threads : call[t] = "asleep"

(* No value twice, and those of one producer in the order of its calls.   *)
InOrder(s) ==
    \A i, j \in DOMAIN s :
        (i < j /\ s[i][1] = s[j][1]) => s[i][2] < s[j][2]

(* The values of one producer arrive in the order of its calls, and none   *)
(* twice, whichever consumers they reach (queue_based_push_pop).           *)
PerProducerOrder == InOrder(delivered)

(* A closed queue lets every blocked call go, unless it is opened again.   *)
CloseReleases ==
    \A t \in Threads : closed /\ call[t] # "idle" ~> call[t] = "idle" \/ ~closed

(* A requested stop lets every blocked call go, full or empty.             *)
StopReleases ==
    \A t \in Threads : Interrupted /\ call[t] # "idle" ~> call[t] = "idle"

(* What was pushed does not stay: consumers that keep popping empty an     *)
(* open queue.                                                             *)
Drains == buf # <<>> ~> buf = <<>> \/ closed \/ Interrupted

(* The queue implements its specification without condition variables.     *)
Pending == {t \in Threads : call[t] # "idle"}

Await == INSTANCE AwaitQueue WITH waiting <- Pending

ImplementsAwaitQueue == Await!Spec
=============================================================================
