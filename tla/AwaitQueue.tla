----------------------------- MODULE AwaitQueue -----------------------------
(***************************************************************************)
(* What yk::exec::cv_queue promises its callers, without a mutex, without  *)
(* a condition variable and without a notification.  A call of push_wait   *)
(* or pop_wait that cannot finish is merely "waiting"; it may finish in    *)
(* any state in which its condition holds, and under fairness it does.     *)
(* CvQueue, the queue as it is written, is shown to implement this module: *)
(* the fairness part of that claim is that no wake-up is ever lost.        *)
(***************************************************************************)
EXTENDS Integers, Sequences, SequencesExt

CONSTANTS
    Producers,    \* threads that call push_wait
    Consumers,    \* threads that call pop_wait
    QueueBased,   \* cv_queue_flag::queue_based_push_pop
    StopSupport,  \* cv_queue_flag::stop_token_support
    Capacity0,    \* the constructor's initial_capacity
    Capacities,   \* the arguments set_capacity is called with
    CanGrow,      \* whether set_capacity may raise the capacity
    Quota,        \* bound: push_wait calls of one producer
    MaxControl    \* bound: close, open, clear, set_capacity and stop calls

VARIABLES
    buf,          \* the buffered values, oldest first
    capacity,     \* capacity_
    closed,       \* closed_
    stopped,      \* whether a stop was requested of the callers' stop_token
    waiting,      \* the threads blocked inside a call
    attempts,     \* attempts[p]: push_wait calls of p that returned
    delivered,    \* the values pop_wait returned, in order
    control       \* calls of the controlling thread so far

vars == <<buf, capacity, closed, stopped, waiting, attempts, delivered, control>>

Init ==
    /\ buf = <<>>
    /\ capacity = Capacity0
    /\ closed = FALSE
    /\ stopped = FALSE
    /\ waiting = {}
    /\ attempts = [p \in Producers |-> 0]
    /\ delivered = <<>>
    /\ control = 0

Interrupted == StopSupport /\ stopped
Room        == Len(buf) < capacity
MayPush(p)  == p \in waiting \/ attempts[p] < Quota

-----------------------------------------------------------------------------
(* Producers.                                                              *)

PushReturn(p) ==
    /\ waiting' = waiting \ {p}
    /\ attempts' = [attempts EXCEPT ![p] = @ + 1]
    /\ UNCHANGED <<capacity, closed, stopped, delivered, control>>

Push(p) ==
    /\ MayPush(p)
    /\ Room /\ ~closed /\ ~Interrupted
    /\ buf' = Append(buf, <<p, attempts[p] + 1>>)
    /\ PushReturn(p)

PushFail(p) ==
    /\ MayPush(p)
    /\ closed \/ Interrupted
    /\ UNCHANGED buf
    /\ PushReturn(p)

PushBlock(p) ==
    /\ attempts[p] < Quota
    /\ ~Room /\ ~closed /\ ~Interrupted
    /\ waiting' = waiting \union {p}
    /\ UNCHANGED <<buf, capacity, closed, stopped, attempts, delivered, control>>

-----------------------------------------------------------------------------
(* Consumers.                                                              *)

Pop(c) ==
    /\ buf # <<>> /\ ~closed /\ ~Interrupted
    /\ IF QueueBased
       THEN /\ delivered' = Append(delivered, Head(buf))
            /\ buf' = Tail(buf)
       ELSE /\ delivered' = Append(delivered, Last(buf))
            /\ buf' = Front(buf)
    /\ waiting' = waiting \ {c}
    /\ UNCHANGED <<capacity, closed, stopped, attempts, control>>

PopFail(c) ==
    /\ closed \/ Interrupted
    /\ waiting' = waiting \ {c}
    /\ UNCHANGED <<buf, capacity, closed, stopped, attempts, delivered, control>>

PopBlock(c) ==
    /\ buf = <<>> /\ ~closed /\ ~Interrupted
    /\ waiting' = waiting \union {c}
    /\ UNCHANGED <<buf, capacity, closed, stopped, attempts, delivered, control>>

-----------------------------------------------------------------------------
(* The controlling thread.                                                 *)

Controlled ==
    /\ control < MaxControl
    /\ control' = control + 1
    /\ UNCHANGED <<waiting, attempts, delivered>>

Close == Controlled /\ closed' = TRUE /\ UNCHANGED <<buf, capacity, stopped>>
Open  == Controlled /\ closed' = FALSE /\ UNCHANGED <<buf, capacity, stopped>>
Clear == Controlled /\ buf' = <<>> /\ UNCHANGED <<capacity, closed, stopped>>

SetCapacity(n) ==
    /\ Controlled
    /\ n >= 0
    /\ n > capacity => CanGrow
    /\ capacity' = n
    /\ UNCHANGED <<buf, closed, stopped>>

RequestStop ==
    /\ StopSupport
    /\ Controlled
    /\ stopped' = TRUE
    /\ UNCHANGED <<buf, capacity, closed>>

-----------------------------------------------------------------------------

PushReturns(p) == Push(p) \/ PushFail(p)
PopReturns(c)  == Pop(c) \/ PopFail(c)

Next ==
    \/ \E p \in Producers : PushReturns(p) \/ PushBlock(p)
    \/ \E c \in Consumers : PopReturns(c) \/ PopBlock(c)
    \/ Close \/ Open \/ Clear \/ RequestStop
    \/ \E n \in Capacities : SetCapacity(n)

(* A call that can return does return: it is not overlooked for ever.      *)
Fairness ==
    /\ \A p \in Producers : WF_vars(PushReturns(p))
    /\ \A c \in Consumers : WF_vars(PopReturns(c))

Safe == Init /\ [][Next]_vars
Spec == Safe /\ Fairness
=============================================================================
