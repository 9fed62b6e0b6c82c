---------------------------- MODULE TicketQueue -----------------------------
(***************************************************************************)
(* What yk::exec::atomic_queue promises, without slots, turns, spinning or *)
(* compare-and-swap.  Pushes and pops are numbered in the order in which   *)
(* they enter.  Pop number k returns the value of push number k, once that *)
(* push has returned; push number k returns once pop number k - Capacity   *)
(* has.  A try that fails is no call at all.                               *)
(***************************************************************************)
EXTENDS Integers, Sequences

CONSTANTS
    Producers, Consumers,
    Capacity,     \* number of slots
    PushQuota,    \* bound: pushes of one producer
    PopQuota      \* bound: pops of one consumer

VARIABLES
    sent,         \* sent[k + 1]: the value of push number k
    taken,        \* number of pops that have entered
    pushing,      \* pushing[p]: the number of p's push in progress, or NoTicket
    popping,      \* popping[c]: the number of c's pop in progress, or NoTicket
    pushed,       \* the numbers of the pushes that have returned
    received,     \* <<k, v>>: pop number k has returned v
    pushes,       \* pushes[p]: pushes p has entered
    pops          \* pops[c]: pops c has entered

vars == <<sent, taken, pushing, popping, pushed, received, pushes, pops>>

NoTicket == -1

Popped == {r[1] : r \in received}

Init ==
    /\ sent = <<>>
    /\ taken = 0
    /\ pushing = [p \in Producers |-> NoTicket]
    /\ popping = [c \in Consumers |-> NoTicket]
    /\ pushed = {}
    /\ received = {}
    /\ pushes = [p \in Producers |-> 0]
    /\ pops = [c \in Consumers |-> 0]

PushEnter(p) ==
    /\ pushing[p] = NoTicket
    /\ pushes[p] < PushQuota
    /\ sent' = Append(sent, <<p, pushes[p] + 1>>)
    /\ pushing' = [pushing EXCEPT ![p] = Len(sent)]
    /\ pushes' = [pushes EXCEPT ![p] = @ + 1]
    /\ UNCHANGED <<taken, popping, pushed, received, pops>>

PushReturn(p) ==
    /\ pushing[p] # NoTicket
    /\ pushing[p] < Capacity \/ pushing[p] - Capacity \in Popped
    /\ pushed' = pushed \union {pushing[p]}
    /\ pushing' = [pushing EXCEPT ![p] = NoTicket]
    /\ UNCHANGED <<sent, taken, popping, received, pushes, pops>>

PopEnter(c) ==
    /\ popping[c] = NoTicket
    /\ pops[c] < PopQuota
    /\ popping' = [popping EXCEPT ![c] = taken]
    /\ taken' = taken + 1
    /\ pops' = [pops EXCEPT ![c] = @ + 1]
    /\ UNCHANGED <<sent, pushing, pushed, received, pushes>>

PopReturn(c) ==
    /\ popping[c] \in pushed
    /\ received' = received \union {<<popping[c], sent[popping[c] + 1]>>}
    /\ popping' = [popping EXCEPT ![c] = NoTicket]
    /\ UNCHANGED <<sent, taken, pushing, pushed, pushes, pops>>

Next ==
    \/ \E p \in Producers : PushEnter(p) \/ PushReturn(p)
    \/ \E c \in Consumers : PopEnter(c) \/ PopReturn(c)

(* A call that has entered returns when it may.                            *)
Fairness ==
    /\ \A p \in Producers : WF_vars(PushReturn(p))
    /\ \A c \in Consumers : WF_vars(PopReturn(c))

Safe == Init /\ [][Next]_vars
Spec == Safe /\ Fairness
=============================================================================
