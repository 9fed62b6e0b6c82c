---------------------------- MODULE AtomicQueue -----------------------------
(***************************************************************************)
(* yk::exec::atomic_queue (src/include/yk/exec/atomic_queue.hpp): a        *)
(* bounded multi-producer multi-consumer queue over an array of slots,     *)
(* without locks.  head_ and tail_ hand out tickets; ticket k belongs to   *)
(* slot k % capacity in round k / capacity.  The slot's turn says whose it *)
(* is: 2 * round, the pusher's of that round; 2 * round + 1, the popper's. *)
(*                                                                         *)
(* Every access to an atomic (and every access to a slot's storage) is an  *)
(* action of its own, so threads interleave between any two of them.  The  *)
(* orders the code asks for (acquire loads and release stores of turn,     *)
(* sequentially consistent read-modify-writes) are modelled by one global  *)
(* order of these accesses.  head_ and tail_ do not wrap around here.      *)
(***************************************************************************)
EXTENDS Integers, Sequences

CONSTANTS
    Producers,    \* threads that call push and try_push
    Consumers,    \* threads that call pop and try_pop
    Capacity,     \* the store's capacity
    CanThrow,     \* whether constructing a value may throw
    PushQuota,    \* bound: pushes one producer makes
    PopQuota      \* bound: pops one consumer makes

(* The store's constructor throws std::bad_alloc on a capacity below one.  *)
ASSUME CapacityType == Capacity \in Nat \ {0}

ASSUME QuotaTypes ==
    CanThrow \in BOOLEAN /\ PushQuota \in Nat /\ PopQuota \in Nat

ASSUME RolesDisjoint == Producers \intersect Consumers = {}

VARIABLES
    head,         \* head_
    tail,         \* tail_
    turn,         \* turn[s]: slots_[s].turn
    storage,      \* storage[s]: the value alive in slots_[s].storage, or Dead
    pc,           \* pc[t]: what thread t does next
    ticket,       \* ticket[t]: the local head or tail of t's call
    pushes,       \* pushes[p]: tickets p has claimed
    pops,         \* pops[c]: tickets c has claimed
    sent,         \* history: sent[k + 1] is the value of the push with ticket k
    received,     \* history: <<k, v>>, the pop with ticket k extracted v
    witness       \* history: witness[t], when t's try last looked at a turn,
                  \* the queue was full (for a push), empty (for a pop)

vars == <<head, tail, turn, storage, pc, ticket, pushes, pops, sent, received, witness>>

Threads == Producers \union Consumers
Slots   == 0..Capacity - 1
Values  == Producers \X (Nat \ {0})
Dead    == <<>>

idx(k)   == k % Capacity
round(k) == k \div Capacity

PushPc == {"idle", "spin", "look", "cas", "reload", "construct", "publish"}
PopPc  == {"idle", "spin", "look", "cas", "reload", "extract", "destroy", "release"}

Init ==
    /\ head = 0
    /\ tail = 0
    /\ turn = [s \in Slots |-> 0]
    /\ storage = [s \in Slots |-> Dead]
    /\ pc = [t \in Threads |-> "idle"]
    /\ ticket = [t \in Threads |-> 0]
    /\ pushes = [p \in Producers |-> 0]
    /\ pops = [c \in Consumers |-> 0]
    /\ sent = <<>>
    /\ received = {}
    /\ witness = [t \in Threads |-> FALSE]

Goto(t, l) == pc' = [pc EXCEPT ![t] = l]

(* The call is over, and its locals with it.                               *)
Return(t) ==
    /\ Goto(t, "idle")
    /\ ticket' = [ticket EXCEPT ![t] = 0]
    /\ witness' = [witness EXCEPT ![t] = FALSE]

(* What a ticket's slot has been through, read off its turn.               *)
Published(k) == turn[idx(k)] >= 2 * round(k) + 1
Released(k)  == turn[idx(k)] >= 2 * round(k) + 2

(* Mutant of Writable: any even turn will do.                              *)
Writable_Even(k) == turn[idx(k)] % 2 = 0

(* Mutant of Readable: any odd turn will do.                               *)
Readable_Odd(k) == turn[idx(k)] % 2 = 1

Writable(k) == turn[idx(k)] = 2 * round(k)
Readable(k) == turn[idx(k)] = 2 * round(k) + 1

-----------------------------------------------------------------------------
(* push and try_push.                                                      *)

(* The fetch_add or the successful compare-exchange on head_: p now owns   *)
(* the ticket.                                                             *)
ClaimHead(p) ==
    /\ head' = head + 1
    /\ ticket' = [ticket EXCEPT ![p] = head]
    /\ pushes' = [pushes EXCEPT ![p] = @ + 1]
    /\ sent' = Append(sent, <<p, pushes[p] + 1>>)
    /\ UNCHANGED <<tail, turn, storage, pops, received, witness>>

Push(p) ==
    /\ pc[p] = "idle" /\ pushes[p] < PushQuota
    /\ ClaimHead(p)
    /\ Goto(p, "spin")

(* Mutant of PushSpin: the loop on the slot's turn is gone.                *)
PushSpin_NoWait(p) ==
    /\ pc[p] = "spin"
    /\ Goto(p, "construct")
    /\ UNCHANGED <<head, tail, turn, storage, ticket, pushes, pops, sent, received, witness>>

PushSpin(p) ==
    /\ pc[p] = "spin"
    /\ Writable(ticket[p])
    /\ Goto(p, "construct")
    /\ UNCHANGED <<head, tail, turn, storage, ticket, pushes, pops, sent, received, witness>>

TryPush(p) ==
    /\ pc[p] = "idle" /\ pushes[p] < PushQuota
    /\ ticket' = [ticket EXCEPT ![p] = head]
    /\ Goto(p, "look")
    /\ UNCHANGED <<head, tail, turn, storage, pushes, pops, sent, received, witness>>

(* The queue is full: the pop that frees the next slot has not finished.   *)
Full == ~Writable(head)

TryPushLook(p) ==
    /\ pc[p] = "look"
    /\ Goto(p, IF Writable(ticket[p]) THEN "cas" ELSE "reload")
    /\ witness' = [witness EXCEPT ![p] = Full]
    /\ UNCHANGED <<head, tail, turn, storage, ticket, pushes, pops, sent, received>>

TryPushCas(p) ==
    /\ pc[p] = "cas"
    /\ \/ /\ head = ticket[p]
          /\ ClaimHead(p)
          /\ Goto(p, "construct")
       \/ /\ head # ticket[p]
          /\ ticket' = [ticket EXCEPT ![p] = head]
          /\ Goto(p, "look")
          /\ UNCHANGED <<head, tail, turn, storage, pushes, pops, sent, received, witness>>

(* Mutant of TryPushFails: false at once, head_ is not loaded again.       *)
TryPushFails_AtOnce(p) ==
    /\ pc[p] = "reload"
    /\ Return(p)
    /\ UNCHANGED <<head, tail, turn, storage, pushes, pops, sent, received>>

TryPushFails(p) ==
    /\ pc[p] = "reload"
    /\ head = ticket[p]
    /\ Return(p)
    /\ UNCHANGED <<head, tail, turn, storage, pushes, pops, sent, received>>

TryPushReload(p) ==
    /\ pc[p] = "reload"
    /\ head # ticket[p]
    /\ ticket' = [ticket EXCEPT ![p] = head]
    /\ Goto(p, "look")
    /\ UNCHANGED <<head, tail, turn, storage, pushes, pops, sent, received, witness>>

(* Mutant of Construct: continues as a pop would (a copied line).          *)
Construct_Copied(p) ==
    /\ pc[p] = "construct"
    /\ storage' = [storage EXCEPT ![idx(ticket[p])] = sent[ticket[p] + 1]]
    /\ Goto(p, "release")
    /\ UNCHANGED <<head, tail, turn, ticket, pushes, pops, sent, received, witness>>

Construct(p) ==
    /\ pc[p] = "construct"
    /\ storage' = [storage EXCEPT ![idx(ticket[p])] = sent[ticket[p] + 1]]
    /\ Goto(p, "publish")
    /\ UNCHANGED <<head, tail, turn, ticket, pushes, pops, sent, received, witness>>

(* Mutant of ConstructThrows: a scope guard publishes the slot anyway.     *)
ConstructThrows_Guarded(p) ==
    /\ CanThrow
    /\ pc[p] = "construct"
    /\ turn' = [turn EXCEPT ![idx(ticket[p])] = 2 * round(ticket[p]) + 1]
    /\ Return(p)
    /\ UNCHANGED <<head, tail, storage, pushes, pops, sent, received>>

(* The constructor throws: the exception leaves push with the ticket taken *)
(* and the slot's turn as it was.                                          *)
ConstructThrows(p) ==
    /\ CanThrow
    /\ pc[p] = "construct"
    /\ Return(p)
    /\ UNCHANGED <<head, tail, turn, storage, pushes, pops, sent, received>>

(* Mutant of Publish: the turn is handed to the next pusher.               *)
Publish_Skips(p) ==
    /\ pc[p] = "publish"
    /\ turn' = [turn EXCEPT ![idx(ticket[p])] = 2 * round(ticket[p]) + 2]
    /\ Return(p)
    /\ UNCHANGED <<head, tail, storage, pushes, pops, sent, received>>

Publish(p) ==
    /\ pc[p] = "publish"
    /\ turn' = [turn EXCEPT ![idx(ticket[p])] = 2 * round(ticket[p]) + 1]
    /\ Return(p)
    /\ UNCHANGED <<head, tail, storage, pushes, pops, sent, received>>

PushStep(p) ==
    \/ Push(p) \/ PushSpin(p)
    \/ TryPush(p) \/ TryPushLook(p) \/ TryPushCas(p)
    \/ TryPushFails(p) \/ TryPushReload(p)
    \/ Construct(p) \/ ConstructThrows(p) \/ Publish(p)

-----------------------------------------------------------------------------
(* pop and try_pop.                                                        *)

ClaimTail(c) ==
    /\ tail' = tail + 1
    /\ ticket' = [ticket EXCEPT ![c] = tail]
    /\ pops' = [pops EXCEPT ![c] = @ + 1]
    /\ UNCHANGED <<head, turn, storage, pushes, sent, received, witness>>

Pop(c) ==
    /\ pc[c] = "idle" /\ pops[c] < PopQuota
    /\ ClaimTail(c)
    /\ Goto(c, "spin")

PopSpin(c) ==
    /\ pc[c] = "spin"
    /\ Readable(ticket[c])
    /\ Goto(c, "extract")
    /\ UNCHANGED <<head, tail, turn, storage, ticket, pushes, pops, sent, received, witness>>

TryPop(c) ==
    /\ pc[c] = "idle" /\ pops[c] < PopQuota
    /\ ticket' = [ticket EXCEPT ![c] = tail]
    /\ Goto(c, "look")
    /\ UNCHANGED <<head, tail, turn, storage, pushes, pops, sent, received, witness>>

(* The queue is empty: the push that fills the next slot has not finished. *)
Empty == ~Readable(tail)

TryPopLook(c) ==
    /\ pc[c] = "look"
    /\ Goto(c, IF Readable(ticket[c]) THEN "cas" ELSE "reload")
    /\ witness' = [witness EXCEPT ![c] = Empty]
    /\ UNCHANGED <<head, tail, turn, storage, ticket, pushes, pops, sent, received>>

TryPopCas(c) ==
    /\ pc[c] = "cas"
    /\ \/ /\ tail = ticket[c]
          /\ ClaimTail(c)
          /\ Goto(c, "extract")
       \/ /\ tail # ticket[c]
          /\ ticket' = [ticket EXCEPT ![c] = tail]
          /\ Goto(c, "look")
          /\ UNCHANGED <<head, tail, turn, storage, pushes, pops, sent, received, witness>>

TryPopFails(c) ==
    /\ pc[c] = "reload"
    /\ tail = ticket[c]
    /\ Return(c)
    /\ UNCHANGED <<head, tail, turn, storage, pushes, pops, sent, received>>

TryPopReload(c) ==
    /\ pc[c] = "reload"
    /\ tail # ticket[c]
    /\ ticket' = [ticket EXCEPT ![c] = tail]
    /\ Goto(c, "look")
    /\ UNCHANGED <<head, tail, turn, storage, pushes, pops, sent, received, witness>>

(* Mutant of Extract: slot.destroy() is forgotten.                         *)
Extract_NoDestroy(c) ==
    /\ pc[c] = "extract"
    /\ received' = received \union {<<ticket[c], storage[idx(ticket[c])]>>}
    /\ Goto(c, "release")
    /\ UNCHANGED <<head, tail, turn, storage, ticket, pushes, pops, sent, witness>>

Extract(c) ==
    /\ pc[c] = "extract"
    /\ received' = received \union {<<ticket[c], storage[idx(ticket[c])]>>}
    /\ Goto(c, "destroy")
    /\ UNCHANGED <<head, tail, turn, storage, ticket, pushes, pops, sent, witness>>

Destroy(c) ==
    /\ pc[c] = "destroy"
    /\ storage' = [storage EXCEPT ![idx(ticket[c])] = Dead]
    /\ Goto(c, "release")
    /\ UNCHANGED <<head, tail, turn, ticket, pushes, pops, sent, received, witness>>

(* Mutant of Release: the turn stays the popper's.                         *)
Release_SameTurn(c) ==
    /\ pc[c] = "release"
    /\ turn' = [turn EXCEPT ![idx(ticket[c])] = 2 * round(ticket[c]) + 1]
    /\ Return(c)
    /\ UNCHANGED <<head, tail, storage, pushes, pops, sent, received>>

Release(c) ==
    /\ pc[c] = "release"
    /\ turn' = [turn EXCEPT ![idx(ticket[c])] = 2 * round(ticket[c]) + 2]
    /\ Return(c)
    /\ UNCHANGED <<head, tail, storage, pushes, pops, sent, received>>

PopStep(c) ==
    \/ Pop(c) \/ PopSpin(c)
    \/ TryPop(c) \/ TryPopLook(c) \/ TryPopCas(c)
    \/ TryPopFails(c) \/ TryPopReload(c)
    \/ Extract(c) \/ Destroy(c) \/ Release(c)

-----------------------------------------------------------------------------

(* Every call has returned and no thread makes another.                    *)
Finished ==
    /\ \A t \in Threads : pc[t] = "idle"
    /\ \A p \in Producers : pushes[p] = PushQuota
    /\ \A c \in Consumers : pops[c] = PopQuota
    /\ UNCHANGED vars

Next ==
    \/ \E p \in Producers : PushStep(p)
    \/ \E c \in Consumers : PopStep(c)
    \/ Finished

(* Each thread keeps running: it is an OS thread, and a spinning one too.  *)
Fairness ==
    /\ \A p \in Producers : WF_vars(PushStep(p))
    /\ \A c \in Consumers : WF_vars(PopStep(c))

Safe == Init /\ [][Next]_vars
Spec == Safe /\ Fairness

-----------------------------------------------------------------------------
(* Properties.                                                             *)

TypeOK ==
    /\ head \in Nat /\ tail \in Nat
    /\ turn \in [Slots -> Nat]
    /\ storage \in [Slots -> Values \union {Dead}]
    /\ pc \in [Threads -> PushPc \union PopPc]
    /\ \A p \in Producers : pc[p] \in PushPc
    /\ \A c \in Consumers : pc[c] \in PopPc
    /\ ticket \in [Threads -> Nat]
    /\ pushes \in [Producers -> Nat]
    /\ pops \in [Consumers -> Nat]
    /\ sent \in Seq(Values)
    /\ received \subseteq Nat \X (Values \union {Dead})
    /\ witness \in [Threads -> BOOLEAN]

(* The threads whose next step touches the storage of their ticket's slot. *)
InStorage(t) == pc[t] \in {"construct", "extract", "destroy"}

(* The storage is plain memory: no two threads are ever about to touch the *)
(* same slot's (no data race), and the turn they waited for still stands.  *)
SlotsExclusive ==
    \A t, u \in Threads :
        t # u /\ InStorage(t) /\ InStorage(u) => idx(ticket[t]) # idx(ticket[u])

(* Object lifetimes: a value is constructed only where none is alive, and  *)
(* extracted and destroyed only while one is alive.                        *)
LifetimesOK ==
    /\ \A p \in Producers :
         pc[p] = "construct" => storage[idx(ticket[p])] = Dead
    /\ \A c \in Consumers :
         pc[c] \in {"extract", "destroy"} => storage[idx(ticket[c])] # Dead

(* The destructor of a slot destroys its value if and only if turn is odd: *)
(* whenever no thread is inside the slot, that is when one is alive.       *)
DestructorExact ==
    \A s \in Slots :
        (\A t \in Threads :
            pc[t] \in {"publish", "release"} \/ InStorage(t) => idx(ticket[t]) # s)
        => (turn[s] % 2 = 1 <=> storage[s] # Dead)

(* First in, first out, exactly once: the pop with ticket k extracts the   *)
(* value of the push with ticket k, and no ticket is popped twice.         *)
TicketOrder ==
    /\ \A r \in received : r[1] < Len(sent) /\ r[2] = sent[r[1] + 1]
    /\ \A c \in Consumers : pc[c] = "extract" => \A r \in received : r[1] # ticket[c]

(* try_push reports a full queue, and try_pop an empty one, only if it was *)
(* so at the moment the call last looked: the unchanged second load of     *)
(* head_ or tail_ has to vouch for the turn read in between.               *)
FailureIsHonest ==
    [][\A t \in Threads :
         pc[t] = "reload" /\ pc'[t] = "idle" => witness[t]]_vars

(* Once entered, a push or pop gets through, whatever the tries of others  *)
(* do; and a try that keeps finding the counter moved does not go on for   *)
(* ever.  (Checked where the pushes and pops to come match up.)            *)
CallsReturn ==
    \A t \in Threads : pc[t] # "idle" ~> pc[t] = "idle"

-----------------------------------------------------------------------------
(* The queue implements the numbering of calls it is built around.         *)

Holding(t) == pc[t] \in {"spin", "construct", "publish", "extract", "destroy", "release"}
(* A try that has not won its compare-exchange holds no ticket.            *)
NumberOf(T) == [t \in T |-> IF Holding(t) THEN ticket[t] ELSE -1]

Tickets == INSTANCE TicketQueue WITH
    taken    <- tail,
    pushing  <- NumberOf(Producers),
    popping  <- NumberOf(Consumers),
    pushed   <- {k \in 0..head - 1 : Published(k)},
    received <- {r \in received : Released(r[1])}

ImplementsTicketQueue == Tickets!Spec
=============================================================================
