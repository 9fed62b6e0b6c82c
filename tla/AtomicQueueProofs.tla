------------------------- MODULE AtomicQueueProofs --------------------------
(***************************************************************************)
(* Theorems about AtomicQueue, for any number of threads and slots.        *)
(*                                                                         *)
(* The argument is about tickets and rounds.  A ticket in use is below the *)
(* counter it was drawn from, no two threads of one side hold the same,    *)
(* and the turn of its slot has not gone past its round.  So the thread    *)
(* that finds the turn at its round is the only one who does, and the turn *)
(* stays there until that thread itself moves it on.                       *)
(***************************************************************************)
EXTENDS AtomicQueue, TLAPS

-----------------------------------------------------------------------------
(* Tickets, slots and rounds.                                              *)

(* What the proofs use of % and \div: a ticket is its slot and its round,  *)
(* and of two tickets for one slot the later has the later round.          *)
LEMMA SlotAndRound ==
  /\ \A k \in Nat : idx(k) \in Slots /\ round(k) \in Nat
  /\ \A j, k \in Nat : idx(j) = idx(k) /\ round(j) = round(k) => j = k
  /\ \A j, k \in Nat : idx(j) = idx(k) /\ j < k => round(j) < round(k)
<1>1. Capacity \in Nat \ {0}
  BY CapacityType DEF CapacityType
<1>2. \A k \in Nat : idx(k) \in Slots /\ round(k) \in Nat
  BY <1>1 DEF idx, round, Slots
<1>3. \A k \in Nat : k = (Capacity * round(k)) + idx(k)
  BY <1>1 DEF idx, round
<1>4. \A j, k \in Nat : idx(j) = idx(k) /\ round(j) = round(k) => j = k
  BY <1>1, <1>2, <1>3
<1>5. \A j, k \in Nat : idx(j) = idx(k) /\ j < k => round(j) < round(k)
  BY <1>1 DEF idx, round
<1> QED
  BY <1>2, <1>4, <1>5

(* Every slot has a ticket for every round.                                *)
LEMMA TicketOf ==
  ASSUME NEW s \in Slots, NEW r \in Nat
  PROVE  \E k \in Nat : idx(k) = s /\ round(k) = r
<1> DEFINE k == (Capacity * r) + s
<1>1. Capacity \in Nat \ {0}
  BY CapacityType DEF CapacityType
<1>2. s \in Nat /\ s < Capacity
  BY <1>1 DEF Slots
<1>3. k \in Nat
  BY <1>1, <1>2
<1>4. idx(k) = s /\ round(k) = r
  BY <1>1, <1>2, <1>3 DEF idx, round
<1> QED
  BY <1>3, <1>4

-----------------------------------------------------------------------------
(* The inductive invariant.                                                *)

PushHolds(p) == pc[p] \in {"spin", "construct", "publish"}
PopHolds(c)  == pc[c] \in {"spin", "extract", "destroy", "release"}
Trying(t)    == pc[t] \in {"look", "cas", "reload"}

(* The tickets of one side: drawn below the counter, on a slot that has    *)
(* not passed their round, and found writable once and for all.            *)
HeadOwn(p) ==
    /\ PushHolds(p) => ticket[p] < head
    /\ PushHolds(p) => turn[idx(ticket[p])] <= 2 * round(ticket[p])
    /\ pc[p] \in {"construct", "publish"} => Writable(ticket[p])
    /\ Trying(p) => ticket[p] <= head
    /\ pc[p] = "cas" /\ ticket[p] = head => Writable(head)

HeadTickets == \A p \in Producers : HeadOwn(p)

HeadDistinct ==
    \A p, q \in Producers :
        p # q /\ PushHolds(p) /\ PushHolds(q) => ticket[p] # ticket[q]

(* The slots have not passed the rounds of the tickets to come.            *)
HeadFuture == \A k \in Nat : k >= head => turn[idx(k)] <= 2 * round(k)

TailOwn(c) ==
    /\ PopHolds(c) => ticket[c] < tail
    /\ PopHolds(c) => turn[idx(ticket[c])] <= 2 * round(ticket[c]) + 1
    /\ pc[c] \in {"extract", "destroy", "release"} => Readable(ticket[c])
    /\ Trying(c) => ticket[c] <= tail
    /\ pc[c] = "cas" /\ ticket[c] = tail => Readable(tail)

TailTickets == \A c \in Consumers : TailOwn(c)

TailDistinct ==
    \A c, d \in Consumers :
        c # d /\ PopHolds(c) /\ PopHolds(d) => ticket[c] # ticket[d]

TailFuture == \A k \in Nat : k >= tail => turn[idx(k)] <= 2 * round(k) + 1

HeadInv == HeadTickets /\ HeadDistinct /\ HeadFuture
TailInv == TailTickets /\ TailDistinct /\ TailFuture

(* Each ticket drawn by a push has its value.                              *)
SentInv == head = Len(sent)

-----------------------------------------------------------------------------
(* Types.                                                                  *)

LEMMA TypeInit == Init => TypeOK
BY CapacityType DEF CapacityType, Init, TypeOK, PushPc, PopPc, Threads, Slots

(* A thread's place in its call.                                           *)
LEMMA GotoType ==
  ASSUME TypeOK, NEW t \in Threads, NEW l, Goto(t, l),
         t \in Producers => l \in PushPc, t \in Consumers => l \in PopPc
  PROVE  /\ pc' \in [Threads -> PushPc \union PopPc]
         /\ \A p \in Producers : pc'[p] \in PushPc
         /\ \A c \in Consumers : pc'[c] \in PopPc
BY DEF TypeOK, Goto, Threads

\* Taking a ticket keeps the types.
LEMMA ClaimHeadTypes ==
  ASSUME TypeOK, NEW p \in Producers, NEW l \in PushPc, ClaimHead(p), Goto(p, l)
  PROVE  TypeOK'
<1>1. p \in Threads /\ p \notin Consumers
  BY RolesDisjoint DEF RolesDisjoint, Threads
<1>2. /\ pc' \in [Threads -> PushPc \union PopPc]
      /\ \A q \in Producers : pc'[q] \in PushPc
      /\ \A c \in Consumers : pc'[c] \in PopPc
  BY <1>1, GotoType
<1>3. head' \in Nat /\ ticket' \in [Threads -> Nat] /\ pushes' \in [Producers -> Nat]
  BY <1>1 DEF TypeOK, ClaimHead
<1>4. sent' \in Seq(Values)
  <2>1. <<p, pushes[p] + 1>> \in Values
    BY DEF TypeOK, Values
  <2> QED
    BY <2>1 DEF TypeOK, ClaimHead
<1>5. /\ tail' = tail /\ turn' = turn /\ storage' = storage /\ pops' = pops
      /\ received' = received /\ witness' = witness
  BY DEF ClaimHead
<1> QED
  BY <1>2, <1>3, <1>4, <1>5 DEF TypeOK

LEMMA PushTypes ==
  ASSUME TypeOK, HeadTickets, SentInv, NEW p \in Producers, PushStep(p)
  PROVE  TypeOK'
<1>0. p \in Threads /\ p \notin Consumers
  BY RolesDisjoint DEF RolesDisjoint, Threads
<1> USE <1>0 DEF TypeOK
<1>1. CASE Push(p)
  BY <1>1, ClaimHeadTypes DEF Push, PushPc
<1>2. CASE PushSpin(p)
  BY <1>2, GotoType DEF PushSpin, PushPc
<1>3. CASE TryPush(p)
  BY <1>3, GotoType DEF TryPush, PushPc
<1>4. CASE TryPushLook(p)
  <2>1. Full \in BOOLEAN
    BY DEF Full
  <2> QED
    BY <1>4, <2>1, GotoType DEF TryPushLook, PushPc
<1>5. CASE TryPushCas(p)
  <2>1. CASE head = ticket[p]
    <3>1. ClaimHead(p) /\ Goto(p, "construct")
      BY <1>5, <2>1 DEF TryPushCas
    <3> QED
      BY <3>1, ClaimHeadTypes DEF PushPc
  <2>2. CASE head # ticket[p]
    BY <1>5, <2>2, GotoType DEF TryPushCas, PushPc
  <2> QED
    BY <2>1, <2>2
<1>6. CASE TryPushFails(p)
  BY <1>6, GotoType DEF TryPushFails, Return, PushPc
<1>7. CASE TryPushReload(p)
  BY <1>7, GotoType DEF TryPushReload, PushPc
<1>8. CASE Construct(p)
  <2>1. ticket[p] \in Nat /\ ticket[p] < Len(sent)
    BY <1>8 DEF Construct, HeadTickets, HeadOwn, PushHolds, SentInv
  <2>2. sent[ticket[p] + 1] \in Values
    BY <2>1
  <2>3. storage' \in [Slots -> Values \union {Dead}]
    BY <1>8, <2>2 DEF Construct
  <2> QED
    BY <1>8, <2>3, GotoType DEF Construct, PushPc
<1>9. CASE ConstructThrows(p)
  BY <1>9, GotoType DEF ConstructThrows, Return, PushPc
<1>10. CASE Publish(p)
  <2>1. round(ticket[p]) \in Nat
    BY SlotAndRound
  <2>2. 2 * round(ticket[p]) + 1 \in Nat
    BY <2>1
  <2>3. turn' \in [Slots -> Nat]
    BY <1>10, <2>2 DEF Publish
  <2> QED
    BY <1>10, <2>3, GotoType DEF Publish, Return, PushPc
<1> QED
  BY <1>1, <1>2, <1>3, <1>4, <1>5, <1>6, <1>7, <1>8, <1>9, <1>10 DEF PushStep

LEMMA PopTypes ==
  ASSUME TypeOK, NEW c \in Consumers, PopStep(c)
  PROVE  TypeOK'
<1>0. c \in Threads /\ c \notin Producers
  BY RolesDisjoint DEF RolesDisjoint, Threads
<1> USE <1>0 DEF TypeOK
<1>1. CASE Pop(c)
  BY <1>1, GotoType DEF Pop, ClaimTail, PopPc
<1>2. CASE PopSpin(c)
  BY <1>2, GotoType DEF PopSpin, PopPc
<1>3. CASE TryPop(c)
  BY <1>3, GotoType DEF TryPop, PopPc
<1>4. CASE TryPopLook(c)
  <2>1. Empty \in BOOLEAN
    BY DEF Empty
  <2> QED
    BY <1>4, <2>1, GotoType DEF TryPopLook, PopPc
<1>5. CASE TryPopCas(c)
  <2>1. CASE tail = ticket[c]
    <3>1. ClaimTail(c) /\ Goto(c, "extract")
      BY <1>5, <2>1 DEF TryPopCas
    <3> QED
      BY <3>1, GotoType DEF ClaimTail, PopPc
  <2>2. CASE tail # ticket[c]
    BY <1>5, <2>2, GotoType DEF TryPopCas, PopPc
  <2> QED
    BY <2>1, <2>2
<1>6. CASE TryPopFails(c)
  BY <1>6, GotoType DEF TryPopFails, Return, PopPc
<1>7. CASE TryPopReload(c)
  BY <1>7, GotoType DEF TryPopReload, PopPc
<1>8. CASE Extract(c)
  <2>1. idx(ticket[c]) \in Slots
    BY SlotAndRound
  <2>2. <<ticket[c], storage[idx(ticket[c])]>> \in Nat \X (Values \union {Dead})
    BY <2>1
  <2>3. received' \subseteq Nat \X (Values \union {Dead})
    BY <1>8, <2>2 DEF Extract
  <2> QED
    BY <1>8, <2>3, GotoType DEF Extract, PopPc
<1>9. CASE Destroy(c)
  BY <1>9, GotoType DEF Destroy, PopPc
<1>10. CASE Release(c)
  <2>1. round(ticket[c]) \in Nat
    BY SlotAndRound
  <2>2. 2 * round(ticket[c]) + 2 \in Nat
    BY <2>1
  <2>3. turn' \in [Slots -> Nat]
    BY <1>10, <2>2 DEF Release
  <2> QED
    BY <1>10, <2>3, GotoType DEF Release, Return, PopPc
<1> QED
  BY <1>1, <1>2, <1>3, <1>4, <1>5, <1>6, <1>7, <1>8, <1>9, <1>10 DEF PopStep

LEMMA TypeStep == TypeOK /\ HeadTickets /\ SentInv /\ [Next]_vars => TypeOK'
<1> SUFFICES ASSUME TypeOK, HeadTickets, SentInv, [Next]_vars PROVE TypeOK'
  OBVIOUS
<1>1. CASE UNCHANGED vars
  BY <1>1 DEF vars, TypeOK
<1>2. CASE Finished
  BY <1>2 DEF Finished, vars, TypeOK
<1> QED
  BY <1>1, <1>2, PushTypes, PopTypes DEF Next

-----------------------------------------------------------------------------
(* Steps that leave every turn alone.                                      *)

(* A thread moves, and the others stay where they are.                     *)
Moves(t) ==
    \A u \in Threads : u # t => pc'[u] = pc[u] /\ ticket'[u] = ticket[u]

LEMMA PushMoves ==
  ASSUME TypeOK, NEW p \in Producers, PushStep(p)
  PROVE  Moves(p)
BY DEF TypeOK, Moves, PushStep, Push, PushSpin, TryPush, TryPushLook, TryPushCas,
       TryPushFails, TryPushReload, Construct, ConstructThrows, Publish,
       ClaimHead, Goto, Return, Threads

LEMMA PopMoves ==
  ASSUME TypeOK, NEW c \in Consumers, PopStep(c)
  PROVE  Moves(c)
BY DEF TypeOK, Moves, PopStep, Pop, PopSpin, TryPop, TryPopLook, TryPopCas,
       TryPopFails, TryPopReload, Extract, Destroy, Release,
       ClaimTail, Goto, Return, Threads

(* The other side does not notice.                                         *)
LEMMA TailKept ==
  ASSUME TailInv, NEW p \in Producers, Moves(p), turn' = turn, tail' = tail
  PROVE  TailInv'
<1>1. \A c \in Consumers : pc'[c] = pc[c] /\ ticket'[c] = ticket[c]
  BY RolesDisjoint DEF RolesDisjoint, Moves, Threads
<1>2. TailTickets'
  BY <1>1 DEF TailInv, TailTickets, TailOwn, PopHolds, Trying, Readable
<1>3. TailDistinct' /\ TailFuture'
  BY <1>1 DEF TailInv, TailDistinct, TailFuture, PopHolds
<1> QED
  BY <1>2, <1>3 DEF TailInv

LEMMA HeadKept ==
  ASSUME HeadInv, NEW c \in Consumers, Moves(c), turn' = turn, head' = head
  PROVE  HeadInv'
<1>1. \A p \in Producers : pc'[p] = pc[p] /\ ticket'[p] = ticket[p]
  BY RolesDisjoint DEF RolesDisjoint, Moves, Threads
<1>2. HeadTickets'
  BY <1>1 DEF HeadInv, HeadTickets, HeadOwn, PushHolds, Trying, Writable
<1>3. HeadDistinct' /\ HeadFuture'
  BY <1>1 DEF HeadInv, HeadDistinct, HeadFuture, PushHolds
<1> QED
  BY <1>2, <1>3 DEF HeadInv

(* On its own side a thread has to answer for itself only.                 *)
LEMMA HeadMoved ==
  ASSUME TypeOK, HeadInv, NEW p \in Producers, Moves(p), turn' = turn,
         head' \in {head, head + 1},
         HeadOwn(p)',
         \A q \in Producers : q # p /\ PushHolds(q) /\ PushHolds(p)' => ticket'[p] # ticket[q]
  PROVE  HeadInv'
<1>1. \A q \in Producers : q # p => pc'[q] = pc[q] /\ ticket'[q] = ticket[q]
  BY DEF Moves, Threads
<1>2. head \in Nat /\ head' >= head
  BY DEF TypeOK
<1>3. ASSUME NEW q \in Producers, q # p PROVE HeadOwn(q)'
  <2>1. ticket[q] \in Nat
    BY DEF TypeOK, Threads
  <2>2. HeadOwn(q)
    BY DEF HeadInv, HeadTickets
  <2> QED
    BY <1>1, <1>2, <1>3, <2>1, <2>2 DEF HeadOwn, PushHolds, Trying, Writable
<1>4. HeadDistinct'
  BY <1>1 DEF HeadInv, HeadDistinct, PushHolds
<1>5. HeadFuture'
  BY <1>2 DEF HeadInv, HeadFuture
<1> QED
  BY <1>3, <1>4, <1>5 DEF HeadInv, HeadTickets

LEMMA TailMoved ==
  ASSUME TypeOK, TailInv, NEW c \in Consumers, Moves(c), turn' = turn,
         tail' \in {tail, tail + 1},
         TailOwn(c)',
         \A d \in Consumers : d # c /\ PopHolds(d) /\ PopHolds(c)' => ticket'[c] # ticket[d]
  PROVE  TailInv'
<1>1. \A d \in Consumers : d # c => pc'[d] = pc[d] /\ ticket'[d] = ticket[d]
  BY DEF Moves, Threads
<1>2. tail \in Nat /\ tail' >= tail
  BY DEF TypeOK
<1>3. ASSUME NEW d \in Consumers, d # c PROVE TailOwn(d)'
  <2>1. ticket[d] \in Nat
    BY DEF TypeOK, Threads
  <2>2. TailOwn(d)
    BY DEF TailInv, TailTickets
  <2> QED
    BY <1>1, <1>2, <1>3, <2>1, <2>2 DEF TailOwn, PopHolds, Trying, Readable
<1>4. TailDistinct'
  BY <1>1 DEF TailInv, TailDistinct, PopHolds
<1>5. TailFuture'
  BY <1>2 DEF TailInv, TailFuture
<1> QED
  BY <1>3, <1>4, <1>5 DEF TailInv, TailTickets

(* What a push in progress has under way is below head: a new ticket is    *)
(* one that nobody holds.                                                  *)
LEMMA ClaimHeadKeeps ==
  ASSUME TypeOK, HeadInv, NEW p \in Producers, Moves(p), ClaimHead(p),
         \/ Goto(p, "spin")
         \/ Goto(p, "construct") /\ Writable(head)
  PROVE  HeadInv'
<1>1. p \in Threads /\ head \in Nat /\ turn' = turn
  BY DEF TypeOK, Threads, ClaimHead
<1>2. ticket'[p] = head /\ head' = head + 1
  BY <1>1 DEF TypeOK, ClaimHead
<1>3. turn[idx(head)] <= 2 * round(head)
  BY <1>1 DEF HeadInv, HeadFuture
<1>4. \/ pc'[p] = "spin"
      \/ pc'[p] = "construct" /\ Writable(head)
  BY <1>1 DEF TypeOK, Goto
<1>5. HeadOwn(p)'
  BY <1>1, <1>2, <1>3, <1>4 DEF HeadOwn, PushHolds, Trying, Writable
<1>6. \A q \in Producers : PushHolds(q) => ticket[q] \in Nat /\ ticket[q] < head
  BY DEF TypeOK, Threads, HeadInv, HeadTickets, HeadOwn
<1>7. \A q \in Producers : PushHolds(q) => ticket'[p] # ticket[q]
  BY <1>1, <1>2, <1>6
<1> QED
  BY <1>1, <1>2, <1>5, <1>7, HeadMoved

LEMMA ClaimTailKeeps ==
  ASSUME TypeOK, TailInv, NEW c \in Consumers, Moves(c), ClaimTail(c),
         \/ Goto(c, "spin")
         \/ Goto(c, "extract") /\ Readable(tail)
  PROVE  TailInv'
<1>1. c \in Threads /\ tail \in Nat /\ turn' = turn
  BY DEF TypeOK, Threads, ClaimTail
<1>2. ticket'[c] = tail /\ tail' = tail + 1
  BY <1>1 DEF TypeOK, ClaimTail
<1>3. turn[idx(tail)] <= 2 * round(tail) + 1
  BY <1>1 DEF TailInv, TailFuture
<1>4. \/ pc'[c] = "spin"
      \/ pc'[c] = "extract" /\ Readable(tail)
  BY <1>1 DEF TypeOK, Goto
<1>5. TailOwn(c)'
  BY <1>1, <1>2, <1>3, <1>4 DEF TailOwn, PopHolds, Trying, Readable
<1>6. \A d \in Consumers : PopHolds(d) => ticket[d] \in Nat /\ ticket[d] < tail
  BY DEF TypeOK, Threads, TailInv, TailTickets, TailOwn
<1>7. \A d \in Consumers : PopHolds(d) => ticket'[c] # ticket[d]
  BY <1>1, <1>2, <1>6
<1> QED
  BY <1>1, <1>2, <1>5, <1>7, TailMoved

(* Every step of a push but the last.                                      *)
LEMMA PushQuiet ==
  ASSUME TypeOK, HeadInv, NEW p \in Producers, PushStep(p), ~Publish(p)
  PROVE  HeadInv' /\ turn' = turn /\ tail' = tail
<1>0. Moves(p)
  BY PushMoves
<1>1. p \in Threads /\ head \in Nat /\ ticket[p] \in Nat
  BY DEF TypeOK, Threads
<1>2. HeadOwn(p)
  BY DEF HeadInv, HeadTickets
<1>3. \A q \in Producers : q # p /\ PushHolds(q) /\ PushHolds(p) => ticket[p] # ticket[q]
  BY DEF HeadInv, HeadDistinct
<1>4. CASE Push(p)
  BY <1>0, <1>4, ClaimHeadKeeps DEF Push, ClaimHead
<1>5. CASE PushSpin(p)
  <2>1. pc[p] = "spin" /\ pc'[p] = "construct" /\ Writable(ticket[p])
    BY <1>1, <1>5 DEF PushSpin, Goto, TypeOK
  <2>2. /\ UNCHANGED <<head, turn, tail>>
        /\ ticket'[p] = ticket[p]
    BY <1>5 DEF PushSpin
  <2>3. HeadOwn(p)'
    BY <1>2, <2>1, <2>2 DEF HeadOwn, PushHolds, Trying, Writable
  <2> QED
    BY <1>0, <1>3, <2>1, <2>2, <2>3, HeadMoved DEF PushHolds
<1>6. CASE TryPush(p) \/ TryPushReload(p)
  <2>1. pc'[p] = "look" /\ ticket'[p] = head
    BY <1>1, <1>6 DEF TryPush, TryPushReload, Goto, TypeOK
  <2>2. UNCHANGED <<head, turn, tail>>
    BY <1>6 DEF TryPush, TryPushReload
  <2>3. HeadOwn(p)' /\ ~PushHolds(p)'
    BY <1>1, <2>1, <2>2 DEF HeadOwn, PushHolds, Trying
  <2> QED
    BY <1>0, <2>2, <2>3, HeadMoved
<1>7. CASE TryPushLook(p)
  <2>1. /\ pc[p] = "look"
        /\ pc'[p] = IF Writable(ticket[p]) THEN "cas" ELSE "reload"
    BY <1>1, <1>7 DEF TryPushLook, Goto, TypeOK
  <2>2. /\ UNCHANGED <<head, turn, tail>>
        /\ ticket'[p] = ticket[p]
    BY <1>7 DEF TryPushLook
  <2>3. HeadOwn(p)' /\ ~PushHolds(p)'
    BY <1>2, <2>1, <2>2 DEF HeadOwn, PushHolds, Trying, Writable
  <2> QED
    BY <1>0, <2>2, <2>3, HeadMoved
<1>8. CASE TryPushCas(p)
  <2>1. CASE head = ticket[p]
    <3>1. ClaimHead(p) /\ Goto(p, "construct") /\ Writable(head)
      BY <1>2, <1>8, <2>1 DEF TryPushCas, HeadOwn
    <3> QED
      BY <1>0, <3>1, ClaimHeadKeeps DEF ClaimHead
  <2>2. CASE head # ticket[p]
    <3>1. pc'[p] = "look" /\ ticket'[p] = head
      BY <1>1, <1>8, <2>2 DEF TryPushCas, Goto, TypeOK
    <3>2. UNCHANGED <<head, turn, tail>>
      BY <1>8, <2>2 DEF TryPushCas
    <3>3. HeadOwn(p)' /\ ~PushHolds(p)'
      BY <1>1, <3>1, <3>2 DEF HeadOwn, PushHolds, Trying
    <3> QED
      BY <1>0, <3>2, <3>3, HeadMoved
  <2> QED
    BY <2>1, <2>2
<1>9. CASE TryPushFails(p) \/ ConstructThrows(p)
  <2>1. pc'[p] = "idle"
    BY <1>1, <1>9 DEF TryPushFails, ConstructThrows, Return, Goto, TypeOK
  <2>2. UNCHANGED <<head, turn, tail>>
    BY <1>9 DEF TryPushFails, ConstructThrows
  <2>3. HeadOwn(p)' /\ ~PushHolds(p)'
    BY <2>1 DEF HeadOwn, PushHolds, Trying
  <2> QED
    BY <1>0, <2>2, <2>3, HeadMoved
<1>10. CASE Construct(p)
  <2>1. pc[p] = "construct" /\ pc'[p] = "publish"
    BY <1>1, <1>10 DEF Construct, Goto, TypeOK
  <2>2. /\ UNCHANGED <<head, turn, tail>>
        /\ ticket'[p] = ticket[p]
    BY <1>10 DEF Construct
  <2>3. HeadOwn(p)'
    BY <1>2, <2>1, <2>2 DEF HeadOwn, PushHolds, Trying, Writable
  <2> QED
    BY <1>0, <1>3, <2>1, <2>2, <2>3, HeadMoved DEF PushHolds
<1> QED
  BY <1>4, <1>5, <1>6, <1>7, <1>8, <1>9, <1>10 DEF PushStep

(* Every step of a pop but the last.                                       *)
LEMMA PopQuiet ==
  ASSUME TypeOK, TailInv, NEW c \in Consumers, PopStep(c), ~Release(c)
  PROVE  TailInv' /\ turn' = turn /\ head' = head
<1>0. Moves(c)
  BY PopMoves
<1>1. c \in Threads /\ tail \in Nat /\ ticket[c] \in Nat
  BY DEF TypeOK, Threads
<1>2. TailOwn(c)
  BY DEF TailInv, TailTickets
<1>3. \A d \in Consumers : d # c /\ PopHolds(d) /\ PopHolds(c) => ticket[c] # ticket[d]
  BY DEF TailInv, TailDistinct
<1>4. CASE Pop(c)
  BY <1>0, <1>4, ClaimTailKeeps DEF Pop, ClaimTail
<1>5. CASE PopSpin(c)
  <2>1. pc[c] = "spin" /\ pc'[c] = "extract" /\ Readable(ticket[c])
    BY <1>1, <1>5 DEF PopSpin, Goto, TypeOK
  <2>2. /\ UNCHANGED <<head, turn, tail>>
        /\ ticket'[c] = ticket[c]
    BY <1>5 DEF PopSpin
  <2>3. TailOwn(c)'
    BY <1>2, <2>1, <2>2 DEF TailOwn, PopHolds, Trying, Readable
  <2> QED
    BY <1>0, <1>3, <2>1, <2>2, <2>3, TailMoved DEF PopHolds
<1>6. CASE TryPop(c) \/ TryPopReload(c)
  <2>1. pc'[c] = "look" /\ ticket'[c] = tail
    BY <1>1, <1>6 DEF TryPop, TryPopReload, Goto, TypeOK
  <2>2. UNCHANGED <<head, turn, tail>>
    BY <1>6 DEF TryPop, TryPopReload
  <2>3. TailOwn(c)' /\ ~PopHolds(c)'
    BY <1>1, <2>1, <2>2 DEF TailOwn, PopHolds, Trying
  <2> QED
    BY <1>0, <2>2, <2>3, TailMoved
<1>7. CASE TryPopLook(c)
  <2>1. /\ pc[c] = "look"
        /\ pc'[c] = IF Readable(ticket[c]) THEN "cas" ELSE "reload"
    BY <1>1, <1>7 DEF TryPopLook, Goto, TypeOK
  <2>2. /\ UNCHANGED <<head, turn, tail>>
        /\ ticket'[c] = ticket[c]
    BY <1>7 DEF TryPopLook
  <2>3. TailOwn(c)' /\ ~PopHolds(c)'
    BY <1>2, <2>1, <2>2 DEF TailOwn, PopHolds, Trying, Readable
  <2> QED
    BY <1>0, <2>2, <2>3, TailMoved
<1>8. CASE TryPopCas(c)
  <2>1. CASE tail = ticket[c]
    <3>1. ClaimTail(c) /\ Goto(c, "extract") /\ Readable(tail)
      BY <1>2, <1>8, <2>1 DEF TryPopCas, TailOwn
    <3> QED
      BY <1>0, <3>1, ClaimTailKeeps DEF ClaimTail
  <2>2. CASE tail # ticket[c]
    <3>1. pc'[c] = "look" /\ ticket'[c] = tail
      BY <1>1, <1>8, <2>2 DEF TryPopCas, Goto, TypeOK
    <3>2. UNCHANGED <<head, turn, tail>>
      BY <1>8, <2>2 DEF TryPopCas
    <3>3. TailOwn(c)' /\ ~PopHolds(c)'
      BY <1>1, <3>1, <3>2 DEF TailOwn, PopHolds, Trying
    <3> QED
      BY <1>0, <3>2, <3>3, TailMoved
  <2> QED
    BY <2>1, <2>2
<1>9. CASE TryPopFails(c)
  <2>1. pc'[c] = "idle"
    BY <1>1, <1>9 DEF TryPopFails, Return, Goto, TypeOK
  <2>2. UNCHANGED <<head, turn, tail>>
    BY <1>9 DEF TryPopFails
  <2>3. TailOwn(c)' /\ ~PopHolds(c)'
    BY <2>1 DEF TailOwn, PopHolds, Trying
  <2> QED
    BY <1>0, <2>2, <2>3, TailMoved
<1>10. CASE Extract(c) \/ Destroy(c)
  <2>1. pc[c] \in {"extract", "destroy"} /\ pc'[c] \in {"destroy", "release"}
    BY <1>1, <1>10 DEF Extract, Destroy, Goto, TypeOK
  <2>2. /\ UNCHANGED <<head, turn, tail>>
        /\ ticket'[c] = ticket[c]
    BY <1>10 DEF Extract, Destroy
  <2>3. TailOwn(c)'
    BY <1>2, <2>1, <2>2 DEF TailOwn, PopHolds, Trying, Readable
  <2> QED
    BY <1>0, <1>3, <2>1, <2>2, <2>3, TailMoved DEF PopHolds
<1> QED
  BY <1>4, <1>5, <1>6, <1>7, <1>8, <1>9, <1>10 DEF PopStep

-----------------------------------------------------------------------------
(* Steps that hand a slot's turn on.                                       *)

(* Publish moves the turn of ticket k from 2 * round(k) to the next: what  *)
(* other tickets need of their slots' turns survives.                      *)
LEMMA PublishTurns ==
  ASSUME TypeOK, NEW k \in Nat, Writable(k),
         turn' = [turn EXCEPT ![idx(k)] = 2 * round(k) + 1],
         NEW j \in Nat
  PROVE  /\ turn'[idx(k)] = 2 * round(k) + 1
         /\ j # k /\ turn[idx(j)] <= 2 * round(j) => turn'[idx(j)] <= 2 * round(j)
         /\ turn[idx(j)] <= 2 * round(j) + 1 => turn'[idx(j)] <= 2 * round(j) + 1
         /\ j # k /\ Writable(j) => Writable(j)'
         /\ Readable(j) => Readable(j)'
<1>1. /\ idx(j) \in Slots /\ round(j) \in Nat
      /\ idx(k) \in Slots /\ round(k) \in Nat
  BY SlotAndRound
<1>2. turn \in [Slots -> Nat]
  BY DEF TypeOK
<1>3. turn[idx(k)] = 2 * round(k)
  BY DEF Writable
<1>4. turn'[idx(k)] = 2 * round(k) + 1
  BY <1>1, <1>2
<1>5. CASE idx(j) = idx(k)
  <2>1. j # k => round(j) # round(k)
    BY <1>5, SlotAndRound
  <2> QED
    BY <1>1, <1>3, <1>4, <1>5, <2>1 DEF Writable, Readable
<1>6. CASE idx(j) # idx(k)
  <2>1. turn'[idx(j)] = turn[idx(j)]
    BY <1>1, <1>2, <1>6
  <2> QED
    BY <1>4, <2>1 DEF Writable, Readable
<1> QED
  BY <1>5, <1>6

LEMMA ReleaseTurns ==
  ASSUME TypeOK, NEW k \in Nat, Readable(k),
         turn' = [turn EXCEPT ![idx(k)] = 2 * round(k) + 2],
         NEW j \in Nat
  PROVE  /\ turn'[idx(k)] = 2 * round(k) + 2
         /\ turn[idx(j)] <= 2 * round(j) => turn'[idx(j)] <= 2 * round(j)
         /\ j # k /\ turn[idx(j)] <= 2 * round(j) + 1 => turn'[idx(j)] <= 2 * round(j) + 1
         /\ Writable(j) => Writable(j)'
         /\ j # k /\ Readable(j) => Readable(j)'
<1>1. /\ idx(j) \in Slots /\ round(j) \in Nat
      /\ idx(k) \in Slots /\ round(k) \in Nat
  BY SlotAndRound
<1>2. turn \in [Slots -> Nat]
  BY DEF TypeOK
<1>3. turn[idx(k)] = 2 * round(k) + 1
  BY DEF Readable
<1>4. turn'[idx(k)] = 2 * round(k) + 2
  BY <1>1, <1>2
<1>5. CASE idx(j) = idx(k)
  <2>1. j # k => round(j) # round(k)
    BY <1>5, SlotAndRound
  <2> QED
    BY <1>1, <1>3, <1>4, <1>5, <2>1 DEF Writable, Readable
<1>6. CASE idx(j) # idx(k)
  <2>1. turn'[idx(j)] = turn[idx(j)]
    BY <1>1, <1>2, <1>6
  <2> QED
    BY <1>4, <2>1 DEF Writable, Readable
<1> QED
  BY <1>5, <1>6

LEMMA PublishKeeps ==
  ASSUME TypeOK, HeadInv, TailInv, NEW p \in Producers, Publish(p)
  PROVE  HeadInv' /\ TailInv'
<1> DEFINE k == ticket[p]
<1>0. \A t \in Threads : ticket[t] \in Nat
  BY DEF TypeOK
<1>1. p \in Threads /\ k \in Nat /\ head \in Nat /\ tail \in Nat
  BY <1>0 DEF TypeOK, Threads
<1>2. pc[p] = "publish" /\ pc'[p] = "idle" /\ head' = head /\ tail' = tail
  BY <1>1 DEF Publish, Return, Goto, TypeOK
<1>3. k < head /\ Writable(k)
  BY <1>2 DEF HeadInv, HeadTickets, HeadOwn, PushHolds
<1>4. turn' = [turn EXCEPT ![idx(k)] = 2 * round(k) + 1]
  BY DEF Publish
<1>5. \A u \in Threads : u # p => pc'[u] = pc[u] /\ ticket'[u] = ticket[u]
  BY PushMoves DEF PushStep, Moves
<1>6. \A j \in Nat :
        /\ j # k /\ turn[idx(j)] <= 2 * round(j) => turn'[idx(j)] <= 2 * round(j)
        /\ turn[idx(j)] <= 2 * round(j) + 1 => turn'[idx(j)] <= 2 * round(j) + 1
        /\ j # k /\ Writable(j) => Writable(j)'
        /\ Readable(j) => Readable(j)'
  BY <1>1, <1>3, <1>4, PublishTurns
<1>7. ASSUME NEW q \in Producers, q # p PROVE HeadOwn(q)'
  <2>1. q \in Threads /\ ticket[q] \in Nat /\ pc'[q] = pc[q] /\ ticket'[q] = ticket[q]
    BY <1>0, <1>5, <1>7 DEF Threads
  <2>2. HeadOwn(q)
    BY DEF HeadInv, HeadTickets
  <2>3. PushHolds(q) => ticket[q] # k
    BY <1>2, <1>7 DEF HeadInv, HeadDistinct, PushHolds
  <2>4. /\ turn[idx(ticket[q])] <= 2 * round(ticket[q]) /\ ticket[q] # k
             => turn'[idx(ticket[q])] <= 2 * round(ticket[q])
        /\ Writable(ticket[q]) /\ ticket[q] # k => turn'[idx(ticket[q])] = 2 * round(ticket[q])
    BY <1>6, <2>1 DEF Writable
  <2>5. head # k
    BY <1>1, <1>3
  <2> QED
    BY <1>2, <2>1, <2>2, <2>3, <2>4, <2>5 DEF HeadOwn, PushHolds, Trying, Writable
<1>8. HeadOwn(p)'
  BY <1>2 DEF HeadOwn, PushHolds, Trying
<1>9. HeadDistinct'
  BY <1>2, <1>5 DEF HeadInv, HeadDistinct, PushHolds, Threads
<1>10. HeadFuture'
  BY <1>1, <1>2, <1>3, <1>6 DEF HeadInv, HeadFuture
<1>11. ASSUME NEW c \in Consumers PROVE TailOwn(c)'
  <2>1. ticket[c] \in Nat /\ pc'[c] = pc[c] /\ ticket'[c] = ticket[c]
    BY <1>0, <1>5, RolesDisjoint DEF RolesDisjoint, Threads
  <2>2. TailOwn(c)
    BY DEF TailInv, TailTickets
  <2>3. /\ turn[idx(ticket[c])] <= 2 * round(ticket[c]) + 1
             => turn'[idx(ticket[c])] <= 2 * round(ticket[c]) + 1
        /\ Readable(ticket[c]) => turn'[idx(ticket[c])] = 2 * round(ticket[c]) + 1
    BY <1>6, <2>1 DEF Readable
  <2> QED
    BY <1>2, <2>1, <2>2, <2>3 DEF TailOwn, PopHolds, Trying, Readable
<1>12. TailDistinct'
  BY <1>5, RolesDisjoint DEF RolesDisjoint, TailInv, TailDistinct, PopHolds, Threads
<1>13. TailFuture'
  BY <1>1, <1>2, <1>6 DEF TailInv, TailFuture
<1> QED
  BY <1>7, <1>8, <1>9, <1>10, <1>11, <1>12, <1>13
  DEF HeadInv, HeadTickets, TailInv, TailTickets

LEMMA ReleaseKeeps ==
  ASSUME TypeOK, HeadInv, TailInv, NEW c \in Consumers, Release(c)
  PROVE  HeadInv' /\ TailInv'
<1> DEFINE k == ticket[c]
<1>0. \A t \in Threads : ticket[t] \in Nat
  BY DEF TypeOK
<1>1. c \in Threads /\ k \in Nat /\ head \in Nat /\ tail \in Nat
  BY <1>0 DEF TypeOK, Threads
<1>2. pc[c] = "release" /\ pc'[c] = "idle" /\ head' = head /\ tail' = tail
  BY <1>1 DEF Release, Return, Goto, TypeOK
<1>3. k < tail /\ Readable(k)
  BY <1>2 DEF TailInv, TailTickets, TailOwn, PopHolds
<1>4. turn' = [turn EXCEPT ![idx(k)] = 2 * round(k) + 2]
  BY DEF Release
<1>5. \A u \in Threads : u # c => pc'[u] = pc[u] /\ ticket'[u] = ticket[u]
  BY PopMoves DEF PopStep, Moves
<1>6. \A j \in Nat :
        /\ turn[idx(j)] <= 2 * round(j) => turn'[idx(j)] <= 2 * round(j)
        /\ j # k /\ turn[idx(j)] <= 2 * round(j) + 1 => turn'[idx(j)] <= 2 * round(j) + 1
        /\ Writable(j) => Writable(j)'
        /\ j # k /\ Readable(j) => Readable(j)'
  BY <1>1, <1>3, <1>4, ReleaseTurns
<1>7. ASSUME NEW d \in Consumers, d # c PROVE TailOwn(d)'
  <2>1. d \in Threads /\ ticket[d] \in Nat /\ pc'[d] = pc[d] /\ ticket'[d] = ticket[d]
    BY <1>0, <1>5, <1>7 DEF Threads
  <2>2. TailOwn(d)
    BY DEF TailInv, TailTickets
  <2>3. PopHolds(d) => ticket[d] # k
    BY <1>2, <1>7 DEF TailInv, TailDistinct, PopHolds
  <2>4. /\ turn[idx(ticket[d])] <= 2 * round(ticket[d]) + 1 /\ ticket[d] # k
             => turn'[idx(ticket[d])] <= 2 * round(ticket[d]) + 1
        /\ Readable(ticket[d]) /\ ticket[d] # k
             => turn'[idx(ticket[d])] = 2 * round(ticket[d]) + 1
    BY <1>6, <2>1 DEF Readable
  <2>5. tail # k
    BY <1>1, <1>3
  <2> QED
    BY <1>2, <2>1, <2>2, <2>3, <2>4, <2>5 DEF TailOwn, PopHolds, Trying, Readable
<1>8. TailOwn(c)'
  BY <1>2 DEF TailOwn, PopHolds, Trying
<1>9. TailDistinct'
  BY <1>2, <1>5 DEF TailInv, TailDistinct, PopHolds, Threads
<1>10. TailFuture'
  BY <1>1, <1>2, <1>3, <1>6 DEF TailInv, TailFuture
<1>11. ASSUME NEW p \in Producers PROVE HeadOwn(p)'
  <2>1. ticket[p] \in Nat /\ pc'[p] = pc[p] /\ ticket'[p] = ticket[p]
    BY <1>0, <1>5, RolesDisjoint DEF RolesDisjoint, Threads
  <2>2. HeadOwn(p)
    BY DEF HeadInv, HeadTickets
  <2>3. /\ turn[idx(ticket[p])] <= 2 * round(ticket[p])
             => turn'[idx(ticket[p])] <= 2 * round(ticket[p])
        /\ Writable(ticket[p]) => turn'[idx(ticket[p])] = 2 * round(ticket[p])
    BY <1>6, <2>1 DEF Writable
  <2> QED
    BY <1>2, <2>1, <2>2, <2>3 DEF HeadOwn, PushHolds, Trying, Writable
<1>12. HeadDistinct'
  BY <1>5, RolesDisjoint DEF RolesDisjoint, HeadInv, HeadDistinct, PushHolds, Threads
<1>13. HeadFuture'
  BY <1>1, <1>2, <1>6 DEF HeadInv, HeadFuture
<1> QED
  BY <1>7, <1>8, <1>9, <1>10, <1>11, <1>12, <1>13
  DEF HeadInv, HeadTickets, TailInv, TailTickets

-----------------------------------------------------------------------------
(* The invariant, and what it says of the storage's users.                 *)

SlotInv == TypeOK /\ SentInv /\ HeadInv /\ TailInv

LEMMA SlotInit == Init => SlotInv
<1> SUFFICES ASSUME Init PROVE SlotInv
  OBVIOUS
<1>1. TypeOK
  BY TypeInit
<1>2. SentInv
  BY DEF Init, SentInv
<1>3. HeadFuture /\ TailFuture
  <2>1. \A k \in Nat : turn[idx(k)] = 0 /\ round(k) \in Nat
    BY SlotAndRound DEF Init
  <2> QED
    BY <2>1 DEF HeadFuture, TailFuture
<1>4. \A t \in Threads : pc[t] = "idle"
  BY DEF Init
<1>5. HeadTickets /\ HeadDistinct
  BY <1>4 DEF HeadTickets, HeadOwn, HeadDistinct, PushHolds, Trying, Threads
<1>6. TailTickets /\ TailDistinct
  BY <1>4 DEF TailTickets, TailOwn, TailDistinct, PopHolds, Trying, Threads
<1> QED
  BY <1>1, <1>2, <1>3, <1>5, <1>6 DEF SlotInv, HeadInv, TailInv

LEMMA SentStep == TypeOK /\ SentInv /\ [Next]_vars => SentInv'
<1> SUFFICES ASSUME TypeOK, SentInv, [Next]_vars PROVE SentInv'
  OBVIOUS
<1>1. ASSUME NEW p \in Producers, ClaimHead(p) PROVE SentInv'
  BY <1>1 DEF ClaimHead, SentInv, TypeOK
<1>2. CASE UNCHANGED <<head, sent>>
  BY <1>2 DEF SentInv
<1>3. ASSUME NEW p \in Producers, PushStep(p) PROVE SentInv'
  BY <1>1, <1>2, <1>3 DEF PushStep, Push, PushSpin, TryPush, TryPushLook, TryPushCas,
                          TryPushFails, TryPushReload, Construct, ConstructThrows, Publish
<1>4. ASSUME NEW c \in Consumers, PopStep(c) PROVE SentInv'
  BY <1>2, <1>4 DEF PopStep, Pop, PopSpin, TryPop, TryPopLook, TryPopCas, TryPopFails,
                    TryPopReload, Extract, Destroy, Release, ClaimTail
<1> QED
  BY <1>2, <1>3, <1>4 DEF Next, Finished, vars

LEMMA SlotStep == SlotInv /\ [Next]_vars => SlotInv'
<1> SUFFICES ASSUME SlotInv, [Next]_vars PROVE SlotInv'
  OBVIOUS
<1> USE DEF SlotInv
<1>1. TypeOK' /\ SentInv'
  BY TypeStep, SentStep DEF HeadInv
<1>2. ASSUME NEW p \in Producers, PushStep(p) PROVE HeadInv' /\ TailInv'
  <2>1. CASE Publish(p)
    BY <2>1, PublishKeeps
  <2>2. CASE ~Publish(p)
    BY <1>2, <2>2, PushQuiet, PushMoves, TailKept
  <2> QED
    BY <2>1, <2>2
<1>3. ASSUME NEW c \in Consumers, PopStep(c) PROVE HeadInv' /\ TailInv'
  <2>1. CASE Release(c)
    BY <2>1, ReleaseKeeps
  <2>2. CASE ~Release(c)
    BY <1>3, <2>2, PopQuiet, PopMoves, HeadKept
  <2> QED
    BY <2>1, <2>2
<1>4. CASE UNCHANGED vars
  <2>1. HeadTickets' /\ HeadDistinct' /\ HeadFuture'
    BY <1>4 DEF vars, HeadInv, HeadTickets, HeadOwn, HeadDistinct, HeadFuture,
                PushHolds, Trying, Writable
  <2>2. TailTickets' /\ TailDistinct' /\ TailFuture'
    BY <1>4 DEF vars, TailInv, TailTickets, TailOwn, TailDistinct, TailFuture,
                PopHolds, Trying, Readable
  <2> QED
    BY <1>1, <2>1, <2>2 DEF HeadInv, TailInv
<1> QED
  BY <1>1, <1>2, <1>3, <1>4 DEF Next, Finished

LEMMA SlotInvariant == Spec => []SlotInv
<1>1. Safe => []SlotInv
  BY SlotInit, SlotStep, PTL DEF Safe
<1> QED
  BY <1>1, PTL DEF Spec

(* Every variable keeps its type: in particular the value a push           *)
(* constructs is the one it was called with.                               *)
THEOREM TypeCorrect == Spec => []TypeOK
<1>1. SlotInv => TypeOK
  BY DEF SlotInv
<1> QED
  BY <1>1, SlotInvariant, PTL

(* Two threads in the storage of one slot would both have found its turn   *)
(* at the round and on the side of their tickets: the same ticket.         *)
LEMMA ExclusiveNow == SlotInv => SlotsExclusive
<1> SUFFICES ASSUME SlotInv,
                    NEW t \in Threads, NEW u \in Threads,
                    t # u, InStorage(t), InStorage(u), idx(ticket[t]) = idx(ticket[u])
             PROVE  FALSE
  BY DEF SlotsExclusive
<1> USE DEF SlotInv
<1>1. /\ ticket[t] \in Nat /\ ticket[u] \in Nat
      /\ round(ticket[t]) \in Nat /\ round(ticket[u]) \in Nat
  BY SlotAndRound DEF TypeOK
<1>2. \A p \in Producers : InStorage(p) => pc[p] = "construct"
  BY DEF TypeOK, InStorage, PushPc
<1>3. \A c \in Consumers : InStorage(c) => pc[c] \in {"extract", "destroy"}
  BY DEF TypeOK, InStorage, PopPc
<1>4. \A p \in Producers : InStorage(p) => Writable(ticket[p]) /\ PushHolds(p)
  BY <1>2 DEF HeadInv, HeadTickets, HeadOwn, PushHolds
<1>5. \A c \in Consumers : InStorage(c) => Readable(ticket[c]) /\ PopHolds(c)
  BY <1>3 DEF TailInv, TailTickets, TailOwn, PopHolds
<1>6. CASE t \in Producers /\ u \in Producers
  <2>1. round(ticket[t]) = round(ticket[u])
    BY <1>1, <1>4, <1>6 DEF Writable
  <2>2. ticket[t] = ticket[u]
    BY <1>1, <2>1, SlotAndRound
  <2> QED
    BY <1>4, <1>6, <2>2 DEF HeadInv, HeadDistinct
<1>7. CASE t \in Consumers /\ u \in Consumers
  <2>1. round(ticket[t]) = round(ticket[u])
    BY <1>1, <1>5, <1>7 DEF Readable
  <2>2. ticket[t] = ticket[u]
    BY <1>1, <2>1, SlotAndRound
  <2> QED
    BY <1>5, <1>7, <2>2 DEF TailInv, TailDistinct
<1>8. CASE \/ t \in Producers /\ u \in Consumers
           \/ t \in Consumers /\ u \in Producers
  BY <1>1, <1>4, <1>5, <1>8 DEF Writable, Readable
<1> QED
  BY <1>6, <1>7, <1>8 DEF Threads

(* No two threads are ever about to touch the storage of one slot: the     *)
(* turn alone makes the plain memory of a slot free of data races.         *)
THEOREM StorageExclusive == Spec => []SlotsExclusive
BY ExclusiveNow, SlotInvariant, PTL
=============================================================================
