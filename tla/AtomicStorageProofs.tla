------------------------ MODULE AtomicStorageProofs -------------------------
(***************************************************************************)
(* What the slots of AtomicQueue contain.  AtomicQueueProofs shows whose a *)
(* slot is; here its turn tells what is in it: nothing while the turn is   *)
(* the pusher's, the value pushed with its ticket while it is the popper's *)
(* -- except between the thread's work on the storage and its store to the *)
(* turn.  With that, every step is one of TicketQueue, or none.            *)
(***************************************************************************)
EXTENDS AtomicQueueProofs

-----------------------------------------------------------------------------
(* The inductive invariant.                                                *)

(* The thread that holds ticket k is past its work on the storage.         *)
Constructed(k) == \E p \in Producers : pc[p] = "publish" /\ ticket[p] = k
Destroyed(k)   == \E c \in Consumers : pc[c] = "release" /\ ticket[c] = k
Extracted(k)   == \E c \in Consumers : pc[c] \in {"destroy", "release"} /\ ticket[c] = k

WriteInv ==
    \A k \in Nat : Writable(k) =>
        /\ Constructed(k) => storage[idx(k)] = sent[k + 1]
        /\ ~Constructed(k) => storage[idx(k)] = Dead

ReadInv ==
    \A k \in Nat : Readable(k) =>
        /\ Destroyed(k) => storage[idx(k)] = Dead
        /\ ~Destroyed(k) => storage[idx(k)] = sent[k + 1]

ReceivedInv ==
    \A r \in received :
        /\ r[1] < Len(sent) /\ r[2] = sent[r[1] + 1]
        /\ Released(r[1]) \/ Extracted(r[1])

ValueInv == WriteInv /\ ReadInv /\ ReceivedInv

-----------------------------------------------------------------------------
(* Whose slot it is, in the terms used here.                               *)

LEMMA Holders ==
  ASSUME SlotInv, NEW k \in Nat
  PROVE  /\ Constructed(k) => Writable(k)
         /\ Extracted(k) => Readable(k)
         /\ Destroyed(k) => Extracted(k)
         /\ Readable(k) => k < head /\ ~Writable(k)
<1> USE DEF SlotInv
<1>1. Constructed(k) => Writable(k)
  BY DEF HeadInv, HeadTickets, HeadOwn, Constructed
<1>2. Extracted(k) => Readable(k)
  BY DEF TailInv, TailTickets, TailOwn, Extracted
<1>3. Destroyed(k) => Extracted(k)
  BY DEF Destroyed, Extracted
<1>4. Readable(k) => k < head /\ ~Writable(k)
  <2>1. head \in Nat /\ round(k) \in Nat
    BY SlotAndRound DEF TypeOK
  <2>2. k >= head => turn[idx(k)] <= 2 * round(k)
    BY DEF HeadInv, HeadFuture
  <2> QED
    BY <2>1, <2>2 DEF Readable, Writable
<1> QED
  BY <1>1, <1>2, <1>3, <1>4

(* A thread at its storage is the only one with its ticket.                *)
LEMMA AloneToPush ==
  ASSUME SlotInv, NEW p \in Producers, pc[p] = "construct"
  PROVE  ~Constructed(ticket[p])
BY DEF SlotInv, HeadInv, HeadDistinct, PushHolds, Constructed

LEMMA AloneToPop ==
  ASSUME SlotInv, NEW c \in Consumers, pc[c] \in {"extract", "destroy"}
  PROVE  /\ ~Destroyed(ticket[c])
         /\ pc[c] = "extract" => ~Extracted(ticket[c])
BY DEF SlotInv, TailInv, TailDistinct, PopHolds, Destroyed, Extracted

(* A slot changes for its own ticket, and for those that share the slot.   *)
LEMMA SameSlot ==
  ASSUME NEW j \in Nat, NEW k \in Nat
  PROVE  /\ Writable(j) /\ Writable(k) /\ idx(j) = idx(k) => j = k
         /\ Readable(j) /\ Readable(k) /\ idx(j) = idx(k) => j = k
         /\ Writable(j) /\ Readable(k) => idx(j) # idx(k)
<1>1. round(j) \in Nat /\ round(k) \in Nat
  BY SlotAndRound
<1>2. idx(j) = idx(k) /\ round(j) = round(k) => j = k
  BY SlotAndRound
<1> QED
  BY <1>1, <1>2 DEF Writable, Readable

-----------------------------------------------------------------------------
(* Steps that leave storage and turn alone.                                *)

(* The values sent so far stay, and there may be one more.                 *)
Grows ==
    /\ Len(sent') \in Nat /\ Len(sent') >= Len(sent)
    /\ \A k \in Nat : k < head => sent'[k + 1] = sent[k + 1]

LEMMA SentGrows ==
  ASSUME TypeOK, SentInv, sent' = sent \/ (\E v \in Values : sent' = Append(sent, v))
  PROVE  Grows
<1>1. sent \in Seq(Values) /\ Len(sent) \in Nat /\ head = Len(sent)
  BY DEF TypeOK, SentInv
<1>2. CASE sent' = sent
  BY <1>1, <1>2 DEF Grows
<1>3. ASSUME NEW v \in Values, sent' = Append(sent, v) PROVE Grows
  <2>1. Len(sent') = Len(sent) + 1
    BY <1>1, <1>3
  <2>2. \A i \in 1..Len(sent) : sent'[i] = sent[i]
    BY <1>1, <1>3
  <2> QED
    BY <1>1, <2>1, <2>2 DEF Grows
<1> QED
  BY <1>2, <1>3

LEMMA PushGrows ==
  ASSUME TypeOK, SentInv, NEW p \in Producers, PushStep(p)
  PROVE  Grows
<1>1. <<p, pushes[p] + 1>> \in Values
  BY DEF TypeOK, Values
<1>2. ClaimHead(p) \/ sent' = sent
  BY DEF PushStep, Push, PushSpin, TryPush, TryPushLook, TryPushCas,
         TryPushFails, TryPushReload, Construct, ConstructThrows, Publish
<1> QED
  BY <1>1, <1>2, SentGrows DEF ClaimHead

LEMMA PopGrows ==
  ASSUME TypeOK, SentInv, NEW c \in Consumers, PopStep(c)
  PROVE  Grows
<1>1. sent' = sent
  BY DEF PopStep, Pop, PopSpin, TryPop, TryPopLook, TryPopCas, TryPopFails,
         TryPopReload, Extract, Destroy, Release, ClaimTail
<1> QED
  BY <1>1, SentGrows

SameHolders ==
    \A k \in Nat :
        /\ Constructed(k)' <=> Constructed(k)
        /\ Destroyed(k)' <=> Destroyed(k)
        /\ Extracted(k)' <=> Extracted(k)

LEMMA ValuesKept ==
  ASSUME SlotInv, ValueInv, Grows, SameHolders, UNCHANGED <<turn, storage, received>>
  PROVE  ValueInv'
<1>0. SentInv /\ head \in Nat
  BY DEF SlotInv, TypeOK
<1>1. WriteInv'
  <2> SUFFICES ASSUME NEW k \in Nat, Writable(k)'
               PROVE  /\ Constructed(k)' => storage'[idx(k)] = sent'[k + 1]
                      /\ ~Constructed(k)' => storage'[idx(k)] = Dead
    BY DEF WriteInv
  <2>1. Writable(k)
    BY DEF Writable
  <2>2. Constructed(k) => k < head
    BY <1>0 DEF SlotInv, HeadInv, HeadTickets, HeadOwn, PushHolds, Constructed
  <2> QED
    BY <2>1, <2>2 DEF ValueInv, WriteInv, SameHolders, Grows
<1>2. ReadInv'
  <2> SUFFICES ASSUME NEW k \in Nat, Readable(k)'
               PROVE  /\ Destroyed(k)' => storage'[idx(k)] = Dead
                      /\ ~Destroyed(k)' => storage'[idx(k)] = sent'[k + 1]
    BY DEF ReadInv
  <2>1. Readable(k)
    BY DEF Readable
  <2>2. k < head
    BY <2>1, Holders
  <2> QED
    BY <2>1, <2>2 DEF ValueInv, ReadInv, SameHolders, Grows
<1>3. ReceivedInv'
  <2> SUFFICES ASSUME NEW r \in received
               PROVE  /\ r[1] < Len(sent') /\ r[2] = sent'[r[1] + 1]
                      /\ Released(r[1])' \/ Extracted(r[1])'
    BY DEF ReceivedInv
  <2>1. r[1] \in Nat /\ Len(sent) \in Nat
    BY DEF SlotInv, TypeOK
  <2>2. /\ r[1] < Len(sent) /\ r[2] = sent[r[1] + 1]
        /\ Released(r[1]) \/ Extracted(r[1])
    BY DEF ValueInv, ReceivedInv
  <2>3. Released(r[1]) => Released(r[1])'
    BY DEF Released
  <2> QED
    BY <1>0, <2>1, <2>2, <2>3 DEF Grows, SameHolders, SentInv
<1> QED
  BY <1>1, <1>2, <1>3 DEF ValueInv

LEMMA PushSameHolders ==
  ASSUME NEW p \in Producers, Moves(p), pc[p] # "publish", pc'[p] # "publish"
  PROVE  SameHolders
<1>1. \A q \in Producers : q # p => pc'[q] = pc[q] /\ ticket'[q] = ticket[q]
  BY DEF Moves, Threads
<1>2. \A c \in Consumers : pc'[c] = pc[c] /\ ticket'[c] = ticket[c]
  BY RolesDisjoint DEF RolesDisjoint, Moves, Threads
<1>3. ASSUME NEW k \in Nat PROVE Constructed(k)' <=> Constructed(k)
  BY <1>1 DEF Constructed
<1>4. ASSUME NEW k \in Nat
      PROVE  (Destroyed(k)' <=> Destroyed(k)) /\ (Extracted(k)' <=> Extracted(k))
  BY <1>2 DEF Destroyed, Extracted
<1> QED
  BY <1>3, <1>4 DEF SameHolders

LEMMA PopSameHolders ==
  ASSUME NEW c \in Consumers, Moves(c), pc[c] \notin {"destroy", "release"},
         pc'[c] \notin {"destroy", "release"}
  PROVE  SameHolders
<1>1. \A d \in Consumers : d # c => pc'[d] = pc[d] /\ ticket'[d] = ticket[d]
  BY DEF Moves, Threads
<1>2. \A p \in Producers : pc'[p] = pc[p] /\ ticket'[p] = ticket[p]
  BY RolesDisjoint DEF RolesDisjoint, Moves, Threads
<1>3. ASSUME NEW k \in Nat PROVE Constructed(k)' <=> Constructed(k)
  BY <1>2 DEF Constructed
<1>4. ASSUME NEW k \in Nat PROVE Destroyed(k)' <=> Destroyed(k)
  BY <1>1 DEF Destroyed
<1>5. ASSUME NEW k \in Nat PROVE Extracted(k)' <=> Extracted(k)
  BY <1>1 DEF Extracted
<1> QED
  BY <1>3, <1>4, <1>5 DEF SameHolders

LEMMA PushElsewhere ==
  ASSUME SlotInv, ValueInv, NEW p \in Producers, PushStep(p),
         ~Construct(p), ~Publish(p)
  PROVE  ValueInv'
<1>0. TypeOK /\ SentInv /\ p \in Threads /\ p \notin Consumers
  BY RolesDisjoint DEF RolesDisjoint, SlotInv, Threads
<1>1. pc[p] # "publish" /\ pc'[p] # "publish"
  BY <1>0 DEF TypeOK, PushStep, Push, PushSpin, TryPush, TryPushLook, TryPushCas,
              TryPushFails, TryPushReload, ConstructThrows, Return, Goto
<1>2. UNCHANGED <<turn, storage, received>>
  BY DEF PushStep, Push, PushSpin, TryPush, TryPushLook, TryPushCas,
         TryPushFails, TryPushReload, ConstructThrows, ClaimHead
<1> QED
  BY <1>0, <1>1, <1>2, PushMoves, PushGrows, PushSameHolders, ValuesKept

LEMMA PopElsewhere ==
  ASSUME SlotInv, ValueInv, NEW c \in Consumers, PopStep(c),
         ~Extract(c), ~Destroy(c), ~Release(c)
  PROVE  ValueInv'
<1>0. TypeOK /\ SentInv /\ c \in Threads
  BY DEF SlotInv, Threads
<1>1. pc[c] \notin {"destroy", "release"} /\ pc'[c] \notin {"destroy", "release"}
  BY <1>0 DEF TypeOK, PopStep, Pop, PopSpin, TryPop, TryPopLook, TryPopCas,
              TryPopFails, TryPopReload, Return, Goto
<1>2. UNCHANGED <<turn, storage, received>>
  BY DEF PopStep, Pop, PopSpin, TryPop, TryPopLook, TryPopCas,
         TryPopFails, TryPopReload, ClaimTail
<1> QED
  BY <1>0, <1>1, <1>2, PopMoves, PopGrows, PopSameHolders, ValuesKept

-----------------------------------------------------------------------------
(* The five steps that touch a slot.                                       *)

(* The other slots' storage stays.                                         *)
LEMMA ConstructKeeps ==
  ASSUME SlotInv, ValueInv, NEW p \in Producers, Construct(p)
  PROVE  ValueInv'
<1>k. PICK k \in Nat : k = ticket[p]
  BY DEF SlotInv, TypeOK, Threads
<1> USE <1>k
<1>0. TypeOK /\ p \in Threads /\ k \in Nat /\ idx(k) \in Slots
  BY SlotAndRound DEF SlotInv, TypeOK, Threads
<1>1. pc[p] = "construct" /\ pc'[p] = "publish" /\ ticket' = ticket
  BY <1>0 DEF Construct, Goto, TypeOK
<1>2. \A t \in Threads : t # p => pc'[t] = pc[t]
  BY <1>0 DEF Construct, Goto, TypeOK
<1>3. turn' = turn /\ received' = received /\ sent' = sent
  BY DEF Construct
<1>4. storage' = [storage EXCEPT ![idx(k)] = sent[k + 1]]
  BY DEF Construct
<1>5. Writable(k)
  BY <1>1 DEF SlotInv, HeadInv, HeadTickets, HeadOwn
<1>6. storage'[idx(k)] = sent[k + 1] /\ Constructed(k)'
  BY <1>0, <1>1, <1>4 DEF TypeOK, Constructed
<1>7. \A j \in Nat : idx(j) # idx(k) => storage'[idx(j)] = storage[idx(j)]
  BY <1>0, <1>4, SlotAndRound DEF TypeOK
<1>8. ASSUME NEW j \in Nat, j # k PROVE Constructed(j)' <=> Constructed(j)
  BY <1>1, <1>2, <1>8 DEF Constructed, Threads
<1>9. ASSUME NEW j \in Nat
      PROVE  (Destroyed(j)' <=> Destroyed(j)) /\ (Extracted(j)' <=> Extracted(j))
  BY <1>1, <1>2, RolesDisjoint DEF RolesDisjoint, Destroyed, Extracted, Threads
<1>10. WriteInv'
  <2> SUFFICES ASSUME NEW j \in Nat, Writable(j)
               PROVE  /\ Constructed(j)' => storage'[idx(j)] = sent[j + 1]
                      /\ ~Constructed(j)' => storage'[idx(j)] = Dead
    BY <1>3 DEF WriteInv, Writable
  <2>1. CASE j = k
    BY <1>6, <2>1 DEF Constructed
  <2>2. CASE j # k
    <3>1. idx(j) # idx(k)
      BY <1>0, <1>5, <2>2, SameSlot
    <3> QED
      BY <1>7, <1>8, <2>2, <3>1 DEF ValueInv, WriteInv
  <2> QED
    BY <2>1, <2>2
<1>11. ReadInv'
  <2> SUFFICES ASSUME NEW j \in Nat, Readable(j)
               PROVE  /\ Destroyed(j)' => storage'[idx(j)] = Dead
                      /\ ~Destroyed(j)' => storage'[idx(j)] = sent[j + 1]
    BY <1>3 DEF ReadInv, Readable
  <2>1. idx(j) # idx(k)
    BY <1>0, <1>5, SameSlot
  <2> QED
    BY <1>7, <1>9, <2>1 DEF ValueInv, ReadInv
<1>12. ReceivedInv'
  <2>1. \A r \in received : r[1] \in Nat
    BY <1>0 DEF TypeOK
  <2> QED
    BY <1>3, <1>9, <2>1 DEF ValueInv, ReceivedInv, Released
<1> QED
  BY <1>10, <1>11, <1>12 DEF ValueInv

LEMMA PublishKeepsValues ==
  ASSUME SlotInv, ValueInv, NEW p \in Producers, Publish(p)
  PROVE  ValueInv'
<1>k. PICK k \in Nat : k = ticket[p]
  BY DEF SlotInv, TypeOK, Threads
<1> USE <1>k
<1>0. TypeOK /\ p \in Threads /\ k \in Nat /\ idx(k) \in Slots /\ round(k) \in Nat
  BY SlotAndRound DEF SlotInv, TypeOK, Threads
<1>1. pc[p] = "publish" /\ pc'[p] = "idle"
  BY <1>0 DEF Publish, Return, Goto, TypeOK
<1>2. \A t \in Threads : t # p => pc'[t] = pc[t] /\ ticket'[t] = ticket[t]
  BY <1>0, PushMoves DEF PushStep, Moves
<1>3. storage' = storage /\ received' = received /\ sent' = sent
  BY DEF Publish
<1>4. turn' = [turn EXCEPT ![idx(k)] = 2 * round(k) + 1]
  BY DEF Publish
<1>5. Constructed(k) /\ Writable(k)
  BY <1>0, <1>1, Holders DEF Constructed
<1>6. turn'[idx(k)] = 2 * round(k) + 1 /\ turn[idx(k)] = 2 * round(k)
  BY <1>0, <1>4, <1>5 DEF TypeOK, Writable
<1>7. \A j \in Nat : idx(j) # idx(k) => turn'[idx(j)] = turn[idx(j)]
  BY <1>0, <1>4, SlotAndRound DEF TypeOK
<1>8. ASSUME NEW j \in Nat, j # k PROVE Constructed(j)' <=> Constructed(j)
  BY <1>1, <1>2, <1>8 DEF Constructed, Threads
<1>9. ASSUME NEW j \in Nat
      PROVE  (Destroyed(j)' <=> Destroyed(j)) /\ (Extracted(j)' <=> Extracted(j))
  BY <1>2, RolesDisjoint DEF RolesDisjoint, Destroyed, Extracted, Threads
<1>10. WriteInv'
  <2> SUFFICES ASSUME NEW j \in Nat, Writable(j)'
               PROVE  /\ Constructed(j)' => storage[idx(j)] = sent[j + 1]
                      /\ ~Constructed(j)' => storage[idx(j)] = Dead
    BY <1>3 DEF WriteInv
  <2>1. idx(j) # idx(k)
    <3>1. round(j) \in Nat
      BY SlotAndRound
    <3> QED
      BY <1>0, <1>6, <3>1 DEF Writable
  <2>2. Writable(j) /\ j # k
    BY <1>7, <2>1 DEF Writable
  <2> QED
    BY <1>8, <2>2 DEF ValueInv, WriteInv
<1>11. ReadInv'
  <2> SUFFICES ASSUME NEW j \in Nat, Readable(j)'
               PROVE  /\ Destroyed(j)' => storage[idx(j)] = Dead
                      /\ ~Destroyed(j)' => storage[idx(j)] = sent[j + 1]
    BY <1>3 DEF ReadInv
  <2>1. CASE idx(j) = idx(k)
    <3>1. round(j) = round(k)
      <4>1. round(j) \in Nat
        BY SlotAndRound
      <4> QED
        BY <1>0, <1>6, <2>1, <4>1 DEF Readable
    <3>2. j = k
      BY <1>0, <2>1, <3>1, SlotAndRound
    <3>3. ~Destroyed(k)'
      BY <1>0, <1>5, <1>9, Holders
    <3>4. storage[idx(k)] = sent[k + 1]
      BY <1>0, <1>5 DEF ValueInv, WriteInv
    <3> QED
      BY <3>2, <3>3, <3>4 DEF Destroyed
  <2>2. CASE idx(j) # idx(k)
    <3>1. Readable(j)
      BY <1>7, <2>2 DEF Readable
    <3> QED
      BY <1>9, <3>1 DEF ValueInv, ReadInv
  <2> QED
    BY <2>1, <2>2
<1>12. ReceivedInv'
  <2> SUFFICES ASSUME NEW r \in received
               PROVE  /\ r[1] < Len(sent) /\ r[2] = sent[r[1] + 1]
                      /\ Released(r[1])' \/ Extracted(r[1])'
    BY <1>3 DEF ReceivedInv
  <2>1. r[1] \in Nat /\ round(r[1]) \in Nat
    BY <1>0, SlotAndRound DEF TypeOK
  <2>2. Released(r[1]) => Released(r[1])'
    <3>1. idx(r[1]) \in Slots /\ turn[idx(r[1])] \in Nat
      BY <1>0, <2>1, SlotAndRound DEF TypeOK
    <3>2. turn'[idx(r[1])] >= turn[idx(r[1])]
      BY <1>0, <1>6, <1>7, <2>1, <3>1
    <3>3. turn'[idx(r[1])] \in Nat
      BY <1>0, <1>6, <1>7, <2>1, <3>1
    <3> QED
      BY <2>1, <3>1, <3>2, <3>3 DEF Released
  <2> QED
    BY <1>9, <2>1, <2>2 DEF ValueInv, ReceivedInv
<1> QED
  BY <1>10, <1>11, <1>12 DEF ValueInv

LEMMA ExtractKeeps ==
  ASSUME SlotInv, ValueInv, NEW c \in Consumers, Extract(c)
  PROVE  ValueInv'
<1>k. PICK k \in Nat : k = ticket[c]
  BY DEF SlotInv, TypeOK, Threads
<1> USE <1>k
<1>0. TypeOK /\ SentInv /\ c \in Threads
  BY DEF SlotInv, Threads
<1>1. pc[c] = "extract" /\ pc'[c] = "destroy" /\ ticket' = ticket
  BY <1>0 DEF Extract, Goto, TypeOK
<1>2. \A t \in Threads : t # c => pc'[t] = pc[t]
  BY <1>0 DEF Extract, Goto, TypeOK
<1>3. turn' = turn /\ storage' = storage /\ sent' = sent
  BY DEF Extract
<1>4. received' = received \union {<<k, storage[idx(k)]>>}
  BY DEF Extract
<1>5. Readable(k)
  BY <1>1 DEF SlotInv, TailInv, TailTickets, TailOwn
<1>6. k < Len(sent) /\ storage[idx(k)] = sent[k + 1]
  <2>1. ~Destroyed(k)
    BY <1>1, AloneToPop
  <2> QED
    BY <1>0, <1>5, <2>1, Holders DEF ValueInv, ReadInv, SentInv
<1>7. ASSUME NEW j \in Nat
      PROVE  /\ Constructed(j)' <=> Constructed(j)
             /\ Destroyed(j)' <=> Destroyed(j)
             /\ Extracted(j) => Extracted(j)'
  BY <1>1, <1>2, RolesDisjoint
  DEF RolesDisjoint, Constructed, Destroyed, Extracted, Threads
<1>8. WriteInv' /\ ReadInv'
  BY <1>3, <1>7 DEF ValueInv, WriteInv, ReadInv, Writable, Readable
<1>9. ReceivedInv'
  <2> SUFFICES ASSUME NEW r \in received'
               PROVE  /\ r[1] < Len(sent) /\ r[2] = sent[r[1] + 1]
                      /\ Released(r[1]) \/ Extracted(r[1])'
    BY <1>3 DEF ReceivedInv, Released
  <2>1. CASE r \in received
    <3>1. r[1] \in Nat
      BY <1>0, <2>1 DEF TypeOK
    <3> QED
      BY <1>7, <2>1, <3>1 DEF ValueInv, ReceivedInv
  <2>2. CASE r = <<k, storage[idx(k)]>>
    <3>1. Extracted(k)'
      BY <1>1 DEF Extracted
    <3>2. r[1] = k /\ r[2] = storage[idx(k)]
      BY <2>2
    <3> QED
      BY <1>6, <3>1, <3>2 DEF Extracted
  <2> QED
    BY <1>4, <2>1, <2>2
<1> QED
  BY <1>8, <1>9 DEF ValueInv

LEMMA DestroyKeeps ==
  ASSUME SlotInv, ValueInv, NEW c \in Consumers, Destroy(c)
  PROVE  ValueInv'
<1>k. PICK k \in Nat : k = ticket[c]
  BY DEF SlotInv, TypeOK, Threads
<1> USE <1>k
<1>0. TypeOK /\ c \in Threads /\ idx(k) \in Slots
  BY SlotAndRound DEF SlotInv, Threads
<1>1. pc[c] = "destroy" /\ pc'[c] = "release" /\ ticket' = ticket
  BY <1>0 DEF Destroy, Goto, TypeOK
<1>2. \A t \in Threads : t # c => pc'[t] = pc[t]
  BY <1>0 DEF Destroy, Goto, TypeOK
<1>3. turn' = turn /\ received' = received /\ sent' = sent
  BY DEF Destroy
<1>4. storage' = [storage EXCEPT ![idx(k)] = Dead]
  BY DEF Destroy
<1>5. Readable(k)
  BY <1>1 DEF SlotInv, TailInv, TailTickets, TailOwn
<1>6. storage'[idx(k)] = Dead /\ Destroyed(k)'
  BY <1>0, <1>1, <1>4 DEF TypeOK, Destroyed
<1>7. \A j \in Nat : idx(j) # idx(k) => storage'[idx(j)] = storage[idx(j)]
  BY <1>0, <1>4, SlotAndRound DEF TypeOK
<1>8. ASSUME NEW j \in Nat, j # k PROVE Destroyed(j)' <=> Destroyed(j)
  BY <1>1, <1>2, <1>8 DEF Destroyed, Threads
<1>9. ASSUME NEW j \in Nat
      PROVE  (Constructed(j)' <=> Constructed(j)) /\ (Extracted(j) => Extracted(j)')
  BY <1>1, <1>2, RolesDisjoint DEF RolesDisjoint, Constructed, Extracted, Threads
<1>10. WriteInv'
  <2> SUFFICES ASSUME NEW j \in Nat, Writable(j)
               PROVE  /\ Constructed(j)' => storage'[idx(j)] = sent[j + 1]
                      /\ ~Constructed(j)' => storage'[idx(j)] = Dead
    BY <1>3 DEF WriteInv, Writable
  <2>1. idx(j) # idx(k)
    BY <1>5, SameSlot
  <2> QED
    BY <1>7, <1>9, <2>1 DEF ValueInv, WriteInv
<1>11. ReadInv'
  <2> SUFFICES ASSUME NEW j \in Nat, Readable(j)
               PROVE  /\ Destroyed(j)' => storage'[idx(j)] = Dead
                      /\ ~Destroyed(j)' => storage'[idx(j)] = sent[j + 1]
    BY <1>3 DEF ReadInv, Readable
  <2>1. CASE j = k
    BY <1>6, <2>1 DEF Destroyed
  <2>2. CASE j # k
    <3>1. idx(j) # idx(k)
      BY <1>5, <2>2, SameSlot
    <3> QED
      BY <1>7, <1>8, <2>2, <3>1 DEF ValueInv, ReadInv
  <2> QED
    BY <2>1, <2>2
<1>12. ReceivedInv'
  <2>1. \A r \in received : r[1] \in Nat
    BY <1>0 DEF TypeOK
  <2> QED
    BY <1>3, <1>9, <2>1 DEF ValueInv, ReceivedInv, Released
<1> QED
  BY <1>10, <1>11, <1>12 DEF ValueInv

LEMMA ReleaseKeepsValues ==
  ASSUME SlotInv, ValueInv, NEW c \in Consumers, Release(c)
  PROVE  ValueInv'
<1>k. PICK k \in Nat : k = ticket[c]
  BY DEF SlotInv, TypeOK, Threads
<1> USE <1>k
<1>0. TypeOK /\ c \in Threads /\ idx(k) \in Slots /\ round(k) \in Nat
  BY SlotAndRound DEF SlotInv, Threads
<1>1. pc[c] = "release" /\ pc'[c] = "idle"
  BY <1>0 DEF Release, Return, Goto, TypeOK
<1>2. \A t \in Threads : t # c => pc'[t] = pc[t] /\ ticket'[t] = ticket[t]
  BY <1>0, PopMoves DEF PopStep, Moves
<1>3. storage' = storage /\ received' = received /\ sent' = sent
  BY DEF Release
<1>4. turn' = [turn EXCEPT ![idx(k)] = 2 * round(k) + 2]
  BY DEF Release
<1>5. Destroyed(k) /\ Readable(k)
  BY <1>0, <1>1, Holders DEF Destroyed
<1>6. turn'[idx(k)] = 2 * round(k) + 2 /\ turn[idx(k)] = 2 * round(k) + 1
  BY <1>0, <1>4, <1>5 DEF TypeOK, Readable
<1>7. \A j \in Nat : idx(j) # idx(k) => turn'[idx(j)] = turn[idx(j)]
  BY <1>0, <1>4, SlotAndRound DEF TypeOK
<1>8. ASSUME NEW j \in Nat, j # k
      PROVE  (Destroyed(j)' <=> Destroyed(j)) /\ (Extracted(j)' <=> Extracted(j))
  <2>1. Destroyed(j)' <=> Destroyed(j)
    BY <1>1, <1>2, <1>8 DEF Destroyed, Threads
  <2>2. Extracted(j)' <=> Extracted(j)
    BY <1>1, <1>2, <1>8 DEF Extracted, Threads
  <2> QED
    BY <2>1, <2>2
<1>9. ASSUME NEW j \in Nat PROVE Constructed(j)' <=> Constructed(j)
  BY <1>2, RolesDisjoint DEF RolesDisjoint, Constructed, Threads
<1>10. WriteInv'
  <2> SUFFICES ASSUME NEW j \in Nat, Writable(j)'
               PROVE  /\ Constructed(j)' => storage[idx(j)] = sent[j + 1]
                      /\ ~Constructed(j)' => storage[idx(j)] = Dead
    BY <1>3 DEF WriteInv
  <2>1. CASE idx(j) = idx(k)
    <3>1. round(j) \in Nat /\ 2 * round(j) # turn[idx(j)]
      <4>1. round(j) \in Nat
        BY SlotAndRound
      <4> QED
        BY <1>0, <1>6, <2>1, <4>1
    <3>2. ~Constructed(j)'
      BY <1>9, <3>1, Holders DEF Writable
    <3>3. storage[idx(k)] = Dead
      BY <1>5 DEF ValueInv, ReadInv
    <3> QED
      BY <2>1, <3>2, <3>3
  <2>2. CASE idx(j) # idx(k)
    <3>1. Writable(j)
      BY <1>7, <2>2 DEF Writable
    <3> QED
      BY <1>9, <3>1 DEF ValueInv, WriteInv
  <2> QED
    BY <2>1, <2>2
<1>11. ReadInv'
  <2> SUFFICES ASSUME NEW j \in Nat, Readable(j)'
               PROVE  /\ Destroyed(j)' => storage[idx(j)] = Dead
                      /\ ~Destroyed(j)' => storage[idx(j)] = sent[j + 1]
    BY <1>3 DEF ReadInv
  <2>1. idx(j) # idx(k)
    <3>1. round(j) \in Nat
      BY SlotAndRound
    <3> QED
      BY <1>0, <1>6, <3>1 DEF Readable
  <2>2. Readable(j) /\ j # k
    BY <1>7, <2>1 DEF Readable
  <2> QED
    BY <1>8, <2>2 DEF ValueInv, ReadInv
<1>12. ReceivedInv'
  <2> SUFFICES ASSUME NEW r \in received
               PROVE  /\ r[1] < Len(sent) /\ r[2] = sent[r[1] + 1]
                      /\ Released(r[1])' \/ Extracted(r[1])'
    BY <1>3 DEF ReceivedInv
  <2>1. r[1] \in Nat /\ round(r[1]) \in Nat
    BY <1>0, SlotAndRound DEF TypeOK
  <2>2. Released(r[1]) => Released(r[1])'
    <3>1. idx(r[1]) \in Slots /\ turn[idx(r[1])] \in Nat
      BY <1>0, <2>1, SlotAndRound DEF TypeOK
    <3>2. /\ turn'[idx(r[1])] >= turn[idx(r[1])]
          /\ turn'[idx(r[1])] \in Nat
      BY <1>0, <1>6, <1>7, <2>1, <3>1
    <3> QED
      BY <2>1, <3>1, <3>2 DEF Released
  <2>3. r[1] = k => Released(r[1])'
    BY <1>0, <1>6 DEF Released
  <2> QED
    BY <1>8, <2>1, <2>2, <2>3 DEF ValueInv, ReceivedInv
<1> QED
  BY <1>10, <1>11, <1>12 DEF ValueInv

-----------------------------------------------------------------------------
(* The invariant.                                                          *)

LEMMA ValueInit == Init => ValueInv
<1> SUFFICES ASSUME Init PROVE ValueInv
  OBVIOUS
<1>1. ASSUME NEW k \in Nat
      PROVE  /\ storage[idx(k)] = Dead /\ turn[idx(k)] = 0 /\ round(k) \in Nat
             /\ ~Constructed(k)
  BY SlotAndRound DEF Init, Constructed, Threads
<1>2. WriteInv
  BY <1>1 DEF WriteInv
<1>3. ReadInv
  BY <1>1 DEF ReadInv, Readable
<1>4. ReceivedInv
  BY DEF Init, ReceivedInv
<1> QED
  BY <1>2, <1>3, <1>4 DEF ValueInv

LEMMA ValueStep == SlotInv /\ ValueInv /\ [Next]_vars => ValueInv'
<1> SUFFICES ASSUME SlotInv, ValueInv, [Next]_vars PROVE ValueInv'
  OBVIOUS
<1>1. ASSUME NEW p \in Producers, PushStep(p) PROVE ValueInv'
  <2>1. CASE Construct(p)
    BY <2>1, ConstructKeeps
  <2>2. CASE Publish(p)
    BY <2>2, PublishKeepsValues
  <2>3. CASE ~Construct(p) /\ ~Publish(p)
    BY <1>1, <2>3, PushElsewhere
  <2> QED
    BY <2>1, <2>2, <2>3
<1>2. ASSUME NEW c \in Consumers, PopStep(c) PROVE ValueInv'
  <2>1. CASE Extract(c)
    BY <2>1, ExtractKeeps
  <2>2. CASE Destroy(c)
    BY <2>2, DestroyKeeps
  <2>3. CASE Release(c)
    BY <2>3, ReleaseKeepsValues
  <2>4. CASE ~Extract(c) /\ ~Destroy(c) /\ ~Release(c)
    BY <1>2, <2>4, PopElsewhere
  <2> QED
    BY <2>1, <2>2, <2>3, <2>4
<1>3. CASE UNCHANGED vars
  BY <1>3 DEF vars, ValueInv, WriteInv, ReadInv, ReceivedInv, Writable, Readable,
              Released, Constructed, Destroyed, Extracted
<1> QED
  BY <1>1, <1>2, <1>3 DEF Next, Finished

LEMMA ValueInvariant == Spec => [](SlotInv /\ ValueInv)
<1>1. Safe => [](SlotInv /\ ValueInv)
  BY SlotInit, SlotStep, ValueInit, ValueStep, PTL DEF Safe
<1> QED
  BY <1>1, PTL DEF Spec

-----------------------------------------------------------------------------
(* What follows from it.                                                   *)

(* What was sent is a value, so extracting it finds one alive.             *)
LEMMA SentAlive ==
  ASSUME SlotInv, NEW k \in Nat, Readable(k)
  PROVE  sent[k + 1] # Dead
<1>1. k < head /\ head = Len(sent) /\ sent \in Seq(Values)
  BY Holders DEF SlotInv, SentInv, TypeOK
<1>2. sent[k + 1] \in Values
  BY <1>1
<1>3. \A v \in Values : v # Dead
  BY DEF Values, Dead
<1> QED
  BY <1>2, <1>3

LEMMA LifetimesNow == SlotInv /\ ValueInv => LifetimesOK
<1> SUFFICES ASSUME SlotInv, ValueInv PROVE LifetimesOK
  OBVIOUS
<1>1. ASSUME NEW p \in Producers, pc[p] = "construct"
      PROVE  storage[idx(ticket[p])] = Dead
  <2>1. ticket[p] \in Nat /\ Writable(ticket[p])
    BY <1>1 DEF SlotInv, TypeOK, HeadInv, HeadTickets, HeadOwn, Threads
  <2>2. ~Constructed(ticket[p])
    BY <1>1, AloneToPush
  <2> QED
    BY <2>1, <2>2 DEF ValueInv, WriteInv
<1>2. ASSUME NEW c \in Consumers, pc[c] \in {"extract", "destroy"}
      PROVE  storage[idx(ticket[c])] # Dead
  <2>1. ticket[c] \in Nat /\ Readable(ticket[c])
    BY <1>2 DEF SlotInv, TypeOK, TailInv, TailTickets, TailOwn, Threads
  <2>2. ~Destroyed(ticket[c])
    BY <1>2, AloneToPop
  <2> QED
    BY <2>1, <2>2, SentAlive DEF ValueInv, ReadInv
<1> QED
  BY <1>1, <1>2 DEF LifetimesOK

(* A value is constructed only in a slot that has none, and extracted and  *)
(* destroyed only while it is alive, however the threads of push and pop   *)
(* interleave and whichever constructors throw.                            *)
THEOREM LifetimesCorrect == Spec => []LifetimesOK
BY ValueInvariant, LifetimesNow, PTL

(* Every turn is some round's, the pusher's or the popper's.               *)
LEMMA HalfOf ==
  ASSUME NEW n \in Nat
  PROVE  \E r \in Nat : n = 2 * r \/ n = 2 * r + 1
<1> DEFINE r == n \div 2
<1>1. r \in Nat
  OBVIOUS
<1>2. n = 2 * r \/ n = 2 * r + 1
  OBVIOUS
<1> QED
  BY <1>1, <1>2

LEMMA DestructorNow == SlotInv /\ ValueInv => DestructorExact
<1> SUFFICES ASSUME SlotInv, ValueInv, NEW s \in Slots,
                    \A t \in Threads :
                        pc[t] \in {"publish", "release"} \/ InStorage(t)
                        => idx(ticket[t]) # s
             PROVE  turn[s] % 2 = 1 <=> storage[s] # Dead
  BY DEF DestructorExact
<1>1. turn[s] \in Nat
  BY DEF SlotInv, TypeOK
<1>2. PICK r \in Nat : turn[s] = 2 * r \/ turn[s] = 2 * r + 1
  BY <1>1, HalfOf
<1>3. PICK k \in Nat : idx(k) = s /\ round(k) = r
  BY TicketOf
<1>4. ~Constructed(k) /\ ~Destroyed(k)
  BY <1>3 DEF Constructed, Destroyed, Threads
<1>5. CASE turn[s] = 2 * r
  <2>1. storage[s] = Dead
    BY <1>3, <1>4, <1>5 DEF ValueInv, WriteInv, Writable
  <2>2. turn[s] % 2 = 0
    BY <1>5
  <2> QED
    BY <2>1, <2>2
<1>6. CASE turn[s] = 2 * r + 1
  <2>1. Readable(k)
    BY <1>3, <1>6 DEF Readable
  <2>2. storage[s] # Dead
    BY <1>3, <1>4, <2>1, SentAlive DEF ValueInv, ReadInv
  <2>3. turn[s] % 2 = 1
    BY <1>6
  <2> QED
    BY <2>2, <2>3
<1> QED
  BY <1>2, <1>5, <1>6

(* The slot destructor's test of turn's lowest bit is right in every slot  *)
(* no thread is inside: it destroys what is alive, and nothing else.       *)
THEOREM DestructorCorrect == Spec => []DestructorExact
BY ValueInvariant, DestructorNow, PTL

LEMMA TicketOrderNow == SlotInv /\ ValueInv => TicketOrder
<1> SUFFICES ASSUME SlotInv, ValueInv PROVE TicketOrder
  OBVIOUS
<1>1. ASSUME NEW c \in Consumers, pc[c] = "extract", NEW r \in received, r[1] = ticket[c]
      PROVE  FALSE
  <2>1. r[1] \in Nat /\ round(r[1]) \in Nat /\ Readable(r[1])
    BY <1>1, SlotAndRound DEF SlotInv, TypeOK, TailInv, TailTickets, TailOwn, Threads
  <2>2. ~Released(r[1])
    BY <2>1 DEF Readable, Released
  <2>3. ~Extracted(r[1])
    BY <1>1, AloneToPop
  <2> QED
    BY <2>2, <2>3 DEF ValueInv, ReceivedInv
<1> QED
  BY <1>1 DEF TicketOrder, ValueInv, ReceivedInv

(* The pop with ticket k gets the value of the push with ticket k, and no  *)
(* other pop does: first in, first out in the order of the tickets, even   *)
(* when a slow thread is a round behind the others.                        *)
THEOREM TicketsInOrder == Spec => []TicketOrder
BY ValueInvariant, TicketOrderNow, PTL

-----------------------------------------------------------------------------
(* Failing tries.                                                          *)

(* The counter only grows: a try that still finds it where it was has      *)
(* looked at the slot of the next ticket, and its observation was honest.  *)
HonestPush == \A p \in Producers : pc[p] = "reload" /\ ticket[p] = head => witness[p]
HonestPop  == \A c \in Consumers : pc[c] = "reload" /\ ticket[c] = tail => witness[c]

HonestInv == HonestPush /\ HonestPop

LEMMA HonestInit == Init => HonestInv
BY DEF Init, HonestInv, HonestPush, HonestPop, Threads

(* What one step does to the tries of all threads.                         *)
WitnessKept(t) == pc'[t] = pc[t] /\ ticket'[t] = ticket[t] /\ witness'[t] = witness[t]

LEMMA PushOthers ==
  ASSUME TypeOK, NEW p \in Producers, PushStep(p)
  PROVE  /\ \A u \in Threads : u # p => WitnessKept(u)
         /\ tail' = tail /\ (head' = head \/ head' = head + 1)
<1>1. \A u \in Threads : u # p => witness'[u] = witness[u]
  BY DEF TypeOK, PushStep, Push, PushSpin, TryPush, TryPushLook, TryPushCas,
         TryPushFails, TryPushReload, Construct, ConstructThrows, Publish,
         ClaimHead, Return
<1>2. tail' = tail /\ (head' = head \/ head' = head + 1)
  BY DEF PushStep, Push, PushSpin, TryPush, TryPushLook, TryPushCas,
         TryPushFails, TryPushReload, Construct, ConstructThrows, Publish, ClaimHead
<1> QED
  BY <1>1, <1>2, PushMoves DEF Moves, WitnessKept

LEMMA PopOthers ==
  ASSUME TypeOK, NEW c \in Consumers, PopStep(c)
  PROVE  /\ \A u \in Threads : u # c => WitnessKept(u)
         /\ head' = head /\ (tail' = tail \/ tail' = tail + 1)
<1>1. \A u \in Threads : u # c => witness'[u] = witness[u]
  BY DEF TypeOK, PopStep, Pop, PopSpin, TryPop, TryPopLook, TryPopCas, TryPopFails,
         TryPopReload, Extract, Destroy, Release, ClaimTail, Return
<1>2. head' = head /\ (tail' = tail \/ tail' = tail + 1)
  BY DEF PopStep, Pop, PopSpin, TryPop, TryPopLook, TryPopCas, TryPopFails,
         TryPopReload, Extract, Destroy, Release, ClaimTail
<1> QED
  BY <1>1, <1>2, PopMoves DEF Moves, WitnessKept

LEMMA PushHonest ==
  ASSUME SlotInv, HonestInv, NEW p \in Producers, PushStep(p)
  PROVE  HonestInv'
<1>0. TypeOK /\ p \in Threads /\ p \notin Consumers
  BY RolesDisjoint DEF RolesDisjoint, SlotInv, Threads
<1>1. /\ \A u \in Threads : u # p => WitnessKept(u)
      /\ tail' = tail /\ head \in Nat /\ (head' = head \/ head' = head + 1)
  BY <1>0, PushOthers DEF TypeOK
<1>2. pc'[p] = "reload" /\ ticket'[p] = head' => witness'[p]
  <2>1. CASE TryPushLook(p)
    BY <1>0, <2>1 DEF TryPushLook, Goto, Full, TypeOK
  <2>2. CASE ~TryPushLook(p)
    BY <1>0, <2>2 DEF PushStep, Push, PushSpin, TryPush, TryPushCas, TryPushFails,
                      TryPushReload, Construct, ConstructThrows, Publish,
                      Goto, Return, TypeOK
  <2> QED
    BY <2>1, <2>2
<1>3. ASSUME NEW q \in Producers, q # p, pc'[q] = "reload", ticket'[q] = head'
      PROVE  witness'[q]
  <2>1. pc[q] = "reload" /\ ticket[q] = head' /\ witness'[q] = witness[q]
    BY <1>1, <1>3 DEF WitnessKept, Threads
  <2>2. ticket[q] <= head
    BY <2>1 DEF SlotInv, HeadInv, HeadTickets, HeadOwn, Trying
  <2>3. ticket[q] = head
    BY <1>1, <2>1, <2>2
  <2> QED
    BY <2>1, <2>3 DEF HonestInv, HonestPush
<1>4. HonestPush'
  BY <1>2, <1>3 DEF HonestPush
<1>5. HonestPop'
  BY <1>0, <1>1 DEF HonestInv, HonestPop, WitnessKept, Threads
<1> QED
  BY <1>4, <1>5 DEF HonestInv

LEMMA PopHonest ==
  ASSUME SlotInv, HonestInv, NEW c \in Consumers, PopStep(c)
  PROVE  HonestInv'
<1>0. TypeOK /\ c \in Threads /\ c \notin Producers
  BY RolesDisjoint DEF RolesDisjoint, SlotInv, Threads
<1>1. /\ \A u \in Threads : u # c => WitnessKept(u)
      /\ head' = head /\ tail \in Nat /\ (tail' = tail \/ tail' = tail + 1)
  BY <1>0, PopOthers DEF TypeOK
<1>2. pc'[c] = "reload" /\ ticket'[c] = tail' => witness'[c]
  <2>1. CASE TryPopLook(c)
    BY <1>0, <2>1 DEF TryPopLook, Goto, Empty, TypeOK
  <2>2. CASE ~TryPopLook(c)
    BY <1>0, <2>2 DEF PopStep, Pop, PopSpin, TryPop, TryPopCas, TryPopFails,
                      TryPopReload, Extract, Destroy, Release, Goto, Return, TypeOK
  <2> QED
    BY <2>1, <2>2
<1>3. ASSUME NEW d \in Consumers, d # c, pc'[d] = "reload", ticket'[d] = tail'
      PROVE  witness'[d]
  <2>1. pc[d] = "reload" /\ ticket[d] = tail' /\ witness'[d] = witness[d]
    BY <1>1, <1>3 DEF WitnessKept, Threads
  <2>2. ticket[d] <= tail
    BY <2>1 DEF SlotInv, TailInv, TailTickets, TailOwn, Trying
  <2>3. ticket[d] = tail
    BY <1>1, <2>1, <2>2
  <2> QED
    BY <2>1, <2>3 DEF HonestInv, HonestPop
<1>4. HonestPop'
  BY <1>2, <1>3 DEF HonestPop
<1>5. HonestPush'
  BY <1>0, <1>1 DEF HonestInv, HonestPush, WitnessKept, Threads
<1> QED
  BY <1>4, <1>5 DEF HonestInv

LEMMA HonestStep == SlotInv /\ HonestInv /\ [Next]_vars => HonestInv'
<1> SUFFICES ASSUME SlotInv, HonestInv, [Next]_vars PROVE HonestInv'
  OBVIOUS
<1>1. CASE UNCHANGED vars
  BY <1>1 DEF vars, HonestInv, HonestPush, HonestPop
<1> QED
  BY <1>1, PushHonest, PopHonest DEF Next, Finished

HonestMove ==
    \A t \in Threads : pc[t] = "reload" /\ pc'[t] = "idle" => witness[t]

(* Only a failing try goes from its second load of the counter to its end, *)
(* and it does so because the counter has not moved.                       *)
LEMMA HonestReturn ==
  ASSUME SlotInv, HonestInv, [Next]_vars
  PROVE  HonestMove
<1>0. TypeOK
  BY DEF SlotInv
<1>1. ASSUME NEW t \in Threads, pc[t] = "reload", pc'[t] = "idle" PROVE witness[t]
  <2>1. ASSUME NEW p \in Producers, PushStep(p) PROVE witness[t]
    <3>1. t = p
      BY <1>0, <1>1, <2>1, PushMoves DEF Moves
    <3>2. ticket[p] = head
      BY <1>0, <1>1, <2>1, <3>1
      DEF PushStep, Push, PushSpin, TryPush, TryPushLook, TryPushCas, TryPushFails,
          TryPushReload, Construct, ConstructThrows, Publish, Goto, TypeOK
    <3> QED
      BY <1>1, <3>1, <3>2 DEF HonestInv, HonestPush
  <2>2. ASSUME NEW c \in Consumers, PopStep(c) PROVE witness[t]
    <3>1. t = c
      BY <1>0, <1>1, <2>2, PopMoves DEF Moves
    <3>2. ticket[c] = tail
      BY <1>0, <1>1, <2>2, <3>1
      DEF PopStep, Pop, PopSpin, TryPop, TryPopLook, TryPopCas, TryPopFails,
          TryPopReload, Extract, Destroy, Release, Goto, TypeOK
    <3> QED
      BY <1>1, <3>1, <3>2 DEF HonestInv, HonestPop
  <2>3. CASE UNCHANGED vars
    BY <1>1, <2>3 DEF vars
  <2> QED
    BY <2>1, <2>2, <2>3 DEF Next, Finished
<1> QED
  BY <1>1 DEF HonestMove

(* try_push returns false only if the queue was full when it last looked   *)
(* at the slot, and try_pop only if it was empty.                          *)
THEOREM FailuresHonest == Spec => FailureIsHonest
<1>1. Safe => [](SlotInv /\ HonestInv)
  BY SlotInit, SlotStep, HonestInit, HonestStep, PTL DEF Safe
<1>2. SlotInv /\ HonestInv /\ [Next]_vars => [HonestMove]_vars
  BY HonestReturn
<1>3. Safe => [][HonestMove]_vars
  BY <1>1, <1>2, PTL DEF Safe
<1> QED
  BY <1>3, PTL DEF Spec, FailureIsHonest, HonestMove
-----------------------------------------------------------------------------
(* The refinement.  A ticket drawn is a call entered, and the store to the *)
(* turn at the end of a call is its return; everything between is          *)
(* invisible.  What was popped has been received, and a try that may still *)
(* win its ticket has not used up its calls.                               *)

Served ==
    \A k \in Nat : Released(k) \/ Extracted(k) => \E r \in received : r[1] = k

CallsLeft ==
    /\ \A p \in Producers : Trying(p) => pushes[p] < PushQuota
    /\ \A c \in Consumers : Trying(c) => pops[c] < PopQuota

(* A slot's turn moves on by one: for the tickets before and after it in   *)
(* the same slot nothing changes.                                          *)
LEMMA TurnPublishes ==
  ASSUME TypeOK, NEW k \in Nat, Writable(k),
         turn' = [turn EXCEPT ![idx(k)] = 2 * round(k) + 1]
  PROVE  \A j \in Nat : /\ Published(j)' <=> Published(j) \/ j = k
                        /\ Released(j)' <=> Released(j)
<1> SUFFICES ASSUME NEW j \in Nat
             PROVE  /\ Published(j)' <=> Published(j) \/ j = k
                    /\ Released(j)' <=> Released(j)
  OBVIOUS
<1>1. /\ round(j) \in Nat /\ round(k) \in Nat /\ idx(j) \in Slots /\ idx(k) \in Slots
      /\ (idx(j) = idx(k) /\ round(j) = round(k) => j = k)
  BY SlotAndRound
<1>2. turn[idx(k)] = 2 * round(k) /\ turn'[idx(k)] = 2 * round(k) + 1
  BY <1>1 DEF Writable, TypeOK
<1>3. CASE idx(j) = idx(k)
  <2>1. Published(j)' <=> Published(j) \/ j = k
    BY <1>1, <1>2, <1>3 DEF Published
  <2>2. Released(j)' <=> Released(j)
    BY <1>1, <1>2, <1>3 DEF Released
  <2> QED  BY <2>1, <2>2
<1>4. CASE idx(j) # idx(k)
  <2>1. turn'[idx(j)] = turn[idx(j)]  BY <1>1, <1>4 DEF TypeOK
  <2> QED  BY <1>4, <2>1 DEF Published, Released
<1> QED  BY <1>3, <1>4

LEMMA TurnReleases ==
  ASSUME TypeOK, NEW k \in Nat, Readable(k),
         turn' = [turn EXCEPT ![idx(k)] = 2 * round(k) + 2]
  PROVE  \A j \in Nat : /\ Published(j)' <=> Published(j)
                        /\ Released(j)' <=> Released(j) \/ j = k
<1> SUFFICES ASSUME NEW j \in Nat
             PROVE  /\ Published(j)' <=> Published(j)
                    /\ Released(j)' <=> Released(j) \/ j = k
  OBVIOUS
<1>1. /\ round(j) \in Nat /\ round(k) \in Nat /\ idx(j) \in Slots /\ idx(k) \in Slots
      /\ (idx(j) = idx(k) /\ round(j) = round(k) => j = k)
  BY SlotAndRound
<1>2. turn[idx(k)] = 2 * round(k) + 1 /\ turn'[idx(k)] = 2 * round(k) + 2
  BY <1>1 DEF Readable, TypeOK
<1>3. CASE idx(j) = idx(k)
  <2>1. Published(j)' <=> Published(j)
    BY <1>1, <1>2, <1>3 DEF Published
  <2>2. Released(j)' <=> Released(j) \/ j = k
    BY <1>1, <1>2, <1>3 DEF Released
  <2> QED  BY <2>1, <2>2
<1>4. CASE idx(j) # idx(k)
  <2>1. turn'[idx(j)] = turn[idx(j)]  BY <1>1, <1>4 DEF TypeOK
  <2> QED  BY <1>4, <2>1 DEF Published, Released
<1> QED  BY <1>3, <1>4

(* The call numbers of one side.                                           *)
LEMMA NumberKept ==
  ASSUME NEW T, \A t \in T : (Holding(t)' <=> Holding(t)) /\ (Holding(t) => ticket'[t] = ticket[t])
  PROVE  NumberOf(T)' = NumberOf(T)
BY DEF NumberOf

LEMMA NumberSet ==
  ASSUME NEW T, NEW t \in T,
         \A u \in T : u # t => (Holding(u)' <=> Holding(u)) /\ ticket'[u] = ticket[u]
  PROVE  NumberOf(T)' =
           [NumberOf(T) EXCEPT ![t] = IF Holding(t)' THEN ticket'[t] ELSE -1]
BY DEF NumberOf

(* Steps that move no ticket and no turn are invisible.                    *)
LEMMA Invisible ==
  ASSUME UNCHANGED <<sent, tail, head, turn, pushes, pops>>,
         {r \in received : Released(r[1])}' = {r \in received : Released(r[1])},
         \A t \in Threads : (Holding(t)' <=> Holding(t)) /\ (Holding(t) => ticket'[t] = ticket[t])
  PROVE  UNCHANGED Tickets!vars
<1>1. NumberOf(Producers)' = NumberOf(Producers) /\ NumberOf(Consumers)' = NumberOf(Consumers)
  BY NumberKept DEF Threads
<1>2. {k \in 0..head - 1 : Published(k)}' = {k \in 0..head - 1 : Published(k)}
  BY DEF Published
<1> QED  BY <1>1, <1>2 DEF Tickets!vars

(* The same when only one thread moves, and it moves within its call.      *)
LEMMA OneMoves ==
  ASSUME TypeOK, NEW t \in Threads, NEW l,
         UNCHANGED <<sent, tail, head, turn, pushes, pops, received>>,
         pc' = [pc EXCEPT ![t] = l],
         \A u \in Threads \ {t} : ticket'[u] = ticket[u],
         Holding(t) <=> l \in {"spin", "construct", "publish", "extract", "destroy", "release"},
         Holding(t) => ticket'[t] = ticket[t]
  PROVE  UNCHANGED Tickets!vars
<1>1. \A u \in Threads : pc'[u] = IF u = t THEN l ELSE pc[u]
  BY DEF TypeOK
<1>2. \A u \in Threads : (Holding(u)' <=> Holding(u)) /\ (Holding(u) => ticket'[u] = ticket[u])
  BY <1>1 DEF Holding
<1>3. {r \in received : Released(r[1])}' = {r \in received : Released(r[1])}
  BY DEF Released
<1> QED  BY <1>2, <1>3, Invisible

(* Drawing a ticket is entering a call.                                    *)
LEMMA EnterPush ==
  ASSUME SlotInv, NEW p \in Producers, ClaimHead(p), ~Holding(p), pushes[p] < PushQuota,
         NEW l \in {"spin", "construct"}, Goto(p, l)
  PROVE  Tickets!PushEnter(p)
<1> USE DEF SlotInv
<1>1. head \in Nat /\ head = Len(sent) /\ p \in Threads  BY DEF TypeOK, SentInv, Threads
<1>2. \A u \in Threads : pc'[u] = (IF u = p THEN l ELSE pc[u])
                         /\ ticket'[u] = (IF u = p THEN head ELSE ticket[u])
  BY <1>1 DEF TypeOK, Goto, ClaimHead
<1>3. NumberOf(Producers)[p] = -1  BY DEF NumberOf
<1>4. NumberOf(Producers)' = [NumberOf(Producers) EXCEPT ![p] = Len(sent)]
  <2>1. Holding(p)' /\ ticket'[p] = Len(sent)  BY <1>1, <1>2 DEF Holding
  <2>2. \A u \in Producers : u # p => (Holding(u)' <=> Holding(u)) /\ ticket'[u] = ticket[u]
    BY <1>2 DEF Holding, Threads
  <2>3. NumberOf(Producers)' =
          [NumberOf(Producers) EXCEPT ![p] = IF Holding(p)' THEN ticket'[p] ELSE -1]
    BY <2>2, NumberSet
  <2> QED  BY <2>1, <2>3
<1>5. NumberOf(Consumers)' = NumberOf(Consumers)
  <2>1. \A c \in Consumers : c # p /\ c \in Threads
    BY RolesDisjoint DEF RolesDisjoint, Threads
  <2>2. \A c \in Consumers : (Holding(c)' <=> Holding(c)) /\ ticket'[c] = ticket[c]
    BY <1>2, <2>1 DEF Holding
  <2> QED  BY <2>2, NumberKept
<1>6. {k \in 0..head - 1 : Published(k)}' = {k \in 0..head - 1 : Published(k)}
  <2>1. ~Published(head)
    <3>1. round(head) \in Nat /\ idx(head) \in Slots  BY <1>1, SlotAndRound
    <3>2. turn[idx(head)] <= 2 * round(head)  BY <1>1 DEF HeadInv, HeadFuture
    <3> QED  BY <3>1, <3>2 DEF Published, TypeOK
  <2>2. head' = head + 1 /\ turn' = turn  BY DEF ClaimHead
  <2>3. \A k : Published(k)' <=> Published(k)  BY <2>2 DEF Published
  <2>4. \A k : k \in 0..head' - 1 <=> k \in 0..head - 1 \/ k = head  BY <1>1, <2>2
  <2> QED  BY <2>1, <2>3, <2>4
<1>7. {r \in received : Released(r[1])}' = {r \in received : Released(r[1])}
  BY DEF ClaimHead, Released
<1>8. /\ sent' = Append(sent, <<p, pushes[p] + 1>>)
      /\ pushes' = [pushes EXCEPT ![p] = @ + 1] /\ pops' = pops /\ tail' = tail
  BY DEF ClaimHead
<1> QED
  BY <1>3, <1>4, <1>5, <1>6, <1>7, <1>8 DEF Tickets!PushEnter, Tickets!NoTicket

LEMMA EnterPop ==
  ASSUME SlotInv, NEW c \in Consumers, ClaimTail(c), ~Holding(c), pops[c] < PopQuota,
         NEW l \in {"spin", "extract"}, Goto(c, l)
  PROVE  Tickets!PopEnter(c)
<1> USE DEF SlotInv
<1>1. c \in Threads  BY DEF Threads
<1>2. \A u \in Threads : pc'[u] = (IF u = c THEN l ELSE pc[u])
                         /\ ticket'[u] = (IF u = c THEN tail ELSE ticket[u])
  BY <1>1 DEF TypeOK, Goto, ClaimTail
<1>3. NumberOf(Consumers)[c] = -1  BY DEF NumberOf
<1>4. NumberOf(Consumers)' = [NumberOf(Consumers) EXCEPT ![c] = tail]
  <2>1. Holding(c)' /\ ticket'[c] = tail  BY <1>1, <1>2 DEF Holding
  <2>2. \A u \in Consumers : u # c => (Holding(u)' <=> Holding(u)) /\ ticket'[u] = ticket[u]
    BY <1>2 DEF Holding, Threads
  <2>3. NumberOf(Consumers)' =
          [NumberOf(Consumers) EXCEPT ![c] = IF Holding(c)' THEN ticket'[c] ELSE -1]
    BY <2>2, NumberSet
  <2> QED  BY <2>1, <2>3
<1>5. NumberOf(Producers)' = NumberOf(Producers)
  <2>1. \A p \in Producers : p # c /\ p \in Threads
    BY RolesDisjoint DEF RolesDisjoint, Threads
  <2>2. \A p \in Producers : (Holding(p)' <=> Holding(p)) /\ ticket'[p] = ticket[p]
    BY <1>2, <2>1 DEF Holding
  <2> QED  BY <2>2, NumberKept
<1>6. {k \in 0..head - 1 : Published(k)}' = {k \in 0..head - 1 : Published(k)}
  BY DEF ClaimTail, Published
<1>7. {r \in received : Released(r[1])}' = {r \in received : Released(r[1])}
  BY DEF ClaimTail, Released
<1> QED
  BY <1>3, <1>4, <1>5, <1>6, <1>7 DEF ClaimTail, Tickets!PopEnter, Tickets!NoTicket

(* The ticket a round earlier in the same slot.                            *)
LEMMA RoundBefore ==
  ASSUME NEW k \in Nat, k >= Capacity
  PROVE  k - Capacity \in Nat /\ idx(k - Capacity) = idx(k)
         /\ round(k) = round(k - Capacity) + 1
<1>1. Capacity \in Nat \ {0}  BY CapacityType DEF CapacityType
<1> QED  BY <1>1 DEF idx, round

(* The store to the turn is the return of the call.                        *)
LEMMA ReturnPush ==
  ASSUME SlotInv, Served, NEW p \in Producers, Publish(p)
  PROVE  Tickets!PushReturn(p)
<1>k. PICK k \in Nat : k = ticket[p]
  BY DEF SlotInv, TypeOK, Threads
<1>0. TypeOK /\ p \in Threads /\ pc[p] = "publish" /\ head \in Nat
  BY DEF SlotInv, TypeOK, Publish, Threads
<1>1. Writable(k) /\ k < head
  BY <1>k, <1>0 DEF SlotInv, HeadInv, HeadTickets, HeadOwn, PushHolds
<1>2. pc'[p] = "idle" /\ \A u \in Threads : u # p => pc'[u] = pc[u] /\ ticket'[u] = ticket[u]
  BY <1>0 DEF Publish, Return, Goto, TypeOK
<1>3. \A j \in Nat : /\ Published(j)' <=> Published(j) \/ j = k
                     /\ Released(j)' <=> Released(j)
  BY <1>k, <1>0, <1>1, TurnPublishes DEF Publish
<1>4. NumberOf(Producers)[p] = k  BY <1>k, <1>0 DEF NumberOf, Holding
<1>5. k < Capacity \/ k - Capacity \in Tickets!Popped
  <2> SUFFICES ASSUME ~(k < Capacity) PROVE k - Capacity \in Tickets!Popped
    OBVIOUS
  <2>0. k >= Capacity  BY CapacityType DEF CapacityType
  <2>1. PICK j \in Nat : j = k - Capacity /\ idx(j) = idx(k) /\ round(k) = round(j) + 1
    BY <2>0, RoundBefore
  <2>2. round(j) \in Nat  BY SlotAndRound
  <2>3. Released(j)  BY <1>1, <2>1, <2>2 DEF Writable, Released
  <2>4. PICK r \in received : r[1] = j  BY <2>3 DEF Served
  <2>5. r \in {q \in received : Released(q[1])}  BY <2>3, <2>4
  <2> QED  BY <2>1, <2>4, <2>5 DEF Tickets!Popped
<1>6. {j \in 0..head - 1 : Published(j)}' = {j \in 0..head - 1 : Published(j)} \union {k}
  <2>1. head' = head  BY DEF Publish
  <2>2. k \in 0..head - 1 /\ \A j \in 0..head - 1 : j \in Nat  BY <1>0, <1>1
  <2> QED  BY <1>3, <2>1, <2>2
<1>7. NumberOf(Producers)' = [NumberOf(Producers) EXCEPT ![p] = -1]
  <2>1. ~Holding(p)'  BY <1>2 DEF Holding
  <2>2. \A u \in Producers : u # p => (Holding(u)' <=> Holding(u)) /\ ticket'[u] = ticket[u]
    BY <1>2 DEF Holding, Threads
  <2>3. NumberOf(Producers)' =
          [NumberOf(Producers) EXCEPT ![p] = IF Holding(p)' THEN ticket'[p] ELSE -1]
    BY <2>2, NumberSet
  <2> QED  BY <2>1, <2>3
<1>8. NumberOf(Consumers)' = NumberOf(Consumers)
  <2>1. \A c \in Consumers : pc'[c] = pc[c] /\ ticket'[c] = ticket[c]
    BY <1>2, RolesDisjoint DEF RolesDisjoint, Threads
  <2>2. \A c \in Consumers : (Holding(c)' <=> Holding(c)) /\ ticket'[c] = ticket[c]
    BY <2>1 DEF Holding
  <2> QED  BY <2>2, NumberKept
<1>9. {r \in received : Released(r[1])}' = {r \in received : Released(r[1])}
  <2>1. received' = received /\ \A r \in received : r[1] \in Nat
    BY <1>0 DEF Publish, TypeOK
  <2> QED  BY <1>3, <2>1
<1>10. UNCHANGED <<sent, tail, pushes, pops>>  BY DEF Publish
<1> QED
  BY <1>4, <1>5, <1>6, <1>7, <1>8, <1>9, <1>10 DEF Tickets!PushReturn, Tickets!NoTicket

LEMMA ReturnPop ==
  ASSUME SlotInv, ValueInv, Served, NEW c \in Consumers, Release(c)
  PROVE  Tickets!PopReturn(c)
<1>k. PICK k \in Nat : k = ticket[c]
  BY DEF SlotInv, TypeOK, Threads
<1>0. TypeOK /\ c \in Threads /\ pc[c] = "release" /\ head \in Nat
  BY DEF SlotInv, TypeOK, Release, Threads
<1>1. Readable(k) /\ Extracted(k) /\ k < head
  <2>1. Extracted(k)  BY <1>k, <1>0 DEF Extracted
  <2> QED  BY <2>1, Holders
<1>2. pc'[c] = "idle" /\ \A u \in Threads : u # c => pc'[u] = pc[u] /\ ticket'[u] = ticket[u]
  BY <1>0 DEF Release, Return, Goto, TypeOK
<1>3. \A j \in Nat : /\ Published(j)' <=> Published(j)
                     /\ Released(j)' <=> Released(j) \/ j = k
  BY <1>k, <1>0, <1>1, TurnReleases DEF Release
<1>4. NumberOf(Consumers)[c] = k  BY <1>k, <1>0 DEF NumberOf, Holding
<1>5. k \in {j \in 0..head - 1 : Published(j)}
  <2>1. k \in 0..head - 1  BY <1>0, <1>1
  <2>2. round(k) \in Nat  BY SlotAndRound
  <2>3. Published(k)  BY <1>1, <2>2 DEF Readable, Published
  <2> QED  BY <2>1, <2>3
<1>6. {r \in received : Released(r[1])}' =
        {r \in received : Released(r[1])} \union {<<k, sent[k + 1]>>}
  <2>0. received' = received  BY DEF Release
  <2>1. \A r \in received : r[1] \in Nat /\ r = <<r[1], r[2]>>  BY <1>0 DEF TypeOK
  <2>2. \A r \in received : r[1] = k => r = <<k, sent[k + 1]>>
    BY <2>1 DEF ValueInv, ReceivedInv
  <2>3. <<k, sent[k + 1]>> \in received
    BY <1>1, <2>2 DEF Served
  <2>4. \A r \in received : Released(r[1])' <=> Released(r[1]) \/ r = <<k, sent[k + 1]>>
    BY <1>3, <2>1, <2>2
  <2> QED  BY <2>0, <2>3, <2>4
<1>7. NumberOf(Consumers)' = [NumberOf(Consumers) EXCEPT ![c] = -1]
  <2>1. ~Holding(c)'  BY <1>2 DEF Holding
  <2>2. \A u \in Consumers : u # c => (Holding(u)' <=> Holding(u)) /\ ticket'[u] = ticket[u]
    BY <1>2 DEF Holding, Threads
  <2>3. NumberOf(Consumers)' =
          [NumberOf(Consumers) EXCEPT ![c] = IF Holding(c)' THEN ticket'[c] ELSE -1]
    BY <2>2, NumberSet
  <2> QED  BY <2>1, <2>3
<1>8. NumberOf(Producers)' = NumberOf(Producers)
  <2>1. \A p \in Producers : pc'[p] = pc[p] /\ ticket'[p] = ticket[p]
    BY <1>2, RolesDisjoint DEF RolesDisjoint, Threads
  <2>2. \A p \in Producers : (Holding(p)' <=> Holding(p)) /\ ticket'[p] = ticket[p]
    BY <2>1 DEF Holding
  <2> QED  BY <2>2, NumberKept
<1>9. {j \in 0..head - 1 : Published(j)}' = {j \in 0..head - 1 : Published(j)}
  <2>1. head' = head /\ \A j \in 0..head - 1 : j \in Nat  BY <1>0 DEF Release
  <2> QED  BY <1>3, <2>1
<1>10. UNCHANGED <<sent, tail, pushes, pops>>  BY DEF Release
<1> QED
  BY <1>4, <1>5, <1>6, <1>7, <1>8, <1>9, <1>10 DEF Tickets!PopReturn, Tickets!NoTicket

(* Looking, spinning and touching the storage show nothing.                *)
LEMMA QuietPush ==
  ASSUME SlotInv, NEW p \in Producers,
         \/ PushSpin(p) \/ TryPush(p) \/ TryPushLook(p) \/ TryPushFails(p)
         \/ TryPushReload(p) \/ Construct(p)
         \/ TryPushCas(p) /\ head # ticket[p]
  PROVE  UNCHANGED Tickets!vars
<1>0. TypeOK /\ p \in Threads /\ p \notin Consumers
  BY RolesDisjoint DEF RolesDisjoint, SlotInv, Threads
<1>1. CASE PushSpin(p)
  BY <1>0, <1>1, OneMoves DEF PushSpin, Goto, Holding
<1>2. CASE TryPush(p) \/ TryPushReload(p) \/ (TryPushCas(p) /\ head # ticket[p])
  <2>1. /\ pc' = [pc EXCEPT ![p] = "look"] /\ ~Holding(p)
        /\ UNCHANGED <<sent, tail, head, turn, pushes, pops, received>>
        /\ ticket' = [ticket EXCEPT ![p] = head]
    BY <1>2 DEF TryPush, TryPushReload, TryPushCas, Goto, Holding
  <2>2. \A u \in Threads \ {p} : ticket'[u] = ticket[u]  BY <1>0, <2>1 DEF TypeOK
  <2> QED  BY <1>0, <2>1, <2>2, OneMoves
<1>3. CASE TryPushLook(p)
  <2>1. PICK l \in {"cas", "reload"} : pc' = [pc EXCEPT ![p] = l]
    BY <1>3 DEF TryPushLook, Goto
  <2> QED  BY <1>0, <1>3, <2>1, OneMoves DEF TryPushLook, Holding
<1>4. CASE TryPushFails(p)
  <2>1. \A u \in Threads \ {p} : ticket'[u] = ticket[u]
    BY <1>0, <1>4 DEF TryPushFails, Return, TypeOK
  <2> QED  BY <1>0, <1>4, <2>1, OneMoves DEF TryPushFails, Return, Goto, Holding
<1>5. CASE Construct(p)
  BY <1>0, <1>5, OneMoves DEF Construct, Goto, Holding
<1> QED  BY <1>1, <1>2, <1>3, <1>4, <1>5

LEMMA QuietPop ==
  ASSUME SlotInv, NEW c \in Consumers,
         \/ PopSpin(c) \/ TryPop(c) \/ TryPopLook(c) \/ TryPopFails(c)
         \/ TryPopReload(c) \/ Extract(c) \/ Destroy(c)
         \/ TryPopCas(c) /\ tail # ticket[c]
  PROVE  UNCHANGED Tickets!vars
<1>0. TypeOK /\ c \in Threads
  BY DEF SlotInv, Threads
<1>1. CASE PopSpin(c)
  BY <1>0, <1>1, OneMoves DEF PopSpin, Goto, Holding
<1>2. CASE TryPop(c) \/ TryPopReload(c) \/ (TryPopCas(c) /\ tail # ticket[c])
  <2>1. /\ pc' = [pc EXCEPT ![c] = "look"] /\ ~Holding(c)
        /\ UNCHANGED <<sent, tail, head, turn, pushes, pops, received>>
        /\ ticket' = [ticket EXCEPT ![c] = tail]
    BY <1>2 DEF TryPop, TryPopReload, TryPopCas, Goto, Holding
  <2>2. \A u \in Threads \ {c} : ticket'[u] = ticket[u]  BY <1>0, <2>1 DEF TypeOK
  <2> QED  BY <1>0, <2>1, <2>2, OneMoves
<1>3. CASE TryPopLook(c)
  <2>1. PICK l \in {"cas", "reload"} : pc' = [pc EXCEPT ![c] = l]
    BY <1>3 DEF TryPopLook, Goto
  <2> QED  BY <1>0, <1>3, <2>1, OneMoves DEF TryPopLook, Holding
<1>4. CASE TryPopFails(c)
  <2>1. \A u \in Threads \ {c} : ticket'[u] = ticket[u]
    BY <1>0, <1>4 DEF TryPopFails, Return, TypeOK
  <2> QED  BY <1>0, <1>4, <2>1, OneMoves DEF TryPopFails, Return, Goto, Holding
<1>5. CASE Destroy(c)
  BY <1>0, <1>5, OneMoves DEF Destroy, Goto, Holding
<1>6. CASE Extract(c)
  <2>k. PICK k \in Nat : k = ticket[c]  BY <1>0 DEF TypeOK
  <2>1. Readable(k) /\ round(k) \in Nat
    BY <1>6, <2>k, SlotAndRound DEF Extract, SlotInv, TailInv, TailTickets, TailOwn
  <2>2. ~Released(k)  BY <2>1 DEF Readable, Released
  <2>3. received' = received \union {<<k, storage[idx(k)]>>}  BY <1>6, <2>k DEF Extract
  <2>4. \A j : Released(j)' <=> Released(j)  BY <1>6 DEF Extract, Released
  <2>5. {r \in received : Released(r[1])}' = {r \in received : Released(r[1])}
    BY <2>2, <2>3, <2>4
  <2>6. \A t \in Threads : (Holding(t)' <=> Holding(t)) /\ (Holding(t) => ticket'[t] = ticket[t])
    BY <1>0, <1>6 DEF Extract, Goto, Holding, TypeOK
  <2> QED  BY <1>6, <2>5, <2>6, Invisible DEF Extract
<1> QED  BY <1>1, <1>2, <1>3, <1>4, <1>5, <1>6

-----------------------------------------------------------------------------
(* The two facts the refinement needs hold.                                *)

LEMMA CallsLeftStep ==
  ASSUME TypeOK, CallsLeft, [Next]_vars
  PROVE  CallsLeft'
<1>1. ASSUME NEW p \in Producers, PushStep(p) PROVE CallsLeft'
  <2>1. Moves(p) /\ p \in Threads  BY <1>1, PushMoves DEF Threads
  <2>2. \A q \in Producers : q # p => pc'[q] = pc[q] /\ pushes'[q] = pushes[q]
    BY <1>1, <2>1
    DEF TypeOK, Moves, Threads, PushStep, Push, PushSpin, TryPush, TryPushLook, TryPushCas,
        TryPushFails, TryPushReload, Construct, ConstructThrows, Publish, ClaimHead
  <2>3. Trying(p)' => pushes'[p] < PushQuota
    BY <1>1, <2>1
    DEF TypeOK, CallsLeft, Trying, PushStep, Push, PushSpin, TryPush, TryPushLook,
        TryPushCas, TryPushFails, TryPushReload, Construct, ConstructThrows, Publish,
        ClaimHead, Goto, Return
  <2>4. \A c \in Consumers : pc'[c] = pc[c] /\ pops'[c] = pops[c]
    BY <1>1, <2>1, RolesDisjoint
    DEF RolesDisjoint, Moves, Threads, PushStep, Push, PushSpin, TryPush, TryPushLook,
        TryPushCas, TryPushFails, TryPushReload, Construct, ConstructThrows, Publish, ClaimHead
  <2> QED  BY <2>2, <2>3, <2>4 DEF CallsLeft, Trying
<1>2. ASSUME NEW c \in Consumers, PopStep(c) PROVE CallsLeft'
  <2>1. Moves(c) /\ c \in Threads  BY <1>2, PopMoves DEF Threads
  <2>2. \A d \in Consumers : d # c => pc'[d] = pc[d] /\ pops'[d] = pops[d]
    BY <1>2, <2>1
    DEF TypeOK, Moves, Threads, PopStep, Pop, PopSpin, TryPop, TryPopLook, TryPopCas,
        TryPopFails, TryPopReload, Extract, Destroy, Release, ClaimTail
  <2>3. Trying(c)' => pops'[c] < PopQuota
    BY <1>2, <2>1
    DEF TypeOK, CallsLeft, Trying, PopStep, Pop, PopSpin, TryPop, TryPopLook,
        TryPopCas, TryPopFails, TryPopReload, Extract, Destroy, Release,
        ClaimTail, Goto, Return
  <2>4. \A p \in Producers : pc'[p] = pc[p] /\ pushes'[p] = pushes[p]
    BY <1>2, <2>1, RolesDisjoint
    DEF RolesDisjoint, Moves, Threads, PopStep, Pop, PopSpin, TryPop, TryPopLook,
        TryPopCas, TryPopFails, TryPopReload, Extract, Destroy, Release, ClaimTail
  <2> QED  BY <2>2, <2>3, <2>4 DEF CallsLeft, Trying
<1>3. CASE UNCHANGED vars
  BY <1>3 DEF vars, CallsLeft, Trying
<1> QED  BY <1>1, <1>2, <1>3 DEF Next, Finished

(* What is released or extracted was received, and what was received stays.*)
LEMMA ServedStep ==
  ASSUME SlotInv, ValueInv, Served, [Next]_vars
  PROVE  Served'
<1>0. TypeOK  BY DEF SlotInv
<1>1. received \subseteq received'
  BY DEF Next, Finished, vars, PushStep, Push, PushSpin, TryPush, TryPushLook, TryPushCas,
         TryPushFails, TryPushReload, Construct, ConstructThrows, Publish, ClaimHead,
         PopStep, Pop, PopSpin, TryPop, TryPopLook, TryPopCas, TryPopFails,
         TryPopReload, Extract, Destroy, Release, ClaimTail
<1>2. ASSUME NEW p \in Producers, PushStep(p), NEW k \in Nat
      PROVE  (Released(k)' => Released(k)) /\ (Extracted(k)' => Extracted(k))
  <2>1. \A c \in Consumers : pc'[c] = pc[c] /\ ticket'[c] = ticket[c]
    BY <1>0, <1>2, PushMoves, RolesDisjoint DEF RolesDisjoint, Moves, Threads
  <2>2. Extracted(k)' => Extracted(k)  BY <2>1 DEF Extracted
  <2>3. CASE Publish(p)
    <3>k. PICK j \in Nat : j = ticket[p]  BY <1>0 DEF TypeOK, Threads
    <3>1. Writable(j)
      BY <2>3, <3>k DEF Publish, SlotInv, HeadInv, HeadTickets, HeadOwn
    <3> QED  BY <1>0, <2>2, <2>3, <3>k, <3>1, TurnPublishes DEF Publish
  <2>4. CASE ~Publish(p)
    BY <1>2, <2>2, <2>4
    DEF Released, PushStep, Push, PushSpin, TryPush, TryPushLook, TryPushCas,
        TryPushFails, TryPushReload, Construct, ConstructThrows, ClaimHead
  <2> QED  BY <2>3, <2>4
<1>3. ASSUME NEW c \in Consumers, PopStep(c), ~Extract(c), NEW k \in Nat
      PROVE  Released(k)' \/ Extracted(k)' => Released(k) \/ Extracted(k)
  <2>1. \A d \in Consumers : d # c => pc'[d] = pc[d] /\ ticket'[d] = ticket[d]
    BY <1>0, <1>3, PopMoves DEF Moves, Threads
  <2>2. pc'[c] \in {"destroy", "release"} => pc[c] \in {"destroy", "release"} /\ ticket'[c] = ticket[c]
    BY <1>0, <1>3
    DEF TypeOK, Threads, PopStep, Pop, PopSpin, TryPop, TryPopLook, TryPopCas, TryPopFails,
        TryPopReload, Destroy, Release, ClaimTail, Goto, Return
  <2>3. Extracted(k)' => Extracted(k)  BY <2>1, <2>2 DEF Extracted
  <2>4. CASE Release(c)
    <3>k. PICK j \in Nat : j = ticket[c]  BY <1>0 DEF TypeOK, Threads
    <3>1. Extracted(j)  BY <2>4, <3>k DEF Release, Extracted
    <3>2. Readable(j)  BY <3>1, Holders
    <3>3. Released(k)' <=> Released(k) \/ k = j
      BY <1>0, <2>4, <3>k, <3>2, TurnReleases DEF Release
    <3> QED  BY <2>3, <3>1, <3>3
  <2>5. CASE ~Release(c)
    BY <1>3, <2>3, <2>5
    DEF Released, PopStep, Pop, PopSpin, TryPop, TryPopLook, TryPopCas, TryPopFails,
        TryPopReload, Destroy, ClaimTail
  <2> QED  BY <2>4, <2>5
<1>4. ASSUME NEW c \in Consumers, Extract(c) PROVE Served'
  <2>k. PICK j \in Nat : j = ticket[c]  BY <1>0 DEF TypeOK, Threads
  <2>1. <<j, storage[idx(j)]>> \in received'  BY <1>4, <2>k DEF Extract
  <2>2. \E r \in received' : r[1] = j  BY <2>1
  <2>3. ASSUME NEW k \in Nat, k # j, Released(k)' \/ Extracted(k)' PROVE Released(k) \/ Extracted(k)
    <3>1. Released(k)' => Released(k)  BY <1>4 DEF Extract, Released
    <3>2. ticket' = ticket /\ \A d \in Consumers : d # c => pc'[d] = pc[d]
      BY <1>0, <1>4 DEF Extract, Goto, TypeOK, Threads
    <3>3. Extracted(k)' => Extracted(k)  BY <2>k, <2>3, <3>2 DEF Extracted
    <3> QED  BY <2>3, <3>1, <3>3
  <2> QED  BY <1>1, <2>2, <2>3 DEF Served
<1>5. CASE UNCHANGED vars
  BY <1>5 DEF vars, Served, Released, Extracted
<1>6. ASSUME NEW p \in Producers, PushStep(p) PROVE Served'
  BY <1>1, <1>2, <1>6 DEF Served
<1>7. ASSUME NEW c \in Consumers, PopStep(c), ~Extract(c) PROVE Served'
  BY <1>1, <1>3, <1>7 DEF Served
<1> QED  BY <1>4, <1>5, <1>6, <1>7 DEF Next, Finished

-----------------------------------------------------------------------------
(* Every step is a call entered, a call returned, or nothing at all.       *)

LEMMA PushImplements ==
  ASSUME ~CanThrow, SlotInv, Served, CallsLeft, NEW p \in Producers, PushStep(p)
  PROVE  Tickets!PushEnter(p) \/ Tickets!PushReturn(p) \/ UNCHANGED Tickets!vars
<1>1. CASE Push(p)
  BY <1>1, EnterPush DEF Push, Holding
<1>2. CASE TryPushCas(p) /\ head = ticket[p]
  BY <1>2, EnterPush DEF TryPushCas, Holding, Trying, CallsLeft
<1>3. CASE Publish(p)
  BY <1>3, ReturnPush
<1>4. ~ConstructThrows(p)
  BY DEF ConstructThrows
<1> QED  BY <1>1, <1>2, <1>3, <1>4, QuietPush DEF PushStep

LEMMA PopImplements ==
  ASSUME SlotInv, ValueInv, Served, CallsLeft, NEW c \in Consumers, PopStep(c)
  PROVE  Tickets!PopEnter(c) \/ Tickets!PopReturn(c) \/ UNCHANGED Tickets!vars
<1>1. CASE Pop(c)
  BY <1>1, EnterPop DEF Pop, Holding
<1>2. CASE TryPopCas(c) /\ tail = ticket[c]
  BY <1>2, EnterPop DEF TryPopCas, Holding, Trying, CallsLeft
<1>3. CASE Release(c)
  BY <1>3, ReturnPop
<1> QED  BY <1>1, <1>2, <1>3, QuietPop DEF PopStep

LEMMA StepImplements ==
  ASSUME ~CanThrow, SlotInv, ValueInv, Served, CallsLeft, [Next]_vars
  PROVE  [Tickets!Next]_(Tickets!vars)
<1>1. CASE UNCHANGED vars
  <2>1. UNCHANGED Tickets!vars
    BY <1>1 DEF vars, Tickets!vars, NumberOf, Holding, Published, Released
  <2> QED  BY <2>1
<1>2. ASSUME NEW p \in Producers, PushStep(p) PROVE [Tickets!Next]_(Tickets!vars)
  BY <1>2, PushImplements DEF Tickets!Next
<1>3. ASSUME NEW c \in Consumers, PopStep(c) PROVE [Tickets!Next]_(Tickets!vars)
  BY <1>3, PopImplements DEF Tickets!Next
<1> QED  BY <1>1, <1>2, <1>3 DEF Next, Finished

LEMMA InitImplements == Init => Tickets!Init /\ Served /\ CallsLeft
<1> SUFFICES ASSUME Init PROVE Tickets!Init /\ Served /\ CallsLeft
  OBVIOUS
<1>1. \A t \in Threads : ~Holding(t) /\ ~Trying(t)
  BY DEF Init, Holding, Trying
<1>2. \A k \in Nat : ~Published(k) /\ ~Released(k) /\ ~Extracted(k)
  <2> SUFFICES ASSUME NEW k \in Nat PROVE ~Published(k) /\ ~Released(k) /\ ~Extracted(k)
    OBVIOUS
  <2>1. turn[idx(k)] = 0 /\ round(k) \in Nat  BY SlotAndRound DEF Init
  <2>2. ~Published(k) /\ ~Released(k)  BY <2>1 DEF Published, Released
  <2>3. ~Extracted(k)  BY DEF Init, Extracted, Threads
  <2> QED  BY <2>2, <2>3
<1>3. Served /\ CallsLeft
  BY <1>1, <1>2 DEF Served, CallsLeft, Threads
<1>4. /\ NumberOf(Producers) = [p \in Producers |-> -1]
      /\ NumberOf(Consumers) = [c \in Consumers |-> -1]
  BY <1>1 DEF NumberOf, Threads
<1>5. {k \in 0..head - 1 : Published(k)} = {}
  <2>1. \A k \in 0..head - 1 : k \in Nat  BY DEF Init
  <2> QED  BY <1>2, <2>1
<1> QED
  BY <1>3, <1>4, <1>5 DEF Init, Tickets!Init, Tickets!NoTicket

(* Where constructors do not throw, every behaviour of atomic_queue shows, *)
(* step by step, a behaviour of the numbering of calls: pop number k       *)
(* returns the value of push number k, once that push has returned, and a  *)
(* push waits for the pop Capacity before it and for no other.             *)
THEOREM ImplementsSafely == ~CanThrow => (Spec => Tickets!Safe)
<1> SUFFICES ASSUME ~CanThrow PROVE Spec => Tickets!Safe
  OBVIOUS
<1>1. Safe => [](SlotInv /\ ValueInv)
  BY SlotInit, SlotStep, ValueInit, ValueStep, PTL DEF Safe
<1>2. SlotInv => TypeOK
  BY DEF SlotInv
<1>3. SlotInv /\ ValueInv /\ Served /\ CallsLeft /\ [Next]_vars => Served' /\ CallsLeft'
  BY <1>2, ServedStep, CallsLeftStep
<1>4. Init => Served /\ CallsLeft /\ Tickets!Init
  BY InitImplements
<1>5. SlotInv /\ ValueInv /\ Served /\ CallsLeft /\ [Next]_vars => [Tickets!Next]_(Tickets!vars)
  BY StepImplements
<1>6. Safe => Tickets!Safe
  BY <1>1, <1>3, <1>4, <1>5, PTL DEF Safe, Tickets!Safe
<1> QED  BY <1>6, PTL DEF Spec
=============================================================================
