---------------------------- MODULE CvQueueProofs ---------------------------
(***************************************************************************)
(* Theorems about CvQueue, for every set of producers and consumers, every *)
(* combination of the flags, every capacity and every bound.               *)
(***************************************************************************)
EXTENDS CvQueue, SequenceTheorems, TLAPS

-----------------------------------------------------------------------------
(* do_pop on a stack: the newest value and what is left.                   *)
LEMMA FrontLast ==
  ASSUME NEW S, NEW s \in Seq(S), s # <<>>
  PROVE  /\ Last(s) = s[Len(s)]
         /\ Last(s) \in S
         /\ Front(s) \in Seq(S)
         /\ Len(Front(s)) = Len(s) - 1
         /\ \A i \in 1..Len(s) - 1 : Front(s)[i] = s[i]
<1>1. Len(s) \in Nat \ {0}
  BY EmptySeq
<1>2. \A i \in 1..Len(s) - 1 : s[i] \in S
  BY <1>1, ElementOfSeq
<1>3. /\ SubSeq(s, 1, Len(s) - 1) \in Seq(S)
      /\ Len(SubSeq(s, 1, Len(s) - 1)) =
            IF 1 <= Len(s) - 1 THEN Len(s) - 1 - 1 + 1 ELSE 0
      /\ \A i \in 1..(Len(s) - 1) - 1 + 1 :
            SubSeq(s, 1, Len(s) - 1)[i] = s[1 + i - 1]
  BY <1>1, <1>2, SubSeqProperties, Len(s) - 1 \in Int, SMTT(30)
<1>4. Len(Front(s)) = Len(s) - 1
  <2>1. \A n \in Nat \ {0} : (IF 1 <= n - 1 THEN n - 1 - 1 + 1 ELSE 0) = n - 1
    OBVIOUS
  <2>2. (IF 1 <= Len(s) - 1 THEN Len(s) - 1 - 1 + 1 ELSE 0) = Len(s) - 1
    BY <1>1, <2>1
  <2>3. Len(SubSeq(s, 1, Len(s) - 1)) = Len(s) - 1
    BY <1>3, <2>2
  <2> QED
    BY <2>3 DEF Front
<1>5. \A i \in 1..Len(s) - 1 : Front(s)[i] = s[i]
  <2> SUFFICES ASSUME NEW i \in 1..Len(s) - 1 PROVE SubSeq(s, 1, Len(s) - 1)[i] = s[i]
    BY DEF Front
  <2>1. i \in 1..(Len(s) - 1) - 1 + 1 /\ 1 + i - 1 = i
    BY <1>1
  <2> QED
    BY <1>3, <2>1
<1>6. Last(s) \in S
  BY <1>1, ElementOfSeq DEF Last
<1> QED
  BY <1>3, <1>4, <1>5, <1>6 DEF Front, Last

(* Whoever is woken, every thread stays in one of the three places.        *)
LEMMA WakeType ==
  ASSUME NEW W, NEW f \in [Threads -> {"idle", "asleep", "awake"}]
  PROVE  Wake(W, f) \in [Threads -> {"idle", "asleep", "awake"}]
BY DEF Wake

-----------------------------------------------------------------------------
(* The conjuncts of TypeOK hold initially and each step keeps them.        *)
LEMMA TypeInit == Init => TypeOK
<1> SUFFICES ASSUME Init PROVE TypeOK
  OBVIOUS
<1>1. buf \in Seq(Values) /\ delivered \in Seq(Values)
  BY DEF Init
<1>2. call \in [Threads -> {"idle", "asleep", "awake"}] /\ attempts \in [Producers -> Nat]
  BY DEF Init
<1>3. capacity \in Nat /\ control \in 0..MaxControl
  BY ConstantTypes DEF ConstantTypes, Init
<1> QED
  BY <1>1, <1>2, <1>3 DEF Init, TypeOK

LEMMA TypeStep == TypeOK /\ [Next]_vars => TypeOK'
<1> SUFFICES ASSUME TypeOK, [Next]_vars PROVE TypeOK'
  OBVIOUS
<1> USE ConstantTypes DEF ConstantTypes, TypeOK
<1>1. ASSUME NEW p \in Producers, PushWait(p) PROVE TypeOK'
  <2>1. p \in Threads
    BY DEF Threads
  <2>2. CASE PushSleep(p)
    BY <2>1, <2>2 DEF PushSleep
  <2>3. CASE PushFail(p)
    BY <2>1, <2>3 DEF PushFail
  <2>4. CASE PushDone(p)
    <3>1. <<p, attempts[p] + 1>> \in Values
      BY DEF Values
    <3>2. call' \in [Threads -> {"idle", "asleep", "awake"}]
      <4>1. PICK W \in PushNotifies : call' = Wake(W, [call EXCEPT ![p] = "idle"])
        BY <2>4 DEF PushDone
      <4> QED
        BY <2>1, <4>1, WakeType
    <3>3. buf' \in Seq(Values)
      BY <2>4, <3>1 DEF PushDone
    <3>4. attempts' \in [Producers -> Nat]
      BY <2>4 DEF PushDone
    <3> QED
      BY <2>4, <3>2, <3>3, <3>4 DEF PushDone
  <2> QED
    BY <1>1, <2>2, <2>3, <2>4 DEF PushWait
<1>2. ASSUME NEW c \in Consumers, PopWait(c) PROVE TypeOK'
  <2>1. c \in Threads
    BY DEF Threads
  <2>2. CASE PopSleep(c)
    BY <2>1, <2>2 DEF PopSleep
  <2>3. CASE PopFail(c)
    BY <2>1, <2>3 DEF PopFail
  <2>4. CASE PopDone(c)
    <3>1. buf # <<>>
      BY <2>4 DEF PopDone, PopWaitCond
    <3>2. call' \in [Threads -> {"idle", "asleep", "awake"}]
      <4>1. PICK W \in PopNotifies : call' = Wake(W, [call EXCEPT ![c] = "idle"])
        BY <2>4 DEF PopDone
      <4> QED
        BY <2>1, <4>1, WakeType
    <3>3. buf' \in Seq(Values) /\ delivered' \in Seq(Values)
      <4>1. /\ Len(buf) \in Nat \ {0}
            /\ Head(buf) \in Values
            /\ Tail(buf) \in Seq(Values)
        BY <3>1, HeadTailProperties, EmptySeq
      <4>2. Last(buf) \in Values /\ Front(buf) \in Seq(Values)
        BY <4>1, FrontLast
      <4>3. \A v \in Values : Append(delivered, v) \in Seq(Values)
        OBVIOUS
      <4>4. CASE QueueBased
        BY <2>4, <4>1, <4>3, <4>4 DEF PopDone
      <4>5. CASE ~QueueBased
        BY <2>4, <4>2, <4>3, <4>5 DEF PopDone
      <4> QED
        BY <4>4, <4>5
    <3> QED
      BY <2>4, <3>2, <3>3 DEF PopDone
  <2> QED
    BY <1>2, <2>2, <2>3, <2>4 DEF PopWait
<1>3. ASSUME NEW t \in Threads, SpuriousWakeup(t) PROVE TypeOK'
  BY <1>3 DEF SpuriousWakeup
<1>4. CASE Close
  <2>1. call' \in [Threads -> {"idle", "asleep", "awake"}]
    BY <1>4, WakeType DEF Close
  <2>2. control' \in 0..MaxControl
    BY <1>4 DEF Close, Controlled
  <2> QED
    BY <1>4, <2>1, <2>2 DEF Close, Controlled
<1>5. CASE Open
  <2>1. call' \in [Threads -> {"idle", "asleep", "awake"}]
    BY <1>5, WakeType DEF Open
  <2> QED
    <3>1. closed' \in BOOLEAN
      BY <1>5 DEF Open
    <3>2. control' \in 0..MaxControl
      BY <1>5 DEF Open, Controlled
    <3> QED
      BY <1>5, <2>1, <3>1, <3>2 DEF Open, Controlled
<1>6. CASE Clear
  <2>1. call' \in [Threads -> {"idle", "asleep", "awake"}]
    BY <1>6, WakeType DEF Clear
  <2>2. control' \in 0..MaxControl
    BY <1>6 DEF Clear, Controlled
  <2> QED
    BY <1>6, <2>1, <2>2 DEF Clear, Controlled
<1>7. CASE RequestStop
  <2>1. call' \in [Threads -> {"idle", "asleep", "awake"}]
    BY <1>7, WakeType DEF RequestStop
  <2>2. control' \in 0..MaxControl
    BY <1>7 DEF RequestStop, Controlled
  <2> QED
    BY <1>7, <2>1, <2>2 DEF RequestStop, Controlled
<1>8. ASSUME NEW n \in Capacities, SetCapacity(n) PROVE TypeOK'
  <2>1. capacity' \in Nat
    BY <1>8 DEF SetCapacity
  <2>2. control' \in 0..MaxControl
    BY <1>8 DEF SetCapacity, Controlled
  <2> QED
    BY <1>8, <2>1, <2>2 DEF SetCapacity, Controlled
<1>9. CASE UNCHANGED vars
  BY <1>9 DEF vars
<1> QED
  BY <1>1, <1>2, <1>3, <1>4, <1>5, <1>6, <1>7, <1>8, <1>9 DEF Next

(* Every variable keeps its type: in particular the buffer only ever holds *)
(* pushed values and set_capacity never stores a negative capacity.        *)
THEOREM TypeCorrect == Spec => []TypeOK
<1>1. Safe => []TypeOK
  BY TypeInit, TypeStep, PTL DEF Safe
<1> QED
  BY <1>1, PTL DEF Spec

-----------------------------------------------------------------------------
(* Who is woken.                                                           *)

LEMMA WakeValue ==
  ASSUME NEW W, NEW f, NEW t \in Threads
  PROVE  Wake(W, f)[t] = IF t \in W THEN "awake" ELSE f[t]
BY DEF Wake

(* A thread asleep after a step was asleep before it and was not woken.    *)
LEMMA StillAsleep ==
  ASSUME TypeOK, NEW W, NEW t \in Threads, NEW u \in Threads,
         Wake(W, [call EXCEPT ![u] = "idle"])[t] = "asleep"
  PROVE  t \notin W /\ call[t] = "asleep"
<1> DEFINE f == [call EXCEPT ![u] = "idle"]
<1>1. t \notin W /\ f[t] = "asleep"
  <2>1. Wake(W, f)[t] = IF t \in W THEN "awake" ELSE f[t]
    BY DEF Wake
  <2> QED
    BY <2>1
<1>2. f[t] = IF t = u THEN "idle" ELSE call[t]
  BY DEF TypeOK
<1> QED
  BY <1>1, <1>2

(* notify_one is enough where only one thread can be asleep.               *)
LEMMA NotifyOneOfOne ==
  ASSUME NEW T, \A a, b \in T : a = b, NEW W \in NotifyOne(T)
  PROVE  Asleep(T) \subseteq W
BY DEF NotifyOne, Asleep

(* A push wakes every sleeping consumer: on the edge-triggered SPSC path a *)
(* consumer can only be asleep if the buffer was empty.                    *)
LEMMA PushWakesConsumers ==
  ASSUME NoStrandedConsumer, NEW W \in PushNotifies
  PROVE  Asleep(Consumers) \subseteq W
<1>1. CASE MultiConsumer
  BY <1>1 DEF PushNotifies, NotifyAll
<1>2. CASE ~MultiConsumer
  <2>1. \A c, d \in Consumers : c = d
    BY <1>2, SingleMeansOne DEF SingleMeansOne
  <2>2. CASE W \in NotifyOne(Consumers)
    BY <2>1, <2>2, NotifyOneOfOne
  <2>3. CASE W \notin NotifyOne(Consumers)
    <3>1. buf # <<>>
      BY <1>2, <2>3 DEF PushNotifies
    <3>2. Asleep(Consumers) = {}
      BY <3>1 DEF Asleep, NoStrandedConsumer, PopWaitCond
    <3> QED
      BY <3>2
  <2> QED
    BY <2>2, <2>3
<1> QED
  BY <1>1, <1>2

(* The mirror image for a pop: on the SPSC path a producer can only be     *)
(* asleep if the buffer was full.                                          *)
LEMMA PopWakesProducers ==
  ASSUME TypeOK, NoStrandedProducer, NEW W \in PopNotifies
  PROVE  Asleep(Producers) \subseteq W
<1>1. CASE MultiProducer
  BY <1>1 DEF PopNotifies, NotifyAll
<1>2. CASE ~MultiProducer
  <2>1. \A p, q \in Producers : p = q
    BY <1>2, SingleMeansOne DEF SingleMeansOne
  <2>2. CASE W \in NotifyOne(Producers)
    BY <2>1, <2>2, NotifyOneOfOne
  <2>3. CASE W \notin NotifyOne(Producers)
    <3>1. ~(Len(buf) >= capacity)
      BY <1>2, <2>3 DEF PopNotifies
    <3>2. Len(buf) < capacity
      BY <3>1 DEF TypeOK
    <3>3. Asleep(Producers) = {}
      BY <3>2 DEF Asleep, NoStrandedProducer, PushWaitCond
    <3> QED
      BY <3>3
  <2> QED
    BY <2>2, <2>3
<1> QED
  BY <1>1, <1>2

-----------------------------------------------------------------------------
LEMMA ConsumerStep ==
  TypeOK /\ NoStrandedConsumer /\ [Next]_vars => NoStrandedConsumer'
<1> SUFFICES ASSUME TypeOK, NoStrandedConsumer, [Next]_vars,
                    NEW c \in Consumers, call'[c] = "asleep"
             PROVE  ~PopWaitCond' /\ ~Interrupted'
  BY DEF NoStrandedConsumer
<1>0. c \in Threads /\ c \notin Producers
  BY RolesDisjoint DEF RolesDisjoint, Threads
<1>a. DOMAIN call = Threads
  BY DEF TypeOK
<1>b. call[c] = "asleep" => ~PopWaitCond /\ ~Interrupted
  BY DEF NoStrandedConsumer
<1>1. ASSUME NEW p \in Producers, PushWait(p) PROVE ~PopWaitCond' /\ ~Interrupted'
  <2>1. p # c /\ p \in Threads
    BY <1>0 DEF Threads
  <2>2. CASE PushSleep(p)
    BY <1>a, <1>b, <2>1, <2>2 DEF PushSleep, PopWaitCond, Interrupted
  <2>3. CASE PushFail(p)
    BY <1>a, <1>b, <2>1, <2>3 DEF PushFail, PopWaitCond, Interrupted
  <2>4. CASE PushDone(p)
    <3>1. PICK W \in PushNotifies : call' = Wake(W, [call EXCEPT ![p] = "idle"])
      BY <2>4 DEF PushDone
    <3>2. c \notin W /\ call[c] = "asleep"
      BY <1>0, <2>1, <3>1, StillAsleep
    <3> QED
      BY <3>1, <3>2, PushWakesConsumers DEF Asleep
  <2> QED
    BY <1>1, <2>2, <2>3, <2>4 DEF PushWait
<1>2. ASSUME NEW d \in Consumers, PopWait(d) PROVE ~PopWaitCond' /\ ~Interrupted'
  <2>1. d \in Threads
    BY DEF Threads
  <2>2. CASE PopSleep(d)
    BY <1>a, <1>b, <2>1, <2>2 DEF PopSleep, PopWaitCond, Interrupted
  <2>3. CASE PopFail(d)
    BY <1>a, <1>b, <2>1, <2>3 DEF PopFail, PopWaitCond, Interrupted
  <2>4. CASE PopDone(d)
    <3>1. PICK W \in PopNotifies : call' = Wake(W, [call EXCEPT ![d] = "idle"])
      BY <2>4 DEF PopDone
    <3>2. call[c] = "asleep"
      BY <1>0, <2>1, <3>1, StillAsleep
    <3> QED
      BY <1>b, <2>4, <3>2 DEF PopDone
  <2> QED
    BY <1>2, <2>2, <2>3, <2>4 DEF PopWait
<1>3. ASSUME NEW t \in Threads, SpuriousWakeup(t) PROVE ~PopWaitCond' /\ ~Interrupted'
  BY <1>a, <1>b, <1>3 DEF SpuriousWakeup, PopWaitCond, Interrupted
<1>4. ASSUME call' = Wake(Asleep(Threads), call) PROVE FALSE
  BY <1>0, <1>4, WakeValue DEF Asleep
<1>5. CASE Close
  BY <1>4, <1>5 DEF Close
<1>6. CASE Open
  BY <1>4, <1>6 DEF Open
<1>7. CASE Clear
  <2>1. call[c] = "asleep"
    BY <1>0, <1>7, WakeValue DEF Clear
  <2> QED
    BY <1>b, <1>7, <2>1 DEF Clear, PopWaitCond, Interrupted
<1>8. CASE RequestStop
  BY <1>4, <1>8 DEF RequestStop
<1>9. ASSUME NEW n \in Capacities, SetCapacity(n) PROVE ~PopWaitCond' /\ ~Interrupted'
  BY <1>b, <1>9 DEF SetCapacity, PopWaitCond, Interrupted
<1>10. CASE UNCHANGED vars
  BY <1>b, <1>10 DEF vars, PopWaitCond, Interrupted
<1> QED
  BY <1>1, <1>2, <1>3, <1>5, <1>6, <1>7, <1>8, <1>9, <1>10 DEF Next

(* No consumer is ever left asleep, un-notified, over a value, a closed    *)
(* queue or a requested stop: for every form of the queue.                 *)
THEOREM ConsumersNeverStranded == Spec => []NoStrandedConsumer
<1>1. Init => NoStrandedConsumer
  BY DEF Init, NoStrandedConsumer, Threads
<1>2. Safe => []NoStrandedConsumer
  BY <1>1, TypeInit, TypeStep, ConsumerStep, PTL DEF Safe
<1> QED
  BY <1>2, PTL DEF Spec

LEMMA ProducerStep ==
  ~CanGrow => (TypeOK /\ NoStrandedProducer /\ [Next]_vars => NoStrandedProducer')
<1> SUFFICES ASSUME ~CanGrow, TypeOK, NoStrandedProducer, [Next]_vars,
                    NEW p \in Producers, call'[p] = "asleep"
             PROVE  ~PushWaitCond' /\ ~Interrupted'
  BY DEF NoStrandedProducer
<1>0. p \in Threads /\ p \notin Consumers
  BY RolesDisjoint DEF RolesDisjoint, Threads
<1>a. DOMAIN call = Threads
  BY DEF TypeOK
<1>b. call[p] = "asleep" => ~PushWaitCond /\ ~Interrupted
  BY DEF NoStrandedProducer
<1>1. ASSUME NEW q \in Producers, PushWait(q) PROVE ~PushWaitCond' /\ ~Interrupted'
  <2>1. q \in Threads
    BY DEF Threads
  <2>2. CASE PushSleep(q)
    BY <1>a, <1>b, <2>1, <2>2 DEF PushSleep, PushWaitCond, Interrupted
  <2>3. CASE PushFail(q)
    BY <1>a, <1>b, <2>1, <2>3 DEF PushFail, PushWaitCond, Interrupted
  <2>4. CASE PushDone(q)
    <3>1. PICK W \in PushNotifies : call' = Wake(W, [call EXCEPT ![q] = "idle"])
      BY <2>4 DEF PushDone
    <3>2. call[p] = "asleep"
      BY <1>0, <2>1, <3>1, StillAsleep
    <3> QED
      BY <1>b, <2>4, <3>2 DEF PushDone
  <2> QED
    BY <1>1, <2>2, <2>3, <2>4 DEF PushWait
<1>2. ASSUME NEW c \in Consumers, PopWait(c) PROVE ~PushWaitCond' /\ ~Interrupted'
  <2>1. c # p /\ c \in Threads
    BY <1>0 DEF Threads
  <2>2. CASE PopSleep(c)
    BY <1>a, <1>b, <2>1, <2>2 DEF PopSleep, PushWaitCond, Interrupted
  <2>3. CASE PopFail(c)
    BY <1>a, <1>b, <2>1, <2>3 DEF PopFail, PushWaitCond, Interrupted
  <2>4. CASE PopDone(c)
    <3>1. PICK W \in PopNotifies : call' = Wake(W, [call EXCEPT ![c] = "idle"])
      BY <2>4 DEF PopDone
    <3>2. p \notin W /\ call[p] = "asleep"
      BY <1>0, <2>1, <3>1, StillAsleep
    <3> QED
      BY <3>1, <3>2, PopWakesProducers DEF Asleep
  <2> QED
    BY <1>2, <2>2, <2>3, <2>4 DEF PopWait
<1>3. ASSUME NEW t \in Threads, SpuriousWakeup(t) PROVE ~PushWaitCond' /\ ~Interrupted'
  BY <1>a, <1>b, <1>3 DEF SpuriousWakeup, PushWaitCond, Interrupted
<1>4. ASSUME call' = Wake(Asleep(Threads), call) PROVE FALSE
  BY <1>0, <1>4, WakeValue DEF Asleep
<1>5. CASE Close
  BY <1>4, <1>5 DEF Close
<1>6. CASE Open
  BY <1>4, <1>6 DEF Open
<1>7. CASE Clear
  <2>1. call[p] = "asleep" /\ p \notin Asleep(Producers)
    BY <1>0, <1>7, WakeValue DEF Clear
  <2> QED
    BY <2>1 DEF Asleep
<1>8. CASE RequestStop
  BY <1>4, <1>8 DEF RequestStop
<1>9. ASSUME NEW n \in Capacities, SetCapacity(n) PROVE ~PushWaitCond' /\ ~Interrupted'
  <2>1. n <= capacity
    BY <1>9, ConstantTypes DEF SetCapacity, ConstantTypes, TypeOK
  <2>2. Len(buf) \in Nat
    BY DEF TypeOK
  <2> QED
    BY <1>b, <1>9, <2>1, <2>2, ConstantTypes
    DEF SetCapacity, ConstantTypes, TypeOK, PushWaitCond, Interrupted
<1>10. CASE UNCHANGED vars
  BY <1>b, <1>10 DEF vars, PushWaitCond, Interrupted
<1> QED
  BY <1>1, <1>2, <1>3, <1>5, <1>6, <1>7, <1>8, <1>9, <1>10 DEF Next

(* As long as set_capacity never raises the capacity, no producer is left  *)
(* asleep, un-notified, while there is room: pop and clear notify enough.  *)
THEOREM ProducersNeverStranded == ~CanGrow => (Spec => []NoStrandedProducer)
<1> SUFFICES ASSUME ~CanGrow PROVE Spec => []NoStrandedProducer
  OBVIOUS
<1>1. Init => NoStrandedProducer
  BY DEF Init, NoStrandedProducer, Threads
<1>2. TypeOK /\ NoStrandedProducer /\ [Next]_vars => NoStrandedProducer'
  BY ProducerStep
<1>3. Safe => []NoStrandedProducer
  BY <1>1, <1>2, TypeInit, TypeStep, PTL DEF Safe
<1> QED
  BY <1>3, PTL DEF Spec

-----------------------------------------------------------------------------
(* Standstill.  Where every pop notifies, a producer asleep means a value  *)
(* in the buffer: it went to sleep over a full one, and both pop and clear *)
(* wake it.  That set_capacity is silent does not matter then.             *)

(* The queue can always hold a value: no capacity of 0 is ever asked for.  *)
RoomForOne == Capacity0 > 0 /\ 0 \notin Capacities

SleepInv ==
    /\ capacity > 0
    /\ \A p \in Producers : call[p] = "asleep" => buf # <<>>

(* A pop wakes whatever producer is asleep: all of them, or the only one.  *)
LEMMA SleepPop ==
  ASSUME MultiProducer \/ MultiConsumer, TypeOK, NEW c \in Consumers, PopDone(c),
         NEW p \in Producers
  PROVE  call'[p] # "asleep"
<1>1. PICK W \in PopNotifies : call' = Wake(W, [call EXCEPT ![c] = "idle"])
  BY DEF PopDone
<1>2. p \in Threads /\ c \in Threads  BY DEF Threads
<1>3. SUFFICES ASSUME call'[p] = "asleep" PROVE FALSE  OBVIOUS
<1>4. p \notin W /\ call[p] = "asleep"  BY <1>1, <1>2, <1>3, StillAsleep
<1>5. p \in Asleep(Producers)  BY <1>4 DEF Asleep
<1>6. CASE MultiProducer  BY <1>1, <1>4, <1>5, <1>6 DEF PopNotifies, NotifyAll
<1>7. CASE ~MultiProducer
  <2>1. \A q, r \in Producers : q = r  BY <1>7, SingleMeansOne DEF SingleMeansOne
  <2>2. W \in NotifyOne(Producers)  BY <1>1, <1>7 DEF PopNotifies
  <2> QED  BY <1>4, <1>5, <2>1, <2>2, NotifyOneOfOne
<1> QED  BY <1>6, <1>7

(* A push leaves a value behind, or sleeps over a full buffer.             *)
LEMMA SleepPush ==
  ASSUME TypeOK, SleepInv, NEW q \in Producers, PushWait(q)
  PROVE  SleepInv'
<1>0. q \in Threads /\ DOMAIN call = Threads /\ Producers \subseteq Threads
  BY DEF Threads, TypeOK
<1>1. CASE PushSleep(q)
  <2>1. buf # <<>> /\ buf' = buf /\ capacity' = capacity
    BY <1>1 DEF PushSleep, PushWaitCond, SleepInv
  <2> QED  BY <2>1 DEF SleepInv
<1>2. CASE PushFail(q)
  BY <1>0, <1>2 DEF PushFail, SleepInv
<1>3. CASE PushDone(q)
  <2>1. buf' # <<>> /\ capacity' = capacity
    BY <1>3, AppendProperties, EmptySeq DEF PushDone, TypeOK
  <2> QED  BY <2>1 DEF SleepInv
<1> QED  BY <1>1, <1>2, <1>3 DEF PushWait

(* SleepInv is inductive.                                                  *)
LEMMA SleepStep ==
  (MultiProducer \/ MultiConsumer) /\ RoomForOne
    => (TypeOK /\ SleepInv /\ [Next]_vars => SleepInv')
<1> SUFFICES ASSUME MultiProducer \/ MultiConsumer, RoomForOne, TypeOK, SleepInv, [Next]_vars
             PROVE  SleepInv'
  OBVIOUS
<1>a. DOMAIN call = Threads /\ Producers \subseteq Threads /\ Consumers \subseteq Threads
  BY DEF Threads, TypeOK
<1>1. ASSUME NEW p \in Producers, PushWait(p) PROVE SleepInv'
  BY <1>1, SleepPush
<1>2. ASSUME NEW c \in Consumers, PopDone(c) PROVE SleepInv'
  <2>1. capacity' = capacity  BY <1>2 DEF PopDone
  <2> QED  BY <1>2, <2>1, SleepPop DEF SleepInv
<1>3. ASSUME NEW c \in Consumers, PopSleep(c) \/ PopFail(c) PROVE SleepInv'
  <2>1. \A p \in Producers : p # c  BY RolesDisjoint DEF RolesDisjoint
  <2> QED  BY <1>a, <1>3, <2>1 DEF PopSleep, PopFail, SleepInv
<1>4. ASSUME NEW t \in Threads, SpuriousWakeup(t) PROVE SleepInv'
  BY <1>a, <1>4 DEF SpuriousWakeup, SleepInv
<1>5. CASE Close \/ Open \/ RequestStop
  BY <1>5 DEF Close, Open, RequestStop, Wake, Asleep, SleepInv, Threads
<1>6. CASE Clear
  BY <1>6 DEF Clear, Wake, Asleep, SleepInv, Threads
<1>7. ASSUME NEW n \in Capacities, SetCapacity(n) PROVE SleepInv'
  <2>1. n # 0 /\ n \in Int /\ n >= 0
    BY <1>7, ConstantTypes DEF RoomForOne, SetCapacity, ConstantTypes
  <2> QED  BY <1>7, <2>1 DEF SetCapacity, SleepInv
<1>8. CASE UNCHANGED vars
  BY <1>8 DEF vars, SleepInv
<1> QED
  BY <1>1, <1>2, <1>3, <1>4, <1>5, <1>6, <1>7, <1>8 DEF Next, PopWait

(* Unless both sides are declared single, no queue that can hold a value   *)
(* ever has all its threads asleep at once, however its capacity changes.  *)
THEOREM NeverAllAsleep ==
  ASSUME MultiProducer \/ MultiConsumer, RoomForOne,
         Producers # {}, Consumers # {}
  PROVE  Spec => []NotAllAsleep
<1>1. Init => SleepInv /\ NoStrandedConsumer
  BY DEF Init, SleepInv, NoStrandedConsumer, RoomForOne, Threads
<1>2. TypeOK /\ SleepInv /\ [Next]_vars => SleepInv'
  BY SleepStep
<1>3. SleepInv /\ NoStrandedConsumer => NotAllAsleep
  <2> SUFFICES ASSUME SleepInv, NoStrandedConsumer, \A t \in Threads : call[t] = "asleep"
               PROVE  FALSE
    BY DEF NotAllAsleep
  <2>1. PICK p \in Producers, c \in Consumers : TRUE  OBVIOUS
  <2>2. call[p] = "asleep" /\ call[c] = "asleep"  BY DEF Threads
  <2>3. buf # <<>>  BY <2>2 DEF SleepInv
  <2>4. buf = <<>>  BY <2>2 DEF NoStrandedConsumer, PopWaitCond
  <2> QED  BY <2>3, <2>4
<1>4. Safe => []NotAllAsleep
  BY <1>1, <1>2, <1>3, TypeInit, TypeStep, ConsumerStep, PTL DEF Safe
<1> QED
  BY <1>4, PTL DEF Spec

-----------------------------------------------------------------------------
(* The refinement: which calls are pending before and after a step.        *)

LEMMA NotifiedAsleep ==
  /\ \A W \in PushNotifies : W \subseteq Asleep(Consumers)
  /\ \A W \in PopNotifies : W \subseteq Asleep(Producers)
BY DEF PushNotifies, PopNotifies, NotifyOne, NotifyAll

(* Waking sleepers ends no call and starts none.                           *)
LEMMA WakeKeepsPending ==
  ASSUME NEW W, W \subseteq Asleep(Threads), call' = Wake(W, call)
  PROVE  Pending' = Pending
BY DEF Pending, Wake, Asleep

(* A thread that returns while others are woken leaves the pending calls.  *)
LEMMA ReturnLeavesPending ==
  ASSUME TypeOK, NEW u \in Threads, NEW T \in SUBSET Threads, u \notin T,
         NEW W, W \subseteq Asleep(T),
         call' = Wake(W, [call EXCEPT ![u] = "idle"])
  PROVE  Pending' = Pending \ {u}
<1> SUFFICES ASSUME NEW t \in Threads
             PROVE  (call'[t] # "idle") <=> (call[t] # "idle" /\ t # u)
  BY DEF Pending
<1>1. t \in W => call[t] = "asleep" /\ t # u
  BY DEF Asleep
<1>2. call'[t] = IF t \in W THEN "awake" ELSE [call EXCEPT ![u] = "idle"][t]
  BY DEF Wake
<1>3. [call EXCEPT ![u] = "idle"][t] = IF t = u THEN "idle" ELSE call[t]
  BY DEF TypeOK
<1> QED
  BY <1>1, <1>2, <1>3

LEMMA RefinePush ==
  ASSUME TypeOK, NEW p \in Producers, PushWait(p)
  PROVE  [Await!Next]_(Await!vars)
<1>1. p \in Threads /\ p \notin Consumers
  BY RolesDisjoint DEF RolesDisjoint, Threads
<1>2. PushRunning(p) => Await!MayPush(p)
  BY <1>1 DEF PushRunning, Await!MayPush, Pending
<1>3. CASE PushSleep(p)
  <2>1. Pending' = Pending \union {p}
    BY <1>1, <1>3 DEF PushSleep, Pending, TypeOK
  <2>2. CASE call[p] = "idle"
    <3>1. Await!PushBlock(p)
      BY <1>3, <2>1, <2>2
      DEF PushSleep, PushRunning, PushWaitCond, Interrupted,
          Await!PushBlock, Await!Room, Await!Interrupted
    <3> QED
      BY <3>1 DEF Await!Next
  <2>3. CASE call[p] # "idle"
    <3>1. Pending' = Pending
      BY <1>1, <2>1, <2>3 DEF Pending
    <3> QED
      BY <1>3, <3>1 DEF PushSleep, Await!vars
  <2> QED
    BY <2>2, <2>3
<1>4. CASE PushFail(p)
  <2>1. Pending' = Pending \ {p}
    BY <1>1, <1>4 DEF PushFail, Pending, TypeOK
  <2>2. Await!PushFail(p)
    BY <1>2, <1>4, <2>1
    DEF PushFail, Interrupted, Await!PushFail, Await!PushReturn, Await!Interrupted
  <2> QED
    BY <2>2 DEF Await!Next, Await!PushReturns
<1>5. CASE PushDone(p)
  <2>1. PICK W \in PushNotifies : call' = Wake(W, [call EXCEPT ![p] = "idle"])
    BY <1>5 DEF PushDone
  <2>2. Pending' = Pending \ {p}
    BY <1>1, <2>1, NotifiedAsleep, ReturnLeavesPending DEF Threads
  <2>3. Await!Push(p)
    BY <1>2, <1>5, <2>2
    DEF PushDone, PushWaitCond, Interrupted,
        Await!Push, Await!PushReturn, Await!Room, Await!Interrupted
  <2> QED
    BY <2>3 DEF Await!Next, Await!PushReturns
<1> QED
  BY <1>3, <1>4, <1>5 DEF PushWait

LEMMA RefinePop ==
  ASSUME TypeOK, NEW c \in Consumers, PopWait(c)
  PROVE  [Await!Next]_(Await!vars)
<1>1. c \in Threads /\ c \notin Producers
  BY RolesDisjoint DEF RolesDisjoint, Threads
<1>2. CASE PopSleep(c)
  <2>1. Pending' = Pending \union {c}
    BY <1>1, <1>2 DEF PopSleep, Pending, TypeOK
  <2>2. Await!PopBlock(c)
    BY <1>2, <2>1
    DEF PopSleep, PopWaitCond, Interrupted, Await!PopBlock, Await!Interrupted
  <2> QED
    BY <2>2 DEF Await!Next
<1>3. CASE PopFail(c)
  <2>1. Pending' = Pending \ {c}
    BY <1>1, <1>3 DEF PopFail, Pending, TypeOK
  <2>2. Await!PopFail(c)
    BY <1>3, <2>1 DEF PopFail, Interrupted, Await!PopFail, Await!Interrupted
  <2> QED
    BY <2>2 DEF Await!Next, Await!PopReturns
<1>4. CASE PopDone(c)
  <2>1. PICK W \in PopNotifies : call' = Wake(W, [call EXCEPT ![c] = "idle"])
    BY <1>4 DEF PopDone
  <2>2. Pending' = Pending \ {c}
    BY <1>1, <2>1, NotifiedAsleep, ReturnLeavesPending DEF Threads
  <2>3. Await!Pop(c)
    BY <1>4, <2>2
    DEF PopDone, PopWaitCond, Interrupted, Last, Front,
        Await!Pop, Await!Interrupted, Await!Last, Await!Front
  <2> QED
    BY <2>3 DEF Await!Next, Await!PopReturns
<1> QED
  BY <1>2, <1>3, <1>4 DEF PopWait

LEMMA RefineStep == TypeOK /\ [Next]_vars => [Await!Next]_(Await!vars)
<1> SUFFICES ASSUME TypeOK, [Next]_vars PROVE [Await!Next]_(Await!vars)
  OBVIOUS
<1>1. ASSUME NEW p \in Producers, PushWait(p) PROVE [Await!Next]_(Await!vars)
  BY <1>1, RefinePush
<1>2. ASSUME NEW c \in Consumers, PopWait(c) PROVE [Await!Next]_(Await!vars)
  BY <1>2, RefinePop
<1>3. ASSUME NEW t \in Threads, SpuriousWakeup(t) PROVE [Await!Next]_(Await!vars)
  <2>1. Pending' = Pending
    BY <1>3 DEF SpuriousWakeup, Pending, TypeOK
  <2> QED
    BY <1>3, <2>1 DEF SpuriousWakeup, Await!vars
<1>a. Asleep(Threads) \subseteq Threads /\ Asleep(Producers) \subseteq Asleep(Threads)
  BY DEF Asleep, Threads
<1>4. CASE Close
  <2>1. Pending' = Pending
    BY <1>4, WakeKeepsPending DEF Close
  <2>2. Await!Close
    BY <1>4, <2>1 DEF Close, Controlled, Await!Close, Await!Controlled
  <2> QED
    BY <2>2 DEF Await!Next
<1>5. CASE Open
  <2>1. Pending' = Pending
    BY <1>5, WakeKeepsPending DEF Open
  <2>2. Await!Open
    BY <1>5, <2>1 DEF Open, Controlled, Await!Open, Await!Controlled
  <2> QED
    BY <2>2 DEF Await!Next
<1>6. CASE Clear
  <2>1. Pending' = Pending
    BY <1>6, <1>a, WakeKeepsPending DEF Clear
  <2>2. Await!Clear
    BY <1>6, <2>1 DEF Clear, Controlled, Await!Clear, Await!Controlled
  <2> QED
    BY <2>2 DEF Await!Next
<1>7. CASE RequestStop
  <2>1. Pending' = Pending
    BY <1>7, WakeKeepsPending DEF RequestStop
  <2>2. Await!RequestStop
    BY <1>7, <2>1 DEF RequestStop, Controlled, Await!RequestStop, Await!Controlled
  <2> QED
    BY <2>2 DEF Await!Next
<1>8. ASSUME NEW n \in Capacities, SetCapacity(n) PROVE [Await!Next]_(Await!vars)
  <2>1. Pending' = Pending
    BY <1>8 DEF SetCapacity, Pending
  <2>2. Await!SetCapacity(n)
    BY <1>8, <2>1 DEF SetCapacity, Controlled, Await!SetCapacity, Await!Controlled
  <2> QED
    BY <2>2 DEF Await!Next
<1>9. CASE UNCHANGED vars
  BY <1>9 DEF vars, Await!vars, Pending
<1> QED
  BY <1>1, <1>2, <1>3, <1>4, <1>5, <1>6, <1>7, <1>8, <1>9 DEF Next

(* Every step of the queue with its mutex and condition variables is a     *)
(* step of AwaitQueue or invisible there: what is pushed, popped, refused  *)
(* or discarded never depends on who happened to be notified.              *)
THEOREM ImplementsSafely == Spec => Await!Safe
<1>1. Init => Await!Init
  BY DEF Init, Await!Init, Pending
<1>2. Safe => Await!Safe
  BY <1>1, TypeInit, TypeStep, RefineStep, PTL DEF Safe, Await!Safe
<1> QED
  BY <1>2, PTL DEF Spec

-----------------------------------------------------------------------------
(* Order.  What is still in the buffer has to be ordered too, behind what  *)
(* was delivered and before what its producer will push next.              *)

OrderInv ==
    /\ InOrder(delivered)
    /\ InOrder(buf)
    /\ \A i \in DOMAIN delivered, j \in DOMAIN buf :
         delivered[i][1] = buf[j][1] => delivered[i][2] < buf[j][2]
    /\ \A i \in DOMAIN delivered : delivered[i][2] <= attempts[delivered[i][1]]
    /\ \A j \in DOMAIN buf : buf[j][2] <= attempts[buf[j][1]]

LEMMA ValueParts ==
  ASSUME TypeOK
  PROVE  /\ \A i \in DOMAIN delivered :
              delivered[i][1] \in Producers /\ delivered[i][2] \in Nat
         /\ \A j \in DOMAIN buf : buf[j][1] \in Producers /\ buf[j][2] \in Nat
<1>1. \A s \in Seq(Values) : \A i \in DOMAIN s : s[i] \in Values
  BY ElementOfSeq, LenProperties
<1>2. \A v \in Values : v[1] \in Producers /\ v[2] \in Nat
  BY DEF Values
<1> QED
  BY <1>1, <1>2 DEF TypeOK

(* Steps that leave the buffer and the history alone, or only empty the    *)
(* buffer, keep the order.                                                 *)
LEMMA OrderQuiet ==
  ASSUME TypeOK, OrderInv, delivered' = delivered, buf' \in {buf, <<>>},
         attempts' \in [Producers -> Nat],
         \A p \in Producers : attempts'[p] >= attempts[p]
  PROVE  OrderInv'
<1>1. DOMAIN buf' \subseteq DOMAIN buf /\ \A j \in DOMAIN buf' : buf'[j] = buf[j]
  <2>1. DOMAIN <<>> = {}
    OBVIOUS
  <2> QED
    BY <2>1
<1>2. \A p \in Producers : attempts[p] \in Nat /\ attempts'[p] \in Nat
  BY DEF TypeOK
<1>3. InOrder(delivered)' /\ InOrder(buf)'
  BY <1>1 DEF OrderInv, InOrder
<1>4. \A i \in DOMAIN delivered' : delivered'[i][2] <= attempts'[delivered'[i][1]]
  BY <1>2, ValueParts DEF OrderInv
<1>5. \A j \in DOMAIN buf' : buf'[j][2] <= attempts'[buf'[j][1]]
  BY <1>1, <1>2, ValueParts DEF OrderInv
<1>6. \A i \in DOMAIN delivered', j \in DOMAIN buf' :
        delivered'[i][1] = buf'[j][1] => delivered'[i][2] < buf'[j][2]
  BY <1>1 DEF OrderInv
<1> QED
  BY <1>3, <1>4, <1>5, <1>6 DEF OrderInv

LEMMA OrderPush ==
  ASSUME TypeOK, OrderInv, NEW p \in Producers, PushDone(p)
  PROVE  OrderInv'
<1> DEFINE v == <<p, attempts[p] + 1>>
<1>1. /\ buf' = Append(buf, v)
      /\ delivered' = delivered
      /\ attempts' = [attempts EXCEPT ![p] = @ + 1]
  BY DEF PushDone
<1>2. \A q \in Producers : /\ attempts[q] \in Nat
                           /\ attempts'[q] = IF q = p THEN attempts[q] + 1 ELSE attempts[q]
  BY <1>1 DEF TypeOK
<1>3. \A j \in DOMAIN buf' : \/ j \in DOMAIN buf /\ buf'[j] = buf[j]
                             \/ j = Len(buf) + 1 /\ buf'[j] = v
  BY <1>1 DEF TypeOK
<1>4. Len(buf) \in Nat /\ DOMAIN buf = 1..Len(buf)
  BY LenProperties DEF TypeOK
<1>5. v[1] = p /\ v[2] = attempts[p] + 1
  OBVIOUS
<1> HIDE DEF v
<1>6. InOrder(delivered)'
  BY <1>1 DEF OrderInv, InOrder
<1>7. InOrder(buf)'
  <2> SUFFICES ASSUME NEW i \in DOMAIN buf', NEW j \in DOMAIN buf', i < j,
                      buf'[i][1] = buf'[j][1]
               PROVE  buf'[i][2] < buf'[j][2]
    BY DEF InOrder
  <2>1. i \in DOMAIN buf /\ buf'[i] = buf[i]
    BY <1>3, <1>4
  <2>2. CASE j \in DOMAIN buf /\ buf'[j] = buf[j]
    BY <2>1, <2>2 DEF OrderInv, InOrder
  <2>3. CASE buf'[j] = v
    BY <1>2, <1>5, <2>1, <2>3, ValueParts DEF OrderInv
  <2> QED
    BY <1>3, <2>2, <2>3
<1>8. \A i \in DOMAIN delivered', j \in DOMAIN buf' :
        delivered'[i][1] = buf'[j][1] => delivered'[i][2] < buf'[j][2]
  <2> SUFFICES ASSUME NEW i \in DOMAIN delivered, NEW j \in DOMAIN buf',
                      delivered[i][1] = buf'[j][1]
               PROVE  delivered[i][2] < buf'[j][2]
    BY <1>1
  <2>1. CASE j \in DOMAIN buf /\ buf'[j] = buf[j]
    BY <2>1 DEF OrderInv
  <2>2. CASE buf'[j] = v
    BY <1>2, <1>5, <2>2, ValueParts DEF OrderInv
  <2> QED
    BY <1>3, <2>1, <2>2
<1>9. \A i \in DOMAIN delivered' : delivered'[i][2] <= attempts'[delivered'[i][1]]
  BY <1>1, <1>2, ValueParts DEF OrderInv
<1>10. \A j \in DOMAIN buf' : buf'[j][2] <= attempts'[buf'[j][1]]
  BY <1>2, <1>3, <1>5, ValueParts DEF OrderInv
<1> QED
  BY <1>6, <1>7, <1>8, <1>9, <1>10 DEF OrderInv

LEMMA OrderPop ==
  ASSUME QueueBased, TypeOK, OrderInv, NEW c \in Consumers, PopDone(c)
  PROVE  OrderInv'
<1>0. buf # <<>>
  BY DEF PopDone, PopWaitCond
<1>1. /\ buf' = Tail(buf)
      /\ delivered' = Append(delivered, Head(buf))
      /\ attempts' = attempts
  BY DEF PopDone
<1>2. /\ Len(buf) \in Nat \ {0} /\ DOMAIN buf = 1..Len(buf)
      /\ Len(delivered) \in Nat /\ DOMAIN delivered = 1..Len(delivered)
  BY <1>0, EmptySeq, LenProperties DEF TypeOK
<1>3. \A j \in DOMAIN buf' : j + 1 \in DOMAIN buf /\ j \in Nat /\ buf'[j] = buf[j + 1]
  BY <1>0, <1>1, <1>2, HeadTailProperties, LenProperties DEF TypeOK
<1>4. Head(buf) = buf[1] /\ 1 \in DOMAIN buf
  BY <1>2
<1>5. \A i \in DOMAIN delivered' :
         \/ i \in DOMAIN delivered /\ delivered'[i] = delivered[i]
         \/ i = Len(delivered) + 1 /\ delivered'[i] = buf[1]
  BY <1>1, <1>4 DEF TypeOK
<1>6. InOrder(delivered)'
  <2> SUFFICES ASSUME NEW i \in DOMAIN delivered', NEW j \in DOMAIN delivered', i < j,
                      delivered'[i][1] = delivered'[j][1]
               PROVE  delivered'[i][2] < delivered'[j][2]
    BY DEF InOrder
  <2>1. i \in DOMAIN delivered /\ delivered'[i] = delivered[i]
    BY <1>2, <1>5
  <2>2. CASE j \in DOMAIN delivered /\ delivered'[j] = delivered[j]
    BY <2>1, <2>2 DEF OrderInv, InOrder
  <2>3. CASE delivered'[j] = buf[1]
    BY <1>4, <2>1, <2>3 DEF OrderInv
  <2> QED
    BY <1>5, <2>2, <2>3
<1>7. InOrder(buf)'
  <2> SUFFICES ASSUME NEW i \in DOMAIN buf', NEW j \in DOMAIN buf', i < j,
                      buf'[i][1] = buf'[j][1]
               PROVE  buf'[i][2] < buf'[j][2]
    BY DEF InOrder
  <2> QED
    BY <1>3 DEF OrderInv, InOrder
<1>8. \A i \in DOMAIN delivered', j \in DOMAIN buf' :
        delivered'[i][1] = buf'[j][1] => delivered'[i][2] < buf'[j][2]
  <2> SUFFICES ASSUME NEW i \in DOMAIN delivered', NEW j \in DOMAIN buf',
                      delivered'[i][1] = buf'[j][1]
               PROVE  delivered'[i][2] < buf'[j][2]
    OBVIOUS
  <2>1. CASE i \in DOMAIN delivered /\ delivered'[i] = delivered[i]
    BY <1>3, <2>1 DEF OrderInv
  <2>2. CASE delivered'[i] = buf[1]
    <3>1. j + 1 \in DOMAIN buf /\ 1 < j + 1 /\ buf'[j] = buf[j + 1]
      BY <1>2, <1>3
    <3> QED
      BY <1>4, <2>2, <3>1 DEF OrderInv, InOrder
  <2> QED
    BY <1>5, <2>1, <2>2
<1>9. \A i \in DOMAIN delivered' : delivered'[i][2] <= attempts'[delivered'[i][1]]
  BY <1>1, <1>4, <1>5 DEF OrderInv
<1>10. \A j \in DOMAIN buf' : buf'[j][2] <= attempts'[buf'[j][1]]
  BY <1>1, <1>3 DEF OrderInv
<1> QED
  BY <1>6, <1>7, <1>8, <1>9, <1>10 DEF OrderInv

LEMMA OrderStep == QueueBased => (TypeOK /\ OrderInv /\ [Next]_vars => OrderInv')
<1> SUFFICES ASSUME QueueBased, TypeOK, OrderInv, [Next]_vars PROVE OrderInv'
  OBVIOUS
<1>1. ASSUME NEW p \in Producers, PushDone(p) PROVE OrderInv'
  BY <1>1, OrderPush
<1>2. ASSUME NEW c \in Consumers, PopDone(c) PROVE OrderInv'
  BY <1>2, OrderPop
<1>3. \A q \in Producers : attempts[q] \in Nat
  BY DEF TypeOK
<1>4. ASSUME NEW p \in Producers, PushFail(p) PROVE OrderInv'
  <2>1. /\ attempts' = [attempts EXCEPT ![p] = @ + 1]
        /\ buf' = buf /\ delivered' = delivered
    BY <1>4 DEF PushFail
  <2>2. attempts' \in [Producers -> Nat]
    BY <2>1 DEF TypeOK
  <2>3. \A q \in Producers : attempts'[q] >= attempts[q]
    BY <1>3, <2>1 DEF TypeOK
  <2> QED
    BY <2>1, <2>2, <2>3, OrderQuiet
<1>5. ASSUME attempts' = attempts, delivered' = delivered, buf' \in {buf, <<>>}
      PROVE  OrderInv'
  <2>1. attempts' \in [Producers -> Nat] /\ \A q \in Producers : attempts'[q] >= attempts[q]
    BY <1>3, <1>5 DEF TypeOK
  <2> QED
    BY <1>5, <2>1, OrderQuiet
<1>6. ASSUME NEW p \in Producers, PushSleep(p) PROVE OrderInv'
  BY <1>5, <1>6 DEF PushSleep
<1>7. ASSUME NEW c \in Consumers, PopSleep(c) \/ PopFail(c) PROVE OrderInv'
  BY <1>5, <1>7 DEF PopSleep, PopFail
<1>8. ASSUME NEW t \in Threads, SpuriousWakeup(t) PROVE OrderInv'
  BY <1>5, <1>8 DEF SpuriousWakeup
<1>9. CASE Close \/ Open \/ Clear \/ RequestStop
  BY <1>5, <1>9 DEF Close, Open, Clear, RequestStop, Controlled
<1>10. ASSUME NEW n \in Capacities, SetCapacity(n) PROVE OrderInv'
  BY <1>5, <1>10 DEF SetCapacity, Controlled
<1>11. CASE UNCHANGED vars
  BY <1>5, <1>11 DEF vars
<1> QED
  BY <1>1, <1>2, <1>4, <1>6, <1>7, <1>8, <1>9, <1>10, <1>11
  DEF Next, PushWait, PopWait

(* A queue-based cv_queue delivers the values of each producer in the      *)
(* order they were pushed, and no value twice, for any number of threads.  *)
THEOREM DeliveredInOrder == QueueBased => (Spec => []PerProducerOrder)
<1> SUFFICES ASSUME QueueBased PROVE Spec => []PerProducerOrder
  OBVIOUS
<1>1. Init => OrderInv
  BY DEF Init, OrderInv, InOrder
<1>2. TypeOK /\ OrderInv /\ [Next]_vars => OrderInv'
  BY OrderStep
<1>3. OrderInv => PerProducerOrder
  BY DEF OrderInv, PerProducerOrder
<1>4. Safe => []PerProducerOrder
  BY <1>1, <1>2, <1>3, TypeInit, TypeStep, PTL DEF Safe
<1> QED
  BY <1>4, PTL DEF Spec
=============================================================================
