------------------------- MODULE BlockingQueueProofs -------------------------
(***************************************************************************)
(* Proofs about util::BlockingQueue, for any sets of producers, consumers  *)
(* and stoppers, any items and any bound on the queue.                     *)
(***************************************************************************)
EXTENDS BlockingQueue, FiniteSetTheorems, TLAPS

-----------------------------------------------------------------------------
(* Types *)

\* A thread that is in the middle of a Push holds an item, and only consumers
\* are ever inside WaitAndPop.
Roles ==
  \A t \in Threads :
    /\ pc[t] \in {"push_check", "push"} => arg[t] \in Items
    /\ pc[t] \in {"lock", "wait"} => t \in Consumers

IInv == TypeOK /\ Roles

\* The initial state satisfies the inductive invariant.
LEMMA InitIInv == Init => IInv
<1> SUFFICES ASSUME Init PROVE IInv
  OBVIOUS
<1>1. TypeOK
  <2>1. << >> \in Seq(Items)
    OBVIOUS
  <2> QED
    BY <2>1 DEF Init, TypeOK, PCs
<1>2. Roles
  BY DEF Init, Roles
<1> QED
  BY <1>1, <1>2 DEF IInv

\* Every step of every thread keeps the types and the roles.
LEMMA NextIInv == IInv /\ [Next]_vars => IInv'
<1> SUFFICES ASSUME IInv, [Next]_vars PROVE IInv'
  OBVIOUS
<1> USE DEF IInv, TypeOK, Roles, PCs, Goto
<1>1. ASSUME NEW t \in Producers, NEW v \in Items, CallPush(t, v) PROVE IInv'
  BY <1>1 DEF CallPush, Threads
<1>2. ASSUME NEW t \in Stoppers, CallStop(t) PROVE IInv'
  BY <1>2 DEF CallStop, Threads
<1>3. ASSUME NEW t \in Consumers, CallWaitAndPop(t) \/ SpuriousWakeup(t) PROVE IInv'
  BY <1>3 DEF CallWaitAndPop, SpuriousWakeup, Threads
<1>4. ASSUME NEW t \in Threads, Step(t) PROVE IInv'
  <2>1. CASE PushCheck(t)
    BY <2>1 DEF PushCheck
  <2>2. CASE PushLocked(t)
    BY <2>2 DEF PushLocked
  <2>3. CASE StopCheck(t)
    BY <2>3 DEF StopCheck
  <2>4. CASE StopLocked(t)
    BY <2>4 DEF StopLocked
  <2>5. CASE NotifyOne(t)
    BY <2>5 DEF NotifyOne, Waiting
  <2>6. CASE Block(t)
    BY <2>6 DEF Block
  <2>7. CASE PopFalse(t)
    BY <2>7 DEF PopFalse
  <2>8. CASE PopTrue(t)
    BY <2>8 DEF PopTrue
  <2> QED
    BY <1>4, <2>1, <2>2, <2>3, <2>4, <2>5, <2>6, <2>7, <2>8 DEF Step
<1>5. CASE UNCHANGED vars
  BY <1>5 DEF vars
<1> QED
  BY <1>1, <1>2, <1>3, <1>4, <1>5 DEF Next

\* The queue only ever holds values that were pushed, and every thread is in
\* one of the steps of the class's methods.
THEOREM TypeCorrect == Spec => []TypeOK
<1>1. Spec => []IInv
  BY InitIInv, NextIInv, PTL DEF Spec
<1>2. IInv => TypeOK
  BY DEF IInv
<1> QED
  BY <1>1, <1>2, PTL

\* The invariant above, for the proofs below.
LEMMA AlwaysIInv == Spec => []IInv
  BY InitIInv, NextIInv, PTL DEF Spec

-----------------------------------------------------------------------------
(* No item is stranded *)

\* Cardinalities of the set of active threads when one thread joins or leaves.
LEMMA ActiveFinite == IsFiniteSet(Active) /\ Cardinality(Active) \in Nat
<1>1. Active \subseteq Threads
  BY DEF Active
<1> QED
  BY <1>1, ThreadsAssumption, FS_Subset, FS_CardinalityType

\* A step keeps, for every value in the queue, a thread that will see to it.
LEMMA NextNoStrandedItem ==
  ASSUME IInv, NoStrandedItem, [Next]_vars
  PROVE  NoStrandedItem'
<1> SUFFICES ASSUME ~stopped', Waiting' # {}
             PROVE  Len(queue') <= Cardinality(Active')
  BY DEF NoStrandedItem
<1> USE DEF Goto
<1>f. /\ IsFiniteSet(Active) /\ Cardinality(Active) \in Nat
      /\ IsFiniteSet(Active') /\ Cardinality(Active') \in Nat
  <2>1. Active' \subseteq Threads
    BY DEF Active
  <2> QED
    BY <2>1, ActiveFinite, ThreadsAssumption, FS_Subset, FS_CardinalityType
<1>t. /\ queue \in Seq(Items)
      /\ Len(queue) \in Nat
      /\ pc \in [Threads -> PCs]
      /\ stopped \in BOOLEAN
  BY DEF IInv, TypeOK
<1>join. ASSUME NEW t \in Threads, t \notin Active, Active' = Active \cup {t}
         PROVE  Cardinality(Active') = Cardinality(Active) + 1
  BY <1>join, <1>f, FS_AddElement
<1>leave. ASSUME NEW t \in Active, Active' = Active \ {t}
          PROVE  Cardinality(Active') = Cardinality(Active) - 1
  BY <1>leave, <1>f, FS_RemoveElement
<1>same. ASSUME Active' = Active, Waiting' = Waiting, queue' = queue, stopped' = stopped
         PROVE  Len(queue') <= Cardinality(Active')
  BY <1>same DEF NoStrandedItem
<1>1. ASSUME NEW t \in Producers, NEW v \in Items, CallPush(t, v)
      PROVE  Len(queue') <= Cardinality(Active')
  <2>1. t \in Threads
    BY DEF Threads
  <2> QED
    BY <1>1, <1>t, <1>same, <2>1 DEF CallPush, Active, Waiting
<1>2. ASSUME NEW t \in Stoppers, CallStop(t)
      PROVE  Len(queue') <= Cardinality(Active')
  <2>1. t \in Threads
    BY DEF Threads
  <2> QED
    BY <1>2, <1>t, <1>same, <2>1 DEF CallStop, Active, Waiting
<1>3. ASSUME NEW t \in Consumers, CallWaitAndPop(t)
      PROVE  Len(queue') <= Cardinality(Active')
  <2>1. t \in Threads /\ t \notin Active /\ Active' = Active \cup {t} /\ Waiting' = Waiting
    BY <1>3, <1>t DEF CallWaitAndPop, Active, Waiting, Threads
  <2>2. queue' = queue /\ stopped' = stopped
    BY <1>3 DEF CallWaitAndPop
  <2>3. Cardinality(Active') = Cardinality(Active) + 1
    BY <1>join, <2>1
  <2>4. Len(queue) <= Cardinality(Active)
    BY <2>1, <2>2 DEF NoStrandedItem
  <2> QED
    BY <1>f, <1>t, <2>2, <2>3, <2>4
<1>4. ASSUME NEW t \in Consumers, SpuriousWakeup(t)
      PROVE  Len(queue') <= Cardinality(Active')
  <2>1. t \in Threads /\ t \notin Active /\ Active' = Active \cup {t} /\ t \in Waiting
    BY <1>4, <1>t DEF SpuriousWakeup, Active, Waiting, Threads
  <2>2. queue' = queue /\ stopped' = stopped
    BY <1>4 DEF SpuriousWakeup
  <2>3. Cardinality(Active') = Cardinality(Active) + 1
    BY <1>join, <2>1
  <2>4. Len(queue) <= Cardinality(Active)
    BY <2>1, <2>2 DEF NoStrandedItem
  <2> QED
    BY <1>f, <1>t, <2>2, <2>3, <2>4
<1>5. ASSUME NEW t \in Threads, Step(t)
      PROVE  Len(queue') <= Cardinality(Active')
  <2>1. CASE PushCheck(t)
    <3>1. ~stopped
      BY <2>1 DEF PushCheck
    <3> QED
      BY <2>1, <3>1, <1>t, <1>same DEF PushCheck, Active, Waiting
  <2>2. CASE PushLocked(t)
    <3>1. t \notin Active /\ Active' = Active \cup {t} /\ Waiting' = Waiting /\ ~stopped
      BY <2>2, <1>t DEF PushLocked, Active, Waiting
    <3>2. Len(queue') = Len(queue) + 1
      <4>1. arg[t] \in Items
        BY <2>2 DEF PushLocked, IInv, Roles
      <4> QED
        BY <2>2, <4>1, <1>t DEF PushLocked
    <3>3. Cardinality(Active') = Cardinality(Active) + 1
      BY <1>join, <3>1
    <3>4. Len(queue) <= Cardinality(Active)
      BY <3>1 DEF NoStrandedItem
    <3> QED
      BY <1>f, <1>t, <3>2, <3>3, <3>4
  <2>3. CASE StopCheck(t)
    <3>1. ~stopped
      BY <2>3 DEF StopCheck
    <3> QED
      BY <2>3, <3>1, <1>t, <1>same DEF StopCheck, Active, Waiting
  <2>4. CASE StopLocked(t)
    BY <2>4 DEF StopLocked
  <2>5. CASE NotifyOne(t)
    <3>1. PICK w \in Waiting : pc' = [pc EXCEPT ![t] = "idle", ![w] = "lock"]
      <4>1. CASE Waiting = {} /\ pc' = [pc EXCEPT ![t] = "idle"]
        BY <4>1, <1>t DEF Waiting
      <4> QED
        BY <2>5, <4>1 DEF NotifyOne
    <3>2. queue' = queue /\ stopped' = stopped /\ Waiting # {} /\ t \in Active
      BY <2>5 DEF NotifyOne, Active
    <3>3. w \in Threads /\ w # t /\ w \notin Active \ {t}
      BY <2>5, <3>1 DEF NotifyOne, Waiting, Active
    <3>4. Active' = (Active \ {t}) \cup {w}
      BY <3>1, <3>3, <1>t DEF Active
    <3>5. IsFiniteSet(Active \ {t}) /\ Cardinality(Active \ {t}) = Cardinality(Active) - 1
      BY <3>2, <1>f, FS_RemoveElement
    <3>6. Cardinality(Active') = Cardinality(Active)
      BY <3>3, <3>4, <3>5, <1>f, FS_AddElement
    <3> QED
      BY <3>2, <3>6, <1>f DEF NoStrandedItem
  <2>6. CASE Block(t)
    BY <2>6, <1>f DEF Block
  <2>7. CASE PopFalse(t)
    BY <2>7 DEF PopFalse
  <2>8. CASE PopTrue(t)
    <3>1. t \in Active /\ Active' = Active \ {t} /\ Waiting' = Waiting /\ ~stopped
      BY <2>8, <1>t DEF PopTrue, Active, Waiting
    <3>2. Len(queue') = Len(queue) - 1
      BY <2>8, <1>t DEF PopTrue
    <3>3. Cardinality(Active') = Cardinality(Active) - 1
      BY <1>leave, <3>1
    <3>4. Len(queue) <= Cardinality(Active)
      BY <3>1 DEF NoStrandedItem
    <3> QED
      BY <1>f, <1>t, <3>2, <3>3, <3>4
  <2> QED
    BY <1>5, <2>1, <2>2, <2>3, <2>4, <2>5, <2>6, <2>7, <2>8 DEF Step
<1>6. CASE UNCHANGED vars
  BY <1>6, <1>same DEF vars, Active, Waiting
<1> QED
  BY <1>1, <1>2, <1>3, <1>4, <1>5, <1>6 DEF Next

\* However many threads push, pop and stop, no value lies in a live queue while
\* a consumer sleeps and nobody is on the way to it: notifying one waiter after
\* the mutex is released is enough for Push.
THEOREM NoStrandedItemHolds == Spec => []NoStrandedItem
<1>1. Init => NoStrandedItem
  BY DEF Init, NoStrandedItem, Waiting
<1>2. IInv /\ NoStrandedItem /\ [Next]_vars => NoStrandedItem'
  BY NextNoStrandedItem
<1> QED
  BY <1>1, <1>2, AlwaysIInv, PTL DEF Spec

-----------------------------------------------------------------------------
(* Stop wakes the consumer *)

\* With one consumer, as in the transports that use the queue, the
\* notification that follows the setting of the flag reaches it.
LEMMA NextStopWakesWaiter ==
  ASSUME NEW c, Consumers = {c}, IInv, StopWakesWaiter, [Next]_vars
  PROVE  StopWakesWaiter'
<1> SUFFICES ASSUME stopped', Waiting' # {}
             PROVE  \E t \in Threads : pc'[t] = "notify"
  BY DEF StopWakesWaiter
<1> USE DEF Goto
<1>t. pc \in [Threads -> PCs] /\ stopped \in BOOLEAN
  BY DEF IInv, TypeOK
<1>keep. ASSUME stopped, Waiting' \subseteq Waiting,
                \A t \in Threads : pc[t] = "notify" => pc'[t] = "notify"
         PROVE  \E t \in Threads : pc'[t] = "notify"
  BY <1>keep DEF StopWakesWaiter
<1>1. ASSUME NEW t \in Producers, NEW v \in Items, CallPush(t, v)
      PROVE  \E u \in Threads : pc'[u] = "notify"
  BY <1>1, <1>t, <1>keep DEF CallPush, Waiting
<1>2. ASSUME NEW t \in Stoppers, CallStop(t)
      PROVE  \E u \in Threads : pc'[u] = "notify"
  BY <1>2, <1>t, <1>keep DEF CallStop, Waiting
<1>3. ASSUME NEW t \in Consumers, CallWaitAndPop(t) \/ SpuriousWakeup(t)
      PROVE  \E u \in Threads : pc'[u] = "notify"
  BY <1>3, <1>t, <1>keep DEF CallWaitAndPop, SpuriousWakeup, Waiting
<1>4. ASSUME NEW t \in Threads, Step(t)
      PROVE  \E u \in Threads : pc'[u] = "notify"
  <2>1. CASE PushCheck(t)
    BY <2>1, <1>t, <1>keep DEF PushCheck, Waiting
  <2>2. CASE PushLocked(t)
    BY <2>2, <1>t DEF PushLocked
  <2>3. CASE StopCheck(t)
    BY <2>3, <1>t, <1>keep DEF StopCheck, Waiting
  <2>4. CASE StopLocked(t)
    BY <2>4, <1>t DEF StopLocked
  <2>5. CASE NotifyOne(t)
    <3>1. Waiting \subseteq {c}
      BY DEF Waiting, IInv, Roles
    <3>2. Waiting' = {}
      BY <2>5, <3>1, <1>t DEF NotifyOne, Waiting
    <3> QED
      BY <3>2
  <2>6. CASE Block(t)
    BY <2>6 DEF Block
  <2>7. CASE PopFalse(t)
    BY <2>7, <1>t, <1>keep DEF PopFalse, Waiting
  <2>8. CASE PopTrue(t)
    BY <2>8 DEF PopTrue
  <2> QED
    BY <1>4, <2>1, <2>2, <2>3, <2>4, <2>5, <2>6, <2>7, <2>8 DEF Step
<1>5. CASE UNCHANGED vars
  BY <1>5, <1>keep DEF vars, Waiting
<1> QED
  BY <1>1, <1>2, <1>3, <1>4, <1>5 DEF Next

\* With one consumer, Stop never leaves that consumer asleep without a
\* notification on its way (blocking_queue.h: "unblocks readers").
THEOREM StopWakesWaiterHolds ==
  ASSUME NEW CONSTANT c, Consumers = {c}
  PROVE  Spec => []StopWakesWaiter
<1>1. Init => StopWakesWaiter
  BY DEF Init, StopWakesWaiter
<1>2. IInv /\ StopWakesWaiter /\ [Next]_vars => StopWakesWaiter'
  BY NextStopWakesWaiter
<1> QED
  BY <1>1, <1>2, AlwaysIInv, PTL DEF Spec

-----------------------------------------------------------------------------
(* The queue implements the atomic one *)

\* The operation each label of a thread belongs to.
LEMMA OpOfLabels ==
  /\ opOf("idle") = "idle" /\ opOf("notify") = "done"
  /\ opOf("push_check") = "push" /\ opOf("push") = "push"
  /\ opOf("stop_check") = "stop" /\ opOf("stop") = "stop"
  /\ opOf("lock") = "pop" /\ opOf("wait") = "pop"
  BY DEF opOf

\* The steps of the class map to calls, effects and returns of the atomic
\* queue, or to nothing.
LEMMA NextRefines ==
  ASSUME IInv, [Next]_vars
  PROVE  [Abstract!Next]_Abstract!vars
<1> USE OpOfLabels DEF Goto
<1>t. /\ queue \in Seq(Items) /\ stopped \in BOOLEAN /\ pc \in [Threads -> PCs]
      /\ arg \in [Threads -> Items \cup {NoItem}]
      /\ got \in [Threads -> Items \cup {NoItem}]
  BY DEF IInv, TypeOK
<1> DEFINE o == [t \in Threads |-> opOf(pc[t])]
<1>op. ASSUME NEW u \in Threads, NEW l, pc' = [pc EXCEPT ![u] = l]
       PROVE  o' = [o EXCEPT ![u] = opOf(l)]
  BY <1>op, <1>t
<1>same. ASSUME queue' = queue, stopped' = stopped, arg' = arg, got' = got, o' = o
         PROVE  UNCHANGED Abstract!vars
  BY <1>same DEF Abstract!vars
<1>1. ASSUME NEW t \in Producers, NEW v \in Items, CallPush(t, v)
      PROVE  Abstract!Next
  <2>1. t \in Threads
    BY DEF Threads
  <2>2. Abstract!CallPush(t, v)
    BY <1>op, <1>1, <1>t, <2>1 DEF CallPush, Abstract!CallPush
  <2> QED
    BY <2>1, <2>2 DEF Abstract!Next
<1>2. ASSUME NEW t \in Stoppers, CallStop(t)
      PROVE  Abstract!Next
  <2>1. t \in Threads
    BY DEF Threads
  <2>2. Abstract!CallStop(t)
    BY <1>op, <1>2, <1>t, <2>1 DEF CallStop, Abstract!CallStop
  <2> QED
    BY <2>1, <2>2 DEF Abstract!Next
<1>3. ASSUME NEW t \in Consumers, CallWaitAndPop(t)
      PROVE  Abstract!Next
  <2>1. t \in Threads
    BY DEF Threads
  <2>2. Abstract!CallPop(t)
    BY <1>op, <1>3, <1>t, <2>1 DEF CallWaitAndPop, Abstract!CallPop
  <2> QED
    BY <2>1, <2>2 DEF Abstract!Next
<1>4. ASSUME NEW t \in Consumers, SpuriousWakeup(t)
      PROVE  UNCHANGED Abstract!vars
  <2>1. o' = o
    BY <1>op, <1>4, <1>t DEF SpuriousWakeup
  <2> QED
    BY <1>4, <1>same, <2>1 DEF SpuriousWakeup
<1>5. ASSUME NEW t \in Threads, Step(t)
      PROVE  [Abstract!Next]_Abstract!vars
  <2>1. CASE PushCheck(t)
    <3>1. CASE pc' = [pc EXCEPT ![t] = "push"]
      <4>1. o' = o
        BY <1>op, <2>1, <3>1, <1>t DEF PushCheck
      <4> QED
        BY <2>1, <1>same, <4>1 DEF PushCheck
    <3>2. CASE stopped /\ pc' = [pc EXCEPT ![t] = "notify"]
      <4>1. Abstract!DoPush(t)
        BY <1>op, <2>1, <3>2, <1>t DEF PushCheck, Abstract!DoPush, Abstract!Push
      <4> QED
        BY <4>1 DEF Abstract!Next
    <3> QED
      BY <2>1, <3>1, <3>2 DEF PushCheck
  <2>2. CASE PushLocked(t)
    <3>1. Abstract!DoPush(t)
      BY <1>op, <2>2, <1>t DEF PushLocked, Abstract!DoPush, Abstract!Push
    <3> QED
      BY <3>1 DEF Abstract!Next
  <2>3. CASE StopCheck(t)
    <3>1. CASE pc' = [pc EXCEPT ![t] = "stop"]
      <4>1. o' = o
        BY <1>op, <2>3, <3>1, <1>t DEF StopCheck
      <4> QED
        BY <2>3, <1>same, <4>1 DEF StopCheck
    <3>2. CASE stopped /\ pc' = [pc EXCEPT ![t] = "notify"]
      <4>1. Abstract!DoStop(t)
        BY <1>op, <2>3, <3>2, <1>t DEF StopCheck, Abstract!DoStop, Abstract!Stop
      <4> QED
        BY <4>1 DEF Abstract!Next
    <3> QED
      BY <2>3, <3>1, <3>2 DEF StopCheck
  <2>4. CASE StopLocked(t)
    <3>1. Abstract!DoStop(t)
      BY <1>op, <2>4, <1>t DEF StopLocked, Abstract!DoStop, Abstract!Stop
    <3> QED
      BY <3>1 DEF Abstract!Next
  <2>5. CASE NotifyOne(t)
    <3>1. Abstract!Return(t)
      BY <2>5, <1>t DEF NotifyOne, Waiting, Abstract!Return
    <3> QED
      BY <3>1 DEF Abstract!Next
  <2>6. CASE Block(t)
    <3>1. o' = o
      BY <1>op, <2>6, <1>t DEF Block
    <3> QED
      BY <2>6, <1>same, <3>1 DEF Block
  <2>7. CASE PopFalse(t)
    <3>1. Abstract!DoPop(t)
      BY <1>op, <2>7, <1>t DEF PopFalse, Abstract!DoPop, Abstract!PopStopped
    <3> QED
      BY <3>1 DEF Abstract!Next
  <2>8. CASE PopTrue(t)
    <3>1. Abstract!DoPop(t)
      BY <1>op, <2>8, <1>t DEF PopTrue, Abstract!DoPop, Abstract!Pop
    <3> QED
      BY <3>1 DEF Abstract!Next
  <2> QED
    BY <1>5, <2>1, <2>2, <2>3, <2>4, <2>5, <2>6, <2>7, <2>8 DEF Step
<1>6. CASE UNCHANGED vars
  BY <1>6, <1>same DEF vars
<1> QED
  BY <1>1, <1>2, <1>3, <1>4, <1>5, <1>6 DEF Next

\* BlockingQueue is a thread-safe FIFO queue: whatever the interleaving of its
\* unlocked checks, critical sections and notifications, its users see
\* operations that take effect at one instant.
THEOREM Refinement == Spec => ImplementsStoppableQueue
<1>1. Init => Abstract!Init
  BY DEF Init, Abstract!Init, opOf
<1>2. IInv /\ [Next]_vars => [Abstract!Next]_Abstract!vars
  BY NextRefines
<1> QED
  BY <1>1, <1>2, AlwaysIInv, PTL DEF Spec, ImplementsStoppableQueue, Abstract!Spec

=============================================================================
