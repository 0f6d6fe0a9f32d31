---------------------------- MODULE BlockingQueue ----------------------------
(***************************************************************************)
(* util::BlockingQueue<T> (src/util/blocking_queue.h), step by step.       *)
(*                                                                         *)
(* Every operation of the class is the same three steps: an unlocked look  *)
(* at `stopped`, a critical section, and notify_one() after the mutex is   *)
(* released.  Other threads run between any two of them.  A critical       *)
(* section is one step here; condition_variable::wait gives the mutex up   *)
(* and joins the wait set in that same step.                               *)
(*                                                                         *)
(* `stopped` is a plain bool that Push and Stop read without the mutex: a  *)
(* data race.  The read of a bool set once gives the new value or the old  *)
(* one, so a check that follows Stop may still see FALSE.                  *)
(***************************************************************************)
EXTENDS Naturals, Sequences, FiniteSets

CONSTANTS Producers,  \* threads that call Push
          Consumers,  \* threads that call WaitAndPop
          Stoppers,   \* threads that call Stop
          Items,      \* the values pushed
          NoItem,     \* not an item
          MaxQueue    \* bound: no new Push is called on a queue this long

Threads == Producers \cup Consumers \cup Stoppers

ASSUME ThreadsAssumption == IsFiniteSet(Threads)
ASSUME ItemsAssumption == NoItem \notin Items
ASSUME BoundAssumption == MaxQueue \in Nat

VARIABLES queue,    \* std::queue<T> queue
          stopped,  \* bool stopped
          pc,       \* pc[t]: the next step of thread t
          arg,      \* arg[t]: the value t is pushing, or last pushed
          got       \* got[t]: what t's latest WaitAndPop returned

vars == <<queue, stopped, pc, arg, got>>

(***************************************************************************)
(* idle       in none of the queue's methods                               *)
(* push_check, stop_check      before the unlocked read of `stopped`       *)
(* push, stop                  saw FALSE, about to lock and act            *)
(* notify     about to call condition.notify_one()                         *)
(* lock       in WaitAndPop, about to take the mutex and test the predicate*)
(* wait       in WaitAndPop, in the wait set of `condition`                *)
(***************************************************************************)
PCs == {"idle", "push_check", "push", "stop_check", "stop", "notify", "lock", "wait"}

\* What the queue, the threads and their values can be: only values that were
\* pushed are queued or popped.
TypeOK ==
  /\ queue \in Seq(Items)
  /\ stopped \in BOOLEAN
  /\ pc \in [Threads -> PCs]
  /\ arg \in [Threads -> Items \cup {NoItem}]
  /\ got \in [Threads -> Items \cup {NoItem}]

Init ==
  /\ queue = << >>
  /\ stopped = FALSE
  /\ pc = [t \in Threads |-> "idle"]
  /\ arg = [t \in Threads |-> NoItem]
  /\ got = [t \in Threads |-> NoItem]

Waiting == {t \in Threads : pc[t] = "wait"}

Goto(t, label) == pc' = [pc EXCEPT ![t] = label]

-----------------------------------------------------------------------------
(* Push *)

\* Mutated form: the value is not handed over.
CallPushLosesValue(t, v) ==
  /\ pc[t] = "idle"
  /\ Len(queue) < MaxQueue
  /\ Goto(t, "push_check")
  /\ UNCHANGED <<queue, stopped, arg, got>>

CallPush(t, v) ==
  /\ pc[t] = "idle"
  /\ Len(queue) < MaxQueue
  /\ Goto(t, "push_check")
  /\ arg' = [arg EXCEPT ![t] = v]
  /\ UNCHANGED <<queue, stopped, got>>

PushCheck(t) ==
  /\ pc[t] = "push_check"
  /\ \/ Goto(t, "push")                  \* the current or a stale FALSE
     \/ stopped /\ Goto(t, "notify")
  /\ UNCHANGED <<queue, stopped, arg, got>>

\* Mutated form: no notification after the push.
PushLockedSilent(t) ==
  /\ pc[t] = "push"
  /\ queue' = Append(queue, arg[t])
  /\ Goto(t, "idle")
  /\ UNCHANGED <<stopped, arg, got>>

PushLocked(t) ==
  /\ pc[t] = "push"
  /\ queue' = Append(queue, arg[t])
  /\ Goto(t, "notify")
  /\ UNCHANGED <<stopped, arg, got>>

-----------------------------------------------------------------------------
(* Stop *)

CallStop(t) ==
  /\ pc[t] = "idle"
  /\ Goto(t, "stop_check")
  /\ UNCHANGED <<queue, stopped, arg, got>>

StopCheck(t) ==
  /\ pc[t] = "stop_check"
  /\ \/ Goto(t, "stop")
     \/ stopped /\ Goto(t, "notify")
  /\ UNCHANGED <<queue, stopped, arg, got>>

\* Mutated form: no notification after the flag is set.
StopLockedSilent(t) ==
  /\ pc[t] = "stop"
  /\ stopped' = TRUE
  /\ Goto(t, "idle")
  /\ UNCHANGED <<queue, arg, got>>

StopLocked(t) ==
  /\ pc[t] = "stop"
  /\ stopped' = TRUE
  /\ Goto(t, "notify")
  /\ UNCHANGED <<queue, arg, got>>

-----------------------------------------------------------------------------
(* condition.notify_one(): wakes one thread of the wait set, if any *)

NotifyOne(t) ==
  /\ pc[t] = "notify"
  /\ \/ /\ Waiting = {}
        /\ Goto(t, "idle")
     \/ \E w \in Waiting : pc' = [pc EXCEPT ![t] = "idle", ![w] = "lock"]
  /\ UNCHANGED <<queue, stopped, arg, got>>

-----------------------------------------------------------------------------
(* WaitAndPop *)

CallWaitAndPop(t) ==
  /\ pc[t] = "idle"
  /\ Goto(t, "lock")
  /\ UNCHANGED <<queue, stopped, arg, got>>

Block(t) ==
  /\ pc[t] = "lock"
  /\ ~stopped
  /\ queue = << >>
  /\ Goto(t, "wait")
  /\ UNCHANGED <<queue, stopped, arg, got>>

PopFalse(t) ==
  /\ pc[t] = "lock"
  /\ stopped
  /\ got' = [got EXCEPT ![t] = NoItem]
  /\ Goto(t, "idle")
  /\ UNCHANGED <<queue, stopped, arg>>

\* Mutated form: front() without pop().
PopTrueKeepsFront(t) ==
  /\ pc[t] = "lock"
  /\ ~stopped
  /\ queue # << >>
  /\ got' = [got EXCEPT ![t] = Head(queue)]
  /\ Goto(t, "idle")
  /\ UNCHANGED <<queue, stopped, arg>>

PopTrue(t) ==
  /\ pc[t] = "lock"
  /\ ~stopped
  /\ queue # << >>
  /\ got' = [got EXCEPT ![t] = Head(queue)]
  /\ queue' = Tail(queue)
  /\ Goto(t, "idle")
  /\ UNCHANGED <<stopped, arg>>

\* A condition variable may wake a waiter nobody notified; wait() then tests
\* the predicate again.
SpuriousWakeup(t) ==
  /\ pc[t] = "wait"
  /\ Goto(t, "lock")
  /\ UNCHANGED <<queue, stopped, arg, got>>

-----------------------------------------------------------------------------
\* The steps a thread takes once it is inside a method and not blocked.
Step(t) ==
  \/ PushCheck(t)
  \/ PushLocked(t)
  \/ StopCheck(t)
  \/ StopLocked(t)
  \/ NotifyOne(t)
  \/ Block(t)
  \/ PopFalse(t)
  \/ PopTrue(t)

Next ==
  \/ \E t \in Producers, v \in Items : CallPush(t, v)
  \/ \E t \in Stoppers : CallStop(t)
  \/ \E t \in Consumers : CallWaitAndPop(t) \/ SpuriousWakeup(t)
  \/ \E t \in Threads : Step(t)

Spec == Init /\ [][Next]_vars

(***************************************************************************)
(* A thread inside a method and not in the wait set keeps running, and a   *)
(* mutex that is held for a bounded time is eventually obtained.  Nothing  *)
(* obliges a thread to call a method, and no spurious wakeup is promised.  *)
(***************************************************************************)
FairSpec == Spec /\ \A t \in Threads : WF_vars(Step(t))

-----------------------------------------------------------------------------
(* The abstract queue *)

opOf(label) ==
  CASE label = "idle" -> "idle"
    [] label \in {"push_check", "push"} -> "push"
    [] label \in {"stop_check", "stop"} -> "stop"
    [] label = "notify" -> "done"
    [] label \in {"lock", "wait"} -> "pop"

\* What is in `queue` once the queue is stopped can no longer be reached.
Abstract ==
  INSTANCE StoppableQueue
    WITH items <- IF stopped THEN << >> ELSE queue,
         op <- [t \in Threads |-> opOf(pc[t])]

\* blocking_queue.h is a thread-safe queue: every interleaving of the check,
\* the critical section and the notification of several threads is a behaviour
\* of the queue whose operations are atomic, the stale reads of `stopped`
\* included.
ImplementsStoppableQueue == Abstract!Spec

-----------------------------------------------------------------------------
(* Properties *)

\* The threads that will look at the queue, or make a waiter look at it.
Active == {t \in Threads : pc[t] \in {"notify", "lock"}}

\* Push notifies after it has released the mutex, and notify_one wakes one
\* waiter only.  While somebody waits there is nevertheless, for each value in
\* the queue, a notification on its way or a consumer about to look: no value
\* is left lying while a consumer sleeps.
NoStrandedItem ==
  ~stopped /\ Waiting # {} => Len(queue) <= Cardinality(Active)

\* A consumer that sleeps although the queue is stopped has a notification
\* coming (holds for one consumer: Stop's notify_one reaches only one).
StopWakesWaiter ==
  stopped /\ Waiting # {} => \E t \in Threads : pc[t] = "notify"

\* WaitAndPop returns whenever the queue stays non-empty or is stopped.
PopReturns ==
  \A c \in Consumers :
    pc[c] \in {"lock", "wait"} /\ (stopped \/ queue # << >>) ~> pc[c] = "idle"

=============================================================================
