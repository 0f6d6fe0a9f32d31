--------------------------- MODULE StoppableQueue ---------------------------
(***************************************************************************)
(* What util::BlockingQueue promises its users: a FIFO queue whose        *)
(* operations take effect at one instant between their call and their     *)
(* return.  A stopped queue accepts nothing, holds nothing and answers    *)
(* every pop with FALSE (NoItem here).                                    *)
(*                                                                         *)
(* The operators Push, Pop, PopStopped and Stop are the bare effects; the  *)
(* models of the queue's users (HciTransport) take them from here.        *)
(***************************************************************************)
EXTENDS Sequences

CONSTANTS Threads,  \* the threads that share the queue
          Items,    \* the values that can be queued
          NoItem    \* what a pop gives when the queue is stopped

VARIABLES items,    \* the values accepted and not yet popped
          stopped,  \* Stop has taken effect
          op,       \* op[t]: the operation thread t is executing
          arg,      \* arg[t]: the value of t's latest Push
          got       \* got[t]: what t's latest WaitAndPop returned

vars == <<items, stopped, op, arg, got>>

Init ==
  /\ items = << >>
  /\ stopped = FALSE
  /\ op = [t \in Threads |-> "idle"]
  /\ arg = [t \in Threads |-> NoItem]
  /\ got = [t \in Threads |-> NoItem]

-----------------------------------------------------------------------------
(* The effects *)

Push(v) ==
  /\ items' = IF stopped THEN items ELSE Append(items, v)
  /\ UNCHANGED stopped

Pop ==
  /\ ~stopped
  /\ items # << >>
  /\ items' = Tail(items)
  /\ UNCHANGED stopped

PopStopped ==
  /\ stopped
  /\ UNCHANGED <<items, stopped>>

Stop ==
  /\ stopped' = TRUE
  /\ items' = << >>

-----------------------------------------------------------------------------
(* Calls, effects and returns of the threads *)

CallPush(t, v) ==
  /\ op[t] = "idle"
  /\ op' = [op EXCEPT ![t] = "push"]
  /\ arg' = [arg EXCEPT ![t] = v]
  /\ UNCHANGED <<items, stopped, got>>

CallPop(t) ==
  /\ op[t] = "idle"
  /\ op' = [op EXCEPT ![t] = "pop"]
  /\ UNCHANGED <<items, stopped, arg, got>>

CallStop(t) ==
  /\ op[t] = "idle"
  /\ op' = [op EXCEPT ![t] = "stop"]
  /\ UNCHANGED <<items, stopped, arg, got>>

DoPush(t) ==
  /\ op[t] = "push"
  /\ Push(arg[t])
  /\ op' = [op EXCEPT ![t] = "done"]
  /\ UNCHANGED <<arg, got>>

DoStop(t) ==
  /\ op[t] = "stop"
  /\ Stop
  /\ op' = [op EXCEPT ![t] = "done"]
  /\ UNCHANGED <<arg, got>>

DoPop(t) ==
  /\ op[t] = "pop"
  /\ \/ Pop /\ got' = [got EXCEPT ![t] = Head(items)]
     \/ PopStopped /\ got' = [got EXCEPT ![t] = NoItem]
  /\ op' = [op EXCEPT ![t] = "idle"]
  /\ UNCHANGED arg

Return(t) ==
  /\ op[t] = "done"
  /\ op' = [op EXCEPT ![t] = "idle"]
  /\ UNCHANGED <<items, stopped, arg, got>>

Next ==
  \E t \in Threads :
    \/ \E v \in Items : CallPush(t, v)
    \/ CallPop(t)
    \/ CallStop(t)
    \/ DoPush(t)
    \/ DoStop(t)
    \/ DoPop(t)
    \/ Return(t)

Spec == Init /\ [][Next]_vars

=============================================================================
