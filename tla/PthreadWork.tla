---------------------------- MODULE PthreadWork ----------------------------
(***************************************************************************)
(* The usual client of a condition variable: producers add work under the  *)
(* mutex and notify, consumers take work under the mutex and wait in a     *)
(* loop while there is none.  std::condition_variable, std::future and the *)
(* read/write lock of this component use it in this way.                   *)
(***************************************************************************)
EXTENDS PthreadCond

CONSTANTS Consumers,    \* the threads that wait for work; the others produce it
          Notify,       \* "signal" or "broadcast": what a producer calls
          MaxWork       \* bound: how many pieces of work are ever produced

ASSUME WorkAssumption ==
  Consumers \subseteq Threads /\ Notify \in {"signal", "broadcast"} /\ MaxWork \in Nat

VARIABLES work,         \* pieces of work there are
          made          \* pieces ever produced

vars == <<mutex, waiters, sem, wpc, work, made>>

Init == CondInit /\ work = 0 /\ made = 0

Put(t) ==
  /\ t \notin Consumers
  /\ mutex = t
  /\ made < MaxWork
  /\ made' = made + 1
  /\ work' = work + 1
  /\ IF Notify = "signal" THEN Signal ELSE Broadcast

\* A producer may signal at any time, also without the mutex and without need.
Poke(t) ==
  /\ t \notin Consumers
  /\ Signal
  /\ UNCHANGED <<work, made>>

Enter(t) ==
  /\ t \in Consumers \/ made < MaxWork
  /\ MutexLock(t)
  /\ UNCHANGED <<work, made>>

Get(t) ==
  /\ t \in Consumers
  /\ mutex = t /\ wpc[t] = "out"
  /\ work > 0
  /\ work' = work - 1
  /\ mutex' = None
  /\ UNCHANGED <<waiters, sem, wpc, made>>

Wait(t) ==
  /\ t \in Consumers
  /\ work = 0
  /\ WaitEnqueue(t)
  /\ UNCHANGED <<work, made>>

\* A producer is done; a consumer with a time limit gives up.
Exit(t) ==
  /\ t \in Consumers => t \in Timed /\ work = 0
  /\ MutexUnlock(t)
  /\ UNCHANGED <<work, made>>

Waiting(t) == WaitStep(t) /\ UNCHANGED <<work, made>>

Next == \E t \in Threads : Put(t) \/ Poke(t) \/ Enter(t) \/ Get(t) \/ Wait(t) \/ Exit(t) \/ Waiting(t)

Spec == Init /\ [][Next]_vars

(***************************************************************************)
(* The scheduler runs every thread that can run, and the mutex goes to a   *)
(* task that waits for it when it is given, so a thread that finds it free *)
(* again and again gets it.  Nothing makes a producer produce, a consumer  *)
(* come back for more, or a time limit pass.                               *)
(***************************************************************************)
Fairness ==
  \A t \in Threads :
    /\ WF_vars(Get(t) \/ Wait(t))
    /\ WF_vars(t \notin Consumers /\ Exit(t))
    /\ WF_vars((WaitUnlock(t) \/ WaitTake(t) \/ WaitRemove(t)) /\ UNCHANGED <<work, made>>)
    /\ SF_vars(WaitLock(t) /\ UNCHANGED <<work, made>>)

LiveSpec == Spec /\ Fairness
-----------------------------------------------------------------------------
(***************************************************************************)
(* No wakeup is lost: a consumer that is anywhere in pthread_cond_wait     *)
(* while there is work comes back with the mutex in its hands, unless the  *)
(* others take the work first.                                             *)
(***************************************************************************)
NoneLeftWaiting ==
  \A t \in Threads : (work > 0 /\ wpc[t] # "out") ~> (work = 0 \/ wpc[t] = "out")
=============================================================================
