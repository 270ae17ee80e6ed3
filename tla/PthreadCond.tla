---------------------------- MODULE PthreadCond ----------------------------
(***************************************************************************)
(* Condition variables of the pthread component (pthread_cond_var.c): one  *)
(* condition variable, used with one mutex by a set of threads.            *)
(*                                                                         *)
(* A waiter keeps a semaphore of its own, a local variable of its call of  *)
(* pthread_cond_timedwait, in a list protected by a short lock.  Every     *)
(* critical section of that lock is one step; between two of them, and     *)
(* around the caller's mutex, other threads may run.                       *)
(***************************************************************************)
EXTENDS Naturals, Sequences

CONSTANTS Threads,      \* the threads that use the condition variable
          Timed,        \* those that wait with a time limit
          None          \* no thread

ASSUME ThreadsAssumption == Timed \subseteq Threads /\ None \notin Threads

VARIABLES mutex,        \* the thread that holds the caller's mutex, or None
          waiters,      \* cond->waiter_list
          sem,          \* sem[t]: the count of t's wait_sem
          wpc           \* wpc[t]: where t is in pthread_cond_timedwait

condVars == <<mutex, waiters, sem, wpc>>

(***************************************************************************)
(* Where a thread is: "out" of the call, "queued" in the list and about to *)
(* unlock the mutex, "sleep" in xSemaphoreTake, "woken" when that returned *)
(* (with or without the semaphore), "relock" off the list and locking the  *)
(* mutex again.                                                            *)
(***************************************************************************)
Places == {"out", "queued", "sleep", "woken", "relock"}

CondInit ==
  /\ mutex = None
  /\ waiters = << >>
  /\ sem = [t \in Threads |-> 0]
  /\ wpc = [t \in Threads |-> "out"]

Goto(t, place) == wpc' = [wpc EXCEPT ![t] = place]

MutexLock(t) ==
  /\ wpc[t] = "out"
  /\ mutex = None
  /\ mutex' = t
  /\ UNCHANGED <<waiters, sem, wpc>>

MutexUnlock(t) ==
  /\ wpc[t] = "out"
  /\ mutex = t
  /\ mutex' = None
  /\ UNCHANGED <<waiters, sem, wpc>>

\* A time that has passed already returns before anything is touched.
WaitEnqueue(t) ==
  /\ wpc[t] = "out"
  /\ mutex = t
  /\ waiters' = Append(waiters, t)
  /\ sem' = [sem EXCEPT ![t] = 0]
  /\ Goto(t, "queued")
  /\ UNCHANGED mutex

WaitUnlock(t) ==
  /\ wpc[t] = "queued"
  /\ mutex' = None
  /\ Goto(t, "sleep")
  /\ UNCHANGED <<waiters, sem>>

\* A plausible slip: a waiter that was signalled returns without leaving the list.
WaitTakeMutant(t) ==
  /\ wpc[t] = "sleep"
  /\ sem[t] = 1
  /\ sem' = [sem EXCEPT ![t] = 0]
  /\ Goto(t, "relock")
  /\ UNCHANGED <<mutex, waiters>>

WaitTake(t) ==
  /\ wpc[t] = "sleep"
  /\ sem[t] = 1
  /\ sem' = [sem EXCEPT ![t] = 0]
  /\ Goto(t, "woken")
  /\ UNCHANGED <<mutex, waiters>>

\* A plausible slip: only a waiter that was signalled is taken off the list.
WaitTimeoutMutant(t) ==
  /\ t \in Timed
  /\ wpc[t] = "sleep"
  /\ sem[t] = 0
  /\ Goto(t, "relock")
  /\ UNCHANGED <<mutex, waiters, sem>>

WaitTimeout(t) ==
  /\ t \in Timed
  /\ wpc[t] = "sleep"
  /\ sem[t] = 0
  /\ Goto(t, "woken")
  /\ UNCHANGED <<mutex, waiters, sem>>

\* s without its i-th element.
Without(s, i) == [j \in 1 .. Len(s) - 1 |-> IF j < i THEN s[j] ELSE s[j + 1]]

WaitRemove(t) ==
  /\ wpc[t] = "woken"
  /\ \E i \in DOMAIN waiters : waiters[i] = t /\ waiters' = Without(waiters, i)
  /\ Goto(t, "relock")
  /\ UNCHANGED <<mutex, sem>>

WaitLock(t) ==
  /\ wpc[t] = "relock"
  /\ mutex = None
  /\ mutex' = t
  /\ Goto(t, "out")
  /\ UNCHANGED <<waiters, sem>>

\* xSemaphoreGive on semaphores that count to one.
Give(S) == sem' = [t \in Threads |-> IF t \in S THEN 1 ELSE sem[t]]

Listed == {waiters[i] : i \in DOMAIN waiters}

\* The first waiter is given its semaphore and stays in the list.
Signal ==
  /\ Give(IF waiters = << >> THEN {} ELSE {Head(waiters)})
  /\ UNCHANGED <<mutex, waiters, wpc>>

\* A plausible slip: the loop over the list ends after its first entry.
BroadcastMutant == Signal

Broadcast ==
  /\ Give(Listed)
  /\ UNCHANGED <<mutex, waiters, wpc>>

\* What runs inside the call.
WaitStep(t) == WaitUnlock(t) \/ WaitTake(t) \/ WaitTimeout(t) \/ WaitRemove(t) \/ WaitLock(t)
-----------------------------------------------------------------------------
CondTypeOK ==
  /\ mutex \in Threads \cup {None}
  /\ waiters \in Seq(Threads)
  /\ sem \in [Threads -> {0, 1}]
  /\ wpc \in [Threads -> Places]

(***************************************************************************)
(* A waiter's semaphore is on the stack of its call: what the list names   *)
(* is exactly the threads between the insertion and the removal, each      *)
(* once, so no signal or broadcast gives a semaphore that is gone.         *)
(***************************************************************************)
EntriesAlive ==
  /\ Listed = {t \in Threads : wpc[t] \in {"queued", "sleep", "woken"}}
  /\ \A i, j \in DOMAIN waiters : waiters[i] = waiters[j] => i = j

\* The threads blocked in the wait: asleep, or about to be, and not given the semaphore.
Blocked == {t \in Threads : wpc[t] \in {"queued", "sleep"} /\ sem[t] = 0}
=============================================================================
