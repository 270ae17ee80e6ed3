------------------------- MODULE PthreadWorkProofs -------------------------
(***************************************************************************)
(* Proofs about PthreadWork: condition variables with any set of waiters,  *)
(* any of them with a time limit, and any number of pieces of work.        *)
(***************************************************************************)
EXTENDS PthreadWork, Integers, TLAPS

WorkTypeOK == CondTypeOK /\ work \in Nat /\ made \in Nat

\* The mutex is held by threads outside pthread_cond_wait, or about to unlock it there.
Holder ==
  \A t \in Threads :
    /\ wpc[t] = "queued" => mutex = t
    /\ mutex = t => wpc[t] \in {"out", "queued"}

\* After a broadcast for every piece of work nobody is blocked while there is any.
AllWoken == (Notify = "broadcast" /\ work > 0) => Blocked = {}

WInv == WorkTypeOK /\ Holder /\ EntriesAlive /\ AllWoken
-----------------------------------------------------------------------------
\* Taking a thread that is listed once off the list takes off it alone.
LEMMA Removed ==
  ASSUME NEW s \in Seq(Threads), NEW k \in DOMAIN s,
         \A i, j \in DOMAIN s : s[i] = s[j] => i = j
  PROVE  LET r == Without(s, k) IN
         /\ r \in Seq(Threads)
         /\ {r[i] : i \in DOMAIN r} = {s[i] : i \in DOMAIN s} \ {s[k]}
         /\ \A i, j \in DOMAIN r : r[i] = r[j] => i = j
<1> DEFINE r == Without(s, k)
           from(j) == IF j < k THEN j ELSE j + 1
<1>1. /\ Len(s) \in Nat /\ DOMAIN s = 1 .. Len(s) /\ k \in 1 .. Len(s)
      /\ \A i \in 1 .. Len(s) : s[i] \in Threads
  OBVIOUS
<1>2. DOMAIN r = 1 .. Len(s) - 1 /\ \A j \in DOMAIN r : r[j] = s[from(j)]
  BY <1>1 DEF Without
<1>3. \A j \in DOMAIN r : from(j) \in DOMAIN s \ {k}
  BY <1>1, <1>2
<1>4. r \in Seq(Threads)
  <2>1. Len(s) - 1 \in Nat
    BY <1>1
  <2>2. r \in [1 .. Len(s) - 1 -> Threads]
    BY <1>1, <1>2, <1>3 DEF Without
  <2> QED BY <2>1, <2>2
<1>5. ASSUME NEW j \in DOMAIN r PROVE r[j] \in {s[i] : i \in DOMAIN s} \ {s[k]}
  BY <1>2, <1>3
<1>6. ASSUME NEW i \in DOMAIN s, i # k PROVE \E j \in DOMAIN r : r[j] = s[i]
  <2>1. CASE i < k
    <3>1. i \in DOMAIN r /\ from(i) = i
      BY <1>1, <1>2, <2>1
    <3> QED BY <1>2, <3>1
  <2>2. CASE i > k
    <3>1. i - 1 \in DOMAIN r /\ from(i - 1) = i
      BY <1>1, <1>2, <2>2
    <3> QED BY <1>2, <3>1
  <2> QED BY <1>1, <1>6, <2>1, <2>2
<1>7. {r[i] : i \in DOMAIN r} = {s[i] : i \in DOMAIN s} \ {s[k]}
  <2> HIDE DEF r
  <2> QED BY <1>5, <1>6
<1>8. \A i, j \in DOMAIN r : r[i] = r[j] => i = j
  BY <1>1, <1>2, <1>3
<1> QED BY <1>4, <1>7, <1>8

\* The steps of pthread_cond_timedwait.
LEMMA WaitingStep ==
  ASSUME WInv, NEW t \in Threads, Waiting(t)
  PROVE  WInv'
<1> USE DEF WInv
<1>1. work' = work /\ made' = made
  BY DEF Waiting
<1>2. SUFFICES CondTypeOK' /\ Holder' /\ EntriesAlive' /\ Blocked' \subseteq Blocked
  BY <1>1 DEF WorkTypeOK, AllWoken
<1> USE DEF WorkTypeOK
<1>3. CASE WaitUnlock(t)
  BY <1>3, ThreadsAssumption
     DEF WaitUnlock, Goto, CondTypeOK, Places, Holder, EntriesAlive, Listed, Blocked
<1>4. CASE WaitTake(t)
  BY <1>4 DEF WaitTake, Goto, CondTypeOK, Places, Holder, EntriesAlive, Listed, Blocked
<1>5. CASE WaitTimeout(t)
  BY <1>5 DEF WaitTimeout, Goto, CondTypeOK, Places, Holder, EntriesAlive, Listed, Blocked
<1>6. CASE WaitRemove(t)
  <2>1. PICK k \in DOMAIN waiters : waiters[k] = t /\ waiters' = Without(waiters, k)
    BY <1>6 DEF WaitRemove
  <2>2. /\ waiters' \in Seq(Threads)
        /\ Listed' = Listed \ {t}
        /\ \A i, j \in DOMAIN waiters' : waiters'[i] = waiters'[j] => i = j
    <3>1. waiters \in Seq(Threads) /\ \A i, j \in DOMAIN waiters : waiters[i] = waiters[j] => i = j
      BY DEF CondTypeOK, EntriesAlive
    <3>2. /\ Without(waiters, k) \in Seq(Threads)
          /\ {Without(waiters, k)[i] : i \in DOMAIN Without(waiters, k)} = Listed \ {waiters[k]}
          /\ \A i, j \in DOMAIN Without(waiters, k) :
                Without(waiters, k)[i] = Without(waiters, k)[j] => i = j
      BY <3>1, Removed DEF Listed
    <3>3. Listed' = {waiters'[i] : i \in DOMAIN waiters'}
      BY DEF Listed
    <3> QED BY <2>1, <3>2, <3>3
  <2>3. CondTypeOK' /\ Holder' /\ Blocked' \subseteq Blocked
    BY <1>6, <2>2 DEF WaitRemove, Goto, CondTypeOK, Places, Holder, Blocked
  <2>4. EntriesAlive'
    BY <1>6, <2>2 DEF EntriesAlive, WaitRemove, Goto, CondTypeOK
  <2> QED BY <2>3, <2>4
<1>7. CASE WaitLock(t)
  BY <1>7, ThreadsAssumption
     DEF WaitLock, Goto, CondTypeOK, Places, Holder, EntriesAlive, Listed, Blocked
<1> QED
  BY <1>3, <1>4, <1>5, <1>6, <1>7 DEF Waiting, WaitStep

\* A consumer that finds no work joins the list at its end, still with the mutex.
LEMMA WaitCallStep ==
  ASSUME WInv, NEW t \in Threads, Wait(t)
  PROVE  WInv'
<1> USE DEF WInv, WorkTypeOK
<1>1. /\ wpc[t] = "out" /\ mutex = t /\ mutex' = t /\ work = 0
      /\ waiters' = Append(waiters, t) /\ work' = work /\ made' = made
      /\ sem' = [sem EXCEPT ![t] = 0] /\ wpc' = [wpc EXCEPT ![t] = "queued"]
  BY DEF Wait, WaitEnqueue, Goto
<1>2. /\ Len(waiters) \in Nat /\ DOMAIN waiters = 1 .. Len(waiters)
      /\ \A i \in DOMAIN waiters : waiters[i] \in Threads /\ waiters[i] # t
  BY <1>1 DEF CondTypeOK, EntriesAlive, Listed
<1>3. /\ waiters' \in Seq(Threads) /\ DOMAIN waiters' = 1 .. Len(waiters) + 1
      /\ waiters'[Len(waiters) + 1] = t
      /\ \A i \in DOMAIN waiters : waiters'[i] = waiters[i]
  BY <1>1, <1>2 DEF CondTypeOK
<1>4. WorkTypeOK' /\ Holder' /\ AllWoken'
  BY <1>1, <1>3 DEF CondTypeOK, Places, Holder, AllWoken
<1>5. Listed' = Listed \cup {t}
  BY <1>2, <1>3 DEF Listed
<1>6. \A i, j \in DOMAIN waiters' : waiters'[i] = waiters'[j] => i = j
  BY <1>2, <1>3 DEF EntriesAlive
<1>7. EntriesAlive'
  BY <1>1, <1>5, <1>6 DEF EntriesAlive, CondTypeOK
<1> QED BY <1>4, <1>7

\* What is notified is listed: semaphores of calls that have not returned.
LEMMA NotifyStep ==
  ASSUME WInv, NEW t \in Threads, Put(t) \/ Poke(t)
  PROVE  WInv'
<1> USE DEF WInv, WorkTypeOK
<1>1. /\ UNCHANGED <<mutex, waiters, wpc>>
      /\ work' \in Nat /\ made' \in Nat
      /\ work' = work \/ (Put(t) /\ work' = work + 1)
  BY DEF Put, Poke, Signal, Broadcast
<1>2. PICK S : Give(S)
  BY DEF Put, Poke, Signal, Broadcast
<1>3. WorkTypeOK' /\ Holder' /\ EntriesAlive' /\ Blocked' \subseteq Blocked
  BY <1>1, <1>2 DEF Give, CondTypeOK, Holder, EntriesAlive, Listed, Blocked
<1>4. AllWoken'
  <2>1. CASE Put(t) /\ Notify = "broadcast"
    <3>1. Give(Listed)
      BY <2>1 DEF Put, Broadcast
    <3>2. Blocked' = {}
      BY <1>1, <3>1 DEF Give, Blocked, EntriesAlive
    <3> QED BY <3>2 DEF AllWoken
  <2>2. CASE Put(t) /\ Notify # "broadcast"
    BY <2>2 DEF AllWoken
  <2>3. CASE Poke(t)
    <3>1. work' = work
      BY <2>3 DEF Poke
    <3> QED BY <1>3, <3>1 DEF AllWoken
  <2> QED BY <2>1, <2>2, <2>3
<1> QED BY <1>3, <1>4

\* The list and the semaphores are left alone.
LEMMA MutexStep ==
  ASSUME WInv, NEW t \in Threads, Enter(t) \/ Get(t) \/ Exit(t)
  PROVE  WInv'
<1> USE DEF WInv, WorkTypeOK
<1>1. /\ UNCHANGED <<waiters, sem, wpc>> /\ made' = made /\ wpc[t] = "out"
      /\ work' = work \/ (work > 0 /\ work' = work - 1)
      /\ \/ mutex = None /\ mutex' = t
         \/ mutex = t /\ mutex' = None
  BY DEF Enter, Get, Exit, MutexLock, MutexUnlock
<1>2. CondTypeOK' /\ EntriesAlive' /\ Blocked' = Blocked
  BY <1>1 DEF CondTypeOK, EntriesAlive, Listed, Blocked
<1>3. Holder'
  BY <1>1, ThreadsAssumption DEF Holder
<1>4. work' \in Nat /\ (work' > 0 => work > 0)
  BY <1>1
<1> QED BY <1>1, <1>2, <1>3, <1>4 DEF AllWoken
-----------------------------------------------------------------------------
(***************************************************************************)
(* The inductive invariant.  EntriesAlive needs Holder: WaitUnlock gives   *)
(* the mutex away, which must be the waiter's own; AllWoken needs          *)
(* EntriesAlive: a broadcast reaches those who are in the list.            *)
(***************************************************************************)
THEOREM WorkInductive == Spec => []WInv
<1>1. Init => WInv
  BY ThreadsAssumption
     DEF Init, CondInit, WInv, WorkTypeOK, CondTypeOK, Places, Holder, EntriesAlive, Listed,
         AllWoken
<1>2. WInv /\ [Next]_vars => WInv'
  <2>1. SUFFICES ASSUME WInv, [Next]_vars PROVE WInv'
    OBVIOUS
  <2>2. CASE UNCHANGED vars
    BY <2>1, <2>2 DEF vars, WInv, WorkTypeOK, CondTypeOK, Holder, EntriesAlive, Listed,
                      AllWoken, Blocked
  <2>3. ASSUME NEW t \in Threads,
               Put(t) \/ Poke(t) \/ Enter(t) \/ Get(t) \/ Wait(t) \/ Exit(t) \/ Waiting(t)
        PROVE  WInv'
    BY <2>1, <2>3, NotifyStep, MutexStep, WaitCallStep, WaitingStep
  <2> QED BY <2>1, <2>2, <2>3 DEF Next
<1> QED BY <1>1, <1>2, PTL DEF Spec

(***************************************************************************)
(* pthread_cond_signal and pthread_cond_broadcast never give the semaphore *)
(* of a call of pthread_cond_timedwait that has returned, whether it was   *)
(* signalled or its time ran out.                                          *)
(***************************************************************************)
THEOREM WaitersOutliveList == Spec => []EntriesAlive
BY WorkInductive, PTL DEF WInv

(***************************************************************************)
(* A broadcast is not lost to a waiter that has unlocked the mutex and is  *)
(* not asleep yet, or to one whose time runs out: when every piece of work *)
(* is announced with pthread_cond_broadcast, no thread is blocked in       *)
(* pthread_cond_timedwait while there is work.                             *)
(***************************************************************************)
THEOREM BroadcastReachesAll ==
  ASSUME Notify = "broadcast"
  PROVE  Spec => [](work > 0 => Blocked = {})
<1>1. WInv => (work > 0 => Blocked = {})
  BY DEF WInv, AllWoken
<1> QED BY <1>1, WorkInductive, PTL
=============================================================================
