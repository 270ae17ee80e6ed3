--------------------------- MODULE PthreadRwlock ---------------------------
(***************************************************************************)
(* Read/write locks of the pthread component (pthread_rwlock.c): one lock, *)
(* built on one internal mutex and one condition variable, whose steps are *)
(* those of PthreadCond.                                                   *)
(*                                                                         *)
(* The callers obey the standard: a thread may hold several read locks at  *)
(* a time, asks for the write lock only when it holds nothing, and unlocks *)
(* only what it holds.  readers and writers record what the callers hold;  *)
(* the code only has its counters.                                         *)
(***************************************************************************)
EXTENDS PthreadCond, Integers, FiniteSets

CONSTANTS Depth,        \* bound: read locks one thread holds at a time
          Ops           \* the functions the threads call

LockFunctions == {"rdlock", "tryrdlock", "wrlock", "trywrlock", "unlock", "destroy"}

ASSUME RwAssumption ==
  /\ IsFiniteSet(Threads)
  /\ Timed = {}
  /\ Depth \in Nat
  /\ Ops \subseteq LockFunctions

VARIABLES active_readers, active_writers, waiting_writers,  \* of esp_pthread_rwlock_t
          freed,        \* the lock has been destroyed
          readers,      \* <<t, i>>: t holds its i-th read lock
          writers,      \* the threads that hold the write lock
          op,           \* op[t]: the function t calls, or "none"
          pc            \* pc[t]: where t is in it

counters == <<active_readers, active_writers, waiting_writers>>
held == <<readers, writers>>
vars == <<condVars, counters, freed, held, op, pc>>

(***************************************************************************)
(* "idle" between calls, "lock" about to lock the mutex, "body" with the   *)
(* mutex, "wait" in the loop around pthread_cond_wait (wpc says where in   *)
(* that call), "leave" about to unlock the mutex and return.               *)
(***************************************************************************)
Stages == {"idle", "lock", "body", "wait", "leave"}

Init ==
  /\ CondInit
  /\ active_readers = 0 /\ active_writers = 0 /\ waiting_writers = 0
  /\ freed = FALSE
  /\ readers = {} /\ writers = {}
  /\ op = [t \in Threads |-> "none"]
  /\ pc = [t \in Threads |-> "idle"]

\* The value an int8_t holds after x is assigned to it.
Int8(x) == ((x + 128) % 256) - 128

Stage(t, s) == pc' = [pc EXCEPT ![t] = s]

Return(t) == Stage(t, "idle") /\ op' = [op EXCEPT ![t] = "none"]

Reads(t) == {i \in 1 .. Depth : <<t, i>> \in readers}

Holds(t) == t \in writers \/ Reads(t) # {}

\* What a correct caller may call.
MayCall(t, o) ==
  CASE o \in {"rdlock", "tryrdlock"} -> t \notin writers /\ Reads(t) # 1 .. Depth
    [] o \in {"wrlock", "trywrlock", "destroy"} -> ~Holds(t)
    [] o = "unlock" -> Holds(t)

Call(t, o) ==
  /\ pc[t] = "idle" /\ ~freed
  /\ MayCall(t, o)
  /\ op' = [op EXCEPT ![t] = o]
  /\ Stage(t, "lock")
  /\ UNCHANGED <<condVars, counters, freed, held>>

\* pthread_mutex_lock, and pthread_mutex_trylock when the mutex is free.
Lock(t) ==
  /\ pc[t] = "lock" /\ ~freed
  /\ MutexLock(t)
  /\ Stage(t, "body")
  /\ UNCHANGED <<counters, freed, held, op>>

\* pthread_mutex_trylock when it is not: the call returns EBUSY.
TryBusy(t) ==
  /\ pc[t] = "lock" /\ ~freed
  /\ op[t] \in {"tryrdlock", "trywrlock"}
  /\ mutex # None
  /\ Return(t)
  /\ UNCHANGED <<condVars, counters, freed, held>>

Leave(t) ==
  /\ pc[t] = "leave"
  /\ MutexUnlock(t)
  /\ Return(t)
  /\ UNCHANGED <<counters, freed, held>>

\* A step of pthread_cond_wait; when it returns the loop's condition is read again.
CondStep(t) ==
  /\ pc[t] = "wait" /\ ~freed
  /\ WaitStep(t)
  /\ UNCHANGED <<counters, freed, held, op, pc>>

\* active_readers++, and the caller has its next read lock.
GetRead(t) ==
  /\ active_readers' = Int8(active_readers + 1)
  /\ \E i \in 1 .. Depth :
       /\ <<t, i>> \notin readers
       /\ i > 1 => <<t, i - 1>> \in readers
       /\ readers' = readers \cup {<<t, i>>}
  /\ Stage(t, "leave")
  /\ UNCHANGED <<condVars, active_writers, waiting_writers, writers>>

GetWrite(t, waiting) ==
  /\ active_writers' = active_writers + 1
  /\ waiting_writers' = waiting
  /\ writers' = writers \cup {t}
  /\ Stage(t, "leave")
  /\ UNCHANGED <<condVars, active_readers, readers>>

StartWait(t, waiting) ==
  /\ WaitEnqueue(t)
  /\ waiting_writers' = waiting
  /\ Stage(t, "wait")
  /\ UNCHANGED <<active_readers, active_writers, held>>

\* A new reader passes the waiting writers.
RdLock(t) ==
  /\ pc[t] = "body" /\ op[t] = "rdlock"
  /\ \/ active_writers = 0 /\ GetRead(t)
     \/ active_writers # 0 /\ StartWait(t, waiting_writers)
  /\ UNCHANGED <<freed, op>>

\* A reader that has waited lets them go first.
RdAgain(t) ==
  /\ pc[t] = "wait" /\ wpc[t] = "out" /\ op[t] = "rdlock"
  /\ IF active_writers = 0 /\ waiting_writers = 0
       THEN GetRead(t)
       ELSE StartWait(t, waiting_writers)
  /\ UNCHANGED <<freed, op>>

TryRdLock(t) ==
  /\ pc[t] = "body" /\ op[t] = "tryrdlock"
  /\ \/ active_writers = 0 /\ GetRead(t)
     \/ /\ active_writers # 0
        /\ Stage(t, "leave")
        /\ UNCHANGED <<condVars, counters, held>>
  /\ UNCHANGED <<freed, op>>

\* A plausible slip: off by one.
TakenMutant == active_readers > 1 \/ active_writers > 0

Taken == active_readers > 0 \/ active_writers > 0

\* A plausible slip: the wait counted only when there is one, and uncounted always.
WrLockMutant(t) ==
  /\ pc[t] = "body" /\ op[t] = "wrlock"
  /\ IF Taken THEN StartWait(t, waiting_writers + 1) ELSE GetWrite(t, waiting_writers - 1)
  /\ UNCHANGED <<freed, op>>

WrLock(t) ==
  /\ pc[t] = "body" /\ op[t] = "wrlock"
  /\ IF Taken THEN StartWait(t, waiting_writers + 1) ELSE GetWrite(t, waiting_writers)
  /\ UNCHANGED <<freed, op>>

WrAgain(t) ==
  /\ pc[t] = "wait" /\ wpc[t] = "out" /\ op[t] = "wrlock"
  /\ IF Taken THEN StartWait(t, waiting_writers) ELSE GetWrite(t, waiting_writers - 1)
  /\ UNCHANGED <<freed, op>>

TryWrLock(t) ==
  /\ pc[t] = "body" /\ op[t] = "trywrlock"
  /\ IF Taken \/ waiting_writers > 0
       THEN /\ Stage(t, "leave")
            /\ UNCHANGED <<condVars, counters, held>>
       ELSE GetWrite(t, waiting_writers)
  /\ UNCHANGED <<freed, op>>

\* What the caller gives up: the write lock, or its last read lock.
GiveUp(t) ==
  \/ t \in writers /\ writers' = writers \ {t} /\ UNCHANGED readers
  \/ \E i \in 1 .. Depth :
       /\ <<t, i>> \in readers
       /\ <<t, i + 1>> \notin readers
       /\ readers' = readers \ {<<t, i>>}
       /\ UNCHANGED writers

\* A plausible slip: a writer that leaves wakes the others only if writers wait.
UnlockMutant(t) ==
  /\ pc[t] = "body" /\ op[t] = "unlock"
  /\ \/ /\ active_readers > 0
        /\ active_readers' = active_readers - 1
        /\ IF active_readers = 1 THEN Broadcast ELSE UNCHANGED condVars
        /\ UNCHANGED active_writers
     \/ /\ ~(active_readers > 0)
        /\ active_writers' = 0
        /\ IF waiting_writers > 0 THEN Broadcast ELSE UNCHANGED condVars
        /\ UNCHANGED active_readers
  /\ GiveUp(t)
  /\ Stage(t, "leave")
  /\ UNCHANGED <<waiting_writers, freed, op>>

\* The code takes the caller for a reader when there are readers.
Unlock(t) ==
  /\ pc[t] = "body" /\ op[t] = "unlock"
  /\ \/ /\ active_readers > 0
        /\ active_readers' = active_readers - 1
        /\ IF active_readers = 1 THEN Broadcast ELSE UNCHANGED condVars
        /\ UNCHANGED active_writers
     \/ /\ ~(active_readers > 0)
        /\ active_writers' = 0
        /\ Broadcast
        /\ UNCHANGED active_readers
  /\ GiveUp(t)
  /\ Stage(t, "leave")
  /\ UNCHANGED <<waiting_writers, freed, op>>

\* A plausible slip: the waiting writers are forgotten.
BusyMutant == active_readers # 0 \/ active_writers > 0

Busy == active_readers # 0 \/ active_writers > 0 \/ waiting_writers > 0

\* The condition variable, the mutex and the lock are freed, whether they are busy or not.
Destroy(t) ==
  /\ pc[t] = "body" /\ op[t] = "destroy"
  /\ freed' = ~Busy
  /\ Stage(t, "leave")
  /\ UNCHANGED <<condVars, counters, held, op>>

Body(t) ==
  \/ RdLock(t) \/ RdAgain(t) \/ TryRdLock(t)
  \/ WrLock(t) \/ WrAgain(t) \/ TryWrLock(t)
  \/ Unlock(t) \/ Destroy(t)

NewCall == \E t \in Threads : \E o \in Ops \ {"unlock"} : Call(t, o)

Release(t) == "unlock" \in Ops /\ Call(t, "unlock")

Next ==
  \/ NewCall
  \/ \E t \in Threads :
       Release(t) \/ Lock(t) \/ TryBusy(t) \/ Body(t) \/ CondStep(t) \/ Leave(t)

Spec == Init /\ [][Next]_vars

(***************************************************************************)
(* The scheduler runs every thread that can run.  Whoever holds the lock   *)
(* unlocks it in the end.  The mutex, a FreeRTOS mutex, goes to a waiting  *)
(* task when it is given, so a thread that finds it free again and again   *)
(* gets it.                                                                *)
(***************************************************************************)
Locking(t) == Lock(t) \/ (CondStep(t) /\ wpc[t] = "relock")

Running(t) == Release(t) \/ TryBusy(t) \/ Body(t) \/ (CondStep(t) /\ wpc[t] # "relock") \/ Leave(t)

Fairness == \A t \in Threads : SF_vars(Locking(t)) /\ WF_vars(Running(t))

LiveSpec == Spec /\ Fairness
-----------------------------------------------------------------------------
TypeOK ==
  /\ CondTypeOK
  /\ active_readers \in -128 .. 127
  /\ active_writers \in Nat
  /\ waiting_writers \in Nat
  /\ freed \in BOOLEAN
  /\ readers \subseteq Threads \X (1 .. Depth)
  /\ writers \subseteq Threads
  /\ op \in [Threads -> LockFunctions \cup {"none"}]
  /\ pc \in [Threads -> Stages]

(***************************************************************************)
(* The lock excludes: no two threads hold the write lock, and nobody holds *)
(* a read lock while one does.                                             *)
(***************************************************************************)
Exclusive ==
  /\ \A t, u \in writers : t = u
  /\ writers # {} => readers = {}

(***************************************************************************)
(* No wakeup is lost: a thread that sleeps in the lock and has not been    *)
(* woken has a reason to.  A writer sleeps while somebody holds the lock,  *)
(* a reader while a writer holds it or waits for it.                       *)
(***************************************************************************)
NoLostWakeup ==
  \A t \in Blocked :
    /\ op[t] = "wrlock" => readers # {} \/ writers # {}
    /\ op[t] = "rdlock" => writers # {} \/ \E u \in Threads : pc[u] = "wait" /\ op[u] = "wrlock"

(***************************************************************************)
(* pthread_rwlock_destroy does not free the lock under a writer that waits *)
(* for it, wherever in the wait that writer is.  (A reader that waits is   *)
(* not counted and has no such protection.)                                *)
(***************************************************************************)
DestroySafe == freed => \A t \in Threads : ~(pc[t] = "wait" /\ op[t] = "wrlock")

(***************************************************************************)
(* Once no new lock is asked for, every call returns: whatever the threads *)
(* wait for and whoever is preferred, nobody is stuck in the lock, unless  *)
(* it is destroyed.                                                        *)
(***************************************************************************)
Returns ==
  \A t \in Threads : <>[][~NewCall]_vars => (pc[t] # "idle" ~> pc[t] = "idle" \/ freed)
=============================================================================
