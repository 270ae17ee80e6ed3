------------------------ MODULE PthreadRwlockProofs ------------------------
(***************************************************************************)
(* Proofs about PthreadRwlock, for any finite set of threads that together *)
(* hold at most 127 read locks.                                            *)
(***************************************************************************)
EXTENDS PthreadRwlock, FiniteSetTheorems, TLAPS

\* The read locks there can be are as many as an int8_t can count.
Countable == Cardinality(Threads) * Depth <= 127

WaitingWriters == {t \in Threads : pc[t] = "wait" /\ op[t] = "wrlock"}

\* Where a thread is when it holds the mutex.
Inside(t) ==
  \/ pc[t] \in {"body", "leave"}
  \/ pc[t] = "wait" /\ wpc[t] \in {"out", "queued"}

\* The mutex is held by the thread that is inside, and only the loops wait.
Protocol ==
  \A t \in Threads :
    /\ mutex = t <=> Inside(t)
    /\ wpc[t] # "out" => pc[t] = "wait"

\* The counters say what is held and who waits.
Counted ==
  /\ active_readers = Cardinality(readers)
  /\ active_writers = Cardinality(writers)
  /\ waiting_writers = Cardinality(WaitingWriters)

IInv == TypeOK /\ Protocol /\ EntriesAlive /\ Counted /\ Exclusive /\ NoLostWakeup
-----------------------------------------------------------------------------
(***************************************************************************)
(* Counting.                                                               *)
(***************************************************************************)
\* The sets the code counts are finite, and the read locks fit in an int8_t.
LEMMA Finite ==
  ASSUME TypeOK
  PROVE  /\ IsFiniteSet(readers) /\ Cardinality(readers) \in Nat
         /\ IsFiniteSet(writers) /\ Cardinality(writers) \in Nat
         /\ IsFiniteSet(WaitingWriters) /\ Cardinality(WaitingWriters) \in Nat
         /\ readers = {} <=> Cardinality(readers) = 0
         /\ writers = {} <=> Cardinality(writers) = 0
         /\ WaitingWriters = {} <=> Cardinality(WaitingWriters) = 0
<1>1. IsFiniteSet(Threads)
  BY RwAssumption
<1>2. IsFiniteSet(1 .. Depth)
  BY FS_Interval, RwAssumption
<1>3. IsFiniteSet(Threads \X (1 .. Depth))
  BY <1>1, <1>2, FS_Product
<1>4. IsFiniteSet(readers)
  BY <1>3, FS_Subset DEF TypeOK
<1>5. IsFiniteSet(writers)
  BY <1>1, FS_Subset DEF TypeOK
<1>6. IsFiniteSet(WaitingWriters)
  BY <1>1, FS_Subset DEF WaitingWriters
<1> QED
  BY <1>4, <1>5, <1>6, FS_CardinalityType, FS_EmptySet

\* No more read locks than the constants allow.
LEMMA Bounded ==
  ASSUME Countable, NEW R \in SUBSET (Threads \X (1 .. Depth))
  PROVE  IsFiniteSet(R) /\ Cardinality(R) \in 0 .. 127
<1>1. IsFiniteSet(Threads) /\ Depth \in Nat
  BY RwAssumption
<1>2. IsFiniteSet(1 .. Depth) /\ Cardinality(1 .. Depth) = Depth
  BY <1>1, FS_Interval
<1>3. /\ IsFiniteSet(Threads \X (1 .. Depth))
      /\ Cardinality(Threads \X (1 .. Depth)) = Cardinality(Threads) * Depth
  BY <1>1, <1>2, FS_Product
<1>4. IsFiniteSet(R) /\ Cardinality(R) <= Cardinality(Threads \X (1 .. Depth))
  BY <1>3, FS_Subset
<1>5. Cardinality(R) \in Nat
  BY <1>4, FS_CardinalityType
<1> QED
  <2> DEFINE c == Cardinality(Threads) * Depth
  <2>1. c <= 127
    BY DEF Countable
  <2>2. c \in Nat
    BY <1>3, FS_CardinalityType
  <2>3. Cardinality(R) <= c
    BY <1>3, <1>4
  <2> HIDE DEF c
  <2> QED BY <1>4, <1>5, <2>1, <2>2, <2>3

\* A count an int8_t can hold is stored as it is.
LEMMA Fits ==
  ASSUME NEW x \in 0 .. 127
  PROVE  Int8(x) = x
BY DEF Int8
-----------------------------------------------------------------------------
(***************************************************************************)
(* The pieces the functions are made of.  Each is a step of a thread that  *)
(* is inside and not in pthread_cond_wait.                                 *)
(***************************************************************************)
\* A thread takes a read lock while nobody holds the write lock.
LEMMA GetReadStep ==
  ASSUME Countable, IInv, NEW t \in Threads, Inside(t), wpc[t] = "out",
         op[t] \in {"rdlock", "tryrdlock"}, active_writers = 0,
         GetRead(t), UNCHANGED <<freed, op>>
  PROVE  IInv'
<1> USE DEF IInv
<1>1. PICK i \in 1 .. Depth : <<t, i>> \notin readers /\ readers' = readers \cup {<<t, i>>}
  BY DEF GetRead
<1>2. readers' \in SUBSET (Threads \X (1 .. Depth))
  BY <1>1 DEF TypeOK
<1>3. active_readers' = Cardinality(readers')
  <2>1. IsFiniteSet(readers) /\ Cardinality(readers) \in Nat
    BY Finite
  <2>2. Cardinality(readers') = Cardinality(readers) + 1
    BY <1>1, <2>1, FS_AddElement
  <2>3. Cardinality(readers') \in 0 .. 127
    BY <1>2, Bounded
  <2>4. active_readers' = Int8(Cardinality(readers'))
    BY <2>2 DEF GetRead, Counted
  <2> QED
    BY <2>3, <2>4, Fits
<1>4. active_readers' \in -128 .. 127
  BY <1>2, <1>3, Bounded
<1>5. WaitingWriters' = WaitingWriters
  BY DEF WaitingWriters, GetRead, Stage, TypeOK
<1>6. writers = {}
  BY Finite DEF Counted
<1>7. TypeOK'
  BY <1>2, <1>4 DEF TypeOK, CondTypeOK, GetRead, condVars, Stage, Stages
<1>8. Protocol'
  BY DEF Protocol, Inside, GetRead, condVars, Stage, TypeOK
<1>9. EntriesAlive'
  BY DEF EntriesAlive, Listed, GetRead, condVars
<1>10. Counted'
  BY <1>3, <1>5 DEF Counted, GetRead
<1>11. Exclusive'
  BY <1>6 DEF Exclusive, GetRead
<1>12. NoLostWakeup'
  BY <1>1, <1>5 DEF NoLostWakeup, Blocked, WaitingWriters, GetRead, condVars
<1> QED
  BY <1>7, <1>8, <1>9, <1>10, <1>11, <1>12

\* A thread takes the write lock while nobody holds anything.
LEMMA GetWriteStep ==
  ASSUME IInv, NEW t \in Threads, Inside(t), wpc[t] = "out", ~Taken,
         NEW n \in Nat, n = Cardinality(WaitingWriters \ {t}),
         GetWrite(t, n), UNCHANGED <<freed, op>>
  PROVE  IInv'
<1> USE DEF IInv
<1>1. readers = {} /\ writers = {}
  BY Finite DEF Counted, Taken
<1>2. writers' = {t} /\ readers' = {}
  BY <1>1 DEF GetWrite
<1>3. active_writers' = 1 /\ Cardinality(writers') = 1
  <2>1. active_writers = 0
    BY <1>1, Finite DEF Counted
  <2>2. Cardinality({t}) = 1
    BY FS_Singleton
  <2> QED
    BY <1>2, <2>1, <2>2 DEF GetWrite
<1>4. WaitingWriters' = WaitingWriters \ {t}
  BY DEF WaitingWriters, GetWrite, Stage, TypeOK
<1>5. TypeOK'
  BY <1>3 DEF TypeOK, CondTypeOK, GetWrite, condVars, Stage, Stages
<1>6. Protocol'
  BY DEF Protocol, Inside, GetWrite, condVars, Stage, TypeOK
<1>7. EntriesAlive'
  BY DEF EntriesAlive, Listed, GetWrite, condVars
<1>8. Counted'
  BY <1>2, <1>3, <1>4 DEF Counted, GetWrite
<1>9. Exclusive'
  BY <1>2 DEF Exclusive
<1>10. NoLostWakeup'
  BY <1>2 DEF NoLostWakeup
<1> QED
  BY <1>5, <1>6, <1>7, <1>8, <1>9, <1>10

\* A thread that has a reason to wait joins the list of waiters.
LEMMA StartWaitStep ==
  ASSUME IInv, NEW t \in Threads, Inside(t), wpc[t] = "out",
         NEW n \in Nat,
         n = Cardinality(WaitingWriters \cup (IF op[t] = "wrlock" THEN {t} ELSE {})),
         op[t] = "wrlock" => readers # {} \/ writers # {},
         op[t] = "rdlock" => writers # {} \/ WaitingWriters # {},
         op[t] \in {"rdlock", "wrlock"},
         StartWait(t, n), UNCHANGED <<freed, op>>
  PROVE  IInv'
<1> USE DEF IInv
<1>1. WaitingWriters' = WaitingWriters \cup (IF op[t] = "wrlock" THEN {t} ELSE {})
  BY DEF WaitingWriters, StartWait, Stage, TypeOK
<1>2. /\ waiters' = Append(waiters, t) /\ mutex' = mutex
      /\ sem' = [sem EXCEPT ![t] = 0] /\ wpc' = [wpc EXCEPT ![t] = "queued"]
  BY DEF StartWait, WaitEnqueue, Goto
<1>3. TypeOK'
  BY <1>2 DEF TypeOK, CondTypeOK, StartWait, Stage, Stages, Places, held
<1>4. Protocol'
  BY <1>2 DEF Protocol, Inside, StartWait, Stage, TypeOK, CondTypeOK
<1>5. EntriesAlive'
  <2>1. t \notin Listed
    BY DEF EntriesAlive
  <2>2. /\ DOMAIN waiters' = DOMAIN waiters \cup {Len(waiters) + 1}
        /\ Len(waiters) + 1 \notin DOMAIN waiters
        /\ waiters'[Len(waiters) + 1] = t
        /\ \A i \in DOMAIN waiters : waiters'[i] = waiters[i]
    BY <1>2 DEF TypeOK, CondTypeOK
  <2>3. Listed' = Listed \cup {t}
    BY <2>2 DEF Listed
  <2>4. \A i, j \in DOMAIN waiters' : waiters'[i] = waiters'[j] => i = j
    BY <2>1, <2>2 DEF EntriesAlive, Listed
  <2> QED
    BY <1>2, <2>3, <2>4 DEF EntriesAlive, TypeOK, CondTypeOK
<1>6. Counted'
  BY <1>1 DEF Counted, StartWait, held
<1>7. Exclusive'
  BY DEF Exclusive, StartWait, held
<1>8. NoLostWakeup'
  <2>1. Blocked' \subseteq Blocked \cup {t}
    BY <1>2 DEF Blocked, TypeOK, CondTypeOK
  <2>2. readers' = readers /\ writers' = writers /\ op' = op
    BY DEF StartWait, held
  <2>3. WaitingWriters \subseteq WaitingWriters'
    BY <1>1
  <2> QED
    BY <2>1, <2>2, <2>3 DEF NoLostWakeup, WaitingWriters
<1> QED
  BY <1>3, <1>4, <1>5, <1>6, <1>7, <1>8
-----------------------------------------------------------------------------
(***************************************************************************)
(* The steps of a thread.                                                  *)
(***************************************************************************)
\* Steps that move the mutex and change no counter and nothing that is held.
LEMMA CallStep ==
  ASSUME IInv, NEW t \in Threads, NEW o \in LockFunctions, Call(t, o)
  PROVE  IInv'
<1> USE DEF IInv
<1>1. wpc[t] = "out" /\ pc[t] = "idle"
  BY DEF Call, Protocol
<1>2. WaitingWriters' = WaitingWriters
  BY DEF WaitingWriters, Call, Stage, TypeOK
<1>3. TypeOK'
  BY DEF TypeOK, CondTypeOK, Call, condVars, counters, held, Stage, Stages
<1>4. Protocol' /\ EntriesAlive'
  BY <1>1 DEF Protocol, Inside, EntriesAlive, Listed, Call, condVars, Stage, TypeOK
<1>5. Counted' /\ Exclusive'
  BY <1>2 DEF Counted, Exclusive, Call, counters, held
<1>6. NoLostWakeup'
  <2>1. Blocked' = Blocked /\ t \notin Blocked
    BY <1>1 DEF Blocked, Call, condVars
  <2>2. \A u \in Blocked : op'[u] = op[u]
    BY <2>1 DEF Call, TypeOK
  <2> QED
    BY <1>2, <2>1, <2>2 DEF NoLostWakeup, WaitingWriters, Call, held
<1> QED
  BY <1>3, <1>4, <1>5, <1>6

LEMMA LockStep ==
  ASSUME IInv, NEW t \in Threads, Lock(t)
  PROVE  IInv'
<1> USE DEF IInv
<1>1. WaitingWriters' = WaitingWriters
  BY DEF WaitingWriters, Lock, Stage, TypeOK
<1>2. TypeOK'
  BY DEF TypeOK, CondTypeOK, Lock, MutexLock, counters, held, Stage, Stages
<1>3. Protocol'
  BY ThreadsAssumption DEF Protocol, Inside, Lock, MutexLock, Stage, TypeOK
<1>4. EntriesAlive'
  BY DEF EntriesAlive, Listed, Lock, MutexLock
<1>5. Counted' /\ Exclusive'
  BY <1>1 DEF Counted, Exclusive, Lock, counters, held
<1>6. NoLostWakeup'
  BY <1>1 DEF NoLostWakeup, Blocked, WaitingWriters, Lock, MutexLock, held
<1> QED
  BY <1>2, <1>3, <1>4, <1>5, <1>6

LEMMA ReturnStep ==
  ASSUME IInv, NEW t \in Threads, TryBusy(t) \/ Leave(t)
  PROVE  IInv'
<1> USE DEF IInv
<1>1. wpc[t] = "out"
  BY DEF TryBusy, Leave, Protocol
<1>2. WaitingWriters' = WaitingWriters
  BY DEF WaitingWriters, TryBusy, Leave, Return, Stage, TypeOK
<1>3. TypeOK'
  BY DEF TypeOK, CondTypeOK, TryBusy, Leave, MutexUnlock, condVars, counters, held,
         Return, Stage, Stages
<1>4. Protocol'
  <2>1. CASE TryBusy(t)
    BY <1>1, <2>1 DEF Protocol, Inside, TryBusy, condVars, Return, Stage, TypeOK
  <2>2. CASE Leave(t)
    BY <1>1, <2>2, ThreadsAssumption
       DEF Protocol, Inside, Leave, MutexUnlock, Return, Stage, TypeOK
  <2> QED BY <2>1, <2>2
<1>5. EntriesAlive'
  BY DEF EntriesAlive, Listed, TryBusy, Leave, MutexUnlock, condVars
<1>6. Counted' /\ Exclusive'
  BY <1>2 DEF Counted, Exclusive, TryBusy, Leave, counters, held
<1>7. NoLostWakeup'
  <2>1. Blocked' = Blocked /\ t \notin Blocked
    BY <1>1 DEF Blocked, TryBusy, Leave, MutexUnlock, condVars
  <2>2. op' = [op EXCEPT ![t] = "none"]
    BY DEF TryBusy, Leave, Return
  <2>3. \A u \in Blocked : op'[u] = op[u]
    BY <2>1, <2>2 DEF TypeOK
  <2> QED
    BY <1>2, <2>1, <2>3 DEF NoLostWakeup, WaitingWriters, TryBusy, Leave, held
<1> QED
  BY <1>3, <1>4, <1>5, <1>6, <1>7

\* The steps of pthread_cond_wait.
LEMMA CondStepStep ==
  ASSUME IInv, NEW t \in Threads, CondStep(t)
  PROVE  IInv'
<1> USE DEF IInv
<1>1. WaitingWriters' = WaitingWriters
  BY DEF WaitingWriters, CondStep
<1>2. Counted' /\ Exclusive'
  BY <1>1 DEF Counted, Exclusive, CondStep, counters, held
<1>3. SUFFICES CondTypeOK' /\ Protocol' /\ EntriesAlive' /\ Blocked' \subseteq Blocked
  <2>1. SUFFICES ASSUME CondTypeOK', Protocol', EntriesAlive', Blocked' \subseteq Blocked
                 PROVE  IInv'
    OBVIOUS
  <2>2. TypeOK'
    BY <2>1 DEF TypeOK, CondStep, counters, held
  <2>3. NoLostWakeup'
    BY <1>1, <2>1 DEF NoLostWakeup, WaitingWriters, CondStep, held
  <2> QED
    BY <1>2, <2>1, <2>2, <2>3
<1>4. CASE WaitUnlock(t)
  BY <1>4, ThreadsAssumption
     DEF CondStep, WaitUnlock, Goto, TypeOK, CondTypeOK, Places, Protocol, Inside,
         EntriesAlive, Listed, Blocked
<1>5. CASE WaitTake(t)
  BY <1>5 DEF CondStep, WaitTake, Goto, TypeOK, CondTypeOK, Places, Protocol, Inside,
              EntriesAlive, Listed, Blocked
<1>6. CASE WaitTimeout(t)
  BY <1>6, RwAssumption DEF WaitTimeout
<1>7. CASE WaitRemove(t)
  <2>1. PICK k \in DOMAIN waiters : waiters[k] = t /\ waiters' = Without(waiters, k)
    BY <1>7 DEF WaitRemove
  <2>2. /\ Len(waiters) \in Nat /\ DOMAIN waiters = 1 .. Len(waiters)
        /\ \A i \in DOMAIN waiters : waiters[i] \in Threads
    BY DEF TypeOK, CondTypeOK
  <2>3. /\ DOMAIN waiters' = 1 .. Len(waiters) - 1
        /\ \A j \in DOMAIN waiters' : waiters'[j] = waiters[IF j < k THEN j ELSE j + 1]
    BY <2>1, <2>2 DEF Without
  <2>4. \A j \in DOMAIN waiters' : (IF j < k THEN j ELSE j + 1) \in DOMAIN waiters \ {k}
    BY <2>2, <2>3
  <2>5. waiters' \in Seq(Threads)
    <3>1. Len(waiters) - 1 \in Nat
      BY <2>2
    <3>2. waiters' \in [1 .. Len(waiters) - 1 -> Threads]
      BY <2>1, <2>2, <2>3, <2>4 DEF Without
    <3> QED BY <3>1, <3>2
  <2>6. CondTypeOK'
    BY <1>7, <2>5 DEF WaitRemove, Goto, TypeOK, CondTypeOK, Places
  <2>7. Protocol'
    BY <1>7 DEF CondStep, WaitRemove, Goto, TypeOK, CondTypeOK, Protocol, Inside
  <2>8. Listed' = Listed \ {t}
    <3>1. ASSUME NEW u \in Listed' PROVE u \in Listed /\ u # t
      BY <2>1, <2>3, <2>4, <3>1 DEF Listed, EntriesAlive
    <3>2. ASSUME NEW u \in Listed, u # t PROVE u \in Listed'
      <4>1. PICK i \in DOMAIN waiters : waiters[i] = u
        BY DEF Listed
      <4>2. i # k
        BY <2>1, <3>2, <4>1
      <4>3. CASE i < k
        <5>1. i \in DOMAIN waiters' /\ waiters'[i] = u
          BY <2>2, <2>3, <4>1, <4>3
        <5> QED BY <5>1 DEF Listed
      <4>4. CASE i > k
        <5>1. i - 1 \in DOMAIN waiters' /\ ~(i - 1 < k) /\ (i - 1) + 1 = i
          BY <2>2, <2>3, <4>4
        <5>2. waiters'[i - 1] = u
          BY <2>3, <4>1, <5>1
        <5> QED BY <5>1, <5>2 DEF Listed
      <4> QED BY <2>2, <4>2, <4>3, <4>4
    <3> QED BY <3>1, <3>2
  <2>9. \A i, j \in DOMAIN waiters' : waiters'[i] = waiters'[j] => i = j
    BY <2>2, <2>3, <2>4 DEF EntriesAlive
  <2>10. EntriesAlive'
    BY <1>7, <2>8, <2>9 DEF EntriesAlive, WaitRemove, Goto, TypeOK, CondTypeOK
  <2>11. Blocked' \subseteq Blocked
    BY <1>7 DEF WaitRemove, Goto, Blocked, TypeOK, CondTypeOK
  <2> QED
    BY <2>6, <2>7, <2>10, <2>11
<1>8. CASE WaitLock(t)
  BY <1>8, ThreadsAssumption
     DEF CondStep, WaitLock, Goto, TypeOK, CondTypeOK, Places, Protocol, Inside,
         EntriesAlive, Listed, Blocked
<1> QED
  BY <1>4, <1>5, <1>6, <1>7, <1>8 DEF CondStep, WaitStep
-----------------------------------------------------------------------------
(***************************************************************************)
(* The functions.                                                          *)
(***************************************************************************)
LEMMA RdStep ==
  ASSUME Countable, IInv, NEW t \in Threads, RdLock(t) \/ RdAgain(t)
  PROVE  IInv'
<1> USE DEF IInv
<1>1. Inside(t) /\ wpc[t] = "out" /\ op[t] = "rdlock" /\ UNCHANGED <<freed, op>>
  BY DEF Inside, RdLock, RdAgain, Protocol
<1>2. CASE active_writers = 0 /\ GetRead(t)
  BY <1>1, <1>2, GetReadStep
<1>3. CASE /\ active_writers # 0 \/ waiting_writers # 0
           /\ StartWait(t, waiting_writers)
  <2>1. waiting_writers \in Nat
    BY DEF TypeOK
  <2>2. waiting_writers = Cardinality(WaitingWriters \cup (IF op[t] = "wrlock" THEN {t} ELSE {}))
    <3>1. WaitingWriters \cup (IF op[t] = "wrlock" THEN {t} ELSE {}) = WaitingWriters
      BY <1>1
    <3> QED BY <3>1 DEF Counted
  <2>3. writers # {} \/ WaitingWriters # {}
    BY <1>3, Finite DEF Counted
  <2> QED
    BY <1>1, <1>3, <2>1, <2>2, <2>3, StartWaitStep
<1> QED
  BY <1>2, <1>3 DEF RdLock, RdAgain

LEMMA WrStep ==
  ASSUME IInv, NEW t \in Threads, WrLock(t) \/ WrAgain(t)
  PROVE  IInv'
<1> USE DEF IInv
<1>1. Inside(t) /\ wpc[t] = "out" /\ op[t] = "wrlock" /\ UNCHANGED <<freed, op>>
  BY DEF Inside, WrLock, WrAgain, Protocol
<1>2. IsFiniteSet(WaitingWriters) /\ waiting_writers \in Nat
      /\ waiting_writers = Cardinality(WaitingWriters)
  BY Finite DEF Counted
<1>3. pc[t] = "body" => t \notin WaitingWriters
  BY DEF WaitingWriters
<1>4. pc[t] = "wait" => t \in WaitingWriters
  BY <1>1 DEF WaitingWriters
<1> DEFINE n == Cardinality(WaitingWriters \cup {t})
           m == Cardinality(WaitingWriters \ {t})
<1>5. /\ n = IF t \in WaitingWriters THEN waiting_writers ELSE waiting_writers + 1
      /\ m = IF t \in WaitingWriters THEN waiting_writers - 1 ELSE waiting_writers
  BY <1>2, FS_AddElement, FS_RemoveElement
<1>6. n \in Nat /\ m \in Nat
  <2>1. IsFiniteSet(WaitingWriters \cup {t}) /\ IsFiniteSet(WaitingWriters \ {t})
    BY <1>2, FS_AddElement, FS_RemoveElement
  <2> QED BY <2>1, FS_CardinalityType
<1>7. CASE Taken
  <2>1. StartWait(t, n)
    BY <1>3, <1>4, <1>5, <1>7 DEF WrLock, WrAgain
  <2>2. readers # {} \/ writers # {}
    BY <1>7, Finite DEF Taken, Counted
  <2>3. n = Cardinality(WaitingWriters \cup (IF op[t] = "wrlock" THEN {t} ELSE {}))
    BY <1>1
  <2> HIDE DEF n
  <2> QED
    BY <1>1, <1>6, <2>1, <2>2, <2>3, StartWaitStep
<1>8. CASE ~Taken
  <2>1. GetWrite(t, m)
    BY <1>3, <1>4, <1>5, <1>8 DEF WrLock, WrAgain
  <2>2. m = Cardinality(WaitingWriters \ {t})
    OBVIOUS
  <2> HIDE DEF m
  <2> QED
    BY <1>1, <1>6, <1>8, <2>1, <2>2, GetWriteStep
<1> QED
  BY <1>7, <1>8

\* A try that fails, and a destroy, only leave.
LEMMA OnlyLeaves ==
  ASSUME IInv, NEW t \in Threads, pc[t] = "body", freed' \in BOOLEAN,
         Stage(t, "leave"), UNCHANGED <<condVars, counters, held, op>>
  PROVE  IInv'
<1> USE DEF IInv
<1>1. WaitingWriters' = WaitingWriters
  BY DEF WaitingWriters, Stage, TypeOK
<1>2. TypeOK'
  BY DEF TypeOK, CondTypeOK, condVars, counters, held, Stage, Stages
<1>3. Protocol' /\ EntriesAlive'
  BY DEF Protocol, Inside, EntriesAlive, Listed, condVars, Stage, TypeOK
<1>4. Counted' /\ Exclusive'
  BY <1>1 DEF Counted, Exclusive, counters, held
<1>5. NoLostWakeup'
  BY <1>1 DEF NoLostWakeup, Blocked, WaitingWriters, condVars, held
<1> QED
  BY <1>2, <1>3, <1>4, <1>5

LEMMA TryStep ==
  ASSUME Countable, IInv, NEW t \in Threads, TryRdLock(t) \/ TryWrLock(t)
  PROVE  IInv'
<1> USE DEF IInv
<1>1. /\ Inside(t) /\ pc[t] = "body" /\ wpc[t] = "out" /\ op[t] \in {"tryrdlock", "trywrlock"}
      /\ UNCHANGED <<freed, op>> /\ freed' \in BOOLEAN
  BY DEF Inside, TryRdLock, TryWrLock, Protocol, TypeOK
<1>2. CASE op[t] = "tryrdlock" /\ active_writers = 0 /\ GetRead(t)
  BY <1>1, <1>2, GetReadStep
<1>3. CASE ~Taken /\ GetWrite(t, waiting_writers)
  <2>1. WaitingWriters \ {t} = WaitingWriters
    BY <1>1 DEF WaitingWriters
  <2>2. waiting_writers \in Nat /\ waiting_writers = Cardinality(WaitingWriters \ {t})
    BY <2>1 DEF Counted, TypeOK
  <2> QED
    BY <1>1, <1>3, <2>2, GetWriteStep
<1>4. CASE Stage(t, "leave") /\ UNCHANGED <<condVars, counters, held>>
  BY <1>1, <1>4, OnlyLeaves
<1> QED
  BY <1>2, <1>3, <1>4 DEF TryRdLock, TryWrLock

\* Who leaves last wakes everybody.
LEMMA UnlockStep ==
  ASSUME IInv, NEW t \in Threads, Unlock(t)
  PROVE  IInv'
<1> USE DEF IInv
<1>1. WaitingWriters' = WaitingWriters /\ op' = op
  BY DEF WaitingWriters, Unlock, Stage, TypeOK
<1>2. mutex' = mutex /\ waiters' = waiters /\ wpc' = wpc /\ Listed' = Listed
  BY DEF Unlock, Broadcast, condVars, Listed
<1>3. sem' \in [Threads -> {0, 1}] /\ Blocked' \subseteq Blocked
  BY <1>2 DEF Unlock, Broadcast, Give, condVars, Blocked, TypeOK, CondTypeOK
<1>4. Broadcast => Blocked' = {}
  BY <1>2 DEF Broadcast, Give, Blocked, EntriesAlive
<1>5. Protocol' /\ EntriesAlive'
  BY <1>2 DEF Unlock, Protocol, Inside, EntriesAlive, Stage, TypeOK
<1>6. CASE active_readers > 0
  <2>1. readers # {} /\ writers = {}
    BY <1>6, Finite DEF Counted, Exclusive
  <2>2. PICK i \in 1 .. Depth : <<t, i>> \in readers /\ readers' = readers \ {<<t, i>>}
    BY <2>1 DEF Unlock, GiveUp
  <2>3. writers' = {} /\ active_writers' = active_writers
    BY <1>6, <2>1 DEF Unlock, GiveUp
  <2>4. active_readers' = active_readers - 1 /\ active_readers' = Cardinality(readers')
    <3>1. IsFiniteSet(readers) /\ active_readers = Cardinality(readers)
      BY Finite DEF Counted
    <3>2. Cardinality(readers \ {<<t, i>>}) = Cardinality(readers) - 1
      BY <2>2, <3>1, FS_RemoveElement
    <3> QED
      BY <1>6, <2>2, <3>1, <3>2 DEF Unlock
  <2>5. TypeOK'
    <3>1. CondTypeOK'
      BY <1>2, <1>3 DEF TypeOK, CondTypeOK
    <3>2. active_readers' \in -128 .. 127
      BY <1>6, <2>4 DEF TypeOK
    <3>3. readers' \subseteq Threads \X (1 .. Depth) /\ writers' \subseteq Threads
      BY <2>2, <2>3 DEF TypeOK
    <3>4. pc' \in [Threads -> Stages] /\ waiting_writers' = waiting_writers /\ freed' = freed
      BY DEF Unlock, Stage, Stages, TypeOK
    <3> QED
      BY <1>1, <2>3, <3>1, <3>2, <3>3, <3>4 DEF TypeOK
  <2>6. Counted' /\ Exclusive'
    <3>1. Counted'
      BY <1>1, <2>1, <2>3, <2>4 DEF Counted, Unlock
    <3>2. Exclusive'
      BY <2>3 DEF Exclusive
    <3> QED BY <3>1, <3>2
  <2>7. NoLostWakeup'
    <3>1. CASE active_readers = 1
      <4>1. Broadcast
        BY <1>6, <3>1 DEF Unlock
      <4> QED
        BY <1>4, <4>1 DEF NoLostWakeup
    <3>2. CASE active_readers # 1
      <4>1. readers' # {}
        BY <1>6, <2>4, <2>5, <3>2, FS_EmptySet DEF TypeOK
      <4> QED
        BY <1>1, <1>3, <2>1, <4>1 DEF NoLostWakeup, WaitingWriters
    <3> QED BY <3>1, <3>2
  <2> QED
    BY <1>5, <2>5, <2>6, <2>7
<1>7. CASE ~(active_readers > 0)
  <2>1. readers = {} /\ active_readers' = active_readers /\ active_readers = 0
    BY <1>7, Finite DEF Counted, Unlock
  <2>2. t \in writers /\ writers' = writers \ {t} /\ readers' = {}
    BY <2>1 DEF Unlock, GiveUp
  <2>3. writers' = {}
    BY <2>2 DEF Exclusive
  <2>4. active_writers' = 0 /\ Broadcast
    BY <1>7 DEF Unlock
  <2>5. TypeOK'
    BY <1>2, <1>3, <2>1, <2>2, <2>3, <2>4 DEF Unlock, Stage, Stages, TypeOK, CondTypeOK
  <2>6. Counted' /\ Exclusive'
    BY <1>1, <2>1, <2>2, <2>3, <2>4, FS_EmptySet DEF Counted, Exclusive, Unlock
  <2>7. NoLostWakeup'
    BY <1>4, <2>4 DEF NoLostWakeup
  <2> QED
    BY <1>5, <2>5, <2>6, <2>7
<1> QED
  BY <1>6, <1>7
-----------------------------------------------------------------------------
(***************************************************************************)
(* The conjunction IInv is inductive: the counters agree with what is held *)
(* only together with the mutex protocol, and wakeups are not lost only    *)
(* because the list holds every thread that is blocked.                    *)
(***************************************************************************)
THEOREM Inductive ==
  ASSUME Countable
  PROVE  Spec => []IInv
<1>1. Init => IInv
  <2> SUFFICES ASSUME Init PROVE IInv
    OBVIOUS
  <2>1. TypeOK
    <3>1. CondTypeOK
      BY DEF Init, CondInit, CondTypeOK, Places
    <3>2. op \in [Threads -> LockFunctions \cup {"none"}] /\ pc \in [Threads -> Stages]
      BY DEF Init, Stages
    <3>3. /\ active_readers \in -128 .. 127
          /\ active_writers \in Nat /\ waiting_writers \in Nat
      BY DEF Init
    <3>4. freed \in BOOLEAN /\ readers \subseteq Threads \X (1 .. Depth) /\ writers \subseteq Threads
      BY DEF Init
    <3> QED BY <3>1, <3>2, <3>3, <3>4 DEF TypeOK
  <2>2. Protocol /\ Exclusive
    BY ThreadsAssumption DEF Init, CondInit, Protocol, Inside, Exclusive
  <2>3. EntriesAlive
    BY DEF Init, CondInit, EntriesAlive, Listed
  <2>4. Counted
    <3>1. WaitingWriters = {}
      BY DEF Init, WaitingWriters
    <3> QED BY <3>1, FS_EmptySet DEF Init, Counted
  <2>5. NoLostWakeup
    BY DEF Init, CondInit, NoLostWakeup, Blocked
  <2> QED
    BY <2>1, <2>2, <2>3, <2>4, <2>5 DEF IInv
<1>2. IInv /\ [Next]_vars => IInv'
  <2> SUFFICES ASSUME IInv, [Next]_vars PROVE IInv'
    OBVIOUS
  <2>1. CASE NewCall
    <3>1. PICK t \in Threads, o \in Ops \ {"unlock"} : Call(t, o)
      BY <2>1 DEF NewCall
    <3>2. o \in LockFunctions
      BY RwAssumption
    <3> QED BY <3>1, <3>2, CallStep
  <2>2. ASSUME NEW t \in Threads, Release(t) PROVE IInv'
    <3>1. "unlock" \in LockFunctions /\ Call(t, "unlock")
      BY <2>2 DEF Release, LockFunctions
    <3> QED BY <3>1, CallStep
  <2>3. ASSUME NEW t \in Threads, Lock(t) PROVE IInv'
    BY <2>3, LockStep
  <2>4. ASSUME NEW t \in Threads, TryBusy(t) \/ Leave(t) PROVE IInv'
    BY <2>4, ReturnStep
  <2>5. ASSUME NEW t \in Threads, CondStep(t) PROVE IInv'
    BY <2>5, CondStepStep
  <2>6. ASSUME NEW t \in Threads, Body(t) PROVE IInv'
    <3>1. CASE RdLock(t) \/ RdAgain(t)
      BY <3>1, RdStep
    <3>2. CASE WrLock(t) \/ WrAgain(t)
      BY <3>2, WrStep
    <3>3. CASE TryRdLock(t) \/ TryWrLock(t)
      BY <3>3, TryStep
    <3>4. CASE Unlock(t)
      BY <3>4, UnlockStep
    <3>5. CASE Destroy(t)
      <4>1. freed' \in BOOLEAN
        BY <3>5 DEF Destroy
      <4> QED
        BY <3>5, <4>1, OnlyLeaves DEF Destroy
    <3> QED
      BY <2>6, <3>1, <3>2, <3>3, <3>4, <3>5 DEF Body
  <2>7. CASE UNCHANGED vars
    BY <2>7 DEF vars, condVars, counters, held, IInv, TypeOK, CondTypeOK, Protocol, Inside,
                EntriesAlive, Listed, Counted, WaitingWriters, Exclusive, NoLostWakeup, Blocked
  <2> QED
    BY <2>1, <2>2, <2>3, <2>4, <2>5, <2>6, <2>7 DEF Next
<1> QED
  BY <1>1, <1>2, PTL DEF Spec

(***************************************************************************)
(* pthread_rwlock_* keep their counters in range.                          *)
(***************************************************************************)
THEOREM TypeCorrect ==
  ASSUME Countable
  PROVE  Spec => []TypeOK
BY Inductive, PTL DEF IInv

(***************************************************************************)
(* The read/write lock excludes, for any threads and any order of calls,   *)
(* as long as the readers can be counted in an int8_t.                     *)
(***************************************************************************)
THEOREM Excludes ==
  ASSUME Countable
  PROVE  Spec => []Exclusive
BY Inductive, PTL DEF IInv

(***************************************************************************)
(* The broadcasts of pthread_rwlock_unlock are enough: nobody sleeps in    *)
(* the lock without a reason.                                              *)
(***************************************************************************)
THEOREM WakesUp ==
  ASSUME Countable
  PROVE  Spec => []NoLostWakeup
BY Inductive, PTL DEF IInv

(***************************************************************************)
(* No broadcast reaches a semaphore of a call that has returned.           *)
(***************************************************************************)
THEOREM NoDanglingWaiter ==
  ASSUME Countable
  PROVE  Spec => []EntriesAlive
BY Inductive, PTL DEF IInv
-----------------------------------------------------------------------------
(***************************************************************************)
(* Destroying.  DestroySafe needs to know who can still be in the lock when *)
(* it has been freed: nobody that could take or wait for it, since the     *)
(* thread that destroys it holds the mutex.                                *)
(***************************************************************************)
Stopped ==
  freed => \A t \in Threads :
    pc[t] # "body" /\ ~(pc[t] = "wait" /\ wpc[t] = "out")

DInv == Stopped /\ DestroySafe

\* The thread that destroys the lock is the only one inside, and the counter
\* it has looked at counts every writer that waits.
LEMMA DestroyStep ==
  ASSUME IInv, NEW t \in Threads, Destroy(t)
  PROVE  DInv'
<1> SUFFICES ASSUME freed' PROVE DInv'
  BY DEF DInv, Stopped, DestroySafe
<1>1. ~Busy /\ pc[t] = "body" /\ Stage(t, "leave") /\ UNCHANGED <<condVars, op>>
  BY DEF Destroy
<1>2. WaitingWriters = {}
  BY <1>1, Finite DEF IInv, Counted, Busy, TypeOK
<1>3. \A u \in Threads \ {t} : ~Inside(u)
  BY <1>1 DEF IInv, Protocol, Inside
<1>4. Stopped'
  BY <1>1, <1>3 DEF Stopped, Inside, Stage, condVars, IInv, TypeOK
<1>5. DestroySafe'
  BY <1>1, <1>2 DEF DestroySafe, WaitingWriters, Stage, IInv, TypeOK
<1> QED
  BY <1>4, <1>5 DEF DInv

\* Every other step is either impossible in a lock that has been freed or the
\* way out of one.
LEMMA StoppedStep ==
  ASSUME IInv, DInv, [Next]_vars
  PROVE  DInv'
<1> USE DEF DInv
<1>1. ASSUME NEW t \in Threads, NEW o, Call(t, o) PROVE DInv'
  BY <1>1 DEF Call, Stopped, DestroySafe
<1>2. ASSUME NEW t \in Threads, Lock(t) \/ CondStep(t) \/ TryBusy(t) PROVE DInv'
  BY <1>2 DEF Lock, CondStep, TryBusy, Stopped, DestroySafe
<1>3. ASSUME NEW t \in Threads, Leave(t) PROVE DInv'
  BY <1>3 DEF Leave, Return, Stage, MutexUnlock, Stopped, DestroySafe, IInv, TypeOK
<1>4. ASSUME NEW t \in Threads, Body(t), ~Destroy(t) PROVE DInv'
  <2>1. (pc[t] = "body" \/ (pc[t] = "wait" /\ wpc[t] = "out")) /\ freed' = freed
    BY <1>4 DEF Body, RdLock, RdAgain, TryRdLock, WrLock, WrAgain, TryWrLock, Unlock
  <2>2. ~freed
    BY <2>1 DEF Stopped
  <2> QED
    BY <2>1, <2>2 DEF Stopped, DestroySafe
<1>5. CASE UNCHANGED vars
  BY <1>5 DEF vars, condVars, Stopped, DestroySafe
<1> QED
  BY <1>1, <1>2, <1>3, <1>4, <1>5, DestroyStep DEF Next, NewCall, Release

(***************************************************************************)
(* pthread_rwlock_destroy never frees the lock under a writer that waits   *)
(* for it, wherever in pthread_cond_wait that writer is.                   *)
(***************************************************************************)
THEOREM SparesWriters ==
  ASSUME Countable
  PROVE  Spec => []DestroySafe
<1>1. Init => DInv
  BY DEF Init, DInv, Stopped, DestroySafe
<1>2. IInv /\ DInv /\ [Next]_vars => DInv'
  BY StoppedStep
<1>3. DInv => DestroySafe
  BY DEF DInv
<1> QED
  BY Inductive, <1>1, <1>2, <1>3, PTL DEF Spec
=============================================================================
