---------------------------- MODULE EspTimerProofs ----------------------------
(***************************************************************************)
(* Proofs about EspTimer: the two lists stay sorted and hold exactly the   *)
(* armed timers, and in a build without ISR dispatch no alarm is lost.     *)
(***************************************************************************)
EXTENDS EspTimer, WellFoundedInduction, TLAPS

(***************************************************************************)
(* timer_insert and LIST_REMOVE on a sorted list.                          *)
(***************************************************************************)
Elems(s) == {s[i] : i \in DOMAIN s}

Sorted(s, al) == \A i, j \in DOMAIN s : i < j => s[i] # s[j] /\ al[s[i]] <= al[s[j]]

LEMMA SmallestOf ==
    ASSUME NEW S \in SUBSET Nat, S # {}
    PROVE  \E i \in S : \A j \in S : i <= j
<1>1. IsWellFoundedOn(OpToRel(<, Nat), Nat)
  BY NatLessThanWellFounded
<1>2. PICK i \in S : \A j \in S : ~(<<j, i>> \in OpToRel(<, Nat))
  BY <1>1, WFMin
<1>3. \A j \in S : ~(j < i)
  BY <1>2 DEF OpToRel
<1> QED
  BY <1>3

\* Where a timer goes: after all that are due no later, before all others.
LEMMA PlaceAt ==
    ASSUME NEW s \in Seq(Timers), NEW t \in Timers, NEW al \in [Timers -> Nat], Sorted(s, al)
    PROVE  /\ Place(s, t, al) \in 1 .. Len(s) + 1
           /\ \A i \in DOMAIN s : IF i < Place(s, t, al) THEN al[s[i]] <= al[t] ELSE al[t] < al[s[i]]
<1> DEFINE later == {i \in DOMAIN s : al[t] < al[s[i]]}
           k == Place(s, t, al)
<1>0. Len(s) \in Nat /\ DOMAIN s = 1 .. Len(s) /\ \A i \in DOMAIN s : s[i] \in Timers /\ al[s[i]] \in Nat
  OBVIOUS
<1>1. CASE later = {}
  <2>1. k = Len(s) + 1
    BY <1>1 DEF Place
  <2> QED BY <1>0, <1>1, <2>1
<1>2. CASE later # {}
  <2>1. \E i \in later : \A j \in later : i <= j
    <3> later \in SUBSET Nat
      BY <1>0
    <3> HIDE DEF later
    <3> QED BY <1>2, SmallestOf
  <2>2. k = CHOOSE i \in later : \A j \in later : i <= j
    BY <1>2 DEF Place
  <2>3. k \in later /\ \A j \in later : k <= j
    <3> HIDE DEF k, later
    <3> QED BY <2>1, <2>2
  <2>4. k \in DOMAIN s /\ al[t] < al[s[k]]
    BY <2>3
  <2> HIDE DEF k
  <2>5. ASSUME NEW i \in DOMAIN s, i < k
        PROVE  al[s[i]] <= al[t]
    BY <1>0, <2>3, <2>5
  <2>6. ASSUME NEW i \in DOMAIN s, ~(i < k)
        PROVE  al[t] < al[s[i]]
    <3>1. CASE i = k
      BY <2>4, <3>1
    <3>2. CASE k < i
      <4>1. al[s[k]] <= al[s[i]]
        BY <2>4, <3>2 DEF Sorted
      <4> QED BY <1>0, <2>4, <4>1
    <3> QED BY <1>0, <2>4, <2>6, <3>1, <3>2
  <2> QED BY <1>0, <2>4, <2>5, <2>6 DEF k
<1> QED BY <1>1, <1>2

LEMMA InsertedOK ==
    ASSUME NEW s \in Seq(Timers), NEW t \in Timers, NEW al \in [Timers -> Nat], Sorted(s, al),
           t \notin Elems(s)
    PROVE  /\ Inserted(s, t, al) \in Seq(Timers)
           /\ Inserted(s, t, al) # <<>>
           /\ Sorted(Inserted(s, t, al), al)
           /\ Elems(Inserted(s, t, al)) = Elems(s) \cup {t}
           /\ Head(Inserted(s, t, al)) # t => s # <<>> /\ Head(Inserted(s, t, al)) = Head(s)
<1> DEFINE k == Place(s, t, al)
           n == Len(s)
           r == Inserted(s, t, al)
<1>0. n \in Nat /\ DOMAIN s = 1 .. n /\ \A i \in 1 .. n : s[i] \in Timers /\ s[i] # t /\ al[s[i]] \in Nat
  BY DEF Elems
<1>1. k \in 1 .. n + 1 /\ \A i \in 1 .. n : IF i < k THEN al[s[i]] <= al[t] ELSE al[t] < al[s[i]]
  BY <1>0, PlaceAt
<1>2. r = [i \in 1 .. n + 1 |-> IF i < k THEN s[i] ELSE IF i = k THEN t ELSE s[i - 1]]
  BY DEF Inserted
<1>3. al[t] \in Nat
  OBVIOUS
<1> HIDE DEF k, n, r
<1>4. r \in [1 .. n + 1 -> Timers]
  <2> SUFFICES ASSUME NEW i \in 1 .. n + 1
               PROVE  (IF i < k THEN s[i] ELSE IF i = k THEN t ELSE s[i - 1]) \in Timers
    BY <1>2
  <2>1. i < k => i \in 1 .. n
    BY <1>0, <1>1
  <2>2. i > k => i - 1 \in 1 .. n
    BY <1>0, <1>1
  <2> QED BY <1>0, <1>1, <2>1, <2>2
<1>5. r \in Seq(Timers) /\ Len(r) = n + 1 /\ DOMAIN r = 1 .. n + 1
  BY <1>0, <1>4
<1>6. r # <<>> /\ Head(r) = r[1]
  BY <1>0, <1>5
<1>7. \A i \in 1 .. n + 1 : r[i] = IF i < k THEN s[i] ELSE IF i = k THEN t ELSE s[i - 1]
  BY <1>2
<1>8. Sorted(r, al)
  <2> SUFFICES ASSUME NEW i \in 1 .. n + 1, NEW j \in 1 .. n + 1, i < j
               PROVE  r[i] # r[j] /\ al[r[i]] <= al[r[j]]
    BY <1>5 DEF Sorted
  <2>0. \A x, y \in 1 .. n : x < y => s[x] # s[y] /\ al[s[x]] <= al[s[y]]
    BY <1>0 DEF Sorted
  <2>1. CASE j < k
    <3>1. r[i] = s[i] /\ r[j] = s[j] /\ i \in 1 .. n /\ j \in 1 .. n
      BY <1>0, <1>1, <1>7, <2>1
    <3> QED BY <2>0, <3>1
  <2>2. CASE j = k
    <3>1. r[i] = s[i] /\ r[j] = t /\ i \in 1 .. n
      BY <1>0, <1>1, <1>7, <2>2
    <3> QED BY <1>0, <1>1, <2>2, <3>1
  <2>3. CASE k < j /\ i < k
    <3>1. r[i] = s[i] /\ r[j] = s[j - 1] /\ i \in 1 .. n /\ j - 1 \in 1 .. n /\ i < j - 1
      BY <1>0, <1>1, <1>7, <2>3
    <3> QED BY <2>0, <3>1
  <2>4. CASE i = k
    <3>1. r[i] = t /\ r[j] = s[j - 1] /\ j - 1 \in 1 .. n /\ ~(j - 1 < k)
      BY <1>0, <1>1, <1>7, <2>4
    <3> QED BY <1>0, <1>1, <1>3, <3>1
  <2>5. CASE k < i
    <3>1. r[i] = s[i - 1] /\ r[j] = s[j - 1] /\ i - 1 \in 1 .. n /\ j - 1 \in 1 .. n /\ i - 1 < j - 1
      BY <1>0, <1>1, <1>7, <2>5
    <3> QED BY <2>0, <3>1
  <2> QED BY <1>0, <1>1, <2>1, <2>2, <2>3, <2>4, <2>5
<1>9. Elems(r) = Elems(s) \cup {t}
  <2>1. ASSUME NEW i \in 1 .. n + 1 PROVE r[i] \in Elems(s) \cup {t}
    <3>1. CASE i < k
      <4>1. i \in 1 .. n /\ r[i] = s[i]
        BY <1>0, <1>1, <1>7, <3>1
      <4> QED BY <1>0, <4>1 DEF Elems
    <3>2. CASE i = k
      BY <1>7, <3>2
    <3>3. CASE k < i
      <4>1. i - 1 \in 1 .. n /\ r[i] = s[i - 1]
        BY <1>0, <1>1, <1>7, <3>3
      <4> QED BY <1>0, <4>1 DEF Elems
    <3> QED BY <1>1, <3>1, <3>2, <3>3
  <2>2. t \in Elems(r)
    BY <1>1, <1>5, <1>7 DEF Elems
  <2>3. ASSUME NEW i \in 1 .. n PROVE s[i] \in Elems(r)
    <3>1. CASE i < k
      <4>1. i \in 1 .. n + 1 /\ r[i] = s[i]
        BY <1>0, <1>7, <3>1
      <4> QED BY <1>5, <4>1 DEF Elems
    <3>2. CASE ~(i < k)
      <4>1. i + 1 \in 1 .. n + 1 /\ r[i + 1] = s[(i + 1) - 1] /\ (i + 1) - 1 = i
        BY <1>0, <1>1, <1>7, <3>2
      <4> QED BY <1>5, <4>1 DEF Elems
    <3> QED BY <3>1, <3>2
  <2>4. \A x \in Elems(r) : x \in Elems(s) \cup {t}
    BY <1>5, <2>1 DEF Elems
  <2>5. \A x \in Elems(s) : x \in Elems(r)
    BY <1>0, <2>3 DEF Elems
  <2> QED BY <2>2, <2>4, <2>5
<1>10. Head(r) # t => s # <<>> /\ Head(r) = Head(s)
  <2> SUFFICES ASSUME Head(r) # t PROVE s # <<>> /\ Head(r) = Head(s)
    OBVIOUS
  <2>1. k # 1
    BY <1>0, <1>6, <1>7
  <2>2. r[1] = s[1] /\ n >= 1
    BY <1>0, <1>1, <1>7, <2>1
  <2> QED BY <1>0, <1>6, <2>2 DEF n
<1> QED
  BY <1>5, <1>6, <1>8, <1>9, <1>10 DEF r

LEMMA RemovedOK ==
    ASSUME NEW s \in Seq(Timers), NEW t \in Elems(s), NEW al, Sorted(s, al)
    PROVE  /\ Removed(s, t) \in Seq(Timers)
           /\ Sorted(Removed(s, t), al)
           /\ Elems(Removed(s, t)) = Elems(s) \ {t}
           /\ Head(s) # t => Removed(s, t) # <<>> /\ Head(Removed(s, t)) = Head(s)
<1> DEFINE k == CHOOSE i \in DOMAIN s : s[i] = t
           n == Len(s)
           r == Removed(s, t)
<1>0. n \in Nat /\ DOMAIN s = 1 .. n /\ \A i \in 1 .. n : s[i] \in Timers
  OBVIOUS
<1>1. k \in 1 .. n /\ s[k] = t
  <2>1. \E i \in DOMAIN s : s[i] = t
    BY DEF Elems
  <2> QED BY <1>0, <2>1
<1>2. r = [i \in 1 .. n - 1 |-> IF i < k THEN s[i] ELSE s[i + 1]]
  BY DEF Removed, Elems
<1> HIDE DEF k, n, r
<1>3. r \in [1 .. n - 1 -> Timers]
  <2> SUFFICES ASSUME NEW i \in 1 .. n - 1
               PROVE  (IF i < k THEN s[i] ELSE s[i + 1]) \in Timers
    BY <1>2
  <2>1. i \in 1 .. n /\ i + 1 \in 1 .. n
    BY <1>0
  <2> QED BY <1>0, <2>1
<1>4. r \in Seq(Timers) /\ Len(r) = n - 1 /\ DOMAIN r = 1 .. n - 1
  <2>1. n - 1 \in Nat
    BY <1>0, <1>1
  <2> QED BY <1>3, <2>1
<1>5. \A i \in 1 .. n - 1 : r[i] = IF i < k THEN s[i] ELSE s[i + 1]
  BY <1>2
<1>6. \A x, y \in 1 .. n : x < y => s[x] # s[y] /\ al[s[x]] <= al[s[y]]
  BY <1>0 DEF Sorted
<1>7. Sorted(r, al)
  <2> SUFFICES ASSUME NEW i \in 1 .. n - 1, NEW j \in 1 .. n - 1, i < j
               PROVE  r[i] # r[j] /\ al[r[i]] <= al[r[j]]
    BY <1>4 DEF Sorted
  <2>1. PICK x \in 1 .. n, y \in 1 .. n : r[i] = s[x] /\ r[j] = s[y] /\ x < y
    <3>1. i \in 1 .. n /\ i + 1 \in 1 .. n /\ j \in 1 .. n /\ j + 1 \in 1 .. n
      BY <1>0
    <3>2. CASE j < k
      BY <1>1, <1>5, <3>1, <3>2
    <3>3. CASE ~(j < k) /\ i < k
      BY <1>1, <1>5, <3>1, <3>3
    <3>4. CASE ~(i < k)
      BY <1>1, <1>5, <3>1, <3>4
    <3> QED BY <3>2, <3>3, <3>4
  <2> QED BY <1>6, <2>1
<1>8. Elems(r) = Elems(s) \ {t}
  <2>1. ASSUME NEW i \in 1 .. n - 1 PROVE r[i] \in Elems(s) /\ r[i] # t
    <3>1. PICK x \in 1 .. n : r[i] = s[x] /\ x # k
      <4>1. i \in 1 .. n /\ i + 1 \in 1 .. n
        BY <1>0
      <4> QED BY <1>1, <1>5, <4>1
    <3>2. s[x] # s[k]
      BY <1>1, <1>6, <3>1
    <3> QED BY <1>0, <1>1, <3>1, <3>2 DEF Elems
  <2>2. ASSUME NEW i \in 1 .. n, s[i] # t PROVE s[i] \in Elems(r)
    <3>1. CASE i < k
      <4>1. i \in 1 .. n - 1 /\ r[i] = s[i]
        BY <1>0, <1>1, <1>5, <3>1
      <4> QED BY <1>4, <4>1 DEF Elems
    <3>2. CASE k < i
      <4>1. i - 1 \in 1 .. n - 1 /\ r[i - 1] = s[(i - 1) + 1] /\ (i - 1) + 1 = i
        BY <1>0, <1>1, <1>5, <3>2
      <4> QED BY <1>4, <4>1 DEF Elems
    <3> QED BY <1>1, <2>2, <3>1, <3>2
  <2>3. \A x \in Elems(r) : x \in Elems(s) /\ x # t
    BY <1>4, <2>1 DEF Elems
  <2>4. \A x \in Elems(s) : x # t => x \in Elems(r)
    BY <1>0, <2>2 DEF Elems
  <2> QED BY <2>3, <2>4
<1>9. Head(s) # t => r # <<>> /\ Head(r) = Head(s)
  <2> SUFFICES ASSUME Head(s) # t PROVE r # <<>> /\ Head(r) = Head(s)
    OBVIOUS
  <2>1. k # 1 /\ n - 1 >= 1
    BY <1>0, <1>1 DEF n
  <2>2. r[1] = s[1]
    BY <1>0, <1>1, <1>5, <2>1
  <2> QED BY <1>0, <1>4, <2>1, <2>2 DEF n
<1> QED
  BY <1>4, <1>7, <1>8, <1>9 DEF r

LEMMA TailOK ==
    ASSUME NEW s \in Seq(Timers), s # <<>>, NEW al, Sorted(s, al)
    PROVE  /\ Tail(s) \in Seq(Timers)
           /\ Sorted(Tail(s), al)
           /\ Elems(Tail(s)) = Elems(s) \ {Head(s)}
           /\ Head(s) \in Elems(s)
<1> DEFINE n == Len(s)
           r == Tail(s)
<1>0. /\ n \in Nat \ {0} /\ DOMAIN s = 1 .. n /\ Head(s) = s[1]
      /\ r \in Seq(Timers) /\ DOMAIN r = 1 .. n - 1 /\ \A i \in 1 .. n - 1 : r[i] = s[i + 1]
  OBVIOUS
<1> HIDE DEF n, r
<1>1. \A x, y \in 1 .. n : x < y => s[x] # s[y] /\ al[s[x]] <= al[s[y]]
  BY <1>0 DEF Sorted
<1>2. Sorted(r, al)
  <2> SUFFICES ASSUME NEW i \in 1 .. n - 1, NEW j \in 1 .. n - 1, i < j
               PROVE  r[i] # r[j] /\ al[r[i]] <= al[r[j]]
    BY <1>0 DEF Sorted
  <2>1. i + 1 \in 1 .. n /\ j + 1 \in 1 .. n /\ i + 1 < j + 1
    BY <1>0
  <2> QED BY <1>0, <1>1, <2>1
<1>3. ASSUME NEW i \in 1 .. n - 1 PROVE r[i] \in Elems(s) /\ r[i] # Head(s)
  <2>1. i + 1 \in 1 .. n /\ 1 \in 1 .. n /\ 1 < i + 1
    BY <1>0
  <2> QED BY <1>0, <1>1, <2>1 DEF Elems
<1>4. ASSUME NEW i \in 1 .. n, s[i] # Head(s) PROVE s[i] \in Elems(r)
  <2>1. i - 1 \in 1 .. n - 1 /\ r[i - 1] = s[(i - 1) + 1] /\ (i - 1) + 1 = i
    BY <1>0, <1>4
  <2> QED BY <1>0, <2>1 DEF Elems
<1>5. Elems(r) = Elems(s) \ {Head(s)}
  <2>1. \A x \in Elems(r) : x \in Elems(s) /\ x # Head(s)
    BY <1>0, <1>3 DEF Elems
  <2>2. \A x \in Elems(s) : x # Head(s) => x \in Elems(r)
    BY <1>0, <1>4 DEF Elems
  <2> QED BY <2>1, <2>2
<1>6. Head(s) \in Elems(s)
  BY <1>0 DEF Elems
<1> QED
  BY <1>0, <1>2, <1>5, <1>6 DEF r

\* Only the alarms of the timers on a list matter to its order.
LEMMA SortedSame ==
    ASSUME NEW s, NEW al, NEW bl, Sorted(s, al), \A x \in Elems(s) : bl[x] = al[x]
    PROVE  Sorted(s, bl)
BY DEF Sorted, Elems

(***************************************************************************)
(* The inductive invariant.                                                *)
(***************************************************************************)
Times == 1 .. 2 * MaxTime \cup {Never}

HwType == /\ stamp \in [Methods -> Times]
          /\ target \in 2 .. 2 * MaxTime \cup {Never}
          /\ fired \in BOOLEAN

\* The lists, by what the timers' own fields say.
Lists == \A d \in Methods :
            /\ Sorted(list[d], alarm)
            /\ Elems(list[d]) = {t \in Timers : method[t] = d /\ alarm[t] > 0}

\* A timer on a list has not been freed.
KindInv == \A t \in Timers : alarm[t] > 0 => kind[t] # "none"

DataInv == TypeOK /\ Lists /\ KindInv

\* Without ISR dispatch everything is on the list of the timer task.
TaskOnly ==
    ~isr => /\ \A t \in Timers : method[t] = "TASK"
            /\ stamp["ISR"] = Never
            /\ pc["ISR"] \in {"idle", "notify"}

IInv == ~stale => DataInv /\ TaskOnly /\ NoLostAlarm

LEMMA DataInit == Init => DataInv /\ TaskOnly /\ NoLostAlarm
<1> SUFFICES ASSUME Init PROVE DataInv /\ TaskOnly /\ NoLostAlarm
  OBVIOUS
<1> USE TimerAssumption
<1>1. /\ list \in [Methods -> Seq(Timers)] /\ \A d \in Methods : list[d] = <<>> /\ DOMAIN list[d] = {}
  BY DEF Init
<1>2. stamp \in [Methods -> Times] /\ target \in 2 .. 2 * MaxTime \cup {Never}
  BY DEF Init, Times
<1>3. TypeOK
  <2>0. isr \in BOOLEAN
    BY DEF Init
  <2>1. fired \in BOOLEAN /\ notified \in BOOLEAN /\ stale \in BOOLEAN
    BY DEF Init
  <2>5. now \in 1 .. MaxTime
    BY DEF Init
  <2>2. /\ kind \in [Timers -> {"none", "live", "dying"}] /\ method \in [Timers -> Methods]
        /\ period \in [Timers -> Timeouts \cup {0}] /\ checked \subseteq Timers
    BY DEF Init, Methods
  <2>3. alarm \in [Timers -> 0 .. 2 * MaxTime]
    BY DEF Init
  <2>4. /\ pc \in [Methods -> {"idle", "next", "notify", "run", "callback"}]
        /\ done \in [Methods -> BOOLEAN] /\ cur \in [Methods -> Timers \cup {None}]
    BY DEF Init
  <2> QED BY <1>1, <1>2, <2>0, <2>1, <2>2, <2>3, <2>4, <2>5 DEF TypeOK, Times
<1>4. Lists
  BY <1>1 DEF Init, Lists, Sorted, Elems
<1>5. KindInv /\ TaskOnly
  BY DEF Init, KindInv, TaskOnly, Methods
<1>6. NoLostAlarm
  BY <1>1 DEF NoLostAlarm
<1> QED
  BY <1>3, <1>4, <1>5, <1>6 DEF DataInv

(***************************************************************************)
(* The alarm register.                                                     *)
(***************************************************************************)
LEMMA SetAlarmType ==
    ASSUME HwType, now \in 1 .. MaxTime, NEW d \in Methods, NEW ts \in Times, SetAlarm(d, ts)
    PROVE  HwType'
<1> USE TimerAssumption
<1>1. Other(d) \in Methods
  BY DEF Other, Methods
<1>2. MinOf(ts, stamp[Other(d)]) \in Times
  BY <1>1 DEF MinOf, HwType
<1>3. \A x \in Times : x <= now \/ x \in 2 .. 2 * MaxTime \cup {Never}
  BY DEF Times
<1>4. target' \in 2 .. 2 * MaxTime \cup {Never}
  BY <1>2, <1>3 DEF SetAlarm, SetTarget
<1>5. fired' \in BOOLEAN
  BY DEF SetAlarm, SetTarget, HwType
<1>6. stamp' \in [Methods -> Times]
  BY DEF SetAlarm, HwType
<1> QED BY <1>4, <1>5, <1>6 DEF HwType

\* Set on an empty ISR side, the alarm fires at once or waits for that time.
LEMMA SetAlarmAwaits ==
    ASSUME HwType, now \in 1 .. MaxTime, stamp["ISR"] = Never, NEW ts \in 1 .. 2 * MaxTime,
           SetAlarm("TASK", ts), now' = now
    PROVE  fired' \/ (now' < target' /\ target' = ts)
<1>1. MinOf(ts, stamp[Other("TASK")]) = ts
  BY TimerAssumption DEF MinOf, Other, Never
<1>2. target' = (IF ts <= now THEN Never ELSE ts) /\ fired' = (fired \/ ts <= now)
  BY <1>1 DEF SetAlarm, SetTarget
<1>3. CASE ts <= now
  <2>1. fired' = TRUE
    BY <1>2, <1>3 DEF HwType
  <2> QED BY <2>1
<1>4. CASE ~(ts <= now)
  BY <1>2, <1>4, TimerAssumption
<1> QED
  BY <1>3, <1>4

LEMMA HeadAlarmType ==
    ASSUME NEW s \in Seq(Timers), NEW al \in [Timers -> 0 .. 2 * MaxTime], \A x \in Elems(s) : al[x] > 0
    PROVE  HeadAlarm(s, al) \in Times /\ (s # <<>> => HeadAlarm(s, al) \in 1 .. 2 * MaxTime)
<1>1. CASE s = <<>>
  BY <1>1 DEF HeadAlarm, Times
<1>2. CASE s # <<>>
  <2>1. Head(s) \in Timers /\ Head(s) \in Elems(s)
    BY <1>2 DEF Elems
  <2> QED BY <1>2, <2>1, TimerAssumption DEF HeadAlarm, Times
<1> QED BY <1>1, <1>2

\* No timer is armed past the end of the counter (the bound of the model).
LEMMA TimesOf ==
    ASSUME now \in 1 .. MaxTime, NEW x \in Timeouts
    PROVE  /\ x \in 1 .. MaxTime /\ now + x \in 1 .. 2 * MaxTime
           /\ \A r \in ReadTimes : r \in 1 .. now /\ r \in 1 .. 2 * MaxTime /\ r + x \in 1 .. 2 * MaxTime
BY TimerAssumption DEF ReadTimes

LEMMA ReadOf ==
    ASSUME now \in 1 .. MaxTime, NEW r \in ReadTimes
    PROVE  r \in 1 .. 2 * MaxTime
BY TimerAssumption DEF ReadTimes

(***************************************************************************)
(* What arming, stopping and firing do to the lists.                       *)
(***************************************************************************)
\* One list changes: it gains or loses t, and only the alarm of t changes.
LEMMA ListChanges ==
    ASSUME DataInv, NEW t \in Timers, NEW d \in Methods, NEW s \in Seq(Timers),
           NEW al \in [Timers -> 0 .. 2 * MaxTime], NEW m \in [Timers -> Methods],
           list' = [list EXCEPT ![d] = s], alarm' = al, method' = m,
           \A x \in Timers \ {t} : al[x] = alarm[x] /\ m[x] = method[x],
           alarm[t] > 0 => method[t] = d,
           m[t] = d \/ al[t] = 0,
           Sorted(s, al),
           Elems(s) = IF al[t] > 0 THEN Elems(list[d]) \cup {t} ELSE Elems(list[d]) \ {t}
    PROVE  Lists' /\ list' \in [Methods -> Seq(Timers)]
<1>1. list' \in [Methods -> Seq(Timers)]
  BY DEF DataInv, TypeOK
<1>2. ASSUME NEW e \in Methods
      PROVE  Sorted(list'[e], alarm') /\ Elems(list'[e]) = {x \in Timers : method'[x] = e /\ alarm'[x] > 0}
  <2>0. /\ Sorted(list[e], alarm) /\ Elems(list[e]) = {x \in Timers : method[x] = e /\ alarm[x] > 0}
        /\ Elems(list[d]) = {x \in Timers : method[x] = d /\ alarm[x] > 0}
    BY DEF DataInv, Lists
  <2>1. CASE e = d
    <3>1. list'[e] = s
      BY <2>1 DEF DataInv, TypeOK
    <3>2. alarm[t] \in Nat /\ al[t] \in Nat
      BY TimerAssumption DEF DataInv, TypeOK
    <3>3. Elems(s) = {x \in Timers : m[x] = d /\ al[x] > 0}
      BY <2>0, <3>2
    <3> QED BY <2>1, <3>1, <3>3
  <2>2. CASE e # d
    <3>1. list'[e] = list[e]
      BY <2>2 DEF DataInv, TypeOK
    <3>2. t \notin Elems(list[e])
      BY <2>0, <2>2
    <3>3. \A x \in Elems(list[e]) : al[x] = alarm[x]
      BY <2>0, <3>2
    <3>4. Sorted(list[e], al)
      BY <2>0, <3>3, SortedSame
    <3>5. alarm[t] \in Nat /\ al[t] \in Nat
      BY TimerAssumption DEF DataInv, TypeOK
    <3>6. Elems(list[e]) = {x \in Timers : m[x] = e /\ al[x] > 0}
      BY <2>0, <2>2, <3>2, <3>5
    <3> QED BY <3>1, <3>4, <3>6
  <2> QED BY <2>1, <2>2
<1> QED BY <1>1, <1>2 DEF Lists

\* The first part of a type invariant that a change of the lists touches.
ListType == /\ alarm \in [Timers -> 0 .. 2 * MaxTime]
            /\ period \in [Timers -> Timeouts \cup {0}]
            /\ list \in [Methods -> Seq(Timers)]

LEMMA ArmData ==
    ASSUME DataInv, NEW t \in Timers, alarm[t] = 0, NEW d \in Methods, NEW a \in 1 .. 2 * MaxTime,
           NEW p \in Timeouts \cup {0}, NEW m \in [Timers -> Methods], method' = m, m[t] = d,
           \A x \in Timers \ {t} : m[x] = method[x],
           Arm(t, d, a, p)
    PROVE  /\ Lists' /\ ListType' /\ HwType'
           /\ alarm' = [alarm EXCEPT ![t] = a]
           /\ \/ First(list'[d], t) /\ SetAlarm(d, a)
              \/ /\ UNCHANGED hwVars
                 /\ list[d] # <<>> /\ list'[d] # <<>> /\ Head(list'[d]) = Head(list[d]) /\ Head(list[d]) # t
<1> DEFINE al == [alarm EXCEPT ![t] = a]
           s  == Inserted(list[d], t, al)
<1>0. /\ alarm \in [Timers -> 0 .. 2 * MaxTime] /\ period \in [Timers -> Timeouts \cup {0}]
      /\ list \in [Methods -> Seq(Timers)] /\ now \in 1 .. MaxTime /\ HwType
      /\ Sorted(list[d], alarm) /\ Elems(list[d]) = {x \in Timers : method[x] = d /\ alarm[x] > 0}
  BY DEF DataInv, TypeOK, Lists, HwType, Times
<1>1. al \in [Timers -> 0 .. 2 * MaxTime] /\ al[t] = a /\ \A x \in Timers \ {t} : al[x] = alarm[x]
  BY <1>0, TimerAssumption
<1>2. t \notin Elems(list[d])
  BY <1>0
<1>3. alarm' = al /\ period' = [period EXCEPT ![t] = p] /\ list' = [list EXCEPT ![d] = s]
  BY DEF Arm
<1>4. list'[d] = s
  BY <1>0, <1>3
<1>5. IF First(s, t) THEN SetAlarm(d, a) ELSE UNCHANGED hwVars
  BY <1>4 DEF Arm
<1>6. al \in [Timers -> Nat]
  BY <1>1, TimerAssumption
<1> HIDE DEF al
<1>7. Sorted(list[d], al)
  <2>1. \A x \in Elems(list[d]) : al[x] = alarm[x]
    BY <1>0, <1>1, <1>2
  <2> QED BY <1>0, <2>1, SortedSame
<1>8. /\ s \in Seq(Timers) /\ s # <<>> /\ Sorted(s, al) /\ Elems(s) = Elems(list[d]) \cup {t}
      /\ Head(s) # t => list[d] # <<>> /\ Head(s) = Head(list[d])
  <2>1. list[d] \in Seq(Timers)
    BY <1>0
  <2> QED BY <1>2, <1>6, <1>7, <2>1, InsertedOK
<1> HIDE DEF s
<1>9. Lists' /\ list' \in [Methods -> Seq(Timers)]
  <2>1. al[t] > 0 /\ ~(alarm[t] > 0)
    BY <1>0, <1>1, TimerAssumption
  <2> QED BY <1>1, <1>3, <1>8, <2>1, ListChanges
<1>10. ListType'
  BY <1>0, <1>1, <1>3, <1>9 DEF ListType
<1>11. HwType'
  <2>1. CASE SetAlarm(d, a)
    <3>1. a \in Times
      BY DEF Times
    <3> QED BY <1>0, <2>1, <3>1, SetAlarmType
  <2>2. CASE UNCHANGED hwVars
    BY <1>0, <2>2 DEF hwVars, HwType
  <2> QED BY <1>5, <2>1, <2>2
<1>12. CASE First(s, t)
  BY <1>3, <1>4, <1>5, <1>9, <1>10, <1>11, <1>12 DEF al
<1>13. CASE ~First(s, t)
  <2>1. Head(s) # t
    BY <1>8, <1>13 DEF First
  <2> QED BY <1>3, <1>4, <1>5, <1>8, <1>9, <1>10, <1>11, <1>13, <2>1 DEF al
<1> QED BY <1>12, <1>13

LEMMA StopData ==
    ASSUME DataInv, NEW t \in Timers, Stop(t)
    PROVE  /\ Lists' /\ ListType' /\ HwType'
           /\ \/ SetAlarm(method[t], HeadAlarm(list'[method[t]], alarm'))
              \/ /\ UNCHANGED hwVars /\ list'[method[t]] # <<>>
                 /\ HeadAlarm(list'[method[t]], alarm') = HeadAlarm(list[method[t]], alarm)
           /\ \A x \in Timers : alarm'[x] > 0 => alarm[x] > 0
<1> DEFINE d  == method[t]
           al == [alarm EXCEPT ![t] = 0]
           s  == Removed(list[d], t)
<1>0. /\ alarm \in [Timers -> 0 .. 2 * MaxTime] /\ period \in [Timers -> Timeouts \cup {0}]
      /\ list \in [Methods -> Seq(Timers)] /\ now \in 1 .. MaxTime /\ HwType /\ d \in Methods
      /\ Sorted(list[d], alarm) /\ Elems(list[d]) = {x \in Timers : method[x] = d /\ alarm[x] > 0}
      /\ method' = method /\ method \in [Timers -> Methods]
  BY DEF DataInv, TypeOK, Lists, HwType, Times, Stop
<1>1. al \in [Timers -> 0 .. 2 * MaxTime] /\ al[t] = 0 /\ \A x \in Timers \ {t} : al[x] = alarm[x]
  BY <1>0, TimerAssumption
<1>2. t \in Elems(list[d])
  BY <1>0 DEF Stop
<1>3. alarm' = al /\ period' = [period EXCEPT ![t] = 0] /\ list' = [list EXCEPT ![d] = s]
  BY DEF Stop
<1>4. list'[d] = s
  BY <1>0, <1>3
<1>5. IF First(list[d], t) THEN SetAlarm(d, HeadAlarm(s, al)) ELSE UNCHANGED hwVars
  BY <1>3, <1>4 DEF Stop
<1> HIDE DEF al
<1>6. /\ s \in Seq(Timers) /\ Sorted(s, alarm) /\ Elems(s) = Elems(list[d]) \ {t}
      /\ Head(list[d]) # t => s # <<>> /\ Head(s) = Head(list[d])
  <2>1. list[d] \in Seq(Timers)
    BY <1>0
  <2> QED BY <1>0, <1>2, <2>1, RemovedOK
<1> HIDE DEF s, d
<1>7. Sorted(s, al) /\ \A x \in Elems(s) : al[x] = alarm[x] /\ al[x] > 0
  <2>1. \A x \in Elems(s) : al[x] = alarm[x] /\ al[x] > 0
    BY <1>0, <1>1, <1>6
  <2> QED BY <1>6, <2>1, SortedSame
<1>8. Lists' /\ list' \in [Methods -> Seq(Timers)]
  <2>1. /\ ~(al[t] > 0) /\ (alarm[t] > 0 => method[t] = d)
        /\ Elems(s) = IF al[t] > 0 THEN Elems(list[d]) \cup {t} ELSE Elems(list[d]) \ {t}
    BY <1>1, <1>6 DEF d
  <2>2. \A x \in Timers \ {t} : al[x] = alarm[x] /\ method[x] = method[x]
    BY <1>1
  <2> QED BY <1>0, <1>1, <1>3, <1>6, <1>7, <2>1, <2>2, ListChanges
<1>9. ListType'
  BY <1>0, <1>1, <1>3, <1>8 DEF ListType
<1>10. HeadAlarm(s, al) \in Times
  BY <1>1, <1>6, <1>7, HeadAlarmType
<1>11. HwType'
  BY <1>0, <1>5, <1>10, SetAlarmType DEF hwVars, HwType
<1>12. \A x \in Timers : alarm'[x] > 0 => alarm[x] > 0
  <2> TAKE x \in Timers
  <2>1. CASE x = t
    BY <1>1, <1>3, <2>1
  <2>2. CASE x # t
    BY <1>1, <1>3, <2>2
  <2> QED BY <2>1, <2>2
<1>13. CASE First(list[d], t)
  BY <1>3, <1>4, <1>5, <1>8, <1>9, <1>11, <1>12, <1>13 DEF d
<1>14. CASE ~First(list[d], t)
  <2>1. list[d] # <<>>
    BY <1>2 DEF Elems
  <2>2. Head(list[d]) # t
    BY <1>14, <2>1 DEF First
  <2>3. s # <<>> /\ Head(s) = Head(list[d])
    BY <1>6, <2>2
  <2>4. Head(s) \in Elems(s)
    BY <1>6, <2>3 DEF Elems
  <2>5. HeadAlarm(s, al) = HeadAlarm(list[d], alarm)
    BY <1>7, <2>1, <2>3, <2>4 DEF HeadAlarm
  <2> QED BY <1>3, <1>4, <1>5, <1>8, <1>9, <1>11, <1>12, <1>14, <2>3, <2>5 DEF d
<1> QED BY <1>13, <1>14

LEMMA RestartData ==
    ASSUME DataInv, NEW t \in Timers, NEW timeout \in Timeouts, alarm[t] > 0, RestartDo(t, timeout)
    PROVE  /\ Lists' /\ ListType' /\ HwType' /\ list'[method[t]] # <<>>
           /\ \/ SetAlarm(method[t], HeadAlarm(list'[method[t]], alarm'))
              \/ UNCHANGED hwVars /\ HeadAlarm(list'[method[t]], alarm') = HeadAlarm(list[method[t]], alarm)
           /\ \A x \in Timers : alarm'[x] > 0 => alarm[x] > 0
<1> DEFINE d  == method[t]
           a  == now + timeout
           al == [alarm EXCEPT ![t] = a]
           r  == Removed(list[d], t)
           s  == Inserted(r, t, al)
<1>0. /\ alarm \in [Timers -> 0 .. 2 * MaxTime] /\ period \in [Timers -> Timeouts \cup {0}]
      /\ list \in [Methods -> Seq(Timers)] /\ now \in 1 .. MaxTime /\ HwType /\ d \in Methods
      /\ Sorted(list[d], alarm) /\ Elems(list[d]) = {x \in Timers : method[x] = d /\ alarm[x] > 0}
      /\ method' = method /\ method \in [Timers -> Methods]
  BY DEF DataInv, TypeOK, Lists, HwType, Times, RestartDo
<1>1. /\ a \in 1 .. 2 * MaxTime
      /\ al \in [Timers -> 0 .. 2 * MaxTime] /\ al[t] = a /\ \A x \in Timers \ {t} : al[x] = alarm[x]
  <2>1. a \in 1 .. 2 * MaxTime
    BY <1>0, TimesOf
  <2> HIDE DEF a
  <2> QED BY <1>0, <2>1, TimerAssumption
<1>2. t \in Elems(list[d])
  BY <1>0
<1>3. /\ alarm' = al /\ period' = [period EXCEPT ![t] = IF @ # 0 THEN timeout ELSE 0]
      /\ list' = [list EXCEPT ![d] = s]
  BY DEF RestartDo
<1>4. list'[d] = s
  BY <1>0, <1>3
<1>5. IF First(list[d], t) \/ First(s, t) THEN SetAlarm(d, HeadAlarm(s, al)) ELSE UNCHANGED hwVars
  BY <1>3, <1>4 DEF RestartDo
<1> HIDE DEF a, al
<1>6. /\ r \in Seq(Timers) /\ Sorted(r, alarm) /\ Elems(r) = Elems(list[d]) \ {t}
      /\ Head(list[d]) # t => r # <<>> /\ Head(r) = Head(list[d])
  <2>1. list[d] \in Seq(Timers)
    BY <1>0
  <2> QED BY <1>0, <1>2, <2>1, RemovedOK
<1> HIDE DEF r, d
<1>7. Sorted(r, al) /\ \A x \in Elems(r) : al[x] = alarm[x] /\ al[x] > 0
  <2>1. \A x \in Elems(r) : al[x] = alarm[x] /\ al[x] > 0
    BY <1>0, <1>1, <1>6
  <2> QED BY <1>6, <2>1, SortedSame
<1>8. al \in [Timers -> Nat]
  BY <1>1, TimerAssumption
<1>9. /\ s \in Seq(Timers) /\ s # <<>> /\ Sorted(s, al) /\ Elems(s) = Elems(r) \cup {t}
      /\ Head(s) # t => r # <<>> /\ Head(s) = Head(r)
  BY <1>6, <1>7, <1>8, InsertedOK
<1> HIDE DEF s
<1>10. Lists' /\ list' \in [Methods -> Seq(Timers)]
  <2>1. /\ al[t] > 0 /\ (alarm[t] > 0 => method[t] = d) /\ (method[t] = d \/ al[t] = 0)
        /\ Elems(s) = IF al[t] > 0 THEN Elems(list[d]) \cup {t} ELSE Elems(list[d]) \ {t}
    BY <1>1, <1>2, <1>6, <1>9, TimerAssumption DEF d
  <2>2. \A x \in Timers \ {t} : al[x] = alarm[x] /\ method[x] = method[x]
    BY <1>1
  <2> QED BY <1>0, <1>1, <1>3, <1>9, <2>1, <2>2, ListChanges
<1>11. ListType'
  <2>1. period' \in [Timers -> Timeouts \cup {0}]
    BY <1>0, <1>3
  <2> QED BY <1>1, <1>3, <1>10, <2>1 DEF ListType
<1>12. HeadAlarm(s, al) \in Times
  <2>1. al[t] > 0
    BY <1>1, TimerAssumption
  <2>2. ASSUME NEW x \in Elems(s) PROVE al[x] > 0
    <3>1. x = t \/ x \in Elems(r)
      BY <1>9
    <3> QED BY <1>7, <2>1, <3>1
  <2> QED BY <1>1, <1>9, <2>2, HeadAlarmType
<1>13. HwType'
  BY <1>0, <1>5, <1>12, SetAlarmType DEF hwVars, HwType
<1>14. \A x \in Timers : alarm'[x] > 0 => alarm[x] > 0
  <2> TAKE x \in Timers
  <2>1. CASE x = t
    BY <2>1
  <2>2. CASE x # t
    BY <1>1, <1>3, <2>2
  <2> QED BY <2>1, <2>2
<1>15. CASE First(list[d], t) \/ First(s, t)
  BY <1>3, <1>4, <1>5, <1>9, <1>10, <1>11, <1>13, <1>14, <1>15 DEF d
<1>16. CASE ~(First(list[d], t) \/ First(s, t))
  <2>1. list[d] # <<>>
    BY <1>2 DEF Elems
  <2>2. Head(list[d]) # t /\ Head(s) # t
    BY <1>9, <1>16, <2>1 DEF First
  <2>3. r # <<>> /\ Head(s) = Head(list[d]) /\ Head(r) = Head(s)
    BY <1>6, <1>9, <2>2
  <2>4. Head(s) \in Elems(r)
    BY <1>6, <2>3 DEF Elems
  <2>5. HeadAlarm(s, al) = HeadAlarm(list[d], alarm)
    BY <1>7, <1>9, <2>1, <2>3, <2>4 DEF HeadAlarm
  <2> QED BY <1>3, <1>4, <1>5, <1>9, <1>10, <1>11, <1>13, <1>14, <1>16, <2>5 DEF d
<1> QED BY <1>15, <1>16

\* The first timer of a list, when it is due.
LEMMA DueFirst ==
    ASSUME DataInv, NEW d \in Methods, Due(d)
    PROVE  /\ Head(list[d]) \in Timers /\ method[Head(list[d])] = d
           /\ alarm[Head(list[d])] \in 1 .. now
           /\ list[d] # <<>> /\ list[d] \in Seq(Timers) /\ Sorted(list[d], alarm)
<1>0. /\ list[d] \in Seq(Timers) /\ list[d] # <<>> /\ Sorted(list[d], alarm)
      /\ Elems(list[d]) = {x \in Timers : method[x] = d /\ alarm[x] > 0}
      /\ alarm \in [Timers -> 0 .. 2 * MaxTime] /\ now \in 1 .. MaxTime
  BY DEF DataInv, TypeOK, Lists, Due
<1>1. Head(list[d]) \in Elems(list[d])
  BY <1>0, TailOK
<1> QED
  BY <1>0, <1>1, TimerAssumption DEF Due

LEMMA FreeData ==
    ASSUME DataInv, NEW d \in Methods, Free(d)
    PROVE  /\ Lists' /\ ListType' /\ kind' \in [Timers -> {"none", "live", "dying"}]
           /\ \A x \in Timers : alarm'[x] > 0 => alarm[x] > 0 /\ kind'[x] = kind[x]
<1> DEFINE t  == Head(list[d])
           al == [alarm EXCEPT ![t] = 0]
           s  == Tail(list[d])
<1>0. /\ alarm \in [Timers -> 0 .. 2 * MaxTime] /\ period \in [Timers -> Timeouts \cup {0}]
      /\ list \in [Methods -> Seq(Timers)] /\ now \in 1 .. MaxTime
      /\ kind \in [Timers -> {"none", "live", "dying"}]
      /\ method' = method /\ method \in [Timers -> Methods] /\ period' = period
  BY DEF DataInv, TypeOK, Free
<1>1. /\ t \in Timers /\ method[t] = d /\ alarm[t] \in 1 .. now
      /\ list[d] # <<>> /\ list[d] \in Seq(Timers) /\ Sorted(list[d], alarm)
  BY DueFirst DEF Free
<1>2. alarm' = al /\ list' = [list EXCEPT ![d] = s] /\ kind' = [kind EXCEPT ![t] = "none"]
  BY <1>0 DEF Free
<1>3. s \in Seq(Timers) /\ Sorted(s, alarm) /\ Elems(s) = Elems(list[d]) \ {t} /\ t \in Elems(list[d])
  BY <1>1, TailOK
<1> HIDE DEF t, s
<1>4. al \in [Timers -> 0 .. 2 * MaxTime] /\ al[t] = 0 /\ \A x \in Timers \ {t} : al[x] = alarm[x]
  BY <1>0, <1>1, TimerAssumption
<1> HIDE DEF al
<1>5. Sorted(s, al)
  <2>1. Elems(list[d]) \subseteq Timers
    BY <1>1 DEF Elems
  <2>2. \A x \in Elems(s) : al[x] = alarm[x]
    BY <1>3, <1>4, <2>1
  <2> QED BY <1>3, <2>2, SortedSame
<1>6. Lists' /\ list' \in [Methods -> Seq(Timers)]
  <2>1. /\ ~(al[t] > 0) /\ (alarm[t] > 0 => method[t] = d)
        /\ Elems(s) = IF al[t] > 0 THEN Elems(list[d]) \cup {t} ELSE Elems(list[d]) \ {t}
    BY <1>1, <1>3, <1>4
  <2>2. \A x \in Timers \ {t} : al[x] = alarm[x] /\ method[x] = method[x]
    BY <1>4
  <2> QED BY <1>0, <1>1, <1>2, <1>3, <1>4, <1>5, <2>1, <2>2, ListChanges
<1>7. ListType'
  BY <1>0, <1>2, <1>4, <1>6 DEF ListType
<1>8. kind' \in [Timers -> {"none", "live", "dying"}]
  BY <1>0, <1>1, <1>2
<1>9. ASSUME NEW x \in Timers, alarm'[x] > 0
      PROVE  alarm[x] > 0 /\ kind'[x] = kind[x]
  <2>1. x # t
    BY <1>2, <1>4, <1>9
  <2> QED BY <1>0, <1>2, <1>4, <1>9, <2>1
<1> QED BY <1>6, <1>7, <1>8, <1>9

LEMMA FireData ==
    ASSUME DataInv, NEW d \in Methods, Fire(d)
    PROVE  /\ Lists' /\ ListType' /\ cur' \in [Methods -> Timers \cup {None}]
           /\ \A x \in Timers : alarm'[x] > 0 => alarm[x] > 0
<1> DEFINE t  == Head(list[d])
           a  == IF period[t] > 0 THEN NextAlarm(t) ELSE 0
           al == [alarm EXCEPT ![t] = a]
           r  == Tail(list[d])
           s  == IF period[t] > 0 THEN Inserted(r, t, al) ELSE r
<1>0. /\ alarm \in [Timers -> 0 .. 2 * MaxTime] /\ period \in [Timers -> Timeouts \cup {0}]
      /\ list \in [Methods -> Seq(Timers)] /\ now \in 1 .. MaxTime
      /\ cur \in [Methods -> Timers \cup {None}]
      /\ method' = method /\ method \in [Timers -> Methods] /\ period' = period
  BY DEF DataInv, TypeOK, Fire
<1>1. /\ t \in Timers /\ method[t] = d /\ alarm[t] \in 1 .. now
      /\ list[d] # <<>> /\ list[d] \in Seq(Timers) /\ Sorted(list[d], alarm)
  BY DueFirst DEF Fire
<1>2. alarm' = al /\ list' = [list EXCEPT ![d] = s] /\ cur' = [cur EXCEPT ![d] = t]
  BY <1>0 DEF Fire
<1>3. r \in Seq(Timers) /\ Sorted(r, alarm) /\ Elems(r) = Elems(list[d]) \ {t} /\ t \in Elems(list[d])
  BY <1>1, TailOK
<1> HIDE DEF t, r
<1>4. a \in 0 .. 2 * MaxTime /\ (a > 0 <=> period[t] > 0)
  <2>1. CASE period[t] > 0
    <3>0. period[t] \in Timeouts \/ period[t] = 0
      BY <1>0, <1>1
    <3>1. period[t] \in 1 .. MaxTime
      <4>1. period[t] # 0
        BY <2>1
      <4> QED BY <3>0, <4>1, TimerAssumption
    <3>2. a = now + period[t] \/ a = alarm[t] + period[t]
      BY <2>1 DEF NextAlarm
    <3> QED BY <1>0, <1>1, <2>1, <3>1, <3>2, TimerAssumption
  <2>2. CASE ~(period[t] > 0)
    BY <2>2, TimerAssumption
  <2> QED BY <2>1, <2>2
<1> HIDE DEF a
<1>5. al \in [Timers -> 0 .. 2 * MaxTime] /\ al[t] = a /\ \A x \in Timers \ {t} : al[x] = alarm[x]
  BY <1>0, <1>1, <1>4
<1> HIDE DEF al
<1>6. Sorted(r, al)
  <2>1. Elems(list[d]) \subseteq Timers
    BY <1>1 DEF Elems
  <2>2. \A x \in Elems(r) : al[x] = alarm[x]
    BY <1>3, <1>5, <2>1
  <2> QED BY <1>3, <2>2, SortedSame
<1>7. /\ s \in Seq(Timers) /\ Sorted(s, al)
      /\ Elems(s) = IF al[t] > 0 THEN Elems(list[d]) \cup {t} ELSE Elems(list[d]) \ {t}
  <2>1. CASE period[t] > 0
    <3>1. al \in [Timers -> Nat]
      BY <1>5, TimerAssumption
    <3>2. t \notin Elems(r)
      BY <1>3
    <3>3. /\ Inserted(r, t, al) \in Seq(Timers) /\ Sorted(Inserted(r, t, al), al)
          /\ Elems(Inserted(r, t, al)) = Elems(r) \cup {t}
      BY <1>1, <1>3, <1>6, <3>1, <3>2, InsertedOK
    <3>4. s = Inserted(r, t, al)
      BY <2>1
    <3> HIDE DEF s
    <3> QED BY <1>3, <1>4, <1>5, <2>1, <3>3, <3>4
  <2>2. CASE ~(period[t] > 0)
    <3>1. s = r
      BY <2>2
    <3> HIDE DEF s
    <3> QED BY <1>3, <1>4, <1>5, <1>6, <2>2, <3>1
  <2> QED BY <2>1, <2>2
<1> HIDE DEF s
<1>8. Lists' /\ list' \in [Methods -> Seq(Timers)]
  <2>1. (alarm[t] > 0 => method[t] = d) /\ (method[t] = d \/ al[t] = 0)
    BY <1>1
  <2>2. \A x \in Timers \ {t} : al[x] = alarm[x] /\ method[x] = method[x]
    BY <1>5
  <2> QED BY <1>0, <1>1, <1>2, <1>5, <1>7, <2>1, <2>2, ListChanges
<1>9. ListType'
  BY <1>0, <1>2, <1>5, <1>8 DEF ListType
<1>10. cur' \in [Methods -> Timers \cup {None}]
  BY <1>0, <1>1, <1>2
<1>11. ASSUME NEW x \in Timers, alarm'[x] > 0
       PROVE  alarm[x] > 0
  <2>1. CASE x = t
    BY <1>1, <2>1, TimerAssumption
  <2>2. CASE x # t
    BY <1>2, <1>5, <1>11, <2>2
  <2> QED BY <2>1, <2>2
<1> QED BY <1>8, <1>9, <1>10, <1>11

(***************************************************************************)
(* Every step keeps the lists.                                             *)
(***************************************************************************)
\* The rest of the type invariant.
RestType == /\ isr \in BOOLEAN
            /\ now \in 1 .. MaxTime
            /\ kind \in [Timers -> {"none", "live", "dying"}]
            /\ method \in [Timers -> Methods]
            /\ notified \in BOOLEAN
            /\ pc \in [Methods -> {"idle", "next", "notify", "run", "callback"}]
            /\ done \in [Methods -> BOOLEAN]
            /\ cur \in [Methods -> Timers \cup {None}]
            /\ checked \subseteq Timers
            /\ stale \in BOOLEAN

LEMMA TypeParts == TypeOK <=> ListType /\ HwType /\ RestType
BY DEF TypeOK, ListType, HwType, RestType, Times

LEMMA DataParts ==
    ASSUME Lists', ListType', HwType', RestType', KindInv'
    PROVE  DataInv'
BY DEF DataInv, TypeOK, ListType, HwType, RestType, Times

LEMMA SameLists ==
    ASSUME DataInv, UNCHANGED <<alarm, period, list, method>>
    PROVE  Lists' /\ ListType'
BY DEF DataInv, TypeOK, Lists, ListType

\* The timer task and the interrupt handler move on; the lists stay.
LEMMA ControlData ==
    ASSUME DataInv, UNCHANGED isr,
           \/ IsrEnter \/ IsrNext \/ IsrNotify \/ TaskWake
           \/ \E d \in Methods : CallbackEnd(d) \/ Finish(d)
    PROVE  DataInv'
<1>0. RestType /\ HwType /\ ListType /\ Lists /\ KindInv
  BY TypeParts DEF DataInv
<1>1. UNCHANGED <<alarm, period, list, method, kind, now, checked, stale>>
  BY DEF IsrEnter, IsrNext, IsrNotify, TaskWake, CallbackEnd, Finish, FinishWhen
<1>2. Lists' /\ ListType'
  BY <1>1, SameLists
<1>3. KindInv'
  BY <1>0, <1>1 DEF KindInv
<1>4. now \in 1 .. MaxTime /\ Never \in Times
  BY <1>0 DEF RestType, Times
<1>5. CASE IsrEnter
  <2>1. HwType'
    BY <1>0, <1>5 DEF IsrEnter, HwType
  <2>2. RestType'
    BY <1>0, <1>1, <1>5 DEF IsrEnter, RestType
  <2> QED BY <1>2, <1>3, <2>1, <2>2, DataParts
<1>6. CASE IsrNext
  <2> DEFINE e == IF stamp["TASK"] < stamp["ISR"] THEN "TASK" ELSE "ISR"
  <2>0. e \in Methods
    BY DEF Methods
  <2>1. \/ SetAlarm(e, Never)
        \/ stamp' = [stamp EXCEPT ![e] = Never] /\ UNCHANGED <<target, fired>>
    BY <1>6 DEF IsrNext
  <2> HIDE DEF e
  <2>2. HwType'
    <3>1. CASE SetAlarm(e, Never)
      BY <1>0, <1>4, <2>0, <3>1, SetAlarmType
    <3>2. CASE stamp' = [stamp EXCEPT ![e] = Never] /\ UNCHANGED <<target, fired>>
      BY <1>0, <1>4, <2>0, <3>2 DEF HwType
    <3> QED BY <2>1, <3>1, <3>2
  <2>3. RestType'
    BY <1>0, <1>1, <1>6 DEF IsrNext, RestType
  <2> QED BY <1>2, <1>3, <2>2, <2>3, DataParts
<1>7. CASE IsrNotify
  <2>1. HwType'
    BY <1>0, <1>7 DEF IsrNotify, HwType, hwVars
  <2>2. RestType'
    BY <1>0, <1>1, <1>7 DEF IsrNotify, RestType
  <2> QED BY <1>2, <1>3, <2>1, <2>2, DataParts
<1>8. CASE TaskWake
  <2>1. HwType'
    BY <1>0, <1>8 DEF TaskWake, HwType, hwVars
  <2>2. RestType'
    BY <1>0, <1>1, <1>8 DEF TaskWake, RestType
  <2> QED BY <1>2, <1>3, <2>1, <2>2, DataParts
<1>9. ASSUME NEW d \in Methods, CallbackEnd(d)
      PROVE  DataInv'
  <2>1. HwType'
    BY <1>0, <1>9 DEF CallbackEnd, HwType, hwVars
  <2>2. RestType'
    BY <1>0, <1>1, <1>9 DEF CallbackEnd, RestType
  <2> QED BY <1>2, <1>3, <2>1, <2>2, DataParts
<1>10. ASSUME NEW d \in Methods, Finish(d)
       PROVE  DataInv'
  <2>1. HeadAlarm(list[d], alarm) \in Times
    <3>1. list[d] \in Seq(Timers) /\ alarm \in [Timers -> 0 .. 2 * MaxTime]
      BY <1>0 DEF ListType
    <3>2. \A x \in Elems(list[d]) : alarm[x] > 0
      BY <1>0 DEF Lists
    <3> QED BY <3>1, <3>2, HeadAlarmType
  <2>2. SetAlarm(d, HeadAlarm(list[d], alarm)) \/ UNCHANGED hwVars
    BY <1>10 DEF Finish, FinishWhen
  <2>3. HwType'
    BY <1>0, <1>4, <2>1, <2>2, SetAlarmType DEF hwVars, HwType
  <2>4. RestType'
    BY <1>0, <1>1, <1>10 DEF Finish, FinishWhen, RestType
  <2> QED BY <1>2, <1>3, <2>3, <2>4, DataParts
<1> QED BY <1>5, <1>6, <1>7, <1>8, <1>9, <1>10

LEMMA DataStep ==
    ASSUME DataInv, ~stale, ~stale', [Next]_vars
    PROVE  DataInv'
<1>0. RestType /\ HwType /\ ListType /\ Lists /\ KindInv /\ now \in 1 .. MaxTime
  BY TypeParts DEF DataInv, RestType
<1>1. CASE Time
  <2>1. /\ UNCHANGED <<isr, kind, method, alarm, period, list, stamp, notified, pc, done, cur, checked, stale>>
        /\ now < MaxTime /\ now' = now + 1
        /\ fired' = (fired \/ target = now') /\ target' = IF target = now' THEN Never ELSE target
    BY <1>1 DEF Time, Tick
  <2>2. Lists' /\ ListType'
    BY <2>1, SameLists
  <2>3. RestType' /\ KindInv'
    <3>1. now' \in 1 .. MaxTime
      BY <1>0, <2>1, TimerAssumption
    <3> QED BY <1>0, <2>1, <3>1 DEF RestType, KindInv
  <2>4. HwType'
    BY <1>0, <2>1 DEF HwType
  <2> QED BY <2>2, <2>3, <2>4, DataParts
<1>2. ASSUME NEW d \in Methods, Free(d), UNCHANGED isr
      PROVE  DataInv'
  <2>1. /\ Lists' /\ ListType' /\ kind' \in [Timers -> {"none", "live", "dying"}]
        /\ \A x \in Timers : alarm'[x] > 0 => alarm[x] > 0 /\ kind'[x] = kind[x]
    BY <1>2, FreeData
  <2>2. KindInv'
    BY <1>0, <2>1 DEF KindInv
  <2>3. HwType'
    BY <1>0, <1>2 DEF Free, HwType, hwVars
  <2>4. RestType'
    BY <1>0, <1>2, <2>1 DEF Free, RestType
  <2> QED BY <2>1, <2>2, <2>3, <2>4, DataParts
<1>3. ASSUME NEW d \in Methods, Fire(d), UNCHANGED isr
      PROVE  DataInv'
  <2>1. /\ Lists' /\ ListType' /\ cur' \in [Methods -> Timers \cup {None}]
        /\ \A x \in Timers : alarm'[x] > 0 => alarm[x] > 0
    BY <1>3, FireData
  <2>2. KindInv'
    BY <1>0, <1>3, <2>1 DEF KindInv, Fire
  <2>3. HwType'
    BY <1>0, <1>3 DEF Fire, HwType, hwVars
  <2>4. RestType'
    BY <1>0, <1>3, <2>1 DEF Fire, RestType
  <2> QED BY <2>1, <2>2, <2>3, <2>4, DataParts
<1>4. ASSUME NEW t \in Timers, Create(t), UNCHANGED isr
      PROVE  DataInv'
  <2>1. /\ kind[t] = "none" /\ kind' = [kind EXCEPT ![t] = "live"]
        /\ UNCHANGED <<alarm, period, list>>
    BY <1>4 DEF Create
  <2>2. /\ method' \in [Timers -> Methods] /\ \A x \in Timers \ {t} : method'[x] = method[x]
    BY <1>0, <1>4 DEF Create, RestType, Methods
  <2>3. ~(alarm[t] > 0)
    BY <1>0, <2>1 DEF KindInv
  <2>4. Lists'
    <3>1. \A d \in Methods : {x \in Timers : method'[x] = d /\ alarm[x] > 0}
                           = {x \in Timers : method[x] = d /\ alarm[x] > 0}
      BY <2>2, <2>3
    <3> QED BY <1>0, <2>1, <3>1 DEF Lists
  <2>5. KindInv'
    BY <1>0, <2>1 DEF KindInv, RestType
  <2>6. HwType' /\ ListType'
    BY <1>0, <1>4 DEF Create, HwType, hwVars, ListType
  <2>7. RestType'
    BY <1>0, <1>4, <2>2 DEF Create, RestType
  <2> QED BY <2>4, <2>5, <2>6, <2>7, DataParts
<1>5. ASSUME NEW t \in Timers, Stop(t), UNCHANGED isr
      PROVE  DataInv'
  <2>1. /\ Lists' /\ ListType' /\ HwType'
        /\ \A x \in Timers : alarm'[x] > 0 => alarm[x] > 0
    BY <1>5, StopData
  <2>2. KindInv'
    BY <1>0, <1>5, <2>1 DEF KindInv, Stop
  <2>3. RestType'
    BY <1>0, <1>5 DEF Stop, RestType
  <2> QED BY <2>1, <2>2, <2>3, DataParts
<1>6. ASSUME NEW t \in Timers, Delete(t), UNCHANGED isr
      PROVE  DataInv'
  <2> DEFINE m == [method EXCEPT ![t] = "TASK"]
  <2>1. PICK read \in ReadTimes : Arm(t, "TASK", read, 0)
    BY <1>6 DEF Delete
  <2>2. /\ alarm[t] = 0 /\ method' = m /\ kind' = [kind EXCEPT ![t] = "dying"]
    BY <1>6 DEF Delete
  <2>3. m \in [Timers -> Methods] /\ m[t] = "TASK" /\ \A x \in Timers \ {t} : m[x] = method[x]
    BY <1>0 DEF RestType, Methods
  <2>4. read \in 1 .. 2 * MaxTime /\ "TASK" \in Methods /\ 0 \in Timeouts \cup {0}
    BY <1>0, ReadOf DEF Methods
  <2> HIDE DEF m
  <2>5. Lists' /\ ListType' /\ HwType' /\ alarm' = [alarm EXCEPT ![t] = read]
    BY <2>1, <2>2, <2>3, <2>4, ArmData
  <2>6. RestType'
    BY <1>0, <1>6, <2>2, <2>3 DEF Delete, RestType
  <2>7. KindInv'
    BY <1>0, <2>2, <2>5 DEF KindInv, RestType, ListType
  <2> QED BY <2>5, <2>6, <2>7, DataParts
<1>7. ASSUME NEW t \in Timers, RestartCheck(t), UNCHANGED isr
      PROVE  DataInv'
  <2>1. UNCHANGED <<alarm, period, list, method, kind>>
    BY <1>7 DEF RestartCheck
  <2>2. Lists' /\ ListType'
    BY <2>1, SameLists
  <2>3. HwType' /\ RestType' /\ KindInv'
    BY <1>0, <1>7 DEF RestartCheck, RestType, KindInv, HwType, hwVars
  <2> QED BY <2>2, <2>3, DataParts
<1>8. ASSUME NEW t \in Timers, NEW timeout \in Timeouts, NEW p \in {0, timeout}, Start(t, timeout, p),
             UNCHANGED isr
      PROVE  DataInv'
  <2>1. PICK read \in ReadTimes : Arm(t, method[t], read + timeout, p)
    BY <1>8 DEF Start
  <2>2. alarm[t] = 0 /\ method' = method /\ kind[t] = "live" /\ kind' = kind
    BY <1>8 DEF Start
  <2>3. method \in [Timers -> Methods] /\ method[t] \in Methods
    BY <1>0 DEF RestType
  <2>4. read + timeout \in 1 .. 2 * MaxTime /\ p \in Timeouts \cup {0}
    BY <1>0, TimesOf
  <2>5. \A x \in Timers \ {t} : method[x] = method[x]
    OBVIOUS
  <2>6. Lists' /\ ListType' /\ HwType' /\ alarm' = [alarm EXCEPT ![t] = read + timeout]
    BY <2>1, <2>2, <2>3, <2>4, <2>5, ArmData
  <2>7. RestType'
    BY <1>0, <1>8 DEF Start, RestType
  <2>8. KindInv'
    BY <1>0, <2>2, <2>6 DEF KindInv, ListType
  <2> QED BY <2>6, <2>7, <2>8, DataParts
<1>9. ASSUME NEW t \in Timers, NEW timeout \in Timeouts, RestartDo(t, timeout), UNCHANGED isr
      PROVE  DataInv'
  <2>1. alarm[t] > 0
    <3>1. alarm[t] # 0
      BY <1>9 DEF RestartDo
    <3> QED BY <1>0, <3>1, TimerAssumption DEF ListType
  <2>2. /\ Lists' /\ ListType' /\ HwType'
        /\ \A x \in Timers : alarm'[x] > 0 => alarm[x] > 0
    BY <1>9, <2>1, RestartData
  <2>3. KindInv'
    BY <1>0, <1>9, <2>2 DEF KindInv, RestartDo
  <2>4. RestType'
    BY <1>0, <1>9 DEF RestartDo, RestType
  <2> QED BY <2>2, <2>3, <2>4, DataParts
<1>10. CASE UNCHANGED vars
  <2>1. UNCHANGED <<alarm, period, list, method, kind>>
    BY <1>10 DEF vars
  <2>2. Lists' /\ ListType'
    BY <2>1, SameLists
  <2>3. HwType' /\ RestType' /\ KindInv'
    BY <1>0, <1>10 DEF vars, RestType, KindInv, HwType
  <2> QED BY <2>2, <2>3, DataParts
<1>11. CASE System
  BY <1>2, <1>3, <1>11, ControlData DEF System
<1>12. CASE User
  BY <1>4, <1>5, <1>6, <1>7, <1>8, <1>9, <1>12 DEF User
<1> QED
  BY <1>1, <1>10, <1>11, <1>12 DEF Next

(***************************************************************************)
(* Without ISR dispatch no step loses the alarm.                           *)
(***************************************************************************)
\* The alarm was set for the first timer of the task's list.
LEMMA AwaitedSet ==
    ASSUME HwType, now \in 1 .. MaxTime, now' = now, stamp["ISR"] = Never,
           HeadAlarm(list'["TASK"], alarm') \in 1 .. 2 * MaxTime,
           SetAlarm("TASK", HeadAlarm(list'["TASK"], alarm'))
    PROVE  Awaited("TASK")'
<1> DEFINE ts == HeadAlarm(list'["TASK"], alarm')
<1>1. ts \in 1 .. 2 * MaxTime /\ SetAlarm("TASK", ts)
  OBVIOUS
<1> HIDE DEF ts
<1>2. fired' \/ (now' < target' /\ target' = ts)
  BY <1>1, SetAlarmAwaits
<1>3. target' = ts => target' <= ts
  BY <1>1
<1> QED BY <1>2, <1>3 DEF Awaited, ts

\* Nothing was set and the first timer is due when it was.
LEMMA AwaitedSame ==
    ASSUME Awaited("TASK"), UNCHANGED <<now, notified, pc>>, UNCHANGED hwVars,
           HeadAlarm(list'["TASK"], alarm') = HeadAlarm(list["TASK"], alarm)
    PROVE  Awaited("TASK")'
BY DEF Awaited, hwVars

LEMMA SetKeepsIsr ==
    ASSUME HwType, NEW ts, SetAlarm("TASK", ts)
    PROVE  stamp'["ISR"] = stamp["ISR"]
BY DEF SetAlarm, HwType, Methods

LEMMA IsrEmpty ==
    ASSUME DataInv', TaskOnly', ~isr'
    PROVE  list'["ISR"] = <<>>
<1>1. list'["ISR"] \in Seq(Timers) /\ Elems(list'["ISR"]) = {x \in Timers : method'[x] = "ISR" /\ alarm'[x] > 0}
  BY DEF DataInv, TypeOK, Lists, Methods
<1>2. Elems(list'["ISR"]) = {}
  BY <1>1 DEF TaskOnly
<1> DEFINE s == list'["ISR"]
<1>3. s \in Seq(Timers) /\ \A i \in DOMAIN s : FALSE
  BY <1>1, <1>2 DEF Elems
<1> HIDE DEF s
<1>4. Len(s) = 0
  <2>1. Len(s) \in Nat /\ DOMAIN s = 1 .. Len(s)
    BY <1>3
  <2>2. 1 \notin 1 .. Len(s)
    BY <1>3, <2>1
  <2> QED BY <2>1, <2>2
<1>5. s = <<>>
  BY <1>3, <1>4
<1> QED BY <1>5 DEF s

LEMMA AlarmStep ==
    ASSUME DataInv, TaskOnly, NoLostAlarm, ~stale, ~stale', [Next]_vars
    PROVE  TaskOnly' /\ NoLostAlarm'
<1>0. DataInv' /\ isr' = isr
  BY DataStep DEF Next, Time, System, User, vars
<1> SUFFICES ASSUME ~isr PROVE TaskOnly' /\ NoLostAlarm'
  BY <1>0 DEF TaskOnly, NoLostAlarm
<1> DEFINE Kept == /\ \A t \in Timers : method'[t] = "TASK"
                   /\ stamp'["ISR"] = Never
                   /\ pc'["ISR"] \in {"idle", "notify"}
           Ok == Kept /\ (list'["TASK"] # <<>> => Awaited("TASK")')
<1>1. Ok => TaskOnly' /\ NoLostAlarm'
  <2> SUFFICES ASSUME Ok PROVE TaskOnly' /\ NoLostAlarm'
    OBVIOUS
  <2>1. TaskOnly'
    BY DEF TaskOnly
  <2>2. list'["ISR"] = <<>>
    BY <1>0, <2>1, IsrEmpty
  <2> QED BY <2>1, <2>2 DEF NoLostAlarm, Methods
<1>2. /\ \A t \in Timers : method[t] = "TASK"
      /\ stamp["ISR"] = Never /\ pc["ISR"] \in {"idle", "notify"}
      /\ list["TASK"] # <<>> => Awaited("TASK")
  BY DEF TaskOnly, NoLostAlarm, Methods
<1>3. /\ RestType /\ HwType /\ ListType /\ Lists /\ now \in 1 .. MaxTime
      /\ "TASK" \in Methods /\ "ISR" \in Methods
  BY TypeParts DEF DataInv, RestType, Methods
<1>4. list'["TASK"] # <<>> => HeadAlarm(list'["TASK"], alarm') \in 1 .. 2 * MaxTime
  <2>1. /\ list'["TASK"] \in Seq(Timers) /\ alarm' \in [Timers -> 0 .. 2 * MaxTime]
        /\ \A x \in Elems(list'["TASK"]) : alarm'[x] > 0
    BY <1>0, <1>3 DEF DataInv, TypeOK, Lists
  <2> QED BY <2>1, HeadAlarmType
<1>5. \A t \in Timers : alarm[t] > 0 => list["TASK"] # <<>>
  BY <1>2, <1>3 DEF Lists, Elems
<1>6. CASE Time
  <2>1. /\ UNCHANGED <<method, alarm, list, stamp, notified, pc>>
        /\ now' = now + 1
        /\ fired' = (fired \/ target = now') /\ target' = IF target = now' THEN Never ELSE target
    BY <1>6 DEF Time, Tick
  <2>2. ASSUME list["TASK"] # <<>> PROVE Awaited("TASK")'
    <3>1. CASE fired \/ target = now'
      BY <1>3, <2>1, <3>1 DEF Awaited, HwType
    <3>2. CASE ~(fired \/ target = now')
      <4>1. target' = target /\ (now < target => now' < target)
        <5>1. target \in Int /\ now \in Int
          BY <1>3, TimerAssumption DEF HwType, Never
        <5> QED BY <2>1, <3>2, <5>1
      <4> QED BY <1>2, <2>1, <2>2, <3>2, <4>1 DEF Awaited
    <3> QED BY <3>1, <3>2
  <2> QED BY <1>1, <1>2, <2>1, <2>2
<1>7. CASE IsrEnter
  <2>1. pc'["ISR"] = "notify" /\ UNCHANGED <<method, stamp>>
    BY <1>3, <1>7 DEF IsrEnter, RestType
  <2> QED BY <1>1, <1>2, <2>1 DEF Awaited
<1>8. CASE IsrNotify
  <2>1. pc'["ISR"] = "idle" /\ notified' = TRUE /\ UNCHANGED <<method, stamp>>
    BY <1>3, <1>8 DEF IsrNotify, RestType, hwVars
  <2> QED BY <1>1, <1>2, <2>1 DEF Awaited
<1>9. CASE TaskWake
  <2>1. pc'["TASK"] = "run" /\ pc'["ISR"] = pc["ISR"] /\ UNCHANGED <<method, stamp>>
    BY <1>3, <1>9 DEF TaskWake, RestType, hwVars
  <2> QED BY <1>1, <1>2, <2>1 DEF Awaited
<1>10. ASSUME NEW d \in Methods, Free(d) PROVE Ok
  <2>1. d = "TASK" /\ pc[d] = "run" /\ UNCHANGED <<method, stamp, pc>>
    BY <1>2, <1>10 DEF Free, hwVars, Methods
  <2> QED BY <1>2, <2>1 DEF Awaited
<1>11. ASSUME NEW d \in Methods, Fire(d) PROVE Ok
  <2>1. d = "TASK" /\ UNCHANGED <<method, stamp>> /\ pc' = [pc EXCEPT ![d] = "callback"]
    BY <1>2, <1>11 DEF Fire, hwVars, Methods
  <2>2. pc'["TASK"] = "callback" /\ pc'["ISR"] = pc["ISR"]
    BY <1>3, <2>1 DEF RestType
  <2> QED BY <1>2, <2>1, <2>2 DEF Awaited
<1>12. ASSUME NEW d \in Methods, CallbackEnd(d) PROVE Ok
  <2>1. d = "TASK" /\ UNCHANGED <<method, stamp>> /\ pc' = [pc EXCEPT ![d] = "run"]
    BY <1>2, <1>12 DEF CallbackEnd, hwVars, Methods
  <2>2. pc'["TASK"] = "run" /\ pc'["ISR"] = pc["ISR"]
    BY <1>3, <2>1 DEF RestType
  <2> QED BY <1>2, <2>1, <2>2 DEF Awaited
<1>13. ASSUME NEW d \in Methods, Finish(d) PROVE Ok
  <2>1. d = "TASK" /\ UNCHANGED <<now, method, alarm, list>> /\ pc' = [pc EXCEPT ![d] = "idle"]
    BY <1>2, <1>13 DEF Finish, FinishWhen, Methods
  <2>2. pc'["ISR"] = pc["ISR"]
    BY <1>3, <2>1 DEF RestType
  <2>3. SetAlarm("TASK", HeadAlarm(list'["TASK"], alarm')) \/ (list["TASK"] = <<>> /\ UNCHANGED hwVars)
    BY <1>13, <2>1 DEF Finish, FinishWhen
  <2>4. stamp'["ISR"] = Never
    BY <1>2, <1>3, <2>3, SetKeepsIsr DEF hwVars
  <2>5. list'["TASK"] # <<>> => Awaited("TASK")'
    BY <1>2, <1>3, <1>4, <2>1, <2>3, AwaitedSet
  <2> QED BY <1>2, <2>1, <2>2, <2>4, <2>5
<1>14. ASSUME NEW t \in Timers, Create(t) PROVE Ok
  <2>1. /\ method' = [method EXCEPT ![t] = "TASK"]
        /\ UNCHANGED <<now, alarm, list, notified, pc>> /\ UNCHANGED hwVars
    BY <1>14 DEF Create
  <2>2. \A x \in Timers : method'[x] = "TASK"
    BY <1>2, <1>3, <2>1 DEF RestType
  <2>3. stamp'["ISR"] = Never
    BY <1>2, <2>1 DEF hwVars
  <2> QED BY <1>2, <2>1, <2>2, <2>3, AwaitedSame
<1>15. ASSUME NEW t \in Timers, Stop(t) PROVE Ok
  <2>1. /\ UNCHANGED <<now, method, notified, pc>> /\ alarm[t] > 0 /\ method[t] = "TASK"
    BY <1>2, <1>15 DEF Stop
  <2>2. \/ SetAlarm("TASK", HeadAlarm(list'["TASK"], alarm'))
        \/ /\ UNCHANGED hwVars
           /\ HeadAlarm(list'["TASK"], alarm') = HeadAlarm(list["TASK"], alarm)
    BY <1>15, <2>1, StopData
  <2>3. stamp'["ISR"] = Never
    BY <1>2, <1>3, <2>2, SetKeepsIsr DEF hwVars
  <2>4. list'["TASK"] # <<>> => Awaited("TASK")'
    BY <1>2, <1>3, <1>4, <1>5, <2>1, <2>2, AwaitedSet, AwaitedSame
  <2> QED BY <1>2, <2>1, <2>3, <2>4
<1>16. ASSUME NEW t \in Timers, NEW a \in 1 .. 2 * MaxTime, NEW p \in Timeouts \cup {0}, alarm[t] = 0,
              Arm(t, "TASK", a, p), UNCHANGED <<now, notified, pc>>,
              method' \in [Timers -> Methods], \A x \in Timers : method'[x] = "TASK"
       PROVE  Ok
  <2>0. method'[t] = "TASK" /\ \A x \in Timers \ {t} : method'[x] = method[x]
    BY <1>2, <1>16
  <2>1. /\ alarm' = [alarm EXCEPT ![t] = a]
        /\ \/ First(list'["TASK"], t) /\ SetAlarm("TASK", a)
           \/ /\ UNCHANGED hwVars /\ list["TASK"] # <<>> /\ list'["TASK"] # <<>>
              /\ Head(list'["TASK"]) = Head(list["TASK"]) /\ Head(list["TASK"]) # t
    BY <1>3, <1>16, <2>0, ArmData
  <2>2. CASE First(list'["TASK"], t) /\ SetAlarm("TASK", a)
    <3>1. HeadAlarm(list'["TASK"], alarm') = a /\ stamp'["ISR"] = Never
      BY <1>2, <1>3, <2>1, <2>2, SetKeepsIsr DEF First, HeadAlarm, ListType
    <3>2. Awaited("TASK")'
      BY <1>2, <1>3, <1>16, <2>2, <3>1, AwaitedSet
    <3> QED BY <1>2, <1>16, <3>1, <3>2
  <2>3. CASE /\ UNCHANGED hwVars /\ list["TASK"] # <<>> /\ list'["TASK"] # <<>>
             /\ Head(list'["TASK"]) = Head(list["TASK"]) /\ Head(list["TASK"]) # t
    <3>1. HeadAlarm(list'["TASK"], alarm') = HeadAlarm(list["TASK"], alarm)
      <4>1. Head(list["TASK"]) \in Timers
        BY <1>3, <2>3 DEF ListType
      <4> QED BY <1>3, <2>1, <2>3, <4>1 DEF HeadAlarm, ListType
    <3>2. stamp'["ISR"] = Never
      BY <1>2, <2>3 DEF hwVars
    <3> QED BY <1>2, <1>16, <2>3, <3>1, <3>2, AwaitedSame
  <2> QED BY <2>1, <2>2, <2>3
<1>17. ASSUME NEW t \in Timers, Delete(t) PROVE Ok
  <2>1. PICK read \in ReadTimes : Arm(t, "TASK", read, 0)
    BY <1>17 DEF Delete
  <2>2. /\ alarm[t] = 0 /\ method' = [method EXCEPT ![t] = "TASK"] /\ UNCHANGED <<now, notified, pc>>
    BY <1>17 DEF Delete
  <2>3. method' \in [Timers -> Methods] /\ \A x \in Timers : method'[x] = "TASK"
    BY <1>2, <1>3, <2>2 DEF RestType
  <2>4. read \in 1 .. 2 * MaxTime /\ 0 \in Timeouts \cup {0}
    BY <1>3, ReadOf
  <2> QED BY <1>16, <2>1, <2>2, <2>3, <2>4
<1>18. ASSUME NEW t \in Timers, NEW timeout \in Timeouts, NEW p \in {0, timeout}, Start(t, timeout, p)
       PROVE  Ok
  <2>1. PICK read \in ReadTimes : Arm(t, "TASK", read + timeout, p)
    BY <1>2, <1>18 DEF Start
  <2>2. /\ alarm[t] = 0 /\ method' = method /\ UNCHANGED <<now, notified, pc>>
    BY <1>18 DEF Start
  <2>3. method' \in [Timers -> Methods] /\ \A x \in Timers : method'[x] = "TASK"
    BY <1>2, <1>3, <2>2 DEF RestType
  <2>4. read + timeout \in 1 .. 2 * MaxTime /\ p \in Timeouts \cup {0}
    BY <1>3, TimesOf
  <2> QED BY <1>16, <2>1, <2>2, <2>3, <2>4
<1>19. ASSUME NEW t \in Timers, RestartCheck(t) PROVE Ok
  <2>1. UNCHANGED <<now, method, alarm, list, notified, pc>> /\ UNCHANGED hwVars
    BY <1>19 DEF RestartCheck
  <2>2. stamp'["ISR"] = Never
    BY <1>2, <2>1 DEF hwVars
  <2> QED BY <1>2, <2>1, <2>2, AwaitedSame
<1>20. ASSUME NEW t \in Timers, NEW timeout \in Timeouts, RestartDo(t, timeout) PROVE Ok
  <2>1. UNCHANGED <<now, method, notified, pc>> /\ alarm[t] > 0 /\ method[t] = "TASK"
    <3>1. alarm[t] # 0
      BY <1>20 DEF RestartDo
    <3>2. alarm[t] > 0
      BY <1>3, <3>1, TimerAssumption DEF ListType
    <3> QED BY <1>2, <1>20, <3>2 DEF RestartDo
  <2>2. \/ SetAlarm("TASK", HeadAlarm(list'["TASK"], alarm'))
        \/ UNCHANGED hwVars /\ HeadAlarm(list'["TASK"], alarm') = HeadAlarm(list["TASK"], alarm)
    BY <1>20, <2>1, RestartData
  <2>3. stamp'["ISR"] = Never
    BY <1>2, <1>3, <2>2, SetKeepsIsr DEF hwVars
  <2>4. list'["TASK"] # <<>> => Awaited("TASK")'
    BY <1>2, <1>3, <1>4, <1>5, <2>1, <2>2, AwaitedSet, AwaitedSame
  <2> QED BY <1>2, <2>1, <2>3, <2>4
<1>21. CASE UNCHANGED vars
  <2>1. UNCHANGED <<now, method, alarm, list, notified, pc>> /\ UNCHANGED hwVars
    BY <1>21 DEF vars, hwVars
  <2>2. stamp'["ISR"] = Never
    BY <1>2, <2>1 DEF hwVars
  <2> QED BY <1>1, <1>2, <2>1, <2>2, AwaitedSame
<1> HIDE DEF Ok
<1>22. ~IsrNext
  BY <1>2 DEF IsrNext
<1>23. CASE System
  BY <1>1, <1>7, <1>8, <1>9, <1>10, <1>11, <1>12, <1>13, <1>22, <1>23 DEF System
<1>24. CASE User
  BY <1>1, <1>14, <1>15, <1>17, <1>18, <1>19, <1>20, <1>24 DEF User
<1> QED
  BY <1>6, <1>21, <1>23, <1>24 DEF Next

(***************************************************************************)
(* The theorems.                                                           *)
(***************************************************************************)
\* IInv is inductive: once a timer that is in no list has been unlinked
\* nothing is claimed any more.
LEMMA Inductive == Spec => []IInv
<1>1. Init => IInv
  BY DataInit DEF IInv
<1>2. IInv /\ [Next]_vars => IInv'
  <2> SUFFICES ASSUME IInv, [Next]_vars, ~stale' PROVE (DataInv /\ TaskOnly /\ NoLostAlarm)'
    BY DEF IInv
  <2>1. ~stale
    BY DEF Next, Time, Tick, System, User, IsrEnter, IsrNext, IsrNotify, TaskWake, Free, Fire,
           CallbackEnd, Finish, FinishWhen, Create, Stop, Delete, RestartCheck, RestartDo, Start, vars
  <2> QED BY <2>1, DataStep, AlarmStep DEF IInv
<1> QED
  BY <1>1, <1>2, PTL DEF Spec

\* While no timer has been unlinked twice, the state is well formed and each
\* list is sorted by alarm and holds exactly the armed timers of its dispatch
\* method, each once: timer_insert, timer_remove, esp_timer_delete and
\* timer_process_alarm keep what timer_armed relies on.
THEOREM ListsSorted == Spec => []ListsOK
<1>1. IInv => ListsOK
  BY DEF IInv, DataInv, Lists, Sorted, Elems, ListsOK
<1> QED
  BY <1>1, Inductive, PTL

\* Without ISR dispatch, while a list holds a timer, the alarm register is set
\* for it or for an earlier time, or a handler that will look at the list is
\* under way (esp_timer_impl_set_alarm_id, timer_process_alarm).
THEOREM AlarmNotLost == Spec => []NoLostAlarm
<1>1. IInv => NoLostAlarm
  BY DEF IInv, NoLostAlarm
<1> QED
  BY <1>1, Inductive, PTL
==============================================================================
