------------------------------ MODULE EspTimer -------------------------------
(***************************************************************************)
(* components/esp_timer: the two sorted lists of armed timers, the one     *)
(* hardware alarm they share, its interrupt handler and the timer task.    *)
(* A section under timer_list_lock is one action; a callback runs between  *)
(* two of them, with the lists unlocked.  API calls come from any task or  *)
(* callback on any core at any time.                                       *)
(***************************************************************************)
EXTENDS Integers, Sequences

CONSTANTS Timers,     \* timer handles
          IsrTimers,  \* those created with dispatch_method ESP_TIMER_ISR
          SkipTimers, \* those created with skip_unhandled_events
          IsrSupport, \* builds looked at: CONFIG_ESP_TIMER_SUPPORTS_ISR_DISPATCH_METHOD
          Timeouts,   \* arguments of the start functions
          MaxTime,    \* bound: the clock stops there
          MaxLate,    \* bound: how old a time read before locking may be
          None        \* no timer

ASSUME TimerAssumption ==
    /\ IsrTimers \subseteq Timers /\ SkipTimers \subseteq Timers
    /\ IsrSupport \subseteq BOOLEAN
    /\ MaxTime \in Nat \ {0} /\ MaxLate \in Nat /\ Timeouts \subseteq 1 .. MaxTime
    /\ None \notin Timers

VARIABLES isr,       \* this build dispatches from the interrupt handler
          now,       \* esp_timer_impl_get_time
          kind,      \* "none", "live", or "dying": EVENT_ID_DELETE_TIMER
          method,    \* FL_ISR_DISPATCH_METHOD, as a list name
          alarm,     \* timer->alarm, 0 when not armed
          period,    \* timer->period, 0 for one-shot
          list,      \* s_timers
          stamp,     \* timestamp_id
          target,    \* the alarm register, Never once it has matched
          fired,     \* the alarm's interrupt status
          notified,  \* the timer task's notification
          pc,        \* where timer_process_alarm is, for each list
          done,      \* its local variable processed
          cur,       \* the timer whose callback runs
          checked,   \* timers a task is restarting, past timer_armed
          stale      \* timer_remove has unlinked a timer that is in no list:
                     \* from then on the lists are not what the model says

hwVars == <<stamp, target, fired>>
vars == <<isr, now, kind, method, alarm, period, list, stamp, target, fired, notified,
          pc, done, cur, checked, stale>>

Methods == {"TASK", "ISR"}
Never   == 2 * MaxTime + 1      \* UINT64_MAX: later than any alarm

Init ==
    /\ isr \in IsrSupport
    /\ now = 1
    /\ kind = [t \in Timers |-> "none"]
    /\ method = [t \in Timers |-> "TASK"]
    /\ alarm = [t \in Timers |-> 0]
    /\ period = [t \in Timers |-> 0]
    /\ list = [d \in Methods |-> <<>>]
    /\ stamp = [d \in Methods |-> Never]
    /\ target = Never /\ fired = FALSE
    /\ notified = FALSE
    /\ pc = [d \in Methods |-> "idle"]
    /\ done = [d \in Methods |-> FALSE]
    /\ cur = [d \in Methods |-> None]
    /\ checked = {}
    /\ stale = FALSE

(***************************************************************************)
(* The hardware alarm.                                                     *)
(***************************************************************************)
MinOf(a, b) == IF a < b THEN a ELSE b

\* systimer_hal_set_alarm_target: an alarm that is already past fires at once.
SetTargetMutant(ts) == target' = ts /\ fired' = fired

SetTarget(ts) ==
    /\ target' = IF ts <= now THEN Never ELSE ts
    /\ fired' = (fired \/ ts <= now)

\* esp_timer_impl_set_alarm_id: the register takes the earlier of the two alarms.
Other(d) == IF d = "TASK" THEN "ISR" ELSE "TASK"

SetAlarm(d, ts) ==
    /\ stamp' = [stamp EXCEPT ![d] = ts]
    /\ SetTarget(MinOf(ts, stamp[Other(d)]))

\* The counter goes on; the alarm fires when it reaches the register.
Tick ==
    /\ now < MaxTime
    /\ now' = now + 1
    /\ fired' = (fired \/ target = now')
    /\ target' = IF target = now' THEN Never ELSE target
    /\ UNCHANGED <<kind, method, alarm, period, list, stamp, notified, pc, done, cur,
                   checked, stale>>

(***************************************************************************)
(* timer_insert and timer_remove.                                          *)
(***************************************************************************)
First(s, t) == s # <<>> /\ Head(s) = t

HeadAlarm(s, al) == IF s = <<>> THEN Never ELSE al[Head(s)]

\* Before the first timer with a later alarm, or at the end of the list.
Place(s, t, al) ==
    LET later == {i \in DOMAIN s : al[t] < al[s[i]]}
    IN  IF later = {} THEN Len(s) + 1 ELSE CHOOSE i \in later : \A j \in later : i <= j

Inserted(s, t, al) ==
    LET k == Place(s, t, al)
    IN  [i \in 1 .. Len(s) + 1 |-> IF i < k THEN s[i] ELSE IF i = k THEN t ELSE s[i - 1]]

Removed(s, t) ==
    IF t \notin {s[i] : i \in DOMAIN s} THEN s
    ELSE LET k == CHOOSE i \in DOMAIN s : s[i] = t
         IN  [i \in 1 .. Len(s) - 1 |-> IF i < k THEN s[i] ELSE s[i + 1]]

\* Arm t on list d for time a: the alarm is set when t becomes the first.
Arm(t, d, a, p) ==
    LET al == [alarm EXCEPT ![t] = a]
    IN  /\ alarm' = al
        /\ period' = [period EXCEPT ![t] = p]
        /\ list' = [list EXCEPT ![d] = Inserted(@, t, al)]
        /\ IF First(list'[d], t) THEN SetAlarm(d, a) ELSE UNCHANGED hwVars

(***************************************************************************)
(* The API.                                                                *)
(***************************************************************************)
Create(t) ==
    /\ kind[t] = "none"
    /\ kind' = [kind EXCEPT ![t] = "live"]
    /\ method' = [method EXCEPT ![t] = IF isr /\ t \in IsrTimers THEN "ISR" ELSE "TASK"]
    /\ UNCHANGED <<now, alarm, period, list, hwVars, notified, pc, done, cur, checked, stale>>

\* A time read before the list is locked may be a little old.  (Not at the
\* bound: where the clock stands still no timer may be armed in the past
\* again and again.)
ReadTimes == {r \in now - MaxLate .. now : r > 0 /\ (now = MaxTime => r = now)}

\* esp_timer_start_once (p = 0) and esp_timer_start_periodic (p = timeout).
Start(t, timeout, p) ==
    /\ kind[t] = "live" /\ alarm[t] = 0
    /\ \E read \in ReadTimes : Arm(t, method[t], read + timeout, p)
    /\ UNCHANGED <<now, kind, method, notified, pc, done, cur, checked, stale>>

Stop(t) ==
    /\ kind[t] = "live" /\ alarm[t] > 0
    /\ alarm' = [alarm EXCEPT ![t] = 0]
    /\ period' = [period EXCEPT ![t] = 0]
    /\ list' = [list EXCEPT ![method[t]] = Removed(@, t)]
    /\ IF First(list[method[t]], t)
       THEN SetAlarm(method[t], HeadAlarm(list'[method[t]], alarm'))
       ELSE UNCHANGED hwVars
    /\ UNCHANGED <<now, kind, method, notified, pc, done, cur, checked, stale>>

\* Deleted in the timer task: the timer goes to its list, due at once.
DeleteMutant(t) ==
    /\ kind[t] = "live" /\ alarm[t] = 0 /\ t \notin checked
    /\ kind' = [kind EXCEPT ![t] = "dying"]
    /\ \E read \in ReadTimes : Arm(t, "TASK", read, 0)
    /\ UNCHANGED <<now, method, notified, pc, done, cur, checked, stale>>

Delete(t) ==
    /\ kind[t] = "live" /\ alarm[t] = 0 /\ t \notin checked
    /\ kind' = [kind EXCEPT ![t] = "dying"]
    /\ method' = [method EXCEPT ![t] = "TASK"]
    /\ \E read \in ReadTimes : Arm(t, "TASK", read, 0)
    /\ UNCHANGED <<now, notified, pc, done, cur, checked, stale>>

\* esp_timer_restart looks at the timer first and locks the list later.
RestartCheck(t) ==
    /\ kind[t] = "live" /\ alarm[t] > 0
    /\ checked' = checked \cup {t}
    /\ UNCHANGED <<now, kind, method, alarm, period, list, hwVars, notified, pc, done, cur,
                   stale>>

RestartDo(t, timeout) ==
    LET d    == method[t]
        al   == [alarm EXCEPT ![t] = now + timeout]
        rest == Removed(list[d], t)
    IN  /\ t \in checked
        /\ checked' = checked \ {t}
        /\ stale' = (stale \/ alarm[t] = 0)
        /\ alarm' = al
        /\ period' = [period EXCEPT ![t] = IF @ # 0 THEN timeout ELSE 0]
        /\ list' = [list EXCEPT ![d] = Inserted(rest, t, al)]
        /\ IF First(list[d], t) \/ First(list'[d], t)
           THEN SetAlarm(d, HeadAlarm(list'[d], al))
           ELSE UNCHANGED hwVars
        /\ UNCHANGED <<now, kind, method, notified, pc, done, cur>>

(***************************************************************************)
(* The interrupt: timer_alarm_isr, timer_alarm_handler.                    *)
(***************************************************************************)
IsrEnter ==
    /\ fired /\ pc["ISR"] = "idle"
    /\ fired' = FALSE
    /\ pc' = [pc EXCEPT !["ISR"] = IF isr THEN "next" ELSE "notify"]
    /\ UNCHANGED <<now, kind, method, alarm, period, list, stamp, target, notified, done, cur,
                   checked, stale>>

\* esp_timer_impl_try_to_set_next_alarm
IsrNext ==
    LET d == IF stamp["TASK"] < stamp["ISR"] THEN "TASK" ELSE "ISR"
    IN  /\ pc["ISR"] = "next"
        /\ IF stamp[Other(d)] # Never
           THEN SetAlarm(d, Never)
           ELSE stamp' = [stamp EXCEPT ![d] = Never] /\ UNCHANGED <<target, fired>>
        /\ pc' = [pc EXCEPT !["ISR"] = "run"]
        /\ done' = [done EXCEPT !["ISR"] = FALSE]
        /\ UNCHANGED <<now, kind, method, alarm, period, list, notified, cur, checked, stale>>

IsrNotify ==
    /\ pc["ISR"] = "notify"
    /\ notified' = TRUE
    /\ pc' = [pc EXCEPT !["ISR"] = "idle"]
    /\ UNCHANGED <<now, kind, method, alarm, period, list, hwVars, done, cur, checked, stale>>

\* timer_task: ulTaskNotifyTake
TaskWake ==
    /\ pc["TASK"] = "idle" /\ notified
    /\ notified' = FALSE
    /\ pc' = [pc EXCEPT !["TASK"] = "run"]
    /\ done' = [done EXCEPT !["TASK"] = FALSE]
    /\ UNCHANGED <<now, kind, method, alarm, period, list, hwVars, cur, checked, stale>>

(***************************************************************************)
(* timer_process_alarm.                                                    *)
(***************************************************************************)
Due(d) == list[d] # <<>> /\ alarm[Head(list[d])] <= now

\* A timer to be deleted is freed.
Free(d) ==
    LET t == Head(list[d])
    IN  /\ pc[d] = "run" /\ Due(d) /\ kind[t] = "dying"
        /\ kind' = [kind EXCEPT ![t] = "none"]
        /\ alarm' = [alarm EXCEPT ![t] = 0]
        /\ list' = [list EXCEPT ![d] = Tail(@)]
        /\ done' = [done EXCEPT ![d] = TRUE]
        /\ UNCHANGED <<now, method, period, hwVars, notified, pc, cur, checked, stale>>

\* Where a periodic timer goes next: one period on, or, when it may skip and
\* has missed more than one, one period from now.
NextAlarm(t) ==
    IF t \in SkipTimers /\ (now - alarm[t]) \div period[t] > 1
    THEN now + period[t]
    ELSE alarm[t] + period[t]

Fire(d) ==
    LET t  == Head(list[d])
        al == [alarm EXCEPT ![t] = IF period[t] > 0 THEN NextAlarm(t) ELSE 0]
    IN  /\ pc[d] = "run" /\ Due(d) /\ kind[t] # "dying"
        /\ alarm' = al
        /\ list' = [list EXCEPT ![d] = IF period[t] > 0 THEN Inserted(Tail(@), t, al) ELSE Tail(@)]
        /\ done' = [done EXCEPT ![d] = TRUE]
        /\ cur' = [cur EXCEPT ![d] = t]
        /\ pc' = [pc EXCEPT ![d] = "callback"]
        /\ UNCHANGED <<now, kind, method, period, hwVars, notified, checked, stale>>

CallbackEnd(d) ==
    /\ pc[d] = "callback"
    /\ cur' = [cur EXCEPT ![d] = None]
    /\ pc' = [pc EXCEPT ![d] = "run"]
    /\ UNCHANGED <<now, kind, method, alarm, period, list, hwVars, notified, done, checked, stale>>

\* Nothing more is due: set the alarm for the first timer that is left.
FinishWhen(d, wanted) ==
    /\ pc[d] = "run" /\ ~Due(d)
    /\ IF wanted
       THEN SetAlarm(d, HeadAlarm(list[d], alarm))
       ELSE UNCHANGED hwVars
    /\ pc' = [pc EXCEPT ![d] = IF d = "ISR" /\ ~done[d] THEN "notify" ELSE "idle"]
    /\ UNCHANGED <<now, kind, method, alarm, period, list, notified, done, cur, checked, stale>>

FinishMutant(d) == FinishWhen(d, FALSE)

Finish(d) == FinishWhen(d, done[d] \/ (d = "TASK" /\ list[d] # <<>>))

System ==
    /\ UNCHANGED isr
    /\ \/ IsrEnter \/ IsrNext \/ IsrNotify \/ TaskWake
       \/ \E d \in Methods : Free(d) \/ Fire(d) \/ CallbackEnd(d) \/ Finish(d)

User ==
    /\ UNCHANGED isr
    /\ \E t \in Timers :
          \/ Create(t) \/ Stop(t) \/ Delete(t) \/ RestartCheck(t)
          \/ \E timeout \in Timeouts :
                Start(t, timeout, 0) \/ Start(t, timeout, timeout) \/ RestartDo(t, timeout)

Time == Tick /\ UNCHANGED isr

Next == Time \/ System \/ User

Spec == Init /\ [][Next]_vars

\* The counter runs, the interrupt is served, the timer task has the highest priority but for
\* the IPC task, and callbacks return; nobody promises to call the API.
LiveSpec == Spec /\ WF_vars(System) /\ WF_vars(Time)

-----------------------------------------------------------------------------
TypeOK ==
    /\ isr \in BOOLEAN
    /\ now \in 1 .. MaxTime
    /\ kind \in [Timers -> {"none", "live", "dying"}]
    /\ method \in [Timers -> Methods]
    /\ alarm \in [Timers -> 0 .. 2 * MaxTime]
    /\ period \in [Timers -> Timeouts \cup {0}]
    /\ list \in [Methods -> Seq(Timers)]
    /\ stamp \in [Methods -> 1 .. 2 * MaxTime \cup {Never}]
    /\ target \in 2 .. 2 * MaxTime \cup {Never}
    /\ fired \in BOOLEAN /\ notified \in BOOLEAN
    /\ pc \in [Methods -> {"idle", "next", "notify", "run", "callback"}]
    /\ done \in [Methods -> BOOLEAN]
    /\ cur \in [Methods -> Timers \cup {None}]
    /\ checked \subseteq Timers
    /\ stale \in BOOLEAN

\* The state is well formed, and the lists are sorted and hold exactly the armed
\* timers, each once, on the list of its dispatch method (timer_insert,
\* timer_remove, esp_timer_delete): this is what timer->alarm > 0 stands for in
\* timer_armed.
ListsOK ==
    ~stale => TypeOK /\
    \A d \in Methods :
        /\ \A i, j \in DOMAIN list[d] : i < j =>
              list[d][i] # list[d][j] /\ alarm[list[d][i]] <= alarm[list[d][j]]
        /\ {list[d][i] : i \in DOMAIN list[d]} = {t \in Timers : method[t] = d /\ alarm[t] > 0}

\* No lost alarm: while a list holds a timer, the alarm register is set for it
\* or for an earlier time, or something is under way that will look at the list
\* (timer_process_alarm, esp_timer_impl_set_alarm_id, timer_alarm_handler).
\* In the default configuration: with ISR dispatch the code does not keep it.
Awaited(d) ==
    \/ fired \/ pc["ISR"] # "idle"
    \/ now < target /\ target <= HeadAlarm(list[d], alarm)
    \/ d = "TASK" /\ (notified \/ pc["TASK"] # "idle")

NoLostAlarm == \A d \in Methods : list[d] # <<>> /\ ~stale /\ ~isr => Awaited(d)

\* A timer that is due is dealt with (fired, freed, stopped or restarted),
\* whatever the other timers' owners keep doing (timer_task, timer_process_alarm).
Expired(t) == alarm[t] > 0 /\ alarm[t] <= now

Dispatched == \A t \in Timers : Expired(t) /\ ~isr ~> ~Expired(t) \/ stale

\* esp_timer_restart only ever unlinks a timer that is running: one that is not
\* is refused with ESP_ERR_INVALID_STATE.
NoStaleRemove == ~stale

\* A periodic timer created with skip_unhandled_events is called once for all
\* the periods it has missed (the arithmetic of timer_process_alarm).
SkipsMissed ==
    [][\A d \in Methods, t \in SkipTimers :
         cur[d] # t /\ cur'[d] = t /\ period[t] > 0 => alarm'[t] > now]_vars
==============================================================================
