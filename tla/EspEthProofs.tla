----------------------------- MODULE EspEthProofs -----------------------------
(***************************************************************************)
(* Proofs about EspEth: whatever the user, the timer and the loop do, the  *)
(* four views of the link agree when nothing is under way.                 *)
(***************************************************************************)
EXTENDS EspEth, TLAPS

Events == {"START", "STOP", "CONNECTED", "DISCONNECTED", "other"}

\* What an event makes of the interface (Dispatch).
AddedBy(e, a) == CASE e = "START" -> TRUE [] e = "STOP" -> FALSE [] OTHER -> a
UpBy(e, u)    == CASE e = "CONNECTED" -> TRUE [] e \in {"DISCONNECTED", "STOP"} -> FALSE [] OTHER -> u

\* The interface as the posts q will change it, one after the other: ha and hu
\* are its added and up before the first of them, and after each.
Future(q, a, u, ha, hu) ==
    /\ ha \in [0 .. Len(q) -> BOOLEAN] /\ hu \in [0 .. Len(q) -> BOOLEAN]
    /\ ha[0] = a /\ hu[0] = u
    /\ \A i \in 1 .. Len(q) : ha[i] = AddedBy(q[i], ha[i - 1]) /\ hu[i] = UpBy(q[i], hu[i - 1])
    /\ \A i \in 0 .. Len(q) : hu[i] => ha[i]

\* It will end as aa and uu, and never be up without being added.
Ends(q, a, u, aa, uu) ==
    \E ha, hu \in [0 .. Len(q) -> BOOLEAN] :
        Future(q, a, u, ha, hu) /\ ha[Len(q)] = aa /\ hu[Len(q)] = uu

(***************************************************************************)
(* The inductive invariant, before the first failure of the code.          *)
(***************************************************************************)
Views(l, m, s) == link = l /\ mac = m /\ status = s
Report == {"mac", "store", "post", "status"}

\* Between stop_timer and start_timer the timer's callback reports nothing.
TimerInv ==
    /\ op["timer"] = "check" /\ at["timer"] \in {"idle", "read"} \cup Report
    /\ at["timer"] \in Report => tmr /\ to["timer"] # status
    /\ at["timer"] \in {"post", "status"} => link = to["timer"]
    /\ tmr <=> (at["user"] = "stop_timer" \/ (at["user"] = "idle" /\ fsm = "START"))

\* The steps of esp_eth_start and esp_eth_stop.
UserInv ==
    /\ op["user"] \in {"start", "stop"}
    /\ at["user"] \in {"negotiate", "post_start", "read", "status", "start_timer"} => op["user"] = "start"
    /\ at["user"] \in {"stop_timer", "cas_link", "set_link", "post_stop"} => op["user"] = "stop"
    /\ at["user"] # "idle" => fsm = IF op["user"] = "start" THEN "START" ELSE "STOP"
    /\ at["user"] \in Report => to["user"] = IF op["user"] = "start" THEN "UP" ELSE "DOWN"

\* What the MAC, the driver and the PHY say of the link.
LinkInv ==
    /\ at["user"] \in {"negotiate", "post_start", "read", "post_stop"} => Views("DOWN", "DOWN", "DOWN")
    /\ at["user"] = "idle" /\ fsm = "STOP" => Views("DOWN", "DOWN", "DOWN")
    /\ at["user"] \in Report /\ op["user"] = "start" =>
         Views(IF at["user"] \in {"mac", "store"} THEN "DOWN" ELSE "UP",
               IF at["user"] = "mac" THEN "DOWN" ELSE "UP", "DOWN")
    /\ at["user"] = "set_link" => Views("DOWN", "UP", "UP")
    /\ at["user"] \in Report /\ op["user"] = "stop" =>
         Views("DOWN", IF at["user"] = "mac" THEN "UP" ELSE "DOWN", "DOWN")
    /\ at["user"] = "start_timer" => mac = link /\ status = link
    /\ at["user"] \in {"idle", "stop_timer", "cas_link"} =>
         mac = IF at["timer"] = "store" THEN to["timer"] ELSE link

\* The interface once the posts are dispatched.
EndAdded == IF at["user"] = "idle" THEN fsm = "START" ELSE at["user"] \notin {"negotiate", "post_start"}
EndUp    == \/ at["user"] \in {"mac", "store", "post"} /\ op["user"] = "stop"
            \/ at["user"] = "status"
            \/ at["user"] # "status" /\ at["timer"] = "status" /\ to["timer"] = "UP"
            \/ at["user"] # "status" /\ at["timer"] # "status" /\ status = "UP"

QueueInv == Ends(queue, added, up, EndAdded, EndUp)

CoreInv == TimerInv /\ UserInv /\ LinkInv /\ QueueInv

IInv == TypeOK /\ (fault = "none" => CoreInv)

(***************************************************************************)
(* Posting and dispatching.                                                *)
(***************************************************************************)
LEMMA EventBool ==
    ASSUME NEW e, NEW v \in BOOLEAN
    PROVE  AddedBy(e, v) \in BOOLEAN /\ UpBy(e, v) \in BOOLEAN
BY DEF AddedBy, UpBy

LEMMA EndsEmpty ==
    ASSUME NEW a \in BOOLEAN, NEW u \in BOOLEAN, u => a
    PROVE  Ends(<<>>, a, u, a, u)
<1>1. Len(<<>>) = 0
  OBVIOUS
<1>2. [i \in 0 .. 0 |-> a] \in [0 .. 0 -> BOOLEAN] /\ [i \in 0 .. 0 |-> u] \in [0 .. 0 -> BOOLEAN]
  OBVIOUS
<1>3. Future(<<>>, a, u, [i \in 0 .. 0 |-> a], [i \in 0 .. 0 |-> u])
  BY <1>1 DEF Future
<1> QED
  BY <1>1, <1>2, <1>3 DEF Ends

\* With nothing posted the interface is what it will be.
LEMMA EndsNow ==
    ASSUME NEW a, NEW u, NEW aa, NEW uu, Ends(<<>>, a, u, aa, uu)
    PROVE  a = aa /\ u = uu
<1>1. Len(<<>>) = 0
  OBVIOUS
<1> QED
  BY <1>1 DEF Ends, Future

\* The interface is never up without being added.
LEMMA EndsUp ==
    ASSUME NEW q \in Seq(Events), NEW a, NEW u, NEW aa, NEW uu, Ends(q, a, u, aa, uu)
    PROVE  u = TRUE => a = TRUE
<1>1. 0 \in 0 .. Len(q)
  OBVIOUS
<1>2. PICK ha \in [0 .. Len(q) -> BOOLEAN], hu \in [0 .. Len(q) -> BOOLEAN] : Future(q, a, u, ha, hu)
  BY DEF Ends
<1>3. (hu[0] => ha[0]) /\ ha[0] = a /\ hu[0] = u /\ ha[0] \in BOOLEAN
  BY <1>1, <1>2 DEF Future
<1> QED
  BY <1>3

LEMMA EndsAppend ==
    ASSUME NEW q \in Seq(Events), NEW e \in Events,
           NEW a, NEW u, NEW aa \in BOOLEAN, NEW uu \in BOOLEAN, Ends(q, a, u, aa, uu),
           UpBy(e, uu) => AddedBy(e, aa)
    PROVE  Ends(Append(q, e), a, u, AddedBy(e, aa), UpBy(e, uu))
<1>1. PICK ha \in [0 .. Len(q) -> BOOLEAN], hu \in [0 .. Len(q) -> BOOLEAN] :
        Future(q, a, u, ha, hu) /\ ha[Len(q)] = aa /\ hu[Len(q)] = uu
  BY DEF Ends
<1> DEFINE n  == Len(q)
           r  == Append(q, e)
           ka == [i \in 0 .. n + 1 |-> IF i = n + 1 THEN AddedBy(e, aa) ELSE ha[i]]
           ku == [i \in 0 .. n + 1 |-> IF i = n + 1 THEN UpBy(e, uu) ELSE hu[i]]
<1>2. n \in Nat /\ Len(r) = n + 1 /\ r[n + 1] = e /\ \A i \in 1 .. n : r[i] = q[i]
  OBVIOUS
<1>3. AddedBy(e, aa) \in BOOLEAN /\ UpBy(e, uu) \in BOOLEAN
  BY EventBool
<1> HIDE DEF n, r
<1>4. ka \in [0 .. n + 1 -> BOOLEAN] /\ ku \in [0 .. n + 1 -> BOOLEAN]
  BY <1>2, <1>3 DEF n
<1>5. \A i \in 0 .. n : ka[i] = ha[i] /\ ku[i] = hu[i]
  BY <1>2
<1>6. ka[n + 1] = AddedBy(e, aa) /\ ku[n + 1] = UpBy(e, uu)
  BY <1>2
<1> HIDE DEF ka, ku
<1>7. Future(r, a, u, ka, ku)
  <2>1. ka[0] = a /\ ku[0] = u
    BY <1>1, <1>2, <1>5 DEF Future
  <2>2. ASSUME NEW i \in 1 .. n + 1
        PROVE  ka[i] = AddedBy(r[i], ka[i - 1]) /\ ku[i] = UpBy(r[i], ku[i - 1])
    <3>1. CASE i = n + 1
      <4>1. i - 1 = n /\ n \in 0 .. n
        BY <1>2, <3>1
      <4>2. ka[i - 1] = aa /\ ku[i - 1] = uu
        BY <1>1, <1>5, <4>1 DEF n
      <4> QED BY <1>2, <1>6, <3>1, <4>2
    <3>2. CASE i \in 1 .. n
      <4>1. i \in 0 .. n /\ i - 1 \in 0 .. n
        BY <1>2, <3>2
      <4>2. ka[i] = ha[i] /\ ka[i - 1] = ha[i - 1] /\ ku[i] = hu[i] /\ ku[i - 1] = hu[i - 1] /\ r[i] = q[i]
        BY <1>2, <1>5, <3>2, <4>1
      <4>3. ha[i] = AddedBy(q[i], ha[i - 1]) /\ hu[i] = UpBy(q[i], hu[i - 1])
        BY <1>1, <3>2 DEF Future, n
      <4> QED BY <4>2, <4>3
    <3> QED BY <1>2, <3>1, <3>2
  <2>3. ASSUME NEW i \in 0 .. n + 1, ku[i]
        PROVE  ka[i]
    <3>1. CASE i = n + 1
      BY <1>6, <2>3, <3>1
    <3>2. CASE i \in 0 .. n
      BY <1>1, <1>5, <2>3, <3>2 DEF Future, n
    <3> QED BY <1>2, <3>1, <3>2
  <2> QED
    BY <1>2, <1>4, <2>1, <2>2, <2>3 DEF Future
<1> QED
  BY <1>2, <1>4, <1>6, <1>7 DEF Ends, r

LEMMA EndsTail ==
    ASSUME NEW q \in Seq(Events), q # <<>>, NEW a \in BOOLEAN, NEW u \in BOOLEAN,
           NEW aa, NEW uu, Ends(q, a, u, aa, uu)
    PROVE  Ends(Tail(q), AddedBy(Head(q), a), UpBy(Head(q), u), aa, uu)
<1>1. PICK ha \in [0 .. Len(q) -> BOOLEAN], hu \in [0 .. Len(q) -> BOOLEAN] :
        Future(q, a, u, ha, hu) /\ ha[Len(q)] = aa /\ hu[Len(q)] = uu
  BY DEF Ends
<1> DEFINE n  == Len(q)
           r  == Tail(q)
           ka == [i \in 0 .. n - 1 |-> ha[i + 1]]
           ku == [i \in 0 .. n - 1 |-> hu[i + 1]]
<1>2. n \in Nat \ {0} /\ Len(r) = n - 1 /\ q[1] = Head(q) /\ \A i \in 1 .. n - 1 : r[i] = q[i + 1]
  OBVIOUS
<1> HIDE DEF n, r
<1>3. ka \in [0 .. n - 1 -> BOOLEAN] /\ ku \in [0 .. n - 1 -> BOOLEAN]
  BY <1>2 DEF n
<1>4. \A i \in 0 .. n - 1 : ka[i] = ha[i + 1] /\ ku[i] = hu[i + 1]
  BY <1>2
<1> HIDE DEF ka, ku
<1>5. ka[0] = AddedBy(Head(q), a) /\ ku[0] = UpBy(Head(q), u)
  <2>1. ka[0] = ha[1] /\ ku[0] = hu[1]
    BY <1>2, <1>4
  <2>2. ha[1] = AddedBy(q[1], ha[0]) /\ hu[1] = UpBy(q[1], hu[0])
    BY <1>1, <1>2 DEF Future, n
  <2> QED BY <1>1, <1>2, <2>1, <2>2 DEF Future
<1>6. ka[n - 1] = aa /\ ku[n - 1] = uu
  BY <1>1, <1>2, <1>4 DEF n
<1>7. Future(r, AddedBy(Head(q), a), UpBy(Head(q), u), ka, ku)
  <2>1. ASSUME NEW i \in 1 .. n - 1
        PROVE  ka[i] = AddedBy(r[i], ka[i - 1]) /\ ku[i] = UpBy(r[i], ku[i - 1])
    <3>1. ka[i] = ha[i + 1] /\ ka[i - 1] = ha[i] /\ ku[i] = hu[i + 1] /\ ku[i - 1] = hu[i] /\ r[i] = q[i + 1]
      BY <1>2, <1>4
    <3>2. i + 1 \in 1 .. n /\ (i + 1) - 1 = i
      BY <1>2
    <3>3. ha[i + 1] = AddedBy(q[i + 1], ha[(i + 1) - 1]) /\ hu[i + 1] = UpBy(q[i + 1], hu[(i + 1) - 1])
      BY <1>1, <3>2 DEF Future, n
    <3> QED BY <3>1, <3>2, <3>3
  <2>2. ASSUME NEW i \in 0 .. n - 1, ku[i]
        PROVE  ka[i]
    BY <1>1, <1>2, <1>4, <2>2 DEF Future, n
  <2> QED
    BY <1>2, <1>3, <1>5, <2>1, <2>2 DEF Future
<1> QED
  BY <1>2, <1>3, <1>6, <1>7 DEF Ends, r

(***************************************************************************)
(* Types.                                                                  *)
(***************************************************************************)
LEMMA TypeInit == Init => TypeOK
<1> SUFFICES ASSUME Init PROVE TypeOK
  OBVIOUS
<1>1. queue \in Seq({"START", "STOP", "CONNECTED", "DISCONNECTED", "other"}) /\ Len(queue) <= QSize
  BY EthAssumption DEF Init
<1>2. at \in [Tasks -> Places] /\ op \in [Tasks -> {"start", "stop", "check"}] /\ to \in [Tasks -> Links]
  BY DEF Init, Links, Places
<1>3. trouble \in 0 .. Trouble /\ fault \in Faults
  BY EthAssumption DEF Init, Faults
<1>4. {wire, link, status, mac} \subseteq Links /\ fsm \in {"START", "STOP"}
  BY DEF Init, Links
<1>5. poll \in BOOLEAN /\ tmr \in BOOLEAN /\ added \in BOOLEAN /\ up \in BOOLEAN
  BY DEF Init
<1> QED
  BY <1>1, <1>2, <1>3, <1>4, <1>5 DEF TypeOK

\* What a task's move, a failure and a post do to the types.
TaskType == at \in [Tasks -> Places] /\ op \in [Tasks -> {"start", "stop", "check"}] /\ to \in [Tasks -> Links]
QueueType == queue \in Seq(Events) /\ Len(queue) <= QSize

LEMMA AppendType ==
    ASSUME QueueType, Room, NEW e \in Events, queue' = Append(queue, e)
    PROVE  QueueType'
<1>1. Append(queue, e) \in Seq(Events) /\ Len(Append(queue, e)) = Len(queue) + 1 /\ Len(queue) \in Nat
  BY DEF QueueType
<1> QED
  BY <1>1, EthAssumption DEF QueueType, Room

LEMMA PostType ==
    ASSUME TaskType, QueueType, fault \in Faults,
           NEW t \in Tasks, NEW e \in Events, NEW p \in Places, Post(t, e, p)
    PROVE  TaskType' /\ QueueType' /\ fault' \in Faults
<1>1. CASE Room /\ queue' = Append(queue, e) /\ Goto(t, p) /\ UNCHANGED fault
  <2>1. QueueType'
    BY <1>1, AppendType
  <2> QED BY <1>1, <2>1 DEF Goto, TaskType
<1>2. CASE Fails(t) /\ UNCHANGED queue
  BY <1>2 DEF Fails, Fault, Goto, TaskType, QueueType, Faults, Places
<1> QED
  BY <1>1, <1>2 DEF Post

LEMMA TypeStep ==
    ASSUME TypeOK, [Next]_vars
    PROVE  TypeOK'
<1> DEFINE Rest == /\ poll \in BOOLEAN /\ tmr \in BOOLEAN /\ added \in BOOLEAN /\ up \in BOOLEAN
                   /\ wire \in Links /\ link \in Links /\ status \in Links /\ mac \in Links
                   /\ fsm \in {"START", "STOP"} /\ trouble \in 0 .. Trouble
<1>0. /\ TypeOK => TaskType /\ QueueType /\ fault \in Faults /\ Rest
      /\ TaskType' /\ QueueType' /\ fault' \in Faults /\ Rest' => TypeOK'
  BY DEF TypeOK, TaskType, QueueType, Events
<1> SUFFICES TaskType' /\ QueueType' /\ fault' \in Faults /\ Rest'
  BY <1>0
<1> USE DEF Links, Faults
<1>1. CASE UNCHANGED vars
  BY <1>0, <1>1 DEF vars, driver, netif, tasks, TaskType, QueueType
<1>2. CASE Start \/ Stop
  BY <1>0, <1>2 DEF Start, Stop, netif, TaskType, QueueType, Places
<1>3. CASE PostStart
  <2>1. TaskType' /\ QueueType' /\ fault' \in Faults
    BY <1>0, <1>3, PostType DEF PostStart, Tasks, Events, Places
  <2> QED BY <1>0, <1>3, <2>1 DEF PostStart, driver, netif
<1>4. CASE PostStop
  <2>1. TaskType' /\ QueueType' /\ fault' \in Faults
    BY <1>0, <1>4, PostType DEF PostStop, Tasks, Events, Places
  <2> QED BY <1>0, <1>4, <2>1 DEF PostStop, driver, netif
<1>5. CASE \E t \in Tasks : PostLink(t)
  <2>1. PICK t \in Tasks : PostLink(t)
    BY <1>5
  <2>2. TaskType' /\ QueueType' /\ fault' \in Faults
    BY <1>0, <2>1, PostType DEF PostLink, Tasks, Events, Places
  <2> QED BY <1>0, <2>1, <2>2 DEF PostLink, driver, netif
<1>6. CASE StartTimer \/ StopTimer
  <2>1. PICK p \in {"idle", "cas_link"} : Goto("user", p)
    BY <1>6 DEF StartTimer, StopTimer, Fails
  <2>2. fault' \in Faults
    <3>1. op["user"] \in {"start", "stop", "check"}
      BY <1>0 DEF TaskType, Tasks
    <3> QED BY <1>0, <1>6, <3>1 DEF StartTimer, StopTimer, Fails, Fault
  <2>3. TaskType'
    BY <1>0, <2>1 DEF Goto, TaskType, Places
  <2> QED
    BY <1>0, <1>6, <2>2, <2>3 DEF StartTimer, StopTimer, netif, QueueType
<1>7. CASE Negotiate \/ CasLink \/ SetLink
  BY <1>0, <1>7 DEF Negotiate, CasLink, SetLink, netif, TaskType, QueueType, Places, Goto, Fails, Fault, Tasks
<1>8. CASE Check
  BY <1>0, <1>8 DEF Check, driver, netif, TaskType, QueueType, Places, Goto, Tasks
<1>9. CASE \E t \in Tasks : Read(t)
  <2>1. PICK t \in Tasks : Read(t)
    BY <1>9
  <2>2. fault' \in Faults
    BY <1>0, <2>1 DEF Read, Fault
  <2> QED BY <1>0, <2>1, <2>2 DEF Read, Return, driver, netif, TaskType, QueueType, Places
<1>10. CASE \E t \in Tasks : RegisterFails(t)
  <2>1. PICK t \in Tasks : RegisterFails(t)
    BY <1>10
  <2>2. trouble' \in 0 .. Trouble
    BY <1>0, <2>1, EthAssumption DEF RegisterFails
  <2>3. fault' \in Faults
    BY <1>0, <2>1 DEF RegisterFails, Fails, Fault, TaskType
  <2> QED
    BY <1>0, <2>1, <2>2, <2>3 DEF RegisterFails, Fails, Goto, driver, netif, TaskType, QueueType, Places
<1>11. CASE \E t \in Tasks : SetMac(t) \/ StoreLink(t) \/ SetStatus(t)
  BY <1>0, <1>11 DEF SetMac, StoreLink, SetStatus, Return, Goto, Fault, driver, netif, TaskType, QueueType, Places
<1>12. CASE Dispatch
  <2>1. QueueType'
    BY <1>0, <1>12, EthAssumption DEF Dispatch, QueueType
  <2>2. added' \in BOOLEAN /\ up' \in BOOLEAN
    BY <1>0, <1>12 DEF Dispatch
  <2> QED BY <1>0, <1>12, <2>1, <2>2 DEF Dispatch, driver, tasks, TaskType
<1>13. CASE OtherPost
  <2>1. QueueType'
    BY <1>0, <1>13, AppendType DEF OtherPost, Events
  <2> QED BY <1>0, <1>13, <2>1, EthAssumption DEF OtherPost, driver, netif, tasks, TaskType
<1>14. CASE WireChanges
  BY <1>0, <1>14 DEF WireChanges, driver, netif, tasks, TaskType, QueueType
<1> QED
  BY <1>1, <1>2, <1>3, <1>4, <1>5, <1>6, <1>7, <1>8, <1>9, <1>10, <1>11, <1>12, <1>13, <1>14
     DEF Next, UserStep, Step, Tasks

(***************************************************************************)
(* The steps of the tasks keep the first three parts.                      *)
(***************************************************************************)
CtrlInv == TimerInv /\ UserInv /\ LinkInv

LEMMA CoreInit == Init => CoreInv
<1> SUFFICES ASSUME Init PROVE CoreInv
  OBVIOUS
<1>1. at["user"] = "idle" /\ at["timer"] = "idle" /\ op["user"] = "start" /\ op["timer"] = "check"
  BY DEF Init, Tasks
<1>2. TimerInv /\ UserInv /\ LinkInv
  BY <1>1 DEF Init, TimerInv, UserInv, LinkInv, Report, Views
<1>3. EndAdded = FALSE /\ EndUp = FALSE
  BY <1>1 DEF Init, EndAdded, EndUp
<1>4. queue = <<>> /\ added = FALSE /\ up = FALSE
  BY DEF Init
<1>5. Ends(<<>>, FALSE, FALSE, FALSE, FALSE)
  BY EndsEmpty
<1>6. QueueInv
  BY <1>3, <1>4, <1>5 DEF QueueInv
<1> QED BY <1>2, <1>6 DEF CoreInv

\* A failure that is not counted is one of a check.
LEMMA FailsNone ==
    ASSUME NEW t \in Tasks, op[t] \in {"start", "stop", "check"}, fault = "none", Fails(t)
    PROVE  Goto(t, "idle") /\ (fault' = "none" => op[t] = "check")
BY DEF Fails, Fault

LEMMA CtrlStep ==
    ASSUME TypeOK, CtrlInv, fault = "none", fault' = "none", [Next]_vars
    PROVE  CtrlInv'
<1>0. /\ at \in [Tasks -> Places] /\ op \in [Tasks -> {"start", "stop", "check"}] /\ to \in [Tasks -> Links]
      /\ wire \in Links /\ link \in Links /\ status \in Links /\ mac \in Links /\ fsm \in {"START", "STOP"}
      /\ tmr \in BOOLEAN
  BY DEF TypeOK
<1> USE DEF CtrlInv, TimerInv, UserInv, LinkInv, Views, Report, Tasks, Links, netif, driver, tasks
<1>1. CASE UNCHANGED vars
  BY <1>1 DEF vars
<1>2. CASE Start \/ Negotiate
  BY <1>0, <1>2 DEF Start, Negotiate, Goto
<1>3. CASE Stop
  BY <1>0, <1>3 DEF Stop
<1>4. CASE PostStart
  <2>1. Goto("user", "read")
    BY <1>0, <1>4, FailsNone DEF PostStart, Post
  <2> QED BY <1>0, <1>4, <2>1 DEF PostStart, Goto
<1>5. CASE StartTimer
  <2>1. Goto("user", "idle") /\ tmr' = TRUE
    BY <1>5 DEF StartTimer, Fails
  <2> QED BY <1>0, <1>5, <2>1 DEF StartTimer, Goto
<1>6. CASE StopTimer
  <2>1. Goto("user", "cas_link") /\ ~Reporting("timer") /\ tmr' = FALSE
    BY <1>0, <1>6, FailsNone DEF StopTimer, Fault
  <2> QED BY <1>0, <1>6, <2>1 DEF StopTimer, Goto, Reporting
<1>7. CASE CasLink
  <2>1. link = status
    BY <1>7 DEF CasLink, Fault
  <2> QED BY <1>0, <1>7, <2>1 DEF CasLink, Goto
<1>8. CASE SetLink
  BY <1>0, <1>8 DEF SetLink
<1>9. CASE PostStop
  <2>1. Goto("user", "idle")
    BY <1>0, <1>9, FailsNone DEF PostStop, Post
  <2>2. /\ at["user"] = "post_stop" /\ at'["user"] = "idle" /\ at'["timer"] = at["timer"]
        /\ op' = op /\ to' = to /\ UNCHANGED driver
    BY <1>0, <1>9, <2>1 DEF PostStop, Goto
  <2>3. at["timer"] \notin Report /\ fsm = "STOP"
    BY <2>2
  <2> QED BY <1>0, <2>2, <2>3
<1>10. CASE Check
  BY <1>0, <1>10 DEF Check, Goto
<1>11. CASE Read("user")
  <2>1. /\ at["user"] = "read" /\ at'["user"] = (IF status = wire THEN "start_timer" ELSE "mac")
        /\ at'["timer"] = at["timer"] /\ to'["user"] = wire /\ to'["timer"] = to["timer"]
        /\ op' = op /\ UNCHANGED driver
    BY <1>0, <1>11 DEF Read, Return
  <2>2. at["timer"] \notin Report /\ op["user"] = "start" /\ Views("DOWN", "DOWN", "DOWN")
    BY <2>1
  <2> QED BY <1>0, <2>1, <2>2
<1>12. CASE Read("timer")
  <2>1. status # wire => tmr
    BY <1>12 DEF Read, Fault
  <2> QED BY <1>0, <1>12, <2>1 DEF Read, Return
<1>13. CASE \E t \in Tasks : RegisterFails(t)
  <2>1. PICK t \in Tasks : RegisterFails(t)
    BY <1>13
  <2>2. Goto(t, "idle") /\ t = "timer"
    BY <1>0, <2>1, FailsNone DEF RegisterFails
  <2> QED BY <1>0, <2>1, <2>2 DEF RegisterFails, Goto
<1>14. CASE \E t \in Tasks : SetMac(t)
  <2>1. PICK t \in Tasks : SetMac(t)
    BY <1>14
  <2>2. Goto(t, "store")
    BY <2>1 DEF SetMac, Fault
  <2> QED BY <1>0, <2>1, <2>2 DEF SetMac, Goto
<1>15. CASE \E t \in Tasks : StoreLink(t)
  BY <1>0, <1>15 DEF StoreLink, Goto
<1>16. CASE PostLink("user")
  <2>1. Goto("user", IF op["user"] = "stop" THEN "post_stop" ELSE "status")
    BY <1>0, <1>16, FailsNone DEF PostLink, Post
  <2> QED BY <1>0, <1>16, <2>1 DEF PostLink, Goto
<1>17. CASE PostLink("timer")
  <2>1. Goto("timer", "status") \/ Goto("timer", "idle")
    BY <1>0, <1>17 DEF PostLink, Post, Fails
  <2> QED BY <1>0, <1>17, <2>1 DEF PostLink, Goto
<1>18. CASE \E t \in Tasks : SetStatus(t)
  BY <1>0, <1>18 DEF SetStatus, Goto, Return
<1>19. CASE Dispatch \/ OtherPost \/ WireChanges
  <2>1. UNCHANGED <<driver, tasks>>
    BY <1>19 DEF Dispatch, OtherPost, WireChanges
  <2> QED BY <2>1
<1> QED
  BY <1>1, <1>2, <1>3, <1>4, <1>5, <1>6, <1>7, <1>8, <1>9, <1>10, <1>11, <1>12, <1>13, <1>14,
     <1>15, <1>16, <1>17, <1>18, <1>19
     DEF Next, UserStep, Step

(***************************************************************************)
(* The posts keep the fourth part.                                         *)
(***************************************************************************)
LEMMA EndBool == EndAdded \in BOOLEAN /\ EndUp \in BOOLEAN
BY DEF EndAdded, EndUp

\* A step that neither posts nor dispatches: the end stays in sight.
LEMMA EndSame ==
    ASSUME QueueInv, queue' = queue, added' = added, up' = up, EndAdded' <=> EndAdded, EndUp' <=> EndUp
    PROVE  QueueInv'
<1>1. EndAdded' = EndAdded /\ EndUp' = EndUp
  BY DEF EndAdded, EndUp
<1> QED
  BY <1>1 DEF QueueInv

\* A post: the end is what the event makes of it.
LEMMA EndPost ==
    ASSUME queue \in Seq(Events), QueueInv, NEW e \in Events,
           queue' = Append(queue, e), added' = added, up' = up,
           EndAdded' <=> AddedBy(e, EndAdded), EndUp' <=> UpBy(e, EndUp), EndUp' => EndAdded'
    PROVE  QueueInv'
<1>1. EndAdded' = AddedBy(e, EndAdded) /\ EndUp' = UpBy(e, EndUp)
  <2>1. EndAdded' \in BOOLEAN /\ EndUp' \in BOOLEAN
    BY DEF EndAdded, EndUp
  <2> QED BY <2>1, EndBool, EventBool
<1>2. Ends(Append(queue, e), added, up, AddedBy(e, EndAdded), UpBy(e, EndUp))
  BY <1>1, EndBool, EndsAppend DEF QueueInv
<1> QED
  BY <1>1, <1>2 DEF QueueInv

LEMMA QueueStep ==
    ASSUME TypeOK, CtrlInv, QueueInv, fault = "none", fault' = "none", [Next]_vars
    PROVE  QueueInv'
<1>0. /\ at \in [Tasks -> Places] /\ op \in [Tasks -> {"start", "stop", "check"}] /\ to \in [Tasks -> Links]
      /\ wire \in Links /\ link \in Links /\ status \in Links /\ mac \in Links /\ fsm \in {"START", "STOP"}
      /\ tmr \in BOOLEAN /\ added \in BOOLEAN /\ up \in BOOLEAN /\ queue \in Seq(Events)
  BY DEF TypeOK, Events
<1>1. CASE UNCHANGED vars
  <2>1. (EndAdded' <=> EndAdded) /\ (EndUp' <=> EndUp)
    BY <1>1 DEF vars, driver, tasks, EndAdded, EndUp
  <2> QED BY <1>1, <2>1, EndSame DEF vars, netif
<1>2. CASE \/ Start \/ Negotiate \/ Stop \/ StartTimer \/ StopTimer \/ CasLink \/ SetLink \/ Check
           \/ \E t \in Tasks : Read(t) \/ RegisterFails(t) \/ SetMac(t) \/ StoreLink(t) \/ SetStatus(t)
           \/ WireChanges
  <2>1. queue' = queue /\ added' = added /\ up' = up
    BY <1>2 DEF Start, Negotiate, Stop, StartTimer, StopTimer, CasLink, SetLink, Check, Read, RegisterFails, SetMac,
       StoreLink, SetStatus, WireChanges, netif
  <2>2. (EndAdded' <=> EndAdded) /\ (EndUp' <=> EndUp)
    <3> USE DEF EndAdded, EndUp, CtrlInv, TimerInv, UserInv, LinkInv, Views, Report, Tasks, Links, driver, tasks, Goto
    <3>1. CASE Start \/ Negotiate \/ Stop
      BY <1>0, <3>1 DEF Start, Negotiate, Stop
    <3>2. CASE StartTimer
      <4>1. Goto("user", "idle")
        BY <3>2 DEF StartTimer, Fails
      <4> QED BY <1>0, <3>2, <4>1 DEF StartTimer
    <3>3. CASE StopTimer
      <4>1. Goto("user", "cas_link") /\ ~Reporting("timer")
        BY <1>0, <3>3, FailsNone DEF StopTimer, Fault
      <4> QED BY <1>0, <3>3, <4>1 DEF StopTimer, Reporting
    <3>4. CASE CasLink
      BY <1>0, <3>4 DEF CasLink
    <3>5. CASE SetLink
      BY <1>0, <3>5 DEF SetLink
    <3>6. CASE Check
      BY <1>0, <3>6 DEF Check
    <3>7. CASE \E t \in Tasks : Read(t)
      BY <1>0, <3>7 DEF Read, Return
    <3>8. CASE \E t \in Tasks : RegisterFails(t)
      <4>1. PICK t \in Tasks : RegisterFails(t)
        BY <3>8
      <4>2. Goto(t, "idle") /\ t = "timer"
        BY <1>0, <4>1, FailsNone DEF RegisterFails
      <4> QED BY <1>0, <4>1, <4>2 DEF RegisterFails
    <3>9. CASE \E t \in Tasks : SetMac(t)
      <4>1. PICK t \in Tasks : SetMac(t)
        BY <3>9
      <4>2. Goto(t, "store")
        BY <4>1 DEF SetMac, Fault
      <4> QED BY <1>0, <4>1, <4>2 DEF SetMac
    <3>10. CASE \E t \in Tasks : StoreLink(t)
      BY <1>0, <3>10 DEF StoreLink
    <3>11. CASE \E t \in Tasks : SetStatus(t)
      BY <1>0, <3>11 DEF SetStatus, Return
    <3>12. CASE WireChanges
      BY <3>12 DEF WireChanges
    <3> QED
      BY <1>2, <3>1, <3>2, <3>3, <3>4, <3>5, <3>6, <3>7, <3>8, <3>9, <3>10, <3>11, <3>12
  <2> QED BY <2>1, <2>2, EndSame
<1>3. CASE PostStart
  <2>1. Goto("user", "read") /\ queue' = Append(queue, "START") /\ added' = added /\ up' = up
    BY <1>0, <1>3, FailsNone DEF PostStart, Post, netif, CtrlInv, UserInv, Tasks
  <2>2. (EndAdded' <=> TRUE) /\ (EndUp' <=> EndUp)
    BY <1>0, <1>3, <2>1 DEF PostStart, Goto, driver, Tasks, EndAdded, EndUp
  <2>3. AddedBy("START", EndAdded) = TRUE /\ UpBy("START", EndUp) = EndUp
    BY DEF AddedBy, UpBy
  <2> QED BY <1>0, <2>1, <2>2, <2>3, EndPost DEF Events
<1>4. CASE PostStop
  <2>1. Goto("user", "idle") /\ queue' = Append(queue, "STOP") /\ added' = added /\ up' = up
    BY <1>0, <1>4, FailsNone DEF PostStop, Post, netif, CtrlInv, UserInv, Tasks
  <2>2. ~EndAdded' /\ ~EndUp'
    BY <1>0, <1>4, <2>1 DEF PostStop, Goto, driver, Tasks, EndAdded, EndUp, CtrlInv, UserInv, TimerInv, LinkInv, Views, Report
  <2>3. AddedBy("STOP", EndAdded) = FALSE /\ UpBy("STOP", EndUp) = FALSE
    BY DEF AddedBy, UpBy
  <2> QED BY <1>0, <2>1, <2>2, <2>3, EndPost DEF Events
<1>5. CASE PostLink("user") \/ PostLink("timer")
  <2>1. PICK t \in Tasks : PostLink(t)
    BY <1>5 DEF Tasks
  <2> DEFINE e == IF to[t] = "UP" THEN "CONNECTED" ELSE "DISCONNECTED"
  <2>2. added' = added /\ up' = up /\ UNCHANGED driver /\ at[t] = "post" /\ e \in Events
    BY <2>1 DEF PostLink, netif, Events
  <2>3. CASE ~Room
    <3>1. t = "timer" /\ Goto(t, "idle") /\ queue' = queue
      BY <1>0, <2>1, <2>3, FailsNone DEF PostLink, Post, CtrlInv, UserInv, Tasks
    <3>2. (EndAdded' <=> EndAdded) /\ (EndUp' <=> EndUp)
      BY <1>0, <2>2, <3>1 DEF Goto, driver, Tasks, EndAdded, EndUp, CtrlInv, UserInv, TimerInv, Report
    <3> QED BY <2>2, <3>1, <3>2, EndSame
  <2>4. CASE Room
    <3>1. Goto(t, IF op[t] = "stop" THEN "post_stop" ELSE "status") /\ queue' = Append(queue, e)
      BY <2>1, <2>4 DEF PostLink, Post
    <3>2. AddedBy(e, EndAdded) = EndAdded /\ UpBy(e, EndUp) = (to[t] = "UP")
      BY <1>0 DEF AddedBy, UpBy, Links
    <3>3. EndAdded /\ EndAdded'
      BY <1>0, <2>2, <3>1 DEF Goto, driver, Tasks, EndAdded, CtrlInv, UserInv, TimerInv, Report
    <3>4. EndUp' <=> (to[t] = "UP")
      BY <1>0, <2>2, <3>1
         DEF Goto, driver, Tasks, EndUp, CtrlInv, UserInv, TimerInv, LinkInv, Views, Report, Links
    <3> HIDE DEF e
    <3> QED BY <1>0, <2>2, <3>1, <3>2, <3>3, <3>4, EndPost
  <2> QED BY <2>3, <2>4
<1>6. CASE OtherPost
  <2>1. queue' = Append(queue, "other") /\ added' = added /\ up' = up
    BY <1>6 DEF OtherPost, netif
  <2>2. (EndAdded' <=> EndAdded) /\ (EndUp' <=> EndUp)
    BY <1>6 DEF OtherPost, driver, tasks, EndAdded, EndUp
  <2>3. AddedBy("other", EndAdded) = EndAdded /\ UpBy("other", EndUp) = EndUp
    BY DEF AddedBy, UpBy
  <2>4. EndUp => EndAdded
    BY <1>0 DEF EndAdded, EndUp, CtrlInv, UserInv, TimerInv, LinkInv, Views, Report, Links, Tasks, Places
  <2> QED BY <1>0, <2>1, <2>2, <2>3, <2>4, EndPost DEF Events
<1>7. CASE Dispatch
  <2>1. added' = AddedBy(Head(queue), added) /\ up' = UpBy(Head(queue), up)
    BY <1>7 DEF Dispatch, AddedBy, UpBy
  <2>2. EndAdded' = EndAdded /\ EndUp' = EndUp
    BY <1>7 DEF Dispatch, driver, tasks, EndAdded, EndUp
  <2>3. queue # <<>> /\ queue' = Tail(queue)
    BY <1>7 DEF Dispatch
  <2>4. Ends(Tail(queue), AddedBy(Head(queue), added), UpBy(Head(queue), up), EndAdded, EndUp)
    BY <1>0, <2>3, EndsTail DEF QueueInv
  <2> QED BY <2>1, <2>2, <2>3, <2>4 DEF QueueInv
<1> QED
  BY <1>1, <1>2, <1>3, <1>4, <1>5, <1>6, <1>7 DEF Next, UserStep, Step, Tasks

LEMMA NoneBefore ==
    ASSUME TypeOK, [Next]_vars, fault' = "none"
    PROVE  fault = "none"
<1>0. \A t \in Tasks : op[t] \in {"start", "stop", "check"}
  BY DEF TypeOK
<1>1. \A f : Fault(f) /\ f # "none" => fault = "none"
  BY DEF Fault
<1>2. \A t \in Tasks : Fails(t) => fault = "none"
  BY <1>0, <1>1 DEF Fails
<1>3. ASSUME NEW t \in Tasks, NEW e, NEW p, Post(t, e, p)
      PROVE  fault = "none"
  BY <1>2, <1>3 DEF Post
<1>4. CASE UNCHANGED vars
  BY <1>4 DEF vars
<1>5. CASE Start \/ Negotiate \/ Stop \/ SetLink \/ Check \/ Dispatch \/ OtherPost \/ WireChanges
  BY <1>5 DEF Start, Negotiate, Stop, SetLink, Check, Dispatch, OtherPost, WireChanges
<1>6. CASE PostStart \/ PostStop \/ PostLink("user") \/ PostLink("timer")
  BY <1>3, <1>6 DEF PostStart, PostStop, PostLink, Tasks
<1>7. CASE StartTimer \/ StopTimer
  BY <1>1, <1>2, <1>7 DEF StartTimer, StopTimer, Tasks
<1>8. CASE CasLink
  BY <1>1, <1>8 DEF CasLink
<1>9. CASE \E t \in Tasks : Read(t)
  BY <1>1, <1>9 DEF Read
<1>10. CASE \E t \in Tasks : RegisterFails(t)
  BY <1>2, <1>10 DEF RegisterFails
<1>11. CASE \E t \in Tasks : SetMac(t) \/ StoreLink(t) \/ SetStatus(t)
  BY <1>1, <1>11 DEF SetMac, StoreLink, SetStatus
<1> QED
  BY <1>4, <1>5, <1>6, <1>7, <1>8, <1>9, <1>10, <1>11 DEF Next, UserStep, Step, Tasks

LEMMA Inductive == Spec => []IInv
<1>1. Init => IInv
  BY TypeInit, CoreInit DEF IInv
<1>2. IInv /\ [Next]_vars => IInv'
  BY TypeStep, NoneBefore, CtrlStep, QueueStep DEF IInv, CoreInv, CtrlInv
<1> QED
  BY <1>1, <1>2, PTL DEF Spec

\* Whatever the order of esp_eth_start, esp_eth_stop, the callbacks of the
\* timer and the handlers of the loop, and whatever posts are refused: an
\* interface that is up is in the stack, and when nothing is under way the
\* driver, the MAC, the PHY and the interface say the same of the link, until
\* the code fails in one of the ways fault names.  For every size of the queue.
THEOREM LinkViewsAgree == Spec => []RestAgrees
<1>1. IInv => RestAgrees
  <2> SUFFICES ASSUME IInv PROVE RestAgrees
    OBVIOUS
  <2>1. TypeOK
    BY DEF IInv
  <2>2. ASSUME fault = "none" PROVE up => added
    <3>1. QueueInv /\ queue \in Seq(Events)
      BY <2>1, <2>2 DEF IInv, CoreInv, TypeOK, Events
    <3>2. up = TRUE => added = TRUE
      BY <3>1, EndsUp DEF QueueInv
    <3> QED BY <2>1, <3>2 DEF TypeOK
  <2>3. ASSUME fault = "none", AtRest
        PROVE  /\ added = (fsm = "START") /\ tmr = (fsm = "START")
               /\ mac = link
               /\ up = (status = "UP")
    <3>1. CoreInv /\ queue = <<>> /\ at["user"] = "idle" /\ at["timer"] = "idle"
      BY <2>3 DEF IInv, AtRest, Tasks
    <3>2. mac = link /\ (tmr <=> fsm = "START")
      BY <3>1 DEF CoreInv, TimerInv, LinkInv
    <3>3. (EndAdded <=> fsm = "START") /\ (EndUp <=> status = "UP")
      BY <3>1 DEF EndAdded, EndUp
    <3>4. added = EndAdded /\ up = EndUp
      BY <3>1, EndsNow DEF CoreInv, QueueInv
    <3>5. tmr \in BOOLEAN /\ added \in BOOLEAN /\ up \in BOOLEAN
      BY <2>1 DEF TypeOK
    <3>6. tmr = (fsm = "START")
      BY <3>2, <3>5
    <3>7. added = (fsm = "START")
      BY <3>3, <3>4, <3>5
    <3>8. up = (status = "UP")
      BY <3>3, <3>4, <3>5
    <3> QED BY <3>2, <3>6, <3>7, <3>8
  <2> QED BY <2>1, <2>2, <2>3 DEF RestAgrees
<1> QED
  BY <1>1, Inductive, PTL
==============================================================================
