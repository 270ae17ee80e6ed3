------------------------------- MODULE EspEth -------------------------------
(***************************************************************************)
(* The Ethernet driver of components/esp_eth: esp_eth.c with the PHY and    *)
(* MAC of the Davicom DM9051 below it, the glue to esp_netif above it, and  *)
(* the queue of the default event loop between the two.  A user's task      *)
(* starts and stops the driver; a periodic timer looks at the link in the   *)
(* task of esp_timer; the loop's task brings the network interface up and   *)
(* down.  Whoever finds the link changed reports it in steps: the MAC, the  *)
(* link of the driver, the event, the link_status of the PHY.               *)
(***************************************************************************)
EXTENDS Integers, Sequences

CONSTANTS QSize,    \* the size of the event queue
          Trouble   \* how often another post takes a place in the queue, or
                    \* a register cannot be read or written

ASSUME EthAssumption == QSize \in Nat \ {0} /\ Trouble \in Nat

VARIABLES poll,     \* the MAC polls the chip with a timer of its own
          wire,     \* the link, as the chip sees it
          fsm,      \* eth_driver->fsm
          link,     \* eth_driver->link
          status,   \* phy_802_3->link_status
          mac,      \* the receiver of the MAC, with its poll timer if it has one
          tmr,      \* check_link_timer is armed
          queue,    \* the posts in the event queue
          added,    \* the network interface has been added to the stack
          up,       \* the network interface is up
          at,       \* at[t]: where task t is
          op,       \* op[t]: what it does: "start", "stop", "check"
          to,       \* to[t]: the link it reports
          trouble,  \* what is left of Trouble
          fault     \* history: how the code has failed, see Faults

driver == <<fsm, link, status, mac, tmr>>
netif  == <<added, up>>
tasks  == <<at, op, to>>
vars   == <<poll, wire, driver, queue, netif, tasks, trouble, fault>>

Links == {"UP", "DOWN"}
Tasks == {"user", "timer"}
Places == {"idle", "negotiate", "post_start", "read", "mac", "store", "post", "status",
           "start_timer", "stop_timer", "cas_link", "set_link", "post_stop"}
\* late: a callback goes on after esp_eth_stop has stopped its timer; poll: the
\* poll timer refuses, and the report is never repeated; flap: the wire is back
\* where it was before a report was repeated; stale: stopped before that, and
\* wrong until the next start; start, stop: an error in the middle of either.
Faults == {"none", "late", "poll", "flap", "start", "stop", "stale"}

\* The driver has been installed (esp_eth_driver_install) and the glue attached.
Init ==
    /\ poll \in BOOLEAN /\ wire \in Links
    /\ fsm = "STOP" /\ link = "DOWN" /\ status = "DOWN" /\ mac = "DOWN" /\ tmr = FALSE
    /\ queue = <<>> /\ added = FALSE /\ up = FALSE
    /\ at = [t \in Tasks |-> "idle"]
    /\ op = [t \in Tasks |-> IF t = "user" THEN "start" ELSE "check"]
    /\ to = [t \in Tasks |-> "DOWN"]
    /\ trouble = Trouble /\ fault = "none"

-----------------------------------------------------------------------------
Room == Len(queue) < QSize

Goto(t, place) == at' = [at EXCEPT ![t] = place] /\ UNCHANGED <<op, to>>

\* History: the first failure counts.
Fault(f) == fault' = IF fault = "none" THEN f ELSE fault

\* A function returns an error to its caller: a check is tried again after the
\* period, start and stop leave what they have done.
Fails(t) ==
    /\ Goto(t, "idle")
    /\ IF op[t] = "check" THEN UNCHANGED fault ELSE Fault(op[t])

Reporting(t) == at[t] \in {"mac", "store", "post", "status"}

\* esp_event_post with no time to wait.
Post(t, event, next) ==
    \/ Room /\ queue' = Append(queue, event) /\ Goto(t, next) /\ UNCHANGED fault
    \/ ~Room /\ Fails(t) /\ UNCHANGED queue

-----------------------------------------------------------------------------
(* esp_eth_start and esp_eth_stop.  Each is refused in the wrong state. *)

Start ==
    /\ at["user"] = "idle" /\ fsm = "STOP"
    /\ fsm' = "START"
    /\ at' = [at EXCEPT !["user"] = "negotiate"] /\ op' = [op EXCEPT !["user"] = "start"]
    /\ UNCHANGED <<poll, wire, link, status, mac, tmr, queue, netif, to, trouble, fault>>

\* phy->autonego_ctrl with RESTART, unless the user has switched negotiation off,
\* takes link_status for down.
Negotiate ==
    /\ at["user"] = "negotiate"
    /\ status' \in {status, "DOWN"}
    /\ Goto("user", "post_start")
    /\ UNCHANGED <<poll, wire, fsm, link, mac, tmr, queue, netif, trouble, fault>>

PostStart ==
    /\ at["user"] = "post_start"
    /\ Post("user", "START", "read")
    /\ UNCHANGED <<poll, wire, driver, netif, trouble>>

\* esp_timer_start_periodic refuses a timer that is armed.
StartTimer ==
    /\ at["user"] = "start_timer"
    /\ IF tmr THEN Fails("user") ELSE Goto("user", "idle") /\ UNCHANGED fault
    /\ tmr' = TRUE
    /\ UNCHANGED <<poll, wire, fsm, link, status, mac, queue, netif, trouble>>

Stop ==
    /\ at["user"] = "idle" /\ fsm = "START"
    /\ fsm' = "STOP"
    /\ at' = [at EXCEPT !["user"] = "stop_timer"] /\ op' = [op EXCEPT !["user"] = "stop"]
    /\ UNCHANGED <<poll, wire, link, status, mac, tmr, queue, netif, to, trouble, fault>>

\* esp_timer_stop refuses a timer that is not armed; it does not wait for a
\* callback that runs, which may go on with its report.
StopTimer ==
    /\ at["user"] = "stop_timer"
    /\ \/ ~tmr /\ Fails("user")
       \/ tmr /\ Goto("user", "cas_link")
          /\ IF Reporting("timer") THEN Fault("late") ELSE UNCHANGED fault
    /\ tmr' = FALSE
    /\ UNCHANGED <<poll, wire, fsm, link, status, mac, queue, netif, trouble>>

\* Mutant: the link is taken down in the driver only.
CasLinkMutant ==
    /\ at["user"] = "cas_link"
    /\ link' = "DOWN"
    /\ Goto("user", "post_stop")
    /\ IF link = status THEN UNCHANGED fault ELSE Fault("stale")
    /\ UNCHANGED <<poll, wire, fsm, status, mac, tmr, queue, netif, trouble>>

\* A report that was cut short has left link and link_status different: this
\* does not mend it.
CasLink ==
    /\ at["user"] = "cas_link"
    /\ link' = "DOWN"
    /\ Goto("user", IF link = "UP" THEN "set_link" ELSE "post_stop")
    /\ IF link = status THEN UNCHANGED fault ELSE Fault("stale")
    /\ UNCHANGED <<poll, wire, fsm, status, mac, tmr, queue, netif, trouble>>

\* esp_eth_phy_802_3_set_link: link_status first, then the report.  With a
\* link_status that is down already nothing stops the MAC.
SetLink ==
    /\ at["user"] = "set_link"
    /\ status' = "DOWN"
    /\ to' = [to EXCEPT !["user"] = "DOWN"]
    /\ at' = [at EXCEPT !["user"] = IF status = "UP" THEN "mac" ELSE "post_stop"]
    /\ UNCHANGED <<poll, wire, fsm, link, mac, tmr, queue, netif, op, trouble, fault>>

PostStop ==
    /\ at["user"] = "post_stop"
    /\ Post("user", "STOP", "idle")
    /\ UNCHANGED <<poll, wire, driver, netif, trouble>>

-----------------------------------------------------------------------------
(* phy->get_link: by esp_eth_start, and by the timer's callback. *)
Check ==
    /\ tmr /\ at["timer"] = "idle"
    /\ Goto("timer", "read")
    /\ UNCHANGED <<poll, wire, driver, queue, netif, trouble, fault>>

\* What follows when get_link returns.
Return(t) == IF op[t] = "start" THEN "start_timer" ELSE "idle"

\* Mutant: link_status is set before the report, not after it.
ReadMutant(t) ==
    /\ at[t] = "read"
    /\ status' = wire
    /\ to' = [to EXCEPT ![t] = wire]
    /\ at' = [at EXCEPT ![t] = IF status = wire THEN Return(t) ELSE "mac"]
    /\ IF status # wire /\ t = "timer" /\ ~tmr THEN Fault("late") ELSE UNCHANGED fault
    /\ UNCHANGED <<poll, wire, fsm, link, mac, tmr, queue, netif, op, trouble>>

\* dm9051_update_link_duplex_speed reads the link and compares it with
\* link_status.  Equal says nothing of link: after a report cut short the two
\* differ, and if the wire has gone back meanwhile nobody notices.
Read(t) ==
    /\ at[t] = "read"
    /\ to' = [to EXCEPT ![t] = wire]
    /\ at' = [at EXCEPT ![t] = IF status = wire THEN Return(t) ELSE "mac"]
    /\ CASE status = wire /\ link # wire              -> Fault("flap")
         [] status # wire /\ t = "timer" /\ ~tmr      -> Fault("late")
         [] OTHER                                     -> UNCHANGED fault
    /\ UNCHANGED <<poll, wire, driver, queue, netif, op, trouble>>

\* A register cannot be accessed: by get_link, by mac->set_link, which enables or
\* disables the receiver last, or by the negotiation, before or after link_status.
RegisterFails(t) ==
    /\ at[t] \in {"negotiate", "read", "mac"} /\ trouble > 0
    /\ trouble' = trouble - 1
    /\ Fails(t)
    /\ status' = status \/ (at[t] = "negotiate" /\ status' = "DOWN")
    /\ UNCHANGED <<poll, wire, fsm, link, mac, tmr, queue, netif>>

-----------------------------------------------------------------------------
(* eth_on_state_changed with ETH_STATE_LINK, in its steps. *)

\* mac->set_link, emac_dm9051_set_link: starting the poll timer twice, or
\* stopping it twice, is an error that ends the report.  So is a register that
\* fails (RegisterFails).
SetMac(t) ==
    /\ at[t] = "mac"
    /\ mac' = to[t]
    /\ IF poll /\ mac = to[t]
       THEN Goto(t, "idle") /\ Fault("poll")
       ELSE Goto(t, "store") /\ UNCHANGED fault
    /\ UNCHANGED <<poll, wire, fsm, link, status, tmr, queue, netif, trouble>>

StoreLink(t) ==
    /\ at[t] = "store"
    /\ link' = to[t]
    /\ Goto(t, "post")
    /\ UNCHANGED <<poll, wire, fsm, status, mac, tmr, queue, netif, trouble, fault>>

PostLink(t) ==
    /\ at[t] = "post"
    /\ Post(t, IF to[t] = "UP" THEN "CONNECTED" ELSE "DISCONNECTED",
            IF op[t] = "stop" THEN "post_stop" ELSE "status")
    /\ UNCHANGED <<poll, wire, driver, netif, trouble>>

\* Only now, with the event posted, does link_status follow.
SetStatus(t) ==
    /\ at[t] = "status"
    /\ status' = to[t]
    /\ Goto(t, Return(t))
    /\ UNCHANGED <<poll, wire, fsm, link, mac, tmr, queue, netif, trouble, fault>>

-----------------------------------------------------------------------------
\* The loop's task calls the handler of the glue for the post.
Dispatch ==
    /\ queue # <<>>
    /\ queue' = Tail(queue)
    /\ added' = CASE Head(queue) = "START" -> TRUE
                  [] Head(queue) = "STOP"  -> FALSE
                  [] OTHER                 -> added
    /\ up' = CASE Head(queue) = "CONNECTED"                -> TRUE
               [] Head(queue) \in {"DISCONNECTED", "STOP"} -> FALSE
               [] OTHER                                    -> up
    /\ UNCHANGED <<poll, wire, driver, tasks, trouble, fault>>

OtherPost ==
    /\ Room /\ trouble > 0
    /\ trouble' = trouble - 1
    /\ queue' = Append(queue, "other")
    /\ UNCHANGED <<poll, wire, driver, netif, tasks, fault>>

WireChanges ==
    /\ wire' \in Links \ {wire}
    /\ UNCHANGED <<poll, driver, queue, netif, tasks, trouble, fault>>

Step(t) == Read(t) \/ SetMac(t) \/ StoreLink(t) \/ PostLink(t) \/ SetStatus(t)

UserStep ==
    \/ Negotiate \/ PostStart \/ StartTimer
    \/ StopTimer \/ CasLink \/ SetLink \/ PostStop \/ Step("user")

Next ==
    \/ Start \/ Stop \/ UserStep
    \/ Check \/ Step("timer")
    \/ \E t \in Tasks : RegisterFails(t)
    \/ Dispatch \/ OtherPost \/ WireChanges

\* Tasks run, the timer fires, the loop takes posts; nobody has to start or stop.
Fairness ==
    WF_vars(UserStep) /\ WF_vars(Check) /\ WF_vars(Step("timer")) /\ WF_vars(Dispatch)

Spec == Init /\ [][Next]_vars /\ Fairness

-----------------------------------------------------------------------------
\* The state is well formed and the event queue within its size.
TypeOK ==
    /\ poll \in BOOLEAN /\ tmr \in BOOLEAN /\ added \in BOOLEAN /\ up \in BOOLEAN
    /\ {wire, link, status, mac} \subseteq Links /\ fsm \in {"START", "STOP"}
    /\ queue \in Seq({"START", "STOP", "CONNECTED", "DISCONNECTED", "other"})
    /\ Len(queue) <= QSize
    /\ at \in [Tasks -> Places] /\ op \in [Tasks -> {"start", "stop", "check"}]
    /\ to \in [Tasks -> Links] /\ trouble \in 0 .. Trouble /\ fault \in Faults

AtRest == queue = <<>> /\ \A t \in Tasks : at[t] = "idle"

\* When nothing is under way the four views of the link agree: the interface is
\* in the stack and the timer armed exactly when the driver is started, the MAC
\* receives exactly when the driver says the link is up, and the interface is up
\* exactly when link_status says so, whatever events were refused on the way.
\* At all times the order of the posts by esp_eth_start, the timer and
\* esp_eth_stop keeps an interface that is not in the stack from being brought
\* up.  Not so after the failures that fault names.
RestAgrees ==
    /\ TypeOK
    /\ fault = "none" => (up => added)
    /\ fault = "none" /\ AtRest =>
        /\ added = (fsm = "START") /\ tmr = (fsm = "START")
        /\ mac = link
        /\ up = (status = "UP")

\* A started driver follows the wire: once it stays up or down, so do the link
\* of the driver, the MAC and the interface.  A CONNECTED or DISCONNECTED event
\* that found the queue full, or a register that failed, is made good by a later check,
\* because link_status is stored last.
Recovers ==
    \A l \in Links :
        ([](fault = "none") /\ <>[](fsm = "START" /\ at["user"] = "idle" /\ wire = l))
            => <>[](link = l /\ mac = l /\ up = (l = "UP"))
==============================================================================
