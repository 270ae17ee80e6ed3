------------------------------- MODULE EspEvent -------------------------------
(***************************************************************************)
(* An event loop of components/esp_event/esp_event.c: a queue of posts, a  *)
(* task that takes them and calls the handlers, and the nested lists of    *)
(* handlers, guarded by a recursive mutex that the loop holds while        *)
(* handlers run.  Tasks register handlers, tasks and handlers unregister   *)
(* them, and tasks, handlers and interrupts post.  Removing a              *)
(* handler while the mutex is busy is put off: the handler is marked and a *)
(* clean-up event is queued.                                               *)
(***************************************************************************)
EXTENDS Integers, Sequences, SequencesExt

CONSTANTS Handlers,  \* handler functions, each registered for one key
          KeyOf,     \* KeyOf[h] = <<base, id>>, either of them maybe ANY
          Events,    \* the events that are posted
          QSize,     \* queue_size
          ANY        \* ESP_EVENT_ANY_BASE, ESP_EVENT_ANY_ID

ASSUME EventAssumption ==
    /\ QSize \in Nat \ {0}
    /\ \A h \in Handlers : Len(KeyOf[h]) = 2 /\ (KeyOf[h][1] = ANY => KeyOf[h][2] = ANY)
    /\ \A e \in Events : Len(e) = 2 /\ e[1] # ANY /\ e[2] # ANY

VARIABLES own,      \* the loop has a task of its own (loop->task)
          queue,    \* loop->queue
          nodes,    \* loop->loop_nodes
          mutex,    \* who holds loop->mutex: "none", "loop" or "user"
          lpc,      \* the loop: "out" of esp_event_loop_run, "idle" on the
                    \* queue, "got" a post, about to "run" handlers, "in" one
          cur,      \* the post being dispatched
          todo,     \* the handlers its lists still hold, in order
          upc,      \* a user unregistering: "idle", "wait" for the mutex, "post"
          target,   \* the handler it unregisters
          running,  \* loop->running_task is the task that runs the loop
          regs,     \* history: what is registered, in the order it was
          due,      \* history: the handlers that must see the current post
          fault     \* history: how the code has failed

vars == <<own, queue, nodes, mutex, lpc, cur, todo, upc, target, running, regs, due, fault>>

None      == [ev |-> <<>>, h |-> ANY]
Event(e)  == [ev |-> e, h |-> ANY]
Cleanup(h) == [ev |-> <<>>, h |-> h]     \* esp_event_handler_cleanup
IsCleanup(p) == p.h # ANY
Posts     == {Event(e) : e \in Events} \cup {Cleanup(h) : h \in Handlers}

Init ==
    /\ own \in BOOLEAN
    /\ queue = <<>> /\ nodes = <<>> /\ mutex = "none"
    /\ lpc = IF own THEN "idle" ELSE "out"
    /\ cur = None /\ todo = <<>>
    /\ upc = "idle" /\ target = ANY
    /\ running = FALSE
    /\ regs = <<>> /\ due = <<>> /\ fault = "none"

-----------------------------------------------------------------------------
(* The lists.  A loop node has handlers for all events and base nodes; a     *)
(* base node has handlers for all its events and id nodes.                   *)
Has(s, h) == \E i \in DOMAIN s : s[i].h = h

\* handler_instances_add: a handler that is there already is left as it is.
AddTo(s, h) == IF Has(s, h) THEN s ELSE Append(s, [h |-> h, un |-> FALSE])

LastWith(s, P(_)) ==
    LET I == {i \in DOMAIN s : P(s[i])} IN
    IF I = {} THEN 0 ELSE CHOOSE i \in I : \A j \in I : j <= i

base_node_add_handler(b, id, h) ==
    LET i == LastWith(b.ids, LAMBDA n : n.id = id) IN
    IF id = ANY THEN [b EXCEPT !.hs = AddTo(@, h)]
    ELSE IF i = 0 THEN [b EXCEPT !.ids = Append(@, [id |-> id, hs |-> AddTo(<<>>, h)])]
    ELSE [b EXCEPT !.ids[i].hs = AddTo(@, h)]

\* Mutant: a base level handler joins its base, whatever was added since.
loop_node_add_handlerMutant(n, key, h) ==
    LET i == LastWith(n.bases, LAMBDA b : b.base = key[1])
        new == [base |-> key[1], hs |-> <<>>, ids |-> <<>>]
    IN IF key[1] = ANY THEN [n EXCEPT !.hs = AddTo(@, h)]
       ELSE IF i = 0 THEN [n EXCEPT !.bases = Append(@, base_node_add_handler(new, key[2], h))]
       ELSE [n EXCEPT !.bases[i] = base_node_add_handler(@, key[2], h)]

\* A base level handler gets a new node when handlers of single events of its
\* base, or of the last base, are in front of it: they were registered before.
loop_node_add_handler(n, key, h) ==
    LET i   == LastWith(n.bases, LAMBDA b : b.base = key[1])
        l   == Len(n.bases)
        new == [base |-> key[1], hs |-> <<>>, ids |-> <<>>]
    IN IF key[1] = ANY THEN [n EXCEPT !.hs = AddTo(@, h)]
       ELSE IF \/ i = 0
               \/ key[2] = ANY /\ n.bases[i].ids # <<>>
               \/ key[2] = ANY /\ n.bases[l].base # key[1] /\ n.bases[l].ids # <<>>
       THEN [n EXCEPT !.bases = Append(@, base_node_add_handler(new, key[2], h))]
       ELSE [n EXCEPT !.bases[i] = base_node_add_handler(@, key[2], h)]

\* A loop level handler gets a new node when the last one has bases.
Added(h) ==
    LET l   == Len(nodes)
        new == [hs |-> <<>>, bases |-> <<>>]
    IN IF l = 0 \/ (KeyOf[h][1] = ANY /\ nodes[l].bases # <<>>)
       THEN Append(nodes, loop_node_add_handler(new, KeyOf[h], h))
       ELSE [nodes EXCEPT ![l] = loop_node_add_handler(@, KeyOf[h], h)]

\* The handler nodes as addresses: <<i>> the loop level list of loop node i,
\* <<i, j>> that of its base node j, <<i, j, m>> that of id node m there.
Lists ==
    {<<i>> : i \in DOMAIN nodes}
    \cup UNION {{<<i, j>> : j \in DOMAIN nodes[i].bases} : i \in DOMAIN nodes}
    \cup UNION {UNION {{<<i, j, m>> : m \in DOMAIN nodes[i].bases[j].ids}
                          : j \in DOMAIN nodes[i].bases} : i \in DOMAIN nodes}

KeyAt(p) ==
    <<IF Len(p) = 1 THEN ANY ELSE nodes[p[1]].bases[p[2]].base,
      IF Len(p) = 3 THEN nodes[p[1]].bases[p[2]].ids[p[3]].id ELSE ANY>>

ListAt(p) ==
    CASE Len(p) = 1 -> nodes[p[1]].hs
      [] Len(p) = 2 -> nodes[p[1]].bases[p[2]].hs
      [] Len(p) = 3 -> nodes[p[1]].bases[p[2]].ids[p[3]].hs

WithList(p, s) ==
    CASE Len(p) = 1 -> [nodes EXCEPT ![p[1]].hs = s]
      [] Len(p) = 2 -> [nodes EXCEPT ![p[1]].bases[p[2]].hs = s]
      [] Len(p) = 3 -> [nodes EXCEPT ![p[1]].bases[p[2]].ids[p[3]].hs = s]

\* Where h is, the first place in list order: lists of its own key.
Places(h) == {p \in Lists : KeyAt(p) = KeyOf[h] /\ Has(ListAt(p), h)}
Place(h) ==
    CHOOSE p \in Places(h) :
        \A r \in Places(h) : r = p \/ \E n \in DOMAIN p :
            p[n] < r[n] /\ \A o \in 1 .. n - 1 : p[o] = r[o]

\* Emptied id, base and loop nodes go with the last handler.
Pruned(ns) ==
    LET full(b) == b.hs # <<>> \/ b.ids # <<>>
        base(b) == [b EXCEPT !.ids = SelectSeq(@, LAMBDA i : i.hs # <<>>)]
        loop(n) == [n EXCEPT !.bases =
                       SelectSeq([j \in DOMAIN n.bases |-> base(n.bases[j])], full)]
    IN SelectSeq([i \in DOMAIN ns |-> loop(ns[i])], LAMBDA n : n.hs # <<>> \/ n.bases # <<>>)

loop_remove_handler(h) ==
    IF Places(h) = {} THEN nodes
    ELSE Pruned(WithList(Place(h), SelectSeq(ListAt(Place(h)), LAMBDA x : x.h # h)))

Marked(h) ==
    WithList(Place(h), [i \in DOMAIN ListAt(Place(h)) |->
        IF ListAt(Place(h))[i].h = h THEN [h |-> h, un |-> TRUE] ELSE ListAt(Place(h))[i]])

IsMarked(h) == \E p \in Places(h) : \E i \in DOMAIN ListAt(p) : ListAt(p)[i] = [h |-> h, un |-> TRUE]

-----------------------------------------------------------------------------
(* Posting. *)
Room == Len(queue) < QSize

\* esp_event_post_to and esp_event_isr_post_to when there is room; without, the
\* caller waits or gives up, and nothing changes.  On a loop without a task a
\* poster first waits for the mutex to look at running_task, an interrupt does
\* not: a post may come at any time.
Post(e) ==
    /\ Room
    /\ queue' = Append(queue, Event(e))
    /\ UNCHANGED <<own, nodes, mutex, lpc, cur, todo, upc, target, running, regs, due, fault>>

\* The task that has run the loop posts from outside of it and is ready to wait,
\* but running_task still names it: a full queue drops the post at once.
PostDropped ==
    /\ ~own /\ lpc = "out" /\ mutex = "none" /\ running /\ ~Room
    /\ fault' = "dropped"
    /\ UNCHANGED <<own, queue, nodes, mutex, lpc, cur, todo, upc, target, running, regs, due>>

-----------------------------------------------------------------------------
(* esp_event_loop_run. *)
EnterLoop ==
    /\ lpc = "out"
    /\ lpc' = "idle"
    /\ UNCHANGED <<own, queue, nodes, mutex, cur, todo, upc, target, running, regs, due, fault>>

\* The time of a loop without a task is up while it waits for a post.
LeaveLoop ==
    /\ ~own /\ lpc = "idle" /\ queue = <<>>
    /\ lpc' = "out"
    /\ UNCHANGED <<own, queue, nodes, mutex, cur, todo, upc, target, running, regs, due, fault>>

TakePost ==
    /\ lpc = "idle" /\ queue # <<>>
    /\ cur' = Head(queue) /\ queue' = Tail(queue)
    /\ lpc' = "got"
    /\ UNCHANGED <<own, nodes, mutex, todo, upc, target, running, regs, due, fault>>

\* The handlers of a post, level by level, as the nested loops meet them.  A
\* clean-up post goes on to the loop level handlers like any other.
Matching(ns, ev) ==
    LET names(hs) == [i \in DOMAIN hs |-> hs[i].h]
        ofBase(b) == LET m == SelectSeq(b.ids, LAMBDA n : n.id = ev[2]) IN
                     names(b.hs) \o (IF m = <<>> THEN <<>> ELSE names(m[1].hs))
        ofLoop(n) == LET bs == SelectSeq(n.bases, LAMBDA b : ev # <<>> /\ b.base = ev[1]) IN
                     names(n.hs) \o FlattenSeq([j \in DOMAIN bs |-> ofBase(bs[j])])
    IN FlattenSeq([i \in DOMAIN ns |-> ofLoop(ns[i])])

Matches(h, ev) ==
    \/ KeyOf[h][1] = ANY
    \/ ev # <<>> /\ KeyOf[h][1] = ev[1] /\ KeyOf[h][2] \in {ANY, ev[2]}

\* Mutant: a clean-up post that removes nothing.
StartDispatchMutant ==
    /\ lpc = "got" /\ mutex = "none"
    /\ mutex' = "loop" /\ running' = TRUE
    /\ lpc' = "run" /\ todo' = Matching(nodes, cur.ev)
    /\ due' = SelectSeq(regs, LAMBDA h : Matches(h, cur.ev))
    /\ UNCHANGED <<own, queue, nodes, cur, upc, target, regs, fault>>

\* The mutex is taken; a clean-up post removes its handler.
StartDispatch ==
    /\ lpc = "got" /\ mutex = "none"
    /\ mutex' = "loop" /\ running' = TRUE
    /\ nodes' = IF IsCleanup(cur) THEN loop_remove_handler(cur.h) ELSE nodes
    /\ lpc' = "run" /\ todo' = Matching(nodes', cur.ev)
    /\ due' = SelectSeq(regs, LAMBDA h : Matches(h, cur.ev))
    /\ UNCHANGED <<own, queue, cur, upc, target, regs, fault>>

Registered(h) == h \in ToSet(regs)

\* History: h may be called only if it is the first one due that is registered.
Judge(h) ==
    IF due # <<>> /\ due[1] = h THEN fault ELSE "order"

\* A marked handler is passed over.
SkipHandler ==
    /\ lpc = "run" /\ todo # <<>> /\ IsMarked(Head(todo))
    /\ todo' = Tail(todo)
    /\ UNCHANGED <<own, queue, nodes, mutex, lpc, cur, upc, target, running, regs, due, fault>>

CallHandler ==
    /\ lpc = "run" /\ todo # <<>> /\ ~IsMarked(Head(todo))
    /\ lpc' = "in"
    /\ fault' = Judge(Head(todo))
    /\ due' = SelectSeq(due, LAMBDA h : h # Head(todo))
    /\ UNCHANGED <<own, queue, nodes, mutex, cur, todo, upc, target, running, regs>>

HandlerReturns ==
    /\ lpc = "in"
    /\ lpc' = "run" /\ todo' = Tail(todo)
    /\ UNCHANGED <<own, queue, nodes, mutex, cur, upc, target, running, regs, due, fault>>

\* esp_event_handler_unregister_with by a handler, of itself or another: the mutex
\* is its own task's, so the handler is marked and the clean-up posted without
\* waiting; a full queue leaves it marked for good.
UnregisterInside(h) ==
    /\ lpc = "in" /\ Registered(h)
    /\ nodes' = Marked(h)
    /\ regs' = SelectSeq(regs, LAMBDA x : x # h)
    /\ due' = SelectSeq(due, LAMBDA x : x # h)
    /\ IF Room THEN queue' = Append(queue, Cleanup(h)) /\ UNCHANGED fault
               ELSE fault' = "stuck" /\ UNCHANGED queue
    /\ UNCHANGED <<own, mutex, lpc, cur, todo, upc, target, running>>

\* All handlers are through.  A loop without a task may find its time is up: it
\* leaves with running_task as it is.
EndDispatch(timeout) ==
    /\ lpc = "run" /\ todo = <<>>
    /\ timeout => ~own
    /\ mutex' = "none"
    /\ running' = timeout
    /\ lpc' = IF timeout THEN "out" ELSE "idle"
    /\ fault' = IF \E i \in DOMAIN due : Registered(due[i]) THEN "order" ELSE fault
    /\ cur' = None /\ due' = <<>>
    /\ UNCHANGED <<own, queue, nodes, todo, upc, target, regs>>

-----------------------------------------------------------------------------
(* A user's task. *)

\* esp_event_handler_register_with.  To register a handler again whose clean-up
\* is still to come is where the code fails.
Register(h) ==
    /\ upc = "idle" /\ mutex = "none" /\ ~Registered(h)
    /\ nodes' = Added(h)
    /\ regs' = Append(regs, h)
    /\ fault' = IF Places(h) = {} THEN fault ELSE "again"
    /\ UNCHANGED <<own, queue, mutex, lpc, cur, todo, upc, target, running, due>>

Unregistered(h) == regs' = SelectSeq(regs, LAMBDA x : x # h)

\* esp_event_handler_unregister_with: the mutex is free.
Unregister(h) ==
    /\ upc = "idle" /\ mutex = "none" /\ Registered(h)
    /\ nodes' = loop_remove_handler(h)
    /\ Unregistered(h)
    /\ UNCHANGED <<own, queue, mutex, lpc, cur, todo, upc, target, running, due, fault>>

\* The mutex is busy: the task waits for it,
UnregisterWaits(h) ==
    /\ upc = "idle" /\ mutex = "loop" /\ Registered(h)
    /\ upc' = "wait" /\ target' = h
    /\ UNCHANGED <<own, queue, nodes, mutex, lpc, cur, todo, running, regs, due, fault>>

\* marks the handler if it is there and not marked yet (find_and_unregister_
\* handler),
UnregisterMarks ==
    /\ upc = "wait" /\ mutex = "none"
    /\ IF Places(target) = {} \/ IsMarked(target)
       THEN /\ upc' = "idle" /\ target' = ANY
            /\ UNCHANGED <<nodes, mutex, regs>>
       ELSE /\ nodes' = Marked(target)
            /\ mutex' = "user" /\ upc' = "post"
            /\ Unregistered(target)
            /\ UNCHANGED target
    /\ UNCHANGED <<own, queue, lpc, cur, todo, running, due, fault>>

\* Mutant: the mutex is not given back after the clean-up has been posted.
UnregisterPostsMutant ==
    /\ upc = "post" /\ Room
    /\ queue' = Append(queue, Cleanup(target))
    /\ upc' = "idle" /\ target' = ANY
    /\ UNCHANGED <<own, nodes, mutex, lpc, cur, todo, running, regs, due, fault>>

\* and posts the clean-up, waiting for room with the mutex in its hands.
UnregisterPosts ==
    /\ upc = "post" /\ Room
    /\ queue' = Append(queue, Cleanup(target))
    /\ mutex' = "none" /\ upc' = "idle" /\ target' = ANY
    /\ UNCHANGED <<own, nodes, lpc, cur, todo, running, regs, due, fault>>

-----------------------------------------------------------------------------
LoopStep ==
    \/ TakePost \/ StartDispatch \/ SkipHandler \/ CallHandler \/ HandlerReturns
    \/ \E h \in Handlers : UnregisterInside(h)
    \/ EndDispatch(FALSE) \/ EndDispatch(TRUE)
    \/ EnterLoop \/ LeaveLoop

UserStep ==
    \/ \E h \in Handlers : Register(h) \/ Unregister(h) \/ UnregisterWaits(h)
    \/ UnregisterMarks \/ UnregisterPosts

Next ==
    \/ \E e \in Events : Post(e)
    \/ PostDropped
    \/ LoopStep
    \/ UserStep

Spec == Init /\ [][Next]_vars

\* The loop's task runs, handlers return, the time of a loop without a task does
\* not keep it from ending a dispatch, and a task that can go on does.
Fairness ==
    /\ WF_vars(TakePost) /\ WF_vars(StartDispatch)
    /\ WF_vars(SkipHandler \/ CallHandler \/ HandlerReturns)
    /\ WF_vars(EndDispatch(FALSE) \/ EndDispatch(TRUE))
    /\ WF_vars(UnregisterPosts)

LiveSpec == Spec /\ Fairness

-----------------------------------------------------------------------------
\* The state is well formed, the queue within queue_size, and the mutex is held
\* exactly in the stretches of esp_event_loop_run and find_and_unregister_handler
\* that take and give it.
TypeOK ==
    /\ own \in BOOLEAN /\ running \in BOOLEAN
    /\ queue \in Seq(Posts) /\ Len(queue) <= QSize
    /\ mutex = "loop" <=> lpc \in {"run", "in"}
    /\ mutex = "user" <=> upc = "post"
    /\ lpc \in {"out", "idle", "got", "run", "in"}
    /\ cur \in Posts \cup {None} /\ todo \in Seq(Handlers)
    /\ upc \in {"idle", "wait", "post"} /\ target \in Handlers \cup {ANY}

\* A post reaches every handler registered for it when its dispatch starts, once,
\* in the order of registration whatever the level (esp_event.rst, "Handler
\* Registration and Handler Dispatch Order"), unless the handler is unregistered
\* before its turn; one that is unregistered, if only marked, is not called.
InOrder == fault # "order"

\* The clean-ups on their way: queued, taken by the loop, or about to be queued.
Pending == {h \in Handlers : \E i \in DOMAIN queue : queue[i].h = h}
           \cup (IF lpc = "got" /\ IsCleanup(cur) THEN {cur.h} ELSE {})
           \cup (IF upc = "post" THEN {target} ELSE {})

Listed == {h \in Handlers : Places(h) # {}}

\* The nested lists hold what is registered, unmarked, and beyond that only
\* marked handlers whose clean-up is on its way; no empty node is left behind by
\* loop_remove_handler.  So no removal put off by find_and_unregister_handler is
\* forgotten, and none hits a handler that is still wanted.  Queue and mutex are
\* as TypeOK says.
ListsExact ==
    /\ TypeOK
    /\ fault = "none" =>
        /\ \A h \in Handlers : Registered(h) => h \in Listed /\ ~IsMarked(h)
        /\ \A h \in Listed : ~Registered(h) => IsMarked(h) /\ h \in Pending
        /\ nodes = Pruned(nodes)

\* The one way to get stuck: find_and_unregister_handler waits for room in the
\* queue with the mutex in its hands, while the loop, which alone makes room, has
\* a post and waits for the mutex.
Deadlocked == upc = "post" /\ ~Room /\ lpc = "got"

\* A post the loop has taken is dispatched to the end and the loop goes back to
\* its queue or returns, whatever handlers and other tasks register, unregister
\* and post meanwhile, but for that deadlock.
Dispatches == lpc \in {"got", "run", "in"} ~> (lpc \in {"idle", "out"} \/ Deadlocked)
==============================================================================
