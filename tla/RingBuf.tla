------------------------------- MODULE RingBuf -------------------------------
(***************************************************************************)
(* The ring buffer of components/esp_ringbuf/ringbuf.c in its three types. *)
(* No-split and allow-split buffers hold items behind headers that lie in  *)
(* the buffer's own memory; items may be completed, and returned, in       *)
(* another order than they were acquired and retrieved in.  A byte buffer  *)
(* holds a stream.  Each call is one critical section under the buffer's   *)
(* spinlock: one action.  Addresses are offsets from pucHead.              *)
(***************************************************************************)
EXTENDS Integers, Sequences, FiniteSets

CONSTANTS Types,    \* the types of buffer that are looked at
          Sizes,    \* Sizes[t]: xSize of the buffers of type t
          Lens,     \* Lens[t]: the item sizes their users send
          Junk,     \* headers that memory outside the items in use may show
          NoWait    \* no task is blocked in a send

NOSPLIT    == "NOSPLIT"
ALLOWSPLIT == "ALLOWSPLIT"
BYTEBUF    == "BYTEBUF"

rbHEADER_SIZE   == 8
rbALIGN_SIZE(n) == ((n + 3) \div 4) * 4

Flag == {"FREE", "DUMMY", "SPLIT", "WRITTEN"}

ASSUME RingAssumption ==
    /\ Types \subseteq {NOSPLIT, ALLOWSPLIT, BYTEBUF}
    /\ \A t \in Types :
          /\ Sizes[t] \subseteq Nat \ {0} /\ Lens[t] \subseteq Nat
          /\ t # BYTEBUF =>
                \A n \in Sizes[t] : n = rbALIGN_SIZE(n) /\ n >= 2 * rbHEADER_SIZE
    /\ Junk \subseteq [xItemLen : Nat, uxItemFlags : SUBSET Flag]
    /\ NoWait \notin Nat

VARIABLES type,           \* the buffer's type, as its flags say
          xSize,          \* the size of its memory
          pucAcquire,     \* where the next item is acquired
          pucWrite,       \* up to here everything has been written
          pucRead,        \* the next item to read
          pucFree,        \* the first item that is not returned yet
          full,           \* rbBUFFER_FULL_FLAG
          xItemsWaiting,  \* items (bytes) written and not retrieved yet
          mem,            \* headers by address; of a byte buffer, the bytes
          q,              \* history: the items that are not returned yet
          sent, got,      \* history: bytes sent and retrieved (modulo)
          sender,         \* size the task in xTasksWaitingToSend wants to send
          receiver,       \* a task is in xTasksWaitingToReceive
          fault           \* history: the first thing a receiver was handed wrongly

ptrs == <<pucAcquire, pucWrite, pucRead, pucFree, full>>
vars == <<type, xSize, ptrs, xItemsWaiting, mem, q, sent, got, sender, receiver, fault>>

Hdr(n, f) == [xItemLen |-> n, uxItemFlags |-> f]
Pos       == 0 .. xSize - 1

xMaxItemSize ==
    IF type = NOSPLIT         THEN rbALIGN_SIZE(xSize \div 2) - rbHEADER_SIZE
    ELSE IF type = ALLOWSPLIT THEN xSize - 2 * rbHEADER_SIZE
    ELSE xSize

\* Byte numbers are taken modulo this: enough to tell what is in the buffer.
Round  == 2 * xSize
Nth(n) == IF n >= Round THEN n - Round ELSE n

\* An address of a byte buffer that has passed its end starts again.
Ring(p) == IF p >= xSize THEN p - xSize ELSE p

Init ==
    /\ type \in Types /\ xSize \in Sizes[type]
    /\ pucAcquire = 0 /\ pucWrite = 0 /\ pucRead = 0 /\ pucFree = 0
    /\ full = FALSE
    /\ xItemsWaiting = 0
    /\ mem = <<>>
    /\ q = <<>> /\ sent = 0 /\ got = 0
    /\ sender = NoWait /\ receiver = FALSE
    /\ fault = "none"

-----------------------------------------------------------------------------
(* What the memory shows. *)
Header(h, p) == IF p \in DOMAIN h THEN h[p] ELSE Hdr(0, {})

Marked(h, p, f) == f \in Header(h, p).uxItemFlags

\* The headers at the addresses of S get the flag f as well.
Mark(h, S, f) ==
    [p \in DOMAIN h |-> IF p \in S THEN [h[p] EXCEPT !.uxItemFlags = @ \cup {f}] ELSE h[p]]

\* Where an item of n bytes whose header is at p ends.
End(p, n) == p + rbHEADER_SIZE + rbALIGN_SIZE(n)

\* An address that leaves no room for a header is the start of the buffer.
Wrap(p) == IF xSize - p < rbHEADER_SIZE THEN 0 ELSE p

\* A header at p and data behind it overwrite whatever header was there.
Put(h, p, n, f) ==
    [x \in (DOMAIN h \ (p .. End(p, n) - 1)) \cup {p} |->
        IF x = p THEN Hdr(n, f) ELSE h[x]]

\* The header that follows header h at p, in memory order.
After(p, h) == Wrap(IF "DUMMY" \in h.uxItemFlags THEN 0 ELSE End(p, h.xItemLen))

-----------------------------------------------------------------------------
(* xCheckItemFits and xGetCurMaxSize. *)
Free == pucFree - pucAcquire
Rest == xSize - pucAcquire

\* Mutant: the second header of a split item is not counted.
prvCheckItemFitsDefaultMutant(n) ==
    LET total == rbALIGN_SIZE(n) + rbHEADER_SIZE IN
    IF Free = 0 THEN ~full
    ELSE IF Free > 0 THEN total <= Free
    ELSE \/ total <= Rest
         \/ total <= IF type = ALLOWSPLIT THEN xSize + Free ELSE pucFree

prvCheckItemFitsDefault(n) ==
    LET total == rbALIGN_SIZE(n) + rbHEADER_SIZE IN
    IF Free = 0 THEN ~full
    ELSE IF Free > 0 THEN total <= Free
    ELSE \/ total <= Rest
         \/ IF type = ALLOWSPLIT THEN total + rbHEADER_SIZE <= xSize + Free
                                 ELSE total <= pucFree

prvCheckItemFitsByteBuffer(n) ==
    IF Free = 0 THEN ~full ELSE n <= (IF Free > 0 THEN Free ELSE xSize + Free)

xCheckItemFits(n) ==
    IF type = BYTEBUF THEN prvCheckItemFitsByteBuffer(n) ELSE prvCheckItemFitsDefault(n)

Clip(n) == IF n < 0 THEN 0 ELSE IF n > xMaxItemSize THEN xMaxItemSize ELSE n

prvGetCurMaxSizeNoSplit ==
    Clip((IF Free > 0 THEN Free ELSE IF Rest > pucFree THEN Rest ELSE pucFree)
         - rbHEADER_SIZE)

prvGetCurMaxSizeAllowSplit ==
    Clip(IF pucAcquire = 0 /\ pucFree = 0 THEN xSize - rbHEADER_SIZE
         ELSE IF Free > 0 THEN Free - rbHEADER_SIZE
         ELSE pucFree + Rest - 2 * rbHEADER_SIZE)

prvGetCurMaxSizeByteBuf == IF Free <= 0 THEN Free + xSize ELSE Free

xRingbufferGetCurFreeSize ==
    IF full THEN 0
    ELSE IF type = NOSPLIT    THEN prvGetCurMaxSizeNoSplit
    ELSE IF type = ALLOWSPLIT THEN prvGetCurMaxSizeAllowSplit
    ELSE prvGetCurMaxSizeByteBuf

-----------------------------------------------------------------------------
(* Placing items: the memory, pucAcquire and the full flag afterwards, and   *)
(* where the headers of the item's parts are.                                *)
Placed(h, p, n, parts) ==
    LET a == Wrap(End(p, n)) IN
    [mem |-> Put(h, p, n, {}), acq |-> a, full |-> full \/ a = pucFree, at |-> parts]

prvAcquireItemNoSplit(n) ==
    IF Rest < rbALIGN_SIZE(n) + rbHEADER_SIZE
    THEN Placed(Put(mem, pucAcquire, 0, {"DUMMY"}), 0, n, <<0>>)
    ELSE Placed(mem, pucAcquire, n, <<pucAcquire>>)

prvCopyItemAllowSplit(n) ==
    LET first == Rest - rbHEADER_SIZE IN
    IF first >= rbALIGN_SIZE(n) THEN Placed(mem, pucAcquire, n, <<pucAcquire>>)
    ELSE IF first = 0 /\ n > 0
    THEN Placed(Put(mem, pucAcquire, 0, {"DUMMY"}), 0, n, <<0>>)
    ELSE Placed(Put(mem, pucAcquire, first, {"SPLIT"}), 0, n - first, <<pucAcquire, 0>>)

\* The loops that follow the headers h from address p, as the address after each
\* turn: the first turn is taken from an address of first, the others from
\* addresses of later.  There are no more headers than turns.
Turns == xSize \div rbHEADER_SIZE

Walk(h, p, first, later) ==
    LET at[k \in 0 .. Turns] ==
            IF k = 0 THEN p
            ELSE LET x == at[k - 1] IN
                 IF x \in (IF k = 1 THEN first ELSE later) THEN After(x, h[x]) ELSE x
    IN at

\* The addresses the loop has gone past.
Passed(at, first, later) ==
    {at[k] : k \in {j \in 0 .. Turns - 1 : at[j] \in (IF j = 0 THEN first ELSE later)}}

\* Mutant: a dummy header that is passed is not marked.
prvSendItemDoneNoSplitMutant(h, acq, p) ==
    LET w    == Mark(h, {p}, "WRITTEN")
        over == {x \in DOMAIN w : w[x].uxItemFlags \cap {"WRITTEN", "DUMMY"} # {}}
        at   == Walk(w, pucWrite, over, over \ {acq})
    IN [mem |-> w, write |-> at[Turns]]

\* The item at p is written; pucWrite goes past what is written or dummy, and
\* not beyond pucAcquire.
prvSendItemDoneNoSplit(h, acq, p) ==
    LET w    == Mark(h, {p}, "WRITTEN")
        over == {x \in DOMAIN w : w[x].uxItemFlags \cap {"WRITTEN", "DUMMY"} # {}}
        at   == Walk(w, pucWrite, over, over \ {acq})
        seen == Passed(at, over, over \ {acq})
    IN [mem |-> Mark(w, {x \in seen : Marked(w, x, "DUMMY")}, "WRITTEN"),
        write |-> at[Turns]]

Item(n, at, done) == [n |-> n, at |-> at, done |-> done, taken |-> FALSE]

\* Mutant: a receiver is woken when the first item arrives only.
WakeReceiverMutant == receiver' = (receiver /\ xItemsWaiting > 0)

WakeReceiver == receiver' = FALSE
WakeSender   == sender' = NoWait

-----------------------------------------------------------------------------
(* Sending. *)
SendNoSplit(n) ==
    LET a == prvAcquireItemNoSplit(n)
        d == prvSendItemDoneNoSplit(a.mem, a.acq, a.at[1])
    IN /\ type = NOSPLIT
       /\ mem' = d.mem /\ pucAcquire' = a.acq /\ pucWrite' = d.write /\ full' = a.full
       /\ xItemsWaiting' = xItemsWaiting + 1
       /\ q' = Append(q, Item(n, a.at, TRUE))
       /\ UNCHANGED sent

SendAllowSplit(n) ==
    LET a == prvCopyItemAllowSplit(n)
    IN /\ type = ALLOWSPLIT
       /\ mem' = a.mem /\ pucAcquire' = a.acq /\ pucWrite' = a.acq /\ full' = a.full
       /\ xItemsWaiting' = xItemsWaiting + Len(a.at)
       /\ q' = Append(q, Item(n, a.at, TRUE))
       /\ UNCHANGED sent

\* prvCopyItemByteBuf
SendByteBuf(n) ==
    LET a == Ring(pucAcquire + n)
        off(p) == Ring(p - pucAcquire + xSize)
    IN /\ type = BYTEBUF /\ n > 0
       /\ mem' = [p \in DOMAIN mem \cup {x \in Pos : off(x) < n} |->
                     IF off(p) < n THEN Nth(sent + off(p)) ELSE mem[p]]
       /\ pucAcquire' = a /\ pucWrite' = a /\ full' = (full \/ a = pucFree)
       /\ xItemsWaiting' = xItemsWaiting + n
       /\ sent' = Nth(sent + n)
       /\ UNCHANGED q

\* xRingbufferSend and xRingbufferSendFromISR of an item that fits: it is
\* copied, and a task that waits to receive is made ready.
Send(n) ==
    /\ n <= xMaxItemSize /\ xCheckItemFits(n)
    /\ \/ SendNoSplit(n)
       \/ SendAllowSplit(n)
       \/ SendByteBuf(n)
    /\ WakeReceiver
    /\ UNCHANGED <<type, xSize, pucRead, pucFree, got, sender, fault>>

\* xRingbufferSendAcquire of an item that fits.
SendAcquire(n) ==
    LET a == prvAcquireItemNoSplit(n)
    IN /\ type = NOSPLIT /\ n <= xMaxItemSize /\ xCheckItemFits(n)
       /\ mem' = a.mem /\ pucAcquire' = a.acq /\ full' = a.full
       /\ q' = Append(q, Item(n, a.at, FALSE))
       /\ UNCHANGED <<type, xSize, pucWrite, pucRead, pucFree, xItemsWaiting, sent, got,
                      sender, receiver, fault>>

\* xRingbufferSendComplete of the item q[i], once.
SendComplete(i) ==
    LET d == prvSendItemDoneNoSplit(mem, pucAcquire, q[i].at[1])
    IN /\ type = NOSPLIT /\ ~q[i].done
       /\ mem' = d.mem /\ pucWrite' = d.write
       /\ xItemsWaiting' = xItemsWaiting + 1
       /\ q' = [q EXCEPT ![i].done = TRUE]
       /\ WakeReceiver
       /\ UNCHANGED <<type, xSize, pucAcquire, pucRead, pucFree, full, sent, got, sender, fault>>

\* prvSendAcquireGeneric of an item that does not fit yet blocks the task; when
\* it runs again, or its time is over, it is out of the list and has to try anew.
SendBlocks(n) ==
    /\ sender = NoWait
    /\ n <= xMaxItemSize /\ ~xCheckItemFits(n)
    /\ sender' = n
    /\ UNCHANGED <<type, xSize, ptrs, xItemsWaiting, mem, q, sent, got, receiver, fault>>

SendTimesOut ==
    /\ sender # NoWait
    /\ sender' = NoWait
    /\ UNCHANGED <<type, xSize, ptrs, xItemsWaiting, mem, q, sent, got, receiver, fault>>

-----------------------------------------------------------------------------
(* Receiving. *)

prvCheckItemAvail ==
    /\ type = BYTEBUF => pucRead = pucFree
    /\ xItemsWaiting > 0
    /\ pucRead # pucWrite \/ full
    /\ type = NOSPLIT => Marked(mem, pucRead, "WRITTEN")

\* Mutant: dummy data is not skipped.
prvGetItemDefaultMutant(r) ==
    LET h == Header(mem, r)
    IN [at |-> r, len |-> h.xItemLen, split |-> "SPLIT" \in h.uxItemFlags,
        next |-> Wrap(End(r, h.xItemLen))]

\* The item (part) read from address r on, and where the next one is.
prvGetItemDefault(r) ==
    LET p == IF Marked(mem, r, "DUMMY") THEN 0 ELSE r
        h == Header(mem, p)
    IN [at |-> p, len |-> h.xItemLen, split |-> "SPLIT" \in h.uxItemFlags,
        next |-> Wrap(End(p, h.xItemLen))]

\* The parts prvReceiveGeneric hands out, in order.
Parts ==
    LET one == prvGetItemDefault(pucRead) IN
    IF type = ALLOWSPLIT /\ one.split THEN <<one, prvGetItemDefault(one.next)>> ELSE <<one>>

\* History: is it the item that comes next, and has it been completed?
Judge(at, n) ==
    LET new == {i \in DOMAIN q : ~q[i].taken}
        i   == CHOOSE x \in new : \A y \in new : x <= y
    IN IF fault # "none" THEN fault
       ELSE IF new = {} \/ q[i].at # at \/ q[i].n # n THEN "wrong"
       ELSE IF ~q[i].done THEN "early" ELSE "none"

ReceiveItem ==
    LET at == [k \in DOMAIN Parts |-> Parts[k].at]
        n  == Parts[1].len + (IF Len(Parts) = 2 THEN Parts[2].len ELSE 0)
    IN /\ type # BYTEBUF
       /\ pucRead' = Parts[Len(Parts)].next
       /\ xItemsWaiting' = xItemsWaiting - Len(Parts)
       /\ q' = [i \in DOMAIN q |-> IF q[i].at = at THEN [q[i] EXCEPT !.taken = TRUE] ELSE q[i]]
       /\ fault' = Judge(at, n)
       /\ UNCHANGED got

\* prvGetItemByteBuf: as much as lies in one piece, at most max (0: no limit).
ReceiveBytes(max) ==
    LET piece == IF pucRead > pucWrite \/ full THEN xSize - pucRead ELSE pucWrite - pucRead
        k     == IF max = 0 \/ piece <= max THEN piece ELSE max
    IN /\ type = BYTEBUF
       /\ pucRead' = Ring(pucRead + k)
       /\ xItemsWaiting' = xItemsWaiting - k
       /\ got' = Nth(got + k)
       /\ q' = Append(q, [Item(k, <<pucRead>>, TRUE) EXCEPT !.taken = TRUE])
       /\ fault' = IF \A i \in 0 .. k - 1 : mem[pucRead + i] = Nth(got + i)
                   THEN fault ELSE "wrong"

\* The receive functions, from tasks and interrupts, when something is there.
Receive(max) ==
    /\ prvCheckItemAvail
    /\ (max = 0 /\ ReceiveItem) \/ ReceiveBytes(max)
    /\ UNCHANGED <<type, xSize, pucAcquire, pucWrite, pucFree, full, mem, sent, sender, receiver>>

\* Nothing is there: the task blocks.  A byte buffer has one consumer, which
\* returns what it has retrieved before it waits for more.
ReceiveBlocks ==
    /\ ~receiver /\ ~prvCheckItemAvail
    /\ type = BYTEBUF => q = <<>>
    /\ receiver' = TRUE
    /\ UNCHANGED <<type, xSize, ptrs, xItemsWaiting, mem, q, sent, got, sender, fault>>

ReceiveTimesOut ==
    /\ receiver
    /\ receiver' = FALSE
    /\ UNCHANGED <<type, xSize, ptrs, xItemsWaiting, mem, q, sent, got, sender, fault>>

-----------------------------------------------------------------------------
(* Returning. *)

\* Mutant: the free pointer stops at the read pointer, full buffer or not.
prvReturnItemDefaultMutant(p, junk) ==
    LET f    == Mark(mem, {p}, "FREE")
        h    == [x \in Pos |-> IF x \in DOMAIN f THEN f[x] ELSE junk]
        over == {x \in Pos : h[x].uxItemFlags \cap {"FREE", "DUMMY"} # {}} \ {pucRead}
        at   == Walk(h, pucFree, over, over)
        gone == Passed(at, over, over)
    IN [mem |-> [x \in DOMAIN f \ gone |-> f[x]],
        free |-> at[Turns], full |-> full /\ gone = {}]

\* The item at p is free; pucFree goes past what is free or dummy, up to
\* pucRead: the first step is allowed anyway when the buffer is full or empty.
\* What it passes is no longer in use, and its headers are forgotten; junk is
\* what memory out of use shows.
prvReturnItemDefault(p, junk) ==
    LET f     == Mark(mem, {p}, "FREE")
        h     == [x \in Pos |-> IF x \in DOMAIN f THEN f[x] ELSE junk]
        over  == {x \in Pos : h[x].uxItemFlags \cap {"FREE", "DUMMY"} # {}}
        later == over \ {pucRead}
        first == IF full \/ xItemsWaiting = 0 THEN over ELSE later
        at    == Walk(h, pucFree, first, later)
        gone  == Passed(at, first, later)
    IN [mem |-> [x \in DOMAIN f \ gone |-> f[x]],
        free |-> at[Turns], full |-> full /\ gone = {}]

\* s without its i-th element.
Without(s, i) == [j \in 1 .. Len(s) - 1 |-> IF j < i THEN s[j] ELSE s[j + 1]]

Dropped(i, k) ==
    IF Len(q[i].at) = 1 THEN Without(q, i) ELSE [q EXCEPT ![i].at = Without(@, k)]

\* vRingbufferReturnItem and ..FromISR of part k of the item q[i], once; a task
\* that waits to send is made ready.
ReturnItem(i, k) ==
    /\ q[i].taken
    /\ \/ /\ type # BYTEBUF
          /\ \E junk \in Junk :
                LET r == prvReturnItemDefault(q[i].at[k], junk)
                IN mem' = r.mem /\ pucFree' = r.free /\ full' = r.full
       \/ /\ type = BYTEBUF                                \* prvReturnItemByteBuf
          /\ pucFree' = pucRead /\ full' = FALSE
          /\ UNCHANGED mem
    /\ q' = Dropped(i, k)
    /\ WakeSender
    /\ UNCHANGED <<type, xSize, pucAcquire, pucWrite, pucRead, xItemsWaiting, sent, got,
                   receiver, fault>>

-----------------------------------------------------------------------------
Next ==
    \/ \E n \in Lens[type] : Send(n) \/ SendAcquire(n) \/ SendBlocks(n) \/ Receive(n)
    \/ \E i \in DOMAIN q : SendComplete(i)
    \/ SendTimesOut
    \/ Receive(0)
    \/ ReceiveBlocks
    \/ ReceiveTimesOut
    \/ \E i \in DOMAIN q : \E k \in DOMAIN q[i].at : ReturnItem(i, k)

Spec == Init /\ [][Next]_vars

-----------------------------------------------------------------------------
\* The four pointers stay inside the buffer and where a header fits, and the
\* count of what waits is not negative: the configASSERTs of all the functions
\* that follow a pointer (ringbuf.c:282, 331, 428, 479, 537, 576).
TypeOK ==
    /\ type \in Types /\ xSize \in Sizes[type]
    /\ {pucAcquire, pucWrite, pucRead, pucFree} \subseteq Pos
    /\ type # BYTEBUF => \A p \in {pucAcquire, pucWrite, pucRead, pucFree} : Wrap(p) = p
    /\ full \in BOOLEAN
    /\ xItemsWaiting \in 0 .. xSize
    /\ sent \in 0 .. Round - 1 /\ got \in 0 .. Round - 1
    /\ sender \in Lens[type] \cup {NoWait} /\ receiver \in BOOLEAN
    /\ type # BYTEBUF => \A p \in DOMAIN mem : mem[p].uxItemFlags \subseteq Flag
    /\ fault \in {"none", "early", "wrong"}

Region(p) == p .. End(p, Header(mem, p).xItemLen) - 1
Held == {x \in (DOMAIN q) \X (1 .. 2) : x[2] \in DOMAIN q[x[1]].at}
At(x) == q[x[1]].at[x[2]]

\* Whatever the order of acquiring, completing, retrieving and returning, an
\* item that has not been returned lies inside the buffer, shares no byte with
\* another one, and its header still says what xRingbufferSendComplete and
\* vRingbufferReturnItem assert of it (ringbuf.c:373, 619); the pointers are where
\* TypeOK says.
Disjoint ==
    /\ TypeOK
    /\ type # BYTEBUF =>
        \A x \in Held :
            /\ At(x) \in DOMAIN mem /\ Region(At(x)) \subseteq Pos
            /\ ~Marked(mem, At(x), "DUMMY") /\ ~Marked(mem, At(x), "FREE")
            /\ type = NOSPLIT => (Marked(mem, At(x), "WRITTEN") <=> q[x[1]].done)
            /\ \A y \in Held : x # y => Region(At(x)) \cap Region(At(y)) = {}

\* What a receive hands out is the item that was sent next, all of it, or the
\* bytes that were sent next, across every wrap of the buffer.
InOrder == fault # "wrong"

\* "the receiving of data items must occur in FIFO order, therefore not calling
\* SendComplete for the earliest acquired item prevents the subsequent items
\* from being received" (freertos_additions.rst:230): no item is handed out
\* before it is completed.  prvCheckItemAvail looks at the header pucRead points
\* to, which may be a dummy that prvSendItemDoneNoSplit has marked as written,
\* and prvGetItemDefault goes on to the item behind it.
OnlyCompleted == fault # "early"

\* An item that is completed and comes next is there to be retrieved: the
\* conditions of prvCheckItemAvail never hide it (ringbuf.c:514).
Delivered ==
    (type # BYTEBUF /\ fault = "none") =>
    \A i \in DOMAIN q :
        (~q[i].taken /\ q[i].done /\ \A j \in 1 .. i - 1 : q[j].taken) => prvCheckItemAvail

\* The space is accounted for.  When everything has been returned, in whatever
\* order, an item of the greatest size fits again (prvReturnItemDefault); and
\* xRingbufferGetCurFreeSize always "represents the maximum size an item/data can
\* have if it was currently sent" (ringbuf.h:422): an item of that size fits and,
\* but for allow-split buffers, no larger one does.
FreeSpaceExact ==
    LET c == xRingbufferGetCurFreeSize IN
    /\ (q = <<>> /\ xItemsWaiting = 0) => ~full /\ xCheckItemFits(xMaxItemSize)
    /\ c > 0 => xCheckItemFits(c)
    /\ type # ALLOWSPLIT => \A n \in c + 1 .. xMaxItemSize : ~xCheckItemFits(n)

\* No task sleeps in a send that would fit or in a receive that would find
\* something: every call that changes that wakes it (ringbuf.c:793, 1026, 1226).
\* There is one sleeper of each kind; others send and receive without waiting.
NoLostWakeup ==
    /\ sender # NoWait => ~xCheckItemFits(sender)
    /\ receiver => ~prvCheckItemAvail
==============================================================================
