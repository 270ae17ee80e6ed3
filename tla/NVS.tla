--------------------------------- MODULE NVS ---------------------------------
(***************************************************************************)
(* nvs_flash: the log of items on flash pages behind nvs_set and nvs_get.  *)
(*                                                                         *)
(* A page is a sector: a header with a state and a sequence number, and E  *)
(* entries filled from the front.  A primitive value or a blob index takes *)
(* one entry, a chunk of blob data one entry more than its data.  An item  *)
(* is erased by a bit in the page's table; its entries come back only when *)
(* the page's live items are copied to the one spare page and the page is  *)
(* erased.  A blob is a set of chunks, each on its own page, and an index  *)
(* written last; a rewrite uses the other of two versions.                 *)
(*                                                                         *)
(* Every step makes at most one change of the flash.  Power may be lost    *)
(* before, during or after it (Do); mounting repairs what that leaves.     *)
(*                                                                         *)
(* Abstracted: the sequence numbers, of which only the order is kept       *)
(* (list); the hash list, a cache of positions; the namespace, part of the *)
(* key; a key keeps its datatype.  Flash calls that return an error are    *)
(* not modelled.                                                           *)
(***************************************************************************)
EXTENDS Integers, Sequences, FiniteSets, FiniteSetsExt, SequencesExt

CONSTANTS NP,     \* pages of the partition (mPageCount)
          E,      \* entries of a page (Page::ENTRY_COUNT)
          Prims,  \* keys of primitive values
          Blobs,  \* keys of blobs
          PVals,  \* primitive values
          BVals,  \* blob values: records with field size, in entries of data
          Absent  \* no value

ASSUME NVSAssumption ==
    /\ NP \in Nat /\ NP >= 3
    /\ E \in Nat /\ E >= 2
    /\ Prims \cap Blobs = {}
    /\ \A v \in BVals : v.size \in Nat

VARIABLES page,  \* the flash: state, items and next free entry of each page
          list,  \* mPageList: pages with a header by sequence number, and the
                 \* page activated last
          free,  \* mFreePageList
          pc,    \* the step of the call or of the mount that comes next
          ret,   \* where requestNewPage returns to
          op,    \* the call under way and its local variables
          fault  \* the defect that has been met: "none", "mount", "cleanup"

vars == <<page, list, free, pc, ret, op, fault>>

Pages == 1..NP
Headed == {"ACTIVE", "FULL", "FREEING"}

NoOp == [key |-> Absent, val |-> Absent, set |-> FALSE, old |-> Absent, at |-> 0,
         ver |-> 0, n |-> 0, rem |-> 0, tail |-> 0, used |-> <<>>]

-----------------------------------------------------------------------------
(* Items, in the order of the log. *)

\* An item without its place: kind "prim", "idx" or "data"; ver and n are the
\* version and chunk number (data) or chunk count (idx), size its data.
MkItem(kind, key, val, ver, n, size) ==
    [kind |-> kind, key |-> key, val |-> val, ver |-> ver, n |-> n,
     size |-> size, pos |-> 0, whole |-> TRUE]

Span(x) == IF x.kind = "data" THEN 1 + x.size ELSE 1

\* The whole items of the pages in the list, with their page and its rank.
Log == UNION {{[r |-> i, p |-> list[i], x |-> x] :
                   x \in {y \in ToSet(page[list[i]].items) : y.whole}} : i \in DOMAIN list}

\* Storage::findItem searches the pages of the list from the front.
Found(Match(_)) == {e \in Log : Match(e.x)}
First(S) == CHOOSE e \in S : \A f \in S : e.r < f.r \/ (e.r = f.r /\ e.x.pos <= f.x.pos)
Newest(S) == CHOOSE e \in S : \A f \in S : e.r > f.r \/ (e.r = f.r /\ e.x.pos >= f.x.pos)

IsPrim(k) == Found(LAMBDA x : x.kind = "prim" /\ x.key = k)
IsIdx(k) == Found(LAMBDA x : x.kind = "idx" /\ x.key = k)
IsChunk(k, v, n) == Found(LAMBDA x : x.kind = "data" /\ x.key = k /\ x.ver = v /\ x.n = n)

Used(p) == MapThenSumSet(Span, ToSet(page[p].items))

-----------------------------------------------------------------------------
(* Changes of the flash, and what a power loss can leave of each. *)

Blank == [st |-> "UNINIT", items |-> <<>>, next |-> 0]
Corrupt == [Blank EXCEPT !.st = "CORRUPT"]

With(p, x) ==
    [page EXCEPT ![p].items = Append(@, [x EXCEPT !.pos = page[p].next]),
                 ![p].next = @ + Span(x)]
Without(p, pos) == [page EXCEPT ![p].items = SelectSeq(@, LAMBDA x : x.pos # pos)]

\* Page::writeItem once the page is known to have room: cut short, the first
\* entry alone or all of the span is lost.
Put(p, x) ==
    [done |-> With(p, x),
     torn |-> {With(p, [x EXCEPT !.whole = FALSE]),
               With(p, [x EXCEPT !.whole = FALSE, !.size = 0])}]

\* Page::eraseEntryAndSpan: the table is altered from the end of the span.
Drop(p, pos) ==
    [done |-> Without(p, pos),
     torn |-> {[page EXCEPT ![p].items =
                   [i \in DOMAIN @ |-> IF @[i].pos = pos /\ Span(@[i]) > 1
                                       THEN [@[i] EXCEPT !.whole = FALSE] ELSE @[i]]]}]

\* Page::initialize.
Initialize(p) ==
    [done |-> [page EXCEPT ![p] = [Blank EXCEPT !.st = "ACTIVE"]],
     torn |-> {[page EXCEPT ![p] = Corrupt]}]

\* Page::erase.
Wipe(p) ==
    [done |-> [page EXCEPT ![p] = Blank],
     torn |-> {[page EXCEPT ![p] = Corrupt]}]

\* Page::markFull and Page::markFreeing: a bit of the header.
Mark(p, st) == [done |-> [page EXCEPT ![p].st = st], torn |-> {}]

\* RAM is lost; the pages with a header keep their order.
PowerLoss ==
    /\ list' = SelectSeq(list, LAMBDA p : page'[p].st \in Headed)
    /\ free' = <<>> /\ pc' = "load" /\ ret' = "load" /\ op' = NoOp

\* The step makes change c and goes on with Then, or power is lost.
Do(c, Then) ==
    \/ page' = c.done /\ Then /\ UNCHANGED fault
    \/ page' \in {page, c.done} \cup c.torn /\ PowerLoss /\ UNCHANGED fault

Goto(l) == pc' = l /\ UNCHANGED <<list, free, ret, op>>
Stay == UNCHANGED <<list, free, pc, ret, op>>

\* A step that changes no flash.
Ram == UNCHANGED <<page, fault>>

-----------------------------------------------------------------------------
(* PageManager::requestNewPage and the copy of a page's live items. *)

Unused(p) == E - Used(p)

\* The first page with the most entries that are not in use.
Victim == LET best == {i \in DOMAIN list : \A j \in DOMAIN list :
                          Unused(list[i]) >= Unused(list[j])}
          IN  list[CHOOSE i \in best : \A j \in best : i <= j]

Current == Last(list)

\* Two free pages: no page need be reclaimed to keep one.
SpareMutant == Len(free) >= 1
Spare == Len(free) >= 2

Room == Spare \/ (Len(free) = 1 /\ Unused(Victim) > 0)

\* An error of requestNewPage: chunks already written are cleaned up.
RequestFails == Goto(IF op.n > 0 THEN "cleanup" ELSE "failed")

RequestNewPage ==
    /\ pc = "request"
    /\ \/ ~Room /\ RequestFails /\ Ram
       \/ /\ Room /\ page[Head(free)].st = "CORRUPT"
          /\ Do(Wipe(Head(free)), Stay)
       \/ /\ Room /\ page[Head(free)].st # "CORRUPT" /\ Spare
          /\ list' = Append(list, Head(free)) /\ free' = Tail(free)
          /\ pc' = ret /\ UNCHANGED <<ret, op>> /\ Ram
       \/ /\ Room /\ page[Head(free)].st # "CORRUPT" /\ ~Spare
          /\ Do(Mark(Victim, "FREEING"),
                /\ list' = Append(list, Head(free)) /\ free' = Tail(free)
                /\ pc' = "copy" /\ UNCHANGED <<ret, op>>)

Freeing == SelectSeq(list, LAMBDA p : page[p].st = "FREEING")

\* Page v has been erased: a call that had found the old value there must
\* look for it again (at).
RelocatedMutant(v) == op
Relocated(v) == IF op.at = v THEN [op EXCEPT !.at = 0] ELSE op

\* Page::copyItems item by item, then the erase of the page.
CopyItems ==
    /\ pc = "copy"
    /\ LET v == Head(Freeing)
           from == page[v].items
           to == page[Current]
       IN  \/ /\ from # <<>> /\ to.st = "UNINIT"
              /\ Do(Initialize(Current), Stay)
           \/ /\ from # <<>> /\ to.st # "UNINIT" /\ Len(to.items) < Len(from)
              /\ Do(Put(Current, from[Len(to.items) + 1]), Stay)
           \/ /\ Len(to.items) = Len(from)
              /\ Do(Wipe(v),
                    /\ list' = SelectSeq(list, LAMBDA p : p # v)
                    /\ free' = Append(free, v) /\ pc' = ret
                    /\ op' = Relocated(v)
                    /\ UNCHANGED ret)

-----------------------------------------------------------------------------
(* Storage::writeItem of a primitive value. *)

\* What nvs_get returns: the first item found; of a blob, the first index and
\* the first chunk found for each number.
Read(k) ==
    IF k \in Prims
    THEN IF IsPrim(k) = {} THEN Absent ELSE First(IsPrim(k)).x.val
    ELSE IF IsIdx(k) = {} THEN Absent
    ELSE LET i == First(IsIdx(k)).x
             c == [n \in 1..i.n |-> IsChunk(k, i.ver, n - 1)]
         IN  IF (\E n \in 1..i.n : c[n] = {}) \/
                MapThenSumSet(LAMBDA n : First(c[n]).x.size, 1..i.n) # i.size
             THEN Absent ELSE First(c[1]).x.val

\* The value is not written again when it is found unchanged.  The check of a
\* blob takes every chunk's checksum over the start of the data, so it only
\* recognises a blob of one chunk.
Same(k, v) ==
    /\ Read(k) = v
    /\ k \in Blobs => First(IsIdx(k)).x.n = 1

Old(k) == IF k \in Prims THEN IsPrim(k) ELSE IsIdx(k)

MaxBlob == (NP - 1) * (E - 1)

\* No toggle of the version.
NewOpMutant(k, v, set) ==
    [NoOp EXCEPT !.key = k, !.val = v, !.set = set,
                 !.old = IF Old(k) = {} THEN Absent ELSE First(Old(k)).x,
                 !.at = IF Old(k) = {} THEN 0 ELSE First(Old(k)).p,
                 !.ver = IF Old(k) = {} THEN 0 ELSE First(Old(k)).x.ver,
                 !.rem = IF set /\ k \in Blobs THEN v.size ELSE 0]

\* The call as it starts: the old item and its page, and a blob's version.
NewOp(k, v, set) ==
    [NoOp EXCEPT !.key = k, !.val = v, !.set = set,
                 !.old = IF Old(k) = {} THEN Absent ELSE First(Old(k)).x,
                 !.at = IF Old(k) = {} THEN 0 ELSE First(Old(k)).p,
                 !.ver = IF Old(k) = {} \/ k \in Prims THEN 0 ELSE 1 - First(Old(k)).x.ver,
                 !.rem = IF set /\ k \in Blobs THEN v.size ELSE 0]

Set(k, v) ==
    /\ pc = "ready"
    /\ ~Same(k, v)
    /\ k \in Blobs => v.size <= MaxBlob
    /\ op' = NewOp(k, v, TRUE)
    /\ pc' = IF k \in Prims THEN "write" ELSE "chunk"
    /\ UNCHANGED <<list, free, ret>> /\ Ram

\* Storage::eraseItem.
Erase(k) ==
    /\ pc = "ready"
    /\ Old(k) # {}
    /\ op' = NewOp(k, Absent, FALSE)
    /\ pc' = IF k \in Prims THEN "drop" ELSE "dropidx"
    /\ UNCHANGED <<list, free, ret>> /\ Ram

Fits(p) == page[p].st = "ACTIVE" /\ page[p].next < E

WritePrim ==
    /\ pc \in {"write", "rewrite"}
    /\ \/ page[Current].st = "UNINIT" /\ Do(Initialize(Current), Stay)
       \/ /\ Fits(Current)
          /\ Do(Put(Current, MkItem("prim", op.key, op.val, 0, 0, 0)),
                Goto(IF op.old = Absent THEN "done" ELSE "drop"))
       \/ /\ pc = "write" /\ page[Current].st = "ACTIVE" /\ ~Fits(Current)
          /\ Do(Mark(Current, "FULL"), Stay)
       \/ /\ pc = "write" /\ page[Current].st = "FULL"
          /\ pc' = "request" /\ ret' = "rewrite" /\ UNCHANGED <<list, free, op>> /\ Ram
       \/ /\ pc = "rewrite" /\ page[Current].st # "UNINIT" /\ ~Fits(Current)
          /\ Goto("failed") /\ Ram

\* The page the old item is erased on: where it was found, or where it is
\* found now if that page has been reclaimed since.
OldPage == IF op.at = 0 THEN First(IsPrim(op.key)).p ELSE op.at

DropPrim ==
    /\ pc = "drop"
    /\ LET here == {e \in IsPrim(op.key) : e.p = OldPage}
       IN  \/ here # {} /\ Do(Drop(OldPage, First(here).x.pos), Goto("done"))
           \/ here = {} /\ Goto("failed") /\ Ram

Return ==
    /\ pc \in {"done", "failed"}
    /\ pc' = "ready" /\ op' = NoOp /\ ret' = "load"
    /\ UNCHANGED <<list, free>> /\ Ram

-----------------------------------------------------------------------------
(* Storage::writeMultiPageBlob and eraseMultiPageBlob. *)

\* Page::getVarDataTailroom, in entries.
Tailroom(p) ==
    IF page[p].st = "UNINIT" THEN E - 1
    ELSE IF page[p].st = "FULL" \/ page[p].next >= E - 1 THEN 0
    ELSE E - page[p].next - 1

\* The first chunk is not put on a page with less than a tenth of a page left,
\* unless all of the blob fits.
TooSmall(t) ==
    /\ op.n = 0
    /\ t < op.val.size \/ (t = 0 /\ op.val.size = 0)
    /\ 10 * t < E - 1

\* "We got the same page or we are not improving."
StuckMutant(t) == FALSE
Stuck(t) == pc = "retry" /\ t = op.tail

WriteChunk ==
    /\ pc \in {"chunk", "retry"}
    /\ LET t == Tailroom(Current)
           size == IF op.rem > t THEN t ELSE op.rem
           again == [op EXCEPT !.tail = t]
       IN  \/ Stuck(t) /\ Goto("failed") /\ Ram
           \/ /\ ~Stuck(t) /\ TooSmall(t)
              /\ \/ /\ page[Current].st # "FULL"
                    /\ Do(Mark(Current, "FULL"),
                          /\ pc' = "request" /\ ret' = "retry" /\ op' = again
                          /\ UNCHANGED <<list, free>>)
                 \/ /\ page[Current].st = "FULL"
                    /\ pc' = "request" /\ ret' = "retry" /\ op' = again
                    /\ UNCHANGED <<list, free>> /\ Ram
           \/ ~Stuck(t) /\ ~TooSmall(t) /\ t = 0 /\ Goto("cleanup") /\ Ram
           \/ /\ ~Stuck(t) /\ ~TooSmall(t) /\ t > 0
              /\ page[Current].st = "UNINIT"
              /\ Do(Initialize(Current), Stay)
           \/ /\ ~Stuck(t) /\ ~TooSmall(t) /\ t > 0
              /\ page[Current].st = "ACTIVE"
              /\ Do(Put(Current, MkItem("data", op.key, op.val, op.ver, op.n, size)),
                    /\ op' = [op EXCEPT !.n = @ + 1, !.rem = @ - size,
                                        !.used = Append(@, Current)]
                    /\ pc' = "next" /\ UNCHANGED <<list, free, ret>>)

\* The page is closed if data is left, or no entry for the index.
CloseMutant == op.rem > 0
Close == op.rem > 0 \/ page[Current].next >= E

AfterChunk ==
    /\ pc = "next"
    /\ \/ /\ Close
          /\ Do(Mark(Current, "FULL"),
                /\ pc' = "request"
                /\ ret' = IF op.rem = 0 THEN "index" ELSE "chunk"
                /\ UNCHANGED <<list, free, op>>)
       \/ ~Close /\ Goto("index") /\ Ram

WriteIndex ==
    /\ pc = "index"
    /\ \/ page[Current].st = "UNINIT" /\ Do(Initialize(Current), Stay)
       \/ /\ Fits(Current)
          /\ Do(Put(Current, MkItem("idx", op.key, Absent, op.ver, op.n, op.val.size)),
                Goto(IF op.old = Absent THEN "done" ELSE "dropidx"))
       \/ /\ page[Current].st # "UNINIT" /\ ~Fits(Current)
          /\ Goto("failed") /\ Ram

\* "Anything failed, then we should erase all the written chunks": what is
\* erased on the i-th page used is chunk i of version 0.
CleanUp ==
    /\ pc = "cleanup"
    /\ \/ op.used = <<>> /\ Goto("failed") /\ Ram
       \/ /\ op.used # <<>>
          /\ LET i == op.n - Len(op.used)
                 here == {e \in IsChunk(op.key, 0, i) : e.p = Head(op.used)}
                 rest == op' = [op EXCEPT !.used = Tail(@)] /\ UNCHANGED <<list, free, pc, ret>>
             IN  \/ /\ here # {} /\ op.ver = 0
                    /\ Do(Drop(First(here).p, First(here).x.pos), rest)
                 \/ /\ here # {} /\ op.ver = 1 /\ rest
                    /\ page' = Without(First(here).p, First(here).x.pos)
                    /\ fault' = "cleanup"
                 \/ here = {} /\ rest /\ fault' = "cleanup" /\ UNCHANGED page

\* eraseMultiPageBlob: the index first, then the chunks it counts.
DropIndex ==
    /\ pc = "dropidx"
    /\ LET here == {e \in IsIdx(op.key) : e.x.ver = op.old.ver}
       IN  \/ here = {} /\ Goto("failed") /\ Ram
           \/ /\ here # {}
              /\ Do(Drop(First(here).p, First(here).x.pos),
                    /\ op' = [op EXCEPT !.n = 0, !.rem = First(here).x.n]
                    /\ pc' = "dropchunks" /\ UNCHANGED <<list, free, ret>>)

DropChunks ==
    /\ pc = "dropchunks"
    /\ LET here == IsChunk(op.key, op.old.ver, op.n)
       IN  \/ op.n = op.rem /\ Goto("done") /\ Ram
           \/ op.n < op.rem /\ here = {} /\ Goto("failed") /\ Ram
           \/ /\ op.n < op.rem /\ here # {}
              /\ Do(Drop(First(here).p, First(here).x.pos),
                    op' = [op EXCEPT !.n = @ + 1] /\ UNCHANGED <<list, free, pc, ret>>)

-----------------------------------------------------------------------------
(* Mounting: Page::load, PageManager::load, Storage::init. *)

SameSlot(x, y) ==
    /\ x.key = y.key
    /\ (x.kind = "data") = (y.kind = "data")
    /\ x.kind = "data" => x.ver = y.ver /\ x.n = y.n

\* mLoadEntryTable: items not written or erased in full go; on the active
\* page so does an item that a later one replaces.
Repaired(pg) ==
    LET whole == SelectSeq(pg.items, LAMBDA x : x.whole)
        newest == SelectSeq(whole, LAMBDA x : ~\E i \in DOMAIN whole :
                                whole[i].pos > x.pos /\ SameSlot(whole[i], x))
    IN  IF pg.st = "ACTIVE" THEN newest ELSE whole

\* "check that last item is not duplicate": if the last thing on the active
\* page is a chunk, the first chunk of the same blob on that page is taken for
\* a duplicate, whatever its version and number.
Mistaken(pg) ==
    LET items == Repaired(pg)
        last == Last(items)
        chunks == SelectSeq(items, LAMBDA x : x.kind = "data" /\ x.key = last.key)
    IN  IF \/ pg.st # "ACTIVE" \/ items = <<>>
           \/ last.pos + Span(last) # pg.next \/ last.kind # "data"
        THEN {} ELSE {Head(chunks)} \ {last}

Loaded(pg) ==
    [pg EXCEPT !.items = SelectSeq(Repaired(pg), LAMBDA x : x \notin Mistaken(pg))]

\* Each page is loaded by itself, so power lost on the way leaves pages that
\* the next mount loads to the same.
LoadPages ==
    /\ pc = "load"
    /\ page' = [p \in Pages |-> Loaded(page[p])]
    /\ fault' = IF \E p \in Pages : Mistaken(page[p]) # {} THEN "mount" ELSE fault
    /\ free' = SelectSeq([p \in Pages |-> p], LAMBDA p : page[p].st \notin Headed)
    /\ pc' = IF list = <<>> THEN "first" ELSE "dups"
    /\ UNCHANGED <<list, ret, op>>

\* No page has a header: the first one is activated.
FirstPage ==
    /\ pc = "first"
    /\ \/ page[Head(free)].st = "CORRUPT" /\ Do(Wipe(Head(free)), Stay)
       \/ /\ page[Head(free)].st # "CORRUPT"
          /\ list' = <<Head(free)>> /\ free' = Tail(free) /\ pc' = "ready"
          /\ UNCHANGED <<ret, op>> /\ Ram

\* The last item of the last page may replace one on an earlier page.
DropDuplicate ==
    /\ pc = "dups"
    /\ LET items == page[Current].items
           old == Found(LAMBDA x : items # <<>> /\ SameSlot(x, Last(items))
                                                /\ x.kind = Last(items).kind)
           here == {e \in old : e.p # Current /\ page[e.p].st # "FREEING"}
       IN  \/ here # {} /\ Do(Drop(First(here).p, First(here).x.pos), Goto("recover"))
           \/ here = {} /\ Goto("recover") /\ Ram

\* A page found FREEING: what was copied so far is erased with its page, and
\* the copy is made again.
RecoverFreeing ==
    /\ pc = "recover"
    /\ \/ Freeing = <<>> /\ Goto(IF free = <<>> THEN "dead" ELSE "indexes") /\ Ram
       \/ /\ Freeing # <<>> /\ page[Current].st = "ACTIVE"
          /\ Do(Wipe(Current), /\ list' = Front(list) /\ free' = Append(free, Current)
                               /\ UNCHANGED <<pc, ret, op>>)
       \/ /\ Freeing # <<>> /\ page[Current].st # "ACTIVE"
          /\ \/ free = <<>> /\ Goto("dead") /\ Ram
             \/ /\ free # <<>> /\ page[Head(free)].st = "CORRUPT"
                /\ Do(Wipe(Head(free)), Stay)
             \/ /\ free # <<>> /\ page[Head(free)].st # "CORRUPT"
                /\ list' = Append(list, Head(free)) /\ free' = Tail(free)
                /\ pc' = "copy" /\ ret' = "recover" /\ UNCHANGED op /\ Ram

\* The chunks of the blob version an index stands for.
Family(i) == Found(LAMBDA x : x.kind = "data" /\ x.key = i.key /\ x.ver = i.ver)

Mismatched(i) ==
    \/ MapThenSumSet(LAMBDA e : e.x.size, Family(i)) # i.size
    \/ Cardinality(Family(i)) # i.n

EraseMismatchedIndexes ==
    /\ pc = "indexes"
    /\ LET bad == Found(LAMBDA x : x.kind = "idx" /\ Mismatched(x))
       IN  \/ bad # {} /\ Do(Drop(First(bad).p, First(bad).x.pos), Stay)
           \/ bad = {} /\ Goto("orphans") /\ Ram

Orphan(x) ==
    LET idx == Found(LAMBDA i : i.kind = "idx" /\ i.key = x.key /\ i.ver = x.ver /\ x.n < i.n)
    IN  x.kind = "data" /\ idx = {}

EraseOrphansMutant == pc = "orphans" /\ Goto("ready") /\ Ram
EraseOrphans ==
    /\ pc = "orphans"
    /\ LET bad == Found(Orphan)
       IN  \/ bad # {} /\ Do(Drop(First(bad).p, First(bad).x.pos), Stay)
           \/ bad = {} /\ Goto("ready") /\ Ram

-----------------------------------------------------------------------------

Init ==
    /\ page = [p \in Pages |-> Blank]
    /\ list = <<>> /\ free = <<>> /\ op = NoOp
    /\ pc = "load" /\ ret = "load"
    /\ fault = "none"

Mount == \/ LoadPages \/ FirstPage \/ DropDuplicate \/ RecoverFreeing
         \/ EraseMismatchedIndexes \/ EraseOrphans

Work == \/ RequestNewPage \/ CopyItems \/ WritePrim \/ DropPrim \/ WriteChunk
        \/ AfterChunk \/ WriteIndex \/ CleanUp \/ DropIndex \/ DropChunks \/ Return

\* Power may also be lost between calls.
Off == pc = "ready" /\ UNCHANGED <<page, fault>> /\ PowerLoss

Call == \/ \E k \in Prims, v \in PVals : Set(k, v)
        \/ \E k \in Blobs, v \in BVals : Set(k, v)
        \/ \E k \in Prims \cup Blobs : Erase(k)

Next == Mount \/ Work \/ Call \/ Off

Spec == Init /\ [][Next]_vars

\* The thread that mounts or calls goes on with its next step, with power on.
LiveSpec == Spec /\ WF_vars((Mount \/ Work) /\ pc' # "load")

-----------------------------------------------------------------------------
(* What the flash holds, whatever the mount has still to repair. *)

\* The newest item decides; a blob is there if its newest index has all its
\* chunks.
View(k) ==
    IF k \in Prims
    THEN IF IsPrim(k) = {} THEN Absent ELSE Newest(IsPrim(k)).x.val
    ELSE IF IsIdx(k) = {} THEN Absent
    ELSE LET i == Newest(IsIdx(k)).x
             has(v) == \A n \in 1..i.n : \E e \in IsChunk(k, i.ver, n - 1) : e.x.val = v
         IN  IF \E v \in BVals : v.size = i.size /\ has(v)
             THEN CHOOSE v \in BVals : v.size = i.size /\ has(v) ELSE Absent

Committed == \/ pc \in {"done", "dropchunks"}
             \/ pc \in {"drop", "dropidx"} /\ op.set

Phase == CASE op.key = Absent -> "idle"
           [] pc = "failed" -> "failed"
           [] Committed -> "done"
           [] OTHER -> "busy"

Store == INSTANCE KVStore WITH
    Key <- Prims \cup Blobs, Value <- PVals \cup BVals,
    store <- [k \in Prims \cup Blobs |-> View(k)],
    call <- [key |-> op.key, val |-> op.val],
    phase <- Phase,
    broken <- fault # "none"

(***************************************************************************)
(* Correctness.                                                            *)
(***************************************************************************)

ItemOK(x) ==
    /\ x.kind \in {"prim", "idx", "data"} /\ x.key \in Prims \cup Blobs
    /\ x.ver \in 0..1 /\ x.n \in 0..NP /\ x.pos \in 0..E - 1 /\ x.whole \in BOOLEAN
    /\ x.pos + Span(x) <= E

\* The type invariant: items lie one after the other below the next free entry
\* (writeItem's check of the room), and no page is in two places of the lists.
TypeOK ==
    /\ \A p \in Pages :
          LET it == page[p].items
          IN  /\ page[p].st \in Headed \cup {"UNINIT", "CORRUPT"}
              /\ page[p].next \in 0..E
              /\ \A i \in DOMAIN it :
                    /\ ItemOK(it[i])
                    /\ it[i].pos + Span(it[i]) <=
                          IF i < Len(it) THEN it[i + 1].pos ELSE page[p].next
    /\ ToSet(list) \subseteq Pages /\ ToSet(free) \subseteq Pages
    /\ IsInjective(list \o free)
    /\ fault \in {"none", "mount", "cleanup"}

\* nvs_flash is a key-value store: a call takes effect at one write, or fails
\* and leaves the old value; power lost at any step of it, of reclaiming a page
\* or of a mount leaves every other key as it was and the key being written
\* with its old or its new value.
ImplementsStore == Store!Spec

\* Between calls nvs_get, which takes the first item and the first chunks it
\* finds, returns the newest value: no older item or chunk is left before it.
ReadsNewest == pc = "ready" => \A k \in Prims \cup Blobs : Read(k) = View(k)

\* A partition that was mounted once can always be mounted again: load never
\* finds all pages in use ("partition should have at least one free page").
Mountable == pc # "dead" /\ (pc = "ready" => free # <<>>)

\* Between calls every entry in use belongs to the value of a key: one item
\* for a primitive, one index and the chunks it counts for a blob.  What an
\* interrupted or failed call has written is reclaimed, up to the clean-up of a
\* blob that hits chunks of the old one (fault).  At all times the items lie as
\* TypeOK says.
NoLeak ==
    /\ TypeOK
    /\ pc = "ready" =>
        LET all == Found(LAMBDA x : TRUE)
        IN  \A e \in all : ~Orphan(e.x) /\ \A f \in all \ {e} : ~SameSlot(e.x, f.x)

\* requestNewPage leaves room for what it was called for: the write after it is
\* never refused for want of space (the assertions in writeMultiPageBlob).
RoomAfterRequest ==
    pc \in {"rewrite", "index"} => page[Current].st = "UNINIT" \/ Fits(Current)

Mounting == pc \in {"load", "first", "dups", "recover", "indexes", "orphans"}

\* The mount after a power loss loses no value.
MountKeeps ==
    [][Mounting => (\A k \in Prims \cup Blobs : View(k)' = View(k))]_vars

\* If power stays on from some time on, every mount and every call comes to an
\* end: neither retrying a blob nor reclaiming pages goes on for ever.
Completes == <>[][pc' # "load"]_vars => []<>(pc = "ready")
==============================================================================
