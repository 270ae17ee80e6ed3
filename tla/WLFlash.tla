------------------------------- MODULE WLFlash -------------------------------
(***************************************************************************)
(* The wear levelling layer of components/wear_levelling: class WL_Flash   *)
(* (WL_Flash.cpp) as wl_mount, wl_unmount, wl_erase_range and wl_write     *)
(* drive it.  Addresses are counted in pages: wl_mount makes wl_page_size  *)
(* and flash_sector_size equal.  One action is one call on the partition,  *)
(* so that power can go, and the flash can report an error, between any    *)
(* two of them.                                                            *)
(***************************************************************************)
EXTENDS Integers

CONSTANTS N,        \* pages the user sees: flash_size / wl_page_size
          Rate,     \* wl_max_sec_erase_cycle_count (wl_update_rate)
          Data,     \* page contents a user writes
          Erased,   \* content of an erased page
          Junk      \* any other content: left by an interrupted call

ASSUME WLAssumption ==
    /\ N \in Nat \ {0}
    /\ Rate \in Nat \ {0}
    /\ Erased \notin Data
    /\ Junk \notin Data \cup {Erased}

VARIABLES page,    \* physical pages 0..N, one of them the dummy page
          hdr,     \* the two state copies: move count, or why the CRC fails
          rec,     \* position records that OkBuffSet finds in each copy
          pos,     \* state.wl_dummy_sec_pos            (RAM)
          mc,      \* state.wl_dummy_sec_move_count     (RAM)
          cnt,     \* state.wl_sec_erase_cycle_count    (RAM)
          pc,      \* the next call on the partition
          op,      \* the API call under way: its pages and data
          vol,     \* history: what each user page must read as
          short,   \* history: copy 1 was rebuilt without all its records
          fault    \* history: a failure the code does not recover from

flashVars == <<page, hdr, rec>>
ramVars   == <<pos, mc, cnt>>
ghosts    == <<short, fault>>
vars == <<page, hdr, rec, pos, mc, cnt, pc, op, vol, short, fault>>

(***************************************************************************)
(* Layout.  A state copy is a header (wl_state_t) followed by position     *)
(* records.  Of the header only the move count varies: it is written with  *)
(* wl_dummy_sec_pos = 0 and wl_sec_erase_cycle_count = 0.                  *)
(***************************************************************************)
User     == 0 .. N - 1
Phys     == 0 .. N                  \* wl_part_max_sec_pos = N + 1 positions
Content  == Data \cup {Erased, Junk}
BlankHdr == -1                      \* erased, or torn before wl_device_id
TornHdr  == -2                      \* wl_device_id is there, the CRC is not
HdrOK(c) == hdr[c] >= 0

MinOf(S) == CHOOSE x \in S : \A y \in S : x <= y

\* The first position without a record; the last one when all are there.
FirstFree(R) == IF Phys \ R = {} THEN N ELSE MinOf(Phys \ R)

\* Mutant: the dummy page itself is not skipped.
AddrMutant(a, p, m) ==
    LET r == (N - m + a) % N
    IN  IF r <= p THEN r ELSE r + 1

\* calcAddr, in pages, for a dummy page at p and a move count m.
Addr(a, p, m) ==
    LET r == (N - m + a) % N
    IN  IF r < p THEN r ELSE r + 1

calcAddr(a) == Addr(a, pos, mc)

NoOp == [kind |-> "none", at |-> 0, last |-> 0, val |-> Erased]

Init ==
    /\ page \in {[p \in Phys |-> Erased], [p \in Phys |-> Junk]}
    /\ hdr = [c \in 1..2 |-> BlankHdr]
    /\ rec = [c \in 1..2 |-> {}]
    /\ pos = 0 /\ mc = 0 /\ cnt = 0
    /\ pc = "off"
    /\ op = NoOp
    /\ vol = [a \in User |-> Junk]
    /\ short = FALSE
    /\ fault = FALSE

(***************************************************************************)
(* The calls on the partition that state copies are made of.               *)
(***************************************************************************)
EraseCopy(c) ==
    /\ hdr' = [hdr EXCEPT ![c] = BlankHdr]
    /\ rec' = [rec EXCEPT ![c] = {}]
    /\ UNCHANGED page

WriteCopy(c, m) ==
    /\ hdr' = [hdr EXCEPT ![c] = m]
    /\ UNCHANGED <<page, rec>>

WriteRec(c, i) ==
    /\ rec' = [rec EXCEPT ![c] = @ \cup {i}]
    /\ UNCHANGED <<page, hdr>>

(***************************************************************************)
(* wl_mount -> WL_Flash::init.  Which copies have a good CRC decides:      *)
(* both and equal, both and different (copy 2 is stale), none (format;     *)
(* updateVersion finds no version 1 either), one (rebuild the other).      *)
(***************************************************************************)
Ready(p, m) == pos' = p /\ mc' = m /\ cnt' = 0 /\ pc' = "ready"

\* init, with h for the header of copy 1 that it has in this->state.
InitFrom(h) ==
    /\ pc = "off"
    /\ UNCHANGED <<page, hdr, rec, op, vol, short>>
    /\ \/ h >= 0 /\ h = hdr[2] /\ Ready(FirstFree(rec[1]), h)
       \/ /\ h >= 0 /\ HdrOK(2) /\ h # hdr[2]
          /\ pc' = "sync_erase" /\ mc' = h /\ UNCHANGED <<pos, cnt>>
       \/ /\ h < 0 /\ ~HdrOK(2)
          /\ pc' = "fmt_e1" /\ pos' = 0 /\ mc' = 0 /\ cnt' = 0
       \/ /\ h >= 0 /\ ~HdrOK(2)
          /\ pc' = "rb2_erase" /\ mc' = h /\ UNCHANGED <<pos, cnt>>
       \/ /\ h < 0 /\ HdrOK(2)
          \* wl_device_id in RAM is the one of the broken copy 1
          /\ pc' = IF h = TornHdr THEN "rb1_erase" ELSE "rb1_erase_noid"
          /\ mc' = hdr[2] /\ UNCHANGED <<pos, cnt>>

Mount == InitFrom(hdr[1]) /\ UNCHANGED fault

\* The read of copy 1 fails.  init does not look at its result and goes on with
\* what the malloc'ed object held: nothing of use, or the state of a WL_Flash that
\* was freed (its wl_device_id is taken to match), with or without a CRC that
\* matches.  No harm is done when the CRC fails and copy 1 was broken anyway.
MountBlind(h) ==
    /\ h # hdr[1]
    /\ InitFrom(h)
    /\ fault' = (fault \/ h >= 0 \/ HdrOK(1))

Leftovers == {BlankHdr, TornHdr} \cup User

\* initSections, then recoverPos on a copy 1 that has no records yet.
FmtErase(c) ==
    /\ pc = IF c = 1 THEN "fmt_e1" ELSE "fmt_e2"
    /\ EraseCopy(c)
    /\ pc' = IF c = 1 THEN "fmt_w1" ELSE "fmt_w2"
    /\ UNCHANGED <<pos, mc, cnt, op, vol, ghosts>>

FmtWrite(c) ==
    /\ pc = IF c = 1 THEN "fmt_w1" ELSE "fmt_w2"
    /\ WriteCopy(c, mc)
    /\ pc' = IF c = 1 THEN "fmt_e2" ELSE "fmt_cfg"
    /\ UNCHANGED <<pos, mc, cnt, op, vol, ghosts>>

FmtConfig ==
    /\ pc = "fmt_cfg"
    /\ Ready(FirstFree(rec[1]), mc)
    /\ UNCHANGED <<flashVars, op, vol, ghosts>>

\* Copy 2 is made again from copy 1: it was stale ("sync") or broken ("rb2").
Redo2Erase ==
    /\ pc \in {"sync_erase", "rb2_erase"}
    /\ EraseCopy(2)
    /\ pc' = IF pc = "sync_erase" THEN "sync_write" ELSE "rb2_write"
    /\ UNCHANGED <<ramVars, op, vol, ghosts>>

Redo2Write ==
    /\ pc \in {"sync_write", "rb2_write"}
    /\ WriteCopy(2, mc)
    /\ pc' = IF pc = "sync_write" THEN "sync_rec" ELSE "rb2_rec"
    /\ UNCHANGED <<ramVars, op, vol, ghosts>>

Redo2Rec ==
    /\ pc \in {"sync_rec", "rb2_rec"}
    /\ rec[1] \ rec[2] # {}
    /\ WriteRec(2, MinOf(rec[1] \ rec[2]))
    /\ UNCHANGED <<ramVars, pc, op, vol, ghosts>>

\* recoverPos after "sync"; after "rb2" the position stored in the header.
Redo2Done ==
    /\ pc \in {"sync_rec", "rb2_rec"}
    /\ rec[1] \ rec[2] = {}
    /\ Ready(IF pc = "sync_rec" THEN FirstFree(rec[1]) ELSE 0, hdr[2])
    /\ UNCHANGED <<flashVars, op, vol, ghosts>>

\* Copy 1 is made again from copy 2.  OkBuffSet compares the records of
\* copy 2 with the wl_device_id that was read from the broken copy 1.
Redo1Erase ==
    /\ pc \in {"rb1_erase", "rb1_erase_noid"}
    /\ EraseCopy(1)
    /\ pc' = IF pc = "rb1_erase" THEN "rb1_write" ELSE "rb1_write_noid"
    /\ UNCHANGED <<ramVars, op, vol, ghosts>>

Redo1Write ==
    /\ pc \in {"rb1_write", "rb1_write_noid"}
    /\ WriteCopy(1, mc)
    /\ pc' = IF pc = "rb1_write" THEN "rb1_rec" ELSE "rb1_rec_noid"
    /\ short' = TRUE
    /\ UNCHANGED <<ramVars, op, vol, fault>>

Redo1Rec ==
    /\ pc = "rb1_rec"
    /\ rec[2] \ rec[1] # {}
    /\ WriteRec(1, MinOf(rec[2] \ rec[1]))
    /\ UNCHANGED <<ramVars, pc, op, vol, ghosts>>

Redo1Done ==
    /\ pc \in {"rb1_rec", "rb1_rec_noid"}
    /\ pc = "rb1_rec" => rec[2] \ rec[1] = {}
    /\ Ready(N, hdr[1])
    /\ short' = (rec[1] # Phys)
    /\ UNCHANGED <<flashVars, op, vol, fault>>

(***************************************************************************)
(* wl_erase_range, wl_write, and wl_unmount, whose flush forces a move.    *)
(* Users erase a page before they write it (diskio_wl.c: ff_wl_write).     *)
(***************************************************************************)
EraseRange(a, b) ==
    /\ pc = "ready" /\ a <= b
    /\ pc' = "update"
    /\ op' = [kind |-> "erase", at |-> a, last |-> b, val |-> Erased]
    /\ UNCHANGED <<flashVars, ramVars, vol, ghosts>>

Write(a, b, d) ==
    /\ pc = "ready" /\ a <= b
    /\ \A x \in a .. b : vol[x] = Erased
    /\ pc' = "write"
    /\ op' = [kind |-> "write", at |-> a, last |-> b, val |-> d]
    /\ UNCHANGED <<flashVars, ramVars, vol, ghosts>>

Unmount ==
    /\ pc = "ready"
    /\ pc' = "update"
    /\ cnt' = Rate - 1
    /\ op' = [NoOp EXCEPT !.kind = "flush"]
    /\ UNCHANGED <<flashVars, pos, mc, vol, ghosts>>

\* What follows updateWL: erase_sector goes on, wl_unmount is over.
AfterUpdate ==
    IF op.kind = "flush" THEN pc' = "off" /\ op' = NoOp
                         ELSE pc' = "erase" /\ UNCHANGED op

\* The loops of erase_range and write: the next page, or return.
NextPage(again) ==
    IF op.at < op.last THEN pc' = again /\ op' = [op EXCEPT !.at = @ + 1]
                       ELSE pc' = "ready" /\ op' = NoOp

ErasePage ==
    /\ pc = "erase"
    /\ page' = [page EXCEPT ![calcAddr(op.at)] = Erased]
    /\ vol' = [vol EXCEPT ![op.at] = Erased]
    /\ NextPage("update")
    /\ UNCHANGED <<hdr, rec, ramVars, ghosts>>

WritePage ==
    /\ pc = "write"
    /\ page' = [page EXCEPT ![calcAddr(op.at)] = op.val]
    /\ vol' = [vol EXCEPT ![op.at] = op.val]
    /\ NextPage("write")
    /\ UNCHANGED <<hdr, rec, ramVars, ghosts>>

(***************************************************************************)
(* updateWL: every Rate-th erase copies the page after the dummy page into *)
(* it, records the move in both copies and makes that page the dummy.  The *)
(* last position wraps: the move count goes up and both copies are reborn. *)
(***************************************************************************)
UpdateWL ==
    /\ pc = "update"
    /\ IF cnt + 1 < Rate
       THEN /\ cnt' = cnt + 1
            /\ AfterUpdate
       ELSE /\ cnt' = 0
            /\ pc' = "mv_erase" /\ UNCHANGED op
    /\ UNCHANGED <<flashVars, pos, mc, vol, ghosts>>

MoveErase ==
    /\ pc = "mv_erase"
    /\ page' = [page EXCEPT ![pos] = Erased]
    /\ pc' = "mv_copy"
    /\ UNCHANGED <<hdr, rec, ramVars, op, vol, ghosts>>

\* Mutant: the position wraps one page early.
MoveCopyMutant ==
    /\ pc = "mv_copy"
    /\ page' = [page EXCEPT ![pos] = page[IF pos + 1 >= N THEN 0 ELSE pos + 1]]
    /\ pc' = "mv_rec1"
    /\ UNCHANGED <<hdr, rec, ramVars, op, vol, ghosts>>

MoveCopy ==
    /\ pc = "mv_copy"
    /\ page' = [page EXCEPT ![pos] = page[IF pos + 1 > N THEN 0 ELSE pos + 1]]
    /\ pc' = "mv_rec1"
    /\ UNCHANGED <<hdr, rec, ramVars, op, vol, ghosts>>

MoveRec1 ==
    /\ pc = "mv_rec1"
    /\ WriteRec(1, pos)
    /\ pc' = "mv_rec2"
    /\ UNCHANGED <<ramVars, op, vol, ghosts>>

\* Mutant: the move count is not brought back to 0.
MoveRec2MutantCount ==
    /\ pc = "mv_rec2"
    /\ WriteRec(2, pos)
    /\ IF pos + 1 <= N
       THEN pos' = pos + 1 /\ UNCHANGED mc /\ AfterUpdate
       ELSE pos' = 0 /\ mc' = mc + 1 /\ pc' = "wr_e1" /\ UNCHANGED op
    /\ UNCHANGED <<cnt, vol, ghosts>>

\* Mutant: the move count does not go up at a wrap.
MoveRec2MutantStill ==
    /\ pc = "mv_rec2"
    /\ WriteRec(2, pos)
    /\ IF pos + 1 <= N
       THEN pos' = pos + 1 /\ UNCHANGED mc /\ AfterUpdate
       ELSE pos' = 0 /\ mc' = mc /\ pc' = "wr_e1" /\ UNCHANGED op
    /\ UNCHANGED <<cnt, vol, ghosts>>

MoveRec2 ==
    /\ pc = "mv_rec2"
    /\ WriteRec(2, pos)
    /\ IF pos + 1 <= N
       THEN /\ pos' = pos + 1
            /\ UNCHANGED mc
            /\ AfterUpdate
       ELSE /\ pos' = 0
            /\ mc' = IF mc + 1 >= N THEN 0 ELSE mc + 1
            /\ pc' = "wr_e1" /\ UNCHANGED op
    /\ UNCHANGED <<cnt, vol, ghosts>>

\* Mutant: copy 2 is erased before copy 1 is written again.
WrapErase1Mutant ==
    /\ pc = "wr_e1"
    /\ EraseCopy(1)
    /\ pc' = "wr_e2"
    /\ short' = FALSE
    /\ UNCHANGED <<ramVars, op, vol, fault>>

WrapErase1 ==
    /\ pc = "wr_e1"
    /\ EraseCopy(1)
    /\ pc' = "wr_w1"
    /\ short' = FALSE
    /\ UNCHANGED <<ramVars, op, vol, fault>>

WrapWrite1 ==
    /\ pc = "wr_w1"
    /\ WriteCopy(1, mc)
    /\ pc' = "wr_e2"
    /\ UNCHANGED <<ramVars, op, vol, ghosts>>

\* Mutant: copy 2 is left erased.
WrapErase2Mutant ==
    /\ pc = "wr_e2"
    /\ EraseCopy(2)
    /\ AfterUpdate
    /\ UNCHANGED <<ramVars, vol, ghosts>>

WrapErase2 ==
    /\ pc = "wr_e2"
    /\ EraseCopy(2)
    /\ pc' = "wr_w2"
    /\ UNCHANGED <<ramVars, op, vol, ghosts>>

WrapWrite2 ==
    /\ pc = "wr_w2"
    /\ WriteCopy(2, mc)
    /\ AfterUpdate
    /\ UNCHANGED <<ramVars, vol, ghosts>>

(***************************************************************************)
(* Failures.  An interrupted call leaves junk in the page it was changing, *)
(* or a header without its CRC; an interrupted record is not a record.     *)
(***************************************************************************)
Target == CASE pc \in {"mv_erase", "mv_copy"} -> {pos}
            [] pc \in {"erase", "write"}      -> {calcAddr(op.at)}
            [] OTHER                          -> {}

InFlight ==
    /\ \/ UNCHANGED page
       \/ page' = [p \in Phys |-> IF p \in Target THEN Junk ELSE page[p]]
    /\ vol' = [a \in User |-> IF pc \in {"erase", "write"} /\ a = op.at
                              THEN Junk ELSE vol[a]]
    /\ \/ UNCHANGED hdr
       \/ /\ pc \in {"fmt_w1", "rb1_write", "rb1_write_noid", "wr_w1"}
          /\ hdr' = [hdr EXCEPT ![1] = TornHdr]
    /\ UNCHANGED rec

\* Power goes, at any moment: RAM is lost.
PowerLoss ==
    /\ pc # "off"
    /\ InFlight
    /\ pc' = "off"
    /\ op' = NoOp
    /\ pos' = 0 /\ mc' = 0 /\ cnt' = 0
    /\ short' = FALSE
    /\ fault' = (fault \/ short)

Mounting == {"fmt_e1", "fmt_w1", "fmt_e2", "fmt_w2", "fmt_cfg", "sync_erase",
             "sync_write", "sync_rec", "rb2_erase", "rb2_write", "rb2_rec",
             "rb1_erase", "rb1_write", "rb1_rec", "rb1_erase_noid",
             "rb1_write_noid", "rb1_rec_noid"}
Moving   == {"mv_erase", "mv_copy", "mv_rec1", "mv_rec2"}
Wrapping == {"wr_e1", "wr_w1", "wr_e2", "wr_w2"}

\* A call on the partition returns an error.  init gives up, except for the read of
\* copy 1 (MountBlind); updateWL has the move tried again at the next erase
\* (cnt = Rate - 1) unless it was past it.
FlashError ==
    /\ pc \in Mounting \cup Moving \cup Wrapping \cup {"erase", "write"}
    /\ InFlight
    /\ pc' = IF pc \in Mounting \/ op.kind = "flush" THEN "off" ELSE "ready"
    /\ op' = NoOp
    /\ cnt' = IF pc \in Moving THEN Rate - 1 ELSE cnt
    /\ short' = (short /\ pc \notin Mounting /\ op.kind # "flush")
    /\ fault' = \/ fault
                \/ short /\ (pc \in Mounting \/ op.kind = "flush")
                \/ pc \in Wrapping \cup {"mv_rec2"}
    /\ UNCHANGED <<pos, mc>>

Step ==
    \/ FmtErase(1) \/ FmtWrite(1) \/ FmtErase(2) \/ FmtWrite(2) \/ FmtConfig
    \/ Redo2Erase \/ Redo2Write \/ Redo2Rec \/ Redo2Done
    \/ Redo1Erase \/ Redo1Write \/ Redo1Rec \/ Redo1Done
    \/ UpdateWL \/ MoveErase \/ MoveCopy \/ MoveRec1 \/ MoveRec2
    \/ WrapErase1 \/ WrapWrite1 \/ WrapErase2 \/ WrapWrite2
    \/ ErasePage \/ WritePage

\* The user's calls and the code's own steps, without failures.
Normal ==
    \/ Mount
    \/ \E a, b \in User : EraseRange(a, b)
    \/ \E a, b \in User, d \in Data : Write(a, b, d)
    \/ Unmount
    \/ Step

ReadError == \E h \in Leftovers : MountBlind(h)

Next == Normal \/ PowerLoss \/ FlashError \/ ReadError

Spec == Init /\ [][Next]_vars

\* One kind of failure at a time.
SpecPowerLoss  == Init /\ [][Normal \/ PowerLoss]_vars
SpecFlashError == Init /\ [][Normal \/ FlashError]_vars
SpecReadError  == Init /\ [][Normal \/ ReadError]_vars

\* The mounting task and the API calls run to their end.
LiveSpec == Spec /\ WF_vars(Mount) /\ WF_vars(Step)

-----------------------------------------------------------------------------
(***************************************************************************)
(* Properties.                                                             *)
(***************************************************************************)
PCs == {"off", "ready", "update", "erase", "write"} \cup Mounting \cup Moving
       \cup Wrapping

\* Every variable has its type; pos, mc and cnt stay within the positions of
\* the partition, the move counts and the update rate (updateWL).
TypeOK ==
    /\ page \in [Phys -> Content]
    /\ hdr \in [1..2 -> -2 .. N - 1]
    /\ rec \in [1..2 -> SUBSET Phys]
    /\ pos \in Phys
    /\ mc \in User
    /\ cnt \in 0 .. Rate - 1
    /\ pc \in PCs
    /\ op \in [kind : {"none", "erase", "write", "flush"},
              at : User, last : User, val : Data \cup {Erased}]
    /\ vol \in [User -> Content]
    /\ short \in BOOLEAN
    /\ fault \in BOOLEAN

\* Pages pg hold, under a dummy position p and a move count m, what the user
\* stored (v), except where an interrupted call left it open.
Holds(pg, v, p, m) == \A a \in User : v[a] # Junk => pg[Addr(a, p, m)] = v[a]

Maps(p, m) == Holds(page, vol, p, m)

\* No user page is promised anything: only before the first erase or write.
Fresh == \A a \in User : vol[a] = Junk

\* The position and move count that init would find in the flash as it is now.
FoundPos == IF HdrOK(1) THEN (IF HdrOK(2) THEN FirstFree(rec[1]) ELSE 0) ELSE N
FoundMc  == IF HdrOK(1) THEN hdr[1] ELSE hdr[2]

\* init has returned: the mapping in RAM is in use.
Up == pc \notin {"off"} \cup Mounting

\* Every page reads back what was stored in it through the mapping in RAM,
\* whatever moves, wraps, reboots and repaired copies came before (calcAddr), up to
\* a failure that the code does not recover from (fault).
ReadsBack == Up /\ ~fault => Maps(pos, mc)

\* Were power to go now, init would find a mapping under which every page that
\* was not being changed still holds its content (init, recoverPos, updateWL);
\* unless copy 1 is short of its records or an earlier failure lost the mapping.
Durable ==
    ~short /\ ~fault => Fresh \/ ((HdrOK(1) \/ HdrOK(2)) /\ Maps(FoundPos, FoundMc))

\* Copy 1 carries position records only while copy 2 is whole: the branch of
\* init that repairs copy 2 takes position 0 without reading the records.
RecordsNeedCopy2 == ~HdrOK(2) /\ ~fault => rec[1] = {}

(***************************************************************************)
(* The inductive invariant behind the last three properties.  By pc: how   *)
(* the mapping in RAM and the one in the flash relate.                     *)
(***************************************************************************)
Steady == {"ready", "update", "erase", "write"} \cup Moving

\* The records of copy 1 say position p.
AtPos(R, p) == R = 0 .. p - 1 \/ (p = N /\ R = Phys)

NextPos(p) == IF p + 1 > N THEN 0 ELSE p + 1
NextMc(m)  == IF m + 1 >= N THEN 0 ELSE m + 1

\* The four states of the flash from which init finds the right mapping.
FlashShape ==
    \/ /\ HdrOK(1) /\ hdr[1] = hdr[2]
       /\ \E p \in Phys : AtPos(rec[1], p) /\ Maps(p, hdr[1])
    \/ HdrOK(1) /\ rec[1] = {} /\ Maps(0, hdr[1])
    \/ ~HdrOK(1) /\ HdrOK(2) /\ rec[1] = {} /\ Maps(N, hdr[2])
    \/ ~HdrOK(1) /\ ~HdrOK(2) /\ rec[1] = {} /\ Fresh

OffInv == pc = "off" => ~short /\ FlashShape

SteadyInv ==
    pc \in Steady =>
        /\ hdr[1] = mc /\ hdr[2] = mc /\ Maps(pos, mc)
        /\ short => pos = N
        /\ ~short => IF pc = "mv_rec2" THEN rec[1] = 0 .. pos ELSE AtPos(rec[1], pos)
        /\ pc \in {"mv_rec1", "mv_rec2"} => page[pos] = page[NextPos(pos)]

WrapInv ==
    /\ pc = "wr_e1" =>
        /\ pos = 0 /\ Maps(0, mc)
        /\ HdrOK(1) /\ hdr[1] = hdr[2] /\ mc = NextMc(hdr[1]) /\ Maps(N, hdr[1])
        /\ ~short => rec[1] = Phys
    /\ pc = "wr_w1" =>
        /\ pos = 0 /\ Maps(0, mc) /\ ~short
        /\ ~HdrOK(1) /\ HdrOK(2) /\ rec[1] = {} /\ Maps(N, hdr[2])
    /\ pc \in {"wr_e2", "wr_w2"} =>
        pos = 0 /\ Maps(0, mc) /\ ~short /\ hdr[1] = mc /\ rec[1] = {}

MountInv ==
    /\ pc \in {"fmt_e1", "fmt_w1"} =>
        ~short /\ ~HdrOK(1) /\ ~HdrOK(2) /\ rec[1] = {} /\ Fresh /\ mc = 0
    /\ pc \in {"fmt_e2", "fmt_w2"} =>
        ~short /\ hdr[1] = 0 /\ rec[1] = {} /\ Fresh /\ mc = 0
    /\ pc = "fmt_cfg" =>
        ~short /\ hdr[1] = 0 /\ hdr[2] = 0 /\ rec[1] = {} /\ Fresh /\ mc = 0
    /\ pc \in {"sync_erase", "sync_write", "rb2_erase", "rb2_write"} =>
        ~short /\ hdr[1] = mc /\ rec[1] = {} /\ Maps(0, mc)
    /\ pc \in {"sync_rec", "rb2_rec"} =>
        ~short /\ hdr[1] = mc /\ hdr[2] = mc /\ rec[1] = {} /\ Maps(0, mc)
    /\ pc \in {"rb1_erase", "rb1_erase_noid", "rb1_write", "rb1_write_noid"} =>
        ~short /\ ~HdrOK(1) /\ hdr[2] = mc /\ rec[1] = {} /\ Maps(N, mc)
    /\ pc \in {"rb1_rec", "rb1_rec_noid"} =>
        short /\ hdr[1] = mc /\ hdr[2] = mc /\ Maps(N, mc)

\* wl_unmount always moves: it never ends with copy 1 short of its records.
FlushInv ==
    /\ pc = "erase" => op.kind # "flush"
    /\ pc = "update" /\ op.kind = "flush" => cnt = Rate - 1

CoreInv == OffInv /\ SteadyInv /\ WrapInv /\ MountInv /\ FlushInv

IInv == TypeOK /\ (~fault => CoreInv)

\* The wear levelling layer implements a plain array of pages (SectorStore):
\* moves, wraps, reboots and repairs are invisible, and an erase or a write,
\* whole or interrupted, changes no page but its own, until fault breaks the store.
View == CASE Up -> [a \in User |-> page[calcAddr(a)]]
          [] ~Up /\ short -> [a \in User |-> page[Addr(a, N, hdr[2])]]
          [] ~Up /\ ~short /\ (HdrOK(1) \/ HdrOK(2)) ->
                [a \in User |-> page[Addr(a, FoundPos, FoundMc)]]
          [] OTHER -> [a \in User |-> page[Addr(a, 0, 0)]]

\* The pages the erase or write under way has still to change.
Remaining == IF op.kind \in {"erase", "write"} THEN op.at .. op.last ELSE {}

Store == INSTANCE SectorStore
            WITH Sector <- User,
                 store  <- View,
                 busy   <- Remaining,
                 val    <- IF op.kind \in {"erase", "write"} THEN op.val ELSE Junk,
                 broken <- fault

ImplementsStore == Store!Spec

\* Wear is levelled: as long as pages are erased and from some time on nothing
\* fails, every user page comes by every physical page again and again
\* (updateWL advances the dummy page, and the move count at each wrap).
Rotates ==
    /\ []<><<\E a, b \in User : EraseRange(a, b)>>_vars
    /\ <>[][~PowerLoss /\ ~FlashError /\ ~ReadError]_vars
    => \A a \in User, p \in Phys : []<>(Up /\ calcAddr(a) = p)

\* The claim of the power down test and of doc/wl_sw_structure.rst: a power
\* loss, wherever it comes, costs no page its content.
SurvivesPowerLoss == Up => Maps(pos, mc)

\* The claim of README.rst: the flash contents are consistent whenever a
\* function of the component returns, here with or without an error.
ConsistentOnReturn == pc = "ready" /\ ~short => Maps(FoundPos, FoundMc)
==============================================================================
