-------------------------------- MODULE WLExt --------------------------------
(***************************************************************************)
(* The layer between a file system with small sectors and WL_Flash with    *)
(* its large ones: classes WL_Ext_Perf and WL_Ext_Safe of components/      *)
(* wear_levelling.  Erasing part of a flash sector means erasing all of it *)
(* and writing the rest again.  WL_Ext_Safe first dumps the rest to a      *)
(* sector of its own and notes the transaction in another; at the next     *)
(* mount a pending transaction is carried out again.  The flash below is   *)
(* an array of sectors as SectorStore describes it, which WLFlash          *)
(* implements: one action is one call on it.                               *)
(***************************************************************************)
EXTENDS Integers, Sequences

CONSTANTS B,       \* flash sectors of the user (the two of WL_Ext_Safe apart)
          F,       \* flash_fat_sector_size_factor: small sectors in each
          Modes,   \* WL_SECTOR_MODE: "safe" (WL_Ext_Safe), "perf" (WL_Ext_Perf)
          Data,    \* sector contents a user writes
          Erased,  \* content of an erased sector
          Junk     \* any other content: left by an interrupted call

ASSUME ExtAssumption ==
    /\ B \in Nat \ {0} /\ F \in Nat \ {0}
    /\ Modes \subseteq {"safe", "perf"}
    /\ Erased \notin Data /\ Junk \notin Data \cup {Erased}

VARIABLES mode,    \* which class wl_mount has made
          flash,   \* the user's sectors: flash[b][i], i the part of sector b
          dump,    \* the sector at dump_addr
          st,      \* WL_Ext_Safe_State at buff_trans_state_addr
          buf,     \* sector_buffer                                (RAM)
          pc,      \* the next call on the flash
          tx,      \* the transaction under way, as in WL_Ext_Safe_State
          idx,     \* the loop over the parts of a flash sector
          todo,    \* the pieces of the erase_range under way
          val,     \* what a write writes
          asked,   \* history: the small sectors erase_range was asked to erase
          vol,     \* history: what each part must read as
          fault    \* history: a failure the code does not recover from

vars == <<mode, flash, dump, st, buf, pc, tx, idx, todo, val, asked, vol, fault>>

Flash   == 0 .. B - 1
Part    == 0 .. F - 1
Content == Data \cup {Erased, Junk}
Blank   == [i \in Part |-> Erased]
Garbage == [i \in Part |-> Junk]

\* A transaction: cnt parts from off on, of flash sector base, are erased.
Tx   == [base : Flash, off : 0 .. F, cnt : 0 .. F]
NoTx == [base |-> 0, off |-> F, cnt |-> 0]

\* The state sector: sector_restore_sign is not WL_EXT_SAFE_OK ("none"), it is
\* ("ok"), or it is and the fields after it are not there ("torn").
State    == [sign : {"none", "ok", "torn"}, tx : Tx]
None     == [sign |-> "none", tx |-> NoTx]
Torn     == [sign |-> "torn", tx |-> NoTx]
Noted(t) == [sign |-> "ok", tx |-> t]

\* Mutant: the part after the last erased one is not kept.
KeptMutant(t) == {i \in Part : i < t.off \/ i > t.cnt + t.off}

Kept(t) == {i \in Part : i < t.off \/ i >= t.cnt + t.off}
Erases(t) == Part \ Kept(t)
Full(t) == t.cnt = F

Init ==
    /\ mode \in Modes
    /\ flash = [b \in Flash |-> Garbage]
    /\ dump = Garbage
    /\ st = None
    /\ buf = Garbage
    /\ pc = "off" /\ tx = NoTx /\ idx = 0 /\ todo = <<>> /\ val = Erased /\ asked = {}
    /\ vol = [b \in Flash |-> Garbage]
    /\ fault = FALSE

-----------------------------------------------------------------------------
(* erase_range: which parts of which flash sectors, in which order. *)
Number(b, i) == b * F + i

Piece(first, n) == [base |-> first \div F, off |-> first % F, cnt |-> n]

\* Mutant: the whole sectors in the middle are left out.
PiecesMutant(first, n) ==
    LET pre  == IF F - (first % F) > n THEN n ELSE F - (first % F)
        post == (n - pre) % F
    IN  <<Piece(first, pre)>> \o (IF post > 0 THEN <<Piece(first + n - post, post)>> ELSE <<>>)

Pieces(first, n) ==
    LET start == first % F
        pre0  == IF F - start > n THEN n ELSE F - start
        post  == (n - pre0) % F
        whole == start = 0 /\ pre0 = F
        pre   == IF whole THEN 0 ELSE pre0
        rest  == (n - pre - post) \div F
        from  == (first + pre) \div F
    IN  (IF pre > 0 THEN <<Piece(first, pre)>> ELSE <<>>)
        \o [k \in 1 .. rest |-> [base |-> from + k - 1, off |-> 0, cnt |-> F]]
        \o (IF post > 0 THEN <<Piece(first + n - post, post)>> ELSE <<>>)

EraseRange(first, n) ==
    /\ pc = "ready" /\ first + n <= B * F
    /\ todo' = Pieces(first, n)
    /\ asked' = first .. first + n - 1
    /\ pc' = "piece"
    /\ UNCHANGED <<mode, flash, dump, st, buf, tx, idx, val, vol, fault>>

\* erase_sector_fit up to its first change of the flash: the parts to keep are
\* read into sector_buffer, which has old contents in the others.
ReadKept(t) == [i \in Part |-> IF i \in Kept(t) THEN flash[t.base][i] ELSE buf[i]]

NextPiece ==
    /\ pc = "piece"
    /\ IF todo = <<>>
       THEN pc' = "ready" /\ tx' = NoTx /\ asked' = {} /\ UNCHANGED buf
       ELSE /\ tx' = Head(todo) /\ UNCHANGED asked
            /\ IF Full(tx') THEN pc' = "full" /\ UNCHANGED buf
               ELSE /\ buf' = ReadKept(tx')
                    /\ pc' = IF mode = "safe" THEN "dump_erase" ELSE "erase"
    /\ UNCHANGED <<mode, flash, dump, st, idx, todo, val, vol, fault>>

\* The parts of t the user asked for are erased, as the user sees it.
Commit(t) ==
    vol' = [vol EXCEPT ![t.base] =
              [i \in Part |-> IF i \in Erases(t) /\ Number(t.base, i) \in asked THEN Erased ELSE @[i]]]

\* WL_Flash::erase_sector for a sector that is erased whole.
EraseFull ==
    /\ pc = "full"
    /\ flash' = [flash EXCEPT ![tx.base] = Blank]
    /\ Commit(tx)
    /\ todo' = Tail(todo)
    /\ pc' = "piece"
    /\ UNCHANGED <<mode, dump, st, buf, tx, idx, val, asked, fault>>

-----------------------------------------------------------------------------
(* WL_Ext_Safe::erase_sector_fit; WL_Ext_Perf's starts at FitErase. *)
DumpErase ==
    /\ pc = "dump_erase"
    /\ dump' = Blank
    /\ pc' = "dump_write"
    /\ UNCHANGED <<mode, flash, st, buf, tx, idx, todo, val, asked, vol, fault>>

DumpWrite ==
    /\ pc = "dump_write"
    /\ dump' = buf
    /\ pc' = "state_erase"
    /\ UNCHANGED <<mode, flash, st, buf, tx, idx, todo, val, asked, vol, fault>>

StateErase ==
    /\ pc = "state_erase"
    /\ st' = None
    /\ pc' = "state_write"
    /\ UNCHANGED <<mode, flash, dump, buf, tx, idx, todo, val, asked, vol, fault>>

\* From here on the sector counts as erased: the mount would see to it.
StateWrite ==
    /\ pc = "state_write"
    /\ st' = Noted(tx)
    /\ Commit(tx)
    /\ pc' = "erase"
    /\ UNCHANGED <<mode, flash, dump, buf, tx, idx, todo, val, asked, fault>>

FitErase ==
    /\ pc = "erase"
    /\ flash' = [flash EXCEPT ![tx.base] = Blank]
    /\ IF mode = "perf" THEN Commit(tx) ELSE UNCHANGED vol
    /\ idx' = 0
    /\ pc' = "restore"
    /\ UNCHANGED <<mode, dump, st, buf, tx, todo, val, asked, fault>>

\* One part is written back; with none left the transaction is cleared.
Left(t, i) == {k \in Kept(t) : k >= i}

RestorePart(i) ==
    /\ i \in Left(tx, idx) /\ \A k \in Left(tx, idx) : i <= k
    /\ flash' = [flash EXCEPT ![tx.base][i] = buf[i]]
    /\ idx' = i + 1
    /\ UNCHANGED <<mode, dump, st, buf, pc, tx, todo, val, asked, vol, fault>>

FitRestore ==
    /\ pc = "restore"
    /\ \/ \E i \in Part : RestorePart(i)
       \/ /\ Left(tx, idx) = {}
          /\ IF mode = "safe" THEN pc' = "clear" /\ UNCHANGED todo
                              ELSE pc' = "piece" /\ todo' = Tail(todo)
          /\ UNCHANGED <<mode, flash, dump, st, buf, tx, idx, val, asked, vol, fault>>

FitClear ==
    /\ pc = "clear"
    /\ st' = None
    /\ todo' = Tail(todo)
    /\ pc' = "piece"
    /\ UNCHANGED <<mode, flash, dump, buf, tx, idx, val, asked, vol, fault>>

-----------------------------------------------------------------------------
(* Mounting: WL_Ext_Safe::init and recover, after WL_Flash::init. *)

\* What recover() reads: fields that were never written are 0xffffffff, of which
\* calcAddr makes some sector and the comparisons make "keep every part".
Pending == IF st = Torn THEN {[base |-> b, off |-> F, cnt |-> 0] : b \in Flash} ELSE {st.tx}

Mount ==
    /\ pc = "off"
    /\ IF mode = "perf" \/ st = None
       THEN pc' = "ready" /\ UNCHANGED <<tx, buf>>
       ELSE tx' \in Pending /\ buf' = dump /\ pc' = "rc_erase"
    /\ UNCHANGED <<mode, flash, dump, st, idx, todo, val, asked, vol, fault>>

RecoverErase ==
    /\ pc = "rc_erase"
    /\ flash' = [flash EXCEPT ![tx.base] = Blank]
    /\ idx' = 0
    /\ pc' = "rc_restore"
    /\ UNCHANGED <<mode, dump, st, buf, tx, todo, val, asked, vol, fault>>

\* Mutant: the transaction is cleared before the parts are back.
RecoverRestoreMutant ==
    /\ pc = "rc_restore"
    /\ \/ \E i \in Part : RestorePart(i)
       \/ /\ pc' = "rc_clear"
          /\ UNCHANGED <<mode, flash, dump, st, buf, tx, idx, todo, val, asked, vol, fault>>

RecoverRestore ==
    /\ pc = "rc_restore"
    /\ \/ \E i \in Part : RestorePart(i)
       \/ /\ Left(tx, idx) = {}
          /\ pc' = "rc_clear"
          /\ UNCHANGED <<mode, flash, dump, st, buf, tx, idx, todo, val, asked, vol, fault>>

RecoverClear ==
    /\ pc = "rc_clear"
    /\ st' = None
    /\ tx' = NoTx
    /\ pc' = "ready"
    /\ UNCHANGED <<mode, flash, dump, buf, idx, todo, val, asked, vol, fault>>

-----------------------------------------------------------------------------
(* wl_write on one small sector (ff_wl_write erases it first), wl_unmount. *)
Write(b, i, d) ==
    /\ pc = "ready" /\ vol[b][i] = Erased
    /\ tx' = [base |-> b, off |-> i, cnt |-> 1]
    /\ val' = d
    /\ pc' = "write"
    /\ UNCHANGED <<mode, flash, dump, st, buf, idx, todo, asked, vol, fault>>

WritePart ==
    /\ pc = "write"
    /\ flash' = [flash EXCEPT ![tx.base][tx.off] = val]
    /\ vol' = [vol EXCEPT ![tx.base][tx.off] = val]
    /\ tx' = NoTx /\ val' = Erased
    /\ pc' = "ready"
    /\ UNCHANGED <<mode, dump, st, buf, idx, todo, asked, fault>>

Return == tx' = NoTx /\ idx' = 0 /\ todo' = <<>> /\ val' = Erased /\ asked' = {}

Reset == Return /\ pc' = "off" /\ buf' = Garbage

Unmount ==
    /\ pc = "ready"
    /\ Reset
    /\ UNCHANGED <<mode, flash, dump, st, vol, fault>>

-----------------------------------------------------------------------------
(* Failures: what the call under way may leave behind (SectorStore, Abort). *)

\* The parts a call is changing.
Touched(b) ==
    CASE pc \in {"full", "erase", "rc_erase"} /\ b = tx.base -> Part
      [] pc = "write" /\ b = tx.base -> {tx.off}
      [] pc \in {"restore", "rc_restore"} /\ b = tx.base ->
            {i \in Left(tx, idx) : \A k \in Left(tx, idx) : i <= k}
      [] OTHER -> {}

InFlight ==
    /\ \/ UNCHANGED flash
       \/ flash' = [b \in Flash |-> [i \in Part |-> IF i \in Touched(b) THEN Junk ELSE flash[b][i]]]
    /\ IF pc \in {"full", "write"}
       THEN vol' = [b \in Flash |-> [i \in Part |-> IF i \in Touched(b) THEN Junk ELSE vol[b][i]]]
       ELSE UNCHANGED vol
    /\ dump' \in IF pc \in {"dump_erase", "dump_write"} THEN {dump, Garbage} ELSE {dump}
    /\ st' \in CASE pc = "state_write" -> {None, Torn}
                 [] pc \in {"state_erase", "clear", "rc_clear"} -> {st, None}
                 [] OTHER -> {st}

\* WL_Ext_Perf has no copy of what it keeps.
Unsaved == mode = "perf" /\ pc \in {"erase", "restore"}

PowerLoss ==
    /\ pc # "off"
    /\ InFlight
    /\ Reset
    /\ fault' = (fault \/ Unsaved \/ st' = Torn)
    /\ UNCHANGED mode

Recovering == {"rc_erase", "rc_restore", "rc_clear"}
Failing    == {"full", "dump_erase", "dump_write", "state_erase", "state_write", "erase",
               "restore", "clear", "write"} \cup Recovering

\* A call on the flash returns an error, and so does the layer's: the mount
\* fails, or the layer stays mounted, with the transaction if there is one.
FlashError ==
    /\ pc \in Failing
    /\ InFlight
    /\ pc' = IF pc \in Recovering THEN "off" ELSE "ready"
    /\ buf' = IF pc \in Recovering THEN Garbage ELSE buf
    /\ Return
    /\ fault' = (fault \/ Unsaved \/ st' = Torn \/ (pc \notin Recovering /\ st' # None))
    /\ UNCHANGED mode

Step ==
    \/ NextPiece \/ EraseFull \/ WritePart
    \/ DumpErase \/ DumpWrite \/ StateErase \/ StateWrite \/ FitErase \/ FitRestore \/ FitClear
    \/ RecoverErase \/ RecoverRestore \/ RecoverClear

Next ==
    \/ Mount \/ Unmount \/ Step
    \/ \E first \in 0 .. B * F - 1, n \in 1 .. B * F : EraseRange(first, n)
    \/ \E b \in Flash, i \in Part, d \in Data : Write(b, i, d)
    \/ PowerLoss \/ FlashError

Spec == Init /\ [][Next]_vars

\* The mounting task and the API calls run to their end.
LiveSpec == Spec /\ WF_vars(Mount) /\ WF_vars(Step)

-----------------------------------------------------------------------------
TypeOK ==
    /\ mode \in {"safe", "perf"}
    /\ flash \in [Flash -> [Part -> Content]] /\ vol \in [Flash -> [Part -> Content]]
    /\ dump \in [Part -> Content] /\ buf \in [Part -> Content]
    /\ st \in State
    /\ pc \in {"off", "ready", "piece"} \cup Failing
    /\ tx \in Tx /\ idx \in 0 .. F
    /\ todo \in Seq(Tx) /\ val \in Data \cup {Erased}
    /\ asked \subseteq 0 .. B * F - 1
    /\ fault \in BOOLEAN

\* What the next mount would make of the flash as it is.
Replayed(b) ==
    IF st.sign = "ok" /\ b = st.tx.base
    THEN [i \in Part |-> IF i \in Kept(st.tx) THEN dump[i] ELSE Erased]
    ELSE flash[b]

\* No transaction is pending while the user may change sectors: the next mount
\* would carry it out over newer contents.
NonePending == pc \in {"ready", "piece", "full", "write"} /\ ~fault => st.sign = "none"

\* A power loss, or an error before the transaction is noted, costs no sector but
\* those the call itself was changing: either the flash holds it or the dump does,
\* recover() may be cut short any number of times, and what it has carried out it
\* does not carry out again later.  Not so once a note torn by a power loss, or an
\* error after the note, has set fault.
Durable ==
    /\ TypeOK /\ NonePending
    /\ mode = "safe" /\ ~fault =>
        \A b \in Flash, i \in Part : vol[b][i] # Junk => Replayed(b)[i] = vol[b][i]

\* When erase_range returns without an error every sector of the range reads as
\* erased, however the range lies across flash sectors, in both classes.
RangeErased ==
    pc = "piece" /\ todo = <<>> =>
        \A b \in Flash, i \in Part : Number(b, i) \in asked => flash[b][i] = Erased

\* The layer implements a plain array of small sectors (SectorStore), in both
\* classes: the neighbours of an erased sector never show that the sector they
\* share was erased and written again, and the note of the transaction is the
\* point where the erase takes effect.
View == [s \in Flash \X Part |->
            LET b == s[1]
                i == s[2]
            IN  IF mode = "perf" /\ pc = "restore" /\ b = tx.base /\ i \in Left(tx, idx)
                THEN buf[i] ELSE Replayed(b)[i]]

Covered(t) == {<<t.base, i>> : i \in Erases(t)}

Committed == pc \in {"restore", "clear"} \/ (mode = "safe" /\ pc = "erase")

Remaining ==
    IF pc = "write" THEN {<<tx.base, tx.off>>}
    ELSE UNION {Covered(todo[k]) : k \in {j \in DOMAIN todo : Committed => j > 1}}

Store == INSTANCE SectorStore
            WITH Sector <- Flash \X Part,
                 store  <- View,
                 busy   <- Remaining,
                 val    <- IF Remaining = {} THEN Junk ELSE val,
                 broken <- fault

ImplementsStore == Store!Spec
==============================================================================
