---------------------------- MODULE WLFlashProofs ----------------------------
(***************************************************************************)
(* Proofs about WLFlash, for any number of pages and any update rate.      *)
(***************************************************************************)
EXTENDS WLFlash, WellFoundedInduction, TLAPS

(***************************************************************************)
(* Arithmetic of calcAddr.                                                 *)
(***************************************************************************)
\* One subtraction is enough for the modulus in calcAddr.
LEMMA ModOnce ==
    ASSUME NEW x \in Nat, NEW n \in Nat, n > 0, x < 2 * n
    PROVE  x % n = IF x < n THEN x ELSE x - n
<1>1. CASE x < n
  BY <1>1
<1>2. CASE x >= n
  BY <1>2
<1> QED
  BY <1>1, <1>2

\* calcAddr without the modulus.
LEMMA AddrValue ==
    ASSUME NEW a \in User, NEW p \in Phys, NEW m \in User
    PROVE  LET r == IF a < m THEN N - m + a ELSE a - m
           IN  Addr(a, p, m) = IF r < p THEN r ELSE r + 1
<1>1. (N - m + a) % N = IF a < m THEN N - m + a ELSE a - m
  <2>1. N - m + a \in Nat /\ N - m + a < 2 * N /\ N \in Nat /\ N > 0
    BY WLAssumption DEF User
  <2> DEFINE x == N - m + a
  <2>2. x % N = IF x < N THEN x ELSE x - N
    <3> HIDE DEF x
    <3>1. x \in Nat /\ x < 2 * N
      BY <2>1 DEF x
    <3> QED BY <2>1, <3>1, ModOnce
  <2> QED
    BY <2>1, <2>2, WLAssumption DEF User
<1> QED
  BY <1>1 DEF Addr

\* A user page lives in the partition and never in the dummy page.
LEMMA AddrRange ==
    ASSUME NEW a \in User, NEW p \in Phys, NEW m \in User
    PROVE  Addr(a, p, m) \in Phys /\ Addr(a, p, m) # p
<1> DEFINE r == IF a < m THEN N - m + a ELSE a - m
<1>1. Addr(a, p, m) = IF r < p THEN r ELSE r + 1
  BY AddrValue
<1> QED
  BY <1>1, WLAssumption DEF User, Phys

\* Two user pages never share a physical page.
LEMMA AddrInjective ==
    ASSUME NEW a \in User, NEW b \in User, NEW p \in Phys, NEW m \in User, a # b
    PROVE  Addr(a, p, m) # Addr(b, p, m)
<1> DEFINE ra == IF a < m THEN N - m + a ELSE a - m
<1> DEFINE rb == IF b < m THEN N - m + b ELSE b - m
<1>1. Addr(a, p, m) = IF ra < p THEN ra ELSE ra + 1
  BY AddrValue
<1>2. Addr(b, p, m) = IF rb < p THEN rb ELSE rb + 1
  BY AddrValue
<1> QED
  BY <1>1, <1>2, WLAssumption DEF User, Phys

\* Moving the dummy page one position up moves one user page: the one in the
\* new position goes to the old one.
LEMMA AddrMove ==
    ASSUME NEW a \in User, NEW p \in Phys, NEW m \in User, p < N
    PROVE  /\ p + 1 \in Phys
           /\ Addr(a, p + 1, m) = IF Addr(a, p, m) = p + 1 THEN p ELSE Addr(a, p, m)
<1> DEFINE r == IF a < m THEN N - m + a ELSE a - m
<1>1. p + 1 \in Phys
  BY WLAssumption DEF Phys
<1>2. Addr(a, p, m) = IF r < p THEN r ELSE r + 1
  BY AddrValue
<1>3. Addr(a, p + 1, m) = IF r < p + 1 THEN r ELSE r + 1
  BY AddrValue, <1>1
<1> QED
  BY <1>1, <1>2, <1>3, WLAssumption DEF User, Phys

\* Wrapping around, with the move count one up, moves page 0 to page N.
LEMMA AddrWrap ==
    ASSUME NEW a \in User, NEW m \in User
    PROVE  /\ NextMc(m) \in User /\ 0 \in Phys /\ N \in Phys
           /\ Addr(a, 0, NextMc(m)) = IF Addr(a, N, m) = 0 THEN N ELSE Addr(a, N, m)
<1> DEFINE k == NextMc(m)
<1> DEFINE r == IF a < m THEN N - m + a ELSE a - m
<1> DEFINE q == IF a < k THEN N - k + a ELSE a - k
<1>1. k \in User /\ 0 \in Phys /\ N \in Phys
  BY WLAssumption DEF Phys, User, NextMc
<1>2. Addr(a, N, m) = IF r < N THEN r ELSE r + 1
  BY AddrValue, <1>1
<1>3. Addr(a, 0, k) = IF q < 0 THEN q ELSE q + 1
  <2> HIDE DEF k
  <2> QED BY AddrValue, <1>1
<1> QED
  BY <1>1, <1>2, <1>3, WLAssumption DEF User, Phys, NextMc

(***************************************************************************)
(* What changes of the pages leave of Holds.                               *)
(***************************************************************************)
PageSpace == [Phys -> Content]
VolSpace  == [User -> Content]

\* The dummy page may hold anything.
LEMMA HoldsDummy ==
    ASSUME NEW pg \in PageSpace, NEW v \in VolSpace, NEW p \in Phys, NEW m \in User,
           NEW qg \in PageSpace, \A x \in Phys \ {p} : qg[x] = pg[x],
           Holds(pg, v, p, m)
    PROVE  Holds(qg, v, p, m)
BY AddrRange DEF Holds

\* A user page is set, or left unknown.
LEMMA HoldsSet ==
    ASSUME NEW pg \in PageSpace, NEW v \in VolSpace, NEW p \in Phys, NEW m \in User,
           NEW a \in User, NEW qg \in PageSpace, NEW w \in VolSpace,
           \A x \in Phys \ {Addr(a, p, m)} : qg[x] = pg[x],
           \A x \in User \ {a} : w[x] = v[x],
           w[a] = Junk \/ qg[Addr(a, p, m)] = w[a],
           Holds(pg, v, p, m)
    PROVE  Holds(qg, w, p, m)
BY AddrRange, AddrInjective DEF Holds

\* The page after the dummy page has been copied into it.
LEMMA HoldsMove ==
    ASSUME NEW pg \in PageSpace, NEW v \in VolSpace, NEW p \in Phys, NEW m \in User,
           p < N, pg[p] = pg[p + 1], Holds(pg, v, p, m)
    PROVE  Holds(pg, v, p + 1, m)
BY AddrMove DEF Holds

LEMMA HoldsWrap ==
    ASSUME NEW pg \in PageSpace, NEW v \in VolSpace, NEW m \in User,
           pg[N] = pg[0], Holds(pg, v, N, m)
    PROVE  Holds(pg, v, 0, NextMc(m))
BY AddrWrap DEF Holds

LEMMA HoldsFresh ==
    ASSUME NEW pg, NEW v, NEW p, NEW m, \A a \in User : v[a] = Junk
    PROVE  Holds(pg, v, p, m)
BY DEF Holds

(***************************************************************************)
(* Type correctness.                                                       *)
(***************************************************************************)
\* MinOf is what it says.
LEMMA MinOfNat ==
    ASSUME NEW S \in SUBSET Nat, S # {}
    PROVE  MinOf(S) \in S /\ \A y \in S : MinOf(S) <= y
<1>1. IsWellFoundedOn(OpToRel(<, Nat), Nat)
  BY NatLessThanWellFounded
<1>2. PICK x \in S : \A y \in S : ~(<<y, x>> \in OpToRel(<, Nat))
  BY <1>1, WFMin
<1>3. \A y \in S : x <= y
  <2> SUFFICES ASSUME NEW y \in S, y < x
               PROVE  FALSE
    OBVIOUS
  <2>1. <<y, x>> \in OpToRel(<, Nat)
    BY Zenon DEF OpToRel
  <2> QED
    BY <1>2, <2>1
<1> QED
  BY <1>3 DEF MinOf

LEMMA FirstFreeType ==
    ASSUME NEW R \in SUBSET Phys
    PROVE  FirstFree(R) \in Phys
<1>1. CASE Phys \ R = {}
  BY <1>1, WLAssumption DEF FirstFree, Phys
<1>2. CASE Phys \ R # {}
  <2>1. Phys \ R \in SUBSET Nat
    BY WLAssumption DEF Phys
  <2> QED BY <1>2, <2>1, MinOfNat DEF FirstFree
<1> QED
  BY <1>1, <1>2

\* init reads back a header that it has just written.
HeaderRead ==
    /\ pc \in {"sync_rec", "rb2_rec"} => HdrOK(2)
    /\ pc \in {"rb1_rec", "rb1_rec_noid"} => HdrOK(1)

TypeInv == TypeOK /\ HeaderRead

OpSpace == [kind : {"none", "erase", "write", "flush"},
            at : User, last : User, val : Data \cup {Erased}]

LEMMA NextPageType ==
    ASSUME op \in OpSpace, NEW again, NextPage(again)
    PROVE  op' \in OpSpace
<1>1. CASE op.at < op.last
  <2>1. op.at + 1 \in User
    BY <1>1, WLAssumption DEF OpSpace, User
  <2>2. op' = [op EXCEPT !.at = op.at + 1]
    BY <1>1 DEF NextPage
  <2> QED
    BY <2>1, <2>2 DEF OpSpace
<1>2. CASE ~(op.at < op.last)
  BY <1>2, WLAssumption DEF NextPage, NoOp, OpSpace, User
<1> QED
  BY <1>1, <1>2

LEMMA TypeStep == TypeInv /\ [Next]_vars => TypeOK'
<1> SUFFICES ASSUME TypeOK, HeaderRead, [Next]_vars
             PROVE  TypeOK'
  BY DEF TypeInv
<1> USE WLAssumption DEF TypeOK
<1>1. CASE UNCHANGED vars
  BY <1>1 DEF vars
<1>2. ASSUME NEW h \in -2 .. N - 1, InitFrom(h), fault' \in BOOLEAN
      PROVE  TypeOK'
  <2>1. UNCHANGED <<page, hdr, rec, op, vol, short>>
    BY <1>2 DEF InitFrom
  <2>2. h >= 0 => h \in User
    BY <1>2 DEF User
  <2>3. hdr[2] \in -2 .. N - 1 /\ (HdrOK(2) => hdr[2] \in User)
    BY DEF HdrOK, User
  <2>4. FirstFree(rec[1]) \in Phys /\ 0 \in Phys /\ 0 \in User /\ 0 \in 0 .. Rate - 1
    BY FirstFreeType DEF Phys, User
  <2>5. pos' \in Phys /\ mc' \in User /\ cnt' \in 0 .. Rate - 1
    BY <1>2, <2>2, <2>3, <2>4 DEF InitFrom, Ready
  <2>6. pc' \in PCs
    BY <1>2 DEF InitFrom, Ready, PCs, Mounting
  <2> QED
    BY <1>2, <2>1, <2>5, <2>6
<1>32. CASE Mount
  <2>1. hdr[1] \in -2 .. N - 1 /\ InitFrom(hdr[1]) /\ fault' \in BOOLEAN
    BY <1>32 DEF Mount
  <2> QED BY <1>2, <2>1
<1>33. CASE ReadError
  <2>1. PICK h \in Leftovers : MountBlind(h)
    BY <1>33 DEF ReadError
  <2>2. h \in -2 .. N - 1
    BY <2>1 DEF Leftovers, BlankHdr, TornHdr, User
  <2>3. fault' \in BOOLEAN /\ InitFrom(h)
    BY <2>1 DEF MountBlind
  <2> QED BY <1>2, <2>2, <2>3
<1>3. CASE \E a, b \in User : EraseRange(a, b)
  BY <1>3 DEF EraseRange, flashVars, ramVars, ghosts, PCs, Mounting, Moving, Wrapping
<1>4. CASE \E a, b \in User, d \in Data : Write(a, b, d)
  BY <1>4 DEF Write, flashVars, ramVars, ghosts, PCs, Mounting, Moving, Wrapping
<1>5. CASE Unmount
  BY <1>5, SMTT(30) DEF Unmount, NoOp, flashVars, ghosts, User, PCs, Mounting, Moving, Wrapping
<1>6. CASE FmtErase(1)
  BY <1>6 DEF FmtErase, EraseCopy, BlankHdr, ghosts, PCs, Mounting, Moving, Wrapping, User
<1>7. CASE FmtErase(2)
  BY <1>7 DEF FmtErase, EraseCopy, BlankHdr, ghosts, PCs, Mounting, Moving, Wrapping, User
<1>8. CASE FmtWrite(1)
  BY <1>8 DEF FmtWrite, WriteCopy, ghosts, PCs, Mounting, Moving, Wrapping, User
<1>9. CASE FmtWrite(2)
  BY <1>9 DEF FmtWrite, WriteCopy, ghosts, PCs, Mounting, Moving, Wrapping, User
<1>10. CASE FmtConfig
  BY <1>10, FirstFreeType DEF FmtConfig, Ready, flashVars, ghosts, PCs, Mounting, Moving, Wrapping
<1>11. CASE Redo2Erase
  BY <1>11 DEF Redo2Erase, EraseCopy, BlankHdr, ramVars, ghosts, PCs, Mounting, Moving, Wrapping
<1>12. CASE Redo2Write
  BY <1>12 DEF Redo2Write, WriteCopy, ramVars, ghosts, User, PCs, Mounting, Moving, Wrapping
<1>13. CASE Redo2Rec
  <2>1. rec[1] \ rec[2] \in SUBSET Phys
    OBVIOUS
  <2>2. MinOf(rec[1] \ rec[2]) \in Phys
    BY <2>1, <1>13, MinOfNat, Phys \in SUBSET Nat DEF Redo2Rec, Phys
  <2> QED
    BY <1>13, <2>2 DEF Redo2Rec, WriteRec, ramVars, ghosts
<1>14. CASE Redo2Done
  <2>1. hdr[2] \in User
    BY <1>14 DEF Redo2Done, HeaderRead, HdrOK, User
  <2> QED
    BY <1>14, <2>1, FirstFreeType DEF Redo2Done, Ready, flashVars, ghosts, Phys, PCs, Mounting, Moving, Wrapping
<1>15. CASE Redo1Erase
  BY <1>15 DEF Redo1Erase, EraseCopy, BlankHdr, ramVars, ghosts, PCs, Mounting, Moving, Wrapping
<1>16. CASE Redo1Write
  BY <1>16 DEF Redo1Write, WriteCopy, ramVars, User, PCs, Mounting, Moving, Wrapping
<1>17. CASE Redo1Rec
  <2>1. rec[2] \ rec[1] \in SUBSET Phys
    OBVIOUS
  <2>2. MinOf(rec[2] \ rec[1]) \in Phys
    BY <2>1, <1>17, MinOfNat, Phys \in SUBSET Nat DEF Redo1Rec, Phys
  <2> QED
    BY <1>17, <2>2 DEF Redo1Rec, WriteRec, ramVars, ghosts
<1>18. CASE Redo1Done
  <2>1. hdr[1] \in User
    BY <1>18 DEF Redo1Done, HeaderRead, HdrOK, User
  <2>2. short' \in BOOLEAN
    BY <1>18 DEF Redo1Done
  <2> QED
    BY <1>18, <2>1, <2>2 DEF Redo1Done, Ready, flashVars, Phys, PCs, Mounting, Moving, Wrapping
<1>19. CASE UpdateWL
  BY <1>19 DEF UpdateWL, AfterUpdate, NoOp, flashVars, ghosts, User, PCs, Mounting, Moving, Wrapping
<1>20. CASE MoveErase
  BY <1>20 DEF MoveErase, ramVars, ghosts, Content, PCs, Mounting, Moving, Wrapping
<1>21. CASE MoveCopy
  BY <1>21 DEF MoveCopy, ramVars, ghosts, Phys, PCs, Mounting, Moving, Wrapping
<1>22. CASE MoveRec1
  BY <1>22 DEF MoveRec1, WriteRec, ramVars, ghosts, PCs, Mounting, Moving, Wrapping
<1>23. CASE MoveRec2
  <2>1. pos' \in Phys /\ mc' \in User
    BY <1>23, SMTT(30) DEF MoveRec2, User, Phys
  <2>2. pc' \in PCs
    BY <1>23 DEF MoveRec2, AfterUpdate, PCs, Moving, Wrapping
  <2>3. op' \in [kind : {"none", "erase", "write", "flush"},
                 at : User, last : User, val : Data \cup {Erased}]
    BY <1>23 DEF MoveRec2, AfterUpdate, NoOp, User
  <2>4. rec' \in [1..2 -> SUBSET Phys]
    BY <1>23 DEF MoveRec2, WriteRec
  <2> QED
    BY <1>23, <2>1, <2>2, <2>3, <2>4 DEF MoveRec2, WriteRec, ghosts
<1>24. CASE WrapErase1
  <2>1. short' \in BOOLEAN
    BY <1>24 DEF WrapErase1
  <2> QED
    BY <1>24, <2>1 DEF WrapErase1, EraseCopy, BlankHdr, ramVars, PCs, Mounting, Moving, Wrapping
<1>25. CASE WrapWrite1
  BY <1>25 DEF WrapWrite1, WriteCopy, ramVars, ghosts, User, PCs, Mounting, Moving, Wrapping
<1>26. CASE WrapErase2
  BY <1>26 DEF WrapErase2, EraseCopy, BlankHdr, ramVars, ghosts, PCs, Mounting, Moving, Wrapping
<1>27. CASE WrapWrite2
  BY <1>27 DEF WrapWrite2, WriteCopy, AfterUpdate, NoOp, ramVars, ghosts, User, PCs, Mounting, Moving, Wrapping
<1>28. CASE ErasePage
  <2>1. op.at \in User /\ calcAddr(op.at) \in Phys
    BY AddrRange DEF calcAddr
  <2>2. page' \in [Phys -> Content] /\ vol' \in [User -> Content]
    BY <1>28, <2>1 DEF ErasePage, Content
  <2>3. op' \in [kind : {"none", "erase", "write", "flush"},
                 at : User, last : User, val : Data \cup {Erased}]
    BY <1>28, NextPageType DEF ErasePage, OpSpace
  <2> QED
    BY <1>28, <2>2, <2>3 DEF ErasePage, NextPage, ramVars, ghosts, PCs, Mounting, Moving, Wrapping
<1>29. CASE WritePage
  <2>1. op.at \in User /\ calcAddr(op.at) \in Phys
    BY AddrRange DEF calcAddr
  <2>2. page' \in [Phys -> Content] /\ vol' \in [User -> Content]
    BY <1>29, <2>1 DEF WritePage, Content
  <2>3. op' \in [kind : {"none", "erase", "write", "flush"},
                 at : User, last : User, val : Data \cup {Erased}]
    BY <1>29, NextPageType DEF WritePage, OpSpace
  <2> QED
    BY <1>29, <2>2, <2>3 DEF WritePage, NextPage, ramVars, ghosts, PCs, Mounting, Moving, Wrapping
<1>30. CASE PowerLoss
  <2>1. short' \in BOOLEAN /\ fault' \in BOOLEAN
    BY <1>30 DEF PowerLoss
  <2>2. /\ page' \in [Phys -> Content] /\ vol' \in [User -> Content]
        /\ hdr' \in [1..2 -> -2 .. N - 1] /\ rec' \in [1..2 -> SUBSET Phys]
    BY <1>30 DEF PowerLoss, InFlight, TornHdr, Content
  <2> QED
    BY <1>30, <2>1, <2>2 DEF PowerLoss, NoOp, User, Phys, PCs, Mounting, Moving, Wrapping
<1>31. CASE FlashError
  <2>1. short' \in BOOLEAN /\ fault' \in BOOLEAN
    BY <1>31 DEF FlashError
  <2>2. /\ page' \in [Phys -> Content] /\ vol' \in [User -> Content]
        /\ hdr' \in [1..2 -> -2 .. N - 1] /\ rec' \in [1..2 -> SUBSET Phys]
    BY <1>31 DEF FlashError, InFlight, TornHdr, Content
  <2> QED
    BY <1>31, <2>1, <2>2 DEF FlashError, NoOp, User, Phys, PCs, Mounting, Moving, Wrapping
<1> HIDE DEF TypeOK
<1> QED
  BY <1>1, <1>3, <1>4, <1>5, <1>6, <1>7, <1>8, <1>9, <1>10, <1>11, <1>12, <1>13, <1>14, <1>15, <1>16, <1>17, <1>18, <1>19, <1>20, <1>21, <1>22, <1>23, <1>24, <1>25, <1>26, <1>27, <1>28, <1>29, <1>30, <1>31, <1>32, <1>33
     DEF Next, Normal, Step

LEMMA HeaderReadStep == TypeInv /\ [Next]_vars => HeaderRead'
<1> SUFFICES ASSUME TypeOK, HeaderRead, [Next]_vars
             PROVE  HeaderRead'
  BY DEF TypeInv
<1>1. CASE UNCHANGED vars
  BY <1>1 DEF vars, HeaderRead, HdrOK
<1>2. CASE Redo2Write \/ Redo1Write
  BY <1>2 DEF Redo2Write, Redo1Write, WriteCopy, HeaderRead, HdrOK, TypeOK, User
<1>3. CASE Redo2Rec \/ Redo1Rec
  BY <1>3 DEF Redo2Rec, Redo1Rec, WriteRec, HeaderRead, HdrOK
<1>4. CASE pc' \notin {"sync_rec", "rb2_rec", "rb1_rec", "rb1_rec_noid"}
  BY <1>4 DEF HeaderRead
<1>5. ASSUME NEW again \in {"update", "write"}, NextPage(again)
      PROVE  pc' \in {"ready", "update", "write"}
  BY <1>5 DEF NextPage
<1>6. ASSUME AfterUpdate
      PROVE  pc' \in {"off", "erase"}
  BY <1>6 DEF AfterUpdate
<1> QED
  BY <1>1, <1>2, <1>3, <1>4, <1>5, <1>6
     DEF Next, Normal, Step, ReadError, MountBlind, InitFrom, Mount, Ready, EraseRange, Write, Unmount, FmtErase, FmtWrite,
         FmtConfig, Redo2Erase, Redo2Done, Redo1Erase, Redo1Done, UpdateWL, MoveErase,
         MoveCopy, MoveRec1, MoveRec2, WrapErase1, WrapWrite1, WrapErase2, WrapWrite2,
         ErasePage, WritePage, PowerLoss, FlashError

LEMMA TypeInit == Init => TypeInv
<1> SUFFICES ASSUME Init
             PROVE  TypeInv
  OBVIOUS
<1>1. page \in [Phys -> Content] /\ vol \in [User -> Content]
  BY DEF Init, Content
<1>2. hdr \in [1..2 -> -2 .. N - 1] /\ rec \in [1..2 -> SUBSET Phys]
  BY WLAssumption DEF Init, BlankHdr
<1>3. op \in OpSpace
  BY WLAssumption DEF Init, NoOp, OpSpace, User
<1>4. pos \in Phys /\ mc \in User /\ cnt \in 0 .. Rate - 1
  BY WLAssumption DEF Init, User, Phys
<1> QED
  BY <1>1, <1>2, <1>3, <1>4 DEF Init, TypeInv, TypeOK, HeaderRead, OpSpace, PCs

\* The type invariant holds: pos, mc and cnt stay within their bounds whatever
\* the order of calls, moves, wraps, power losses and errors.
THEOREM TypeCorrect == Spec => []TypeOK
<1>1. Init => TypeInv
  BY TypeInit
<1>2. TypeInv /\ [Next]_vars => TypeInv'
  BY TypeStep, HeaderReadStep DEF TypeInv
<1>3. TypeInv => TypeOK
  BY DEF TypeInv
<1> QED
  BY <1>1, <1>2, <1>3, PTL DEF Spec

(***************************************************************************)
(* The records say where the dummy page is.                                *)
(***************************************************************************)
\* recoverPos finds the position that the records of copy 1 say.
LEMMA FirstFreeAtPos ==
    ASSUME NEW R \in SUBSET Phys, NEW p \in Phys, AtPos(R, p)
    PROVE  FirstFree(R) = p
<1>1. CASE R = Phys /\ p = N
  BY <1>1 DEF FirstFree
<1>2. CASE R = 0 .. p - 1
  <2>1. p \in Phys \ R /\ Phys \ R \in SUBSET Nat
    BY <1>2, WLAssumption DEF Phys
  <2>2. MinOf(Phys \ R) \in Phys \ R /\ MinOf(Phys \ R) <= p
    BY <2>1, MinOfNat
  <2>3. MinOf(Phys \ R) = p
    BY <2>2, <1>2, WLAssumption DEF Phys
  <2> QED
    BY <2>1, <2>3 DEF FirstFree
<1> QED
  BY <1>1, <1>2 DEF AtPos

LEMMA AtPosEmpty ==
    ASSUME NEW p \in Phys
    PROVE  AtPos({}, p) <=> p = 0
BY WLAssumption DEF AtPos, Phys

LEMMA AtPosNext ==
    ASSUME NEW p \in Phys, NEW R, AtPos(R, p)
    PROVE  R \cup {p} = 0 .. p
BY WLAssumption DEF AtPos, Phys

(***************************************************************************)
(* The flash is in one of its four good shapes, whatever is under way.     *)
(***************************************************************************)
LEMMA ShapeNow ==
    ASSUME TypeOK, CoreInv, ~short
    PROVE  FlashShape
<1> USE WLAssumption
<1>1. CASE pc = "off"
  BY <1>1 DEF CoreInv, OffInv
<1>2. CASE pc \in Steady /\ pc # "mv_rec2"
  BY <1>2 DEF CoreInv, SteadyInv, FlashShape, TypeOK, HdrOK, User
<1>3. CASE pc = "mv_rec2"
  <2>1. /\ hdr[1] = mc /\ hdr[2] = mc /\ Maps(pos, mc) /\ rec[1] = 0 .. pos
        /\ page[pos] = page[NextPos(pos)]
    BY <1>3 DEF CoreInv, SteadyInv, Steady, Moving
  <2>2. CASE pos < N
    <3>1. pos + 1 \in Phys /\ AtPos(rec[1], pos + 1) /\ NextPos(pos) = pos + 1
      BY <2>1, <2>2 DEF TypeOK, Phys, AtPos, NextPos
    <3>2. Maps(pos + 1, mc)
      BY <2>1, <2>2, <3>1, HoldsMove DEF TypeOK, Maps, PageSpace, VolSpace
    <3> QED
      BY <2>1, <3>1, <3>2 DEF FlashShape, TypeOK, HdrOK, User
  <2>3. CASE pos = N
    <3>1. AtPos(rec[1], pos)
      BY <2>1, <2>3 DEF AtPos, Phys
    <3> QED
      BY <2>1, <3>1 DEF FlashShape, TypeOK, HdrOK, User
  <2> QED
    BY <2>2, <2>3 DEF TypeOK, Phys
<1>4. CASE pc \in Wrapping
  <2>1. CASE pc = "wr_e1"
    <3>1. AtPos(rec[1], N) /\ N \in Phys
      BY <2>1 DEF CoreInv, WrapInv, AtPos, Phys
    <3> QED
      BY <2>1, <3>1 DEF CoreInv, WrapInv, FlashShape
  <2>2. CASE pc = "wr_w1"
    BY <2>2 DEF CoreInv, WrapInv, FlashShape
  <2>3. CASE pc \in {"wr_e2", "wr_w2"}
    BY <2>3 DEF CoreInv, WrapInv, FlashShape, TypeOK, HdrOK, User
  <2> QED
    BY <1>4, <2>1, <2>2, <2>3 DEF Wrapping
<1>5. CASE pc \in Mounting
  <2>1. CASE pc \in {"fmt_e1", "fmt_w1"}
    BY <2>1 DEF CoreInv, MountInv, FlashShape
  <2>2. CASE pc \in {"fmt_e2", "fmt_w2", "fmt_cfg"}
    BY <2>2, HoldsFresh DEF CoreInv, MountInv, FlashShape, HdrOK, Maps, Fresh
  <2>3. CASE pc \in {"sync_erase", "sync_write", "rb2_erase", "rb2_write", "sync_rec", "rb2_rec"}
    BY <2>3 DEF CoreInv, MountInv, FlashShape, TypeOK, HdrOK, User
  <2>4. CASE pc \in {"rb1_erase", "rb1_erase_noid", "rb1_write", "rb1_write_noid"}
    BY <2>4 DEF CoreInv, MountInv, FlashShape, TypeOK, HdrOK, User
  <2>5. CASE pc \in {"rb1_rec", "rb1_rec_noid"}
    BY <2>5 DEF CoreInv, MountInv
  <2> QED
    BY <1>5, <2>1, <2>2, <2>3, <2>4, <2>5 DEF Mounting
<1> QED
  BY <1>1, <1>2, <1>3, <1>4, <1>5 DEF TypeOK, PCs, Steady, Moving

\* A failing call leaves the mapping in RAM true to what the user may expect.
LEMMA InFlightHolds ==
    ASSUME TypeOK, TypeOK', InFlight,
           pc \in {"erase", "write", "mv_erase", "mv_copy", "mv_rec1"}, Maps(pos, mc)
    PROVE  Holds(page', vol', pos, mc)
<1> USE DEF PageSpace, VolSpace
<1>1. CASE pc \in {"erase", "write"}
  <2>1. /\ op.at \in User /\ pos \in Phys /\ mc \in User
        /\ page \in PageSpace /\ page' \in PageSpace /\ vol \in VolSpace /\ vol' \in VolSpace
    BY DEF TypeOK
  <2>2. \A x \in Phys \ {Addr(op.at, pos, mc)} : page'[x] = page[x]
    BY <1>1, <2>1 DEF InFlight, Target, calcAddr
  <2>3. vol'[op.at] = Junk /\ \A x \in User \ {op.at} : vol'[x] = vol[x]
    BY <1>1, <2>1 DEF InFlight
  <2> QED
    BY <2>1, <2>2, <2>3, HoldsSet DEF Maps
<1>2. CASE pc \in {"mv_erase", "mv_copy", "mv_rec1"}
  <2>1. /\ pos \in Phys /\ mc \in User
        /\ page \in PageSpace /\ page' \in PageSpace /\ vol \in VolSpace
    BY DEF TypeOK
  <2>2. \A x \in Phys \ {pos} : page'[x] = page[x]
    BY <1>2, <2>1 DEF InFlight, Target
  <2>3. vol' = vol
    BY <1>2, <2>1 DEF InFlight
  <2> QED
    BY <2>1, <2>2, <2>3, HoldsDummy DEF Maps
<1> QED
  BY <1>1, <1>2

\* A failure leaves the flash in one of its good shapes.
LEMMA InFlightShape ==
    ASSUME TypeOK, TypeOK', CoreInv, ~short, InFlight
    PROVE  FlashShape'
<1>1. CASE pc \in {"erase", "write", "mv_erase", "mv_copy"}
  <2>1. hdr' = hdr /\ rec' = rec
    BY <1>1 DEF InFlight
  <2>2. /\ hdr[1] = mc /\ hdr[2] = mc /\ AtPos(rec[1], pos)
        /\ Maps(pos, mc) /\ pos \in Phys /\ mc \in User
    BY <1>1 DEF CoreInv, SteadyInv, Steady, Moving, TypeOK
  <2>3. Holds(page', vol', pos, mc)
    BY <1>1, <2>2, InFlightHolds
  <2> QED
    BY <2>1, <2>2, <2>3 DEF FlashShape, Maps, HdrOK, User
<1>2. CASE pc \notin {"erase", "write", "mv_erase", "mv_copy"}
  <2>1. page' = page /\ vol' = vol /\ rec' = rec
    BY <1>2 DEF InFlight, Target, TypeOK
  <2>2. FlashShape
    BY ShapeNow
  <2>3. CASE hdr' = hdr
    BY <2>1, <2>2, <2>3 DEF FlashShape, Maps, HdrOK, Fresh
  <2>4. CASE /\ pc \in {"fmt_w1", "rb1_write", "rb1_write_noid", "wr_w1"}
             /\ hdr' = [hdr EXCEPT ![1] = TornHdr]
    <3>1. ~HdrOK(1) /\ ~HdrOK(1)' /\ hdr'[2] = hdr[2]
      BY <2>4 DEF CoreInv, MountInv, WrapInv, HdrOK, TornHdr, TypeOK
    <3> QED
      BY <2>1, <2>2, <3>1 DEF FlashShape, Maps, HdrOK, Fresh
  <2> QED
    BY <2>3, <2>4 DEF InFlight
<1> QED
  BY <1>1, <1>2

(***************************************************************************)
(* Every step keeps the invariant.                                         *)
(***************************************************************************)
LEMMA PowerLossStep ==
    ASSUME TypeOK, TypeOK', ~fault => CoreInv, PowerLoss, ~fault'
    PROVE  CoreInv'
<1>1. ~fault /\ ~short /\ ~short'
  BY DEF PowerLoss
<1>2. FlashShape'
  BY <1>1, InFlightShape DEF PowerLoss
<1> QED
  BY <1>1, <1>2 DEF PowerLoss, CoreInv, OffInv, SteadyInv, WrapInv, MountInv, FlushInv, Steady, Moving

LEMMA FlashErrorStep ==
    ASSUME TypeOK, TypeOK', ~fault => CoreInv, FlashError, ~fault'
    PROVE  CoreInv'
<1>1. CASE pc \in Mounting \/ op.kind = "flush"
  <2>1. ~fault /\ ~short /\ ~short' /\ pc' = "off"
    BY <1>1 DEF FlashError
  <2>2. FlashShape'
    BY <2>1, InFlightShape DEF FlashError
  <2> QED
    BY <2>1, <2>2 DEF CoreInv, OffInv, SteadyInv, WrapInv, MountInv, FlushInv, Steady, Moving
<1>2. CASE ~(pc \in Mounting \/ op.kind = "flush")
  <2>1. /\ ~fault /\ pc' = "ready" /\ (short' <=> short)
        /\ pc \in {"erase", "write", "mv_erase", "mv_copy", "mv_rec1"}
        /\ pos' = pos /\ mc' = mc /\ InFlight
    BY <1>2 DEF FlashError, Moving, Wrapping
  <2>2. hdr' = hdr /\ rec' = rec
    BY <2>1 DEF InFlight
  <2>3. /\ hdr[1] = mc /\ hdr[2] = mc /\ Maps(pos, mc)
        /\ short => pos = N
        /\ ~short => AtPos(rec[1], pos)
    BY <2>1 DEF CoreInv, SteadyInv, Steady, Moving
  <2>4. Maps(pos, mc)'
    BY <2>1, <2>3, InFlightHolds DEF Maps
  <2> QED
    BY <2>1, <2>2, <2>3, <2>4 DEF CoreInv, OffInv, SteadyInv, WrapInv, MountInv, FlushInv
<1> QED
  BY <1>1, <1>2

\* init believes of copy 1 what is true of it.
Told(h) == h = hdr[1] \/ (h \in Int /\ h < 0 /\ ~HdrOK(1))

\* Of a failed read of copy 1 that does no harm.
LEMMA ReadErrorTold ==
    ASSUME TypeOK, ReadError, ~fault'
    PROVE  ~fault /\ \E h \in Leftovers : InitFrom(h) /\ Told(h)
<1>1. PICK h \in Leftovers : MountBlind(h)
  BY DEF ReadError
<1>2. h \in Int /\ h < 0
  <2>1. h \in Int
    BY <1>1, WLAssumption DEF Leftovers, BlankHdr, TornHdr, User
  <2>2. ~(h >= 0)
    BY <1>1 DEF MountBlind
  <2> QED BY <2>1, <2>2
<1>3. ~fault /\ InitFrom(h) /\ ~HdrOK(1)
  BY <1>1 DEF MountBlind
<1> QED
  BY <1>1, <1>2, <1>3 DEF Told

LEMMA MountStep ==
    ASSUME TypeOK, TypeOK', CoreInv, NEW h, InitFrom(h), Told(h)
    PROVE  CoreInv'
<1> USE WLAssumption
<1>1. /\ pc = "off" /\ ~short /\ FlashShape /\ short' = short
      /\ page' = page /\ hdr' = hdr /\ rec' = rec /\ vol' = vol
  BY DEF InitFrom, CoreInv, OffInv
<1>2. CASE HdrOK(1) /\ HdrOK(2) /\ hdr[1] = hdr[2] /\ Ready(FirstFree(rec[1]), hdr[1])
  <2>1. PICK p \in Phys : AtPos(rec[1], p) /\ Maps(p, hdr[1])
    BY <1>1, <1>2, AtPosEmpty, 0 \in Phys DEF FlashShape, Phys
  <2>2. FirstFree(rec[1]) = p
    BY <2>1, FirstFreeAtPos DEF TypeOK
  <2>3. pos' = p /\ mc' = hdr[1] /\ pc' = "ready"
    BY <1>2, <2>2 DEF Ready
  <2> QED
    BY <1>1, <1>2, <2>1, <2>3
       DEF CoreInv, OffInv, SteadyInv, WrapInv, MountInv, FlushInv, Maps, HdrOK
<1>3. CASE /\ HdrOK(1) /\ ~(HdrOK(2) /\ hdr[1] = hdr[2])
           /\ pc' \in {"sync_erase", "rb2_erase"} /\ mc' = hdr[1]
  <2>1. rec[1] = {} /\ Maps(0, hdr[1])
    BY <1>1, <1>3 DEF FlashShape, HdrOK, TypeOK
  <2> QED
    BY <1>1, <1>3, <2>1
       DEF CoreInv, OffInv, SteadyInv, WrapInv, MountInv, FlushInv, Maps, Steady, Moving
<1>4. CASE ~HdrOK(1) /\ ~HdrOK(2) /\ pc' = "fmt_e1" /\ mc' = 0
  BY <1>1, <1>4 DEF FlashShape, CoreInv, OffInv, SteadyInv, WrapInv, MountInv, FlushInv, HdrOK, Fresh,
                    Steady, Moving
<1>5. CASE ~HdrOK(1) /\ HdrOK(2) /\ pc' \in {"rb1_erase", "rb1_erase_noid"} /\ mc' = hdr[2]
  BY <1>1, <1>5 DEF FlashShape, CoreInv, OffInv, SteadyInv, WrapInv, MountInv, FlushInv, HdrOK, Maps,
                    Steady, Moving
<1> QED
  <2>1. CASE HdrOK(1) /\ h = hdr[1]
    <3>1. h >= 0 /\ ~(h < 0)
      BY <2>1 DEF HdrOK, TypeOK
    <3> QED BY <1>2, <1>3, <2>1, <3>1 DEF InitFrom, HdrOK
  <2>2. CASE ~HdrOK(1) /\ h < 0
    <3>1. ~(h >= 0)
      BY <2>2 DEF HdrOK, Told, TypeOK
    <3> QED BY <1>4, <1>5, <2>2, <3>1 DEF InitFrom
  <2>3. hdr[1] \in Int
    BY DEF TypeOK
  <2> QED BY <2>1, <2>2, <2>3 DEF Told, HdrOK

LEMMA FmtStep ==
    ASSUME TypeOK, TypeOK', CoreInv,
           FmtErase(1) \/ FmtErase(2) \/ FmtWrite(1) \/ FmtWrite(2) \/ FmtConfig
    PROVE  CoreInv'
<1> USE WLAssumption
        DEF CoreInv, OffInv, SteadyInv, WrapInv, MountInv, FlushInv, HdrOK, Fresh, Steady, Moving, ghosts
<1>1. CASE FmtErase(1)
  BY <1>1 DEF FmtErase, EraseCopy, BlankHdr, TypeOK
<1>2. CASE FmtErase(2)
  BY <1>2 DEF FmtErase, EraseCopy, BlankHdr, TypeOK
<1>3. CASE FmtWrite(1)
  BY <1>3 DEF FmtWrite, WriteCopy, TypeOK
<1>4. CASE FmtWrite(2)
  BY <1>4 DEF FmtWrite, WriteCopy, TypeOK
<1>5. CASE FmtConfig
  <2>1. /\ pc = "fmt_cfg" /\ ~short /\ hdr[1] = 0 /\ hdr[2] = 0 /\ rec[1] = {} /\ Fresh /\ mc = 0
    BY <1>5 DEF FmtConfig
  <2>2. FirstFree(rec[1]) = 0 /\ AtPos(rec[1], 0)
    BY <2>1, FirstFreeAtPos, AtPosEmpty, 0 \in Phys DEF Phys
  <2>3. Maps(0, 0)'
    BY <1>5, <2>1, HoldsFresh DEF FmtConfig, Maps
  <2>4. pc' = "ready" /\ pos' = 0 /\ mc' = 0 /\ hdr' = hdr /\ rec' = rec /\ short' = short
    BY <1>5, <2>1, <2>2 DEF FmtConfig, Ready, flashVars
  <2> QED
    BY <2>1, <2>2, <2>3, <2>4
<1> QED
  BY <1>1, <1>2, <1>3, <1>4, <1>5

LEMMA Redo2Step ==
    ASSUME TypeOK, TypeOK', CoreInv, Redo2Erase \/ Redo2Write \/ Redo2Rec \/ Redo2Done
    PROVE  CoreInv'
<1> USE WLAssumption
        DEF CoreInv, OffInv, SteadyInv, WrapInv, MountInv, FlushInv, Steady, Moving, Maps, ramVars, ghosts
<1>1. CASE Redo2Erase
  BY <1>1 DEF Redo2Erase, EraseCopy, TypeOK
<1>2. CASE Redo2Write
  BY <1>2 DEF Redo2Write, WriteCopy, TypeOK
<1>3. CASE Redo2Rec
  BY <1>3 DEF Redo2Rec
<1>4. CASE Redo2Done
  <2>1. FirstFree({}) = 0 /\ AtPos({}, 0)
    BY FirstFreeAtPos, AtPosEmpty, 0 \in Phys DEF Phys
  <2>2. /\ pc \in {"sync_rec", "rb2_rec"} /\ ~short /\ hdr[1] = mc /\ hdr[2] = mc
        /\ rec[1] = {} /\ Maps(0, mc)
    BY <1>4 DEF Redo2Done
  <2>3. /\ pc' = "ready" /\ pos' = 0 /\ mc' = mc /\ short' = short
        /\ page' = page /\ hdr' = hdr /\ rec' = rec /\ vol' = vol
    BY <1>4, <2>1, <2>2 DEF Redo2Done, Ready, flashVars
  <2> QED
    BY <2>1, <2>2, <2>3
<1> QED
  BY <1>1, <1>2, <1>3, <1>4

LEMMA Redo1Step ==
    ASSUME TypeOK, TypeOK', CoreInv, Redo1Erase \/ Redo1Write \/ Redo1Rec \/ Redo1Done
    PROVE  CoreInv'
<1> USE WLAssumption
        DEF CoreInv, OffInv, SteadyInv, WrapInv, MountInv, FlushInv, Steady, Moving, Maps, ramVars, ghosts
<1>1. CASE Redo1Erase
  BY <1>1 DEF Redo1Erase, EraseCopy, BlankHdr, HdrOK, TypeOK
<1>2. CASE Redo1Write
  BY <1>2 DEF Redo1Write, WriteCopy, TypeOK
<1>3. CASE Redo1Rec
  BY <1>3 DEF Redo1Rec, WriteRec, TypeOK
<1>4. CASE Redo1Done
  <2>1. pc \in {"rb1_rec", "rb1_rec_noid"} /\ hdr[1] = mc /\ hdr[2] = mc /\ Maps(N, mc)
    BY <1>4 DEF Redo1Done
  <2>2. /\ pc' = "ready" /\ pos' = N /\ mc' = mc /\ (short' <=> rec[1] # Phys)
        /\ page' = page /\ hdr' = hdr /\ rec' = rec /\ vol' = vol
    BY <1>4, <2>1 DEF Redo1Done, Ready, flashVars
  <2>3. ~short' => AtPos(rec[1], N)
    BY <2>2 DEF AtPos
  <2> QED
    BY <2>1, <2>2, <2>3
<1> QED
  BY <1>1, <1>2, <1>3, <1>4

LEMMA CallStep ==
    ASSUME TypeOK, TypeOK', CoreInv,
           \/ \E a, b \in User : EraseRange(a, b)
           \/ \E a, b \in User, d \in Data : Write(a, b, d)
           \/ Unmount
    PROVE  CoreInv'
<1>1. /\ pc = "ready" /\ pc' \in {"update", "write"}
      /\ UNCHANGED <<page, hdr, rec, pos, mc, vol, short>>
  BY DEF EraseRange, Write, Unmount, flashVars, ramVars, ghosts
<1>2. FlushInv'
  BY DEF EraseRange, Write, Unmount, NoOp, FlushInv
<1> QED
  BY <1>1, <1>2 DEF CoreInv, OffInv, SteadyInv, WrapInv, MountInv, Steady, Moving, Maps

LEMMA UpdateStep ==
    ASSUME TypeOK, TypeOK', CoreInv, UpdateWL
    PROVE  CoreInv'
<1> USE WLAssumption
<1>1. /\ pc = "update" /\ pc' \in {"erase", "mv_erase"}
      /\ UNCHANGED <<page, hdr, rec, pos, mc, vol, short>>
  BY DEF UpdateWL, AfterUpdate, flashVars, ghosts, CoreInv, FlushInv, TypeOK
<1>2. FlushInv'
  BY <1>1 DEF UpdateWL, AfterUpdate, FlushInv
<1> QED
  BY <1>1, <1>2 DEF CoreInv, OffInv, SteadyInv, WrapInv, MountInv, Steady, Moving, Maps

LEMMA MoveStep ==
    ASSUME TypeOK, TypeOK', CoreInv, MoveErase \/ MoveCopy \/ MoveRec1
    PROVE  CoreInv'
<1> USE WLAssumption
<1>0. /\ pc \in {"mv_erase", "mv_copy", "mv_rec1"} /\ hdr[1] = mc /\ hdr[2] = mc /\ Maps(pos, mc)
      /\ short => pos = N
      /\ ~short => AtPos(rec[1], pos)
      /\ pos' = pos /\ mc' = mc /\ hdr' = hdr /\ vol' = vol /\ short' = short
      /\ pos \in Phys /\ mc \in User /\ page \in PageSpace /\ page' \in PageSpace
      /\ vol \in VolSpace
  BY DEF CoreInv, SteadyInv, Steady, Moving, MoveErase, MoveCopy, MoveRec1, WriteRec, ramVars,
         ghosts, TypeOK, PageSpace, VolSpace
<1>1. CASE MoveErase \/ MoveCopy
  <2>1. /\ \A x \in Phys \ {pos} : page'[x] = page[x]
        /\ rec' = rec /\ pc' \in {"mv_copy", "mv_rec1"}
    BY <1>0, <1>1 DEF MoveErase, MoveCopy, PageSpace
  <2>2. Maps(pos, mc)'
    BY <1>0, <2>1, HoldsDummy DEF Maps
  <2>3. pc' = "mv_rec1" => page'[pos] = page'[NextPos(pos)]
    BY <1>0, <1>1 DEF MoveErase, MoveCopy, NextPos, Phys, PageSpace
  <2> QED
    BY <1>0, <2>1, <2>2, <2>3
       DEF CoreInv, OffInv, SteadyInv, WrapInv, MountInv, FlushInv, NextPos
<1>2. CASE MoveRec1
  <2>1. /\ pc = "mv_rec1" /\ pc' = "mv_rec2" /\ page' = page
        /\ rec'[1] = rec[1] \cup {pos}
    BY <1>2 DEF MoveRec1, WriteRec, TypeOK
  <2>2. ~short' => rec'[1] = 0 .. pos
    BY <1>0, <2>1, AtPosNext
  <2>3. page[pos] = page[NextPos(pos)]
    BY <2>1 DEF CoreInv, SteadyInv, Steady, Moving
  <2> QED
    BY <1>0, <2>1, <2>2, <2>3
       DEF CoreInv, OffInv, SteadyInv, WrapInv, MountInv, FlushInv, NextPos, Maps
<1> QED
  BY <1>1, <1>2

LEMMA MoveRec2Step ==
    ASSUME TypeOK, TypeOK', CoreInv, MoveRec2
    PROVE  CoreInv'
<1> USE WLAssumption
<1>0. /\ pc = "mv_rec2" /\ hdr[1] = mc /\ hdr[2] = mc /\ Maps(pos, mc)
      /\ short => pos = N
      /\ ~short => rec[1] = 0 .. pos
      /\ page[pos] = page[NextPos(pos)]
      /\ page' = page /\ hdr' = hdr /\ vol' = vol /\ short' = short /\ rec'[1] = rec[1]
      /\ pos \in Phys /\ mc \in User /\ page \in PageSpace /\ vol \in VolSpace
  BY DEF CoreInv, SteadyInv, Steady, Moving, MoveRec2, WriteRec, ghosts, TypeOK, PageSpace,
         VolSpace
<1>1. CASE pos + 1 <= N
  <2>1. /\ pos' = pos + 1 /\ mc' = mc /\ AfterUpdate /\ ~short /\ NextPos(pos) = pos + 1
    BY <1>0, <1>1 DEF MoveRec2, NextPos, Phys
  <2>2. AtPos(rec'[1], pos') /\ pos' \in Phys
    BY <1>0, <1>1, <2>1 DEF AtPos, Phys
  <2>3. Maps(pos, mc)'
    BY <1>0, <1>1, <2>1, HoldsMove DEF Maps, Phys
  <2>4. FlashShape'
    BY <1>0, <2>1, <2>2, <2>3 DEF FlashShape, HdrOK, User
  <2>5. \/ pc' = "off"
        \/ pc' = "erase" /\ op' = op /\ op.kind # "flush"
    BY <2>1 DEF AfterUpdate
  <2> QED
    BY <1>0, <2>1, <2>2, <2>3, <2>4, <2>5
       DEF CoreInv, OffInv, SteadyInv, WrapInv, MountInv, FlushInv, Steady, Moving
<1>2. CASE pos = N
  <2>1. /\ pos' = 0 /\ mc' = NextMc(mc) /\ pc' = "wr_e1" /\ NextPos(pos) = 0
    BY <1>0, <1>2 DEF MoveRec2, NextMc, NextPos
  <2>2. Maps(0, mc)'
    BY <1>0, <1>2, <2>1, HoldsWrap DEF Maps
  <2>3. ~short' => rec'[1] = Phys
    BY <1>0, <1>2 DEF Phys
  <2> QED
    BY <1>0, <1>2, <2>1, <2>2, <2>3
       DEF CoreInv, OffInv, SteadyInv, WrapInv, MountInv, FlushInv, Steady, Moving, HdrOK, Maps, User
<1> QED
  BY <1>0, <1>1, <1>2 DEF Phys

LEMMA WrapStep ==
    ASSUME TypeOK, TypeOK', CoreInv, WrapErase1 \/ WrapWrite1 \/ WrapErase2 \/ WrapWrite2
    PROVE  CoreInv'
<1> USE WLAssumption
        DEF CoreInv, OffInv, SteadyInv, WrapInv, MountInv, FlushInv, Steady, Moving, Maps,
            ramVars, ghosts, HdrOK
<1>1. CASE WrapErase1
  BY <1>1 DEF WrapErase1, EraseCopy, BlankHdr, TypeOK
<1>2. CASE WrapWrite1
  BY <1>2 DEF WrapWrite1, WriteCopy, TypeOK
<1>3. CASE WrapErase2
  BY <1>3 DEF WrapErase2, EraseCopy, TypeOK
<1>4. CASE WrapWrite2
  <2>1. /\ pos = 0 /\ Maps(0, mc) /\ ~short /\ hdr[1] = mc /\ rec[1] = {} /\ mc \in User
    BY <1>4 DEF WrapWrite2, TypeOK
  <2>2. /\ UNCHANGED <<page, rec, pos, mc, vol, short>>
        /\ hdr'[1] = mc /\ hdr'[2] = mc
    BY <1>4, <2>1 DEF WrapWrite2, WriteCopy, TypeOK
  <2>3. AtPos({}, 0) /\ 0 \in Phys
    BY AtPosEmpty, 0 \in Phys DEF Phys
  <2>4. FlashShape'
    BY <2>1, <2>2 DEF FlashShape, User
  <2>5. \/ pc' = "off"
        \/ pc' = "erase" /\ op' = op /\ op.kind # "flush"
    BY <1>4 DEF WrapWrite2, AfterUpdate
  <2> QED
    BY <2>1, <2>2, <2>3, <2>4, <2>5
<1> QED
  BY <1>1, <1>2, <1>3, <1>4

LEMMA PageStep ==
    ASSUME TypeOK, TypeOK', CoreInv, ErasePage \/ WritePage
    PROVE  CoreInv'
<1>0. /\ pc \in {"erase", "write"} /\ hdr[1] = mc /\ hdr[2] = mc /\ Maps(pos, mc)
      /\ short => pos = N
      /\ ~short => AtPos(rec[1], pos)
      /\ UNCHANGED <<hdr, rec, pos, mc, short>>
      /\ pos \in Phys /\ mc \in User /\ page \in PageSpace /\ page' \in PageSpace
      /\ vol \in VolSpace /\ vol' \in VolSpace /\ op.at \in User
  BY DEF CoreInv, SteadyInv, Steady, ErasePage, WritePage, ramVars, ghosts, TypeOK, PageSpace,
         VolSpace
<1>1. PICK c : /\ page' = [page EXCEPT ![Addr(op.at, pos, mc)] = c]
               /\ vol' = [vol EXCEPT ![op.at] = c]
  BY DEF ErasePage, WritePage, calcAddr
<1>2. /\ \A x \in Phys \ {Addr(op.at, pos, mc)} : page'[x] = page[x]
      /\ page'[Addr(op.at, pos, mc)] = c
      /\ \A x \in User \ {op.at} : vol'[x] = vol[x]
      /\ vol'[op.at] = c
  BY <1>0, <1>1, AddrRange DEF PageSpace, VolSpace
<1>3. Maps(pos, mc)'
  BY <1>0, <1>2, HoldsSet DEF Maps
<1>4. pc' \in {"ready", "update", "write"} /\ (pc' = "update" => op'.kind # "flush")
  BY DEF ErasePage, WritePage, NextPage, CoreInv, FlushInv, TypeOK
<1> QED
  BY <1>0, <1>3, <1>4
     DEF CoreInv, OffInv, SteadyInv, WrapInv, MountInv, FlushInv, Steady

LEMMA CoreInit == Init => CoreInv
BY DEF Init, CoreInv, OffInv, SteadyInv, WrapInv, MountInv, FlushInv, FlashShape, HdrOK,
       BlankHdr, Fresh, Steady, Moving

LEMMA CoreStep ==
    ASSUME TypeOK, TypeOK', ~fault => CoreInv, [Next]_vars
    PROVE  ~fault' => CoreInv'
<1> SUFFICES ASSUME ~fault'
             PROVE  CoreInv'
  OBVIOUS
<1>1. CASE PowerLoss
  BY <1>1, PowerLossStep
<1>2. CASE FlashError
  BY <1>2, FlashErrorStep
<1>5. CASE ReadError
  BY <1>5, ReadErrorTold, MountStep
<1>3. CASE Normal
  <2>1. fault' = fault
    BY <1>3 DEF Normal, Step, Mount, EraseRange, Write, Unmount, FmtErase, FmtWrite, FmtConfig,
       Redo2Erase, Redo2Write, Redo2Rec, Redo2Done, Redo1Erase, Redo1Write, Redo1Rec, Redo1Done,
       UpdateWL, MoveErase, MoveCopy, MoveRec1, MoveRec2, WrapErase1, WrapWrite1, WrapErase2,
       WrapWrite2, ErasePage, WritePage, ghosts
  <2>2. CASE Mount
    BY <2>1, <2>2, MountStep DEF Mount, Told
  <2> QED
    BY <1>3, <2>1, <2>2, FmtStep, Redo2Step, Redo1Step, CallStep, UpdateStep, MoveStep,
       MoveRec2Step, WrapStep, PageStep
       DEF Normal, Step
<1>4. CASE UNCHANGED vars
  BY <1>4 DEF vars, CoreInv, OffInv, SteadyInv, WrapInv, MountInv, FlushInv, FlashShape, HdrOK,
     Fresh, Maps
<1> QED
  BY <1>1, <1>2, <1>3, <1>4, <1>5 DEF Next

\* The inductive invariant holds: at every point of every mount, move and wrap
\* the flash and the RAM are related as IInv says.
THEOREM Inductive == Spec => []IInv
<1>1. Init => TypeInv /\ IInv
  BY TypeInit, CoreInit DEF IInv, TypeInv
<1>2. TypeInv /\ IInv /\ [Next]_vars => (TypeInv /\ IInv)'
  BY TypeStep, HeaderReadStep, CoreStep DEF IInv, TypeInv
<1> QED
  BY <1>1, <1>2, PTL DEF Spec

LEMMA ShapeDurable ==
    ASSUME TypeOK, FlashShape
    PROVE  Fresh \/ ((HdrOK(1) \/ HdrOK(2)) /\ Maps(FoundPos, FoundMc))
<1> USE WLAssumption
<1>1. CASE /\ HdrOK(1) /\ hdr[1] = hdr[2]
           /\ \E p \in Phys : AtPos(rec[1], p) /\ Maps(p, hdr[1])
  <2>1. PICK p \in Phys : AtPos(rec[1], p) /\ Maps(p, hdr[1])
    BY <1>1
  <2>2. FoundPos = p /\ FoundMc = hdr[1]
    BY <1>1, <2>1, FirstFreeAtPos DEF FoundPos, FoundMc, HdrOK, TypeOK
  <2> QED
    BY <1>1, <2>1, <2>2
<1>2. CASE HdrOK(1) /\ rec[1] = {} /\ Maps(0, hdr[1])
  <2>1. FirstFree({}) = 0
    BY FirstFreeAtPos, AtPosEmpty, 0 \in Phys DEF Phys
  <2>2. FoundPos = 0 /\ FoundMc = hdr[1]
    BY <1>2, <2>1 DEF FoundPos, FoundMc
  <2> QED
    BY <1>2, <2>2
<1>3. CASE ~HdrOK(1) /\ HdrOK(2) /\ rec[1] = {} /\ Maps(N, hdr[2])
  BY <1>3 DEF FoundPos, FoundMc
<1> QED
  BY <1>1, <1>2, <1>3 DEF FlashShape

\* Whatever power losses and recovered errors came before, a mounted layer
\* reads every page back as it was stored.
THEOREM ReadBackCorrect == Spec => []ReadsBack
<1>1. IInv => ReadsBack
  BY WLAssumption
     DEF IInv, CoreInv, SteadyInv, WrapInv, ReadsBack, TypeOK, PCs, Up, Steady, Moving, Wrapping
<1> QED
  BY <1>1, Inductive, PTL

\* At every point, power could go and init would find every page again.
THEOREM DurableCorrect == Spec => []Durable
<1>1. IInv => Durable
  BY ShapeNow, ShapeDurable DEF IInv, Durable
<1> QED
  BY <1>1, Inductive, PTL

\* While copy 2 is not whole, copy 1 has no position records: the branch of
\* init that does not read them is right not to.
THEOREM RecordsCorrect == Spec => []RecordsNeedCopy2
<1>1. IInv => RecordsNeedCopy2
  <2> SUFFICES ASSUME TypeOK, CoreInv, ~HdrOK(2)
               PROVE  rec[1] = {}
    BY DEF IInv, RecordsNeedCopy2
  <2>1. CASE pc = "off"
    BY <2>1 DEF CoreInv, OffInv, FlashShape, HdrOK, TypeOK
  <2>2. CASE pc \in Steady
    BY <2>2 DEF CoreInv, SteadyInv, HdrOK, TypeOK, User
  <2>3. CASE pc \in Wrapping
    BY <2>3 DEF CoreInv, WrapInv, HdrOK, TypeOK, Wrapping
  <2>4. CASE pc \in Mounting
    BY <2>4 DEF CoreInv, MountInv, HdrOK, TypeOK, Mounting, User
  <2> QED
    BY <2>1, <2>2, <2>3, <2>4 DEF TypeOK, PCs, Steady
<1> QED
  BY <1>1, Inductive, PTL

(***************************************************************************)
(* The refinement: the layer is an array of pages.  Beyond IInv it needs   *)
(* to know which call is under way, and that the page a wrap has moved is  *)
(* in both places until the flash says so.                                 *)
(***************************************************************************)
CallInv ==
    /\ pc \in {"off", "ready"} \cup Mounting => op = NoOp
    /\ pc = "erase" => op.kind = "erase"
    /\ pc = "write" => op.kind = "write"
    /\ pc \in {"update"} \cup Moving \cup Wrapping => op.kind \in {"erase", "flush"}
    /\ op.kind = "erase" => op.val = Erased
    /\ op.kind \in {"erase", "write"} => op.at <= op.last

TwiceInv ==
    pc \in {"wr_e1", "wr_w1"} => page[N] = page[0] /\ mc = NextMc(hdr[2]) /\ hdr[2] \in User

FullInv == TypeInv /\ IInv /\ CallInv /\ (~fault => TwiceInv)

LEMMA CallInit == Init => CallInv
BY DEF Init, CallInv, NoOp, Mounting, Moving, Wrapping

LEMMA CallInvStep ==
    ASSUME TypeOK, CallInv, [Next]_vars
    PROVE  CallInv'
<1> USE DEF CallInv, NoOp, Mounting, Moving, Wrapping
<1>1. CASE UNCHANGED vars
  BY <1>1 DEF vars
<1>2. CASE Mount \/ ReadError
  <2>1. PICK h : InitFrom(h)
    BY <1>2 DEF Mount, ReadError, MountBlind
  <2>2. pc' \in {"ready"} \cup Mounting
    BY <2>1 DEF InitFrom, Ready
  <2>3. op = NoOp /\ op' = op
    BY <2>1 DEF InitFrom
  <2> QED BY <2>2, <2>3
<1>3. CASE (\E a, b \in User : EraseRange(a, b)) \/ (\E a, b \in User, d \in Data : Write(a, b, d))
  BY <1>3 DEF EraseRange, Write
<1>4. CASE Unmount
  BY <1>4 DEF Unmount
<1>5. CASE PowerLoss \/ FlashError
  <2>1. pc' \in {"off", "ready"} /\ op' = NoOp
    <3> HIDE DEF CallInv, NoOp, Mounting, Moving, Wrapping
    <3> QED BY <1>5 DEF PowerLoss, FlashError
  <2> QED BY <2>1
<1>6. CASE \E c \in 1 .. 2 : FmtErase(c) \/ FmtWrite(c)
  BY <1>6 DEF FmtErase, FmtWrite
<1>7. CASE FmtConfig \/ Redo2Erase \/ Redo2Write \/ Redo2Rec \/ Redo2Done
  BY <1>7 DEF FmtConfig, Redo2Erase, Redo2Write, Redo2Rec, Redo2Done, Ready
<1>8. CASE Redo1Erase \/ Redo1Write \/ Redo1Rec \/ Redo1Done
  BY <1>8 DEF Redo1Erase, Redo1Write, Redo1Rec, Redo1Done, Ready
<1>9. CASE UpdateWL
  BY <1>9 DEF UpdateWL, AfterUpdate
<1>10. CASE MoveErase \/ MoveCopy \/ MoveRec1
  BY <1>10 DEF MoveErase, MoveCopy, MoveRec1
<1>11. CASE MoveRec2
  BY <1>11 DEF MoveRec2, AfterUpdate
<1>12. CASE WrapErase1 \/ WrapWrite1 \/ WrapErase2
  BY <1>12 DEF WrapErase1, WrapWrite1, WrapErase2
<1>13. CASE WrapWrite2
  BY <1>13 DEF WrapWrite2, AfterUpdate
<1>14. CASE ErasePage \/ WritePage
  <2>1. PICK again \in {"update", "write"} :
          /\ NextPage(again) /\ pc = (IF again = "update" THEN "erase" ELSE "write")
    BY <1>14 DEF ErasePage, WritePage
  <2>2. CASE op.at < op.last
    <3>1. /\ pc' = again /\ op'.kind = op.kind /\ op'.val = op.val /\ op'.at = op.at + 1 /\ op'.last = op.last
      BY <2>1, <2>2 DEF NextPage, TypeOK
    <3> QED BY <2>1, <2>2, <3>1, WLAssumption DEF TypeOK, User
  <2>3. CASE ~(op.at < op.last)
    BY <2>1, <2>3 DEF NextPage
  <2> QED BY <2>2, <2>3
<1> QED
  BY <1>1, <1>2, <1>3, <1>4, <1>5, <1>6, <1>7, <1>8, <1>9, <1>10, <1>11, <1>12, <1>13, <1>14
     DEF Next, Normal, Step

LEMMA TwiceStep ==
    ASSUME TypeOK, CoreInv, TwiceInv, fault = FALSE, [Next]_vars
    PROVE  TwiceInv'
<1> USE DEF TwiceInv
<1>1. CASE UNCHANGED vars
  BY <1>1 DEF vars
<1>2. CASE MoveRec2
  <2>1. CASE pos + 1 <= N
    BY <1>2, <2>1 DEF MoveRec2, AfterUpdate
  <2>2. CASE ~(pos + 1 <= N)
    <3>1. pos = N /\ NextPos(pos) = 0
      BY <2>2, WLAssumption DEF TypeOK, Phys, NextPos
    <3>2. hdr[2] = mc /\ page[pos] = page[NextPos(pos)]
      BY <1>2 DEF MoveRec2, CoreInv, SteadyInv, Steady, Moving
    <3>3. mc' = NextMc(mc) /\ page' = page /\ hdr' = hdr
      BY <1>2, <2>2 DEF MoveRec2, WriteRec, NextMc
    <3> QED BY <3>1, <3>2, <3>3 DEF TypeOK
  <2> QED BY <2>1, <2>2
<1>3. CASE WrapErase1
  BY <1>3 DEF WrapErase1, EraseCopy, ramVars, TypeOK
<1>4. CASE pc' \notin {"wr_e1", "wr_w1"}
  BY <1>4
<1>5. ASSUME NEW again \in {"update", "write"}, NextPage(again)
      PROVE  pc' \in {"ready", "update", "write"}
  BY <1>5 DEF NextPage
<1>6. ASSUME AfterUpdate
      PROVE  pc' \in {"off", "erase"}
  BY <1>6 DEF AfterUpdate
<1> QED
  BY <1>1, <1>2, <1>3, <1>4, <1>5, <1>6
     DEF Next, Normal, Step, ReadError, MountBlind, InitFrom, Mount, Ready, EraseRange, Write, Unmount, FmtErase, FmtWrite,
         FmtConfig, Redo2Erase, Redo2Write, Redo2Rec, Redo2Done, Redo1Erase, Redo1Write, Redo1Rec,
         Redo1Done, UpdateWL, MoveErase, MoveCopy, MoveRec1, WrapWrite1, WrapErase2, WrapWrite2,
         ErasePage, WritePage, PowerLoss, FlashError, CoreInv

LEMMA FullInductive == Spec => []FullInv
<1>1. Init => FullInv
  BY TypeInit, CoreInit, CallInit DEF FullInv, IInv, TypeInv, TwiceInv, Init
<1>2. FullInv /\ [Next]_vars => FullInv'
  <2> SUFFICES ASSUME FullInv, [Next]_vars PROVE FullInv'
    OBVIOUS
  <2>1. (TypeInv /\ IInv)'
    BY TypeStep, HeaderReadStep, CoreStep DEF FullInv, IInv, TypeInv
  <2>2. CallInv'
    BY CallInvStep DEF FullInv, IInv
  <2>3. ~fault' => ~fault
    BY DEF Next, Normal, Step, vars, ReadError, MountBlind, Mount, EraseRange, Write, Unmount, FmtErase, FmtWrite, FmtConfig,
       Redo2Erase, Redo2Write, Redo2Rec, Redo2Done, Redo1Erase, Redo1Write, Redo1Rec, Redo1Done,
       UpdateWL, MoveErase, MoveCopy, MoveRec1, MoveRec2, WrapErase1, WrapWrite1, WrapErase2,
       WrapWrite2, ErasePage, WritePage, PowerLoss, FlashError, ghosts
  <2>4. ~fault' => TwiceInv'
    BY <2>3, TwiceStep DEF FullInv, IInv, TypeOK
  <2> QED BY <2>1, <2>2, <2>4 DEF FullInv
<1> QED
  BY <1>1, <1>2, PTL DEF Spec

(***************************************************************************)
(* The mapping in use, and what each step does to it.                      *)
(***************************************************************************)
ViewOf(pg, p, m) == [a \in User |-> pg[Addr(a, p, m)]]

\* Position and move count: in RAM when init has returned, else what init
\* finds, or will make of the flash (copy 1 being made again: N).
CurPos(up, sh, h, r, p) ==
    IF up THEN p ELSE IF sh THEN N
    ELSE IF h[1] >= 0 THEN (IF h[2] >= 0 THEN FirstFree(r[1]) ELSE 0)
    ELSE IF h[2] >= 0 THEN N ELSE 0
CurMc(up, sh, h, m) ==
    IF up THEN m ELSE IF sh THEN h[2]
    ELSE IF h[1] >= 0 THEN h[1] ELSE IF h[2] >= 0 THEN h[2] ELSE 0

LEMMA ViewIs ==
    /\ View = ViewOf(page, CurPos(Up, short, hdr, rec, pos), CurMc(Up, short, hdr, mc))
    /\ View' = ViewOf(page', CurPos(Up', short', hdr', rec', pos'), CurMc(Up', short', hdr', mc'))
BY DEF View, ViewOf, CurPos, CurMc, FoundPos, FoundMc, HdrOK, calcAddr

\* calcAddr stays in the partition even for what a broken header says.
LEMMA AddrPhys ==
    ASSUME NEW a \in User, NEW p \in Phys, NEW m \in -2 .. N - 1
    PROVE  Addr(a, p, m) \in Phys
<1> DEFINE x == N - m + a
<1>1. x \in Nat /\ N \in Nat /\ N > 0
  BY WLAssumption DEF User
<1>2. x % N \in 0 .. N - 1
  <2> HIDE DEF x
  <2> QED BY <1>1
<1> HIDE DEF x
<1>3. Addr(a, p, m) = IF x % N < p THEN x % N ELSE (x % N) + 1
  BY DEF Addr, x
<1> QED
  BY <1>1, <1>2, <1>3 DEF Phys

\* A change of the dummy page is not seen.
LEMMA ViewDummy ==
    ASSUME NEW pg, NEW qg, NEW p \in Phys, NEW m \in User, \A x \in Phys \ {p} : qg[x] = pg[x]
    PROVE  ViewOf(qg, p, m) = ViewOf(pg, p, m)
BY AddrRange DEF ViewOf

\* Nor is a move of the dummy page, once the page is copied.
LEMMA ViewMove ==
    ASSUME NEW pg, NEW p \in Phys, NEW m \in User, p < N, pg[p] = pg[p + 1]
    PROVE  ViewOf(pg, p + 1, m) = ViewOf(pg, p, m)
BY AddrMove DEF ViewOf

LEMMA ViewWrap ==
    ASSUME NEW pg, NEW m \in User, pg[N] = pg[0]
    PROVE  ViewOf(pg, 0, NextMc(m)) = ViewOf(pg, N, m)
BY AddrWrap DEF ViewOf

\* pg and qg are the same everywhere but on page y.
Elsewhere(pg, qg, y) == \A x \in Phys \ {y} : qg[x] = pg[x]

\* A change of a user page is seen there and nowhere else.
LEMMA ViewSet ==
    ASSUME NEW pg, NEW qg, NEW p \in Phys, NEW m \in User, NEW a \in User, NEW b \in User,
           Elsewhere(pg, qg, Addr(a, p, m))
    PROVE  ViewOf(qg, p, m)[b] = IF b = a THEN qg[Addr(a, p, m)] ELSE ViewOf(pg, p, m)[b]
<1>1. CASE b = a
  BY <1>1 DEF ViewOf
<1>2. CASE b # a
  <2>1. Addr(b, p, m) \in Phys /\ Addr(b, p, m) # Addr(a, p, m)
    BY <1>2, AddrRange, AddrInjective
  <2> QED BY <1>2, <2>1 DEF ViewOf, Elsewhere
<1> QED BY <1>1, <1>2

LEMMA EmptyRecords == FirstFree({}) = 0 /\ 0 \in Phys /\ N \in Phys
<1>1. 0 \in Phys /\ N \in Phys
  BY WLAssumption DEF Phys
<1> QED
  BY <1>1, FirstFreeAtPos, AtPosEmpty

\* The mapped variables have their types, whatever has failed.
StoreType ==
    /\ View \in [User -> Content]
    /\ Remaining \in SUBSET User
    /\ (IF op.kind \in {"erase", "write"} THEN op.val ELSE Junk) \in Content

LEMMA StoreTyped == TypeOK => StoreType
<1> SUFFICES ASSUME TypeOK PROVE StoreType
  OBVIOUS
<1> DEFINE p == CurPos(Up, short, hdr, rec, pos)
           m == CurMc(Up, short, hdr, mc)
<1>1. p \in Phys
  BY EmptyRecords, FirstFreeType DEF CurPos, TypeOK
<1>2. m \in -2 .. N - 1
  BY WLAssumption DEF CurMc, TypeOK, User
<1>3. View = ViewOf(page, p, m)
  BY ViewIs
<1> HIDE DEF p, m
<1>4. View \in [User -> Content]
  BY <1>1, <1>2, <1>3, AddrPhys DEF ViewOf, TypeOK
<1>5. Remaining \in SUBSET User
  BY WLAssumption DEF Remaining, User, TypeOK
<1>6. (IF op.kind \in {"erase", "write"} THEN op.val ELSE Junk) \in Content
  BY DEF TypeOK, Content
<1> QED
  BY <1>4, <1>5, <1>6 DEF StoreType

LEMMA StoreTypedNext == TypeOK' => StoreType'
BY StoreTyped, PTL

LEMMA StoreInit == Init => Store!Init
<1> SUFFICES ASSUME Init PROVE Store!Init
  OBVIOUS
<1>1. StoreType
  BY StoreTyped, TypeInit DEF TypeInv
<1>2. op.kind = "none" /\ fault = FALSE
  BY DEF Init, NoOp
<1>3. Remaining = {} /\ (IF op.kind \in {"erase", "write"} THEN op.val ELSE Junk) = Junk
  BY <1>2 DEF Remaining
<1> QED
  BY <1>1, <1>2, <1>3 DEF Store!Init, StoreType

\* The mapping in use, by what the flash holds.
LEMMA CurEmpty ==
    ASSUME NEW up, NEW sh, NEW h, NEW r, NEW p, NEW m, up = FALSE, sh = FALSE, h[1] >= 0, r[1] = {}
    PROVE  CurPos(up, sh, h, r, p) = 0 /\ CurMc(up, sh, h, m) = h[1]
BY EmptyRecords DEF CurPos, CurMc

LEMMA CurBroken ==
    ASSUME NEW up, NEW sh, NEW h, NEW r, NEW p, NEW m, up = FALSE, sh = FALSE, ~(h[1] >= 0), h[2] >= 0
    PROVE  CurPos(up, sh, h, r, p) = N /\ CurMc(up, sh, h, m) = h[2]
BY DEF CurPos, CurMc

LEMMA CurShort ==
    ASSUME NEW up, NEW sh, NEW h, NEW r, NEW p, NEW m, up = FALSE, sh = TRUE
    PROVE  CurPos(up, sh, h, r, p) = N /\ CurMc(up, sh, h, m) = h[2]
BY DEF CurPos, CurMc

LEMMA CurNone ==
    ASSUME NEW up, NEW sh, NEW h, NEW r, NEW p, NEW m, up = FALSE, sh = FALSE, ~(h[1] >= 0), ~(h[2] >= 0)
    PROVE  CurPos(up, sh, h, r, p) = 0 /\ CurMc(up, sh, h, m) = 0
BY DEF CurPos, CurMc

LEMMA CurAt ==
    ASSUME NEW up, NEW sh, NEW h, NEW r, NEW q, NEW m, up = FALSE, sh = FALSE, h[1] >= 0, h[2] >= 0,
           NEW p, FirstFree(r[1]) = p
    PROVE  CurPos(up, sh, h, r, q) = p /\ CurMc(up, sh, h, m) = h[1]
BY DEF CurPos, CurMc

Same == View' = View /\ op' = op /\ fault' = fault

\* No step of a mount is seen.
LEMMA MountSame ==
    ASSUME TypeOK, CoreInv, NEW h, InitFrom(h), Told(h), fault' = fault
    PROVE  Same
<1> USE DEF HdrOK
<1>1. page' = page /\ hdr' = hdr /\ rec' = rec /\ op' = op /\ fault' = fault /\ (Up = FALSE) /\ short = FALSE /\ short' = FALSE
  BY DEF InitFrom, Told, CoreInv, OffInv, TypeOK, Mounting, Up
<1>2. CASE HdrOK(1) /\ HdrOK(2) /\ hdr[1] = hdr[2]
  <2>1. (Up' = TRUE) /\ pos' = FirstFree(rec[1]) /\ mc' = hdr[1]
    <3>1. h = hdr[1]
      BY <1>2 DEF Told
    <3>2. Ready(FirstFree(rec[1]), hdr[1])
      BY <1>2, <3>1 DEF InitFrom, TypeOK
    <3> QED BY <3>2 DEF Ready, Mounting, Up
  <2> QED BY <1>1, <1>2, <2>1, ViewIs DEF Same, CurPos, CurMc
<1>3. CASE ~(HdrOK(1) /\ HdrOK(2) /\ hdr[1] = hdr[2])
  <2>1. (Up' = FALSE)
    <3>1. ~(h >= 0 /\ h = hdr[2])
      BY <1>3 DEF Told, TypeOK
    <3>2. pc' \in Mounting
      BY <3>1 DEF InitFrom, Mounting
    <3> QED BY <3>2 DEF Mounting, Up
  <2> QED BY <1>1, <2>1, ViewIs DEF Same, CurPos, CurMc
<1> QED BY <1>2, <1>3

LEMMA FmtSame ==
    ASSUME TypeOK, CoreInv, (\E c \in {1, 2} : FmtErase(c) \/ FmtWrite(c)) \/ FmtConfig
    PROVE  Same
<1> USE DEF HdrOK, ghosts, flashVars
<1>0. page' = page /\ op' = op /\ fault' = fault /\ short = FALSE /\ short' = FALSE /\ (Up = FALSE) /\ mc = 0 /\ mc' = 0
  BY DEF FmtErase, FmtWrite, FmtConfig, EraseCopy, WriteCopy, Ready, CoreInv, MountInv, TypeOK, Mounting, Up
<1>1. CASE FmtErase(1)
  <2>1. ~(hdr[1] >= 0) /\ ~(hdr[2] >= 0) /\ ~(hdr'[1] >= 0) /\ ~(hdr'[2] >= 0) /\ (Up' = FALSE)
    BY <1>1 DEF FmtErase, EraseCopy, CoreInv, MountInv, TypeOK, BlankHdr, Mounting, Up
  <2>2. View = ViewOf(page, 0, 0)
    BY <1>0, <2>1, CurNone, ViewIs
  <2>3. View' = ViewOf(page, 0, 0)
    BY <1>0, <2>1, CurNone, ViewIs
  <2> QED BY <1>0, <2>2, <2>3 DEF Same
<1>2. CASE FmtWrite(1)
  <2>1. ~(hdr[1] >= 0) /\ ~(hdr[2] >= 0) /\ hdr'[1] = 0 /\ hdr'[1] >= 0 /\ rec'[1] = {} /\ (Up' = FALSE)
    BY <1>0, <1>2 DEF FmtWrite, WriteCopy, CoreInv, MountInv, TypeOK, Mounting, Up
  <2>2. View = ViewOf(page, 0, 0)
    BY <1>0, <2>1, CurNone, ViewIs
  <2>3. View' = ViewOf(page, 0, 0)
    BY <1>0, <2>1, CurEmpty, ViewIs
  <2> QED BY <1>0, <2>2, <2>3 DEF Same
<1>3. CASE FmtErase(2) \/ FmtWrite(2)
  <2>1. hdr[1] = 0 /\ hdr[1] >= 0 /\ rec[1] = {} /\ hdr'[1] = 0 /\ hdr'[1] >= 0 /\ rec'[1] = {} /\ (Up' = FALSE)
    BY <1>3 DEF FmtErase, FmtWrite, WriteCopy, EraseCopy, CoreInv, MountInv, TypeOK, Mounting, Up
  <2>2. View = ViewOf(page, 0, 0)
    <3>1. (Up = FALSE) /\ (short = FALSE) /\ hdr[1] >= 0 /\ rec[1] = {}
      BY <1>0, <2>1
    <3>2. CurPos(Up, short, hdr, rec, pos) = 0 /\ CurMc(Up, short, hdr, mc) = hdr[1]
      BY ONLY <3>1, CurEmpty
    <3> QED BY <2>1, <3>2, ViewIs
  <2>3. View' = ViewOf(page, 0, 0)
    <3>1. (Up' = FALSE) /\ (short' = FALSE) /\ hdr'[1] >= 0 /\ rec'[1] = {}
      BY <1>0, <2>1
    <3>2. CurPos(Up', short', hdr', rec', pos') = 0 /\ CurMc(Up', short', hdr', mc') = hdr'[1]
      BY ONLY <3>1, CurEmpty
    <3> QED BY <1>0, <2>1, <3>2, ViewIs
  <2> QED BY <1>0, <2>2, <2>3 DEF Same
<1>4. CASE FmtConfig
  <2>1. hdr[1] = 0 /\ hdr[1] >= 0 /\ rec[1] = {} /\ (Up' = TRUE) /\ pos' = FirstFree({})
    BY <1>4, SMTT(30) DEF FmtConfig, Ready, CoreInv, MountInv, TypeOK, Mounting, Up
  <2>2. View = ViewOf(page, 0, 0)
    <3>1. (Up = FALSE) /\ (short = FALSE) /\ hdr[1] >= 0 /\ rec[1] = {}
      BY <1>0, <2>1
    <3>2. CurPos(Up, short, hdr, rec, pos) = 0 /\ CurMc(Up, short, hdr, mc) = hdr[1]
      BY ONLY <3>1, CurEmpty
    <3> QED BY <2>1, <3>2, ViewIs
  <2>3. View' = ViewOf(page, 0, 0)
    BY <1>0, <2>1, EmptyRecords, ViewIs DEF CurPos, CurMc
  <2> QED BY <1>0, <2>2, <2>3 DEF Same
<1> QED
  BY <1>1, <1>2, <1>3, <1>4

LEMMA Redo2Same ==
    ASSUME TypeOK, CoreInv, Redo2Erase \/ Redo2Write \/ Redo2Rec \/ Redo2Done
    PROVE  Same
<1> USE DEF HdrOK, ghosts, flashVars, ramVars
<1>0. /\ page' = page /\ op' = op /\ fault' = fault /\ short = FALSE /\ short' = FALSE /\ (Up = FALSE)
      /\ hdr[1] = mc /\ hdr[1] >= 0 /\ rec[1] = {}
  BY WLAssumption DEF Redo2Erase, Redo2Write, Redo2Rec, Redo2Done, EraseCopy, WriteCopy, WriteRec, Ready, CoreInv, MountInv, TypeOK, User, Mounting, Up
<1>1. CASE Redo2Erase \/ Redo2Write
  <2>1. hdr'[1] = hdr[1] /\ hdr'[1] >= 0 /\ rec'[1] = {} /\ (Up' = FALSE)
    BY <1>0, <1>1 DEF Redo2Erase, Redo2Write, EraseCopy, WriteCopy, TypeOK, Mounting, Up
  <2>2. View = ViewOf(page, 0, hdr[1])
    BY <1>0, <2>1, CurEmpty, ViewIs
  <2>3. View' = ViewOf(page, 0, hdr[1])
    BY <1>0, <2>1, CurEmpty, ViewIs
  <2> QED BY <1>0, <2>2, <2>3 DEF Same
<1>2. CASE Redo2Rec
  BY <1>0, <1>2 DEF Redo2Rec, Mounting, Up
<1>3. CASE Redo2Done
  <2>1. (Up' = TRUE) /\ pos' = 0 /\ mc' = hdr[1]
    BY <1>0, <1>3, EmptyRecords DEF Redo2Done, Ready, CoreInv, MountInv, Mounting, Up
  <2>2. View = ViewOf(page, 0, hdr[1])
    BY <1>0, <2>1, CurEmpty, ViewIs
  <2>3. View' = ViewOf(page, 0, hdr[1])
    BY <1>0, <2>1, ViewIs DEF CurPos, CurMc
  <2> QED BY <1>0, <2>2, <2>3 DEF Same
<1> QED
  BY <1>1, <1>2, <1>3

LEMMA Redo1Same ==
    ASSUME TypeOK, CoreInv, Redo1Erase \/ Redo1Write \/ Redo1Rec \/ Redo1Done
    PROVE  Same
<1> USE DEF HdrOK, ghosts, flashVars, ramVars
<1>0. page' = page /\ op' = op /\ fault' = fault /\ (Up = FALSE) /\ hdr[2] = mc /\ mc >= 0
  BY WLAssumption DEF Redo1Erase, Redo1Write, Redo1Rec, Redo1Done, EraseCopy, WriteCopy, WriteRec, Ready, CoreInv, MountInv, TypeOK, User, Mounting, Up
<1>1. CASE Redo1Erase
  <2>1. /\ short = FALSE /\ short' = FALSE /\ ~(hdr[1] >= 0) /\ ~(hdr'[1] >= 0) /\ hdr[2] >= 0 /\ hdr'[2] >= 0 /\ hdr'[2] = hdr[2] /\ (Up' = FALSE)
    BY <1>0, <1>1 DEF Redo1Erase, EraseCopy, BlankHdr, CoreInv, MountInv, TypeOK, Mounting, Up
  <2>2. View = ViewOf(page, N, hdr[2])
    BY <1>0, <2>1, CurBroken, ViewIs
  <2>3. View' = ViewOf(page, N, hdr[2])
    BY <1>0, <2>1, CurBroken, ViewIs
  <2> QED BY <1>0, <2>2, <2>3 DEF Same
<1>2. CASE Redo1Write
  <2>1. /\ short = FALSE /\ short' = TRUE /\ ~(hdr[1] >= 0) /\ hdr[2] >= 0 /\ hdr'[2] = hdr[2] /\ (Up' = FALSE)
    BY <1>0, <1>2 DEF Redo1Write, WriteCopy, CoreInv, MountInv, TypeOK, Mounting, Up
  <2>2. View = ViewOf(page, N, hdr[2])
    BY <1>0, <2>1, CurBroken, ViewIs
  <2>3. View' = ViewOf(page, N, hdr[2])
    BY <1>0, <2>1, CurShort, ViewIs
  <2> QED BY <1>0, <2>2, <2>3 DEF Same
<1>3. CASE Redo1Rec
  <2>1. /\ short = TRUE /\ short' = TRUE /\ hdr'[2] = hdr[2] /\ (Up' = FALSE)
    BY <1>3 DEF Redo1Rec, WriteRec, CoreInv, MountInv, TypeOK, Mounting, Up
  <2>2. View = ViewOf(page, N, hdr[2])
    BY <1>0, <2>1, CurShort, ViewIs
  <2>3. View' = ViewOf(page, N, hdr[2])
    BY <1>0, <2>1, CurShort, ViewIs
  <2> QED BY <1>0, <2>2, <2>3 DEF Same
<1>4. CASE Redo1Done
  <2>1. short = TRUE /\ hdr[1] = hdr[2] /\ (Up' = TRUE) /\ pos' = N /\ mc' = hdr[1]
    BY <1>4 DEF Redo1Done, Ready, CoreInv, MountInv, TypeOK, Mounting, Up
  <2>2. View = ViewOf(page, N, hdr[2])
    BY <1>0, <2>1, CurShort, ViewIs
  <2>3. View' = ViewOf(page, N, hdr[2])
    BY <1>0, <2>1, ViewIs DEF CurPos, CurMc
  <2> QED BY <1>0, <2>2, <2>3 DEF Same
<1> QED
  BY <1>1, <1>2, <1>3, <1>4

\* When init has returned the mapping is the one in RAM.
LEMMA ViewRAM ==
    /\ Up => View = ViewOf(page, pos, mc)
    /\ Up' => View' = ViewOf(page', pos', mc')
BY ViewIs DEF CurPos, CurMc

\* No step of updateWL is seen.
LEMMA UpdateSame ==
    ASSUME TypeOK, CoreInv, UpdateWL \/ MoveErase \/ MoveCopy \/ MoveRec1
    PROVE  View' = View
<1>0. pos \in Phys /\ mc \in User /\ Up /\ Up' /\ pos' = pos /\ mc' = mc
  <2>1. pc' # "off"
    BY WLAssumption DEF UpdateWL, MoveErase, MoveCopy, MoveRec1, AfterUpdate, CoreInv, FlushInv
  <2>2. pc \in {"update"} \cup Moving /\ pc' \in {"off", "erase"} \cup Moving
    BY DEF UpdateWL, MoveErase, MoveCopy, MoveRec1, AfterUpdate, Moving
  <2> QED
    BY <2>1, <2>2 DEF UpdateWL, MoveErase, MoveCopy, MoveRec1, TypeOK, Up, Mounting, Moving, ramVars
<1>1. \A x \in Phys \ {pos} : page'[x] = page[x]
  BY <1>0 DEF UpdateWL, MoveErase, MoveCopy, MoveRec1, WriteRec, flashVars, TypeOK
<1>2. ViewOf(page', pos, mc) = ViewOf(page, pos, mc)
  BY <1>0, <1>1, ViewDummy
<1> QED
  BY <1>0, <1>2, ViewRAM

LEMMA MoveRec2Same ==
    ASSUME TypeOK, CoreInv, MoveRec2
    PROVE  View' = View
<1>0. /\ pc = "mv_rec2" /\ page' = page /\ hdr' = hdr /\ rec'[1] = rec[1] /\ short' = short
      /\ pos \in Phys /\ mc \in User /\ Up /\ rec' = [rec EXCEPT ![2] = @ \cup {pos}]
  BY DEF MoveRec2, WriteRec, ghosts, TypeOK, Up, Mounting
<1>1. View = ViewOf(page, pos, mc)
  BY <1>0, ViewRAM
<1>2. /\ hdr[1] = mc /\ hdr[2] = mc /\ page[pos] = page[NextPos(pos)]
      /\ short => pos = N
      /\ ~short => rec[1] = 0 .. pos
  BY <1>0 DEF CoreInv, SteadyInv, Steady, Moving
<1>3. CASE pos + 1 <= N
  <2>1. pos < N /\ NextPos(pos) = pos + 1 /\ pos + 1 \in Phys /\ short = FALSE
    BY <1>0, <1>2, <1>3, WLAssumption DEF Phys, NextPos, TypeOK
  <2>2. ViewOf(page, pos + 1, mc) = ViewOf(page, pos, mc)
    BY <1>0, <1>2, <2>1, ViewMove
  <2>3. pos' = pos + 1 /\ mc' = mc /\ (pc' = "off" \/ pc' = "erase")
    BY <1>3 DEF MoveRec2, AfterUpdate
  <2>4. CASE pc' = "erase"
    <3>1. Up' BY <2>4 DEF Up, Mounting
    <3> QED BY <1>0, <1>1, <2>2, <2>3, <3>1, ViewRAM
  <2>5. CASE pc' = "off"
    <3>1. Up' = FALSE BY <2>5 DEF Up, Mounting
    <3>2. AtPos(rec'[1], pos + 1) /\ rec'[1] \in SUBSET Phys
      BY <1>0, <1>2, <2>1, WLAssumption DEF AtPos, TypeOK, Phys
    <3>3. hdr'[1] >= 0 /\ hdr'[2] >= 0 /\ short' = FALSE
      BY <1>0, <1>2, <2>1 DEF User
    <3>0. FirstFree(rec'[1]) = pos + 1
      BY <2>1, <3>2, FirstFreeAtPos
    <3>4. /\ CurPos(Up', short', hdr', rec', pos') = pos + 1
          /\ CurMc(Up', short', hdr', mc') = hdr'[1]
      BY <3>0, <3>1, <3>3 DEF CurPos, CurMc
    <3>5. View' = ViewOf(page', pos + 1, hdr'[1])
      BY <3>4, ViewIs
    <3> QED BY <1>0, <1>1, <1>2, <2>2, <3>5
  <2> QED BY <2>3, <2>4, <2>5
<1>4. CASE ~(pos + 1 <= N)
  <2>1. pos = N /\ NextPos(pos) = 0
    BY <1>0, <1>4, WLAssumption DEF Phys, NextPos
  <2>2. pos' = 0 /\ mc' = NextMc(mc) /\ Up'
    BY <1>4 DEF MoveRec2, NextMc, Up, Mounting
  <2>3. ViewOf(page, 0, NextMc(mc)) = ViewOf(page, N, mc)
    BY <1>0, <1>2, <2>1, ViewWrap
  <2> QED BY <1>0, <1>1, <2>1, <2>2, <2>3, ViewRAM
<1> QED BY <1>3, <1>4

LEMMA WrapSame ==
    ASSUME TypeOK, CoreInv, WrapErase1 \/ WrapWrite1 \/ WrapErase2 \/ WrapWrite2
    PROVE  View' = View
<1>0. page' = page /\ pos' = pos /\ mc' = mc /\ Up
  BY DEF WrapErase1, WrapWrite1, WrapErase2, WrapWrite2, EraseCopy, WriteCopy, ramVars, Up, Mounting
<1>1. CASE pc' # "off"
  <2>1. Up'
    BY <1>1 DEF WrapErase1, WrapWrite1, WrapErase2, WrapWrite2, AfterUpdate, Up, Mounting
  <2> QED BY <1>0, <2>1, ViewRAM
<1>2. CASE pc' = "off"
  <2>1. pc = "wr_w2" /\ hdr' = [hdr EXCEPT ![2] = mc] /\ rec' = rec /\ short' = short
    BY <1>2 DEF WrapErase1, WrapWrite1, WrapErase2, WrapWrite2, WriteCopy, ghosts
  <2>2. pos = 0 /\ short = FALSE /\ hdr[1] = mc /\ rec[1] = {}
    BY <2>1 DEF CoreInv, WrapInv, TypeOK
  <2>3. Up' = FALSE
    BY <1>2 DEF Up
  <2>4. hdr'[1] = mc /\ hdr'[1] >= 0 /\ rec'[1] = {} /\ short' = FALSE
    BY <2>1, <2>2 DEF TypeOK, User
  <2>5. View' = ViewOf(page', 0, hdr'[1])
    BY <2>3, <2>4, CurEmpty, ViewIs
  <2> QED BY <1>0, <2>2, <2>4, <2>5, ViewRAM
<1> QED BY <1>1, <1>2

\* A step that is not seen leaves every mapped variable alone.
LEMMA SameStutters == Same => UNCHANGED Store!vars
BY DEF Same, Store!vars, Remaining

\* Taking a call is seen as the start of the change of its pages.
LEMMA CallBegins ==
    ASSUME TypeOK, CallInv,
           (\E a, b \in User : EraseRange(a, b)) \/ (\E a, b \in User, d \in Data : Write(a, b, d))
    PROVE  Store!Begin
<1>1. PICK a \in User, b \in User, k \in {"erase", "write"}, d \in Data \cup {Erased} :
        /\ a <= b /\ pc = "ready" /\ pc' \in {"update", "write"}
        /\ op' = [kind |-> k, at |-> a, last |-> b, val |-> d]
  BY DEF EraseRange, Write
<1>2. page' = page /\ pos' = pos /\ mc' = mc /\ fault' = fault
  BY DEF EraseRange, Write, flashVars, ramVars, ghosts
<1>3. Up /\ Up'
  BY <1>1 DEF Up, Mounting
<1>4. View' = View
  BY <1>2, <1>3, ViewRAM
<1>5. op.kind = "none"
  BY <1>1 DEF CallInv, NoOp
<1>6. Remaining = {}
  BY <1>5 DEF Remaining
<1>7. op'.kind \in {"erase", "write"} /\ op'.at = a /\ op'.last = b /\ op'.val = d
  BY <1>1
<1>8. Remaining' = a .. b /\ a \in a .. b /\ a .. b \subseteq User
  BY <1>1, <1>7, WLAssumption DEF Remaining, User
<1>9. op'.val \in Content
  BY <1>7 DEF Content
<1> QED
  BY <1>2, <1>4, <1>6, <1>7, <1>8, <1>9 DEF Store!Begin

\* Changing a page is seen as that page getting the content of the call.
LEMMA PageFinishes ==
    ASSUME TypeOK, CallInv, ErasePage \/ WritePage
    PROVE  Store!Finish
<1>1. /\ op.kind \in {"erase", "write"} /\ op.at \in User /\ op.last \in User /\ op.at <= op.last
      /\ pos \in Phys /\ mc \in User /\ Up
      /\ page' = [page EXCEPT ![Addr(op.at, pos, mc)] = op.val]
      /\ pos' = pos /\ mc' = mc /\ fault' = fault
  BY DEF ErasePage, WritePage, CallInv, TypeOK, calcAddr, ramVars, ghosts, Up, Mounting
<1>2. PICK again \in {"update", "write"} : NextPage(again)
  BY DEF ErasePage, WritePage
<1>3. Up'
  BY <1>2 DEF NextPage, Up, Mounting
<1>4. \A b \in User : ViewOf(page', pos, mc)[b] = IF b = op.at THEN op.val ELSE ViewOf(page, pos, mc)[b]
  <2>1. Addr(op.at, pos, mc) \in Phys
    BY <1>1, AddrRange
  <2>2. page'[Addr(op.at, pos, mc)] = op.val /\ Elsewhere(page, page', Addr(op.at, pos, mc))
    BY <1>1, <2>1 DEF TypeOK, Elsewhere
  <2>3. \A b \in User :
          ViewOf(page', pos, mc)[b] = IF b = op.at THEN page'[Addr(op.at, pos, mc)] ELSE ViewOf(page, pos, mc)[b]
    <3> TAKE b \in User
    <3>1. Elsewhere(page, page', Addr(op.at, pos, mc)) /\ op.at \in User /\ pos \in Phys /\ mc \in User
      BY <1>1, <2>2
    <3> QED BY <3>1, ViewSet
  <2> QED BY <2>2, <2>3
<1>5. View = ViewOf(page, pos, mc) /\ View' = ViewOf(page', pos, mc)
  BY <1>1, <1>3, ViewRAM
<1>6. /\ Remaining = op.at .. op.last
      /\ Remaining' \subseteq Remaining
      /\ Remaining \ Remaining' = {op.at}
      /\ Remaining' # {} => op'.kind \in {"erase", "write"} /\ op'.val = op.val
      /\ Remaining' = {} => op'.kind = "none"
  <2>1. CASE op.at < op.last
    <3>1. op'.kind = op.kind /\ op'.at = op.at + 1 /\ op'.last = op.last /\ op'.val = op.val
      BY <1>2, <2>1 DEF NextPage, TypeOK
    <3>2. Remaining = op.at .. op.last /\ Remaining' = op.at + 1 .. op.last
      BY <1>1, <3>1 DEF Remaining
    <3>3. op.at + 1 \in op.at + 1 .. op.last
      BY <1>1, <2>1, WLAssumption DEF User
    <3> QED BY <1>1, <3>1, <3>2, <3>3, WLAssumption DEF User
  <2>2. CASE ~(op.at < op.last)
    <3>1. op'.kind = "none"
      BY <1>2, <2>2 DEF NextPage, NoOp
    <3>2. op.at = op.last
      BY <1>1, <2>2, WLAssumption DEF User
    <3>3. Remaining = op.at .. op.last /\ Remaining' = {} /\ op.at .. op.last = {op.at}
      BY <1>1, <3>1, <3>2, WLAssumption DEF Remaining, User
    <3> QED BY <3>1, <3>3
  <2> QED BY <2>1, <2>2
<1>7. View' = [b \in User |-> IF b \in Remaining \ Remaining' THEN op.val ELSE View[b]]
  <2>1. View' = [b \in User |-> ViewOf(page', pos, mc)[b]]
    BY <1>5 DEF ViewOf
  <2> QED BY <1>4, <1>5, <1>6, <2>1
<1> QED
  BY <1>1, <1>6, <1>7 DEF Store!Finish

\* A failure while a page was being changed: only that page can be lost.
LEMMA TargetOnly ==
    ASSUME TypeOK, CallInv, InFlight, pc \in {"mv_erase", "mv_copy", "erase", "write"}
    PROVE  \A a \in User : \/ ViewOf(page', pos, mc)[a] = ViewOf(page, pos, mc)[a]
                           \/ a \in Remaining /\ ViewOf(page', pos, mc)[a] = Junk
<1>0. pos \in Phys /\ mc \in User
  BY DEF TypeOK
<1>1. CASE page' = page
  BY <1>1
<1>2. CASE page' = [p \in Phys |-> IF p \in Target THEN Junk ELSE page[p]] /\ pc \in {"mv_erase", "mv_copy"}
  <2>1. Target = {pos}
    BY <1>2 DEF Target
  <2>2. ViewOf(page', pos, mc) = ViewOf(page, pos, mc)
    BY <1>0, <1>2, <2>1, ViewDummy
  <2> QED BY <2>2
<1>3. CASE page' = [p \in Phys |-> IF p \in Target THEN Junk ELSE page[p]] /\ pc \in {"erase", "write"}
  <2>1. Target = {Addr(op.at, pos, mc)}
    BY <1>3 DEF Target, calcAddr
  <2>2. op.at \in User /\ op.at \in Remaining
    BY <1>3, WLAssumption DEF TypeOK, CallInv, Remaining, User
  <2>3. Addr(op.at, pos, mc) \in Phys
    BY <1>0, <2>2, AddrRange
  <2>4. page'[Addr(op.at, pos, mc)] = Junk /\ Elsewhere(page, page', Addr(op.at, pos, mc))
    BY <1>3, <2>1, <2>3 DEF Elsewhere
  <2>5. \A b \in User : ViewOf(page', pos, mc)[b]
                         = IF b = op.at THEN page'[Addr(op.at, pos, mc)] ELSE ViewOf(page, pos, mc)[b]
    <3> TAKE b \in User
    <3>1. Elsewhere(page, page', Addr(op.at, pos, mc)) /\ op.at \in User /\ pos \in Phys /\ mc \in User
      BY <1>0, <2>2, <2>4
    <3> QED BY <3>1, ViewSet
  <2> QED BY <2>2, <2>4, <2>5
<1> QED
  BY <1>1, <1>2, <1>3 DEF InFlight

\* A failure while a copy is being made in init, before init has returned.
LEMMA MountFails ==
    ASSUME TypeOK, CoreInv, PowerLoss \/ FlashError, fault' = FALSE, pc \in Mounting
    PROVE  View' = View
<1>1. pc' = "off" /\ short = FALSE /\ short' = FALSE /\ rec' = rec /\ InFlight
  BY DEF PowerLoss, FlashError, InFlight, TypeOK
<1>2. Up = FALSE /\ Up' = FALSE
  BY <1>1 DEF Up
<1>3. page' = page
  <2>1. Target = {}
    BY DEF Target, Mounting
  <2> QED BY <1>1, <2>1 DEF InFlight, TypeOK
<1>4. hdr'[2] = hdr[2] /\ (hdr'[1] = hdr[1] \/ (~(hdr[1] >= 0) /\ ~(hdr'[1] >= 0)))
  BY <1>1 DEF InFlight, CoreInv, MountInv, HdrOK, TornHdr, TypeOK, Mounting
<1> QED
  BY <1>1, <1>2, <1>3, <1>4, ViewIs DEF CurPos, CurMc

\* Power lost, or an unmount failing, while copy 1 says where the dummy is:
\* init will find the position and the move count that were in RAM.
LEMMA SteadyFails ==
    ASSUME TypeOK, CoreInv, PowerLoss \/ FlashError, fault' = FALSE, pc' = "off",
           pc \in Steady, pc # "mv_rec2"
    PROVE  View' = ViewOf(page', pos, mc)
<1>1. short = FALSE /\ short' = FALSE /\ rec' = rec /\ hdr' = hdr
  BY DEF PowerLoss, FlashError, InFlight, TypeOK, Steady, Moving, Mounting
<1>2. Up' = FALSE
  BY DEF Up
<1>3. hdr[1] = mc /\ hdr[2] = mc /\ AtPos(rec[1], pos)
  BY <1>1 DEF CoreInv, SteadyInv
<1>4. FirstFree(rec'[1]) = pos
  BY <1>1, <1>3, FirstFreeAtPos DEF TypeOK
<1>5. hdr'[1] >= 0 /\ hdr'[2] >= 0 /\ hdr'[1] = mc
  BY <1>1, <1>3, WLAssumption DEF TypeOK, User
<1>6. CurPos(Up', short', hdr', rec', pos') = pos /\ CurMc(Up', short', hdr', mc') = mc
  BY <1>1, <1>2, <1>4, <1>5 DEF CurPos, CurMc
<1> QED
  BY <1>6, ViewIs

\* Power lost between the record in copy 1 and the one in copy 2: the page
\* is in both places, and init will find the new position.
LEMMA RecordFails ==
    ASSUME TypeOK, CoreInv, PowerLoss, fault' = FALSE, pc = "mv_rec2"
    PROVE  View' = View
<1>1. short = FALSE /\ short' = FALSE /\ rec' = rec /\ hdr' = hdr /\ pc' = "off" /\ page' = page
  <2>1. Target = {}
    BY DEF Target
  <2> QED BY <2>1 DEF PowerLoss, InFlight, TypeOK
<1>2. Up /\ Up' = FALSE
  BY <1>1 DEF Up, Mounting
<1>3. hdr[1] = mc /\ hdr[2] = mc /\ rec[1] = 0 .. pos /\ page[pos] = page[NextPos(pos)] /\ pos \in Phys /\ mc \in User
  BY <1>1 DEF CoreInv, SteadyInv, Steady, Moving, TypeOK
<1>4. hdr'[1] >= 0 /\ hdr'[2] >= 0 /\ hdr'[1] = mc
  BY <1>1, <1>3, WLAssumption DEF User
<1>5. View = ViewOf(page, pos, mc)
  BY <1>2, ViewRAM
<1>6. View' = ViewOf(page, FirstFree(rec[1]), mc)
  <2>1. /\ CurPos(Up', short', hdr', rec', pos') = FirstFree(rec'[1])
        /\ CurMc(Up', short', hdr', mc') = mc
    BY <1>1, <1>2, <1>4 DEF CurPos, CurMc
  <2> QED BY <1>1, <2>1, ViewIs
<1>7. CASE pos < N
  <2>1. NextPos(pos) = pos + 1 /\ pos + 1 \in Phys
    BY <1>3, <1>7, WLAssumption DEF NextPos, Phys
  <2>2. AtPos(rec[1], pos + 1) /\ rec[1] \in SUBSET Phys
    BY <1>3, WLAssumption DEF AtPos, Phys, TypeOK
  <2>3. FirstFree(rec[1]) = pos + 1
    BY <2>1, <2>2, FirstFreeAtPos
  <2>4. ViewOf(page, pos + 1, mc) = ViewOf(page, pos, mc)
    BY <1>3, <1>7, <2>1, ViewMove
  <2> QED BY <1>5, <1>6, <2>3, <2>4
<1>8. CASE ~(pos < N)
  <2>1. pos = N
    BY <1>3, <1>8, WLAssumption DEF Phys
  <2>2. AtPos(rec[1], N) /\ rec[1] \in SUBSET Phys /\ N \in Phys
    BY <1>3, <2>1, WLAssumption DEF AtPos, Phys
  <2>3. FirstFree(rec[1]) = N
    BY <2>2, FirstFreeAtPos
  <2> QED BY <1>5, <1>6, <2>1, <2>3
<1> QED BY <1>7, <1>8

\* Power lost during a wrap: init will find the position before the wrap
\* under the old move count, or the one after it under the new.
LEMMA WrapFails ==
    ASSUME TypeOK, CoreInv, TwiceInv, PowerLoss, fault' = FALSE, pc \in Wrapping
    PROVE  View' = View
<1>1. short = FALSE /\ short' = FALSE /\ rec' = rec /\ pc' = "off" /\ page' = page /\ InFlight
  <2>1. Target = {}
    BY DEF Target, Wrapping
  <2> QED BY <2>1 DEF PowerLoss, InFlight, TypeOK
<1>2. Up /\ Up' = FALSE
  BY <1>1 DEF Up, Mounting, Wrapping
<1>3. View = ViewOf(page, 0, mc)
  <2>1. pos = 0
    BY DEF CoreInv, WrapInv, Wrapping
  <2> QED BY <1>2, <2>1, ViewRAM
<1>4. CASE pc \in {"wr_e1", "wr_w1"}
  <2>1. ViewOf(page, 0, mc) = ViewOf(page, N, hdr[2])
    BY <1>4, ViewWrap DEF TwiceInv
  <2>2. CASE pc = "wr_e1"
    <3>1. hdr' = hdr /\ hdr[1] >= 0 /\ hdr[1] = hdr[2] /\ rec[1] = Phys
      BY <1>1, <2>2 DEF InFlight, CoreInv, WrapInv, HdrOK
    <3>2. FirstFree(Phys) = N
      BY DEF FirstFree
    <3>3. CurPos(Up', short', hdr', rec', pos') = N /\ CurMc(Up', short', hdr', mc') = hdr[2]
      BY <1>1, <1>2, <3>1, <3>2 DEF CurPos, CurMc
    <3> QED BY <1>1, <1>3, <2>1, <3>3, ViewIs
  <2>3. CASE pc = "wr_w1"
    <3>1. ~(hdr'[1] >= 0) /\ hdr'[2] = hdr[2] /\ hdr[2] >= 0
      BY <1>1, <2>3 DEF InFlight, CoreInv, WrapInv, HdrOK, TornHdr, TypeOK
    <3>2. CurPos(Up', short', hdr', rec', pos') = N /\ CurMc(Up', short', hdr', mc') = hdr[2]
      BY <1>1, <1>2, <3>1 DEF CurPos, CurMc
    <3> QED BY <1>1, <1>3, <2>1, <3>2, ViewIs
  <2> QED BY <1>4, <2>2, <2>3
<1>5. CASE pc \in {"wr_e2", "wr_w2"}
  <2>1. hdr' = hdr /\ hdr[1] = mc /\ rec[1] = {}
    BY <1>1, <1>5 DEF InFlight, CoreInv, WrapInv
  <2>2. hdr'[1] >= 0 /\ hdr'[1] = mc /\ rec'[1] = {}
    BY <1>1, <2>1, WLAssumption DEF TypeOK, User
  <2>3. CurPos(Up', short', hdr', rec', pos') = 0 /\ CurMc(Up', short', hdr', mc') = mc
    BY <1>1, <1>2, <2>2, EmptyRecords DEF CurPos, CurMc
  <2> QED BY <1>1, <1>3, <2>3, ViewIs
<1> QED BY <1>4, <1>5 DEF Wrapping

\* A failure costs at most pages the call under way had still to change.
LEMMA FailureAborts ==
    ASSUME TypeOK, TypeOK', CoreInv, CallInv, TwiceInv, PowerLoss \/ FlashError,
           fault = FALSE, fault' = FALSE
    PROVE  Store!Abort
<1>0. fault' = fault
  OBVIOUS
<1>1. op'.kind = "none"
  <2>1. op' = NoOp
    BY DEF PowerLoss, FlashError
  <2> QED BY <2>1 DEF NoOp
<1>2. Remaining' = {}
  BY <1>1 DEF Remaining
<1>3. View' \in [User -> Content]
  BY StoreTypedNext DEF StoreType
<1>4. \A a \in User : View'[a] = View[a] \/ (a \in Remaining /\ View'[a] = Junk)
  <2>1. CASE pc \in Mounting
    BY <2>1, MountFails
  <2>2. CASE pc = "mv_rec2" \/ pc \in Wrapping
    <3>1. PowerLoss
      BY <2>2 DEF FlashError
    <3> QED BY <2>2, <3>1, RecordFails, WrapFails
  <2>3. CASE pc \in Steady /\ pc # "mv_rec2"
    <3>1. Up
      BY <2>3 DEF Up, Steady, Moving, Mounting
    <3>2. View = ViewOf(page, pos, mc)
      BY <3>1, ViewRAM
    <3>3. View' = ViewOf(page', pos, mc)
      <4>1. CASE pc' = "off"
        BY <2>3, <4>1, SteadyFails
      <4>2. CASE pc' # "off"
        <5>1. pc' = "ready" /\ pos' = pos /\ mc' = mc
          BY <4>2 DEF PowerLoss, FlashError
        <5>2. Up'
          BY <5>1 DEF Up, Mounting
        <5> QED BY <5>1, <5>2, ViewRAM
      <4> QED BY <4>1, <4>2
    <3>4. InFlight
      BY DEF PowerLoss, FlashError
    <3>5. CASE pc \in {"mv_erase", "mv_copy", "erase", "write"}
      BY <3>2, <3>3, <3>4, <3>5, TargetOnly
    <3>6. CASE pc \notin {"mv_erase", "mv_copy", "erase", "write"}
      <4>1. Target = {}
        BY <3>6 DEF Target
      <4>2. page' = page
        BY <3>4, <4>1 DEF InFlight, TypeOK
      <4> QED BY <3>2, <3>3, <4>2
    <3> QED BY <3>5, <3>6
  <2>4. pc # "off"
    BY DEF PowerLoss, FlashError, Mounting, Moving, Wrapping
  <2> QED BY <2>1, <2>2, <2>3, <2>4 DEF TypeOK, PCs, Steady
<1> QED
  BY <1>0, <1>1, <1>2, <1>3, <1>4 DEF Store!Abort

\* Every step of the layer is a step of the array of pages, or is not seen.
LEMMA StepSeen ==
    ASSUME FullInv, FullInv', [Next]_vars
    PROVE  [Store!Next]_(Store!vars)
<1>0. TypeOK /\ TypeOK' /\ CallInv
  BY DEF FullInv, IInv
<1>1. CASE fault' = TRUE
  <2>1. Store!Break
    BY <1>0, <1>1, StoreTypedNext DEF StoreType, Store!Break
  <2> QED BY <2>1 DEF Store!Next
<1>2. CASE fault' # TRUE
  <2>1. fault' = FALSE
    BY <1>0, <1>2 DEF TypeOK
  <2>2. fault = FALSE
    BY <1>0, <2>1 DEF TypeOK, Next, Normal, Step, vars, ReadError, MountBlind, Mount, EraseRange, Write, Unmount, FmtErase,
       FmtWrite, FmtConfig, Redo2Erase, Redo2Write, Redo2Rec, Redo2Done, Redo1Erase, Redo1Write,
       Redo1Rec, Redo1Done, UpdateWL, MoveErase, MoveCopy, MoveRec1, MoveRec2, WrapErase1,
       WrapWrite1, WrapErase2, WrapWrite2, ErasePage, WritePage, PowerLoss, FlashError, ghosts
  <2>3. CoreInv /\ TwiceInv
    BY <2>2 DEF FullInv, IInv
  <2>4. CASE UNCHANGED vars
    <3>1. Same
      BY <2>4, ViewIs DEF vars, Same, Up
    <3> QED BY <3>1, SameStutters
  <2>5. CASE Mount \/ ReadError
    <3>1. PICK h : InitFrom(h) /\ Told(h)
      BY <1>0, <2>1, <2>5, ReadErrorTold DEF Mount, Told
    <3> QED BY <1>0, <2>1, <2>2, <2>3, <3>1, MountSame, SameStutters
  <2>6. CASE (\E a, b \in User : EraseRange(a, b)) \/ (\E a, b \in User, d \in Data : Write(a, b, d))
    BY <1>0, <2>6, CallBegins DEF Store!Next
  <2>7. CASE ErasePage \/ WritePage
    BY <1>0, <2>7, PageFinishes DEF Store!Next
  <2>8. CASE PowerLoss \/ FlashError
    BY <1>0, <2>1, <2>2, <2>3, <2>8, FailureAborts DEF Store!Next
  <2>9. CASE (\E c \in {1, 2} : FmtErase(c) \/ FmtWrite(c)) \/ FmtConfig
    BY <1>0, <2>3, <2>9, FmtSame, SameStutters
  <2>10. CASE Redo2Erase \/ Redo2Write \/ Redo2Rec \/ Redo2Done
    BY <1>0, <2>3, <2>10, Redo2Same, SameStutters
  <2>11. CASE Redo1Erase \/ Redo1Write \/ Redo1Rec \/ Redo1Done
    BY <1>0, <2>3, <2>11, Redo1Same, SameStutters
  <2>12. CASE \/ Unmount \/ UpdateWL \/ MoveErase \/ MoveCopy \/ MoveRec1 \/ MoveRec2
              \/ WrapErase1 \/ WrapWrite1 \/ WrapErase2 \/ WrapWrite2
    <3>1. View' = View
      <4>1. CASE Unmount
        <5>1. Up /\ Up' /\ page' = page /\ pos' = pos /\ mc' = mc
          BY <4>1 DEF Unmount, Up, Mounting, flashVars
        <5> QED BY <5>1, ViewRAM
      <4> QED
        BY <1>0, <2>3, <2>12, <4>1, UpdateSame, MoveRec2Same, WrapSame
    <3>2. op' = op \/ (op.kind \in {"none", "flush"} /\ op'.kind \in {"none", "flush"})
      BY <1>0, <2>12 DEF Unmount, UpdateWL, MoveErase, MoveCopy, MoveRec1, MoveRec2, WrapErase1,
         WrapWrite1, WrapErase2, WrapWrite2, AfterUpdate, NoOp, CallInv
    <3>3. Remaining' = Remaining
      BY <3>2 DEF Remaining
    <3> QED
      BY <2>1, <2>2, <3>1, <3>2, <3>3 DEF Store!vars
  <2> QED
    BY <2>4, <2>5, <2>6, <2>7, <2>8, <2>9, <2>10, <2>11, <2>12 DEF Next, Normal, Step
<1> QED BY <1>1, <1>2

\* The wear levelling layer implements a plain array of pages: the user of
\* wl_erase_range and wl_write cannot tell that pages move, that the state is
\* kept twice, or that init repaired a copy; a failure the code recovers from
\* costs at most pages of the call it interrupted.
THEOREM ImplementsArray == Spec => ImplementsStore
<1>1. Init => Store!Init
  BY StoreInit
<1>2. FullInv /\ FullInv' /\ [Next]_vars => [Store!Next]_(Store!vars)
  BY StepSeen
<1> QED
  BY <1>1, <1>2, FullInductive, PTL DEF Spec, ImplementsStore, Store!Spec
==============================================================================
