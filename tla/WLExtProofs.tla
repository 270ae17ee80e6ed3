----------------------------- MODULE WLExtProofs -----------------------------
(***************************************************************************)
(* Proofs about WLExt, for any number of flash sectors and any number of   *)
(* small sectors in each.                                                  *)
(***************************************************************************)
EXTENDS WLExt, TLAPS

(***************************************************************************)
(* Numbers of small sectors.                                               *)
(***************************************************************************)
LEMMA Sizes == B \in Nat /\ F \in Nat /\ B > 0 /\ F > 0
BY ExtAssumption

\* A sector further on begins at least a sector's length later.
LEMMA Further ==
    ASSUME NEW a \in Int, NEW b \in Int, a < b
    PROVE  a * F + F <= b * F
<1> DEFINE d == b - a - 1
<1>1. d \in Nat /\ b = a + 1 + d
  OBVIOUS
<1>2. d * F >= 0
  <2> HIDE DEF d
  <2> QED BY <1>1, Sizes
<1>3. b * F = a * F + F + d * F
  <2> HIDE DEF d
  <2> QED BY <1>1, Sizes
<1> QED
  BY <1>1, <1>2, <1>3, Sizes

\* Quotient and remainder, as erase_range computes them.
LEMMA DivMod ==
    ASSUME NEW x \in Nat
    PROVE  /\ x \div F \in Nat /\ x % F \in 0 .. F - 1
           /\ x = (x \div F) * F + (x % F)
BY Sizes

\* They are the only ones.
LEMMA DivUnique ==
    ASSUME NEW q \in Nat, NEW r \in 0 .. F - 1
    PROVE  (q * F + r) \div F = q /\ (q * F + r) % F = r
<1> DEFINE x == q * F + r
           p == x \div F
           s == x % F
<1>1. x \in Nat
  <2>1. q * F \in Nat
    BY Sizes
  <2> QED BY <2>1
<1>2. p \in Nat /\ s \in 0 .. F - 1 /\ x = p * F + s
  <2> HIDE DEF x
  <2> QED BY <1>1, DivMod
<1>3. x = q * F + r
  OBVIOUS
<1> HIDE DEF x, p, s
<1>4. ~(p < q)
  <2> SUFFICES ASSUME p < q PROVE FALSE
    OBVIOUS
  <2>1. p * F + F <= q * F
    BY <1>2, Further
  <2> QED BY <1>2, <1>3, <2>1, Sizes
<1>5. ~(q < p)
  <2> SUFFICES ASSUME q < p PROVE FALSE
    OBVIOUS
  <2>1. q * F + F <= p * F
    BY <1>2, Further
  <2> QED BY <1>2, <1>3, <2>1, Sizes
<1>6. p = q /\ s = r
  BY <1>2, <1>3, <1>4, <1>5, Sizes
<1> QED
  BY <1>6 DEF x, p, s

(***************************************************************************)
(* The pieces erase_range cuts a range into.                               *)
(***************************************************************************)

\* Three sequences one after the other.
LEMMA Joined ==
    ASSUME NEW X, NEW a \in Seq(X), NEW m \in Seq(X), NEW c \in Seq(X), NEW s, s = a \o m \o c
    PROVE  /\ s \in Seq(X)
           /\ Len(s) = Len(a) + Len(m) + Len(c)
           /\ \A k \in 1 .. Len(s) :
                 s[k] = IF k <= Len(a) THEN a[k]
                        ELSE IF k <= Len(a) + Len(m) THEN m[k - Len(a)]
                        ELSE c[k - Len(a) - Len(m)]
<1> DEFINE am == a \o m
           After(x, y, z) == /\ z \in Seq(X) /\ Len(z) = Len(x) + Len(y)
                             /\ \A k \in 1 .. Len(z) : z[k] = IF k <= Len(x) THEN x[k] ELSE y[k - Len(x)]
<1>0. \A x \in Seq(X), y \in Seq(X) : After(x, y, x \o y)
  OBVIOUS
<1>1. /\ am \in Seq(X) /\ Len(am) = Len(a) + Len(m)
      /\ \A k \in 1 .. Len(am) : am[k] = IF k <= Len(a) THEN a[k] ELSE m[k - Len(a)]
  OBVIOUS
<1>2. s = am \o c
  OBVIOUS
<1> HIDE DEF am
<1>3. /\ s \in Seq(X) /\ Len(s) = Len(am) + Len(c)
      /\ \A k \in 1 .. Len(s) : s[k] = IF k <= Len(am) THEN am[k] ELSE c[k - Len(am)]
  <2>1. After(am, c, s)
    <3> HIDE DEF After
    <3> QED BY <1>0, <1>1, <1>2, Zenon
  <2> QED BY <2>1
<1>4. ASSUME NEW k \in 1 .. Len(s)
      PROVE  s[k] = IF k <= Len(a) THEN a[k]
                    ELSE IF k <= Len(a) + Len(m) THEN m[k - Len(a)]
                    ELSE c[k - Len(a) - Len(m)]
  <2>1. Len(a) \in Nat /\ Len(m) \in Nat /\ Len(c) \in Nat
    OBVIOUS
  <2>2. CASE k <= Len(am)
    <3>1. k \in 1 .. Len(am) BY <2>1, <2>2, <1>1
    <3> QED BY <2>1, <2>2, <3>1, <1>1, <1>3
  <2>3. CASE ~(k <= Len(am))
    <3>1. k - Len(am) = k - Len(a) - Len(m) /\ ~(k <= Len(a)) BY <2>1, <2>3, <1>1
    <3> QED BY <2>1, <2>3, <3>1, <1>1, <1>3
  <2> QED BY <2>2, <2>3
<1> QED
  BY <1>1, <1>3, <1>4

\* A transaction erases the parts from off on, cnt of them.
LEMMA ErasesRange ==
    ASSUME NEW t \in Tx
    PROVE  Erases(t) = {i \in Part : t.off <= i /\ i < t.off + t.cnt}
BY Sizes DEF Erases, Kept, Part, Tx

\* What the pieces are: one for each flash sector the range reaches, in order,
\* and each erases what the range has of its sector.
Cut(first, n, s) ==
    LET q == first \div F
    IN  /\ s \in Seq(Tx) /\ s # <<>>
        /\ first + n <= (q + Len(s)) * F
        /\ \A k \in 1 .. Len(s) :
              /\ s[k].base = q + k - 1
              /\ s[k].cnt > 0 /\ s[k].off + s[k].cnt <= F
              /\ Erases(s[k]) = {i \in Part : Number(s[k].base, i) \in first .. first + n - 1}

\* One piece: what it erases is the range's share of the sector.
LEMMA PieceShare ==
    ASSUME NEW first \in Nat, NEW n \in Nat, NEW b \in Flash, NEW off \in Part, NEW cnt \in 1 .. F,
           off + cnt <= F,
           first <= b * F + off, b * F + off + cnt <= first + n,
           off > 0 => first = b * F + off,
           off + cnt < F => first + n = b * F + off + cnt
    PROVE  LET t == [base |-> b, off |-> off, cnt |-> cnt]
           IN  /\ t \in Tx
               /\ Erases(t) = {i \in Part : Number(t.base, i) \in first .. first + n - 1}
<1> DEFINE t == [base |-> b, off |-> off, cnt |-> cnt]
<1>1. t \in Tx
  BY Sizes DEF Tx, Part
<1>2. b * F \in Nat
  BY Sizes DEF Flash
<1>3. ASSUME NEW i \in Part
      PROVE  (off <= i /\ i < off + cnt) <=> b * F + i \in first .. first + n - 1
  <2> DEFINE z == b * F
  <2>1. z \in Nat BY <1>2
  <2> HIDE DEF z
  <2>2. /\ first <= z + off /\ z + off + cnt <= first + n
        /\ off > 0 => first = z + off
        /\ off + cnt < F => first + n = z + off + cnt
    BY DEF z
  <2>3. (off <= i /\ i < off + cnt) <=> z + i \in first .. first + n - 1
    BY <2>1, <2>2, Sizes DEF Part
  <2> QED BY <2>3 DEF z
<1> QED
  BY <1>1, <1>3, ErasesRange DEF Number

\* A range that reaches the end of its first sector: the part of that sector,
\* unless it is whole, the whole sectors, and the part of the last one.
Line(q, s, la, m, post) ==
    (IF la = 1 THEN <<[base |-> q, off |-> s, cnt |-> F - s]>> ELSE <<>>)
    \o [k \in 1 .. m |-> [base |-> q + la + k - 1, off |-> 0, cnt |-> F]]
    \o (IF post > 0 THEN <<[base |-> q + la + m, off |-> 0, cnt |-> post]>> ELSE <<>>)

LEMMA Stretch ==
    ASSUME NEW q \in Nat, NEW s \in Part, NEW la \in {0, 1}, NEW m \in Nat, NEW post \in Part,
           NEW first \in Nat, NEW n \in Nat \ {0}, first + n <= B * F,
           first = q * F + s, first + n = (q + la + m) * F + post,
           la = 0 => s = 0 /\ m > 0
    PROVE  Cut(first, n, Line(q, s, la, m, post))
<1> DEFINE lc == IF post > 0 THEN 1 ELSE 0
           Share(t) == {i \in Part : Number(t.base, i) \in first .. first + n - 1}
           Fine(t, b) == /\ t \in Tx /\ t.base = b /\ t.cnt > 0 /\ t.off + t.cnt <= F
                         /\ Erases(t) = Share(t)
           hd == [base |-> q, off |-> s, cnt |-> F - s]
           mid(k) == [base |-> q + la + k - 1, off |-> 0, cnt |-> F]
           tl == [base |-> q + la + m, off |-> 0, cnt |-> post]
<1>1. /\ q * F \in Nat /\ (q + 1) * F = q * F + F
      /\ (q + la + m) * F \in Nat /\ (q + la + m + 1) * F = (q + la + m) * F + F
      /\ B * F \in Nat
  <2> DEFINE u == q + la + m
  <2>1. u \in Nat OBVIOUS
  <2>2. \A x \in Nat : x * F \in Nat /\ (x + 1) * F = x * F + F
    BY Sizes
  <2> HIDE DEF u
  <2>3. u * F \in Nat /\ (u + 1) * F = u * F + F
    BY <2>1, <2>2
  <2> QED BY <2>2, <2>3, Sizes DEF u
<1>2. ASSUME NEW b \in Nat, b * F < B * F PROVE b \in Flash
  <2>1. ~(B < b)
    <3> SUFFICES ASSUME B < b PROVE FALSE OBVIOUS
    <3>1. B * F + F <= b * F BY Further, Sizes
    <3>2. b * F \in Nat BY Sizes
    <3> QED BY <3>1, <3>2, <1>1, <1>2, Sizes
  <2>2. b # B
    BY <1>2, <1>1
  <2> QED BY <2>1, <2>2, Sizes DEF Flash
<1>3. la = 1 => Fine(hd, q)
  <2> SUFFICES ASSUME la = 1 PROVE Fine(hd, q)
    OBVIOUS
  <2>1. (q + 1) * F <= (q + la + m) * F
    <3>1. CASE m = 0
      <4>1. q + la + m = q + 1 BY <3>1
      <4> QED BY <4>1, <1>1
    <3>2. CASE m > 0
      <4>1. (q + 1) * F + F <= (q + la + m) * F BY <3>2, Further
      <4>2. (q + 1) * F \in Nat BY <1>1, Sizes
      <4> QED BY <4>1, <4>2, <1>1, Sizes
    <3> QED BY <3>1, <3>2
  <2>2. q \in Flash
    <3>1. q * F < B * F BY <1>1, Sizes DEF Part
    <3> QED BY <3>1, <1>2
  <2>3. hd \in Tx /\ Erases(hd) = Share(hd)
    <3> HIDE DEF hd
    <3>1. F - s \in 1 .. F /\ s + (F - s) <= F /\ ~(s + (F - s) < F)
      BY Sizes DEF Part
    <3>2. first <= q * F + s /\ q * F + s + (F - s) <= first + n /\ (s > 0 => first = q * F + s)
      BY <1>1, <2>1, Sizes DEF Part
    <3> QED BY <2>2, <3>1, <3>2, PieceShare DEF hd
  <2> QED BY <2>3, Sizes DEF Part
<1>4. ASSUME NEW k \in 1 .. m PROVE Fine(mid(k), q + la + k - 1)
  <2> DEFINE b == q + la + k - 1
  <2>1. b \in Nat /\ b < q + la + m OBVIOUS
  <2>2. b * F + F <= (q + la + m) * F /\ b * F \in Nat
    <3> HIDE DEF b
    <3> QED BY <2>1, Further, Sizes
  <2>3. first <= b * F
    <3>1. CASE b = q
      <4>1. la = 0 /\ k = 1 BY <3>1
      <4> QED BY <3>1, <4>1, <1>1
    <3>2. CASE q < b
      <4> HIDE DEF b
      <4>1. q * F + F <= b * F BY <3>2, <2>1, Further
      <4> QED BY <4>1, <2>2, <1>1, Sizes DEF Part
    <3> QED BY <3>1, <3>2
  <2> HIDE DEF b
  <2>4. b \in Flash
    BY <2>1, <2>2, <1>1, <1>2, Sizes DEF Part
  <2>5. LET t == [base |-> b, off |-> 0, cnt |-> F] IN t \in Tx /\ Erases(t) = Share(t)
    <3>1. 0 \in Part /\ F \in 1 .. F /\ 0 + F <= F /\ ~(0 > 0) /\ ~(0 + F < F)
      BY Sizes DEF Part
    <3>2. first <= b * F + 0 /\ b * F + 0 + F <= first + n
      BY <2>2, <2>3, <1>1, Sizes DEF Part
    <3> QED BY <2>4, <3>1, <3>2, PieceShare
  <2> QED BY <2>5, Sizes DEF b
<1>5. post > 0 => Fine(tl, q + la + m)
  <2> SUFFICES ASSUME post > 0 PROVE Fine(tl, q + la + m)
    OBVIOUS
  <2> DEFINE b == q + la + m
  <2>1. b \in Nat OBVIOUS
  <2>2. first <= b * F
    <3>1. CASE b = q
      BY <3>1
    <3>2. CASE q < b
      <4> HIDE DEF b
      <4>1. q * F + F <= b * F BY <3>2, <2>1, Further
      <4>2. b * F \in Nat BY <2>1, Sizes
      <4> QED BY <4>1, <4>2, <1>1, Sizes DEF Part
    <3> QED BY <3>1, <3>2
  <2>3. first + n = b * F + post /\ b * F \in Nat
    BY <1>1
  <2> HIDE DEF b
  <2>4. b \in Flash
    BY <2>1, <2>3, <1>1, <1>2, Sizes DEF Part
  <2>5. LET t == [base |-> b, off |-> 0, cnt |-> post] IN t \in Tx /\ Erases(t) = Share(t)
    <3>1. /\ 0 \in Part /\ post \in 1 .. F /\ 0 + post <= F /\ ~(0 > 0)
          /\ first <= b * F + 0 /\ b * F + 0 + post <= first + n /\ first + n = b * F + 0 + post
      BY <2>2, <2>3, <1>1, Sizes DEF Part
    <3> QED BY <2>4, <3>1, PieceShare
  <2> QED BY <2>5, Sizes DEF b, Part
<1> DEFINE A == IF la = 1 THEN <<hd>> ELSE <<>>
           M == [k \in 1 .. m |-> mid(k)]
           C == IF post > 0 THEN <<tl>> ELSE <<>>
           S == A \o M \o C
<1>6. A \in Seq(Tx) /\ Len(A) = la /\ (la = 1 => A[1] = hd)
  <2> HIDE DEF hd
  <2> QED BY <1>3
<1>7. M \in Seq(Tx) /\ Len(M) = m /\ \A k \in 1 .. m : M[k] = mid(k)
  <2>1. \A k \in 1 .. m : mid(k) \in Tx BY <1>4
  <2> HIDE DEF mid
  <2> QED BY <2>1
<1>8. C \in Seq(Tx) /\ Len(C) = lc /\ (post > 0 => C[1] = tl)
  <2> HIDE DEF tl
  <2> QED BY <1>5 DEF Part
<1> HIDE DEF A, M, C
<1>9. /\ S \in Seq(Tx) /\ Len(S) = la + m + lc
      /\ \A k \in 1 .. Len(S) : S[k] = IF k <= la THEN A[k] ELSE IF k <= la + m THEN M[k - la]
                                        ELSE C[k - la - m]
  <2>1. A \in Seq(Tx) /\ M \in Seq(Tx) /\ C \in Seq(Tx)
    BY <1>6, <1>7, <1>8
  <2>2. /\ S \in Seq(Tx) /\ Len(S) = Len(A) + Len(M) + Len(C)
        /\ \A k \in 1 .. Len(S) : S[k] = IF k <= Len(A) THEN A[k]
                                          ELSE IF k <= Len(A) + Len(M) THEN M[k - Len(A)]
                                          ELSE C[k - Len(A) - Len(M)]
    <3>1. S = A \o M \o C OBVIOUS
    <3> HIDE DEF S
    <3> QED BY <2>1, <3>1, Joined
  <2>3. Len(A) = la /\ Len(M) = m /\ Len(C) = lc
    BY <1>6, <1>7, <1>8
  <2> HIDE DEF S, lc
  <2> QED BY <2>2, <2>3, Zenon
<1> HIDE DEF S
<1>10. ASSUME NEW k \in 1 .. Len(S) PROVE Fine(S[k], q + k - 1)
  <2>1. CASE k <= la
    <3>1. k = 1 /\ la = 1 /\ q + k - 1 = q BY <2>1
    <3>2. S[k] = hd
      <4>1. S[k] = A[k] BY <2>1, <1>9, Zenon
      <4> QED BY <3>1, <4>1, <1>6, Zenon
    <3> HIDE DEF hd, Fine
    <3> QED BY <3>1, <3>2, <1>3
  <2>2. CASE k > la /\ k <= la + m
    <3>1. k - la \in 1 .. m BY <2>2
    <3>2. S[k] = mid(k - la) BY <3>1, <2>2, <1>7, <1>9
    <3>3. q + la + (k - la) - 1 = q + k - 1 OBVIOUS
    <3> HIDE DEF mid, Fine
    <3> QED BY <3>1, <3>2, <3>3, <1>4
  <2>3. CASE k > la + m
    <3>1. k - la - m = 1 /\ post > 0 /\ k = la + m + 1 BY <2>3, <1>9 DEF Part
    <3>2. S[k] = tl BY <3>1, <2>3, <1>8, <1>9
    <3>3. q + k - 1 = q + la + m BY <3>1
    <3> HIDE DEF tl, Fine
    <3> QED BY <3>1, <3>2, <3>3, <1>5
  <2> QED BY <2>1, <2>2, <2>3, <1>9
<1>11. first \div F = q
  BY DivUnique DEF Part
<1>12. S # <<>>
  <2>1. la + m + lc > 0
    BY Sizes DEF Part
  <2> QED BY <2>1, <1>9
<1>13. first + n <= (q + Len(S)) * F
  <2>1. CASE post > 0
    <3>1. q + Len(S) = q + la + m + 1 BY <2>1, <1>9
    <3> QED BY <3>1, <1>1, Sizes DEF Part
  <2>2. CASE post = 0
    <3>1. q + Len(S) = q + la + m BY <2>2, <1>9
    <3> QED BY <3>1, <2>2, <1>1
  <2> QED BY <2>1, <2>2 DEF Part
<1>14. Cut(first, n, S)
  <2> QED BY <1>9, <1>10, <1>11, <1>12, <1>13 DEF Cut
<1> QED
  BY <1>14 DEF S, A, M, C, Line

\* erase_range cuts its range into such pieces, wherever the range begins and
\* ends.
LEMMA PiecesCut ==
    ASSUME NEW first \in Nat, NEW n \in Nat \ {0}, first + n <= B * F
    PROVE  Cut(first, n, Pieces(first, n))
<1> DEFINE q == first \div F
           s == first % F
<1>1. q \in Nat /\ s \in Part /\ first = q * F + s
  BY DivMod DEF Part
<1>2. q * F \in Nat /\ (q + 1) * F = q * F + F
  <2> HIDE DEF q
  <2> QED BY <1>1, Sizes
<1>3. CASE F - s > n
  <2> DEFINE hd == [base |-> q, off |-> s, cnt |-> n]
  <2>1. Pieces(first, n) = <<hd>>
    <3>1. 0 % F = 0 /\ 0 \div F = 0
      BY Sizes
    <3>2. n - n = 0 /\ n - n - 0 = 0 /\ n > 0 /\ ~(0 > 0) /\ ~(s = 0 /\ n = F)
      BY <1>1, <1>3, Sizes DEF Part
    <3>3. Pieces(first, n) = <<hd>> \o [k \in 1 .. 0 |-> [base |-> (first + n) \div F + k - 1, off |-> 0, cnt |-> F]] \o <<>>
      BY <1>3, <3>1, <3>2 DEF Pieces, Piece
    <3>4. \A x : <<x>> \o [k \in 1 .. 0 |-> [base |-> (first + n) \div F + k - 1, off |-> 0, cnt |-> F]] \o <<>> = <<x>>
      OBVIOUS
    <3> QED BY <3>3, <3>4
  <2>2. q \in Flash
    <3> HIDE DEF q, s
    <3>1. ~(B < q)
      <4> SUFFICES ASSUME B < q PROVE FALSE OBVIOUS
      <4>1. B * F + F <= q * F BY <1>1, Further, Sizes
      <4>2. B * F \in Nat BY Sizes
      <4> QED BY <4>1, <4>2, <1>1, <1>2, Sizes DEF Part
    <3>2. q # B
      BY <1>1, <1>2 DEF Part
    <3> QED BY <3>1, <3>2, <1>1, Sizes DEF Flash
  <2>3. hd \in Tx /\ Erases(hd) = {i \in Part : Number(hd.base, i) \in first .. first + n - 1}
    <3> HIDE DEF q, s
    <3>1. /\ n \in 1 .. F /\ s + n <= F
          /\ first <= q * F + s /\ q * F + s + n <= first + n /\ first = q * F + s
          /\ first + n = q * F + s + n
      BY <1>1, <1>2, <1>3, Sizes DEF Part
    <3> QED BY <1>1, <2>2, <3>1, PieceShare
  <2>4. first + n <= (q + 1) * F
    <3> HIDE DEF q, s
    <3> QED BY <1>1, <1>2, <1>3, Sizes DEF Part
  <2>5. hd.base = q + 1 - 1 /\ hd.cnt > 0 /\ hd.off + hd.cnt <= F
    <3> HIDE DEF q, s
    <3> QED BY <1>1, <1>3, Sizes DEF Part
  <2> HIDE DEF hd
  <2>6. <<hd>> \in Seq(Tx) /\ <<hd>> # <<>> /\ Len(<<hd>>) = 1 /\ <<hd>>[1] = hd
    BY <2>3
  <2>7. ASSUME NEW k \in 1 .. 1 PROVE k = 1 OBVIOUS
  <2>8. Cut(first, n, <<hd>>)
    <3> HIDE DEF s
    <3> QED BY <2>3, <2>4, <2>5, <2>6, <2>7 DEF Cut
  <2> QED BY <2>1, <2>8
<1>4. CASE ~(F - s > n)
  <2> DEFINE r == n - (F - s)
             m == r \div F
             post == r % F
             whole == s = 0 /\ F - s = F
             la == IF whole THEN 0 ELSE 1
             pre == IF whole THEN 0 ELSE F - s
             mm == IF whole THEN m + 1 ELSE m
  <2>1. r \in Nat
    BY <1>1, <1>4, Sizes DEF Part
  <2>2. m \in Nat /\ post \in Part /\ r = m * F + post
    <3> HIDE DEF r
    <3> QED BY <2>1, DivMod DEF Part
  <2>3. mm \in Nat /\ la \in {0, 1} /\ (la = 0 => s = 0 /\ mm > 0)
    <3> HIDE DEF m
    <3> QED BY <2>2
  <2>4. m * F \in Nat /\ (m + 1) * F = m * F + F /\ mm * F \in Nat
    <3> HIDE DEF m
    <3> QED BY <2>2, Sizes
  <2>5. n - pre - post = mm * F
    <3> HIDE DEF q, s, m, post
    <3> QED BY <1>1, <2>2, <2>4, Sizes DEF Part
  <2>6. first + pre = (q + la) * F
    <3> HIDE DEF q, s
    <3> QED BY <1>1, <1>2, Sizes DEF Part
  <2>7. (q + la + mm) * F = (q + la) * F + mm * F /\ (q + la) * F \in Nat
    <3> DEFINE u == q + la
    <3>1. u \in Nat BY <1>1, <2>3
    <3> HIDE DEF u, mm
    <3> QED BY <3>1, <2>3, Sizes DEF u
  <2>8. /\ (n - pre - post) \div F = mm /\ (first + pre) \div F = q + la
        /\ (first + n - post) \div F = q + la + mm /\ (first + n - post) % F = 0
        /\ first + n = (q + la + mm) * F + post
    <3>1. 0 \in 0 .. F - 1 /\ q + la \in Nat /\ q + la + mm \in Nat
      BY <1>1, <2>3, Sizes
    <3>2. first + n - post = (q + la + mm) * F
      <4>1. pre \in Nat BY <1>1, Sizes DEF Part
      <4> HIDE DEF pre, la, mm, m, post, q, s
      <4> QED BY <2>2, <2>5, <2>6, <2>7, <4>1, <3>1 DEF Part
    <3> HIDE DEF pre, la, mm, post, q, s
    <3>3. \A u \in Nat : (u * F) \div F = u /\ (u * F) % F = 0
      <4> TAKE u \in Nat
      <4>1. u * F + 0 = u * F BY Sizes
      <4> QED BY <4>1, <3>1, DivUnique
    <3>4. first + n = (q + la + mm) * F + post
      BY <3>2, <2>2, <2>7, <2>4 DEF Part
    <3> QED BY <2>3, <2>5, <2>6, <3>1, <3>2, <3>3, <3>4
  <2>9. (pre > 0) = (la = 1) /\ (pre > 0 => pre = F - s)
    <3> HIDE DEF s
    <3> QED BY <1>1, Sizes, SMTT(30) DEF Part
  <2>10. Pieces(first, n)
         = (IF pre > 0 THEN <<[base |-> q, off |-> s, cnt |-> pre]>> ELSE <<>>)
           \o [k \in 1 .. (n - pre - post) \div F |->
                 [base |-> (first + pre) \div F + k - 1, off |-> 0, cnt |-> F]]
           \o (IF post > 0 THEN <<[base |-> (first + n - post) \div F,
                                  off |-> (first + n - post) % F, cnt |-> post]>> ELSE <<>>)
    BY <1>4 DEF Pieces, Piece
  <2>11. Pieces(first, n) = Line(q, s, la, mm, post)
    <3> HIDE DEF pre, la, mm, post, q, s
    <3> QED BY <2>8, <2>9, <2>10 DEF Line
  <2> HIDE DEF pre, la, mm, post, q, s
  <2>12. q \in Nat /\ s \in Part /\ first = q * F + s /\ post \in Part
    BY <1>1, <2>2
  <2>13. first + n = (q + la + mm) * F + post
    BY <2>8
  <2>14. Cut(first, n, Line(q, s, la, mm, post))
    BY <2>3, <2>12, <2>13, Stretch
  <2> QED BY <2>11, <2>14
<1> QED
  BY <1>3, <1>4

(***************************************************************************)
(* The inductive invariant.                                                *)
(***************************************************************************)

\* Where erase_range is under way, and where erase_sector_fit is.
Fitting == {"dump_erase", "dump_write", "state_erase", "state_write", "erase", "restore", "clear"}
Ranging == {"piece", "full"} \cup Fitting

\* The pieces still to do are pieces of the range that was asked for, of
\* different flash sectors; the one under way is the first.
Queue ==
    /\ \A k \in 1 .. Len(todo) :
          /\ todo[k].cnt > 0 /\ todo[k].off + todo[k].cnt <= F
          /\ Erases(todo[k]) = {i \in Part : Number(todo[k].base, i) \in asked}
    /\ \A j, k \in 1 .. Len(todo) : j # k => todo[j].base # todo[k].base
    /\ pc \notin Ranging => todo = <<>>
    /\ pc \in Ranging \ {"piece"} => todo # <<>> /\ tx = todo[1]
    /\ pc = "full" => Full(tx)
    /\ pc = "write" => tx.off \in Part
    /\ pc # "write" => val = Erased

\* A sector of the range is erased, or its piece is still to do.
Progress ==
    pc \in Ranging =>
        \A b \in Flash, i \in Part : Number(b, i) \in asked =>
            \/ flash[b][i] = Erased
            \/ \E k \in 1 .. Len(todo) : todo[k].base = b /\ (k = 1 => pc \notin {"restore", "clear"})

\* The parts that have been written back, the erased ones included.
Back(t) == \A i \in Part \ Left(t, idx) :
             flash[t.base][i] = IF i \in Kept(t) THEN buf[i] ELSE Erased

\* Where what the transaction keeps is: in the buffer and the flash, then in
\* the dump too, then in the dump and noted.
Saved ==
    /\ mode = "perf" => st = None /\ pc \notin Recovering \cup (Fitting \ {"erase", "restore"})
    /\ st.sign = "none" => st = None
    /\ st.sign = "torn" => st = Torn
    /\ pc \in Fitting \ {"restore", "clear"} => \A i \in Kept(tx) : buf[i] = flash[tx.base][i]
    /\ pc \in {"state_erase", "state_write"} => dump = buf
    /\ ~fault =>
        /\ st.sign # "torn"
        /\ pc \in {"ready", "piece", "full", "write", "dump_erase", "dump_write",
                   "state_erase", "state_write"} => st = None
        /\ pc \in {"erase", "restore", "clear"} /\ mode = "safe" =>
              st = Noted(tx) /\ \A i \in Kept(tx) : dump[i] = buf[i]
        /\ pc \in Recovering => st = Noted(tx) /\ buf = dump
        /\ pc \in {"restore", "rc_restore", "clear", "rc_clear"} => Back(tx)
        /\ pc \in {"clear", "rc_clear"} => Left(tx, idx) = {}

\* What the user may rely on is there, in the flash or in the dump.
Relied ==
    mode = "safe" /\ ~fault =>
        \A b \in Flash, i \in Part : vol[b][i] # Junk => Replayed(b)[i] = vol[b][i]

IInv == TypeOK /\ Queue /\ Progress /\ Saved /\ Relied

(***************************************************************************)
(* Types.                                                                  *)
(***************************************************************************)
LEMMA Values ==
    /\ NoTx \in Tx /\ None \in State /\ Torn \in State
    /\ \A t \in Tx : Noted(t) \in State
    /\ Blank \in [Part -> Content] /\ Garbage \in [Part -> Content]
    /\ Erased \in Content /\ Junk \in Content /\ Data \subseteq Content
<1>1. NoTx \in Tx
  BY Sizes DEF NoTx, Tx, Flash
<1>2. None \in State /\ Torn \in State /\ \A t \in Tx : Noted(t) \in State
  BY <1>1 DEF None, Torn, Noted, State
<1>3. Erased \in Content /\ Junk \in Content /\ Data \subseteq Content
  BY DEF Content
<1> QED
  BY <1>1, <1>2, <1>3 DEF Blank, Garbage

LEMMA TypeInit == Init => TypeOK
<1> SUFFICES ASSUME Init PROVE TypeOK
  OBVIOUS
<1>1. mode \in {"safe", "perf"}
  BY ExtAssumption DEF Init
<1>2. idx \in 0 .. F /\ asked \subseteq 0 .. B * F - 1
  BY Sizes DEF Init
<1>3. flash \in [Flash -> [Part -> Content]] /\ vol \in [Flash -> [Part -> Content]]
  BY Values DEF Init
<1>4. todo \in Seq(Tx) /\ fault \in BOOLEAN
  <2>1. todo = <<>> /\ fault = FALSE BY DEF Init
  <2>2. <<>> \in Seq(Tx) OBVIOUS
  <2> QED BY <2>1, <2>2, Zenon
<1>5. pc \in {"off", "ready", "piece"} \cup Failing /\ val \in Data \cup {Erased}
  BY DEF Init
<1>6. st \in State /\ tx \in Tx /\ dump \in [Part -> Content] /\ buf \in [Part -> Content]
  BY Values DEF Init
<1> QED
  BY <1>1, <1>2, <1>3, <1>4, <1>5, <1>6 DEF TypeOK

\* A call that is cut short leaves contents behind that a sector can have.
LEMMA InFlightType ==
    ASSUME TypeOK, InFlight
    PROVE  /\ flash' \in [Flash -> [Part -> Content]] /\ vol' \in [Flash -> [Part -> Content]]
           /\ dump' \in [Part -> Content] /\ st' \in State
<1>1. flash' \in [Flash -> [Part -> Content]]
  BY Values, SMTT(30) DEF TypeOK, InFlight
<1>2. vol' \in [Flash -> [Part -> Content]]
  BY Values, SMTT(30) DEF TypeOK, InFlight
<1>3. dump' \in [Part -> Content]
  BY Values DEF TypeOK, InFlight
<1>4. st' \in State
  BY Values DEF TypeOK, InFlight
<1> QED
  BY <1>1, <1>2, <1>3, <1>4

LEMMA TypeStep ==
    ASSUME TypeOK, Queue, [Next]_vars
    PROVE  TypeOK'
<1> USE Values DEF TypeOK, Failing, Recovering
<1>1. CASE UNCHANGED vars
  BY <1>1 DEF vars
<1>2. ASSUME NEW first \in 0 .. B * F - 1, NEW n \in 1 .. B * F, EraseRange(first, n)
      PROVE  TypeOK'
  <2>1. first \in Nat /\ n \in Nat \ {0} /\ first + n <= B * F
    BY <1>2, Sizes DEF EraseRange
  <2>2. Pieces(first, n) \in Seq(Tx)
    BY <2>1, PiecesCut DEF Cut
  <2>3. B * F \in Nat
    BY Sizes
  <2>4. asked' \subseteq 0 .. B * F - 1
    <3> DEFINE z == B * F
    <3> HIDE DEF z
    <3>1. z \in Nat /\ first + n <= z BY <2>1, <2>3 DEF z
    <3>2. asked' \subseteq 0 .. z - 1 BY <1>2, <2>1, <3>1 DEF EraseRange
    <3> QED BY <3>2 DEF z
  <2> QED BY <1>2, <2>2, <2>4 DEF EraseRange
<1>3. ASSUME NEW b \in Flash, NEW i \in Part, NEW d \in Data, Write(b, i, d)
      PROVE  TypeOK'
  <2>1. [base |-> b, off |-> i, cnt |-> 1] \in Tx
    BY Sizes DEF Tx, Part
  <2> QED BY <1>3, <2>1 DEF Write
<1>4. CASE Mount
  <2>1. \A t \in Pending : t \in Tx
    BY Sizes DEF Pending, State, Tx
  <2> QED BY <1>4, <2>1 DEF Mount
<1>5. CASE Unmount
  BY <1>5, Sizes DEF Unmount, Reset, Return
<1>6. CASE PowerLoss
  BY <1>6, InFlightType, Sizes DEF PowerLoss, Reset, Return
<1>7. CASE FlashError
  BY <1>7, InFlightType, Sizes DEF FlashError, Return
<1>8. CASE NextPiece
  <2>1. CASE todo = <<>>
    BY <1>8, <2>1 DEF NextPiece
  <2>2. CASE todo # <<>>
    <3>1. Head(todo) \in Tx BY <2>2
    <3>2. ReadKept(Head(todo)) \in [Part -> Content]
      BY <3>1 DEF ReadKept, Tx
    <3> QED BY <1>8, <2>2, <3>1, <3>2 DEF NextPiece
  <2> QED BY <2>1, <2>2
<1>9. \A t \in Tx : Commit(t) => vol' \in [Flash -> [Part -> Content]]
  BY DEF Commit, Tx
<1>10. \A s \in Seq(Tx) : s # <<>> => Tail(s) \in Seq(Tx)
  OBVIOUS
<1>11. pc \in Ranging \ {"piece"} => Tail(todo) \in Seq(Tx)
  BY <1>10 DEF Queue
<1>12. CASE EraseFull
  BY <1>9, <1>11, <1>12 DEF EraseFull, Ranging, Tx
<1>13. CASE WritePart
  BY <1>13, Sizes DEF WritePart, Tx, Queue
<1>14. CASE DumpErase \/ DumpWrite \/ StateErase
  BY <1>14 DEF DumpErase, DumpWrite, StateErase
<1>15. CASE StateWrite
  BY <1>9, <1>15 DEF StateWrite
<1>16. CASE FitErase
  BY <1>9, <1>16, Sizes DEF FitErase, Tx
<1>17. ASSUME NEW i \in Part, RestorePart(i)
       PROVE  flash' \in [Flash -> [Part -> Content]] /\ idx' \in 0 .. F
  BY <1>17, Sizes DEF RestorePart, Tx, Part
<1>18. CASE FitRestore
  <2>1. CASE \E i \in Part : RestorePart(i)
    BY <1>17, <1>18, <2>1 DEF FitRestore, RestorePart
  <2>2. CASE ~ \E i \in Part : RestorePart(i)
    BY <1>11, <1>18, <2>2 DEF FitRestore, Ranging, Fitting
  <2> QED BY <2>1, <2>2
<1>19. CASE FitClear
  BY <1>11, <1>19 DEF FitClear, Ranging, Fitting
<1>20. CASE RecoverErase
  BY <1>20, Sizes DEF RecoverErase, Tx
<1>21. CASE RecoverRestore
  BY <1>17, <1>21 DEF RecoverRestore, RestorePart
<1>22. CASE RecoverClear
  BY <1>22 DEF RecoverClear
<1> QED
  BY <1>1, <1>2, <1>3, <1>4, <1>5, <1>6, <1>7, <1>8, <1>12, <1>13, <1>14, <1>15, <1>16,
     <1>18, <1>19, <1>20, <1>21, <1>22 DEF Next, Step

(***************************************************************************)
(* The pieces of the range under way.                                      *)
(***************************************************************************)

\* The rest of the pieces.
LEMMA RestOfTodo ==
    ASSUME TypeOK, todo # <<>>
    PROVE  /\ Tail(todo) \in Seq(Tx) /\ Len(todo) \in Nat /\ Len(todo) > 0
           /\ Len(Tail(todo)) = Len(todo) - 1
           /\ \A k \in 1 .. Len(Tail(todo)) : k + 1 \in 1 .. Len(todo) /\ Tail(todo)[k] = todo[k + 1]
           /\ Head(todo) = todo[1] /\ todo[1] \in Tx
BY DEF TypeOK

LEMMA QueueInit == Init => Queue
BY DEF Init, Queue, Ranging, Fitting

LEMMA QueueStep ==
    ASSUME TypeOK, Queue, [Next]_vars
    PROVE  Queue'
<1> DEFINE Good(t, a) == /\ t.cnt > 0 /\ t.off + t.cnt <= F
                         /\ Erases(t) = {i \in Part : Number(t.base, i) \in a}
           Qu(s, a) == /\ \A k \in 1 .. Len(s) : Good(s[k], a)
                       /\ \A j, k \in 1 .. Len(s) : j # k => s[j].base # s[k].base
<1>1. Qu(todo, asked)
  BY DEF Queue
<1>2. (todo' = todo /\ asked' = asked) => Qu(todo', asked')
  <2> HIDE DEF Qu
  <2> QED BY <1>1
<1>3. todo' = <<>> => Qu(todo', asked')
  OBVIOUS
<1>4. (todo # <<>> /\ todo' = Tail(todo) /\ asked' = asked) => Qu(todo', asked')
  <2> HAVE todo # <<>> /\ todo' = Tail(todo) /\ asked' = asked
  <2>1. ASSUME NEW k \in 1 .. Len(todo') PROVE Good(todo'[k], asked')
    <3>1. k + 1 \in 1 .. Len(todo) /\ todo'[k] = todo[k + 1] BY RestOfTodo
    <3> HIDE DEF Good
    <3> QED BY <1>1, <3>1
  <2>2. ASSUME NEW j \in 1 .. Len(todo'), NEW k \in 1 .. Len(todo'), j # k
        PROVE  todo'[j].base # todo'[k].base
    <3>1. k + 1 \in 1 .. Len(todo) /\ todo'[k] = todo[k + 1] BY RestOfTodo
    <3>2. j + 1 \in 1 .. Len(todo) /\ todo'[j] = todo[j + 1] BY RestOfTodo
    <3>3. j + 1 # k + 1 BY <2>2
    <3> HIDE DEF Good
    <3> QED BY <1>1, <3>1, <3>2, <3>3
  <2> HIDE DEF Good
  <2> QED BY <2>1, <2>2
<1> DEFINE Where == /\ pc \notin Ranging => todo = <<>>
                    /\ pc \in Ranging \ {"piece"} => todo # <<>> /\ tx = todo[1]
                    /\ pc = "full" => Full(tx)
                    /\ pc = "write" => tx.off \in Part
                    /\ pc # "write" => val = Erased
<1>5. Where /\ TypeOK
  BY DEF Queue
<1>6. SUFFICES Qu(todo', asked') /\ Where'
  BY DEF Queue
<1> HIDE DEF Qu
<1> USE DEF Ranging, Fitting, Failing, Recovering
<1>7. CASE UNCHANGED vars
  BY <1>2, <1>5, <1>7 DEF vars
<1>8. ASSUME NEW first \in 0 .. B * F - 1, NEW n \in 1 .. B * F, EraseRange(first, n)
      PROVE  Qu(todo', asked') /\ Where'
  <2> DEFINE q == first \div F
  <2>1. first \in Nat /\ n \in Nat \ {0} /\ first + n <= B * F
    BY <1>8, Sizes DEF EraseRange
  <2>2. Cut(first, n, todo') /\ asked' = first .. first + n - 1
    BY <1>8, <2>1, PiecesCut DEF EraseRange
  <2>3. q \in Nat
    BY <2>1, DivMod
  <2>4. todo' \in Seq(Tx) /\ \A k \in 1 .. Len(todo') : todo'[k].base = q + k - 1 /\ Good(todo'[k], asked')
    BY <2>2 DEF Cut
  <2>5. Qu(todo', asked')
    <3> HIDE DEF q, Good
    <3> QED BY <2>3, <2>4 DEF Qu
  <2> QED BY <1>5, <1>8, <2>5 DEF EraseRange
<1>9. ASSUME NEW b \in Flash, NEW i \in Part, NEW d \in Data, Write(b, i, d)
      PROVE  Qu(todo', asked') /\ Where'
  BY <1>2, <1>5, <1>9 DEF Write
<1>10. CASE Mount
  BY <1>2, <1>5, <1>10 DEF Mount
<1>11. CASE Unmount \/ PowerLoss
  BY <1>3, <1>11 DEF Unmount, PowerLoss, Reset, Return
<1>12. CASE FlashError
  BY <1>3, <1>12 DEF FlashError, Return
<1>13. CASE NextPiece
  <2>1. CASE todo = <<>>
    BY <1>3, <1>5, <1>13, <2>1 DEF NextPiece
  <2>2. CASE todo # <<>>
    BY <1>2, <1>5, <1>13, <2>2, RestOfTodo DEF NextPiece
  <2> QED BY <2>1, <2>2
<1>14. CASE EraseFull
  BY <1>4, <1>5, <1>14 DEF EraseFull
<1>15. CASE WritePart
  BY <1>2, <1>5, <1>15 DEF WritePart
<1>16. CASE DumpErase \/ DumpWrite \/ StateErase
  BY <1>2, <1>5, <1>16 DEF DumpErase, DumpWrite, StateErase
<1>17. CASE StateWrite
  BY <1>2, <1>5, <1>17 DEF StateWrite
<1>18. CASE FitErase
  BY <1>2, <1>5, <1>18 DEF FitErase
<1>19. CASE FitRestore
  <2>1. CASE \E i \in Part : RestorePart(i)
    BY <1>2, <1>5, <1>19, <2>1 DEF FitRestore, RestorePart
  <2>2. CASE ~ \E i \in Part : RestorePart(i)
    BY <1>2, <1>4, <1>5, <1>19, <2>2 DEF FitRestore
  <2> QED BY <2>1, <2>2
<1>20. CASE FitClear
  BY <1>4, <1>5, <1>20 DEF FitClear
<1>21. CASE RecoverErase \/ RecoverClear
  BY <1>2, <1>5, <1>21 DEF RecoverErase, RecoverClear
<1>22. CASE RecoverRestore
  BY <1>2, <1>5, <1>22 DEF RecoverRestore, RestorePart
<1> QED
  BY <1>7, <1>8, <1>9, <1>10, <1>11, <1>12, <1>13, <1>14, <1>15, <1>16,
     <1>17, <1>18, <1>19, <1>20, <1>21, <1>22 DEF Next, Step

(***************************************************************************)
(* The range is erased.                                                    *)
(***************************************************************************)

\* A sector of a range is a sector of one of its pieces.
LEMMA CutCovers ==
    ASSUME NEW first \in Nat, NEW n \in Nat \ {0}, NEW s, Cut(first, n, s),
           NEW b \in Flash, NEW i \in Part, Number(b, i) \in first .. first + n - 1
    PROVE  \E k \in 1 .. Len(s) : s[k].base = b
<1> DEFINE q == first \div F
           r == first % F
<1>1. q \in Nat /\ r \in Part /\ first = q * F + r
  BY DivMod DEF Part
<1>2. s \in Seq(Tx) /\ first + n <= (q + Len(s)) * F /\ \A k \in 1 .. Len(s) : s[k].base = q + k - 1
  BY DEF Cut
<1>3. b \in Nat /\ b * F \in Nat /\ q * F \in Nat /\ (q + Len(s)) * F \in Nat /\ i \in 0 .. F - 1
  <2> HIDE DEF q
  <2>1. Len(s) \in Nat /\ b \in Nat BY <1>2 DEF Flash
  <2>2. \A x \in Nat : x * F \in Nat BY Sizes
  <2>3. q \in Nat /\ q + Len(s) \in Nat BY <1>1, <2>1
  <2> QED BY <2>1, <2>2, <2>3, Zenon DEF Part
<1>4. first <= b * F + i /\ b * F + i < first + n
  BY <1>3 DEF Number
<1> HIDE DEF q, r
<1>5. ~(b < q)
  <2> SUFFICES ASSUME b < q PROVE FALSE OBVIOUS
  <2>1. b * F + F <= q * F BY <1>1, <1>3, Further
  <2> QED BY <1>1, <1>3, <1>4, <2>1, Sizes DEF Part
<1>6. b < q + Len(s)
  <2> SUFFICES ASSUME ~(b < q + Len(s)) PROVE FALSE OBVIOUS
  <2>1. Len(s) \in Nat BY <1>2
  <2>2. CASE b = q + Len(s)
    BY <1>2, <1>3, <1>4, <2>2
  <2>3. CASE q + Len(s) < b
    <3>1. (q + Len(s)) * F + F <= b * F BY <1>1, <1>3, <2>1, <2>3, Further
    <3> QED BY <1>2, <1>3, <1>4, <3>1, Sizes
  <2>4. b = q + Len(s) \/ q + Len(s) < b
    <3> DEFINE z == q + Len(s)
    <3>1. z \in Nat /\ ~(b < z) BY <1>1, <2>1
    <3> HIDE DEF z
    <3>2. b = z \/ z < b BY <3>1, <1>3
    <3> QED BY <3>2 DEF z
  <2> QED BY <2>2, <2>3, <2>4
<1>7. b - q + 1 \in 1 .. Len(s) /\ q + (b - q + 1) - 1 = b
  BY <1>1, <1>2, <1>3, <1>5, <1>6
<1> QED
  BY <1>2, <1>7

LEMMA ProgressInit == Init => Progress
BY DEF Init, Progress, Ranging, Fitting

LEMMA ProgressStep ==
    ASSUME TypeOK, Queue, Progress, [Next]_vars
    PROVE  Progress'
<1> USE DEF Ranging, Fitting, Failing, Recovering
<1> SUFFICES ASSUME pc' \in Ranging, NEW b \in Flash, NEW i \in Part, Number(b, i) \in asked'
             PROVE  \/ flash'[b][i] = Erased
                    \/ \E k \in 1 .. Len(todo') :
                          todo'[k].base = b /\ (k = 1 => pc' \notin {"restore", "clear"})
  BY DEF Progress
<1> DEFINE Goal == \/ flash'[b][i] = Erased
                   \/ \E k \in 1 .. Len(todo') :
                         todo'[k].base = b /\ (k = 1 => pc' \notin {"restore", "clear"})
<1>1. pc \in Ranging /\ asked' = asked =>
        \/ flash[b][i] = Erased
        \/ \E k \in 1 .. Len(todo) : todo[k].base = b /\ (k = 1 => pc \notin {"restore", "clear"})
  BY DEF Progress
<1>2. ASSUME todo # <<>>, todo' = Tail(todo), pc' \notin {"restore", "clear"},
             NEW k \in 1 .. Len(todo), k # 1, todo[k].base = b
      PROVE  Goal
  <2>1. k - 1 \in 1 .. Len(todo') /\ (k - 1) + 1 = k
    BY <1>2, RestOfTodo
  <2>2. todo'[k - 1] = todo[k]
    BY <1>2, <2>1, RestOfTodo
  <2> QED BY <1>2, <2>1, <2>2
<1>3. CASE UNCHANGED vars
  BY <1>1, <1>3 DEF vars
<1>4. ASSUME NEW first \in 0 .. B * F - 1, NEW n \in 1 .. B * F, EraseRange(first, n)
      PROVE  Goal
  <2>1. first \in Nat /\ n \in Nat \ {0} /\ first + n <= B * F
    BY <1>4, Sizes DEF EraseRange
  <2>2. Cut(first, n, todo') /\ asked' = first .. first + n - 1 /\ pc' = "piece"
    BY <1>4, <2>1, PiecesCut DEF EraseRange
  <2>3. \E k \in 1 .. Len(todo') : todo'[k].base = b
    BY <2>1, <2>2, CutCovers
  <2> QED BY <2>2, <2>3
<1>5. ASSUME NEW bb \in Flash, NEW ii \in Part, NEW d \in Data, Write(bb, ii, d) PROVE Goal
  BY <1>5 DEF Write
<1>6. CASE Mount
  BY <1>6 DEF Mount
<1>7. CASE Unmount \/ PowerLoss
  BY <1>7 DEF Unmount, PowerLoss, Reset
<1>8. CASE FlashError
  BY <1>8 DEF FlashError
<1>9. CASE NextPiece
  BY <1>1, <1>9 DEF NextPiece
<1>10. CASE EraseFull
  <2>1. todo # <<>> /\ todo' = Tail(todo) /\ asked' = asked /\ tx = todo[1] /\ pc' = "piece"
    BY <1>10 DEF EraseFull, Queue
  <2>2. CASE b = tx.base
    BY <1>10, <2>2 DEF EraseFull, TypeOK, Blank
  <2>3. CASE b # tx.base
    <3>1. flash'[b] = flash[b] BY <1>10, <2>3 DEF EraseFull, TypeOK
    <3> QED BY <1>1, <1>2, <1>10, <2>1, <2>3, <3>1 DEF EraseFull
  <2> QED BY <2>2, <2>3
<1>11. CASE WritePart
  BY <1>11 DEF WritePart
<1>12. CASE DumpErase \/ DumpWrite \/ StateErase \/ StateWrite
  BY <1>1, <1>12 DEF DumpErase, DumpWrite, StateErase, StateWrite
<1>13. CASE FitErase
  <2>1. asked' = asked /\ todo' = todo /\ todo # <<>> /\ tx = todo[1]
    BY <1>13 DEF FitErase, Queue
  <2>2. CASE b = tx.base
    BY <1>13, <2>2 DEF FitErase, TypeOK, Blank
  <2>3. CASE b # tx.base
    <3>1. flash'[b] = flash[b] BY <1>13, <2>3 DEF FitErase, TypeOK
    <3> QED BY <1>1, <1>13, <2>1, <2>3, <3>1 DEF FitErase
  <2> QED BY <2>2, <2>3
<1>14. CASE FitRestore
  <2>1. todo # <<>> /\ tx = todo[1] /\ pc = "restore" /\ asked' = asked
    BY <1>14 DEF FitRestore, RestorePart, Queue
  <2>2. ASSUME NEW j \in Part, RestorePart(j) PROVE Goal
    <3>1. j \in Kept(tx) BY <2>2 DEF RestorePart, Left
    <3>2. CASE b = tx.base /\ i = j
      <4>1. 1 \in 1 .. Len(todo) BY <2>1, RestOfTodo
      <4>2. Erases(tx) = {x \in Part : Number(tx.base, x) \in asked} BY <2>1, <4>1 DEF Queue
      <4> QED BY <2>1, <3>1, <3>2, <4>2 DEF Erases
    <3>3. CASE ~(b = tx.base /\ i = j)
      <4>1. flash'[b][i] = flash[b][i] BY <2>2, <3>3 DEF RestorePart, TypeOK
      <4> QED BY <1>1, <2>1, <2>2, <4>1 DEF RestorePart
    <3> QED BY <3>2, <3>3
  <2>3. CASE ~ \E j \in Part : RestorePart(j)
    BY <1>1, <1>2, <1>14, <2>1, <2>3 DEF FitRestore
  <2> QED BY <2>2, <2>3
<1>15. CASE FitClear
  <2>1. todo # <<>>
    BY <1>15 DEF FitClear, Queue
  <2> QED BY <1>1, <1>2, <1>15, <2>1 DEF FitClear
<1>16. CASE RecoverErase \/ RecoverClear
  BY <1>16 DEF RecoverErase, RecoverClear
<1>17. CASE RecoverRestore
  BY <1>17 DEF RecoverRestore, RestorePart
<1> QED
  BY <1>3, <1>4, <1>5, <1>6, <1>7, <1>8, <1>9, <1>10, <1>11, <1>12, <1>13, <1>14, <1>15, <1>16,
     <1>17 DEF Next, Step

\* erase_range, when it returns without an error, has erased the whole range,
\* for any geometry and in both classes, whatever failed before.
THEOREM ErasesRangeAsked == Spec => []RangeErased
<1>1. Init => TypeOK /\ Queue /\ Progress
  BY TypeInit, QueueInit, ProgressInit
<1>2. TypeOK /\ Queue /\ Progress /\ [Next]_vars => (TypeOK /\ Queue /\ Progress)'
  BY TypeStep, QueueStep, ProgressStep
<1>3. TypeOK /\ Queue /\ Progress => RangeErased
  BY DEF RangeErased, Progress, Ranging
<1> QED
  BY <1>1, <1>2, <1>3, PTL DEF Spec

(***************************************************************************)
(* The transaction.                                                        *)
(***************************************************************************)

\* One part fewer is left to write back.
LEMMA LeftNext ==
    ASSUME TypeOK, NEW i \in Part, RestorePart(i)
    PROVE  /\ Left(tx, idx') = Left(tx, idx) \ {i} /\ i \in Kept(tx)
           /\ tx' = tx /\ buf' = buf /\ dump' = dump /\ st' = st /\ pc' = pc /\ mode' = mode
           /\ todo' = todo /\ vol' = vol /\ fault' = fault /\ asked' = asked /\ val' = val
           /\ flash' = [flash EXCEPT ![tx.base][i] = buf[i]]
           /\ \A b \in Flash, k \in Part : ~(b = tx.base /\ k = i) => flash'[b][k] = flash[b][k]
           /\ flash'[tx.base][i] = buf[i]
<1>1. Left(tx, i + 1) = Left(tx, idx) \ {i}
  BY DEF RestorePart, Left, Kept, Part, TypeOK
<1> QED
  BY <1>1 DEF RestorePart, Left, TypeOK, Tx

\* All kept parts are left at first, and none after the last.
LEMMA LeftEnds ==
    ASSUME NEW t \in Tx
    PROVE  Left(t, 0) = Kept(t) /\ \A i \in Int : Left(t, i) \subseteq Kept(t) /\ Kept(t) \subseteq Part
BY DEF Left, Kept, Part

\* What a part written back does to Back.
LEMMA BackStep ==
    ASSUME TypeOK, Back(tx), NEW i \in Part, RestorePart(i)
    PROVE  Back(tx)'
<1> SUFFICES ASSUME NEW k \in Part, k \notin Left(tx, idx')
             PROVE  flash'[tx.base][k] = IF k \in Kept(tx) THEN buf[k] ELSE Erased
  BY LeftNext DEF Back, RestorePart
<1>1. CASE k = i
  BY <1>1, LeftNext
<1>2. CASE k # i
  <2>1. k \notin Left(tx, idx) BY <1>2, LeftNext
  <2>2. flash'[tx.base][k] = flash[tx.base][k] BY <1>2, LeftNext DEF TypeOK, Tx
  <2> QED BY <2>1, <2>2 DEF Back
<1> QED BY <1>1, <1>2

\* A sector that has just been erased has every part back but the kept ones.
LEMMA BackErased ==
    ASSUME TypeOK, flash' = [flash EXCEPT ![tx.base] = Blank], idx' = 0, UNCHANGED <<tx, buf>>
    PROVE  Back(tx)'
<1>1. Left(tx, 0) = Kept(tx)
  BY LeftEnds DEF TypeOK
<1>2. \A k \in Part : flash'[tx.base][k] = Erased
  BY DEF TypeOK, Tx, Blank
<1> QED
  BY <1>1, <1>2 DEF Back

LEMMA SavedInit == Init => Saved
BY DEF Init, Saved, None, Recovering, Fitting

LEMMA SavedStep ==
    ASSUME TypeOK, Queue, Saved, [Next]_vars
    PROVE  Saved'
<1> USE DEF Saved, Fitting, Recovering
<1>0. None.sign = "none" /\ Torn.sign = "torn" /\ \A t : Noted(t).sign = "ok" /\ Noted(t).tx = t
  BY DEF None, Torn, Noted
<1>1. CASE UNCHANGED vars
  BY <1>1 DEF vars, Back
<1>2. ASSUME NEW first \in 0 .. B * F - 1, NEW n \in 1 .. B * F, EraseRange(first, n)
      PROVE  Saved'
  BY <1>2 DEF EraseRange
<1>3. ASSUME NEW b \in Flash, NEW i \in Part, NEW d \in Data, Write(b, i, d)
      PROVE  Saved'
  BY <1>3 DEF Write
<1>4. CASE Mount
  <2>1. CASE mode = "perf" \/ st = None
    BY <1>4, <2>1 DEF Mount
  <2>2. CASE ~(mode = "perf" \/ st = None)
    <3>1. ~fault => st.sign = "ok" /\ Pending = {st.tx} /\ st = Noted(st.tx)
      BY <1>0, <1>4, <2>2 DEF Pending, TypeOK, State, Noted
    <3> QED BY <1>4, <2>2, <3>1 DEF Mount
  <2> QED BY <2>1, <2>2
<1>5. CASE Unmount
  BY <1>5 DEF Unmount, Reset
<1>6. CASE PowerLoss \/ FlashError
  <2>1. mode = "perf" => st' = None
    BY <1>6 DEF PowerLoss, FlashError, InFlight
  <2>2. st' \in {st, None, Torn}
    BY <1>6 DEF PowerLoss, FlashError, InFlight
  <2>3. fault' = FALSE => fault = FALSE /\ st' # Torn /\ (pc' = "ready" => st' = None)
    BY <1>6 DEF PowerLoss, FlashError, Reset, TypeOK
  <2>4. pc' \in {"off", "ready"} /\ mode' = mode
    BY <1>6 DEF PowerLoss, FlashError, Reset
  <2>5. (st'.sign = "none" => st' = None) /\ (st'.sign = "torn" => st' = Torn)
    BY <1>0, <2>2
  <2>6. fault' \in BOOLEAN
    BY <1>6 DEF PowerLoss, FlashError, TypeOK
  <2> QED BY <2>1, <2>3, <2>4, <2>5, <2>6
<1>7. CASE NextPiece
  <2>1. CASE todo = <<>>
    BY <1>7, <2>1 DEF NextPiece
  <2>2. CASE todo # <<>> /\ Full(tx')
    BY <1>7, <2>2 DEF NextPiece
  <2>3. CASE todo # <<>> /\ ~Full(tx')
    <3>1. \A i \in Kept(tx') : buf'[i] = flash'[tx'.base][i]
      BY <1>7, <2>3 DEF NextPiece, ReadKept, Kept
    <3> QED BY <1>7, <2>3, <3>1 DEF NextPiece, TypeOK
  <2> QED BY <2>1, <2>2, <2>3
<1>8. CASE EraseFull
  BY <1>8 DEF EraseFull
<1>9. CASE WritePart
  BY <1>9 DEF WritePart
<1>10. CASE DumpErase
  BY <1>10 DEF DumpErase
<1>11. CASE DumpWrite
  BY <1>11 DEF DumpWrite
<1>12. CASE StateErase
  BY <1>0, <1>12 DEF StateErase
<1>13. CASE StateWrite
  BY <1>0, <1>13 DEF StateWrite
<1>14. CASE FitErase
  <2>1. Back(tx)' BY <1>14, BackErased DEF FitErase
  <2> QED BY <1>14, <2>1 DEF FitErase
<1>15. CASE FitRestore
  <2>1. ASSUME NEW i \in Part, RestorePart(i) PROVE Saved'
    <3>1. pc = "restore" BY <1>15 DEF FitRestore
    <3>2. ~fault => Back(tx)' BY <2>1, <3>1, BackStep
    <3> QED BY <2>1, <3>1, <3>2, LeftNext
  <2>2. CASE ~ \E i \in Part : RestorePart(i)
    BY <1>15, <2>2 DEF FitRestore, Back, TypeOK
  <2> QED BY <2>1, <2>2
<1>16. CASE FitClear
  BY <1>0, <1>16 DEF FitClear
<1>17. CASE RecoverErase
  <2>1. Back(tx)' BY <1>17, BackErased DEF RecoverErase
  <2> QED BY <1>17, <2>1 DEF RecoverErase
<1>18. CASE RecoverRestore
  <2>1. ASSUME NEW i \in Part, RestorePart(i) PROVE Saved'
    <3>1. pc = "rc_restore" BY <1>18 DEF RecoverRestore
    <3>2. ~fault => Back(tx)' BY <2>1, <3>1, BackStep
    <3> QED BY <2>1, <3>1, <3>2, LeftNext
  <2>2. CASE ~ \E i \in Part : RestorePart(i)
    BY <1>18, <2>2 DEF RecoverRestore, Back
  <2> QED BY <2>1, <2>2
<1>19. CASE RecoverClear
  BY <1>0, <1>19 DEF RecoverClear
<1> QED
  BY <1>1, <1>2, <1>3, <1>4, <1>5, <1>6, <1>7, <1>8, <1>9, <1>10, <1>11, <1>12, <1>13, <1>14,
     <1>15, <1>16, <1>17, <1>18, <1>19 DEF Next, Step

(***************************************************************************)
(* What the user may rely on.                                              *)
(***************************************************************************)

\* A sector that no noted transaction is about is what the flash holds.
LEMMA ReplayedPlain ==
    ASSUME st.sign # "ok" PROVE \A b : Replayed(b) = flash[b]
BY DEF Replayed

\* With a transaction noted, its sector is what the mount would make of it.
LEMMA ReplayedNoted ==
    ASSUME NEW t \in Tx, st = Noted(t)
    PROVE  /\ \A i \in Part : Replayed(t.base)[i] = IF i \in Kept(t) THEN dump[i] ELSE Erased
           /\ \A b : b # t.base => Replayed(b) = flash[b]
BY DEF Replayed, Noted

\* A sector all of whose parts are back is what the mount would make of it.
LEMMA ReplayedBack ==
    ASSUME TypeOK, st = Noted(tx), Back(tx), Left(tx, idx) = {}, \A i \in Kept(tx) : dump[i] = buf[i]
    PROVE  \A b \in Flash, i \in Part : Replayed(b)[i] = flash[b][i]
<1> TAKE b \in Flash, i \in Part
<1>1. CASE b = tx.base
  BY <1>1, ReplayedNoted DEF Back, TypeOK
<1>2. CASE b # tx.base
  BY <1>2, ReplayedNoted DEF TypeOK
<1> QED BY <1>1, <1>2

\* The transaction, once noted, says what the flash said, but for the erased
\* parts; so it costs no kept part.
LEMMA ReplayedCommit ==
    ASSUME TypeOK, st.sign # "ok", st' = Noted(tx), UNCHANGED <<flash, dump, tx>>,
           \A i \in Kept(tx) : dump[i] = flash[tx.base][i]
    PROVE  \A b \in Flash, i \in Part :
              Replayed(b)'[i] = IF b = tx.base /\ i \in Erases(tx) THEN Erased ELSE Replayed(b)[i]
<1> TAKE b \in Flash, i \in Part
<1>1. Replayed(b) = flash[b]
  BY ReplayedPlain
<1>2. CASE b = tx.base
  BY <1>1, <1>2 DEF Replayed, Noted, Erases
<1>3. CASE b # tx.base
  BY <1>1, <1>3 DEF Replayed, Noted
<1> QED BY <1>2, <1>3

\* What Commit does to the history, when the transaction is one of the range's.
LEMMA CommitEffect ==
    ASSUME TypeOK, Queue, pc \in Ranging \ {"piece"}, Commit(tx)
    PROVE  \A b \in Flash, i \in Part :
              vol'[b][i] = IF b = tx.base /\ i \in Erases(tx) THEN Erased ELSE vol[b][i]
<1>1. 1 \in 1 .. Len(todo) /\ tx = todo[1] /\ tx \in Tx
  BY RestOfTodo DEF Queue, TypeOK
<1>2. Erases(tx) = {i \in Part : Number(tx.base, i) \in asked}
  BY <1>1 DEF Queue
<1> QED
  BY <1>1, <1>2 DEF Commit, TypeOK, Tx

\* A transaction of a whole sector erases all of it.
LEMMA FullErasesAll ==
    ASSUME TypeOK, Queue, pc = "full" PROVE Erases(tx) = Part /\ Kept(tx) = {}
<1>1. 1 \in 1 .. Len(todo) /\ tx = todo[1] /\ tx \in Tx /\ tx.cnt = F
  BY RestOfTodo DEF Queue, TypeOK, Full, Ranging
<1>2. tx.off + tx.cnt <= F /\ tx.off \in 0 .. F
  BY <1>1 DEF Queue, Tx
<1>3. tx.off = 0
  BY <1>1, <1>2, Sizes
<1> QED
  BY <1>1, <1>3, Sizes DEF Kept, Erases, Part

\* What a call cut short does to a sector, as the mount would see it.
LEMMA InFlightReplayed ==
    ASSUME TypeOK, Queue, Saved, mode = "safe", fault = FALSE, InFlight, st' # Torn
    PROVE  \A b \in Flash, i \in Part :
              \/ Replayed(b)'[i] = Replayed(b)[i]
              \/ pc \in {"full", "write"} /\ i \in Touched(b) /\ Replayed(b)'[i] = Junk
<1> USE DEF Fitting, Recovering
<1> TAKE b \in Flash, i \in Part
<1>1. CASE pc \in {"full", "write"}
  <2>1. st = None /\ st' = None
    BY <1>1 DEF Saved, InFlight
  <2>2. st.sign # "ok" /\ st'.sign # "ok"
    BY <2>1 DEF None
  <2> QED BY <1>1, <2>2 DEF InFlight, Replayed
<1>2. CASE pc \in {"erase", "restore", "rc_erase", "rc_restore"}
  <2>1. st = Noted(tx) /\ st' = st /\ dump' = dump
    BY <1>2 DEF Saved, InFlight
  <2>2. st.sign = "ok" /\ st'.sign = "ok" /\ st.tx = tx /\ st'.tx = tx
    BY <2>1 DEF Noted
  <2>3. CASE b = tx.base
    BY <2>1, <2>2, <2>3 DEF Replayed
  <2>4. CASE b # tx.base
    <3>1. Touched(b) = {} BY <1>2, <2>4 DEF Touched
    <3>2. flash'[b][i] = flash[b][i] BY <3>1 DEF InFlight
    <3> QED BY <2>2, <2>4, <3>2 DEF Replayed
  <2> QED BY <2>3, <2>4
<1>3. CASE pc \notin {"full", "write", "erase", "restore", "rc_erase", "rc_restore"}
  <2>1. Touched(b) = {} BY <1>3 DEF Touched
  <2>2. flash'[b][i] = flash[b][i] BY <2>1 DEF InFlight
  <2>3. CASE pc \in {"clear", "rc_clear"}
    <3>1. \A bb \in Flash, k \in Part : Replayed(bb)[k] = flash[bb][k]
      BY <2>3, ReplayedBack DEF Saved
    <3>2. dump' = dump /\ st' \in {st, None}
      BY <2>3 DEF InFlight
    <3>3. CASE st' = st
      BY <2>2, <3>2, <3>3 DEF Replayed
    <3>4. CASE st' = None
      BY <2>2, <3>1, <3>4 DEF Replayed, None
    <3> QED BY <3>2, <3>3, <3>4
  <2>4. CASE pc \notin {"clear", "rc_clear"}
    <3>1. CASE pc = "off"
      BY <2>2, <3>1 DEF InFlight, Replayed
    <3>2. CASE pc # "off"
      <4>1. st = None /\ st' \in {None, Torn}
        BY <1>3, <2>4, <3>2 DEF Saved, InFlight, TypeOK, Failing
      <4> QED BY <2>2, <4>1 DEF Replayed, None
    <3> QED BY <3>1, <3>2
  <2> QED BY <2>3, <2>4
<1> QED BY <1>1, <1>2, <1>3

LEMMA ReliedInit == Init => Relied
BY DEF Init, Relied, Garbage

\* No step but the ones that commit a transaction, erase a whole sector, write
\* one or are cut short in it changes what the mount would make of the flash.
LEMMA ReplayedSame ==
    ASSUME TypeOK, Saved, fault = FALSE,
           \/ UNCHANGED <<flash, dump, st>>
           \/ DumpErase \/ DumpWrite \/ StateErase \/ (FitErase /\ mode = "safe")
           \/ FitRestore /\ mode = "safe"
           \/ FitClear \/ RecoverErase \/ RecoverRestore \/ RecoverClear
    PROVE  \A b \in Flash, i \in Part : Replayed(b)'[i] = Replayed(b)[i]
<1> USE DEF Fitting, Recovering
<1> TAKE b \in Flash, i \in Part
<1>1. CASE UNCHANGED <<flash, dump, st>>
  BY <1>1 DEF Replayed
<1>2. CASE DumpErase \/ DumpWrite \/ StateErase
  <2>1. st = None /\ st' = None /\ flash' = flash
    BY <1>2 DEF DumpErase, DumpWrite, StateErase, Saved
  <2> QED BY <2>1 DEF Replayed, None
<1>3. ASSUME (pc \in {"erase", "restore"} /\ mode = "safe") \/ pc \in {"rc_erase", "rc_restore"},
             UNCHANGED <<st, dump>>, b # tx.base => flash'[b][i] = flash[b][i]
      PROVE  Replayed(b)'[i] = Replayed(b)[i]
  <2>1. st = Noted(tx) /\ st' = st
    BY <1>3 DEF Saved
  <2>2. st.sign = "ok" /\ st'.sign = "ok" /\ st.tx = tx /\ st'.tx = tx
    BY <2>1 DEF Noted
  <2> QED BY <1>3, <2>2 DEF Replayed
<1>4. CASE FitErase /\ mode = "safe"
  <2>1. b # tx.base => flash'[b][i] = flash[b][i]
    BY <1>4 DEF FitErase, TypeOK
  <2> QED BY <1>3, <1>4, <2>1 DEF FitErase
<1>5. CASE RecoverErase
  <2>1. b # tx.base => flash'[b][i] = flash[b][i]
    BY <1>5 DEF RecoverErase, TypeOK
  <2> QED BY <1>3, <1>5, <2>1 DEF RecoverErase
<1>6. CASE (FitRestore /\ mode = "safe") \/ RecoverRestore
  <2>1. ASSUME NEW j \in Part, RestorePart(j) PROVE Replayed(b)'[i] = Replayed(b)[i]
    <3>1. st' = st /\ dump' = dump /\ (b # tx.base => flash'[b][i] = flash[b][i])
      BY <2>1, LeftNext
    <3> QED BY <1>3, <1>6, <3>1 DEF FitRestore, RecoverRestore
  <2>2. CASE ~ \E j \in Part : RestorePart(j)
    BY <1>1, <1>6, <2>2 DEF FitRestore, RecoverRestore
  <2> QED BY <2>1, <2>2
<1>7. CASE FitClear \/ RecoverClear
  <2>1. st = Noted(tx) /\ Back(tx) /\ Left(tx, idx) = {} /\ \A k \in Kept(tx) : dump[k] = buf[k]
    BY <1>7 DEF FitClear, RecoverClear, Saved, TypeOK
  <2>2. Replayed(b)[i] = flash[b][i]
    BY <2>1, ReplayedBack
  <2>3. st' = None /\ flash' = flash
    BY <1>7 DEF FitClear, RecoverClear
  <2> QED BY <2>2, <2>3 DEF Replayed, None
<1> QED
  BY <1>1, <1>2, <1>4, <1>5, <1>6, <1>7

LEMMA ReliedStep ==
    ASSUME TypeOK, Queue, Saved, Relied, [Next]_vars
    PROVE  Relied'
<1> USE DEF Fitting, Recovering, Ranging
<1>1. mode' = mode /\ (fault' = FALSE => fault = FALSE) /\ fault' \in BOOLEAN
  <2>1. CASE PowerLoss \/ FlashError
    BY <2>1 DEF PowerLoss, FlashError, TypeOK
  <2>2. CASE ~(PowerLoss \/ FlashError)
    <3>1. mode' = mode /\ fault' = fault
      BY <2>2 DEF Next, Step, vars, Mount, Unmount, EraseRange, Write, NextPiece, EraseFull, WritePart,
                  DumpErase, DumpWrite, StateErase, StateWrite, FitErase, FitRestore, FitClear,
                  RecoverErase, RecoverRestore, RecoverClear, RestorePart
    <3> QED BY <3>1 DEF TypeOK
  <2> QED BY <2>1, <2>2
<1> SUFFICES ASSUME mode = "safe", fault = FALSE, fault' = FALSE,
                    NEW b \in Flash, NEW i \in Part, vol'[b][i] # Junk
             PROVE  Replayed(b)'[i] = vol'[b][i]
  BY <1>1 DEF Relied
<1> DEFINE Goal == Replayed(b)'[i] = vol'[b][i]
<1>2. vol[b][i] # Junk => Replayed(b)[i] = vol[b][i]
  BY DEF Relied
<1>3. ASSUME vol' = vol, \A bb \in Flash, k \in Part : Replayed(bb)'[k] = Replayed(bb)[k]
      PROVE  Goal
  BY <1>2, <1>3
<1>4. UNCHANGED <<flash, dump, st>> /\ vol' = vol => Goal
  BY <1>3, ReplayedSame
<1>5. CASE UNCHANGED vars
  BY <1>4, <1>5 DEF vars
<1>6. ASSUME NEW first \in 0 .. B * F - 1, NEW n \in 1 .. B * F, EraseRange(first, n) PROVE Goal
  BY <1>4, <1>6 DEF EraseRange
<1>7. ASSUME NEW bb \in Flash, NEW k \in Part, NEW d \in Data, Write(bb, k, d) PROVE Goal
  BY <1>4, <1>7 DEF Write
<1>8. CASE Mount \/ Unmount \/ NextPiece
  BY <1>4, <1>8 DEF Mount, Unmount, NextPiece
<1>9. CASE PowerLoss \/ FlashError
  <2>1. InFlight /\ st' # Torn
    BY <1>9 DEF PowerLoss, FlashError, TypeOK
  <2>2. \/ Replayed(b)'[i] = Replayed(b)[i]
        \/ pc \in {"full", "write"} /\ i \in Touched(b)
    BY <2>1, InFlightReplayed
  <2>3. CASE pc \in {"full", "write"} /\ i \in Touched(b)
    BY <2>1, <2>3 DEF InFlight
  <2>4. CASE ~(pc \in {"full", "write"} /\ i \in Touched(b))
    <3>1. vol'[b][i] = vol[b][i] BY <2>1, <2>4 DEF InFlight
    <3> QED BY <1>2, <2>2, <2>4, <3>1
  <2> QED BY <2>3, <2>4
<1>10. CASE EraseFull
  <2>1. st = None /\ st' = None
    BY <1>10 DEF EraseFull, Saved
  <2>2. Replayed(b) = flash[b] /\ Replayed(b)' = flash'[b]
    BY <2>1 DEF Replayed, None
  <2>3. vol'[b][i] = IF b = tx.base THEN Erased ELSE vol[b][i]
    BY <1>10, CommitEffect, FullErasesAll DEF EraseFull
  <2>4. flash'[b][i] = IF b = tx.base THEN Erased ELSE flash[b][i]
    BY <1>10 DEF EraseFull, TypeOK, Blank
  <2> QED BY <1>2, <2>2, <2>3, <2>4
<1>11. CASE WritePart
  <2>1. st = None /\ st' = None
    BY <1>11 DEF WritePart, Saved
  <2>2. Replayed(b) = flash[b] /\ Replayed(b)' = flash'[b]
    BY <2>1 DEF Replayed, None
  <2>3. /\ vol'[b][i] = IF b = tx.base /\ i = tx.off THEN val ELSE vol[b][i]
        /\ flash'[b][i] = IF b = tx.base /\ i = tx.off THEN val ELSE flash[b][i]
    BY <1>11 DEF WritePart, TypeOK
  <2> QED BY <1>2, <2>2, <2>3
<1>12. CASE StateWrite
  <2>1. st.sign # "ok" /\ \A k \in Kept(tx) : dump[k] = flash[tx.base][k]
    BY <1>12 DEF StateWrite, Saved, None
  <2>2. Replayed(b)'[i] = IF b = tx.base /\ i \in Erases(tx) THEN Erased ELSE Replayed(b)[i]
    BY <1>12, <2>1, ReplayedCommit DEF StateWrite
  <2>3. vol'[b][i] = IF b = tx.base /\ i \in Erases(tx) THEN Erased ELSE vol[b][i]
    BY <1>12, CommitEffect DEF StateWrite
  <2> QED BY <1>2, <2>2, <2>3
<1>13. CASE DumpErase \/ DumpWrite \/ StateErase
  BY <1>3, <1>13, ReplayedSame DEF DumpErase, DumpWrite, StateErase
<1>14. CASE FitErase
  BY <1>3, <1>14, ReplayedSame DEF FitErase
<1>15. CASE FitRestore \/ RecoverRestore
  <2>1. vol' = vol BY <1>15 DEF FitRestore, RecoverRestore, RestorePart
  <2> QED BY <1>3, <1>15, <2>1, ReplayedSame
<1>16. CASE FitClear \/ RecoverErase \/ RecoverClear
  BY <1>3, <1>16, ReplayedSame DEF FitClear, RecoverErase, RecoverClear
<1> QED
  BY <1>5, <1>6, <1>7, <1>8, <1>9, <1>10, <1>11, <1>12, <1>13, <1>14, <1>15, <1>16 DEF Next, Step

LEMMA Invariance == Spec => []IInv
<1>1. Init => IInv
  BY TypeInit, QueueInit, ProgressInit, SavedInit, ReliedInit DEF IInv
<1>2. IInv /\ [Next]_vars => IInv'
  BY TypeStep, QueueStep, ProgressStep, SavedStep, ReliedStep DEF IInv
<1> QED
  BY <1>1, <1>2, PTL DEF Spec

\* In WL_Ext_Safe no power loss, any number of times, and no error before the
\* transaction is noted, costs a sector that the call under way was not
\* changing; and no transaction stays pending over newer contents: as long as no
\* power loss has torn a note and no error has followed one (fault).
THEOREM SafeIsDurable == Spec => []Durable
<1>1. IInv => Durable
  <2> SUFFICES ASSUME IInv PROVE TypeOK /\ NonePending /\ Relied
    BY DEF Durable, Relied
  <2>1. NonePending
    BY DEF NonePending, IInv, Saved, None
  <2> QED BY <2>1 DEF IInv
<1> QED
  BY <1>1, Invariance, PTL

(***************************************************************************)
(* The refinement: a layer is an array of small sectors.                   *)
(***************************************************************************)

\* View, sector by sector.
At(b, i) == IF mode = "perf" /\ pc = "restore" /\ b = tx.base /\ i \in Left(tx, idx)
            THEN buf[i] ELSE Replayed(b)[i]

\* Remaining, outside of a write: c says whether the first piece is done.
Pend(s, c) == UNION {Covered(s[k]) : k \in {j \in DOMAIN s : c => j > 1}}

LEMMA PendIs ==
    ASSUME NEW s \in Seq(Tx), NEW c \in BOOLEAN
    PROVE  \A x : x \in Pend(s, c) <=> \E k \in 1 .. Len(s) : (c => k > 1) /\ x \in Covered(s[k])
BY DEF Pend

LEMMA PendType ==
    ASSUME NEW s \in Seq(Tx), NEW c \in BOOLEAN
    PROVE  Pend(s, c) \subseteq Flash \X Part
<1> SUFFICES ASSUME NEW x \in Pend(s, c) PROVE x \in Flash \X Part
  OBVIOUS
<1>1. PICK k \in 1 .. Len(s) : x \in Covered(s[k])
  BY PendIs
<1>2. s[k] \in Tx
  OBVIOUS
<1> QED
  BY <1>1, <1>2 DEF Covered, Erases, Tx

\* With the first piece done, the others remain.
LEMMA PendTail ==
    ASSUME NEW s \in Seq(Tx), s # <<>>
    PROVE  Pend(s, TRUE) = Pend(Tail(s), FALSE)
<1>1. /\ Tail(s) \in Seq(Tx) /\ Len(s) \in Nat /\ Len(Tail(s)) = Len(s) - 1
      /\ \A k \in 1 .. Len(Tail(s)) : k + 1 \in 1 .. Len(s) /\ Tail(s)[k] = s[k + 1]
  OBVIOUS
<1>2. ASSUME NEW x \in Pend(s, TRUE) PROVE x \in Pend(Tail(s), FALSE)
  <2>1. PICK k \in 1 .. Len(s) : k > 1 /\ x \in Covered(s[k])
    BY PendIs
  <2>2. k - 1 \in 1 .. Len(Tail(s)) /\ (k - 1) + 1 = k
    BY <1>1, <2>1
  <2>3. Tail(s)[k - 1] = s[k]
    BY <1>1, <2>2
  <2> QED BY <1>1, <2>1, <2>2, <2>3, PendIs
<1>3. ASSUME NEW x \in Pend(Tail(s), FALSE) PROVE x \in Pend(s, TRUE)
  <2>1. PICK k \in 1 .. Len(Tail(s)) : x \in Covered(Tail(s)[k])
    BY <1>1, PendIs
  <2>2. k + 1 \in 1 .. Len(s) /\ k + 1 > 1 /\ x \in Covered(s[k + 1])
    BY <1>1, <2>1
  <2> QED BY <2>2, PendIs
<1> QED
  BY <1>2, <1>3

\* Doing the first piece takes away what it covers, and no more.
LEMMA PendHead ==
    ASSUME NEW s \in Seq(Tx), s # <<>>,
           \A j, k \in 1 .. Len(s) : j # k => s[j].base # s[k].base
    PROVE  /\ Pend(s, TRUE) \subseteq Pend(s, FALSE)
           /\ Pend(s, FALSE) \ Pend(s, TRUE) = Covered(s[1])
<1>1. 1 \in 1 .. Len(s)
  OBVIOUS
<1>2. \A x, k : x \in Covered(s[k]) => x[1] = s[k].base
  BY DEF Covered
<1>3. Pend(s, TRUE) \subseteq Pend(s, FALSE)
  BY PendIs
<1>4. ASSUME NEW x \in Covered(s[1]) PROVE x \in Pend(s, FALSE) /\ x \notin Pend(s, TRUE)
  <2>1. x \in Pend(s, FALSE) BY <1>1, PendIs
  <2>2. ASSUME x \in Pend(s, TRUE) PROVE FALSE
    <3>1. PICK k \in 1 .. Len(s) : k > 1 /\ x \in Covered(s[k])
      BY <2>2, PendIs
    <3>2. s[k].base = s[1].base BY <1>2, <3>1
    <3> QED BY <1>1, <3>1, <3>2
  <2> QED BY <2>1, <2>2
<1>5. ASSUME NEW x \in Pend(s, FALSE), x \notin Pend(s, TRUE) PROVE x \in Covered(s[1])
  <2>1. PICK k \in 1 .. Len(s) : x \in Covered(s[k])
    BY PendIs
  <2>2. ~(k > 1) BY <2>1, <1>5, PendIs
  <2>3. k = 1 BY <2>2
  <2> QED BY <2>1, <2>3
<1> QED
  BY <1>3, <1>4, <1>5

\* A piece covers at least one sector.
LEMMA CoversSome ==
    ASSUME NEW t \in Tx, t.cnt > 0, t.off + t.cnt <= F
    PROVE  t.off \in Erases(t) /\ <<t.base, t.off>> \in Covered(t)
BY Sizes DEF Tx, Erases, Kept, Part, Covered

LEMMA RemainingIs ==
    /\ Remaining = IF pc = "write" THEN {<<tx.base, tx.off>>} ELSE Pend(todo, Committed)
    /\ Remaining' = IF pc' = "write" THEN {<<tx'.base, tx'.off>>} ELSE Pend(todo', Committed')
    /\ Committed \in BOOLEAN /\ Committed' \in BOOLEAN
BY DEF Remaining, Pend, Committed

\* The mapped variables have their types, whatever has failed.
StoreType ==
    /\ View \in [Flash \X Part -> Content]
    /\ Remaining \in SUBSET (Flash \X Part)
    /\ (IF Remaining = {} THEN Junk ELSE val) \in Content

LEMMA StoreTyped == TypeOK /\ Queue => StoreType
<1> SUFFICES ASSUME TypeOK, Queue PROVE StoreType
  OBVIOUS
<1>1. \A b \in Flash, i \in Part : Replayed(b)[i] \in Content
  BY Values DEF Replayed, TypeOK
<1>2. View \in [Flash \X Part -> Content]
  BY <1>1 DEF View, TypeOK
<1>3. Remaining \in SUBSET (Flash \X Part)
  <2>1. CASE pc = "write"
    BY <2>1 DEF Remaining, Queue, TypeOK, Tx
  <2>2. CASE pc # "write"
    BY <2>2, PendType, RemainingIs DEF TypeOK
  <2> QED BY <2>1, <2>2
<1>4. val \in Content
  BY Values DEF TypeOK
<1> QED
  BY <1>2, <1>3, <1>4, Values DEF StoreType

LEMMA StoreTypedNext == (TypeOK /\ Queue)' => StoreType'
BY StoreTyped, PTL

\* View and its next value, sector by sector.
LEMMA ViewAt ==
    /\ View = [s \in Flash \X Part |-> At(s[1], s[2])]
    /\ View' = [s \in Flash \X Part |-> At(s[1], s[2])']
BY DEF View, At

\* A step that changes neither View nor Remaining is a stuttering step.
LEMMA Stutters ==
    ASSUME \A b \in Flash, i \in Part : At(b, i)' = At(b, i),
           Remaining' = Remaining, UNCHANGED <<val, fault>>
    PROVE  UNCHANGED Store!vars
<1>1. View' = View
  BY ViewAt
<1> QED
  BY <1>1 DEF Store!vars

\* A step that erases what the first piece covers is Finish.
LEMMA Finishes ==
    ASSUME TypeOK, Queue, pc \in Ranging \ {"piece"}, ~Committed,
           \A b \in Flash, i \in Part :
              At(b, i)' = IF b = tx.base /\ i \in Erases(tx) THEN Erased ELSE At(b, i),
           Remaining' = Pend(todo, TRUE), UNCHANGED <<val, fault>>
    PROVE  Store!Finish
<1> USE DEF Ranging, Fitting
<1>1. todo # <<>> /\ todo \in Seq(Tx) /\ 1 \in 1 .. Len(todo) /\ tx = todo[1] /\ tx \in Tx /\ val = Erased
  BY RestOfTodo DEF Queue, TypeOK
<1>2. Remaining = Pend(todo, FALSE)
  BY RemainingIs
<1>3. Remaining' \subseteq Remaining /\ Remaining \ Remaining' = Covered(tx)
  BY <1>1, <1>2, PendHead DEF Queue
<1>4. Covered(tx) # {}
  BY <1>1, CoversSome DEF Queue
<1>5. Remaining # {}
  BY <1>3, <1>4
<1>6. \A s \in Flash \X Part : (s[1] = tx.base /\ s[2] \in Erases(tx)) <=> s \in Covered(tx)
  BY <1>1 DEF Covered, Erases
<1>7. View' = [s \in Flash \X Part |-> IF s \in Remaining \ Remaining' THEN Erased ELSE View[s]]
  BY <1>3, <1>6, ViewAt
<1> QED
  BY <1>1, <1>3, <1>5, <1>7 DEF Store!Finish

\* Without a failure a call cut short is Abort.
LEMMA Aborts ==
    ASSUME TypeOK, Queue, Saved, (TypeOK /\ Queue)', fault = FALSE, fault' = FALSE,
           PowerLoss \/ FlashError
    PROVE  Store!Abort
<1> USE DEF Ranging, Fitting, Recovering
<1>1. InFlight /\ st' # Torn /\ ~Unsaved /\ pc' \in {"off", "ready"} /\ todo' = <<>> /\ mode' = mode
  BY DEF PowerLoss, FlashError, TypeOK, Reset, Return
<1>2. Remaining' = {}
  BY <1>1 DEF Remaining
<1>3. StoreType'
  BY StoreTypedNext
<1>4. ASSUME NEW b \in Flash, NEW i \in Part
      PROVE  At(b, i)' = At(b, i) \/ (<<b, i>> \in Remaining /\ At(b, i)' = Junk)
  <2>1. At(b, i)' = Replayed(b)'[i] /\ At(b, i) = Replayed(b)[i]
    BY <1>1 DEF At, Unsaved
  <2>2. ASSUME pc \in {"full", "write"}, i \in Touched(b) PROVE <<b, i>> \in Remaining
    <3>1. CASE pc = "write"
      BY <2>2, <3>1 DEF Remaining, Touched
    <3>2. CASE pc = "full"
      <4>1. todo # <<>> /\ todo \in Seq(Tx) /\ 1 \in 1 .. Len(todo) /\ tx = todo[1] /\ b = tx.base
        BY <2>2, <3>2, RestOfTodo DEF Queue, TypeOK, Touched
      <4>2. Remaining = Pend(todo, FALSE)
        BY <3>2, RemainingIs DEF Committed
      <4>3. <<b, i>> \in Covered(todo[1])
        BY <3>2, <4>1, FullErasesAll DEF Covered
      <4> QED BY <4>1, <4>2, <4>3, PendIs
    <3> QED BY <2>2, <3>1, <3>2
  <2>3. CASE mode = "safe"
    BY <1>1, <2>1, <2>2, <2>3, InFlightReplayed
  <2>4. CASE mode = "perf"
    <3>1. st = None /\ st' = None /\ pc \notin {"rc_erase", "rc_restore", "erase", "restore"}
      BY <1>1, <2>4 DEF Saved, InFlight, Unsaved
    <3>2. Replayed(b) = flash[b] /\ Replayed(b)' = flash'[b]
      BY <3>1 DEF Replayed, None
    <3>3. \/ flash'[b][i] = flash[b][i]
          \/ pc \in {"full", "write"} /\ i \in Touched(b) /\ flash'[b][i] = Junk
      BY <1>1, <3>1 DEF InFlight, Touched
    <3> QED BY <2>1, <2>2, <3>2, <3>3
  <2> QED BY <2>3, <2>4 DEF TypeOK
<1>5. ASSUME NEW s \in Flash \X Part
      PROVE  View'[s] = View[s] \/ (s \in Remaining /\ View'[s] = Junk)
  BY <1>4, ViewAt
<1> QED
  BY <1>2, <1>3, <1>5 DEF Store!Abort, StoreType

LEMMA StoreInit == Init => Store!Init
<1> SUFFICES ASSUME Init PROVE Store!Init
  OBVIOUS
<1>1. StoreType
  BY StoreTyped, TypeInit, QueueInit
<1>2. Remaining = {}
  BY DEF Init, Remaining
<1> QED
  BY <1>1, <1>2 DEF Store!Init, StoreType, Init

LEMMA StoreStep ==
    ASSUME IInv, IInv', [Next]_vars
    PROVE  Store!Next \/ UNCHANGED Store!vars
<1> USE DEF Ranging, Fitting, Recovering
<1>0. TypeOK /\ Queue /\ Saved /\ (TypeOK /\ Queue)' /\ StoreType'
  BY StoreTypedNext DEF IInv
<1>1. fault \in BOOLEAN /\ fault' \in BOOLEAN
  BY <1>0 DEF TypeOK
<1>2. CASE fault' = TRUE
  BY <1>0, <1>2 DEF Store!Next, Store!Break, StoreType
<1>3. CASE fault' = FALSE
  <2>1. fault = FALSE /\ mode' = mode
    <3>1. CASE PowerLoss \/ FlashError
      BY <1>1, <1>3, <3>1 DEF PowerLoss, FlashError
    <3>2. CASE ~(PowerLoss \/ FlashError)
      <4>1. mode' = mode /\ fault' = fault
        BY <3>2 DEF Next, Step, vars, Mount, Unmount, EraseRange, Write, NextPiece, EraseFull, WritePart,
                    DumpErase, DumpWrite, StateErase, StateWrite, FitErase, FitRestore, FitClear,
                    RecoverErase, RecoverRestore, RecoverClear, RestorePart
      <4> QED BY <1>3, <4>1
    <3> QED BY <3>1, <3>2
  <2>2. mode = "perf" => st = None /\ st' = None /\ \A b : Replayed(b) = flash[b] /\ Replayed(b)' = flash'[b]
    <3>1. mode = "perf" => st = None /\ st' = None
      BY <2>1 DEF IInv, Saved
    <3> QED BY <3>1 DEF Replayed, None
  <2>3. ASSUME UNCHANGED <<flash, dump, st>>, pc # "restore", pc' # "restore"
        PROVE  \A b \in Flash, i \in Part : At(b, i)' = At(b, i)
    BY <2>3 DEF At, Replayed
  <2>4. pc # "write" => Remaining = Pend(todo, Committed)
    BY RemainingIs
  <2>5. pc' # "write" => Remaining' = Pend(todo', Committed')
    BY RemainingIs
  <2>6. CASE UNCHANGED vars
    BY <2>6 DEF vars, Store!vars, View, Remaining, Replayed, Committed
  <2>7. ASSUME NEW first \in 0 .. B * F - 1, NEW n \in 1 .. B * F, EraseRange(first, n)
        PROVE  Store!Begin
    <3>1. pc = "ready" /\ pc' = "piece" /\ todo = <<>> /\ UNCHANGED <<flash, dump, st, val, fault>> /\ val = Erased
      BY <1>0, <2>7 DEF EraseRange, Queue
    <3>2. Remaining = {}
      BY <3>1 DEF Remaining
    <3>3. View' = View
      BY <2>3, <3>1, ViewAt
    <3>4. first \in Nat /\ n \in Nat \ {0} /\ first + n <= B * F
      BY <2>7, Sizes DEF EraseRange
    <3>5. todo' \in Seq(Tx) /\ todo' # <<>>
      BY <2>7, <3>4, PiecesCut DEF EraseRange, Cut
    <3>6. 1 \in 1 .. Len(todo') /\ todo'[1] \in Tx /\ ~Committed'
      BY <3>1, <3>5 DEF Committed
    <3>7. Covered(todo'[1]) # {}
      BY <1>0, <3>6, CoversSome DEF Queue
    <3>8. Remaining' # {}
      <4>1. PICK x : x \in Covered(todo'[1]) BY <3>7
      <4>2. Committed' = FALSE BY <3>6, RemainingIs
      <4>3. x \in Pend(todo', FALSE) BY <3>5, <3>6, <4>1, PendIs
      <4> QED BY <2>5, <3>1, <4>2, <4>3
    <3>9. Remaining' \in (SUBSET (Flash \X Part)) \ {{}} /\ (IF Remaining = {} THEN Junk ELSE val)' \in Content
      BY <1>0, <3>8, Zenon DEF StoreType
    <3> QED BY <3>1, <3>2, <3>3, <3>9, Zenon DEF Store!Begin
  <2>8. ASSUME NEW b \in Flash, NEW i \in Part, NEW d \in Data, Write(b, i, d)
        PROVE  Store!Begin
    <3>1. pc = "ready" /\ pc' = "write" /\ todo = <<>> /\ UNCHANGED <<flash, dump, st, fault>> /\ val' = d
      BY <1>0, <2>8 DEF Write, Queue
    <3>2. Remaining = {} /\ Remaining' # {}
      BY <3>1 DEF Remaining
    <3>3. View' = View
      BY <2>3, <3>1, ViewAt
    <3>4. Remaining' \in (SUBSET (Flash \X Part)) \ {{}} /\ (IF Remaining = {} THEN Junk ELSE val)' \in Content
      BY <1>0, <3>2, Zenon DEF StoreType
    <3> QED BY <3>1, <3>2, <3>3, <3>4, Zenon DEF Store!Begin
  <2>9. CASE Mount \/ Unmount
    <3>1. /\ UNCHANGED <<flash, dump, st, fault>> /\ val = Erased /\ val' = Erased
          /\ todo = <<>> /\ todo' = <<>> /\ pc \notin {"restore", "write"} /\ pc' \notin {"restore", "write"}
      BY <1>0, <2>9 DEF Mount, Unmount, Reset, Return, Queue
    <3>2. Remaining = {} /\ Remaining' = {}
      BY <3>1 DEF Remaining
    <3> QED BY <2>3, <3>1, <3>2, Stutters
  <2>10. CASE PowerLoss \/ FlashError
    BY <1>0, <1>3, <2>1, <2>10, Aborts DEF Store!Next
  <2>11. CASE NextPiece
    <3>1. /\ UNCHANGED <<flash, dump, st, fault, val, todo>> /\ pc = "piece"
          /\ pc' \notin {"restore", "write"} /\ ~Committed /\ ~Committed'
      BY <1>0, <2>1, <2>11 DEF NextPiece, Committed, TypeOK
    <3>2. Remaining' = Remaining
      BY <2>4, <2>5, <3>1 DEF Pend
    <3> QED BY <2>3, <3>1, <3>2, Stutters
  <2>12. CASE EraseFull
    <3>1. pc = "full" /\ pc' = "piece" /\ todo # <<>> /\ todo' = Tail(todo) /\ ~Committed /\ ~Committed'
      BY <1>0, <2>12 DEF EraseFull, Committed, Queue
    <3>2. st = None /\ st' = None /\ UNCHANGED <<val, fault>>
      BY <1>0, <2>1, <2>12 DEF EraseFull, Saved
    <3>3. Remaining' = Pend(todo, TRUE)
      <4>1. Committed' = FALSE BY <3>1, RemainingIs
      <4> QED BY <1>0, <2>5, <3>1, <4>1, PendTail DEF TypeOK
    <3>4. ASSUME NEW b \in Flash, NEW i \in Part
          PROVE  At(b, i)' = IF b = tx.base /\ i \in Erases(tx) THEN Erased ELSE At(b, i)
      <4>1. At(b, i) = flash[b][i] /\ At(b, i)' = flash'[b][i]
        BY <3>1, <3>2 DEF At, Replayed, None
      <4>2. flash'[b][i] = IF b = tx.base THEN Erased ELSE flash[b][i]
        BY <1>0, <2>12 DEF EraseFull, TypeOK, Blank
      <4> QED BY <1>0, <3>1, <4>1, <4>2, FullErasesAll
    <3> QED BY <1>0, <3>1, <3>2, <3>3, <3>4, Finishes DEF Store!Next
  <2>13. CASE WritePart
    <3>1. /\ pc = "write" /\ pc' = "ready" /\ todo' = <<>> /\ fault' = fault
          /\ st = None /\ st' = None /\ tx.base \in Flash /\ tx.off \in Part
      BY <1>0, <2>1, <2>13 DEF WritePart, Saved, Queue, TypeOK, Tx
    <3>2. Remaining = {<<tx.base, tx.off>>} /\ Remaining' = {}
      BY <3>1 DEF Remaining
    <3>3. ASSUME NEW b \in Flash, NEW i \in Part
          PROVE  At(b, i)' = IF b = tx.base /\ i = tx.off THEN val ELSE At(b, i)
      <4>1. At(b, i) = flash[b][i] /\ At(b, i)' = flash'[b][i]
        BY <3>1 DEF At, Replayed, None
      <4>2. flash'[b][i] = IF b = tx.base /\ i = tx.off THEN val ELSE flash[b][i]
        BY <1>0, <2>13 DEF WritePart, TypeOK
      <4> QED BY <4>1, <4>2
    <3>4. View' = [s \in Flash \X Part |-> IF s \in Remaining \ Remaining' THEN val ELSE View[s]]
      BY <3>1, <3>2, <3>3, ViewAt
    <3> QED BY <3>1, <3>2, <3>4 DEF Store!Next, Store!Finish
  <2>14. CASE DumpErase \/ DumpWrite \/ StateErase
    <3>1. /\ pc \notin {"restore", "write"} /\ pc' \notin {"restore", "write"}
          /\ UNCHANGED <<val, fault, todo>> /\ ~Committed /\ ~Committed'
      BY <2>14 DEF DumpErase, DumpWrite, StateErase, Committed
    <3>2. \A b \in Flash, i \in Part : At(b, i)' = At(b, i)
      BY <1>0, <2>1, <2>14, <3>1, ReplayedSame DEF At
    <3>3. Remaining' = Remaining
      BY <2>4, <2>5, <3>1 DEF Pend
    <3> QED BY <3>1, <3>2, <3>3, Stutters
  <2>15. CASE StateWrite
    <3>1. /\ pc = "state_write" /\ pc' = "erase" /\ mode = "safe" /\ todo' = todo
          /\ UNCHANGED <<val, fault, flash, dump, tx>> /\ ~Committed /\ Committed' /\ st' = Noted(tx)
      BY <1>0, <2>1, <2>15 DEF StateWrite, Committed, Saved, TypeOK
    <3>2. st.sign # "ok" /\ \A i \in Kept(tx) : dump[i] = flash[tx.base][i]
      BY <1>0, <2>1, <3>1 DEF Saved, None
    <3>3. \A b \in Flash, i \in Part :
            At(b, i)' = IF b = tx.base /\ i \in Erases(tx) THEN Erased ELSE At(b, i)
      BY <1>0, <3>1, <3>2, ReplayedCommit DEF At
    <3>4. Remaining' = Pend(todo, TRUE)
      BY <2>5, <3>1 DEF Pend
    <3> QED BY <1>0, <3>1, <3>3, <3>4, Finishes DEF Store!Next
  <2>16. CASE FitErase /\ mode = "safe"
    <3>1. /\ pc = "erase" /\ pc' = "restore" /\ UNCHANGED <<val, fault, todo>> /\ Committed /\ Committed'
      BY <2>1, <2>16 DEF FitErase, Committed
    <3>2. \A b \in Flash, i \in Part : At(b, i)' = At(b, i)
      BY <1>0, <2>1, <2>16, <3>1, ReplayedSame DEF At
    <3>3. Remaining' = Remaining
      BY <2>4, <2>5, <3>1 DEF Pend
    <3> QED BY <3>1, <3>2, <3>3, Stutters
  <2>17. CASE FitErase /\ mode = "perf"
    <3>1. /\ pc = "erase" /\ pc' = "restore" /\ UNCHANGED <<val, fault, todo, tx, buf>> /\ ~Committed /\ Committed'
          /\ idx' = 0
      BY <2>1, <2>17 DEF FitErase, Committed
    <3>2. ASSUME NEW b \in Flash, NEW i \in Part
          PROVE  At(b, i)' = IF b = tx.base /\ i \in Erases(tx) THEN Erased ELSE At(b, i)
      <4>1. At(b, i) = flash[b][i]
        BY <2>2, <2>17, <3>1 DEF At
      <4>2. At(b, i)' = IF b = tx.base /\ i \in Kept(tx) THEN buf[i] ELSE flash'[b][i]
        BY <1>0, <2>1, <2>2, <2>17, <3>1, LeftEnds DEF At, TypeOK
      <4>3. flash'[b][i] = IF b = tx.base THEN Erased ELSE flash[b][i]
        BY <1>0, <2>17 DEF FitErase, TypeOK, Blank
      <4>4. \A k \in Kept(tx) : buf[k] = flash[tx.base][k]
        BY <1>0, <3>1 DEF Saved
      <4> QED BY <4>1, <4>2, <4>3, <4>4 DEF Erases
    <3>3. Remaining' = Pend(todo, TRUE)
      BY <2>5, <3>1 DEF Pend
    <3> QED BY <1>0, <3>1, <3>2, <3>3, Finishes DEF Store!Next
  <2>18. ASSUME NEW j \in Part, RestorePart(j), FitRestore \/ RecoverRestore
         PROVE  UNCHANGED Store!vars
    <3>1. pc' = pc /\ UNCHANGED <<val, fault, todo, tx>> /\ pc # "write"
      BY <1>0, <2>18, LeftNext DEF FitRestore, RecoverRestore
    <3>2. Remaining' = Remaining
      <4>1. Committed' = Committed BY <2>1, <3>1 DEF Committed
      <4> QED BY <2>4, <2>5, <3>1, <4>1 DEF Pend
    <3>3. ASSUME NEW b \in Flash, NEW i \in Part PROVE At(b, i)' = At(b, i)
      <4>1. CASE mode = "safe"
        BY <1>0, <2>1, <2>18, <4>1, ReplayedSame DEF At
      <4>2. CASE mode = "perf"
        <5>1. pc = "restore"
          BY <1>0, <2>18, <4>2 DEF FitRestore, RecoverRestore, Saved
        <5>2. CASE b = tx.base /\ i = j
          BY <1>0, <2>1, <2>2, <2>18, <3>1, <4>2, <5>1, <5>2, LeftNext DEF At, RestorePart
        <5>3. CASE ~(b = tx.base /\ i = j)
          <6>1. flash'[b][i] = flash[b][i] /\ buf' = buf
            <7>1. \A bb \in Flash, k \in Part : ~(bb = tx.base /\ k = j) => flash'[bb][k] = flash[bb][k]
              BY <1>0, <2>18, LeftNext, Zenon
            <7>2. buf' = buf BY <2>18 DEF RestorePart
            <7> QED BY <5>3, <7>1, <7>2, Zenon
          <6>2. b = tx.base => (i \in Left(tx, idx') <=> i \in Left(tx, idx))
            BY <1>0, <2>18, <5>3, LeftNext
          <6>3. Replayed(b)[i] = flash[b][i] /\ Replayed(b)'[i] = flash'[b][i]
            BY <2>2, <4>2
          <6> QED BY <2>1, <3>1, <4>2, <5>1, <6>1, <6>2, <6>3 DEF At
        <5> QED BY <5>2, <5>3
      <4> QED BY <1>0, <4>1, <4>2 DEF TypeOK
    <3> QED BY <3>1, <3>2, <3>3, Stutters
  <2>19. ASSUME ~ \E j \in Part : RestorePart(j), FitRestore PROVE UNCHANGED Store!vars
    <3>1. /\ pc = "restore" /\ Left(tx, idx) = {} /\ UNCHANGED <<flash, dump, st, buf, tx, idx, val, fault>>
          /\ pc' \notin {"restore", "write"} /\ Committed = TRUE
      BY <1>0, <2>19 DEF FitRestore, Committed
    <3>2. \A b \in Flash, i \in Part : At(b, i)' = At(b, i)
      BY <3>1 DEF At, Replayed
    <3>3. Remaining' = Remaining
      <4>1. CASE mode = "safe"
        <5>1. todo' = todo /\ Committed' = TRUE BY <2>19, <4>1 DEF FitRestore, Committed
        <5> QED BY <2>4, <2>5, <3>1, <5>1
      <4>2. CASE mode = "perf"
        <5>1. todo # <<>> /\ todo' = Tail(todo) /\ Committed' = FALSE
          BY <1>0, <2>19, <3>1, <4>2 DEF FitRestore, Committed, Queue
        <5> QED BY <1>0, <2>4, <2>5, <3>1, <5>1, PendTail DEF TypeOK
      <4> QED BY <1>0, <4>1, <4>2 DEF TypeOK
    <3> QED BY <3>1, <3>2, <3>3, Stutters
  <2>20. CASE FitClear
    <3>1. /\ pc = "clear" /\ pc' = "piece" /\ UNCHANGED <<val, fault>> /\ Committed = TRUE /\ Committed' = FALSE
          /\ todo # <<>> /\ todo' = Tail(todo)
      BY <1>0, <2>20 DEF FitClear, Committed, Queue
    <3>2. \A b \in Flash, i \in Part : At(b, i)' = At(b, i)
      BY <1>0, <2>1, <2>20, <3>1, ReplayedSame DEF At
    <3>3. Remaining' = Remaining
      BY <1>0, <2>4, <2>5, <3>1, PendTail DEF TypeOK
    <3> QED BY <3>1, <3>2, <3>3, Stutters
  <2>21. ASSUME RecoverErase \/ RecoverClear \/ (RecoverRestore /\ ~ \E j \in Part : RestorePart(j))
         PROVE  UNCHANGED Store!vars
    <3>1. /\ pc \notin {"restore", "write"} /\ pc' \notin {"restore", "write"}
          /\ UNCHANGED <<val, fault, todo>> /\ ~Committed /\ ~Committed'
      BY <2>21 DEF RecoverErase, RecoverRestore, RecoverClear, Committed
    <3>2. \A b \in Flash, i \in Part : At(b, i)' = At(b, i)
      BY <1>0, <2>1, <2>21, <3>1, ReplayedSame DEF At
    <3>3. Remaining' = Remaining
      BY <2>4, <2>5, <3>1 DEF Pend
    <3> QED BY <3>1, <3>2, <3>3, Stutters
  <2> QED
    BY <1>0, <2>6, <2>7, <2>8, <2>9, <2>10, <2>11, <2>12, <2>13, <2>14, <2>15, <2>16, <2>17, <2>18,
       <2>19, <2>20, <2>21 DEF Next, Step, Store!Next, TypeOK
<1> QED
  BY <1>1, <1>2, <1>3

\* Both classes implement an array of small sectors: the neighbours of an erased
\* sector never show that the flash sector they share was erased and written
\* again, and a call cut short leaves unknown only what it had still to change.
THEOREM ImplementsArray == Spec => ImplementsStore
<1>1. IInv /\ IInv' /\ [Next]_vars => [Store!Next]_Store!vars
  BY StoreStep
<1> QED
  BY <1>1, StoreInit, Invariance, PTL DEF Spec, ImplementsStore, Store!Spec
==============================================================================
