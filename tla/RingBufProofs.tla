--------------------------- MODULE RingBufProofs ---------------------------
(***************************************************************************)
(* Proofs about RingBuf, for buffers of the three types and of any size,   *)
(* items of any length, and whatever the memory out of use shows.          *)
(***************************************************************************)
EXTENDS RingBuf, FiniteSetTheorems, WellFoundedInduction, TLAPS

\* How far behind pucFree the address p is, in a buffer of S bytes.
Off(S, F, p) == IF p < F THEN p - F + S ELSE p - F

\* p is the address d bytes behind pucFree; pucFree itself is also S bytes behind it.
IsAt(S, F, p, d) == p \in 0 .. S - 1 /\ (d = Off(S, F, p) \/ (p = F /\ d = S))

Flags(h, p) == h[p].uxItemFlags
IsDummy(h, p) == "DUMMY" \in Flags(h, p)

\* The address of the header behind the one at p.
NextOf(S, h, p) ==
    LET e == IF IsDummy(h, p) THEN 0 ELSE End(p, h[p].xItemLen)
    IN IF S - e < rbHEADER_SIZE THEN 0 ELSE e

\* How far behind pucFree what belongs to the header at p reaches.
Reach(S, F, h, p) == IF NextOf(S, h, p) = F THEN S ELSE Off(S, F, NextOf(S, h, p))

Fits(S, p) == p \in Nat /\ p % 4 = 0 /\ p + rbHEADER_SIZE <= S

HeaderSet == [xItemLen : Nat, uxItemFlags : SUBSET Flag]

Headers(S, h) ==
    \A p \in DOMAIN h :
        /\ Fits(S, p) /\ h[p] \in HeaderSet
        /\ IsDummy(h, p) \/ End(p, h[p].xItemLen) <= S

\* The headers lie one behind the other and use the first u bytes behind pucFree.
Laid(S, F, h, u) ==
    /\ \A p \in DOMAIN h :
          /\ Off(S, F, p) < Reach(S, F, h, p) /\ Reach(S, F, h, p) <= u
          /\ NextOf(S, h, p) \in DOMAIN h \/ Reach(S, F, h, p) = u
          /\ \A r \in DOMAIN h :
                Off(S, F, r) <= Off(S, F, p) \/ Off(S, F, r) >= Reach(S, F, h, p)
    /\ u = 0 <=> DOMAIN h = {}
    /\ u > 0 => F \in DOMAIN h

Room(S) == S \in Nat /\ S % 4 = 0

Layout(S, F, h, u) ==
    /\ Room(S) /\ Fits(S, F) /\ u \in 0 .. S
    /\ Headers(S, h) /\ Laid(S, F, h, u)

\* A dummy is followed by the item at the start of the buffer.
Dummies(F, h) ==
    \A p \in DOMAIN h : IsDummy(h, p) => F # 0 /\ 0 \in DOMAIN h /\ ~IsDummy(h, 0)

\* d bytes behind pucFree a header begins, or what is in use ends.
Edge(S, F, h, u, d) == d \in 0 .. u /\ (d = u \/ \E p \in DOMAIN h : Off(S, F, p) = d)

Entry == [n : Nat, at : Seq(Nat), done : BOOLEAN, taken : BOOLEAN]

\* What the headers of the items of q say.
Parted(T, S, F, h, q0, ro) ==
    \A i \in 1 .. Len(q0) :
        /\ Len(q0[i].at) \in 1 .. 2
        /\ \A k \in 1 .. Len(q0[i].at) :
              /\ q0[i].at[k] \in DOMAIN h
              /\ "DUMMY" \notin Flags(h, q0[i].at[k]) /\ "FREE" \notin Flags(h, q0[i].at[k])
              /\ q0[i].taken <=> Off(S, F, q0[i].at[k]) < ro
              /\ T = NOSPLIT => (q0[i].done <=> "WRITTEN" \in Flags(h, q0[i].at[k]))

\* The items lie in the order they were acquired in.
Ordered(S, F, q0) ==
    \A i, j \in 1 .. Len(q0) : \A k \in 1 .. Len(q0[i].at), l \in 1 .. Len(q0[j].at) :
        (i < j \/ (i = j /\ k < l)) => Off(S, F, q0[i].at[k]) < Off(S, F, q0[j].at[l])

\* The item e is in one piece, or split in two.
Whole(T, S, h, e) ==
    \/ /\ Len(e.at) = 1 /\ e.n = h[e.at[1]].xItemLen
       /\ "SPLIT" \notin Flags(h, e.at[1])
    \/ /\ T = ALLOWSPLIT
       /\ Len(e.at) = 2 /\ e.n = h[e.at[1]].xItemLen + h[e.at[2]].xItemLen
       /\ "SPLIT" \in Flags(h, e.at[1]) /\ e.at[2] = NextOf(S, h, e.at[1])

Sized(T, S, h, q0) ==
    \A i \in 1 .. Len(q0) :
        /\ q0[i].taken \/ T = ALLOWSPLIT => q0[i].done
        /\ ~q0[i].taken => Whole(T, S, h, q0[i])

\* Every header is a dummy, has been returned, or is of an item of q.
Owned(S, F, h, q0, ro) ==
    \A p \in DOMAIN h :
        /\ "FREE" \in Flags(h, p) => Off(S, F, p) < ro
        /\ \/ "DUMMY" \in Flags(h, p) \/ "FREE" \in Flags(h, p)
           \/ \E i \in 1 .. Len(q0) : \E k \in 1 .. Len(q0[i].at) : q0[i].at[k] = p

\* pucFree has gone as far as it could.
Freed(F, h) ==
    F \in DOMAIN h =>
        /\ "FREE" \notin Flags(h, F)
        /\ IsDummy(h, F) => \A p \in DOMAIN h : "FREE" \notin Flags(h, p)

\* So has pucWrite, wo bytes behind pucFree.
WrittenTo(T, S, F, h, u, wo) ==
    /\ Edge(S, F, h, u, wo)
    /\ T = ALLOWSPLIT => wo = u
    /\ T = NOSPLIT =>
          \A p \in DOMAIN h :
             /\ Off(S, F, p) < wo => "WRITTEN" \in Flags(h, p)
             /\ Off(S, F, p) = wo => /\ "WRITTEN" \notin Flags(h, p)
                                     /\ IsDummy(h, p) => "WRITTEN" \notin Flags(h, 0)

\* The headers xItemsWaiting counts.
Waiting(T, S, F, h, ro) ==
    {p \in DOMAIN h : /\ Off(S, F, p) >= ro /\ "DUMMY" \notin Flags(h, p)
                      /\ T = NOSPLIT => "WRITTEN" \in Flags(h, p)}

Good(T, S, F, h, q0, u, ro, wo) ==
    /\ Layout(S, F, h, u) /\ Dummies(F, h)
    /\ Edge(S, F, h, u, ro) /\ ro <= wo
    /\ q0 \in Seq(Entry)
    /\ Parted(T, S, F, h, q0, ro) /\ Ordered(S, F, q0) /\ Sized(T, S, h, q0)
    /\ Owned(S, F, h, q0, ro) /\ Freed(F, h) /\ WrittenTo(T, S, F, h, u, wo)

\* Where the pointers are: u, ro and wo bytes behind pucFree.
Pointers(u, ro, wo) ==
    /\ Fits(xSize, pucAcquire) /\ IsAt(xSize, pucFree, pucAcquire, u)
    /\ full <=> u = xSize
    /\ IsAt(xSize, pucFree, pucRead, ro)
    /\ IsAt(xSize, pucFree, pucWrite, wo)

Items ==
    \E u, ro, wo \in 0 .. xSize :
        /\ Good(type, xSize, pucFree, mem, q, u, ro, wo) /\ Pointers(u, ro, wo)
        /\ xItemsWaiting = Cardinality(Waiting(type, xSize, pucFree, mem, ro))

\* The bytes from ro to u behind pucFree are the ones that were sent and not
\* retrieved; the ones before are retrieved and not returned.
Bytes ==
    /\ pucFree \in Pos /\ pucWrite = pucAcquire /\ DOMAIN mem \subseteq Pos
    /\ receiver => q = <<>>
    /\ \E u, ro \in 0 .. xSize :
          /\ IsAt(xSize, pucFree, pucAcquire, u)
          /\ full <=> u = xSize
          /\ IsAt(xSize, pucFree, pucRead, ro) /\ ro <= u
          /\ xItemsWaiting = u - ro /\ sent = Nth(got + u - ro)
          /\ \A p \in Pos :
                ro <= Off(xSize, pucFree, p) /\ Off(xSize, pucFree, p) < u =>
                    p \in DOMAIN mem /\ mem[p] = Nth(got + Off(xSize, pucFree, p) - ro)
          /\ q = <<>> \/ (Len(q) = 1 /\ q[1].taken /\ Len(q[1].at) = 1)
          /\ ro = 0 <=> q = <<>>

RInv ==
    /\ type \in Types /\ xSize \in Sizes[type]
    /\ sent \in 0 .. Round - 1 /\ got \in 0 .. Round - 1
    /\ full \in BOOLEAN /\ receiver \in BOOLEAN
    /\ sender \in Lens[type] \cup {NoWait}
    /\ fault = "none" \/ (fault = "early" /\ type = NOSPLIT)
    /\ fault = "none" =>
          /\ IF type = BYTEBUF THEN Bytes ELSE Items
          /\ NoLostWakeup
-----------------------------------------------------------------------------
(***************************************************************************)
(* The loops.                                                              *)
(***************************************************************************)
\* A set of numbers has a least element.
LEMMA Least ==
  ASSUME NEW T, T \subseteq Nat, T # {}
  PROVE  \E x \in T : \A y \in T : x <= y
<1> DEFINE R == OpToRel(<, Nat)
<1>1. IsWellFoundedOn(R, Nat)
  BY NatLessThanWellFounded
<1>2. \A y, x \in Nat : y < x => <<y, x>> \in R
  BY DEF OpToRel
<1> HIDE DEF R
<1>3. PICK x \in T : \A y \in T : ~(<<y, x>> \in R)
  BY <1>1, WFMin
<1>4. ASSUME NEW y \in T PROVE x <= y
  <2>1. x \in Nat /\ y \in Nat
    OBVIOUS
  <2>2. ~(y < x)
    BY <1>2, <1>3, <2>1
  <2> QED BY <2>1, <2>2
<1> QED BY <1>4

\* Induction: a set with 0 that is closed under adding 1 holds all numbers.
LEMMA Inductive ==
  ASSUME NEW S, 0 \in S, \A n \in Nat : n \in S => n + 1 \in S
  PROVE  \A n \in Nat : n \in S
<1>1. SUFFICES ASSUME Nat \ S # {} PROVE FALSE
  OBVIOUS
<1>2. PICK x \in Nat \ S : \A y \in Nat \ S : x <= y
  BY <1>1, Least
<1>3. x - 1 \in Nat /\ x - 1 \in S
  BY <1>2
<1> QED BY <1>2, <1>3

\* A function of the number of turns exists: turn k goes from x to step[k][x].
LEMMA Iterates ==
  ASSUME NEW N \in Nat, NEW x0 \in Int, NEW step \in [1 .. N -> [Int -> Int]]
  PROVE  \E f \in [0 .. N -> Int] : f[0] = x0 /\ \A k \in 1 .. N : f[k] = step[k][f[k - 1]]
<1> DEFINE Run(n) == \E f \in [0 .. n -> Int] :
                        f[0] = x0 /\ \A k \in 1 .. n : f[k] = step[k][f[k - 1]]
           S == {n \in Nat : n <= N => Run(n)}
<1>1. 0 \in S
  <2> DEFINE f == [k \in 0 .. 0 |-> x0]
  <2>1. f \in [0 .. 0 -> Int] /\ f[0] = x0 /\ \A k \in 1 .. 0 : f[k] = step[k][f[k - 1]]
    OBVIOUS
  <2> HIDE DEF f
  <2>2. Run(0)
    BY <2>1
  <2> QED BY <2>2
<1>2. ASSUME NEW n \in Nat, n \in S PROVE n + 1 \in S
  <2> HIDE DEF Run
  <2>1. SUFFICES ASSUME n + 1 <= N PROVE Run(n + 1)
    OBVIOUS
  <2>2. PICK f \in [0 .. n -> Int] : f[0] = x0 /\ \A k \in 1 .. n : f[k] = step[k][f[k - 1]]
    <3>1. Run(n)
      BY <1>2, <2>1
    <3> QED BY <3>1 DEF Run
  <2> DEFINE g == [k \in 0 .. n + 1 |-> IF k <= n THEN f[k] ELSE step[n + 1][f[n]]]
  <2>3. step[n + 1][f[n]] \in Int
    BY <2>1, <2>2
  <2>4. g \in [0 .. n + 1 -> Int]
    BY <2>2, <2>3
  <2>5. g[0] = x0
    BY <2>2
  <2>6. ASSUME NEW k \in 1 .. n + 1 PROVE g[k] = step[k][g[k - 1]]
    <3>1. k - 1 \in 0 .. n /\ g[k - 1] = f[k - 1]
      OBVIOUS
    <3>2. CASE k <= n
      <4>1. k \in 1 .. n /\ g[k] = f[k]
        BY <3>2
      <4> QED BY <2>2, <3>1, <4>1
    <3>3. CASE k = n + 1
      <4>1. g[k] = step[n + 1][f[n]] /\ k - 1 = n
        BY <3>3
      <4> QED BY <3>1, <3>3, <4>1
    <3> QED BY <3>2, <3>3
  <2> HIDE DEF g
  <2> QED BY <2>4, <2>5, <2>6 DEF Run
<1> HIDE DEF Run
<1>3. \A n \in Nat : n \in S
  <2> HIDE DEF S
  <2> QED BY <1>1, <1>2, Inductive
<1>4. Run(N)
  BY <1>3
<1> QED BY <1>4 DEF Run

\* What the definition of Walk says of it.
IsWalk(at, h, p, first, later) ==
    /\ Turns \in Nat
    /\ at \in [0 .. Turns -> Int]
    /\ at[0] = p
    /\ \A k \in 1 .. Turns :
          at[k] = IF at[k - 1] \in (IF k = 1 THEN first ELSE later)
                  THEN After(at[k - 1], h[at[k - 1]]) ELSE at[k - 1]

\* A walk is what its definition says, when the headers it may pass have lengths.
LEMMA WalkTurns ==
  ASSUME xSize \in Nat, NEW h, NEW p \in Int, NEW first, NEW later,
         \A x \in first \cup later : x \in Int => h[x].xItemLen \in Nat
  PROVE  IsWalk(Walk(h, p, first, later), h, p, first, later)
<1> DEFINE N == Turns
           go(k, x) == IF x \in (IF k = 1 THEN first ELSE later) THEN After(x, h[x]) ELSE x
           step == [k \in 1 .. N |-> [x \in Int |-> go(k, x)]]
           Body(g) == [k \in 0 .. N |-> IF k = 0 THEN p ELSE go(k, g[k - 1])]
           at == Walk(h, p, first, later)
<1>1. N \in Nat
  BY DEF Turns, rbHEADER_SIZE
<1>2. ASSUME NEW k \in 1 .. N, NEW x \in Int PROVE go(k, x) \in Int
  <2>1. CASE x \in (IF k = 1 THEN first ELSE later)
    <3>1. h[x].xItemLen \in Nat
      BY <2>1
    <3> QED BY <2>1, <3>1 DEF After, Wrap, End, rbHEADER_SIZE, rbALIGN_SIZE
  <2>2. CASE ~(x \in (IF k = 1 THEN first ELSE later))
    BY <2>2
  <2> QED BY <2>1, <2>2
<1> HIDE DEF go, N
<1>3. step \in [1 .. N -> [Int -> Int]]
  BY <1>2
<1>4. PICK f \in [0 .. N -> Int] : f[0] = p /\ \A k \in 1 .. N : f[k] = step[k][f[k - 1]]
  <2> HIDE DEF step
  <2> QED BY <1>1, <1>3, Iterates, Zenon
<1>5. f = Body(f)
  <2>1. ASSUME NEW k \in 0 .. N PROVE f[k] = Body(f)[k]
    <3>1. CASE k = 0
      BY <1>4, <3>1
    <3>2. CASE k # 0
      <4>1. k \in 1 .. N /\ k - 1 \in 0 .. N
        BY <1>1, <3>2
      <4>2. f[k - 1] \in Int
        BY <4>1
      <4> QED BY <1>4, <3>2, <4>1, <4>2
    <3> QED BY <3>1, <3>2
  <2> QED BY <2>1
<1>6. at = CHOOSE g : g = Body(g)
  BY DEF Walk, go, N
<1>7. at = Body(at)
  <2> HIDE DEF at, Body
  <2> QED BY <1>5, <1>6
<1>8. at[0] = p /\ \A k \in 1 .. N : at[k] = go(k, at[k - 1])
  <2> HIDE DEF at
  <2>1. \A k \in 0 .. N : at[k] = IF k = 0 THEN p ELSE go(k, at[k - 1])
    BY <1>7
  <2> QED BY <1>1, <2>1
<1>9. at \in [0 .. N -> Int]
  <2> DEFINE S == {k \in Nat : k <= N => at[k] \in Int}
  <2> HIDE DEF at
  <2>1. 0 \in S
    BY <1>8
  <2>2. ASSUME NEW k \in Nat, k \in S PROVE k + 1 \in S
    <3>1. SUFFICES ASSUME k + 1 <= N PROVE at[k + 1] \in Int
      OBVIOUS
    <3>2. k + 1 \in 1 .. N /\ (k + 1) - 1 = k /\ at[k] \in Int
      BY <1>1, <2>2, <3>1
    <3>3. at[k + 1] = go(k + 1, at[k])
      BY <1>8, <3>2
    <3> QED BY <1>2, <3>2, <3>3
  <2>3. \A k \in Nat : k \in S
    <3> HIDE DEF S
    <3> QED BY <2>1, <2>2, Inductive
  <2>4. \A k \in 0 .. N : at[k] \in Int
    BY <1>1, <2>3
  <2>5. at = [k \in 0 .. N |-> at[k]]
    <3> DEFINE e(k) == IF k = 0 THEN p ELSE go(k, at[k - 1])
    <3>1. at = [k \in 0 .. N |-> e(k)]
      BY <1>7
    <3> HIDE DEF e
    <3> QED BY <3>1
  <2> QED BY <2>4, <2>5
<1> QED BY <1>1, <1>8, <1>9 DEF go, N, IsWalk
-----------------------------------------------------------------------------
(***************************************************************************)
(* Where the headers lie.                                                  *)
(***************************************************************************)
\* Addresses and distances from pucFree correspond.
LEMMA SameDistance ==
  ASSUME NEW S \in Nat, NEW F \in 0 .. S - 1, NEW x \in 0 .. S - 1, NEW y \in 0 .. S - 1,
         Off(S, F, x) = Off(S, F, y)
  PROVE  x = y
BY DEF Off

LEMMA Distances ==
  ASSUME NEW S \in Nat, NEW F \in 0 .. S - 1
  PROVE  /\ \A p \in 0 .. S - 1 : Off(S, F, p) \in 0 .. S - 1
         /\ \A p, r \in 0 .. S - 1 : Off(S, F, p) = Off(S, F, r) => p = r
         /\ Off(S, F, F) = 0
BY DEF Off

\* An aligned length.
LEMMA Aligned ==
  ASSUME NEW n \in Nat
  PROVE  /\ rbALIGN_SIZE(n) \in Nat /\ rbALIGN_SIZE(n) % 4 = 0
         /\ rbALIGN_SIZE(n) >= n /\ rbALIGN_SIZE(n) < n + 4
         /\ n % 4 = 0 => rbALIGN_SIZE(n) = n
BY DEF rbALIGN_SIZE

\* What belongs to a header is its slot: room for the header and the data.
LEMMA Slot ==
  ASSUME NEW S, Room(S), NEW F, Fits(S, F), NEW h, NEW p \in DOMAIN h,
         Fits(S, p), h[p].xItemLen \in Nat,
         IsDummy(h, p) \/ End(p, h[p].xItemLen) <= S
  PROVE  /\ Fits(S, NextOf(S, h, p))
         /\ IsDummy(h, p) => NextOf(S, h, p) = 0
         /\ Reach(S, F, h, p) \in 0 .. S
         /\ IsAt(S, F, NextOf(S, h, p), Reach(S, F, h, p))
         /\ Off(S, F, p) < Reach(S, F, h, p) =>
               /\ Off(S, F, p) + 8 <= Reach(S, F, h, p)
               /\ IsDummy(h, p) => F <= p
               /\ ~IsDummy(h, p) =>
                     /\ Off(S, F, p) + (End(p, h[p].xItemLen) - p) <= Reach(S, F, h, p)
                     /\ p >= F \/ End(p, h[p].xItemLen) <= F
<1> DEFINE n == NextOf(S, h, p)
           e == End(p, h[p].xItemLen)
           A == rbALIGN_SIZE(h[p].xItemLen)
<1>1. A \in Nat /\ A % 4 = 0
  BY Aligned
<1>0. S \in Nat
  BY DEF Room
<1>2. e = p + 8 + A /\ e \in Nat /\ e % 4 = 0
  <2> HIDE DEF A
  <2>1. e = p + 8 + A
    BY DEF A, End, rbHEADER_SIZE
  <2> QED BY <1>1, <2>1 DEF Fits
<1>3. n = IF IsDummy(h, p) \/ S - e < 8 THEN 0 ELSE e
  BY DEF NextOf, rbHEADER_SIZE, Fits
<1> HIDE DEF n, e, A
<1>4. Fits(S, n) /\ (IsDummy(h, p) => n = 0)
  BY <1>0, <1>2, <1>3 DEF Fits, rbHEADER_SIZE
<1>5. Reach(S, F, h, p) = IF n = F THEN S ELSE Off(S, F, n)
  BY DEF Reach, n
<1>6. Reach(S, F, h, p) \in 0 .. S /\ IsAt(S, F, n, Reach(S, F, h, p))
  BY <1>0, <1>4, <1>5 DEF IsAt, Off, Fits, rbHEADER_SIZE
<1>7. ASSUME Off(S, F, p) < Reach(S, F, h, p)
      PROVE  /\ Off(S, F, p) + 8 <= Reach(S, F, h, p)
             /\ IsDummy(h, p) => F <= p
             /\ ~IsDummy(h, p) =>
                     /\ Off(S, F, p) + (e - p) <= Reach(S, F, h, p)
                     /\ p >= F \/ e <= F
  <2>1. CASE IsDummy(h, p)
    BY <1>0, <1>3, <1>5, <1>7, <2>1 DEF Off, Fits, rbHEADER_SIZE
  <2>2. CASE ~IsDummy(h, p)
    <3>1. e <= S
      BY <2>2 DEF e
    <3>2. /\ F \in Nat /\ F < S /\ p \in Nat /\ p < S /\ e \in Nat /\ e >= p + 8
          /\ n = IF S - e < 8 THEN 0 ELSE e
      BY <1>0, <1>1, <1>2, <1>3, <2>2 DEF Fits, rbHEADER_SIZE
    <3> DEFINE r == Reach(S, F, h, p)
    <3>3. r = (IF n = F THEN S ELSE Off(S, F, n)) /\ Off(S, F, p) < r
      BY <1>5, <1>7
    <3> HIDE DEF r
    <3>4. /\ Off(S, F, p) + 8 <= r
          /\ Off(S, F, p) + (e - p) <= r
          /\ p >= F \/ e <= F
      <4>1. CASE S - e < 8
        BY <1>0, <3>1, <3>2, <3>3, <4>1 DEF Off
      <4>2. CASE ~(S - e < 8)
        BY <1>0, <3>1, <3>2, <3>3, <4>2 DEF Off
      <4> QED BY <4>1, <4>2
    <3> QED BY <2>2, <3>4 DEF r
  <2> QED BY <2>1, <2>2
<1> QED BY <1>4, <1>6, <1>7 DEF n, e

\* The headers, one behind the other.
LEMMA Laying ==
  ASSUME NEW S, NEW F, NEW h, NEW u, Layout(S, F, h, u), NEW p \in DOMAIN h
  PROVE  /\ p \in 0 .. S - 1 /\ Fits(S, p) /\ Off(S, F, p) \in 0 .. S - 1
         /\ Reach(S, F, h, p) \in 0 .. u /\ Off(S, F, p) + 8 <= Reach(S, F, h, p)
         /\ Fits(S, NextOf(S, h, p)) /\ IsAt(S, F, NextOf(S, h, p), Reach(S, F, h, p))
         /\ NextOf(S, h, p) \in DOMAIN h \/ Reach(S, F, h, p) = u
         /\ \A r \in DOMAIN h :
               Off(S, F, r) <= Off(S, F, p) \/ Off(S, F, r) >= Reach(S, F, h, p)
<1>1. /\ Fits(S, p) /\ h[p].xItemLen \in Nat
      /\ IsDummy(h, p) \/ End(p, h[p].xItemLen) <= S
  BY DEF Layout, Headers, HeaderSet
<1>2. /\ Off(S, F, p) < Reach(S, F, h, p) /\ Reach(S, F, h, p) <= u
      /\ NextOf(S, h, p) \in DOMAIN h \/ Reach(S, F, h, p) = u
      /\ \A r \in DOMAIN h :
               Off(S, F, r) <= Off(S, F, p) \/ Off(S, F, r) >= Reach(S, F, h, p)
  BY DEF Layout, Laid
<1>3. /\ Fits(S, NextOf(S, h, p)) /\ IsAt(S, F, NextOf(S, h, p), Reach(S, F, h, p))
      /\ Reach(S, F, h, p) \in 0 .. S /\ Off(S, F, p) + 8 <= Reach(S, F, h, p)
  BY <1>1, <1>2, Slot DEF Layout
<1>4. p \in 0 .. S - 1 /\ F \in 0 .. S - 1
  BY <1>1 DEF Layout, Room, Fits, rbHEADER_SIZE
<1>5. Off(S, F, p) \in 0 .. S - 1
  BY <1>4, Distances DEF Layout, Room
<1>6. u \in Nat
  BY DEF Layout
<1> QED BY <1>1, <1>2, <1>3, <1>4, <1>5, <1>6

(***************************************************************************)
(* A loop that starts at the header at p, s bytes behind pucFree, and may  *)
(* pass the headers of P up to the distance b, passes those of P that      *)
(* follow each other and ends at one that is not of P, or at b.            *)
(***************************************************************************)
WalkEnds(S, F, h, P, p, b, end, gone, d) ==
    /\ IsAt(S, F, end, d)
    /\ gone = {x \in DOMAIN h : Off(S, F, p) <= Off(S, F, x) /\ Off(S, F, x) < d}
    /\ \A x \in gone : x \in P
    /\ d < b => end \in DOMAIN h /\ end \notin P /\ Off(S, F, end) = d

LEMMA WalkAlong ==
  ASSUME NEW F, NEW h, NEW u, Layout(xSize, F, h, u),
         NEW g, \A x \in DOMAIN h : g[x] = h[x],
         NEW first, NEW later, NEW P,
         \A x \in first \cup later : x \in Int => g[x].xItemLen \in Nat,
         NEW p \in DOMAIN h, NEW b \in 0 .. u, Off(xSize, F, p) < b,
         \A x \in DOMAIN h : Off(xSize, F, x) < b => Reach(xSize, F, h, x) <= b,
         p \in first <=> p \in P,
         \A x \in DOMAIN h :
            /\ Off(xSize, F, p) <= Off(xSize, F, x) /\ Off(xSize, F, x) < b =>
                  (x \in later => x \in P)
            /\ Off(xSize, F, p) < Off(xSize, F, x) /\ Off(xSize, F, x) < b =>
                  (x \in P => x \in later),
         \A x : IsAt(xSize, F, x, b) => x \notin later
  PROVE  LET at == Walk(g, p, first, later)
         IN \E d \in Off(xSize, F, p) .. b :
               WalkEnds(xSize, F, h, P, p, b, at[Turns], Passed(at, first, later), d)
<1> DEFINE S == xSize
           D == DOMAIN h
           off(x) == Off(xSize, F, x)
           reach(x) == Reach(xSize, F, h, x)
           next(x) == NextOf(xSize, h, x)
           s == off(p)
           at == Walk(g, p, first, later)
           may(k) == IF k = 0 THEN first ELSE later
           gone(k) == {at[j] : j \in {i \in 0 .. k - 1 : at[i] \in may(i)}}
           seen(d) == {x \in D : s <= off(x) /\ off(x) < d}
           Loop(k, d) ==
              /\ IsAt(S, F, at[k], d)
              /\ gone(k) = seen(d)
              /\ \A x \in seen(d) : x \in P
              /\ d < b => at[k] \in D /\ off(at[k]) = d
              /\ d >= s + 8 * k \/ d = b \/ at[k] \notin P
              /\ k = 0 => d = s
           J == {k \in Nat : k <= Turns => \E d \in s .. b : Loop(k, d)}
<1>1. /\ Turns \in Nat /\ at[0] = p
      /\ \A k \in 1 .. Turns : at[k] = IF at[k - 1] \in (IF k = 1 THEN first ELSE later)
                       THEN After(at[k - 1], g[at[k - 1]]) ELSE at[k - 1]
  <2>1. p \in Int /\ xSize \in Nat
    BY DEF Layout, Room, Headers, Fits
  <2>2. IsWalk(at, g, p, first, later)
    BY <2>1, WalkTurns
  <2> HIDE DEF at
  <2> QED BY <2>2 DEF IsWalk
<1>2. \A x \in D :
        /\ x \in 0 .. S - 1 /\ off(x) \in 0 .. S - 1
        /\ reach(x) \in 0 .. u /\ off(x) + 8 <= reach(x)
        /\ IsAt(S, F, next(x), reach(x))
        /\ next(x) \in D \/ reach(x) = u
        /\ \A r \in D : off(r) <= off(x) \/ off(r) >= reach(x)
  BY Laying
<1>3. \A x \in D : After(x, g[x]) = next(x)
  BY DEF After, Wrap, NextOf, IsDummy, Flags
<1>4. ASSUME NEW k \in Nat, k < Turns
      PROVE  at[k + 1] = IF at[k] \in may(k) THEN After(at[k], g[at[k]]) ELSE at[k]
  <2>1. k + 1 \in 1 .. Turns /\ (k + 1) - 1 = k /\ (k + 1 = 1 <=> k = 0)
    BY <1>1, <1>4
  <2> QED BY <1>1, <2>1
<1>5. F \in 0 .. S - 1 /\ S \in Nat /\ u \in Nat /\ u <= S
  BY DEF Layout, Room, Fits, rbHEADER_SIZE
<1>6. \A x, y \in D : off(x) = off(y) => x = y
  <2>1. SUFFICES ASSUME NEW x \in D, NEW y \in D, off(x) = off(y) PROVE x = y
    OBVIOUS
  <2>2. x \in 0 .. S - 1 /\ y \in 0 .. S - 1
    BY <1>2
  <2> QED BY <1>5, <2>1, <2>2, Distances
<1>7. \A x \in D : off(x) < b => reach(x) <= b
  OBVIOUS
<1>8. /\ p \in first <=> p \in P
      /\ \A x \in D : /\ s <= off(x) /\ off(x) < b => (x \in later => x \in P)
                      /\ s < off(x) /\ off(x) < b => (x \in P => x \in later)
      /\ \A x : IsAt(S, F, x, b) => x \notin later
  OBVIOUS
<1>9. s \in Nat /\ s < b /\ b \in Nat /\ b <= u /\ u <= S /\ S \in Nat /\ u \in Nat
  BY <1>2, <1>5
<1>10. Passed(at, first, later) = gone(Turns)
  BY DEF Passed
<1> HIDE DEF S, off, reach, next, at
<1>11. 0 \in J
  <2>1. gone(0) = {}
    OBVIOUS
  <2>2. seen(s) = {}
    BY <1>2, <1>9
  <2>3. IsAt(S, F, at[0], s)
    BY <1>1, <1>2 DEF IsAt, off, S
  <2>4. Loop(0, s)
    BY <1>1, <1>9, <2>1, <2>2, <2>3
  <2> HIDE DEF Loop
  <2> QED BY <1>9, <2>4
<1>12. ASSUME NEW k \in Nat, k \in J PROVE k + 1 \in J
  <2>1. SUFFICES ASSUME k + 1 <= Turns PROVE \E d \in s .. b : Loop(k + 1, d)
    <3> HIDE DEF Loop
    <3> QED BY <2>1
  <2>2. PICK d \in s .. b : Loop(k, d)
    <3> HIDE DEF Loop
    <3> QED BY <1>1, <1>12, <2>1
  <2>3. at[k + 1] = IF at[k] \in may(k) THEN After(at[k], g[at[k]]) ELSE at[k]
    BY <1>1, <1>4, <2>1
  <2>4. gone(k + 1) = gone(k) \cup (IF at[k] \in may(k) THEN {at[k]} ELSE {})
    <3>1. 0 .. (k + 1) - 1 = (0 .. k - 1) \cup {k}
      OBVIOUS
    <3> HIDE DEF may
    <3> QED BY <3>1
  <2>5. ASSUME at[k] \notin may(k), d >= s + 8 * (k + 1) \/ d = b \/ at[k] \notin P
        PROVE  \E e \in s .. b : Loop(k + 1, e)
    <3>1. at[k + 1] = at[k] /\ gone(k + 1) = gone(k)
      BY <2>3, <2>4, <2>5
    <3>2. Loop(k + 1, d)
      <4> HIDE DEF gone, seen, may
      <4> QED BY <2>2, <2>5, <3>1
    <3> HIDE DEF Loop
    <3> QED BY <3>2
  <2>6. CASE d = b
    <3>1. k # 0
      BY <1>9, <2>2, <2>6
    <3>2. at[k] \notin may(k)
      BY <1>8, <2>2, <2>6, <3>1
    <3> QED BY <2>5, <2>6, <3>2
  <2>7. CASE d < b /\ at[k] \notin P
    <3>1. at[k] \in D /\ off(at[k]) = d /\ (k = 0 => at[k] = p)
      BY <1>1, <2>2, <2>7
    <3>2. at[k] \notin may(k)
      BY <1>8, <2>7, <3>1
    <3> QED BY <2>5, <2>7, <3>2
  <2>8. CASE d < b /\ at[k] \in P
    <3> DEFINE x == at[k]
               e == reach(at[k])
    <3>1. x \in D /\ off(x) = d /\ (k = 0 => x = p) /\ d >= s + 8 * k
      BY <1>1, <2>2, <2>8
    <3>2. x \in may(k)
      <4>1. CASE k = 0
        BY <1>8, <2>8, <3>1, <4>1
      <4>2. CASE k # 0
        BY <1>8, <1>9, <2>8, <3>1, <4>2
      <4> QED BY <4>1, <4>2
    <3>3. at[k + 1] = next(x) /\ gone(k + 1) = gone(k) \cup {x}
      BY <1>3, <2>3, <2>4, <3>1, <3>2
    <3>4. e \in s .. b /\ e >= d + 8 /\ IsAt(S, F, next(x), e)
      BY <1>2, <1>7, <1>9, <2>8, <3>1
    <3>5. seen(e) = seen(d) \cup {x}
      <4>1. ASSUME NEW r \in D PROVE r \in seen(e) <=> r \in seen(d) \/ r = x
        <5>1. off(r) <= off(x) \/ off(r) >= e
          BY <1>2, <3>1
        <5>2. off(r) \in Nat /\ off(x) \in Nat /\ e \in Nat
          BY <1>2, <3>1
        <5> QED BY <1>6, <1>9, <3>1, <3>4, <5>1, <5>2
      <4> HIDE DEF x, e
      <4> QED BY <3>1, <4>1
    <3>6. e < b => next(x) \in D /\ off(next(x)) = e
      <4>1. e < b => next(x) \in D /\ e # u /\ e < S
        BY <1>2, <1>9, <3>1, <3>4
      <4> QED BY <3>4, <4>1, <1>9 DEF IsAt, off, S
    <3>7. Loop(k + 1, e)
      <4>1. gone(k + 1) = seen(e) /\ \A y \in seen(e) : y \in P
        <5> HIDE DEF gone, seen, may
        <5> QED BY <2>2, <2>8, <3>3, <3>5
      <4>2. e >= s + 8 * (k + 1)
        BY <3>1, <3>4, <1>2, <1>9
      <4>3. k + 1 # 0
        OBVIOUS
      <4> HIDE DEF gone, seen, may, e, x
      <4> QED BY <3>3, <3>4, <3>6, <4>1, <4>2, <4>3
    <3> HIDE DEF Loop, e
    <3> QED BY <3>4, <3>7
  <2> QED BY <1>9, <2>2, <2>6, <2>7, <2>8
<1>13. PICK d \in s .. b : Loop(Turns, d)
  <2> HIDE DEF Loop
  <2>1. \A k \in Nat : k \in J
    <3> HIDE DEF J
    <3> QED BY <1>11, <1>12, Inductive
  <2>2. Turns \in J /\ Turns <= Turns
    BY <1>1, <2>1
  <2> QED BY <2>2
<1>14. d < b => at[Turns] \notin P
  <2>1. SUFFICES ASSUME d < b, at[Turns] \in P PROVE FALSE
    OBVIOUS
  <2>2. at[Turns] \in D /\ off(at[Turns]) = d /\ d >= s + 8 * Turns
    BY <1>13, <2>1
  <2>3. d + 8 <= S
    BY <1>2, <1>9, <2>2
  <2>4. 8 * Turns + 8 > S
    BY <1>9 DEF S, Turns, rbHEADER_SIZE
  <2> QED BY <1>1, <1>9, <2>2, <2>3, <2>4
<1>15. /\ IsAt(S, F, at[Turns], d)
       /\ Passed(at, first, later) = seen(d)
       /\ \A x \in seen(d) : x \in P
       /\ d < b => at[Turns] \in D /\ at[Turns] \notin P /\ off(at[Turns]) = d
  <2> HIDE DEF gone, seen, may
  <2> QED BY <1>10, <1>13, <1>14
<1>16. WalkEnds(xSize, F, h, P, p, b, at[Turns], Passed(at, first, later), d)
  BY <1>15 DEF WalkEnds, S, off
<1> QED BY <1>16 DEF at, off

\* A header that is put behind all the others, where there is room for it.
Added(S, F, h, u, p, n, f, h1, u1) ==
    /\ p \notin DOMAIN h /\ DOMAIN h1 = DOMAIN h \cup {p}
    /\ \A x \in DOMAIN h : h1[x] = h[x]
    /\ h1[p] = Hdr(n, f)
    /\ Layout(S, F, h1, u1) /\ u < u1 /\ Off(S, F, p) = u
    /\ IsAt(S, F, NextOf(S, h1, p), u1)

LEMMA AddSlot ==
  ASSUME NEW S, NEW F, NEW h, NEW u, Layout(S, F, h, u),
         NEW p, Fits(S, p), Off(S, F, p) = u, u < S,
         NEW n \in Nat, NEW f \in SUBSET Flag,
         "DUMMY" \in f => n = 0 /\ F # 0 /\ F <= p,
         "DUMMY" \notin f => End(p, n) <= S /\ (F <= p \/ End(p, n) <= F)
  PROVE  Added(S, F, h, u, p, n, f, Put(h, p, n, f), Reach(S, F, Put(h, p, n, f), p))
<1> DEFINE h1 == Put(h, p, n, f)
           D == DOMAIN h
           u1 == Reach(S, F, h1, p)
           e == End(p, n)
<1>1. S \in Nat /\ F \in 0 .. S - 1 /\ u \in 0 .. S /\ p \in 0 .. S - 1 /\ F + 8 <= S /\ p + 8 <= S
  BY DEF Layout, Room, Fits, rbHEADER_SIZE
<1>2. e \in Nat /\ e >= p + 8
  BY <1>1, Aligned, SMTT(30) DEF End, rbHEADER_SIZE
<1>3. ASSUME NEW x \in D PROVE x \in 0 .. S - 1 /\ Off(S, F, x) < u
  BY <1>1, Laying
<1>4. ASSUME NEW x \in D PROVE x \notin p .. e - 1
  <2>1. x \in 0 .. S - 1 /\ Off(S, F, x) < u
    BY <1>3
  <2>2. CASE "DUMMY" \in f
    <3>1. e = p + 8
      BY <2>2, <1>1 DEF End, rbHEADER_SIZE, rbALIGN_SIZE
    <3> QED BY <1>1, <2>1, <2>2, <3>1 DEF Off
  <2>3. CASE "DUMMY" \notin f
    BY <1>1, <1>2, <2>1, <2>3 DEF Off
  <2> QED BY <2>2, <2>3
<1>5. p \in p .. e - 1
  BY <1>1, <1>2
<1>6. p \notin D /\ DOMAIN h1 = D \cup {p}
  BY <1>4, <1>5 DEF Put
<1>7. h1[p] = Hdr(n, f) /\ \A x \in D : h1[x] = h[x]
  BY <1>4, <1>5, <1>6 DEF Put
<1> HIDE DEF h1, e
<1>8. h1[p].xItemLen = n /\ Flags(h1, p) = f
  BY <1>7 DEF Hdr, Flags
<1>9. \A x \in D : NextOf(S, h1, x) = NextOf(S, h, x) /\ Reach(S, F, h1, x) = Reach(S, F, h, x)
                   /\ Flags(h1, x) = Flags(h, x) /\ h1[x].xItemLen = h[x].xItemLen
  BY <1>7 DEF NextOf, Reach, IsDummy, Flags
<1>10. Headers(S, h1)
  <2>1. Headers(S, h)
    BY DEF Layout
  <2>2. ASSUME NEW x \in D
        PROVE  /\ Fits(S, x) /\ h1[x] \in HeaderSet
               /\ IsDummy(h1, x) \/ End(x, h1[x].xItemLen) <= S
    BY <1>7, <1>9, <2>1 DEF Headers, IsDummy
  <2>3. /\ h1[p] \in HeaderSet
        /\ IsDummy(h1, p) \/ End(p, h1[p].xItemLen) <= S
    BY <1>7, <1>8 DEF IsDummy, Hdr, HeaderSet
  <2> QED BY <1>6, <2>2, <2>3 DEF Headers
<1>11. /\ Fits(S, NextOf(S, h1, p)) /\ u1 \in 0 .. S /\ IsAt(S, F, NextOf(S, h1, p), u1)
  <2>1. /\ p \in DOMAIN h1 /\ h1[p].xItemLen \in Nat
        /\ IsDummy(h1, p) \/ End(p, h1[p].xItemLen) <= S
    BY <1>6, <1>10 DEF Headers, HeaderSet
  <2>2. Room(S) /\ Fits(S, F)
    BY DEF Layout
  <2> QED BY <2>1, <2>2, Slot
<1>12. u < u1
  <2> DEFINE N == NextOf(S, h1, p)
  <2>1. u1 = IF N = F THEN S ELSE Off(S, F, N)
    BY DEF Reach
  <2>2. CASE "DUMMY" \in f
    <3>1. N = 0
      BY <1>1, <1>8, <2>2 DEF NextOf, IsDummy, rbHEADER_SIZE
    <3> HIDE DEF N, u1
    <3> QED BY <1>1, <2>1, <2>2, <3>1 DEF Off
  <2>3. CASE "DUMMY" \notin f
    <3>1. N = IF S - e < 8 THEN 0 ELSE e
      BY <1>8, <2>3 DEF NextOf, IsDummy, rbHEADER_SIZE, e
    <3>2. e <= S /\ (F <= p \/ e <= F)
      BY <2>3 DEF e
    <3> HIDE DEF N, u1
    <3> QED BY <1>1, <1>2, <2>1, <3>1, <3>2 DEF Off
  <2> QED BY <2>2, <2>3
<1> HIDE DEF u1
<1>13. Laid(S, F, h1, u1)
  <2>1. Laid(S, F, h, u)
    BY DEF Layout
  <2>2. ASSUME NEW x \in D
        PROVE  /\ Off(S, F, x) < Reach(S, F, h1, x) /\ Reach(S, F, h1, x) <= u1
               /\ NextOf(S, h1, x) \in DOMAIN h1
               /\ \A r \in DOMAIN h1 :
                     Off(S, F, r) <= Off(S, F, x) \/ Off(S, F, r) >= Reach(S, F, h1, x)
    <3>1. /\ Off(S, F, x) \in Nat /\ Reach(S, F, h, x) \in 0 .. u /\ Off(S, F, x) + 8 <= Reach(S, F, h, x)
          /\ IsAt(S, F, NextOf(S, h, x), Reach(S, F, h, x))
          /\ NextOf(S, h, x) \in D \/ Reach(S, F, h, x) = u
          /\ \A r \in DOMAIN h :
               Off(S, F, r) <= Off(S, F, x) \/ Off(S, F, r) >= Reach(S, F, h, x)
      BY Laying
    <3>2. Off(S, F, x) < Reach(S, F, h1, x) /\ Reach(S, F, h1, x) <= u1
      BY <1>1, <1>9, <1>11, <1>12, <3>1
    <3>3. Reach(S, F, h, x) = u => NextOf(S, h, x) = p
      BY <1>1, <3>1 DEF IsAt, Off
    <3>4. Off(S, F, p) >= Reach(S, F, h, x)
      BY <1>1, <3>1
    <3> QED BY <1>6, <1>9, <3>1, <3>2, <3>3, <3>4
  <2>3. ASSUME NEW r \in DOMAIN h1 PROVE Off(S, F, r) <= Off(S, F, p)
    <3>1. CASE r \in D
      BY <1>1, <1>3, <3>1 DEF Off
    <3>2. CASE r = p
      BY <1>1, <3>2
    <3> QED BY <1>6, <3>1, <3>2
  <2>4. Reach(S, F, h1, p) = u1
    BY DEF u1
  <2>5. F \in DOMAIN h1
    <3>1. CASE u = 0
      <4>1. p = F
        BY <1>1, <3>1 DEF Off
      <4> QED BY <1>6, <4>1
    <3>2. CASE u > 0
      BY <1>6, <2>1, <3>2 DEF Laid
    <3> QED BY <1>1, <3>1, <3>2
  <2>6. u1 # 0 /\ u1 > 0 /\ u1 <= u1
    BY <1>1, <1>11, <1>12
  <2>7. ASSUME NEW x \in DOMAIN h1
        PROVE  /\ Off(S, F, x) < Reach(S, F, h1, x) /\ Reach(S, F, h1, x) <= u1
               /\ NextOf(S, h1, x) \in DOMAIN h1 \/ Reach(S, F, h1, x) = u1
               /\ \A r \in DOMAIN h1 :
                     Off(S, F, r) <= Off(S, F, x) \/ Off(S, F, r) >= Reach(S, F, h1, x)
    <3>1. CASE x \in D
      BY <2>2, <3>1
    <3>2. CASE x = p
      BY <1>12, <2>3, <2>4, <2>6, <3>2
    <3> QED BY <1>6, <3>1, <3>2
  <2> QED BY <1>6, <2>5, <2>6, <2>7 DEF Laid
<1>14. Layout(S, F, h1, u1)
  BY <1>10, <1>11, <1>13 DEF Layout
<1> QED BY <1>6, <1>7, <1>11, <1>12, <1>14 DEF Added, h1, u1

\* Numbers of a layout.
LEMMA LayoutType ==
  ASSUME NEW S, NEW F, NEW h, NEW u, Layout(S, F, h, u)
  PROVE  S \in Nat /\ F \in 0 .. S - 1 /\ F + 8 <= S /\ u \in 0 .. S
BY DEF Layout, Room, Fits, rbHEADER_SIZE

\* One address only is d bytes behind pucFree.
LEMMA OneAddress ==
  ASSUME NEW S \in Nat, NEW F \in 0 .. S - 1, NEW d, NEW x, NEW y,
         IsAt(S, F, x, d), IsAt(S, F, y, d)
  PROVE  x = y
BY DEF IsAt, Off

\* At an edge before the end there is a header.
LEMMA HeaderAt ==
  ASSUME NEW S, NEW F, NEW h, NEW u, Layout(S, F, h, u),
         NEW d, Edge(S, F, h, u, d), d < u, NEW x, IsAt(S, F, x, d)
  PROVE  x \in DOMAIN h /\ Off(S, F, x) = d
<1>1. S \in Nat /\ F \in 0 .. S - 1 /\ u \in 0 .. S /\ d \in Nat
  BY LayoutType DEF Edge
<1>2. PICK p \in DOMAIN h : Off(S, F, p) = d
  BY <1>1 DEF Edge
<1>3. p \in 0 .. S - 1
  BY Laying
<1> QED BY <1>1, <1>2, <1>3 DEF IsAt, Off

\* A header that begins before an edge ends there or before.
LEMMA Below ==
  ASSUME NEW S, NEW F, NEW h, NEW u, Layout(S, F, h, u),
         NEW d, Edge(S, F, h, u, d), NEW x \in DOMAIN h, Off(S, F, x) < d
  PROVE  Reach(S, F, h, x) <= d
<1>1. S \in Nat /\ u \in 0 .. S /\ d \in 0 .. u
  BY LayoutType DEF Edge
<1>2. Reach(S, F, h, x) \in 0 .. u /\ Off(S, F, x) \in Nat
  BY Laying
<1>3. CASE d = u
  BY <1>1, <1>2, <1>3
<1>4. CASE d # u
  <2>1. PICK p \in DOMAIN h : Off(S, F, p) = d
    BY <1>4 DEF Edge
  <2>2. Off(S, F, p) <= Off(S, F, x) \/ Off(S, F, p) >= Reach(S, F, h, x)
    BY Laying
  <2> QED BY <1>1, <1>2, <2>1, <2>2
<1> QED BY <1>3, <1>4

\* What belongs to a header ends at an edge.
LEMMA EdgeBehind ==
  ASSUME NEW S, NEW F, NEW h, NEW u, Layout(S, F, h, u), NEW x \in DOMAIN h
  PROVE  Edge(S, F, h, u, Reach(S, F, h, x))
<1> DEFINE e == Reach(S, F, h, x)
           n == NextOf(S, h, x)
<1>1. S \in Nat /\ F \in 0 .. S - 1 /\ u \in 0 .. S
  BY LayoutType
<1>2. e \in 0 .. u /\ IsAt(S, F, n, e) /\ (n \in DOMAIN h \/ e = u)
  BY Laying
<1> HIDE DEF e, n
<1>3. e = u \/ (n \in DOMAIN h /\ Off(S, F, n) = e)
  BY <1>1, <1>2 DEF IsAt
<1> QED BY <1>2, <1>3 DEF Edge, e

\* pucFree goes on to an edge: distances, from there.
LEMMA ShiftOff ==
  ASSUME NEW S \in Nat, NEW F \in 0 .. S - 1, NEW G, NEW d \in 0 .. S,
         IsAt(S, F, G, d), NEW x \in 0 .. S - 1, Off(S, F, x) >= d
  PROVE  Off(S, G, x) = Off(S, F, x) - d
BY DEF IsAt, Off

LEMMA Shift ==
  ASSUME NEW S, NEW F, NEW h, NEW u, Layout(S, F, h, u),
         NEW d, Edge(S, F, h, u, d), NEW G, Fits(S, G), IsAt(S, F, G, d),
         NEW g, DOMAIN g = {x \in DOMAIN h : Off(S, F, x) >= d},
         \A x \in DOMAIN g : g[x] = h[x]
  PROVE  /\ Layout(S, G, g, u - d)
         /\ \A x \in DOMAIN g : /\ Off(S, G, x) = Off(S, F, x) - d
                                /\ NextOf(S, g, x) = NextOf(S, h, x)
                                /\ Reach(S, G, g, x) = Reach(S, F, h, x) - d
<1>1. S \in Nat /\ F \in 0 .. S - 1 /\ u \in 0 .. S /\ d \in 0 .. u /\ G \in 0 .. S - 1
  BY LayoutType DEF Edge, IsAt
<1>2. ASSUME NEW x \in DOMAIN g
      PROVE  /\ x \in DOMAIN h /\ x \in 0 .. S - 1 /\ Off(S, F, x) \in d .. S - 1
             /\ Reach(S, F, h, x) \in 0 .. u /\ Off(S, F, x) + 8 <= Reach(S, F, h, x)
             /\ IsAt(S, F, NextOf(S, h, x), Reach(S, F, h, x))
             /\ NextOf(S, h, x) \in 0 .. S - 1
             /\ NextOf(S, h, x) \in DOMAIN h \/ Reach(S, F, h, x) = u
             /\ \A r \in DOMAIN h : Off(S, F, r) <= Off(S, F, x) \/ Off(S, F, r) >= Reach(S, F, h, x)
  <2>1. x \in DOMAIN h /\ Off(S, F, x) >= d
    OBVIOUS
  <2>2. IsAt(S, F, NextOf(S, h, x), Reach(S, F, h, x)) /\ Off(S, F, x) \in 0 .. S - 1
    BY <2>1, Laying
  <2>3. NextOf(S, h, x) \in 0 .. S - 1 /\ Off(S, F, x) \in d .. S - 1
    BY <1>1, <2>1, <2>2 DEF IsAt
  <2> QED BY <2>1, <2>2, <2>3, Laying
<1>3. ASSUME NEW x \in DOMAIN g
      PROVE  /\ Off(S, G, x) = Off(S, F, x) - d
             /\ NextOf(S, g, x) = NextOf(S, h, x)
             /\ Reach(S, G, g, x) = Reach(S, F, h, x) - d
  <2>1. Off(S, G, x) = Off(S, F, x) - d
    BY <1>1, <1>2, ShiftOff
  <2>2. NextOf(S, g, x) = NextOf(S, h, x)
    BY DEF NextOf, IsDummy, Flags
  <2> DEFINE N == NextOf(S, h, x)
             e == Reach(S, F, h, x)
  <2>3. Reach(S, G, g, x) = IF N = G THEN S ELSE Off(S, G, N)
    BY <2>2 DEF Reach
  <2>4. e = IF N = F THEN S ELSE Off(S, F, N)
    BY DEF Reach
  <2>5. N \in 0 .. S - 1 /\ e \in 0 .. S /\ e >= d + 8
    BY <1>1, <1>2
  <2> HIDE DEF N, e
  <2>6. (IF N = G THEN S ELSE Off(S, G, N)) = e - d
    <3>1. CASE N = F
      BY <1>1, <2>4, <2>5, <3>1 DEF IsAt, Off
    <3>2. CASE N # F
      BY <1>1, <2>4, <2>5, <3>2 DEF IsAt, Off
    <3> QED BY <3>1, <3>2
  <2> QED BY <2>1, <2>2, <2>3, <2>6 DEF e
<1>4. Headers(S, g)
  <2>1. Headers(S, h)
    BY DEF Layout
  <2> QED BY <1>2, <2>1 DEF Headers, Flags, IsDummy
<1>5. u - d = 0 <=> DOMAIN g = {}
  <2>1. ASSUME u - d = 0, NEW x \in DOMAIN g PROVE FALSE
    BY <1>1, <1>2, <2>1
  <2>2. ASSUME u - d # 0 PROVE DOMAIN g # {}
    <3>1. G \in DOMAIN h /\ Off(S, F, G) = d
      BY <1>1, <2>2, HeaderAt
    <3> QED BY <1>1, <3>1
  <2> QED BY <1>1, <2>1, <2>2
<1>6. u - d > 0 => G \in DOMAIN g
  <2>1. ASSUME u - d > 0 PROVE G \in DOMAIN g
    <3>1. G \in DOMAIN h /\ Off(S, F, G) = d
      BY <1>1, <2>1, HeaderAt
    <3> QED BY <1>1, <3>1
  <2> QED BY <2>1
<1>7. ASSUME NEW x \in DOMAIN g
      PROVE  /\ Off(S, G, x) < Reach(S, G, g, x) /\ Reach(S, G, g, x) <= u - d
             /\ NextOf(S, g, x) \in DOMAIN g \/ Reach(S, G, g, x) = u - d
             /\ \A r \in DOMAIN g :
                  Off(S, G, r) <= Off(S, G, x) \/ Off(S, G, r) >= Reach(S, G, g, x)
  <2> DEFINE N == NextOf(S, h, x)
             e == Reach(S, F, h, x)
  <2>1. Off(S, G, x) = Off(S, F, x) - d /\ NextOf(S, g, x) = N /\ Reach(S, G, g, x) = e - d
    BY <1>3
  <2>2. /\ Off(S, F, x) \in d .. S - 1 /\ e \in 0 .. u /\ Off(S, F, x) + 8 <= e
        /\ IsAt(S, F, N, e) /\ (N \in DOMAIN h \/ e = u)
        /\ \A r \in DOMAIN h : Off(S, F, r) <= Off(S, F, x) \/ Off(S, F, r) >= e
    BY <1>2
  <2> HIDE DEF N, e
  <2>3. Off(S, G, x) < Reach(S, G, g, x) /\ Reach(S, G, g, x) <= u - d
    BY <1>1, <2>1, <2>2
  <2>4. N \in DOMAIN g \/ e = u
    <3>1. CASE e = u
      BY <3>1
    <3>2. CASE e # u
      <4>1. N \in DOMAIN h /\ Off(S, F, N) = e
        BY <1>1, <2>2, <3>2 DEF IsAt
      <4> QED BY <1>1, <2>2, <4>1
    <3> QED BY <3>1, <3>2
  <2>5. ASSUME NEW r \in DOMAIN g
        PROVE  Off(S, G, r) <= Off(S, G, x) \/ Off(S, G, r) >= Reach(S, G, g, x)
    <3>1. Off(S, G, r) = Off(S, F, r) - d /\ r \in DOMAIN h /\ Off(S, F, r) \in Nat
      BY <1>1, <1>2, <1>3
    <3>2. Off(S, F, r) <= Off(S, F, x) \/ Off(S, F, r) >= e
      BY <2>2, <3>1
    <3> QED BY <1>1, <2>1, <2>2, <3>1, <3>2
  <2> QED BY <2>1, <2>3, <2>4, <2>5
<1>8. Laid(S, G, g, u - d)
  BY <1>5, <1>6, <1>7 DEF Laid
<1>9. u - d \in 0 .. S
  BY <1>1
<1>10. Layout(S, G, g, u - d)
  BY <1>4, <1>8, <1>9 DEF Layout
<1> QED BY <1>3, <1>10

\* Flags that are not about the place of a header may change.
LEMMA Reflagged ==
  ASSUME NEW S, NEW F, NEW h, NEW u, Layout(S, F, h, u),
         NEW g, DOMAIN g = DOMAIN h,
         \A x \in DOMAIN h : /\ g[x] \in HeaderSet /\ g[x].xItemLen = h[x].xItemLen
                             /\ IsDummy(g, x) <=> IsDummy(h, x)
  PROVE  /\ Layout(S, F, g, u)
         /\ \A x \in DOMAIN h : /\ NextOf(S, g, x) = NextOf(S, h, x)
                                /\ Reach(S, F, g, x) = Reach(S, F, h, x)
<1>1. \A x \in DOMAIN h : /\ NextOf(S, g, x) = NextOf(S, h, x)
                          /\ Reach(S, F, g, x) = Reach(S, F, h, x)
  BY DEF NextOf, Reach
<1>2. Headers(S, g)
  BY DEF Layout, Headers
<1>3. Laid(S, F, g, u)
  BY <1>1 DEF Layout, Laid
<1> QED BY <1>1, <1>2, <1>3 DEF Layout

\* What Mark does to headers.
IsMark(h, A, f, g) ==
    /\ DOMAIN g = DOMAIN h
    /\ \A x \in DOMAIN h :
          /\ g[x] \in HeaderSet /\ g[x].xItemLen = h[x].xItemLen
          /\ Flags(g, x) = IF x \in A THEN Flags(h, x) \cup {f} ELSE Flags(h, x)

LEMMA Marking ==
  ASSUME NEW h, \A x \in DOMAIN h : h[x] \in HeaderSet, NEW A, NEW f \in Flag
  PROVE  IsMark(h, A, f, Mark(h, A, f))
BY DEF IsMark, Mark, Flags, HeaderSet
-----------------------------------------------------------------------------
(***************************************************************************)
(* Acquiring.                                                              *)
(***************************************************************************)
\* The header at a, behind what is in use, and perhaps one at the start of the
\* buffer are put there for the item e.
Extension(T, S, F, h, u, a, e, g, v) ==
    /\ Layout(S, F, g, v) /\ Dummies(F, g) /\ u < v
    /\ DOMAIN h \subseteq DOMAIN g /\ \A x \in DOMAIN h : g[x] = h[x]
    /\ a \in DOMAIN g \ DOMAIN h /\ Off(S, F, a) = u
    /\ \A x \in DOMAIN g \ DOMAIN h :
          /\ Off(S, F, x) >= u /\ "FREE" \notin Flags(g, x) /\ "WRITTEN" \notin Flags(g, x)
          /\ IsDummy(g, x) \/ \E k \in 1 .. Len(e.at) : e.at[k] = x
    /\ IsDummy(g, a) => 0 \notin DOMAIN h
    /\ e \in Entry /\ ~e.taken /\ Len(e.at) \in 1 .. 2
    /\ \A k \in 1 .. Len(e.at) : e.at[k] \in DOMAIN g \ DOMAIN h /\ ~IsDummy(g, e.at[k])
    /\ \A k, l \in 1 .. Len(e.at) : k < l => Off(S, F, e.at[k]) < Off(S, F, e.at[l])
    /\ Whole(T, S, g, e)
    /\ e.done <=> T = ALLOWSPLIT

\* The distances of what is in use.
LEMMA InUse ==
  ASSUME NEW S, NEW F, NEW h, NEW u, Layout(S, F, h, u), NEW x \in DOMAIN h
  PROVE  Off(S, F, x) \in Nat /\ Off(S, F, x) < u
<1>1. S \in Nat /\ u \in 0 .. S
  BY LayoutType
<1> QED BY <1>1, Laying

LEMMA Extended ==
  ASSUME NEW T \in {NOSPLIT, ALLOWSPLIT}, NEW S, NEW F, NEW h, NEW q0, NEW u, NEW ro, NEW wo,
         Good(T, S, F, h, q0, u, ro, wo),
         NEW a, NEW e, NEW g, NEW v, Extension(T, S, F, h, u, a, e, g, v)
  PROVE  /\ Good(T, S, F, g, Append(q0, e), v, ro, IF T = NOSPLIT THEN wo ELSE v)
         /\ Waiting(T, S, F, g, ro) = Waiting(T, S, F, h, ro) \cup
               (IF T = NOSPLIT THEN {} ELSE {e.at[k] : k \in 1 .. Len(e.at)})
         /\ {e.at[k] : k \in 1 .. Len(e.at)} \cap DOMAIN h = {}
<1> DEFINE D == DOMAIN h
           r1 == Append(q0, e)
           w1 == IF T = NOSPLIT THEN wo ELSE v
<1>1. S \in Nat /\ F \in 0 .. S - 1 /\ u \in 0 .. S /\ v \in 0 .. S /\ u < v
  BY LayoutType DEF Good, Extension
<1>2. ro \in 0 .. u /\ wo \in 0 .. u /\ ro <= wo
  BY DEF Good, Edge, WrittenTo
<1>3. /\ D \subseteq DOMAIN g
      /\ \A x \in D : g[x] = h[x] /\ Flags(g, x) = Flags(h, x) /\ (IsDummy(g, x) <=> IsDummy(h, x))
                      /\ NextOf(S, g, x) = NextOf(S, h, x)
  BY DEF Extension, Flags, IsDummy, NextOf
<1>4. \A x \in D : Off(S, F, x) \in Nat /\ Off(S, F, x) < u
  BY InUse DEF Good
<1>5. \A x \in DOMAIN g \ D :
          /\ Off(S, F, x) \in Nat /\ Off(S, F, x) >= u
          /\ "FREE" \notin Flags(g, x) /\ "WRITTEN" \notin Flags(g, x)
          /\ IsDummy(g, x) \/ \E k \in 1 .. Len(e.at) : e.at[k] = x
  BY InUse DEF Extension
<1>6. a \in DOMAIN g \ D /\ Off(S, F, a) = u /\ (IsDummy(g, a) => 0 \notin D)
  BY DEF Extension
<1>7. /\ e \in Entry /\ ~e.taken /\ Len(e.at) \in 1 .. 2
      /\ \A k \in 1 .. Len(e.at) : e.at[k] \in DOMAIN g \ D /\ ~IsDummy(g, e.at[k])
      /\ \A k, l \in 1 .. Len(e.at) : k < l => Off(S, F, e.at[k]) < Off(S, F, e.at[l])
      /\ Whole(T, S, g, e)
      /\ e.done <=> T = ALLOWSPLIT
  BY DEF Extension
<1>8. q0 \in Seq(Entry)
  BY DEF Good
<1>9. /\ r1 \in Seq(Entry) /\ Len(r1) = Len(q0) + 1 /\ Len(q0) \in Nat
      /\ \A i \in 1 .. Len(q0) : r1[i] = q0[i]
      /\ r1[Len(q0) + 1] = e
  BY <1>7, <1>8
<1> HIDE DEF r1
<1>10. \A i \in 1 .. Len(r1) : (i \in 1 .. Len(q0) /\ r1[i] = q0[i]) \/ (i = Len(q0) + 1 /\ r1[i] = e)
  BY <1>9
<1>11. \A i \in 1 .. Len(q0) : \A k \in 1 .. Len(q0[i].at) : q0[i].at[k] \in D
  BY DEF Good, Parted
<1>12. Parted(T, S, F, g, r1, ro)
  <2>1. ASSUME NEW i \in 1 .. Len(r1)
        PROVE  /\ Len(r1[i].at) \in 1 .. 2
               /\ \A k \in 1 .. Len(r1[i].at) :
                     /\ r1[i].at[k] \in DOMAIN g
                     /\ "DUMMY" \notin Flags(g, r1[i].at[k]) /\ "FREE" \notin Flags(g, r1[i].at[k])
                     /\ r1[i].taken <=> Off(S, F, r1[i].at[k]) < ro
                     /\ T = NOSPLIT => (r1[i].done <=> "WRITTEN" \in Flags(g, r1[i].at[k]))
    <3>1. CASE i \in 1 .. Len(q0) /\ r1[i] = q0[i]
      BY <1>3, <1>11, <3>1 DEF Good, Parted
    <3>2. CASE i = Len(q0) + 1 /\ r1[i] = e
      <4>1. \A k \in 1 .. Len(e.at) :
              /\ "DUMMY" \notin Flags(g, e.at[k]) /\ "FREE" \notin Flags(g, e.at[k])
              /\ "WRITTEN" \notin Flags(g, e.at[k])
              /\ ~(Off(S, F, e.at[k]) < ro)
        BY <1>1, <1>2, <1>5, <1>7 DEF IsDummy
      <4>2. T = NOSPLIT => ~e.done
        BY <1>7 DEF NOSPLIT, ALLOWSPLIT
      <4> QED BY <1>7, <3>2, <4>1, <4>2
    <3> QED BY <1>10, <3>1, <3>2
  <2> QED BY <2>1 DEF Parted
<1>13. Ordered(S, F, r1)
  <2>1. ASSUME NEW i \in 1 .. Len(r1), NEW j \in 1 .. Len(r1),
               NEW k \in 1 .. Len(r1[i].at), NEW l \in 1 .. Len(r1[j].at), i < j \/ (i = j /\ k < l)
        PROVE  Off(S, F, r1[i].at[k]) < Off(S, F, r1[j].at[l])
    <3>1. CASE j \in 1 .. Len(q0) /\ r1[j] = q0[j]
      <4>1. i \in 1 .. Len(q0) /\ r1[i] = q0[i]
        BY <1>9, <1>10, <2>1, <3>1
      <4> QED BY <2>1, <3>1, <4>1 DEF Good, Ordered
    <3>2. CASE j = Len(q0) + 1 /\ r1[j] = e
      <4>1. CASE i = j
        BY <1>7, <2>1, <3>2, <4>1
      <4>2. CASE i # j
        <5>1. i \in 1 .. Len(q0) /\ r1[i] = q0[i]
          BY <1>9, <1>10, <3>2, <4>2
        <5>2. Off(S, F, r1[i].at[k]) \in Nat /\ Off(S, F, r1[i].at[k]) < u
          BY <1>4, <1>11, <5>1
        <5>3. Off(S, F, r1[j].at[l]) \in Nat /\ Off(S, F, r1[j].at[l]) >= u
          BY <1>5, <1>7, <3>2
        <5> QED BY <1>1, <5>2, <5>3
      <4> QED BY <4>1, <4>2
    <3> QED BY <1>10, <3>1, <3>2
  <2> QED BY <2>1 DEF Ordered
<1>14. Sized(T, S, g, r1)
  <2>1. ASSUME NEW i \in 1 .. Len(r1)
        PROVE  /\ r1[i].taken \/ T = ALLOWSPLIT => r1[i].done
               /\ ~r1[i].taken => Whole(T, S, g, r1[i])
    <3>1. CASE i \in 1 .. Len(q0) /\ r1[i] = q0[i]
      <4>1. /\ q0[i].taken \/ T = ALLOWSPLIT => q0[i].done
            /\ ~q0[i].taken => Whole(T, S, h, q0[i])
        BY <3>1 DEF Good, Sized
      <4>2. Len(q0[i].at) \in 1 .. 2
        BY <3>1 DEF Good, Parted
      <4>3. Whole(T, S, h, q0[i]) => Whole(T, S, g, q0[i])
        <5>1. q0[i].at[1] \in D /\ (Len(q0[i].at) = 2 => q0[i].at[2] \in D)
          BY <1>11, <3>1, <4>2
        <5> QED BY <1>3, <5>1 DEF Whole
      <4> QED BY <3>1, <4>1, <4>3
    <3>2. CASE i = Len(q0) + 1 /\ r1[i] = e
      BY <1>7, <3>2
    <3> QED BY <1>10, <3>1, <3>2
  <2> QED BY <2>1 DEF Sized
<1>15. Owned(S, F, g, r1, ro)
  <2>1. ASSUME NEW p \in DOMAIN g
        PROVE  /\ "FREE" \in Flags(g, p) => Off(S, F, p) < ro
               /\ \/ "DUMMY" \in Flags(g, p) \/ "FREE" \in Flags(g, p)
                  \/ \E i \in 1 .. Len(r1) : \E k \in 1 .. Len(r1[i].at) : r1[i].at[k] = p
    <3>1. CASE p \in D
      <4>1. /\ "FREE" \in Flags(h, p) => Off(S, F, p) < ro
            /\ \/ "DUMMY" \in Flags(h, p) \/ "FREE" \in Flags(h, p)
               \/ \E i \in 1 .. Len(q0) : \E k \in 1 .. Len(q0[i].at) : q0[i].at[k] = p
        BY <3>1 DEF Good, Owned
      <4>2. ASSUME NEW i \in 1 .. Len(q0), NEW k \in 1 .. Len(q0[i].at), q0[i].at[k] = p
            PROVE  i \in 1 .. Len(r1) /\ k \in 1 .. Len(r1[i].at) /\ r1[i].at[k] = p
        BY <1>9, <4>2
      <4> QED BY <1>3, <3>1, <4>1, <4>2
    <3>2. CASE p \notin D
      <4>1. "FREE" \notin Flags(g, p) /\ (IsDummy(g, p) \/ \E k \in 1 .. Len(e.at) : e.at[k] = p)
        BY <1>5, <3>2
      <4>2. ASSUME NEW k \in 1 .. Len(e.at), e.at[k] = p
            PROVE  \E i \in 1 .. Len(r1) : \E l \in 1 .. Len(r1[i].at) : r1[i].at[l] = p
        <5>1. Len(q0) + 1 \in 1 .. Len(r1) /\ r1[Len(q0) + 1] = e
          BY <1>9
        <5> QED BY <4>2, <5>1
      <4> QED BY <4>1, <4>2 DEF IsDummy
    <3> QED BY <3>1, <3>2
  <2> QED BY <2>1 DEF Owned
<1>16. Freed(F, g)
  <2>1. SUFFICES ASSUME F \in DOMAIN g
                 PROVE  /\ "FREE" \notin Flags(g, F)
                        /\ IsDummy(g, F) => \A p \in DOMAIN g : "FREE" \notin Flags(g, p)
    BY DEF Freed
  <2>2. CASE F \in D
    BY <1>3, <1>5, <2>2 DEF Good, Freed
  <2>3. CASE F \notin D
    <3>1. D = {}
      BY <2>3, <1>1 DEF Good, Layout, Laid
    <3> QED BY <1>5, <2>1, <3>1
  <2> QED BY <2>2, <2>3
<1>17. ASSUME NEW d, Edge(S, F, h, u, d) PROVE Edge(S, F, g, v, d)
  <2>1. d \in 0 .. v
    BY <1>1, <1>17 DEF Edge
  <2>2. \E p \in DOMAIN g : Off(S, F, p) = d
    BY <1>3, <1>6, <1>17 DEF Edge
  <2> QED BY <2>1, <2>2 DEF Edge
<1>18. WrittenTo(T, S, F, g, v, w1)
  <2>1. CASE T = NOSPLIT
    <3>1. Edge(S, F, g, v, wo)
      BY <1>17 DEF Good, WrittenTo
    <3>2. ASSUME NEW p \in DOMAIN g
          PROVE  /\ Off(S, F, p) < wo => "WRITTEN" \in Flags(g, p)
                 /\ Off(S, F, p) = wo => /\ "WRITTEN" \notin Flags(g, p)
                                         /\ IsDummy(g, p) => "WRITTEN" \notin Flags(g, 0)
      <4>1. CASE p \in D
        <5>1. /\ Off(S, F, p) < wo => "WRITTEN" \in Flags(h, p)
              /\ Off(S, F, p) = wo => /\ "WRITTEN" \notin Flags(h, p)
                                      /\ IsDummy(h, p) => "WRITTEN" \notin Flags(h, 0)
          BY <2>1, <4>1 DEF Good, WrittenTo
        <5>2. IsDummy(h, p) => 0 \in D
          BY <4>1 DEF Good, Dummies
        <5> QED BY <1>3, <4>1, <5>1, <5>2
      <4>2. CASE p \notin D
        <5>1. Off(S, F, p) >= wo /\ "WRITTEN" \notin Flags(g, p) /\ Off(S, F, p) \in Nat
          BY <1>1, <1>2, <1>5, <4>2
        <5>2. ASSUME Off(S, F, p) = wo, IsDummy(g, p) PROVE "WRITTEN" \notin Flags(g, 0)
          <6>1. Off(S, F, p) = Off(S, F, a)
            BY <1>1, <1>2, <1>5, <1>6, <4>2, <5>2
          <6>2. p \in 0 .. S - 1 /\ a \in 0 .. S - 1
            BY <1>6, Laying DEF Extension
          <6>3. p = a
            BY <1>1, <6>1, <6>2, Distances
          <6>4. 0 \in DOMAIN g
            BY <5>2 DEF Extension, Dummies
          <6> QED BY <1>5, <1>6, <5>2, <6>3, <6>4
        <5>3. ~(Off(S, F, p) < wo)
          BY <1>2, <5>1
        <5> QED BY <5>1, <5>2, <5>3
      <4> QED BY <4>1, <4>2
    <3> QED BY <2>1, <3>1, <3>2 DEF WrittenTo, NOSPLIT, ALLOWSPLIT
  <2>2. CASE T = ALLOWSPLIT
    <3>1. Edge(S, F, g, v, v)
      BY <1>1 DEF Edge
    <3> QED BY <2>2, <3>1 DEF WrittenTo, NOSPLIT, ALLOWSPLIT
  <2> QED BY <2>1, <2>2
<1>19. ro <= w1
  BY <1>1, <1>2
<1>20. Edge(S, F, g, v, ro)
  BY <1>17 DEF Good
<1>21. Layout(S, F, g, v) /\ Dummies(F, g)
  BY DEF Extension
<1>22. Good(T, S, F, g, r1, v, ro, w1)
  <2> HIDE DEF w1
  <2> QED BY <1>9, <1>12, <1>13, <1>14, <1>15, <1>16, <1>18, <1>19, <1>20, <1>21 DEF Good
<1>23. Waiting(T, S, F, g, ro) = Waiting(T, S, F, h, ro) \cup
               (IF T = NOSPLIT THEN {} ELSE {e.at[k] : k \in 1 .. Len(e.at)})
  <2>1. \A p \in D : p \in Waiting(T, S, F, g, ro) <=> p \in Waiting(T, S, F, h, ro)
    BY <1>3 DEF Waiting
  <2>2. \A p \in DOMAIN g \ D : p \in Waiting(T, S, F, g, ro) <=> ~IsDummy(g, p) /\ T # NOSPLIT
    BY <1>1, <1>2, <1>5 DEF Waiting, IsDummy
  <2>3. \A p \in DOMAIN g \ D : ~IsDummy(g, p) <=> p \in {e.at[k] : k \in 1 .. Len(e.at)}
    BY <1>5, <1>7
  <2>4. {e.at[k] : k \in 1 .. Len(e.at)} \subseteq DOMAIN g \ D
    BY <1>7
  <2>5. Waiting(T, S, F, g, ro) \subseteq DOMAIN g /\ Waiting(T, S, F, h, ro) \subseteq D
    BY DEF Waiting
  <2> QED BY <1>3, <2>1, <2>2, <2>3, <2>4, <2>5
<1>24. {e.at[k] : k \in 1 .. Len(e.at)} \cap DOMAIN h = {}
  BY <1>7
<1> QED BY <1>22, <1>23, <1>24 DEF r1

\* One header for the item.
LEMMA OneSlot ==
  ASSUME NEW T, NEW S, NEW F, NEW h, NEW u, Layout(S, F, h, u), Dummies(F, h),
         NEW a \in Nat, NEW n \in Nat, NEW g, NEW v, Added(S, F, h, u, a, n, {}, g, v),
         NEW done \in BOOLEAN, done <=> T = ALLOWSPLIT
  PROVE  Extension(T, S, F, h, u, a, Item(n, <<a>>, done), g, v)
<1> DEFINE e == Item(n, <<a>>, done)
<1>1. /\ a \notin DOMAIN h /\ DOMAIN g = DOMAIN h \cup {a}
      /\ \A x \in DOMAIN h : g[x] = h[x]
      /\ g[a] = Hdr(n, {})
      /\ Layout(S, F, g, v) /\ u < v /\ Off(S, F, a) = u
  BY DEF Added
<1>2. u \in Nat
  BY LayoutType
<1>3. Flags(g, a) = {} /\ g[a].xItemLen = n /\ ~IsDummy(g, a)
  BY <1>1 DEF Flags, Hdr, IsDummy
<1>4. /\ e \in Entry /\ ~e.taken /\ e.at = <<a>> /\ e.n = n /\ e.done = done
  BY DEF Item, Entry
<1> HIDE DEF e
<1>5. Len(e.at) = 1 /\ e.at[1] = a
  BY <1>4
<1>6. Dummies(F, g)
  <2>1. \A x \in DOMAIN h : IsDummy(g, x) <=> IsDummy(h, x)
    BY <1>1 DEF IsDummy, Flags
  <2> QED BY <1>1, <1>3, <2>1 DEF Dummies
<1>7. Whole(T, S, g, e)
  BY <1>3, <1>4, <1>5 DEF Whole
<1>8. 1 .. Len(e.at) = {1}
  BY <1>5
<1>9. \A k, l \in 1 .. Len(e.at) : k < l => Off(S, F, e.at[k]) < Off(S, F, e.at[l])
  BY <1>8
<1>10. \A x \in DOMAIN g \ DOMAIN h : x = a
  BY <1>1
<1>11. \A x \in DOMAIN g \ DOMAIN h :
          /\ Off(S, F, x) >= u /\ "FREE" \notin Flags(g, x) /\ "WRITTEN" \notin Flags(g, x)
          /\ IsDummy(g, x) \/ \E k \in 1 .. Len(e.at) : e.at[k] = x
  BY <1>1, <1>2, <1>3, <1>5, <1>8, <1>10
<1>12. \A k \in 1 .. Len(e.at) : e.at[k] \in DOMAIN g \ DOMAIN h /\ ~IsDummy(g, e.at[k])
  BY <1>1, <1>3, <1>5, <1>8
<1> QED BY <1>1, <1>3, <1>4, <1>5, <1>6, <1>7, <1>9, <1>11, <1>12 DEF Extension, e

\* A dummy, or the first part of the item, and a header at the start of the buffer.
InTwo(T, S, a, m, f, g1, n, done, e) ==
    \/ f = {"DUMMY"} /\ e = Item(n, <<0>>, done)
    \/ /\ f = {"SPLIT"} /\ e = Item(m + n, <<a, 0>>, done) /\ T = ALLOWSPLIT
       /\ NextOf(S, g1, a) = 0

LEMMA TwoSlots ==
  ASSUME NEW T, NEW S, NEW F, NEW h, NEW u, Layout(S, F, h, u), Dummies(F, h), F # 0,
         NEW a \in Nat, NEW m \in Nat, NEW f, NEW g1, NEW v1, Added(S, F, h, u, a, m, f, g1, v1),
         NEW n \in Nat, NEW g, NEW v, Added(S, F, g1, v1, 0, n, {}, g, v),
         NEW done \in BOOLEAN, done <=> T = ALLOWSPLIT,
         NEW e, InTwo(T, S, a, m, f, g1, n, done, e)
  PROVE  Extension(T, S, F, h, u, a, e, g, v)
<1>1. /\ a \notin DOMAIN h /\ DOMAIN g1 = DOMAIN h \cup {a}
      /\ \A x \in DOMAIN h : g1[x] = h[x]
      /\ g1[a] = Hdr(m, f)
      /\ u < v1 /\ Off(S, F, a) = u
      /\ 0 \notin DOMAIN g1 /\ DOMAIN g = DOMAIN g1 \cup {0}
      /\ \A x \in DOMAIN g1 : g[x] = g1[x]
      /\ g[0] = Hdr(n, {})
      /\ Layout(S, F, g, v) /\ v1 < v /\ Off(S, F, 0) = v1
  BY DEF Added
<1>2. u \in Nat /\ v1 \in Nat /\ v \in Nat
  BY LayoutType DEF Added
<1>3. /\ Flags(g, 0) = {} /\ g[0].xItemLen = n /\ ~IsDummy(g, 0)
      /\ Flags(g, a) = f /\ g[a].xItemLen = m
      /\ NextOf(S, g, a) = NextOf(S, g1, a)
  BY <1>1 DEF Flags, Hdr, IsDummy, NextOf
<1>4. Dummies(F, g)
  <2>1. \A x \in DOMAIN h : IsDummy(g, x) <=> IsDummy(h, x)
    BY <1>1 DEF IsDummy, Flags
  <2> QED BY <1>1, <1>3, <2>1 DEF Dummies
<1>5. \A x \in DOMAIN g \ DOMAIN h : x = a \/ x = 0
  BY <1>1
<1>6. \A x \in DOMAIN h : g[x] = h[x]
  BY <1>1
<1>7. ASSUME f = {"DUMMY"}, e = Item(n, << 0 >>, done) PROVE Extension(T, S, F, h, u, a, e, g, v)
  <2>1. /\ e \in Entry /\ ~e.taken /\ e.at = <<0>> /\ e.n = n /\ e.done = done
    BY <1>7 DEF Item, Entry
  <2>2. Len(e.at) = 1 /\ e.at[1] = 0 /\ 1 .. Len(e.at) = {1}
    BY <2>1
  <2>3. Whole(T, S, g, e)
    BY <1>3, <2>1, <2>2 DEF Whole
  <2>4. IsDummy(g, a) /\ Flags(g, a) = {"DUMMY"}
    BY <1>3, <1>7 DEF IsDummy
  <2>5. \A k, l \in 1 .. Len(e.at) : k < l => Off(S, F, e.at[k]) < Off(S, F, e.at[l])
    BY <2>2
  <2>6. \A x \in DOMAIN g \ DOMAIN h :
          /\ Off(S, F, x) >= u /\ "FREE" \notin Flags(g, x) /\ "WRITTEN" \notin Flags(g, x)
          /\ IsDummy(g, x) \/ \E k \in 1 .. Len(e.at) : e.at[k] = x
    BY <1>1, <1>2, <1>3, <1>5, <2>2, <2>4
  <2>7. \A k \in 1 .. Len(e.at) : e.at[k] \in DOMAIN g \ DOMAIN h /\ ~IsDummy(g, e.at[k])
    BY <1>1, <1>3, <2>2
  <2>8. u < v
    BY <1>1, <1>2
  <2> QED BY <1>1, <1>4, <1>6, <2>1, <2>2, <2>3, <2>5, <2>6, <2>7, <2>8 DEF Extension
<1>8. ASSUME f = {"SPLIT"}, e = Item(m + n, <<a, 0>>, done), T = ALLOWSPLIT, NextOf(S, g1, a) = 0
      PROVE  Extension(T, S, F, h, u, a, e, g, v)
  <2>1. /\ e \in Entry /\ ~e.taken /\ e.at = <<a, 0>> /\ e.n = m + n /\ e.done = done
    BY <1>8 DEF Item, Entry
  <2>2. Len(e.at) = 2 /\ e.at[1] = a /\ e.at[2] = 0 /\ 1 .. Len(e.at) = {1, 2}
    BY <2>1
  <2>3. Whole(T, S, g, e)
    BY <1>3, <1>8, <2>1, <2>2 DEF Whole
  <2>4. ~IsDummy(g, a) /\ Flags(g, a) = {"SPLIT"}
    BY <1>3, <1>8 DEF IsDummy
  <2>5. \A k, l \in 1 .. Len(e.at) : k < l => Off(S, F, e.at[k]) < Off(S, F, e.at[l])
    <3>1. Off(S, F, e.at[1]) < Off(S, F, e.at[2])
      BY <1>1, <2>2
    <3> QED BY <2>2, <3>1
  <2>6. \A x \in DOMAIN g \ DOMAIN h :
          /\ Off(S, F, x) >= u /\ "FREE" \notin Flags(g, x) /\ "WRITTEN" \notin Flags(g, x)
          /\ IsDummy(g, x) \/ \E k \in 1 .. Len(e.at) : e.at[k] = x
    BY <1>1, <1>2, <1>3, <1>5, <2>2, <2>4
  <2>7. \A k \in 1 .. Len(e.at) : e.at[k] \in DOMAIN g \ DOMAIN h /\ ~IsDummy(g, e.at[k])
    BY <1>1, <1>3, <2>2, <2>4
  <2>8. u < v
    BY <1>1, <1>2
  <2> QED BY <1>1, <1>4, <1>6, <2>1, <2>2, <2>3, <2>4, <2>5, <2>6, <2>7, <2>8 DEF Extension
<1> QED BY <1>7, <1>8 DEF InTwo

\* Where the item of n bytes goes, when xCheckItemFits says that it fits.
LEMMA WhereItFits ==
  ASSUME type \in {NOSPLIT, ALLOWSPLIT}, Room(xSize), xSize >= 2 * rbHEADER_SIZE,
         Fits(xSize, pucFree), Fits(xSize, pucAcquire),
         NEW u \in 0 .. xSize, IsAt(xSize, pucFree, pucAcquire, u), full <=> u = xSize,
         NEW n \in Nat, n <= xMaxItemSize, prvCheckItemFitsDefault(n)
  PROVE  LET total == rbALIGN_SIZE(n) + rbHEADER_SIZE IN
         /\ u < xSize /\ Off(xSize, pucFree, pucAcquire) = u /\ ~full
         /\ Rest >= total => pucFree <= pucAcquire \/ pucAcquire + total <= pucFree
         /\ Rest < total =>
               /\ pucFree # 0 /\ pucFree <= pucAcquire
               /\ type = NOSPLIT \/ Rest = rbHEADER_SIZE => total <= pucFree
               /\ type = ALLOWSPLIT => total + rbHEADER_SIZE - Rest <= pucFree
<1> DEFINE S == xSize
           F == pucFree
           A == pucAcquire
           N == rbALIGN_SIZE(n)
           H == rbALIGN_SIZE(S \div 2)
<1>1. /\ S \in Nat /\ F \in Nat /\ A \in Nat /\ F + 8 <= S /\ A + 8 <= S /\ S >= 16
  BY DEF Room, Fits, rbHEADER_SIZE
<1>2. N \in Nat /\ N >= n /\ N % 4 = 0 /\ S % 4 = 0 /\ A % 4 = 0 /\ F % 4 = 0
  BY Aligned DEF Room, Fits
<1>3. type = ALLOWSPLIT => N + 16 <= S
  <2>1. type = ALLOWSPLIT => n <= S - 16
    BY DEF xMaxItemSize, NOSPLIT, ALLOWSPLIT, rbHEADER_SIZE
  <2> QED BY <1>1, <1>2, <2>1 DEF rbALIGN_SIZE
<1>4. type = NOSPLIT => N + 8 <= H
  <2>1. type = NOSPLIT => n <= H - 8
    BY DEF xMaxItemSize, NOSPLIT, ALLOWSPLIT, rbHEADER_SIZE
  <2>2. S \div 2 \in Nat
    BY <1>1
  <2>3. H \in Nat /\ H % 4 = 0
    BY <2>2, Aligned
  <2> HIDE DEF H
  <2> QED BY <1>1, <1>2, <2>1, <2>3 DEF rbALIGN_SIZE
<1>5. 2 * H <= S + 4 /\ H \in Nat
  BY <1>1, <1>2 DEF rbALIGN_SIZE
<1> HIDE DEF S, F, A, N, H
<1>6. \A x, y, z \in Nat : z % 4 = 0 /\ y % 4 = 0 /\ x % 4 = 0 /\ z - y < x + 8 => z - y <= x + 4
  OBVIOUS
<1>7. S - A < N + 8 => S - A <= N + 4
  BY <1>1, <1>2, <1>6
<1>8. /\ IF F - A = 0 THEN ~full
         ELSE IF F - A > 0 THEN N + 8 <= F - A
         ELSE \/ N + 8 <= S - A
              \/ IF type = ALLOWSPLIT THEN N + 16 <= S + (F - A) ELSE N + 8 <= F
      /\ IsAt(S, F, A, u) /\ (full <=> u = S) /\ u \in 0 .. S
  BY <1>1, <1>2 DEF prvCheckItemFitsDefault, Free, Rest, S, F, A, N, rbHEADER_SIZE
<1>9. N \in Nat /\ (type = NOSPLIT \/ type = ALLOWSPLIT) /\ (type = NOSPLIT => type # ALLOWSPLIT)
  BY <1>2 DEF NOSPLIT, ALLOWSPLIT
<1>10. /\ u < S /\ Off(S, F, A) = u /\ ~full
       /\ S - A >= N + 8 => F <= A \/ A + N + 8 <= F
       /\ S - A < N + 8 =>
             /\ F # 0 /\ F <= A
             /\ type = NOSPLIT \/ S - A = 8 => N + 8 <= F
             /\ type = ALLOWSPLIT => N + 16 - (S - A) <= F
  <2>1. CASE F = A
    BY <1>1, <1>3, <1>4, <1>5, <1>7, <1>8, <1>9, <2>1 DEF IsAt, Off
  <2>2. CASE F > A
    BY <1>1, <1>8, <1>9, <2>2 DEF IsAt, Off
  <2>3. CASE F < A
    BY <1>1, <1>8, <1>9, <2>3 DEF IsAt, Off
  <2> QED BY <1>1, <2>1, <2>2, <2>3
<1> QED BY <1>1, <1>9, <1>10 DEF S, F, A, N, Rest, rbHEADER_SIZE

\* The pointer and the flag behind a header that was placed.
LEMMA PlacedAt ==
  ASSUME NEW h, NEW u \in Nat, NEW p, NEW n \in Nat, NEW parts, NEW v, ~full,
         Added(xSize, pucFree, h, u, p, n, {}, Put(h, p, n, {}), v)
  PROVE  LET a == Placed(h, p, n, parts) IN
         /\ a.mem = Put(h, p, n, {}) /\ a.at = parts
         /\ Fits(xSize, a.acq) /\ IsAt(xSize, pucFree, a.acq, v)
         /\ a.full <=> v = xSize
<1> DEFINE g == Put(h, p, n, {})
           N == NextOf(xSize, g, p)
           a == Placed(h, p, n, parts)
<1>1. /\ p \in DOMAIN g /\ g[p] = Hdr(n, {}) /\ Layout(xSize, pucFree, g, v) /\ u < v
      /\ IsAt(xSize, pucFree, N, v)
  BY DEF Added
<1>2. a.mem = g /\ a.at = parts /\ a.acq = Wrap(End(p, n)) /\ (a.full <=> full \/ a.acq = pucFree)
  BY DEF Placed
<1> HIDE DEF g, a
<1>3. Wrap(End(p, n)) = N
  <2>1. ~IsDummy(g, p) /\ g[p].xItemLen = n
    BY <1>1 DEF IsDummy, Flags, Hdr
  <2> QED BY <2>1 DEF NextOf, Wrap
<1>4. Fits(xSize, N)
  BY <1>1, Laying
<1>5. xSize \in Nat /\ pucFree \in 0 .. xSize - 1 /\ v \in 0 .. xSize
  BY <1>1, LayoutType
<1> HIDE DEF N
<1>6. N = pucFree <=> v = xSize
  BY <1>1, <1>5 DEF IsAt, Off
<1> QED BY <1>1, <1>2, <1>3, <1>4, <1>6 DEF g, a

\* The item is placed: prvAcquireItemNoSplit, prvCopyItemAllowSplit.
Placing(a, u, n, done, v) ==
    /\ Extension(type, xSize, pucFree, mem, u, pucAcquire, Item(n, a.at, done), a.mem, v)
    /\ Fits(xSize, a.acq) /\ IsAt(xSize, pucFree, a.acq, v)
    /\ a.full <=> v = xSize

LEMMA DirectlyPlaced ==
  ASSUME type \in {NOSPLIT, ALLOWSPLIT}, NEW u, Layout(xSize, pucFree, mem, u),
         Dummies(pucFree, mem), u < xSize, Off(xSize, pucFree, pucAcquire) = u,
         Fits(xSize, pucAcquire), ~full, NEW n \in Nat,
         End(pucAcquire, n) <= xSize,
         pucFree <= pucAcquire \/ End(pucAcquire, n) <= pucFree,
         NEW done \in BOOLEAN, done <=> type = ALLOWSPLIT
  PROVE  \E v : Placing(Placed(mem, pucAcquire, n, <<pucAcquire>>), u, n, done, v)
<1> DEFINE g == Put(mem, pucAcquire, n, {})
           v == Reach(xSize, pucFree, g, pucAcquire)
           a == Placed(mem, pucAcquire, n, <<pucAcquire>>)
<1>1. {} \in SUBSET Flag /\ u \in Nat /\ pucAcquire \in Nat
  BY LayoutType DEF Fits
<1>2. Added(xSize, pucFree, mem, u, pucAcquire, n, {}, g, v)
  BY <1>1, AddSlot
<1> HIDE DEF v
<1>3. /\ a.mem = g /\ a.at = <<pucAcquire>>
      /\ Fits(xSize, a.acq) /\ IsAt(xSize, pucFree, a.acq, v)
      /\ a.full <=> v = xSize
  BY <1>1, <1>2, PlacedAt
<1> HIDE DEF g, a
<1>4. Extension(type, xSize, pucFree, mem, u, pucAcquire, Item(n, <<pucAcquire>>, done), g, v)
  BY <1>1, <1>2, OneSlot
<1>5. Placing(a, u, n, done, v)
  BY <1>3, <1>4 DEF Placing
<1> QED BY <1>5 DEF a

LEMMA WrappedPlaced ==
  ASSUME type \in {NOSPLIT, ALLOWSPLIT}, NEW u, Layout(xSize, pucFree, mem, u),
         Dummies(pucFree, mem), u < xSize, Off(xSize, pucFree, pucAcquire) = u,
         Fits(xSize, pucAcquire), ~full, pucFree # 0, pucFree <= pucAcquire,
         NEW m \in Nat, NEW f, NEW n \in Nat, NEW parts, NEW size,
         \/ f = {"DUMMY"} /\ m = 0 /\ parts = << 0 >> /\ size = n
         \/ /\ f = {"SPLIT"} /\ type = ALLOWSPLIT /\ parts = <<pucAcquire, 0>> /\ size = m + n
            /\ End(pucAcquire, m) = xSize,
         End(0, n) <= pucFree,
         NEW done \in BOOLEAN, done <=> type = ALLOWSPLIT
  PROVE  \E v : Placing(Placed(Put(mem, pucAcquire, m, f), 0, n, parts), u, size, done, v)
<1> DEFINE g1 == Put(mem, pucAcquire, m, f)
           v1 == Reach(xSize, pucFree, g1, pucAcquire)
           g == Put(g1, 0, n, {})
           v == Reach(xSize, pucFree, g, 0)
           a == Placed(g1, 0, n, parts)
<1>1. /\ {} \in SUBSET Flag /\ f \in SUBSET Flag /\ u \in Nat /\ pucAcquire \in Nat
      /\ xSize \in Nat /\ pucFree \in 0 .. xSize - 1 /\ pucFree + 8 <= xSize
  BY LayoutType DEF Fits, Flag
<1>2. /\ "DUMMY" \in f => m = 0 /\ pucFree # 0 /\ pucFree <= pucAcquire
      /\ "DUMMY" \notin f => End(pucAcquire, m) <= xSize /\ (pucFree <= pucAcquire \/ End(pucAcquire, m) <= pucFree)
  BY <1>1
<1>3. Added(xSize, pucFree, mem, u, pucAcquire, m, f, g1, v1)
  BY <1>1, <1>2, AddSlot
<1>4. /\ g1[pucAcquire] = Hdr(m, f) /\ u < v1 /\ Layout(xSize, pucFree, g1, v1)
      /\ IsAt(xSize, pucFree, NextOf(xSize, g1, pucAcquire), v1)
  BY <1>3 DEF Added
<1> HIDE DEF g1, v1
<1>5. NextOf(xSize, g1, pucAcquire) = 0
  <2>1. g1[pucAcquire].xItemLen = m /\ (IsDummy(g1, pucAcquire) <=> "DUMMY" \in f)
    BY <1>4 DEF Hdr, IsDummy, Flags
  <2> QED BY <1>1, <2>1 DEF NextOf, rbHEADER_SIZE
<1>6. v1 < xSize /\ Off(xSize, pucFree, 0) = v1 /\ v1 \in Nat
  BY <1>1, <1>4, <1>5 DEF IsAt, Off
<1>7. Fits(xSize, 0)
  BY <1>1 DEF Fits, rbHEADER_SIZE
<1>8. End(0, n) <= xSize /\ "DUMMY" \notin {} /\ End(0, n) \in Nat
  BY <1>1, Aligned DEF End, rbHEADER_SIZE
<1>9. Added(xSize, pucFree, g1, v1, 0, n, {}, g, v)
  BY <1>1, <1>4, <1>6, <1>7, <1>8, AddSlot
<1> HIDE DEF v
<1>10. /\ a.mem = g /\ a.at = parts
       /\ Fits(xSize, a.acq) /\ IsAt(xSize, pucFree, a.acq, v)
       /\ a.full <=> v = xSize
  BY <1>6, <1>9, PlacedAt
<1> HIDE DEF g, a
<1>11. Extension(type, xSize, pucFree, mem, u, pucAcquire, Item(size, parts, done), g, v)
  <2> DEFINE e == Item(size, parts, done)
  <2>1. InTwo(type, xSize, pucAcquire, m, f, g1, n, done, e)
    BY <1>5 DEF InTwo
  <2> HIDE DEF e
  <2>2. Extension(type, xSize, pucFree, mem, u, pucAcquire, e, g, v)
    BY <1>1, <1>3, <1>9, <2>1, TwoSlots
  <2> QED BY <2>2 DEF e
<1>12. Placing(a, u, size, done, v)
  BY <1>10, <1>11 DEF Placing
<1> QED BY <1>12 DEF a, g1

\* A buffer of items whose pointers are where they should be.
Buffer(u, ro, wo) ==
    /\ type \in {NOSPLIT, ALLOWSPLIT} /\ xSize >= 2 * rbHEADER_SIZE
    /\ Good(type, xSize, pucFree, mem, q, u, ro, wo) /\ Pointers(u, ro, wo)

LEMMA AcquiredNoSplit ==
  ASSUME NEW u, NEW ro, NEW wo, Buffer(u, ro, wo), type = NOSPLIT,
         NEW n \in Nat, n <= xMaxItemSize, xCheckItemFits(n)
  PROVE  \E v : Placing(prvAcquireItemNoSplit(n), u, n, FALSE, v)
<1>1. /\ Layout(xSize, pucFree, mem, u) /\ Dummies(pucFree, mem)
      /\ type \in {NOSPLIT, ALLOWSPLIT} /\ xSize >= 2 * rbHEADER_SIZE
      /\ Fits(xSize, pucAcquire) /\ IsAt(xSize, pucFree, pucAcquire, u) /\ (full <=> u = xSize)
  BY DEF Buffer, Good, Pointers
<1>2. u \in 0 .. xSize /\ Room(xSize) /\ Fits(xSize, pucFree)
  BY <1>1 DEF Layout
<1>3. prvCheckItemFitsDefault(n)
  BY DEF xCheckItemFits, NOSPLIT, BYTEBUF
<1> DEFINE total == rbALIGN_SIZE(n) + rbHEADER_SIZE
<1>4. /\ u < xSize /\ Off(xSize, pucFree, pucAcquire) = u /\ ~full
      /\ Rest >= total => pucFree <= pucAcquire \/ pucAcquire + total <= pucFree
      /\ Rest < total => pucFree # 0 /\ pucFree <= pucAcquire /\ total <= pucFree
  BY <1>1, <1>2, <1>3, WhereItFits
<1>5. /\ End(pucAcquire, n) = pucAcquire + total /\ End(0, n) = total
      /\ total \in Nat /\ pucAcquire \in Nat /\ xSize \in Nat /\ Rest = xSize - pucAcquire
  <2>1. rbALIGN_SIZE(n) \in Nat
    BY Aligned
  <2>2. pucAcquire \in Nat /\ xSize \in Nat /\ Rest = xSize - pucAcquire
    BY <1>1, <1>2 DEF Fits, Room, Rest
  <2> QED BY <2>1, <2>2 DEF End, rbHEADER_SIZE
<1>6. FALSE \in BOOLEAN /\ (FALSE <=> type = ALLOWSPLIT)
  BY DEF NOSPLIT, ALLOWSPLIT
<1> HIDE DEF total
<1>7. CASE Rest < total
  <2>1. prvAcquireItemNoSplit(n) = Placed(Put(mem, pucAcquire, 0, {"DUMMY"}), 0, n, <<0>>)
    BY <1>7 DEF prvAcquireItemNoSplit, total
  <2>2. \E v : Placing(Placed(Put(mem, pucAcquire, 0, {"DUMMY"}), 0, n, <<0>>), u, n, FALSE, v)
    BY <1>1, <1>4, <1>5, <1>6, <1>7, WrappedPlaced
  <2> QED BY <2>1, <2>2
<1>8. CASE ~(Rest < total)
  <2>1. prvAcquireItemNoSplit(n) = Placed(mem, pucAcquire, n, <<pucAcquire>>)
    BY <1>8 DEF prvAcquireItemNoSplit, total
  <2>2. Rest >= total /\ End(pucAcquire, n) <= xSize
        /\ (pucFree <= pucAcquire \/ End(pucAcquire, n) <= pucFree)
    BY <1>4, <1>5, <1>8
  <2>3. \E v : Placing(Placed(mem, pucAcquire, n, <<pucAcquire>>), u, n, FALSE, v)
    BY <1>1, <1>4, <1>6, <2>2, DirectlyPlaced
  <2> QED BY <2>1, <2>3
<1> QED BY <1>7, <1>8

LEMMA CopiedAllowSplit ==
  ASSUME NEW u, NEW ro, NEW wo, Buffer(u, ro, wo), type = ALLOWSPLIT,
         NEW n \in Nat, n <= xMaxItemSize, xCheckItemFits(n)
  PROVE  \E v : Placing(prvCopyItemAllowSplit(n), u, n, TRUE, v)
<1>1. /\ Layout(xSize, pucFree, mem, u) /\ Dummies(pucFree, mem)
      /\ type \in {NOSPLIT, ALLOWSPLIT} /\ xSize >= 2 * rbHEADER_SIZE
      /\ Fits(xSize, pucAcquire) /\ IsAt(xSize, pucFree, pucAcquire, u) /\ (full <=> u = xSize)
  BY DEF Buffer, Good, Pointers
<1>2. u \in 0 .. xSize /\ Room(xSize) /\ Fits(xSize, pucFree)
  BY <1>1 DEF Layout
<1>3. prvCheckItemFitsDefault(n)
  BY DEF xCheckItemFits, ALLOWSPLIT, BYTEBUF
<1> DEFINE N == rbALIGN_SIZE(n)
           first == Rest - rbHEADER_SIZE
<1>4. /\ u < xSize /\ Off(xSize, pucFree, pucAcquire) = u /\ ~full
      /\ Rest >= N + 8 => pucFree <= pucAcquire \/ pucAcquire + N + 8 <= pucFree
      /\ Rest < N + 8 =>
               /\ pucFree # 0 /\ pucFree <= pucAcquire
               /\ Rest = 8 => N + 8 <= pucFree
               /\ N + 16 - Rest <= pucFree
  <2>1. N \in Nat /\ Rest \in Int /\ pucAcquire \in Int
    BY <1>1, <1>2, Aligned DEF Rest, Fits, Room
  <2> DEFINE total == N + rbHEADER_SIZE
  <2>2. /\ u < xSize /\ Off(xSize, pucFree, pucAcquire) = u /\ ~full
        /\ Rest >= total => pucFree <= pucAcquire \/ pucAcquire + total <= pucFree
        /\ Rest < total =>
               /\ pucFree # 0 /\ pucFree <= pucAcquire
               /\ Rest = rbHEADER_SIZE => total <= pucFree
               /\ total + rbHEADER_SIZE - Rest <= pucFree
    BY <1>1, <1>2, <1>3, WhereItFits
  <2> HIDE DEF N
  <2> QED BY <2>1, <2>2 DEF rbHEADER_SIZE
<1>5. /\ N \in Nat /\ pucAcquire \in Nat /\ xSize \in Nat /\ Rest = xSize - pucAcquire /\ Rest >= 8
      /\ End(pucAcquire, n) = pucAcquire + 8 + N /\ End(0, n) = 8 + N
      /\ first = Rest - 8 /\ N >= n
  BY <1>1, <1>2, Aligned DEF End, rbHEADER_SIZE, Fits, Room, Rest
<1>6. first \in Nat /\ first % 4 = 0
  BY <1>1, <1>2, <1>5 DEF Fits, Room
<1>7. rbALIGN_SIZE(first) = first
  BY <1>6, Aligned
<1>8. End(pucAcquire, first) = xSize
  BY <1>5, <1>7 DEF End, rbHEADER_SIZE
<1>9. ~(first >= N) => n - first \in Nat /\ n - first > 0 /\ rbALIGN_SIZE(n - first) = N - first
  BY <1>5, <1>6 DEF rbALIGN_SIZE
<1> HIDE DEF N, first
<1>10. TRUE \in BOOLEAN /\ (TRUE <=> type = ALLOWSPLIT)
  OBVIOUS
<1>11. CASE first >= N
  <2>1. prvCopyItemAllowSplit(n) = Placed(mem, pucAcquire, n, <<pucAcquire>>)
    BY <1>11 DEF prvCopyItemAllowSplit, first, N
  <2>2. End(pucAcquire, n) <= xSize /\ (pucFree <= pucAcquire \/ End(pucAcquire, n) <= pucFree)
    BY <1>4, <1>5, <1>11
  <2>3. \E v : Placing(Placed(mem, pucAcquire, n, <<pucAcquire>>), u, n, TRUE, v)
    BY <1>1, <1>4, <1>10, <2>2, DirectlyPlaced
  <2> QED BY <2>1, <2>3
<1>12. CASE ~(first >= N) /\ first = 0 /\ n > 0
  <2>1. prvCopyItemAllowSplit(n) = Placed(Put(mem, pucAcquire, 0, {"DUMMY"}), 0, n, <<0>>)
    BY <1>12 DEF prvCopyItemAllowSplit, first, N
  <2>2. pucFree # 0 /\ pucFree <= pucAcquire /\ End(0, n) <= pucFree
    BY <1>4, <1>5, <1>12
  <2>3. \E v : Placing(Placed(Put(mem, pucAcquire, 0, {"DUMMY"}), 0, n, <<0>>), u, n, TRUE, v)
    BY <1>1, <1>4, <1>10, <2>2, WrappedPlaced
  <2> QED BY <2>1, <2>3
<1>13. CASE ~(first >= N) /\ ~(first = 0 /\ n > 0)
  <2> DEFINE m == n - first
             parts == <<pucAcquire, 0>>
  <2>1. prvCopyItemAllowSplit(n) = Placed(Put(mem, pucAcquire, first, {"SPLIT"}), 0, m, parts)
    BY <1>13 DEF prvCopyItemAllowSplit, first, N
  <2>2. m \in Nat /\ n = first + m
    BY <1>6, <1>9, <1>13
  <2>3. End(0, m) = 8 + N - first
    BY <1>5, <1>6, <1>9, <1>13 DEF End, rbHEADER_SIZE
  <2>4. pucFree # 0 /\ pucFree <= pucAcquire /\ End(0, m) <= pucFree
    BY <1>4, <1>5, <1>13, <2>3
  <2> HIDE DEF m
  <2>5. \E v : Placing(Placed(Put(mem, pucAcquire, first, {"SPLIT"}), 0, m, parts), u, n, TRUE, v)
    BY <1>1, <1>4, <1>6, <1>8, <1>10, <2>2, <2>4, WrappedPlaced
  <2> QED BY <2>1, <2>5
<1> QED BY <1>11, <1>12, <1>13
-----------------------------------------------------------------------------
(***************************************************************************)
(* Completing.                                                             *)
(***************************************************************************)
\* g is h, but for the flags WRITTEN and FREE of some headers.
SamePlaces(S, h, g) ==
    /\ DOMAIN g = DOMAIN h
    /\ \A x \in DOMAIN h :
          /\ g[x] \in HeaderSet /\ g[x].xItemLen = h[x].xItemLen
          /\ IsDummy(g, x) <=> IsDummy(h, x)
          /\ "SPLIT" \in Flags(g, x) <=> "SPLIT" \in Flags(h, x)

LEMMA StillWhole ==
  ASSUME NEW T, NEW S, NEW h, NEW g, SamePlaces(S, h, g), NEW e, NEW e1,
         e1.at = e.at, e1.n = e.n, Len(e.at) \in 1 .. 2,
         \A k \in 1 .. Len(e.at) : e.at[k] \in DOMAIN h,
         Whole(T, S, h, e)
  PROVE  Whole(T, S, g, e1)
<1>1. e.at[1] \in DOMAIN h /\ (Len(e.at) = 2 => e.at[2] \in DOMAIN h)
  OBVIOUS
<1>2. NextOf(S, g, e.at[1]) = NextOf(S, h, e.at[1])
  BY <1>1 DEF SamePlaces, NextOf
<1> QED BY <1>1, <1>2 DEF Whole, SamePlaces

\* Two parts of items are not the same header.
LEMMA PartsDiffer ==
  ASSUME NEW T, NEW S, NEW F, NEW h, NEW q0, NEW u, NEW ro, NEW wo,
         Good(T, S, F, h, q0, u, ro, wo),
         NEW i \in 1 .. Len(q0), NEW k \in 1 .. Len(q0[i].at),
         NEW j \in 1 .. Len(q0), NEW l \in 1 .. Len(q0[j].at),
         q0[i].at[k] = q0[j].at[l]
  PROVE  i = j /\ k = l
<1>1. q0 \in Seq(Entry) /\ Ordered(S, F, q0) /\ q0[i].at[k] \in DOMAIN h
  BY DEF Good, Parted
<1>2. q0[i].at \in Seq(Nat) /\ q0[j].at \in Seq(Nat)
  <2>1. q0[i] \in Entry /\ q0[j] \in Entry
    BY <1>1
  <2> QED BY <2>1 DEF Entry
<1>3. Off(S, F, q0[i].at[k]) \in Nat
  BY <1>1, InUse DEF Good
<1>4. i \in Nat /\ j \in Nat /\ k \in Nat /\ l \in Nat
  BY <1>1, <1>2
<1>5. ~(i < j \/ (i = j /\ k < l))
  BY <1>1, <1>3 DEF Ordered
<1>6. ~(j < i \/ (j = i /\ l < k))
  BY <1>1, <1>3 DEF Ordered
<1> QED BY <1>4, <1>5, <1>6

LEMMA Completed ==
  ASSUME NEW F, NEW h, NEW q0, NEW u, NEW ro, NEW wo,
         Good(NOSPLIT, xSize, F, h, q0, u, ro, wo),
         NEW acq, IsAt(xSize, F, acq, u), IsAt(xSize, F, pucWrite, wo),
         NEW i \in 1 .. Len(q0), ~q0[i].done
  PROVE  LET p == q0[i].at[1]
             d == prvSendItemDoneNoSplit(h, acq, p)
         IN /\ p \in DOMAIN h \ Waiting(NOSPLIT, xSize, F, h, ro)
            /\ Waiting(NOSPLIT, xSize, F, d.mem, ro) = Waiting(NOSPLIT, xSize, F, h, ro) \cup {p}
            /\ \E w : /\ Good(NOSPLIT, xSize, F, d.mem, [q0 EXCEPT ![i].done = TRUE], u, ro, w)
                      /\ IsAt(xSize, F, d.write, w)
<1> DEFINE S == xSize
           T == NOSPLIT
           D == DOMAIN h
           p == q0[i].at[1]
           w == Mark(h, {p}, "WRITTEN")
           over == {x \in DOMAIN w : w[x].uxItemFlags \cap {"WRITTEN", "DUMMY"} # {}}
           later == over \ {acq}
           at == Walk(w, pucWrite, over, later)
           gone == Passed(at, over, later)
           dum == {x \in gone : Marked(w, x, "DUMMY")}
           g == Mark(w, dum, "WRITTEN")
           q1 == [q0 EXCEPT ![i].done = TRUE]
           off(x) == Off(xSize, F, x)
<1>1. /\ Layout(S, F, h, u) /\ Dummies(F, h) /\ Edge(S, F, h, u, ro) /\ ro <= wo
      /\ q0 \in Seq(Entry) /\ Parted(T, S, F, h, q0, ro) /\ Ordered(S, F, q0)
      /\ Sized(T, S, h, q0) /\ Owned(S, F, h, q0, ro) /\ Freed(F, h)
      /\ WrittenTo(T, S, F, h, u, wo)
  BY DEF Good
<1>2. /\ S \in Nat /\ F \in 0 .. S - 1 /\ u \in 0 .. S /\ ro \in 0 .. u /\ wo \in 0 .. u
      /\ Edge(S, F, h, u, wo)
  BY <1>1, LayoutType DEF Edge, WrittenTo
<1>3. /\ ~q0[i].taken /\ Len(q0[i].at) = 1
      /\ p \in D /\ "DUMMY" \notin Flags(h, p) /\ "FREE" \notin Flags(h, p)
      /\ "WRITTEN" \notin Flags(h, p) /\ ~(off(p) < ro)
  <2>1. ~q0[i].taken
    BY <1>1 DEF Sized
  <2>2. Whole(T, S, h, q0[i])
    BY <1>1, <2>1 DEF Sized
  <2>3. Len(q0[i].at) = 1
    BY <2>2 DEF Whole, NOSPLIT, ALLOWSPLIT
  <2> QED BY <1>1, <2>1, <2>3 DEF Parted
<1>4. \A x \in D : /\ x \in 0 .. S - 1 /\ off(x) \in Nat /\ off(x) < u
                   /\ h[x] \in HeaderSet
  BY <1>1, InUse, Laying DEF Layout, Headers
<1>5. /\ DOMAIN w = D
      /\ \A x \in D : /\ w[x] \in HeaderSet /\ w[x].xItemLen = h[x].xItemLen
                      /\ Flags(w, x) = IF x = p THEN Flags(h, x) \cup {"WRITTEN"} ELSE Flags(h, x)
  <2>1. "WRITTEN" \in Flag
    BY DEF Flag
  <2> HIDE DEF p
  <2>2. IsMark(h, {p}, "WRITTEN", w)
    BY <1>4, <2>1, Marking
  <2> HIDE DEF w
  <2> QED BY <2>2 DEF IsMark
<1> HIDE DEF w
<1>6. over = {x \in D : "WRITTEN" \in Flags(w, x) \/ "DUMMY" \in Flags(w, x)}
  BY <1>5 DEF Flags
<1> HIDE DEF over
<1>7. Layout(S, F, w, u) /\ SamePlaces(S, h, w)
  <2>1. \A x \in D : /\ IsDummy(w, x) <=> IsDummy(h, x)
                     /\ "SPLIT" \in Flags(w, x) <=> "SPLIT" \in Flags(h, x)
    BY <1>5 DEF IsDummy
  <2>2. SamePlaces(S, h, w)
    BY <1>5, <2>1 DEF SamePlaces
  <2> QED BY <1>1, <1>5, <2>1, <2>2, Reflagged
<1>8. wo < u
  <2>1. ~(off(p) < wo)
    BY <1>1, <1>3 DEF WrittenTo
  <2>2. off(p) \in Nat /\ off(p) < u
    BY <1>3, <1>4
  <2> HIDE DEF p
  <2> QED BY <1>2, <2>1, <2>2
<1>9. pucWrite \in D /\ off(pucWrite) = wo
  BY <1>1, <1>2, <1>8, HeaderAt
<1>10. \A x : IsAt(S, F, x, u) => x = acq
  BY <1>2, OneAddress
<1>11. \A x \in D : off(pucWrite) < off(x) => x # acq
  <2>1. SUFFICES ASSUME acq \in D, off(pucWrite) < off(acq) PROVE FALSE
    OBVIOUS
  <2>2. off(acq) \in Nat /\ off(acq) < u
    BY <1>4, <2>1
  <2>3. acq = F
    BY <1>2, <2>2 DEF IsAt
  <2>4. off(acq) = 0
    BY <1>2, <2>3, Distances
  <2> QED BY <1>2, <1>9, <2>1, <2>4
<1>12. PICK d \in wo .. u :
          /\ IsAt(S, F, at[Turns], d)
          /\ gone = {x \in D : wo <= off(x) /\ off(x) < d}
          /\ \A x \in gone : x \in over
          /\ d < u => at[Turns] \in D /\ at[Turns] \notin over /\ off(at[Turns]) = d
  <2>1. pucWrite \in DOMAIN w
    BY <1>5, <1>9
  <2>2. \A x \in over \cup later : x \in Int => w[x].xItemLen \in Nat
    BY <1>5, <1>6 DEF HeaderSet
  <2>3. u \in 0 .. u /\ off(pucWrite) < u
    BY <1>2, <1>8, <1>9
  <2>4. \A x \in DOMAIN w : off(x) < u => Reach(S, F, w, x) <= u
    BY <1>2, <1>7, Laying
  <2>5. \A x \in DOMAIN w :
          /\ off(pucWrite) <= off(x) /\ off(x) < u => (x \in later => x \in over)
          /\ off(pucWrite) < off(x) /\ off(x) < u => (x \in over => x \in later)
    BY <1>5, <1>11
  <2>6. \A x : IsAt(S, F, x, u) => x \notin later
    BY <1>10
  <2>7. \A x \in DOMAIN w : w[x] = w[x]
    OBVIOUS
  <2>8. PICK d \in off(pucWrite) .. u : WalkEnds(S, F, w, over, pucWrite, u, at[Turns], gone, d)
    <3> HIDE DEF later
    <3> QED BY <1>7, <2>1, <2>2, <2>3, <2>4, <2>5, <2>6, <2>7, WalkAlong
  <2>9. d \in wo .. u
    BY <1>9, <2>8
  <2> HIDE DEF at, gone
  <2> QED BY <1>5, <1>9, <2>8, <2>9 DEF WalkEnds
<1> DEFINE z == at[Turns]
<1> HIDE DEF at, gone
<1>13. dum = {x \in gone : "DUMMY" \in Flags(w, x)}
  BY <1>5, <1>12 DEF Marked, Header, Flags
<1> HIDE DEF dum
<1>14. /\ DOMAIN g = D
       /\ \A x \in D : /\ g[x] \in HeaderSet /\ g[x].xItemLen = h[x].xItemLen
                       /\ Flags(g, x) = IF x = p \/ x \in dum THEN Flags(h, x) \cup {"WRITTEN"} ELSE Flags(h, x)
  <2>1. "WRITTEN" \in Flag
    BY DEF Flag
  <2>2. /\ DOMAIN g = D
        /\ \A x \in D : /\ g[x] \in HeaderSet /\ g[x].xItemLen = w[x].xItemLen
                        /\ Flags(g, x) = IF x \in dum THEN Flags(w, x) \cup {"WRITTEN"} ELSE Flags(w, x)
    <3>1. IsMark(w, dum, "WRITTEN", g)
      BY <1>5, <2>1, Marking
    <3> HIDE DEF g
    <3> QED BY <1>5, <3>1 DEF IsMark
  <2> HIDE DEF g, p
  <2> QED BY <1>5, <2>2
<1> HIDE DEF g
<1>15. \A x \in D : /\ "DUMMY" \in Flags(g, x) <=> "DUMMY" \in Flags(h, x)
                    /\ "FREE" \in Flags(g, x) <=> "FREE" \in Flags(h, x)
                    /\ "SPLIT" \in Flags(g, x) <=> "SPLIT" \in Flags(h, x)
                    /\ "WRITTEN" \in Flags(g, x) <=> ("WRITTEN" \in Flags(h, x) \/ x = p \/ x \in dum)
                    /\ IsDummy(g, x) <=> IsDummy(h, x)
  <2> HIDE DEF p
  <2> QED BY <1>14 DEF IsDummy
<1>16. SamePlaces(S, h, g)
  BY <1>14, <1>15 DEF SamePlaces
<1>17. Layout(S, F, g, u)
  BY <1>1, <1>14, <1>15, Reflagged
<1>18. \A x \in dum : x \in D /\ "DUMMY" \in Flags(h, x) /\ off(x) >= wo /\ off(x) < d
  BY <1>5, <1>12, <1>13
<1>19. /\ q1 \in Seq(Entry) /\ Len(q1) = Len(q0)
       /\ \A j \in 1 .. Len(q0) : /\ q1[j].at = q0[j].at /\ q1[j].n = q0[j].n
                                  /\ q1[j].taken = q0[j].taken
                                  /\ q1[j].done = IF j = i THEN TRUE ELSE q0[j].done
  <2> DEFINE e == [q0[i] EXCEPT !.done = TRUE]
  <2>1. q0[i] \in Entry
    BY <1>1
  <2>2. e \in Entry /\ e.at = q0[i].at /\ e.n = q0[i].n /\ e.taken = q0[i].taken /\ e.done = TRUE
    BY <2>1 DEF Entry
  <2>3. q1 = [q0 EXCEPT ![i] = e]
    OBVIOUS
  <2> HIDE DEF e, q1
  <2>4. q1 \in Seq(Entry) /\ Len(q1) = Len(q0) /\ \A j \in 1 .. Len(q0) : q1[j] = IF j = i THEN e ELSE q0[j]
    BY <1>1, <2>2, <2>3
  <2> QED BY <2>2, <2>4
<1> HIDE DEF q1
<1>20. Parted(T, S, F, g, q1, ro)
  <2>1. ASSUME NEW j \in 1 .. Len(q1)
        PROVE  /\ Len(q1[j].at) \in 1 .. 2
               /\ \A k \in 1 .. Len(q1[j].at) :
                     /\ q1[j].at[k] \in DOMAIN g
                     /\ "DUMMY" \notin Flags(g, q1[j].at[k]) /\ "FREE" \notin Flags(g, q1[j].at[k])
                     /\ q1[j].taken <=> Off(S, F, q1[j].at[k]) < ro
                     /\ T = NOSPLIT => (q1[j].done <=> "WRITTEN" \in Flags(g, q1[j].at[k]))
    <3>1. j \in 1 .. Len(q0) /\ q1[j].at = q0[j].at /\ q1[j].taken = q0[j].taken
      BY <1>19
    <3>2. Len(q0[j].at) \in 1 .. 2
      BY <1>1, <3>1 DEF Parted
    <3>3. ASSUME NEW k \in 1 .. Len(q0[j].at)
          PROVE  /\ q0[j].at[k] \in DOMAIN g
                 /\ "DUMMY" \notin Flags(g, q0[j].at[k]) /\ "FREE" \notin Flags(g, q0[j].at[k])
                 /\ q1[j].taken <=> Off(S, F, q0[j].at[k]) < ro
                 /\ q1[j].done <=> "WRITTEN" \in Flags(g, q0[j].at[k])
      <4> DEFINE x == q0[j].at[k]
      <4>1. /\ x \in D /\ "DUMMY" \notin Flags(h, x) /\ "FREE" \notin Flags(h, x)
            /\ q0[j].taken <=> off(x) < ro
            /\ q0[j].done <=> "WRITTEN" \in Flags(h, x)
        BY <1>1, <3>1 DEF Parted
      <4>2. x \notin dum
        BY <1>18, <4>1
      <4>3. x = p <=> j = i
        <5>1. ASSUME x = p PROVE j = i
          <6>1. 1 \in 1 .. Len(q0[i].at)
            BY <1>3
          <6> QED BY <3>1, <5>1, <6>1, PartsDiffer
        <5>2. ASSUME j = i PROVE x = p
          BY <1>3, <5>2
        <5> QED BY <5>1, <5>2
      <4>4. q1[j].done <=> (j = i \/ q0[j].done)
        BY <1>19, <3>1
      <4> HIDE DEF x, p
      <4>5. /\ x \in DOMAIN g
            /\ "DUMMY" \notin Flags(g, x) /\ "FREE" \notin Flags(g, x)
            /\ q1[j].taken <=> off(x) < ro
            /\ q1[j].done <=> "WRITTEN" \in Flags(g, x)
        BY <1>14, <1>15, <3>1, <4>1, <4>2, <4>3, <4>4
      <4> QED BY <4>5 DEF x
    <3> QED BY <3>1, <3>2, <3>3
  <2> QED BY <2>1 DEF Parted
<1>21. Ordered(S, F, q1)
  BY <1>1, <1>19 DEF Ordered
<1>22. Sized(T, S, g, q1)
  <2>1. ASSUME NEW j \in 1 .. Len(q1)
        PROVE  /\ q1[j].taken \/ T = ALLOWSPLIT => q1[j].done
               /\ ~q1[j].taken => Whole(T, S, g, q1[j])
    <3>1. j \in 1 .. Len(q0) /\ q1[j].at = q0[j].at /\ q1[j].taken = q0[j].taken /\ q1[j].n = q0[j].n
          /\ (q0[j].done => q1[j].done)
      BY <1>19
    <3>2. /\ Len(q0[j].at) \in 1 .. 2 /\ \A k \in 1 .. Len(q0[j].at) : q0[j].at[k] \in DOMAIN h
      BY <1>1, <3>1 DEF Parted
    <3>3. /\ q0[j].taken \/ T = ALLOWSPLIT => q0[j].done
          /\ ~q0[j].taken => Whole(T, S, h, q0[j])
      BY <1>1, <3>1 DEF Sized
    <3>4. Whole(T, S, h, q0[j]) => Whole(T, S, g, q1[j])
      BY <1>16, <3>1, <3>2, StillWhole
    <3> QED BY <3>1, <3>3, <3>4
  <2> QED BY <2>1 DEF Sized
<1>23. Owned(S, F, g, q1, ro)
  <2> HIDE DEF p
  <2>1. \A x \in D : (\E j \in 1 .. Len(q0) : \E k \in 1 .. Len(q0[j].at) : q0[j].at[k] = x) =>
                      \E j \in 1 .. Len(q1) : \E k \in 1 .. Len(q1[j].at) : q1[j].at[k] = x
    BY <1>19, ZenonT(60)
  <2> QED BY <1>1, <1>14, <1>15, <2>1 DEF Owned
<1>24. Freed(F, g)
  BY <1>1, <1>14, <1>15 DEF Freed
<1>25. Dummies(F, g)
  BY <1>1, <1>14, <1>15 DEF Dummies
<1>26. \A e : Edge(S, F, g, u, e) <=> Edge(S, F, h, u, e)
  BY <1>14 DEF Edge
<1>27. Edge(S, F, h, u, d) /\ d \in Nat /\ ro <= d
  BY <1>1, <1>2, <1>12 DEF Edge
<1>28. WrittenTo(T, S, F, g, u, d)
  <2>1. ASSUME NEW x \in D
        PROVE  /\ off(x) < d => "WRITTEN" \in Flags(g, x)
               /\ off(x) = d => "WRITTEN" \notin Flags(g, x) /\ ~IsDummy(g, x)
    <3>1. ASSUME off(x) < d PROVE "WRITTEN" \in Flags(g, x)
      <4>1. CASE off(x) < wo
        BY <1>1, <1>15, <4>1 DEF WrittenTo
      <4>2. CASE ~(off(x) < wo)
        <5>1. x \in gone /\ x \in over
          BY <1>2, <1>4, <1>12, <3>1, <4>2
        <5>2. CASE "DUMMY" \in Flags(w, x)
          BY <1>13, <1>15, <5>1, <5>2
        <5>3. CASE "WRITTEN" \in Flags(w, x)
          BY <1>5, <1>15, <5>3
        <5> QED BY <1>6, <5>1, <5>2, <5>3
      <4> QED BY <4>1, <4>2
    <3>2. ASSUME off(x) = d PROVE "WRITTEN" \notin Flags(g, x) /\ ~IsDummy(g, x)
      <4>1. d < u
        BY <1>4, <3>2
      <4>2. z \in D /\ z \notin over /\ off(z) = d
        BY <1>12, <4>1
      <4>3. x = z
        <5>1. x \in 0 .. S - 1 /\ z \in 0 .. S - 1
          BY <1>4, <4>2
        <5> QED BY <1>2, <3>2, <4>2, <5>1, SameDistance
      <4>4. "WRITTEN" \notin Flags(w, x) /\ "DUMMY" \notin Flags(w, x)
        BY <1>6, <4>2, <4>3
      <4>5. "WRITTEN" \notin Flags(h, x) /\ "DUMMY" \notin Flags(h, x) /\ x # p
        BY <1>5, <4>4
      <4>6. x \notin dum
        BY <1>18, <4>5
      <4> QED BY <1>15, <4>5, <4>6 DEF IsDummy
    <3> QED BY <3>1, <3>2
  <2> QED BY <1>14, <1>26, <1>27, <2>1 DEF WrittenTo, NOSPLIT, ALLOWSPLIT
<1>29. Good(T, S, F, g, q1, u, ro, d)
  BY <1>1, <1>17, <1>19, <1>20, <1>21, <1>22, <1>23, <1>24, <1>25, <1>26, <1>27, <1>28 DEF Good
<1>30. p \in D \ Waiting(T, S, F, h, ro)
  BY <1>3 DEF Waiting
<1>31. Waiting(T, S, F, g, ro) = Waiting(T, S, F, h, ro) \cup {p}
  <2>1. ASSUME NEW x \in D
        PROVE  x \in Waiting(T, S, F, g, ro) <=> x \in Waiting(T, S, F, h, ro) \/ x = p
    <3>1. off(p) >= ro
      <4>1. off(p) \in Nat
        BY <1>3, <1>4
      <4> QED BY <1>2, <1>3, <4>1
    <3>2. "DUMMY" \notin Flags(h, p)
      BY <1>3
    <3> HIDE DEF p
    <3> QED BY <1>14, <1>15, <1>18, <3>1, <3>2 DEF Waiting
  <2>2. Waiting(T, S, F, g, ro) \subseteq D /\ Waiting(T, S, F, h, ro) \subseteq D
    BY <1>14 DEF Waiting
  <2> HIDE DEF p
  <2> QED BY <1>30, <2>1, <2>2
<1>32. prvSendItemDoneNoSplit(h, acq, p) = [mem |-> g, write |-> z]
  BY DEF prvSendItemDoneNoSplit, g, z, dum, gone, at, over, w
<1>33. IsAt(S, F, z, d)
  BY <1>12
<1> HIDE DEF p, z
<1> QED BY <1>29, <1>30, <1>31, <1>32, <1>33 DEF q1, p
-----------------------------------------------------------------------------
(***************************************************************************)
(* Retrieving.                                                             *)
(***************************************************************************)
\* i is the item that comes next.
FirstNew(q0, i) ==
    /\ i \in 1 .. Len(q0) /\ ~q0[i].taken
    /\ \A j \in 1 .. Len(q0) : j < i => q0[j].taken

\* The parts of the items as the invariant describes them.
LEMMA PartFacts ==
  ASSUME NEW T, NEW S, NEW F, NEW h, NEW q0, NEW u, NEW ro, NEW wo,
         Good(T, S, F, h, q0, u, ro, wo), NEW i \in 1 .. Len(q0)
  PROVE  /\ q0[i] \in Entry /\ q0[i].at \in Seq(Nat) /\ Len(q0[i].at) \in 1 .. 2
         /\ 1 \in 1 .. Len(q0[i].at) /\ Len(q0[i].at) \in 1 .. Len(q0[i].at)
         /\ Len(q0[i].at) = 1 \/ Len(q0[i].at) = 2
         /\ q0[i].taken \in BOOLEAN /\ q0[i].done \in BOOLEAN
         /\ \A k \in 1 .. Len(q0[i].at) :
              /\ q0[i].at[k] \in DOMAIN h
              /\ "DUMMY" \notin Flags(h, q0[i].at[k]) /\ "FREE" \notin Flags(h, q0[i].at[k])
              /\ q0[i].taken <=> Off(S, F, q0[i].at[k]) < ro
              /\ T = NOSPLIT => (q0[i].done <=> "WRITTEN" \in Flags(h, q0[i].at[k]))
<1>1. q0 \in Seq(Entry) /\ Parted(T, S, F, h, q0, ro)
  BY DEF Good
<1>2. q0[i] \in Entry
  BY <1>1
<1>3. q0[i].at \in Seq(Nat) /\ q0[i].taken \in BOOLEAN /\ q0[i].done \in BOOLEAN
  BY <1>2 DEF Entry
<1>4. \A m \in 1 .. 2 : 1 \in 1 .. m /\ m \in 1 .. m /\ (m = 1 \/ m = 2)
  OBVIOUS
<1>5. Len(q0[i].at) \in 1 .. 2
  BY <1>1 DEF Parted
<1>6. /\ 1 \in 1 .. Len(q0[i].at) /\ Len(q0[i].at) \in 1 .. Len(q0[i].at)
      /\ Len(q0[i].at) = 1 \/ Len(q0[i].at) = 2
  BY <1>4, <1>5, Zenon
<1> QED BY <1>1, <1>2, <1>3, <1>5, <1>6 DEF Parted

\* A header behind pucRead that is no dummy belongs to an item not retrieved yet,
\* at or behind the next one.
LEMMA NotRetrieved ==
  ASSUME NEW T, NEW S, NEW F, NEW h, NEW q0, NEW u, NEW ro, NEW wo,
         Good(T, S, F, h, q0, u, ro, wo),
         NEW x \in DOMAIN h, Off(S, F, x) >= ro, ~IsDummy(h, x)
  PROVE  \E j \in 1 .. Len(q0) : \E l \in 1 .. Len(q0[j].at) : q0[j].at[l] = x /\ ~q0[j].taken
<1>1. Off(S, F, x) \in Nat /\ ro \in Nat
  BY InUse DEF Good, Edge
<1>2. "FREE" \notin Flags(h, x)
  BY <1>1 DEF Good, Owned
<1>3. PICK j \in 1 .. Len(q0) : \E l \in 1 .. Len(q0[j].at) : q0[j].at[l] = x
  BY <1>2 DEF Good, Owned, IsDummy
<1>4. PICK l \in 1 .. Len(q0[j].at) : q0[j].at[l] = x
  BY <1>3
<1>5. ~q0[j].taken
  BY <1>1, <1>4, PartFacts
<1> QED BY <1>4, <1>5

LEMMA AtOrBehind ==
  ASSUME NEW T, NEW S, NEW F, NEW h, NEW q0, NEW u, NEW ro, NEW wo,
         Good(T, S, F, h, q0, u, ro, wo), NEW i, FirstNew(q0, i),
         NEW x \in DOMAIN h, Off(S, F, x) >= ro, ~IsDummy(h, x)
  PROVE  \/ \E l \in 1 .. Len(q0[i].at) : q0[i].at[l] = x
         \/ \A l \in 1 .. Len(q0[i].at) : Off(S, F, q0[i].at[l]) < Off(S, F, x)
<1>1. PICK j \in 1 .. Len(q0) : \E l \in 1 .. Len(q0[j].at) : q0[j].at[l] = x /\ ~q0[j].taken
  BY NotRetrieved
<1>2. PICK l \in 1 .. Len(q0[j].at) : q0[j].at[l] = x /\ ~q0[j].taken
  BY <1>1
<1>3. i \in 1 .. Len(q0) /\ ~(j < i)
  BY <1>2 DEF FirstNew
<1>4. Len(q0) \in Nat /\ Ordered(S, F, q0)
  BY DEF Good
<1>5. CASE i = j
  BY <1>2, <1>5
<1>6. CASE i < j
  BY <1>2, <1>3, <1>4, <1>6 DEF Ordered
<1> QED BY <1>3, <1>4, <1>5, <1>6

\* A dummy reaches to the item at the start of the buffer.
LEMMA BehindDummy ==
  ASSUME NEW S, NEW F, NEW h, NEW u, Layout(S, F, h, u), Dummies(F, h),
         NEW x \in DOMAIN h, IsDummy(h, x)
  PROVE  /\ 0 \in DOMAIN h /\ ~IsDummy(h, 0) /\ NextOf(S, h, x) = 0
         /\ Reach(S, F, h, x) = Off(S, F, 0)
<1>1. F # 0 /\ 0 \in DOMAIN h /\ ~IsDummy(h, 0)
  BY DEF Dummies
<1>2. NextOf(S, h, x) = 0
  BY DEF NextOf
<1> QED BY <1>1, <1>2 DEF Reach

\* pucWrite is behind the item that comes next, when that is completed.
LEMMA FirstWritten ==
  ASSUME NEW S, NEW F, NEW h, NEW q0, NEW u, NEW ro, NEW wo,
         Good(NOSPLIT, S, F, h, q0, u, ro, wo), NEW i, FirstNew(q0, i), q0[i].done
  PROVE  Len(q0[i].at) = 1 /\ Reach(S, F, h, q0[i].at[1]) <= wo
<1> DEFINE p == q0[i].at[1]
<1>1. i \in 1 .. Len(q0) /\ ~q0[i].taken
  BY DEF FirstNew
<1>2. Len(q0[i].at) = 1
  BY <1>1 DEF Good, Sized, Whole, NOSPLIT, ALLOWSPLIT
<1>3. p \in DOMAIN h /\ "WRITTEN" \in Flags(h, p) /\ ~IsDummy(h, p)
  BY <1>1, <1>2, PartFacts DEF IsDummy
<1>4. /\ Layout(S, F, h, u) /\ Dummies(F, h) /\ Edge(S, F, h, u, wo) /\ ro <= wo
      /\ ro \in Nat /\ wo \in Nat /\ u \in Nat /\ S \in Nat /\ F \in 0 .. S - 1
  BY LayoutType DEF Good, WrittenTo, Edge
<1>5. Off(S, F, p) \in Nat /\ Off(S, F, p) < u
  BY <1>3, <1>4, InUse
<1> HIDE DEF p
<1>6. Off(S, F, p) < wo
  <2>1. SUFFICES ASSUME ~(Off(S, F, p) < wo) PROVE FALSE
    OBVIOUS
  <2>2. PICK w \in DOMAIN h : Off(S, F, w) = wo
    BY <1>4, <1>5, <2>1 DEF Edge
  <2>3. "WRITTEN" \notin Flags(h, w) /\ (IsDummy(h, w) => "WRITTEN" \notin Flags(h, 0))
    BY <2>2 DEF Good, WrittenTo
  <2>4. \A x \in DOMAIN h : Off(S, F, x) >= ro /\ ~IsDummy(h, x) => x = p \/ Off(S, F, p) < Off(S, F, x)
    <3>1. SUFFICES ASSUME NEW x \in DOMAIN h, Off(S, F, x) >= ro, ~IsDummy(h, x)
                   PROVE  x = p \/ Off(S, F, p) < Off(S, F, x)
      OBVIOUS
    <3>2. \/ \E l \in 1 .. Len(q0[i].at) : q0[i].at[l] = x
          \/ \A l \in 1 .. Len(q0[i].at) : Off(S, F, q0[i].at[l]) < Off(S, F, x)
      BY <3>1, AtOrBehind
    <3> QED BY <1>2, <3>2 DEF p
  <2>5. IsDummy(h, w)
    BY <1>3, <1>4, <1>5, <2>1, <2>2, <2>3, <2>4
  <2>6. 0 \in DOMAIN h /\ ~IsDummy(h, 0) /\ Reach(S, F, h, w) = Off(S, F, 0)
    BY <1>4, <2>5, BehindDummy
  <2>7. /\ Off(S, F, w) + 8 <= Reach(S, F, h, w) /\ Reach(S, F, h, w) \in Nat
        /\ Off(S, F, p) <= Off(S, F, w) \/ Off(S, F, p) >= Reach(S, F, h, w)
    BY <1>3, <1>4, Laying
  <2>8. p # w /\ p \in 0 .. S - 1 /\ w \in 0 .. S - 1 /\ p # 0
    BY <1>3, <1>4, <2>3, <2>5, Laying
  <2>9. Off(S, F, p) # Off(S, F, w)
    BY <1>4, <2>8, SameDistance
  <2>10. Off(S, F, 0) >= ro
    BY <1>4, <2>2, <2>6, <2>7
  <2>11. Off(S, F, p) < Off(S, F, 0)
    BY <2>4, <2>6, <2>8, <2>10
  <2> QED BY <1>4, <1>5, <2>1, <2>2, <2>6, <2>7, <2>9, <2>11
<1>7. Reach(S, F, h, p) <= wo
  BY <1>3, <1>4, <1>6, Below
<1> QED BY <1>2, <1>7 DEF p

\* The item i, which comes next, is retrieved.
IsTaken(q0, i, q1) ==
    q1 = [j \in DOMAIN q0 |-> IF q0[j].at = q0[i].at
                               THEN [q0[j] EXCEPT !.taken = TRUE] ELSE q0[j]]

AfterTaking(T, S, F, h, q0, i, q1, u, ro, wo, r1) ==
    /\ r1 = Reach(S, F, h, q0[i].at[Len(q0[i].at)])
    /\ Good(T, S, F, h, q1, u, r1, wo)
    /\ Waiting(T, S, F, h, ro) =
          Waiting(T, S, F, h, r1) \cup {q0[i].at[k] : k \in 1 .. Len(q0[i].at)}
    /\ Waiting(T, S, F, h, r1) \cap {q0[i].at[k] : k \in 1 .. Len(q0[i].at)} = {}

LEMMA Taken ==
  ASSUME NEW T \in {NOSPLIT, ALLOWSPLIT}, NEW S, NEW F, NEW h, NEW q0, NEW u, NEW ro, NEW wo,
         Good(T, S, F, h, q0, u, ro, wo), NEW i, FirstNew(q0, i), q0[i].done,
         NEW q1, IsTaken(q0, i, q1)
  PROVE  \E r1 : AfterTaking(T, S, F, h, q0, i, q1, u, ro, wo, r1)
<1> DEFINE m == Len(q0[i].at)
           last == q0[i].at[Len(q0[i].at)]
           r1 == Reach(S, F, h, last)
           parts == {q0[i].at[k] : k \in 1 .. Len(q0[i].at)}
           off(x) == Off(S, F, x)
<1>1. /\ Layout(S, F, h, u) /\ Dummies(F, h) /\ Edge(S, F, h, u, ro) /\ ro <= wo
      /\ q0 \in Seq(Entry) /\ Parted(T, S, F, h, q0, ro) /\ Ordered(S, F, q0)
      /\ Sized(T, S, h, q0) /\ Owned(S, F, h, q0, ro) /\ Freed(F, h)
      /\ WrittenTo(T, S, F, h, u, wo)
  BY DEF Good
<1>2. S \in Nat /\ F \in 0 .. S - 1 /\ u \in 0 .. S /\ ro \in 0 .. u /\ wo \in 0 .. u
  BY <1>1, LayoutType DEF Edge, WrittenTo
<1>3. /\ i \in 1 .. Len(q0) /\ ~q0[i].taken /\ Len(q0) \in Nat
      /\ 1 \in 1 .. m /\ m \in 1 .. m /\ (m = 1 \/ m = 2)
  BY <1>1, PartFacts DEF FirstNew
<1>4. \A k \in 1 .. m : /\ q0[i].at[k] \in DOMAIN h /\ ~(off(q0[i].at[k]) < ro)
                        /\ "DUMMY" \notin Flags(h, q0[i].at[k])
                        /\ T = NOSPLIT => "WRITTEN" \in Flags(h, q0[i].at[k])
  BY <1>3, PartFacts
<1>5. last \in DOMAIN h /\ ~(off(last) < ro)
  BY <1>3, <1>4
<1>6. off(last) \in Nat /\ r1 \in 0 .. u /\ off(last) + 8 <= r1
      /\ \A x \in DOMAIN h : off(x) <= off(last) \/ off(x) >= r1
  BY <1>1, <1>5, InUse, Laying
<1>7. Edge(S, F, h, u, r1)
  BY <1>1, <1>5, EdgeBehind
<1>8. \A x \in DOMAIN h : off(x) \in Nat
  BY <1>1, InUse
<1>9. r1 <= wo
  <2>1. CASE T = NOSPLIT
    BY <1>3, <2>1, FirstWritten
  <2>2. CASE T = ALLOWSPLIT
    BY <1>1, <1>2, <1>6, <2>2 DEF WrittenTo
  <2> QED BY <2>1, <2>2
<1>10. \A k \in 1 .. m : off(q0[i].at[k]) <= off(last)
  <2>1. m = 1 \/ m = 2
    BY <1>3
  <2>2. CASE m = 1
    <3>1. \A k \in 1 .. m : q0[i].at[k] = last
      BY <2>2
    <3> HIDE DEF last
    <3> QED BY <1>6, <3>1
  <2>3. CASE m = 2
    <3>1. 1 \in 1 .. Len(q0[i].at) /\ 2 \in 1 .. Len(q0[i].at)
      BY <2>3
    <3>2. off(q0[i].at[1]) < off(q0[i].at[2])
      BY <1>1, <1>3, <3>1 DEF Ordered
    <3>3. off(q0[i].at[1]) \in Nat
      BY <1>4, <1>8, <2>3
    <3> QED BY <1>6, <2>3, <3>2, <3>3
  <2> QED BY <2>1, <2>2, <2>3
<1>11. ASSUME NEW x \in DOMAIN h, ~IsDummy(h, x), ~(off(x) < ro)
       PROVE  (off(x) < r1 /\ x \in parts) \/ (off(x) >= r1 /\ x \notin parts)
  <2>1. off(x) >= ro /\ off(x) \in Nat
    BY <1>2, <1>8, <1>11
  <2>2. \/ \E l \in 1 .. Len(q0[i].at) : q0[i].at[l] = x
        \/ \A l \in 1 .. Len(q0[i].at) : Off(S, F, q0[i].at[l]) < Off(S, F, x)
    BY <1>11, <2>1, AtOrBehind
  <2>3. CASE \E l \in 1 .. Len(q0[i].at) : q0[i].at[l] = x
    <3>1. off(x) <= off(last) /\ x \in parts
      BY <1>10, <2>3
    <3> HIDE DEF parts, last, r1
    <3> QED BY <1>6, <2>1, <3>1
  <2>4. CASE \A l \in 1 .. Len(q0[i].at) : Off(S, F, q0[i].at[l]) < Off(S, F, x)
    <3>1. off(last) < off(x)
      BY <1>3, <2>4
    <3>2. x \notin parts
      BY <2>1, <2>4
    <3> HIDE DEF parts, last, r1
    <3> QED BY <1>6, <2>1, <3>1, <3>2
  <2> QED BY <2>2, <2>3, <2>4
<1>12. \A j \in 1 .. Len(q0) : q0[j].at = q0[i].at <=> j = i
  <2>1. ASSUME NEW j \in 1 .. Len(q0), q0[j].at = q0[i].at PROVE j = i
    <3>1. 1 \in 1 .. Len(q0[i].at) /\ 1 \in 1 .. Len(q0[j].at) /\ q0[j].at[1] = q0[i].at[1]
      BY <1>3, <2>1
    <3> QED BY <1>3, <3>1, PartsDiffer
  <2> QED BY <2>1
<1>13. /\ q1 \in Seq(Entry) /\ Len(q1) = Len(q0)
       /\ \A j \in 1 .. Len(q0) : /\ q1[j].at = q0[j].at /\ q1[j].n = q0[j].n
                                  /\ q1[j].done = q0[j].done
                                  /\ q1[j].taken <=> (j = i \/ q0[j].taken)
  <2>0. q1 = [j \in DOMAIN q0 |-> IF q0[j].at = q0[i].at
                                  THEN [q0[j] EXCEPT !.taken = TRUE] ELSE q0[j]]
    BY DEF IsTaken
  <2>1. DOMAIN q0 = 1 .. Len(q0) /\ DOMAIN q1 = 1 .. Len(q0)
    BY <1>1, <2>0
  <2>2. ASSUME NEW j \in 1 .. Len(q0)
        PROVE  /\ q1[j] \in Entry /\ q1[j].at = q0[j].at /\ q1[j].n = q0[j].n
               /\ q1[j].done = q0[j].done
               /\ q1[j].taken <=> (j = i \/ q0[j].taken)
    <3> DEFINE e == [q0[j] EXCEPT !.taken = TRUE]
    <3>1. q0[j] \in Entry
      BY PartFacts
    <3>2. e \in Entry /\ e.at = q0[j].at /\ e.n = q0[j].n /\ e.done = q0[j].done /\ e.taken = TRUE
      BY <3>1 DEF Entry
    <3> HIDE DEF e
    <3>3. q1[j] = IF j = i THEN e ELSE q0[j]
      BY <1>12, <2>0, <2>1 DEF e
    <3>4. CASE j = i
      <4>1. q1[j] = e
        BY <3>3, <3>4
      <4> QED BY <3>2, <3>4, <4>1, Zenon
    <3>5. CASE j # i
      <4>1. q1[j] = q0[j]
        BY <3>3, <3>5
      <4> QED BY <3>1, <3>5, <4>1, Zenon
    <3> QED BY <3>4, <3>5
  <2>3. q1 = [j \in 1 .. Len(q0) |-> q1[j]]
    <3> DEFINE v(j) == IF q0[j].at = q0[i].at THEN [q0[j] EXCEPT !.taken = TRUE] ELSE q0[j]
    <3>1. q1 = [j \in 1 .. Len(q0) |-> v(j)]
      BY <2>0, <2>1
    <3> HIDE DEF v
    <3> QED BY <3>1
  <2>4. q1 \in [1 .. Len(q0) -> Entry]
    BY <2>2, <2>3
  <2>5. q1 \in Seq(Entry) /\ Len(q1) = Len(q0)
    BY <1>3, <2>4
  <2> QED BY <2>2, <2>5
<1>14. Parted(T, S, F, h, q1, r1)
  <2>1. ASSUME NEW j \in 1 .. Len(q0), NEW k \in 1 .. Len(q0[j].at)
        PROVE  q1[j].taken <=> off(q0[j].at[k]) < r1
    <3> DEFINE x == q0[j].at[k]
    <3>1. x \in DOMAIN h /\ ~IsDummy(h, x) /\ (q0[j].taken <=> off(x) < ro)
      BY PartFacts DEF IsDummy
    <3>2. CASE j = i
      <4>1. x \in parts /\ ~(off(x) < ro)
        BY <1>4, <3>2
      <4> HIDE DEF parts, x, r1
      <4>2. q1[j].taken /\ off(x) < r1
        BY <1>11, <1>13, <3>1, <3>2, <4>1
      <4> QED BY <4>2 DEF x
    <3>3. CASE j # i
      <4>1. x \notin parts
        BY <1>3, <3>3, PartsDiffer
      <4>2. q1[j].taken <=> q0[j].taken
        BY <1>13, <3>3
      <4>3. off(x) \in Nat /\ ro < r1
        BY <1>2, <1>5, <1>6, <1>8, <3>1
      <4> HIDE DEF parts, x, r1
      <4>4. off(x) < ro => off(x) < r1
        BY <1>2, <1>6, <4>3
      <4>5. ~(off(x) < ro) => ~(off(x) < r1)
        BY <1>2, <1>6, <1>11, <3>1, <4>1, <4>3
      <4>6. q1[j].taken <=> off(x) < r1
        BY <3>1, <4>2, <4>4, <4>5
      <4> QED BY <4>6 DEF x
    <3> QED BY <3>2, <3>3
  <2> HIDE DEF r1, last
  <2> QED BY <1>1, <1>13, <2>1 DEF Parted
<1>15. Ordered(S, F, q1)
  BY <1>1, <1>13 DEF Ordered
<1>16. Sized(T, S, h, q1)
  <2>1. ASSUME NEW j \in 1 .. Len(q0)
        PROVE  /\ q1[j].taken \/ T = ALLOWSPLIT => q1[j].done
               /\ ~q1[j].taken => Whole(T, S, h, q1[j])
    <3>1. /\ q0[j].taken \/ T = ALLOWSPLIT => q0[j].done
          /\ ~q0[j].taken => Whole(T, S, h, q0[j])
      BY <1>1 DEF Sized
    <3>2. Whole(T, S, h, q0[j]) => Whole(T, S, h, q1[j])
      BY <1>13 DEF Whole
    <3> QED BY <1>13, <3>1, <3>2
  <2> QED BY <1>13, <2>1 DEF Sized
<1>17. Owned(S, F, h, q1, r1)
  <2>1. \A x \in DOMAIN h : (\E j \in 1 .. Len(q0) : \E k \in 1 .. Len(q0[j].at) : q0[j].at[k] = x) =>
                      \E j \in 1 .. Len(q1) : \E k \in 1 .. Len(q1[j].at) : q1[j].at[k] = x
    BY <1>13
  <2>2. \A x \in DOMAIN h : off(x) < ro => off(x) < r1
    <3> HIDE DEF r1, last
    <3> QED BY <1>2, <1>5, <1>6, <1>8
  <2> HIDE DEF r1
  <2> QED BY <1>1, <2>1, <2>2 DEF Owned
<1>18. Good(T, S, F, h, q1, u, r1, wo)
  <2> HIDE DEF r1
  <2> QED BY <1>1, <1>7, <1>9, <1>13, <1>14, <1>15, <1>16, <1>17 DEF Good
<1>19. ASSUME NEW x \in DOMAIN h
       PROVE  /\ x \in Waiting(T, S, F, h, ro) <=> x \in Waiting(T, S, F, h, r1) \/ x \in parts
              /\ ~(x \in Waiting(T, S, F, h, r1) /\ x \in parts)
  <2>1. off(x) \in Nat /\ ro \in Nat /\ r1 \in Nat /\ ro < r1
    BY <1>2, <1>5, <1>6, <1>8
  <2>2. x \in parts => ~IsDummy(h, x) /\ ~(off(x) < ro) /\ (T = NOSPLIT => "WRITTEN" \in Flags(h, x))
    BY <1>4 DEF IsDummy
  <2> HIDE DEF parts, r1
  <2>3. CASE IsDummy(h, x)
    BY <2>2, <2>3 DEF Waiting, IsDummy
  <2>4. CASE ~IsDummy(h, x) /\ off(x) < ro
    BY <2>1, <2>2, <2>4 DEF Waiting
  <2>5. CASE ~IsDummy(h, x) /\ ~(off(x) < ro)
    BY <1>11, <2>1, <2>2, <2>5 DEF Waiting, IsDummy
  <2> QED BY <2>3, <2>4, <2>5
<1>20. /\ Waiting(T, S, F, h, ro) \subseteq DOMAIN h /\ Waiting(T, S, F, h, r1) \subseteq DOMAIN h
       /\ parts \subseteq DOMAIN h
  BY <1>4 DEF Waiting
<1> HIDE DEF parts, r1
<1>21. /\ Waiting(T, S, F, h, ro) = Waiting(T, S, F, h, r1) \cup parts
       /\ Waiting(T, S, F, h, r1) \cap parts = {}
  BY <1>19, <1>20
<1>22. AfterTaking(T, S, F, h, q0, i, q1, u, ro, wo, r1)
  BY <1>18, <1>21 DEF parts, r1, last, AfterTaking
<1> QED BY <1>22

\* The header pucRead leads to is of the item that comes next.
LEMMA NextToRead ==
  ASSUME NEW T, NEW S, NEW F, NEW h, NEW q0, NEW u, NEW ro, NEW wo,
         Good(T, S, F, h, q0, u, ro, wo), NEW r, IsAt(S, F, r, ro),
         Waiting(T, S, F, h, ro) # {}
  PROVE  /\ r \in DOMAIN h
         /\ LET p == IF IsDummy(h, r) THEN 0 ELSE r IN
            \E i : FirstNew(q0, i) /\ q0[i].at[1] = p
<1> DEFINE p == IF IsDummy(h, r) THEN 0 ELSE r
           off(x) == Off(S, F, x)
<1>1. /\ Layout(S, F, h, u) /\ Dummies(F, h) /\ Edge(S, F, h, u, ro) /\ Ordered(S, F, q0)
      /\ S \in Nat /\ F \in 0 .. S - 1 /\ u \in 0 .. S /\ ro \in 0 .. u /\ q0 \in Seq(Entry)
  BY LayoutType DEF Good, Edge
<1>2. \A x \in DOMAIN h : off(x) \in Nat /\ off(x) < u /\ x \in 0 .. S - 1
  BY <1>1, InUse, Laying
<1>3. ro < u
  <2>1. PICK x \in DOMAIN h : off(x) >= ro
    BY DEF Waiting
  <2> QED BY <1>1, <1>2, <2>1
<1>4. r \in DOMAIN h /\ off(r) = ro
  BY <1>1, <1>3, HeaderAt
<1>5. /\ p \in DOMAIN h /\ ~IsDummy(h, p) /\ off(p) >= ro
      /\ \A x \in DOMAIN h : off(x) >= ro /\ ~IsDummy(h, x) => off(x) >= off(p)
  <2>1. CASE ~IsDummy(h, r)
    BY <1>1, <1>2, <1>4, <2>1
  <2>2. CASE IsDummy(h, r)
    <3>1. 0 \in DOMAIN h /\ ~IsDummy(h, 0) /\ Reach(S, F, h, r) = off(0)
      BY <1>1, <1>4, <2>2, BehindDummy
    <3>2. /\ off(r) + 8 <= off(0) /\ off(0) \in Nat
          /\ \A x \in DOMAIN h : off(x) <= off(r) \/ off(x) >= off(0)
      <4>1. /\ off(r) + 8 <= Reach(S, F, h, r) /\ off(0) \in Nat
            /\ \A x \in DOMAIN h : off(x) <= off(r) \/ off(x) >= Reach(S, F, h, r)
        BY <1>1, <1>2, <1>4, <3>1, Laying
      <4> QED BY <3>1, <4>1
    <3>3. ASSUME NEW x \in DOMAIN h, off(x) >= ro, ~IsDummy(h, x) PROVE off(x) >= off(0)
      <4>1. x # r /\ x \in 0 .. S - 1 /\ r \in 0 .. S - 1
        BY <1>2, <1>4, <2>2, <3>3
      <4>2. off(x) # off(r)
        BY <1>1, <4>1, SameDistance
      <4> QED BY <1>1, <1>2, <1>4, <3>2, <3>3, <4>2
    <3> QED BY <1>1, <1>4, <2>2, <3>1, <3>2, <3>3
  <2> QED BY <2>1, <2>2
<1> HIDE DEF p
<1>6. PICK i \in 1 .. Len(q0) : \E k \in 1 .. Len(q0[i].at) : q0[i].at[k] = p /\ ~q0[i].taken
  BY <1>5, NotRetrieved
<1>7. PICK k \in 1 .. Len(q0[i].at) : q0[i].at[k] = p /\ ~q0[i].taken
  BY <1>6
<1>8. ASSUME NEW j \in 1 .. Len(q0), ~q0[j].taken
      PROVE  /\ Len(q0[j].at) \in 1 .. 2 /\ 1 \in 1 .. Len(q0[j].at)
             /\ off(q0[j].at[1]) >= off(p) /\ off(q0[j].at[1]) \in Nat
  <2>1. Len(q0[j].at) \in 1 .. 2 /\ 1 \in 1 .. Len(q0[j].at)
    BY PartFacts
  <2> DEFINE x == q0[j].at[1]
  <2>2. x \in DOMAIN h /\ ~IsDummy(h, x) /\ ~(off(x) < ro)
    BY <1>8, <2>1, PartFacts DEF IsDummy
  <2> HIDE DEF x
  <2>3. off(x) >= ro /\ off(x) \in Nat
    BY <1>1, <1>2, <2>2
  <2>4. off(x) >= off(p)
    BY <1>5, <2>2, <2>3
  <2> QED BY <2>1, <2>3, <2>4 DEF x
<1>9. off(p) \in Nat
  BY <1>2, <1>5
<1>10. k = 1
  <2>1. Len(q0[i].at) \in 1 .. 2 /\ 1 \in 1 .. Len(q0[i].at) /\ off(q0[i].at[1]) >= off(p)
        /\ off(q0[i].at[1]) \in Nat
    BY <1>7, <1>8
  <2>2. 1 < k => off(q0[i].at[1]) < off(q0[i].at[k])
    BY <1>1, <2>1 DEF Ordered
  <2>3. k \in Nat
    BY <2>1
  <2> QED BY <1>7, <1>9, <2>1, <2>2, <2>3
<1>11. \A j \in 1 .. Len(q0) : j < i => q0[j].taken
  <2>1. SUFFICES ASSUME NEW j \in 1 .. Len(q0), j < i, ~q0[j].taken PROVE FALSE
    OBVIOUS
  <2>2. 1 \in 1 .. Len(q0[j].at) /\ off(q0[j].at[1]) >= off(p) /\ off(q0[j].at[1]) \in Nat
    BY <1>8, <2>1
  <2>3. off(q0[j].at[1]) < off(q0[i].at[k])
    BY <1>1, <2>1, <2>2 DEF Ordered
  <2> QED BY <1>7, <1>9, <2>2, <2>3
<1>12. FirstNew(q0, i) /\ q0[i].at[1] = p
  BY <1>7, <1>10, <1>11 DEF FirstNew
<1> QED BY <1>4, <1>12 DEF p

\* What is read at a header.
LEMMA GetItem ==
  ASSUME NEW r \in DOMAIN mem, NEW p \in DOMAIN mem, ~IsDummy(mem, p),
         p = IF IsDummy(mem, r) THEN 0 ELSE r
  PROVE  LET one == prvGetItemDefault(r) IN
         /\ one.at = p /\ one.len = mem[p].xItemLen
         /\ one.split <=> "SPLIT" \in Flags(mem, p)
         /\ one.next = NextOf(xSize, mem, p)
<1>1. Header(mem, r) = mem[r] /\ Header(mem, p) = mem[p]
  BY DEF Header
<1>2. p = IF Marked(mem, r, "DUMMY") THEN 0 ELSE r
  BY <1>1 DEF Marked, IsDummy, Flags
<1>3. Wrap(End(p, mem[p].xItemLen)) = NextOf(xSize, mem, p)
  BY DEF Wrap, NextOf
<1>4. prvGetItemDefault(r) = [at |-> p, len |-> mem[p].xItemLen,
                              split |-> "SPLIT" \in mem[p].uxItemFlags,
                              next |-> Wrap(End(p, mem[p].xItemLen))]
  BY <1>1, <1>2 DEF prvGetItemDefault
<1> DEFINE one == prvGetItemDefault(r)
<1>5. one.at = p /\ one.len = mem[p].xItemLen /\ one.next = NextOf(xSize, mem, p)
  BY <1>3, <1>4
<1>6. one.split <=> "SPLIT" \in mem[p].uxItemFlags
  <2>1. \A a, b, c, d : [at |-> a, len |-> b, split |-> c, next |-> d].split = c
    OBVIOUS
  <2> DEFINE b == "SPLIT" \in mem[p].uxItemFlags
             rec(s) == [at |-> p, len |-> mem[p].xItemLen, split |-> s,
                        next |-> Wrap(End(p, mem[p].xItemLen))]
  <2>2. \A s : rec(s).split = s
    BY <2>1, Zenon
  <2> HIDE DEF rec
  <2>3. rec(b).split = b
    BY <2>2, Zenon
  <2>4. one = rec(b)
    BY <1>4 DEF rec
  <2> HIDE DEF one, b
  <2>5. one.split = b
    BY <2>3, <2>4, Zenon
  <2> QED BY <2>5, Zenon DEF b
<1> QED BY <1>5, <1>6 DEF Flags

\* What prvReceiveGeneric hands out is the item i.
HandsOut(i) ==
    /\ DOMAIN Parts = 1 .. Len(q[i].at) /\ Len(Parts) = Len(q[i].at)
    /\ [k \in DOMAIN Parts |-> Parts[k].at] = q[i].at
    /\ Parts[1].len + (IF Len(Parts) = 2 THEN Parts[2].len ELSE 0) = q[i].n
    /\ Parts[Len(Parts)].next = NextOf(xSize, mem, q[i].at[Len(q[i].at)])

LEMMA ReadParts ==
  ASSUME NEW u, NEW ro, NEW wo, Buffer(u, ro, wo),
         Waiting(type, xSize, pucFree, mem, ro) # {}
  PROVE  \E i : FirstNew(q, i) /\ HandsOut(i)
<1>1. /\ Good(type, xSize, pucFree, mem, q, u, ro, wo) /\ IsAt(xSize, pucFree, pucRead, ro)
      /\ Sized(type, xSize, mem, q) /\ \A x \in DOMAIN mem : mem[x].xItemLen \in Nat
  BY DEF Buffer, Pointers, Good, Layout, Headers, HeaderSet
<1>2. pucRead \in DOMAIN mem
  BY <1>1, NextToRead
<1> DEFINE p == IF IsDummy(mem, pucRead) THEN 0 ELSE pucRead
           one == prvGetItemDefault(pucRead)
           two == prvGetItemDefault(one.next)
<1>3. PICK i : FirstNew(q, i) /\ q[i].at[1] = p
  BY <1>1, NextToRead
<1>4. /\ i \in 1 .. Len(q) /\ 1 \in 1 .. Len(q[i].at) /\ q[i].at \in Seq(Nat)
      /\ \A k \in 1 .. Len(q[i].at) : q[i].at[k] \in DOMAIN mem /\ ~IsDummy(mem, q[i].at[k])
  BY <1>1, <1>3, PartFacts DEF FirstNew, IsDummy
<1>5. Whole(type, xSize, mem, q[i])
  BY <1>1, <1>3 DEF FirstNew, Sized
<1>6. p \in DOMAIN mem /\ ~IsDummy(mem, p)
  BY <1>3, <1>4
<1>7. /\ one.at = p /\ one.len = mem[p].xItemLen /\ (one.split <=> "SPLIT" \in Flags(mem, p))
      /\ one.next = NextOf(xSize, mem, p)
  BY <1>2, <1>6, GetItem
<1>8. Parts = IF type = ALLOWSPLIT /\ one.split THEN <<one, two>> ELSE <<one>>
  BY DEF Parts
<1> HIDE DEF p, one
<1>9. CASE Len(q[i].at) = 1
  <2>1. q[i].at = <<p>> /\ q[i].n = mem[p].xItemLen /\ "SPLIT" \notin Flags(mem, p)
    BY <1>3, <1>4, <1>5, <1>9 DEF Whole
  <2>2. Parts = <<one>>
    BY <1>7, <1>8, <2>1
  <2>3. mem[p].xItemLen \in Nat
    BY <1>1, <1>6
  <2>4. DOMAIN Parts = 1 .. 1 /\ Len(Parts) = 1 /\ Parts[1] = one
    BY <2>2
  <2>5. [k \in DOMAIN Parts |-> Parts[k].at] = <<p>>
    BY <1>7, <2>4
  <2> QED BY <1>3, <1>7, <2>1, <2>3, <2>4, <2>5, SMTT(30) DEF HandsOut
<1>10. CASE Len(q[i].at) # 1
  <2> DEFINE x == q[i].at[2]
  <2>1. /\ type = ALLOWSPLIT /\ Len(q[i].at) = 2 /\ q[i].n = mem[p].xItemLen + mem[x].xItemLen
        /\ "SPLIT" \in Flags(mem, p) /\ x = NextOf(xSize, mem, p)
    BY <1>3, <1>5, <1>10 DEF Whole
  <2>2. q[i].at = <<p, x>> /\ 2 \in 1 .. Len(q[i].at)
    BY <1>3, <1>4, <2>1
  <2>3. x \in DOMAIN mem /\ ~IsDummy(mem, x)
    BY <1>4, <2>2
  <2> HIDE DEF x, two
  <2>4. two.at = x /\ two.len = mem[x].xItemLen /\ two.next = NextOf(xSize, mem, x)
    <3>1. two = prvGetItemDefault(x)
      BY <1>7, <2>1 DEF two
    <3> QED BY <2>3, <3>1, GetItem
  <2>5. Parts = <<one, two>>
    BY <1>7, <1>8, <2>1
  <2>6. DOMAIN Parts = 1 .. 2 /\ Len(Parts) = 2 /\ Parts[1] = one /\ Parts[2] = two
    BY <2>5
  <2>7. [k \in DOMAIN Parts |-> Parts[k].at] = <<p, x>>
    BY <1>7, <2>4, <2>6
  <2>8. HandsOut(i)
    BY <1>7, <2>1, <2>2, <2>4, <2>6, <2>7 DEF HandsOut, x
  <2> QED BY <1>3, <2>8
<1> QED BY <1>9, <1>10

\* Judge looks at the item that comes next.
LEMMA Judged ==
  ASSUME NEW i, FirstNew(q, i), q \in Seq(Entry), fault = "none"
  PROVE  Judge(q[i].at, q[i].n) = IF ~q[i].done THEN "early" ELSE "none"
<1> DEFINE new == {j \in DOMAIN q : ~q[j].taken}
           c == CHOOSE x \in new : \A y \in new : x <= y
<1>1. DOMAIN q = 1 .. Len(q) /\ Len(q) \in Nat /\ i \in new
  BY DEF FirstNew
<1>2. \A y \in new : i <= y
  BY <1>1 DEF FirstNew
<1>3. c \in new /\ \A y \in new : c <= y
  BY <1>1, <1>2
<1>4. c = i
  <2>1. c <= i /\ i <= c /\ c \in Int /\ i \in Int
    BY <1>1, <1>2, <1>3
  <2> HIDE DEF c
  <2> QED BY <2>1
<1>5. Judge(q[i].at, q[i].n) = IF fault # "none" THEN fault
       ELSE IF new = {} \/ q[c].at # q[i].at \/ q[c].n # q[i].n THEN "wrong"
       ELSE IF ~q[c].done THEN "early" ELSE "none"
  BY DEF Judge
<1> HIDE DEF c, new
<1> QED BY <1>1, <1>4, <1>5

\* There are finitely many headers, fewer than bytes.
LEMMA CountWaiting ==
  ASSUME NEW T, NEW S, NEW F, NEW h, NEW u, Layout(S, F, h, u), NEW ro
  PROVE  /\ IsFiniteSet(Waiting(T, S, F, h, ro))
         /\ Cardinality(Waiting(T, S, F, h, ro)) \in 0 .. S
         /\ Cardinality(Waiting(T, S, F, h, ro)) = 0 <=> Waiting(T, S, F, h, ro) = {}
<1> DEFINE W == Waiting(T, S, F, h, ro)
<1>1. S \in Nat /\ \A x \in DOMAIN h : x \in 0 .. S - 1
  BY LayoutType, Laying
<1>2. W \in SUBSET (0 .. S - 1)
  BY <1>1 DEF Waiting
<1>3. IsFiniteSet(0 .. S - 1) /\ Cardinality(0 .. S - 1) = IF 0 > S - 1 THEN 0 ELSE (S - 1) - 0 + 1
  BY <1>1, FS_Interval
<1> HIDE DEF W
<1>4. IsFiniteSet(W) /\ Cardinality(W) <= Cardinality(0 .. S - 1)
  BY <1>2, <1>3, FS_Subset
<1>5. Cardinality(W) \in Nat
  BY <1>4, FS_CardinalityType
<1>6. Cardinality(W) = 0 <=> W = {}
  BY <1>4, FS_EmptySet
<1> QED BY <1>1, <1>3, <1>4, <1>5, <1>6 DEF W

\* The headers of an item are as many as its parts.
LEMMA CountParts ==
  ASSUME NEW at \in Seq(Nat), Len(at) = 1 \/ Len(at) = 2,
         \A k, l \in 1 .. Len(at) : at[k] = at[l] => k = l
  PROVE  /\ IsFiniteSet({at[k] : k \in 1 .. Len(at)})
         /\ Cardinality({at[k] : k \in 1 .. Len(at)}) = Len(at)
<1> DEFINE P == {at[k] : k \in 1 .. Len(at)}
<1>1. IsFiniteSet({at[1]}) /\ Cardinality({at[1]}) = 1
  BY FS_Singleton
<1>2. CASE Len(at) = 1
  <2>1. P = {at[1]}
    BY <1>2
  <2> QED BY <1>1, <1>2, <2>1
<1>3. CASE Len(at) = 2
  <2>1. P = {at[1]} \cup {at[2]} /\ at[2] \notin {at[1]}
    BY <1>3
  <2>2. /\ IsFiniteSet({at[1]} \cup {at[2]})
        /\ Cardinality({at[1]} \cup {at[2]}) =
              IF at[2] \in {at[1]} THEN Cardinality({at[1]}) ELSE Cardinality({at[1]}) + 1
    BY <1>1, FS_AddElement
  <2> HIDE DEF P
  <2>3. IsFiniteSet(P) /\ Cardinality(P) = 2
    BY <1>1, <2>1, <2>2
  <2> QED BY <1>3, <2>3 DEF P
<1> QED BY <1>2, <1>3

\* A set and another one apart from it.
LEMMA CountApart ==
  ASSUME NEW A, IsFiniteSet(A), NEW B, IsFiniteSet(B), A \cap B = {}
  PROVE  Cardinality(A \cup B) = Cardinality(A) + Cardinality(B)
<1>1. Cardinality(A) \in Nat /\ Cardinality(B) \in Nat
  BY FS_CardinalityType
<1>2. Cardinality(A \cup B) = Cardinality(A) + Cardinality(B) - Cardinality(A \cap B)
  BY FS_Union
<1>3. Cardinality(A \cap B) = 0
  BY FS_EmptySet
<1> QED BY <1>1, <1>2, <1>3

\* The buffer and the count of what waits in it.
Kept(u, ro, wo) ==
    Buffer(u, ro, wo) /\ xItemsWaiting = Cardinality(Waiting(type, xSize, pucFree, mem, ro))

LEMMA WaitingThere ==
  ASSUME NEW u, NEW ro, NEW wo, Kept(u, ro, wo), prvCheckItemAvail
  PROVE  Waiting(type, xSize, pucFree, mem, ro) # {}
<1>1. Layout(xSize, pucFree, mem, u)
  BY DEF Kept, Buffer, Good
<1>2. xItemsWaiting # 0
  BY DEF prvCheckItemAvail
<1> QED BY <1>1, <1>2, CountWaiting DEF Kept

\* prvReceiveGeneric hands out the item that comes next.
LEMMA ReceiveStep ==
  ASSUME NEW u, NEW ro, NEW wo, Kept(u, ro, wo), fault = "none",
         prvCheckItemAvail, ReceiveItem,
         UNCHANGED <<type, xSize, pucAcquire, pucWrite, pucFree, full, mem>>
  PROVE  /\ fault' = "none" \/ (fault' = "early" /\ type = NOSPLIT)
         /\ fault' = "none" => \E r1 : Kept(u, r1, wo)'
<1>1. PICK i : FirstNew(q, i) /\ HandsOut(i)
  BY WaitingThere, ReadParts DEF Kept
<1> DEFINE at == [k \in DOMAIN Parts |-> Parts[k].at]
           n  == Parts[1].len + (IF Len(Parts) = 2 THEN Parts[2].len ELSE 0)
           last == q[i].at[Len(q[i].at)]
           parts == {q[i].at[k] : k \in 1 .. Len(q[i].at)}
           W(r) == Waiting(type, xSize, pucFree, mem, r)
<1>2. at = q[i].at /\ n = q[i].n /\ Len(Parts) = Len(q[i].at)
      /\ Parts[Len(Parts)].next = NextOf(xSize, mem, last)
  BY <1>1 DEF HandsOut
<1>3. /\ pucRead' = Parts[Len(Parts)].next
      /\ xItemsWaiting' = xItemsWaiting - Len(Parts)
      /\ q' = [j \in DOMAIN q |-> IF q[j].at = at THEN [q[j] EXCEPT !.taken = TRUE] ELSE q[j]]
      /\ fault' = Judge(at, n)
  BY DEF ReceiveItem
<1> HIDE DEF at, n
<1>4. /\ pucRead' = NextOf(xSize, mem, last)
      /\ xItemsWaiting' = xItemsWaiting - Len(q[i].at)
      /\ q' = [j \in DOMAIN q |-> IF q[j].at = q[i].at THEN [q[j] EXCEPT !.taken = TRUE] ELSE q[j]]
      /\ fault' = Judge(q[i].at, q[i].n)
  BY <1>2, <1>3
<1>5. /\ Good(type, xSize, pucFree, mem, q, u, ro, wo) /\ type \in {NOSPLIT, ALLOWSPLIT}
      /\ q \in Seq(Entry) /\ Pointers(u, ro, wo) /\ Sized(type, xSize, mem, q)
      /\ xSize >= 2 * rbHEADER_SIZE
      /\ Layout(xSize, pucFree, mem, u)
      /\ xItemsWaiting = Cardinality(W(ro))
  BY DEF Kept, Buffer, Good
<1>6. fault' = IF ~q[i].done THEN "early" ELSE "none"
  BY <1>1, <1>4, <1>5, Judged
<1>7. type = ALLOWSPLIT => q[i].done
  BY <1>1, <1>5 DEF Sized, FirstNew
<1>8. ASSUME fault' = "none" PROVE \E r : Kept(u, r, wo)'
  <2>1. q[i].done
    BY <1>6, <1>8
  <2>2. IsTaken(q, i, q')
    BY <1>4 DEF IsTaken
  <2>3. PICK r1 : AfterTaking(type, xSize, pucFree, mem, q, i, q', u, ro, wo, r1)
    BY <1>1, <1>5, <2>1, <2>2, Taken
  <2>4. /\ r1 = Reach(xSize, pucFree, mem, last)
        /\ Good(type, xSize, pucFree, mem, q', u, r1, wo)
        /\ W(ro) = W(r1) \cup parts /\ W(r1) \cap parts = {}
    BY <2>3 DEF AfterTaking
  <2>5. i \in 1 .. Len(q)
    BY <1>1 DEF FirstNew
  <2>6. /\ q[i].at \in Seq(Nat) /\ (Len(q[i].at) = 1 \/ Len(q[i].at) = 2)
        /\ Len(q[i].at) \in 1 .. Len(q[i].at)
        /\ \A k \in 1 .. Len(q[i].at) : q[i].at[k] \in DOMAIN mem
    BY <1>5, <2>5, PartFacts
  <2>7. last \in DOMAIN mem
    BY <2>6
  <2>8. \A k, l \in 1 .. Len(q[i].at) : q[i].at[k] = q[i].at[l] => k = l
    BY <1>5, <2>5, PartsDiffer
  <2>9. IsFiniteSet(parts) /\ Cardinality(parts) = Len(q[i].at)
    BY <2>6, <2>8, CountParts
  <2>10. IsFiniteSet(W(r1)) /\ Cardinality(W(r1)) \in Nat
    BY <1>5, CountWaiting
  <2>11. IsAt(xSize, pucFree, pucRead', r1)
    BY <1>4, <1>5, <2>4, <2>7, Laying
  <2> HIDE DEF parts, W
  <2>12. Cardinality(W(ro)) = Cardinality(W(r1)) + Len(q[i].at)
    BY <2>4, <2>9, <2>10, CountApart
  <2>13. xItemsWaiting' = Cardinality(W(r1))
    BY <1>4, <1>5, <2>6, <2>10, <2>12
  <2>14. Pointers(u, r1, wo)'
    BY <1>5, <2>11 DEF Pointers
  <2>15. Kept(u, r1, wo)'
    BY <1>5, <2>4, <2>13, <2>14 DEF Kept, Buffer, W
  <2> QED BY <2>15
<1> QED BY <1>5, <1>6, <1>7, <1>8
-----------------------------------------------------------------------------
(***************************************************************************)
(* Sending: the steps.                                                     *)
(***************************************************************************)
LEMMA KeptFacts ==
  ASSUME NEW u, NEW ro, NEW wo, Kept(u, ro, wo)
  PROVE  /\ Good(type, xSize, pucFree, mem, q, u, ro, wo) /\ type \in {NOSPLIT, ALLOWSPLIT}
         /\ q \in Seq(Entry) /\ Pointers(u, ro, wo) /\ xSize >= 2 * rbHEADER_SIZE
         /\ Layout(xSize, pucFree, mem, u) /\ Dummies(pucFree, mem)
         /\ xSize \in Nat /\ pucFree \in 0 .. xSize - 1
         /\ u \in 0 .. xSize /\ ro \in 0 .. u /\ wo \in 0 .. u /\ ro <= wo
         /\ xItemsWaiting = Cardinality(Waiting(type, xSize, pucFree, mem, ro))
         /\ xItemsWaiting \in Nat
<1>1. /\ Good(type, xSize, pucFree, mem, q, u, ro, wo) /\ type \in {NOSPLIT, ALLOWSPLIT}
      /\ q \in Seq(Entry) /\ Pointers(u, ro, wo) /\ xSize >= 2 * rbHEADER_SIZE
      /\ Layout(xSize, pucFree, mem, u) /\ Dummies(pucFree, mem)
      /\ Edge(xSize, pucFree, mem, u, ro) /\ ro <= wo /\ Edge(xSize, pucFree, mem, u, wo)
      /\ xItemsWaiting = Cardinality(Waiting(type, xSize, pucFree, mem, ro))
  BY DEF Kept, Buffer, Good, WrittenTo
<1>2. xSize \in Nat /\ pucFree \in 0 .. xSize - 1 /\ u \in 0 .. xSize
  BY <1>1, LayoutType
<1>3. Cardinality(Waiting(type, xSize, pucFree, mem, ro)) \in 0 .. xSize
  BY <1>1, CountWaiting
<1>4. xItemsWaiting \in Nat
  BY <1>1, <1>2, <1>3
<1> QED BY <1>1, <1>2, <1>4 DEF Edge

LEMMA SendAllowSplitStep ==
  ASSUME NEW u, NEW ro, NEW wo, Kept(u, ro, wo),
         NEW n \in Nat, n <= xMaxItemSize, xCheckItemFits(n), SendAllowSplit(n),
         UNCHANGED <<type, xSize, pucRead, pucFree>>
  PROVE  \E v : u < v /\ Kept(v, ro, v)'
<1> DEFINE a == prvCopyItemAllowSplit(n)
           e == Item(n, a.at, TRUE)
           parts == {e.at[k] : k \in 1 .. Len(e.at)}
           W(h) == Waiting(type, xSize, pucFree, h, ro)
<1>1. /\ type = ALLOWSPLIT
      /\ mem' = a.mem /\ pucAcquire' = a.acq /\ pucWrite' = a.acq /\ full' = a.full
      /\ xItemsWaiting' = xItemsWaiting + Len(a.at)
      /\ q' = Append(q, e)
  BY DEF SendAllowSplit
<1>2. PICK v : Placing(a, u, n, TRUE, v)
  BY <1>1, CopiedAllowSplit DEF Kept
<1> HIDE DEF a
<1>3. /\ Extension(type, xSize, pucFree, mem, u, pucAcquire, e, a.mem, v)
      /\ Fits(xSize, a.acq) /\ IsAt(xSize, pucFree, a.acq, v)
      /\ a.full <=> v = xSize
  BY <1>2 DEF Placing
<1>4. e.at = a.at
  BY DEF Item
<1>5. /\ u < v /\ e \in Entry /\ Len(e.at) \in 1 .. 2
      /\ Layout(xSize, pucFree, a.mem, v)
      /\ \A k \in 1 .. Len(e.at) : e.at[k] \in DOMAIN a.mem
      /\ \A k, l \in 1 .. Len(e.at) : k < l => Off(xSize, pucFree, e.at[k]) < Off(xSize, pucFree, e.at[l])
  BY <1>3 DEF Extension
<1>6. ALLOWSPLIT # NOSPLIT
  BY DEF ALLOWSPLIT, NOSPLIT
<1> HIDE DEF e
<1>7. /\ Good(type, xSize, pucFree, a.mem, Append(q, e), v, ro, v)
      /\ W(a.mem) = W(mem) \cup parts
      /\ parts \cap DOMAIN mem = {}
  <2>1. /\ Good(type, xSize, pucFree, a.mem, Append(q, e), v, ro, IF type = NOSPLIT THEN wo ELSE v)
        /\ W(a.mem) = W(mem) \cup (IF type = NOSPLIT THEN {} ELSE {e.at[k] : k \in 1 .. Len(e.at)})
        /\ {e.at[k] : k \in 1 .. Len(e.at)} \cap DOMAIN mem = {}
    BY <1>3, KeptFacts, Extended
  <2> QED BY <1>1, <1>6, <2>1
<1>8. e.at \in Seq(Nat) /\ (Len(e.at) = 1 \/ Len(e.at) = 2)
  BY <1>5 DEF Entry
<1>9. \A k, l \in 1 .. Len(e.at) : e.at[k] = e.at[l] => k = l
  <2>1. \A k \in 1 .. Len(e.at) : Off(xSize, pucFree, e.at[k]) \in Nat
    BY <1>5, InUse
  <2> QED BY <1>5, <1>8, <2>1
<1>10. IsFiniteSet(parts) /\ Cardinality(parts) = Len(e.at)
  BY <1>8, <1>9, CountParts
<1>11. IsFiniteSet(W(mem)) /\ W(mem) \cap parts = {}
  BY <1>7, KeptFacts, CountWaiting DEF Waiting
<1> HIDE DEF parts, W
<1>12. Cardinality(W(a.mem)) = Cardinality(W(mem)) + Len(e.at)
  BY <1>7, <1>10, <1>11, CountApart
<1>13. xItemsWaiting' = Cardinality(W(a.mem))
  BY <1>1, <1>4, <1>12, KeptFacts DEF W
<1>14. Pointers(v, ro, v)'
  BY <1>1, <1>3, KeptFacts DEF Pointers
<1>15. xSize >= 2 * rbHEADER_SIZE /\ type \in {NOSPLIT, ALLOWSPLIT}
  BY KeptFacts
<1>16. Kept(v, ro, v)'
  BY <1>1, <1>7, <1>13, <1>14, <1>15 DEF Kept, Buffer, W
<1> QED BY <1>5, <1>16

LEMMA SendAcquireStep ==
  ASSUME NEW u, NEW ro, NEW wo, Kept(u, ro, wo),
         NEW n \in Nat, SendAcquire(n)
  PROVE  \E v : u < v /\ Kept(v, ro, wo)'
<1> DEFINE a == prvAcquireItemNoSplit(n)
           e == Item(n, a.at, FALSE)
           W(h) == Waiting(type, xSize, pucFree, h, ro)
<1>1. /\ type = NOSPLIT /\ n <= xMaxItemSize /\ xCheckItemFits(n)
      /\ mem' = a.mem /\ pucAcquire' = a.acq /\ full' = a.full
      /\ q' = Append(q, e)
      /\ UNCHANGED <<type, xSize, pucWrite, pucRead, pucFree, xItemsWaiting>>
  BY DEF SendAcquire
<1>2. PICK v : Placing(a, u, n, FALSE, v)
  BY <1>1, AcquiredNoSplit DEF Kept
<1> HIDE DEF a
<1>3. /\ Extension(type, xSize, pucFree, mem, u, pucAcquire, e, a.mem, v)
      /\ Fits(xSize, a.acq) /\ IsAt(xSize, pucFree, a.acq, v)
      /\ a.full <=> v = xSize
  BY <1>2 DEF Placing
<1>4. u < v
  BY <1>3 DEF Extension
<1> HIDE DEF e
<1>5. /\ Good(type, xSize, pucFree, a.mem, Append(q, e), v, ro, wo)
      /\ W(a.mem) = W(mem)
  <2>1. /\ Good(type, xSize, pucFree, a.mem, Append(q, e), v, ro, IF type = NOSPLIT THEN wo ELSE v)
        /\ W(a.mem) = W(mem) \cup (IF type = NOSPLIT THEN {} ELSE {e.at[k] : k \in 1 .. Len(e.at)})
    BY <1>3, KeptFacts, Extended
  <2> QED BY <1>1, <2>1
<1>6. xItemsWaiting' = Cardinality(W(a.mem))
  BY <1>1, <1>5, KeptFacts DEF W
<1>7. Pointers(v, ro, wo)'
  BY <1>1, <1>3, KeptFacts DEF Pointers
<1>8. xSize >= 2 * rbHEADER_SIZE /\ type \in {NOSPLIT, ALLOWSPLIT}
  BY KeptFacts
<1>9. Kept(v, ro, wo)'
  BY <1>1, <1>5, <1>6, <1>7, <1>8 DEF Kept, Buffer, W
<1> QED BY <1>4, <1>9

\* xRingbufferSendComplete, and the end of a send, of the item i of q0.
CompletedAs(F, h, u, ro, p, d, q1, w) ==
    /\ p \in DOMAIN h \ Waiting(NOSPLIT, xSize, F, h, ro)
    /\ Waiting(NOSPLIT, xSize, F, d.mem, ro) = Waiting(NOSPLIT, xSize, F, h, ro) \cup {p}
    /\ Good(NOSPLIT, xSize, F, d.mem, q1, u, ro, w)
    /\ IsAt(xSize, F, d.write, w)

LEMMA CompletedWaiting ==
  ASSUME NEW F, NEW h, NEW u, Layout(xSize, F, h, u), NEW ro,
         NEW p, NEW d, NEW q1, NEW w, CompletedAs(F, h, u, ro, p, d, q1, w)
  PROVE  Cardinality(Waiting(NOSPLIT, xSize, F, d.mem, ro)) =
         Cardinality(Waiting(NOSPLIT, xSize, F, h, ro)) + 1
<1> DEFINE W == Waiting(NOSPLIT, xSize, F, h, ro)
<1>1. Waiting(NOSPLIT, xSize, F, d.mem, ro) = W \cup {p} /\ p \notin W
  BY DEF CompletedAs
<1>2. IsFiniteSet(W)
  BY CountWaiting
<1> HIDE DEF W
<1>3. Cardinality(W \cup {p}) = IF p \in W THEN Cardinality(W) ELSE Cardinality(W) + 1
  BY <1>2, FS_AddElement
<1> QED BY <1>1, <1>3 DEF W

LEMMA CompletedOne ==
  ASSUME NEW F, NEW h, NEW q0, NEW u, NEW ro, NEW wo,
         Good(NOSPLIT, xSize, F, h, q0, u, ro, wo),
         NEW acq, IsAt(xSize, F, acq, u), IsAt(xSize, F, pucWrite, wo),
         NEW i \in 1 .. Len(q0), ~q0[i].done,
         NEW p, p = q0[i].at[1], NEW q1, q1 = [q0 EXCEPT ![i].done = TRUE]
  PROVE  \E w : CompletedAs(F, h, u, ro, p, prvSendItemDoneNoSplit(h, acq, p), q1, w)
<1> DEFINE d == prvSendItemDoneNoSplit(h, acq, q0[i].at[1])
<1>1. /\ q0[i].at[1] \in DOMAIN h \ Waiting(NOSPLIT, xSize, F, h, ro)
      /\ Waiting(NOSPLIT, xSize, F, d.mem, ro) = Waiting(NOSPLIT, xSize, F, h, ro) \cup {q0[i].at[1]}
      /\ \E w : /\ Good(NOSPLIT, xSize, F, d.mem, [q0 EXCEPT ![i].done = TRUE], u, ro, w)
                /\ IsAt(xSize, F, d.write, w)
  BY Completed
<1> HIDE DEF d
<1>2. PICK w : /\ Good(NOSPLIT, xSize, F, d.mem, [q0 EXCEPT ![i].done = TRUE], u, ro, w)
               /\ IsAt(xSize, F, d.write, w)
  BY <1>1
<1>3. CompletedAs(F, h, u, ro, p, d, q1, w)
  BY <1>1, <1>2 DEF CompletedAs
<1> QED BY <1>3 DEF d

LEMMA SendCompleteStep ==
  ASSUME NEW u, NEW ro, NEW wo, Kept(u, ro, wo), NEW i \in DOMAIN q, SendComplete(i)
  PROVE  \E w : Kept(u, ro, w)'
<1> DEFINE p == q[i].at[1]
           d == prvSendItemDoneNoSplit(mem, pucAcquire, p)
<1>1. /\ type = NOSPLIT /\ ~q[i].done
      /\ mem' = d.mem /\ pucWrite' = d.write
      /\ xItemsWaiting' = xItemsWaiting + 1
      /\ q' = [q EXCEPT ![i].done = TRUE]
      /\ UNCHANGED <<type, xSize, pucAcquire, pucRead, pucFree, full>>
  BY DEF SendComplete
<1>2. /\ i \in 1 .. Len(q) /\ Good(NOSPLIT, xSize, pucFree, mem, q, u, ro, wo)
      /\ IsAt(xSize, pucFree, pucAcquire, u) /\ IsAt(xSize, pucFree, pucWrite, wo)
  BY <1>1, KeptFacts DEF Pointers
<1>3. PICK w : CompletedAs(pucFree, mem, u, ro, p, d, q', w)
  BY <1>1, <1>2, CompletedOne
<1> HIDE DEF p, d
<1>4. /\ Good(NOSPLIT, xSize, pucFree, d.mem, q', u, ro, w) /\ IsAt(xSize, pucFree, d.write, w)
  BY <1>3 DEF CompletedAs
<1>5. Cardinality(Waiting(NOSPLIT, xSize, pucFree, d.mem, ro)) =
      Cardinality(Waiting(NOSPLIT, xSize, pucFree, mem, ro)) + 1
  <2>1. Layout(xSize, pucFree, mem, u)
    BY <1>2 DEF Good
  <2> QED BY <1>3, <2>1, CompletedWaiting
<1>6. Pointers(u, ro, w)'
  BY <1>1, <1>4, KeptFacts DEF Pointers
<1>7. Kept(u, ro, w)'
  BY <1>1, <1>4, <1>5, <1>6, KeptFacts DEF Kept, Buffer
<1> QED BY <1>7

\* A send of a no-split buffer acquires and completes at once.
LEMMA SendNoSplitStep ==
  ASSUME NEW u, NEW ro, NEW wo, Kept(u, ro, wo),
         NEW n \in Nat, n <= xMaxItemSize, xCheckItemFits(n), SendNoSplit(n),
         UNCHANGED <<type, xSize, pucRead, pucFree>>
  PROVE  \E v, w : u < v /\ Kept(v, ro, w)'
<1> DEFINE a == prvAcquireItemNoSplit(n)
           e == Item(n, a.at, FALSE)
           p == a.at[1]
           d == prvSendItemDoneNoSplit(a.mem, a.acq, p)
           q0 == Append(q, e)
           i == Len(q) + 1
           W(h) == Waiting(NOSPLIT, xSize, pucFree, h, ro)
<1>1. /\ type = NOSPLIT
      /\ mem' = d.mem /\ pucAcquire' = a.acq /\ pucWrite' = d.write /\ full' = a.full
      /\ xItemsWaiting' = xItemsWaiting + 1
      /\ q' = Append(q, Item(n, a.at, TRUE))
  BY DEF SendNoSplit
<1>2. PICK v : Placing(a, u, n, FALSE, v)
  BY <1>1, AcquiredNoSplit DEF Kept
<1> HIDE DEF a
<1>3. /\ Extension(NOSPLIT, xSize, pucFree, mem, u, pucAcquire, e, a.mem, v)
      /\ Fits(xSize, a.acq) /\ IsAt(xSize, pucFree, a.acq, v)
      /\ a.full <=> v = xSize
  BY <1>1, <1>2 DEF Placing
<1>4. u < v /\ e \in Entry /\ ~e.done
  BY <1>3 DEF Extension, NOSPLIT, ALLOWSPLIT
<1> DEFINE e1 == [e EXCEPT !.done = TRUE]
<1>5. e.at = a.at /\ Item(n, a.at, TRUE) = e1 /\ e1 \in Entry
  <2>1. \A r, s \in Entry : r.n = s.n /\ r.at = s.at /\ r.done = s.done /\ r.taken = s.taken => r = s
    BY DEF Entry
  <2>2. e.at = a.at /\ e.n = n /\ e.taken = FALSE
    BY DEF Item
  <2> DEFINE f == Item(n, a.at, TRUE)
  <2>3. f.at = a.at /\ f.n = n /\ f.taken = FALSE /\ f.done = TRUE
    BY DEF Item
  <2>4. a.at \in Seq(Nat)
    BY <1>4, <2>2 DEF Entry
  <2>5. f \in Entry
    BY <2>4 DEF Item, Entry
  <2> HIDE DEF e, f
  <2>6. e1 \in Entry /\ e1.at = e.at /\ e1.n = e.n /\ e1.taken = e.taken /\ e1.done = TRUE
    BY <1>4 DEF Entry
  <2> HIDE DEF e1
  <2>7. f = e1
    BY <2>1, <2>2, <2>3, <2>5, <2>6
  <2> QED BY <2>2, <2>6, <2>7 DEF f
<1> HIDE DEF e
<1>6. /\ Good(NOSPLIT, xSize, pucFree, a.mem, q0, v, ro, wo)
      /\ W(a.mem) = W(mem)
  <2>1. Good(NOSPLIT, xSize, pucFree, mem, q, u, ro, wo) /\ NOSPLIT \in {NOSPLIT, ALLOWSPLIT}
    BY <1>1, KeptFacts
  <2>2. /\ Good(NOSPLIT, xSize, pucFree, a.mem, Append(q, e), v, ro, IF NOSPLIT = NOSPLIT THEN wo ELSE v)
        /\ W(a.mem) = W(mem) \cup (IF NOSPLIT = NOSPLIT THEN {} ELSE {e.at[k] : k \in 1 .. Len(e.at)})
    BY <1>3, <2>1, Extended
  <2> QED BY <2>2
<1>7. q \in Seq(Entry) /\ IsAt(xSize, pucFree, pucWrite, wo)
  BY KeptFacts DEF Pointers
<1>8. /\ i \in 1 .. Len(q0) /\ q0[i] = e
      /\ q' = [q0 EXCEPT ![i].done = TRUE]
  <2>1. Len(q0) = i /\ i \in 1 .. i /\ q0[i] = e /\ q0 \in Seq(Entry)
    BY <1>4, <1>7
  <2>2. [q0 EXCEPT ![i].done = TRUE] = [q0 EXCEPT ![i] = e1]
    BY <2>1
  <2>3. q' = Append(q, e1)
    BY <1>1, <1>5
  <2> HIDE DEF e1
  <2>4. [q0 EXCEPT ![i] = e1] = Append(q, e1)
    <3> DEFINE s == [q0 EXCEPT ![i] = e1]
               t == Append(q, e1)
    <3>0. \A x \in Entry : /\ Append(q, x) \in Seq(Entry) /\ Len(Append(q, x)) = i
                          /\ Append(q, x)[i] = x
                          /\ \A j \in 1 .. Len(q) : Append(q, x)[j] = q[j]
      BY <1>7
    <3>a. \A x \in Seq(Entry) : x \in [1 .. Len(x) -> Entry]
      OBVIOUS
    <3>1. q0 \in [1 .. i -> Entry] /\ \A j \in 1 .. Len(q) : q0[j] = q[j]
      <4>1. q0 \in Seq(Entry) /\ Len(q0) = i /\ \A j \in 1 .. Len(q) : q0[j] = q[j]
        BY <1>4, <3>0
      <4> HIDE DEF q0, i
      <4> QED BY <3>a, <4>1
    <3>2. t \in [1 .. i -> Entry] /\ t[i] = e1 /\ \A j \in 1 .. Len(q) : t[j] = q[j]
      <4>1. t \in Seq(Entry) /\ Len(t) = i /\ t[i] = e1 /\ \A j \in 1 .. Len(q) : t[j] = q[j]
        BY <1>5, <3>0
      <4> HIDE DEF t, i
      <4> QED BY <3>a, <4>1
    <3> HIDE DEF q0, t
    <3>3. i \in 1 .. i /\ \A j \in 1 .. i : j = i \/ j \in 1 .. Len(q)
      BY <1>7
    <3>4. s \in [1 .. i -> Entry] /\ s[i] = e1 /\ \A j \in 1 .. i : j # i => s[j] = q0[j]
      BY <1>5, <3>1, <3>3
    <3> HIDE DEF s, i
    <3>5. \A j \in 1 .. i : s[j] = t[j]
      BY <3>1, <3>2, <3>3, <3>4
    <3>6. s = t
      <4>1. s = [j \in 1 .. i |-> s[j]] /\ t = [j \in 1 .. i |-> t[j]]
        BY <3>2, <3>4
      <4>2. [j \in 1 .. i |-> s[j]] = [j \in 1 .. i |-> t[j]]
        BY <3>5
      <4> QED BY <4>1, <4>2
    <3> QED BY <3>6 DEF s, t
  <2> QED BY <2>1, <2>2, <2>3, <2>4
<1> HIDE DEF q0, i
<1>9. PICK w : CompletedAs(pucFree, a.mem, v, ro, p, d, q', w)
  BY <1>3, <1>4, <1>5, <1>6, <1>7, <1>8, CompletedOne
<1> HIDE DEF p, d
<1>10. /\ Good(NOSPLIT, xSize, pucFree, d.mem, q', v, ro, w) /\ IsAt(xSize, pucFree, d.write, w)
  BY <1>9 DEF CompletedAs
<1>11. Cardinality(W(d.mem)) = Cardinality(W(a.mem)) + 1
  <2>1. Layout(xSize, pucFree, a.mem, v)
    BY <1>6 DEF Good
  <2> QED BY <1>9, <2>1, CompletedWaiting
<1>12. Pointers(v, ro, w)'
  BY <1>1, <1>3, <1>10, KeptFacts DEF Pointers
<1>13. Kept(v, ro, w)'
  BY <1>1, <1>6, <1>10, <1>11, <1>12, KeptFacts DEF Kept, Buffer
<1> QED BY <1>4, <1>13
-----------------------------------------------------------------------------
(***************************************************************************)
(* Returning.                                                              *)
(***************************************************************************)
\* Where the j-th item, and its l-th part, were before part k of item i was dropped.
Place(q0, i, j) == IF Len(q0[i].at) = 1 /\ j >= i THEN j + 1 ELSE j
Piece(q0, i, k, j, l) == IF Len(q0[i].at) = 2 /\ j = i THEN 3 - k ELSE l

\* q1 has the items and parts of q0, in their order, without part k of item i.
SameItem(q0, i, k, q1, j, a) ==
    /\ a \in 1 .. Len(q0) /\ q1[j].n = q0[a].n
    /\ q1[j].done <=> q0[a].done
    /\ q1[j].taken <=> q0[a].taken
    /\ Len(q1[j].at) \in 1 .. 2
    /\ a # i => q1[j].at = q0[a].at
    /\ \A l \in 1 .. Len(q1[j].at) :
          /\ Piece(q0, i, k, j, l) \in 1 .. Len(q0[a].at)
          /\ q1[j].at[l] = q0[a].at[Piece(q0, i, k, j, l)]
          /\ a # i \/ Piece(q0, i, k, j, l) # k
    /\ \A l, m \in 1 .. Len(q1[j].at) : l < m => Piece(q0, i, k, j, l) < Piece(q0, i, k, j, m)

Remains(q0, i, k, q1) ==
    /\ q1 \in Seq(Entry)
    /\ \A j \in 1 .. Len(q1) : SameItem(q0, i, k, q1, j, Place(q0, i, j))
    /\ \A j, m \in 1 .. Len(q1) : j < m => Place(q0, i, j) < Place(q0, i, m)
    /\ \A a \in 1 .. Len(q0) : \A b \in 1 .. Len(q0[a].at) :
          a # i \/ b # k => \E j \in 1 .. Len(q1) : \E l \in 1 .. Len(q1[j].at) :
                                q1[j].at[l] = q0[a].at[b]

\* What Without does.
LEMMA WithoutOne ==
  ASSUME NEW X, NEW s \in Seq(X), NEW i \in 1 .. Len(s)
  PROVE  /\ Without(s, i) \in Seq(X) /\ Len(Without(s, i)) = Len(s) - 1
         /\ \A j \in 1 .. Len(s) - 1 : Without(s, i)[j] = s[IF j < i THEN j ELSE j + 1]
<1> DEFINE w == Without(s, i)
           n == Len(s) - 1
<1>1. n \in Nat /\ Len(s) = n + 1
  OBVIOUS
<1>2. w = [j \in 1 .. n |-> IF j < i THEN s[j] ELSE s[j + 1]]
  BY DEF Without
<1> HIDE DEF w, n
<1>3. \A j \in 1 .. n : (IF j < i THEN s[j] ELSE s[j + 1]) \in X
  BY <1>1
<1>4. w \in [1 .. n -> X]
  BY <1>2, <1>3
<1>5. w \in Seq(X) /\ Len(w) = n
  BY <1>1, <1>4
<1>6. \A j \in 1 .. n : w[j] = s[IF j < i THEN j ELSE j + 1]
  BY <1>2
<1> QED BY <1>5, <1>6 DEF w, n

\* The whole item is dropped.
LEMMA DropItem ==
  ASSUME NEW q0 \in Seq(Entry), NEW i \in 1 .. Len(q0), Len(q0[i].at) = 1, NEW k, k = 1,
         \A a \in 1 .. Len(q0) : Len(q0[a].at) \in 1 .. 2
  PROVE  Remains(q0, i, k, Without(q0, i))
<1> DEFINE q1 == Without(q0, i)
<1>1. /\ q1 \in Seq(Entry) /\ Len(q1) = Len(q0) - 1
      /\ \A j \in 1 .. Len(q0) - 1 : q1[j] = q0[IF j < i THEN j ELSE j + 1]
  BY WithoutOne
<1> HIDE DEF q1
<1>2. ASSUME NEW j \in 1 .. Len(q1)
      PROVE  /\ j \in Nat /\ Place(q0, i, j) = (IF j < i THEN j ELSE j + 1)
             /\ Place(q0, i, j) \in 1 .. Len(q0) /\ Place(q0, i, j) # i
             /\ q1[j] = q0[Place(q0, i, j)]
             /\ \A l : Piece(q0, i, k, j, l) = l
  <2>1. j \in Nat /\ Place(q0, i, j) = IF j < i THEN j ELSE j + 1
    BY <1>1 DEF Place
  <2>2. Place(q0, i, j) \in 1 .. Len(q0) /\ Place(q0, i, j) # i
    BY <1>1, <2>1
  <2>3. q1[j] = q0[Place(q0, i, j)]
    BY <1>1, <2>1
  <2> QED BY <2>1, <2>2, <2>3 DEF Piece
<1>3. ASSUME NEW j \in 1 .. Len(q1) PROVE SameItem(q0, i, k, q1, j, Place(q0, i, j))
  <2> DEFINE a == Place(q0, i, j)
  <2>1. /\ a \in 1 .. Len(q0) /\ a # i /\ q1[j] = q0[a] /\ \A l : Piece(q0, i, k, j, l) = l
    BY <1>2
  <2> HIDE DEF a
  <2>2. Len(q1[j].at) \in 1 .. 2
    BY <2>1
  <2>3. SameItem(q0, i, k, q1, j, a)
    BY <2>1, <2>2 DEF SameItem
  <2> QED BY <2>3 DEF a
<1>4. ASSUME NEW j \in 1 .. Len(q1), NEW m \in 1 .. Len(q1), j < m
      PROVE  Place(q0, i, j) < Place(q0, i, m)
  BY <1>2, <1>4
<1>5. ASSUME NEW a \in 1 .. Len(q0), NEW b \in 1 .. Len(q0[a].at), a # i \/ b # k
      PROVE  \E j \in 1 .. Len(q1) : \E l \in 1 .. Len(q1[j].at) : q1[j].at[l] = q0[a].at[b]
  <2>1. a # i
    <3>1. \A x \in 1 .. 1 : x = 1
      OBVIOUS
    <3> QED BY <1>5, <3>1
  <2> DEFINE j == IF a < i THEN a ELSE a - 1
  <2>2. j \in 1 .. Len(q1) /\ Place(q0, i, j) = a
    BY <1>1, <2>1 DEF Place
  <2>3. q1[j] = q0[a]
    BY <1>2, <2>2
  <2> QED BY <2>2, <2>3
<1> QED BY <1>1, <1>3, <1>4, <1>5 DEF Remains, q1

\* A part of an item is dropped.
LEMMA DropPart ==
  ASSUME NEW q0 \in Seq(Entry), NEW i \in 1 .. Len(q0), Len(q0[i].at) = 2,
         NEW k \in 1 .. Len(q0[i].at),
         \A a \in 1 .. Len(q0) : Len(q0[a].at) \in 1 .. 2
  PROVE  Remains(q0, i, k, [q0 EXCEPT ![i].at = Without(@, k)])
<1> DEFINE s == Without(q0[i].at, k)
           e == [q0[i] EXCEPT !.at = s]
           q1 == [q0 EXCEPT ![i] = e]
<1>1. q0[i] \in Entry /\ q0[i].at \in Seq(Nat)
  <2>1. q0[i] \in Entry
    OBVIOUS
  <2> QED BY <2>1 DEF Entry
<1>2. s \in Seq(Nat) /\ Len(s) = 1 /\ s[1] = q0[i].at[3 - k]
  <2>1. /\ s \in Seq(Nat) /\ Len(s) = Len(q0[i].at) - 1
        /\ \A j \in 1 .. Len(q0[i].at) - 1 : s[j] = q0[i].at[IF j < k THEN j ELSE j + 1]
    BY <1>1, WithoutOne
  <2> HIDE DEF s
  <2>2. Len(s) = 1 /\ s[1] = q0[i].at[IF 1 < k THEN 1 ELSE 2]
    BY <2>1
  <2>3. k = 1 \/ k = 2
    OBVIOUS
  <2> QED BY <2>1, <2>2, <2>3
<1> HIDE DEF s
<1>3. e \in Entry /\ e.at = s /\ e.n = q0[i].n /\ e.done = q0[i].done /\ e.taken = q0[i].taken
  BY <1>1, <1>2 DEF Entry
<1>4. [q0 EXCEPT ![i].at = Without(@, k)] = q1
  BY DEF s
<1> HIDE DEF e
<1>5. q1 \in Seq(Entry) /\ Len(q1) = Len(q0) /\ q1[i] = e /\ \A j \in 1 .. Len(q0) : j # i => q1[j] = q0[j]
  BY <1>3
<1> HIDE DEF q1
<1>6. \A j : Place(q0, i, j) = j /\ \A l : Piece(q0, i, k, j, l) = IF j = i THEN 3 - k ELSE l
  BY DEF Place, Piece
<1>7. k \in 1 .. 2 /\ 3 - k \in 1 .. 2 /\ 3 - k # k /\ \A b \in 1 .. 2 : b = k \/ b = 3 - k
  OBVIOUS
<1>8. ASSUME NEW j \in 1 .. Len(q1) PROVE SameItem(q0, i, k, q1, j, Place(q0, i, j))
  <2>1. j \in 1 .. Len(q0) /\ Place(q0, i, j) = j
    BY <1>5, <1>6
  <2>2. CASE j # i
    <3>1. q1[j] = q0[j] /\ \A l : Piece(q0, i, k, j, l) = l
      BY <1>5, <1>6, <2>1, <2>2
    <3>2. SameItem(q0, i, k, q1, j, j)
      BY <2>1, <2>2, <3>1 DEF SameItem
    <3> QED BY <2>1, <3>2
  <2>3. CASE j = i
    <3>1. q1[j] = e /\ \A l : Piece(q0, i, k, j, l) = 3 - k
      BY <1>5, <1>6, <2>3
    <3>2. Len(e.at) = 1 /\ 1 \in 1 .. 2 /\ \A l \in 1 .. Len(e.at) : l = 1
      <4>1. \A x \in 1 .. 1 : x = 1
        OBVIOUS
      <4>2. Len(e.at) = 1
        BY <1>2, <1>3
      <4> QED BY <4>1, <4>2
    <3>3. SameItem(q0, i, k, q1, i, i)
      BY <1>2, <1>3, <1>7, <2>3, <3>1, <3>2 DEF SameItem
    <3> QED BY <2>1, <2>3, <3>3
  <2> QED BY <2>2, <2>3
<1>9. ASSUME NEW a \in 1 .. Len(q0), NEW b \in 1 .. Len(q0[a].at), a # i \/ b # k
      PROVE  \E j \in 1 .. Len(q1) : \E l \in 1 .. Len(q1[j].at) : q1[j].at[l] = q0[a].at[b]
  <2>1. CASE a # i
    BY <1>5, <2>1
  <2>2. CASE a = i
    <3>1. b = 3 - k
      BY <1>7, <1>9, <2>2
    <3>2. 1 \in 1 .. Len(q1[a].at) /\ q1[a].at[1] = q0[a].at[b]
      BY <1>2, <1>3, <1>5, <2>2, <3>1
    <3> QED BY <1>5, <3>2
  <2> QED BY <2>1, <2>2
<1>10. \A j, m \in 1 .. Len(q1) : j < m => Place(q0, i, j) < Place(q0, i, m)
  BY <1>6
<1>11. Remains(q0, i, k, q1)
  BY <1>5, <1>8, <1>9, <1>10 DEF Remains
<1> QED BY <1>4, <1>11

\* The item at p is free, and pucFree goes d bytes further, from F to G.
Going(S, F, h, ro, p, f, G, g, d) ==
    /\ IsMark(h, {p}, "FREE", f)
    /\ d \in 0 .. ro /\ IsAt(S, F, G, d)
    /\ DOMAIN g = {x \in DOMAIN h : Off(S, F, x) >= d}
    /\ \A x \in DOMAIN g : g[x] = f[x]
    /\ \A x \in DOMAIN h : Off(S, F, x) < d => "FREE" \in Flags(f, x) \/ "DUMMY" \in Flags(f, x)
    /\ d < ro => G \in DOMAIN h /\ "FREE" \notin Flags(f, G) /\ "DUMMY" \notin Flags(f, G)

\* What stays where it is.
Stays(S, F, h, p, G, g, d, x) ==
    /\ x \in DOMAIN h /\ Off(S, F, x) \in Nat /\ Off(S, F, x) >= d
    /\ Off(S, G, x) = Off(S, F, x) - d
    /\ NextOf(S, g, x) = NextOf(S, h, x) /\ g[x].xItemLen = h[x].xItemLen
    /\ \A l \in Flag \ {"FREE"} : l \in Flags(g, x) <=> l \in Flags(h, x)
    /\ "FREE" \in Flags(g, x) <=> x = p \/ "FREE" \in Flags(h, x)
    /\ IsDummy(g, x) <=> IsDummy(h, x)

LEMMA Moved ==
  ASSUME NEW S, NEW F, NEW h, NEW u, Layout(S, F, h, u), NEW ro, Edge(S, F, h, u, ro),
         NEW A, Fits(S, A), IsAt(S, F, A, u),
         NEW p, NEW f, NEW G, NEW g, NEW d, Going(S, F, h, ro, p, f, G, g, d)
  PROVE  /\ Layout(S, G, g, u - d) /\ G \in 0 .. S - 1
         /\ \A x \in DOMAIN g : Stays(S, F, h, p, G, g, d, x)
<1>1. S \in Nat /\ F \in 0 .. S - 1 /\ u \in 0 .. S /\ ro \in 0 .. u /\ d \in 0 .. ro
  BY LayoutType DEF Edge, Going
<1>2. /\ DOMAIN f = DOMAIN h
      /\ \A x \in DOMAIN h : /\ f[x] \in HeaderSet /\ f[x].xItemLen = h[x].xItemLen
                             /\ Flags(f, x) = IF x \in {p} THEN Flags(h, x) \cup {"FREE"} ELSE Flags(h, x)
  BY DEF Going, IsMark
<1>3. \A x \in DOMAIN h : /\ IsDummy(f, x) <=> IsDummy(h, x)
                          /\ \A l \in Flag \ {"FREE"} : l \in Flags(f, x) <=> l \in Flags(h, x)
                          /\ "FREE" \in Flags(f, x) <=> x = p \/ "FREE" \in Flags(h, x)
  BY <1>2 DEF IsDummy
<1>4. /\ Layout(S, F, f, u)
      /\ \A x \in DOMAIN h : NextOf(S, f, x) = NextOf(S, h, x)
  BY <1>2, <1>3, Reflagged
<1>5. Edge(S, F, f, u, d)
  <2>1. CASE d < ro
    <3>1. G \in DOMAIN h /\ IsAt(S, F, G, d)
      BY <2>1 DEF Going
    <3>2. Off(S, F, G) = d
      BY <1>1, <2>1, <3>1 DEF IsAt
    <3> QED BY <1>1, <1>2, <3>1, <3>2 DEF Edge
  <2>2. CASE d = ro
    BY <1>1, <1>2, <2>2 DEF Edge
  <2> QED BY <1>1, <2>1, <2>2
<1>6. Fits(S, G) /\ IsAt(S, F, G, d) /\ G \in 0 .. S - 1
  <2>1. IsAt(S, F, G, d) /\ G \in 0 .. S - 1
    BY DEF Going, IsAt
  <2>2. CASE d < u
    <3>1. G \in DOMAIN f
      BY <1>4, <1>5, <2>1, <2>2, HeaderAt
    <3> QED BY <1>4, <2>1, <3>1, Laying
  <2>3. CASE d = u
    <3>1. G = A
      BY <1>1, <2>1, <2>3, OneAddress
    <3> QED BY <2>1, <3>1
  <2> QED BY <1>1, <2>2, <2>3
<1>7. DOMAIN g = {x \in DOMAIN f : Off(S, F, x) >= d} /\ \A x \in DOMAIN g : g[x] = f[x]
  BY <1>2 DEF Going
<1>8. /\ Layout(S, G, g, u - d)
      /\ \A x \in DOMAIN g : /\ Off(S, G, x) = Off(S, F, x) - d
                             /\ NextOf(S, g, x) = NextOf(S, f, x)
  BY <1>4, <1>5, <1>6, <1>7, Shift
<1>9. ASSUME NEW x \in DOMAIN g PROVE Stays(S, F, h, p, G, g, d, x)
  <2>1. x \in DOMAIN h /\ Off(S, F, x) >= d /\ g[x] = f[x]
    BY <1>2, <1>7
  <2>2. Off(S, F, x) \in Nat
    BY <2>1, InUse
  <2>3. Flags(g, x) = Flags(f, x) /\ (IsDummy(g, x) <=> IsDummy(f, x)) /\ g[x].xItemLen = h[x].xItemLen
    BY <1>2, <2>1 DEF Flags, IsDummy
  <2>4. Off(S, G, x) = Off(S, F, x) - d /\ NextOf(S, g, x) = NextOf(S, h, x)
    BY <1>4, <1>8, <2>1
  <2> QED BY <1>3, <2>1, <2>2, <2>3, <2>4 DEF Stays
<1> QED BY <1>6, <1>8, <1>9

\* Edges stay edges.
LEMMA MovedEdge ==
  ASSUME NEW S, NEW F, NEW h, NEW u \in Nat, NEW p, NEW G, NEW g, NEW d \in Nat,
         DOMAIN g = {x \in DOMAIN h : Off(S, F, x) >= d},
         \A x \in DOMAIN g : Stays(S, F, h, p, G, g, d, x),
         NEW b, Edge(S, F, h, u, b), d <= b
  PROVE  Edge(S, G, g, u - d, b - d)
<1>1. b \in 0 .. u /\ b - d \in 0 .. u - d
  BY DEF Edge
<1>2. CASE b = u
  BY <1>1, <1>2 DEF Edge
<1>3. CASE b # u
  <2>1. PICK x \in DOMAIN h : Off(S, F, x) = b
    BY <1>3 DEF Edge
  <2>2. x \in DOMAIN g /\ Off(S, G, x) = b - d
    BY <2>1 DEF Stays
  <2> QED BY <1>1, <2>2 DEF Edge
<1> QED BY <1>2, <1>3

\* A dummy that stays is before the item at the start of the buffer, which stays.
LEMMA MovedDummies ==
  ASSUME NEW S, NEW F, NEW h, NEW u, Layout(S, F, h, u), Dummies(F, h),
         NEW p, NEW G, NEW g, NEW d \in Nat, IsAt(S, F, G, d),
         DOMAIN g = {x \in DOMAIN h : Off(S, F, x) >= d},
         \A x \in DOMAIN g : Stays(S, F, h, p, G, g, d, x)
  PROVE  Dummies(G, g)
<1>1. SUFFICES ASSUME NEW x \in DOMAIN g, IsDummy(g, x)
               PROVE  G # 0 /\ 0 \in DOMAIN g /\ ~IsDummy(g, 0)
  BY DEF Dummies
<1>2. x \in DOMAIN h /\ IsDummy(h, x) /\ Off(S, F, x) >= d /\ Off(S, F, x) \in Nat
  BY <1>1 DEF Stays
<1>3. F # 0 /\ 0 \in DOMAIN h /\ ~IsDummy(h, 0) /\ Reach(S, F, h, x) = Off(S, F, 0)
  BY <1>2, BehindDummy DEF Dummies
<1>4. Off(S, F, x) + 8 <= Off(S, F, 0) /\ Off(S, F, 0) \in Nat
  <2>1. Off(S, F, x) + 8 <= Reach(S, F, h, x)
    BY <1>2, Laying
  <2> QED BY <1>3, <2>1, InUse
<1>5. Off(S, F, 0) > d
  BY <1>2, <1>4
<1>6. 0 \in DOMAIN g
  BY <1>3, <1>4, <1>5
<1>7. ~IsDummy(g, 0)
  BY <1>3, <1>6 DEF Stays
<1>8. G # 0
  BY <1>3, <1>4, <1>5 DEF IsAt
<1> QED BY <1>6, <1>7, <1>8

\* Part k of item i, which was retrieved, is returned.
Returning(S, F, h, q0, u, ro, A, i, k, q1, f, G, g, d) ==
    /\ Fits(S, A) /\ IsAt(S, F, A, u)
    /\ i \in 1 .. Len(q0) /\ k \in 1 .. Len(q0[i].at) /\ q0[i].taken
    /\ Remains(q0, i, k, q1)
    /\ Going(S, F, h, ro, q0[i].at[k], f, G, g, d)

LEMMA Returned ==
  ASSUME NEW T, NEW S, NEW F, NEW h, NEW q0, NEW u, NEW ro, NEW wo,
         Good(T, S, F, h, q0, u, ro, wo), NEW A, NEW i, NEW k, NEW q1,
         NEW f, NEW G, NEW g, NEW d, Returning(S, F, h, q0, u, ro, A, i, k, q1, f, G, g, d)
  PROVE  /\ Good(T, S, G, g, q1, u - d, ro - d, wo - d)
         /\ Waiting(T, S, G, g, ro - d) = Waiting(T, S, F, h, ro)
<1> DEFINE p == q0[i].at[k]
           off(x) == Off(S, F, x)
           set(x) == Off(S, G, x)
<1>0. /\ Fits(S, A) /\ IsAt(S, F, A, u)
      /\ i \in 1 .. Len(q0) /\ k \in 1 .. Len(q0[i].at) /\ q0[i].taken
      /\ Remains(q0, i, k, q1) /\ Going(S, F, h, ro, p, f, G, g, d)
  BY DEF Returning
<1> USE <1>0
<1>1. /\ Layout(S, F, h, u) /\ Dummies(F, h) /\ Edge(S, F, h, u, ro) /\ ro <= wo
      /\ q0 \in Seq(Entry) /\ Parted(T, S, F, h, q0, ro) /\ Ordered(S, F, q0)
      /\ Sized(T, S, h, q0) /\ Owned(S, F, h, q0, ro) /\ Freed(F, h)
      /\ WrittenTo(T, S, F, h, u, wo) /\ Edge(S, F, h, u, wo)
  BY DEF Good, WrittenTo
<1>2. /\ S \in Nat /\ F \in 0 .. S - 1 /\ u \in 0 .. S /\ ro \in 0 .. u /\ wo \in 0 .. u
      /\ d \in 0 .. ro
  BY <1>1, LayoutType DEF Edge, Going
<1>3. /\ Layout(S, G, g, u - d) /\ \A x \in DOMAIN g : Stays(S, F, h, p, G, g, d, x)
  BY <1>1, Moved
<1>4. /\ DOMAIN g = {x \in DOMAIN h : off(x) >= d} /\ IsAt(S, F, G, d)
      /\ \A x \in DOMAIN h : off(x) < d => "FREE" \in Flags(f, x) \/ "DUMMY" \in Flags(f, x)
      /\ d < ro => G \in DOMAIN h /\ "FREE" \notin Flags(f, G) /\ "DUMMY" \notin Flags(f, G)
  BY DEF Going
<1>5. /\ DOMAIN f = DOMAIN h
      /\ \A x \in DOMAIN h : Flags(f, x) = IF x \in {p} THEN Flags(h, x) \cup {"FREE"} ELSE Flags(h, x)
  BY DEF Going, IsMark
<1>6. p \in DOMAIN h /\ off(p) < ro /\ "DUMMY" \notin Flags(h, p) /\ off(p) \in Nat
  <2>1. p \in DOMAIN h /\ off(p) < ro /\ "DUMMY" \notin Flags(h, p)
    BY PartFacts
  <2> QED BY <1>1, <2>1, InUse
<1>7. \A x \in DOMAIN h : off(x) \in Nat
  BY <1>1, InUse
<1>8. Dummies(G, g)
  <2>1. d \in Nat
    BY <1>2
  <2> QED BY <1>1, <1>3, <1>4, <2>1, MovedDummies
<1>9. Edge(S, G, g, u - d, ro - d) /\ Edge(S, G, g, u - d, wo - d) /\ ro - d <= wo - d
  <2>1. u \in Nat /\ d \in Nat /\ d <= ro /\ d <= wo
    BY <1>1, <1>2
  <2>2. Edge(S, G, g, u - d, ro - d)
    BY <1>1, <1>3, <1>4, <2>1, MovedEdge
  <2>3. Edge(S, G, g, u - d, wo - d)
    BY <1>1, <1>3, <1>4, <2>1, MovedEdge
  <2> QED BY <1>1, <1>2, <2>2, <2>3
<1>10. ASSUME NEW x \in DOMAIN g
       PROVE  /\ x \in DOMAIN h /\ off(x) \in Nat /\ set(x) = off(x) - d
              /\ \A b \in Nat : (set(x) < b - d <=> off(x) < b) /\ (set(x) = b - d <=> off(x) = b)
                                /\ (set(x) >= b - d <=> off(x) >= b)
              /\ IsDummy(g, x) <=> IsDummy(h, x)
              /\ "DUMMY" \in Flags(g, x) <=> "DUMMY" \in Flags(h, x)
              /\ "WRITTEN" \in Flags(g, x) <=> "WRITTEN" \in Flags(h, x)
              /\ "SPLIT" \in Flags(g, x) <=> "SPLIT" \in Flags(h, x)
              /\ "FREE" \in Flags(g, x) <=> x = p \/ "FREE" \in Flags(h, x)
              /\ NextOf(S, g, x) = NextOf(S, h, x) /\ g[x].xItemLen = h[x].xItemLen
  <2>1. Stays(S, F, h, p, G, g, d, x)
    BY <1>3
  <2>2. x \in DOMAIN h /\ off(x) \in Nat /\ set(x) = off(x) - d
    BY <2>1 DEF Stays
  <2>3. \A b \in Nat : (set(x) < b - d <=> off(x) < b) /\ (set(x) = b - d <=> off(x) = b)
                       /\ (set(x) >= b - d <=> off(x) >= b)
    <3>1. d \in Int
      BY <1>2
    <3>2. PICK v, w : v = off(x) /\ w = set(x)
      OBVIOUS
    <3>3. v \in Int /\ w = v - d
      BY <2>2, <3>2
    <3>4. ASSUME NEW b \in Int
          PROVE  (w < b - d <=> v < b) /\ (w = b - d <=> v = b) /\ (w >= b - d <=> v >= b)
      BY <3>1, <3>3
    <3> QED BY <3>2, <3>4
  <2>4. "DUMMY" \in Flag \ {"FREE"} /\ "WRITTEN" \in Flag \ {"FREE"} /\ "SPLIT" \in Flag \ {"FREE"}
    BY DEF Flag
  <2> QED BY <2>1, <2>2, <2>3, <2>4 DEF Stays
<1>11. \A x \in DOMAIN h : off(x) >= d => x \in DOMAIN g
  BY <1>4
<1>12. ASSUME NEW a \in 1 .. Len(q0), NEW b \in 1 .. Len(q0[a].at), a # i \/ b # k
       PROVE  q0[a].at[b] # p /\ q0[a].at[b] \in DOMAIN g
  <2> DEFINE x == q0[a].at[b]
  <2>1. x # p
    BY <1>12, PartsDiffer
  <2>2. x \in DOMAIN h /\ "DUMMY" \notin Flags(h, x) /\ "FREE" \notin Flags(h, x)
    BY PartFacts
  <2> HIDE DEF x
  <2>3. ~(off(x) < d)
    BY <1>4, <1>5, <2>1, <2>2
  <2>4. x \in DOMAIN g
    BY <1>2, <1>7, <1>11, <2>2, <2>3
  <2> QED BY <2>1, <2>4 DEF x
<1>13. ASSUME NEW j \in 1 .. Len(q1)
       PROVE  SameItem(q0, i, k, q1, j, Place(q0, i, j))
  BY DEF Remains
<1>14. ASSUME NEW j \in 1 .. Len(q1), NEW l \in 1 .. Len(q1[j].at)
       PROVE  LET a == Place(q0, i, j)
                  b == Piece(q0, i, k, j, l)
              IN /\ a \in 1 .. Len(q0) /\ b \in 1 .. Len(q0[a].at) /\ q1[j].at[l] = q0[a].at[b]
                 /\ q1[j].at[l] # p /\ q1[j].at[l] \in DOMAIN g
                 /\ q1[j].done <=> q0[a].done
                 /\ q1[j].taken <=> q0[a].taken
  <2> DEFINE a == Place(q0, i, j)
             b == Piece(q0, i, k, j, l)
  <2>1. /\ a \in 1 .. Len(q0) /\ b \in 1 .. Len(q0[a].at) /\ q1[j].at[l] = q0[a].at[b]
        /\ a # i \/ b # k
        /\ q1[j].done <=> q0[a].done
        /\ q1[j].taken <=> q0[a].taken
    BY <1>13 DEF SameItem
  <2> HIDE DEF a, b
  <2>2. q1[j].at[l] # p /\ q1[j].at[l] \in DOMAIN g
    BY <1>12, <2>1
  <2> QED BY <2>1, <2>2 DEF a, b
<1>15. Parted(T, S, G, g, q1, ro - d)
  <2>1. ASSUME NEW j \in 1 .. Len(q1), NEW l \in 1 .. Len(q1[j].at)
        PROVE  /\ q1[j].at[l] \in DOMAIN g
               /\ "DUMMY" \notin Flags(g, q1[j].at[l]) /\ "FREE" \notin Flags(g, q1[j].at[l])
               /\ q1[j].taken <=> set(q1[j].at[l]) < ro - d
               /\ T = NOSPLIT => (q1[j].done <=> "WRITTEN" \in Flags(g, q1[j].at[l]))
    <3> DEFINE a == Place(q0, i, j)
               b == Piece(q0, i, k, j, l)
               x == q1[j].at[l]
    <3>1. /\ a \in 1 .. Len(q0) /\ b \in 1 .. Len(q0[a].at) /\ x = q0[a].at[b]
          /\ x # p /\ x \in DOMAIN g
          /\ q1[j].done <=> q0[a].done
          /\ q1[j].taken <=> q0[a].taken
      BY <1>14
    <3> HIDE DEF a, b, x
    <3>2. /\ "DUMMY" \notin Flags(h, x) /\ "FREE" \notin Flags(h, x)
          /\ q0[a].taken <=> off(x) < ro
          /\ T = NOSPLIT => (q0[a].done <=> "WRITTEN" \in Flags(h, x))
      BY <3>1, PartFacts
    <3>3. /\ "DUMMY" \notin Flags(g, x) /\ "FREE" \notin Flags(g, x)
          /\ q1[j].taken <=> set(x) < ro - d
          /\ T = NOSPLIT => (q1[j].done <=> "WRITTEN" \in Flags(g, x))
      <4>1. ro \in Nat
        BY <1>2
      <4> QED BY <1>10, <3>1, <3>2, <4>1
    <3> QED BY <3>1, <3>3 DEF x
  <2>2. \A j \in 1 .. Len(q1) : Len(q1[j].at) \in 1 .. 2
    BY <1>13 DEF SameItem
  <2> QED BY <2>1, <2>2 DEF Parted
<1>16. Ordered(S, G, q1)
  <2>1. SUFFICES ASSUME NEW j \in 1 .. Len(q1), NEW m \in 1 .. Len(q1),
                        NEW l \in 1 .. Len(q1[j].at), NEW n \in 1 .. Len(q1[m].at),
                        j < m \/ (j = m /\ l < n)
                 PROVE  set(q1[j].at[l]) < set(q1[m].at[n])
    BY DEF Ordered
  <2> DEFINE a == Place(q0, i, j)
             b == Piece(q0, i, k, j, l)
             c == Place(q0, i, m)
             e == Piece(q0, i, k, m, n)
  <2>2. /\ a \in 1 .. Len(q0) /\ b \in 1 .. Len(q0[a].at) /\ q1[j].at[l] = q0[a].at[b]
        /\ q1[j].at[l] \in DOMAIN g
    BY <1>14
  <2>3. /\ c \in 1 .. Len(q0) /\ e \in 1 .. Len(q0[c].at) /\ q1[m].at[n] = q0[c].at[e]
        /\ q1[m].at[n] \in DOMAIN g
    BY <1>14
  <2>4. a < c \/ (a = c /\ b < e)
    <3>1. CASE j < m
      BY <3>1 DEF Remains
    <3>2. CASE j = m /\ l < n
      BY <1>13, <3>2 DEF SameItem
    <3> QED BY <2>1, <3>1, <3>2
  <2> HIDE DEF a, b, c, e
  <2>5. off(q1[j].at[l]) < off(q1[m].at[n])
    BY <1>1, <2>2, <2>3, <2>4 DEF Ordered
  <2> QED BY <1>2, <1>10, <2>2, <2>3, <2>5, ZenonT(60)
<1>17. Sized(T, S, g, q1)
  <2>1. ASSUME NEW j \in 1 .. Len(q1)
        PROVE  /\ q1[j].taken \/ T = ALLOWSPLIT => q1[j].done
               /\ ~q1[j].taken => Whole(T, S, g, q1[j])
    <3> DEFINE a == Place(q0, i, j)
    <3>1. /\ a \in 1 .. Len(q0) /\ q1[j].n = q0[a].n
          /\ q1[j].done <=> q0[a].done
          /\ q1[j].taken <=> q0[a].taken
          /\ a # i => q1[j].at = q0[a].at
      BY <1>13 DEF SameItem
    <3> HIDE DEF a
    <3>2. /\ q0[a].taken \/ T = ALLOWSPLIT => q0[a].done
          /\ ~q0[a].taken => Whole(T, S, h, q0[a])
      BY <1>1, <3>1 DEF Sized
    <3>3. ASSUME ~q1[j].taken PROVE Whole(T, S, g, q1[j])
      <4>1. a # i /\ q1[j].at = q0[a].at /\ Whole(T, S, h, q0[a])
        BY <3>1, <3>2, <3>3
      <4>2. \A b \in 1 .. Len(q0[a].at) : q0[a].at[b] \in DOMAIN g
        BY <1>12, <3>1, <4>1
      <4>3. Len(q0[a].at) = 1 \/ Len(q0[a].at) = 2
        BY <3>1, PartFacts
      <4>4. q0[a].at[1] \in DOMAIN g /\ (Len(q0[a].at) = 2 => q0[a].at[2] \in DOMAIN g)
        BY <4>2, <4>3
      <4> QED BY <1>10, <3>1, <4>1, <4>4 DEF Whole
    <3> QED BY <3>1, <3>2, <3>3
  <2> QED BY <2>1 DEF Sized
<1>18. Owned(S, G, g, q1, ro - d)
  <2>1. ASSUME NEW x \in DOMAIN g
        PROVE  /\ "FREE" \in Flags(g, x) => set(x) < ro - d
               /\ \/ "DUMMY" \in Flags(g, x) \/ "FREE" \in Flags(g, x)
                  \/ \E j \in 1 .. Len(q1) : \E l \in 1 .. Len(q1[j].at) : q1[j].at[l] = x
    <3>1. /\ x \in DOMAIN h /\ ("FREE" \in Flags(h, x) => off(x) < ro)
          /\ \/ "DUMMY" \in Flags(h, x) \/ "FREE" \in Flags(h, x)
             \/ \E a \in 1 .. Len(q0) : \E b \in 1 .. Len(q0[a].at) : q0[a].at[b] = x
      BY <1>1, <1>10 DEF Owned
    <3>2. "FREE" \in Flags(g, x) => set(x) < ro - d
      <4>1. ro \in Nat
        BY <1>2
      <4> QED BY <1>6, <1>10, <3>1, <4>1
    <3>3. CASE "DUMMY" \in Flags(h, x) \/ "FREE" \in Flags(h, x) \/ x = p
      BY <1>10, <3>2, <3>3
    <3>4. CASE x # p /\ \E a \in 1 .. Len(q0) : \E b \in 1 .. Len(q0[a].at) : q0[a].at[b] = x
      <4>0. PICK a \in 1 .. Len(q0) : \E b \in 1 .. Len(q0[a].at) : q0[a].at[b] = x
        BY <3>4
      <4>1. PICK b \in 1 .. Len(q0[a].at) : q0[a].at[b] = x
        BY <4>0
      <4>2. a # i \/ b # k
        BY <3>4, <4>1
      <4>3. \E j \in 1 .. Len(q1) : \E l \in 1 .. Len(q1[j].at) : q1[j].at[l] = q0[a].at[b]
        BY <4>2 DEF Remains
      <4> QED BY <3>2, <4>1, <4>3
    <3> QED BY <3>1, <3>3, <3>4
  <2> QED BY <2>1 DEF Owned
<1>19. Freed(G, g)
  <2>1. CASE d < ro
    <3>1. "FREE" \notin Flags(f, G) /\ "DUMMY" \notin Flags(f, G)
      BY <1>4, <2>1
    <3>2. G \in DOMAIN g => Flags(g, G) = Flags(f, G)
      BY DEF Going, Flags
    <3> QED BY <3>1, <3>2 DEF Freed, IsDummy
  <2>2. CASE d = ro
    <3>1. ASSUME NEW x \in DOMAIN g PROVE "FREE" \notin Flags(g, x)
      <4>1. off(x) >= ro /\ x \in DOMAIN h
        BY <1>4, <2>2
      <4>2. ~(off(x) < ro) /\ x # p
        BY <1>2, <1>6, <1>7, <4>1
      <4> QED BY <1>1, <1>10, <4>1, <4>2 DEF Owned
    <3> QED BY <3>1 DEF Freed
  <2> QED BY <1>2, <2>1, <2>2
<1>20. WrittenTo(T, S, G, g, u - d, wo - d)
  <2>1. T = ALLOWSPLIT => wo - d = u - d
    BY <1>1 DEF WrittenTo
  <2>2. ASSUME T = NOSPLIT, NEW x \in DOMAIN g
        PROVE  /\ set(x) < wo - d => "WRITTEN" \in Flags(g, x)
               /\ set(x) = wo - d => /\ "WRITTEN" \notin Flags(g, x)
                                     /\ IsDummy(g, x) => "WRITTEN" \notin Flags(g, 0)
    <3>1. /\ x \in DOMAIN h
          /\ off(x) < wo => "WRITTEN" \in Flags(h, x)
          /\ off(x) = wo => /\ "WRITTEN" \notin Flags(h, x)
                            /\ IsDummy(h, x) => "WRITTEN" \notin Flags(h, 0)
      BY <1>1, <1>10, <2>2 DEF WrittenTo
    <3>2. wo \in Nat
      BY <1>2
    <3>3. IsDummy(g, x) => 0 \in DOMAIN g
      BY <1>8 DEF Dummies
    <3> QED BY <1>10, <3>1, <3>2, <3>3
  <2> QED BY <1>9, <2>1, <2>2 DEF WrittenTo
<1>21. Good(T, S, G, g, q1, u - d, ro - d, wo - d)
  <2>1. q1 \in Seq(Entry)
    BY DEF Remains
  <2> QED BY <1>3, <1>8, <1>9, <1>15, <1>16, <1>17, <1>18, <1>19, <1>20, <2>1 DEF Good
<1>22. ASSUME NEW x PROVE x \in Waiting(T, S, G, g, ro - d) <=> x \in Waiting(T, S, F, h, ro)
  <2>1. ro \in Nat
    BY <1>2
  <2>2. x \in Waiting(T, S, F, h, ro) => x \in DOMAIN g
    <3>1. SUFFICES ASSUME x \in DOMAIN h, off(x) >= ro PROVE x \in DOMAIN g
      BY DEF Waiting
    <3> QED BY <1>2, <1>7, <1>11, <3>1
  <2>3. CASE x \in DOMAIN g
    BY <1>10, <2>1, <2>3 DEF Waiting
  <2>4. CASE x \notin DOMAIN g
    BY <2>2, <2>4 DEF Waiting
  <2> QED BY <2>3, <2>4
<1>23. Waiting(T, S, G, g, ro - d) = Waiting(T, S, F, h, ro)
  BY <1>22
<1> QED BY <1>21, <1>23

\* The distance of a pointer from the new pucFree.
LEMMA ShiftAt ==
  ASSUME NEW S \in Nat, NEW F \in 0 .. S - 1, NEW G, NEW d \in Nat, IsAt(S, F, G, d),
         NEW x, NEW b \in 0 .. S, IsAt(S, F, x, b), d <= b
  PROVE  IsAt(S, G, x, b - d)
BY DEF IsAt, Off

\* The loop of prvReturnItemDefault.
LEMMA FreeLoop ==
  ASSUME NEW u, NEW ro, NEW wo, Kept(u, ro, wo), NEW p \in DOMAIN mem,
         Off(xSize, pucFree, p) < ro, NEW junk \in HeaderSet
  PROVE  LET r == prvReturnItemDefault(p, junk) IN
         \E d, f : /\ Going(xSize, pucFree, mem, ro, p, f, r.free, r.mem, d)
                   /\ r.full <=> full /\ d = 0
<1> DEFINE S == xSize
           F == pucFree
           R == pucRead
           f == Mark(mem, {p}, "FREE")
           h == [x \in Pos |-> IF x \in DOMAIN f THEN f[x] ELSE junk]
           over == {x \in Pos : h[x].uxItemFlags \cap {"FREE", "DUMMY"} # {}}
           later == over \ {pucRead}
           first == IF full \/ xItemsWaiting = 0 THEN over ELSE later
           at == Walk(h, pucFree, first, later)
           gone == Passed(at, first, later)
           G == at[Turns]
           g == [x \in DOMAIN f \ gone |-> f[x]]
           off(x) == Off(S, F, x)
<1>1. prvReturnItemDefault(p, junk) = [mem |-> g, free |-> G, full |-> full /\ gone = {}]
  BY DEF prvReturnItemDefault
<1>2. /\ Good(type, S, F, mem, q, u, ro, wo) /\ Layout(S, F, mem, u) /\ Edge(S, F, mem, u, ro)
      /\ IsAt(S, F, R, ro) /\ (full <=> u = S)
      /\ S \in Nat /\ F \in 0 .. S - 1 /\ u \in 0 .. S /\ ro \in 0 .. u
  BY KeptFacts DEF Pointers, Good
<1>3. Off(S, F, p) \in Nat /\ 0 < ro /\ ro \in Nat
  BY <1>2, InUse
<1>4. IsMark(mem, {p}, "FREE", f)
  <2>1. \A x \in DOMAIN mem : mem[x] \in HeaderSet
    BY <1>2 DEF Layout, Headers
  <2>2. "FREE" \in Flag
    BY DEF Flag
  <2> QED BY <2>1, <2>2, Marking
<1> HIDE DEF f
<1>5. /\ DOMAIN f = DOMAIN mem
      /\ \A x \in DOMAIN mem : /\ f[x] \in HeaderSet /\ f[x].xItemLen = mem[x].xItemLen
                               /\ IsDummy(f, x) <=> IsDummy(mem, x)
  BY <1>4 DEF IsMark, IsDummy
<1>6. Layout(S, F, f, u) /\ Edge(S, F, f, u, ro)
  BY <1>2, <1>5, Reflagged DEF Edge
<1>7. \A x \in DOMAIN f : x \in Pos
  BY <1>6, Laying DEF Pos
<1>8. /\ \A x \in DOMAIN f : h[x] = f[x]
      /\ \A x \in Pos : h[x].xItemLen \in Nat
  BY <1>5, <1>7 DEF HeaderSet
<1>9. \A x \in DOMAIN f : x \in over <=> "FREE" \in Flags(f, x) \/ "DUMMY" \in Flags(f, x)
  BY <1>7, <1>8 DEF Flags
<1>10. \A x \in first \cup later : x \in Int => h[x].xItemLen \in Nat
  <2>1. \A x \in first \cup later : x \in Pos
    OBVIOUS
  <2> HIDE DEF h, first, later
  <2> QED BY <1>8, <2>1
<1> HIDE DEF h, over
<1>11. F \in DOMAIN f /\ off(F) = 0
  <2>1. u > 0
    BY <1>2, <1>3
  <2> QED BY <1>2, <1>6, <2>1, Distances DEF Layout, Laid
<1>12. \A x \in DOMAIN f : off(x) < ro => Reach(S, F, f, x) <= ro
  BY <1>6, Below
<1>13. F \in first <=> F \in over
  <2>1. CASE full \/ xItemsWaiting = 0
    BY <2>1
  <2>2. CASE ~(full \/ xItemsWaiting = 0)
    <3>1. F # R
      BY <1>2, <1>3, <2>2 DEF IsAt, Off
    <3> QED BY <2>2, <3>1
  <2> QED BY <2>1, <2>2
<1>14. ASSUME NEW x \in DOMAIN f
       PROVE  /\ off(F) <= off(x) /\ off(x) < ro => (x \in later => x \in over)
              /\ off(F) < off(x) /\ off(x) < ro => (x \in over => x \in later)
  <2>1. x \in later => x \in over
    OBVIOUS
  <2>2. ASSUME off(F) < off(x), off(x) < ro PROVE x # R
    <3>1. off(x) \in Nat
      BY <1>6, InUse
    <3> QED BY <1>2, <1>11, <2>2, <3>1 DEF IsAt
  <2> QED BY <2>1, <2>2
<1>15. \A x : IsAt(S, F, x, ro) => x \notin later
  <2>1. \A x : IsAt(S, F, x, ro) => x = R
    BY <1>2, OneAddress
  <2> QED BY <2>1
<1>16. ro \in 0 .. u /\ off(F) < ro
  BY <1>2, <1>3, <1>11
<1> HIDE DEF first, later
<1>17. PICK d \in off(F) .. ro : WalkEnds(S, F, f, over, F, ro, G, gone, d)
  BY <1>6, <1>8, <1>10, <1>11, <1>12, <1>13, <1>14, <1>15, <1>16, WalkAlong
<1> HIDE DEF G, gone
<1>18. /\ d \in 0 .. ro /\ IsAt(S, F, G, d)
       /\ gone = {x \in DOMAIN f : off(x) < d}
       /\ \A x \in gone : x \in over
       /\ d < ro => G \in DOMAIN f /\ G \notin over
  <2>1. \A x \in DOMAIN f : off(F) <= off(x)
    BY <1>6, <1>11, InUse
  <2> QED BY <1>11, <1>17, <2>1 DEF WalkEnds
<1>19. DOMAIN g = {x \in DOMAIN mem : off(x) >= d} /\ \A x \in DOMAIN g : g[x] = f[x]
  <2>1. \A x \in DOMAIN f : off(x) \in Nat
    BY <1>6, InUse
  <2>2. \A x \in DOMAIN f : x \notin gone <=> off(x) >= d
    BY <1>3, <1>18, <2>1
  <2> QED BY <1>5, <2>2
<1> HIDE DEF g
<1>20. Going(S, F, mem, ro, p, f, G, g, d)
  <2>1. \A x \in DOMAIN mem : off(x) < d => "FREE" \in Flags(f, x) \/ "DUMMY" \in Flags(f, x)
    BY <1>5, <1>9, <1>18
  <2>2. d < ro => G \in DOMAIN mem /\ "FREE" \notin Flags(f, G) /\ "DUMMY" \notin Flags(f, G)
    BY <1>5, <1>9, <1>18
  <2> QED BY <1>4, <1>18, <1>19, <2>1, <2>2 DEF Going
<1>21. gone = {} <=> d = 0
  <2>1. CASE d = 0
    <3>1. \A x \in DOMAIN f : ~(off(x) < 0)
      BY <1>6, InUse
    <3> QED BY <1>18, <2>1, <3>1
  <2>2. CASE d # 0
    <3>1. F \in gone
      BY <1>3, <1>11, <1>18, <2>2
    <3> QED BY <2>2, <3>1
  <2> QED BY <2>1, <2>2
<1>22. \E e, k : /\ Going(xSize, pucFree, mem, ro, p, k, G, g, e)
                 /\ full /\ gone = {} <=> full /\ e = 0
  BY <1>20, <1>21
<1> DEFINE r == prvReturnItemDefault(p, junk)
           b == full /\ gone = {}
<1>23. r.mem = g /\ r.free = G
  BY <1>1
<1>24. r.full = b
  <2>1. \A x, y, z : [mem |-> x, free |-> y, full |-> z].full = z
    OBVIOUS
  <2> DEFINE rec(z) == [mem |-> g, free |-> G, full |-> z]
  <2>2. \A z : rec(z).full = z
    BY <2>1, Zenon
  <2>3. r = rec(b)
    BY <1>1
  <2> HIDE DEF rec, r, b
  <2>4. rec(b).full = b
    BY <2>2, Zenon
  <2> QED BY <2>3, <2>4, Zenon
<1> HIDE DEF r
<1>25. \E e, k : /\ Going(xSize, pucFree, mem, ro, p, k, r.free, r.mem, e)
                 /\ r.full <=> full /\ e = 0
  BY <1>22, <1>23, <1>24
<1> QED BY <1>25 DEF r

\* vRingbufferReturnItem of a part of an item that was retrieved: pucFree goes on as
\* far as it can, and nothing becomes available by it.
LEMMA ReturnStep ==
  ASSUME NEW u, NEW ro, NEW wo, Kept(u, ro, wo), Junk \subseteq HeaderSet,
         NEW i \in DOMAIN q, NEW k \in DOMAIN q[i].at, ReturnItem(i, k)
  PROVE  /\ \E d \in 0 .. ro : Kept(u - d, ro - d, wo - d)'
         /\ prvCheckItemAvail' => prvCheckItemAvail
<1> DEFINE p == q[i].at[k]
<1>1. /\ Good(type, xSize, pucFree, mem, q, u, ro, wo) /\ type \in {NOSPLIT, ALLOWSPLIT}
      /\ q \in Seq(Entry) /\ Pointers(u, ro, wo) /\ xSize >= 2 * rbHEADER_SIZE
      /\ Layout(xSize, pucFree, mem, u) /\ Edge(xSize, pucFree, mem, u, ro)
      /\ xSize \in Nat /\ pucFree \in 0 .. xSize - 1
      /\ u \in 0 .. xSize /\ ro \in 0 .. u /\ wo \in 0 .. u /\ ro <= wo
      /\ xItemsWaiting = Cardinality(Waiting(type, xSize, pucFree, mem, ro))
  BY KeptFacts DEF Good
<1>2. /\ Fits(xSize, pucAcquire) /\ IsAt(xSize, pucFree, pucAcquire, u)
      /\ full <=> u = xSize
      /\ IsAt(xSize, pucFree, pucRead, ro)
      /\ IsAt(xSize, pucFree, pucWrite, wo)
  BY <1>1 DEF Pointers
<1>3. type # BYTEBUF
  BY <1>1 DEF NOSPLIT, ALLOWSPLIT, BYTEBUF
<1>4. q[i].taken /\ q' = Dropped(i, k)
      /\ UNCHANGED <<type, xSize, pucAcquire, pucWrite, pucRead, xItemsWaiting>>
  BY DEF ReturnItem
<1>5. PICK junk \in Junk : LET r == prvReturnItemDefault(p, junk)
                           IN mem' = r.mem /\ pucFree' = r.free /\ full' = r.full
  BY <1>3 DEF ReturnItem
<1>6. i \in 1 .. Len(q)
  BY <1>1
<1>7. /\ q[i].at \in Seq(Nat) /\ (Len(q[i].at) = 1 \/ Len(q[i].at) = 2)
      /\ \A l \in 1 .. Len(q[i].at) : /\ q[i].at[l] \in DOMAIN mem
                                      /\ q[i].taken <=> Off(xSize, pucFree, q[i].at[l]) < ro
  <2>1. Good(type, xSize, pucFree, mem, q, u, ro, wo)
    BY <1>1
  <2> QED BY <1>6, <2>1, PartFacts
<1>8. k \in 1 .. Len(q[i].at)
  BY <1>7
<1>9. p \in DOMAIN mem /\ Off(xSize, pucFree, p) < ro
  BY <1>4, <1>7, <1>8
<1>10. junk \in HeaderSet
  OBVIOUS
<1> DEFINE r == prvReturnItemDefault(p, junk)
<1>11. \E d, f : /\ Going(xSize, pucFree, mem, ro, p, f, r.free, r.mem, d)
                 /\ r.full <=> full /\ d = 0
  BY <1>9, <1>10, FreeLoop
<1>12. mem' = r.mem /\ pucFree' = r.free /\ full' = r.full
  BY <1>5
<1> HIDE DEF r
<1>13. PICK d, f : /\ Going(xSize, pucFree, mem, ro, p, f, r.free, r.mem, d)
                   /\ r.full <=> full /\ d = 0
  BY <1>11
<1>14. d \in 0 .. ro /\ IsAt(xSize, pucFree, r.free, d)
  BY <1>13 DEF Going
<1>15. Remains(q, i, k, q')
  <2>1. \A a \in 1 .. Len(q) : Len(q[a].at) \in 1 .. 2
    BY <1>1, PartFacts
  <2>2. CASE Len(q[i].at) = 1
    <3>1. q' = Without(q, i)
      BY <1>4, <2>2 DEF Dropped
    <3>2. k = 1
      <4>1. \A x \in 1 .. 1 : x = 1
        OBVIOUS
      <4> QED BY <1>8, <2>2, <4>1
    <3>3. Remains(q, i, k, Without(q, i))
      BY <1>1, <1>6, <2>1, <2>2, <3>2, DropItem
    <3> QED BY <3>1, <3>3
  <2>3. CASE Len(q[i].at) = 2
    <3>1. q' = [q EXCEPT ![i].at = Without(@, k)]
      BY <1>4, <2>3 DEF Dropped
    <3>2. Remains(q, i, k, [q EXCEPT ![i].at = Without(@, k)])
      BY <1>1, <1>6, <1>8, <2>1, <2>3, DropPart
    <3> QED BY <3>1, <3>2
  <2> QED BY <1>7, <2>2, <2>3
<1>16. /\ Good(type, xSize, r.free, r.mem, q', u - d, ro - d, wo - d)
       /\ Waiting(type, xSize, r.free, r.mem, ro - d) = Waiting(type, xSize, pucFree, mem, ro)
  <2>1. Returning(xSize, pucFree, mem, q, u, ro, pucAcquire, i, k, q', f, r.free, r.mem, d)
    BY <1>2, <1>4, <1>6, <1>8, <1>13, <1>15 DEF Returning
  <2> QED BY <1>1, <2>1, Returned
<1>17. /\ IsAt(xSize, r.free, pucAcquire, u - d)
       /\ IsAt(xSize, r.free, pucRead, ro - d)
       /\ IsAt(xSize, r.free, pucWrite, wo - d)
  <2>1. /\ d \in Nat /\ d <= u /\ d <= ro /\ d <= wo
        /\ ro \in 0 .. xSize /\ wo \in 0 .. xSize /\ u \in 0 .. xSize
    BY <1>1, <1>14
  <2>2. IsAt(xSize, r.free, pucAcquire, u - d)
    BY <1>1, <1>2, <1>14, <2>1, ShiftAt
  <2>3. IsAt(xSize, r.free, pucRead, ro - d)
    BY <1>1, <1>2, <1>14, <2>1, ShiftAt
  <2>4. IsAt(xSize, r.free, pucWrite, wo - d)
    BY <1>1, <1>2, <1>14, <2>1, ShiftAt
  <2> QED BY <2>2, <2>3, <2>4
<1>18. full' <=> u - d = xSize
  <2>1. full' <=> full /\ d = 0
    BY <1>12, <1>13
  <2> QED BY <1>1, <1>2, <1>14, <2>1
<1>19. Kept(u - d, ro - d, wo - d)'
  <2>1. Pointers(u - d, ro - d, wo - d)'
    BY <1>2, <1>4, <1>12, <1>17, <1>18 DEF Pointers
  <2>2. xItemsWaiting' = Cardinality(Waiting(type', xSize', pucFree', mem', ro - d))
    BY <1>1, <1>4, <1>12, <1>16
  <2> QED BY <1>1, <1>4, <1>12, <1>16, <2>1, <2>2 DEF Kept, Buffer
<1>20. ASSUME prvCheckItemAvail' PROVE prvCheckItemAvail
  <2>1. /\ xItemsWaiting > 0 /\ (pucRead # pucWrite \/ full')
        /\ type = NOSPLIT => Marked(mem', pucRead, "WRITTEN")
    BY <1>4, <1>20 DEF prvCheckItemAvail
  <2>2. full' => full
    BY <1>12, <1>13
  <2>3. ASSUME NEW x, Marked(r.mem, x, "WRITTEN") PROVE Marked(mem, x, "WRITTEN")
    <3>1. x \in DOMAIN r.mem /\ "WRITTEN" \in Flags(r.mem, x)
      BY <2>3 DEF Marked, Header, Hdr, Flags
    <3>2. Stays(xSize, pucFree, mem, p, r.free, r.mem, d, x)
      BY <1>1, <1>2, <1>13, <3>1, Moved
    <3>3. x \in DOMAIN mem /\ "WRITTEN" \in Flags(mem, x)
      BY <3>1, <3>2 DEF Stays, Flag
    <3> QED BY <3>3 DEF Marked, Header, Flags
  <2> QED BY <1>3, <1>12, <2>1, <2>2, <2>3 DEF prvCheckItemAvail
<1> QED BY <1>14, <1>19, <1>20
-----------------------------------------------------------------------------
(***************************************************************************)
(* Who waits.                                                              *)
(***************************************************************************)
\* pucFree is at F, pucAcquire at A, u bytes behind it.
Acquired(S, F, A, fl, u) ==
    /\ S \in Nat /\ F \in 0 .. S - 1 /\ A \in 0 .. S - 1 /\ u \in 0 .. S
    /\ IsAt(S, F, A, u)
    /\ fl <=> u = S

\* What does not fit does not fit either when more is in use.
LEMMA FitsBefore ==
  ASSUME NEW u, NEW v, Acquired(xSize, pucFree, pucAcquire, full, u),
         Acquired(xSize, pucFree, pucAcquire', full', v), u < v,
         UNCHANGED <<type, xSize, pucFree>>, NEW n \in Nat,
         type # BYTEBUF => pucAcquire + 8 <= xSize,
         xCheckItemFits(n)'
  PROVE  xCheckItemFits(n)
<1> DEFINE S == xSize
           F == pucFree
           A == pucAcquire
           B == pucAcquire'
           N == rbALIGN_SIZE(n) + rbHEADER_SIZE
<1>1. /\ S \in Nat /\ F \in 0 .. S - 1 /\ A \in 0 .. S - 1 /\ u \in 0 .. S
      /\ B \in 0 .. S - 1 /\ v \in 0 .. S
      /\ full <=> u = S
      /\ full' <=> v = S
      /\ u = Off(S, F, A) \/ (A = F /\ u = S)
      /\ v = Off(S, F, B) \/ (B = F /\ v = S)
  BY DEF Acquired, IsAt
<1>2. N \in Nat
  <2>1. rbALIGN_SIZE(n) \in Nat
    BY Aligned
  <2> QED BY <2>1 DEF rbHEADER_SIZE
<1>3. CASE type = BYTEBUF
  <2>1. IF F - B = 0 THEN ~full' ELSE n <= (IF F - B > 0 THEN F - B ELSE S + (F - B))
    BY <1>3 DEF xCheckItemFits, prvCheckItemFitsByteBuffer, Free
  <2> HIDE DEF B
  <2>2. IF F - A = 0 THEN ~full ELSE n <= (IF F - A > 0 THEN F - A ELSE S + (F - A))
    BY <1>1, <2>1 DEF Off
  <2> QED BY <1>3, <2>2 DEF xCheckItemFits, prvCheckItemFitsByteBuffer, Free
<1>4. CASE type # BYTEBUF
  <2>1. IF F - B = 0 THEN ~full'
        ELSE IF F - B > 0 THEN N <= F - B
        ELSE \/ N <= S - B
             \/ IF type = ALLOWSPLIT THEN N + rbHEADER_SIZE <= S + (F - B) ELSE N <= F
    BY <1>4 DEF xCheckItemFits, prvCheckItemFitsDefault, Free, Rest
  <2>2. A + 8 <= S
    BY <1>4
  <2> HIDE DEF B, N
  <2>3. IF F - A = 0 THEN ~full
        ELSE IF F - A > 0 THEN N <= F - A
        ELSE \/ N <= S - A
             \/ IF type = ALLOWSPLIT THEN N + rbHEADER_SIZE <= S + (F - A) ELSE N <= F
    BY <1>1, <1>2, <2>1, <2>2 DEF Off, rbHEADER_SIZE
  <2> QED BY <1>4, <2>3 DEF xCheckItemFits, prvCheckItemFitsDefault, Free, Rest, N
<1> QED BY <1>3, <1>4

\* What xRingbufferSendAcquire puts into the buffer is not there to be retrieved.
LEMMA AcquireAvail ==
  ASSUME NEW u, NEW ro, NEW wo, Kept(u, ro, wo), type = NOSPLIT,
         NEW n, NEW a, NEW v, Placing(a, u, n, FALSE, v), mem' = a.mem, full' = a.full,
         UNCHANGED <<type, xSize, pucWrite, pucRead, pucFree, xItemsWaiting>>,
         prvCheckItemAvail'
  PROVE  prvCheckItemAvail
<1>1. /\ xItemsWaiting > 0 /\ (pucRead # pucWrite \/ full')
      /\ Marked(a.mem, pucRead, "WRITTEN") /\ type # BYTEBUF
  BY DEF prvCheckItemAvail, NOSPLIT, BYTEBUF
<1>2. /\ \A x \in DOMAIN mem : a.mem[x] = mem[x]
      /\ \A x \in DOMAIN a.mem \ DOMAIN mem : "WRITTEN" \notin Flags(a.mem, x)
  BY DEF Placing, Extension
<1>3. pucRead \in DOMAIN a.mem /\ "WRITTEN" \in Flags(a.mem, pucRead)
  BY <1>1 DEF Marked, Header, Hdr, Flags
<1>4. pucRead \in DOMAIN mem /\ "WRITTEN" \in Flags(mem, pucRead)
  BY <1>2, <1>3 DEF Flags
<1>5. Marked(mem, pucRead, "WRITTEN")
  BY <1>4 DEF Marked, Header, Flags
<1>6. ASSUME pucRead = pucWrite, ~full PROVE FALSE
  <2>1. /\ xSize \in Nat /\ u \in 0 .. xSize /\ wo \in 0 .. u /\ u # xSize
        /\ IsAt(xSize, pucFree, pucWrite, wo) /\ WrittenTo(NOSPLIT, xSize, pucFree, mem, u, wo)
    BY <1>6, KeptFacts DEF Pointers, Good
  <2>2. Off(xSize, pucFree, pucRead) = wo
    BY <1>6, <2>1 DEF IsAt
  <2> QED BY <1>4, <2>1, <2>2 DEF WrittenTo
<1> QED BY <1>1, <1>5, <1>6 DEF prvCheckItemAvail
-----------------------------------------------------------------------------
(***************************************************************************)
(* The byte buffer.                                                        *)
(***************************************************************************)
\* Nth, in a buffer of S bytes.
NthOf(S, n) == IF n >= 2 * S THEN n - 2 * S ELSE n

LEMMA NthIs == \A n : Nth(n) = NthOf(xSize, n)
BY DEF Nth, NthOf, Round

\* What is in the buffer when u bytes are in use and ro of them retrieved.
Stream(S, F, m, g, ro, u) ==
    \A p \in 0 .. S - 1 :
        ro <= Off(S, F, p) /\ Off(S, F, p) < u =>
            p \in DOMAIN m /\ m[p] = NthOf(S, g + Off(S, F, p) - ro)

BytesAt(u, ro) ==
    /\ type = BYTEBUF /\ xSize \in Nat /\ got \in 0 .. Round - 1
    /\ pucWrite = pucAcquire /\ DOMAIN mem \subseteq Pos
    /\ Acquired(xSize, pucFree, pucAcquire, full, u)
    /\ IsAt(xSize, pucFree, pucRead, ro) /\ ro \in 0 .. u
    /\ xItemsWaiting = u - ro /\ sent = NthOf(xSize, got + u - ro)
    /\ Stream(xSize, pucFree, mem, got, ro, u)
    /\ q = <<>> \/ (Len(q) = 1 /\ q[1].taken /\ Len(q[1].at) = 1)
    /\ ro = 0 <=> q = <<>>

LEMMA BytesAtEquiv ==
  ASSUME type = BYTEBUF, xSize \in Nat, got \in 0 .. Round - 1, receiver => q = <<>>
  PROVE  Bytes <=> \E u, ro : BytesAt(u, ro)
<1>1. ASSUME Bytes PROVE \E u, ro : BytesAt(u, ro)
  <2>1. PICK u \in 0 .. xSize, ro \in 0 .. xSize :
          /\ IsAt(xSize, pucFree, pucAcquire, u)
          /\ full <=> u = xSize
          /\ IsAt(xSize, pucFree, pucRead, ro) /\ ro <= u
          /\ xItemsWaiting = u - ro /\ sent = Nth(got + u - ro)
          /\ \A p \in Pos :
                ro <= Off(xSize, pucFree, p) /\ Off(xSize, pucFree, p) < u =>
                    p \in DOMAIN mem /\ mem[p] = Nth(got + Off(xSize, pucFree, p) - ro)
          /\ q = <<>> \/ (Len(q) = 1 /\ q[1].taken /\ Len(q[1].at) = 1)
          /\ ro = 0 <=> q = <<>>
    BY <1>1 DEF Bytes
  <2>2. Stream(xSize, pucFree, mem, got, ro, u)
    BY <2>1, NthIs DEF Stream, Pos
  <2>3. Acquired(xSize, pucFree, pucAcquire, full, u) /\ ro \in 0 .. u
    BY <1>1, <2>1 DEF Bytes, Acquired, IsAt, Pos
  <2>4. BytesAt(u, ro)
    BY <1>1, <2>1, <2>2, <2>3, NthIs DEF Bytes, BytesAt
  <2> QED BY <2>4
<1>2. ASSUME NEW u, NEW ro, BytesAt(u, ro) PROVE Bytes
  <2>1. /\ u \in 0 .. xSize /\ ro \in 0 .. xSize /\ pucFree \in Pos
        /\ IsAt(xSize, pucFree, pucAcquire, u)
        /\ full <=> u = xSize
        /\ ro <= u
    BY <1>2 DEF BytesAt, Acquired, Pos
  <2>2. \A p \in Pos : ro <= Off(xSize, pucFree, p) /\ Off(xSize, pucFree, p) < u =>
                    p \in DOMAIN mem /\ mem[p] = Nth(got + Off(xSize, pucFree, p) - ro)
    BY <1>2, NthIs DEF BytesAt, Stream, Pos
  <2> QED BY <1>2, <2>1, <2>2, NthIs DEF Bytes, BytesAt
<1> QED BY <1>1, <1>2

\* Counting modulo Round.
LEMMA Modulo ==
  ASSUME NEW S \in Nat, NEW g \in 0 .. 2 * S - 1, NEW a \in 0 .. S, NEW b \in 0 .. S,
         a + b <= S
  PROVE  /\ NthOf(S, g + a) \in 0 .. 2 * S - 1
         /\ NthOf(S, NthOf(S, g + a) + b) = NthOf(S, g + a + b)
BY DEF NthOf

LEMMA SendBytesStep ==
  ASSUME NEW u, NEW ro, BytesAt(u, ro), NEW n \in Nat, n <= xMaxItemSize, xCheckItemFits(n),
         SendByteBuf(n), UNCHANGED <<type, xSize, pucRead, pucFree, got>>
  PROVE  u < u + n /\ BytesAt(u + n, ro)'
<1> DEFINE S == xSize
           F == pucFree
           A == pucAcquire
           B == Ring(pucAcquire + n)
           fp(p) == Ring(p - pucAcquire + xSize)
<1>1. /\ type = BYTEBUF /\ S \in Nat /\ got \in 0 .. 2 * S - 1
      /\ F \in 0 .. S - 1 /\ A \in 0 .. S - 1 /\ u \in 0 .. S /\ ro \in 0 .. u
      /\ IsAt(S, F, A, u) /\ DOMAIN mem \subseteq 0 .. S - 1
      /\ full <=> u = S
      /\ xItemsWaiting = u - ro /\ sent = NthOf(S, got + u - ro) /\ IsAt(S, F, pucRead, ro)
      /\ Stream(S, F, mem, got, ro, u)
  BY DEF BytesAt, Acquired, Pos, Round
<1>2. /\ n > 0
      /\ mem' = [p \in DOMAIN mem \cup {x \in Pos : fp(x) < n} |->
                   IF fp(p) < n THEN NthOf(S, sent + fp(p)) ELSE mem[p]]
      /\ pucAcquire' = B /\ pucWrite' = B /\ full' = (full \/ B = F)
      /\ xItemsWaiting' = xItemsWaiting + n
      /\ sent' = NthOf(S, sent + n)
      /\ q' = q
  BY NthIs DEF SendByteBuf
<1>3. n <= S
  BY <1>1 DEF xMaxItemSize, NOSPLIT, ALLOWSPLIT, BYTEBUF
<1>4. IF F - A = 0 THEN ~full ELSE n <= (IF F - A > 0 THEN F - A ELSE S + (F - A))
  BY <1>1 DEF xCheckItemFits, prvCheckItemFitsByteBuffer, Free
<1>5. u < S /\ u + n <= S /\ u = Off(S, F, A)
  BY <1>1, <1>3, <1>4 DEF IsAt, Off
<1>6. B \in 0 .. S - 1 /\ IsAt(S, F, B, u + n) /\ (B = F <=> u + n = S)
  BY <1>1, <1>2, <1>5 DEF IsAt, Off, Ring
<1>7. full' <=> u + n = S
  <2>1. ~full
    BY <1>1, <1>5
  <2>2. full' <=> B = F
    BY <1>2, <2>1
  <2> QED BY <1>6, <2>2
<1>8. \A p \in 0 .. S - 1 :
        /\ fp(p) \in 0 .. S - 1
        /\ fp(p) < n => Off(S, F, p) = u + fp(p) /\ Off(S, F, p) < u + n
        /\ ~(fp(p) < n) => Off(S, F, p) < u \/ Off(S, F, p) >= u + n
        /\ Off(S, F, p) \in Nat
  BY <1>1, <1>2, <1>5 DEF Off, Ring
<1> HIDE DEF fp, B
<1>9. DOMAIN mem' \subseteq 0 .. S - 1
  BY <1>1, <1>2 DEF Pos
<1>10. sent' = NthOf(S, got + (u + n) - ro) /\ xItemsWaiting' = (u + n) - ro
  <2>1. /\ u - ro \in 0 .. S /\ n \in 0 .. S /\ (u - ro) + n <= S
        /\ got + u - ro = got + (u - ro) /\ got + (u + n) - ro = got + (u - ro) + n
    BY <1>1, <1>3, <1>5
  <2>2. NthOf(S, NthOf(S, got + (u - ro)) + n) = NthOf(S, got + (u - ro) + n)
    BY <1>1, <2>1, Modulo
  <2>3. xItemsWaiting' = (u + n) - ro
    BY <1>1, <1>2
  <2> QED BY <1>1, <1>2, <2>1, <2>2, <2>3
<1>11. Stream(S, F, mem', got, ro, u + n)
  <2>1. SUFFICES ASSUME NEW p \in 0 .. S - 1, ro <= Off(S, F, p), Off(S, F, p) < u + n
                 PROVE  p \in DOMAIN mem' /\ mem'[p] = NthOf(S, got + Off(S, F, p) - ro)
    BY DEF Stream
  <2>2. CASE fp(p) < n
    <3>1. p \in DOMAIN mem' /\ mem'[p] = NthOf(S, sent + fp(p))
      BY <1>2, <2>2 DEF Pos
    <3>2. Off(S, F, p) = u + fp(p) /\ fp(p) \in 0 .. S - 1
      BY <1>8, <2>2
    <3>3. /\ u - ro \in 0 .. S /\ fp(p) \in 0 .. S /\ (u - ro) + fp(p) <= S
          /\ got + u - ro = got + (u - ro) /\ got + Off(S, F, p) - ro = got + (u - ro) + fp(p)
      BY <1>1, <1>5, <2>2, <3>2
    <3>4. NthOf(S, NthOf(S, got + (u - ro)) + fp(p)) = NthOf(S, got + (u - ro) + fp(p))
      BY <1>1, <3>3, Modulo
    <3> QED BY <1>1, <3>1, <3>3, <3>4
  <2>3. CASE ~(fp(p) < n)
    <3>1. Off(S, F, p) < u
      BY <1>1, <1>8, <2>1, <2>3
    <3>2. p \in DOMAIN mem /\ mem[p] = NthOf(S, got + Off(S, F, p) - ro)
      BY <1>1, <2>1, <3>1 DEF Stream
    <3> QED BY <1>2, <2>3, <3>2
  <2> QED BY <2>2, <2>3
<1>12. Acquired(S, F, B, full', u + n)
  BY <1>1, <1>5, <1>6, <1>7 DEF Acquired
<1>13. /\ q' = <<>> \/ (Len(q') = 1 /\ q'[1].taken /\ Len(q'[1].at) = 1)
       /\ ro = 0 <=> q' = <<>>
  BY <1>2 DEF BytesAt
<1>14. ro \in 0 .. u + n
  BY <1>1
<1>15. /\ type' = type /\ xSize' = xSize /\ pucRead' = pucRead /\ pucFree' = pucFree /\ got' = got
  OBVIOUS
<1>16. u < u + n
  BY <1>1, <1>2
<1>17. /\ type' = BYTEBUF /\ xSize' \in Nat /\ got' \in 0 .. 2 * xSize' - 1
       /\ DOMAIN mem' \subseteq 0 .. xSize' - 1
  BY <1>1, <1>9, <1>15
<1>18. /\ pucWrite' = pucAcquire' /\ Acquired(xSize', pucFree', pucAcquire', full', u + n)
  BY <1>2, <1>12, <1>15
<1>19. /\ IsAt(xSize', pucFree', pucRead', ro) /\ xItemsWaiting' = (u + n) - ro
       /\ sent' = NthOf(xSize', got' + (u + n) - ro)
       /\ Stream(xSize', pucFree', mem', got', ro, u + n)
  BY <1>1, <1>10, <1>11, <1>15
<1>20. BytesAt(u + n, ro)'
  BY <1>13, <1>14, <1>17, <1>18, <1>19 DEF BytesAt, Pos, Round
<1> QED BY <1>16, <1>20

\* prvGetItemByteBuf hands out the bytes that come next.
LEMMA ReceiveBytesStep ==
  ASSUME NEW u, NEW ro, BytesAt(u, ro), NEW max \in Nat, prvCheckItemAvail,
         ReceiveBytes(max),
         UNCHANGED <<type, xSize, pucAcquire, pucWrite, pucFree, full, mem, sent>>
  PROVE  /\ fault' = fault /\ q = <<>>
         /\ \E k : BytesAt(u, k)'
<1> DEFINE S == xSize
           F == pucFree
           W == pucWrite
           piece == IF pucRead > pucWrite \/ full THEN xSize - pucRead ELSE pucWrite - pucRead
           k == IF max = 0 \/ piece <= max THEN piece ELSE max
           e == [Item(k, <<pucRead>>, TRUE) EXCEPT !.taken = TRUE]
<1>1. /\ type = BYTEBUF /\ S \in Nat /\ got \in 0 .. 2 * S - 1
      /\ F \in 0 .. S - 1 /\ pucAcquire \in 0 .. S - 1 /\ u \in 0 .. S /\ ro \in 0 .. u
      /\ IsAt(S, F, W, u) /\ DOMAIN mem \subseteq 0 .. S - 1 /\ W = pucAcquire
      /\ full <=> u = S
      /\ xItemsWaiting = u - ro /\ sent = NthOf(S, got + u - ro) /\ IsAt(S, F, pucRead, ro)
      /\ Stream(S, F, mem, got, ro, u)
      /\ Acquired(S, F, pucAcquire, full, u)
      /\ ro = 0 <=> q = <<>>
  BY DEF BytesAt, Acquired, Pos, Round
<1>2. pucRead = F /\ xItemsWaiting > 0
  BY <1>1 DEF prvCheckItemAvail
<1>3. ro = 0 /\ u > 0
  BY <1>1, <1>2 DEF IsAt, Off
<1>4. k \in 1 .. u /\ F + k <= S
  BY <1>1, <1>2, <1>3 DEF IsAt, Off
<1>5. /\ pucRead' = Ring(F + k) /\ xItemsWaiting' = xItemsWaiting - k
      /\ got' = NthOf(S, got + k) /\ q' = Append(q, e)
      /\ fault' = IF \A i \in 0 .. k - 1 : mem[F + i] = NthOf(S, got + i) THEN fault ELSE "wrong"
  <2>1. /\ pucRead' = Ring(pucRead + k) /\ xItemsWaiting' = xItemsWaiting - k
        /\ got' = Nth(got + k) /\ q' = Append(q, e)
        /\ fault' = IF \A i \in 0 .. k - 1 : mem[pucRead + i] = Nth(got + i) THEN fault ELSE "wrong"
    BY DEF ReceiveBytes
  <2> HIDE DEF k, e
  <2> QED BY <1>2, <2>1, NthIs
<1>6. e.taken /\ e.at = <<pucRead>>
  BY DEF Item
<1> HIDE DEF k, e
<1>7. fault' = fault
  <2>1. ASSUME NEW i \in 0 .. k - 1 PROVE mem[F + i] = NthOf(S, got + i)
    <3>1. F + i \in 0 .. S - 1 /\ Off(S, F, F + i) = i /\ i < u /\ 0 <= i
      BY <1>1, <1>4 DEF Off
    <3>2. got + i - 0 = got + i
      BY <1>1, <1>4
    <3> QED BY <1>1, <1>3, <3>1, <3>2 DEF Stream
  <2> QED BY <1>5, <2>1
<1>8. IsAt(S, F, pucRead', k)
  BY <1>1, <1>4, <1>5 DEF IsAt, Off, Ring
<1>9. Len(q') = 1 /\ q'[1] = e
  BY <1>1, <1>3, <1>5
<1>10. got' \in 0 .. 2 * S - 1 /\ sent = NthOf(S, got' + u - k)
  <2>1. /\ k \in 0 .. S /\ u - k \in 0 .. S /\ k + (u - k) <= S
        /\ got + u - ro = got + k + (u - k)
    BY <1>1, <1>3, <1>4
  <2>2. /\ NthOf(S, got + k) \in 0 .. 2 * S - 1
        /\ NthOf(S, NthOf(S, got + k) + (u - k)) = NthOf(S, got + k + (u - k))
    BY <1>1, <2>1, Modulo
  <2>3. got' + (u - k) = got' + u - k
    BY <1>1, <1>4, <1>5, <2>2
  <2> QED BY <1>1, <1>5, <2>1, <2>2, <2>3
<1>11. Stream(S, F, mem, got', k, u)
  <2>1. SUFFICES ASSUME NEW p \in 0 .. S - 1, k <= Off(S, F, p), Off(S, F, p) < u
                 PROVE  p \in DOMAIN mem /\ mem[p] = NthOf(S, got' + Off(S, F, p) - k)
    BY DEF Stream
  <2>2. Off(S, F, p) \in 0 .. S - 1
    BY <1>1 DEF Off
  <2> DEFINE o == Off(S, F, p)
  <2>3. p \in DOMAIN mem /\ mem[p] = NthOf(S, got + o - 0)
    BY <1>1, <1>3, <2>1, <2>2 DEF Stream
  <2> HIDE DEF o
  <2>4. o \in 0 .. S - 1 /\ k <= o /\ o < u
    BY <2>1, <2>2 DEF o
  <2>5. /\ k \in 0 .. S /\ o - k \in 0 .. S /\ k + (o - k) <= S
        /\ got + o - 0 = got + k + (o - k)
    BY <1>1, <1>4, <2>4
  <2>6. NthOf(S, NthOf(S, got + k) + (o - k)) = NthOf(S, got + k + (o - k))
    BY <1>1, <2>5, Modulo
  <2>7. got' + (o - k) = got' + o - k
    BY <1>4, <1>10, <2>4
  <2> QED BY <1>5, <2>3, <2>5, <2>6, <2>7 DEF o
<1>12. PICK c : c = k
  OBVIOUS
<1>13. xItemsWaiting' = u - c
  BY <1>1, <1>3, <1>5, <1>12
<1>14. Len(<<pucRead>>) = 1
  OBVIOUS
<1>15. /\ q' = <<>> \/ (Len(q') = 1 /\ q'[1].taken /\ Len(q'[1].at) = 1)
       /\ c = 0 <=> q' = <<>>
  <2>1. Len(<<>>) = 0 /\ c # 0
    BY <1>4, <1>12
  <2>2. q' # <<>>
    BY <1>9, <2>1
  <2>3. q'[1].taken /\ q'[1].at = <<pucRead>>
    BY <1>6, <1>9, Zenon
  <2> QED BY <1>9, <1>14, <2>1, <2>2, <2>3
<1>16. c \in 0 .. u
  BY <1>1, <1>4, <1>12
<1>17. /\ type' = type /\ xSize' = xSize /\ pucAcquire' = pucAcquire /\ pucWrite' = pucWrite
       /\ pucFree' = pucFree /\ full' = full /\ mem' = mem /\ sent' = sent
  OBVIOUS
<1>18. /\ type' = BYTEBUF /\ xSize' \in Nat /\ got' \in 0 .. 2 * xSize' - 1
       /\ DOMAIN mem' \subseteq 0 .. xSize' - 1
       /\ pucWrite' = pucAcquire' /\ Acquired(xSize', pucFree', pucAcquire', full', u)
  BY <1>1, <1>10, <1>17
<1>19. /\ IsAt(xSize', pucFree', pucRead', c) /\ sent' = NthOf(xSize', got' + u - c)
       /\ Stream(xSize', pucFree', mem', got', c, u)
  BY <1>8, <1>10, <1>11, <1>12, <1>17
<1>20. BytesAt(u, c)'
  BY <1>13, <1>15, <1>16, <1>18, <1>19 DEF BytesAt, Pos, Round
<1> QED BY <1>1, <1>3, <1>7, <1>20

\* prvReturnItemByteBuf gives back what was retrieved.
LEMMA ReturnBytesStep ==
  ASSUME NEW u, NEW ro, BytesAt(u, ro), NEW i \in DOMAIN q, NEW k \in DOMAIN q[i].at,
         ReturnItem(i, k)
  PROVE  BytesAt(u - ro, 0)' /\ q # <<>>
<1> DEFINE S == xSize
           F == pucFree
           R == pucRead
<1>1. /\ type = BYTEBUF /\ S \in Nat /\ got \in 0 .. 2 * S - 1
      /\ F \in 0 .. S - 1 /\ pucAcquire \in 0 .. S - 1 /\ u \in 0 .. S /\ ro \in 0 .. u
      /\ IsAt(S, F, pucAcquire, u) /\ DOMAIN mem \subseteq 0 .. S - 1 /\ pucWrite = pucAcquire
      /\ full <=> u = S
      /\ xItemsWaiting = u - ro /\ sent = NthOf(S, got + u - ro) /\ IsAt(S, F, R, ro)
      /\ Stream(S, F, mem, got, ro, u)
      /\ q = <<>> \/ (Len(q) = 1 /\ q[1].taken /\ Len(q[1].at) = 1)
      /\ ro = 0 <=> q = <<>>
  BY DEF BytesAt, Acquired, Pos, Round
<1>2. /\ pucFree' = R /\ full' = FALSE /\ mem' = mem /\ q' = Dropped(i, k)
      /\ type' = type /\ xSize' = xSize /\ pucAcquire' = pucAcquire /\ pucWrite' = pucWrite
      /\ pucRead' = R /\ xItemsWaiting' = xItemsWaiting /\ sent' = sent /\ got' = got
  BY <1>1 DEF ReturnItem
<1>3. q # <<>>
  OBVIOUS
<1>4. ro > 0 /\ Len(q) = 1 /\ Len(q[1].at) = 1
  BY <1>1, <1>3
<1>5. R \in 0 .. S - 1
  BY <1>1 DEF IsAt
<1>6. IsAt(S, R, pucAcquire, u - ro) /\ IsAt(S, R, R, 0) /\ u - ro # S /\ u - ro \in 0 .. S
  BY <1>1, <1>4, <1>5 DEF IsAt, Off
<1>7. ASSUME NEW p \in 0 .. S - 1, 0 <= Off(S, R, p), Off(S, R, p) < u - ro
      PROVE  p \in DOMAIN mem /\ mem[p] = NthOf(S, got + Off(S, R, p) - 0)
  <2>1. Off(S, F, p) = Off(S, R, p) + ro /\ Off(S, R, p) \in Nat
    BY <1>1, <1>4, <1>5, <1>7 DEF IsAt, Off
  <2>2. ro <= Off(S, F, p) /\ Off(S, F, p) < u /\ got + Off(S, F, p) - ro = got + Off(S, R, p) - 0
    BY <1>1, <1>7, <2>1
  <2> QED BY <1>1, <2>2 DEF Stream
<1>8. q' = <<>>
  <2>1. i = 1
    <3>1. \A x \in 1 .. 1 : x = 1
      OBVIOUS
    <3>2. i \in 1 .. 1
      BY <1>4, <1>3 DEF BytesAt
    <3> QED BY <3>1, <3>2
  <2>2. q' = Without(q, 1)
    BY <1>2, <1>4, <2>1 DEF Dropped
  <2>3. Len(q) - 1 = 0
    BY <1>4
  <2>4. Without(q, 1) = [j \in 1 .. 0 |-> IF j < 1 THEN q[j] ELSE q[j + 1]]
    BY <2>3 DEF Without
  <2> QED BY <2>2, <2>4
<1>9. /\ xItemsWaiting = (u - ro) - 0 /\ got + (u - ro) - 0 = got + u - ro
  BY <1>1
<1>10. /\ type' = BYTEBUF /\ xSize' \in Nat /\ got' \in 0 .. 2 * xSize' - 1
       /\ DOMAIN mem' \subseteq 0 .. xSize' - 1 /\ pucWrite' = pucAcquire'
  BY <1>1, <1>2
<1>11. Acquired(xSize', pucFree', pucAcquire', full', u - ro)
  BY <1>1, <1>2, <1>5, <1>6 DEF Acquired
<1>12. /\ IsAt(xSize', pucFree', pucRead', 0) /\ 0 \in 0 .. u - ro
       /\ xItemsWaiting' = (u - ro) - 0 /\ sent' = NthOf(xSize', got' + (u - ro) - 0)
  BY <1>1, <1>2, <1>6, <1>9
<1>13. Stream(xSize', pucFree', mem', got', 0, u - ro)
  BY <1>2, <1>7 DEF Stream
<1>14. BytesAt(u - ro, 0)'
  BY <1>8, <1>10, <1>11, <1>12, <1>13 DEF BytesAt, Pos, Round
<1> QED BY <1>3, <1>14
-----------------------------------------------------------------------------
(***************************************************************************)
(* The invariant.                                                          *)
(***************************************************************************)
Typed ==
    /\ type \in Types /\ xSize \in Sizes[type]
    /\ sent \in 0 .. Round - 1 /\ got \in 0 .. Round - 1
    /\ full \in BOOLEAN /\ receiver \in BOOLEAN
    /\ sender \in Lens[type] \cup {NoWait}

\* The two halves of NoLostWakeup.
SenderWaits   == sender # NoWait => ~xCheckItemFits(sender)
ReceiverWaits == receiver => ~prvCheckItemAvail

LEMMA RInvParts ==
  RInv <=> /\ Typed
           /\ fault = "none" \/ (fault = "early" /\ type = NOSPLIT)
           /\ fault = "none" =>
                 /\ IF type = BYTEBUF THEN Bytes ELSE Items
                 /\ SenderWaits /\ ReceiverWaits
BY DEF RInv, Typed, NoLostWakeup, SenderWaits, ReceiverWaits

\* What the assumptions on the constants say of one buffer.
LEMMA Assumed ==
  ASSUME type \in Types, xSize \in Sizes[type]
  PROVE  /\ xSize \in Nat /\ xSize > 0 /\ Lens[type] \subseteq Nat /\ NoWait \notin Nat
         /\ Junk \subseteq HeaderSet
         /\ type # BYTEBUF =>
               /\ type \in {NOSPLIT, ALLOWSPLIT} /\ xSize >= 2 * rbHEADER_SIZE
               /\ Room(xSize) /\ Fits(xSize, 0)
<1>1. /\ type \in {NOSPLIT, ALLOWSPLIT, BYTEBUF}
      /\ Sizes[type] \subseteq Nat \ {0} /\ Lens[type] \subseteq Nat
      /\ type # BYTEBUF => xSize = rbALIGN_SIZE(xSize) /\ xSize >= 2 * rbHEADER_SIZE
      /\ Junk \subseteq HeaderSet /\ NoWait \notin Nat
  BY RingAssumption, Zenon DEF HeaderSet
<1>2. xSize \in Nat /\ xSize > 0
  BY <1>1
<1>3. ASSUME type # BYTEBUF PROVE Room(xSize) /\ Fits(xSize, 0)
  <2>1. xSize % 4 = 0
    BY <1>1, <1>2, <1>3, Aligned
  <2>2. 0 % 4 = 0
    OBVIOUS
  <2>3. 0 + rbHEADER_SIZE <= xSize
    BY <1>1, <1>2, <1>3 DEF rbHEADER_SIZE
  <2> QED BY <1>2, <2>1, <2>2, <2>3 DEF Room, Fits
<1> QED BY <1>1, <1>2, <1>3

LEMMA AcquiredIn ==
  ASSUME NEW S, NEW F, NEW h, NEW v, NEW A, NEW fl,
         Layout(S, F, h, v), IsAt(S, F, A, v), fl <=> v = S
  PROVE  Acquired(S, F, A, fl, v)
<1>1. S \in Nat /\ F \in 0 .. S - 1 /\ v \in 0 .. S
  BY DEF Layout, Room, Fits, rbHEADER_SIZE
<1>2. A \in 0 .. S - 1
  BY DEF IsAt
<1> QED BY <1>1, <1>2 DEF Acquired

LEMMA KeptAcquired ==
  ASSUME NEW u, NEW ro, NEW wo, Kept(u, ro, wo)
  PROVE  /\ Acquired(xSize, pucFree, pucAcquire, full, u)
         /\ pucAcquire + 8 <= xSize /\ type # BYTEBUF
<1>1. /\ Layout(xSize, pucFree, mem, u) /\ IsAt(xSize, pucFree, pucAcquire, u)
      /\ Fits(xSize, pucAcquire) /\ type \in {NOSPLIT, ALLOWSPLIT}
      /\ full <=> u = xSize
  BY DEF Kept, Buffer, Good, Pointers
<1>2. Acquired(xSize, pucFree, pucAcquire, full, u)
  BY <1>1, AcquiredIn
<1> QED BY <1>1, <1>2 DEF Fits, rbHEADER_SIZE, NOSPLIT, ALLOWSPLIT, BYTEBUF

LEMMA KeptAcquiredNext ==
  ASSUME NEW u, NEW ro, NEW wo, Kept(u, ro, wo)'
  PROVE  Acquired(xSize', pucFree', pucAcquire', full', u)
<1>1. /\ Layout(xSize', pucFree', mem', u) /\ IsAt(xSize', pucFree', pucAcquire', u)
      /\ full' <=> u = xSize'
  BY DEF Kept, Buffer, Good, Pointers
<1> QED BY <1>1, AcquiredIn

\* Items, by name of the distances.
LEMMA ItemsKept ==
  ASSUME type \in {NOSPLIT, ALLOWSPLIT}, xSize >= 2 * rbHEADER_SIZE, Items
  PROVE  \E u, ro, wo : Kept(u, ro, wo)
<1>1. PICK u \in 0 .. xSize, ro \in 0 .. xSize, wo \in 0 .. xSize :
        /\ Good(type, xSize, pucFree, mem, q, u, ro, wo) /\ Pointers(u, ro, wo)
        /\ xItemsWaiting = Cardinality(Waiting(type, xSize, pucFree, mem, ro))
  BY DEF Items
<1>2. Kept(u, ro, wo)
  BY <1>1 DEF Kept, Buffer
<1> QED BY <1>2

LEMMA GoodBounds ==
  ASSUME NEW T, NEW S, NEW F, NEW h, NEW q0, NEW u, NEW ro, NEW wo,
         Good(T, S, F, h, q0, u, ro, wo)
  PROVE  u \in 0 .. S /\ ro \in 0 .. S /\ wo \in 0 .. S
<1>1. S \in Nat /\ u \in 0 .. S /\ ro \in 0 .. u /\ wo \in 0 .. u
  BY DEF Good, Layout, Room, Edge, WrittenTo
<1> QED BY <1>1

LEMMA KeptItems ==
  ASSUME NEW u, NEW ro, NEW wo, Kept(u, ro, wo)
  PROVE  Items
<1>1. /\ Good(type, xSize, pucFree, mem, q, u, ro, wo) /\ Pointers(u, ro, wo)
      /\ xItemsWaiting = Cardinality(Waiting(type, xSize, pucFree, mem, ro))
  BY DEF Kept, Buffer
<1>2. u \in 0 .. xSize /\ ro \in 0 .. xSize /\ wo \in 0 .. xSize
  BY <1>1, GoodBounds
<1> QED BY <1>1, <1>2 DEF Items

LEMMA KeptItemsNext ==
  ASSUME NEW u, NEW ro, NEW wo, Kept(u, ro, wo)'
  PROVE  Items'
<1>1. /\ Good(type', xSize', pucFree', mem', q', u, ro, wo) /\ Pointers(u, ro, wo)'
      /\ xItemsWaiting' = Cardinality(Waiting(type', xSize', pucFree', mem', ro))
  BY DEF Kept, Buffer
<1>2. u \in 0 .. xSize' /\ ro \in 0 .. xSize' /\ wo \in 0 .. xSize'
  BY <1>1, GoodBounds
<1> QED BY <1>1, <1>2 DEF Items

LEMMA BytesNext ==
  ASSUME NEW u, NEW ro, BytesAt(u, ro)', receiver' => q' = <<>>
  PROVE  Bytes'
<1>1. \A n : Nth(n)' = NthOf(xSize', n)
  BY DEF Nth, NthOf, Round
<1>2. /\ u \in 0 .. xSize' /\ ro \in 0 .. xSize' /\ pucFree' \in 0 .. xSize' - 1
      /\ IsAt(xSize', pucFree', pucAcquire', u)
      /\ full' <=> u = xSize'
      /\ ro <= u
  <2>1. Acquired(xSize', pucFree', pucAcquire', full', u) /\ ro \in 0 .. u
    BY DEF BytesAt
  <2>2. /\ xSize' \in Nat /\ u \in 0 .. xSize' /\ pucFree' \in 0 .. xSize' - 1
        /\ IsAt(xSize', pucFree', pucAcquire', u)
        /\ full' <=> u = xSize'
    BY <2>1, Zenon DEF Acquired
  <2>3. ro \in 0 .. xSize' /\ ro <= u
    BY <2>1, <2>2
  <2> QED BY <2>2, <2>3
<1>3. \A p \in 0 .. xSize' - 1 :
         ro <= Off(xSize', pucFree', p) /\ Off(xSize', pucFree', p) < u =>
             p \in DOMAIN mem' /\ mem'[p] = NthOf(xSize', got' + Off(xSize', pucFree', p) - ro)
  BY DEF BytesAt, Stream
<1>4. /\ pucWrite' = pucAcquire' /\ DOMAIN mem' \subseteq 0 .. xSize' - 1
      /\ IsAt(xSize', pucFree', pucRead', ro)
      /\ xItemsWaiting' = u - ro /\ sent' = NthOf(xSize', got' + u - ro)
      /\ q' = <<>> \/ (Len(q') = 1 /\ q'[1].taken /\ Len(q'[1].at) = 1)
      /\ ro = 0 <=> q' = <<>>
  BY DEF BytesAt, Pos
<1> QED BY <1>1, <1>2, <1>3, <1>4 DEF Bytes, Pos, Nth, Round, NthOf

LEMMA SenderStill ==
  ASSUME SenderWaits, UNCHANGED <<type, xSize, pucFree, pucAcquire, full, sender>>
  PROVE  SenderWaits'
<1>1. \A n : xCheckItemFits(n)' <=> xCheckItemFits(n)
  BY DEF xCheckItemFits, prvCheckItemFitsDefault, prvCheckItemFitsByteBuffer, Free, Rest
<1>2. PICK c : c = sender
  OBVIOUS
<1>3. SenderWaits' <=> (c # NoWait => ~xCheckItemFits(c)')
  BY <1>2 DEF SenderWaits, xCheckItemFits, prvCheckItemFitsDefault, prvCheckItemFitsByteBuffer
<1> QED BY <1>1, <1>2, <1>3 DEF SenderWaits

\* A sender who waits goes on waiting when something is sent.
LEMMA SenderAfter ==
  ASSUME NEW u, NEW v, Acquired(xSize, pucFree, pucAcquire, full, u),
         Acquired(xSize', pucFree', pucAcquire', full', v), u < v,
         UNCHANGED <<type, xSize, pucFree, sender>>,
         sender \in Nat \cup {NoWait},
         type # BYTEBUF => pucAcquire + 8 <= xSize, SenderWaits
  PROVE  SenderWaits'
<1>1. PICK c : c = sender
  OBVIOUS
<1>2. SenderWaits' <=> (c # NoWait => ~xCheckItemFits(c)')
  BY <1>1 DEF SenderWaits, xCheckItemFits, prvCheckItemFitsDefault, prvCheckItemFitsByteBuffer
<1>3. ASSUME c # NoWait, xCheckItemFits(c)' PROVE FALSE
  <2>1. c \in Nat
    BY <1>1, <1>3
  <2>2. Acquired(xSize, pucFree, pucAcquire', full', v)
    OBVIOUS
  <2>3. xCheckItemFits(c)
    BY <1>3, <2>1, <2>2, FitsBefore
  <2> QED BY <1>1, <1>3, <2>3 DEF SenderWaits
<1> QED BY <1>2, <1>3

LEMMA ReceiverStill ==
  ASSUME ReceiverWaits,
         UNCHANGED <<type, xSize, pucFree, pucRead, pucWrite, full, xItemsWaiting, mem, receiver>>
  PROVE  ReceiverWaits'
BY DEF ReceiverWaits, prvCheckItemAvail

LEMMA TypedNext ==
  ASSUME Typed, UNCHANGED <<type, xSize>>,
         sent' \in 0 .. Round - 1, got' \in 0 .. Round - 1, full' \in BOOLEAN,
         receiver' \in BOOLEAN, sender' \in Lens[type] \cup {NoWait}
  PROVE  Typed'
BY DEF Typed, Round

LEMMA InvNext ==
  ASSUME Typed', fault' = "none" \/ (fault' = "early" /\ type' = NOSPLIT),
         fault' = "none" => /\ type' = BYTEBUF => Bytes'
                            /\ type' # BYTEBUF => Items'
                            /\ SenderWaits' /\ ReceiverWaits'
  PROVE  RInv'
BY DEF RInv, Typed, NoLostWakeup, SenderWaits, ReceiverWaits

\* What RInv says, in the form the steps use.
LEMMA InvFacts ==
  ASSUME RInv
  PROVE  /\ Typed /\ xSize \in Nat /\ xSize > 0 /\ Lens[type] \subseteq Nat /\ NoWait \notin Nat
         /\ sender \in Nat \cup {NoWait} /\ Junk \subseteq HeaderSet
         /\ type \in {NOSPLIT, ALLOWSPLIT, BYTEBUF}
         /\ fault = "none" \/ (fault = "early" /\ type = NOSPLIT)
         /\ fault = "none" => SenderWaits /\ ReceiverWaits
         /\ fault = "none" /\ type # BYTEBUF => \E u, ro, wo : Kept(u, ro, wo)
         /\ fault = "none" /\ type = BYTEBUF =>
               (receiver => q = <<>>) /\ \E u, ro : BytesAt(u, ro)
<1>1. /\ Typed /\ type \in Types /\ xSize \in Sizes[type]
      /\ fault = "none" \/ (fault = "early" /\ type = NOSPLIT)
      /\ fault = "none" => SenderWaits /\ ReceiverWaits
      /\ fault = "none" /\ type # BYTEBUF => Items
      /\ fault = "none" /\ type = BYTEBUF => Bytes
  BY RInvParts DEF Typed
<1>2. /\ xSize \in Nat /\ xSize > 0 /\ Lens[type] \subseteq Nat /\ NoWait \notin Nat
      /\ Junk \subseteq HeaderSet
      /\ type # BYTEBUF => type \in {NOSPLIT, ALLOWSPLIT} /\ xSize >= 2 * rbHEADER_SIZE
  BY <1>1, Assumed
<1>3. sender \in Nat \cup {NoWait}
  BY <1>1, <1>2 DEF Typed
<1>4. fault = "none" /\ type # BYTEBUF => \E u, ro, wo : Kept(u, ro, wo)
  BY <1>1, <1>2, ItemsKept
<1>5. ASSUME fault = "none", type = BYTEBUF
      PROVE  (receiver => q = <<>>) /\ \E u, ro : BytesAt(u, ro)
  <2>1. receiver => q = <<>>
    BY <1>1, <1>5 DEF Bytes
  <2>2. got \in 0 .. Round - 1
    BY <1>1 DEF Typed
  <2> QED BY <1>1, <1>2, <1>5, <2>1, <2>2, BytesAtEquiv
<1>6. type \in {NOSPLIT, ALLOWSPLIT, BYTEBUF}
  BY <1>2
<1> QED BY <1>1, <1>2, <1>3, <1>4, <1>5, <1>6

LEMMA RInvInit == Init => RInv
<1> SUFFICES ASSUME Init PROVE RInv
  OBVIOUS
<1>1. type \in Types /\ xSize \in Sizes[type]
  BY DEF Init
<1>2. /\ xSize \in Nat /\ xSize > 0
      /\ type # BYTEBUF =>
           /\ type \in {NOSPLIT, ALLOWSPLIT} /\ xSize >= 2 * rbHEADER_SIZE
           /\ Room(xSize) /\ Fits(xSize, 0)
  BY <1>1, Assumed
<1>3. Typed
  <2>1. /\ sent = 0 /\ got = 0 /\ full = FALSE /\ receiver = FALSE /\ sender = NoWait
    BY DEF Init
  <2>2. 0 \in 0 .. Round - 1
    BY <1>2 DEF Round
  <2>3. full \in BOOLEAN /\ receiver \in BOOLEAN
    BY <2>1
  <2> QED BY <1>1, <2>1, <2>2, <2>3 DEF Typed
<1>4. DOMAIN mem = {} /\ Len(q) = 0 /\ q \in Seq(Entry)
  <2>1. mem = <<>> /\ q = <<>>
    BY DEF Init
  <2>2. DOMAIN <<>> = {} /\ Len(<<>>) = 0 /\ <<>> \in Seq(Entry)
    OBVIOUS
  <2> QED BY <2>1, <2>2
<1>5. ASSUME type # BYTEBUF PROVE Items
  <2>1. /\ pucFree = 0 /\ pucAcquire = 0 /\ pucRead = 0 /\ pucWrite = 0 /\ xItemsWaiting = 0
        /\ full = FALSE
    BY DEF Init
  <2>2. Layout(xSize, 0, mem, 0)
    BY <1>2, <1>4, <1>5 DEF Layout, Headers, Laid
  <2>3. /\ Dummies(0, mem) /\ Edge(xSize, 0, mem, 0, 0) /\ WrittenTo(type, xSize, 0, mem, 0, 0)
        /\ Freed(0, mem) /\ Owned(xSize, 0, mem, q, 0)
    BY <1>4 DEF Dummies, Edge, WrittenTo, Freed, Owned
  <2>4. /\ Parted(type, xSize, 0, mem, q, 0) /\ Ordered(xSize, 0, q) /\ Sized(type, xSize, mem, q)
    BY <1>4 DEF Parted, Ordered, Sized
  <2>5. Good(type, xSize, 0, mem, q, 0, 0, 0)
    BY <1>4, <2>2, <2>3, <2>4 DEF Good
  <2>6. IsAt(xSize, 0, 0, 0)
    BY <1>2 DEF IsAt, Off
  <2>7. Pointers(0, 0, 0)
    BY <1>2, <1>5, <2>1, <2>6 DEF Pointers
  <2>8. Waiting(type, xSize, 0, mem, 0) = {}
    BY <1>4 DEF Waiting
  <2>9. Kept(0, 0, 0)
    BY <1>2, <1>5, <2>1, <2>5, <2>7, <2>8, FS_EmptySet DEF Kept, Buffer
  <2> QED BY <2>9, KeptItems
<1>6. ASSUME type = BYTEBUF PROVE Bytes
  <2>1. /\ pucFree = 0 /\ pucAcquire = 0 /\ pucRead = 0 /\ pucWrite = 0 /\ xItemsWaiting = 0
        /\ full = FALSE /\ got = 0 /\ sent = 0 /\ q = <<>> /\ receiver = FALSE
    BY DEF Init
  <2>2. IsAt(xSize, 0, 0, 0) /\ Acquired(xSize, 0, 0, FALSE, 0)
    BY <1>2 DEF IsAt, Off, Acquired
  <2>3. Stream(xSize, 0, mem, 0, 0, 0)
    BY <1>2 DEF Stream, Off
  <2>4. NthOf(xSize, 0) = 0 /\ 0 + 0 - 0 = 0 /\ 0 - 0 = 0 /\ 0 \in 0 .. 0
    BY <1>2 DEF NthOf
  <2>5. 0 \in 0 .. Round - 1 /\ DOMAIN mem \subseteq Pos
    BY <1>2, <1>4 DEF Round
  <2>6. BytesAt(0, 0)
    BY <1>2, <1>6, <2>1, <2>2, <2>3, <2>4, <2>5 DEF BytesAt
  <2> QED BY <1>2, <1>6, <2>1, <2>5, <2>6, BytesAtEquiv
<1>7. fault = "none" /\ SenderWaits /\ ReceiverWaits
  BY DEF Init, SenderWaits, ReceiverWaits
<1> QED BY <1>3, <1>5, <1>6, <1>7, RInvParts

-----------------------------------------------------------------------------
(***************************************************************************)
(* Every action preserves it.                                              *)
(***************************************************************************)
\* Once an item has been handed out early nothing more is promised.
LEMMA FaultStays ==
  ASSUME RInv, fault # "none", fault' = fault, Typed', UNCHANGED type
  PROVE  RInv'
<1>1. fault' = "early" /\ type' = NOSPLIT
  BY DEF RInv
<1> QED BY <1>1, InvNext

LEMMA BoolFull ==
  ASSUME NEW h, NEW p, NEW n, NEW parts
  PROVE  Placed(h, p, n, parts).full \in BOOLEAN
BY DEF Placed

LEMMA PlacedBool ==
  ASSUME NEW n
  PROVE  prvAcquireItemNoSplit(n).full \in BOOLEAN /\ prvCopyItemAllowSplit(n).full \in BOOLEAN
<1>1. prvAcquireItemNoSplit(n).full \in BOOLEAN
  BY BoolFull DEF prvAcquireItemNoSplit
<1>2. prvCopyItemAllowSplit(n).full \in BOOLEAN
  BY BoolFull DEF prvCopyItemAllowSplit
<1> QED BY <1>1, <1>2

LEMMA SendInv ==
  ASSUME RInv, NEW n \in Lens[type], Send(n)
  PROVE  RInv'
<1>1. /\ Typed /\ xSize \in Nat /\ xSize > 0 /\ Lens[type] \subseteq Nat
      /\ sender \in Nat \cup {NoWait} /\ type \in {NOSPLIT, ALLOWSPLIT, BYTEBUF}
      /\ fault = "none" => SenderWaits /\ ReceiverWaits
      /\ fault = "none" /\ type # BYTEBUF => \E u, ro, wo : Kept(u, ro, wo)
      /\ fault = "none" /\ type = BYTEBUF => \E u, ro : BytesAt(u, ro)
  BY InvFacts
<1>2. /\ n \in Nat /\ n <= xMaxItemSize /\ xCheckItemFits(n)
      /\ SendNoSplit(n) \/ SendAllowSplit(n) \/ SendByteBuf(n)
      /\ receiver' = FALSE
      /\ UNCHANGED <<type, xSize, pucRead, pucFree, got, sender, fault>>
  BY <1>1 DEF Send, WakeReceiver
<1>3. Typed'
  <2>1. full' \in BOOLEAN
    <3>1. CASE SendNoSplit(n)
      <4>1. full' = prvAcquireItemNoSplit(n).full
        BY <3>1 DEF SendNoSplit
      <4> QED BY <4>1, PlacedBool
    <3>2. CASE SendAllowSplit(n)
      <4>1. full' = prvCopyItemAllowSplit(n).full
        BY <3>2 DEF SendAllowSplit
      <4> QED BY <4>1, PlacedBool
    <3>3. CASE SendByteBuf(n)
      <4>1. full' = (full \/ Ring(pucAcquire + n) = pucFree)
        BY <3>3 DEF SendByteBuf
      <4> QED BY <4>1
    <3> QED BY <1>2, <3>1, <3>2, <3>3
  <2>2. sent' \in 0 .. Round - 1
    <3>1. sent \in 0 .. Round - 1
      BY <1>1 DEF Typed
    <3>2. CASE sent' = sent
      BY <3>1, <3>2
    <3>3. CASE SendByteBuf(n)
      <4>1. sent' = Nth(sent + n) /\ type = BYTEBUF
        BY <3>3 DEF SendByteBuf
      <4>2. n <= xSize
        BY <1>2, <4>1 DEF xMaxItemSize, NOSPLIT, ALLOWSPLIT, BYTEBUF
      <4> QED BY <1>1, <1>2, <3>1, <4>1, <4>2 DEF Nth, Round
    <3>4. SendByteBuf(n) \/ sent' = sent
      BY <1>2 DEF SendNoSplit, SendAllowSplit
    <3> QED BY <3>2, <3>3, <3>4
  <2>3. got' \in 0 .. Round - 1 /\ sender' \in Lens[type] \cup {NoWait} /\ receiver' \in BOOLEAN
    BY <1>1, <1>2 DEF Typed
  <2> QED BY <1>1, <1>2, <2>1, <2>2, <2>3, TypedNext
<1>4. CASE fault # "none"
  BY <1>2, <1>3, <1>4, FaultStays
<1>5. CASE fault = "none" /\ type = BYTEBUF
  <2>1. PICK u, ro : BytesAt(u, ro)
    BY <1>1, <1>5
  <2>2. SendByteBuf(n)
    BY <1>2, <1>5 DEF SendNoSplit, SendAllowSplit, NOSPLIT, ALLOWSPLIT, BYTEBUF
  <2>3. u < u + n /\ BytesAt(u + n, ro)'
    BY <1>2, <2>1, <2>2, SendBytesStep
  <2>4. PICK v : v = u + n
    OBVIOUS
  <2>5. u < v /\ BytesAt(v, ro)'
    BY <2>3, <2>4
  <2>6. Bytes'
    BY <1>2, <2>5, BytesNext
  <2>7. Acquired(xSize, pucFree, pucAcquire, full, u)
    BY <2>1 DEF BytesAt
  <2>8. Acquired(xSize', pucFree', pucAcquire', full', v)
    BY <2>5 DEF BytesAt
  <2>9. SenderWaits'
    BY <1>1, <1>2, <1>5, <2>5, <2>7, <2>8, SenderAfter
  <2>10. ReceiverWaits'
    BY <1>2 DEF ReceiverWaits
  <2> QED BY <1>2, <1>3, <1>5, <2>6, <2>9, <2>10, InvNext
<1>6. CASE fault = "none" /\ type # BYTEBUF
  <2>1. PICK u, ro, wo : Kept(u, ro, wo)
    BY <1>1, <1>6
  <2>2. \E v, w : u < v /\ Kept(v, ro, w)'
    <3>1. CASE SendNoSplit(n)
      BY <1>2, <2>1, <3>1, SendNoSplitStep
    <3>2. CASE SendAllowSplit(n)
      BY <1>2, <2>1, <3>2, SendAllowSplitStep
    <3>3. ~SendByteBuf(n)
      BY <1>6 DEF SendByteBuf
    <3> QED BY <1>2, <3>1, <3>2, <3>3
  <2>3. PICK v, w : u < v /\ Kept(v, ro, w)'
    BY <2>2
  <2>4. Items'
    BY <2>3, KeptItemsNext
  <2>5. Acquired(xSize, pucFree, pucAcquire, full, u) /\ pucAcquire + 8 <= xSize
    BY <2>1, KeptAcquired
  <2>6. Acquired(xSize', pucFree', pucAcquire', full', v)
    BY <2>3, KeptAcquiredNext
  <2>7. SenderWaits'
    BY <1>1, <1>2, <1>6, <2>3, <2>5, <2>6, SenderAfter
  <2>8. ReceiverWaits'
    BY <1>2 DEF ReceiverWaits
  <2> QED BY <1>2, <1>3, <1>6, <2>4, <2>7, <2>8, InvNext
<1> QED BY <1>4, <1>5, <1>6

LEMMA SendAcquireInv ==
  ASSUME RInv, NEW n \in Lens[type], SendAcquire(n)
  PROVE  RInv'
<1> DEFINE a == prvAcquireItemNoSplit(n)
<1>1. /\ Typed /\ Lens[type] \subseteq Nat /\ sender \in Nat \cup {NoWait}
      /\ fault = "none" => SenderWaits /\ ReceiverWaits
      /\ fault = "none" /\ type # BYTEBUF => \E u, ro, wo : Kept(u, ro, wo)
  BY InvFacts
<1>2. n \in Nat
  BY <1>1
<1>3. /\ type = NOSPLIT /\ n <= xMaxItemSize /\ xCheckItemFits(n)
      /\ mem' = a.mem /\ pucAcquire' = a.acq /\ full' = a.full
      /\ UNCHANGED <<type, xSize, pucWrite, pucRead, pucFree, xItemsWaiting, sent, got,
                      sender, receiver, fault>>
  BY DEF SendAcquire
<1>4. Typed'
  <2>1. full' \in BOOLEAN
    BY <1>3, PlacedBool
  <2>2. /\ sent' \in 0 .. Round - 1 /\ got' \in 0 .. Round - 1
        /\ receiver' \in BOOLEAN /\ sender' \in Lens[type] \cup {NoWait}
    BY <1>1, <1>3 DEF Typed
  <2> QED BY <1>1, <1>3, <2>1, <2>2, TypedNext
<1>5. CASE fault # "none"
  BY <1>3, <1>4, <1>5, FaultStays
<1>6. CASE fault = "none"
  <2>1. type # BYTEBUF
    BY <1>3 DEF NOSPLIT, BYTEBUF
  <2>2. PICK u, ro, wo : Kept(u, ro, wo)
    BY <1>1, <1>6, <2>1
  <2>3. PICK v : u < v /\ Kept(v, ro, wo)'
    BY <1>2, <2>2, SendAcquireStep
  <2>4. Items'
    BY <2>3, KeptItemsNext
  <2>5. Acquired(xSize, pucFree, pucAcquire, full, u) /\ pucAcquire + 8 <= xSize
    BY <2>2, KeptAcquired
  <2>6. Acquired(xSize', pucFree', pucAcquire', full', v)
    BY <2>3, KeptAcquiredNext
  <2>7. SenderWaits'
    BY <1>1, <1>3, <1>6, <2>3, <2>5, <2>6, SenderAfter
  <2>8. prvCheckItemAvail' => prvCheckItemAvail
    <3>1. PICK b : b = a
      OBVIOUS
    <3>2. PICK w : Placing(b, u, n, FALSE, w)
      BY <1>2, <1>3, <2>2, <3>1, AcquiredNoSplit DEF Kept
    <3>3. mem' = b.mem /\ full' = b.full
      BY <1>3, <3>1
    <3> QED BY <1>3, <2>2, <3>2, <3>3, AcquireAvail
  <2>9. ReceiverWaits'
    BY <1>1, <1>3, <1>6, <2>8 DEF ReceiverWaits
  <2> QED BY <1>3, <1>4, <1>6, <2>1, <2>4, <2>7, <2>9, InvNext
<1> QED BY <1>5, <1>6

LEMMA SendCompleteInv ==
  ASSUME RInv, NEW i \in DOMAIN q, SendComplete(i)
  PROVE  RInv'
<1>1. /\ Typed
      /\ fault = "none" => SenderWaits /\ ReceiverWaits
      /\ fault = "none" /\ type # BYTEBUF => \E u, ro, wo : Kept(u, ro, wo)
  BY InvFacts
<1>2. /\ type = NOSPLIT /\ receiver' = FALSE
      /\ UNCHANGED <<type, xSize, pucAcquire, pucRead, pucFree, full, sent, got, sender, fault>>
  BY DEF SendComplete, WakeReceiver
<1>3. Typed'
  <2>1. /\ sent' \in 0 .. Round - 1 /\ got' \in 0 .. Round - 1 /\ full' \in BOOLEAN
        /\ receiver' \in BOOLEAN /\ sender' \in Lens[type] \cup {NoWait}
    BY <1>1, <1>2 DEF Typed
  <2> QED BY <1>1, <1>2, <2>1, TypedNext
<1>4. CASE fault # "none"
  BY <1>2, <1>3, <1>4, FaultStays
<1>5. CASE fault = "none"
  <2>1. type # BYTEBUF
    BY <1>2 DEF NOSPLIT, BYTEBUF
  <2>2. PICK u, ro, wo : Kept(u, ro, wo)
    BY <1>1, <1>5, <2>1
  <2>3. PICK w : Kept(u, ro, w)'
    BY <2>2, SendCompleteStep
  <2>4. Items'
    BY <2>3, KeptItemsNext
  <2>5. SenderWaits'
    BY <1>1, <1>2, <1>5, SenderStill
  <2>6. ReceiverWaits'
    BY <1>2 DEF ReceiverWaits
  <2> QED BY <1>2, <1>3, <1>5, <2>1, <2>4, <2>5, <2>6, InvNext
<1> QED BY <1>4, <1>5

\* Nothing but the waiting tasks changes.
LEMMA WaitInv ==
  ASSUME RInv, UNCHANGED <<type, xSize, ptrs, xItemsWaiting, mem, q, sent, got, fault>>,
         receiver' \in BOOLEAN, sender' \in Lens[type] \cup {NoWait},
         fault = "none" =>
            /\ SenderWaits' /\ ReceiverWaits'
            /\ type = BYTEBUF /\ receiver' => q = <<>>
  PROVE  RInv'
<1>1. /\ Typed
      /\ fault = "none" /\ type # BYTEBUF => \E u, ro, wo : Kept(u, ro, wo)
      /\ fault = "none" /\ type = BYTEBUF => \E u, ro : BytesAt(u, ro)
  BY InvFacts
<1>2. UNCHANGED <<type, xSize, pucAcquire, pucWrite, pucRead, pucFree, full, xItemsWaiting,
                  mem, q, sent, got, fault>>
  BY DEF ptrs
<1>3. Typed'
  <2>1. sent' \in 0 .. Round - 1 /\ got' \in 0 .. Round - 1 /\ full' \in BOOLEAN
    BY <1>1, <1>2 DEF Typed
  <2> QED BY <1>1, <1>2, <2>1, TypedNext
<1>4. CASE fault # "none"
  BY <1>2, <1>3, <1>4, FaultStays
<1>5. CASE fault = "none" /\ type # BYTEBUF
  <2>1. PICK u, ro, wo : Kept(u, ro, wo)
    BY <1>1, <1>5
  <2>2. Kept(u, ro, wo)'
    BY <1>2, <2>1 DEF Kept, Buffer, Pointers
  <2>3. Items'
    BY <2>2, KeptItemsNext
  <2> QED BY <1>2, <1>3, <1>5, <2>3, InvNext
<1>6. CASE fault = "none" /\ type = BYTEBUF
  <2>1. PICK u, ro : BytesAt(u, ro)
    BY <1>1, <1>6
  <2>2. BytesAt(u, ro)'
    BY <1>2, <2>1 DEF BytesAt, Pos, Round
  <2>3. Bytes'
    BY <1>2, <1>6, <2>2, BytesNext
  <2> QED BY <1>2, <1>3, <1>6, <2>3, InvNext
<1> QED BY <1>4, <1>5, <1>6

LEMMA SendBlocksInv ==
  ASSUME RInv, NEW n \in Lens[type], SendBlocks(n)
  PROVE  RInv'
<1>1. /\ Typed
      /\ fault = "none" => SenderWaits /\ ReceiverWaits
      /\ fault = "none" /\ type = BYTEBUF => (receiver => q = <<>>)
  BY InvFacts
<1>2. /\ ~xCheckItemFits(n) /\ sender' = n
      /\ UNCHANGED <<type, xSize, ptrs, xItemsWaiting, mem, q, sent, got, receiver, fault>>
  BY DEF SendBlocks
<1>3. SenderWaits'
  <2>1. xCheckItemFits(n)' <=> xCheckItemFits(n)
    BY <1>2 DEF xCheckItemFits, prvCheckItemFitsDefault, prvCheckItemFitsByteBuffer, Free, Rest,
                ptrs
  <2>2. SenderWaits' <=> (n # NoWait => ~xCheckItemFits(n)')
    BY <1>2 DEF SenderWaits, xCheckItemFits, prvCheckItemFitsDefault, prvCheckItemFitsByteBuffer
  <2> QED BY <1>2, <2>1, <2>2
<1>4. fault = "none" => ReceiverWaits'
  BY <1>1, <1>2, ReceiverStill DEF ptrs
<1>5. receiver' \in BOOLEAN /\ sender' \in Lens[type] \cup {NoWait}
  BY <1>1, <1>2 DEF Typed
<1> QED BY <1>1, <1>2, <1>3, <1>4, <1>5, WaitInv

LEMMA TimesOutInv ==
  ASSUME RInv, SendTimesOut \/ ReceiveTimesOut
  PROVE  RInv'
<1>1. /\ Typed
      /\ fault = "none" => SenderWaits /\ ReceiverWaits
      /\ fault = "none" /\ type = BYTEBUF => (receiver => q = <<>>)
  BY InvFacts
<1>2. CASE SendTimesOut
  <2>1. /\ sender' = NoWait
        /\ UNCHANGED <<type, xSize, ptrs, xItemsWaiting, mem, q, sent, got, receiver, fault>>
    BY <1>2 DEF SendTimesOut
  <2>2. SenderWaits'
    BY <2>1 DEF SenderWaits
  <2>3. fault = "none" => ReceiverWaits'
    BY <1>1, <2>1, ReceiverStill DEF ptrs
  <2>4. receiver' \in BOOLEAN /\ sender' \in Lens[type] \cup {NoWait}
    BY <1>1, <2>1 DEF Typed
  <2> QED BY <1>1, <2>1, <2>2, <2>3, <2>4, WaitInv
<1>3. CASE ReceiveTimesOut
  <2>1. /\ receiver' = FALSE
        /\ UNCHANGED <<type, xSize, ptrs, xItemsWaiting, mem, q, sent, got, sender, fault>>
    BY <1>3 DEF ReceiveTimesOut
  <2>2. ReceiverWaits'
    BY <2>1 DEF ReceiverWaits
  <2>3. fault = "none" => SenderWaits'
    BY <1>1, <2>1, SenderStill DEF ptrs
  <2>4. receiver' \in BOOLEAN /\ sender' \in Lens[type] \cup {NoWait}
    BY <1>1, <2>1 DEF Typed
  <2> QED BY <1>1, <2>1, <2>2, <2>3, <2>4, WaitInv
<1> QED BY <1>2, <1>3

LEMMA ReceiveBlocksInv ==
  ASSUME RInv, ReceiveBlocks
  PROVE  RInv'
<1>1. /\ Typed
      /\ fault = "none" => SenderWaits /\ ReceiverWaits
  BY InvFacts
<1>2. /\ ~prvCheckItemAvail
      /\ type = BYTEBUF => q = <<>>
      /\ receiver' = TRUE
      /\ UNCHANGED <<type, xSize, ptrs, xItemsWaiting, mem, q, sent, got, sender, fault>>
  BY DEF ReceiveBlocks
<1>3. ReceiverWaits'
  BY <1>2 DEF ReceiverWaits, prvCheckItemAvail, ptrs
<1>4. fault = "none" => SenderWaits'
  BY <1>1, <1>2, SenderStill DEF ptrs
<1>5. receiver' \in BOOLEAN /\ sender' \in Lens[type] \cup {NoWait}
  BY <1>1, <1>2 DEF Typed
<1> QED BY <1>2, <1>3, <1>4, <1>5, WaitInv

LEMMA ReceiveInv ==
  ASSUME RInv, NEW max \in Nat, Receive(max)
  PROVE  RInv'
<1>1. /\ Typed
      /\ fault = "none" \/ (fault = "early" /\ type = NOSPLIT)
      /\ fault = "none" => SenderWaits /\ ReceiverWaits
      /\ fault = "none" /\ type # BYTEBUF => \E u, ro, wo : Kept(u, ro, wo)
      /\ fault = "none" /\ type = BYTEBUF => \E u, ro : BytesAt(u, ro)
  BY InvFacts
<1>2. /\ prvCheckItemAvail
      /\ ReceiveItem \/ ReceiveBytes(max)
      /\ UNCHANGED <<type, xSize, pucAcquire, pucWrite, pucFree, full, mem, sent, sender, receiver>>
  BY DEF Receive
<1>3. /\ sent' \in 0 .. Round - 1 /\ full' \in BOOLEAN
      /\ receiver' \in BOOLEAN /\ sender' \in Lens[type] \cup {NoWait} /\ got \in 0 .. Round - 1
  BY <1>1, <1>2 DEF Typed
<1>4. fault = "none" => SenderWaits' /\ ReceiverWaits'
  <2>1. ASSUME fault = "none" PROVE SenderWaits'
    BY <1>1, <1>2, <2>1, SenderStill
  <2>2. ASSUME fault = "none" PROVE ReceiverWaits'
    BY <1>1, <1>2, <2>2 DEF ReceiverWaits
  <2> QED BY <2>1, <2>2
<1>5. CASE type # BYTEBUF
  <2>1. ReceiveItem /\ got' = got
    BY <1>2, <1>5 DEF ReceiveBytes, ReceiveItem
  <2>2. Typed'
    BY <1>1, <1>2, <1>3, <2>1, TypedNext
  <2>3. CASE fault # "none"
    <3>1. fault' = fault
      BY <2>1, <2>3 DEF ReceiveItem, Judge
    <3> QED BY <1>2, <2>2, <2>3, <3>1, FaultStays
  <2>4. CASE fault = "none"
    <3>1. PICK u, ro, wo : Kept(u, ro, wo)
      BY <1>1, <1>5, <2>4
    <3>2. /\ fault' = "none" \/ (fault' = "early" /\ type = NOSPLIT)
          /\ fault' = "none" => \E r1 : Kept(u, r1, wo)'
      BY <1>2, <2>1, <2>4, <3>1, ReceiveStep
    <3>3. fault' = "none" => Items'
      BY <3>2, KeptItemsNext
    <3> QED BY <1>2, <1>4, <1>5, <2>2, <2>4, <3>2, <3>3, InvNext
  <2> QED BY <2>3, <2>4
<1>6. CASE type = BYTEBUF
  <2>1. ReceiveBytes(max) /\ fault = "none"
    BY <1>1, <1>2, <1>6 DEF ReceiveItem, NOSPLIT, BYTEBUF
  <2>2. PICK u, ro : BytesAt(u, ro)
    BY <1>1, <1>6, <2>1
  <2>3. fault' = fault /\ \E k : BytesAt(u, k)'
    BY <1>2, <2>1, <2>2, ReceiveBytesStep
  <2>4. PICK k : BytesAt(u, k)'
    BY <2>3
  <2>5. got' \in 0 .. Round - 1
    BY <1>2, <2>4 DEF BytesAt, Round
  <2>6. Typed'
    BY <1>1, <1>2, <1>3, <2>5, TypedNext
  <2>7. ~receiver'
    BY <1>1, <1>2, <2>1 DEF ReceiverWaits
  <2>8. Bytes'
    BY <2>4, <2>7, BytesNext
  <2> QED BY <1>2, <1>4, <1>6, <2>1, <2>3, <2>6, <2>8, InvNext
<1> QED BY <1>5, <1>6

LEMMA ReturnInv ==
  ASSUME RInv, NEW i \in DOMAIN q, NEW k \in DOMAIN q[i].at, ReturnItem(i, k)
  PROVE  RInv'
<1>1. /\ Typed /\ Junk \subseteq HeaderSet
      /\ fault = "none" => SenderWaits /\ ReceiverWaits
      /\ fault = "none" \/ (fault = "early" /\ type = NOSPLIT)
      /\ fault = "none" /\ type # BYTEBUF => \E u, ro, wo : Kept(u, ro, wo)
      /\ fault = "none" /\ type = BYTEBUF =>
            (receiver => q = <<>>) /\ \E u, ro : BytesAt(u, ro)
  BY InvFacts
<1>2. /\ sender' = NoWait
      /\ UNCHANGED <<type, xSize, pucAcquire, pucWrite, pucRead, xItemsWaiting, sent, got,
                     receiver, fault>>
  BY DEF ReturnItem, WakeSender
<1>3. Typed'
  <2>1. full' \in BOOLEAN
    <3>1. CASE type = BYTEBUF
      BY <3>1 DEF ReturnItem
    <3>2. CASE type # BYTEBUF
      <4>1. PICK junk \in Junk : full' = prvReturnItemDefault(q[i].at[k], junk).full
        BY <3>2 DEF ReturnItem
      <4>2. prvReturnItemDefault(q[i].at[k], junk).full \in BOOLEAN
        BY DEF prvReturnItemDefault
      <4> QED BY <4>1, <4>2
    <3> QED BY <3>1, <3>2
  <2>2. /\ sent' \in 0 .. Round - 1 /\ got' \in 0 .. Round - 1
        /\ receiver' \in BOOLEAN /\ sender' \in Lens[type] \cup {NoWait}
    BY <1>1, <1>2 DEF Typed
  <2> QED BY <1>1, <1>2, <2>1, <2>2, TypedNext
<1>4. SenderWaits'
  BY <1>2 DEF SenderWaits
<1>5. CASE fault # "none"
  BY <1>2, <1>3, <1>5, FaultStays
<1>6. CASE fault = "none" /\ type # BYTEBUF
  <2>1. PICK u, ro, wo : Kept(u, ro, wo)
    BY <1>1, <1>6
  <2>2. /\ \E d \in 0 .. ro : Kept(u - d, ro - d, wo - d)'
        /\ prvCheckItemAvail' => prvCheckItemAvail
    BY <1>1, <2>1, ReturnStep
  <2>3. Items'
    <3>1. PICK d \in 0 .. ro : Kept(u - d, ro - d, wo - d)'
      BY <2>2
    <3>2. PICK v, r, w : v = u - d /\ r = ro - d /\ w = wo - d
      OBVIOUS
    <3>3. Kept(v, r, w)'
      BY <3>1, <3>2
    <3> QED BY <3>3, KeptItemsNext
  <2>4. ReceiverWaits'
    BY <1>1, <1>2, <1>6, <2>2 DEF ReceiverWaits
  <2> QED BY <1>2, <1>3, <1>4, <1>6, <2>3, <2>4, InvNext
<1>7. CASE fault = "none" /\ type = BYTEBUF
  <2>1. PICK u, ro : BytesAt(u, ro)
    BY <1>1, <1>7
  <2>2. BytesAt(u - ro, 0)' /\ q # <<>>
    BY <2>1, ReturnBytesStep
  <2>3. ~receiver'
    BY <1>1, <1>2, <1>7, <2>2
  <2>4. PICK v : v = u - ro
    OBVIOUS
  <2>5. BytesAt(v, 0)'
    BY <2>2, <2>4
  <2>6. Bytes'
    BY <2>3, <2>5, BytesNext
  <2>7. ReceiverWaits'
    BY <2>3 DEF ReceiverWaits
  <2> QED BY <1>2, <1>3, <1>4, <1>7, <2>6, <2>7, InvNext
<1> QED BY <1>1, <1>5, <1>6, <1>7

LEMMA RInvNext == RInv /\ [Next]_vars => RInv'
<1> SUFFICES ASSUME RInv, [Next]_vars PROVE RInv'
  OBVIOUS
<1>1. Lens[type] \subseteq Nat
  BY InvFacts
<1>2. ASSUME NEW n \in Lens[type], Send(n) PROVE RInv'
  BY <1>2, SendInv
<1>3. ASSUME NEW n \in Lens[type], SendAcquire(n) PROVE RInv'
  BY <1>3, SendAcquireInv
<1>4. ASSUME NEW n \in Lens[type], SendBlocks(n) PROVE RInv'
  BY <1>4, SendBlocksInv
<1>5. ASSUME NEW n \in Nat, Receive(n) PROVE RInv'
  BY <1>5, ReceiveInv
<1>6. ASSUME NEW i \in DOMAIN q, SendComplete(i) PROVE RInv'
  BY <1>6, SendCompleteInv
<1>7. CASE SendTimesOut \/ ReceiveTimesOut
  BY <1>7, TimesOutInv
<1>8. CASE ReceiveBlocks
  BY <1>8, ReceiveBlocksInv
<1>9. ASSUME NEW i \in DOMAIN q, NEW k \in DOMAIN q[i].at, ReturnItem(i, k) PROVE RInv'
  BY <1>9, ReturnInv
<1>10. CASE UNCHANGED vars
  <2>1. /\ UNCHANGED <<type, xSize, ptrs, xItemsWaiting, mem, q, sent, got, fault>>
        /\ sender' = sender /\ receiver' = receiver
    BY <1>10 DEF vars
  <2>2. /\ Typed
        /\ fault = "none" => SenderWaits /\ ReceiverWaits
        /\ fault = "none" /\ type = BYTEBUF => (receiver => q = <<>>)
    BY InvFacts
  <2>3. receiver' \in BOOLEAN /\ sender' \in Lens[type] \cup {NoWait}
    BY <2>1, <2>2 DEF Typed
  <2>4. fault = "none" => SenderWaits'
    BY <2>1, <2>2, SenderStill DEF ptrs
  <2>5. fault = "none" => ReceiverWaits'
    BY <2>1, <2>2, ReceiverStill DEF ptrs
  <2> QED BY <2>1, <2>2, <2>3, <2>4, <2>5, WaitInv
<1>11. CASE Next
  <2>1. 0 \in Nat
    OBVIOUS
  <2> QED BY <1>1, <1>2, <1>3, <1>4, <1>5, <1>6, <1>7, <1>8, <1>9, <1>11, <2>1, Zenon DEF Next
<1> QED BY <1>10, <1>11

\* Whatever is sent, completed, retrieved and returned, in whatever order, the
\* buffer is laid out as RInv says until an item is handed out before it was
\* completed, which happens to no-split buffers only.
THEOREM Invariant == Spec => []RInv
<1>1. Init => RInv
  BY RInvInit
<1>2. RInv /\ [Next]_vars => RInv'
  BY RInvNext
<1> QED BY <1>1, <1>2, PTL DEF Spec
-----------------------------------------------------------------------------
(***************************************************************************)
(* What it implies.                                                        *)
(***************************************************************************)
\* Two items share no byte.
LEMMA Apart ==
  ASSUME NEW S, NEW F, NEW h, NEW u, Layout(S, F, h, u),
         NEW p \in DOMAIN h, NEW r \in DOMAIN h, ~IsDummy(h, p), ~IsDummy(h, r),
         Off(S, F, p) < Off(S, F, r)
  PROVE  (p .. End(p, h[p].xItemLen) - 1) \cap (r .. End(r, h[r].xItemLen) - 1) = {}
<1>1. Room(S) /\ Fits(S, F) /\ S \in Nat /\ F \in 0 .. S - 1
  BY DEF Layout, Room, Fits, rbHEADER_SIZE
<1> DEFINE Lies(x) == /\ x \in 0 .. S - 1
                      /\ End(x, h[x].xItemLen) \in Nat /\ End(x, h[x].xItemLen) <= S
                      /\ Off(S, F, x) + (End(x, h[x].xItemLen) - x) <= Reach(S, F, h, x)
                      /\ x >= F \/ End(x, h[x].xItemLen) <= F
<1>2. ASSUME NEW x \in DOMAIN h, ~IsDummy(h, x) PROVE Lies(x)
  <2>1. Fits(S, x) /\ h[x].xItemLen \in Nat /\ End(x, h[x].xItemLen) <= S
    BY <1>2 DEF Layout, Headers, HeaderSet
  <2>2. x \in 0 .. S - 1 /\ Off(S, F, x) < Reach(S, F, h, x)
    <3>1. /\ x \in 0 .. S - 1 /\ Off(S, F, x) \in 0 .. S - 1
          /\ Reach(S, F, h, x) \in 0 .. u /\ Off(S, F, x) + 8 <= Reach(S, F, h, x)
      BY Laying
    <3>2. u \in Nat
      BY <1>1 DEF Layout
    <3> QED BY <3>1, <3>2
  <2>3. End(x, h[x].xItemLen) \in Nat
    <3>1. rbALIGN_SIZE(h[x].xItemLen) \in Nat
      BY <2>1, Aligned
    <3> QED BY <2>2, <3>1 DEF End, rbHEADER_SIZE
  <2>4. /\ Off(S, F, x) + (End(x, h[x].xItemLen) - x) <= Reach(S, F, h, x)
        /\ x >= F \/ End(x, h[x].xItemLen) <= F
    BY <1>1, <1>2, <2>1, <2>2, Slot
  <2> QED BY <2>1, <2>2, <2>3, <2>4
<1>3. Lies(p) /\ Lies(r)
  BY <1>2
<1>4. Off(S, F, r) >= Reach(S, F, h, p)
  <2>1. Off(S, F, r) <= Off(S, F, p) \/ Off(S, F, r) >= Reach(S, F, h, p)
    BY Laying
  <2>2. Off(S, F, r) \in Int /\ Off(S, F, p) \in Int
    BY <1>1, <1>3 DEF Off
  <2> QED BY <2>1, <2>2
<1>5. Reach(S, F, h, p) \in Int /\ Reach(S, F, h, r) \in Int
  <2>1. u \in Nat
    BY <1>1 DEF Layout
  <2>2. Reach(S, F, h, p) \in 0 .. u /\ Reach(S, F, h, r) \in 0 .. u
    BY Laying
  <2> QED BY <2>1, <2>2
<1>6. PICK a, b, d : a = End(p, h[p].xItemLen) /\ b = End(r, h[r].xItemLen)
                     /\ d = Reach(S, F, h, p)
  OBVIOUS
<1>7. ASSUME NEW x \in Int, p <= x, x <= a - 1, r <= x, x <= b - 1 PROVE FALSE
  BY <1>1, <1>3, <1>4, <1>5, <1>6, <1>7 DEF Off
<1>8. a \in Nat /\ b \in Nat /\ p \in Nat /\ r \in Nat
  BY <1>1, <1>3, <1>6
<1> QED BY <1>6, <1>7, <1>8

\* A header fits where a header or the end of what is in use is.
LEMMA EdgeFits ==
  ASSUME NEW S, NEW F, NEW h, NEW u, Layout(S, F, h, u), NEW A, Fits(S, A), IsAt(S, F, A, u),
         NEW d, Edge(S, F, h, u, d), NEW x, IsAt(S, F, x, d)
  PROVE  Fits(S, x)
<1>1. S \in Nat /\ F \in 0 .. S - 1 /\ u \in 0 .. S /\ d \in 0 .. u
  BY LayoutType DEF Edge
<1>2. CASE d = u
  <2>1. x = A
    BY <1>1, <1>2, OneAddress
  <2> QED BY <2>1
<1>3. CASE d # u
  <2>1. d < u
    BY <1>1, <1>3
  <2>2. x \in DOMAIN h
    BY <2>1, HeaderAt
  <2> QED BY <2>2, Laying
<1> QED BY <1>2, <1>3

LEMMA FitsWrap ==
  ASSUME NEW p, xSize \in Nat, Fits(xSize, p)
  PROVE  p \in Pos /\ Wrap(p) = p
BY DEF Fits, Pos, Wrap, rbHEADER_SIZE

LEMMA InvTypeOK ==
  ASSUME RInv, fault = "none"
  PROVE  TypeOK
<1>1. /\ Typed /\ xSize \in Nat /\ xSize > 0
      /\ type # BYTEBUF => \E u, ro, wo : Kept(u, ro, wo)
      /\ type = BYTEBUF => \E u, ro : BytesAt(u, ro)
  BY InvFacts
<1>2. CASE type # BYTEBUF
  <2>1. PICK u, ro, wo : Kept(u, ro, wo)
    BY <1>1, <1>2
  <2>2. /\ Layout(xSize, pucFree, mem, u) /\ Pointers(u, ro, wo)
        /\ Good(type, xSize, pucFree, mem, q, u, ro, wo)
        /\ xItemsWaiting = Cardinality(Waiting(type, xSize, pucFree, mem, ro))
    BY <2>1, KeptFacts
  <2>3. Edge(xSize, pucFree, mem, u, ro) /\ Edge(xSize, pucFree, mem, u, wo)
    BY <2>2 DEF Good, WrittenTo
  <2>4. Fits(xSize, pucAcquire) /\ Fits(xSize, pucFree)
    BY <2>2 DEF Pointers, Layout
  <2>5. Fits(xSize, pucRead) /\ Fits(xSize, pucWrite)
    BY <2>2, <2>3, <2>4, EdgeFits DEF Pointers
  <2>6. /\ {pucAcquire, pucWrite, pucRead, pucFree} \subseteq Pos
        /\ \A p \in {pucAcquire, pucWrite, pucRead, pucFree} : Wrap(p) = p
    <3>1. \A p : Fits(xSize, p) => p \in Pos /\ Wrap(p) = p
      BY <1>1, FitsWrap
    <3> QED BY <2>4, <2>5, <3>1
  <2>7. xItemsWaiting \in 0 .. xSize
    BY <2>2, CountWaiting
  <2>8. \A p \in DOMAIN mem : mem[p].uxItemFlags \subseteq Flag
    BY <2>2 DEF Layout, Headers, HeaderSet
  <2>9. fault \in {"none", "early", "wrong"}
    OBVIOUS
  <2> QED BY <1>1, <2>6, <2>7, <2>8, <2>9 DEF TypeOK, Typed
<1>3. CASE type = BYTEBUF
  <2>1. PICK u, ro : BytesAt(u, ro)
    BY <1>1, <1>3
  <2>2. {pucAcquire, pucWrite, pucRead, pucFree} \subseteq Pos
    BY <2>1 DEF BytesAt, Acquired, IsAt, Pos
  <2>3. xItemsWaiting \in 0 .. xSize
    <3>1. u \in 0 .. xSize /\ ro \in 0 .. u /\ xItemsWaiting = u - ro
      BY <2>1 DEF BytesAt, Acquired
    <3> QED BY <1>1, <3>1
  <2>4. fault \in {"none", "early", "wrong"}
    OBVIOUS
  <2> QED BY <1>1, <1>3, <2>2, <2>3, <2>4 DEF TypeOK, Typed
<1> QED BY <1>2, <1>3

LEMMA InvDisjoint ==
  ASSUME RInv, fault = "none"
  PROVE  Disjoint
<1>1. TypeOK
  BY InvTypeOK
<1>2. ASSUME type # BYTEBUF, NEW x \in Held
      PROVE  /\ At(x) \in DOMAIN mem /\ Region(At(x)) \subseteq Pos
             /\ ~Marked(mem, At(x), "DUMMY") /\ ~Marked(mem, At(x), "FREE")
             /\ type = NOSPLIT => (Marked(mem, At(x), "WRITTEN") <=> q[x[1]].done)
             /\ \A y \in Held : x # y => Region(At(x)) \cap Region(At(y)) = {}
  <2>1. PICK u, ro, wo : Kept(u, ro, wo)
    BY <1>2, InvFacts
  <2>2. /\ Layout(xSize, pucFree, mem, u) /\ xSize \in Nat /\ pucFree \in 0 .. xSize - 1
        /\ Good(type, xSize, pucFree, mem, q, u, ro, wo) /\ q \in Seq(Entry)
    BY <2>1, KeptFacts
  <2>3. ASSUME NEW y \in Held
        PROVE  /\ y[1] \in 1 .. Len(q) /\ y[2] \in 1 .. Len(q[y[1]].at)
               /\ y = <<y[1], y[2]>>
    <3>1. PICK i \in DOMAIN q, k \in 1 .. 2 : y = <<i, k>> /\ k \in DOMAIN q[i].at
      BY DEF Held
    <3>2. y[1] = i /\ y[2] = k /\ y = <<y[1], y[2]>>
      BY <3>1
    <3>3. i \in 1 .. Len(q)
      BY <2>2
    <3>4. q[i].at \in Seq(Nat)
      BY <2>2, <3>3, PartFacts
    <3>5. k \in 1 .. Len(q[i].at)
      BY <3>1, <3>4
    <3> QED BY <3>2, <3>3, <3>5
  <2>4. ASSUME NEW y \in Held
        PROVE  /\ At(y) \in DOMAIN mem /\ "DUMMY" \notin Flags(mem, At(y))
               /\ "FREE" \notin Flags(mem, At(y))
               /\ type = NOSPLIT => (q[y[1]].done <=> "WRITTEN" \in Flags(mem, At(y)))
    <3>1. y[1] \in 1 .. Len(q) /\ y[2] \in 1 .. Len(q[y[1]].at)
      BY <2>3
    <3>2. PICK i, k : i = y[1] /\ k = y[2]
      OBVIOUS
    <3>3. i \in 1 .. Len(q) /\ k \in 1 .. Len(q[i].at) /\ At(y) = q[i].at[k]
      BY <3>1, <3>2 DEF At
    <3>4. /\ q[i].at[k] \in DOMAIN mem
          /\ "DUMMY" \notin Flags(mem, q[i].at[k]) /\ "FREE" \notin Flags(mem, q[i].at[k])
          /\ type = NOSPLIT => (q[i].done <=> "WRITTEN" \in Flags(mem, q[i].at[k]))
      BY <2>2, <3>3, PartFacts
    <3> HIDE DEF At
    <3> QED BY <3>2, <3>3, <3>4, Zenon
  <2>5. \A y \in Held : Region(At(y)) = At(y) .. End(At(y), mem[At(y)].xItemLen) - 1
    BY <2>4 DEF Region, Header
  <2>6. Region(At(x)) \subseteq Pos
    <3>1. /\ End(At(x), mem[At(x)].xItemLen) <= xSize /\ At(x) \in Nat
          /\ mem[At(x)].xItemLen \in Nat
      BY <2>2, <2>4 DEF Layout, Headers, HeaderSet, IsDummy, Fits
    <3>2. End(At(x), mem[At(x)].xItemLen) \in Nat
      <4>1. rbALIGN_SIZE(mem[At(x)].xItemLen) \in Nat
        BY <3>1, Aligned
      <4> QED BY <3>1, <4>1 DEF End, rbHEADER_SIZE
    <3>3. PICK b, e : b = At(x) /\ e = End(At(x), mem[At(x)].xItemLen)
      OBVIOUS
    <3>4. Region(At(x)) = b .. e - 1 /\ b \in Nat /\ e \in Nat /\ e <= xSize
      BY <2>5, <3>1, <3>2, <3>3
    <3>5. b .. e - 1 \subseteq 0 .. xSize - 1
      BY <2>2, <3>4
    <3> QED BY <3>4, <3>5 DEF Pos
  <2>7. ASSUME NEW y \in Held, x # y PROVE Region(At(x)) \cap Region(At(y)) = {}
    <3>1. At(x) # At(y)
      <4>1. /\ x[1] \in 1 .. Len(q) /\ x[2] \in 1 .. Len(q[x[1]].at) /\ x = <<x[1], x[2]>>
            /\ y[1] \in 1 .. Len(q) /\ y[2] \in 1 .. Len(q[y[1]].at) /\ y = <<y[1], y[2]>>
        BY <2>3
      <4>2. x[1] # y[1] \/ x[2] # y[2]
        BY <2>7, <4>1
      <4> QED BY <2>2, <4>1, <4>2, PartsDiffer, SMTT(30) DEF At
    <3>2. /\ At(x) \in DOMAIN mem /\ ~IsDummy(mem, At(x))
          /\ At(y) \in DOMAIN mem /\ ~IsDummy(mem, At(y))
      BY <2>4 DEF IsDummy
    <3>3. /\ At(x) \in 0 .. xSize - 1 /\ At(y) \in 0 .. xSize - 1
          /\ Off(xSize, pucFree, At(x)) \in 0 .. xSize - 1
          /\ Off(xSize, pucFree, At(y)) \in 0 .. xSize - 1
      BY <2>2, <3>2, Laying
    <3>4. Off(xSize, pucFree, At(x)) # Off(xSize, pucFree, At(y))
      BY <2>2, <3>1, <3>3, SameDistance
    <3>5. \/ Off(xSize, pucFree, At(x)) < Off(xSize, pucFree, At(y))
          \/ Off(xSize, pucFree, At(y)) < Off(xSize, pucFree, At(x))
      BY <2>2, <3>3, <3>4
    <3>6. ASSUME NEW v, NEW w, v \in DOMAIN mem, w \in DOMAIN mem,
                 ~IsDummy(mem, v), ~IsDummy(mem, w),
                 Off(xSize, pucFree, v) < Off(xSize, pucFree, w)
          PROVE  (v .. End(v, mem[v].xItemLen) - 1) \cap (w .. End(w, mem[w].xItemLen) - 1) = {}
      BY <2>2, <3>6, Apart
    <3>7. CASE Off(xSize, pucFree, At(x)) < Off(xSize, pucFree, At(y))
      BY <2>5, <3>2, <3>6, <3>7
    <3>8. CASE Off(xSize, pucFree, At(y)) < Off(xSize, pucFree, At(x))
      BY <2>5, <3>2, <3>6, <3>8
    <3> QED BY <3>5, <3>7, <3>8
  <2>8. /\ ~Marked(mem, At(x), "DUMMY") /\ ~Marked(mem, At(x), "FREE")
        /\ type = NOSPLIT => (Marked(mem, At(x), "WRITTEN") <=> q[x[1]].done)
    BY <2>4 DEF Marked, Header, Flags
  <2> QED BY <2>4, <2>6, <2>7, <2>8
<1> QED BY <1>1, <1>2 DEF Disjoint

LEMMA InvDelivered ==
  ASSUME RInv
  PROVE  Delivered
<1>1. SUFFICES ASSUME type # BYTEBUF, fault = "none", NEW i \in DOMAIN q,
                      ~q[i].taken, q[i].done, \A j \in 1 .. i - 1 : q[j].taken
               PROVE  prvCheckItemAvail
  BY DEF Delivered
<1>2. PICK u, ro, wo : Kept(u, ro, wo)
  BY <1>1, InvFacts
<1> DEFINE S == xSize
           F == pucFree
           p == q[i].at[1]
<1>3. /\ Layout(S, F, mem, u) /\ S \in Nat /\ F \in 0 .. S - 1
      /\ type \in {NOSPLIT, ALLOWSPLIT}
      /\ Good(type, S, F, mem, q, u, ro, wo) /\ q \in Seq(Entry)
      /\ u \in 0 .. S /\ ro \in 0 .. u /\ wo \in 0 .. u /\ ro <= wo
      /\ xItemsWaiting = Cardinality(Waiting(type, S, F, mem, ro))
      /\ Pointers(u, ro, wo)
  BY <1>2, KeptFacts
<1>4. /\ IsAt(S, F, pucRead, ro) /\ IsAt(S, F, pucWrite, wo)
      /\ full <=> u = S
  BY <1>3 DEF Pointers
<1>5. i \in 1 .. Len(q) /\ FirstNew(q, i)
  <2>1. i \in 1 .. Len(q) /\ Len(q) \in Nat
    BY <1>3
  <2>2. \A j \in 1 .. Len(q) : j < i => j \in 1 .. i - 1
    BY <2>1
  <2> QED BY <1>1, <2>1, <2>2 DEF FirstNew
<1>6. /\ p \in DOMAIN mem /\ "DUMMY" \notin Flags(mem, p)
      /\ ~(Off(S, F, p) < ro)
      /\ type = NOSPLIT => "WRITTEN" \in Flags(mem, p)
  BY <1>1, <1>3, <1>5, PartFacts
<1> HIDE DEF p
<1>7. Off(S, F, p) \in 0 .. S - 1 /\ Off(S, F, p) < u /\ Off(S, F, p) >= ro
  <2>1. Off(S, F, p) \in 0 .. S - 1
    BY <1>3, <1>6, Laying
  <2>2. Off(S, F, p) < u
    BY <1>3, <1>6, InUse
  <2> QED BY <1>3, <1>6, <2>1, <2>2
<1>8. xItemsWaiting > 0
  <2>1. p \in Waiting(type, S, F, mem, ro)
    BY <1>6, <1>7 DEF Waiting
  <2>2. /\ Cardinality(Waiting(type, S, F, mem, ro)) \in 0 .. S
        /\ Cardinality(Waiting(type, S, F, mem, ro)) # 0
    BY <1>3, <2>1, CountWaiting
  <2> QED BY <1>3, <2>2
<1>9. ro < wo
  <2>1. CASE type = ALLOWSPLIT
    <3>1. wo = u
      BY <1>3, <2>1 DEF Good, WrittenTo
    <3> QED BY <1>3, <1>7, <3>1
  <2>2. CASE type = NOSPLIT
    <3>1. Reach(S, F, mem, p) <= wo
      BY <1>1, <1>3, <1>5, <2>2, FirstWritten DEF p
    <3>2. Reach(S, F, mem, p) \in 0 .. u /\ Off(S, F, p) + 8 <= Reach(S, F, mem, p)
      BY <1>3, <1>6, Laying
    <3> QED BY <1>3, <1>7, <3>1, <3>2
  <2> QED BY <1>3, <2>1, <2>2
<1>10. pucRead # pucWrite \/ full
  <2>1. ASSUME pucRead = pucWrite PROVE wo = S
    BY <1>3, <1>4, <1>9, <2>1 DEF IsAt, Off
  <2> QED BY <1>3, <1>4, <2>1
<1>11. ASSUME type = NOSPLIT PROVE Marked(mem, pucRead, "WRITTEN")
  <2>1. Edge(S, F, mem, u, ro) /\ WrittenTo(NOSPLIT, S, F, mem, u, wo)
    BY <1>3, <1>11 DEF Good
  <2>2. ro < u
    BY <1>3, <1>9
  <2>3. pucRead \in DOMAIN mem /\ Off(S, F, pucRead) = ro
    BY <1>3, <1>4, <2>1, <2>2, HeaderAt
  <2>4. "WRITTEN" \in Flags(mem, pucRead)
    BY <1>9, <2>1, <2>3 DEF WrittenTo
  <2> QED BY <2>3, <2>4 DEF Marked, Header, Flags
<1> QED BY <1>1, <1>8, <1>10, <1>11 DEF prvCheckItemAvail

LEMMA Quads ==
  ASSUME NEW n \in Nat
  PROVE  /\ n % 4 = 0 => \E a \in Nat : n = 4 * a
         /\ \E b \in Nat : rbALIGN_SIZE(n) = 4 * b /\ n <= 4 * b /\ 4 * b < n + 4
<1>1. ASSUME n % 4 = 0 PROVE \E a \in Nat : n = 4 * a
  <2>1. n \div 4 \in Nat /\ n = 4 * (n \div 4)
    BY <1>1
  <2> QED BY <2>1
<1>2. \E b \in Nat : rbALIGN_SIZE(n) = 4 * b /\ n <= 4 * b /\ 4 * b < n + 4
  <2>1. (n + 3) \div 4 \in Nat
    OBVIOUS
  <2>2. rbALIGN_SIZE(n) = 4 * ((n + 3) \div 4)
    BY DEF rbALIGN_SIZE
  <2>3. n <= rbALIGN_SIZE(n) /\ rbALIGN_SIZE(n) < n + 4
    BY Aligned
  <2> QED BY <2>1, <2>2, <2>3
<1> QED BY <1>1, <1>2

\* Everything has been returned: nothing is in use.
LEMMA AllReturned ==
  ASSUME RInv, fault = "none", q = <<>>, xItemsWaiting = 0
  PROVE  ~full /\ pucFree = pucAcquire
<1>1. CASE type = BYTEBUF
  <2>1. PICK u, ro : BytesAt(u, ro)
    BY <1>1, InvFacts
  <2>2. xSize \in Nat /\ xSize > 0
    BY InvFacts
  <2>3. ro = 0 /\ xItemsWaiting = u - ro /\ Acquired(xSize, pucFree, pucAcquire, full, u)
    BY <2>1 DEF BytesAt
  <2>4. /\ pucFree \in 0 .. xSize - 1 /\ pucAcquire \in 0 .. xSize - 1 /\ u \in 0 .. xSize
        /\ IsAt(xSize, pucFree, pucAcquire, u)
        /\ full <=> u = xSize
    BY <2>3 DEF Acquired
  <2>5. u = 0
    BY <2>2, <2>3, <2>4
  <2> QED BY <2>2, <2>4, <2>5 DEF IsAt, Off
<1>2. CASE type # BYTEBUF
  <2>1. PICK u, ro, wo : Kept(u, ro, wo)
    BY <1>2, InvFacts
  <2>2. xSize \in Nat /\ xSize > 0
    BY InvFacts
  <2>3. /\ Layout(xSize, pucFree, mem, u) /\ Dummies(pucFree, mem)
        /\ Good(type, xSize, pucFree, mem, q, u, ro, wo)
        /\ Acquired(xSize, pucFree, pucAcquire, full, u)
    BY <2>1, KeptFacts, KeptAcquired
  <2>4. \A p \in DOMAIN mem : "DUMMY" \in Flags(mem, p) \/ "FREE" \in Flags(mem, p)
    <3>1. Len(q) = 0 /\ Owned(xSize, pucFree, mem, q, ro)
      BY <2>3 DEF Good
    <3> QED BY <3>1 DEF Owned
  <2>5. u = 0
    <3>1. SUFFICES ASSUME u # 0 PROVE FALSE
      OBVIOUS
    <3>2. pucFree \in DOMAIN mem
      BY <2>2, <2>3, <3>1 DEF Layout, Laid
    <3>3. "FREE" \notin Flags(mem, pucFree)
      BY <2>3, <3>2 DEF Good, Freed
    <3>4. IsDummy(mem, pucFree)
      BY <2>4, <3>2, <3>3 DEF IsDummy
    <3>5. 0 \in DOMAIN mem /\ ~IsDummy(mem, 0)
      BY <2>3, <3>2, <3>4 DEF Dummies
    <3>6. "FREE" \in Flags(mem, 0)
      BY <2>4, <3>5 DEF IsDummy
    <3> QED BY <2>3, <3>2, <3>4, <3>5, <3>6 DEF Good, Freed
  <2>6. /\ pucFree \in 0 .. xSize - 1 /\ pucAcquire \in 0 .. xSize - 1
        /\ IsAt(xSize, pucFree, pucAcquire, u)
        /\ full <=> u = xSize
    BY <2>3 DEF Acquired
  <2> QED BY <2>2, <2>5, <2>6 DEF IsAt, Off
<1> QED BY <1>1, <1>2

\* xCheckItemFits and xRingbufferGetCurFreeSize, in units of the alignment.
LEMMA NoSplitSpace ==
  ASSUME type = NOSPLIT, NEW a \in Nat, NEW f \in Nat, NEW s \in Nat,
         pucAcquire = 4 * a, pucFree = 4 * f, xSize = 4 * s, a + 2 <= s, f + 2 <= s, s >= 4,
         full => a = f
  PROVE  LET c == xRingbufferGetCurFreeSize IN
         /\ c > 0 => xCheckItemFits(c)
         /\ \A n \in c + 1 .. xMaxItemSize : ~xCheckItemFits(n)
<1>1. PICK e \in Nat : xMaxItemSize = 4 * e - 8 /\ 2 * s <= 4 * e /\ 4 * e < 2 * s + 4
  <2>1. xSize \div 2 = 2 * s /\ 2 * s \in Nat
    OBVIOUS
  <2>2. PICK e \in Nat : rbALIGN_SIZE(2 * s) = 4 * e /\ 2 * s <= 4 * e /\ 4 * e < 2 * s + 4
    BY <2>1, Quads
  <2> QED BY <2>1, <2>2 DEF xMaxItemSize, rbHEADER_SIZE
<1> DEFINE X == (IF f > a THEN 4 * f - 4 * a ELSE IF s - a > f THEN 4 * s - 4 * a ELSE 4 * f) - 8
           m == 4 * e - 8
           C == IF full THEN 0 ELSE IF X < 0 THEN 0 ELSE IF X > m THEN m ELSE X
<1>2. xRingbufferGetCurFreeSize = C
  BY <1>1 DEF xRingbufferGetCurFreeSize, prvGetCurMaxSizeNoSplit, Clip, Free, Rest, rbHEADER_SIZE
<1>3. ASSUME NEW n \in Nat
      PROVE  \E b \in Nat :
               /\ n <= 4 * b /\ 4 * b < n + 4
               /\ xCheckItemFits(n) <=>
                     IF a = f THEN ~full
                     ELSE IF f > a THEN 4 * b + 8 <= 4 * f - 4 * a
                     ELSE 4 * b + 8 <= 4 * s - 4 * a \/ 4 * b + 8 <= 4 * f
  <2>1. PICK b \in Nat : rbALIGN_SIZE(n) = 4 * b /\ n <= 4 * b /\ 4 * b < n + 4
    BY Quads
  <2>2. xCheckItemFits(n) <=> prvCheckItemFitsDefault(n)
    BY DEF xCheckItemFits, NOSPLIT, BYTEBUF
  <2>3. prvCheckItemFitsDefault(n) <=>
          IF Free = 0 THEN ~full
          ELSE IF Free > 0 THEN 4 * b + 8 <= Free
          ELSE 4 * b + 8 <= Rest \/ 4 * b + 8 <= pucFree
    BY <2>1 DEF prvCheckItemFitsDefault, NOSPLIT, ALLOWSPLIT, rbHEADER_SIZE
  <2>4. Free = 4 * f - 4 * a /\ Rest = 4 * s - 4 * a
    BY DEF Free, Rest
  <2>5. (Free = 0 <=> a = f) /\ (Free > 0 <=> f > a)
    BY <2>4
  <2> QED BY <2>1, <2>2, <2>3, <2>4, <2>5
<1>4. ASSUME C > 0 PROVE xCheckItemFits(C)
  <2>1. C \in Nat
    BY <1>1, <1>4
  <2>2. PICK b \in Nat :
               /\ C <= 4 * b /\ 4 * b < C + 4
               /\ xCheckItemFits(C) <=>
                     IF a = f THEN ~full
                     ELSE IF f > a THEN 4 * b + 8 <= 4 * f - 4 * a
                     ELSE 4 * b + 8 <= 4 * s - 4 * a \/ 4 * b + 8 <= 4 * f
    <3> HIDE DEF C
    <3> QED BY <1>3, <2>1
  <2> QED BY <1>1, <1>4, <2>2
<1>5. ASSUME NEW n \in C + 1 .. m PROVE ~xCheckItemFits(n)
  <2>1. n \in Nat /\ n > C /\ n <= m
    BY <1>1, <1>5
  <2>2. PICK b \in Nat :
               /\ n <= 4 * b /\ 4 * b < n + 4
               /\ xCheckItemFits(n) <=>
                     IF a = f THEN ~full
                     ELSE IF f > a THEN 4 * b + 8 <= 4 * f - 4 * a
                     ELSE 4 * b + 8 <= 4 * s - 4 * a \/ 4 * b + 8 <= 4 * f
    BY <1>3, <2>1
  <2> QED BY <1>1, <2>1, <2>2
<1> HIDE DEF C
<1> QED BY <1>1, <1>2, <1>4, <1>5

LEMMA AllowSplitSpace ==
  ASSUME type = ALLOWSPLIT, NEW a \in Nat, NEW f \in Nat, NEW s \in Nat,
         pucAcquire = 4 * a, pucFree = 4 * f, xSize = 4 * s, a + 2 <= s, f + 2 <= s, s >= 4,
         xRingbufferGetCurFreeSize > 0
  PROVE  xCheckItemFits(xRingbufferGetCurFreeSize)
<1> DEFINE X == IF a = 0 /\ f = 0 THEN 4 * s - 8
                ELSE IF f > a THEN 4 * f - 4 * a - 8 ELSE 4 * f + (4 * s - 4 * a) - 16
           m == 4 * s - 16
           C == IF full THEN 0 ELSE IF X < 0 THEN 0 ELSE IF X > m THEN m ELSE X
<1>1. xRingbufferGetCurFreeSize = C
  BY DEF xRingbufferGetCurFreeSize, prvGetCurMaxSizeAllowSplit, Clip, Free, Rest, rbHEADER_SIZE,
         xMaxItemSize, NOSPLIT, ALLOWSPLIT
<1>2. C \in Nat /\ C > 0
  BY <1>1
<1>3. PICK n : n = C
  OBVIOUS
<1>4. PICK b \in Nat : rbALIGN_SIZE(n) = 4 * b /\ n <= 4 * b /\ 4 * b < n + 4
  <2> HIDE DEF C
  <2> QED BY <1>2, <1>3, Quads
<1>5. ~full /\ (a = f \/ (IF f > a THEN 4 * b + 8 <= 4 * f - 4 * a
                         ELSE 4 * b + 16 <= 4 * s + (4 * f - 4 * a)))
  BY <1>2, <1>3, <1>4
<1>6. xCheckItemFits(n)
  <2>1. xCheckItemFits(n) <=> prvCheckItemFitsDefault(n)
    BY DEF xCheckItemFits, ALLOWSPLIT, BYTEBUF
  <2>2. prvCheckItemFitsDefault(n) <=>
          IF Free = 0 THEN ~full
          ELSE IF Free > 0 THEN 4 * b + 8 <= Free
          ELSE 4 * b + 8 <= Rest \/ 4 * b + 8 + 8 <= xSize + Free
    BY <1>4 DEF prvCheckItemFitsDefault, rbHEADER_SIZE
  <2>3. Free = 4 * f - 4 * a
    BY DEF Free
  <2> QED BY <1>5, <2>1, <2>2, <2>3
<1> HIDE DEF C
<1> QED BY <1>1, <1>3, <1>6

LEMMA InvFreeSpace ==
  ASSUME RInv, fault = "none"
  PROVE  FreeSpaceExact
<1> DEFINE c == xRingbufferGetCurFreeSize
<1>1. ASSUME q = <<>>, xItemsWaiting = 0 PROVE ~full /\ xCheckItemFits(xMaxItemSize)
  <2>1. ~full /\ pucFree = pucAcquire
    BY <1>1, AllReturned
  <2>2. Free = 0
    <3>1. TypeOK /\ xSize \in Nat
      BY InvTypeOK, InvFacts
    <3>2. pucFree \in 0 .. xSize - 1
      BY <3>1 DEF TypeOK, Pos
    <3> QED BY <2>1, <3>1, <3>2 DEF Free
  <2> QED BY <2>1, <2>2 DEF xCheckItemFits, prvCheckItemFitsDefault, prvCheckItemFitsByteBuffer
<1>2. /\ c > 0 => xCheckItemFits(c)
      /\ type # ALLOWSPLIT => \A n \in c + 1 .. xMaxItemSize : ~xCheckItemFits(n)
  <2>1. CASE type = BYTEBUF
    <3>1. PICK u, ro : BytesAt(u, ro)
      BY <2>1, InvFacts
    <3>2. Acquired(xSize, pucFree, pucAcquire, full, u)
      BY <3>1 DEF BytesAt
    <3>3. /\ xSize \in Nat /\ pucFree \in 0 .. xSize - 1 /\ pucAcquire \in 0 .. xSize - 1
          /\ full => pucFree = pucAcquire
      BY <3>2 DEF Acquired, IsAt, Off
    <3>4. c = IF full THEN 0 ELSE IF pucFree - pucAcquire <= 0
                                  THEN pucFree - pucAcquire + xSize ELSE pucFree - pucAcquire
      BY <2>1 DEF xRingbufferGetCurFreeSize, prvGetCurMaxSizeByteBuf, Free, NOSPLIT, ALLOWSPLIT,
                  BYTEBUF
    <3>5. \A n : xCheckItemFits(n) <=>
                 IF pucFree - pucAcquire = 0 THEN ~full
                 ELSE n <= (IF pucFree - pucAcquire > 0 THEN pucFree - pucAcquire
                            ELSE xSize + (pucFree - pucAcquire))
      BY <2>1 DEF xCheckItemFits, prvCheckItemFitsByteBuffer, Free
    <3>6. xMaxItemSize = xSize
      BY <2>1 DEF xMaxItemSize, NOSPLIT, ALLOWSPLIT, BYTEBUF
    <3> HIDE DEF c
    <3>7. c > 0 => xCheckItemFits(c)
      BY <3>3, <3>4, <3>5
    <3>8. ASSUME NEW n \in c + 1 .. xMaxItemSize PROVE ~xCheckItemFits(n)
      <4>1. n \in Int /\ n > c /\ n <= xSize
        BY <3>3, <3>4, <3>6, <3>8
      <4> QED BY <3>3, <3>4, <3>5, <4>1
    <3> QED BY <3>7, <3>8
  <2>2. CASE type # BYTEBUF
    <3>1. PICK u, ro, wo : Kept(u, ro, wo)
      BY <2>2, InvFacts
    <3>2. /\ Layout(xSize, pucFree, mem, u) /\ Pointers(u, ro, wo)
          /\ type \in {NOSPLIT, ALLOWSPLIT} /\ xSize >= 2 * rbHEADER_SIZE
      BY <3>1, KeptFacts
    <3>3. Room(xSize) /\ Fits(xSize, pucFree) /\ Fits(xSize, pucAcquire)
      BY <3>2 DEF Layout, Pointers
    <3>4. PICK a \in Nat, f \in Nat, s \in Nat :
             pucAcquire = 4 * a /\ pucFree = 4 * f /\ xSize = 4 * s
      <4>1. /\ pucAcquire \in Nat /\ pucAcquire % 4 = 0 /\ pucFree \in Nat /\ pucFree % 4 = 0
            /\ xSize \in Nat /\ xSize % 4 = 0
        BY <3>3 DEF Room, Fits
      <4>2. \A x \in Nat : x % 4 = 0 => \E y \in Nat : x = 4 * y
        BY Quads
      <4>3. /\ \E y \in Nat : pucAcquire = 4 * y
            /\ \E y \in Nat : pucFree = 4 * y
            /\ \E y \in Nat : xSize = 4 * y
        BY <4>1, <4>2
      <4> QED BY <4>3
    <3>5. a + 2 <= s /\ f + 2 <= s /\ s >= 4
      <4>1. pucAcquire + 8 <= xSize /\ pucFree + 8 <= xSize /\ xSize >= 16
        BY <3>2, <3>3 DEF Fits, rbHEADER_SIZE
      <4> QED BY <3>4, <4>1
    <3>6. full => a = f
      <4>1. Acquired(xSize, pucFree, pucAcquire, full, u)
        BY <3>1, KeptAcquired
      <4>2. full => pucFree = pucAcquire
        BY <4>1 DEF Acquired, IsAt, Off
      <4> QED BY <3>4, <4>2
    <3>7. CASE type = NOSPLIT
      BY <3>4, <3>5, <3>6, <3>7, NoSplitSpace
    <3>8. CASE type = ALLOWSPLIT
      <4>1. c > 0 => xCheckItemFits(c)
        BY <3>4, <3>5, <3>8, AllowSplitSpace
      <4> QED BY <3>8, <4>1
    <3> QED BY <3>2, <3>7, <3>8
  <2> QED BY <2>1, <2>2
<1> QED BY <1>1, <1>2 DEF FreeSpaceExact
-----------------------------------------------------------------------------
\* An item that has not been returned keeps its place, its bytes and its header
\* whatever else is sent, completed, retrieved and returned meanwhile, as long as no
\* item has been handed out early: the asserts of prvSendItemDoneNoSplit and
\* prvReturnItemDefault hold, and the four pointers stay where headers fit.
THEOREM ItemsDisjoint == Spec => [](fault = "none" => Disjoint)
<1>1. RInv => (fault = "none" => Disjoint)
  BY InvDisjoint
<1> QED BY <1>1, Invariant, PTL

\* prvReceiveGeneric hands out what was sent next, all of it, across every wrap: in a
\* buffer of any type, the first thing a receiver is handed that it should not have
\* been is never the wrong item or the wrong bytes.
THEOREM ReceivedInOrder == Spec => []InOrder
<1>1. RInv => InOrder
  BY DEF RInv, InOrder
<1> QED BY <1>1, Invariant, PTL

\* Allow-split and byte buffers hand nothing out before it is completed; the
\* disagreement of the run about OnlyCompleted is one of no-split buffers alone.
THEOREM EarlyOnlyNoSplit == Spec => [](type # NOSPLIT => OnlyCompleted)
<1>1. RInv => (type # NOSPLIT => OnlyCompleted)
  BY DEF RInv, OnlyCompleted
<1> QED BY <1>1, Invariant, PTL

\* prvCheckItemAvail never hides an item that is completed and comes next.
THEOREM CompletedDelivered == Spec => []Delivered
<1>1. RInv => Delivered
  BY InvDelivered
<1> QED BY <1>1, Invariant, PTL

\* No byte is lost when items are returned in any order, and
\* xRingbufferGetCurFreeSize is the size of the greatest item that would fit.
THEOREM SpaceAccounted == Spec => [](fault = "none" => FreeSpaceExact)
<1>1. RInv => (fault = "none" => FreeSpaceExact)
  BY InvFreeSpace
<1> QED BY <1>1, Invariant, PTL

\* Whoever waits in a send or a receive really has to: every call that makes room,
\* or makes an item available, wakes the waiting task.
THEOREM WakeupsKept == Spec => [](fault = "none" => NoLostWakeup)
<1>1. RInv => (fault = "none" => NoLostWakeup)
  BY DEF RInv
<1> QED BY <1>1, Invariant, PTL
=============================================================================
