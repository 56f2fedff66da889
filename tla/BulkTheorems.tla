---------------------------- MODULE BulkTheorems ----------------------------
(***************************************************************************)
(* Blocks, files and regions leave the pages well formed, at every page    *)
(* size, wherever calloc fails and whatever calls are made in between.     *)
(*                                                                         *)
(* BulkInv is not inductive: that the calls between two of these keep the  *)
(* buffer well formed needs what Buff relies on (Sound), and a copy or a   *)
(* write that goes on needs its part of the region or its page to be there *)
(* still (CallInProgress).  What a loop over new pages keeps is Extends, and *)
(* that it leaves no page empty depends on where it starts (Fillable).     *)
(*                                                                         *)
(* What is put in is one piece: each operator is shown to put a string at  *)
(* a place (Grows), the loop over new pages by what it has put in so far   *)
(* (Put), and a copy by what is left of its region (Copying).  What is     *)
(* written is what lies between two places of the text (Writing).          *)
(***************************************************************************)
EXTENDS Bulk, BuffTheorems, WellFoundedInduction

-----------------------------------------------------------------------------
(* Numbers, and functions that are defined from each number to the next, for *)
(* the loops that are modelled as such functions.                            *)

\* Every set of numbers has a least one.
LEMMA LeastNumber ==
  ASSUME NEW T, T \subseteq Nat, T # {}
  PROVE  \E x \in T : \A y \in T : x <= y
<1> DEFINE R == OpToRel(<, Nat)
<1>1. IsWellFoundedOn(R, Nat) BY NatLessThanWellFounded, Zenon
<1>2. \A a, b \in Nat : a < b => <<a, b>> \in R BY Zenon DEF OpToRel
<1> HIDE DEF R
<1>3. PICK x \in T : \A y \in T : ~ (<<y, x>> \in R) BY <1>1, WFMin
<1>4. \A y \in T : ~ (y < x) /\ y \in Nat /\ x \in Nat BY <1>2, <1>3
<1> QED BY <1>4

\* A set that has 0 and with each number the next one has all up to n.
LEMMA UpTo ==
  ASSUME NEW n \in Nat, NEW T, 0 \in T, \A k \in 0 .. n - 1 : k \in T => k + 1 \in T
  PROVE  0 .. n \subseteq T
<1> DEFINE U == {k \in 0 .. n : k \notin T}
<1> SUFFICES ASSUME U # {} PROVE FALSE
  OBVIOUS
<1>0. U \subseteq Nat OBVIOUS
<1>1. PICK x \in U : \A y \in U : x <= y
  <2> HIDE DEF U
  <2> QED BY <1>0, LeastNumber
<1>2. x # 0 /\ x - 1 \in 0 .. n - 1 /\ x - 1 \in 0 .. n /\ ~ (x <= x - 1) BY <1>1
<1>3. x - 1 \in T BY <1>1, <1>2
<1>4. x - 1 + 1 = x BY <1>1
<1> QED BY <1>1, <1>2, <1>3, <1>4

\* The functions defined from each number to the next.
Recursive(n, A, a, next) ==
  {g \in [0 .. n -> A] : g[0] = a /\ \A k \in 1 .. n : g[k] = next[k][g[k - 1]]}

\* There is one.
LEMMA Recursion ==
  ASSUME NEW n \in Nat, NEW A, NEW a \in A, NEW next \in [1 .. n -> [A -> A]]
  PROVE  Recursive(n, A, a, next) # {}
<1> DEFINE Good(k, g) == g[0] = a /\ \A j \in 1 .. k : g[j] = next[j][g[j - 1]]
           T == {k \in 0 .. n : \E g \in [0 .. k -> A] : Good(k, g)}
<1>1. 0 \in T
  <2> DEFINE g == [k \in 0 .. 0 |-> a]
  <2>1. g \in [0 .. 0 -> A] /\ Good(0, g) OBVIOUS
  <2>2. 0 \in 0 .. n OBVIOUS
  <2> HIDE DEF g
  <2> QED BY <2>1, <2>2
<1>2. ASSUME NEW k \in 0 .. n - 1, k \in T PROVE k + 1 \in T
  <2>1. PICK g \in [0 .. k -> A] : Good(k, g) BY <1>2
  <2>2. k + 1 \in 1 .. n /\ k + 1 \in 0 .. n /\ k \in 0 .. k /\ k \in Nat OBVIOUS
  <2>3. next[k + 1][g[k]] \in A BY <2>1, <2>2
  <2> DEFINE h == [j \in 0 .. k + 1 |-> IF j = k + 1 THEN next[k + 1][g[k]] ELSE g[j]]
  <2>4. h \in [0 .. k + 1 -> A]
    <3>1. ASSUME NEW j \in 0 .. k + 1, j # k + 1 PROVE g[j] \in A
      <4>1. j \in 0 .. k BY <2>2, <3>1
      <4> QED BY <2>1, <4>1
    <3> QED BY <2>3, <3>1
  <2>5. \A j \in 0 .. k : h[j] = g[j] BY <2>2
  <2>6. h[k + 1] = next[k + 1][g[k]] BY <2>2
  <2> HIDE DEF h
  <2>7. Good(k + 1, h)
    <3>1. h[0] = a BY <2>1, <2>2, <2>5
    <3>2. ASSUME NEW j \in 1 .. k + 1 PROVE h[j] = next[j][h[j - 1]]
      <4>1. CASE j = k + 1
        <5>1. j - 1 = k BY <2>2, <4>1
        <5> QED BY <2>2, <2>5, <2>6, <4>1, <5>1
      <4>2. CASE j # k + 1
        <5>1. j \in 1 .. k /\ j \in 0 .. k /\ j - 1 \in 0 .. k BY <2>2, <3>2, <4>2
        <5> QED BY <2>1, <2>5, <5>1
      <4> QED BY <4>1, <4>2
    <3> QED BY <3>1, <3>2
  <2> QED BY <2>2, <2>4, <2>7
<1>3. n \in T
  <2> HIDE DEF T
  <2>1. 0 .. n \subseteq T BY <1>1, <1>2, UpTo
  <2> QED BY <2>1
<1> QED BY <1>3 DEF Recursive

-----------------------------------------------------------------------------
(* The bytes of one page. *)

\* A change of the bytes of the point's page, with its marks moved along.
LEMMA PageChanged ==
  ASSUME NEW b, WellFormed(b), NEW r \in Buffer,
         r.alive = b.alive, r.firstp = b.firstp, r.lastp = b.lastp,
         r.nextp = b.nextp, r.prevp = b.prevp, r.mpage = b.mpage, r.curpage = b.curpage,
         \A p \in Page \ {b.curpage} : r.data[p] = b.data[p],
         curplen(r) <= PGSIZE, r.curchar <= curplen(r),
         \A m \in Mark : IF b.mpage[m] = b.curpage THEN r.moffset[m] <= curplen(r)
                                                   ELSE r.moffset[m] = b.moffset[m]
  PROVE  /\ WellFormed(r)
         /\ \A p \in b.alive \ {b.curpage} : plen(r, p) = plen(b, p)
<1>1. \A p \in b.alive \ {b.curpage} : plen(r, p) = plen(b, p)
  BY Lengths DEF plen
<1>2. Linked(r) /\ Reachable(r)
  BY DEF WellFormed, Linked, Reachable
<1>3. PagesFit(r)
  BY <1>1 DEF WellFormed, PagesFit, curplen
<1>4. PointInside(r)
  BY DEF WellFormed, PointInside
<1>5. MarksInside(r)
  <2> SUFFICES ASSUME NEW m \in Mark, r.mpage[m] # NIL
               PROVE  r.mpage[m] \in r.alive /\ r.moffset[m] <= plen(r, r.mpage[m])
    BY DEF MarksInside
  <2>1. b.mpage[m] \in b.alive /\ b.moffset[m] <= plen(b, b.mpage[m])
    BY DEF WellFormed, MarksInside
  <2> QED BY <1>1, <2>1 DEF curplen
<1> QED BY <1>1, <1>2, <1>3, <1>4, <1>5 DEF WellFormed

\* bmodf may be set and cleared.
LEMMA Unmodified ==
  ASSUME NEW b, WellFormed(b), NEW modf \in BOOLEAN
  PROVE  LET r == [b EXCEPT !.bmodf = modf]
         IN WellFormed(r) /\ r.alive = b.alive /\ (NoEmptyPage(b) => NoEmptyPage(r))
<1> DEFINE r == [b EXCEPT !.bmodf = modf]
<1>1. /\ r.alive = b.alive /\ r.firstp = b.firstp /\ r.lastp = b.lastp
      /\ r.nextp = b.nextp /\ r.prevp = b.prevp /\ r.mpage = b.mpage /\ r.curpage = b.curpage
      /\ r.data = b.data /\ r.curchar = b.curchar /\ r.moffset = b.moffset
  BY DEF WellFormed, Buffer
<1>2. r \in Buffer
  BY Zenon DEF WellFormed, Buffer
<1> HIDE DEF r
<1>3. \A p : plen(r, p) = plen(b, p)
  BY <1>1 DEF plen
<1>4. WellFormed(r)
  <2>1. Linked(r) /\ Reachable(r)
    BY <1>1 DEF WellFormed, Linked, Reachable
  <2>2. PagesFit(r) /\ PointInside(r) /\ MarksInside(r)
    BY <1>1, <1>3 DEF WellFormed, PagesFit, PointInside, MarksInside, curplen
  <2> QED BY <1>2, <2>1, <2>2 DEF WellFormed
<1>5. NoEmptyPage(b) => NoEmptyPage(r)
  BY <1>1, <1>3 DEF NoEmptyPage
<1> QED BY <1>1, <1>4, <1>5 DEF r

\* Bytes at the end of the point's page.
LEMMA FilledWellFormed ==
  ASSUME NEW b, WellFormed(b), NEW data \in Seq(Byte), NEW n \in 0 .. Len(data),
         curplen(b) + n <= PGSIZE
  PROVE  LET r == Filled(b, data, n)
         IN /\ WellFormed(r)
            /\ r.alive = b.alive /\ r.curpage = b.curpage /\ r.curchar = curplen(b) + n
            /\ curplen(r) = curplen(b) + n
            /\ \A p \in b.alive \ {b.curpage} : plen(r, p) = plen(b, p)
<1> DEFINE cur == b.curpage
           old == b.data[cur]
           new == old \o First(data, n)
           dt  == [b.data EXCEPT ![cur] = new]
           d   == curplen(b) + n
           r   == Filled(b, data, n)
<1>1. /\ b \in Buffer /\ cur \in Page /\ old \in Seq(Byte) /\ curplen(b) = Len(old)
      /\ curplen(b) \in Nat /\ b.data \in [Page -> Seq(Byte)] /\ n \in Nat
  BY Lengths DEF WellFormed, Buffer, curplen, plen
<1>2. First(data, n) \in Seq(Byte) /\ Len(First(data, n)) = n
  BY TakeDrop DEF First
<1>3. new \in Seq(Byte) /\ Len(new) = d
  <2> HIDE DEF old
  <2> QED BY <1>1, <1>2, ConcatBytes
<1>4. d \in Nat
  BY <1>1
<1> HIDE DEF new, d
<1>5. /\ dt \in [Page -> Seq(Byte)] /\ dt[cur] = new
      /\ \A p \in Page \ {cur} : dt[p] = b.data[p]
  BY <1>1, <1>3
<1> HIDE DEF dt
<1>6. r = [b EXCEPT !.data = dt, !.curchar = d]
  BY DEF Filled, new, dt, d
<1> HIDE DEF r
<1>7. /\ r \in Buffer
      /\ r.alive = b.alive /\ r.firstp = b.firstp /\ r.lastp = b.lastp
      /\ r.nextp = b.nextp /\ r.prevp = b.prevp /\ r.mpage = b.mpage /\ r.curpage = b.curpage
      /\ r.data = dt /\ r.curchar = d /\ r.moffset = b.moffset
  BY <1>1, <1>4, <1>5, <1>6 DEF Buffer
<1>8. curplen(r) = d
  BY <1>3, <1>5, <1>7 DEF curplen, plen
<1>9. ASSUME NEW m \in Mark
      PROVE  IF b.mpage[m] = cur THEN r.moffset[m] <= curplen(r) ELSE r.moffset[m] = b.moffset[m]
  <2>1. b.mpage[m] = cur => b.moffset[m] <= curplen(b)
    BY <1>1, PageAssumption DEF WellFormed, MarksInside, curplen
  <2>2. b.moffset[m] \in Nat
    BY <1>1 DEF Buffer
  <2> QED BY <1>1, <1>7, <1>8, <2>1, <2>2 DEF d
<1>10. WellFormed(r) /\ \A p \in b.alive \ {b.curpage} : plen(r, p) = plen(b, p)
  <2>1. curplen(r) <= PGSIZE /\ r.curchar <= curplen(r)
    BY <1>4, <1>7, <1>8 DEF d
  <2> QED BY <1>5, <1>7, <1>9, <2>1, PageChanged
<1> QED BY <1>7, <1>8, <1>10 DEF r, d

\* Bytes at the point, with the rest of the page behind them: the marks there
\* move by as many, whether those at the point do or not.
LEMMA Widened ==
  ASSUME NEW b, WellFormed(b), NEW data \in Seq(Byte), curplen(b) + Len(data) <= PGSIZE,
         NEW r \in {InPlace(b, data), Gapped(b, data)}
  PROVE  WellFormed(r) /\ r.alive = b.alive /\ (NoEmptyPage(b) => NoEmptyPage(r))
<1> DEFINE cur == b.curpage
           old == b.data[cur]
           L   == Len(data)
           new == First(old, b.curchar) \o data \o Rest(old, b.curchar)
           dt  == [b.data EXCEPT ![cur] = new]
           d   == b.curchar + L
           at  == [m \in Mark |-> IF b.mpage[m] = cur /\ b.moffset[m] >= b.curchar
                                  THEN b.moffset[m] + L ELSE b.moffset[m]]
           aft == [m \in Mark |-> IF b.mpage[m] = cur /\ b.moffset[m] > b.curchar
                                  THEN b.moffset[m] + L ELSE b.moffset[m]]
<1>1. /\ b \in Buffer /\ cur \in Page /\ old \in Seq(Byte) /\ curplen(b) = Len(old)
      /\ curplen(b) \in Nat /\ b.data \in [Page -> Seq(Byte)] /\ L \in Nat
      /\ b.curchar \in Nat /\ b.curchar \in 0 .. curplen(b)
  <2>1. b.curchar \in Nat /\ b.curchar <= curplen(b) /\ curplen(b) \in Nat
    BY Lengths
  <2>2. b.curchar \in 0 .. curplen(b)
    BY <2>1
  <2> QED BY <2>1, <2>2, Lengths DEF WellFormed, Buffer, curplen, plen
<1>2. new \in Seq(Byte) /\ Len(new) = curplen(b) + L
  <2> DEFINE h == First(old, b.curchar)
             t == Rest(old, b.curchar)
  <2>1. /\ h \in Seq(Byte) /\ Len(h) = b.curchar
        /\ t \in Seq(Byte) /\ Len(t) = curplen(b) - b.curchar
    <3> HIDE DEF old
    <3> QED BY <1>1, TakeDrop DEF First, Rest
  <2> HIDE DEF h, t, old
  <2>2. h \o data \in Seq(Byte) /\ Len(h \o data) = b.curchar + L
    BY <2>1, ConcatBytes
  <2> DEFINE hd == h \o data
  <2> HIDE DEF hd
  <2>3. hd \o t \in Seq(Byte) /\ Len(hd \o t) = Len(hd) + Len(t)
    BY <2>1, <2>2, ConcatBytes DEF hd
  <2>4. b.curchar + L + (curplen(b) - b.curchar) = curplen(b) + L
    <3> DEFINE x == b.curchar
               y == curplen(b)
    <3>1. x \in Nat /\ y \in Nat /\ L \in Nat
      BY <1>1
    <3> HIDE DEF x, y, L
    <3>2. x + L + (y - x) = y + L
      BY <3>1
    <3> QED BY <3>2 DEF x, y
  <2>5. Len(hd \o t) = b.curchar + L + (curplen(b) - b.curchar)
    BY <2>1, <2>2, <2>3 DEF hd
  <2>6. new = hd \o t
    BY DEF hd, h, t
  <2> HIDE DEF new
  <2> QED BY <2>3, <2>4, <2>5, <2>6
<1>3. d \in Nat /\ d <= curplen(b) + L
  BY <1>1
<1> HIDE DEF new
<1>4. /\ dt \in [Page -> Seq(Byte)] /\ dt[cur] = new
      /\ \A p \in Page \ {cur} : dt[p] = b.data[p]
  BY <1>1, <1>2
<1>5. ASSUME NEW m \in Mark
      PROVE  /\ b.moffset[m] \in Nat
             /\ b.mpage[m] = cur => b.moffset[m] <= curplen(b)
  BY <1>1, PageAssumption DEF WellFormed, MarksInside, curplen, Buffer
<1>6. ASSUME NEW mo \in {at, aft}
      PROVE  /\ mo \in [Mark -> Nat]
             /\ \A m \in Mark : IF b.mpage[m] = cur THEN mo[m] <= curplen(b) + L
                                                    ELSE mo[m] = b.moffset[m]
  <2> HIDE DEF cur, L
  <2>1. CASE mo = at
    BY <1>1, <1>5, <2>1, SMTT(30)
  <2>2. CASE mo = aft
    BY <1>1, <1>5, <2>2, SMTT(30)
  <2> QED BY <1>6, <2>1, <2>2
<1> HIDE DEF dt, d, at, aft
<1>7. PICK mo \in {at, aft}, modf \in BOOLEAN :
        r = [b EXCEPT !.data = dt, !.moffset = mo, !.curchar = d, !.bmodf = modf]
  <2>1. CASE r = Gapped(b, data)
    BY <2>1 DEF Gapped, dt, d, aft, new
  <2>2. CASE r = InPlace(b, data)
    <3>1. r = [b EXCEPT !.data = dt, !.moffset = at, !.curchar = d]
      BY <2>2 DEF InPlace, dt, d, at, new
    <3>2. r = [b EXCEPT !.data = dt, !.moffset = at, !.curchar = d, !.bmodf = b.bmodf]
      BY <1>1, <3>1 DEF Buffer
    <3>3. b.bmodf \in BOOLEAN
      BY <1>1 DEF Buffer
    <3> QED BY <3>2, <3>3
  <2> QED BY <2>1, <2>2
<1>8. /\ mo \in [Mark -> Nat]
      /\ \A m \in Mark : IF b.mpage[m] = cur THEN mo[m] <= curplen(b) + L
                                             ELSE mo[m] = b.moffset[m]
  BY <1>6
<1>9. /\ r.alive = b.alive /\ r.firstp = b.firstp /\ r.lastp = b.lastp
      /\ r.nextp = b.nextp /\ r.prevp = b.prevp /\ r.mpage = b.mpage /\ r.curpage = b.curpage
      /\ r.data = dt /\ r.curchar = d /\ r.moffset = mo
  BY <1>1, <1>7 DEF Buffer
<1>10. r \in Buffer
  BY <1>1, <1>3, <1>4, <1>7, <1>8, Zenon DEF Buffer
<1>11. curplen(r) = curplen(b) + L
  BY <1>2, <1>4, <1>9 DEF curplen, plen
<1>12. WellFormed(r) /\ \A p \in b.alive \ {b.curpage} : plen(r, p) = plen(b, p)
  BY <1>3, <1>4, <1>8, <1>9, <1>10, <1>11, PageChanged
<1>13. ASSUME NoEmptyPage(b), NEW p \in r.alive, plen(r, p) = 0
       PROVE  r.alive = {p}
  <2>1. CASE p = b.curpage
    <3>1. plen(b, p) = 0
      BY <1>1, <1>9, <1>11, <1>13, <2>1 DEF curplen
    <3> QED BY <1>9, <1>13, <3>1 DEF NoEmptyPage
  <2>2. CASE p # b.curpage
    BY <1>9, <1>12, <1>13, <2>2 DEF NoEmptyPage
  <2> QED BY <2>1, <2>2
<1> QED BY <1>9, <1>12, <1>13 DEF NoEmptyPage

-----------------------------------------------------------------------------
(* New pages. *)

\* A page is linked in behind the current one, and becomes it.
LEMMA PageOpened ==
  ASSUME NEW b, WellFormed(b), NEW q \in Page \ b.alive
  PROVE  LET s == makecur(newpage(b, q), q, 0)
         IN /\ WellFormed(s)
            /\ s.alive = b.alive \cup {q} /\ s.curpage = q /\ s.curchar = 0 /\ curplen(s) = 0
            /\ \A p \in b.alive : plen(s, p) = plen(b, p)
<1> DEFINE n == newpage(b, q)
           s == makecur(n, q, 0)
<1>1. /\ n \in Buffer /\ Linked(n) /\ Reachable(n)
      /\ n.alive = b.alive \cup {q}
      /\ n.mpage = b.mpage /\ n.moffset = b.moffset
      /\ n.data = [b.data EXCEPT ![q] = <<>>]
  BY NewPage DEF WellFormed, PointInside
<1>2. q \in Page /\ b.alive \subseteq Page /\ b.data \in [Page -> Seq(Byte)]
  BY DEF WellFormed, Buffer
<1> HIDE DEF n
<1>3. /\ s \in Buffer /\ s.alive = n.alive /\ s.firstp = n.firstp /\ s.lastp = n.lastp
      /\ s.nextp = n.nextp /\ s.prevp = n.prevp /\ s.data = n.data
      /\ s.mpage = n.mpage /\ s.moffset = n.moffset
      /\ s.curpage = q /\ s.curchar = 0
  BY <1>1, <1>2 DEF makecur, Buffer
<1> HIDE DEF s
<1>4. s.data[q] = <<>> /\ \A p \in b.alive : s.data[p] = b.data[p]
  BY <1>1, <1>2, <1>3
<1>5. plen(s, q) = 0 /\ \A p \in b.alive : plen(s, p) = plen(b, p)
  BY <1>4, EmptyBytes DEF plen
<1>6. Linked(s) /\ Reachable(s)
  BY <1>1, <1>3 DEF Linked, Reachable
<1>7. PagesFit(s)
  <2>1. 0 <= PGSIZE
    BY PGSIZEAssumption
  <2> QED BY <1>1, <1>3, <1>5, <2>1 DEF WellFormed, PagesFit
<1>8. PointInside(s) /\ curplen(s) = 0
  BY <1>1, <1>3, <1>5 DEF PointInside, curplen
<1>9. MarksInside(s)
  BY <1>1, <1>3, <1>5 DEF WellFormed, MarksInside
<1> QED BY <1>1, <1>3, <1>5, <1>6, <1>7, <1>8, <1>9 DEF WellFormed, s, n

\* bappendpage's loop between two pages.
Loop == [buf : Buffer, left : Seq(Byte), full : BOOLEAN]

\* The loop has used every page that it has, so that the next may be opened.
AllUsed(s) == NoEmptyPage(s.buf) /\ (s.left # <<>> => curplen(s.buf) # 0)

\* Buffer c is b with pages of the set new added and bytes put into some.
Larger(b, new, c) ==
  /\ WellFormed(c) /\ b.alive \subseteq c.alive /\ c.alive \subseteq b.alive \cup new
  /\ \A p \in b.alive : plen(b, p) <= plen(c, p)

\* The loop opens a page, or none.
LEMMA PageAdded ==
  ASSUME NEW s \in Loop, WellFormed(s.buf), NEW q \in Page \cup {NIL}, q \notin s.buf.alive
  PROVE  LET t == InNewPage(s, q)
         IN t \in Loop /\ Larger(s.buf, {q}, t.buf) /\ (AllUsed(s) => AllUsed(t))
<1> DEFINE t == InNewPage(s, q)
           n == MIN(PGSIZE, Len(s.left))
           o == makecur(newpage(s.buf, q), q, 0)
           f == Filled(o, s.left, n)
<1>0. s.buf \in Buffer /\ s.left \in Seq(Byte) /\ s.full \in BOOLEAN
  BY Zenon DEF Loop
<1>1. Larger(s.buf, {q}, s.buf)
  BY Lengths DEF Larger
<1>2. CASE s.left = <<>> \/ s.full
  BY <1>1, <1>2 DEF InNewPage
<1>3. CASE ~ (s.left = <<>> \/ s.full) /\ q = NIL
  <2>1. t = [s EXCEPT !.full = TRUE]
    BY <1>3 DEF InNewPage
  <2>2. t \in Loop /\ t.buf = s.buf /\ t.left = s.left
    BY <2>1, Zenon DEF Loop
  <2> HIDE DEF t
  <2> QED BY <1>1, <2>2 DEF t, AllUsed
<1>4. CASE ~ (s.left = <<>> \/ s.full) /\ q # NIL
  <2>1. t = [s EXCEPT !.buf = f, !.left = Rest(s.left, n)]
    BY <1>4 DEF InNewPage
  <2>2. n \in 1 .. PGSIZE /\ n \in 0 .. Len(s.left)
    <3>1. Len(s.left) \in Nat /\ Len(s.left) # 0
      BY <1>0, <1>4
    <3> QED BY <3>1, PGSIZEAssumption DEF MIN
  <2>3. /\ WellFormed(o)
        /\ o.alive = s.buf.alive \cup {q} /\ o.curpage = q /\ curplen(o) = 0
        /\ \A p \in s.buf.alive : plen(o, p) = plen(s.buf, p)
    BY <1>4, PageOpened
  <2> HIDE DEF n, o
  <2>4. curplen(o) + n <= PGSIZE /\ curplen(o) + n = n
    BY <2>2, <2>3, PGSIZEAssumption
  <2>5. /\ WellFormed(f) /\ f.alive = o.alive /\ f.curpage = o.curpage
        /\ curplen(f) = n
        /\ \A p \in o.alive \ {o.curpage} : plen(f, p) = plen(o, p)
    BY <1>0, <2>2, <2>3, <2>4, FilledWellFormed
  <2> HIDE DEF f
  <2>6. Rest(s.left, n) \in Seq(Byte)
    BY <1>0, <2>2, TakeDrop DEF Rest
  <2>7. t \in Loop /\ t.buf = f
    <3>1. f \in Buffer
      BY <2>5 DEF WellFormed
    <3> DEFINE l == Rest(s.left, n)
    <3>2. t = [s EXCEPT !.buf = f, !.left = l] /\ l \in Seq(Byte)
      BY <2>1, <2>6
    <3> HIDE DEF t, l
    <3> QED BY <1>0, <3>1, <3>2, Zenon DEF Loop
  <2> HIDE DEF t
  <2>8. \A p \in s.buf.alive : p # q /\ plen(f, p) = plen(s.buf, p) /\ plen(s.buf, p) \in Nat
    BY <2>3, <2>5, Lengths
  <2>9. Larger(s.buf, {q}, f)
    BY <2>3, <2>5, <2>8 DEF Larger
  <2>10. ASSUME AllUsed(s), NEW p \in f.alive
         PROVE  plen(f, p) # 0
    <3>1. CASE p = q
      BY <2>2, <2>3, <2>5, <3>1 DEF curplen
    <3>2. CASE p # q
      <4>1. p \in s.buf.alive /\ s.buf.curpage \in s.buf.alive
        BY <2>3, <2>5, <2>10, <3>2, Lengths
      <4>2. curplen(s.buf) # 0
        BY <1>4, <2>10 DEF AllUsed
      <4>3. plen(s.buf, p) # 0
        BY <2>10, <4>1, <4>2 DEF AllUsed, NoEmptyPage, curplen
      <4> QED BY <2>8, <4>1, <4>3
    <3> QED BY <3>1, <3>2
  <2>11. f.curpage \in f.alive
    BY <2>5, Lengths
  <2>12. AllUsed(s) => AllUsed(t)
    BY <2>7, <2>10, <2>11 DEF AllUsed, NoEmptyPage, curplen
  <2> QED BY <2>7, <2>9, <2>12 DEF t
<1> QED BY <1>2, <1>3, <1>4

\* The results of calloc to one call: pages that are not in use and not given twice.
Given(b, allocs) ==
  /\ allocs \in Seq(Page \cup {NIL})
  /\ \A i \in 1 .. Len(allocs) : allocs[i] \notin b.alive
  /\ \A i, j \in 1 .. Len(allocs) : i # j /\ allocs[i] = allocs[j] => allocs[i] = NIL

\* The pages of the first k calls.
Pages(allocs, k) == {allocs[i] : i \in 1 .. k}

\* What the loop has made of b and data after k calls of calloc.
Extends(b, data, new, s) ==
  /\ s \in Loop /\ Larger(b, new, s.buf)
  /\ NoEmptyPage(b) /\ (data # <<>> => curplen(b) # 0) => AllUsed(s)

\* A function that goes on with InNewPage from each number to the next, as long as
\* that gives a state of the loop.
Loops(f, s, allocs) ==
  /\ f[0] = s
  /\ \A k \in 1 .. Len(allocs) : \/ f[k] = InNewPage(f[k - 1], allocs[k])
                                 \/ InNewPage(f[k - 1], allocs[k]) \notin Loop

\* It always does.
LEMMA LoopExtends ==
  ASSUME NEW b, WellFormed(b), NEW data \in Seq(Byte), NEW allocs, Given(b, allocs),
         NEW f, Loops(f, [buf |-> b, left |-> data, full |-> FALSE], allocs)
  PROVE  /\ \A k \in 0 .. Len(allocs) : Extends(b, data, Pages(allocs, k), f[k])
         /\ \A k \in 1 .. Len(allocs) :
              /\ f[k] = InNewPage(f[k - 1], allocs[k])
              /\ allocs[k] \in Page \cup {NIL} /\ allocs[k] \notin f[k - 1].buf.alive
<1> DEFINE L == Len(allocs)
           T == {k \in 0 .. L : Extends(b, data, Pages(allocs, k), f[k])}
<1>1. L \in Nat /\ \A k \in 1 .. L : allocs[k] \in Page \cup {NIL}
  BY DEF Given
<1>2. \A k \in 1 .. L : allocs[k] \notin b.alive
  BY DEF Given
<1> HIDE DEF L
<1>3. 0 \in T
  <2> DEFINE s == [buf |-> b, left |-> data, full |-> FALSE]
  <2>1. s \in Loop /\ s.buf = b /\ s.left = data
    BY DEF Loop, WellFormed
  <2> HIDE DEF s
  <2>2. Larger(b, Pages(allocs, 0), b)
    BY Lengths DEF Larger
  <2>3. Extends(b, data, Pages(allocs, 0), s)
    BY <2>1, <2>2 DEF Extends, AllUsed
  <2>4. f[0] = s /\ 0 \in 0 .. L
    BY <1>1 DEF s, Loops
  <2> QED BY <2>3, <2>4
<1>4. ASSUME NEW k \in 0 .. L - 1, k \in T
      PROVE  /\ k + 1 \in T /\ f[k + 1] = InNewPage(f[k], allocs[k + 1])
             /\ allocs[k + 1] \in Page \cup {NIL} /\ allocs[k + 1] \notin f[k].buf.alive
  <2> DEFINE j == k + 1
             q == allocs[j]
             s == f[k]
             t == InNewPage(s, q)
  <2>1. j \in 1 .. L /\ j \in 0 .. L /\ j - 1 = k /\ \A i \in 1 .. k : i # j /\ i \in 1 .. j /\ i \in 1 .. L
    BY <1>1
  <2>2. 1 .. j = (1 .. k) \cup {j}
    BY <1>1
  <2> HIDE DEF j
  <2>3. Extends(b, data, Pages(allocs, k), s)
    BY <1>4
  <2>4. q \in Page \cup {NIL} /\ q \notin s.buf.alive
    <3>1. q \in Page \cup {NIL} /\ q \notin b.alive
      BY <1>1, <1>2, <2>1
    <3>2. ASSUME q \in Pages(allocs, k)
          PROVE  q = NIL
      <4>1. PICK i \in 1 .. k : allocs[i] = q
        BY <3>2 DEF Pages
      <4> QED BY <2>1, <4>1 DEF Given, L
    <3>3. NIL \notin s.buf.alive /\ s.buf.alive \subseteq b.alive \cup Pages(allocs, k)
      BY <2>3, PageAssumption DEF Extends, Larger, WellFormed, Buffer
    <3> QED BY <3>1, <3>2, <3>3
  <2> HIDE DEF s, q
  <2>5. t \in Loop /\ Larger(s.buf, {q}, t.buf) /\ (AllUsed(s) => AllUsed(t))
    BY <2>3, <2>4, PageAdded DEF Extends, Larger
  <2> HIDE DEF t
  <2>6. f[j] = t
    BY <2>1, <2>5 DEF s, q, t, L, Loops
  <2>7. Pages(allocs, j) = Pages(allocs, k) \cup {q}
    BY <2>2 DEF Pages, q
  <2>8. Larger(b, Pages(allocs, j), t.buf)
    <3> DEFINE c == s.buf
               e == t.buf
    <3>1. Larger(b, Pages(allocs, k), c) /\ Larger(c, {q}, e)
      BY <2>3, <2>5 DEF Extends
    <3> HIDE DEF c, e
    <3>2. \A p \in b.alive : plen(b, p) <= plen(c, p) /\ plen(c, p) <= plen(e, p)
                             /\ plen(b, p) \in Nat /\ plen(c, p) \in Nat /\ plen(e, p) \in Nat
      BY <3>1, Lengths DEF Larger
    <3>3. \A p \in b.alive : plen(b, p) <= plen(e, p)
      BY <3>2
    <3> QED BY <2>7, <3>1, <3>3 DEF Larger, e
  <2>9. Extends(b, data, Pages(allocs, j), t)
    BY <2>3, <2>5, <2>8 DEF Extends
  <2> QED BY <2>1, <2>4, <2>6, <2>9 DEF j, t, s, q
<1>5. 0 .. L \subseteq T
  <2> HIDE DEF T
  <2> QED BY <1>1, <1>3, <1>4, UpTo
<1>6. ASSUME NEW k \in 1 .. L
      PROVE  /\ f[k] = InNewPage(f[k - 1], allocs[k])
             /\ allocs[k] \in Page \cup {NIL} /\ allocs[k] \notin f[k - 1].buf.alive
  <2> DEFINE i == k - 1
  <2>1. i \in 0 .. L - 1 /\ i \in 0 .. L /\ i + 1 = k
    BY <1>1
  <2> HIDE DEF i, T
  <2>2. i \in T
    BY <1>5, <2>1
  <2>3. /\ f[i + 1] = InNewPage(f[i], allocs[i + 1])
        /\ allocs[i + 1] \in Page \cup {NIL} /\ allocs[i + 1] \notin f[i].buf.alive
    BY <1>4, <2>1, <2>2
  <2> QED BY <2>1, <2>3 DEF i
<1> QED BY <1>5, <1>6 DEF L

\* bappendpage's and bindata's loop is such a function.
LEMMA NewPagesLoop ==
  ASSUME NEW b, WellFormed(b), NEW data \in Seq(Byte), NEW allocs, Given(b, allocs)
  PROVE  \E f : /\ Loops(f, [buf |-> b, left |-> data, full |-> FALSE], allocs)
               /\ InNewPages(b, data, allocs) = f[Len(allocs)]
<1> DEFINE L == Len(allocs)
           a == [buf |-> b, left |-> data, full |-> FALSE]
           Next1(k, x) == IF InNewPage(x, allocs[k]) \in Loop THEN InNewPage(x, allocs[k]) ELSE x
           next == [k \in 1 .. L |-> [x \in Loop |-> Next1(k, x)]]
           after == CHOOSE f : f = [k \in 0 .. L |->
                      IF k = 0 THEN a ELSE InNewPage(f[k - 1], allocs[k])]
<1>1. L \in Nat
  BY DEF Given
<1>2. a \in Loop
  BY DEF Loop, WellFormed
<1>3. next \in [1 .. L -> [Loop -> Loop]]
  <2> HIDE DEF L, Loop
  <2> QED OBVIOUS
<1>4. PICK g \in [0 .. L -> Loop] : g[0] = a /\ \A k \in 1 .. L : g[k] = next[k][g[k - 1]]
  <2>1. Recursive(L, Loop, a, next) # {}
    <3> HIDE DEF next, a, L
    <3> QED BY <1>1, <1>2, <1>3, Recursion
  <2> HIDE DEF next, a
  <2> QED BY <2>1 DEF Recursive
<1>5. \A k \in 1 .. L : g[k] = Next1(k, g[k - 1])
  <2> TAKE k \in 1 .. L
  <2>1. k - 1 \in 0 .. L
    BY <1>1
  <2>2. g[k - 1] \in Loop
    BY <2>1
  <2>3. g[k] = next[k][g[k - 1]]
    BY <1>4
  <2> HIDE DEF L, Loop
  <2> QED BY <2>2, <2>3
<1> HIDE DEF next
<1>6. \A k \in 1 .. L : g[k] = InNewPage(g[k - 1], allocs[k])
  <2>1. Loops(g, [buf |-> b, left |-> data, full |-> FALSE], allocs)
    BY <1>4, <1>5 DEF Loops
  <2> QED BY <2>1, LoopExtends
<1>7. g = [k \in 0 .. L |-> IF k = 0 THEN a ELSE InNewPage(g[k - 1], allocs[k])]
  <2>1. \A k \in 0 .. L : g[k] = IF k = 0 THEN a ELSE InNewPage(g[k - 1], allocs[k])
    <3> HIDE DEF a
    <3> TAKE k \in 0 .. L
    <3>1. k # 0 => k \in 1 .. L
      BY <1>1
    <3> QED BY <1>4, <1>6, <3>1
  <2> QED BY <2>1
<1>8. after = [k \in 0 .. L |-> IF k = 0 THEN a ELSE InNewPage(after[k - 1], allocs[k])]
  BY <1>7
<1>9. InNewPages(b, data, allocs) = after[L]
  BY DEF InNewPages
<1> HIDE DEF after
<1>10. after[0] = a /\ \A k \in 1 .. L : after[k] = InNewPage(after[k - 1], allocs[k])
  <2> HIDE DEF a
  <2>1. 0 \in 0 .. L /\ \A k \in 1 .. L : k \in 0 .. L /\ k # 0
    BY <1>1
  <2> QED BY <1>8, <2>1
<1>11. Loops(after, [buf |-> b, left |-> data, full |-> FALSE], allocs)
  BY <1>10 DEF Loops
<1> QED BY <1>9, <1>11

\* The loop makes the buffer larger, and uses each page.
LEMMA NewPagesFilled ==
  ASSUME NEW b, WellFormed(b), NEW data \in Seq(Byte), NEW allocs, Given(b, allocs)
  PROVE  Extends(b, data, Pages(allocs, Len(allocs)), InNewPages(b, data, allocs))
<1> DEFINE L == Len(allocs)
<1>1. PICK f : /\ Loops(f, [buf |-> b, left |-> data, full |-> FALSE], allocs)
               /\ InNewPages(b, data, allocs) = f[L]
  BY NewPagesLoop
<1>2. L \in 0 .. L
  BY DEF Given
<1> QED BY <1>1, <1>2, LoopExtends

-----------------------------------------------------------------------------
(* The calls that insert. *)

\* No page is empty, but one that is current and gets some of data.
Fillable(b, data) ==
  /\ \A p \in b.alive \ {b.curpage} : plen(b, p) # 0
  /\ curplen(b) = 0 /\ data = <<>> => b.alive = {b.curpage}

\* A buffer without an empty page is such a buffer.
LEMMA UsedFillable ==
  ASSUME NEW b, WellFormed(b), NoEmptyPage(b), NEW data
  PROVE  Fillable(b, data)
BY Lengths DEF NoEmptyPage, Fillable, curplen

\* n is given and taken from the front of data.
LEMMA FilledKeeps ==
  ASSUME NEW b, WellFormed(b), NEW data \in Seq(Byte), NEW n \in 0 .. Len(data),
         curplen(b) + n <= PGSIZE, n > 0 \/ data = <<>> \/ curplen(b) # 0
  PROVE  LET c == Filled(b, data, n)
         IN /\ WellFormed(c) /\ c.alive = b.alive /\ c.curpage = b.curpage
            /\ curplen(c) = curplen(b) + n /\ Rest(data, n) \in Seq(Byte)
            /\ \A p \in b.alive : plen(b, p) <= plen(c, p)
            /\ Fillable(b, data) => NoEmptyPage(c)
<1> DEFINE c == Filled(b, data, n)
<1>1. /\ WellFormed(c) /\ c.alive = b.alive /\ c.curpage = b.curpage
      /\ curplen(c) = curplen(b) + n
      /\ \A p \in b.alive \ {b.curpage} : plen(c, p) = plen(b, p)
  BY FilledWellFormed
<1> HIDE DEF c
<1>2. Rest(data, n) \in Seq(Byte) /\ n \in Nat
  BY TakeDrop DEF Rest
<1>3. curplen(b) \in Nat /\ b.curpage \in b.alive /\ \A p \in b.alive : plen(b, p) \in Nat
  BY Lengths
<1>4. \A p \in b.alive : plen(b, p) <= plen(c, p)
  <2> TAKE p \in b.alive
  <2>1. CASE p = b.curpage
    <3>1. curplen(b) = plen(b, p) /\ curplen(c) = plen(c, p)
      BY <1>1, <2>1 DEF curplen
    <3> QED BY <1>1, <1>2, <1>3, <3>1
  <2>2. CASE p # b.curpage
    BY <1>1, <1>3, <2>2
  <2> QED BY <2>1, <2>2
<1>5. ASSUME Fillable(b, data), NEW p \in c.alive, plen(c, p) = 0
      PROVE  c.alive = {p}
  <2>1. p = b.curpage
    BY <1>1, <1>5 DEF Fillable
  <2>2. curplen(b) + n = 0
    BY <1>1, <1>5, <2>1 DEF curplen
  <2>3. curplen(b) = 0 /\ n = 0
    BY <1>2, <1>3, <2>2
  <2> QED BY <1>1, <1>5, <2>1, <2>3 DEF Fillable
<1> QED BY <1>1, <1>2, <1>4, <1>5 DEF c, NoEmptyPage

\* bappendpage fills the page and goes on in new ones.
LEMMA PageAppended ==
  ASSUME NEW b, WellFormed(b), NEW data \in Seq(Byte), NEW allocs, Given(b, allocs)
  PROVE  LET r == bappendpage(b, data, allocs)
         IN /\ r \in Loop /\ WellFormed(r.buf)
            /\ Fillable(b, data) => NoEmptyPage(r.buf)
<1> DEFINE n == MIN(PGSIZE - curplen(b), Len(data))
           c == Filled(b, data, n)
           l == Rest(data, n)
           r == InNewPages(c, l, allocs)
<1>1. curplen(b) \in Nat /\ curplen(b) <= PGSIZE /\ Len(data) \in Nat /\ PGSIZE \in Nat \ {0}
  BY Lengths, PGSIZEAssumption DEF WellFormed, PagesFit, curplen
<1>2. data # <<>> => Len(data) # 0
  OBVIOUS
<1>3. /\ n \in 0 .. Len(data) /\ curplen(b) + n <= PGSIZE
      /\ n > 0 \/ data = <<>> \/ curplen(b) # 0
      /\ n = Len(data) \/ curplen(b) + n = PGSIZE
  BY <1>1, <1>2 DEF MIN
<1>4. bappendpage(b, data, allocs) = r
  BY DEF bappendpage
<1> HIDE DEF n
<1>5. /\ WellFormed(c) /\ c.alive = b.alive /\ curplen(c) = curplen(b) + n /\ l \in Seq(Byte)
      /\ Fillable(b, data) => NoEmptyPage(c)
  BY <1>3, FilledKeeps
<1>6. l # <<>> => n # Len(data)
  <2>1. n \in 0 .. Len(data) /\ Len(l) = Len(data) - n
    BY <1>3, TakeDrop DEF Rest
  <2> HIDE DEF l
  <2> QED BY <1>1, <1>5, <2>1
<1> HIDE DEF c, l
<1>7. l # <<>> => curplen(c) # 0
  BY <1>1, <1>3, <1>5, <1>6
<1>8. Given(c, allocs)
  BY <1>5 DEF Given
<1>9. Extends(c, l, Pages(allocs, Len(allocs)), r)
  BY <1>5, <1>8, NewPagesFilled
<1> HIDE DEF r
<1> QED BY <1>4, <1>5, <1>7, <1>9 DEF Extends, Larger, AllUsed

\* What is left of the results of calloc when the first n have been used.
LEMMA GivenRest ==
  ASSUME NEW b, WellFormed(b), NEW allocs, Given(b, allocs), NEW n \in 0 .. Len(allocs),
         NEW s, s.alive \subseteq Page, s.alive \subseteq b.alive \cup Pages(allocs, n)
  PROVE  Given(s, Rest(allocs, n))
<1> DEFINE L == Len(allocs)
           t == Rest(allocs, n)
<1>1. /\ allocs \in Seq(Page \cup {NIL}) /\ L \in Nat /\ n \in Nat
      /\ \A i \in 1 .. L : allocs[i] \notin b.alive
      /\ \A i, j \in 1 .. L : i # j /\ allocs[i] = allocs[j] => allocs[i] = NIL
  BY DEF Given
<1>2. t \in Seq(Page \cup {NIL}) /\ Len(t) = L - n /\ \A i \in 1 .. L - n : t[i] = allocs[n + i]
  BY <1>1 DEF Rest
<1> HIDE DEF t
<1>3. \A i \in 1 .. L - n : n + i \in 1 .. L /\ n + i \notin 1 .. n
  BY <1>1
<1>4. \A i \in 1 .. n : i \in 1 .. L
  BY <1>1
<1> HIDE DEF L
<1>5. ASSUME NEW i \in 1 .. L - n
      PROVE  t[i] \notin s.alive
  <2> DEFINE k == n + i
  <2>1. k \in 1 .. L /\ k \notin 1 .. n /\ t[i] = allocs[k]
    BY <1>2, <1>3
  <2> HIDE DEF k
  <2>2. ASSUME allocs[k] \in Pages(allocs, n)
        PROVE  allocs[k] = NIL
    <3>1. PICK j \in 1 .. n : allocs[k] = allocs[j]
      BY <2>2 DEF Pages
    <3> QED BY <1>1, <1>4, <2>1, <3>1
  <2> QED BY <1>1, <2>1, <2>2, PageAssumption
<1>6. ASSUME NEW i \in 1 .. L - n, NEW j \in 1 .. L - n, i # j, t[i] = t[j]
      PROVE  t[i] = NIL
  <2>1. n + i # n + j
    BY <1>6
  <2> QED BY <1>1, <1>2, <1>3, <1>6, <2>1
<1> QED BY <1>2, <1>5, <1>6 DEF Given, t

\* A page split at the point: neither half is empty, but the first if the point was
\* at its start.
LEMMA SplitAtPoint ==
  ASSUME NEW b, WellFormed(b), b.curchar # curplen(b), NEW q \in Page \ b.alive
  PROVE  LET s == pagesplit(b, q, b.curchar)
         IN /\ WellFormed(s) /\ s.alive = b.alive \cup {q}
            /\ s.curpage = b.curpage /\ s.curchar = b.curchar /\ curplen(s) = b.curchar
            /\ NoEmptyPage(b) => \A p \in s.alive \ {s.curpage} : plen(s, p) # 0
            /\ NoEmptyPage(b) /\ b.curchar # 0 => NoEmptyPage(s)
<1> DEFINE d == b.curchar
           s == pagesplit(b, q, d)
<1>1. /\ curplen(b) \in Nat /\ d \in Nat /\ d <= curplen(b) /\ b.curpage \in b.alive
      /\ d # curplen(b)
  BY Lengths
<1>2. d \in 0 .. curplen(b) /\ ~ (b.curchar > d) /\ curplen(b) - d # 0
  BY <1>1
<1>3. /\ WellFormed(s) /\ s.alive = b.alive \cup {q}
      /\ s.curpage = b.curpage /\ s.curchar = d
      /\ plen(s, b.curpage) = d
      /\ plen(s, q) = curplen(b) - d
      /\ \A p \in b.alive \ {b.curpage} : plen(s, p) = plen(b, p)
  BY <1>2, PageSplit
<1> HIDE DEF s
<1>4. ASSUME NoEmptyPage(b), NEW p \in s.alive \ {s.curpage}
      PROVE  plen(s, p) # 0
  <2>1. CASE p = q
    BY <1>2, <1>3, <2>1
  <2>2. CASE p # q
    BY <1>1, <1>3, <1>4, <2>2 DEF NoEmptyPage
  <2> QED BY <2>1, <2>2
<1>5. NoEmptyPage(b) /\ d # 0 => NoEmptyPage(s)
  BY <1>3, <1>4 DEF NoEmptyPage
<1> QED BY <1>3, <1>4, <1>5 DEF s, curplen

\* bindata, wherever the point is in its page.
LEMMA BlockInserted ==
  ASSUME NEW b, WellFormed(b), NEW data \in Seq(Byte), NEW allocs, Given(b, allocs),
         Len(allocs) > 0
  PROVE  LET r == bindata(b, data, allocs)
         IN WellFormed(r.buf) /\ (NoEmptyPage(b) => NoEmptyPage(r.buf))
<1> DEFINE r == bindata(b, data, allocs)
           q == allocs[1]
<1>1. /\ curplen(b) \in Nat /\ curplen(b) <= PGSIZE /\ Len(data) \in Nat /\ PGSIZE \in Nat
  BY Lengths, PGSIZEAssumption DEF WellFormed, PagesFit, curplen
<1>2. CASE b.curchar = curplen(b)
  <2>1. r = bappendpage(b, data, allocs)
    BY <1>2 DEF bindata
  <2> HIDE DEF r
  <2>2. NoEmptyPage(b) => Fillable(b, data)
    BY UsedFillable
  <2> QED BY <2>1, <2>2, PageAppended DEF r
<1>3. CASE b.curchar # curplen(b) /\ PGSIZE - curplen(b) >= Len(data)
  <2>1. r = [buf |-> InPlace(b, data), left |-> <<>>]
    <3>1. ~ (PGSIZE - curplen(b) < Len(data))
      BY <1>1, <1>3
    <3> QED BY <1>3, <3>1 DEF bindata
  <2>2. r.buf \in {InPlace(b, data), Gapped(b, data)}
    BY <2>1
  <2>3. curplen(b) + Len(data) <= PGSIZE
    BY <1>1, <1>3
  <2> HIDE DEF r
  <2> QED BY <2>2, <2>3, Widened DEF r
<1>4. CASE b.curchar # curplen(b) /\ ~ (PGSIZE - curplen(b) >= Len(data)) /\ q = NIL
  <2>1. PGSIZE - curplen(b) < Len(data)
    BY <1>1, <1>4
  <2>2. r = [buf |-> b, left |-> data]
    BY <1>4, <2>1 DEF bindata
  <2> QED BY <2>2
<1>5. CASE b.curchar # curplen(b) /\ ~ (PGSIZE - curplen(b) >= Len(data)) /\ q # NIL
  <2> DEFINE s    == pagesplit(b, q, b.curchar)
             rest == Rest(allocs, 1)
  <2>1. PGSIZE - curplen(b) < Len(data) /\ Len(data) # 0
    BY <1>1, <1>5
  <2>2. data # <<>>
    BY <2>1
  <2>3. r = bappendpage(s, data, rest)
    BY <1>5, <2>1 DEF bindata
  <2>4. q \in Page \ b.alive /\ 1 \in 0 .. Len(allocs) /\ q \in Pages(allocs, 1)
    <3>1. Len(allocs) \in Nat /\ 1 \in 1 .. Len(allocs) /\ q \in Page \cup {NIL}
      BY DEF Given
    <3> QED BY <1>5, <3>1 DEF Given, Pages
  <2> HIDE DEF q
  <2>5. /\ WellFormed(s) /\ s.alive = b.alive \cup {q}
        /\ NoEmptyPage(b) => \A p \in s.alive \ {s.curpage} : plen(s, p) # 0
    BY <1>5, <2>4, SplitAtPoint
  <2> HIDE DEF s, r
  <2>6. Given(s, rest)
    <3>1. s.alive \subseteq Page /\ s.alive \subseteq b.alive \cup Pages(allocs, 1)
      BY <2>4, <2>5, Lengths
    <3> QED BY <2>4, <3>1, GivenRest
  <2>7. NoEmptyPage(b) => Fillable(s, data)
    BY <2>2, <2>5 DEF Fillable
  <2> HIDE DEF rest
  <2> QED BY <2>3, <2>5, <2>6, <2>7, PageAppended DEF r
<1> QED BY <1>2, <1>3, <1>4, <1>5

\* bappend.
LEMMA BlockAppended ==
  ASSUME NEW b, WellFormed(b), NEW data \in Seq(Byte), NEW allocs, Given(b, allocs)
  PROVE  LET r == bappendpage(btoend(b), data, allocs)
         IN WellFormed(r.buf) /\ (NoEmptyPage(b) => NoEmptyPage(r.buf))
<1> DEFINE e == btoend(b)
<1>1. WellFormed(e) /\ e.alive = b.alive /\ (NoEmptyPage(b) => NoEmptyPage(e))
  <2>1. b.lastp \in b.alive /\ plen(b, b.lastp) \in Nat /\ plen(b, b.lastp) <= plen(b, b.lastp)
    BY Lengths
  <2> QED BY <2>1, PointMove DEF btoend
<1> HIDE DEF e
<1>2. Given(e, allocs)
  BY <1>1 DEF Given
<1>3. NoEmptyPage(b) => Fillable(e, data)
  BY <1>1, UsedFillable
<1> QED BY <1>1, <1>2, <1>3, PageAppended DEF e

\* breadv.  An empty page is left if nothing is read at the start of a page.
LEMMA VectorRead ==
  ASSUME NEW b, WellFormed(b), NEW data \in Seq(Byte),
         NEW q1 \in (Page \ b.alive) \cup {NIL}, NEW q2 \in (Page \ b.alive) \cup {NIL},
         q1 = q2 => q1 = NIL
  PROVE  LET r == breadv(b, data, q1, q2)
         IN /\ WellFormed(r.buf)
            /\ NoEmptyPage(b) /\ (data # <<>> \/ b.curchar # 0) => NoEmptyPage(r.buf)
<1> DEFINE r == breadv(b, data, q1, q2)
           split == b.curchar # curplen(b)
           s == IF split THEN pagesplit(b, q1, b.curchar) ELSE b
           a == <<q2>>
<1>1. NIL \notin b.alive
  BY Lengths, PageAssumption
<1>2. CASE split /\ q1 = NIL
  <2>1. r = [buf |-> b, ret |-> -1]
    BY <1>2 DEF breadv
  <2> QED BY <2>1
<1>3. CASE ~ (split /\ q1 = NIL)
  <2>1. r.buf = bappendpage(s, data, a).buf
    BY <1>3 DEF breadv, bappendpage
  <2>2. /\ WellFormed(s) /\ s.alive \subseteq b.alive \cup {q1}
        /\ NoEmptyPage(b) /\ (data # <<>> \/ b.curchar # 0) => Fillable(s, data)
    <3>1. CASE split
      <4> DEFINE t == pagesplit(b, q1, b.curchar)
      <4>1. q1 \in Page \ b.alive
        BY <1>3, <3>1
      <4>2. /\ WellFormed(t) /\ t.alive = b.alive \cup {q1} /\ curplen(t) = b.curchar
            /\ NoEmptyPage(b) => \A p \in t.alive \ {t.curpage} : plen(t, p) # 0
        BY <3>1, <4>1, SplitAtPoint
      <4> HIDE DEF t
      <4>3. NoEmptyPage(b) /\ (data # <<>> \/ b.curchar # 0) => Fillable(t, data)
        BY <4>2 DEF Fillable
      <4>4. s = t
        BY <3>1 DEF t
      <4> QED BY <4>2, <4>3, <4>4
    <3>2. CASE ~ split
      BY <3>2, UsedFillable
    <3> QED BY <3>1, <3>2
  <2>3. Given(s, a)
    <3>1. a \in Seq(Page \cup {NIL}) /\ Len(a) = 1 /\ a[1] = q2
      OBVIOUS
    <3>2. q2 \notin s.alive
      <4>1. NIL \notin s.alive
        BY <2>2, Lengths, PageAssumption
      <4> QED BY <2>2, <4>1
    <3>3. \A i \in 1 .. 1 : i = 1
      OBVIOUS
    <3> HIDE DEF a, s
    <3> QED BY <3>1, <3>2, <3>3 DEF Given
  <2> HIDE DEF s, a, r, split
  <2>4. /\ WellFormed(bappendpage(s, data, a).buf)
        /\ Fillable(s, data) => NoEmptyPage(bappendpage(s, data, a).buf)
    BY <2>2, <2>3, PageAppended
  <2> QED BY <2>1, <2>2, <2>4 DEF r
<1> QED BY <1>2, <1>3

-----------------------------------------------------------------------------
(* Reading a file. *)

\* breadfile's loop, from the page it starts in.
ReadFrom(b, data, allocs) ==
  LET n == IF curplen(b) = 0 THEN MIN(PGSIZE, Len(data)) ELSE 0
  IN InNewPages(Filled(b, data, n), Rest(data, n), allocs)

\* It keeps the page it starts in, which does not get shorter.
LEMMA ReadPages ==
  ASSUME NEW b, WellFormed(b), NEW data \in Seq(Byte), NEW allocs, Given(b, allocs)
  PROVE  LET r == ReadFrom(b, data, allocs)
         IN /\ WellFormed(r.buf) /\ b.curpage \in r.buf.alive
            /\ curplen(b) <= plen(r.buf, b.curpage)
            /\ Fillable(b, data) => NoEmptyPage(r.buf)
<1> DEFINE n == IF curplen(b) = 0 THEN MIN(PGSIZE, Len(data)) ELSE 0
           c == Filled(b, data, n)
           l == Rest(data, n)
           r == InNewPages(c, l, allocs)
<1>1. /\ curplen(b) \in Nat /\ curplen(b) <= PGSIZE /\ Len(data) \in Nat /\ PGSIZE \in Nat \ {0}
      /\ b.curpage \in b.alive /\ curplen(b) = plen(b, b.curpage)
  BY Lengths, PGSIZEAssumption DEF WellFormed, PagesFit, curplen
<1>2. data # <<>> => Len(data) # 0
  OBVIOUS
<1>3. /\ n \in 0 .. Len(data) /\ curplen(b) + n <= PGSIZE
      /\ n > 0 \/ data = <<>> \/ curplen(b) # 0
      /\ n = Len(data) \/ curplen(b) + n # 0
  BY <1>1, <1>2 DEF MIN
<1>4. ReadFrom(b, data, allocs) = r
  BY DEF ReadFrom
<1> HIDE DEF n
<1>5. /\ WellFormed(c) /\ c.alive = b.alive /\ c.curpage = b.curpage
      /\ curplen(c) = curplen(b) + n /\ l \in Seq(Byte)
      /\ \A p \in b.alive : plen(b, p) <= plen(c, p)
      /\ Fillable(b, data) => NoEmptyPage(c)
  BY <1>3, FilledKeeps
<1>6. l # <<>> => curplen(c) # 0
  <2>1. n \in 0 .. Len(data) /\ Len(l) = Len(data) - n
    BY <1>3, TakeDrop DEF Rest
  <2> HIDE DEF l, c
  <2> QED BY <1>1, <1>3, <1>5, <2>1
<1> HIDE DEF c, l
<1>7. Given(c, allocs)
  BY <1>5 DEF Given
<1>8. Extends(c, l, Pages(allocs, Len(allocs)), r)
  BY <1>5, <1>7, NewPagesFilled
<1> HIDE DEF r
<1>9. /\ WellFormed(r.buf) /\ c.alive \subseteq r.buf.alive
      /\ \A p \in c.alive : plen(c, p) <= plen(r.buf, p)
      /\ Fillable(b, data) => NoEmptyPage(r.buf)
  BY <1>5, <1>6, <1>8 DEF Extends, Larger, AllUsed
<1>10. curplen(b) <= plen(r.buf, b.curpage)
  <2> DEFINE x == plen(b, b.curpage)
             y == plen(c, b.curpage)
             z == plen(r.buf, b.curpage)
  <2>1. x \in Nat /\ y \in Nat /\ z \in Nat /\ x <= y /\ y <= z /\ curplen(b) = x
    BY <1>1, <1>5, <1>9, Lengths
  <2> HIDE DEF x, y, z
  <2>2. curplen(b) <= z
    BY <2>1
  <2> QED BY <2>2 DEF z
<1> QED BY <1>1, <1>4, <1>5, <1>9, <1>10

\* The point was in the middle of a page: what the file is read into.
LEMMA PageForFile ==
  ASSUME NEW b, WellFormed(b), curplen(b) # 0,
         NEW q1 \in (Page \ b.alive) \cup {NIL}, NEW q2 \in (Page \ b.alive) \cup {NIL},
         q1 = q2 => q1 = NIL
  PROVE  LET o == Opened(b, q1, q2)
         IN /\ WellFormed(o.buf) /\ o.buf.alive \subseteq b.alive \cup {q1, q2}
            /\ o.done \in BOOLEAN
            /\ NoEmptyPage(b) /\ b.curchar \notin {0, curplen(b)} =>
                 IF o.done THEN \A p \in o.buf.alive \ {o.buf.curpage} : plen(o.buf, p) # 0
                           ELSE NoEmptyPage(o.buf)
<1> DEFINE o == Opened(b, q1, q2)
           s == IF q1 = NIL THEN b ELSE pagesplit(b, q1, b.curchar)
           good == NoEmptyPage(b) /\ b.curchar \notin {0, curplen(b)}
<1>1. /\ curplen(b) \in Nat /\ b.curchar \in Nat /\ b.curchar <= curplen(b)
      /\ b.curpage \in b.alive /\ NIL \notin b.alive /\ curplen(b) = plen(b, b.curpage)
  BY Lengths, PageAssumption
<1>2. /\ WellFormed(s) /\ s.alive \subseteq b.alive \cup {q1}
      /\ good => \A p \in s.alive : plen(s, p) # 0
  <2>1. CASE q1 = NIL
    <3>1. s = b
      BY <2>1
    <3> HIDE DEF s
    <3> QED BY <1>1, <3>1 DEF NoEmptyPage
  <2>2. CASE q1 # NIL
    <3> DEFINE d == b.curchar
    <3>1. d \in 0 .. curplen(b) /\ ~ (d > d)
      BY <1>1
    <3>2. s = pagesplit(b, q1, d) /\ q1 \in Page \ b.alive
      BY <2>2
    <3> HIDE DEF s
    <3>3. /\ WellFormed(s) /\ s.alive = b.alive \cup {q1}
          /\ plen(s, b.curpage) = d
          /\ plen(s, q1) = curplen(b) - d
          /\ \A p \in b.alive \ {b.curpage} : plen(s, p) = plen(b, p)
      BY <3>1, <3>2, PageSplit
    <3>4. ASSUME good, NEW p \in s.alive
          PROVE  plen(s, p) # 0
      <4>1. CASE p = q1
        BY <1>1, <3>3, <3>4, <4>1
      <4>2. CASE p = b.curpage
        BY <3>3, <3>4, <4>2
      <4>3. CASE p \notin {q1, b.curpage}
        BY <1>1, <3>3, <3>4, <4>3 DEF NoEmptyPage
      <4> QED BY <4>1, <4>2, <4>3
    <3> QED BY <3>3, <3>4
  <2> QED BY <2>1, <2>2
<1>3. CASE q2 = NIL
  <2>1. o = [buf |-> s, done |-> FALSE]
    BY <1>3 DEF Opened
  <2>2. o.buf = s /\ o.done = FALSE
    BY <2>1
  <2> HIDE DEF o, s
  <2> QED BY <1>2, <2>2 DEF NoEmptyPage, o
<1>4. CASE q2 # NIL
  <2> DEFINE t == makecur(newpage(s, q2), q2, 0)
  <2>1. o = [buf |-> t, done |-> TRUE]
    BY <1>4 DEF Opened
  <2>2. o.buf = t /\ o.done = TRUE
    BY <2>1
  <2> HIDE DEF o, s
  <2>3. q2 \in Page \ s.alive
    BY <1>2, <1>4
  <2>4. /\ WellFormed(t) /\ t.alive = s.alive \cup {q2} /\ t.curpage = q2
        /\ \A p \in s.alive : plen(t, p) = plen(s, p)
    BY <1>2, <2>3, PageOpened
  <2> HIDE DEF t
  <2> QED BY <1>2, <2>2, <2>4 DEF o
<1> QED BY <1>3, <1>4

\* breadfile.  An empty page is left if the point is at an end of its page, which is
\* neither empty nor full, or if nothing is read.
LEMMA FileRead ==
  ASSUME NEW b, WellFormed(b), NEW data \in Seq(Byte), NEW allocs, Given(b, allocs),
         Len(allocs) > 1
  PROVE  LET r == breadfile(b, data, allocs)
         IN /\ WellFormed(r.buf)
            /\ NoEmptyPage(b)
               /\ ~ (curplen(b) # 0 /\ b.curchar < PGSIZE
                     /\ (b.curchar \in {0, curplen(b)} \/ data = <<>>))
                 => NoEmptyPage(r.buf)
<1> DEFINE middle == curplen(b) # 0 /\ b.curchar < PGSIZE
           o      == IF middle THEN Opened(b, allocs[1], allocs[2]) ELSE [buf |-> b, done |-> TRUE]
           used   == IF middle THEN 2 ELSE 0
           r      == ReadFrom(o.buf, data, Rest(allocs, used))
           f      == breadfile(b, data, allocs)
           hole   == middle /\ (b.curchar \in {0, curplen(b)} \/ data = <<>>)
<1>1. f = CASE ~ o.done                 -> o
            [] o.done /\ r.left # <<>>  ->
                 [buf  |-> makeoffset(r.buf, IF r.buf.curpage = o.buf.curpage
                                             THEN o.buf.curchar ELSE 0),
                  done |-> FALSE]
            [] o.done /\ r.left = <<>>  ->
                 [buf  |-> [makecur(r.buf, o.buf.curpage, o.buf.curchar) EXCEPT !.bmodf = FALSE],
                  done |-> TRUE]
  BY DEF breadfile, ReadFrom
<1>2. /\ Len(allocs) \in Nat /\ 1 \in 1 .. Len(allocs) /\ 2 \in 1 .. Len(allocs)
      /\ used \in 0 .. Len(allocs)
      /\ allocs[1] \in Page \cup {NIL} /\ allocs[2] \in Page \cup {NIL}
  BY DEF Given
<1>3. /\ WellFormed(o.buf) /\ o.buf.alive \subseteq b.alive \cup Pages(allocs, used)
      /\ o.done \in BOOLEAN
      /\ NoEmptyPage(b) /\ ~ hole =>
           IF o.done THEN Fillable(o.buf, data) ELSE NoEmptyPage(o.buf)
  <2>1. CASE middle
    <3> DEFINE q1 == allocs[1]
               q2 == allocs[2]
               x  == Opened(b, q1, q2)
    <3>1. /\ q1 \in (Page \ b.alive) \cup {NIL} /\ q2 \in (Page \ b.alive) \cup {NIL}
          /\ q1 = q2 => q1 = NIL
      BY <1>2 DEF Given
    <3>2. q1 \in Pages(allocs, used) /\ q2 \in Pages(allocs, used)
      <4>1. used = 2 /\ 1 \in 1 .. 2 /\ 2 \in 1 .. 2
        BY <2>1
      <4> QED BY <4>1 DEF Pages
    <3>3. o = x
      BY <2>1
    <3> HIDE DEF q1, q2
    <3>4. /\ WellFormed(x.buf) /\ x.buf.alive \subseteq b.alive \cup {q1, q2}
          /\ x.done \in BOOLEAN
          /\ NoEmptyPage(b) /\ b.curchar \notin {0, curplen(b)} =>
               IF x.done THEN \A p \in x.buf.alive \ {x.buf.curpage} : plen(x.buf, p) # 0
                         ELSE NoEmptyPage(x.buf)
      BY <2>1, <3>1, PageForFile
    <3> HIDE DEF x, o, used
    <3>5. NoEmptyPage(b) /\ ~ hole => b.curchar \notin {0, curplen(b)} /\ data # <<>>
      BY <2>1
    <3> HIDE DEF hole
    <3> QED BY <3>2, <3>3, <3>4, <3>5 DEF Fillable
  <2>2. CASE ~ middle
    <3>1. o.buf = b /\ o.done = TRUE
      BY <2>2
    <3> HIDE DEF o, hole, middle
    <3> QED BY <3>1, UsedFillable
  <2> QED BY <2>1, <2>2
<1> DEFINE rest == Rest(allocs, used)
<1> HIDE DEF middle, hole, o, used
<1>4. Given(o.buf, rest)
  BY <1>2, <1>3, GivenRest, Lengths
<1> HIDE DEF rest
<1>5. /\ WellFormed(r.buf) /\ o.buf.curpage \in r.buf.alive
      /\ curplen(o.buf) <= plen(r.buf, o.buf.curpage)
      /\ Fillable(o.buf, data) => NoEmptyPage(r.buf)
  BY <1>3, <1>4, ReadPages DEF rest
<1> HIDE DEF r
<1> DEFINE p == o.buf.curpage
           d == o.buf.curchar
           e == r.buf
<1>6. d \in Nat /\ d <= plen(e, p) /\ p \in e.alive /\ WellFormed(e)
  <2>1. /\ d \in Nat /\ d <= curplen(o.buf) /\ curplen(o.buf) \in Nat
        /\ plen(e, p) \in Nat
    BY <1>3, <1>5, Lengths
  <2> HIDE DEF d, p, e
  <2>2. curplen(o.buf) <= plen(e, p) /\ p \in e.alive /\ WellFormed(e)
    BY <1>5 DEF e, p
  <2> QED BY <2>1, <2>2
<1> HIDE DEF f
<1>7. CASE ~ o.done
  BY <1>1, <1>3, <1>7 DEF f, hole, middle
<1>8. CASE o.done /\ r.left # <<>>
  <2> DEFINE x == IF e.curpage = p THEN d ELSE 0
  <2>1. f.buf = makeoffset(e, x)
    BY <1>1, <1>8
  <2>2. x \in Nat /\ x <= plen(e, e.curpage) /\ e.curpage \in e.alive
    <3> HIDE DEF d, p, e
    <3>1. curplen(e) \in Nat /\ plen(e, e.curpage) = curplen(e) /\ e.curpage \in e.alive
      BY <1>6, Lengths
    <3>2. e.curpage = p => x = d
      OBVIOUS
    <3> QED BY <1>6, <3>1, <3>2
  <2> HIDE DEF x
  <2>3. makeoffset(e, x) = makecur(e, e.curpage, x)
    BY <1>6 DEF makeoffset, makecur, WellFormed, Buffer
  <2>4. WellFormed(makecur(e, e.curpage, x)) /\ (NoEmptyPage(e) => NoEmptyPage(makecur(e, e.curpage, x)))
    BY <1>6, <2>2, PointMove
  <2> HIDE DEF p, d
  <2> QED BY <1>3, <1>5, <1>8, <2>1, <2>3, <2>4 DEF f, hole, middle, e
<1>9. CASE o.done /\ r.left = <<>>
  <2> DEFINE g == makecur(e, p, d)
             h == [g EXCEPT !.bmodf = FALSE]
  <2>1. f.buf = h
    BY <1>1, <1>9
  <2>2. WellFormed(g) /\ (NoEmptyPage(e) => NoEmptyPage(g))
    <3> HIDE DEF p, d, e
    <3> QED BY <1>6, PointMove
  <2> HIDE DEF g
  <2>3. WellFormed(h) /\ (NoEmptyPage(g) => NoEmptyPage(h))
    BY <2>2, Unmodified
  <2> HIDE DEF h
  <2> QED BY <1>3, <1>5, <1>9, <2>1, <2>2, <2>3 DEF f, hole, middle, e
<1> QED BY <1>3, <1>7, <1>8, <1>9

-----------------------------------------------------------------------------
(* What the steps rely on. *)

\* A copy in progress has something left of the region, if only the empty string,
\* and a write is at a page that is in the list.
CallInProgress ==
  \/ bulk = NoBulk
  \/ /\ bulk.op = "bcopyrgn"
     /\ bulk = [op |-> "bcopyrgn", left |-> bulk.left, copied |-> bulk.copied,
                region |-> bulk.region]
     /\ bulk.left \in Seq(Seq(Byte)) \ {<<>>}
  \/ /\ bulk.op = "bwritefile"
     /\ bulk = [op |-> "bwritefile", crlf |-> bulk.crlf, page |-> bulk.page,
                file |-> bulk.file, status |-> bulk.status]
     /\ bulk.page \in buf.alive \cup {NIL}
  \/ /\ bulk.op = "bwritev"
     /\ bulk = [op |-> "bwritev", size |-> bulk.size, file |-> bulk.file,
                place |-> bulk.place, more |-> bulk.more]

\* The inductive invariant: the library's, with and without empty pages, and that it
\* is not called while a region is copied or a file is written.
BulkSound ==
  /\ gap \in BOOLEAN /\ Sound(TRUE) /\ (~ gap => Sound(CrossPage))
  /\ CallInProgress /\ (bulk # NoBulk => Idle)

\* What a call or a step of one has to leave.
LEMMA Leaves ==
  ASSUME call' = NoCall, WellFormed(buf'), gap' \in BOOLEAN,
         ~ gap' /\ ~ CrossPage => NoEmptyPage(buf'), CallInProgress'
  PROVE  BulkSound'
<1>1. CrossPage \in BOOLEAN
  BY BoundsAssumption
<1>2. call' \in Call /\ call'.op = "none"
  BY DEF Call, NoCall
<1>3. Sound(TRUE)'
  <2>1. CallInv'
    BY <1>2 DEF CallInv
  <2> QED BY <1>2, <2>1 DEF Sound
<1>4. ~ gap' => Sound(CrossPage)'
  BY <1>1, <1>3 DEF Sound
<1> QED BY <1>3, <1>4 DEF BulkSound, Idle

\* What it finds.
LEMMA Finds ==
  ASSUME BulkSound
  PROVE  /\ WellFormed(buf) /\ gap \in BOOLEAN
         /\ ~ gap /\ ~ CrossPage => NoEmptyPage(buf)
BY BoundsAssumption DEF BulkSound, Sound

\* A call that is one step.
LEMMA OneStep ==
  ASSUME BulkSound, Free, NEW b, NEW result, Do(b, result), bulk' = bulk,
         WellFormed(b), gap' \in BOOLEAN, ~ gap' /\ ~ CrossPage => NoEmptyPage(b)
  PROVE  BulkSound'
<1>1. buf' = b /\ call' = NoCall
  BY DEF Do, Return
<1>2. bulk' = NoBulk
  BY DEF Free
<1>3. CallInProgress'
  BY <1>2 DEF CallInProgress
<1> QED BY <1>1, <1>3, Leaves

\* calloc gives each page once, and none that is in use.
LEMMA CallocGives ==
  ASSUME WellFormed(buf), NEW n \in Nat, NEW allocs \in Allocs(n)
  PROVE  /\ Given(buf, allocs) /\ Len(allocs) = n
         /\ \A i \in 1 .. n : allocs[i] \in (Page \ buf.alive) \cup {NIL}
<1>1. /\ allocs \in [1 .. n -> Calloc]
      /\ \A i, j \in 1 .. n : i # j /\ allocs[i] = allocs[j] => allocs[i] = NIL
  BY DEF Allocs
<1>2. Calloc = (Page \ buf.alive) \cup {NIL} /\ NIL \notin buf.alive
  BY Lengths, PageAssumption DEF Calloc
<1>3. \A i \in 1 .. n : allocs[i] \in (Page \ buf.alive) \cup {NIL}
  BY <1>1, <1>2
<1>4. allocs \in [1 .. n -> Page \cup {NIL}]
  BY <1>1, <1>2
<1>5. allocs \in Seq(Page \cup {NIL}) /\ Len(allocs) = n
  BY <1>4
<1> QED BY <1>1, <1>2, <1>3, <1>5 DEF Given

\* There is a result for each call of calloc that a call makes.
LEMMA EnoughCalls ==
  ASSUME NEW size \in Nat
  PROVE  /\ (size + PGSIZE - 1) \div PGSIZE + 1 \in Nat \ {0}
         /\ (size + 1 + PGSIZE - 1) \div PGSIZE + 1 \in Nat \ {0, 1}
<1>1. PGSIZE \in Nat \ {0}
  BY PGSIZEAssumption
<1>2. ASSUME NEW x \in Nat
      PROVE  x \div PGSIZE \in Nat /\ (x >= PGSIZE => x \div PGSIZE # 0)
  BY <1>1
<1> DEFINE x == size + PGSIZE - 1
           y == size + 1 + PGSIZE - 1
<1>3. x \in Nat /\ y \in Nat /\ y >= PGSIZE
  BY <1>1
<1> HIDE DEF x, y
<1>4. x \div PGSIZE \in Nat /\ y \div PGSIZE \in Nat \ {0}
  BY <1>2, <1>3
<1>5. x \div PGSIZE + 1 \in Nat \ {0} /\ y \div PGSIZE + 1 \in Nat \ {0, 1}
  <2> DEFINE d == x \div PGSIZE
             e == y \div PGSIZE
  <2>1. d \in Nat /\ e \in Nat \ {0}
    BY <1>4
  <2> HIDE DEF d, e
  <2>2. d + 1 \in Nat \ {0} /\ e + 1 \in Nat \ {0, 1}
    BY <2>1
  <2> QED BY <2>2 DEF d, e
<1> QED BY <1>5 DEF x, y

-----------------------------------------------------------------------------
(* One lemma per call. *)

\* bindata and bappend.
LEMMA InsertsInv ==
  ASSUME BulkSound, NEW data \in Data, Bindata(data) \/ Bappend(data)
  PROVE  BulkSound'
<1>1. /\ data \in Seq(Byte) /\ Len(data) \in Nat
      /\ WellFormed(buf) /\ gap \in BOOLEAN
      /\ ~ gap /\ ~ CrossPage => NoEmptyPage(buf)
  BY Finds, BulkAssumption
<1>2. ASSUME NEW allocs \in AllocsFor(Len(data))
      PROVE  Given(buf, allocs) /\ Len(allocs) > 0
  <2> DEFINE n == (Len(data) + PGSIZE - 1) \div PGSIZE + 1
  <2>1. n \in Nat \ {0}
    BY <1>1, EnoughCalls
  <2>2. allocs \in Allocs(n)
    BY <1>2 DEF AllocsFor
  <2> HIDE DEF n
  <2>3. Given(buf, allocs) /\ Len(allocs) = n
    BY <1>1, <2>1, <2>2, CallocGives
  <2> QED BY <2>1, <2>3
<1>3. CASE Bindata(data)
  <2>1. PICK allocs \in AllocsFor(Len(data)) :
          LET r == bindata(buf, data, allocs) IN Do(r.buf, Len(data) - Len(r.left))
    BY <1>3 DEF Bindata
  <2>2. LET r == bindata(buf, data, allocs)
        IN WellFormed(r.buf) /\ (NoEmptyPage(buf) => NoEmptyPage(r.buf))
    BY <1>1, <1>2, BlockInserted
  <2>3. Free /\ bulk' = bulk /\ gap' = gap
    BY <1>3 DEF Bindata
  <2> QED BY <1>1, <2>1, <2>2, <2>3, OneStep
<1>4. CASE Bappend(data)
  <2>1. PICK allocs \in AllocsFor(Len(data)) :
          LET r == bappendpage(btoend(buf), data, allocs) IN Do(r.buf, Len(data) - Len(r.left))
    BY <1>4 DEF Bappend
  <2>2. LET r == bappendpage(btoend(buf), data, allocs)
        IN WellFormed(r.buf) /\ (NoEmptyPage(buf) => NoEmptyPage(r.buf))
    BY <1>1, <1>2, BlockAppended
  <2>3. Free /\ bulk' = bulk /\ gap' = gap
    BY <1>4 DEF Bappend
  <2> QED BY <1>1, <2>1, <2>2, <2>3, OneStep
<1> QED BY <1>3, <1>4

\* breadfile.
LEMMA BreadfileInv ==
  ASSUME BulkSound, NEW data \in Data, Breadfile(data)
  PROVE  BulkSound'
<1> DEFINE hole == /\ curplen(buf) # 0 /\ buf.curchar < PGSIZE
                   /\ buf.curchar \in {0, curplen(buf)} \/ data = <<>>
<1>1. /\ data \in Seq(Byte) /\ Len(data) \in Nat
      /\ WellFormed(buf) /\ gap \in BOOLEAN
      /\ ~ gap /\ ~ CrossPage => NoEmptyPage(buf)
  BY Finds, BulkAssumption
<1>2. PICK allocs \in AllocsFor(Len(data) + 1) :
        LET r == breadfile(buf, data, allocs) IN Do(r.buf, IF r.done THEN 0 ELSE -1)
  BY DEF Breadfile
<1>3. Given(buf, allocs) /\ Len(allocs) > 1
  <2> DEFINE n == (Len(data) + 1 + PGSIZE - 1) \div PGSIZE + 1
  <2>1. n \in Nat \ {0, 1}
    BY <1>1, EnoughCalls
  <2>2. allocs \in Allocs(n)
    BY <1>2 DEF AllocsFor
  <2> HIDE DEF n
  <2>3. Given(buf, allocs) /\ Len(allocs) = n
    BY <1>1, <2>1, <2>2, CallocGives
  <2> QED BY <2>1, <2>3
<1>4. LET r == breadfile(buf, data, allocs)
      IN /\ WellFormed(r.buf)
         /\ NoEmptyPage(buf)
            /\ ~ (curplen(buf) # 0 /\ buf.curchar < PGSIZE
                  /\ (buf.curchar \in {0, curplen(buf)} \/ data = <<>>))
              => NoEmptyPage(r.buf)
  BY <1>1, <1>3, FileRead
<1>5. Free /\ bulk' = bulk /\ gap' = (gap \/ hole)
  BY DEF Breadfile
<1>6. gap' \in BOOLEAN /\ (~ gap' => ~ gap /\ ~ hole)
  <2> HIDE DEF hole
  <2> QED BY <1>1, <1>5
<1> QED BY <1>1, <1>2, <1>4, <1>5, <1>6, OneStep

\* breadv.
LEMMA BreadvInv ==
  ASSUME BulkSound, NEW data \in Data, Breadv(data)
  PROVE  BulkSound'
<1>1. /\ data \in Seq(Byte) /\ Len(data) \in Nat
      /\ WellFormed(buf) /\ gap \in BOOLEAN
      /\ ~ gap /\ ~ CrossPage => NoEmptyPage(buf)
  BY Finds, BulkAssumption
<1>2. PICK allocs \in Allocs(2), n \in 0 .. Len(data) :
        LET got == IF allocs[2] = NIL THEN 0 ELSE n
            r   == breadv(buf, First(data, got), allocs[1], allocs[2])
        IN Do(r.buf, r.ret) /\ gap' = (gap \/ (got = 0 /\ buf.curchar = 0))
  BY DEF Breadv
<1> DEFINE got == IF allocs[2] = NIL THEN 0 ELSE n
           q1  == allocs[1]
           q2  == allocs[2]
           d   == First(data, got)
           r   == breadv(buf, d, q1, q2)
<1>3. Do(r.buf, r.ret) /\ gap' = (gap \/ (got = 0 /\ buf.curchar = 0))
  BY <1>2
<1>4. /\ q1 \in (Page \ buf.alive) \cup {NIL} /\ q2 \in (Page \ buf.alive) \cup {NIL}
      /\ q1 = q2 => q1 = NIL
  <2>1. 1 \in 1 .. 2 /\ 2 \in 1 .. 2 /\ 2 \in Nat
    OBVIOUS
  <2>2. \A i \in 1 .. 2 : allocs[i] \in (Page \ buf.alive) \cup {NIL}
    BY <1>1, <2>1, CallocGives
  <2> QED BY <2>1, <2>2 DEF Allocs
<1>5. got \in 0 .. Len(data)
  BY <1>1
<1> HIDE DEF got, q1, q2
<1>6. d \in Seq(Byte) /\ (got # 0 => d # <<>>)
  <2>1. d \in Seq(Byte) /\ Len(d) = got
    BY <1>1, <1>5, TakeDrop DEF First
  <2> HIDE DEF d
  <2> QED BY <2>1
<1> HIDE DEF d
<1>7. /\ WellFormed(r.buf)
      /\ NoEmptyPage(buf) /\ (d # <<>> \/ buf.curchar # 0) => NoEmptyPage(r.buf)
  BY <1>1, <1>4, <1>6, VectorRead
<1> HIDE DEF r
<1>8. Free /\ bulk' = bulk
  BY DEF Breadv
<1>9. gap' \in BOOLEAN /\ (~ gap' => ~ gap /\ ~ (got = 0 /\ buf.curchar = 0))
  BY <1>1, <1>3
<1> QED BY <1>1, <1>3, <1>6, <1>7, <1>8, <1>9, OneStep

\* The calls that loop, and bwritefile when the file cannot be created.
LEMMA StartsInv ==
  ASSUME BulkSound,
         \/ \E region \in Region : Bcopyrgn(region)
         \/ \E crlf \in BOOLEAN : Bwritefile(crlf)
         \/ \E size \in 0 .. MaxText : Bwritev(size)
         \/ BwritefileNoFile
  PROVE  BulkSound'
<1>1. /\ WellFormed(buf) /\ gap \in BOOLEAN
      /\ ~ gap /\ ~ CrossPage => NoEmptyPage(buf)
  BY Finds
<1>2. ASSUME Free, buf' = buf, call' = call, gap' = gap, CallInProgress'
      PROVE  BulkSound'
  BY <1>1, <1>2, Leaves DEF Free, Idle
<1>3. ASSUME NEW region \in Region, Bcopyrgn(region)
      PROVE  BulkSound'
  <2>1. /\ Free /\ buf' = buf /\ call' = call /\ gap' = gap
        /\ bulk' = [op |-> "bcopyrgn", left |-> region, copied |-> 0,
                    region |-> FlattenSeq(region)]
    BY <1>3 DEF Bcopyrgn
  <2>2. region \in Seq(Seq(Byte)) \ {<<>>}
    BY BulkAssumption
  <2>3. CallInProgress'
    BY <2>1, <2>2 DEF CallInProgress
  <2> QED BY <1>2, <2>1, <2>3
<1>4. ASSUME NEW crlf \in BOOLEAN, Bwritefile(crlf)
      PROVE  BulkSound'
  <2>1. /\ Free /\ buf' = buf /\ call' = call /\ gap' = gap
        /\ bulk' = [op |-> "bwritefile", crlf |-> crlf, page |-> buf.firstp, file |-> <<>>,
                    status |-> 1]
    BY <1>4 DEF Bwritefile
  <2>2. buf.firstp \in buf.alive
    BY <1>1, Lengths
  <2>3. CallInProgress'
    BY <2>1, <2>2 DEF CallInProgress
  <2> QED BY <1>2, <2>1, <2>3
<1>5. ASSUME NEW size \in 0 .. MaxText, Bwritev(size)
      PROVE  BulkSound'
  <2>1. /\ Free /\ buf' = buf /\ call' = call /\ gap' = gap
        /\ bulk' = [op |-> "bwritev", size |-> size, file |-> <<>>, place |-> blocation(buf),
                    more |-> TRUE]
    BY <1>5 DEF Bwritev
  <2>2. CallInProgress'
    BY <2>1 DEF CallInProgress
  <2> QED BY <1>2, <2>1, <2>2
<1>6. CASE BwritefileNoFile
  <2>1. WellFormed(btostart(buf)) /\ (NoEmptyPage(buf) => NoEmptyPage(btostart(buf)))
    BY <1>1, SimpleMoves
  <2>2. Free /\ Do(btostart(buf), 0) /\ bulk' = bulk /\ gap' = gap
    BY <1>6 DEF BwritefileNoFile
  <2> QED BY <1>1, <2>1, <2>2, OneStep
<1> QED BY <1>3, <1>4, <1>5, <1>6

-----------------------------------------------------------------------------
(* One lemma per loop. *)

\* An iteration of bcopyrgn: a chunk for which there is room in the page.
LEMMA CopyInv ==
  ASSUME BulkSound, CopyStep
  PROVE  BulkSound'
<1> DEFINE chunk == Head(bulk.left)
<1>1. /\ WellFormed(buf) /\ gap \in BOOLEAN
      /\ ~ gap /\ ~ CrossPage => NoEmptyPage(buf)
  BY Finds
<1>2. /\ bulk.op = "bcopyrgn" /\ bulk # NoBulk /\ call = NoCall
      /\ bulk = [op |-> "bcopyrgn", left |-> bulk.left, copied |-> bulk.copied,
                 region |-> bulk.region]
      /\ bulk.left \in Seq(Seq(Byte)) \ {<<>>}
  <2>1. bulk.op = "bcopyrgn" /\ NoBulk.op = "none"
    BY DEF CopyStep, NoBulk
  <2>2. bulk # NoBulk
    BY <2>1
  <2> QED BY <2>1, <2>2 DEF BulkSound, CallInProgress, Idle
<1>3. chunk \in Seq(Byte) /\ Len(chunk) \in Nat
  BY <1>2
<1>4. PICK to \in IF curplen(buf) < PGSIZE THEN {buf}
                  ELSE {pagesplit(buf, q, HALFP) : q \in Calloc \ {NIL}} :
        CopyChunk(to, MIN(Len(chunk), PGSIZE - curplen(to)))
  BY DEF CopyStep
<1>5. /\ WellFormed(to) /\ to.alive \subseteq Page
      /\ NoEmptyPage(buf) => NoEmptyPage(to)
  <2>1. CASE curplen(buf) < PGSIZE
    BY <1>1, <1>4, <2>1, Lengths
  <2>2. CASE ~ (curplen(buf) < PGSIZE)
    <3>1. PICK q \in Page \ buf.alive : to = pagesplit(buf, q, HALFP)
      BY <1>4, <2>2 DEF Calloc
    <3>2. curplen(buf) = PGSIZE /\ HALFP \in 1 .. PGSIZE - 1
      BY <1>1, <2>2, Lengths, PGSIZEAssumption, HalfPage DEF WellFormed, PagesFit, curplen
    <3>3. HALFP \in 0 .. curplen(buf) /\ HALFP \in 1 .. curplen(buf) - 1
      BY <3>2, PGSIZEAssumption
    <3> DEFINE h == HALFP
    <3> HIDE DEF h
    <3>4. WellFormed(pagesplit(buf, q, h)) /\ (NoEmptyPage(buf) => NoEmptyPage(pagesplit(buf, q, h)))
      BY <1>1, <3>3, PageSplit DEF h
    <3> QED BY <3>1, <3>4, Lengths DEF h
  <2> QED BY <2>1, <2>2
<1> DEFINE n == MIN(Len(chunk), PGSIZE - curplen(to))
           d == First(chunk, n)
<1>6. n \in 0 .. Len(chunk) /\ curplen(to) + n <= PGSIZE
  <2>1. curplen(to) \in Nat /\ curplen(to) <= PGSIZE /\ PGSIZE \in Nat
    BY <1>5, Lengths, PGSIZEAssumption DEF WellFormed, PagesFit, curplen
  <2> HIDE DEF chunk
  <2> QED BY <1>3, <2>1 DEF MIN
<1>7. /\ buf' = Gapped(to, d)
      /\ bulk' = [bulk EXCEPT !.left = Moved(bulk.left, n), !.copied = bulk.copied + n]
      /\ call' = call /\ gap' = gap
  BY <1>4 DEF CopyChunk
<1> HIDE DEF n
<1>8. d \in Seq(Byte) /\ Len(d) = n
  <2> HIDE DEF chunk
  <2> QED BY <1>3, <1>6, TakeDrop DEF First
<1>9. WellFormed(buf') /\ (NoEmptyPage(to) => NoEmptyPage(buf'))
  <2> HIDE DEF d
  <2>1. buf' \in {InPlace(to, d), Gapped(to, d)}
    BY <1>7
  <2> QED BY <1>5, <1>6, <1>8, <2>1, Widened
<1>10. Moved(bulk.left, n) \in Seq(Seq(Byte)) \ {<<>>}
  <2> DEFINE left == bulk.left
             L    == Len(left)
  <2>1. left \in Seq(Seq(Byte)) /\ L \in Nat /\ L # 0
    BY <1>2
  <2>2. CASE n > 0 /\ n = Len(chunk) /\ L > 1
    <3>1. Moved(left, n) = Tail(left)
      BY <2>2 DEF Moved
    <3>2. Tail(left) \in Seq(Seq(Byte)) /\ Len(Tail(left)) = L - 1
      BY <2>1
    <3>3. L \in Nat /\ L > 1
      BY <2>1, <2>2
    <3> DEFINE t == Tail(left)
    <3>4. Len(t) = L - 1
      BY <3>2
    <3> HIDE DEF t, L
    <3>5. Len(t) # 0
      BY <3>3, <3>4
    <3>6. t # <<>>
      BY <3>5
    <3> QED BY <3>1, <3>2, <3>6 DEF t
  <2>3. CASE ~ (n > 0 /\ n = Len(chunk) /\ L > 1)
    <3> DEFINE rest == Rest(chunk, n)
               new  == [left EXCEPT ![1] = rest]
    <3>1. rest \in Seq(Byte) /\ chunk = left[1]
      BY <1>3, <1>6, <2>1, TakeDrop DEF Rest
    <3>2. Moved(left, n) = new
      BY <2>3, <3>1 DEF Moved
    <3> HIDE DEF rest, left
    <3>3. new \in Seq(Seq(Byte)) /\ Len(new) = L
      BY <2>1, <3>1
    <3>4. new # <<>>
      BY <2>1, <3>3
    <3> QED BY <3>2, <3>3, <3>4 DEF left
  <2> QED BY <2>2, <2>3
<1>11. CallInProgress'
  <2> DEFINE left == Moved(bulk.left, n)
             copied == bulk.copied + n
  <2>1. bulk' = [op |-> "bcopyrgn", left |-> left, copied |-> copied, region |-> bulk.region]
    BY <1>2, <1>7
  <2>2. left \in Seq(Seq(Byte)) \ {<<>>}
    BY <1>10
  <2> HIDE DEF left, copied
  <2> QED BY <2>1, <2>2 DEF CallInProgress
<1> QED BY <1>1, <1>2, <1>5, <1>7, <1>9, <1>11, Leaves

\* A page is written, which the point goes to if it is not empty.
LEMMA WritePageInv ==
  ASSUME BulkSound, WritePage
  PROVE  BulkSound'
<1>1. /\ WellFormed(buf) /\ gap \in BOOLEAN
      /\ ~ gap /\ ~ CrossPage => NoEmptyPage(buf)
  BY Finds
<1>2. /\ bulk # NoBulk /\ call = NoCall
      /\ bulk = [op |-> "bwritefile", crlf |-> bulk.crlf, page |-> bulk.page,
                 file |-> bulk.file, status |-> bulk.status]
      /\ bulk.page \in buf.alive
  <2>1. bulk.op = "bwritefile" /\ bulk.page # NIL /\ NoBulk.op = "none"
    BY DEF WritePage, NoBulk
  <2>2. bulk # NoBulk
    BY <2>1
  <2> QED BY <2>1, <2>2 DEF BulkSound, CallInProgress, Idle
<1>3. /\ buf' = IF plen(buf, bulk.page) = 0 THEN buf ELSE makecur(buf, bulk.page, 0)
      /\ call' = call /\ gap' = gap
  BY DEF WritePage
<1>4. WellFormed(buf') /\ buf'.alive = buf.alive /\ (NoEmptyPage(buf) => NoEmptyPage(buf'))
  <2> DEFINE p == bulk.page
  <2>1. 0 \in Nat /\ 0 <= plen(buf, p) /\ p \in buf.alive
    BY <1>1, <1>2, Lengths
  <2> HIDE DEF p
  <2>2. /\ WellFormed(makecur(buf, p, 0)) /\ makecur(buf, p, 0).alive = buf.alive
        /\ NoEmptyPage(buf) => NoEmptyPage(makecur(buf, p, 0))
    BY <1>1, <2>1, PointMove
  <2> QED BY <1>1, <1>3, <2>2 DEF p
<1>5. CallInProgress'
  <2> DEFINE bytes == Written(buf.data[bulk.page], bulk.crlf)
             next  == buf.nextp[bulk.page]
  <2>1. PICK n \in 0 .. Len(bytes) :
          bulk' = [bulk EXCEPT !.page = next, !.file = bulk.file \o First(bytes, n),
                               !.status = IF n = Len(bytes) THEN 1 ELSE 0]
    BY DEF WritePage
  <2> DEFINE file   == bulk.file \o First(bytes, n)
             status == IF n = Len(bytes) THEN 1 ELSE 0
  <2> HIDE DEF file, status, bytes
  <2>2. bulk' = [op |-> "bwritefile", crlf |-> bulk.crlf, page |-> next, file |-> file,
                 status |-> status]
    <3>1. bulk' = [bulk EXCEPT !.page = next, !.file = file, !.status = status]
      BY <2>1 DEF file, status
    <3>2. PICK c, p, f, t : bulk = [op |-> "bwritefile", crlf |-> c, page |-> p, file |-> f,
                                    status |-> t]
      BY <1>2
    <3> HIDE DEF next
    <3> QED BY <3>1, <3>2
  <2>3. next \in buf'.alive \cup {NIL}
    BY <1>1, <1>2, <1>4, Lengths DEF isLast
  <2> HIDE DEF next
  <2> QED BY <2>2, <2>3 DEF CallInProgress
<1> QED BY <1>1, <1>2, <1>3, <1>4, <1>5, Leaves

\* An iteration of bwritev takes the point on, to a page of the list.
LEMMA BwritevInv ==
  ASSUME BulkSound, BwritevStep
  PROVE  BulkSound'
<1>1. /\ WellFormed(buf) /\ gap \in BOOLEAN
      /\ ~ gap /\ ~ CrossPage => NoEmptyPage(buf)
  BY Finds
<1>2. /\ bulk # NoBulk /\ call = NoCall
      /\ bulk = [op |-> "bwritev", size |-> bulk.size, file |-> bulk.file,
                 place |-> bulk.place, more |-> bulk.more]
  <2>1. bulk.op = "bwritev" /\ NoBulk.op = "none"
    BY DEF BwritevStep, NoBulk
  <2>2. bulk # NoBulk
    BY <2>1
  <2> QED BY <2>1, <2>2 DEF BulkSound, CallInProgress, Idle
<1> DEFINE bytes == First(Ahead(buf), MIN(bulk.size, Len(Ahead(buf))))
<1>3. PICK n \in -1 .. Len(bytes) :
        /\ buf' \in IF n <= 0 THEN {buf} ELSE MovedOn(buf, n)
        /\ bulk' = [bulk EXCEPT !.size = bulk.size - Len(bytes),
                               !.file = bulk.file \o First(bytes, n),
                               !.more = n = Len(bytes) /\ bulk.size > Len(bytes)]
  BY DEF BwritevStep
<1> DEFINE size == bulk.size - Len(bytes)
           file == bulk.file \o First(bytes, n)
           more == n = Len(bytes) /\ bulk.size > Len(bytes)
<1> HIDE DEF bytes
<1>4. WellFormed(buf') /\ (NoEmptyPage(buf) => NoEmptyPage(buf'))
  <2>1. CASE buf' = buf
    BY <1>1, <2>1
  <2>2. CASE buf' \in MovedOn(buf, n)
    <3>1. PICK p \in buf.alive, off \in 0 .. PGSIZE :
            /\ buf' = makecur(buf, p, off)
            /\ buf'.curchar \in {0, curplen(buf')} \/ buf'.curchar < curplen(buf')
      BY <2>2 DEF MovedOn
    <3>2. off \in Nat /\ plen(buf, p) \in Nat
      BY <1>1, PGSIZEAssumption, Lengths
    <3>3. off <= plen(buf, p)
      <4>1. buf'.curchar = off /\ curplen(buf') = plen(buf, p)
        BY <1>1, <3>1 DEF makecur, WellFormed, Buffer, curplen, plen
      <4> QED BY <3>1, <3>2, <4>1
    <3> QED BY <1>1, <3>1, <3>2, <3>3, PointMove
  <2> QED BY <1>3, <2>1, <2>2
<1>5. CallInProgress'
  <2>1. bulk' = [op |-> "bwritev", size |-> size, file |-> file,
                 place |-> bulk.place, more |-> more]
    <3>1. bulk' = [bulk EXCEPT !.size = size, !.file = file, !.more = more]
      BY <1>3
    <3>2. PICK x, f, p, t : bulk = [op |-> "bwritev", size |-> x, file |-> f, place |-> p,
                                    more |-> t]
      BY <1>2
    <3> HIDE DEF size, file, more
    <3> QED BY <3>1, <3>2
  <2> QED BY <2>1 DEF CallInProgress
<1>6. call' = call /\ gap' = gap
  BY DEF BwritevStep
<1> QED BY <1>1, <1>2, <1>4, <1>5, <1>6, Leaves

\* The returns of the calls that loop.
LEMMA ReturnsInv ==
  ASSUME BulkSound, CopyReturn \/ BwritefileReturn \/ BwritevReturn
  PROVE  BulkSound'
<1>1. /\ WellFormed(buf) /\ gap \in BOOLEAN
      /\ ~ gap /\ ~ CrossPage => NoEmptyPage(buf)
  BY Finds
<1>2. call = NoCall
  <2>1. bulk.op \in {"bcopyrgn", "bwritefile", "bwritev"} /\ NoBulk.op = "none"
    BY DEF CopyReturn, BwritefileReturn, BwritevReturn, NoBulk
  <2>2. bulk # NoBulk
    BY <2>1
  <2> QED BY <2>2 DEF BulkSound, Idle
<1>3. bulk' = NoBulk /\ call' = call /\ gap' = gap
  BY DEF CopyReturn, BwritefileReturn, BwritevReturn
<1>4. WellFormed(buf') /\ (NoEmptyPage(buf) => NoEmptyPage(buf'))
  <2>1. CASE buf' = buf
    BY <1>1, <2>1
  <2>2. CASE BwritefileReturn
    <3> DEFINE s    == btostart(buf)
               modf == s.bmodf /\ bulk.status = 0
    <3>1. buf' = [s EXCEPT !.bmodf = modf]
      BY <2>2 DEF BwritefileReturn
    <3>2. WellFormed(s) /\ (NoEmptyPage(buf) => NoEmptyPage(s))
      BY <1>1, SimpleMoves
    <3>3. modf \in BOOLEAN
      OBVIOUS
    <3> HIDE DEF s, modf
    <3>4. LET r == [s EXCEPT !.bmodf = modf]
          IN WellFormed(r) /\ r.alive = s.alive /\ (NoEmptyPage(s) => NoEmptyPage(r))
      BY <3>2, <3>3, Unmodified
    <3> QED BY <3>1, <3>2, <3>4
  <2> QED BY <2>1, <2>2 DEF CopyReturn, BwritevReturn
<1>5. CallInProgress'
  BY <1>3 DEF CallInProgress
<1> QED BY <1>1, <1>2, <1>3, <1>4, <1>5, Leaves

\* The other calls of the library.
LEMMA LibraryInv ==
  ASSUME BulkSound, bulk = NoBulk, Next, bulk' = bulk, gap' = gap
  PROVE  BulkSound'
<1>1. TRUE \in BOOLEAN /\ CrossPage \in BOOLEAN
  BY BoundsAssumption
<1>2. Sound(TRUE)'
  BY <1>1, NextSound DEF BulkSound
<1>3. ~ gap => Sound(CrossPage)'
  BY <1>1, NextSound DEF BulkSound
<1>4. CallInProgress'
  BY DEF CallInProgress
<1> QED BY <1>2, <1>3, <1>4 DEF BulkSound

-----------------------------------------------------------------------------
(* What is put into the text, and where. *)

\* What is put at the end of a string comes after it.
LEMMA SplicedEnd ==
  ASSUME NEW t \in Seq(Byte), NEW z \in Seq(Byte)
  PROVE  Spliced(t, Len(t), Len(t), z) = t \o z
<1>1. SubSeq(t, 1, Len(t)) = t /\ SubSeq(t, Len(t) + 1, Len(t)) = <<>> OBVIOUS
<1>2. t \o z \in Seq(Byte) /\ (t \o z) \o <<>> = t \o z OBVIOUS
<1> QED BY <1>1, <1>2 DEF Spliced

\* Two strings put in one behind the other are one.
LEMMA SplicedOn ==
  ASSUME NEW t \in Seq(Byte), NEW i \in 0 .. Len(t), NEW y \in Seq(Byte), NEW z \in Seq(Byte)
  PROVE  Spliced(Spliced(t, i, i, y), i + Len(y), i + Len(y), z) = Spliced(t, i, i, y \o z)
<1> DEFINE u == Spliced(t, i, i, y)
           x == SubSeq(t, 1, i)
           w == SubSeq(t, i + 1, Len(t))
           h == x \o y
           k == i + Len(y)
<1>1. /\ x \in Seq(Byte) /\ Len(x) = i /\ w \in Seq(Byte) /\ i \in Nat /\ Len(y) \in Nat
  BY TakeDrop
<1>2. u = h \o w BY DEF Spliced
<1> HIDE DEF u, x, w
<1>3. h \in Seq(Byte) /\ Len(h) = k /\ k \in Nat
  <2>1. x \o y \in Seq(Byte) /\ Len(x \o y) = Len(x) + Len(y) BY <1>1, ConcatBytes
  <2> QED BY <1>1, <2>1
<1> HIDE DEF h, k
<1>4. SubSeq(u, 1, k) = h /\ SubSeq(u, k + 1, Len(u)) = w
  <2>1. Len(u) = k + Len(w) /\ Len(w) \in Nat
    <3>1. Len(h \o w) = Len(h) + Len(w) BY <1>1, <1>3, ConcatBytes
    <3> QED BY <1>1, <1>2, <1>3, <3>1
  <2>2. \A j \in 1 .. k : u[j] = h[j] BY <1>1, <1>2, <1>3
  <2>3. \A j \in 1 .. Len(w) : u[k + j] = w[j] BY <1>1, <1>2, <1>3
  <2>4. u \in Seq(Byte) BY <1>1, <1>2, <1>3
  <2> DEFINE f == SubSeq(u, 1, k)
             g == SubSeq(u, k + 1, Len(u))
  <2>5. f \in Seq(Byte) /\ Len(f) = k /\ \A j \in 1 .. k : f[j] = u[j] BY <2>1, <2>4, <1>3
  <2>6. g \in Seq(Byte) /\ Len(g) = Len(w) /\ \A j \in 1 .. Len(w) : g[j] = u[k + j]
    BY <2>1, <2>4, <1>3
  <2> HIDE DEF f, g
  <2>7. f = h BY <1>3, <2>2, <2>5
  <2>8. g = w
    <3>1. w \in Seq(Byte) /\ Len(g) = Len(w) /\ \A j \in 1 .. Len(w) : g[j] = w[j]
      BY <1>1, <2>3, <2>6
    <3> HIDE DEF g
    <3>2. g \in Seq(Byte) BY <2>6
    <3> QED BY <3>1, <3>2
  <2> QED BY <2>7, <2>8 DEF f, g
<1>5. Spliced(u, k, k, z) = (h \o z) \o w BY <1>4 DEF Spliced
<1>6. h \o z = x \o (y \o z) BY <1>1, SMTT(30) DEF h
<1>7. Spliced(t, i, i, y \o z) = (x \o (y \o z)) \o w BY DEF Spliced, x, w
<1> QED BY <1>5, <1>6, <1>7 DEF u, k

\* Cutting a page in two puts the new one in between: it precedes the pages that
\* the first one did.
LEMMA RanksParted ==
  ASSUME NEW b, Listed(b), b.curpage \in b.alive, NEW q \in Page \ b.alive,
         NEW dist, NEW c, Listed(c), Parted(b, c, q, dist)
  PROVE  \A p \in b.alive : Precedes(c, q, p) <=> Precedes(b, b.curpage, p)
<1> DEFINE cur == b.curpage
           w == [p \in Page |-> 1]
           g == [p \in Page |-> IF p = q THEN Rank(b)[cur] + 1
                                ELSE IF Rank(b)[p] > Rank(b)[cur] THEN Rank(b)[p] + 1
                                ELSE Rank(b)[p]]
<1>1. /\ cur \in Page /\ q # cur /\ b.alive \subseteq Page /\ b.nextp \in [Page -> Page \cup {NIL}]
      /\ Rank(b) \in [Page -> Nat] /\ Rank(b)[b.firstp] = 0
  <2>1. b.nextp \in [Page -> Page \cup {NIL}] BY DEF Listed, Buffer
  <2> QED BY <2>1, Ranks, Links
<1>2. w \in [Page -> Nat] /\ \A p \in Page : w[p] = 1 OBVIOUS
<1>3. \A p \in Page : Rank(b)[p] \in Nat BY <1>1
<1>4. g \in [Page -> Nat] BY <1>1, <1>3
<1>5. /\ g[q] = Rank(b)[cur] + 1
      /\ \A p \in b.alive : g[p] = IF Rank(b)[p] > Rank(b)[cur] THEN Rank(b)[p] + 1 ELSE Rank(b)[p]
  BY <1>1
<1> HIDE DEF g, w
<1>6. Counts(c, w, g)
  <2>1. g[c.firstp] = 0 BY <1>1, <1>3, <1>5, Links DEF Parted
  <2>2. ASSUME NEW p \in c.alive \ {c.lastp}
        PROVE  g[c.nextp[p]] = g[p] + w[p]
    <3>0. p \in Page /\ w[p] = 1 BY <1>2, Links
    <3>1. CASE p = q
      <4>1. c.nextp[q] = b.nextp[cur] /\ b.nextp[cur] # NIL /\ cur # b.lastp
        BY <1>1, <2>2, <3>1, Links DEF Parted
      <4>2. b.nextp[cur] \in b.alive /\ Rank(b)[b.nextp[cur]] = Rank(b)[cur] + 1
        BY <1>1, <4>1, Ranks, Links
      <4> QED BY <1>1, <1>3, <1>5, <3>0, <3>1, <4>1, <4>2
    <3>2. CASE p = cur
      <4>1. c.nextp[cur] = q BY <1>1 DEF Parted
      <4> QED BY <1>1, <1>3, <1>5, <3>0, <3>2, <4>1
    <3>3. CASE p # q /\ p # cur
      <4>1. p \in b.alive /\ c.nextp[p] = b.nextp[p] BY <1>1, <3>3 DEF Parted
      <4>2. p # b.lastp
        <5> SUFFICES ASSUME p = b.lastp PROVE FALSE
          OBVIOUS
        <5>1. b.nextp[cur] # NIL => FALSE BY <2>2, <3>3 DEF Parted
        <5>2. cur = b.lastp BY <1>1, <5>1, Links
        <5> QED BY <3>3, <5>2
      <4>3. b.nextp[p] \in b.alive /\ Rank(b)[b.nextp[p]] = Rank(b)[p] + 1
        BY <4>1, <4>2, Ranks, Links
      <4>4. Rank(b)[p] # Rank(b)[cur] BY <3>3, <4>1, RankInjective
      <4> QED BY <1>1, <1>3, <1>5, <3>0, <4>1, <4>3, <4>4
    <3> QED BY <3>1, <3>2, <3>3
  <2> QED BY <1>4, <2>1, <2>2 DEF Counts
<1>7. \A p \in c.alive : Rank(c)[p] = g[p]
  <2>1. Rank(c) = Summed(c, w) BY DEF Rank, w
  <2> QED BY <1>2, <1>6, <2>1, SummedIs
<1> QED BY <1>1, <1>3, <1>5, <1>7 DEF Precedes, Parted

-----------------------------------------------------------------------------
(* Behind the end of the point's page. *)

\* The place in the text where that page ends.
PageEnd(b) == Before(b, b.curpage) + curplen(b)

\* c is b with z put in there, in the page and in new ones behind it, and with the
\* point behind z; no mark has moved in its page.
Longer(b, c, z) ==
  /\ Text(c) = Spliced(Text(b), PageEnd(b), PageEnd(b), z)
  /\ PageEnd(c) = PageEnd(b) + Len(z)
  /\ c.curchar = curplen(c) /\ (isLast(b, b.curpage) => isLast(c, c.curpage))
  /\ c.mpage = b.mpage /\ c.moffset = b.moffset
  /\ b.alive \subseteq c.alive /\ c.curpage \notin b.alive \ {b.curpage}
  /\ \A p \in b.alive :
       /\ Before(c, p) = Before(b, p) + (IF Precedes(b, b.curpage, p) THEN Len(z) ELSE 0)
       /\ Precedes(c, c.curpage, p) <=> Precedes(b, b.curpage, p)
       /\ p # b.curpage => c.data[p] = b.data[p]

\* That place is in the text.
LEMMA PageEndInText ==
  ASSUME NEW b, WellFormed(b)
  PROVE  PageEnd(b) \in 0 .. Len(Text(b)) /\ PageEnd(b) \in Nat
<1>1. /\ Listed(b) /\ b.curpage \in b.alive /\ Before(b, b.curpage) \in Nat
      /\ curplen(b) = plen(b, b.curpage) /\ curplen(b) \in Nat
  BY Places
<1>2. blength(b) \in Nat /\ Before(b, b.curpage) + plen(b, b.curpage) <= blength(b)
  BY <1>1, InText
<1>3. Len(Text(b)) = blength(b)
  BY <1>1, TextLaid
<1> QED BY <1>1, <1>2, <1>3 DEF PageEnd

\* Putting in y and then z is putting in y and z.
LEMMA LongerTwice ==
  ASSUME NEW b, WellFormed(b), NEW c, WellFormed(c), NEW d, WellFormed(d),
         NEW y \in Seq(Byte), NEW z \in Seq(Byte), Longer(b, c, y), Longer(c, d, z)
  PROVE  Longer(b, d, y \o z)
<1> DEFINE x == y \o z
           E == PageEnd(b)
<1>1. /\ Text(b) \in Seq(Byte) /\ E \in 0 .. Len(Text(b)) /\ E \in Nat
      /\ Len(y) \in Nat /\ Len(z) \in Nat /\ b.curpage \in b.alive
  BY Places, PageEndInText, SMTT(30)
<1>2. x \in Seq(Byte) /\ Len(x) = Len(y) + Len(z)
  BY ConcatBytes
<1>3. Text(d) = Spliced(Text(b), E, E, x)
  <2>1. Text(c) = Spliced(Text(b), E, E, y) /\ PageEnd(c) = E + Len(y)
    BY DEF Longer
  <2>2. Text(d) = Spliced(Text(c), PageEnd(c), PageEnd(c), z)
    BY DEF Longer
  <2> DEFINE t == Text(b)
  <2> HIDE DEF t, E
  <2>3. Spliced(Spliced(t, E, E, y), E + Len(y), E + Len(y), z) = Spliced(t, E, E, y \o z)
    BY <1>1, SplicedOn DEF t
  <2> QED BY <2>1, <2>2, <2>3 DEF t
<1> HIDE DEF x
<1>4. PageEnd(d) = E + Len(x)
  <2>1. PageEnd(c) = E + Len(y) /\ PageEnd(d) = PageEnd(c) + Len(z)
    BY DEF Longer
  <2> HIDE DEF E
  <2> QED BY <1>1, <1>2, <2>1
<1>5. /\ d.curchar = curplen(d) /\ (isLast(b, b.curpage) => isLast(d, d.curpage))
      /\ d.mpage = b.mpage /\ d.moffset = b.moffset
      /\ b.alive \subseteq d.alive /\ d.curpage \notin b.alive \ {b.curpage}
  BY DEF Longer
<1>6. ASSUME NEW p \in b.alive
      PROVE  /\ Before(d, p) = Before(b, p) + (IF Precedes(b, b.curpage, p) THEN Len(x) ELSE 0)
             /\ Precedes(d, d.curpage, p) <=> Precedes(b, b.curpage, p)
             /\ p # b.curpage => d.data[p] = b.data[p]
  <2>1. /\ Before(c, p) = Before(b, p) + (IF Precedes(b, b.curpage, p) THEN Len(y) ELSE 0)
        /\ Precedes(c, c.curpage, p) <=> Precedes(b, b.curpage, p)
        /\ p # b.curpage => c.data[p] = b.data[p]
        /\ p \in c.alive /\ (p # b.curpage => p # c.curpage)
    BY DEF Longer
  <2>2. /\ Before(d, p) = Before(c, p) + (IF Precedes(c, c.curpage, p) THEN Len(z) ELSE 0)
        /\ Precedes(d, d.curpage, p) <=> Precedes(c, c.curpage, p)
        /\ p # c.curpage => d.data[p] = c.data[p]
    BY <2>1 DEF Longer
  <2>3. Before(b, p) \in Nat
    BY <1>6, Places, Beginnings, Links
  <2>4. Before(d, p) = Before(b, p) + (IF Precedes(b, b.curpage, p) THEN Len(x) ELSE 0)
    BY <1>1, <1>2, <2>1, <2>2, <2>3
  <2> QED BY <2>1, <2>2, <2>4
<1> QED BY <1>3, <1>4, <1>5, <1>6 DEF Longer, x

\* The order of the pages is in the links.
LEMMA SameRanks ==
  ASSUME NEW b, Listed(b), NEW c, Listed(c), SameLinks(b, c)
  PROVE  \A p, r \in b.alive : Precedes(c, p, r) <=> Precedes(b, p, r)
<1> DEFINE w == [p \in Page |-> 1]
<1>1. w \in [Page -> Nat]
  OBVIOUS
<1>2. Rank(b) = Summed(b, w) /\ Rank(c) = Summed(c, w)
  BY DEF Rank
<1> HIDE DEF w
<1>3. Counts(c, w, Rank(b))
  BY <1>1, <1>2, Summing DEF Counts, SameLinks
<1>4. \A p \in b.alive : Rank(c)[p] = Rank(b)[p]
  BY <1>1, <1>2, <1>3, SummedIs DEF SameLinks
<1> QED BY <1>4 DEF Precedes

\* The page itself gets the bytes.
LEMMA FilledLonger ==
  ASSUME NEW b, WellFormed(b), NEW data \in Seq(Byte), NEW n \in 0 .. Len(data),
         curplen(b) + n <= PGSIZE
  PROVE  Longer(b, Filled(b, data, n), First(data, n))
<1> DEFINE cur == b.curpage
           old == b.data[cur]
           z   == First(data, n)
           L   == curplen(b)
           c   == Filled(b, data, n)
           dt  == [b.data EXCEPT ![cur] = old \o z]
           d   == L + n
<1>1. /\ Listed(b) /\ b \in Buffer /\ cur \in b.alive /\ cur \in Page /\ L \in Nat
      /\ L = plen(b, cur) /\ old \in Seq(Byte) /\ L = Len(old) /\ Before(b, cur) \in Nat
  BY Places, PageLengths
<1>2. z \in Seq(Byte) /\ Len(z) = n /\ n \in Nat
  BY TakeDrop DEF First
<1>3. /\ WellFormed(c) /\ c.alive = b.alive /\ c.curpage = cur /\ c.curchar = L + n
      /\ curplen(c) = L + n
  BY FilledWellFormed
<1>4. c = [b EXCEPT !.data = dt, !.curchar = d]
  BY DEF Filled
<1> HIDE DEF c, dt, d
<1>5. SameLinks(b, c) /\ c.mpage = b.mpage /\ c.moffset = b.moffset /\ c.data = dt
  BY <1>1, <1>4 DEF Buffer, SameLinks
<1>6. Listed(c) /\ c \in Buffer
  BY <1>3, Places
<1>7. Changed(b, c, cur, L, L, z)
  <2> HIDE DEF old, z, L
  <2>1. Spliced(old, Len(old), Len(old), z) = old \o z
    BY <1>1, <1>2, SplicedEnd
  <2>2. dt = [b.data EXCEPT ![cur] = Spliced(old, L, L, z)]
    BY <1>1, <2>1 DEF dt
  <2> QED BY <1>5, <2>2 DEF Changed, old
<1> HIDE DEF z
<1>8. /\ Text(c) = Spliced(Text(b), Before(b, cur) + L, Before(b, cur) + L, z)
      /\ \A p \in b.alive :
           Before(c, p) = IF Precedes(b, cur, p) THEN Before(b, p) + Len(z) - (L - L)
                          ELSE Before(b, p)
  <2>1. L \in 0 .. plen(b, cur) /\ L \in L .. plen(b, cur)
    BY <1>1
  <2>2. /\ cur \in b.alive /\ Listed(b) /\ Listed(c) /\ z \in Seq(Byte)
        /\ Changed(b, c, cur, L, L, z)
    BY <1>1, <1>2, <1>6, <1>7
  <2> HIDE DEF L, cur
  <2> QED BY <1>6, <2>1, <2>2, PageSpliced
<1>9. \A p \in b.alive : Precedes(c, cur, p) <=> Precedes(b, cur, p)
  BY <1>1, <1>5, <1>6, SameRanks
<1>10. Before(c, cur) = Before(b, cur)
  BY <1>1, <1>8, Ordered
<1>11. ASSUME NEW p \in b.alive
       PROVE  /\ Before(c, p) = Before(b, p) + (IF Precedes(b, cur, p) THEN Len(z) ELSE 0)
              /\ Precedes(c, c.curpage, p) <=> Precedes(b, cur, p)
              /\ p # cur => c.data[p] = b.data[p]
  <2>1. p \in Page /\ Before(b, p) \in Nat
    BY <1>1, Beginnings, Links
  <2>2. p # cur => c.data[p] = b.data[p]
    BY <1>1, <1>5, <2>1 DEF dt, Buffer
  <2>3. Before(c, p) = Before(b, p) + (IF Precedes(b, cur, p) THEN Len(z) ELSE 0)
    BY <1>1, <1>2, <1>8, <2>1
  <2> QED BY <1>3, <1>9, <2>2, <2>3
<1>12. PageEnd(b) = Before(b, cur) + L /\ PageEnd(c) = PageEnd(b) + Len(z)
  BY <1>1, <1>2, <1>3, <1>10 DEF PageEnd
<1>13. isLast(b, cur) => isLast(c, c.curpage)
  BY <1>3, <1>5 DEF isLast, SameLinks
<1> QED BY <1>3, <1>5, <1>8, <1>11, <1>12, <1>13 DEF Longer, c, z

\* A new page behind it is no change of the text.
LEMMA OpenedLonger ==
  ASSUME NEW b, WellFormed(b), NEW q \in Page \ b.alive
  PROVE  LET o == makecur(newpage(b, q), q, 0)
         IN Longer(b, o, <<>>) /\ o.data[b.curpage] = b.data[b.curpage]
<1> DEFINE n   == newpage(b, q)
           o   == makecur(n, q, 0)
           cur == b.curpage
           old == b.data[cur]
           L   == curplen(b)
<1>1. /\ Listed(b) /\ b \in Buffer /\ cur \in b.alive /\ cur \in Page /\ L \in Nat
      /\ L = plen(b, cur) /\ old \in Seq(Byte) /\ L = Len(old) /\ Before(b, cur) \in Nat
      /\ b.alive \subseteq Page /\ q # cur /\ q \in Page
  BY Places, PageLengths, Links
<1>2. /\ WellFormed(o) /\ o.alive = b.alive \cup {q} /\ o.curpage = q /\ o.curchar = 0
      /\ curplen(o) = 0 /\ Listed(o)
  BY PageOpened, Places
<1>3. /\ o.firstp = b.firstp /\ o.lastp = (IF b.nextp[cur] = NIL THEN q ELSE b.lastp)
      /\ o.nextp = [b.nextp EXCEPT ![q] = b.nextp[cur], ![cur] = q]
      /\ o.mpage = b.mpage /\ o.moffset = b.moffset
      /\ o.data = [b.data EXCEPT ![q] = <<>>]
  BY <1>1 DEF makecur, newpage, Buffer
<1> HIDE DEF o
<1>4. o.data[q] = <<>> /\ \A p \in b.alive : o.data[p] = b.data[p]
  <2>1. b.data \in [Page -> Seq(Byte)]
    BY <1>1 DEF Buffer
  <2> QED BY <1>1, <1>3, <2>1
<1>5. Parted(b, o, q, L)
  <2>1. SubSeq(old, 1, L) = old /\ SubSeq(old, L + 1, L) = <<>>
    <3> HIDE DEF old, L
    <3> QED BY <1>1
  <2> QED BY <1>1, <1>2, <1>3, <1>4, <2>1 DEF Parted
<1>6. L \in 0 .. curplen(b)
  BY <1>1
<1>7. /\ Text(o) = Text(b) /\ \A p \in b.alive : Before(o, p) = Before(b, p)
      /\ Before(o, q) = Before(b, cur) + L
  BY <1>1, <1>2, <1>5, <1>6, PageParted
<1>8. \A p \in b.alive : Precedes(o, q, p) <=> Precedes(b, cur, p)
  BY <1>1, <1>2, <1>5, RanksParted
<1>9. Text(o) = Spliced(Text(b), PageEnd(b), PageEnd(b), <<>>)
  BY <1>7, PageEndInText, SplicedNot, Places
<1>10. PageEnd(o) = PageEnd(b) + Len(<<>>)
  BY <1>1, <1>2, <1>7 DEF PageEnd
<1>11. ASSUME NEW p \in b.alive
       PROVE  /\ Before(o, p) = Before(b, p) + (IF Precedes(b, cur, p) THEN Len(<<>>) ELSE 0)
              /\ Precedes(o, o.curpage, p) <=> Precedes(b, cur, p)
              /\ p # cur => o.data[p] = b.data[p]
  <2>1. Before(b, p) \in Nat /\ Len(<<>>) = 0
    BY <1>1, Beginnings, Links
  <2> QED BY <1>2, <1>4, <1>7, <1>8, <2>1
<1>12. isLast(b, cur) => isLast(o, o.curpage)
  <2>1. b.nextp \in [Page -> Page \cup {NIL}]
    BY <1>1 DEF Buffer
  <2>2. o.nextp[q] = b.nextp[cur]
    BY <1>1, <1>3, <2>1
  <2> QED BY <1>2, <2>2 DEF isLast
<1>13. /\ o.curchar = curplen(o) /\ o.mpage = b.mpage /\ o.moffset = b.moffset
       /\ b.alive \subseteq o.alive /\ o.curpage \notin b.alive \ {cur}
  BY <1>2, <1>3
<1> QED BY <1>1, <1>4, <1>9, <1>10, <1>11, <1>12, <1>13 DEF Longer, o

\* The text has z there, and the marks have moved with it.
LEMMA LongerGrows ==
  ASSUME NEW b, WellFormed(b), NEW c, NEW z \in Seq(Byte), Longer(b, c, z)
  PROVE  Grows(b, c, PageEnd(b), z)
<1> DEFINE cur == b.curpage
           E   == PageEnd(b)
           Z   == Len(z)
           L   == plen(b, cur)
<1>1. /\ Listed(b) /\ cur \in b.alive /\ L \in Nat /\ Z \in Nat
      /\ Before(b, cur) \in Nat /\ E = Before(b, cur) + L
  BY Places DEF PageEnd
<1>2. ASSUME NEW m \in Mark, b.mpage[m] # NIL
      PROVE  \/ PlaceOf(b, m) <= E /\ PlaceOf(c, m) = PlaceOf(b, m)
             \/ PlaceOf(b, m) >= E /\ PlaceOf(c, m) = PlaceOf(b, m) + Z
  <2> DEFINE p == b.mpage[m]
             f == Before(b, p)
             g == Before(c, p)
             o == b.moffset[m]
             B == Before(b, cur)
  <2>1. /\ p \in b.alive /\ f \in Nat /\ o \in 0 .. plen(b, p) /\ plen(b, p) \in Nat
        /\ PlaceOf(b, m) = f + o /\ PlaceOf(c, m) = g + o
    BY <1>2, Places DEF PlaceOf, Longer
  <2>2. g = f + (IF Precedes(b, cur, p) THEN Z ELSE 0)
    BY <2>1 DEF Longer
  <2>3. CASE Precedes(b, cur, p)
    <3>1. B + L <= f
      BY <1>1, <2>1, <2>3, InOrder
    <3> HIDE DEF f, g, o, Z, E, B, p, L
    <3> QED BY <1>1, <2>1, <2>2, <2>3, <3>1 DEF B
  <2>4. CASE Precedes(b, p, cur)
    <3>1. f + plen(b, p) <= B /\ ~ Precedes(b, cur, p)
      BY <1>1, <2>1, <2>4, InOrder, Ordered
    <3> HIDE DEF f, g, o, Z, E, B, p, L
    <3> QED BY <1>1, <2>1, <2>2, <3>1 DEF B
  <2>5. CASE p = cur
    <3>1. f = B /\ plen(b, p) = L /\ ~ Precedes(b, cur, p)
      BY <1>1, <2>1, <2>5, Ordered
    <3> HIDE DEF f, g, o, Z, E, B, p, L
    <3> QED BY <1>1, <2>1, <2>2, <3>1 DEF B
  <2> QED BY <1>1, <2>1, <2>3, <2>4, <2>5, Ordered
<1> QED BY <1>2 DEF Longer, Grows

\* The front of a string is the front of its front and what follows that.
LEMMA Pieces ==
  ASSUME NEW s \in Seq(Byte), NEW j \in 0 .. Len(s), NEW n \in 0 .. Len(s) - j
  PROVE  /\ First(s, j) \o First(Rest(s, j), n) = First(s, j + n)
         /\ Rest(Rest(s, j), n) = Rest(s, j + n)
         /\ j + n \in 0 .. Len(s)
<1> DEFINE r == Rest(s, j)
           x == First(s, j)
           y == First(r, n)
           u == First(s, j + n)
           v == Rest(r, n)
           w == Rest(s, j + n)
           L == Len(s)
<1>1. L \in Nat /\ j \in Nat /\ n \in Nat /\ j + n <= L /\ j + n \in Nat /\ j <= L
  OBVIOUS
<1>2. r \in Seq(Byte) /\ Len(r) = L - j /\ \A i \in 1 .. L - j : r[i] = s[j + i]
  BY DEF Rest
<1>3. x \in Seq(Byte) /\ Len(x) = j /\ \A i \in 1 .. j : x[i] = s[i]
  BY DEF First
<1>4. u \in Seq(Byte) /\ Len(u) = j + n /\ \A i \in 1 .. j + n : u[i] = s[i]
  BY DEF First
<1>5. /\ w \in Seq(Byte) /\ Len(w) = L - (j + n)
      /\ \A i \in 1 .. L - (j + n) : w[i] = s[(j + n) + i]
  BY DEF Rest
<1> HIDE DEF r, x, u, w
<1>6. /\ y \in Seq(Byte) /\ Len(y) = n /\ \A i \in 1 .. n : y[i] = r[i]
      /\ v \in Seq(Byte) /\ Len(v) = L - j - n /\ \A i \in 1 .. L - j - n : v[i] = r[n + i]
  BY <1>1, <1>2 DEF First, Rest
<1> HIDE DEF y, v, L
<1>7. x \o y = u
  <2> DEFINE a == x \o y
  <2>1. /\ a \in Seq(Byte) /\ Len(a) = j + n
        /\ \A i \in 1 .. j + n : a[i] = IF i <= j THEN x[i] ELSE y[i - j]
    BY <1>1, <1>3, <1>6, SMTT(30)
  <2> HIDE DEF a
  <2>2. \A i \in 1 .. j + n : a[i] = u[i]
    <3> TAKE i \in 1 .. j + n
    <3>1. CASE i <= j
      BY <1>1, <1>3, <1>4, <2>1, <3>1
    <3>2. CASE ~ (i <= j)
      <4> DEFINE k == i - j
      <4>1. k \in 1 .. n /\ k \in 1 .. L - j /\ j + k = i
        BY <1>1, <3>2
      <4>2. a[i] = y[k]
        BY <2>1, <3>2
      <4> HIDE DEF k
      <4>3. y[k] = s[i]
        BY <1>2, <1>6, <4>1
      <4> QED BY <1>4, <4>2, <4>3
    <3> QED BY <3>1, <3>2
  <2>3. a \in Seq(Byte) /\ u \in Seq(Byte) /\ Len(a) = Len(u)
    BY <1>4, <2>1
  <2>4. a = u
    BY <1>4, <2>2, <2>3
  <2> QED BY <2>4 DEF a
<1>8. v = w
  <2>1. \A i \in 1 .. L - j - n : v[i] = w[i]
    <3> TAKE i \in 1 .. L - j - n
    <3> DEFINE k == n + i
    <3>1. k \in 1 .. L - j /\ j + k = (j + n) + i /\ i \in 1 .. L - (j + n)
      BY <1>1
    <3>2. v[i] = r[k]
      BY <1>6
    <3> HIDE DEF k
    <3>3. r[k] = s[(j + n) + i]
      BY <1>2, <3>1
    <3> QED BY <1>5, <3>1, <3>2, <3>3
  <2>2. Len(v) = Len(w) /\ Len(v) = L - j - n
    BY <1>1, <1>5, <1>6
  <2> QED BY <1>5, <1>6, <2>1, <2>2
<1> QED BY <1>1, <1>7, <1>8 DEF r, x, y, u, v, w, L

\* The loop has put the front of data in, and has the rest of it left.
Put(b, data, s) ==
  \E j \in 0 .. Len(data) :
    s.left = Rest(data, j) /\ Longer(b, s.buf, First(data, j))

\* n bytes more.
LEMMA PutMore ==
  ASSUME NEW b, WellFormed(b), NEW data \in Seq(Byte), NEW s, WellFormed(s.buf), Put(b, data, s),
         NEW n \in 0 .. Len(s.left), NEW t, WellFormed(t.buf), t.left = Rest(s.left, n),
         Longer(s.buf, t.buf, First(s.left, n))
  PROVE  Put(b, data, t)
<1>1. PICK j \in 0 .. Len(data) : s.left = Rest(data, j) /\ Longer(b, s.buf, First(data, j))
  BY DEF Put
<1>2. First(data, j) \in Seq(Byte) /\ Rest(data, j) \in Seq(Byte) /\ Len(Rest(data, j)) = Len(data) - j
  BY TakeDrop DEF First, Rest
<1>3. n \in 0 .. Len(data) - j
  BY <1>1, <1>2
<1>4. First(s.left, n) \in Seq(Byte)
  BY <1>1, <1>2, TakeDrop DEF First
<1>5. Longer(b, t.buf, First(data, j) \o First(s.left, n))
  BY <1>1, <1>2, <1>4, LongerTwice
<1>6. /\ First(data, j) \o First(Rest(data, j), n) = First(data, j + n)
      /\ Rest(Rest(data, j), n) = Rest(data, j + n)
      /\ j + n \in 0 .. Len(data)
  BY <1>3, Pieces
<1> QED BY <1>1, <1>5, <1>6 DEF Put

\* The loop opens a page and puts the next bytes in it, or does nothing.
LEMMA PageAddedPut ==
  ASSUME NEW b, WellFormed(b), NEW data \in Seq(Byte),
         NEW s \in Loop, WellFormed(s.buf), Put(b, data, s),
         NEW q \in Page \cup {NIL}, q \notin s.buf.alive
  PROVE  Put(b, data, InNewPage(s, q))
<1> DEFINE t == InNewPage(s, q)
           n == MIN(PGSIZE, Len(s.left))
           o == makecur(newpage(s.buf, q), q, 0)
           f == Filled(o, s.left, n)
<1>0. s.buf \in Buffer /\ s.left \in Seq(Byte) /\ s.full \in BOOLEAN
  BY Zenon DEF Loop
<1>2. CASE s.left = <<>> \/ s.full
  BY <1>2 DEF InNewPage
<1>3. CASE ~ (s.left = <<>> \/ s.full) /\ q = NIL
  <2>1. t = [s EXCEPT !.full = TRUE]
    BY <1>3 DEF InNewPage
  <2>2. t.buf = s.buf /\ t.left = s.left
    BY <2>1, Zenon DEF Loop
  <2> HIDE DEF t
  <2>3. Put(b, data, t)
    BY <2>2 DEF Put
  <2> QED BY <2>3 DEF t
<1>4. CASE ~ (s.left = <<>> \/ s.full) /\ q # NIL
  <2>1. t = [s EXCEPT !.buf = f, !.left = Rest(s.left, n)]
    BY <1>4 DEF InNewPage
  <2>2. n \in 0 .. PGSIZE /\ n \in 0 .. Len(s.left)
    <3>1. Len(s.left) \in Nat
      BY <1>0
    <3> QED BY <3>1, PGSIZEAssumption DEF MIN
  <2>3. t.buf = f /\ t.left = Rest(s.left, n)
    BY <2>1, Zenon DEF Loop
  <2> HIDE DEF n, t
  <2>4. WellFormed(o) /\ curplen(o) = 0 /\ q \in Page \ s.buf.alive
    BY <1>4, PageOpened
  <2>5. Longer(s.buf, o, <<>>)
    BY <2>4, OpenedLonger
  <2> HIDE DEF o
  <2>6. curplen(o) + n <= PGSIZE
    BY <2>2, <2>4, PGSIZEAssumption
  <2>7. WellFormed(f)
    BY <1>0, <2>2, <2>4, <2>6, FilledWellFormed
  <2>8. Longer(o, f, First(s.left, n))
    BY <1>0, <2>2, <2>4, <2>6, FilledLonger
  <2> HIDE DEF f
  <2>9. First(s.left, n) \in Seq(Byte)
    BY <1>0, <2>2, TakeDrop DEF First
  <2> DEFINE z == First(s.left, n)
  <2>10. Longer(s.buf, f, <<>> \o z)
    BY <2>4, <2>5, <2>7, <2>8, <2>9, EmptyBytes, LongerTwice
  <2>11. <<>> \o z = z
    <3> HIDE DEF z
    <3> QED BY <2>9 DEF z
  <2>12. Put(b, data, t)
    BY <2>2, <2>3, <2>7, <2>10, <2>11, PutMore
  <2> QED BY <2>12 DEF t
<1> QED BY <1>2, <1>3, <1>4

\* All of it.
LEMMA NewPagesPut ==
  ASSUME NEW b, WellFormed(b), NEW data \in Seq(Byte), NEW c, WellFormed(c),
         NEW l \in Seq(Byte), NEW allocs, Given(c, allocs),
         Put(b, data, [buf |-> c, left |-> l, full |-> FALSE])
  PROVE  Put(b, data, InNewPages(c, l, allocs))
<1> DEFINE L == Len(allocs)
           s == [buf |-> c, left |-> l, full |-> FALSE]
<1>1. PICK f : Loops(f, s, allocs) /\ InNewPages(c, l, allocs) = f[L]
  BY NewPagesLoop
<1> DEFINE T == {k \in 0 .. L : Put(b, data, f[k])}
<1>2. /\ \A k \in 0 .. L : Extends(c, l, Pages(allocs, k), f[k])
      /\ \A k \in 1 .. L : /\ f[k] = InNewPage(f[k - 1], allocs[k])
                           /\ allocs[k] \in Page \cup {NIL} /\ allocs[k] \notin f[k - 1].buf.alive
  BY <1>1, LoopExtends
<1>3. L \in Nat
  BY DEF Given
<1> HIDE DEF L
<1>4. 0 \in T
  BY <1>1, <1>3 DEF Loops
<1>5. ASSUME NEW k \in 0 .. L - 1, k \in T
      PROVE  k + 1 \in T
  <2> DEFINE j == k + 1
             q == allocs[j]
  <2>1. j \in 1 .. L /\ j \in 0 .. L /\ j - 1 = k /\ k \in 0 .. L
    BY <1>3
  <2> HIDE DEF j
  <2>2. /\ f[k] \in Loop /\ WellFormed(f[k].buf)
        /\ f[j] = InNewPage(f[k], q) /\ q \in Page \cup {NIL} /\ q \notin f[k].buf.alive
    BY <1>2, <2>1 DEF Extends, Larger
  <2> HIDE DEF q
  <2>3. Put(b, data, f[k])
    BY <1>5
  <2>4. Put(b, data, f[j])
    BY <2>2, <2>3, PageAddedPut
  <2> QED BY <2>1, <2>4 DEF j
<1>6. 0 .. L \subseteq T
  <2> HIDE DEF T
  <2> QED BY <1>3, <1>4, <1>5, UpTo
<1>7. L \in T
  BY <1>3, <1>6
<1> QED BY <1>1, <1>7

-----------------------------------------------------------------------------
(* What the calls put into the text. *)

\* A page filled up, and the rest in new ones.
LEMMA FilledPut ==
  ASSUME NEW b, WellFormed(b), NEW data \in Seq(Byte), NEW n \in 0 .. Len(data),
         curplen(b) + n <= PGSIZE, NEW allocs, Given(b, allocs)
  PROVE  Put(b, data, InNewPages(Filled(b, data, n), Rest(data, n), allocs))
<1> DEFINE c == Filled(b, data, n)
           l == Rest(data, n)
           s == [buf |-> c, left |-> l, full |-> FALSE]
<1>1. WellFormed(c) /\ c.alive = b.alive
  BY FilledWellFormed
<1>2. l \in Seq(Byte)
  BY TakeDrop DEF Rest
<1>3. Longer(b, c, First(data, n))
  BY FilledLonger
<1> HIDE DEF c
<1>4. Put(b, data, s)
  <2>1. s.left = Rest(data, n) /\ s.buf = c
    OBVIOUS
  <2> HIDE DEF s
  <2> QED BY <1>3, <2>1 DEF Put
<1> HIDE DEF l
<1>5. Given(c, allocs)
  BY <1>1 DEF Given
<1> QED BY <1>1, <1>2, <1>4, <1>5, NewPagesPut DEF c, l

\* bappendpage puts the front of data in behind the page's end.
LEMMA AppendedPut ==
  ASSUME NEW b, WellFormed(b), NEW data \in Seq(Byte), NEW allocs, Given(b, allocs)
  PROVE  Put(b, data, bappendpage(b, data, allocs))
<1> DEFINE n == MIN(PGSIZE - curplen(b), Len(data))
<1>1. curplen(b) \in Nat /\ curplen(b) <= PGSIZE /\ Len(data) \in Nat /\ PGSIZE \in Nat \ {0}
  BY Lengths, PGSIZEAssumption DEF WellFormed, PagesFit, curplen
<1>2. n \in 0 .. Len(data) /\ curplen(b) + n <= PGSIZE
  BY <1>1 DEF MIN
<1>3. bappendpage(b, data, allocs) = InNewPages(Filled(b, data, n), Rest(data, n), allocs)
  BY DEF bappendpage
<1> HIDE DEF n
<1> QED BY <1>2, <1>3, FilledPut

\* What it is to have put the front of data in.
LEMMA PutGrows ==
  ASSUME NEW b, WellFormed(b), NEW data \in Seq(Byte), NEW r, Put(b, data, r)
  PROVE  \E j \in 0 .. Len(data) :
           /\ r.left = Rest(data, j) /\ Len(r.left) = Len(data) - j /\ j = Len(data) - Len(r.left)
           /\ Longer(b, r.buf, First(data, j))
           /\ Grows(b, r.buf, PageEnd(b), First(data, j))
           /\ blocation(r.buf) = PageEnd(b) + j
<1>1. PICK j \in 0 .. Len(data) : r.left = Rest(data, j) /\ Longer(b, r.buf, First(data, j))
  BY DEF Put
<1> DEFINE z == First(data, j)
<1>2. /\ Len(r.left) = Len(data) - j /\ j = Len(data) - Len(r.left)
      /\ z \in Seq(Byte) /\ Len(z) = j
  <2>1. Len(r.left) = Len(data) - j
    BY <1>1, TakeDrop DEF Rest
  <2>2. z \in Seq(Byte) /\ Len(z) = j
    BY TakeDrop DEF First
  <2>3. Len(data) \in Nat /\ j \in Nat
    OBVIOUS
  <2> HIDE DEF z
  <2> QED BY <2>1, <2>2, <2>3
<1> HIDE DEF z
<1>3. Longer(b, r.buf, z)
  BY <1>1 DEF z
<1>4. Grows(b, r.buf, PageEnd(b), z)
  BY <1>2, <1>3, LongerGrows
<1>5. blocation(r.buf) = PageEnd(r.buf) /\ PageEnd(r.buf) = PageEnd(b) + j
  BY <1>2, <1>3 DEF Longer, blocation, PageEnd
<1> QED BY <1>1, <1>2, <1>3, <1>4, <1>5 DEF z

\* No change is the empty string put in.
LEMMA SameMarkedGrows ==
  ASSUME NEW b, WellFormed(b), NEW c, SameMarked(b, c), NEW at \in 0 .. Len(Text(b))
  PROVE  Grows(b, c, at, <<>>)
<1>1. Text(c) = Spliced(Text(b), at, at, <<>>)
  BY Places, SplicedNot DEF SameMarked
<1>2. ASSUME NEW m \in Mark, b.mpage[m] # NIL
      PROVE  \/ PlaceOf(b, m) <= at /\ PlaceOf(c, m) = PlaceOf(b, m)
             \/ PlaceOf(b, m) >= at /\ PlaceOf(c, m) = PlaceOf(b, m) + Len(<<>>)
  <2>1. PlaceOf(b, m) \in 0 .. Len(Text(b)) /\ PlaceOf(c, m) = PlaceOf(b, m)
    BY <1>2, Places DEF SameMarked
  <2>2. Len(<<>>) = 0 /\ Len(Text(b)) \in Nat
    BY Places
  <2> QED BY <2>1, <2>2
<1> QED BY <1>1, <1>2 DEF Grows, SameMarked

\* Neither does it matter what is done to the point afterwards.
LEMMA GrowsMarked ==
  ASSUME NEW b, NEW c, NEW d, SameMarked(c, d), NEW at, NEW z, Grows(b, c, at, z)
  PROVE  Grows(b, d, at, z)
<1>1. ASSUME NEW m \in Mark
      PROVE  /\ d.mpage[m] = NIL <=> b.mpage[m] = NIL
             /\ b.mpage[m] # NIL =>
                  \/ PlaceOf(b, m) <= at /\ PlaceOf(d, m) = PlaceOf(b, m)
                  \/ PlaceOf(b, m) >= at /\ PlaceOf(d, m) = PlaceOf(b, m) + Len(z)
  <2>1. /\ d.mpage[m] = NIL <=> c.mpage[m] = NIL
        /\ c.mpage[m] # NIL => PlaceOf(d, m) = PlaceOf(c, m)
    BY DEF SameMarked
  <2>2. /\ c.mpage[m] = NIL <=> b.mpage[m] = NIL
        /\ b.mpage[m] # NIL =>
             \/ PlaceOf(b, m) <= at /\ PlaceOf(c, m) = PlaceOf(b, m)
             \/ PlaceOf(b, m) >= at /\ PlaceOf(c, m) = PlaceOf(b, m) + Len(z)
    BY DEF Grows
  <2> QED BY <2>1, <2>2
<1> QED BY <1>1 DEF SameMarked, Grows

\* A move of the point.
LEMMA PointSameMarked ==
  ASSUME NEW b, WellFormed(b), NEW c \in Buffer, SameLinks(b, c), c.data = b.data,
         c.mpage = b.mpage, c.moffset = b.moffset
  PROVE  SameMarked(b, c) /\ \A p \in b.alive : Before(c, p) = Before(b, p) /\ plen(c, p) = plen(b, p)
<1>1. /\ Text(c) = Text(b)
      /\ \A p \in b.alive : Before(c, p) = Before(b, p) /\ plen(c, p) = plen(b, p)
  BY Places, SameText
<1>2. ASSUME NEW m \in Mark, b.mpage[m] # NIL
      PROVE  PlaceOf(c, m) = PlaceOf(b, m)
  <2>1. b.mpage[m] \in b.alive
    BY <1>2, Places
  <2> QED BY <1>1, <2>1 DEF PlaceOf
<1> QED BY <1>1, <1>2 DEF SameMarked

\* Bytes at the point, with the rest of the page behind them.
LEMMA WidenedGrows ==
  ASSUME NEW b, WellFormed(b), NEW data \in Seq(Byte), curplen(b) + Len(data) <= PGSIZE,
         NEW r \in {InPlace(b, data), Gapped(b, data)}
  PROVE  Grows(b, r, blocation(b), data) /\ blocation(r) = blocation(b) + Len(data)
<1> DEFINE cur == b.curpage
           x   == b.curchar
           old == b.data[cur]
           L   == Len(data)
           dt  == [b.data EXCEPT ![cur] = Spliced(old, x, x, data)]
           at  == [m \in Mark |-> IF b.mpage[m] = cur /\ b.moffset[m] >= x
                                  THEN b.moffset[m] + L ELSE b.moffset[m]]
           aft == [m \in Mark |-> IF b.mpage[m] = cur /\ b.moffset[m] > x
                                  THEN b.moffset[m] + L ELSE b.moffset[m]]
<1>1. /\ b \in Buffer /\ cur \in b.alive /\ cur \in Page /\ x \in 0 .. plen(b, cur) /\ x \in Nat
      /\ L \in Nat /\ Before(b, cur) \in Nat /\ old \in Seq(Byte)
  BY Places, PageLengths
<1>2. r \in Buffer
  BY Widened DEF WellFormed
<1>3. PICK mo \in {at, aft} :
        /\ SameLinks(b, r) /\ r.data = dt /\ r.mpage = b.mpage /\ r.moffset = mo
        /\ r.curpage = cur /\ r.curchar = x + L
  <2>1. CASE r = Gapped(b, data)
    <3>1. r = [b EXCEPT !.data = dt, !.moffset = aft, !.curchar = x + L, !.bmodf = TRUE]
      BY <2>1 DEF Gapped, First, Rest, Spliced
    <3> HIDE DEF dt, aft
    <3> QED BY <1>1, <3>1 DEF Buffer, SameLinks
  <2>2. CASE r = InPlace(b, data)
    <3>1. r = [b EXCEPT !.data = dt, !.moffset = at, !.curchar = x + L]
      BY <2>2 DEF InPlace, First, Rest, Spliced
    <3> HIDE DEF dt, at
    <3> QED BY <1>1, <3>1 DEF Buffer, SameLinks
  <2> QED BY <2>1, <2>2
<1>4. Filling(b, r, cur, x, data)
  <2>1. Changed(b, r, cur, x, x, data)
    BY <1>3 DEF Changed
  <2>2. ASSUME NEW m \in Mark, b.mpage[m] # NIL
        PROVE  \/ r.moffset[m] = b.moffset[m] /\ (b.mpage[m] = cur => b.moffset[m] <= x)
               \/ b.mpage[m] = cur /\ b.moffset[m] >= x /\ r.moffset[m] = b.moffset[m] + L
    <3>1. b.moffset[m] \in Nat
      BY <1>1 DEF Buffer
    <3>2. CASE mo = at
      BY <1>1, <1>3, <3>1, <3>2
    <3>3. CASE mo = aft
      BY <1>1, <1>3, <3>1, <3>3
    <3> QED BY <3>2, <3>3
  <2> QED BY <1>3, <2>1, <2>2 DEF Filling
<1> HIDE DEF dt, at, aft, old
<1>5. Grows(b, r, Before(b, cur) + x, data) /\ Before(r, cur) = Before(b, cur)
  BY <1>1, <1>2, <1>4, PageGrows
<1>6. blocation(b) = Before(b, cur) + x /\ blocation(r) = Before(r, cur) + (x + L)
  BY <1>3 DEF blocation
<1>7. blocation(r) = blocation(b) + L
  <2> HIDE DEF L
  <2> QED BY <1>1, <1>5, <1>6
<1> QED BY <1>5, <1>6, <1>7

\* A page that is cut in two at the point ends there.
LEMMA SplitEnds ==
  ASSUME NEW b, WellFormed(b), NEW q \in Page \ b.alive
  PROVE  LET s == pagesplit(b, q, b.curchar)
         IN /\ WellFormed(s) /\ SameMarked(b, s) /\ PageEnd(s) = blocation(b)
            /\ s.alive = b.alive \cup {q} /\ s.curpage = b.curpage /\ s.curchar = b.curchar
            /\ curplen(s) = b.curchar
<1> DEFINE d == b.curchar
           s == pagesplit(b, q, d)
<1>1. d \in 0 .. curplen(b) /\ ~ (b.curchar > d) /\ d \in Nat
  BY Places
<1>2. /\ WellFormed(s) /\ s.alive = b.alive \cup {q} /\ s.curpage = b.curpage /\ s.curchar = d
      /\ plen(s, b.curpage) = d
  BY <1>1, PageSplit
<1>3. SameMarked(b, s) /\ blocation(s) = blocation(b)
  BY <1>1, PageSplitMarked
<1> HIDE DEF s
<1>4. curplen(s) = d
  BY <1>2 DEF curplen
<1>5. PageEnd(s) = blocation(b)
  BY <1>2, <1>3, <1>4 DEF PageEnd, blocation
<1> QED BY <1>2, <1>3, <1>4, <1>5 DEF s

\* bindata puts the front of data in at the point.
LEMMA BindataGrows ==
  ASSUME NEW b, WellFormed(b), NEW data \in Seq(Byte), NEW allocs, Given(b, allocs),
         Len(allocs) > 0
  PROVE  LET r == bindata(b, data, allocs)
             j == Len(data) - Len(r.left)
         IN /\ j \in 0 .. Len(data) /\ Grows(b, r.buf, blocation(b), First(data, j))
            /\ blocation(r.buf) = blocation(b) + j
<1> DEFINE r == bindata(b, data, allocs)
           q == allocs[1]
           N == Len(data)
           j == N - Len(r.left)
<1>1. /\ curplen(b) \in Nat /\ curplen(b) <= PGSIZE /\ N \in Nat /\ PGSIZE \in Nat
  BY Lengths, PGSIZEAssumption DEF WellFormed, PagesFit, curplen
<1>2. CASE b.curchar = curplen(b)
  <2>1. r = bappendpage(b, data, allocs)
    BY <1>2 DEF bindata
  <2>2. PageEnd(b) = blocation(b)
    BY <1>2 DEF PageEnd, blocation
  <2> HIDE DEF r
  <2>3. Put(b, data, r)
    BY <2>1, AppendedPut
  <2> QED BY <2>2, <2>3, PutGrows DEF r
<1>3. CASE b.curchar # curplen(b) /\ PGSIZE - curplen(b) >= N
  <2>1. r = [buf |-> InPlace(b, data), left |-> <<>>]
    <3>1. ~ (PGSIZE - curplen(b) < N)
      BY <1>1, <1>3
    <3> QED BY <1>3, <3>1 DEF bindata
  <2>2. r.buf \in {InPlace(b, data), Gapped(b, data)} /\ r.left = <<>>
    BY <2>1
  <2>3. curplen(b) + N <= PGSIZE
    BY <1>1, <1>3
  <2> HIDE DEF r
  <2>4. j = N /\ First(data, N) = data
    BY <1>1, <2>2 DEF First
  <2>5. Grows(b, r.buf, blocation(b), data) /\ blocation(r.buf) = blocation(b) + N
    BY <2>2, <2>3, WidenedGrows
  <2>6. N \in 0 .. N
    BY <1>1
  <2> HIDE DEF j
  <2> QED BY <2>4, <2>5, <2>6 DEF r, j
<1>4. CASE b.curchar # curplen(b) /\ ~ (PGSIZE - curplen(b) >= N) /\ q = NIL
  <2>1. PGSIZE - curplen(b) < N
    BY <1>1, <1>4
  <2>2. r = [buf |-> b, left |-> data]
    BY <1>4, <2>1 DEF bindata
  <2>3. r.buf = b /\ r.left = data
    BY <2>2
  <2> HIDE DEF r
  <2>4. j = 0 /\ First(data, 0) = <<>> /\ 0 \in 0 .. N
    BY <1>1, <2>3 DEF First
  <2>5. blocation(b) \in 0 .. Len(Text(b)) /\ Len(Text(b)) \in Nat
    BY Places
  <2>6. Grows(b, b, blocation(b), <<>>)
    BY <2>5, SameMarkedGrows DEF SameMarked
  <2>7. blocation(b) = blocation(b) + 0
    BY <2>5
  <2> HIDE DEF j
  <2> QED BY <2>3, <2>4, <2>6, <2>7 DEF r, j
<1>5. CASE b.curchar # curplen(b) /\ ~ (PGSIZE - curplen(b) >= N) /\ q # NIL
  <2> DEFINE s    == pagesplit(b, q, b.curchar)
             rest == Rest(allocs, 1)
  <2>1. PGSIZE - curplen(b) < N
    BY <1>1, <1>5
  <2>2. r = bappendpage(s, data, rest)
    BY <1>5, <2>1 DEF bindata
  <2>3. q \in Page \ b.alive /\ 1 \in 0 .. Len(allocs) /\ q \in Pages(allocs, 1)
    <3>1. Len(allocs) \in Nat /\ 1 \in 1 .. Len(allocs) /\ q \in Page \cup {NIL}
      BY DEF Given
    <3> QED BY <1>5, <3>1 DEF Given, Pages
  <2> HIDE DEF q
  <2>4. /\ WellFormed(s) /\ s.alive = b.alive \cup {q} /\ SameMarked(b, s)
        /\ PageEnd(s) = blocation(b)
    BY <2>3, SplitEnds
  <2> HIDE DEF s, r
  <2>5. Given(s, rest)
    <3>1. s.alive \subseteq Page /\ s.alive \subseteq b.alive \cup Pages(allocs, 1)
      BY <2>3, <2>4, Lengths
    <3> QED BY <2>3, <3>1, GivenRest
  <2> HIDE DEF rest
  <2>6. Put(s, data, r)
    BY <2>2, <2>4, <2>5, AppendedPut
  <2>7. /\ j \in 0 .. N /\ Grows(s, r.buf, PageEnd(s), First(data, j))
        /\ blocation(r.buf) = PageEnd(s) + j
    BY <2>4, <2>6, PutGrows
  <2> HIDE DEF j
  <2>8. Grows(b, r.buf, blocation(b), First(data, j))
    BY <2>4, <2>7, MarkedGrows
  <2> QED BY <2>4, <2>7, <2>8 DEF r, j
<1> QED BY <1>2, <1>3, <1>4, <1>5

\* bappend puts the front of data at the end of the text, and goes there.
LEMMA BappendGrows ==
  ASSUME NEW b, WellFormed(b), NEW data \in Seq(Byte), NEW allocs, Given(b, allocs)
  PROVE  LET r == bappendpage(btoend(b), data, allocs)
             j == Len(data) - Len(r.left)
         IN /\ j \in 0 .. Len(data) /\ Grows(b, r.buf, blength(b), First(data, j))
            /\ bisend(r.buf)
<1> DEFINE e == btoend(b)
           l == b.lastp
           n == plen(b, l)
           r == bappendpage(e, data, allocs)
           j == Len(data) - Len(r.left)
<1>1. /\ b \in Buffer /\ l \in b.alive /\ l \in Page /\ n \in Nat /\ b.nextp[l] = NIL
  BY Lengths DEF WellFormed, Linked
<1>2. WellFormed(e) /\ e.alive = b.alive
  <2>1. n \in Nat /\ n <= n
    BY <1>1
  <2> QED BY <1>1, <2>1, PointMove DEF btoend
<1>3. SameLinks(b, e) /\ e.data = b.data /\ e.mpage = b.mpage /\ e.moffset = b.moffset
      /\ e.curpage = l
  BY <1>1 DEF btoend, makecur, Buffer, SameLinks
<1> HIDE DEF e
<1>4. SameMarked(b, e) /\ Before(e, l) = Before(b, l) /\ plen(e, l) = n
  <2>1. e \in Buffer
    BY <1>2, Places
  <2> QED BY <1>1, <1>3, <2>1, PointSameMarked
<1>5. PageEnd(e) = blength(b)
  <2>1. curplen(e) = plen(e, l)
    BY <1>2, <1>3, Lengths
  <2> QED BY <1>3, <1>4, <2>1 DEF PageEnd, blength
<1>6. Given(e, allocs)
  BY <1>2 DEF Given
<1>7. Put(e, data, r)
  BY <1>2, <1>6, AppendedPut
<1>8. WellFormed(r.buf)
  BY <1>2, <1>6, PageAppended
<1> HIDE DEF r
<1>9. PICK k \in 0 .. Len(data) :
        /\ k = Len(data) - Len(r.left) /\ Longer(e, r.buf, First(data, k))
        /\ Grows(e, r.buf, PageEnd(e), First(data, k))
  BY <1>2, <1>7, PutGrows
<1>10. j \in 0 .. Len(data) /\ Grows(b, r.buf, blength(b), First(data, j))
  BY <1>4, <1>5, <1>9, MarkedGrows
<1>11. bisend(r.buf)
  <2>1. isLast(e, e.curpage)
    BY <1>1, <1>3 DEF isLast, SameLinks
  <2>2. isLast(r.buf, r.buf.curpage) /\ r.buf.curchar = curplen(r.buf)
    BY <1>9, <2>1 DEF Longer
  <2>3. curplen(r.buf) \in Nat
    BY <1>8, Lengths
  <2> QED BY <2>2, <2>3 DEF bisend
<1> QED BY <1>10, <1>11 DEF r, e

\* A page more and nothing in it is no change.
LEMMA LongerSame ==
  ASSUME NEW b, WellFormed(b), NEW c, Longer(b, c, <<>>)
  PROVE  SameMarked(b, c) /\ PageEnd(c) = PageEnd(b)
<1> DEFINE z == <<>>
           E == PageEnd(b)
<1>1. z \in Seq(Byte) /\ Len(z) = 0 /\ Longer(b, c, z)
  BY EmptyBytes
<1> HIDE DEF z
<1>2. E \in 0 .. Len(Text(b)) /\ E \in Nat /\ Text(b) \in Seq(Byte)
  BY PageEndInText, Places
<1>3. Text(c) = Text(b)
  <2>1. Text(c) = Spliced(Text(b), E, E, z)
    BY <1>1 DEF Longer
  <2> HIDE DEF E
  <2> QED BY <1>2, <2>1, SplicedNot DEF z
<1>4. PageEnd(c) = E
  <2>1. PageEnd(c) = E + Len(z)
    BY <1>1 DEF Longer
  <2> HIDE DEF E
  <2> QED BY <1>1, <1>2, <2>1
<1>5. ASSUME NEW m \in Mark
      PROVE  /\ c.mpage[m] = NIL <=> b.mpage[m] = NIL
             /\ b.mpage[m] # NIL => PlaceOf(c, m) = PlaceOf(b, m)
  <2>1. c.mpage = b.mpage /\ c.moffset = b.moffset
    BY <1>1 DEF Longer
  <2>2. ASSUME b.mpage[m] # NIL
        PROVE  PlaceOf(c, m) = PlaceOf(b, m)
    <3> DEFINE p == b.mpage[m]
    <3>1. p \in b.alive /\ Before(b, p) \in Nat
      BY <2>2, Places
    <3>2. Before(c, p) = Before(b, p) + (IF Precedes(b, b.curpage, p) THEN Len(z) ELSE 0)
      BY <1>1, <3>1 DEF Longer
    <3>3. Before(c, p) = Before(b, p)
      BY <1>1, <3>1, <3>2
    <3> QED BY <2>1, <3>3 DEF PlaceOf
  <2> QED BY <2>1, <2>2
<1> QED BY <1>3, <1>4, <1>5 DEF SameMarked

\* What breadfile opens in the middle of a page: the file goes to the point, or behind
\* the page if there was no memory to split it.
LEMMA FileOpened ==
  ASSUME NEW b, WellFormed(b),
         NEW q1 \in (Page \ b.alive) \cup {NIL}, NEW q2 \in (Page \ b.alive) \cup {NIL},
         q1 = q2 => q1 = NIL
  PROVE  LET o == Opened(b, q1, q2)
         IN /\ WellFormed(o.buf) /\ SameMarked(b, o.buf)
            /\ o.done =>
                 /\ o.buf.curchar = curplen(o.buf)
                 /\ \/ PageEnd(o.buf) = blocation(b)
                    \/ /\ PageEnd(o.buf) = PageEnd(b) /\ o.buf.data[b.curpage] = b.data[b.curpage]
                       /\ b.curpage \in o.buf.alive \ {o.buf.curpage}
<1> DEFINE o == Opened(b, q1, q2)
           s == IF q1 = NIL THEN b ELSE pagesplit(b, q1, b.curchar)
<1>1. NIL \notin b.alive /\ b.curpage \in b.alive
  BY Lengths, PageAssumption
<1>2. /\ WellFormed(s) /\ s.alive \subseteq b.alive \cup {q1} /\ SameMarked(b, s)
      /\ s.curpage = b.curpage
      /\ PageEnd(s) = blocation(b) \/ s = b
  <2>1. CASE q1 = NIL
    <3>1. s = b
      BY <2>1
    <3> HIDE DEF s
    <3>2. SameMarked(b, b)
      BY DEF SameMarked
    <3> QED BY <3>1, <3>2
  <2>2. CASE q1 # NIL
    <3>1. s = pagesplit(b, q1, b.curchar) /\ q1 \in Page \ b.alive
      BY <2>2
    <3> HIDE DEF s
    <3> QED BY <3>1, SplitEnds
  <2> QED BY <2>1, <2>2
<1>3. CASE q2 = NIL
  <2>1. o = [buf |-> s, done |-> FALSE]
    BY <1>3 DEF Opened
  <2>2. o.buf = s /\ o.done = FALSE
    BY <2>1
  <2> HIDE DEF o, s
  <2> QED BY <1>2, <2>2 DEF o
<1>4. CASE q2 # NIL
  <2> DEFINE t == makecur(newpage(s, q2), q2, 0)
  <2>1. o = [buf |-> t, done |-> TRUE]
    BY <1>4 DEF Opened
  <2>2. o.buf = t /\ o.done = TRUE
    BY <2>1
  <2> HIDE DEF o, s
  <2>3. q2 \in Page \ s.alive
    BY <1>2, <1>4
  <2>4. /\ WellFormed(t) /\ t.alive = s.alive \cup {q2} /\ t.curpage = q2
        /\ t.curchar = 0 /\ curplen(t) = 0
    BY <1>2, <2>3, PageOpened
  <2>5. Longer(s, t, <<>>) /\ t.data[s.curpage] = s.data[s.curpage]
    BY <1>2, <2>3, OpenedLonger
  <2> HIDE DEF t
  <2>6. SameMarked(s, t) /\ PageEnd(t) = PageEnd(s)
    BY <1>2, <2>5, LongerSame
  <2>7. SameMarked(b, t)
    BY <1>2, <2>6 DEF SameMarked
  <2>8. CASE PageEnd(s) = blocation(b)
    BY <2>2, <2>4, <2>6, <2>7, <2>8 DEF o
  <2>9. CASE s = b
    <3>1. b.curpage \in t.alive \ {t.curpage}
      BY <1>1, <2>3, <2>4, <2>9
    <3> QED BY <1>2, <2>2, <2>4, <2>5, <2>6, <2>7, <2>9, <3>1 DEF o
  <2> QED BY <1>2, <2>8, <2>9
<1> QED BY <1>3, <1>4

\* Reading on from there puts the front of the file behind the page.
LEMMA ReadPut ==
  ASSUME NEW b, WellFormed(b), NEW data \in Seq(Byte), NEW allocs, Given(b, allocs)
  PROVE  Put(b, data, ReadFrom(b, data, allocs))
<1> DEFINE n == IF curplen(b) = 0 THEN MIN(PGSIZE, Len(data)) ELSE 0
<1>1. curplen(b) \in Nat /\ curplen(b) <= PGSIZE /\ Len(data) \in Nat /\ PGSIZE \in Nat \ {0}
  BY Lengths, PGSIZEAssumption DEF WellFormed, PagesFit, curplen
<1>2. n \in 0 .. Len(data) /\ curplen(b) + n <= PGSIZE
  BY <1>1 DEF MIN
<1>3. ReadFrom(b, data, allocs) = InNewPages(Filled(b, data, n), Rest(data, n), allocs)
  BY DEF ReadFrom
<1> HIDE DEF n
<1> QED BY <1>2, <1>3, FilledPut

\* breadfile puts the front of data in at the point or behind the point's page, all of
\* it and with the point in front of it if it says that it could.
LEMMA FileGrows ==
  ASSUME NEW b, WellFormed(b), NEW data \in Seq(Byte), NEW allocs, Given(b, allocs),
         Len(allocs) > 1
  PROVE  LET f == breadfile(b, data, allocs)
         IN \E n \in 0 .. Len(data), at \in Nat :
              /\ \/ at = blocation(b)
                 \/ at = PageEnd(b) /\ f.buf.data[b.curpage] = b.data[b.curpage]
              /\ Grows(b, f.buf, at, First(data, n))
              /\ f.done => n = Len(data) /\ blocation(f.buf) = at
<1> DEFINE middle == curplen(b) # 0 /\ b.curchar < PGSIZE
           o      == IF middle THEN Opened(b, allocs[1], allocs[2]) ELSE [buf |-> b, done |-> TRUE]
           used   == IF middle THEN 2 ELSE 0
           r      == ReadFrom(o.buf, data, Rest(allocs, used))
           f      == breadfile(b, data, allocs)
           Goal   == \E n \in 0 .. Len(data), at \in Nat :
                       /\ \/ at = blocation(b)
                          \/ at = PageEnd(b) /\ f.buf.data[b.curpage] = b.data[b.curpage]
                       /\ Grows(b, f.buf, at, First(data, n))
                       /\ f.done => n = Len(data) /\ blocation(f.buf) = at
<1>1. f = CASE ~ o.done                 -> o
            [] o.done /\ r.left # <<>>  ->
                 [buf  |-> makeoffset(r.buf, IF r.buf.curpage = o.buf.curpage
                                             THEN o.buf.curchar ELSE 0),
                  done |-> FALSE]
            [] o.done /\ r.left = <<>>  ->
                 [buf  |-> [makecur(r.buf, o.buf.curpage, o.buf.curchar) EXCEPT !.bmodf = FALSE],
                  done |-> TRUE]
  BY DEF breadfile, ReadFrom
<1>2. /\ Len(allocs) \in Nat /\ 1 \in 1 .. Len(allocs) /\ 2 \in 1 .. Len(allocs)
      /\ used \in 0 .. Len(allocs)
      /\ allocs[1] \in Page \cup {NIL} /\ allocs[2] \in Page \cup {NIL}
  BY DEF Given
<1>3. /\ blocation(b) \in 0 .. Len(Text(b)) /\ Len(Text(b)) \in Nat /\ PageEnd(b) \in Nat
      /\ Len(data) \in Nat /\ b.curpage \in b.alive
  BY Places, PageEndInText, SMTT(30)
<1>4. /\ WellFormed(o.buf) /\ o.buf.alive \subseteq b.alive \cup Pages(allocs, used)
      /\ o.done \in BOOLEAN /\ SameMarked(b, o.buf)
      /\ o.done =>
           /\ o.buf.curchar = curplen(o.buf)
           /\ \/ PageEnd(o.buf) = blocation(b)
              \/ /\ PageEnd(o.buf) = PageEnd(b) /\ o.buf.data[b.curpage] = b.data[b.curpage]
                 /\ b.curpage \in o.buf.alive \ {o.buf.curpage}
  <2>1. CASE middle
    <3> DEFINE q1 == allocs[1]
               q2 == allocs[2]
               x  == Opened(b, q1, q2)
    <3>1. /\ q1 \in (Page \ b.alive) \cup {NIL} /\ q2 \in (Page \ b.alive) \cup {NIL}
          /\ q1 = q2 => q1 = NIL
      BY <1>2 DEF Given
    <3>2. q1 \in Pages(allocs, used) /\ q2 \in Pages(allocs, used)
      <4>1. used = 2 /\ 1 \in 1 .. 2 /\ 2 \in 1 .. 2
        BY <2>1
      <4> QED BY <4>1 DEF Pages
    <3>3. o = x
      BY <2>1
    <3> HIDE DEF q1, q2
    <3>4. x.buf.alive \subseteq b.alive \cup {q1, q2} /\ x.done \in BOOLEAN
      BY <2>1, <3>1, PageForFile
    <3>5. /\ WellFormed(x.buf) /\ SameMarked(b, x.buf)
          /\ x.done =>
               /\ x.buf.curchar = curplen(x.buf)
               /\ \/ PageEnd(x.buf) = blocation(b)
                  \/ /\ PageEnd(x.buf) = PageEnd(b) /\ x.buf.data[b.curpage] = b.data[b.curpage]
                     /\ b.curpage \in x.buf.alive \ {x.buf.curpage}
      BY <3>1, FileOpened
    <3> HIDE DEF x, o, used
    <3> QED BY <3>2, <3>3, <3>4, <3>5
  <2>2. CASE ~ middle
    <3>1. o.buf = b /\ o.done = TRUE
      BY <2>2
    <3>2. b.curchar = curplen(b)
      <4>1. b.curchar \in Nat /\ b.curchar <= curplen(b) /\ curplen(b) \in Nat
        BY Lengths
      <4>2. curplen(b) <= PGSIZE /\ PGSIZE \in Nat
        BY Lengths, PGSIZEAssumption DEF WellFormed, PagesFit, curplen
      <4> QED BY <2>2, <4>1, <4>2
    <3>3. PageEnd(b) = blocation(b)
      BY <3>2 DEF PageEnd, blocation
    <3>4. SameMarked(b, b)
      BY DEF SameMarked
    <3> HIDE DEF o, middle
    <3> QED BY <3>1, <3>2, <3>3, <3>4
  <2> QED BY <2>1, <2>2
<1> DEFINE rest == Rest(allocs, used)
<1> HIDE DEF middle, o, used
<1>5. Given(o.buf, rest)
  BY <1>2, <1>4, GivenRest, Lengths
<1> HIDE DEF rest
<1>6. /\ WellFormed(r.buf) /\ o.buf.curpage \in r.buf.alive
      /\ Put(o.buf, data, r)
  BY <1>4, <1>5, ReadPages, ReadPut DEF rest
<1> HIDE DEF r
<1> DEFINE p == o.buf.curpage
           d == o.buf.curchar
           e == r.buf
           E == PageEnd(o.buf)
<1>7. PICK j \in 0 .. Len(data) :
        /\ j = Len(data) - Len(r.left)
        /\ Longer(o.buf, e, First(data, j)) /\ Grows(o.buf, e, E, First(data, j))
  BY <1>4, <1>6, PutGrows
<1>8. E \in Nat
  BY <1>4, PageEndInText
<1>9. Grows(b, e, E, First(data, j))
  BY <1>4, <1>7, MarkedGrows
<1>10. o.done =>
         \/ E = blocation(b)
         \/ E = PageEnd(b) /\ e.data[b.curpage] = b.data[b.curpage]
  <2> SUFFICES ASSUME o.done, E # blocation(b)
               PROVE  E = PageEnd(b) /\ e.data[b.curpage] = b.data[b.curpage]
    OBVIOUS
  <2>1. /\ E = PageEnd(b) /\ o.buf.data[b.curpage] = b.data[b.curpage]
        /\ b.curpage \in o.buf.alive /\ b.curpage # o.buf.curpage
    BY <1>4
  <2>2. e.data[b.curpage] = o.buf.data[b.curpage]
    BY <1>7, <2>1 DEF Longer
  <2> QED BY <2>1, <2>2
\* The point alone is moved in the end.
<1>11. ASSUME NEW c \in Buffer, SameLinks(e, c), c.data = e.data, c.mpage = e.mpage,
              c.moffset = e.moffset
       PROVE  Grows(b, c, E, First(data, j)) /\ \A x \in e.alive : Before(c, x) = Before(e, x)
  <2>1. SameMarked(e, c) /\ \A x \in e.alive : Before(c, x) = Before(e, x)
    BY <1>6, <1>11, PointSameMarked
  <2> QED BY <1>9, <2>1, GrowsMarked
<1>12. e \in Buffer /\ d \in Nat /\ p \in Page /\ p \in e.alive /\ e.curpage \in Page
  BY <1>4, <1>6, Lengths, Places
<1> HIDE DEF f
<1>13. CASE ~ o.done
  <2>1. f = o
    BY <1>1, <1>13
  <2> DEFINE at == blocation(b)
             z  == First(data, 0)
  <2>2. z = <<>> /\ 0 \in 0 .. Len(data)
    BY <1>3 DEF First
  <2>3. at \in Nat /\ at \in 0 .. Len(Text(b))
    BY <1>3
  <2> HIDE DEF at, z
  <2>4. Grows(b, f.buf, at, z)
    BY <1>4, <2>1, <2>2, <2>3, SameMarkedGrows
  <2>5. ~ f.done
    BY <1>13, <2>1
  <2>6. Goal
    BY <2>2, <2>3, <2>4, <2>5 DEF at, z
  <2> QED BY <2>6 DEF f
<1>14. CASE o.done /\ r.left # <<>>
  <2> DEFINE x == IF e.curpage = p THEN d ELSE 0
             c == makeoffset(e, x)
  <2>1. f = [buf |-> c, done |-> FALSE]
    BY <1>1, <1>14
  <2>2. f.buf = c /\ f.done = FALSE
    BY <2>1
  <2>3. x \in Nat
    BY <1>12
  <2> HIDE DEF x, e
  <2>4. /\ c \in Buffer /\ SameLinks(e, c) /\ c.data = e.data /\ c.mpage = e.mpage
        /\ c.moffset = e.moffset
    BY <1>12, <2>3 DEF makeoffset, Buffer, SameLinks
  <2> HIDE DEF c, E
  <2>5. Grows(b, c, E, First(data, j))
    BY <1>11, <2>4
  <2>6. \/ E = blocation(b)
        \/ E = PageEnd(b) /\ f.buf.data[b.curpage] = b.data[b.curpage]
    BY <1>10, <1>14, <2>2, <2>4
  <2>7. Goal
    BY <1>8, <2>2, <2>5, <2>6
  <2> QED BY <2>7 DEF f
<1>15. CASE o.done /\ r.left = <<>>
  <2> DEFINE g == makecur(e, p, d)
             c == [g EXCEPT !.bmodf = FALSE]
  <2>1. f = [buf |-> c, done |-> TRUE]
    BY <1>1, <1>15
  <2>2. f.buf = c /\ f.done = TRUE
    BY <2>1
  <2> HIDE DEF p, d, e
  <2>3. /\ c \in Buffer /\ SameLinks(e, c) /\ c.data = e.data /\ c.mpage = e.mpage
        /\ c.moffset = e.moffset /\ c.curpage = p /\ c.curchar = d
    BY <1>12 DEF makecur, Buffer, SameLinks
  <2> HIDE DEF c, E
  <2>4. Grows(b, c, E, First(data, j)) /\ Before(c, p) = Before(e, p)
    BY <1>11, <1>12, <2>3
  <2>5. \/ E = blocation(b)
        \/ E = PageEnd(b) /\ f.buf.data[b.curpage] = b.data[b.curpage]
    BY <1>10, <1>15, <2>2, <2>3
  <2>6. j = Len(data)
    <3>1. Len(r.left) = 0
      BY <1>15
    <3> QED BY <1>3, <1>7, <3>1
  <2>7. blocation(c) = E
    <3>1. Before(e, p) = Before(o.buf, p)
      <4>1. p \in o.buf.alive /\ Before(o.buf, p) \in Nat /\ ~ Precedes(o.buf, p, p)
        BY <1>4, Places, Ordered DEF p
      <4>2. Before(e, p) = Before(o.buf, p)
                           + (IF Precedes(o.buf, p, p) THEN Len(First(data, j)) ELSE 0)
        BY <1>7, <4>1 DEF Longer, p
      <4> QED BY <4>1, <4>2
    <3>2. E = Before(o.buf, p) + d
      BY <1>4, <1>15 DEF PageEnd, E, p, d
    <3> QED BY <2>3, <2>4, <3>1, <3>2 DEF blocation
  <2>8. Goal
    <3>1. f.buf = c
      BY <2>2
    <3>2. Grows(b, f.buf, E, First(data, j)) /\ blocation(f.buf) = E
      BY <2>4, <2>7, <3>1
    <3> QED BY <1>8, <2>5, <2>6, <3>2
  <2> QED BY <2>8 DEF f
<1> QED BY <1>4, <1>13, <1>14, <1>15

\* One page more is enough for what fits into a page.
LEMMA OnePageMore ==
  ASSUME NEW c, WellFormed(c), NEW l \in Seq(Byte), Len(l) <= PGSIZE,
         NEW q \in Page \ c.alive
  PROVE  InNewPages(c, l, <<q>>).left = <<>>
<1> DEFINE a == <<q>>
           s == [buf |-> c, left |-> l, full |-> FALSE]
<1>1. a \in Seq(Page \cup {NIL}) /\ Len(a) = 1 /\ a[1] = q /\ \A i \in 1 .. 1 : i = 1
  OBVIOUS
<1> HIDE DEF a
<1>2. Given(c, a)
  BY <1>1 DEF Given
<1>3. PICK f : Loops(f, s, a) /\ InNewPages(c, l, a) = f[1]
  <2>1. \E f : Loops(f, s, a) /\ InNewPages(c, l, a) = f[Len(a)]
    BY <1>2, NewPagesLoop
  <2> HIDE DEF s
  <2> QED BY <1>1, <2>1
<1>4. f[1] = InNewPage(f[0], q) /\ f[0] = s
  <2>1. 1 \in 1 .. Len(a) /\ 1 - 1 = 0
    BY <1>1
  <2>2. f[1] = InNewPage(f[1 - 1], a[1])
    BY <1>2, <1>3, <2>1, LoopExtends
  <2>3. f[0] = s
    BY <1>3 DEF Loops
  <2> QED BY <1>1, <2>1, <2>2, <2>3
<1>5. s.buf = c /\ s.left = l /\ s.full = FALSE
  OBVIOUS
<1>6. CASE l = <<>>
  <2>1. InNewPage(s, q) = s
    BY <1>5, <1>6 DEF InNewPage
  <2> QED BY <1>3, <1>4, <1>5, <1>6, <2>1 DEF a
<1>7. CASE l # <<>>
  <2> DEFINE n == MIN(PGSIZE, Len(l))
             g == Filled(makecur(newpage(c, q), q, 0), l, n)
             t == Rest(l, n)
  <2>1. q # NIL
    BY PageAssumption
  <2>2. InNewPage(s, q) = [s EXCEPT !.buf = g, !.left = t]
    BY <1>5, <1>7, <2>1 DEF InNewPage
  <2>3. t = <<>>
    <3>1. n = Len(l) /\ Len(l) \in Nat
      BY PGSIZEAssumption DEF MIN
    <3>2. Len(t) = 0 /\ t \in Seq(Byte)
      BY <3>1 DEF Rest
    <3> HIDE DEF t
    <3> QED BY <3>2
  <2> HIDE DEF g, t
  <2>4. InNewPage(s, q).left = t
    BY <2>2
  <2> QED BY <1>3, <1>4, <2>3, <2>4 DEF a
<1> QED BY <1>6, <1>7

\* breadv puts in at the point what the read has given; that is nothing if there is no
\* page for the second part.
LEMMA VectorGrows ==
  ASSUME NEW b, WellFormed(b), NEW data \in Seq(Byte),
         NEW q1 \in (Page \ b.alive) \cup {NIL}, NEW q2 \in (Page \ b.alive) \cup {NIL},
         q1 = q2 => q1 = NIL, q2 = NIL => data = <<>>,
         Len(data) <= PGSIZE - (IF b.curchar # curplen(b) THEN b.curchar ELSE curplen(b)) + PGSIZE
  PROVE  LET r == breadv(b, data, q1, q2)
         IN \E n \in 0 .. Len(data) :
              /\ n \in {r.ret, r.ret + 1}
              /\ Grows(b, r.buf, blocation(b), First(data, n))
              /\ blocation(r.buf) = blocation(b) + n
<1> DEFINE r == breadv(b, data, q1, q2)
           split == b.curchar # curplen(b)
           s == IF split THEN pagesplit(b, q1, b.curchar) ELSE b
           a == <<q2>>
           n == MIN(PGSIZE - curplen(s), Len(data))
           Goal == \E k \in 0 .. Len(data) :
                     /\ k \in {r.ret, r.ret + 1}
                     /\ Grows(b, r.buf, blocation(b), First(data, k))
                     /\ blocation(r.buf) = blocation(b) + k
<1>1. /\ NIL \notin b.alive /\ blocation(b) \in 0 .. Len(Text(b)) /\ Len(Text(b)) \in Nat
      /\ Len(data) \in Nat
  BY Lengths, PageAssumption, Places
<1>2. CASE split /\ q1 = NIL
  <2>1. r = [buf |-> b, ret |-> -1]
    BY <1>2 DEF breadv
  <2>2. r.buf = b /\ r.ret = -1
    BY <2>1
  <2> HIDE DEF r
  <2> DEFINE at == blocation(b)
             z  == First(data, 0)
  <2>3. z = <<>> /\ 0 \in 0 .. Len(data) /\ at \in 0 .. Len(Text(b)) /\ at \in Nat
    BY <1>1 DEF First
  <2> HIDE DEF z
  <2>4. SameMarked(b, b)
    BY DEF SameMarked
  <2> HIDE DEF at
  <2>5. Grows(b, b, at, z)
    BY <2>3, <2>4, SameMarkedGrows
  <2>6. 0 \in {r.ret, r.ret + 1} /\ at = at + 0
    BY <2>2, <2>3
  <2>7. Goal
    BY <2>2, <2>3, <2>5, <2>6 DEF at, z
  <2> QED BY <2>7 DEF r
<1>3. CASE ~ (split /\ q1 = NIL)
  <2>1. /\ r.buf = bappendpage(s, data, a).buf /\ r.ret = IF q2 = NIL THEN -1 ELSE Len(data)
        /\ bappendpage(s, data, a) = InNewPages(Filled(s, data, n), Rest(data, n), a)
    BY <1>3 DEF breadv, bappendpage
  <2>2. /\ WellFormed(s) /\ s.alive \subseteq b.alive \cup {q1} /\ SameMarked(b, s)
        /\ PageEnd(s) = blocation(b)
        /\ Len(data) <= PGSIZE - curplen(s) + PGSIZE
    <3>1. CASE split
      <4> DEFINE t == pagesplit(b, q1, b.curchar)
      <4>1. q1 \in Page \ b.alive
        BY <1>3, <3>1
      <4>2. /\ WellFormed(t) /\ t.alive = b.alive \cup {q1} /\ curplen(t) = b.curchar
            /\ SameMarked(b, t) /\ PageEnd(t) = blocation(b)
        BY <4>1, SplitEnds
      <4> HIDE DEF t
      <4>3. s = t
        BY <3>1 DEF t
      <4>4. Len(data) <= PGSIZE - b.curchar + PGSIZE
        BY <3>1
      <4> HIDE DEF s
      <4> QED BY <4>2, <4>3, <4>4
    <3>2. CASE ~ split
      <4>1. s = b /\ Len(data) <= PGSIZE - curplen(b) + PGSIZE
        BY <3>2
      <4>2. PageEnd(b) = blocation(b)
        BY <3>2 DEF PageEnd, blocation
      <4>3. SameMarked(b, b)
        BY DEF SameMarked
      <4> HIDE DEF s
      <4> QED BY <4>1, <4>2, <4>3
    <3> QED BY <3>1, <3>2
  <2>3. q2 \notin s.alive
    <3>1. NIL \notin s.alive
      BY <2>2, Lengths, PageAssumption
    <3>2. q2 \in Page => q2 # NIL
      BY PageAssumption
    <3> HIDE DEF s
    <3> QED BY <1>1, <2>2, <3>1, <3>2
  <2>4. Given(s, a)
    <3>1. a \in Seq(Page \cup {NIL}) /\ Len(a) = 1 /\ a[1] = q2
      OBVIOUS
    <3>2. \A i \in 1 .. 1 : i = 1
      OBVIOUS
    <3> HIDE DEF a, s
    <3> QED BY <2>3, <3>1, <3>2 DEF Given
  <2> DEFINE y == bappendpage(s, data, a)
             j == Len(data) - Len(y.left)
  <2>5. n \in 0 .. Len(data) /\ curplen(s) + n <= PGSIZE /\ Len(data) - n <= PGSIZE
    <3>1. curplen(s) \in Nat /\ curplen(s) <= PGSIZE /\ PGSIZE \in Nat
      BY <2>2, Lengths, PGSIZEAssumption DEF WellFormed, PagesFit, curplen
    <3>2. Len(data) <= PGSIZE - curplen(s) + PGSIZE
      BY <2>2
    <3> HIDE DEF s
    <3> QED BY <1>1, <3>1, <3>2 DEF MIN
  <2> HIDE DEF s, n, r, split
  <2>6. Put(s, data, y)
    BY <2>2, <2>4, AppendedPut
  <2>7. q2 # NIL => y.left = <<>>
    <3> SUFFICES ASSUME q2 # NIL PROVE y.left = <<>>
      OBVIOUS
    <3> DEFINE c == Filled(s, data, n)
               l == Rest(data, n)
    <3>1. WellFormed(c) /\ c.alive = s.alive
      BY <2>2, <2>5, FilledWellFormed
    <3>2. l \in Seq(Byte) /\ Len(l) <= PGSIZE
      <4>1. l \in Seq(Byte) /\ Len(l) = Len(data) - n
        BY <2>5, TakeDrop DEF Rest
      <4> HIDE DEF l
      <4> QED BY <2>5, <4>1
    <3>3. q2 \in Page \ c.alive
      BY <2>3, <3>1
    <3> HIDE DEF c, l
    <3>4. InNewPages(c, l, a).left = <<>>
      BY <3>1, <3>2, <3>3, OnePageMore
    <3> QED BY <2>1, <3>4 DEF c, l
  <2> HIDE DEF y, a
  <2>8. PICK k \in 0 .. Len(data) :
          /\ k = Len(data) - Len(y.left)
          /\ Grows(s, y.buf, PageEnd(s), First(data, k)) /\ blocation(y.buf) = PageEnd(s) + k
    BY <2>2, <2>6, PutGrows
  <2>9. Grows(b, y.buf, blocation(b), First(data, k)) /\ blocation(y.buf) = blocation(b) + k
    BY <2>2, <2>8, MarkedGrows
  <2>10. k \in {r.ret, r.ret + 1}
    <3>1. CASE q2 = NIL
      <4>1. k = 0 /\ r.ret = -1
        <5>1. Len(data) = 0
          BY <3>1
        <5> QED BY <2>1, <2>8, <3>1, <5>1
      <4> QED BY <4>1
    <3>2. CASE q2 # NIL
      <4>1. Len(y.left) = 0 /\ r.ret = Len(data)
        BY <2>1, <2>7, <3>2
      <4> QED BY <1>1, <2>8, <4>1
    <3> QED BY <3>1, <3>2
  <2>11. r.buf = y.buf
    BY <2>1 DEF y
  <2>12. Goal
    BY <2>9, <2>10, <2>11
  <2> QED BY <2>12 DEF r
<1> QED BY <1>2, <1>3

-----------------------------------------------------------------------------
(* The calls, as Inserted has them. *)

\* The two ways to say it.
LEMMA GrowsGrown ==
  ASSUME NEW data \in Seq(Byte), NEW at \in Nat, WellFormed(buf), Grows(buf, buf', at, data)
  PROVE  Grown(data, at)
<1>1. Text(buf') = First(Text(buf), at) \o data \o Rest(Text(buf), at)
  BY DEF Grows, Spliced, First, Rest
<1>2. ASSUME NEW m \in Mark, OnList(m)
      PROVE  LET p == MarkAt(buf, m) IN
             MarkAt(buf', m) \in (IF p <= at THEN {p} ELSE {})
                                 \cup (IF p >= at THEN {p + Len(data)} ELSE {})
  <2> DEFINE p == MarkAt(buf, m)
             q == MarkAt(buf', m)
  <2>1. p = PlaceOf(buf, m) /\ q = PlaceOf(buf', m)
    BY DEF MarkAt, PlaceOf
  <2>2. (p <= at /\ q = p) \/ (p >= at /\ q = p + Len(data))
    BY <1>2, <2>1 DEF Grows, OnList
  <2> HIDE DEF p, q
  <2>3. q \in (IF p <= at THEN {p} ELSE {}) \cup (IF p >= at THEN {p + Len(data)} ELSE {})
    BY <2>2
  <2> QED BY <2>3 DEF p, q
<1> QED BY <1>1, <1>2 DEF Grown

\* bindata.
LEMMA BindataInserts ==
  ASSUME BulkSound, NEW data \in Data, Bindata(data)
  PROVE  GrownAtPoint(First(data, ret'))
<1>1. data \in Seq(Byte) /\ Len(data) \in Nat /\ WellFormed(buf)
  BY Finds, BulkAssumption
<1>2. PICK allocs \in AllocsFor(Len(data)) :
        LET r == bindata(buf, data, allocs) IN Do(r.buf, Len(data) - Len(r.left))
  BY DEF Bindata
<1>3. Given(buf, allocs) /\ Len(allocs) > 0
  <2> DEFINE n == (Len(data) + PGSIZE - 1) \div PGSIZE + 1
  <2>1. n \in Nat \ {0}
    BY <1>1, EnoughCalls
  <2>2. allocs \in Allocs(n)
    BY <1>2 DEF AllocsFor
  <2> HIDE DEF n
  <2>3. Given(buf, allocs) /\ Len(allocs) = n
    BY <1>1, <2>1, <2>2, CallocGives
  <2> QED BY <2>1, <2>3
<1> DEFINE r == bindata(buf, data, allocs)
           j == Len(data) - Len(r.left)
           z == First(data, j)
<1>4. buf' = r.buf /\ ret' = j
  BY <1>2 DEF Do, Return
<1>5. /\ j \in 0 .. Len(data) /\ Grows(buf, r.buf, blocation(buf), z)
      /\ blocation(r.buf) = blocation(buf) + j
  BY <1>1, <1>3, BindataGrows
<1> HIDE DEF r, j
<1>6. z \in Seq(Byte) /\ Len(z) = j
  BY <1>1, <1>5, TakeDrop DEF First
<1>7. blocation(buf) \in Nat
  BY <1>1, Places
<1> HIDE DEF z
<1>8. Grown(z, blocation(buf))
  BY <1>1, <1>4, <1>5, <1>6, <1>7, GrowsGrown
<1> QED BY <1>4, <1>5, <1>6, <1>8 DEF GrownAtPoint, z

\* bappend.
LEMMA BappendInserts ==
  ASSUME BulkSound, NEW data \in Data, Bappend(data)
  PROVE  Grown(First(data, ret'), blength(buf)) /\ bisend(buf')
<1>1. data \in Seq(Byte) /\ Len(data) \in Nat /\ WellFormed(buf)
  BY Finds, BulkAssumption
<1>2. PICK allocs \in AllocsFor(Len(data)) :
        LET r == bappendpage(btoend(buf), data, allocs) IN Do(r.buf, Len(data) - Len(r.left))
  BY DEF Bappend
<1>3. Given(buf, allocs)
  <2> DEFINE n == (Len(data) + PGSIZE - 1) \div PGSIZE + 1
  <2>1. n \in Nat
    BY <1>1, EnoughCalls
  <2>2. allocs \in Allocs(n)
    BY <1>2 DEF AllocsFor
  <2> HIDE DEF n
  <2> QED BY <1>1, <2>1, <2>2, CallocGives
<1> DEFINE r == bappendpage(btoend(buf), data, allocs)
           j == Len(data) - Len(r.left)
           z == First(data, j)
<1>4. buf' = r.buf /\ ret' = j
  BY <1>2 DEF Do, Return
<1>5. j \in 0 .. Len(data) /\ Grows(buf, r.buf, blength(buf), z) /\ bisend(r.buf)
  BY <1>1, <1>3, BappendGrows
<1> HIDE DEF r, j
<1>6. z \in Seq(Byte)
  BY <1>1, <1>5, TakeDrop DEF First
<1>7. blength(buf) \in Nat
  BY <1>1, Places, InText
<1> HIDE DEF z
<1>8. Grown(z, blength(buf))
  BY <1>1, <1>4, <1>5, <1>6, <1>7, GrowsGrown
<1> QED BY <1>4, <1>5, <1>8 DEF z

\* breadfile.
LEMMA BreadfileInserts ==
  ASSUME BulkSound, NEW data \in Data, Breadfile(data)
  PROVE  IF ret' = 0
         THEN \E at \in FilePlaces : Grown(data, at) /\ blocation(buf') = at
         ELSE \E n \in 0 .. Len(data), at \in FilePlaces : Grown(First(data, n), at)
<1>1. data \in Seq(Byte) /\ Len(data) \in Nat /\ WellFormed(buf)
  BY Finds, BulkAssumption
<1>2. PICK allocs \in AllocsFor(Len(data) + 1) :
        LET r == breadfile(buf, data, allocs) IN Do(r.buf, IF r.done THEN 0 ELSE -1)
  BY DEF Breadfile
<1>3. Given(buf, allocs) /\ Len(allocs) > 1
  <2> DEFINE n == (Len(data) + 1 + PGSIZE - 1) \div PGSIZE + 1
  <2>1. n \in Nat \ {0, 1}
    BY <1>1, EnoughCalls
  <2>2. allocs \in Allocs(n)
    BY <1>2 DEF AllocsFor
  <2> HIDE DEF n
  <2>3. Given(buf, allocs) /\ Len(allocs) = n
    BY <1>1, <2>1, <2>2, CallocGives
  <2> QED BY <2>1, <2>3
<1> DEFINE f == breadfile(buf, data, allocs)
<1>4. buf' = f.buf /\ (ret' = 0 => f.done)
  <2>1. buf' = f.buf /\ ret' = IF f.done THEN 0 ELSE -1
    BY <1>2 DEF Do, Return
  <2> HIDE DEF f
  <2> QED BY <2>1
<1>5. PICK n \in 0 .. Len(data), at \in Nat :
        /\ \/ at = blocation(buf)
           \/ at = PageEnd(buf) /\ f.buf.data[buf.curpage] = buf.data[buf.curpage]
        /\ Grows(buf, f.buf, at, First(data, n))
        /\ f.done => n = Len(data) /\ blocation(f.buf) = at
  BY <1>1, <1>3, FileGrows
<1> HIDE DEF f
<1> DEFINE z == First(data, n)
<1>6. z \in Seq(Byte) /\ First(data, Len(data)) = data
  BY <1>1, TakeDrop DEF First
<1>7. at \in FilePlaces
  BY <1>4, <1>5 DEF FilePlaces, PageEnd
<1> HIDE DEF z
<1>8. Grown(z, at)
  BY <1>1, <1>4, <1>5, <1>6, GrowsGrown DEF z
<1>9. CASE ret' = 0
  <2>1. Grown(data, at) /\ blocation(buf') = at
    BY <1>4, <1>5, <1>6, <1>8, <1>9 DEF z
  <2> QED BY <1>7, <1>9, <2>1
<1>10. CASE ret' # 0
  BY <1>7, <1>8, <1>10 DEF z
<1> QED BY <1>9, <1>10

\* breadv.
LEMMA BreadvInserts ==
  ASSUME BulkSound, NEW data \in Data, Breadv(data)
  PROVE  \E n \in 0 .. Len(data) : n \in {ret', ret' + 1} /\ GrownAtPoint(First(data, n))
<1>1. data \in Seq(Byte) /\ Len(data) \in Nat /\ WellFormed(buf) /\ PGSIZE \in Nat
  BY Finds, BulkAssumption, PGSIZEAssumption
<1>2. PICK allocs \in Allocs(2), n \in 0 .. Len(data) :
        LET left == PGSIZE - (IF buf.curchar # curplen(buf) THEN buf.curchar ELSE curplen(buf))
            got  == IF allocs[2] = NIL THEN 0 ELSE n
            r    == breadv(buf, First(data, got), allocs[1], allocs[2])
        IN n <= left + PGSIZE /\ Do(r.buf, r.ret)
  BY DEF Breadv
<1> DEFINE left == PGSIZE - (IF buf.curchar # curplen(buf) THEN buf.curchar ELSE curplen(buf))
           got  == IF allocs[2] = NIL THEN 0 ELSE n
           q1   == allocs[1]
           q2   == allocs[2]
           d    == First(data, got)
           r    == breadv(buf, d, q1, q2)
<1>3. n <= left + PGSIZE /\ Do(r.buf, r.ret)
  BY <1>2
<1>4. /\ q1 \in (Page \ buf.alive) \cup {NIL} /\ q2 \in (Page \ buf.alive) \cup {NIL}
      /\ q1 = q2 => q1 = NIL
  <2>1. 1 \in 1 .. 2 /\ 2 \in 1 .. 2 /\ 2 \in Nat
    OBVIOUS
  <2>2. \A i \in 1 .. 2 : allocs[i] \in (Page \ buf.alive) \cup {NIL}
    BY <1>1, <2>1, CallocGives
  <2> QED BY <2>1, <2>2 DEF Allocs
<1>5. got \in 0 .. Len(data) /\ (q2 = NIL => got = 0) /\ got <= left + PGSIZE
  <2>1. left \in Nat
    <3>1. /\ buf.curchar \in Nat /\ buf.curchar <= curplen(buf) /\ curplen(buf) \in Nat
          /\ curplen(buf) <= PGSIZE
      BY <1>1, Lengths DEF WellFormed, PagesFit, curplen
    <3> QED BY <1>1, <3>1
  <2> HIDE DEF left
  <2> QED BY <1>1, <1>3, <2>1
<1> HIDE DEF got, q1, q2
<1>6. d \in Seq(Byte) /\ Len(d) = got
  BY <1>1, <1>5, TakeDrop DEF First
<1>7. q2 = NIL => d = <<>>
  <2> HIDE DEF d
  <2> QED BY <1>5, <1>6
<1>8. buf' = r.buf /\ ret' = r.ret
  BY <1>3 DEF Do, Return
<1>9. \E k \in 0 .. Len(d) :
        /\ k \in {r.ret, r.ret + 1}
        /\ Grows(buf, r.buf, blocation(buf), First(d, k))
        /\ blocation(r.buf) = blocation(buf) + k
  <2> HIDE DEF d
  <2>1. Len(d) <= PGSIZE - (IF buf.curchar # curplen(buf) THEN buf.curchar ELSE curplen(buf)) + PGSIZE
    BY <1>5, <1>6
  <2> QED BY <1>1, <1>4, <1>6, <1>7, <2>1, VectorGrows
<1>10. PICK k \in 0 .. got :
        /\ k \in {ret', ret' + 1}
        /\ Grows(buf, buf', blocation(buf), First(d, k))
        /\ blocation(buf') = blocation(buf) + k
  BY <1>6, <1>8, <1>9
<1>11. First(d, k) = First(data, k) /\ k \in 0 .. Len(data)
  <2> DEFINE x == First(d, k)
             y == First(data, k)
  <2>1. k \in 0 .. Len(data)
    BY <1>1, <1>5
  <2>2. \A i \in 1 .. got : d[i] = data[i]
    BY <1>1, <1>5 DEF First
  <2> HIDE DEF d
  <2>3. x \in Seq(Byte) /\ Len(x) = k /\ \A i \in 1 .. k : x[i] = d[i]
    BY <1>6 DEF First
  <2>4. y \in Seq(Byte) /\ Len(y) = k /\ \A i \in 1 .. k : y[i] = data[i]
    BY <1>1, <2>1 DEF First
  <2> HIDE DEF x, y
  <2>5. \A i \in 1 .. k : x[i] = y[i]
    BY <1>1, <1>5, <2>2, <2>3, <2>4
  <2>6. x = y
    BY <2>3, <2>4, <2>5
  <2> QED BY <2>1, <2>6 DEF x, y
<1> DEFINE z == First(data, k)
<1>12. z \in Seq(Byte) /\ Len(z) = k
  BY <1>1, <1>11, TakeDrop DEF First
<1>13. blocation(buf) \in Nat
  BY <1>1, Places
<1> HIDE DEF d, r
<1>14. Grows(buf, buf', blocation(buf), z) /\ blocation(buf') = blocation(buf) + k
  BY <1>10, <1>11
<1> HIDE DEF z
<1>15. Grown(z, blocation(buf))
  BY <1>1, <1>12, <1>13, <1>14, GrowsGrown
<1>16. GrownAtPoint(z)
  BY <1>12, <1>14, <1>15 DEF GrownAtPoint
<1> QED BY <1>10, <1>11, <1>16 DEF z

-----------------------------------------------------------------------------
(* The strings of a region. *)

\* What FlattenSeq computes, from each string to the next.
Flattening(s, h) ==
  /\ h[1] = s[1]
  /\ \A i \in 2 .. Len(s) : h[i] = h[i - 1] \o s[i]
  /\ \A i \in 1 .. Len(s) : h[i] \in Seq(Byte)

\* The strings of a sequence are flattened from the first to the last.
LEMMA Flattened ==
  ASSUME NEW s \in Seq(Seq(Byte)), s # <<>>
  PROVE  \E h : Flattening(s, h) /\ FlattenSeq(s) = h[Len(s)]
<1> DEFINE L == Len(s)
           n == L - 1
           A == Seq(Byte)
           next == [k \in 1 .. n |-> [x \in A |-> x \o s[k + 1]]]
           h == CHOOSE f : f = [i \in 1 .. L |-> IF i = 1 THEN s[i] ELSE f[i - 1] \o s[i]]
<1>1. L \in Nat \ {0} /\ n \in Nat /\ \A i \in 1 .. L : s[i] \in A
  OBVIOUS
<1>2. FlattenSeq(s) = h[L]
  BY <1>1 DEF FlattenSeq
<1> HIDE DEF L, A
<1>3. \A k \in 1 .. n : \A x \in A : x \o s[k + 1] \in A
  BY <1>1 DEF A
<1>4. next \in [1 .. n -> [A -> A]]
  BY <1>3
<1>5. \A k \in 1 .. n : \A x \in A : next[k][x] = x \o s[k + 1]
  OBVIOUS
<1> HIDE DEF next
<1>6. s[1] \in A
  BY <1>1
<1>7. PICK g : g \in Recursive(n, A, s[1], next)
  <2> DEFINE a == s[1]
  <2>1. n \in Nat /\ a \in A /\ next \in [1 .. n -> [A -> A]]
    BY <1>1, <1>4, <1>6
  <2> HIDE DEF n, a
  <2>2. Recursive(n, A, a, next) # {}
    BY <2>1, Recursion
  <2> QED BY <2>2 DEF a
<1>8. /\ g \in [0 .. n -> A] /\ g[0] = s[1]
      /\ \A k \in 1 .. n : g[k] = next[k][g[k - 1]]
  BY <1>7 DEF Recursive
<1>9. \A k \in 1 .. n : g[k] = g[k - 1] \o s[k + 1]
  <2> TAKE k \in 1 .. n
  <2>1. k - 1 \in 0 .. n
    BY <1>1
  <2> QED BY <1>5, <1>8, <2>1
<1> DEFINE f == [i \in 1 .. L |-> g[i - 1]]
           F == [i \in 1 .. L |-> IF i = 1 THEN s[i] ELSE f[i - 1] \o s[i]]
<1>10. f = F
  <2>1. ASSUME NEW i \in 1 .. L
        PROVE  g[i - 1] = IF i = 1 THEN s[i] ELSE f[i - 1] \o s[i]
    <3>1. CASE i = 1
      BY <1>8, <3>1
    <3>2. CASE i # 1
      <4> DEFINE k == i - 1
      <4>1. k \in 1 .. n /\ k \in 1 .. L /\ k + 1 = i
        BY <1>1, <3>2
      <4>2. f[k] = g[k - 1]
        BY <4>1
      <4> HIDE DEF k, f
      <4>3. g[k] = g[k - 1] \o s[i]
        BY <1>9, <4>1
      <4> QED BY <3>2, <4>2, <4>3 DEF k
    <3> QED BY <3>1, <3>2
  <2> QED BY <2>1
<1> HIDE DEF f
<1>11. h = [i \in 1 .. L |-> IF i = 1 THEN s[i] ELSE h[i - 1] \o s[i]]
  BY <1>10
<1> HIDE DEF h
<1>12. h[1] = s[1]
  BY <1>1, <1>11
<1>13. \A i \in 2 .. L : h[i] = h[i - 1] \o s[i]
  <2> TAKE i \in 2 .. L
  <2>1. i \in 1 .. L /\ i # 1
    BY <1>1
  <2>2. h[i] = IF i = 1 THEN s[i] ELSE h[i - 1] \o s[i]
    BY <1>11, <2>1, Zenon
  <2> QED BY <2>1, <2>2
<1> DEFINE T == {k \in 0 .. n : h[k + 1] \in A}
<1>14. 0 \in T
  BY <1>1, <1>6, <1>12
<1>15. ASSUME NEW k \in 0 .. n - 1, k \in T
       PROVE  k + 1 \in T
  <2> DEFINE i == k + 2
  <2>1. i \in 2 .. L /\ i \in 1 .. L /\ i - 1 = k + 1 /\ k + 1 + 1 = i /\ k + 1 \in 0 .. n
    BY <1>1
  <2> HIDE DEF i
  <2>2. h[i] = h[k + 1] \o s[i]
    BY <1>13, <2>1
  <2>3. h[i] \in A
    BY <1>1, <1>15, <2>1, <2>2 DEF A
  <2> QED BY <2>1, <2>3
<1>16. \A i \in 1 .. L : h[i] \in A
  <2>1. 0 .. n \subseteq T
    <3> HIDE DEF T
    <3> QED BY <1>1, <1>14, <1>15, UpTo
  <2> TAKE i \in 1 .. L
  <2> DEFINE k == i - 1
  <2>2. k \in 0 .. n /\ k + 1 = i
    BY <1>1
  <2> HIDE DEF k
  <2>3. k \in T
    BY <2>1, <2>2
  <2> QED BY <2>2, <2>3
<1>17. Flattening(s, h)
  BY <1>12, <1>13, <1>16 DEF Flattening, L, A
<1> QED BY <1>2, <1>17 DEF L

\* Three strings put together.
LEMMA ConcatThrice ==
  ASSUME NEW x \in Seq(Byte), NEW y \in Seq(Byte), NEW z \in Seq(Byte)
  PROVE  (x \o y) \o z = x \o (y \o z)
OBVIOUS

\* The bytes of two strings put together.
LEMMA ConcatAt ==
  ASSUME NEW x \in Seq(Byte), NEW y \in Seq(Byte), NEW i \in 1 .. Len(x) + Len(y)
  PROVE  (x \o y)[i] = IF i <= Len(x) THEN x[i] ELSE y[i - Len(x)]
OBVIOUS

\* Strings with the same bytes are the same.
LEMMA SameBytes ==
  ASSUME NEW x \in Seq(Byte), NEW y \in Seq(Byte), Len(x) = Len(y),
         \A i \in 1 .. Len(x) : x[i] = y[i]
  PROVE  x = y
OBVIOUS

\* A sequence that is another from its d-th string on, but for a string c in front of
\* the first one, flattens to that string and what the other flattens to.
LEMMA FlattenedFrom ==
  ASSUME NEW s \in Seq(Seq(Byte)), NEW t \in Seq(Seq(Byte)), t # <<>>, NEW c \in Seq(Byte),
         NEW d \in {0, 1}, Len(s) = Len(t) + d,
         d = 0 => s[1] = c \o t[1], d = 1 => s[1] = c /\ s[2] = t[1],
         \A i \in 2 .. Len(t) : s[i + d] = t[i]
  PROVE  FlattenSeq(s) = c \o FlattenSeq(t)
<1> DEFINE L == Len(t)
           n == L - 1
<1>1. L \in Nat \ {0} /\ n \in Nat /\ d \in Nat /\ s # <<>>
  BY EmptyBytes
<1>2. PICK g : Flattening(s, g) /\ FlattenSeq(s) = g[L + d]
  BY <1>1, Flattened
<1>3. PICK h : Flattening(t, h) /\ FlattenSeq(t) = h[L]
  BY Flattened
<1>4. /\ g[1] = s[1] /\ \A i \in 2 .. L + d : g[i] = g[i - 1] \o s[i]
      /\ h[1] = t[1] /\ \A i \in 2 .. L : h[i] = h[i - 1] \o t[i]
      /\ \A i \in 1 .. L : h[i] \in Seq(Byte) /\ t[i] \in Seq(Byte)
  <2>1. Len(s) = L + d
    OBVIOUS
  <2>2. g[1] = s[1] /\ \A i \in 2 .. L + d : g[i] = g[i - 1] \o s[i]
    BY <1>2, <2>1 DEF Flattening
  <2>3. /\ h[1] = t[1] /\ \A i \in 2 .. L : h[i] = h[i - 1] \o t[i]
        /\ \A i \in 1 .. L : h[i] \in Seq(Byte)
    BY <1>3 DEF Flattening
  <2>4. \A i \in 1 .. L : t[i] \in Seq(Byte)
    OBVIOUS
  <2> QED BY <2>2, <2>3, <2>4
<1> HIDE DEF L
<1> DEFINE T == {k \in 0 .. n : g[k + 1 + d] = c \o h[k + 1]}
<1>5. 0 \in T
  <2>0. 0 \in 0 .. n /\ 0 + 1 = 1 /\ 1 \in 1 .. L
    BY <1>1
  <2> SUFFICES g[0 + 1 + d] = c \o h[0 + 1]
    BY <2>0
  <2> HIDE DEF T
  <2>1. CASE d = 0
    <3>1. 0 + 1 + d = 1
      BY <2>1
    <3>2. g[1] = c \o h[1]
      BY <1>4, <2>1
    <3> QED BY <2>0, <3>1, <3>2, Zenon
  <2>2. CASE d = 1
    <3>1. 2 \in 2 .. L + d /\ 0 + 1 + d = 2 /\ 2 - 1 = 1 /\ 0 + 1 = 1
      BY <1>1, <2>2
    <3>2. g[2] = g[2 - 1] \o s[2]
      BY <1>4, <3>1
    <3>3. g[2] = c \o h[1]
      BY <1>4, <2>2, <3>1, <3>2, Zenon
    <3> QED BY <3>1, <3>3, Zenon
  <2> QED BY <2>1, <2>2
<1>6. ASSUME NEW k \in 0 .. n - 1, k \in T
      PROVE  k + 1 \in T
  <2> DEFINE i == k + 1
             j == k + 1 + 1
             e == j + d
  <2>1. /\ i \in 1 .. L /\ i \in 0 .. n /\ j \in 2 .. L /\ j \in 1 .. L /\ j - 1 = i
        /\ e \in 2 .. L + d /\ e - 1 = k + 1 + d /\ i + 1 + d = e /\ i + 1 = j
    BY <1>1
  <2>2. g[e - 1] = c \o h[i]
    BY <1>6, <2>1
  <2>3. s[e] = t[j]
    BY <2>1 DEF L
  <2> HIDE DEF i, j, e
  <2>4. g[e] = g[e - 1] \o s[e] /\ h[j] = h[i] \o t[j]
    BY <1>4, <2>1
  <2>5. h[i] \in Seq(Byte) /\ t[j] \in Seq(Byte)
    BY <1>4, <2>1
  <2>6. (c \o h[i]) \o t[j] = c \o (h[i] \o t[j])
    <3> DEFINE x == h[i]
               y == t[j]
    <3>1. x \in Seq(Byte) /\ y \in Seq(Byte)
      BY <2>5
    <3> HIDE DEF x, y
    <3>2. (c \o x) \o y = c \o (x \o y)
      BY <3>1, ConcatThrice
    <3> QED BY <3>2 DEF x, y
  <2>7. g[e] = c \o h[j]
    BY <2>2, <2>3, <2>4, <2>6
  <2>8. i \in T
    BY <2>1, <2>7
  <2> QED BY <2>8 DEF i
<1>7. n \in T
  <2> HIDE DEF T
  <2>1. 0 .. n \subseteq T
    <3> HIDE DEF n
    <3> QED BY <1>1, <1>5, <1>6, UpTo
  <2> QED BY <1>1, <2>1
<1>8. n + 1 = L /\ n + 1 + d = L + d
  BY <1>1
<1> QED BY <1>2, <1>3, <1>7, <1>8

\* What is flattened is a string.
LEMMA FlattenedBytes ==
  ASSUME NEW s \in Seq(Seq(Byte)), s # <<>>
  PROVE  FlattenSeq(s) \in Seq(Byte)
<1>1. PICK h : Flattening(s, h) /\ FlattenSeq(s) = h[Len(s)]
  BY Flattened
<1>2. Len(s) \in 1 .. Len(s)
  OBVIOUS
<1> QED BY <1>1, <1>2 DEF Flattening

\* bmove takes the first n bytes of a region off it.
LEMMA MovedOnward ==
  ASSUME NEW left \in Seq(Seq(Byte)), left # <<>>, NEW n \in 0 .. Len(Head(left))
  PROVE  /\ Moved(left, n) \in Seq(Seq(Byte)) \ {<<>>}
         /\ FlattenSeq(left) = First(Head(left), n) \o FlattenSeq(Moved(left, n))
<1> DEFINE head == Head(left)
           z == First(head, n)
           rest == Rest(head, n)
           L == Len(left)
<1>1. head \in Seq(Byte) /\ head = left[1] /\ L \in Nat \ {0} /\ Len(head) \in Nat
  OBVIOUS
<1>2. z \in Seq(Byte) /\ rest \in Seq(Byte) /\ head = z \o rest
  <2> HIDE DEF head
  <2>1. z \in Seq(Byte) /\ rest \in Seq(Byte) /\ Len(z) = n /\ Len(rest) = Len(head) - n
        /\ (\A i \in 1 .. n : z[i] = head[i])
        /\ (\A i \in 1 .. Len(head) - n : rest[i] = head[n + i])
    BY <1>1 DEF First, Rest
  <2> HIDE DEF z, rest
  <2> DEFINE x == z \o rest
  <2>2. x \in Seq(Byte) /\ Len(x) = Len(head)
        /\ \A i \in 1 .. Len(head) : x[i] = IF i <= n THEN z[i] ELSE rest[i - n]
    <3>1. /\ z \in Seq(Byte) /\ rest \in Seq(Byte) /\ Len(z) = n /\ Len(rest) = Len(head) - n
          /\ n \in Nat /\ Len(head) \in Nat /\ n <= Len(head)
      BY <1>1, <2>1
    <3>2. x \in Seq(Byte) /\ Len(x) = Len(z) + Len(rest)
      BY <3>1, ConcatBytes
    <3>3. Len(x) = Len(head)
      <4> HIDE DEF x
      <4> QED BY <3>1, <3>2
    <3>4. ASSUME NEW i \in 1 .. Len(head)
          PROVE  x[i] = IF i <= n THEN z[i] ELSE rest[i - n]
      <4>1. i \in 1 .. Len(z) + Len(rest)
        BY <3>1
      <4>2. x[i] = IF i <= Len(z) THEN z[i] ELSE rest[i - Len(z)]
        BY <3>1, <4>1, ConcatAt
      <4> HIDE DEF x
      <4> QED BY <3>1, <4>2
    <3> QED BY <3>2, <3>3, <3>4
  <2> HIDE DEF x
  <2>3. \A i \in 1 .. Len(head) : x[i] = head[i]
    <3> TAKE i \in 1 .. Len(head)
    <3>1. CASE i <= n
      BY <2>1, <2>2, <3>1
    <3>2. CASE ~ (i <= n)
      <4> DEFINE k == i - n
      <4>1. k \in 1 .. Len(head) - n /\ n + k = i
        BY <1>1, <3>2
      <4>2. x[i] = rest[k]
        BY <2>2, <3>2
      <4> HIDE DEF k
      <4> QED BY <2>1, <4>1, <4>2
    <3> QED BY <3>1, <3>2
  <2>4. x = head
    <3>1. head \in Seq(Byte) /\ x \in Seq(Byte) /\ Len(x) = Len(head)
      BY <1>1, <2>2
    <3> QED BY <2>3, <3>1, SameBytes
  <2> QED BY <2>1, <2>4 DEF x
<1>3. CASE n > 0 /\ n = Len(head) /\ L > 1
  <2> DEFINE t == Tail(left)
  <2>1. Moved(left, n) = t
    BY <1>3 DEF Moved
  <2>2. t \in Seq(Seq(Byte)) /\ Len(t) = L - 1 /\ \A i \in 1 .. L - 1 : t[i] = left[i + 1]
    BY <1>1
  <2>3. z = left[1]
    <3> HIDE DEF head
    <3>1. z = head
      BY <1>1, <1>3 DEF First
    <3> QED BY <1>1, <3>1
  <2> HIDE DEF t, L, z
  <2>4. t # <<>>
    <3>1. Len(t) # 0
      BY <1>1, <1>3, <2>2
    <3> QED BY <3>1
  <2>5. left[2] = t[1] /\ \A i \in 2 .. Len(t) : left[i + 1] = t[i]
    <3>1. 1 \in 1 .. L - 1 /\ 1 + 1 = 2
      BY <1>1, <1>3
    <3> QED BY <1>1, <2>2, <3>1
  <2>6. L = Len(t) + 1
    BY <1>1, <2>2
  <2>7. FlattenSeq(left) = z \o FlattenSeq(t)
    <3> DEFINE d == 1
    <3>1. /\ d \in {0, 1} /\ Len(left) = Len(t) + d /\ d # 0 /\ left[1] = z /\ left[2] = t[1]
          /\ \A i \in 2 .. Len(t) : left[i + d] = t[i]
      BY <2>3, <2>5, <2>6 DEF L
    <3> HIDE DEF d
    <3> QED BY <1>2, <2>2, <2>4, <3>1, FlattenedFrom
  <2> QED BY <2>1, <2>2, <2>4, <2>7 DEF z
<1>4. CASE ~ (n > 0 /\ n = Len(head) /\ L > 1)
  <2> DEFINE t == [left EXCEPT ![1] = rest]
  <2>1. Moved(left, n) = t
    BY <1>1, <1>4 DEF Moved
  <2> HIDE DEF rest
  <2>2. t \in Seq(Seq(Byte)) /\ Len(t) = L /\ t[1] = rest /\ \A i \in 2 .. L : t[i] = left[i]
    BY <1>1, <1>2
  <2> HIDE DEF t, L, z, head
  <2>3. t # <<>>
    BY <1>1, <2>2
  <2>4. FlattenSeq(left) = z \o FlattenSeq(t)
    <3> DEFINE d == 0
    <3>1. /\ d \in {0, 1} /\ Len(left) = Len(t) + d /\ d # 1 /\ left[1] = z \o t[1]
          /\ \A i \in 2 .. Len(t) : left[i + d] = t[i]
      <4>1. Len(t) = Len(t) + 0 /\ Len(left) = Len(t)
        BY <1>1, <2>2 DEF L
      <4>2. left[1] = z \o t[1]
        BY <1>1, <1>2, <2>2
      <4>3. \A i \in 2 .. Len(t) : left[i + 0] = t[i]
        BY <1>1, <2>2
      <4> QED BY <4>1, <4>2, <4>3
    <3> HIDE DEF d
    <3> QED BY <1>2, <2>2, <2>3, <3>1, FlattenedFrom
  <2> QED BY <2>1, <2>2, <2>3, <2>4 DEF z, head
<1> QED BY <1>3, <1>4

\* The string x from place j on is z and then w, which starts at place k.
Halved(x, j, z, k, w) ==
  /\ x \in Seq(Byte) /\ j \in 0 .. Len(x) /\ z \in Seq(Byte) /\ w \in Seq(Byte)
  /\ Rest(x, j) = z \o w /\ k = j + Len(z)

\* The parts of a string behind place j.
LEMMA RestParted ==
  ASSUME NEW x, NEW j, NEW z, NEW k, NEW w, Halved(x, j, z, k, w)
  PROVE  k \in 0 .. Len(x) /\ z = SubSeq(x, j + 1, k) /\ w = Rest(x, k)
<1>0. /\ x \in Seq(Byte) /\ j \in 0 .. Len(x) /\ z \in Seq(Byte) /\ w \in Seq(Byte)
      /\ Rest(x, j) = z \o w /\ k = j + Len(z)
  BY DEF Halved
<1> DEFINE r == Rest(x, j)
           L == Len(x)
           n == Len(z)
           N == Len(w)
           u == SubSeq(x, j + 1, k)
           v == Rest(x, k)
<1>1. L \in Nat /\ n \in Nat /\ N \in Nat /\ j \in Nat /\ j <= L
  BY <1>0
<1>2. Len(r) = L - j /\ \A i \in 1 .. L - j : r[i] = x[j + i]
  BY <1>0 DEF Rest
<1>3. r = z \o w
  BY <1>0
<1> HIDE DEF r
<1>4. /\ Len(r) = n + N /\ (\A i \in 1 .. n : r[i] = z[i])
      /\ (\A i \in 1 .. N : r[n + i] = w[i])
  BY <1>0, <1>3
<1>a. k = j + n
  BY <1>0
<1>5. L - j = n + N /\ k \in 0 .. L /\ L - k = N
  <2> HIDE DEF L, n, N
  <2> QED BY <1>1, <1>2, <1>4, <1>a, SMTT(30)
<1>6. /\ u \in Seq(Byte) /\ Len(u) = n /\ \A i \in 1 .. n : u[i] = x[j + i]
  <2>1. j + 1 \in 1 .. L + 1 /\ k \in j .. L
    BY <1>1, <1>5
  <2>2. k - j = n
    BY <1>1, <1>a
  <2>3. Len(u) = k - j /\ u \in Seq(Byte) /\ \A i \in 1 .. k - j : u[i] = x[j + i]
    BY <1>0, <1>1, <2>1
  <2> HIDE DEF n, u
  <2> QED BY <2>2, <2>3
<1>7. /\ v \in Seq(Byte) /\ Len(v) = N /\ \A i \in 1 .. N : v[i] = x[k + i]
  <2>1. k \in 0 .. Len(x) /\ L - k = N
    BY <1>5
  <2> HIDE DEF N
  <2>2. /\ v \in Seq(Byte) /\ Len(v) = Len(x) - k
        /\ \A i \in 1 .. Len(x) - k : v[i] = x[k + i]
    BY <1>0, <2>1 DEF Rest
  <2> HIDE DEF v
  <2> QED BY <1>0, <2>1, <2>2, SameBytes
<1> HIDE DEF u, v, L
<1>8. u = z
  <2>1. \A i \in 1 .. n : u[i] = z[i]
    <3> TAKE i \in 1 .. n
    <3>1. i \in 1 .. L - j
      BY <1>1, <1>5
    <3>2. r[i] = x[j + i] /\ r[i] = z[i]
      BY <1>2, <1>4, <3>1
    <3> QED BY <1>6, <3>2
  <2>2. u \in Seq(Byte) /\ Len(u) = Len(z)
    BY <1>0, <1>6
  <2> QED BY <1>0, <2>1, <2>2, SameBytes
<1>9. v = w
  <2>1. \A i \in 1 .. N : v[i] = w[i]
    <3> TAKE i \in 1 .. N
    <3> DEFINE h == n + i
    <3>1. h \in 1 .. L - j /\ j + h = k + i
      BY <1>1, <1>5
    <3>2. r[h] = w[i]
      BY <1>4
    <3> HIDE DEF h
    <3> QED BY <1>2, <1>7, <3>1, <3>2
  <2> QED BY <1>0, <1>7, <2>1, SameBytes
<1> QED BY <1>5, <1>8, <1>9 DEF u, v, L

-----------------------------------------------------------------------------
(* The copy. *)

\* What is left of the region is what has not been copied.
Copying ==
  bulk.op = "bcopyrgn" =>
    /\ bulk.region \in Seq(Byte) /\ bulk.copied \in 0 .. Len(bulk.region)
    /\ FlattenSeq(bulk.left) = Rest(bulk.region, bulk.copied)

\* An iteration of bcopyrgn puts the next bytes of the region in at the point, one at
\* least if there are any on the page of the source's point.
LEMMA CopyGrows ==
  ASSUME BulkSound, Copying, CopyStep
  PROVE  /\ Copying' /\ bulk'.op = "bcopyrgn" /\ bulk' # NoBulk
         /\ GrownAtPoint(SubSeq(bulk.region, bulk.copied + 1, bulk'.copied))
         /\ Head(bulk.left) # <<>> => bulk'.copied > bulk.copied
<1> DEFINE chunk  == Head(bulk.left)
           left   == bulk.left
           region == bulk.region
           copied == bulk.copied
<1>1. WellFormed(buf) /\ PGSIZE \in Nat
  BY Finds, PGSIZEAssumption
<1>2. /\ bulk.op = "bcopyrgn"
      /\ bulk = [op |-> "bcopyrgn", left |-> left, copied |-> copied, region |-> region]
      /\ left \in Seq(Seq(Byte)) \ {<<>>}
  <2>1. bulk.op = "bcopyrgn" /\ NoBulk.op = "none"
    BY DEF CopyStep, NoBulk
  <2>2. bulk # NoBulk
    BY <2>1
  <2> QED BY <2>1, <2>2 DEF BulkSound, CallInProgress
<1>3. chunk \in Seq(Byte) /\ Len(chunk) \in Nat
  BY <1>2
<1>4. /\ region \in Seq(Byte) /\ copied \in 0 .. Len(region) /\ copied \in Nat
      /\ FlattenSeq(left) = Rest(region, copied)
  BY <1>2 DEF Copying
<1>5. PICK to \in IF curplen(buf) < PGSIZE THEN {buf}
                  ELSE {pagesplit(buf, q, HALFP) : q \in Calloc \ {NIL}} :
        CopyChunk(to, MIN(Len(chunk), PGSIZE - curplen(to)))
  BY DEF CopyStep
<1>6. /\ WellFormed(to) /\ SameMarked(buf, to) /\ blocation(to) = blocation(buf)
      /\ curplen(to) \in Nat /\ curplen(to) < PGSIZE
  <2>1. CASE curplen(buf) < PGSIZE
    <3>1. to = buf /\ curplen(buf) \in Nat
      BY <1>1, <1>5, <2>1, Lengths
    <3> QED BY <1>1, <2>1, <3>1 DEF SameMarked
  <2>2. CASE ~ (curplen(buf) < PGSIZE)
    <3>1. PICK q \in Page \ buf.alive : to = pagesplit(buf, q, HALFP)
      BY <1>5, <2>2 DEF Calloc
    <3> DEFINE h == HALFP
               x == buf.curchar > h
    <3>2. /\ curplen(buf) = PGSIZE /\ h \in 1 .. PGSIZE - 1 /\ h \in 0 .. curplen(buf)
          /\ PGSIZE - h < PGSIZE /\ h < PGSIZE /\ PGSIZE - h \in Nat /\ h \in Nat
      <4>1. curplen(buf) = PGSIZE /\ h \in 1 .. PGSIZE - 1
        BY <1>1, <2>2, Lengths, HalfPage DEF WellFormed, PagesFit, curplen
      <4> HIDE DEF h
      <4> QED BY <1>1, <4>1
    <3> HIDE DEF h
    <3>3. /\ WellFormed(pagesplit(buf, q, h))
          /\ pagesplit(buf, q, h).curpage = IF buf.curchar > h THEN q ELSE buf.curpage
          /\ plen(pagesplit(buf, q, h), buf.curpage) = h
          /\ plen(pagesplit(buf, q, h), q) = curplen(buf) - h
      BY <1>1, <3>2, PageSplit
    <3>4. SameMarked(buf, pagesplit(buf, q, h)) /\ blocation(pagesplit(buf, q, h)) = blocation(buf)
      BY <1>1, <3>2, PageSplitMarked
    <3>5. to = pagesplit(buf, q, h)
      BY <3>1 DEF h
    <3>6. curplen(to) = plen(to, to.curpage)
      BY <3>3, <3>5, Lengths
    <3>7. curplen(to) \in {h, PGSIZE - h}
      BY <3>2, <3>3, <3>5, <3>6
    <3> QED BY <3>2, <3>3, <3>4, <3>5, <3>7
  <2> QED BY <2>1, <2>2
<1> DEFINE n == MIN(Len(chunk), PGSIZE - curplen(to))
           z == First(chunk, n)
           y == Moved(left, n)
           k == copied + n
<1>7. /\ n \in 0 .. Len(chunk) /\ n \in Nat /\ curplen(to) + n <= PGSIZE
      /\ Len(chunk) # 0 => n > 0
  <2> HIDE DEF chunk
  <2> QED BY <1>1, <1>3, <1>6 DEF MIN
<1>8. /\ buf' = Gapped(to, z)
      /\ bulk' = [bulk EXCEPT !.left = y, !.copied = k]
  BY <1>5 DEF CopyChunk
<1> HIDE DEF n
<1>9. z \in Seq(Byte) /\ Len(z) = n
  <2> HIDE DEF chunk
  <2> QED BY <1>3, <1>7, TakeDrop DEF First
<1>10. y \in Seq(Seq(Byte)) \ {<<>>} /\ FlattenSeq(left) = z \o FlattenSeq(y)
  <2>1. left \in Seq(Seq(Byte)) /\ left # <<>> /\ n \in 0 .. Len(Head(left))
    BY <1>2, <1>7
  <2> QED BY <2>1, MovedOnward
<1>11. FlattenSeq(y) \in Seq(Byte)
  BY <1>10, FlattenedBytes
<1>12. bulk' = [op |-> "bcopyrgn", left |-> y, copied |-> k, region |-> region]
  <2> HIDE DEF y, k
  <2> QED BY <1>2, <1>8
<1> HIDE DEF z, y
<1>13. /\ k \in 0 .. Len(region) /\ z = SubSeq(region, copied + 1, k)
       /\ FlattenSeq(y) = Rest(region, k)
  <2> DEFINE w == FlattenSeq(y)
  <2>1. /\ region \in Seq(Byte) /\ copied \in 0 .. Len(region)
        /\ z \in Seq(Byte) /\ w \in Seq(Byte)
        /\ Rest(region, copied) = z \o w
    BY <1>4, <1>9, <1>10, <1>11
  <2> HIDE DEF w, left, region, copied
  <2>2. Halved(region, copied, z, k, w)
    <3>1. k = copied + Len(z)
      BY <1>9
    <3> HIDE DEF k
    <3> QED BY <2>1, <3>1 DEF Halved
  <2> HIDE DEF k
  <2>3. k \in 0 .. Len(region) /\ z = SubSeq(region, copied + 1, k) /\ w = Rest(region, k)
    BY <2>2, RestParted
  <2> QED BY <2>3 DEF w
<1>14. /\ bulk'.op = "bcopyrgn" /\ bulk'.left = y /\ bulk'.copied = k /\ bulk'.region = region
  BY <1>12
<1>15. Copying'
  BY <1>4, <1>13, <1>14 DEF Copying
<1>16. bulk' # NoBulk
  BY <1>14 DEF NoBulk
<1>17. GrownAtPoint(z)
  <2>1. curplen(to) + Len(z) <= PGSIZE
    BY <1>7, <1>9
  <2>2. buf' \in {InPlace(to, z), Gapped(to, z)}
    BY <1>8
  <2>3. Grows(to, buf', blocation(to), z) /\ blocation(buf') = blocation(to) + Len(z)
    BY <1>6, <1>9, <2>1, <2>2, WidenedGrows
  <2>4. Grows(buf, buf', blocation(buf), z)
    BY <1>6, <2>3, MarkedGrows
  <2>5. blocation(buf) \in Nat
    BY <1>1, Places
  <2>6. Grown(z, blocation(buf))
    BY <1>1, <1>9, <2>4, <2>5, GrowsGrown
  <2> QED BY <1>6, <2>3, <2>6 DEF GrownAtPoint
<1>18. Head(bulk.left) # <<>> => bulk'.copied > bulk.copied
  <2> SUFFICES ASSUME chunk # <<>> PROVE k > copied
    BY <1>14
  <2>1. Len(chunk) # 0
    BY <1>3
  <2> HIDE DEF chunk, copied
  <2> QED BY <1>4, <1>7, <2>1
<1> QED BY <1>13, <1>14, <1>15, <1>16, <1>17, <1>18

\* bcopyrgn returns when all is copied, or at a full page that it cannot split.
LEMMA CopyAll ==
  ASSUME BulkSound, Copying, CopyReturn
  PROVE  ret' = Len(bulk.region) \/ curplen(buf) = PGSIZE
<1>1. /\ bulk.op = "bcopyrgn" /\ ret' = bulk.copied
      /\ bulk.left = << <<>> >> \/ curplen(buf) = PGSIZE
  BY DEF CopyReturn, NotAtMark
<1>2. CASE bulk.left = << <<>> >>
  <2> DEFINE s == << <<>> >>
             region == bulk.region
             copied == bulk.copied
  <2>1. s \in Seq(Seq(Byte)) /\ s # <<>> /\ Len(s) = 1 /\ s[1] = <<>>
    BY EmptyBytes
  <2> HIDE DEF s
  <2>2. PICK h : Flattening(s, h) /\ FlattenSeq(s) = h[Len(s)]
    BY <2>1, Flattened
  <2>3. FlattenSeq(s) = <<>>
    BY <2>1, <2>2 DEF Flattening
  <2>4. /\ region \in Seq(Byte) /\ copied \in 0 .. Len(region)
        /\ Rest(region, copied) = <<>>
    BY <1>1, <1>2, <2>3 DEF Copying, s
  <2> HIDE DEF region, copied
  <2>5. Len(Rest(region, copied)) = Len(region) - copied
    BY <2>4, TakeDrop DEF Rest
  <2>6. copied = Len(region)
    BY <2>4, <2>5
  <2> QED BY <1>1, <2>6 DEF region, copied
<1> QED BY <1>1, <1>2

\* The start of a copy.
LEMMA CopyBegins ==
  ASSUME NEW region \in Region, Bcopyrgn(region)
  PROVE  Copying'
<1>1. bulk' = [op |-> "bcopyrgn", left |-> region, copied |-> 0, region |-> FlattenSeq(region)]
  BY DEF Bcopyrgn
<1>2. region \in Seq(Seq(Byte)) /\ region # <<>>
  BY BulkAssumption
<1> DEFINE x == FlattenSeq(region)
<1>3. x \in Seq(Byte)
  BY <1>2, FlattenedBytes
<1> HIDE DEF x
<1>4. 0 \in 0 .. Len(x) /\ Rest(x, 0) = x
  BY <1>3 DEF Rest
<1>5. bulk'.left = region /\ bulk'.copied = 0 /\ bulk'.region = x
  BY <1>1 DEF x
<1> QED BY <1>3, <1>4, <1>5 DEF Copying, x

\* A copy is in progress, or what is left of it, is what it was.
LEMMA CopyingKept ==
  ASSUME BulkSound, Copying, [BulkNext]_bvars
  PROVE  Copying'
<1>1. NoBulk.op = "none"
  BY DEF NoBulk
<1>2. CASE bulk' = bulk
  BY <1>2 DEF Copying
<1>3. CASE bulk' = NoBulk
  BY <1>1, <1>3 DEF Copying
<1>4. CASE BulkCall
  <2>1. CASE \E data \in Data : Bindata(data) \/ Bappend(data) \/ Breadfile(data) \/ Breadv(data)
    BY <1>2, <2>1 DEF Bindata, Bappend, Breadfile, Breadv
  <2>2. CASE \E region \in Region : Bcopyrgn(region)
    BY <2>2, CopyBegins
  <2>3. CASE \E crlf \in BOOLEAN : Bwritefile(crlf)
    <3>1. PICK crlf \in BOOLEAN : Bwritefile(crlf)
      BY <2>3
    <3>2. bulk'.op = "bwritefile"
      BY <3>1 DEF Bwritefile
    <3> QED BY <3>2 DEF Copying
  <2>4. CASE BwritefileNoFile
    BY <1>2, <2>4 DEF BwritefileNoFile
  <2>5. CASE \E size \in 0 .. MaxText : Bwritev(size)
    <3>1. PICK size \in 0 .. MaxText : Bwritev(size)
      BY <2>5
    <3>2. bulk'.op = "bwritev"
      BY <3>1 DEF Bwritev
    <3> QED BY <3>2 DEF Copying
  <2> QED BY <1>4, <2>1, <2>2, <2>3, <2>4, <2>5 DEF BulkCall
<1>5. CASE BulkStep
  <2>1. CASE CopyStep
    BY <2>1, CopyGrows
  <2>2. CASE CopyReturn \/ BwritefileReturn \/ BwritevReturn
    BY <1>3, <2>2 DEF CopyReturn, BwritefileReturn, BwritevReturn
  <2>3. CASE WritePage \/ BwritevStep
    <3>1. bulk.op \in {"bwritefile", "bwritev"} /\ bulk # NoBulk
      BY <1>1, <2>3 DEF WritePage, BwritevStep
    <3>3. bulk'.op = bulk.op
      <4>1. CASE WritePage
        <5>1. /\ bulk = [op |-> "bwritefile", crlf |-> bulk.crlf, page |-> bulk.page,
                         file |-> bulk.file, status |-> bulk.status]
          BY <3>1, <4>1 DEF BulkSound, CallInProgress, WritePage
        <5> DEFINE bytes == Written(buf.data[bulk.page], bulk.crlf)
                   next  == buf.nextp[bulk.page]
        <5>2. PICK n \in 0 .. Len(bytes) :
                bulk' = [bulk EXCEPT !.page = next, !.file = bulk.file \o First(bytes, n),
                                     !.status = IF n = Len(bytes) THEN 1 ELSE 0]
          BY <4>1 DEF WritePage
        <5> DEFINE file   == bulk.file \o First(bytes, n)
                   status == IF n = Len(bytes) THEN 1 ELSE 0
        <5>3. bulk' = [bulk EXCEPT !.page = next, !.file = file, !.status = status]
          BY <5>2 DEF file, status
        <5> HIDE DEF file, status, bytes, next
        <5> QED BY <5>1, <5>3
      <4>2. CASE BwritevStep
        <5>1. /\ bulk = [op |-> "bwritev", size |-> bulk.size, file |-> bulk.file,
                         place |-> bulk.place, more |-> bulk.more]
          BY <3>1, <4>2 DEF BulkSound, CallInProgress, BwritevStep
        <5>2. \E p, f, t : bulk' = [bulk EXCEPT !.size = p, !.file = f, !.more = t]
          BY <4>2 DEF BwritevStep
        <5> QED BY <5>1, <5>2
      <4> QED BY <2>3, <4>1, <4>2
    <3> QED BY <3>1, <3>3 DEF Copying
  <2> QED BY <1>5, <2>1, <2>2, <2>3 DEF BulkStep
<1> QED BY <1>2, <1>4, <1>5 DEF BulkNext, bvars

\* A step of a copy is CopyStep, or CopyReturn.
LEMMA CopySteps ==
  ASSUME BulkNext, bulk.op = "bcopyrgn"
  PROVE  CopyStep \/ CopyReturn
<1>1. bulk # NoBulk
  BY DEF NoBulk
<1>2. ~ BulkCall
  BY <1>1 DEF BulkCall, Free, Bindata, Bappend, Breadfile, Breadv, Bcopyrgn, Bwritefile,
              BwritefileNoFile, Bwritev
<1>3. BulkStep
  BY <1>1, <1>2 DEF BulkNext
<1> QED BY <1>3 DEF BulkStep, WritePage, BwritefileReturn, BwritevStep, BwritevReturn

-----------------------------------------------------------------------------
(* The bytes between two places. *)

\* What lies behind place i up to place j.
Between(t, i, j) == SubSeq(t, i + 1, j)

\* It has a byte for each place.
LEMMA BetweenBytes ==
  ASSUME NEW t \in Seq(Byte), NEW j \in 0 .. Len(t), NEW i \in 0 .. j
  PROVE  /\ Between(t, i, j) \in Seq(Byte) /\ Len(Between(t, i, j)) = j - i
         /\ \A k \in 1 .. j - i : Between(t, i, j)[k] = t[i + k]
<1>1. i + 1 \in 1 .. Len(t) + 1 /\ i \in Nat /\ j \in Nat /\ (i + 1 <= j \/ i = j)
  OBVIOUS
<1>2. /\ SubSeq(t, i + 1, j) \in Seq(Byte)
      /\ Len(SubSeq(t, i + 1, j)) = IF i + 1 <= j THEN j - (i + 1) + 1 ELSE 0
  BY <1>1, SubSeqBytes
<1>3. \A k \in 1 .. j - i : SubSeq(t, i + 1, j)[k] = t[i + k]
  BY <1>1
<1>4. (IF i + 1 <= j THEN j - (i + 1) + 1 ELSE 0) = j - i
  BY <1>1
<1> QED BY <1>2, <1>3, <1>4 DEF Between

\* Two of them in a row.
LEMMA BetweenJoined ==
  ASSUME NEW t \in Seq(Byte), NEW k \in 0 .. Len(t), NEW j \in 0 .. k, NEW i \in 0 .. j
  PROVE  Between(t, i, j) \o Between(t, j, k) = Between(t, i, k)
<1> DEFINE x == Between(t, i, j)
           y == Between(t, j, k)
           z == Between(t, i, k)
<1>1. i \in 0 .. k /\ j \in 0 .. Len(t) /\ i \in Nat /\ j \in Nat /\ k \in Nat
  OBVIOUS
<1>2. /\ x \in Seq(Byte) /\ Len(x) = j - i /\ \A n \in 1 .. j - i : x[n] = t[i + n]
      /\ y \in Seq(Byte) /\ Len(y) = k - j /\ \A n \in 1 .. k - j : y[n] = t[j + n]
      /\ z \in Seq(Byte) /\ Len(z) = k - i /\ \A n \in 1 .. k - i : z[n] = t[i + n]
  BY <1>1, BetweenBytes
<1> HIDE DEF x, y, z
<1>3. x \o y \in Seq(Byte) /\ Len(x \o y) = Len(z)
  <2>1. x \o y \in Seq(Byte) /\ Len(x \o y) = Len(x) + Len(y)
    BY <1>2, ConcatBytes
  <2> QED BY <1>1, <1>2, <2>1
<1>4. ASSUME NEW n \in 1 .. k - i
      PROVE  (x \o y)[n] = z[n]
  <2>1. n \in 1 .. Len(x) + Len(y)
    BY <1>1, <1>2
  <2>2. (x \o y)[n] = IF n <= Len(x) THEN x[n] ELSE y[n - Len(x)]
    BY <1>2, <2>1, ConcatAt
  <2>3. CASE n <= j - i
    <3>1. n \in 1 .. j - i
      BY <1>1, <2>3
    <3>2. (x \o y)[n] = x[n]
      BY <1>2, <2>2, <2>3
    <3>3. x[n] = t[i + n] /\ z[n] = t[i + n]
      BY <1>2, <3>1
    <3> QED BY <3>2, <3>3
  <2>4. CASE ~ (n <= j - i)
    <3> DEFINE m == n - (j - i)
    <3>1. m \in 1 .. k - j /\ j + m = i + n
      BY <1>1, <2>4
    <3>2. (x \o y)[n] = y[m]
      BY <1>2, <2>2, <2>4
    <3> HIDE DEF m
    <3>3. y[m] = t[i + n]
      BY <1>2, <3>1
    <3> QED BY <1>2, <3>2, <3>3
  <2> QED BY <2>3, <2>4
<1>5. \A n \in 1 .. Len(x \o y) : (x \o y)[n] = z[n]
  BY <1>2, <1>3, <1>4
<1>6. x \o y = z
  BY <1>2, <1>3, <1>5, SameBytes
<1> QED BY <1>6 DEF x, y, z

\* The front of such a string.
LEMMA BetweenFront ==
  ASSUME NEW t \in Seq(Byte), NEW j \in 0 .. Len(t), NEW i \in 0 .. j, NEW n \in 0 .. j - i
  PROVE  First(Between(t, i, j), n) = Between(t, i, i + n)
<1> DEFINE x == Between(t, i, j)
           z == Between(t, i, i + n)
           y == First(x, n)
<1>1. /\ i + n \in 0 .. Len(t) /\ i \in 0 .. i + n /\ i \in Nat /\ n \in Nat /\ j \in Nat
      /\ n <= j - i /\ (i + n) - i = n
  OBVIOUS
<1>2. x \in Seq(Byte) /\ Len(x) = j - i /\ \A k \in 1 .. j - i : x[k] = t[i + k]
  BY BetweenBytes
<1>3. z \in Seq(Byte) /\ Len(z) = n /\ \A k \in 1 .. n : z[k] = t[i + k]
  <2> DEFINE e == i + n
  <2>1. e \in 0 .. Len(t) /\ i \in 0 .. e /\ e - i = n
    BY <1>1
  <2> HIDE DEF e
  <2>2. /\ Between(t, i, e) \in Seq(Byte) /\ Len(Between(t, i, e)) = e - i
        /\ \A k \in 1 .. e - i : Between(t, i, e)[k] = t[i + k]
    BY <2>1, BetweenBytes
  <2> QED BY <2>1, <2>2 DEF e
<1> HIDE DEF x, z
<1>4. y \in Seq(Byte) /\ Len(y) = n /\ \A k \in 1 .. n : y[k] = x[k]
  <2>1. n \in 0 .. Len(x)
    BY <1>1, <1>2
  <2>2. y \in Seq(Byte) /\ Len(y) = n
    BY <1>2, <2>1, TakeDrop DEF First
  <2> QED BY <1>2, <2>1, <2>2 DEF First
<1> HIDE DEF y
<1>5. \A k \in 1 .. n : y[k] = z[k]
  <2> TAKE k \in 1 .. n
  <2>1. k \in 1 .. j - i
    BY <1>1
  <2> QED BY <1>2, <1>3, <1>4, <2>1
<1>6. y = z
  BY <1>3, <1>4, <1>5, SameBytes
<1> QED BY <1>6 DEF x, y, z

\* A page has the bytes of the text from its place on.
LEMMA PageOfText ==
  ASSUME NEW b, WellFormed(b), NEW p \in b.alive
  PROVE  /\ Before(b, p) \in Nat /\ plen(b, p) \in Nat
         /\ Before(b, p) + plen(b, p) \in 0 .. Len(Text(b))
         /\ b.data[p] = Between(Text(b), Before(b, p), Before(b, p) + plen(b, p))
<1> DEFINE t == Text(b)
           i == Before(b, p)
           j == Before(b, p) + plen(b, p)
           z == Between(t, i, j)
<1>1. Listed(b) /\ p \in Page /\ t \in Seq(Byte)
  BY Places, Links
<1>2. /\ b.data[p] \in Seq(Byte) /\ plen(b, p) = Len(b.data[p]) /\ plen(b, p) \in Nat
      /\ Before(b, p) = Starts(b)[p] /\ Before(b, p) \in Nat
  BY <1>1, PageLengths, Beginnings
<1>3. blength(b) \in Nat /\ j <= blength(b) /\ Len(t) = blength(b)
  BY <1>1, InText, TextLaid
<1>4. \A k \in 1 .. plen(b, p) : t[i + k] = b.data[p][k]
  BY <1>1, <1>2, TextLaid DEF Laid
<1>5. i \in Nat /\ j \in 0 .. Len(t) /\ i \in 0 .. j /\ j - i = plen(b, p)
  BY <1>2, <1>3
<1> HIDE DEF t, i, j
<1>6. z \in Seq(Byte) /\ Len(z) = j - i /\ \A k \in 1 .. j - i : z[k] = t[i + k]
  BY <1>1, <1>5, BetweenBytes
<1> HIDE DEF z
<1>7. Len(b.data[p]) = Len(z) /\ \A k \in 1 .. Len(b.data[p]) : b.data[p][k] = z[k]
  BY <1>2, <1>4, <1>5, <1>6
<1>8. b.data[p] = z
  BY <1>2, <1>6, <1>7, SameBytes
<1> QED BY <1>2, <1>5, <1>8 DEF t, i, j, z

-----------------------------------------------------------------------------
(* What bwritev hands to one system call. *)

\* The bytes s has are those behind the point, up to page s.page.
InFront(b, s) ==
  \E e \in blocation(b) .. Len(Text(b)) :
    /\ s.bytes = Between(Text(b), blocation(b), e)
    /\ s.page # NIL => s.page \in b.alive /\ Before(b, s.page) = e

\* The page after page p, if there is one, begins where p ends.
LEMMA NextBegins ==
  ASSUME NEW b, WellFormed(b), NEW p \in b.alive
  PROVE  b.nextp[p] # NIL =>
           b.nextp[p] \in b.alive /\ Before(b, b.nextp[p]) = Before(b, p) + plen(b, p)
<1>1. Listed(b)
  BY Places
<1> SUFFICES ASSUME b.nextp[p] # NIL
             PROVE  b.nextp[p] \in b.alive /\ Before(b, b.nextp[p]) = Before(b, p) + plen(b, p)
  OBVIOUS
<1>2. p # b.lastp
  BY <1>1, Links
<1> QED BY <1>1, <1>2, Links, Beginnings

\* The point's page has what is behind the point first.
LEMMA AheadBegins ==
  ASSUME NEW b, WellFormed(b)
  PROVE  InFront(b, [page |-> b.nextp[b.curpage], bytes |-> Rest(b.data[b.curpage], b.curchar)])
<1> DEFINE p == b.curpage
           t == Text(b)
           i == Before(b, p)
           e == Before(b, p) + plen(b, p)
           o == blocation(b)
           d == b.data[p]
           x == Rest(d, b.curchar)
           z == Between(t, o, e)
           s == [page |-> b.nextp[p], bytes |-> x]
<1>1. p \in b.alive /\ t \in Seq(Byte) /\ b.curchar \in 0 .. plen(b, p) /\ o = i + b.curchar
  BY Places DEF blocation
<1>2. i \in Nat /\ plen(b, p) \in Nat /\ e \in 0 .. Len(t) /\ d = Between(t, i, e)
  BY <1>1, PageOfText
<1>3. d \in Seq(Byte) /\ Len(d) = plen(b, p)
  BY <1>1, Places, PageLengths
<1>4. /\ i \in 0 .. e /\ o \in 0 .. e /\ o \in Nat /\ e \in o .. Len(t)
      /\ e - i = plen(b, p) /\ e - o = plen(b, p) - b.curchar
  BY <1>1, <1>2
<1>5. b.nextp[p] # NIL => b.nextp[p] \in b.alive /\ Before(b, b.nextp[p]) = e
  BY <1>1, NextBegins
<1> DEFINE l == plen(b, p)
           c == b.curchar
<1>6. l \in Nat /\ c \in 0 .. l /\ o = i + c /\ e - i = l /\ e - o = l - c /\ Len(d) = l
  BY <1>1, <1>2, <1>3, <1>4
<1> HIDE DEF t, i, e, o, l, d
<1>7. d \in Seq(Byte) /\ \A k \in 1 .. l : d[k] = t[i + k]
  <2>1. \A k \in 1 .. e - i : Between(t, i, e)[k] = t[i + k]
    BY <1>1, <1>2, <1>4, BetweenBytes
  <2>2. d = Between(t, i, e) /\ d \in Seq(Byte)
    BY <1>2, <1>3
  <2> QED BY <1>6, <2>1, <2>2
<1>8. z \in Seq(Byte) /\ Len(z) = e - o /\ \A k \in 1 .. e - o : z[k] = t[o + k]
  BY <1>1, <1>2, <1>4, BetweenBytes
<1>9. x \in Seq(Byte) /\ Len(x) = l - c /\ \A k \in 1 .. l - c : x[k] = d[c + k]
  <2>1. x \in Seq(Byte) /\ Len(x) = l - c
    BY <1>6, <1>7, TakeDrop DEF Rest
  <2> HIDE DEF c
  <2>2. Len(d) = l /\ l \in Nat /\ c \in 0 .. l
    BY <1>6
  <2>3. \A k \in 1 .. l - c : SubSeq(d, c + 1, Len(d))[k] = d[c + k]
    BY <1>7, <2>2
  <2>4. \A k \in 1 .. l - c : x[k] = d[c + k]
    BY <2>3 DEF Rest, c
  <2> QED BY <2>1, <2>4 DEF c
<1> HIDE DEF x, z, c
<1>10. x = z
  <2>1. ASSUME NEW k \in 1 .. l - c
        PROVE  x[k] = z[k]
    <3> DEFINE m == c + k
    <3>1. m \in 1 .. l /\ i + m = o + k /\ k \in 1 .. e - o
      BY <1>2, <1>6
    <3>2. x[k] = d[m]
      BY <1>9
    <3> HIDE DEF m
    <3>3. d[m] = t[o + k] /\ z[k] = t[o + k]
      BY <1>7, <1>8, <3>1
    <3> QED BY <3>2, <3>3
  <2>2. Len(x) = Len(z) /\ \A k \in 1 .. Len(x) : x[k] = z[k]
    BY <1>6, <1>8, <1>9, <2>1
  <2> QED BY <1>8, <1>9, <2>2, SameBytes
<1>11. s.bytes = z /\ s.page = b.nextp[p]
  BY <1>10
<1>12. s.bytes = Between(Text(b), blocation(b), e) /\ e \in blocation(b) .. Len(Text(b))
  BY <1>4, <1>11 DEF z, t, o
<1> QED BY <1>5, <1>11, <1>12 DEF InFront, x, d, c, s

\* The next page has what comes after that.
LEMMA AheadOnward ==
  ASSUME NEW b, WellFormed(b), NEW s, InFront(b, s)
  PROVE  InFront(b, NextIov(b, s))
<1>1. CASE s.page = NIL
  BY <1>1 DEF NextIov
<1>2. CASE s.page # NIL
  <2> DEFINE p == s.page
             t == Text(b)
             o == blocation(b)
             n == plen(b, p)
             r == [page |-> b.nextp[p], bytes |-> s.bytes \o b.data[p]]
  <2>1. PICK e \in o .. Len(t) : s.bytes = Between(t, o, e) /\ p \in b.alive /\ Before(b, p) = e
    BY <1>2 DEF InFront
  <2>2. /\ n \in Nat /\ e \in Nat /\ e + n \in 0 .. Len(t) /\ b.data[p] = Between(t, e, e + n)
        /\ t \in Seq(Byte) /\ o \in Nat
    BY <2>1, PageOfText, Places
  <2>3. b.nextp[p] # NIL => b.nextp[p] \in b.alive /\ Before(b, b.nextp[p]) = e + n
    BY <2>1, NextBegins
  <2> DEFINE f == e + n
  <2>4. f \in o .. Len(t) /\ f \in 0 .. Len(t) /\ e \in 0 .. f /\ o \in 0 .. e
    BY <2>1, <2>2
  <2>5. s.bytes \o b.data[p] = Between(t, o, e) \o Between(t, e, f)
    BY <2>1, <2>2
  <2> HIDE DEF f, t, o
  <2>6. Between(t, o, e) \o Between(t, e, f) = Between(t, o, f)
    BY <2>2, <2>4, BetweenJoined
  <2>7. r.bytes = Between(t, o, f) /\ r.page = b.nextp[p]
    BY <2>5, <2>6
  <2>8. r.page # NIL => r.page \in b.alive /\ Before(b, r.page) = f
    BY <2>3, <2>7 DEF f
  <2> HIDE DEF r
  <2>9. InFront(b, r)
    BY <2>4, <2>7, <2>8 DEF InFront, t, o
  <2> QED BY <1>2, <2>9 DEF NextIov, r
<1> QED BY <1>1, <1>2

\* What is handed to writev is in the text behind the point, without a gap.
LEMMA AheadIs ==
  ASSUME NEW b, WellFormed(b)
  PROVE  \E e \in blocation(b) .. Len(Text(b)) : Ahead(b) = Between(Text(b), blocation(b), e)
<1> DEFINE n == MAX_IOVS - 1
           A == [page : Page \cup {NIL}, bytes : Seq(Byte)]
           a == [page |-> b.nextp[b.curpage], bytes |-> Rest(b.data[b.curpage], b.curchar)]
           next == [k \in 1 .. n |-> [x \in A |-> NextIov(b, x)]]
           h == CHOOSE f : f = [i \in 0 .. n |-> IF i = 0 THEN a ELSE NextIov(b, f[i - 1])]
<1>1. n \in Nat
  BY BulkAssumption
<1>2. \A p \in Page : b.nextp[p] \in Page \cup {NIL} /\ b.data[p] \in Seq(Byte)
  BY Places DEF Buffer
<1>3. a \in A
  <2>1. /\ b.curpage \in Page /\ b.curchar \in 0 .. Len(b.data[b.curpage])
    BY Places DEF plen
  <2>2. Rest(b.data[b.curpage], b.curchar) \in Seq(Byte)
    BY <1>2, <2>1, TakeDrop DEF Rest
  <2> QED BY <1>2, <2>1, <2>2
<1>4. ASSUME NEW x \in A
      PROVE  NextIov(b, x) \in A
  <2>1. CASE x.page = NIL
    BY <2>1 DEF NextIov
  <2>2. CASE x.page # NIL
    <3>1. /\ x.page \in Page /\ x.bytes \in Seq(Byte) /\ b.nextp[x.page] \in Page \cup {NIL}
          /\ b.data[x.page] \in Seq(Byte)
      BY <1>2, <2>2
    <3>2. x.bytes \o b.data[x.page] \in Seq(Byte)
      BY <3>1, ConcatBytes
    <3> QED BY <2>2, <3>1, <3>2 DEF NextIov
  <2> QED BY <2>1, <2>2
<1>5. Ahead(b) = h[n].bytes
  BY DEF Ahead
<1> HIDE DEF n, A, a
<1>6. next \in [1 .. n -> [A -> A]] /\ \A k \in 1 .. n : \A x \in A : next[k][x] = NextIov(b, x)
  BY <1>4
<1> HIDE DEF next
<1>7. PICK g : g \in Recursive(n, A, a, next)
  <2>1. Recursive(n, A, a, next) # {}
    BY <1>1, <1>3, <1>6, Recursion
  <2> QED BY <2>1
<1>8. /\ g \in [0 .. n -> A] /\ g[0] = a
      /\ \A k \in 1 .. n : g[k] = next[k][g[k - 1]]
  BY <1>7 DEF Recursive
<1>9. \A k \in 1 .. n : g[k] = NextIov(b, g[k - 1])
  <2> TAKE k \in 1 .. n
  <2>1. k - 1 \in 0 .. n
    BY <1>1
  <2> QED BY <1>6, <1>8, <2>1
<1>10. g = [i \in 0 .. n |-> IF i = 0 THEN a ELSE NextIov(b, g[i - 1])]
  <2>1. \A i \in 0 .. n : g[i] = IF i = 0 THEN a ELSE NextIov(b, g[i - 1])
    <3> TAKE i \in 0 .. n
    <3>1. i # 0 => i \in 1 .. n
      BY <1>1
    <3> QED BY <1>8, <1>9, <3>1
  <2> QED BY <1>8, <2>1
<1>11. h = [i \in 0 .. n |-> IF i = 0 THEN a ELSE NextIov(b, h[i - 1])]
  BY <1>10
<1> HIDE DEF h
<1> DEFINE T == {k \in 0 .. n : InFront(b, h[k])}
<1>12. 0 \in T
  <2>1. 0 \in 0 .. n /\ h[0] = a
    BY <1>1, <1>11
  <2>2. InFront(b, a)
    BY AheadBegins DEF a
  <2> QED BY <2>1, <2>2
<1>13. ASSUME NEW k \in 0 .. n - 1, k \in T
       PROVE  k + 1 \in T
  <2> DEFINE i == k + 1
  <2>1. i \in 0 .. n /\ i # 0 /\ i - 1 = k
    BY <1>1
  <2> HIDE DEF i
  <2>2. h[i] = NextIov(b, h[k])
    BY <1>11, <2>1, Zenon
  <2>3. InFront(b, h[k])
    BY <1>13
  <2>4. InFront(b, h[i])
    BY <2>2, <2>3, AheadOnward
  <2> QED BY <2>1, <2>4 DEF i
<1>14. n \in T
  <2> HIDE DEF T
  <2>1. 0 .. n \subseteq T
    BY <1>1, <1>12, <1>13, UpTo
  <2> QED BY <1>1, <2>1
<1> QED BY <1>5, <1>14 DEF InFront

-----------------------------------------------------------------------------
(* What bwritefile writes for a newline. *)

\* Sequences of strings put together.
LEMMA FlattenedJoined ==
  ASSUME NEW s \in Seq(Seq(Byte)), NEW t \in Seq(Seq(Byte))
  PROVE  FlattenSeq(s \o t) = FlattenSeq(s) \o FlattenSeq(t)
<1> DEFINE S == Seq(Byte)
           L == Len(s)
           M == Len(t)
           r == s \o t
<1>1. /\ L \in Nat /\ M \in Nat /\ r \in Seq(S) /\ Len(r) = L + M
      /\ \A i \in 1 .. L : r[i] = s[i]
      /\ \A i \in 1 .. M : r[L + i] = t[i]
  <2>1. r \in Seq(S) /\ Len(r) = L + M
    OBVIOUS
  <2>2. \A i \in 1 .. L : r[i] = s[i]
    OBVIOUS
  <2>3. \A i \in 1 .. M : r[L + i] = t[i]
    OBVIOUS
  <2> QED BY <2>1, <2>2, <2>3
<1>2. FlattenSeq(s) \in S /\ FlattenSeq(t) \in S
  <2>1. FlattenSeq(<<>>) \in S
    BY EmptyBytes DEF FlattenSeq
  <2> QED BY <2>1, FlattenedBytes
<1>3. CASE s = <<>>
  <2>1. r = t
    BY <1>3
  <2>2. FlattenSeq(s) = <<>>
    BY <1>3 DEF FlattenSeq
  <2> QED BY <1>2, <2>1, <2>2
<1>4. CASE t = <<>>
  <2>1. r = s
    BY <1>4
  <2>2. FlattenSeq(t) = <<>>
    BY <1>4 DEF FlattenSeq
  <2> QED BY <1>2, <2>1, <2>2
<1>5. CASE s # <<>> /\ t # <<>>
  <2>1. L # 0 /\ M # 0 /\ r # <<>>
    BY <1>1, <1>5
  <2>2. PICK f : Flattening(s, f) /\ FlattenSeq(s) = f[L]
    BY <1>5, Flattened
  <2>3. PICK g : Flattening(t, g) /\ FlattenSeq(t) = g[M]
    BY <1>5, Flattened
  <2>4. PICK h : Flattening(r, h) /\ FlattenSeq(r) = h[Len(r)]
    BY <1>1, <2>1, Flattened
  <2>5. /\ f[1] = s[1] /\ \A i \in 2 .. L : f[i] = f[i - 1] \o s[i]
        /\ \A i \in 1 .. L : f[i] \in S
    BY <2>2 DEF Flattening
  <2>6. /\ g[1] = t[1] /\ \A i \in 2 .. M : g[i] = g[i - 1] \o t[i]
        /\ \A i \in 1 .. M : g[i] \in S
    BY <2>3 DEF Flattening
  <2>7. h[1] = r[1] /\ \A i \in 2 .. L + M : h[i] = h[i - 1] \o r[i]
    BY <1>1, <2>4 DEF Flattening
  <2>8. \A i \in 1 .. M : t[i] \in S
    OBVIOUS
  <2> HIDE DEF r, L, M, S
  <2> DEFINE T == {k \in 0 .. L - 1 : h[k + 1] = f[k + 1]}
             U == {k \in 0 .. M : k # 0 => h[L + k] = f[L] \o g[k]}
  <2>9. 0 \in T
    <3>1. 0 \in 0 .. L - 1 /\ 0 + 1 = 1 /\ 1 \in 1 .. L
      BY <1>1, <2>1
    <3>2. h[1] = f[1]
      BY <1>1, <2>5, <2>7, <3>1
    <3> QED BY <3>1, <3>2
  <2>10. ASSUME NEW k \in 0 .. L - 1 - 1, k \in T
         PROVE  k + 1 \in T
    <3> DEFINE i == k + 2
    <3>1. /\ i \in 2 .. L /\ i \in 2 .. L + M /\ i \in 1 .. L /\ i - 1 = k + 1
          /\ k + 1 + 1 = i /\ k + 1 \in 0 .. L - 1
      BY <1>1
    <3> HIDE DEF i
    <3>2. h[k + 1] = f[k + 1]
      BY <2>10
    <3>3. h[i] = h[i - 1] \o r[i] /\ f[i] = f[i - 1] \o s[i] /\ r[i] = s[i]
      BY <1>1, <2>5, <2>7, <3>1
    <3>4. h[i] = f[i]
      BY <3>1, <3>2, <3>3
    <3> QED BY <3>1, <3>4
  <2>11. h[L] = f[L] /\ f[L] \in S
    <3> DEFINE m == L - 1
    <3>1. m \in Nat /\ m \in 0 .. m /\ m + 1 = L /\ L \in 1 .. L
      BY <1>1, <2>1
    <3>2. T = {k \in 0 .. m : h[k + 1] = f[k + 1]} /\ \A k \in 0 .. m - 1 : k \in T => k + 1 \in T
      BY <2>10
    <3> HIDE DEF m, T
    <3>3. 0 .. m \subseteq T
      BY <2>9, <3>1, <3>2, UpTo
    <3> QED BY <2>5, <3>1, <3>2, <3>3
  <2>12. 0 \in U
    BY <1>1
  <2>13. ASSUME NEW k \in 0 .. M - 1, k \in U
         PROVE  k + 1 \in U
    <3> DEFINE i == k + 1
               j == L + k + 1
    <3>1. /\ i \in 1 .. M /\ i \in 0 .. M /\ j \in 2 .. L + M /\ j = L + i /\ j - 1 = L + k
          /\ i - 1 = k
      BY <1>1, <2>1
    <3>2. (k # 0 => i \in 2 .. M /\ k \in 1 .. M) /\ (k = 0 => i = 1 /\ L + k = L)
      BY <1>1
    <3> HIDE DEF i, j
    <3>3. h[j] = h[L + k] \o t[i]
      <4>1. h[j] = h[j - 1] \o r[j]
        BY <2>7, <3>1
      <4>2. r[j] = t[i]
        BY <1>1, <3>1
      <4> QED BY <3>1, <4>1, <4>2
    <3>4. h[j] = f[L] \o g[i]
      <4>1. CASE k = 0
        BY <2>6, <2>11, <3>2, <3>3, <4>1
      <4>2. CASE k # 0
        <5>1. h[L + k] = f[L] \o g[k]
          BY <2>13, <4>2
        <5>2. g[i] = g[k] \o t[i]
          BY <2>6, <3>1, <3>2, <4>2
        <5>3. g[k] \in Seq(Byte) /\ t[i] \in Seq(Byte) /\ f[L] \in Seq(Byte)
          BY <2>6, <2>8, <2>11, <3>1, <3>2, <4>2 DEF S
        <5>4. (f[L] \o g[k]) \o t[i] = f[L] \o (g[k] \o t[i])
          BY <5>3, ConcatThrice
        <5> QED BY <3>3, <5>1, <5>2, <5>4
      <4> QED BY <4>1, <4>2
    <3>5. h[L + i] = f[L] \o g[i]
      BY <3>1, <3>4
    <3> QED BY <3>1, <3>5 DEF i
  <2>14. h[L + M] = f[L] \o g[M]
    <3> HIDE DEF U
    <3>1. 0 .. M \subseteq U
      BY <1>1, <2>12, <2>13, UpTo
    <3>2. M \in 0 .. M /\ M # 0
      BY <1>1, <2>1
    <3> QED BY <3>1, <3>2 DEF U
  <2> QED BY <1>1, <2>2, <2>3, <2>4, <2>14 DEF r
<1> QED BY <1>3, <1>4, <1>5

\* The string written for each byte.
Lines(s) == [i \in DOMAIN s |-> IF s[i] = NL THEN <<CR, NL>> ELSE <<s[i]>>]

\* There is one for each.
LEMMA LinesOf ==
  ASSUME NEW s \in Seq(Byte)
  PROVE  /\ Lines(s) \in Seq(Seq(Byte)) /\ Len(Lines(s)) = Len(s)
         /\ \A i \in 1 .. Len(s) : Lines(s)[i] = IF s[i] = NL THEN <<CR, NL>> ELSE <<s[i]>>
<1>1. CR \in Byte /\ NL \in Byte
  BY BulkAssumption, ByteAssumption
<1>2. \A i \in 1 .. Len(s) : (IF s[i] = NL THEN <<CR, NL>> ELSE <<s[i]>>) \in Seq(Byte)
  BY <1>1
<1>3. DOMAIN s = 1 .. Len(s) /\ Len(s) \in Nat
  OBVIOUS
<1>4. Lines(s) \in [1 .. Len(s) -> Seq(Byte)]
  BY <1>2, <1>3 DEF Lines
<1>5. Lines(s) \in Seq(Seq(Byte)) /\ Len(Lines(s)) = Len(s)
  BY <1>3, <1>4
<1> QED BY <1>3, <1>5 DEF Lines

\* The strings for two texts are those for one and then those for the other.
LEMMA LinesJoined ==
  ASSUME NEW x \in Seq(Byte), NEW y \in Seq(Byte)
  PROVE  Lines(x \o y) = Lines(x) \o Lines(y)
<1> DEFINE S == Seq(Byte)
           z == x \o y
           u == Lines(x)
           v == Lines(y)
           w == Lines(z)
           L == Len(x)
           M == Len(y)
           line(c) == IF c = NL THEN <<CR, NL>> ELSE <<c>>
<1>1. z \in Seq(Byte) /\ Len(z) = L + M /\ L \in Nat /\ M \in Nat
  BY ConcatBytes
<1>2. /\ u \in Seq(S) /\ Len(u) = L /\ \A i \in 1 .. L : u[i] = line(x[i])
      /\ v \in Seq(S) /\ Len(v) = M /\ \A i \in 1 .. M : v[i] = line(y[i])
  BY LinesOf
<1>3. w \in Seq(S) /\ Len(w) = L + M /\ \A i \in 1 .. L + M : w[i] = line(z[i])
  BY <1>1, LinesOf
<1>4. \A i \in 1 .. L + M : z[i] = IF i <= L THEN x[i] ELSE y[i - L]
  BY ConcatAt
<1> HIDE DEF S, z, u, v, w, line
<1>5. /\ u \o v \in Seq(S) /\ Len(u \o v) = L + M
      /\ \A i \in 1 .. L + M : (u \o v)[i] = IF i <= L THEN u[i] ELSE v[i - L]
  <2> HIDE DEF L, M
  <2>1. u \in Seq(S) /\ v \in Seq(S)
    BY <1>2
  <2>2. u \o v \in Seq(S) /\ Len(u \o v) = Len(u) + Len(v)
    BY <2>1
  <2>3. \A i \in 1 .. Len(u) + Len(v) : (u \o v)[i] = IF i <= Len(u) THEN u[i] ELSE v[i - Len(u)]
    BY <2>1
  <2> QED BY <1>2, <2>2, <2>3
<1> HIDE DEF L, M
<1>6. ASSUME NEW i \in 1 .. L + M
      PROVE  (u \o v)[i] = w[i]
  <2>1. CASE i <= L
    <3>1. i \in 1 .. L
      BY <1>1, <2>1
    <3>2. (u \o v)[i] = u[i] /\ w[i] = line(z[i]) /\ z[i] = x[i]
      BY <1>3, <1>4, <1>5, <2>1
    <3> QED BY <1>2, <3>1, <3>2
  <2>2. CASE ~ (i <= L)
    <3> DEFINE k == i - L
    <3>1. k \in 1 .. M
      BY <1>1, <2>2
    <3>2. (u \o v)[i] = v[k] /\ w[i] = line(z[i]) /\ z[i] = y[k]
      BY <1>3, <1>4, <1>5, <2>2
    <3> HIDE DEF k
    <3> QED BY <1>2, <3>1, <3>2
  <2> QED BY <2>1, <2>2
<1>7. u \o v = w
  BY <1>3, <1>5, <1>6
<1> QED BY <1>7 DEF u, v, w, z

\* What is written for two texts in a row.
LEMMA WrittenJoined ==
  ASSUME NEW x \in Seq(Byte), NEW y \in Seq(Byte), NEW crlf
  PROVE  /\ Written(x \o y, crlf) = Written(x, crlf) \o Written(y, crlf)
         /\ Written(x, crlf) \in Seq(Byte) /\ Written(<<>>, crlf) = <<>>
<1>1. ASSUME NEW s \in Seq(Byte)
      PROVE  Dos(s) = FlattenSeq(Lines(s)) /\ Dos(s) \in Seq(Byte)
  <2>1. Dos(s) = FlattenSeq(Lines(s))
    BY DEF Dos, Lines
  <2>2. FlattenSeq(<<>>) \in Seq(Byte)
    BY EmptyBytes DEF FlattenSeq
  <2>3. FlattenSeq(Lines(s)) \in Seq(Byte)
    BY <2>2, LinesOf, FlattenedBytes
  <2> QED BY <2>1, <2>3
<1>2. x \o y \in Seq(Byte) /\ <<>> \in Seq(Byte)
  BY ConcatBytes, EmptyBytes
<1>3. Dos(x \o y) = Dos(x) \o Dos(y)
  <2>1. Lines(x \o y) = Lines(x) \o Lines(y)
    BY LinesJoined
  <2>2. Lines(x) \in Seq(Seq(Byte)) /\ Lines(y) \in Seq(Seq(Byte))
    BY LinesOf
  <2>3. FlattenSeq(Lines(x) \o Lines(y)) = FlattenSeq(Lines(x)) \o FlattenSeq(Lines(y))
    BY <2>2, FlattenedJoined
  <2> QED BY <1>1, <1>2, <2>1, <2>3
<1>4. Dos(<<>>) = <<>>
  <2>1. Lines(<<>>) \in Seq(Seq(Byte)) /\ Len(Lines(<<>>)) = 0
    BY EmptyBytes, LinesOf
  <2>2. Lines(<<>>) = <<>>
    BY <2>1
  <2>3. FlattenSeq(<<>>) = <<>>
    BY DEF FlattenSeq
  <2> QED BY <1>1, <1>2, <2>2, <2>3
<1> QED BY <1>1, <1>3, <1>4 DEF Written

\* Less than what was to be written is not all.
LEMMA ShortOf ==
  ASSUME NEW x \in Seq(Byte), NEW y \in Seq(Byte), NEW z \in Seq(Byte), NEW n \in 0 .. Len(y),
         n # Len(y)
  PROVE  IsStrictPrefix(x \o First(y, n), (x \o y) \o z)
<1> DEFINE u == x \o First(y, n)
           w == (x \o y) \o z
           L == Len(x)
           M == Len(y)
           N == Len(z)
           f == First(y, n)
           m == L + n
<1>1. L \in Nat /\ M \in Nat /\ N \in Nat /\ n \in Nat /\ n < M
  OBVIOUS
<1>2. f \in Seq(Byte) /\ Len(f) = n /\ \A i \in 1 .. n : f[i] = y[i]
  <2>1. f \in Seq(Byte) /\ Len(f) = n
    BY TakeDrop DEF First
  <2> QED BY <2>1 DEF First
<1>3. x \o y \in Seq(Byte) /\ Len(x \o y) = L + M
  BY ConcatBytes
<1>4. /\ w \in Seq(Byte) /\ Len(w) = L + M + N
      /\ \A i \in 1 .. L + M : w[i] = IF i <= L THEN x[i] ELSE y[i - L]
  <2>1. w \in Seq(Byte) /\ Len(w) = L + M + N
    BY <1>3, ConcatBytes
  <2> DEFINE v == x \o y
  <2>2. \A i \in 1 .. L + M : v[i] = IF i <= L THEN x[i] ELSE y[i - L]
    BY ConcatAt
  <2>3. v \in Seq(Byte) /\ Len(v) = L + M /\ w = v \o z
    BY <1>3
  <2> HIDE DEF v, w
  <2>4. \A i \in 1 .. L + M : w[i] = v[i]
    <3> TAKE i \in 1 .. L + M
    <3>1. i \in 1 .. Len(v) + Len(z) /\ i <= Len(v)
      BY <1>1, <2>3
    <3>2. (v \o z)[i] = IF i <= Len(v) THEN v[i] ELSE z[i - Len(v)]
      BY <2>3, <3>1, ConcatAt
    <3> QED BY <2>3, <3>1, <3>2
  <2> QED BY <2>1, <2>2, <2>4
<1> HIDE DEF f
<1>5. /\ u \in Seq(Byte) /\ Len(u) = m
      /\ \A i \in 1 .. m : u[i] = IF i <= L THEN x[i] ELSE f[i - L]
  <2>1. x \o f \in Seq(Byte) /\ Len(x \o f) = L + n
    BY <1>2, ConcatBytes
  <2>2. \A i \in 1 .. Len(x) + Len(f) : (x \o f)[i] = IF i <= Len(x) THEN x[i] ELSE f[i - Len(x)]
    BY <1>2, ConcatAt
  <2> QED BY <1>2, <2>1, <2>2 DEF f
<1> HIDE DEF u, w, L, M, N
<1>6. ASSUME NEW i \in 1 .. m
      PROVE  u[i] = w[i]
  <2>1. i \in 1 .. L + M
    BY <1>1
  <2>2. CASE i <= L
    BY <1>4, <1>5, <2>1, <2>2
  <2>3. CASE ~ (i <= L)
    <3> DEFINE k == i - L
    <3>1. k \in 1 .. n
      BY <1>1, <2>3
    <3>2. u[i] = f[k] /\ w[i] = y[k]
      BY <1>4, <1>5, <2>1, <2>3
    <3> HIDE DEF k
    <3> QED BY <1>2, <3>1, <3>2
  <2> QED BY <2>2, <2>3
<1>7. m \in Nat /\ m < L + M + N /\ m \in 0 .. Len(w)
  BY <1>1, <1>4
<1> HIDE DEF m
<1>8. /\ SubSeq(w, 1, m) \in Seq(Byte) /\ Len(SubSeq(w, 1, m)) = m
      /\ \A i \in 1 .. m : SubSeq(w, 1, m)[i] = w[i]
  <2>1. SubSeq(w, 1, m) \in Seq(Byte) /\ Len(SubSeq(w, 1, m)) = m
    BY <1>4, <1>7, TakeDrop
  <2> QED BY <1>4, <1>7, <2>1
<1> DEFINE r == SubSeq(w, 1, m)
<1> HIDE DEF r
<1>9. r = u
  <2>1. r \in Seq(Byte) /\ Len(r) = Len(u) /\ \A i \in 1 .. Len(r) : r[i] = u[i]
    BY <1>5, <1>6, <1>8 DEF r
  <2> QED BY <1>5, <2>1, SameBytes
<1>10. SubSeq(u, 1, Len(u)) = u
  BY <1>5
<1>11. IsPrefix(u, w)
  <2>1. Len(u) = m /\ Len(u) <= Len(w)
    BY <1>4, <1>5, <1>7
  <2> QED BY <1>9, <1>10, <2>1 DEF IsPrefix, r
<1>12. u # w
  BY <1>4, <1>5, <1>7
<1> QED BY <1>11, <1>12 DEF IsStrictPrefix, u, w, f

-----------------------------------------------------------------------------
(* What is in the file. *)

\* Where a write that is at page p is in the text.
WriteAt(b, p) == IF p = NIL THEN Len(Text(b)) ELSE Before(b, p)

\* The file has what is before the page that is next, or if a write failed, less than
\* all; and bwritev's has what the point was moved over.
Writing ==
  /\ bulk.op = "bwritefile" =>
       /\ bulk.page \in buf.alive \cup {NIL} /\ bulk.status \in {0, 1}
       /\ bulk.status = 1 =>
            bulk.file = Written(Between(Text(buf), 0, WriteAt(buf, bulk.page)), bulk.crlf)
       /\ bulk.status = 0 => IsStrictPrefix(bulk.file, Written(Text(buf), bulk.crlf))
  /\ bulk.op = "bwritev" =>
       /\ bulk.size \in Nat /\ bulk.more \in BOOLEAN
       /\ bulk.place \in 0 .. blocation(buf)
       /\ bulk.file = Between(Text(buf), bulk.place, blocation(buf))

\* The text up to its beginning and its end.
LEMMA WholeText ==
  ASSUME NEW t \in Seq(Byte)
  PROVE  Between(t, 0, 0) = <<>> /\ Between(t, 0, Len(t)) = t
BY DEF Between

\* Nothing lies between a place and itself.
LEMMA NothingBetween ==
  ASSUME NEW t \in Seq(Byte), NEW i \in 0 .. Len(t)
  PROVE  Between(t, i, i) = <<>>
<1>1. i \in 0 .. i /\ i - i = 0
  OBVIOUS
<1>2. Between(t, i, i) \in Seq(Byte) /\ Len(Between(t, i, i)) = i - i
  BY <1>1, BetweenBytes
<1> QED BY <1>1, <1>2

\* A move of the point in the same pages.
LEMMA PointOnly ==
  ASSUME NEW b, WellFormed(b), NEW p \in b.alive, NEW d \in Nat, d <= plen(b, p)
  PROVE  LET c == makecur(b, p, d)
         IN /\ Text(c) = Text(b) /\ c.alive = b.alive
            /\ \A r \in b.alive : Before(c, r) = Before(b, r)
<1> DEFINE c == makecur(b, p, d)
<1>1. b \in Buffer /\ OnlyPoint(b, c)
  BY Places, MovedOnly
<1>2. WellFormed(c)
  BY PointMove
<1>3. /\ c.data = b.data /\ SameLinks(b, c) /\ c.alive = b.alive
      /\ c.mpage = b.mpage /\ c.moffset = b.moffset
  BY <1>1 DEF OnlyPoint, SameLinks
<1>4. c \in Buffer
  BY <1>2 DEF WellFormed
<1> HIDE DEF c
<1>5. SameMarked(b, c) /\ \A r \in b.alive : Before(c, r) = Before(b, r) /\ plen(c, r) = plen(b, r)
  BY <1>3, <1>4, PointSameMarked
<1> QED BY <1>3, <1>5 DEF SameMarked, c

\* The start of a write.
LEMMA WriteBegins ==
  ASSUME BulkSound, NEW crlf, Bwritefile(crlf)
  PROVE  Writing'
<1>1. WellFormed(buf) /\ buf' = buf
  BY Finds DEF Bwritefile
<1>2. /\ Listed(buf) /\ Text(buf) \in Seq(Byte) /\ buf.firstp \in buf.alive
      /\ buf.firstp # NIL /\ Before(buf, buf.firstp) = 0
  BY <1>1, Places, Links, Beginnings
<1>3. bulk' = [op |-> "bwritefile", crlf |-> crlf, page |-> buf.firstp, file |-> <<>>, status |-> 1]
  BY DEF Bwritefile
<1>4. /\ bulk'.op = "bwritefile" /\ bulk'.crlf = crlf /\ bulk'.page = buf.firstp
      /\ bulk'.file = <<>> /\ bulk'.status = 1
  BY <1>3
<1>5. Between(Text(buf), 0, WriteAt(buf, buf.firstp)) = <<>>
  BY <1>2, WholeText DEF WriteAt
<1>6. Written(<<>>, crlf) = <<>>
  BY EmptyBytes, WrittenJoined
<1> QED BY <1>1, <1>2, <1>4, <1>5, <1>6 DEF Writing

\* A page is written.
LEMMA WritePageWrites ==
  ASSUME BulkSound, Writing, WritePage
  PROVE  Writing' /\ bulk'.op = "bwritefile"
<1> DEFINE p == bulk.page
           q == buf.nextp[p]
           t == Text(buf)
           e == Before(buf, p)
           f == Before(buf, p) + plen(buf, p)
           crlf == bulk.crlf
           x == Written(Between(t, 0, e), crlf)
           bytes == Written(buf.data[p], crlf)
           z == Written(Between(t, f, Len(t)), crlf)
<1>1. WellFormed(buf) /\ Listed(buf) /\ t \in Seq(Byte) /\ Len(t) \in Nat
  BY Finds, Places
<1>2. bulk.op = "bwritefile" /\ p # NIL /\ bulk.status = 1
  BY DEF WritePage
<1>3. p \in buf.alive /\ bulk.file = x
  BY <1>2 DEF Writing, WriteAt
<1>4. /\ e \in Nat /\ f \in 0 .. Len(t) /\ e \in 0 .. f /\ e \in 0 .. Len(t) /\ 0 \in 0 .. e
      /\ 0 \in 0 .. f /\ f \in Nat /\ Len(t) \in 0 .. Len(t)
      /\ buf.data[p] = Between(t, e, f)
  BY <1>1, <1>3, PageOfText
<1>5. /\ q # NIL => q \in buf.alive /\ Before(buf, q) = f
      /\ q = NIL => f = Len(t)
  <2>1. q # NIL => q \in buf.alive /\ Before(buf, q) = f
    BY <1>1, <1>3, NextBegins
  <2>2. ASSUME q = NIL PROVE f = Len(t)
    <3>1. p = buf.lastp
      BY <1>1, <1>3, <2>2, Links
    <3> QED BY <1>1, <3>1, TextLaid DEF blength
  <2> QED BY <2>1, <2>2
<1>6. PICK n \in 0 .. Len(bytes) :
        bulk' = [bulk EXCEPT !.page = q, !.file = bulk.file \o First(bytes, n),
                             !.status = IF n = Len(bytes) THEN 1 ELSE 0]
  BY DEF WritePage
<1>7. /\ bulk'.op = "bwritefile" /\ bulk'.crlf = crlf /\ bulk'.page = q
      /\ bulk'.file = x \o First(bytes, n) /\ bulk'.status = IF n = Len(bytes) THEN 1 ELSE 0
  <2>1. bulk = [op |-> "bwritefile", crlf |-> bulk.crlf, page |-> bulk.page,
                file |-> bulk.file, status |-> bulk.status]
    BY <1>2 DEF BulkSound, CallInProgress, NoBulk
  <2> DEFINE file   == bulk.file \o First(bytes, n)
             status == IF n = Len(bytes) THEN 1 ELSE 0
  <2>2. bulk' = [bulk EXCEPT !.page = q, !.file = file, !.status = status]
    BY <1>6
  <2> HIDE DEF file, status, q
  <2>3. /\ bulk'.op = "bwritefile" /\ bulk'.crlf = bulk.crlf /\ bulk'.page = q
        /\ bulk'.file = file /\ bulk'.status = status
    BY <2>1, <2>2
  <2> QED BY <1>3, <2>3 DEF file, status
<1>8. Text(buf') = t /\ buf'.alive = buf.alive /\ \A r \in buf.alive : Before(buf', r) = Before(buf, r)
  <2>1. buf' = buf \/ buf' = makecur(buf, p, 0)
    BY DEF WritePage
  <2>2. 0 \in Nat /\ 0 <= plen(buf, p)
    BY <1>1, <1>3, PageOfText
  <2> QED BY <1>1, <1>3, <2>1, <2>2, PointOnly
<1>9. /\ x \in Seq(Byte) /\ bytes \in Seq(Byte) /\ z \in Seq(Byte)
      /\ Written(Between(t, 0, f), crlf) = x \o bytes
      /\ Written(t, crlf) = (x \o bytes) \o z
  <2> DEFINE l == Len(t)
             u == Between(t, 0, e)
             v == Between(t, e, f)
             w == Between(t, f, l)
  <2>1. /\ l \in Nat /\ l \in 0 .. l /\ f \in 0 .. l /\ e \in 0 .. f /\ 0 \in 0 .. e /\ 0 \in 0 .. f
        /\ f \in 0 .. Len(t) /\ l \in 0 .. Len(t) /\ e \in 0 .. Len(t)
    BY <1>4
  <2> HIDE DEF l, e, f, t
  <2>2. u \in Seq(Byte) /\ v \in Seq(Byte) /\ w \in Seq(Byte)
    BY <1>1, <2>1, BetweenBytes
  <2>3. u \o v = Between(t, 0, f)
    BY <1>1, <2>1, BetweenJoined
  <2>4. Between(t, 0, f) \o w = Between(t, 0, l)
    BY <1>1, <2>1, BetweenJoined
  <2>5. Between(t, 0, l) = t
    BY <1>1, WholeText DEF l
  <2>6. buf.data[p] = v
    BY <1>4
  <2> HIDE DEF u, v, w
  <2>7. u \o v \in Seq(Byte)
    BY <2>2, ConcatBytes
  <2>8. /\ Written(u \o v, crlf) = Written(u, crlf) \o Written(v, crlf)
        /\ Written((u \o v) \o w, crlf) = Written(u \o v, crlf) \o Written(w, crlf)
        /\ Written(u, crlf) \in Seq(Byte) /\ Written(v, crlf) \in Seq(Byte)
        /\ Written(w, crlf) \in Seq(Byte)
    <3> DEFINE y == u \o v
               c == crlf
    <3> HIDE DEF y, c
    <3>0. Written(u, c) \in Seq(Byte) /\ Written(v, c) \in Seq(Byte)
      BY <2>2, WrittenJoined
    <3>1. Written(u \o v, c) = Written(u, c) \o Written(v, c)
      BY <2>2, WrittenJoined, ZenonT(40)
    <3>2. y \in Seq(Byte)
      BY <2>7 DEF y
    <3>3. /\ Written(y \o w, c) = Written(y, c) \o Written(w, c) /\ Written(w, c) \in Seq(Byte)
      BY <2>2, <3>2, WrittenJoined
    <3> QED BY <3>0, <3>1, <3>3 DEF y, c
  <2>9. (u \o v) \o w = t
    BY <2>3, <2>4, <2>5
  <2>10. x = Written(u, crlf) /\ bytes = Written(v, crlf) /\ z = Written(w, crlf)
    BY <2>6 DEF u, w, l
  <2> HIDE DEF x, bytes, z
  <2> QED BY <2>3, <2>8, <2>9, <2>10
<1>10. bulk'.status = 1 =>
         bulk'.file = Written(Between(Text(buf'), 0, WriteAt(buf', bulk'.page)), bulk'.crlf)
  <2> SUFFICES ASSUME bulk'.status = 1
               PROVE  bulk'.file = Written(Between(t, 0, f), crlf) /\ WriteAt(buf', q) = f
    BY <1>7, <1>8
  <2>1. n = Len(bytes)
    BY <1>7
  <2>2. First(bytes, n) = bytes
    BY <1>9, <2>1 DEF First
  <2>3. WriteAt(buf', q) = f
    BY <1>5, <1>8 DEF WriteAt
  <2> HIDE DEF bytes, x
  <2> QED BY <1>7, <1>9, <2>2, <2>3
<1>11. bulk'.status = 0 => IsStrictPrefix(bulk'.file, Written(Text(buf'), bulk'.crlf))
  <2> SUFFICES ASSUME bulk'.status = 0
               PROVE  IsStrictPrefix(x \o First(bytes, n), (x \o bytes) \o z)
    BY <1>7, <1>8, <1>9
  <2>1. n # Len(bytes)
    BY <1>7
  <2> HIDE DEF x, bytes, z
  <2> QED BY <1>9, <2>1, ShortOf
<1>12. bulk'.page \in buf'.alive \cup {NIL} /\ bulk'.status \in {0, 1}
  BY <1>5, <1>7, <1>8
<1> QED BY <1>7, <1>10, <1>11, <1>12 DEF Writing

\* The start of a write by bwritev.
LEMMA VectorBegins ==
  ASSUME BulkSound, NEW size \in 0 .. MaxText, Bwritev(size)
  PROVE  Writing'
<1>1. WellFormed(buf) /\ buf' = buf
  BY Finds DEF Bwritev
<1> DEFINE o == blocation(buf)
           t == Text(buf)
<1>2. t \in Seq(Byte) /\ o \in 0 .. Len(t) /\ size \in Nat
  BY <1>1, Places, BoundsAssumption
<1>3. bulk' = [op |-> "bwritev", size |-> size, file |-> <<>>, place |-> o, more |-> TRUE]
  BY DEF Bwritev
<1>4. /\ bulk'.op = "bwritev" /\ bulk'.size = size /\ bulk'.file = <<>> /\ bulk'.place = o
      /\ bulk'.more = TRUE
  BY <1>3
<1> HIDE DEF t, o
<1>5. Between(t, o, o) = <<>> /\ o \in 0 .. o
  BY <1>2, NothingBetween
<1> QED BY <1>1, <1>2, <1>4, <1>5 DEF Writing, t, o

\* A system call writes some of what is behind the point, and the point goes behind that.
LEMMA VectorWrites ==
  ASSUME BulkSound, Writing, BwritevStep
  PROVE  /\ Writing' /\ bulk'.op = "bwritev"
         /\ bulk'.more => bulk'.size > 0 /\ (bulk'.size < bulk.size \/ UNCHANGED bvars)
<1> DEFINE t == Text(buf)
           o == blocation(buf)
           size == bulk.size
           place == bulk.place
           ahead == Ahead(buf)
           bytes == First(ahead, MIN(bulk.size, Len(ahead)))
<1>1. WellFormed(buf) /\ t \in Seq(Byte) /\ Len(t) \in Nat /\ o \in 0 .. Len(t)
  BY Finds, Places
<1>2. /\ bulk.op = "bwritev" /\ bulk.more = TRUE /\ size \in Nat
      /\ place \in 0 .. o /\ bulk.file = Between(t, place, o)
  BY DEF BwritevStep, Writing
<1>3. bulk = [op |-> "bwritev", size |-> bulk.size, file |-> bulk.file,
              place |-> bulk.place, more |-> bulk.more]
  BY <1>2 DEF BulkSound, CallInProgress, NoBulk
<1>4. PICK e \in o .. Len(t) : ahead = Between(t, o, e)
  BY <1>1, AheadIs
<1>5. PICK n \in -1 .. Len(bytes) :
        /\ buf' \in IF n <= 0 THEN {buf} ELSE MovedOn(buf, n)
        /\ bulk' = [bulk EXCEPT !.size = bulk.size - Len(bytes),
                               !.file = bulk.file \o First(bytes, n),
                               !.more = n = Len(bytes) /\ bulk.size > Len(bytes)]
  BY DEF BwritevStep
<1> DEFINE m == MIN(size, e - o)
<1>6. /\ m \in 0 .. e - o /\ m \in Nat /\ m <= size /\ o + m \in o .. Len(t)
      /\ o \in Nat /\ e \in 0 .. Len(t) /\ o \in 0 .. e
  <2> DEFINE d == e - o
  <2>1. o \in Nat /\ e \in 0 .. Len(t) /\ o \in 0 .. e /\ d \in Nat /\ o + d \in o .. Len(t)
    BY <1>1
  <2> HIDE DEF t, o, size, d
  <2>2. MIN(size, d) \in 0 .. d /\ MIN(size, d) <= size
    BY <1>2, <2>1 DEF MIN
  <2>3. m \in 0 .. d /\ m <= size
    BY <2>2 DEF d
  <2> HIDE DEF m
  <2>4. m \in Nat /\ o + m \in o .. Len(t)
    BY <1>1, <2>1, <2>3
  <2> QED BY <2>1, <2>3, <2>4 DEF d
<1>7. bytes = Between(t, o, o + m) /\ Len(bytes) = m
  <2>1. Len(ahead) = e - o
    BY <1>1, <1>4, <1>6, BetweenBytes
  <2>2. bytes = First(Between(t, o, e), m)
    BY <1>4, <2>1
  <2> HIDE DEF t, o, m, bytes
  <2>3. First(Between(t, o, e), m) = Between(t, o, o + m)
    BY <1>1, <1>6, BetweenFront
  <2> DEFINE f == o + m
  <2>4. f \in 0 .. Len(t) /\ o \in 0 .. f /\ f - o = m
    BY <1>1, <1>6
  <2> HIDE DEF f
  <2>5. Len(Between(t, o, f)) = m
    BY <1>1, <2>4, BetweenBytes
  <2> QED BY <2>2, <2>3, <2>5 DEF f
<1> DEFINE file == bulk.file \o First(bytes, n)
           left == size - m
           more == n = m /\ size > m
<1>8. /\ bulk' = [op |-> "bwritev", size |-> left, file |-> file, place |-> place, more |-> more]
      /\ more \in BOOLEAN /\ left \in Nat
  <2>1. bulk' = [bulk EXCEPT !.size = left, !.file = file, !.more = more]
    BY <1>5, <1>7
  <2>2. more \in BOOLEAN /\ left \in Nat
    BY <1>2, <1>6
  <2>3. PICK x, f, u, y : bulk = [op |-> "bwritev", size |-> x, file |-> f, place |-> u, more |-> y]
    BY <1>3
  <2>4. u = place
    BY <2>3
  <2> HIDE DEF left, file, more, place
  <2> QED BY <2>1, <2>2, <2>3, <2>4
<1> HIDE DEF m, bytes, ahead
<1>9. /\ Text(buf') = t /\ blocation(buf') \in Nat /\ o <= blocation(buf')
      /\ file = Between(t, place, blocation(buf'))
      /\ n <= 0 => buf' = buf /\ file = bulk.file
  <2>1. CASE n <= 0
    <3>1. buf' = buf /\ blocation(buf') = o
      BY <1>5, <2>1
    <3>2. bytes \in Seq(Byte)
      <4> DEFINE f == o + m
      <4>1. f \in 0 .. Len(t) /\ o \in 0 .. f
        BY <1>1, <1>6
      <4> HIDE DEF f, t, o
      <4>2. Between(t, o, f) \in Seq(Byte)
        BY <1>1, <4>1, BetweenBytes
      <4> QED BY <1>7, <4>2 DEF f
    <3>3. First(bytes, n) = <<>>
      <4>1. n = 0 \/ n = -1
        BY <1>6, <1>7, <2>1
      <4> QED BY <3>2, <4>1 DEF First
    <3>4. bulk.file \in Seq(Byte)
      BY <1>1, <1>2, BetweenBytes
    <3>5. file = bulk.file
      BY <3>3, <3>4
    <3> HIDE DEF file
    <3> QED BY <1>1, <1>2, <1>6, <3>1, <3>5
  <2>2. CASE ~ (n <= 0)
    <3>1. n \in 1 .. m /\ n \in Nat
      BY <1>6, <1>7, <2>2
    <3>2. PICK p \in buf.alive, d \in 0 .. PGSIZE :
            /\ buf' = makecur(buf, p, d) /\ blocation(buf') = o + n
            /\ buf'.curchar \in {0, curplen(buf')} \/ buf'.curchar < curplen(buf')
      <4>1. buf' \in MovedOn(buf, n)
        BY <1>5, <2>2
      <4> QED BY <4>1 DEF MovedOn
    <3>3. d \in Nat /\ d <= plen(buf, p)
      <4>1. buf'.curchar = d /\ curplen(buf') = plen(buf, p)
        BY <1>1, <3>2 DEF makecur, WellFormed, Buffer, curplen, plen
      <4>2. d \in Nat /\ plen(buf, p) \in Nat
        BY <1>1, PGSIZEAssumption, PageOfText
      <4> QED BY <3>2, <4>1, <4>2
    <3>4. Text(buf') = t
      BY <1>1, <3>2, <3>3, PointOnly
    <3>5. First(bytes, n) = Between(t, o, o + n)
      <4> DEFINE f == o + m
      <4>1. f \in 0 .. Len(t) /\ o \in 0 .. f /\ n \in 0 .. f - o
        BY <1>1, <1>6, <3>1
      <4> HIDE DEF f, t, o
      <4>2. First(Between(t, o, f), n) = Between(t, o, o + n)
        BY <1>1, <4>1, BetweenFront
      <4> QED BY <1>7, <4>2 DEF f
    <3>6. file = Between(t, place, o + n)
      <4> DEFINE k == o + n
      <4>1. k \in 0 .. Len(t) /\ o \in 0 .. k /\ place \in 0 .. o
        BY <1>1, <1>2, <1>6, <3>1
      <4>2. file = Between(t, place, o) \o Between(t, o, k)
        BY <1>2, <3>5
      <4> HIDE DEF k, t, o, file, place
      <4>3. Between(t, place, o) \o Between(t, o, k) = Between(t, place, k)
        BY <1>1, <4>1, BetweenJoined
      <4> QED BY <4>2, <4>3 DEF k
    <3> HIDE DEF file, t, o
    <3> QED BY <1>6, <2>2, <3>1, <3>2, <3>4, <3>6
  <2> QED BY <2>1, <2>2
<1>10. /\ bulk'.op = "bwritev" /\ bulk'.size = left /\ bulk'.file = file /\ bulk'.place = place
       /\ bulk'.more = more
  <2> HIDE DEF left, file, place, more
  <2> QED BY <1>8
<1>11. Writing'
  <2>1. place \in 0 .. blocation(buf')
    BY <1>2, <1>6, <1>9
  <2> HIDE DEF left, file, place, more, t, o
  <2> QED BY <1>8, <1>9, <1>10, <2>1 DEF Writing, t
<1>12. ASSUME more
       PROVE  left > 0 /\ (left < size \/ UNCHANGED bvars)
  <2>1. n = m /\ size > m
    BY <1>12
  <2>2. left > 0 /\ (m # 0 => left < size)
    BY <1>2, <1>6, <2>1
  <2>3. ASSUME m = 0
        PROVE  UNCHANGED bvars
    <3>1. left = size /\ n <= 0
      BY <1>2, <2>1, <2>3
    <3>2. buf' = buf /\ file = bulk.file
      BY <1>9, <3>1
    <3>3. more = TRUE
      BY <1>12
    <3>4. bulk' = [op |-> "bwritev", size |-> bulk.size, file |-> bulk.file, place |-> bulk.place,
                   more |-> bulk.more]
      <4> HIDE DEF left, more, file
      <4> QED BY <1>2, <1>8, <3>1, <3>2, <3>3
    <3>5. bulk' = bulk
      BY <1>3, <3>4
    <3> QED BY <3>2, <3>5 DEF bvars, BwritevStep
  <2> HIDE DEF left, size
  <2> QED BY <2>2, <2>3
<1> HIDE DEF left, more
<1> QED BY <1>10, <1>11, <1>12

\* A write that is in progress makes one of its steps.
LEMMA WriteSteps ==
  ASSUME BulkNext
  PROVE  /\ bulk.op = "bwritefile" => WritePage \/ BwritefileReturn
         /\ bulk.op = "bwritev" => BwritevStep \/ BwritevReturn
<1> SUFFICES ASSUME bulk.op \in {"bwritefile", "bwritev"}
             PROVE  /\ bulk.op = "bwritefile" => WritePage \/ BwritefileReturn
                    /\ bulk.op = "bwritev" => BwritevStep \/ BwritevReturn
  OBVIOUS
<1>1. bulk # NoBulk
  BY DEF NoBulk
<1>2. ~ BulkCall
  BY <1>1 DEF BulkCall, Free, Bindata, Bappend, Breadfile, Breadv, Bcopyrgn, Bwritefile,
              BwritefileNoFile, Bwritev
<1>3. BulkStep
  BY <1>1, <1>2 DEF BulkNext
<1> QED BY <1>3 DEF BulkStep, CopyStep, CopyReturn, WritePage, BwritefileReturn, BwritevStep,
                    BwritevReturn

\* What is in the file stays what was written.
LEMMA WritingKept ==
  ASSUME BulkSound, Copying, Writing, [BulkNext]_bvars
  PROVE  Writing'
<1>1. NoBulk.op = "none"
  BY DEF NoBulk
<1>2. CASE UNCHANGED bvars
  BY <1>2 DEF bvars, Writing
<1>3. CASE bulk' = NoBulk
  BY <1>1, <1>3 DEF Writing
<1>4. CASE bulk = NoBulk /\ Next /\ UNCHANGED <<bulk, gap>>
  BY <1>3, <1>4
<1>5. CASE BulkCall
  <2>1. CASE \E data \in Data : Bindata(data) \/ Bappend(data) \/ Breadfile(data) \/ Breadv(data)
    <3>1. bulk' = NoBulk
      BY <2>1 DEF Bindata, Bappend, Breadfile, Breadv, Free
    <3> QED BY <1>3, <3>1
  <2>2. CASE \E region \in Region : Bcopyrgn(region)
    <3>1. PICK region \in Region : Bcopyrgn(region)
      BY <2>2
    <3>2. bulk'.op = "bcopyrgn"
      BY <3>1 DEF Bcopyrgn
    <3> QED BY <3>2 DEF Writing
  <2>3. CASE \E crlf \in BOOLEAN : Bwritefile(crlf)
    BY <2>3, WriteBegins
  <2>4. CASE BwritefileNoFile
    BY <1>3, <2>4 DEF BwritefileNoFile, Free
  <2>5. CASE \E size \in 0 .. MaxText : Bwritev(size)
    BY <2>5, VectorBegins
  <2> QED BY <1>5, <2>1, <2>2, <2>3, <2>4, <2>5 DEF BulkCall
<1>6. CASE BulkStep
  <2>1. CASE CopyStep
    <3>1. bulk'.op = "bcopyrgn"
      BY <2>1, CopyGrows
    <3> QED BY <3>1 DEF Writing
  <2>2. CASE CopyReturn \/ BwritefileReturn \/ BwritevReturn
    BY <1>3, <2>2 DEF CopyReturn, BwritefileReturn, BwritevReturn
  <2>3. CASE WritePage
    BY <2>3, WritePageWrites
  <2>4. CASE BwritevStep
    BY <2>4, VectorWrites
  <2> QED BY <1>6, <2>1, <2>2, <2>3, <2>4 DEF BulkStep
<1> QED BY <1>2, <1>4, <1>5, <1>6 DEF BulkNext

\* bwritefile returns when all pages are written, or a write failed.
LEMMA FileWritten ==
  ASSUME BulkSound, Writing, BwritefileReturn
  PROVE  LET whole == Written(Text(buf), bulk.crlf)
         IN IF ret' = 1 THEN bulk.file = whole ELSE IsStrictPrefix(bulk.file, whole)
<1>1. /\ bulk.op = "bwritefile" /\ (bulk.page = NIL \/ bulk.status = 0) /\ ret' = bulk.status
  BY DEF BwritefileReturn
<1>2. CASE bulk.status = 0
  BY <1>1, <1>2 DEF Writing
<1>3. CASE bulk.status = 1
  <2>1. bulk.page = NIL /\ ret' = 1
    BY <1>1, <1>3
  <2>2. Text(buf) \in Seq(Byte)
    BY Finds, Places
  <2>3. Between(Text(buf), 0, WriteAt(buf, bulk.page)) = Text(buf)
    BY <2>1, <2>2, WholeText DEF WriteAt
  <2>4. bulk.file = Written(Between(Text(buf), 0, WriteAt(buf, bulk.page)), bulk.crlf)
    BY <1>1, <1>3 DEF Writing
  <2> QED BY <2>1, <2>3, <2>4
<1> QED BY <1>1, <1>2, <1>3 DEF Writing

-----------------------------------------------------------------------------
(* The theorems. *)

\* What the calls rely on holds at every step.
LEMMA BulkKept == BulkSpec => []BulkSound
<1>1. BulkInit => BulkSound
  <2> SUFFICES ASSUME BulkInit PROVE BulkSound
    OBVIOUS
  <2>1. Init /\ bulk = NoBulk /\ gap = FALSE
    BY DEF BulkInit
  <2>2. Sound(TRUE) /\ Sound(CrossPage)
    BY <2>1, InitSound, BoundsAssumption
  <2> QED BY <2>1, <2>2 DEF BulkSound, CallInProgress
<1>2. BulkSound /\ [BulkNext]_bvars => BulkSound'
  <2> SUFFICES ASSUME BulkSound, [BulkNext]_bvars PROVE BulkSound'
    OBVIOUS
  <2>1. CASE UNCHANGED bvars
    BY <2>1 DEF bvars, BulkSound, Sound, CallInProgress, CallInv, InPage, OnList, Idle
  <2>2. CASE bulk = NoBulk /\ Next /\ UNCHANGED <<bulk, gap>>
    BY <2>2, LibraryInv
  <2>3. CASE BulkCall
    BY <2>3, InsertsInv, BreadfileInv, BreadvInv, StartsInv DEF BulkCall
  <2>4. CASE BulkStep
    BY <2>4, CopyInv, WritePageInv, BwritevInv, ReturnsInv DEF BulkStep
  <2> QED BY <2>1, <2>2, <2>3, <2>4 DEF BulkNext
<1> QED BY <1>1, <1>2, PTL DEF BulkSpec

\* Blocks, files and regions put into the text between any other calls leave one
\* list of pages, none over PGSIZE, with the point and the marks inside pages of it,
\* wherever calloc fails; and no page is empty as long as bdelete is not given bytes
\* of the next page and breadfile and breadv are not called where they leave one.
THEOREM BulkStaysWellFormed == BulkSpec => []BulkInv
<1>1. BulkSound => BulkInv
  BY DEF BulkSound, Sound, BulkInv, PagesUsed
<1> QED BY <1>1, BulkKept, PTL

\* What bindata, bappend, breadfile, breadv and bcopyrgn put in is the front of what
\* they were given, in one piece at one place, with the rest of the text where it was:
\* at the point (bindata, breadv, each step of bcopyrgn), at the end (bappend), at the
\* point or behind its page (breadfile); all of it when the call says so; and a copy
\* goes on where it stopped, until all is copied or a full page cannot be split.
THEOREM BlocksGoInWhole == BulkSpec => Inserted
<1> DEFINE Whole(data) ==
             /\ Bindata(data) => GrownAtPoint(First(data, ret'))
             /\ Bappend(data) => Grown(First(data, ret'), blength(buf)) /\ bisend(buf')
             /\ Breadfile(data) =>
                  IF ret' = 0
                  THEN \E at \in FilePlaces : Grown(data, at) /\ blocation(buf') = at
                  ELSE \E n \in 0 .. Len(data), at \in FilePlaces : Grown(First(data, n), at)
             /\ Breadv(data) =>
                  \E n \in 0 .. Len(data) : n \in {ret', ret' + 1} /\ GrownAtPoint(First(data, n))
           Into ==
             /\ (Free /\ Free' /\ buf' # buf) => \A data \in Data : Whole(data)
             /\ (bulk.op = "bcopyrgn" /\ bulk' # NoBulk) =>
                  /\ GrownAtPoint(SubSeq(bulk.region, bulk.copied + 1, bulk'.copied))
                  /\ Head(bulk.left) # <<>> => bulk'.copied > bulk.copied
             /\ (bulk.op = "bcopyrgn" /\ bulk' = NoBulk) =>
                  ret' = Len(bulk.region) \/ curplen(buf) = PGSIZE
<1>1. BulkInit => Copying
  BY DEF BulkInit, Copying, NoBulk
<1>2. BulkSound /\ Copying /\ [BulkNext]_bvars => Copying'
  BY CopyingKept
<1>3. BulkSound /\ Copying /\ [BulkNext]_bvars => [Into]_bvars
  <2> SUFFICES ASSUME BulkSound, Copying, BulkNext PROVE Into
    OBVIOUS
  <2>1. ASSUME NEW data \in Data PROVE Whole(data)
    BY BindataInserts, BappendInserts, BreadfileInserts, BreadvInserts
  <2>2. ASSUME bulk.op = "bcopyrgn", bulk' # NoBulk
        PROVE  /\ GrownAtPoint(SubSeq(bulk.region, bulk.copied + 1, bulk'.copied))
               /\ Head(bulk.left) # <<>> => bulk'.copied > bulk.copied
    <3>1. CopyStep
      BY <2>2, CopySteps DEF CopyReturn
    <3> QED BY <3>1, CopyGrows
  <2>3. ASSUME bulk.op = "bcopyrgn", bulk' = NoBulk
        PROVE  ret' = Len(bulk.region) \/ curplen(buf) = PGSIZE
    <3>1. CopyReturn
      BY <2>3, CopySteps, CopyGrows
    <3> QED BY <3>1, CopyAll
  <2> HIDE DEF Whole
  <2> QED BY <2>1, <2>2, <2>3
<1> QED BY <1>1, <1>2, <1>3, BulkKept, PTL DEF BulkSpec, Inserted

\* What is written is the text: all of it, byte for byte, if bwritefile says so and
\* less if it does not, with a CR before each newline in that mode; and what lies between
\* the point's places before and after bwritev, which goes on with fewer bytes each time.
THEOREM FilesHoldTheText == BulkSpec => WritesText
<1> DEFINE Holds ==
             /\ (bulk.op = "bwritefile" /\ bulk' = NoBulk) =>
                  LET whole == Written(Text(buf), bulk.crlf)
                  IN IF ret' = 1 THEN bulk.file = whole
                     ELSE IsStrictPrefix(bulk.file, whole)
             /\ (bulk.op = "bwritev" /\ bulk' = NoBulk) =>
                  bulk.file = SubSeq(Text(buf), bulk.place + 1, blocation(buf))
                  /\ ret' = Len(bulk.file)
             /\ (bulk.op = "bwritev" /\ bulk' # NoBulk /\ bulk'.more) =>
                  bulk'.size > 0 /\ bulk'.size < bulk.size
<1>1. BulkInit => Copying /\ Writing
  BY DEF BulkInit, Copying, Writing, NoBulk
<1>2. BulkSound /\ Copying /\ Writing /\ [BulkNext]_bvars => Copying' /\ Writing'
  BY CopyingKept, WritingKept
<1>3. BulkSound /\ Copying /\ Writing /\ [BulkNext]_bvars => [Holds]_bvars
  <2> SUFFICES ASSUME BulkSound, Writing, BulkNext, ~ UNCHANGED bvars PROVE Holds
    OBVIOUS
  <2>1. NoBulk.op = "none"
    BY DEF NoBulk
  <2>2. ASSUME bulk.op = "bwritefile", bulk' = NoBulk
        PROVE  LET whole == Written(Text(buf), bulk.crlf)
               IN IF ret' = 1 THEN bulk.file = whole ELSE IsStrictPrefix(bulk.file, whole)
    <3>1. BwritefileReturn
      BY <2>1, <2>2, WriteSteps, WritePageWrites
    <3> QED BY <3>1, FileWritten
  <2>3. ASSUME bulk.op = "bwritev", bulk' = NoBulk
        PROVE  /\ bulk.file = SubSeq(Text(buf), bulk.place + 1, blocation(buf))
               /\ ret' = Len(bulk.file)
    <3>1. BwritevReturn
      BY <2>1, <2>3, WriteSteps, VectorWrites
    <3> QED BY <2>3, <3>1 DEF BwritevReturn, Writing, Between
  <2>4. ASSUME bulk.op = "bwritev", bulk' # NoBulk, bulk'.more
        PROVE  bulk'.size > 0 /\ bulk'.size < bulk.size
    <3>1. BwritevStep
      BY <2>4, WriteSteps DEF BwritevReturn
    <3> QED BY <2>4, <3>1, VectorWrites
  <2> QED BY <2>2, <2>3, <2>4
<1> QED BY <1>1, <1>2, <1>3, BulkKept, PTL DEF BulkSpec, WritesText
=============================================================================
