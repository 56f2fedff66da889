---------------------------- MODULE UndoTheorems ----------------------------
(***************************************************************************)
(* Each record of the undo list says exactly what changed, and undoing it  *)
(* gives the text back, at every page size and for every list of records.  *)
(*                                                                         *)
(* RecordExact is not inductive: that the record below the newest is right *)
(* for the text the newest goes back to is kept with it (Good), and that   *)
(* the newest one's mark is at its offset (Marked), for that is how undo.c *)
(* tells which changes are neighbours.  An undo in progress has a part     *)
(* left to do that ends in the text of before (Removing, Restoring).       *)
(***************************************************************************)
EXTENDS Undo, BuffOpsTheorems, SequenceTheorems

-----------------------------------------------------------------------------
(* Strings that are cut and put together. *)

\* Two strings that are put together can be told from what they make and the length
\* of the first.
LEMMA SameFirst ==
  ASSUME NEW p \in Seq(Byte), NEW x \in Seq(Byte), NEW q \in Seq(Byte), NEW y \in Seq(Byte),
         Len(p) = Len(q), p \o x = q \o y
  PROVE  p = q /\ x = y
<1>1. ASSUME NEW k \in 1 .. Len(p) PROVE p[k] = q[k]
  <2>1. k \in 1 .. Len(p) + Len(x) /\ k \in 1 .. Len(q) + Len(y) /\ k <= Len(p) OBVIOUS
  <2>2. (p \o x)[k] = p[k] BY <2>1, ConcatProperties
  <2>3. (q \o y)[k] = q[k] BY <2>1, ConcatProperties
  <2> QED BY <2>2, <2>3
<1>2. p = q BY <1>1, SeqEqual
<1>3. p \o x = p \o y BY <1>2
<1>4. x = y BY <1>3, ConcatSimplifications
<1> QED BY <1>2, <1>4

\* A string is put together from the parts it is cut into.
LEMMA Parts ==
  ASSUME NEW t \in Seq(Byte), NEW from \in 0 .. Len(t), NEW to \in from .. Len(t)
  PROVE  LET p == SubSeq(t, 1, from)
             m == SubSeq(t, from + 1, to)
             s == SubSeq(t, to + 1, Len(t))
         IN /\ p \in Seq(Byte) /\ m \in Seq(Byte) /\ s \in Seq(Byte)
            /\ Len(p) = from /\ Len(m) = to - from /\ Len(s) = Len(t) - to
            /\ t = (p \o m) \o s
<1>0. /\ 1 \in 1 .. Len(t) + 1 /\ from \in 1 - 1 .. Len(t) /\ to \in 1 - 1 .. Len(t)
      /\ to \in 0 .. Len(t) /\ Len(t) \in to .. Len(t)
      /\ from + 1 \in 1 .. Len(t) + 1 /\ from \in Nat /\ to \in Nat /\ from <= to
  OBVIOUS
<1>1. SubSeq(t, 1, from) \o SubSeq(t, from + 1, to) = SubSeq(t, 1, to)
  BY <1>0, ConcatAdjacentSubSeq
<1>2. SubSeq(t, 1, to) \o SubSeq(t, to + 1, Len(t)) = SubSeq(t, 1, Len(t))
  BY <1>0, ConcatAdjacentSubSeq
<1>3. SubSeq(t, 1, Len(t)) = t BY SubSeqFull
<1>4. SubSeq(t, 1, from) \in Seq(Byte) /\ Len(SubSeq(t, 1, from)) = from BY TakeDrop
<1>5. /\ SubSeq(t, to + 1, Len(t)) \in Seq(Byte)
      /\ Len(SubSeq(t, to + 1, Len(t))) = Len(t) - to
  BY <1>0, TakeDrop
<1>6. SubSeq(t, from + 1, to) \in Seq(Byte) /\ Len(SubSeq(t, from + 1, to)) = to - from
  <2>1. /\ SubSeq(t, from + 1, to) \in Seq(Byte)
        /\ Len(SubSeq(t, from + 1, to)) = IF from + 1 <= to THEN to - (from + 1) + 1 ELSE 0
    BY <1>0, SubSeqBytes
  <2> QED BY <1>0, <2>1
<1> QED BY <1>1, <1>2, <1>3, <1>4, <1>5, <1>6

\* Strings, two of them one behind the other and the length; the provers do better
\* if they do not see how these are made.
Strings   == Seq(Byte)
Cat(s, t) == s \o t
Size(s)   == Len(s)
Nought    == <<>>

\* s has n bytes.
Has(s, n) == Size(s) = n

LEMMA CatBytes ==
  ASSUME NEW s \in Strings, NEW t \in Strings
  PROVE  /\ Cat(s, t) \in Strings /\ Size(Cat(s, t)) = Size(s) + Size(t)
         /\ Size(s) \in Nat /\ Size(t) \in Nat
BY ConcatBytes DEF Cat, Size, Strings

LEMMA CatAnyOrder ==
  ASSUME NEW p \in Strings, NEW m \in Strings, NEW s \in Strings
  PROVE  Cat(Cat(p, m), s) = Cat(p, Cat(m, s))
BY ConcatAssociative DEF Cat, Strings

LEMMA CatNothing ==
  /\ Nought \in Strings /\ Size(Nought) = 0
  /\ \A s \in Strings : Cat(s, Nought) = s
BY DEF Cat, Strings, Size, Nought

LEMMA CatMiddle ==
  ASSUME NEW p \in Strings, NEW m \in Strings, NEW s \in Strings, NEW z \in Strings,
         NEW x, Has(p, x), NEW y, Has(Cat(p, m), y)
  PROVE  /\ Spliced(Cat(Cat(p, m), s), x, y, z) = Cat(Cat(p, z), s)
         /\ SubSeq(Cat(Cat(p, m), s), x + 1, y) = m
<1> DEFINE pm == p \o m
           t  == pm \o s
           a  == SubSeq(t, 1, x)
           b  == SubSeq(t, x + 1, y)
           c  == SubSeq(t, y + 1, Len(t))
<1>1. /\ p \in Seq(Byte) /\ m \in Seq(Byte) /\ s \in Seq(Byte)
      /\ x = Len(p) /\ y = Len(p) + Len(m)
      /\ Len(p) \in Nat /\ Len(m) \in Nat /\ Len(s) \in Nat
  BY CatBytes DEF Strings, Size, Has
<1>2. pm \in Seq(Byte) /\ Len(pm) = y BY <1>1, ConcatBytes
<1> HIDE DEF pm
<1>3. t \in Seq(Byte) /\ Len(t) = y + Len(s) BY <1>1, <1>2, ConcatBytes
<1> HIDE DEF t
<1>4. x \in 0 .. Len(t) /\ y \in x .. Len(t) BY <1>1, <1>3
<1>5. /\ a \in Seq(Byte) /\ b \in Seq(Byte) /\ c \in Seq(Byte)
      /\ Len(a) = x /\ Len(b) = y - x /\ Len(c) = Len(t) - y /\ t = (a \o b) \o c
  BY <1>3, <1>4, Parts
<1> HIDE DEF a, b, c
<1>6. a \o b \in Seq(Byte) /\ Len(a \o b) = y
  <2>1. a \o b \in Seq(Byte) /\ Len(a \o b) = Len(a) + Len(b) BY <1>5, ConcatBytes
  <2> QED BY <1>1, <1>5, <2>1
<1>7. pm \o s = (a \o b) \o c BY <1>5 DEF t
<1>8. pm = a \o b /\ s = c BY <1>1, <1>2, <1>5, <1>6, <1>7, SameFirst
<1>9. p = a /\ m = b BY <1>1, <1>5, <1>8, SameFirst DEF pm
<1>10. Spliced(t, x, y, z) = (p \o z) \o s BY <1>8, <1>9 DEF Spliced, a, c
<1> QED BY <1>9, <1>10 DEF t, pm, b, Cat

LEMMA CatParts ==
  ASSUME NEW t \in Strings, NEW from \in 0 .. Size(t), NEW to \in from .. Size(t)
  PROVE  \E p, m, s \in Strings :
           Size(p) = from /\ Size(m) = to - from /\ t = Cat(Cat(p, m), s)
BY Parts DEF Cat, Strings, Size

\* Replacing nothing between two strings.
LEMMA Seam ==
  ASSUME NEW p \in Strings, NEW s \in Strings, NEW z \in Strings, NEW x, Has(p, x)
  PROVE  Spliced(Cat(p, s), x, x, z) = Cat(Cat(p, z), s)
<1>1. Nought \in Strings /\ Size(Nought) = 0 /\ Cat(p, Nought) = p /\ Size(p) \in Nat
  BY CatNothing, CatBytes
<1>2. Has(Cat(p, Nought), x) BY <1>1
<1>3. Spliced(Cat(Cat(p, Nought), s), x, x, z) = Cat(Cat(p, z), s) BY <1>1, <1>2, CatMiddle
<1> QED BY <1>1, <1>3

\* The two strings a place of a string is between.
LEMMA TwoParts ==
  ASSUME NEW t \in Strings, NEW at \in 0 .. Size(t)
  PROVE  \E p, s \in Strings : Size(p) = at /\ t = Cat(p, s)
<1>1. at \in at .. Size(t) BY CatBytes
<1>2. PICK p, m, s \in Strings : Size(p) = at /\ Size(m) = at - at /\ t = Cat(Cat(p, m), s)
  BY <1>1, CatParts
<1>3. t = Cat(p, Cat(m, s)) /\ Cat(m, s) \in Strings BY <1>2, CatAnyOrder, CatBytes
<1> QED BY <1>2, <1>3

\* What is put in behind lo is taken out again with what is in front of it.
LEMMA PutAndTaken ==
  ASSUME NEW t \in Strings, NEW z \in Strings, NEW at \in 0 .. Size(t), NEW lo \in 0 .. at
  PROVE  Spliced(Spliced(t, at, at, z), lo, at + Size(z), Nought) = Spliced(t, lo, at, Nought)
<1>0. Nought \in Strings BY CatNothing
<1>1. lo \in 0 .. Size(t) /\ at \in lo .. Size(t) /\ lo \in Nat /\ at \in Nat
  BY CatBytes
<1>2. PICK p, m, s \in Strings : Size(p) = lo /\ Size(m) = at - lo /\ t = Cat(Cat(p, m), s)
  BY <1>1, CatParts
<1>3. /\ Cat(p, m) \in Strings /\ Has(p, lo) /\ Has(Cat(p, m), at)
      /\ Cat(m, z) \in Strings /\ Has(Cat(p, Cat(m, z)), at + Size(z))
  <2>1. /\ Cat(p, m) \in Strings /\ Size(Cat(p, m)) = Size(p) + Size(m)
        /\ Size(p) \in Nat /\ Size(m) \in Nat
    BY <1>2, CatBytes
  <2>2. Cat(m, z) \in Strings /\ Size(Cat(m, z)) = Size(m) + Size(z) /\ Size(z) \in Nat
    BY <1>2, CatBytes
  <2>3. Size(Cat(p, Cat(m, z))) = Size(p) + Size(Cat(m, z)) BY <1>2, <2>2, CatBytes
  <2> QED BY <1>1, <1>2, <2>1, <2>2, <2>3 DEF Has
<1>4. Spliced(t, at, at, z) = Cat(Cat(Cat(p, m), z), s) BY <1>2, <1>3, Seam
<1>5. Spliced(t, at, at, z) = Cat(Cat(p, Cat(m, z)), s) BY <1>2, <1>4, CatAnyOrder
<1>6. Spliced(Cat(Cat(p, Cat(m, z)), s), lo, at + Size(z), Nought) = Cat(Cat(p, Nought), s)
  BY <1>0, <1>2, <1>3, CatMiddle
<1>7. Spliced(t, lo, at, Nought) = Cat(Cat(p, Nought), s) BY <1>0, <1>2, <1>3, CatMiddle
<1> QED BY <1>5, <1>6, <1>7

\* Putting in two strings, one behind the other.
LEMMA PutInTurn ==
  ASSUME NEW t \in Strings, NEW z \in Strings, NEW w \in Strings, NEW at \in 0 .. Size(t)
  PROVE  Spliced(Spliced(t, at, at, z), at + Size(z), at + Size(z), w) = Spliced(t, at, at, Cat(z, w))
<1>1. PICK p, s \in Strings : Size(p) = at /\ t = Cat(p, s) BY TwoParts
<1>2. /\ Cat(p, z) \in Strings /\ Has(p, at) /\ Has(Cat(p, z), at + Size(z))
      /\ Cat(z, w) \in Strings
  BY <1>1, CatBytes DEF Has
<1>3. Spliced(t, at, at, z) = Cat(Cat(p, z), s) BY <1>1, <1>2, Seam
<1>4. Spliced(Cat(Cat(p, z), s), at + Size(z), at + Size(z), w) = Cat(Cat(Cat(p, z), w), s)
  BY <1>1, <1>2, Seam
<1>5. Spliced(t, at, at, Cat(z, w)) = Cat(Cat(p, Cat(z, w)), s) BY <1>1, <1>2, Seam
<1>6. Cat(Cat(p, z), w) = Cat(p, Cat(z, w)) BY CatAnyOrder
<1> QED BY <1>3, <1>4, <1>5, <1>6

\* What was taken out is put back, with what is put in beside it.
LEMMA TakenAndPut ==
  ASSUME NEW t \in Strings, NEW z \in Strings, NEW at \in 0 .. Size(t),
         NEW to \in at .. Size(t)
  PROVE  LET u    == Spliced(t, at, to, Nought)
             part == SubSeq(t, at + 1, to)
         IN /\ Spliced(u, at, at, Cat(z, part)) = Spliced(t, at, at, z)
            /\ Spliced(u, at, at, Cat(part, z)) = Spliced(t, to, to, z)
<1> DEFINE u    == Spliced(t, at, to, Nought)
           part == SubSeq(t, at + 1, to)
<1>0. Nought \in Strings /\ z \in Strings /\ at \in Nat /\ to \in Nat
  BY CatNothing, CatBytes
<1>1. PICK p, n, s \in Strings : Size(p) = at /\ Size(n) = to - at /\ t = Cat(Cat(p, n), s)
  BY CatParts
<1>2. Has(p, at) /\ Has(Cat(p, n), to) BY <1>0, <1>1, CatBytes DEF Has
<1>3. part = n BY <1>1, <1>2, CatMiddle
<1>4. u = Cat(p, s)
  <2>1. Spliced(Cat(Cat(p, n), s), at, to, Nought) = Cat(Cat(p, Nought), s)
    BY <1>0, <1>1, <1>2, CatMiddle
  <2> QED BY <1>1, <2>1, CatNothing
<1> HIDE DEF u, part
<1>5. /\ Cat(p, n) \in Strings /\ Cat(z, n) \in Strings
      /\ Cat(n, z) \in Strings /\ Cat(n, s) \in Strings /\ Cat(p, z) \in Strings
  BY <1>0, <1>1, <1>2, CatBytes
<1>6. Spliced(u, at, at, Cat(z, n)) = Spliced(t, at, at, z)
  <2>1. Spliced(u, at, at, Cat(z, n)) = Cat(Cat(p, Cat(z, n)), s)
    BY <1>1, <1>2, <1>4, <1>5, Seam
  <2>2. Cat(p, Cat(z, n)) = Cat(Cat(p, z), n) BY <1>0, <1>1, CatAnyOrder
  <2>3. Cat(Cat(Cat(p, z), n), s) = Cat(Cat(p, z), Cat(n, s)) BY <1>1, <1>5, CatAnyOrder
  <2>4. t = Cat(p, Cat(n, s)) BY <1>1, CatAnyOrder
  <2>5. Spliced(t, at, at, z) = Cat(Cat(p, z), Cat(n, s)) BY <1>0, <1>1, <1>2, <1>5, <2>4, Seam
  <2> QED BY <2>1, <2>2, <2>3, <2>5
<1>7. Spliced(u, at, at, Cat(n, z)) = Spliced(t, to, to, z)
  <2>1. Spliced(u, at, at, Cat(n, z)) = Cat(Cat(p, Cat(n, z)), s)
    BY <1>1, <1>2, <1>4, <1>5, Seam
  <2>2. Cat(p, Cat(n, z)) = Cat(Cat(p, n), z) BY <1>0, <1>1, CatAnyOrder
  <2>3. Spliced(t, to, to, z) = Cat(Cat(Cat(p, n), z), s) BY <1>0, <1>1, <1>2, <1>5, Seam
  <2> QED BY <2>1, <2>2, <2>3
<1> QED BY <1>3, <1>6, <1>7 DEF u, part

-----------------------------------------------------------------------------
(* Places in the buffer. *)

\* The first of some pages is one of them, and none of them precedes it.
LEMMA FirstIs ==
  ASSUME NEW b, Listed(b), NEW pages \in SUBSET b.alive, pages # {}
  PROVE  /\ First(b, pages) \in pages
         /\ \A r \in pages : ~ Precedes(b, r, First(b, pages))
<1> DEFINE Least(p) == \A r \in pages : ~ Precedes(b, r, p)
           S == {p \in b.alive : p \notin pages /\ \A r \in pages : ~ Precedes(b, r, p)}
<1>1. \E p \in pages : Least(p)
  <2> SUFFICES ASSUME \A p \in pages : ~ Least(p) PROVE FALSE
    OBVIOUS
  <2>1. b.firstp \in S
    <3>1. b.firstp \in b.alive /\ Least(b.firstp) BY Links, PrecedesNext
    <3> QED BY <3>1
  <2>2. ASSUME NEW p \in S \ {b.lastp} PROVE b.nextp[p] \in S
    <3>1. p \in b.alive /\ p # b.lastp /\ b.nextp[p] \in b.alive BY Links
    <3>2. ASSUME NEW r \in pages PROVE ~ Precedes(b, r, b.nextp[p])
      <4>1. r \in b.alive /\ r # p /\ ~ Precedes(b, r, p) OBVIOUS
      <4> QED BY <3>1, <4>1, PrecedesNext
    <3>3. b.nextp[p] \notin pages BY <3>2
    <3> QED BY <3>1, <3>2, <3>3
  <2>3. Followed(b, S) BY <2>1, <2>2 DEF Followed
  <2> HIDE DEF S
  <2>4. S = b.alive BY <2>3, AlongTheList
  <2> QED BY <2>4 DEF S
<1> QED BY <1>1 DEF First

\* boffset finds a page that has the place.
LEMMA ReachedPlace ==
  ASSUME NEW b, Listed(b), NEW n \in 0 .. Len(Text(b))
  PROVE  /\ Reached(b, n) \in b.alive
         /\ n - Before(b, Reached(b, n)) \in 0 .. plen(b, Reached(b, n))
<1> DEFINE pages == {p \in b.alive : n \in 0 .. Before(b, p) + plen(b, p)}
           f == First(b, pages)
<1>0. \A x \in b.alive : Before(b, x) \in Nat /\ plen(b, x) \in Nat
  BY Beginnings, PageLengths, Links
<1>1. n \in Nat /\ n <= blength(b) /\ blength(b) \in Nat BY TextLaid, InText, Links
<1>2. b.lastp \in pages BY <1>0, <1>1, Links DEF blength
<1>3. pages \in SUBSET b.alive /\ pages # {} BY <1>2
<1>4. Reached(b, n) = f BY <1>3 DEF Reached
<1>5. f \in pages /\ \A r \in pages : ~ Precedes(b, r, f)
  <2> HIDE DEF pages
  <2> QED BY <1>3, FirstIs
<1> HIDE DEF f
<1>6. f \in b.alive /\ n <= Before(b, f) + plen(b, f) BY <1>0, <1>1, <1>5
<1>7. Before(b, f) <= n
  <2>1. CASE f = b.firstp BY <1>1, <2>1, Beginnings
  <2>2. CASE f # b.firstp
    <3> DEFINE p == b.prevp[f]
    <3>1. /\ p \in b.alive /\ p # b.lastp /\ b.nextp[p] = f
          /\ Before(b, f) = Before(b, p) + plen(b, p)
      BY <1>6, <2>2, Links, Beginnings
    <3> HIDE DEF p
    <3>2. Precedes(b, p, f) BY <3>1, PrecedesNext
    <3>3. p \notin pages BY <1>5, <3>2
    <3> QED BY <1>0, <1>1, <3>1, <3>3
  <2> QED BY <2>1, <2>2
<1> QED BY <1>0, <1>1, <1>4, <1>6, <1>7

\* A buffer whose point was moved to place at.
PointAt(b, r, at) ==
  /\ WellFormed(r) /\ Text(r) = Text(b) /\ blocation(r) = at
  /\ r.alive = b.alive /\ r.mpage = b.mpage
  /\ \A p \in b.alive : Before(r, p) = Before(b, p) /\ plen(r, p) = plen(b, p)

\* Moving the point changes nothing else.
LEMMA PointMoved ==
  ASSUME NEW b, WellFormed(b), NEW p \in b.alive, NEW d \in 0 .. plen(b, p)
  PROVE  LET r == makecur(b, p, d)
         IN PointAt(b, r, Before(b, p) + d) /\ r.curpage = p /\ r.curchar = d
<1> DEFINE r == makecur(b, p, d)
<1>1. Listed(b) /\ b \in Buffer /\ d \in Nat /\ d <= plen(b, p)
  BY Places, PageLengths, Links
<1>2. /\ WellFormed(r) /\ r.alive = b.alive /\ r.data = b.data
      /\ r.mpage = b.mpage
  BY <1>1, PointMove
<1>3. SameLinks(b, r) /\ r.curpage = p /\ r.curchar = d
  BY <1>1 DEF SameLinks, makecur, Buffer
<1> HIDE DEF r
<1>4. r \in Buffer BY <1>2 DEF WellFormed
<1>5. /\ Text(r) = Text(b)
      /\ \A x \in b.alive : Before(r, x) = Before(b, x) /\ plen(r, x) = plen(b, x)
  BY <1>1, <1>2, <1>3, <1>4, SameText
<1>6. blocation(r) = Before(b, p) + d BY <1>3, <1>5 DEF blocation
<1> QED BY <1>2, <1>3, <1>5, <1>6 DEF PointAt, r

\* boffset goes to the place.
LEMMA BoffsetPlace ==
  ASSUME NEW b, WellFormed(b), NEW n \in 0 .. Len(Text(b))
  PROVE  LET r == boffset(b, n)
         IN PointAt(b, r, n) /\ r.curchar \in 0 .. curplen(r)
<1> DEFINE p == Reached(b, n)
           d == n - Before(b, p)
           r == boffset(b, n)
<1>1. p \in b.alive /\ d \in 0 .. plen(b, p) BY Places, ReachedPlace
<1>2. r = makecur(b, p, d) BY DEF boffset
<1>3. Before(b, p) \in Nat /\ n \in Nat BY <1>1, Places, Beginnings, Links
<1>4. Before(b, p) + d = n BY <1>3
<1> HIDE DEF p, d, r
<1>5. PointAt(b, r, n) BY <1>1, <1>2, <1>4, PointMoved
<1>6. r.curchar \in 0 .. curplen(r) BY <1>5, Places DEF PointAt
<1> QED BY <1>5, <1>6 DEF r

\* b with mark m at offset d of page p.
Remarked(b, m, p, d) ==
  [b EXCEPT !.mpage = [@ EXCEPT ![m] = p], !.moffset = [@ EXCEPT ![m] = d]]

\* Setting or clearing a mark changes nothing else.
LEMMA MarkSet ==
  ASSUME NEW b, WellFormed(b), NEW m \in Mark, NEW p \in b.alive \cup {NIL},
         NEW d \in Nat, p # NIL => d <= plen(b, p)
  PROVE  LET r == Remarked(b, m, p, d)
         IN /\ WellFormed(r) /\ Text(r) = Text(b) /\ blocation(r) = blocation(b)
            /\ r.mpage[m] = p
<1> DEFINE r == Remarked(b, m, p, d)
<1>1. WellFormed(r) BY MarkMove DEF Remarked
<1>2. Listed(b) /\ b \in Buffer /\ b.curpage \in b.alive BY Places
<1>3. /\ SameLinks(b, r) /\ r.data = b.data /\ r.curpage = b.curpage /\ r.curchar = b.curchar
      /\ r.mpage[m] = p
  BY <1>2 DEF SameLinks, Buffer, Remarked
<1> HIDE DEF r
<1>4. r \in Buffer BY <1>1 DEF WellFormed
<1>5. Text(r) = Text(b) /\ \A x \in b.alive : Before(r, x) = Before(b, x)
  BY <1>2, <1>3, <1>4, SameText
<1>6. blocation(r) = blocation(b) BY <1>2, <1>3, <1>5 DEF blocation
<1> QED BY <1>1, <1>3, <1>5, <1>6 DEF r

\* A byte that is put in.
LEMMA Inserted ==
  ASSUME NEW b, WellFormed(b), NEW ch \in Byte, NEW q \in Room(b)
  PROVE  LET r == binsert(b, ch, q)
         IN /\ WellFormed(r) /\ blocation(r) = blocation(b) + 1
            /\ Text(r) = Spliced(Text(b), blocation(b), blocation(b), <<ch>>)
            /\ Shifted(b, r, blocation(b), 1)
            /\ \A m \in Mark : r.mpage[m] = NIL <=> b.mpage[m] = NIL
<1>1. curplen(b) = PGSIZE => q \in Page \ b.alive BY DEF Room
<1> QED BY <1>1, BinsertWellFormed, BinsertGrows DEF Grows

\* Bytes of the point's page that are deleted.
LEMMA Deleted ==
  ASSUME NEW b, WellFormed(b), NEW n \in Nat, b.curchar + n <= curplen(b)
  PROVE  LET r == bdelete_page(b, b.curpage, n)
         IN /\ WellFormed(r) /\ blocation(r) = blocation(b)
            /\ blocation(b) + n \in 0 .. Len(Text(b))
            /\ Text(r) = Spliced(Text(b), blocation(b), blocation(b) + n, Nought)
            /\ b.curpage \in r.alive =>
                 Before(r, b.curpage) = Before(b, b.curpage) /\ b.curchar <= plen(r, b.curpage)
            /\ bdelete_left(b, b.curpage, n) = 0
<1>1. /\ Listed(b) /\ b.curpage \in b.alive /\ b.curchar \in Nat /\ curplen(b) \in Nat
      /\ curplen(b) = plen(b, b.curpage) /\ Before(b, b.curpage) \in Nat
  BY Places
<1>2. quan(b, n) = n BY <1>1 DEF quan, MIN
<1>3. blocation(b) + n \in 0 .. Len(Text(b))
  <2>1. /\ blength(b) \in Nat /\ Len(Text(b)) = blength(b)
        /\ Before(b, b.curpage) + plen(b, b.curpage) <= blength(b)
    BY <1>1, InText, TextLaid
  <2> QED BY <1>1, <2>1 DEF blocation
<1>4. WellFormed(bdelete_page(b, b.curpage, n)) BY <1>1, BdeletePage
<1>5. bdelete_left(b, b.curpage, n) = 0 BY <1>2 DEF bdelete_left
<1> QED BY <1>2, <1>3, <1>4, <1>5, BdeleteShrinks DEF Shrinks, Nought

\* The byte behind the point is the one behind its place.
LEMMA ByteAtPoint ==
  ASSUME NEW b, WellFormed(b), b.curchar < curplen(b)
  PROVE  LET byte == b.data[b.curpage][b.curchar + 1]
         IN /\ byte \in Byte /\ <<byte>> \in Strings
            /\ SubSeq(b.data[b.curpage], b.curchar + 1, b.curchar + 1) = <<byte>>
            /\ SubSeq(Text(b), blocation(b) + 1, blocation(b) + 1) = <<byte>>
            /\ blocation(b) + 1 \in 0 .. Len(Text(b))
<1> DEFINE s == b.data[b.curpage]
           x == b.curchar
           k == blocation(b) + 1
           byte == s[x + 1]
<1>1. /\ Listed(b) /\ b.curpage \in b.alive /\ x \in Nat /\ curplen(b) \in Nat
      /\ curplen(b) = plen(b, b.curpage) /\ Before(b, b.curpage) \in Nat
      /\ s \in Seq(Byte) /\ plen(b, b.curpage) = Len(s) /\ blocation(b) \in Nat
  BY Places, PageLengths
<1>2. x + 1 \in 1 .. Len(s) BY <1>1
<1>3. byte \in Byte BY <1>1, <1>2
<1>4. /\ Text(b) \in Seq(Byte) /\ Text(b)[Before(b, b.curpage) + (x + 1)] = byte
  <2>1. /\ Text(b) \in Seq(Byte)
        /\ \A i \in 1 .. plen(b, b.curpage) : Text(b)[Starts(b)[b.curpage] + i] = b.data[b.curpage][i]
    BY <1>1, TextLaid DEF Laid
  <2>2. Starts(b)[b.curpage] = Before(b, b.curpage) BY <1>1, Beginnings, Links
  <2>3. x + 1 \in 1 .. plen(b, b.curpage) BY <1>1, <1>2
  <2> HIDE DEF x
  <2> QED BY <2>1, <2>2, <2>3
<1>5. k \in 1 .. Len(Text(b)) /\ Text(b)[k] = byte
  <2>1. blocation(b) + 1 \in 0 .. Len(Text(b)) BY <1>1, Deleted
  <2>2. Before(b, b.curpage) + (x + 1) = k BY <1>1 DEF blocation
  <2> QED BY <1>1, <1>4, <2>1, <2>2
<1> HIDE DEF k, byte
<1>6. ASSUME NEW t \in Seq(Byte), NEW i \in 1 .. Len(t) PROVE SubSeq(t, i, i) = <<t[i]>>
  <2>1. i \in Int /\ i + 1 \in Int /\ i < i + 1 /\ i \in i .. Len(t) /\ t[i] \in Byte OBVIOUS
  <2>2. SubSeq(t, i, i) = <<t[i]>> \o SubSeq(t, i + 1, i) BY <2>1, SubSeqRecursiveFirst
  <2>3. SubSeq(t, i + 1, i) = <<>> BY <2>1, SubSeqEmpty
  <2>4. <<t[i]>> \in Seq(Byte) BY <2>1
  <2> QED BY <2>2, <2>3, <2>4, ConcatEmptySeq
<1>7. SubSeq(Text(b), k, k) = <<byte>> BY <1>4, <1>5, <1>6
<1>8. SubSeq(s, x + 1, x + 1) = <<byte>> BY <1>1, <1>2, <1>6 DEF byte
<1> QED BY <1>3, <1>5, <1>7, <1>8 DEF byte, k, Strings

-----------------------------------------------------------------------------
(* Records. *)

\* The bytes of a record are those it puts back.
Fits(u) == Len(u.data) = IF u.insert THEN 0 ELSE u.size

\* Undoing u in text gives what was there before it.
Sound(u, text) ==
  /\ u.offset \in 0 .. Len(text)
  /\ u.insert => u.size \in 0 .. u.offset
  /\ Undone(u, text) = u.before

\* u can be undone once w, which was made after it, is.
Joins(u, w) ==
  /\ Sound(u, w.before)
  /\ ~ u.insert /\ ~ w.insert => u.offset # w.offset

\* The records can be undone one after the other, each alone.
Good(list) ==
  /\ list \in Seq(Undo)
  /\ \A i \in 1 .. Len(list) : Fits(list[i])
  /\ \A i \in 1 .. Len(list) - 1 : Joins(list[i], list[i + 1])

\* The mark of u is at its offset, unless the page is gone.
Marked(b, u) ==
  /\ u.moffset \in Nat
  /\ u.insert => u.mpage \in b.alive
  /\ u.mpage \in b.alive =>
       u.moffset <= plen(b, u.mpage) /\ Before(b, u.mpage) + u.moffset = u.offset

\* What undoing a record does with a text.
LEMMA UndoneIs ==
  ASSUME NEW u, NEW text \in Strings, u.offset \in 0 .. Len(text), u.size \in Nat,
         u.insert => u.size \in 0 .. u.offset
  PROVE  Undone(u, text) = IF u.insert
                           THEN Spliced(text, u.offset - u.size, u.offset, Nought)
                           ELSE Spliced(text, u.offset, u.offset, u.data)
<1>1. CASE u.insert
  <2> DEFINE o == u.offset
             z == u.size
             from == o - z
  <2>1. o \in 0 .. Len(text) /\ z \in 0 .. o BY <1>1
  <2>2. from \in 0 .. Len(text) /\ o \in from .. Len(text) BY <2>1
  <2>3. Undone(u, text) = SubSeq(text, 1, from) \o SubSeq(text, o + 1, Len(text))
    BY <1>1 DEF Undone
  <2> HIDE DEF from, o
  <2>4. Undone(u, text) = Spliced(text, from, o, <<>>) BY <2>2, <2>3, SplicedOut DEF Strings
  <2> QED BY <1>1, <2>4 DEF from, o, Nought
<1>2. CASE ~ u.insert BY <1>2 DEF Undone, Spliced
<1> QED BY <1>1, <1>2

\* The newest record and those before it.
LEMMA FrontGood ==
  ASSUME NEW list, Good(list), list # <<>>
  PROVE  /\ Good(Front(list)) /\ Last(list) \in Undo /\ Fits(Last(list))
         /\ Front(list) # <<>> => Joins(Last(Front(list)), Last(list))
<1> DEFINE n == Len(list)
           f == Front(list)
<1>1. list \in Seq(Undo) /\ n \in Nat /\ n >= 1 BY EmptySeq DEF Good
<1>2. /\ f \in Seq(Undo) /\ Len(f) = n - 1 /\ \A i \in 1 .. n - 1 : f[i] = list[i]
  <2> DEFINE k == n - 1
  <2>1. 1 \in Int /\ k \in Nat /\ k = n - 1 /\ \A i \in 1 .. k : list[i] \in Undo BY <1>1
  <2>2. f = SubSeq(list, 1, k) BY DEF Front
  <2> HIDE DEF k, f
  <2>3. /\ f \in Seq(Undo) /\ Len(f) = IF 1 <= k THEN k - 1 + 1 ELSE 0
        /\ \A i \in 1 .. k - 1 + 1 : f[i] = list[1 + i - 1]
    BY <2>1, <2>2, SubSeqProperties
  <2>4. \A i \in 1 .. k : i \in 1 .. k - 1 + 1 /\ 1 + i - 1 = i BY <2>1
  <2> QED BY <2>1, <2>3, <2>4
<1>3. Last(list) = list[n] /\ list[n] \in Undo /\ Fits(list[n]) BY <1>1 DEF Last, Good
<1> HIDE DEF f
<1>4. Good(f)
  <2>1. ASSUME NEW i \in 1 .. Len(f) PROVE Fits(f[i])
    <3>1. i \in 1 .. n - 1 /\ i \in 1 .. n BY <1>1, <1>2
    <3> QED BY <1>2, <3>1 DEF Good
  <2>2. ASSUME NEW i \in 1 .. Len(f) - 1 PROVE Joins(f[i], f[i + 1])
    <3>1. i \in 1 .. n - 1 /\ i + 1 \in 1 .. n - 1 BY <1>1, <1>2
    <3>2. Joins(list[i], list[i + 1]) BY <3>1 DEF Good
    <3> QED BY <1>2, <3>1, <3>2
  <2> QED BY <1>2, <2>1, <2>2 DEF Good
<1>5. ASSUME f # <<>> PROVE Joins(Last(f), Last(list))
  <2>1. Len(f) # 0 BY <1>2, <1>5, EmptySeq
  <2>2. n - 1 \in 1 .. n - 1 /\ n - 1 + 1 = n BY <1>1, <1>2, <2>1
  <2>3. Joins(list[n - 1], list[n - 1 + 1]) BY <2>2 DEF Good
  <2>4. Last(f) = list[n - 1] BY <1>2, <2>2 DEF Last
  <2> QED BY <1>3, <2>2, <2>3, <2>4
<1> QED BY <1>3, <1>4, <1>5 DEF f

\* A new record.
LEMMA AppendGood ==
  ASSUME NEW list, Good(list), NEW w \in Undo, Fits(w), list # <<>> => Joins(Last(list), w)
  PROVE  /\ Good(Append(list, w)) /\ Append(list, w) # <<>> /\ Last(Append(list, w)) = w
<1> DEFINE n == Len(list)
           l == Append(list, w)
<1>1. list \in Seq(Undo) /\ n \in Nat BY DEF Good
<1>2. /\ l \in Seq(Undo) /\ l # <<>> /\ Len(l) = n + 1
      /\ \A i \in 1 .. n : l[i] = list[i]
      /\ l[n + 1] = w
  BY <1>1, AppendProperties
<1> HIDE DEF l
<1>3. Last(l) = w BY <1>2 DEF Last
<1>4. ASSUME NEW i \in 1 .. Len(l) PROVE Fits(l[i])
  <2>1. CASE i = n + 1 BY <1>2, <2>1
  <2>2. CASE i # n + 1
    <3>1. i \in 1 .. n BY <1>1, <1>2, <2>2
    <3> QED BY <1>2, <3>1 DEF Good
  <2> QED BY <2>1, <2>2
<1>5. ASSUME NEW i \in 1 .. Len(l) - 1 PROVE Joins(l[i], l[i + 1])
  <2>0. i \in 1 .. n BY <1>1, <1>2
  <2>1. CASE i = n
    <3>1. list # <<>> BY <1>1, <2>0, EmptySeq
    <3>2. Joins(list[n], w) BY <3>1 DEF Last
    <3> QED BY <1>2, <2>0, <2>1, <3>2
  <2>2. CASE i # n
    <3>1. i \in 1 .. n - 1 /\ i + 1 \in 1 .. n BY <1>1, <2>0, <2>2
    <3>2. Joins(list[i], list[i + 1]) BY <3>1 DEF Good
    <3> QED BY <1>2, <2>0, <3>1, <3>2
  <2> QED BY <2>1, <2>2
<1> QED BY <1>2, <1>3, <1>4, <1>5 DEF Good, l

\* Two deletions in a row that are not at one offset, if v comes behind list.
Apart(list, v) ==
  list # <<>> => (~ Last(list).insert /\ ~ v.insert => Last(list).offset # v.offset)

\* A newest record that goes back to the same text.
LEMMA ReplaceGood ==
  ASSUME NEW list, Good(list), list # <<>>, NEW v \in Undo, Fits(v),
         v.before = Last(list).before, Apart(Front(list), v)
  PROVE  /\ Good(Append(Front(list), v)) /\ Append(Front(list), v) # <<>>
         /\ Last(Append(Front(list), v)) = v
<1>1. /\ Good(Front(list))
      /\ Front(list) # <<>> => Joins(Last(Front(list)), Last(list))
  BY FrontGood
<1>2. Front(list) # <<>> => Joins(Last(Front(list)), v) BY <1>1 DEF Joins, Apart
<1> QED BY <1>1, <1>2, AppendGood

\* The same record, with its mark somewhere else.
Alike(u, v) ==
  /\ v \in Undo /\ v.insert = u.insert /\ v.offset = u.offset /\ v.size = u.size
  /\ v.data = u.data /\ v.before = u.before

LEMMA AlikeKept ==
  ASSUME NEW list, Good(list), list # <<>>, NEW v, Alike(Last(list), v), NEW text
  PROVE  /\ Good(Append(Front(list), v)) /\ Append(Front(list), v) # <<>>
         /\ Last(Append(Front(list), v)) = v
         /\ Sound(Last(list), text) => Sound(v, text)
<1> DEFINE u == Last(list)
<1>1. Fits(u) /\ (Front(list) # <<>> => Joins(Last(Front(list)), u)) BY FrontGood
<1>2. v \in Undo /\ Fits(v) /\ v.before = u.before BY <1>1 DEF Alike, Fits
<1>3. Apart(Front(list), v) BY <1>1 DEF Apart, Alike, Joins
<1>4. Sound(u, text) => Sound(v, text) BY DEF Sound, Alike, Undone
<1> QED BY <1>2, <1>3, <1>4, ReplaceGood

\* The newest record tells what came before text, and its mark is at its offset.
Ready(b, list) ==
  /\ Good(list)
  /\ list # <<>> => Sound(Last(list), Text(b)) /\ Marked(b, Last(list))

\* A mark that is moved on to the point was at the place in front of it.
LEMMA ClumpMark ==
  ASSUME NEW r, WellFormed(r), NEW u \in Undo, u.mpage \in r.alive, u.moffset \in Nat
  PROVE  LET v == add_clumped(r, u, 1)
         IN /\ Alike(u, v)
            /\ bisatmrk(r, v) => Before(r, u.mpage) + u.moffset + 1 = blocation(r)
<1> DEFINE to    == Before(r, u.mpage) + u.moffset + 1
           after == {p \in r.alive : Precedes(r, u.mpage, p) /\ Before(r, p) + plen(r, p) >= to}
           f     == First(r, after)
           v     == add_clumped(r, u, 1)
<1>1. r.alive \subseteq Page /\ NIL \notin r.alive /\ to \in Nat /\ Before(r, u.mpage) \in Nat
      /\ Listed(r) /\ r.curpage \in r.alive
  BY Places, Links, Beginnings
<1>2. v = CASE u.moffset + 1 <= plen(r, u.mpage) -> [u EXCEPT !.moffset = @ + 1]
            [] u.moffset + 1 > plen(r, u.mpage) /\ after = {} ->
                 [u EXCEPT !.mpage = NIL, !.moffset = 0]
            [] OTHER -> [u EXCEPT !.mpage = f, !.moffset = to - Before(r, f)]
  BY DEF add_clumped
<1>3. plen(r, u.mpage) \in Nat BY <1>1, PageLengths
<1> HIDE DEF v
<1>4. CASE u.moffset + 1 <= plen(r, u.mpage)
  <2>1. v = [u EXCEPT !.moffset = @ + 1]
    <3> HIDE DEF to, after, f
    <3> QED BY <1>2, <1>3, <1>4
  <2>2. Alike(u, v) /\ v.mpage = u.mpage /\ v.moffset = u.moffset + 1 BY <2>1 DEF Alike, Undo
  <2> QED BY <1>1, <2>2 DEF bisatmrk, blocation, v
<1>5. CASE ~ (u.moffset + 1 <= plen(r, u.mpage)) /\ after = {}
  <2>1. v = [u EXCEPT !.mpage = NIL, !.moffset = 0]
    <3> HIDE DEF to, after, f
    <3> QED BY <1>2, <1>3, <1>5
  <2>2. Alike(u, v) /\ v.mpage = NIL
    <3>1. u \in Undo /\ 0 \in Int /\ NIL \in Page \cup {NIL} OBVIOUS
    <3> QED BY <2>1, <3>1 DEF Alike, Undo
  <2>3. ~ bisatmrk(r, v) BY <1>1, <2>2 DEF bisatmrk
  <2> QED BY <2>2, <2>3 DEF v
<1>6. CASE ~ (u.moffset + 1 <= plen(r, u.mpage)) /\ after # {}
  <2>1. f \in r.alive /\ f \in Page /\ Before(r, f) \in Nat
    <3>1. after \in SUBSET r.alive OBVIOUS
    <3>2. f \in after
      <4> HIDE DEF after
      <4> QED BY <1>1, <1>6, <3>1, FirstIs
    <3> QED BY <1>1, <3>1, <3>2, Beginnings
  <2>2. v = [u EXCEPT !.mpage = f, !.moffset = to - Before(r, f)]
    <3> HIDE DEF to, after, f
    <3> QED BY <1>2, <1>3, <1>6
  <2> HIDE DEF f
  <2>3. Alike(u, v) /\ v.mpage = f /\ v.moffset = to - Before(r, f)
    <3> DEFINE o == to - Before(r, f)
    <3>1. u \in Undo /\ o \in Int /\ f \in Page \cup {NIL} BY <1>1, <2>1
    <3>2. v = [u EXCEPT !.mpage = f, !.moffset = o] BY <2>2
    <3> HIDE DEF o
    <3>3. Alike(u, v) /\ v.mpage = f /\ v.moffset = o BY <3>1, <3>2 DEF Alike, Undo
    <3> QED BY <3>3 DEF o
  <2>4. bisatmrk(r, v) => Before(r, f) + (to - Before(r, f)) = blocation(r)
    BY <2>3 DEF bisatmrk, blocation
  <2> QED BY <1>1, <2>1, <2>3, <2>4 DEF v
<1> QED BY <1>4, <1>5, <1>6

\* binsert of a byte leaves a record that takes it out again, or makes the newest
\* one take it out too; or the mark cannot be followed.
LEMMA AddKeeps ==
  ASSUME NEW b, WellFormed(b), NEW ch \in Byte, NEW q \in Room(b), NEW list, Ready(b, list)
  PROVE  LET r   == binsert(b, ch, q)
             new == undo_add(r, list, 1, Text(b))
         IN new # NIL => new # <<>> /\ Ready(r, new)
<1> DEFINE r   == binsert(b, ch, q)
           at  == blocation(b)
           t   == Text(b)
           z   == <<ch>>
           new == undo_add(r, list, 1, t)
           w   == new_undo(r, TRUE, 1, t)
           u   == Last(list)
<1>1. /\ WellFormed(r) /\ blocation(r) = at + 1 /\ Text(r) = Spliced(t, at, at, z)
      /\ Shifted(b, r, at, 1)
  BY Inserted
<1>2. new = IF list = <<>> \/ ~ u.insert THEN Append(list, w)
            ELSE IF u.mpage \notin r.alive THEN NIL
            ELSE IF bisatmrk(r, add_clumped(r, u, 1))
            THEN Append(Front(list), AtPoint(r, Clumped(add_clumped(r, u, 1), 1)))
            ELSE Append(Append(Front(list), add_clumped(r, u, 1)), w)
  BY DEF undo_add
<1> HIDE DEF r, new
<1>3. /\ t \in Strings /\ at \in 0 .. Size(t) /\ at \in Nat /\ z \in Strings /\ Size(z) = 1
      /\ Size(t) \in Nat
  BY Places DEF Strings, Size
<1> HIDE DEF t, z
<1>4. /\ Text(r) \in Strings /\ Size(Text(r)) = Size(t) + 1 /\ Listed(r)
      /\ r.curpage \in r.alive /\ r.curpage \in Page /\ r.curchar \in Nat
      /\ r.curchar <= plen(r, r.curpage) /\ Before(r, r.curpage) + r.curchar = at + 1
  <2>1. Spliced(t, at, at, z) \in Seq(Byte) /\ Len(Spliced(t, at, at, z)) = Len(t) + Len(z) - (at - at)
    <3>1. t \in Seq(Byte) /\ z \in Seq(Byte) /\ at \in 0 .. Len(t) /\ at \in at .. Len(t)
      BY <1>3 DEF Strings, Size
    <3> QED BY <3>1, SplicedLength
  <2>2. Size(Text(r)) = Size(t) + 1 BY <1>1, <1>3, <2>1 DEF Size
  <2>3. Text(r) \in Strings BY <1>1, <2>1 DEF Strings
  <2>4. /\ Listed(r) /\ r.curpage \in r.alive /\ r.curpage \in Page
        /\ r.curchar \in 0 .. plen(r, r.curpage) /\ plen(r, r.curpage) \in Nat
    BY <1>1, Places, PageLengths
  <2> QED BY <1>1, <2>2, <2>3, <2>4 DEF blocation
<1>5. /\ w \in Undo /\ Fits(w) /\ w.insert /\ w.offset = at + 1 /\ w.size = 1 /\ w.before = t
      /\ w.mpage = r.curpage /\ w.moffset = r.curchar
  <2>1. w = [insert |-> TRUE, offset |-> at + 1, mpage |-> r.curpage, moffset |-> r.curchar,
             size |-> 1, before |-> t, data |-> <<>>]
    BY <1>1 DEF new_undo
  <2>2. <<>> \in Seq(Byte) /\ Len(<<>>) = 0 /\ t \in Seq(Byte) /\ at + 1 \in Int
    BY <1>3, EmptyBytes DEF Strings
  <2> HIDE DEF w, at
  <2>3. w \in Undo BY <1>4, <2>1, <2>2 DEF Undo
  <2>4. Fits(w) BY <2>1, <2>2 DEF Fits
  <2> QED BY <2>1, <2>3, <2>4
<1> HIDE DEF w, u
\* What a record of size n with the byte as its last one does.
<1>6. ASSUME NEW v, v.insert, v.offset = at + 1, v.size \in 1 .. at + 1
      PROVE  /\ Undone(v, Text(r)) = Spliced(t, at + 1 - v.size, at, Nought)
             /\ v.offset \in 0 .. Len(Text(r)) /\ v.size \in 0 .. v.offset
  <2> DEFINE lo == at + 1 - v.size
  <2>1. lo \in 0 .. at /\ v.offset - v.size = lo BY <1>3, <1>6
  <2>2. /\ v.offset \in 0 .. Len(Text(r)) /\ v.size \in 0 .. v.offset /\ v.size \in Nat
    BY <1>3, <1>4, <1>6 DEF Size
  <2>3. Undone(v, Text(r)) = Spliced(Text(r), v.offset - v.size, v.offset, Nought)
    BY <1>4, <1>6, <2>2, UndoneIs
  <2> HIDE DEF lo, at
  <2>4. Spliced(Spliced(t, at, at, z), lo, at + Size(z), Nought) = Spliced(t, lo, at, Nought)
    BY <1>3, <2>1, PutAndTaken
  <2> QED BY <1>1, <1>3, <1>6, <2>1, <2>2, <2>3, <2>4 DEF lo
<1>7. Sound(w, Text(r)) /\ Marked(r, w)
  <2>1. w.size \in 1 .. at + 1 BY <1>3, <1>5
  <2>2. /\ Undone(w, Text(r)) = Spliced(t, at + 1 - w.size, at, Nought)
        /\ w.offset \in 0 .. Len(Text(r)) /\ w.size \in 0 .. w.offset
    BY <1>5, <1>6, <2>1
  <2>3. at + 1 - w.size = at BY <1>3, <1>5
  <2>4. Spliced(t, at, at, Nought) = t BY <1>3, SplicedNot DEF Strings, Size, Nought
  <2>5. Sound(w, Text(r)) BY <1>5, <2>2, <2>3, <2>4 DEF Sound
  <2>6. Marked(r, w) BY <1>4, <1>5 DEF Marked
  <2> QED BY <2>5, <2>6
<1>8. CASE list = <<>> \/ ~ u.insert
  <2>1. list # <<>> => Joins(u, w) BY <1>5 DEF Ready, Joins, u, t
  <2>2. Good(Append(list, w)) /\ Append(list, w) # <<>> /\ Last(Append(list, w)) = w
    BY <1>5, <2>1, AppendGood DEF Ready, u
  <2> QED BY <1>2, <1>7, <1>8, <2>2 DEF Ready, r, new, t
<1>9. CASE ~ (list = <<>> \/ ~ u.insert) /\ u.mpage \in r.alive
  <2> DEFINE v == add_clumped(r, u, 1)
  <2>1. /\ Good(list) /\ list # <<>> /\ u.insert /\ Sound(u, t) /\ Marked(b, u)
        /\ u \in Undo /\ Fits(u)
    BY <1>9, FrontGood DEF Ready, u, t
  <2>2. u.moffset \in Nat /\ u.mpage \in b.alive /\ Before(b, u.mpage) + u.moffset = u.offset
    BY <2>1 DEF Marked
  <2>3. Alike(u, v) /\ (bisatmrk(r, v) => Before(r, u.mpage) + u.moffset + 1 = at + 1)
    BY <1>1, <1>9, <2>1, <2>2, ClumpMark
  <2> HIDE DEF v
  <2>4. CASE bisatmrk(r, v)
    <3> DEFINE c == AtPoint(r, Clumped(v, 1))
    <3>1. u.offset = at
      <4>1. Before(b, u.mpage) \in Nat BY <2>2, Places, Beginnings, Links
      <4>2. \/ Before(r, u.mpage) = Before(b, u.mpage)
            \/ Before(b, u.mpage) >= at /\ Before(r, u.mpage) = Before(b, u.mpage) + 1
        BY <1>1, <2>2 DEF Shifted
      <4> QED BY <1>3, <2>2, <2>3, <2>4, <4>1, <4>2
    <3>2. /\ c \in Undo /\ c.insert /\ c.offset = at + 1 /\ c.size = u.size + 1
          /\ c.data = u.data /\ c.before = u.before
          /\ c.mpage = r.curpage /\ c.moffset = r.curchar
      <4>1. v \in Undo /\ v.insert /\ v.offset = at /\ v.size = u.size /\ v.data = u.data
            /\ v.before = u.before
        BY <2>1, <2>3, <3>1 DEF Alike
      <4>2. at \in Nat /\ r.curpage \in Page /\ r.curchar \in Nat BY <1>3, <1>4
      <4> DEFINE d == Clumped(v, 1)
                 n == v.size + 1
                 o == v.offset + 1
                 p == r.curpage
                 k == r.curchar
      <4>3. d = [v EXCEPT !.size = n, !.offset = o] BY DEF Clumped
      <4>4. n \in Nat /\ o \in Int /\ n = u.size + 1 /\ o = at + 1 BY <4>1, <4>2 DEF Undo
      <4>5. p \in Page \cup {NIL} /\ k \in Int BY <4>2
      <4>6. c = [d EXCEPT !.mpage = p, !.moffset = k] BY DEF AtPoint
      <4> HIDE DEF at, c, d, n, o, p, k
      <4>7. /\ d \in Undo /\ d.insert = v.insert /\ d.offset = o /\ d.size = n
            /\ d.data = v.data /\ d.before = v.before
        BY <4>1, <4>3, <4>4 DEF Undo
      <4>8. /\ c \in Undo /\ c.insert = d.insert /\ c.offset = d.offset /\ c.size = d.size
            /\ c.data = d.data /\ c.before = d.before /\ c.mpage = p /\ c.moffset = k
        BY <4>5, <4>6, <4>7 DEF Undo
      <4> QED BY <4>1, <4>4, <4>7, <4>8 DEF p, k
    <3> HIDE DEF c
    <3>3. u.size \in 0 .. at BY <2>1, <3>1 DEF Sound
    <3>4. c.size \in 1 .. at + 1 /\ at + 1 - c.size = at - u.size BY <1>3, <3>2, <3>3
    <3>5. /\ Undone(c, Text(r)) = Spliced(t, at + 1 - c.size, at, Nought)
          /\ c.offset \in 0 .. Len(Text(r)) /\ c.size \in 0 .. c.offset
      BY <1>6, <3>2, <3>4
    <3>6. Spliced(t, at - u.size, at, Nought) = u.before
      <4>1. Undone(u, t) = Spliced(t, u.offset - u.size, u.offset, Nought)
        BY <1>3, <2>1, UndoneIs DEF Sound, Undo
      <4> QED BY <2>1, <3>1, <4>1 DEF Sound
    <3>7. Sound(c, Text(r)) BY <3>2, <3>4, <3>5, <3>6 DEF Sound
    <3>8. Marked(r, c) BY <1>4, <3>2 DEF Marked
    <3>9. Fits(c) /\ c.before = Last(list).before /\ Apart(Front(list), c)
      BY <2>1, <3>2 DEF Fits, Apart, u
    <3>10. /\ Good(Append(Front(list), c)) /\ Append(Front(list), c) # <<>>
           /\ Last(Append(Front(list), c)) = c
      BY <2>1, <3>2, <3>9, ReplaceGood
    <3>11. new = Append(Front(list), c) BY <1>2, <1>9, <2>4 DEF c, v
    <3> QED BY <3>7, <3>8, <3>10, <3>11 DEF Ready, r, new, t
  <2>5. CASE ~ bisatmrk(r, v)
    <3> DEFINE l == Append(Front(list), v)
    <3>1. Good(l) /\ l # <<>> /\ Last(l) = v /\ Sound(v, t)
      BY <2>1, <2>3, AlikeKept DEF u
    <3> HIDE DEF l
    <3>2. Joins(v, w) BY <1>5, <3>1 DEF Joins
    <3>3. Good(Append(l, w)) /\ Append(l, w) # <<>> /\ Last(Append(l, w)) = w
      BY <1>5, <3>1, <3>2, AppendGood
    <3>4. new = Append(l, w) BY <1>2, <1>9, <2>5 DEF l, v
    <3> QED BY <1>7, <3>3, <3>4 DEF Ready, r, new, t
  <2> QED BY <2>4, <2>5
<1>10. CASE ~ (list = <<>> \/ ~ u.insert) /\ u.mpage \notin r.alive
  BY <1>2, <1>10 DEF r, new, t
<1> QED BY <1>8, <1>9, <1>10

\* Records that were not made into twins are apart.
LEMMA NoTwins ==
  ASSUME NEW list, list \in Seq(Undo), NEW w \in Undo, ~ Twins(Append(list, w))
  PROVE  Apart(list, w)
<1> DEFINE n == Len(list)
           l == Append(list, w)
<1> SUFFICES ASSUME list # <<>> PROVE ~ Last(list).insert /\ ~ w.insert => Last(list).offset # w.offset
  BY DEF Apart
<1>1. n \in Nat /\ n >= 1 BY EmptySeq
<1>2. Len(l) = n + 1 /\ l[n] = list[n] /\ l[n + 1] = w BY <1>1, AppendProperties
<1>3. ~ Twins(l) OBVIOUS
<1> HIDE DEF l
<1>4. Len(l) > 1 /\ Len(l) - 1 = n BY <1>1, <1>2
<1> QED BY <1>2, <1>3, <1>4 DEF Twins, Last

\* A mark that is moved back to the point was at the place behind it.
LEMMA MovedMark ==
  ASSUME NEW b, WellFormed(b), NEW u \in Undo, u.moffset \in Nat,
         u.mpage \in b.alive => Before(b, u.mpage) + u.moffset = u.offset,
         ~ (u.moffset = 0 /\ u.mpage \notin b.alive), ~ bisatmrk(b, u)
  PROVE  LET v == MovedBack(b, u, 1)
         IN /\ Alike(u, v)
            /\ bisatmrk(b, v) => u.offset = blocation(b) + 1
<1> DEFINE prev == b.prevp[u.mpage]
           v    == MovedBack(b, u, 1)
<1>1. /\ Listed(b) /\ b.curpage \in b.alive /\ NIL \notin b.alive /\ b.alive \subseteq Page
      /\ \A p \in b.alive : Before(b, p) \in Nat /\ plen(b, p) \in Nat
  BY Places, Beginnings, PageLengths, Links
<1>2. v = CASE u.moffset >= 1 \/ u.moffset < 0 -> [u EXCEPT !.moffset = @ - 1]
            [] u.moffset \in 0 .. 1 - 1 /\ prev # NIL ->
                 [u EXCEPT !.mpage = prev, !.moffset = plen(b, prev) - 1]
            [] OTHER -> u
  BY DEF MovedBack
<1> HIDE DEF v
<1>3. CASE u.moffset >= 1
  <2> DEFINE k == u.moffset - 1
  <2>1. v = [u EXCEPT !.moffset = k] BY <1>2, <1>3
  <2>2. u \in Undo /\ k \in Int OBVIOUS
  <2> HIDE DEF k
  <2>3. Alike(u, v) /\ v.mpage = u.mpage /\ v.moffset = k
    BY <2>1, <2>2 DEF Alike, Undo
  <2>4. ASSUME bisatmrk(b, v) PROVE u.offset = blocation(b) + 1
    <3>1. u.mpage = b.curpage /\ b.curchar = u.moffset - 1 BY <2>3, <2>4 DEF bisatmrk, k
    <3> QED BY <1>1, <3>1 DEF blocation
  <2> QED BY <2>3, <2>4 DEF v
<1>4. CASE u.moffset = 0 /\ prev # NIL
  <2> DEFINE k == plen(b, prev) - 1
             p == prev
  <2>1. /\ u.mpage \in b.alive /\ p \in b.alive
        /\ Before(b, u.mpage) = Before(b, p) + plen(b, p)
    BY <1>1, <1>4, Links, Beginnings
  <2>2. v = [u EXCEPT !.mpage = p, !.moffset = k]
    <3>1. ~ (u.moffset >= 1 \/ u.moffset < 0) /\ u.moffset \in 0 .. 1 - 1 BY <1>4
    <3> HIDE DEF k
    <3> QED BY <1>2, <1>4, <3>1 DEF k
  <2> HIDE DEF p
  <2>3. u \in Undo /\ k \in Int /\ p \in Page \cup {NIL} BY <1>1, <2>1 DEF p
  <2>4. k = plen(b, p) - 1 BY DEF p
  <2> HIDE DEF k
  <2>5. Alike(u, v) /\ v.mpage = p /\ v.moffset = k
    BY <2>2, <2>3 DEF Alike, Undo
  <2>6. ASSUME bisatmrk(b, v) PROVE u.offset = blocation(b) + 1
    <3>1. p = b.curpage /\ b.curchar = plen(b, p) - 1 BY <2>4, <2>5, <2>6 DEF bisatmrk
    <3> QED BY <1>1, <1>4, <2>1, <3>1 DEF blocation
  <2> QED BY <2>5, <2>6 DEF v
<1>5. CASE u.moffset = 0 /\ prev = NIL
  <2>1. v = u
    <3>1. ~ (u.moffset >= 1 \/ u.moffset < 0) BY <1>5
    <3> QED BY <1>2, <1>5, <3>1
  <2> QED BY <2>1 DEF Alike, v
<1> QED BY <1>3, <1>4, <1>5

\* bdelete of a byte leaves a record that puts it back, or makes the newest one put
\* it back too; or the mark cannot be followed.
LEMMA DelKeeps ==
  ASSUME NEW b, WellFormed(b), b.curchar + 1 <= curplen(b), NEW list, Ready(b, list)
  PROVE  LET r   == bdelete_page(b, b.curpage, 1)
             new == undo_del(b, list, 1)
         IN new # NIL /\ ~ Twins(new) => new # <<>> /\ Ready(r, new)
<1> DEFINE r    == bdelete_page(b, b.curpage, 1)
           at   == blocation(b)
           t    == Text(b)
           byte == b.data[b.curpage][b.curchar + 1]
           z    == <<byte>>
           w    == new_undo(b, FALSE, 1, t)
           u    == Last(list)
           v    == MovedBack(b, u, 1)
           new  == undo_del(b, list, 1)
<1>1. /\ WellFormed(r) /\ blocation(r) = at /\ at + 1 \in 0 .. Len(t)
      /\ Text(r) = Spliced(t, at, at + 1, Nought)
      /\ b.curpage \in r.alive =>
           Before(r, b.curpage) = Before(b, b.curpage) /\ b.curchar <= plen(r, b.curpage)
  BY Deleted
<1>2. /\ byte \in Byte /\ z \in Strings /\ SubSeq(t, at + 1, at + 1) = z
      /\ SubSeq(b.data[b.curpage], b.curchar + 1, b.curchar + 1) = z
  <2>1. b.curchar < curplen(b) BY Places
  <2> QED BY <2>1, ByteAtPoint
<1>3. new = IF list = <<>> \/ u.insert THEN Append(list, w)
            ELSE IF bisatmrk(b, u) THEN Append(Front(list), undo_append(u, byte))
            ELSE IF u.moffset \in 0 .. 1 - 1 /\ u.mpage \notin b.alive THEN NIL
            ELSE IF bisatmrk(b, v) THEN Append(Front(list), undo_prepend(v, byte))
            ELSE Append(Append(Front(list), v), w)
  BY DEF undo_del
<1>4. w = [insert |-> FALSE, offset |-> at, mpage |-> b.curpage, moffset |-> b.curchar,
           size |-> 1, before |-> t, data |-> z]
  BY <1>2 DEF new_undo
<1>5. Size(z) = 1 BY DEF Size
<1> HIDE DEF r, new, z, byte, w, v
<1>6. /\ t \in Strings /\ at \in Nat /\ at \in 0 .. Size(t) /\ at + 1 \in at .. Size(t)
      /\ at + 1 \in 0 .. Size(t) /\ Size(t) \in Nat
      /\ b.curpage \in b.alive /\ b.curpage \in Page /\ b.curchar \in Nat
      /\ Before(b, b.curpage) + b.curchar = at
  <2>1. /\ b.curpage \in b.alive /\ b.curpage \in Page /\ b.curchar \in 0 .. plen(b, b.curpage)
        /\ curplen(b) = plen(b, b.curpage) /\ curplen(b) \in Nat /\ t \in Seq(Byte)
        /\ Len(t) \in Nat /\ at \in 0 .. Len(t)
    BY Places
  <2> QED BY <1>1, <2>1 DEF Strings, Size, blocation
<1> HIDE DEF t
<1>7. /\ w \in Undo /\ Fits(w) /\ ~ w.insert /\ w.offset = at /\ w.size = 1 /\ w.before = t
      /\ w.data = z /\ w.mpage = b.curpage /\ w.moffset = b.curchar
  <2>1. t \in Seq(Byte) /\ z \in Seq(Byte) /\ Len(z) = 1 BY <1>2, <1>5, <1>6 DEF Strings, Size
  <2> HIDE DEF at
  <2>2. w \in Undo BY <1>4, <1>6, <2>1 DEF Undo
  <2>3. Fits(w) BY <1>4, <2>1 DEF Fits
  <2> QED BY <1>4, <2>2, <2>3
<1> HIDE DEF u
\* What a deletion at the point's place that has the byte first or last does.
<1>8. ASSUME NEW c, ~ c.insert, c.offset = at, c.size \in Nat, NEW s \in Strings,
             c.data = Cat(s, z) \/ c.data = Cat(z, s)
      PROVE  /\ c.offset \in 0 .. Len(Text(r))
             /\ c.data = Cat(s, z) => Undone(c, Text(r)) = Spliced(t, at, at, s)
             /\ c.data = Cat(z, s) => Undone(c, Text(r)) = Spliced(t, at + 1, at + 1, s)
  <2>1. Text(r) \in Strings /\ at \in 0 .. Len(Text(r)) BY <1>1, Places DEF Strings
  <2>2. Undone(c, Text(r)) = Spliced(Text(r), at, at, c.data) BY <1>8, <2>1, UndoneIs
  <2>3. /\ Spliced(Text(r), at, at, Cat(s, z)) = Spliced(t, at, at, s)
        /\ Spliced(Text(r), at, at, Cat(z, s)) = Spliced(t, at + 1, at + 1, s)
    <3> DEFINE to == at + 1
    <3>1. to \in at .. Size(t) /\ SubSeq(t, at + 1, to) = z BY <1>2, <1>6
    <3>2. Text(r) = Spliced(t, at, to, Nought) BY <1>1
    <3> HIDE DEF to, at
    <3>3. /\ Spliced(Spliced(t, at, to, Nought), at, at, Cat(s, SubSeq(t, at + 1, to))) = Spliced(t, at, at, s)
          /\ Spliced(Spliced(t, at, to, Nought), at, at, Cat(SubSeq(t, at + 1, to), s)) = Spliced(t, to, to, s)
      BY <1>6, <3>1, TakenAndPut
    <3> QED BY <3>1, <3>2, <3>3 DEF to
  <2> QED BY <1>8, <2>1, <2>2, <2>3
\* A mark at the point stays there.
<1>9. ASSUME NEW c, ~ c.insert, c.offset = at, c.mpage = b.curpage, c.moffset = b.curchar
      PROVE  Marked(r, c)
  BY <1>1, <1>6, <1>9 DEF Marked
<1>10. Sound(w, Text(r)) /\ Marked(r, w)
  <2>1. Nought \in Strings /\ Cat(z, Nought) = z BY <1>2, CatNothing
  <2>2. /\ w.offset \in 0 .. Len(Text(r))
        /\ Undone(w, Text(r)) = Spliced(t, at + 1, at + 1, Nought)
    BY <1>7, <1>8, <2>1
  <2>3. Spliced(t, at + 1, at + 1, Nought) = t BY <1>6, SplicedNot DEF Strings, Size, Nought
  <2>4. Sound(w, Text(r)) BY <1>7, <2>2, <2>3 DEF Sound
  <2> QED BY <1>7, <1>9, <2>4
<1>11. CASE list = <<>> \/ u.insert
  <2>1. list # <<>> => Joins(u, w) BY <1>7, <1>11 DEF Ready, Joins, u, t
  <2>2. Good(Append(list, w)) /\ Append(list, w) # <<>> /\ Last(Append(list, w)) = w
    BY <1>7, <2>1, AppendGood DEF Ready, u
  <2> QED BY <1>3, <1>10, <1>11, <2>2 DEF Ready, r, new
<1>12. CASE ~ (list = <<>> \/ u.insert)
  <2>1. /\ Good(list) /\ list # <<>> /\ ~ u.insert /\ Sound(u, t) /\ Marked(b, u)
        /\ u \in Undo /\ Fits(u) /\ Good(Front(list))
        /\ Front(list) # <<>> => Joins(Last(Front(list)), u)
    BY <1>12, FrontGood DEF Ready, u, t
  <2>2. /\ u.moffset \in Nat /\ u.size \in Nat /\ u.data \in Strings /\ Size(u.data) = u.size
        /\ u.mpage \in b.alive => Before(b, u.mpage) + u.moffset = u.offset
    BY <2>1 DEF Marked, Undo, Fits, Strings, Size
  <2>3. Spliced(t, u.offset, u.offset, u.data) = u.before
    BY <1>6, <2>1, <2>2, UndoneIs DEF Sound
  <2>4. ASSUME NEW c \in Undo, ~ c.insert, c.offset = at, c.mpage = b.curpage,
               c.moffset = b.curchar, c.size = u.size + 1, c.before = u.before,
               \/ u.offset = at /\ c.data = Cat(u.data, z)
               \/ u.offset = at + 1 /\ c.data = Cat(z, u.data),
               Apart(Front(list), c)
        PROVE  /\ Append(Front(list), c) # <<>> /\ Ready(r, Append(Front(list), c))
    <3>1. c.size \in Nat BY <2>2, <2>4
    <3>2. c.offset \in 0 .. Len(Text(r)) /\ Undone(c, Text(r)) = u.before
      BY <1>8, <2>2, <2>3, <2>4, <3>1
    <3>3. Sound(c, Text(r)) BY <2>4, <3>2 DEF Sound
    <3>4. Marked(r, c) BY <1>9, <2>4
    <3>5. Fits(c)
      <4>1. /\ Size(Cat(u.data, z)) = Size(u.data) + Size(z)
            /\ Size(Cat(z, u.data)) = Size(z) + Size(u.data)
        BY <1>2, <2>2, CatBytes
      <4>2. Size(c.data) = u.size + 1 BY <1>5, <2>2, <2>4, <4>1
      <4> QED BY <2>4, <4>2 DEF Fits, Size
    <3>6. c.before = Last(list).before BY <2>4 DEF u
    <3>7. /\ Good(Append(Front(list), c)) /\ Append(Front(list), c) # <<>>
          /\ Last(Append(Front(list), c)) = c
      BY <2>1, <2>4, <3>5, <3>6, ReplaceGood
    <3> QED BY <3>3, <3>4, <3>7 DEF Ready
  <2>5. CASE bisatmrk(b, u)
    <3> DEFINE c == undo_append(u, byte)
    <3>1. u.offset = at /\ u.mpage = b.curpage /\ u.moffset = b.curchar
      BY <1>6, <2>2, <2>5 DEF bisatmrk
    <3>2. /\ c \in Undo /\ c.insert = u.insert /\ c.offset = u.offset /\ c.mpage = u.mpage
          /\ c.moffset = u.moffset /\ c.size = u.size + 1 /\ c.before = u.before
          /\ c.data = Cat(u.data, z)
      <4> DEFINE d == Append(u.data, byte)
                 n == u.size + 1
      <4>1. u \in Undo /\ d \in Seq(Byte) /\ n \in Nat BY <1>2, <2>1, <2>2, AppendProperties DEF Strings
      <4>2. d = Cat(u.data, z) BY <1>2, <2>2, AppendIsConcat DEF Strings, Cat, z
      <4>3. c = [u EXCEPT !.data = d, !.size = n] BY DEF undo_append
      <4> HIDE DEF c, d, n
      <4>4. /\ c \in Undo /\ c.insert = u.insert /\ c.offset = u.offset /\ c.mpage = u.mpage
            /\ c.moffset = u.moffset /\ c.size = n /\ c.before = u.before /\ c.data = d
        BY <4>1, <4>3 DEF Undo
      <4> QED BY <4>2, <4>4 DEF n
    <3> HIDE DEF c
    <3>3. Apart(Front(list), c) BY <2>1, <3>2 DEF Apart, Joins
    <3>4. Append(Front(list), c) # <<>> /\ Ready(r, Append(Front(list), c))
      BY <2>1, <2>4, <3>1, <3>2, <3>3
    <3>5. new = Append(Front(list), c) BY <1>3, <1>12, <2>5 DEF c
    <3> QED BY <3>4, <3>5 DEF r, new
  <2>6. CASE ~ bisatmrk(b, u) /\ u.moffset = 0 /\ u.mpage \notin b.alive
    <3>1. u.moffset \in 0 .. 1 - 1 BY <2>6
    <3>2. new = NIL BY <1>3, <1>12, <2>6, <3>1
    <3> QED BY <3>2 DEF new
  <2>7. CASE ~ bisatmrk(b, u) /\ ~ (u.moffset = 0 /\ u.mpage \notin b.alive)
    <3>1. Alike(u, v) /\ (bisatmrk(b, v) => u.offset = at + 1)
      BY <2>1, <2>2, <2>7, MovedMark DEF v
    <3>2. ~ (u.moffset \in 0 .. 1 - 1 /\ u.mpage \notin b.alive) BY <2>7
    <3>3. CASE bisatmrk(b, v)
      <4> DEFINE c == undo_prepend(v, byte)
      <4>1. /\ c \in Undo /\ c.insert = v.insert /\ c.offset = v.offset - 1 /\ c.mpage = v.mpage
            /\ c.moffset = v.moffset /\ c.size = v.size + 1 /\ c.before = v.before
            /\ c.data = Cat(z, v.data)
        <5> DEFINE d == <<byte>> \o v.data
                   n == v.size + 1
                   o == v.offset - 1
        <5>1. v \in Undo /\ v.data = u.data /\ v.size = u.size BY <3>1 DEF Alike
        <5>2. v.offset \in Int BY <5>1 DEF Undo
        <5>3. o \in Int /\ n \in Nat BY <2>2, <5>1, <5>2
        <5>4. d = Cat(z, v.data) BY DEF Cat, z
        <5>5. d \in Seq(Byte) BY <1>2, <2>2, <5>1, <5>4, CatBytes DEF Strings
        <5>6. c = [v EXCEPT !.data = d, !.size = n, !.offset = o] BY DEF undo_prepend
        <5> HIDE DEF c, d, n, o
        <5>7. /\ c \in Undo /\ c.insert = v.insert /\ c.offset = o /\ c.mpage = v.mpage
              /\ c.moffset = v.moffset /\ c.size = n /\ c.before = v.before /\ c.data = d
          BY <5>1, <5>3, <5>5, <5>6 DEF Undo
        <5> QED BY <5>4, <5>7 DEF n, o
      <4> HIDE DEF c
      <4>2. new = Append(Front(list), c) BY <1>3, <1>12, <2>7, <3>2, <3>3 DEF c
      <4>3. /\ ~ c.insert /\ c.offset = at /\ c.mpage = b.curpage /\ c.moffset = b.curchar
            /\ c.size = u.size + 1 /\ c.before = u.before /\ u.offset = at + 1
            /\ c.data = Cat(z, u.data)
        BY <1>6, <2>1, <3>1, <3>3, <4>1 DEF Alike, bisatmrk
      <4>4. Front(list) \in Seq(Undo) BY <2>1 DEF Good
      <4>5. ~ Twins(new) => Apart(Front(list), c) BY <4>1, <4>2, <4>4, NoTwins
      <4>6. ~ Twins(new) => new # <<>> /\ Ready(r, new) BY <2>4, <4>1, <4>2, <4>3, <4>5
      <4> QED BY <4>6 DEF r, new
    <3>4. CASE ~ bisatmrk(b, v)
      <4> DEFINE l == Append(Front(list), v)
      <4>1. Good(l) /\ l # <<>> /\ Last(l) = v /\ Sound(v, t)
        BY <2>1, <3>1, AlikeKept DEF u
      <4> HIDE DEF l
      <4>2. new = Append(l, w) BY <1>3, <1>12, <2>7, <3>2, <3>4 DEF l
      <4>3. l \in Seq(Undo) BY <4>1 DEF Good
      <4>4. ~ Twins(new) => Joins(v, w) BY <1>7, <4>1, <4>2, <4>3, NoTwins DEF Apart, Joins
      <4>5. ~ Twins(new) => /\ Good(Append(l, w)) /\ Append(l, w) # <<>>
                            /\ Last(Append(l, w)) = w
        BY <1>7, <4>1, <4>4, AppendGood
      <4> QED BY <1>10, <4>2, <4>5 DEF Ready, r, new
    <3> QED BY <3>3, <3>4
  <2> QED BY <2>5, <2>6, <2>7
<1> QED BY <1>11, <1>12

-----------------------------------------------------------------------------
(* The invariant. *)

\* calloc gives a page whenever a byte that is put back needs one.
MemoryLasts == call.op = "insert" /\ call.left <= Newest.size => Room(buf) # {}

\* Between two calls the newest record tells what came before the text; its mark is
\* at its offset until something is undone.
Resting ==
  call.op = "none" =>
    /\ call = NoCall
    /\ undo_tail # <<>> => Sound(Newest, Text(buf))
    /\ ~ rewinding => ~ in_undo /\ Ready(buf, undo_tail)

\* An insertion is undone on the page of the point.
Removing ==
  call.op \in {"move", "delete"} =>
    /\ undo_tail # <<>> /\ Newest.insert /\ Sound(Newest, Text(buf))
    /\ call.op = "move" =>
         /\ call.left = - Newest.size /\ blocation(buf) = Newest.offset
         /\ buf.curchar >= Newest.size
    /\ call.op = "delete" =>
         /\ call.page = buf.curpage /\ call.left = Newest.size
         /\ blocation(buf) + Newest.size = Newest.offset
         /\ buf.curchar + Newest.size <= curplen(buf)

\* The text before u is made of text if the bytes of u from the i-th on are put in at
\* place at.
Rest(u, text, at, i) == Spliced(text, at, at, SubSeq(u.data, i, u.size))

\* A deletion is undone: what is not put back yet belongs at the point.
Restoring ==
  call.op = "insert" =>
    /\ undo_tail # <<>> /\ ~ Newest.insert /\ call.left \in 1 .. Newest.size + 1
    /\ buf.mpage[Tmark] # NIL
    /\ Rest(Newest, Text(buf), blocation(buf), call.left) = Newest.before

UndoInv ==
  /\ WellFormed(buf) /\ Good(undo_tail) /\ call \in Call
  /\ in_undo \in BOOLEAN /\ rewinding \in BOOLEAN
  /\ Resting /\ Removing /\ Restoring

\* The user's deletions are of one byte, and the user does only what undo.c copes
\* with.
Restricted == Plain /\ MaxDelete = 1

LEMMA UndoInit == Init => UndoInv
<1> SUFFICES ASSUME Init PROVE UndoInv
  OBVIOUS
<1>1. PICK p \in Page : buf = bcreate(p) BY DEF Init
<1>2. WellFormed(buf) BY <1>1, BcreateWellFormed
<1>3. undo_tail = <<>> /\ call = NoCall /\ ~ in_undo /\ in_undo \in BOOLEAN /\ rewinding = FALSE
  BY DEF Init
<1>4. Good(<<>>)
  <2>1. <<>> \in Seq(Undo) /\ Len(<<>>) = 0 OBVIOUS
  <2> QED BY <2>1 DEF Good
<1>5. NoCall \in Call BY DEF NoCall, Call
<1>6. NoCall.op = "none" BY DEF NoCall
<1> QED BY <1>2, <1>3, <1>4, <1>5, <1>6 DEF UndoInv, Resting, Removing, Restoring, Ready

\* What has no defined result is the end.
LEMMA WildStep ==
  ASSUME UndoInv, WellFormed(buf'), NEW what \in Undefined, call' = Wild(what),
         undo_tail' = undo_tail, in_undo' = in_undo, rewinding' = rewinding
  PROVE  UndoInv'
<1>1. call' \in Call /\ call'.op = what BY DEF Wild, NoCall, Call, Undefined
<1>2. call'.op \notin {"none", "move", "delete", "insert"} BY <1>1 DEF Undefined
<1> QED BY <1>1, <1>2 DEF UndoInv, Resting, Removing, Restoring

\* A step to a state between two calls.
LEMMA RestStep ==
  ASSUME WellFormed(buf'), Good(undo_tail'), call' = NoCall,
         in_undo' \in BOOLEAN, rewinding' \in BOOLEAN,
         undo_tail' # <<>> => Sound(Newest', Text(buf')),
         ~ rewinding' => ~ in_undo' /\ Ready(buf', undo_tail')
  PROVE  UndoInv'
<1>1. call' \in Call /\ call'.op = "none" BY DEF NoCall, Call
<1> QED BY <1>1 DEF UndoInv, Resting, Removing, Restoring

\* bmodf is neither in the text nor where the point is.
LEMMA Cleared ==
  ASSUME NEW b, WellFormed(b)
  PROVE  LET r == [b EXCEPT !.bmodf = FALSE]
         IN WellFormed(r) /\ Text(r) = Text(b)
<1> DEFINE r == [b EXCEPT !.bmodf = FALSE]
<1>0. b \in Buffer /\ Listed(b) BY Places
<1>1. /\ r \in Buffer /\ SameLinks(b, r) /\ r.data = b.data
      /\ r.mpage = b.mpage /\ r.moffset = b.moffset
      /\ r.curpage = b.curpage /\ r.curchar = b.curchar
  BY <1>0 DEF SameLinks, Buffer
<1> HIDE DEF r
<1>2. Text(r) = Text(b) BY <1>0, <1>1, SameText
<1>3. Linked(r) /\ Reachable(r) /\ PagesFit(r) /\ PointInside(r) /\ MarksInside(r)
  BY <1>1 DEF WellFormed, SameLinks, Linked, Reachable, PagesFit, PointInside, MarksInside,
              plen, curplen
<1> QED BY <1>1, <1>2, <1>3 DEF WellFormed, r

\* do_undo returns.
LEMMA FinishStep ==
  ASSUME NEW b, WellFormed(b), Good(undo_tail'), Finish(b),
         undo_tail' # <<>> => Sound(Newest', Text(b))
  PROVE  UndoInv' /\ Text(buf') = Text(b)
<1>1. WellFormed(buf') /\ Text(buf') = Text(b) BY Cleared DEF Finish
<1>2. call' = NoCall /\ in_undo' = FALSE /\ rewinding' = (undo_tail' # <<>>) BY DEF Finish
<1>3. UndoInv'
  <2>1. ~ rewinding' => Ready(buf', undo_tail') BY <1>2 DEF Ready
  <2> QED BY <1>1, <1>2, <2>1, RestStep
<1> QED BY <1>1, <1>3

-----------------------------------------------------------------------------
(* The steps. *)

LEMMA BinsertStep ==
  ASSUME UndoInv, Restricted, NEW ch \in Byte, Binsert(ch)
  PROVE  UndoInv'
<1>1. /\ WellFormed(buf) /\ call = NoCall /\ call.op = "none" /\ ~ rewinding
      /\ ~ in_undo /\ Ready(buf, undo_tail) /\ Good(undo_tail)
  BY DEF Binsert, MayEdit, Idle, Restricted, UndoInv, Resting, NoCall
<1>2. PICK q \in Room(buf) : buf' = binsert(buf, ch, q) BY DEF Binsert
<1> DEFINE new == undo_add(buf', undo_tail, 1, Text(buf))
<1>3. Record(new) /\ in_undo' = in_undo /\ rewinding' = rewinding BY <1>1 DEF Binsert
<1>4. WellFormed(buf') BY <1>1, <1>2, Inserted
<1>5. new # NIL => new # <<>> /\ Ready(buf', new) BY <1>1, <1>2, AddKeeps
<1> HIDE DEF new
<1>6. CASE new = NIL
  <2>1. call' = Wild("freedmark") /\ undo_tail' = undo_tail BY <1>3, <1>6 DEF Record
  <2> QED BY <1>3, <1>4, <2>1, WildStep DEF Undefined
<1>7. CASE new # NIL
  <2>1. undo_tail' = new /\ call' = NoCall BY <1>1, <1>3, <1>7 DEF Record
  <2>2. /\ Ready(buf', undo_tail') /\ Good(undo_tail') /\ Sound(Newest', Text(buf'))
    BY <1>5, <1>7, <2>1 DEF Ready, Newest
  <2> QED BY <1>1, <1>3, <1>4, <2>1, <2>2, RestStep DEF UndoInv
<1> QED BY <1>6, <1>7

LEMMA BdeleteStep ==
  ASSUME UndoInv, Restricted, NEW n \in 1 .. MaxDelete, Bdelete(n)
  PROVE  UndoInv'
<1>1. /\ WellFormed(buf) /\ call = NoCall /\ call.op = "none" /\ ~ rewinding
      /\ ~ in_undo /\ Ready(buf, undo_tail) /\ Good(undo_tail)
  BY DEF Bdelete, MayEdit, Idle, Restricted, UndoInv, Resting, NoCall
<1>2. n = 1 BY DEF Restricted
<1> DEFINE new == undo_del(buf, undo_tail, 1)
<1>3. /\ Record(new) /\ in_undo' = in_undo /\ rewinding' = rewinding
      /\ buf' = bdelete_page(buf, buf.curpage, 1) /\ ~ Twins(undo_tail')
  BY <1>1, <1>2 DEF Bdelete, Restricted
<1>4. buf.curchar + 1 <= curplen(buf)
  <2>1. buf.curchar \in Nat /\ curplen(buf) \in Nat BY <1>1, Lengths
  <2>2. 1 <= curplen(buf) - buf.curchar BY <1>2 DEF Bdelete
  <2> QED BY <2>1, <2>2
<1>5. WellFormed(buf') BY <1>1, <1>3, <1>4, Deleted
<1>6. new # NIL /\ ~ Twins(new) => new # <<>> /\ Ready(buf', new)
  BY <1>1, <1>3, <1>4, DelKeeps
<1> HIDE DEF new
<1>7. CASE new = NIL
  <2>1. call' = Wild("freedmark") /\ undo_tail' = undo_tail BY <1>3, <1>7 DEF Record
  <2> QED BY <1>3, <1>5, <2>1, WildStep DEF Undefined
<1>8. CASE new # NIL
  <2>1. undo_tail' = new /\ call' = NoCall BY <1>1, <1>3, <1>8 DEF Record
  <2>2. /\ Ready(buf', undo_tail') /\ Good(undo_tail') /\ Sound(Newest', Text(buf'))
    BY <1>3, <1>6, <1>8, <2>1 DEF Ready, Newest
  <2> QED BY <1>1, <1>3, <1>5, <2>1, <2>2, RestStep DEF UndoInv
<1> QED BY <1>7, <1>8

\* Where the point is moved to, the marks of the records stay where they are.
LEMMA MarkedStays ==
  ASSUME NEW b, NEW r, NEW at, PointAt(b, r, at), NEW u, Marked(b, u)
  PROVE  Marked(r, u)
BY DEF PointAt, Marked

LEMMA MovePointStep ==
  ASSUME UndoInv, MovePoint
  PROVE  UndoInv'
<1>1. /\ WellFormed(buf) /\ call = NoCall /\ call.op = "none" /\ Good(undo_tail)
      /\ undo_tail # <<>> => Sound(Newest, Text(buf))
      /\ ~ rewinding => ~ in_undo /\ Ready(buf, undo_tail)
  BY DEF MovePoint, Idle, UndoInv, Resting, NoCall
<1>2. PICK p \in buf.alive : \E d \in 0 .. plen(buf, p) : buf' = makecur(buf, p, d)
  BY DEF MovePoint
<1>3. PICK d \in 0 .. plen(buf, p) : buf' = makecur(buf, p, d) BY <1>2
<1>4. PointAt(buf, buf', Before(buf, p) + d) BY <1>1, <1>3, PointMoved
<1>5. UNCHANGED <<undo_tail, in_undo, call, rewinding>> BY DEF MovePoint
<1>6. WellFormed(buf') /\ Text(buf') = Text(buf) BY <1>4 DEF PointAt
<1>7. undo_tail # <<>> /\ Marked(buf, Last(undo_tail)) => Marked(buf', Last(undo_tail))
  BY <1>4, MarkedStays
<1>8. ~ rewinding' => ~ in_undo' /\ Ready(buf', undo_tail') BY <1>1, <1>5, <1>6, <1>7 DEF Ready
<1>9. undo_tail' # <<>> => Sound(Newest', Text(buf')) BY <1>1, <1>5, <1>6 DEF Newest
<1> QED BY <1>1, <1>5, <1>6, <1>8, <1>9, RestStep DEF UndoInv

\* do_undo, until its first loop.
LEMMA UndoStartStep ==
  ASSUME UndoInv, Restricted, UndoStart
  PROVE  UndoInv'
<1> DEFINE u == Newest
           b == boffset(buf, u.offset)
<1>1. /\ WellFormed(buf) /\ undo_tail # <<>> /\ Good(undo_tail) /\ Sound(u, Text(buf))
      /\ in_undo \in BOOLEAN /\ rewinding \in BOOLEAN
      /\ UNCHANGED undo_tail /\ in_undo' = TRUE
  BY DEF UndoStart, Idle, UndoInv, Resting, NoCall
<1>2. u \in Undo /\ Fits(u) BY <1>1, FrontGood DEF Newest
<1>3. u.size \in Nat /\ u.data \in Seq(Byte) BY <1>2 DEF Undo
<1>4. /\ u.offset \in 0 .. Len(Text(buf)) /\ (u.insert => u.size \in 0 .. u.offset)
      /\ Undone(u, Text(buf)) = u.before
  BY <1>1 DEF Sound
<1>5. PointAt(buf, b, u.offset) /\ b.curchar \in 0 .. curplen(b)
  BY <1>1, <1>4, BoffsetPlace
<1>6. /\ WellFormed(b) /\ Text(b) = Text(buf) /\ blocation(b) = u.offset
  BY <1>5 DEF PointAt
<1>7. \/ /\ u.insert /\ (Plain => b.curchar >= u.size) /\ buf' = b
         /\ call' = [NoCall EXCEPT !.op = "move", !.left = - u.size] /\ UNCHANGED rewinding
      \/ /\ ~ u.insert /\ buf' = bmrktopnt(b, Tmark)
         /\ call' = [NoCall EXCEPT !.op = "insert", !.left = 1] /\ UNCHANGED rewinding
      \/ /\ buf' = b /\ rewinding' = TRUE /\ UNCHANGED call
  BY <1>5 DEF UndoStart
<1>8. Newest' = u BY <1>1 DEF Newest
<1> HIDE DEF u, b
<1>9. CASE /\ u.insert /\ (Plain => b.curchar >= u.size) /\ buf' = b
           /\ call' = [NoCall EXCEPT !.op = "move", !.left = - u.size] /\ UNCHANGED rewinding
  <2>1. call' \in Call /\ call'.op = "move" /\ call'.left = - u.size
    <3>1. - u.size \in Int BY <1>3
    <3> QED BY <1>9, <3>1 DEF Call, NoCall
  <2>2. Removing' BY <1>1, <1>6, <1>8, <1>9, <2>1 DEF Removing, Restricted
  <2> QED BY <1>1, <1>6, <1>9, <2>1, <2>2 DEF UndoInv, Resting, Restoring
<1>10. CASE /\ ~ u.insert /\ buf' = bmrktopnt(b, Tmark)
            /\ call' = [NoCall EXCEPT !.op = "insert", !.left = 1] /\ UNCHANGED rewinding
  <2>1. call' \in Call /\ call'.op = "insert" /\ call'.left = 1
    <3>1. call' = [NoCall EXCEPT !.op = "insert", !.left = 1] BY <1>10
    <3>2. 1 \in Int OBVIOUS
    <3> QED BY <3>1, <3>2 DEF Call, NoCall
  <2>2. Tmark \in Mark BY TmarkAssumption
  <2>3. b.curpage \in b.alive /\ b.curpage # NIL /\ b.curchar \in Nat /\ b.curchar <= plen(b, b.curpage)
    BY <1>6, Places, Lengths, PageAssumption
  <2>4. /\ WellFormed(buf') /\ Text(buf') = Text(b) /\ blocation(buf') = blocation(b)
        /\ buf'.mpage[Tmark] # NIL
    <3> DEFINE p == b.curpage
               d == b.curchar
    <3>1. buf' = Remarked(b, Tmark, p, d) BY <1>10 DEF bmrktopnt, Remarked
    <3>2. p \in b.alive \cup {NIL} /\ p # NIL /\ d \in Nat /\ d <= plen(b, p) BY <2>3
    <3> HIDE DEF p, d
    <3> QED BY <1>6, <2>2, <3>1, <3>2, MarkSet
  <2>5. Rest(u, Text(buf), u.offset, 1) = u.before
    <3>1. Len(u.data) = u.size BY <1>2, <1>10 DEF Fits
    <3>2. SubSeq(u.data, 1, u.size) = u.data BY <1>3, <3>1, SubSeqFull
    <3>3. Undone(u, Text(buf)) = Spliced(Text(buf), u.offset, u.offset, u.data)
      BY <1>1, <1>3, <1>4, <1>10, Places, UndoneIs DEF Strings
    <3> QED BY <1>4, <3>2, <3>3 DEF Rest
  <2>6. 1 \in 1 .. u.size + 1 BY <1>3
  <2>7. Restoring' BY <1>1, <1>6, <1>8, <1>10, <2>1, <2>4, <2>5, <2>6 DEF Restoring
  <2> QED BY <1>1, <1>10, <2>1, <2>4, <2>7 DEF UndoInv, Resting, Removing
<1>11. CASE buf' = b /\ rewinding' = TRUE /\ UNCHANGED call
  <2>1. call' = NoCall BY <1>11 DEF UndoStart, Idle
  <2>2. Sound(Newest', Text(buf')) BY <1>1, <1>6, <1>8, <1>11
  <2> QED BY <1>1, <1>6, <1>11, <2>1, <2>2, RestStep
<1> QED BY <1>7, <1>9, <1>10, <1>11

\* bmove back to where the insertion starts.
LEMMA UndoMoveStep ==
  ASSUME UndoInv, UndoMove
  PROVE  UndoInv'
<1> DEFINE u == Newest
           d == buf.curchar - u.size
<1>1. /\ WellFormed(buf) /\ Good(undo_tail) /\ undo_tail # <<>> /\ u.insert
      /\ Sound(u, Text(buf)) /\ call \in Call /\ call.left = - u.size
      /\ blocation(buf) = u.offset /\ buf.curchar >= u.size
      /\ in_undo \in BOOLEAN /\ rewinding \in BOOLEAN
      /\ UNCHANGED <<undo_tail, in_undo, rewinding>>
  BY DEF UndoMove, UndoInv, Removing
<1>2. u \in Undo BY <1>1, FrontGood DEF Newest
<1>3. u.size \in Nat BY <1>2 DEF Undo
<1>4. /\ buf.curchar \in Nat /\ curplen(buf) \in Nat /\ buf.curchar <= curplen(buf)
      /\ buf.curpage \in buf.alive /\ buf.curpage \in Page /\ curplen(buf) = plen(buf, buf.curpage)
  BY <1>1, Lengths
<1>5. d \in Nat /\ d \in 0 .. plen(buf, buf.curpage) /\ call.left + buf.curchar = d /\ d <= curplen(buf)
  BY <1>1, <1>3, <1>4
<1>6. /\ buf' = makeoffset(buf, d)
      /\ call' = [[call EXCEPT !.op = "delete", !.left = u.size] EXCEPT !.page = buf.curpage]
  <2>1. MIN(d, curplen(buf)) = d BY <1>4, <1>5 DEF MIN
  <2>2. ~ (d < 0) BY <1>5
  <2> QED BY <1>5, <2>1, <2>2 DEF UndoMove
<1>7. makeoffset(buf, d) = makecur(buf, buf.curpage, d)
  <2>1. buf \in Buffer BY <1>1 DEF WellFormed
  <2> HIDE DEF d
  <2> QED BY <2>1 DEF makeoffset, makecur, Buffer
<1>8. PointAt(buf, buf', Before(buf, buf.curpage) + d) /\ buf'.curpage = buf.curpage /\ buf'.curchar = d
  BY <1>1, <1>4, <1>5, <1>6, <1>7, PointMoved
<1>9. /\ WellFormed(buf') /\ Text(buf') = Text(buf)
      /\ blocation(buf') = Before(buf, buf.curpage) + d /\ curplen(buf') = curplen(buf)
  BY <1>4, <1>8 DEF PointAt, curplen
<1>10. blocation(buf') + u.size = u.offset
  <2>1. Before(buf, buf.curpage) \in Nat BY <1>1, Places
  <2> QED BY <1>1, <1>3, <1>4, <1>9, <2>1 DEF blocation
<1>11. buf'.curchar + u.size <= curplen(buf') BY <1>3, <1>4, <1>8, <1>9
<1>12. /\ call' \in Call /\ call'.op = "delete" /\ call'.left = u.size
       /\ call'.page = buf.curpage
  <2> DEFINE n == u.size
  <2>1. n \in Int BY <1>3
  <2> HIDE DEF n, d
  <2> QED BY <1>1, <1>4, <1>6, <2>1 DEF Call, n
<1>13. Newest' = u BY <1>1 DEF Newest
<1> HIDE DEF u, d
<1>14. Removing' BY <1>1, <1>8, <1>9, <1>10, <1>11, <1>12, <1>13 DEF Removing
<1> QED BY <1>1, <1>9, <1>12, <1>14 DEF UndoInv, Resting, Restoring

\* bdelete of the insertion: the record is done.
LEMMA UndoDeleteStep ==
  ASSUME UndoInv, UndoDelete
  PROVE  UndoInv' /\ Text(buf') = Newest.before
<1> DEFINE u == Newest
           f == Front(undo_tail)
           b == bdelete_page(buf, buf.curpage, u.size)
<1>1. /\ WellFormed(buf) /\ Good(undo_tail) /\ undo_tail # <<>> /\ u.insert
      /\ Sound(u, Text(buf)) /\ call.page = buf.curpage /\ call.left = u.size
      /\ blocation(buf) + u.size = u.offset /\ buf.curchar + u.size <= curplen(buf)
  BY DEF UndoDelete, UndoInv, Removing
<1>2. u \in Undo /\ Good(f) /\ (f # <<>> => Joins(Last(f), u))
  BY <1>1, FrontGood DEF Newest
<1>3. u.size \in Nat BY <1>2 DEF Undo
<1>4. /\ WellFormed(b) /\ Text(b) = Spliced(Text(buf), blocation(buf), blocation(buf) + u.size, Nought)
      /\ bdelete_left(buf, buf.curpage, u.size) = 0
  BY <1>1, <1>3, Deleted
<1>5. undo_tail' = f /\ Finish(b)
  <2>1. buf.curpage \in buf.alive BY <1>1, Places
  <2> QED BY <1>1, <1>4, <2>1 DEF UndoDelete
<1>6. Text(b) = u.before
  <2>1. u.offset \in 0 .. Len(Text(buf)) /\ u.size \in 0 .. u.offset /\ Undone(u, Text(buf)) = u.before
    BY <1>1 DEF Sound
  <2>2. Text(buf) \in Strings /\ blocation(buf) \in Int BY <1>1, Places DEF Strings
  <2>3. Undone(u, Text(buf)) = Spliced(Text(buf), u.offset - u.size, u.offset, Nought)
    BY <1>1, <1>3, <2>1, <2>2, UndoneIs
  <2>4. u.offset - u.size = blocation(buf) BY <1>1, <1>3, <2>2
  <2> QED BY <1>1, <1>4, <2>1, <2>3, <2>4
<1> HIDE DEF u, f, b
<1>7. f # <<>> => Sound(Last(f), Text(b)) BY <1>2, <1>6 DEF Joins
<1>8. undo_tail' # <<>> => Sound(Newest', Text(b)) BY <1>5, <1>7 DEF Newest
<1>9. UndoInv' /\ Text(buf') = Text(b) BY <1>2, <1>4, <1>5, <1>8, FinishStep
<1> QED BY <1>6, <1>9 DEF u

\* binsert puts a byte back.
LEMMA UndoInsertStep ==
  ASSUME UndoInv, MemoryLasts, UndoInsert
  PROVE  UndoInv'
<1> DEFINE u  == Newest
           i  == call.left
           ch == u.data[i]
           z  == <<ch>>
           w  == SubSeq(u.data, i + 1, u.size)
           t  == Text(buf)
           at == blocation(buf)
<1>1. /\ WellFormed(buf) /\ Good(undo_tail) /\ undo_tail # <<>> /\ ~ u.insert
      /\ call \in Call /\ call.op = "insert" /\ i \in 1 .. u.size + 1 /\ i <= u.size
      /\ buf.mpage[Tmark] # NIL /\ Rest(u, t, at, i) = u.before
      /\ in_undo \in BOOLEAN /\ rewinding \in BOOLEAN
      /\ UNCHANGED <<undo_tail, in_undo, rewinding>>
      /\ call' = [call EXCEPT !.left = i + 1]
  BY DEF UndoInsert, UndoInv, Restoring
<1>2. u \in Undo /\ Fits(u) BY <1>1, FrontGood DEF Newest
<1>3. /\ u.size \in Nat /\ u.data \in Seq(Byte) /\ Len(u.data) = u.size
      /\ i \in 1 .. Len(u.data) /\ i \in Int /\ u.size \in i .. Len(u.data)
  <2>1. u.size \in Nat /\ u.data \in Seq(Byte) BY <1>2 DEF Undo
  <2> QED BY <1>1, <1>2, <2>1 DEF Fits
<1>4. ch \in Byte /\ z \in Strings /\ Size(z) = 1
  <2>1. ch \in Byte BY <1>3
  <2> HIDE DEF ch
  <2> QED BY <2>1 DEF Strings, Size
<1>5. PICK q \in Room(buf) : buf' = binsert(buf, ch, q)
  BY <1>1 DEF UndoInsert, MemoryLasts
<1>6. /\ WellFormed(buf') /\ blocation(buf') = at + 1 /\ Text(buf') = Spliced(t, at, at, z)
      /\ \A m \in Mark : buf'.mpage[m] = NIL <=> buf.mpage[m] = NIL
  BY <1>1, <1>4, <1>5, Inserted
<1>7. buf'.mpage[Tmark] # NIL BY <1>1, <1>6, TmarkAssumption
<1>8. Rest(u, Text(buf'), blocation(buf'), i + 1) = u.before
  <2>1. SubSeq(u.data, i, u.size) = Cat(z, w) BY <1>3, SubSeqRecursiveFirst DEF Cat
  <2>2. w \in Strings
    <3>1. i + 1 \in 1 .. u.size + 1 /\ i + 1 \in 1 .. Len(u.data) + 1 /\ u.size \in 0 .. Len(u.data)
      BY <1>1, <1>3
    <3> QED BY <1>3, <3>1, SubSeqBytes DEF Strings
  <2>3. t \in Strings /\ at \in 0 .. Size(t) BY <1>1, Places DEF Strings, Size
  <2> HIDE DEF u, z, w, t, at, i
  <2>4. Spliced(Spliced(t, at, at, z), at + Size(z), at + Size(z), w) = Spliced(t, at, at, Cat(z, w))
    BY <1>4, <2>2, <2>3, PutInTurn
  <2>5. Rest(u, t, at, i) = Spliced(t, at, at, Cat(z, w)) BY <2>1 DEF Rest
  <2>6. Rest(u, Text(buf'), blocation(buf'), i + 1) = Spliced(Spliced(t, at, at, z), at + 1, at + 1, w)
    BY <1>6 DEF Rest, w
  <2> QED BY <1>1, <1>4, <2>4, <2>5, <2>6
<1>9. call' \in Call /\ call'.op = "insert" /\ call'.left = i + 1 /\ i + 1 \in 1 .. u.size + 1
  <2> DEFINE n == i + 1
  <2>1. n \in Int /\ n \in 1 .. u.size + 1 BY <1>1, <1>3
  <2>2. call \in Call /\ call.op = "insert" /\ call' = [call EXCEPT !.left = n] BY <1>1
  <2> HIDE DEF n
  <2>3. call' \in Call /\ call'.op = "insert" /\ call'.left = n BY <2>1, <2>2 DEF Call
  <2> QED BY <2>1, <2>3 DEF n
<1>10. Newest' = u BY <1>1 DEF Newest
<1> HIDE DEF u, i
<1>11. Restoring' BY <1>1, <1>7, <1>8, <1>9, <1>10 DEF Restoring
<1> QED BY <1>1, <1>6, <1>9, <1>11 DEF UndoInv, Resting, Removing

\* The bytes are put back: the record is done, and the next one is of another place.
LEMMA UndoPopStep ==
  ASSUME UndoInv, UndoPop
  PROVE  UndoInv' /\ Text(buf') = Newest.before
<1> DEFINE u == Newest
           f == Front(undo_tail)
           b == bdelmark(bpnttomrk(buf, Tmark), Tmark)
<1>1. /\ WellFormed(buf) /\ Good(undo_tail) /\ undo_tail # <<>> /\ ~ u.insert
      /\ call.left \in 1 .. u.size + 1 /\ call.left > u.size
      /\ buf.mpage[Tmark] # NIL /\ Rest(u, Text(buf), blocation(buf), call.left) = u.before
      /\ undo_tail' = f
  BY DEF UndoPop, UndoInv, Restoring
<1>2. u \in Undo /\ Good(f) /\ (f # <<>> => Joins(Last(f), u))
  BY <1>1, FrontGood DEF Newest
<1>3. Finish(b)
  <2>1. f # <<>> /\ ~ Last(f).insert => Last(f).offset # u.offset BY <1>1, <1>2 DEF Joins
  <2> QED BY <1>1, <2>1 DEF UndoPop
<1>4. Text(buf) = u.before
  <2>1. call.left \in Int /\ u.size \in Int /\ u.size < call.left
    <3>1. u.size \in Nat BY <1>2 DEF Undo
    <3> QED BY <1>1, <3>1
  <2>2. SubSeq(u.data, call.left, u.size) = <<>> BY <2>1, SubSeqEmpty
  <2>3. Text(buf) \in Seq(Byte) /\ blocation(buf) \in 0 .. Len(Text(buf)) BY <1>1, Places
  <2>4. Spliced(Text(buf), blocation(buf), blocation(buf), <<>>) = Text(buf) BY <2>3, SplicedNot
  <2> QED BY <1>1, <2>2, <2>4 DEF Rest
<1>5. WellFormed(b) /\ Text(b) = Text(buf)
  <2> DEFINE p == buf.mpage[Tmark]
             d == buf.moffset[Tmark]
             c == makecur(buf, p, d)
  <2>1. Tmark \in Mark BY TmarkAssumption
  <2>2. p \in buf.alive /\ d \in 0 .. plen(buf, p) BY <1>1, <2>1, Places
  <2>3. b = Remarked(c, Tmark, NIL, 0) BY DEF bdelmark, bpnttomrk, Remarked
  <2> HIDE DEF p, d, c, b
  <2>4. PointAt(buf, c, Before(buf, p) + d) BY <1>1, <2>2, PointMoved DEF c
  <2>5. WellFormed(c) /\ Text(c) = Text(buf) BY <2>4 DEF PointAt
  <2>6. NIL \in c.alive \cup {NIL} /\ 0 \in Nat OBVIOUS
  <2> QED BY <2>1, <2>3, <2>5, <2>6, MarkSet
<1> HIDE DEF u, f, b
<1>6. f # <<>> => Sound(Last(f), Text(b)) BY <1>2, <1>4, <1>5 DEF Joins
<1>7. undo_tail' # <<>> => Sound(Newest', Text(b)) BY <1>1, <1>6 DEF Newest
<1>8. UndoInv' /\ Text(buf') = Text(b) BY <1>1, <1>2, <1>3, <1>5, <1>7, FinishStep
<1> QED BY <1>4, <1>5, <1>8 DEF u

LEMMA UndoStutter == UndoInv /\ UNCHANGED vars => UndoInv'
<1> SUFFICES ASSUME UndoInv, UNCHANGED vars PROVE UndoInv'
  OBVIOUS
<1> QED BY DEF vars, UndoInv, Resting, Removing, Restoring, Ready, Newest

LEMMA UndoNext ==
  ASSUME Restricted, UndoInv, MemoryLasts, [Next]_vars
  PROVE  UndoInv'
<1>1. ASSUME NEW ch \in Byte, Binsert(ch) PROVE UndoInv' BY <1>1, BinsertStep
<1>2. ASSUME NEW n \in 1 .. MaxDelete, Bdelete(n) PROVE UndoInv' BY <1>2, BdeleteStep
<1>3. CASE MovePoint BY <1>3, MovePointStep
<1>4. CASE UndoStart BY <1>4, UndoStartStep
<1>5. CASE UndoMove BY <1>5, UndoMoveStep
<1>6. CASE UndoDelete BY <1>6, UndoDeleteStep
<1>7. CASE UndoInsert BY <1>7, UndoInsertStep
<1>8. CASE UndoPop BY <1>8, UndoPopStep
<1>9. CASE UNCHANGED vars BY <1>9, UndoStutter
<1> QED BY <1>1, <1>2, <1>3, <1>4, <1>5, <1>6, <1>7, <1>8, <1>9 DEF Next

-----------------------------------------------------------------------------
(* The theorems. *)

LEMMA UndoInvariant ==
  ASSUME Restricted
  PROVE  Spec /\ []MemoryLasts => []UndoInv
<1>1. Init => UndoInv BY UndoInit
<1>2. UndoInv /\ MemoryLasts /\ [Next]_vars => UndoInv' BY UndoNext
<1> QED BY <1>1, <1>2, PTL DEF Spec

\* The newest record says exactly how the text differs from what it was when the
\* record was begun: at every page size, for texts, records and lists of every
\* length, and wherever the point is between two calls.
THEOREM NewestRecordIsExact ==
  ASSUME Plain /\ MaxDelete = 1
  PROVE  Spec /\ []MemoryLasts => []RecordExact
<1>1. UndoInv => RecordExact
  <2> SUFFICES ASSUME UndoInv PROVE RecordExact
    OBVIOUS
  <2>1. TypeOK
    <3>1. undo_tail \in Seq(Undo) /\ \A i \in 1 .. Len(undo_tail) : Fits(undo_tail[i])
      BY DEF UndoInv, Good
    <3>2. DOMAIN undo_tail = 1 .. Len(undo_tail) BY <3>1
    <3> QED BY <3>1, <3>2 DEF TypeOK, UndoInv, WellFormed, Fits
  <2>2. Idle /\ undo_tail # <<>> => Sound(Newest, Text(buf))
    BY DEF Idle, NoCall, UndoInv, Resting
  <2> QED BY <2>1, <2>2 DEF RecordExact, Sound
<1>2. Restricted BY DEF Restricted
<1> QED BY <1>1, <1>2, UndoInvariant, PTL

\* Undoing an insertion gives the text back as it was before it.
THEOREM UndoneInsertionIsGone ==
  ASSUME Plain /\ MaxDelete = 1
  PROVE  Spec /\ []MemoryLasts => UndoRemoves
<1> DEFINE Done == call.op = "delete" /\ call' = NoCall => Text(buf') = Newest.before
<1>1. ASSUME UndoInv, [Next]_vars PROVE [Done]_vars
  <2> SUFFICES ASSUME Next, call.op = "delete", call' = NoCall PROVE Text(buf') = Newest.before
    BY <1>1
  <2>1. CASE UndoDelete BY <1>1, <2>1, UndoDeleteStep
  <2>2. CASE ~ UndoDelete
    BY <2>2 DEF Next, Binsert, Bdelete, MayEdit, MovePoint, UndoStart, UndoMove, UndoInsert,
                UndoPop, Idle, NoCall
  <2> QED BY <2>1, <2>2
<1>2. Restricted BY DEF Restricted
<1> QED BY <1>1, <1>2, UndoInvariant, PTL DEF Spec, UndoRemoves

\* Undoing a deletion, or several at one place, gives the text back as it was before it.
THEOREM UndoneDeletionIsBack ==
  ASSUME Plain /\ MaxDelete = 1
  PROVE  Spec /\ []MemoryLasts => UndoBringsBack
<1> DEFINE Done == call.op = "insert" /\ call' = NoCall => Text(buf') = Newest.before
<1>1. ASSUME UndoInv, [Next]_vars PROVE [Done]_vars
  <2> SUFFICES ASSUME Next, call.op = "insert", call' = NoCall PROVE Text(buf') = Newest.before
    BY <1>1
  <2>1. CASE UndoPop BY <1>1, <2>1, UndoPopStep
  <2>2. CASE UndoInsert
    <3>1. call \in Call BY <1>1 DEF UndoInv
    <3>2. call' = [call EXCEPT !.left = call.left + 1] BY <2>2 DEF UndoInsert
    <3>3. call'.op = "insert" BY <3>1, <3>2 DEF Call
    <3> QED BY <3>3 DEF NoCall
  <2>3. CASE ~ UndoPop /\ ~ UndoInsert
    BY <2>3 DEF Next, Binsert, Bdelete, MayEdit, MovePoint, UndoStart, UndoMove, UndoDelete,
                Idle, NoCall
  <2> QED BY <2>1, <2>2, <2>3
<1>2. Restricted BY DEF Restricted
<1> QED BY <1>1, <1>2, UndoInvariant, PTL DEF Spec, UndoBringsBack
=============================================================================
