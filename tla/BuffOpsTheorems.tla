--------------------------- MODULE BuffOpsTheorems ---------------------------
(***************************************************************************)
(* What the operators of module BuffOps preserve, for every PGSIZE, every  *)
(* set of pages, marks and bytes.                                          *)
(***************************************************************************)
EXTENDS BuffOps, TLAPS

\* HALFP cuts a full page in two parts that are not empty.
LEMMA HalfPage == HALFP \in 1 .. PGSIZE - 1
  BY PGSIZEAssumption DEF HALFP

\* The operators that change one page keep the bytes of a page a sequence of
\* bytes, of the length the code computes for plen.
LEMMA SubSeqBytes ==
  ASSUME NEW s \in Seq(Byte), NEW i \in 1 .. Len(s) + 1, NEW j \in 0 .. Len(s)
  PROVE  /\ SubSeq(s, i, j) \in Seq(Byte)
         /\ Len(SubSeq(s, i, j)) = IF i <= j THEN j - i + 1 ELSE 0
  OBVIOUS

\* The two halves of a string.
LEMMA TakeDrop ==
  ASSUME NEW s \in Seq(Byte), NEW i \in 0 .. Len(s)
  PROVE  /\ SubSeq(s, 1, i) \in Seq(Byte) /\ Len(SubSeq(s, 1, i)) = i
         /\ SubSeq(s, i + 1, Len(s)) \in Seq(Byte)
         /\ Len(SubSeq(s, i + 1, Len(s))) = Len(s) - i
<1>1. /\ 1 \in 1 .. Len(s) + 1 /\ i + 1 \in 1 .. Len(s) + 1
      /\ Len(s) \in 0 .. Len(s)
  OBVIOUS
<1> QED BY <1>1, SubSeqBytes

\* The empty string.
LEMMA EmptyBytes == <<>> \in Seq(Byte) /\ Len(<<>>) = 0
  OBVIOUS

\* Two strings put together.
LEMMA ConcatBytes ==
  ASSUME NEW s \in Seq(Byte), NEW t \in Seq(Byte)
  PROVE  s \o t \in Seq(Byte) /\ Len(s \o t) = Len(s) + Len(t)
  OBVIOUS

\* newpage links the page in and changes no other part of the list.
LEMMA NewPage ==
  ASSUME NEW b \in Buffer, Linked(b), Reachable(b), b.curpage \in b.alive,
         NEW q \in Page \ b.alive
  PROVE  LET s == newpage(b, q)
         IN /\ s \in Buffer /\ Linked(s) /\ Reachable(s)
            /\ s.alive = b.alive \cup {q}
            /\ s.curpage = b.curpage /\ s.curchar = b.curchar
            /\ s.mpage = b.mpage /\ s.moffset = b.moffset
            /\ s.data = [b.data EXCEPT ![q] = <<>>]
<1> DEFINE s   == newpage(b, q)
           cur == b.curpage
           nxt == b.nextp[cur]
<1>1. /\ s.alive = b.alive \cup {q}
      /\ s.firstp = b.firstp
      /\ s.lastp = IF nxt = NIL THEN q ELSE b.lastp
      /\ s.nextp = [b.nextp EXCEPT ![q] = nxt, ![cur] = q]
      /\ s.prevp = [p \in Page |->
                      CASE p = q -> cur [] p # q /\ p = nxt -> q [] OTHER -> b.prevp[p]]
      /\ s.data = [b.data EXCEPT ![q] = <<>>]
      /\ s.curpage = b.curpage /\ s.curchar = b.curchar /\ s.bmodf = b.bmodf
      /\ s.mpage = b.mpage /\ s.moffset = b.moffset
      /\ DOMAIN s = DOMAIN b
  BY DEF newpage, Buffer
<1>2. s \in Buffer
  <2>1. s.data \in [Page -> Seq(Byte)]
    BY <1>1, EmptyBytes DEF Buffer
  <2>2. s.nextp \in [Page -> Page \cup {NIL}]
    <3>1. cur \in Page /\ nxt \in Page \cup {NIL} /\ b.nextp \in [Page -> Page \cup {NIL}]
      BY DEF Buffer
    <3>2. [b.nextp EXCEPT ![q] = nxt] \in [Page -> Page \cup {NIL}]
      BY <3>1
    <3> QED BY <1>1, <3>1, <3>2
  <2>3. s.prevp \in [Page -> Page \cup {NIL}]
    BY <1>1 DEF Buffer
  <2>4. s.lastp \in Page /\ s.alive \in SUBSET Page
    BY <1>1 DEF Buffer
  <2> QED BY <1>1, <2>1, <2>2, <2>3, <2>4, PageAssumption DEF newpage, Buffer
<1>3. Linked(s)
  BY <1>1, PageAssumption DEF Linked, Buffer
<1>4. Reachable(s)
  <2> SUFFICES ASSUME NEW S \in SUBSET s.alive, s.firstp \in S,
                      \A p \in S : s.nextp[p] # NIL => s.nextp[p] \in S
               PROVE  S = s.alive
    BY DEF Reachable
  <2> DEFINE T == S \ {q}
  <2>1. T \in SUBSET b.alive
    BY <1>1
  <2>2. b.firstp \in T
    BY <1>1 DEF Linked
  <2>3. ASSUME NEW p \in T, b.nextp[p] # NIL
        PROVE  b.nextp[p] \in T
    <3>1. b.nextp[p] \in b.alive /\ p \in Page /\ p # q
      BY <2>1, <2>3 DEF Linked, Buffer
    <3>2. CASE p = cur
      <4>1. s.nextp[p] = q /\ q \in S
        BY <1>1, <3>2, <3>1, PageAssumption DEF Buffer
      <4>2. s.nextp[q] = b.nextp[p]
        BY <1>1, <3>2, <3>1 DEF Buffer
      <4> QED BY <4>1, <4>2, <2>3, <3>1
    <3>3. CASE p # cur
      <4>1. s.nextp[p] = b.nextp[p]
        BY <1>1, <3>3, <3>1 DEF Buffer
      <4> QED BY <4>1, <2>3, <3>1
    <3> QED BY <3>2, <3>3
  <2>4. T = b.alive
    BY <2>1, <2>2, <2>3 DEF Reachable
  <2>5. s.nextp[cur] = q
    BY <1>1 DEF Buffer
  <2>6. q \in S
    BY <2>4, <2>5, PageAssumption
  <2> QED BY <2>4, <2>6, <1>1
<1> QED BY <1>1, <1>2, <1>3, <1>4

\* freepage unlinks a page that is not the only one and loses no other page.
LEMMA FreePage ==
  ASSUME NEW b \in Buffer, Linked(b), Reachable(b), NEW x \in b.alive,
         b.nextp[x] # NIL \/ b.prevp[x] # NIL
  PROVE  LET s == freepage(b, x)
         IN /\ s \in Buffer /\ Linked(s) /\ Reachable(s)
            /\ s.alive = b.alive \ {x}
            /\ s.curpage = b.curpage /\ s.curchar = b.curchar
            /\ s.mpage = b.mpage /\ s.moffset = b.moffset
            /\ s.data = [b.data EXCEPT ![x] = <<>>]
<1> DEFINE s   == freepage(b, x)
           nxt == b.nextp[x]
           prv == b.prevp[x]
<1>1. /\ s.alive = b.alive \ {x}
      /\ s.firstp = IF prv = NIL THEN nxt ELSE b.firstp
      /\ s.lastp = IF nxt = NIL THEN prv ELSE b.lastp
      /\ s.nextp = [p \in Page |->
                      CASE p = x -> NIL [] p # x /\ p = prv -> nxt [] OTHER -> b.nextp[p]]
      /\ s.prevp = [p \in Page |->
                      CASE p = x -> NIL [] p # x /\ p = nxt -> prv [] OTHER -> b.prevp[p]]
      /\ s.data = [b.data EXCEPT ![x] = <<>>]
      /\ s.curpage = b.curpage /\ s.curchar = b.curchar /\ s.bmodf = b.bmodf
      /\ s.mpage = b.mpage /\ s.moffset = b.moffset
      /\ DOMAIN s = DOMAIN b
  BY DEF freepage, Buffer
<1>2. /\ x \in Page
      /\ nxt # NIL => nxt \in b.alive /\ b.prevp[nxt] = x
      /\ prv # NIL => prv \in b.alive /\ b.nextp[prv] = x
      /\ prv = NIL => x = b.firstp
      /\ nxt = NIL => x = b.lastp
  BY PageAssumption DEF Linked, Buffer
<1>3. s \in Buffer
  <2>1. s.data \in [Page -> Seq(Byte)]
    BY <1>1, <1>2, EmptyBytes DEF Buffer
  <2>2. s.nextp \in [Page -> Page \cup {NIL}]
    BY <1>1, <1>2 DEF Buffer
  <2>3. s.prevp \in [Page -> Page \cup {NIL}]
    BY <1>1, <1>2 DEF Buffer
  <2>4. s.lastp \in Page /\ s.firstp \in Page /\ s.alive \in SUBSET Page
    BY <1>1, <1>2 DEF Buffer
  <2> QED BY <1>1, <2>1, <2>2, <2>3, <2>4, PageAssumption DEF freepage, Buffer
<1>4. Linked(s)
  BY <1>1, <1>2, PageAssumption DEF Linked, Buffer
<1>5. Reachable(s)
  <2> SUFFICES ASSUME NEW S \in SUBSET s.alive, s.firstp \in S,
                      \A p \in S : s.nextp[p] # NIL => s.nextp[p] \in S
               PROVE  S = s.alive
    BY DEF Reachable
  <2>1. CASE prv = NIL \/ prv \in S
    <3> DEFINE T == S \cup {x}
    <3>1. T \in SUBSET b.alive /\ b.firstp \in T
      BY <1>1, <1>2
    <3>2. nxt # NIL => nxt \in T
      <4>1. CASE prv = NIL
        BY <4>1, <1>1
      <4>2. CASE prv \in S
        <5>1. s.nextp[prv] = nxt
          BY <4>2, <1>1, <1>2 DEF Buffer
        <5> QED BY <5>1, <4>2
      <4> QED BY <2>1, <4>1, <4>2
    <3>3. ASSUME NEW p \in T, b.nextp[p] # NIL
          PROVE  b.nextp[p] \in T
      <4>1. CASE p = x
        BY <4>1, <3>2, <3>3
      <4>2. CASE p # x /\ p = prv
        BY <4>2, <3>1, <1>2, PageAssumption DEF Buffer
      <4>3. CASE p # x /\ p # prv
        <5>1. s.nextp[p] = b.nextp[p] /\ p \in S
          BY <4>3, <1>1, <3>1 DEF Buffer
        <5> QED BY <5>1, <3>3
      <4> QED BY <4>1, <4>2, <4>3
    <3>4. T = b.alive
      BY <3>1, <3>3 DEF Reachable
    <3> QED BY <3>4, <1>1
  <2>2. CASE prv # NIL /\ prv \notin S
    <3>1. S \in SUBSET b.alive /\ b.firstp \in S
      BY <2>2, <1>1
    <3>2. ASSUME NEW p \in S, b.nextp[p] # NIL
          PROVE  b.nextp[p] \in S
      <4>1. s.nextp[p] = b.nextp[p]
        BY <2>2, <1>1, <3>1 DEF Buffer
      <4> QED BY <4>1, <3>2
    <3>3. S = b.alive
      BY <3>1, <3>2 DEF Reachable
    <3> QED BY <3>3, <2>2, <1>2
  <2> QED BY <2>1, <2>2
<1> QED BY <1>1, <1>3, <1>4, <1>5

\* pagesplit keeps the buffer well formed wherever the page is cut; a cut that
\* leaves bytes on both sides makes no empty page.
LEMMA PageSplit ==
  ASSUME NEW b, WellFormed(b), NEW q \in Page \ b.alive,
         NEW dist \in 0 .. curplen(b)
  PROVE  LET s == pagesplit(b, q, dist)
         IN /\ WellFormed(s)
            /\ s.alive = b.alive \cup {q}
            /\ s.curpage = IF b.curchar > dist THEN q ELSE b.curpage
            /\ s.curchar = IF b.curchar > dist THEN b.curchar - dist ELSE b.curchar
            /\ plen(s, b.curpage) = dist
            /\ plen(s, q) = curplen(b) - dist
            /\ \A p \in b.alive \ {b.curpage} : plen(s, p) = plen(b, p)
            /\ dist \in 1 .. curplen(b) - 1 /\ NoEmptyPage(b) => NoEmptyPage(s)
<1> DEFINE old   == b.curpage
           n     == newpage(b, q)
           s     == pagesplit(b, q, dist)
           head  == SubSeq(b.data[old], 1, dist)
           tail  == SubSeq(b.data[old], dist + 1, plen(b, old))
           moved == {m \in Mark : b.mpage[m] = old /\ b.moffset[m] >= dist}
<1>1. /\ n \in Buffer /\ Linked(n) /\ Reachable(n)
      /\ n.alive = b.alive \cup {q}
      /\ n.curpage = old /\ n.curchar = b.curchar
      /\ n.mpage = b.mpage /\ n.moffset = b.moffset
      /\ n.data = [b.data EXCEPT ![q] = <<>>]
  BY NewPage DEF WellFormed, PointInside
<1>2. /\ b \in Buffer /\ old \in b.alive /\ old \in Page /\ q \in Page /\ q # old
      /\ b.data[old] \in Seq(Byte) /\ plen(b, old) \in Nat /\ dist \in Nat
      /\ dist <= plen(b, old) /\ b.curchar \in Nat
  BY DEF WellFormed, PointInside, Buffer, curplen, plen
<1>3. /\ head \in Seq(Byte) /\ Len(head) = dist
      /\ tail \in Seq(Byte) /\ Len(tail) = plen(b, old) - dist
  BY <1>2, SubSeqBytes DEF plen
<1>4. /\ s.alive = n.alive /\ s.firstp = n.firstp /\ s.lastp = n.lastp
      /\ s.nextp = n.nextp /\ s.prevp = n.prevp /\ s.bmodf = n.bmodf
      /\ s.data = [n.data EXCEPT ![old] = head, ![q] = tail]
      /\ s.mpage = [m \in Mark |-> IF m \in moved THEN q ELSE b.mpage[m]]
      /\ s.moffset = [m \in Mark |-> IF m \in moved THEN b.moffset[m] - dist ELSE b.moffset[m]]
      /\ s.curpage = IF b.curchar > dist THEN q ELSE old
      /\ s.curchar = IF b.curchar > dist THEN b.curchar - dist ELSE b.curchar
  <2> HIDE DEF n
  <2>1. /\ s = [n EXCEPT
                  !.data    = [n.data EXCEPT ![old] = head, ![q] = tail],
                  !.mpage   = [m \in Mark |-> IF m \in moved THEN q ELSE n.mpage[m]],
                  !.moffset = [m \in Mark |-> IF m \in moved THEN n.moffset[m] - dist ELSE n.moffset[m]],
                  !.curpage = IF b.curchar > dist THEN q ELSE n.curpage,
                  !.curchar = IF b.curchar > dist THEN n.curchar - dist ELSE n.curchar]
    BY DEF pagesplit, n
  <2> HIDE DEF s
  <2> QED BY <2>1, <1>1 DEF Buffer
<1>5. /\ s.data[old] = head /\ s.data[q] = tail
      /\ \A p \in Page \ {old, q} : s.data[p] = b.data[p]
      /\ s.data \in [Page -> Seq(Byte)]
  <2> DEFINE cut == [n.data EXCEPT ![old] = head]
  <2>1. /\ cut \in [Page -> Seq(Byte)] /\ cut[old] = head
        /\ \A p \in Page \ {old, q} : cut[p] = b.data[p]
    BY <1>1, <1>2, <1>3 DEF Buffer
  <2>2. s.data = [cut EXCEPT ![q] = tail]
    BY <1>4
  <2> HIDE DEF s, n, head, tail, cut
  <2> QED BY <2>1, <2>2, <1>2, <1>3
<1>6. plen(s, old) = dist /\ plen(s, q) = plen(b, old) - dist
      /\ \A p \in Page \ {old, q} : plen(s, p) = plen(b, p)
  BY <1>5, <1>3 DEF plen
<1>7. s \in Buffer
  <2>1. s.moffset \in [Mark -> Nat] /\ s.mpage \in [Mark -> Page \cup {NIL}]
    BY <1>2, <1>4 DEF Buffer
  <2>2. s.curchar \in Nat /\ s.curpage \in Page
    BY <1>2, <1>4
  <2> DEFINE dt == s.data
             mp == s.mpage
             mo == s.moffset
             cp == s.curpage
             cc == s.curchar
  <2>3. s = [n EXCEPT !.data = dt, !.mpage = mp, !.moffset = mo,
                      !.curpage = cp, !.curchar = cc]
    <3> HIDE DEF n
    <3> QED BY <1>1, <1>4 DEF pagesplit, n, Buffer
  <2>4. /\ dt \in [Page -> Seq(Byte)] /\ mp \in [Mark -> Page \cup {NIL}]
        /\ mo \in [Mark -> Nat] /\ cp \in Page /\ cc \in Nat
    BY <1>5, <2>1, <2>2
  <2> HIDE DEF s, n, dt, mp, mo, cp, cc
  <2> QED BY <2>3, <2>4, <1>1 DEF Buffer
<1> HIDE DEF s, n
<1>8. Linked(s) /\ Reachable(s)
  BY <1>1, <1>4 DEF Linked, Reachable
<1>9. PagesFit(s)
  <2>1. \A p \in b.alive : p \in Page /\ plen(b, p) <= PGSIZE
    BY <1>2 DEF WellFormed, PagesFit, Buffer
  <2>2. dist <= PGSIZE /\ plen(b, old) - dist <= PGSIZE
    BY <2>1, <1>2, PGSIZEAssumption
  <2>3. ASSUME NEW p \in s.alive
        PROVE  plen(s, p) <= PGSIZE
    BY <2>1, <2>2, <1>1, <1>2, <1>4, <1>6
  <2> QED BY <2>3 DEF PagesFit
<1>10. PointInside(s)
  BY <1>1, <1>2, <1>4, <1>6 DEF WellFormed, PointInside, curplen
<1>11. MarksInside(s)
  <2> SUFFICES ASSUME NEW m \in Mark, s.mpage[m] # NIL
               PROVE  s.mpage[m] \in s.alive /\ s.moffset[m] <= plen(s, s.mpage[m])
    BY DEF MarksInside
  <2>1. b.moffset[m] \in Nat
    BY <1>2 DEF Buffer
  <2>2. CASE m \in moved
    <3>1. b.moffset[m] <= plen(b, old)
      BY <2>2, <1>2, PageAssumption DEF WellFormed, MarksInside
    <3> QED BY <3>1, <2>1, <2>2, <1>1, <1>2, <1>4, <1>6
  <2>3. CASE m \notin moved
    <3>1. /\ s.mpage[m] = b.mpage[m] /\ s.moffset[m] = b.moffset[m]
          /\ b.mpage[m] \in b.alive /\ b.moffset[m] <= plen(b, b.mpage[m])
      BY <2>3, <1>4 DEF WellFormed, MarksInside
    <3>2. b.mpage[m] \in Page /\ b.mpage[m] # q
      BY <3>1, <1>2 DEF Buffer
    <3>3. CASE b.mpage[m] = old
      BY <3>3, <3>1, <2>1, <2>3, <1>1, <1>2, <1>4, <1>6
    <3>4. CASE b.mpage[m] # old
      BY <3>4, <3>1, <3>2, <1>1, <1>4, <1>6
    <3> QED BY <3>3, <3>4
  <2> QED BY <2>2, <2>3
<1>12. ASSUME dist \in 1 .. curplen(b) - 1, NoEmptyPage(b)
       PROVE  NoEmptyPage(s)
  BY <1>12, <1>1, <1>2, <1>4, <1>6 DEF NoEmptyPage, curplen, Buffer
<1>13. \A p \in b.alive \ {old} : plen(s, p) = plen(b, p)
  BY <1>2, <1>6 DEF Buffer
<1> QED
  BY <1>1, <1>4, <1>6, <1>13, <1>7, <1>8, <1>9, <1>10, <1>11, <1>12 DEF WellFormed, s, curplen

\* binsert keeps the buffer well formed, with or without a page split, and makes
\* no empty page.
LEMMA BinsertWellFormed ==
  ASSUME NEW b, WellFormed(b), NEW ch \in Byte, NEW q,
         curplen(b) = PGSIZE => q \in Page \ b.alive
  PROVE  LET r == binsert(b, ch, q)
         IN WellFormed(r) /\ (NoEmptyPage(b) => NoEmptyPage(r))
<1> DEFINE s    == IF curplen(b) = PGSIZE THEN pagesplit(b, q, HALFP) ELSE b
           cur  == s.curpage
           old  == s.data[cur]
           new  == SubSeq(old, 1, s.curchar) \o <<ch>>
                     \o SubSeq(old, s.curchar + 1, Len(old))
           data == [s.data EXCEPT ![cur] = new]
           moffset == [m \in Mark |->
                         IF s.mpage[m] = cur /\ s.moffset[m] >= s.curchar + 1
                         THEN s.moffset[m] + 1 ELSE s.moffset[m]]
           r    == binsert(b, ch, q)
<1>1. /\ WellFormed(s) /\ curplen(s) < PGSIZE
      /\ NoEmptyPage(b) => NoEmptyPage(s)
  <2>1. CASE curplen(b) = PGSIZE
    <3>1. HALFP \in 0 .. curplen(b) /\ HALFP \in 1 .. curplen(b) - 1
      BY <2>1, HalfPage, PGSIZEAssumption
    <3> DEFINE t == pagesplit(b, q, HALFP)
    <3>2. /\ WellFormed(t) /\ (NoEmptyPage(b) => NoEmptyPage(t))
          /\ t.curpage = IF b.curchar > HALFP THEN q ELSE b.curpage
          /\ plen(t, b.curpage) = HALFP /\ plen(t, q) = PGSIZE - HALFP
      BY <2>1, <3>1, PageSplit
    <3> HIDE DEF t
    <3>3. curplen(t) < PGSIZE
      BY <3>2, HalfPage, PGSIZEAssumption DEF curplen
    <3> QED BY <2>1, <3>2, <3>3 DEF t
  <2>2. CASE curplen(b) # PGSIZE
    <3>1. curplen(b) \in Nat /\ curplen(b) <= PGSIZE
      BY DEF WellFormed, Buffer, PagesFit, PointInside, curplen, plen
    <3> QED BY <2>2, <3>1, PGSIZEAssumption
  <2> QED BY <2>1, <2>2
<1>2. r = [s EXCEPT !.data = data, !.curchar = s.curchar + 1, !.bmodf = TRUE,
                    !.moffset = moffset]
  BY DEF binsert
<1> HIDE DEF s, r
<1>3. /\ s \in Buffer /\ cur \in s.alive /\ cur \in Page /\ s.curchar \in Nat
      /\ old \in Seq(Byte) /\ Len(old) = plen(s, cur) /\ s.curchar <= Len(old)
      /\ Len(old) < PGSIZE /\ Len(old) \in Nat
  BY <1>1 DEF WellFormed, Buffer, PointInside, curplen, plen
<1>4. new \in Seq(Byte) /\ Len(new) = Len(old) + 1
  <2> DEFINE head == SubSeq(old, 1, s.curchar)
             tail == SubSeq(old, s.curchar + 1, Len(old))
  <2>1. /\ head \in Seq(Byte) /\ Len(head) = s.curchar
        /\ tail \in Seq(Byte) /\ Len(tail) = Len(old) - s.curchar
    <3>1. /\ 1 \in 1 .. Len(old) + 1 /\ s.curchar \in 0 .. Len(old)
          /\ s.curchar + 1 \in 1 .. Len(old) + 1 /\ Len(old) \in 0 .. Len(old)
      BY <1>3
    <3>2. head \in Seq(Byte) /\ Len(head) = s.curchar
      BY <3>1, <1>3, SubSeqBytes
    <3>3. tail \in Seq(Byte) /\ Len(tail) = Len(old) - s.curchar
      BY <3>1, <1>3, SubSeqBytes
    <3> QED BY <3>2, <3>3
  <2>2. <<ch>> \in Seq(Byte) /\ Len(<<ch>>) = 1
    OBVIOUS
  <2> HIDE DEF head, tail
  <2>3. head \o <<ch>> \in Seq(Byte) /\ Len(head \o <<ch>>) = s.curchar + 1
    BY <2>1, <2>2, ConcatBytes
  <2>4. /\ (head \o <<ch>>) \o tail \in Seq(Byte)
        /\ Len((head \o <<ch>>) \o tail) = Len(old) + 1
    BY <2>1, <2>3, ConcatBytes, <1>3
  <2> QED BY <2>4 DEF head, tail
<1> HIDE DEF new
<1>5. /\ data \in [Page -> Seq(Byte)] /\ data[cur] = new
      /\ \A p \in Page \ {cur} : data[p] = s.data[p]
      /\ moffset \in [Mark -> Nat]
  BY <1>3, <1>4 DEF Buffer
<1>6. r \in Buffer
  <2> DEFINE cc == s.curchar + 1
  <2>1. cc \in Nat
    BY <1>3
  <2>2. r = [s EXCEPT !.data = data, !.curchar = cc, !.bmodf = TRUE,
                      !.moffset = moffset]
    BY <1>2
  <2> HIDE DEF data, moffset, cc
  <2> QED BY <2>1, <2>2, <1>3, <1>5 DEF Buffer
<1>7. /\ r.alive = s.alive /\ r.firstp = s.firstp /\ r.lastp = s.lastp
      /\ r.nextp = s.nextp /\ r.prevp = s.prevp /\ r.mpage = s.mpage
      /\ r.curpage = cur /\ r.curchar = s.curchar + 1
      /\ r.data = data /\ r.moffset = moffset
  BY <1>2, <1>3 DEF Buffer
<1>8. /\ plen(r, cur) = plen(s, cur) + 1
      /\ \A p \in Page \ {cur} : plen(r, p) = plen(s, p)
  BY <1>3, <1>4, <1>5, <1>7 DEF plen
<1>9. Linked(r) /\ Reachable(r)
  BY <1>1, <1>7 DEF WellFormed, Linked, Reachable
<1>10. PagesFit(r)
  <2>1. \A p \in s.alive : p \in Page /\ plen(s, p) <= PGSIZE
    BY <1>1, <1>3 DEF WellFormed, PagesFit, Buffer
  <2>2. plen(s, cur) + 1 <= PGSIZE
    BY <1>3, PGSIZEAssumption
  <2>3. ASSUME NEW p \in r.alive
        PROVE  plen(r, p) <= PGSIZE
    BY <2>1, <2>2, <1>3, <1>7, <1>8
  <2> QED BY <2>3 DEF PagesFit
<1>11. PointInside(r)
  BY <1>3, <1>7, <1>8 DEF PointInside, curplen
<1>12. MarksInside(r)
  <2> SUFFICES ASSUME NEW m \in Mark, r.mpage[m] # NIL
               PROVE  r.mpage[m] \in r.alive /\ r.moffset[m] <= plen(r, r.mpage[m])
    BY DEF MarksInside
  <2>1. /\ s.mpage[m] \in s.alive /\ s.moffset[m] <= plen(s, s.mpage[m])
        /\ s.mpage[m] \in Page /\ s.moffset[m] \in Nat
    BY <1>1, <1>3, <1>7 DEF WellFormed, MarksInside, Buffer
  <2>2. CASE s.mpage[m] = cur
    BY <2>1, <2>2, <1>3, <1>7, <1>8
  <2>3. CASE s.mpage[m] # cur
    BY <2>1, <2>3, <1>7, <1>8
  <2> QED BY <2>2, <2>3
<1>13. NoEmptyPage(b) => NoEmptyPage(r)
  <2> SUFFICES ASSUME NoEmptyPage(b), NEW p \in r.alive, plen(r, p) = 0
               PROVE  r.alive = {p}
    BY DEF NoEmptyPage
  <2>1. p # cur
    BY <1>3, <1>8
  <2>2. p \in Page /\ p \in s.alive
    BY <1>3, <1>7 DEF Buffer
  <2>3. plen(s, p) = 0
    BY <2>1, <2>2, <1>8
  <2> QED BY <2>2, <2>3, <1>1, <1>7 DEF NoEmptyPage
<1> QED BY <1>6, <1>9, <1>10, <1>11, <1>12, <1>13 DEF WellFormed, r

\* A page without neighbours is the only one.
LEMMA OnlyPage ==
  ASSUME NEW b \in Buffer, Linked(b), Reachable(b), NEW p \in b.alive,
         b.nextp[p] = NIL, b.prevp[p] = NIL
  PROVE  b.alive = {p}
<1>1. p = b.firstp
  BY PageAssumption DEF Linked, Buffer
<1>2. {p} \in SUBSET b.alive /\ b.firstp \in {p}
  BY <1>1
<1>3. \A x \in {p} : b.nextp[x] # NIL => b.nextp[x] \in {p}
  OBVIOUS
<1> QED BY <1>2, <1>3 DEF Reachable

\* No page is its own neighbour.
LEMMA NoSelfLoop ==
  ASSUME NEW b \in Buffer, Linked(b), Reachable(b), NEW x \in b.alive
  PROVE  b.nextp[x] # x /\ b.prevp[x] # x
<1>1. x \in Page /\ x # NIL
  BY PageAssumption DEF Buffer
<1>2. b.nextp[x] # x
  <2> SUFFICES ASSUME b.nextp[x] = x
               PROVE  FALSE
    OBVIOUS
  <2>1. b.prevp[x] = x /\ x # b.firstp
    BY <1>1 DEF Linked
  <2> DEFINE S == b.alive \ {x}
  <2>2. S \in SUBSET b.alive /\ b.firstp \in S
    BY <2>1 DEF Linked
  <2>3. ASSUME NEW p \in S, b.nextp[p] # NIL
        PROVE  b.nextp[p] \in S
    <3>1. b.nextp[p] \in b.alive /\ b.prevp[b.nextp[p]] = p
      BY <2>3 DEF Linked
    <3> QED BY <3>1, <2>1
  <2>4. S = b.alive
    BY <2>2, <2>3 DEF Reachable
  <2> QED BY <2>4
<1>3. b.prevp[x] # x
  <2> SUFFICES ASSUME b.prevp[x] = x
               PROVE  FALSE
    OBVIOUS
  <2>1. x # b.firstp
    BY <1>1 DEF Linked
  <2>2. b.nextp[b.prevp[x]] = x
    BY <2>1 DEF Linked
  <2> QED BY <2>2, <1>2
<1> QED BY <1>2, <1>3

\* bdelete's removal of an emptied page: whatever the point was, it and the marks
\* of that page end up in the list, inside a page.
LEMMA DeleteEntirePage ==
  ASSUME NEW b \in Buffer, Linked(b), Reachable(b), PagesFit(b),
         NEW x \in b.alive, b.nextp[x] # NIL \/ b.prevp[x] # NIL,
         \A m \in Mark : b.mpage[m] \notin {NIL, x} =>
           b.mpage[m] \in b.alive /\ b.moffset[m] <= plen(b, b.mpage[m])
  PROVE  LET r == delete_entire_page(b, x)
         IN /\ WellFormed(r)
            /\ r.alive = b.alive \ {x}
            /\ \A p \in r.alive : plen(r, p) = plen(b, p)
            /\ \A m \in Mark : r.mpage[m] = NIL <=> b.mpage[m] = NIL
<1> DEFINE last    == b.nextp[x] = NIL
           tpage   == IF last THEN b.prevp[x] ELSE b.nextp[x]
           noffset == IF last THEN plen(b, tpage) ELSE 0
           moved   == {m \in Mark : b.mpage[m] = x}
           mp      == [m \in Mark |-> IF m \in moved THEN tpage ELSE b.mpage[m]]
           mo      == [m \in Mark |-> IF m \in moved THEN noffset ELSE b.moffset[m]]
           s       == [b EXCEPT !.mpage = mp, !.moffset = mo]
           f       == freepage(s, x)
           r       == delete_entire_page(b, x)
<1>1. r = makecur(f, tpage, noffset)
  BY DEF delete_entire_page, isLast
<1>2. /\ tpage \in b.alive /\ tpage # x /\ tpage \in Page /\ x \in Page
      /\ noffset \in Nat /\ noffset <= plen(b, tpage)
  <2>1. x \in Page /\ b.nextp[x] # x /\ b.prevp[x] # x
    BY NoSelfLoop DEF Buffer
  <2>2. CASE last
    <3>1. b.prevp[x] \in b.alive
      BY <2>2 DEF Linked
    <3>2. b.prevp[x] \in Page /\ plen(b, b.prevp[x]) \in Nat
      BY <3>1 DEF Buffer, plen
    <3> QED BY <2>1, <2>2, <3>1, <3>2
  <2>3. CASE ~ last
    <3>1. b.nextp[x] \in b.alive
      BY <2>3 DEF Linked
    <3>2. b.nextp[x] \in Page /\ plen(b, b.nextp[x]) \in Nat
      BY <3>1 DEF Buffer, plen
    <3> QED BY <2>1, <2>3, <3>1, <3>2
  <2> QED BY <2>2, <2>3
<1> HIDE DEF tpage, noffset, r
<1>3. mp \in [Mark -> Page \cup {NIL}] /\ mo \in [Mark -> Nat]
  BY <1>2 DEF Buffer
<1>4. /\ s \in Buffer
      /\ s.alive = b.alive /\ s.firstp = b.firstp /\ s.lastp = b.lastp
      /\ s.nextp = b.nextp /\ s.prevp = b.prevp /\ s.data = b.data
      /\ s.mpage = mp /\ s.moffset = mo
  <2> HIDE DEF mp, mo
  <2> QED BY <1>3 DEF Buffer
<1> HIDE DEF s
<1>5. Linked(s) /\ Reachable(s)
  BY <1>4 DEF Linked, Reachable
<1>6. /\ f \in Buffer /\ Linked(f) /\ Reachable(f)
      /\ f.alive = b.alive \ {x} /\ f.mpage = mp /\ f.moffset = mo
      /\ f.data = [b.data EXCEPT ![x] = <<>>]
  BY <1>4, <1>5, FreePage
<1> HIDE DEF f, mp, mo
<1>7. /\ r \in Buffer
      /\ r.alive = f.alive /\ r.firstp = f.firstp /\ r.lastp = f.lastp
      /\ r.nextp = f.nextp /\ r.prevp = f.prevp /\ r.data = f.data
      /\ r.mpage = f.mpage /\ r.moffset = f.moffset
      /\ r.curpage = tpage /\ r.curchar = noffset
  BY <1>1, <1>2, <1>6 DEF makecur, Buffer
<1>8. \A p \in r.alive : plen(r, p) = plen(b, p)
  BY <1>6, <1>7 DEF plen, Buffer
<1>9. Linked(r) /\ Reachable(r)
  BY <1>6, <1>7 DEF Linked, Reachable
<1>10. PagesFit(r)
  BY <1>6, <1>7, <1>8 DEF PagesFit
<1>11. PointInside(r)
  BY <1>2, <1>6, <1>7, <1>8 DEF PointInside, curplen
<1>12. MarksInside(r)
  <2> SUFFICES ASSUME NEW m \in Mark, r.mpage[m] # NIL
               PROVE  r.mpage[m] \in r.alive /\ r.moffset[m] <= plen(r, r.mpage[m])
    BY DEF MarksInside
  <2>1. CASE b.mpage[m] = x
    BY <2>1, <1>2, <1>6, <1>7, <1>8 DEF mp, mo
  <2>2. CASE b.mpage[m] # x
    BY <2>2, <1>2, <1>6, <1>7, <1>8 DEF mp, mo
  <2> QED BY <2>1, <2>2
<1>13. \A m \in Mark : r.mpage[m] = NIL <=> b.mpage[m] = NIL
  BY <1>2, <1>6, <1>7, PageAssumption DEF mp
<1> QED
  BY <1>6, <1>7, <1>8, <1>9, <1>10, <1>11, <1>12, <1>13 DEF WellFormed, r

\* One iteration of bdelete's loop keeps the buffer well formed, also when its
\* local page is no longer the point's page, if no mark is about.  On the point's
\* page it makes no empty page.
LEMMA BdeletePage ==
  ASSUME NEW b, WellFormed(b), NEW page \in b.alive, NEW quantity \in Nat,
         page # b.curpage => b.curchar = 0 /\ Mark = {}
  PROVE  LET r == bdelete_page(b, page, quantity)
         IN /\ WellFormed(r)
            /\ page \in r.alive /\ page # r.curpage => r.curchar = 0
            /\ \A m \in Mark : r.mpage[m] = NIL <=> b.mpage[m] = NIL
            /\ page = b.curpage /\ NoEmptyPage(b) => NoEmptyPage(r)
<1> DEFINE cur  == b.curpage
           n    == quan(b, quantity)
           old  == b.data[cur]
           head == SubSeq(old, 1, b.curchar)
           tail == SubSeq(old, b.curchar + n + 1, Len(old))
           cut  == head \o tail
           data == [b.data EXCEPT ![cur] = cut]
           s    == [b EXCEPT !.data = data, !.bmodf = TRUE]
           skip == b.curchar >= Len(cut) /\ ~ isLast(b, page)
           tpage   == IF skip THEN b.nextp[page] ELSE page
           noffset == IF skip THEN 0 ELSE b.curchar
           after   == {m \in Mark : b.mpage[m] = page /\ b.moffset[m] >= b.curchar + n}
           inside  == {m \in Mark : b.mpage[m] = page
                                      /\ b.moffset[m] \in b.curchar .. b.curchar + n - 1}
           mp   == [m \in Mark |-> IF m \in inside THEN tpage ELSE s.mpage[m]]
           mo   == [m \in Mark |-> CASE m \in inside -> noffset
                                     [] m \in after  -> s.moffset[m] - n
                                     [] OTHER        -> s.moffset[m]]
           t    == [s EXCEPT !.mpage = mp, !.moffset = mo]
           gone == cut = <<>> /\ (b.nextp[page] # NIL \/ b.prevp[page] # NIL)
           r    == bdelete_page(b, page, quantity)
           Kept == /\ WellFormed(r)
                   /\ page \in r.alive /\ page # r.curpage => r.curchar = 0
                   /\ \A m \in Mark : r.mpage[m] = NIL <=> b.mpage[m] = NIL
                   /\ page = b.curpage /\ NoEmptyPage(b) => NoEmptyPage(r)
<1>1. r = IF gone THEN delete_entire_page(s, page) ELSE makecur(t, tpage, noffset)
  BY DEF bdelete_page
<1> HIDE DEF r
<1>2. /\ b \in Buffer /\ Linked(b) /\ Reachable(b) /\ PagesFit(b)
      /\ cur \in b.alive /\ cur \in Page /\ page \in Page
      /\ old \in Seq(Byte) /\ Len(old) \in Nat /\ Len(old) = plen(b, cur)
      /\ b.curchar \in Nat /\ b.curchar <= Len(old)
  BY DEF WellFormed, PointInside, Buffer, curplen, plen
<1>3. n \in 0 .. Len(old) - b.curchar
  BY <1>2 DEF quan, MIN, curplen
<1> HIDE DEF n
<1>4. cut \in Seq(Byte) /\ Len(cut) = Len(old) - n
  <2>1. b.curchar \in 0 .. Len(old) /\ b.curchar + n \in 0 .. Len(old)
    BY <1>2, <1>3
  <2>2. head \in Seq(Byte) /\ Len(head) = b.curchar
    BY <2>1, <1>2, TakeDrop
  <2>3. tail \in Seq(Byte) /\ Len(tail) = Len(old) - (b.curchar + n)
    BY <2>1, <1>2, TakeDrop
  <2> HIDE DEF head, tail
  <2>4. cut \in Seq(Byte) /\ Len(cut) = Len(head) + Len(tail)
    BY <2>2, <2>3, ConcatBytes
  <2> HIDE DEF cut
  <2> QED BY <2>2, <2>3, <2>4, <1>2, <1>3
<1> HIDE DEF cut
<1>5. /\ Len(cut) \in Nat /\ b.curchar <= Len(cut)
      /\ cut = <<>> => Len(cut) = 0
      /\ Len(cut) = 0 => cut = <<>>
  BY <1>2, <1>3, <1>4
<1>6. /\ data \in [Page -> Seq(Byte)] /\ data[cur] = cut
      /\ \A p \in Page \ {cur} : data[p] = b.data[p]
  BY <1>2, <1>4 DEF Buffer
<1>7. /\ s \in Buffer
      /\ s.alive = b.alive /\ s.firstp = b.firstp /\ s.lastp = b.lastp
      /\ s.nextp = b.nextp /\ s.prevp = b.prevp /\ s.data = data
      /\ s.mpage = b.mpage /\ s.moffset = b.moffset
  <2> HIDE DEF data
  <2> QED BY <1>2, <1>6 DEF Buffer
<1> HIDE DEF s, data
<1>8. /\ plen(s, cur) = Len(cut)
      /\ \A p \in b.alive \ {cur} : plen(s, p) = plen(b, p)
  BY <1>2, <1>6, <1>7 DEF plen, Buffer
<1>9. Linked(s) /\ Reachable(s)
  BY <1>2, <1>7 DEF Linked, Reachable
<1>10. PagesFit(s)
  <2>1. \A p \in b.alive : plen(b, p) <= PGSIZE
    BY <1>2 DEF PagesFit
  <2>2. Len(cut) <= PGSIZE
    BY <2>1, <1>2, <1>3, <1>4, PGSIZEAssumption
  <2>3. ASSUME NEW p \in s.alive
        PROVE  plen(s, p) <= PGSIZE
    BY <2>1, <2>2, <1>7, <1>8
  <2> QED BY <2>3 DEF PagesFit
<1>11. \A m \in Mark : b.mpage[m] # NIL =>
         /\ b.mpage[m] \in b.alive /\ b.moffset[m] \in Nat
         /\ b.moffset[m] <= plen(b, b.mpage[m])
         /\ page = cur
  BY DEF WellFormed, MarksInside, Buffer
<1>12. ASSUME gone
       PROVE  Kept
  <2>1. \A m \in Mark : s.mpage[m] \notin {NIL, page} =>
          s.mpage[m] \in s.alive /\ s.moffset[m] <= plen(s, s.mpage[m])
    BY <1>7, <1>8, <1>11
  <2>2. /\ WellFormed(r) /\ r.alive = b.alive \ {page}
        /\ \A p \in r.alive : plen(r, p) = plen(s, p)
        /\ \A m \in Mark : r.mpage[m] = NIL <=> b.mpage[m] = NIL
    <3>1. page \in s.alive /\ (s.nextp[page] # NIL \/ s.prevp[page] # NIL)
      BY <1>7, <1>12
    <3> DEFINE e == delete_entire_page(s, page)
    <3>2. /\ WellFormed(e) /\ e.alive = s.alive \ {page}
          /\ \A p \in e.alive : plen(e, p) = plen(s, p)
          /\ \A m \in Mark : e.mpage[m] = NIL <=> s.mpage[m] = NIL
      BY <1>7, <1>9, <1>10, <2>1, <3>1, DeleteEntirePage
    <3>3. r = e
      BY <1>1, <1>12
    <3> HIDE DEF e
    <3> QED BY <3>2, <3>3, <1>7
  <2>3. ASSUME page = cur, NoEmptyPage(b)
        PROVE  NoEmptyPage(r)
    <3>1. ASSUME NEW p \in r.alive, plen(r, p) = 0
          PROVE  FALSE
      <4>1. p \in b.alive /\ p # page /\ plen(b, p) = 0
        BY <2>2, <2>3, <3>1, <1>8
      <4> QED BY <4>1, <2>3 DEF NoEmptyPage
    <3> QED BY <3>1 DEF NoEmptyPage
  <2>4. page \notin r.alive
    BY <2>2
  <2> HIDE DEF gone
  <2> QED BY <2>2, <2>3, <2>4
<1>13. ASSUME ~ gone
       PROVE  Kept
  <2>1. /\ tpage \in b.alive /\ tpage \in Page /\ noffset \in Nat
        /\ skip => noffset = 0 /\ tpage = b.nextp[page]
        /\ ~ skip => noffset = b.curchar /\ tpage = page
    <3>1. skip => b.nextp[page] \in b.alive
      BY <1>2 DEF isLast, Linked
    <3> QED BY <3>1, <1>2 DEF Buffer
  <2>2. skip => tpage # page
    BY <1>2, NoSelfLoop
  <2>3. noffset <= plen(s, tpage)
    <3>1. plen(s, tpage) \in Nat
      BY <2>1, <1>7 DEF Buffer, plen
    <3>2. CASE skip
      BY <2>1, <3>1, <3>2
    <3>3. CASE ~ skip
      BY <2>1, <3>1, <3>3, <1>2, <1>5, <1>8
    <3> QED BY <3>2, <3>3
  <2> HIDE DEF skip, tpage, noffset
  <2>a. ASSUME NEW m \in Mark
        PROVE  /\ m \in inside => mp[m] = tpage /\ mo[m] = noffset
               /\ m \notin inside => mp[m] = b.mpage[m]
               /\ m \in after /\ m \notin inside => mo[m] = b.moffset[m] - n
               /\ m \notin after /\ m \notin inside => mo[m] = b.moffset[m]
    <3> HIDE DEF inside, after
    <3>1. mp[m] = IF m \in inside THEN tpage ELSE b.mpage[m]
      BY <1>7
    <3>2. mo[m] = CASE m \in inside -> noffset
                    [] m \in after  -> b.moffset[m] - n
                    [] OTHER        -> b.moffset[m]
      BY <1>7
    <3> HIDE DEF mp, mo
    <3>3. m \in inside => m \notin after
      <4>1. b.moffset[m] \in Nat
        BY <1>2 DEF Buffer
      <4> QED BY <4>1, <1>2, <1>3 DEF inside, after
    <3> QED BY <3>1, <3>2, <3>3
  <2>b. mp = [m \in Mark |-> mp[m]] /\ mo = [m \in Mark |-> mo[m]]
    OBVIOUS
  <2> HIDE DEF mp, mo
  <2>4. mp \in [Mark -> Page \cup {NIL}]
    <3>1. ASSUME NEW m \in Mark
          PROVE  mp[m] \in Page \cup {NIL}
      <4>1. b.mpage[m] \in Page \cup {NIL}
        BY <1>2 DEF Buffer
      <4> QED BY <4>1, <2>a, <2>1
    <3> QED BY <3>1, <2>b
  <2>5. mo \in [Mark -> Nat]
    <3>1. ASSUME NEW m \in Mark
          PROVE  mo[m] \in Nat
      <4>1. b.moffset[m] \in Nat
        BY <1>2 DEF Buffer
      <4>2. m \in after => b.moffset[m] - n \in Nat
        BY <4>1, <1>2, <1>3
      <4> QED BY <4>1, <4>2, <2>a, <2>1
    <3> QED BY <3>1, <2>b
  <2>6. /\ r \in Buffer
        /\ r.alive = b.alive /\ r.firstp = b.firstp /\ r.lastp = b.lastp
        /\ r.nextp = b.nextp /\ r.prevp = b.prevp /\ r.data = s.data
        /\ r.mpage = mp /\ r.moffset = mo
        /\ r.curpage = tpage /\ r.curchar = noffset
    <3> HIDE DEF mp, mo, gone
    <3>1. r = makecur(t, tpage, noffset)
      BY <1>1, <1>13
    <3> QED BY <3>1, <2>1, <2>4, <2>5, <1>7 DEF makecur, Buffer
  <2>7. \A p \in b.alive : plen(r, p) = plen(s, p)
    BY <2>6 DEF plen
  <2>8. Linked(r) /\ Reachable(r)
    BY <2>6, <1>2 DEF Linked, Reachable
  <2>9. PagesFit(r)
    BY <2>6, <2>7, <1>7, <1>10 DEF PagesFit
  <2>10. PointInside(r)
    BY <2>1, <2>3, <2>6, <2>7 DEF PointInside, curplen
  <2>11. MarksInside(r)
    <3> SUFFICES ASSUME NEW m \in Mark, r.mpage[m] # NIL
                 PROVE  r.mpage[m] \in r.alive /\ r.moffset[m] <= plen(r, r.mpage[m])
      BY DEF MarksInside
    <3>1. CASE m \in inside
      <4>1. r.mpage[m] = tpage /\ r.moffset[m] = noffset
        BY <3>1, <2>a, <2>6
      <4> QED BY <4>1, <2>1, <2>3, <2>6, <2>7
    <3>2. CASE m \notin inside
      <4>1. r.mpage[m] = b.mpage[m] /\ b.mpage[m] # NIL
        BY <3>2, <2>6, <2>a
      <4>2. /\ b.mpage[m] \in b.alive /\ b.moffset[m] \in Nat
            /\ b.moffset[m] <= plen(b, b.mpage[m]) /\ page = cur
        BY <4>1, <1>11
      <4>3. CASE b.mpage[m] # page
        <5>1. r.moffset[m] = b.moffset[m]
          BY <4>3, <3>2, <2>6, <2>a
        <5> QED BY <5>1, <4>1, <4>2, <4>3, <2>6, <2>7, <1>8
      <4>4. CASE b.mpage[m] = page /\ b.moffset[m] >= b.curchar + n
        <5>1. r.moffset[m] = b.moffset[m] - n
          BY <3>2, <4>4, <2>6, <2>a
        <5> QED BY <5>1, <4>1, <4>2, <4>4, <2>6, <2>7, <1>2, <1>3, <1>4, <1>8
      <4>5. CASE b.mpage[m] = page /\ b.moffset[m] < b.curchar
        <5>1. r.moffset[m] = b.moffset[m]
          <6>1. m \notin after
            BY <4>2, <4>5, <1>2, <1>3
          <6> QED BY <6>1, <3>2, <2>6, <2>a
        <5> QED BY <5>1, <4>1, <4>2, <4>5, <2>6, <2>7, <1>2, <1>5, <1>8
      <4> QED BY <4>2, <4>3, <4>4, <4>5, <3>2, <1>2, <1>3
    <3> QED BY <3>1, <3>2
  <2>12. \A m \in Mark : r.mpage[m] = NIL <=> b.mpage[m] = NIL
    BY <2>1, <2>6, <2>a, <1>2, PageAssumption
  <2>13. page \in r.alive /\ page # r.curpage => r.curchar = 0
    BY <2>1, <2>6
  <2>14. ASSUME page = cur, NoEmptyPage(b)
         PROVE  NoEmptyPage(r)
    <3> SUFFICES ASSUME NEW p \in r.alive, plen(r, p) = 0
                 PROVE  r.alive = {p}
      BY DEF NoEmptyPage
    <3>1. p \in b.alive /\ plen(s, p) = 0
      BY <2>6, <2>7
    <3>2. CASE p = cur
      <4>1. cut = <<>>
        BY <3>1, <3>2, <1>5, <1>8
      <4>2. b.nextp[page] = NIL /\ b.prevp[page] = NIL
        BY <4>1, <1>13
      <4> QED BY <4>2, <2>14, <3>2, <2>6, <1>2, OnlyPage
    <3>3. CASE p # cur
      <4>1. plen(b, p) = 0
        BY <3>1, <3>3, <1>8
      <4> QED BY <4>1, <3>1, <2>14, <2>6 DEF NoEmptyPage
    <3> QED BY <3>2, <3>3
  <2> HIDE DEF gone
  <2> QED BY <2>6, <2>8, <2>9, <2>10, <2>11, <2>12, <2>13, <2>14 DEF WellFormed
<1>14. Kept
  <2> HIDE DEF gone, Kept
  <2> QED BY <1>12, <1>13
<1> QED BY <1>14 DEF r

\* A point put inside a page of the list leaves a well formed buffer: makecur and
\* makeoffset, and all that moves the point with them.
LEMMA PointMove ==
  ASSUME NEW b, WellFormed(b), NEW p \in b.alive, NEW d \in Nat, d <= plen(b, p)
  PROVE  LET r == makecur(b, p, d)
         IN /\ WellFormed(r)
            /\ r.alive = b.alive /\ r.data = b.data
            /\ r.mpage = b.mpage /\ r.moffset = b.moffset
            /\ NoEmptyPage(b) => NoEmptyPage(r)
<1> DEFINE r == makecur(b, p, d)
<1>1. /\ r \in Buffer
      /\ r.alive = b.alive /\ r.firstp = b.firstp /\ r.lastp = b.lastp
      /\ r.nextp = b.nextp /\ r.prevp = b.prevp /\ r.data = b.data
      /\ r.mpage = b.mpage /\ r.moffset = b.moffset
      /\ r.curpage = p /\ r.curchar = d
  BY DEF WellFormed, makecur, Buffer
<1> HIDE DEF r
<1>2. \A x \in b.alive : plen(r, x) = plen(b, x)
  BY <1>1 DEF plen
<1>3. Linked(r) /\ Reachable(r) /\ PagesFit(r) /\ PointInside(r) /\ MarksInside(r)
  BY <1>1 DEF WellFormed, Linked, Reachable, PagesFit, PointInside, MarksInside, plen, curplen
<1>4. NoEmptyPage(b) => NoEmptyPage(r)
  BY <1>1, <1>2 DEF NoEmptyPage
<1> QED BY <1>1, <1>3, <1>4 DEF WellFormed, r

\* A mark put inside a page of the list, or taken off buff->marks, leaves a well
\* formed buffer.
LEMMA MarkMove ==
  ASSUME NEW b, WellFormed(b), NEW m \in Mark, NEW p \in b.alive \cup {NIL},
         NEW d \in Nat, p # NIL => d <= plen(b, p)
  PROVE  LET r == [b EXCEPT !.mpage = [@ EXCEPT ![m] = p], !.moffset = [@ EXCEPT ![m] = d]]
         IN WellFormed(r) /\ (NoEmptyPage(b) => NoEmptyPage(r))
<1> DEFINE mp == [b.mpage EXCEPT ![m] = p]
           mo == [b.moffset EXCEPT ![m] = d]
           r  == [b EXCEPT !.mpage = [@ EXCEPT ![m] = p], !.moffset = [@ EXCEPT ![m] = d]]
<1>1. /\ mp \in [Mark -> Page \cup {NIL}] /\ mp[m] = p
      /\ \A x \in Mark \ {m} : mp[x] = b.mpage[x]
  BY DEF WellFormed, Buffer
<1>2. /\ mo \in [Mark -> Nat] /\ mo[m] = d
      /\ \A x \in Mark \ {m} : mo[x] = b.moffset[x]
  BY DEF WellFormed, Buffer
<1>3. r = [b EXCEPT !.mpage = mp, !.moffset = mo]
  BY DEF WellFormed, Buffer
<1> HIDE DEF r, mp, mo
<1>4. /\ r \in Buffer
      /\ r.alive = b.alive /\ r.firstp = b.firstp /\ r.lastp = b.lastp
      /\ r.nextp = b.nextp /\ r.prevp = b.prevp /\ r.data = b.data
      /\ r.mpage = mp /\ r.moffset = mo
      /\ r.curpage = b.curpage /\ r.curchar = b.curchar
  BY <1>1, <1>2, <1>3 DEF WellFormed, Buffer
<1>5. \A x \in b.alive : plen(r, x) = plen(b, x)
  BY <1>4 DEF plen
<1>6. Linked(r) /\ Reachable(r) /\ PagesFit(r) /\ PointInside(r)
  BY <1>4 DEF WellFormed, Linked, Reachable, PagesFit, PointInside, plen, curplen
<1>7. MarksInside(r)
  <2> SUFFICES ASSUME NEW x \in Mark, r.mpage[x] # NIL
               PROVE  r.mpage[x] \in r.alive /\ r.moffset[x] <= plen(r, r.mpage[x])
    BY DEF MarksInside
  <2>1. CASE x = m
    BY <2>1, <1>1, <1>2, <1>4, <1>5
  <2>2. CASE x # m
    BY <2>2, <1>1, <1>2, <1>4, <1>5 DEF WellFormed, MarksInside
  <2> QED BY <2>1, <2>2
<1>8. NoEmptyPage(b) => NoEmptyPage(r)
  BY <1>4, <1>5 DEF NoEmptyPage
<1> QED BY <1>4, <1>6, <1>7, <1>8 DEF WellFormed, r

\* The lengths and offsets of a well formed buffer.
LEMMA Lengths ==
  ASSUME NEW b, WellFormed(b)
  PROVE  /\ b.alive \subseteq Page
         /\ \A p \in Page : plen(b, p) \in Nat
         /\ curplen(b) \in Nat /\ curplen(b) = plen(b, b.curpage)
         /\ b.curchar \in Nat /\ b.curchar <= curplen(b)
         /\ b.curpage \in b.alive /\ b.curpage \in Page
         /\ b.firstp \in b.alive /\ b.lastp \in b.alive
         /\ \A p \in b.alive : ~ isLast(b, p) => b.nextp[p] \in b.alive
         /\ \A p \in b.alive : p # b.firstp => b.prevp[p] \in b.alive
BY DEF WellFormed, PointInside, Linked, Buffer, plen, curplen, isLast

\* The moves of the point that do not loop.
LEMMA SimpleMoves ==
  ASSUME NEW b, WellFormed(b),
         NEW r \in {btostart(b), btoend(b), bmove1(b)}
  PROVE  WellFormed(r) /\ (NoEmptyPage(b) => NoEmptyPage(r))
<1>1. PICK p \in b.alive, d \in Nat : d <= plen(b, p) /\ r = makecur(b, p, d)
  <2>1. CASE r = btostart(b)
    <3>1. b.firstp \in b.alive /\ 0 <= plen(b, b.firstp) /\ r = makecur(b, b.firstp, 0)
      BY <2>1, Lengths DEF btostart
    <3> QED BY <3>1
  <2>2. CASE r = btoend(b)
    <3>1. b.lastp \in b.alive /\ plen(b, b.lastp) \in Nat
      BY Lengths
    <3>2. plen(b, b.lastp) <= plen(b, b.lastp) /\ r = makecur(b, b.lastp, plen(b, b.lastp))
      BY <2>2, <3>1 DEF btoend
    <3> QED BY <3>1, <3>2
  <2>3. CASE r = bmove1(b)
    <3> DEFINE next == b.nextp[b.curpage]
    <3>1. \A d : makeoffset(b, d) = makecur(b, b.curpage, d)
      BY DEF makeoffset, makecur, WellFormed, Buffer
    <3>2. CASE b.curchar + 1 < curplen(b)
      <4>1. r = makecur(b, b.curpage, b.curchar + 1)
        BY <2>3, <3>1, <3>2, Lengths DEF bmove1
      <4> QED BY <4>1, <3>2, Lengths
    <3>3. CASE b.curchar + 1 >= curplen(b) /\ ~ isLast(b, b.curpage)
      <4>1. r = makecur(b, next, 0)
        BY <2>3, <3>3, Lengths DEF bmove1
      <4>2. next \in b.alive /\ next \in Page /\ 0 <= plen(b, next)
        BY <3>3, Lengths
      <4> QED BY <4>1, <4>2
    <3>4. CASE b.curchar + 1 >= curplen(b) /\ isLast(b, b.curpage)
      <4>1. r = makecur(b, b.curpage, curplen(b))
        BY <2>3, <3>1, <3>4, Lengths DEF bmove1
      <4> QED BY <4>1, Lengths
    <3> QED BY <3>2, <3>3, <3>4, Lengths
  <2> QED BY <2>1, <2>2, <2>3
<1> QED BY <1>1, PointMove

\* bempty leaves one empty page, with the point and every mark at its start.
LEMMA BemptyWellFormed ==
  ASSUME NEW b, WellFormed(b)
  PROVE  WellFormed(bempty(b)) /\ NoEmptyPage(bempty(b))
<1> DEFINE nul  == [p \in Page |-> NIL]
           none == [p \in Page |-> <<>>]
           mp   == [m \in Mark |-> IF b.mpage[m] = NIL THEN NIL ELSE b.firstp]
           mo   == [m \in Mark |-> 0]
           r    == bempty(b)
<1>1. /\ nul \in [Page -> Page \cup {NIL}] /\ none \in [Page -> Seq(Byte)]
      /\ mp \in [Mark -> Page \cup {NIL}] /\ mo \in [Mark -> Nat]
      /\ b.firstp \in Page
  BY EmptyBytes DEF WellFormed, Buffer
<1>2. \A m \in Mark : mp[m] \in {NIL, b.firstp} /\ mo[m] = 0
  OBVIOUS
<1>3. \A p \in Page : nul[p] = NIL /\ none[p] = <<>>
  OBVIOUS
<1>4. r = [b EXCEPT !.alive = {b.firstp}, !.lastp = b.firstp, !.nextp = nul,
                    !.prevp = nul, !.data = none, !.curpage = b.firstp,
                    !.curchar = 0, !.mpage = mp, !.moffset = mo]
  BY DEF bempty, WellFormed, Buffer
<1> HIDE DEF nul, none, mp, mo, r
<1>5. /\ r \in Buffer
      /\ r.alive = {b.firstp} /\ r.firstp = b.firstp /\ r.lastp = b.firstp
      /\ r.nextp = nul /\ r.prevp = nul /\ r.data = none
      /\ r.curpage = b.firstp /\ r.curchar = 0
      /\ r.mpage = mp /\ r.moffset = mo
  BY <1>1, <1>4 DEF WellFormed, Buffer
<1>6. plen(r, b.firstp) = 0
  BY <1>1, <1>3, <1>5, EmptyBytes DEF plen
<1>7. Linked(r) /\ Reachable(r)
  BY <1>1, <1>3, <1>5 DEF Linked, Reachable
<1>8. PagesFit(r) /\ PointInside(r)
  BY <1>5, <1>6, PGSIZEAssumption DEF PagesFit, PointInside, curplen
<1>9. MarksInside(r)
  BY <1>2, <1>5, <1>6 DEF MarksInside
<1>10. NoEmptyPage(r)
  BY <1>5 DEF NoEmptyPage
<1> QED BY <1>5, <1>7, <1>8, <1>9, <1>10 DEF WellFormed, r

\* A new buffer is one empty page.
LEMMA BcreateWellFormed ==
  ASSUME NEW q \in Page
  PROVE  WellFormed(bcreate(q)) /\ NoEmptyPage(bcreate(q))
<1> DEFINE nul  == [p \in Page |-> NIL]
           none == [p \in Page |-> <<>>]
           r    == bcreate(q)
<1>1. nul \in [Page -> Page \cup {NIL}] /\ none \in [Page -> Seq(Byte)]
  BY EmptyBytes
<1>2. /\ r \in Buffer
      /\ r.alive = {q} /\ r.firstp = q /\ r.lastp = q
      /\ r.nextp = nul /\ r.prevp = nul /\ r.data = none
      /\ r.curpage = q /\ r.curchar = 0
      /\ \A m \in Mark : r.mpage[m] = NIL
  <2> HIDE DEF nul, none
  <2>1. [m \in Mark |-> NIL] \in [Mark -> Page \cup {NIL}] /\ [m \in Mark |-> 0] \in [Mark -> Nat]
    OBVIOUS
  <2> QED BY <1>1, <2>1 DEF bcreate, Buffer, nul, none
<1> HIDE DEF r
<1>3. plen(r, q) = 0
  BY <1>2, EmptyBytes DEF plen
<1>4. Linked(r) /\ Reachable(r)
  BY <1>2 DEF Linked, Reachable
<1>5. PagesFit(r) /\ PointInside(r) /\ MarksInside(r)
  BY <1>2, <1>3, PGSIZEAssumption DEF PagesFit, PointInside, curplen, MarksInside
<1>6. NoEmptyPage(r)
  BY <1>2 DEF NoEmptyPage
<1> QED BY <1>2, <1>4, <1>5, <1>6 DEF WellFormed, r

-----------------------------------------------------------------------------
(* Where each byte of a buffer is in its text.                             *)

\* The pages are a list; nothing is said of the point and the marks.
Listed(b) == b \in Buffer /\ Linked(b) /\ Reachable(b)

\* The set S holds firstp and the successor of each of its pages.
Followed(b, S) ==
  S \subseteq b.alive /\ b.firstp \in S /\ \A p \in S \ {b.lastp} : b.nextp[p] \in S

\* g counts weight along the list.
Counts(b, weight, g) ==
  /\ g \in [Page -> Nat]
  /\ g[b.firstp] = 0
  /\ \A p \in b.alive \ {b.lastp} : g[b.nextp[p]] = g[p] + weight[p]

\* What holds of firstp and goes from each page to the next holds of every page.
LEMMA AlongTheList ==
  ASSUME NEW b, Listed(b), NEW S, Followed(b, S)
  PROVE  S = b.alive
<1>1. ASSUME NEW p \in S, b.nextp[p] # NIL
      PROVE  b.nextp[p] \in S
  BY <1>1 DEF Listed, Linked, Followed
<1> QED BY <1>1 DEF Listed, Reachable, Followed

\* The links of the list.
LEMMA Links ==
  ASSUME NEW b, Listed(b)
  PROVE  /\ b.alive \subseteq Page /\ b.firstp \in b.alive /\ b.lastp \in b.alive
         /\ b.prevp[b.firstp] = NIL /\ b.nextp[b.lastp] = NIL /\ NIL \notin b.alive
         /\ \A p \in b.alive \ {b.lastp} :
              /\ b.nextp[p] \in b.alive \ {b.firstp} /\ b.prevp[b.nextp[p]] = p
              /\ b.nextp[p] # NIL
         /\ \A p \in b.alive \ {b.firstp} :
              /\ b.prevp[p] \in b.alive \ {b.lastp} /\ b.nextp[b.prevp[p]] = p
BY PageAssumption DEF Listed, Linked, Buffer

\* Part of the list from firstp on, up to page p, with weight counted in g.
Prefix(b, weight, p, I, g) ==
  /\ I \subseteq b.alive /\ b.firstp \in I /\ p \in I
  /\ g \in [Page -> Nat] /\ g[b.firstp] = 0
  /\ \A r \in I \ {b.firstp} :
       b.prevp[r] \in I /\ g[r] = g[b.prevp[r]] + weight[b.prevp[r]]
  /\ \A r \in I \ {p} : r # b.lastp /\ b.nextp[r] \in I

\* A prefix of the list goes on with the next page.
LEMMA PrefixStep ==
  ASSUME NEW b, Listed(b), NEW weight \in [Page -> Nat], NEW p \in b.alive \ {b.lastp},
         NEW I, NEW g, Prefix(b, weight, p, I, g)
  PROVE  Prefix(b, weight, b.nextp[p], I \cup {b.nextp[p]},
                [g EXCEPT ![b.nextp[p]] = g[p] + weight[p]])
<1> DEFINE n == b.nextp[p]
           J == I \cup {n}
           h == [g EXCEPT ![n] = g[p] + weight[p]]
<1>1. n \in b.alive \ {b.firstp} /\ b.prevp[n] = p /\ n \in Page /\ p \in Page
  BY Links
<1>2. n \notin I
  <2> SUFFICES ASSUME n \in I PROVE FALSE
    OBVIOUS
  <2>1. Followed(b, I) BY DEF Prefix, Followed
  <2>2. b.lastp \in I BY <2>1, AlongTheList, Links
  <2> QED BY <2>2 DEF Prefix
<1>3. /\ h \in [Page -> Nat] /\ h[n] = g[p] + weight[p] /\ \A r \in Page \ {n} : h[r] = g[r]
  BY <1>1 DEF Prefix
<1> HIDE DEF n, h
<1>4. I \subseteq Page /\ b.firstp \in Page BY Links DEF Prefix
<1>5. h[b.firstp] = 0 BY <1>1, <1>3, <1>4 DEF Prefix
<1>6. ASSUME NEW r \in J \ {b.firstp}
      PROVE  b.prevp[r] \in J /\ h[r] = h[b.prevp[r]] + weight[b.prevp[r]]
  <2>1. CASE r = n
    BY <2>1, <1>1, <1>2, <1>3, <1>4 DEF Prefix
  <2>2. CASE r # n
    <3>1. r \in I /\ b.prevp[r] \in I /\ g[r] = g[b.prevp[r]] + weight[b.prevp[r]]
      BY <2>2 DEF Prefix
    <3> QED BY <3>1, <2>2, <1>2, <1>3, <1>4
  <2> QED BY <2>1, <2>2
<1>7. ASSUME NEW r \in J \ {n}
      PROVE  r # b.lastp /\ b.nextp[r] \in J
  BY <1>7, <1>1 DEF Prefix, n
<1>8. J \subseteq b.alive /\ b.firstp \in J /\ n \in J BY <1>1 DEF Prefix
<1>9. Prefix(b, weight, n, J, h) BY <1>3, <1>5, <1>6, <1>7, <1>8 DEF Prefix
<1> QED BY <1>9 DEF n, h

\* The recursion of Summed has a value for every list.
LEMMA Summing ==
  ASSUME NEW b, Listed(b), NEW weight \in [Page -> Nat]
  PROVE  /\ Summed(b, weight) \in [Page -> Nat]
         /\ Summed(b, weight)[b.firstp] = 0
         /\ \A p \in b.alive \ {b.firstp} :
              Summed(b, weight)[p] = Summed(b, weight)[b.prevp[p]] + weight[b.prevp[p]]
         /\ Counts(b, weight, Summed(b, weight))
<1> DEFINE S == {p \in b.alive : \E I, g : Prefix(b, weight, p, I, g)}
<1>1. b.firstp \in S
  <2>1. Prefix(b, weight, b.firstp, {b.firstp}, [p \in Page |-> 0])
    BY Links DEF Prefix
  <2> QED BY <2>1, Links
<1>2. ASSUME NEW p \in S \ {b.lastp}
      PROVE  b.nextp[p] \in S
  BY PrefixStep, Links
<1>3. b.lastp \in S
  <2>1. Followed(b, S) BY <1>1, <1>2 DEF Followed
  <2> HIDE DEF S
  <2> QED BY <2>1, AlongTheList, Links
<1>4. PICK I, g : Prefix(b, weight, b.lastp, I, g) BY <1>3
<1>5. I = b.alive
  <2>1. Followed(b, I) BY <1>4 DEF Prefix, Followed
  <2> QED BY <2>1, AlongTheList
<1> DEFINE f == [p \in Page |-> IF p \in b.alive THEN g[p] ELSE 0]
           sum == Summed(b, weight)
<1>6. f = [p \in Page |-> IF p \in b.alive \ {b.firstp} THEN f[b.prevp[p]] + weight[b.prevp[p]] ELSE 0]
  <2>1. ASSUME NEW p \in Page
        PROVE  f[p] = IF p \in b.alive \ {b.firstp} THEN f[b.prevp[p]] + weight[b.prevp[p]] ELSE 0
    BY <1>4, <1>5, Links DEF Prefix
  <2> QED BY <2>1
<1>7. sum = CHOOSE s : s = [p \in Page |-> IF p \in b.alive \ {b.firstp} THEN s[b.prevp[p]] + weight[b.prevp[p]] ELSE 0]
  BY DEF Summed
<1> HIDE DEF f, sum
<1>8. sum = [p \in Page |-> IF p \in b.alive \ {b.firstp} THEN sum[b.prevp[p]] + weight[b.prevp[p]] ELSE 0]
  BY <1>6, <1>7
<1>9. ASSUME NEW p \in Page
      PROVE  sum[p] = IF p \in b.alive \ {b.firstp} THEN sum[b.prevp[p]] + weight[b.prevp[p]] ELSE 0
  BY <1>8
<1>10. sum[b.firstp] = 0 BY <1>9, Links
<1>11. \A p \in b.alive \ {b.firstp} : sum[p] = sum[b.prevp[p]] + weight[b.prevp[p]]
  BY <1>9, Links
<1>12. \A p \in b.alive \ {b.lastp} : sum[b.nextp[p]] = sum[p] + weight[p]
  BY <1>11, Links
<1>13. \A p \in b.alive : sum[p] \in Nat
  <2> DEFINE T == {p \in b.alive : sum[p] \in Nat}
  <2>1. b.firstp \in T BY <1>10, Links
  <2>2. ASSUME NEW p \in T \ {b.lastp} PROVE b.nextp[p] \in T BY <1>12, Links
  <2>3. Followed(b, T) BY <2>1, <2>2 DEF Followed
  <2> HIDE DEF T
  <2>4. T = b.alive BY <2>3, AlongTheList
  <2> QED BY <2>4 DEF T
<1>14. sum \in [Page -> Nat]
  <2>1. \A p \in Page : sum[p] \in Nat BY <1>9, <1>13
  <2> QED BY <1>8, <2>1
<1>15. Counts(b, weight, sum) BY <1>10, <1>12, <1>14 DEF Counts
<1> QED BY <1>10, <1>11, <1>14, <1>15 DEF sum

\* Whatever counts weight along the list is Summed.
LEMMA SummedIs ==
  ASSUME NEW b, Listed(b), NEW weight \in [Page -> Nat], NEW g, Counts(b, weight, g)
  PROVE  \A p \in b.alive : Summed(b, weight)[p] = g[p]
<1> DEFINE sum == Summed(b, weight)
           S   == {p \in b.alive : sum[p] = g[p]}
<1>1. Counts(b, weight, sum) BY Summing
<1> HIDE DEF sum
<1>2. b.firstp \in S BY <1>1, Links DEF Counts
<1>3. ASSUME NEW p \in S \ {b.lastp} PROVE b.nextp[p] \in S
  BY <1>1, Links DEF Counts
<1>4. Followed(b, S) BY <1>2, <1>3 DEF Followed
<1> HIDE DEF S
<1>5. S = b.alive BY <1>4, AlongTheList
<1> QED BY <1>5 DEF S, sum

-----------------------------------------------------------------------------
\* The numbers of bytes in the pages, and the places where the pages begin.
Sizes(b) == [p \in Page |-> plen(b, p)]
Starts(b)  == Summed(b, Sizes(b))

\* The pages have lengths.
LEMMA PageLengths ==
  ASSUME NEW b, Listed(b)
  PROVE  /\ Sizes(b) \in [Page -> Nat]
         /\ \A p \in Page : /\ b.data[p] \in Seq(Byte) /\ plen(b, p) = Len(b.data[p])
                           /\ plen(b, p) \in Nat /\ Sizes(b)[p] = plen(b, p)
BY DEF Listed, Buffer, plen, Sizes

\* A page begins where the one before it ends.
LEMMA Beginnings ==
  ASSUME NEW b, Listed(b)
  PROVE  /\ Counts(b, Sizes(b), Starts(b))
         /\ \A p \in Page : Before(b, p) = Starts(b)[p] /\ Before(b, p) \in Nat
         /\ Before(b, b.firstp) = 0
         /\ \A p \in b.alive \ {b.lastp} : Before(b, b.nextp[p]) = Before(b, p) + plen(b, p)
         /\ \A p \in b.alive \ {b.firstp} :
              Before(b, p) = Before(b, b.prevp[p]) + plen(b, b.prevp[p])
<1>1. Sizes(b) \in [Page -> Nat] BY PageLengths
<1>2. /\ Starts(b) \in [Page -> Nat] /\ Starts(b)[b.firstp] = 0
      /\ Counts(b, Sizes(b), Starts(b))
      /\ \A p \in b.alive \ {b.firstp} :
           Starts(b)[p] = Starts(b)[b.prevp[p]] + Sizes(b)[b.prevp[p]]
  BY <1>1, Summing DEF Starts
<1>3. \A p : Before(b, p) = Starts(b)[p] BY DEF Before, Starts, Sizes
<1>4. \A p \in b.alive \ {b.lastp} : Starts(b)[b.nextp[p]] = Starts(b)[p] + Sizes(b)[p]
  BY <1>2 DEF Counts
<1> QED BY <1>2, <1>3, <1>4, PageLengths, Links

\* Ranks are counted by one.
LEMMA Ranks ==
  ASSUME NEW b, Listed(b)
  PROVE  /\ Rank(b) \in [Page -> Nat] /\ Rank(b)[b.firstp] = 0
         /\ \A p \in b.alive \ {b.lastp} : Rank(b)[b.nextp[p]] = Rank(b)[p] + 1
         /\ \A p \in b.alive \ {b.firstp} : Rank(b)[p] = Rank(b)[b.prevp[p]] + 1
<1> DEFINE w == [p \in Page |-> 1]
<1>1. w \in [Page -> Nat] OBVIOUS
<1>2. Rank(b) = Summed(b, w) BY DEF Rank
<1>3. \A p \in Page : w[p] = 1 OBVIOUS
<1> HIDE DEF w
<1> QED BY <1>1, <1>2, <1>3, Summing, Links DEF Counts

\* No two pages have one rank.
LEMMA RankInjective ==
  ASSUME NEW b, Listed(b), NEW p \in b.alive, NEW r \in b.alive, Rank(b)[p] = Rank(b)[r]
  PROVE  p = r
<1> DEFINE S == {x \in b.alive : \A y \in b.alive : Rank(b)[y] = Rank(b)[x] => y = x}
<1>0. \A x \in b.alive : Rank(b)[x] \in Nat BY Ranks, Links
<1>1. b.firstp \in S
  <2>1. ASSUME NEW y \in b.alive, y # b.firstp PROVE Rank(b)[y] # 0
    BY <1>0, <2>1, Ranks, Links
  <2> QED BY <2>1, Ranks, Links
<1>2. ASSUME NEW x \in S \ {b.lastp} PROVE b.nextp[x] \in S
  <2>1. Rank(b)[b.nextp[x]] = Rank(b)[x] + 1 /\ b.nextp[x] \in b.alive BY Ranks, Links
  <2>2. ASSUME NEW y \in b.alive, Rank(b)[y] = Rank(b)[b.nextp[x]] PROVE y = b.nextp[x]
    <3>1. y # b.firstp BY <1>0, <2>1, <2>2, Ranks
    <3>2. Rank(b)[y] = Rank(b)[b.prevp[y]] + 1 /\ b.prevp[y] \in b.alive
      BY <3>1, Ranks, Links
    <3>3. Rank(b)[b.prevp[y]] = Rank(b)[x] BY <1>0, <2>1, <2>2, <3>2
    <3>4. b.prevp[y] = x BY <3>2, <3>3
    <3> QED BY <3>1, <3>4, Links
  <2> QED BY <2>1, <2>2
<1>3. Followed(b, S) BY <1>1, <1>2 DEF Followed
<1> HIDE DEF S
<1>4. S = b.alive BY <1>3, AlongTheList
<1> QED BY <1>4 DEF S

\* Of two pages one precedes the other.
LEMMA Ordered ==
  ASSUME NEW b, Listed(b), NEW p \in b.alive, NEW r \in b.alive
  PROVE  /\ p # r => Precedes(b, p, r) \/ Precedes(b, r, p)
         /\ ~ (Precedes(b, p, r) /\ Precedes(b, r, p)) /\ ~ Precedes(b, p, p)
<1>1. Rank(b)[p] \in Nat /\ Rank(b)[r] \in Nat BY Ranks, Links
<1> QED BY <1>1, RankInjective DEF Precedes

\* What precedes the next page is the page or precedes it; the page after one
\* that precedes r is r or precedes it.
LEMMA PrecedesNext ==
  ASSUME NEW b, Listed(b), NEW p \in b.alive, NEW r \in b.alive
  PROVE  /\ r # b.lastp =>
              (Precedes(b, p, b.nextp[r]) <=> (p = r \/ Precedes(b, p, r)))
         /\ p # b.lastp =>
              (Precedes(b, p, r) <=> (b.nextp[p] = r \/ Precedes(b, b.nextp[p], r)))
         /\ ~ Precedes(b, p, b.firstp)
<1>1. Rank(b)[p] \in Nat /\ Rank(b)[r] \in Nat BY Ranks, Links
<1>2. ASSUME r # b.lastp
      PROVE  Precedes(b, p, b.nextp[r]) <=> (p = r \/ Precedes(b, p, r))
  <2>1. Rank(b)[b.nextp[r]] = Rank(b)[r] + 1 BY <1>2, Ranks
  <2> QED BY <1>1, <2>1, RankInjective DEF Precedes
<1>3. ASSUME p # b.lastp
      PROVE  Precedes(b, p, r) <=> (b.nextp[p] = r \/ Precedes(b, b.nextp[p], r))
  <2>1. Rank(b)[b.nextp[p]] = Rank(b)[p] + 1 /\ b.nextp[p] \in b.alive BY <1>3, Ranks, Links
  <2> QED BY <1>1, <2>1, RankInjective DEF Precedes
<1>4. ~ Precedes(b, p, b.firstp) BY <1>1, Ranks DEF Precedes
<1> QED BY <1>2, <1>3, <1>4

\* A page ends before the pages that it precedes begin.
LEMMA InOrder ==
  ASSUME NEW b, Listed(b), NEW p \in b.alive, NEW r \in b.alive, Precedes(b, p, r)
  PROVE  Before(b, p) + plen(b, p) <= Before(b, r)
<1> DEFINE S == {x \in b.alive : Precedes(b, p, x) => Before(b, p) + plen(b, p) <= Before(b, x)}
<1>0. \A x \in b.alive : Before(b, x) \in Nat /\ plen(b, x) \in Nat
  BY Beginnings, PageLengths, Links
<1>1. b.firstp \in S BY PrecedesNext, Links
<1>2. ASSUME NEW x \in S \ {b.lastp} PROVE b.nextp[x] \in S
  <2>1. Before(b, b.nextp[x]) = Before(b, x) + plen(b, x) /\ b.nextp[x] \in b.alive
    BY Beginnings, Links
  <2>2. Precedes(b, p, b.nextp[x]) => p = x \/ Precedes(b, p, x) BY PrecedesNext
  <2> QED BY <1>0, <2>1, <2>2
<1>3. Followed(b, S) BY <1>1, <1>2 DEF Followed
<1> HIDE DEF S
<1>4. S = b.alive BY <1>3, AlongTheList
<1> QED BY <1>4 DEF S

\* lastp is behind all other pages.
LEMMA LastIsLast ==
  ASSUME NEW b, Listed(b), NEW p \in b.alive
  PROVE  p = b.lastp \/ Precedes(b, p, b.lastp)
<1> DEFINE S == {x \in b.alive : x = b.lastp \/ Precedes(b, x, b.lastp)}
<1>1. b.firstp \in S BY Ordered, PrecedesNext, Links
<1>2. ASSUME NEW x \in S \ {b.lastp} PROVE b.nextp[x] \in S
  BY PrecedesNext, Links
<1>3. Followed(b, S) BY <1>1, <1>2 DEF Followed
<1> HIDE DEF S
<1>4. S = b.alive BY <1>3, AlongTheList
<1> QED BY <1>4 DEF S

\* The pages are in the text.
LEMMA InText ==
  ASSUME NEW b, Listed(b), NEW p \in b.alive
  PROVE  blength(b) \in Nat /\ Before(b, p) + plen(b, p) <= blength(b)
<1>1. \A x \in b.alive : Before(b, x) \in Nat /\ plen(b, x) \in Nat
  BY Beginnings, PageLengths, Links
<1>2. CASE p = b.lastp BY <1>1, <1>2 DEF blength
<1>3. CASE Precedes(b, p, b.lastp) BY <1>1, <1>3, InOrder, Links DEF blength
<1> QED BY <1>2, <1>3, LastIsLast

\* Every byte of the text is in one page.
LEMMA Covered ==
  ASSUME NEW b, Listed(b), NEW i \in 1 .. blength(b)
  PROVE  \E p \in b.alive : i - Before(b, p) \in 1 .. plen(b, p)
<1> DEFINE S == {x \in b.alive : i <= Before(b, x) + plen(b, x) =>
                    \E p \in b.alive : i - Before(b, p) \in 1 .. plen(b, p)}
<1>0. \A x \in b.alive : Before(b, x) \in Nat /\ plen(b, x) \in Nat
  BY Beginnings, PageLengths, Links
<1>00. blength(b) \in Nat /\ i \in Nat /\ i >= 1 BY InText, Links
<1>1. b.firstp \in S
  <2>1. Before(b, b.firstp) = 0 /\ b.firstp \in b.alive BY Beginnings, Links
  <2> QED BY <1>0, <1>00, <2>1
<1>2. ASSUME NEW x \in S \ {b.lastp} PROVE b.nextp[x] \in S
  <2>1. Before(b, b.nextp[x]) = Before(b, x) + plen(b, x) /\ b.nextp[x] \in b.alive
    BY Beginnings, Links
  <2> QED BY <1>0, <1>00, <2>1
<1>3. Followed(b, S) BY <1>1, <1>2 DEF Followed
<1> HIDE DEF S
<1>4. b.lastp \in S BY <1>3, AlongTheList, Links
<1> QED BY <1>00, <1>4 DEF S, blength

\* t is laid out over the pages, page p from g[p] on.
Laid(b, g, t) ==
  /\ t \in Seq(Byte)
  /\ Len(t) = g[b.lastp] + plen(b, b.lastp)
  /\ \A p \in b.alive : \A i \in 1 .. plen(b, p) : t[g[p] + i] = b.data[p][i]

\* No two pages hold one byte of the text.
LEMMA OneHolder ==
  ASSUME NEW b, Listed(b), NEW p \in b.alive, NEW r \in b.alive, NEW i \in Int,
         i - Before(b, p) \in 1 .. plen(b, p), i - Before(b, r) \in 1 .. plen(b, r)
  PROVE  p = r
<1>0. \A x \in b.alive : Before(b, x) \in Nat /\ plen(b, x) \in Nat
  BY Beginnings, PageLengths, Links
<1>1. CASE Precedes(b, p, r)
  <2>1. Before(b, p) + plen(b, p) <= Before(b, r) BY <1>1, InOrder
  <2> QED BY <1>0, <2>1
<1>2. CASE Precedes(b, r, p)
  <2>1. Before(b, r) + plen(b, r) <= Before(b, p) BY <1>2, InOrder
  <2> QED BY <1>0, <2>1
<1> QED BY <1>1, <1>2, Ordered

\* The text of a buffer is laid out over its pages.
LEMMA TextLaid ==
  ASSUME NEW b, Listed(b)
  PROVE  Laid(b, Starts(b), Text(b)) /\ Len(Text(b)) = blength(b)
<1>0. \A x \in b.alive : /\ Before(b, x) \in Nat /\ plen(b, x) \in Nat
                         /\ Before(b, x) = Starts(b)[x] /\ b.data[x] \in Seq(Byte)
                         /\ plen(b, x) = Len(b.data[x])
  BY Beginnings, PageLengths, Links
<1>1. blength(b) \in Nat BY InText, Links
<1>2. \A i \in 1 .. blength(b) :
        Holder(b, i) \in b.alive /\ i - Before(b, Holder(b, i)) \in 1 .. plen(b, Holder(b, i))
  BY Covered DEF Holder
<1>3. Text(b) \in Seq(Byte) /\ Len(Text(b)) = blength(b)
  <2>1. ASSUME NEW i \in 1 .. blength(b)
        PROVE  b.data[Holder(b, i)][i - Before(b, Holder(b, i))] \in Byte
    BY <1>0, <1>2
  <2> QED BY <1>1, <2>1 DEF Text
<1>4. ASSUME NEW p \in b.alive, NEW i \in 1 .. plen(b, p)
      PROVE  Text(b)[Starts(b)[p] + i] = b.data[p][i]
  <2> DEFINE k == Starts(b)[p] + i
             B == Before(b, p)
  <2>1. B \in Nat /\ plen(b, p) \in Nat /\ B = Starts(b)[p] /\ B + plen(b, p) <= blength(b)
    BY <1>0, InText
  <2>2. k \in 1 .. blength(b) /\ k - B = i /\ k \in Int
    <3> HIDE DEF B
    <3> QED BY <1>1, <2>1
  <2> HIDE DEF k
  <2>3. Holder(b, k) = p BY <1>2, <2>2, OneHolder
  <2>4. Text(b)[k] = b.data[Holder(b, k)][k - Before(b, Holder(b, k))] BY <2>2 DEF Text
  <2> QED BY <2>2, <2>3, <2>4 DEF k
<1>5. Len(Text(b)) = Starts(b)[b.lastp] + plen(b, b.lastp) BY <1>0, <1>3, Links DEF blength
<1> QED BY <1>3, <1>4, <1>5 DEF Laid

\* What counts the bytes along the list and what is laid out over the pages by it
\* are where the pages begin and the text.
LEMMA TextIs ==
  ASSUME NEW b, Listed(b), NEW g, Counts(b, Sizes(b), g), NEW t, Laid(b, g, t)
  PROVE  /\ Text(b) = t
         /\ \A p \in b.alive : Before(b, p) = g[p]
<1>1. \A p \in b.alive : Before(b, p) = g[p] /\ Starts(b)[p] = g[p]
  BY SummedIs, PageLengths, Beginnings, Links DEF Starts
<1>2. Laid(b, Starts(b), Text(b)) BY TextLaid
<1>3. Len(t) = blength(b) /\ Len(Text(b)) = blength(b) /\ t \in Seq(Byte) /\ Text(b) \in Seq(Byte)
  BY <1>1, <1>2, TextLaid, Links DEF Laid, blength
<1>4. ASSUME NEW i \in 1 .. blength(b) PROVE t[i] = Text(b)[i]
  <2>1. PICK p \in b.alive : i - Before(b, p) \in 1 .. plen(b, p) BY Covered
  <2> DEFINE k == i - Before(b, p)
  <2>2. Before(b, p) \in Nat /\ i \in Int BY Beginnings, Links
  <2>3. i = g[p] + k /\ k \in 1 .. plen(b, p) BY <1>1, <2>1, <2>2
  <2> HIDE DEF k
  <2>4. t[g[p] + k] = b.data[p][k] BY <2>3 DEF Laid
  <2>5. Text(b)[Starts(b)[p] + k] = b.data[p][k] BY <1>2, <2>3 DEF Laid
  <2> QED BY <1>1, <2>3, <2>4, <2>5
<1> QED BY <1>1, <1>3, <1>4

-----------------------------------------------------------------------------
\* The links of b and c are the same.
SameLinks(b, c) ==
  /\ c.alive = b.alive /\ c.firstp = b.firstp /\ c.lastp = b.lastp
  /\ c.nextp = b.nextp /\ c.prevp = b.prevp

\* The same links make the same list.
LEMMA StillListed ==
  ASSUME NEW b, Listed(b), NEW c \in Buffer, SameLinks(b, c)
  PROVE  Listed(c)
BY DEF Listed, SameLinks, Linked, Reachable

\* The point, the marks and bmodf are no part of the text.
LEMMA SameText ==
  ASSUME NEW b, Listed(b), NEW c \in Buffer, SameLinks(b, c), c.data = b.data
  PROVE  /\ Listed(c) /\ Text(c) = Text(b)
         /\ \A p \in b.alive : Before(c, p) = Before(b, p) /\ plen(c, p) = plen(b, p)
         /\ \A p, r \in b.alive : Precedes(c, p, r) <=> Precedes(b, p, r)
<1>1. Listed(c) BY StillListed
<1>2. \A p : plen(c, p) = plen(b, p) BY DEF plen
<1>3. Sizes(c) = Sizes(b) BY <1>2 DEF Sizes
<1>4. Counts(c, Sizes(c), Starts(b)) BY <1>3, Beginnings DEF Counts, SameLinks
<1>5. Laid(c, Starts(b), Text(b)) BY <1>2, TextLaid DEF Laid, SameLinks
<1>6. Text(c) = Text(b) /\ \A p \in b.alive : Before(c, p) = Starts(b)[p]
  BY <1>1, <1>4, <1>5, TextIs DEF SameLinks
<1>7. \A p \in b.alive : Rank(c)[p] = Rank(b)[p]
  <2> DEFINE w == [p \in Page |-> 1]
  <2>1. w \in [Page -> Nat] OBVIOUS
  <2>2. Rank(b) = Summed(b, w) /\ Rank(c) = Summed(c, w) BY DEF Rank
  <2> HIDE DEF w
  <2>3. Counts(b, w, Rank(b)) BY <2>1, <2>2, Summing
  <2>4. Counts(c, w, Rank(b)) BY <2>3 DEF Counts, SameLinks
  <2> QED BY <1>1, <2>1, <2>2, <2>4, SummedIs DEF SameLinks
<1> QED BY <1>1, <1>2, <1>6, <1>7, Beginnings, Links DEF Precedes

\* The bytes from + 1 .. to of t replaced by those of z.
Spliced(t, from, to, z) == SubSeq(t, 1, from) \o z \o SubSeq(t, to + 1, Len(t))

\* Where the bytes of a sequence are when a part of it is replaced.
LEMMA SplicedAt ==
  ASSUME NEW t \in Seq(Byte), NEW z \in Seq(Byte), NEW from \in 0 .. Len(t),
         NEW to \in from .. Len(t)
  PROVE  /\ Spliced(t, from, to, z) \in Seq(Byte)
         /\ Len(Spliced(t, from, to, z)) = Len(t) + Len(z) - (to - from)
         /\ \A k \in 1 .. from : Spliced(t, from, to, z)[k] = t[k]
         /\ \A k \in 1 .. Len(z) : Spliced(t, from, to, z)[from + k] = z[k]
         /\ \A k \in to + 1 .. Len(t) :
              Spliced(t, from, to, z)[k - to + from + Len(z)] = t[k]
<1> DEFINE x == SubSeq(t, 1, from)
           y == SubSeq(t, to + 1, Len(t))
           s == x \o z \o y
<1>1. x \in Seq(Byte) /\ Len(x) = from /\ \A k \in 1 .. from : x[k] = t[k] OBVIOUS
<1>2. y \in Seq(Byte) /\ Len(y) = Len(t) - to /\ \A k \in 1 .. Len(t) - to : y[k] = t[to + k]
  OBVIOUS
<1>3. Len(t) \in Nat /\ Len(z) \in Nat /\ from \in Nat /\ to \in Nat OBVIOUS
<1> HIDE DEF x, y
<1>4. s \in Seq(Byte) /\ Len(s) = from + Len(z) + (Len(t) - to)
  <2> DEFINE u == x \o z
  <2>1. u \in Seq(Byte) /\ Len(u) = from + Len(z) BY <1>1, ConcatBytes
  <2>2. s = u \o y OBVIOUS
  <2> HIDE DEF u, s
  <2> QED BY <2>1, <2>2, <1>2, ConcatBytes
<1>5. \A k \in 1 .. from : s[k] = t[k] BY <1>1, <1>2, <1>3
<1>6. \A k \in 1 .. Len(z) : s[from + k] = z[k] BY <1>1, <1>2, <1>3
<1>7. ASSUME NEW k \in to + 1 .. Len(t)
      PROVE  s[k - to + from + Len(z)] = t[k]
  <2> DEFINE i == k - to
             u == x \o z
  <2>1. i \in 1 .. Len(t) - to /\ to + i = k BY <1>3
  <2>2. u \in Seq(Byte) /\ Len(u) = from + Len(z)
    <3> HIDE DEF x
    <3>1. x \o z \in Seq(Byte) /\ Len(x \o z) = Len(x) + Len(z) BY <1>1, ConcatBytes
    <3> QED BY <1>1, <3>1
  <2>3. k - to + from + Len(z) = Len(u) + i BY <1>3, <2>2
  <2> HIDE DEF i, u
  <2>4. (u \o y)[Len(u) + i] = y[i] BY <1>2, <2>1, <2>2
  <2> QED BY <1>2, <2>1, <2>3, <2>4 DEF u
<1>8. Spliced(t, from, to, z) = s BY DEF Spliced, x, y
<1> HIDE DEF s
<1>9. Len(s) = Len(t) + Len(z) - (to - from) BY <1>3, <1>4
<1> QED BY <1>4, <1>5, <1>6, <1>7, <1>8, <1>9

\* It is a string, of that length.
LEMMA SplicedLength ==
  ASSUME NEW t \in Seq(Byte), NEW z \in Seq(Byte), NEW from \in 0 .. Len(t),
         NEW to \in from .. Len(t)
  PROVE  /\ Spliced(t, from, to, z) \in Seq(Byte)
         /\ Len(Spliced(t, from, to, z)) = Len(t) + Len(z) - (to - from)
BY SplicedAt

\* A list whose page cur has its bytes x + 1 .. y replaced by those of z.
Changed(b, c, cur, x, y, z) ==
  SameLinks(b, c) /\ c.data = [b.data EXCEPT ![cur] = Spliced(@, x, y, z)]

\* Where a byte was that is at i behind the z bytes put in place of x + 1 .. y.
LEMMA Behind ==
  ASSUME NEW i \in Int, NEW x \in Nat, NEW y \in Nat, NEW z \in Nat, NEW len \in Nat,
         i > x + z, i <= len + z - (y - x)
  PROVE  LET j == i - x - z + y IN j \in Int /\ j > y /\ j <= len /\ j - y + x + z = i
  OBVIOUS

\* Replacing bytes of a page replaces them in the text; the pages behind it
\* begin earlier or later by as much as its length changes.
LEMMA PageSpliced ==
  ASSUME NEW b, Listed(b), NEW cur \in b.alive,
         NEW x \in 0 .. plen(b, cur), NEW y \in x .. plen(b, cur), NEW z \in Seq(Byte),
         NEW c \in Buffer, Changed(b, c, cur, x, y, z)
  PROVE  /\ Listed(c)
         /\ Text(c) = Spliced(Text(b), Before(b, cur) + x, Before(b, cur) + y, z)
         /\ \A p \in b.alive :
              Before(c, p) = IF Precedes(b, cur, p) THEN Before(b, p) + Len(z) - (y - x)
                             ELSE Before(b, p)
         /\ plen(c, cur) = plen(b, cur) + Len(z) - (y - x)
         /\ \A p \in b.alive \ {cur} : plen(c, p) = plen(b, p)
<1> DEFINE B == Before(b, cur)
           L == plen(b, cur)
           Z == Len(z)
           t == Text(b)
           T == Spliced(t, B + x, B + y, z)
           g == [p \in Page |-> IF p \in b.alive /\ Precedes(b, cur, p)
                                THEN Before(b, p) + Z - (y - x) ELSE Before(b, p)]
<1>1. Listed(c) BY StillListed DEF Changed
<1>2. /\ B \in Nat /\ L \in Nat /\ Z \in Nat /\ x \in Nat /\ y \in Nat /\ x <= y /\ y <= L
      /\ cur \in Page /\ b.data[cur] \in Seq(Byte) /\ L = Len(b.data[cur])
      /\ t \in Seq(Byte) /\ Len(t) \in Nat /\ B + L <= Len(t)
  BY Beginnings, PageLengths, Links, TextLaid, InText DEF Laid
<1>3. \A p \in Page : Before(b, p) \in Nat /\ plen(b, p) \in Nat BY Beginnings, PageLengths
<1>4. \A p \in b.alive : Precedes(b, cur, p) => B + L <= Before(b, p) BY InOrder
<1>5. \A p \in b.alive : g[p] = IF Precedes(b, cur, p) THEN Before(b, p) + Z - (y - x)
                                ELSE Before(b, p)
  BY Links
<1>6. g \in [Page -> Nat]
  <2>1. ASSUME NEW p \in Page, p \in b.alive, Precedes(b, cur, p)
        PROVE  Before(b, p) + Z - (y - x) \in Nat
    <3> DEFINE F == Before(b, p)
    <3>1. B + L <= F /\ F \in Nat BY <1>3, <1>4, <2>1
    <3>2. B \in Nat /\ L \in Nat /\ Z \in Nat /\ x \in Nat /\ y \in Nat /\ y <= L BY <1>2
    <3> HIDE DEF B, L, Z, F
    <3>3. F + Z - (y - x) \in Nat BY <3>1, <3>2
    <3> QED BY <3>3 DEF F
  <2> QED BY <1>3, <2>1
<1>7. /\ c.data[cur] = Spliced(b.data[cur], x, y, z)
      /\ c.data[cur] \in Seq(Byte) /\ plen(c, cur) = L + Z - (y - x)
      /\ \A k \in 1 .. x : c.data[cur][k] = b.data[cur][k]
      /\ \A k \in 1 .. Z : c.data[cur][x + k] = z[k]
      /\ \A k \in y + 1 .. L : c.data[cur][k - y + x + Z] = b.data[cur][k]
  <2>1. c.data[cur] = Spliced(b.data[cur], x, y, z) BY <1>2 DEF Changed, Listed, Buffer
  <2> DEFINE o == b.data[cur]
             n == c.data[cur]
  <2>2. /\ o \in Seq(Byte) /\ x \in 0 .. Len(o) /\ y \in x .. Len(o) /\ n = Spliced(o, x, y, z)
        /\ Len(o) = L /\ plen(c, cur) = Len(n)
    BY <1>2, <2>1 DEF plen
  <2> HIDE DEF o, n, L
  <2>3. /\ n \in Seq(Byte) /\ Len(n) = L + Z - (y - x)
        /\ \A k \in 1 .. x : n[k] = o[k]
        /\ \A k \in 1 .. Z : n[x + k] = z[k]
        /\ \A k \in y + 1 .. Len(o) : n[k - y + x + Z] = o[k]
    BY <2>2, SplicedAt
  <2> QED BY <2>1, <2>2, <2>3 DEF o, n
<1>8. \A p \in Page \ {cur} : c.data[p] = b.data[p] /\ plen(c, p) = plen(b, p)
  BY DEF Changed, Listed, Buffer, plen
<1>9. /\ T \in Seq(Byte) /\ Len(T) = Len(t) + Z - (y - x)
      /\ \A k \in 1 .. B + x : T[k] = t[k]
      /\ \A k \in 1 .. Z : T[B + x + k] = z[k]
      /\ \A k \in B + y + 1 .. Len(t) : T[k - (B + y) + (B + x) + Z] = t[k]
  <2> DEFINE from == B + x
             to   == B + y
  <2> HIDE DEF B, L, t
  <2>1. from \in 0 .. Len(t) /\ to \in from .. Len(t) BY <1>2
  <2>2. to - from = y - x BY <1>2
  <2> HIDE DEF from, to
  <2>3. /\ Spliced(t, from, to, z) \in Seq(Byte)
        /\ Len(Spliced(t, from, to, z)) = Len(t) + Len(z) - (to - from)
        /\ \A k \in 1 .. from : Spliced(t, from, to, z)[k] = t[k]
        /\ \A k \in 1 .. Len(z) : Spliced(t, from, to, z)[from + k] = z[k]
        /\ \A k \in to + 1 .. Len(t) :
             Spliced(t, from, to, z)[k - to + from + Len(z)] = t[k]
    BY <1>2, <2>1, SplicedAt
  <2>4. T = Spliced(t, from, to, z) BY DEF from, to
  <2> QED BY <2>2, <2>3, <2>4 DEF from, to
<1>10. /\ \A p \in b.alive : Before(b, p) = Starts(b)[p]
       /\ \A p \in b.alive : \A i \in 1 .. plen(b, p) : t[Before(b, p) + i] = b.data[p][i]
       /\ Len(t) = Before(b, b.lastp) + plen(b, b.lastp)
  <2>1. \A p \in b.alive : Before(b, p) = Starts(b)[p]
    BY Beginnings, Links
  <2>2. Laid(b, Starts(b), t)
    BY TextLaid
  <2>3. b.lastp \in b.alive
    BY Links
  <2> HIDE DEF t, T, g, B, L, Z
  <2>4. /\ Len(t) = Starts(b)[b.lastp] + plen(b, b.lastp)
        /\ \A p \in b.alive : \A i \in 1 .. plen(b, p) : t[Starts(b)[p] + i] = b.data[p][i]
    BY <2>2 DEF Laid
  <2> QED BY <2>1, <2>3, <2>4
<1>11. Counts(c, Sizes(c), g)
  <2>1. g[c.firstp] = 0
    BY <1>5, PrecedesNext, Beginnings, Links DEF Changed, SameLinks
  <2>2. ASSUME NEW p \in b.alive \ {b.lastp}
        PROVE  g[b.nextp[p]] = g[p] + Sizes(c)[p]
    <3>1. /\ b.nextp[p] \in b.alive /\ Before(b, b.nextp[p]) = Before(b, p) + plen(b, p)
          /\ Precedes(b, cur, b.nextp[p]) <=> (cur = p \/ Precedes(b, cur, p))
      BY PrecedesNext, Beginnings, Links
    <3>2. p \in Page /\ Sizes(c)[p] = plen(c, p) BY Links DEF Sizes
    <3>3. CASE p = cur
      <4>1. g[p] = B /\ g[b.nextp[p]] = B + L + Z - (y - x) /\ plen(c, p) = L + Z - (y - x)
        BY <1>5, <1>7, <3>1, <3>3, Ordered
      <4> HIDE DEF B, L, Z, g
      <4> QED BY <1>2, <3>2, <4>1
    <3>4. CASE p # cur /\ Precedes(b, cur, p)
      <4>1. /\ g[p] = Before(b, p) + Z - (y - x) /\ plen(c, p) = plen(b, p)
            /\ g[b.nextp[p]] = Before(b, p) + plen(b, p) + Z - (y - x)
        BY <1>5, <1>8, <3>1, <3>2, <3>4
      <4>2. Before(b, p) \in Nat /\ plen(b, p) \in Nat BY <1>3, <3>2
      <4> HIDE DEF B, L, Z, g
      <4> QED BY <1>2, <3>2, <4>1, <4>2
    <3>5. CASE p # cur /\ ~ Precedes(b, cur, p)
      BY <1>5, <1>8, <3>1, <3>2, <3>5
    <3> QED BY <3>3, <3>4, <3>5
  <2> HIDE DEF g
  <2> QED BY <1>6, <2>1, <2>2 DEF Counts, Changed, SameLinks
<1>12. Len(T) = g[c.lastp] + plen(c, c.lastp)
  <2>1. c.lastp = b.lastp /\ b.lastp \in b.alive /\ b.lastp \in Page
    BY Links DEF Changed, SameLinks
  <2>2. CASE cur = b.lastp
    <3>1. g[b.lastp] = B /\ plen(c, b.lastp) = L + Z - (y - x) /\ Len(t) = B + L
      BY <1>5, <1>7, <1>10, <2>1, <2>2, Ordered
    <3>2. Len(T) = Len(t) + Z - (y - x) BY <1>9
    <3>3. B \in Nat /\ L \in Nat /\ Z \in Nat /\ x \in Nat /\ y \in Nat BY <1>2
    <3>4. g[c.lastp] = B /\ plen(c, c.lastp) = L + Z - (y - x) BY <2>1, <3>1
    <3> HIDE DEF B, L, Z, g, T, t
    <3> QED BY <3>1, <3>2, <3>3, <3>4
  <2>3. CASE cur # b.lastp
    <3>1. Precedes(b, cur, b.lastp) BY <2>3, LastIsLast
    <3>2. /\ g[b.lastp] = Before(b, b.lastp) + Z - (y - x) /\ plen(c, b.lastp) = plen(b, b.lastp)
          /\ Len(t) = Before(b, b.lastp) + plen(b, b.lastp)
      BY <1>5, <1>8, <1>10, <2>1, <2>3, <3>1
    <3>3. Before(b, b.lastp) \in Nat /\ plen(b, b.lastp) \in Nat BY <1>3, <2>1
    <3> HIDE DEF B, L, Z, g, T
    <3> QED BY <1>2, <1>9, <2>1, <3>2, <3>3
  <2> QED BY <2>2, <2>3
<1>13. ASSUME NEW p \in b.alive, NEW i \in 1 .. plen(c, p)
       PROVE  T[g[p] + i] = c.data[p][i]
  <2> DEFINE F == Before(b, p)
             k == F + i
  <2>1. p \in Page /\ F \in Nat /\ plen(b, p) \in Nat /\ i \in Int /\ F + plen(b, p) <= Len(t)
    BY <1>3, Links, InText, TextLaid
  <2>2. CASE p # cur /\ ~ Precedes(b, cur, p)
    <3>1. Precedes(b, p, cur) BY <2>2, Ordered
    <3>2. F + plen(b, p) <= B BY <3>1, InOrder
    <3>3. plen(c, p) = plen(b, p) /\ c.data[p][i] = b.data[p][i] /\ g[p] = F
      BY <1>5, <1>8, <2>1, <2>2
    <3>4. k \in 1 .. B + x
      <4> DEFINE M == plen(b, p)
      <4>1. i \in 1 .. M /\ M \in Nat /\ F + M <= B BY <2>1, <3>2, <3>3
      <4>2. B \in Nat /\ x \in Nat /\ F \in Nat BY <1>2, <2>1
      <4> HIDE DEF F, B, M
      <4> QED BY <4>1, <4>2
    <3>5. t[F + i] = b.data[p][i] BY <1>10, <3>3
    <3> HIDE DEF T, t, g
    <3> QED BY <1>9, <3>3, <3>4, <3>5
  <2>3. CASE p # cur /\ Precedes(b, cur, p)
    <3>1. B + L <= F BY <1>4, <2>3
    <3>2. plen(c, p) = plen(b, p) /\ c.data[p][i] = b.data[p][i] /\ g[p] = F + Z - (y - x)
      BY <1>5, <1>8, <2>1, <2>3
    <3>3. k \in B + y + 1 .. Len(t) /\ k - (B + y) + (B + x) + Z = g[p] + i
      <4>1. x \in Nat /\ y \in Nat /\ B \in Nat /\ L \in Nat /\ Z \in Nat /\ y <= L /\ Len(t) \in Nat
        BY <1>2
      <4> DEFINE N == Len(t)
                 P == plen(b, p)
      <4>2. F + P <= N /\ F \in Nat /\ i \in 1 .. P /\ P \in Nat /\ N \in Nat
        BY <2>1, <3>2, <4>1
      <4>3. g[p] = F + Z - (y - x) BY <3>2
      <4> HIDE DEF F, B, L, Z, g, N, P
      <4>4. k \in B + y + 1 .. N BY <3>1, <4>1, <4>2
      <4>5. k - (B + y) + (B + x) + Z = g[p] + i BY <4>1, <4>2, <4>3
      <4> QED BY <4>4, <4>5 DEF N
    <3>4. t[F + i] = b.data[p][i] BY <1>10, <3>2
    <3>5. T[k - (B + y) + (B + x) + Z] = t[k]
      <4> HIDE DEF T, t, k
      <4> QED BY <1>9, <3>3
    <3> HIDE DEF T, t, g
    <3> QED BY <3>2, <3>3, <3>4, <3>5
  <2>4. CASE p = cur
    <3>1. g[p] = B /\ c.data[p] = c.data[cur] /\ i \in 1 .. L + Z - (y - x)
      BY <1>5, <1>7, <2>4, Ordered
    <3>2. CASE i <= x
      <4>1. B + i \in 1 .. B + x /\ i \in 1 .. x /\ i \in 1 .. L
        <5>1. /\ B \in Nat /\ L \in Nat /\ x \in Nat /\ y \in Nat /\ x <= y /\ y <= L
              /\ i \in Int /\ i >= 1
          BY <1>2, <2>1
        <5> HIDE DEF B, L
        <5> QED BY <3>2, <5>1
      <4>2. t[B + i] = b.data[cur][i] BY <1>10, <4>1
      <4>3. T[B + i] = t[B + i]
        <5> HIDE DEF T, t, B
        <5> QED BY <1>9, <4>1
      <4>4. c.data[cur][i] = b.data[cur][i] BY <1>7, <4>1
      <4> HIDE DEF T, t, g
      <4> QED BY <3>1, <4>2, <4>3, <4>4
    <3>3. CASE i > x /\ i <= x + Z
      <4> DEFINE j == i - x
      <4>1. j \in 1 .. Z /\ x + j = i /\ B + x + j = B + i
        <5> HIDE DEF B, L, Z
        <5> QED BY <1>2, <2>1, <3>3
      <4> HIDE DEF j
      <4>2. T[B + x + j] = z[j]
        <5> HIDE DEF T, t, B
        <5> QED BY <1>9, <4>1
      <4>3. c.data[cur][x + j] = z[j] BY <1>7, <4>1
      <4> HIDE DEF T, t, g
      <4> QED BY <3>1, <4>1, <4>2, <4>3
    <3>4. CASE i > x + Z
      <4> DEFINE j == i - x - Z + y
                 h == B + j
      <4>1. /\ j \in y + 1 .. L /\ j - y + x + Z = i /\ h \in B + y + 1 .. Len(t)
            /\ h - (B + y) + (B + x) + Z = B + i /\ j \in 1 .. L
        <5> DEFINE N == Len(t)
        <5>1. /\ x \in Nat /\ y \in Nat /\ B \in Nat /\ L \in Nat /\ Z \in Nat /\ y <= L
              /\ N \in Nat /\ B + L <= N /\ i \in Int /\ i <= L + Z - (y - x)
          BY <1>2, <2>1, <3>1
        <5> HIDE DEF B, L, Z, N
        <5>2. j \in Int /\ j > y /\ j <= L /\ j - y + x + Z = i BY <3>4, <5>1, Behind
        <5> HIDE DEF j
        <5>3. j \in y + 1 .. L /\ j \in 1 .. L BY <5>1, <5>2
        <5>4. h \in B + y + 1 .. N BY <5>1, <5>2
        <5>5. h - (B + y) + (B + x) + Z = B + i BY <5>1, <5>2
        <5> QED BY <5>2, <5>3, <5>4, <5>5 DEF N
      <4> HIDE DEF j
      <4>2. t[B + j] = b.data[cur][j] BY <1>10, <4>1
      <4>3. T[h - (B + y) + (B + x) + Z] = t[h]
        <5> HIDE DEF T, t, B, h
        <5> QED BY <1>9, <4>1
      <4>4. c.data[cur][j - y + x + Z] = b.data[cur][j] BY <1>7, <4>1
      <4> HIDE DEF T, t, g
      <4> QED BY <3>1, <4>1, <4>2, <4>3, <4>4
    <3> HIDE DEF T, t, g, Z, L, B
    <3> QED BY <1>2, <2>1, <3>2, <3>3, <3>4
  <2> QED BY <2>2, <2>3, <2>4
<1>14. Laid(c, g, T)
  <2> HIDE DEF T, g
  <2> QED BY <1>9, <1>12, <1>13 DEF Laid, Changed, SameLinks
<1>15. Text(c) = T /\ \A p \in b.alive : Before(c, p) = g[p]
  <2> HIDE DEF T, g
  <2> QED BY <1>1, <1>11, <1>14, TextIs DEF Changed, SameLinks
<1>16. \A p \in b.alive \ {cur} : plen(c, p) = plen(b, p) BY <1>8, Links
<1> QED BY <1>1, <1>5, <1>7, <1>15, <1>16

\* A list whose point's page has its bytes from dist on in a new page q after it.
Parted(b, c, q, dist) ==
  /\ c.alive = b.alive \cup {q} /\ c.firstp = b.firstp
  /\ c.lastp = (IF b.nextp[b.curpage] = NIL THEN q ELSE b.lastp)
  /\ c.nextp = [b.nextp EXCEPT ![q] = b.nextp[b.curpage], ![b.curpage] = q]
  /\ c.data[b.curpage] = SubSeq(b.data[b.curpage], 1, dist)
  /\ c.data[q] = SubSeq(b.data[b.curpage], dist + 1, curplen(b))
  /\ \A p \in b.alive \ {b.curpage} : c.data[p] = b.data[p]

\* Cutting a page in two leaves the text as it is.
LEMMA PageParted ==
  ASSUME NEW b, Listed(b), b.curpage \in b.alive, NEW q \in Page \ b.alive,
         NEW dist \in 0 .. curplen(b), NEW c, Listed(c), Parted(b, c, q, dist)
  PROVE  /\ Text(c) = Text(b)
         /\ \A p \in b.alive : Before(c, p) = Before(b, p)
         /\ Before(c, q) = Before(b, b.curpage) + dist
         /\ plen(c, b.curpage) = dist /\ plen(c, q) = curplen(b) - dist
         /\ \A p \in b.alive \ {b.curpage} : plen(c, p) = plen(b, p)
<1> DEFINE cur == b.curpage
           o   == b.data[cur]
           L   == plen(b, cur)
           g   == [p \in Page |-> IF p = q THEN Before(b, cur) + dist ELSE Before(b, p)]
<1>1. /\ cur \in Page /\ cur \in b.alive /\ o \in Seq(Byte) /\ L = Len(o) /\ L \in Nat /\ dist \in 0 .. L
      /\ curplen(b) = L /\ q # cur /\ q \in Page /\ b.alive \subseteq Page /\ dist \in Nat
      /\ b.nextp \in [Page -> Page \cup {NIL}]
  <2>1. b.nextp \in [Page -> Page \cup {NIL}] BY DEF Listed, Buffer
  <2>2. curplen(b) = L BY DEF curplen
  <2> QED BY <2>1, <2>2, PageLengths, Links
<1>2. /\ plen(c, cur) = dist /\ plen(c, q) = L - dist
      /\ \A i \in 1 .. dist : c.data[cur][i] = o[i]
      /\ \A i \in 1 .. L - dist : c.data[q][i] = o[dist + i]
  <2>1. c.data[cur] = SubSeq(o, 1, dist) /\ c.data[q] = SubSeq(o, dist + 1, Len(o))
    BY <1>1 DEF Parted
  <2> HIDE DEF o, L
  <2> QED BY <1>1, <2>1 DEF plen
<1>3. \A p \in b.alive \ {cur} : plen(c, p) = plen(b, p) /\ c.data[p] = b.data[p]
  BY DEF Parted, plen
<1>4. \A p \in Page : Before(b, p) \in Nat BY Beginnings
<1>5. g \in [Page -> Nat] BY <1>1, <1>4
<1>6. g[q] = Before(b, cur) + dist /\ \A p \in b.alive : g[p] = Before(b, p) BY <1>1
<1> HIDE DEF g
<1>7. Counts(c, Sizes(c), g)
  <2>1. g[c.firstp] = 0 BY <1>6, Beginnings, Links DEF Parted
  <2>2. ASSUME NEW p \in c.alive \ {c.lastp}
        PROVE  g[c.nextp[p]] = g[p] + Sizes(c)[p]
    <3>0. p \in Page /\ Sizes(c)[p] = plen(c, p) BY PageLengths, Links
    <3>1. CASE p = q
      <4>1. c.nextp[q] = b.nextp[cur] /\ b.nextp[cur] # NIL /\ cur # b.lastp
        BY <1>1, <2>2, <3>1, Links DEF Parted
      <4>2. b.nextp[cur] \in b.alive /\ Before(b, b.nextp[cur]) = Before(b, cur) + L
        BY <1>1, <4>1, Beginnings, Links
      <4>3. Before(b, cur) \in Nat BY <1>1, <1>4
      <4>4. g[c.nextp[p]] = Before(b, cur) + L /\ g[p] = Before(b, cur) + dist /\ plen(c, p) = L - dist
        BY <1>2, <1>6, <3>1, <4>1, <4>2
      <4> HIDE DEF L
      <4> QED BY <1>1, <3>0, <4>3, <4>4
    <3>2. CASE p = cur
      <4>1. c.nextp[cur] = q BY <1>1 DEF Parted
      <4> QED BY <1>1, <1>2, <1>6, <3>0, <3>2, <4>1
    <3>3. CASE p # q /\ p # cur
      <4>1. p \in b.alive /\ c.nextp[p] = b.nextp[p] BY <1>1, <3>3 DEF Parted
      <4>2. p # b.lastp
        <5> SUFFICES ASSUME p = b.lastp PROVE FALSE
          OBVIOUS
        <5>1. b.nextp[cur] # NIL => FALSE BY <2>2, <3>3 DEF Parted
        <5>2. cur = b.lastp BY <1>1, <5>1, Links
        <5> QED BY <3>3, <5>2
      <4>3. b.nextp[p] \in b.alive /\ Before(b, b.nextp[p]) = Before(b, p) + plen(b, p)
        BY <4>1, <4>2, Beginnings, Links
      <4> QED BY <1>3, <1>6, <3>0, <3>3, <4>1, <4>3
    <3> QED BY <3>1, <3>2, <3>3
  <2> QED BY <1>5, <2>1, <2>2 DEF Counts
<1>8. Laid(c, g, Text(b))
  <2> DEFINE t == Text(b)
  <2>1. /\ t \in Seq(Byte) /\ Len(t) = Before(b, b.lastp) + plen(b, b.lastp)
        /\ \A p \in b.alive : \A i \in 1 .. plen(b, p) : t[Before(b, p) + i] = b.data[p][i]
    <3>1. \A p \in b.alive : Starts(b)[p] = Before(b, p) BY Beginnings, Links
    <3>2. Laid(b, Starts(b), t) BY TextLaid
    <3> HIDE DEF t
    <3> QED BY <3>1, <3>2, Links DEF Laid
  <2> HIDE DEF t
  <2>2. Len(t) = g[c.lastp] + plen(c, c.lastp)
    <3>1. CASE b.nextp[cur] = NIL
      <4>1. cur = b.lastp /\ c.lastp = q BY <1>1, <3>1, Links DEF Parted
      <4>2. Before(b, cur) \in Nat BY <1>1, <1>4
      <4>3. Len(t) = Before(b, cur) + L /\ g[c.lastp] = Before(b, cur) + dist /\ plen(c, c.lastp) = L - dist
        BY <1>2, <1>6, <2>1, <4>1
      <4> HIDE DEF L
      <4> QED BY <1>1, <4>2, <4>3
    <3>2. CASE b.nextp[cur] # NIL
      <4>1. cur # b.lastp /\ c.lastp = b.lastp /\ b.lastp \in b.alive BY <3>2, Links DEF Parted
      <4> QED BY <1>3, <1>6, <2>1, <4>1
    <3> QED BY <3>1, <3>2
  <2>3. ASSUME NEW p \in c.alive, NEW i \in 1 .. plen(c, p)
        PROVE  t[g[p] + i] = c.data[p][i]
    <3>1. CASE p = q
      <4> DEFINE j == dist + i
                 B == Before(b, cur)
      <4>1. B \in Nat /\ i \in 1 .. L - dist /\ g[p] = B + dist BY <1>1, <1>2, <1>4, <1>6, <3>1
      <4>2. j \in 1 .. L /\ g[p] + i = B + j
        <5> HIDE DEF B, L
        <5> QED BY <1>1, <4>1
      <4> HIDE DEF j
      <4>3. t[B + j] = o[j] BY <1>1, <2>1, <4>2
      <4>4. c.data[q][i] = o[dist + i] BY <1>2, <4>1
      <4> QED BY <3>1, <4>2, <4>3, <4>4 DEF j
    <3>2. CASE p = cur
      <4>1. i \in 1 .. dist /\ g[p] = Before(b, cur) BY <1>1, <1>2, <1>6, <3>2
      <4>2. i \in 1 .. L BY <1>1, <4>1
      <4>3. t[Before(b, cur) + i] = o[i] BY <1>1, <2>1, <4>2
      <4> QED BY <1>2, <3>2, <4>1, <4>3
    <3>3. CASE p # q /\ p # cur
      <4>1. p \in b.alive BY <3>3 DEF Parted
      <4> QED BY <1>3, <1>6, <2>1, <3>3, <4>1
    <3> QED BY <3>1, <3>2, <3>3
  <2> QED BY <2>1, <2>2, <2>3 DEF Laid, t
<1>9. Text(c) = Text(b) /\ \A p \in c.alive : Before(c, p) = g[p] BY <1>7, <1>8, TextIs
<1> QED BY <1>1, <1>2, <1>3, <1>6, <1>9 DEF Parted

\* Freeing an empty page leaves the text as it is.
LEMMA EmptyFreed ==
  ASSUME NEW b, Listed(b), NEW x \in b.alive, plen(b, x) = 0,
         b.nextp[x] # NIL \/ b.prevp[x] # NIL
  PROVE  LET c == freepage(b, x)
         IN /\ Listed(c) /\ c.alive = b.alive \ {x} /\ Text(c) = Text(b)
            /\ \A p \in b.alive \ {x} : Before(c, p) = Before(b, p) /\ plen(c, p) = plen(b, p)
<1> DEFINE c   == freepage(b, x)
           nxt == b.nextp[x]
           prv == b.prevp[x]
<1>1. /\ c.alive = b.alive \ {x}
      /\ c.firstp = IF prv = NIL THEN nxt ELSE b.firstp
      /\ c.lastp = IF nxt = NIL THEN prv ELSE b.lastp
      /\ c.nextp = [p \in Page |->
                      CASE p = x -> NIL [] p # x /\ p = prv -> nxt [] OTHER -> b.nextp[p]]
  BY DEF freepage, Listed, Buffer
<1>2. Listed(c) /\ c.data = [b.data EXCEPT ![x] = <<>>] BY FreePage DEF Listed
<1> HIDE DEF c
<1>3. /\ x \in Page /\ b.alive \subseteq Page /\ b.data \in [Page -> Seq(Byte)]
      /\ prv = NIL <=> x = b.firstp
      /\ nxt = NIL <=> x = b.lastp
  <2>1. b.data \in [Page -> Seq(Byte)] BY DEF Listed, Buffer
  <2> QED BY <2>1, Links
<1>4. \A p \in b.alive \ {x} : c.data[p] = b.data[p] /\ plen(c, p) = plen(b, p)
  BY <1>2, <1>3 DEF plen
<1>5. \A p \in b.alive : Before(b, p) = Starts(b)[p] /\ Before(b, p) \in Nat BY Beginnings, Links
<1>6. x # b.lastp => Before(b, nxt) = Before(b, x) /\ nxt \in b.alive \ {x}
  <2> HAVE x # b.lastp
  <2>1. nxt \in b.alive /\ b.prevp[nxt] = x /\ nxt # b.firstp BY Links
  <2>2. Before(b, nxt) = Before(b, x) + 0 BY Beginnings
  <2>3. Rank(b)[nxt] = Rank(b)[x] + 1 /\ Rank(b)[x] \in Nat BY <1>3, Ranks
  <2> QED BY <1>5, <2>1, <2>2, <2>3
<1>7. Counts(c, Sizes(c), Starts(b))
  <2>1. Starts(b) \in [Page -> Nat] BY Beginnings DEF Counts
  <2>2. Starts(b)[c.firstp] = 0
    <3>1. CASE prv = NIL
      <4>1. x = b.firstp /\ x # b.lastp BY <1>3, <3>1
      <4> QED BY <1>1, <1>5, <1>6, <3>1, <4>1, Beginnings
    <3>2. CASE prv # NIL BY <1>1, <1>5, <3>2, Beginnings, Links
    <3> QED BY <3>1, <3>2
  <2>3. ASSUME NEW p \in c.alive \ {c.lastp}
        PROVE  Starts(b)[c.nextp[p]] = Starts(b)[p] + Sizes(c)[p]
    <3>0. p \in Page /\ p \in b.alive \ {x} /\ Sizes(c)[p] = plen(b, p)
      BY <1>1, <1>2, <1>3, <1>4, PageLengths
    <3>1. p # b.lastp
      <4> SUFFICES ASSUME p = b.lastp PROVE FALSE
        OBVIOUS
      <4>1. nxt = NIL BY <1>1, <2>3
      <4> QED BY <1>3, <3>0, <4>1
    <3>2. b.nextp[p] \in b.alive /\ Before(b, b.nextp[p]) = Before(b, p) + plen(b, p)
      BY <3>0, <3>1, Beginnings, Links
    <3>3. CASE p = prv
      <4>1. c.nextp[p] = nxt /\ b.nextp[p] = x
        BY <1>1, <1>3, <3>0, <3>3, Links
      <4>2. x # b.lastp
        <5> SUFFICES ASSUME x = b.lastp PROVE FALSE
          OBVIOUS
        <5>1. c.lastp = prv BY <1>1, <1>3
        <5> QED BY <2>3, <3>3, <5>1
      <4> QED BY <1>5, <1>6, <3>0, <3>2, <4>1, <4>2
    <3>4. CASE p # prv
      <4>1. c.nextp[p] = b.nextp[p] BY <1>1, <3>0, <3>4
      <4> QED BY <1>5, <3>0, <3>2, <4>1
    <3> QED BY <3>3, <3>4
  <2> QED BY <2>1, <2>2, <2>3 DEF Counts
<1>8. Laid(c, Starts(b), Text(b))
  <2>1. /\ Text(b) \in Seq(Byte) /\ Len(Text(b)) = Before(b, b.lastp) + plen(b, b.lastp)
        /\ \A p \in b.alive : \A i \in 1 .. plen(b, p) : Text(b)[Starts(b)[p] + i] = b.data[p][i]
    BY TextLaid, Beginnings, Links DEF Laid
  <2>2. Len(Text(b)) = Starts(b)[c.lastp] + plen(c, c.lastp)
    <3>1. CASE nxt = NIL
      <4>1. x = b.lastp /\ c.lastp = prv /\ x # b.firstp BY <1>1, <1>3, <3>1
      <4>2. prv \in b.alive \ {x} /\ Before(b, x) = Before(b, prv) + plen(b, prv)
        BY <4>1, Beginnings, Links
      <4> QED BY <1>4, <1>5, <2>1, <4>1, <4>2
    <3>2. CASE nxt # NIL
      <4>1. x # b.lastp /\ c.lastp = b.lastp /\ b.lastp \in b.alive BY <1>1, <1>3, <3>2, Links
      <4> QED BY <1>4, <1>5, <2>1, <4>1
    <3> QED BY <3>1, <3>2
  <2> QED BY <1>1, <1>4, <2>1, <2>2 DEF Laid
<1>9. Text(c) = Text(b) /\ \A p \in c.alive : Before(c, p) = Starts(b)[p]
  BY <1>2, <1>7, <1>8, TextIs
<1> QED BY <1>1, <1>2, <1>4, <1>5, <1>9 DEF c

-----------------------------------------------------------------------------
\* How many bytes are before mark m.
PlaceOf(b, m) == Before(b, b.mpage[m]) + b.moffset[m]

\* The point and the marks of a well formed buffer are places in its text.
LEMMA Places ==
  ASSUME NEW b, WellFormed(b)
  PROVE  /\ Listed(b) /\ b \in Buffer /\ Text(b) \in Seq(Byte) /\ Len(Text(b)) \in Nat
         /\ b.curpage \in b.alive /\ b.curpage \in Page
         /\ Before(b, b.curpage) \in Nat /\ curplen(b) = plen(b, b.curpage) /\ curplen(b) \in Nat
         /\ b.curchar \in 0 .. plen(b, b.curpage)
         /\ blocation(b) \in 0 .. Len(Text(b))
         /\ \A m \in Mark : b.mpage[m] # NIL =>
              /\ b.mpage[m] \in b.alive /\ b.mpage[m] \in Page
              /\ b.moffset[m] \in 0 .. plen(b, b.mpage[m])
              /\ Before(b, b.mpage[m]) \in Nat /\ plen(b, b.mpage[m]) \in Nat
              /\ PlaceOf(b, m) \in 0 .. Len(Text(b))
<1>1. Listed(b) /\ b \in Buffer BY DEF WellFormed, Listed
<1>2. Text(b) \in Seq(Byte) /\ Len(Text(b)) = blength(b) /\ Len(Text(b)) \in Nat
  BY <1>1, TextLaid DEF Laid
<1>3. /\ b.curpage \in b.alive /\ b.curpage \in Page /\ b.curchar \in Nat
      /\ b.curchar <= plen(b, b.curpage) /\ curplen(b) = plen(b, b.curpage)
      /\ plen(b, b.curpage) \in Nat
  BY Lengths
<1>4. ASSUME NEW p \in b.alive, NEW off \in Nat, off <= plen(b, p)
      PROVE  /\ p \in Page /\ Before(b, p) \in Nat /\ off \in 0 .. plen(b, p) /\ plen(b, p) \in Nat
             /\ Before(b, p) + off \in 0 .. Len(Text(b))
  <2>1. /\ p \in Page /\ Before(b, p) \in Nat /\ plen(b, p) \in Nat
        /\ Before(b, p) + plen(b, p) <= Len(Text(b))
    BY <1>1, <1>2, <1>4, Beginnings, PageLengths, Links, InText
  <2> QED BY <1>2, <1>4, <2>1
<1>5. ASSUME NEW m \in Mark, b.mpage[m] # NIL
      PROVE  /\ b.mpage[m] \in b.alive /\ b.moffset[m] \in Nat
             /\ b.moffset[m] <= plen(b, b.mpage[m])
  BY <1>1, <1>5 DEF WellFormed, MarksInside, Buffer
<1> QED BY <1>1, <1>2, <1>3, <1>4, <1>5 DEF PlaceOf, blocation

\* The same text with the same marks in it.
SameMarked(b, c) ==
  /\ Text(c) = Text(b)
  /\ \A m \in Mark :
       /\ c.mpage[m] = NIL <=> b.mpage[m] = NIL
       /\ b.mpage[m] # NIL => PlaceOf(c, m) = PlaceOf(b, m)

\* z is put into the text at place at: the marks behind it move on, those in front
\* stay, those at that place do the one or the other.
Grows(b, c, at, z) ==
  /\ Text(c) = Spliced(Text(b), at, at, z)
  /\ \A m \in Mark :
       /\ c.mpage[m] = NIL <=> b.mpage[m] = NIL
       /\ b.mpage[m] # NIL =>
            \/ PlaceOf(b, m) <= at /\ PlaceOf(c, m) = PlaceOf(b, m)
            \/ PlaceOf(b, m) >= at /\ PlaceOf(c, m) = PlaceOf(b, m) + Len(z)

\* pagesplit moves no byte, no page, no mark and not the point.
LEMMA PageSplitMarked ==
  ASSUME NEW b, WellFormed(b), NEW q \in Page \ b.alive, NEW dist \in 0 .. curplen(b)
  PROVE  LET s == pagesplit(b, q, dist)
         IN /\ SameMarked(b, s) /\ blocation(s) = blocation(b)
            /\ \A p \in b.alive : p \in s.alive /\ Before(s, p) = Before(b, p)
<1> DEFINE s     == pagesplit(b, q, dist)
           n     == newpage(b, q)
           cur   == b.curpage
           moved == {m \in Mark : b.mpage[m] = cur /\ b.moffset[m] >= dist}
<1>1. /\ WellFormed(s) /\ s.alive = b.alive \cup {q}
      /\ s.curpage = IF b.curchar > dist THEN q ELSE b.curpage
      /\ s.curchar = IF b.curchar > dist THEN b.curchar - dist ELSE b.curchar
  BY PageSplit
<1>2. /\ Listed(b) /\ Listed(s) /\ b \in Buffer /\ cur \in b.alive /\ cur \in Page
      /\ Before(b, cur) \in Nat /\ b.curchar \in Nat /\ dist \in Nat
      /\ curplen(b) = plen(b, cur) /\ curplen(b) \in Nat
  BY <1>1, Places
<1>3. /\ s.firstp = n.firstp /\ s.lastp = n.lastp /\ s.nextp = n.nextp
      /\ s.data = [n.data EXCEPT ![cur] = SubSeq(b.data[cur], 1, dist),
                                 ![q] = SubSeq(b.data[cur], dist + 1, plen(b, cur))]
      /\ s.mpage = [m \in Mark |-> IF m \in moved THEN q ELSE n.mpage[m]]
      /\ s.moffset = [m \in Mark |-> IF m \in moved THEN n.moffset[m] - dist ELSE n.moffset[m]]
  <2>1. n \in Buffer BY <1>2, NewPage DEF Listed
  <2> HIDE DEF n
  <2> QED BY <2>1 DEF pagesplit, n, Buffer
<1>4. /\ n.firstp = b.firstp
      /\ n.lastp = (IF b.nextp[cur] = NIL THEN q ELSE b.lastp)
      /\ n.nextp = [b.nextp EXCEPT ![q] = b.nextp[cur], ![cur] = q]
      /\ n.data = [b.data EXCEPT ![q] = <<>>]
      /\ n.mpage = b.mpage /\ n.moffset = b.moffset
  BY <1>2 DEF newpage, Buffer
<1> HIDE DEF s, n
<1>5. Parted(b, s, q, dist)
  <2>1. /\ s.data[cur] = SubSeq(b.data[cur], 1, dist)
        /\ s.data[q] = SubSeq(b.data[cur], dist + 1, curplen(b))
        /\ \A p \in b.alive \ {cur} : s.data[p] = b.data[p]
    <3> DEFINE x == SubSeq(b.data[cur], 1, dist)
               y == SubSeq(b.data[cur], dist + 1, plen(b, cur))
    <3>1. b.data \in [Page -> Seq(Byte)] /\ b.alive \subseteq Page /\ q # cur BY <1>2 DEF Buffer
    <3>2. s.data = [[b.data EXCEPT ![q] = <<>>] EXCEPT ![cur] = x, ![q] = y] BY <1>3, <1>4
    <3> HIDE DEF x, y
    <3>3. /\ s.data[cur] = x /\ s.data[q] = y /\ \A p \in Page \ {cur, q} : s.data[p] = b.data[p]
      BY <1>2, <3>1, <3>2
    <3> QED BY <1>2, <3>1, <3>3 DEF x, y
  <2> QED BY <1>1, <1>3, <1>4, <2>1 DEF Parted
<1>6. /\ Text(s) = Text(b) /\ Before(s, q) = Before(b, cur) + dist
      /\ \A p \in b.alive : Before(s, p) = Before(b, p)
  BY <1>2, <1>5, PageParted
<1>7. ASSUME NEW m \in Mark
      PROVE  /\ s.mpage[m] = NIL <=> b.mpage[m] = NIL
             /\ b.mpage[m] # NIL => PlaceOf(s, m) = PlaceOf(b, m)
  <2>1. CASE m \in moved
    <3>1. /\ b.mpage[m] = cur /\ b.moffset[m] \in Nat
          /\ s.mpage[m] = q /\ s.moffset[m] = b.moffset[m] - dist
      BY <1>2, <1>3, <1>4, <2>1 DEF Buffer
    <3> QED BY <1>2, <1>6, <3>1, PageAssumption DEF PlaceOf
  <2>2. CASE m \notin moved
    <3>1. s.mpage[m] = b.mpage[m] /\ s.moffset[m] = b.moffset[m] BY <1>3, <1>4, <2>2
    <3>2. b.mpage[m] # NIL => b.mpage[m] \in b.alive BY Places
    <3> QED BY <1>6, <3>1, <3>2 DEF PlaceOf
  <2> QED BY <2>1, <2>2
<1>8. blocation(s) = blocation(b)
  BY <1>1, <1>2, <1>6 DEF blocation
<1> QED BY <1>1, <1>6, <1>7, <1>8 DEF SameMarked, s

\* A buffer whose page cur gets z at offset x; the marks on that page behind x move
\* on, those in front stay, those at x do the one or the other.
Filling(b, c, cur, x, z) ==
  /\ Changed(b, c, cur, x, x, z)
  /\ c.mpage = b.mpage
  /\ \A m \in Mark : b.mpage[m] # NIL =>
       \/ c.moffset[m] = b.moffset[m] /\ (b.mpage[m] = cur => b.moffset[m] <= x)
       \/ b.mpage[m] = cur /\ b.moffset[m] >= x /\ c.moffset[m] = b.moffset[m] + Len(z)

\* The pages of b stay in c, and with at pages from behind a place on begin l later.
Shifted(b, c, at, l) ==
  \A p \in b.alive :
    /\ p \in c.alive
    /\ \/ Before(c, p) = Before(b, p)
       \/ Before(b, p) >= at /\ Before(c, p) = Before(b, p) + l

\* Then the text gets z there, and all marks move as they should.
LEMMA PageGrows ==
  ASSUME NEW b, WellFormed(b), NEW cur \in b.alive, NEW x \in 0 .. plen(b, cur),
         NEW z \in Seq(Byte), NEW c \in Buffer, Filling(b, c, cur, x, z)
  PROVE  /\ Listed(c) /\ Grows(b, c, Before(b, cur) + x, z) /\ Before(c, cur) = Before(b, cur)
         /\ plen(c, cur) = plen(b, cur) + Len(z) /\ Shifted(b, c, Before(b, cur) + x, Len(z))
<1> DEFINE B == Before(b, cur)
           Z == Len(z)
<1>1. /\ Listed(b) /\ cur \in Page /\ B \in Nat /\ plen(b, cur) \in Nat /\ x \in Nat
      /\ x \in x .. plen(b, cur) /\ Z \in Nat
  BY Places, Beginnings, PageLengths, Links
<1>2. /\ Listed(c) /\ Text(c) = Spliced(Text(b), B + x, B + x, z)
      /\ \A p \in b.alive : Before(c, p) = IF Precedes(b, cur, p) THEN Before(b, p) + Z - (x - x)
                                         ELSE Before(b, p)
      /\ plen(c, cur) = plen(b, cur) + Z - (x - x)
  BY <1>1, PageSpliced DEF Filling
<1>3. ASSUME NEW m \in Mark, b.mpage[m] # NIL
      PROVE  \/ PlaceOf(b, m) <= B + x /\ PlaceOf(c, m) = PlaceOf(b, m)
             \/ PlaceOf(b, m) >= B + x /\ PlaceOf(c, m) = PlaceOf(b, m) + Z
  <2> DEFINE p == b.mpage[m]
             f == Before(b, p)
             o == b.moffset[m]
  <2>1. /\ p \in b.alive /\ f \in Nat /\ o \in 0 .. plen(b, p) /\ plen(b, p) \in Nat
        /\ PlaceOf(b, m) = f + o /\ PlaceOf(c, m) = Before(c, p) + c.moffset[m]
    BY <1>3, Places DEF PlaceOf, Filling
  <2>2. CASE p = cur
    <3>1. Before(c, p) = f /\ f = B BY <1>1, <1>2, <2>1, <2>2, Ordered
    <3>2. \/ c.moffset[m] = o /\ o <= x
          \/ o >= x /\ c.moffset[m] = o + Z
      BY <1>3, <2>2 DEF Filling
    <3> HIDE DEF f, o, Z, B, p
    <3> QED BY <1>1, <2>1, <3>1, <3>2
  <2>3. CASE p # cur
    <3>1. c.moffset[m] = o BY <1>3, <2>3 DEF Filling
    <3>2. CASE Precedes(b, cur, p)
      <4>1. B + plen(b, cur) <= f /\ Before(c, p) = f + Z - (x - x)
        BY <1>1, <1>2, <2>1, <3>2, InOrder
      <4> HIDE DEF f, o, Z, B, p
      <4> QED BY <1>1, <2>1, <3>1, <4>1
    <3>3. CASE Precedes(b, p, cur)
      <4>1. f + plen(b, p) <= B /\ Before(c, p) = f
        BY <1>1, <1>2, <2>1, <3>3, InOrder, Ordered
      <4> HIDE DEF f, o, Z, B, p
      <4> QED BY <1>1, <2>1, <3>1, <4>1
    <3> QED BY <1>1, <2>1, <2>3, <3>2, <3>3, Ordered
  <2> QED BY <2>2, <2>3
<1>4. Grows(b, c, B + x, z) BY <1>2, <1>3 DEF Grows, Filling
<1>5. Before(c, cur) = B BY <1>1, <1>2, Ordered
<1>6. plen(c, cur) = plen(b, cur) + Z BY <1>1, <1>2
<1>7. ASSUME NEW p \in b.alive
      PROVE  /\ p \in c.alive
             /\ \/ Before(c, p) = Before(b, p)
                \/ Before(b, p) >= B + x /\ Before(c, p) = Before(b, p) + Z
  <2>1. p \in c.alive BY DEF Filling, Changed, SameLinks
  <2>2. CASE Precedes(b, cur, p)
    <3>1. B + plen(b, cur) <= Before(b, p) /\ Before(b, p) \in Nat
      BY <1>1, <2>2, InOrder, Beginnings, Links
    <3>2. Before(c, p) = Before(b, p) + Z - (x - x) BY <1>2, <2>2
    <3> HIDE DEF B, Z
    <3> QED BY <1>1, <2>1, <3>1, <3>2
  <2>3. CASE ~ Precedes(b, cur, p) BY <1>2, <2>1, <2>3
  <2> QED BY <2>2, <2>3
<1> QED BY <1>2, <1>4, <1>5, <1>6, <1>7 DEF Shifted

\* What comes after a change of nothing is what comes.
LEMMA MarkedGrows ==
  ASSUME NEW b, NEW s, NEW c, SameMarked(b, s), NEW at, NEW z, Grows(s, c, at, z)
  PROVE  Grows(b, c, at, z)
<1>1. ASSUME NEW m \in Mark
      PROVE  /\ c.mpage[m] = NIL <=> b.mpage[m] = NIL
             /\ b.mpage[m] # NIL =>
                  \/ PlaceOf(b, m) <= at /\ PlaceOf(c, m) = PlaceOf(b, m)
                  \/ PlaceOf(b, m) >= at /\ PlaceOf(c, m) = PlaceOf(b, m) + Len(z)
  <2>1. /\ s.mpage[m] = NIL <=> b.mpage[m] = NIL
        /\ b.mpage[m] # NIL => PlaceOf(s, m) = PlaceOf(b, m)
    BY DEF SameMarked
  <2>2. /\ c.mpage[m] = NIL <=> s.mpage[m] = NIL
        /\ s.mpage[m] # NIL =>
             \/ PlaceOf(s, m) <= at /\ PlaceOf(c, m) = PlaceOf(s, m)
             \/ PlaceOf(s, m) >= at /\ PlaceOf(c, m) = PlaceOf(s, m) + Len(z)
    BY DEF Grows
  <2> QED BY <2>1, <2>2
<1> QED BY <1>1 DEF SameMarked, Grows

\* binsert puts the byte in at the point and moves the point past it.
LEMMA BinsertGrows ==
  ASSUME NEW b, WellFormed(b), NEW ch \in Byte, NEW q,
         curplen(b) = PGSIZE => q \in Page \ b.alive
  PROVE  LET r == binsert(b, ch, q)
         IN /\ Grows(b, r, blocation(b), <<ch>>) /\ blocation(r) = blocation(b) + 1
            /\ Shifted(b, r, blocation(b), 1)
<1> DEFINE s   == IF curplen(b) = PGSIZE THEN pagesplit(b, q, HALFP) ELSE b
           cur == s.curpage
           x   == s.curchar
           old == s.data[cur]
           moffset == [m \in Mark |->
                         IF s.mpage[m] = cur /\ s.moffset[m] >= x + 1
                         THEN s.moffset[m] + 1 ELSE s.moffset[m]]
           r    == binsert(b, ch, q)
           z    == <<ch>>
<1>1. /\ WellFormed(s) /\ SameMarked(b, s) /\ blocation(s) = blocation(b)
      /\ \A p \in b.alive : p \in s.alive /\ Before(s, p) = Before(b, p)
  <2>1. CASE curplen(b) = PGSIZE
    <3>1. HALFP \in 0 .. curplen(b) BY <2>1, HalfPage, PGSIZEAssumption
    <3> DEFINE t == pagesplit(b, q, HALFP)
    <3>2. WellFormed(t) BY <2>1, <3>1, PageSplit
    <3>3. /\ SameMarked(b, t) /\ blocation(t) = blocation(b)
          /\ \A p \in b.alive : p \in t.alive /\ Before(t, p) = Before(b, p)
      BY <2>1, <3>1, PageSplitMarked
    <3> HIDE DEF t
    <3> QED BY <2>1, <3>2, <3>3 DEF t
  <2>2. CASE curplen(b) # PGSIZE BY <2>2 DEF SameMarked
  <2> QED BY <2>1, <2>2
<1>2. r = [s EXCEPT !.data = [s.data EXCEPT ![cur] = Spliced(old, x, x, z)],
                    !.curchar = x + 1, !.bmodf = TRUE, !.moffset = moffset]
  BY DEF binsert, Spliced
<1>3. r \in Buffer BY BinsertWellFormed DEF WellFormed
<1> HIDE DEF s, r
<1>4. /\ s \in Buffer /\ cur \in s.alive /\ x \in 0 .. plen(s, cur) /\ x \in Nat
      /\ Before(s, cur) \in Nat
  BY <1>1, Places
<1>5. z \in Seq(Byte) /\ Len(z) = 1 OBVIOUS
<1> HIDE DEF z
<1>6. /\ SameLinks(s, r) /\ r.data = [s.data EXCEPT ![cur] = Spliced(old, x, x, z)]
      /\ r.mpage = s.mpage /\ r.moffset = moffset
      /\ r.curpage = cur /\ r.curchar = x + 1
  BY <1>2, <1>4 DEF Buffer, SameLinks
<1>7. Filling(s, r, cur, x, z)
  <2>1. Changed(s, r, cur, x, x, z) BY <1>6 DEF Changed
  <2>2. ASSUME NEW m \in Mark, s.mpage[m] # NIL
        PROVE  \/ r.moffset[m] = s.moffset[m] /\ (s.mpage[m] = cur => s.moffset[m] <= x)
               \/ s.mpage[m] = cur /\ s.moffset[m] >= x /\ r.moffset[m] = s.moffset[m] + Len(z)
    <3>1. s.moffset[m] \in Nat BY <1>4 DEF Buffer
    <3>2. r.moffset[m] = IF s.mpage[m] = cur /\ s.moffset[m] >= x + 1
                         THEN s.moffset[m] + 1 ELSE s.moffset[m]
      BY <1>6
    <3> QED BY <1>4, <1>5, <3>1, <3>2
  <2> QED BY <1>6, <2>1, <2>2 DEF Filling
<1>8. /\ Grows(s, r, Before(s, cur) + x, z) /\ Before(r, cur) = Before(s, cur)
      /\ Shifted(s, r, Before(s, cur) + x, Len(z))
  BY <1>1, <1>3, <1>4, <1>5, <1>7, PageGrows
<1>9. blocation(s) = Before(s, cur) + x /\ blocation(r) = Before(r, cur) + (x + 1)
  BY <1>6 DEF blocation
<1>10. Grows(b, r, blocation(b), z) BY <1>1, <1>8, <1>9, MarkedGrows
<1>11. blocation(r) = blocation(b) + 1 BY <1>1, <1>4, <1>8, <1>9
<1>12. Shifted(b, r, blocation(b), 1) BY <1>1, <1>5, <1>8, <1>9 DEF Shifted
<1> QED BY <1>10, <1>11, <1>12 DEF r, z

-----------------------------------------------------------------------------
\* The bytes from + 1 .. to leave the text, and every mark is where TextBuffer says.
Shrinks(b, c, from, to) ==
  /\ Text(c) = Spliced(Text(b), from, to, <<>>)
  /\ \A m \in Mark :
       /\ c.mpage[m] = NIL <=> b.mpage[m] = NIL
       /\ b.mpage[m] # NIL =>
            PlaceOf(c, m) = IF PlaceOf(b, m) <= from THEN PlaceOf(b, m)
                            ELSE IF PlaceOf(b, m) <= to THEN from
                            ELSE PlaceOf(b, m) - (to - from)

\* Where the marks go that are on a page which loses bytes x + 1 .. y: those behind
\* x to a place that is x bytes into the page, or as much less as they were behind y.
Draining(b, c, cur, x, y) ==
  \A m \in Mark :
    /\ c.mpage[m] = NIL <=> b.mpage[m] = NIL
    /\ b.mpage[m] # NIL /\ b.mpage[m] # cur =>
         c.mpage[m] = b.mpage[m] /\ c.moffset[m] = b.moffset[m]
    /\ b.mpage[m] = cur =>
         PlaceOf(c, m) = Before(b, cur) + (IF b.moffset[m] <= x THEN b.moffset[m]
                                           ELSE IF b.moffset[m] <= y THEN x
                                           ELSE b.moffset[m] - (y - x))

\* The list b without the bytes x + 1 .. y of its page cur.
Drained(b, c, cur, x, y) ==
  /\ Text(c) = Spliced(Text(b), Before(b, cur) + x, Before(b, cur) + y, <<>>)
  /\ \A p \in c.alive : Before(c, p) = IF Precedes(b, cur, p) THEN Before(b, p) - (y - x)
                                      ELSE Before(b, p)

\* Then the text shrinks, and all marks are where they should be.
LEMMA PageShrinks ==
  ASSUME NEW b, WellFormed(b), NEW cur \in b.alive, NEW x \in 0 .. plen(b, cur),
         NEW y \in x .. plen(b, cur), NEW c, WellFormed(c), Drained(b, c, cur, x, y),
         Draining(b, c, cur, x, y)
  PROVE  Shrinks(b, c, Before(b, cur) + x, Before(b, cur) + y)
<1> DEFINE B == Before(b, cur)
           from == B + x
           to   == B + y
<1>1. /\ Listed(b) /\ cur \in Page /\ B \in Nat /\ plen(b, cur) \in Nat /\ x \in Nat /\ y \in Nat
      /\ x <= y /\ y <= plen(b, cur)
  BY Places, Beginnings, PageLengths, Links
<1>2. ASSUME NEW m \in Mark, b.mpage[m] # NIL
      PROVE  PlaceOf(c, m) = IF PlaceOf(b, m) <= from THEN PlaceOf(b, m)
                             ELSE IF PlaceOf(b, m) <= to THEN from
                             ELSE PlaceOf(b, m) - (to - from)
  <2> DEFINE p == b.mpage[m]
             f == Before(b, p)
             o == b.moffset[m]
             l == plen(b, p)
             P == PlaceOf(c, m)
  <2>1. /\ p \in b.alive /\ f \in Nat /\ o \in 0 .. l /\ l \in Nat /\ PlaceOf(b, m) = f + o
    BY <1>2, Places DEF PlaceOf
  <2>2. CASE p = cur
    <3>1. P = B + (IF o <= x THEN o ELSE IF o <= y THEN x ELSE o - (y - x)) /\ f = B
      BY <2>2 DEF Draining
    <3> HIDE DEF p, f, o, l, B, P
    <3> QED BY <1>1, <2>1, <3>1 DEF P
  <2>3. CASE p # cur
    <3>1. c.mpage[m] = p /\ c.moffset[m] = o BY <1>2, <2>3 DEF Draining
    <3>2. p \in c.alive BY <1>2, <3>1, Places
    <3>3. P = Before(c, p) + o BY <3>1 DEF PlaceOf
    <3>4. CASE Precedes(b, cur, p)
      <4>1. B + plen(b, cur) <= f BY <1>1, <2>1, <3>4, InOrder
      <4>2. P = f - (y - x) + o BY <3>2, <3>3, <3>4 DEF Drained
      <4> HIDE DEF p, f, o, l, B, P
      <4> QED BY <1>1, <2>1, <4>1, <4>2 DEF P
    <3>5. CASE Precedes(b, p, cur)
      <4>1. f + l <= B /\ ~ Precedes(b, cur, p) BY <1>1, <2>1, <3>5, InOrder, Ordered
      <4>2. P = f + o BY <3>2, <3>3, <4>1 DEF Drained
      <4> HIDE DEF p, f, o, l, B, P
      <4> QED BY <1>1, <2>1, <4>1, <4>2 DEF P
    <3> QED BY <1>1, <2>1, <2>3, <3>4, <3>5, Ordered
  <2> QED BY <2>2, <2>3
<1> QED BY <1>2 DEF Shrinks, Drained, Draining

\* Nothing is left between two strings that are put together.
LEMMA SplicedOut ==
  ASSUME NEW t \in Seq(Byte), NEW from \in 0 .. Len(t), NEW to \in from .. Len(t)
  PROVE  Spliced(t, from, to, <<>>) = SubSeq(t, 1, from) \o SubSeq(t, to + 1, Len(t))
<1> DEFINE x == SubSeq(t, 1, from)
           y == SubSeq(t, to + 1, Len(t))
<1>1. x \in Seq(Byte) BY TakeDrop
<1>2. Spliced(t, from, to, <<>>) = (x \o <<>>) \o y BY DEF Spliced
<1> HIDE DEF x, y
<1>3. x \o <<>> = x BY <1>1
<1> QED BY <1>2, <1>3 DEF x, y

\* One iteration of bdelete's loop on the point's page deletes the bytes behind the
\* point that it should, whether it keeps the page or frees it, and leaves the point
\* and the marks where they should be.
LEMMA BdeleteShrinks ==
  ASSUME NEW b, WellFormed(b), NEW quantity \in Nat
  PROVE  LET r == bdelete_page(b, b.curpage, quantity)
         IN /\ Shrinks(b, r, blocation(b), blocation(b) + quan(b, quantity))
            /\ blocation(r) = blocation(b)
            /\ b.curpage \in r.alive =>
                 Before(r, b.curpage) = Before(b, b.curpage) /\ b.curchar <= plen(r, b.curpage)
<1> DEFINE page == b.curpage
           x    == b.curchar
           n    == quan(b, quantity)
           y    == x + n
           old  == b.data[page]
           cut  == SubSeq(old, 1, x) \o SubSeq(old, x + n + 1, Len(old))
           data == [b.data EXCEPT ![page] = cut]
           s    == [b EXCEPT !.data = data, !.bmodf = TRUE]
           skip == x >= Len(cut) /\ ~ isLast(b, page)
           tpage   == IF skip THEN b.nextp[page] ELSE page
           noffset == IF skip THEN 0 ELSE x
           after   == {m \in Mark : b.mpage[m] = page /\ b.moffset[m] >= x + n}
           inside  == {m \in Mark : b.mpage[m] = page /\ b.moffset[m] \in x .. x + n - 1}
           mp   == [m \in Mark |-> IF m \in inside THEN tpage ELSE s.mpage[m]]
           mo   == [m \in Mark |-> CASE m \in inside -> noffset
                                     [] m \in after  -> s.moffset[m] - n
                                     [] OTHER        -> s.moffset[m]]
           t    == [s EXCEPT !.mpage = mp, !.moffset = mo]
           gone == cut = <<>> /\ (b.nextp[page] # NIL \/ b.prevp[page] # NIL)
           r    == bdelete_page(b, page, quantity)
           B    == Before(b, page)
<1>1. r = IF gone THEN delete_entire_page(s, page) ELSE makecur(t, tpage, noffset)
  BY DEF bdelete_page
<1>2. WellFormed(r) BY BdeletePage, Places
<1> HIDE DEF r
<1>3. /\ Listed(b) /\ b \in Buffer /\ page \in b.alive /\ page \in Page
      /\ old \in Seq(Byte) /\ Len(old) \in Nat /\ Len(old) = plen(b, page) /\ curplen(b) = Len(old)
      /\ x \in 0 .. Len(old) /\ x \in Nat /\ B \in Nat
  BY Places, PageLengths
<1>4. n \in 0 .. Len(old) - x BY <1>3 DEF quan, MIN
<1> HIDE DEF n
<1>5. y \in x .. Len(old) /\ y \in Nat BY <1>3, <1>4
<1>6. cut = Spliced(old, x, y, <<>>) BY <1>3, <1>5, SplicedOut
<1> HIDE DEF cut
<1>7. cut \in Seq(Byte) /\ Len(cut) = Len(old) - n
  <2>1. cut \in Seq(Byte) /\ Len(cut) = Len(old) + 0 - (y - x)
    <3> DEFINE z == <<>>
    <3>1. z \in Seq(Byte) /\ Len(z) = 0 /\ cut = Spliced(old, x, y, z) BY <1>6, EmptyBytes
    <3>2. old \in Seq(Byte) /\ x \in 0 .. Len(old) /\ y \in x .. Len(old) BY <1>3, <1>5
    <3> HIDE DEF old, y, z
    <3>3. /\ Spliced(old, x, y, z) \in Seq(Byte)
          /\ Len(Spliced(old, x, y, z)) = Len(old) + Len(z) - (y - x)
      BY <3>1, <3>2, SplicedLength
    <3> QED BY <3>1, <3>3
  <2> HIDE DEF old
  <2> QED BY <1>3, <1>4, <2>1
<1>8. data \in [Page -> Seq(Byte)] BY <1>3, <1>7 DEF Buffer
<1>9. /\ s \in Buffer /\ s.data = data /\ SameLinks(b, s)
      /\ s.mpage = b.mpage /\ s.moffset = b.moffset
  <2> HIDE DEF data
  <2> QED BY <1>3, <1>8 DEF Buffer, SameLinks
<1> HIDE DEF s
<1>10. Changed(b, s, page, x, y, <<>>) BY <1>6, <1>9 DEF Changed
<1>11. /\ Listed(s) /\ Text(s) = Spliced(Text(b), B + x, B + y, <<>>)
       /\ \A p \in b.alive :
            Before(s, p) = IF Precedes(b, page, p) THEN Before(b, p) + Len(<<>>) - (y - x)
                           ELSE Before(b, p)
       /\ plen(s, page) = plen(b, page) + Len(<<>>) - (y - x)
       /\ \A p \in b.alive \ {page} : plen(s, p) = plen(b, p)
  <2> DEFINE z == <<>>
  <2>1. z \in Seq(Byte) /\ Changed(b, s, page, x, y, z) BY <1>10, EmptyBytes
  <2>2. x \in 0 .. plen(b, page) /\ y \in x .. plen(b, page) BY <1>3, <1>5
  <2> HIDE DEF z, y
  <2>3. /\ Listed(s) /\ Text(s) = Spliced(Text(b), B + x, B + y, z)
        /\ \A p \in b.alive :
             Before(s, p) = IF Precedes(b, page, p) THEN Before(b, p) + Len(z) - (y - x)
                            ELSE Before(b, p)
        /\ plen(s, page) = plen(b, page) + Len(z) - (y - x)
        /\ \A p \in b.alive \ {page} : plen(s, p) = plen(b, p)
    BY <1>3, <1>9, <2>1, <2>2, PageSpliced
  <2> QED BY <2>3 DEF z
<1>12. Before(s, page) = B /\ plen(s, page) = Len(cut) /\ Len(cut) \in Nat
       /\ \A p \in b.alive : Before(s, p) \in Nat
  <2>1. Before(s, page) = B BY <1>3, <1>11, Ordered
  <2>2. plen(s, page) = Len(cut) /\ Len(cut) \in Nat
    <3>1. b.data \in [Page -> Seq(Byte)] BY <1>3 DEF Buffer
    <3>2. data[page] = cut BY <1>3, <3>1
    <3>3. s.data[page] = cut BY <1>9, <3>2
    <3>4. cut \in Seq(Byte) BY <1>7
    <3> HIDE DEF data
    <3> QED BY <3>3, <3>4 DEF plen
  <2>3. \A p \in b.alive : Before(s, p) \in Nat
    BY <1>3, <1>9, <1>11, Beginnings, Links DEF SameLinks
  <2> QED BY <2>1, <2>2, <2>3
<1>13. \A p \in b.alive : Before(s, p) = IF Precedes(b, page, p) THEN Before(b, p) - (y - x)
                                        ELSE Before(b, p)
  <2>1. \A p \in b.alive : Before(b, p) \in Nat BY <1>3, Beginnings, Links
  <2> QED BY <1>3, <1>5, <1>11, <2>1, EmptyBytes
<1>14. s.nextp = b.nextp /\ s.prevp = b.prevp /\ s.alive = b.alive /\ s.lastp = b.lastp
  BY <1>9 DEF SameLinks
<1>15. \A m \in Mark : b.mpage[m] = page => b.moffset[m] \in 0 .. Len(old) /\ b.mpage[m] # NIL
  BY <1>3, Places, PageAssumption
<1> DEFINE Done == /\ Drained(b, r, page, x, y)
                   /\ Draining(b, r, page, x, y)
                   /\ blocation(r) = B + x
                   /\ page \in r.alive => Before(r, page) = B /\ x <= plen(r, page)
<1>16. ASSUME gone
       PROVE  Done
  <2>1. x = 0 /\ y = Len(old) /\ plen(s, page) = 0
    <3>1. Len(cut) = 0 BY <1>16, EmptyBytes
    <3> HIDE DEF old
    <3> QED BY <1>3, <1>4, <1>7, <1>12, <3>1
  <2> DEFINE last == isLast(s, page)
             tp   == IF last THEN s.prevp[page] ELSE s.nextp[page]
             no   == IF last THEN plen(s, tp) ELSE 0
             on   == {m \in Mark : s.mpage[m] = page}
             pg   == [m \in Mark |-> IF m \in on THEN tp ELSE s.mpage[m]]
             of   == [m \in Mark |-> IF m \in on THEN no ELSE s.moffset[m]]
             u    == [s EXCEPT !.mpage = pg, !.moffset = of]
             f    == freepage(u, page)
  <2>2. r = makecur(f, tp, no) BY <1>1, <1>16 DEF delete_entire_page
  <2>3. /\ tp \in b.alive \ {page} /\ tp \in Page /\ no \in Nat /\ Before(s, tp) + no = B
    <3>0. page \in s.alive /\ b.alive \subseteq Page /\ (s.nextp[page] # NIL \/ s.prevp[page] # NIL)
      BY <1>3, <1>14, <1>16, Links
    <3>1. CASE last
      <4>1. s.nextp[page] = NIL /\ page # s.firstp BY <1>11, <3>0, <3>1, Links DEF isLast
      <4>2. /\ s.prevp[page] \in s.alive
            /\ Before(s, page) = Before(s, s.prevp[page]) + plen(s, s.prevp[page])
        BY <1>11, <3>0, <4>1, Beginnings, Links
      <4>3. s.prevp[page] # page BY <1>11, <3>0, NoSelfLoop DEF Listed
      <4>4. plen(s, s.prevp[page]) \in Nat BY <1>11, <1>14, <3>0, <4>2, PageLengths
      <4> QED BY <1>12, <1>14, <3>0, <3>1, <4>2, <4>3, <4>4
    <3>2. CASE ~ last
      <4>1. page # s.lastp BY <1>11, <3>2, Links DEF isLast
      <4>2. s.nextp[page] \in s.alive /\ Before(s, s.nextp[page]) = Before(s, page) + plen(s, page)
        BY <1>11, <3>0, <4>1, Beginnings, Links
      <4>3. s.nextp[page] # page BY <1>11, <3>0, NoSelfLoop DEF Listed
      <4> QED BY <1>3, <1>12, <1>14, <2>1, <3>0, <3>2, <4>2, <4>3
    <3> QED BY <3>1, <3>2
  <2> HIDE DEF last, tp, no
  <2>4. pg \in [Mark -> Page \cup {NIL}] /\ of \in [Mark -> Nat] BY <1>9, <2>3 DEF Buffer
  <2>5. /\ u \in Buffer /\ SameLinks(s, u) /\ u.data = s.data /\ u.mpage = pg /\ u.moffset = of
    <3> HIDE DEF pg, of
    <3> QED BY <1>9, <2>4 DEF Buffer, SameLinks
  <2> HIDE DEF u
  <2>6. /\ Listed(u) /\ Text(u) = Text(s)
        /\ \A p \in b.alive : Before(u, p) = Before(s, p) /\ plen(u, p) = plen(s, p)
        /\ u.alive = b.alive /\ u.nextp = b.nextp /\ u.prevp = b.prevp
    BY <1>11, <1>14, <2>5, SameText DEF SameLinks
  <2>7. /\ Listed(f) /\ f.alive = b.alive \ {page} /\ Text(f) = Text(u)
        /\ \A p \in b.alive \ {page} : Before(f, p) = Before(u, p)
    BY <1>3, <1>16, <2>1, <2>6, EmptyFreed
  <2>8. f.mpage = u.mpage /\ f.moffset = u.moffset
    <3>1. u \in Buffer /\ Linked(u) /\ Reachable(u) /\ page \in u.alive BY <1>3, <2>6 DEF Listed
    <3>2. u.nextp[page] # NIL \/ u.prevp[page] # NIL BY <1>16, <2>6
    <3> HIDE DEF gone
    <3> QED BY <3>1, <3>2, FreePage
  <2> HIDE DEF f
  <2>9. /\ SameLinks(f, r) /\ r.data = f.data /\ r.mpage = pg /\ r.moffset = of
        /\ r.curpage = tp /\ r.curchar = no
    BY <2>2, <2>5, <2>7, <2>8 DEF makecur, Listed, Buffer, SameLinks
  <2>10. /\ Text(r) = Text(s) /\ r.alive = b.alive \ {page}
         /\ \A p \in b.alive \ {page} : Before(r, p) = Before(s, p)
    <3>1. r \in Buffer BY <1>2 DEF WellFormed
    <3>2. Text(r) = Text(f) /\ \A p \in f.alive : Before(r, p) = Before(f, p)
      BY <2>7, <2>9, <3>1, SameText
    <3>3. r.alive = f.alive BY <2>9 DEF SameLinks
    <3> QED BY <2>6, <2>7, <3>2, <3>3
  <2>11. Drained(b, r, page, x, y) BY <1>11, <1>13, <2>10 DEF Drained
  <2>12. Before(r, tp) + no = B + x BY <1>3, <2>1, <2>3, <2>10
  <2>13. ASSUME NEW m \in Mark
         PROVE  /\ r.mpage[m] = NIL <=> b.mpage[m] = NIL
                /\ b.mpage[m] # NIL /\ b.mpage[m] # page =>
                     r.mpage[m] = b.mpage[m] /\ r.moffset[m] = b.moffset[m]
                /\ b.mpage[m] = page =>
                     PlaceOf(r, m) = Before(b, page) + (IF b.moffset[m] <= x THEN b.moffset[m]
                                           ELSE IF b.moffset[m] <= y THEN x
                                           ELSE b.moffset[m] - (y - x))
    <3>1. CASE b.mpage[m] = page
      <4>1. r.mpage[m] = tp /\ r.moffset[m] = no BY <1>9, <2>9, <3>1
      <4>2. b.moffset[m] \in 0 .. Len(old) /\ b.mpage[m] # NIL BY <1>15, <3>1
      <4>3. PlaceOf(r, m) = B + x BY <2>12, <4>1 DEF PlaceOf
      <4>4. tp # NIL BY <2>3, PageAssumption
      <4>5. x = (IF b.moffset[m] <= x THEN b.moffset[m] ELSE IF b.moffset[m] <= y THEN x
                 ELSE b.moffset[m] - (y - x))
        <5> HIDE DEF old, y
        <5> QED BY <1>3, <1>5, <2>1, <4>2
      <4> QED BY <3>1, <4>1, <4>2, <4>3, <4>4, <4>5
    <3>2. CASE b.mpage[m] # page
      <4>1. r.mpage[m] = b.mpage[m] /\ r.moffset[m] = b.moffset[m] BY <1>9, <2>9, <3>2
      <4> QED BY <3>2, <4>1
    <3> QED BY <3>1, <3>2
  <2>14. Draining(b, r, page, x, y) BY <2>13 DEF Draining
  <2>15. blocation(r) = B + x BY <2>9, <2>12 DEF blocation
  <2> QED BY <2>10, <2>11, <2>14, <2>15
<1>17. ASSUME ~ gone
       PROVE  Done
  <2>1. /\ tpage \in b.alive /\ tpage \in Page /\ noffset \in Nat
        /\ Before(s, tpage) + noffset = B + x
    <3>1. CASE skip
      <4>1. page # s.lastp /\ page \in s.alive BY <1>3, <1>11, <1>14, <3>1, Links DEF isLast
      <4>2. s.nextp[page] \in b.alive /\ Before(s, s.nextp[page]) = Before(s, page) + plen(s, page)
        BY <1>11, <1>14, <4>1, Beginnings, Links
      <4>3. Len(cut) = x
        <5> HIDE DEF old
        <5> QED BY <1>3, <1>4, <1>7, <3>1
      <4> QED BY <1>3, <1>12, <1>14, <3>1, <4>2, <4>3, Links
    <3>2. CASE ~ skip BY <1>3, <1>12, <3>2
    <3> QED BY <3>1, <3>2
  <2> HIDE DEF tpage, noffset, skip
  <2>2. mp \in [Mark -> Page \cup {NIL}]
    BY <1>9, <2>1 DEF Buffer
  <2>3. DOMAIN mo = Mark /\ mo = [m \in Mark |-> mo[m]] OBVIOUS
  <2>4. ASSUME NEW m \in Mark
        PROVE  mo[m] = IF m \in inside THEN noffset ELSE IF m \in after THEN b.moffset[m] - n
                       ELSE b.moffset[m]
    <3> HIDE DEF inside, after
    <3>1. mo[m] = CASE m \in inside -> noffset [] m \in after -> b.moffset[m] - n
                    [] OTHER -> b.moffset[m]
      BY <1>9
    <3>2. ~ (m \in inside /\ m \in after)
      <4>1. b.moffset[m] \in Nat BY <1>3 DEF Buffer
      <4> QED BY <1>3, <1>4, <4>1 DEF inside, after
    <3> HIDE DEF mo
    <3> QED BY <3>1, <3>2
  <2>5. mp = [m \in Mark |-> IF m \in inside THEN tpage ELSE b.mpage[m]] BY <1>9
  <2>6. r = makecur(t, tpage, noffset) BY <1>1, <1>17
  <2>7. DOMAIN s = DOMAIN b /\ SameLinks(s, t) /\ t.data = s.data /\ t.mpage = mp /\ t.moffset = mo
    <3> HIDE DEF mp, mo
    <3> QED BY <1>3, <1>9 DEF Buffer, SameLinks
  <2> HIDE DEF t
  <2>8. /\ SameLinks(s, r) /\ r.data = s.data /\ r.mpage = mp /\ r.moffset = mo
        /\ r.curpage = tpage /\ r.curchar = noffset
    <3>1. DOMAIN t = DOMAIN s /\ s \in Buffer
      <4> HIDE DEF mp, mo
      <4> QED BY <1>9 DEF t, Buffer
    <3> HIDE DEF mp, mo
    <3> QED BY <2>6, <2>7, <3>1 DEF makecur, Buffer, SameLinks
  <2>9. /\ Text(r) = Text(s) /\ r.alive = b.alive
        /\ \A p \in b.alive : Before(r, p) = Before(s, p)
    BY <1>2, <1>11, <1>14, <2>8, SameText DEF SameLinks, WellFormed
  <2>10. Drained(b, r, page, x, y) BY <1>11, <1>13, <2>9 DEF Drained
  <2>11. Before(r, tpage) + noffset = B + x BY <2>1, <2>9
  <2>12. blocation(r) = B + x BY <2>8, <2>11 DEF blocation
  <2>13. ASSUME NEW m \in Mark
         PROVE  /\ r.mpage[m] = NIL <=> b.mpage[m] = NIL
                /\ b.mpage[m] # NIL /\ b.mpage[m] # page =>
                     r.mpage[m] = b.mpage[m] /\ r.moffset[m] = b.moffset[m]
                /\ b.mpage[m] = page =>
                     PlaceOf(r, m) = Before(b, page) + (IF b.moffset[m] <= x THEN b.moffset[m]
                                           ELSE IF b.moffset[m] <= y THEN x
                                           ELSE b.moffset[m] - (y - x))
    <3>0. /\ r.mpage[m] = IF m \in inside THEN tpage ELSE b.mpage[m]
          /\ r.moffset[m] = IF m \in inside THEN noffset ELSE IF m \in after THEN b.moffset[m] - n
                            ELSE b.moffset[m]
      BY <2>4, <2>5, <2>8
    <3>1. CASE b.mpage[m] = page
      <4> DEFINE o == b.moffset[m]
      <4>1. o \in 0 .. Len(old) /\ b.mpage[m] # NIL /\ tpage # NIL
        BY <1>15, <2>1, <3>1, PageAssumption
      <4>2. Before(r, page) = B BY <1>3, <1>12, <2>9
      <4>3. /\ m \in inside <=> o \in x .. x + n - 1
            /\ m \in after <=> o >= x + n
        BY <3>1
      <4>4. PlaceOf(r, m) = IF m \in inside THEN B + x
                            ELSE B + (IF m \in after THEN o - n ELSE o)
        BY <2>11, <3>0, <3>1, <4>2 DEF PlaceOf
      <4>5. B + (IF o <= x THEN o ELSE IF o <= y THEN x ELSE o - (y - x))
              = IF m \in inside THEN B + x ELSE B + (IF m \in after THEN o - n ELSE o)
        <5>1. o \in Nat /\ x \in Nat /\ n \in Nat /\ y = x + n /\ B \in Nat
          BY <1>3, <1>4, <4>1
        <5> HIDE DEF inside, after, o, x, y, n, B
        <5>2. CASE m \in inside BY <4>3, <5>1, <5>2
        <5>3. CASE m \notin inside /\ m \in after BY <4>3, <5>1, <5>3
        <5>4. CASE m \notin inside /\ m \notin after BY <4>3, <5>1, <5>4
        <5> QED BY <5>2, <5>3, <5>4
      <4> QED BY <3>0, <3>1, <4>1, <4>4, <4>5
    <3>2. CASE b.mpage[m] # page
      <4>1. m \notin inside /\ m \notin after BY <3>2
      <4> QED BY <3>0, <3>2, <4>1
    <3> QED BY <3>1, <3>2
  <2>14. Draining(b, r, page, x, y) BY <2>13 DEF Draining
  <2>15. Before(r, page) = B /\ x <= plen(r, page)
    <3>1. plen(r, page) = plen(s, page) BY <2>8 DEF plen
    <3>2. x <= Len(cut)
      <4> HIDE DEF old
      <4> QED BY <1>3, <1>4, <1>7
    <3> QED BY <1>3, <1>12, <2>9, <3>1, <3>2
  <2> QED BY <2>10, <2>12, <2>14, <2>15
<1>18. Done BY <1>16, <1>17
<1>19. Shrinks(b, r, B + x, B + y) BY <1>2, <1>3, <1>5, <1>18, PageShrinks
<1>20. blocation(b) = B + x BY DEF blocation
<1>21. B + y = B + x + n BY <1>3, <1>4
<1> QED BY <1>18, <1>19, <1>20, <1>21 DEF r, n

\* Deleting n bytes where j - lo were deleted before deletes both.
LEMMA SplicedTwice ==
  ASSUME NEW t \in Seq(Byte), NEW lo \in 0 .. Len(t), NEW j \in lo .. Len(t),
         NEW n \in 0 .. Len(t) - j
  PROVE  Spliced(Spliced(t, lo, j, <<>>), lo, lo + n, <<>>) = Spliced(t, lo, j + n, <<>>)
<1> DEFINE z == <<>>
           u == Spliced(t, lo, j, z)
           k == lo + n
           h == j + n
           v == Spliced(u, lo, k, z)
           w == Spliced(t, lo, h, z)
           N == Len(t)
<1>1. z \in Seq(Byte) /\ Len(z) = 0 BY EmptyBytes
<1>2. N \in Nat /\ lo \in Nat /\ j \in Nat /\ n \in Nat /\ lo <= j /\ j + n <= N OBVIOUS
<1> HIDE DEF z
<1>3. /\ u \in Seq(Byte) /\ Len(u) = N - (j - lo)
      /\ \A i \in 1 .. lo : u[i] = t[i]
      /\ \A i \in j + 1 .. N : u[i - j + lo] = t[i]
  <2>1. /\ Spliced(t, lo, j, z) \in Seq(Byte)
        /\ Len(Spliced(t, lo, j, z)) = Len(t) + Len(z) - (j - lo)
        /\ \A i \in 1 .. lo : Spliced(t, lo, j, z)[i] = t[i]
        /\ \A i \in 1 .. Len(z) : Spliced(t, lo, j, z)[lo + i] = z[i]
        /\ \A i \in j + 1 .. Len(t) : Spliced(t, lo, j, z)[i - j + lo + Len(z)] = t[i]
    BY <1>1, SplicedAt
  <2>2. u = Spliced(t, lo, j, z) OBVIOUS
  <2> HIDE DEF u
  <2>3. u \in Seq(Byte) /\ \A i \in 1 .. lo : u[i] = t[i] BY <2>1, <2>2
  <2>4. Len(u) = N + Len(z) - (j - lo) BY <2>1, <2>2
  <2>5. \A i \in j + 1 .. N : u[i - j + lo + Len(z)] = t[i] BY <2>1, <2>2
  <2>6. Len(u) = N - (j - lo) BY <1>1, <1>2, <2>4
  <2>7. ASSUME NEW i \in j + 1 .. N
        PROVE  u[i - j + lo] = t[i]
    <3>1. i - j + lo + Len(z) = i - j + lo BY <1>1, <1>2
    <3> HIDE DEF N
    <3> QED BY <2>5, <3>1
  <2> QED BY <2>3, <2>6, <2>7
<1>4. h \in lo .. N /\ lo \in 0 .. N BY <1>2
<1> HIDE DEF h
<1>5. /\ w \in Seq(Byte) /\ Len(w) = N - (h - lo)
      /\ \A i \in 1 .. lo : w[i] = t[i]
      /\ \A i \in h + 1 .. N : w[i - h + lo] = t[i]
  <2>1. /\ Spliced(t, lo, h, z) \in Seq(Byte)
        /\ Len(Spliced(t, lo, h, z)) = Len(t) + Len(z) - (h - lo)
        /\ \A i \in 1 .. lo : Spliced(t, lo, h, z)[i] = t[i]
        /\ \A i \in 1 .. Len(z) : Spliced(t, lo, h, z)[lo + i] = z[i]
        /\ \A i \in h + 1 .. Len(t) : Spliced(t, lo, h, z)[i - h + lo + Len(z)] = t[i]
    <3>1. z \in Seq(Byte) /\ t \in Seq(Byte) /\ lo \in 0 .. Len(t) /\ h \in lo .. Len(t)
      BY <1>1, <1>4
    <3> HIDE DEF z, h
    <3> QED BY <3>1, SplicedAt
  <2> HIDE DEF w
  <2> QED BY <1>1, <1>2, <1>4, <2>1 DEF w
<1> HIDE DEF u
<1>6. lo \in 0 .. Len(u) /\ k \in lo .. Len(u) BY <1>2, <1>3
<1> HIDE DEF k
<1>7. /\ v \in Seq(Byte) /\ Len(v) = Len(u) - (k - lo)
      /\ \A i \in 1 .. lo : v[i] = u[i]
      /\ \A i \in k + 1 .. Len(u) : v[i - k + lo] = u[i]
  <2>1. /\ Spliced(u, lo, k, z) \in Seq(Byte)
        /\ Len(Spliced(u, lo, k, z)) = Len(u) + Len(z) - (k - lo)
        /\ \A i \in 1 .. lo : Spliced(u, lo, k, z)[i] = u[i]
        /\ \A i \in 1 .. Len(z) : Spliced(u, lo, k, z)[lo + i] = z[i]
        /\ \A i \in k + 1 .. Len(u) : Spliced(u, lo, k, z)[i - k + lo + Len(z)] = u[i]
    <3>1. z \in Seq(Byte) /\ u \in Seq(Byte)
      BY <1>1, <1>2, <1>3
    <3> HIDE DEF z
    <3> QED BY <1>6, <3>1, SplicedAt
  <2> HIDE DEF v
  <2> QED BY <1>1, <1>2, <1>3, <1>6, <2>1 DEF v
<1> HIDE DEF v, w
<1>8. Len(v) = Len(w) /\ Len(v) = N - (j + n - lo) /\ Len(v) \in Nat
  BY <1>2, <1>3, <1>5, <1>7 DEF k, h
<1>9. ASSUME NEW i \in 1 .. Len(v) PROVE v[i] = w[i]
  <2>0. i \in Nat /\ i >= 1 /\ i <= N - (j + n - lo) BY <1>8
  <2>1. CASE i <= lo BY <1>3, <1>5, <1>7, <2>0, <2>1
  <2>2. CASE i > lo
    <3> DEFINE a == i - lo + k
               c == a - lo + j
               d == i - lo + h
    <3>1. a \in k + 1 .. Len(u) /\ a - k + lo = i BY <1>2, <1>3, <2>0, <2>2 DEF k
    <3>2. c \in j + 1 .. N /\ c - j + lo = a BY <1>2, <2>0, <2>2 DEF k
    <3>3. d \in h + 1 .. N /\ d - h + lo = i BY <1>2, <2>0, <2>2 DEF h
    <3>4. c = d BY <1>2, <2>0 DEF k, h
    <3> HIDE DEF a, c, d
    <3>5. v[i] = u[a] BY <1>7, <3>1
    <3>6. u[a] = t[c] BY <1>3, <3>2
    <3>7. w[i] = t[d] BY <1>5, <3>3
    <3> QED BY <3>4, <3>5, <3>6, <3>7
  <2> QED BY <2>0, <2>1, <2>2, <1>2
<1>10. v = w BY <1>5, <1>7, <1>8, <1>9
<1> QED BY <1>10 DEF v, w, u, k, h, z

\* Deleting nothing deletes nothing.
LEMMA SplicedNot ==
  ASSUME NEW t \in Seq(Byte), NEW i \in 0 .. Len(t)
  PROVE  Spliced(t, i, i, <<>>) = t
<1> DEFINE z == <<>>
           v == Spliced(t, i, i, z)
<1>1. z \in Seq(Byte) /\ Len(z) = 0 BY EmptyBytes
<1>2. i \in i .. Len(t) /\ Len(t) \in Nat /\ i \in Nat OBVIOUS
<1> HIDE DEF z
<1>3. /\ Spliced(t, i, i, z) \in Seq(Byte)
      /\ Len(Spliced(t, i, i, z)) = Len(t) + Len(z) - (i - i)
      /\ \A k \in 1 .. i : Spliced(t, i, i, z)[k] = t[k]
      /\ \A k \in 1 .. Len(z) : Spliced(t, i, i, z)[i + k] = z[k]
      /\ \A k \in i + 1 .. Len(t) : Spliced(t, i, i, z)[k - i + i + Len(z)] = t[k]
  BY <1>1, <1>2, SplicedAt
<1> HIDE DEF v
<1>4. v \in Seq(Byte) /\ Len(v) = Len(t) BY <1>1, <1>2, <1>3 DEF v
<1>5. ASSUME NEW k \in 1 .. Len(t) PROVE v[k] = t[k]
  <2>1. CASE k <= i BY <1>2, <1>3, <2>1 DEF v
  <2>2. CASE k > i
    <3>1. k \in i + 1 .. Len(t) /\ k - i + i + Len(z) = k BY <1>1, <1>2, <2>2
    <3>2. Spliced(t, i, i, z)[k - i + i + Len(z)] = t[k] BY <1>3, <3>1
    <3> QED BY <3>1, <3>2 DEF v
  <2> QED BY <1>2, <2>1, <2>2
<1>6. v = t BY <1>4, <1>5
<1> QED BY <1>6 DEF v, z

\* A buffer of one empty page has no text.
LEMMA NoText ==
  ASSUME NEW b, Listed(b), b.alive = {b.firstp}, b.data[b.firstp] = <<>>
  PROVE  Text(b) = <<>> /\ Before(b, b.firstp) = 0
<1> DEFINE g == [p \in Page |-> 0]
           t == <<>>
<1>1. b.lastp = b.firstp /\ b.firstp \in Page BY Links
<1>2. plen(b, b.firstp) = 0 BY EmptyBytes DEF plen
<1>3. Counts(b, Sizes(b), g) BY <1>1 DEF Counts
<1>4. Laid(b, g, t) BY <1>1, <1>2, EmptyBytes DEF Laid
<1> HIDE DEF g, t
<1>5. Text(b) = t BY <1>3, <1>4, TextIs
<1>6. Before(b, b.firstp) = 0 BY Beginnings
<1> QED BY <1>5, <1>6 DEF t
=============================================================================
