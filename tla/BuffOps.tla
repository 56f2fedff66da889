------------------------------- MODULE BuffOps -------------------------------
(***************************************************************************)
(* The operations of zedit's buffer library (src/buff), as operators on    *)
(* one record, struct buff with its pages and its dynamic marks.  A buffer *)
(* is a doubly linked list of pages of at most PGSIZE bytes; the point and *)
(* every mark is a page and an offset in that page.                        *)
(*                                                                         *)
(* Only the live bytes of a page are kept: plen is Len(data[page]).  An    *)
(* operation that may allocate takes the page calloc returned, q; NIL is   *)
(* calloc failing.  Loops over pages are not here: their bodies are, and   *)
(* the state machine of module Buff runs them one iteration at a time.     *)
(***************************************************************************)
EXTENDS Integers, Sequences, FiniteSets

CONSTANTS
  Page,    \* addresses that calloc(sizeof(struct page)) may return
  Mark,    \* the dynamic marks
  Byte,    \* the values of a byte
  NL,      \* the newline byte
  NIL,     \* the null pointer
  PGSIZE   \* bytes in a page

ASSUME PageAssumption == NIL \notin Page
ASSUME ByteAssumption == NL \in Byte
ASSUME PGSIZEAssumption == PGSIZE \in Nat \ {0} /\ PGSIZE % 2 = 0

HALFP == PGSIZE \div 2

(***************************************************************************)
(* struct buff.  "alive" is the set of pages that were allocated for the   *)
(* buffer and not freed.  mpage[m] = NIL: mark m is not on buff->marks.    *)
(***************************************************************************)
Buffer ==
  [alive   : SUBSET Page,
   firstp  : Page,
   lastp   : Page,
   nextp   : [Page -> Page \cup {NIL}],
   prevp   : [Page -> Page \cup {NIL}],
   data    : [Page -> Seq(Byte)],
   curpage : Page,
   curchar : Nat,
   bmodf   : BOOLEAN,
   mpage   : [Mark -> Page \cup {NIL}],
   moffset : [Mark -> Nat]]

MIN(a, b) == IF a < b THEN a ELSE b

plen(b, p)   == Len(b.data[p])
curplen(b)   == plen(b, b.curpage)
isLast(b, p) == b.nextp[p] = NIL
bisstart(b)  == b.curpage = b.firstp /\ b.curchar = 0
bisend(b)    == isLast(b, b.curpage) /\ b.curchar >= curplen(b)

bcreate(q) ==
  [alive   |-> {q},
   firstp  |-> q,
   lastp   |-> q,
   nextp   |-> [p \in Page |-> NIL],
   prevp   |-> [p \in Page |-> NIL],
   data    |-> [p \in Page |-> <<>>],
   curpage |-> q,
   curchar |-> 0,
   bmodf   |-> FALSE,
   mpage   |-> [m \in Mark |-> NIL],
   moffset |-> [m \in Mark |-> 0]]

-----------------------------------------------------------------------------
(* Pages. *)

\* newpage with a bug: the page after the new one keeps its prevp.
newpage_prevp(b, q) ==
  LET nxt == b.nextp[b.curpage]
  IN [b EXCEPT
        !.alive = @ \cup {q},
        !.lastp = IF nxt = NIL THEN q ELSE @,
        !.nextp = [@ EXCEPT ![q] = nxt, ![b.curpage] = q],
        !.prevp = [@ EXCEPT ![q] = b.curpage],
        !.data  = [@ EXCEPT ![q] = <<>>]]

\* Link the new, empty page q in after the current page.
newpage(b, q) ==
  LET cur == b.curpage
      nxt == b.nextp[cur]
  IN [b EXCEPT
        !.alive = @ \cup {q},
        !.lastp = IF nxt = NIL THEN q ELSE @,
        !.nextp = [@ EXCEPT ![q] = nxt, ![cur] = q],
        !.prevp = [p \in Page |->
                     CASE p = q -> cur [] p # q /\ p = nxt -> q [] OTHER -> @[p]],
        !.data  = [@ EXCEPT ![q] = <<>>]]

\* Unlink and free page x.
freepage(b, x) ==
  LET nxt == b.nextp[x]
      prv == b.prevp[x]
  IN [b EXCEPT
        !.alive  = @ \ {x},
        !.lastp  = IF nxt = NIL THEN prv ELSE @,
        !.firstp = IF prv = NIL THEN nxt ELSE @,
        !.nextp  = [p \in Page |->
                      CASE p = x -> NIL [] p # x /\ p = prv -> nxt [] OTHER -> @[p]],
        !.prevp  = [p \in Page |->
                      CASE p = x -> NIL [] p # x /\ p = nxt -> prv [] OTHER -> @[p]],
        !.data   = [@ EXCEPT ![x] = <<>>]]

makecur(b, p, dist)  == [b EXCEPT !.curpage = p, !.curchar = dist]
makeoffset(b, dist)  == [b EXCEPT !.curchar = dist]

\* Move the bytes of the current page from dist on to the new page q.  The
\* marks at dist go with them, the point at dist does not.
pagesplit(b, q, dist) ==
  LET old   == b.curpage
      s     == newpage(b, q)
      moved == {m \in Mark : b.mpage[m] = old /\ b.moffset[m] >= dist}
  IN [s EXCEPT
        !.data    = [@ EXCEPT ![old] = SubSeq(b.data[old], 1, dist),
                              ![q]   = SubSeq(b.data[old], dist + 1, plen(b, old))],
        !.mpage   = [m \in Mark |-> IF m \in moved THEN q ELSE @[m]],
        !.moffset = [m \in Mark |-> IF m \in moved THEN @[m] - dist ELSE @[m]],
        !.curpage = IF b.curchar > dist THEN q ELSE @,
        !.curchar = IF b.curchar > dist THEN @ - dist ELSE @]

-----------------------------------------------------------------------------
(* Changing the text. *)

\* binsert with a bug: the marks after the point do not move with the text.
binsert_marks(b, ch, q) ==
  LET s   == IF curplen(b) = PGSIZE THEN pagesplit(b, q, HALFP) ELSE b
      old == s.data[s.curpage]
  IN [s EXCEPT
        !.data    = [@ EXCEPT ![s.curpage] =
                       SubSeq(old, 1, s.curchar) \o <<ch>>
                         \o SubSeq(old, s.curchar + 1, Len(old))],
        !.curchar = @ + 1,
        !.bmodf   = TRUE]

\* q is the page a full page is split with; it is not used otherwise.
binsert(b, ch, q) ==
  LET s   == IF curplen(b) = PGSIZE THEN pagesplit(b, q, HALFP) ELSE b
      old == s.data[s.curpage]
  IN [s EXCEPT
        !.data    = [@ EXCEPT ![s.curpage] =
                       SubSeq(old, 1, s.curchar) \o <<ch>>
                         \o SubSeq(old, s.curchar + 1, Len(old))],
        !.curchar = @ + 1,
        !.bmodf   = TRUE,
        !.moffset = [m \in Mark |->
                       IF s.mpage[m] = s.curpage /\ @[m] >= s.curchar + 1
                       THEN @[m] + 1 ELSE @[m]]]

\* delete_entire_page with bugs: the marks stay on the freed page; the page is
\* not freed.
delete_entire_page_marks(b, x) ==
  IF isLast(b, x)
  THEN makecur(freepage(b, x), b.prevp[x], plen(b, b.prevp[x]))
  ELSE makecur(freepage(b, x), b.nextp[x], 0)

\* The page x is empty and not the only one: the point and the marks on x go
\* to the next page, or to the end of the previous one.
delete_entire_page(b, x) ==
  LET tpage   == IF isLast(b, x) THEN b.prevp[x] ELSE b.nextp[x]
      noffset == IF isLast(b, x) THEN plen(b, tpage) ELSE 0
      moved   == {m \in Mark : b.mpage[m] = x}
      s       == [b EXCEPT
                    !.mpage   = [m \in Mark |-> IF m \in moved THEN tpage ELSE @[m]],
                    !.moffset = [m \in Mark |-> IF m \in moved THEN noffset ELSE @[m]]]
  IN makecur(freepage(s, x), tpage, noffset)

\* How many of quantity bytes one iteration of bdelete's loop deletes.
quan(b, quantity) == MIN(curplen(b) - b.curchar, quantity)

\* One iteration of bdelete's loop.  The bytes go from the current page, the
\* local variable curpage (here page) decides on marks, point and page.
bdelete_page(b, page, quantity) ==
  LET n    == quan(b, quantity)
      cur  == b.curpage
      old  == b.data[cur]
      cut  == SubSeq(old, 1, b.curchar) \o SubSeq(old, b.curchar + n + 1, Len(old))
      s    == [b EXCEPT !.data = [@ EXCEPT ![cur] = cut], !.bmodf = TRUE]
      skip == b.curchar >= Len(cut) /\ ~ isLast(b, page)
      tpage   == IF skip THEN b.nextp[page] ELSE page
      noffset == IF skip THEN 0 ELSE b.curchar
      after   == {m \in Mark : b.mpage[m] = page /\ b.moffset[m] >= b.curchar + n}
      inside  == {m \in Mark : b.mpage[m] = page
                                 /\ b.moffset[m] \in b.curchar .. b.curchar + n - 1}
      t    == [s EXCEPT
                 !.mpage   = [m \in Mark |-> IF m \in inside THEN tpage ELSE @[m]],
                 !.moffset = [m \in Mark |-> CASE m \in inside -> noffset
                                               [] m \in after  -> @[m] - n
                                               [] OTHER        -> @[m]]]
  IN IF cut = <<>> /\ (b.nextp[page] # NIL \/ b.prevp[page] # NIL)
     THEN delete_entire_page(s, page)
     ELSE makecur(t, tpage, noffset)

bdelete_left_last(b, page, quantity) == quantity - quan(b, quantity)

\* What is left to delete after that iteration.
bdelete_left(b, page, quantity) ==
  IF isLast(b, page) THEN 0 ELSE quantity - quan(b, quantity)

\* Free every page but the first.  bmodf is left alone.
bempty(b) ==
  [b EXCEPT
     !.alive   = {b.firstp},
     !.lastp   = b.firstp,
     !.nextp   = [p \in Page |-> NIL],
     !.prevp   = [p \in Page |-> NIL],
     !.data    = [p \in Page |-> <<>>],
     !.curpage = b.firstp,
     !.curchar = 0,
     !.mpage   = [m \in Mark |-> IF @[m] = NIL THEN NIL ELSE b.firstp],
     !.moffset = [m \in Mark |-> 0]]

-----------------------------------------------------------------------------
(* Moving the point. *)

btostart(b) == makecur(b, b.firstp, 0)
btoend(b)   == makecur(b, b.lastp, plen(b, b.lastp))

bmove1(b) ==
  CASE b.curchar + 1 < curplen(b) -> makeoffset(b, b.curchar + 1)
    [] b.curchar + 1 >= curplen(b) /\ ~ isLast(b, b.curpage)
                                  -> makecur(b, b.nextp[b.curpage], 0)
    [] OTHER                      -> makeoffset(b, curplen(b))

-----------------------------------------------------------------------------
(* Marks. *)

bmrktopnt(b, m) ==
  [b EXCEPT !.mpage = [@ EXCEPT ![m] = b.curpage],
            !.moffset = [@ EXCEPT ![m] = b.curchar]]

bdelmark(b, m) ==
  [b EXCEPT !.mpage = [@ EXCEPT ![m] = NIL], !.moffset = [@ EXCEPT ![m] = 0]]

bpnttomrk(b, m) == makecur(b, b.mpage[m], b.moffset[m])

bswappnt(b, m) ==
  [bpnttomrk(b, m) EXCEPT !.mpage = [@ EXCEPT ![m] = b.curpage],
                          !.moffset = [@ EXCEPT ![m] = b.curchar]]

mrktomrk(b, m1, m2) ==
  [b EXCEPT !.mpage = [@ EXCEPT ![m1] = b.mpage[m2]],
            !.moffset = [@ EXCEPT ![m1] = b.moffset[m2]]]

-----------------------------------------------------------------------------
(* What the pages stand for: the place of a page in the list, the text the *)
(* pages hold, and the place in that text of a page and an offset.         *)

\* For each page of the list, the sum of weight over the pages before it.
Summed(b, weight) ==
  LET sum[p \in Page] ==
        IF p \in b.alive \ {b.firstp} THEN sum[b.prevp[p]] + weight[b.prevp[p]] ELSE 0
  IN sum

\* How many pages are before each page.
Rank(b) == Summed(b, [p \in Page |-> 1])

\* Page p comes before page r in the list.
Precedes(b, p, r) == Rank(b)[p] < Rank(b)[r]

\* The pages in the order of the list.
Chain(b) ==
  [i \in 1 .. Cardinality(b.alive) |-> CHOOSE p \in b.alive : Rank(b)[p] = i - 1]

\* The number of bytes in the pages before page p.
Before(b, p) == Summed(b, [r \in Page |-> plen(b, r)])[p]

blocation(b) == Before(b, b.curpage) + b.curchar
blength(b)   == Before(b, b.lastp) + plen(b, b.lastp)

\* The page that holds the i-th byte of the text.
Holder(b, i) == CHOOSE p \in b.alive : i - Before(b, p) \in 1 .. plen(b, p)

Text(b) ==
  [i \in 1 .. blength(b) |->
     LET p == Holder(b, i) IN b.data[p][i - Before(b, p)]]

bisaftermrk(b, m) ==
  IF b.mpage[m] = b.curpage THEN b.curchar > b.moffset[m]
  ELSE Precedes(b, b.mpage[m], b.curpage)

bisbeforemrk(b, m) ==
  IF b.mpage[m] = b.curpage THEN b.curchar < b.moffset[m]
  ELSE Precedes(b, b.curpage, b.mpage[m])

\* The byte before the point, without moving it.  NIL is the byte in front of
\* pdata, read when the previous page is empty.
bpeek(b) ==
  LET prev == b.prevp[b.curpage]
  IN CASE b.curchar > 0                 -> b.data[b.curpage][b.curchar]
       [] b.curchar = 0 /\ prev = NIL   -> NL
       [] OTHER -> IF plen(b, prev) = 0 THEN NIL ELSE b.data[prev][plen(b, prev)]

\* The point is at the end of a page that is not the last.  *curcptr is then
\* not the next byte of the text.
AtSeam(b) == b.curchar >= curplen(b) /\ ~ isLast(b, b.curpage)

-----------------------------------------------------------------------------
(* A well formed buffer, in parts. *)

Linked(b) ==
  /\ b.firstp \in b.alive /\ b.prevp[b.firstp] = NIL
  /\ b.lastp \in b.alive  /\ b.nextp[b.lastp] = NIL
  /\ \A p \in b.alive \ {b.lastp} :
       b.nextp[p] \in b.alive /\ b.prevp[b.nextp[p]] = p
  /\ \A p \in b.alive \ {b.firstp} :
       b.prevp[p] \in b.alive /\ b.nextp[b.prevp[p]] = p

\* Every page of the buffer is reached from firstp: a set of pages that holds
\* firstp and the successor of each of its pages holds them all.
Reachable(b) ==
  \A S \in SUBSET b.alive :
    b.firstp \in S /\ (\A p \in S : b.nextp[p] # NIL => b.nextp[p] \in S)
      => S = b.alive

PagesFit(b) == \A p \in b.alive : plen(b, p) <= PGSIZE

PointInside(b) == b.curpage \in b.alive /\ b.curchar <= curplen(b)

MarksInside(b) ==
  \A m \in Mark : b.mpage[m] # NIL =>
    b.mpage[m] \in b.alive /\ b.moffset[m] <= plen(b, b.mpage[m])

\* No page is empty, but the only one of an empty buffer.
NoEmptyPage(b) == \A p \in b.alive : plen(b, p) = 0 => b.alive = {p}

WellFormed(b) ==
  /\ b \in Buffer
  /\ Linked(b) /\ Reachable(b) /\ PagesFit(b) /\ PointInside(b) /\ MarksInside(b)
=============================================================================
