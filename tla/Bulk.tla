-------------------------------- MODULE Bulk --------------------------------
(***************************************************************************)
(* The calls of the buffer library that move whole chunks between pages,   *)
(* made on the buffer of module Buff between any of its calls: bindata,    *)
(* bappend, breadv and breadfile, bcopyrgn from another buffer, bwritefile *)
(* and bwritev.  The first four are one step; copying and writing take one *)
(* step per iteration, since the copy may run out of memory in the middle  *)
(* and each write may fail or be short.  The buffer a region is copied     *)
(* from does not change: it is the sequence of what the region has on each *)
(* of its pages.                                                           *)
(*                                                                         *)
(* allocs is what calloc returns to a call, NIL for failing, in order.     *)
(***************************************************************************)
EXTENDS Buff, SequencesExt

CONSTANTS
  CR,        \* the carriage return byte
  Data,      \* what may be inserted, read from a file or from a socket
  Region,    \* what may be copied: bytes for each page from the point's to the mark's
  MAX_IOVS   \* the pages bwritev hands to one system call

ASSUME BulkAssumption ==
  /\ CR \in Byte /\ Data \subseteq Seq(Byte) /\ MAX_IOVS \in Nat \ {0}
  /\ Region \subseteq Seq(Seq(Byte)) \ {<<>>}

VARIABLES
  bulk,  \* the copy or the write in progress
  gap    \* history: a read was made where it leaves an empty page behind

bvars == <<buf, call, ret, bulk, gap>>

NoBulk == [op |-> "none"]

Free == Idle /\ bulk = NoBulk

\* n results of calloc: different free pages, or none.
Allocs(n) ==
  {s \in [1 .. n -> Calloc] : \A i, j \in 1 .. n : i # j /\ s[i] = s[j] => s[i] = NIL}

\* The calls of calloc a call can make with size bytes: one for a page split and
\* one for each chunk.
AllocsFor(size) == Allocs((size + PGSIZE - 1) \div PGSIZE + 1)

First(s, n) == SubSeq(s, 1, n)
Rest(s, n)  == SubSeq(s, n + 1, Len(s))

BulkInit == Init /\ bulk = NoBulk /\ gap = FALSE

-----------------------------------------------------------------------------
(* Inserting a block: operators that return the buffer and what is left of *)
(* the data.                                                               *)

\* The n first bytes of data are put at the end of the current page, with the
\* point behind them.
Filled(b, data, n) ==
  [b EXCEPT !.data    = [@ EXCEPT ![b.curpage] = b.data[b.curpage] \o First(data, n)],
            !.curchar = curplen(b) + n]

\* A new page for the next PGSIZE bytes, until there is no memory.
InNewPage(s, q) ==
  CASE s.left = <<>> \/ s.full                -> s
    [] ~ (s.left = <<>> \/ s.full) /\ q = NIL -> [s EXCEPT !.full = TRUE]
    [] OTHER -> LET n == MIN(PGSIZE, Len(s.left))
                IN [s EXCEPT !.buf = Filled(makecur(newpage(s.buf, q), q, 0), s.left, n),
                             !.left = Rest(s.left, n)]

\* The loops of bappendpage and bindata.
InNewPages(b, data, allocs) ==
  LET after[k \in 0 .. Len(allocs)] ==
        IF k = 0 THEN [buf |-> b, left |-> data, full |-> FALSE]
        ELSE InNewPage(after[k - 1], allocs[k])
  IN after[Len(allocs)]

bappendpage(b, data, allocs) ==
  LET n == MIN(PGSIZE - curplen(b), Len(data))
  IN InNewPages(Filled(b, data, n), Rest(data, n), allocs)

\* The data fits in the page: the marks at the point move with the text behind it.
InPlace(b, data) ==
  LET old == b.data[b.curpage] IN
  [b EXCEPT
     !.data    = [@ EXCEPT ![b.curpage] = First(old, b.curchar) \o data \o Rest(old, b.curchar)],
     !.moffset = [m \in Mark |-> IF b.mpage[m] = b.curpage /\ @[m] >= b.curchar
                                 THEN @[m] + Len(data) ELSE @[m]],
     !.curchar = @ + Len(data)]

\* bindata with a bug: the rest of a split page is not moved before it is filled.
bindata_split(b, data, allocs) ==
  IF b.curchar # curplen(b) /\ PGSIZE - curplen(b) >= Len(data)
  THEN [buf |-> InPlace(b, data), left |-> <<>>]
  ELSE bappendpage(b, data, allocs)

bindata(b, data, allocs) ==
  CASE b.curchar = curplen(b)             -> bappendpage(b, data, allocs)
    [] b.curchar # curplen(b) /\ PGSIZE - curplen(b) >= Len(data)
                                          -> [buf |-> InPlace(b, data), left |-> <<>>]
    [] b.curchar # curplen(b) /\ PGSIZE - curplen(b) < Len(data) ->
         IF allocs[1] = NIL THEN [buf |-> b, left |-> data]
         ELSE bappendpage(pagesplit(b, allocs[1], b.curchar), data, Rest(allocs, 1))

Fits(data) == blength(buf) + Len(data) <= MaxText

\* Neither sets bmodf.
Bindata(data) ==
  /\ Free /\ Fits(data)
  /\ \E allocs \in AllocsFor(Len(data)) :
       LET r == bindata(buf, data, allocs) IN Do(r.buf, Len(data) - Len(r.left))
  /\ UNCHANGED <<bulk, gap>>

Bappend(data) ==
  /\ Free /\ Fits(data)
  /\ \E allocs \in AllocsFor(Len(data)) :
       LET r == bappendpage(btoend(buf), data, allocs) IN Do(r.buf, Len(data) - Len(r.left))
  /\ UNCHANGED <<bulk, gap>>
-----------------------------------------------------------------------------
(* Reading.  A file that cannot be read to its end counts as one that ends *)
(* there, so data is what was read.                                        *)

\* The point in the middle of a page: the file goes into a page of its own behind
\* the first half.  That the split may have failed is not looked at.
Opened(b, q1, q2) ==
  LET s == IF q1 = NIL THEN b ELSE pagesplit(b, q1, b.curchar)
  IN IF q2 = NIL THEN [buf |-> s, done |-> FALSE]
     ELSE [buf |-> makecur(newpage(s, q2), q2, 0), done |-> TRUE]

\* The first bytes read go into an empty page if the point is in one.  The point
\* goes back to where the file starts; without memory it stays behind.
breadfile(b, data, allocs) ==
  LET middle == curplen(b) # 0 /\ b.curchar < PGSIZE
      o      == IF middle THEN Opened(b, allocs[1], allocs[2]) ELSE [buf |-> b, done |-> TRUE]
      n      == IF curplen(o.buf) = 0 THEN MIN(PGSIZE, Len(data)) ELSE 0
      r      == InNewPages(Filled(o.buf, data, n), Rest(data, n), Rest(allocs, IF middle THEN 2 ELSE 0))
  IN CASE ~ o.done                 -> o
       [] o.done /\ r.left # <<>>  ->
            [buf  |-> makeoffset(r.buf, IF r.buf.curpage = o.buf.curpage THEN o.buf.curchar ELSE 0),
             done |-> FALSE]
       [] o.done /\ r.left = <<>>  ->
            [buf  |-> [makecur(r.buf, o.buf.curpage, o.buf.curchar) EXCEPT !.bmodf = FALSE],
             done |-> TRUE]

\* An empty page is left behind with the point at an end of its page, or if
\* nothing is read.
Breadfile(data) ==
  /\ Free /\ Fits(data)
  /\ \E allocs \in AllocsFor(Len(data) + 1) :
       LET r == breadfile(buf, data, allocs) IN Do(r.buf, IF r.done THEN 0 ELSE -1)
  /\ gap' = (gap \/ /\ curplen(buf) # 0 /\ buf.curchar < PGSIZE
                    /\ buf.curchar \in {0, curplen(buf)} \/ data = <<>>)
  /\ UNCHANGED bulk

\* breadv has split the page when it reads: if nothing comes, the page stays split.
breadv(b, data, q1, q2) ==
  LET split == b.curchar # curplen(b)
      s     == IF split THEN pagesplit(b, q1, b.curchar) ELSE b
      n     == MIN(PGSIZE - curplen(s), Len(data))
  IN IF split /\ q1 = NIL THEN [buf |-> b, ret |-> -1]
     ELSE [buf |-> InNewPages(Filled(s, data, n), Rest(data, n), <<q2>>).buf,
           ret |-> IF q2 = NIL THEN -1 ELSE Len(data)]

Breadv(data) ==
  /\ Free /\ Fits(data)
  /\ \E allocs \in Allocs(2), n \in 0 .. Len(data) :
       LET left == PGSIZE - (IF buf.curchar # curplen(buf) THEN buf.curchar ELSE curplen(buf))
           got  == IF allocs[2] = NIL THEN 0 ELSE n
           r    == breadv(buf, First(data, got), allocs[1], allocs[2])
       IN n <= left + PGSIZE /\ Do(r.buf, r.ret) /\ gap' = (gap \/ (got = 0 /\ buf.curchar = 0))
  /\ UNCHANGED bulk

-----------------------------------------------------------------------------
(* Copying a region, a chunk at a time.  left is what is still to be copied *)
(* from the page of the source's point and from the pages behind it.       *)

Bcopyrgn(region) ==
  /\ Free /\ Fits(FlattenSeq(region))
  /\ bulk' = [op |-> "bcopyrgn", left |-> region, copied |-> 0, region |-> FlattenSeq(region)]
  /\ ret' = 0 /\ UNCHANGED <<buf, call, gap>>

\* The source's point is before its mark.
NotAtMark == bulk.left # << <<>> >>

\* bmove takes the source's point n bytes on, to the next page at the end of its
\* own; it does not move for n = 0.
Moved(left, n) ==
  IF n > 0 /\ n = Len(Head(left)) /\ Len(left) > 1 THEN Tail(left)
  ELSE [left EXCEPT ![1] = Rest(@, n)]

\* Make a gap and fill it in: the marks at the point stay where they are.
Gapped(b, chunk) ==
  LET old == b.data[b.curpage] IN
  [b EXCEPT
     !.data    = [@ EXCEPT ![b.curpage] = First(old, b.curchar) \o chunk \o Rest(old, b.curchar)],
     !.moffset = [m \in Mark |-> IF b.mpage[m] = b.curpage /\ @[m] > b.curchar
                                 THEN @[m] + Len(chunk) ELSE @[m]],
     !.curchar = @ + Len(chunk),
     !.bmodf   = TRUE]

CopyChunk(to, n) ==
  /\ buf' = Gapped(to, First(Head(bulk.left), n))
  /\ bulk' = [bulk EXCEPT !.left = Moved(@, n), !.copied = @ + n]
  /\ UNCHANGED <<call, ret, gap>>

\* CopyStep with a bug: a page that is not full takes all the source's page has.
CopyStep_over ==
  /\ bulk.op = "bcopyrgn" /\ NotAtMark
  /\ \E to \in IF curplen(buf) < PGSIZE THEN {buf}
               ELSE {pagesplit(buf, q, HALFP) : q \in Calloc \ {NIL}} :
       CopyChunk(to, Len(Head(bulk.left)))

\* A full page is split in the middle, wherever the point is in it.
CopyStep ==
  /\ bulk.op = "bcopyrgn" /\ NotAtMark
  /\ \E to \in IF curplen(buf) < PGSIZE THEN {buf}
               ELSE {pagesplit(buf, q, HALFP) : q \in Calloc \ {NIL}} :
       CopyChunk(to, MIN(Len(Head(bulk.left)), PGSIZE - curplen(to)))

\* The mark is reached, or there is no memory to split a full page.
CopyReturn ==
  /\ bulk.op = "bcopyrgn"
  /\ NotAtMark => curplen(buf) = PGSIZE
  /\ bulk' = NoBulk /\ ret' = bulk.copied
  /\ UNCHANGED <<buf, call, gap>>

-----------------------------------------------------------------------------
(* Writing. *)

\* With crlf (mode FILE_CRLF) each newline is written as a CR and a newline.
Dos(s) == FlattenSeq([i \in DOMAIN s |-> IF s[i] = NL THEN <<CR, NL>> ELSE <<s[i]>>])

Written(s, crlf) == IF crlf THEN Dos(s) ELSE s

\* creat has emptied the file.
Bwritefile(crlf) ==
  /\ Free
  /\ bulk' = [op |-> "bwritefile", crlf |-> crlf, page |-> buf.firstp, file |-> <<>>, status |-> 1]
  /\ ret' = 0 /\ UNCHANGED <<buf, call, gap>>

BwritefileNoFile == Free /\ Do(btostart(buf), 0) /\ UNCHANGED <<bulk, gap>>

\* WritePage with a bug: a short write is forgotten when the next one succeeds.
WritePage_short ==
  /\ bulk.op = "bwritefile" /\ bulk.page # NIL
  /\ LET bytes == Written(buf.data[bulk.page], bulk.crlf)
     IN \E n \in 0 .. Len(bytes) :
          bulk' = [bulk EXCEPT !.page = buf.nextp[@], !.file = @ \o First(bytes, n),
                               !.status = IF n = Len(bytes) THEN 1 ELSE 0]
  /\ buf' = IF plen(buf, bulk.page) = 0 THEN buf ELSE makecur(buf, bulk.page, 0)
  /\ UNCHANGED <<call, ret, gap>>

\* write puts n bytes of the page into the file, none if it fails.
WritePage ==
  /\ bulk.op = "bwritefile" /\ bulk.page # NIL /\ bulk.status = 1
  /\ LET bytes == Written(buf.data[bulk.page], bulk.crlf)
     IN \E n \in 0 .. Len(bytes) :
          bulk' = [bulk EXCEPT !.page = buf.nextp[@], !.file = @ \o First(bytes, n),
                               !.status = IF n = Len(bytes) THEN 1 ELSE 0]
  /\ buf' = IF plen(buf, bulk.page) = 0 THEN buf ELSE makecur(buf, bulk.page, 0)
  /\ UNCHANGED <<call, ret, gap>>

BwritefileReturn ==
  /\ bulk.op = "bwritefile"
  /\ bulk.page = NIL \/ bulk.status = 0
  /\ buf' = [btostart(buf) EXCEPT !.bmodf = @ /\ bulk.status = 0]
  /\ bulk' = NoBulk /\ ret' = bulk.status
  /\ UNCHANGED <<call, gap>>

Bwritev(size) ==
  /\ Free
  /\ bulk' = [op |-> "bwritev", size |-> size, file |-> <<>>, place |-> blocation(buf), more |-> TRUE]
  /\ ret' = 0 /\ UNCHANGED <<buf, call, gap>>

\* One page more, if there is one.
NextIov(b, s) ==
  IF s.page = NIL THEN s
  ELSE [page |-> b.nextp[s.page], bytes |-> s.bytes \o b.data[s.page]]

\* What is in the point's page behind the point and in the MAX_IOVS - 1 pages
\* behind it.
Ahead(b) ==
  LET iovs[i \in 0 .. MAX_IOVS - 1] ==
        IF i = 0 THEN [page |-> b.nextp[b.curpage], bytes |-> Rest(b.data[b.curpage], b.curchar)]
        ELSE NextIov(b, iovs[i - 1])
  IN iovs[MAX_IOVS - 1].bytes

\* The place dist bytes on, as bmove leaves it: at the end of a page only if it is the
\* last, and on the first of the pages that start there.
MovedOn(b, dist) ==
  {c \in {makecur(b, p, off) : p \in b.alive, off \in 0 .. PGSIZE} :
    /\ blocation(c) = blocation(b) + dist
    /\ IF c.curchar = 0 THEN plen(c, c.prevp[c.curpage]) # 0
       ELSE c.curchar < curplen(c) \/ (isLast(c, c.curpage) /\ c.curchar = curplen(c))}

\* writev takes n of the bytes it is given, or fails with -1.
BwritevStep ==
  /\ bulk.op = "bwritev" /\ bulk.more
  /\ LET bytes == First(Ahead(buf), MIN(bulk.size, Len(Ahead(buf))))
     IN \E n \in -1 .. Len(bytes) :
          /\ buf' \in IF n <= 0 THEN {buf} ELSE MovedOn(buf, n)
          /\ bulk' = [bulk EXCEPT !.size = @ - Len(bytes), !.file = @ \o First(bytes, n),
                        !.more = n = Len(bytes) /\ bulk.size > Len(bytes)]
  /\ UNCHANGED <<call, ret, gap>>

BwritevReturn ==
  /\ bulk.op = "bwritev" /\ ~ bulk.more
  /\ bulk' = NoBulk /\ ret' = Len(bulk.file)
  /\ UNCHANGED <<buf, call, gap>>

-----------------------------------------------------------------------------
BulkCall ==
  \/ \E data \in Data : Bindata(data) \/ Bappend(data) \/ Breadfile(data) \/ Breadv(data)
  \/ \E region \in Region : Bcopyrgn(region)
  \/ \E crlf \in BOOLEAN : Bwritefile(crlf)
  \/ BwritefileNoFile
  \/ \E size \in 0 .. MaxText : Bwritev(size)

\* The code of such a call in progress.
BulkStep ==
  \/ CopyStep \/ CopyReturn \/ WritePage \/ BwritefileReturn \/ BwritevStep \/ BwritevReturn

BulkNext ==
  \/ bulk = NoBulk /\ Next /\ UNCHANGED <<bulk, gap>>
  \/ BulkCall
  \/ BulkStep

BulkSpec == BulkInit /\ [][BulkNext]_bvars

-----------------------------------------------------------------------------
(* Properties. *)

\* Splitting at the point and putting whole pages in leaves the list, the point
\* and the marks well formed, with no page over PGSIZE; and no page is empty, as
\* bpeek relies on, unless breadfile or breadv was called where it leaves one.
BulkInv == WellFormed(buf) /\ (gap \/ PagesUsed)

MarkAt(b, m) == Before(b, b.mpage[m]) + b.moffset[m]

\* The step put data into the text at place at: the marks behind it go with the
\* text, those in front of it stay.
Grown(data, at) ==
  /\ Text(buf') = First(Text(buf), at) \o data \o Rest(Text(buf), at)
  /\ \A m \in Mark : OnList(m) =>
       LET p == MarkAt(buf, m) IN
       MarkAt(buf', m) \in (IF p <= at THEN {p} ELSE {}) \cup (IF p >= at THEN {p + Len(data)} ELSE {})

GrownAtPoint(data) ==
  Grown(data, blocation(buf)) /\ blocation(buf') = blocation(buf) + Len(data)

\* Where breadfile puts the file: at the point, or behind the point's page if
\* there was no memory to split it.
FilePlaces ==
  {blocation(buf)} \cup (IF buf'.data[buf.curpage] = buf.data[buf.curpage]
                         THEN {Before(buf, buf.curpage) + curplen(buf)} ELSE {})

\* A block that is inserted chunk by chunk, over pages that are split, filled up
\* and linked in, is in the text at the point in one piece and in order, as far as
\* there was memory and as the call returns; marks move as if it was typed.  So does
\* each chunk of a copy, which ends early only if a full page could not be split and
\* goes on until then, unless it starts at the end of a page that is not the last:
\* then it copies 0 bytes for ever.
Inserted ==
  [][/\ (Free /\ Free' /\ buf' # buf) => \A data \in Data :
          /\ Bindata(data) => GrownAtPoint(First(data, ret'))
          /\ Bappend(data) => Grown(First(data, ret'), blength(buf)) /\ bisend(buf')
          /\ Breadfile(data) =>
               IF ret' = 0
               THEN \E at \in FilePlaces : Grown(data, at) /\ blocation(buf') = at
               ELSE \E n \in 0 .. Len(data), at \in FilePlaces : Grown(First(data, n), at)
          /\ Breadv(data) => \E n \in 0 .. Len(data) : n \in {ret', ret' + 1} /\ GrownAtPoint(First(data, n))
     /\ (bulk.op = "bcopyrgn" /\ bulk' # NoBulk) =>
          /\ GrownAtPoint(SubSeq(bulk.region, bulk.copied + 1, bulk'.copied))
          /\ Head(bulk.left) # <<>> => bulk'.copied > bulk.copied
     /\ (bulk.op = "bcopyrgn" /\ bulk' = NoBulk) =>
          ret' = Len(bulk.region) \/ curplen(buf) = PGSIZE]_bvars

\* What is in the file when bwritefile says it succeeded is the text, page by page,
\* a CR before each newline if asked for; when it says it failed, less than that.
\* bwritev has written what lies between where the point was and where it is, and
\* goes on only with bytes left to write, each time with fewer.  Asked for more than there
\* is, or where reads left MAX_IOVS empty pages, it writes 0 bytes for ever: a step that
\* changes nothing.
WritesText ==
  [][/\ (bulk.op = "bwritefile" /\ bulk' = NoBulk) =>
          LET whole == Written(Text(buf), bulk.crlf)
          IN IF ret' = 1 THEN bulk.file = whole
             ELSE IsStrictPrefix(bulk.file, whole)
     /\ (bulk.op = "bwritev" /\ bulk' = NoBulk) =>
          bulk.file = SubSeq(Text(buf), bulk.place + 1, blocation(buf)) /\ ret' = Len(bulk.file)
     /\ (bulk.op = "bwritev" /\ bulk' # NoBulk /\ bulk'.more) =>
          bulk'.size > 0 /\ bulk'.size < bulk.size]_bvars

=============================================================================
