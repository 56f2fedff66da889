-------------------------------- MODULE Buff --------------------------------
(***************************************************************************)
(* One zedit buffer (src/buff) used by one caller, which calls any of the  *)
(* library's operations in any order.  The operations that loop over pages *)
(* - bdelete, bdeltomrk, bmove - are a call, kept in "call", and one step  *)
(* per iteration of their loop; the others are a single step.              *)
(*                                                                         *)
(* The library is modelled as it is built without UNDO, when undo_add,     *)
(* undo_del and undo_clear are empty.                                      *)
(***************************************************************************)
EXTENDS BuffOps

CONSTANTS
  MaxText,    \* bound on the bytes in the buffer
  MaxMove,    \* bound on the distance given to bmove
  MaxDelete,  \* bound on the quantity given to bdelete
  CrossPage   \* may bdelete and bmove1 be called on bytes of the next page?

ASSUME BoundsAssumption ==
  /\ MaxText \in Nat /\ MaxMove \in Nat /\ MaxDelete \in Nat
  /\ CrossPage \in BOOLEAN

\* bdelete across a page boundary leaves marks past the end of their page, and
\* memmove and memcpy then get a length below 0: nothing is known of a program
\* that goes on from there.  Such calls are explored in a buffer without marks.
ASSUME CrossPageAssumption == CrossPage => Mark = {}

VARIABLES
  buf,   \* the buffer
  call,  \* the looping call in progress
  ret    \* what the last call returned: a count, or 1 and 0 for done and not

vars == <<buf, call, ret>>

\* op:   the function being executed, "none" between two calls; "undefined"
\*       once freed memory was used: nothing is known of the program then.
\* page: bdelete's local variable curpage.  mark: bdeltomrk's argument.
\* left: what bdelete still has to delete, bmove still has to move by, and
\*       what bdeltomrk has deleted.
Call ==
  [op   : {"none", "bdelete", "bdeltomrk", "bmove", "undefined"},
   page : Page \cup {NIL},
   mark : Mark \cup {NIL},
   left : Int]

NoCall == [op |-> "none", page |-> NIL, mark |-> NIL, left |-> 0]

Idle == call = NoCall

Return(result) == call' = NoCall /\ ret' = result

\* A call that does not loop: it leaves buffer b and returns result.
Do(b, result) == Idle /\ buf' = b /\ Return(result)

\* The pages calloc may return: a free one, or none.
Calloc == (Page \ buf.alive) \cup {NIL}

\* The n bytes at the point are all in the point's page.
InPage(n) == n <= curplen(buf) - buf.curchar \/ isLast(buf, buf.curpage)

OnList(m) == buf.mpage[m] # NIL

Init ==
  /\ \E p \in Page : buf = bcreate(p)
  /\ call = NoCall
  /\ ret = 0

-----------------------------------------------------------------------------
(* Changing the text. *)

Binsert(ch) ==
  /\ blength(buf) < MaxText
  /\ curplen(buf) < PGSIZE
  /\ Do(binsert(buf, ch, NIL), 1)

BinsertSplit(ch) ==
  /\ blength(buf) < MaxText
  /\ curplen(buf) = PGSIZE
  /\ \E q \in Calloc \ {NIL} : Do(binsert(buf, ch, q), 1)

BinsertNoMemory ==
  /\ curplen(buf) = PGSIZE
  /\ Do(buf, 0)

Bempty == Do(bempty(buf), 0)

Bdelete(n) ==
  /\ Idle
  /\ CrossPage \/ InPage(n)
  /\ call' = [NoCall EXCEPT !.op = "bdelete", !.page = buf.curpage, !.left = n]
  /\ UNCHANGED <<buf, ret>>

BdeleteStep ==
  /\ call.op = "bdelete"
  /\ IF call.page \in buf.alive
     THEN /\ buf' = bdelete_page(buf, call.page, call.left)
          /\ LET left == bdelete_left(buf, call.page, call.left)
             IN IF left = 0
                THEN Return(0)
                ELSE call' = [call EXCEPT !.left = left] /\ UNCHANGED ret
     ELSE /\ call' = [NoCall EXCEPT !.op = "undefined"]
          /\ UNCHANGED <<buf, ret>>

Bdeltomrk(m) ==
  /\ Idle
  /\ OnList(m)
  /\ buf' = IF bisaftermrk(buf, m) THEN bswappnt(buf, m) ELSE buf
  /\ call' = [NoCall EXCEPT !.op = "bdeltomrk", !.mark = m]
  /\ UNCHANGED ret

\* What bdeltomrk's loop asks bdelete to delete.
Amount(m) ==
  (IF buf.curpage = buf.mpage[m] THEN buf.moffset[m] ELSE curplen(buf)) - buf.curchar

BdeltomrkStep ==
  /\ call.op = "bdeltomrk"
  /\ bisbeforemrk(buf, call.mark)
  /\ buf' = IF Amount(call.mark) = 0 THEN buf
            ELSE bdelete_page(buf, buf.curpage, Amount(call.mark))
  /\ call' = [call EXCEPT !.left = @ + Amount(call.mark)]
  /\ UNCHANGED ret

BdeltomrkReturn ==
  /\ call.op = "bdeltomrk"
  /\ ~ bisbeforemrk(buf, call.mark)
  /\ Return(call.left)
  /\ UNCHANGED buf

-----------------------------------------------------------------------------
(* Moving the point. *)

Bmove(dist) ==
  /\ Idle
  /\ call' = [NoCall EXCEPT !.op = "bmove", !.left = dist]
  /\ UNCHANGED <<buf, ret>>

\* Go to the end of the previous page or the start of the next one, with dist
\* still to move by.
Turn(b, dist) ==
  /\ buf' = b
  /\ IF dist = 0 THEN Return(1)
     ELSE call' = [call EXCEPT !.left = dist] /\ UNCHANGED ret

BmoveStep ==
  LET dist == call.left + buf.curchar
      cur  == buf.curpage
      prev == buf.prevp[cur]
  IN
  /\ call.op = "bmove"
  /\ \/ /\ dist \in 0 .. curplen(buf) - 1
        /\ buf' = makeoffset(buf, dist)
        /\ Return(1)
     \/ /\ dist < 0
        /\ cur = buf.firstp
        /\ buf' = makeoffset(buf, 0)
        /\ Return(0)
     \/ /\ dist < 0
        /\ cur # buf.firstp
        /\ Turn(makecur(buf, prev, plen(buf, prev)), dist)
     \/ /\ dist >= curplen(buf)
        /\ isLast(buf, cur)
        /\ buf' = makeoffset(buf, curplen(buf))
        /\ Return(0)
     \/ /\ dist >= curplen(buf)
        /\ ~ isLast(buf, cur)
        /\ Turn(makecur(buf, buf.nextp[cur], 0), dist - curplen(buf))

Bmove1 == (CrossPage \/ InPage(1)) /\ Do(bmove1(buf), 0)

Btostart == Do(btostart(buf), 0)

Btoend == Do(btoend(buf), 0)

\* The loop of boffset looks for the first page whose bytes reach offset n; it
\* changes nothing on its way.  n is an offset of the text.
Boffset(n) ==
  /\ Idle
  /\ \E p \in buf.alive :
       LET off == n - Before(buf, p)
       IN /\ off \in 0 .. plen(buf, p)
          /\ off > 0 \/ p = buf.firstp
          /\ Do(makecur(buf, p, off), 0)

-----------------------------------------------------------------------------
(* Marks. *)

Bcremark(m) == ~ OnList(m) /\ Do(bmrktopnt(buf, m), 1)

Bdelmark(m) == OnList(m) /\ Do(bdelmark(buf, m), 0)

Bmrktopnt(m) == OnList(m) /\ Do(bmrktopnt(buf, m), 0)

Bpnttomrk(m) == OnList(m) /\ Do(bpnttomrk(buf, m), 1)

Bswappnt(m) == OnList(m) /\ Do(bswappnt(buf, m), 1)

Mrktomrk(m1, m2) == OnList(m1) /\ OnList(m2) /\ Do(mrktomrk(buf, m1, m2), 0)

-----------------------------------------------------------------------------
MarkCall ==
  \E m \in Mark :
    \/ Bdeltomrk(m)
    \/ Bcremark(m)
    \/ Bdelmark(m)
    \/ Bmrktopnt(m)
    \/ Bpnttomrk(m)
    \/ Bswappnt(m)
    \/ \E m2 \in Mark \ {m} : Mrktomrk(m, m2)

MoveCall ==
  \/ \E dist \in -MaxMove .. MaxMove : dist # 0 /\ Bmove(dist)
  \/ \E n \in 0 .. MaxText : Boffset(n)
  \/ Bmove1
  \/ Btostart
  \/ Btoend

EditCall ==
  \/ \E ch \in Byte : Binsert(ch) \/ BinsertSplit(ch)
  \/ BinsertNoMemory
  \/ \E n \in 1 .. MaxDelete : Bdelete(n)
  \/ Bempty

\* The code of a call in progress.
LoopStep == BdeleteStep \/ BdeltomrkStep \/ BdeltomrkReturn \/ BmoveStep

Next == EditCall \/ MoveCall \/ MarkCall \/ LoopStep

Spec == Init /\ [][Next]_vars

\* The caller may stop calling; a call that was made keeps executing.
FairSpec == Spec /\ WF_vars(LoopStep)

-----------------------------------------------------------------------------
(* Properties. *)

TypeOK == buf \in Buffer /\ call \in Call /\ ret \in Int

\* The page list survives every call: firstp to lastp is one doubly linked list
\* that holds every allocated page (newpage, freepage and bempty lose none), no
\* page overflows, and the point is in the list, inside its page.  It holds in
\* the middle of a loop too, and even when bdelete runs over a page boundary.
PagesIntact ==
  Linked(buf) /\ Reachable(buf) /\ PagesFit(buf) /\ PointInside(buf)

\* No dynamic mark is left on a freed page or past the end of its page, whatever
\* pagesplit, binsert, bdelete and bempty did under it.
MarksIntact == MarksInside(buf)

\* bdelete frees each page it empties and pagesplit makes none, so that bpeek,
\* which looks one page back only, never meets an empty page.
PagesUsed == ~ CrossPage => NoEmptyPage(buf)

\* What the calls in progress rely on.  bdelete is on the point's page, with no
\* more to delete than that page has, unless it runs over a page boundary: then
\* it has put the point at the start of a page.  bdeltomrk's mark stays a mark.
CallInv ==
  /\ call.op = "bdelete" =>
       /\ call.page \in Page /\ call.left \in Nat
       /\ call.page \in buf.alive /\ call.page # buf.curpage => buf.curchar = 0
       /\ ~ CrossPage => call.page = buf.curpage /\ InPage(call.left)
  /\ call.op = "bdeltomrk" => call.mark \in Mark /\ OnList(call.mark)

\* All of these together are inductive: no step of a call breaks one of them if
\* all hold before it.
BuffInv == TypeOK /\ WellFormed(buf) /\ PagesUsed /\ CallInv

\* The loops of bdelete, bmove and bdeltomrk end.  bdeltomrk that stands at the
\* end of a page that is not the last is left out: it asks bdelete for 0 bytes for
\* ever.
CallsReturnOffSeam ==
  (~ Idle /\ ~ (call.op = "bdeltomrk" /\ AtSeam(buf))) ~> Idle

=============================================================================
