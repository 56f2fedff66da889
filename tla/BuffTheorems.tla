---------------------------- MODULE BuffTheorems ----------------------------
(***************************************************************************)
(* The invariants of module Buff hold for every page size, every set of    *)
(* pages, marks and bytes, and whatever the bounds on the calls are.       *)
(*                                                                         *)
(* PagesIntact alone is not inductive: that the point stays inside its     *)
(* page needs the length of every page, that the pages stay a list needs   *)
(* a page that bdelete frees to have a neighbour, and that bdelete's local *)
(* page may be freed under it needs CallInv.  BuffInv holds all of that,   *)
(* and Sound what of it the buffer of module Bulk keeps.                   *)
(***************************************************************************)
EXTENDS BuffText, BuffOpsTheorems

\* What the steps of the calls keep, of a buffer that may have empty pages if hole
\* is TRUE.
Sound(hole) ==
  /\ call \in Call /\ WellFormed(buf) /\ CallInv
  /\ ~ hole => NoEmptyPage(buf)
  /\ CrossPage => hole

\* A call that does not loop keeps it if the buffer it leaves is well formed.
LEMMA DoKeeps ==
  ASSUME NEW hole \in BOOLEAN, CrossPage => hole, NEW b, NEW result, Do(b, result),
         WellFormed(b), ~ hole => NoEmptyPage(b)
  PROVE  Sound(hole)'
<1>1. buf' = b /\ call' = NoCall
  BY DEF Do, Return
<1>2. call' \in Call /\ call'.op = "none"
  BY <1>1 DEF Call, NoCall
<1>3. CallInv'
  BY <1>2 DEF CallInv
<1> QED BY <1>1, <1>2, <1>3 DEF Sound

\* A step of a looping call keeps it if it leaves a well formed buffer and is not
\* in bdelete or bdeltomrk afterwards.
LEMMA StepKeeps ==
  ASSUME NEW hole \in BOOLEAN, CrossPage => hole,
         call' \in Call, call'.op \notin {"bdelete", "bdeltomrk"},
         WellFormed(buf'), ~ hole => NoEmptyPage(buf')
  PROVE  Sound(hole)'
<1>1. CallInv'
  BY DEF CallInv
<1> QED BY <1>1 DEF Sound

\* The record of a call in progress.
LEMMA CallRecord ==
  ASSUME NEW op \in {"bdelete", "bdeltomrk", "bmove"}, NEW page \in Page \cup {NIL},
         NEW mark \in Mark \cup {NIL}, NEW left \in Int
  PROVE  LET c == [op |-> op, page |-> page, mark |-> mark, left |-> left]
         IN /\ c \in Call
            /\ c.op = op /\ c.page = page /\ c.mark = mark /\ c.left = left
BY DEF Call

\* The initial states, one empty page, are sound.
LEMMA InitSound ==
  ASSUME NEW hole \in BOOLEAN, CrossPage => hole, Init
  PROVE  Sound(hole)
<1>1. WellFormed(buf) /\ NoEmptyPage(buf)
  BY BcreateWellFormed DEF Init
<1>2. call = NoCall
  BY DEF Init
<1>3. call \in Call /\ call.op = "none"
  BY <1>2 DEF NoCall, Call
<1>4. CallInv
  BY <1>3 DEF CallInv
<1> QED BY <1>1, <1>3, <1>4 DEF Sound

-----------------------------------------------------------------------------
(* One lemma per group of calls. *)

\* Inserting a byte and emptying the buffer.
LEMMA EditCallInv ==
  ASSUME NEW hole \in BOOLEAN, Sound(hole), EditCall
  PROVE  Sound(hole)'
<1>1. WellFormed(buf) /\ (~ hole => NoEmptyPage(buf)) /\ (CrossPage => hole)
  BY DEF Sound
<1>2. CASE \E ch \in Byte : Binsert(ch)
  <2>1. PICK ch \in Byte : Binsert(ch)
    BY <1>2
  <2>2. curplen(buf) # PGSIZE
    BY <1>1, <2>1, Lengths, PGSIZEAssumption DEF Binsert
  <2>3. /\ WellFormed(binsert(buf, ch, NIL))
        /\ NoEmptyPage(buf) => NoEmptyPage(binsert(buf, ch, NIL))
    BY <1>1, <2>2, BinsertWellFormed
  <2>4. Do(binsert(buf, ch, NIL), 1)
    BY <2>1 DEF Binsert
  <2> QED BY <1>1, <2>3, <2>4, DoKeeps
<1>3. CASE \E ch \in Byte : BinsertSplit(ch)
  <2>1. PICK ch \in Byte : BinsertSplit(ch)
    BY <1>3
  <2>2. PICK q \in Page \ buf.alive : Do(binsert(buf, ch, q), 1)
    BY <2>1 DEF BinsertSplit, Calloc
  <2>3. /\ WellFormed(binsert(buf, ch, q))
        /\ NoEmptyPage(buf) => NoEmptyPage(binsert(buf, ch, q))
    BY <1>1, BinsertWellFormed
  <2> QED BY <1>1, <2>2, <2>3, DoKeeps
<1>4. CASE BinsertNoMemory
  BY <1>1, <1>4, DoKeeps DEF BinsertNoMemory
<1>5. CASE \E n \in 1 .. MaxDelete : Bdelete(n)
  <2>1. PICK n \in 1 .. MaxDelete : Bdelete(n)
    BY <1>5
  <2>2. /\ call' = [NoCall EXCEPT !.op = "bdelete", !.page = buf.curpage, !.left = n]
        /\ buf' = buf /\ ret' = ret /\ (CrossPage \/ InPage(n))
    BY <2>1 DEF Bdelete
  <2>3. n \in Nat /\ buf.curpage \in Page
    BY <1>1, Lengths, BoundsAssumption
  <2>4. /\ call' \in Call /\ call'.op = "bdelete"
        /\ call'.page = buf.curpage /\ call'.left = n
    <3>1. call' = [op |-> "bdelete", page |-> buf.curpage, mark |-> NIL, left |-> n]
      BY <2>2 DEF NoCall
    <3> QED BY <2>3, <3>1, CallRecord
  <2>5. CallInv'
    BY <2>2, <2>3, <2>4 DEF CallInv, InPage
  <2> QED BY <1>1, <2>2, <2>4, <2>5 DEF Sound
<1>6. CASE Bempty
  BY <1>1, <1>6, BemptyWellFormed, DoKeeps DEF Bempty
<1> QED BY <1>2, <1>3, <1>4, <1>5, <1>6 DEF EditCall

\* Moving the point without a loop, and starting bmove.
LEMMA MoveCallInv ==
  ASSUME NEW hole \in BOOLEAN, Sound(hole), MoveCall
  PROVE  Sound(hole)'
<1>1. WellFormed(buf) /\ (~ hole => NoEmptyPage(buf)) /\ (CrossPage => hole)
  BY DEF Sound
<1>2. CASE \E dist \in -MaxMove .. MaxMove : dist # 0 /\ Bmove(dist)
  <2>1. PICK dist \in -MaxMove .. MaxMove : Bmove(dist)
    BY <1>2
  <2>2. /\ call' = [NoCall EXCEPT !.op = "bmove", !.left = dist]
        /\ buf' = buf /\ ret' = ret
    BY <2>1 DEF Bmove
  <2>3. call' \in Call /\ call'.op = "bmove"
    <3>1. call' = [op |-> "bmove", page |-> NIL, mark |-> NIL, left |-> dist]
      BY <2>2 DEF NoCall
    <3>2. dist \in Int
      BY BoundsAssumption
    <3> QED BY <3>1, <3>2, CallRecord
  <2> QED BY <1>1, <2>2, <2>3, StepKeeps
<1>3. CASE \E n \in 0 .. MaxText : Boffset(n)
  <2>1. PICK p \in buf.alive, off \in Nat :
          off <= plen(buf, p) /\ Do(makecur(buf, p, off), 0)
    <3>1. PICK p \in buf.alive : \E off \in 0 .. plen(buf, p) : Do(makecur(buf, p, off), 0)
      BY <1>3 DEF Boffset
    <3>2. PICK off \in 0 .. plen(buf, p) : Do(makecur(buf, p, off), 0)
      BY <3>1
    <3>3. off \in Nat /\ off <= plen(buf, p)
      BY <1>1, Lengths
    <3> QED BY <3>2, <3>3
  <2> QED BY <1>1, <2>1, PointMove, DoKeeps
<1>4. CASE Bmove1 \/ Btostart \/ Btoend
  <2>1. PICK r \in {btostart(buf), btoend(buf), bmove1(buf)} : Do(r, 0)
    BY <1>4 DEF Bmove1, Btostart, Btoend
  <2> QED BY <1>1, <2>1, SimpleMoves, DoKeeps
<1> QED BY <1>2, <1>3, <1>4 DEF MoveCall

\* The calls on a mark.
LEMMA MarkCallInv ==
  ASSUME NEW hole \in BOOLEAN, Sound(hole), MarkCall
  PROVE  Sound(hole)'
<1>1. WellFormed(buf) /\ (~ hole => NoEmptyPage(buf)) /\ (CrossPage => hole)
  BY DEF Sound
<1>2. PICK m \in Mark :
        \/ Bdeltomrk(m) \/ Bcremark(m) \/ Bdelmark(m) \/ Bmrktopnt(m)
        \/ Bpnttomrk(m) \/ Bswappnt(m) \/ \E m2 \in Mark \ {m} : Mrktomrk(m, m2)
  BY DEF MarkCall
<1>3. ASSUME NEW x \in Mark, OnList(x)
      PROVE  /\ buf.mpage[x] \in buf.alive /\ buf.moffset[x] \in Nat
             /\ buf.moffset[x] <= plen(buf, buf.mpage[x])
  BY <1>1, <1>3 DEF WellFormed, MarksInside, Buffer, OnList
<1>4. /\ WellFormed(bmrktopnt(buf, m))
      /\ NoEmptyPage(buf) => NoEmptyPage(bmrktopnt(buf, m))
  <2>1. /\ buf.curpage \in buf.alive /\ buf.curchar \in Nat
        /\ buf.curchar <= plen(buf, buf.curpage)
    BY <1>1, Lengths
  <2> QED BY <1>1, <2>1, MarkMove DEF bmrktopnt
<1>5. ASSUME OnList(m)
      PROVE  /\ WellFormed(bpnttomrk(buf, m))
             /\ NoEmptyPage(buf) => NoEmptyPage(bpnttomrk(buf, m))
  BY <1>1, <1>3, <1>5, PointMove DEF bpnttomrk
<1>6. ASSUME OnList(m)
      PROVE  /\ WellFormed(bswappnt(buf, m))
             /\ NoEmptyPage(buf) => NoEmptyPage(bswappnt(buf, m))
             /\ bswappnt(buf, m).mpage[m] # NIL
  <2> DEFINE s == bpnttomrk(buf, m)
             r == [s EXCEPT !.mpage = [@ EXCEPT ![m] = buf.curpage],
                            !.moffset = [@ EXCEPT ![m] = buf.curchar]]
  <2>1. /\ WellFormed(s) /\ s.alive = buf.alive /\ s.data = buf.data
        /\ s.mpage = buf.mpage
        /\ NoEmptyPage(buf) => NoEmptyPage(s)
    BY <1>1, <1>3, <1>6, PointMove DEF bpnttomrk
  <2>2. /\ buf.curpage \in s.alive /\ buf.curchar \in Nat
        /\ buf.curchar <= plen(s, buf.curpage)
    BY <1>1, <2>1, Lengths DEF plen
  <2>3. bswappnt(buf, m) = r
    BY DEF bswappnt
  <2> HIDE DEF s
  <2>4. r.mpage[m] = buf.curpage
    BY <2>1 DEF WellFormed, Buffer
  <2>5. buf.curpage # NIL
    BY <1>1, Lengths, PageAssumption
  <2>6. WellFormed(r) /\ (NoEmptyPage(s) => NoEmptyPage(r))
    BY <2>1, <2>2, MarkMove
  <2> HIDE DEF r
  <2> QED BY <2>1, <2>3, <2>4, <2>5, <2>6
<1>7. CASE Bdeltomrk(m)
  <2>1. /\ OnList(m) /\ ret' = ret
        /\ buf' = IF bisaftermrk(buf, m) THEN bswappnt(buf, m) ELSE buf
        /\ call' = [NoCall EXCEPT !.op = "bdeltomrk", !.mark = m]
    BY <1>7 DEF Bdeltomrk
  <2>2. call' \in Call /\ call'.op = "bdeltomrk" /\ call'.mark = m
    <3>1. call' = [op |-> "bdeltomrk", page |-> NIL, mark |-> m, left |-> 0]
      BY <2>1 DEF NoCall
    <3> QED BY <3>1, CallRecord
  <2>3. WellFormed(buf') /\ (~ hole => NoEmptyPage(buf')) /\ buf'.mpage[m] # NIL
    BY <1>1, <1>6, <2>1 DEF OnList
  <2>4. CallInv'
    BY <2>2, <2>3 DEF CallInv, OnList
  <2> QED BY <1>1, <2>1, <2>2, <2>3, <2>4 DEF Sound
<1>8. CASE Bcremark(m) \/ Bmrktopnt(m)
  <2>1. PICK result \in {0, 1} : Do(bmrktopnt(buf, m), result)
    BY <1>8 DEF Bcremark, Bmrktopnt
  <2> QED BY <1>1, <1>4, <2>1, DoKeeps
<1>9. CASE Bdelmark(m)
  <2>1. WellFormed(bdelmark(buf, m)) /\ (NoEmptyPage(buf) => NoEmptyPage(bdelmark(buf, m)))
    BY <1>1, MarkMove DEF bdelmark
  <2> QED BY <1>1, <1>9, <2>1, DoKeeps DEF Bdelmark
<1>10. CASE Bpnttomrk(m)
  BY <1>1, <1>5, <1>10, DoKeeps DEF Bpnttomrk
<1>11. CASE Bswappnt(m)
  BY <1>1, <1>6, <1>11, DoKeeps DEF Bswappnt
<1>12. ASSUME NEW m2 \in Mark, Mrktomrk(m, m2)
       PROVE  Sound(hole)'
  <2>1. OnList(m2) /\ Do(mrktomrk(buf, m, m2), 0)
    BY <1>12 DEF Mrktomrk
  <2>2. /\ WellFormed(mrktomrk(buf, m, m2))
        /\ NoEmptyPage(buf) => NoEmptyPage(mrktomrk(buf, m, m2))
    BY <1>1, <1>3, <2>1, MarkMove DEF mrktomrk
  <2> QED BY <1>1, <2>1, <2>2, DoKeeps
<1> QED BY <1>2, <1>7, <1>8, <1>9, <1>10, <1>11, <1>12

-----------------------------------------------------------------------------
(* The looping calls. *)

\* One iteration of bdelete.  It runs over a page boundary only without marks,
\* and its page is the point's page again as soon as the next page is not wanted.
LEMMA BdeleteInv ==
  ASSUME NEW hole \in BOOLEAN, Sound(hole), BdeleteStep
  PROVE  Sound(hole)'
<1> DEFINE page == call.page
           left == bdelete_left(buf, call.page, call.left)
           r    == bdelete_page(buf, call.page, call.left)
<1>1. /\ WellFormed(buf) /\ (~ hole => NoEmptyPage(buf)) /\ (CrossPage => hole)
      /\ call \in Call /\ call.op = "bdelete" /\ page \in Page /\ call.left \in Nat
      /\ page \in buf.alive /\ page # buf.curpage => buf.curchar = 0
      /\ ~ CrossPage => page = buf.curpage /\ InPage(call.left)
  BY DEF Sound, CallInv, BdeleteStep
<1>2. CASE page \notin buf.alive
  <2>1. buf' = buf /\ ret' = ret /\ call' = [NoCall EXCEPT !.op = "undefined"]
    BY <1>2 DEF BdeleteStep
  <2>2. call' = [op |-> "undefined", page |-> NIL, mark |-> NIL, left |-> 0]
    BY <2>1 DEF NoCall
  <2>3. call' \in Call /\ call'.op = "undefined"
    BY <2>2 DEF Call
  <2> QED BY <1>1, <2>1, <2>3, StepKeeps
<1>3. CASE page \in buf.alive
  <2>1. page # buf.curpage => buf.curchar = 0 /\ Mark = {}
    BY <1>1, <1>3, CrossPageAssumption
  <2>2. /\ WellFormed(r)
        /\ page \in r.alive /\ page # r.curpage => r.curchar = 0
        /\ page = buf.curpage /\ NoEmptyPage(buf) => NoEmptyPage(r)
    BY <1>1, <1>3, <2>1, BdeletePage
  <2>3. /\ buf' = r
        /\ left = 0 => call' = NoCall /\ ret' = 0
        /\ left # 0 => call' = [call EXCEPT !.left = left] /\ ret' = ret
    BY <1>3 DEF BdeleteStep, Return
  <2>4. left \in Nat /\ (~ CrossPage => left = 0)
    <3> DEFINE room == curplen(buf) - buf.curchar
    <3>1. room \in Nat
      BY <1>1, Lengths
    <3>2. left = IF isLast(buf, page) THEN 0
                 ELSE call.left - (IF room < call.left THEN room ELSE call.left)
      BY DEF bdelete_left, quan, MIN
    <3>3. ~ CrossPage => call.left <= room \/ isLast(buf, page)
      BY <1>1 DEF InPage
    <3> HIDE DEF left, room
    <3> QED BY <1>1, <3>1, <3>2, <3>3
  <2>5. ~ hole => NoEmptyPage(r)
    BY <1>1, <2>2
  <2> HIDE DEF left, r
  <2>6. CASE left = 0
    <3>1. call' \in Call /\ call'.op = "none"
      BY <2>3, <2>6 DEF NoCall, Call
    <3> QED BY <1>1, <2>2, <2>3, <2>5, <3>1, StepKeeps
  <2>7. CASE left # 0
    <3>1. call' \in Call /\ call'.op = "bdelete" /\ call'.page = page /\ call'.left = left
      BY <1>1, <2>3, <2>4, <2>7 DEF Call
    <3>2. CrossPage
      BY <2>4, <2>7
    <3>3. CallInv'
      BY <1>1, <2>2, <2>3, <2>4, <3>1, <3>2 DEF CallInv
    <3> QED BY <1>1, <2>2, <2>3, <2>7, <3>1, <3>2, <3>3
            DEF Sound
  <2> QED BY <2>6, <2>7
<1> QED BY <1>2, <1>3

\* One iteration of bdeltomrk: it calls bdelete on the point's page, which it
\* asks for no more than that page has.
LEMMA BdeltomrkInv ==
  ASSUME NEW hole \in BOOLEAN, Sound(hole), BdeltomrkStep
  PROVE  Sound(hole)'
<1> DEFINE m == call.mark
           n == Amount(m)
           r == bdelete_page(buf, buf.curpage, n)
<1>1. /\ WellFormed(buf) /\ (~ hole => NoEmptyPage(buf)) /\ (CrossPage => hole)
      /\ call \in Call /\ call.op = "bdeltomrk" /\ call.left \in Int
      /\ m \in Mark /\ buf.mpage[m] # NIL
  BY DEF Sound, CallInv, BdeltomrkStep, Call, OnList
<1>2. n \in Nat
  <2>1. /\ curplen(buf) \in Nat /\ buf.curchar \in Nat /\ buf.curchar <= curplen(buf)
        /\ buf.moffset[m] \in Nat
    BY <1>1, Lengths DEF WellFormed, Buffer
  <2>2. buf.mpage[m] = buf.curpage => buf.curchar < buf.moffset[m]
    BY DEF BdeltomrkStep, bisbeforemrk
  <2> QED BY <2>1, <2>2 DEF Amount
<1>3. /\ WellFormed(r)
      /\ \A x \in Mark : r.mpage[x] = NIL <=> buf.mpage[x] = NIL
      /\ NoEmptyPage(buf) => NoEmptyPage(r)
  <2>1. buf.curpage \in buf.alive
    BY <1>1, Lengths
  <2> HIDE DEF n
  <2> QED BY <1>1, <1>2, <2>1, BdeletePage
<1>4. /\ buf' = IF n = 0 THEN buf ELSE r
      /\ call' = [call EXCEPT !.left = @ + n] /\ ret' = ret
  BY DEF BdeltomrkStep
<1> HIDE DEF n, r
<1>5. call' \in Call /\ call'.op = "bdeltomrk" /\ call'.mark = m
  BY <1>1, <1>2, <1>4 DEF Call
<1>6. /\ WellFormed(buf') /\ (~ hole => NoEmptyPage(buf'))
      /\ buf'.mpage[m] # NIL
  BY <1>1, <1>3, <1>4
<1> HIDE DEF m
<1>7. CallInv'
  BY <1>1, <1>5, <1>6 DEF CallInv, OnList
<1> QED BY <1>1, <1>4, <1>5, <1>6, <1>7 DEF Sound

\* bdeltomrk's return.
LEMMA BdeltomrkReturnInv ==
  ASSUME NEW hole \in BOOLEAN, Sound(hole), BdeltomrkReturn
  PROVE  Sound(hole)'
<1>1. /\ WellFormed(buf) /\ (~ hole => NoEmptyPage(buf)) /\ (CrossPage => hole)
      /\ call \in Call /\ call.left \in Int
  BY DEF Sound, Call
<1>2. buf' = buf /\ call' = NoCall /\ ret' = call.left
  BY DEF BdeltomrkReturn, Return
<1>3. call' \in Call /\ call'.op = "none"
  BY <1>2 DEF NoCall, Call
<1> QED BY <1>1, <1>2, <1>3, StepKeeps

\* One iteration of bmove: every branch puts the point inside a page.
LEMMA BmoveInv ==
  ASSUME NEW hole \in BOOLEAN, Sound(hole), BmoveStep
  PROVE  Sound(hole)'
<1> DEFINE dist == call.left + buf.curchar
           cur  == buf.curpage
           prev == buf.prevp[cur]
           next == buf.nextp[cur]
<1>1. /\ WellFormed(buf) /\ (~ hole => NoEmptyPage(buf)) /\ (CrossPage => hole)
      /\ call \in Call /\ call.op = "bmove" /\ call.left \in Int
  BY DEF Sound, Call, BmoveStep
<1>2. /\ cur \in buf.alive /\ curplen(buf) \in Nat /\ curplen(buf) = plen(buf, cur)
      /\ buf.curchar \in Nat /\ dist \in Int
  BY <1>1, Lengths
<1>3. \A d : makeoffset(buf, d) = makecur(buf, cur, d)
  BY <1>1 DEF makeoffset, makecur, WellFormed, Buffer
<1>4. ASSUME NEW p \in buf.alive, NEW d \in Nat, d <= plen(buf, p),
             NEW result \in Int, buf' = makecur(buf, p, d), Return(result)
      PROVE  Sound(hole)'
  <2>1. WellFormed(buf') /\ (~ hole => NoEmptyPage(buf'))
    BY <1>1, <1>4, PointMove
  <2>2. call' \in Call /\ call'.op = "none"
    BY <1>4 DEF Return, NoCall, Call
  <2> QED BY <1>1, <2>1, <2>2, StepKeeps
<1>5. ASSUME NEW p \in buf.alive, NEW d \in Nat, d <= plen(buf, p),
             NEW rest \in Int, Turn(makecur(buf, p, d), rest)
      PROVE  Sound(hole)'
  <2>1. buf' = makecur(buf, p, d)
    BY <1>5 DEF Turn
  <2>2. CASE rest = 0
    BY <1>4, <1>5, <2>1, <2>2 DEF Turn
  <2>3. CASE rest # 0
    <3>1. WellFormed(buf') /\ (~ hole => NoEmptyPage(buf'))
      BY <1>1, <1>5, <2>1, PointMove
    <3>2. call' = [call EXCEPT !.left = rest] /\ ret' = ret
      BY <1>5, <2>3 DEF Turn
    <3>3. call' \in Call /\ call'.op = "bmove"
      BY <1>1, <1>5, <3>2 DEF Call
    <3> QED BY <1>1, <3>1, <3>2, <3>3, StepKeeps
  <2> QED BY <2>2, <2>3
<1>6. CASE dist \in 0 .. curplen(buf) - 1 /\ buf' = makeoffset(buf, dist) /\ Return(1)
  <2>1. dist \in Nat /\ dist <= plen(buf, cur)
    BY <1>2, <1>6
  <2> HIDE DEF dist
  <2> QED BY <1>2, <1>3, <1>4, <1>6, <2>1
<1>7. CASE buf' = makeoffset(buf, 0) /\ Return(0)
  BY <1>2, <1>3, <1>4, <1>7
<1>8. CASE cur # buf.firstp /\ Turn(makecur(buf, prev, plen(buf, prev)), dist)
  <2>1. prev \in buf.alive /\ plen(buf, prev) \in Nat /\ plen(buf, prev) <= plen(buf, prev)
    BY <1>1, <1>2, <1>8, Lengths
  <2> HIDE DEF dist
  <2> QED BY <1>2, <1>5, <1>8, <2>1
<1>9. CASE buf' = makeoffset(buf, curplen(buf)) /\ Return(0)
  <2>1. plen(buf, cur) <= plen(buf, cur)
    BY <1>2
  <2> QED BY <1>2, <1>3, <1>4, <1>9, <2>1
<1>10. CASE ~ isLast(buf, cur) /\ Turn(makecur(buf, next, 0), dist - curplen(buf))
  <2>1. next \in buf.alive /\ 0 <= plen(buf, next) /\ dist - curplen(buf) \in Int
    BY <1>1, <1>2, <1>10, Lengths
  <2> HIDE DEF dist
  <2> QED BY <1>5, <1>10, <2>1
<1> QED BY <1>6, <1>7, <1>8, <1>9, <1>10 DEF BmoveStep

\* Each step of the library keeps its buffer sound.
LEMMA NextSound ==
  ASSUME NEW hole \in BOOLEAN, Sound(hole), Next
  PROVE  Sound(hole)'
<1>1. CASE LoopStep
  BY <1>1, BdeleteInv, BdeltomrkInv, BdeltomrkReturnInv, BmoveInv DEF LoopStep
<1> QED BY <1>1, EditCallInv, MoveCallInv, MarkCallInv DEF Next

\* What is returned is a number.
LEMMA ReturnsNumber ==
  ASSUME call \in Call, ret \in Int, Next
  PROVE  ret' \in Int
<1>1. call.left \in Int
  BY DEF Call
<1>2. ASSUME NEW b, NEW result \in Int, Do(b, result)
      PROVE  ret' \in Int
  BY <1>2 DEF Do, Return
<1>3. CASE EditCall \/ MoveCall \/ MarkCall
  <2>1. CASE ret' = ret
    BY <2>1
  <2>2. CASE \E b : \E result \in {0, 1} : Do(b, result)
    BY <1>2, <2>2
  <2>3. EditCall => ret' = ret \/ \E b : \E result \in {0, 1} : Do(b, result)
    BY Zenon DEF EditCall, Binsert, BinsertSplit, BinsertNoMemory, Bdelete, Bempty
  <2>4. MoveCall => ret' = ret \/ \E b : \E result \in {0, 1} : Do(b, result)
    BY Zenon DEF MoveCall, Bmove, Boffset, Bmove1, Btostart, Btoend
  <2>5. MarkCall => ret' = ret \/ \E b : \E result \in {0, 1} : Do(b, result)
    BY Zenon DEF MarkCall, Bdeltomrk, Bcremark, Bdelmark, Bmrktopnt, Bpnttomrk, Bswappnt,
                 Mrktomrk
  <2> QED BY <1>3, <2>1, <2>2, <2>3, <2>4, <2>5
<1>4. CASE LoopStep
  BY <1>1, <1>4
     DEF LoopStep, BdeleteStep, BdeltomrkStep, BdeltomrkReturn, BmoveStep, Turn, Return
<1> QED BY <1>3, <1>4 DEF Next

-----------------------------------------------------------------------------
(* The theorems. *)

\* The invariant holds in every state: whatever calls are made, in any order, at
\* any page size, and between the iterations of their loops too.
THEOREM Invariance == Spec => []BuffInv
<1>1. CrossPage \in BOOLEAN
  BY BoundsAssumption
<1>2. BuffInv <=> Sound(CrossPage) /\ ret \in Int
  BY DEF BuffInv, Sound, TypeOK, PagesUsed, WellFormed
<1>3. Init => BuffInv
  BY <1>1, <1>2, InitSound DEF Init
<1>4. BuffInv /\ [Next]_vars => BuffInv'
  <2> SUFFICES ASSUME BuffInv, [Next]_vars
               PROVE  BuffInv'
    OBVIOUS
  <2>1. CASE UNCHANGED vars
    BY <2>1 DEF vars, BuffInv, TypeOK, PagesUsed, CallInv, InPage, OnList
  <2>2. CASE Next
    <3>1. Sound(CrossPage)'
      BY <1>1, <1>2, <2>2, NextSound
    <3>2. ret' \in Int
      BY <1>2, <2>2, ReturnsNumber DEF Sound
    <3> QED BY <3>1, <3>2 DEF BuffInv, Sound, TypeOK, PagesUsed, WellFormed
  <2> QED BY <2>1, <2>2
<1> QED BY <1>3, <1>4, PTL DEF Spec

\* The variables keep their types: no offset or length goes below zero and no
\* link leads to something that is not a page.
THEOREM TypeCorrect == Spec => []TypeOK
<1>1. BuffInv => TypeOK
  BY DEF BuffInv
<1> QED BY <1>1, Invariance, PTL

\* The pages stay one doubly linked list that holds every allocated page, none
\* over PGSIZE, with the point inside one of them: newpage, freepage, pagesplit,
\* bdelete's freeing of emptied pages and bempty break none of it.
THEOREM PagesStayIntact == Spec => []PagesIntact
<1>1. BuffInv => PagesIntact
  BY DEF BuffInv, WellFormed, PagesIntact
<1> QED BY <1>1, Invariance, PTL

\* A mark never points to a freed page or past the end of its page.
THEOREM MarksStayIntact == Spec => []MarksIntact
<1>1. BuffInv => MarksIntact
  BY DEF BuffInv, WellFormed, MarksIntact
<1> QED BY <1>1, Invariance, PTL

\* Unless bdelete is given bytes of the next page, no page but an only one is
\* empty: bpeek needs to look back one page only.
THEOREM PagesStayUsed == Spec => []PagesUsed
<1>1. BuffInv => PagesUsed
  BY DEF BuffInv
<1> QED BY <1>1, Invariance, PTL

-----------------------------------------------------------------------------
(* The buffer implements the text of TextBuffer: the marks and the point.  *)

\* b and c differ in the point and in bmodf alone.
OnlyPoint(b, c) ==
  SameLinks(b, c) /\ c.data = b.data /\ c.mpage = b.mpage /\ c.moffset = b.moffset

\* The marks of a well formed buffer as TextBuffer has them.
LEMMA MarkPlaces ==
  ASSUME NEW b, WellFormed(b)
  PROVE  /\ MarkPlace(b) \in [Mark -> (0 .. Len(Text(b))) \cup {NIL}]
         /\ \A m \in Mark :
              /\ MarkPlace(b)[m] = IF b.mpage[m] = NIL THEN NIL ELSE PlaceOf(b, m)
              /\ b.mpage[m] = NIL <=> MarkPlace(b)[m] = NIL
<1>1. \A m \in Mark : MarkPlace(b)[m] = IF b.mpage[m] = NIL THEN NIL ELSE PlaceOf(b, m)
  BY DEF MarkPlace, PlaceOf
<1>2. \A m \in Mark : b.mpage[m] # NIL => PlaceOf(b, m) \in 0 .. Len(Text(b)) /\ PlaceOf(b, m) \in Nat
  BY Places
<1>3. MarkPlace(b) = [m \in Mark |-> MarkPlace(b)[m]] BY DEF MarkPlace
<1>4. \A m \in Mark : MarkPlace(b)[m] \in (0 .. Len(Text(b))) \cup {NIL} BY <1>1, <1>2
<1>5. \A m \in Mark : b.mpage[m] = NIL <=> MarkPlace(b)[m] = NIL BY <1>1, <1>2, NILAssumption
<1> QED BY <1>1, <1>3, <1>4, <1>5

\* Moving the point moves no mark.
LEMMA PointMarked ==
  ASSUME NEW b, WellFormed(b), NEW c, WellFormed(c), OnlyPoint(b, c)
  PROVE  /\ Text(c) = Text(b) /\ MarkPlace(c) = MarkPlace(b)
         /\ \A p \in b.alive : Before(c, p) = Before(b, p)
<1>1. Listed(b) /\ c \in Buffer BY DEF WellFormed, Listed
<1>2. Text(c) = Text(b) /\ \A p \in b.alive : Before(c, p) = Before(b, p)
  BY <1>1, SameText DEF OnlyPoint
<1>3. \A m \in Mark : b.mpage[m] # NIL => b.mpage[m] \in b.alive BY Places
<1>4. \A m \in Mark : (IF c.mpage[m] = NIL THEN NIL ELSE Before(c, c.mpage[m]) + c.moffset[m])
                       = (IF b.mpage[m] = NIL THEN NIL ELSE Before(b, b.mpage[m]) + b.moffset[m])
  BY <1>2, <1>3 DEF OnlyPoint
<1> QED BY <1>2, <1>4 DEF MarkPlace

\* Mark m is set to offset d of page p, or taken off the list.
Remarked(b, c, m, p, d) ==
  c.mpage = [b.mpage EXCEPT ![m] = p] /\ c.moffset = [b.moffset EXCEPT ![m] = d]

\* So it is for the text.
MarkedAt(b, c, m, p, d) ==
  /\ Text(c) = Text(b) /\ \A r \in b.alive : Before(c, r) = Before(b, r)
  /\ MarkPlace(c) = [MarkPlace(b) EXCEPT ![m] = IF p = NIL THEN NIL ELSE Before(b, p) + d]

\* Where the mark is then.
LEMMA MarkMarked ==
  ASSUME NEW b, WellFormed(b), NEW c, WellFormed(c), SameLinks(b, c), c.data = b.data,
         NEW m \in Mark, NEW p \in b.alive \cup {NIL}, NEW d, Remarked(b, c, m, p, d)
  PROVE  MarkedAt(b, c, m, p, d)
<1>0. c.mpage = [b.mpage EXCEPT ![m] = p] /\ c.moffset = [b.moffset EXCEPT ![m] = d]
  BY DEF Remarked
<1>1. Listed(b) /\ c \in Buffer /\ NIL \notin b.alive BY Links DEF WellFormed, Listed
<1>2. Text(c) = Text(b) /\ \A r \in b.alive : Before(c, r) = Before(b, r)
  BY <1>1, SameText
<1>3. b.mpage \in [Mark -> Page \cup {NIL}] /\ b.moffset \in [Mark -> Nat] BY <1>1 DEF Listed, Buffer
<1>4. \A k \in Mark : b.mpage[k] # NIL => b.mpage[k] \in b.alive BY Places
<1> DEFINE v == IF p = NIL THEN NIL ELSE Before(b, p) + d
<1>5. ASSUME NEW k \in Mark
      PROVE  (IF c.mpage[k] = NIL THEN NIL ELSE Before(c, c.mpage[k]) + c.moffset[k])
               = IF k = m THEN v ELSE MarkPlace(b)[k]
  <2>1. MarkPlace(b)[k] = IF b.mpage[k] = NIL THEN NIL ELSE Before(b, b.mpage[k]) + b.moffset[k]
    BY DEF MarkPlace
  <2>2. CASE k = m
    <3>1. c.mpage[k] = p /\ c.moffset[k] = d BY <1>0, <1>3, <2>2
    <3> QED BY <1>1, <1>2, <2>2, <3>1
  <2>3. CASE k # m
    <3>1. c.mpage[k] = b.mpage[k] /\ c.moffset[k] = b.moffset[k] BY <1>0, <1>3, <2>3
    <3> QED BY <1>2, <1>4, <2>1, <2>3, <3>1
  <2> QED BY <2>2, <2>3
<1> HIDE DEF v
<1>6. MarkPlace(c) = [k \in Mark |-> IF k = m THEN v ELSE MarkPlace(b)[k]] BY <1>5 DEF MarkPlace
<1>7. [MarkPlace(b) EXCEPT ![m] = v] = [k \in Mark |-> IF k = m THEN v ELSE MarkPlace(b)[k]]
  BY DEF MarkPlace
<1> QED BY <1>2, <1>6, <1>7 DEF v, MarkedAt

\* bempty leaves no text, and all that are on the list at its start.
LEMMA BemptyEmpties ==
  ASSUME NEW b, WellFormed(b)
  PROVE  LET r == bempty(b)
         IN /\ Text(r) = <<>> /\ blocation(r) = 0
            /\ MarkPlace(r) = [m \in Mark |-> IF b.mpage[m] = NIL THEN NIL ELSE 0]
<1> DEFINE r == bempty(b)
<1>1. WellFormed(r) BY BemptyWellFormed
<1>2. /\ b \in Buffer /\ b.firstp \in Page /\ NIL \notin Page
  BY PageAssumption DEF WellFormed, Buffer
<1>3. /\ r.alive = {b.firstp} /\ r.firstp = b.firstp /\ r.data[b.firstp] = <<>>
      /\ r.curpage = b.firstp /\ r.curchar = 0
      /\ r.mpage = [m \in Mark |-> IF b.mpage[m] = NIL THEN NIL ELSE b.firstp]
      /\ r.moffset = [m \in Mark |-> 0]
  BY <1>2 DEF bempty, Buffer
<1> HIDE DEF r
<1>4. Text(r) = <<>> /\ Before(r, b.firstp) = 0 BY <1>1, <1>3, NoText DEF WellFormed, Listed
<1>5. \A m \in Mark : (IF r.mpage[m] = NIL THEN NIL ELSE Before(r, r.mpage[m]) + r.moffset[m])
                       = IF b.mpage[m] = NIL THEN NIL ELSE 0
  BY <1>2, <1>3, <1>4
<1> QED BY <1>3, <1>4, <1>5 DEF blocation, MarkPlace, r

\* A new buffer is the empty text without marks.
LEMMA BcreateEmpty ==
  ASSUME NEW q \in Page
  PROVE  View(bcreate(q)) = [text |-> <<>>, point |-> 0, mark |-> [m \in Mark |-> NIL]]
<1> DEFINE b == bcreate(q)
<1>1. WellFormed(b) BY BcreateWellFormed
<1>2. /\ b.alive = {q} /\ b.firstp = q /\ b.data[q] = <<>> /\ b.curpage = q /\ b.curchar = 0
      /\ b.mpage = [m \in Mark |-> NIL]
  BY DEF bcreate
<1> HIDE DEF b
<1>3. Text(b) = <<>> /\ Before(b, q) = 0 BY <1>1, <1>2, NoText DEF WellFormed, Listed
<1>4. blocation(b) = 0 BY <1>2, <1>3 DEF blocation
<1>5. MarkPlace(b) = [m \in Mark |-> NIL] BY <1>2 DEF MarkPlace
<1> QED BY <1>3, <1>4, <1>5 DEF View, b


\* While bdeltomrk runs, the text is the caller's without what was deleted so far:
\* the bytes lo + 1 .. j of the lo + 1 .. hi between the point and mark m.  The other
\* marks have moved as those bytes went, m is still at the end of the rest.
CutTo(b, w, m, lo, hi, j) ==
  /\ Text(b) = Spliced(w.text, lo, j, <<>>)
  /\ \A k \in Mark :
       /\ b.mpage[k] = NIL <=> w.mark[k] = NIL
       /\ k # m /\ w.mark[k] # NIL => PlaceOf(b, k) = Abstract!Closed(w.mark[k], lo, j)
  /\ PlaceOf(b, m) = hi - (j - lo)

Cutting(b, w, m) ==
  LET lo == MIN(w.point, w.mark[m])
      hi == w.point + w.mark[m] - lo
  IN /\ w.mark[m] # NIL
     /\ blocation(b) = lo
     /\ \E j \in lo .. hi : CutTo(b, w, m, lo, hi, j)

-----------------------------------------------------------------------------
(* What one step of the buffer is for its text. *)

\* What Closed makes of a place.
LEMMA ClosedIs ==
  ASSUME NEW x \in Nat, NEW from \in Nat, NEW to \in Nat, from <= to
  PROVE  /\ Abstract!Closed(NIL, from, to) = NIL
         /\ Abstract!Closed(x, from, to)
              = IF x <= from THEN x ELSE IF x <= to THEN from ELSE x - (to - from)
BY NILAssumption DEF Abstract!Closed

\* A text that grew by a byte at the point: the marks at that place that moved are
\* the pushed ones.
LEMMA GrowsInserts ==
  ASSUME WellFormed(buf), WellFormed(buf'), was = View(buf), was' = View(buf'), NEW ch \in Byte,
         Grows(buf, buf', blocation(buf), <<ch>>), blocation(buf') = blocation(buf) + 1
  PROVE  Abstract!Insert(ch)
<1> DEFINE P == blocation(buf)
           M == MarkPlace(buf)
           N == MarkPlace(buf')
           pushed == {m \in Mark : M[m] = P /\ N[m] = P + 1}
<1>1. was.text = Text(buf) /\ was.point = P /\ was.mark = M
  BY DEF View
<1>2. was'.text = Text(buf') /\ was'.point = blocation(buf') /\ was'.mark = N
  BY DEF View
<1>3. P \in Nat BY Places
<1>4. Len(<<ch>>) = 1 OBVIOUS
<1>5. ASSUME NEW m \in Mark
      PROVE  /\ M[m] \in Nat \cup {NIL} /\ (M[m] = NIL <=> N[m] = NIL) /\ N[m] \in Nat \cup {NIL}
             /\ M[m] # NIL => \/ M[m] <= P /\ N[m] = M[m]
                              \/ M[m] >= P /\ N[m] = M[m] + 1
  <2>1. /\ M[m] = IF buf.mpage[m] = NIL THEN NIL ELSE PlaceOf(buf, m)
        /\ buf.mpage[m] = NIL <=> M[m] = NIL
    BY MarkPlaces
  <2>2. /\ N[m] = IF buf'.mpage[m] = NIL THEN NIL ELSE PlaceOf(buf', m)
        /\ buf'.mpage[m] = NIL <=> N[m] = NIL
    BY MarkPlaces
  <2>3. /\ buf'.mpage[m] = NIL <=> buf.mpage[m] = NIL
        /\ buf.mpage[m] # NIL =>
             \/ PlaceOf(buf, m) <= P /\ PlaceOf(buf', m) = PlaceOf(buf, m)
             \/ PlaceOf(buf, m) >= P /\ PlaceOf(buf', m) = PlaceOf(buf, m) + 1
    BY <1>4 DEF Grows
  <2>4. buf.mpage[m] # NIL => PlaceOf(buf, m) \in Nat
    BY Places
  <2> HIDE DEF M, N, P
  <2> QED BY <2>1, <2>2, <2>3, <2>4
<1>6. Text(buf') = SubSeq(Text(buf), 1, P) \o <<ch>> \o SubSeq(Text(buf), P + 1, Len(Text(buf)))
  BY DEF Grows, Spliced
<1>7. N = [m \in Mark |-> N[m]] BY DEF MarkPlace
<1> HIDE DEF M, N, P
<1>8. pushed \in SUBSET {m \in Mark : M[m] = P} OBVIOUS
<1>9. \A m \in Mark : N[m] = IF M[m] # NIL /\ (m \in pushed \/ M[m] > P) THEN M[m] + 1 ELSE M[m]
  BY <1>3, <1>5, NILAssumption
<1> HIDE DEF pushed
<1>10. N = [m \in Mark |-> IF M[m] # NIL /\ (m \in pushed \/ M[m] > P) THEN M[m] + 1 ELSE M[m]]
  BY <1>7, <1>9
<1>11. blocation(buf') = P + 1 BY DEF P
<1>12. was'.mark = [m \in Mark |-> IF was.mark[m] # NIL /\ (m \in pushed \/ was.mark[m] > was.point)
                                   THEN was.mark[m] + 1 ELSE was.mark[m]]
  BY <1>1, <1>2, <1>10
<1>13. was'.text = SubSeq(was.text, 1, was.point) \o <<ch>>
                     \o SubSeq(was.text, was.point + 1, Len(was.text))
  BY <1>1, <1>2, <1>6
<1>14. was'.point = was.point + 1 BY <1>1, <1>2, <1>11
<1>15. pushed \in SUBSET {m \in Mark : was.mark[m] = was.point} BY <1>1, <1>8
<1> QED BY <1>12, <1>13, <1>14, <1>15, Zenon DEF Abstract!Insert

\* A text that lost the bytes from + 1 .. to, with the point where they were.
LEMMA ShrinksCuts ==
  ASSUME WellFormed(buf), WellFormed(buf'), was = View(buf), was' = View(buf'),
         NEW from \in 0 .. Len(Text(buf)), NEW to \in from .. Len(Text(buf)),
         Shrinks(buf, buf', from, to), blocation(buf') = from
  PROVE  Abstract!Cut(from, to)
<1> DEFINE M == MarkPlace(buf)
           N == MarkPlace(buf')
<1>1. was.text = Text(buf) /\ was.mark = M
  BY DEF View
<1>2. was'.text = Text(buf') /\ was'.point = blocation(buf') /\ was'.mark = N
  BY DEF View
<1>3. Text(buf) \in Seq(Byte) /\ Len(Text(buf)) \in Nat BY Places
<1>4. Text(buf') = SubSeq(Text(buf), 1, from) \o SubSeq(Text(buf), to + 1, Len(Text(buf)))
  BY <1>3, SplicedOut DEF Shrinks
<1>5. ASSUME NEW m \in Mark
      PROVE  N[m] = Abstract!Closed(M[m], from, to)
  <2>1. /\ M[m] = IF buf.mpage[m] = NIL THEN NIL ELSE PlaceOf(buf, m)
    BY MarkPlaces
  <2>2. /\ N[m] = IF buf'.mpage[m] = NIL THEN NIL ELSE PlaceOf(buf', m)
    BY MarkPlaces
  <2>3. /\ buf'.mpage[m] = NIL <=> buf.mpage[m] = NIL
        /\ buf.mpage[m] # NIL =>
             PlaceOf(buf', m) = IF PlaceOf(buf, m) <= from THEN PlaceOf(buf, m)
                                ELSE IF PlaceOf(buf, m) <= to THEN from
                                ELSE PlaceOf(buf, m) - (to - from)
    BY DEF Shrinks
  <2>4. buf.mpage[m] # NIL => PlaceOf(buf, m) \in Nat
    BY Places
  <2>5. from \in Nat /\ to \in Nat /\ from <= to BY <1>3
  <2> HIDE DEF M, N
  <2>6. CASE buf.mpage[m] = NIL
    BY <2>1, <2>2, <2>3, <2>5, <2>6, ClosedIs
  <2>7. CASE buf.mpage[m] # NIL
    BY <2>1, <2>2, <2>3, <2>4, <2>5, <2>7, ClosedIs
  <2> QED BY <2>6, <2>7
<1>6. N = [m \in Mark |-> Abstract!Closed(M[m], from, to)] BY <1>5 DEF MarkPlace
<1> HIDE DEF M, N
<1> QED BY <1>1, <1>2, <1>4, <1>6 DEF Abstract!Cut, Abstract!Without

\* A step that moves the point alone, from wherever the caller last saw it.
LEMMA PointMoves ==
  ASSUME WellFormed(buf), WellFormed(buf'), OnlyPoint(buf, buf'),
         was.text = Text(buf), was.mark = MarkPlace(buf), was.point \in 0 .. Len(Text(buf)),
         was' = View(buf')
  PROVE  \E dist \in -Len(was.text) .. Len(was.text) : Abstract!Move(dist)
<1>1. Text(buf') = Text(buf) /\ MarkPlace(buf') = MarkPlace(buf) BY PointMarked
<1>2. blocation(buf') \in 0 .. Len(Text(buf)) /\ Len(Text(buf)) \in Nat
  BY <1>1, Places
<1>3. was'.text = Text(buf) /\ was'.point = blocation(buf') /\ was'.mark = MarkPlace(buf)
  BY <1>1 DEF View
<1> DEFINE L == Len(Text(buf))
           P == was.point
           Q == blocation(buf')
           d == Q - P
<1>4. L \in Nat /\ P \in 0 .. L /\ Q \in 0 .. L BY <1>2
<1>5. Len(was.text) = L OBVIOUS
<1> HIDE DEF L, P, Q
<1>6. d \in -L .. L /\ Q = CASE P + d < 0 -> 0 [] P + d > L -> L [] OTHER -> P + d
  BY <1>4
<1> HIDE DEF d
<1>7. was'.point = CASE was.point + d < 0 -> 0
                     [] was.point + d > Len(was.text) -> Len(was.text)
                     [] OTHER -> was.point + d
  BY <1>3, <1>5, <1>6 DEF P, Q
<1>8. UNCHANGED <<was.text, was.mark>> BY <1>3
<1> QED BY <1>5, <1>6, <1>7, <1>8 DEF Abstract!Move

-----------------------------------------------------------------------------
(* bdeltomrk. *)

\* bisaftermrk and bisbeforemrk compare pages and offsets; that is comparing places.
LEMMA MarkSides ==
  ASSUME NEW b, WellFormed(b), NEW m \in Mark, b.mpage[m] # NIL
  PROVE  /\ bisaftermrk(b, m) => PlaceOf(b, m) <= blocation(b)
         /\ ~ bisaftermrk(b, m) => blocation(b) <= PlaceOf(b, m)
         /\ bisbeforemrk(b, m) => blocation(b) <= PlaceOf(b, m)
         /\ ~ bisbeforemrk(b, m) => PlaceOf(b, m) <= blocation(b)
<1> DEFINE p == b.mpage[m]
           cur == b.curpage
           x == b.moffset[m]
           y == b.curchar
<1>1. /\ Listed(b) /\ p \in b.alive /\ cur \in b.alive
      /\ x \in 0 .. plen(b, p) /\ y \in 0 .. plen(b, cur)
      /\ plen(b, p) \in Nat /\ plen(b, cur) \in Nat
      /\ Before(b, p) \in Nat /\ Before(b, cur) \in Nat
  <2>1. curplen(b) = plen(b, cur) /\ curplen(b) \in Nat BY Places
  <2> QED BY <2>1, Places
<1>2. Precedes(b, p, cur) => Before(b, p) + plen(b, p) <= Before(b, cur)
  BY <1>1, InOrder
<1>3. Precedes(b, cur, p) => Before(b, cur) + plen(b, cur) <= Before(b, p)
  BY <1>1, InOrder
<1>4. p # cur => Precedes(b, p, cur) \/ Precedes(b, cur, p)
  BY <1>1, Ordered
<1>5. PlaceOf(b, m) = Before(b, p) + x /\ blocation(b) = Before(b, cur) + y
  BY DEF PlaceOf, blocation
<1>6. /\ bisaftermrk(b, m) <=> IF p = cur THEN y > x ELSE Precedes(b, p, cur)
      /\ bisbeforemrk(b, m) <=> IF p = cur THEN y < x ELSE Precedes(b, cur, p)
  BY DEF bisaftermrk, bisbeforemrk
<1> HIDE DEF p, cur, x, y
<1>7. CASE p = cur BY <1>1, <1>5, <1>6, <1>7
<1>8. CASE p # cur BY <1>1, <1>2, <1>3, <1>4, <1>5, <1>6, <1>8
<1> QED BY <1>7, <1>8

\* What bdeltomrk asks for is on the point's page and in front of its mark.
LEMMA AmountFits ==
  ASSUME WellFormed(buf), NEW m \in Mark, buf.mpage[m] # NIL, bisbeforemrk(buf, m)
  PROVE  /\ Amount(m) \in Nat /\ quan(buf, Amount(m)) = Amount(m)
         /\ blocation(buf) + Amount(m) <= PlaceOf(buf, m)
<1> DEFINE p == buf.mpage[m]
           cur == buf.curpage
           x == buf.moffset[m]
           y == buf.curchar
           l == plen(buf, cur)
<1>1. /\ Listed(buf) /\ p \in buf.alive /\ cur \in buf.alive
      /\ x \in 0 .. plen(buf, p) /\ y \in 0 .. l
      /\ plen(buf, p) \in Nat /\ l \in Nat
      /\ Before(buf, p) \in Nat /\ Before(buf, cur) \in Nat
  <2>1. curplen(buf) = plen(buf, cur) /\ curplen(buf) \in Nat BY Places
  <2> QED BY <2>1, Places
<1>2. Precedes(buf, cur, p) => Before(buf, cur) + l <= Before(buf, p)
  BY <1>1, InOrder
<1>3. PlaceOf(buf, m) = Before(buf, p) + x /\ blocation(buf) = Before(buf, cur) + y
  BY DEF PlaceOf, blocation
<1>4. Amount(m) = (IF cur = p THEN x ELSE l) - y
  BY DEF Amount, curplen
<1>5. IF p = cur THEN y < x ELSE Precedes(buf, cur, p) BY DEF bisbeforemrk
<1>6. quan(buf, Amount(m)) = IF l - y < Amount(m) THEN l - y ELSE Amount(m)
  BY DEF quan, MIN, curplen
<1> HIDE DEF p, cur, x, y
<1>7. CASE p = cur
  <2>1. l = plen(buf, p) BY <1>7
  <2> HIDE DEF l
  <2> QED BY <2>1, <1>1, <1>3, <1>4, <1>5, <1>6, <1>7
<1>8. CASE p # cur
  <2> HIDE DEF l
  <2> QED BY <1>1, <1>2, <1>3, <1>4, <1>5, <1>6, <1>8
<1> QED BY <1>7, <1>8

\* Cutting the bytes after lo twice moves a place as cutting them once does.
ClosedAgain(x, lo, j, to, end) ==
  Abstract!Closed(Abstract!Closed(x, lo, j), lo, to) = Abstract!Closed(x, lo, end)

\* It does, when the second cut takes the bytes j + 1 .. end of the first text.
LEMMA ClosedTwice ==
  ASSUME NEW x \in Nat \cup {NIL}, NEW lo \in Nat, NEW j \in Nat, NEW to \in Nat,
         NEW end \in Nat, lo <= j, lo <= to, end - j = to - lo
  PROVE  ClosedAgain(x, lo, j, to, end)
<1>0. lo <= end OBVIOUS
<1>1. CASE x = NIL
  BY <1>0, <1>1, ClosedIs DEF ClosedAgain
<1>2. CASE x \in Nat
  <2> DEFINE y == IF x <= lo THEN x ELSE IF x <= j THEN lo ELSE x - (j - lo)
             z == IF x <= lo THEN x ELSE IF x <= end THEN lo ELSE x - (end - lo)
  <2>1. Abstract!Closed(x, lo, j) = y BY <1>2, ClosedIs
  <2>2. Abstract!Closed(x, lo, end) = z BY <1>0, <1>2, ClosedIs
  <2>4. y \in Nat BY <1>2
  <2>5. z = IF y <= lo THEN y ELSE IF y <= to THEN lo ELSE y - (to - lo) BY <1>2
  <2> HIDE DEF y, z
  <2>6. Abstract!Closed(y, lo, to) = IF y <= lo THEN y ELSE IF y <= to THEN lo ELSE y - (to - lo)
    BY <1>0, <2>4, ClosedIs
  <2> QED BY <2>1, <2>2, <2>5, <2>6 DEF ClosedAgain
<1> QED BY <1>1, <1>2

\* Nothing is cut.
LEMMA ClosedNot ==
  ASSUME NEW x \in Nat \cup {NIL}, NEW lo \in Nat
  PROVE  Abstract!Closed(x, lo, lo) = x
<1>1. CASE x = NIL BY <1>1, ClosedIs
<1>2. CASE x \in Nat BY <1>2, ClosedIs
<1> QED BY <1>1, <1>2

\* Shrinks in terms of TextBuffer's places.
LEMMA ShrinksClosed ==
  ASSUME NEW b, WellFormed(b), NEW c, NEW from \in Nat, NEW to \in Nat, from <= to,
         Shrinks(b, c, from, to), NEW m \in Mark, b.mpage[m] # NIL
  PROVE  PlaceOf(c, m) = Abstract!Closed(PlaceOf(b, m), from, to)
<1>1. PlaceOf(b, m) \in Nat BY Places
<1>2. PlaceOf(c, m) = IF PlaceOf(b, m) <= from THEN PlaceOf(b, m)
                      ELSE IF PlaceOf(b, m) <= to THEN from
                      ELSE PlaceOf(b, m) - (to - from)
  BY DEF Shrinks
<1> QED BY <1>1, <1>2, ClosedIs

\* What the caller saw is a text.
Typed(w) ==
  /\ w.text \in Seq(Byte) /\ w.point \in 0 .. Len(w.text)
  /\ w.mark \in [Mark -> (0 .. Len(w.text)) \cup {NIL}]

\* Where the cut begins and ends.
LEMMA CutBounds ==
  ASSUME NEW w, Typed(w), NEW m \in Mark, w.mark[m] # NIL,
         NEW lo, lo = MIN(w.point, w.mark[m]), NEW hi, hi = w.point + w.mark[m] - lo
  PROVE  /\ lo \in 0 .. Len(w.text) /\ hi \in lo .. Len(w.text) /\ Len(w.text) \in Nat
         /\ w.point <= w.mark[m] => lo = w.point /\ hi = w.mark[m]
         /\ ~ (w.point <= w.mark[m]) => lo = w.mark[m] /\ hi = w.point
<1> DEFINE P == w.point
           M == w.mark[m]
           L == Len(w.text)
<1>1. L \in Nat /\ P \in 0 .. L /\ M \in 0 .. L BY DEF Typed
<1>2. lo = (IF P < M THEN P ELSE M) /\ hi = P + M - lo BY DEF MIN
<1> HIDE DEF P, M, L
<1>3. /\ lo \in 0 .. L /\ hi \in lo .. L
      /\ P <= M => lo = P /\ hi = M
      /\ ~ (P <= M) => lo = M /\ hi = P
  BY <1>1, <1>2
<1> QED BY <1>1, <1>3 DEF P, M, L

\* bdeltomrk begins with the point in front of the mark.
LEMMA CutBegins ==
  ASSUME NEW b, WellFormed(b), NEW c, NEW m \in Mark, b.mpage[m] # NIL, NEW w, w = View(b),
         Text(c) = Text(b),
         \A k \in Mark : /\ c.mpage[k] = NIL <=> b.mpage[k] = NIL
                         /\ k # m /\ b.mpage[k] # NIL => PlaceOf(c, k) = PlaceOf(b, k),
         \/ /\ blocation(b) <= PlaceOf(b, m)
            /\ blocation(c) = blocation(b) /\ PlaceOf(c, m) = PlaceOf(b, m)
         \/ /\ PlaceOf(b, m) <= blocation(b)
            /\ blocation(c) = PlaceOf(b, m) /\ PlaceOf(c, m) = blocation(b)
  PROVE  Cutting(c, w, m)
<1> DEFINE lo == MIN(w.point, w.mark[m])
           hi == w.point + w.mark[m] - lo
<1>1. w.text = Text(b) /\ w.point = blocation(b) /\ w.mark = MarkPlace(b) BY DEF View
<1>2. Typed(w)
  <2>1. Text(b) \in Seq(Byte) /\ blocation(b) \in 0 .. Len(Text(b)) BY Places
  <2> QED BY <1>1, <2>1, MarkPlaces DEF Typed
<1>3. w.mark[m] = PlaceOf(b, m) /\ w.mark[m] # NIL
  <2>1. /\ MarkPlace(b)[m] = IF b.mpage[m] = NIL THEN NIL ELSE PlaceOf(b, m)
        /\ b.mpage[m] = NIL <=> MarkPlace(b)[m] = NIL
    BY MarkPlaces
  <2> QED BY <1>1, <2>1
<1>4. lo \in 0 .. Len(w.text) /\ hi \in lo .. Len(w.text) /\ Len(w.text) \in Nat
  <2> HIDE DEF lo
  <2> DEFINE h == hi
  <2>1. lo = MIN(w.point, w.mark[m]) /\ h = w.point + w.mark[m] - lo BY DEF lo
  <2> HIDE DEF h
  <2>2. /\ lo \in 0 .. Len(w.text) /\ h \in lo .. Len(w.text) /\ Len(w.text) \in Nat
        /\ w.point <= w.mark[m] => lo = w.point /\ h = w.mark[m]
        /\ ~ (w.point <= w.mark[m]) => lo = w.mark[m] /\ h = w.point
    BY <1>2, <1>3, <2>1, CutBounds
  <2> QED BY <2>2 DEF h
<1>5. blocation(b) \in Nat /\ PlaceOf(b, m) \in Nat BY Places
<1>6. blocation(c) = lo /\ PlaceOf(c, m) = hi
  <2> DEFINE B == blocation(b)
             Q == PlaceOf(b, m)
             C == blocation(c)
             R == PlaceOf(c, m)
  <2>1. lo = (IF B < Q THEN B ELSE Q) /\ hi = B + Q - lo BY <1>1, <1>3 DEF MIN
  <2>2. (B <= Q /\ C = B /\ R = Q) \/ (Q <= B /\ C = Q /\ R = B) OBVIOUS
  <2>3. B \in Nat /\ Q \in Nat BY <1>5
  <2> HIDE DEF B, Q, C, R, lo, hi
  <2>4. C = lo /\ R = hi
    <3> HIDE DEF lo
    <3> DEFINE h == hi
    <3>1. h = B + Q - lo BY <2>1
    <3> HIDE DEF h
    <3>2. C = lo /\ R = h BY <2>1, <2>2, <2>3, <3>1
    <3> QED BY <3>2 DEF h
  <2> QED BY <2>4 DEF C, R
<1> HIDE DEF lo, hi
<1>7. Text(c) = Spliced(w.text, lo, lo, <<>>) BY <1>1, <1>2, <1>4, SplicedNot DEF Typed
<1>8. ASSUME NEW k \in Mark
      PROVE  /\ c.mpage[k] = NIL <=> w.mark[k] = NIL
             /\ k # m /\ w.mark[k] # NIL => PlaceOf(c, k) = Abstract!Closed(w.mark[k], lo, lo)
  <2>1. /\ MarkPlace(b)[k] = IF b.mpage[k] = NIL THEN NIL ELSE PlaceOf(b, k)
        /\ b.mpage[k] = NIL <=> MarkPlace(b)[k] = NIL
    BY MarkPlaces
  <2>2. b.mpage[k] # NIL => PlaceOf(b, k) \in Nat BY Places
  <2>3. lo \in Nat BY <1>4
  <2>4. b.mpage[k] # NIL => Abstract!Closed(PlaceOf(b, k), lo, lo) = PlaceOf(b, k)
    BY <2>2, <2>3, ClosedNot
  <2> QED BY <1>1, <2>1, <2>4
<1>9. hi - (lo - lo) = hi /\ lo \in lo .. hi BY <1>4
<1>10. CutTo(c, w, m, lo, hi, lo) BY <1>6, <1>7, <1>8, <1>9 DEF CutTo
<1> QED BY <1>3, <1>6, <1>9, <1>10 DEF Cutting, lo, hi

\* Each bdelete of bdeltomrk cuts further.
LEMMA CutMore ==
  ASSUME NEW b, WellFormed(b), NEW c, NEW w, Typed(w), NEW m \in Mark, Cutting(b, w, m),
         NEW n \in Nat, blocation(b) + n <= PlaceOf(b, m),
         Shrinks(b, c, blocation(b), blocation(b) + n), blocation(c) = blocation(b)
  PROVE  Cutting(c, w, m)
<1> DEFINE lo == MIN(w.point, w.mark[m])
           hi == w.point + w.mark[m] - lo
           L == Len(w.text)
<1>1. w.mark[m] # NIL /\ blocation(b) = lo BY DEF Cutting
<1>2. PICK j \in lo .. hi : CutTo(b, w, m, lo, hi, j) BY DEF Cutting
<1>3. lo \in 0 .. L /\ hi \in lo .. L /\ L \in Nat
  <2> HIDE DEF lo, L
  <2> DEFINE h == hi
  <2>1. lo = MIN(w.point, w.mark[m]) /\ h = w.point + w.mark[m] - lo BY DEF lo
  <2> HIDE DEF h
  <2>2. /\ lo \in 0 .. Len(w.text) /\ h \in lo .. Len(w.text) /\ Len(w.text) \in Nat
        /\ w.point <= w.mark[m] => lo = w.point /\ h = w.mark[m]
        /\ ~ (w.point <= w.mark[m]) => lo = w.mark[m] /\ h = w.point
    BY <1>1, <2>1, CutBounds
  <2> QED BY <2>2 DEF h, L
<1> HIDE DEF lo, hi, L
<1>4. /\ Text(b) = Spliced(w.text, lo, j, <<>>)
      /\ PlaceOf(b, m) = hi - (j - lo)
      /\ \A k \in Mark :
           /\ b.mpage[k] = NIL <=> w.mark[k] = NIL
           /\ k # m /\ w.mark[k] # NIL => PlaceOf(b, k) = Abstract!Closed(w.mark[k], lo, j)
  BY <1>2 DEF CutTo
<1> DEFINE i == j + n
           to == lo + n
<1>5. /\ i \in lo .. hi /\ j \in lo .. L /\ n \in 0 .. L - j /\ lo \in Nat /\ j \in Nat
      /\ to \in Nat /\ lo <= to /\ i \in Nat /\ lo <= j /\ i - j = to - lo /\ i = j + n /\ to = lo + n
  BY <1>1, <1>2, <1>3, <1>4
<1>6. w.text \in Seq(Byte) /\ Len(w.text) = L BY DEF Typed, L
<1>7. Text(c) = Spliced(w.text, lo, i, <<>>)
  <2>1. Text(c) = Spliced(Spliced(w.text, lo, j, <<>>), lo, lo + n, <<>>) BY <1>1, <1>4 DEF Shrinks
  <2> QED BY <1>3, <1>5, <1>6, <2>1, SplicedTwice
<1>8. \A k \in Mark : c.mpage[k] = NIL <=> b.mpage[k] = NIL BY DEF Shrinks
<1>9. Shrinks(b, c, lo, to) BY <1>1
<1> HIDE DEF i, to
<1>10. \A k \in Mark : b.mpage[k] # NIL => PlaceOf(c, k) = Abstract!Closed(PlaceOf(b, k), lo, to)
  BY <1>5, <1>9, ShrinksClosed
<1>11. ASSUME NEW k \in Mark
       PROVE  /\ c.mpage[k] = NIL <=> w.mark[k] = NIL
              /\ k # m /\ w.mark[k] # NIL => PlaceOf(c, k) = Abstract!Closed(w.mark[k], lo, i)
  <2> DEFINE x == w.mark[k]
  <2>1. x \in Nat \cup {NIL} BY <1>3 DEF Typed, L
  <2>2. /\ b.mpage[k] = NIL <=> x = NIL
        /\ k # m /\ x # NIL => PlaceOf(b, k) = Abstract!Closed(x, lo, j)
    BY <1>4
  <2> HIDE DEF x
  <2>3. ClosedAgain(x, lo, j, to, i) BY <1>5, <2>1, ClosedTwice
  <2>4. /\ c.mpage[k] = NIL <=> x = NIL
        /\ k # m /\ x # NIL => PlaceOf(c, k) = Abstract!Closed(x, lo, i)
    BY <1>8, <1>10, <2>2, <2>3 DEF ClosedAgain
  <2> QED BY <2>4 DEF x
<1>12. PlaceOf(c, m) = hi - (i - lo)
  <2>1. b.mpage[m] # NIL BY <1>1, <1>4
  <2> DEFINE x == PlaceOf(b, m)
  <2>2. PlaceOf(c, m) = Abstract!Closed(x, lo, to) BY <1>10, <2>1
  <2>3. x \in Nat /\ x = hi - (j - lo) /\ to <= x BY <1>1, <1>4, <1>5, <2>1, Places
  <2> HIDE DEF x
  <2>4. /\ Abstract!Closed(NIL, lo, to) = NIL
        /\ Abstract!Closed(x, lo, to) = IF x <= lo THEN x ELSE IF x <= to THEN lo ELSE x - (to - lo)
    BY <1>5, <2>3, ClosedIs
  <2>5. PlaceOf(c, m) = IF x <= lo THEN x ELSE IF x <= to THEN lo ELSE x - (to - lo)
    BY <2>2, <2>4
  <2>6. lo \in Nat /\ n \in Nat /\ j \in Nat /\ hi \in Nat BY <1>3, <1>5
  <2>7. PlaceOf(c, m) = x - n BY <1>5, <2>3, <2>5, <2>6
  <2> QED BY <1>5, <2>3, <2>6, <2>7
<1>13. CutTo(c, w, m, lo, hi, i) BY <1>7, <1>11, <1>12 DEF CutTo
<1>14. blocation(c) = lo BY <1>1
<1> QED BY <1>1, <1>5, <1>13, <1>14 DEF Cutting, lo, hi

\* bdeltomrk returns when the point is not in front of the mark: the caller sees all
\* the bytes between them gone.
LEMMA CutEnds ==
  ASSUME WellFormed(buf), NEW m \in Mark, Typed(was), Cutting(buf, was, m),
         ~ bisbeforemrk(buf, m), was' = View(buf)
  PROVE  Abstract!DeleteToMark(m)
<1> DEFINE lo == MIN(was.point, was.mark[m])
           hi == was.point + was.mark[m] - lo
           L == Len(was.text)
<1>1. was.mark[m] # NIL /\ blocation(buf) = lo BY DEF Cutting
<1>2. PICK j \in lo .. hi : CutTo(buf, was, m, lo, hi, j) BY DEF Cutting
<1>3. /\ lo \in 0 .. L /\ hi \in lo .. L /\ L \in Nat
      /\ was.point <= was.mark[m] => lo = was.point /\ hi = was.mark[m]
      /\ ~ (was.point <= was.mark[m]) => lo = was.mark[m] /\ hi = was.point
  <2> HIDE DEF lo, L
  <2> DEFINE h == hi
  <2>1. lo = MIN(was.point, was.mark[m]) /\ h = was.point + was.mark[m] - lo BY DEF lo
  <2> HIDE DEF h
  <2>2. /\ lo \in 0 .. Len(was.text) /\ h \in lo .. Len(was.text) /\ Len(was.text) \in Nat
        /\ was.point <= was.mark[m] => lo = was.point /\ h = was.mark[m]
        /\ ~ (was.point <= was.mark[m]) => lo = was.mark[m] /\ h = was.point
    BY <1>1, <2>1, CutBounds
  <2> QED BY <2>2 DEF h, L
<1> HIDE DEF lo, hi, L
<1>4. /\ Text(buf) = Spliced(was.text, lo, j, <<>>)
      /\ PlaceOf(buf, m) = hi - (j - lo)
      /\ \A k \in Mark :
           /\ buf.mpage[k] = NIL <=> was.mark[k] = NIL
           /\ k # m /\ was.mark[k] # NIL => PlaceOf(buf, k) = Abstract!Closed(was.mark[k], lo, j)
  BY <1>2 DEF CutTo
<1>5. PlaceOf(buf, m) <= lo BY <1>1, <1>4, MarkSides
<1>6. j = hi /\ PlaceOf(buf, m) = lo /\ lo \in Nat /\ hi \in Nat /\ lo <= hi
  BY <1>3, <1>4, <1>5
<1>7. was.text \in Seq(Byte) /\ Len(was.text) = L BY DEF Typed, L
<1>8. Text(buf) = SubSeq(was.text, 1, lo) \o SubSeq(was.text, hi + 1, Len(was.text))
  BY <1>3, <1>4, <1>6, <1>7, SplicedOut
<1>9. ASSUME NEW k \in Mark
      PROVE  MarkPlace(buf)[k] = Abstract!Closed(was.mark[k], lo, hi)
  <2>1. /\ MarkPlace(buf)[k] = IF buf.mpage[k] = NIL THEN NIL ELSE PlaceOf(buf, k)
    BY MarkPlaces
  <2> DEFINE x == was.mark[k]
  <2>2. x \in Nat \cup {NIL} BY <1>3 DEF Typed, L
  <2>3. k = m => x = lo \/ x = hi BY <1>3
  <2>4. buf.mpage[k] = NIL <=> x = NIL BY <1>4
  <2>5. k # m /\ x # NIL => PlaceOf(buf, k) = Abstract!Closed(x, lo, hi) BY <1>4, <1>6
  <2> HIDE DEF x
  <2>6. Abstract!Closed(NIL, lo, hi) = NIL BY <1>6, ClosedIs
  <2>7. x # NIL => Abstract!Closed(x, lo, hi) = IF x <= lo THEN x ELSE IF x <= hi THEN lo ELSE x - (hi - lo)
    BY <1>6, <2>2, ClosedIs
  <2>8. CASE x = NIL BY <2>1, <2>4, <2>6, <2>8 DEF x
  <2>9. CASE k # m /\ x # NIL BY <2>1, <2>4, <2>5, <2>9 DEF x
  <2>10. CASE k = m /\ x # NIL
    <3>1. Abstract!Closed(x, lo, hi) = lo BY <1>6, <2>3, <2>7, <2>10
    <3> QED BY <1>6, <2>1, <2>4, <2>10, <3>1 DEF x
  <2> QED BY <2>8, <2>9, <2>10
<1>10. MarkPlace(buf) = [k \in Mark |-> Abstract!Closed(was.mark[k], lo, hi)]
  BY <1>9 DEF MarkPlace
<1>11. was'.text = Text(buf) /\ was'.point = lo /\ was'.mark = MarkPlace(buf)
  BY <1>1 DEF View
<1>12. Abstract!Cut(lo, hi) BY <1>8, <1>10, <1>11 DEF Abstract!Cut, Abstract!Without
<1>13. CASE was.point <= was.mark[m]
  BY <1>1, <1>3, <1>12, <1>13 DEF Abstract!DeleteToMark
<1>14. CASE ~ (was.point <= was.mark[m])
  BY <1>1, <1>3, <1>12, <1>14 DEF Abstract!DeleteToMark
<1> QED BY <1>13, <1>14

-----------------------------------------------------------------------------
(* The steps. *)

\* What the caller saw last, and how the buffer is related to it.
Seen ==
  /\ Typed(was)
  /\ call.op # "undefined"
  /\ Idle \/ call.op = "bdelete" => was = View(buf)
  /\ call.op = "bmove" => was.text = Text(buf) /\ was.mark = MarkPlace(buf)
  /\ call.op = "bdeltomrk" => Cutting(buf, was, call.mark)

\* The history variable in a step.
Told == was' = IF call' = NoCall THEN View(buf') ELSE was

\* What the caller sees is a step of a text, or nothing.
Matched == Abstract!Next \/ was' = was

\* A well formed buffer is seen as a text.
LEMMA ViewTyped ==
  ASSUME NEW b, WellFormed(b), NEW w, w = View(b)
  PROVE  Typed(w) /\ w.text = Text(b) /\ w.point = blocation(b) /\ w.mark = MarkPlace(b)
<1>1. w.text = Text(b) /\ w.point = blocation(b) /\ w.mark = MarkPlace(b) BY DEF View
<1>2. Text(b) \in Seq(Byte) /\ blocation(b) \in 0 .. Len(Text(b)) BY Places
<1> QED BY <1>1, <1>2, MarkPlaces DEF Typed

\* When a call returns its caller sees the buffer.
LEMMA Settled ==
  ASSUME Sound(FALSE)', Told, call' = NoCall
  PROVE  Seen' /\ was' = View(buf')
<1>1. was' = View(buf') /\ WellFormed(buf') BY DEF Told, Sound
<1>2. Typed(was') BY <1>1, ViewTyped
<1>3. call'.op = "none" BY DEF NoCall
<1> QED BY <1>1, <1>2, <1>3 DEF Seen

\* A call that does not loop.
LEMMA DoSeen ==
  ASSUME Sound(FALSE), Seen, Sound(FALSE)', Told, NEW b, NEW result, Do(b, result)
  PROVE  /\ Seen' /\ buf' = b /\ was = View(buf) /\ was' = View(buf')
         /\ WellFormed(buf) /\ WellFormed(buf')
<1>1. buf' = b /\ call' = NoCall /\ call = NoCall BY DEF Do, Idle, Return
<1>2. Seen' /\ was' = View(buf') BY <1>1, Settled
<1> QED BY <1>1, <1>2 DEF Seen, Sound, Idle

\* A looping call that begins, or goes on.
LEMMA Begun ==
  ASSUME Told, call' # NoCall
  PROVE  was' = was /\ Matched
BY DEF Told, Matched

\* Calls that change the text.
LEMMA EditCallSeen ==
  ASSUME Sound(FALSE), Seen, Sound(FALSE)', Told, EditCall
  PROVE  Seen' /\ Matched
<1>1. ASSUME NEW ch \in Byte, Binsert(ch) \/ BinsertSplit(ch)
      PROVE  Seen' /\ Matched
  <2>1. PICK q : /\ curplen(buf) = PGSIZE => q \in Page \ buf.alive
                 /\ Do(binsert(buf, ch, q), 1)
    <3>1. CASE Binsert(ch)
      <4>1. curplen(buf) # PGSIZE
        <5>1. curplen(buf) \in Nat BY Lengths DEF Sound
        <5>2. curplen(buf) < PGSIZE BY <3>1 DEF Binsert
        <5> QED BY <5>1, <5>2, PGSIZEAssumption
      <4> QED BY <3>1, <4>1, Zenon DEF Binsert
    <3>2. CASE BinsertSplit(ch)
      BY <3>2 DEF BinsertSplit, Calloc
    <3> QED BY <1>1, <3>1, <3>2
  <2>2. /\ Seen' /\ buf' = binsert(buf, ch, q) /\ was = View(buf) /\ was' = View(buf')
        /\ WellFormed(buf) /\ WellFormed(buf')
    BY <2>1, DoSeen
  <2>3. LET r == binsert(buf, ch, q)
        IN Grows(buf, r, blocation(buf), <<ch>>) /\ blocation(r) = blocation(buf) + 1
    BY <2>1, <2>2, BinsertGrows
  <2>4. Abstract!Insert(ch) BY <2>2, <2>3, GrowsInserts
  <2>5. Abstract!Next BY <2>4 DEF Abstract!Next
  <2> QED BY <2>2, <2>5 DEF Matched
<1>2. CASE BinsertNoMemory
  <2>1. Seen' /\ buf' = buf /\ was = View(buf) /\ was' = View(buf')
    BY <1>2, DoSeen DEF BinsertNoMemory
  <2> QED BY <2>1 DEF Matched
<1>3. ASSUME NEW n \in Nat, Bdelete(n)
      PROVE  Seen' /\ Matched
  <2>1. /\ call' = [op |-> "bdelete", page |-> buf.curpage, mark |-> NIL, left |-> n]
        /\ buf' = buf /\ Idle
    BY <1>3 DEF Bdelete, NoCall
  <2>2. call'.op = "bdelete" /\ call' # NoCall
    BY <2>1 DEF NoCall
  <2>3. was' = was /\ Matched BY <2>2, Begun
  <2> QED BY <2>1, <2>2, <2>3 DEF Seen, Idle
<1>4. CASE Bempty
  <2>1. /\ Seen' /\ buf' = bempty(buf) /\ was = View(buf) /\ was' = View(buf')
        /\ WellFormed(buf) /\ WellFormed(buf')
    BY <1>4, DoSeen DEF Bempty
  <2>2. /\ Text(buf') = <<>> /\ blocation(buf') = 0
        /\ MarkPlace(buf') = [m \in Mark |-> IF buf.mpage[m] = NIL THEN NIL ELSE 0]
    BY <2>1, BemptyEmpties
  <2>3. \A m \in Mark : was.mark[m] = NIL <=> buf.mpage[m] = NIL BY <2>1, MarkPlaces DEF View
  <2>4. was'.mark = [m \in Mark |-> IF was.mark[m] = NIL THEN NIL ELSE 0]
    BY <2>1, <2>2, <2>3 DEF View
  <2>5. was'.text = <<>> /\ was'.point = 0 BY <2>1, <2>2 DEF View
  <2>6. Abstract!Empty BY <2>4, <2>5 DEF Abstract!Empty
  <2>7. Abstract!Next BY <2>6 DEF Abstract!Next
  <2> QED BY <2>1, <2>7 DEF Matched
<1>5. 1 .. MaxDelete \subseteq Nat BY BoundsAssumption
<1> QED BY <1>1, <1>2, <1>3, <1>4, <1>5, Zenon DEF EditCall

\* A move in one step.
LEMMA PointStep ==
  ASSUME Sound(FALSE), Sound(FALSE)', Seen, OnlyPoint(buf, buf'), was' = View(buf'),
         was = View(buf) \/ (was.text = Text(buf) /\ was.mark = MarkPlace(buf))
  PROVE  Matched
<1>1. WellFormed(buf) /\ WellFormed(buf') /\ Typed(was) BY DEF Sound, Seen
<1>2. was.text = Text(buf) /\ was.mark = MarkPlace(buf) BY DEF View
<1>3. was.point \in 0 .. Len(Text(buf)) BY <1>1, <1>2 DEF Typed
<1>4. \E dist \in -Len(was.text) .. Len(was.text) : Abstract!Move(dist)
  BY <1>1, <1>2, <1>3, PointMoves
<1>5. Abstract!Next BY <1>4, Zenon DEF Abstract!Next
<1> QED BY <1>5 DEF Matched

\* Only the point moves.
LEMMA MovedOnly ==
  ASSUME NEW b, b \in Buffer, NEW p, NEW d
  PROVE  OnlyPoint(b, makecur(b, p, d)) /\ OnlyPoint(b, makeoffset(b, d)) /\ OnlyPoint(b, b)
BY DEF OnlyPoint, SameLinks, makecur, makeoffset, Buffer

\* Calls that move the point.
LEMMA MoveCallSeen ==
  ASSUME Sound(FALSE), Seen, Sound(FALSE)', Told, MoveCall
  PROVE  Seen' /\ Matched
<1>0. buf \in Buffer BY DEF Sound, WellFormed
<1>1. ASSUME NEW dist \in Int, Bmove(dist)
      PROVE  Seen' /\ Matched
  <2>1. /\ call' = [op |-> "bmove", page |-> NIL, mark |-> NIL, left |-> dist]
        /\ buf' = buf /\ Idle
    BY <1>1 DEF Bmove, NoCall
  <2>2. call'.op = "bmove" /\ call' # NoCall
    BY <2>1 DEF NoCall
  <2>3. was' = was /\ Matched BY <2>2, Begun
  <2>4. was.text = Text(buf) /\ was.mark = MarkPlace(buf) BY <2>1 DEF Seen, View
  <2> QED BY <2>1, <2>2, <2>3, <2>4 DEF Seen, Idle
<1>2. ASSUME NEW b, NEW result, Do(b, result), OnlyPoint(buf, b)
      PROVE  Seen' /\ Matched
  <2>1. Seen' /\ buf' = b /\ was = View(buf) /\ was' = View(buf') BY <1>2, DoSeen
  <2> QED BY <1>2, <2>1, PointStep
<1>3. ASSUME NEW n, Boffset(n) PROVE Seen' /\ Matched
  <2>1. PICK p, d : Do(makecur(buf, p, d), 0) BY <1>3 DEF Boffset
  <2> QED BY <1>0, <1>2, <2>1, MovedOnly
<1>4. CASE Bmove1
  <2>1. Do(bmove1(buf), 0) BY <1>4 DEF Bmove1
  <2>2. OnlyPoint(buf, bmove1(buf))
    <3>1. \/ \E d : bmove1(buf) = makeoffset(buf, d)
          \/ \E p, d : bmove1(buf) = makecur(buf, p, d)
      BY DEF bmove1
    <3> QED BY <1>0, <3>1, MovedOnly
  <2> QED BY <1>2, <2>1, <2>2
<1>5. CASE Btostart BY <1>0, <1>2, <1>5, MovedOnly DEF Btostart, btostart
<1>6. CASE Btoend BY <1>0, <1>2, <1>6, MovedOnly DEF Btoend, btoend
<1>7. -MaxMove .. MaxMove \subseteq Int BY BoundsAssumption
<1> QED BY <1>1, <1>3, <1>4, <1>5, <1>6, <1>7, Zenon DEF MoveCall

\* Mark m is set to offset d of page p, or dropped, and the point to offset x of page
\* cur: only that changes.
Reset(b, c, m, p, d, cur, x) ==
  c = [b EXCEPT !.mpage = [@ EXCEPT ![m] = p], !.moffset = [@ EXCEPT ![m] = d],
                !.curpage = cur, !.curchar = x]

\* Then the mark and the point have those places in the same text.
LEMMA MarkSet ==
  ASSUME NEW b, WellFormed(b), NEW m \in Mark, NEW p \in b.alive \cup {NIL}, NEW d \in Nat,
         p # NIL => d <= plen(b, p), NEW cur \in b.alive, NEW x \in Nat, x <= plen(b, cur),
         NEW c, Reset(b, c, m, p, d, cur, x)
  PROVE  WellFormed(c) /\ MarkedAt(b, c, m, p, d) /\ blocation(c) = Before(b, cur) + x
<1> DEFINE e == [b EXCEPT !.mpage = [@ EXCEPT ![m] = p], !.moffset = [@ EXCEPT ![m] = d]]
<1>1. WellFormed(e) /\ (NoEmptyPage(b) => NoEmptyPage(e)) BY MarkMove
<1>2. b \in Buffer BY DEF WellFormed
<1>3. /\ e.alive = b.alive /\ e.firstp = b.firstp /\ e.lastp = b.lastp
      /\ e.nextp = b.nextp /\ e.prevp = b.prevp /\ e.data = b.data
      /\ Remarked(b, e, m, p, d)
  BY <1>2 DEF Buffer, Remarked
<1>4. c = makecur(e, cur, x) BY <1>2 DEF makecur, Buffer, Reset
<1> HIDE DEF e
<1>5. plen(e, cur) = plen(b, cur) BY <1>3 DEF plen
<1>6. WellFormed(c) BY <1>1, <1>3, <1>4, <1>5, PointMove
<1>7. /\ SameLinks(b, c) /\ c.data = b.data /\ Remarked(b, c, m, p, d)
      /\ c.curpage = cur /\ c.curchar = x
  <2>1. e \in Buffer BY <1>1 DEF WellFormed
  <2> QED BY <1>3, <1>4, <2>1 DEF makecur, Buffer, Remarked, SameLinks
<1>8. MarkedAt(b, c, m, p, d) BY <1>6, <1>7, MarkMarked
<1>9. blocation(c) = Before(b, cur) + x BY <1>7, <1>8 DEF blocation, MarkedAt
<1> QED BY <1>6, <1>8, <1>9

\* Where a mark may be set to: the point, or another mark.
LEMMA Spots ==
  ASSUME NEW b, WellFormed(b)
  PROVE  /\ b.curpage \in b.alive /\ b.curchar \in Nat /\ b.curchar <= plen(b, b.curpage)
         /\ NIL \notin b.alive
         /\ \A m \in Mark : /\ b.moffset[m] \in Nat
                            /\ b.mpage[m] # NIL => /\ b.mpage[m] \in b.alive
                                                   /\ b.moffset[m] <= plen(b, b.mpage[m])
<1>1. b \in Buffer /\ PointInside(b) /\ MarksInside(b) BY DEF WellFormed
<1>2. NIL \notin b.alive BY <1>1, PageAssumption DEF Buffer
<1> QED BY <1>1, <1>2 DEF PointInside, MarksInside, curplen, Buffer

\* The marks that are on the list are the places of the text that are marked.
LEMMA MarkSeen ==
  ASSUME NEW b, WellFormed(b), NEW m \in Mark, b.mpage[m] # NIL
  PROVE  MarkPlace(b)[m] = PlaceOf(b, m) /\ MarkPlace(b)[m] # NIL
BY MarkPlaces

\* Calls on marks that do not loop.
LEMMA MarkDoSeen ==
  ASSUME Sound(FALSE), Seen, Sound(FALSE)', Told, NEW m \in Mark,
         \/ Bcremark(m) \/ Bdelmark(m) \/ Bmrktopnt(m) \/ Bpnttomrk(m) \/ Bswappnt(m)
         \/ \E m2 \in Mark \ {m} : Mrktomrk(m, m2)
  PROVE  Seen' /\ Matched
<1> DEFINE S(b) == Seen' /\ buf' = b /\ was = View(buf) /\ was' = View(buf')
<1>0. WellFormed(buf) /\ buf \in Buffer BY DEF Sound, WellFormed
<1>1. ASSUME NEW b, NEW result, Do(b, result) PROVE S(b) BY <1>1, DoSeen
<1>2. was = View(buf) /\ was' = View(buf') =>
        /\ was.text = Text(buf) /\ was.point = blocation(buf) /\ was.mark = MarkPlace(buf)
        /\ was'.text = Text(buf') /\ was'.point = blocation(buf') /\ was'.mark = MarkPlace(buf')
  BY DEF View
<1>3. blocation(buf) = Before(buf, buf.curpage) + buf.curchar BY DEF blocation
<1>4. ASSUME Seen', \E k \in Mark :
                      \/ Abstract!SetMark(k) \/ Abstract!DropMark(k) \/ Abstract!PointToMark(k)
                      \/ Abstract!SwapPoint(k) \/ \E m2 \in Mark : Abstract!MarkToMark(k, m2)
      PROVE  Seen' /\ Matched
  <2>1. Abstract!Next BY <1>4, Zenon DEF Abstract!Next
  <2> QED BY <1>4, <2>1 DEF Matched
<1>5. /\ buf.curpage \in buf.alive /\ buf.curchar \in Nat /\ buf.curchar <= plen(buf, buf.curpage)
      /\ NIL \notin buf.alive /\ 0 \in Nat
      /\ \A k \in Mark : /\ buf.moffset[k] \in Nat
                         /\ buf.mpage[k] # NIL => /\ buf.mpage[k] \in buf.alive
                                                  /\ buf.moffset[k] <= plen(buf, buf.mpage[k])
  BY <1>0, Spots
<1>6. ASSUME NEW b, NEW p \in buf.alive \cup {NIL}, NEW d \in Nat, p # NIL => d <= plen(buf, p),
             NEW cur \in buf.alive, NEW x \in Nat, x <= plen(buf, cur),
             Reset(buf, b, m, p, d, cur, x)
      PROVE  WellFormed(b) /\ MarkedAt(buf, b, m, p, d) /\ blocation(b) = Before(buf, cur) + x
  BY <1>0, <1>6, MarkSet
<1>7. CASE Bcremark(m) \/ Bmrktopnt(m)
  <2> DEFINE b == bmrktopnt(buf, m)
  <2>1. Reset(buf, b, m, buf.curpage, buf.curchar, buf.curpage, buf.curchar)
    BY <1>0 DEF Reset, bmrktopnt, Buffer
  <2>2. S(b) BY <1>1, <1>7 DEF Bcremark, Bmrktopnt
  <2> HIDE DEF b
  <2>3. /\ WellFormed(b) /\ MarkedAt(buf, b, m, buf.curpage, buf.curchar)
        /\ blocation(b) = Before(buf, buf.curpage) + buf.curchar
    BY <1>5, <1>6, <2>1
  <2>4. Abstract!SetMark(m)
    BY <1>2, <1>3, <1>5, <2>2, <2>3 DEF Abstract!SetMark, MarkedAt
  <2> QED BY <1>4, <2>2, <2>4
<1>8. CASE Bdelmark(m)
  <2> DEFINE b == bdelmark(buf, m)
  <2>1. Reset(buf, b, m, NIL, 0, buf.curpage, buf.curchar)
    BY <1>0 DEF Reset, bdelmark, Buffer
  <2>2. S(b) BY <1>1, <1>8 DEF Bdelmark
  <2> HIDE DEF b
  <2>3. /\ WellFormed(b) /\ MarkedAt(buf, b, m, NIL, 0)
        /\ blocation(b) = Before(buf, buf.curpage) + buf.curchar
    BY <1>5, <1>6, <2>1
  <2>4. Abstract!DropMark(m)
    BY <1>2, <1>3, <1>5, <2>2, <2>3 DEF Abstract!DropMark, MarkedAt
  <2> QED BY <1>4, <2>2, <2>4
<1>9. CASE Bpnttomrk(m)
  <2>1. OnList(m) /\ S(bpnttomrk(buf, m)) BY <1>1, <1>9 DEF Bpnttomrk
  <2>2. OnlyPoint(buf, buf') BY <1>0, <2>1, MovedOnly DEF bpnttomrk
  <2> QED BY <2>1, <2>2, PointStep
<1>10. CASE Bswappnt(m)
  <2> DEFINE b == bswappnt(buf, m)
  <2>1. Reset(buf, b, m, buf.curpage, buf.curchar, buf.mpage[m], buf.moffset[m])
    BY <1>0 DEF Reset, bswappnt, bpnttomrk, makecur, Buffer
  <2>2. S(b) /\ buf.mpage[m] # NIL BY <1>1, <1>10 DEF Bswappnt, OnList
  <2> HIDE DEF b
  <2>3. /\ WellFormed(b) /\ MarkedAt(buf, b, m, buf.curpage, buf.curchar)
        /\ blocation(b) = Before(buf, buf.mpage[m]) + buf.moffset[m]
    BY <1>5, <1>6, <2>1, <2>2
  <2>4. /\ MarkPlace(buf)[m] = Before(buf, buf.mpage[m]) + buf.moffset[m]
        /\ MarkPlace(buf)[m] # NIL
    BY <1>0, <2>2, MarkSeen DEF PlaceOf
  <2>5. Abstract!SwapPoint(m)
    BY <1>2, <1>3, <1>5, <2>2, <2>3, <2>4 DEF Abstract!SwapPoint, MarkedAt
  <2> QED BY <1>4, <2>2, <2>5
<1>11. ASSUME NEW m2 \in Mark \ {m}, Mrktomrk(m, m2) PROVE Seen' /\ Matched
  <2> DEFINE b == mrktomrk(buf, m, m2)
  <2>1. Reset(buf, b, m, buf.mpage[m2], buf.moffset[m2], buf.curpage, buf.curchar)
    BY <1>0 DEF Reset, mrktomrk, Buffer
  <2>2. S(b) /\ buf.mpage[m2] # NIL BY <1>1, <1>11 DEF Mrktomrk, OnList
  <2> HIDE DEF b
  <2>3. /\ WellFormed(b) /\ MarkedAt(buf, b, m, buf.mpage[m2], buf.moffset[m2])
        /\ blocation(b) = Before(buf, buf.curpage) + buf.curchar
    BY <1>5, <1>6, <2>1, <2>2
  <2>4. MarkPlace(buf)[m2] = Before(buf, buf.mpage[m2]) + buf.moffset[m2]
    BY <1>0, <2>2, MarkSeen DEF PlaceOf
  <2>5. Abstract!MarkToMark(m, m2)
    BY <1>2, <1>3, <1>5, <2>2, <2>3, <2>4 DEF Abstract!MarkToMark, MarkedAt
  <2> QED BY <1>4, <2>2, <2>5
<1> QED BY <1>7, <1>8, <1>9, <1>10, <1>11

\* bdeltomrk begins: it swaps the point and the mark if the mark is in front.
LEMMA BdeltomrkSeen ==
  ASSUME Sound(FALSE), Seen, Told, NEW m \in Mark, Bdeltomrk(m)
  PROVE  Seen' /\ Matched
<1>1. /\ call' = [op |-> "bdeltomrk", page |-> NIL, mark |-> m, left |-> 0]
      /\ buf' = (IF bisaftermrk(buf, m) THEN bswappnt(buf, m) ELSE buf)
      /\ Idle /\ buf.mpage[m] # NIL
  BY DEF Bdeltomrk, NoCall, OnList
<1>2. call'.op = "bdeltomrk" /\ call'.mark = m /\ call' # NoCall BY <1>1 DEF NoCall
<1>3. was' = was /\ Matched BY <1>2, Begun
<1>4. was = View(buf) /\ WellFormed(buf) /\ buf \in Buffer /\ Typed(was)
  BY <1>1 DEF Seen, Sound, WellFormed
<1>5. /\ bisaftermrk(buf, m) => PlaceOf(buf, m) <= blocation(buf)
      /\ ~ bisaftermrk(buf, m) => blocation(buf) <= PlaceOf(buf, m)
      /\ bisbeforemrk(buf, m) => blocation(buf) <= PlaceOf(buf, m)
      /\ ~ bisbeforemrk(buf, m) => PlaceOf(buf, m) <= blocation(buf)
  BY <1>1, <1>4, MarkSides
<1>6. Cutting(buf', was, m)
  <2>1. CASE ~ bisaftermrk(buf, m)
    <3>1. buf' = buf BY <1>1, <2>1
    <3>2. Cutting(buf, was, m) BY <1>1, <1>4, <1>5, <2>1, CutBegins
    <3> QED BY <3>1, <3>2
  <2>2. CASE bisaftermrk(buf, m)
    <3> DEFINE c == bswappnt(buf, m)
               p == buf.curpage
               d == buf.curchar
               cur == buf.mpage[m]
               x == buf.moffset[m]
    <3>1. Reset(buf, c, m, p, d, cur, x)
      BY <1>4 DEF Reset, bswappnt, bpnttomrk, makecur, Buffer
    <3>2. /\ p \in buf.alive /\ d \in Nat /\ d <= plen(buf, p)
          /\ cur \in buf.alive /\ x \in Nat /\ x <= plen(buf, cur)
          /\ p # NIL
      BY <1>1, <1>4, Spots
    <3>3. /\ c.mpage = [buf.mpage EXCEPT ![m] = p] /\ c.moffset = [buf.moffset EXCEPT ![m] = d]
          /\ buf.mpage \in [Mark -> Page \cup {NIL}] /\ buf.moffset \in [Mark -> Nat]
      BY <1>4 DEF bswappnt, bpnttomrk, makecur, Buffer
    <3>4. PlaceOf(buf, m) = Before(buf, cur) + x /\ blocation(buf) = Before(buf, p) + d
      BY DEF PlaceOf, blocation
    <3> HIDE DEF c, p, d, cur, x
    <3>5. WellFormed(c) /\ MarkedAt(buf, c, m, p, d) /\ blocation(c) = Before(buf, cur) + x
      BY <1>4, <3>1, <3>2, MarkSet
    <3>6. Text(c) = Text(buf) /\ \A r \in buf.alive : Before(c, r) = Before(buf, r)
      BY <3>5 DEF MarkedAt
    <3>7. PlaceOf(c, m) = Before(buf, p) + d BY <3>2, <3>3, <3>6 DEF PlaceOf
    <3>8. ASSUME NEW k \in Mark
          PROVE  /\ c.mpage[k] = NIL <=> buf.mpage[k] = NIL
                 /\ k # m /\ buf.mpage[k] # NIL => PlaceOf(c, k) = PlaceOf(buf, k)
      <4>1. k # m => c.mpage[k] = buf.mpage[k] /\ c.moffset[k] = buf.moffset[k] BY <3>3
      <4>2. k = m => c.mpage[k] = p BY <3>3
      <4>3. buf.mpage[k] # NIL => buf.mpage[k] \in buf.alive BY <1>4, Spots
      <4> QED BY <1>1, <3>2, <3>6, <4>1, <4>2, <4>3 DEF PlaceOf
    <3>9. Cutting(c, was, m) BY <1>1, <1>4, <1>5, <2>2, <3>4, <3>5, <3>6, <3>7, <3>8, CutBegins
    <3>10. buf' = c BY <1>1, <2>2 DEF c
    <3> QED BY <3>9, <3>10
  <2> QED BY <2>1, <2>2
<1> QED BY <1>2, <1>3, <1>4, <1>6 DEF Seen, Idle

\* One bdelete of bdeltomrk.
LEMMA BdeltomrkStepSeen ==
  ASSUME Sound(FALSE), Seen, Told, BdeltomrkStep
  PROVE  Seen' /\ Matched
<1> DEFINE m == call.mark
           n == Amount(m)
<1>1. /\ call.op = "bdeltomrk" /\ bisbeforemrk(buf, m)
      /\ buf' = (IF n = 0 THEN buf ELSE bdelete_page(buf, buf.curpage, n))
      /\ call' = [call EXCEPT !.left = @ + n]
  BY DEF BdeltomrkStep
<1>2. call'.op = "bdeltomrk" /\ call'.mark = m /\ call' # NoCall
  BY <1>1 DEF NoCall, Sound, Call
<1>3. was' = was /\ Matched BY <1>2, Begun
<1>4. m \in Mark /\ buf.mpage[m] # NIL /\ WellFormed(buf) BY <1>1 DEF Sound, CallInv, OnList
<1>5. Typed(was) /\ Cutting(buf, was, m) BY <1>1 DEF Seen
<1> HIDE DEF m
<1>6. /\ Amount(m) \in Nat /\ quan(buf, Amount(m)) = Amount(m)
      /\ blocation(buf) + Amount(m) <= PlaceOf(buf, m)
  BY <1>1, <1>4, AmountFits
<1> HIDE DEF n
<1>7. Cutting(buf', was, m)
  <2>1. CASE n = 0 BY <1>1, <1>5, <2>1
  <2>2. CASE n # 0
    <3>1. buf' = bdelete_page(buf, buf.curpage, n) BY <1>1, <2>2
    <3>2. LET r == bdelete_page(buf, buf.curpage, n)
          IN /\ Shrinks(buf, r, blocation(buf), blocation(buf) + quan(buf, n))
             /\ blocation(r) = blocation(buf)
      BY <1>4, <1>6, BdeleteShrinks DEF n
    <3>3. n \in Nat /\ quan(buf, n) = n /\ blocation(buf) + n <= PlaceOf(buf, m) BY <1>6 DEF n
    <3>4. Shrinks(buf, buf', blocation(buf), blocation(buf) + n) /\ blocation(buf') = blocation(buf)
      BY <3>1, <3>2, <3>3
    <3> QED BY <1>4, <1>5, <3>3, <3>4, CutMore
  <2> QED BY <2>1, <2>2
<1> QED BY <1>2, <1>3, <1>5, <1>7 DEF Seen, Idle

\* bdeltomrk returns.
LEMMA BdeltomrkReturnSeen ==
  ASSUME Sound(FALSE), Seen, Sound(FALSE)', Told, BdeltomrkReturn
  PROVE  Seen' /\ Matched
<1> DEFINE m == call.mark
<1>1. /\ call.op = "bdeltomrk" /\ ~ bisbeforemrk(buf, m) /\ call' = NoCall /\ buf' = buf
  BY DEF BdeltomrkReturn, Return
<1>2. m \in Mark /\ WellFormed(buf) BY <1>1 DEF Sound, CallInv, OnList
<1>3. Typed(was) /\ Cutting(buf, was, m) BY <1>1 DEF Seen
<1>4. Seen' /\ was' = View(buf') BY <1>1, Settled
<1> HIDE DEF m
<1>5. Abstract!DeleteToMark(m) BY <1>1, <1>2, <1>3, <1>4, CutEnds
<1>6. Abstract!Next BY <1>2, <1>5, Zenon DEF Abstract!Next
<1> QED BY <1>4, <1>6 DEF Matched

\* A bdelete inside one page is done after one iteration of its loop.
LEMMA BdeleteOnce ==
  ASSUME Sound(FALSE), BdeleteStep
  PROVE  /\ call.op = "bdelete" /\ call.left \in Nat /\ call' = NoCall
         /\ buf' = bdelete_page(buf, buf.curpage, call.left)
<1>1. call.op = "bdelete" BY DEF BdeleteStep
<1>2. WellFormed(buf) /\ ~ CrossPage BY BoundsAssumption DEF Sound
<1>3. /\ call.left \in Nat /\ call.page = buf.curpage /\ InPage(call.left)
  BY <1>1, <1>2 DEF Sound, CallInv
<1>4. call.page \in buf.alive BY <1>2, <1>3, Spots
<1>5. /\ buf' = bdelete_page(buf, call.page, call.left)
      /\ bdelete_left(buf, call.page, call.left) = 0 => call' = NoCall
  BY <1>4 DEF BdeleteStep, Return
<1>6. bdelete_left(buf, call.page, call.left) = 0
  <2>1. CASE isLast(buf, call.page) BY <2>1 DEF bdelete_left
  <2>2. CASE ~ isLast(buf, call.page)
    <3>1. call.left <= curplen(buf) - buf.curchar BY <1>3, <2>2 DEF InPage
    <3>2. curplen(buf) \in Nat /\ buf.curchar \in Nat BY <1>2, Lengths
    <3>3. quan(buf, call.left) = call.left BY <1>3, <3>1, <3>2 DEF quan, MIN
    <3>4. bdelete_left(buf, call.page, call.left) = call.left - quan(buf, call.left)
      BY <2>2 DEF bdelete_left
    <3> QED BY <1>3, <3>3, <3>4
  <2> QED BY <2>1, <2>2
<1> QED BY <1>1, <1>3, <1>5, <1>6

\* What it deletes is in the text.
LEMMA QuanInText ==
  ASSUME NEW b, WellFormed(b), NEW quantity \in Nat
  PROVE  quan(b, quantity) \in Nat /\ blocation(b) + quan(b, quantity) <= Len(Text(b))
<1> DEFINE cur == b.curpage
<1>1. /\ Listed(b) /\ cur \in b.alive /\ curplen(b) \in Nat /\ b.curchar \in 0 .. curplen(b)
      /\ curplen(b) = plen(b, cur) /\ Before(b, cur) \in Nat
  BY Places
<1>2. Before(b, cur) + plen(b, cur) <= blength(b) /\ blength(b) \in Nat BY <1>1, InText
<1>3. Len(Text(b)) = blength(b) BY <1>1, TextLaid
<1>4. quan(b, quantity)
        = IF curplen(b) - b.curchar < quantity THEN curplen(b) - b.curchar ELSE quantity
  BY DEF quan, MIN
<1>5. blocation(b) = Before(b, cur) + b.curchar BY DEF blocation
<1> QED BY <1>1, <1>2, <1>3, <1>4, <1>5

\* bdelete returns.
LEMMA BdeleteStepSeen ==
  ASSUME Sound(FALSE), Seen, Sound(FALSE)', Told, BdeleteStep
  PROVE  Seen' /\ Matched
<1> DEFINE P == blocation(buf)
           n == quan(buf, call.left)
           L == Len(Text(buf))
<1>1. /\ call.op = "bdelete" /\ call.left \in Nat /\ call' = NoCall
      /\ buf' = bdelete_page(buf, buf.curpage, call.left)
  BY BdeleteOnce
<1>2. WellFormed(buf) /\ WellFormed(buf') /\ was = View(buf) BY <1>1 DEF Sound, Seen
<1>3. Seen' /\ was' = View(buf') BY <1>1, Settled
<1>4. P \in 0 .. L /\ L \in Nat BY <1>2, Places
<1>5. n \in Nat /\ P + n <= L BY <1>1, <1>2, QuanInText
<1>6. LET r == bdelete_page(buf, buf.curpage, call.left)
      IN /\ Shrinks(buf, r, blocation(buf), blocation(buf) + quan(buf, call.left))
         /\ blocation(r) = blocation(buf)
  BY <1>1, <1>2, BdeleteShrinks
<1>7. Shrinks(buf, buf', P, P + n) /\ blocation(buf') = P BY <1>1, <1>6
<1>8. P + n \in P .. L BY <1>4, <1>5
<1>9. Typed(was) /\ was.text = Text(buf) /\ was.point = P /\ was.mark = MarkPlace(buf)
  BY <1>2, ViewTyped
<1>10. Abstract!Cut(P, P + n) BY <1>2, <1>3, <1>4, <1>7, <1>8, ShrinksCuts
<1> HIDE DEF P, n
<1>11. CASE n = 0
  <2>1. P + n = P BY <1>4, <1>11
  <2>2. Text(buf') = Spliced(Text(buf), P, P, <<>>) BY <1>7, <2>1 DEF Shrinks
  <2>3. Text(buf') = Text(buf) BY <1>4, <1>9, <2>2, SplicedNot DEF Typed
  <2>4. was'.mark = [m \in Mark |-> Abstract!Closed(was.mark[m], P, P)]
    BY <1>10, <2>1 DEF Abstract!Cut
  <2>5. ASSUME NEW m \in Mark
        PROVE  Abstract!Closed(was.mark[m], P, P) = was.mark[m]
    <3> DEFINE x == was.mark[m]
    <3>1. x \in Nat \cup {NIL} BY <1>4, <1>9 DEF Typed
    <3>2. P \in Nat BY <1>4
    <3> HIDE DEF x
    <3>3. Abstract!Closed(x, P, P) = x BY <3>1, <3>2, ClosedNot
    <3> QED BY <3>3 DEF x
  <2>6. was.mark = [m \in Mark |-> was.mark[m]] BY <1>9 DEF Typed
  <2>7. MarkPlace(buf') = MarkPlace(buf) BY <1>3, <1>9, <2>4, <2>5, <2>6 DEF View
  <2>8. blocation(buf') = blocation(buf) BY <1>7 DEF P
  <2>9. was' = was BY <1>2, <1>3, <2>3, <2>7, <2>8 DEF View
  <2> QED BY <1>3, <2>9 DEF Matched
<1>12. CASE n # 0
  <2>1. n \in 1 .. Len(was.text) BY <1>4, <1>5, <1>9, <1>12
  <2>2. (IF was.point + n <= Len(was.text) THEN was.point + n ELSE Len(was.text)) = P + n
    BY <1>5, <1>9
  <2>3. Abstract!Delete(n) BY <1>9, <1>10, <2>2 DEF Abstract!Delete
  <2>4. Abstract!Next BY <2>1, <2>3, Zenon DEF Abstract!Next
  <2> QED BY <1>3, <2>4 DEF Matched
<1> QED BY <1>11, <1>12

\* An iteration of bmove moves the point alone; what it has moved by so far is not
\* seen before it returns.
LEMMA BmoveStepSeen ==
  ASSUME Sound(FALSE), Seen, Sound(FALSE)', Told, BmoveStep
  PROVE  Seen' /\ Matched
<1>1. call.op = "bmove" /\ buf \in Buffer /\ call \in Call /\ WellFormed(buf) /\ WellFormed(buf')
  BY DEF BmoveStep, Sound, WellFormed
<1>2. was.text = Text(buf) /\ was.mark = MarkPlace(buf) /\ Typed(was) BY <1>1 DEF Seen
<1>3. \/ \E d : buf' = makeoffset(buf, d)
      \/ \E p, d : buf' = makecur(buf, p, d)
  BY DEF BmoveStep, Turn
<1>4. OnlyPoint(buf, buf') BY <1>1, <1>3, MovedOnly
<1>5. call' = NoCall \/ \E left : call' = [call EXCEPT !.left = left]
  BY Zenon DEF BmoveStep, Turn, Return
<1>6. CASE call' = NoCall
  <2>1. Seen' /\ was' = View(buf') BY <1>6, Settled
  <2> QED BY <1>2, <1>4, <2>1, PointStep
<1>7. CASE call' # NoCall
  <2>1. PICK left : call' = [call EXCEPT !.left = left] BY <1>5, <1>7
  <2>2. call'.op = "bmove" BY <1>1, <2>1 DEF Call
  <2>3. was' = was /\ Matched BY <1>7, Begun
  <2>4. Text(buf') = Text(buf) /\ MarkPlace(buf') = MarkPlace(buf) BY <1>1, <1>4, PointMarked
  <2> QED BY <1>2, <1>7, <2>2, <2>3, <2>4 DEF Seen, Idle
<1> QED BY <1>6, <1>7

\* Every step is one of TextBuffer's, or nothing to the caller.
LEMMA NextSeen ==
  ASSUME Sound(FALSE), Seen, Told, Next
  PROVE  Sound(FALSE)' /\ Seen' /\ Matched
<1>1. Sound(FALSE)' BY NextSound
<1>2. CASE MarkCall
  <2>1. PICK m \in Mark : \/ Bdeltomrk(m)
                          \/ Bcremark(m) \/ Bdelmark(m) \/ Bmrktopnt(m) \/ Bpnttomrk(m)
                          \/ Bswappnt(m) \/ \E m2 \in Mark \ {m} : Mrktomrk(m, m2)
    BY <1>2 DEF MarkCall
  <2>2. CASE Bdeltomrk(m) BY <2>2, BdeltomrkSeen, <1>1
  <2> QED BY <1>1, <2>1, <2>2, MarkDoSeen
<1>3. CASE LoopStep
  BY <1>1, <1>3, BdeleteStepSeen, BdeltomrkStepSeen, BdeltomrkReturnSeen, BmoveStepSeen DEF LoopStep
<1> QED BY <1>1, <1>2, <1>3, EditCallSeen, MoveCallSeen DEF Next

\* What the pages hold is a text with a point and marks, and every call changes it
\* as TextBuffer says it does, in one step, however many pages the code touched and
\* however often its loops went round.
THEOREM PagesImplementText == ~ CrossPage => (HSpec => TextSpec)
<1> SUFFICES ASSUME ~ CrossPage PROVE HSpec => TextSpec
  OBVIOUS
<1> DEFINE Inv == Sound(FALSE) /\ Seen
<1>1. HInit => Inv /\ Abstract!Init
  <2> SUFFICES ASSUME HInit PROVE Inv /\ Abstract!Init
    OBVIOUS
  <2>1. PICK q \in Page : buf = bcreate(q) BY DEF HInit, Init
  <2>2. was = View(buf) /\ call = NoCall /\ Sound(FALSE) BY InitSound DEF HInit, Init
  <2>3. was = [text |-> <<>>, point |-> 0, mark |-> [m \in Mark |-> NIL]]
    BY <2>1, <2>2, BcreateEmpty
  <2>4. Typed(was) BY <2>2, ViewTyped DEF Sound
  <2>5. Seen BY <2>2, <2>4 DEF Seen, NoCall
  <2>6. Abstract!Init BY <2>3 DEF Abstract!Init
  <2> QED BY <2>2, <2>5, <2>6
<1>2. Inv /\ [HNext]_hvars => Inv' /\ [Abstract!Next]_(Abstract!textVars)
  <2> SUFFICES ASSUME Inv, [HNext]_hvars PROVE Inv' /\ [Abstract!Next]_(Abstract!textVars)
    OBVIOUS
  <2>1. CASE HNext
    <3>1. Next /\ Told BY <2>1 DEF HNext, Told
    <3>2. Sound(FALSE)' /\ Seen' /\ Matched BY <3>1, NextSeen
    <3>3. was' = was => UNCHANGED Abstract!textVars BY DEF Abstract!textVars
    <3> QED BY <3>2, <3>3 DEF Matched
  <2>2. CASE UNCHANGED hvars
    <3>1. buf' = buf /\ call' = call /\ was' = was BY <2>2 DEF hvars
    <3>2. Sound(FALSE)' BY <3>1 DEF Sound, CallInv, InPage, OnList
    <3>3. Seen' BY <3>1 DEF Seen, Idle
    <3> QED BY <3>1, <3>2, <3>3 DEF Abstract!textVars
  <2> QED BY <2>1, <2>2
<1> QED BY <1>1, <1>2, PTL DEF HSpec, TextSpec, Abstract!Spec
=============================================================================
