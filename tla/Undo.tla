-------------------------------- MODULE Undo --------------------------------
(***************************************************************************)
(* The undo list of a buffer (src/undo.c) over the paged buffer of module  *)
(* BuffOps.  binsert and bdelete record what they do; neighbouring changes *)
(* are clumped into one record, which is recognised by a mark that, other  *)
(* than the buffer's marks, is not kept in place when pages change.        *)
(*                                                                         *)
(* do_undo is one step per iteration of its loops.  The user's deletions   *)
(* stay on one page.                                                       *)
(***************************************************************************)
EXTENDS BuffOps, SequencesExt

CONSTANTS
  Tmark,      \* do_undo's mark, the only one on the buffer's list here
  MaxText,    \* bound: bytes in the buffer, and in a record before the next edit
  MaxDelete,  \* bound: bytes deleted by one bdelete
  MaxUndo,    \* bound: records
  Plain,      \* does the user only what undo.c copes with: everything is
              \* undone before the next edit, no insertion over pages is undone,
              \* and no two deletions in a row are at one offset (Twins)
  NoMemory    \* may bcremark fail

ASSUME TmarkAssumption == Mark = {Tmark}
ASSUME UndoBounds ==
  /\ {MaxText, MaxDelete, MaxUndo} \subseteq Nat
  /\ {Plain, NoMemory} \subseteq BOOLEAN

VARIABLES
  buf,
  undo_tail,  \* the records; the last one is the newest
  in_undo,
  call,       \* do_undo in progress
  rewinding   \* an undo was tried and records are left

vars == <<buf, undo_tail, in_undo, call, rewinding>>

\* A struct undo, and before: the text before the change it records.
Undo ==
  [insert  : BOOLEAN,
   offset  : Int,
   mpage   : Page \cup {NIL},
   moffset : Int,
   size    : Nat,
   data    : Seq(Byte),
   before  : Seq(Byte)]

\* op:   "move" and "delete" undo an insertion, "insert" a deletion.
\* page: bdelete's curpage.  left: bmove's dist, bdelete's quantity, do_undo's i.
Call ==
  [op   : {"none", "move", "delete", "insert", "freedmark", "freedpage", "pastend"},
   page : Page \cup {NIL},
   left : Int]

\* What has no defined result: the newest record's mark followed to a page that
\* was freed or to none; a freed page used by bdelete; a byte inserted past the
\* end of a page.
Undefined == {"freedmark", "freedpage", "pastend"}

NoCall == [op |-> "none", page |-> NIL, left |-> 0]
Wild(what) == [NoCall EXCEPT !.op = what]
Idle   == call = NoCall

\* The data of a record has the bytes that do_undo puts back.
TypeOK ==
  /\ \A i \in DOMAIN undo_tail :
       Len(undo_tail[i].data) = IF undo_tail[i].insert THEN 0 ELSE undo_tail[i].size
  /\ buf \in Buffer /\ undo_tail \in Seq(Undo) /\ call \in Call
  /\ in_undo \in BOOLEAN /\ rewinding \in BOOLEAN

Init ==
  /\ \E p \in Page : buf = bcreate(p)
  /\ undo_tail = <<>> /\ in_undo = FALSE /\ call = NoCall
  /\ rewinding = FALSE

-----------------------------------------------------------------------------
(* Recording.  The operators give the list after the call; NIL: the mark of *)
(* the newest record was followed to a page that was freed, or to none.     *)

new_undo(b, insert, size, before) ==
  [insert |-> insert, offset |-> blocation(b), mpage |-> b.curpage,
   moffset |-> b.curchar, size |-> size, before |-> before,
   data |-> IF insert THEN <<>>
            ELSE SubSeq(b.data[b.curpage], b.curchar + 1, b.curchar + size)]

bisatmrk(b, u) == u.mpage = b.curpage /\ u.moffset = b.curchar

AtPoint(b, u) == [u EXCEPT !.mpage = b.curpage, !.moffset = b.curchar]

\* The first of pages in the list.
First(b, pages) == CHOOSE p \in pages : \A r \in pages : ~ Precedes(b, r, p)

\* The record u with its mark moved on by size bytes; past the last page the
\* mark has no page.
add_clumped(b, u, size) ==
  LET to    == Before(b, u.mpage) + u.moffset + size
      after == {p \in b.alive : Precedes(b, u.mpage, p) /\ Before(b, p) + plen(b, p) >= to}
  IN CASE u.moffset + size <= plen(b, u.mpage) -> [u EXCEPT !.moffset = @ + size]
       [] u.moffset + size > plen(b, u.mpage) /\ after = {} ->
            [u EXCEPT !.mpage = NIL, !.moffset = 0]
       [] OTHER ->
            [u EXCEPT !.mpage = First(b, after), !.moffset = to - Before(b, First(b, after))]

\* Clumped with a bug: the offset stays.
Clumped_still(u, size) == [u EXCEPT !.size = @ + size]

Clumped(u, size) == [u EXCEPT !.size = @ + size, !.offset = @ + size]

\* b is the buffer after the insertion.
undo_add(b, list, size, before) ==
  IF list = <<>> \/ ~ Last(list).insert
  THEN Append(list, new_undo(b, TRUE, size, before))
  ELSE IF Last(list).mpage \notin b.alive THEN NIL
  ELSE LET u == add_clumped(b, Last(list), size)
       IN IF bisatmrk(b, u)
          THEN Append(Front(list), AtPoint(b, Clumped(u, size)))
          ELSE Append(Append(Front(list), u), new_undo(b, TRUE, size, before))

\* The record u with its mark moved back by size bytes; an offset below 0
\* stands for the large one of the unsigned member.
MovedBack(b, u, size) ==
  LET prev == b.prevp[u.mpage]
  IN CASE u.moffset >= size \/ u.moffset < 0 -> [u EXCEPT !.moffset = @ - size]
       [] u.moffset \in 0 .. size - 1 /\ prev # NIL ->
            [u EXCEPT !.mpage = prev, !.moffset = plen(b, prev) - size]
       [] OTHER -> u

\* undo_prepend with bugs: the byte goes to the end; the offset stays.
undo_prepend_end(u, byte) ==
  [u EXCEPT !.data = Append(@, byte), !.size = @ + 1, !.offset = @ - 1]

undo_append(u, byte)  == [u EXCEPT !.data = Append(@, byte), !.size = @ + 1]
undo_prepend(u, byte) ==
  [u EXCEPT !.data = <<byte>> \o @, !.size = @ + 1, !.offset = @ - 1]

\* b is the buffer before the deletion.  One byte is added to a clump, whatever
\* the size.
undo_del(b, list, size) ==
  LET byte  == b.data[b.curpage][b.curchar + 1]
      fresh == new_undo(b, FALSE, size, Text(b))
      u     == Last(list)
  IN IF list = <<>> \/ u.insert THEN Append(list, fresh)
     ELSE IF bisatmrk(b, u) THEN Append(Front(list), undo_append(u, byte))
     ELSE IF u.moffset \in 0 .. size - 1 /\ u.mpage \notin b.alive THEN NIL
     ELSE LET v == MovedBack(b, u, size)
          IN IF bisatmrk(b, v) THEN Append(Front(list), undo_prepend(v, byte))
             ELSE Append(Append(Front(list), v), fresh)

\* The list becomes new, unless the mark could not be followed.
Record(new) ==
  IF new = NIL THEN call' = Wild("freedmark") /\ UNCHANGED undo_tail
               ELSE undo_tail' = new /\ UNCHANGED call

-----------------------------------------------------------------------------
(* The user. *)

\* The two newest records are deletions at one offset that were not clumped.
Twins(list) ==
  LET n == Len(list)
  IN n > 1 /\ ~ list[n].insert /\ ~ list[n - 1].insert /\ list[n].offset = list[n - 1].offset

MayEdit ==
  /\ Idle /\ ~ (Plain /\ rewinding)
  /\ Len(undo_tail) < MaxUndo
  /\ \A i \in DOMAIN undo_tail : undo_tail[i].size <= MaxText

\* The page a byte needs: none, or one that calloc returns.
Room(b) == IF curplen(b) = PGSIZE THEN Page \ b.alive ELSE {NIL}

Binsert(ch) ==
  /\ MayEdit /\ blength(buf) < MaxText
  /\ \E q \in Room(buf) : buf' = binsert(buf, ch, q)
  /\ IF in_undo THEN UNCHANGED <<undo_tail, call>>
                ELSE Record(undo_add(buf', undo_tail, 1, Text(buf)))
  /\ UNCHANGED <<in_undo, rewinding>>

Bdelete(n) ==
  /\ MayEdit /\ n <= curplen(buf) - buf.curchar
  /\ buf' = bdelete_page(buf, buf.curpage, n)
  /\ IF in_undo THEN UNCHANGED <<undo_tail, call>>
                ELSE Record(undo_del(buf, undo_tail, n))
  /\ Plain => ~ Twins(undo_tail')
  /\ UNCHANGED <<in_undo, rewinding>>

\* The point goes anywhere; both representations of a place are reached.
MovePoint ==
  /\ Idle
  /\ \E p \in buf.alive : \E n \in 0 .. plen(buf, p) : buf' = makecur(buf, p, n)
  /\ UNCHANGED <<undo_tail, in_undo, call, rewinding>>

-----------------------------------------------------------------------------
(* Zundo and do_undo. *)

\* The first page whose bytes reach offset n.  An offset below 0 stands for the
\* large one of the unsigned member.
Reached(b, n) ==
  LET pages == {p \in b.alive : n \in 0 .. Before(b, p) + plen(b, p)}
  IN IF pages = {} THEN b.lastp ELSE First(b, pages)

\* boffset with a bug: what the pages before hold is not subtracted.
boffset_total(b, n) == makecur(b, Reached(b, n), n)

boffset(b, n) == makecur(b, Reached(b, n), n - Before(b, Reached(b, n)))

Newest == Last(undo_tail)

UndoStart ==
  /\ Idle /\ undo_tail # <<>>
  /\ in_undo' = TRUE
  /\ LET b    == boffset(buf, Newest.offset)
         past == b.curchar \notin 0 .. curplen(b)
     IN \/ /\ Newest.insert
           /\ Plain => b.curchar >= Newest.size
           /\ buf' = b
           /\ call' = [NoCall EXCEPT !.op = "move", !.left = - Newest.size]
           /\ UNCHANGED rewinding
        \/ /\ ~ Newest.insert /\ past
           /\ call' = Wild("pastend")
           /\ UNCHANGED <<buf, rewinding>>
        \/ /\ ~ Newest.insert /\ ~ past
           /\ buf' = bmrktopnt(b, Tmark)
           /\ call' = [NoCall EXCEPT !.op = "insert", !.left = 1]
           /\ UNCHANGED rewinding
        \/ /\ ~ Newest.insert /\ ~ past /\ NoMemory  \* no mark: do_undo returns 1
           /\ buf' = b /\ rewinding' = TRUE
           /\ UNCHANGED call
  /\ UNCHANGED undo_tail

\* do_undo returns with buffer b; Zundo clears bmodf once no record is left.
Finish(b) ==
  /\ buf' = IF undo_tail' = <<>> THEN [b EXCEPT !.bmodf = FALSE] ELSE b
  /\ in_undo' = FALSE
  /\ call' = NoCall
  /\ rewinding' = (undo_tail' # <<>>)

\* One iteration of bmove(buff, -size), then of bdelete(buff, size).
UndoMove ==
  /\ call.op = "move"
  /\ LET dist  == call.left + buf.curchar
         prev  == buf.prevp[buf.curpage]
         there == [call EXCEPT !.op = "delete", !.left = Newest.size]
     IN \/ /\ dist >= 0 \/ prev = NIL
           /\ buf' = makeoffset(buf, IF dist < 0 THEN 0 ELSE MIN(dist, curplen(buf)))
           /\ call' = [there EXCEPT !.page = buf.curpage]
        \/ /\ dist < 0 /\ prev # NIL
           /\ buf' = makecur(buf, prev, plen(buf, prev))
           /\ call' = [call EXCEPT !.left = dist]
  /\ UNCHANGED <<undo_tail, in_undo, rewinding>>

UndoDelete ==
  /\ call.op = "delete"
  /\ IF call.page \notin buf.alive
     THEN call' = Wild("freedpage") /\ UNCHANGED <<buf, undo_tail, in_undo, rewinding>>
     ELSE LET b    == bdelete_page(buf, call.page, call.left)
              left == bdelete_left(buf, call.page, call.left)
          IN IF left = 0
             THEN undo_tail' = Front(undo_tail) /\ Finish(b)
             ELSE /\ buf' = b /\ call' = [call EXCEPT !.left = left]
                  /\ UNCHANGED <<undo_tail, in_undo, rewinding>>

\* binsert of the next byte of the newest record.
UndoInsert ==
  /\ call.op = "insert" /\ call.left <= Newest.size
  /\ \/ \E q \in Room(buf) : buf' = binsert(buf, Newest.data[call.left], q)
     \/ Room(buf) = {} /\ UNCHANGED buf
  /\ call' = [call EXCEPT !.left = @ + 1]
  /\ UNCHANGED <<undo_tail, in_undo, rewinding>>

\* A record is done.  The next one is undone too if it deleted at the same
\* offset.
UndoPop ==
  /\ call.op = "insert" /\ call.left > Newest.size
  /\ undo_tail' = Front(undo_tail)
  /\ IF undo_tail' # <<>> /\ ~ Last(undo_tail').insert
          /\ Last(undo_tail').offset = Newest.offset
     THEN call' = [call EXCEPT !.left = 1] /\ UNCHANGED <<buf, in_undo, rewinding>>
     ELSE Finish(bdelmark(bpnttomrk(buf, Tmark), Tmark))

Next ==
  \/ \E ch \in Byte : Binsert(ch)
  \/ \E n \in 1 .. MaxDelete : Bdelete(n)
  \/ MovePoint
  \/ UndoStart \/ UndoMove \/ UndoDelete \/ UndoInsert \/ UndoPop

Spec == Init /\ [][Next]_vars

-----------------------------------------------------------------------------
(* Properties. *)

\* The text before the record u, made of text.
Undone(u, text) ==
  IF u.insert
  THEN SubSeq(text, 1, u.offset - u.size) \o SubSeq(text, u.offset + 1, Len(text))
  ELSE SubSeq(text, 1, u.offset) \o u.data \o SubSeq(text, u.offset + 1, Len(text))

\* The newest record says exactly how the text differs from what it was when
\* the record was begun, however many changes were clumped into it and
\* whichever pages were split under its mark.
RecordExact ==
  /\ TypeOK
  /\ Idle /\ undo_tail # <<>> =>
       /\ Newest.offset \in 0 .. Len(Text(buf))
       /\ Undone(Newest, Text(buf)) = Newest.before

\* Undoing an insertion gives the text back as it was before it.
UndoRemoves ==
  [][call.op = "delete" /\ call' = NoCall => Text(buf') = Newest.before]_vars

\* Undoing a deletion, or several at one place, does.
UndoBringsBack ==
  [][call.op = "insert" /\ call' = NoCall => Text(buf') = Newest.before]_vars

=============================================================================
