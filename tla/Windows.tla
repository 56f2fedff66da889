------------------------------ MODULE Windows ------------------------------
(***************************************************************************)
(* The buffers and windows of the editor (src/bcmds.c, src/window.c), and  *)
(* the bookmarks (src/tags.c), which outlive both: the lists Bufflist and  *)
(* Bnames, the current buffer Curbuff, the windows from top to bottom with *)
(* their saved point, mark and start, and what refers to what.  A buffer   *)
(* is its name; the text is left out, so a point is one of a few places    *)
(* and a mark a buffer and a place in it.  Each action is a command of the *)
(* user and ends with what zrefresh does to Sstart before the next one.    *)
(***************************************************************************)
EXTENDS Integers, Sequences, FiniteSets, SequencesExt, FiniteSetsExt

CONSTANTS
  Buffer,     \* names a buffer may have
  MAINBUFF,   \* the buffer there is at the start
  LISTBUFF,   \* the buffer of list-buffers
  PAW,        \* the name of the prompt line's buffer
  Rank,       \* how Bnames sorts the names: a number for each
  NIL,        \* no such name or mark
  Place,      \* places in a text
  MINWDO,     \* minimum window size
  BOOKMARKS,  \* size of the ring of bookmarks, less 1 a mask in the code
  Rows,       \* heights the terminal may have
  Args,       \* the files the program may be started with
  GrowBy,     \* bound: arguments of grow-window and size-window
  MaxWindows, \* bound: windows at a time
  MaxSteps    \* bound: commands

ASSUME WindowsAssumption ==
  /\ MAINBUFF \in Buffer /\ LISTBUFF \in Buffer /\ PAW \notin Buffer
  /\ NIL \notin Buffer /\ NIL \notin Place /\ NIL \notin [buff : Buffer, at : Place]
  /\ Rank \in [Buffer \cup {PAW} -> Int]
  /\ Place \subseteq Int /\ \E p \in Place : \A q \in Place : p <= q
  /\ BOOKMARKS \in Nat \ {0} /\ MaxWindows \in Nat /\ MaxSteps \in Nat

\* Halves of a window that may be split have a line each, and so has the terminal.
ASSUME SizeAssumption ==
  /\ MINWDO \in Nat /\ MINWDO > 2 /\ GrowBy \subseteq Int
  /\ Rows \subseteq Int /\ \A r \in Rows : r > 2

\* Each file the program is started with has a buffer of its own.
ASSUME ArgsAssumption ==
  /\ Args \subseteq Seq(Buffer \ {MAINBUFF})
  /\ \A a \in Args : \A i, j \in DOMAIN a : a[i] = a[j] => i = j

VARIABLES
  bufs,    \* Bufflist
  names,   \* Bnames
  last,    \* Lbufname
  cur,     \* Curbuff
  pnt,     \* the point of each buffer
  umark,   \* its user mark
  wins,    \* the windows from Whead on
  curw,    \* the number of Curwdo
  rowmax,  \* Rowmax
  books,   \* Bookmrks up to Lastbook
  book,    \* Bookmark, counted from 1
  strayed, \* history: delete-buffer was aborted
  down,    \* the program has crashed
  steps    \* commands so far

vars == <<bufs, names, last, cur, pnt, umark, wins, curw, rowmax, books, book,
          strayed, down, steps>>

\* What the functions change, as one record; Commit makes it the next state.
\* sstart is the buffer of Sstart: zrefresh reframes before each command if the
\* point is not between Sstart and Send.
S == [bufs |-> bufs, names |-> names, last |-> last, cur |-> cur, pnt |-> pnt,
      umark |-> umark, wins |-> wins, curw |-> curw, sstart |-> cur]

\* A bookmark whose buffer is gone.
FREED == [list |-> NIL, buff |-> NIL, at |-> Min(Place)]

Has(s, b)  == b \in Range(s.bufs)
Mark(b, p) == [buff |-> b, at |-> p]
Here(s)    == Mark(s.cur, s.pnt[s.cur])
Curwdo(s)  == s.wins[s.curw]
height(w)  == w.last - w.first

Commit(s) ==
  /\ ~ down /\ steps < MaxSteps /\ steps' = steps + 1
  /\ bufs' = s.bufs /\ names' = s.names /\ last' = s.last /\ cur' = s.cur
  /\ pnt' = s.pnt /\ umark' = s.umark /\ wins' = s.wins /\ curw' = s.curw

-----------------------------------------------------------------------------
(* Buffers. *)

addbname(ns, b) ==
  LET i == Cardinality({j \in DOMAIN ns : Rank[ns[j]] <= Rank[b]})
  IN SubSeq(ns, 1, i) \o <<b>> \o SubSeq(ns, i + 1, Len(ns))

\* Where b is in a list.
PlaceIn(list, b) == CHOOSE i \in DOMAIN list : list[i] = b

delbname(ns, b) == RemoveAt(ns, PlaceIn(ns, b))

zcreatebuff(s, b) ==
  IF Has(s, b) THEN s
  ELSE [s EXCEPT !.bufs = Append(@, b), !.names = addbname(@, b),
                 !.pnt[b] = Min(Place), !.umark[b] = NIL]

zswitchto(s, b) == [s EXCEPT !.cur = b]
cmakebuff(s, b) == zswitchto(zcreatebuff(s, b), b)
clear_umark(s)  == [s EXCEPT !.umark[s.cur] = NIL]
set_last_bufname(s, b) == [s EXCEPT !.last = b]

\* The buffer that becomes current when the current one goes: the next, the
\* previous if there is none, itself if it is the only one.
Neighbour(s, b) ==
  LET i == PlaceIn(s.bufs, b)
  IN CASE i < Len(s.bufs) -> s.bufs[i + 1]
       [] i = Len(s.bufs) /\ i > 1 -> s.bufs[i - 1]
       [] OTHER -> b

cdelbuff(s, b) ==
  LET t == IF b = s.cur THEN zswitchto(clear_umark(s), Neighbour(s, b)) ELSE s
  IN IF t.cur = b THEN t
     ELSE [t EXCEPT !.names = delbname(@, b), !.bufs = RemoveAt(@, PlaceIn(@, b))]

-----------------------------------------------------------------------------
(* Windows. *)

\* A window takes over the point and the mark of the current buffer.
TakePoint(s, w) ==
  [w EXCEPT !.pnt = Here(s), !.left = s.pnt[s.cur],
            !.mrk = IF s.umark[s.cur] # NIL THEN Mark(s.cur, s.umark[s.cur]) ELSE NIL]

\* left is history: where the point was when the window was left.
wcreate(s, first, lst) ==
  TakePoint(s, [buff |-> s.cur, pnt |-> Here(s), mrk |-> NIL,
                start |-> s.cur, first |-> first, last |-> lst, left |-> s.pnt[s.cur]])

\* Leave the current window.
Save(s) ==
  [s EXCEPT !.wins[s.curw] =
     LET w == TakePoint(s, @)
     IN [w EXCEPT !.start = IF s.sstart = w.buff THEN s.sstart ELSE @]]

\* wswitchto with a bug: the window left does not keep the point.
wswitchto_anew(s, i) ==
  LET w == s.wins[i]
  IN IF i = s.curw THEN s ELSE [s EXCEPT !.curw = i, !.cur = w.buff, !.sstart = w.start]

\* A mark is only moved to if it is in the buffer.
wswitchto(s, i) ==
  LET t == Save(s)
      w == t.wins[i]
  IN IF i = s.curw THEN s
     ELSE [t EXCEPT !.curw = i, !.cur = w.buff, !.sstart = w.start,
                    !.pnt[w.buff] = IF w.pnt.buff = w.buff THEN w.pnt.at ELSE @,
                    !.umark[w.buff] = IF w.mrk = NIL THEN @ ELSE w.mrk.at]

\* Switch to a buffer in the current window.
cswitchto(s, b) ==
  LET t == zswitchto(s, b)
  IN IF Curwdo(t).buff = b THEN t
     ELSE [t EXCEPT !.wins[t.curw] =
             [TakePoint(t, @) EXCEPT !.buff = b, !.start = b]]

\* delbuff with a bug: only the current window is taken off the buffer.
delbuff_current(s, b) ==
  LET t == cdelbuff([s EXCEPT !.last = IF @ = b THEN NIL ELSE @], b)
  IN IF Has(t, b) THEN t ELSE cswitchto(t, t.cur)

\* Every window on the buffer shows the one that is current then.
delbuff(s, b) ==
  LET t == cdelbuff([s EXCEPT !.last = IF @ = b THEN NIL ELSE @], b)
      u == cswitchto(t, t.cur)
  IN IF Has(t, b) THEN t
     ELSE [u EXCEPT !.wins = [i \in DOMAIN @ |->
             IF @[i].buff = b
             THEN [TakePoint(u, @[i]) EXCEPT !.buff = u.cur, !.start = u.cur]
             ELSE @[i]]]

\* wsplit with a bug: the lower window begins a line too low.
wsplit_gap(s) ==
  LET w     == Curwdo(s)
      first == w.first + (height(w) \div 2) + 1
      t     == [s EXCEPT !.wins = InsertAt([@ EXCEPT ![s.curw].last = first - 1], s.curw + 1,
                                           wcreate(s, first + 1, w.last))]
  IN IF height(w) < MINWDO THEN s ELSE wswitchto(t, s.curw + 1)

\* Split the current window and go to the lower half.
wsplit(s) ==
  LET w     == Curwdo(s)
      first == w.first + (height(w) \div 2) + 1
      t     == [s EXCEPT !.wins = InsertAt([@ EXCEPT ![s.curw].last = first - 1], s.curw + 1,
                                           wcreate(s, first, w.last)),
                         !.sstart = s.cur]
  IN IF height(w) < MINWDO THEN s ELSE wswitchto(t, s.curw + 1)

\* Every mark in the text goes to its start.
bempty(s, b) ==
  [s EXCEPT !.pnt[b] = Min(Place),
            !.umark[b] = IF @ = NIL THEN NIL ELSE Min(Place),
            !.wins = [i \in DOMAIN s.wins |->
               [s.wins[i] EXCEPT
                  !.pnt  = IF @.buff = b THEN Mark(b, Min(Place)) ELSE @,
                  !.mrk  = IF @ # NIL /\ @.buff = b THEN Mark(b, Min(Place)) ELSE @,
                  !.left = IF s.wins[i].buff = b THEN Min(Place) ELSE @]]]

\* Show buffer b in its window, the last of several, a new one or this one.
wuseother(s, b) ==
  LET Shows == {i \in DOMAIN s.wins : s.wins[i].buff = b}
      t == CASE Shows # {}                          -> wswitchto(s, Min(Shows))
             [] Shows = {} /\ Len(s.wins) > 1       -> wswitchto(s, Len(s.wins))
             [] OTHER                               -> wsplit(s)
      u == cswitchto(cmakebuff(t, b), b)
  IN bempty(u, b)

one_window(s, rows) ==
  [s EXCEPT !.wins = <<[Curwdo(s) EXCEPT !.first = 0, !.last = rows - 2]>>, !.curw = 1]

\* The border between window k and the next goes n lines down.
MoveEdge(s, k, n) ==
  [s EXCEPT !.wins = [i \in DOMAIN s.wins |->
     [s.wins[i] EXCEPT !.last  = IF i = k THEN @ + n ELSE @,
                       !.first = IF i = k + 1 THEN @ + n ELSE @]]]

\* Make the current window size lines larger at the cost of the next one, or
\* of the previous.
sizewindow(s, size) ==
  LET Spare(i) == i \in DOMAIN s.wins /\ height(s.wins[i]) - size > MINWDO
  IN CASE height(Curwdo(s)) + size < MINWDO -> s
       [] height(Curwdo(s)) + size >= MINWDO /\ Spare(s.curw + 1) -> MoveEdge(s, s.curw, size)
       [] height(Curwdo(s)) + size >= MINWDO /\ ~ Spare(s.curw + 1) /\ Spare(s.curw - 1) ->
            MoveEdge(s, s.curw - 1, - size)
       [] OTHER -> s

\* The lines that the first k windows take in one pass of do_wsize, with d left
\* to do: grow adds a line to each, else one is taken from each that is high
\* enough, by a height that counts the lines the ones above gave.
Taken(ws, d, grow) ==
  LET taken[k \in 0 .. Len(ws)] ==
        IF k = 0 THEN 0
        ELSE LET i == taken[k - 1]
             IN IF i < d /\ (grow \/ ws[k].last - (ws[k].first - i) - 1 > 3) THEN i + 1 ELSE i
  IN taken

Pass(ws, d, grow) ==
  LET taken   == Taken(ws, d, grow)
      By(k)   == IF grow THEN taken[k] ELSE - taken[k]
  IN [ws |-> [k \in DOMAIN ws |-> [ws[k] EXCEPT !.first = @ + By(k - 1), !.last = @ + By(k)]],
      d  |-> d - taken[Len(ws)]]

\* After n passes; as many as there are lines give or take all.
Passes(ws, size, grow) ==
  LET after[n \in 0 .. size] ==
        IF n = 0 THEN [ws |-> ws, d |-> size]
        ELSE LET p == after[n - 1] IN Pass(p.ws, p.d, grow)
  IN after[size]

\* Too few taken leave one window.
do_wsize(s, d) ==
  LET all == Passes(s.wins, IF d < 0 THEN - d ELSE d, d > 0)
  IN IF all.d = 0 THEN [s EXCEPT !.wins = all.ws] ELSE one_window(s, rowmax + d)

-----------------------------------------------------------------------------
(* Commands. *)

Cmd(s) == Commit(s) /\ UNCHANGED <<rowmax, books, book, strayed, down>>

Zsplit_window == Len(wins) < MaxWindows /\ Cmd(wsplit(S))

Zone_window == Cmd(one_window(S, rowmax))

Znext_window == Cmd(wswitchto(S, IF curw < Len(wins) THEN curw + 1 ELSE 1))

Zgrow_window == \E n \in GrowBy : Cmd(sizewindow(S, n))

Zsize_window == \E n \in GrowBy : Cmd(sizewindow(S, n - height(Curwdo(S)) + 1))

\* other_page: the page moves the point of the other window.
Zother_next_page ==
  LET i == IF curw = Len(wins) THEN 1 ELSE Len(wins)
      t == wswitchto(S, i)
  IN \E p \in Place : Cmd(wswitchto([t EXCEPT !.pnt[t.cur] = p], curw))

\* Any command that moves the point, that sets the mark, and that clears it.
Move       == \E p \in Place \ {pnt[cur]} : Cmd([S EXCEPT !.pnt[cur] = p])
Zset_mark  == Cmd([S EXCEPT !.umark[cur] = pnt[cur]])
Clear_mark == Cmd(clear_umark(S))

\* The names offered include the prompt line's, which no buffer has: cfindbuff
\* finds none, and cswitchto crashes if Curbuff is not what Curwdo shows.
Zswitch_to_buffer ==
  \E b \in Range(names) :
    LET t == set_last_bufname(S, cur)
    IN IF Has(S, b) THEN Cmd(cswitchto(t, b))
       ELSE /\ Commit(t)
            /\ down' = (Curwdo(S).buff # cur)
            /\ UNCHANGED <<rowmax, books, book, strayed>>

Znext_buffer ==
  LET i == PlaceIn(bufs, cur)
  IN Cmd(cswitchto(set_last_bufname(S, cur), bufs[(i % Len(bufs)) + 1]))

\* bdelbuff frees the bookmarks on the list of the buffer, and never gets past
\* one that is in another buffer.
bdelbuff(b) ==
  LET On == {i \in DOMAIN books : books[i].list = b}
  IN /\ down' = (\E i \in On : books[i].buff # b)
     /\ books' = [i \in DOMAIN books |-> IF i \in On THEN FREED ELSE books[i]]
     /\ UNCHANGED <<rowmax, book, strayed>>

\* With an argument the buffer is asked for and switched to, and then the user
\* may abort the question whether to save it.
Zdelete_buffer ==
  \E b \in {cur} \cup Range(bufs), answer \in {"abort", "go"} :
    LET t == zswitchto(S, b)
        u == delbuff(t, b)
    IN IF answer = "abort"
       THEN Commit(t) /\ strayed' = TRUE /\ UNCHANGED <<rowmax, books, book, down>>
       ELSE IF Has(u, b) THEN Cmd(u)
       ELSE Commit(u) /\ bdelbuff(b)

\* It may take a new buffer and, with one window, a new window.
Zlist_buffers ==
  LET t == wuseother(S, LISTBUFF)
  IN /\ Len(t.wins) <= MaxWindows
     /\ Cmd(wswitchto(t, curw))

\* A buffer that has the file, or a new one with a free name; reading it fails
\* or not.
findfile ==
  \/ \E b \in Range(bufs) \ {LISTBUFF} :
       Cmd(cswitchto(set_last_bufname(zswitchto(S, b), cur), b))
  \/ \E b \in Buffer \ (Range(bufs) \cup {LISTBUFF}) :
       \/ Cmd(cswitchto(set_last_bufname(cmakebuff(S, b), cur), b))
       \/ Cmd(zswitchto(cdelbuff(cmakebuff(S, b), b), cur))

wsize ==
  \E r \in Rows \ {rowmax} :
    /\ Commit(IF Len(wins) > 1 THEN do_wsize(S, r - rowmax)
              ELSE [S EXCEPT !.wins[1].last = r - 2])
    /\ rowmax' = r
    /\ UNCHANGED <<books, book, strayed, down>>

\* A bookmark is made once and then moved, without changing the list it is on.
Zset_bookmark ==
  LET n == (book % BOOKMARKS) + 1
      m == [list |-> cur, buff |-> cur, at |-> pnt[cur]]
  IN /\ Commit(S)
     /\ book' = n
     /\ books' = IF n > Len(books) THEN Append(books, m)
                 ELSE [books EXCEPT ![n] = [m EXCEPT !.list = books[n].list]]
     /\ UNCHANGED <<rowmax, strayed, down>>

\* wgoto: the window of the buffer, or the current one.
wgoto(s, b) ==
  LET Shows == {i \in DOMAIN s.wins : s.wins[i].buff = b}
  IN CASE Shows # {}                -> wswitchto(s, Min(Shows))
       [] Shows = {} /\ Has(s, b)   -> cswitchto(s, b)
       [] OTHER                     -> s

\* A bookmark that was freed may read as any other mark.
Znext_bookmark ==
  /\ book > 0
  /\ \E m \in {books[book]} \cup
           (IF books[book] = FREED THEN [list : {NIL}, buff : Buffer, at : Place] ELSE {}) :
    LET t == IF m.buff = cur THEN S ELSE wgoto(set_last_bufname(S, cur), m.buff)
    IN /\ Commit(IF t.cur = m.buff THEN [t EXCEPT !.pnt[t.cur] = m.at] ELSE t)
       /\ book' = IF book = 1 THEN Len(books) ELSE book - 1
       /\ UNCHANGED <<rowmax, books, strayed, down>>

Next ==
  \/ Zsplit_window \/ Zone_window \/ Znext_window \/ Zgrow_window \/ Zsize_window
  \/ Zother_next_page \/ Move \/ Zset_mark \/ Clear_mark \/ Zswitch_to_buffer \/ Znext_buffer \/ Zdelete_buffer
  \/ Zlist_buffers \/ findfile \/ wsize \/ Zset_bookmark \/ Znext_bookmark

\* The names when the first buffers of a list have been added one by one.
Names(list) ==
  LET added[n \in 0 .. Len(list)] ==
        IF n = 0 THEN <<PAW>> ELSE addbname(added[n - 1], list[n])
  IN added[Len(list)]

\* main: the buffer of the prompt line is taken off the list, the files are
\* read, the first is current, and winit makes a window over all lines.
Init ==
  /\ rowmax \in Rows
  /\ bufs \in {<<MAINBUFF>> \o a : a \in Args}
  /\ names = Names(bufs)
  /\ cur = IF Len(bufs) > 1 THEN bufs[2] ELSE MAINBUFF
  /\ last = IF Len(bufs) > 1 THEN MAINBUFF ELSE NIL
  /\ pnt = [b \in Buffer |-> Min(Place)]
  /\ umark = [b \in Buffer |-> NIL]
  /\ wins = <<[buff |-> cur, pnt |-> Mark(cur, Min(Place)), mrk |-> NIL,
               start |-> cur, first |-> 0, last |-> rowmax - 2,
               left |-> Min(Place)]>>
  /\ curw = 1
  /\ books = <<>> /\ book = 0
  /\ strayed = FALSE /\ down = FALSE /\ steps = 0

Spec == Init /\ [][Next]_vars

-----------------------------------------------------------------------------
(* What should hold. *)

MarkName == [buff : Buffer, at : Place]

TypeOK ==
  /\ bufs \in Seq(Buffer) /\ names \in Seq(Buffer \cup {PAW}) /\ last \in Buffer \cup {NIL}
  /\ cur \in Buffer
  /\ pnt \in [Buffer -> Place] /\ umark \in [Buffer -> Place \cup {NIL}]
  /\ wins \in Seq([buff : Buffer, pnt : MarkName, mrk : MarkName \cup {NIL},
                    start : Buffer, first : Int, last : Int, left : Place])
  /\ curw \in DOMAIN wins /\ rowmax \in Rows
  /\ books \in Seq([list : Buffer \cup {NIL}, buff : Buffer \cup {NIL}, at : Place])
  /\ book \in 0 .. Len(books) /\ strayed \in BOOLEAN /\ down \in BOOLEAN /\ steps \in 0 .. MaxSteps

\* A deleted buffer is nowhere: no window shows it or keeps a point, a mark or
\* a first line in it (cdelbuff, delbuff, cswitchto, wswitchto).
NoDangling ==
  LET Live == Range(bufs)
  IN /\ TypeOK /\ cur \in Live
     /\ \A i \in DOMAIN wins :
          LET w == wins[i]
          IN /\ w.buff \in Live /\ w.start \in Live
             /\ strayed \/ (w.pnt.buff = w.buff /\ (w.mrk = NIL \/ w.mrk.buff = w.buff))

\* The windows cover the lines above the last one without gap or overlap and
\* each has a line of text, whatever was split, sized, deleted or resized
\* (wsplit, sizewindow, do_wsize).
WindowsTile ==
  /\ wins[1].first = 0 /\ wins[Len(wins)].last = rowmax - 2
  /\ \A i \in DOMAIN wins : wins[i].last > wins[i].first
  /\ \A i \in 1 .. Len(wins) - 1 : wins[i + 1].first = wins[i].last + 1

\* The current window shows the current buffer, unless the user has aborted
\* delete-buffer (zswitchto, cswitchto, wswitchto, delbuff, wgoto, findfile).
CurShown == strayed \/ Curwdo(S).buff = cur

\* Bnames is the sorted list of the buffers there are, and of the prompt line.
NamesExact ==
  /\ Range(names) = Range(bufs) \cup {PAW} /\ Len(names) = Len(bufs) + 1
  /\ \A i \in 1 .. Len(names) - 1 : Rank[names[i]] <= Rank[names[i + 1]]

\* The lists and the globals that refer to buffers agree at every command's end:
\* bcmds.c and window.c change each of them by hand, in their own order.
ListsAgree == NoDangling /\ CurShown /\ NamesExact

\* Who goes back to a window finds the point where it was when the window was
\* left, though the buffer may have been used in other windows since.
ReturnsToPlace ==
  [][(Znext_window /\ curw' # curw /\ ~ strayed) => pnt'[cur'] = wins'[curw'].left]_vars

\* "If dynamic marks are enabled then the buffer code will keep the mark in
\* place": for that a mark has to be on the list of the buffer it is in.
BookmarksOnList == \A i \in DOMAIN books : books[i].list \in {books[i].buff, NIL}
=============================================================================
