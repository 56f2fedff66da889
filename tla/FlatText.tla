------------------------------ MODULE FlatText ------------------------------
(***************************************************************************)
(* What the editing commands see of a buffer: a text, a point and marks,   *)
(* all of them places in the text (module BuffText shows that the pages    *)
(* implement this, bytes at a seam apart).  The search and motion          *)
(* functions of src/buff and src/cursor.c are written here as operators on *)
(* one such record,                                                        *)
(*   [text, point, mark, junk]                                             *)
(* where junk is what Buff() reads at the end of the buffer: the byte that *)
(* happens to lie behind the last one of the page.                         *)
(***************************************************************************)
EXTENDS Integers, Sequences, FiniteSets, SequencesExt, FiniteSetsExt

CONSTANTS
  NIL,      \* no such mark
  Tabsize,  \* columns between two tab stops
  Colmax,   \* columns of the screen
  COLMAX    \* columns of the widest screen there may be

ASSUME ScreenAssumption == Tabsize \in Nat \ {0} /\ Colmax \in 1 .. COLMAX

NL  == "\n"
TAB == "\t"

FORWARD  == TRUE
BACKWARD == FALSE

Digits  == {"0", "1", "2"}
Lower   == {"a", "b", "c", "f", "i"}
Upper   == {"A", "B"}
isspace(c) == c \in {" ", TAB, NL, "\r", "\f", "VT"}
isalpha(c) == c \in Lower \cup Upper
toupper(c) == CASE c = "a" -> "A" [] c = "b" -> "B" [] OTHER -> c
tolower(c) == CASE c = "A" -> "a" [] c = "B" -> "b" [] OTHER -> c

bisword(c)  == isalpha(c) \/ c \in Digits \cup {"_", ".", "-"}
bistoken(c) == bisword(c) \/ c = "/"
biswhite(c) == c \in {" ", TAB}
isNL(c)     == c = NL

Length(e)   == Len(e.text)
bisstart(e) == e.point = 0
bisend(e)   == e.point = Length(e)

\* The byte behind place p, and behind the point.
At(e, p) == IF p < Length(e) THEN e.text[p + 1] ELSE e.junk
Buff(e)  == At(e, e.point)
bpeek(e) == IF bisstart(e) THEN NL ELSE e.text[e.point]

-----------------------------------------------------------------------------
(* Moving. *)

Goto(e, p)  == [e EXCEPT !.point = p]
bmove(e, n) == Goto(e, Max({0, Min({Length(e), e.point + n})}))
bmove1(e)   == bmove(e, 1)
btostart(e) == Goto(e, 0)
btoend(e)   == Goto(e, Length(e))

\* The first place from the point on, and the last before it, whose byte is a
\* P; the end of the text, and -1, if there is none.
Ahead(e, P(_))  == Min({i \in e.point .. Length(e) - 1 : P(e.text[i + 1])} \cup {Length(e)})
Behind(e, P(_)) == Max({i \in 0 .. e.point - 1 : P(e.text[i + 1])} \cup {-1})

bcsearch(e, ch)  == bmove1(Goto(e, Ahead(e, LAMBDA c : c = ch)))
bcrsearch(e, ch) == Goto(e, Max({0, Behind(e, LAMBDA c : c = ch)}))
Found(e, ch)     == Ahead(e, LAMBDA c : c = ch) < Length(e)
FoundBack(e, ch) == Behind(e, LAMBDA c : c = ch) >= 0

toendline(e) == Goto(e, Ahead(e, isNL))
tobegline(e) == Goto(e, Behind(e, isNL) + 1)

\* Backward, the byte at the start of the buffer is never looked at.
bmoveto(e, P(_), forward) ==
  IF forward THEN Goto(e, Ahead(e, P))
  ELSE LET i == Behind(e, P) IN Goto(e, IF i > 0 THEN i + 1 ELSE 0)

\* Backward, from the start of the buffer, it moves forward over a byte that is
\* not a P.
bmovepast(e, P(_), forward) ==
  LET Not(c) == ~ P(c)
  IN CASE forward                   -> Goto(e, Ahead(e, Not))
       [] ~ forward /\ ~ bisstart(e) -> Goto(e, Behind(e, Not) + 1)
       [] OTHER                     -> IF P(Buff(e)) THEN e ELSE bmove1(e)

lookingat(e, word) == IsPrefix(word, SubSeq(e.text, e.point + 1, Length(e)))

\* The line of the point, counted from 1.
bline(e) == 1 + Cardinality({i \in 1 .. e.point : e.text[i] = NL})

-----------------------------------------------------------------------------
(* Columns. *)

tabsize(col) == Tabsize - (col % Tabsize)

\* The width of a character in column col.  With adjust a tab or a control
\* character that does not fit takes the rest of the line; the width of a tab
\* that starts behind the screen is below 0.
chwidth(ch, col, adjust) ==
  CASE ch = NL -> 0
    [] ch = TAB ->
         LET wid == IF col + tabsize(col) >= Colmax THEN Colmax - col + Tabsize - 1
                    ELSE tabsize(col)
         IN IF adjust THEN wid ELSE Min({wid, Tabsize})
    [] ch \in {"\r", "\f", "VT", "NUL"} ->
         IF adjust /\ col + 2 >= Colmax THEN 2 + (col + 2 - Colmax) + 1 ELSE 2
    [] OTHER -> 1

Width(line, adjust) == FoldLeft(LAMBDA col, ch : col + chwidth(ch, col, adjust), 0, line)

\* The column of the point.
bgetcol(e, adjust) == Width(SubSeq(e.text, tobegline(e).point + 1, e.point), adjust)

\* The first place of the point's line in column col or behind it.
Column(e, col, adjust) ==
  LET beg == tobegline(e).point
      eol == toendline(e).point
  IN Min({p \in beg .. eol : Width(SubSeq(e.text, beg + 1, p), adjust) >= col} \cup {eol})

bmakecol(e, col) == Goto(e, Column(e, col, TRUE))

-----------------------------------------------------------------------------
(* Marks and changing the text. *)

\* "umark" is the user's mark, "t1" and "t2" are a command's own.
MarkName == {"umark", "t1", "t2"}

bmrktopnt(e, m) == [e EXCEPT !.mark[m] = e.point]
bdelmark(e, m)  == [e EXCEPT !.mark[m] = NIL]
bpnttomrk(e, m) == Goto(e, e.mark[m])
bswappnt(e, m)  == [e EXCEPT !.point = e.mark[m], !.mark[m] = e.point]
bisaftermrk(e, m)  == e.point > e.mark[m]
bisbeforemrk(e, m) == e.point < e.mark[m]
bisatmrk(e, m)     == e.point = e.mark[m]

\* Insert s at the point, which goes behind it; a mark at the point stays.
Ins(e, s) ==
  [e EXCEPT !.text  = SubSeq(@, 1, e.point) \o s \o SubSeq(@, e.point + 1, Len(@)),
            !.point = @ + Len(s),
            !.mark  = [m \in MarkName |-> IF @[m] # NIL /\ @[m] > e.point
                                         THEN @[m] + Len(s) ELSE @[m]]]

binsert(e, ch) == Ins(e, <<ch>>)

\* Delete n bytes behind the point, or all there are.
bdelete(e, n) ==
  LET to == Min({e.point + n, Length(e)})
  IN [e EXCEPT !.text = SubSeq(@, 1, e.point) \o SubSeq(@, to + 1, Len(@)),
               !.mark = [m \in MarkName |->
                           IF @[m] = NIL \/ @[m] <= e.point THEN @[m]
                           ELSE Max({e.point, @[m] - (to - e.point)})]]

\* The bytes between the point and mark m, in either order.
Region(e, m) ==
  SubSeq(e.text, Min({e.point, e.mark[m]}) + 1, Max({e.point, e.mark[m]}))

bdeltomrk(e, m) ==
  LET f == IF bisaftermrk(e, m) THEN bswappnt(e, m) ELSE e
  IN bdelete(f, f.mark[m] - f.point)

bempty(e) ==
  [e EXCEPT !.text = <<>>, !.point = 0,
            !.mark = [m \in MarkName |-> IF @[m] = NIL THEN NIL ELSE 0]]
=============================================================================
