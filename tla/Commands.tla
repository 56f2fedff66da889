------------------------------ MODULE Commands ------------------------------
(***************************************************************************)
(* The editing commands of src/commands.c, src/cursor.c and src/delete.c   *)
(* on one buffer and the kill buffer, as operators on the record of        *)
(* FlatText with three more fields:                                        *)
(*   kill   the text of Killbuff                                           *)
(*   fcol   forcecol's static column, which line motion aims at            *)
(*   stuck  the command loops for ever                                     *)
(* Command Zx of the source is operator Zx.  Arg, Lfunc and the key Cmd    *)
(* are parameters where a command uses them; what is only printed is not   *)
(* here.                                                                   *)
(***************************************************************************)
EXTENDS FlatText

CONSTANTS
  FillWidth,  \* VAR(VFILLWIDTH)
  SpaceTab,   \* VAR(VSPACETAB): tabs are made of spaces
  Access      \* the words public, private and protected

\* The commands after which a deletion appends to the kill buffer.
DeleteCmd ==
  {"delete-to-eol", "delete-line", "delete-region", "delete-word",
   "delete-previous-word", "copy-region", "copy-word", "append-kill"}

LineCmd == {"previous-line", "next-line", "previous-page", "next-page"}

Times(F(_), e, n) == FoldLeft(LAMBDA f, i : F(f), e, [i \in 1 .. n |-> i])

Done(e) == bdelmark(bdelmark(e, "t1"), "t2")

-----------------------------------------------------------------------------
(* cursor.c *)

Zbeginning_of_line(e) == tobegline(bmove(e, -1))
Zend_of_line(e)       == toendline(bmove1(e))
Zprevious_char(e, n)  == bmove(e, -n)
Znext_char(e, n)      == bmove(e, n)

\* Line motion goes on to aim at the column the first of a row of them had; a
\* column behind every line stands for the end of the line.
forcecol(e, lfunc) ==
  CASE lfunc \in LineCmd -> e.fcol
    [] lfunc \notin LineCmd /\ Buff(e) = NL -> COLMAX + 1
    [] OTHER -> bgetcol(e, TRUE)

LineMove(e, lfunc, F(_), n) ==
  LET col == forcecol(e, lfunc)
  IN [bmakecol(Times(F, e, n), col) EXCEPT !.fcol = col]

Zprevious_line(e, lfunc, n) == LineMove(e, lfunc, LAMBDA f : bcrsearch(f, NL), n)

\* Znext_line with a bug: the column is taken anew for each command.
Znext_line_anew(e, lfunc, n) ==
  LineMove(e, "insert", LAMBDA f : bcsearch(f, NL), n)

Znext_line(e, lfunc, n)     == LineMove(e, lfunc, LAMBDA f : bcsearch(f, NL), n)

Zprevious_word(e) == bmovepast(bmoveto(e, bistoken, BACKWARD), bistoken, BACKWARD)
Znext_word(e)     == bmoveto(bmovepast(e, bistoken, FORWARD), bistoken, FORWARD)

Zset_mark(e)  == bmrktopnt(e, "umark")
Zswap_mark(e) == IF e.mark["umark"] = NIL THEN e ELSE bswappnt(e, "umark")
Zopen_line(e) == bmove(binsert(e, NL), -1)

Zgoto_line(e, line) == Times(LAMBDA f : bcsearch(f, NL), btostart(e), line - 1)

tindent(e, n) ==
  LET tabs == IF SpaceTab \/ n < 0 THEN 0 ELSE n \div Tabsize
  IN Ins(e, [i \in 1 .. tabs |-> TAB] \o [i \in 1 .. n - tabs * Tabsize |-> " "])

\* Go to column n, from 1, and pad a line that is too short.
Zout_to(e, n) ==
  LET col  == n - 1
      f    == Goto(e, Column(e, col, FALSE))
      tcol == bgetcol(f, FALSE)
      wid  == chwidth(TAB, tcol, TRUE)
  IN IF tcol >= col THEN f
     ELSE tindent(f, col - (IF tcol + wid < col THEN tcol - (Tabsize - wid) ELSE tcol))

-----------------------------------------------------------------------------
(* delete.c *)

\* Copy the bytes between the point and mark m to the kill buffer.
copytomrk(e, m, lfunc) ==
  [e EXCEPT !.kill = (IF lfunc \in DeleteCmd THEN @ ELSE <<>>) \o Region(e, m)]

\* killtomrk with a bug: the region is deleted before it is copied.
killtomrk_late(e, m, lfunc) == copytomrk(bdeltomrk(e, m), m, lfunc)

killtomrk(e, m, lfunc) == bdeltomrk(copytomrk(e, m, lfunc), m)

\* Kill from where e's point is to where F moves it.
KillOver(e, F(_), lfunc) == Done(killtomrk(F(bmrktopnt(e, "t1")), "t1", lfunc))

Zdelete_char(e, n) == bdelete(e, n)
Zdelete_previous_char(e, n) == bdelete(bmove(e, -n), n)

Zdelete_to_eol(e, lfunc) ==
  IF ~ bisend(e) /\ Buff(e) = NL THEN bdelete(e, 1)
  ELSE LET atstart == bpeek(e) = NL
       IN KillOver(e, LAMBDA f : IF atstart THEN bmove1(toendline(f)) ELSE toendline(f), lfunc)

Zdelete_line(e, lfunc) == KillOver(tobegline(e), LAMBDA f : bcsearch(f, NL), lfunc)

Zdelete_region(e, lfunc) ==
  IF e.mark["umark"] = NIL THEN e ELSE bdelmark(killtomrk(e, "umark", lfunc), "umark")

Zcopy_region(e, lfunc) ==
  IF e.mark["umark"] = NIL THEN e ELSE bdelmark(copytomrk(e, "umark", lfunc), "umark")

Zyank(e) == Ins(e, e.kill)

Zdelete_word(e, lfunc) ==
  KillOver(e, LAMBDA f : bmovepast(bmoveto(f, bisword, FORWARD), bisword, FORWARD), lfunc)

Zdelete_previous_word(e, lfunc) == KillOver(e, Zprevious_word, lfunc)

Zcopy_word(e, lfunc) ==
  LET beg == bmovepast(bmoveto(e, bistoken, FORWARD), bistoken, BACKWARD)
      end == bmovepast(bmrktopnt(beg, "t1"), bistoken, FORWARD)
  IN Done(Goto(copytomrk(end, "t1", lfunc), e.point))

\* Delete the white space on both sides of the point.
Ztrim_white_space(e) ==
  LET Dark(c) == ~ biswhite(c)
      beg == Behind(e, Dark) + 1
  IN bdelete(Goto(e, beg), Ahead(e, Dark) - beg)

\* Delete the blank lines above the point's line.
BlanksAbove(e) ==
  LET beg  == bmrktopnt(bmove1(bcrsearch(e, NL)), "t1")
      text == bmovepast(beg, isspace, BACKWARD)
      from == IF bisstart(text) THEN text ELSE bcsearch(text, NL)
  IN IF ~ FoundBack(e, NL) THEN btostart(e)
     ELSE IF bisbeforemrk(from, "t1") THEN bdeltomrk(from, "t1") ELSE from

BlanksBelow(e) ==
  LET beg  == bmrktopnt(bcsearch(e, NL), "t1")
      text == bmovepast(beg, isspace, FORWARD)
      to   == tobegline(text)
  IN IF ~ Found(e, NL) THEN btoend(e)
     ELSE IF bisaftermrk(to, "t1") THEN bdeltomrk(to, "t1") ELSE to

Zdelete_blanks(e) ==
  Done(bpnttomrk(BlanksBelow(BlanksAbove(bmrktopnt(e, "t2"))), "t2"))

Zjoin(e) == binsert(Ztrim_white_space(bdelete(toendline(e), 1)), " ")

Zempty_buffer(e) == bempty(e)

-----------------------------------------------------------------------------
(* commands.c: words and characters. *)

\* The start of the word at or behind the point; the end of the text if none.
findstart(e) ==
  LET beg == Max({i \in 0 .. e.point : i = 0 \/ ~ bistoken(At(e, i))})
  IN Goto(e, Ahead(Goto(e, beg), isalpha))

\* Convert the rest of the word, the first character with first.
ConvertWord(e, first(_), rest(_)) ==
  LET f   == findstart(e)
      beg == f.point
      end == Ahead(f, LAMBDA c : ~ bistoken(c))
  IN IF bisend(f) THEN f
     ELSE [Goto(f, end) EXCEPT !.text = [i \in DOMAIN @ |->
             CASE i = beg + 1 -> first(@[i])
               [] i \in beg + 2 .. end -> rest(@[i])
               [] OTHER -> @[i]]]

Zcapitalize_word(e) == ConvertWord(e, toupper, tolower)
Zlowercase_word(e)  == ConvertWord(e, tolower, tolower)
Zuppercase_word(e)  == ConvertWord(e, toupper, toupper)

\* Move the bytes between the point and mark from behind mark to.  A byte is
\* inserted at to and deleted at the point, one after the other.
blockmove(e, from, to) ==
  LET block == Region(e, from)
      there == Ins(Goto(e, e.mark[to]), block)
      f     == bdelete(Goto(there, e.point), Len(block))
  IN [f EXCEPT !.mark[to] = e.mark[to], !.mark[from] = e.point]

Zswap_words(e) ==
  LET word == bmoveto(e, bistoken, FORWARD)
      end  == bmrktopnt(bmovepast(bmrktopnt(word, "t1"), bistoken, FORWARD), "t2")
      gap  == blockmove(bmoveto(bpnttomrk(end, "t1"), bistoken, BACKWARD), "t1", "t2")
      both == blockmove(bmovepast(gap, bistoken, BACKWARD), "t1", "t2")
  IN IF bisend(word) THEN word ELSE Done(bpnttomrk(both, "t2"))

Zswap_chars(e) ==
  LET f == IF bisend(e) \/ Buff(e) = NL THEN bmove(e, -1) ELSE e
      g == bmove(f, -1)
  IN binsert(bmove1(bdelete(g, 1)), Buff(g))

Zinsert(e, ch, overwrite) ==
  binsert(IF overwrite /\ ~ bisend(e) /\ Buff(e) # NL THEN bdelete(e, 1) ELSE e, ch)

Znewline(e, overwrite) == IF overwrite THEN bcsearch(e, NL) ELSE binsert(e, NL)

Ztab(e) ==
  IF SpaceTab THEN Ins(e, [i \in 1 .. Tabsize - (bgetcol(e, FALSE) % Tabsize) |-> " "])
  ELSE binsert(e, TAB)

\* Delete the spaces at the point, at most n.
space_delete(e, n) == bdelete(e, Min({n, Ahead(e, LAMBDA c : c # " ") - e.point}))

\* Delete a tab at the start of the line.
UntabLine(e) == IF Buff(e) = TAB THEN bdelete(e, 1) ELSE space_delete(e, Tabsize)

\* After a space: go back to the tab stop and delete each space on the way, and
\* spaces after the point up to 8 in all.
UntabSpaces(e) ==
  LET over == bgetcol(e, FALSE) % Tabsize
      del  == IF over = 0 THEN 8 ELSE over
      Back(f) == LET g == bmove(f, -1) IN IF Buff(g) = " " THEN bdelete(g, 1) ELSE g
  IN space_delete(Times(Back, e, del), 8 - del)

Zuntab(e) ==
  CASE bpeek(e) = NL  -> UntabLine(e)
    [] bpeek(e) = TAB -> bdelete(bmove(e, -1), 1)
    [] bpeek(e) = " " -> UntabSpaces(e)
    [] OTHER -> IF Buff(e) = NL \/ bisend(e) THEN toendline(UntabLine(tobegline(e))) ELSE e

Zcenter(e) ==
  LET f   == toendline(Ztrim_white_space(tobegline(e)))
      col == bgetcol(f, TRUE)
  IN IF col > FillWidth THEN f
     ELSE toendline(tindent(tobegline(f), (FillWidth - col) \div 2))

-----------------------------------------------------------------------------
(* commands.c: C and shell mode. *)

Count(s, ch) == Cardinality({i \in DOMAIN s : s[i] = ch})

\* The column of the first dark character in the point's line.
LineIndent(e) == bgetcol(bmovepast(tobegline(e), biswhite, FORWARD), TRUE)

\* The places of unmatched open braces before the point; the byte at the start
\* of the buffer is never looked at.
OpenBraces(e) ==
  {i \in 1 .. e.point - 1 :
     /\ e.text[i + 1] = "{"
     /\ LET between == SubSeq(e.text, i + 2, e.point)
        IN Count(between, "{") = Count(between, "}")}

\* do_close_bracket with a bug: the brace goes to the column of the open one.
do_close_bracket_col(e) ==
  LET open == Max(OpenBraces(e))
      f    == IF Count(SubSeq(e.text, open + 2, e.point), NL) = 0 THEN e
              ELSE tindent(Ztrim_white_space(e), bgetcol(Goto(e, open), TRUE))
  IN IF OpenBraces(e) = {} THEN e ELSE binsert(f, "}")

\* Line the brace up with the last unmatched open one, and insert it.
do_close_bracket(e) ==
  LET open == Max(OpenBraces(e))
      f    == IF Count(SubSeq(e.text, open + 2, e.point), NL) = 0 THEN e
              ELSE tindent(Ztrim_white_space(e), LineIndent(Goto(e, open)))
  IN IF OpenBraces(e) = {} THEN e ELSE binsert(f, "}")

\* A # goes to the start of its line, if the line is white up to the point.
HashHome(e) ==
  LET i == Max({j \in 0 .. e.point - 1 : j = 0 \/ ~ biswhite(e.text[j + 1])} \cup {0})
  IN IF i > 0 /\ At(e, i) = NL
     THEN bdeltomrk(bmove1(Goto(bmrktopnt(e, "t1"), i)), "t1") ELSE e

\* The word at or before the point.
getbword(e, valid(_)) ==
  LET f == IF bistoken(Buff(e)) THEN e ELSE bmoveto(e, bistoken, BACKWARD)
      g == bmovepast(f, bistoken, BACKWARD)
  IN SubSeq(e.text, g.point + 1, Ahead(g, LAMBDA c : ~ valid(c)))

\* The label public: goes to the start of its line.
LabelHome(e) ==
  LET f == tobegline(bmrktopnt(e, "t1"))
  IN IF getbword(e, bisword) \in Access
     THEN bpnttomrk(bdelete(f, Ahead(f, LAMBDA c : ~ isspace(c)) - f.point), "t1") ELSE e

\* A / behind a * also makes the display scan for comments again (module
\* Screen).
Zc_insert(e, ch) ==
  Done(binsert(CASE ch = "}" -> do_close_bracket(e)
                 [] ch = "#" -> HashHome(e)
                 [] ch = ":" -> LabelHome(e)
                 [] OTHER    -> e, ch))

\* The start of the point's line, or of the line above it that is no # line.
RECURSIVE AboveHash(_)
AboveHash(e) ==
  LET f == tobegline(IF Buff(e) = "#" THEN bmove(e, -1) ELSE e)
  IN IF Buff(f) = "#" /\ ~ bisstart(f) THEN AboveHash(f) ELSE f

\* The next line is indented by what the braces of this one say.  lookingat
\* leaves the point behind the word it found, so the column of a line with an
\* if is that behind the if.
Zc_indent(e, overwrite) ==
  LET beg    == bmovepast(AboveHash(e), biswhite, FORWARD)
      branch == lookingat(beg, <<"i", "f">>)
      from   == Goto(e, Min({beg.point + (IF branch THEN 2 ELSE 0), e.point}))
      Brace(acc, ch) ==
        CASE ch = "{" -> [width |-> acc.width + (IF ~ branch \/ acc.saw > 0 THEN Tabsize ELSE 0),
                          saw   |-> acc.saw + 1]
          [] ch = "}" /\ acc.saw > 0 -> [width |-> acc.width - Tabsize, saw |-> acc.saw - 1]
          [] OTHER -> acc
      acc0 == [width |-> bgetcol(from, TRUE) + (IF branch THEN Tabsize ELSE 0), saw |-> 0]
      acc  == FoldLeft(Brace, acc0, SubSeq(e.text, from.point + 1, e.point))
  IN IF overwrite THEN bcsearch(e, NL) ELSE tindent(binsert(e, NL), acc.width)

Zsh_indent(e) == tindent(binsert(e, NL), LineIndent(e))

-----------------------------------------------------------------------------
(* commands.c: paragraphs, filling and regions. *)

\* The loop that breaks the lines before the point at FillWidth.
RECURSIVE FillBack(_)
FillBack(e) ==
  IF bgetcol(e, TRUE) <= FillWidth THEN e
  ELSE FillBack(bmovepast(bmoveto(e, isspace, BACKWARD), isspace, BACKWARD))

\* A space or a newline typed behind column FillWidth breaks the line.
Zfill_check(e, ch, overwrite) ==
  LET f == Ztrim_white_space(FillBack(bmrktopnt(e, "t1")))
      g == binsert(f, NL)
  IN CASE bgetcol(e, TRUE) < FillWidth ->
            IF ch = NL THEN Znewline(e, overwrite) ELSE Zinsert(e, ch, overwrite)
       [] bgetcol(e, TRUE) >= FillWidth /\ bisatmrk(f, "t1") -> Done(g)
       [] OTHER -> Done(binsert(bpnttomrk(g, "t1"), ch))

ispara(pc, ch) == ch \in {"\f", "VT"} \/ (pc = NL /\ ch \in {NL, "."})

Znext_paragraph(e) ==
  LET f == IF isspace(Buff(e)) THEN bmovepast(e, isspace, BACKWARD) ELSE e
      Breaks == {p \in f.point .. Length(e) - 1 :
                   ispara(IF p = f.point THEN "NUL" ELSE e.text[p], e.text[p + 1])}
  IN bmovepast(Goto(f, Min(Breaks \cup {Length(e)})), isspace, FORWARD)

Zprevious_paragraph(e) ==
  LET f == bmovepast(e, isspace, BACKWARD)
      Breaks == {p \in 1 .. f.point :
                   ispara(At(e, p), IF p = f.point THEN "NUL" ELSE At(e, p + 1))}
  IN bmovepast(Goto(f, Max(Breaks \cup {0})), isspace, FORWARD)

\* FillStep with a bug: joined lines are not kept apart by a space.
FillStep_glue(e) ==
  LET word == bmoveto(e, isspace, FORWARD)
      gap  == bmovepast(word, biswhite, FORWARD)
  IN IF Buff(gap) = NL /\ bisbeforemrk(gap, "t2")
     THEN Ztrim_white_space(bdelete(gap, 1)) ELSE gap

\* FillStep with bugs: a line may be a column too long; white space is not
\* skipped.
FillStep_wide(e) ==
  LET word == bmoveto(e, isspace, FORWARD)
      fit  == IF bgetcol(word, TRUE) <= FillWidth + 1 THEN word
              ELSE bmoveto(binsert(Ztrim_white_space(bmoveto(word, isspace, BACKWARD)), NL),
                           isspace, FORWARD)
      gap  == bmovepast(fit, biswhite, FORWARD)
  IN IF Buff(gap) = NL /\ bisbeforemrk(gap, "t2")
     THEN binsert(Ztrim_white_space(bdelete(gap, 1)), " ") ELSE gap

FillStep_still(e) ==
  LET word == bmoveto(e, isspace, FORWARD)
  IN IF Buff(word) = NL /\ bisbeforemrk(word, "t2")
     THEN binsert(Ztrim_white_space(bdelete(word, 1)), " ") ELSE word

\* Go over the next word, breaking the line before it if it does not fit, and
\* over the gap behind it, joining the next line.
FillStep(e) ==
  LET word == bmoveto(e, isspace, FORWARD)
      fit  == IF bgetcol(word, TRUE) <= FillWidth THEN word
              ELSE bmoveto(binsert(Ztrim_white_space(bmoveto(word, isspace, BACKWARD)), NL),
                           isspace, FORWARD)
      gap  == bmovepast(fit, biswhite, FORWARD)
  IN IF Buff(gap) = NL /\ bisbeforemrk(gap, "t2")
     THEN binsert(Ztrim_white_space(bdelete(gap, 1)), " ") ELSE gap

RECURSIVE FillLoop(_)
FillLoop(e) ==
  CASE ~ bisbeforemrk(e, "t2") -> e
    [] bisbeforemrk(e, "t2") /\ FillStep(e) = e -> [e EXCEPT !.stuck = TRUE]
    [] OTHER -> FillLoop(FillStep(e))

\* Fill the paragraph of the point and go behind it.
FillOne(e) ==
  LET end  == bmovepast(Znext_paragraph(e), isspace, BACKWARD)
      beg  == Zprevious_paragraph(bmrktopnt(end, "t2"))
  IN bmovepast(FillLoop(IF Buff(beg) = "." THEN bcsearch(beg, NL) ELSE beg), isspace, FORWARD)

\* With an argument the paragraphs behind it too, until a key is hit.
RECURSIVE FillAll(_)
FillAll(e) ==
  LET f == FillOne(e)
  IN IF bisend(f) \/ f.stuck \/ (f.text = e.text /\ f.point <= e.point) THEN f ELSE FillAll(f)

Zfill_paragraph(e, argp) ==
  LET beg == bmrktopnt(e, "t1")
  IN Done(bpnttomrk(IF argp THEN FillAll(beg) ELSE FillOne(beg), "t1"))

\* What Zcount shows: lines, words and characters between the point and the
\* user's mark, or in the buffer.
Counts(e) ==
  LET s == IF e.mark["umark"] = NIL THEN e.text ELSE Region(e, "umark")
  IN [lines |-> Count(s, NL),
      words |-> Cardinality({i \in DOMAIN s : bistoken(s[i]) /\ (i = 1 \/ ~ bistoken(s[i - 1]))}),
      chars |-> Len(s)]

\* If the point was behind the mark, both end up at the point.
Zcount(e) == IF e.mark["umark"] # NIL /\ bisaftermrk(e, "umark") THEN bmrktopnt(e, "umark") ELSE e

Zmark_paragraph(e, n) ==
  Times(Znext_paragraph, bmrktopnt(Zprevious_paragraph(bmove1(e)), "umark"), n)

\* Upper- or lowercase the region, which leaves the point at its end if it
\* was there before.
setregion(e, convert(_)) ==
  LET from == Min({e.point, e.mark["umark"]})
      to   == Max({e.point, e.mark["umark"]})
  IN IF e.mark["umark"] = NIL THEN e
     ELSE bdelmark([e EXCEPT !.text = [i \in DOMAIN @ |->
                      IF i \in from + 1 .. to THEN convert(@[i]) ELSE @[i]]], "umark")

\* Put n tabs at the point, but not before a #, or delete up to n of them.
IndentLine(e, n, flag) ==
  IF flag THEN IF Buff(e) = "#" THEN e ELSE Ins(e, [i \in 1 .. n |-> TAB])
  ELSE bdelete(e, Min({n, Ahead(e, LAMBDA c : c # TAB) - e.point}))

RECURSIVE IndentLoop(_, _, _)
IndentLoop(e, n, flag) ==
  IF bisbeforemrk(e, "umark") THEN IndentLoop(bcsearch(IndentLine(e, n, flag), NL), n, flag)
  ELSE e

\* The lines of the region, from the end of the line above it.
indent(e, n, flag) ==
  LET f == bmrktopnt(e, "t1")
      g == IF bisaftermrk(f, "umark") THEN bswappnt(f, "umark") ELSE f
      h == IndentLoop(bcrsearch(g, NL), n, flag)
  IN IF e.mark["umark"] = NIL THEN e ELSE Done(bdelmark(bpnttomrk(h, "t1"), "umark"))

Zindent(e, n) == indent(e, n, TRUE)
Zundent(e, n) == indent(e, n, FALSE)

\* Go behind the nth ch, with the mark where the point was; nowhere if there
\* are too few.
Zzap_to_char(e, ch, n) ==
  LET f == bmrktopnt(e, "umark")
  IN IF Count(SubSeq(e.text, e.point + 1, Length(e)), ch) < n THEN bdelmark(e, "umark")
     ELSE Times(LAMBDA g : bcsearch(g, ch), f, n)

Zquote(e, ch, n) == Ins(e, [i \in 1 .. n |-> ch])
=============================================================================
