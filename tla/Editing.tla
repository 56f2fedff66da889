------------------------------ MODULE Editing ------------------------------
(***************************************************************************)
(* A user editing one buffer: the commands of module Commands one after    *)
(* the other, as execute and dotty (src/z.c) call them, in a mode that     *)
(* says which commands are used.  lfunc is the command before; home and    *)
(* lost are history: where a row of line motions began, and the text       *)
(* before a row of kills that all began where the one before left the      *)
(* point.                                                                  *)
(***************************************************************************)
EXTENDS Commands

CONSTANTS
  Texts(_),   \* the texts a mode starts with
  Junk,       \* what may lie behind the end of the last page
  MaxSteps(_) \* commands given in a mode

Modes == {"move", "kill", "layout", "fill", "words", "c"}

VARIABLES ed, mode, lfunc, home, lost, steps
vars == <<ed, mode, lfunc, home, lost, steps>>

NoRow == [text |-> <<>>, point |-> -1, line |-> -1]

Init ==
  /\ mode \in Modes
  /\ \E s \in Texts(mode), j \in Junk :
       \E p \in 0 .. Len(s) :
         ed = [text |-> s, point |-> p, mark |-> [m \in MarkName |-> NIL], junk |-> j,
               kill |-> <<>>, fcol |-> 0, stuck |-> FALSE]
  /\ lfunc = "insert"
  /\ home = NoRow
  /\ lost = NoRow
  /\ steps = 0

\* A command kills; delete-to-eol on a newline only deletes it.
Kills(cmd, e) ==
  /\ cmd \in DeleteCmd /\ e.text # ed.text
  /\ ~ (cmd = "delete-to-eol" /\ ~ bisend(ed) /\ Buff(ed) = NL)

\* execute and dotty: run a command, and remember it.
Do(cmd, e) ==
  /\ steps < MaxSteps(mode) /\ ~ ed.stuck
  /\ ed' = e
  /\ lfunc' = cmd
  /\ steps' = steps + 1
  /\ home' = CASE cmd \notin LineCmd -> NoRow
               [] lfunc \in LineCmd /\ cmd \in LineCmd -> home
               [] OTHER -> [text |-> ed.text, point |-> ed.point, line |-> bline(ed)]
  /\ lost' = CASE ~ Kills(cmd, e) -> NoRow
               [] Kills(cmd, e) /\ lfunc \notin DeleteCmd ->
                    [text |-> ed.text, point |-> e.point, line |-> 0]
               [] OTHER -> IF ed.point = e.point THEN lost ELSE NoRow
  /\ UNCHANGED mode

Motion ==
  /\ mode = "move"
  /\ \/ \E n \in 1 .. 2 : \/ Do("previous-line", Zprevious_line(ed, lfunc, n))
                          \/ Do("next-line", Znext_line(ed, lfunc, n))
                          \/ Do("goto-line", Zgoto_line(ed, n))
     \/ Do("beginning-of-buffer", btostart(ed))
     \/ Do("end-of-buffer", btoend(ed))
     \/ Do("previous-character", Zprevious_char(ed, 1))
     \/ Do("next-character", Znext_char(ed, 1))
     \/ Do("beginning-of-line", Zbeginning_of_line(ed))
     \/ Do("end-of-line", Zend_of_line(ed))
     \/ Do("previous-word", Zprevious_word(ed))
     \/ Do("next-word", Znext_word(ed))
     \/ Do("out-to", Zout_to(ed, Tabsize + 2))

Marking ==
  /\ mode \in {"kill", "words"}
  /\ \/ Do("set-mark", Zset_mark(ed))
     \/ Do("swap-mark", Zswap_mark(ed))
     \/ Do("mark-paragraph", Zmark_paragraph(ed, 1))
     \/ Do("zap-to-character", Zzap_to_char(ed, "a", 1))

Kill ==
  /\ mode = "kill"
  /\ \/ Do("delete-to-eol", Zdelete_to_eol(ed, lfunc))
     \/ Do("delete-line", Zdelete_line(ed, lfunc))
     \/ Do("delete-region", Zdelete_region(ed, lfunc))
     \/ Do("copy-region", Zcopy_region(ed, lfunc))
     \/ Do("delete-word", Zdelete_word(ed, lfunc))
     \/ Do("delete-previous-word", Zdelete_previous_word(ed, lfunc))
     \/ Do("copy-word", Zcopy_word(ed, lfunc))
     \/ Do("append-kill", ed)
     \/ Do("yank", Zyank(ed))
     \/ Do("delete-character", Zdelete_char(ed, 1))
     \/ Do("delete-previous-char", Zdelete_previous_char(ed, 2))
     \/ Do("empty-buffer", Zempty_buffer(ed))

\* Commands that only change white space.
Layout ==
  /\ mode = "layout"
  /\ \/ Do("trim-white-space", Ztrim_white_space(ed))
     \/ Do("delete-blanks", Zdelete_blanks(ed))
     \/ Do("join", Zjoin(ed))
     \/ Do("center", Zcenter(ed))
     \/ Do("tab", Ztab(ed))
     \/ Do("untab", Zuntab(ed))
     \/ Do("open-line", Zopen_line(ed))
     \/ Do("out-to", Zout_to(ed, Tabsize + 2))
     \/ \E over \in BOOLEAN : Do("newline", Znewline(ed, over))

Fill ==
  /\ mode = "fill"
  /\ \/ \E ch \in {" ", NL} : \/ Do("fill-check", Zfill_check(ed, ch, FALSE))
                              \/ Do("fill-check-overwrite", Zfill_check(ed, ch, TRUE))
     \/ Do("fill-paragraph", Zfill_paragraph(ed, FALSE))
     \/ Do("fill-all", Zfill_paragraph(ed, TRUE))

Words ==
  /\ mode = "words"
  /\ \/ Do("capitalize-word", Zcapitalize_word(ed))
     \/ Do("lowercase-word", Zlowercase_word(ed))
     \/ Do("uppercase-word", Zuppercase_word(ed))
     \/ Do("swap-words", Zswap_words(ed))
     \/ Do("swap-chars", Zswap_chars(ed))
     \/ Do("uppercase-region", setregion(ed, toupper))
     \/ Do("lowercase-region", setregion(ed, tolower))
     \/ Do("indent-region", Zindent(ed, 1))
     \/ Do("undent-region", Zundent(ed, 1))
     \/ Do("count", Zcount(ed))

Code ==
  /\ mode = "c"
  /\ \/ \E ch \in {"}", "#", ":", "a"} : Do("c-insert", Zc_insert(ed, ch))
     \/ \E over \in BOOLEAN : Do("c-indent", Zc_indent(ed, over))
     \/ Do("sh-indent", Zsh_indent(ed))
     \/ Do("quote", Zquote(ed, "{", 1))
     \/ \E over \in BOOLEAN : Do("insert", Zinsert(ed, "{", over))

Next == Motion \/ Marking \/ Kill \/ Layout \/ Fill \/ Words \/ Code

Spec == Init /\ [][Next]_vars

-----------------------------------------------------------------------------
(* Properties. *)

\* The point and the marks are places in the text, and a command leaves no mark
\* of its own behind (do_close_bracket aside, which forgets one).
TypeOK ==
  /\ ed.point \in 0 .. Length(ed)
  /\ ed.mark["umark"] \in {NIL} \cup 0 .. Length(ed)
  /\ ed.mark["t1"] = NIL /\ ed.mark["t2"] = NIL
  /\ ed.stuck \in BOOLEAN

Lines(s) ==
  LET Ends == {i \in DOMAIN s : s[i] = NL} \cup {Len(s) + 1}
  IN {SubSeq(s, Max({j \in Ends : j < i} \cup {0}) + 1, i - 1) : i \in Ends}

\* A row of line motions that comes back to the line it began on comes back to
\* the place it began at, whatever shorter lines, tabs or ends of the buffer lay
\* between (forcecol's static column and bmakecol), unless a line with tabs is
\* wider than the screen.
HomeAgain ==
  TypeOK /\
  ((lfunc \in LineCmd /\ home # NoRow /\ bline(ed) = home.line
   /\ \A l \in Lines(ed.text) : Width(l, TRUE) < Colmax \/ TAB \notin Range(l))
   => ed.point = home.point)

\* Kills given one after the other from one place are one kill: a yank brings
\* back all they took, in order (copytomrk appends after a deleting command).
YankRestores == lost # NoRow => Zyank(ed).text = lost.text

Dark(s) == SelectSeq(s, LAMBDA c : ~ isspace(c))

\* The dark bytes of s and where white space parts them.
WordsOf(s) ==
  LET acc == FoldLeft(LAMBDA a, c :
                        IF isspace(c) THEN [a EXCEPT !.gaps = @ \cup {Len(a.dark)}]
                        ELSE [a EXCEPT !.dark = Append(@, c)],
                      [dark |-> <<>>, gaps |-> {}], s)
  IN [acc EXCEPT !.gaps = @ \ {0, Len(acc.dark)}]

\* Filling neither parts a word nor joins two.
WordsKept ==
  [][lfunc' \in {"fill-paragraph", "fill-all"} => WordsOf(ed'.text) = WordsOf(ed.text)]_vars

Trimmed(l) == SubSeq(l, 1, Max({i \in DOMAIN l : ~ isspace(l[i])} \cup {0}))

\* After the rest of the buffer was filled from its start, a line that is too
\* long is a single word.
FillFits ==
  [][(lfunc' = "fill-all" /\ ~ ed'.stuck /\ ed.point = 0) =>
       \A l \in Lines(ed'.text) :
         Width(Trimmed(l), TRUE) <= FillWidth \/ WordsOf(l).gaps = {}]_vars

\* Only a carriage return in a paragraph makes fill-paragraph loop for ever: it
\* is white space that is neither skipped nor joined.
FillEnds == ed.stuck => "\r" \in Range(ed.text)

\* A close brace typed behind nothing but white space stands where the line of
\* its open brace is indented to.
BraceAligned ==
  [][(lfunc' = "c-insert" /\ Length(ed') > Length(ed) /\ Buff(bmove(ed', -1)) = "}"
      /\ OpenBraces(ed) # {}) =>
       LET open  == Goto(ed, Max(OpenBraces(ed)))
           front == SubSeq(ed.text, tobegline(ed).point + 1, ed.point)
       IN (bline(open) < bline(ed) /\ Dark(front) = <<>>)
            => LineIndent(ed') = LineIndent(open)]_vars

=============================================================================
