------------------------------- MODULE Search -------------------------------
(***************************************************************************)
(* Searching and replacing (src/srch.c) in the buffers of the editor: the  *)
(* search commands, the incremental search, a key at a time, and the       *)
(* replace commands, a match and an answer at a time, in one buffer or, if *)
(* given an argument, in all of them.                                      *)
(***************************************************************************)
EXTENDS FindText

CONSTANTS
  STRMAX,     \* longest search string
  Parts,      \* what a behaviour is about, which bounds its commands
  Starts(_),  \* the texts of the buffers it starts with
  Strings(_), \* what is typed as a search string
  News(_),    \* what is typed as a replacement
  Junk,       \* what may lie behind the end of the last page
  MaxSteps(_), \* bound on the commands given
  MaxKeys,    \* bound on the keys typed in one incremental search
  MaxText     \* bound on the text a replacement makes

VARIABLES
  part,   \* what this behaviour is about
  exact,  \* is EXACT set in the buffers' mode?
  bufs,   \* the buffers
  cur,    \* Curbuff
  kill,   \* the kill buffer
  olds, news, searchdir,
  cmd,    \* the command in progress
  last,   \* history: the command before, and whether it found anything
  was     \* history: the buffers when the command began, or at the match offered last

vars == <<part, exact, bufs, cur, kill, olds, news, searchdir, cmd, last, was>>

Forward  == "forward"
Backward == "backward"
REGEXP   == "regexp"
QUERY    == "query"

\* The marks of module FlatText that replacing uses.
pmark     == "umark"
prevmatch == "t1"
REstart   == "t2"

e == bufs[cur]

\* No command, an incremental search, or a replacement, which is at its next
\* match, waits for an answer or waits for a confirmation.
NoCmd == [op |-> "none", keys |-> 0]

Init ==
  /\ part \in Parts
  /\ exact \in BOOLEAN
  /\ \E texts \in Starts(part), j \in Junk :
       \E c \in DOMAIN texts : \E p \in 0 .. Len(texts[c]) :
         /\ cur = c
         /\ bufs = [b \in DOMAIN texts |->
                      [text |-> texts[b], point |-> IF b = c THEN p ELSE 0,
                       mark |-> [m \in MarkName |-> NIL], junk |-> j]]
  /\ kill = <<>> /\ olds = <<>> /\ news = <<>>
  /\ searchdir = [dir |-> Backward, wrap |-> FALSE]
  /\ cmd = NoCmd
  /\ last = [op |-> "none", n |-> 0, found |-> FALSE, steps |-> 0]
  /\ was = bufs

Idle == cmd.op = "none"

Remember(op, n, found) ==
  last' = [op |-> op, n |-> n, found |-> found, steps |-> last.steps + 1]

bstrsearch(b, str, dir) ==
  IF dir = Forward THEN bm_search(b, str, exact) ELSE bm_rsearch(b, str, exact)

-----------------------------------------------------------------------------
(* The search commands. *)

\* One search, for the n-th match or the last there is.
Nth(b, Search1(_), n) ==
  LET from[k \in 0 .. n] ==
        IF k = 0 THEN Result(b, FALSE)
        ELSE IF k > 1 /\ ~ from[k - 1].found THEN from[k - 1]
        ELSE LET r == Search1(from[k - 1].e) IN IF r.found THEN r ELSE from[k - 1]
  IN from[n]

\* dosearch.  The static marks save and fmark are places: no text changes.
dosearch(b, str, dir, n) ==
  LET re(f) == re_step(f, str, prevmatch)
      bm(f) == bstrsearch(f, str, dir)
      r == IF dir # REGEXP THEN Nth(b, bm, n)
           ELSE IF re_compiles(str) THEN Nth(b, re, n) ELSE Result(b, FALSE)
  IN [r EXCEPT !.e = [b EXCEPT !.point = r.e.point]]

\* Search for str, starting at place b of the current buffer.
Searched(op, b, str, dir, n) ==
  \E r \in {dosearch(b, str, dir, n)} :
     /\ bufs' = [bufs EXCEPT ![cur] = r.e]
     /\ olds' = str
     /\ Remember(op, n, r.found)
     /\ was' = bufs
     /\ UNCHANGED <<part, exact, cur, kill, news, cmd>>

Ready(op) == Idle /\ last.steps < MaxSteps(part)

\* Zsearch, Zreverse_search and Zre_search, with the string typed at the prompt.
Find(dir, str, n) ==
  /\ Ready("find")
  /\ searchdir' = [dir |-> dir, wrap |-> FALSE]
  /\ Searched("find", e, str, dir, n)

\* Zword_search: the word of the point; with none, and the prompt aborted, there is
\* no search string any more.
getbword ==
  LET f == IF bistoken(Buff(e)) THEN e ELSE bmoveto(e, bistoken, BACKWARD)
      g == bmovepast(f, bistoken, BACKWARD)
  IN SubSeq(e.text, g.point + 1, Min({Ahead(g, LAMBDA c : ~ bisword(c)), g.point + STRMAX}))

Zword_search(n) ==
  /\ Ready("find")
  /\ searchdir' = [dir |-> Forward, wrap |-> FALSE]
  /\ \/ getbword # <<>> /\ Searched("find", e, getbword, Forward, n)
     \/ /\ getbword = <<>>
        /\ olds' = <<>>
        /\ Remember("find", 0, FALSE)
        /\ UNCHANGED <<part, exact, bufs, cur, kill, news, cmd, was>>

\* The prompt answered with nothing: olds is emptied, and all else stays.
Find_nothing ==
  /\ Ready("find") /\ last.steps > 0
  /\ olds' = <<>>
  /\ Remember("find", 0, FALSE)
  /\ UNCHANGED <<part, exact, bufs, cur, kill, news, searchdir, cmd, was>>

\* A wrapped search for the empty string moves back by one byte for ever.
Hang ==
  /\ Ready("again") /\ olds = <<>> /\ searchdir.wrap /\ searchdir.dir # REGEXP /\ e.text # <<>>
  /\ cmd' = [NoCmd EXCEPT !.op = "hung"]
  /\ UNCHANGED <<part, exact, bufs, cur, kill, olds, news, searchdir, last, was>>

\* Zagain with a bug: the wrapped search starts at the point too.
Zagain_here(n) ==
  /\ Ready("again") /\ olds # <<>>
  /\ Searched("again", e, olds, searchdir.dir, n)
  /\ searchdir' = [searchdir EXCEPT !.wrap = ~ searchdir.wrap /\ ~ last'.found]

\* Zagain: the search before once more; when that failed, from the start of the
\* buffer, whichever way it goes.
Zagain(n) ==
  /\ Ready("again") /\ olds # <<>>
  /\ Searched("again", IF searchdir.wrap THEN btostart(e) ELSE e, olds, searchdir.dir, n)
  /\ searchdir' = [searchdir EXCEPT !.wrap = ~ searchdir.wrap /\ ~ last'.found]

-----------------------------------------------------------------------------
(* Incremental search: marks[i] is where the point was before byte i of str. *)

Isearch ==
  /\ Ready("isearch")
  /\ cmd' = [op |-> "isearch", keys |-> 0, str |-> <<>>, count |-> 0, own |-> TRUE,
             marks |-> [i \in 0 .. STRMAX - 1 |-> e.point]]
  /\ was' = bufs
  /\ UNCHANGED <<part, exact, bufs, cur, kill, olds, news, searchdir, last>>

\* A key that leaves the search going.
Key(c, b) ==
  /\ cmd.op = "isearch" /\ cmd.keys < MaxKeys
  /\ cmd' = [c EXCEPT !.keys = @ + 1]
  /\ bufs' = [bufs EXCEPT ![cur] = b]
  /\ UNCHANGED <<part, exact, cur, kill, olds, news, searchdir, last, was>>

\* A byte of the search string.  The search starts one byte before the match of
\* the string so far.
Typed(ch) ==
  LET i   == Len(cmd.str)
      str == Append(cmd.str, ch)
      r   == bstrsearch(bmove(e, - i - 1), str, Forward)
  IN /\ cmd.op = "isearch"
     /\ IF i = STRMAX THEN Key([cmd EXCEPT !.count = 0], e)
        ELSE LET c == [cmd EXCEPT !.marks[i] = e.point, !.count = 0]
             IN IF r.found THEN Key([c EXCEPT !.str = str], r.e)
                ELSE Key(c, Goto(e, c.marks[i]))

\* ^S: the next match, of the last search string if none is typed yet.  The
\* second time that there is none it starts again at the start.
Next_match ==
  /\ cmd.op = "isearch"
  /\ cmd.str # <<>> \/ olds # <<>>
  /\ LET c == IF cmd.str # <<>> THEN cmd
              ELSE [cmd EXCEPT !.str = olds, !.own = FALSE,
                               !.marks = [i \in DOMAIN @ |-> IF i < Len(olds) THEN e.point
                                                            ELSE @[i]]]
         r == bstrsearch(e, c.str, Forward)
         w == bstrsearch(btostart(e), c.str, Forward)
     IN CASE r.found                  -> Key(c, r.e)
          [] ~ r.found /\ c.count = 0 -> Key([c EXCEPT !.count = 1], e)
          [] OTHER -> IF w.found THEN Key([c EXCEPT !.count = 0], w.e)
                      ELSE Key([c EXCEPT !.count = 1], e)

\* Rubout with a bug: the point stays behind the byte rubbed out.
Rubout_stay ==
  /\ cmd.op = "isearch"
  /\ Key([cmd EXCEPT !.str = IF @ = <<>> THEN @ ELSE Front(@), !.count = 0], e)

Rubout ==
  LET i == Len(cmd.str)
  IN /\ cmd.op = "isearch"
     /\ IF i = 0 THEN Key([cmd EXCEPT !.count = 0], e)
        ELSE Key([cmd EXCEPT !.str = Front(@), !.count = 0], Goto(e, cmd.marks[i - 1]))

\* Another key ends the search, and is then a command of its own.
Isearch_end(abort) ==
  /\ cmd.op = "isearch"
  /\ cmd' = NoCmd
  /\ bufs' = [bufs EXCEPT ![cur] = IF abort THEN Goto(@, cmd.marks[0]) ELSE @]
  /\ olds' = IF abort THEN olds ELSE cmd.str
  /\ searchdir' = [dir |-> Forward, wrap |-> FALSE]
  /\ Remember(IF abort THEN "abort" ELSE "isearch", 0, TRUE)
  /\ UNCHANGED <<part, exact, cur, kill, news, was>>

-----------------------------------------------------------------------------
(* Replacing. *)

\* One inserted string for each way to read one: binstr takes it for a format,
\* and a conversion (here "%d") reads an argument that was never passed.
Formatted(s) ==
  {FoldLeft(LAMBDA out, c : IF c = "%d" THEN out \o g ELSE Append(out, c), <<>>, s) :
     g \in {<<>>, <<"0">>}}

\* The replacement of a match of a regular expression: "&" is the match, and "\"
\* quotes; a "\" at the end reads on behind the string's end, where the rest of a
\* longer string may still be.
Expand(s, match) ==
  LET Take(x, c) == CASE x.quoted               -> [out |-> Append(x.out, c), quoted |-> FALSE]
                      [] ~ x.quoted /\ c = "\\" -> [x EXCEPT !.quoted = TRUE]
                      [] ~ x.quoted /\ c = "&"  -> [x EXCEPT !.out = @ \o match]
                      [] OTHER                  -> [x EXCEPT !.out = Append(@, c)]
      x == FoldLeft(Take, [out |-> <<>>, quoted |-> FALSE], s)
  IN IF x.quoted THEN {x.out \o <<"\\">> \o rest : rest \in {<<>>, <<"b">>}} ELSE {x.out}

\* How it goes on with buffer b as the current one and c as the command.
Goes(c, b) ==
  /\ cmd' = c
  /\ bufs' = [bufs EXCEPT ![cur] = b]
  /\ UNCHANGED <<part, exact, cur, olds, news, searchdir, last, was>>

\* Begin with a bug: a buffer is searched from its point on.
Begin_point(b, argp) == b

\* Where a buffer is searched from: with an argument, all of it.
Begin(b, argp) == IF argp THEN btostart(b) ELSE b

\* replaceone starts at the point of b, and is done.
StartOne(b, type) ==
  LET f == bmrktopnt(b, prevmatch) IN IF type = REGEXP THEN bmrktopnt(f, REstart) ELSE f

EndedOne(b) == bdelmark(bdelmark(b, prevmatch), REstart)

\* doreplace is done: the point goes back to where it was.
Finish(bs, c) ==
  /\ bufs' = [bs EXCEPT ![c.save] = bdelmark(bpnttomrk(@, pmark), pmark)]
  /\ cur' = c.save
  /\ cmd' = NoCmd
  /\ Remember("replace", 0, c.found)
  /\ UNCHANGED <<part, exact, olds, news, searchdir, was>>

\* promptreplace and doreplace, with str to be replaced by new.  Aborting the
\* second prompt is taken for an empty answer.
Replace(type, argp, str, new, abort) ==
  LET here  == [bufs EXCEPT ![cur] = bmrktopnt(@, pmark)]
      first == IF argp THEN 1 ELSE cur
  IN /\ Ready("replace")
     /\ olds' = str
     /\ news' = IF abort THEN <<>> ELSE new
     /\ was' = bufs
     /\ UNCHANGED <<part, exact, kill, searchdir>>
     /\ IF type = REGEXP /\ ~ re_compiles(str)
        THEN Remember("replace", 0, FALSE) /\ UNCHANGED <<bufs, cur, cmd>>
        ELSE /\ cmd' = [op |-> "replace", at |-> "next", type |-> type, all |-> argp,
                        query |-> type # Forward, exit |-> FALSE, found |-> FALSE,
                        change |-> FALSE, dirty |-> FALSE, save |-> cur, keys |-> 0,
                        place |-> bufs[first].point]
             /\ bufs' = [here EXCEPT ![first] = StartOne(Begin(@, argp), type)]
             /\ cur' = first
             /\ UNCHANGED last

\* replaceone is done, in buffer b.  With an argument it runs once more if it has
\* found anything, and then in the next buffer; a buffer that is left gets its
\* point from a mark that has not moved with the text (tmark is not on the list).
EndOne(b) ==
  LET left == EndedOne(b)
      next == cur + 1
      Left(p) == [bufs EXCEPT ![cur] = Goto(left, p)]
      none == [cmd EXCEPT !.found = FALSE, !.change = FALSE]
  IN CASE ~ cmd.all -> Finish([bufs EXCEPT ![cur] = left], cmd)
       [] cmd.all /\ cmd.found /\ ~ cmd.exit -> Goes(none, StartOne(left, cmd.type))
       [] OTHER ->
            \E p \in IF cmd.dirty THEN 0 .. Length(left) ELSE {cmd.place} :
              IF cmd.exit \/ next \notin DOMAIN bufs THEN Finish(Left(p), cmd)
              ELSE /\ bufs' = [Left(p) EXCEPT ![next] = StartOne(Begin(@, TRUE), cmd.type)]
                   /\ cur' = next
                   /\ cmd' = [none EXCEPT !.dirty = FALSE, !.place = bufs[next].point]
                   /\ UNCHANGED <<part, exact, olds, news, searchdir, last, was>>

\* The end of an iteration: behind a match at the end of a line, and for "^", the
\* point passes one byte more; a replacement that asks no questions stops if a key
\* was typed.
Iterated(c, b) ==
  LET crgone == Last(olds) = NL
      f == IF c.type = REGEXP /\ (Buff(b) = NL \/ circf(olds)) /\ ~ crgone THEN bmove1(b) ELSE b
  IN \E tkbrdy \in IF c.query THEN {FALSE} ELSE BOOLEAN :
       Goes([c EXCEPT !.at = "next", !.exit = @ \/ tkbrdy], f)

\* Change the match at the point of b.
Change(c, b, confirm) ==
  LET f     == bmrktopnt(b, prevmatch)
      match == Region(f, REstart)
      done  == [c EXCEPT !.found = TRUE, !.change = TRUE, !.dirty = TRUE]
      Made(g) == IF c.query /\ confirm THEN Goes([done EXCEPT !.at = "confirm"], g)
                 ELSE Iterated(done, g)
  IN /\ Length(b) <= MaxText
     /\ \/ /\ c.type = REGEXP
           /\ kill' = match
           /\ \E g \in {Ins(bdeltomrk(f, REstart), s) : s \in Expand(news, match)} : Made(g)
        \/ /\ c.type # REGEXP
           /\ UNCHANGED kill
           /\ \E g \in {Ins(bdelete(f, Len(olds)), s) : s \in Formatted(news)} : Made(g)

\* The next match; an ordinary one starts where the point is put.
next_replace ==
  IF cmd.type = REGEXP THEN re_step(e, olds, REstart)
  ELSE LET r == bstrsearch(e, olds, Forward)
       IN IF r.found THEN Result(bmove(r.e, - Len(olds)), TRUE) ELSE r

Stands(where) == cmd.op = "replace" /\ cmd.at = where

NoMatch ==
  /\ Stands("next")
  /\ \E r \in IF cmd.exit THEN {Result(e, FALSE)} ELSE {next_replace} : ~ r.found /\ EndOne(r.e)
  /\ UNCHANGED kill

ChangeMatch ==
  /\ Stands("next") /\ ~ cmd.exit /\ ~ cmd.query
  /\ \E r \in {next_replace} : r.found /\ Change(cmd, r.e, FALSE)

Offer ==
  /\ Stands("next") /\ ~ cmd.exit /\ cmd.query
  /\ cmd' = [cmd EXCEPT !.at = "ask", !.found = TRUE]
  /\ \E r \in {next_replace} : r.found /\ bufs' = [bufs EXCEPT ![cur] = r.e]
  /\ was' = bufs'
  /\ UNCHANGED <<part, exact, cur, kill, olds, news, searchdir, last>>

\* "y", ".", "," with its second question, and "!".
Answer_yes(key) ==
  /\ Stands("ask")
  /\ Change([cmd EXCEPT !.exit = key = ".", !.query = key # "!"], e, key = ",")

Answer_no ==
  /\ Stands("ask")
  /\ Goes([cmd EXCEPT !.at = "next", !.change = FALSE], bmove1(bmrktopnt(e, prevmatch)))
  /\ UNCHANGED kill

\* "q", "s" and the abort key, all alike.
Answer_quit ==
  /\ Stands("ask")
  /\ Goes([cmd EXCEPT !.at = "next", !.exit = TRUE], e)
  /\ UNCHANGED kill

\* The length of a string in bytes: a conversion is two.
strlen(s) == Len(s) + Cardinality({i \in DOMAIN s : s[i] = "%d"})

\* "u": back to the match before, whose change is undone, and which is offered.
Answer_undo ==
  /\ Stands("ask") /\ cmd.type # REGEXP /\ Length(e) <= MaxText
  /\ LET b == bpnttomrk(e, prevmatch)
         Back(g) == cmd' = [cmd EXCEPT !.dirty = @ \/ cmd.change] /\ bufs' = [bufs EXCEPT ![cur] = g]
     IN \/ ~ cmd.change /\ Back(b)
        \/ /\ cmd.change
           /\ \E s \in Formatted(olds) :
                Back(bpnttomrk(Ins(bdelete(b, strlen(news)), s), prevmatch))
  /\ was' = bufs'
  /\ UNCHANGED <<part, exact, cur, kill, olds, news, searchdir, last>>

Confirm_yes == Stands("confirm") /\ Iterated(cmd, e) /\ UNCHANGED kill

\* Confirm_no with a bug: one byte too many is deleted.
Confirm_no_far ==
  /\ Stands("confirm")
  /\ \E s \in Formatted(olds) :
       Iterated(cmd, Ins(bdelete(bmove(e, - strlen(news)), strlen(news) + 1), s))
  /\ UNCHANGED kill

\* Change it back: what was killed, or what was searched for.
Confirm_no ==
  /\ Stands("confirm")
  /\ \/ /\ cmd.type = REGEXP
        /\ Iterated(cmd, Ins(bdelete(bpnttomrk(e, REstart), e.point - e.mark[REstart]), kill))
     \/ /\ cmd.type # REGEXP
        /\ \E s \in Formatted(olds) :
             Iterated(cmd, Ins(bdelete(bmove(e, - strlen(news)), strlen(news)), s))
  /\ UNCHANGED kill

-----------------------------------------------------------------------------
Searching ==
  /\ part \in {"find", "refind"}
  /\ \/ \E n \in 1 .. 2 :
          \/ \E str \in Strings(part), dir \in IF part = "find" THEN {Forward, Backward} ELSE {REGEXP} :
               Find(dir, str, n)
          \/ Zagain(n)
          \/ part = "find" /\ Zword_search(n)
     \/ Find_nothing
     \/ Hang

Incremental ==
  /\ part = "isearch"
  /\ \/ Isearch
     \/ \E ch \in {"a", "b"} : Typed(ch)
     \/ Next_match
     \/ Rubout
     \/ \E abort \in BOOLEAN : Isearch_end(abort)

Replacing ==
  /\ part \in {"replace", "query", "rereplace"}
  /\ \/ \E argp, abort \in BOOLEAN, str \in Strings(part), new \in News(part),
           type \in CASE part = "replace" -> {Forward}
                      [] part = "query"   -> {QUERY}
                      [] OTHER            -> {REGEXP} :
          (abort => new = <<>>) /\ Replace(type, argp, str, new, abort)
     \/ \E key \in {"y", ".", ",", "!"} : Answer_yes(key)
     \/ Answer_no
     \/ Answer_quit
     \/ Answer_undo
     \/ Confirm_yes
     \/ Confirm_no

\* What a replacement does by itself.
ReplaceStep == NoMatch \/ ChangeMatch \/ Offer

Next == Searching \/ Incremental \/ Replacing \/ ReplaceStep

Spec == Init /\ [][Next]_vars

-----------------------------------------------------------------------------
(* Properties. *)

Matches(s, str) == \A i \in DOMAIN str : bequal(s[i], str[i], exact)

\* The places of b where str is, and those where bm_search takes a match to end:
\* past the start of the buffer it compares the first byte again, and at its end
\* the byte behind.
Occurrences(b, str) ==
  {q \in 0 .. Length(b) - Len(str) : Matches(SubSeq(b.text, q + 1, q + Len(str)), str)}

Ends(b, str) ==
  {p \in b.point .. Length(b) :
     \A i \in 0 .. Len(str) - 1 : bequal(At(b, Max({p - i, 0})), str[Len(str) - i], exact)}

\* bm_search finds str only where it is, ahead of b's point.
NoStray(b, str) ==
  \A p \in Ends(b, str) : p < Length(b) /\ p >= b.point + Len(str) - 1

\* No command leaves a mark behind, and the points are in their texts.
TypeOK ==
  /\ \A b \in DOMAIN bufs : bufs[b].point \in 0 .. Length(bufs[b])
  /\ Idle => \A b \in DOMAIN bufs, m \in MarkName : bufs[b].mark[m] = NIL
  /\ cur \in DOMAIN bufs /\ exact \in BOOLEAN
  /\ Len(olds) <= STRMAX

\* A search command of one match for an ordinary string runs.
Plain ==
  /\ last'.op \in {"find", "again"} /\ last' # last /\ olds' # <<>> /\ last'.n = 1
  /\ searchdir'.dir # REGEXP

From == IF last'.op = "again" /\ searchdir.wrap THEN btostart(e) ELSE e

\* Whatever the skips of Boyer-Moore, no search passes over the string or misses
\* one that lies ahead, or, going backward, all before the point.  Going backward,
\* the one at the start of the buffer is missed if a shift leads there.
StringNotMissed ==
  [][Plain =>
       LET ahead  == {q \in Occurrences(e, olds') : q >= From.point}
           behind == {q \in Occurrences(e, olds') : 0 < q /\ q + Len(olds') <= From.point}
       IN IF searchdir'.dir = Forward
          THEN ahead # {} => last'.found /\ e'.point <= Min(ahead) + Len(olds')
          ELSE behind # {} => last'.found /\ e'.point >= Max(behind)]_vars

\* Searching again after a search that found nothing finds the string wherever it
\* is in the buffer: the wrap flag is set once and used once.  A search backward
\* is left out, which starts again at the start and looks no further.
AgainComesRound ==
  [][(last'.op = "again" /\ last' # last /\ last.op = "again" /\ ~ last.found
      /\ searchdir.dir = Forward /\ Occurrences(e, olds) # {}) => last'.found]_vars

\* The lines of the buffer that end in a newline, from place p on: where each
\* begins and ends.
LinesFrom(p) ==
  LET Nls == {i \in p .. Length(e) - 1 : e.text[i + 1] = NL}
  IN {<<Max({p} \cup {i + 1 : i \in {j \in Nls : j < t}}), t>> : t \in Nls}

\* A regular expression search passes over no line that has a match, "^" and what
\* the point has left behind of its line taken for what they are.
LineNotMissed ==
  [][(last'.op \in {"find", "again"} /\ last' # last /\ olds' # <<>> /\ last'.n = 1
      /\ searchdir'.dir = REGEXP /\ re_compiles(olds')) =>
       \A l \in LinesFrom(From.point) :
         (regexec(olds', SubSeq(e.text, l[1] + 1, l[2])) # {}
          /\ (circf(olds') => bpeek(Goto(e, l[1])) = NL))
         => last'.found /\ e'.point <= l[2]]_vars

\* Whatever a search is for, what it looks for is not passed over: bm_search,
\* bm_rsearch and re_step find the first one there is.
NoneMissed == StringNotMissed /\ LineNotMissed

\* During an incremental search the point is behind the string it shows, also after
\* a byte that was not found and one rubbed out; the string must have been typed
\* and found where it is.
ShownIsFound ==
  /\ TypeOK
  /\ (cmd.op = "isearch" /\ cmd.str # <<>> /\ cmd.own
      /\ \A i \in 1 .. Len(cmd.str) : NoStray(btostart(e), SubSeq(cmd.str, 1, i)))
     => e.point - Len(cmd.str) \in Occurrences(e, cmd.str)

\* What replacing every match of str in s gives.
Replaced(s, str, new) ==
  LET from[p \in 0 .. Len(s)] ==
        CASE p + Len(str) > Len(s) -> SubSeq(s, p + 1, Len(s))
          [] Matches(SubSeq(s, p + 1, p + Len(str)), str) -> new \o from[p + Len(str)]
          [] OTHER -> <<s[p + 1]>> \o from[p + 1]
  IN from[0]

\* A replacement of str by new cannot make a new match with what is before it.
Apart(str, new) ==
  Len(str) = 1 \/ (new # <<>> /\ \A i \in DOMAIN str, j \in DOMAIN new :
                                   ~ bequal(new[j], str[i], exact))

\* Replacing without questions, and not stopped by a key, changes each match ahead
\* of the point once, in all buffers if asked to, and leaves the user where he was.
ReplacesAll ==
  [][(cmd.op = "replace" /\ Idle' /\ cmd.type = Forward /\ ~ cmd.exit
      /\ Apart(olds, news) /\ news \in Formatted(news)
      /\ \A b \in DOMAIN was :
           NoStray(IF cmd.all THEN btostart(was[b]) ELSE was[b], olds)) =>
       /\ \A b \in IF cmd.all THEN DOMAIN bufs ELSE {cmd.save} :
            LET p == IF cmd.all THEN 0 ELSE was[b].point
            IN bufs'[b].text = SubSeq(was[b].text, 1, p)
                 \o Replaced(SubSeq(was[b].text, p + 1, Length(was[b])), olds, news)
       /\ cur' = cmd.save
       /\ cmd.all \/ bufs'[cur'].point = was[cur'].point]_vars

\* A change that is not confirmed is taken back: the text is as it was when the
\* match was offered.  What was not an exact match comes back as it was typed.
RefusedIsRestored ==
  [][(Stands("confirm") /\ news \in Formatted(news)
      /\ (cmd.type # REGEXP => /\ exact /\ e.mark[prevmatch] = was[cur].point
                               /\ was[cur].point \in Occurrences(was[cur], olds))) =>
       e'.text \in {e.text, was[cur].text}]_vars

=============================================================================
