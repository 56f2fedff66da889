------------------------------- MODULE Prompt -------------------------------
(***************************************************************************)
(* The prompt line (src/getarg.c, src/getfname.c): a question is asked,    *)
(* the editor runs on the buffer Paw until it is answered or aborted, and  *)
(* what is there is the answer.  A plain question takes any text up to     *)
(* Pawlen columns, getplete one of a sorted array of names, which Tab and  *)
(* Return complete, and getfname a path.  The calculator (module Calc) is  *)
(* a plain question whose answer is an expression.                         *)
(***************************************************************************)
EXTENDS FlatText, Paths, Calc

CONSTANTS
  Parts,    \* the instances to check: "plain", "names", "file", "path" and "calc"
  Arrays,   \* the arrays getplete may be given
  Defaults(_), \* what the answer may be before it is asked for, for each part
  Keys(_),     \* the characters typed in each part
  Yanks(_),    \* what may be in the kill buffer in each part
  Exprs,    \* expressions for the calculator
  Cwds,     \* the current directories
  PAWMAX,   \* bound: the columns of an answer, STRMAX and PATHMAX in the code
  MaxKeys(_)   \* bound: keys of one answer, for each part

VARIABLES
  part,    \* history: the instance chosen
  cwd,     \* the current directory
  Carray,  \* the names to choose from; Cnum is their number
  arg,     \* the argument before the question
  e,       \* the buffer Paw
  First,   \* nothing has been typed yet
  InPaw,   \* TRUE, FALSE or "abort" in the code
  Cret,    \* the name chosen, 0 for -1
  path,    \* history: what the user answered, and what it was made into
  keys     \* history: keys so far

vars == <<part, cwd, Carray, arg, e, First, InPaw, Cret, path, keys, calc>>

Cnum   == Len(Carray)
Pawlen == PAWMAX
NoPath == [asked |-> <<>>, rc |-> OK, to |-> <<>>]

Lowered(s) == [i \in DOMAIN s |-> tolower(s[i])]
strcasecmp(s, t)     == strcmp(Lowered(s), Lowered(t))
strncasecmp(s, t, n) == strncmp(Lowered(s), Lowered(t), n)

makepaw(text, start) == LET f == Ins(bempty(e), text) IN IF start THEN btostart(f) ELSE f

Init ==
  /\ part \in Parts /\ cwd \in IF part \in {"file", "path"} THEN Cwds ELSE {Home}
  /\ Carray \in IF part = "names" THEN Arrays ELSE {<<>>}
  /\ arg \in Defaults(part)
  /\ LET point == IF part \in {"file", "path"} THEN Len(arg) ELSE 0
     IN e = [text |-> arg, point |-> point, mark |-> [m \in MarkName |-> NIL], junk |-> "NUL"]
  /\ First = (part \notin {"file", "path"})
  /\ InPaw = "asking" /\ Cret \in {0, Cnum} /\ path = NoPath /\ keys = 0
  /\ calc = Idle

\* Every key but the one that answers.
Editing(f) ==
  /\ InPaw = "asking" /\ keys < MaxKeys(part) /\ keys' = keys + 1
  /\ e' = f /\ First' = FALSE
  /\ UNCHANGED <<part, cwd, Carray, arg, InPaw, path, calc>>

-----------------------------------------------------------------------------
(* Typing. *)

\* What is pushed past the end goes; the mark that leads back is not one of
\* the buffer's.
pinsert(f, ch) ==
  LET width == chwidth(ch, bgetcol(f, FALSE), FALSE)
      g     == binsert(f, ch)
      last  == btoend(g)
  IN CASE bgetcol(f, FALSE) + width > Pawlen -> f
       [] bgetcol(f, FALSE) + width <= Pawlen ->
            IF bgetcol(last, FALSE) <= Pawlen THEN g
            ELSE Goto(bdelete(bmove(last, - width), width), g.point)

Fresh == IF First THEN bempty(e) ELSE e

Typed(ch) ==
  /\ part \notin {"file", "path"} \/ ch \notin {"/", "~"}
  /\ Editing(pinsert(Fresh, ch)) /\ UNCHANGED Cret

\* A second slash, or a tilde, begins the path anew.
Slash == part = "file" /\ Editing(pinsert(IF bpeek(e) = "/" THEN bempty(e) ELSE e, "/")) /\ UNCHANGED Cret
Tilde == part = "file" /\ Editing(pinsert(bempty(e), "~")) /\ UNCHANGED Cret

Zyank(text) == Editing(Ins(Fresh, text)) /\ UNCHANGED Cret

Zdelete_previous_char ==
  ~ bisstart(e) /\ Editing(bdelete(bmove(e, -1), 1)) /\ UNCHANGED Cret

Zbeginning_of_line == Editing(btostart(e)) /\ UNCHANGED Cret

-----------------------------------------------------------------------------
(* Names. *)

\* nmatch with a bug: it tells capitals from small letters.
nmatch_exact(s, t) == Max({n \in 0 .. Min({Len(s), Len(t)}) : SubSeq(s, 1, n) = SubSeq(t, 1, n)})

\* The length of what two names begin with; two that differ only in their
\* letters' case would be compared past their ends.
nmatch(s, t) ==
  Max({n \in 0 .. Min({Len(s), Len(t)}) : Lowered(SubSeq(s, 1, n)) = Lowered(SubSeq(t, 1, n))})

\* The array is read up to the first name behind the text.
Seen(cmd) ==
  LET Behind_cmd == {i \in 1 .. Cnum : strncasecmp(Carray[i], cmd, Len(cmd)) > 0}
  IN 1 .. Min(Behind_cmd \cup {Cnum + 1}) - 1

\* Tab: as far as the first and the last name that match are the same.  If that
\* is no further than the text the names are shown, if there is none the bell
\* rings.
pcmdplete ==
  /\ Cnum > 0
  /\ LET cmd   == e.text
         Match == {i \in Seen(cmd) : strncasecmp(Carray[i], cmd, Len(cmd)) = 0}
         mstr  == Carray[Min(Match)]
         len1  == IF Cardinality(Match) = 1 THEN Len(mstr) ELSE nmatch(mstr, Carray[Max(Match)])
         shown == Match # {} /\ len1 = Len(cmd)
     IN /\ Cret' = IF Cardinality(Match) = 1 /\ ~ shown THEN Min(Match) ELSE 0
        /\ Editing(IF Match = {} \/ shown THEN e ELSE makepaw(SubSeq(mstr, 1, len1), FALSE))

\* switchto_part: the buffer behind the one that is named, the first for any
\* other text.  The list of buffers is in another order than their names.
Zpart ==
  /\ part = "names"
  /\ LET list == Reverse(Carray)
         here == {i \in DOMAIN list : list[i] = e.text /\ i < Len(list)}
     IN Editing(makepaw(list[IF here = {} THEN 1 ELSE Min(here) + 1], TRUE))
  /\ UNCHANGED Cret

-----------------------------------------------------------------------------
(* Paths. *)

\* The directory whose names are listed for a path.
Directory(dir) ==
  CASE UpToLast(dir) = 0 -> <<".", "/">>
    [] UpToLast(dir) = 1 -> <<"/">>
    [] OTHER             -> SubSeq(dir, 1, UpToLast(dir) - 1)

\* The places of the names that begin with fname; the list is read up to the
\* first name behind it.
Matching(list, fname) ==
  LET After == {i \in DOMAIN list : strncmp(list[i], fname, Len(fname)) > 0}
  IN {i \in 1 .. Min(After \cup {Len(list) + 1}) - 1 : fname # <<>> /\ IsPrefix(fname, list[i])}

\* As far as the first and the last name that match are the same, and as there
\* is room.
Completed(f, fname, list, Match) ==
  LET first == list[Min(Match)]
      n     == IF Cardinality(Match) = 1 THEN Len(first) ELSE nmatch(first, list[Max(Match)])
      room  == Max({0, Pawlen - Length(f)})
      more  == SubSeq(first, Len(fname) + 1, Min({n, Len(fname) + room}))
  IN IF more = <<>> THEN f ELSE Ins(btoend(f), more)

\* A slash is put behind the name of a directory.
Slashed(f, alone) ==
  IF alone /\ isdir(f.text, cwd) /\ Length(f) < Pawlen THEN binsert(f, "/") ELSE f

\* Tab in a path: it is fixed up, and its last name is completed from the list
\* of the directory.
Zfname ==
  /\ part = "file"
  /\ \E r \in {pathfixup(e.text, cwd)} : \E list \in {fill_list(Directory(r.to), cwd)} :
       LET fname == lastpart(r.to)
           Match == Matching(list, fname)
           f     == IF r.to # e.text THEN makepaw(r.to, FALSE) ELSE e
       IN Editing(CASE r.rc > 0                 -> e
                    [] r.rc <= 0 /\ Match = {} -> f
                    [] r.rc <= 0 /\ Match # {} ->
                         Slashed(Completed(f, fname, list, Match), Cardinality(Match) = 1))
  /\ UNCHANGED Cret

-----------------------------------------------------------------------------
(* Answers. *)

Ended(how) ==
  /\ InPaw = "asking" /\ InPaw' = how /\ First' = FALSE
  /\ UNCHANGED <<part, cwd, Carray, e, keys, calc>>

\* pnewline with a bug: the last of several names that match is taken.
pnewline_some ==
  LET Match == {i \in 1 .. Cnum : strncasecmp(e.text, Carray[i], Length(e)) = 0}
      Exact == {i \in Match : strcasecmp(e.text, Carray[i]) = 0}
  IN CASE Exact # {} -> {Min(Exact)}
       [] Exact = {} -> IF Match = {} THEN {} ELSE {Max(Match)}

\* Return with names to choose from: the names that may be taken, none if the
\* text is not one of them and not the beginning of one alone.
pnewline ==
  LET Match == {i \in 1 .. Cnum : strncasecmp(e.text, Carray[i], Length(e)) = 0}
      Exact == {i \in Match : strcasecmp(e.text, Carray[i]) = 0}
  IN CASE Exact # {} -> {Min(Exact)}
       [] Exact = {} -> IF Cardinality(Match) = 1 THEN Match ELSE {}

\* Return: the text is the answer, an empty one is none.
getarg == e.text # <<>>

getplete ==
  /\ part = "names"
  /\ \E i \in pnewline : Cret' = IF getarg THEN i ELSE 0
  /\ Ended("answered") /\ UNCHANGED <<arg, path>>

plain ==
  /\ part = "plain"
  /\ Ended("answered") /\ arg' = e.text /\ UNCHANGED <<Cret, path>>

\* A path that is a directory, or cannot be, is refused.
getfname ==
  /\ part \in {"file", "path"}
  /\ Ended("answered") /\ UNCHANGED <<Cret, arg>>
  /\ LET r == pathfixup(e.text, cwd)
     IN path' = IF ~ getarg THEN [NoPath EXCEPT !.rc = BAD]
                ELSE [asked |-> e.text, rc |-> IF r.rc = DIR THEN BAD ELSE r.rc, to |-> r.to]

\* The abort key: the argument is left as it was.
Zabort ==
  /\ Ended("aborted") /\ Cret' = (IF part = "names" THEN 0 ELSE Cret) /\ UNCHANGED <<arg, path>>

Calculate(x) ==
  /\ InPaw' = "answered"
  /\ Zcalc(x) /\ UNCHANGED <<part, cwd, Carray, arg, e, First, Cret, path, keys>>

Calculating ==
  /\ Shift \/ Reduce \/ Result
  /\ UNCHANGED <<part, cwd, Carray, arg, e, First, InPaw, Cret, path, keys>>

Next ==
  \/ \E ch \in Keys(part) : Typed(ch)
  \/ Slash
  \/ Tilde
  \/ keys < MaxKeys(part) /\ \E text \in Yanks(part) : Zyank(text)
  \/ part \in {"plain", "names"} /\ Zdelete_previous_char
  \/ part \in {"plain", "names", "file"} /\ Zbeginning_of_line
  \/ pcmdplete
  \/ Zpart
  \/ Zfname
  \/ getplete
  \/ plain
  \/ getfname
  \/ part # "calc" /\ Zabort
  \/ part = "calc" /\ InPaw = "asking" /\ \E x \in Exprs : Calculate(x)
  \/ Calculating

Spec == Init /\ [][Next]_vars

-----------------------------------------------------------------------------
(* Properties. *)

\* The name that getplete returns is the one that was typed, in capitals or
\* small letters, or the only one that begins with what was typed; an aborted
\* or empty answer is no name, whatever the prompts before have left in Cret.
\* The point never leaves the text.
PickedIsNamed ==
  /\ e.point \in 0 .. Length(e)
  /\ part = "names" /\ InPaw = "aborted" => Cret = 0
  /\ part = "names" /\ InPaw = "answered" =>
       LET typed == Lowered(e.text)
           Named_so == {i \in 1 .. Cnum : Lowered(Carray[i]) = typed}
           Begin_so == {i \in 1 .. Cnum : IsPrefix(typed, Lowered(Carray[i]))}
       IN CASE typed = <<>>                     -> Cret = 0
            [] typed # <<>> /\ Named_so # {}    -> Cret \in Named_so
            [] typed # <<>> /\ Named_so = {}    -> {Cret} = Begin_so

\* The names on a path: from the last double slash on, behind the user's, the
\* variable's or the current directory.
Walk(x)  == Split(Rest(Restart(x)))
Base(x)  == Split(CHOOSE b \in Prefix(Restart(x), cwd) : TRUE)
Canon(x) == Steps(Walk(x), Base(x))

\* A user or variable that there is, no way above the root (a comment in the
\* code leaves that out), and no name but . and .. that ends in a dot.
Sound(x) ==
  /\ Prefix(Restart(x), cwd) # {}
  /\ \A k \in DOMAIN Walk(x) : Walk(x)[k] = <<".", ".">> => Steps(SubSeq(Walk(x), 1, k - 1), Base(x)) # <<>>
  /\ \A k \in DOMAIN Walk(x) : Last(Walk(x)[k]) = "." => Walk(x)[k] \in {<<".">>, <<".", ".">>}

\* Tab completes as far as all names that begin with the text agree, not less
\* and not more, and keeps what was typed if there are none: getplete in its
\* array, in which the loop may stop early, getfname in the directory that the
\* rest of the path leads to, where . and object files do not count.  A path
\* that has no room is left out, and a new name right under the root, which
\* pathfixup takes for an invalid one.
CompletesAll ==
  [][/\ pcmdplete =>
          LET typed == Lowered(e.text)
              Begin_so == {s \in {Lowered(Carray[i]) : i \in 1 .. Cnum} : IsPrefix(typed, s)}
          IN IF Begin_so = {} THEN e'.text = e.text
             ELSE Lowered(e'.text) = LongestCommonPrefix(Begin_so)
     /\ Zfname /\ Sound(e.text) /\ bisend(e) /\ lastpart(e.text) \notin {<<>>, <<".">>, <<".", ".">>}
               /\ e.text[1] # "$" /\ (e.text[1] = "~" => Slashes(e.text) # {}) =>
          LET dir  == Front(Canon(e.text))
              Begin_so == {s \in Names(dir) : IsPrefix(Last(Canon(e.text)), s) /\ ~ isobj(s)}
              goal == LongestCommonPrefix(Begin_so)
          IN CASE Begin_so = {} -> Canon(e'.text) = Canon(e.text)
               [] Begin_so # {} ->
                    \/ dir = <<>> /\ Canon(e.text) \notin DOMAIN Tree
                    \/ Length(e)' >= Pawlen
                    \/ /\ Split(e'.text) = Append(dir, goal)
                       /\ (Last(e'.text) = "/") =
                            (Cardinality(Begin_so) = 1 /\ Tree[Append(dir, goal)] = "dir")]_vars

\* The path a prompt returns names the file the user's path does, step by step,
\* and is taken exactly if that is a file or a new one in a directory.
PathFixed ==
  InPaw = "answered" /\ path.asked # <<>> /\ Sound(path.asked) =>
    LET x     == path.asked
        file  == Canon(x)
        below == file # <<>> /\ Front(file) # <<>>
        isnew == file \notin DOMAIN Tree /\ below /\ Front(file) \in DOMAIN Tree /\ Tree[Front(file)] = "dir"
        isold == file \in DOMAIN Tree /\ Tree[file] = "file"
    IN /\ SelectSeq(Split(path.to), LAMBDA name : name # <<".">>) = file
       /\ Last(x) \notin {"/", "."} /\ below => (path.rc = OK <=> isnew \/ isold)
=============================================================================
