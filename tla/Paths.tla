-------------------------------- MODULE Paths --------------------------------
(***************************************************************************)
(* The file names of the prompt line (src/getfname.c): what pathfixup      *)
(* makes of a path the user typed, and the sorted list of a directory's    *)
(* names that a name is completed from.  A path is a sequence of           *)
(* characters; the file system is a function from sequences of names to    *)
(* "dir" or "file", which does not change while a prompt is open.          *)
(***************************************************************************)
EXTENDS Integers, Sequences, FiniteSets, SequencesExt, FiniteSetsExt

CONSTANTS
  Tree,  \* what there is on the disk, the root being <<>>
  Users, \* the password file: a sequence of records [name, dir]
  Home,  \* the user's own directory
  Env    \* the environment: a function from names to paths

DIR == -1  \* what pathfixup returns for a directory, a path that cannot be,
OK  == 0   \* and for the rest
BAD == 1
WHO == 2

-----------------------------------------------------------------------------
(* Strings. *)

\* The order of the characters, and of strings up to n characters: below 0,
\* 0 or above it.  Behind its end a string has a character below all others.
Order == <<".", "/", "A", "B", "a", "b", "c", "o", "~">>
Code(s, i) == IF i > Len(s) THEN 0 ELSE CHOOSE k \in DOMAIN Order : Order[k] = s[i]

strncmp(s, t, n) ==
  LET Differ == {i \in 1 .. n : Code(s, i) # Code(t, i)}
  IN IF Differ = {} THEN 0 ELSE Code(s, Min(Differ)) - Code(t, Min(Differ))

strcmp(s, t) == strncmp(s, t, Max({Len(s), Len(t)}))

\* The path up to its last slash, and what is behind it.
Slashes(s)  == {i \in DOMAIN s : s[i] = "/"}
UpToLast(s) == Max(Slashes(s) \cup {0})
lastpart(s) == SubSeq(s, UpToLast(s) + 1, Len(s))

\* Up to the first slash, which ends a user or a variable.
FirstPart(s) == SubSeq(s, 1, Min(Slashes(s) \cup {Len(s) + 1}) - 1)

-----------------------------------------------------------------------------
(* The disk. *)

Split(s) ==
  SelectSeq(FoldLeft(LAMBDA names, c : IF c = "/" THEN Append(names, <<>>)
                                       ELSE Append(Front(names), Append(Last(names), c)),
                     << <<>> >>, s),
            LAMBDA name : name # <<>>)

\* The names on the way to a path, "." and ".." followed; above the root is the root.
Steps(names, from) ==
  FoldLeft(LAMBDA at, name : CASE name = <<".">>      -> at
                               [] name = <<".", ".">> -> IF at = <<>> THEN at ELSE Front(at)
                               [] OTHER               -> Append(at, name),
           from, names)

\* A file is no directory, even if the path ends in a slash.
stat(s, cwd) ==
  LET names == Steps(Split(s), IF s # <<>> /\ s[1] = "/" THEN <<>> ELSE Split(cwd))
  IN CASE s = <<>> \/ names \notin DOMAIN Tree      -> "none"
       [] s # <<>> /\ names \in DOMAIN Tree ->
            IF Tree[names] = "file" /\ Last(s) = "/" THEN "none" ELSE Tree[names]

isdir(s, cwd) == stat(s, cwd) = "dir"

\* What readdir gives.
Names(dir) == {<<".">>, <<".", ".">>} \cup {Last(f) : f \in {f \in DOMAIN Tree : f # <<>> /\ Front(f) = dir}}

isobj(name) ==
  LET Dots == {i \in DOMAIN name : name[i] = "."}
  IN Dots # {} /\ SubSeq(name, Max(Dots), Len(name)) = <<".", "o">>

\* Flist: add puts each name in its place; names are different, so the order
\* is all there is to say about it.
fill_list(dir, cwd) ==
  LET at == Steps(Split(dir), IF dir # <<>> /\ dir[1] = "/" THEN <<>> ELSE Split(cwd))
  IN IF ~ isdir(dir, cwd) THEN <<>>
     ELSE SetToSortSeq({name \in Names(at) : ~ isobj(name)}, LAMBDA s, t : strcmp(s, t) < 0)

-----------------------------------------------------------------------------
(* pathfixup. *)

zgetcwd(cwd) == Append(cwd, "/")

\* A user's directory: the name, or the first that begins with it.
zgetpwdir(name) ==
  LET Full  == {i \in DOMAIN Users : Users[i].name = name}
      Begin == {i \in DOMAIN Users : IsPrefix(name, Users[i].name)}
  IN CASE Full # {}                -> {Users[Min(Full)].dir}
       [] Full = {} /\ Begin # {}  -> {Users[Min(Begin)].dir}
       [] Full = {} /\ Begin = {}  -> {}

\* Where the last // begins, of which the second slash is kept.
Restart(from) ==
  LET Doubles == {i \in 1 .. Len(from) - 1 : from[i] = "/" /\ from[i + 1] = "/"}
  IN SubSeq(from, Max({i + 1 : i \in Doubles} \cup {1}), Len(from))

\* What comes before the name: a set that is empty if there is no such user or
\* variable.
Prefix(from, cwd) ==
  LET name == Tail(FirstPart(from))
  IN CASE from # <<>> /\ from[1] = "~" -> IF name = <<>> THEN {Home} ELSE zgetpwdir(name)
       [] from # <<>> /\ from[1] = "$" -> IF name \in DOMAIN Env THEN {Env[name]} ELSE {}
       [] from = <<>> \/ from[1] \notin {"~", "$"} ->
            IF from = <<>> \/ from[1] # "/" THEN {zgetcwd(cwd)} ELSE {<<>>}

Named(from) == from # <<>> /\ from[1] \in {"~", "$"}
Rest(from)  == IF Named(from) THEN SubSeq(from, Len(FirstPart(from)) + 1, Len(from)) ELSE from

\* DropLast with a bug: it does not step over the slash at the end.
DropLast_slash(to) == SubSeq(to, 1, Max({p \in 0 .. Len(to) - 1 : p = 0 \/ to[p + 1] = "/"} \cup {-1}) + 1)

\* Back over the slash at the end of "to" and the name before it.
DropLast(to) == SubSeq(to, 1, Max({p \in 0 .. Len(to) - 2 : p = 0 \/ to[p + 1] = "/"} \cup {-1}) + 1)

\* One character of the name; skip counts those that are already dealt with.
Copy(s, from, i) ==
  LET c == from[i]
      Ch(k) == IF k > Len(from) THEN "NUL" ELSE from[k]
  IN CASE s.skip > 0 -> [s EXCEPT !.skip = @ - 1]
       [] s.skip = 0 /\ c = "." /\ Ch(i + 1) = "/" -> [s EXCEPT !.skip = 1]
       [] s.skip = 0 /\ c = "." /\ Ch(i + 1) = "." /\ Ch(i + 2) \in {"/", "NUL"} ->
            [to |-> DropLast(s.to), skip |-> IF Ch(i + 2) = "/" THEN 2 ELSE 1]
       [] s.skip = 0 /\ c = "/" ->
            [s EXCEPT !.to = IF @ = <<>> \/ Last(@) # "/" THEN Append(@, "/") ELSE @]
       [] OTHER -> [s EXCEPT !.to = Append(@, c)]

\* Is the path a directory, a file, or a new file in a directory?
Validate(to, cwd) ==
  CASE stat(to, cwd) = "dir"  -> DIR
    [] stat(to, cwd) = "file" -> OK
    [] stat(to, cwd) = "none" ->
         IF Slashes(to) = {} \/ isdir(SubSeq(to, 1, UpToLast(to) - 1), cwd) THEN OK ELSE BAD

pathfixup(path, cwd) ==
  LET from == Restart(path)
      rest == Rest(from)
      Begin == Prefix(from, cwd)
  IN IF Begin = {} THEN [rc |-> WHO, to |-> <<>>]
     ELSE LET to == FoldLeft(LAMBDA s, i : Copy(s, rest, i),
                             [to |-> CHOOSE b \in Begin : TRUE, skip |-> 0],
                             [i \in DOMAIN rest |-> i]).to
          IN [rc |-> Validate(to, cwd), to |-> to]
=============================================================================
