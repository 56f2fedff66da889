------------------------------ MODULE FindText ------------------------------
(***************************************************************************)
(* The searches of src/buff: Boyer-Moore forward and backward (bmsearch.c) *)
(* and regular expressions a line at a time (reg.c), on the buffer records *)
(* of FlatText.  A search returns the buffer with its point moved and      *)
(* whether it found the string.                                            *)
(*                                                                         *)
(* A regular expression is written as its bytes; "^", "$", "*" and "(" are *)
(* what they are to regcomp, which is not part of the program.             *)
(***************************************************************************)
EXTENDS FlatText

CONSTANT LINE  \* sizeof(line) in advance

ASSUME LineAssumption == LINE \in Nat \ {0}

Result(e, found) == [e |-> e, found |-> found]

bequal(c, ch, exact) == c = ch \/ (~ exact /\ tolower(c) = tolower(ch))

\* The places in str of bytes that equal c, counted from 0.
Where(str, exact, c) == {i \in 0 .. Len(str) - 1 : bequal(c, str[i + 1], exact)}

\* How far forward the next match may end, given the byte c at the point.
delta(str, exact, c) ==
  LET len == Len(str) - 1 IN Min({len - i : i \in Where(str, exact, c)} \cup {Max({len, 1})})

\* bm_search: the place it leaves the point at if it finds str, and -1.  The fast
\* loop skips to a byte that is the last of str, the slow loop goes back from there
\* while the bytes are those of str, up to byte i of it, counted from 0.
\* The byte at the point is the first that is compared with the last of str, so
\* that a match may begin before the point; backing up over the start of the
\* buffer compares its first byte again, and at the end there is one byte more.
Ahead_bm(e, str, exact, far) ==
  LET len     == Len(str) - 1
      end     == Length(e)
      d(p)    == delta(str, exact, At(e, p))
      Back(p, i) == Max({p - (len - i), 0})
      slow(p) == Max({i \in 0 .. len : ~ bequal(At(e, Back(p, i)), str[i + 1], exact)} \cup {-1})
      To(p)   == Min({p, end})
      shift(i, dist) == far + IF i + dist > len THEN dist ELSE len - i + 1
      fast[p \in 0 .. end] == IF p = end \/ d(p) = 0 THEN p ELSE fast[To(p + d(p))]
      loop[p \in 0 .. end] ==
        LET q == fast[p]
            i == slow(q)
            b == Back(q, i)
        IN CASE p = end             -> -1
             [] p < end /\ i = -1   -> To(Back(q, 0) + len + 1)
             [] OTHER               -> loop[To(b + shift(i, d(b)))]
  IN loop[e.point]

Searched_to(e, p, other) == IF p = -1 THEN Result(Goto(e, other), FALSE) ELSE Result(Goto(e, p), TRUE)

\* bm_search with a bug: it shifts one byte too far.
bm_search_far(e, str, exact) == Searched_to(e, Ahead_bm(e, str, exact, 1), Length(e))

bm_search(e, str, exact) == Searched_to(e, Ahead_bm(e, str, exact, 0), Length(e))

\* The same for bm_rsearch, whose delta is 0 or below, and which tries the start
\* of the buffer only if the fast loop stops there.
rdelta(str, exact, c) ==
  LET len == Len(str) - 1 IN Max({-i : i \in Where(str, exact, c)} \cup {Min({-len, -1})})

bm_rsearch(e, str, exact) ==
  LET end     == Length(e)
      d(p)    == rdelta(str, exact, At(e, p))
      On(p, i) == Min({p + i, end})
      slow(p) == Min({i \in 0 .. Len(str) - 1 :
                        ~ bequal(At(e, On(p, i)), str[i + 1], exact)} \cup {Len(str)})
      To(p)   == Max({p, 0})
      fast[p \in 0 .. end] == IF p = 0 \/ d(p) = 0 THEN p ELSE fast[To(p + d(p))]
      loop[p \in 0 .. end] ==
        LET q == fast[p]
            i == slow(q)
            b == On(q, i)
        IN CASE p = 0                     -> -1
             [] p > 0 /\ i = Len(str)     -> To(b - Len(str))
             [] OTHER -> loop[To(b + IF d(b) + i < 0 THEN d(b) ELSE - i - 1)]
  IN Searched_to(e, loop[To(e.point - (Len(str) - 1))], 0)

-----------------------------------------------------------------------------
(* Regular expressions. *)

re_compiles(re) == "(" \notin Range(re)
circf(re)       == re # <<>> /\ Head(re) = "^"

\* Where the matches of re that begin at place p of s may end; re has no "^".
MatchEnds(re, s, p) ==
  LET Here(i, j) == j < Len(s) /\ s[j + 1] = re[i]
      ends[i \in 1 .. Len(re) + 1, j \in 0 .. Len(s)] ==
        CASE i > Len(re)                       -> {j}
          [] i = Len(re) /\ re[i] = "$"        -> IF j = Len(s) THEN {j} ELSE {}
          [] i < Len(re) /\ re[i + 1] = "*"    ->
               ends[i + 2, j] \cup IF Here(i, j) THEN ends[i, j + 1] ELSE {}
          [] OTHER                             -> IF Here(i, j) THEN ends[i + 1, j + 1] ELSE {}
  IN ends[1, p]

\* The leftmost of the longest matches in a string, as regexec returns it:
\* {<<first, behind>>}, or {}.
regexec(re, s) ==
  LET Fits(i) == MatchEnds(IF circf(re) THEN Tail(re) ELSE re, s, i)
      Begins == {i \in (IF circf(re) THEN {0} ELSE 0 .. Len(s)) : Fits(i) # {}}
  IN IF Begins = {} THEN {}
     ELSE LET i == Min(Begins) IN {<<i, Max(Fits(i))>>}

\* What advance reads as the line of place p: on the last line, which may have no
\* newline, the byte behind the buffer over and over.
LineAt(e, p) ==
  LET Byte(k) == At(e, Min({p + k, Length(e)}))
      n == Min({k \in 0 .. LINE - 1 : Byte(k) = NL} \cup {LINE - 1})
  IN [k \in 1 .. n |-> Byte(k - 1)]

\* A C string ends at its first NUL.
CString(s) == SubSeq(s, 1, Min({i \in DOMAIN s : s[i] = "NUL"} \cup {Len(s) + 1}) - 1)

\* Step to the next match from the point of e: {<<its start, its end>>}, or {}.
\* "^" is tried at the next start of a line, also at the end of the buffer.
Step_re(e, re) ==
  LET To(p) == Min({p, Length(e)})
      step[p \in 0 .. Length(e)] ==
        LET q    == IF circf(re) /\ bpeek(Goto(e, p)) # NL THEN bcsearch(Goto(e, p), NL).point ELSE p
            line == LineAt(e, q)
            hit  == regexec(re, CString(line))
        IN CASE p = Length(e)             -> {}
             [] p < Length(e) /\ hit # {} ->
                  {LET so == To(q + h[1]) IN <<so, To(so + h[2] - h[1])>> : h \in hit}
             [] OTHER                     -> step[To(q + Max({1, Len(line)}))]
  IN step[e.point]

\* re_step, with the start of the match in mark m.
Stepped(e, hits, m) ==
  IF hits = {} THEN Result(bmrktopnt(btoend(e), m), FALSE)
  ELSE LET h == CHOOSE h \in hits : TRUE IN Result(Goto(bmrktopnt(Goto(e, h[1]), m), h[2]), TRUE)

re_step(e, re, m) == Stepped(e, Step_re(e, re), m)

=============================================================================
