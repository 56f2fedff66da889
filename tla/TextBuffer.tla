----------------------------- MODULE TextBuffer -----------------------------
(***************************************************************************)
(* What a zedit buffer promises its caller: a sequence of bytes, a point   *)
(* between two of them, and marks that keep their place in the text while  *)
(* it changes around them.  Pages do not exist here.                       *)
(***************************************************************************)
EXTENDS Integers, Sequences

CONSTANTS Byte, Mark, NIL

VARIABLES
  text,   \* the bytes of the buffer
  point,  \* how many bytes are before the point
  mark    \* how many bytes are before each mark; NIL: no such mark

textVars == <<text, point, mark>>

Place == 0 .. Len(text)

TextTypeOK ==
  /\ text \in Seq(Byte)
  /\ point \in Place
  /\ mark \in [Mark -> Place \cup {NIL}]

Init ==
  /\ text = <<>>
  /\ point = 0
  /\ mark = [m \in Mark |-> NIL]

\* The text without its bytes from + 1 .. to.
Without(from, to) == SubSeq(text, 1, from) \o SubSeq(text, to + 1, Len(text))

\* Where a place of the text is once the bytes from + 1 .. to are deleted.
Closed(place, from, to) ==
  CASE place = NIL -> NIL
    [] place # NIL /\ place <= from -> place
    [] place # NIL /\ place > from /\ place <= to -> from
    [] OTHER -> place - (to - from)

Cut(from, to) ==
  /\ text' = Without(from, to)
  /\ point' = from
  /\ mark' = [m \in Mark |-> Closed(mark[m], from, to)]

\* Insert a byte and move the point past it.  A mark at the point may end up
\* on either side of the byte.
Insert(ch) ==
  \E pushed \in SUBSET {m \in Mark : mark[m] = point} :
    /\ text' = SubSeq(text, 1, point) \o <<ch>> \o SubSeq(text, point + 1, Len(text))
    /\ point' = point + 1
    /\ mark' = [m \in Mark |->
                  IF mark[m] # NIL /\ (m \in pushed \/ mark[m] > point)
                  THEN mark[m] + 1 ELSE mark[m]]

\* Delete n bytes after the point, or all there are.
Delete(n) ==
  Cut(point, IF point + n <= Len(text) THEN point + n ELSE Len(text))

\* Delete the bytes between the point and a mark.
DeleteToMark(m) ==
  /\ mark[m] # NIL
  /\ IF point <= mark[m] THEN Cut(point, mark[m]) ELSE Cut(mark[m], point)

Empty ==
  /\ text' = <<>>
  /\ point' = 0
  /\ mark' = [m \in Mark |-> IF mark[m] = NIL THEN NIL ELSE 0]

\* Move the point by dist bytes, stopping at the ends of the text.
Move(dist) ==
  /\ point' = CASE point + dist < 0 -> 0
                [] point + dist > Len(text) -> Len(text)
                [] OTHER -> point + dist
  /\ UNCHANGED <<text, mark>>

SetMark(m) ==
  /\ mark' = [mark EXCEPT ![m] = point]
  /\ UNCHANGED <<text, point>>

DropMark(m) ==
  /\ mark' = [mark EXCEPT ![m] = NIL]
  /\ UNCHANGED <<text, point>>

PointToMark(m) ==
  /\ mark[m] # NIL
  /\ point' = mark[m]
  /\ UNCHANGED <<text, mark>>

SwapPoint(m) ==
  /\ mark[m] # NIL
  /\ point' = mark[m]
  /\ mark' = [mark EXCEPT ![m] = point]
  /\ UNCHANGED text

MarkToMark(m1, m2) ==
  /\ mark' = [mark EXCEPT ![m1] = mark[m2]]
  /\ UNCHANGED <<text, point>>

Next ==
  \/ \E ch \in Byte : Insert(ch)
  \/ \E n \in 1 .. Len(text) : Delete(n)
  \/ Empty
  \/ \E dist \in -Len(text) .. Len(text) : Move(dist)
  \/ \E m \in Mark :
       \/ DeleteToMark(m)
       \/ SetMark(m)
       \/ DropMark(m)
       \/ PointToMark(m)
       \/ SwapPoint(m)
       \/ \E m2 \in Mark : MarkToMark(m, m2)

Spec == Init /\ [][Next]_textVars
=============================================================================
