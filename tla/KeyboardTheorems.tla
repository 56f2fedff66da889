-------------------------- MODULE KeyboardTheorems --------------------------
(***************************************************************************)
(* No byte from the keyboard is lost, doubled or returned out of order,    *)
(* for any table of special keys and any size of the ring the bursts fit.  *)
(*                                                                         *)
(* What the user typed and was not given yet, owed, lies in the ring and   *)
(* the terminal, and Lined says where: h bytes before cptr that the call   *)
(* in progress holds and may push back, then the unread ones, then those   *)
(* the terminal has.  Reading, taking, pushing back and returning each     *)
(* move that window; the lemmas say so once for any ring.                  *)
(***************************************************************************)
EXTENDS Keyboard, SequenceTheorems, TLAPS

-----------------------------------------------------------------------------
(* The wrap of cptr. *)

\* Division with remainder.
LEMMA Div ==
  ASSUME NEW C \in Nat \ {0}, NEW x \in Int
  PROVE  x % C \in 0 .. C - 1 /\ x \div C \in Int /\ x = C * (x \div C) + (x % C)
OBVIOUS

\* The remainder is the only one.
LEMMA Uniq ==
  ASSUME NEW C \in Nat \ {0}, NEW q \in Int, NEW r \in 0 .. C - 1
  PROVE  (C * q + r) % C = r
OBVIOUS

\* A slot is its own remainder, and so is the one a lap before it.
LEMMA Small ==
  ASSUME NEW C \in Nat \ {0}, NEW r \in 0 .. C - 1
  PROVE  r % C = r
OBVIOUS

\* Laps add up.
LEMMA Dist ==
  ASSUME NEW C \in Int, NEW x \in Int, NEW y \in Int
  PROVE  C * (x + y) = C * x + C * y
OBVIOUS

\* Whole laps do not matter.
LEMMA Laps ==
  ASSUME NEW C \in Nat \ {0}, NEW x \in Int, NEW q \in Int
  PROVE  (x + C * q) % C = x % C
<1> DEFINE d == x \div C
           r == x % C
<1>1. d \in Int /\ r \in 0 .. C - 1 /\ x = C * d + r BY Div
<1> HIDE DEF d, r
<1>2. C * q \in Int /\ C * d \in Int BY <1>1
<1>3. x + C * q = C * (d + q) + r BY <1>1, <1>2, Dist
<1>4. d + q \in Int BY <1>1
<1>5. (C * (d + q) + r) % C = r BY <1>1, <1>4, Uniq
<1> QED BY <1>3, <1>5 DEF r

\* A remainder can be taken before or after an addition.
LEMMA Add ==
  ASSUME NEW C \in Nat \ {0}, NEW x \in Int, NEW y \in Int
  PROVE  ((x % C) + y) % C = (x + y) % C
<1> DEFINE d == x \div C
           r == x % C
<1>1. d \in Int /\ r \in 0 .. C - 1 /\ x = C * d + r BY Div
<1> HIDE DEF d, r
<1>2. C * d \in Int BY <1>1
<1>3. x + y = (r + y) + C * d /\ r + y \in Int BY <1>1, <1>2
<1>4. (x + y) % C = (r + y) % C BY <1>1, <1>3, Laps
<1> QED BY <1>4 DEF r

\* The lap before.
LEMMA Before ==
  ASSUME NEW C \in Nat \ {0}, NEW i \in Int, -C <= i, i < 0
  PROVE  i % C = i + C
<1>1. i + C \in 0 .. C - 1 OBVIOUS
<1>2. \A q \in Int : (i + C * q) % C = i % C BY Laps
<1>3. PICK q \in Int : q = 1 OBVIOUS
<1>4. C * q = C BY <1>3
<1>5. (i + C) % C = i % C BY <1>2, <1>4
<1> QED BY <1>1, <1>5, Small

-----------------------------------------------------------------------------
(* The window on the bytes that are owed. *)

Rings == [cstack : [Slot -> Byte \cup {NUL}], cptr : Slot \cup {-1}, cpushed : 0 .. CSTACK]

Lined(r, t, h, o) ==
  /\ Len(o) = h + r.cpushed + Len(t)
  /\ h + r.cpushed <= CSTACK
  /\ \A k \in 1 .. h + r.cpushed : o[k] = tpeek(r, k - h)
  /\ \A k \in 1 .. Len(t) : o[h + r.cpushed + k] = t[k]

\* What a ring has.
LEMMA RingParts ==
  ASSUME NEW r \in Rings
  PROVE  /\ CSTACK \in Nat \ {0} /\ r.cptr \in Int /\ r.cpushed \in 0 .. CSTACK
         /\ r.cstack \in [Slot -> Byte \cup {NUL}]
<1>1. CSTACK \in Nat \ {0} BY CSTACKAssumption
<1>2. r.cptr \in Slot \cup {-1} /\ r.cpushed \in 0 .. CSTACK
      /\ r.cstack \in [Slot -> Byte \cup {NUL}]
  BY DEF Rings
<1> QED BY <1>1, <1>2 DEF Slot

\* cptr wraps.
LEMMA Wraps ==
  /\ \A x \in Int : x % CSTACK \in Slot
  /\ \A x, y \in Int : ((x % CSTACK) + y) % CSTACK = (x + y) % CSTACK
<1>1. CSTACK \in Nat \ {0} BY CSTACKAssumption
<1>2. \A x \in Int : x % CSTACK \in Slot BY <1>1, Div DEF Slot
<1>3. \A x, y \in Int : ((x % CSTACK) + y) % CSTACK = (x + y) % CSTACK BY <1>1, Add
<1> QED BY <1>2, <1>3

\* Another byte is typed.
LEMMA Typed ==
  ASSUME NEW r \in Rings, NEW t \in Seq(Byte), NEW o \in Seq(Byte), NEW h \in Nat,
         NEW b \in Byte, Lined(r, t, h, o)
  PROVE  Lined(r, Append(t, b), h, Append(o, b))
<1>1. r.cpushed \in Nat BY RingParts
<1>2. Len(Append(o, b)) = Len(o) + 1 /\ Len(Append(t, b)) = Len(t) + 1 OBVIOUS
<1>3. \A k \in 1 .. h + r.cpushed : Append(o, b)[k] = o[k]
  BY <1>1 DEF Lined
<1>4. ASSUME NEW k \in 1 .. Len(t) + 1
      PROVE  Append(o, b)[h + r.cpushed + k] = Append(t, b)[k]
  <2>1. CASE k = Len(t) + 1 BY <1>1, <2>1 DEF Lined
  <2>2. CASE k # Len(t) + 1
    <3>1. k \in 1 .. Len(t) BY <2>2
    <3>2. Append(t, b)[k] = t[k] BY <3>1
    <3>3. h + r.cpushed + k \in 1 .. Len(o) BY <1>1, <3>1 DEF Lined
    <3> QED BY <3>1, <3>2, <3>3 DEF Lined
  <2> QED BY <2>1, <2>2
<1>5. \A k \in 1 .. h + r.cpushed : Append(o, b)[k] = tpeek(r, k - h) BY <1>3 DEF Lined
<1>6. Len(Append(o, b)) = h + r.cpushed + Len(Append(t, b)) /\ h + r.cpushed <= CSTACK
  <2>1. Len(o) = h + r.cpushed + Len(t) /\ h + r.cpushed <= CSTACK BY DEF Lined
  <2>2. Len(t) \in Nat /\ Len(o) \in Nat OBVIOUS
  <2> QED BY <1>1, <1>2, <2>1, <2>2
<1>7. \A k \in 1 .. Len(Append(t, b)) : Append(o, b)[h + r.cpushed + k] = Append(t, b)[k]
  BY <1>2, <1>4
<1> QED BY <1>5, <1>6, <1>7 DEF Lined

\* When cptr moves by n, each byte is n places nearer.
LEMMA Moved ==
  ASSUME NEW r \in Rings, NEW g, NEW n \in Int, NEW h \in Int,
         g.cptr = (r.cptr + n) % CSTACK, g.cstack = r.cstack, NEW k \in Int
  PROVE  tpeek(g, k - (h + n)) = tpeek(r, k - h)
<1> DEFINE x == r.cptr + n
           y == k - (h + n)
<1>1. x \in Int /\ y \in Int /\ x + y = r.cptr + (k - h) BY RingParts
<1> HIDE DEF x, y
<1>2. ((x % CSTACK) + y) % CSTACK = (x + y) % CSTACK BY <1>1, Wraps
<1> QED BY <1>1, <1>2 DEF tpeek, x, y

\* A byte is taken from the ring.
LEMMA TakeUnread ==
  ASSUME NEW r \in Rings, NEW t \in Seq(Byte), NEW o \in Seq(Byte), NEW h \in Nat,
         Lined(r, t, h, o), r.cpushed # 0
  PROVE  /\ _tgetkb(r, t) \in Rings /\ Rest(r, t) = t
         /\ Lined(_tgetkb(r, t), t, h + 1, o)
<1> DEFINE p == (r.cptr + 1) % CSTACK
           c == r.cpushed
           g == _tgetkb(r, t)
<1>1. CSTACK \in Nat \ {0} /\ r.cptr \in Int /\ c \in 1 .. CSTACK
  BY RingParts
<1>2. p \in Slot
  <2>1. r.cptr + 1 \in Int BY <1>1
  <2> QED BY <2>1, Wraps
<1>3. g = [r EXCEPT !.cptr = p, !.cpushed = @ - 1] BY DEF _tgetkb
<1> HIDE DEF g
<1>4. g.cptr = p /\ g.cpushed = c - 1 /\ g.cstack = r.cstack BY <1>3 DEF Rings
<1>5. g \in Rings
  <2>1. c - 1 \in 0 .. CSTACK BY <1>1
  <2> QED BY <1>2, <1>3, <2>1 DEF Rings
<1>6. ASSUME NEW k \in Int PROVE tpeek(g, k - (h + 1)) = tpeek(r, k - h)
  <2>1. \A n \in Int : g.cptr = (r.cptr + n) % CSTACK => tpeek(g, k - (h + n)) = tpeek(r, k - h)
    BY <1>4, Moved
  <2>2. PICK n \in Int : n = 1 OBVIOUS
  <2>3. g.cptr = (r.cptr + n) % CSTACK BY <1>4, <2>2
  <2> QED BY <2>1, <2>2, <2>3
<1> HIDE DEF c
<1>7. Lined(r, t, h, o) /\ c = r.cpushed BY DEF c
<1>8. Len(o) = (h + 1) + g.cpushed + Len(t) /\ (h + 1) + g.cpushed <= CSTACK
  BY <1>1, <1>4, <1>7 DEF Lined
<1>9. (h + 1) + g.cpushed = h + c BY <1>1, <1>4
<1>10. \A k \in 1 .. (h + 1) + g.cpushed : o[k] = tpeek(g, k - (h + 1))
  BY <1>6, <1>7, <1>9 DEF Lined
<1>11. \A k \in 1 .. Len(t) : o[(h + 1) + g.cpushed + k] = t[k]
  BY <1>7, <1>9 DEF Lined
<1>12. Lined(g, t, h + 1, o) BY <1>8, <1>10, <1>11 DEF Lined
<1> QED BY <1>5, <1>12 DEF g, Rest

\* The ring is empty and takes all that the terminal has.
LEMMA TakeTyped ==
  ASSUME NEW r \in Rings, NEW t \in Seq(Byte), NEW o \in Seq(Byte), NEW h \in Nat,
         Lined(r, t, h, o), r.cpushed = 0, t # <<>>, h + Len(t) <= CSTACK
  PROVE  /\ _tgetkb(r, t) \in Rings /\ Rest(r, t) = <<>>
         /\ Lined(_tgetkb(r, t), <<>>, h + 1, o)
<1> DEFINE p == (r.cptr + 1) % CSTACK
           n == Len(t)
           at(s) == ((s - p) % CSTACK) + 1
           g == _tgetkb(r, t)
<1>1. CSTACK \in Nat \ {0} BY CSTACKAssumption
<1>2. r.cptr \in Int /\ r.cptr + 1 \in Int /\ r.cstack \in [Slot -> Byte \cup {NUL}]
  BY RingParts
<1>3. p \in Slot /\ p \in Int
  <2>1. p \in Slot BY <1>2, Wraps
  <2> HIDE DEF p
  <2> QED BY <1>1, <2>1 DEF Slot
<1>4. n \in 1 .. CSTACK /\ (IF n < CSTACK THEN n ELSE CSTACK) = n BY <1>1
<1>5. g = [cstack  |-> [s \in Slot |-> IF at(s) <= n THEN t[at(s)] ELSE r.cstack[s]],
           cptr |-> p, cpushed |-> n - 1]
  BY <1>4 DEF _tgetkb
<1>6. ASSUME NEW s \in Slot PROVE at(s) \in 1 .. CSTACK
  <2> HIDE DEF p
  <2>1. s - p \in Int BY <1>1, <1>3 DEF Slot
  <2>2. (s - p) % CSTACK \in Slot BY <2>1, Wraps
  <2> QED BY <1>1, <2>2 DEF Slot
<1>7. [s \in Slot |-> IF at(s) <= n THEN t[at(s)] ELSE r.cstack[s]] \in [Slot -> Byte \cup {NUL}]
  <2>1. ASSUME NEW s \in Slot
        PROVE  (IF at(s) <= n THEN t[at(s)] ELSE r.cstack[s]) \in Byte \cup {NUL}
    <3>1. at(s) \in 1 .. CSTACK BY <1>6
    <3> HIDE DEF at, n
    <3>2. CASE at(s) <= n
      <4>1. at(s) \in 1 .. Len(t) BY <3>1, <3>2 DEF n
      <4> QED BY <3>2, <4>1
    <3>3. CASE ~ (at(s) <= n) BY <1>2, <3>3
    <3> QED BY <3>2, <3>3
  <2> HIDE DEF at, n
  <2> QED BY <2>1
<1>8. g \in Rings
  <2> HIDE DEF at, n, p
  <2> QED BY <1>1, <1>3, <1>4, <1>5, <1>7 DEF Rings
<1>9. ASSUME NEW i \in Int
      PROVE  (p + i) % CSTACK \in Slot /\ at((p + i) % CSTACK) = (i % CSTACK) + 1
  <2> HIDE DEF p
  <2> DEFINE x == p + i
             y == -p
  <2>1. x \in Int /\ y \in Int /\ x + y = i BY <1>3
  <2> HIDE DEF x, y
  <2>2. x % CSTACK \in Slot /\ ((x % CSTACK) + y) % CSTACK = (x + y) % CSTACK
    BY <2>1, Wraps
  <2>3. (x % CSTACK) + y = (x % CSTACK) - p BY <1>1, <1>3, <2>2 DEF y, Slot
  <2> QED BY <2>1, <2>2, <2>3 DEF x
<1>10. ASSUME NEW i \in Int
       PROVE  tpeek(g, i) = LET s == (p + i) % CSTACK
                            IN IF at(s) <= n THEN t[at(s)] ELSE r.cstack[s]
  <2>1. (p + i) % CSTACK \in Slot BY <1>9
  <2> HIDE DEF at, n, p
  <2> QED BY <1>5, <2>1 DEF tpeek
<1>11. ASSUME NEW k \in 1 .. h + n PROVE o[k] = tpeek(g, k - (h + 1))
  <2> DEFINE i == k - (h + 1)
             s == (p + i) % CSTACK
  <2>1. i \in Int /\ -h <= i /\ i < n BY <1>4
  <2>2. at(s) = (i % CSTACK) + 1 /\ tpeek(g, i) = (IF at(s) <= n THEN t[at(s)] ELSE r.cstack[s])
    BY <1>9, <1>10, <2>1
  <2>3. CASE k > h
    <3>1. i \in 0 .. CSTACK - 1 BY <1>1, <1>4, <2>1, <2>3
    <3>2. i % CSTACK = i BY <1>1, <3>1, Small
    <3>3. i + 1 \in 1 .. Len(t) /\ h + r.cpushed + (i + 1) = k BY <1>4, <2>1, <3>1
    <3>4. o[k] = t[i + 1] BY <3>3 DEF Lined
    <3> HIDE DEF at, i, s
    <3> QED BY <2>2, <3>2, <3>3, <3>4 DEF i
  <2>4. CASE k <= h
    <3>1. -CSTACK <= i /\ i < 0 BY <1>1, <1>4, <2>1, <2>4
    <3>2. i % CSTACK = i + CSTACK BY <1>1, <2>1, <3>1, Before
    <3>3. ~ (i + CSTACK + 1 <= n) BY <1>1, <1>4, <2>1
    <3>4. s = ((r.cptr + 1) + i) % CSTACK BY <1>2, <2>1, Wraps
    <3>5. (r.cptr + 1) + i = r.cptr + (k - h) BY <1>2
    <3>6. o[k] = tpeek(r, k - h) BY <2>4 DEF Lined
    <3>7. r.cstack[s] = o[k] BY <3>4, <3>5, <3>6 DEF tpeek
    <3> HIDE DEF at, i, s
    <3> QED BY <2>2, <3>2, <3>3, <3>7 DEF i
  <2> QED BY <2>3, <2>4
<1>12. g.cpushed = n - 1
  <2> HIDE DEF at, n, p
  <2> QED BY <1>5
<1>13. h + 1 + g.cpushed = h + n BY <1>4, <1>12
<1>14. Rest(r, t) = <<>> BY <1>1, <1>4 DEF Rest
<1>15. Len(o) = h + n BY DEF Lined
<1> HIDE DEF g, at, p
<1>16. Lined(g, <<>>, h + 1, o) BY <1>4, <1>11, <1>13, <1>15 DEF Lined
<1> QED BY <1>8, <1>14, <1>16 DEF g

\* The n bytes taken last are pushed back.
LEMMA PushedBack ==
  ASSUME NEW r \in Rings, NEW t \in Seq(Byte), NEW o \in Seq(Byte), NEW h \in Nat,
         Lined(r, t, h, o), NEW n \in 0 .. h
  PROVE  tungetkb(r, n) \in Rings /\ Lined(tungetkb(r, n), t, h - n, o)
<1> DEFINE m == -n
           p == (r.cptr - n) % CSTACK
           c == r.cpushed
           g == tungetkb(r, n)
<1>1. CSTACK \in Nat \ {0} /\ r.cptr \in Int /\ c \in 0 .. CSTACK /\ r.cptr - n \in Int
  BY RingParts
<1>2. p \in Slot BY <1>1, Wraps
<1>3. g = [r EXCEPT !.cptr = p, !.cpushed = @ + n] BY DEF tungetkb
<1> HIDE DEF g
<1>4. g.cptr = p /\ g.cpushed = c + n /\ g.cstack = r.cstack BY <1>3 DEF Rings
<1>5. Lined(r, t, h, o) /\ c = r.cpushed /\ h + c <= CSTACK BY DEF Lined
<1>6. g \in Rings
  <2> HIDE DEF c
  <2>1. c + n \in 0 .. CSTACK BY <1>1, <1>5
  <2> QED BY <1>2, <1>3, <1>5, <2>1 DEF Rings
<1>7. m \in Int /\ h + m = h - n /\ r.cptr + m = r.cptr - n BY <1>1
<1>8. ASSUME NEW k \in Int PROVE tpeek(g, k - (h - n)) = tpeek(r, k - h)
  <2> HIDE DEF m
  <2>1. g.cptr = (r.cptr + m) % CSTACK BY <1>4, <1>7
  <2>2. tpeek(g, k - (h + m)) = tpeek(r, k - h) BY <1>4, <1>7, <2>1, Moved
  <2> QED BY <1>7, <2>2
<1> HIDE DEF c, m, p
<1>9. (h - n) + g.cpushed = h + c BY <1>1, <1>4
<1>10. Len(o) = (h - n) + g.cpushed + Len(t) /\ (h - n) + g.cpushed <= CSTACK
  BY <1>5, <1>9 DEF Lined
<1>11. \A k \in 1 .. (h - n) + g.cpushed : o[k] = tpeek(g, k - (h - n))
  BY <1>1, <1>5, <1>8, <1>9 DEF Lined
<1>12. \A k \in 1 .. Len(t) : o[(h - n) + g.cpushed + k] = t[k]
  BY <1>5, <1>9 DEF Lined
<1>13. Lined(g, t, h - n, o) BY <1>10, <1>11, <1>12 DEF Lined
<1> QED BY <1>6, <1>13 DEF g

\* What the call holds is returned.
LEMMA Returned ==
  ASSUME NEW r \in Rings, NEW t \in Seq(Byte), NEW o \in Seq(Byte), NEW h \in Nat,
         Lined(r, t, h, o)
  PROVE  /\ SubSeq(o, h + 1, Len(o)) \in Seq(Byte)
         /\ Lined(r, t, 0, SubSeq(o, h + 1, Len(o)))
<1> DEFINE u == SubSeq(o, h + 1, Len(o))
<1>1. r.cpushed \in Nat BY RingParts
<1>2. Len(o) - h \in Nat /\ Len(o) - h = r.cpushed + Len(t) BY <1>1 DEF Lined
<1>3. u \in Seq(Byte) /\ Len(u) = Len(o) - h BY <1>2
<1>4. \A k \in 1 .. Len(o) - h : u[k] = o[h + k] BY <1>2
<1> HIDE DEF u
<1>5. ASSUME NEW k \in 1 .. r.cpushed PROVE u[k] = tpeek(r, k - 0)
  <2>1. k \in 1 .. Len(o) - h /\ h + k \in 1 .. h + r.cpushed /\ (h + k) - h = k - 0
    BY <1>1, <1>2
  <2> QED BY <1>4, <2>1 DEF Lined
<1>6. ASSUME NEW k \in 1 .. Len(t) PROVE u[r.cpushed + k] = t[k]
  <2>1. r.cpushed + k \in 1 .. Len(o) - h /\ h + (r.cpushed + k) = h + r.cpushed + k
    BY <1>1, <1>2
  <2> QED BY <1>4, <2>1 DEF Lined
<1>7. Len(u) = 0 + r.cpushed + Len(t) /\ 0 + r.cpushed <= CSTACK /\ 0 + r.cpushed = r.cpushed
  <2>1. h + r.cpushed <= CSTACK /\ CSTACK \in Nat BY CSTACKAssumption DEF Lined
  <2> QED BY <1>1, <1>2, <1>3, <2>1
<1>8. Lined(r, t, 0, u) BY <1>5, <1>6, <1>7 DEF Lined
<1> QED BY <1>3, <1>8 DEF u

-----------------------------------------------------------------------------
(* The invariant. *)

\* How many bytes the call in progress holds: an ESC and what matched.
HeldLen == IF pc = "out" THEN 0 ELSE j

\* What is owed lies where it should, with room for another burst behind the
\* bytes of any key.
OwedInv ==
  /\ Lined(ring, tty, HeldLen, owed)
  /\ pc # "out" => owed[1] = ESC

\* The keys that match do so up to where the call is.
MatchInv ==
  /\ j \in Nat \ {0} /\ (pc # "special" => j = 1)
  /\ j > 1 => mask # {}
  /\ \A i \in mask :
       j <= Len(Tkeys[i]) /\ \A k \in 1 .. j - 1 : owed[k + 1] = Tkeys[i][k]

\* No key is empty, and each leaves room for a burst.
TableInv == \A i \in Special : Tkeys[i] # <<>> /\ Len(Tkeys[i]) + Burst <= CSTACK

KeyInv == TypeOK /\ OwedInv /\ MatchInv /\ TableInv

\* The bounds are numbers.
LEMMA Bounds == CSTACK \in Nat \ {0} /\ Burst \in Nat \ {0} /\ Burst < CSTACK
BY CSTACKAssumption, BurstAssumption

\* The invariant in the terms of the lemmas on rings.
LEMMA KeyParts ==
  ASSUME KeyInv
  PROVE  /\ ring \in Rings /\ tty \in Seq(Byte) /\ owed \in Seq(Byte) /\ Len(tty) <= Burst
         /\ j \in Nat \ {0} /\ HeldLen \in Nat /\ Lined(ring, tty, HeldLen, owed)
BY DEF KeyInv, TypeOK, OwedInv, MatchInv, Rings, HeldLen

\* A ring that is empty can take what was typed and spare what is held.
LEMMA Room ==
  ASSUME KeyInv, pc # "esc"
  PROVE  HeldLen + Len(tty) <= CSTACK
<1>1. Len(tty) \in Nat /\ Len(tty) <= Burst BY KeyParts
<1>2. CASE pc = "out" BY <1>1, <1>2, Bounds DEF HeldLen
<1>3. CASE pc # "out"
  <2>1. HeldLen = j /\ j \in Nat \ {0} BY <1>3, KeyParts DEF HeldLen
  <2>2. CASE j = 1 BY <1>1, <2>1, <2>2, Bounds
  <2>3. CASE j # 1
    <3>1. PICK i \in mask : TRUE BY <2>1, <2>3 DEF KeyInv, MatchInv
    <3>2. i \in Special BY DEF KeyInv, TypeOK
    <3>3. Len(Tkeys[i]) \in Nat BY <3>2 DEF KeyInv, TypeOK
    <3>4. j <= Len(Tkeys[i]) BY <3>1 DEF KeyInv, MatchInv
    <3>5. Len(Tkeys[i]) + Burst <= CSTACK BY <3>2 DEF KeyInv, TableInv
    <3> QED BY <1>1, <2>1, <3>3, <3>4, <3>5, Bounds
  <2> QED BY <2>2, <2>3
<1> QED BY <1>2, <1>3

\* A byte is taken: the call holds one more, and it is the next one owed.
LEMMA Taken ==
  ASSUME KeyInv, pc # "esc", CanGet,
         NEW g, g = _tgetkb(ring, tty), NEW w, w = Rest(ring, tty)
  PROVE  /\ g \in Rings /\ w \in Seq(Byte) /\ Len(w) <= Burst
         /\ Lined(g, w, HeldLen + 1, owed)
         /\ HeldLen + 1 \in 1 .. Len(owed) /\ tpeek(g, 0) = owed[HeldLen + 1]
<1>1. ring \in Rings /\ tty \in Seq(Byte) /\ owed \in Seq(Byte) /\ Len(tty) <= Burst
      /\ HeldLen \in Nat /\ Lined(ring, tty, HeldLen, owed)
  BY KeyParts
<1>2. g \in Rings /\ w \in Seq(Byte) /\ Len(w) <= Burst /\ Lined(g, w, HeldLen + 1, owed)
  <2>1. CASE ring.cpushed # 0 BY <1>1, <2>1, TakeUnread
  <2>2. CASE ring.cpushed = 0
    <3>1. tty # <<>> BY <2>2 DEF CanGet
    <3>2. w = <<>> /\ g \in Rings /\ Lined(g, w, HeldLen + 1, owed)
      BY <1>1, <2>2, <3>1, Room, TakeTyped
    <3> QED BY <3>2, Bounds
  <2> QED BY <2>1, <2>2
<1>3. HeldLen + 1 \in 1 .. Len(owed) /\ tpeek(g, 0) = owed[HeldLen + 1]
  <2>1. g.cpushed \in Nat /\ Len(w) \in Nat BY <1>2, RingParts
  <2>2. HeldLen + 1 \in 1 .. (HeldLen + 1) + g.cpushed /\ (HeldLen + 1) - (HeldLen + 1) = 0
    BY <1>1, <2>1
  <2>3. Len(owed) = (HeldLen + 1) + g.cpushed + Len(w) BY <1>2 DEF Lined
  <2>4. owed[HeldLen + 1] = tpeek(g, (HeldLen + 1) - (HeldLen + 1))
    BY <1>2, <2>2 DEF Lined
  <2> QED BY <1>1, <2>1, <2>2, <2>3, <2>4
<1> QED BY <1>2, <1>3

\* All the call holds is pushed back and the ESC taken again.
LEMMA TakenAgain ==
  ASSUME KeyInv, pc = "special", CanGet,
         NEW g, g = _tgetkb(ring, tty), NEW w, w = Rest(ring, tty),
         NEW b, b = tungetkb(g, j + 1), NEW a, a = _tgetkb(b, <<>>)
  PROVE  a \in Rings /\ Lined(a, w, 1, owed) /\ tpeek(b, 1) = ESC
<1>1. HeldLen = j /\ j \in Nat \ {0} /\ owed \in Seq(Byte) BY KeyParts DEF HeldLen
<1>2. g \in Rings /\ w \in Seq(Byte) /\ Lined(g, w, j + 1, owed) BY <1>1, Taken
<1>3. j + 1 \in Nat /\ j + 1 \in 0 .. j + 1 /\ (j + 1) - (j + 1) = 0 BY <1>1
<1>4. b \in Rings /\ Lined(b, w, 0, owed) BY <1>1, <1>2, <1>3, PushedBack
<1>5. b.cpushed # 0
  <2>1. g.cpushed \in Nat BY <1>2, RingParts
  <2>2. b.cpushed = g.cpushed + (j + 1) BY <1>2 DEF tungetkb, Rings
  <2> QED BY <1>1, <2>1, <2>2
<1>6. a = _tgetkb(b, w) BY <1>5 DEF _tgetkb
<1>7. a \in Rings /\ Lined(a, w, 0 + 1, owed) BY <1>1, <1>2, <1>4, <1>5, <1>6, TakeUnread
<1>8. tpeek(b, 1) = owed[1]
  <2>1. b.cpushed \in Nat BY <1>4, RingParts
  <2>2. 1 \in 1 .. 0 + b.cpushed /\ 1 - 0 = 1 BY <1>5, <2>1
  <2>3. owed[1] = tpeek(b, 1 - 0) BY <1>4, <2>2 DEF Lined
  <2> QED BY <2>2, <2>3
<1>9. owed[1] = ESC BY DEF KeyInv, OwedInv
<1> QED BY <1>7, <1>8, <1>9

\* A step that returns what the call holds.
LEMMA ReturnStep ==
  ASSUME KeyInv, NEW bytes \in Seq(Byte), Return(bytes),
         ring' \in Rings, tty' \in Seq(Byte), Len(tty') <= Burst, Pending' \in BOOLEAN,
         Tkeys' = Tkeys, Lined(ring', tty', Len(bytes), owed),
         \A k \in 1 .. Len(bytes) : owed[k] = bytes[k]
  PROVE  KeyInv' /\ owed = key' \o owed'
<1>1. owed \in Seq(Byte) BY DEF KeyInv, TypeOK
<1>2. Len(bytes) \in Nat OBVIOUS
<1>3. pc' = "out" /\ j' = 1 /\ mask' = {} /\ key' = bytes
      /\ owed' = SubSeq(owed, Len(bytes) + 1, Len(owed))
  BY DEF Return
<1>4. owed' \in Seq(Byte) /\ Lined(ring', tty', 0, owed') BY <1>1, <1>2, <1>3, Returned
<1>5. TypeOK' BY <1>3, <1>4 DEF KeyInv, TypeOK, Rings
<1>6. OwedInv' BY <1>3, <1>4 DEF OwedInv, HeldLen, Lined, tpeek
<1>7. MatchInv' /\ TableInv' BY <1>3 DEF KeyInv, MatchInv, TableInv
<1>8. owed = key' \o owed'
  <2>1. Len(bytes) <= Len(owed)
    <3>1. ring'.cpushed \in Nat /\ Len(tty') \in Nat BY RingParts
    <3>2. Len(owed) = Len(bytes) + ring'.cpushed + Len(tty') BY DEF Lined
    <3> QED BY <1>2, <3>1, <3>2
  <2>2. \A k \in 1 .. Len(owed) : owed[k] = (key' \o owed')[k]
    BY <1>1, <1>2, <1>3, <2>1
  <2>3. Len(key' \o owed') = Len(owed) /\ key' \o owed' \in Seq(Byte)
    BY <1>1, <1>2, <1>3, <1>4, <2>1
  <2> QED BY <1>1, <2>2, <2>3, SeqEqual
<1> QED BY <1>5, <1>6, <1>7, <1>8 DEF KeyInv

\* At first nothing is owed.
LEMMA InitKey == Init => KeyInv
<1> SUFFICES ASSUME Init PROVE KeyInv
  OBVIOUS
<1>1. ring = [cstack |-> [s \in Slot |-> NUL], cptr |-> -1, cpushed |-> 0]
      /\ tty = <<>> /\ owed = <<>> /\ key = <<>> /\ pc = "out" /\ j = 1 /\ mask = {}
      /\ Pending = FALSE
  BY DEF Init
<1>2. TypeOK
  <2>1. Tkeys \in [Special -> Seq(Byte)] BY ByteTableAssumption DEF Init
  <2>2. ring \in [cstack : [Slot -> Byte \cup {NUL}], cptr : Slot \cup {-1}, cpushed : 0 .. CSTACK]
    <3>1. 0 \in 0 .. CSTACK /\ -1 \in Slot \cup {-1} BY Bounds
    <3>2. [s \in Slot |-> NUL] \in [Slot -> Byte \cup {NUL}] OBVIOUS
    <3> QED BY <1>1, <3>1, <3>2
  <2>3. Pending \in BOOLEAN BY <1>1, Zenon
  <2>4. Len(tty) <= Burst BY <1>1, Bounds
  <2> QED BY <1>1, <2>1, <2>2, <2>3, <2>4 DEF TypeOK
<1>3. OwedInv
  <2>1. HeldLen = 0 /\ ring.cpushed = 0 /\ Len(tty) = 0 /\ Len(owed) = 0
    BY <1>1 DEF HeldLen
  <2> QED BY <1>1, <2>1, Bounds DEF OwedInv, Lined
<1>4. MatchInv BY <1>1 DEF MatchInv
<1>5. TableInv BY ByteTableAssumption, BurstAssumption DEF TableInv, Init
<1> QED BY <1>2, <1>3, <1>4, <1>5 DEF KeyInv

\* A byte is typed.
LEMMA TypeStep == ASSUME KeyInv, Type PROVE KeyInv' /\ Len(owed') > Len(owed)
<1>1. PICK b \in Byte : tty' = Append(tty, b) /\ owed' = Append(owed, b) BY DEF Type
<1>2. UNCHANGED <<ring, Pending, Tkeys, pc, j, mask, key>> /\ Len(tty) < Burst
  BY DEF Type
<1>3. ring \in Rings /\ tty \in Seq(Byte) /\ owed \in Seq(Byte) /\ HeldLen \in Nat
      /\ j \in Nat \ {0} /\ Lined(ring, tty, HeldLen, owed)
  BY KeyParts
<1>4. TypeOK' BY <1>1, <1>2, <1>3, Bounds DEF KeyInv, TypeOK
<1>5. Lined(ring, tty', HeldLen, owed') BY <1>1, <1>3, Typed
<1>6. HeldLen <= Len(owed) /\ Len(owed) \in Nat
  <2>1. ring.cpushed \in Nat /\ Len(tty) \in Nat BY <1>3, RingParts
  <2>2. Len(owed) = HeldLen + ring.cpushed + Len(tty) BY <1>3 DEF Lined
  <2> QED BY <1>3, <2>1, <2>2
<1>7. \A k \in 1 .. Len(owed) : owed'[k] = owed[k] BY <1>1, <1>3
<1>8. OwedInv'
  <2>1. Lined(ring, tty, HeldLen, owed)' BY <1>2, <1>5 DEF Lined, HeldLen, tpeek
  <2>2. pc # "out" => owed'[1] = ESC
    <3>1. pc # "out" => 1 \in 1 .. Len(owed) BY <1>3, <1>6 DEF HeldLen
    <3> QED BY <1>7, <3>1 DEF KeyInv, OwedInv
  <2> QED BY <1>2, <2>1, <2>2 DEF OwedInv
<1>9. MatchInv'
  <2>1. ASSUME NEW i \in mask, NEW k \in 1 .. j - 1 PROVE owed'[k + 1] = Tkeys[i][k]
    <3>1. pc = "special" BY <1>3 DEF KeyInv, MatchInv
    <3>2. k + 1 \in 1 .. Len(owed) BY <1>3, <1>6, <3>1 DEF HeldLen
    <3> QED BY <1>7, <3>2 DEF KeyInv, MatchInv
  <2> QED BY <1>2, <2>1 DEF KeyInv, MatchInv
<1>10. TableInv' BY <1>2 DEF KeyInv, TableInv
<1>11. Len(owed') > Len(owed) BY <1>1, <1>3, <1>6
<1> QED BY <1>4, <1>8, <1>9, <1>10, <1>11 DEF KeyInv

\* A key is asked for: the ESC of a special key is held, another byte returned.
LEMMA GetStep ==
  ASSUME KeyInv, tgetkb
  PROVE  KeyInv' /\ (owed' = owed \/ owed = key' \o owed')
<1>1. pc = "out" /\ CanGet /\ ring' = _tgetkb(ring, tty) /\ tty' = Rest(ring, tty)
      /\ Pending' = FALSE /\ Tkeys' = Tkeys
  BY DEF tgetkb
<1>2. HeldLen = 0 /\ owed \in Seq(Byte) /\ 0 + 1 = 1 BY <1>1, KeyParts DEF HeldLen
<1>3. ring' \in Rings /\ tty' \in Seq(Byte) /\ Len(tty') <= Burst
      /\ Lined(ring', tty', 1, owed) /\ 1 \in 1 .. Len(owed) /\ tpeek(ring', 0) = owed[1]
  BY <1>1, <1>2, Taken
<1>4. CASE tpeek(ring', 0) = ESC
  <2>1. pc' = "esc" /\ UNCHANGED <<j, mask, owed, key>> BY <1>4 DEF tgetkb
  <2>2. TypeOK' BY <1>1, <1>3, <2>1 DEF KeyInv, TypeOK, Rings
  <2>3. j = 1 /\ HeldLen' = 1 BY <1>1, <2>1 DEF KeyInv, MatchInv, HeldLen
  <2>4. OwedInv' BY <1>3, <1>4, <2>1, <2>3 DEF OwedInv, Lined, tpeek
  <2>5. MatchInv' /\ TableInv' BY <1>1, <2>1, <2>3 DEF KeyInv, MatchInv, TableInv
  <2> QED BY <2>1, <2>2, <2>4, <2>5 DEF KeyInv
<1>5. CASE tpeek(ring', 0) # ESC
  <2>1. Return(<<tpeek(ring', 0)>>) BY <1>5 DEF tgetkb
  <2>2. <<tpeek(ring', 0)>> \in Seq(Byte) BY <1>2, <1>3
  <2>3. Len(<<tpeek(ring', 0)>>) = 1 OBVIOUS
  <2>4. \A k \in 1 .. 1 : owed[k] = <<tpeek(ring', 0)>>[k] BY <1>3
  <2> QED BY <1>1, <1>3, <2>1, <2>2, <2>3, <2>4, ReturnStep
<1> QED BY <1>4, <1>5

\* With an ESC at hand, its keys are looked for or it is returned.
LEMMA EscStep ==
  ASSUME KeyInv, EscReady
  PROVE  KeyInv' /\ (owed' = owed \/ owed = key' \o owed')
<1>1. pc = "esc" /\ UNCHANGED <<tty, ring, Tkeys>> BY DEF EscReady
<1>2. ring \in Rings /\ tty \in Seq(Byte) /\ owed \in Seq(Byte) /\ Len(tty) <= Burst
      /\ Lined(ring, tty, HeldLen, owed) /\ HeldLen = 1 /\ j = 1 /\ owed[1] = ESC
  BY <1>1, KeyParts DEF KeyInv, MatchInv, OwedInv, HeldLen
<1>3. CASE ring.cpushed # 0 \/ tty # <<>>
  <2>1. Pending' = (ring.cpushed = 0) /\ pc' = "special" /\ j' = 1 /\ mask' = Special
        /\ UNCHANGED <<owed, key>>
    BY <1>3 DEF EscReady
  <2>2. Pending' \in BOOLEAN BY <2>1, Zenon
  <2>3. TypeOK' BY <1>1, <2>1, <2>2 DEF KeyInv, TypeOK
  <2>4. OwedInv' BY <1>1, <1>2, <2>1 DEF OwedInv, HeldLen, Lined, tpeek
  <2>5. MatchInv'
    <3>1. \A i \in Special : 1 <= Len(Tkeys[i])
      BY DEF KeyInv, TypeOK, TableInv
    <3> QED BY <1>1, <2>1, <3>1 DEF MatchInv
  <2>6. TableInv' BY <1>1 DEF KeyInv, TableInv
  <2> QED BY <2>1, <2>3, <2>4, <2>5, <2>6 DEF KeyInv
<1>4. CASE ~ (ring.cpushed # 0 \/ tty # <<>>)
  <2>1. Return(<<ESC>>) /\ Pending' = Pending BY <1>4 DEF EscReady
  <2>2. <<ESC>> \in Seq(Byte) /\ Len(<<ESC>>) = 1 BY ByteTableAssumption
  <2>3. \A k \in 1 .. 1 : owed[k] = <<ESC>>[k] BY <1>2
  <2>4. ring' \in Rings /\ tty' \in Seq(Byte) /\ Len(tty') <= Burst /\ Pending' \in BOOLEAN
        /\ Lined(ring', tty', 1, owed)
    BY <1>1, <1>2, <2>1 DEF KeyInv, TypeOK
  <2> QED BY <1>1, <2>1, <2>2, <2>3, <2>4, ReturnStep
<1> QED BY <1>3, <1>4

\* The next byte after an ESC: a key, part of a key, or none.
LEMMA SpecialsStep ==
  ASSUME KeyInv, check_specials
  PROVE  KeyInv' /\ (owed' = owed \/ owed = key' \o owed')
<1> DEFINE got == _tgetkb(ring, tty)
           cmd == tpeek(got, 0)
           match == Matching(cmd)
           back == tungetkb(got, j + 1)
           again == _tgetkb(back, <<>>)
<1>1. pc = "special" /\ CanGet /\ tty' = Rest(ring, tty) /\ Pending' = Pending
  BY DEF check_specials
<1>2. HeldLen = j /\ j \in Nat \ {0} /\ owed \in Seq(Byte) /\ owed[1] = ESC
  BY <1>1, KeyParts DEF HeldLen, KeyInv, OwedInv
<1>3. got \in Rings /\ tty' \in Seq(Byte) /\ Len(tty') <= Burst
      /\ Lined(got, tty', j + 1, owed) /\ j + 1 \in 1 .. Len(owed) /\ cmd = owed[j + 1]
  BY <1>1, <1>2, Taken
<1>4. again \in Rings /\ Lined(again, tty', 1, owed) /\ tpeek(back, 1) = ESC
  BY <1>1, TakenAgain
<1>5. Pending' \in BOOLEAN BY <1>1 DEF KeyInv, TypeOK
<1>6. match \subseteq mask /\ mask \subseteq Special BY DEF Matching, KeyInv, TypeOK
<1>7. ASSUME NEW i \in match
      PROVE  /\ j <= Len(Tkeys[i]) /\ Tkeys[i] \in Seq(Byte) /\ Tkeys[i][j] = cmd
             /\ \A k \in 1 .. j : owed[k + 1] = Tkeys[i][k]
  <2>1. j <= Len(Tkeys[i]) /\ Tkeys[i] \in Seq(Byte) /\ Tkeys[i][j] = cmd
    BY <1>6 DEF Matching, KeyInv, TypeOK
  <2>2. \A k \in 1 .. j - 1 : owed[k + 1] = Tkeys[i][k] BY <1>6 DEF KeyInv, MatchInv
  <2>3. \A k \in 1 .. j : k = j \/ k \in 1 .. j - 1 BY <1>2
  <2> QED BY <1>3, <2>1, <2>2, <2>3
<1> HIDE DEF cmd, match, back, again, got
<1>8. \/ \E i \in Complete(match) :
           ring' = got /\ Return(<<ESC>> \o Tkeys[i]) /\ Tkeys' = Tkeys
      \/ /\ Complete(match) = {} /\ match # {} /\ ring' = got
         /\ j' = j + 1 /\ mask' = match /\ UNCHANGED <<Tkeys, pc, owed, key>>
      \/ /\ tpeek(back, 3) \in DOMAIN Rewrite /\ Tkeys' = Rewritten(tpeek(back, 3))
         /\ ring' = again /\ j' = 1 /\ mask' = Special /\ UNCHANGED <<pc, owed, key>>
      \/ ring' = again /\ Return(<<tpeek(back, 1)>>) /\ Tkeys' = Tkeys
  BY DEF check_specials, got, cmd, match, back, again
<1>9. ASSUME NEW i \in Complete(match), ring' = got, Return(<<ESC>> \o Tkeys[i]), Tkeys' = Tkeys
      PROVE  KeyInv' /\ owed = key' \o owed'
  <2> DEFINE bytes == <<ESC>> \o Tkeys[i]
  <2>1. i \in match /\ Len(Tkeys[i]) = j BY DEF Complete
  <2>2. Tkeys[i] \in Seq(Byte) BY <1>7, <2>1
  <2>3. bytes \in Seq(Byte) /\ Len(bytes) = j + 1
    BY <1>2, <2>1, <2>2, ByteTableAssumption
  <2>4. ASSUME NEW k \in 1 .. j + 1 PROVE owed[k] = bytes[k]
    <3>1. CASE k = 1 BY <1>2, <2>2, <3>1
    <3>2. CASE k # 1
      <4>1. k - 1 \in 1 .. j /\ (k - 1) + 1 = k BY <1>2, <3>2
      <4>2. bytes[k] = Tkeys[i][k - 1] BY <2>1, <2>2, <4>1
      <4> QED BY <1>7, <2>1, <4>1, <4>2
    <3> QED BY <3>1, <3>2
  <2> HIDE DEF bytes
  <2>5. Return(bytes) BY <1>9 DEF bytes
  <2> QED BY <1>3, <1>5, <1>9, <2>3, <2>4, <2>5, ReturnStep
<1>10. ASSUME Complete(match) = {}, match # {}, ring' = got,
              j' = j + 1, mask' = match, UNCHANGED <<Tkeys, pc, owed, key>>
       PROVE  KeyInv'
  <2>1. TypeOK' BY <1>2, <1>3, <1>5, <1>6, <1>10 DEF KeyInv, TypeOK, Rings
  <2>2. HeldLen' = j + 1 BY <1>1, <1>10 DEF HeldLen
  <2>3. OwedInv' BY <1>2, <1>3, <1>10, <2>2 DEF OwedInv, Lined, tpeek
  <2>4. ASSUME NEW i \in match PROVE j + 1 <= Len(Tkeys[i])
    <3>1. Len(Tkeys[i]) # j BY <1>10 DEF Complete
    <3> QED BY <1>2, <1>7, <3>1
  <2>5. MatchInv'
    <3>1. j' - 1 = j /\ j' \in Nat \ {0} /\ j' > 1 BY <1>2, <1>10
    <3> QED BY <1>1, <1>7, <1>10, <2>4, <3>1 DEF MatchInv
  <2>6. TableInv' BY <1>10 DEF KeyInv, TableInv
  <2> QED BY <2>1, <2>3, <2>5, <2>6 DEF KeyInv
<1>11. ASSUME tpeek(back, 3) \in DOMAIN Rewrite, Tkeys' = Rewritten(tpeek(back, 3)),
              ring' = again, j' = 1, mask' = Special, UNCHANGED <<pc, owed, key>>
       PROVE  KeyInv'
  <2> DEFINE b == tpeek(back, 3)
  <2>1. b \in Byte /\ \A i \in DOMAIN Rewrite[b] : Rewrite[b][i] = <<CapO, b>>
    BY <1>11, ByteTableAssumption
  <2> HIDE DEF b
  <2>2. <<CapO, b>> \in Seq(Byte) /\ Len(<<CapO, b>>) = 2 BY <2>1, ByteTableAssumption
  <2>3. Tkeys' = [i \in Special |-> IF i \in DOMAIN Rewrite[b] THEN Rewrite[b][i] ELSE Tkeys[i]]
    BY <1>11 DEF Rewritten, b
  <2>4. ASSUME NEW i \in Special
        PROVE  Tkeys'[i] \in Seq(Byte) /\ 1 <= Len(Tkeys'[i]) /\ Len(Tkeys'[i]) + Burst <= CSTACK
    <3>1. CASE i \in DOMAIN Rewrite[b]
      <4>1. Tkeys'[i] = <<CapO, b>> BY <2>1, <2>3, <3>1
      <4>2. Len(<<CapO, b>>) + Burst <= CSTACK
        BY <1>11, <3>1, BurstAssumption DEF b
      <4> QED BY <2>2, <4>1, <4>2
    <3>2. CASE i \notin DOMAIN Rewrite[b]
      <4>1. Tkeys'[i] = Tkeys[i] BY <2>3, <3>2
      <4>2. Tkeys[i] \in Seq(Byte) /\ Tkeys[i] # <<>> /\ Len(Tkeys[i]) + Burst <= CSTACK
        BY DEF KeyInv, TypeOK, TableInv
      <4> QED BY <4>1, <4>2
    <3> QED BY <3>1, <3>2
  <2>5. Tkeys' \in [Special -> Seq(Byte)] BY <2>3, <2>4
  <2>6. TypeOK' BY <1>3, <1>4, <1>5, <1>11, <2>5 DEF KeyInv, TypeOK, Rings
  <2>7. HeldLen' = 1 BY <1>1, <1>11 DEF HeldLen
  <2>8. OwedInv' BY <1>2, <1>4, <1>11, <2>7 DEF OwedInv, Lined, tpeek
  <2>9. MatchInv' BY <1>1, <1>11, <2>4 DEF MatchInv
  <2>10. TableInv' BY <2>4, <2>5 DEF TableInv
  <2> QED BY <2>6, <2>8, <2>9, <2>10 DEF KeyInv
<1>12. ASSUME ring' = again, Return(<<tpeek(back, 1)>>), Tkeys' = Tkeys
       PROVE  KeyInv' /\ owed = key' \o owed'
  <2>1. <<ESC>> \in Seq(Byte) /\ Len(<<ESC>>) = 1 BY ByteTableAssumption
  <2>2. \A k \in 1 .. 1 : owed[k] = <<ESC>>[k] BY <1>2
  <2>3. Return(<<ESC>>) BY <1>4, <1>12
  <2> QED BY <1>3, <1>4, <1>5, <1>12, <2>1, <2>2, <2>3, ReturnStep
<1> QED BY <1>8, <1>9, <1>10, <1>11, <1>12

\* Every step keeps the invariant, and one that returns a key returns the bytes
\* owed next.
LEMMA KeyStep ==
  ASSUME KeyInv, [Next]_vars
  PROVE  KeyInv' /\ (Len(owed') < Len(owed) => owed = key' \o owed')
<1>1. Len(owed) \in Nat BY KeyParts
<1>2. CASE Type BY <1>1, <1>2, TypeStep DEF KeyInv, TypeOK
<1>3. CASE tkbrdy
  <2>1. UNCHANGED <<tty, ring, Tkeys, pc, j, mask, owed, key>> /\ Pending' = (tty # <<>>)
    BY <1>3 DEF tkbrdy
  <2>2. Pending' \in BOOLEAN BY <2>1, Zenon
  <2>3. TypeOK' BY <2>1, <2>2 DEF KeyInv, TypeOK
  <2>4. OwedInv' /\ MatchInv' /\ TableInv'
    BY <2>1 DEF KeyInv, OwedInv, MatchInv, TableInv, HeldLen, Lined, tpeek
  <2> QED BY <1>1, <2>1, <2>3, <2>4 DEF KeyInv
<1>4. CASE tgetkb BY <1>1, <1>4, GetStep
<1>5. CASE EscReady BY <1>1, <1>5, EscStep
<1>6. CASE check_specials BY <1>1, <1>6, SpecialsStep
<1>7. CASE UNCHANGED vars
  BY <1>1, <1>7 DEF vars, KeyInv, TypeOK, OwedInv, MatchInv, TableInv, HeldLen, Lined, tpeek
<1> QED BY <1>2, <1>3, <1>4, <1>5, <1>6, <1>7 DEF Next

\* Where the bytes lie says what they are.
LEMMA KeySays == KeyInv => NothingLost
<1> SUFFICES ASSUME KeyInv PROVE NothingLost
  OBVIOUS
<1>1. ring \in Rings /\ tty \in Seq(Byte) /\ owed \in Seq(Byte)
      /\ j \in Nat \ {0} /\ HeldLen \in Nat /\ Lined(ring, tty, HeldLen, owed)
  BY KeyParts
<1>2. Held \in Seq(Byte) /\ Len(Held) = HeldLen /\ \A k \in 1 .. HeldLen : Held[k] = owed[k]
  <2>1. CASE pc = "out" BY <2>1 DEF Held, HeldLen
  <2>2. CASE pc # "out" /\ j = 1
    <3>1. owed[1] = ESC BY <2>2 DEF KeyInv, OwedInv
    <3>2. Held = <<ESC>> /\ HeldLen = 1
      BY <2>2 DEF Held, HeldLen, KeyInv, TypeOK
    <3> QED BY <3>1, <3>2, ByteTableAssumption
  <2>3. CASE pc # "out" /\ j # 1
    <3> DEFINE i == CHOOSE x \in mask : TRUE
               t == SubSeq(Tkeys[i], 1, j - 1)
    <3>1. pc = "special" /\ j > 1 /\ owed[1] = ESC
      BY <1>1, <2>3 DEF KeyInv, MatchInv, OwedInv
    <3>2. i \in mask /\ i \in Special BY <3>1 DEF KeyInv, MatchInv, TypeOK
    <3>3. Held = <<ESC>> \o t /\ HeldLen = j BY <1>1, <2>3, <3>1 DEF Held, HeldLen
    <3> HIDE DEF i
    <3>4. Tkeys[i] \in Seq(Byte) /\ j <= Len(Tkeys[i]) BY <3>2 DEF KeyInv, TypeOK, MatchInv
    <3>5. t \in Seq(Byte) /\ Len(t) = j - 1 /\ \A k \in 1 .. j - 1 : t[k] = Tkeys[i][k]
      BY <1>1, <3>4
    <3> HIDE DEF t
    <3>6. Held \in Seq(Byte) /\ Len(Held) = j BY <1>1, <3>3, <3>5, ByteTableAssumption
    <3>7. ASSUME NEW k \in 1 .. j PROVE Held[k] = owed[k]
      <4>1. CASE k = 1 BY <3>1, <3>3, <3>5, <4>1
      <4>2. CASE k # 1
        <5>1. k - 1 \in 1 .. j - 1 /\ (k - 1) + 1 = k BY <1>1, <4>2
        <5>2. Held[k] = t[k - 1] BY <1>1, <3>3, <3>5, <5>1
        <5> QED BY <3>2, <3>5, <5>1, <5>2 DEF KeyInv, MatchInv
      <4> QED BY <4>1, <4>2
    <3> QED BY <3>3, <3>6, <3>7
  <2> QED BY <2>1, <2>2, <2>3
<1> DEFINE c == ring.cpushed
           h == HeldLen
<1>3. c \in Nat BY <1>1, RingParts
<1>4. Len(owed) = h + c + Len(tty) /\ (\A k \in 1 .. h + c : owed[k] = tpeek(ring, k - h))
      /\ \A k \in 1 .. Len(tty) : owed[h + c + k] = tty[k]
  BY <1>1 DEF Lined
<1>5. Unread = [k \in 1 .. c |-> tpeek(ring, k)] BY DEF Unread
<1>6. h \in Nat BY <1>1
<1> HIDE DEF c, h
<1>7. ASSUME NEW k \in 1 .. c PROVE tpeek(ring, k) = owed[h + k] /\ owed[h + k] \in Byte
  <2>1. h + k \in 1 .. h + c /\ h + k - h = k BY <1>3, <1>6
  <2>2. Len(tty) \in Nat BY <1>1
  <2>3. h + k \in 1 .. Len(owed) BY <1>3, <1>4, <1>6, <2>1, <2>2
  <2>4. owed[h + k] \in Byte BY <1>1, <2>3
  <2>5. PICK x \in 1 .. h + c : x = h + k BY <2>1
  <2>6. owed[x] = tpeek(ring, x - h) BY <1>4
  <2>7. x - h = k BY <1>6, <2>5
  <2> QED BY <2>4, <2>5, <2>6, <2>7
<1>8. Unread \in Seq(Byte) /\ Len(Unread) = c /\ \A k \in 1 .. c : Unread[k] = owed[h + k]
  BY <1>3, <1>5, <1>7
<1>9. Held \in Seq(Byte) /\ Len(Held) = h /\ \A k \in 1 .. h : Held[k] = owed[k]
  BY <1>2 DEF h
<1> DEFINE near == Held \o Unread
           all == near \o tty
<1>10. near \in Seq(Byte) /\ Len(near) = h + c
  <2>1. Held \in Seq(Byte) /\ Unread \in Seq(Byte) /\ Len(Held) = h /\ Len(Unread) = c
    BY <1>8, <1>9
  <2> QED BY <2>1
<1>11. all \in Seq(Byte) /\ Len(all) = Len(owed) BY <1>1, <1>4, <1>10
<1>12. ASSUME NEW k \in 1 .. Len(owed) PROVE all[k] = owed[k]
  <2>1. Len(tty) \in Nat /\ Len(owed) \in Nat /\ k \in Nat BY <1>1
  <2>2. CASE k <= h + c
    <3>1. k \in 1 .. h + c BY <1>3, <1>6, <2>1, <2>2
    <3>2. all[k] = near[k] BY <1>1, <1>10, <3>1
    <3>3. CASE k <= h
      <4>1. k \in 1 .. h BY <1>6, <2>1, <3>3
      <4>2. near[k] = Held[k] BY <1>8, <1>9, <4>1
      <4> QED BY <1>9, <3>2, <4>1, <4>2
    <3>4. CASE h < k
      <4>1. k - h \in 1 .. c /\ h + (k - h) = k BY <1>3, <1>6, <3>1, <3>4
      <4>2. near[k] = Unread[k - h] BY <1>3, <1>6, <1>8, <1>9, <3>4, <4>1
      <4>3. Unread[k - h] = owed[h + (k - h)] BY <1>8, <4>1
      <4> HIDE DEF near, all
      <4> QED BY <3>2, <4>1, <4>2, <4>3
    <3> HIDE DEF near, all
    <3> QED BY <1>6, <2>1, <3>3, <3>4
  <2>3. CASE h + c < k
    <3>1. k - (h + c) \in 1 .. Len(tty) /\ h + c + (k - (h + c)) = k
      BY <1>3, <1>4, <1>6, <2>1, <2>3
    <3>2. all[k] = tty[k - (h + c)]
      <4> HIDE DEF near
      <4> QED BY <1>1, <1>10, <2>1, <2>3, <3>1 DEF all
    <3>3. owed[h + c + (k - (h + c))] = tty[k - (h + c)] BY <1>4, <3>1
    <3> HIDE DEF near, all
    <3> QED BY <3>1, <3>2, <3>3
  <2> HIDE DEF near, all
  <2> QED BY <1>3, <1>6, <2>1, <2>2, <2>3
<1>13. owed = all
  <2> HIDE DEF all
  <2> QED BY <1>1, <1>11, <1>12, SeqEqual
<1> QED BY <1>13 DEF NothingLost, KeyInv

\* The invariant holds always.
LEMMA KeyAlways == Spec => []KeyInv
<1>1. KeyInv /\ [Next]_vars => KeyInv' BY KeyStep
<1> QED BY <1>1, InitKey, PTL DEF Spec

\* Spec => []NothingLost: no byte typed is lost, doubled or moved on its way
\* through the ring, whatever is pushed back and whatever keys are rewritten.
THEOREM NoByteIsLost == Spec => []NothingLost
BY KeyAlways, KeySays, PTL

\* Spec => InOrder: tgetkb returns the bytes in the order they were typed.
THEOREM KeysInOrder == Spec => InOrder
<1>1. KeyInv /\ [Next]_vars => [Len(owed') < Len(owed) => owed = key' \o owed']_vars
  BY KeyStep
<1> QED BY <1>1, KeyAlways, PTL DEF Spec, InOrder
=============================================================================
