--------------------------- MODULE WindowsTheorems ---------------------------
(***************************************************************************)
(* The lists of buffers, names and windows agree for any buffers, files at *)
(* the start, terminals and numbers of commands.                           *)
(*                                                                         *)
(* Each function of bcmds.c and window.c has a lemma that says what it     *)
(* makes of a state between two calls (Between), when the current buffer   *)
(* may not be shown yet, or of one that is ready for the next command      *)
(* (Settled).  delbuff and wswitchto need that a window keeps its point    *)
(* and its mark in the buffer it shows (Shows), the lists that no name is  *)
(* on them twice (Listed).  How windows are sized is told apart from what  *)
(* they show: a step keeps all sizes, halves a window, moves the border of *)
(* two or gives lines to all.  The functions that repeat a step for each   *)
(* file, window or line exist and keep what one step keeps (Recursion,     *)
(* UpTo).                                                                  *)
(***************************************************************************)
EXTENDS Windows, FiniteSetTheorems, SequenceTheorems, WellFoundedInduction, TLAPS

-----------------------------------------------------------------------------
(* Numbers, and functions that are defined from each number to the next, for *)
(* the loops that are modelled as such functions.                            *)

\* Every set of numbers has a least one.
LEMMA LeastNumber ==
  ASSUME NEW T, T \subseteq Nat, T # {}
  PROVE  \E x \in T : \A y \in T : x <= y
<1> DEFINE R == OpToRel(<, Nat)
<1>1. IsWellFoundedOn(R, Nat) BY NatLessThanWellFounded, Zenon
<1>2. \A a, b \in Nat : a < b => <<a, b>> \in R BY Zenon DEF OpToRel
<1> HIDE DEF R
<1>3. PICK x \in T : \A y \in T : ~ (<<y, x>> \in R) BY <1>1, WFMin
<1>4. \A y \in T : ~ (y < x) /\ y \in Nat /\ x \in Nat BY <1>2, <1>3
<1> QED BY <1>4

\* A set that has 0 and with each number the next one has all up to n.
LEMMA UpTo ==
  ASSUME NEW n \in Nat, NEW T, 0 \in T, \A k \in 0 .. n - 1 : k \in T => k + 1 \in T
  PROVE  0 .. n \subseteq T
<1> DEFINE U == {k \in 0 .. n : k \notin T}
<1> SUFFICES ASSUME U # {} PROVE FALSE
  OBVIOUS
<1>0. U \subseteq Nat OBVIOUS
<1>1. PICK x \in U : \A y \in U : x <= y
  <2> HIDE DEF U
  <2> QED BY <1>0, LeastNumber
<1>2. x # 0 /\ x - 1 \in 0 .. n - 1 /\ x - 1 \in 0 .. n /\ ~ (x <= x - 1) BY <1>1
<1>3. x - 1 \in T BY <1>1, <1>2
<1>4. x - 1 + 1 = x BY <1>1
<1> QED BY <1>1, <1>2, <1>3, <1>4

\* The functions defined from each number to the next.
Recursive(n, A, a, next) ==
  {g \in [0 .. n -> A] : g[0] = a /\ \A k \in 1 .. n : g[k] = next[k][g[k - 1]]}

\* There is one.
LEMMA Recursion ==
  ASSUME NEW n \in Nat, NEW A, NEW a \in A, NEW next \in [1 .. n -> [A -> A]]
  PROVE  Recursive(n, A, a, next) # {}
<1> DEFINE Good(k, g) == g[0] = a /\ \A j \in 1 .. k : g[j] = next[j][g[j - 1]]
           T == {k \in 0 .. n : \E g \in [0 .. k -> A] : Good(k, g)}
<1>1. 0 \in T
  <2> DEFINE g == [k \in 0 .. 0 |-> a]
  <2>1. g \in [0 .. 0 -> A] /\ Good(0, g) OBVIOUS
  <2>2. 0 \in 0 .. n OBVIOUS
  <2> HIDE DEF g
  <2> QED BY <2>1, <2>2
<1>2. ASSUME NEW k \in 0 .. n - 1, k \in T PROVE k + 1 \in T
  <2>1. PICK g \in [0 .. k -> A] : Good(k, g) BY <1>2
  <2>2. k + 1 \in 1 .. n /\ k + 1 \in 0 .. n /\ k \in 0 .. k /\ k \in Nat OBVIOUS
  <2>3. next[k + 1][g[k]] \in A BY <2>1, <2>2
  <2> DEFINE h == [j \in 0 .. k + 1 |-> IF j = k + 1 THEN next[k + 1][g[k]] ELSE g[j]]
  <2>4. h \in [0 .. k + 1 -> A]
    <3>1. ASSUME NEW j \in 0 .. k + 1, j # k + 1 PROVE g[j] \in A
      <4>1. j \in 0 .. k BY <2>2, <3>1
      <4> QED BY <2>1, <4>1
    <3> QED BY <2>3, <3>1
  <2>5. \A j \in 0 .. k : h[j] = g[j] BY <2>2
  <2>6. h[k + 1] = next[k + 1][g[k]] BY <2>2
  <2> HIDE DEF h
  <2>7. Good(k + 1, h)
    <3>1. h[0] = a BY <2>1, <2>2, <2>5
    <3>2. ASSUME NEW j \in 1 .. k + 1 PROVE h[j] = next[j][h[j - 1]]
      <4>1. CASE j = k + 1
        <5>1. j - 1 = k BY <2>2, <4>1
        <5> QED BY <2>2, <2>5, <2>6, <4>1, <5>1
      <4>2. CASE j # k + 1
        <5>1. j \in 1 .. k /\ j \in 0 .. k /\ j - 1 \in 0 .. k BY <2>2, <3>2, <4>2
        <5> QED BY <2>1, <2>5, <5>1
      <4> QED BY <4>1, <4>2
    <3> QED BY <3>1, <3>2
  <2> QED BY <2>2, <2>4, <2>7
<1>3. n \in T
  <2> HIDE DEF T
  <2>1. 0 .. n \subseteq T BY <1>1, <1>2, UpTo
  <2> QED BY <2>1
<1> QED BY <1>3 DEF Recursive

\* The least of a set of numbers.
LEMMA MinOf ==
  ASSUME NEW T, T \subseteq Nat, T # {}
  PROVE  Min(T) \in T
<1>1. PICK x \in T : \A y \in T : x <= y BY LeastNumber
<1> QED BY <1>1, Zenon DEF Min

\* The start of a text is a place.
LEMMA StartOfText == Min(Place) \in Place
<1>1. PICK x \in Place : \A y \in Place : x <= y BY WindowsAssumption
<1> QED BY <1>1, Zenon DEF Min

-----------------------------------------------------------------------------
(* Lists. *)

\* An element of a list is replaced.
LEMMA Replaced ==
  ASSUME NEW A, NEW s \in Seq(A), NEW i \in DOMAIN s, NEW e \in A
  PROVE  LET t == ReplaceAt(s, i, e)
         IN /\ t \in Seq(A) /\ Len(t) = Len(s) /\ DOMAIN t = DOMAIN s /\ t[i] = e
            /\ \A j \in DOMAIN s : j # i => t[j] = s[j]
BY ExceptSeq DEF ReplaceAt

\* Every element is replaced.
LEMMA Mapped ==
  ASSUME NEW A, NEW s \in Seq(A), NEW t, DOMAIN t = DOMAIN s, t = [i \in DOMAIN s |-> t[i]],
         \A i \in DOMAIN s : t[i] \in A
  PROVE  t \in Seq(A) /\ Len(t) = Len(s)
<1>1. DOMAIN s = 1 .. Len(s) /\ Len(s) \in Nat BY LenProperties
<1>2. t \in [1 .. Len(s) -> A] BY <1>1
<1>3. t \in Seq(A) BY <1>1, <1>2, SeqDef
<1>4. Len(t) \in Nat /\ DOMAIN t = 1 .. Len(t) BY <1>3, LenProperties
<1> QED BY <1>1, <1>3, <1>4

\* An element is put in.
LEMMA Inserted ==
  ASSUME NEW A, NEW s \in Seq(A), NEW i \in 1 .. Len(s) + 1, NEW e \in A
  PROVE  LET t == InsertAt(s, i, e)
         IN /\ t \in Seq(A) /\ Len(t) = Len(s) + 1 /\ t[i] = e
            /\ \A j \in 1 .. i - 1 : t[j] = s[j]
            /\ \A j \in i + 1 .. Len(s) + 1 : t[j] = s[j - 1]
<1> DEFINE u == SubSeq(s, 1, i - 1)
           v == SubSeq(s, i, Len(s))
<1>0. Len(s) \in Nat OBVIOUS
<1>1. u \in Seq(A) /\ Len(u) = i - 1 /\ \A j \in 1 .. i - 1 : u[j] = s[j] BY <1>0
<1>2. v \in Seq(A) /\ Len(v) = Len(s) - i + 1 /\ \A j \in 1 .. Len(s) - i + 1 : v[j] = s[i + j - 1]
  BY <1>0
<1> HIDE DEF u, v
<1>3. (u \o <<e>>) \in Seq(A) /\ Len(u \o <<e>>) = i /\ (u \o <<e>>)[i] = e
      /\ \A j \in 1 .. i - 1 : (u \o <<e>>)[j] = u[j]
  BY <1>1
<1> DEFINE w == u \o <<e>>
<1> HIDE DEF w
<1>4. w \in Seq(A) /\ Len(w) = i /\ w[i] = e /\ \A j \in 1 .. i - 1 : w[j] = u[j] BY <1>3 DEF w
<1>5. w \o v \in Seq(A) /\ Len(w \o v) = Len(s) + 1 /\ (\A j \in 1 .. i : (w \o v)[j] = w[j])
      /\ \A j \in i + 1 .. Len(s) + 1 : (w \o v)[j] = v[j - i]
  <2>1. Len(w) + Len(v) = Len(s) + 1 BY <1>0, <1>2, <1>4
  <2>2. w \o v \in Seq(A) /\ Len(w \o v) = Len(w) + Len(v)
        /\ \A j \in 1 .. Len(w) + Len(v) : (w \o v)[j] = IF j <= Len(w) THEN w[j] ELSE v[j - Len(w)]
    BY <1>2, <1>4, ConcatProperties
  <2> QED BY <1>0, <1>4, <2>1, <2>2
<1>6. \A j \in i + 1 .. Len(s) + 1 : v[j - i] = s[j - 1] BY <1>0, <1>2
<1>7. InsertAt(s, i, e) = w \o v BY DEF InsertAt, u, v, w
<1> QED BY <1>1, <1>4, <1>5, <1>6, <1>7

\* An element is taken out.
LEMMA TakenOut ==
  ASSUME NEW A, NEW s \in Seq(A), NEW i \in DOMAIN s
  PROVE  LET t == RemoveAt(s, i)
         IN /\ t \in Seq(A) /\ Len(t) = Len(s) - 1 /\ Len(s) \in Nat \ {0}
            /\ \A j \in 1 .. i - 1 : t[j] = s[j]
            /\ \A j \in i .. Len(s) - 1 : t[j] = s[j + 1]
<1> DEFINE u == SubSeq(s, 1, i - 1)
           v == SubSeq(s, i + 1, Len(s))
<1>0. Len(s) \in Nat \ {0} /\ i \in 1 .. Len(s) OBVIOUS
<1>1. u \in Seq(A) /\ Len(u) = i - 1 /\ \A j \in 1 .. i - 1 : u[j] = s[j] BY <1>0
<1>2. v \in Seq(A) /\ Len(v) = Len(s) - i /\ \A j \in 1 .. Len(s) - i : v[j] = s[i + j]
  BY <1>0
<1> HIDE DEF u, v
<1>3. u \o v \in Seq(A) /\ Len(u \o v) = Len(s) - 1 /\ (\A j \in 1 .. i - 1 : (u \o v)[j] = u[j])
      /\ \A j \in i .. Len(s) - 1 : (u \o v)[j] = v[j - i + 1]
  BY <1>0, <1>1, <1>2
<1>4. \A j \in i .. Len(s) - 1 : v[j - i + 1] = s[j + 1] BY <1>0, <1>2
<1> DEFINE t == RemoveAt(s, i)
<1>5. t = u \o v BY DEF RemoveAt, u, v
<1> HIDE DEF t
<1>6. t \in Seq(A) /\ Len(t) = Len(s) - 1 /\ (\A j \in 1 .. i - 1 : t[j] = s[j])
      /\ \A j \in i .. Len(s) - 1 : t[j] = s[j + 1]
  BY <1>1, <1>3, <1>4, <1>5
<1> QED BY <1>0, <1>6 DEF t

\* Where what is on a list is.
LEMMA Position ==
  ASSUME NEW s, NEW b \in Range(s)
  PROVE  PlaceIn(s, b) \in DOMAIN s /\ s[PlaceIn(s, b)] = b
<1>1. \E i \in DOMAIN s : s[i] = b BY DEF Range
<1> QED BY <1>1, Zenon DEF PlaceIn

\* No two elements of a list are equal.
Distinct(s) == \A i, j \in DOMAIN s : s[i] = s[j] => i = j

\* The names of a list are in the order of their ranks.
Sorted(ns) == \A i, j \in DOMAIN ns : i <= j => Rank[ns[i]] <= Rank[ns[j]]

\* The list stays free of doubles when something new is put in.
LEMMA InsertDistinct ==
  ASSUME NEW A, NEW s \in Seq(A), NEW i \in 1 .. Len(s) + 1, NEW e \in A,
         Distinct(s), e \notin Range(s)
  PROVE  Distinct(InsertAt(s, i, e)) /\ Range(InsertAt(s, i, e)) = Range(s) \cup {e}
<1> DEFINE t == InsertAt(s, i, e)
           from == [j \in 1 .. Len(s) + 1 |-> IF j < i THEN j ELSE j - 1]
<1>1. /\ t \in Seq(A) /\ Len(t) = Len(s) + 1 /\ t[i] = e /\ Len(s) \in Nat
      /\ \A j \in 1 .. i - 1 : t[j] = s[j]
      /\ \A j \in i + 1 .. Len(s) + 1 : t[j] = s[j - 1]
  BY Inserted
<1> HIDE DEF t
<1>2. DOMAIN t = 1 .. Len(s) + 1 /\ DOMAIN s = 1 .. Len(s) BY <1>1
<1>3. \A j \in DOMAIN t \ {i} : from[j] \in DOMAIN s /\ t[j] = s[from[j]] BY <1>1, <1>2
<1>4. \A j, k \in DOMAIN t \ {i} : from[j] = from[k] => j = k BY <1>1, <1>2
<1>5. \A j \in DOMAIN s : \E k \in DOMAIN t : t[k] = s[j]
  <2> TAKE j \in DOMAIN s
  <2>1. CASE j < i
    <3>1. j \in 1 .. i - 1 /\ j \in DOMAIN t BY <1>1, <1>2, <2>1
    <3> QED BY <1>1, <3>1
  <2>2. CASE ~ (j < i)
    <3>1. j + 1 \in i + 1 .. Len(s) + 1 /\ j + 1 \in DOMAIN t /\ j + 1 - 1 = j BY <1>1, <1>2, <2>2
    <3>2. t[j + 1] = s[j] BY <1>1, <3>1
    <3> QED BY <3>1, <3>2
  <2> QED BY <2>1, <2>2
<1> HIDE DEF from
<1>6. i \in DOMAIN t BY <1>1, <1>2
<1>7. \A j \in DOMAIN s : s[j] # e BY DEF Range
<1>8. Distinct(t)
  <2> SUFFICES ASSUME NEW j \in DOMAIN t, NEW k \in DOMAIN t, t[j] = t[k] PROVE j = k
    BY DEF Distinct
  <2>1. CASE j # i /\ k # i BY <1>3, <1>4, <2>1 DEF Distinct
  <2>2. \A l \in DOMAIN t \ {i} : t[l] # e BY <1>3, <1>7
  <2>3. CASE j = i \/ k = i BY <1>1, <2>2, <2>3
  <2> QED BY <2>1, <2>3
<1>9. Range(t) = Range(s) \cup {e} BY <1>1, <1>3, <1>5, <1>6 DEF Range
<1> QED BY <1>8, <1>9 DEF t

\* So it does when something is taken out; the order stays.
LEMMA RemoveDistinct ==
  ASSUME NEW A, NEW s \in Seq(A), NEW i \in DOMAIN s, Distinct(s)
  PROVE  /\ Distinct(RemoveAt(s, i)) /\ Range(RemoveAt(s, i)) = Range(s) \ {s[i]}
         /\ Sorted(s) => Sorted(RemoveAt(s, i))
<1> DEFINE t == RemoveAt(s, i)
           from == [j \in 1 .. Len(s) - 1 |-> IF j < i THEN j ELSE j + 1]
<1>1. /\ t \in Seq(A) /\ Len(t) = Len(s) - 1 /\ Len(s) \in Nat \ {0}
      /\ \A j \in 1 .. i - 1 : t[j] = s[j]
      /\ \A j \in i .. Len(s) - 1 : t[j] = s[j + 1]
  BY TakenOut
<1> HIDE DEF t
<1>2. DOMAIN t = 1 .. Len(s) - 1 /\ DOMAIN s = 1 .. Len(s) BY <1>1
<1>3. \A j \in DOMAIN t : from[j] \in DOMAIN s \ {i} /\ t[j] = s[from[j]] BY <1>1, <1>2
<1>4. \A j, k \in DOMAIN t : /\ from[j] = from[k] => j = k
                             /\ j <= k => from[j] <= from[k]
  BY <1>1, <1>2
<1>5. \A j \in DOMAIN s \ {i} : \E k \in DOMAIN t : t[k] = s[j]
  <2> TAKE j \in DOMAIN s \ {i}
  <2>1. CASE j < i
    <3>1. j \in 1 .. i - 1 /\ j \in DOMAIN t BY <1>1, <1>2, <2>1
    <3> QED BY <1>1, <3>1
  <2>2. CASE ~ (j < i)
    <3>1. j - 1 \in i .. Len(s) - 1 /\ j - 1 \in DOMAIN t /\ j - 1 + 1 = j BY <1>1, <1>2, <2>2
    <3>2. t[j - 1] = s[j] BY <1>1, <3>1
    <3> QED BY <3>1, <3>2
  <2> QED BY <2>1, <2>2
<1> HIDE DEF from
<1>6. Distinct(t) BY <1>3, <1>4 DEF Distinct
<1>7. \A j \in DOMAIN s : s[j] = s[i] => j = i BY DEF Distinct
<1>8. Range(t) = Range(s) \ {s[i]} BY <1>3, <1>5, <1>7 DEF Range
<1>9. Sorted(s) => Sorted(t) BY <1>3, <1>4 DEF Sorted
<1> QED BY <1>6, <1>8, <1>9 DEF t

\* The lists of the buffers and of their names.
Name == Buffer \cup {PAW}

Listed(bs, ns) ==
  /\ bs \in Seq(Buffer) /\ ns \in Seq(Name) /\ Distinct(bs) /\ Distinct(ns) /\ Sorted(ns)
  /\ Range(ns) = Range(bs) \cup {PAW} /\ Len(ns) = Len(bs) + 1

\* addbname puts a name behind those of no higher rank.
LEMMA NamePlace ==
  ASSUME NEW ns \in Seq(Name), Sorted(ns), NEW b \in Buffer
  PROVE  LET i == Cardinality({j \in DOMAIN ns : Rank[ns[j]] <= Rank[b]})
         IN /\ i \in 0 .. Len(ns)
            /\ \A j \in 1 .. i : Rank[ns[j]] <= Rank[b]
            /\ \A j \in i + 1 .. Len(ns) : Rank[b] <= Rank[ns[j]]
<1> DEFINE D == {j \in DOMAIN ns : Rank[ns[j]] <= Rank[b]}
           L == Len(ns)
           U == {j \in 1 .. L + 1 : j = L + 1 \/ Rank[b] < Rank[ns[j]]}
<1>1. L \in Nat /\ DOMAIN ns = 1 .. L OBVIOUS
<1>2. Rank[b] \in Int /\ \A j \in 1 .. L : Rank[ns[j]] \in Int
  BY <1>1, WindowsAssumption DEF Name
<1>3. PICK m \in U : \A j \in U : m <= j
  <2>1. L + 1 \in U /\ U \subseteq Nat BY <1>1
  <2> HIDE DEF U
  <2> QED BY <2>1, LeastNumber
<1>4. \A j \in 1 .. m - 1 : Rank[ns[j]] <= Rank[b]
  <2> TAKE j \in 1 .. m - 1
  <2>1. j \in 1 .. L /\ j \in 1 .. L + 1 /\ ~ (m <= j) BY <1>1, <1>3
  <2>2. j \notin U BY <1>3, <2>1
  <2> QED BY <1>2, <2>1, <2>2
<1>5. \A j \in m .. L : Rank[b] < Rank[ns[j]]
  <2> TAKE j \in m .. L
  <2>1. j \in 1 .. L /\ m \in 1 .. L /\ m <= j BY <1>1, <1>3
  <2>2. Rank[b] < Rank[ns[m]] BY <1>1, <1>3, <2>1
  <2>3. Rank[ns[m]] <= Rank[ns[j]] BY <1>1, <2>1 DEF Sorted
  <2> QED BY <1>2, <2>1, <2>2, <2>3
<1>6. m \in 1 .. L + 1 BY <1>3
<1>7. D = 1 .. m - 1
  <2>1. ASSUME NEW j \in 1 .. L PROVE j \in D <=> j \in 1 .. m - 1
    <3>1. CASE j \in 1 .. m - 1 BY <1>1, <1>4, <2>1, <3>1
    <3>2. CASE j \notin 1 .. m - 1
      <4>1. j \in m .. L BY <1>1, <1>6, <2>1, <3>2
      <4>2. ~ (Rank[ns[j]] <= Rank[b]) BY <1>2, <1>5, <2>1, <4>1
      <4> QED BY <3>2, <4>2
    <3> QED BY <3>1, <3>2
  <2>2. 1 .. m - 1 \subseteq 1 .. L BY <1>1, <1>6
  <2> QED BY <1>1, <2>1, <2>2
<1>8. Cardinality(D) = m - 1
  <2>1. 1 \in Int /\ m - 1 \in Int /\ m - 1 - 1 + 1 = m - 1 /\ (1 > m - 1 => m - 1 = 0) BY <1>6
  <2> DEFINE n == m - 1
  <2> HIDE DEF n
  <2>2. Cardinality(1 .. n) = IF 1 > n THEN 0 ELSE n - 1 + 1 BY <2>1, FS_Interval DEF n
  <2> QED BY <1>7, <2>1, <2>2 DEF n
<1> HIDE DEF D
<1>9. Cardinality(D) \in 0 .. L /\ Cardinality(D) + 1 = m BY <1>1, <1>6, <1>8
<1>10. \A j \in m .. L : Rank[b] <= Rank[ns[j]] BY <1>1, <1>2, <1>5, <1>6
<1> QED BY <1>4, <1>8, <1>9, <1>10 DEF D

\* A new buffer is listed.
LEMMA Added ==
  ASSUME NEW bs, NEW ns, Listed(bs, ns), NEW b \in Buffer, b \notin Range(bs)
  PROVE  Listed(Append(bs, b), addbname(ns, b)) /\ Range(Append(bs, b)) = Range(bs) \cup {b}
<1> DEFINE i == Cardinality({j \in DOMAIN ns : Rank[ns[j]] <= Rank[b]})
           n == i + 1
           t == InsertAt(ns, n, b)
           L == Len(ns)
<1>1. bs \in Seq(Buffer) /\ ns \in Seq(Name) /\ Distinct(bs) /\ Distinct(ns) /\ Sorted(ns)
      /\ Range(ns) = Range(bs) \cup {PAW} /\ L = Len(bs) + 1 /\ b \in Name
  BY DEF Listed, Name
<1>2. /\ i \in 0 .. L /\ \A j \in 1 .. i : Rank[ns[j]] <= Rank[b]
      /\ \A j \in i + 1 .. L : Rank[b] <= Rank[ns[j]]
  BY <1>1, NamePlace
<1>3. addbname(ns, b) = SubSeq(ns, 1, i) \o <<b>> \o SubSeq(ns, i + 1, Len(ns)) BY DEF addbname
<1> HIDE DEF i
<1>4. L \in Nat /\ i \in Nat /\ n = i + 1 /\ n - 1 = i /\ n \in 1 .. L + 1 BY <1>1, <1>2
<1>5. addbname(ns, b) = t
  <2>1. t = SubSeq(ns, 1, n - 1) \o <<b>> \o SubSeq(ns, n, Len(ns)) BY DEF InsertAt
  <2> QED BY <1>3, <1>4, <2>1
<1> HIDE DEF n
<1>6. b \notin Range(ns) BY <1>1, WindowsAssumption
<1>7. Distinct(t) /\ Range(t) = Range(ns) \cup {b} BY <1>1, <1>4, <1>6, InsertDistinct
<1>8. /\ t \in Seq(Name) /\ Len(t) = L + 1 /\ t[i + 1] = b
      /\ \A j \in 1 .. i : t[j] = ns[j]
      /\ \A j \in i + 2 .. L + 1 : t[j] = ns[j - 1]
  <2>1. /\ t \in Seq(Name) /\ Len(t) = L + 1 /\ t[n] = b
        /\ \A j \in 1 .. n - 1 : t[j] = ns[j]
        /\ \A j \in n + 1 .. L + 1 : t[j] = ns[j - 1]
    <3>1. ns \in Seq(Name) /\ b \in Name /\ n \in 1 .. Len(ns) + 1 BY <1>1, <1>4
    <3> QED BY ONLY <3>1, Inserted
  <2>2. n + 1 = i + 2 BY <1>4
  <2> QED BY <1>4, <2>1, <2>2
<1> HIDE DEF t
<1>9. Sorted(t)
  <2> SUFFICES ASSUME NEW j \in DOMAIN t, NEW k \in DOMAIN t, j <= k
               PROVE  Rank[t[j]] <= Rank[t[k]]
    BY DEF Sorted
  <2>1. DOMAIN t = 1 .. L + 1 /\ DOMAIN ns = 1 .. L BY <1>1, <1>4, <1>8
  <2>2. Rank[b] \in Int /\ \A l \in 1 .. L : Rank[ns[l]] \in Int
    BY <1>1, <2>1, WindowsAssumption DEF Name
  <2>3. CASE j \in 1 .. i /\ k \in 1 .. i BY <1>1, <1>4, <1>8, <2>1, <2>3 DEF Sorted
  <2>4. CASE j \in 1 .. i /\ k = i + 1 BY <1>2, <1>8, <2>4
  <2>5. CASE j \in 1 .. i /\ k \in i + 2 .. L + 1
    <3>1. k - 1 \in 1 .. L /\ j \in 1 .. L /\ j <= k - 1 BY <1>2, <1>4, <2>5
    <3> QED BY <1>1, <1>8, <2>1, <2>5, <3>1 DEF Sorted
  <2>6. CASE j = i + 1 /\ k = i + 1 BY <1>8, <2>2, <2>6
  <2>7. CASE j = i + 1 /\ k \in i + 2 .. L + 1
    <3>1. k - 1 \in i + 1 .. L BY <1>4, <2>7
    <3> QED BY <1>2, <1>8, <2>7, <3>1
  <2>8. CASE j \in i + 2 .. L + 1 /\ k \in i + 2 .. L + 1
    <3>1. k - 1 \in 1 .. L /\ j - 1 \in 1 .. L /\ j - 1 <= k - 1 BY <1>2, <1>4, <2>8
    <3> QED BY <1>1, <1>8, <2>1, <2>8, <3>1 DEF Sorted
  <2> QED BY <1>4, <2>1, <2>3, <2>4, <2>5, <2>6, <2>7, <2>8
<1> DEFINE u == Append(bs, b)
<1>10. /\ u \in Seq(Buffer) /\ Len(u) = Len(bs) + 1 /\ u[Len(bs) + 1] = b
       /\ \A j \in 1 .. Len(bs) : u[j] = bs[j]
  BY <1>1, AppendProperties
<1> HIDE DEF u
<1>11. DOMAIN u = 1 .. Len(bs) + 1 /\ DOMAIN bs = 1 .. Len(bs) /\ Len(bs) \in Nat BY <1>1, <1>10
<1>12. \A j \in DOMAIN u : (j \in DOMAIN bs /\ u[j] = bs[j]) \/ (j = Len(bs) + 1 /\ u[j] = b)
  BY <1>10, <1>11
<1>13. DOMAIN bs \subseteq DOMAIN u /\ Len(bs) + 1 \in DOMAIN u BY <1>11
<1>14. \A j \in DOMAIN bs : bs[j] # b BY DEF Range
<1>15. Distinct(u) BY <1>1, <1>12, <1>14 DEF Distinct
<1>16. Range(u) = Range(bs) \cup {b}
  <2>1. \A x \in Range(u) : x \in Range(bs) \cup {b} BY <1>12 DEF Range
  <2>2. \A x \in Range(bs) : x \in Range(u) BY <1>10, <1>11, <1>13 DEF Range
  <2>3. b \in Range(u) BY <1>10, <1>13 DEF Range
  <2> QED BY <2>1, <2>2, <2>3
<1>17. Listed(u, t) BY <1>1, <1>4, <1>7, <1>8, <1>9, <1>10, <1>15, <1>16 DEF Listed
<1> QED BY <1>5, <1>16, <1>17 DEF u

\* A buffer that goes is listed no more.
LEMMA Delisted ==
  ASSUME NEW bs, NEW ns, Listed(bs, ns), NEW b \in Range(bs)
  PROVE  /\ Listed(RemoveAt(bs, PlaceIn(bs, b)), delbname(ns, b))
         /\ Range(RemoveAt(bs, PlaceIn(bs, b))) = Range(bs) \ {b}
<1> DEFINE i == PlaceIn(bs, b)
           k == PlaceIn(ns, b)
<1>1. bs \in Seq(Buffer) /\ ns \in Seq(Name) /\ Distinct(bs) /\ Distinct(ns) /\ Sorted(ns)
      /\ Range(ns) = Range(bs) \cup {PAW} /\ Len(ns) = Len(bs) + 1
  BY DEF Listed
<1>2. i \in DOMAIN bs /\ bs[i] = b /\ k \in DOMAIN ns /\ ns[k] = b BY <1>1, Position
<1> HIDE DEF i, k
<1> DEFINE u == RemoveAt(bs, i)
           t == RemoveAt(ns, k)
<1>3. u \in Seq(Buffer) /\ Len(u) = Len(bs) - 1 /\ Distinct(u) /\ Range(u) = Range(bs) \ {b}
  BY <1>1, <1>2, TakenOut, RemoveDistinct
<1>4. t \in Seq(Name) /\ Len(t) = Len(ns) - 1 /\ Distinct(t) /\ Sorted(t)
      /\ Range(t) = Range(ns) \ {b}
  BY <1>1, <1>2, TakenOut, RemoveDistinct
<1> HIDE DEF u, t
<1>5. b \in Buffer /\ b # PAW /\ Len(bs) \in Nat
  BY <1>1, <1>2, WindowsAssumption
<1>6. Len(t) = Len(u) + 1 BY <1>1, <1>3, <1>4, <1>5
<1>7. Range(t) = Range(u) \cup {PAW} BY <1>1, <1>3, <1>4, <1>5
<1>8. Listed(u, t) BY <1>3, <1>4, <1>6, <1>7 DEF Listed
<1> QED BY <1>3, <1>8 DEF u, t, i, k, delbname

\* A name goes into any list.
LEMMA NameAdded ==
  ASSUME NEW ns \in Seq(Name), NEW b \in Buffer
  PROVE  addbname(ns, b) \in Seq(Name)
<1> DEFINE D == {j \in DOMAIN ns : Rank[ns[j]] <= Rank[b]}
           i == Cardinality(D)
           L == Len(ns)
<1>1. L \in Nat /\ DOMAIN ns = 1 .. L /\ b \in Name BY DEF Name
<1>2. IsFiniteSet(1 .. L) /\ Cardinality(1 .. L) = L
  <2>1. 1 \in Int /\ L \in Int /\ (1 > L => L = 0) /\ L - 1 + 1 = L BY <1>1
  <2>2. IsFiniteSet(1 .. L) /\ Cardinality(1 .. L) = IF 1 > L THEN 0 ELSE L - 1 + 1
    BY <2>1, FS_Interval
  <2> QED BY <2>1, <2>2
<1>3. D \subseteq 1 .. L BY <1>1
<1> HIDE DEF D
<1>4. IsFiniteSet(D) /\ i <= L BY <1>2, <1>3, FS_Subset
<1>5. i \in Nat BY <1>4, FS_CardinalityType
<1>6. addbname(ns, b) = SubSeq(ns, 1, i) \o <<b>> \o SubSeq(ns, i + 1, L) BY DEF addbname, D
<1> HIDE DEF i, L
<1>7. SubSeq(ns, 1, i) \in Seq(Name) /\ SubSeq(ns, i + 1, L) \in Seq(Name) /\ <<b>> \in Seq(Name)
  BY <1>1, <1>4, <1>5
<1> QED BY <1>6, <1>7

\* The names of the buffers there are at the start.
LEMMA NamesListed ==
  ASSUME NEW list \in Seq(Buffer), Distinct(list)
  PROVE  Listed(list, Names(list))
<1> DEFINE n == Len(list)
           added == CHOOSE f : f = [k \in 0 .. n |->
                      IF k = 0 THEN <<PAW>> ELSE addbname(f[k - 1], list[k])]
           next == [k \in 1 .. n |-> [x \in Seq(Name) |-> addbname(x, list[k])]]
<1>1. n \in Nat /\ DOMAIN list = 1 .. n /\ \A k \in 1 .. n : list[k] \in Buffer OBVIOUS
<1>2. <<PAW>> \in Seq(Name) BY DEF Name
<1>3. next \in [1 .. n -> [Seq(Name) -> Seq(Name)]] BY <1>1, NameAdded
<1>4. PICK g \in [0 .. n -> Seq(Name)] :
        g[0] = <<PAW>> /\ \A k \in 1 .. n : g[k] = next[k][g[k - 1]]
  <2>1. Recursive(n, Seq(Name), <<PAW>>, next) # {}
    <3> HIDE DEF next, n
    <3> QED BY <1>1, <1>2, <1>3, Recursion
  <2> QED BY <2>1 DEF Recursive
<1>5. \A k \in 1 .. n : next[k][g[k - 1]] = addbname(g[k - 1], list[k])
  <2> TAKE k \in 1 .. n
  <2>1. k - 1 \in 0 .. n BY <1>1
  <2>2. g[k - 1] \in Seq(Name) BY <2>1
  <2> QED BY <2>2
<1>6. g = [k \in 0 .. n |-> IF k = 0 THEN <<PAW>> ELSE addbname(g[k - 1], list[k])]
  <2>1. \A k \in 0 .. n : g[k] = IF k = 0 THEN <<PAW>> ELSE addbname(g[k - 1], list[k])
    <3> HIDE DEF next
    <3> TAKE k \in 0 .. n
    <3>1. k # 0 => k \in 1 .. n BY <1>1
    <3> QED BY <1>4, <1>5, <3>1
  <2> QED BY <2>1
<1>7. added = [k \in 0 .. n |-> IF k = 0 THEN <<PAW>> ELSE addbname(added[k - 1], list[k])]
  BY <1>6
<1>8. Names(list) = added[n] BY DEF Names
<1> HIDE DEF added, next
<1> DEFINE T == {k \in 0 .. n : Listed(SubSeq(list, 1, k), added[k])}
<1>9. 0 \in T
  <2>1. added[0] = <<PAW>> /\ SubSeq(list, 1, 0) = <<>> /\ 0 \in 0 .. n BY <1>1, <1>7
  <2>2. <<>> \in Seq(Buffer) /\ <<PAW>> \in Seq(Name) /\ Len(<<>>) = 0 /\ Len(<<PAW>>) = 1
    BY <1>2
  <2>3. DOMAIN <<>> = {} /\ DOMAIN <<PAW>> = {1} /\ <<PAW>>[1] = PAW OBVIOUS
  <2>4. Range(<<>>) = {} /\ Range(<<PAW>>) = {PAW} BY <2>3 DEF Range
  <2>5. Distinct(<<>>) /\ Distinct(<<PAW>>) BY <2>3 DEF Distinct
  <2>6. Sorted(<<PAW>>)
    <3>1. Rank[PAW] \in Int BY WindowsAssumption
    <3> QED BY <2>3, <3>1 DEF Sorted
  <2>7. Listed(<<>>, <<PAW>>) BY <2>2, <2>4, <2>5, <2>6 DEF Listed
  <2> QED BY <2>1, <2>7
<1>10. ASSUME NEW k \in 0 .. n - 1, k \in T PROVE k + 1 \in T
  <2>1. k + 1 \in 0 .. n /\ k + 1 \in 1 .. n /\ k + 1 - 1 = k /\ k + 1 # 0 /\ k \in Nat BY <1>1
  <2>2. added[k + 1] = addbname(added[k], list[k + 1])
    <3>1. \A j \in 0 .. n : added[j] = IF j = 0 THEN <<PAW>> ELSE addbname(added[j - 1], list[j])
      BY <1>7
    <3>2. added[k + 1] = addbname(added[k + 1 - 1], list[k + 1]) BY <2>1, <3>1
    <3> QED BY <2>1, <3>2
  <2> DEFINE s == SubSeq(list, 1, k)
  <2>3. s \in Seq(Buffer) /\ Len(s) = k /\ \A j \in 1 .. k : s[j] = list[j] BY <1>1, <2>1
  <2>4. SubSeq(list, 1, k + 1) = Append(s, list[k + 1])
    <3> DEFINE t == SubSeq(list, 1, k + 1)
               u == Append(s, list[k + 1])
    <3> HIDE DEF s
    <3>1. t \in Seq(Buffer) /\ Len(t) = k + 1 /\ \A j \in 1 .. k + 1 : t[j] = list[j]
      BY <1>1, <2>1
    <3>2. u \in Seq(Buffer) /\ Len(u) = k + 1 /\ u[k + 1] = list[k + 1]
          /\ \A j \in 1 .. k : u[j] = s[j]
      BY <1>1, <2>1, <2>3, AppendProperties
    <3> HIDE DEF t, u
    <3>3. \A j \in 1 .. Len(t) : t[j] = u[j]
      <4> TAKE j \in 1 .. Len(t)
      <4>1. j \in 1 .. k \/ j = k + 1 BY <2>1, <3>1
      <4> QED BY <2>1, <2>3, <3>1, <3>2, <4>1
    <3>4. t = u BY <3>1, <3>2, <3>3, SeqEqual
    <3> QED BY <3>4 DEF t, u
  <2>5. list[k + 1] \notin Range(s)
    <3>1. ASSUME NEW j \in 1 .. k PROVE list[j] # list[k + 1]
      <4>1. j \in 1 .. n /\ j # k + 1 BY <1>1, <2>1
      <4> QED BY <1>1, <2>1, <4>1 DEF Distinct
    <3>2. DOMAIN s = 1 .. k BY <2>1, <2>3
    <3> HIDE DEF s
    <3> QED BY <2>3, <3>1, <3>2 DEF Range
  <2>6. Listed(s, added[k]) BY <1>10
  <2> HIDE DEF s
  <2>7. Listed(Append(s, list[k + 1]), addbname(added[k], list[k + 1]))
    BY <1>1, <2>1, <2>5, <2>6, Added
  <2> QED BY <2>1, <2>2, <2>4, <2>7
<1>11. n \in T
  <2> HIDE DEF T
  <2>1. 0 .. n \subseteq T BY <1>1, <1>9, <1>10, UpTo
  <2> QED BY <1>1, <2>1
<1>12. SubSeq(list, 1, n) = list BY <1>1
<1> QED BY <1>8, <1>11, <1>12

-----------------------------------------------------------------------------
(* What the functions keep. *)

Window == [buff : Buffer, pnt : MarkName, mrk : MarkName \cup {NIL},
           start : Buffer, first : Int, last : Int, left : Place]

State == [bufs : Seq(Buffer), names : Seq(Name), last : Buffer \cup {NIL}, cur : Buffer,
          pnt : [Buffer -> Place], umark : [Buffer -> Place \cup {NIL}],
          wins : Seq(Window), curw : Nat, sstart : Buffer]

\* A window shows a buffer there is, and starts in it; unless st, it has its
\* point, its mark and the place it was left at in it too.
Shows(w, live, st) ==
  /\ w.buff \in live /\ w.start = w.buff
  /\ st \/ (w.pnt.buff = w.buff /\ (w.mrk = NIL \/ w.mrk.buff = w.buff) /\ w.left = w.pnt.at)

\* Between two calls that a command makes.
Between(s, st) ==
  /\ s \in State /\ Listed(s.bufs, s.names) /\ s.cur \in Range(s.bufs)
  /\ s.curw \in DOMAIN s.wins
  /\ \A i \in DOMAIN s.wins : Shows(s.wins[i], Range(s.bufs), st)

Shown(s, st) == st \/ s.wins[s.curw].buff = s.cur

\* From one command to the next.
Settled(s, st) == Between(s, st) /\ Shown(s, st)

\* No window gets larger or smaller.
SameSizes(s, t) ==
  /\ Len(t.wins) = Len(s.wins) /\ DOMAIN t.wins = DOMAIN s.wins
  /\ \A i \in DOMAIN s.wins : t.wins[i].first = s.wins[i].first /\ t.wins[i].last = s.wins[i].last

\* A window that takes over the current point is of the current buffer.
LEMMA PointTaken ==
  ASSUME NEW s \in State, NEW w \in Window
  PROVE  LET t == TakePoint(s, w)
         IN /\ t \in Window /\ t.buff = w.buff /\ t.start = w.start
            /\ t.first = w.first /\ t.last = w.last
            /\ t.pnt.buff = s.cur /\ t.left = t.pnt.at
            /\ t.mrk = NIL \/ t.mrk.buff = s.cur
<1> DEFINE p == s.pnt[s.cur]
           m == IF s.umark[s.cur] # NIL THEN Mark(s.cur, s.umark[s.cur]) ELSE NIL
           t == [w EXCEPT !.pnt = Mark(s.cur, p), !.left = p, !.mrk = m]
<1>1. s.cur \in Buffer /\ p \in Place /\ s.umark[s.cur] \in Place \cup {NIL} BY DEF State
<1>2. Mark(s.cur, p) \in MarkName /\ Mark(s.cur, p).buff = s.cur /\ Mark(s.cur, p).at = p
  BY <1>1 DEF Mark, MarkName
<1>3. m \in MarkName \cup {NIL} /\ (m = NIL \/ m.buff = s.cur)
  BY <1>1 DEF Mark, MarkName
<1>4. TakePoint(s, w) = t BY DEF TakePoint, Here
<1> HIDE DEF m, p
<1>5. t \in Window /\ t.buff = w.buff /\ t.start = w.start /\ t.first = w.first /\ t.last = w.last
      /\ t.pnt = Mark(s.cur, p) /\ t.left = p /\ t.mrk = m
  BY <1>1, <1>2, <1>3 DEF Window
<1> HIDE DEF t
<1> QED BY <1>2, <1>3, <1>4, <1>5

\* One window is replaced.
LEMMA WindowReplaced ==
  ASSUME NEW st, NEW s, Between(s, st), NEW i \in DOMAIN s.wins, NEW w \in Window,
         Shows(w, Range(s.bufs), st)
  PROVE  LET ws == ReplaceAt(s.wins, i, w)
         IN /\ ws \in Seq(Window) /\ DOMAIN ws = DOMAIN s.wins /\ Len(ws) = Len(s.wins) /\ ws[i] = w
            /\ \A j \in DOMAIN s.wins : j # i => ws[j] = s.wins[j]
            /\ \A j \in DOMAIN ws : Shows(ws[j], Range(s.bufs), st)
<1> DEFINE ws == ReplaceAt(s.wins, i, w)
<1>1. s.wins \in Seq(Window) BY DEF Between, State
<1>2. ws \in Seq(Window) /\ DOMAIN ws = DOMAIN s.wins /\ Len(ws) = Len(s.wins) /\ ws[i] = w
      /\ \A j \in DOMAIN s.wins : j # i => ws[j] = s.wins[j]
  <2> DEFINE v == s.wins
  <2>1. v \in Seq(Window) /\ i \in DOMAIN v BY <1>1
  <2> HIDE DEF v
  <2>2. LET t == ReplaceAt(v, i, w)
        IN /\ t \in Seq(Window) /\ DOMAIN t = DOMAIN v /\ Len(t) = Len(v) /\ t[i] = w
           /\ \A j \in DOMAIN v : j # i => t[j] = v[j]
    BY <2>1, Replaced
  <2> QED BY <2>2 DEF v
<1> HIDE DEF ws
<1>3. \A j \in DOMAIN ws : Shows(ws[j], Range(s.bufs), st) BY <1>2 DEF Between
<1> QED BY <1>2, <1>3 DEF ws

\* The buffer that is current changes, and the last one.
LEMMA CurChanged ==
  ASSUME NEW st, NEW s, Between(s, st), NEW b \in Range(s.bufs)
  PROVE  LET t == zswitchto(s, b)
         IN /\ Between(t, st) /\ t.cur = b /\ t.bufs = s.bufs /\ t.names = s.names
            /\ t.wins = s.wins /\ t.curw = s.curw
<1>1. s \in State /\ b \in Buffer
  <2>1. s \in State BY DEF Between
  <2>2. s.bufs \in Seq(Buffer) BY <2>1 DEF State
  <2> QED BY <2>1, <2>2 DEF Range
<1> DEFINE t == zswitchto(s, b)
<1>2. t \in State /\ t.cur = b /\ t.bufs = s.bufs /\ t.names = s.names /\ t.wins = s.wins
      /\ t.curw = s.curw
  BY <1>1 DEF zswitchto, State
<1> HIDE DEF t
<1>3. Between(t, st) BY <1>2 DEF Between
<1> QED BY <1>2, <1>3 DEF t

\* The last buffer is another one.
LEMMA LastChanged ==
  ASSUME NEW st, NEW s, Between(s, st), NEW b \in Buffer \cup {NIL}
  PROVE  LET t == [s EXCEPT !.last = b]
         IN /\ Between(t, st) /\ (Shown(s, st) => Shown(t, st)) /\ t.cur = s.cur /\ t.bufs = s.bufs
            /\ t.names = s.names /\ t.wins = s.wins /\ t.curw = s.curw
<1> DEFINE t == [s EXCEPT !.last = b]
<1>1. t \in State /\ t.cur = s.cur /\ t.bufs = s.bufs /\ t.names = s.names /\ t.wins = s.wins
      /\ t.curw = s.curw
  BY DEF Between, State
<1> HIDE DEF t
<1>2. Between(t, st) BY <1>1 DEF Between
<1>3. Shown(s, st) => Shown(t, st) BY <1>1 DEF Shown
<1> QED BY <1>1, <1>2, <1>3 DEF t

\* The marks of the buffers change.
LEMMA MarksChanged ==
  ASSUME NEW st, NEW s, Between(s, st),
         NEW pn \in [Buffer -> Place], NEW um \in [Buffer -> Place \cup {NIL}]
  PROVE  LET t == [s EXCEPT !.pnt = pn, !.umark = um]
         IN /\ Between(t, st) /\ (Shown(s, st) => Shown(t, st)) /\ t.cur = s.cur /\ t.bufs = s.bufs
            /\ t.names = s.names /\ t.wins = s.wins /\ t.curw = s.curw
            /\ t.pnt = pn /\ t.umark = um
<1> DEFINE t == [s EXCEPT !.pnt = pn, !.umark = um]
<1>1. t \in State /\ t.cur = s.cur /\ t.bufs = s.bufs /\ t.names = s.names /\ t.wins = s.wins
      /\ t.curw = s.curw /\ t.pnt = pn /\ t.umark = um
  BY DEF Between, State
<1> HIDE DEF t
<1>2. Between(t, st) BY <1>1 DEF Between
<1>3. Shown(s, st) => Shown(t, st) BY <1>1 DEF Shown
<1> QED BY <1>1, <1>2, <1>3 DEF t

\* cswitchto brings the current window and the current buffer together.
LEMMA BufferSwitched ==
  ASSUME NEW st, NEW s, Between(s, st), NEW b \in Range(s.bufs)
  PROVE  LET t == cswitchto(s, b)
         IN /\ Settled(t, st) /\ SameSizes(s, t) /\ t.cur = b /\ t.curw = s.curw
            /\ t.bufs = s.bufs /\ t.names = s.names
<1> DEFINE u == zswitchto(s, b)
<1>1. Between(u, st) /\ u.cur = b /\ u.bufs = s.bufs /\ u.names = s.names
      /\ u.wins = s.wins /\ u.curw = s.curw
  BY CurChanged
<1> HIDE DEF u
<1> DEFINE c == u.curw
           w == [TakePoint(u, u.wins[c]) EXCEPT !.buff = b, !.start = b]
           ws == ReplaceAt(u.wins, c, w)
           t == [u EXCEPT !.wins = ws]
<1>2. u \in State /\ c \in DOMAIN u.wins /\ u.wins[c] \in Window /\ b \in Buffer /\ b \in Range(u.bufs)
  BY <1>1 DEF Between, State
<1>3. cswitchto(s, b) = IF u.wins[c].buff = b THEN u ELSE t
  BY DEF cswitchto, Curwdo, u, ReplaceAt
<1>4. CASE u.wins[c].buff = b
  <2>1. Settled(u, st) BY <1>1, <1>4 DEF Settled, Shown
  <2>2. SameSizes(s, u) BY <1>1 DEF SameSizes
  <2> QED BY <1>1, <1>3, <1>4, <2>1, <2>2
<1>5. CASE u.wins[c].buff # b
  <2> DEFINE v == TakePoint(u, u.wins[c])
  <2>1. v \in Window /\ v.first = u.wins[c].first /\ v.last = u.wins[c].last
        /\ v.pnt.buff = b /\ v.left = v.pnt.at /\ (v.mrk = NIL \/ v.mrk.buff = b)
    BY <1>1, <1>2, PointTaken
  <2> HIDE DEF v
  <2>2. w = [v EXCEPT !.buff = b, !.start = b] BY DEF v
  <2>3. w \in Window /\ w.first = v.first /\ w.last = v.last /\ w.pnt = v.pnt /\ w.left = v.left
        /\ w.mrk = v.mrk /\ w.buff = b /\ w.start = b
    BY <1>2, <2>1, <2>2 DEF Window
  <2> HIDE DEF w
  <2>4. Shows(w, Range(u.bufs), st) BY <1>2, <2>1, <2>3 DEF Shows
  <2>5. /\ ws \in Seq(Window) /\ DOMAIN ws = DOMAIN u.wins /\ Len(ws) = Len(u.wins) /\ ws[c] = w
        /\ \A j \in DOMAIN u.wins : j # c => ws[j] = u.wins[j]
        /\ \A j \in DOMAIN ws : Shows(ws[j], Range(u.bufs), st)
    BY <1>1, <1>2, <2>3, <2>4, WindowReplaced
  <2> HIDE DEF ws
  <2>6. t \in State /\ t.cur = b /\ t.bufs = u.bufs /\ t.names = u.names /\ t.wins = ws /\ t.curw = c
    BY <1>1, <1>2, <2>5 DEF State
  <2> HIDE DEF t
  <2>7. Between(t, st) BY <1>1, <1>2, <2>5, <2>6 DEF Between
  <2>8. Settled(t, st) BY <2>3, <2>5, <2>6, <2>7 DEF Settled, Shown
  <2>9. SameSizes(s, t)
    <3>1. \A j \in DOMAIN u.wins : t.wins[j].first = u.wins[j].first /\ t.wins[j].last = u.wins[j].last
      BY <2>1, <2>3, <2>5, <2>6
    <3> QED BY <1>1, <2>5, <2>6, <3>1 DEF SameSizes
  <2> QED BY <1>1, <1>3, <1>5, <2>6, <2>8, <2>9
<1> QED BY <1>4, <1>5

\* Leaving the current window keeps its point, mark and start in it.
LEMMA Saved ==
  ASSUME NEW st, NEW s, Settled(s, st)
  PROVE  LET t == Save(s)
         IN /\ Settled(t, st) /\ SameSizes(s, t) /\ t.cur = s.cur /\ t.curw = s.curw
            /\ t.bufs = s.bufs /\ t.names = s.names /\ t.pnt = s.pnt /\ t.umark = s.umark
            /\ \A j \in DOMAIN s.wins : t.wins[j].buff = s.wins[j].buff
<1> DEFINE c == s.curw
           o == s.wins[c]
           v == TakePoint(s, o)
           b == IF s.sstart = v.buff THEN s.sstart ELSE v.start
           w == [v EXCEPT !.start = b]
           ws == ReplaceAt(s.wins, c, w)
           t == [s EXCEPT !.wins = ws]
<1>1. /\ Between(s, st) /\ s \in State /\ c \in DOMAIN s.wins /\ o \in Window
      /\ Shows(o, Range(s.bufs), st) /\ (st \/ o.buff = s.cur)
  BY DEF Settled, Shown, Between, State
<1>2. Save(s) = t BY DEF Save, ReplaceAt
<1> HIDE DEF c
<1>3. v \in Window /\ v.buff = o.buff /\ v.start = o.start /\ v.first = o.first /\ v.last = o.last
      /\ v.pnt.buff = s.cur /\ v.left = v.pnt.at /\ (v.mrk = NIL \/ v.mrk.buff = s.cur)
  BY <1>1, PointTaken
<1> HIDE DEF o, v
<1>4. b = v.buff /\ b \in Buffer BY <1>1, <1>3 DEF Shows, Window
<1> HIDE DEF b
<1>5. w \in Window /\ w.buff = v.buff /\ w.start = b /\ w.first = v.first /\ w.last = v.last
      /\ w.pnt = v.pnt /\ w.left = v.left /\ w.mrk = v.mrk
  BY <1>3, <1>4 DEF Window
<1> HIDE DEF w
<1>6. Shows(w, Range(s.bufs), st) BY <1>1, <1>3, <1>4, <1>5 DEF Shows
<1>7. /\ ws \in Seq(Window) /\ DOMAIN ws = DOMAIN s.wins /\ Len(ws) = Len(s.wins) /\ ws[c] = w
      /\ \A j \in DOMAIN s.wins : j # c => ws[j] = s.wins[j]
      /\ \A j \in DOMAIN ws : Shows(ws[j], Range(s.bufs), st)
  BY <1>1, <1>5, <1>6, WindowReplaced
<1> HIDE DEF ws
<1>8. t \in State /\ t.cur = s.cur /\ t.bufs = s.bufs /\ t.names = s.names /\ t.wins = ws
      /\ t.curw = c /\ t.pnt = s.pnt /\ t.umark = s.umark
  BY <1>1, <1>7 DEF State, c
<1> HIDE DEF t
<1>9. Between(t, st) BY <1>1, <1>7, <1>8 DEF Between
<1>10. Shown(t, st) BY <1>1, <1>3, <1>5, <1>7, <1>8 DEF Shown
<1>11. \A j \in DOMAIN s.wins : t.wins[j].first = s.wins[j].first /\ t.wins[j].last = s.wins[j].last
                                /\ t.wins[j].buff = s.wins[j].buff
  BY <1>3, <1>5, <1>7, <1>8 DEF o
<1>12. SameSizes(s, t) BY <1>7, <1>8, <1>11 DEF SameSizes
<1> QED BY <1>2, <1>8, <1>9, <1>10, <1>11, <1>12 DEF Settled, c

\* Switching windows goes back to the place where the window was left.
LEMMA WindowSwitched ==
  ASSUME NEW st, NEW s, Settled(s, st), NEW i \in DOMAIN s.wins
  PROVE  LET t == wswitchto(s, i)
         IN /\ Settled(t, st) /\ SameSizes(s, t) /\ t.curw = i
            /\ t.bufs = s.bufs /\ t.names = s.names
            /\ i # s.curw => st \/ t.pnt[t.cur] = t.wins[i].left
<1>1. CASE i = s.curw
  <2>1. wswitchto(s, i) = s BY <1>1 DEF wswitchto
  <2>2. SameSizes(s, s) BY DEF SameSizes
  <2> QED BY <1>1, <2>1, <2>2
<1>2. CASE i # s.curw
  <2> DEFINE u == Save(s)
             w == u.wins[i]
             p == IF w.pnt.buff = w.buff THEN w.pnt.at ELSE u.pnt[w.buff]
             m == IF w.mrk = NIL THEN u.umark[w.buff] ELSE w.mrk.at
             pn == [u.pnt EXCEPT ![w.buff] = p]
             um == [u.umark EXCEPT ![w.buff] = m]
             t == [u EXCEPT !.curw = i, !.cur = w.buff, !.sstart = w.start, !.pnt = pn, !.umark = um]
  <2>1. /\ Settled(u, st) /\ SameSizes(s, u) /\ u.cur = s.cur /\ u.curw = s.curw
        /\ u.bufs = s.bufs /\ u.names = s.names /\ u.pnt = s.pnt /\ u.umark = s.umark
        /\ \A j \in DOMAIN s.wins : u.wins[j].buff = s.wins[j].buff
    BY Saved
  <2>2. wswitchto(s, i) = t BY <1>2 DEF wswitchto
  <2> HIDE DEF u
  <2>3. u \in State /\ i \in DOMAIN u.wins /\ w \in Window /\ Shows(w, Range(u.bufs), st)
        /\ Between(u, st) /\ i \in Nat /\ u.wins \in Seq(Window)
    BY <2>1 DEF Settled, Between, State, SameSizes
  <2> HIDE DEF w
  <2>4. w.buff \in Buffer /\ w.buff \in Range(u.bufs) /\ w.start \in Buffer /\ w.pnt.at \in Place
        /\ (w.mrk # NIL => w.mrk.at \in Place)
    BY <2>3 DEF Window, Shows, MarkName
  <2>5. u.pnt \in [Buffer -> Place] /\ u.umark \in [Buffer -> Place \cup {NIL}] BY <2>3 DEF State
  <2>6. p \in Place /\ m \in Place \cup {NIL} BY <2>4, <2>5
  <2> HIDE DEF m
  <2>7. pn \in [Buffer -> Place] /\ um \in [Buffer -> Place \cup {NIL}] /\ pn[w.buff] = p
    BY <2>4, <2>5, <2>6
  <2> HIDE DEF pn, um
  <2>8. t \in State /\ t.curw = i /\ t.cur = w.buff /\ t.bufs = u.bufs /\ t.names = u.names
        /\ t.wins = u.wins /\ t.pnt = pn
    BY <2>3, <2>4, <2>7 DEF State
  <2> HIDE DEF t
  <2>9. Between(t, st) BY <2>3, <2>4, <2>8 DEF Between
  <2>10. Shown(t, st) BY <2>8 DEF Shown, w
  <2>11. SameSizes(s, t) BY <2>1, <2>8 DEF SameSizes
  <2>12. st \/ t.pnt[t.cur] = t.wins[i].left
    <3>1. t.wins[i] = w BY <2>8 DEF w
    <3> QED BY <2>3, <2>7, <2>8, <3>1 DEF Shows
  <2> QED BY <2>1, <2>2, <2>8, <2>9, <2>10, <2>11, <2>12 DEF Settled
<1> QED BY <1>1, <1>2

\* A new buffer, or one there is, becomes the current one.
LEMMA BufferMade ==
  ASSUME NEW st, NEW s, Between(s, st), NEW b \in Buffer
  PROVE  LET t == cmakebuff(s, b)
         IN /\ Between(t, st) /\ t.cur = b /\ t.wins = s.wins /\ t.curw = s.curw
            /\ Range(t.bufs) = Range(s.bufs) \cup {b}
            /\ b \notin Range(s.bufs) => t.bufs = Append(s.bufs, b) /\ t.names = addbname(s.names, b)
<1> DEFINE u == zcreatebuff(s, b)
<1>1. Between(u, st) /\ u.wins = s.wins /\ u.curw = s.curw /\ Range(u.bufs) = Range(s.bufs) \cup {b}
      /\ (b \notin Range(s.bufs) => u.bufs = Append(s.bufs, b) /\ u.names = addbname(s.names, b))
  <2>1. CASE b \in Range(s.bufs)
    <3>1. u = s BY <2>1 DEF zcreatebuff, Has
    <3> QED BY <2>1, <3>1
  <2>2. CASE b \notin Range(s.bufs)
    <3> DEFINE bs == Append(s.bufs, b)
               ns == addbname(s.names, b)
               pn == [s.pnt EXCEPT ![b] = Min(Place)]
               um == [s.umark EXCEPT ![b] = NIL]
               t == [s EXCEPT !.bufs = bs, !.names = ns, !.pnt = pn, !.umark = um]
    <3>1. s \in State /\ Listed(s.bufs, s.names) BY DEF Between
    <3>2. Listed(bs, ns) /\ Range(bs) = Range(s.bufs) \cup {b} BY <2>2, <3>1, Added
    <3>3. u = t BY <2>2 DEF zcreatebuff, Has
    <3> HIDE DEF bs, ns
    <3>4. pn \in [Buffer -> Place] /\ um \in [Buffer -> Place \cup {NIL}]
      BY <3>1, StartOfText DEF State
    <3> HIDE DEF pn, um
    <3>5. t \in State /\ t.bufs = bs /\ t.names = ns /\ t.wins = s.wins /\ t.curw = s.curw
          /\ t.cur = s.cur
      BY <3>1, <3>2, <3>4 DEF State, Listed
    <3> HIDE DEF t
    <3>6. \A w, live : Shows(w, live, st) => Shows(w, live \cup {b}, st) BY DEF Shows
    <3>7. Between(t, st) BY <3>2, <3>5, <3>6 DEF Between
    <3> QED BY <2>2, <3>2, <3>3, <3>5, <3>7 DEF bs, ns
  <2> QED BY <2>1, <2>2
<1> HIDE DEF u
<1>2. b \in Range(u.bufs) BY <1>1
<1> DEFINE t == zswitchto(u, b)
<1>3. Between(t, st) /\ t.cur = b /\ t.bufs = u.bufs /\ t.names = u.names
      /\ t.wins = u.wins /\ t.curw = u.curw
  BY <1>1, <1>2, CurChanged
<1>4. cmakebuff(s, b) = t BY DEF cmakebuff, u
<1> HIDE DEF t
<1> QED BY <1>1, <1>3, <1>4

\* A window that shows another buffer takes over the current point.
LEMMA WindowMoved ==
  ASSUME NEW st, NEW s \in State, NEW w \in Window, NEW live, s.cur \in live
  PROVE  LET t == [TakePoint(s, w) EXCEPT !.buff = s.cur, !.start = s.cur]
         IN /\ t \in Window /\ t.buff = s.cur /\ t.first = w.first /\ t.last = w.last
            /\ Shows(t, live, st)
<1> DEFINE v == TakePoint(s, w)
           t == [v EXCEPT !.buff = s.cur, !.start = s.cur]
<1>1. v \in Window /\ v.first = w.first /\ v.last = w.last
      /\ v.pnt.buff = s.cur /\ v.left = v.pnt.at /\ (v.mrk = NIL \/ v.mrk.buff = s.cur)
  BY PointTaken
<1> HIDE DEF v
<1>2. s.cur \in Buffer BY DEF State
<1>3. t \in Window /\ t.first = v.first /\ t.last = v.last /\ t.pnt = v.pnt /\ t.left = v.left
      /\ t.mrk = v.mrk /\ t.buff = s.cur /\ t.start = s.cur
  BY <1>1, <1>2 DEF Window
<1> HIDE DEF t
<1>4. Shows(t, live, st) BY <1>1, <1>3 DEF Shows
<1> QED BY <1>1, <1>3, <1>4 DEF t, v

\* Clearing the mark leaves the lists alone.
LEMMA MarkCleared ==
  ASSUME NEW st, NEW s, Between(s, st)
  PROVE  LET t == clear_umark(s)
         IN /\ Between(t, st) /\ (Shown(s, st) => Shown(t, st)) /\ t.cur = s.cur /\ t.bufs = s.bufs
            /\ t.names = s.names /\ t.wins = s.wins /\ t.curw = s.curw
<1> DEFINE um == [s.umark EXCEPT ![s.cur] = NIL]
           t == [s EXCEPT !.umark = um]
<1>1. um \in [Buffer -> Place \cup {NIL}] BY DEF Between, State
<1>2. clear_umark(s) = t BY DEF clear_umark
<1> HIDE DEF um
<1>3. t \in State /\ t.cur = s.cur /\ t.bufs = s.bufs /\ t.names = s.names /\ t.wins = s.wins
      /\ t.curw = s.curw
  BY <1>1 DEF Between, State
<1> HIDE DEF t
<1>4. Between(t, st) BY <1>3 DEF Between
<1>5. Shown(s, st) => Shown(t, st) BY <1>3 DEF Shown
<1> QED BY <1>2, <1>3, <1>4, <1>5

\* The buffer that is current when b goes is another one, unless b is the only one.
LEMMA NeighbourThere ==
  ASSUME NEW s \in State, Distinct(s.bufs), NEW b \in Range(s.bufs)
  PROVE  /\ Neighbour(s, b) \in Range(s.bufs)
         /\ Neighbour(s, b) = b => Range(s.bufs) = {b}
<1> DEFINE bs == s.bufs
           i == PlaceIn(bs, b)
           n == Neighbour(s, b)
<1>1. bs \in Seq(Buffer) /\ Len(bs) \in Nat /\ DOMAIN bs = 1 .. Len(bs) BY DEF State
<1>2. i \in DOMAIN bs /\ bs[i] = b BY Position
<1>3. n = CASE i < Len(bs) -> bs[i + 1]
            [] i = Len(bs) /\ i > 1 -> bs[i - 1]
            [] OTHER -> b
  BY DEF Neighbour
<1> HIDE DEF i, n
<1>4. CASE i < Len(bs)
  <2>1. i + 1 \in DOMAIN bs /\ n = bs[i + 1] /\ i + 1 # i BY <1>1, <1>2, <1>3, <1>4
  <2>2. n # b BY <1>2, <2>1 DEF Distinct
  <2>3. n \in Range(bs) BY <2>1 DEF Range
  <2> QED BY <2>2, <2>3 DEF n
<1>5. CASE i = Len(bs) /\ i > 1
  <2>1. i - 1 \in DOMAIN bs /\ n = bs[i - 1] /\ i - 1 # i BY <1>1, <1>2, <1>3, <1>5
  <2>2. n # b BY <1>2, <2>1 DEF Distinct
  <2>3. n \in Range(bs) BY <2>1 DEF Range
  <2> QED BY <2>2, <2>3 DEF n
<1>6. CASE ~ (i < Len(bs)) /\ ~ (i = Len(bs) /\ i > 1)
  <2>0. i \in 1 .. Len(bs) BY <1>1, <1>2
  <2>1. i = 1 /\ Len(bs) = 1
    <3> DEFINE L == Len(bs)
    <3>1. L \in Nat /\ i \in 1 .. L /\ ~ (i < L) /\ ~ (i = L /\ i > 1) BY <1>1, <1>6, <2>0
    <3> HIDE DEF L
    <3>2. i \in Int /\ 1 <= i /\ i <= L BY <3>1
    <3>3. i = L BY <3>1, <3>2
    <3>4. i = 1 BY <3>1, <3>2, <3>3
    <3> QED BY <3>3, <3>4 DEF L
  <2>2. n = b BY <1>3, <1>6
  <2>3. DOMAIN bs = {1} BY <1>1, <2>1
  <2>4. Range(bs) = {b} BY <1>2, <2>1, <2>3 DEF Range
  <2> QED BY <1>2, <2>2, <2>4 DEF n
<1> QED BY <1>4, <1>5, <1>6

\* cdelbuff takes a buffer off both lists, unless it is the only one; the
\* windows are as they were.
LEMMA BufferGone ==
  ASSUME NEW st, NEW s, Between(s, st), NEW b \in Range(s.bufs)
  PROVE  LET t == cdelbuff(s, b)
         IN /\ t \in State /\ t.wins = s.wins /\ t.curw = s.curw
            /\ Listed(t.bufs, t.names) /\ t.cur \in Range(t.bufs)
            /\ \/ Range(t.bufs) = Range(s.bufs) \ {b}
               \/ Range(t.bufs) = {b} /\ Range(s.bufs) = {b} /\ Between(t, st)
<1> DEFINE c == clear_umark(s)
           n == Neighbour(s, b)
           u == IF b = s.cur THEN zswitchto(c, n) ELSE s
           t == [u EXCEPT !.names = delbname(@, b), !.bufs = RemoveAt(@, PlaceIn(@, b))]
<1>0. s \in State /\ Listed(s.bufs, s.names) BY DEF Between
<1>1. /\ Between(u, st) /\ u.bufs = s.bufs /\ u.names = s.names /\ u.wins = s.wins
      /\ u.curw = s.curw /\ (u.cur = b => Range(s.bufs) = {b})
  <2>1. CASE b = s.cur
    <3>1. Between(c, st) /\ c.bufs = s.bufs /\ c.names = s.names /\ c.wins = s.wins /\ c.curw = s.curw
      BY MarkCleared
    <3> HIDE DEF c
    <3>2. Distinct(s.bufs) BY <1>0 DEF Listed
    <3>3. n \in Range(s.bufs) /\ (n = b => Range(s.bufs) = {b}) BY <1>0, <3>2, NeighbourThere
    <3> HIDE DEF n
    <3> DEFINE v == zswitchto(c, n)
    <3>4. Between(v, st) /\ v.cur = n /\ v.bufs = c.bufs /\ v.names = c.names
          /\ v.wins = c.wins /\ v.curw = c.curw
      BY <3>1, <3>3, CurChanged
    <3> HIDE DEF v
    <3>5. u = v BY <2>1 DEF v
    <3> QED BY <3>1, <3>3, <3>4, <3>5
  <2>2. CASE b # s.cur
    <3>1. u = s BY <2>2
    <3> QED BY <2>2, <3>1
  <2> QED BY <2>1, <2>2
<1>2. cdelbuff(s, b) = IF u.cur = b THEN u ELSE t BY DEF cdelbuff
<1> HIDE DEF u
<1>3. u \in State /\ Listed(u.bufs, u.names) /\ u.cur \in Range(u.bufs) /\ b \in Range(u.bufs)
  BY <1>1 DEF Between
<1>4. CASE u.cur = b
  BY <1>1, <1>2, <1>3, <1>4
<1>5. CASE u.cur # b
  <2> DEFINE bs == RemoveAt(u.bufs, PlaceIn(u.bufs, b))
             ns == delbname(u.names, b)
  <2>1. Listed(bs, ns) /\ Range(bs) = Range(u.bufs) \ {b} BY <1>3, Delisted
  <2>2. t = [u EXCEPT !.names = ns, !.bufs = bs] OBVIOUS
  <2> HIDE DEF bs, ns
  <2>3. t \in State /\ t.bufs = bs /\ t.names = ns /\ t.cur = u.cur /\ t.wins = u.wins
        /\ t.curw = u.curw
    BY <1>3, <2>1, <2>2 DEF State, Listed
  <2> HIDE DEF t
  <2>4. t.cur \in Range(t.bufs) BY <1>3, <1>5, <2>1, <2>3
  <2> QED BY <1>1, <1>2, <1>5, <2>1, <2>3, <2>4
<1> QED BY <1>4, <1>5

\* delbuff leaves no window on a buffer that is gone.
LEMMA BufferDeleted ==
  ASSUME NEW st, NEW s, Between(s, st), NEW b \in Range(s.bufs)
  PROVE  LET t == delbuff(s, b)
         IN Settled(t, st) /\ SameSizes(s, t) /\ t.curw = s.curw
<1> DEFINE l == IF s.last = b THEN NIL ELSE s.last
           r == [s EXCEPT !.last = l]
           t == cdelbuff(r, b)
           u == cswitchto(t, t.cur)
           ws == [i \in DOMAIN u.wins |->
                    IF u.wins[i].buff = b
                    THEN [TakePoint(u, u.wins[i]) EXCEPT !.buff = u.cur, !.start = u.cur]
                    ELSE u.wins[i]]
           d == [u EXCEPT !.wins = ws]
<1>1. Between(r, st) /\ r.wins = s.wins /\ r.curw = s.curw /\ r.bufs = s.bufs
  <2>1. l \in Buffer \cup {NIL} BY DEF Between, State
  <2> HIDE DEF l
  <2> QED BY <2>1, LastChanged
<1>2. delbuff(s, b) = IF Has(t, b) THEN t ELSE d
  <2>1. r = [s EXCEPT !.last = IF @ = b THEN NIL ELSE @] OBVIOUS
  <2> QED BY <2>1 DEF delbuff
<1> HIDE DEF r
<1>3. /\ t \in State /\ t.wins = r.wins /\ t.curw = r.curw
      /\ Listed(t.bufs, t.names) /\ t.cur \in Range(t.bufs)
      /\ \/ Range(t.bufs) = Range(r.bufs) \ {b}
         \/ Range(t.bufs) = {b} /\ Range(r.bufs) = {b} /\ Between(t, st)
  BY <1>1, BufferGone
<1> HIDE DEF t
<1>4. CASE Has(t, b)
  <2>1. Between(t, st) /\ Range(t.bufs) = {b} BY <1>3, <1>4 DEF Has
  <2>2. t.wins[t.curw].buff \in Range(t.bufs) /\ t.cur \in Range(t.bufs)
    BY <2>1 DEF Between, Shows
  <2>3. Settled(t, st) BY <2>1, <2>2 DEF Settled, Shown
  <2>4. SameSizes(s, t) BY <1>1, <1>3 DEF SameSizes
  <2> QED BY <1>1, <1>2, <1>3, <1>4, <2>3, <2>4
<1>5. CASE ~ Has(t, b)
  <2> DEFINE live == Range(t.bufs)
             c == t.curw
             w == [TakePoint(t, t.wins[c]) EXCEPT !.buff = t.cur, !.start = t.cur]
             vs == ReplaceAt(t.wins, c, w)
  <2>1. /\ live = Range(s.bufs) \ {b} /\ t.wins \in Seq(Window) /\ c \in DOMAIN t.wins
        /\ t.wins = s.wins /\ \A i \in DOMAIN t.wins : Shows(t.wins[i], live \cup {b}, st)
    <3>1. live = Range(s.bufs) \ {b} /\ t.wins = s.wins /\ c = s.curw BY <1>1, <1>3, <1>5 DEF Has
    <3>2. live \cup {b} = Range(s.bufs) BY <3>1
    <3>3. t.wins \in Seq(Window) BY <1>3 DEF State
    <3> QED BY <3>1, <3>2, <3>3 DEF Between
  <2>2. zswitchto(t, t.cur) = t BY <1>3 DEF zswitchto, State
  <2>3. u = IF t.wins[c].buff = t.cur THEN t ELSE [t EXCEPT !.wins = vs]
    BY <2>2 DEF cswitchto, Curwdo, ReplaceAt
  <2> HIDE DEF u
  <2>4. /\ w \in Window /\ w.buff = t.cur /\ w.first = t.wins[c].first /\ w.last = t.wins[c].last
        /\ Shows(w, live, st)
    <3>1. t.wins[c] \in Window BY <2>1
    <3> QED BY <1>3, <3>1, WindowMoved
  <2> HIDE DEF w
  <2>5. /\ vs \in Seq(Window) /\ DOMAIN vs = DOMAIN t.wins /\ Len(vs) = Len(t.wins) /\ vs[c] = w
        /\ \A j \in DOMAIN t.wins : j # c => vs[j] = t.wins[j]
    <3> DEFINE v == t.wins
    <3>1. v \in Seq(Window) /\ c \in DOMAIN v BY <2>1
    <3> HIDE DEF v, c
    <3>2. LET x == ReplaceAt(v, c, w)
          IN /\ x \in Seq(Window) /\ DOMAIN x = DOMAIN v /\ Len(x) = Len(v) /\ x[c] = w
             /\ \A j \in DOMAIN v : j # c => x[j] = v[j]
      BY <2>4, <3>1, Replaced
    <3> QED BY <3>2 DEF v
  <2> HIDE DEF vs
  <2>6. /\ u \in State /\ u.cur = t.cur /\ u.bufs = t.bufs /\ u.names = t.names /\ u.curw = c
        /\ u.wins[c].buff = t.cur /\ DOMAIN u.wins = DOMAIN t.wins /\ Len(u.wins) = Len(t.wins)
        /\ \A i \in DOMAIN t.wins : /\ Shows(u.wins[i], live \cup {b}, st)
                                    /\ u.wins[i].first = t.wins[i].first
                                    /\ u.wins[i].last = t.wins[i].last
    <3>1. CASE t.wins[c].buff = t.cur BY <1>3, <2>1, <2>3, <3>1
    <3>2. CASE t.wins[c].buff # t.cur
      <4>1. u = [t EXCEPT !.wins = vs] BY <2>3, <3>2
      <4>2. u \in State /\ u.cur = t.cur /\ u.bufs = t.bufs /\ u.names = t.names /\ u.curw = c
            /\ u.wins = vs
        BY <1>3, <2>5, <4>1 DEF State
      <4>3. Shows(w, live \cup {b}, st) BY <2>4 DEF Shows
      <4> HIDE DEF c
      <4> QED BY <2>1, <2>4, <2>5, <4>2, <4>3
    <3> QED BY <3>1, <3>2
  <2> HIDE DEF c
  <2>7. \A i \in DOMAIN u.wins :
          /\ ws[i] \in Window /\ Shows(ws[i], live, st)
          /\ ws[i].first = u.wins[i].first /\ ws[i].last = u.wins[i].last
          /\ u.wins[i].buff = u.cur => ws[i].buff = u.cur
    <3> TAKE i \in DOMAIN u.wins
    <3>1. u.wins[i] \in Window BY <2>6 DEF State
    <3>2. CASE u.wins[i].buff = b
      <4> DEFINE x == [TakePoint(u, u.wins[i]) EXCEPT !.buff = u.cur, !.start = u.cur]
      <4>1. u.cur \in live BY <1>3, <2>6
      <4>2. x \in Window /\ x.buff = u.cur /\ x.first = u.wins[i].first /\ x.last = u.wins[i].last
            /\ Shows(x, live, st)
        BY <2>6, <3>1, <4>1, WindowMoved
      <4>3. ws[i] = x BY <3>2
      <4> HIDE DEF x
      <4> QED BY <4>2, <4>3
    <3>3. CASE u.wins[i].buff # b
      <4>1. ws[i] = u.wins[i] BY <3>3
      <4>2. Shows(u.wins[i], live, st) BY <2>6, <3>3 DEF Shows
      <4> QED BY <3>1, <4>1, <4>2
    <3> QED BY <3>2, <3>3
  <2>8. ws \in Seq(Window) /\ Len(ws) = Len(u.wins) /\ DOMAIN ws = DOMAIN u.wins
    <3>1. u.wins \in Seq(Window) BY <2>6 DEF State
    <3> DEFINE v == u.wins
    <3>2. v \in Seq(Window) /\ DOMAIN ws = DOMAIN v /\ ws = [i \in DOMAIN v |-> ws[i]]
          /\ \A i \in DOMAIN v : ws[i] \in Window
      BY <2>7, <3>1
    <3> HIDE DEF v, ws
    <3>3. ws \in Seq(Window) /\ Len(ws) = Len(v) BY <3>2, Mapped
    <3> QED BY <3>2, <3>3 DEF v
  <2> HIDE DEF ws
  <2>9. d \in State /\ d.cur = u.cur /\ d.bufs = u.bufs /\ d.names = u.names /\ d.curw = u.curw
        /\ d.wins = ws
    BY <2>6, <2>8 DEF State
  <2> HIDE DEF d
  <2>10. Between(d, st) BY <1>3, <2>1, <2>6, <2>7, <2>8, <2>9 DEF Between
  <2>11. Shown(d, st) BY <2>1, <2>6, <2>7, <2>8, <2>9 DEF Shown
  <2>12. SameSizes(s, d)
    <3>1. \A i \in DOMAIN t.wins : d.wins[i].first = t.wins[i].first /\ d.wins[i].last = t.wins[i].last
      BY <2>6, <2>7, <2>9
    <3> QED BY <1>1, <1>3, <2>6, <2>8, <2>9, <3>1 DEF SameSizes
  <2>13. d.curw = s.curw BY <1>1, <1>3, <2>6, <2>9 DEF c
  <2> QED BY <1>2, <1>5, <2>10, <2>11, <2>12, <2>13 DEF Settled
<1> QED BY <1>4, <1>5

\* Windows change in size only.
Resizes(vs, ws) ==
  /\ DOMAIN ws = DOMAIN vs /\ Len(ws) = Len(vs) /\ ws \in Seq(Window)
  /\ \A i \in DOMAIN vs : /\ ws[i].buff = vs[i].buff /\ ws[i].pnt = vs[i].pnt
                          /\ ws[i].mrk = vs[i].mrk /\ ws[i].start = vs[i].start
                          /\ ws[i].left = vs[i].left

\* Windows that change in size show what they showed.
LEMMA Resized ==
  ASSUME NEW st, NEW s, Settled(s, st), NEW ws, Resizes(s.wins, ws)
  PROVE  LET t == [s EXCEPT !.wins = ws]
         IN Settled(t, st) /\ t.curw = s.curw /\ t.wins = ws
<1> DEFINE t == [s EXCEPT !.wins = ws]
<1>1. s \in State /\ Between(s, st) /\ Shown(s, st) /\ s.curw \in DOMAIN s.wins
  BY DEF Settled, Between
<1>2. t \in State /\ t.bufs = s.bufs /\ t.names = s.names /\ t.cur = s.cur /\ t.wins = ws
      /\ t.curw = s.curw
  BY <1>1 DEF State, Resizes
<1> HIDE DEF t
<1>3. \A i \in DOMAIN ws : Shows(ws[i], Range(s.bufs), st)
  BY <1>1 DEF Between, Resizes, Shows
<1>4. Between(t, st) BY <1>1, <1>2, <1>3 DEF Between, Resizes
<1>5. Shown(t, st) BY <1>1, <1>2 DEF Shown, Resizes
<1> QED BY <1>2, <1>4, <1>5 DEF Settled, t

\* One window is left.
LEMMA OneLeft ==
  ASSUME NEW st, NEW s, Settled(s, st), NEW rows \in Int
  PROVE  LET t == one_window(s, rows)
         IN /\ Settled(t, st) /\ Len(t.wins) = 1 /\ t.wins[1].first = 0 /\ t.wins[1].last = rows - 2
<1> DEFINE bottom == rows - 2
           o == s.wins[s.curw]
           w == [o EXCEPT !.first = 0, !.last = bottom]
           t == [s EXCEPT !.wins = <<w>>, !.curw = 1]
<1>1. s \in State /\ Between(s, st) /\ Shown(s, st) /\ o \in Window /\ Shows(o, Range(s.bufs), st)
  BY DEF Settled, Between, State
<1>2. (st \/ o.buff = s.cur) BY <1>1 DEF Shown
<1>3. t = one_window(s, rows) /\ bottom \in Int BY DEF one_window, Curwdo
<1> HIDE DEF o, bottom
<1>4. w \in Window /\ w.buff = o.buff /\ w.pnt = o.pnt /\ w.mrk = o.mrk /\ w.start = o.start
      /\ w.left = o.left /\ w.first = 0 /\ w.last = bottom
  <2>1. o \in Window BY <1>1
  <2>2. 0 \in Int OBVIOUS
  <2>3. bottom \in Int BY <1>3
  <2> QED BY ONLY <2>1, <2>2, <2>3 DEF Window
<1> HIDE DEF w
<1>5. Shows(w, Range(s.bufs), st) BY <1>1, <1>4 DEF Shows
<1>6. <<w>> \in Seq(Window) /\ Len(<<w>>) = 1 /\ DOMAIN <<w>> = {1} /\ <<w>>[1] = w BY <1>4
<1>7. t \in State /\ t.bufs = s.bufs /\ t.names = s.names /\ t.cur = s.cur /\ t.wins = <<w>>
      /\ t.curw = 1
  BY <1>1, <1>6 DEF State
<1> HIDE DEF t
<1>8. Between(t, st) BY <1>1, <1>5, <1>6, <1>7 DEF Between
<1>9. Shown(t, st) BY <1>2, <1>4, <1>6, <1>7 DEF Shown
<1> QED BY <1>3, <1>4, <1>6, <1>7, <1>8, <1>9 DEF Settled, bottom

\* A new window shows the current buffer.
LEMMA WindowMade ==
  ASSUME NEW st, NEW s \in State, NEW first \in Int, NEW lst \in Int, NEW live, s.cur \in live
  PROVE  LET t == wcreate(s, first, lst)
         IN t \in Window /\ t.first = first /\ t.last = lst /\ t.buff = s.cur /\ Shows(t, live, st)
<1> DEFINE p == s.pnt[s.cur]
           w == [buff |-> s.cur, pnt |-> Mark(s.cur, p), mrk |-> NIL, start |-> s.cur,
                 first |-> first, last |-> lst, left |-> p]
           t == TakePoint(s, w)
<1>1. s.cur \in Buffer /\ p \in Place BY DEF State
<1>2. Mark(s.cur, p) \in MarkName BY <1>1 DEF Mark, MarkName
<1>3. wcreate(s, first, lst) = t BY DEF wcreate, Here
<1> HIDE DEF p
<1>4. w \in Window /\ w.buff = s.cur /\ w.start = s.cur /\ w.first = first /\ w.last = lst
  BY <1>1, <1>2 DEF Window
<1> HIDE DEF w
<1>5. t \in Window /\ t.buff = w.buff /\ t.start = w.start
      /\ t.first = w.first /\ t.last = w.last /\ t.pnt.buff = s.cur /\ t.left = t.pnt.at
      /\ (t.mrk = NIL \/ t.mrk.buff = s.cur)
  BY <1>4, PointTaken
<1> HIDE DEF t
<1>6. Shows(t, live, st) BY <1>4, <1>5 DEF Shows
<1> QED BY <1>3, <1>4, <1>5, <1>6

\* The window c of vs is two of ws.
Halves(vs, c, ws) ==
  LET mid == vs[c].first + (height(vs[c]) \div 2)
  IN /\ c \in 1 .. Len(vs) /\ ~ (height(vs[c]) < MINWDO) /\ Len(ws) = Len(vs) + 1
     /\ \A j \in 1 .. c - 1 : ws[j].first = vs[j].first /\ ws[j].last = vs[j].last
     /\ ws[c].first = vs[c].first /\ ws[c].last = mid
     /\ ws[c + 1].first = mid + 1 /\ ws[c + 1].last = vs[c].last
     /\ \A j \in c + 2 .. Len(vs) + 1 : ws[j].first = vs[j - 1].first /\ ws[j].last = vs[j - 1].last

\* wsplit divides the current window, if it does anything.
LEMMA WindowSplit ==
  ASSUME NEW st, NEW s, Settled(s, st)
  PROVE  LET t == wsplit(s)
         IN /\ Settled(t, st)
            /\ SameSizes(s, t) \/ Halves(s.wins, s.curw, t.wins)
<1> DEFINE c == s.curw
           w == s.wins[c]
           mid == w.first + (height(w) \div 2)
           first == mid + 1
           up == [w EXCEPT !.last = first - 1]
           low == wcreate(s, first, w.last)
           vs == ReplaceAt(s.wins, c, up)
           ws == InsertAt(vs, c + 1, low)
           u == [s EXCEPT !.wins = ws, !.sstart = s.cur]
           t == wswitchto(u, c + 1)
<1>1. wsplit(s) = IF height(w) < MINWDO THEN s ELSE t
  BY DEF wsplit, Curwdo, ReplaceAt
<1>2. CASE height(w) < MINWDO
  <2>1. SameSizes(s, s) BY DEF SameSizes
  <2> QED BY <1>1, <1>2, <2>1
<1>3. CASE ~ (height(w) < MINWDO)
  <2> DEFINE live == Range(s.bufs)
             L == Len(s.wins)
  <2>1. /\ s \in State /\ Between(s, st) /\ s.wins \in Seq(Window) /\ c \in 1 .. L
        /\ c \in DOMAIN s.wins /\ L \in Nat /\ DOMAIN s.wins = 1 .. L /\ w \in Window
        /\ Shows(w, live, st) /\ s.cur \in live /\ s.cur \in Buffer
    BY DEF Settled, Between, State
  <2>2. w.first \in Int /\ w.last \in Int /\ mid \in Int /\ first \in Int /\ first - 1 = mid
    <3>1. w.first \in Int /\ w.last \in Int BY <2>1 DEF Window
    <3>2. height(w) \in Int BY <3>1 DEF height
    <3> QED BY <3>1, <3>2
  <2> HIDE DEF mid, first
  <2>3. up \in Window /\ up.buff = w.buff /\ up.pnt = w.pnt /\ up.mrk = w.mrk
        /\ up.start = w.start /\ up.left = w.left /\ up.first = w.first /\ up.last = mid
    BY <2>1, <2>2 DEF Window
  <2>4. low \in Window /\ low.first = first /\ low.last = w.last /\ low.buff = s.cur
        /\ Shows(low, live, st)
    BY <2>1, <2>2, WindowMade
  <2> HIDE DEF up, low
  <2>5. Shows(up, live, st) BY <2>1, <2>3 DEF Shows
  <2>6. /\ vs \in Seq(Window) /\ Len(vs) = L /\ vs[c] = up
        /\ \A j \in 1 .. L : j # c => vs[j] = s.wins[j]
    <3> DEFINE v == s.wins
    <3>1. v \in Seq(Window) /\ c \in DOMAIN v BY <2>1
    <3> HIDE DEF v, c
    <3>2. LET x == ReplaceAt(v, c, up)
          IN /\ x \in Seq(Window) /\ Len(x) = Len(v) /\ DOMAIN x = DOMAIN v /\ x[c] = up
             /\ \A j \in DOMAIN v : j # c => x[j] = v[j]
      BY <2>3, <3>1, Replaced
    <3> QED BY <2>1, <3>2 DEF v
  <2> HIDE DEF vs
  <2> DEFINE d == c + 1
  <2>7. /\ ws \in Seq(Window) /\ Len(ws) = L + 1 /\ ws[d] = low
        /\ \A j \in 1 .. d - 1 : ws[j] = vs[j]
        /\ \A j \in d + 1 .. L + 1 : ws[j] = vs[j - 1]
    <3>1. vs \in Seq(Window) /\ low \in Window /\ d \in 1 .. Len(vs) + 1 BY <2>1, <2>4, <2>6
    <3> HIDE DEF d
    <3>2. LET x == InsertAt(vs, d, low)
          IN /\ x \in Seq(Window) /\ Len(x) = Len(vs) + 1 /\ x[d] = low
             /\ \A j \in 1 .. d - 1 : x[j] = vs[j]
             /\ \A j \in d + 1 .. Len(vs) + 1 : x[j] = vs[j - 1]
      BY ONLY <3>1, Inserted
    <3> QED BY <2>6, <3>2 DEF d
  <2> HIDE DEF ws
  <2>8. DOMAIN ws = 1 .. L + 1 /\ c \in DOMAIN ws /\ d \in DOMAIN ws /\ ws[c] = up
        /\ ws[c + 1] = low
    BY <2>1, <2>6, <2>7
  <2>9. /\ \A j \in 1 .. c - 1 : ws[j] = s.wins[j]
        /\ \A j \in c + 2 .. L + 1 : ws[j] = s.wins[j - 1]
    <3>1. ASSUME NEW j \in 1 .. c - 1 PROVE ws[j] = s.wins[j]
      <4>1. j \in 1 .. d - 1 /\ j \in 1 .. L /\ j # c BY <2>1
      <4> HIDE DEF c, d
      <4> QED BY <2>6, <2>7, <4>1
    <3>2. ASSUME NEW j \in c + 2 .. L + 1 PROVE ws[j] = s.wins[j - 1]
      <4>1. j \in d + 1 .. L + 1 /\ j - 1 \in 1 .. L /\ j - 1 # c BY <2>1
      <4> HIDE DEF c, d
      <4> QED BY <2>6, <2>7, <4>1
    <3> QED BY <3>1, <3>2
  <2>10. \A j \in DOMAIN ws : Shows(ws[j], live, st)
    <3> TAKE j \in DOMAIN ws
    <3>1. j \in 1 .. c - 1 \/ j = c \/ j = c + 1 \/ j \in c + 2 .. L + 1 BY <2>1, <2>8
    <3>2. CASE j \in 1 .. c - 1
      <4>1. j \in DOMAIN s.wins BY <2>1, <3>2
      <4> QED BY <2>1, <2>9, <3>2, <4>1 DEF Between
    <3>3. CASE j \in c + 2 .. L + 1
      <4>1. j - 1 \in DOMAIN s.wins BY <2>1, <3>3
      <4> QED BY <2>1, <2>9, <3>3, <4>1 DEF Between
    <3> QED BY <2>4, <2>5, <2>8, <3>1, <3>2, <3>3
  <2>11. u \in State /\ u.bufs = s.bufs /\ u.names = s.names /\ u.cur = s.cur /\ u.curw = c
         /\ u.wins = ws
    BY <2>1, <2>7 DEF State
  <2> HIDE DEF u
  <2>12. Between(u, st) BY <2>1, <2>8, <2>10, <2>11 DEF Between
  <2>13. Shown(u, st) BY <2>3, <2>8, <2>11 DEF Shown, Settled
  <2>14. Settled(u, st) /\ d \in DOMAIN u.wins BY <2>8, <2>11, <2>12, <2>13 DEF Settled
  <2>15. Settled(t, st) /\ SameSizes(u, t)
    <3> HIDE DEF d
    <3>1. LET x == wswitchto(u, d) IN Settled(x, st) /\ SameSizes(u, x) BY <2>14, WindowSwitched
    <3> QED BY <3>1 DEF d
  <2> HIDE DEF t
  <2>16. /\ Len(t.wins) = L + 1
         /\ \A j \in 1 .. L + 1 : t.wins[j].first = ws[j].first /\ t.wins[j].last = ws[j].last
    BY <2>7, <2>8, <2>11, <2>15 DEF SameSizes
  <2>17. Halves(s.wins, c, t.wins)
    <3>1. \A j \in 1 .. c - 1 : /\ t.wins[j].first = s.wins[j].first
                                /\ t.wins[j].last = s.wins[j].last
      <4> TAKE j \in 1 .. c - 1
      <4>1. j \in 1 .. L + 1 BY <2>1
      <4> QED BY <2>9, <2>16, <4>1
    <3>2. \A j \in c + 2 .. L + 1 : /\ t.wins[j].first = s.wins[j - 1].first
                                    /\ t.wins[j].last = s.wins[j - 1].last
      <4> TAKE j \in c + 2 .. L + 1
      <4>1. j \in 1 .. L + 1 BY <2>1
      <4> QED BY <2>9, <2>16, <4>1
    <3>3. t.wins[c].first = w.first /\ t.wins[c].last = mid
          /\ t.wins[c + 1].first = mid + 1 /\ t.wins[c + 1].last = w.last
      <4>1. c \in 1 .. L + 1 /\ c + 1 \in 1 .. L + 1 BY <2>1
      <4> QED BY <2>3, <2>4, <2>8, <2>16, <4>1 DEF first
    <3> QED BY <1>3, <2>1, <2>16, <3>1, <3>2, <3>3 DEF Halves, mid
  <2> QED BY <1>1, <1>3, <2>15, <2>17
<1> QED BY <1>2, <1>3

\* Emptying a buffer leaves no window behind.
LEMMA Emptied ==
  ASSUME NEW st, NEW s, Settled(s, st), NEW b \in Buffer
  PROVE  LET t == bempty(s, b)
         IN Settled(t, st) /\ SameSizes(s, t)
<1> DEFINE Old(i) == s.wins[i]
           p == Min(Place)
           pn == [s.pnt EXCEPT ![b] = p]
           um == [s.umark EXCEPT ![b] = IF s.umark[b] = NIL THEN NIL ELSE p]
           New(i) == [Old(i) EXCEPT
                        !.pnt  = IF Old(i).pnt.buff = b THEN Mark(b, p) ELSE Old(i).pnt,
                        !.mrk  = IF Old(i).mrk # NIL /\ Old(i).mrk.buff = b THEN Mark(b, p)
                                 ELSE Old(i).mrk,
                        !.left = IF Old(i).buff = b THEN p ELSE Old(i).left]
           ws == [i \in DOMAIN s.wins |-> New(i)]
           t == [s EXCEPT !.pnt = pn, !.umark = um, !.wins = ws]
<1>1. bempty(s, b) = t BY DEF bempty
<1>2. s \in State /\ Between(s, st) /\ Shown(s, st) /\ s.curw \in DOMAIN s.wins
      /\ s.wins \in Seq(Window)
  BY DEF Settled, Between, State
<1>3. p \in Place BY StartOfText
<1> HIDE DEF p
<1>4. Mark(b, p) \in MarkName /\ Mark(b, p).buff = b /\ Mark(b, p).at = p
  BY <1>3 DEF Mark, MarkName
<1>5. \A i \in DOMAIN s.wins :
        /\ New(i) \in Window /\ New(i).first = Old(i).first /\ New(i).last = Old(i).last
        /\ New(i).buff = Old(i).buff /\ Shows(New(i), Range(s.bufs), st)
  <2> TAKE i \in DOMAIN s.wins
  <2> DEFINE o == Old(i)
             q == IF o.pnt.buff = b THEN Mark(b, p) ELSE o.pnt
             m == IF o.mrk # NIL /\ o.mrk.buff = b THEN Mark(b, p) ELSE o.mrk
             l == IF o.buff = b THEN p ELSE o.left
             w == [o EXCEPT !.pnt = q, !.mrk = m, !.left = l]
  <2>1. o \in Window /\ Shows(o, Range(s.bufs), st) BY <1>2 DEF Between
  <2>2. New(i) = w OBVIOUS
  <2> HIDE DEF Old, New, o
  <2>3. q \in MarkName /\ m \in MarkName \cup {NIL} /\ l \in Place
    BY <1>3, <1>4, <2>1 DEF Window
  <2>4. st \/ (q.buff = o.buff /\ (m = NIL \/ m.buff = o.buff) /\ l = q.at)
    BY <1>4, <2>1 DEF Shows
  <2> HIDE DEF q, m, l
  <2>5. w \in Window /\ w.first = o.first /\ w.last = o.last /\ w.buff = o.buff /\ w.start = o.start
        /\ w.pnt = q /\ w.mrk = m /\ w.left = l
    BY <2>1, <2>3 DEF Window
  <2> HIDE DEF w
  <2>6. Shows(w, Range(s.bufs), st) BY <2>1, <2>4, <2>5 DEF Shows
  <2> QED BY <2>2, <2>5, <2>6 DEF o
<1> HIDE DEF Old, New
<1>6. ws \in Seq(Window) /\ Len(ws) = Len(s.wins) /\ DOMAIN ws = DOMAIN s.wins
  <2> DEFINE v == s.wins
  <2>1. v \in Seq(Window) /\ DOMAIN ws = DOMAIN v /\ ws = [i \in DOMAIN v |-> ws[i]]
        /\ \A i \in DOMAIN v : ws[i] \in Window
    BY <1>2, <1>5
  <2> HIDE DEF v, ws
  <2>2. ws \in Seq(Window) /\ Len(ws) = Len(v) BY <2>1, Mapped
  <2> QED BY <2>1, <2>2 DEF v
<1>7. \A i \in DOMAIN s.wins : ws[i] = New(i) OBVIOUS
<1> HIDE DEF ws
<1>8. pn \in [Buffer -> Place] /\ um \in [Buffer -> Place \cup {NIL}]
  BY <1>2, <1>3 DEF State
<1> HIDE DEF pn, um
<1>9. t \in State /\ t.bufs = s.bufs /\ t.names = s.names /\ t.cur = s.cur /\ t.curw = s.curw
      /\ t.wins = ws
  BY <1>2, <1>6, <1>8 DEF State
<1> HIDE DEF t
<1>10. Between(t, st) BY <1>2, <1>5, <1>6, <1>7, <1>9 DEF Between
<1>11. Shown(t, st) BY <1>2, <1>5, <1>7, <1>9 DEF Shown, Old
<1>12. SameSizes(s, t) BY <1>5, <1>6, <1>7, <1>9 DEF SameSizes, Old
<1> QED BY <1>1, <1>10, <1>11, <1>12 DEF Settled

\* Sizes that stay the same stay what they were before.
LEMMA SizesKept ==
  ASSUME NEW s, NEW t, NEW u, SameSizes(t, u), DOMAIN t.wins = 1 .. Len(t.wins), Len(s.wins) \in Nat
  PROVE  /\ SameSizes(s, t) => SameSizes(s, u)
         /\ Halves(s.wins, s.curw, t.wins) => Halves(s.wins, s.curw, u.wins)
<1>1. SameSizes(s, t) => SameSizes(s, u) BY DEF SameSizes
<1>2. ASSUME Halves(s.wins, s.curw, t.wins) PROVE Halves(s.wins, s.curw, u.wins)
  <2> DEFINE c == s.curw
             L == Len(s.wins)
             vs == s.wins
             ws == t.wins
             xs == u.wins
  <2>1. L \in Nat /\ c \in 1 .. L /\ Len(ws) = L + 1 /\ DOMAIN ws = 1 .. L + 1 /\ Len(xs) = L + 1
    BY <1>2 DEF Halves, SameSizes
  <2>2. \A j \in 1 .. L + 1 : xs[j].first = ws[j].first /\ xs[j].last = ws[j].last
    BY <2>1 DEF SameSizes
  <2>3. Halves(vs, c, ws) BY <1>2
  <2> HIDE DEF c, L, vs, ws, xs
  <2>4. 1 .. c - 1 \subseteq 1 .. L + 1 /\ c \in 1 .. L + 1 /\ c + 1 \in 1 .. L + 1
        /\ c + 2 .. L + 1 \subseteq 1 .. L + 1
    BY <2>1
  <2>5. Len(vs) = L BY DEF L, vs
  <2>6. Halves(vs, c, xs) BY <2>1, <2>2, <2>3, <2>4, <2>5 DEF Halves
  <2> QED BY <2>6 DEF vs, xs, c
<1> QED BY <1>1, <1>2

\* wuseother takes a window there is or splits the only one.
LEMMA OtherUsed ==
  ASSUME NEW st, NEW s, Settled(s, st), NEW b \in Buffer
  PROVE  LET t == wuseother(s, b)
         IN /\ Settled(t, st)
            /\ SameSizes(s, t) \/ Halves(s.wins, s.curw, t.wins)
<1> DEFINE Showing == {i \in DOMAIN s.wins : s.wins[i].buff = b}
           t == CASE Showing # {}                      -> wswitchto(s, Min(Showing))
                  [] Showing = {} /\ Len(s.wins) > 1   -> wswitchto(s, Len(s.wins))
                  [] OTHER                             -> wsplit(s)
           m == cmakebuff(t, b)
           u == cswitchto(m, b)
           x == bempty(u, b)
<1>0. s.wins \in Seq(Window) /\ DOMAIN s.wins = 1 .. Len(s.wins) /\ Len(s.wins) \in Nat
  <2>1. s.wins \in Seq(Window) BY DEF Settled, Between, State
  <2> QED BY <2>1, LenProperties
<1>1. wuseother(s, b) = x BY DEF wuseother
<1>2. Settled(t, st) /\ (SameSizes(s, t) \/ Halves(s.wins, s.curw, t.wins))
  <2>1. CASE Showing # {}
    <3>1. Showing \subseteq Nat BY <1>0
    <3>2. Min(Showing) \in DOMAIN s.wins
      <4>1. Showing \subseteq DOMAIN s.wins OBVIOUS
      <4> HIDE DEF Showing
      <4> QED BY <2>1, <3>1, <4>1, MinOf
    <3>3. t = wswitchto(s, Min(Showing)) BY <2>1
    <3> HIDE DEF t, Showing
    <3> QED BY <3>2, <3>3, WindowSwitched
  <2>2. CASE Showing = {} /\ Len(s.wins) > 1
    <3>1. Len(s.wins) \in DOMAIN s.wins BY <1>0, <2>2
    <3>2. t = wswitchto(s, Len(s.wins)) BY <2>2
    <3> HIDE DEF t, Showing
    <3> QED BY <3>1, <3>2, WindowSwitched
  <2>3. CASE Showing = {} /\ ~ (Len(s.wins) > 1)
    <3>1. t = wsplit(s) BY <2>3
    <3> HIDE DEF t, Showing
    <3> QED BY <3>1, WindowSplit
  <2> QED BY <2>1, <2>2, <2>3
<1> HIDE DEF t
<1>3. Between(m, st) /\ m.wins = t.wins /\ m.curw = t.curw /\ b \in Range(m.bufs)
  <2>1. Between(t, st) BY <1>2 DEF Settled
  <2>2. Between(m, st) /\ m.wins = t.wins /\ m.curw = t.curw /\ Range(m.bufs) = Range(t.bufs) \cup {b}
    BY <2>1, BufferMade
  <2> QED BY <2>2
<1> HIDE DEF m
<1>4. Settled(u, st) /\ SameSizes(m, u) BY <1>3, BufferSwitched
<1> HIDE DEF u
<1>5. Settled(x, st) /\ SameSizes(u, x) BY <1>4, Emptied
<1> HIDE DEF x
<1>6. SameSizes(t, x) BY <1>3, <1>4, <1>5 DEF SameSizes
<1>7. DOMAIN t.wins = 1 .. Len(t.wins)
  <2>1. t.wins \in Seq(Window) BY <1>2 DEF Settled, Between, State
  <2> QED BY <2>1, LenProperties
<1> QED BY <1>0, <1>1, <1>2, <1>5, <1>6, <1>7, SizesKept

\* wgoto goes to a window of the buffer, or shows it in this one.
LEMMA GoneTo ==
  ASSUME NEW st, NEW s, Settled(s, st), NEW b
  PROVE  LET t == wgoto(s, b)
         IN Settled(t, st) /\ SameSizes(s, t)
<1> DEFINE Showing == {i \in DOMAIN s.wins : s.wins[i].buff = b}
           t == wgoto(s, b)
<1>0. s.wins \in Seq(Window) /\ DOMAIN s.wins = 1 .. Len(s.wins) /\ Len(s.wins) \in Nat
      /\ Between(s, st)
  <2>1. s.wins \in Seq(Window) /\ Between(s, st) BY DEF Settled, Between, State
  <2> QED BY <2>1, LenProperties
<1>1. t = CASE Showing # {}                -> wswitchto(s, Min(Showing))
            [] Showing = {} /\ Has(s, b)   -> cswitchto(s, b)
            [] OTHER                       -> s
  BY DEF wgoto
<1> HIDE DEF t
<1>2. CASE Showing # {}
  <2>1. Showing \subseteq Nat BY <1>0
  <2>2. Min(Showing) \in DOMAIN s.wins
    <3>1. Showing \subseteq DOMAIN s.wins OBVIOUS
    <3> HIDE DEF Showing
    <3> QED BY <1>2, <2>1, <3>1, MinOf
  <2>3. t = wswitchto(s, Min(Showing)) BY <1>1, <1>2
  <2> HIDE DEF Showing
  <2>4. Settled(t, st) /\ SameSizes(s, t) BY <2>2, <2>3, WindowSwitched
  <2> QED BY <2>4 DEF t
<1>3. CASE Showing = {} /\ Has(s, b)
  <2>1. t = cswitchto(s, b) /\ b \in Range(s.bufs) BY <1>1, <1>3 DEF Has
  <2>2. Settled(t, st) /\ SameSizes(s, t) BY <1>0, <2>1, BufferSwitched
  <2> QED BY <2>2 DEF t
<1>4. CASE Showing = {} /\ ~ Has(s, b)
  <2>1. t = s BY <1>1, <1>4
  <2>2. SameSizes(s, s) BY DEF SameSizes
  <2> QED BY <2>1, <2>2 DEF t
<1> QED BY <1>2, <1>3, <1>4

-----------------------------------------------------------------------------
(* What covers the screen. *)

\* The windows cover the lines 0 .. bottom, each with a line of text.
Tiles(ws, bottom) ==
  /\ Len(ws) > 0 /\ ws[1].first = 0 /\ ws[Len(ws)].last = bottom
  /\ \A i \in 1 .. Len(ws) : ws[i].last > ws[i].first
  /\ \A i \in 1 .. Len(ws) - 1 : ws[i + 1].first = ws[i].last + 1

\* The border between windows k and k + 1 of vs is n lines further down in ws.
Edge(vs, k, n, ws) ==
  /\ k \in 1 .. Len(vs) - 1 /\ n \in Int /\ Len(ws) = Len(vs)
  /\ \A i \in 1 .. Len(vs) : /\ ws[i].last = IF i = k THEN vs[i].last + n ELSE vs[i].last
                             /\ ws[i].first = IF i = k + 1 THEN vs[i].first + n ELSE vs[i].first
  /\ ws[k].last > ws[k].first /\ ws[k + 1].last > ws[k + 1].first

\* The first and the last line of a window are numbers.
LEMMA EdgesThere ==
  ASSUME NEW vs \in Seq(Window)
  PROVE  \A i \in DOMAIN vs : vs[i].first \in Int /\ vs[i].last \in Int
<1> TAKE i \in DOMAIN vs
<1>1. vs[i] \in Window OBVIOUS
<1> QED BY <1>1 DEF Window

\* Windows of the same sizes cover the same lines.
LEMMA SameTiles ==
  ASSUME NEW s, NEW t, s.wins \in Seq(Window), SameSizes(s, t), NEW bottom, Tiles(s.wins, bottom)
  PROVE  Tiles(t.wins, bottom)
<1> DEFINE vs == s.wins
           ws == t.wins
           L == Len(vs)
<1>1. L \in Nat /\ DOMAIN vs = 1 .. L /\ L > 0 BY DEF Tiles
<1>2. Len(ws) = L /\ \A i \in 1 .. L : ws[i].first = vs[i].first /\ ws[i].last = vs[i].last
  BY <1>1 DEF SameSizes
<1>3. 1 \in 1 .. L /\ L \in 1 .. L /\ \A i \in 1 .. L - 1 : i \in 1 .. L /\ i + 1 \in 1 .. L
  BY <1>1
<1>4. Tiles(vs, bottom) BY DEF vs
<1> HIDE DEF vs, ws
<1>5. Tiles(ws, bottom) BY <1>2, <1>3, <1>4 DEF Tiles, L
<1> QED BY <1>5 DEF ws

\* So do windows of which one is two.
LEMMA HalvesTile ==
  ASSUME NEW vs \in Seq(Window), NEW c, NEW ws, Halves(vs, c, ws), NEW bottom, Tiles(vs, bottom)
  PROVE  Tiles(ws, bottom)
<1> DEFINE L == Len(vs)
           mid == vs[c].first + (height(vs[c]) \div 2)
<1>1. L \in Nat /\ DOMAIN vs = 1 .. L /\ L > 0 /\ c \in 1 .. L /\ Len(ws) = L + 1
  BY DEF Tiles, Halves
<1>2. \A i \in 1 .. L : vs[i].first \in Int /\ vs[i].last \in Int BY <1>1, EdgesThere
<1>3. /\ ws[c].first = vs[c].first /\ ws[c].last = mid
      /\ ws[c + 1].first = mid + 1 /\ ws[c + 1].last = vs[c].last
      /\ \A j \in 1 .. c - 1 : ws[j].first = vs[j].first /\ ws[j].last = vs[j].last
      /\ \A j \in c + 2 .. L + 1 : ws[j].first = vs[j - 1].first /\ ws[j].last = vs[j - 1].last
  BY DEF Halves
<1>4. mid \in Int /\ vs[c].first < mid /\ mid + 1 < vs[c].last
  <2> DEFINE h == height(vs[c])
  <2>1. h \in Int /\ h = vs[c].last - vs[c].first BY <1>1, <1>2 DEF height
  <2>2. h > 2 BY <2>1, SizeAssumption DEF Halves
  <2> HIDE DEF h
  <2>3. h \div 2 \in Int /\ h \div 2 > 0 /\ h \div 2 + 1 < h BY <2>1, <2>2
  <2>4. mid = vs[c].first + (h \div 2) BY DEF h
  <2> DEFINE a == vs[c].first
             z == vs[c].last
  <2>5. a \in Int /\ z \in Int /\ h = z - a /\ mid = a + (h \div 2) BY <1>1, <1>2, <2>1, <2>4
  <2> HIDE DEF mid, a, z
  <2>6. mid \in Int /\ a < mid /\ mid + 1 < z BY <2>1, <2>3, <2>5
  <2> QED BY <2>6 DEF a, z
<1>5. /\ vs[1].first = 0 /\ vs[L].last = bottom
      /\ \A i \in 1 .. L : vs[i].last > vs[i].first
      /\ \A i \in 1 .. L - 1 : vs[i + 1].first = vs[i].last + 1
  BY DEF Tiles
<1> HIDE DEF L, mid
<1>6. ws[1].first = 0
  <2>1. CASE c = 1 BY <1>3, <1>5, <2>1
  <2>2. CASE c # 1
    <3>1. 1 \in 1 .. c - 1 BY <1>1, <2>2
    <3> QED BY <1>3, <1>5, <3>1
  <2> QED BY <2>1, <2>2
<1>7. ws[L + 1].last = bottom
  <2>1. CASE c = L BY <1>3, <1>5, <2>1
  <2>2. CASE c # L
    <3> DEFINE j == L + 1
    <3>1. j \in c + 2 .. L + 1 /\ j - 1 = L BY <1>1, <2>2
    <3> HIDE DEF j
    <3>2. ws[j].last = vs[j - 1].last BY <1>3, <3>1
    <3> QED BY <1>5, <3>1, <3>2 DEF j
  <2> QED BY <2>1, <2>2
<1>8. ASSUME NEW i \in 1 .. L + 1 PROVE ws[i].last > ws[i].first
  <2>1. i \in 1 .. c - 1 \/ i = c \/ i = c + 1 \/ i \in c + 2 .. L + 1 BY <1>1
  <2>2. CASE i \in 1 .. c - 1
    <3>1. i \in 1 .. L BY <1>1, <2>2
    <3> QED BY <1>3, <1>5, <2>2, <3>1
  <2>3. CASE i \in c + 2 .. L + 1
    <3>1. i - 1 \in 1 .. L BY <1>1, <2>3
    <3> QED BY <1>3, <1>5, <2>3, <3>1
  <2>4. CASE i = c BY <1>1, <1>2, <1>3, <1>4, <2>4
  <2>5. CASE i = c + 1 BY <1>1, <1>2, <1>3, <1>4, <2>5
  <2> QED BY <2>1, <2>2, <2>3, <2>4, <2>5
<1>9. ASSUME NEW i \in 1 .. L PROVE ws[i + 1].first = ws[i].last + 1
  <2>1. i + 1 \in 1 .. c - 1 \/ i + 1 = c \/ i = c \/ i = c + 1 \/ i \in c + 2 .. L BY <1>1
  <2>2. CASE i + 1 \in 1 .. c - 1
    <3>1. i \in 1 .. c - 1 /\ i \in 1 .. L - 1 BY <1>1, <2>2
    <3> QED BY <1>3, <1>5, <2>2, <3>1
  <2>3. CASE i + 1 = c
    <3>1. i \in 1 .. c - 1 /\ i \in 1 .. L - 1 BY <1>1, <2>3
    <3>2. vs[c].first = vs[i].last + 1 BY <1>5, <2>3, <3>1
    <3> QED BY <1>3, <2>3, <3>1, <3>2
  <2>4. CASE i = c BY <1>3, <2>4
  <2>5. CASE i = c + 1
    <3>1. i + 1 \in c + 2 .. L + 1 /\ c \in 1 .. L - 1 /\ i + 1 - 1 = c + 1 BY <1>1, <2>5
    <3>2. vs[c + 1].first = vs[c].last + 1 BY <1>5, <3>1
    <3> QED BY <1>3, <2>5, <3>1, <3>2
  <2>6. CASE i \in c + 2 .. L
    <3>1. i + 1 \in c + 2 .. L + 1 /\ i \in c + 2 .. L + 1 /\ i - 1 \in 1 .. L - 1
          /\ i + 1 - 1 = i /\ i - 1 + 1 = i
      BY <1>1, <2>6
    <3>2. vs[i].first = vs[i - 1].last + 1 BY <1>5, <3>1
    <3>3. ws[i + 1].first = vs[i].first /\ ws[i].last = vs[i - 1].last BY <1>3, <3>1
    <3> QED BY <3>2, <3>3
  <2> QED BY <2>1, <2>2, <2>3, <2>4, <2>5, <2>6
<1>10. L + 1 > 0 /\ L + 1 - 1 = L BY <1>1
<1> QED BY <1>1, <1>6, <1>7, <1>8, <1>9, <1>10 DEF Tiles

\* And windows of which two share their lines in another way.
LEMMA EdgeTiles ==
  ASSUME NEW vs \in Seq(Window), NEW k, NEW n, NEW ws, Edge(vs, k, n, ws),
         NEW bottom, Tiles(vs, bottom)
  PROVE  Tiles(ws, bottom)
<1> DEFINE L == Len(vs)
<1>1. L \in Nat /\ DOMAIN vs = 1 .. L /\ L > 0 /\ k \in 1 .. L - 1 /\ Len(ws) = L /\ n \in Int
  BY DEF Tiles, Edge
<1>2. \A i \in 1 .. L : vs[i].first \in Int /\ vs[i].last \in Int BY <1>1, EdgesThere
<1>3. /\ \A i \in 1 .. L : /\ ws[i].last = IF i = k THEN vs[i].last + n ELSE vs[i].last
                           /\ ws[i].first = IF i = k + 1 THEN vs[i].first + n ELSE vs[i].first
      /\ ws[k].last > ws[k].first /\ ws[k + 1].last > ws[k + 1].first
  BY DEF Edge
<1>4. /\ vs[1].first = 0 /\ vs[L].last = bottom
      /\ \A i \in 1 .. L : vs[i].last > vs[i].first
      /\ \A i \in 1 .. L - 1 : vs[i + 1].first = vs[i].last + 1
  BY DEF Tiles
<1> HIDE DEF L
<1>5. ws[1].first = 0 /\ ws[L].last = bottom
  <2>1. 1 \in 1 .. L /\ L \in 1 .. L /\ 1 # k + 1 /\ L # k BY <1>1
  <2> QED BY <1>3, <1>4, <2>1
<1>6. ASSUME NEW i \in 1 .. L PROVE ws[i].last > ws[i].first
  <2>1. CASE i = k \/ i = k + 1 BY <1>3, <2>1
  <2>2. CASE i # k /\ i # k + 1 BY <1>3, <1>4, <2>2
  <2> QED BY <2>1, <2>2
<1>7. ASSUME NEW i \in 1 .. L - 1 PROVE ws[i + 1].first = ws[i].last + 1
  <2>1. i \in 1 .. L /\ i + 1 \in 1 .. L /\ (i + 1 = k + 1 <=> i = k) BY <1>1
  <2>2. vs[i].last \in Int /\ vs[i + 1].first = vs[i].last + 1 BY <1>2, <1>4, <2>1
  <2>3. CASE i = k BY <1>1, <1>3, <2>1, <2>2, <2>3
  <2>4. CASE i # k BY <1>1, <1>3, <2>1, <2>2, <2>4
  <2> QED BY <2>3, <2>4
<1> QED BY <1>1, <1>5, <1>6, <1>7 DEF Tiles

\* The border between two windows moves.
LEMMA EdgeMoved ==
  ASSUME NEW st, NEW s, Settled(s, st), NEW k, NEW n \in Int,
         k \in DOMAIN s.wins, k + 1 \in DOMAIN s.wins,
         height(s.wins[k]) + n > 0, height(s.wins[k + 1]) - n > 0
  PROVE  LET t == MoveEdge(s, k, n)
         IN Settled(t, st) /\ Edge(s.wins, k, n, t.wins)
<1> DEFINE v == s.wins
           L == Len(v)
           New(i) == [v[i] EXCEPT !.last  = IF i = k THEN v[i].last + n ELSE v[i].last,
                                  !.first = IF i = k + 1 THEN v[i].first + n ELSE v[i].first]
           ws == [i \in DOMAIN v |-> New(i)]
           t == [s EXCEPT !.wins = ws]
<1>1. MoveEdge(s, k, n) = t BY DEF MoveEdge
<1>2. v \in Seq(Window) /\ L \in Nat /\ DOMAIN v = 1 .. L
  <2>1. v \in Seq(Window) BY DEF Settled, Between, State
  <2> QED BY <2>1, LenProperties
<1>3. k \in 1 .. L - 1 /\ k + 1 \in 1 .. L /\ k \in 1 .. L /\ k \in Nat
  <2>1. k \in 1 .. L /\ k + 1 \in 1 .. L BY <1>2
  <2> QED BY <1>2, <2>1
<1>4. height(v[k]) + n > 0 /\ height(v[k + 1]) - n > 0 OBVIOUS
<1>5. Settled(s, st) /\ v = s.wins OBVIOUS
<1> HIDE DEF v
<1>6. \A i \in DOMAIN v : /\ New(i) \in Window /\ v[i].first \in Int /\ v[i].last \in Int
                          /\ New(i).buff = v[i].buff /\ New(i).pnt = v[i].pnt
                          /\ New(i).mrk = v[i].mrk /\ New(i).start = v[i].start
                          /\ New(i).left = v[i].left
                          /\ New(i).last = IF i = k THEN v[i].last + n ELSE v[i].last
                          /\ New(i).first = IF i = k + 1 THEN v[i].first + n ELSE v[i].first
  <2> TAKE i \in DOMAIN v
  <2> DEFINE o == v[i]
             l == IF i = k THEN v[i].last + n ELSE v[i].last
             f == IF i = k + 1 THEN v[i].first + n ELSE v[i].first
             w == [o EXCEPT !.last = l, !.first = f]
  <2>1. o \in Window BY <1>2
  <2>2. o.first \in Int /\ o.last \in Int BY <2>1 DEF Window
  <2>3. l \in Int /\ f \in Int BY <2>2
  <2>4. New(i) = w OBVIOUS
  <2> HIDE DEF l, f, New
  <2>5. w \in Window /\ w.buff = o.buff /\ w.pnt = o.pnt /\ w.mrk = o.mrk /\ w.start = o.start
        /\ w.left = o.left /\ w.last = l /\ w.first = f
    <3> HIDE DEF o
    <3> QED BY ONLY <2>1, <2>3 DEF Window
  <2> HIDE DEF w
  <2> QED BY <2>2, <2>4, <2>5 DEF l, f
<1>7. \A i \in DOMAIN v : ws[i] = New(i) OBVIOUS
<1>8. ws \in Seq(Window) /\ Len(ws) = L /\ DOMAIN ws = DOMAIN v
  <2>1. DOMAIN ws = DOMAIN v /\ ws = [i \in DOMAIN v |-> ws[i]]
        /\ \A i \in DOMAIN v : ws[i] \in Window
    BY <1>6
  <2> HIDE DEF ws
  <2>2. ws \in Seq(Window) /\ Len(ws) = Len(v) BY <1>2, <2>1, Mapped
  <2> QED BY <2>1, <2>2
<1> HIDE DEF ws, New
<1>9. Resizes(v, ws) BY <1>6, <1>7, <1>8 DEF Resizes
<1>10. Settled(t, st) /\ t.wins = ws
  <2>1. Resizes(s.wins, ws) BY <1>5, <1>9
  <2> QED BY <1>5, <2>1, Resized
<1>11. Edge(v, k, n, ws)
  <2>1. \A i \in 1 .. L : /\ ws[i].last = IF i = k THEN v[i].last + n ELSE v[i].last
                          /\ ws[i].first = IF i = k + 1 THEN v[i].first + n ELSE v[i].first
    BY <1>2, <1>6, <1>7
  <2>2. ws[k].last > ws[k].first /\ ws[k + 1].last > ws[k + 1].first
    <3>1. v[k].last \in Int /\ v[k].first \in Int /\ v[k + 1].last \in Int /\ v[k + 1].first \in Int
      BY <1>2, <1>3, <1>6
    <3>2. ws[k].last = v[k].last + n /\ ws[k].first = v[k].first
          /\ ws[k + 1].last = v[k + 1].last /\ ws[k + 1].first = v[k + 1].first + n
      <4>1. k # k + 1 BY <1>3
      <4> QED BY <1>3, <2>1, <4>1
    <3> QED BY <1>4, <3>1, <3>2 DEF height
  <2> QED BY <1>3, <1>8, <2>1, <2>2 DEF Edge
<1> QED BY <1>1, <1>5, <1>10, <1>11

\* sizewindow moves a border, if it does anything.
LEMMA Sized ==
  ASSUME NEW st, NEW s, Settled(s, st), NEW n \in Int
  PROVE  LET t == sizewindow(s, n)
         IN /\ Settled(t, st)
            /\ SameSizes(s, t) \/ \E k, m : Edge(s.wins, k, m, t.wins)
<1> DEFINE c == s.curw
           Spare(i) == i \in DOMAIN s.wins /\ height(s.wins[i]) - n > MINWDO
           t == sizewindow(s, n)
           big == height(Curwdo(s)) + n >= MINWDO
<1>1. /\ c \in Nat /\ c \in DOMAIN s.wins /\ MINWDO \in Nat /\ MINWDO > 2
      /\ \A i \in DOMAIN s.wins : height(s.wins[i]) \in Int
  <2>1. s.wins \in Seq(Window) /\ c \in DOMAIN s.wins /\ c \in Nat BY DEF Settled, Between, State
  <2>2. \A i \in DOMAIN s.wins : s.wins[i].first \in Int /\ s.wins[i].last \in Int
    BY <2>1, EdgesThere
  <2> QED BY <2>1, <2>2, SizeAssumption DEF height
<1>2. Curwdo(s) = s.wins[c] BY DEF Curwdo
<1>3. (height(Curwdo(s)) + n < MINWDO) <=> ~ big BY <1>1, <1>2
<1>4. t = CASE height(Curwdo(s)) + n < MINWDO -> s
            [] big /\ Spare(c + 1) -> MoveEdge(s, c, n)
            [] big /\ ~ Spare(c + 1) /\ Spare(c - 1) -> MoveEdge(s, c - 1, - n)
            [] OTHER -> s
  BY DEF sizewindow
<1>5. t = CASE ~ big -> s
            [] big /\ Spare(c + 1) -> MoveEdge(s, c, n)
            [] big /\ ~ Spare(c + 1) /\ Spare(c - 1) -> MoveEdge(s, c - 1, - n)
            [] OTHER -> s
  BY <1>3, <1>4
<1> HIDE DEF t
<1>6. CASE big /\ Spare(c + 1)
  <2>1. t = MoveEdge(s, c, n) BY <1>5, <1>6
  <2>2. c + 1 \in DOMAIN s.wins /\ height(s.wins[c]) + n > 0 /\ height(s.wins[c + 1]) - n > 0
    BY <1>1, <1>2, <1>6
  <2>3. Settled(t, st) /\ Edge(s.wins, c, n, t.wins) BY <1>1, <2>1, <2>2, EdgeMoved
  <2> QED BY <2>3 DEF t
<1>7. CASE big /\ ~ Spare(c + 1) /\ Spare(c - 1)
  <2> DEFINE k == c - 1
             m == - n
  <2>1. t = MoveEdge(s, k, m) BY <1>5, <1>7
  <2>2. k \in DOMAIN s.wins /\ k + 1 = c /\ m \in Int BY <1>1, <1>7
  <2>3. height(s.wins[k]) + m > 0 /\ height(s.wins[c]) - m > 0
    BY <1>1, <1>2, <1>7
  <2> HIDE DEF k, m
  <2>4. k + 1 \in DOMAIN s.wins /\ height(s.wins[k + 1]) - m > 0 BY <1>1, <2>2, <2>3
  <2>5. Settled(t, st) /\ Edge(s.wins, k, m, t.wins) BY <2>1, <2>2, <2>3, <2>4, EdgeMoved
  <2> QED BY <2>5 DEF t
<1>8. CASE ~ big \/ (big /\ ~ Spare(c + 1) /\ ~ Spare(c - 1))
  <2>1. t = s BY <1>5, <1>8
  <2>2. SameSizes(s, s) BY DEF SameSizes
  <2> QED BY <2>1, <2>2 DEF t
<1> QED BY <1>6, <1>7, <1>8

\* Whether the pass adds a line to window k, or takes one, after i lines.
More(vs, d, grow, k, i) == i < d /\ (grow \/ vs[k].last - (vs[k].first - i) - 1 > 3)

\* The lines taken from the windows, one by one.
LEMMA TakenOneByOne ==
  ASSUME NEW vs \in Seq(Window), NEW d \in Nat, NEW grow \in BOOLEAN
  PROVE  LET f == Taken(vs, d, grow)
         IN /\ f \in [0 .. Len(vs) -> Nat] /\ f[0] = 0
            /\ \A k \in 1 .. Len(vs) :
                 f[k] = IF More(vs, d, grow, k, f[k - 1]) THEN f[k - 1] + 1 ELSE f[k - 1]
<1> DEFINE L == Len(vs)
           taken == CHOOSE f : f = [k \in 0 .. L |->
                      IF k = 0 THEN 0
                      ELSE IF More(vs, d, grow, k, f[k - 1]) THEN f[k - 1] + 1 ELSE f[k - 1]]
           next == [k \in 1 .. L |->
                      [i \in Nat |-> IF More(vs, d, grow, k, i) THEN i + 1 ELSE i]]
<1>1. L \in Nat OBVIOUS
<1>2. Taken(vs, d, grow) = taken BY DEF Taken, More
<1>3. next \in [1 .. L -> [Nat -> Nat]] OBVIOUS
<1>4. PICK g \in [0 .. L -> Nat] : g[0] = 0 /\ \A k \in 1 .. L : g[k] = next[k][g[k - 1]]
  <2>1. Recursive(L, Nat, 0, next) # {}
    <3> HIDE DEF next, L
    <3> QED BY <1>1, <1>3, Recursion
  <2> QED BY <2>1 DEF Recursive
<1>5. \A k \in 1 .. L :
        g[k] = IF More(vs, d, grow, k, g[k - 1]) THEN g[k - 1] + 1 ELSE g[k - 1]
  <2> TAKE k \in 1 .. L
  <2>1. k - 1 \in 0 .. L BY <1>1
  <2>2. g[k - 1] \in Nat BY <2>1
  <2>3. g[k] = next[k][g[k - 1]] BY <1>4
  <2> QED BY <2>2, <2>3
<1> HIDE DEF next, L
<1>6. g = [k \in 0 .. L |->
             IF k = 0 THEN 0
             ELSE IF More(vs, d, grow, k, g[k - 1]) THEN g[k - 1] + 1 ELSE g[k - 1]]
  <2>1. \A k \in 0 .. L :
          g[k] = IF k = 0 THEN 0
                 ELSE IF More(vs, d, grow, k, g[k - 1]) THEN g[k - 1] + 1 ELSE g[k - 1]
    <3> TAKE k \in 0 .. L
    <3>1. k # 0 => k \in 1 .. L BY <1>1
    <3> QED BY <1>4, <1>5, <3>1
  <2> QED BY <2>1
<1>7. taken = [k \in 0 .. L |->
                 IF k = 0 THEN 0
                 ELSE IF More(vs, d, grow, k, taken[k - 1]) THEN taken[k - 1] + 1
                      ELSE taken[k - 1]]
  BY <1>6
<1> HIDE DEF taken
<1>8. 0 \in 0 .. L /\ \A k \in 1 .. L : k \in 0 .. L /\ k # 0 /\ k - 1 \in 0 .. L BY <1>1
<1>9. taken[0] = 0 BY <1>7, <1>8
<1>10. \A k \in 1 .. L :
         taken[k] = IF More(vs, d, grow, k, taken[k - 1]) THEN taken[k - 1] + 1 ELSE taken[k - 1]
  BY <1>7, <1>8
<1>11. \A k \in 0 .. L : taken[k] \in Nat
  <2> DEFINE T == {k \in 0 .. L : taken[k] \in Nat}
  <2>1. 0 \in T BY <1>8, <1>9
  <2>2. ASSUME NEW k \in 0 .. L - 1, k \in T PROVE k + 1 \in T
    <3> DEFINE j == k + 1
    <3>1. j \in 1 .. L /\ j - 1 = k BY <1>1
    <3> HIDE DEF j
    <3>2. taken[j - 1] \in Nat BY <2>2, <3>1
    <3>3. taken[j] \in Nat BY <1>10, <3>1, <3>2
    <3> QED BY <1>8, <3>1, <3>3 DEF j
  <2> HIDE DEF T
  <2>3. 0 .. L \subseteq T BY <1>1, <2>1, <2>2, UpTo
  <2> QED BY <2>3 DEF T
<1>12. taken \in [0 .. L -> Nat]
  <2>1. taken = [k \in 0 .. L |-> taken[k]] BY <1>7
  <2> QED BY <1>11, <2>1
<1> QED BY <1>2, <1>9, <1>10, <1>12 DEF L

\* No more is taken than there is to take, nor a second line from a window.
LEMMA TakenBound ==
  ASSUME NEW L \in Nat, NEW d \in Nat, NEW f \in [0 .. L -> Nat], f[0] = 0,
         \A k \in 1 .. L : f[k] = f[k - 1] \/ (f[k - 1] < d /\ f[k] = f[k - 1] + 1)
  PROVE  \A k \in 0 .. L : f[k] <= d /\ f[k] <= k
<1> DEFINE T == {k \in 0 .. L : f[k] <= d /\ f[k] <= k}
<1>1. 0 \in T OBVIOUS
<1>2. ASSUME NEW k \in 0 .. L - 1, k \in T PROVE k + 1 \in T
  <2> DEFINE j == k + 1
  <2>1. j \in 1 .. L /\ j \in 0 .. L /\ j - 1 = k /\ k \in 0 .. L BY <1>2
  <2>2. f[k] \in Nat /\ f[k] <= d /\ f[k] <= k BY <1>2, <2>1
  <2>3. j = k + 1 OBVIOUS
  <2> HIDE DEF j
  <2>4. f[j] = f[k] \/ (f[k] < d /\ f[j] = f[k] + 1) BY <2>1
  <2>5. f[j] <= d /\ f[j] <= j BY <2>1, <2>2, <2>3, <2>4
  <2> QED BY <2>1, <2>5 DEF j
<1> HIDE DEF T
<1>3. 0 .. L \subseteq T BY <1>1, <1>2, UpTo
<1> QED BY <1>3 DEF T

\* The last line covered, if goal is to be it when d more lines are given or taken.
Left(grow, goal, d) == IF grow THEN goal - d ELSE goal + d

\* A pass of do_wsize keeps the windows together, and of up to four each a line.
LEMMA Passed ==
  ASSUME NEW vs \in Seq(Window), NEW d \in Nat, NEW grow \in BOOLEAN
  PROVE  LET p == Pass(vs, d, grow)
         IN /\ p \in [ws : Seq(Window), d : Nat] /\ Resizes(vs, p.ws)
            /\ \A goal \in Int : (grow \/ Len(vs) <= 4) /\ Tiles(vs, Left(grow, goal, d))
                                   => Tiles(p.ws, Left(grow, goal, p.d))
<1> DEFINE L == Len(vs)
           f == Taken(vs, d, grow)
           by == [k \in 0 .. L |-> IF grow THEN f[k] ELSE - f[k]]
           New(k) == [vs[k] EXCEPT !.first = vs[k].first + by[k - 1], !.last = vs[k].last + by[k]]
           ws == [k \in DOMAIN vs |-> New(k)]
           p == [ws |-> ws, d |-> d - f[L]]
<1>1. L \in Nat /\ DOMAIN vs = 1 .. L OBVIOUS
<1>2. \A i \in 1 .. L : vs[i].first \in Int /\ vs[i].last \in Int BY <1>1, EdgesThere
<1>3. /\ f \in [0 .. L -> Nat] /\ f[0] = 0
      /\ \A k \in 1 .. L : f[k] = IF More(vs, d, grow, k, f[k - 1]) THEN f[k - 1] + 1 ELSE f[k - 1]
  BY TakenOneByOne
<1>4. Pass(vs, d, grow) = p
  <2>1. \A k \in DOMAIN vs : k \in 0 .. L /\ k - 1 \in 0 .. L BY <1>1
  <2> DEFINE By(k) == IF grow THEN f[k] ELSE - f[k]
             us == [k \in DOMAIN vs |-> [vs[k] EXCEPT !.first = vs[k].first + By(k - 1),
                                                       !.last = vs[k].last + By(k)]]
  <2>2. Pass(vs, d, grow) = [ws |-> us, d |-> d - f[L]] BY DEF Pass
  <2>3. \A k \in DOMAIN vs : by[k - 1] = By(k - 1) /\ by[k] = By(k) BY <2>1
  <2>4. us = ws BY <2>3
  <2> QED BY <2>2, <2>4
<1> HIDE DEF f
<1>5. \A k \in 1 .. L : k \in 0 .. L /\ k - 1 \in 0 .. L BY <1>1
<1>6. \A k \in 1 .. L : f[k] = f[k - 1] \/ (f[k - 1] < d /\ f[k] = f[k - 1] + 1)
  BY <1>3 DEF More
<1>7. \A k \in 0 .. L : f[k] \in Nat /\ f[k] <= d /\ f[k] <= k
  <2>1. \A k \in 0 .. L : f[k] <= d /\ f[k] <= k
    <3> HIDE DEF L
    <3> QED BY <1>1, <1>3, <1>6, TakenBound
  <2> QED BY <1>3, <2>1
<1>8. \A k \in 0 .. L : by[k] = (IF grow THEN f[k] ELSE - f[k]) /\ by[k] \in Int BY <1>7
<1> HIDE DEF by
<1>9. \A k \in 1 .. L : /\ New(k) \in Window
                        /\ New(k).buff = vs[k].buff /\ New(k).pnt = vs[k].pnt
                        /\ New(k).mrk = vs[k].mrk /\ New(k).start = vs[k].start
                        /\ New(k).left = vs[k].left
                        /\ New(k).first = vs[k].first + by[k - 1]
                        /\ New(k).last = vs[k].last + by[k]
  <2> TAKE k \in 1 .. L
  <2> DEFINE o == vs[k]
             a == o.first + by[k - 1]
             z == o.last + by[k]
             w == [o EXCEPT !.first = a, !.last = z]
  <2>1. o \in Window BY <1>1
  <2>2. a \in Int /\ z \in Int BY <1>2, <1>5, <1>8
  <2>3. New(k) = w OBVIOUS
  <2> HIDE DEF a, z, New
  <2>4. w \in Window /\ w.buff = o.buff /\ w.pnt = o.pnt /\ w.mrk = o.mrk /\ w.start = o.start
        /\ w.left = o.left /\ w.first = a /\ w.last = z
    <3> HIDE DEF o
    <3> QED BY ONLY <2>1, <2>2 DEF Window
  <2> HIDE DEF w
  <2> QED BY <2>3, <2>4 DEF a, z
<1>10. \A k \in 1 .. L : ws[k] = New(k) BY <1>1
<1>11. ws \in Seq(Window) /\ Len(ws) = L /\ DOMAIN ws = DOMAIN vs
  <2>1. DOMAIN ws = DOMAIN vs /\ ws = [i \in DOMAIN vs |-> ws[i]]
        /\ \A i \in DOMAIN vs : ws[i] \in Window
    BY <1>1, <1>9
  <2> HIDE DEF ws
  <2>2. ws \in Seq(Window) /\ Len(ws) = Len(vs) BY <2>1, Mapped
  <2> QED BY <2>1, <2>2
<1> HIDE DEF ws, New
<1>12. Resizes(vs, ws) BY <1>1, <1>9, <1>10, <1>11 DEF Resizes
<1>13. L \in 0 .. L /\ d - f[L] \in Nat
  <2>1. L \in 0 .. L BY <1>1
  <2> QED BY <1>7, <2>1
<1>14. ASSUME NEW goal \in Int, grow \/ L <= 4, Tiles(vs, Left(grow, goal, d))
       PROVE  Tiles(ws, Left(grow, goal, d - f[L]))
  <2>1. /\ L > 0 /\ vs[1].first = 0 /\ vs[L].last = Left(grow, goal, d)
        /\ \A i \in 1 .. L : vs[i].last > vs[i].first
        /\ \A i \in 1 .. L - 1 : vs[i + 1].first = vs[i].last + 1
    BY <1>14 DEF Tiles
  <2>2. 1 \in 1 .. L /\ L \in 1 .. L /\ 0 \in 0 .. L BY <1>1, <2>1
  <2>3. ws[1].first = 0
    <3>1. by[0] = 0 BY <1>3, <1>8, <2>2
    <3>2. ws[1].first = vs[1].first + by[1 - 1] BY <1>9, <1>10, <2>2
    <3> QED BY <2>1, <3>1, <3>2
  <2>4. ws[L].last = Left(grow, goal, d - f[L])
    <3>1. ws[L].last = vs[L].last + by[L] BY <1>9, <1>10, <2>2
    <3>2. f[L] \in Nat /\ by[L] = IF grow THEN f[L] ELSE - f[L] BY <1>7, <1>8, <1>13
    <3> DEFINE e == f[L]
               z == vs[L].last
    <3>3. e \in Nat /\ ws[L].last = z + (IF grow THEN e ELSE - e) /\ z = Left(grow, goal, d)
      BY <2>1, <3>1, <3>2
    <3> HIDE DEF e, z
    <3>4. ws[L].last = Left(grow, goal, d - e)
      <4>1. CASE grow BY <3>3, <4>1 DEF Left
      <4>2. CASE ~ grow BY <3>3, <4>2 DEF Left
      <4> QED BY <4>1, <4>2
    <3> QED BY <3>4 DEF e
  <2>5. ASSUME NEW i \in 1 .. L PROVE ws[i].last > ws[i].first
    <3> DEFINE h == i - 1
               a == vs[i].first
               z == vs[i].last
    <3>1. ws[i].last = z + by[i] /\ ws[i].first = a + by[h] BY <1>9, <1>10
    <3>2. a \in Int /\ z \in Int /\ z > a BY <1>2, <2>1
    <3>3. f[i] = (IF More(vs, d, grow, i, f[h]) THEN f[h] + 1 ELSE f[h]) BY <1>3
    <3>4. h \in 0 .. L /\ i \in 0 .. L /\ h = i - 1 /\ i \in Int BY <1>1
    <3>5. /\ by[i] = IF grow THEN f[i] ELSE - f[i]
          /\ by[h] = IF grow THEN f[h] ELSE - f[h]
          /\ f[h] \in Nat /\ f[h] <= h /\ f[i] \in Nat
      BY <1>7, <1>8, <3>4
    <3>6. More(vs, d, grow, i, f[h]) => grow \/ z - (a - f[h]) - 1 > 3 BY DEF More
    <3> HIDE DEF h, a, z
    <3>7. CASE grow
      <4>1. by[i] = f[i] /\ by[h] = f[h] /\ (f[i] = f[h] \/ f[i] = f[h] + 1)
        BY <3>3, <3>5, <3>7
      <4>2. f[i] \in Nat /\ f[h] \in Nat /\ f[h] <= f[i] BY <3>5, <4>1
      <4>3. ws[i].last = z + f[i] /\ ws[i].first = a + f[h] BY <3>1, <4>1
      <4> QED BY ONLY <3>2, <4>2, <4>3
    <3>8. CASE ~ grow /\ f[i] = f[h]
      <4>1. by[i] = - f[i] /\ by[h] = - f[h] BY <3>5, <3>8
      <4> QED BY <3>1, <3>2, <3>5, <3>8, <4>1
    <3>9. CASE ~ grow /\ f[i] # f[h]
      <4>1. by[i] = - f[i] /\ by[h] = - f[h] BY <3>5, <3>9
      <4>2. f[i] = f[h] + 1 /\ z - (a - f[h]) - 1 > 3 BY <3>3, <3>6, <3>9
      <4>3. i <= 4 /\ f[h] <= 3 BY <1>1, <1>14, <3>4, <3>5, <3>9
      <4>4. z - a > 1 BY <3>2, <3>5, <4>2, <4>3
      <4> QED BY <3>1, <3>2, <3>5, <4>1, <4>2, <4>4
    <3> QED BY <3>7, <3>8, <3>9
  <2>6. ASSUME NEW i \in 1 .. L - 1 PROVE ws[i + 1].first = ws[i].last + 1
    <3> DEFINE j == i + 1
    <3>1. i \in 1 .. L /\ j \in 1 .. L /\ j - 1 = i /\ i \in 0 .. L BY <1>1
    <3>2. vs[j].first = vs[i].last + 1 BY <2>1
    <3> HIDE DEF j
    <3>3. ws[j].first = vs[j].first + by[j - 1] BY <1>9, <1>10, <3>1
    <3>4. ws[i].last = vs[i].last + by[i] /\ vs[i].last \in Int /\ by[i] \in Int
      BY <1>2, <1>8, <1>9, <1>10, <3>1
    <3>5. ws[j].first = ws[i].last + 1 BY <3>1, <3>2, <3>3, <3>4
    <3> QED BY <3>5 DEF j
  <2> HIDE DEF L
  <2> QED BY <1>11, <2>1, <2>3, <2>4, <2>5, <2>6 DEF Tiles
<1>15. p \in [ws : Seq(Window), d : Nat] /\ p.ws = ws /\ p.d = d - f[L] BY <1>11, <1>13
<1> HIDE DEF p
<1> QED BY <1>4, <1>12, <1>14, <1>15

\* What n passes leave to do.
Goes(vs, size, grow, p) ==
  /\ p \in [ws : Seq(Window), d : Nat] /\ Resizes(vs, p.ws)
  /\ \A goal \in Int : (grow \/ Len(vs) <= 4) /\ Tiles(vs, Left(grow, goal, size))
                         => Tiles(p.ws, Left(grow, goal, p.d))

\* All passes keep the windows together.
LEMMA AllPassed ==
  ASSUME NEW vs \in Seq(Window), NEW size \in Nat, NEW grow \in BOOLEAN
  PROVE  Goes(vs, size, grow, Passes(vs, size, grow))
<1> DEFINE A == [ws : Seq(Window), d : Nat]
           a == [ws |-> vs, d |-> size]
           after == CHOOSE f : f = [n \in 0 .. size |->
                      IF n = 0 THEN a ELSE Pass(f[n - 1].ws, f[n - 1].d, grow)]
           next == [n \in 1 .. size |-> [x \in A |-> Pass(x.ws, x.d, grow)]]
<1>1. a \in A OBVIOUS
<1>2. \A x \in A : Pass(x.ws, x.d, grow) \in A
  <2> TAKE x \in A
  <2>1. x.ws \in Seq(Window) /\ x.d \in Nat OBVIOUS
  <2> QED BY <2>1, Passed
<1>3. Passes(vs, size, grow) = after[size] BY DEF Passes
<1>4. next \in [1 .. size -> [A -> A]] BY <1>2
<1>5. PICK g \in [0 .. size -> A] : g[0] = a /\ \A n \in 1 .. size : g[n] = next[n][g[n - 1]]
  <2>1. Recursive(size, A, a, next) # {}
    <3> HIDE DEF next, A, a
    <3> QED BY <1>1, <1>4, Recursion
  <2> QED BY <2>1 DEF Recursive
<1>6. \A n \in 1 .. size : g[n] = Pass(g[n - 1].ws, g[n - 1].d, grow)
  <2> TAKE n \in 1 .. size
  <2>1. n - 1 \in 0 .. size OBVIOUS
  <2>2. g[n - 1] \in A BY <2>1
  <2>3. g[n] = next[n][g[n - 1]] BY <1>5
  <2> HIDE DEF A
  <2> QED BY <2>2, <2>3
<1> HIDE DEF next, A
<1>7. g = [n \in 0 .. size |-> IF n = 0 THEN a ELSE Pass(g[n - 1].ws, g[n - 1].d, grow)]
  <2>1. \A n \in 0 .. size : g[n] = IF n = 0 THEN a ELSE Pass(g[n - 1].ws, g[n - 1].d, grow)
    <3> HIDE DEF a
    <3> TAKE n \in 0 .. size
    <3>1. n # 0 => n \in 1 .. size OBVIOUS
    <3> QED BY <1>5, <1>6, <3>1
  <2> QED BY <2>1
<1>8. after = [n \in 0 .. size |->
                 IF n = 0 THEN a ELSE Pass(after[n - 1].ws, after[n - 1].d, grow)]
  BY <1>7
<1> HIDE DEF after
<1>9. after[0] = a /\ \A n \in 1 .. size : after[n] = Pass(after[n - 1].ws, after[n - 1].d, grow)
  <2> HIDE DEF a
  <2>1. 0 \in 0 .. size /\ \A n \in 1 .. size : n \in 0 .. size /\ n # 0 OBVIOUS
  <2> QED BY <1>8, <2>1
<1> DEFINE T == {n \in 0 .. size : Goes(vs, size, grow, after[n])}
<1>10. 0 \in T
  <2>1. Resizes(vs, vs) BY DEF Resizes
  <2>2. a.ws = vs /\ a.d = size OBVIOUS
  <2> HIDE DEF a
  <2>3. Goes(vs, size, grow, a) BY <1>1, <2>1, <2>2 DEF Goes, A
  <2> QED BY <1>9, <2>3
<1>11. ASSUME NEW n \in 0 .. size - 1, n \in T PROVE n + 1 \in T
  <2> DEFINE j == n + 1
             o == after[n]
             p == Pass(o.ws, o.d, grow)
  <2>1. j \in 1 .. size /\ j \in 0 .. size /\ j - 1 = n OBVIOUS
  <2> HIDE DEF j
  <2>2. after[j] = p BY <1>9, <2>1
  <2>3. Goes(vs, size, grow, o) BY <1>11
  <2> HIDE DEF o
  <2>4. o.ws \in Seq(Window) /\ o.d \in Nat /\ Resizes(vs, o.ws) /\ Len(o.ws) = Len(vs)
    BY <2>3 DEF Goes, Resizes
  <2>5. /\ p \in [ws : Seq(Window), d : Nat] /\ Resizes(o.ws, p.ws)
        /\ \A goal \in Int : (grow \/ Len(o.ws) <= 4) /\ Tiles(o.ws, Left(grow, goal, o.d))
                               => Tiles(p.ws, Left(grow, goal, p.d))
    BY <2>4, Passed
  <2> HIDE DEF p
  <2>6. Resizes(vs, p.ws) BY <2>4, <2>5 DEF Resizes
  <2>7. Goes(vs, size, grow, p) BY <2>3, <2>4, <2>5, <2>6 DEF Goes
  <2> QED BY <2>1, <2>2, <2>7 DEF j
<1>12. size \in T
  <2> HIDE DEF T
  <2>1. 0 .. size \subseteq T BY <1>10, <1>11, UpTo
  <2> QED BY <2>1
<1> QED BY <1>3, <1>12

\* The windows cover the lines, and there are up to four.
Fits(ws, bottom) == Tiles(ws, bottom) /\ Len(ws) <= 4

\* do_wsize makes the windows cover d lines more, or leaves one that does.
LEMMA LinesChanged ==
  ASSUME NEW st, NEW s, Settled(s, st), NEW d \in Int, rowmax \in Int, rowmax + d > 2
  PROVE  LET t == do_wsize(s, d)
         IN Settled(t, st) /\ (Fits(s.wins, rowmax - 2) => Fits(t.wins, rowmax + d - 2))
<1> DEFINE size == IF d < 0 THEN - d ELSE d
           grow == d > 0
           all == Passes(s.wins, size, grow)
           ws == all.ws
           t == [s EXCEPT !.wins = ws]
           bottom == rowmax + d - 2
           one == one_window(s, rowmax + d)
<1>1. s.wins \in Seq(Window) BY DEF Settled, Between, State
<1>2. size \in Nat /\ grow \in BOOLEAN /\ bottom \in Int /\ bottom > 0 OBVIOUS
<1>3. do_wsize(s, d) = IF all.d = 0 THEN t ELSE one BY DEF do_wsize
<1>4. Left(grow, bottom, size) = rowmax - 2 BY DEF Left
<1> HIDE DEF size, grow, bottom
<1>5. Goes(s.wins, size, grow, all) BY <1>1, <1>2, AllPassed
<1> HIDE DEF all
<1>6. CASE all.d = 0
  <2>1. Resizes(s.wins, ws) BY <1>5 DEF Goes
  <2>2. Settled(t, st) /\ t.wins = ws BY <2>1, Resized
  <2>3. ASSUME Fits(s.wins, rowmax - 2) PROVE Fits(ws, bottom)
    <3>1. Len(s.wins) <= 4 /\ Tiles(s.wins, Left(grow, bottom, size)) BY <1>4, <2>3 DEF Fits
    <3>2. Tiles(ws, Left(grow, bottom, all.d)) BY <1>2, <1>5, <3>1 DEF Goes
    <3>3. Left(grow, bottom, all.d) = bottom BY <1>2, <1>6 DEF Left
    <3>4. Len(ws) <= 4 BY <2>1, <3>1 DEF Resizes
    <3> QED BY <3>2, <3>3, <3>4 DEF Fits
  <2> QED BY <1>3, <1>6, <2>2, <2>3 DEF bottom
<1>7. CASE all.d # 0
  <2>1. Settled(one, st) /\ Len(one.wins) = 1 /\ one.wins[1].first = 0 /\ one.wins[1].last = bottom
    <3>1. rowmax + d \in Int OBVIOUS
    <3> QED BY <3>1, OneLeft DEF bottom
  <2> HIDE DEF one
  <2>2. Fits(one.wins, bottom) BY <1>2, <2>1 DEF Fits, Tiles
  <2> QED BY <1>3, <1>7, <2>1, <2>2 DEF bottom
<1> QED BY <1>6, <1>7

-----------------------------------------------------------------------------
(* The invariant. *)

Bookmark == [list : Buffer \cup {NIL}, buff : Buffer \cup {NIL}, at : Place]

\* What is not in S.
Rest ==
  /\ rowmax \in Rows /\ books \in Seq(Bookmark) /\ book \in 0 .. Len(books)
  /\ strayed \in BOOLEAN /\ down \in BOOLEAN /\ steps \in 0 .. MaxSteps

\* Between commands the lists agree and, of up to four windows, all is covered.
WindowsInv ==
  /\ Settled(S, strayed) /\ Rest
  /\ MaxWindows <= 4 => Fits(wins, rowmax - 2)

\* What holds of the new values of the variables.
LEMMA Carried ==
  ASSUME NEW n, NEW st, st = strayed', Settled(n, st),
         n = [bufs |-> bufs', names |-> names', last |-> last', cur |-> cur', pnt |-> pnt',
              umark |-> umark', wins |-> wins', curw |-> curw', sstart |-> cur']
  PROVE  Settled(S, strayed)'
<1>1. Settled([bufs |-> bufs', names |-> names', last |-> last', cur |-> cur', pnt |-> pnt',
               umark |-> umark', wins |-> wins', curw |-> curw', sstart |-> cur'], st)
  OBVIOUS
<1> QED BY <1>1 DEF S, Settled, Between, Shown, Shows, Listed, Distinct, Sorted, Range, State

\* A command that ends in s keeps the invariant.
LEMMA Committed ==
  ASSUME NEW s, Commit(s), NEW st, st = strayed', Settled(s, st), Rest',
         MaxWindows <= 4 => Fits(s.wins, rowmax' - 2)
  PROVE  WindowsInv'
<1> DEFINE n == [bufs |-> bufs', names |-> names', last |-> last', cur |-> cur', pnt |-> pnt',
                 umark |-> umark', wins |-> wins', curw |-> curw', sstart |-> cur']
<1>1. /\ bufs' = s.bufs /\ names' = s.names /\ last' = s.last /\ cur' = s.cur
      /\ pnt' = s.pnt /\ umark' = s.umark /\ wins' = s.wins /\ curw' = s.curw
  BY DEF Commit
<1>2. /\ n.bufs = s.bufs /\ n.names = s.names /\ n.cur = s.cur /\ n.wins = s.wins
      /\ n.curw = s.curw
  BY <1>1
<1>3. n \in State BY <1>1 DEF State, Settled, Between
<1> HIDE DEF n
<1>4. Settled(n, st) BY <1>2, <1>3 DEF Settled, Between, Shown
<1>5. Settled(S, strayed)' BY <1>4, Carried DEF n
<1>6. (MaxWindows <= 4 => Fits(wins, rowmax - 2))' BY <1>1 DEF Fits, Tiles
<1> QED BY <1>5, <1>6 DEF WindowsInv

\* The fields of S are the variables.
LEMMA Fields ==
  /\ S.bufs = bufs /\ S.names = names /\ S.last = last /\ S.cur = cur /\ S.pnt = pnt
  /\ S.umark = umark /\ S.wins = wins /\ S.curw = curw
BY DEF S

\* What the invariant says of the variables.
LEMMA Known ==
  ASSUME WindowsInv
  PROVE  /\ Settled(S, strayed) /\ Between(S, strayed) /\ S \in State /\ Rest
         /\ cur \in Range(bufs) /\ bufs \in Seq(Buffer) /\ cur \in Buffer /\ last \in Buffer \cup {NIL}
         /\ pnt \in [Buffer -> Place] /\ umark \in [Buffer -> Place \cup {NIL}]
         /\ wins \in Seq(Window) /\ curw \in DOMAIN wins /\ DOMAIN wins = 1 .. Len(wins)
         /\ Len(wins) \in Nat /\ curw \in Nat /\ curw > 0 /\ curw <= Len(wins)
         /\ rowmax \in Int /\ rowmax > 2
<1>1. Settled(S, strayed) /\ Between(S, strayed) /\ S \in State /\ Rest
  BY DEF WindowsInv, Settled, Between
<1>2. /\ cur \in Range(bufs) /\ bufs \in Seq(Buffer) /\ cur \in Buffer /\ last \in Buffer \cup {NIL}
      /\ pnt \in [Buffer -> Place] /\ umark \in [Buffer -> Place \cup {NIL}]
      /\ wins \in Seq(Window) /\ curw \in DOMAIN wins
  BY <1>1, Fields DEF Between, State
<1>3. DOMAIN wins = 1 .. Len(wins) /\ Len(wins) \in Nat BY <1>2, LenProperties
<1>4. rowmax \in Int /\ rowmax > 2 BY <1>1, SizeAssumption DEF Rest
<1> QED BY <1>1, <1>2, <1>3, <1>4

\* A command that changes nothing but S.
LEMMA Commanded ==
  ASSUME WindowsInv, NEW s, Cmd(s), Settled(s, strayed),
         MaxWindows <= 4 => Fits(s.wins, rowmax - 2)
  PROVE  WindowsInv'
<1>1. Rest BY Known
<1>2. Commit(s) /\ steps < MaxSteps /\ steps' = steps + 1 /\ UNCHANGED <<rowmax, books, book, strayed, down>>
  BY DEF Cmd, Commit
<1>3. Rest' BY <1>1, <1>2, WindowsAssumption DEF Rest
<1> DEFINE st == strayed
<1>4. st = strayed' /\ Settled(s, st) /\ (MaxWindows <= 4 => Fits(s.wins, rowmax' - 2)) BY <1>2
<1> HIDE DEF st
<1> QED BY <1>2, <1>3, <1>4, Committed

\* The same, if no window gets larger or smaller.
LEMMA SizesFit ==
  ASSUME WindowsInv, NEW s, SameSizes(S, s)
  PROVE  MaxWindows <= 4 => Fits(s.wins, rowmax - 2)
<1> SUFFICES ASSUME MaxWindows <= 4 PROVE Fits(s.wins, rowmax - 2)
  OBVIOUS
<1>1. S.wins \in Seq(Window) /\ Fits(S.wins, rowmax - 2) BY Known, Fields DEF WindowsInv
<1>2. Len(S.wins) <= 4 /\ Tiles(S.wins, rowmax - 2) BY <1>1 DEF Fits
<1>3. Tiles(s.wins, rowmax - 2) BY <1>1, <1>2, SameTiles
<1>4. Len(s.wins) <= 4 BY <1>2 DEF SameSizes
<1> QED BY <1>3, <1>4 DEF Fits

\* Such a command keeps the invariant.
LEMMA SizesKeptInv ==
  ASSUME WindowsInv, NEW s, Cmd(s), Settled(s, strayed), SameSizes(S, s)
  PROVE  WindowsInv'
<1>1. MaxWindows <= 4 => Fits(s.wins, rowmax - 2) BY SizesFit
<1> QED BY <1>1, Commanded

\* Two windows of one fit, if there is room for one more.
LEMMA HalvesFit ==
  ASSUME WindowsInv, NEW s, Halves(S.wins, S.curw, s.wins), Len(s.wins) <= MaxWindows
  PROVE  MaxWindows <= 4 => Fits(s.wins, rowmax - 2)
<1> SUFFICES ASSUME MaxWindows <= 4 PROVE Fits(s.wins, rowmax - 2)
  OBVIOUS
<1>1. S.wins \in Seq(Window) /\ Fits(S.wins, rowmax - 2) BY Known, Fields DEF WindowsInv
<1>2. Tiles(S.wins, rowmax - 2) BY <1>1 DEF Fits
<1> DEFINE vs == S.wins
           c == S.curw
           ws == s.wins
<1>3. vs \in Seq(Window) /\ Halves(vs, c, ws) /\ Tiles(vs, rowmax - 2) BY <1>1, <1>2
<1>4. Len(ws) \in Nat /\ Len(ws) <= 4
  <2>1. Len(vs) \in Nat BY <1>3
  <2>2. Len(ws) = Len(vs) + 1 BY <1>3 DEF Halves
  <2>3. Len(ws) <= MaxWindows /\ MaxWindows <= 4 /\ MaxWindows \in Nat BY WindowsAssumption
  <2> HIDE DEF vs, ws
  <2> QED BY <2>1, <2>2, <2>3
<1> HIDE DEF vs, c, ws
<1>5. Tiles(ws, rowmax - 2) BY <1>3, HalvesTile
<1>6. Fits(ws, rowmax - 2) BY <1>4, <1>5 DEF Fits
<1> QED BY <1>6 DEF ws

\* The point of the current buffer is moved, its mark is set.
LEMMA PointSet ==
  ASSUME NEW st, NEW s, Settled(s, st), NEW p \in Place
  PROVE  LET t == [s EXCEPT !.pnt[s.cur] = p]
         IN Settled(t, st) /\ SameSizes(s, t) /\ t.curw = s.curw
<1> DEFINE pn == [s.pnt EXCEPT ![s.cur] = p]
           t == [s EXCEPT !.pnt = pn]
<1>1. s \in State /\ Between(s, st) /\ Shown(s, st) BY DEF Settled, Between
<1>2. pn \in [Buffer -> Place] BY <1>1 DEF State
<1>3. t = [s EXCEPT !.pnt[s.cur] = p] OBVIOUS
<1> HIDE DEF pn
<1>4. t \in State /\ t.cur = s.cur /\ t.bufs = s.bufs /\ t.names = s.names /\ t.wins = s.wins
      /\ t.curw = s.curw
  BY <1>1, <1>2 DEF State
<1> HIDE DEF t
<1>5. Between(t, st) BY <1>1, <1>4 DEF Between
<1>6. Shown(t, st) BY <1>1, <1>4 DEF Shown
<1>7. SameSizes(s, t) BY <1>4 DEF SameSizes
<1> QED BY <1>3, <1>4, <1>5, <1>6, <1>7 DEF Settled

\* The mark of the current buffer is set or cleared.
LEMMA MarkSet ==
  ASSUME NEW st, NEW s, Settled(s, st), NEW m \in Place \cup {NIL}
  PROVE  LET t == [s EXCEPT !.umark[s.cur] = m]
         IN Settled(t, st) /\ SameSizes(s, t)
<1> DEFINE um == [s.umark EXCEPT ![s.cur] = m]
           t == [s EXCEPT !.umark = um]
<1>1. s \in State /\ Between(s, st) /\ Shown(s, st) BY DEF Settled, Between
<1>2. um \in [Buffer -> Place \cup {NIL}] BY <1>1 DEF State
<1>3. t = [s EXCEPT !.umark[s.cur] = m] OBVIOUS
<1> HIDE DEF um
<1>4. t \in State /\ t.cur = s.cur /\ t.bufs = s.bufs /\ t.names = s.names /\ t.wins = s.wins
      /\ t.curw = s.curw
  BY <1>1, <1>2 DEF State
<1> HIDE DEF t
<1>5. Between(t, st) BY <1>1, <1>4 DEF Between
<1>6. Shown(t, st) BY <1>1, <1>4 DEF Shown
<1>7. SameSizes(s, t) BY <1>4 DEF SameSizes
<1> QED BY <1>3, <1>5, <1>6, <1>7 DEF Settled

-----------------------------------------------------------------------------
(* The commands, one by one. *)

\* split-window.
LEMMA SplitStep ==
  ASSUME WindowsInv, Zsplit_window
  PROVE  WindowsInv'
<1> DEFINE t == wsplit(S)
<1>1. Cmd(t) /\ Len(wins) < MaxWindows BY DEF Zsplit_window
<1>2. Settled(S, strayed) /\ Len(wins) \in Nat BY Known
<1>3. Settled(t, strayed) /\ (SameSizes(S, t) \/ Halves(S.wins, S.curw, t.wins))
  BY <1>2, WindowSplit
<1> HIDE DEF t
<1>4. MaxWindows <= 4 => Fits(t.wins, rowmax - 2)
  <2>1. CASE SameSizes(S, t) BY <2>1, SizesFit
  <2>2. CASE Halves(S.wins, S.curw, t.wins)
    <3>1. Len(t.wins) <= MaxWindows
      <4>1. Len(t.wins) = Len(wins) + 1 BY <2>2, Fields DEF Halves
      <4> QED BY <1>1, <1>2, <4>1, WindowsAssumption
    <3> QED BY <2>2, <3>1, HalvesFit
  <2> QED BY <1>3, <2>1, <2>2
<1> QED BY <1>1, <1>3, <1>4, Commanded

\* one-window.
LEMMA OneStep ==
  ASSUME WindowsInv, Zone_window
  PROVE  WindowsInv'
<1> DEFINE t == one_window(S, rowmax)
<1>1. Cmd(t) BY DEF Zone_window
<1>2. Settled(S, strayed) /\ rowmax \in Int /\ rowmax > 2 BY Known
<1>3. Settled(t, strayed) /\ Len(t.wins) = 1 /\ t.wins[1].first = 0 /\ t.wins[1].last = rowmax - 2
  BY <1>2, OneLeft
<1> HIDE DEF t
<1>4. Fits(t.wins, rowmax - 2) BY <1>2, <1>3 DEF Fits, Tiles
<1> QED BY <1>1, <1>3, <1>4, Commanded

\* next-window, which goes back to the place of the window.
LEMMA NextStep ==
  ASSUME WindowsInv, Znext_window
  PROVE  WindowsInv' /\ (curw' # curw /\ ~ strayed => pnt'[cur'] = wins'[curw'].left)
<1> DEFINE i == IF curw < Len(wins) THEN curw + 1 ELSE 1
           t == wswitchto(S, i)
<1>1. Cmd(t) BY DEF Znext_window
<1>2. Settled(S, strayed) BY Known
<1>3. i \in DOMAIN S.wins BY Known, Fields
<1> HIDE DEF i
<1>4. Settled(t, strayed) /\ SameSizes(S, t) /\ t.curw = i
      /\ (i # S.curw => strayed \/ t.pnt[t.cur] = t.wins[i].left)
  BY <1>2, <1>3, WindowSwitched
<1> HIDE DEF t
<1>5. WindowsInv' BY <1>1, <1>4, SizesKeptInv
<1>6. cur' = t.cur /\ pnt' = t.pnt /\ wins' = t.wins /\ curw' = t.curw BY <1>1 DEF Cmd, Commit
<1> QED BY <1>4, <1>5, <1>6, Fields

\* The size of a window is changed by any number of lines.
LEMMA SizeStep ==
  ASSUME WindowsInv, NEW n \in Int, Cmd(sizewindow(S, n))
  PROVE  WindowsInv'
<1> DEFINE t == sizewindow(S, n)
<1>1. Settled(S, strayed) BY Known
<1>2. Settled(t, strayed) /\ (SameSizes(S, t) \/ \E k, m : Edge(S.wins, k, m, t.wins))
  BY <1>1, Sized
<1>3. Cmd(t) OBVIOUS
<1> HIDE DEF t
<1>4. MaxWindows <= 4 => Fits(t.wins, rowmax - 2)
  <2>1. CASE SameSizes(S, t) BY <2>1, SizesFit
  <2>2. CASE \E k, m : Edge(S.wins, k, m, t.wins)
    <3> SUFFICES ASSUME MaxWindows <= 4 PROVE Fits(t.wins, rowmax - 2)
      OBVIOUS
    <3>1. PICK k, m : Edge(S.wins, k, m, t.wins) BY <2>2
    <3>2. S.wins \in Seq(Window) /\ Fits(S.wins, rowmax - 2) BY Known, Fields DEF WindowsInv
    <3>3. Len(S.wins) <= 4 /\ Tiles(S.wins, rowmax - 2) BY <3>2 DEF Fits
    <3> DEFINE vs == S.wins
               ws == t.wins
    <3>4. vs \in Seq(Window) /\ Edge(vs, k, m, ws) /\ Tiles(vs, rowmax - 2) /\ Len(vs) <= 4
      BY <3>1, <3>2, <3>3
    <3> HIDE DEF vs, ws
    <3>5. Tiles(ws, rowmax - 2) BY <3>4, EdgeTiles
    <3>6. Len(ws) <= 4 BY <3>4 DEF Edge
    <3>7. Fits(ws, rowmax - 2) BY <3>5, <3>6 DEF Fits
    <3> QED BY <3>7 DEF ws
  <2> QED BY <1>2, <2>1, <2>2
<1> QED BY <1>2, <1>3, <1>4, Commanded

\* grow-window and size-window.
LEMMA GrowStep ==
  ASSUME WindowsInv, Zgrow_window \/ Zsize_window
  PROVE  WindowsInv'
<1>1. CASE Zgrow_window
  <2>1. PICK n \in GrowBy : Cmd(sizewindow(S, n)) BY <1>1 DEF Zgrow_window
  <2>2. n \in Int BY SizeAssumption
  <2> QED BY <2>1, <2>2, SizeStep
<1>2. CASE Zsize_window
  <2>1. PICK n \in GrowBy : Cmd(sizewindow(S, n - height(Curwdo(S)) + 1))
    BY <1>2 DEF Zsize_window
  <2>2. n \in Int BY SizeAssumption
  <2> DEFINE m == n - height(Curwdo(S)) + 1
  <2>3. m \in Int
    <3>1. S.wins \in Seq(Window) /\ S.curw \in DOMAIN S.wins BY Known, Fields
    <3>2. Curwdo(S).first \in Int /\ Curwdo(S).last \in Int BY <3>1, EdgesThere DEF Curwdo
    <3> QED BY <2>2, <3>2 DEF height
  <2>4. Cmd(sizewindow(S, m)) BY <2>1
  <2> HIDE DEF m
  <2> QED BY <2>3, <2>4, SizeStep
<1> QED BY <1>1, <1>2

\* other-next-page.
LEMMA PageStep ==
  ASSUME WindowsInv, Zother_next_page
  PROVE  WindowsInv'
<1> DEFINE i == IF curw = Len(wins) THEN 1 ELSE Len(wins)
           t == wswitchto(S, i)
<1>1. PICK p \in Place : Cmd(wswitchto([t EXCEPT !.pnt[t.cur] = p], curw))
  BY DEF Zother_next_page
<1> DEFINE u == [t EXCEPT !.pnt[t.cur] = p]
           v == wswitchto(u, curw)
<1>2. i \in DOMAIN S.wins /\ curw \in DOMAIN S.wins BY Known, Fields
<1>3. Settled(S, strayed) BY Known
<1> HIDE DEF i
<1>4. Settled(t, strayed) /\ SameSizes(S, t) BY <1>2, <1>3, WindowSwitched
<1> HIDE DEF t
<1>5. Settled(u, strayed) /\ SameSizes(t, u) BY <1>4, PointSet
<1>6. Cmd(v) BY <1>1
<1> HIDE DEF u
<1>7. curw \in DOMAIN u.wins BY <1>2, <1>4, <1>5 DEF SameSizes
<1>8. Settled(v, strayed) /\ SameSizes(u, v) BY <1>5, <1>7, WindowSwitched
<1> HIDE DEF v
<1>9. SameSizes(S, v) BY <1>4, <1>5, <1>8 DEF SameSizes
<1> QED BY <1>6, <1>8, <1>9, SizesKeptInv

\* Commands that move the point.
LEMMA MoveStep ==
  ASSUME WindowsInv, Move
  PROVE  WindowsInv'
<1>1. PICK p \in Place \ {pnt[cur]} : Cmd([S EXCEPT !.pnt[cur] = p]) BY DEF Move
<1> DEFINE t == [S EXCEPT !.pnt[S.cur] = p]
<1>2. Cmd(t)
  <2>1. S.cur = cur BY Fields
  <2> HIDE DEF S
  <2> QED BY <1>1, <2>1
<1>3. Settled(S, strayed) BY Known
<1>4. Settled(t, strayed) /\ SameSizes(S, t) BY <1>3, PointSet
<1> HIDE DEF t
<1> QED BY <1>2, <1>4, SizesKeptInv

\* set-mark, and commands that clear the mark.
LEMMA MarkStep ==
  ASSUME WindowsInv, Zset_mark \/ Clear_mark
  PROVE  WindowsInv'
<1>0. Settled(S, strayed) /\ S.cur = cur /\ cur \in Buffer /\ pnt \in [Buffer -> Place]
  BY Known, Fields
<1>1. CASE Zset_mark
  <2> DEFINE m == pnt[cur]
             t == [S EXCEPT !.umark[S.cur] = m]
  <2>1. m \in Place \cup {NIL} BY <1>0
  <2>2. Cmd(t) BY <1>0, <1>1 DEF Zset_mark
  <2> HIDE DEF m
  <2>3. Settled(t, strayed) /\ SameSizes(S, t) BY <1>0, <2>1, MarkSet
  <2> HIDE DEF t
  <2> QED BY <2>2, <2>3, SizesKeptInv
<1>2. CASE Clear_mark
  <2> DEFINE t == clear_umark(S)
  <2>1. Cmd(t) BY <1>2 DEF Clear_mark
  <2>2. Between(S, strayed) /\ Shown(S, strayed) BY <1>0 DEF Settled
  <2>3. Between(t, strayed) /\ Shown(t, strayed) /\ t.wins = S.wins BY <2>2, MarkCleared
  <2> HIDE DEF t
  <2>4. Settled(t, strayed) /\ SameSizes(S, t) BY <2>3 DEF Settled, SameSizes
  <2> QED BY <2>1, <2>4, SizesKeptInv
<1> QED BY <1>1, <1>2

\* The current buffer is noted as the last one.
LEMMA LastNoted ==
  ASSUME WindowsInv, NEW s, Between(s, strayed), s.wins = S.wins
  PROVE  LET t == set_last_bufname(s, cur)
         IN /\ Between(t, strayed) /\ t.bufs = s.bufs /\ t.wins = S.wins
            /\ Shown(s, strayed) => Shown(t, strayed)
<1>1. cur \in Buffer \cup {NIL} BY Known
<1> DEFINE t == [s EXCEPT !.last = cur]
<1>2. /\ Between(t, strayed) /\ (Shown(s, strayed) => Shown(t, strayed))
      /\ t.cur = s.cur /\ t.bufs = s.bufs
      /\ t.names = s.names /\ t.wins = s.wins /\ t.curw = s.curw
  BY <1>1, LastChanged
<1> HIDE DEF t
<1> QED BY <1>2 DEF t, set_last_bufname

\* A buffer there is is shown in the current window.
LEMMA ShownStep ==
  ASSUME WindowsInv, NEW s, Between(s, strayed), s.wins = S.wins, NEW b \in Range(s.bufs),
         Cmd(cswitchto(set_last_bufname(s, cur), b))
  PROVE  WindowsInv'
<1> DEFINE t == set_last_bufname(s, cur)
           u == cswitchto(t, b)
<1>1. Between(t, strayed) /\ t.bufs = s.bufs /\ t.wins = S.wins BY LastNoted
<1>2. Cmd(u) OBVIOUS
<1> HIDE DEF t
<1>3. b \in Range(t.bufs) BY <1>1
<1>4. Settled(u, strayed) /\ SameSizes(t, u) BY <1>1, <1>3, BufferSwitched
<1> HIDE DEF u
<1>5. SameSizes(S, u) BY <1>1, <1>4 DEF SameSizes
<1> QED BY <1>2, <1>4, <1>5, SizesKeptInv

\* switch-to-buffer.
LEMMA SwitchStep ==
  ASSUME WindowsInv, Zswitch_to_buffer
  PROVE  WindowsInv'
<1> DEFINE t == set_last_bufname(S, cur)
<1>0. Settled(S, strayed) /\ Between(S, strayed) /\ Shown(S, strayed) /\ Rest
  BY Known DEF Settled
<1>1. PICK b \in Range(names) :
        IF Has(S, b) THEN Cmd(cswitchto(t, b))
        ELSE Commit(t) /\ down' = (Curwdo(S).buff # cur) /\ UNCHANGED <<rowmax, books, book, strayed>>
  BY DEF Zswitch_to_buffer
<1>2. CASE Has(S, b)
  <2>1. b \in Range(S.bufs) /\ Cmd(cswitchto(t, b)) BY <1>1, <1>2 DEF Has
  <2> QED BY <1>0, <2>1, ShownStep
<1>3. CASE ~ Has(S, b)
  <2>1. /\ Commit(t) /\ down' = (Curwdo(S).buff # cur)
        /\ rowmax' = rowmax /\ books' = books /\ book' = book /\ strayed' = strayed
    BY <1>1, <1>3
  <2>2. down' \in BOOLEAN BY <2>1
  <2>3. Rest'
    <3>1. steps < MaxSteps /\ steps' = steps + 1 BY <2>1 DEF Commit
    <3> QED BY <1>0, <2>1, <2>2, <3>1, WindowsAssumption DEF Rest
  <2>4. Between(t, strayed) /\ Shown(t, strayed) /\ t.wins = S.wins BY <1>0, LastNoted
  <2> HIDE DEF t
  <2>5. Settled(t, strayed) /\ SameSizes(S, t) BY <2>4 DEF Settled, SameSizes
  <2>6. MaxWindows <= 4 => Fits(t.wins, rowmax' - 2) BY <2>1, <2>5, SizesFit
  <2> DEFINE st == strayed
  <2>7. st = strayed' /\ Settled(t, st) BY <2>1, <2>5
  <2> HIDE DEF st
  <2> QED BY <2>1, <2>3, <2>6, <2>7, Committed
<1> QED BY <1>2, <1>3

\* next-buffer.
LEMMA NextBufferStep ==
  ASSUME WindowsInv, Znext_buffer
  PROVE  WindowsInv'
<1> DEFINE i == PlaceIn(bufs, cur)
           b == bufs[(i % Len(bufs)) + 1]
<1>0. Between(S, strayed) /\ S.bufs = bufs /\ cur \in Range(bufs) /\ bufs \in Seq(Buffer)
  BY Known, Fields
<1>1. Cmd(cswitchto(set_last_bufname(S, cur), b)) BY DEF Znext_buffer
<1>2. i \in DOMAIN bufs BY <1>0, Position
<1> HIDE DEF i
<1>3. b \in Range(bufs)
  <2> DEFINE n == Len(bufs)
             j == i % n
  <2>1. n \in Nat /\ DOMAIN bufs = 1 .. n /\ i \in 1 .. n BY <1>0, <1>2
  <2>2. n > 0 /\ i \in Int BY <2>1
  <2>3. j \in 0 .. n - 1
    <3> HIDE DEF n
    <3> QED BY <2>1, <2>2
  <2>4. j + 1 \in DOMAIN bufs
    <3> HIDE DEF j, n
    <3> QED BY <2>1, <2>3
  <2> QED BY <2>4 DEF Range
<1> HIDE DEF b
<1>4. b \in Range(S.bufs) BY <1>0, <1>3
<1> QED BY <1>0, <1>1, <1>4, ShownStep

\* Who asks for less gets less.
LEMMA Looser ==
  ASSUME NEW st, NEW s, Between(s, st)
  PROVE  Settled(s, TRUE)
BY DEF Settled, Between, Shown, Shows

\* delete-buffer, with and without an answer.
LEMMA DeleteStep ==
  ASSUME WindowsInv, Zdelete_buffer
  PROVE  WindowsInv'
<1>1. PICK b \in {cur} \cup Range(bufs), answer \in {"abort", "go"} :
        LET t == zswitchto(S, b)
            u == delbuff(t, b)
        IN IF answer = "abort"
           THEN Commit(t) /\ strayed' = TRUE /\ UNCHANGED <<rowmax, books, book, down>>
           ELSE IF Has(u, b) THEN Cmd(u)
           ELSE Commit(u) /\ bdelbuff(b)
  BY DEF Zdelete_buffer
<1> DEFINE t == zswitchto(S, b)
           u == delbuff(t, b)
<1>2. Rest /\ Between(S, strayed) /\ b \in Range(S.bufs) BY Known, Fields
<1>3. Between(t, strayed) /\ t.bufs = S.bufs /\ t.wins = S.wins BY <1>2, CurChanged
<1>4. \/ Commit(t) /\ strayed' = TRUE /\ UNCHANGED <<rowmax, books, book, down>>
      \/ Cmd(u)
      \/ Commit(u) /\ bdelbuff(b)
  BY <1>1
<1> HIDE DEF t
<1>5. b \in Range(t.bufs) BY <1>2, <1>3
<1>6. Settled(u, strayed) /\ SameSizes(t, u) BY <1>3, <1>5, BufferDeleted
<1> HIDE DEF u
<1>7. SameSizes(S, t) /\ SameSizes(S, u) BY <1>3, <1>6 DEF SameSizes
<1>8. CASE Commit(t) /\ strayed' = TRUE /\ UNCHANGED <<rowmax, books, book, down>>
  <2>1. steps < MaxSteps /\ steps' = steps + 1 BY <1>8 DEF Commit
  <2>2. Rest' BY <1>2, <1>8, <2>1, WindowsAssumption DEF Rest
  <2>3. Settled(t, TRUE) BY <1>3, Looser
  <2>4. MaxWindows <= 4 => Fits(t.wins, rowmax' - 2) BY <1>7, <1>8, SizesFit
  <2> DEFINE st == TRUE
  <2>5. st = strayed' /\ Settled(t, st) BY <1>8, <2>3
  <2> HIDE DEF st
  <2> QED BY <1>8, <2>2, <2>4, <2>5, Committed
<1>9. CASE Cmd(u) BY <1>6, <1>7, <1>9, SizesKeptInv
<1>10. CASE Commit(u) /\ bdelbuff(b)
  <2> DEFINE On == {i \in DOMAIN books : books[i].list = b}
             bs == [i \in DOMAIN books |-> IF i \in On THEN FREED ELSE books[i]]
  <2>1. /\ down' \in BOOLEAN /\ books' = bs
        /\ rowmax' = rowmax /\ book' = book /\ strayed' = strayed
    BY <1>10 DEF bdelbuff
  <2>2. steps < MaxSteps /\ steps' = steps + 1 BY <1>10 DEF Commit
  <2>3. bs \in Seq(Bookmark) /\ Len(bs) = Len(books)
    <3>1. books \in Seq(Bookmark) BY <1>2 DEF Rest
    <3>2. FREED \in Bookmark BY StartOfText DEF FREED, Bookmark
    <3>3. DOMAIN bs = DOMAIN books /\ bs = [i \in DOMAIN books |-> bs[i]]
          /\ \A i \in DOMAIN books : bs[i] \in Bookmark
      <4> HIDE DEF On
      <4>1. \A i \in DOMAIN books : books[i] \in Bookmark BY <3>1
      <4> QED BY <3>2, <4>1
    <3> HIDE DEF bs
    <3> QED BY <3>1, <3>3, Mapped
  <2> HIDE DEF bs
  <2>4. Rest' BY <1>2, <2>1, <2>2, <2>3, WindowsAssumption DEF Rest
  <2>5. MaxWindows <= 4 => Fits(u.wins, rowmax' - 2) BY <1>7, <2>1, SizesFit
  <2> DEFINE st == strayed
  <2>6. st = strayed' /\ Settled(u, st) BY <1>6, <2>1
  <2> HIDE DEF st
  <2> QED BY <1>10, <2>4, <2>5, <2>6, Committed
<1> QED BY <1>4, <1>8, <1>9, <1>10

\* list-buffers.
LEMMA ListStep ==
  ASSUME WindowsInv, Zlist_buffers
  PROVE  WindowsInv'
<1> DEFINE t == wuseother(S, LISTBUFF)
           u == wswitchto(t, curw)
<1>1. Len(t.wins) <= MaxWindows /\ Cmd(u) BY DEF Zlist_buffers
<1>2. Settled(S, strayed) /\ LISTBUFF \in Buffer BY Known, WindowsAssumption
<1>3. Settled(t, strayed) /\ (SameSizes(S, t) \/ Halves(S.wins, S.curw, t.wins))
  BY <1>2, OtherUsed
<1> HIDE DEF t
<1>4. t.wins \in Seq(Window) /\ DOMAIN t.wins = 1 .. Len(t.wins) /\ Len(t.wins) \in Nat
  <2>1. t.wins \in Seq(Window) BY <1>3 DEF Settled, Between, State
  <2> QED BY <2>1, LenProperties
<1>5. curw \in DOMAIN t.wins
  <2>1. CASE SameSizes(S, t) BY <2>1, Known, Fields DEF SameSizes
  <2>2. CASE Halves(S.wins, S.curw, t.wins)
    <3>1. Len(t.wins) = Len(wins) + 1 BY <2>2, Fields DEF Halves
    <3> QED BY <1>4, <3>1, Known
  <2> QED BY <1>3, <2>1, <2>2
<1>6. Settled(u, strayed) /\ SameSizes(t, u) BY <1>3, <1>5, WindowSwitched
<1> HIDE DEF u
<1>7. MaxWindows <= 4 => Fits(u.wins, rowmax - 2)
  <2>1. MaxWindows <= 4 => Fits(t.wins, rowmax - 2) BY <1>1, <1>3, SizesFit, HalvesFit
  <2>2. ASSUME Fits(t.wins, rowmax - 2) PROVE Fits(u.wins, rowmax - 2)
    <3>1. Len(t.wins) <= 4 /\ Tiles(t.wins, rowmax - 2) BY <2>2 DEF Fits
    <3>2. Tiles(u.wins, rowmax - 2) BY <1>4, <1>6, <3>1, SameTiles
    <3>3. Len(u.wins) <= 4 BY <1>6, <3>1 DEF SameSizes
    <3> QED BY <3>2, <3>3 DEF Fits
  <2> QED BY <2>1, <2>2
<1> QED BY <1>1, <1>6, <1>7, Commanded

\* find-file: a buffer there is, a new one, and one that cannot be read.
LEMMA FileStep ==
  ASSUME WindowsInv, findfile
  PROVE  WindowsInv'
<1>0. Settled(S, strayed) /\ Between(S, strayed) /\ Shown(S, strayed) /\ S.bufs = bufs /\ S.cur = cur
      /\ cur \in Range(bufs) /\ bufs \in Seq(Buffer)
  BY Known, Fields DEF Settled
<1>1. CASE \E b \in Range(bufs) \ {LISTBUFF} :
             Cmd(cswitchto(set_last_bufname(zswitchto(S, b), cur), b))
  <2>1. PICK b \in Range(bufs) : Cmd(cswitchto(set_last_bufname(zswitchto(S, b), cur), b)) BY <1>1
  <2> DEFINE s == zswitchto(S, b)
  <2>2. Between(s, strayed) /\ s.wins = S.wins /\ s.bufs = S.bufs BY <1>0, CurChanged
  <2>3. Cmd(cswitchto(set_last_bufname(s, cur), b)) BY <2>1
  <2> HIDE DEF s
  <2>4. b \in Range(s.bufs) BY <1>0, <2>2
  <2> QED BY <2>2, <2>3, <2>4, ShownStep
<1>2. ASSUME NEW b \in Buffer, b \notin Range(bufs),
             \/ Cmd(cswitchto(set_last_bufname(cmakebuff(S, b), cur), b))
             \/ Cmd(zswitchto(cdelbuff(cmakebuff(S, b), b), cur))
      PROVE  WindowsInv'
  <2> DEFINE s == cmakebuff(S, b)
             t == cdelbuff(s, b)
             u == zswitchto(t, cur)
  <2>1. Between(s, strayed) /\ s.wins = S.wins /\ s.curw = S.curw
        /\ Range(s.bufs) = Range(S.bufs) \cup {b}
    <3>1. Between(S, strayed) /\ b \in Buffer BY <1>0, <1>2
    <3> DEFINE r == S
               st == strayed
    <3>2. Between(r, st) /\ b \in Buffer /\ s = cmakebuff(r, b) BY <3>1
    <3> HIDE DEF r, st, s
    <3>3. Between(s, st) /\ s.wins = r.wins /\ s.curw = r.curw /\ Range(s.bufs) = Range(r.bufs) \cup {b}
      BY <3>2, BufferMade
    <3> QED BY <3>3 DEF r, st
  <2>2. Cmd(cswitchto(set_last_bufname(s, cur), b)) \/ Cmd(u) BY <1>2
  <2> HIDE DEF s
  <2>3. b \in Range(s.bufs) BY <2>1
  <2>4. CASE Cmd(cswitchto(set_last_bufname(s, cur), b)) BY <2>1, <2>3, <2>4, ShownStep
  <2>5. CASE Cmd(u)
    <3>1. /\ t \in State /\ t.wins = s.wins /\ t.curw = s.curw
          /\ Listed(t.bufs, t.names) /\ t.cur \in Range(t.bufs)
          /\ \/ Range(t.bufs) = Range(s.bufs) \ {b}
             \/ Range(t.bufs) = {b} /\ Range(s.bufs) = {b} /\ Between(t, strayed)
      BY <2>1, <2>3, BufferGone
    <3> HIDE DEF t
    <3>2. cur # b /\ cur \in Range(s.bufs) BY <1>0, <1>2, <2>1
    <3>3. Range(t.bufs) = Range(S.bufs) BY <1>0, <1>2, <2>1, <3>1, <3>2
    <3>4. Between(t, strayed) /\ t.wins = S.wins /\ t.curw = S.curw BY <1>0, <2>1, <3>1, <3>3 DEF Between
    <3>5. cur \in Range(t.bufs) BY <1>0, <3>3
    <3>6. Between(u, strayed) /\ u.cur = cur /\ u.wins = t.wins /\ u.curw = t.curw
      BY <3>4, <3>5, CurChanged
    <3>7. Cmd(u) BY <2>5
    <3> HIDE DEF u
    <3>8. Shown(u, strayed) BY <1>0, <3>4, <3>6 DEF Shown
    <3>9. Settled(u, strayed) /\ SameSizes(S, u) BY <3>4, <3>6, <3>8 DEF Settled, SameSizes
    <3> QED BY <3>7, <3>9, SizesKeptInv
  <2> QED BY <2>2, <2>4, <2>5
<1> QED BY <1>1, <1>2 DEF findfile

\* The terminal has changed its size.
LEMMA RowsStep ==
  ASSUME WindowsInv, wsize
  PROVE  WindowsInv'
<1>1. PICK r \in Rows \ {rowmax} :
        /\ Commit(IF Len(wins) > 1 THEN do_wsize(S, r - rowmax)
                  ELSE [S EXCEPT !.wins[1].last = r - 2])
        /\ rowmax' = r /\ books' = books /\ book' = book /\ strayed' = strayed /\ down' = down
  BY DEF wsize
<1>2. /\ Settled(S, strayed) /\ Rest /\ wins \in Seq(Window) /\ S.wins = wins
      /\ DOMAIN wins = 1 .. Len(wins) /\ Len(wins) \in Nat /\ Len(wins) > 0
      /\ rowmax \in Int /\ r \in Int /\ r > 2 /\ S \in State
  BY Known, Fields, SizeAssumption
<1> DEFINE s == IF Len(wins) > 1 THEN do_wsize(S, r - rowmax) ELSE [S EXCEPT !.wins[1].last = r - 2]
           st == strayed
<1>3. Settled(s, strayed) /\ (MaxWindows <= 4 => Fits(s.wins, rowmax' - 2))
  <2>1. CASE Len(wins) > 1
    <3> DEFINE d == r - rowmax
    <3>1. d \in Int /\ rowmax + d = r /\ rowmax + d > 2 BY <1>2
    <3> DEFINE t == do_wsize(S, d)
    <3>2. s = t BY <2>1
    <3> HIDE DEF s, d
    <3>3. Settled(t, strayed) /\ (Fits(S.wins, rowmax - 2) => Fits(t.wins, rowmax + d - 2))
      BY <1>2, <3>1, LinesChanged
    <3> HIDE DEF t
    <3> QED BY <1>1, <1>2, <3>1, <3>2, <3>3 DEF WindowsInv
  <2>2. CASE ~ (Len(wins) > 1)
    <3> DEFINE v == S.wins
               w == [v[1] EXCEPT !.last = r - 2]
               ws == ReplaceAt(v, 1, w)
               t == [S EXCEPT !.wins = ws]
    <3>1. Len(v) = 1 /\ DOMAIN v = {1} /\ v \in Seq(Window) /\ v[1] \in Window
      BY <1>2, <2>2
    <3>2. s = t BY <2>2 DEF ReplaceAt
    <3>3. v = S.wins OBVIOUS
    <3> HIDE DEF s, v
    <3>4. w \in Window /\ w.buff = v[1].buff /\ w.pnt = v[1].pnt /\ w.mrk = v[1].mrk
          /\ w.start = v[1].start /\ w.left = v[1].left /\ w.first = v[1].first /\ w.last = r - 2
      <4> DEFINE o == v[1]
                 z == r - 2
      <4>1. o \in Window /\ z \in Int BY <1>2, <3>1
      <4> HIDE DEF o, z
      <4>2. [o EXCEPT !.last = z] \in Window /\ [o EXCEPT !.last = z].buff = o.buff
            /\ [o EXCEPT !.last = z].pnt = o.pnt /\ [o EXCEPT !.last = z].mrk = o.mrk
            /\ [o EXCEPT !.last = z].start = o.start /\ [o EXCEPT !.last = z].left = o.left
            /\ [o EXCEPT !.last = z].first = o.first /\ [o EXCEPT !.last = z].last = z
        BY ONLY <4>1 DEF Window
      <4> QED BY <4>2 DEF o, z
    <3> HIDE DEF w
    <3>5. ws \in Seq(Window) /\ Len(ws) = 1 /\ DOMAIN ws = DOMAIN v /\ ws[1] = w
      <4>1. 1 \in DOMAIN v BY <3>1
      <4>2. LET x == ReplaceAt(v, 1, w)
            IN /\ x \in Seq(Window) /\ Len(x) = Len(v) /\ DOMAIN x = DOMAIN v /\ x[1] = w
               /\ \A j \in DOMAIN v : j # 1 => x[j] = v[j]
        BY <3>1, <3>4, <4>1, Replaced
      <4> QED BY <3>1, <4>2
    <3> HIDE DEF ws
    <3>6. Resizes(v, ws) BY <3>1, <3>4, <3>5 DEF Resizes
    <3>7. Resizes(S.wins, ws) BY <3>3, <3>6
    <3>8. Settled(t, strayed) /\ t.curw = S.curw /\ t.wins = ws
      <4>1. Settled(S, strayed) BY <1>2
      <4> QED BY ONLY <3>7, <4>1, Resized
    <3> HIDE DEF t
    <3>9. ASSUME Fits(v, rowmax - 2) PROVE Fits(ws, r - 2)
      <4>1. v[1].first = 0 BY <3>9 DEF Fits, Tiles
      <4>2. ws[1].first = 0 /\ ws[1].last = r - 2 /\ Len(ws) = 1 BY <3>4, <3>5, <4>1
      <4> QED BY <1>2, <4>2 DEF Fits, Tiles
    <3>10. MaxWindows <= 4 => Fits(v, rowmax - 2) BY <1>2, <3>3 DEF WindowsInv
    <3> QED BY <1>1, <3>2, <3>8, <3>9, <3>10
  <2> QED BY <2>1, <2>2
<1>4. Commit(s) BY <1>1
<1> HIDE DEF s
<1>5. steps < MaxSteps /\ steps' = steps + 1 BY <1>4 DEF Commit
<1>6. Rest' BY <1>1, <1>2, <1>5, WindowsAssumption DEF Rest
<1>7. st = strayed' /\ Settled(s, st) BY <1>1, <1>3
<1> HIDE DEF st
<1> QED BY <1>3, <1>4, <1>6, <1>7, Committed

\* set-bookmark.
LEMMA BookmarkStep ==
  ASSUME WindowsInv, Zset_bookmark
  PROVE  WindowsInv'
<1> DEFINE n == (book % BOOKMARKS) + 1
           m == [list |-> cur, buff |-> cur, at |-> pnt[cur]]
           L == Len(books)
<1>1. /\ Commit(S) /\ book' = n
      /\ books' = IF n > L THEN Append(books, m)
                  ELSE [books EXCEPT ![n] = [m EXCEPT !.list = books[n].list]]
      /\ rowmax' = rowmax /\ strayed' = strayed /\ down' = down
  BY DEF Zset_bookmark
<1>2. /\ Settled(S, strayed) /\ Rest /\ cur \in Buffer /\ pnt \in [Buffer -> Place]
  BY Known
<1>3. books \in Seq(Bookmark) /\ L \in Nat /\ DOMAIN books = 1 .. L /\ book \in 0 .. L
  BY <1>2 DEF Rest
<1>4. m \in Bookmark BY <1>2 DEF Bookmark
<1>5. n \in 1 .. L + 1
  <2> DEFINE B == BOOKMARKS
             r == book % B
  <2>1. B \in Nat /\ B > 0 /\ book \in Nat /\ book <= L /\ L \in Nat /\ n = r + 1
    BY <1>3, WindowsAssumption
  <2> HIDE DEF B, L, n
  <2>2. r \in 0 .. B - 1 BY <2>1
  <2>3. CASE book < B
    <3>1. r = book BY <2>1, <2>3
    <3> HIDE DEF r
    <3> QED BY <2>1, <3>1
  <2>4. CASE ~ (book < B)
    <3>1. r <= book BY <2>1, <2>2, <2>4
    <3> HIDE DEF r
    <3> QED BY <2>1, <2>2, <3>1
  <2> QED BY <2>3, <2>4 DEF L
<1> HIDE DEF n
<1>6. books' \in Seq(Bookmark) /\ n \in 0 .. Len(books')
  <2>1. CASE n > L
    <3>1. books' = Append(books, m) /\ n = L + 1 BY <1>1, <1>3, <1>5, <2>1
    <3> HIDE DEF m
    <3>2. Append(books, m) \in Seq(Bookmark) /\ Len(Append(books, m)) = L + 1
      BY <1>3, <1>4, AppendProperties
    <3> QED BY <1>3, <3>1, <3>2
  <2>2. CASE ~ (n > L)
    <3> DEFINE e == [m EXCEPT !.list = books[n].list]
               bs == ReplaceAt(books, n, e)
    <3>1. n \in DOMAIN books BY <1>3, <1>5, <2>2
    <3>2. books[n] \in Bookmark BY <1>3, <3>1
    <3>3. books[n].list \in Buffer \cup {NIL} BY <3>2 DEF Bookmark
    <3>4. e \in Bookmark BY <1>4, <3>3 DEF Bookmark
    <3>5. books' = bs BY <1>1, <2>2 DEF ReplaceAt
    <3> HIDE DEF e
    <3>6. LET x == ReplaceAt(books, n, e)
          IN /\ x \in Seq(Bookmark) /\ Len(x) = Len(books) /\ DOMAIN x = DOMAIN books /\ x[n] = e
             /\ \A j \in DOMAIN books : j # n => x[j] = books[j]
      <4>1. books \in Seq(Bookmark) /\ n \in DOMAIN books /\ e \in Bookmark BY <1>3, <3>1, <3>4
      <4> QED BY ONLY <4>1, Replaced
    <3> QED BY <1>3, <1>5, <2>2, <3>5, <3>6
  <2> QED BY <2>1, <2>2
<1>7. steps < MaxSteps /\ steps' = steps + 1 BY <1>1 DEF Commit
<1>8. Rest' BY <1>1, <1>2, <1>6, <1>7, WindowsAssumption DEF Rest
<1>9. MaxWindows <= 4 => Fits(S.wins, rowmax' - 2) BY <1>1, Fields DEF WindowsInv
<1> DEFINE st == strayed
<1>10. st = strayed' /\ Settled(S, st) BY <1>1, <1>2
<1> HIDE DEF st
<1> QED BY <1>1, <1>8, <1>9, <1>10, Committed

\* next-bookmark.
LEMMA GoStep ==
  ASSUME WindowsInv, Znext_bookmark
  PROVE  WindowsInv'
<1>1. PICK m \in {books[book]} \cup
             (IF books[book] = FREED THEN [list : {NIL}, buff : Buffer, at : Place] ELSE {}) :
        LET t == IF m.buff = cur THEN S ELSE wgoto(set_last_bufname(S, cur), m.buff)
        IN /\ Commit(IF t.cur = m.buff THEN [t EXCEPT !.pnt[t.cur] = m.at] ELSE t)
           /\ book' = IF book = 1 THEN Len(books) ELSE book - 1
           /\ UNCHANGED <<rowmax, books, strayed, down>>
  BY DEF Znext_bookmark
<1>2. book > 0 BY DEF Znext_bookmark
<1> DEFINE r == set_last_bufname(S, cur)
           t == IF m.buff = cur THEN S ELSE wgoto(r, m.buff)
           u == [t EXCEPT !.pnt[t.cur] = m.at]
           s == IF t.cur = m.buff THEN u ELSE t
           st == strayed
<1>3. /\ Commit(s) /\ book' = (IF book = 1 THEN Len(books) ELSE book - 1)
      /\ rowmax' = rowmax /\ books' = books /\ strayed' = strayed /\ down' = down
  BY <1>1
<1>4. Settled(S, strayed) /\ Between(S, strayed) /\ Shown(S, strayed) /\ Rest BY Known DEF Settled
<1>5. book \in 1 .. Len(books) /\ Len(books) \in Nat /\ books[book] \in Bookmark
  BY <1>2, <1>4 DEF Rest
<1>6. m.at \in Place BY <1>1, <1>5 DEF Bookmark
<1>7. Settled(t, strayed) /\ SameSizes(S, t)
  <2>1. CASE m.buff = cur
    <3>1. SameSizes(S, S) BY DEF SameSizes
    <3> QED BY <1>4, <2>1, <3>1
  <2>2. CASE m.buff # cur
    <3>1. Between(r, strayed) /\ Shown(r, strayed) /\ r.wins = S.wins BY <1>4, LastNoted
    <3> HIDE DEF r
    <3>2. Settled(r, strayed) BY <3>1 DEF Settled
    <3> DEFINE x == wgoto(r, m.buff)
    <3>3. Settled(x, strayed) /\ SameSizes(r, x) BY <3>2, GoneTo
    <3> HIDE DEF x
    <3>4. SameSizes(S, x) BY <3>1, <3>3 DEF SameSizes
    <3> QED BY <2>2, <3>3, <3>4 DEF x
  <2> QED BY <2>1, <2>2
<1> HIDE DEF t
<1>8. Settled(s, strayed) /\ SameSizes(S, s)
  <2>1. CASE t.cur = m.buff
    <3>1. Settled(u, strayed) /\ SameSizes(t, u) BY <1>6, <1>7, PointSet
    <3>2. s = u BY <2>1
    <3> HIDE DEF u, s
    <3> QED BY <1>7, <3>1, <3>2 DEF SameSizes
  <2>2. CASE t.cur # m.buff BY <1>7, <2>2
  <2> QED BY <2>1, <2>2
<1> HIDE DEF s
<1>9. steps < MaxSteps /\ steps' = steps + 1 BY <1>3 DEF Commit
<1>10. book' \in 0 .. Len(books) BY <1>3, <1>5
<1>11. Rest' BY <1>3, <1>4, <1>9, <1>10, WindowsAssumption DEF Rest
<1>12. MaxWindows <= 4 => Fits(s.wins, rowmax' - 2) BY <1>3, <1>8, SizesFit
<1>13. st = strayed' /\ Settled(s, st) BY <1>3, <1>8
<1> HIDE DEF st
<1> QED BY <1>3, <1>11, <1>12, <1>13, Committed

\* The invariant holds at the start.
LEMMA WindowsInit == Init => WindowsInv
<1> SUFFICES ASSUME Init PROVE WindowsInv
  OBVIOUS
<1> DEFINE p == Min(Place)
           w == [buff |-> cur, pnt |-> Mark(cur, p), mrk |-> NIL,
                 start |-> cur, first |-> 0, last |-> rowmax - 2, left |-> p]
<1>1. /\ rowmax \in Rows
      /\ bufs \in {<<MAINBUFF>> \o a : a \in Args}
      /\ names = Names(bufs)
      /\ cur = IF Len(bufs) > 1 THEN bufs[2] ELSE MAINBUFF
      /\ last = IF Len(bufs) > 1 THEN MAINBUFF ELSE NIL
      /\ pnt = [b \in Buffer |-> p] /\ umark = [b \in Buffer |-> NIL]
      /\ wins = <<w>> /\ curw = 1 /\ books = <<>> /\ book = 0
      /\ strayed = FALSE /\ down = FALSE /\ steps = 0
  BY DEF Init
<1>2. MAINBUFF \in Buffer /\ p \in Place /\ MaxSteps \in Nat BY WindowsAssumption, StartOfText
<1> HIDE DEF p
<1>3. rowmax \in Int /\ rowmax > 2 BY <1>1, SizeAssumption
<1>4. bufs \in Seq(Buffer) /\ Distinct(bufs) /\ Len(bufs) > 0 /\ bufs[1] = MAINBUFF
  <2>1. PICK a \in Args : bufs = <<MAINBUFF>> \o a BY <1>1
  <2>2. a \in Seq(Buffer \ {MAINBUFF}) /\ \A i, j \in DOMAIN a : a[i] = a[j] => i = j
    BY ArgsAssumption
  <2>3. a \in Seq(Buffer) /\ Len(a) \in Nat /\ DOMAIN a = 1 .. Len(a) BY <2>2
  <2>4. \A i \in 1 .. Len(a) : a[i] # MAINBUFF BY <2>2, <2>3
  <2>5. bufs \in Seq(Buffer) /\ Len(bufs) = Len(a) + 1 /\ bufs[1] = MAINBUFF
        /\ \A i \in 2 .. Len(a) + 1 : bufs[i] = a[i - 1]
    BY <1>2, <2>1, <2>3
  <2>6. Distinct(bufs)
    <3> SUFFICES ASSUME NEW i \in 1 .. Len(a) + 1, NEW j \in 1 .. Len(a) + 1, bufs[i] = bufs[j]
                 PROVE  i = j
      BY <2>5 DEF Distinct
    <3>1. \A k \in 2 .. Len(a) + 1 : k - 1 \in 1 .. Len(a) BY <2>3
    <3>2. CASE i = 1 \/ j = 1
      <4>1. \A k \in 2 .. Len(a) + 1 : bufs[k] # MAINBUFF BY <2>4, <2>5, <3>1
      <4> QED BY <2>3, <2>5, <3>2, <4>1
    <3>3. CASE i # 1 /\ j # 1
      <4>1. i \in 2 .. Len(a) + 1 /\ j \in 2 .. Len(a) + 1 BY <2>3, <3>3
      <4>2. a[i - 1] = a[j - 1] BY <2>5, <4>1
      <4>3. i - 1 = j - 1 BY <2>2, <2>3, <3>1, <4>1, <4>2
      <4> QED BY <4>1, <4>3
    <3> QED BY <3>2, <3>3
  <2> QED BY <2>3, <2>5, <2>6
<1>5. Listed(bufs, names) BY <1>1, <1>4, NamesListed
<1>6. cur \in Buffer /\ cur \in Range(bufs)
  <2>1. 1 \in DOMAIN bufs /\ (Len(bufs) > 1 => 2 \in DOMAIN bufs) BY <1>4
  <2> QED BY <1>1, <1>4, <2>1 DEF Range
<1>7. Mark(cur, p) \in MarkName /\ Mark(cur, p).buff = cur /\ Mark(cur, p).at = p
  BY <1>2, <1>6 DEF Mark, MarkName
<1>8. w \in Window /\ w.buff = cur /\ w.start = cur /\ w.pnt = Mark(cur, p) /\ w.mrk = NIL
      /\ w.left = p /\ w.first = 0 /\ w.last = rowmax - 2
  BY <1>2, <1>3, <1>6, <1>7 DEF Window
<1> HIDE DEF w
<1>9. wins \in Seq(Window) /\ Len(wins) = 1 /\ DOMAIN wins = {1} /\ wins[1] = w BY <1>1, <1>8
<1>10. Shows(w, Range(bufs), strayed) BY <1>6, <1>7, <1>8 DEF Shows
<1>11. last \in Buffer \cup {NIL} BY <1>1, <1>2
<1>12. S \in State BY <1>1, <1>2, <1>4, <1>5, <1>6, <1>9, <1>11 DEF S, State, Listed
<1>13. Between(S, strayed)
  <2>1. S.curw \in DOMAIN S.wins BY <1>1, <1>9, Fields
  <2>2. \A i \in DOMAIN S.wins : Shows(S.wins[i], Range(S.bufs), strayed) BY <1>9, <1>10, Fields
  <2> QED BY <1>5, <1>6, <1>12, <2>1, <2>2, Fields DEF Between
<1>14. Shown(S, strayed) BY <1>1, <1>8, <1>9, Fields DEF Shown
<1>15. Rest
  <2>1. books \in Seq(Bookmark) /\ Len(books) = 0 BY <1>1
  <2>2. book \in 0 .. Len(books) /\ steps \in 0 .. MaxSteps BY <1>1, <1>2, <2>1
  <2>3. strayed \in BOOLEAN /\ down \in BOOLEAN BY <1>1
  <2> QED BY <1>1, <2>1, <2>2, <2>3 DEF Rest
<1>16. Fits(wins, rowmax - 2) BY <1>3, <1>8, <1>9 DEF Fits, Tiles
<1> QED BY <1>13, <1>14, <1>15, <1>16 DEF WindowsInv, Settled

\* And every step keeps it.
LEMMA WindowsNext == WindowsInv /\ [Next]_vars => WindowsInv'
<1> SUFFICES ASSUME WindowsInv, [Next]_vars PROVE WindowsInv'
  OBVIOUS
<1>1. CASE Zsplit_window BY <1>1, SplitStep
<1>2. CASE Zone_window BY <1>2, OneStep
<1>3. CASE Znext_window BY <1>3, NextStep
<1>4. CASE Zgrow_window \/ Zsize_window BY <1>4, GrowStep
<1>5. CASE Zother_next_page BY <1>5, PageStep
<1>6. CASE Move BY <1>6, MoveStep
<1>7. CASE Zset_mark \/ Clear_mark BY <1>7, MarkStep
<1>8. CASE Zswitch_to_buffer BY <1>8, SwitchStep
<1>9. CASE Znext_buffer BY <1>9, NextBufferStep
<1>10. CASE Zdelete_buffer BY <1>10, DeleteStep
<1>11. CASE Zlist_buffers BY <1>11, ListStep
<1>12. CASE findfile BY <1>12, FileStep
<1>13. CASE wsize BY <1>13, RowsStep
<1>14. CASE Zset_bookmark BY <1>14, BookmarkStep
<1>15. CASE Znext_bookmark BY <1>15, GoStep
<1>16. CASE UNCHANGED vars
  <2>1. Settled(S, strayed) /\ Rest /\ (MaxWindows <= 4 => Fits(wins, rowmax - 2)) BY DEF WindowsInv
  <2>2. /\ bufs' = bufs /\ names' = names /\ last' = last /\ cur' = cur /\ pnt' = pnt
        /\ umark' = umark /\ wins' = wins /\ curw' = curw /\ rowmax' = rowmax /\ books' = books
        /\ book' = book /\ strayed' = strayed /\ down' = down /\ steps' = steps
    BY <1>16 DEF vars
  <2> DEFINE n == S
             st == strayed
  <2>3. /\ st = strayed' /\ Settled(n, st)
        /\ n = [bufs |-> bufs', names |-> names', last |-> last', cur |-> cur', pnt |-> pnt',
                umark |-> umark', wins |-> wins', curw |-> curw', sstart |-> cur']
    BY <2>1, <2>2 DEF S
  <2> HIDE DEF n, st
  <2>6. Settled(S, strayed)' BY <2>3, Carried
  <2>4. Rest' BY <2>1, <2>2 DEF Rest
  <2>5. (MaxWindows <= 4 => Fits(wins, rowmax - 2))' BY <2>1, <2>2 DEF Fits, Tiles
  <2> QED BY <2>4, <2>5, <2>6 DEF WindowsInv
<1> QED BY <1>1, <1>2, <1>3, <1>4, <1>5, <1>6, <1>7, <1>8, <1>9, <1>10, <1>11, <1>12, <1>13, <1>14,
           <1>15, <1>16 DEF Next

-----------------------------------------------------------------------------
(* What follows. *)

\* The invariant says that the lists agree.
LEMMA ListsOfInv == WindowsInv => ListsAgree
<1> SUFFICES ASSUME WindowsInv PROVE ListsAgree
  OBVIOUS
<1>1. /\ Settled(S, strayed) /\ Between(S, strayed) /\ Shown(S, strayed) /\ S \in State /\ Rest
      /\ cur \in Range(bufs) /\ curw \in DOMAIN wins
  BY Known DEF Settled
<1>2. /\ Listed(bufs, names)
      /\ \A i \in DOMAIN wins : Shows(wins[i], Range(bufs), strayed)
  BY <1>1, Fields DEF Between
<1>3. TypeOK
  <2>1. /\ bufs \in Seq(Buffer) /\ names \in Seq(Buffer \cup {PAW}) /\ last \in Buffer \cup {NIL}
        /\ cur \in Buffer /\ pnt \in [Buffer -> Place] /\ umark \in [Buffer -> Place \cup {NIL}]
        /\ wins \in Seq([buff : Buffer, pnt : MarkName, mrk : MarkName \cup {NIL},
                          start : Buffer, first : Int, last : Int, left : Place])
    BY <1>1, Fields DEF State, Name, Window
  <2> QED BY <1>1, <2>1 DEF TypeOK, Rest, Bookmark
<1>4. NoDangling BY <1>1, <1>2, <1>3 DEF NoDangling, Shows
<1>5. CurShown BY <1>1, Fields DEF CurShown, Shown, Curwdo
<1>6. NamesExact
  <2>1. /\ bufs \in Seq(Buffer) /\ names \in Seq(Name) /\ Sorted(names)
        /\ Range(names) = Range(bufs) \cup {PAW} /\ Len(names) = Len(bufs) + 1
    BY <1>2 DEF Listed
  <2>2. ASSUME NEW i \in 1 .. Len(names) - 1 PROVE Rank[names[i]] <= Rank[names[i + 1]]
    <3>1. i \in DOMAIN names /\ i + 1 \in DOMAIN names /\ i <= i + 1 BY <2>1
    <3> QED BY <2>1, <3>1 DEF Sorted
  <2> QED BY <2>1, <2>2 DEF NamesExact
<1> QED BY <1>4, <1>5, <1>6 DEF ListsAgree

\* The lists and the globals that refer to buffers agree after every command
\* (delbuff, cdelbuff, zcreatebuff, cswitchto, wswitchto, wuseother, findfile):
\* no window or global refers to a buffer that is gone, the current window shows
\* the current buffer, and Bnames has the names there are in their order.
THEOREM BuffersAndWindowsAgree == Spec => []ListsAgree
<1>1. Init => WindowsInv BY WindowsInit
<1>2. WindowsInv /\ [Next]_vars => WindowsInv' BY WindowsNext
<1>3. WindowsInv => ListsAgree BY ListsOfInv
<1> QED BY <1>1, <1>2, <1>3, PTL DEF Spec

\* Going back to a window finds the point where the window was left (wswitchto,
\* cswitchto, bempty), whatever was done in other windows in between.
THEOREM WindowKeepsItsPlace == Spec => ReturnsToPlace
<1> DEFINE Back == (Znext_window /\ curw' # curw /\ ~ strayed) => pnt'[cur'] = wins'[curw'].left
<1>1. Init => WindowsInv BY WindowsInit
<1>2. WindowsInv /\ [Next]_vars => WindowsInv' BY WindowsNext
<1>3. WindowsInv => Back BY NextStep
<1>4. WindowsInv => [Back]_vars BY <1>3
<1> QED BY <1>1, <1>2, <1>4, PTL DEF Spec, ReturnsToPlace

\* Up to four windows cover the screen without gap or overlap, each with a line
\* of text, whatever is split, sized, deleted or resized (wsplit, sizewindow,
\* do_wsize); of five, do_wsize may leave one without a line.
THEOREM FourWindowsTile ==
  ASSUME MaxWindows <= 4
  PROVE  Spec => []WindowsTile
<1>1. Init => WindowsInv BY WindowsInit
<1>2. WindowsInv /\ [Next]_vars => WindowsInv' BY WindowsNext
<1>3. WindowsInv => WindowsTile
  <2> SUFFICES ASSUME WindowsInv PROVE WindowsTile
    OBVIOUS
  <2>1. wins \in Seq(Window) /\ DOMAIN wins = 1 .. Len(wins) BY Known
  <2>2. Tiles(wins, rowmax - 2) BY DEF WindowsInv, Fits
  <2> QED BY <2>1, <2>2 DEF WindowsTile, Tiles
<1> QED BY <1>1, <1>2, <1>3, PTL DEF Spec
=============================================================================
