-------------------------------- MODULE Calc --------------------------------
(***************************************************************************)
(* The calculator, src/libz/calc.c: an operator-precedence parser with a   *)
(* stack of operators and one of numbers, as it is called by Zcalc.  An    *)
(* expression is a sequence of tokens; two numbers in a row stand for      *)
(* numbers with a blank between, and < and > for a shift.                  *)
(***************************************************************************)
EXTENDS Integers, Sequences, FiniteSets, SequencesExt, FiniteSetsExt, Bitwise

CONSTANTS
  W,       \* bits of a long
  MAX_OPS  \* places on either stack

ASSUME CalcAssumption == W \in {8, 16} /\ MAX_OPS \in Nat \ {0}

VARIABLE calc  \* struct calc, the expression as far as it is rewritten, and p

\* The numbers, what they are worth, and the letters that may follow one.
Numbers  == {"0", "1", "2", "3", "1.", "2."}
Worth(c) == CASE c = "0" -> 0 [] c \in {"1", "1."} -> 1 [] c \in {"2", "2."} -> 2 [] c = "3" -> 3
Suffix   == {"k", "m", "g", "t", "p"}
is_float(x) == Range(x) \cap {"1.", "2."} # {}

Op    == {"*", "/", "%", "+", "-", "<", ">", "&", "^", "|"}
Known == Op \cup {"(", ")", "N", "="}

\* calc_f with a bug: a minus waits for the one behind it.
calc_f_right(op) ==
  CASE op \in {"*", "/", "%"} -> 12 [] op = "+" -> 10 [] op = "-" -> 8
    [] op \in {"<", ">"} -> 8 [] op = "&" -> 6 [] op = "^" -> 4 [] op = "|" -> 2
    [] op \in {"(", "="} -> 0 [] op \in {")", "N"} -> 14

\* The precedence of what is on the stack, and of what comes next.
calc_f(op) ==
  CASE op \in {"*", "/", "%"} -> 12 [] op \in {"+", "-"} -> 10
    [] op \in {"<", ">"} -> 8 [] op = "&" -> 6 [] op = "^" -> 4 [] op = "|" -> 2
    [] op \in {"(", "="} -> 0 [] op \in {")", "N"} -> 14

calc_g(op) ==
  CASE op \in {"*", "/", "%"} -> 11 [] op \in {"+", "-"} -> 9
    [] op \in {"<", ">"} -> 7 [] op = "&" -> 5 [] op = "^" -> 3 [] op = "|" -> 1
    [] op \in {")", "="} -> 0 [] op \in {"(", "N"} -> 13

-----------------------------------------------------------------------------
(* Numbers: W bits, or a fraction where the code has a double. *)

MinLong == - 2 ^ (W - 1)
Bits(n) == n % 2 ^ W
Wrap(n) == IF Bits(n) < 2 ^ (W - 1) THEN Bits(n) ELSE Bits(n) - 2 ^ W

\* Division towards zero; the processor takes a shift count by its low bits.
Size(a)        == IF a < 0 THEN - a ELSE a
Quotient(a, b) == (Size(a) \div Size(b)) * (IF (a < 0) = (b < 0) THEN 1 ELSE -1)
Count(b)       == Bits(b) % W

Apply(float, op, a, b) ==
  IF float
  THEN CASE op = "*" -> <<a[1] * b[1], a[2] * b[2]>>
         [] op = "/" -> <<a[1] * b[2], a[2] * b[1]>>
         [] op = "+" -> <<a[1] * b[2] + b[1] * a[2], a[2] * b[2]>>
         [] op = "-" -> <<a[1] * b[2] - b[1] * a[2], a[2] * b[2]>>
  ELSE CASE op = "*" -> Wrap(a * b)
         [] op = "/" -> Quotient(a, b)
         [] op = "%" -> a - b * Quotient(a, b)
         [] op = "+" -> Wrap(a + b)
         [] op = "-" -> Wrap(a - b)
         [] op = "<" -> Wrap(Bits(a) * 2 ^ Count(b))
         [] op = ">" -> a \div 2 ^ Count(b)
         [] op = "&" -> Wrap(Bits(a) & Bits(b))
         [] op = "^" -> Wrap(Bits(a) ^^ Bits(b))
         [] op = "|" -> Wrap(Bits(a) | Bits(b))

\* INT_OP refuses a float; a division that has no result stops the program.
Refused(float, op)   == float /\ op \notin {"*", "/", "+", "-"}
Traps(float, op, a, b) ==
  ~ float /\ op \in {"/", "%"} /\ (b = 0 \/ (a = MinLong /\ b = -1))

\* k, m, g and t multiply by 1024 once to four times, p by 4096.
Times1024(c)  == CASE c = "k" -> 1 [] c = "m" -> 2 [] c = "g" -> 3 [] c = "t" -> 4 [] OTHER -> 0
Scaled(n, c)  ==
  IF c = "p" THEN Wrap(n * 4096)
  ELSE FoldLeft(LAMBDA a, i : Wrap(a * 1024), n, [i \in 1 .. Times1024(c) |-> i])
Number(float, c, suffix) == IF float THEN <<Worth(c), 1>> ELSE Scaled(Worth(c), suffix)

-----------------------------------------------------------------------------
(* The parser. *)

Idle == [at |-> "idle", from |-> <<>>, expr |-> <<"=">>, p |-> 1, ops |-> <<>>, nums |-> <<>>, shown |-> <<>>]

Fail(c, how) == [c EXCEPT !.at = how]
top_op(c)    == IF c.ops = <<>> THEN "=" ELSE Last(c.ops)

push_op(c, op)  == IF Len(c.ops) >= MAX_OPS THEN Fail(c, "overflow") ELSE [c EXCEPT !.ops = Append(@, op)]
push_num(c, n)  == IF Len(c.nums) >= MAX_OPS THEN Fail(c, "overflow") ELSE [c EXCEPT !.nums = Append(@, n)]

\* A number at p goes on the stack, and "N" takes its place.
calc_g_num(c) ==
  LET ch     == c.expr[c.p]
      float  == is_float(c.from)
      suffix == ~ float /\ c.expr[c.p + 1] \in Suffix
      rest   == SubSeq(c.expr, c.p + (IF suffix THEN 2 ELSE 1), Len(c.expr))
      d      == push_num(c, Number(float, ch, IF suffix THEN c.expr[c.p + 1] ELSE ""))
  IN IF ch \notin Numbers THEN c
     ELSE [d EXCEPT !.expr = SubSeq(@, 1, c.p - 1) \o <<"N">> \o rest]

\* Back to the loop of calc, or on in the inner one.
Reduced(c, op) == [c EXCEPT !.at = IF calc_f(top_op(c)) >= calc_g(op) THEN "reduce" ELSE "parse"]

\* The operator popped and its two numbers.
Pop(c) ==
  LET op    == Last(c.ops)
      float == is_float(c.from)
      n     == Len(c.nums)
      d     == [c EXCEPT !.ops = Front(@)]
      rest  == [d EXCEPT !.nums = SubSeq(@, 1, n - 2)]
  IN CASE c.ops = <<>> -> Fail(c, "undefined")  \* the test in pop_op is one too late
       [] c.ops # <<>> /\ op \notin Op -> Reduced(d, op)
       [] c.ops # <<>> /\ op \in Op /\ (n < 2 \/ Refused(float, op)) -> Fail(d, "error")
       [] c.ops # <<>> /\ op \in Op /\ n >= 2 /\ ~ Refused(float, op) ->
            IF Traps(float, op, c.nums[n - 1], c.nums[n]) THEN Fail(d, "trap")
            ELSE Reduced(push_num(rest, Apply(float, op, c.nums[n - 1], c.nums[n])), op)

Done(c) == c.expr[c.p] = "=" /\ top_op(c) = "="

\* One round of the loop that takes what is at p, when it is not a reduction.
Shift ==
  /\ calc.at = "parse" /\ ~ Done(calc)
  /\ LET c  == calc_g_num(calc)
         ch == c.expr[c.p]
     IN \/ c.at # "parse" /\ calc' = c
        \/ c.at = "parse" /\ ch \notin Known /\ calc' = Fail(c, "error")
        \/ /\ c.at = "parse" /\ ch \in Known /\ calc_f(top_op(c)) <= calc_g(ch)
           /\ calc' = [push_op(c, ch) EXCEPT !.p = IF ch = "=" THEN @ ELSE @ + 1]

Reduce ==
  LET c  == calc_g_num(calc)
      ch == c.expr[c.p]
  IN \/ calc.at = "reduce" /\ calc' = Pop(calc)
     \/ /\ calc.at = "parse" /\ ~ Done(calc)
        /\ c.at = "parse" /\ ch \in Known /\ calc_f(top_op(c)) > calc_g(ch)
        /\ calc' = Pop(c)

\* The letter behind the = says in which unit the result is shown.
Format(x) ==
  LET Ends == {i \in DOMAIN x : x[i] = "="}
  IN IF Ends # {} /\ Min(Ends) < Len(x) THEN x[Min(Ends) + 1] ELSE ""

Shown(x, n) ==
  IF is_float(x) THEN n
  ELSE n \div (IF Format(x) = "p" THEN 4096 ELSE 1024 ^ Min({Times1024(Format(x)), 3}))

Result ==
  /\ calc.at = "parse" /\ Done(calc)
  /\ calc' = IF calc.nums = <<>> THEN Fail(calc, "error")
             ELSE [calc EXCEPT !.at = "done", !.nums = Front(@),
                               !.shown = <<Shown(calc.from, Last(calc.nums))>>]

\* The expression the user typed; the code works on a copy.
Zcalc(x) ==
  /\ calc.at = "idle"
  /\ calc' = [Idle EXCEPT !.at = "parse", !.from = x,
                          !.expr = IF "=" \in Range(x) THEN x ELSE Append(x, "=")]

-----------------------------------------------------------------------------
(* What an expression means: its grammar, and its value from the inside out. *)

Expression(x) ==
  LET Ends == {i \in DOMAIN x : x[i] = "="} IN IF Ends = {} THEN x ELSE SubSeq(x, 1, Min(Ends) - 1)

Loosest == <<{"|"}, {"^"}, {"&"}, {"<", ">"}, {"+", "-"}, {"*", "/", "%"}>>
Level(op) == CHOOSE l \in DOMAIN Loosest : op \in Loosest[l]

Open(x, i, k) == Cardinality({l \in i .. k : x[l] = "("}) - Cardinality({l \in i .. k : x[l] = ")"})

NoMeaning  == [wellFormed |-> FALSE, value |-> {}]
Meaning(v) == [wellFormed |-> TRUE, value |-> {v}]

\* The loosest operator outside all brackets, the last of them, is applied last.
\* value is empty where an operator has none.
Means(x) ==
  LET float == is_float(x)
      m[i \in 1 .. Len(x) + 1, j \in 0 .. Len(x)] ==
        LET Outer == {k \in (i + 1) .. (j - 1) : x[k] \in Op /\ Open(x, i, k) = 0}
            k     == CHOOSE k \in Outer : \A l \in Outer \ {k} :
                       Level(x[k]) < Level(x[l]) \/ (Level(x[k]) = Level(x[l]) /\ l < k)
        IN CASE Outer # {} ->
                  [wellFormed |-> m[i, k - 1].wellFormed /\ m[k + 1, j].wellFormed,
                   value |-> {Apply(float, x[k], ab[1], ab[2]) :
                      ab \in {ab \in m[i, k - 1].value \X m[k + 1, j].value :
                                ~ Refused(float, x[k]) /\ ~ Traps(float, x[k], ab[1], ab[2])}}]
             [] Outer = {} /\ i = j /\ x[i] \in Numbers -> Meaning(Number(float, x[i], ""))
             [] Outer = {} /\ j = i + 1 /\ x[i] \in Numbers /\ x[j] \in Suffix /\ ~ float ->
                  Meaning(Number(float, x[i], x[j]))
             [] Outer = {} /\ i < j /\ x[i] = "(" /\ x[j] = ")" -> m[i + 1, j - 1]
             [] OTHER -> NoMeaning
  IN m[1, Len(x)]

\* A well-formed expression has its value, in the unit asked for, by the rules
\* of C: the tightest operator first, equal ones from the left.  It is never a
\* syntax error, unless a float meets an integer operator, and no other outcome
\* is undefined; if it is longer than the stacks, they may overflow.
CalcRight ==
  calc.at \in {"idle", "parse", "reduce"} \/
  \E r \in {Means(Expression(calc.from))} :
     r.wellFormed =>
       \/ calc.at = "overflow" /\ Len(calc.from) > MAX_OPS
       \/ calc.at = "done" /\ {calc.shown[1]} = {Shown(calc.from, v) : v \in r.value}
       \/ r.value = {} /\ calc.at = (IF is_float(calc.from) THEN "error" ELSE "trap")
=============================================================================
