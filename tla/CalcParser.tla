------------------------------- MODULE CalcParser -------------------------------
(***************************************************************************)
(* The parser of the calculator (parser_hh.c) as a recursive function that *)
(* reads a line from its end, and the grammar of parser_hh.h:29-49 as the  *)
(* reference it is compared with.  A line is a sequence of characters.     *)
(*                                                                         *)
(* A parse function returns how much of the line is left, what its out     *)
(* variable holds and the errors it found.  The local variables P, A, N    *)
(* and D have no initial value: they hold junk until they are written,     *)
(* and after an error they are not written.                                *)
(***************************************************************************)
EXTENDS CalcArithmetic, Sequences

CONSTANT Digit   \* the digits that are typed: a record from characters to 0 .. 9

IsDigit(c) == c \in DOMAIN Digit

Result(len, value, errors) == [len |-> len, value |-> value, errors |-> errors]

\* is_prev_char and is_prev_char_in, which has no return statement: the caller sees what
\* its expression left in the result register.
PrevIn(s, n, chars) == n > 0 /\ s[n] \in chars

\* What parse_whitespace leaves of the first n characters of s.
Whitespace(s, n) ==
  CHOOSE k \in 0 .. n : ~PrevIn(s, k, {" "}) /\ \A i \in k + 1 .. n : s[i] = " "

\* The out variable keeps what it holds, v, when the operation is refused.
Operate(refused, error, left, right, v, result) ==
  Result(left.len, IF refused THEN v ELSE Wrap(result),
         left.errors \union right.errors \union (IF refused THEN {error} ELSE {}))

Addition(parse, s, n, v, junk) ==
  LET P == parse["product", n, junk]
      A == parse["addition", P.len - 1, junk]
      term == IF s[P.len] = "+" THEN P.value ELSE Wrap(-P.value)
  IN  IF ~PrevIn(s, P.len, {"+", "-"}) THEN P
      ELSE Operate(IsAddOverflow(A.value, term), "OVERFLOW", A, P, v, A.value + term)

Product(parse, s, n, v, junk) ==
  LET N == parse["number", n, junk]
      P == parse["product", N.len - 1, junk]
  IN  IF PrevIn(s, N.len, {"*"})
      THEN Operate(IsMultOverflow(P.value, N.value), "OVERFLOW", P, N, v, P.value * N.value)
      ELSE IF PrevIn(s, N.len, {"/"})
      THEN Operate(IsDivByZero(N.value), "DIV_BY_ZERO", P, N, v, Quotient(P.value, N.value))
      ELSE N

\* A minus sign that does not follow a value is a negation.
Number(parse, s, n, v, junk) ==
  LET V == parse["value", Whitespace(s, n), v]
      negated == PrevIn(s, V.len, {"-"})
                 /\ ~PrevIn(s, Whitespace(s, V.len - 1), DOMAIN Digit \union {")"})
  IN  Result(Whitespace(s, IF negated THEN V.len - 1 ELSE V.len),
             IF negated THEN Wrap(-V.value) ELSE V.value, V.errors)

Value(parse, s, n, v, junk) ==
  LET E == parse["addition", n - 1, v]
  IN  IF ~PrevIn(s, n, {")"}) THEN parse["digits", n, v]
      ELSE IF PrevIn(s, E.len, {"("}) THEN [E EXCEPT !.len = E.len - 1]
      ELSE [E EXCEPT !.errors = @ \union {"SYNTAX"}]

Digits(parse, s, n, v, junk) ==
  LET D == parse["digits", n - 1, junk]
      d == Digit[s[n]]
  IN  IF ~PrevIn(s, n, DOMAIN Digit) THEN Result(n, v, {"SYNTAX"})
      ELSE IF ~PrevIn(s, n - 1, DOMAIN Digit) THEN Result(n - 1, d, {})
      ELSE Operate(IsCatOverflow(D.value, d), "VALUE", D, Result(n, d, {}), v, 10 * D.value + d)

\* parse_expression is parse_addition.
ParseStart(s, junk) ==
  LET parse[rule \in {"addition", "product", "number", "value", "digits"},
            n \in 0 .. Len(s), v \in Int] ==
        CASE rule = "addition" -> Addition(parse, s, n, v, junk)
          [] rule = "product" -> Product(parse, s, n, v, junk)
          [] rule = "number" -> Number(parse, s, n, v, junk)
          [] rule = "value" -> Value(parse, s, n, v, junk)
          [] rule = "digits" -> Digits(parse, s, n, v, junk)
      E == parse["addition", Len(s), 0]
  IN  IF E.len # 0 THEN [E EXCEPT !.errors = @ \union {"SYNTAX"}] ELSE E

-------------------------------------------------------------------------------
\* The grammar of parser_hh.h.  Derived(s) is the set of what the line s means,
\* which is empty when the grammar does not derive it: an exact value, or the
\* errors that keep it from having one.
Means(value, errors) == [value |-> value, errors |-> errors]

\* What an operation on x and y means: its result, if both have one.
Apply(x, y, result, error, failed) ==
  IF x.errors \union y.errors # {} THEN Means(0, x.errors \union y.errors)
  ELSE IF failed THEN Means(0, {error}) ELSE Means(result, {})

Fits(x, y, result) == Apply(x, y, result, "OVERFLOW", result \notin ValueRange)

\* The facts "rule derives what is between i and j of the line s, which means m",
\* collected by the length of what is derived.
Fact(rule, i, j, m) == [rule |-> rule, i |-> i, j |-> j, m |-> m]

\* A -> A+P and the rules like it: what x before the sign at k and y after it mean.
Joined(s, rule, sign, right, facts, i, j, F(_, _)) ==
  UNION {UNION {{Fact(rule, i, j, F(x.m, y.m)) :
                   x \in {x \in facts : x.rule = rule /\ x.i = i /\ x.j = k}} :
                   y \in {y \in facts : y.rule = right /\ y.i = k + 1 /\ y.j = j}} :
           k \in {k \in i + 1 .. j - 2 : s[k] = sign}}

Renamed(rule, facts) == {[f EXCEPT !.rule = rule] : f \in facts}

Derived(s) ==
  LET Spaces(i, j) == \A k \in i .. j - 1 : s[k] = " "
      chart[n \in 0 .. Len(s)] ==
        IF n = 0 THEN {} ELSE
        LET old == chart[n - 1]
            At(i) == i + n
            starts == 1 .. Len(s) + 1 - n
            D == {Fact("D", i, i + 1, Means(Digit[s[i]], {})) :
                    i \in {i \in starts : n = 1 /\ IsDigit(s[i])}}
                 \union
                 {LET value == 10 * x.m.value + Digit[s[x.j]] IN
                  Fact("D", x.i, x.j + 1, Apply(x.m, x.m, value, "VALUE", value \notin ValueRange)) :
                    x \in {x \in old : x.rule = "D" /\ x.j = At(x.i) - 1
                                       /\ x.j <= Len(s) /\ IsDigit(s[x.j])}}
            V == Renamed("V", D) \union
                 {Fact("V", x.i - 1, x.j + 1, x.m) :
                    x \in {x \in old : x.rule = "A" /\ x.j = At(x.i) - 2 /\ x.i > 1 /\ x.j <= Len(s)
                                       /\ s[x.i - 1] = "(" /\ s[x.j] = ")"}}
            N == UNION {{Fact("N", i, At(i), x.m) :
                           x \in {x \in V \union old : x.rule = "V" /\ Spaces(i, x.i)
                                    /\ i <= x.i /\ x.j <= At(i) /\ Spaces(x.j, At(i))}}
                        \union
                        {Fact("N", i, At(i), Means(-x.m.value, x.m.errors)) :
                           x \in {x \in old : x.rule = "V" /\ i < x.i /\ x.j <= At(i)
                                    /\ s[x.i - 1] = "-" /\ Spaces(i, x.i - 1) /\ Spaces(x.j, At(i))}} :
                          i \in starts}
            P == Renamed("P", N) \union UNION {
                   Joined(s, "P", "*", "N", old, i, At(i), LAMBDA x, y : Fits(x, y, x.value * y.value))
                   \union
                   Joined(s, "P", "/", "N", old, i, At(i), LAMBDA x, y :
                            Apply(x, y, IF y.value = 0 THEN 0 ELSE Quotient(x.value, y.value),
                                  "DIV_BY_ZERO", y.value = 0)) : i \in starts}
            A == Renamed("A", P) \union UNION {
                   Joined(s, "A", "+", "P", old, i, At(i), LAMBDA x, y : Fits(x, y, x.value + y.value))
                   \union
                   Joined(s, "A", "-", "P", old, i, At(i), LAMBDA x, y : Fits(x, y, x.value - y.value)) :
                     i \in starts}
        IN  old \union D \union V \union N \union P \union A
  IN  {x.m : x \in {x \in chart[Len(s)] : x.rule = "A" /\ x.i = 1 /\ x.j = Len(s) + 1}}
===============================================================================
