----------------------------- MODULE CalcArithmetic -----------------------------
(***************************************************************************)
(* The checked arithmetic of the calculator of Lab 6 (parser_hh.c): before *)
(* each operation a function tells whether its result leaves the range     *)
(* from min_value() to max_value(), without leaving it itself.             *)
(***************************************************************************)
EXTENDS Integers

CONSTANT MaxValue   \* max_value(): a sign bit of 0 followed by all 1s

ASSUME MaxValueAssumption == MaxValue \in Nat /\ MaxValue % 2 = 1

MinValue == -MaxValue
ValueRange == MinValue .. MaxValue

\* The two's complement value of x: there is one number below min_value().
Wrap(x) == ((x + MaxValue + 1) % (2 * MaxValue + 2)) - MaxValue - 1

AbsValue(x) == IF x < 0 THEN -x ELSE x

\* C's division rounds towards 0.
Quotient(a, b) ==
  LET q == AbsValue(a) \div AbsValue(b) IN IF (a < 0) = (b < 0) THEN q ELSE -q

\* Mutant: the bounds are taken to be in order, whatever the sign of b.
MutMultOverflow(a, b) ==
  /\ a # 0 /\ b # 0
  /\ ~ (a <= Quotient(MaxValue, b) /\ Quotient(MinValue, b) <= a)

IsMultOverflow(a, b) ==
  /\ a # 0 /\ b # 0
  /\ LET boundOne == Quotient(MaxValue, b)
         boundTwo == Quotient(MinValue, b)
     IN  ~ (boundOne <= a /\ a <= boundTwo) /\ ~ (boundTwo <= a /\ a <= boundOne)

IsDivByZero(b) == b = 0

\* When it refuses, this function returns no value: the caller sees what is left in
\* the result register, the address of the error bits, which is not 0.
IsCatOverflow(a, b) == ~ (a <= Quotient(MaxValue - b, 10))

\* x \div 2 is the arithmetic shift x >> 1, and the product the carry 1 & a & b.
IsAddOverflow(a, b) ==
  LET carry == (a % 2) * (b % 2)
      posHalfSum == (a \div 2) + (b \div 2) + carry
      negHalfSum == (Wrap(-a) \div 2) + (Wrap(-b) \div 2) + carry
  IN  ~ (posHalfSum <= MaxValue \div 2 /\ negHalfSum <= MaxValue \div 2)
===============================================================================
