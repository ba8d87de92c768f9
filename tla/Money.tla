-------------------------------- MODULE Money --------------------------------
(***************************************************************************)
(* Amounts of money as the code holds them, in float64, and what it does   *)
(* with them.                                                              *)
(*                                                                         *)
(* A float64 close to a decimal amount is kept as the amount n in mills    *)
(* (thousandths) and its distance from it: the record stands for           *)
(* (n * 2^k + r) / (1000 * 2^k), where (n * 2^k + r) / 1000 is an integer, *)
(* the significand.  A significand of 53 bits does not fit the model       *)
(* checker's integers; n, k and r do, and the arithmetic below is exact:   *)
(* every operation rounds its exact result to 53 bits, to nearest, ties to *)
(* even, as the processor does.                                            *)
(*                                                                         *)
(* Below 2^34, the rounding of the few operations that the code does       *)
(* leaves a sum far less than half a mill from its amount, and its         *)
(* hundredfold far less than half a unit: n can be compared before r.      *)
(***************************************************************************)
EXTENDS Integers

Later(i, j) == IF i > j THEN i ELSE j

Zero == [n |-> 0, k |-> 0, r |-> 0]

\* The zero with a sign: it is neither less nor greater than Zero.  Only the end of a
\* calculation gives it, no sum goes on with it.
NegativeZero == [n |-> 0, k |-> 0, r |-> 0, minus |-> TRUE]

Negate(x) == [n |-> -x.n, k |-> x.k, r |-> -x.r]

\* n * 2^k modulo m.
ScaledMod(n, k, m) ==
    LET scaled[i \in 0..k] == IF i = 0 THEN n % m ELSE (2 * scaled[i - 1]) % m
    IN scaled[k]

\* n mills lie in the interval from 2^Exponent(n) to 2^(Exponent(n) + 1).
Exponent(n) ==
    CHOOSE e \in -10..41 :
        IF e < 0 THEN n < 1000 /\ 1000 <= n * 2^(-e) /\ n * 2^(-e) < 2000
                 ELSE 1000 * 2^e <= n /\ n < 1000 * 2^(e + 1)

\* The float64 nearest to n mills: what a decimal literal is read as.
Nearest(n) ==
    IF n = 0 THEN Zero
    ELSE LET i == IF n < 0 THEN -n ELSE n
             k == 52 - Exponent(i)
             over == ScaledMod(i, k, 1000)
             x == [n |-> i, k |-> k, r |-> IF over < 500 THEN -over ELSE 1000 - over]
         IN IF n < 0 THEN Negate(x) ELSE x

\* (n * 2^k + r) / (1000 * 2^k), a multiple of 1 / 2^k, rounded to 53 bits, for n >= 0.
\* What is left when the mills cancel out has few bits and stays as it is.
RoundedUp(n, k, r) ==
    LET e == IF n = 1000 * 2^Later(Exponent(n), 0) /\ r < 0 THEN Exponent(n) - 1 ELSE Exponent(n)
        to == 52 - e
        ulp == 1000 * 2^(k - to)
        rest == (ScaledMod(n, k, 2 * ulp) + r) % (2 * ulp)
        over == rest % ulp
        up == over > ulp \div 2 \/ (over = ulp \div 2 /\ rest >= ulp)
    IN IF to >= k
       THEN [n |-> n, k |-> to, r |-> r * 2^(to - k)]
       ELSE [n |-> n, k |-> to, r |-> (r - over + (IF up THEN ulp ELSE 0)) \div 2^(k - to)]

Rounded(n, k, r) ==
    IF n = 0 THEN [n |-> 0, k |-> k, r |-> r]
    ELSE IF n > 0 THEN RoundedUp(n, k, r) ELSE Negate(RoundedUp(-n, k, -r))

\* The distance of x from x.n mills in a finer unit.
Distance(x, k) == IF x.r = 0 THEN 0 ELSE x.r * 2^(k - x.k)

\* A zero added changes nothing, a rest of rounding neither.
Add(x, y) ==
    LET k == Later(x.k, y.k)
    IN IF y = Zero THEN x
       ELSE Rounded(x.n + y.n, k, Distance(x, k) + Distance(y, k))

Sub(x, y) == Add(x, Negate(y))

Times100(x) == Rounded(100 * x.n, x.k, 100 * x.r)

Less(x, y) ==
    LET k == Later(x.k, y.k)
    IN x # y /\ (x.n < y.n \/ (x.n = y.n /\ Distance(x, k) < Distance(y, k)))

-------------------------------------------------------------------------------
HasSign(x) == Less(x, Zero) \/ x = NegativeZero

\* Mutant: the fraction is cut off.
FormatMoneyCut(x) ==
    LET i == IF Less(x, Zero) THEN Negate(x) ELSE x
    IN [minus |-> HasSign(x),
        cents |-> IF i.n % 10 = 0 /\ i.r < 0 THEN i.n \div 10 - 1 ELSE i.n \div 10]

\* "%.2f": the cents nearest to the exact value, ties to even, and the sign, of a zero too.
FormatMoney(x) ==
    LET i == IF Less(x, Zero) THEN Negate(x) ELSE x
        cents == i.n \div 10
    IN [minus |-> HasSign(x),
        cents |-> IF \/ i.n % 10 > 5
                     \/ i.n % 10 = 5 /\ (i.r > 0 \/ (i.r = 0 /\ cents % 2 = 1))
                  THEN cents + 1 ELSE cents]

\* One hundred times the value is an integer, after rounding, or it is not.
isValidMonetaryValue(x) ==
    LET scaled == Times100(x) IN scaled.n % 1000 = 0 /\ scaled.r = 0

\* math.Round of one hundred times the value, half away from zero, divided by 100.  What
\* is less than zero keeps its sign when nothing else is left of it.
roundToTwoDecimals(x) ==
    LET i == IF Less(x, Zero) THEN Negate(x) ELSE x
        scaled == Times100(i)
        up == scaled.n % 1000 > 500 \/ (scaled.n % 1000 = 500 /\ scaled.r >= 0)
        y == Nearest(10 * (scaled.n \div 1000 + (IF up THEN 1 ELSE 0)))
    IN IF ~Less(x, Zero) THEN y ELSE IF y = Zero THEN NegativeZero ELSE Negate(y)

\* One hundred times the value is within 0.001 of an integer: no number of mills
\* that is not a number of cents is.
hasValidDecimalPrecision(x) == Times100(x).n % 1000 = 0
===============================================================================
