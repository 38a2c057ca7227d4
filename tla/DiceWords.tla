----------------------------- MODULE DiceWords -----------------------------
(***************************************************************************)
(* The checked integer arithmetic of the dice evaluator, pkg/dice/arith.go.*)
(* A Go int is a two's complement word: every sum, difference and product  *)
(* the code forms, those in its guards included, wraps.                    *)
(***************************************************************************)
EXTENDS Integers

CONSTANT MaxInt   \* math.MaxInt

ASSUME MaxIntAssumption == MaxInt \in Nat \ {0}

MinInt == -MaxInt - 1

Word == MinInt..MaxInt

\* How many ints there are.
Size == 2 * (MaxInt + 1)

Wrap(x) == x - Size * ((x - MinInt) \div Size)

Abs(x) == IF x < 0 THEN -x ELSE x

\* Go's division truncates, and the smallest int divided by -1 wraps.
Quotient(a, b) ==
    Wrap(IF (a < 0) = (b < 0) THEN Abs(a) \div Abs(b) ELSE -(Abs(a) \div Abs(b)))

Remainder(a, b) == Wrap(a - b * Quotient(a, b))

Ok(v) == [status |-> "ok", value |-> v]

Failed(status) == [status |-> status, value |-> 0]

Outcome == {Ok(v) : v \in Word} \cup {Failed("overflow"), Failed("division_by_zero")}

-----------------------------------------------------------------------------
(* arith.go.                                                               *)

Add(a, b) ==
    IF \/ b > 0 /\ a > Wrap(MaxInt - b)
       \/ b < 0 /\ a < Wrap(MinInt - b)
    THEN Failed("overflow") ELSE Ok(Wrap(a + b))

Sub(a, b) ==
    IF \/ b < 0 /\ a > Wrap(MaxInt + b)
       \/ b > 0 /\ a < Wrap(MinInt + b)
    THEN Failed("overflow") ELSE Ok(Wrap(a - b))

\* Faulty variant: the product is only divided back.
MulDividedBack(a, b) ==
    IF a = 0 \/ b = 0 THEN Ok(0)
    ELSE IF Quotient(Wrap(a * b), b) # a THEN Failed("overflow")
    ELSE Ok(Wrap(a * b))

Mul(a, b) ==
    IF a = 0 \/ b = 0 THEN Ok(0)
    ELSE IF \/ a = -1 /\ b = MinInt
            \/ b = -1 /\ a = MinInt
            \/ Quotient(Wrap(a * b), b) # a
         THEN Failed("overflow")
    ELSE Ok(Wrap(a * b))

\* Go truncates; the code rounds down.
Div(a, b) ==
    IF b = 0 THEN Failed("division_by_zero")
    ELSE IF a = MinInt /\ b = -1 THEN Failed("overflow")
    ELSE IF Remainder(a, b) # 0 /\ (a < 0) # (b < 0) THEN Ok(Wrap(Quotient(a, b) - 1))
    ELSE Ok(Quotient(a, b))

Neg(a) == IF a = MinInt THEN Failed("overflow") ELSE Ok(Wrap(-a))

-----------------------------------------------------------------------------
\* The integer just below a / b.
Floor(a, b) == IF b > 0 THEN a \div b ELSE (-a) \div (-b)
=============================================================================
