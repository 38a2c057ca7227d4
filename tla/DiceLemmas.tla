----------------------------- MODULE DiceLemmas -----------------------------
(***************************************************************************)
(* What the proofs about dice rest on: the checked arithmetic of ints of   *)
(* any width, ranks, and functions that are defined by recursion.          *)
(***************************************************************************)
EXTENDS DiceWords, Sequences, SequencesExt, FiniteSetsExt, FiniteSetTheorems,
        FunctionTheorems, SequenceTheorems, TLAPS

-----------------------------------------------------------------------------
(* Words.                                                                  *)

\* What \div computes.
LEMMA DivBounds ==
    ASSUME NEW m \in Int, NEW n \in Nat \ {0}
    PROVE  /\ m \div n \in Int
           /\ n * (m \div n) <= m
           /\ m < n * (m \div n) + n
  BY SMTT(30)

\* The ints of a word are a range of Size integers around zero.
LEMMA Words == /\ Size \in Nat \ {0}
               /\ MinInt \in Int
               /\ Size = MaxInt - MinInt + 1
               /\ \A x \in Word : x \in Int
  BY MaxIntAssumption DEF Size, MinInt, Word

\* Wrapping shifts by a whole number of words, into the range of a word.
LEMMA WrapShifts ==
    ASSUME NEW x \in Int
    PROVE  Wrap(x) \in Word /\ \E k \in Int : x = Wrap(x) + Size * k
<1> DEFINE k == (x - MinInt) \div Size
<1>1. k \in Int /\ Size * k <= x - MinInt /\ x - MinInt < Size * k + Size
  BY Words, DivBounds
<1>2. Wrap(x) = x - Size * k
  BY DEF Wrap
<1>3. Size * k \in Int
  BY <1>1, Words
<1> HIDE DEF k
<1>4. Wrap(x) \in Word
  BY <1>1, <1>2, <1>3, Words, MaxIntAssumption DEF Word
<1>5. x = Wrap(x) + Size * k
  BY <1>2, <1>3
<1> QED BY <1>1, <1>4, <1>5

\* A word holds what fits.
LEMMA WrapFits == ASSUME NEW x \in Word PROVE Wrap(x) = x
  BY MaxIntAssumption, SMTT(30) DEF Wrap, Word, MinInt, Size

-----------------------------------------------------------------------------
(* The operations of arith.go.                                             *)

\* What an operation owes: the integer it denotes, or a refusal.
Checked(ideal) == IF ideal \in Word THEN Ok(ideal) ELSE Failed("overflow")

\* addInt: the guards' own differences fit.
LEMMA AddExact == ASSUME NEW a \in Word, NEW b \in Word PROVE Add(a, b) = Checked(a + b)
<1>1. b > 0 => Wrap(MaxInt - b) = MaxInt - b
  BY WrapFits, MaxIntAssumption DEF Word, MinInt
<1>2. b < 0 => Wrap(MinInt - b) = MinInt - b
  BY WrapFits, MaxIntAssumption DEF Word, MinInt
<1>3. a + b \in Word => Wrap(a + b) = a + b
  BY WrapFits
<1> QED BY <1>1, <1>2, <1>3, MaxIntAssumption DEF Add, Checked, Word, MinInt

\* subInt likewise.
LEMMA SubExact == ASSUME NEW a \in Word, NEW b \in Word PROVE Sub(a, b) = Checked(a - b)
<1>1. b < 0 => Wrap(MaxInt + b) = MaxInt + b
  BY WrapFits, MaxIntAssumption DEF Word, MinInt
<1>2. b > 0 => Wrap(MinInt + b) = MinInt + b
  BY WrapFits, MaxIntAssumption DEF Word, MinInt
<1>3. a - b \in Word => Wrap(a - b) = a - b
  BY WrapFits
<1> QED BY <1>1, <1>2, <1>3, MaxIntAssumption DEF Sub, Checked, Word, MinInt

\* negInt: only the smallest int has no opposite.
LEMMA NegExact == ASSUME NEW a \in Word PROVE Neg(a) = Checked(-a)
<1>1. -a \in Word => Wrap(-a) = -a
  BY WrapFits
<1> QED BY <1>1, MaxIntAssumption DEF Neg, Checked, Word, MinInt

\* What truncating division leaves over: less than the divisor, with the
\* sign of the dividend.
LeftOver(a, b, q) ==
    IF a >= 0 THEN 0 <= a - b * q /\ a - b * q < Abs(b)
    ELSE a - b * q <= 0 /\ -(a - b * q) < Abs(b)

\* Go's division truncates, wherever its quotient fits.
LEMMA QuotientTruncates ==
    ASSUME NEW a \in Word, NEW b \in Word, b # 0, ~ (a = MinInt /\ b = -1)
    PROVE  Quotient(a, b) \in Word /\ LeftOver(a, b, Quotient(a, b))
<1> DEFINE d == Abs(a) \div Abs(b)
           t == IF (a < 0) = (b < 0) THEN d ELSE -d
<1>1. a \in Int /\ b \in Int /\ Abs(a) \in Nat /\ Abs(b) \in Nat \ {0}
  BY Words DEF Abs
<1>2. d \in Int /\ Abs(b) * d <= Abs(a) /\ Abs(a) < Abs(b) * d + Abs(b)
  <2>1. Abs(a) \in Int
    BY <1>1
  <2> QED BY <1>1, <2>1, DivBounds, Zenon
<1>3. Quotient(a, b) = Wrap(t)
  BY DEF Quotient
<1> HIDE DEF d
<1>4. d >= 0
  <2>1. SUFFICES ASSUME d <= -1 PROVE FALSE
    BY <1>2
  <2>2. Abs(b) * d + Abs(b) <= 0
    BY <1>1, <1>2, <2>1
  <2> QED BY <1>1, <1>2, <2>2
<1>5. d <= Abs(a)
  BY <1>1, <1>2, <1>4
<1>6. b # 1 /\ b # -1 => 2 * d <= Abs(a)
  <2>1. SUFFICES ASSUME b # 1, b # -1 PROVE 2 * d <= Abs(a)
    OBVIOUS
  <2>2. Abs(b) >= 2
    BY <1>1, <2>1 DEF Abs
  <2>3. 2 * d <= Abs(b) * d
    BY <1>1, <1>2, <1>4, <2>2
  <2> QED BY <1>1, <1>2, <2>3
<1>7. t \in Word
  BY <1>1, <1>2, <1>4, <1>5, <1>6, MaxIntAssumption DEF Word, MinInt, Abs
<1>8. LeftOver(a, b, t)
  BY <1>1, <1>2 DEF LeftOver, Abs
<1> QED BY <1>3, <1>7, <1>8, WrapFits

\* The remainder Go computes is what the division leaves over.
LEMMA RemainderIsLeftOver ==
    ASSUME NEW a \in Word, NEW b \in Word, b # 0, ~ (a = MinInt /\ b = -1)
    PROVE  Remainder(a, b) = a - b * Quotient(a, b)
<1> DEFINE q == Quotient(a, b)
<1>1. a \in Int /\ b \in Int /\ q \in Int /\ LeftOver(a, b, q)
  BY Words, QuotientTruncates
<1> HIDE DEF q
<1>2. b * q \in Int
  BY <1>1
<1>3. a - b * q \in Word
  BY <1>1, <1>2, MaxIntAssumption DEF LeftOver, Abs, Word, MinInt
<1>4. Wrap(a - b * q) = a - b * q
  BY <1>3, WrapFits
<1> QED BY <1>4 DEF Remainder, q

\* Division leaves less than one divisor over, so it has one answer.
LEMMA DivUnique ==
    ASSUME NEW m \in Int, NEW n \in Nat \ {0}, NEW k \in Int,
           n * k <= m, m < n * k + n
    PROVE  m \div n = k
<1> DEFINE d == m \div n
<1>1. d \in Int /\ n * d <= m /\ m < n * d + n
  BY DivBounds
<1> HIDE DEF d
<1>2. ~ (d < k)
  <2>1. SUFFICES ASSUME d + 1 <= k PROVE FALSE
    BY <1>1
  <2>2. n * (d + 1) <= n * k
    BY <1>1, <2>1
  <2> QED BY <1>1, <2>2
<1>3. ~ (k < d)
  <2>1. SUFFICES ASSUME k + 1 <= d PROVE FALSE
    BY <1>1
  <2>2. n * (k + 1) <= n * d
    BY <1>1, <2>1
  <2> QED BY <1>1, <2>2
<1> QED BY <1>1, <1>2, <1>3 DEF d

\* divInt: rounding the truncated quotient down gives the floor.
LEMMA DivExact ==
    ASSUME NEW a \in Word, NEW b \in Word, b # 0
    PROVE  Div(a, b) = Checked(Floor(a, b)) /\ Floor(a, b) \in Int
<1>1. CASE a = MinInt /\ b = -1
  <2>1. (-a) \div (-b) = MaxInt + 1
    BY <1>1, DivUnique, MaxIntAssumption DEF MinInt
  <2> QED BY <1>1, <2>1, MaxIntAssumption DEF Div, Checked, Floor, Word, MinInt
<1>2. CASE ~ (a = MinInt /\ b = -1)
  <2> DEFINE q == Quotient(a, b)
             r == a - b * q
             f == IF r # 0 /\ (a < 0) # (b < 0) THEN q - 1 ELSE q
  <2>1. a \in Int /\ b \in Int /\ q \in Word /\ q \in Int /\ LeftOver(a, b, q)
    BY <1>2, Words, QuotientTruncates
  <2>2. Remainder(a, b) = r
    BY <1>2, RemainderIsLeftOver
  <2> HIDE DEF q
  <2>3. Floor(a, b) = f
    <3>1. f \in Int /\ b * f \in Int /\ b * q \in Int /\ b * (q - 1) = b * q - b
      BY <2>1
    <3>2. CASE b > 0
      <4>1. b * f <= a /\ a < b * f + b
        BY <2>1, <3>1, <3>2 DEF LeftOver, Abs
      <4> HIDE DEF f
      <4> QED BY <2>1, <3>1, <3>2, <4>1, DivUnique DEF Floor
    <3>3. CASE b < 0
      <4>1. b * f >= a /\ a > b * f + b
        BY <2>1, <3>1, <3>3 DEF LeftOver, Abs
      <4>2. (-b) * f = -(b * f)
        BY <2>1, <3>1
      <4> HIDE DEF f
      <4>3. (-b) * f <= -a /\ -a < (-b) * f + (-b)
        BY <2>1, <3>1, <4>1, <4>2
      <4> QED BY <2>1, <3>1, <3>3, <4>3, DivUnique DEF Floor
    <3> QED BY <2>1, <3>2, <3>3
  <2>4. f \in Word
    <3>1. SUFFICES ASSUME q = MinInt, r # 0, (a < 0) # (b < 0) PROVE FALSE
      BY <2>1, MaxIntAssumption DEF Word, MinInt
    <3>2. b # 1 /\ b # -1
      BY <2>1, <3>1 DEF LeftOver, Abs
    <3>3. b * q = -(b * (MaxInt + 1))
      BY <2>1, <3>1, MaxIntAssumption DEF MinInt
    <3>4. CASE b >= 2
      <4>1. b * (MaxInt + 1) >= 2 * (MaxInt + 1)
        BY <2>1, <3>4, MaxIntAssumption
      <4> QED BY <2>1, <3>1, <3>3, <3>4, <4>1, MaxIntAssumption DEF LeftOver, Abs, Word, MinInt
    <3>5. CASE b <= -2
      <4>1. b * (MaxInt + 1) <= -2 * (MaxInt + 1)
        BY <2>1, <3>5, MaxIntAssumption
      <4> QED BY <2>1, <3>1, <3>3, <3>5, <4>1, MaxIntAssumption DEF LeftOver, Abs, Word, MinInt
    <3> QED BY <2>1, <3>2, <3>4, <3>5
  <2>5. Wrap(f) = f
    BY <2>4, WrapFits
  <2> QED BY <1>2, <2>2, <2>3, <2>4, <2>5, Words DEF Div, Checked, q
<1> QED BY <1>1, <1>2

\* mulInt: dividing back finds every product that wrapped, save the two of
\* the smallest int and -1, which are looked for.
LEMMA MulExact == ASSUME NEW a \in Word, NEW b \in Word PROVE Mul(a, b) = Checked(a * b)
<1> DEFINE c == Wrap(a * b)
           q == Quotient(c, b)
<1>1. a \in Int /\ b \in Int /\ a * b \in Int /\ c \in Word /\ c \in Int
  <2>1. a \in Int /\ b \in Int /\ a * b \in Int
    BY Words
  <2> QED BY <2>1, Words, WrapShifts
<1>2. PICK k \in Int : a * b = c + Size * k
  BY <1>1, WrapShifts
<1>3. CASE a = 0 \/ b = 0
  <2>1. a * b = 0 /\ 0 \in Word
    BY <1>1, <1>3, MaxIntAssumption DEF Word, MinInt
  <2> QED BY <1>3, <2>1 DEF Mul, Checked
<1>4. CASE (a = -1 /\ b = MinInt) \/ (b = -1 /\ a = MinInt)
  <2>1. a * b = MaxInt + 1
    BY <1>4, MaxIntAssumption DEF MinInt
  <2> QED BY <1>4, <2>1, MaxIntAssumption DEF Mul, Checked, Word, MinInt
<1>5. CASE /\ a # 0 /\ b # 0
           /\ ~ (a = -1 /\ b = MinInt) /\ ~ (b = -1 /\ a = MinInt)
  <2>1. c = MinInt /\ b = -1 => q # a /\ a * b \notin Word
    <3>1. SUFFICES ASSUME c = MinInt, b = -1 PROVE q # a /\ a * b \notin Word
      OBVIOUS
    <3>2. a * b = -a
      BY <1>1, <3>1
    <3>3. -a \in Word
      BY <1>1, <1>5, <3>1, MaxIntAssumption DEF Word, MinInt
    <3>4. c = -a
      BY <3>2, <3>3, WrapFits
    <3> QED BY <1>1, <3>1, <3>4, MaxIntAssumption DEF Word, MinInt
  <2>2. ASSUME ~ (c = MinInt /\ b = -1) PROVE q = a <=> a * b \in Word
    <3>1. q \in Int /\ LeftOver(c, b, q)
      BY <1>1, <1>5, <2>2, QuotientTruncates, Words
    <3> HIDE DEF q
    <3>2. ASSUME q = a PROVE a * b \in Word
      <4>1. b * a = c + Size * k /\ Size * k \in Int
        BY <1>1, <1>2, Words
      <4>2. -Size < Size * k /\ Size * k < Size
        BY <1>1, <3>1, <3>2, <4>1, MaxIntAssumption DEF LeftOver, Abs, Word, MinInt, Size
      <4>3. ~ (k >= 1)
        <5>1. k >= 1 => Size * k >= Size
          BY <1>2, Words
        <5> QED BY <4>1, <4>2, <5>1, Words
      <4>4. ~ (k <= -1)
        <5>1. k <= -1 => Size * k <= -Size
          BY <1>2, Words
        <5> QED BY <4>1, <4>2, <5>1, Words
      <4>5. k = 0
        BY <1>2, <4>3, <4>4
      <4> QED BY <1>1, <1>2, <4>5, Words
    <3>3. ASSUME a * b \in Word PROVE q = a
      <4>1. c = b * a /\ b * a \in Int /\ b * q \in Int
        BY <1>1, <3>1, <3>3, WrapFits
      <4>2. b * a - b * q = b * (a - q)
        BY <1>1, <3>1
      <4>3. -Abs(b) < b * (a - q) /\ b * (a - q) < Abs(b)
        BY <1>1, <3>1, <4>1, <4>2 DEF LeftOver, Abs
      <4>4. a - q >= 1 => IF b > 0 THEN b * (a - q) >= b ELSE b * (a - q) <= b
        BY <1>1, <1>5, <3>1
      <4>5. a - q <= -1 => IF b > 0 THEN b * (a - q) <= -b ELSE b * (a - q) >= -b
        BY <1>1, <1>5, <3>1
      <4> QED BY <1>1, <1>5, <3>1, <4>3, <4>4, <4>5 DEF Abs
    <3> QED BY <3>2, <3>3
  <2>3. a * b \in Word => c = a * b
    BY WrapFits
  <2> QED BY <1>5, <2>1, <2>2, <2>3 DEF Mul, Checked, c, q
<1> QED BY <1>3, <1>4, <1>5

-----------------------------------------------------------------------------
(* Ranks.  "before" gives for every element of a finite set those that a   *)
(* strict order puts before it; the rank of an element is their number.    *)

Orders(before, P) ==
    /\ before \in [P -> SUBSET P]
    /\ \A p, q \in P : p # q => p \in before[q] \/ q \in before[p]
    /\ \A p, q \in P : p \in before[q] => before[p] \subseteq before[q] /\ p \notin before[p]

\* The elements that have k others or more before them.
Beyond(k, before, P) == {p \in P : Cardinality(before[p]) >= k}

\* Ranks are natural numbers below the size of the set, and no two elements
\* have the same.
LEMMA RanksDiffer ==
    ASSUME NEW P, IsFiniteSet(P), NEW before, Orders(before, P)
    PROVE  \A p \in P : /\ Cardinality(before[p]) \in 0..(Cardinality(P) - 1)
                        /\ \A q \in P : p # q => Cardinality(before[p]) # Cardinality(before[q])
<1>1. \A p \in P : p \notin before[p]
  BY DEF Orders
<1>2. \A p \in P : IsFiniteSet(before[p]) /\ Cardinality(before[p]) \in Nat
  <2>1. TAKE p \in P
  <2>2. before[p] \in SUBSET P
    BY DEF Orders
  <2>3. IsFiniteSet(before[p])
    BY <2>2, FS_Subset
  <2> QED
    BY <2>3, FS_CardinalityType
<1>3. ASSUME NEW p \in P, NEW q \in P, p \in before[q]
      PROVE  Cardinality(before[p]) < Cardinality(before[q])
  <2>1. before[p] \in SUBSET before[q]
    BY <1>3 DEF Orders
  <2>2. before[p] # before[q]
    BY <1>1, <1>3
  <2>3. /\ Cardinality(before[p]) <= Cardinality(before[q])
        /\ Cardinality(before[p]) # Cardinality(before[q])
    BY <1>2, <2>1, <2>2, FS_Subset
  <2> QED
    BY <1>2, <2>3
<1>4. ASSUME NEW p \in P
      PROVE  Cardinality(before[p]) \in 0..(Cardinality(P) - 1)
  <2>1. before[p] \in SUBSET P /\ before[p] # P
    BY <1>1 DEF Orders
  <2>2. /\ Cardinality(before[p]) <= Cardinality(P)
        /\ Cardinality(before[p]) # Cardinality(P)
    BY <2>1, FS_Subset
  <2>3. Cardinality(P) \in Nat
    BY FS_CardinalityType
  <2> QED
    BY <1>2, <2>2, <2>3
<1>5. ASSUME NEW p \in P, NEW q \in P, p # q
      PROVE  Cardinality(before[p]) # Cardinality(before[q])
  <2>1. CASE p \in before[q]
    BY <1>2, <1>3, <2>1
  <2>2. CASE q \in before[p]
    BY <1>2, <1>3, <2>2
  <2> QED
    BY <1>5, <2>1, <2>2 DEF Orders
<1> QED
  BY <1>4, <1>5

\* As many elements have a rank of k or more as there are beyond the first k.
LEMMA RanksCount ==
    ASSUME NEW P, IsFiniteSet(P), NEW before, Orders(before, P),
           NEW k \in 0..Cardinality(P)
    PROVE  /\ Cardinality(Beyond(k, before, P)) = Cardinality(P) - k
           /\ Cardinality(P \ Beyond(k, before, P)) = k
<1> DEFINE high == Beyond(k, before, P)
           low  == P \ high
           n    == Cardinality(P)
<1>1. n \in Nat /\ k \in Nat /\ k <= n
  BY FS_CardinalityType
<1>2. /\ IsFiniteSet(high) /\ IsFiniteSet(low)
      /\ Cardinality(high) \in Nat /\ Cardinality(low) \in Nat
  <2>1. high \in SUBSET P /\ low \in SUBSET P
    BY DEF Beyond
  <2>2. IsFiniteSet(high) /\ IsFiniteSet(low)
    BY <2>1, FS_Subset
  <2> QED
    BY <2>2, FS_CardinalityType
<1>3. Cardinality(high) <= n - k
  <2>1. [p \in high |-> Cardinality(before[p])] \in Injection(high, k..(n - 1))
    <3>1. \A p \in high : Cardinality(before[p]) \in k..(n - 1)
      BY <1>1, RanksDiffer DEF Beyond
    <3>2. \A p, q \in high : Cardinality(before[p]) = Cardinality(before[q]) => p = q
      BY RanksDiffer DEF Beyond
    <3> QED
      BY <3>1, <3>2 DEF Injection, IsInjective
  <2>2. IsFiniteSet(k..(n - 1)) /\ Cardinality(k..(n - 1)) = n - k
    <3> HIDE DEF n
    <3>1. k \in Int /\ n - 1 \in Int
      BY <1>1
    <3>2. /\ IsFiniteSet(k..(n - 1))
          /\ Cardinality(k..(n - 1)) = IF k > n - 1 THEN 0 ELSE n - 1 - k + 1
      BY <3>1, FS_Interval, Zenon
    <3> QED
      BY <1>1, <3>2
  <2> QED
    BY <2>1, <2>2, FS_Injection
<1>4. Cardinality(low) <= k
  <2>1. [p \in low |-> Cardinality(before[p])] \in Injection(low, 0..(k - 1))
    <3>1. \A p \in low : Cardinality(before[p]) \in 0..(k - 1)
      BY <1>1, RanksDiffer DEF Beyond
    <3>2. \A p, q \in low : Cardinality(before[p]) = Cardinality(before[q]) => p = q
      BY RanksDiffer DEF Beyond
    <3> QED
      BY <3>1, <3>2 DEF Injection, IsInjective
  <2>2. IsFiniteSet(0..(k - 1)) /\ Cardinality(0..(k - 1)) = k
    <3>1. 0 \in Int /\ k - 1 \in Int
      BY <1>1
    <3>2. /\ IsFiniteSet(0..(k - 1))
          /\ Cardinality(0..(k - 1)) = IF 0 > k - 1 THEN 0 ELSE k - 1 - 0 + 1
      BY <3>1, FS_Interval, Zenon
    <3> QED
      BY <1>1, <3>2
  <2> QED
    BY <2>1, <2>2, FS_Injection
<1>5. Cardinality(low) = n - Cardinality(high)
  <2>1. Cardinality(low) = n - Cardinality(P \cap high)
    BY FS_Difference
  <2>2. P \cap high = high
    BY DEF Beyond
  <2> QED
    BY <2>1, <2>2
<1> HIDE DEF high, low, n
<1>6. Cardinality(high) = n - k /\ Cardinality(low) = k
  BY <1>1, <1>2, <1>3, <1>4, <1>5
<1> QED
  BY <1>6 DEF high, low, n

\* A finite set of numbers that is not empty has a least one, and Min is it.
LEMMA LeastNumber ==
    ASSUME NEW S \in SUBSET Nat, IsFiniteSet(S), S # {}
    PROVE  Min(S) \in S /\ \A y \in S : Min(S) <= y
<1> DEFINE before == [p \in S |-> {q \in S : q < p}]
<1>1. Orders(before, S)
  <2>1. \A p, q \in S : p \in Nat /\ q \in Nat /\ (p \in before[q] <=> p < q)
    OBVIOUS
  <2>2. before \in [S -> SUBSET S]
    OBVIOUS
  <2> HIDE DEF before
  <2>3. \A p, q \in S : p # q => p \in before[q] \/ q \in before[p]
    BY <2>1
  <2>4. ASSUME NEW p \in S, NEW q \in S, p \in before[q]
        PROVE  before[p] \subseteq before[q] /\ p \notin before[p]
    <3>1. p < q
      BY <2>1, <2>4
    <3>2. ASSUME NEW r \in before[p]
          PROVE  r \in before[q]
      <4>1. r \in S
        BY <2>2
      <4> QED
        BY <2>1, <3>1, <3>2, <4>1
    <3> QED
      BY <2>1, <3>2
  <2> QED
    BY <2>2, <2>3, <2>4 DEF Orders
<1>2. Cardinality(S) \in Nat /\ Cardinality(S) # 0
  BY FS_CardinalityType, FS_EmptySet
<1>3. \E x \in S : \A y \in S : x <= y
  <2>1. Cardinality(Beyond(1, before, S)) = Cardinality(S) - 1
    <3> HIDE DEF before
    <3>1. 1 \in 0..Cardinality(S)
      BY <1>2
    <3> QED
      <4>1. /\ Cardinality(Beyond(1, before, S)) = Cardinality(S) - 1
            /\ Cardinality(S \ Beyond(1, before, S)) = 1
        BY <1>1, <3>1, RanksCount
      <4> QED
        BY <4>1
  <2>2. PICK x \in S : ~ (Cardinality(before[x]) >= 1)
    <3>1. Beyond(1, before, S) # S
      BY <1>2, <2>1
    <3> QED
      BY <3>1 DEF Beyond
  <2>3. IsFiniteSet(before[x])
    BY FS_Subset
  <2>4. Cardinality(before[x]) = 0
    BY <2>2, <2>3, FS_CardinalityType
  <2>5. before[x] = {}
    BY <2>3, <2>4, FS_EmptySet
  <2> QED
    BY <2>5
<1> QED
  BY <1>3 DEF Min
-----------------------------------------------------------------------------
(* Functions defined by recursion.                                         *)

\* Induction: a set that has 0, and the next of each of its numbers, has
\* every number.
LEMMA NatSets ==
    ASSUME NEW S, 0 \in S, \A k \in Nat : k \in S => k + 1 \in S
    PROVE  \A n \in Nat : n \in S
<1> SUFFICES ASSUME NEW n \in Nat, n \notin S PROVE FALSE
  OBVIOUS
<1> DEFINE T == {m \in 0..n : m \notin S}
<1>1. T \in SUBSET Nat /\ n \in T
  OBVIOUS
<1>2. IsFiniteSet(T)
  <2>1. IsFiniteSet(0..n)
    BY FS_Interval
  <2> QED
    BY <2>1, FS_Subset
<1>3. PICK l : l = Min(T)
  OBVIOUS
<1>4. l \in T /\ \A y \in T : l <= y
  BY <1>1, <1>2, <1>3, LeastNumber
<1>5. l \in 1..n /\ l \notin S
  BY <1>4
<1>6. l - 1 \in 0..n /\ l - 1 \notin T
  BY <1>4, <1>5
<1>7. l - 1 \in S /\ l - 1 \in Nat
  BY <1>6
<1> QED
  BY <1>5, <1>7

\* The function begins with "base" and goes on by "step".
Iterates(f, X, base, step, n) ==
    /\ f \in [0..n -> X]
    /\ f[0] = base
    /\ \A k \in 1..n : f[k] = step[k][f[k - 1]]

\* There is such a function.
LEMMA RecursionOn ==
    ASSUME NEW X, NEW base \in X, NEW n \in Nat, NEW step \in [1..n -> [X -> X]]
    PROVE  \E f : Iterates(f, X, base, step, n)
<1> DEFINE S == {m \in Nat : m <= n => \E f \in [0..m -> X] :
                                f[0] = base /\ \A k \in 1..m : f[k] = step[k][f[k - 1]]}
<1>1. 0 \in S
  <2>1. [k \in 0..0 |-> base] \in [0..0 -> X] /\ [k \in 0..0 |-> base][0] = base
    OBVIOUS
  <2>2. 1..0 = {}
    OBVIOUS
  <2> QED
    BY <2>1, <2>2
<1>2. ASSUME NEW m \in Nat, m \in S
      PROVE  m + 1 \in S
  <2> SUFFICES ASSUME m + 1 <= n
               PROVE  \E f \in [0..m + 1 -> X] :
                         f[0] = base /\ \A k \in 1..m + 1 : f[k] = step[k][f[k - 1]]
    OBVIOUS
  <2>1. PICK f \in [0..m -> X] : f[0] = base /\ \A k \in 1..m : f[k] = step[k][f[k - 1]]
    BY <1>2
  <2> DEFINE g == [k \in 0..m + 1 |-> IF k <= m THEN f[k] ELSE step[k][f[m]]]
  <2>2. step[m + 1] \in [X -> X] /\ f[m] \in X
    BY <2>1
  <2>3. g \in [0..m + 1 -> X]
    BY <2>1, <2>2
  <2>4. g[0] = base
    BY <2>1
  <2>5. ASSUME NEW k \in 1..m + 1
        PROVE  g[k] = step[k][g[k - 1]]
    BY <2>1, <2>5
  <2> QED
    BY <2>3, <2>4, <2>5
<1> HIDE DEF S
<1>3. n \in S
  BY <1>1, <1>2, NatSets
<1>4. \E f \in [0..n -> X] : f[0] = base /\ \A k \in 1..n : f[k] = step[k][f[k - 1]]
  BY <1>3 DEF S
<1> QED
  BY <1>4 DEF Iterates

\* The elements of the sequences of "s", taken together one sequence after
\* the other.
Joins(f, s, U) ==
    /\ f \in [0..Len(s) -> Seq(U)]
    /\ f[0] = << >>
    /\ \A k \in 1..Len(s) : f[k] = f[k - 1] \o s[k]

\* They can be taken together.
LEMMA JoinsExists ==
    ASSUME NEW U, NEW s \in Seq(Seq(U))
    PROVE  \E f : Joins(f, s, U)
<1>1. PICK n \in Nat : n = Len(s)
  OBVIOUS
<1>2. \A k \in 1..n : s[k] \in Seq(U)
  BY <1>1
<1> DEFINE step == [k \in 1..n |-> [v \in Seq(U) |-> v \o s[k]]]
<1>3. /\ << >> \in Seq(U)
      /\ step \in [1..n -> [Seq(U) -> Seq(U)]]
  BY <1>2
<1>4. \A k \in 1..n : \A v \in Seq(U) : step[k][v] = v \o s[k]
  OBVIOUS
<1> HIDE DEF step
<1>5. PICK f \in [0..n -> Seq(U)] :
          f[0] = << >> /\ \A k \in 1..n : f[k] = step[k][f[k - 1]]
  <2>1. PICK X, base : X = Seq(U) /\ base = << >>
    OBVIOUS
  <2>2. base \in X /\ step \in [1..n -> [X -> X]]
    BY <1>3, <2>1
  <2>3. PICK f : Iterates(f, X, base, step, n)
    BY <2>2, RecursionOn
  <2> QED
    BY <2>1, <2>3 DEF Iterates
<1>6. \A k \in 1..n : f[k - 1] \in Seq(U)
  <2>1. \A k \in 1..n : k - 1 \in 0..n
    OBVIOUS
  <2> QED
    BY <2>1
<1>7. \A k \in 1..n : f[k] = f[k - 1] \o s[k]
  BY <1>4, <1>5, <1>6
<1> QED
  BY <1>1, <1>5, <1>7 DEF Joins

\* FlattenSeq takes them together.
LEMMA FlattenJoins ==
    ASSUME NEW U, NEW s \in Seq(Seq(U)), NEW f, Joins(f, s, U)
    PROVE  FlattenSeq(s) = f[Len(s)]
<1>1. PICK n \in Nat : n = Len(s)
  OBVIOUS
<1>2. /\ \A k \in 1..n : s[k] \in Seq(U)
      /\ \A k \in 0..n : f[k] \in Seq(U)
      /\ f[0] = << >>
      /\ \A k \in 1..n : f[k] = f[k - 1] \o s[k]
  <2>1. \A k \in 1..n : s[k] \in Seq(U)
    BY <1>1
  <2>2. /\ f \in [0..n -> Seq(U)]
        /\ f[0] = << >>
        /\ \A k \in 1..n : f[k] = f[k - 1] \o s[k]
    BY <1>1, Zenon DEF Joins
  <2>3. \A k \in 0..n : f[k] \in Seq(U)
    BY <2>2
  <2> QED
    BY <2>1, <2>2, <2>3
<1>3. CASE n = 0
  <2>1. s = << >>
    BY <1>1, <1>3, EmptySeq
  <2> QED
    BY <1>1, <1>2, <1>3, <2>1 DEF FlattenSeq
<1>4. CASE n # 0
  <2> DEFINE F == CHOOSE g : g = [i \in 1..n |-> IF i = 1 THEN s[i] ELSE g[i - 1] \o s[i]]
  <2>1. FlattenSeq(s) = F[n]
    BY <1>1, <1>4 DEF FlattenSeq
  <2> DEFINE h == [i \in 1..n |-> f[i]]
  <2>2. h = [i \in 1..n |-> IF i = 1 THEN s[i] ELSE h[i - 1] \o s[i]]
    <3>1. ASSUME NEW i \in 1..n
          PROVE  f[i] = IF i = 1 THEN s[i] ELSE h[i - 1] \o s[i]
      <4>1. CASE i = 1
        <5>1. f[i] = f[i - 1] \o s[i] /\ s[i] \in Seq(U)
          BY <1>2
        <5>2. i - 1 = 0
          BY <4>1
        <5>3. << >> \o s[i] = s[i]
          BY <5>1
        <5> QED
          BY <1>2, <4>1, <5>1, <5>2, <5>3
      <4>2. CASE i # 1
        <5>1. f[i] = f[i - 1] \o s[i]
          BY <1>2
        <5>2. i - 1 \in 1..n
          BY <4>2
        <5> QED
          BY <4>2, <5>1, <5>2
      <4> QED
        BY <4>1, <4>2
    <3> QED
      BY <3>1
  <2> HIDE DEF h
  <2>3. \E g : g = [i \in 1..n |-> IF i = 1 THEN s[i] ELSE g[i - 1] \o s[i]]
    BY <2>2
  <2>4. F = [i \in 1..n |-> IF i = 1 THEN s[i] ELSE F[i - 1] \o s[i]]
    BY <2>3
  <2> HIDE DEF F
  <2> DEFINE S == {i \in Nat : i \in 1..n => F[i] = f[i]}
  <2>5. 0 \in S
    OBVIOUS
  <2>6. ASSUME NEW i \in Nat, i \in S
        PROVE  i + 1 \in S
    <3> SUFFICES ASSUME i + 1 \in 1..n PROVE F[i + 1] = f[i + 1]
      OBVIOUS
    <3>1. PICK k \in 1..n : k = i + 1
      OBVIOUS
    <3>2. k - 1 = i
      BY <3>1
    <3>3. F[k] = IF k = 1 THEN s[k] ELSE F[k - 1] \o s[k]
      BY <2>4
    <3>4. f[k] = IF k = 1 THEN s[k] ELSE h[k - 1] \o s[k]
      BY <2>2 DEF h
    <3>5. CASE k = 1
      BY <3>1, <3>3, <3>4, <3>5
    <3>6. CASE k # 1
      <4>1. i \in 1..n
        BY <3>1, <3>6
      <4>2. F[i] = f[i] /\ h[i] = f[i]
        BY <2>6, <4>1 DEF h
      <4> QED
        BY <3>1, <3>2, <3>3, <3>4, <3>6, <4>2
    <3> QED
      BY <3>5, <3>6
  <2> HIDE DEF S
  <2>7. n \in S
    BY <2>5, <2>6, NatSets
  <2>8. F[n] = f[n]
    BY <1>4, <2>7 DEF S
  <2> QED
    BY <1>1, <2>1, <2>8
<1> QED
  BY <1>3, <1>4
\* FlattenSeq of what is written one after the other is what FlattenSeq
\* gives of each, one after the other.
LEMMA FlattenConcat ==
    ASSUME NEW U, NEW s \in Seq(Seq(U)), NEW t \in Seq(Seq(U))
    PROVE  /\ FlattenSeq(s \o t) = FlattenSeq(s) \o FlattenSeq(t)
           /\ FlattenSeq(s) \in Seq(U)
           /\ FlattenSeq(t) \in Seq(U)
<1>1. PICK f : Joins(f, s, U)
  BY JoinsExists
<1>2. PICK g : Joins(g, t, U)
  BY JoinsExists
<1>3. PICK m \in Nat, n \in Nat : m = Len(s) /\ n = Len(t)
  OBVIOUS
<1>4. /\ f \in [0..m -> Seq(U)]
      /\ f[0] = << >>
      /\ \A k \in 1..m : f[k] = f[k - 1] \o s[k]
  BY <1>1, <1>3, Zenon DEF Joins
<1>5. /\ g \in [0..n -> Seq(U)]
      /\ g[0] = << >>
      /\ \A k \in 1..n : g[k] = g[k - 1] \o t[k]
  BY <1>2, <1>3, Zenon DEF Joins
<1>6. PICK r : r = s \o t
  OBVIOUS
<1>7. /\ r \in Seq(Seq(U))
      /\ Len(r) = m + n
      /\ \A k \in 1..m : r[k] = s[k]
      /\ \A k \in 1..n : r[m + k] = t[k]
      /\ \A k \in 1..n : t[k] \in Seq(U)
  <2>1. PICK T : T = Seq(U)
    OBVIOUS
  <2>2. s \in Seq(T) /\ t \in Seq(T)
    BY <2>1
  <2> QED
    BY <1>3, <1>6, <2>1, <2>2
<1>8. /\ \A k \in 0..m : f[k] \in Seq(U)
      /\ \A k \in 0..n : g[k] \in Seq(U)
  BY <1>4, <1>5
<1> DEFINE h == [k \in 0..m + n |-> IF k <= m THEN f[k] ELSE f[m] \o g[k - m]]
<1>9. \A k \in 0..m : h[k] = f[k]
  OBVIOUS
<1>10. \A i \in 0..m + n, k \in 0..n : i = m + k => h[i] = f[m] \o g[k]
  <2>1. SUFFICES ASSUME NEW i \in 0..m + n, NEW k \in 0..n, i = m + k
                 PROVE  h[i] = f[m] \o g[k]
    OBVIOUS
  <2>2. h[i] = IF i <= m THEN f[i] ELSE f[m] \o g[i - m]
    OBVIOUS
  <2> HIDE DEF h
  <2>3. CASE k = 0
    <3>1. i = m /\ i <= m
      BY <2>1, <2>3
    <3>2. f[m] \o << >> = f[m]
      BY <1>8
    <3> QED
      BY <1>5, <2>2, <2>3, <3>1, <3>2
  <2>4. CASE k # 0
    <3>1. ~ (i <= m) /\ i - m = k
      BY <2>1, <2>4
    <3> QED
      BY <2>2, <3>1
  <2> QED
    BY <2>3, <2>4
<1>11. h \in [0..m + n -> Seq(U)]
  <2>1. ASSUME NEW k \in 0..m + n
        PROVE  h[k] \in Seq(U)
    <3>1. CASE k \in 0..m
      BY <1>8, <1>9, <3>1
    <3>2. CASE k \notin 0..m
      <4>1. PICK l \in 0..n : k = m + l
        <5>1. k - m \in 0..n /\ k = m + (k - m)
          BY <3>2
        <5> QED
          BY <5>1
      <4> HIDE DEF h
      <4>2. h[k] = f[m] \o g[l]
        BY <1>10, <4>1
      <4>3. g[l] \in Seq(U) /\ f[m] \in Seq(U)
        BY <1>8
      <4> QED
        BY <4>2, <4>3
    <3> QED
      BY <3>1, <3>2
  <2> QED
    BY <2>1
<1> HIDE DEF h
<1>12. \A k \in 1..m + n : h[k] = h[k - 1] \o r[k]
  <2>1. TAKE k \in 1..m + n
  <2>2. CASE k \in 1..m
    <3>1. f[k] = f[k - 1] \o s[k] /\ r[k] = s[k]
      BY <1>4, <1>7, <2>2
    <3>2. h[k] = f[k] /\ h[k - 1] = f[k - 1]
      <4>1. k \in 0..m /\ k - 1 \in 0..m
        BY <2>2
      <4> QED
        BY <1>9, <4>1
    <3> QED
      BY <3>1, <3>2
  <2>3. CASE k \notin 1..m
    <3>1. PICK l \in 1..n : k = m + l
      <4>1. k - m \in 1..n /\ k = m + (k - m)
        BY <2>3
      <4> QED
        BY <4>1
    <3>2. l \in 0..n /\ l - 1 \in 0..n /\ k - 1 = m + (l - 1)
      BY <3>1
    <3>3. g[l] = g[l - 1] \o t[l] /\ r[k] = t[l]
      BY <1>5, <1>7, <3>1
    <3>4. h[k] = f[m] \o g[l] /\ h[k - 1] = f[m] \o g[l - 1]
      <4>1. k \in 0..m + n /\ k - 1 \in 0..m + n
        OBVIOUS
      <4>2. h[k] = f[m] \o g[l]
        BY <1>10, <3>1, <3>2, <4>1
      <4>3. h[k - 1] = f[m] \o g[l - 1]
        BY <1>10, <3>2, <4>1
      <4> QED
        BY <4>2, <4>3
    <3>5. PICK a \in Seq(U), b \in Seq(U), c \in Seq(U) : a = f[m] /\ b = g[l - 1] /\ c = t[l]
      <4>1. m \in 0..m
        OBVIOUS
      <4> QED
        BY <1>7, <1>8, <3>2, <4>1
    <3>6. a \o (b \o c) = (a \o b) \o c
      BY ConcatAssociative
    <3> QED
      BY <3>3, <3>4, <3>5, <3>6
  <2> QED
    BY <2>2, <2>3
<1>13. Joins(h, r, U)
  <2>1. h[0] = << >>
    BY <1>4, <1>9
  <2> QED
    BY <1>7, <1>11, <1>12, <2>1 DEF Joins
<1>14. FlattenSeq(r) = h[m + n]
  BY <1>7, <1>13, FlattenJoins
<1>15. FlattenSeq(s) = f[m] /\ FlattenSeq(t) = g[n]
  BY <1>1, <1>2, <1>3, FlattenJoins
<1>16. h[m + n] = f[m] \o g[n] /\ f[m] \in Seq(U) /\ g[n] \in Seq(U)
  <2>1. m + n \in 0..m + n /\ n \in 0..n /\ m \in 0..m
    OBVIOUS
  <2> QED
    BY <1>8, <1>10, <2>1
<1> QED
  BY <1>6, <1>14, <1>15, <1>16

\* FlattenSeq of no sequences.
LEMMA FlattenNone == FlattenSeq(<< >>) = << >>
  BY DEF FlattenSeq

\* FlattenSeq of one sequence.
LEMMA FlattenOne ==
    ASSUME NEW U, NEW x \in Seq(U)
    PROVE  FlattenSeq(<<x>>) = x
<1>1. PICK f : f = [k \in 0..1 |-> IF k = 0 THEN << >> ELSE x]
  OBVIOUS
<1>2. PICK s : s = <<x>>
  OBVIOUS
<1>3. s \in Seq(Seq(U)) /\ Len(s) = 1 /\ s[1] = x
  BY <1>2
<1>4. f[0] = << >> /\ f[1] = x /\ << >> \in Seq(U) /\ << >> \o x = x
  BY <1>1
<1>5. f \in [0..1 -> Seq(U)]
  BY <1>1, <1>4
<1>6. Joins(f, s, U)
  <2>1. ASSUME NEW k \in 1..1
        PROVE  f[k] = f[k - 1] \o s[k]
    <3>1. k = 1 /\ k - 1 = 0
      OBVIOUS
    <3> QED
      BY <1>3, <1>4, <3>1
  <2> QED
    BY <1>3, <1>4, <1>5, <2>1 DEF Joins
<1> QED
  BY <1>2, <1>3, <1>4, <1>6, FlattenJoins
=============================================================================
