----------------------------- MODULE DiceArith -----------------------------
(***************************************************************************)
(* The evaluation of one chain of operators (pkg/dice/eval.go) with the    *)
(* checked arithmetic of DiceWords.                                        *)
(***************************************************************************)
EXTENDS DiceLemmas

VARIABLES
    result,   \* what has been evaluated so far
    exact     \* history: the same over the integers

vars == <<result, exact>>

TypeOK == result \in Outcome /\ exact \in Int

Init == \E v \in Word : result = Ok(v) /\ exact = v

\* A Roll starts with a literal, a variable or a die.
Roll == \E v \in Word : result' = Ok(v) /\ exact' = v

Apply(outcome, ideal) ==
    /\ result.status = "ok"
    /\ result' = outcome
    /\ exact' = ideal

Plus == \E b \in Word : Apply(Add(result.value, b), exact + b)

Minus == \E b \in Word : Apply(Sub(result.value, b), exact - b)

Times == \E b \in Word : Apply(Mul(result.value, b), exact * b)

Over == \E b \in Word :
    Apply(Div(result.value, b), IF b = 0 THEN exact ELSE Floor(exact, b))

Negate == Apply(Neg(result.value), -exact)

Next == Roll \/ Plus \/ Minus \/ Times \/ Over \/ Negate

Spec == Init /\ [][Next]_vars

(***************************************************************************)
(* "Integer overflow is never silent" (doc.go), and never cried without    *)
(* cause: a chain of operators yields the integer it denotes, with         *)
(* division rounding down, or reports an overflow of a value that no int   *)
(* can hold.                                                               *)
(***************************************************************************)
ExactOrRefused ==
    /\ result.status = "ok" => result.value = exact
    /\ result.status = "overflow" => exact \notin Word

-----------------------------------------------------------------------------
(* The theorems.                                                           *)

\* The invariant: while the chain is evaluated, it is exact.
Inv == TypeOK /\ ExactOrRefused

\* Every step keeps it: each operator is exact where its operands are.
LEMMA StepExact == ASSUME Inv, [Next]_vars PROVE Inv'
<1>1. ASSUME NEW v \in Word, result' = Ok(v), exact' = v PROVE Inv'
  BY <1>1, Words DEF Inv, TypeOK, ExactOrRefused, Outcome, Ok
<1>2. ASSUME NEW ideal \in Int, result' = Checked(ideal), exact' = ideal PROVE Inv'
  BY <1>2 DEF Inv, TypeOK, ExactOrRefused, Outcome, Checked, Ok, Failed
<1>3. ASSUME result.status = "ok"
      PROVE  result.value \in Word /\ result.value = exact /\ exact \in Int
  BY <1>3, Words DEF Inv, TypeOK, ExactOrRefused, Outcome, Ok, Failed
<1>4. CASE Roll
  BY <1>1, <1>4 DEF Roll
<1>5. CASE Plus
  <2>1. PICK b \in Word : Apply(Add(result.value, b), exact + b)
    BY <1>5 DEF Plus
  <2> QED BY <1>2, <1>3, <2>1, AddExact, Words DEF Apply
<1>6. CASE Minus
  <2>1. PICK b \in Word : Apply(Sub(result.value, b), exact - b)
    BY <1>6 DEF Minus
  <2> QED BY <1>2, <1>3, <2>1, SubExact, Words DEF Apply
<1>7. CASE Times
  <2>1. PICK b \in Word : Apply(Mul(result.value, b), exact * b)
    BY <1>7 DEF Times
  <2>2. exact * b \in Int
    BY <1>3, <2>1, Words DEF Apply
  <2> QED BY <1>2, <1>3, <2>1, <2>2, MulExact DEF Apply
<1>8. CASE Over
  <2>1. PICK b \in Word :
            Apply(Div(result.value, b), IF b = 0 THEN exact ELSE Floor(exact, b))
    BY <1>8 DEF Over
  <2>2. CASE b = 0
    BY <1>3, <2>1, <2>2 DEF Apply, Div, Inv, TypeOK, ExactOrRefused, Outcome, Failed
  <2>3. CASE b # 0
    BY <1>2, <1>3, <2>1, <2>3, DivExact DEF Apply
  <2> QED BY <2>2, <2>3
<1>9. CASE Negate
  BY <1>2, <1>3, <1>9, NegExact DEF Negate, Apply
<1>10. CASE UNCHANGED vars
  BY <1>10 DEF vars, Inv, TypeOK, ExactOrRefused
<1> QED BY <1>4, <1>5, <1>6, <1>7, <1>8, <1>9, <1>10 DEF Next

(***************************************************************************)
(* For an int of any width, no chain of operators overflows silently, none *)
(* is refused without cause, and division rounds down.                     *)
(***************************************************************************)
THEOREM ArithmeticExact == Spec => []ExactOrRefused
<1>1. Init => Inv
  BY Words DEF Init, Inv, TypeOK, ExactOrRefused, Outcome, Ok
<1>2. Inv /\ [Next]_vars => Inv'
  BY StepExact
<1>3. Inv => ExactOrRefused
  BY DEF Inv
<1> QED BY <1>1, <1>2, <1>3, PTL DEF Spec
=============================================================================
