---------------------------- MODULE DiceFormula ----------------------------
(***************************************************************************)
(* Dice expressions (pkg/dice/ast.go) and the limits they live under       *)
(* (limits.go).  An expression is a tree; every node has its subtrees in   *)
(* "parts".  Labels and positions are left out.                            *)
(***************************************************************************)
EXTENDS DiceWords, Sequences, SequencesExt, FiniteSets, FiniteSetsExt

CONSTANTS
    MaxDice,        \* Limits, as withDefaults completes them
    MaxSides,
    MaxRerolls,
    MaxExplosions,
    MaxNodes

ASSUME LimitsAssumption ==
    {MaxDice, MaxSides, MaxRerolls, MaxExplosions, MaxNodes} \subseteq 1..MaxInt

Literal(v) == [kind |-> "literal", value |-> v, parts |-> << >>]

Variable(name) == [kind |-> "variable", name |-> name, parts |-> << >>]

Negation(n) == [kind |-> "unary", parts |-> <<n>>]

Binary(op, left, right) == [kind |-> "binary", op |-> op, parts |-> <<left, right>>]

Call(name, args) == [kind |-> "call", name |-> name, parts |-> args]

\* A Fudge die has the three faces -1, 0 and 1.
DiceTerm(count, sides, fudge) ==
    [kind |-> "dice", count |-> count, sides |-> sides, fudge |-> fudge,
     mods |-> << >>, parts |-> << >>]

GroupKeep(items, keep) == [kind |-> "keep", keep |-> keep, parts |-> items]

KeepDrop(kind, count) == [kind |-> kind, count |-> count]

\* Explode without a selector compares with the highest face: cmp is "max".
Selector(kind, cmp, target) == [kind |-> kind, cmp |-> cmp, target |-> target]

IsKeepDrop(mod) == mod.kind \in {"kh", "kl", "ph", "pl"}

-----------------------------------------------------------------------------
(* Text.                                                                   *)

Char(s, i) == IF i <= Len(s) THEN SubSeq(s, i, i) ELSE ""

Chars(s) == {Char(s, i) : i \in 1..Len(s)}

\* strconv.Atoi.
Number(text) ==
    LET value[n \in 0..Len(text)] ==
            IF n = 0 THEN 0
            ELSE 10 * value[n - 1] + CHOOSE d \in 0..9 : Char("0123456789", d + 1) = Char(text, n)
    IN  value[Len(text)]

-----------------------------------------------------------------------------
(* Dice.                                                                   *)

Faces(term) == IF term.fudge THEN -1..1 ELSE 1..term.sides

MaxFace(term) == IF term.fudge THEN 1 ELSE term.sides

Compare(v, cmp, target) ==
    CASE cmp = ">" -> v > target
      [] cmp = ">=" -> v >= target
      [] cmp = "<" -> v < target
      [] cmp = "<=" -> v <= target
      [] OTHER -> v = target

Matches(term, mod, v) ==
    Compare(v, mod.cmp, IF mod.cmp = "max" THEN MaxFace(term) ELSE mod.target)
=============================================================================
