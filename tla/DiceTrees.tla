----------------------------- MODULE DiceTrees -----------------------------
(***************************************************************************)
(* What the parser and the evaluator compute by walking an expression: the *)
(* addends of a sum, the order of evaluation, the sum a grouped keep       *)
(* stands for.                                                             *)
(***************************************************************************)
EXTENDS DiceFormula

RECURSIVE Addends(_), ContainsDice(_), Postorder(_), Summed(_)

\* splitSum: the addends of a sum, whatever parentheses it was written with.
Addends(n) ==
    IF n.kind = "binary" /\ n.op = "+" THEN Addends(n.parts[1]) \o Addends(n.parts[2])
    ELSE <<n>>

ContainsDice(n) == n.kind = "dice" \/ \E k \in DOMAIN n.parts : ContainsDice(n.parts[k])

\* The order in which eval completes the nodes.
Postorder(n) ==
    Append(FlattenSeq([k \in DOMAIN n.parts |-> Postorder(n.parts[k])]), n)

\* sumItems: a grouped keep stands for its items added from the left.
Summed(n) ==
    LET parts == [k \in DOMAIN n.parts |-> Summed(n.parts[k])]
    IN  IF n.kind = "keep"
        THEN FoldLeft(LAMBDA sum, item : Binary("+", sum, item), Head(parts), Tail(parts))
        ELSE [n EXCEPT !.parts = parts]
=============================================================================
