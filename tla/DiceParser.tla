----------------------------- MODULE DiceParser -----------------------------
(***************************************************************************)
(* pkg/dice/parser.go and parse_modifiers.go: recursive descent over the   *)
(* tokens.  A parser "p" is what is left of the tokens, the nodes counted, *)
(* the first error, and in "node" what was parsed last; "depth" is the     *)
(* nesting of its caller.                                                  *)
(***************************************************************************)
EXTENDS DiceLexer, DiceTrees

Parser(lexed) ==
    [rest |-> lexed.tokens, nodes |-> 0, error |-> lexed.error, node |-> Literal(0)]

Parsed(p) == p.error = "none"

Fails(p, error) == [p EXCEPT !.error = error]

Yields(p, node) == [p EXCEPT !.node = node]

\* What follows, unless there was an error.
Then(p, Next(_)) == IF Parsed(p) THEN Next(p) ELSE p

Require(p, condition, error) == IF Parsed(p) /\ ~ condition THEN Fails(p, error) ELSE p

Peek(p) == IF p.rest = << >> THEN Token("end", "") ELSE Head(p.rest)

Advance(p) == [p EXCEPT !.rest = Tail(@)]

AtOp(p, ops) == Peek(p).kind = "op" /\ Peek(p).text \in ops

\* Past a token of the kind, which must be there.
Past(p, kind) == Then(Require(p, Peek(p).kind = kind, "syntax"), Advance)

Expect(p, op) == Then(Require(p, AtOp(p, {op}), "syntax"), Advance)

AddNode(p) == Require([p EXCEPT !.nodes = @ + 1], p.nodes + 1 <= MaxNodes, "too_large")

Deeper(p, depth) == Require(p, depth + 1 <= MaxNodes, "too_large")

OptionalLabel(p) == IF Parsed(p) /\ Peek(p).kind = "label" THEN Advance(p) ELSE p

-----------------------------------------------------------------------------
(* Modifiers.  These yield a modifier in place of a node.                  *)

ParseTarget(p, kind, cmp) ==
    Then(Past(p, "int"), LAMBDA q : Yields(q, Selector(kind, cmp, Number(Peek(p).text))))

\* CMP INT, or, unless a comparison is required, INT.
ParseSelector(p, kind, cmpRequired) ==
    IF Peek(p).kind = "cmp" THEN ParseTarget(Advance(p), kind, Peek(p).text)
    ELSE Then(Require(p, ~ cmpRequired, "syntax"), LAMBDA q : ParseTarget(q, kind, "="))

StartsKeepDrop(p) == Peek(p).kind = "mod" /\ Peek(p).text \in {"k", "p", "dh", "dl"}

\* A keep/drop may not exceed the dice it applies to, or the items.
ParseCount(p, kind, n) ==
    Then(Past(p, "int"),
         LAMBDA q : Require(Yields(q, KeepDrop(kind, Number(Peek(p).text))),
                            Number(Peek(p).text) \in 1..n, "keep_count"))

\* At k, p, dh or dl.
ParseKeepDrop(p, n) ==
    CASE Peek(p).text = "dh" -> ParseCount(Advance(p), "ph", n)
      [] Peek(p).text = "dl" -> ParseCount(Advance(p), "pl", n)
      [] OTHER ->
            Then(Advance(p),
                 LAMBDA q : Then(Require(Past(q, "mod"), Peek(q).text \in {"h", "l"}, "syntax"),
                                 LAMBDA r : ParseCount(r, Peek(p).text \o Peek(q).text, n)))

ParseExplode(p) ==
    IF Peek(p).kind = "cmp" THEN ParseSelector(p, "e", TRUE)
    ELSE Yields(p, Selector("e", "max", 0))

ParseModifier(p, term) ==
    CASE StartsKeepDrop(p) -> ParseKeepDrop(p, term.count)
      [] Peek(p).text \in {"r", "rr"} -> ParseSelector(Advance(p), "rr", FALSE)
      [] Peek(p).text = "ro" -> ParseSelector(Advance(p), "ro", FALSE)
      [] Peek(p).text \in {"e", "!"} -> ParseExplode(Advance(p))
      [] OTHER -> Fails(p, "syntax")

\* The modifier p has yielded becomes the term's last.
Modify(p, term) ==
    Then(p, LAMBDA q : Yields(AddNode(q), [term EXCEPT !.mods = Append(@, q.node)]))

RECURSIVE ParseDiceMods(_)

\* Modifiers in written order; a comparison counts successes and comes last.
ParseDiceMods(p) ==
    CASE ~ Parsed(p) -> p
      [] Peek(p) = Token("dice", "d") -> Fails(p, "syntax")
      [] Peek(p).kind = "cmp" -> Modify(ParseSelector(p, "cs", TRUE), p.node)
      [] Peek(p).kind = "mod" -> ParseDiceMods(Modify(ParseModifier(p, p.node), p.node))
      [] OTHER -> p

\* A term whose dice are known, its sides still to be checked.
ParseTerm(p, count, sides, fudge) ==
    Then(Require(Require(p, sides > 0, "syntax"), fudge \/ sides <= MaxSides, "too_many_sides"),
         LAMBDA q : OptionalLabel(ParseDiceMods(
                        Yields(AddNode(q), DiceTerm(count, sides, fudge)))))

\* At d, d% or dF, its count already known.
ParseDice(p, count) ==
    CASE count <= 0 -> Fails(p, "syntax")
      [] count > MaxDice -> Fails(p, "too_many_dice")
      [] Peek(p).text = "d%" -> ParseTerm(Advance(p), count, 100, FALSE)
      [] Peek(p).text = "dF" -> ParseTerm(Advance(p), count, 3, TRUE)
      [] OTHER ->
            Then(Advance(p),
                 LAMBDA q : Then(Past(q, "int"),
                                 LAMBDA r : ParseTerm(r, count, Number(Peek(q).text), FALSE)))

\* The expression p has yielded, in parentheses, and a keep/drop.
ParseGroupKeep(p) ==
    Then(Require(p, StartsKeepDrop(p) /\ ContainsDice(p.node), "syntax"),
         LAMBDA q : Then(ParseKeepDrop(q, Len(Addends(p.node))),
                         LAMBDA r : OptionalLabel(
                                        Yields(AddNode(r), GroupKeep(Addends(p.node), r.node)))))

-----------------------------------------------------------------------------
(* Expressions.                                                            *)

Additive == {"+", "-"}

Multiplicative == {"*", "/"}

RECURSIVE ParseExpr(_, _), ParseChain(_, _, _), ParseUnary(_, _), ParseArgs(_, _, _)

\* "n" arguments, from the opening parenthesis or comma before the first.
ParseArgs(p, n, depth) ==
    Then(ParseExpr(Advance(p), depth),
         LAMBDA q : IF n = 1 THEN Yields(Expect(q, ")"), <<q.node>>)
                    ELSE Then(Require(q, AtOp(q, {","}), "syntax"),
                              LAMBDA r : Then(ParseArgs(r, n - 1, depth),
                                              LAMBDA t : Yields(t, <<q.node>> \o t.node))))

Arity(name) == IF name \in {"min", "max"} THEN 2 ELSE 1

\* Past the function's name.
ParseFunc(p, name, depth) ==
    Then(AddNode(Require(p, AtOp(p, {"("}), "syntax")),
         LAMBDA q : Then(ParseArgs(q, Arity(name), depth),
                         LAMBDA r : Yields(r, Call(name, r.node))))

ParseParenthesised(p, depth) ==
    Then(ParseExpr(Advance(p), depth),
         LAMBDA q : Then(Expect(q, ")"),
                         LAMBDA r : IF Peek(r).kind = "mod" THEN ParseGroupKeep(r) ELSE r))

\* An integer counts the dice that follow it.
ParseInt(p, n) ==
    IF Peek(p).kind = "dice" THEN ParseDice(p, n) ELSE Yields(AddNode(p), Literal(n))

ParsePrimary(p, depth) ==
    CASE Peek(p).kind = "int" -> ParseInt(Advance(p), Number(Peek(p).text))
      [] Peek(p).kind = "dice" -> ParseDice(p, 1)
      [] Peek(p).kind = "ident" ->
            OptionalLabel(Yields(AddNode(Advance(p)), Variable(Peek(p).text)))
      [] Peek(p).kind = "func" -> ParseFunc(Advance(p), Peek(p).text, depth)
      [] AtOp(p, {"("}) -> ParseParenthesised(p, depth)
      [] OTHER -> Fails(p, "syntax")

ParseUnary(p, depth) ==
    IF ~ AtOp(p, Additive) THEN ParsePrimary(p, depth)
    ELSE Then(Deeper(p, depth),
              LAMBDA q : Then(ParseUnary(Advance(q), depth + 1),
                              LAMBDA r : IF Peek(p).text = "+" THEN r
                                         ELSE Yields(AddNode(r), Negation(r.node))))

\* What the operators "ops" stand between: terms of a sum, or unaries.
ParseOperand(p, ops, depth) ==
    ParseChain(ParseUnary(p, depth), IF ops = Additive THEN Multiplicative ELSE {}, depth)

\* parseExpr and parseTerm after their first operand: operators associate to
\* the left.
ParseChain(p, ops, depth) ==
    IF ~ Parsed(p) \/ ~ AtOp(p, ops) THEN p
    ELSE Then(ParseOperand(Advance(p), ops, depth),
              LAMBDA q : ParseChain(Yields(AddNode(q), Binary(Peek(p).text, p.node, q.node)),
                                    ops, depth))

ParseExpr(p, depth) ==
    Then(Deeper(p, depth),
         LAMBDA q : ParseChain(ParseOperand(q, Additive, depth + 1), Additive, depth + 1))

\* ParseWithLimits: an error, or in "node" the expression.
Parse(text) ==
    Then(Parser(Lex(text)),
         LAMBDA p : Then(ParseExpr(p, 0), LAMBDA q : Require(q, q.rest = << >>, "syntax")))
=============================================================================
