----------------------------- MODULE DiceLexer -----------------------------
(***************************************************************************)
(* pkg/dice/lexer.go: a formula's text as tokens.  The longest spelling    *)
(* wins; "!=" is an explosion and its selector within a dice term, and     *)
(* unsupported elsewhere.                                                  *)
(***************************************************************************)
EXTENDS DiceFormula

Digit == Chars("0123456789")

NameChar == Digit \cup Chars("_abcdefghijklmnopqrstuvwxyzABCDEFGHIJKLMNOPQRSTUVWXYZ")

Spellings == [
    dice |-> {"d", "d%", "dF"},
    op   |-> {"+", "-", "*", "/", "(", ")", ","},
    cmp  |-> {"=", "<", ">", "<=", ">="},
    mod  |-> {"k", "p", "h", "l", "e", "!", "r", "rr", "ro", "dh", "dl"},
    func |-> {"min", "max", "floor", "ceil"}]

Unsupported(inDice) ==
    {"//", "==", "!!", "!p", "ra"} \cup (IF inDice THEN {} ELSE {"!="})

Token(kind, text) == [kind |-> kind, text |-> text]

Bad == Token("bad", "")

SpelledAt(s, i, text) == i + Len(text) - 1 <= Len(s) /\ SubSeq(s, i, i + Len(text) - 1) = text

\* How many characters from i on are among "chars".
RunLength(s, i, chars) ==
    Max({n \in 0..(Len(s) - i + 1) : \A k \in i..(i + n - 1) : Char(s, k) \in chars})

Spelled(s, i) ==
    LET fits == {<<kind, text>> \in UNION {{kind} \X Spellings[kind] : kind \in DOMAIN Spellings} :
                    SpelledAt(s, i, text)}
    IN  IF fits = {} THEN Bad
        ELSE LET best == CHOOSE f \in fits : \A g \in fits : Len(f[2]) >= Len(g[2])
             IN  Token(best[1], best[2])

\* The token at i, Bad if there is none.
Lexeme(s, i, inDice) ==
    CASE Char(s, i) \in Digit -> Token("int", SubSeq(s, i, i + RunLength(s, i, Digit) - 1))
      [] Char(s, i) = "@" ->
            LET n == RunLength(s, i + 1, NameChar)
            IN  IF n = 0 THEN Bad ELSE Token("ident", SubSeq(s, i + 1, i + n))
      [] Char(s, i) = "[" ->
            LET ends == {k \in i..Len(s) : Char(s, k) = "]"}
            IN  IF ends = {} THEN Bad ELSE Token("label", SubSeq(s, i, Min(ends)))
      [] \E text \in Unsupported(inDice) : SpelledAt(s, i, text) -> Bad
      [] OTHER -> Spelled(s, i)

Width(token) == IF token.kind = "ident" THEN Len(token.text) + 1 ELSE Len(token.text)

\* Faulty variant: a modifier ends the dice term.
StillInDiceUnmodified(token, inDice) ==
    \/ token.kind = "dice"
    \/ token.kind = "int" /\ inDice

\* Whether the tokens read so far end in a dice term and its modifiers.
StillInDice(token, inDice) ==
    \/ token.kind = "dice"
    \/ token.kind \in {"int", "mod", "cmp"} /\ inDice

RECURSIVE LexFrom(_, _, _, _)
LexFrom(s, i, inDice, tokens) ==
    IF i > Len(s) THEN [error |-> "none", tokens |-> tokens]
    ELSE IF Char(s, i) = " " THEN LexFrom(s, i + 1, inDice, tokens)
    ELSE LET token == Lexeme(s, i, inDice)
         IN  IF token.kind = "bad" THEN [error |-> "syntax", tokens |-> << >>]
             ELSE IF token.kind = "int" /\ Number(token.text) > MaxInt
                  THEN [error |-> "overflow", tokens |-> << >>]
             ELSE LexFrom(s, i + Width(token), StillInDice(token, inDice), Append(tokens, token))

Lex(s) == LexFrom(s, 1, FALSE, << >>)
=============================================================================
