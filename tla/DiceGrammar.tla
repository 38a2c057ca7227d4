---------------------------- MODULE DiceGrammar ----------------------------
(***************************************************************************)
(* What a formula's text means, by the EBNF of pkg/dice/doc.go: the        *)
(* reference for DiceLexer and DiceParser, with which it shares only the   *)
(* nodes of the tree.  A text is derived span by span, shorter spans       *)
(* first; blanks may surround every terminal.  Derivations keep the        *)
(* parentheses and the unary plus that the tree has no node for.           *)
(*                                                                         *)
(* The parser departs from doc.go over grouped keeps, in two ways that are *)
(* set apart here: a label after one is derived as "labelled", which no    *)
(* documented formula has, and a count of more than the items, which the   *)
(* documentation does not forbid, is told by KeepsBeyondItems.             *)
(***************************************************************************)
EXTENDS DiceTrees

Ink(s, i, j) == {k \in i..j : Char(s, k) # " "}

\* A span without the blanks around it.
Trim(s, i, j) ==
    IF Ink(s, i, j) = {} THEN "" ELSE SubSeq(s, Min(Ink(s, i, j)), Max(Ink(s, i, j)))

\* INT: the set of the one value, or empty.
INT(s, i, j) ==
    LET w == Trim(s, i, j)
    IN  IF w # "" /\ Chars(w) \subseteq Chars("0123456789") THEN {Number(w)} ELSE {}

CMP == {"=", "<", ">", "<=", ">="}

\* A comparison and its INT.
Comparisons(s, i, j) ==
    UNION {{<<Trim(s, i, k), n>> : n \in INT(s, k + 1, j)} :
             k \in {k \in i..j : Trim(s, i, k) \in CMP}}

KeepDrops(s, i, j) ==
    UNION {LET w == Trim(s, i, k)
               kinds == CASE w = "dh" -> {"ph"}
                          [] w = "dl" -> {"pl"}
                          [] OTHER -> {a \o b : <<a, b>> \in
                                         {ab \in {"k", "p"} \X {"h", "l"} :
                                            \E m \in i..(k - 1) : /\ Trim(s, i, m) = ab[1]
                                                                  /\ Trim(s, m + 1, k) = ab[2]}}
           IN  {KeepDrop(kind, n) : kind \in kinds, n \in INT(s, k + 1, j)} : k \in i..j}

RerollKind(w) == IF w = "ro" THEN "ro" ELSE "rr"

Rerolls(s, i, j) ==
    UNION {{Selector(RerollKind(Trim(s, i, k)), c[1], c[2]) : c \in Comparisons(s, k + 1, j)}
           \cup {Selector(RerollKind(Trim(s, i, k)), "=", n) : n \in INT(s, k + 1, j)} :
             k \in {k \in i..j : Trim(s, i, k) \in {"rr", "ro", "r"}}}

Explosions(s, i, j) ==
    (IF Trim(s, i, j) \in {"e", "!"} THEN {Selector("e", "max", 0)} ELSE {})
    \cup UNION {{Selector("e", c[1], c[2]) : c \in Comparisons(s, k + 1, j)} :
                  k \in {k \in i..j : Trim(s, i, k) \in {"e", "!"}}}

Modifiers(s, i, j) ==
    IF Char(Trim(s, i, j), 1) \in {"k", "p", "d", "r", "e", "!"}
    THEN KeepDrops(s, i, j) \cup Rerolls(s, i, j) \cup Explosions(s, i, j) ELSE {}

\* [ label ].
LabelOrNothing(s, i, j) ==
    LET w == Trim(s, i, j)
    IN  \/ w = ""
        \/ Char(w, 1) = "[" /\ {k \in 1..Len(w) : Char(w, k) = "]"} = {Len(w)}

RECURSIVE DiceTails(_, _, _)

\* { modifier } [ success ] [ label ].
DiceTails(s, i, j) ==
    (IF LabelOrNothing(s, i, j) THEN {<< >>} ELSE {})
    \cup UNION {{<<Selector("cs", c[1], c[2])>> : c \in Comparisons(s, i, k)} :
                  k \in {k \in i..j : LabelOrNothing(s, k + 1, j)}}
    \cup UNION {{<<m>> \o rest : m \in Modifiers(s, i, k), rest \in DiceTails(s, k + 1, j)} :
                  k \in {k \in i..j : Modifiers(s, i, k) # {}}}

\* "d" INT | "d%" | "dF", from the d on, as sides.  A Fudge die has none here.
Dies(s, d, k) ==
    CASE k > d + 1 /\ Char(s, d + 1) \in {"%", "F"} -> {}
      [] k = d + 1 /\ Char(s, k) = "%" -> {100}
      [] k = d + 1 /\ Char(s, k) = "F" -> {0}
      [] OTHER -> INT(s, d + 1, k)

Dice(s, i, j) ==
    LET Count(d) == INT(s, i, d - 1) \cup (IF Ink(s, i, d - 1) = {} THEN {1} ELSE {})
        ds == {d \in i..j : Char(s, d) = "d" /\ Count(d) # {}}
    IN  UNION {{[(IF die = 0 /\ Char(s, d + 1) = "F" THEN DiceTerm(n, 3, TRUE)
                  ELSE DiceTerm(n, die, FALSE)) EXCEPT !.mods = tail] :
                    n \in Count(d), die \in Dies(s, d, k), tail \in DiceTails(s, k + 1, j)} :
                 <<d, k>> \in {dk \in ds \X (i..j) : dk[1] < dk[2] /\ Dies(s, dk[1], dk[2]) # {}}}

Name(w) ==
    Chars(w) \subseteq
        Chars("_0123456789abcdefghijklmnopqrstuvwxyzABCDEFGHIJKLMNOPQRSTUVWXYZ")

Variables(s, i, j) ==
    UNION {LET w == Trim(s, i, k)
           IN  IF Len(w) > 1 /\ Char(w, 1) = "@" /\ Name(SubSeq(w, 2, Len(w)))
               THEN {Variable(SubSeq(w, 2, Len(w)))} ELSE {} :
             k \in {k \in i..j : LabelOrNothing(s, k + 1, j)
                                   /\ (k = j \/ Char(s, k + 1) \in {" ", "["})}}

-----------------------------------------------------------------------------
(* The nonterminals that nest.  chart[<<i, j>>] has the derivations of     *)
(* each over the characters from i to j.                                   *)

Paren(t) == [kind |-> "paren", parts |-> <<t>>]

Plus(t) == [kind |-> "plus", parts |-> <<t>>]

Labelled(t) == [kind |-> "labelled", parts |-> <<t>>]

Over(chart, symbol, i, j) == IF i > j THEN {} ELSE chart[<<i, j>>][symbol]

Functions(chart, s, i, j) ==
    LET Opens(names) == {k \in i..j : /\ Char(s, k) = "("
                                      /\ Trim(s, i, k - 1) \in names}
        ends == {b \in i..j : Ink(s, b, j) = {b} /\ Char(s, b) = ")"}
        named(k) == Trim(s, i, k - 1)
    IN  UNION {{Call(named(k), <<t>>) : t \in Over(chart, "expr", k + 1, b - 1)} :
                 <<k, b>> \in Opens({"floor", "ceil"}) \X ends}
        \cup UNION {{Call(named(k), <<t, u>>) : t \in Over(chart, "expr", k + 1, m - 1),
                                               u \in Over(chart, "expr", m + 1, b - 1)} :
                 <<k, m, b>> \in {kmb \in Opens({"min", "max"}) \X (i..j) \X ends :
                                    Char(s, kmb[2]) = ","}}

\* "(" expr ")" [ keepdrop ]; and, set apart, one with a label after it.
Groups(chart, s, i, j) ==
    UNION {LET inner == Over(chart, "expr", a + 1, b - 1)
               Kept(k) == {GroupKeep(<<t>>, keep) : t \in inner, keep \in KeepDrops(s, b + 1, k)}
           IN  (IF Ink(s, b + 1, j) = {} THEN {Paren(t) : t \in inner} ELSE {})
               \cup Kept(j)
               \cup UNION {{Labelled(t) : t \in Kept(k)} :
                             k \in {k \in (b + 1)..(j - 1) : /\ Ink(s, k + 1, j) # {}
                                                           /\ LabelOrNothing(s, k + 1, j)}} :
             <<a, b>> \in {ab \in (i..j) \X (i..j) :
                             /\ Char(s, ab[1]) = "(" /\ Char(s, ab[2]) = ")"
                             /\ Ink(s, i, ab[1]) = {ab[1]}}}

Infix(chart, s, i, j, ops, left, right) ==
    UNION {{Binary(Char(s, k), t, u) : t \in Over(chart, left, i, k - 1),
                                    u \in Over(chart, right, k + 1, j)} :
             k \in {k \in i..j : Char(s, k) \in ops}}

Signed(chart, s, i, j) ==
    UNION {LET operands == Over(chart, "unary", k + 1, j)
           IN  {IF Char(s, k) = "-" THEN Negation(t) ELSE Plus(t) : t \in operands} :
             k \in {k \in i..j : Char(s, k) \in {"-", "+"} /\ Ink(s, i, k) = {k}}}

Derive(chart, s, i, j) ==
    LET primary == {Literal(n) : n \in INT(s, i, j)} \cup Dice(s, i, j)
                       \cup Variables(s, i, j) \cup Functions(chart, s, i, j)
                       \cup Groups(chart, s, i, j)
        unary   == Signed(chart, s, i, j) \cup primary
        term    == unary \cup Infix(chart, s, i, j, {"*", "/"}, "term", "unary")
        expr    == term \cup Infix(chart, s, i, j, {"+", "-"}, "expr", "term")
    IN  [unary |-> unary, term |-> term, expr |-> expr]

Longer(chart, s, n) ==
    [span \in {<<i, i + n - 1>> : i \in 1..(Len(s) - n + 1)} |-> Derive(chart, s, span[1], span[2])]
        @@ chart

StackedBang(s) == \E k \in 1..(Len(s) - 1) : SubSeq(s, k, k + 1) \in {"!!", "!p"}

\* The derivations of a text from "expr".
Derivations(s) ==
    IF s = "" \/ StackedBang(s) THEN {}
    ELSE LET chart == FoldLeft(LAMBDA c, n : Longer(c, s, n), << >>, [n \in 1..Len(s) |-> n])
         IN  chart[<<1, Len(s)>>].expr

-----------------------------------------------------------------------------
(* The tree of a derivation, and what may be wrong with it.                *)

RECURSIVE Tree(_), Nodes(_), NodeCount(_), Depth(_), Faults(_)

\* What the tree has no node for.
Unwritten == {"paren", "plus", "labelled"}

Tree(t) ==
    CASE t.kind \in Unwritten -> Tree(t.parts[1])
      [] t.kind = "keep" -> [t EXCEPT !.parts = Addends(Tree(t.parts[1]))]
      [] OTHER -> [t EXCEPT !.parts = [k \in DOMAIN t.parts |-> Tree(t.parts[k])]]

\* A derivation and all that it is made of.
Nodes(t) == {t} \cup UNION {Nodes(t.parts[k]) : k \in DOMAIN t.parts}

NodeCount(t) ==
    (CASE t.kind \in Unwritten -> 0
       [] t.kind = "dice" -> 1 + Len(t.mods)
       [] OTHER -> 1)
    + FoldLeft(LAMBDA n, part : n + NodeCount(part), 0, t.parts)

\* How deep parentheses, arguments and signs nest.
Depth(t) ==
    (IF t.kind \in {"paren", "plus", "keep", "call", "unary"} THEN 1 ELSE 0)
    + Max({0} \cup {Depth(t.parts[k]) : k \in DOMAIN t.parts})

Within(count, n) == count >= 1 /\ count <= n

NumbersIn(t) ==
    CASE t.kind = "literal" -> {t.value}
      [] t.kind = "keep" -> {t.keep.count}
      [] t.kind = "dice" -> {t.count, t.sides}
            \cup {IF IsKeepDrop(t.mods[k]) THEN t.mods[k].count ELSE t.mods[k].target :
                    k \in DOMAIN t.mods}
      [] OTHER -> {}

\* doc.go: "Parse time checks", the keep/drop count rule, and literals.  The
\* dice of a term are counted by a literal; those of a group are not, and a
\* count of more of them is for the roll to refuse.
Faults(t) ==
    UNION {Faults(t.parts[k]) : k \in DOMAIN t.parts}
    \cup (IF \E n \in NumbersIn(t) : n > MaxInt THEN {"overflow"} ELSE {})
    \cup (IF t.kind # "dice" THEN {}
          ELSE (IF t.count < 1 \/ t.sides < 1 THEN {"syntax"} ELSE {})
               \cup (IF t.count > MaxDice THEN {"too_many_dice"} ELSE {})
               \cup (IF t.sides > MaxSides /\ ~ t.fudge THEN {"too_many_sides"} ELSE {})
               \cup (IF \E k \in DOMAIN t.mods : /\ IsKeepDrop(t.mods[k])
                                                 /\ ~ Within(t.mods[k].count, t.count)
                     THEN {"keep_count"} ELSE {}))
    \cup (IF t.kind # "keep" THEN {}
          ELSE (IF ContainsDice(t.parts[1]) THEN {} ELSE {"syntax"})
               \cup (IF t.keep.count < 1 THEN {"keep_count"} ELSE {}))

AllFaults(t) ==
    Faults(t) \cup (IF NodeCount(t) > MaxNodes \/ 1 + Depth(t) > MaxNodes THEN {"too_large"} ELSE {})

HasLabelledGroup(t) == \E u \in Nodes(t) : u.kind = "labelled"

\* A grouped keep of more than the group's items, whatever their dice.
KeepsBeyondItems(t) ==
    \E u \in Nodes(t) : u.kind = "keep" /\ u.keep.count > Len(Addends(Tree(u.parts[1])))

\* The derivations by doc.go's own rules.
Documented(s) == {t \in Derivations(s) : ~ HasLabelledGroup(t)}

\* An outcome of the parser that the documentation allows for the text.
ReadsAs(s, error, node) ==
    LET derived == Documented(s)
        legal   == {t \in derived : AllFaults(t) = {}}
    IN  IF error = "none" THEN \E t \in legal : Tree(t) = node
        ELSE /\ legal = {}
             /\ derived # {} => \E t \in derived : error \in AllFaults(t)

\* It takes a label after a grouped keep, and reads the rest as it should.
TakesGroupLabel(s, error, node) ==
    /\ error = "none"
    /\ \E t \in Derivations(s) :
          HasLabelledGroup(t) /\ ~ KeepsBeyondItems(t) /\ AllFaults(t) = {} /\ Tree(t) = node

\* It refuses a grouped keep for a count of more than the items.
BoundsByItems(s, error) ==
    error = "keep_count" /\ \E t \in Documented(s) : KeepsBeyondItems(t)
=============================================================================
