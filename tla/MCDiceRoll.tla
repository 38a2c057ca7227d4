----------------------------- MODULE MCDiceRoll -----------------------------
(***************************************************************************)
(* Small formulas for DiceRoll, and the parser that reads them.            *)
(***************************************************************************)
EXTENDS DiceReading

Str == [x |-> 2, y |-> -3]

\* Every kind of modifier, alone and one after the other.
Chains ==
    {"", "rr1", "ro<=2", "e", "!kh2", "kl1r<2", "ro1epl1", "ee>=2", "rr<3ro3",
     "dh1kh2kl1", "kl2!>1", "kl2e=3>1", "rr>=1", "e=2r3"}

Terms == {"3d3" \o mods : mods \in Chains} \cup {"-2dF" \o mods : mods \in Chains}

\* Sums, kept as a group or not; groups in groups, products, functions.
Sums ==
    {items \o keep :
        items \in {"(2d3+d2)", "(2d2!+2+1d3>1)", "(-dF+2d3kh1)", "((d2+d3)kl1+d2)",
                   "(d3*@x-d2+d2)", "(6/d2+d3)", "(min(d3,d2)+d2)"},
        keep \in {"", "kh1", "kl1", "ph2", "dl2", "kh3"}}

Others == {"100*d2", "-(d2+d3)dh1/@y", "@z+1", "max(d2,floor(d3))-@x", "1/(d2-1)",
           "((d3+d2)kh1+(d2+1)kl1)kh1", "120+d8+d4+d3", "(1+d2)kh2", "(d2+1) kh1 [a]",
           "((d1)kl1[b]+d2)kh1 + d1[c]", "(d2)kh1[a][b]", "(1+d2)[a]", "(2d1)kh0", "(d1)kh2[a]"}

\* All concatenations of n chunks.
Joined(chunks, n) ==
    LET join[k \in 0..n] ==
            IF k = 0 THEN {""} ELSE {s \o c : s \in join[k - 1], c \in chunks}
    IN  join[n]

Chunks == {"1", "d1", "+", "-", "*", "(", ")", "kh1", "!=", "min(", ",", "@x", "[a]"}

\* What the parser is given; one-sided dice are soon rolled.
Written ==
    UNION {Joined(Chunks, n) : n \in 0..3}
    \cup {"2d1" \o s : s \in Joined({"kh1", "dl3", "!", "=1", ">", "e", "ro2", "r", " ", "[a]"}, 3)}
    \cup {a \o op \o b \o pp \o c : a \in {"1", "-@x", "(1)"}, op \in {"+", "-", "*", "/"},
          b \in {"2", "(d1"}, pp \in {"+", "-", "*", "/"}, c \in {"3", "-3", "d1)kh2"}}
    \cup {"((((((1))))))", "(((((1)))))", "------1", "-----1", "1+1+1+1", "1+1+1", "d1eeeee", "d1eeeeee",
          "0d3", "9d3", "d0", "d9", "2d", "2d%", "999", "min(1)", "ceil(1,2)", "d2d1", "[a]", "@"}

AllTexts == Terms \cup Sums \cup Others \cup Written

BigGroup == {"(3d2+2d2)kh1"}
=============================================================================
