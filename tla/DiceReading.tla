---------------------------- MODULE DiceReading ----------------------------
(***************************************************************************)
(* The evaluator of DiceRoll, the parser whose trees it is given, and what *)
(* relates a text to its tree.                                             *)
(***************************************************************************)
EXTENDS DiceRoll, DiceParser, DiceGrammar

(***************************************************************************)
(* Parse accepts the formulas of doc.go's grammar that respect the limits  *)
(* and the keep/drop count rule; it reads them as the grammar does,        *)
(* precedence and association included; and an error it reports is one the *)
(* formula has.  It departs from doc.go in two ways, and in no other:      *)
(*   - it takes a label after a grouped keep, (d2)kh1[a], where "labels    *)
(*     are accepted only on dice terms and on variables";                  *)
(*   - it refuses a grouped keep of more than the items, (2d3+d2)kh3,      *)
(*     where the count may be "at most the number of dice", here three.    *)
(***************************************************************************)
ParsesWithTwoDepartures ==
    [][status = "new" =>
          LET error == IF status' = "rolling" THEN "none" ELSE status'
          IN  \/ ReadsAs(text, error, expr')
              \/ TakesGroupLabel(text, error, expr')
              \/ BoundsByItems(text, error)]_vars
=============================================================================
