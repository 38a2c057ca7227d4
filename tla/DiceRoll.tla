------------------------------ MODULE DiceRoll ------------------------------
(***************************************************************************)
(* One roll of a formula: pkg/dice's eval.go, roll_dice.go and             *)
(* roll_modifiers.go.  The generator may show any face.                    *)
(*                                                                         *)
(* The nodes of the expression are evaluated in postorder; "results" is    *)
(* the stack of the explanation trees of those whose parent is to come.    *)
(* A dice term takes many steps: its dice are thrown, then its modifiers   *)
(* applied in written order, and rerolls and explosions append the dice    *)
(* they cause to the group, where the same modifier meets them again.  A   *)
(* grouped keep drops dice of the groups its items rolled, and has the     *)
(* items evaluated once more, on the dice as they lie (the replay).        *)
(***************************************************************************)
EXTENDS DiceFormula

CONSTANTS
    Texts,      \* the formulas that are rolled
    Resolver,   \* resolve: the values of the variables it knows
    Reading(_), \* ParseWithLimits: a formula's tree, or its first error
    Order(_),   \* the nodes of a tree, as eval completes them
    SumOf(_)    \* sumItems: the sum a grouped keep stands for

ASSUME ResolverAssumption == \A name \in DOMAIN Resolver : Resolver[name] \in Word

Error == {"syntax", "too_many_dice", "too_many_sides", "keep_count", "too_large",
          "too_many_rerolls", "too_many_explosions", "overflow", "division_by_zero",
          "unknown_variable"}

ASSUME ErrorAssumption == \A t \in Texts : Reading(t).error \in Error \cup {"none"}

\* A node that can be evaluated.
Sound(n) ==
    /\ n.kind = "literal" => n.value \in Word
    /\ n.kind = "unary" => Len(n.parts) = 1
    /\ n.kind = "binary" => n.op \in {"+", "-", "*", "/"} /\ Len(n.parts) = 2
    /\ n.kind = "call" => Len(n.parts) = IF n.name \in {"min", "max"} THEN 2 ELSE 1
    /\ n.kind \in {"literal", "variable", "dice"} => n.parts = << >>
    /\ n.kind = "dice" =>
          /\ n.count \in 1..MaxInt
          /\ n.fudge \/ n.sides \in 1..MaxInt
          /\ n.mods \in Seq(ToSet(n.mods))
          /\ \A k \in DOMAIN n.mods : IsKeepDrop(n.mods[k]) => n.mods[k].count \in Nat
          /\ \A j, k \in DOMAIN n.mods : n.mods[j].kind = "cs" /\ n.mods[k].kind = "cs" => j = k
    /\ n.kind = "keep" => IsKeepDrop(n.keep) /\ n.keep.count \in Nat

Evaluable(order) == order \in Seq(ToSet(order)) /\ \A n \in ToSet(order) : Sound(n)

\* Order completes every node after its parts, and these from the left.
InPostorder(root) ==
    LET nodes == ToSet(Order(root))
    IN  /\ root \in nodes
        /\ \A n \in nodes :
            /\ n.parts \in Seq(nodes)
            /\ Order(n) \in Seq(nodes)
            /\ Order(n) = Append(FlattenSeq([k \in DOMAIN n.parts |-> Order(n.parts[k])]), n)

\* The dice terms among nodes in order.
DiceIn(order) ==
    FlattenSeq([k \in DOMAIN order |-> IF order[k].kind = "dice" THEN <<order[k]>> ELSE << >>])

\* What the parser and sumItems promise the evaluator: trees that can be
\* evaluated, and for a grouped keep a sum of the same dice terms that has
\* no grouped keep in it.
ASSUME TreeAssumption ==
    \A t \in Texts : Reading(t).error = "none" =>
        LET order == Order(Reading(t).node)
        IN  /\ Evaluable(order)
            /\ InPostorder(Reading(t).node)
            /\ \A n \in ToSet(order) : n.kind = "keep" =>
                  /\ Evaluable(Order(SumOf(n)))
                  /\ InPostorder(SumOf(n))
                  /\ \A part \in ToSet(Order(SumOf(n))) : part.kind # "keep"
                  /\ DiceIn(Order(SumOf(n))) = DiceIn(Order(n))

VARIABLES
    text,         \* the formula as written
    expr,         \* Expr.root
    status,       \* "new", "rolling", "ok", or the error it ended with
    work,         \* the nodes still to be evaluated, in order
    results,      \* the trees of evaluated nodes that no node has used yet
    made,         \* history: which trees were made of which nodes
    terms,        \* the dice terms met so far
    groups,       \* per dice term, the dice rolled for it
    replay,       \* the groups that items evaluated again have yet to read
    group,        \* the dice term under evaluation, or the next one
    mod,          \* the modifier under application; 0 while dice are thrown
    cursor,       \* the loop's i
    bound,        \* the dice that were there when the modifier began
    rerolls,      \* groupRoller.rerolls
    explosions    \* groupRoller.explosions

rolling == <<group, mod, cursor, bound, rerolls, explosions>>
vars == <<text, expr, status, work, results, made, terms, groups, replay, rolling>>

\* rerolledFrom and explodedFrom are positions in the group, 0 for none.
Die == [value : Int, state : {"kept", "dropped", "rerolled", "exploded"},
        rerolledFrom : Nat, explodedFrom : Nat]

Thrown(v) == [value |-> v, state |-> "kept", rerolledFrom |-> 0, explodedFrom |-> 0]

TypeOK ==
    /\ text \in Texts
    /\ status \in {"new", "rolling", "ok"} \cup Error
    /\ Len(terms) = Len(groups)
    /\ groups \in Seq(Seq(Die))
    /\ replay \in Seq(DOMAIN groups)
    /\ group \in 1..(Len(groups) + 1)
    /\ {mod, cursor} \subseteq Nat
    /\ bound \in 0..MaxDice
    /\ rerolls \in 0..MaxRerolls
    /\ explosions \in 0..MaxExplosions
    /\ \A k \in DOMAIN results : results[k].value \in Word

Init ==
    /\ text \in Texts
    /\ expr = Literal(0)
    /\ status = "new"
    /\ work = << >>
    /\ results = << >>
    /\ made = {}
    /\ terms = << >>
    /\ groups = << >>
    /\ replay = << >>
    /\ group = 1
    /\ mod = 0
    /\ cursor = 1
    /\ bound = 0
    /\ rerolls = 0
    /\ explosions = 0

-----------------------------------------------------------------------------
(* Keep and drop.  A position <<g, j>> names die j of group g.             *)

Counts(die) == die.state \in {"kept", "exploded"}

Positions(g) == {<<g, j>> : j \in {j \in DOMAIN groups[g] : Counts(groups[g][j])}}

Face(p) == groups[p[1]][p[2]].value

Earlier(p, q) == p[1] < q[1] \/ (p[1] = q[1] /\ p[2] < q[2])

\* Faulty variant: later dice win ties.
RanksBeforeReversed(high, p, q) ==
    IF Face(p) = Face(q) THEN Earlier(q, p)
    ELSE IF high THEN Face(p) > Face(q) ELSE Face(p) < Face(q)

\* The stable sort: equal dice keep their order.
RanksBefore(high, p, q) ==
    IF Face(p) = Face(q) THEN Earlier(p, q)
    ELSE IF high THEN Face(p) > Face(q) ELSE Face(p) < Face(q)

Keeps(m, n) == IF m.kind \in {"kh", "kl"} THEN m.count ELSE n - m.count

Dropped(P, m) ==
    {p \in P : Cardinality({q \in P : RanksBefore(m.kind \in {"kh", "pl"}, q, p)})
                   >= Keeps(m, Cardinality(P))}

Drop(D) ==
    [g \in DOMAIN groups |->
        [j \in DOMAIN groups[g] |->
            IF <<g, j>> \in D THEN [groups[g][j] EXCEPT !.state = "dropped"]
            ELSE groups[g][j]]]

\* applyKeep's check.
KeepFits(P, m) == m.count >= 0 /\ m.count <= Cardinality(P)

-----------------------------------------------------------------------------
(* Values, and the explanation trees that carry them.                      *)

\* A node of the tree: "of" is the operator, function or variable, "dice"
\* the groups of the dice terms below, left to right.
Explained(kind, of, dice, parts, value) ==
    [kind |-> kind, of |-> of, dice |-> dice, parts |-> parts, value |-> value]

\* collectDice.
GroupsOf(trees) == FlattenSeq([k \in DOMAIN trees |-> trees[k].dice])

Explain(outcome, kind, of, parts) ==
    [status |-> outcome.status,
     tree |-> Explained(kind, of, GroupsOf(parts), parts, outcome.value)]

ExplainDice(outcome, g) ==
    [status |-> outcome.status,
     tree |-> Explained("dice", "", <<g>>, << >>, outcome.value)]

\* The dice that count and succeed.
Successes(dice, term, m) ==
    {j \in DOMAIN dice : Counts(dice[j]) /\ Matches(term, m, dice[j].value)}

\* diceValue: the sum of the dice that count, or how many of them succeed.
DiceValue(dice, term) ==
    LET success == {k \in DOMAIN term.mods : term.mods[k].kind = "cs"}
        sum[k \in 0..Len(dice)] ==
            IF k = 0 THEN Ok(0)
            ELSE LET before == sum[k - 1]
                 IN  IF before.status = "ok" /\ Counts(dice[k]) THEN Add(before.value, dice[k].value)
                     ELSE before
    IN  IF success # {} THEN Ok(Cardinality(Successes(dice, term, term.mods[Max(success)])))
        ELSE sum[Len(dice)]

Operate(op, a, b) ==
    CASE op = "+" -> Add(a, b)
      [] op = "-" -> Sub(a, b)
      [] op = "*" -> Mul(a, b)
      [] op = "/" -> Div(a, b)

Apply(name, args) ==
    CASE name = "min" -> Min({args[1].value, args[2].value})
      [] name = "max" -> Max({args[1].value, args[2].value})
      [] OTHER -> args[1].value

\* eval of a node that is no dice term or group, given its parts' trees.
Combine(n, args) ==
    CASE n.kind = "literal" -> Explain(Ok(n.value), "literal", "", args)
      [] n.kind = "variable" ->
            Explain(IF n.name \in DOMAIN Resolver THEN Ok(Resolver[n.name])
                    ELSE Failed("unknown_variable"), "variable", n.name, args)
      [] n.kind = "unary" -> Explain(Neg(args[1].value), "operator", "-", args)
      [] n.kind = "binary" ->
            Explain(Operate(n.op, args[1].value, args[2].value), "operator", n.op, args)
      [] n.kind = "call" -> Explain(Ok(Apply(n.name, args)), "function", n.name, args)

\* The last trees of a stack, those of a node's parts; and the rest.
Top(stack, n) == SubSeq(stack, Len(stack) - Len(n.parts) + 1, Len(stack))

Below(stack, n) == SubSeq(stack, 1, Len(stack) - Len(n.parts))

-----------------------------------------------------------------------------
(* The steps of a roll.                                                    *)

\* Faulty variant: an error leaves the loop where it is.
FailSilently(error) == UNCHANGED vars

Fail(error) ==
    /\ status' = error
    /\ UNCHANGED <<text, expr, work, results, made, terms, groups, replay, rolling>>

ParseText ==
    /\ status = "new"
    /\ LET p == Reading(text)
       IN  IF p.error # "none" THEN Fail(p.error)
           ELSE /\ status' = "rolling"
                /\ expr' = p.node
                /\ work' = Order(p.node)
                /\ UNCHANGED <<text, results, made, terms, groups, replay, rolling>>

AtNode(kinds) == status = "rolling" /\ work # << >> /\ Head(work).kind \in kinds

node == Head(work)

\* The trees of the parts of the node under evaluation.
args == Top(results, node)

\* The items of a grouped keep are being evaluated again.
Replaying == replay # << >>

\* A dice term to be rolled.
AtRoll == AtNode({"dice"}) /\ ~ Replaying

Made(n, tree) == [node |-> n, tree |-> tree]

\* The node has its tree, which takes the place of its parts'.
Complete(explained) ==
    IF explained.status # "ok" THEN Fail(explained.status)
    ELSE /\ results' = Append(Below(results, node), explained.tree)
         /\ made' = made \cup {Made(node, explained.tree)}
         /\ work' = Tail(work)
         /\ UNCHANGED <<text, expr, status>>

Evaluate ==
    /\ AtNode({"literal", "variable", "unary", "binary", "call"})
    /\ Complete(Combine(node, args))
    /\ UNCHANGED <<terms, groups, replay, rolling>>

NextModifier ==
    /\ mod' = mod + 1
    /\ cursor' = 1
    /\ bound' = Len(groups'[group])

\* One of the term's dice, as often as its count says.
Throw ==
    /\ AtRoll
    /\ mod = 0
    /\ \E v \in Faces(node) :
           IF group \in DOMAIN groups
           THEN groups' = [groups EXCEPT ![group] = Append(@, Thrown(v))] /\ UNCHANGED terms
           ELSE groups' = Append(groups, <<Thrown(v)>>) /\ terms' = Append(terms, node)
    /\ IF Len(groups'[group]) = node.count THEN NextModifier
       ELSE UNCHANGED <<mod, cursor, bound>>
    /\ UNCHANGED <<text, expr, status, work, results, made, replay, group, rerolls, explosions>>

AtModifier(kinds) ==
    /\ AtRoll
    /\ mod \in DOMAIN node.mods
    /\ node.mods[mod].kind \in kinds

Keep ==
    /\ AtModifier({"kh", "kl", "ph", "pl"})
    /\ LET P == Positions(group)
           m == node.mods[mod]
       IN  IF ~ KeepFits(P, m) THEN Fail("keep_count")
           ELSE /\ groups' = Drop(Dropped(P, m))
                /\ NextModifier
                /\ UNCHANGED <<text, expr, status, work, results, made, terms, replay, group, rerolls, explosions>>

\* Faulty variant: a replacement is not looked at again.
CandidatesFirst(m) ==
    {j \in cursor..bound : /\ groups[group][j].state = "kept"
                           /\ Matches(node, m, groups[group][j].value)}

\* The dice the loop still has to act on; ro stops at those it began with.
Candidates(m) ==
    {j \in cursor..(IF m.kind = "ro" THEN bound ELSE Len(groups[group])) :
        /\ groups[group][j].state = "kept"
        /\ Matches(node, m, groups[group][j].value)}

\* Faulty variant: the new die is linked to the one before it.
SpawnedNeighbour(j, state, die) ==
    Append([groups[group] EXCEPT ![j].state = state],
           IF state = "rerolled" THEN [die EXCEPT !.rerolledFrom = Len(groups[group])]
           ELSE [die EXCEPT !.explodedFrom = Len(groups[group])])

\* Die j is marked, and the die it causes appended.
Spawned(j, state, die) ==
    Append([groups[group] EXCEPT ![j].state = state],
           IF state = "rerolled" THEN [die EXCEPT !.rerolledFrom = j]
           ELSE [die EXCEPT !.explodedFrom = j])

\* Faulty variant: the limits compare a counter that nothing moves.
CountedNot(state) == UNCHANGED <<rerolls, explosions>>

Counted(state) ==
    IF state = "rerolled" THEN rerolls' = rerolls + 1 /\ UNCHANGED explosions
    ELSE explosions' = explosions + 1 /\ UNCHANGED rerolls

Spawn(j, state) ==
    IF Len(groups[group]) >= MaxDice THEN Fail("too_many_dice")
    ELSE /\ \E v \in Faces(node) :
               groups' = [groups EXCEPT ![group] = Spawned(j, state, Thrown(v))]
         /\ cursor' = j + 1
         /\ Counted(state)
         /\ UNCHANGED <<text, expr, status, work, results, made, terms, replay, group, mod, bound>>

\* The limits are the group's: the counters outlive the modifier.
Reroll ==
    /\ AtModifier({"rr", "ro"})
    /\ LET Acted == Candidates(node.mods[mod])
       IN  /\ Acted # {}
           /\ IF rerolls + 1 > MaxRerolls THEN Fail("too_many_rerolls")
              ELSE Spawn(Min(Acted), "rerolled")

Explode ==
    /\ AtModifier({"e"})
    /\ LET Acted == Candidates(node.mods[mod])
       IN  /\ Acted # {}
           /\ IF explosions + 1 > MaxExplosions THEN Fail("too_many_explosions")
              ELSE Spawn(Min(Acted), "exploded")

\* The loop of rr, ro or e has seen every die; cs waits for the value.
Modified ==
    /\ \/ AtModifier({"rr", "ro", "e"}) /\ Candidates(node.mods[mod]) = {}
       \/ AtModifier({"cs"})
    /\ UNCHANGED groups
    /\ NextModifier
    /\ UNCHANGED <<text, expr, status, work, results, made, terms, replay, group, rerolls, explosions>>

\* The term has its value; the next group starts its counters at zero.
GroupDone ==
    /\ AtRoll
    /\ mod > Len(node.mods)
    /\ LET value == DiceValue(groups[group], node)
       IN  IF value.status # "ok" THEN Fail("overflow")
           ELSE /\ Complete(ExplainDice(value, group))
                /\ group' = group + 1
                /\ mod' = 0
                /\ cursor' = 1
                /\ bound' = 0
                /\ rerolls' = 0
                /\ explosions' = 0
                /\ UNCHANGED <<terms, groups, replay>>

\* The dice of all items that count.
Pooled == UNION {Positions(g) : g \in DOMAIN groups \cap ToSet(GroupsOf(args))}

\* Faulty variant: the items find their groups in the reverse order.
RecordedReversed == Reverse(GroupsOf(args))

\* The groups rolled for the items, in the order the items read them again.
Recorded == GroupsOf(args)

\* groupKeep, but for the first evaluation of the items, which precedes it,
\* and the second, which follows: the items take the keep's place, and the
\* trees they had are thrown away.
KeepGroup ==
    /\ AtNode({"keep"})
    /\ IF ~ KeepFits(Pooled, node.keep) THEN Fail("keep_count")
       ELSE /\ groups' = Drop(Dropped(Pooled, node.keep))
            /\ replay' = Recorded
            /\ work' = Order(SumOf(node)) \o Tail(work)
            /\ results' = Below(results, node)
            /\ made' = {m \in made : ToSet(m.tree.dice) \cap ToSet(Recorded) = {}}
            /\ UNCHANGED <<text, expr, status, terms, rolling>>

\* A dice term met again: the value of its dice as they now lie.
Reread ==
    /\ Replaying
    /\ AtNode({"dice"})
    /\ LET g == Head(replay)
           value == DiceValue(groups[g], node)
       IN  IF value.status # "ok" THEN Fail("overflow")
           ELSE /\ Complete(ExplainDice(value, g))
                /\ replay' = Tail(replay)
                /\ UNCHANGED <<terms, groups, rolling>>

Finish ==
    /\ status = "rolling"
    /\ work = << >>
    /\ status' = "ok"
    /\ UNCHANGED <<text, expr, work, results, made, terms, groups, replay, rolling>>

Ended == status \notin {"new", "rolling"}

Rolled == Ended /\ UNCHANGED vars

Roll == \/ Evaluate \/ Throw \/ Keep \/ Reroll \/ Explode \/ Modified
        \/ GroupDone \/ KeepGroup \/ Reread \/ Finish

Next == ParseText \/ Roll \/ Rolled

Spec == Init /\ [][Next]_vars

\* A roll that has begun runs.
FairSpec == Spec /\ WF_vars(Roll)

-----------------------------------------------------------------------------
(* Properties.                                                             *)

Cause(die) == die.rerolledFrom + die.explodedFrom

\* The dice of a group whose term throws "count" of them.
GroupExplained(g, count) ==
    LET Caused == {j \in DOMAIN g : Cause(g[j]) # 0}
    IN  /\ \A j \in Caused :
              /\ g[j].rerolledFrom = 0 \/ g[j].explodedFrom = 0
              /\ Cause(g[j]) < j
              /\ j > count
        /\ \A j, l \in Caused : Cause(g[j]) = Cause(g[l]) => j = l
        /\ \A j \in DOMAIN g \ Caused : j <= count
        /\ {j \in DOMAIN g : g[j].state = "rerolled"}
              = {g[j].rerolledFrom : j \in DOMAIN g} \ {0}
        /\ \A j \in Caused : g[j].explodedFrom # 0
              => g[g[j].explodedFrom].state \in {"exploded", "dropped"}

(***************************************************************************)
(* The dice of a group explain themselves (result.go: RerolledFrom and     *)
(* ExplodedFrom are "indexes of the sibling die"): every die beyond those  *)
(* the term throws was caused by an earlier one, every die causes at most  *)
(* one, and the dice marked rerolled are those with a replacement.  An     *)
(* exploded die may have been dropped since, a rerolled one may not.       *)
(***************************************************************************)
DiceExplained ==
    \A k \in DOMAIN groups : GroupExplained(groups[k], terms[k].count)

\* No die that fell is better than one that stayed, and a tie goes to the
\* die that was rolled first.
Falls(D, K, m) ==
    \A d \in D, k \in K :
        IF Face(d) = Face(k) THEN Earlier(k, d)
        ELSE IF m.kind \in {"kh", "pl"} THEN Face(d) < Face(k) ELSE Face(d) > Face(k)

\* What a keep or drop leaves of the dice that counted before it.
Kept(before, after, m) ==
    /\ after \subseteq before
    /\ Cardinality(IF m.kind \in {"kh", "kl"} THEN after ELSE before \ after) = m.count
    /\ Falls(before \ after, after, m)

\* What a modifier leaves behind.
Settled(before, after, m) ==
    IF IsKeepDrop(m) THEN Kept(before, after, m)
    ELSE \A j \in DOMAIN groups[group] :
            \/ m.kind = "cs"
            \/ m.kind = "ro" /\ j > bound
            \/ groups[group][j].state # "kept"
            \/ ~ Matches(node, m, groups[group][j].value)

(***************************************************************************)
(* Modifiers do what doc.go says, in written order: when one is done,      *)
(* kh, kl, ph and pl have kept or dropped the right number of the right    *)
(* dice, no die that counts still calls for a reroll or an explosion, and  *)
(* ro has looked at each die it found exactly once.                        *)
(***************************************************************************)
ModifiersDone ==
    [][mod # 0 /\ mod' = mod + 1 =>
          Settled(Positions(group), Positions(group)', node.mods[mod])]_vars

\* The dice that count of all the groups rolled for the items of a keep.
PooledAfter == {p \in UNION {Positions(g)' : g \in DOMAIN groups} : p[1] \in ToSet(GroupsOf(args))}

GroupKept == AtNode({"keep"}) /\ status' = "rolling"

(***************************************************************************)
(* A grouped keep or drop has kept the right dice out of all its items,    *)
(* nested keeps included, and touched no others.                           *)
(***************************************************************************)
GroupKeepsBest ==
    [][GroupKept =>
          /\ Kept(Pooled, PooledAfter, node.keep)
          /\ \A g \in DOMAIN groups \ ToSet(GroupsOf(args)) : groups'[g] = groups[g]]_vars

(***************************************************************************)
(* Every roll ends: rerolls and explosions chain, and only the limits stop *)
(* them.                                                                   *)
(***************************************************************************)
RollsEnd == (status = "rolling") ~> Ended

\* The grouped keeps to come, each by the number of nodes after it.
KeepsLeft == {Len(work) - k : k \in {k \in DOMAIN work : work[k].kind = "keep"}}

ThrownDice == IF group \in DOMAIN groups THEN Len(groups[group]) ELSE 0

\* A step within a term: a die more, the next modifier, or a counter that
\* comes nearer to its limit.
TermAdvances ==
    \/ mod < mod' /\ mod' <= Len(node.mods) + 1
    \/ mod = 0 /\ mod' = 0 /\ ThrownDice < ThrownDice' /\ ThrownDice' < node.count
    \/ /\ mod' = mod
       /\ rerolls <= rerolls' /\ explosions <= explosions'
       /\ rerolls + explosions < rerolls' + explosions'
       /\ rerolls' <= MaxRerolls /\ explosions' <= MaxExplosions

(***************************************************************************)
(* Why every roll ends: each step ends the roll, or turns a grouped keep   *)
(* into its items, or completes a node, or advances within a dice term, in *)
(* this order of weight; and none of these can go on for ever, since what  *)
(* is counted is finite at every weight.                                   *)
(***************************************************************************)
RollAdvances ==
    [][Roll =>
          \/ status' # "rolling"
          \/ KeepsLeft' \subseteq KeepsLeft /\ KeepsLeft' # KeepsLeft
          \/ KeepsLeft' = KeepsLeft /\ Len(work') < Len(work)
          \/ work' = work /\ group' = group /\ TermAdvances]_vars

Exactly(op, a, b) ==
    CASE op = "+" -> a + b
      [] op = "-" -> a - b
      [] op = "*" -> a * b
      [] op = "/" -> Floor(a, b)

\* The sum, over the integers, of the dice that count.
Total(dice) ==
    LET total[k \in 0..Len(dice)] ==
            IF k = 0 THEN 0 ELSE total[k - 1] + IF Counts(dice[k]) THEN dice[k].value ELSE 0
    IN  total[Len(dice)]

\* The value of a dice term, as its dice lie now.
ValueOfDice(n, dice) ==
    IF \E m \in ToSet(n.mods) : m.kind = "cs"
    THEN Cardinality({j \in DOMAIN dice : /\ Counts(dice[j])
                                          /\ \A m \in ToSet(n.mods) :
                                                m.kind = "cs" => Matches(n, m, dice[j].value)})
    ELSE Total(dice)

\* The tree's value follows from those of its parts, over the integers, or
\* from its dice.
Explains(tree, n) ==
    LET a == tree.parts
    IN  CASE n.kind = "literal" -> tree.kind = "literal" /\ tree.value = n.value
          [] n.kind = "variable" ->
                tree.kind = "variable" /\ tree.of = n.name /\ tree.value = Resolver[n.name]
          [] n.kind = "unary" -> tree.kind = "operator" /\ tree.value = -a[1].value
          [] n.kind = "binary" ->
                /\ tree.kind = "operator" /\ tree.of = n.op
                /\ tree.value = Exactly(n.op, a[1].value, a[2].value)
          [] n.kind = "call" ->
                tree.kind = "function" /\ tree.of = n.name /\ tree.value = Apply(n.name, a)
          [] n.kind = "dice" ->
                /\ tree.kind = "dice"
                /\ \E g \in DOMAIN groups :
                      tree.dice = <<g>> /\ terms[g] = n /\ tree.value = ValueOfDice(n, groups[g])

\* A grouped keep stands for the sum of its items.
Standing(n) == IF n.kind = "keep" THEN SumOf(n) ELSE n

\* The tree has the node's shape, down to its parts, which were made of the
\* node's parts; and its dice are theirs, from the left.
Follows(tree, n) ==
    /\ Len(tree.parts) = Len(n.parts)
    /\ \A k \in DOMAIN n.parts : Made(Standing(n.parts[k]), tree.parts[k]) \in made
    /\ n.kind # "dice" => tree.dice = GroupsOf(tree.parts)

(***************************************************************************)
(* The result explains itself: its tree has the shape of the formula, a    *)
(* grouped keep standing for the sum of its items; the groups of dice come *)
(* in the order of their terms, each once; and every value in the tree     *)
(* follows from what is below it and from the dice as they finally lie,    *)
(* though a grouped keep drops dice after their items were valued.         *)
(***************************************************************************)
ResultExplained ==
    status = "ok" =>
        /\ Len(results) = 1
        /\ Made(Standing(expr), results[1]) \in made
        /\ \A m \in made : Follows(m.tree, m.node) /\ Explains(m.tree, m.node)
        /\ results[1].dice = [g \in DOMAIN groups |-> g]

(***************************************************************************)
(* doc.go: a grouped keep/drop applies to the items, and "(2d20+1d6)kh1    *)
(* keeps the single highest item".                                         *)
(***************************************************************************)
GroupKeepsItems ==
    [][GroupKept =>
          \A k \in DOMAIN args :
              LET before == UNION {Positions(g) : g \in ToSet(args[k].dice)}
              IN  PooledAfter \cap before \in {before, {}}]_vars
=============================================================================
