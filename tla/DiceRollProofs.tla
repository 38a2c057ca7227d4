--------------------------- MODULE DiceRollProofs ---------------------------
(***************************************************************************)
(* Proofs about DiceRoll, for any formulas, limits and dice, and for any   *)
(* parser that gives the evaluator terms it can roll: the dice of a group, *)
(* what modifiers and grouped keeps leave of them, how a roll advances,    *)
(* and how its result explains itself.                                     *)
(***************************************************************************)
EXTENDS DiceRoll, DiceLemmas

-----------------------------------------------------------------------------
(* Keep and drop.                                                          *)

\* Positions of dice that have a face.
ArePositions(P) ==
    /\ IsFiniteSet(P)
    /\ \A p \in P : p[1] \in Nat /\ p[2] \in Nat /\ p = <<p[1], p[2]>> /\ Face(p) \in Int

RankedBefore(P, m) == [p \in P |-> {q \in P : RanksBefore(m.kind \in {"kh", "pl"}, q, p)}]

\* The stable sort of applyKeep is a strict order of the dice.
LEMMA RanksOrder ==
    ASSUME NEW P, ArePositions(P), NEW m
    PROVE  Orders(RankedBefore(P, m), P)
<1> DEFINE before == RankedBefore(P, m)
           high == m.kind \in {"kh", "pl"}
<1>1. before \in [P -> SUBSET P]
  BY DEF RankedBefore
<1>2. \A p, q \in P : p \in before[q] <=> RanksBefore(high, p, q)
  BY DEF RankedBefore
<1>3. \A p, q \in P : p # q => Earlier(p, q) \/ Earlier(q, p)
  BY DEF Earlier, ArePositions
<1>4. \A p, q, r \in P : Earlier(p, q) /\ Earlier(q, r) => Earlier(p, r)
  BY DEF Earlier, ArePositions
<1>5. \A p \in P : ~ Earlier(p, p)
  BY DEF Earlier, ArePositions
<1>6. \A p \in P : Face(p) \in Int
  BY DEF ArePositions
<1>7. \A p, q \in P : p # q => RanksBefore(high, p, q) \/ RanksBefore(high, q, p)
  BY <1>3, <1>6 DEF RanksBefore
<1>8. \A p, q, r \in P :
         RanksBefore(high, p, q) /\ RanksBefore(high, q, r) => RanksBefore(high, p, r)
  BY <1>4, <1>6 DEF RanksBefore
<1>9. \A p \in P : ~ RanksBefore(high, p, p)
  BY <1>5 DEF RanksBefore
<1> HIDE DEF before, high
<1>10. \A p, q \in P : p # q => p \in before[q] \/ q \in before[p]
  BY <1>2, <1>7
<1>11. ASSUME NEW p \in P, NEW q \in P, p \in before[q]
       PROVE  before[p] \subseteq before[q] /\ p \notin before[p]
  <2>1. \A r \in before[p] : r \in P
    BY <1>1
  <2> QED
    BY <1>2, <1>8, <1>9, <1>11, <2>1
<1> QED
  BY <1>1, <1>10, <1>11 DEF Orders, before

\* applyKeep keeps or drops as many dice as it should, and the right ones.
LEMMA KeepKeepsBest ==
    ASSUME NEW P, ArePositions(P), NEW m, IsKeepDrop(m), m.count \in Nat, KeepFits(P, m)
    PROVE  Dropped(P, m) \subseteq P /\ Kept(P, P \ Dropped(P, m), m)
<1> DEFINE before == RankedBefore(P, m)
           keeps  == Keeps(m, Cardinality(P))
           D      == Dropped(P, m)
<1>1. Cardinality(P) \in Nat
  BY FS_CardinalityType DEF ArePositions
<1>2. /\ keeps \in 0..Cardinality(P)
      /\ m.kind \in {"kh", "kl"} => keeps = m.count
      /\ m.kind \notin {"kh", "kl"} => keeps = Cardinality(P) - m.count
  BY <1>1 DEF Keeps, KeepFits
<1>3. D = Beyond(keeps, before, P)
  BY DEF Dropped, Beyond, RankedBefore
<1>4. Orders(before, P)
  BY RanksOrder
<1>5. IsFiniteSet(P)
  BY DEF ArePositions
<1>6. D \subseteq P /\ P \ (P \ D) = D
  BY DEF Dropped
<1> HIDE DEF before, keeps, D
<1>7. /\ Cardinality(Beyond(keeps, before, P)) = Cardinality(P) - keeps
      /\ Cardinality(P \ Beyond(keeps, before, P)) = keeps
  BY <1>2, <1>4, <1>5, RanksCount
<1>8. Cardinality(IF m.kind \in {"kh", "kl"} THEN P \ D ELSE P \ (P \ D)) = m.count
  <2>1. CASE m.kind \in {"kh", "kl"}
    BY <1>2, <1>3, <1>7, <2>1
  <2>2. CASE m.kind \notin {"kh", "kl"}
    <3>1. keeps = Cardinality(P) - m.count
      BY <1>2, <2>2
    <3>2. Cardinality(D) = m.count
      BY <1>1, <1>3, <1>7, <3>1
    <3> QED
      BY <1>6, <2>2, <3>2
  <2> QED
    BY <2>1, <2>2
<1>9. ASSUME NEW d \in D, NEW k \in P \ D
      PROVE  RanksBefore(m.kind \in {"kh", "pl"}, k, d)
  <2>1. d \in P /\ k \in P /\ d # k
    BY <1>6
  <2>2. Cardinality(before[d]) >= keeps /\ ~ (Cardinality(before[k]) >= keeps)
    BY <1>3, <2>1 DEF Beyond
  <2>3. Cardinality(before[d]) \in Int /\ Cardinality(before[k]) \in Int /\ keeps \in Int
    BY <1>1, <1>2, <1>4, <1>5, <2>1, RanksDiffer
  <2>4. d \notin before[k]
    <3>1. SUFFICES ASSUME d \in before[k] PROVE FALSE
      OBVIOUS
    <3>2. before[d] \in SUBSET before[k] /\ before[k] \in SUBSET P
      BY <1>4, <2>1, <3>1 DEF Orders
    <3>3. IsFiniteSet(before[k])
      BY <1>5, <3>2, FS_Subset
    <3>4. Cardinality(before[d]) <= Cardinality(before[k])
      BY <3>2, <3>3, FS_Subset
    <3> QED
      BY <2>2, <2>3, <3>4
  <2>5. k \in before[d]
    BY <1>4, <2>1, <2>4 DEF Orders
  <2> QED
    BY <2>1, <2>5 DEF before, RankedBefore
<1>10. Falls(D, P \ D, m)
  <2>1. SUFFICES ASSUME NEW d \in D, NEW k \in P \ D
                 PROVE  IF Face(d) = Face(k) THEN Earlier(k, d)
                        ELSE IF m.kind \in {"kh", "pl"} THEN Face(d) < Face(k)
                        ELSE Face(d) > Face(k)
    BY DEF Falls
  <2>2. Face(d) \in Int /\ Face(k) \in Int
    BY <1>6 DEF ArePositions
  <2>3. RanksBefore(m.kind \in {"kh", "pl"}, k, d)
    BY <1>9
  <2>4. CASE Face(d) = Face(k)
    BY <2>3, <2>4 DEF RanksBefore
  <2>5. CASE Face(d) # Face(k) /\ m.kind \in {"kh", "pl"}
    BY <2>2, <2>3, <2>5 DEF RanksBefore
  <2>6. CASE Face(d) # Face(k) /\ m.kind \notin {"kh", "pl"}
    BY <2>2, <2>3, <2>6 DEF RanksBefore
  <2> QED
    BY <2>4, <2>5, <2>6
<1> QED
  BY <1>6, <1>8, <1>10 DEF Kept, D

-----------------------------------------------------------------------------
(* The dice of a group.                                                    *)

\* A die that was thrown counts and has no cause yet.
LEMMA DieFields ==
    /\ \A v \in Int : /\ Thrown(v) \in Die
                      /\ Thrown(v).state = "kept"
                      /\ Thrown(v).rerolledFrom = 0
                      /\ Thrown(v).explodedFrom = 0
    /\ \A d \in Die : /\ d.value \in Int
                      /\ d.rerolledFrom \in Nat
                      /\ d.explodedFrom \in Nat
                      /\ Cause(d) \in Nat
                      /\ Cause(d) = 0 <=> d.rerolledFrom = 0 /\ d.explodedFrom = 0
  BY DEF Die, Thrown, Cause

\* The parts of GroupExplained, die by die.
CausedBefore(g, count) ==
    \A j \in DOMAIN g : Cause(g[j]) # 0 =>
        /\ g[j].rerolledFrom = 0 \/ g[j].explodedFrom = 0
        /\ Cause(g[j]) < j
        /\ j > count

CausesOne(g) ==
    \A j, l \in DOMAIN g : Cause(g[j]) # 0 /\ Cause(g[j]) = Cause(g[l]) => j = l

OwnFirst(g, count) == \A j \in DOMAIN g : Cause(g[j]) = 0 => j <= count

RerolledReplaced(g) ==
    \A j \in DOMAIN g : g[j].state = "rerolled" => \E l \in DOMAIN g : g[l].rerolledFrom = j

ReplacedRerolled(g) ==
    \A l \in DOMAIN g : g[l].rerolledFrom # 0 =>
        /\ g[l].rerolledFrom \in DOMAIN g
        /\ g[g[l].rerolledFrom].state = "rerolled"

ExplodedStands(g) ==
    \A j \in DOMAIN g : g[j].explodedFrom # 0 =>
        /\ g[j].explodedFrom \in DOMAIN g
        /\ g[g[j].explodedFrom].state \in {"exploded", "dropped"}

\* They are all there is to it.
LEMMA GroupFacts ==
    ASSUME NEW g \in Seq(Die), NEW count \in Nat
    PROVE  GroupExplained(g, count) <=>
              /\ CausedBefore(g, count)
              /\ CausesOne(g)
              /\ OwnFirst(g, count)
              /\ RerolledReplaced(g)
              /\ ReplacedRerolled(g)
              /\ ExplodedStands(g)
<1>1. \A j \in DOMAIN g : j \in 1..Len(g) /\ g[j] \in Die
  OBVIOUS
<1>2. {j \in DOMAIN g : g[j].state = "rerolled"} = {g[j].rerolledFrom : j \in DOMAIN g} \ {0} <=>
         RerolledReplaced(g) /\ ReplacedRerolled(g)
  BY <1>1 DEF RerolledReplaced, ReplacedRerolled
<1>3. \A j \in DOMAIN g : Cause(g[j]) = 0 <=> g[j].rerolledFrom = 0 /\ g[j].explodedFrom = 0
  BY <1>1, DieFields
<1>4. CausedBefore(g, count) => \A j \in DOMAIN g :
         g[j].explodedFrom # 0 => g[j].explodedFrom \in DOMAIN g
  <2>1. \A j \in DOMAIN g : g[j].explodedFrom \in Nat /\ g[j].rerolledFrom \in Nat
    BY <1>1, DieFields
  <2> QED
    BY <1>1, <1>3, <2>1 DEF CausedBefore, Cause
<1> DEFINE Caused == {j \in DOMAIN g : Cause(g[j]) # 0}
<1>6. (\A j \in Caused : /\ g[j].rerolledFrom = 0 \/ g[j].explodedFrom = 0
                         /\ Cause(g[j]) < j
                         /\ j > count) <=> CausedBefore(g, count)
  BY DEF CausedBefore
<1>7. (\A j, l \in Caused : Cause(g[j]) = Cause(g[l]) => j = l) <=> CausesOne(g)
  BY DEF CausesOne
<1>8. (\A j \in DOMAIN g \ Caused : j <= count) <=> OwnFirst(g, count)
  BY DEF OwnFirst
<1>9. CausedBefore(g, count) =>
         ((\A j \in Caused : g[j].explodedFrom # 0
              => g[g[j].explodedFrom].state \in {"exploded", "dropped"}) <=> ExplodedStands(g))
  BY <1>3, <1>4 DEF ExplodedStands
<1> QED
  BY <1>2, <1>6, <1>7, <1>8, <1>9 DEF GroupExplained

\* A term's own dice explain themselves.
LEMMA ThrowExplained ==
    ASSUME NEW g \in Seq(Die), NEW count \in Nat, Len(g) < count,
           NEW v \in Int, GroupExplained(g, count)
    PROVE  /\ Append(g, Thrown(v)) \in Seq(Die)
           /\ GroupExplained(Append(g, Thrown(v)), count)
<1> DEFINE h == Append(g, Thrown(v))
           n == Len(g) + 1
<1>1. h \in Seq(Die)
  BY DieFields
<1>2. /\ n \in Nat /\ n <= count
      /\ DOMAIN h = DOMAIN g \cup {n} /\ n \notin DOMAIN g
      /\ \A j \in DOMAIN g : h[j] = g[j]
      /\ h[n] = Thrown(v)
  OBVIOUS
<1>3. /\ h[n].state = "kept" /\ h[n].rerolledFrom = 0 /\ h[n].explodedFrom = 0
      /\ Cause(h[n]) = 0
  BY <1>2, DieFields
<1>4. /\ CausedBefore(g, count) /\ CausesOne(g) /\ OwnFirst(g, count)
      /\ RerolledReplaced(g) /\ ReplacedRerolled(g) /\ ExplodedStands(g)
  BY GroupFacts
<1> HIDE DEF h, n
<1>5. CausedBefore(h, count)
  BY <1>2, <1>3, <1>4 DEF CausedBefore
<1>6. CausesOne(h)
  BY <1>2, <1>3, <1>4 DEF CausesOne
<1>7. OwnFirst(h, count)
  BY <1>2, <1>3, <1>4 DEF OwnFirst
<1>8. RerolledReplaced(h) /\ ReplacedRerolled(h)
  BY <1>2, <1>3, <1>4 DEF RerolledReplaced, ReplacedRerolled
<1>9. ExplodedStands(h)
  BY <1>2, <1>3, <1>4 DEF ExplodedStands
<1>10. GroupExplained(h, count)
  BY <1>1, <1>5, <1>6, <1>7, <1>8, <1>9, GroupFacts
<1> QED
  BY <1>1, <1>10 DEF h

\* What Spawned makes of a group: die j is marked, and the die it causes added.
SpawnedIn(g, j, s, v) ==
    Append([g EXCEPT ![j].state = s],
           IF s = "rerolled" THEN [Thrown(v) EXCEPT !.rerolledFrom = j]
           ELSE [Thrown(v) EXCEPT !.explodedFrom = j])

\* How group h differs from g after that.
MarksAndAdds(g, j, s, h) ==
    /\ h \in Seq(Die)
    /\ Len(h) = Len(g) + 1
    /\ DOMAIN h = DOMAIN g \cup {Len(g) + 1}
    /\ \A i \in DOMAIN g : i # j => h[i] = g[i]
    /\ h[j].state = s
    /\ h[j].rerolledFrom = g[j].rerolledFrom
    /\ h[j].explodedFrom = g[j].explodedFrom
    /\ h[Len(g) + 1].state = "kept"
    /\ h[Len(g) + 1].rerolledFrom = IF s = "rerolled" THEN j ELSE 0
    /\ h[Len(g) + 1].explodedFrom = IF s = "rerolled" THEN 0 ELSE j

\* All other dice stay as they are, and links stay.
LEMMA SpawnFields ==
    ASSUME NEW g \in Seq(Die), NEW j \in DOMAIN g, NEW s \in {"rerolled", "exploded"},
           NEW v \in Int, NEW h,
           h = SpawnedIn(g, j, s, v)
    PROVE  MarksAndAdds(g, j, s, h)
<1>1. j \in Nat /\ g[j] \in Die
  OBVIOUS
<1>2. PICK old : old = [g[j] EXCEPT !.state = s]
  OBVIOUS
<1>3. /\ old \in Die /\ old.state = s /\ old.value = g[j].value
      /\ old.rerolledFrom = g[j].rerolledFrom /\ old.explodedFrom = g[j].explodedFrom
  BY <1>1, <1>2 DEF Die
<1>4. PICK new : new = IF s = "rerolled" THEN [Thrown(v) EXCEPT !.rerolledFrom = j]
                       ELSE [Thrown(v) EXCEPT !.explodedFrom = j]
  OBVIOUS
<1>5. /\ new \in Die /\ new.state = "kept"
      /\ new.rerolledFrom = IF s = "rerolled" THEN j ELSE 0
      /\ new.explodedFrom = IF s = "rerolled" THEN 0 ELSE j
  BY <1>1, <1>4 DEF Die, Thrown
<1>6. PICK marked : marked = [g EXCEPT ![j] = old]
  OBVIOUS
<1>7. h = Append(marked, new)
  BY <1>2, <1>4, <1>6 DEF SpawnedIn
<1>8. /\ marked \in Seq(Die) /\ Len(marked) = Len(g) /\ DOMAIN marked = DOMAIN g
      /\ marked[j] = old
      /\ \A i \in DOMAIN g : i # j => marked[i] = g[i]
  BY <1>3, <1>6
<1>9. /\ h \in Seq(Die)
      /\ Len(h) = Len(g) + 1
      /\ DOMAIN h = DOMAIN g \cup {Len(g) + 1}
      /\ \A i \in DOMAIN g : h[i] = marked[i]
      /\ h[Len(g) + 1] = new
  BY <1>5, <1>7, <1>8
<1> QED
  BY <1>3, <1>5, <1>8, <1>9 DEF MarksAndAdds

\* A die that is rerolled or explodes had caused none, and the one it causes
\* explains itself.
LEMMA SpawnExplained ==
    ASSUME NEW g \in Seq(Die), NEW count \in Nat, count <= Len(g), GroupExplained(g, count),
           NEW j \in DOMAIN g, g[j].state = "kept", NEW s \in {"rerolled", "exploded"},
           NEW v \in Int, NEW h,
           h = SpawnedIn(g, j, s, v)
    PROVE  GroupExplained(h, count)
<1> DEFINE n == Len(g) + 1
<1>0. MarksAndAdds(g, j, s, h)
  BY SpawnFields
<1>1. /\ h \in Seq(Die)
      /\ DOMAIN h = DOMAIN g \cup {n}
      /\ \A i \in DOMAIN g : i # j => h[i] = g[i]
      /\ h[j].state = s
      /\ h[j].rerolledFrom = g[j].rerolledFrom
      /\ h[j].explodedFrom = g[j].explodedFrom
      /\ h[n].state = "kept"
      /\ h[n].rerolledFrom = IF s = "rerolled" THEN j ELSE 0
      /\ h[n].explodedFrom = IF s = "rerolled" THEN 0 ELSE j
  BY <1>0 DEF MarksAndAdds
<1>2. /\ n \in Nat /\ n > count /\ n \notin DOMAIN g
      /\ j \in Nat \ {0} /\ j < n
      /\ \A i \in DOMAIN g : i \in Nat \ {0} /\ i < n /\ g[i] \in Die
  OBVIOUS
<1>3. /\ CausedBefore(g, count) /\ CausesOne(g) /\ OwnFirst(g, count)
      /\ RerolledReplaced(g) /\ ReplacedRerolled(g) /\ ExplodedStands(g)
  BY GroupFacts
<1>4. \A i \in DOMAIN g : g[i].rerolledFrom # j /\ g[i].explodedFrom # j
  BY <1>2, <1>3 DEF ReplacedRerolled, ExplodedStands
<1> HIDE DEF n
<1>5. \A i \in DOMAIN g : /\ h[i].rerolledFrom = g[i].rerolledFrom
                          /\ h[i].explodedFrom = g[i].explodedFrom
                          /\ Cause(h[i]) = Cause(g[i])
                          /\ Cause(g[i]) # j
                          /\ g[i].rerolledFrom \in Nat /\ g[i].explodedFrom \in Nat
  <2>1. TAKE i \in DOMAIN g
  <2>2. h[i].rerolledFrom = g[i].rerolledFrom /\ h[i].explodedFrom = g[i].explodedFrom
    BY <1>1
  <2>3. g[i].rerolledFrom \in Nat /\ g[i].explodedFrom \in Nat
    BY <1>2, DieFields
  <2>4. Cause(g[i]) # j
    BY <1>2, <1>3, <1>4, <2>3 DEF CausedBefore, Cause
  <2> QED
    BY <2>2, <2>3, <2>4 DEF Cause
<1>6. Cause(h[n]) = j
  BY <1>1, <1>2 DEF Cause
<1>7. CausedBefore(h, count)
  <2>1. SUFFICES ASSUME NEW i \in DOMAIN h, Cause(h[i]) # 0
                 PROVE  /\ h[i].rerolledFrom = 0 \/ h[i].explodedFrom = 0
                        /\ Cause(h[i]) < i
                        /\ i > count
    BY DEF CausedBefore
  <2>2. CASE i = n
    BY <1>1, <1>2, <1>6, <2>2
  <2>3. CASE i \in DOMAIN g
    <3>1. Cause(g[i]) # 0
      BY <1>5, <2>1, <2>3
    <3> QED
      BY <1>3, <1>5, <2>3, <3>1 DEF CausedBefore
  <2> QED
    BY <1>1, <2>2, <2>3
<1>8. CausesOne(h)
  <2>1. SUFFICES ASSUME NEW i \in DOMAIN h, NEW l \in DOMAIN h,
                        Cause(h[i]) # 0, Cause(h[i]) = Cause(h[l])
                 PROVE  i = l
    BY DEF CausesOne
  <2>2. CASE i \in DOMAIN g /\ l \in DOMAIN g
    BY <1>3, <1>5, <2>1, <2>2 DEF CausesOne
  <2>3. CASE i \in DOMAIN g /\ l = n
    BY <1>5, <1>6, <2>1, <2>3
  <2>4. CASE i = n /\ l \in DOMAIN g
    BY <1>5, <1>6, <2>1, <2>4
  <2> QED
    BY <1>1, <2>2, <2>3, <2>4
<1>9. OwnFirst(h, count)
  BY <1>1, <1>2, <1>3, <1>5, <1>6 DEF OwnFirst
<1>10. RerolledReplaced(h)
  <2>1. SUFFICES ASSUME NEW i \in DOMAIN h, h[i].state = "rerolled"
                 PROVE  \E l \in DOMAIN h : h[l].rerolledFrom = i
    BY DEF RerolledReplaced
  <2>2. i \in DOMAIN g
    BY <1>1, <2>1
  <2>3. CASE i = j
    BY <1>1, <2>1, <2>3
  <2>4. CASE i # j
    BY <1>1, <1>3, <1>5, <2>1, <2>2, <2>4 DEF RerolledReplaced
  <2> QED
    BY <2>3, <2>4
<1>11. ReplacedRerolled(h)
  <2>1. SUFFICES ASSUME NEW l \in DOMAIN h, h[l].rerolledFrom # 0
                 PROVE  h[l].rerolledFrom \in DOMAIN h /\ h[h[l].rerolledFrom].state = "rerolled"
    BY DEF ReplacedRerolled
  <2>2. CASE l = n
    BY <1>1, <2>1, <2>2
  <2>3. CASE l \in DOMAIN g
    BY <1>1, <1>3, <1>4, <1>5, <2>1, <2>3 DEF ReplacedRerolled
  <2> QED
    BY <1>1, <2>2, <2>3
<1>12. ExplodedStands(h)
  <2>1. SUFFICES ASSUME NEW l \in DOMAIN h, h[l].explodedFrom # 0
                 PROVE  /\ h[l].explodedFrom \in DOMAIN h
                        /\ h[h[l].explodedFrom].state \in {"exploded", "dropped"}
    BY DEF ExplodedStands
  <2>2. CASE l = n
    BY <1>1, <2>1, <2>2
  <2>3. CASE l \in DOMAIN g
    BY <1>1, <1>3, <1>4, <1>5, <2>1, <2>3 DEF ExplodedStands
  <2> QED
    BY <1>1, <2>2, <2>3
<1> QED
  BY <1>1, <1>7, <1>8, <1>9, <1>10, <1>11, <1>12, GroupFacts

\* What Drop makes of a group of which it drops the dice in D.
DroppedIn(g, D) ==
    [j \in DOMAIN g |-> IF j \in D THEN [g[j] EXCEPT !.state = "dropped"] ELSE g[j]]

CanDrop(g, D) == \A j \in DOMAIN g : j \in D => Counts(g[j])

\* Dropping dice that count leaves every link as it was.
LEMMA DropExplained ==
    ASSUME NEW g \in Seq(Die), NEW count \in Nat, GroupExplained(g, count),
           NEW D, CanDrop(g, D), NEW h, h = DroppedIn(g, D)
    PROVE  /\ h \in Seq(Die)
           /\ Len(h) = Len(g)
           /\ GroupExplained(h, count)
<1>1. \A j \in DOMAIN g : g[j] \in Die
  OBVIOUS
<1>2. ASSUME NEW j \in DOMAIN g
      PROVE  /\ h[j] \in Die
             /\ h[j].state = IF j \in D THEN "dropped" ELSE g[j].state
             /\ h[j].rerolledFrom = g[j].rerolledFrom
             /\ h[j].explodedFrom = g[j].explodedFrom
  BY <1>1 DEF Die, DroppedIn
<1>3. h \in Seq(Die) /\ Len(h) = Len(g) /\ DOMAIN h = DOMAIN g
  BY <1>2 DEF DroppedIn
<1>4. \A j \in DOMAIN g : j \in D => g[j].state \in {"kept", "exploded"}
  BY DEF Counts, CanDrop
<1>5. /\ CausedBefore(g, count) /\ CausesOne(g) /\ OwnFirst(g, count)
      /\ RerolledReplaced(g) /\ ReplacedRerolled(g) /\ ExplodedStands(g)
  BY GroupFacts
<1>6. \A j \in DOMAIN g : Cause(h[j]) = Cause(g[j])
  BY <1>2 DEF Cause
<1>7. CausedBefore(h, count) /\ CausesOne(h) /\ OwnFirst(h, count)
  BY <1>2, <1>3, <1>5, <1>6 DEF CausedBefore, CausesOne, OwnFirst
<1>8. RerolledReplaced(h)
  BY <1>2, <1>3, <1>4, <1>5 DEF RerolledReplaced
<1>9. ReplacedRerolled(h)
  BY <1>2, <1>3, <1>4, <1>5 DEF ReplacedRerolled
<1>10. ExplodedStands(h)
  BY <1>2, <1>3, <1>4, <1>5 DEF ExplodedStands
<1> QED
  BY <1>3, <1>7, <1>8, <1>9, <1>10, GroupFacts

-----------------------------------------------------------------------------
(* The inductive invariant.                                                *)

\* What is still to be evaluated can be.
WorkSound ==
    /\ text \in Texts
    /\ Evaluable(work)
    /\ \A n \in ToSet(work) : n.kind = "keep" =>
          /\ Evaluable(Order(SumOf(n)))
          /\ \A part \in ToSet(Order(SumOf(n))) : part.kind # "keep"

GroupsSound ==
    /\ groups \in Seq(Seq(Die))
    /\ terms \in Seq(ToSet(terms))
    /\ Len(terms) = Len(groups)
    /\ \A k \in DOMAIN terms : terms[k].count \in Nat \ {0}
    /\ DiceExplained

\* The dice of the term under evaluation are being thrown or modified.
Open == group \in DOMAIN groups

\* The open group is that of the next node, which has all its dice when its
\* modifiers begin.
OpenSound ==
    /\ group \in {Len(groups), Len(groups) + 1} \ {0}
    /\ mod \in Nat /\ cursor \in Nat \ {0} /\ bound \in Nat
    /\ status = "new" => groups = << >>
    /\ ~ Open => mod = 0
    /\ Open => /\ work # << >>
               /\ node.kind = "dice"
               /\ terms[group] = node
               /\ replay = << >>
               /\ mod = 0 <=> Len(groups[group]) < node.count

AtLoop == mod \in DOMAIN node.mods /\ node.mods[mod].kind \in {"rr", "ro", "e"}

\* Nothing is left to do about die j of the open group.
Passed(j) ==
    \/ groups[group][j].state # "kept"
    \/ ~ Matches(node, node.mods[mod], groups[group][j].value)

\* The loop has left no die behind that it should have acted on.
LoopSound ==
    Open /\ mod # 0 /\ AtLoop =>
        /\ bound <= Len(groups[group])
        /\ \A j \in DOMAIN groups[group] : j < cursor => Passed(j)

Inv == WorkSound /\ GroupsSound /\ OpenSound /\ LoopSound

-----------------------------------------------------------------------------
(* Sequences, as sequences of their own elements.                          *)

\* A sequence is one of its own elements.
LEMMA OwnElements ==
    ASSUME NEW S, NEW t \in Seq(S)
    PROVE  /\ t \in Seq(ToSet(t))
           /\ ToSet(t) \subseteq S
           /\ \A i \in 1..Len(t) : t[i] \in ToSet(t)
<1>1. \A i \in 1..Len(t) : t[i] \in ToSet(t)
  BY DEF ToSet
<1>2. t \in Seq(ToSet(t))
  BY <1>1
<1>3. ToSet(t) \subseteq S
  BY DEF ToSet
<1> QED
  BY <1>1, <1>2, <1>3

\* What is left of a sequence, and what was taken, are its elements.
LEMMA TailElements ==
    ASSUME NEW s, s \in Seq(ToSet(s)), s # << >>
    PROVE  /\ Tail(s) \in Seq(ToSet(Tail(s)))
           /\ ToSet(Tail(s)) \subseteq ToSet(s)
           /\ Head(s) \in ToSet(s)
<1>1. Tail(s) \in Seq(ToSet(s)) /\ Head(s) \in ToSet(s)
  OBVIOUS
<1> QED
  BY <1>1, OwnElements

\* A concatenation has no other elements than its parts.
LEMMA ConcatElements ==
    ASSUME NEW r, r \in Seq(ToSet(r)), NEW s, s \in Seq(ToSet(s))
    PROVE  /\ r \o s \in Seq(ToSet(r \o s))
           /\ ToSet(r \o s) \subseteq ToSet(r) \cup ToSet(s)
<1>1. r \o s \in Seq(ToSet(r) \cup ToSet(s))
  OBVIOUS
<1> QED
  BY <1>1, OwnElements

\* An appended element comes after all the others.
LEMMA AppendElements ==
    ASSUME NEW s, s \in Seq(ToSet(s)), NEW e
    PROVE  /\ Append(s, e) \in Seq(ToSet(Append(s, e)))
           /\ Len(Append(s, e)) = Len(s) + 1
           /\ \A i \in 1..Len(s) : Append(s, e)[i] = s[i]
           /\ Append(s, e)[Len(s) + 1] = e
<1>1. Append(s, e) \in Seq(ToSet(s) \cup {e})
  OBVIOUS
<1>2. Append(s, e) \in Seq(ToSet(Append(s, e)))
  BY <1>1, OwnElements
<1> QED
  BY <1>2

-----------------------------------------------------------------------------
(* Steps that leave the dice alone.                                        *)

\* A roll that has not begun has no dice and nothing to evaluate.
LEMMA InitSound == Init => Inv
<1> SUFFICES ASSUME Init PROVE Inv
  OBVIOUS
<1>1. /\ text \in Texts /\ status = "new" /\ work = << >> /\ terms = << >>
      /\ groups = << >> /\ replay = << >> /\ group = 1 /\ mod = 0 /\ cursor = 1 /\ bound = 0
  BY DEF Init
<1>2. /\ \A S : << >> \in Seq(S)
      /\ ToSet(<< >>) = {}
      /\ Len(<< >>) = 0
      /\ DOMAIN << >> = {}
  BY DEF ToSet
<1>3. WorkSound
  BY <1>1, <1>2 DEF WorkSound, Evaluable
<1>4. GroupsSound
  BY <1>1, <1>2 DEF GroupsSound, DiceExplained
<1>5. ~ Open
  BY <1>1, <1>2 DEF Open
<1>6. OpenSound
  BY <1>1, <1>2, <1>5 DEF OpenSound
<1> QED
  BY <1>3, <1>4, <1>5, <1>6 DEF Inv, LoopSound

\* The next node can be evaluated.
LEMMA HeadSound ==
    ASSUME WorkSound, work # << >>
    PROVE  node \in ToSet(work) /\ Sound(node)
  BY TailElements DEF WorkSound, Evaluable, node

\* Modifiers are numbered from 1.
LEMMA ModifierNumber ==
    ASSUME WorkSound, work # << >>, node.kind = "dice", mod \in DOMAIN node.mods
    PROVE  mod \in Nat \ {0}
<1>1. node.mods \in Seq(ToSet(node.mods))
  BY HeadSound DEF Sound
<1>2. PICK mods : mods = node.mods
  OBVIOUS
<1>3. DOMAIN mods = 1..Len(mods)
  BY <1>1, <1>2
<1>4. mod \in 1..Len(mods) /\ Len(mods) \in Nat
  BY <1>1, <1>2, <1>3
<1> QED
  BY <1>4

\* Once a node has its value, the rest can still be evaluated.
LEMMA WorkShrinks ==
    ASSUME WorkSound, work # << >>, work' = Tail(work), text' = text
    PROVE  WorkSound'
<1>1. work \in Seq(ToSet(work)) /\ \A n \in ToSet(work) : Sound(n)
  BY DEF WorkSound, Evaluable
<1>2. work' \in Seq(ToSet(work')) /\ ToSet(work') \subseteq ToSet(work)
  BY <1>1, TailElements
<1> QED
  BY <1>1, <1>2 DEF WorkSound, Evaluable

\* The same nodes can be evaluated as before.
LEMMA WorkStays ==
    ASSUME WorkSound, UNCHANGED <<text, work>>
    PROVE  WorkSound'
  BY DEF WorkSound, Evaluable

\* Nothing but the status changes.
LEMMA OnlyStatus ==
    ASSUME Inv, UNCHANGED <<text, expr, work, results, terms, groups, replay, rolling>>,
           status' # "new" \/ groups = << >>
    PROVE  Inv'
<1>1. WorkSound'
  BY WorkStays DEF Inv
<1>2. GroupsSound'
  BY DEF Inv, GroupsSound, DiceExplained
<1>3. OpenSound'
  BY DEF Inv, OpenSound, Open, node, rolling
<1>4. LoopSound'
  BY DEF Inv, LoopSound, Open, AtLoop, Passed, node, rolling
<1> QED
  BY <1>1, <1>2, <1>3, <1>4 DEF Inv

\* An error ends the roll and moves no die.
LEMMA FailSound ==
    ASSUME Inv, NEW error, Fail(error), error # "new"
    PROVE  Inv'
  BY OnlyStatus DEF Fail

\* With no group open, and no dice moved, only the work matters.
LEMMA ClosedSteps ==
    ASSUME Inv, WorkSound', UNCHANGED <<terms, groups, rolling>>, ~ Open,
           status' # "new"
    PROVE  Inv'
<1>1. GroupsSound'
  BY DEF Inv, GroupsSound, DiceExplained
<1>2. ~ Open'
  BY DEF Open, rolling
<1>3. OpenSound'
  BY <1>2 DEF Inv, OpenSound, rolling
<1> QED
  BY <1>1, <1>2, <1>3 DEF Inv, LoopSound

\* ParseWithLimits gives a tree whose nodes can be evaluated, or its error.
LEMMA ParseTextSound == Inv /\ ParseText => Inv'
<1> SUFFICES ASSUME Inv, ParseText PROVE Inv'
  OBVIOUS
<1>1. status = "new" /\ groups = << >>
  BY DEF ParseText, Inv, OpenSound
<1>2. CASE Reading(text).error # "none"
  BY <1>1, <1>2, OnlyStatus DEF ParseText, Fail
<1>3. CASE Reading(text).error = "none"
  <2>1. /\ status' = "rolling"
        /\ work' = Order(Reading(text).node)
        /\ UNCHANGED <<text, results, terms, groups, replay, rolling>>
    BY <1>3 DEF ParseText
  <2>2. WorkSound'
    BY <1>3, <2>1, TreeAssumption DEF Inv, WorkSound
  <2>3. ~ Open
    BY <1>1 DEF Open
  <2> QED
    BY <2>1, <2>2, <2>3, ClosedSteps
<1> QED
  BY <1>2, <1>3

\* Evaluation of a node fails for a reason of its own.
LEMMA CombineFails ==
    ASSUME NEW n, Sound(n), n.kind \in {"literal", "variable", "unary", "binary", "call"},
           NEW parts
    PROVE  Combine(n, parts).status \notin {"new", "rolling"}
<1>1. \A v, kind, of, p : Explain(v, kind, of, p).status = v.status
  BY DEF Explain
<1>2. \A v : Ok(v).status = "ok" /\ Failed("overflow").status = "overflow"
  BY DEF Ok, Failed
<1>3. CASE n.kind = "literal"
  <2>1. Combine(n, parts) = Explain(Ok(n.value), "literal", "", parts)
    BY <1>3 DEF Combine
  <2>2. Explain(Ok(n.value), "literal", "", parts).status = Ok(n.value).status
    BY DEF Explain
  <2>3. Ok(n.value).status = "ok"
    BY DEF Ok
  <2> QED
    BY <2>1, <2>2, <2>3
<1>4. CASE n.kind = "variable"
  BY <1>1, <1>2, <1>4 DEF Combine, Failed
<1>5. CASE n.kind = "unary"
  BY <1>1, <1>2, <1>5 DEF Combine, Neg
<1>6. CASE n.kind = "binary"
  <2>1. Combine(n, parts).status = Operate(n.op, parts[1].value, parts[2].value).status
    BY <1>1, <1>6 DEF Combine
  <2>2. n.op \in {"+", "-", "*", "/"}
    BY <1>6 DEF Sound
  <2>3. \A a, b : /\ Add(a, b).status \notin {"new", "rolling"}
                    /\ Sub(a, b).status \notin {"new", "rolling"}
    BY <1>2 DEF Add, Sub
  <2>4. \A a, b : Mul(a, b).status \notin {"new", "rolling"}
    BY <1>2 DEF Mul
  <2>5. \A a, b : Div(a, b).status \notin {"new", "rolling"}
    BY DEF Div, Ok, Failed
  <2> QED
    BY <2>1, <2>2, <2>3, <2>4, <2>5 DEF Operate
<1>7. CASE n.kind = "call"
  BY <1>1, <1>2, <1>7 DEF Combine
<1> QED
  BY <1>3, <1>4, <1>5, <1>6, <1>7

\* eval of a literal, variable, operator or function throws no dice.
LEMMA EvaluateSound == Inv /\ Evaluate => Inv'
<1> SUFFICES ASSUME Inv, Evaluate PROVE Inv'
  OBVIOUS
<1>1. /\ status = "rolling" /\ work # << >>
      /\ node.kind \in {"literal", "variable", "unary", "binary", "call"}
      /\ Complete(Combine(node, args))
      /\ UNCHANGED <<terms, groups, replay, rolling>>
  BY DEF Evaluate, AtNode, node
<1>2. ~ Open
  BY <1>1 DEF Inv, OpenSound
<1>3. Combine(node, args).status # "new"
  BY <1>1, HeadSound, CombineFails DEF Inv
<1>4. CASE Combine(node, args).status # "ok"
  BY <1>1, <1>3, <1>4, FailSound DEF Complete
<1>5. CASE Combine(node, args).status = "ok"
  <2>1. work' = Tail(work) /\ text' = text /\ status' = status
    BY <1>1, <1>5 DEF Complete
  <2>2. WorkSound'
    BY <1>1, <2>1, WorkShrinks DEF Inv
  <2> QED
    BY <1>1, <1>2, <2>1, <2>2, ClosedSteps
<1> QED
  BY <1>4, <1>5

\* Expr.Roll returns the dice as they are.
LEMMA FinishSound == Inv /\ Finish => Inv'
<1> SUFFICES ASSUME Inv, Finish PROVE Inv'
  OBVIOUS
<1> QED
  BY OnlyStatus DEF Finish

\* The second evaluation of a grouped keep's items throws no dice.
LEMMA RereadSound == Inv /\ Reread => Inv'
<1> SUFFICES ASSUME Inv, Reread PROVE Inv'
  OBVIOUS
<1>1. /\ status = "rolling" /\ work # << >> /\ replay # << >>
  BY DEF Reread, AtNode, Replaying
<1>2. ~ Open
  BY <1>1 DEF Inv, OpenSound
<1>3. CASE DiceValue(groups[Head(replay)], node).status # "ok"
  BY <1>3, FailSound DEF Reread
<1>4. CASE DiceValue(groups[Head(replay)], node).status = "ok"
  <2>1. /\ Complete(ExplainDice(DiceValue(groups[Head(replay)], node), Head(replay)))
        /\ UNCHANGED <<terms, groups, rolling>>
    BY <1>4 DEF Reread
  <2>2. work' = Tail(work) /\ text' = text /\ status' = status
    BY <1>4, <2>1 DEF Complete, ExplainDice
  <2>3. WorkSound'
    BY <1>1, <2>2, WorkShrinks DEF Inv
  <2> QED
    BY <1>1, <1>2, <2>1, <2>2, <2>3, ClosedSteps
<1> QED
  BY <1>3, <1>4

-----------------------------------------------------------------------------
(* Steps that throw dice.                                                  *)

\* A die thrown opens its term's group, or joins it.
LEMMA ThrowSound == Inv /\ Throw => Inv'
<1> SUFFICES ASSUME Inv, Throw PROVE Inv'
  OBVIOUS
<1>1. /\ status = "rolling" /\ work # << >> /\ node.kind = "dice" /\ replay = << >> /\ mod = 0
      /\ UNCHANGED <<text, expr, status, work, results, replay, group, rerolls, explosions>>
  BY DEF Throw, AtRoll, AtNode, Replaying, node
<1>2. PICK v \in Faces(node) :
         IF group \in DOMAIN groups
         THEN groups' = [groups EXCEPT ![group] = Append(@, Thrown(v))] /\ UNCHANGED terms
         ELSE groups' = Append(groups, <<Thrown(v)>>) /\ terms' = Append(terms, node)
  BY DEF Throw
<1>3. v \in Int
  BY DEF Faces
<1>4. node.count \in Nat \ {0} /\ node' = node
  BY <1>1, HeadSound DEF Inv, Sound, node
<1>5. WorkSound'
  BY <1>1, WorkStays DEF Inv
<1>6. /\ groups \in Seq(Seq(Die)) /\ terms \in Seq(ToSet(terms)) /\ Len(terms) = Len(groups)
      /\ \A k \in DOMAIN groups : /\ terms[k].count \in Nat \ {0}
                                  /\ GroupExplained(groups[k], terms[k].count)
  BY DEF Inv, GroupsSound, DiceExplained
<1>7. group \in {Len(groups), Len(groups) + 1} \ {0}
  BY DEF Inv, OpenSound
<1>8. /\ groups' \in Seq(Seq(Die)) /\ terms' \in Seq(ToSet(terms')) /\ Len(terms') = Len(groups')
      /\ \A k \in DOMAIN groups' : /\ terms'[k].count \in Nat \ {0}
                                   /\ GroupExplained(groups'[k], terms'[k].count)
      /\ group \in DOMAIN groups' /\ group = Len(groups') /\ terms'[group] = node
      /\ Len(groups'[group]) <= node.count
  <2>1. CASE group \in DOMAIN groups
    <3>1. groups' = [groups EXCEPT ![group] = Append(groups[group], Thrown(v))] /\ terms' = terms
      BY <1>2, <2>1
    <3>2. terms[group] = node /\ Len(groups[group]) < node.count
      BY <1>1, <2>1 DEF Inv, OpenSound, Open
    <3>3. /\ groups[group] \in Seq(Die) /\ node.count \in Nat
          /\ GroupExplained(groups[group], node.count)
      BY <1>4, <1>6, <2>1, <3>2
    <3>4. PICK h : h = Append(groups[group], Thrown(v))
      OBVIOUS
    <3>5. h \in Seq(Die) /\ GroupExplained(h, node.count)
      BY <1>3, <3>2, <3>3, <3>4, ThrowExplained
    <3>6. Len(h) <= node.count
      BY <1>4, <3>2, <3>3, <3>4
    <3>7. /\ groups' \in Seq(Seq(Die)) /\ Len(groups') = Len(groups) /\ DOMAIN groups' = DOMAIN groups
          /\ groups'[group] = h
          /\ \A k \in DOMAIN groups : k # group => groups'[k] = groups[k]
      BY <1>6, <2>1, <3>1, <3>4, <3>5
    <3>8. group = Len(groups)
      BY <1>6, <1>7, <2>1
    <3> QED
      BY <1>6, <2>1, <3>1, <3>2, <3>5, <3>6, <3>7, <3>8
  <2>2. CASE group \notin DOMAIN groups
    <3>1. groups' = Append(groups, <<Thrown(v)>>) /\ terms' = Append(terms, node)
      BY <1>2, <2>2
    <3>2. PICK none : none = << >>
      OBVIOUS
    <3>3. PICK h : h = Append(none, Thrown(v))
      OBVIOUS
    <3>4. h \in Seq(Die) /\ GroupExplained(h, node.count)
      <4>1. none \in Seq(Die) /\ Len(none) = 0 /\ GroupExplained(none, node.count)
        BY <3>2 DEF GroupExplained
      <4>2. node.count \in Nat /\ Len(none) < node.count
        BY <1>4, <4>1
      <4> QED
        BY <1>3, <3>3, <4>1, <4>2, ThrowExplained
    <3>5. h = <<Thrown(v)>> /\ Len(h) = 1
      BY <3>2, <3>3
    <3>6. /\ groups' \in Seq(Seq(Die)) /\ Len(groups') = Len(groups) + 1
          /\ groups'[Len(groups) + 1] = h
          /\ \A k \in DOMAIN groups : groups'[k] = groups[k]
      BY <1>6, <3>1, <3>4, <3>5
    <3>7. /\ terms' \in Seq(ToSet(terms')) /\ Len(terms') = Len(terms) + 1
          /\ \A k \in DOMAIN groups : terms'[k] = terms[k]
          /\ terms'[Len(groups) + 1] = node
      BY <1>6, <3>1, AppendElements
    <3>8. group = Len(groups) + 1
      BY <1>6, <1>7, <2>2
    <3>9. DOMAIN groups' = DOMAIN groups \cup {group}
      BY <1>6, <3>6, <3>8
    <3>10. groups'[group] = h /\ terms'[group] = node /\ group \in DOMAIN groups'
      BY <3>6, <3>7, <3>8, <3>9
    <3>11. ASSUME NEW k \in DOMAIN groups'
           PROVE  /\ terms'[k].count \in Nat \ {0}
                  /\ GroupExplained(groups'[k], terms'[k].count)
      <4>1. CASE k = group
        BY <1>4, <3>4, <3>10, <4>1
      <4>2. CASE k \in DOMAIN groups
        BY <1>6, <3>6, <3>7, <4>2
      <4> QED
        BY <3>9, <4>1, <4>2
    <3>12. Len(groups'[group]) <= node.count
      BY <1>4, <3>5, <3>10
    <3>13. Len(terms') = Len(groups') /\ group = Len(groups')
      BY <1>6, <3>6, <3>7, <3>8
    <3> QED
      BY <3>6, <3>7, <3>10, <3>11, <3>12, <3>13
  <2> QED
    BY <2>1, <2>2
<1>9. GroupsSound'
  <2>1. DOMAIN terms' = DOMAIN groups'
    BY <1>8
  <2> QED
    BY <1>8, <2>1 DEF GroupsSound, DiceExplained
<1>10. \/ /\ Len(groups'[group]) = node.count
          /\ mod' = 1 /\ cursor' = 1 /\ bound' = Len(groups'[group])
       \/ /\ Len(groups'[group]) # node.count
          /\ UNCHANGED <<mod, cursor, bound>>
  BY <1>1 DEF Throw, NextModifier
<1>11. Len(groups'[group]) \in Nat
  BY <1>8
<1>12. OpenSound'
  <2>1. mod' \in Nat /\ cursor' \in Nat \ {0} /\ bound' \in Nat
    BY <1>1, <1>10, <1>11 DEF Inv, OpenSound
  <2>2. mod' = 0 <=> Len(groups'[group]) < node.count
    BY <1>1, <1>4, <1>8, <1>10, <1>11
  <2>3. group' \in DOMAIN groups' /\ group' = Len(groups') /\ group' = group
    BY <1>1, <1>8
  <2> QED
    BY <1>1, <1>4, <1>8, <2>1, <2>2, <2>3 DEF OpenSound, Open, node
<1>13. LoopSound'
  BY <1>1, <1>8, <1>10, <1>11 DEF LoopSound
<1> QED
  BY <1>5, <1>9, <1>12, <1>13 DEF Inv

-----------------------------------------------------------------------------
(* Steps that drop dice.                                                   *)

AllPositions == UNION {Positions(g) : g \in DOMAIN groups}

\* The positions of a group are those of its dice that count, and finitely many.
LEMMA PositionsAre ==
    ASSUME groups \in Seq(Seq(Die)), NEW g \in DOMAIN groups
    PROVE  /\ ArePositions(Positions(g))
           /\ Positions(g) \subseteq AllPositions
           /\ \A p : p \in Positions(g) <=>
                 \E j \in DOMAIN groups[g] : p = <<g, j>> /\ Counts(groups[g][j])
<1>1. groups[g] \in Seq(Die) /\ g \in Nat
  OBVIOUS
<1>2. PICK J : J = {j \in DOMAIN groups[g] : Counts(groups[g][j])}
  OBVIOUS
<1>3. IsFiniteSet(J)
  <2>1. IsFiniteSet(1..Len(groups[g]))
    BY <1>1, FS_Interval
  <2>2. J \in SUBSET (1..Len(groups[g]))
    BY <1>1, <1>2
  <2> QED
    BY <2>1, <2>2, FS_Subset
<1>4. Positions(g) = {<<g, j>> : j \in J}
  BY <1>2 DEF Positions
<1>5. IsFiniteSet(Positions(g))
  <2>1. [j \in J |-> <<g, j>>] \in Surjection(J, Positions(g))
    BY <1>4 DEF Surjection
  <2> QED
    BY <1>3, <2>1, FS_Surjection
<1>6. ASSUME NEW p \in Positions(g)
      PROVE  p[1] \in Nat /\ p[2] \in Nat /\ p = <<p[1], p[2]>> /\ Face(p) \in Int
  <2>1. PICK j \in J : p = <<g, j>>
    BY <1>4
  <2>2. j \in DOMAIN groups[g] /\ groups[g][j] \in Die
    BY <1>1, <1>2
  <2>3. groups[g][j].value \in Int
    BY <2>2, DieFields
  <2> QED
    BY <1>1, <2>1, <2>2, <2>3 DEF Face
<1> QED
  BY <1>2, <1>4, <1>5, <1>6 DEF ArePositions, AllPositions

\* applyKeep drops dice that count, so no link between dice breaks.
LEMMA DropSound ==
    ASSUME GroupsSound, NEW D, D \subseteq AllPositions, groups' = Drop(D), terms' = terms
    PROVE  /\ GroupsSound'
           /\ Len(groups') = Len(groups)
           /\ \A k \in DOMAIN groups : Len(groups'[k]) = Len(groups[k])
<1>1. /\ groups \in Seq(Seq(Die)) /\ terms \in Seq(ToSet(terms)) /\ Len(terms) = Len(groups)
      /\ \A k \in DOMAIN terms : terms[k].count \in Nat \ {0}
      /\ \A k \in DOMAIN groups : GroupExplained(groups[k], terms[k].count)
  BY DEF GroupsSound, DiceExplained
<1>2. /\ DOMAIN groups' = DOMAIN groups
      /\ \A k \in DOMAIN groups : groups'[k] =
            [j \in DOMAIN groups[k] |-> IF <<k, j>> \in D
                                        THEN [groups[k][j] EXCEPT !.state = "dropped"]
                                        ELSE groups[k][j]]
  BY DEF Drop
<1>3. DOMAIN terms = DOMAIN groups
  BY <1>1
<1>4. ASSUME NEW k \in DOMAIN groups
      PROVE  /\ groups'[k] \in Seq(Die)
             /\ Len(groups'[k]) = Len(groups[k])
             /\ GroupExplained(groups'[k], terms[k].count)
  <2>1. PICK Dk : Dk = {j \in DOMAIN groups[k] : <<k, j>> \in D}
    OBVIOUS
  <2>2. groups'[k] = DroppedIn(groups[k], Dk)
    BY <1>2, <2>1 DEF DroppedIn
  <2>3. CanDrop(groups[k], Dk)
    <3>1. SUFFICES ASSUME NEW j \in DOMAIN groups[k], j \in Dk
                   PROVE  Counts(groups[k][j])
      BY DEF CanDrop
    <3>2. <<k, j>> \in AllPositions
      BY <2>1, <3>1
    <3>3. PICK g \in DOMAIN groups : <<k, j>> \in Positions(g)
      BY <3>2 DEF AllPositions
    <3>4. PICK i \in DOMAIN groups[g] : <<k, j>> = <<g, i>> /\ Counts(groups[g][i])
      BY <1>1, <3>3, PositionsAre
    <3> QED
      BY <3>4
  <2>4. groups[k] \in Seq(Die) /\ terms[k].count \in Nat
    BY <1>1, <1>3
  <2>5. GroupExplained(groups[k], terms[k].count)
    BY <1>1
  <2> QED
    BY <2>2, <2>3, <2>4, <2>5, DropExplained
<1>5. groups' \in Seq(Seq(Die)) /\ Len(groups') = Len(groups)
  <2>1. DOMAIN groups = 1..Len(groups) /\ Len(groups) \in Nat
    BY <1>1
  <2>2. groups' = [g \in DOMAIN groups |-> groups'[g]]
    BY DEF Drop
  <2>3. groups' \in [1..Len(groups) -> Seq(Die)]
    BY <1>4, <2>1, <2>2
  <2> QED
    BY <2>1, <2>3
<1>6. GroupsSound'
  <2>1. DOMAIN terms' = DOMAIN terms
    OBVIOUS
  <2> QED
    BY <1>1, <1>2, <1>3, <1>4, <1>5, <2>1 DEF GroupsSound, DiceExplained
<1> QED
  BY <1>4, <1>5, <1>6

\* Dropping a group's dice is one of its modifiers.
LEMMA KeepSound == Inv /\ Keep => Inv'
<1> SUFFICES ASSUME Inv, Keep PROVE Inv'
  OBVIOUS
<1>1. /\ status = "rolling" /\ work # << >> /\ node.kind = "dice"
      /\ mod \in DOMAIN node.mods
  BY DEF Keep, AtModifier, AtRoll, AtNode, node
<1>2. CASE ~ KeepFits(Positions(group), node.mods[mod])
  BY <1>2, FailSound DEF Keep
<1>3. CASE KeepFits(Positions(group), node.mods[mod])
  <2>1. /\ groups' = Drop(Dropped(Positions(group), node.mods[mod]))
        /\ mod' = mod + 1 /\ cursor' = 1 /\ bound' = Len(groups'[group])
        /\ UNCHANGED <<text, expr, status, work, results, terms, replay, group, rerolls, explosions>>
    BY <1>3 DEF Keep, NextModifier
  <2>2. WorkSound'
    BY <2>1, WorkStays DEF Inv
  <2>3. mod # 0
    BY <1>1, ModifierNumber DEF Inv
  <2>4. Open /\ group \in DOMAIN groups
    BY <2>3 DEF Inv, OpenSound, Open
  <2>5. groups \in Seq(Seq(Die))
    BY DEF Inv, GroupsSound
  <2>6. Dropped(Positions(group), node.mods[mod]) \subseteq AllPositions
    BY <2>4, <2>5, PositionsAre DEF Dropped
  <2>7. /\ GroupsSound'
        /\ Len(groups') = Len(groups)
        /\ \A k \in DOMAIN groups : Len(groups'[k]) = Len(groups[k])
    BY <2>1, <2>6, DropSound DEF Inv
  <2>8. mod' \in Nat /\ mod' # 0 /\ bound' \in Nat /\ bound' = Len(groups[group])
    BY <2>1, <2>3, <2>4, <2>5, <2>7 DEF Inv, OpenSound
  <2>9. DOMAIN groups' = DOMAIN groups
    BY <2>1 DEF Drop
  <2>10. node' = node
    BY <2>1 DEF node
  <2>11. OpenSound'
    BY <2>1, <2>3, <2>4, <2>7, <2>8, <2>9, <2>10 DEF Inv, OpenSound, Open
  <2>12. LoopSound'
    BY <2>1, <2>4, <2>7, <2>8 DEF LoopSound
  <2> QED
    BY <2>2, <2>7, <2>11, <2>12 DEF Inv
<1> QED
  BY <1>2, <1>3

\* A grouped keep drops dice of closed groups, and its items are evaluated next.
LEMMA KeepGroupSound == Inv /\ KeepGroup => Inv'
<1> SUFFICES ASSUME Inv, KeepGroup PROVE Inv'
  OBVIOUS
<1>1. status = "rolling" /\ work # << >> /\ node.kind = "keep"
  BY DEF KeepGroup, AtNode, node
<1>2. CASE ~ KeepFits(Pooled, node.keep)
  BY <1>2, FailSound DEF KeepGroup
<1>3. CASE KeepFits(Pooled, node.keep)
  <2>1. /\ groups' = Drop(Dropped(Pooled, node.keep))
        /\ work' = Order(SumOf(node)) \o Tail(work)
        /\ UNCHANGED <<text, expr, status, terms, rolling>>
    BY <1>3 DEF KeepGroup
  <2>2. ~ Open
    BY <1>1 DEF Inv, OpenSound
  <2>3. Dropped(Pooled, node.keep) \subseteq AllPositions
    BY DEF Dropped, Pooled, AllPositions
  <2>4. /\ GroupsSound'
        /\ Len(groups') = Len(groups)
    BY <2>1, <2>3, DropSound DEF Inv
  <2>5. DOMAIN groups' = DOMAIN groups
    BY <2>1 DEF Drop
  <2>6. ~ Open'
    BY <2>1, <2>2, <2>5 DEF Open, rolling
  <2>7. OpenSound'
    BY <1>1, <2>1, <2>2, <2>4, <2>6 DEF Inv, OpenSound, rolling
  <2>8. WorkSound'
    <3>1. work \in Seq(ToSet(work)) /\ \A n \in ToSet(work) : Sound(n)
      BY DEF Inv, WorkSound, Evaluable
    <3>2. /\ Tail(work) \in Seq(ToSet(Tail(work)))
          /\ ToSet(Tail(work)) \subseteq ToSet(work)
      BY <1>1, <3>1, TailElements
    <3>3. node \in ToSet(work)
      BY <1>1, HeadSound DEF Inv
    <3>4. PICK sum : sum = Order(SumOf(node))
      OBVIOUS
    <3>5. Evaluable(sum) /\ \A part \in ToSet(sum) : part.kind # "keep"
      BY <1>1, <3>3, <3>4 DEF Inv, WorkSound
    <3>6. sum \in Seq(ToSet(sum)) /\ \A n \in ToSet(sum) : Sound(n)
      BY <3>5 DEF Evaluable
    <3>7. /\ work' \in Seq(ToSet(work'))
          /\ ToSet(work') \subseteq ToSet(sum) \cup ToSet(Tail(work))
      BY <2>1, <3>2, <3>4, <3>6, ConcatElements
    <3>8. \A n \in ToSet(work') : Sound(n)
      BY <3>1, <3>2, <3>6, <3>7
    <3>9. ASSUME NEW n \in ToSet(work'), n.kind = "keep"
          PROVE  /\ Evaluable(Order(SumOf(n)))
                 /\ \A part \in ToSet(Order(SumOf(n))) : part.kind # "keep"
      <4>1. n \in ToSet(work)
        BY <3>2, <3>5, <3>7, <3>9
      <4> QED
        BY <3>9, <4>1 DEF Inv, WorkSound
    <3>10. text' \in Texts
      BY <2>1 DEF Inv, WorkSound
    <3> QED
      BY <3>7, <3>8, <3>9, <3>10 DEF WorkSound, Evaluable
  <2> QED
    BY <2>4, <2>6, <2>7, <2>8 DEF Inv, LoopSound
<1> QED
  BY <1>2, <1>3

-----------------------------------------------------------------------------
(* Steps of the loops of rr, ro and e.                                     *)

\* What the loop still has to act on.
LEMMA CandidatesAre ==
    ASSUME Inv, Open, mod # 0, AtLoop,
           NEW Acted, Acted = Candidates(node.mods[mod])
    PROVE  /\ Acted \in SUBSET DOMAIN groups[group]
           /\ Acted # {} => Min(Acted) \in Acted /\ \A k \in Acted : Min(Acted) <= k
           /\ \A j \in Acted : groups[group][j].state = "kept"
           /\ \A j \in Acted : node.mods[mod].kind = "ro" => j <= bound
           /\ \A j \in DOMAIN groups[group] : j \notin Acted =>
                 Passed(j) \/ (node.mods[mod].kind = "ro" /\ j > bound)
<1>1. groups[group] \in Seq(Die)
  BY DEF Inv, GroupsSound, Open
<1>2. PICK n \in Nat : n = Len(groups[group]) /\ DOMAIN groups[group] = 1..n
  BY <1>1
<1>3. cursor \in Nat \ {0} /\ bound \in Nat /\ bound <= n
  BY <1>2 DEF Inv, OpenSound, LoopSound
<1>4. PICK last \in Nat : last = IF node.mods[mod].kind = "ro" THEN bound ELSE n
  BY <1>3
<1>5. Acted = {j \in cursor..last : /\ groups[group][j].state = "kept"
                                   /\ Matches(node, node.mods[mod], groups[group][j].value)}
  BY <1>2, <1>4 DEF Candidates
<1>6. last <= n
  BY <1>3, <1>4
<1>7. Acted \in SUBSET (1..n) /\ Acted \in SUBSET Nat
  BY <1>3, <1>5, <1>6
<1>8. IsFiniteSet(Acted)
  <2>1. IsFiniteSet(1..n)
    BY FS_Interval
  <2> QED
    BY <1>7, <2>1, FS_Subset
<1>9. Acted # {} => Min(Acted) \in Acted /\ \A k \in Acted : Min(Acted) <= k
  BY <1>7, <1>8, LeastNumber
<1>10. \A j \in Acted : groups[group][j].state = "kept"
  BY <1>5
<1>11. \A j \in Acted : node.mods[mod].kind = "ro" => j <= bound
  BY <1>3, <1>4, <1>5
<1>12. ASSUME NEW j \in 1..n, j \notin Acted
       PROVE  Passed(j) \/ (node.mods[mod].kind = "ro" /\ j > bound)
  <2>1. CASE j < cursor
    BY <1>2, <2>1 DEF Inv, LoopSound
  <2>2. CASE j >= cursor /\ j <= last
    BY <1>3, <1>5, <1>12, <2>2 DEF Passed
  <2>3. CASE j > last
    BY <1>4, <2>3
  <2> QED
    BY <1>3, <2>1, <2>2, <2>3
<1> QED
  BY <1>2, <1>7, <1>9, <1>10, <1>11, <1>12

\* groupRoller.add: the die marked was the first that called for it, so no die
\* before the cursor does, and it had caused none.
LEMMA SpawnSound ==
    ASSUME Inv, status = "rolling", work # << >>, node.kind = "dice",
           mod \in DOMAIN node.mods, AtLoop,
           NEW s \in {"rerolled", "exploded"},
           Candidates(node.mods[mod]) # {},
           Spawn(Min(Candidates(node.mods[mod])), s)
    PROVE  Inv'
<1>1. mod \in Nat \ {0}
  BY ModifierNumber DEF Inv
<1>2. Open
  BY <1>1 DEF Inv, OpenSound
<1>3. PICK Acted : Acted = Candidates(node.mods[mod])
  OBVIOUS
<1>4. PICK j : j = Min(Acted)
  OBVIOUS
<1>5. /\ j \in DOMAIN groups[group] /\ groups[group][j].state = "kept"
      /\ \A i \in DOMAIN groups[group] : i < j => Passed(i)
  <2>1. /\ Acted \in SUBSET DOMAIN groups[group]
        /\ Acted # {} => Min(Acted) \in Acted /\ \A k \in Acted : Min(Acted) <= k
        /\ \A i \in Acted : groups[group][i].state = "kept"
        /\ \A i \in Acted : node.mods[mod].kind = "ro" => i <= bound
        /\ \A i \in DOMAIN groups[group] : i \notin Acted =>
              Passed(i) \/ (node.mods[mod].kind = "ro" /\ i > bound)
    BY <1>1, <1>2, <1>3, CandidatesAre
  <2>2. j \in Acted /\ \A k \in Acted : j <= k
    BY <1>3, <1>4, <2>1
  <2>3. DOMAIN groups[group] \subseteq Nat /\ bound \in Nat
    <3>1. groups[group] \in Seq(Die)
      BY <1>2 DEF Inv, GroupsSound, Open
    <3>2. DOMAIN groups[group] \subseteq Nat
      BY <3>1
    <3> QED
      BY <3>2 DEF Inv, OpenSound
  <2> QED
    BY <2>1, <2>2, <2>3
<1>6. CASE Len(groups[group]) >= MaxDice
  BY <1>6, FailSound DEF Spawn
<1>7. CASE ~ (Len(groups[group]) >= MaxDice)
  <2>1. PICK v \in Faces(node) : groups' = [groups EXCEPT ![group] = Spawned(j, s, Thrown(v))]
    BY <1>3, <1>4, <1>7 DEF Spawn
  <2>2. /\ cursor' = j + 1
        /\ UNCHANGED <<text, expr, status, work, results, terms, replay, group, mod, bound>>
    BY <1>3, <1>4, <1>7 DEF Spawn
  <2>3. PICK h : h = SpawnedIn(groups[group], j, s, v)
    OBVIOUS
  <2>4. groups' = [groups EXCEPT ![group] = h]
    BY <2>1, <2>3 DEF Spawned, SpawnedIn
  <2>5. v \in Int
    BY DEF Faces
  <2>6. /\ groups \in Seq(Seq(Die)) /\ terms \in Seq(ToSet(terms)) /\ Len(terms) = Len(groups)
        /\ \A k \in DOMAIN terms : terms[k].count \in Nat \ {0}
        /\ \A k \in DOMAIN groups : GroupExplained(groups[k], terms[k].count)
    BY DEF Inv, GroupsSound, DiceExplained
  <2>7. /\ group \in DOMAIN groups /\ groups[group] \in Seq(Die)
        /\ terms[group] = node
    BY <1>2, <2>6 DEF Inv, OpenSound, Open
  <2>8. node.count \in Nat /\ node.count <= Len(groups[group])
    BY <1>1, <1>2, <2>6, <2>7 DEF Inv, OpenSound
  <2>9. GroupExplained(groups[group], node.count)
    BY <2>6, <2>7
  <2>10. GroupExplained(h, node.count)
    BY <1>5, <2>3, <2>5, <2>7, <2>8, <2>9, SpawnExplained
  <2>11. MarksAndAdds(groups[group], j, s, h)
    BY <1>5, <2>3, <2>5, <2>7, SpawnFields
  <2>12. h \in Seq(Die) /\ Len(h) = Len(groups[group]) + 1
    BY <2>11 DEF MarksAndAdds
  <2>13. /\ groups' \in Seq(Seq(Die)) /\ Len(groups') = Len(groups)
         /\ DOMAIN groups' = DOMAIN groups
         /\ groups'[group] = h
         /\ \A k \in DOMAIN groups : k # group => groups'[k] = groups[k]
    BY <2>4, <2>6, <2>7, <2>12
  <2>14. GroupsSound'
    <3>1. DOMAIN terms' = DOMAIN terms
      BY <2>2
    <3> QED
      BY <2>2, <2>6, <2>7, <2>10, <2>13, <3>1 DEF GroupsSound, DiceExplained
  <2>15. WorkSound'
    BY <2>2, WorkStays DEF Inv
  <2>16. node' = node
    BY <2>2 DEF node
  <2>17. j + 1 \in Nat \ {0} /\ Len(groups[group]) \in Nat
    BY <1>5, <2>7
  <2>18. OpenSound'
    BY <1>1, <1>2, <2>2, <2>7, <2>8, <2>12, <2>13, <2>16, <2>17 DEF Inv, OpenSound, Open
  <2>19. LoopSound'
    <3>1. bound' <= Len(groups'[group])
      BY <1>1, <1>2, <2>2, <2>12, <2>13, <2>17 DEF Inv, LoopSound, OpenSound
    <3>2. ASSUME NEW i \in DOMAIN h, i < j + 1
          PROVE  h[i].state # "kept" \/ ~ Matches(node, node.mods[mod], h[i].value)
      <4>1. i <= j /\ i \in DOMAIN groups[group]
        BY <1>5, <2>7, <2>12, <3>2
      <4>2. CASE i = j
        BY <2>11, <4>2 DEF MarksAndAdds
      <4>3. CASE i # j
        <5>1. i \in Nat /\ j \in Nat
          BY <1>5, <2>7, <4>1
        <5>2. i < j /\ h[i] = groups[group][i]
          BY <2>11, <4>1, <4>3, <5>1 DEF MarksAndAdds
        <5> QED
          BY <1>5, <4>1, <5>2 DEF Passed
      <4> QED
        BY <4>2, <4>3
    <3> QED
      BY <2>2, <2>13, <2>16, <3>1, <3>2 DEF LoopSound, Passed
  <2> QED
    BY <2>14, <2>15, <2>18, <2>19 DEF Inv
<1> QED
  BY <1>6, <1>7

\* One iteration of reroll.
LEMMA RerollSound == Inv /\ Reroll => Inv'
<1> SUFFICES ASSUME Inv, Reroll PROVE Inv'
  OBVIOUS
<1>1. /\ status = "rolling" /\ work # << >> /\ node.kind = "dice"
      /\ mod \in DOMAIN node.mods /\ AtLoop
      /\ Candidates(node.mods[mod]) # {}
  BY DEF Reroll, AtModifier, AtRoll, AtNode, node, AtLoop
<1>2. CASE rerolls + 1 > MaxRerolls
  BY <1>2, FailSound DEF Reroll
<1>3. CASE ~ (rerolls + 1 > MaxRerolls)
  <2>1. Spawn(Min(Candidates(node.mods[mod])), "rerolled")
    BY <1>3 DEF Reroll
  <2> QED
    BY <1>1, <2>1, SpawnSound
<1> QED
  BY <1>2, <1>3

\* One iteration of explode.
LEMMA ExplodeSound == Inv /\ Explode => Inv'
<1> SUFFICES ASSUME Inv, Explode PROVE Inv'
  OBVIOUS
<1>1. /\ status = "rolling" /\ work # << >> /\ node.kind = "dice"
      /\ mod \in DOMAIN node.mods /\ AtLoop
      /\ Candidates(node.mods[mod]) # {}
  BY DEF Explode, AtModifier, AtRoll, AtNode, node, AtLoop
<1>2. CASE explosions + 1 > MaxExplosions
  BY <1>2, FailSound DEF Explode
<1>3. CASE ~ (explosions + 1 > MaxExplosions)
  <2>1. Spawn(Min(Candidates(node.mods[mod])), "exploded")
    BY <1>3 DEF Explode
  <2> QED
    BY <1>1, <2>1, SpawnSound
<1> QED
  BY <1>2, <1>3

-----------------------------------------------------------------------------
(* The ends of a modifier and of a term.                                   *)

\* The next modifier begins with a loop that has passed no die.
LEMMA ModifiedSound == Inv /\ Modified => Inv'
<1> SUFFICES ASSUME Inv, Modified PROVE Inv'
  OBVIOUS
<1>1. /\ status = "rolling" /\ work # << >> /\ node.kind = "dice"
      /\ mod \in DOMAIN node.mods
  BY DEF Modified, AtModifier, AtRoll, AtNode, node
<1>2. /\ mod' = mod + 1 /\ cursor' = 1 /\ bound' = Len(groups'[group])
      /\ UNCHANGED <<groups, text, expr, status, work, results, terms, replay, group,
                     rerolls, explosions>>
  BY DEF Modified, NextModifier
<1>3. mod \in Nat \ {0}
  BY <1>1, ModifierNumber DEF Inv
<1>4. group \in DOMAIN groups
  BY <1>3 DEF Inv, OpenSound, Open
<1>5. Len(groups[group]) \in Nat
  BY <1>4 DEF Inv, GroupsSound
<1>6. WorkSound'
  BY <1>2, WorkStays DEF Inv
<1>7. GroupsSound'
  BY <1>2 DEF Inv, GroupsSound, DiceExplained
<1>8. node' = node
  BY <1>2 DEF node
<1>9. OpenSound'
  BY <1>2, <1>3, <1>4, <1>5, <1>8 DEF Inv, OpenSound, Open
<1>10. LoopSound'
  <2>1. bound' <= Len(groups'[group])
    BY <1>2, <1>5
  <2>2. \A j \in DOMAIN groups[group] : ~ (j < 1)
    BY <1>4 DEF Inv, GroupsSound
  <2> QED
    BY <1>2, <2>1, <2>2 DEF LoopSound
<1> QED
  BY <1>6, <1>7, <1>9, <1>10 DEF Inv

\* A term that has its value closes its group.
LEMMA GroupDoneSound == Inv /\ GroupDone => Inv'
<1> SUFFICES ASSUME Inv, GroupDone PROVE Inv'
  OBVIOUS
<1>1. /\ status = "rolling" /\ work # << >> /\ node.kind = "dice"
      /\ mod > Len(node.mods)
  BY DEF GroupDone, AtRoll, AtNode, node
<1>2. CASE DiceValue(groups[group], node).status # "ok"
  BY <1>2, FailSound DEF GroupDone
<1>3. CASE DiceValue(groups[group], node).status = "ok"
  <2>1. /\ Complete(ExplainDice(DiceValue(groups[group], node), group))
        /\ group' = group + 1 /\ mod' = 0 /\ cursor' = 1 /\ bound' = 0
        /\ UNCHANGED <<terms, groups, replay>>
    BY <1>3 DEF GroupDone
  <2>2. work' = Tail(work) /\ text' = text /\ status' = status
    BY <1>3, <2>1 DEF Complete, ExplainDice
  <2>3. WorkSound'
    BY <1>1, <2>2, WorkShrinks DEF Inv
  <2>4. GroupsSound'
    BY <2>1 DEF Inv, GroupsSound, DiceExplained
  <2>5. mod # 0
    <3>1. Len(node.mods) \in Nat
      BY <1>1, HeadSound DEF Inv, Sound
    <3> QED
      BY <1>1, <3>1
  <2>6. group = Len(groups) /\ Len(groups) \in Nat /\ DOMAIN groups = 1..Len(groups)
    BY <2>5 DEF Inv, OpenSound, GroupsSound, Open
  <2>7. ~ Open'
    BY <2>1, <2>6 DEF Open
  <2>8. OpenSound'
    BY <1>1, <2>1, <2>2, <2>6, <2>7 DEF Inv, OpenSound
  <2> QED
    BY <2>3, <2>4, <2>7, <2>8 DEF Inv, LoopSound
<1> QED
  BY <1>2, <1>3

-----------------------------------------------------------------------------
(* The theorems.                                                           *)

\* Every step keeps the inductive invariant.
LEMMA StepSound == Inv /\ [Next]_vars => Inv'
<1> SUFFICES ASSUME Inv, [Next]_vars PROVE Inv'
  OBVIOUS
<1>1. CASE ParseText
  BY <1>1, ParseTextSound
<1>2. CASE Evaluate
  BY <1>2, EvaluateSound
<1>3. CASE Throw
  BY <1>3, ThrowSound
<1>4. CASE Keep
  BY <1>4, KeepSound
<1>5. CASE Reroll
  BY <1>5, RerollSound
<1>6. CASE Explode
  BY <1>6, ExplodeSound
<1>7. CASE Modified
  BY <1>7, ModifiedSound
<1>8. CASE GroupDone
  BY <1>8, GroupDoneSound
<1>9. CASE KeepGroup
  BY <1>9, KeepGroupSound
<1>10. CASE Reread
  BY <1>10, RereadSound
<1>11. CASE Finish
  BY <1>11, FinishSound
<1>12. CASE UNCHANGED vars
  <2>1. status' # "new" \/ groups = << >>
    BY <1>12 DEF vars, Inv, OpenSound
  <2> QED
    BY <1>12, <2>1, OnlyStatus DEF vars
<1> QED
  BY <1>1, <1>2, <1>3, <1>4, <1>5, <1>6, <1>7, <1>8, <1>9, <1>10, <1>11, <1>12
     DEF Next, Roll, Rolled

\* The inductive invariant holds of every roll.
THEOREM InvHolds == Spec => []Inv
<1> QED
  BY InitSound, StepSound, PTL DEF Spec

(***************************************************************************)
(* Whatever the formula, the limits and the faces, the dice of every group *)
(* explain themselves, while a roll runs and when it has ended.            *)
(***************************************************************************)
THEOREM DiceAlwaysExplained == Spec => []DiceExplained
<1>1. Inv => DiceExplained
  BY DEF Inv, GroupsSound
<1> QED
  BY <1>1, InvHolds, PTL

-----------------------------------------------------------------------------
(* What modifiers leave behind.                                            *)

\* Of the dice that count, those dropped count no longer; others are as before.
LEMMA DropLeaves ==
    ASSUME groups \in Seq(Seq(Die)), NEW D, groups' = Drop(D), NEW g \in DOMAIN groups
    PROVE  Positions(g)' = Positions(g) \ D
<1>1. /\ groups'[g] = [j \in DOMAIN groups[g] |-> IF <<g, j>> \in D
                                                 THEN [groups[g][j] EXCEPT !.state = "dropped"]
                                                 ELSE groups[g][j]]
      /\ DOMAIN groups'[g] = DOMAIN groups[g]
  BY DEF Drop
<1>2. \A j \in DOMAIN groups[g] : groups[g][j] \in Die
  BY SMT
<1>3. ASSUME NEW j \in DOMAIN groups[g]
      PROVE  Counts(groups'[g][j]) <=> Counts(groups[g][j]) /\ <<g, j>> \notin D
  <2>1. CASE <<g, j>> \in D
    <3>1. groups'[g][j].state = "dropped"
      BY <1>1, <1>2, <2>1 DEF Die
    <3> QED
      BY <2>1, <3>1 DEF Counts
  <2>2. CASE <<g, j>> \notin D
    BY <1>1, <2>2 DEF Counts
  <2> QED
    BY <2>1, <2>2
<1>4. ASSUME NEW p
      PROVE  p \in Positions(g)' <=> p \in Positions(g) \ D
  <2>1. p \in Positions(g)' <=>
           \E j \in DOMAIN groups'[g] : p = <<g, j>> /\ Counts(groups'[g][j])
    BY Zenon DEF Positions, Counts
  <2>2. p \in Positions(g) <=>
           \E j \in DOMAIN groups[g] : p = <<g, j>> /\ Counts(groups[g][j])
    BY PositionsAre
  <2> QED
    BY <1>1, <1>3, <2>1, <2>2
<1> QED
  BY <1>4

\* kh, kl, ph and pl keep or drop what they say of one term's dice.
LEMMA KeepSettles ==
    ASSUME Inv, Keep, mod' = mod + 1
    PROVE  Settled(Positions(group), Positions(group)', node.mods[mod])
<1>1. /\ work # << >> /\ node.kind = "dice"
      /\ mod \in DOMAIN node.mods /\ IsKeepDrop(node.mods[mod])
  BY DEF Keep, AtModifier, AtRoll, AtNode, node, IsKeepDrop
<1>2. mod \in Nat \ {0} /\ Sound(node)
  BY <1>1, ModifierNumber, HeadSound DEF Inv
<1>3. node.mods[mod].count \in Nat
  BY <1>1, <1>2 DEF Sound
<1>4. KeepFits(Positions(group), node.mods[mod])
  <2>1. CASE ~ KeepFits(Positions(group), node.mods[mod])
    <3>1. mod' = mod
      BY <2>1 DEF Keep, Fail, rolling
    <3> QED
      BY <1>2, <3>1
  <2> QED
    BY <2>1
<1>5. /\ groups' = Drop(Dropped(Positions(group), node.mods[mod]))
      /\ group' = group
  BY <1>4 DEF Keep
<1>6. groups \in Seq(Seq(Die)) /\ group \in DOMAIN groups
  BY <1>2 DEF Inv, GroupsSound, OpenSound, Open
<1>7. PICK m : m = node.mods[mod]
  OBVIOUS
<1>8. PICK P : P = Positions(group)
  OBVIOUS
<1>9. PICK g : g = group
  OBVIOUS
<1>10. Positions(g)' = P \ Dropped(P, m)
  <2>1. PICK D : D = Dropped(P, m)
    OBVIOUS
  <2>2. groups' = Drop(D) /\ g \in DOMAIN groups /\ P = Positions(g)
    BY <1>5, <1>6, <1>7, <1>8, <1>9, <2>1
  <2>3. Positions(g)' = Positions(g) \ D
    BY <1>6, <2>2, DropLeaves
  <2> QED
    BY <2>1, <2>2, <2>3
<1>11. Positions(group)' = Positions(g)'
  BY <1>5, <1>9 DEF Positions
<1>12. ArePositions(P)
  BY <1>6, <1>8, PositionsAre
<1>13. IsKeepDrop(m) /\ m.count \in Nat /\ KeepFits(P, m)
  BY <1>1, <1>3, <1>4, <1>7, <1>8
<1>14. Kept(P, P \ Dropped(P, m), m)
  BY <1>12, <1>13, KeepKeepsBest
<1> QED
  BY <1>7, <1>8, <1>10, <1>11, <1>13, <1>14 DEF Settled

\* The loop of rr, ro or e ends when no die calls for more.
LEMMA LoopSettles ==
    ASSUME Inv, Modified, mod' = mod + 1
    PROVE  Settled(Positions(group), Positions(group)', node.mods[mod])
<1>1. /\ work # << >> /\ node.kind = "dice" /\ mod \in DOMAIN node.mods
      /\ node.mods[mod].kind \in {"rr", "ro", "e", "cs"}
  BY DEF Modified, AtModifier, AtRoll, AtNode, node
<1>2. ~ IsKeepDrop(node.mods[mod])
  BY <1>1 DEF IsKeepDrop
<1>3. CASE node.mods[mod].kind = "cs"
  BY <1>2, <1>3 DEF Settled
<1>4. CASE node.mods[mod].kind # "cs"
  <2>1. Candidates(node.mods[mod]) = {} /\ AtLoop
    BY <1>1, <1>4 DEF Modified, AtModifier, node, AtLoop
  <2>2. mod # 0
    BY <1>1, ModifierNumber DEF Inv
  <2>3. Open
    BY <2>2 DEF Inv, OpenSound
  <2>4. PICK Acted : Acted = Candidates(node.mods[mod])
    OBVIOUS
  <2>5. /\ Acted \in SUBSET DOMAIN groups[group]
        /\ Acted # {} => Min(Acted) \in Acted /\ \A k \in Acted : Min(Acted) <= k
        /\ \A i \in Acted : groups[group][i].state = "kept"
        /\ \A i \in Acted : node.mods[mod].kind = "ro" => i <= bound
        /\ \A i \in DOMAIN groups[group] : i \notin Acted =>
              Passed(i) \/ (node.mods[mod].kind = "ro" /\ i > bound)
    BY <2>2, <2>1, <2>3, <2>4, CandidatesAre
  <2>6. \A i \in DOMAIN groups[group] :
           Passed(i) \/ (node.mods[mod].kind = "ro" /\ i > bound)
    BY <2>1, <2>4, <2>5
  <2> QED
    BY <1>2, <2>6 DEF Settled, Passed
<1> QED
  BY <1>3, <1>4

\* A modifier is done by these two steps only.
LEMMA ModifierStep ==
    Inv /\ [Next]_vars =>
        (mod # 0 /\ mod' = mod + 1 => Settled(Positions(group), Positions(group)', node.mods[mod]))
<1> SUFFICES ASSUME Inv, [Next]_vars, mod # 0, mod' = mod + 1
             PROVE  Settled(Positions(group), Positions(group)', node.mods[mod])
  OBVIOUS
<1>1. mod \in Nat /\ mod' # mod /\ mod' # 0
  BY DEF Inv, OpenSound
<1>2. CASE Keep
  BY <1>2, KeepSettles
<1>3. CASE Modified
  BY <1>3, LoopSettles
<1>4. ASSUME ParseText \/ Evaluate \/ KeepGroup \/ Reread \/ Finish \/ UNCHANGED vars
      PROVE  FALSE
  BY <1>1, <1>4 DEF ParseText, Evaluate, KeepGroup, Reread, Finish, vars, rolling, Fail
<1>5. ASSUME Throw PROVE FALSE
  BY <1>5 DEF Throw
<1>6. ASSUME Reroll \/ Explode PROVE FALSE
  <2>1. ASSUME NEW j, NEW s, Spawn(j, s) PROVE FALSE
    BY <1>1, <2>1 DEF Spawn, Fail, rolling
  <2>2. ASSUME NEW error, Fail(error) PROVE FALSE
    BY <1>1, <2>2 DEF Fail, rolling
  <2> QED
    BY <1>6, <2>1, <2>2 DEF Reroll, Explode
<1>7. ASSUME GroupDone PROVE FALSE
  BY <1>1, <1>7 DEF GroupDone, Fail, rolling
<1> QED
  BY <1>2, <1>3, <1>4, <1>5, <1>6, <1>7 DEF Next, Roll, Rolled

(***************************************************************************)
(* Every modifier of every roll does what doc.go says: kh, kl, ph and pl   *)
(* keep or drop as many dice as they name, the best or the worst, and none *)
(* is left that rr, ro or e should have acted on.                          *)
(***************************************************************************)
THEOREM ModifiersAreDone == Spec => ModifiersDone
<1> QED
  BY InvHolds, ModifierStep, PTL DEF Spec, ModifiersDone

\* The dice of a grouped keep are positions too.
LEMMA PooledAre ==
    ASSUME groups \in Seq(Seq(Die))
    PROVE  ArePositions(Pooled)
<1> DEFINE G == DOMAIN groups \cap ToSet(GroupsOf(args))
           S == {Positions(g) : g \in G}
<1>1. IsFiniteSet(G)
  <2>1. DOMAIN groups = 1..Len(groups) /\ 1 \in Int /\ Len(groups) \in Int
    OBVIOUS
  <2>2. IsFiniteSet(1..Len(groups))
    BY <2>1, FS_Interval
  <2>3. G \in SUBSET (1..Len(groups))
    BY <2>1
  <2> QED
    BY <2>2, <2>3, FS_Subset
<1>2. IsFiniteSet(S)
  <2> HIDE DEF G
  <2>1. [g \in G |-> Positions(g)] \in Surjection(G, S)
    BY DEF Surjection
  <2> QED
    BY <1>1, <2>1, FS_Surjection
<1>3. \A g \in G : ArePositions(Positions(g))
  BY PositionsAre
<1>4. Pooled = UNION S
  BY DEF Pooled
<1>5. IsFiniteSet(UNION S)
  <2>1. \A T \in S : IsFiniteSet(T)
    BY <1>3 DEF ArePositions
  <2> HIDE DEF S
  <2> QED
    BY <1>2, <2>1, FS_UNION
<1>6. ASSUME NEW p \in UNION S
      PROVE  p[1] \in Nat /\ p[2] \in Nat /\ p = <<p[1], p[2]>> /\ Face(p) \in Int
  <2>1. PICK g \in G : p \in Positions(g)
    OBVIOUS
  <2> QED
    BY <1>3, <2>1 DEF ArePositions
<1> HIDE DEF G, S
<1> QED
  BY <1>4, <1>5, <1>6 DEF ArePositions

\* A grouped keep keeps or drops what it says of its items' dice.
LEMMA GroupKeepSettles ==
    ASSUME Inv, KeepGroup, status' = "rolling"
    PROVE  /\ Kept(Pooled, PooledAfter, node.keep)
           /\ \A g \in DOMAIN groups \ ToSet(GroupsOf(args)) : groups'[g] = groups[g]
<1>1. work # << >> /\ node.kind = "keep" /\ groups \in Seq(Seq(Die))
  BY DEF KeepGroup, AtNode, node, Inv, GroupsSound
<1>2. IsKeepDrop(node.keep) /\ node.keep.count \in Nat
  BY <1>1, HeadSound DEF Inv, Sound
<1>3. KeepFits(Pooled, node.keep)
  BY DEF KeepGroup, Fail
<1>4. groups' = Drop(Dropped(Pooled, node.keep))
  BY <1>3 DEF KeepGroup
<1>5. PICK m : m = node.keep
  OBVIOUS
<1>6. PICK P : P = Pooled
  OBVIOUS
<1>7. PICK D : D = Dropped(P, m)
  OBVIOUS
<1>8. PICK R : R = ToSet(GroupsOf(args))
  OBVIOUS
<1>9. D \subseteq P /\ Kept(P, P \ D, m)
  <2>1. ArePositions(P)
    BY <1>1, <1>6, PooledAre
  <2>2. IsKeepDrop(m) /\ m.count \in Nat /\ KeepFits(P, m)
    BY <1>2, <1>3, <1>5, <1>6
  <2> QED
    BY <1>7, <2>1, <2>2, KeepKeepsBest
<1>10. P = UNION {Positions(g) : g \in DOMAIN groups \cap R}
  BY <1>6, <1>8 DEF Pooled
<1>11. ASSUME NEW g \in DOMAIN groups
       PROVE  /\ \A p \in Positions(g) : p[1] = g
              /\ Positions(g)' = Positions(g) \ D
  <2>1. \A p : p \in Positions(g) <=>
           \E j \in DOMAIN groups[g] : p = <<g, j>> /\ Counts(groups[g][j])
    BY <1>1, PositionsAre
  <2>2. groups' = Drop(D)
    BY <1>4, <1>5, <1>6, <1>7
  <2>3. Positions(g)' = Positions(g) \ D
    BY <1>1, <2>2, DropLeaves
  <2> QED
    BY <2>1, <2>3
<1>12. PooledAfter = P \ D
  <2>1. PooledAfter = {p \in UNION {Positions(g)' : g \in DOMAIN groups} : p[1] \in R}
    BY <1>8 DEF PooledAfter
  <2>2. UNION {Positions(g)' : g \in DOMAIN groups} = UNION {Positions(g) \ D : g \in DOMAIN groups}
    BY <1>11
  <2>3. ASSUME NEW p
        PROVE  p \in PooledAfter <=> p \in P \ D
    <3>1. p \in PooledAfter <=> (\E g \in DOMAIN groups : p \in Positions(g) \ D) /\ p[1] \in R
      BY <2>1, <2>2
    <3>2. p \in P <=> \E g \in DOMAIN groups \cap R : p \in Positions(g)
      BY <1>10
    <3> QED
      BY <1>11, <3>1, <3>2
  <2> QED
    BY <2>3
<1>13. ASSUME NEW g \in DOMAIN groups \ R
       PROVE  groups'[g] = groups[g]
  <2>1. \A j \in DOMAIN groups[g] : <<g, j>> \notin D
    <3>1. SUFFICES ASSUME NEW j \in DOMAIN groups[g], <<g, j>> \in P PROVE FALSE
      BY <1>9
    <3>2. PICK h \in DOMAIN groups \cap R : <<g, j>> \in Positions(h)
      BY <1>10, <3>1
    <3>3. <<g, j>>[1] = h
      BY <1>11, <3>2
    <3> QED
      BY <1>13, <3>2, <3>3
  <2>2. groups'[g] = [j \in DOMAIN groups[g] |-> IF <<g, j>> \in D
                                                THEN [groups[g][j] EXCEPT !.state = "dropped"]
                                                ELSE groups[g][j]]
    BY <1>4, <1>5, <1>6, <1>7 DEF Drop
  <2>3. groups[g] \in Seq(Die)
    BY <1>1, <1>13
  <2>4. PICK dice : dice = groups[g]
    OBVIOUS
  <2>5. groups'[g] = [j \in DOMAIN dice |-> dice[j]]
    BY <2>1, <2>2, <2>4
  <2> QED
    BY <2>3, <2>4, <2>5
<1> QED
  BY <1>5, <1>6, <1>8, <1>9, <1>12, <1>13

\* No other step meets a grouped keep.
LEMMA GroupKeepStep ==
    ASSUME Inv, [Next]_vars, AtNode({"keep"})
    PROVE  KeepGroup \/ UNCHANGED vars
<1>1. status = "rolling" /\ work # << >> /\ node.kind = "keep"
  BY DEF AtNode, node
<1>2. ~ ParseText /\ ~ Finish /\ ~ Rolled
  BY <1>1 DEF ParseText, Finish, Rolled, Ended
<1>3. ~ Evaluate
  BY <1>1 DEF Evaluate, AtNode, node
<1>4. ~ AtRoll /\ ~ Reread
  BY <1>1 DEF AtRoll, Reread, AtNode, node
<1>5. ~ Throw /\ ~ Keep /\ ~ Reroll /\ ~ Explode /\ ~ Modified /\ ~ GroupDone
  BY <1>4 DEF Throw, Keep, Reroll, Explode, Modified, GroupDone, AtModifier
<1> QED
  BY <1>2, <1>3, <1>4, <1>5 DEF Next, Roll

(***************************************************************************)
(* Every grouped keep or drop, nested ones too, leaves as many dice as it  *)
(* says of those its items rolled, the best or the worst of them, and      *)
(* touches no other dice.                                                  *)
(***************************************************************************)
THEOREM GroupsKeepBest == Spec => GroupKeepsBest
<1> DEFINE Best == /\ Kept(Pooled, PooledAfter, node.keep)
                   /\ \A g \in DOMAIN groups \ ToSet(GroupsOf(args)) : groups'[g] = groups[g]
<1>1. Inv /\ [Next]_vars => [GroupKept => Best]_vars
  BY GroupKeepStep, GroupKeepSettles DEF GroupKept
<1> QED
  BY <1>1, InvHolds, PTL DEF Spec, GroupKeepsBest

-----------------------------------------------------------------------------
(* Every step of a roll brings its end nearer.                             *)

\* The counters of the open group stay within their limits.
CountersOK == rerolls \in 0..MaxRerolls /\ explosions \in 0..MaxExplosions

\* groupRoller checks a counter before it counts.
LEMMA CountersStep == CountersOK /\ [Next]_vars => CountersOK'
<1> SUFFICES ASSUME CountersOK, [Next]_vars PROVE CountersOK'
  OBVIOUS
<1>1. /\ MaxRerolls \in Nat /\ MaxExplosions \in Nat
      /\ rerolls \in Nat /\ rerolls <= MaxRerolls
      /\ explosions \in Nat /\ explosions <= MaxExplosions
  BY LimitsAssumption DEF CountersOK
<1>2. ASSUME UNCHANGED <<rerolls, explosions>> PROVE CountersOK'
  BY <1>2 DEF CountersOK
<1>3. ASSUME NEW error, Fail(error) PROVE CountersOK'
  BY <1>2, <1>3 DEF Fail, rolling
<1>4. CASE ParseText \/ Evaluate \/ Throw \/ Keep \/ Modified \/ KeepGroup \/ Reread \/ Finish
           \/ UNCHANGED vars
  BY <1>2, <1>3, <1>4
     DEF ParseText, Evaluate, Throw, Keep, Modified, KeepGroup, Reread, Finish, vars, rolling
<1>5. CASE Reroll
  <2>1. CASE rerolls + 1 > MaxRerolls
    BY <1>3, <1>5, <2>1 DEF Reroll
  <2>2. CASE ~ (rerolls + 1 > MaxRerolls)
    <3>1. Spawn(Min(Candidates(node.mods[mod])), "rerolled")
      BY <1>5, <2>2 DEF Reroll
    <3>2. \/ rerolls' = rerolls + 1 /\ explosions' = explosions
          \/ UNCHANGED <<rerolls, explosions>>
      BY <3>1 DEF Spawn, Counted, Fail, rolling
    <3> QED
      BY <1>1, <1>2, <2>2, <3>2 DEF CountersOK
  <2> QED
    BY <2>1, <2>2
<1>6. CASE Explode
  <2>1. CASE explosions + 1 > MaxExplosions
    BY <1>3, <1>6, <2>1 DEF Explode
  <2>2. CASE ~ (explosions + 1 > MaxExplosions)
    <3>1. Spawn(Min(Candidates(node.mods[mod])), "exploded")
      BY <1>6, <2>2 DEF Explode
    <3>2. \/ explosions' = explosions + 1 /\ rerolls' = rerolls
          \/ UNCHANGED <<rerolls, explosions>>
      BY <3>1 DEF Spawn, Counted, Fail, rolling
    <3> QED
      BY <1>1, <1>2, <2>2, <3>2 DEF CountersOK
  <2> QED
    BY <2>1, <2>2
<1>7. CASE GroupDone
  <2>1. \/ rerolls' = 0 /\ explosions' = 0
        \/ UNCHANGED <<rerolls, explosions>>
    BY <1>7 DEF GroupDone, Fail, rolling
  <2> QED
    BY <1>1, <1>2, <2>1 DEF CountersOK
<1> QED
  BY <1>4, <1>5, <1>6, <1>7 DEF Next, Roll, Rolled

\* Rerolls and explosions of a group are never more than the limits allow.
LEMMA CountersBounded == Spec => []CountersOK
<1>1. Init => CountersOK
  BY LimitsAssumption DEF Init, CountersOK
<1> QED
  BY <1>1, CountersStep, PTL DEF Spec

KeepsIn(w) == {Len(w) - k : k \in {k \in DOMAIN w : w[k].kind = "keep"}}

\* A node that leaves the work takes no grouped keep with it but itself.
LEMMA KeepsOfTail ==
    ASSUME NEW w, w \in Seq(ToSet(w)), w # << >>
    PROVE  /\ Len(Tail(w)) \in Nat /\ Len(Tail(w)) = Len(w) - 1 /\ Len(w) \in Nat
           /\ KeepsIn(Tail(w)) = {n \in KeepsIn(w) : n # Len(w) - 1}
           /\ Head(w).kind = "keep" => Len(w) - 1 \in KeepsIn(w)
           /\ Head(w).kind # "keep" => Len(w) - 1 \notin KeepsIn(w)
<1>1. PICK n \in Nat \ {0} : n = Len(w) /\ DOMAIN w = 1..n
  OBVIOUS
<1>2. PICK t : t = Tail(w)
  OBVIOUS
<1>3. /\ Len(t) = n - 1 /\ DOMAIN t = 1..(n - 1)
      /\ \A k \in 1..(n - 1) : t[k] = w[k + 1]
  BY <1>1, <1>2
<1>4. \A m : m \in KeepsIn(w) <=> \E k \in 1..n : w[k].kind = "keep" /\ m = n - k
  BY <1>1 DEF KeepsIn
<1>5. \A m : m \in KeepsIn(t) <=> \E k \in 1..(n - 1) : t[k].kind = "keep" /\ m = n - 1 - k
  BY <1>3 DEF KeepsIn
<1>6. ASSUME NEW m \in KeepsIn(t)
      PROVE  m \in KeepsIn(w) /\ m # n - 1
  <2>1. PICK k \in 1..(n - 1) : t[k].kind = "keep" /\ m = n - 1 - k
    BY <1>5
  <2>2. k + 1 \in 1..n /\ w[k + 1].kind = "keep" /\ m = n - (k + 1) /\ m # n - 1
    BY <1>3, <2>1
  <2> QED
    BY <1>4, <2>2
<1>7. ASSUME NEW m \in KeepsIn(w), m # n - 1
      PROVE  m \in KeepsIn(t)
  <2>1. PICK k \in 1..n : w[k].kind = "keep" /\ m = n - k
    BY <1>4
  <2>2. k - 1 \in 1..(n - 1) /\ (k - 1) + 1 = k /\ m = n - 1 - (k - 1)
    BY <1>7, <2>1
  <2>3. t[k - 1] = w[k]
    BY <1>3, <2>2
  <2> QED
    BY <1>5, <2>1, <2>2, <2>3
<1>8. Head(w) = w[1] /\ 1 \in 1..n
  BY <1>1
<1>9. Head(w).kind = "keep" => n - 1 \in KeepsIn(w)
  BY <1>4, <1>8
<1>10. Head(w).kind # "keep" => n - 1 \notin KeepsIn(w)
  <2>1. SUFFICES ASSUME n - 1 \in KeepsIn(w) PROVE Head(w).kind = "keep"
    OBVIOUS
  <2>2. PICK k \in 1..n : w[k].kind = "keep" /\ n - 1 = n - k
    BY <1>4, <2>1
  <2>3. k = 1
    BY <2>2
  <2> QED
    BY <1>8, <2>2, <2>3
<1>11. KeepsIn(t) = {m \in KeepsIn(w) : m # n - 1}
  BY <1>6, <1>7
<1> QED
  BY <1>1, <1>2, <1>3, <1>9, <1>10, <1>11

\* The sum a grouped keep stands for has no grouped keep in it.
LEMMA KeepsOfSum ==
    ASSUME NEW r, r \in Seq(ToSet(r)), \A part \in ToSet(r) : part.kind # "keep",
           NEW t, t \in Seq(ToSet(t))
    PROVE  KeepsIn(r \o t) = KeepsIn(t)
<1>1. PICK l \in Nat : l = Len(r) /\ DOMAIN r = 1..l
  OBVIOUS
<1>2. PICK n \in Nat : n = Len(t) /\ DOMAIN t = 1..n
  OBVIOUS
<1>3. PICK w : w = r \o t
  OBVIOUS
<1>4. /\ Len(w) = l + n /\ DOMAIN w = 1..(l + n)
      /\ \A k \in 1..l : w[k] = r[k]
      /\ \A k \in 1..n : w[l + k] = t[k]
  <2>1. r \in Seq(ToSet(r) \cup ToSet(t)) /\ t \in Seq(ToSet(r) \cup ToSet(t))
    OBVIOUS
  <2> QED
    BY <1>1, <1>2, <1>3, <2>1
<1>5. \A k \in 1..l : w[k].kind # "keep"
  BY <1>1, <1>4 DEF ToSet
<1>6. \A m : m \in KeepsIn(w) <=> \E k \in 1..(l + n) : w[k].kind = "keep" /\ m = l + n - k
  <2>1. PICK N : N = l + n
    OBVIOUS
  <2>2. Len(w) = N /\ DOMAIN w = 1..N
    BY <1>4, <2>1
  <2>3. \A m : m \in KeepsIn(w) <=> \E k \in 1..N : w[k].kind = "keep" /\ m = N - k
    BY <2>2 DEF KeepsIn
  <2> QED
    BY <2>1, <2>3
<1>7. \A m : m \in KeepsIn(t) <=> \E k \in 1..n : t[k].kind = "keep" /\ m = n - k
  BY <1>2 DEF KeepsIn
<1>8. ASSUME NEW m \in KeepsIn(w)
      PROVE  m \in KeepsIn(t)
  <2>1. PICK k \in 1..(l + n) : w[k].kind = "keep" /\ m = l + n - k
    BY <1>6
  <2>2. k - l \in 1..n /\ l + (k - l) = k /\ m = n - (k - l)
    BY <1>5, <2>1
  <2>3. t[k - l] = w[k]
    BY <1>4, <2>2
  <2> QED
    BY <1>7, <2>1, <2>2, <2>3
<1>9. ASSUME NEW m \in KeepsIn(t)
      PROVE  m \in KeepsIn(w)
  <2>1. PICK k \in 1..n : t[k].kind = "keep" /\ m = n - k
    BY <1>7
  <2>2. l + k \in 1..(l + n) /\ w[l + k].kind = "keep" /\ m = l + n - (l + k)
    BY <1>4, <2>1
  <2> QED
    BY <1>6, <2>2
<1> QED
  BY <1>3, <1>8, <1>9

\* A node that has its value leaves the work, and takes no grouped keep with it.
LEMMA CompleteAdvances ==
    ASSUME WorkSound, work # << >>, node.kind # "keep", work' = Tail(work)
    PROVE  KeepsLeft' = KeepsLeft /\ Len(work') < Len(work)
<1>1. PICK w : w = work
  OBVIOUS
<1>2. w \in Seq(ToSet(w)) /\ w # << >> /\ Head(w).kind # "keep"
  BY <1>1 DEF WorkSound, Evaluable, node
<1>3. KeepsIn(Tail(w)) = KeepsIn(w) /\ Len(Tail(w)) < Len(w)
  <2>1. /\ Len(Tail(w)) \in Nat /\ Len(Tail(w)) = Len(w) - 1 /\ Len(w) \in Nat
        /\ KeepsIn(Tail(w)) = {n \in KeepsIn(w) : n # Len(w) - 1}
        /\ Head(w).kind = "keep" => Len(w) - 1 \in KeepsIn(w)
        /\ Head(w).kind # "keep" => Len(w) - 1 \notin KeepsIn(w)
    BY <1>2, KeepsOfTail
  <2>2. KeepsIn(Tail(w)) = KeepsIn(w)
    BY <1>2, <2>1
  <2> QED
    BY <2>1, <2>2
<1>4. KeepsLeft = KeepsIn(w) /\ KeepsLeft' = KeepsIn(Tail(w))
  BY <1>1 DEF KeepsLeft, KeepsIn
<1> QED
  BY <1>1, <1>3, <1>4

\* A grouped keep is replaced by nodes that are none.
LEMMA GroupKeepAdvances ==
    ASSUME WorkSound, work # << >>, node.kind = "keep",
           work' = Order(SumOf(node)) \o Tail(work)
    PROVE  KeepsLeft' \subseteq KeepsLeft /\ KeepsLeft' # KeepsLeft
<1>1. PICK w : w = work
  OBVIOUS
<1>2. w \in Seq(ToSet(w)) /\ w # << >> /\ Head(w).kind = "keep"
  BY <1>1 DEF WorkSound, Evaluable, node
<1>3. PICK sum : sum = Order(SumOf(node))
  OBVIOUS
<1>4. sum \in Seq(ToSet(sum)) /\ \A part \in ToSet(sum) : part.kind # "keep"
  BY <1>3, HeadSound DEF WorkSound, Evaluable
<1>5. PICK t : t = Tail(w)
  OBVIOUS
<1>6. t \in Seq(ToSet(t))
  BY <1>2, <1>5, TailElements
<1>7. KeepsIn(sum \o t) = KeepsIn(t)
  BY <1>4, <1>6, KeepsOfSum
<1>8. /\ KeepsIn(t) = {n \in KeepsIn(w) : n # Len(w) - 1}
      /\ Len(w) - 1 \in KeepsIn(w)
  <2>1. /\ Len(Tail(w)) \in Nat /\ Len(Tail(w)) = Len(w) - 1 /\ Len(w) \in Nat
        /\ KeepsIn(Tail(w)) = {n \in KeepsIn(w) : n # Len(w) - 1}
        /\ Head(w).kind = "keep" => Len(w) - 1 \in KeepsIn(w)
        /\ Head(w).kind # "keep" => Len(w) - 1 \notin KeepsIn(w)
    BY <1>2, KeepsOfTail
  <2> QED
    BY <1>2, <1>5, <2>1
<1>9. KeepsLeft = KeepsIn(w) /\ KeepsLeft' = KeepsIn(sum \o t)
  BY <1>1, <1>3, <1>5 DEF KeepsLeft, KeepsIn
<1> QED
  BY <1>7, <1>8, <1>9

\* A die more of the term's own, or its first modifier.
LEMMA ThrowAdvances ==
    ASSUME Inv, Throw
    PROVE  work' = work /\ group' = group /\ TermAdvances
<1>1. /\ work # << >> /\ node.kind = "dice" /\ mod = 0
      /\ work' = work /\ group' = group
  BY DEF Throw, AtRoll, AtNode, node
<1>2. PICK n \in Nat : n = Len(node.mods)
  BY <1>1, HeadSound DEF Inv, Sound
<1>3. node.count \in Nat \ {0}
  BY <1>1, HeadSound DEF Inv, Sound
<1>4. groups \in Seq(Seq(Die)) /\ group \in {Len(groups), Len(groups) + 1} \ {0}
  BY DEF Inv, GroupsSound, OpenSound
<1>5. CASE Len(groups'[group]) = node.count
  <2>1. mod' = mod + 1
    BY <1>5 DEF Throw, NextModifier
  <2>2. mod < mod' /\ mod' <= n + 1
    BY <1>1, <1>2, <2>1
  <2> QED
    BY <1>1, <1>2, <2>2 DEF TermAdvances
<1>6. CASE Len(groups'[group]) # node.count
  <2>1. mod' = 0
    BY <1>1, <1>6 DEF Throw
  <2>2. PICK v : IF group \in DOMAIN groups
                 THEN groups' = [groups EXCEPT ![group] = Append(@, v)]
                 ELSE groups' = Append(groups, <<v>>)
    BY DEF Throw
  <2>3. CASE group \in DOMAIN groups
    <3>1. /\ groups[group] \in Seq(Die) /\ Len(groups[group]) \in Nat
          /\ Len(groups[group]) < node.count
      BY <1>1, <1>4, <2>3 DEF Inv, OpenSound, Open
    <3>2. groups'[group] = Append(groups[group], v) /\ group \in DOMAIN groups'
      BY <2>2, <2>3
    <3>3. Len(groups'[group]) = Len(groups[group]) + 1
      BY <3>1, <3>2
    <3>4. ThrownDice = Len(groups[group]) /\ ThrownDice' = Len(groups'[group])
      BY <1>1, <2>3, <3>2 DEF ThrownDice
    <3>5. ThrownDice < ThrownDice' /\ ThrownDice' < node.count
      BY <1>3, <1>6, <3>1, <3>3, <3>4
    <3> QED
      BY <1>1, <2>1, <3>5 DEF TermAdvances
  <2>4. CASE group \notin DOMAIN groups
    <3>1. group = Len(groups) + 1
      BY <1>4, <2>4
    <3>2. PICK own : own = <<v>>
      OBVIOUS
    <3>3. groups' = Append(groups, own)
      BY <2>2, <2>4, <3>2
    <3>4. groups'[group] = own /\ group \in DOMAIN groups'
      BY <1>4, <3>1, <3>3
    <3>5. ThrownDice = 0 /\ ThrownDice' = 1
      BY <1>1, <2>4, <3>2, <3>4 DEF ThrownDice
    <3>6. 1 < node.count
      BY <1>3, <1>6, <3>2, <3>4
    <3>7. ThrownDice < ThrownDice' /\ ThrownDice' < node.count
      BY <3>5, <3>6
    <3> QED
      BY <1>1, <2>1, <3>7 DEF TermAdvances
  <2> QED
    BY <2>3, <2>4
<1> QED
  BY <1>5, <1>6

\* A modifier is done, and there are finitely many.
LEMMA ModifierAdvances ==
    ASSUME Inv, Keep \/ Modified, status' = "rolling"
    PROVE  work' = work /\ group' = group /\ TermAdvances
<1>1. work # << >> /\ node.kind = "dice" /\ mod \in DOMAIN node.mods
  BY DEF Keep, Modified, AtModifier, AtRoll, AtNode, node
<1>2. mod' = mod + 1 /\ work' = work /\ group' = group
  <2>1. CASE Keep
    <3>1. KeepFits(Positions(group), node.mods[mod])
      BY <2>1 DEF Keep, Fail
    <3> QED
      BY <2>1, <3>1 DEF Keep, NextModifier
  <2>2. CASE Modified
    BY <2>2 DEF Modified, NextModifier
  <2> QED
    BY <2>1, <2>2
<1>3. mod < mod' /\ mod' <= Len(node.mods) + 1
  <2>1. node.mods \in Seq(ToSet(node.mods))
    BY <1>1, HeadSound DEF Inv, Sound
  <2>2. PICK mods : mods = node.mods
    OBVIOUS
  <2>3. mod \in 1..Len(mods) /\ Len(mods) \in Nat
    BY <1>1, <2>1, <2>2
  <2> QED
    BY <1>2, <2>2, <2>3
<1> QED
  BY <1>2, <1>3 DEF TermAdvances

\* A die is rerolled or explodes, which is counted.
LEMMA SpawnAdvances ==
    ASSUME CountersOK, CountersOK', Reroll \/ Explode, status' = "rolling"
    PROVE  work' = work /\ group' = group /\ TermAdvances
<1>1. /\ MaxRerolls \in Nat /\ MaxExplosions \in Nat
      /\ rerolls \in Nat /\ explosions \in Nat
      /\ rerolls' <= MaxRerolls /\ explosions' <= MaxExplosions
  BY LimitsAssumption DEF CountersOK
<1>2. ASSUME NEW error, Fail(error), error # "rolling"
      PROVE  FALSE
  BY <1>2 DEF Fail
<1>3. ASSUME NEW j, NEW s \in {"rerolled", "exploded"}, Spawn(j, s)
      PROVE  /\ work' = work /\ group' = group /\ mod' = mod
             /\ \/ rerolls' = rerolls + 1 /\ explosions' = explosions
                \/ explosions' = explosions + 1 /\ rerolls' = rerolls
  BY <1>2, <1>3 DEF Spawn, Counted
<1>4. /\ work' = work /\ group' = group /\ mod' = mod
      /\ \/ rerolls' = rerolls + 1 /\ explosions' = explosions
         \/ explosions' = explosions + 1 /\ rerolls' = rerolls
  <2>1. CASE Reroll
    <3>1. Spawn(Min(Candidates(node.mods[mod])), "rerolled")
      BY <1>2, <2>1 DEF Reroll
    <3> QED
      BY <1>3, <3>1
  <2>2. CASE Explode
    <3>1. Spawn(Min(Candidates(node.mods[mod])), "exploded")
      BY <1>2, <2>2 DEF Explode
    <3> QED
      BY <1>3, <3>1
  <2> QED
    BY <2>1, <2>2
<1>5. /\ rerolls <= rerolls' /\ explosions <= explosions'
      /\ rerolls + explosions < rerolls' + explosions'
  BY <1>1, <1>4
<1> QED
  BY <1>1, <1>4, <1>5 DEF TermAdvances

(***************************************************************************)
(* Why every roll ends, whatever the formula, the limits and the faces:    *)
(* each step ends it, or replaces a grouped keep by its items, or gives a  *)
(* node its value, or advances within a dice term, where the counters of   *)
(* groupRoller cannot pass their limits.                                   *)
(***************************************************************************)
THEOREM RollsAdvance == Spec => RollAdvances
<1> DEFINE Advances == \/ status' # "rolling"
                       \/ KeepsLeft' \subseteq KeepsLeft /\ KeepsLeft' # KeepsLeft
                       \/ KeepsLeft' = KeepsLeft /\ Len(work') < Len(work)
                       \/ work' = work /\ group' = group /\ TermAdvances
<1>1. Inv /\ CountersOK /\ CountersOK' /\ Roll => Advances
  <2>1. SUFFICES ASSUME Inv, CountersOK, CountersOK', Roll, status' = "rolling"
                 PROVE  Advances
    OBVIOUS
  <2>2. ASSUME NEW explained, Complete(explained), explained.status # "rolling",
               work # << >>, node.kind # "keep"
        PROVE  Advances
    <3>1. work' = Tail(work)
      BY <2>1, <2>2 DEF Complete, Fail
    <3> QED
      BY <2>1, <2>2, <3>1, CompleteAdvances DEF Inv
  <2>3. CASE Evaluate
    <3>1. /\ work # << >> /\ node.kind # "keep"
          /\ Complete(Combine(node, args))
      BY <2>3 DEF Evaluate, AtNode, node
    <3>2. Combine(node, args).status # "rolling"
      BY <2>1, <2>3, <3>1, HeadSound, CombineFails DEF Inv, Evaluate, AtNode, node
    <3> QED
      BY <2>2, <3>1, <3>2
  <2>4. CASE Throw
    BY <2>1, <2>4, ThrowAdvances
  <2>5. CASE Keep \/ Modified
    BY <2>1, <2>5, ModifierAdvances
  <2>6. CASE Reroll \/ Explode
    BY <2>1, <2>6, SpawnAdvances
  <2>7. CASE GroupDone
    <3>1. work # << >> /\ node.kind # "keep"
      BY <2>7 DEF GroupDone, AtRoll, AtNode, node
    <3>2. /\ DiceValue(groups[group], node).status = "ok"
          /\ Complete(ExplainDice(DiceValue(groups[group], node), group))
      BY <2>1, <2>7 DEF GroupDone, Fail
    <3>3. ExplainDice(DiceValue(groups[group], node), group).status # "rolling"
      BY <3>2 DEF ExplainDice
    <3> QED
      BY <2>2, <3>1, <3>2, <3>3
  <2>8. CASE KeepGroup
    <3>1. work # << >> /\ node.kind = "keep"
      BY <2>8 DEF KeepGroup, AtNode, node
    <3>2. work' = Order(SumOf(node)) \o Tail(work)
      BY <2>1, <2>8 DEF KeepGroup, Fail
    <3> QED
      BY <2>1, <3>1, <3>2, GroupKeepAdvances DEF Inv
  <2>9. CASE Reread
    <3>1. work # << >> /\ node.kind # "keep"
      BY <2>9 DEF Reread, AtNode, node
    <3>2. /\ DiceValue(groups[Head(replay)], node).status = "ok"
          /\ Complete(ExplainDice(DiceValue(groups[Head(replay)], node), Head(replay)))
      BY <2>1, <2>9 DEF Reread, Fail
    <3>3. ExplainDice(DiceValue(groups[Head(replay)], node), Head(replay)).status # "rolling"
      BY <3>2 DEF ExplainDice
    <3> QED
      BY <2>2, <3>1, <3>2, <3>3
  <2>10. CASE Finish
    BY <2>1, <2>10 DEF Finish
  <2> QED
    BY <2>1, <2>3, <2>4, <2>5, <2>6, <2>7, <2>8, <2>9, <2>10 DEF Roll
<1>2. Inv /\ CountersOK /\ CountersOK' /\ [Next]_vars => [Roll => Advances]_vars
  BY <1>1
<1> QED
  BY <1>2, InvHolds, CountersBounded, PTL DEF Spec, RollAdvances

-----------------------------------------------------------------------------
(* Values.                                                                 *)

\* An outcome is an error, or a value that is an int.
LEMMA Outcomes ==
    /\ 0 \in Word
    /\ \A x \in Int : Checked(x) \in Outcome
    /\ \A v \in Word : Ok(v) \in Outcome
    /\ \A o \in Outcome : /\ o.status \in {"ok", "overflow", "division_by_zero"}
                          /\ o.status = "ok" => o.value \in Word
    /\ \A x \in Int : Checked(x).status = "ok" => Checked(x).value = x
    /\ Ok(0).status = "ok" /\ Ok(0).value = 0
<1>1. 0 \in Word
  BY MaxIntAssumption DEF Word, MinInt
<1> QED
  BY <1>1 DEF Outcome, Checked, Ok, Failed

\* Dice that have a face.
Lie(dice) == dice \in Seq(Die) /\ \A j \in DOMAIN dice : dice[j].value \in Word

\* The checked sum of dice is their sum, if it does not overflow.
LEMMA SumExact ==
    ASSUME NEW dice, Lie(dice), NEW n, \A k \in DOMAIN n.mods : n.mods[k].kind # "cs"
    PROVE  /\ DiceValue(dice, n) \in Outcome
           /\ DiceValue(dice, n).status = "ok" => DiceValue(dice, n).value = Total(dice)
<1>1. PICK l \in Nat : l = Len(dice)
  BY DEF Lie
<1>2. \A k \in 1..l : dice[k].value \in Word
  BY <1>1 DEF Lie
<1> DEFINE next(v, k) == IF v.status = "ok" /\ Counts(dice[k]) THEN Add(v.value, dice[k].value) ELSE v
           count(k) == IF Counts(dice[k]) THEN dice[k].value ELSE 0
           sum == CHOOSE f : f = [k \in 0..l |-> IF k = 0 THEN Ok(0) ELSE next(f[k - 1], k)]
           total == CHOOSE f : f = [k \in 0..l |-> IF k = 0 THEN 0 ELSE f[k - 1] + count(k)]
<1>3. DiceValue(dice, n) = sum[l]
  BY <1>1 DEF DiceValue
<1>4. Total(dice) = total[l]
  BY <1>1 DEF Total
<1>5. \E g : g = [k \in 0..l |-> IF k = 0 THEN 0 ELSE g[k - 1] + count(k)]
  <2>1. PICK step : step = [k \in 1..l |-> [v \in Int |-> v + count(k)]]
    OBVIOUS
  <2>2. \A k \in 1..l : count(k) \in Int
    BY <1>2, Words
  <2>3. PICK X, base : X = Int /\ base = 0
    OBVIOUS
  <2>4. PICK g : Iterates(g, X, base, step, l)
    <3>1. base \in X /\ step \in [1..l -> [X -> X]]
      BY <2>1, <2>2, <2>3
    <3> QED
      BY <3>1, RecursionOn
  <2>5. g \in [0..l -> Int] /\ g[0] = 0 /\ \A k \in 1..l : g[k] = step[k][g[k - 1]]
    BY <2>3, <2>4 DEF Iterates
  <2>6. ASSUME NEW k \in 0..l
        PROVE  g[k] = IF k = 0 THEN 0 ELSE g[k - 1] + count(k)
    <3>1. CASE k # 0
      <4>1. k \in 1..l /\ k - 1 \in 0..l
        BY <3>1
      <4>2. g[k - 1] \in Int
        BY <2>5, <4>1
      <4> QED
        BY <2>1, <2>5, <3>1, <4>1, <4>2
    <3> QED
      BY <2>5, <3>1
  <2> HIDE DEF count
  <2> QED
    BY <2>5, <2>6
<1>6. \E g : g = [k \in 0..l |-> IF k = 0 THEN Ok(0) ELSE next(g[k - 1], k)]
  <2>1. PICK step : step = [k \in 1..l |-> [v \in Outcome |-> next(v, k)]]
    OBVIOUS
  <2>2. ASSUME NEW k \in 1..l, NEW v \in Outcome
        PROVE  next(v, k) \in Outcome
    <3>1. CASE v.status = "ok" /\ Counts(dice[k])
      <4>1. v.value \in Word /\ dice[k].value \in Word
        BY <1>2, <3>1, Outcomes
      <4>2. Add(v.value, dice[k].value) = Checked(v.value + dice[k].value)
        BY <4>1, AddExact
      <4> QED
        BY <3>1, <4>1, <4>2, Outcomes, Words
    <3> QED
      BY <3>1
  <2>3. step \in [1..l -> [Outcome -> Outcome]] /\ Ok(0) \in Outcome
    BY <2>1, <2>2, Outcomes
  <2>4. PICK g : Iterates(g, Outcome, Ok(0), step, l)
    BY <2>3, RecursionOn
  <2>5. g \in [0..l -> Outcome] /\ g[0] = Ok(0) /\ \A k \in 1..l : g[k] = step[k][g[k - 1]]
    BY <2>4 DEF Iterates
  <2> HIDE DEF next
  <2>6. ASSUME NEW k \in 0..l
        PROVE  g[k] = IF k = 0 THEN Ok(0) ELSE next(g[k - 1], k)
    <3>1. CASE k # 0
      <4>1. k \in 1..l /\ k - 1 \in 0..l
        BY <3>1
      <4>2. g[k - 1] \in Outcome
        BY <2>5, <4>1
      <4> QED
        BY <2>1, <2>5, <3>1, <4>1, <4>2
    <3> QED
      BY <2>5, <3>1
  <2> QED
    BY <2>5, <2>6
<1>7. total = [k \in 0..l |-> IF k = 0 THEN 0 ELSE total[k - 1] + count(k)]
  BY <1>5
<1>8. sum = [k \in 0..l |-> IF k = 0 THEN Ok(0) ELSE next(sum[k - 1], k)]
  BY <1>6
<1> HIDE DEF sum, total
<1> DEFINE Right(k) == /\ sum[k] \in Outcome
                       /\ total[k] \in Int
                       /\ sum[k].status = "ok" => sum[k].value = total[k]
           S == {k \in Nat : k <= l => Right(k)}
<1>9. 0 \in S
  BY <1>7, <1>8, Outcomes
<1>10. ASSUME NEW j \in Nat, j \in S
       PROVE  j + 1 \in S
  <2>1. SUFFICES ASSUME j + 1 <= l PROVE Right(j + 1)
    OBVIOUS
  <2>2. PICK k \in 1..l : k = j + 1
    BY <2>1
  <2>3. k - 1 = j /\ k # 0 /\ k \in 0..l /\ Right(j)
    BY <1>10, <2>1, <2>2
  <2>4. total[k] = total[j] + count(k) /\ count(k) \in Int
    BY <1>2, <1>7, <2>3, Words
  <2>5. sum[k] = next(sum[j], k)
    <3> HIDE DEF next
    <3> QED
      BY <1>8, <2>3
  <2>6. CASE sum[j].status = "ok" /\ Counts(dice[k])
    <3>1. sum[j].value \in Word /\ dice[k].value \in Word
      BY <1>2, <2>3, <2>6, Outcomes
    <3>2. sum[k] = Checked(sum[j].value + dice[k].value)
      BY <2>5, <2>6, <3>1, AddExact
    <3>3. sum[j].value + dice[k].value \in Int /\ total[k] = sum[j].value + dice[k].value
      BY <2>3, <2>4, <2>6, <3>1, Words
    <3>4. Right(k)
      <4>1. sum[k] \in Outcome
        BY <3>2, <3>3, Outcomes
      <4>2. sum[k].status = "ok" => sum[k].value = total[k]
        BY <3>2, <3>3, Outcomes
      <4> QED
        BY <2>3, <2>4, <4>1, <4>2
    <3> QED
      BY <2>2, <3>4
  <2>7. CASE ~ (sum[j].status = "ok" /\ Counts(dice[k]))
    <3>1. sum[k] = sum[j]
      BY <2>5, <2>7
    <3>2. sum[j].status = "ok" => total[k] = total[j]
      BY <2>3, <2>4, <2>7
    <3>3. Right(k)
      BY <2>3, <2>4, <3>1, <3>2
    <3> QED
      BY <2>2, <3>3
  <2> QED
    BY <2>6, <2>7
<1>11. Right(l)
  <2> HIDE DEF S
  <2>1. l \in S
    BY <1>9, <1>10, NatSets
  <2> QED
    BY <2>1 DEF S
<1> QED
  BY <1>3, <1>4, <1>11

\* diceValue counts the successes, or is the sum, of the dice that count.
LEMMA DiceValueExact ==
    ASSUME NEW dice, Lie(dice), Len(dice) <= MaxInt, NEW n, Sound(n), n.kind = "dice"
    PROVE  /\ DiceValue(dice, n) \in Outcome
           /\ DiceValue(dice, n).status = "ok" => DiceValue(dice, n).value = ValueOfDice(n, dice)
<1>1. PICK mods : mods = n.mods
  OBVIOUS
<1>2. /\ mods \in Seq(ToSet(mods))
      /\ \A j, k \in DOMAIN mods : mods[j].kind = "cs" /\ mods[k].kind = "cs" => j = k
  BY <1>1 DEF Sound
<1>3. CASE \A k \in DOMAIN mods : mods[k].kind # "cs"
  <2>1. \A m \in ToSet(mods) : m.kind # "cs"
    BY <1>3 DEF ToSet
  <2>2. ValueOfDice(n, dice) = Total(dice)
    BY <1>1, <2>1 DEF ValueOfDice
  <2> QED
    BY <1>1, <1>3, <2>2, SumExact
<1>4. CASE \E k \in DOMAIN mods : mods[k].kind = "cs"
  <2>1. PICK k \in DOMAIN mods : mods[k].kind = "cs"
    BY <1>4
  <2>2. {j \in DOMAIN mods : mods[j].kind = "cs"} = {k}
    BY <1>2, <2>1
  <2>3. Max({k}) = k
    <3>1. DOMAIN mods = 1..Len(mods) /\ Len(mods) \in Nat
      BY <1>2
    <3>2. k \in Int
      BY <2>1, <3>1
    <3> QED
      BY <3>2 DEF Max
  <2>4. DiceValue(dice, n) = Ok(Cardinality(Successes(dice, n, mods[k])))
    BY <1>1, <2>2, <2>3 DEF DiceValue
  <2>5. mods[k] \in ToSet(mods) /\ \A m \in ToSet(mods) : m.kind = "cs" => m = mods[k]
    BY <1>2, <2>1 DEF ToSet
  <2>6. ValueOfDice(n, dice) = Cardinality(Successes(dice, n, mods[k]))
    <3>1. \E m \in ToSet(n.mods) : m.kind = "cs"
      BY <1>1, <2>1, <2>5
    <3>2. {j \in DOMAIN dice : /\ Counts(dice[j])
                               /\ \A m \in ToSet(n.mods) :
                                     m.kind = "cs" => Matches(n, m, dice[j].value)}
             = Successes(dice, n, mods[k])
      BY <1>1, <2>1, <2>5 DEF Successes
    <3> QED
      BY <3>1, <3>2 DEF ValueOfDice
  <2>7. Cardinality(Successes(dice, n, mods[k])) \in Word
    <3>1. Len(dice) \in Nat /\ DOMAIN dice = 1..Len(dice)
      BY DEF Lie
    <3>2. IsFiniteSet(1..Len(dice)) /\ Cardinality(1..Len(dice)) = Len(dice)
      BY <3>1, FS_Interval
    <3>3. Successes(dice, n, mods[k]) \in SUBSET (1..Len(dice))
      BY <3>1 DEF Successes
    <3>4. IsFiniteSet(Successes(dice, n, mods[k]))
      BY <3>2, <3>3, FS_Subset
    <3>5. /\ Cardinality(Successes(dice, n, mods[k])) \in Nat
          /\ Cardinality(Successes(dice, n, mods[k])) <= Len(dice)
      BY <3>2, <3>3, <3>4, FS_Subset, FS_CardinalityType
    <3> QED
      BY <3>1, <3>5, MaxIntAssumption DEF Word, MinInt
  <2>8. Ok(Cardinality(Successes(dice, n, mods[k]))) \in Outcome
    BY <2>7, Outcomes
  <2>9. DiceValue(dice, n).value = ValueOfDice(n, dice)
    BY <2>4, <2>6 DEF Ok
  <2> QED
    BY <2>4, <2>8, <2>9
<1> QED
  BY <1>3, <1>4

\* A node's tree, as eval makes it: its value is an int that follows from
\* those of its parts.
WellMade(tree, n, parts) ==
    /\ tree.value \in Word
    /\ tree.parts = parts
    /\ tree.dice = GroupsOf(parts)
    /\ Explains(tree, n)

\* The trees of a node's parts.
Parts(parts, n) == Len(parts) = Len(n.parts) /\ \A k \in 1..Len(parts) : parts[k].value \in Word

\* The fields of an explanation.
LEMMA ExplainFields ==
    ASSUME NEW outcome, NEW kind, NEW of, NEW parts
    PROVE  /\ Explain(outcome, kind, of, parts).status = outcome.status
           /\ Explain(outcome, kind, of, parts).tree.value = outcome.value
           /\ Explain(outcome, kind, of, parts).tree.kind = kind
           /\ Explain(outcome, kind, of, parts).tree.of = of
           /\ Explain(outcome, kind, of, parts).tree.parts = parts
           /\ Explain(outcome, kind, of, parts).tree.dice = GroupsOf(parts)
  BY DEF Explain, Explained

\* What an operation on ints returns, if it does not fail, is what the
\* operator means.
LEMMA OperateExact ==
    ASSUME NEW a \in Word, NEW b \in Word, NEW op \in {"+", "-", "*", "/"},
           Operate(op, a, b).status = "ok"
    PROVE  Operate(op, a, b).value \in Word /\ Operate(op, a, b).value = Exactly(op, a, b)
<1>1. \A x \in Int : Checked(x).status = "ok" => Checked(x).value \in Word /\ Checked(x).value = x
  BY Outcomes
<1>2. a \in Int /\ b \in Int
  BY Words
<1>3. CASE op = "+"
  BY <1>1, <1>2, <1>3, AddExact DEF Operate, Exactly
<1>4. CASE op = "-"
  BY <1>1, <1>2, <1>4, SubExact DEF Operate, Exactly
<1>5. CASE op = "*"
  BY <1>1, <1>2, <1>5, MulExact DEF Operate, Exactly
<1>6. CASE op = "/"
  <2>1. Operate(op, a, b) = Div(a, b)
    BY <1>6 DEF Operate
  <2>2. b # 0
    BY <2>1 DEF Div, Failed
  <2>3. Div(a, b) = Checked(Floor(a, b)) /\ Floor(a, b) \in Int
    BY <2>2, DivExact
  <2>4. Exactly(op, a, b) = Floor(a, b)
    BY <1>6 DEF Exactly
  <2> QED
    BY <1>1, <2>1, <2>3, <2>4
<1> QED
  BY <1>3, <1>4, <1>5, <1>6

\* eval of a literal, variable, operator or function.
LEMMA CombineExact ==
    ASSUME NEW n, Sound(n), n.kind \in {"literal", "variable", "unary", "binary", "call"},
           NEW parts, Parts(parts, n), Combine(n, parts).status = "ok"
    PROVE  WellMade(Combine(n, parts).tree, n, parts)
<1>1. \A x \in Int : Checked(x).status = "ok" => Checked(x).value \in Word /\ Checked(x).value = x
  BY Outcomes
<1>2. \A v : Ok(v).status = "ok" /\ Ok(v).value = v
  BY DEF Ok
<1>3. CASE n.kind = "literal"
  <2>1. PICK o, of : o = Ok(n.value) /\ Combine(n, parts) = Explain(o, "literal", of, parts)
    BY <1>3 DEF Combine
  <2>2. n.value \in Word
    BY <1>3 DEF Sound
  <2>3. /\ Combine(n, parts).tree.value = n.value
        /\ Combine(n, parts).tree.kind = "literal"
        /\ Combine(n, parts).tree.parts = parts
        /\ Combine(n, parts).tree.dice = GroupsOf(parts)
    <3>1. o.value = n.value
      BY <2>1 DEF Ok
    <3> QED
      BY <2>1, <3>1, ExplainFields
  <2> QED
    BY <1>3, <2>2, <2>3 DEF WellMade, Explains
<1>4. CASE n.kind = "variable"
  <2>1. PICK o : o = IF n.name \in DOMAIN Resolver THEN Ok(Resolver[n.name])
                     ELSE Failed("unknown_variable")
    OBVIOUS
  <2>2. Combine(n, parts) = Explain(o, "variable", n.name, parts)
    BY <1>4, <2>1 DEF Combine
  <2>3. o.status = "ok"
    BY <2>2, ExplainFields
  <2>4. n.name \in DOMAIN Resolver
    BY <2>1, <2>3 DEF Failed
  <2>5. o.value = Resolver[n.name] /\ o.value \in Word
    BY <1>2, <2>1, <2>4, ResolverAssumption
  <2>6. /\ Combine(n, parts).tree.value = o.value
        /\ Combine(n, parts).tree.kind = "variable"
        /\ Combine(n, parts).tree.of = n.name
        /\ Combine(n, parts).tree.parts = parts
        /\ Combine(n, parts).tree.dice = GroupsOf(parts)
    BY <2>2, ExplainFields
  <2> QED
    BY <1>4, <2>5, <2>6 DEF WellMade, Explains
<1>5. CASE n.kind = "unary"
  <2>1. parts[1].value \in Word
    BY <1>5 DEF Sound, Parts
  <2>2. Combine(n, parts) = Explain(Neg(parts[1].value), "operator", "-", parts)
    BY <1>5 DEF Combine
  <2>3. Neg(parts[1].value) = Checked(-parts[1].value) /\ -parts[1].value \in Int
    BY <2>1, NegExact, Words
  <2>4. Neg(parts[1].value).status = "ok"
    BY <2>2, ExplainFields
  <2>5. Neg(parts[1].value).value \in Word /\ Neg(parts[1].value).value = -parts[1].value
    BY <1>1, <2>3, <2>4
  <2>6. /\ Combine(n, parts).tree.value = -parts[1].value
        /\ Combine(n, parts).tree.value \in Word
        /\ Combine(n, parts).tree.kind = "operator"
        /\ Combine(n, parts).tree.parts = parts
        /\ Combine(n, parts).tree.dice = GroupsOf(parts)
    BY <2>2, <2>5, ExplainFields
  <2> QED
    BY <1>5, <2>6 DEF WellMade, Explains
<1>6. CASE n.kind = "binary"
  <2>1. parts[1].value \in Word /\ parts[2].value \in Word /\ n.op \in {"+", "-", "*", "/"}
    BY <1>6 DEF Sound, Parts
  <2>2. PICK o : o = Operate(n.op, parts[1].value, parts[2].value)
    OBVIOUS
  <2>3. Combine(n, parts) = Explain(o, "operator", n.op, parts)
    BY <1>6, <2>2 DEF Combine
  <2>4. o.status = "ok"
    BY <2>3, ExplainFields
  <2>5. o.value \in Word /\ o.value = Exactly(n.op, parts[1].value, parts[2].value)
    BY <2>1, <2>2, <2>4, OperateExact
  <2>6. /\ Combine(n, parts).tree.value = o.value
        /\ Combine(n, parts).tree.kind = "operator"
        /\ Combine(n, parts).tree.of = n.op
        /\ Combine(n, parts).tree.parts = parts
        /\ Combine(n, parts).tree.dice = GroupsOf(parts)
    BY <2>3, ExplainFields
  <2> QED
    BY <1>6, <2>5, <2>6 DEF WellMade, Explains
<1>7. CASE n.kind = "call"
  <2>1. PICK o : o = Ok(Apply(n.name, parts)) /\ Combine(n, parts) = Explain(o, "function", n.name, parts)
    BY <1>7 DEF Combine
  <2>2. Apply(n.name, parts) \in Word
    <3>1. CASE n.name \in {"min", "max"}
      <4>1. parts[1].value \in Word /\ parts[2].value \in Word
        BY <1>7, <3>1 DEF Sound, Parts
      <4>2. PICK a \in Word, b \in Word : a = parts[1].value /\ b = parts[2].value
        BY <4>1
      <4>3. a \in Int /\ b \in Int
        BY Words
      <4>4. Min({a, b}) \in {a, b} /\ Max({a, b}) \in {a, b}
        <5>1. \E x \in {a, b} : \A y \in {a, b} : x <= y
          BY <4>3
        <5>2. \E x \in {a, b} : \A y \in {a, b} : x >= y
          BY <4>3
        <5> QED
          BY <5>1, <5>2 DEF Min, Max
      <4> QED
        BY <3>1, <4>2, <4>4 DEF Apply
    <3>2. CASE n.name \notin {"min", "max"}
      BY <1>7, <3>2 DEF Sound, Parts, Apply
    <3> QED
      BY <3>1, <3>2
  <2>3. /\ Combine(n, parts).tree.value = Apply(n.name, parts)
        /\ Combine(n, parts).tree.kind = "function"
        /\ Combine(n, parts).tree.of = n.name
        /\ Combine(n, parts).tree.parts = parts
        /\ Combine(n, parts).tree.dice = GroupsOf(parts)
    <3>1. o.value = Apply(n.name, parts)
      BY <2>1 DEF Ok
    <3> QED
      BY <2>1, <3>1, ExplainFields
  <2> QED
    BY <1>7, <2>2, <2>3 DEF WellMade, Explains
<1> QED
  BY <1>3, <1>4, <1>5, <1>6, <1>7

-----------------------------------------------------------------------------
(* The nodes of the trees that are evaluated.                              *)

Trees == {Reading(t).node : t \in {t \in Texts : Reading(t).error = "none"}}

TreeNodes == UNION {ToSet(Order(root)) : root \in Trees}

SumNodes == UNION {ToSet(Order(SumOf(n))) : n \in {n \in TreeNodes : n.kind = "keep"}}

Nodes == TreeNodes \cup SumNodes

\* A node among these, with its parts and what it is evaluated in.
IsNode(n) ==
    /\ Sound(n)
    /\ n.parts \in Seq(Nodes)
    /\ Order(n) \in Seq(Nodes)
    /\ Order(n) = Append(FlattenSeq([k \in DOMAIN n.parts |-> Order(n.parts[k])]), n)
    /\ n.kind = "keep" => /\ SumOf(n) \in Nodes
                          /\ \A part \in ToSet(Order(SumOf(n))) : part.kind # "keep"
                          /\ DiceIn(Order(SumOf(n))) = DiceIn(Order(n))

\* The nodes of a tree in postorder are nodes in this sense, whatever larger
\* set of nodes they belong to.
LEMMA PostorderNodes ==
    ASSUME NEW root, InPostorder(root), Evaluable(Order(root)), ToSet(Order(root)) \subseteq Nodes
    PROVE  /\ root \in Nodes
           /\ \A n \in ToSet(Order(root)) :
                 /\ Sound(n)
                 /\ n.parts \in Seq(Nodes)
                 /\ Order(n) \in Seq(Nodes)
                 /\ Order(n) = Append(FlattenSeq([k \in DOMAIN n.parts |-> Order(n.parts[k])]), n)
<1>1. PICK ns : ns = ToSet(Order(root)) /\ ns \subseteq Nodes
  OBVIOUS
<1>2. /\ root \in ns
      /\ \A n \in ns : /\ n.parts \in Seq(ns)
                       /\ Order(n) \in Seq(ns)
                       /\ Order(n) = Append(FlattenSeq([k \in DOMAIN n.parts |-> Order(n.parts[k])]), n)
  BY <1>1, Zenon DEF InPostorder
<1>3. \A n \in ns : Sound(n)
  BY <1>1 DEF Evaluable
<1>4. \A s \in Seq(ns) : s \in Seq(Nodes)
  BY <1>1
<1> QED
  BY <1>1, <1>2, <1>3, <1>4

\* Every node is one.
LEMMA NodesAre ==
    /\ \A n \in Nodes : IsNode(n)
    /\ \A t \in Texts : Reading(t).error = "none" => Reading(t).node \in Nodes
<1>1. \A root \in Trees : /\ Evaluable(Order(root))
                          /\ InPostorder(root)
                          /\ ToSet(Order(root)) \subseteq Nodes
  BY TreeAssumption DEF Trees, TreeNodes, Nodes
<1>2. \A n \in TreeNodes : n.kind = "keep" =>
          /\ Evaluable(Order(SumOf(n)))
          /\ InPostorder(SumOf(n))
          /\ \A part \in ToSet(Order(SumOf(n))) : part.kind # "keep"
          /\ DiceIn(Order(SumOf(n))) = DiceIn(Order(n))
          /\ ToSet(Order(SumOf(n))) \subseteq SumNodes
          /\ ToSet(Order(SumOf(n))) \subseteq Nodes
  BY TreeAssumption DEF Trees, TreeNodes, SumNodes, Nodes
<1>3. ASSUME NEW n \in TreeNodes
      PROVE  IsNode(n)
  <2>1. PICK root \in Trees : n \in ToSet(Order(root))
    BY DEF TreeNodes
  <2>2. n.kind = "keep" => SumOf(n) \in Nodes
    BY <1>2, PostorderNodes
  <2> QED
    BY <1>1, <1>2, <2>1, <2>2, PostorderNodes DEF IsNode
<1>4. ASSUME NEW n \in SumNodes
      PROVE  IsNode(n)
  <2>1. PICK m \in TreeNodes : m.kind = "keep" /\ n \in ToSet(Order(SumOf(m)))
    BY DEF SumNodes
  <2>2. n.kind # "keep"
    BY <1>2, <2>1
  <2> QED
    BY <1>2, <2>1, <2>2, PostorderNodes DEF IsNode
<1>5. \A t \in Texts : Reading(t).error = "none" => Reading(t).node \in Nodes
  BY <1>1, PostorderNodes DEF Trees
<1> QED
  BY <1>3, <1>4, <1>5 DEF Nodes

\* The nodes evaluated for a node's parts, in order.
LEMMA PartsOrder ==
    ASSUME NEW n \in Nodes
    PROVE  /\ [k \in DOMAIN n.parts |-> Order(n.parts[k])] \in Seq(Seq(Nodes))
           /\ FlattenSeq([k \in DOMAIN n.parts |-> Order(n.parts[k])]) \in Seq(Nodes)
           /\ \A k \in DOMAIN n.parts : Order(n.parts[k]) \in Seq(Nodes)
<1>1. PICK parts \in Seq(Nodes) : parts = n.parts
  BY NodesAre DEF IsNode
<1>2. PICK T : T = Seq(Nodes)
  OBVIOUS
<1>3. \A k \in DOMAIN parts : Order(parts[k]) \in T
  <2>1. \A k \in DOMAIN parts : parts[k] \in Nodes
    BY <1>1
  <2> QED
    BY <1>2, <2>1, NodesAre DEF IsNode
<1>4. PICK s : s = [k \in DOMAIN parts |-> Order(parts[k])]
  OBVIOUS
<1>5. s \in Seq(T)
  BY <1>1, <1>3, <1>4
<1>6. PICK none \in Seq(T) : none = << >>
  <2>1. << >> \in Seq(T)
    OBVIOUS
  <2> QED
    BY <2>1
<1>7. FlattenSeq(s) \in Seq(Nodes)
  <2>1. s \in Seq(Seq(Nodes))
    BY <1>2, <1>5
  <2>2. /\ FlattenSeq(s \o none) = FlattenSeq(s) \o FlattenSeq(none)
        /\ FlattenSeq(s) \in Seq(Nodes)
        /\ FlattenSeq(none) \in Seq(Nodes)
    BY <1>2, <1>6, <2>1, FlattenConcat
  <2> QED
    BY <2>2
<1> QED
  BY <1>1, <1>2, <1>3, <1>4, <1>5, <1>7

\* What stands for a node is a node, no grouped keep, and has the same dice.
LEMMA StandingIsNode ==
    ASSUME NEW n \in Nodes
    PROVE  /\ Standing(n) \in Nodes
           /\ Standing(n).kind # "keep"
           /\ Standing(Standing(n)) = Standing(n)
           /\ DiceIn(Order(Standing(n))) = DiceIn(Order(n))
<1>1. IsNode(n)
  BY NodesAre
<1>2. CASE n.kind = "keep"
  <2>1. PICK m \in Nodes : m = SumOf(n)
    BY <1>1, <1>2 DEF IsNode
  <2>2. m \in ToSet(Order(m))
    <3>1. PICK order : order = FlattenSeq([k \in DOMAIN m.parts |-> Order(m.parts[k])])
      OBVIOUS
    <3>2. Order(m) = Append(order, m) /\ order \in Seq(Nodes)
      BY <3>1, NodesAre, PartsOrder DEF IsNode
    <3> QED
      BY <3>2 DEF ToSet
  <2>3. m.kind # "keep"
    BY <1>1, <1>2, <2>1, <2>2 DEF IsNode
  <2> QED
    BY <1>1, <1>2, <2>1, <2>3 DEF IsNode, Standing
<1>3. CASE n.kind # "keep"
  BY <1>3 DEF Standing
<1> QED
  BY <1>2, <1>3

-----------------------------------------------------------------------------
(* The stack.  A node takes what stands for its parts off the stack, and   *)
(* leaves what stands for itself.                                          *)

Standings(nodes) == [k \in DOMAIN nodes |-> Standing(nodes[k])]

Steps(s, n, u) ==
    \E below \in Seq(Nodes) : s = below \o Standings(n.parts) /\ u = Append(below, Standing(n))

Trace(c, s, w, u) ==
    /\ c \in [0..Len(w) -> Seq(Nodes)]
    /\ c[0] = s
    /\ c[Len(w)] = u
    /\ \A k \in 1..Len(w) : Steps(c[k - 1], w[k], c[k])

\* The nodes of w, one after the other, make stack u of stack s.
Leads(s, w, u) == \E c : Trace(c, s, w, u)

\* No node leaves the stack as it is.
LEMMA LeadsNone ==
    /\ \A s \in Seq(Nodes) : Leads(s, << >>, s)
    /\ \A s, u : Leads(s, << >>, u) => s = u
<1>1. ASSUME NEW s \in Seq(Nodes)
      PROVE  Leads(s, << >>, s)
  <2>1. PICK c : c = [k \in 0..0 |-> s]
    OBVIOUS
  <2>2. PICK none : none = << >>
    OBVIOUS
  <2>3. Len(none) = 0 /\ 1..0 = {}
    BY <2>2
  <2>4. Trace(c, s, none, s)
    BY <2>1, <2>3 DEF Trace
  <2> QED
    BY <2>2, <2>4 DEF Leads
<1>2. ASSUME NEW s, NEW u, Leads(s, << >>, u)
      PROVE  s = u
  <2>1. PICK none : none = << >>
    OBVIOUS
  <2>2. PICK c : Trace(c, s, none, u)
    BY <1>2, <2>1 DEF Leads
  <2>3. Len(none) = 0
    BY <2>1
  <2> QED
    BY <2>2, <2>3 DEF Trace
<1> QED
  BY <1>1, <1>2

\* One node makes one step.
LEMMA LeadsOne ==
    ASSUME NEW s \in Seq(Nodes), NEW u \in Seq(Nodes), NEW n, Steps(s, n, u)
    PROVE  Leads(s, <<n>>, u)
<1>1. PICK c : c = [k \in 0..1 |-> IF k = 0 THEN s ELSE u]
  OBVIOUS
<1>2. PICK w : w = <<n>>
  OBVIOUS
<1>3. Len(w) = 1 /\ w[1] = n
  BY <1>2
<1>4. c \in [0..1 -> Seq(Nodes)] /\ c[0] = s /\ c[1] = u
  BY <1>1
<1>5. \A k \in 1..1 : Steps(c[k - 1], w[k], c[k])
  <2>1. ASSUME NEW k \in 1..1
        PROVE  Steps(c[k - 1], w[k], c[k])
    <3>1. k = 1 /\ k - 1 = 0
      OBVIOUS
    <3> QED
      BY <1>3, <1>4, <3>1
  <2> QED
    BY <2>1
<1>6. Trace(c, s, w, u)
  BY <1>3, <1>4, <1>5 DEF Trace
<1> QED
  BY <1>2, <1>6 DEF Leads

\* First the nodes of v, then those of w.
LEMMA LeadsConcat ==
    ASSUME NEW v \in Seq(Nodes), NEW w \in Seq(Nodes), NEW s, NEW t, NEW u,
           Leads(s, v, t), Leads(t, w, u)
    PROVE  Leads(s, v \o w, u)
<1>1. PICK m \in Nat, n \in Nat : m = Len(v) /\ n = Len(w)
  OBVIOUS
<1>2. PICK c : Trace(c, s, v, t)
  BY DEF Leads
<1>3. PICK d : Trace(d, t, w, u)
  BY DEF Leads
<1>4. /\ c \in [0..m -> Seq(Nodes)] /\ c[0] = s /\ c[m] = t
      /\ \A k \in 1..m : Steps(c[k - 1], v[k], c[k])
  BY <1>1, <1>2, Zenon DEF Trace
<1>5. /\ d \in [0..n -> Seq(Nodes)] /\ d[0] = t /\ d[n] = u
      /\ \A k \in 1..n : Steps(d[k - 1], w[k], d[k])
  BY <1>1, <1>3, Zenon DEF Trace
<1>6. PICK r : r = v \o w
  OBVIOUS
<1>7. /\ r \in Seq(Nodes) /\ Len(r) = m + n
      /\ \A k \in 1..m : r[k] = v[k]
      /\ \A k \in 1..n : r[m + k] = w[k]
  BY <1>1, <1>6
<1> DEFINE e == [k \in 0..m + n |-> IF k <= m THEN c[k] ELSE d[k - m]]
<1>8. \A k \in 0..m : e[k] = c[k]
  OBVIOUS
<1>9. \A i \in 0..m + n, k \in 0..n : i = m + k => e[i] = d[k]
  <2>1. SUFFICES ASSUME NEW i \in 0..m + n, NEW k \in 0..n, i = m + k
                 PROVE  e[i] = d[k]
    OBVIOUS
  <2>2. e[i] = IF i <= m THEN c[i] ELSE d[i - m]
    OBVIOUS
  <2> HIDE DEF e
  <2>3. CASE k = 0
    <3>1. i = m /\ i <= m
      BY <2>1, <2>3
    <3> QED
      BY <1>4, <1>5, <2>2, <2>3, <3>1
  <2>4. CASE k # 0
    <3>1. ~ (i <= m) /\ i - m = k
      BY <2>1, <2>4
    <3> QED
      BY <2>2, <3>1
  <2> QED
    BY <2>3, <2>4
<1>10. e \in [0..m + n -> Seq(Nodes)]
  <2>1. ASSUME NEW k \in 0..m + n
        PROVE  (IF k <= m THEN c[k] ELSE d[k - m]) \in Seq(Nodes)
    <3>1. CASE k <= m
      <4>1. k \in 0..m
        BY <3>1
      <4> QED
        BY <1>4, <3>1, <4>1
    <3>2. CASE ~ (k <= m)
      <4>1. k - m \in 0..n
        BY <3>2
      <4> QED
        BY <1>5, <3>2, <4>1
    <3> QED
      BY <3>1, <3>2
  <2> QED
    BY <2>1
<1> HIDE DEF e
<1>11. e[0] = s /\ e[m + n] = u
  <2>1. m + n \in 0..m + n /\ n \in 0..n /\ 0 \in 0..m
    OBVIOUS
  <2> QED
    BY <1>4, <1>5, <1>8, <1>9, <2>1
<1>12. ASSUME NEW k \in 1..m + n
       PROVE  Steps(e[k - 1], r[k], e[k])
  <2>1. CASE k \in 1..m
    <3>1. k \in 0..m /\ k - 1 \in 0..m
      BY <2>1
    <3>2. e[k] = c[k] /\ e[k - 1] = c[k - 1]
      BY <1>8, <3>1
    <3> QED
      BY <1>4, <1>7, <2>1, <3>2
  <2>2. CASE k \notin 1..m
    <3>1. PICK l \in 1..n : k = m + l
      <4>1. k - m \in 1..n /\ k = m + (k - m)
        BY <2>2
      <4> QED
        BY <4>1
    <3>2. l \in 0..n /\ l - 1 \in 0..n /\ k - 1 = m + (l - 1) /\ k \in 0..m + n /\ k - 1 \in 0..m + n
      BY <3>1
    <3>3. e[k] = d[l]
      BY <1>9, <3>1, <3>2
    <3>4. e[k - 1] = d[l - 1]
      BY <1>9, <3>2
    <3>5. r[k] = w[l]
      BY <1>7, <3>1
    <3> QED
      BY <1>5, <3>3, <3>4, <3>5
  <2> QED
    BY <2>1, <2>2
<1>13. Trace(e, s, r, u)
  BY <1>7, <1>10, <1>11, <1>12 DEF Trace
<1> QED
  BY <1>6, <1>13 DEF Leads

\* The first node makes the first step.
LEMMA LeadsHead ==
    ASSUME NEW w \in Seq(Nodes), w # << >>, NEW s, NEW u, Leads(s, w, u)
    PROVE  \E t \in Seq(Nodes) : Steps(s, Head(w), t) /\ Leads(t, Tail(w), u)
<1>1. PICK n \in Nat : n = Len(w) /\ n >= 1
  BY EmptySeq
<1>2. PICK c : Trace(c, s, w, u)
  BY DEF Leads
<1>3. /\ c \in [0..n -> Seq(Nodes)] /\ c[0] = s /\ c[n] = u
      /\ \A k \in 1..n : Steps(c[k - 1], w[k], c[k])
  BY <1>1, <1>2, Zenon DEF Trace
<1>4. PICK d : d = [k \in 0..n - 1 |-> c[k + 1]]
  OBVIOUS
<1>5. PICK r : r = Tail(w)
  OBVIOUS
<1>6. Len(r) = n - 1 /\ n - 1 \in Nat /\ (\A k \in 1..n - 1 : r[k] = w[k + 1]) /\ Head(w) = w[1]
  BY <1>1, <1>5
<1>7. d \in [0..n - 1 -> Seq(Nodes)]
  <2>1. \A k \in 0..n - 1 : k + 1 \in 0..n
    BY <1>1
  <2> QED
    BY <1>3, <1>4, <2>1
<1>8. d[0] = c[1] /\ d[n - 1] = u
  <2>1. 0 \in 0..n - 1 /\ n - 1 \in 0..n - 1 /\ (n - 1) + 1 = n
    BY <1>1
  <2> QED
    BY <1>3, <1>4, <2>1
<1>9. ASSUME NEW k \in 1..n - 1
      PROVE  Steps(d[k - 1], r[k], d[k])
  <2>1. PICK l \in 1..n : l = k + 1
    BY <1>1
  <2>2. Steps(c[l - 1], w[l], c[l])
    BY <1>3
  <2>3. k \in 0..n - 1 /\ k - 1 \in 0..n - 1 /\ (k - 1) + 1 = k /\ l - 1 = k
    BY <1>1, <2>1
  <2>4. d[k] = c[l] /\ d[k - 1] = c[l - 1]
    BY <1>4, <2>1, <2>3
  <2> QED
    BY <1>6, <2>1, <2>2, <2>4
<1>10. Trace(d, c[1], r, u)
  BY <1>6, <1>7, <1>8, <1>9 DEF Trace
<1>11. Steps(s, Head(w), c[1]) /\ c[1] \in Seq(Nodes)
  <2>1. 1 \in 1..n /\ 1 - 1 = 0 /\ 1 \in 0..n
    BY <1>1
  <2> QED
    BY <1>3, <1>6, <2>1
<1> QED
  BY <1>5, <1>10, <1>11 DEF Leads

\* No sequence is longer than all of them together.
LEMMA JoinsLonger ==
    ASSUME NEW U, NEW s \in Seq(Seq(U)), NEW f, Joins(f, s, U)
    PROVE  \A k \in 1..Len(s) : Len(s[k]) <= Len(f[Len(s)])
<1>1. PICK n \in Nat : n = Len(s)
  OBVIOUS
<1>2. /\ f \in [0..n -> Seq(U)]
      /\ \A k \in 1..n : f[k] = f[k - 1] \o s[k]
      /\ \A k \in 1..n : s[k] \in Seq(U)
  <2>1. /\ f \in [0..n -> Seq(U)]
        /\ \A k \in 1..n : f[k] = f[k - 1] \o s[k]
    BY <1>1, Zenon DEF Joins
  <2>2. PICK T : T = Seq(U)
    OBVIOUS
  <2>3. s \in Seq(T)
    BY <2>2
  <2>4. \A k \in 1..n : s[k] \in T
    BY <1>1, <2>3
  <2> QED
    BY <2>1, <2>2, <2>4
<1>3. ASSUME NEW k \in 1..n
      PROVE  Len(f[k]) = Len(f[k - 1]) + Len(s[k]) /\ Len(f[k - 1]) \in Nat /\ Len(s[k]) \in Nat
  <2>1. f[k - 1] \in Seq(U) /\ s[k] \in Seq(U) /\ f[k] = f[k - 1] \o s[k]
    <3>1. k - 1 \in 0..n
      OBVIOUS
    <3> QED
      BY <1>2, <3>1
  <2> QED
    BY <2>1
<1> SUFFICES ASSUME NEW i \in 1..n PROVE Len(s[i]) <= Len(f[n])
  BY <1>1
<1> DEFINE S == {k \in Nat : i <= k /\ k <= n => Len(s[i]) <= Len(f[k])}
<1>4. 0 \in S
  OBVIOUS
<1>5. ASSUME NEW j \in Nat, j \in S
      PROVE  j + 1 \in S
  <2>1. SUFFICES ASSUME i <= j + 1, j + 1 <= n PROVE Len(s[i]) <= Len(f[j + 1])
    OBVIOUS
  <2>2. PICK k \in 1..n : k = j + 1 /\ k - 1 = j
    BY <2>1
  <2>3. Len(f[k]) = Len(f[j]) + Len(s[k]) /\ Len(f[j]) \in Nat /\ Len(s[k]) \in Nat
    BY <1>3, <2>2
  <2>4. CASE i <= j
    <3>1. Len(s[i]) <= Len(f[j]) /\ Len(s[i]) \in Nat
      BY <1>3, <1>5, <2>1, <2>4
    <3>2. PICK a, b, c, d : a = Len(f[j]) /\ b = Len(s[k]) /\ c = Len(s[i]) /\ d = Len(f[k])
      OBVIOUS
    <3>3. c <= d
      <4>1. a \in Nat /\ b \in Nat /\ c \in Nat /\ c <= a /\ d = a + b
        BY <2>3, <3>1, <3>2
      <4> QED
        BY <4>1
    <3> QED
      BY <2>2, <3>2, <3>3
  <2>5. CASE ~ (i <= j)
    <3>1. i = k
      BY <2>1, <2>2, <2>5
    <3>2. PICK a, b, d : a = Len(f[j]) /\ b = Len(s[k]) /\ d = Len(f[k])
      OBVIOUS
    <3>3. b <= d
      <4>1. a \in Nat /\ b \in Nat /\ d = a + b
        BY <2>3, <3>2
      <4> QED
        BY <4>1
    <3> QED
      BY <2>2, <3>1, <3>2, <3>3
  <2> QED
    BY <2>4, <2>5
<1> HIDE DEF S
<1>6. n \in S
  BY <1>4, <1>5, NatSets
<1> QED
  BY <1>6 DEF S

\* Evaluated in its order, a node leaves what stands for itself on the stack.
Evaluates(n) == \A below \in Seq(Nodes) : Leads(below, Order(n), Append(below, Standing(n)))

\* It does, if its parts do.
LEMMA PartsLead ==
    ASSUME NEW n \in Nodes, \A k \in DOMAIN n.parts : Evaluates(n.parts[k])
    PROVE  Evaluates(n)
<1>1. PICK parts \in Seq(Nodes) : parts = n.parts
  BY NodesAre DEF IsNode
<1>2. PICK m \in Nat : m = Len(parts) /\ DOMAIN parts = 1..m
  OBVIOUS
<1>3. PICK orders : orders = [k \in DOMAIN parts |-> Order(parts[k])]
  OBVIOUS
<1>4. /\ orders \in Seq(Seq(Nodes))
      /\ Order(n) = Append(FlattenSeq(orders), n)
      /\ \A k \in 1..m : Order(parts[k]) \in Seq(Nodes)
  BY <1>1, <1>2, <1>3, PartsOrder, NodesAre DEF IsNode
<1>5. Len(orders) = m /\ \A k \in 1..m : orders[k] = Order(parts[k])
  BY <1>2, <1>3
<1>6. PICK f : Joins(f, orders, Nodes)
  BY <1>4, JoinsExists
<1>7. /\ f \in [0..m -> Seq(Nodes)]
      /\ f[0] = << >>
      /\ \A k \in 1..m : f[k] = f[k - 1] \o orders[k]
  BY <1>5, <1>6, Zenon DEF Joins
<1>8. FlattenSeq(orders) = f[m] /\ f[m] \in Seq(Nodes)
  <2>1. m \in 0..m
    OBVIOUS
  <2> QED
    BY <1>4, <1>5, <1>6, <1>7, <2>1, FlattenJoins
<1>9. PICK st : st = Standings(parts)
  OBVIOUS
<1>10. st \in Seq(Nodes) /\ Len(st) = m /\ \A k \in 1..m : st[k] = Standing(parts[k])
  <2>1. \A k \in 1..m : Standing(parts[k]) \in Nodes
    <3>1. \A k \in 1..m : parts[k] \in Nodes
      BY <1>2
    <3> QED
      BY <3>1, StandingIsNode
  <2>2. st = [k \in 1..m |-> Standing(parts[k])]
    BY <1>2, <1>9 DEF Standings
  <2> QED
    BY <2>1, <2>2
<1> SUFFICES ASSUME NEW below \in Seq(Nodes)
             PROVE  Leads(below, Order(n), Append(below, Standing(n)))
  BY DEF Evaluates
<1> DEFINE S == {k \in Nat : k <= m => Leads(below, f[k], below \o SubSeq(st, 1, k))}
<1>11. 0 \in S
  <2>1. SubSeq(st, 1, 0) = << >> /\ below \o << >> = below
    BY <1>10
  <2> QED
    BY <1>7, <2>1, LeadsNone
<1>12. ASSUME NEW j \in Nat, j \in S
       PROVE  j + 1 \in S
  <2>1. SUFFICES ASSUME j + 1 <= m PROVE Leads(below, f[j + 1], below \o SubSeq(st, 1, j + 1))
    OBVIOUS
  <2>2. PICK k \in 1..m : k = j + 1 /\ k - 1 = j /\ j \in 0..m
    BY <2>1
  <2>3. PICK before \in Seq(Nodes) : before = SubSeq(st, 1, j)
    <3>1. \A i \in 1..j : st[i] \in Nodes
      BY <1>10, <2>2
    <3>2. SubSeq(st, 1, j) \in Seq(Nodes)
      BY <1>10, <2>2, <3>1
    <3> QED
      BY <3>2
  <2>4. Leads(below, f[j], below \o before)
    BY <1>12, <2>2, <2>3
  <2>5. PICK t \in Seq(Nodes) : t = below \o before
    <3>1. below \o before \in Seq(Nodes)
      OBVIOUS
    <3> QED
      BY <3>1
  <2>6. Leads(t, orders[k], Append(t, st[k]))
    BY <1>1, <1>2, <1>5, <1>10 DEF Evaluates
  <2>7. f[k] = f[j] \o orders[k] /\ f[j] \in Seq(Nodes) /\ orders[k] \in Seq(Nodes)
    BY <1>4, <1>5, <1>7, <2>2
  <2>8. Append(t, st[k]) = below \o SubSeq(st, 1, k)
    <3>1. SubSeq(st, 1, k) = Append(before, st[k])
      BY <1>10, <2>2, <2>3
    <3>2. st[k] \in Nodes
      BY <1>10
    <3>3. below \o Append(before, st[k]) = Append(below \o before, st[k])
      BY <3>2
    <3> QED
      BY <2>5, <3>1, <3>3
  <2>9. PICK v \in Seq(Nodes), w \in Seq(Nodes) : v = f[j] /\ w = orders[k]
    BY <2>7
  <2>10. Leads(below, v, t) /\ Leads(t, w, below \o SubSeq(st, 1, k))
    BY <2>4, <2>5, <2>6, <2>8, <2>9
  <2>11. Leads(below, v \o w, below \o SubSeq(st, 1, k))
    BY <2>10, LeadsConcat
  <2> QED
    BY <2>2, <2>7, <2>9, <2>11
<1>13. Leads(below, f[m], below \o st)
  <2> HIDE DEF S
  <2>1. m \in S
    BY <1>11, <1>12, NatSets
  <2>2. SubSeq(st, 1, m) = st
    BY <1>10
  <2>3. Leads(below, f[m], below \o SubSeq(st, 1, m))
    <3>1. m <= m
      OBVIOUS
    <3> QED
      BY <2>1, <3>1, Zenon DEF S
  <2> QED
    BY <2>2, <2>3
<1>14. Leads(below \o st, <<n>>, Append(below, Standing(n)))
  <2>1. PICK s \in Seq(Nodes), u \in Seq(Nodes) : s = below \o st /\ u = Append(below, Standing(n))
    <3>1. Standing(n) \in Nodes
      BY StandingIsNode
    <3>2. below \o st \in Seq(Nodes) /\ Append(below, Standing(n)) \in Seq(Nodes)
      BY <1>10, <3>1
    <3> QED
      BY <3>2
  <2>2. Steps(s, n, u)
    BY <1>1, <1>9, <2>1 DEF Steps
  <2> QED
    BY <2>1, <2>2, LeadsOne
<1>15. PICK v \in Seq(Nodes), w \in Seq(Nodes) : v = f[m] /\ w = <<n>>
  <2>1. <<n>> \in Seq(Nodes)
    OBVIOUS
  <2> QED
    BY <1>8, <2>1
<1>16. Order(n) = v \o w
  BY <1>4, <1>8, <1>15
<1> QED
  BY <1>13, <1>14, <1>15, <1>16, LeadsConcat

\* Every node is evaluated so.
LEMMA OrderLeads == \A n \in Nodes : Evaluates(n)
<1> DEFINE S == {l \in Nat : \A n \in Nodes : Len(Order(n)) <= l => Evaluates(n)}
<1>1. ASSUME NEW n \in Nodes
      PROVE  /\ Len(Order(n)) \in Nat
             /\ Len(Order(n)) # 0
             /\ \A k \in DOMAIN n.parts : /\ n.parts[k] \in Nodes
                                          /\ Len(Order(n.parts[k])) \in Nat
                                          /\ Len(Order(n.parts[k])) < Len(Order(n))
  <2>1. PICK parts \in Seq(Nodes) : parts = n.parts
    BY NodesAre DEF IsNode
  <2>2. PICK orders : orders = [k \in DOMAIN parts |-> Order(parts[k])]
    OBVIOUS
  <2>3. /\ orders \in Seq(Seq(Nodes))
        /\ Order(n) = Append(FlattenSeq(orders), n)
        /\ FlattenSeq(orders) \in Seq(Nodes)
        /\ \A k \in DOMAIN parts : Order(parts[k]) \in Seq(Nodes)
    BY <2>1, <2>2, PartsOrder, NodesAre DEF IsNode
  <2>4. Len(orders) = Len(parts) /\ \A k \in DOMAIN parts : orders[k] = Order(parts[k])
    BY <2>1, <2>2
  <2>5. \A k \in 1..Len(orders) : Len(orders[k]) <= Len(FlattenSeq(orders))
    <3>1. PICK f : Joins(f, orders, Nodes)
      BY <2>3, JoinsExists
    <3>2. FlattenSeq(orders) = f[Len(orders)]
      BY <2>3, <3>1, FlattenJoins
    <3> QED
      BY <2>3, <3>1, <3>2, JoinsLonger
  <2>6. Len(Order(n)) = Len(FlattenSeq(orders)) + 1 /\ Len(FlattenSeq(orders)) \in Nat
    BY <2>3
  <2>7. ASSUME NEW k \in DOMAIN parts
        PROVE  /\ parts[k] \in Nodes
               /\ Len(Order(parts[k])) \in Nat
               /\ Len(Order(parts[k])) < Len(Order(n))
    <3>1. Len(Order(parts[k])) \in Nat
      BY <2>3
    <3>2. k \in 1..Len(orders)
      BY <2>4
    <3> QED
      BY <2>4, <2>5, <2>6, <3>1, <3>2
  <2> QED
    BY <2>1, <2>6, <2>7
<1>2. 0 \in S
  BY <1>1
<1>3. ASSUME NEW l \in Nat, l \in S
      PROVE  l + 1 \in S
  <2>1. SUFFICES ASSUME NEW n \in Nodes, Len(Order(n)) <= l + 1 PROVE Evaluates(n)
    OBVIOUS
  <2>2. \A k \in DOMAIN n.parts : n.parts[k] \in Nodes /\ Len(Order(n.parts[k])) <= l
    BY <1>1, <2>1
  <2>3. \A k \in DOMAIN n.parts : Evaluates(n.parts[k])
    BY <1>3, <2>2
  <2> QED
    BY <2>3, PartsLead
<1> HIDE DEF S
<1>4. ASSUME NEW n \in Nodes
      PROVE  Evaluates(n)
  <2>1. PICK l \in Nat : l = Len(Order(n))
    BY <1>1
  <2>2. l \in S
    BY <1>2, <1>3, NatSets
  <2> QED
    BY <2>1, <2>2 DEF S
<1> QED
  BY <1>4

-----------------------------------------------------------------------------
(* The dice terms of trees, and the groups rolled for them, left to right. *)

\* What is done to each of some sequences is done to all of them together.
LEMMA FlattenMap ==
    ASSUME NEW U, NEW V, NEW h \in [Seq(U) -> Seq(V)], h[<< >>] = << >>,
           \A a, b \in Seq(U) : h[a \o b] = h[a] \o h[b],
           NEW s \in Seq(Seq(U))
    PROVE  FlattenSeq([k \in DOMAIN s |-> h[s[k]]]) = h[FlattenSeq(s)]
<1>1. PICK n \in Nat : n = Len(s) /\ DOMAIN s = 1..n
  OBVIOUS
<1>2. \A k \in 1..n : s[k] \in Seq(U)
  <2>1. PICK T : T = Seq(U)
    OBVIOUS
  <2>2. s \in Seq(T)
    BY <2>1
  <2>3. \A k \in 1..n : s[k] \in T
    BY <1>1, <2>2
  <2> QED
    BY <2>1, <2>3
<1>3. PICK f : Joins(f, s, U)
  BY JoinsExists
<1>4. /\ f \in [0..n -> Seq(U)]
      /\ f[0] = << >>
      /\ \A k \in 1..n : f[k] = f[k - 1] \o s[k]
  BY <1>1, <1>3, Zenon DEF Joins
<1>5. \A k \in 0..n : f[k] \in Seq(U) /\ h[f[k]] \in Seq(V)
  BY <1>4
<1>6. PICK t : t = [k \in 1..n |-> h[s[k]]]
  OBVIOUS
<1>7. t \in Seq(Seq(V)) /\ Len(t) = n /\ \A k \in 1..n : t[k] = h[s[k]]
  <2>1. PICK T : T = Seq(V)
    OBVIOUS
  <2>2. \A k \in 1..n : h[s[k]] \in T
    BY <1>2, <2>1
  <2>3. t \in Seq(T) /\ Len(t) = n /\ \A k \in 1..n : t[k] = h[s[k]]
    BY <1>6, <2>2
  <2> QED
    BY <2>1, <2>3
<1>8. PICK g : g = [k \in 0..n |-> h[f[k]]]
  OBVIOUS
<1>9. g \in [0..n -> Seq(V)] /\ \A k \in 0..n : g[k] = h[f[k]]
  BY <1>5, <1>8
<1>10. g[0] = << >>
  BY <1>4, <1>9
<1>11. ASSUME NEW k \in 1..n
       PROVE  g[k] = g[k - 1] \o t[k]
  <2>1. k \in 0..n /\ k - 1 \in 0..n
    OBVIOUS
  <2>2. f[k] = f[k - 1] \o s[k] /\ f[k - 1] \in Seq(U) /\ s[k] \in Seq(U)
    BY <1>2, <1>4, <1>5, <2>1
  <2>3. h[f[k]] = h[f[k - 1]] \o h[s[k]]
    BY <2>2
  <2> QED
    BY <1>7, <1>9, <2>1, <2>3
<1>12. Joins(g, t, V)
  BY <1>7, <1>9, <1>10, <1>11 DEF Joins
<1>13. FlattenSeq(t) = g[n] /\ FlattenSeq(s) = f[n]
  BY <1>1, <1>3, <1>7, <1>12, FlattenJoins
<1>14. g[n] = h[f[n]]
  BY <1>9
<1> QED
  BY <1>1, <1>6, <1>13, <1>14

\* A dice term alone, and nothing for other nodes.
DiceAt(n) == IF n.kind = "dice" THEN <<n>> ELSE << >>

\* The dice terms of an order, of two, of one node and of none.
LEMMA DiceInOrders ==
    /\ \A a \in Seq(Nodes) : DiceIn(a) \in Seq(Nodes)
    /\ \A a, b \in Seq(Nodes) : DiceIn(a \o b) = DiceIn(a) \o DiceIn(b)
    /\ \A n \in Nodes : DiceIn(<<n>>) = DiceAt(n)
    /\ DiceIn(<< >>) = << >>
<1> DEFINE each(a) == [k \in DOMAIN a |-> DiceAt(a[k])]
<1>1. ASSUME NEW a
      PROVE  DiceIn(a) = FlattenSeq(each(a))
  BY DEF DiceIn, DiceAt
<1>2. PICK T : T = Seq(Nodes)
  OBVIOUS
<1>3. \A n \in Nodes : DiceAt(n) \in T
  BY <1>2 DEF DiceAt
<1>4. ASSUME NEW a \in Seq(Nodes)
      PROVE  each(a) \in Seq(T) /\ Len(each(a)) = Len(a)
  <2>1. \A k \in 1..Len(a) : a[k] \in Nodes
    OBVIOUS
  <2>2. \A k \in 1..Len(a) : DiceAt(a[k]) \in T
    BY <1>3, <2>1
  <2>3. PICK e : e = [k \in 1..Len(a) |-> DiceAt(a[k])]
    OBVIOUS
  <2>4. e \in Seq(T) /\ Len(e) = Len(a)
    BY <2>2, <2>3
  <2>5. DOMAIN a = 1..Len(a)
    OBVIOUS
  <2> QED
    BY <2>3, <2>4, <2>5
<1>5. ASSUME NEW a \in Seq(Nodes), NEW b \in Seq(Nodes)
      PROVE  each(a \o b) = each(a) \o each(b)
  <2>1. PICK c \in Seq(Nodes) : c = a \o b
    <3>1. a \o b \in Seq(Nodes)
      OBVIOUS
    <3> QED
      BY <3>1
  <2>2. PICK d, e, f : d = each(a) /\ e = each(b) /\ f = each(c)
    OBVIOUS
  <2>3. /\ d \in Seq(T) /\ Len(d) = Len(a)
        /\ e \in Seq(T) /\ Len(e) = Len(b)
        /\ f \in Seq(T) /\ Len(f) = Len(c)
    BY <1>4, <2>2
  <2>4. /\ \A k \in 1..Len(a) : d[k] = DiceAt(a[k])
        /\ \A k \in 1..Len(b) : e[k] = DiceAt(b[k])
        /\ \A k \in 1..Len(c) : f[k] = DiceAt(c[k])
    <3>1. DOMAIN a = 1..Len(a) /\ DOMAIN b = 1..Len(b) /\ DOMAIN c = 1..Len(c)
      OBVIOUS
    <3> QED
      BY <2>2, <3>1
  <2>5. PICK m \in Nat, n \in Nat : m = Len(a) /\ n = Len(b) /\ Len(c) = m + n
    BY <2>1
  <2>6. PICK g : g = d \o e
    OBVIOUS
  <2>7. g \in Seq(T) /\ Len(g) = m + n
    <3>1. d \in Seq(T) /\ e \in Seq(T)
      BY <2>3
    <3>2. d \o e \in Seq(T)
      BY <3>1
    <3>3. Len(d \o e) = Len(d) + Len(e)
      BY <3>1
    <3> QED
      BY <2>3, <2>5, <2>6, <3>2, <3>3
  <2>8. ASSUME NEW k \in 1..m + n
        PROVE  f[k] = g[k]
    <3>1. CASE k <= m
      <4>1. k \in 1..m /\ g[k] = d[k] /\ c[k] = a[k]
        BY <2>1, <2>3, <2>5, <2>6, <3>1
      <4> QED
        BY <2>4, <2>5, <4>1
    <3>2. CASE ~ (k <= m)
      <4>1. PICK l \in 1..n : l = k - m
        BY <3>2
      <4>2. g[k] = e[l]
        BY <2>3, <2>5, <2>6, <3>2, <4>1
      <4>3. c[k] = b[l]
        BY <2>1, <2>5, <3>2, <4>1
      <4> QED
        BY <2>4, <2>5, <4>1, <4>2, <4>3
    <3> QED
      BY <3>1, <3>2
  <2>9. f = g
    BY <2>3, <2>5, <2>7, <2>8
  <2> QED
    BY <2>1, <2>2, <2>6, <2>9
<1>6. each(<< >>) = << >>
  OBVIOUS
<1>7. \A n \in Nodes : each(<<n>>) = <<DiceAt(n)>>
  OBVIOUS
<1> HIDE DEF each
<1>8. ASSUME NEW a \in Seq(Nodes), NEW b \in Seq(Nodes)
      PROVE  DiceIn(a \o b) = DiceIn(a) \o DiceIn(b) /\ DiceIn(a) \in Seq(Nodes)
  <2>1. each(a) \in Seq(Seq(Nodes)) /\ each(b) \in Seq(Seq(Nodes))
    BY <1>2, <1>4
  <2>2. /\ FlattenSeq(each(a) \o each(b)) = FlattenSeq(each(a)) \o FlattenSeq(each(b))
        /\ FlattenSeq(each(a)) \in Seq(Nodes)
        /\ FlattenSeq(each(b)) \in Seq(Nodes)
    BY <2>1, FlattenConcat
  <2> QED
    BY <1>1, <1>5, <2>2
<1>9. ASSUME NEW n \in Nodes
      PROVE  DiceIn(<<n>>) = DiceAt(n)
  <2>1. DiceAt(n) \in Seq(Nodes)
    BY <1>2, <1>3
  <2>2. FlattenSeq(<<DiceAt(n)>>) = DiceAt(n)
    BY <2>1, FlattenOne
  <2> QED
    BY <1>1, <1>7, <2>2
<1>10. DiceIn(<< >>) = << >>
  BY <1>1, <1>6, FlattenNone
<1> QED
  BY <1>8, <1>9, <1>10

\* The dice terms of a node are those of its parts.
LEMMA NodeDice ==
    ASSUME NEW n \in Nodes
    PROVE  /\ n.kind = "dice" => DiceIn(Order(n)) = <<n>>
           /\ n.kind # "dice" => DiceIn(Order(n))
                                   = FlattenSeq([k \in DOMAIN n.parts |-> DiceIn(Order(n.parts[k]))])
<1>1. PICK parts \in Seq(Nodes) : parts = n.parts
  BY NodesAre DEF IsNode
<1>2. PICK orders : orders = [k \in DOMAIN parts |-> Order(parts[k])]
  OBVIOUS
<1>3. /\ orders \in Seq(Seq(Nodes))
      /\ Order(n) = Append(FlattenSeq(orders), n)
      /\ FlattenSeq(orders) \in Seq(Nodes)
      /\ \A k \in DOMAIN parts : Order(parts[k]) \in Seq(Nodes)
  BY <1>1, <1>2, PartsOrder, NodesAre DEF IsNode
<1>4. DiceIn(Order(n)) = DiceIn(FlattenSeq(orders)) \o DiceAt(n)
  <2>1. PICK a \in Seq(Nodes), b \in Seq(Nodes) : a = FlattenSeq(orders) /\ b = <<n>>
    <3>1. <<n>> \in Seq(Nodes)
      OBVIOUS
    <3> QED
      BY <1>3, <3>1
  <2>2. Order(n) = a \o b
    BY <1>3, <2>1
  <2>3. DiceIn(a \o b) = DiceIn(a) \o DiceIn(b) /\ DiceIn(b) = DiceAt(n)
    BY <2>1, DiceInOrders
  <2> QED
    BY <2>1, <2>2, <2>3
<1>5. CASE n.kind = "dice"
  <2>1. parts = << >>
    BY <1>1, <1>5, NodesAre DEF IsNode, Sound
  <2>2. orders = << >>
    BY <1>2, <2>1
  <2>3. DiceIn(FlattenSeq(orders)) = << >>
    BY <2>2, FlattenNone, DiceInOrders
  <2>4. << >> \o <<n>> = <<n>>
    OBVIOUS
  <2> QED
    BY <1>4, <1>5, <2>3, <2>4 DEF DiceAt
<1>6. CASE n.kind # "dice"
  <2>1. PICK h : h = [a \in Seq(Nodes) |-> DiceIn(a)]
    OBVIOUS
  <2>2. h \in [Seq(Nodes) -> Seq(Nodes)] /\ h[<< >>] = << >>
    <3>1. << >> \in Seq(Nodes)
      OBVIOUS
    <3> QED
      BY <2>1, <3>1, DiceInOrders
  <2>3. \A a, b \in Seq(Nodes) : h[a \o b] = h[a] \o h[b]
    <3>1. \A a, b \in Seq(Nodes) : a \o b \in Seq(Nodes)
      OBVIOUS
    <3> QED
      BY <2>1, <3>1, DiceInOrders
  <2>4. FlattenSeq([k \in DOMAIN orders |-> h[orders[k]]]) = h[FlattenSeq(orders)]
    BY <1>3, <2>2, <2>3, FlattenMap
  <2>5. [k \in DOMAIN orders |-> h[orders[k]]] = [k \in DOMAIN parts |-> DiceIn(Order(parts[k]))]
    <3>1. DOMAIN orders = DOMAIN parts /\ \A k \in DOMAIN parts : orders[k] = Order(parts[k])
      BY <1>2
    <3>2. \A k \in DOMAIN parts : h[orders[k]] = DiceIn(Order(parts[k]))
      BY <1>3, <2>1, <3>1
    <3> QED
      BY <3>1, <3>2
  <2>6. h[FlattenSeq(orders)] = DiceIn(FlattenSeq(orders)) /\ DiceIn(FlattenSeq(orders)) \in Seq(Nodes)
    BY <1>3, <2>1, DiceInOrders
  <2>7. \A a \in Seq(Nodes) : a \o << >> = a
    OBVIOUS
  <2> QED
    BY <1>1, <1>4, <1>6, <2>4, <2>5, <2>6, <2>7 DEF DiceAt
<1> QED
  BY <1>5, <1>6

\* A sequence that has the elements of two others, one after the other.
LEMMA IsConcat ==
    ASSUME NEW S, NEW a \in Seq(S), NEW b \in Seq(S), NEW c \in Seq(S),
           Len(c) = Len(a) + Len(b),
           \A k \in 1..Len(a) : c[k] = a[k],
           \A k \in 1..Len(b) : c[Len(a) + k] = b[k]
    PROVE  c = a \o b
<1>1. PICK m \in Nat, n \in Nat : m = Len(a) /\ n = Len(b)
  OBVIOUS
<1>2. PICK d : d = a \o b
  OBVIOUS
<1>3. /\ d \in Seq(S) /\ Len(d) = m + n
      /\ \A k \in 1..m : d[k] = a[k]
      /\ \A k \in 1..n : d[m + k] = b[k]
  BY <1>1, <1>2
<1>4. ASSUME NEW k \in 1..m + n
      PROVE  c[k] = d[k]
  <2>1. CASE k \in 1..m
    BY <1>1, <1>3, <2>1
  <2>2. CASE k \notin 1..m
    <3>1. k - m \in 1..n /\ m + (k - m) = k
      BY <2>2
    <3>2. c[m + (k - m)] = b[k - m] /\ d[m + (k - m)] = b[k - m]
      BY <1>1, <1>3, <3>1
    <3> QED
      BY <3>1, <3>2
  <2> QED
    BY <2>1, <2>2
<1>5. Len(c) = m + n
  BY <1>1
<1>6. c = d
  <2>1. Len(c) = Len(d) /\ \A k \in 1..Len(c) : c[k] = d[k]
    BY <1>3, <1>4, <1>5
  <2> QED
    BY <1>3, <2>1, SeqEqual
<1> QED
  BY <1>2, <1>6

\* The terms that groups belong to.
Named(t, gs) == [k \in DOMAIN gs |-> t[gs[k]]]

\* The terms of groups, of two sequences of groups, of one group and of none.
LEMMA NamedGroups ==
    ASSUME NEW t, NEW G, \A g \in G : t[g] \in Nodes
    PROVE  /\ \A a \in Seq(G) : Named(t, a) \in Seq(Nodes)
           /\ \A a, b \in Seq(G) : Named(t, a \o b) = Named(t, a) \o Named(t, b)
           /\ \A g \in G : Named(t, <<g>>) = <<t[g]>>
           /\ Named(t, << >>) = << >>
<1>1. ASSUME NEW a \in Seq(G)
      PROVE  /\ Named(t, a) \in Seq(Nodes)
             /\ Len(Named(t, a)) = Len(a)
             /\ \A k \in 1..Len(a) : Named(t, a)[k] = t[a[k]]
  <2>1. \A k \in 1..Len(a) : t[a[k]] \in Nodes
    <3>1. \A k \in 1..Len(a) : a[k] \in G
      OBVIOUS
    <3> QED
      BY <3>1
  <2>2. Named(t, a) = [k \in 1..Len(a) |-> t[a[k]]]
    <3>1. DOMAIN a = 1..Len(a)
      OBVIOUS
    <3> QED
      BY <3>1 DEF Named
  <2>3. Len(a) \in Nat
    OBVIOUS
  <2> QED
    BY <2>1, <2>2, <2>3
<1>2. ASSUME NEW a \in Seq(G), NEW b \in Seq(G)
      PROVE  Named(t, a \o b) = Named(t, a) \o Named(t, b)
  <2>1. PICK c \in Seq(G) : c = a \o b
    <3>1. a \o b \in Seq(G)
      OBVIOUS
    <3> QED
      BY <3>1
  <2>2. PICK m \in Nat, n \in Nat : m = Len(a) /\ n = Len(b) /\ Len(c) = m + n
    BY <2>1
  <2>3. PICK d, e, f : d = Named(t, a) /\ e = Named(t, b) /\ f = Named(t, c)
    OBVIOUS
  <2>4. /\ d \in Seq(Nodes) /\ Len(d) = m
        /\ e \in Seq(Nodes) /\ Len(e) = n
        /\ f \in Seq(Nodes) /\ Len(f) = m + n
    BY <1>1, <2>2, <2>3
  <2>9. \A k \in 1..m : d[k] = t[a[k]]
    BY <1>1, <2>2, <2>3
  <2>10. \A k \in 1..n : e[k] = t[b[k]]
    BY <1>1, <2>2, <2>3
  <2>11. \A k \in 1..m + n : f[k] = t[c[k]]
    BY <1>1, <2>2, <2>3
  <2>5. /\ \A k \in 1..m : c[k] = a[k]
        /\ \A k \in 1..n : c[m + k] = b[k]
    BY <2>1, <2>2
  <2>6. ASSUME NEW k \in 1..m
        PROVE  f[k] = d[k]
    <3>1. k \in 1..m + n
      BY <2>2
    <3>2. f[k] = t[c[k]]
      BY <2>11, <3>1
    <3>3. c[k] = a[k] /\ d[k] = t[a[k]]
      BY <2>5, <2>9
    <3> QED
      BY <3>2, <3>3
  <2>7. ASSUME NEW k \in 1..n
        PROVE  f[m + k] = e[k]
    <3>1. m + k \in 1..m + n
      BY <2>2
    <3>2. f[m + k] = t[c[m + k]]
      BY <2>11, <3>1
    <3>3. c[m + k] = b[k] /\ e[k] = t[b[k]]
      BY <2>5, <2>10
    <3> QED
      BY <3>2, <3>3
  <2>8. f = d \o e
    <3>1. /\ Len(f) = Len(d) + Len(e)
          /\ \A k \in 1..Len(d) : f[k] = d[k]
          /\ \A k \in 1..Len(e) : f[Len(d) + k] = e[k]
      BY <2>4, <2>6, <2>7
    <3> QED
      BY <2>4, <3>1, IsConcat
  <2> QED
    BY <2>1, <2>3, <2>8
<1>3. ASSUME NEW g \in G
      PROVE  Named(t, <<g>>) = <<t[g]>>
  BY DEF Named
<1>4. Named(t, << >>) = << >>
  BY DEF Named
<1> QED
  BY <1>1, <1>2, <1>3, <1>4

\* Trees whose dice are groups.
HaveGroups(trees, G) == trees \in Seq(ToSet(trees)) /\ \A k \in 1..Len(trees) : trees[k].dice \in Seq(G)

\* collectDice, of trees, of two sequences of trees, of one tree and of none.
LEMMA GroupsOfTrees ==
    ASSUME NEW G
    PROVE  /\ \A a : HaveGroups(a, G) => GroupsOf(a) \in Seq(G)
           /\ \A a, b : HaveGroups(a, G) /\ HaveGroups(b, G) =>
                 GroupsOf(a \o b) = GroupsOf(a) \o GroupsOf(b)
           /\ \A tree : tree.dice \in Seq(G) => GroupsOf(<<tree>>) = tree.dice
           /\ GroupsOf(<< >>) = << >>
<1> DEFINE each(a) == [k \in DOMAIN a |-> a[k].dice]
<1>1. PICK T : T = Seq(G)
  OBVIOUS
<1>2. \A a : GroupsOf(a) = FlattenSeq(each(a))
  BY DEF GroupsOf
<1>3. ASSUME NEW a, HaveGroups(a, G)
      PROVE  /\ a \in Seq(ToSet(a))
             /\ each(a) \in Seq(T)
             /\ Len(each(a)) = Len(a)
             /\ \A k \in 1..Len(a) : each(a)[k] = a[k].dice
  <2>1. a \in Seq(ToSet(a)) /\ \A k \in 1..Len(a) : a[k].dice \in T
    BY <1>1, <1>3 DEF HaveGroups
  <2>2. DOMAIN a = 1..Len(a) /\ Len(a) \in Nat
    BY <2>1
  <2>3. PICK e : e = [k \in 1..Len(a) |-> a[k].dice]
    OBVIOUS
  <2>4. e \in Seq(T) /\ Len(e) = Len(a)
    BY <2>1, <2>2, <2>3
  <2> QED
    BY <2>1, <2>2, <2>3, <2>4
<1>4. ASSUME NEW a, HaveGroups(a, G), NEW b, HaveGroups(b, G)
      PROVE  each(a \o b) = each(a) \o each(b)
  <2>1. PICK U : U = ToSet(a) \cup ToSet(b)
    OBVIOUS
  <2>2. a \in Seq(U) /\ b \in Seq(U)
    <3>1. a \in Seq(ToSet(a)) /\ b \in Seq(ToSet(b))
      BY <1>4 DEF HaveGroups
    <3> QED
      BY <2>1, <3>1
  <2>3. PICK c \in Seq(U) : c = a \o b
    <3>1. a \o b \in Seq(U)
      BY <2>2
    <3> QED
      BY <3>1
  <2>4. PICK m \in Nat, n \in Nat : m = Len(a) /\ n = Len(b) /\ Len(c) = m + n
    BY <2>2, <2>3
  <2>5. PICK d, e, f : d = each(a) /\ e = each(b) /\ f = [k \in 1..m + n |-> c[k].dice]
    OBVIOUS
  <2>6. /\ d \in Seq(T) /\ Len(d) = m /\ \A k \in 1..m : d[k] = a[k].dice
        /\ e \in Seq(T) /\ Len(e) = n /\ \A k \in 1..n : e[k] = b[k].dice
    BY <1>3, <1>4, <2>4, <2>5
  <2>7. /\ \A k \in 1..m : c[k] = a[k]
        /\ \A k \in 1..n : c[m + k] = b[k]
    BY <2>2, <2>3, <2>4
  <2>8. \A k \in 1..m : f[k] = d[k]
    BY <2>5, <2>6, <2>7
  <2>9. \A k \in 1..n : f[m + k] = e[k]
    BY <2>5, <2>6, <2>7
  <2>10. f \in Seq(T) /\ Len(f) = m + n
    <3>1. ASSUME NEW k \in 1..m + n
          PROVE  c[k].dice \in T
      <4>1. CASE k \in 1..m
        BY <2>6, <2>7, <4>1
      <4>2. CASE k \notin 1..m
        <5>1. k - m \in 1..n /\ m + (k - m) = k
          BY <4>2
        <5>2. c[m + (k - m)] = b[k - m] /\ b[k - m].dice \in T
          BY <2>6, <2>7, <5>1
        <5> QED
          BY <5>1, <5>2
      <4> QED
        BY <4>1, <4>2
    <3> QED
      BY <2>5, <3>1
  <2>11. f = d \o e
    BY <2>6, <2>8, <2>9, <2>10, IsConcat
  <2>12. each(c) = f
    BY <2>3, <2>4, <2>5
  <2> QED
    BY <2>3, <2>5, <2>11, <2>12
<1>5. each(<< >>) = << >>
  OBVIOUS
<1>6. \A tree : each(<<tree>>) = <<tree.dice>>
  OBVIOUS
<1> HIDE DEF each
<1>7. \A a : HaveGroups(a, G) => each(a) \in Seq(Seq(G))
  BY <1>1, <1>3
<1>8. ASSUME NEW a, HaveGroups(a, G), NEW b, HaveGroups(b, G)
      PROVE  GroupsOf(a \o b) = GroupsOf(a) \o GroupsOf(b) /\ GroupsOf(a) \in Seq(G)
  <2>1. each(a) \in Seq(Seq(G)) /\ each(b) \in Seq(Seq(G))
    BY <1>7, <1>8
  <2>2. /\ FlattenSeq(each(a) \o each(b)) = FlattenSeq(each(a)) \o FlattenSeq(each(b))
        /\ FlattenSeq(each(a)) \in Seq(G)
        /\ FlattenSeq(each(b)) \in Seq(G)
    BY <2>1, FlattenConcat
  <2> QED
    BY <1>2, <1>4, <1>8, <2>2
<1>9. ASSUME NEW tree, tree.dice \in Seq(G)
      PROVE  GroupsOf(<<tree>>) = tree.dice
  <2>1. FlattenSeq(<<tree.dice>>) = tree.dice
    BY <1>9, FlattenOne
  <2> QED
    BY <1>2, <1>6, <2>1
<1>10. GroupsOf(<< >>) = << >>
  BY <1>2, <1>5, FlattenNone
<1> QED
  BY <1>8, <1>9, <1>10

\* The trees have the dice of a node's parts.
HaveDice(trees, n, t, G) ==
    /\ n.kind # "dice"
    /\ \A g \in G : t[g] \in Nodes
    /\ HaveGroups(trees, G)
    /\ Len(trees) = Len(n.parts)
    /\ \A k \in 1..Len(trees) : Named(t, trees[k].dice) = DiceIn(Order(n.parts[k]))

\* Together they have the dice of the node.
LEMMA PartsDice ==
    ASSUME NEW t, NEW G, NEW n \in Nodes, NEW trees, HaveDice(trees, n, t, G)
    PROVE  GroupsOf(trees) \in Seq(G) /\ Named(t, GroupsOf(trees)) = DiceIn(Order(n))
<1>0. /\ n.kind # "dice"
      /\ \A g \in G : t[g] \in Nodes
      /\ HaveGroups(trees, G)
      /\ Len(trees) = Len(n.parts)
      /\ \A k \in 1..Len(trees) : Named(t, trees[k].dice) = DiceIn(Order(n.parts[k]))
  BY DEF HaveDice
<1>1. PICK parts \in Seq(Nodes) : parts = n.parts
  BY NodesAre DEF IsNode
<1>2. DOMAIN parts = 1..Len(trees) /\ DOMAIN trees = 1..Len(trees) /\ Len(trees) \in Nat
  BY <1>0, <1>1 DEF HaveGroups
<1>3. PICK s : s = [k \in DOMAIN trees |-> trees[k].dice]
  OBVIOUS
<1>4. GroupsOf(trees) = FlattenSeq(s) /\ GroupsOf(trees) \in Seq(G)
  BY <1>0, <1>3, GroupsOfTrees DEF GroupsOf
<1>5. s \in Seq(Seq(G)) /\ DOMAIN s = 1..Len(trees) /\ \A k \in 1..Len(trees) : s[k] = trees[k].dice
  <2>1. PICK T : T = Seq(G)
    OBVIOUS
  <2>2. \A k \in 1..Len(trees) : trees[k].dice \in T
    BY <1>0, <2>1 DEF HaveGroups
  <2>3. s \in Seq(T)
    BY <1>2, <1>3, <2>2
  <2> QED
    BY <1>2, <1>3, <2>1, <2>3
<1>6. PICK h : h = [a \in Seq(G) |-> Named(t, a)]
  OBVIOUS
<1>7. h \in [Seq(G) -> Seq(Nodes)] /\ h[<< >>] = << >>
  <2>1. << >> \in Seq(G)
    OBVIOUS
  <2>2. (\A a \in Seq(G) : Named(t, a) \in Seq(Nodes)) /\ Named(t, << >>) = << >>
    BY <1>0, NamedGroups
  <2> QED
    BY <1>6, <2>1, <2>2
<1>8. \A a, b \in Seq(G) : h[a \o b] = h[a] \o h[b]
  <2>1. \A a, b \in Seq(G) : a \o b \in Seq(G)
    OBVIOUS
  <2>2. \A a, b \in Seq(G) : Named(t, a \o b) = Named(t, a) \o Named(t, b)
    BY <1>0, NamedGroups
  <2> QED
    BY <1>6, <2>1, <2>2
<1>9. FlattenSeq([k \in DOMAIN s |-> h[s[k]]]) = h[FlattenSeq(s)]
  BY <1>5, <1>7, <1>8, FlattenMap
<1>10. [k \in DOMAIN s |-> h[s[k]]] = [k \in DOMAIN parts |-> DiceIn(Order(parts[k]))]
  <2>1. \A k \in 1..Len(trees) : h[s[k]] = DiceIn(Order(parts[k]))
    <3>1. \A k \in 1..Len(trees) : trees[k].dice \in Seq(G)
      BY <1>0 DEF HaveGroups
    <3> QED
      BY <1>0, <1>1, <1>5, <1>6, <3>1
  <2> QED
    BY <1>2, <1>5, <2>1
<1>11. DiceIn(Order(n)) = FlattenSeq([k \in DOMAIN parts |-> DiceIn(Order(parts[k]))])
  BY <1>0, <1>1, NodeDice
<1>12. h[FlattenSeq(s)] = Named(t, GroupsOf(trees))
  BY <1>4, <1>6
<1> QED
  BY <1>4, <1>9, <1>10, <1>11, <1>12

\* Every sequence is in all of them together.
LEMMA FlattenContains ==
    ASSUME NEW U, NEW s \in Seq(Seq(U))
    PROVE  \A k \in 1..Len(s) : ToSet(s[k]) \subseteq ToSet(FlattenSeq(s))
<1>1. PICK n \in Nat : n = Len(s)
  OBVIOUS
<1>2. PICK f : Joins(f, s, U)
  BY JoinsExists
<1>3. \A k \in 1..n : s[k] \in Seq(U)
  <2>1. PICK T : T = Seq(U)
    OBVIOUS
  <2>2. s \in Seq(T)
    BY <2>1
  <2>3. \A k \in 1..n : s[k] \in T
    BY <1>1, <2>2
  <2> QED
    BY <2>1, <2>3
<1>4. f \in [0..n -> Seq(U)] /\ \A k \in 1..n : f[k] = f[k - 1] \o s[k]
  BY <1>1, <1>2, Zenon DEF Joins
<1>5. \A a, b \in Seq(U) : ToSet(a) \subseteq ToSet(a \o b) /\ ToSet(b) \subseteq ToSet(a \o b)
  <2>1. SUFFICES ASSUME NEW a \in Seq(U), NEW b \in Seq(U)
                 PROVE  ToSet(a) \subseteq ToSet(a \o b) /\ ToSet(b) \subseteq ToSet(a \o b)
    OBVIOUS
  <2>2. PICK c : c = a \o b
    OBVIOUS
  <2>3. PICK l \in Nat, m \in Nat : l = Len(a) /\ m = Len(b)
    OBVIOUS
  <2>4. /\ DOMAIN c = 1..l + m /\ DOMAIN a = 1..l /\ DOMAIN b = 1..m
        /\ \A k \in 1..l : c[k] = a[k]
        /\ \A k \in 1..m : c[l + k] = b[k]
    BY <2>2, <2>3
  <2>5. \A k \in 1..l : k \in 1..l + m
    OBVIOUS
  <2>6. \A k \in 1..m : l + k \in 1..l + m
    OBVIOUS
  <2>7. ToSet(a) \subseteq ToSet(c)
    BY <2>4, <2>5 DEF ToSet
  <2>8. ToSet(b) \subseteq ToSet(c)
    BY <2>4, <2>6 DEF ToSet
  <2> QED
    BY <2>2, <2>7, <2>8
<1>6. ASSUME NEW k \in 1..n
      PROVE  ToSet(f[k - 1]) \subseteq ToSet(f[k]) /\ ToSet(s[k]) \subseteq ToSet(f[k])
  <2>1. f[k - 1] \in Seq(U) /\ s[k] \in Seq(U) /\ f[k] = f[k - 1] \o s[k]
    <3>1. k - 1 \in 0..n
      OBVIOUS
    <3> QED
      BY <1>3, <1>4, <3>1
  <2> QED
    BY <1>5, <2>1
<1>7. ASSUME NEW i \in 1..n
      PROVE  ToSet(s[i]) \subseteq ToSet(f[n])
  <2> DEFINE S == {k \in Nat : i <= k /\ k <= n => ToSet(s[i]) \subseteq ToSet(f[k])}
  <2>1. 0 \in S
    OBVIOUS
  <2>2. ASSUME NEW j \in Nat, j \in S
        PROVE  j + 1 \in S
    <3>1. SUFFICES ASSUME i <= j + 1, j + 1 <= n PROVE ToSet(s[i]) \subseteq ToSet(f[j + 1])
      OBVIOUS
    <3>2. PICK k \in 1..n : k = j + 1 /\ k - 1 = j
      BY <3>1
    <3>3. CASE i <= j
      <4>1. j <= n
        BY <3>1
      <4>2. ToSet(s[i]) \subseteq ToSet(f[j])
        BY <2>2, <3>3, <4>1
      <4> QED
        BY <1>6, <3>2, <4>2
    <3>4. CASE ~ (i <= j)
      <4>1. i = k
        BY <3>1, <3>2, <3>4
      <4> QED
        BY <1>6, <3>2, <4>1
    <3> QED
      BY <3>3, <3>4
  <2> HIDE DEF S
  <2>3. n \in S
    BY <2>1, <2>2, NatSets
  <2>4. i <= n /\ n <= n
    OBVIOUS
  <2> QED
    BY <2>3, <2>4 DEF S
<1>8. FlattenSeq(s) = f[n]
  BY <1>1, <1>2, FlattenJoins
<1> QED
  BY <1>1, <1>7, <1>8

\* A tree's dice are among those of the trees it is with.
LEMMA GroupsContain ==
    ASSUME NEW G, NEW trees, HaveGroups(trees, G)
    PROVE  \A k \in 1..Len(trees) : ToSet(trees[k].dice) \subseteq ToSet(GroupsOf(trees))
<1>1. PICK T : T = Seq(G)
  OBVIOUS
<1>2. PICK n \in Nat : n = Len(trees) /\ DOMAIN trees = 1..n
  BY DEF HaveGroups
<1>3. PICK s : s = [k \in 1..n |-> trees[k].dice]
  OBVIOUS
<1>4. \A k \in 1..n : trees[k].dice \in T
  BY <1>1, <1>2 DEF HaveGroups
<1>5. s \in Seq(T) /\ Len(s) = n /\ \A k \in 1..n : s[k] = trees[k].dice
  BY <1>3, <1>4
<1>6. GroupsOf(trees) = FlattenSeq(s)
  BY <1>2, <1>3 DEF GroupsOf
<1>7. \A k \in 1..Len(s) : ToSet(s[k]) \subseteq ToSet(FlattenSeq(s))
  BY <1>1, <1>5, FlattenContains
<1> QED
  BY <1>2, <1>5, <1>6, <1>7

-----------------------------------------------------------------------------
(* The invariant.                                                          *)

\* The groups of the dice terms that have their value.
Valued == 1..(group - 1)

\* What was made of a node.
PairSound(n, tree) ==
    /\ n \in Nodes
    /\ n.kind \in {"literal", "variable", "unary", "binary", "call", "dice"}
    /\ tree.value \in Word
    /\ tree.dice \in Seq(Valued)
    /\ HaveGroups(tree.parts, Valued)
    /\ Named(terms, tree.dice) = DiceIn(Order(n))
    /\ Follows(tree, n)
    /\ Explains(tree, n)

MadeSound == \A m \in made : PairSound(m.node, m.tree)

\* The trees on the stack are those of nodes that the rest of the work makes
\* into the whole expression.
AreTreesOf(stack, nodes) ==
    /\ stack \in Seq({m.tree : m \in made})
    /\ Len(nodes) = Len(stack)
    /\ \A k \in 1..Len(nodes) : Made(nodes[k], stack[k]) \in made

StackSound ==
    \E nodes \in Seq(Nodes) :
        AreTreesOf(results, nodes) /\ Leads(nodes, work, <<Standing(expr)>>)

\* Each group is on the stack, or has yet to be read again, in this order.
AllInOrder ==
    /\ replay \in Seq(Valued)
    /\ GroupsOf(results) \o replay = [g \in Valued |-> g]

\* The items that are evaluated again have the terms of the groups to be read.
ReplaySound ==
    \E items, rest \in Seq(Nodes) :
        /\ work = items \o rest
        /\ \A n \in ToSet(items) : n.kind # "keep"
        /\ DiceIn(items) = Named(terms, replay)

\* The dice that were rolled fit the ints of the code.
DiceSound ==
    /\ \A g \in DOMAIN terms : terms[g] \in Nodes
    /\ \A g \in DOMAIN groups : Lie(groups[g]) /\ Len(groups[g]) <= MaxInt

RollSound ==
    /\ expr \in Nodes
    /\ work \in Seq(Nodes)
    /\ MadeSound
    /\ StackSound
    /\ AllInOrder
    /\ ReplaySound
    /\ DiceSound

\* Nothing has been made of a formula that was not parsed.
Fresh == made = {} /\ results = << >> /\ terms = << >> /\ groups = << >> /\ replay = << >> /\ group = 1

ResultInv ==
    /\ Inv
    /\ status = "new" => Fresh
    /\ status = "rolling" => RollSound
    /\ ResultExplained

\* Values and shapes do not change, as long as the trees of the parts, and
\* the dice, are there.
LEMMA PairStays ==
    ASSUME NEW n, NEW tree, PairSound(n, tree), group' \in Int, group \in Int, group <= group',
           \A k \in DOMAIN n.parts : Made(Standing(n.parts[k]), tree.parts[k]) \in made',
           DOMAIN groups \subseteq DOMAIN groups',
           \A g \in Valued : terms'[g] = terms[g],
           \A g \in Valued : tree.dice = <<g>> => groups'[g] = groups[g]
    PROVE  PairSound(n, tree)'
<1>1. Valued \subseteq Valued'
  <2>1. \A a, b \in Int : a <= b => 1..(a - 1) \subseteq 1..(b - 1)
    OBVIOUS
  <2>2. group \in Int /\ group' \in Int /\ group <= group'
    OBVIOUS
  <2> QED
    BY <2>1, <2>2, Zenon DEF Valued
<1>2. tree.dice \in Seq(Valued) /\ tree.dice \in Seq(Valued')
  <2>1. \A s \in Seq(Valued) : s \in Seq(Valued')
    BY <1>1
  <2> QED
    BY <2>1 DEF PairSound
<1>3. HaveGroups(tree.parts, Valued')
  <2>1. \A s \in Seq(Valued) : s \in Seq(Valued')
    BY <1>1
  <2> QED
    BY <2>1 DEF PairSound, HaveGroups
<1>4. Named(terms', tree.dice) = DiceIn(Order(n))
  <2>1. \A k \in DOMAIN tree.dice : tree.dice[k] \in Valued
    BY <1>2
  <2>2. Named(terms', tree.dice) = Named(terms, tree.dice)
    BY <2>1 DEF Named
  <2> QED
    BY <2>2 DEF PairSound
<1>5. Follows(tree, n)'
  BY DEF PairSound, Follows
<1>6. Explains(tree, n)'
  <2>1. CASE n.kind = "dice"
    <3>1. PICK g \in DOMAIN groups :
              tree.dice = <<g>> /\ terms[g] = n /\ tree.value = ValueOfDice(n, groups[g])
      BY <2>1 DEF PairSound, Explains
    <3>2. g \in Valued
      <4>1. PICK s \in Seq(Valued) : s = <<g>>
        BY <1>2, <3>1
      <4> QED
        BY <4>1
    <3>3. /\ g \in DOMAIN groups' /\ terms'[g] = n /\ groups'[g] = groups[g]
      BY <3>1, <3>2
    <3>4. tree.kind = "dice"
      BY <2>1 DEF PairSound, Explains
    <3> QED
      BY <2>1, <3>1, <3>3, <3>4 DEF Explains
  <2>2. CASE n.kind \in {"literal", "variable", "unary", "binary", "call"}
    BY <2>2 DEF PairSound, Explains
  <2> QED
    BY <2>1, <2>2 DEF PairSound
<1> QED
  BY <1>2, <1>3, <1>4, <1>5, <1>6 DEF PairSound

\* On top of the stack are the trees of the next node's parts; once what
\* stands for the node has taken their place, the rest of the work is left.
StackSplits(nodes) ==
    /\ nodes \in Seq(Nodes)
    /\ results = Below(results, node) \o args
    /\ AreTreesOf(Below(results, node), nodes)
    /\ AreTreesOf(args, Standings(node.parts))
    /\ Leads(Append(nodes, Standing(node)), Tail(work), <<Standing(expr)>>)

\* Whenever a node is left, the stack splits so.
LEMMA StackTop ==
    ASSUME RollSound, work # << >>
    PROVE  node \in Nodes /\ Tail(work) \in Seq(Nodes) /\ \E nodes : StackSplits(nodes)
<1>1. node \in Nodes /\ Tail(work) \in Seq(Nodes)
  BY DEF RollSound, node
<1>2. PICK all \in Seq(Nodes) : AreTreesOf(results, all) /\ Leads(all, work, <<Standing(expr)>>)
  BY DEF RollSound, StackSound
<1>3. PICK t \in Seq(Nodes) : Steps(all, node, t) /\ Leads(t, Tail(work), <<Standing(expr)>>)
  BY <1>2, LeadsHead DEF RollSound, node
<1>4. PICK nodes \in Seq(Nodes) : all = nodes \o Standings(node.parts) /\ t = Append(nodes, Standing(node))
  BY <1>3 DEF Steps
<1>5. PICK st : st = Standings(node.parts)
  OBVIOUS
<1>6. st \in Seq(Nodes) /\ Len(st) = Len(node.parts)
  <2>1. PICK parts \in Seq(Nodes) : parts = node.parts
    BY <1>1, NodesAre DEF IsNode
  <2>2. \A k \in 1..Len(parts) : Standing(parts[k]) \in Nodes
    <3>1. \A k \in 1..Len(parts) : parts[k] \in Nodes
      OBVIOUS
    <3> QED
      BY <3>1, StandingIsNode
  <2>3. st = [k \in 1..Len(parts) |-> Standing(parts[k])]
    BY <1>5, <2>1 DEF Standings
  <2> QED
    BY <2>1, <2>2, <2>3
<1>7. PICK m \in Nat, n \in Nat : m = Len(nodes) /\ n = Len(st)
  BY <1>6
<1>8. /\ Len(all) = m + n
      /\ \A k \in 1..m : all[k] = nodes[k]
      /\ \A k \in 1..n : all[m + k] = st[k]
  <2>1. all = nodes \o st
    BY <1>4, <1>5
  <2>2. \A a, b \in Seq(Nodes) :
            /\ Len(a \o b) = Len(a) + Len(b)
            /\ \A k \in 1..Len(a) : (a \o b)[k] = a[k]
            /\ \A k \in 1..Len(b) : (a \o b)[Len(a) + k] = b[k]
    OBVIOUS
  <2> QED
    BY <1>6, <1>7, <2>1, <2>2
<1>9. PICK M : M = {p.tree : p \in made}
  OBVIOUS
<1>10. /\ results \in Seq(M) /\ Len(results) = m + n
       /\ \A k \in 1..m + n : Made(all[k], results[k]) \in made
  BY <1>2, <1>8, <1>9 DEF AreTreesOf
<1>11. PICK low, high : low = SubSeq(results, 1, m) /\ high = SubSeq(results, m + 1, m + n)
  OBVIOUS
<1>12. Below(results, node) = low /\ args = high
  <2>1. Len(results) - Len(node.parts) = m /\ Len(results) = m + n
    BY <1>6, <1>7, <1>10
  <2> QED
    BY <1>11, <2>1 DEF Below, args, Top
<1>13. /\ low \in Seq(M) /\ Len(low) = m /\ (\A k \in 1..m : low[k] = results[k])
       /\ high \in Seq(M) /\ Len(high) = n /\ (\A k \in 1..n : high[k] = results[m + k])
  <2>1. \A k \in 1..m + n : results[k] \in M
    BY <1>10
  <2>2. low = [k \in 1..m |-> results[k]]
    BY <1>11 DEF SubSeq
  <2>3. high = [k \in 1..n |-> results[m + k]]
    <3>1. high = [k \in 1..((m + n) - (m + 1) + 1) |-> results[k + (m + 1) - 1]]
      BY <1>11 DEF SubSeq
    <3>2. (m + n) - (m + 1) + 1 = n /\ \A k \in 1..n : k + (m + 1) - 1 = m + k
      OBVIOUS
    <3> QED
      BY <3>1, <3>2
  <2>4. \A k \in 1..m : results[k] \in M
    BY <2>1
  <2>5. \A k \in 1..n : results[m + k] \in M
    <3>1. \A k \in 1..n : m + k \in 1..m + n
      OBVIOUS
    <3> QED
      BY <2>1, <3>1
  <2>6. low \in Seq(M) /\ Len(low) = m /\ \A k \in 1..m : low[k] = results[k]
    BY <2>2, <2>4
  <2>7. high \in Seq(M) /\ Len(high) = n /\ \A k \in 1..n : high[k] = results[m + k]
    BY <2>3, <2>5
  <2> QED
    BY <2>6, <2>7
<1>14. results = low \o high
  <2>1. Len(results) = Len(low) + Len(high)
    BY <1>10, <1>13
  <2>2. \A k \in 1..Len(low) : results[k] = low[k]
    BY <1>13
  <2>3. \A k \in 1..Len(high) : results[Len(low) + k] = high[k]
    BY <1>13
  <2> QED
    BY <1>10, <1>13, <2>1, <2>2, <2>3, IsConcat
<1>15. AreTreesOf(low, nodes)
  <2>1. ASSUME NEW k \in 1..m
        PROVE  Made(nodes[k], low[k]) \in made
    <3>1. k \in 1..m + n
      OBVIOUS
    <3> QED
      BY <1>8, <1>10, <1>13, <3>1
  <2> QED
    BY <1>7, <1>9, <1>13, <2>1 DEF AreTreesOf
<1>16. AreTreesOf(high, st)
  <2>1. ASSUME NEW k \in 1..n
        PROVE  Made(st[k], high[k]) \in made
    <3>1. m + k \in 1..m + n
      OBVIOUS
    <3> QED
      BY <1>8, <1>10, <1>13, <3>1
  <2> QED
    BY <1>7, <1>9, <1>13, <2>1 DEF AreTreesOf
<1>17. StackSplits(nodes)
  BY <1>3, <1>4, <1>5, <1>12, <1>14, <1>15, <1>16 DEF StackSplits
<1> QED
  BY <1>1, <1>17

\* The trees of the next node's parts are sound.
LEMMA ArgsSound ==
    ASSUME RollSound, work # << >>, NEW nodes, StackSplits(nodes)
    PROVE  /\ Parts(args, node)
           /\ HaveGroups(args, Valued)
           /\ HaveGroups(Below(results, node), Valued)
           /\ \A k \in DOMAIN node.parts : Made(Standing(node.parts[k]), args[k]) \in made
           /\ \A k \in 1..Len(args) : Named(terms, args[k].dice) = DiceIn(Order(node.parts[k]))
<1>1. PICK parts \in Seq(Nodes) : parts = node.parts
  BY StackTop, NodesAre DEF IsNode
<1>2. PICK n \in Nat : n = Len(parts) /\ DOMAIN parts = 1..n
  OBVIOUS
<1>3. PICK M : M = {p.tree : p \in made}
  OBVIOUS
<1>4. /\ args \in Seq(M) /\ Len(args) = n
      /\ \A k \in 1..n : Made(Standing(parts[k]), args[k]) \in made
  <2>1. AreTreesOf(args, Standings(parts))
    BY <1>1 DEF StackSplits
  <2>2. Standings(parts) = [k \in 1..n |-> Standing(parts[k])]
    BY <1>2 DEF Standings
  <2>3. PICK st : st = Standings(parts)
    OBVIOUS
  <2>4. Len(st) = n /\ \A k \in 1..n : st[k] = Standing(parts[k])
    BY <2>2, <2>3
  <2> QED
    BY <1>3, <2>1, <2>3, <2>4 DEF AreTreesOf
<1>5. \A x, y : Made(x, y) \in made => PairSound(x, y)
  <2>1. \A x, y : Made(x, y).node = x /\ Made(x, y).tree = y
    BY DEF Made
  <2> QED
    BY <2>1 DEF RollSound, MadeSound
<1>6. \A tree \in M : tree.value \in Word /\ tree.dice \in Seq(Valued)
  BY <1>3 DEF RollSound, MadeSound, PairSound
<1>7. \A s \in Seq(M) : HaveGroups(s, Valued)
  <2>1. ASSUME NEW s \in Seq(M)
        PROVE  HaveGroups(s, Valued)
    <3>1. s \in Seq(ToSet(s))
      BY OwnElements
    <3>2. \A k \in 1..Len(s) : s[k] \in M
      OBVIOUS
    <3> QED
      BY <1>6, <3>1, <3>2 DEF HaveGroups
  <2> QED
    BY <2>1
<1>8. Below(results, node) \in Seq(M)
  BY <1>3 DEF StackSplits, AreTreesOf
<1>9. Parts(args, node)
  <2>1. \A k \in 1..n : args[k] \in M
    BY <1>4
  <2> QED
    BY <1>1, <1>2, <1>4, <1>6, <2>1 DEF Parts
<1>10. \A k \in 1..n : Named(terms, args[k].dice) = DiceIn(Order(parts[k]))
  <2>1. \A k \in 1..n : parts[k] \in Nodes
    BY <1>2
  <2>2. \A k \in 1..n : Named(terms, args[k].dice) = DiceIn(Order(Standing(parts[k])))
    BY <1>4, <1>5 DEF PairSound
  <2> QED
    BY <2>1, <2>2, StandingIsNode
<1> QED
  BY <1>1, <1>2, <1>4, <1>7, <1>8, <1>9, <1>10

-----------------------------------------------------------------------------
(* Steps that complete a node.                                             *)

\* The step puts a node's tree in the place of those of its parts.
Completes(tree) ==
    /\ results' = Append(Below(results, node), tree)
    /\ made' = made \cup {Made(node, tree)}
    /\ work' = Tail(work)
    /\ UNCHANGED <<text, expr, status, terms, groups>>

\* The tree is right for the node, whose dice may have just been valued.
TreeFits(n, tree) ==
    /\ n.kind \in {"literal", "variable", "unary", "binary", "call", "dice"}
    /\ tree.value \in Word
    /\ tree.dice \in Seq(1..(group' - 1))
    /\ HaveGroups(tree.parts, Valued)
    /\ Named(terms, tree.dice) = DiceIn(Order(n))
    /\ Follows(tree, n)
    /\ Explains(tree, n)

\* Such a step leaves a roll sound, if the groups are still in order.
LEMMA CompleteSound ==
    ASSUME RollSound, work # << >>, NEW n, n = node, NEW tree, TreeFits(n, tree), Completes(tree),
           group \in Int, group' \in Int, group <= group', AllInOrder', ReplaySound'
    PROVE  RollSound'
<1>1. n \in Nodes /\ Tail(work) \in Seq(Nodes)
  BY StackTop
<1>2. PICK nodes : StackSplits(nodes)
  BY StackTop
<1>3. /\ results' = Append(Below(results, n), tree)
      /\ made' = made \cup {Made(n, tree)}
      /\ work' = Tail(work) /\ expr' = expr /\ terms' = terms /\ groups' = groups
  BY DEF Completes
<1>4. \A s \in Seq(Valued) : s \in Seq(Valued')
  <2>1. Valued \subseteq Valued'
    <3>1. \A a, b \in Int : a <= b => 1..(a - 1) \subseteq 1..(b - 1)
      OBVIOUS
    <3>2. group \in Int /\ group' \in Int /\ group <= group'
      OBVIOUS
    <3> QED
      BY <3>1, <3>2, Zenon DEF Valued
  <2> QED
    BY <2>1
<1>5. PairSound(n, tree)'
  <2>1. HaveGroups(tree.parts, Valued')
    BY <1>4 DEF TreeFits, HaveGroups
  <2>2. Follows(tree, n)'
    BY <1>3 DEF TreeFits, Follows
  <2>3. Explains(tree, n)'
    BY <1>3 DEF TreeFits, Explains
  <2>4. tree.dice \in Seq(Valued')
    BY DEF TreeFits, Valued
  <2> QED
    BY <1>1, <1>3, <2>1, <2>2, <2>3, <2>4 DEF TreeFits, PairSound
<1>6. MadeSound'
  <2>1. SUFFICES ASSUME NEW m \in made' PROVE PairSound(m.node, m.tree)'
    BY DEF MadeSound
  <2>2. CASE m \in made
    <3>1. PICK x, y : x = m.node /\ y = m.tree
      OBVIOUS
    <3>2. PairSound(x, y)
      BY <2>2, <3>1 DEF RollSound, MadeSound
    <3>3. \A k \in DOMAIN x.parts : Made(Standing(x.parts[k]), y.parts[k]) \in made'
      BY <1>3, <3>2 DEF PairSound, Follows
    <3>4. PairSound(x, y)'
      BY <1>3, <3>2, <3>3, PairStays
    <3> QED
      BY <3>1, <3>4
  <2>3. CASE m = Made(n, tree)
    <3>1. m.node = n /\ m.tree = tree
      BY <2>3 DEF Made
    <3> QED
      BY <1>5, <3>1
  <2> QED
    BY <1>3, <2>2, <2>3
<1>7. StackSound'
  <2>1. PICK M, N : M = {m.tree : m \in made} /\ N = {m.tree : m \in made'}
    OBVIOUS
  <2>2. PICK low : low = Below(results, n)
    OBVIOUS
  <2>3. low \in Seq(M) /\ Len(nodes) = Len(low) /\ nodes \in Seq(Nodes)
        /\ \A k \in 1..Len(nodes) : Made(nodes[k], low[k]) \in made
    BY <1>2, <2>1, <2>2 DEF StackSplits, AreTreesOf
  <2>4. M \subseteq N /\ tree \in N
    <3>1. M \subseteq N
      BY <1>3, <2>1
    <3>2. Made(n, tree) \in made' /\ Made(n, tree).tree = tree
      BY <1>3 DEF Made
    <3> QED
      BY <2>1, <3>1, <3>2
  <2>5. PICK stack, ns : stack = Append(low, tree) /\ ns = Append(nodes, n)
    OBVIOUS
  <2>6. ns \in Seq(Nodes) /\ Len(ns) = Len(nodes) + 1
        /\ (\A k \in 1..Len(nodes) : ns[k] = nodes[k]) /\ ns[Len(nodes) + 1] = n
    BY <1>1, <2>3, <2>5
  <2>7. stack \in Seq(N) /\ Len(stack) = Len(low) + 1
        /\ (\A k \in 1..Len(low) : stack[k] = low[k]) /\ stack[Len(low) + 1] = tree
    <3>1. low \in Seq(N)
      BY <2>3, <2>4
    <3> QED
      BY <2>4, <2>5, <3>1
  <2>8. ASSUME NEW k \in 1..Len(ns)
        PROVE  Made(ns[k], stack[k]) \in made'
    <3>1. PICK l \in Nat : l = Len(nodes)
      BY <2>3
    <3>2. CASE k <= l
      <4>1. k \in 1..l
        BY <3>2
      <4> QED
        BY <1>3, <2>3, <2>6, <2>7, <3>1, <4>1
    <3>3. CASE ~ (k <= l)
      <4>1. k = l + 1
        BY <2>6, <3>1, <3>3
      <4> QED
        BY <1>3, <2>3, <2>6, <2>7, <3>1, <4>1
    <3> QED
      BY <3>2, <3>3
  <2>9. Len(ns) = Len(stack)
    BY <2>3, <2>6, <2>7
  <2>10. AreTreesOf(results, ns)'
    BY <1>3, <2>1, <2>2, <2>5, <2>7, <2>8, <2>9 DEF AreTreesOf
  <2>11. Standing(n) = n
    BY DEF TreeFits, Standing
  <2>12. Leads(ns, work', <<Standing(expr')>>)
    BY <1>2, <1>3, <2>5, <2>11 DEF StackSplits
  <2> QED
    BY <2>6, <2>10, <2>12 DEF StackSound
<1>8. DiceSound'
  BY <1>3 DEF RollSound, DiceSound
<1> QED
  BY <1>1, <1>3, <1>6, <1>7, <1>8 DEF RollSound

\* The groups of a stack with one tree more on top.
LEMMA GroupsOfAppend ==
    ASSUME NEW G, NEW low, HaveGroups(low, G), NEW tree, tree.dice \in Seq(G)
    PROVE  GroupsOf(Append(low, tree)) = GroupsOf(low) \o tree.dice
<1>1. low \in Seq(ToSet(low))
  BY DEF HaveGroups
<1>2. PICK one : one = <<tree>>
  OBVIOUS
<1>3. one \in Seq(ToSet(one)) /\ Len(one) = 1 /\ one[1] = tree
  <2>1. one \in Seq({tree})
    BY <1>2
  <2> QED
    BY <1>2, <2>1, OwnElements
<1>4. HaveGroups(one, G)
  BY <1>3 DEF HaveGroups
<1>5. Append(low, tree) = low \o one
  <2>1. PICK U : U = ToSet(low) \cup {tree}
    OBVIOUS
  <2>2. low \in Seq(U) /\ tree \in U
    BY <1>1, <2>1
  <2> QED
    BY <1>2, <2>2
<1>6. /\ \A a, b : HaveGroups(a, G) /\ HaveGroups(b, G) =>
              GroupsOf(a \o b) = GroupsOf(a) \o GroupsOf(b)
      /\ \A any : any.dice \in Seq(G) => GroupsOf(<<any>>) = any.dice
  BY GroupsOfTrees
<1>7. GroupsOf(low \o one) = GroupsOf(low) \o GroupsOf(one)
  BY <1>4, <1>6
<1>8. GroupsOf(one) = tree.dice
  BY <1>2, <1>6
<1> QED
  BY <1>5, <1>7, <1>8

\* Either no group has yet to be read again, or the next node is one of the
\* items that read them.
LEMMA ItemsTail ==
    ASSUME RollSound, work # << >>
    PROVE  \/ replay = << >>
           \/ \E items, rest \in Seq(Nodes) :
                 /\ Tail(work) = items \o rest
                 /\ node.kind # "keep"
                 /\ \A n \in ToSet(items) : n.kind # "keep"
                 /\ DiceAt(node) \o DiceIn(items) = Named(terms, replay)
<1>1. PICK items \in Seq(Nodes), rest \in Seq(Nodes) :
          /\ work = items \o rest
          /\ \A n \in ToSet(items) : n.kind # "keep"
          /\ DiceIn(items) = Named(terms, replay)
  BY DEF RollSound, ReplaySound
<1>2. CASE items = << >>
  <2>1. Named(terms, replay) = << >>
    BY <1>1, <1>2, DiceInOrders
  <2>2. replay \in Seq(Valued)
    BY DEF RollSound, AllInOrder
  <2>3. DOMAIN replay = {}
    BY <2>1 DEF Named
  <2> QED
    BY <2>2, <2>3
<1>3. CASE items # << >>
  <2>1. PICK first, others : first = Head(items) /\ others = Tail(items)
    OBVIOUS
  <2>2. first \in Nodes /\ others \in Seq(Nodes) /\ items = <<first>> \o others
    BY <1>3, <2>1
  <2>3. node = first /\ Tail(work) = others \o rest
    BY <1>1, <1>3, <2>1 DEF node
  <2>4. first \in ToSet(items) /\ ToSet(others) \subseteq ToSet(items)
    <3>1. items \in Seq(ToSet(items))
      BY OwnElements
    <3> QED
      BY <1>3, <2>1, <3>1, TailElements
  <2>5. DiceIn(items) = DiceAt(first) \o DiceIn(others)
    <3>1. PICK one \in Seq(Nodes) : one = <<first>>
      <4>1. <<first>> \in Seq(Nodes)
        BY <2>2
      <4> QED
        BY <4>1
    <3>2. items = one \o others /\ DiceIn(one) = DiceAt(first)
      BY <2>2, <3>1, DiceInOrders
    <3>3. DiceIn(one \o others) = DiceIn(one) \o DiceIn(others)
      BY <2>2, DiceInOrders
    <3> QED
      BY <3>2, <3>3
  <2> QED
    BY <1>1, <2>2, <2>3, <2>4, <2>5
<1> QED
  BY <1>2, <1>3

\* With no group to be read again, the work need not begin with any items.
LEMMA NoReplay ==
    ASSUME NEW w \in Seq(Nodes), NEW t
    PROVE  \E items, rest \in Seq(Nodes) :
              /\ w = items \o rest
              /\ \A n \in ToSet(items) : n.kind # "keep"
              /\ DiceIn(items) = Named(t, << >>)
<1>1. PICK items \in Seq(Nodes) : items = << >>
  <2>1. << >> \in Seq(Nodes)
    OBVIOUS
  <2> QED
    BY <2>1
<1>2. w = items \o w
  BY <1>1
<1>3. ToSet(items) = {}
  BY <1>1 DEF ToSet
<1>4. DiceIn(items) = Named(t, << >>)
  <2>1. Named(t, << >>) = << >>
    BY DEF Named
  <2> QED
    BY <1>1, <2>1, DiceInOrders
<1> QED
  BY <1>2, <1>3, <1>4

\* The groups that have been valued are among those rolled.
LEMMA ValuedGroups ==
    ASSUME Inv
    PROVE  /\ group \in Nat \ {0}
           /\ Valued \subseteq DOMAIN groups
           /\ DOMAIN terms = DOMAIN groups
           /\ Valued \subseteq DOMAIN terms
           /\ DOMAIN groups = 1..Len(groups)
           /\ ~ Open => DOMAIN groups = Valued /\ Len(groups) = group - 1
<1>1. /\ groups \in Seq(Seq(Die)) /\ terms \in Seq(ToSet(terms)) /\ Len(terms) = Len(groups)
      /\ group \in {Len(groups), Len(groups) + 1} \ {0}
  BY DEF Inv, GroupsSound, OpenSound
<1>2. PICK n \in Nat : n = Len(groups) /\ DOMAIN groups = 1..n /\ DOMAIN terms = 1..n
  BY <1>1
<1>3. group \in {n, n + 1} \ {0}
  BY <1>1, <1>2
<1>4. ~ Open => group = n + 1
  BY <1>2, <1>3 DEF Open
<1> QED
  BY <1>2, <1>3, <1>4 DEF Valued

\* The groups below the next node's, then those of its parts.
LEMMA AllBelow ==
    ASSUME RollSound, work # << >>
    PROVE  /\ GroupsOf(results) = GroupsOf(Below(results, node)) \o GroupsOf(args)
           /\ GroupsOf(Below(results, node)) \in Seq(Valued)
           /\ GroupsOf(args) \in Seq(Valued)
           /\ HaveGroups(Below(results, node), Valued)
           /\ HaveGroups(args, Valued)
<1>1. PICK nodes : StackSplits(nodes)
  BY StackTop
<1>2. results = Below(results, node) \o args
  BY <1>1 DEF StackSplits
<1>3. HaveGroups(Below(results, node), Valued) /\ HaveGroups(args, Valued)
  BY <1>1, ArgsSound
<1>4. PICK low, high : low = Below(results, node) /\ high = args
  OBVIOUS
<1>5. HaveGroups(low, Valued) /\ HaveGroups(high, Valued) /\ results = low \o high
  BY <1>2, <1>3, <1>4
<1>6. /\ GroupsOf(low \o high) = GroupsOf(low) \o GroupsOf(high)
      /\ GroupsOf(low) \in Seq(Valued) /\ GroupsOf(high) \in Seq(Valued)
  <2>1. PICK G : G = Valued
    OBVIOUS
  <2>2. HaveGroups(low, G) /\ HaveGroups(high, G)
    BY <1>5, <2>1
  <2>3. /\ \A a : HaveGroups(a, G) => GroupsOf(a) \in Seq(G)
        /\ \A a, b : HaveGroups(a, G) /\ HaveGroups(b, G) =>
              GroupsOf(a \o b) = GroupsOf(a) \o GroupsOf(b)
    BY GroupsOfTrees
  <2> QED
    BY <2>1, <2>2, <2>3
<1> QED
  BY <1>4, <1>5, <1>6

\* eval of a literal, variable, operator or function.
LEMMA EvaluateRolls ==
    ASSUME Inv, RollSound, Evaluate, Combine(node, args).status = "ok"
    PROVE  RollSound'
<1>1. /\ work # << >>
      /\ node.kind \in {"literal", "variable", "unary", "binary", "call"}
      /\ UNCHANGED <<terms, groups, replay, rolling>>
  BY DEF Evaluate, AtNode, node
<1>2. PICK n, tree : n = node /\ tree = Combine(node, args).tree
  OBVIOUS
<1>3. Completes(tree)
  BY <1>1, <1>2 DEF Evaluate, Complete, Completes
<1>4. PICK nodes : StackSplits(nodes)
  BY <1>1, StackTop
<1>5. n \in Nodes /\ Sound(n) /\ work' \in Seq(Nodes)
  BY <1>1, <1>2, <1>3, StackTop, NodesAre DEF IsNode, Completes
<1>6. /\ Parts(args, n)
      /\ HaveGroups(args, Valued)
      /\ \A k \in DOMAIN n.parts : Made(Standing(n.parts[k]), args[k]) \in made
      /\ \A k \in 1..Len(args) : Named(terms, args[k].dice) = DiceIn(Order(n.parts[k]))
  BY <1>1, <1>2, <1>4, ArgsSound
<1>7. WellMade(tree, n, args)
  BY <1>1, <1>2, <1>5, <1>6, CombineExact
<1>8. \A g \in Valued : terms[g] \in Nodes
  BY ValuedGroups DEF RollSound, DiceSound
<1>9. GroupsOf(args) \in Seq(Valued) /\ Named(terms, GroupsOf(args)) = DiceIn(Order(n))
  <2>1. PICK G, t, trees : G = Valued /\ t = terms /\ trees = args
    OBVIOUS
  <2>2. HaveDice(trees, n, t, G)
    BY <1>1, <1>2, <1>6, <1>8, <2>1 DEF HaveDice, Parts
  <2>3. GroupsOf(trees) \in Seq(G) /\ Named(t, GroupsOf(trees)) = DiceIn(Order(n))
    BY <1>5, <2>2, PartsDice
  <2> QED
    BY <2>1, <2>3
<1>10. group' = group /\ group \in Int
  BY <1>1, ValuedGroups DEF rolling
<1>11. TreeFits(n, tree)
  <2>1. Follows(tree, n)
    BY <1>6, <1>7 DEF Follows, WellMade, Parts
  <2>2. tree.dice \in Seq(1..(group' - 1))
    BY <1>7, <1>9, <1>10 DEF WellMade, Valued
  <2> QED
    BY <1>1, <1>2, <1>6, <1>7, <1>9, <2>1, <2>2 DEF TreeFits, WellMade
<1>12. AllInOrder'
  <2>1. GroupsOf(results') = GroupsOf(results)
    <3>1. results' = Append(Below(results, n), tree) /\ tree.dice = GroupsOf(args)
      BY <1>2, <1>3, <1>7 DEF Completes, WellMade
    <3>2. GroupsOf(results') = GroupsOf(Below(results, n)) \o tree.dice
      <4>1. PICK G, low : G = Valued /\ low = Below(results, n)
        OBVIOUS
      <4>2. HaveGroups(low, G) /\ tree.dice \in Seq(G)
        BY <1>1, <1>2, <1>9, <3>1, <4>1, AllBelow
      <4>3. GroupsOf(Append(low, tree)) = GroupsOf(low) \o tree.dice
        BY <4>2, GroupsOfAppend
      <4> QED
        BY <3>1, <4>1, <4>3
    <3> QED
      BY <1>1, <1>2, <3>1, <3>2, AllBelow
  <2> QED
    BY <1>1, <1>10, <2>1 DEF RollSound, AllInOrder, Valued
<1>13. ReplaySound'
  <2>1. CASE replay = << >>
    <3>1. replay' = << >> /\ work' \in Seq(Nodes)
      BY <1>1, <1>5, <2>1
    <3> QED
      BY <3>1, NoReplay DEF ReplaySound
  <2>2. CASE replay # << >>
    <3>1. PICK items \in Seq(Nodes), rest \in Seq(Nodes) :
              /\ Tail(work) = items \o rest
              /\ \A m \in ToSet(items) : m.kind # "keep"
              /\ DiceAt(node) \o DiceIn(items) = Named(terms, replay)
      BY <1>1, <2>2, ItemsTail
    <3>2. DiceIn(items) = Named(terms, replay)
      <4>1. DiceAt(node) = << >>
        BY <1>1 DEF DiceAt
      <4>2. DiceIn(items) \in Seq(Nodes)
        BY DiceInOrders
      <4> QED
        BY <3>1, <4>1, <4>2
    <3>3. work' = Tail(work) /\ terms' = terms /\ replay' = replay
      BY <1>1, <1>3 DEF Completes
    <3> QED
      BY <3>1, <3>2, <3>3 DEF ReplaySound
  <2> QED
    BY <2>1, <2>2
<1>14. group <= group'
  BY <1>10
<1> QED
  BY <1>1, <1>2, <1>3, <1>10, <1>11, <1>12, <1>13, <1>14, CompleteSound

\* The tree of a dice term has the value of its dice as they lie.
LEMMA DiceTreeFits ==
    ASSUME Inv, RollSound, work # << >>, NEW n, n = node, n.kind = "dice",
           NEW g \in DOMAIN groups, terms[g] = n, g \in 1..(group' - 1),
           DiceValue(groups[g], n).status = "ok",
           NEW tree, tree = ExplainDice(DiceValue(groups[g], n), g).tree
    PROVE  TreeFits(n, tree) /\ tree.dice = <<g>> /\ args = << >> /\ Below(results, n) = results
<1>1. PICK o : o = DiceValue(groups[g], n)
  OBVIOUS
<1>2. /\ tree.kind = "dice" /\ tree.dice = <<g>> /\ tree.parts = << >> /\ tree.value = o.value
  BY <1>1 DEF ExplainDice, Explained
<1>3. n \in Nodes /\ Sound(n)
  BY StackTop, NodesAre DEF IsNode
<1>4. Lie(groups[g]) /\ Len(groups[g]) <= MaxInt
  BY DEF RollSound, DiceSound
<1>5. o \in Outcome /\ o.value = ValueOfDice(n, groups[g])
  BY <1>1, <1>3, <1>4, DiceValueExact
<1>6. tree.value \in Word
  BY <1>1, <1>2, <1>5, Outcomes
<1>7. Explains(tree, n)
  BY <1>2, <1>5 DEF Explains
<1>8. n.parts = << >>
  BY <1>3 DEF Sound
<1>9. Follows(tree, n)
  BY <1>2, <1>8 DEF Follows
<1>10. HaveGroups(tree.parts, Valued)
  <2>1. PICK none : none = << >>
    OBVIOUS
  <2>2. none \in Seq(ToSet(none)) /\ Len(none) = 0
    BY <2>1
  <2>3. HaveGroups(none, Valued)
    BY <2>2 DEF HaveGroups
  <2> QED
    BY <1>2, <2>1, <2>3
<1>11. tree.dice \in Seq(1..(group' - 1))
  BY <1>2
<1>12. Named(terms, tree.dice) = DiceIn(Order(n))
  <2>1. Named(terms, <<g>>) = <<terms[g]>>
    BY DEF Named
  <2> QED
    BY <1>2, <1>3, <2>1, NodeDice
<1>13. TreeFits(n, tree)
  BY <1>6, <1>7, <1>9, <1>10, <1>11, <1>12 DEF TreeFits
<1>14. args = << >> /\ Below(results, n) = results
  <2>1. PICK M : results \in Seq(M)
    BY DEF RollSound, StackSound, AreTreesOf
  <2>2. Len(n.parts) = 0
    BY <1>8
  <2>3. SubSeq(results, 1, Len(results) - 0) = results
    BY <2>1
  <2>4. SubSeq(results, Len(results) - 0 + 1, Len(results)) = << >>
    BY <2>1
  <2> QED
    BY <2>2, <2>3, <2>4 DEF args, Top, Below
<1> QED
  BY <1>2, <1>13, <1>14

\* The dice term under evaluation has its value, and its group is the last.
LEMMA GroupDoneRolls ==
    ASSUME Inv, RollSound, GroupDone, DiceValue(groups[group], node).status = "ok"
    PROVE  RollSound'
<1>1. /\ work # << >> /\ node.kind = "dice" /\ replay = << >> /\ mod > Len(node.mods)
      /\ Complete(ExplainDice(DiceValue(groups[group], node), group))
      /\ group' = group + 1
      /\ UNCHANGED <<terms, groups, replay>>
  BY DEF GroupDone, AtRoll, AtNode, Replaying, node
<1>2. mod # 0
  <2>1. Len(node.mods) \in Nat
    BY <1>1, HeadSound DEF Inv, Sound
  <2> QED
    BY <1>1, <2>1
<1>3. group \in DOMAIN groups /\ terms[group] = node /\ group \in Nat \ {0}
  BY <1>2, ValuedGroups DEF Inv, OpenSound, Open
<1>4. PICK n, g, tree : /\ n = node
                        /\ g = group
                        /\ tree = ExplainDice(DiceValue(groups[g], n), g).tree
  OBVIOUS
<1>5. Completes(tree)
  <2>1. ExplainDice(DiceValue(groups[g], n), g).status = "ok"
    BY <1>4 DEF ExplainDice
  <2> QED
    BY <1>1, <1>4, <2>1 DEF Complete, Completes
<1>6. g \in DOMAIN groups /\ terms[g] = n /\ g \in 1..(group' - 1)
  BY <1>1, <1>3, <1>4
<1>7. TreeFits(n, tree) /\ tree.dice = <<g>> /\ Below(results, n) = results
  BY <1>1, <1>4, <1>6, DiceTreeFits
<1>8. AllInOrder'
  <2>1. replay' = << >> /\ results' = Append(results, tree)
    BY <1>1, <1>4, <1>5, <1>7 DEF Completes
  <2>2. PICK G, H : G = Valued /\ H = Valued'
    OBVIOUS
  <2>3. H = 1..g /\ G = 1..(g - 1) /\ g \in Nat \ {0}
    BY <1>1, <1>3, <1>4, <2>2 DEF Valued
  <2>4. GroupsOf(results) = [i \in G |-> i]
    <3>1. GroupsOf(results) \in Seq(G)
      <4>1. /\ GroupsOf(Below(results, node)) \in Seq(Valued)
        BY <1>1, AllBelow
      <4> QED
        BY <1>4, <1>7, <2>2, <4>1
    <3>2. GroupsOf(results) \o << >> = [i \in G |-> i]
      BY <1>1, <2>2 DEF RollSound, AllInOrder
    <3> QED
      BY <3>1, <3>2
  <2>5. GroupsOf(Append(results, tree)) = GroupsOf(results) \o <<g>>
    <3>1. HaveGroups(results, G)
      <4>1. HaveGroups(Below(results, node), Valued)
        BY <1>1, AllBelow
      <4> QED
        BY <1>4, <1>7, <2>2, <4>1
    <3>2. HaveGroups(results, H)
      <4>1. \A s \in Seq(G) : s \in Seq(H)
        BY <2>3
      <4> QED
        BY <3>1, <4>1 DEF HaveGroups
    <3>3. tree.dice \in Seq(H)
      BY <1>7, <2>2 DEF TreeFits, Valued
    <3>4. GroupsOf(Append(results, tree)) = GroupsOf(results) \o tree.dice
      BY <3>2, <3>3, GroupsOfAppend
    <3> QED
      BY <1>7, <3>4
  <2>6. PICK a : a = [i \in 1..(g - 1) |-> i]
    OBVIOUS
  <2>7. a \in Seq(H) /\ Len(a) = g - 1
    BY <2>3, <2>6
  <2>8. a \o <<g>> = [i \in H |-> i]
    <3>1. PICK b : b = [i \in 1..g |-> i]
      OBVIOUS
    <3>2. PICK one : one = <<g>>
      OBVIOUS
    <3>3. one \in Seq(H) /\ Len(one) = 1 /\ one[1] = g
      BY <2>3, <3>2
    <3>4. b \in Seq(H) /\ Len(b) = g
      BY <2>3, <3>1
    <3>5. (\A k \in 1..(g - 1) : b[k] = a[k]) /\ b[(g - 1) + 1] = g
      BY <2>3, <2>6, <3>1
    <3>6. \A k \in 1..1 : b[(g - 1) + k] = one[k]
      <4>1. \A k \in 1..1 : k = 1
        OBVIOUS
      <4> QED
        BY <3>3, <3>5, <4>1
    <3>7. Len(b) = Len(a) + Len(one)
      BY <2>3, <2>7, <3>3, <3>4
    <3>8. b = a \o one
      <4>1. /\ \A k \in 1..Len(a) : b[k] = a[k]
            /\ \A k \in 1..Len(one) : b[Len(a) + k] = one[k]
        BY <2>7, <3>3, <3>5, <3>6
      <4>2. PICK S : S = H /\ a \in Seq(S) /\ one \in Seq(S) /\ b \in Seq(S)
        BY <2>7, <3>3, <3>4
      <4> QED
        BY <3>7, <4>1, <4>2, IsConcat
    <3> QED
      BY <2>3, <3>1, <3>2, <3>8
  <2>9. GroupsOf(results') = [i \in H |-> i]
    BY <2>1, <2>3, <2>4, <2>5, <2>6, <2>8
  <2>10. GroupsOf(results') \in Seq(H)
    <3>1. PICK b : b = [i \in 1..g |-> i]
      OBVIOUS
    <3>2. b \in Seq(H)
      BY <2>3, <3>1
    <3> QED
      BY <2>3, <2>9, <3>1, <3>2
  <2>11. GroupsOf(results') \o << >> = [i \in H |-> i] /\ << >> \in Seq(H)
    BY <2>9, <2>10
  <2> QED
    BY <2>1, <2>2, <2>11 DEF AllInOrder
<1>9. ReplaySound'
  <2>1. replay' = << >> /\ work' \in Seq(Nodes)
    BY <1>1, <1>5, StackTop DEF Completes
  <2> QED
    BY <2>1, NoReplay DEF ReplaySound
<1>10. group \in Int /\ group' \in Int /\ group <= group'
  BY <1>1, <1>3
<1> QED
  BY <1>1, <1>4, <1>5, <1>7, <1>8, <1>9, <1>10, CompleteSound

\* An item's dice term reads the group that was rolled for it.
LEMMA RereadRolls ==
    ASSUME Inv, RollSound, Reread, DiceValue(groups[Head(replay)], node).status = "ok"
    PROVE  RollSound'
<1>1. /\ work # << >> /\ node.kind = "dice" /\ replay # << >>
      /\ Complete(ExplainDice(DiceValue(groups[Head(replay)], node), Head(replay)))
      /\ replay' = Tail(replay)
      /\ UNCHANGED <<terms, groups, rolling>>
  BY DEF Reread, AtNode, Replaying, node
<1>2. PICK n, g, tree : /\ n = node
                        /\ g = Head(replay)
                        /\ tree = ExplainDice(DiceValue(groups[g], n), g).tree
  OBVIOUS
<1>3. PICK others : others = Tail(replay)
  OBVIOUS
<1>4. g \in Valued /\ others \in Seq(Valued) /\ replay = <<g>> \o others
  <2>1. replay \in Seq(Valued)
    BY DEF RollSound, AllInOrder
  <2> QED
    BY <1>1, <1>2, <1>3, <2>1
<1>5. \A i \in Valued : terms[i] \in Nodes
  BY ValuedGroups DEF RollSound, DiceSound
<1>6. PICK items \in Seq(Nodes), rest \in Seq(Nodes) :
          /\ Tail(work) = items \o rest
          /\ \A m \in ToSet(items) : m.kind # "keep"
          /\ DiceAt(n) \o DiceIn(items) = Named(terms, replay)
  BY <1>1, <1>2, ItemsTail
<1>7. n = terms[g] /\ DiceIn(items) = Named(terms, others)
  <2>1. PICK G, t : G = Valued /\ t = terms
    OBVIOUS
  <2>2. \A i \in G : t[i] \in Nodes
    BY <1>5, <2>1
  <2>3. PICK one \in Seq(G) : one = <<g>>
    <3>1. <<g>> \in Seq(G)
      BY <1>4, <2>1
    <3> QED
      BY <3>1
  <2>4. /\ Named(t, one \o others) = Named(t, one) \o Named(t, others)
        /\ Named(t, one) = <<t[g]>>
        /\ Named(t, others) \in Seq(Nodes)
    <3>1. /\ \A a \in Seq(G) : Named(t, a) \in Seq(Nodes)
          /\ \A a, b \in Seq(G) : Named(t, a \o b) = Named(t, a) \o Named(t, b)
          /\ \A i \in G : Named(t, <<i>>) = <<t[i]>>
      BY <2>2, NamedGroups
    <3> QED
      BY <1>4, <2>1, <2>3, <3>1
  <2>5. PICK a \in Seq(Nodes), b \in Seq(Nodes) : a = DiceIn(items) /\ b = Named(t, others)
    BY <2>4, DiceInOrders
  <2>6. <<n>> \o a = <<t[g]>> \o b
    BY <1>1, <1>2, <1>4, <1>6, <2>1, <2>3, <2>4, <2>5 DEF DiceAt
  <2>7. n \in Nodes /\ t[g] \in Nodes
    BY <1>1, <1>2, <1>4, <2>1, <2>2, StackTop
  <2>8. n = t[g] /\ a = b
    <3>1. PICK c, d : c = <<n>> \o a /\ d = <<t[g]>> \o b
      OBVIOUS
    <3>2. c[1] = n /\ d[1] = t[g] /\ Tail(c) = a /\ Tail(d) = b
      BY <2>7, <3>1
    <3> QED
      BY <2>6, <3>1, <3>2
  <2> QED
    BY <2>1, <2>5, <2>8
<1>8. Completes(tree)
  <2>1. ExplainDice(DiceValue(groups[g], n), g).status = "ok"
    BY <1>2 DEF ExplainDice
  <2> QED
    BY <1>1, <1>2, <2>1 DEF Complete, Completes
<1>9. group' = group /\ group \in Int
  BY <1>1, ValuedGroups DEF rolling
<1>10. g \in DOMAIN groups /\ terms[g] = n /\ g \in 1..(group' - 1)
  BY <1>4, <1>7, <1>9, ValuedGroups DEF Valued
<1>11. TreeFits(n, tree) /\ tree.dice = <<g>> /\ Below(results, n) = results
  BY <1>1, <1>2, <1>10, DiceTreeFits
<1>12. AllInOrder'
  <2>1. replay' = others /\ results' = Append(results, tree)
    BY <1>1, <1>2, <1>3, <1>8, <1>11 DEF Completes
  <2>2. PICK G : G = Valued /\ G = Valued'
    BY <1>9 DEF Valued
  <2>3. GroupsOf(results) \in Seq(G) /\ HaveGroups(results, G)
    <3>1. GroupsOf(Below(results, node)) \in Seq(Valued) /\ HaveGroups(Below(results, node), Valued)
      BY <1>1, AllBelow
    <3> QED
      BY <1>2, <1>11, <2>2, <3>1
  <2>4. PICK a \in Seq(G), b \in Seq(G), c \in Seq(G) : a = GroupsOf(results) /\ b = <<g>> /\ c = others
    <3>1. <<g>> \in Seq(G)
      BY <1>4, <2>2
    <3> QED
      BY <1>4, <2>2, <2>3, <3>1
  <2>5. GroupsOf(Append(results, tree)) = a \o b
    <3>1. tree.dice \in Seq(G)
      BY <1>11, <2>4
    <3>2. GroupsOf(Append(results, tree)) = GroupsOf(results) \o tree.dice
      BY <2>3, <3>1, GroupsOfAppend
    <3> QED
      BY <1>11, <2>4, <3>2
  <2>6. a \o (b \o c) = [i \in G |-> i]
    BY <1>4, <2>2, <2>4 DEF RollSound, AllInOrder
  <2>7. a \o (b \o c) = (a \o b) \o c
    <3>1. PICK U : U = G
      OBVIOUS
    <3>2. a \in Seq(U) /\ b \in Seq(U) /\ c \in Seq(U)
      BY <3>1
    <3>3. (a \o b) \o c = a \o (b \o c)
      BY <3>2, ConcatAssociative
    <3> QED
      BY <3>3
  <2>8. GroupsOf(results') \o replay' = [i \in G |-> i] /\ replay' \in Seq(G)
    BY <2>1, <2>4, <2>5, <2>6, <2>7
  <2> QED
    BY <2>2, <2>8 DEF AllInOrder
<1>13. ReplaySound'
  <2>1. work' = Tail(work) /\ terms' = terms /\ replay' = others
    BY <1>1, <1>3, <1>8 DEF Completes
  <2> QED
    BY <1>6, <1>7, <2>1 DEF ReplaySound
<1>14. group <= group'
  BY <1>9
<1> QED
  BY <1>1, <1>2, <1>8, <1>9, <1>11, <1>12, <1>13, <1>14, CompleteSound

-----------------------------------------------------------------------------
(* Steps that drop dice.                                                   *)

\* Dropping dice changes no value.
LEMMA DropLies ==
    ASSUME Inv, DiceSound, NEW D, D \subseteq AllPositions, groups' = Drop(D), terms' = terms
    PROVE  DiceSound'
<1>1. /\ GroupsSound' /\ Len(groups') = Len(groups)
      /\ \A k \in DOMAIN groups : Len(groups'[k]) = Len(groups[k])
  BY DropSound DEF Inv
<1>2. /\ groups \in Seq(Seq(Die)) /\ groups' \in Seq(Seq(Die))
      /\ DOMAIN groups' = DOMAIN groups
  <2>1. groups \in Seq(Seq(Die)) /\ groups' \in Seq(Seq(Die))
    BY <1>1 DEF Inv, GroupsSound
  <2> QED
    BY <2>1 DEF Drop
<1>3. ASSUME NEW k \in DOMAIN groups
      PROVE  Lie(groups'[k]) /\ Len(groups'[k]) <= MaxInt
  <2>1. PICK old \in Seq(Die), new \in Seq(Die) : old = groups[k] /\ new = groups'[k]
    <3>1. groups[k] \in Seq(Die) /\ groups'[k] \in Seq(Die)
      <4>1. PICK S : S = Seq(Die)
        OBVIOUS
      <4>2. groups \in Seq(S) /\ groups' \in Seq(S) /\ k \in DOMAIN groups'
        BY <1>2, <4>1
      <4>3. groups[k] \in S /\ groups'[k] \in S
        BY <4>2
      <4> QED
        BY <4>1, <4>3
    <3> QED
      BY <3>1
  <2>2. Lie(old) /\ Len(old) <= MaxInt
    BY <2>1 DEF DiceSound
  <2>3. Len(new) = Len(old) /\ DOMAIN new = DOMAIN old
    <3>1. Len(new) = Len(old)
      BY <1>1, <2>1
    <3> QED
      BY <3>1
  <2>4. new = [j \in DOMAIN old |-> IF <<k, j>> \in D THEN [old[j] EXCEPT !.state = "dropped"]
                                    ELSE old[j]]
    BY <2>1 DEF Drop
  <2>5. ASSUME NEW j \in DOMAIN new
        PROVE  new[j].value \in Word
    <3>1. old[j] \in Die /\ old[j].value \in Word
      BY <2>2, <2>3 DEF Lie
    <3>2. PICK fallen : fallen = [old[j] EXCEPT !.state = "dropped"]
      OBVIOUS
    <3>3. fallen.value = old[j].value
      BY <3>1, <3>2 DEF Die
    <3>4. new[j] = fallen \/ new[j] = old[j]
      BY <2>3, <2>4, <3>2
    <3> QED
      BY <3>1, <3>3, <3>4
  <2>6. Lie(new)
    BY <2>5 DEF Lie
  <2> QED
    BY <2>1, <2>2, <2>3, <2>6
<1>4. \A g \in DOMAIN terms' : terms'[g] \in Nodes
  BY DEF DiceSound
<1>5. \A g \in DOMAIN groups' : Lie(groups'[g]) /\ Len(groups'[g]) <= MaxInt
  BY <1>2, <1>3
<1> QED
  BY <1>4, <1>5 DEF DiceSound

\* Two parts of a sequence that names no group twice share none.
LEMMA PartsDisjoint ==
    ASSUME NEW G, NEW a \in Seq(G), NEW b \in Seq(G), a \o b = [g \in 1..(Len(a) + Len(b)) |-> g]
    PROVE  ToSet(a) \cap ToSet(b) = {}
<1>1. PICK m \in Nat, n \in Nat : m = Len(a) /\ n = Len(b)
  OBVIOUS
<1>2. PICK c : c = a \o b
  OBVIOUS
<1>3. /\ \A k \in 1..m : c[k] = a[k]
      /\ \A k \in 1..n : c[m + k] = b[k]
  <2>1. \A x, y \in Seq(G) :
            /\ \A k \in 1..Len(x) : (x \o y)[k] = x[k]
            /\ \A k \in 1..Len(y) : (x \o y)[Len(x) + k] = y[k]
    OBVIOUS
  <2>2. /\ \A k \in 1..Len(a) : (a \o b)[k] = a[k]
        /\ \A k \in 1..Len(b) : (a \o b)[Len(a) + k] = b[k]
    BY <2>1
  <2> QED
    BY <1>1, <1>2, <2>2
<1>4. \A k \in 1..(m + n) : c[k] = k
  BY <1>1, <1>2
<1>5. \A k \in 1..m : a[k] = k
  BY <1>3, <1>4
<1>6. \A k \in 1..n : b[k] = m + k
  <2>1. \A k \in 1..n : m + k \in 1..(m + n)
    OBVIOUS
  <2> QED
    BY <1>3, <1>4, <2>1
<1>7. DOMAIN a = 1..m /\ DOMAIN b = 1..n
  BY <1>1
<1>8. ASSUME NEW x \in ToSet(a), x \in ToSet(b)
      PROVE  FALSE
  <2>1. PICK i \in 1..m : x = a[i]
    BY <1>7 DEF ToSet
  <2>2. PICK j \in 1..n : x = b[j]
    BY <1>7, <1>8 DEF ToSet
  <2>3. i = m + j
    BY <1>5, <1>6, <2>1, <2>2
  <2> QED
    BY <2>3
<1> QED
  BY <1>8

\* A grouped keep gives its items another evaluation, on the groups that were
\* rolled for them; what was made of these is forgotten.
LEMMA KeepGroupRolls ==
    ASSUME Inv, RollSound, KeepGroup, KeepFits(Pooled, node.keep)
    PROVE  RollSound'
<1>1. /\ work # << >> /\ node.kind = "keep" /\ status = "rolling"
      /\ groups' = Drop(Dropped(Pooled, node.keep))
      /\ replay' = Recorded
      /\ work' = Order(SumOf(node)) \o Tail(work)
      /\ results' = Below(results, node)
      /\ made' = {m \in made : ToSet(m.tree.dice) \cap ToSet(Recorded) = {}}
      /\ UNCHANGED <<text, expr, status, terms, rolling>>
  BY DEF KeepGroup, AtNode, node
<1>2. PICK n, low, R : n = node /\ low = Below(results, node) /\ R = Recorded
  OBVIOUS
<1>3. n \in Nodes /\ Tail(work) \in Seq(Nodes) /\ n.kind = "keep"
  BY <1>1, <1>2, StackTop
<1>4. PICK sum \in Nodes : /\ sum = SumOf(n)
                           /\ \A part \in ToSet(Order(sum)) : part.kind # "keep"
                           /\ DiceIn(Order(sum)) = DiceIn(Order(n))
                           /\ sum = Standing(n) /\ Standing(sum) = sum
  <2>1. IsNode(n)
    BY <1>3, NodesAre
  <2>2. Standing(n) = SumOf(n)
    BY <1>3 DEF Standing
  <2> QED
    BY <1>3, <2>1, <2>2, StandingIsNode DEF IsNode
<1>5. group' = group /\ group \in Nat \ {0}
  BY <1>1, ValuedGroups DEF rolling
<1>6. PICK G : G = Valued /\ G = Valued' /\ G = 1..(group - 1)
  BY <1>5 DEF Valued
<1>7. replay = << >>
  BY <1>1, ItemsTail
<1>8. /\ GroupsOf(low) \in Seq(G) /\ R \in Seq(G)
      /\ HaveGroups(low, G) /\ HaveGroups(args, G)
      /\ GroupsOf(low) \o R = [g \in G |-> g]
  <2>1. /\ GroupsOf(results) = GroupsOf(low) \o R
        /\ GroupsOf(low) \in Seq(G) /\ R \in Seq(G)
        /\ HaveGroups(low, G) /\ HaveGroups(args, G)
    BY <1>1, <1>2, <1>6, AllBelow DEF Recorded
  <2>2. GroupsOf(results) \o << >> = [g \in G |-> g]
    BY <1>6, <1>7 DEF RollSound, AllInOrder
  <2>3. \A a, b \in Seq(G) : (a \o b) \o << >> = a \o b
    OBVIOUS
  <2> QED
    BY <2>1, <2>2, <2>3
<1>9. ToSet(GroupsOf(low)) \cap ToSet(R) = {}
  <2>1. PICK a \in Seq(G), b \in Seq(G) : a = GroupsOf(low) /\ b = R
    BY <1>8
  <2>2. a \o b = [g \in G |-> g]
    BY <1>8, <2>1
  <2>3. Len(a) + Len(b) = group - 1
    <3>1. \A x, y \in Seq(G) : Len(x \o y) = Len(x) + Len(y)
      OBVIOUS
    <3>2. Len([g \in G |-> g]) = group - 1
      BY <1>5, <1>6
    <3> QED
      BY <2>2, <3>1, <3>2
  <2>4. a \o b = [g \in 1..(Len(a) + Len(b)) |-> g]
    BY <1>6, <2>2, <2>3
  <2> QED
    BY <2>1, <2>4, PartsDisjoint
<1>10. \A g \in G : terms[g] \in Nodes
  BY <1>6, ValuedGroups DEF RollSound, DiceSound
<1>11. Named(terms, R) = DiceIn(Order(sum))
  <2>1. PICK nodes : StackSplits(nodes)
    BY <1>1, StackTop
  <2>2. /\ Parts(args, n)
        /\ \A k \in 1..Len(args) : Named(terms, args[k].dice) = DiceIn(Order(n.parts[k]))
    BY <1>1, <1>2, <2>1, ArgsSound
  <2>3. PICK t, trees : t = terms /\ trees = args
    OBVIOUS
  <2>4. HaveDice(trees, n, t, G)
    BY <1>3, <1>8, <1>10, <2>2, <2>3 DEF HaveDice, Parts
  <2>5. Named(t, GroupsOf(trees)) = DiceIn(Order(n))
    BY <1>3, <2>4, PartsDice
  <2> QED
    BY <1>2, <1>4, <2>3, <2>5 DEF Recorded
<1>12. \A g \in DOMAIN groups \ ToSet(R) : groups'[g] = groups[g]
  <2>1. status' = "rolling"
    BY <1>1
  <2> QED
    BY <1>2, <2>1, GroupKeepSettles DEF Recorded
<1>13. DOMAIN groups' = DOMAIN groups
  BY <1>1 DEF Drop
<1>14. MadeSound'
  <2>1. SUFFICES ASSUME NEW m \in made' PROVE PairSound(m.node, m.tree)'
    BY DEF MadeSound
  <2>2. PICK x, y : x = m.node /\ y = m.tree
    OBVIOUS
  <2>3. m \in made /\ ToSet(y.dice) \cap ToSet(R) = {}
    BY <1>1, <1>2, <2>1, <2>2
  <2>4. PairSound(x, y)
    BY <2>2, <2>3 DEF RollSound, MadeSound
  <2>5. PICK parts \in Seq(Nodes) : parts = x.parts
    BY <2>4, NodesAre DEF PairSound, IsNode
  <2>6. ASSUME NEW k \in DOMAIN parts
        PROVE  Made(Standing(parts[k]), y.parts[k]) \in made'
    <3>1. x.kind # "dice"
      <4>1. Sound(x)
        BY <2>4, NodesAre DEF PairSound, IsNode
      <4> QED
        BY <2>5, <2>6, <4>1 DEF Sound
    <3>2. /\ HaveGroups(y.parts, G) /\ y.dice = GroupsOf(y.parts) /\ Len(y.parts) = Len(parts)
          /\ Made(Standing(parts[k]), y.parts[k]) \in made
      BY <1>6, <2>4, <2>5, <2>6, <3>1 DEF PairSound, Follows
    <3>3. k \in 1..Len(y.parts)
      BY <2>5, <2>6, <3>2
    <3>4. ToSet(y.parts[k].dice) \subseteq ToSet(y.dice)
      BY <3>2, <3>3, GroupsContain
    <3>5. Made(Standing(parts[k]), y.parts[k]).tree = y.parts[k]
      BY DEF Made
    <3> QED
      BY <1>1, <1>2, <2>3, <3>2, <3>4, <3>5
  <2>7. ASSUME NEW g \in Valued, y.dice = <<g>>
        PROVE  groups'[g] = groups[g]
    <3>1. g \in ToSet(y.dice)
      BY <2>7 DEF ToSet
    <3>2. g \in DOMAIN groups
      BY <2>7, ValuedGroups
    <3> QED
      BY <1>12, <2>3, <3>1, <3>2
  <2>8. PairSound(x, y)'
    <3>1. group \in Int /\ group' \in Int /\ group <= group'
      BY <1>5
    <3>2. \A k \in DOMAIN x.parts : Made(Standing(x.parts[k]), y.parts[k]) \in made'
      BY <2>5, <2>6
    <3>3. DOMAIN groups \subseteq DOMAIN groups' /\ \A g \in Valued : terms'[g] = terms[g]
      BY <1>1, <1>13
    <3> QED
      BY <2>4, <2>7, <3>1, <3>2, <3>3, PairStays
  <2> QED
    BY <2>2, <2>8
<1>15. StackSound'
  <2>1. PICK nodes : StackSplits(nodes)
    BY <1>1, StackTop
  <2>2. PICK M, N : M = {m.tree : m \in made} /\ N = {m.tree : m \in made'}
    OBVIOUS
  <2>3. /\ low \in Seq(M) /\ nodes \in Seq(Nodes) /\ Len(nodes) = Len(low)
        /\ \A k \in 1..Len(nodes) : Made(nodes[k], low[k]) \in made
    BY <1>2, <2>1, <2>2 DEF StackSplits, AreTreesOf
  <2>4. ASSUME NEW k \in 1..Len(low)
        PROVE  Made(nodes[k], low[k]) \in made' /\ low[k] \in N
    <3>1. ToSet(low[k].dice) \subseteq ToSet(GroupsOf(low))
      BY <1>8, GroupsContain
    <3>2. Made(nodes[k], low[k]).tree = low[k]
      BY DEF Made
    <3>3. Made(nodes[k], low[k]) \in made'
      BY <1>1, <1>2, <1>9, <2>3, <3>1, <3>2
    <3> QED
      BY <2>2, <3>2, <3>3
  <2>5. low \in Seq(N)
    BY <2>3, <2>4
  <2>6. AreTreesOf(results, nodes)'
    <3>1. results' = low
      BY <1>1, <1>2
    <3> QED
      BY <2>2, <2>3, <2>4, <2>5, <3>1 DEF AreTreesOf
  <2>7. Leads(nodes, Order(sum), Append(nodes, sum))
    BY <1>4, <2>3, OrderLeads DEF Evaluates
  <2>8. Leads(Append(nodes, sum), Tail(work), <<Standing(expr)>>)
    BY <1>2, <1>4, <2>1 DEF StackSplits
  <2>9. Order(sum) \in Seq(Nodes)
    BY <1>4, NodesAre DEF IsNode
  <2>10. Leads(nodes, Order(sum) \o Tail(work), <<Standing(expr)>>)
    BY <1>3, <2>7, <2>8, <2>9, LeadsConcat
  <2>11. work' = Order(sum) \o Tail(work) /\ expr' = expr
    BY <1>1, <1>2, <1>4
  <2>12. Leads(nodes, work', <<Standing(expr')>>)
    BY <2>10, <2>11
  <2> QED
    BY <2>3, <2>6, <2>12 DEF StackSound
<1>16. AllInOrder'
  BY <1>1, <1>2, <1>6, <1>8 DEF AllInOrder
<1>17. Order(sum) \in Seq(Nodes) /\ work' = Order(sum) \o Tail(work)
  BY <1>1, <1>2, <1>4, NodesAre DEF IsNode
<1>18. ReplaySound'
  <2>1. terms' = terms /\ replay' = R
    BY <1>1, <1>2
  <2> QED
    BY <1>3, <1>4, <1>11, <1>17, <2>1 DEF ReplaySound
<1>19. DiceSound'
  <2>1. Dropped(Pooled, node.keep) \subseteq AllPositions
    BY DEF Dropped, Pooled, AllPositions
  <2>2. PICK D : D = Dropped(Pooled, node.keep)
    OBVIOUS
  <2> QED
    BY <1>1, <2>1, <2>2, DropLies DEF RollSound
<1>20. work' \in Seq(Nodes) /\ expr' \in Nodes
  <2>1. \A a, b \in Seq(Nodes) : a \o b \in Seq(Nodes)
    OBVIOUS
  <2>2. expr' = expr
    BY <1>1
  <2> QED
    BY <1>3, <1>17, <2>1, <2>2 DEF RollSound
<1> QED
  BY <1>14, <1>15, <1>16, <1>18, <1>19, <1>20 DEF RollSound

-----------------------------------------------------------------------------
(* Steps within a dice term.                                               *)

\* They make no tree, and leave the groups that have been valued alone.
LEMMA QuietRolls ==
    ASSUME RollSound, UNCHANGED <<expr, work, results, made, replay, group>>, group \in Int,
           DOMAIN groups \subseteq DOMAIN groups',
           \A g \in Valued : terms'[g] = terms[g] /\ groups'[g] = groups[g],
           DiceSound'
    PROVE  RollSound'
<1>1. /\ expr' = expr /\ work' = work /\ results' = results /\ made' = made
      /\ replay' = replay /\ group' = group
  OBVIOUS
<1>2. MadeSound'
  <2>1. SUFFICES ASSUME NEW m \in made' PROVE PairSound(m.node, m.tree)'
    BY DEF MadeSound
  <2>2. PICK x, y : x = m.node /\ y = m.tree
    OBVIOUS
  <2>3. PairSound(x, y)
    BY <1>1, <2>1, <2>2 DEF RollSound, MadeSound
  <2>4. \A k \in DOMAIN x.parts : Made(Standing(x.parts[k]), y.parts[k]) \in made'
    BY <1>1, <2>3 DEF PairSound, Follows
  <2>5. group \in Int /\ group' \in Int /\ group <= group'
    BY <1>1
  <2>6. PairSound(x, y)'
    BY <2>3, <2>4, <2>5, PairStays
  <2> QED
    BY <2>2, <2>6
<1>3. StackSound'
  BY <1>1 DEF RollSound, StackSound, AreTreesOf
<1>4. AllInOrder'
  BY <1>1 DEF RollSound, AllInOrder, Valued
<1>5. ReplaySound'
  <2>1. Named(terms', replay) = Named(terms, replay)
    <3>1. \A k \in DOMAIN replay : replay[k] \in Valued
      BY DEF RollSound, AllInOrder
    <3> QED
      BY <3>1 DEF Named
  <2> QED
    BY <1>1, <2>1 DEF RollSound, ReplaySound
<1> QED
  BY <1>1, <1>2, <1>3, <1>4, <1>5 DEF RollSound

\* A die shows an int.
LEMMA FacesAreWords ==
    ASSUME NEW n, Sound(n), n.kind = "dice"
    PROVE  Faces(n) \subseteq Word /\ n.count \in 1..MaxInt
<1>1. MaxInt \in Nat \ {0}
  BY MaxIntAssumption
<1>2. n.count \in 1..MaxInt /\ (n.fudge \/ n.sides \in 1..MaxInt)
  BY DEF Sound
<1>3. CASE n.fudge
  BY <1>1, <1>2, <1>3 DEF Faces, Word, MinInt
<1>4. CASE ~ n.fudge
  BY <1>1, <1>2, <1>4 DEF Faces, Word, MinInt
<1> QED
  BY <1>2, <1>3, <1>4

\* A thrown die joins those of the open group, or opens it.
LEMMA ThrowRolls ==
    ASSUME Inv, RollSound, Throw
    PROVE  RollSound'
<1>1. /\ work # << >> /\ node.kind = "dice" /\ mod = 0
      /\ UNCHANGED <<text, expr, status, work, results, made, replay, group>>
  BY DEF Throw, AtRoll, AtNode, node
<1>2. PICK v \in Faces(node) :
         IF group \in DOMAIN groups
         THEN groups' = [groups EXCEPT ![group] = Append(@, Thrown(v))] /\ UNCHANGED terms
         ELSE groups' = Append(groups, <<Thrown(v)>>) /\ terms' = Append(terms, node)
  BY DEF Throw
<1>3. node \in Nodes /\ Sound(node)
  BY <1>1, StackTop, NodesAre DEF IsNode
<1>4. v \in Word /\ v \in Int /\ node.count \in 1..MaxInt
  BY <1>1, <1>2, <1>3, FacesAreWords DEF Word
<1>5. PICK d \in Die : d = Thrown(v) /\ d.value = v
  <2>1. Thrown(v) \in Die /\ Thrown(v).value = v
    BY <1>4 DEF Thrown, Die
  <2> QED
    BY <2>1
<1>6. /\ groups \in Seq(Seq(Die)) /\ terms \in Seq(ToSet(terms)) /\ Len(terms) = Len(groups)
      /\ group \in {Len(groups), Len(groups) + 1} \ {0}
  BY DEF Inv, GroupsSound, OpenSound
<1>7. \A g \in Valued : g \in DOMAIN groups /\ g # group
  BY ValuedGroups DEF Valued
<1>8. MaxInt \in Nat \ {0}
  BY MaxIntAssumption
<1>9. CASE group \in DOMAIN groups
  <2>1. groups' = [groups EXCEPT ![group] = Append(groups[group], d)] /\ terms' = terms
    BY <1>2, <1>5, <1>9
  <2>2. Len(groups[group]) < node.count
    BY <1>1, <1>9 DEF Inv, OpenSound, Open
  <2>3. PICK g \in Seq(Die) : g = groups[group]
    <3>1. groups[group] \in Seq(Die)
      BY <1>6, <1>9
    <3> QED
      BY <3>1
  <2>4. Lie(g)
    BY <1>9, <2>3 DEF RollSound, DiceSound
  <2>5. PICK h : h = Append(g, d)
    OBVIOUS
  <2>6. PICK l \in Nat : l = Len(g) /\ DOMAIN g = 1..l
    OBVIOUS
  <2>7. /\ h \in Seq(Die) /\ Len(h) = l + 1 /\ DOMAIN h = 1..l + 1 /\ h[l + 1] = d
        /\ \A k \in 1..l : h[k] = g[k]
    BY <2>5, <2>6
  <2>8. \A k \in DOMAIN h : h[k].value \in Word
    <3>1. ASSUME NEW k \in 1..l + 1
          PROVE  h[k].value \in Word
      <4>1. CASE k = l + 1
        BY <1>4, <1>5, <2>7, <4>1
      <4>2. CASE k # l + 1
        <5>1. k \in 1..l
          BY <4>2
        <5> QED
          BY <2>4, <2>6, <2>7, <5>1 DEF Lie
      <4> QED
        BY <4>1, <4>2
    <3> QED
      BY <2>7, <3>1
  <2>9. Lie(h) /\ Len(h) <= MaxInt
    <3>1. l + 1 <= MaxInt
      BY <1>4, <1>8, <2>2, <2>3, <2>6
    <3> QED
      BY <2>7, <2>8, <3>1 DEF Lie
  <2>10. /\ DOMAIN groups' = DOMAIN groups /\ groups'[group] = h
         /\ \A k \in DOMAIN groups : k # group => groups'[k] = groups[k]
    BY <1>9, <2>1, <2>3, <2>5
  <2>11. DiceSound'
    <3>1. \A k \in DOMAIN groups' : Lie(groups'[k]) /\ Len(groups'[k]) <= MaxInt
      BY <2>9, <2>10 DEF RollSound, DiceSound
    <3>2. \A k \in DOMAIN terms' : terms'[k] \in Nodes
      BY <2>1 DEF RollSound, DiceSound
    <3> QED
      BY <3>1, <3>2 DEF DiceSound
  <2>12. \A g1 \in Valued : terms'[g1] = terms[g1] /\ groups'[g1] = groups[g1]
    BY <1>7, <2>1, <2>10
  <2>13. group \in Int /\ DOMAIN groups \subseteq DOMAIN groups'
    BY <2>10, ValuedGroups
  <2> QED
    BY <1>1, <2>11, <2>12, <2>13, QuietRolls
<1>10. CASE group \notin DOMAIN groups
  <2>1. PICK h : h = <<d>>
    OBVIOUS
  <2>2. groups' = Append(groups, h) /\ terms' = Append(terms, node)
    BY <1>2, <1>5, <1>10, <2>1
  <2>3. Lie(h) /\ Len(h) <= MaxInt
    <3>1. h \in Seq(Die) /\ Len(h) = 1 /\ h[1] = d /\ DOMAIN h = {1}
      BY <2>1
    <3> QED
      BY <1>4, <1>5, <1>8, <3>1 DEF Lie
  <2>4. PICK l \in Nat : l = Len(groups) /\ DOMAIN groups = 1..l /\ DOMAIN terms = 1..l
    BY <1>6
  <2>5. /\ DOMAIN groups' = 1..l + 1 /\ groups'[l + 1] = h
        /\ \A k \in 1..l : groups'[k] = groups[k]
    BY <1>6, <2>2, <2>4
  <2>6. /\ DOMAIN terms' = 1..l + 1 /\ terms'[l + 1] = node
        /\ \A k \in 1..l : terms'[k] = terms[k]
    BY <1>6, <2>2, <2>4
  <2>7. \A k \in 1..l + 1 : k \in 1..l \/ k = l + 1
    OBVIOUS
  <2>8. DiceSound'
    <3>1. \A k \in DOMAIN groups' : Lie(groups'[k]) /\ Len(groups'[k]) <= MaxInt
      BY <2>3, <2>4, <2>5, <2>7 DEF RollSound, DiceSound
    <3>2. \A k \in DOMAIN terms' : terms'[k] \in Nodes
      BY <1>3, <2>4, <2>6, <2>7 DEF RollSound, DiceSound
    <3> QED
      BY <3>1, <3>2 DEF DiceSound
  <2>9. \A g1 \in Valued : terms'[g1] = terms[g1] /\ groups'[g1] = groups[g1]
    BY <1>7, <2>4, <2>5, <2>6
  <2>10. group \in Int /\ DOMAIN groups \subseteq DOMAIN groups'
    BY <2>4, <2>5, ValuedGroups
  <2> QED
    BY <1>1, <2>8, <2>9, <2>10, QuietRolls
<1> QED
  BY <1>9, <1>10

\* kh, kl, ph and pl drop dice of the open group only.
LEMMA KeepRolls ==
    ASSUME Inv, RollSound, Keep, KeepFits(Positions(group), node.mods[mod])
    PROVE  RollSound'
<1>1. /\ work # << >> /\ node.kind = "dice" /\ mod \in DOMAIN node.mods
      /\ groups' = Drop(Dropped(Positions(group), node.mods[mod]))
      /\ UNCHANGED <<text, expr, status, work, results, made, terms, replay, group>>
  BY DEF Keep, AtModifier, AtRoll, AtNode, node
<1>2. mod # 0
  BY <1>1, ModifierNumber DEF Inv
<1>3. group \in DOMAIN groups /\ groups \in Seq(Seq(Die))
  BY <1>2 DEF Inv, GroupsSound, OpenSound, Open
<1>4. PICK D : D = Dropped(Positions(group), node.mods[mod])
  OBVIOUS
<1>5. D \subseteq Positions(group) /\ D \subseteq AllPositions
  <2>1. Positions(group) \subseteq AllPositions
    BY <1>3, PositionsAre
  <2> QED
    BY <1>4, <2>1 DEF Dropped
<1>6. DiceSound'
  BY <1>1, <1>4, <1>5, DropLies DEF RollSound
<1>7. ASSUME NEW g \in Valued
      PROVE  groups'[g] = groups[g]
  <2>1. g \in DOMAIN groups /\ g # group
    BY <1>7, ValuedGroups DEF Valued
  <2>2. PICK dice \in Seq(Die) : dice = groups[g]
    <3>1. groups[g] \in Seq(Die)
      BY <1>3, <2>1
    <3> QED
      BY <3>1
  <2>3. ASSUME NEW j \in DOMAIN dice
        PROVE  <<g, j>> \notin D
    <3>1. SUFFICES ASSUME <<g, j>> \in D PROVE FALSE
      OBVIOUS
    <3>2. <<g, j>> \in Positions(group)
      BY <1>5, <3>1
    <3>3. PICK i : <<g, j>> = <<group, i>>
      BY <3>2, Zenon DEF Positions
    <3> QED
      BY <2>1, <3>3
  <2>4. groups'[g] = [j \in DOMAIN dice |-> IF <<g, j>> \in D
                                             THEN [dice[j] EXCEPT !.state = "dropped"]
                                             ELSE dice[j]]
    BY <1>1, <1>4, <2>1, <2>2 DEF Drop
  <2>5. groups'[g] = [j \in DOMAIN dice |-> dice[j]]
    BY <2>3, <2>4
  <2> QED
    BY <2>2, <2>5
<1>8. DOMAIN groups' = DOMAIN groups /\ group \in Int
  BY <1>1, ValuedGroups DEF Drop
<1> QED
  BY <1>1, <1>6, <1>7, <1>8, QuietRolls

\* What the new die and the marked one show.
LEMMA SpawnLies ==
    ASSUME NEW g, Lie(g), NEW j \in DOMAIN g, NEW s \in {"rerolled", "exploded"}, NEW v \in Word
    PROVE  Lie(SpawnedIn(g, j, s, v))
<1>1. v \in Int /\ g \in Seq(Die) /\ \A k \in DOMAIN g : g[k].value \in Word
  BY DEF Word, Lie
<1>2. PICK h : h = SpawnedIn(g, j, s, v)
  OBVIOUS
<1>3. PICK old : old = [g[j] EXCEPT !.state = s]
  OBVIOUS
<1>4. old.value = g[j].value /\ old \in Die
  <2>1. g[j] \in Die
    BY <1>1
  <2> QED
    BY <1>3, <2>1 DEF Die
<1>5. PICK die : die = Thrown(v)
  OBVIOUS
<1>6. die \in Die /\ die.value = v
  BY <1>1, <1>5 DEF Thrown, Die
<1>7. PICK new : new = IF s = "rerolled" THEN [die EXCEPT !.rerolledFrom = j]
                       ELSE [die EXCEPT !.explodedFrom = j]
  OBVIOUS
<1>8. j \in Nat
  BY <1>1
<1>9. new.value = v /\ new \in Die
  BY <1>6, <1>7, <1>8 DEF Die
<1>10. PICK marked : marked = [g EXCEPT ![j] = old]
  OBVIOUS
<1>11. h = Append(marked, new)
  <2>1. [g EXCEPT ![j].state = s] = marked
    BY <1>3, <1>10
  <2> QED
    BY <1>2, <1>5, <1>7, <2>1 DEF SpawnedIn
<1>12. PICK l \in Nat : l = Len(g) /\ DOMAIN g = 1..l
  BY <1>1
<1>13. /\ marked \in Seq(Die) /\ Len(marked) = l /\ marked[j] = old
       /\ \A k \in 1..l : k # j => marked[k] = g[k]
  BY <1>1, <1>4, <1>10, <1>12
<1>14. /\ h \in Seq(Die) /\ DOMAIN h = 1..l + 1 /\ h[l + 1] = new
       /\ \A k \in 1..l : h[k] = marked[k]
  BY <1>9, <1>11, <1>13
<1>15. ASSUME NEW k \in 1..l + 1
       PROVE  h[k].value \in Word
  <2>1. CASE k = l + 1
    BY <1>9, <1>14, <2>1
  <2>2. CASE k # l + 1
    <3>1. k \in 1..l
      BY <2>2
    <3>2. CASE k = j
      BY <1>1, <1>4, <1>13, <1>14, <3>1, <3>2
    <3>3. CASE k # j
      BY <1>1, <1>12, <1>13, <1>14, <3>1, <3>3
    <3> QED
      BY <3>2, <3>3
  <2> QED
    BY <2>1, <2>2
<1> QED
  BY <1>2, <1>14, <1>15 DEF Lie

\* A die that is rerolled or explodes is of the open group.
LEMMA SpawnRolls ==
    ASSUME Inv, RollSound, work # << >>, node.kind = "dice",
           mod \in DOMAIN node.mods, AtLoop,
           NEW s \in {"rerolled", "exploded"},
           Candidates(node.mods[mod]) # {},
           Spawn(Min(Candidates(node.mods[mod])), s),
           ~ (Len(groups[group]) >= MaxDice)
    PROVE  RollSound'
<1>1. mod \in Nat \ {0}
  BY ModifierNumber DEF Inv
<1>2. Open /\ group \in DOMAIN groups
  BY <1>1 DEF Inv, OpenSound, Open
<1>3. PICK j : j = Min(Candidates(node.mods[mod]))
  OBVIOUS
<1>4. j \in DOMAIN groups[group]
  <2>1. PICK Acted : Acted = Candidates(node.mods[mod])
    OBVIOUS
  <2>2. /\ Acted \in SUBSET DOMAIN groups[group]
        /\ Acted # {} => Min(Acted) \in Acted /\ \A k \in Acted : Min(Acted) <= k
    BY <1>1, <1>2, <2>1, CandidatesAre
  <2> QED
    BY <1>3, <2>1, <2>2
<1>5. PICK v \in Faces(node) : groups' = [groups EXCEPT ![group] = Spawned(j, s, Thrown(v))]
  BY <1>3 DEF Spawn
<1>6. UNCHANGED <<text, expr, status, work, results, made, terms, replay, group>>
  BY <1>3 DEF Spawn
<1>7. v \in Word
  BY <1>5, StackTop, NodesAre, FacesAreWords DEF IsNode
<1>8. PICK g \in Seq(Die) : g = groups[group]
  <2>1. groups \in Seq(Seq(Die))
    BY DEF Inv, GroupsSound
  <2>2. groups[group] \in Seq(Die)
    BY <1>2, <2>1
  <2> QED
    BY <2>2
<1>9. PICK h : h = SpawnedIn(g, j, s, v)
  OBVIOUS
<1>10. groups' = [groups EXCEPT ![group] = h]
  BY <1>5, <1>8, <1>9 DEF Spawned, SpawnedIn
<1>11. Lie(h) /\ Len(h) <= MaxInt
  <2>1. Lie(g)
    BY <1>2, <1>8 DEF RollSound, DiceSound
  <2>2. Lie(h)
    BY <1>4, <1>7, <1>8, <1>9, <2>1, SpawnLies
  <2>3. MarksAndAdds(g, j, s, h)
    <3>1. v \in Int
      BY <1>7 DEF Word
    <3> QED
      BY <1>4, <1>8, <1>9, <3>1, SpawnFields
  <2>4. Len(h) = Len(g) + 1 /\ Len(g) \in Nat
    BY <2>3 DEF MarksAndAdds
  <2>5. MaxDice \in 1..MaxInt /\ MaxInt \in Nat
    BY LimitsAssumption, MaxIntAssumption
  <2>6. ~ (Len(g) >= MaxDice)
    BY <1>8
  <2> QED
    BY <2>2, <2>4, <2>5, <2>6
<1>12. /\ DOMAIN groups' = DOMAIN groups /\ groups'[group] = h
       /\ \A k \in DOMAIN groups : k # group => groups'[k] = groups[k]
  BY <1>2, <1>10
<1>13. DiceSound'
  <2>1. \A k \in DOMAIN groups' : Lie(groups'[k]) /\ Len(groups'[k]) <= MaxInt
    BY <1>11, <1>12 DEF RollSound, DiceSound
  <2>2. \A k \in DOMAIN terms' : terms'[k] \in Nodes
    BY <1>6 DEF RollSound, DiceSound
  <2> QED
    BY <2>1, <2>2 DEF DiceSound
<1>14. \A k \in Valued : terms'[k] = terms[k] /\ groups'[k] = groups[k]
  <2>1. \A k \in Valued : k \in DOMAIN groups /\ k # group
    BY ValuedGroups DEF Valued
  <2> QED
    BY <1>6, <1>12, <2>1
<1>15. group \in Int /\ DOMAIN groups \subseteq DOMAIN groups'
  BY <1>12, ValuedGroups
<1> QED
  BY <1>6, <1>13, <1>14, <1>15, QuietRolls

\* One iteration of reroll or explode, if the limits allow it.
LEMMA LoopRolls ==
    ASSUME Inv, RollSound, Reroll \/ Explode, status' = "rolling"
    PROVE  RollSound'
<1>1. /\ work # << >> /\ node.kind = "dice" /\ mod \in DOMAIN node.mods
      /\ AtLoop /\ Candidates(node.mods[mod]) # {}
  BY DEF Reroll, Explode, AtModifier, AtRoll, AtNode, AtLoop, node
<1>2. PICK s \in {"rerolled", "exploded"} : Spawn(Min(Candidates(node.mods[mod])), s)
  BY DEF Reroll, Explode, Fail
<1>3. ~ (Len(groups[group]) >= MaxDice)
  BY <1>2 DEF Spawn, Fail
<1> QED
  BY <1>1, <1>2, <1>3, SpawnRolls

\* The next modifier finds the dice as they are.
LEMMA ModifiedRolls ==
    ASSUME Inv, RollSound, Modified
    PROVE  RollSound'
<1>1. UNCHANGED <<text, expr, status, work, results, made, terms, groups, replay, group>>
  BY DEF Modified
<1>2. DiceSound'
  BY <1>1 DEF RollSound, DiceSound
<1>3. group \in Int
  BY ValuedGroups
<1> QED
  BY <1>1, <1>2, <1>3, QuietRolls

-----------------------------------------------------------------------------
(* The first step and the last.                                            *)

\* A formula that was parsed is evaluated from an empty stack.
LEMMA ParseRolls ==
    ASSUME Inv, Fresh, ParseText, Reading(text).error = "none"
    PROVE  RollSound'
<1>1. PICK root : root = Reading(text).node
  OBVIOUS
<1>2. /\ expr' = root /\ work' = Order(root)
      /\ UNCHANGED <<text, results, made, terms, groups, replay, rolling>>
  BY <1>1 DEF ParseText
<1>3. /\ made' = {} /\ results' = << >> /\ terms' = << >> /\ groups' = << >>
      /\ replay' = << >> /\ group' = 1
  BY <1>2 DEF Fresh, rolling
<1>4. root \in Nodes
  BY <1>1, NodesAre DEF Inv, WorkSound
<1>5. Order(root) \in Seq(Nodes)
  BY <1>4, NodesAre DEF IsNode
<1>6. PICK none \in Seq(Nodes) : none = << >>
  <2>1. << >> \in Seq(Nodes)
    OBVIOUS
  <2> QED
    BY <2>1
<1>7. MadeSound'
  BY <1>3 DEF MadeSound
<1>8. StackSound'
  <2>1. PICK all \in Seq(Nodes) : all = <<Standing(root)>> /\ all = Append(none, Standing(root))
    <3>1. PICK st \in Nodes : st = Standing(root)
      BY <1>4, StandingIsNode
    <3>2. <<st>> \in Seq(Nodes)
      OBVIOUS
    <3>3. Append(<< >>, st) = <<st>>
      OBVIOUS
    <3> QED
      BY <1>6, <3>1, <3>2, <3>3
  <2>2. Leads(none, Order(root), all)
    BY <1>4, <1>6, <2>1, OrderLeads DEF Evaluates
  <2>3. Leads(none, work', <<Standing(expr')>>)
    BY <1>2, <2>1, <2>2
  <2>4. PICK M : M = {m.tree : m \in made'}
    OBVIOUS
  <2>5. results' \in Seq(M) /\ Len(none) = 0 /\ Len(results') = 0
    BY <1>3, <1>6
  <2>6. AreTreesOf(results, none)'
    BY <2>4, <2>5 DEF AreTreesOf
  <2> QED
    BY <2>3, <2>6 DEF StackSound
<1>9. AllInOrder'
  <2>1. Valued' = {}
    BY <1>3 DEF Valued
  <2>2. GroupsOf(<< >>) = << >>
    <3>1. PICK G : G = Nat
      OBVIOUS
    <3>2. GroupsOf(<< >>) = << >>
      BY GroupsOfTrees
    <3> QED
      BY <3>2
  <2>3. << >> \o << >> = [g \in {} |-> g]
    OBVIOUS
  <2> QED
    BY <1>3, <2>1, <2>2, <2>3 DEF AllInOrder
<1>10. ReplaySound'
  <2>1. work' \in Seq(Nodes) /\ replay' = << >>
    BY <1>2, <1>3, <1>5
  <2> QED
    BY <2>1, NoReplay DEF ReplaySound
<1>11. DiceSound'
  <2>1. DOMAIN terms' = {} /\ DOMAIN groups' = {}
    BY <1>3
  <2> QED
    BY <2>1 DEF DiceSound
<1> QED
  BY <1>2, <1>4, <1>5, <1>7, <1>8, <1>9, <1>10, <1>11 DEF RollSound

\* With no work left, one tree has all the dice.
LEMMA FinishExplains ==
    ASSUME Inv, RollSound, Finish
    PROVE  ResultExplained'
<1>1. work = << >> /\ UNCHANGED <<text, expr, work, results, made, terms, groups, replay, rolling>>
  BY DEF Finish
<1>2. DOMAIN groups = Valued
  BY <1>1, ValuedGroups DEF Inv, OpenSound
<1>3. replay = << >>
  <2>1. PICK items \in Seq(Nodes), rest \in Seq(Nodes) :
            work = items \o rest /\ DiceIn(items) = Named(terms, replay)
    BY DEF RollSound, ReplaySound
  <2>2. items = << >>
    BY <1>1, <2>1
  <2>3. Named(terms, replay) = << >>
    BY <2>1, <2>2, DiceInOrders
  <2>4. replay \in Seq(Valued) /\ DOMAIN replay = {}
    BY <2>3 DEF Named, RollSound, AllInOrder
  <2> QED
    BY <2>4
<1>4. PICK nodes \in Seq(Nodes) : AreTreesOf(results, nodes) /\ Leads(nodes, << >>, <<Standing(expr)>>)
  BY <1>1 DEF RollSound, StackSound
<1>5. PICK st : st = Standing(expr)
  OBVIOUS
<1>6. nodes = <<st>>
  BY <1>4, <1>5, LeadsNone
<1>7. PICK M : M = {m.tree : m \in made}
  OBVIOUS
<1>8. results \in Seq(M) /\ Len(results) = 1 /\ Made(st, results[1]) \in made
  <2>1. Len(nodes) = 1 /\ nodes[1] = st
    BY <1>6
  <2> QED
    BY <1>4, <1>7, <2>1 DEF AreTreesOf
<1>9. \A m \in made : Follows(m.tree, m.node) /\ Explains(m.tree, m.node)
  BY DEF RollSound, MadeSound, PairSound
<1>10. PICK r : r = results[1]
  OBVIOUS
<1>11. results = <<r>>
  BY <1>8, <1>10
<1>12. r.dice = [g \in DOMAIN groups |-> g]
  <2>1. PICK G : G = Valued
    OBVIOUS
  <2>2. r.dice \in Seq(G)
    <3>1. PICK m : m = Made(st, r)
      OBVIOUS
    <3>2. m \in made /\ m.tree = r
      BY <1>8, <1>10, <3>1 DEF Made
    <3> QED
      BY <2>1, <3>2 DEF RollSound, MadeSound, PairSound
  <2>3. GroupsOf(<<r>>) = r.dice
    BY <2>2, GroupsOfTrees
  <2>4. GroupsOf(results) \o << >> = [g \in G |-> g]
    BY <1>3, <2>1 DEF RollSound, AllInOrder
  <2>5. GroupsOf(results) \in Seq(G)
    BY <1>11, <2>2, <2>3
  <2> QED
    BY <1>2, <1>11, <2>1, <2>3, <2>4, <2>5
<1>13. /\ Len(results') = 1
       /\ Made(Standing(expr'), results'[1]) \in made'
       /\ results'[1].dice = [g \in DOMAIN groups' |-> g]
  BY <1>1, <1>5, <1>8, <1>10, <1>12
<1>14. \A m \in made' : Follows(m.tree, m.node)' /\ Explains(m.tree, m.node)'
  BY <1>1, <1>9 DEF Follows, Explains
<1> QED
  BY <1>13, <1>14 DEF ResultExplained

-----------------------------------------------------------------------------
(* Every step.                                                             *)

\* An error promises nothing of the result.
LEMMA ErrorEnds ==
    ASSUME Inv', status' \notin {"new", "rolling", "ok"}
    PROVE  ResultInv'
  BY DEF ResultInv, ResultExplained

\* A roll that goes on has no result yet.
LEMMA RollGoesOn ==
    ASSUME Inv', RollSound', status' = "rolling"
    PROVE  ResultInv'
  BY DEF ResultInv, ResultExplained

\* A roll goes on when a node has its tree, and ends with the error otherwise.
LEMMA CompleteStatus ==
    ASSUME NEW explained, Complete(explained)
    PROVE  /\ explained.status = "ok" => UNCHANGED status
           /\ explained.status # "ok" => status' = explained.status
  BY DEF Complete, Fail

\* Every step keeps the invariant.
LEMMA ResultStep ==
    ASSUME ResultInv, [Next]_vars
    PROVE  ResultInv'
<1>1. Inv /\ Inv'
  BY StepSound DEF ResultInv
<1>2. status = "rolling" => RollSound
  BY DEF ResultInv
<1>3. CASE ParseText
  <2>1. status = "new" /\ Fresh /\ text \in Texts
    BY <1>1, <1>3 DEF ParseText, ResultInv, Inv, WorkSound
  <2>2. CASE Reading(text).error = "none"
    <3>1. status' = "rolling"
      BY <1>3, <2>2 DEF ParseText
    <3> QED
      BY <1>1, <1>3, <2>1, <2>2, <3>1, ParseRolls, RollGoesOn
  <2>3. CASE Reading(text).error # "none"
    <3>1. status' = Reading(text).error
      BY <1>3, <2>3 DEF ParseText, Fail
    <3>2. status' \notin {"new", "rolling", "ok"}
      BY <2>1, <2>3, <3>1, ErrorAssumption DEF Error
    <3> QED
      BY <1>1, <3>2, ErrorEnds
  <2> QED
    BY <2>2, <2>3
<1>4. CASE Evaluate
  <2>1. /\ status = "rolling" /\ work # << >> /\ Complete(Combine(node, args))
        /\ node.kind \in {"literal", "variable", "unary", "binary", "call"}
    BY <1>4 DEF Evaluate, AtNode, node
  <2>2. CASE Combine(node, args).status = "ok"
    <3>1. status' = "rolling"
      BY <2>1, <2>2, CompleteStatus
    <3> QED
      BY <1>1, <1>2, <1>4, <2>1, <2>2, <3>1, EvaluateRolls, RollGoesOn
  <2>3. CASE Combine(node, args).status # "ok"
    <3>1. Combine(node, args).status \notin {"new", "rolling"}
      BY <1>1, <2>1, HeadSound, CombineFails DEF Inv
    <3>2. status' \notin {"new", "rolling", "ok"}
      BY <2>1, <2>3, <3>1, CompleteStatus
    <3> QED
      BY <1>1, <3>2, ErrorEnds
  <2> QED
    BY <2>2, <2>3
<1>5. CASE Throw
  <2>1. status = "rolling" /\ status' = "rolling"
    BY <1>5 DEF Throw, AtRoll, AtNode
  <2> QED
    BY <1>1, <1>2, <1>5, <2>1, ThrowRolls, RollGoesOn
<1>6. CASE Keep
  <2>1. status = "rolling"
    BY <1>6 DEF Keep, AtModifier, AtRoll, AtNode
  <2>2. CASE KeepFits(Positions(group), node.mods[mod])
    <3>1. status' = "rolling"
      BY <1>6, <2>1, <2>2 DEF Keep
    <3> QED
      BY <1>1, <1>2, <1>6, <2>1, <2>2, <3>1, KeepRolls, RollGoesOn
  <2>3. CASE ~ KeepFits(Positions(group), node.mods[mod])
    <3>1. status' = "keep_count"
      BY <1>6, <2>3 DEF Keep, Fail
    <3> QED
      BY <1>1, <3>1, ErrorEnds
  <2> QED
    BY <2>2, <2>3
<1>7. CASE Reroll \/ Explode
  <2>1. status = "rolling"
    BY <1>7 DEF Reroll, Explode, AtModifier, AtRoll, AtNode
  <2>2. status' \in {"rolling", "too_many_rerolls", "too_many_explosions", "too_many_dice"}
    BY <1>7, <2>1 DEF Reroll, Explode, Spawn, Fail
  <2>3. CASE status' = "rolling"
    BY <1>1, <1>2, <1>7, <2>1, <2>3, LoopRolls, RollGoesOn
  <2>4. CASE status' # "rolling"
    BY <1>1, <2>2, <2>4, ErrorEnds
  <2> QED
    BY <2>3, <2>4
<1>8. CASE Modified
  <2>1. status = "rolling" /\ status' = "rolling"
    BY <1>8 DEF Modified, AtModifier, AtRoll, AtNode
  <2> QED
    BY <1>1, <1>2, <1>8, <2>1, ModifiedRolls, RollGoesOn
<1>9. CASE GroupDone
  <2>1. status = "rolling"
    BY <1>9 DEF GroupDone, AtRoll, AtNode
  <2>2. CASE DiceValue(groups[group], node).status = "ok"
    <3>1. ExplainDice(DiceValue(groups[group], node), group).status = "ok"
      BY <2>2 DEF ExplainDice
    <3>2. status' = "rolling"
      BY <1>9, <2>1, <2>2, <3>1, CompleteStatus DEF GroupDone
    <3> QED
      BY <1>1, <1>2, <1>9, <2>1, <2>2, <3>2, GroupDoneRolls, RollGoesOn
  <2>3. CASE DiceValue(groups[group], node).status # "ok"
    <3>1. status' = "overflow"
      BY <1>9, <2>3 DEF GroupDone, Fail
    <3> QED
      BY <1>1, <3>1, ErrorEnds
  <2> QED
    BY <2>2, <2>3
<1>10. CASE KeepGroup
  <2>1. status = "rolling"
    BY <1>10 DEF KeepGroup, AtNode
  <2>2. CASE KeepFits(Pooled, node.keep)
    <3>1. status' = "rolling"
      BY <1>10, <2>1, <2>2 DEF KeepGroup
    <3> QED
      BY <1>1, <1>2, <1>10, <2>1, <2>2, <3>1, KeepGroupRolls, RollGoesOn
  <2>3. CASE ~ KeepFits(Pooled, node.keep)
    <3>1. status' = "keep_count"
      BY <1>10, <2>3 DEF KeepGroup, Fail
    <3> QED
      BY <1>1, <3>1, ErrorEnds
  <2> QED
    BY <2>2, <2>3
<1>11. CASE Reread
  <2>1. status = "rolling"
    BY <1>11 DEF Reread, AtNode
  <2>2. CASE DiceValue(groups[Head(replay)], node).status = "ok"
    <3>1. ExplainDice(DiceValue(groups[Head(replay)], node), Head(replay)).status = "ok"
      BY <2>2 DEF ExplainDice
    <3>2. status' = "rolling"
      BY <1>11, <2>1, <2>2, <3>1, CompleteStatus DEF Reread
    <3> QED
      BY <1>1, <1>2, <1>11, <2>1, <2>2, <3>2, RereadRolls, RollGoesOn
  <2>3. CASE DiceValue(groups[Head(replay)], node).status # "ok"
    <3>1. status' = "overflow"
      BY <1>11, <2>3 DEF Reread, Fail
    <3> QED
      BY <1>1, <3>1, ErrorEnds
  <2> QED
    BY <2>2, <2>3
<1>12. CASE Finish
  <2>1. status = "rolling" /\ status' = "ok"
    BY <1>12 DEF Finish
  <2>2. ResultExplained'
    BY <1>1, <1>2, <1>12, <2>1, FinishExplains
  <2> QED
    BY <1>1, <2>1, <2>2 DEF ResultInv
<1>13. CASE UNCHANGED vars
  <2>1. UNCHANGED <<text, expr, status, work, results, made, terms, groups, replay, group>>
    BY <1>13 DEF vars, rolling
  <2>2. Fresh => Fresh'
    BY <2>1 DEF Fresh
  <2>3. ResultExplained'
    BY <2>1 DEF ResultInv, ResultExplained, Follows, Explains
  <2>4. RollSound => RollSound'
    <3>1. SUFFICES ASSUME RollSound PROVE RollSound'
      OBVIOUS
    <3>2. DiceSound'
      BY <2>1, <3>1 DEF RollSound, DiceSound
    <3>3. group \in Int
      BY <1>1, ValuedGroups
    <3> QED
      BY <2>1, <3>1, <3>2, <3>3, QuietRolls
  <2> QED
    BY <1>1, <2>1, <2>2, <2>3, <2>4 DEF ResultInv
<1> QED
  BY <1>3, <1>4, <1>5, <1>6, <1>7, <1>8, <1>9, <1>10, <1>11, <1>12, <1>13 DEF Next, Roll, Rolled

\* Before anything was parsed there is nothing to explain.
LEMMA ResultInit == Init => ResultInv
  BY InitSound DEF Init, ResultInv, Fresh, ResultExplained

(***************************************************************************)
(* Whatever the formula, the limits and the faces, a result that Expr.Roll *)
(* returns explains itself: its tree has the shape of the formula, the     *)
(* groups of dice come in the order of their terms, each once, and every   *)
(* value follows, over the integers, from what is below it and from the    *)
(* dice as they finally lie.                                               *)
(***************************************************************************)
THEOREM ResultAlwaysExplained == Spec => []ResultExplained
<1>1. ResultInv => ResultExplained
  BY DEF ResultInv
<1> QED
  BY <1>1, ResultInit, ResultStep, PTL DEF Spec
=============================================================================
