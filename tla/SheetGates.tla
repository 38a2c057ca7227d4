------------------------------ MODULE SheetGates ------------------------------
(***************************************************************************)
(* The two gates that a character sheet passes on its way in, and that     *)
(* must agree on what a sheet is: the decode into the generated wire types *)
(* (validateSheet in internal/dto/v1alpha/mapper) and the embedded schema  *)
(* (schema.Validate, called by the domain).  A client replaces or patches  *)
(* a stored sheet; the gates take what it sends apart object by object, so *)
(* the sheet is studied one part at a time: a part is one object of the    *)
(* schema, with the type generated for it.                                 *)
(***************************************************************************)
EXTENDS SheetSchema, SheetTypes

CONSTANTS
    Parts,       \* the parts studied, a subset of DOMAIN Part
    Revised,     \* the parts a client writes twice
    ServerOwned  \* the top-level keys a patch may not name

VARIABLES
    part,    \* the part being written, the name of its type
    stored,  \* the document the store holds for it
    sent,    \* the document last put to the gates
    answer,  \* "ok", or what refused it: "types", "schema" or "owned"
    writes   \* how many writes there have been

vars == <<part, stored, sent, answer, writes>>

\* Each object of the schema and the type that go-jsonschema makes of it.
Part == [
    Ruleset |-> <<ruleset, Ruleset>>, SourceRef |-> <<sourceRef, SourceRef>>,
    AbilityScoreFeatIncreasesElem |->
        <<abilityScoreFeatIncreasesElem,
          AbilityScoreFeatIncreasesElem>>,
    AbilityScore |-> <<abilityScore, AbilityScore>>,
    Abilities |-> <<abilities, Abilities>>,
    AbilityAllocationBackgroundAllocationAllocationsElem |->
        <<abilityAllocationBackgroundAllocationAllocationsElem,
          AbilityAllocationBackgroundAllocationAllocationsElem>>,
    AbilityAllocationBackgroundAllocation |->
        <<abilityAllocationBackgroundAllocation,
          AbilityAllocationBackgroundAllocation>>,
    AbilityAllocation |-> <<abilityAllocation, AbilityAllocation>>,
    IdentityRoleplayNotesElem |->
        <<identityRoleplayNotesElem,
          IdentityRoleplayNotesElem>>,
    Identity |-> <<identity, Identity>>,
    Progression |-> <<progression, Progression>>,
    SpeciesTrait |-> <<speciesTrait, SpeciesTrait>>,
    SpeciesSubChoice |-> <<speciesSubChoice, SpeciesSubChoice>>,
    Species |-> <<species, Species>>,
    BackgroundOriginFeat |-> <<backgroundOriginFeat, BackgroundOriginFeat>>,
    Background |-> <<background, Background>>,
    ClassEntrySubclass |-> <<classEntrySubclass, ClassEntrySubclass>>,
    ClassEntryWeaponMasteryKnownElem |->
        <<classEntryWeaponMasteryKnownElem,
          ClassEntryWeaponMasteryKnownElem>>,
    ClassEntryWeaponMastery |->
        <<classEntryWeaponMastery,
          ClassEntryWeaponMastery>>,
    ClassEntry |-> <<classEntry, ClassEntry>>,
    FeatureOrigin |-> <<featureOrigin, FeatureOrigin>>,
    FeatureActivation |-> <<featureActivation, FeatureActivation>>,
    Feature |-> <<feature, Feature>>,
    FeatAbilityIncrease |-> <<featAbilityIncrease, FeatAbilityIncrease>>,
    Feat |-> <<feat, Feat>>,
    ProficienciesToolsElem |->
        <<proficienciesToolsElem,
          ProficienciesToolsElem>>,
    ProficienciesSkillsElem |->
        <<proficienciesSkillsElem,
          ProficienciesSkillsElem>>,
    Proficiencies |-> <<proficiencies, Proficiencies>>,
    ConditionInstance |-> <<conditionInstance, ConditionInstance>>,
    VitalsHitPoints |-> <<vitalsHitPoints, VitalsHitPoints>>,
    VitalsHitDicePoolsElem |->
        <<vitalsHitDicePoolsElem,
          VitalsHitDicePoolsElem>>,
    VitalsDeathSaves |-> <<vitalsDeathSaves, VitalsDeathSaves>>,
    VitalsDefenses |-> <<vitalsDefenses, VitalsDefenses>>,
    Vitals |-> <<vitals, Vitals>>,
    CombatArmorClassBreakdownElem |->
        <<combatArmorClassBreakdownElem,
          CombatArmorClassBreakdownElem>>,
    CombatArmorClass |-> <<combatArmorClass, CombatArmorClass>>,
    CombatSpeeds |-> <<combatSpeeds, CombatSpeeds>>,
    CombatAttunement |-> <<combatAttunement, CombatAttunement>>,
    CombatCarrying |-> <<combatCarrying, CombatCarrying>>,
    Combat |-> <<combat, Combat>>, Resource |-> <<resource, Resource>>,
    RestState |-> <<restState, RestState>>,
    SpellcastingSourcePreparationSwapRule |->
        <<spellcastingSourcePreparationSwapRule,
          SpellcastingSourcePreparationSwapRule>>,
    SpellcastingSourcePreparation |->
        <<spellcastingSourcePreparation,
          SpellcastingSourcePreparation>>,
    SpellcastingSourceRitualCasting |->
        <<spellcastingSourceRitualCasting,
          SpellcastingSourceRitualCasting>>,
    SpellcastingSource |-> <<spellcastingSource, SpellcastingSource>>,
    SlotPool |-> <<slotPool, SlotPool>>,
    SpellEntryPreparationFreeCasts |->
        <<spellEntryPreparationFreeCasts,
          SpellEntryPreparationFreeCasts>>,
    SpellEntryPreparation |->
        <<spellEntryPreparation,
          SpellEntryPreparation>>,
    SpellEntryCastingTime |->
        <<spellEntryCastingTime,
          SpellEntryCastingTime>>,
    SpellEntryAreaOfEffect |->
        <<spellEntryAreaOfEffect,
          SpellEntryAreaOfEffect>>,
    SpellEntryComponents |-> <<spellEntryComponents, SpellEntryComponents>>,
    SpellEntryDuration |-> <<spellEntryDuration, SpellEntryDuration>>,
    SpellEntry |-> <<spellEntry, SpellEntry>>,
    SpellcastingSpellbook |->
        <<spellcastingSpellbook,
          SpellcastingSpellbook>>,
    SpellcastingConcentration |->
        <<spellcastingConcentration,
          SpellcastingConcentration>>,
    Spellcasting |-> <<spellcasting, Spellcasting>>,
    Container |-> <<container, Container>>,
    InventoryEntryEquipped |->
        <<inventoryEntryEquipped,
          InventoryEntryEquipped>>,
    InventoryEntry |-> <<inventoryEntry, InventoryEntry>>,
    InventorySummary |-> <<inventorySummary, InventorySummary>>,
    Inventory |-> <<inventory, Inventory>>,
    CurrencyCoins |-> <<currencyCoins, CurrencyCoins>>,
    CurrencyDerived |-> <<currencyDerived, CurrencyDerived>>,
    CurrencyValuablesElem |->
        <<currencyValuablesElem,
          CurrencyValuablesElem>>,
    CurrencyPartyTreasuryRef |->
        <<currencyPartyTreasuryRef,
          CurrencyPartyTreasuryRef>>,
    Currency |-> <<currency, Currency>>,
    ReputationGroupDowntimeProgress |->
        <<reputationGroupDowntimeProgress,
          ReputationGroupDowntimeProgress>>,
    ReputationGroupLedgerElem |->
        <<reputationGroupLedgerElem,
          ReputationGroupLedgerElem>>,
    ReputationGroup |-> <<reputationGroup, ReputationGroup>>,
    Reputation |-> <<reputation, Reputation>>,
    BuildLogEntry |-> <<buildLogEntry, BuildLogEntry>>,
    CharacterSchema |-> <<characterSchema, CharacterSchema>>]

ASSUME PartsAssumption == Parts \subseteq DOMAIN Part /\ Revised \subseteq Parts

Rule(p) == NonNull(Part[p][1])

Type(p) == Part[p][2]

\* The sparsest and the fullest sample of a part.
Samples(s) == {Sample(s, FALSE), Sample(s, TRUE)}

-----------------------------------------------------------------------------
(* What a client may write in place of one member.                         *)

\* Integers on both sides of each end of a range, and far out.
Edges(range) ==
    {n \in -1..31 : \/ n \in {-1, 31}
                    \/ (n \in range) # ((n - 1) \in range)
                    \/ (n \in range) # ((n + 1) \in range)}

OneOfEachKind ==
    {Null, Bool(TRUE), Bool(FALSE), Str("text"), Whole(0), Pointed(1), Fraction,
     Arr(<<>>), Obj(NoMembers)}

\* The integers of an enumeration, written otherwise.
Rewritten(values) == {Pointed(v.whole) : v \in {w \in values : w.json = "integer"}}

Repeats(s) ==
    {Arr([i \in 1..n |-> Sample(NonNull(s.items), FALSE)]) : n \in 0..4}
    \cup {Arr(<<v>>) : v \in {Null, Whole(0), Pointed(1), Str("text")}}

\* The samples of an object, with a member it does not name, without one.
Objects(s) ==
    LET whole == {Sample(NonNull(s), FALSE), Sample(NonNull(s), TRUE)}
    IN  whole
        \cup {Obj(o.members @@ ("unnamed" :> Null)) : o \in whole}
        \cup UNION {{Obj([j \in DOMAIN o.members \ {k} |-> o.members[j]])
                       : k \in DOMAIN o.members} : o \in whole}

Alternatives(s) ==
    OneOfEachKind \cup s.values \cup Rewritten(s.values)
    \cup (IF "integer" \in s.kinds /\ s.values = {}
          THEN {Whole(n) : n \in Edges(s.range)} ELSE {})
    \cup (IF "array" \in s.kinds /\ s.values = {} THEN Repeats(s) ELSE {})
    \cup (IF "object" \in s.kinds /\ s.values = {} THEN Objects(s) ELSE {})

\* What a member may be given: those the part names, and one it does not.
ChoicesOf(s) == [k \in DOMAIN s.props |-> Alternatives(s.props[k])]
                    @@ ("unnamed" :> {Str("text"), Null})

Choices == [p \in Parts |-> ChoicesOf(Rule(p))]

\* A patch may also name one member of a member that is an object.
Inner(s) == UNION {{Obj(j :> v) : v \in Alternatives(s.props[j])} : j \in DOMAIN s.props}

PatchesOf(s) == [k \in DOMAIN s.props |-> Alternatives(s.props[k]) \cup Inner(s.props[k])]
                    @@ ("unnamed" :> {Str("text"), Null})

Patches == [p \in Parts |-> PatchesOf(Rule(p))]

-----------------------------------------------------------------------------
(* The gates: validateSheet, then schema.Validate.                         *)

Gate(entry, doc) ==
    IF ~ Decodes(entry[2], doc) THEN "types"
    ELSE IF ~ Valid(NonNull(entry[1]), doc) THEN "schema"
    ELSE "ok"

Submit(doc) ==
    /\ sent' = doc
    /\ answer' = Gate(Part[part], doc)
    /\ stored' = IF answer' = "ok" THEN doc ELSE stored

Init ==
    /\ part \in Parts
    /\ stored \in Samples(Rule(part))
    /\ sent = stored
    /\ answer = Gate(Part[part], stored)
    /\ writes = 0

Writable == writes < IF part \in Revised THEN 2 ELSE 1

\* PUT sends the document as the client holds it, with one member changed,
\* added or taken out.
Edited(choices) ==
    UNION {{Obj((k :> v) @@ stored.members) : v \in choices[k]}
           \cup {Obj([j \in DOMAIN stored.members \ {k} |-> stored.members[j]])}
             : k \in DOMAIN choices}

Put ==
    /\ Writable
    /\ writes' = writes + 1
    /\ part' = part
    /\ \E doc \in Edited(Choices[part]) : Submit(doc)

NamesServerOwned(p, k) == p = "CharacterSchema" /\ k \in ServerOwned

\* PATCH merges a patch into it; a patch of the document's own bookkeeping is
\* refused before any merge.
Patch ==
    /\ Writable
    /\ writes' = writes + 1
    /\ part' = part
    /\ \E patches \in {Patches[part]} : \E k \in DOMAIN patches :
         IF NamesServerOwned(part, k)
         THEN answer' = "owned" /\ UNCHANGED <<stored, sent>>
         ELSE \E v \in patches[k] : Submit(Merge(stored, Obj(k :> v)))

Next == Put \/ Patch

Spec == Init /\ [][Next]_vars

-----------------------------------------------------------------------------
(* What the schema says, less what the generator drops.                    *)

RECURSIVE Loosen(_)

(***************************************************************************)
(* A schema without "const", the conditional rules, closed objects, keys   *)
(* by pattern and the bounds of a number that may be null; a null passes   *)
(* everywhere.                                                             *)
(***************************************************************************)
Loosen(s) ==
    [s EXCEPT
       !.kinds = @ \cup {"null"},
       !.values = IF s.constant \/ @ = {} THEN {} ELSE @ \cup {Null},
       !.range = IF "null" \in s.kinds THEN Int ELSE @,
       !.items = IF @ = NoMembers THEN @ ELSE Loosen(@),
       !.props = IF s.keyed THEN NoMembers
                 ELSE [k \in DOMAIN @ |-> Loosen(@[k])],
       !.closed = FALSE,
       !.rules = {}]

LooseRule == [p \in Parts |-> Loosen(Rule(p))]

RECURSIVE Respelt(_, _)

\* The value with a time for every timestamp and digits for every integer.
Respelt(s, v) ==
    CASE v.json = "string" /\ s.instant -> Str("instant")
      [] v.json = "array" /\ s.items # NoMembers ->
           Arr([i \in DOMAIN v.elems |-> Respelt(s.items, v.elems[i])])
      [] v.json = "object" ->
           Obj([k \in DOMAIN v.members |->
                  IF k \in DOMAIN s.props THEN Respelt(s.props[k], v.members[k])
                  ELSE v.members[k]])
      [] OTHER -> InDigits(v)


(***************************************************************************)
(* What the wire types let through satisfies the schema but for the        *)
(* keywords the generator drops: required members, kinds, enumerations,    *)
(* bounds and lengths are enforced at every depth by the decode alone.     *)
(***************************************************************************)
DecodeEnforcesTheRest ==
    answer \in {"ok", "schema"} => Valid(LooseRule[part], sent)
=============================================================================
