----------------------------- MODULE SheetSchema -----------------------------
(***************************************************************************)
(* The character schema of pkg/domain/character/schema: one definition per *)
(* "$defs" entry, under its own name, and one per object that an entry     *)
(* holds in place, under the name of the type generated for it.            *)
(***************************************************************************)
EXTENDS JsonSchema

SlotLevel == {"1", "2", "3", "4", "5", "6", "7", "8", "9"}

\* common.schema.json

ruleset ==
  Object({"system", "revision"}, [
    system |-> Constant(Str("dnd5e")),
    revision |-> Enum({"srd@5.1", "srd@5.2.1"}),
    srd_baseline |-> Nullable(String)])

abilityName ==
  Enum({
    "strength", "dexterity", "constitution", "intelligence", "wisdom",
    "charisma"})

masteryProperty ==
  Enum({
    "Cleave", "Graze", "Nick", "Push", "Sap", "Slow", "Topple", "Vex"})

contentOrigin ==
  Enum({
    "user_authored", "srd", "licensed", "imported_unknown"})

sourceRef ==
  Conditional({
      If("content_origin", "srd", {},
         [attribution_required |-> OneOf({Bool(TRUE)})],
         NoMembers),
      If("content_origin", "user_authored", {},
         [catalog_id |-> Nothing, attribution_required |-> OneOf({Bool(FALSE)}),
          srd_licensed |-> OneOf({Bool(FALSE)})],
         NoMembers),
      If("content_origin", "imported_unknown", {},
         [catalog_id |-> Nothing],
         NoMembers),
      If("content_origin", "licensed", {"catalog_id"},
         [catalog_id |-> String],
         NoMembers)},
  Object({"content_origin", "attribution_required"}, [
    catalog_id |-> Nullable(String), book |-> Nullable(String),
    page |-> Nullable(Integer), is_homebrew |-> Boolean,
    srd_licensed |-> Boolean, authored_by_user_id |-> Nullable(String),
    snapshot_version |-> Nullable(String), content_origin |-> contentOrigin,
    attribution_required |-> Boolean]))

\* abilities.schema.json

abilityScoreFeatIncreasesElem ==
  Object({}, [
    feat_instance_id |-> String, feat_name |-> String, amount |-> Integer])

abilityScore ==
  Object({"base_score", "total_score", "modifier", "maximum_allowed"}, [
    base_score |-> Within(Positive, Integer),
    base_source |-> Enum({"standard_array", "point_buy", "rolled", "custom"}),
    background_increase |-> Within(0..2, Integer),
    feat_increases |-> Array(abilityScoreFeatIncreasesElem),
    other_increases |-> Array(AnyObject),
    override_score |-> Nullable(Integer),
    override_source |-> Nullable(String),
    total_score |-> Within(1..30, Integer), modifier |-> Integer,
    maximum_allowed |-> OneOf({Whole(20), Whole(30)}),
    save_proficient |-> Boolean, save_bonus_total |-> Integer,
    save_misc_bonus |-> Integer])

abilities ==
  Closed(Object({
      "strength", "dexterity", "constitution", "intelligence", "wisdom",
      "charisma"}, [
    strength |-> abilityScore, dexterity |-> abilityScore,
    constitution |-> abilityScore, intelligence |-> abilityScore,
    wisdom |-> abilityScore, charisma |-> abilityScore]))

abilityAllocationBackgroundAllocationAllocationsElem ==
  Object({"ability", "amount"}, [
    ability |-> abilityName, amount |-> Within(1..2, Integer)])

abilityAllocationBackgroundAllocation ==
  Object({"pattern", "allocations"}, [
    pattern |-> Enum({"2_and_1", "1_1_1"}),
    allocations |-> Sized(2..3, Array(abilityAllocationBackgroundAllocationAllocationsElem)),
    eligible_abilities |-> Sized(0..3, Array(abilityName))])

abilityAllocation ==
  Object({}, [
    generation_method |-> Enum({
        "standard_array", "point_buy", "rolled", "custom"}),
    standard_array_assignment |-> Nullable(AnyObject),
    point_buy_spend |-> Nullable(AnyObject),
    rolled_values |-> Nullable(Array(Integer)),
    background_allocation |-> abilityAllocationBackgroundAllocation])

\* identity.schema.json

identityRoleplayNotesElem ==
  Object({"label", "text"}, [
    label |-> String, text |-> String])

identity ==
  Object({"character_name"}, [
    character_name |-> String, player_name |-> Nullable(String),
    pronouns |-> Nullable(String), alignment |-> Nullable(String),
    age |-> Nullable(String), height |-> Nullable(String),
    weight |-> Nullable(String), faith |-> Nullable(String),
    appearance |-> Nullable(String), backstory |-> Nullable(String),
    roleplay_notes |-> Array(identityRoleplayNotesElem),
    portrait_url |-> Nullable(String)])

progression ==
  Object({"total_character_level", "proficiency_bonus"}, [
    total_character_level |-> Within(1..20, Integer),
    experience_points |-> Within(Nat, Nullable(Integer)),
    advancement_mode |-> Enum({"xp", "milestone"}),
    proficiency_bonus |-> Within(2..6, Integer), epic_boon_taken |-> Boolean])

\* origin.schema.json

speciesTrait ==
  Object({"trait_id", "name"}, [
    trait_id |-> String, name |-> String, text_snapshot |-> String,
    range_ft |-> Nullable(Integer), player_choice |-> Nullable(String)])

speciesSubChoice ==
  Nullable(Object({}, [
    kind |-> Enum({"lineage", "legacy", "ancestry", "other"}),
    label |-> String, value |-> String]))

speciesSize ==
  Enum({
    "Tiny", "Small", "Medium", "Large", "Huge", "Gargantuan"})

species ==
  Object({
      "instance_id", "name", "creature_type", "size", "base_walking_speed"}, [
    instance_id |-> String, name |-> String,
    parent_species |-> Nullable(String), sub_choice |-> speciesSubChoice,
    creature_type |-> String, size |-> speciesSize,
    size_options |-> Array(String),
    base_walking_speed |-> Within(Nat, Integer),
    traits |-> Array(speciesTrait), granted_spell_refs |-> Array(String),
    source_ref |-> sourceRef])

backgroundOriginFeat ==
  Nullable(Object({}, [
    feat_instance_id |-> String, name |-> String]))

background ==
  Object({"instance_id", "name"}, [
    instance_id |-> String, name |-> String,
    ability_scores_offered |-> Sized(0..3, Array(abilityName)),
    origin_feat |-> backgroundOriginFeat,
    skill_proficiencies_granted |-> Array(String),
    tool_proficiency_granted |-> Nullable(String),
    starting_equipment_choice |-> Enum({"package", "gold"}),
    starting_equipment_package |-> Array(String),
    starting_gold_alternative_gp |-> Nullable(Number), is_custom |-> Boolean,
    custom_definition |-> Nullable(AnyObject), source_ref |-> sourceRef])

\* classes.schema.json

classEntrySubclass ==
  Nullable(Object({}, [
    name |-> String, chosen_at_level |-> Integer, source_ref |-> sourceRef]))

classEntryWeaponMasteryKnownElem ==
  Object({"weapon_name", "mastery_property"}, [
    weapon_name |-> String, mastery_property |-> masteryProperty])

classEntryWeaponMastery ==
  Nullable(Object({}, [
    max_known |-> Within(Nat, Integer),
    swap_cadence |-> Enum({"long_rest", "level_up", "never"}),
    known |-> Array(classEntryWeaponMasteryKnownElem),
    last_swapped_at |-> Nullable(Timestamp)]))

classEntry ==
  Object({"instance_id", "class_name", "class_level", "hit_die"}, [
    instance_id |-> String, class_name |-> String,
    class_level |-> Within(1..20, Integer), is_starting_class |-> Boolean,
    hit_die |-> Enum({"d6", "d8", "d10", "d12"}),
    subclass |-> classEntrySubclass,
    saving_throw_proficiencies |-> Array(abilityName),
    primary_abilities |-> Array(abilityName),
    fighting_style_feat |-> Nullable(AnyObject),
    weapon_mastery |-> classEntryWeaponMastery,
    spellcasting_ref |-> Nullable(String)])

\* features.schema.json

featureOriginKind ==
  Enum({
    "class", "subclass", "species", "background", "feat", "item", "other"})

featureOrigin ==
  Object({}, [
    kind |-> featureOriginKind, ref |-> Nullable(String),
    level_gained |-> Nullable(Integer)])

featureActivationType ==
  Enum({
    "none", "action", "bonus_action", "reaction", "magic_action", "minutes",
    "hours", "passive"})

featureActivation ==
  Object({}, [
    type |-> featureActivationType, value |-> Nullable(Integer)])

feature ==
  Object({"instance_id", "name", "origin"}, [
    instance_id |-> String, name |-> String, origin |-> featureOrigin,
    text_snapshot |-> String, activation |-> featureActivation,
    linked_resource_id |-> Nullable(String), source_ref |-> sourceRef])

featAbilityIncrease ==
  Nullable(Object({}, [
    ability |-> abilityName, amount |-> Within(Positive, Integer)]))

feat ==
  Object({"instance_id", "name", "category"}, [
    instance_id |-> String, name |-> String,
    category |-> Enum({"origin", "general", "fighting_style", "epic_boon"}),
    repeatable |-> Boolean, times_taken |-> Within(Positive, Integer),
    acquired_at_level |-> Within(Positive, Integer),
    acquired_via |-> Enum({
        "background", "asi_slot", "class_feature", "epic_boon_slot", "other"}),
    ability_increase |-> featAbilityIncrease,
    prerequisite_snapshot |-> Nullable(String), text_snapshot |-> String,
    linked_resource_id |-> Nullable(String), source_ref |-> sourceRef])

proficienciesToolsElem ==
  Object({}, [
    name |-> String, source |-> String, expertise |-> Boolean])

proficienciesSkillsElem ==
  Object({"skill", "ability", "proficient", "total_bonus"}, [
    skill |-> String, ability |-> abilityName, proficient |-> Boolean,
    expertise |-> Boolean, misc_bonus |-> Integer, total_bonus |-> Integer,
    sources |-> Array(String)])

proficiencies ==
  Object({}, [
    armor |-> Array(String), weapons |-> Array(String),
    tools |-> Array(proficienciesToolsElem), languages |-> Array(String),
    skills |-> Array(proficienciesSkillsElem)])

\* vitals.schema.json

conditionInstanceName ==
  Enum({
    "Blinded", "Charmed", "Deafened", "Exhaustion", "Frightened", "Grappled",
    "Incapacitated", "Invisible", "Paralyzed", "Petrified", "Poisoned",
    "Prone", "Restrained", "Stunned", "Unconscious"})

conditionInstance ==
  Conditional({
      If("name", "Exhaustion", {"level"},
         [level |-> Integer],
         [level |-> Nothing])},
  Object({"instance_id", "name"}, [
    instance_id |-> String, name |-> conditionInstanceName,
    level |-> Within(1..6, Nullable(Integer)), source |-> Nullable(String),
    duration |-> Nullable(AnyObject), applied_at |-> Nullable(Timestamp),
    effect_snapshot |-> Nullable(String)]))

vitalsHitPoints ==
  Object({"maximum", "current"}, [
    maximum |-> Within(Nat, Integer), current |-> Integer,
    temporary |-> Within(Nat, Integer), maximum_modifier |-> Integer,
    hp_roll_mode |-> Enum({"average", "rolled", "manual"})])

vitalsHitDicePoolsElem ==
  Object({}, [
    die |-> Enum({"d6", "d8", "d10", "d12"}), class_ref |-> String,
    total |-> Integer, remaining |-> Integer])

vitalsDeathSaves ==
  Object({}, [
    successes |-> Within(0..3, Integer), failures |-> Within(0..3, Integer),
    stabilized |-> Boolean])

vitalsDefenses ==
  Object({}, [
    resistances |-> Array(String), immunities |-> Array(String),
    vulnerabilities |-> Array(String), condition_immunities |-> Array(String)])

vitals ==
  Object({"hit_points"}, [
    hit_points |-> vitalsHitPoints,
    hit_dice_pools |-> Array(vitalsHitDicePoolsElem),
    death_saves |-> vitalsDeathSaves, heroic_inspiration |-> Boolean,
    conditions |-> Array(conditionInstance), defenses |-> vitalsDefenses])

\* combat.schema.json

combatArmorClassBreakdownElem ==
  Object({}, [
    label |-> String, value |-> Integer])

combatArmorClass ==
  Object({}, [
    total |-> Integer, calculation |-> String,
    breakdown |-> Array(combatArmorClassBreakdownElem),
    override |-> Nullable(Integer)])

combatSpeeds ==
  Object({}, [
    walk |-> Integer, fly |-> Integer, swim |-> Integer, climb |-> Integer,
    burrow |-> Integer, notes |-> Nullable(String)])

combatAttunement ==
  Object({}, [
    slots_maximum |-> Integer, slots_used |-> Within(Nat, Integer)])

combatCarrying ==
  Object({}, [
    capacity_lb |-> Number, push_drag_lift_lb |-> Number,
    encumbrance_variant_enabled |-> Boolean, current_weight_lb |-> Number])

combat ==
  Object({}, [
    armor_class |-> combatArmorClass, initiative |-> AnyObject,
    speeds |-> combatSpeeds, size |-> String, creature_type |-> String,
    senses |-> AnyObject, attunement |-> combatAttunement,
    carrying |-> combatCarrying])

resourceRecharge ==
  Enum({
    "short_rest", "long_rest", "dawn", "dusk", "turn", "round", "never",
    "custom"})

resource ==
  Object({"resource_id", "name", "maximum", "current"}, [
    resource_id |-> String, name |-> String, maximum |-> Integer,
    current |-> Integer, recharge |-> resourceRecharge,
    recharge_custom |-> String, source_feature |-> Nullable(String)])

restState ==
  Object({}, [
    last_short_rest_at |-> Nullable(Timestamp),
    last_long_rest_at |-> Nullable(Timestamp),
    last_dawn_at |-> Nullable(Timestamp),
    pending_long_rest_choices |-> Array(String)])

\* spellcasting.schema.json

spellcastingSourceSourceKind ==
  Enum({
    "class", "subclass", "species_lineage", "feat", "item", "other"})

spellcastingSourcePreparationSwapRule ==
  Nullable(Object({}, [
    cadence |-> Enum({"long_rest", "short_rest", "level_up", "never"}),
    spells_per_swap |-> Nullable(Integer), unlimited |-> Boolean]))

spellcastingSourcePreparation ==
  Object({}, [
    uses_prepared_spells |-> Boolean,
    prepared_maximum |-> Within(Nat, Integer),
    prepared_current_count |-> Within(Nat, Integer),
    prepares_from |-> Enum({"class_list", "spellbook", "granted", "custom"}),
    swap_rule |-> spellcastingSourcePreparationSwapRule,
    can_swap_cantrips |-> Boolean, cantrips_known |-> Within(Nat, Integer)])

spellcastingSourceRitualCasting ==
  Object({}, [
    enabled |-> Boolean, requires_prepared |-> Boolean,
    notes |-> Nullable(String)])

spellcastingSource ==
  Object({"source_id", "source_kind", "source_name"}, [
    source_id |-> String, source_kind |-> spellcastingSourceSourceKind,
    source_name |-> String, class_ref |-> Nullable(String),
    spellcasting_ability |-> abilityName,
    spellcasting_ability_was_player_chosen |-> Boolean,
    spell_save_dc |-> Integer, spell_attack_bonus |-> Integer,
    caster_progression |-> Enum({"full", "half", "third", "pact", "none"}),
    spell_list_name |-> Nullable(String),
    preparation |-> spellcastingSourcePreparation,
    ritual_casting |-> spellcastingSourceRitualCasting])

slotPoolSlotsLevel ==
  Object({}, [
    maximum |-> Within(Nat, Integer), expended |-> Within(Nat, Integer)])

slotPoolSlots == Keyed(SlotLevel, slotPoolSlotsLevel)

slotPool ==
  Object({"pool_id", "recharge_trigger", "slots"}, [
    pool_id |-> String, pool_name |-> String,
    recharge_trigger |-> Enum({"long_rest", "short_rest", "dawn", "custom"}),
    contributing_sources |-> Array(String),
    pact_slot_level |-> Nullable(Integer), slots |-> slotPoolSlots])

spellEntryPreparationOrigin ==
  Enum({
    "prepared_from_list", "always_prepared_feature", "granted_species",
    "granted_feat", "granted_item", "in_spellbook_unprepared", "innate"})

spellEntryPreparationFreeCasts ==
  Nullable(Object({}, [
    maximum |-> Integer, remaining |-> Integer,
    recharge |-> Enum({"long_rest", "short_rest", "dawn"}),
    cast_at_level |-> Integer]))

spellEntryPreparation ==
  Object({}, [
    origin |-> spellEntryPreparationOrigin,
    origin_detail |-> Nullable(String), is_prepared |-> Boolean,
    counts_against_prepared_maximum |-> Boolean,
    may_also_cast_with_slots |-> Boolean,
    free_casts |-> spellEntryPreparationFreeCasts])

spellEntrySchool ==
  Enum({
    "Abjuration", "Conjuration", "Divination", "Enchantment", "Evocation",
    "Illusion", "Necromancy", "Transmutation"})

spellEntryCastingTimeActionType ==
  Enum({
    "action", "bonus_action", "reaction", "magic_action", "minutes", "hours"})

spellEntryCastingTime ==
  Object({}, [
    action_type |-> spellEntryCastingTimeActionType, value |-> Integer,
    unit |-> String, is_ritual |-> Boolean,
    reaction_trigger |-> Nullable(String)])

spellEntryAreaOfEffectShape ==
  Enum({
    "cone", "cube", "cylinder", "emanation", "line", "sphere"})

spellEntryAreaOfEffect ==
  Nullable(Object({}, [
    shape |-> spellEntryAreaOfEffectShape, size_ft |-> Number]))

spellEntryComponents ==
  Object({}, [
    verbal |-> Boolean, somatic |-> Boolean, material |-> Boolean,
    material_text |-> Nullable(String), material_cost_gp |-> Number,
    material_consumed |-> Boolean])

spellEntryDuration ==
  Object({}, [
    kind |-> Enum({
        "instantaneous", "timed", "until_dispelled", "special",
        "concentration"}),
    value |-> Nullable(Integer), unit |-> Nullable(String),
    concentration |-> Boolean])

spellEntry ==
  Object({"entry_id", "spell_name", "level", "preparation"}, [
    entry_id |-> String, spell_name |-> String, source_id |-> String,
    preparation |-> spellEntryPreparation, level |-> Within(0..9, Integer),
    school |-> spellEntrySchool, casting_time |-> spellEntryCastingTime,
    range |-> AnyObject, area_of_effect |-> spellEntryAreaOfEffect,
    components |-> spellEntryComponents, duration |-> spellEntryDuration,
    attack_or_save |-> AnyObject, damage |-> Array(AnyObject),
    healing |-> Nullable(AnyObject), upcast |-> AnyObject,
    description_snapshot |-> String, source_ref |-> sourceRef])

spellcastingSpellbook ==
  Object({}, [
    has_spellbook |-> Boolean,
    container_item_instance_id |-> Nullable(String), spells |-> Array(String)])

spellcastingConcentration ==
  Object({}, [
    is_concentrating |-> Boolean, spell_entry_id |-> Nullable(String),
    started_at |-> Nullable(Timestamp),
    ends_at_estimate |-> Nullable(Timestamp), target_note |-> Nullable(String)])

spellcasting ==
  Object({}, [
    sources |-> Array(spellcastingSource), slot_pools |-> Array(slotPool),
    pact_magic |-> Nullable(AnyObject), spellbook |-> spellcastingSpellbook,
    spells |-> Array(spellEntry), concentration |-> spellcastingConcentration,
    pending_swaps |-> Array(AnyObject)])

\* inventory.schema.json

container ==
  Object({"container_instance_id", "name"}, [
    container_instance_id |-> String, name |-> String,
    container_kind |-> String, parent_container_id |-> Nullable(String),
    capacity_lb |-> Nullable(Number), capacity_cubic_ft |-> Nullable(Number),
    own_weight_lb |-> Number, contents_are_weightless_to_carrier |-> Boolean,
    is_extradimensional |-> Boolean,
    overload_behavior_snapshot |-> Nullable(String)])

inventoryEntryEquipped ==
  Object({}, [
    is_equipped |-> Boolean, slot |-> Nullable(String),
    hands_used |-> Within(0..2, Integer), is_attuned |-> Boolean,
    is_wielded_for_mastery |-> Boolean])

inventoryEntry ==
  Object({"entry_id", "item_instance_id", "quantity", "storage_location"}, [
    entry_id |-> String, item_instance_id |-> String,
    item_name_cache |-> String, quantity |-> Within(Nat, Integer),
    quantity_expended_this_session |-> Integer,
    quantity_recoverable |-> Integer, weight_lb_total |-> Number,
    storage_location |-> Enum({
        "carried", "stowed_elsewhere", "party_shared", "lost", "consumed"}),
    parent_container_id |-> Nullable(String),
    location_path_cache |-> Array(String),
    equipped |-> inventoryEntryEquipped, sort_order |-> Integer,
    is_favorite |-> Boolean, added_at |-> Timestamp])

inventorySummary ==
  Object({}, [
    total_weight_lb |-> Number, carried_weight_lb |-> Number,
    coin_weight_lb |-> Number, carrying_capacity_lb |-> Number,
    push_drag_lift_lb |-> Number, encumbrance_variant_enabled |-> Boolean,
    encumbrance_tier |-> Enum({
        "unencumbered", "encumbered", "heavily_encumbered", "over_capacity"}),
    attunement_slots_maximum |-> Integer, attunement_slots_used |-> Integer,
    computed_at |-> Timestamp])

inventory ==
  Object({}, [
    summary |-> inventorySummary, containers |-> Array(container),
    entries |-> Array(inventoryEntry), equipment_slots |-> AnyObject,
    transaction_log |-> Array(AnyObject)])

\* currency.schema.json

currencyCoins ==
  Object({"cp", "sp", "ep", "gp", "pp"}, [
    cp |-> Within(Nat, Integer), sp |-> Within(Nat, Integer),
    ep |-> Within(Nat, Integer), gp |-> Within(Nat, Integer),
    pp |-> Within(Nat, Integer)])

currencyDerived ==
  Object({}, [
    total_value_gp |-> Number, total_value_cp |-> Integer,
    conversion_table_used |-> AnyObject,
    electrum_enabled_at_table |-> Boolean, computed_at |-> Timestamp])

currencyValuablesElem ==
  Object({"valuable_id", "name", "category"}, [
    valuable_id |-> String, name |-> String,
    category |-> Enum({
        "gemstone", "art_object", "trade_bar", "trade_good", "other"}),
    quantity |-> Integer, estimated_value_gp |-> Number,
    appraised |-> Boolean, appraised_by |-> Nullable(String),
    weight_lb_total |-> Number, inventory_entry_id |-> Nullable(String),
    is_sold |-> Boolean, notes |-> Nullable(String)])

currencyPartyTreasuryRef ==
  Nullable(Object({}, [
    party_treasury_id |-> String, snapshot |-> AnyObject,
    is_authoritative |-> Constant(Bool(FALSE))]))

currency ==
  Object({}, [
    coins |-> currencyCoins, coin_count_total |-> Integer,
    coin_weight_lb |-> Number, derived |-> currencyDerived,
    valuables |-> Array(currencyValuablesElem), starting_wealth |-> AnyObject,
    party_treasury_ref |-> currencyPartyTreasuryRef,
    recurring_expenses |-> Array(AnyObject), ledger |-> Array(AnyObject)])

\* reputation.schema.json

reputationGroupDowntimeProgress ==
  Object({}, [
    enabled |-> Boolean, days_accumulated |-> Within(Nat, Integer),
    days_required |-> Within(Nat, Integer), formula_snapshot |-> String,
    resets_on_score_increase |-> Boolean, last_updated |-> Nullable(Timestamp)])

reputationGroupLedgerElemKind ==
  Enum({
    "gain", "loss", "rank_change", "perk_granted", "perk_revoked", "note"})

reputationGroupLedgerElemReasonCategory ==
  Enum({
    "advanced_interests", "assigned_mission", "significant_quest", "downtime",
    "offense", "other"})

reputationGroupLedgerElem ==
  Object({"event_id", "kind", "delta"}, [
    event_id |-> String, at |-> Timestamp,
    session_number |-> Nullable(Integer),
    kind |-> reputationGroupLedgerElemKind, delta |-> Integer,
    score_after |-> Within(Nat, Integer),
    reason_category |-> reputationGroupLedgerElemReasonCategory,
    reason |-> String, awarded_by |-> Nullable(String),
    linked_currency_ledger_seq |-> Nullable(Integer)])

reputationGroup ==
  Object({"group_id", "group_name", "tracking_mode"}, [
    group_id |-> String, group_name |-> String,
    group_kind |-> Enum({
        "faction", "guild", "organization", "community", "other"}),
    is_member |-> Boolean, joined_at |-> Nullable(Timestamp),
    tracking_mode |-> Enum({"score", "level_based", "narrative"}),
    renown_score |-> Within(Nat, Nullable(Integer)),
    renown_score_minimum |-> Constant(Whole(0)),
    renown_score_maximum |-> Nullable(Integer),
    is_party_shared_score |-> Boolean,
    party_renown_score |-> Nullable(Integer),
    level_based_equivalent |-> Nullable(AnyObject),
    rank |-> Nullable(AnyObject),
    default_attitude |-> Enum({"hostile", "indifferent", "friendly"}),
    recognition_achieved |-> Boolean, perks_granted |-> Array(AnyObject),
    downtime_progress |-> reputationGroupDowntimeProgress,
    contacts |-> Array(AnyObject), notes |-> Nullable(String),
    ledger |-> Array(reputationGroupLedgerElem)])

reputation ==
  Object({}, [
    mode_default |-> Enum({"score", "level_based", "narrative"}),
    groups |-> Array(reputationGroup),
    individual_standing |-> Array(AnyObject),
    marks_of_prestige |-> Array(AnyObject),
    alternate_tracks |-> Array(AnyObject)])

\* build-log.schema.json

buildLogEntryDecision ==
  Enum({
    "species_selected", "species_subchoice_selected", "background_selected",
    "class_selected", "subclass_selected", "asi_slot_spent", "feat_taken",
    "fighting_style_selected", "weapon_mastery_selected",
    "weapon_mastery_swapped", "spell_prepared", "spell_swapped",
    "cantrip_swapped", "epic_boon_taken", "level_gained", "respec", "other"})

buildLogEntry ==
  Object({"seq", "decision"}, [
    seq |-> Integer, at |-> Timestamp, level |-> Nullable(Integer),
    decision |-> buildLogEntryDecision, payload |-> AnyObject])

\* character.schema.json

characterSchema ==
  Object({
      "doc_type", "schema_version", "ruleset", "identity", "progression",
      "abilities", "species", "background", "classes", "vitals", "combat"}, [
    _id |-> String, doc_type |-> Constant(Str("character")),
    schema_version |-> Matching({"1.0.0"}), ruleset |-> ruleset,
    campaign_id |-> Nullable(String), owner_user_id |-> String,
    created_at |-> Timestamp, updated_at |-> Timestamp,
    doc_revision |-> Within(Nat, Integer), identity |-> identity,
    progression |-> progression, abilities |-> abilities,
    ability_allocation |-> abilityAllocation, species |-> species,
    background |-> background, classes |-> Sized(Positive, Array(classEntry)),
    features |-> Array(feature), feats |-> Array(feat),
    proficiencies |-> proficiencies, vitals |-> vitals, combat |-> combat,
    resources |-> Array(resource), rest_state |-> restState,
    spellcasting |-> spellcasting, inventory |-> inventory,
    currency |-> currency, reputation |-> reputation,
    build_log |-> Array(buildLogEntry)])
=============================================================================
