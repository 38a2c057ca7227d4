------------------------------ MODULE SheetTypes ------------------------------
(***************************************************************************)
(* The wire types of internal/dto/v1alpha/character/character.gen.go, by   *)
(* their own names, with fields under their JSON keys.  Where a type's     *)
(* declaration and its UnmarshalJSON lie far apart, TFields is the first   *)
(* and T the second; a named scalar, map or slice is written in place.     *)
(***************************************************************************)
EXTENDS GoDecode

AbilityScoreBaseSource ==
  GoTexts({
    "standard_array", "point_buy", "rolled", "custom"})

AbilityScoreFeatIncreasesElem ==
  Struct([
    amount |-> Ptr(GoInt), feat_instance_id |-> Ptr(GoString),
    feat_name |-> Ptr(GoString)])

AbilityScoreMaximumAllowed == GoEnum({Whole(20), Whole(30)})

AbilityScoreFields ==
  Struct([
    background_increase |-> Ptr(GoInt), base_score |-> GoInt,
    base_source |-> Ptr(AbilityScoreBaseSource),
    feat_increases |-> Slice(AbilityScoreFeatIncreasesElem),
    maximum_allowed |-> AbilityScoreMaximumAllowed, modifier |-> GoInt,
    other_increases |-> Slice(GoMap), override_score |-> Ptr(GoInt),
    override_source |-> Ptr(GoString), save_bonus_total |-> Ptr(GoInt),
    save_misc_bonus |-> Ptr(GoInt), save_proficient |-> Ptr(GoBool),
    total_score |-> GoInt])

AbilityScore ==
  Require({"base_score", "maximum_allowed", "modifier", "total_score"},
  Bound([
      background_increase |-> 0..2, base_score |-> Positive,
      total_score |-> 1..30],
  AbilityScoreFields))

Abilities ==
  Require({
      "charisma", "constitution", "dexterity", "intelligence", "strength",
      "wisdom"},
  Struct([
    charisma |-> AbilityScore, constitution |-> AbilityScore,
    dexterity |-> AbilityScore, intelligence |-> AbilityScore,
    strength |-> AbilityScore, wisdom |-> AbilityScore]))

AbilityName ==
  GoTexts({
    "strength", "dexterity", "constitution", "intelligence", "wisdom",
    "charisma"})

AbilityAllocationBackgroundAllocationAllocationsElem ==
  Require({"ability", "amount"},
  Bound([amount |-> 1..2],
  Struct([
    ability |-> AbilityName, amount |-> GoInt])))

AbilityAllocationBackgroundAllocation ==
  Require({"allocations", "pattern"},
  Bound([allocations |-> 2..3, eligible_abilities |-> 0..3],
  Struct([
    allocations |-> Slice(AbilityAllocationBackgroundAllocationAllocationsElem),
    eligible_abilities |-> Slice(AbilityName),
    pattern |-> GoTexts({"2_and_1", "1_1_1"})])))

AbilityAllocationGenerationMethod ==
  GoTexts({
    "standard_array", "point_buy", "rolled", "custom"})

AbilityAllocation ==
  Struct([
    background_allocation |-> Ptr(AbilityAllocationBackgroundAllocation),
    generation_method |-> Ptr(AbilityAllocationGenerationMethod),
    point_buy_spend |-> Ptr(GoMap), rolled_values |-> Ptr(Slice(GoInt)),
    standard_array_assignment |-> Ptr(GoMap)])

BackgroundOriginFeat ==
  Struct([
    feat_instance_id |-> Ptr(GoString), name |-> Ptr(GoString)])

ContentOrigin ==
  GoTexts({
    "user_authored", "srd", "licensed", "imported_unknown"})

SourceRef ==
  Require({"attribution_required", "content_origin"},
  Struct([
    attribution_required |-> GoBool, authored_by_user_id |-> Ptr(GoString),
    book |-> Ptr(GoString), catalog_id |-> Ptr(GoString),
    content_origin |-> ContentOrigin, is_homebrew |-> Ptr(GoBool),
    page |-> Ptr(GoInt), snapshot_version |-> Ptr(GoString),
    srd_licensed |-> Ptr(GoBool)]))

Background ==
  Require({"instance_id", "name"},
  Bound([ability_scores_offered |-> 0..3],
  Struct([
    ability_scores_offered |-> Slice(AbilityName),
    custom_definition |-> Ptr(GoMap), instance_id |-> GoString,
    is_custom |-> Ptr(GoBool), name |-> GoString,
    origin_feat |-> Ptr(BackgroundOriginFeat),
    skill_proficiencies_granted |-> Slice(GoString),
    source_ref |-> Ptr(SourceRef),
    starting_equipment_choice |-> Ptr(GoTexts({"package", "gold"})),
    starting_equipment_package |-> Slice(GoString),
    starting_gold_alternative_gp |-> Ptr(GoFloat),
    tool_proficiency_granted |-> Ptr(GoString)])))

BuildLogEntry ==
  Require({"decision", "seq"},
  Struct([
    at |-> Ptr(GoTime),
    decision |-> GoTexts({
        "species_selected", "species_subchoice_selected",
        "background_selected", "class_selected", "subclass_selected",
        "asi_slot_spent", "feat_taken", "fighting_style_selected",
        "weapon_mastery_selected", "weapon_mastery_swapped", "spell_prepared",
        "spell_swapped", "cantrip_swapped", "epic_boon_taken", "level_gained",
        "respec", "other"}),
    level |-> Ptr(GoInt), payload |-> GoMap, seq |-> GoInt]))

ClassEntryHitDie == GoTexts({"d6", "d8", "d10", "d12"})

ClassEntrySubclass ==
  Struct([
    chosen_at_level |-> Ptr(GoInt), name |-> Ptr(GoString),
    source_ref |-> Ptr(SourceRef)])

MasteryProperty ==
  GoTexts({
    "Cleave", "Graze", "Nick", "Push", "Sap", "Slow", "Topple", "Vex"})

ClassEntryWeaponMasteryKnownElem ==
  Require({"mastery_property", "weapon_name"},
  Struct([
    mastery_property |-> MasteryProperty, weapon_name |-> GoString]))

ClassEntryWeaponMastery ==
  Bound([max_known |-> Nat],
  Struct([
    known |-> Slice(ClassEntryWeaponMasteryKnownElem),
    last_swapped_at |-> Ptr(GoTime), max_known |-> Ptr(GoInt),
    swap_cadence |-> Ptr(GoTexts({"long_rest", "level_up", "never"}))]))

ClassEntryFields ==
  Struct([
    class_level |-> GoInt, class_name |-> GoString,
    fighting_style_feat |-> Ptr(GoMap), hit_die |-> ClassEntryHitDie,
    instance_id |-> GoString, is_starting_class |-> Ptr(GoBool),
    primary_abilities |-> Slice(AbilityName),
    saving_throw_proficiencies |-> Slice(AbilityName),
    spellcasting_ref |-> Ptr(GoString), subclass |-> Ptr(ClassEntrySubclass),
    weapon_mastery |-> Ptr(ClassEntryWeaponMastery)])

ClassEntry ==
  Require({"class_level", "class_name", "hit_die", "instance_id"},
  Bound([class_level |-> 1..20],
  ClassEntryFields))

CombatArmorClassBreakdownElem ==
  Struct([
    label |-> Ptr(GoString), value |-> Ptr(GoInt)])

CombatArmorClass ==
  Struct([
    breakdown |-> Slice(CombatArmorClassBreakdownElem),
    calculation |-> Ptr(GoString), override |-> Ptr(GoInt),
    total |-> Ptr(GoInt)])

CombatAttunement ==
  Bound([slots_used |-> Nat],
  Struct([
    slots_maximum |-> GoInt, slots_used |-> Ptr(GoInt)]))

CombatCarrying ==
  Struct([
    capacity_lb |-> Ptr(GoFloat), current_weight_lb |-> Ptr(GoFloat),
    encumbrance_variant_enabled |-> Ptr(GoBool),
    push_drag_lift_lb |-> Ptr(GoFloat)])

CombatSpeeds ==
  Struct([
    burrow |-> Ptr(GoInt), climb |-> Ptr(GoInt), fly |-> Ptr(GoInt),
    notes |-> Ptr(GoString), swim |-> Ptr(GoInt), walk |-> Ptr(GoInt)])

Combat ==
  Struct([
    armor_class |-> Ptr(CombatArmorClass),
    attunement |-> Ptr(CombatAttunement), carrying |-> Ptr(CombatCarrying),
    creature_type |-> Ptr(GoString), initiative |-> GoMap, senses |-> GoMap,
    size |-> Ptr(GoString), speeds |-> Ptr(CombatSpeeds)])

CurrencyCoins ==
  Require({"cp", "ep", "gp", "pp", "sp"},
  Bound([cp |-> Nat, ep |-> Nat, gp |-> Nat, pp |-> Nat, sp |-> Nat],
  Struct([
    cp |-> GoInt, ep |-> GoInt, gp |-> GoInt, pp |-> GoInt, sp |-> GoInt])))

CurrencyDerived ==
  Struct([
    computed_at |-> Ptr(GoTime), conversion_table_used |-> GoMap,
    electrum_enabled_at_table |-> Ptr(GoBool), total_value_cp |-> Ptr(GoInt),
    total_value_gp |-> Ptr(GoFloat)])

CurrencyPartyTreasuryRef ==
  Struct([
    is_authoritative |-> GoAny, party_treasury_id |-> Ptr(GoString),
    snapshot |-> GoMap])

CurrencyValuablesElem ==
  Require({"category", "name", "valuable_id"},
  Struct([
    appraised |-> Ptr(GoBool), appraised_by |-> Ptr(GoString),
    category |-> GoTexts({
        "gemstone", "art_object", "trade_bar", "trade_good", "other"}),
    estimated_value_gp |-> Ptr(GoFloat), inventory_entry_id |-> Ptr(GoString),
    is_sold |-> Ptr(GoBool), name |-> GoString, notes |-> Ptr(GoString),
    quantity |-> Ptr(GoInt), valuable_id |-> GoString,
    weight_lb_total |-> Ptr(GoFloat)]))

Currency ==
  Struct([
    coin_count_total |-> Ptr(GoInt), coin_weight_lb |-> Ptr(GoFloat),
    coins |-> Ptr(CurrencyCoins), derived |-> Ptr(CurrencyDerived),
    ledger |-> Slice(GoMap),
    party_treasury_ref |-> Ptr(CurrencyPartyTreasuryRef),
    recurring_expenses |-> Slice(GoMap), starting_wealth |-> GoMap,
    valuables |-> Slice(CurrencyValuablesElem)])

FeatAbilityIncrease ==
  Bound([amount |-> Positive],
  Struct([
    ability |-> Ptr(AbilityName), amount |-> Ptr(GoInt)]))

FeatAcquiredVia ==
  GoTexts({
    "background", "asi_slot", "class_feature", "epic_boon_slot", "other"})

FeatCategory == GoTexts({"origin", "general", "fighting_style", "epic_boon"})

FeatFields ==
  Struct([
    ability_increase |-> Ptr(FeatAbilityIncrease),
    acquired_at_level |-> Ptr(GoInt), acquired_via |-> Ptr(FeatAcquiredVia),
    category |-> FeatCategory, instance_id |-> GoString,
    linked_resource_id |-> Ptr(GoString), name |-> GoString,
    prerequisite_snapshot |-> Ptr(GoString), repeatable |-> Ptr(GoBool),
    source_ref |-> Ptr(SourceRef), text_snapshot |-> Ptr(GoString),
    times_taken |-> Ptr(GoInt)])

Feat ==
  Require({"category", "instance_id", "name"},
  Bound([acquired_at_level |-> Positive, times_taken |-> Positive],
  FeatFields))

FeatureActivation ==
  Struct([
    type |-> Ptr(GoTexts({
        "none", "action", "bonus_action", "reaction", "magic_action",
        "minutes", "hours", "passive"})),
    value |-> Ptr(GoInt)])

FeatureOrigin ==
  Struct([
    kind |-> Ptr(GoTexts({
        "class", "subclass", "species", "background", "feat", "item", "other"})),
    level_gained |-> Ptr(GoInt), ref |-> Ptr(GoString)])

FeatureFields ==
  Struct([
    activation |-> Ptr(FeatureActivation), instance_id |-> GoString,
    linked_resource_id |-> Ptr(GoString), name |-> GoString,
    origin |-> FeatureOrigin, source_ref |-> Ptr(SourceRef),
    text_snapshot |-> Ptr(GoString)])

Feature ==
  Require({"instance_id", "name", "origin"},
  FeatureFields)

IdentityRoleplayNotesElem ==
  Require({"label", "text"},
  Struct([
    label |-> GoString, text |-> GoString]))

Identity ==
  Require({"character_name"},
  Struct([
    age |-> Ptr(GoString), alignment |-> Ptr(GoString),
    appearance |-> Ptr(GoString), backstory |-> Ptr(GoString),
    character_name |-> GoString, faith |-> Ptr(GoString),
    height |-> Ptr(GoString), player_name |-> Ptr(GoString),
    portrait_url |-> Ptr(GoString), pronouns |-> Ptr(GoString),
    roleplay_notes |-> Slice(IdentityRoleplayNotesElem),
    weight |-> Ptr(GoString)]))

Container ==
  Require({"container_instance_id", "name"},
  Struct([
    capacity_cubic_ft |-> Ptr(GoFloat), capacity_lb |-> Ptr(GoFloat),
    container_instance_id |-> GoString, container_kind |-> Ptr(GoString),
    contents_are_weightless_to_carrier |-> Ptr(GoBool),
    is_extradimensional |-> Ptr(GoBool), name |-> GoString,
    overload_behavior_snapshot |-> Ptr(GoString),
    own_weight_lb |-> Ptr(GoFloat), parent_container_id |-> Ptr(GoString)]))

InventoryEntryEquipped ==
  Bound([hands_used |-> 0..2],
  Struct([
    hands_used |-> Ptr(GoInt), is_attuned |-> Ptr(GoBool),
    is_equipped |-> Ptr(GoBool), is_wielded_for_mastery |-> Ptr(GoBool),
    slot |-> Ptr(GoString)]))

InventoryEntry ==
  Require({"entry_id", "item_instance_id", "quantity", "storage_location"},
  Bound([quantity |-> Nat],
  Struct([
    added_at |-> Ptr(GoTime), entry_id |-> GoString,
    equipped |-> Ptr(InventoryEntryEquipped), is_favorite |-> Ptr(GoBool),
    item_instance_id |-> GoString, item_name_cache |-> Ptr(GoString),
    location_path_cache |-> Slice(GoString),
    parent_container_id |-> Ptr(GoString), quantity |-> GoInt,
    quantity_expended_this_session |-> Ptr(GoInt),
    quantity_recoverable |-> Ptr(GoInt), sort_order |-> Ptr(GoInt),
    storage_location |-> GoTexts({
        "carried", "stowed_elsewhere", "party_shared", "lost", "consumed"}),
    weight_lb_total |-> Ptr(GoFloat)])))

InventorySummary ==
  Struct([
    attunement_slots_maximum |-> Ptr(GoInt),
    attunement_slots_used |-> Ptr(GoInt), carried_weight_lb |-> Ptr(GoFloat),
    carrying_capacity_lb |-> Ptr(GoFloat), coin_weight_lb |-> Ptr(GoFloat),
    computed_at |-> Ptr(GoTime),
    encumbrance_tier |-> Ptr(GoTexts({
        "unencumbered", "encumbered", "heavily_encumbered", "over_capacity"})),
    encumbrance_variant_enabled |-> Ptr(GoBool),
    push_drag_lift_lb |-> Ptr(GoFloat), total_weight_lb |-> Ptr(GoFloat)])

Inventory ==
  Struct([
    containers |-> Slice(Container), entries |-> Slice(InventoryEntry),
    equipment_slots |-> GoMap, summary |-> Ptr(InventorySummary),
    transaction_log |-> Slice(GoMap)])

ProficienciesSkillsElem ==
  Require({"ability", "proficient", "skill", "total_bonus"},
  Struct([
    ability |-> AbilityName, expertise |-> Ptr(GoBool),
    misc_bonus |-> Ptr(GoInt), proficient |-> GoBool, skill |-> GoString,
    sources |-> Slice(GoString), total_bonus |-> GoInt]))

ProficienciesToolsElem ==
  Struct([
    expertise |-> Ptr(GoBool), name |-> Ptr(GoString),
    source |-> Ptr(GoString)])

Proficiencies ==
  Struct([
    armor |-> Slice(GoString), languages |-> Slice(GoString),
    skills |-> Slice(ProficienciesSkillsElem),
    tools |-> Slice(ProficienciesToolsElem), weapons |-> Slice(GoString)])

Progression ==
  Require({"proficiency_bonus", "total_character_level"},
  Bound([proficiency_bonus |-> 2..6, total_character_level |-> 1..20],
  Struct([
    advancement_mode |-> Ptr(GoTexts({"xp", "milestone"})),
    epic_boon_taken |-> Ptr(GoBool), experience_points |-> Ptr(GoInt),
    proficiency_bonus |-> GoInt, total_character_level |-> GoInt])))

ReputationGroupDefaultAttitude ==
  GoTexts({
    "hostile", "indifferent", "friendly"})

ReputationGroupDowntimeProgress ==
  Bound([days_accumulated |-> Nat, days_required |-> Nat],
  Struct([
    days_accumulated |-> Ptr(GoInt), days_required |-> Ptr(GoInt),
    enabled |-> Ptr(GoBool), formula_snapshot |-> Ptr(GoString),
    last_updated |-> Ptr(GoTime), resets_on_score_increase |-> Ptr(GoBool)]))

ReputationGroupGroupKind ==
  GoTexts({
    "faction", "guild", "organization", "community", "other"})

ReputationGroupLedgerElem ==
  Require({"delta", "event_id", "kind"},
  Bound([score_after |-> Nat],
  Struct([
    at |-> Ptr(GoTime), awarded_by |-> Ptr(GoString), delta |-> GoInt,
    event_id |-> GoString,
    kind |-> GoTexts({
        "gain", "loss", "rank_change", "perk_granted", "perk_revoked", "note"}),
    linked_currency_ledger_seq |-> Ptr(GoInt), reason |-> Ptr(GoString),
    reason_category |-> Ptr(GoTexts({
        "advanced_interests", "assigned_mission", "significant_quest",
        "downtime", "offense", "other"})),
    score_after |-> Ptr(GoInt), session_number |-> Ptr(GoInt)])))

ReputationGroupTrackingMode == GoTexts({"score", "level_based", "narrative"})

ReputationGroupFields ==
  Struct([
    contacts |-> Slice(GoMap),
    default_attitude |-> Ptr(ReputationGroupDefaultAttitude),
    downtime_progress |-> Ptr(ReputationGroupDowntimeProgress),
    group_id |-> GoString, group_kind |-> Ptr(ReputationGroupGroupKind),
    group_name |-> GoString, is_member |-> Ptr(GoBool),
    is_party_shared_score |-> Ptr(GoBool), joined_at |-> Ptr(GoTime),
    ledger |-> Slice(ReputationGroupLedgerElem),
    level_based_equivalent |-> Ptr(GoMap), notes |-> Ptr(GoString),
    party_renown_score |-> Ptr(GoInt), perks_granted |-> Slice(GoMap),
    rank |-> Ptr(GoMap), recognition_achieved |-> Ptr(GoBool),
    renown_score |-> Ptr(GoInt), renown_score_maximum |-> Ptr(GoInt),
    renown_score_minimum |-> GoAny,
    tracking_mode |-> ReputationGroupTrackingMode])

ReputationGroup ==
  Require({"group_id", "group_name", "tracking_mode"},
  ReputationGroupFields)

ReputationModeDefault == GoTexts({"score", "level_based", "narrative"})

Reputation ==
  Struct([
    alternate_tracks |-> Slice(GoMap), groups |-> Slice(ReputationGroup),
    individual_standing |-> Slice(GoMap), marks_of_prestige |-> Slice(GoMap),
    mode_default |-> Ptr(ReputationModeDefault)])

Resource ==
  Require({"current", "maximum", "name", "resource_id"},
  Struct([
    current |-> GoInt, maximum |-> GoInt, name |-> GoString,
    recharge |-> Ptr(GoTexts({
        "short_rest", "long_rest", "dawn", "dusk", "turn", "round", "never",
        "custom"})),
    recharge_custom |-> Ptr(GoString), resource_id |-> GoString,
    source_feature |-> Ptr(GoString)]))

RestState ==
  Struct([
    last_dawn_at |-> Ptr(GoTime), last_long_rest_at |-> Ptr(GoTime),
    last_short_rest_at |-> Ptr(GoTime),
    pending_long_rest_choices |-> Slice(GoString)])

Ruleset ==
  Require({"revision", "system"},
  Struct([
    revision |-> GoTexts({"srd@5.1", "srd@5.2.1"}),
    srd_baseline |-> Ptr(GoString), system |-> GoAny]))

SpeciesSize ==
  GoTexts({
    "Tiny", "Small", "Medium", "Large", "Huge", "Gargantuan"})

SpeciesSubChoice ==
  Struct([
    kind |-> Ptr(GoTexts({"lineage", "legacy", "ancestry", "other"})),
    label |-> Ptr(GoString), value |-> Ptr(GoString)])

SpeciesTrait ==
  Require({"name", "trait_id"},
  Struct([
    name |-> GoString, player_choice |-> Ptr(GoString),
    range_ft |-> Ptr(GoInt), text_snapshot |-> Ptr(GoString),
    trait_id |-> GoString]))

SpeciesFields ==
  Struct([
    base_walking_speed |-> GoInt, creature_type |-> GoString,
    granted_spell_refs |-> Slice(GoString), instance_id |-> GoString,
    name |-> GoString, parent_species |-> Ptr(GoString), size |-> SpeciesSize,
    size_options |-> Slice(GoString), source_ref |-> Ptr(SourceRef),
    sub_choice |-> Ptr(SpeciesSubChoice), traits |-> Slice(SpeciesTrait)])

Species ==
  Require({
      "base_walking_speed", "creature_type", "instance_id", "name", "size"},
  Bound([base_walking_speed |-> Nat],
  SpeciesFields))

SpellcastingConcentration ==
  Struct([
    ends_at_estimate |-> Ptr(GoTime), is_concentrating |-> Ptr(GoBool),
    spell_entry_id |-> Ptr(GoString), started_at |-> Ptr(GoTime),
    target_note |-> Ptr(GoString)])

SlotPool ==
  Require({"pool_id", "recharge_trigger", "slots"},
  Struct([
    contributing_sources |-> Slice(GoString), pact_slot_level |-> Ptr(GoInt),
    pool_id |-> GoString, pool_name |-> Ptr(GoString),
    recharge_trigger |-> GoTexts({
        "long_rest", "short_rest", "dawn", "custom"}),
    slots |-> GoMap]))

SpellcastingSourceCasterProgression ==
  GoTexts({
    "full", "half", "third", "pact", "none"})

SpellcastingSourcePreparationSwapRule ==
  Struct([
    cadence |-> Ptr(GoTexts({
        "long_rest", "short_rest", "level_up", "never"})),
    spells_per_swap |-> Ptr(GoInt), unlimited |-> Ptr(GoBool)])

SpellcastingSourcePreparation ==
  Bound([
      cantrips_known |-> Nat, prepared_current_count |-> Nat,
      prepared_maximum |-> Nat],
  Struct([
    can_swap_cantrips |-> Ptr(GoBool), cantrips_known |-> Ptr(GoInt),
    prepared_current_count |-> Ptr(GoInt), prepared_maximum |-> Ptr(GoInt),
    prepares_from |-> Ptr(GoTexts({
        "class_list", "spellbook", "granted", "custom"})),
    swap_rule |-> Ptr(SpellcastingSourcePreparationSwapRule),
    uses_prepared_spells |-> Ptr(GoBool)]))

SpellcastingSourceRitualCasting ==
  Struct([
    enabled |-> Ptr(GoBool), notes |-> Ptr(GoString),
    requires_prepared |-> Ptr(GoBool)])

SpellcastingSourceSourceKind ==
  GoTexts({
    "class", "subclass", "species_lineage", "feat", "item", "other"})

SpellcastingSourceFields ==
  Struct([
    caster_progression |-> Ptr(SpellcastingSourceCasterProgression),
    class_ref |-> Ptr(GoString),
    preparation |-> Ptr(SpellcastingSourcePreparation),
    ritual_casting |-> Ptr(SpellcastingSourceRitualCasting),
    source_id |-> GoString, source_kind |-> SpellcastingSourceSourceKind,
    source_name |-> GoString, spell_attack_bonus |-> Ptr(GoInt),
    spell_list_name |-> Ptr(GoString), spell_save_dc |-> Ptr(GoInt),
    spellcasting_ability |-> Ptr(AbilityName),
    spellcasting_ability_was_player_chosen |-> Ptr(GoBool)])

SpellcastingSource ==
  Require({"source_id", "source_kind", "source_name"},
  SpellcastingSourceFields)

SpellcastingSpellbook ==
  Struct([
    container_item_instance_id |-> Ptr(GoString),
    has_spellbook |-> Ptr(GoBool), spells |-> Slice(GoString)])

SpellEntryAreaOfEffect ==
  Struct([
    shape |-> Ptr(GoTexts({
        "cone", "cube", "cylinder", "emanation", "line", "sphere"})),
    size_ft |-> Ptr(GoFloat)])

SpellEntryCastingTime ==
  Struct([
    action_type |-> Ptr(GoTexts({
        "action", "bonus_action", "reaction", "magic_action", "minutes",
        "hours"})),
    is_ritual |-> Ptr(GoBool), reaction_trigger |-> Ptr(GoString),
    unit |-> Ptr(GoString), value |-> Ptr(GoInt)])

SpellEntryComponents ==
  Struct([
    material |-> Ptr(GoBool), material_consumed |-> Ptr(GoBool),
    material_cost_gp |-> Ptr(GoFloat), material_text |-> Ptr(GoString),
    somatic |-> Ptr(GoBool), verbal |-> Ptr(GoBool)])

SpellEntryDuration ==
  Struct([
    concentration |-> Ptr(GoBool),
    kind |-> Ptr(GoTexts({
        "instantaneous", "timed", "until_dispelled", "special",
        "concentration"})),
    unit |-> Ptr(GoString), value |-> Ptr(GoInt)])

SpellEntryPreparationFreeCasts ==
  Struct([
    cast_at_level |-> Ptr(GoInt), maximum |-> Ptr(GoInt),
    recharge |-> Ptr(GoTexts({"long_rest", "short_rest", "dawn"})),
    remaining |-> Ptr(GoInt)])


SpellEntryPreparationOrigin ==
  GoTexts({
    "prepared_from_list", "always_prepared_feature", "granted_species",
    "granted_feat", "granted_item", "in_spellbook_unprepared", "innate"})

SpellEntryPreparation ==
  Struct([
    counts_against_prepared_maximum |-> Ptr(GoBool),
    free_casts |-> Ptr(SpellEntryPreparationFreeCasts),
    is_prepared |-> Ptr(GoBool), may_also_cast_with_slots |-> Ptr(GoBool),
    origin |-> Ptr(SpellEntryPreparationOrigin),
    origin_detail |-> Ptr(GoString)])

SpellEntrySchool ==
  GoTexts({
    "Abjuration", "Conjuration", "Divination", "Enchantment", "Evocation",
    "Illusion", "Necromancy", "Transmutation"})

SpellEntryFields ==
  Struct([
    area_of_effect |-> Ptr(SpellEntryAreaOfEffect), attack_or_save |-> GoMap,
    casting_time |-> Ptr(SpellEntryCastingTime),
    components |-> Ptr(SpellEntryComponents), damage |-> Slice(GoMap),
    description_snapshot |-> Ptr(GoString),
    duration |-> Ptr(SpellEntryDuration), entry_id |-> GoString,
    healing |-> Ptr(GoMap), level |-> GoInt,
    preparation |-> SpellEntryPreparation, range |-> GoMap,
    school |-> Ptr(SpellEntrySchool), source_id |-> Ptr(GoString),
    source_ref |-> Ptr(SourceRef), spell_name |-> GoString, upcast |-> GoMap])

SpellEntry ==
  Require({"entry_id", "level", "preparation", "spell_name"},
  Bound([level |-> 0..9],
  SpellEntryFields))

Spellcasting ==
  Struct([
    concentration |-> Ptr(SpellcastingConcentration),
    pact_magic |-> Ptr(GoMap), pending_swaps |-> Slice(GoMap),
    slot_pools |-> Slice(SlotPool), sources |-> Slice(SpellcastingSource),
    spellbook |-> Ptr(SpellcastingSpellbook), spells |-> Slice(SpellEntry)])

ConditionInstance ==
  Require({"instance_id", "name"},
  Struct([
    applied_at |-> Ptr(GoTime), duration |-> Ptr(GoMap),
    effect_snapshot |-> Ptr(GoString), instance_id |-> GoString,
    level |-> Ptr(GoInt),
    name |-> GoTexts({
        "Blinded", "Charmed", "Deafened", "Exhaustion", "Frightened",
        "Grappled", "Incapacitated", "Invisible", "Paralyzed", "Petrified",
        "Poisoned", "Prone", "Restrained", "Stunned", "Unconscious"}),
    source |-> Ptr(GoString)]))

VitalsDeathSaves ==
  Bound([failures |-> 0..3, successes |-> 0..3],
  Struct([
    failures |-> Ptr(GoInt), stabilized |-> Ptr(GoBool),
    successes |-> Ptr(GoInt)]))

VitalsDefenses ==
  Struct([
    condition_immunities |-> Slice(GoString), immunities |-> Slice(GoString),
    resistances |-> Slice(GoString), vulnerabilities |-> Slice(GoString)])

VitalsHitDicePoolsElem ==
  Struct([
    class_ref |-> Ptr(GoString),
    die |-> Ptr(GoTexts({"d6", "d8", "d10", "d12"})),
    remaining |-> Ptr(GoInt), total |-> Ptr(GoInt)])

VitalsHitPoints ==
  Require({"current", "maximum"},
  Bound([maximum |-> Nat, temporary |-> Nat],
  Struct([
    current |-> GoInt,
    hp_roll_mode |-> Ptr(GoTexts({"average", "rolled", "manual"})),
    maximum |-> GoInt, maximum_modifier |-> Ptr(GoInt),
    temporary |-> Ptr(GoInt)])))

VitalsFields ==
  Struct([
    conditions |-> Slice(ConditionInstance),
    death_saves |-> Ptr(VitalsDeathSaves), defenses |-> Ptr(VitalsDefenses),
    heroic_inspiration |-> Ptr(GoBool),
    hit_dice_pools |-> Slice(VitalsHitDicePoolsElem),
    hit_points |-> VitalsHitPoints])

Vitals ==
  Require({"hit_points"},
  VitalsFields)

CharacterSchemaFields ==
  Struct([
    _id |-> Ptr(GoString), abilities |-> Abilities,
    ability_allocation |-> Ptr(AbilityAllocation), background |-> Background,
    build_log |-> Slice(BuildLogEntry), campaign_id |-> Ptr(GoString),
    classes |-> Slice(ClassEntry), combat |-> Combat,
    created_at |-> Ptr(GoTime), currency |-> Ptr(Currency),
    doc_revision |-> Ptr(GoInt), doc_type |-> GoAny, feats |-> Slice(Feat),
    features |-> Slice(Feature), identity |-> Identity,
    inventory |-> Ptr(Inventory), owner_user_id |-> Ptr(GoString),
    proficiencies |-> Ptr(Proficiencies), progression |-> Progression,
    reputation |-> Ptr(Reputation), resources |-> Slice(Resource),
    rest_state |-> Ptr(RestState), ruleset |-> Ruleset,
    schema_version |-> GoString, species |-> Species,
    spellcasting |-> Ptr(Spellcasting), updated_at |-> Ptr(GoTime),
    vitals |-> Vitals])

CharacterSchema ==
  Require({
      "abilities", "background", "classes", "combat", "doc_type", "identity",
      "progression", "ruleset", "schema_version", "species", "vitals"},
  Pattern("schema_version", {"1.0.0"},
  Bound([classes |-> Positive, doc_revision |-> Nat],
  CharacterSchemaFields)))
=============================================================================
