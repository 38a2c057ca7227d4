---------------------------- MODULE MCSheetGates ----------------------------
(***************************************************************************)
(* Every part of the sheet, each written once from its sparsest and from   *)
(* its fullest sample; the parts with rules across members, twice.         *)
(***************************************************************************)
EXTENDS SheetGates

AllParts == DOMAIN Part

TwiceWritten == {"SourceRef", "ConditionInstance", "SlotPool", "Progression",
                 "CombatAttunement"}

OwnedKeys == {"_id", "doc_type", "schema_version", "created_at", "updated_at",
              "doc_revision", "owner_user_id"}
=============================================================================
