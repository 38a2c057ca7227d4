------------------------- MODULE MCSqliteCharacters -------------------------
(***************************************************************************)
(* A small instance of SqliteCharacters: the callers p1 and p2.            *)
(***************************************************************************)
EXTENDS SqliteCharacters

CONSTANTS p1, p2
=============================================================================
