---------------------------- MODULE MCSqlitePool ----------------------------
(***************************************************************************)
(* Small instances of SqlitePool.                                          *)
(***************************************************************************)
EXTENDS SqlitePool

CONSTANTS d1, d2, c1, c2

Fields(memory, maxOpen, autoMigrate) ==
    [memory |-> memory, maxOpen |-> maxOpen, autoMigrate |-> autoMigrate]

\* NewDB's fields.
Default == Fields(TRUE, 0, TRUE)

\* What an application may set: a file, and a schema of its own.
Other == Fields(FALSE, 1, FALSE)

AllConfigs == {[d \in Db |-> Default], [d \in Db |-> IF d = d1 THEN Default ELSE Other]}
=============================================================================
