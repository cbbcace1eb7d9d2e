----------------------------- MODULE MCMigrations -----------------------------
(***************************************************************************)
(* Instances of Migrations for TLC: the program's scripts on the databases *)
(* it may find.                                                            *)
(***************************************************************************)
EXTENDS Migrations, MigrationScript

CONSTANTS i1, i2

\* A new database, and old ones whose tables have no or one row.
Upgradable == {Fresh, Legacy(0), Legacy(1)}

\* An old database in use.
InUse == {Legacy(2)}
===============================================================================
