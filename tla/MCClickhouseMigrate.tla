------------------------- MODULE MCClickhouseMigrate -------------------------
(***************************************************************************)
(* ClickhouseMigrate with the repository's three migration files: two, one *)
(* and two statements.                                                     *)
(***************************************************************************)
EXTENDS ClickhouseMigrate

MCStatements == [v \in 1..Latest |-> IF v = 2 THEN 1 ELSE 2]
=============================================================================
