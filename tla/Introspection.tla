---------------------------- MODULE Introspection ----------------------------
(***************************************************************************)
(* What the comparator knows of the two schemas: schema.introspect over    *)
(* the catalogue of each database, and what cli.main derives from the two. *)
(*                                                                         *)
(* A catalogue is a record of the columns of every relation, the set of    *)
(* the relations that are base tables, and the [table, col] that are       *)
(* GENERATED ALWAYS and that have a type in NUMERIC_TYPES.  The primary    *)
(* and the declared foreign keys introspect also collects serve nothing.   *)
(***************************************************************************)
EXTENDS Registries

DB == {1, 2}

(* Slip: views are kept. *)
IntrospectAll(catalog) == catalog.columns

Introspect(catalog) ==
  [t \in DOMAIN catalog.columns \cap catalog.base |-> catalog.columns[t]]

(***************************************************************************)
(* The columns and tables both have, and the tables only d has.            *)
(***************************************************************************)
CommonColumns(catalogs, t) ==
  LET schema(d) == Introspect(catalogs[d])
  IN  IF \A d \in DB : t \in DOMAIN schema(d) THEN schema(1)[t] \cap schema(2)[t] ELSE {}

CommonTables(catalogs) == DOMAIN Introspect(catalogs[1]) \cap DOMAIN Introspect(catalogs[2])

OnlyInDb(catalogs, d) == DOMAIN Introspect(catalogs[d]) \ CommonTables(catalogs)

(***************************************************************************)
(* The columns of a table that only one schema has.                        *)
(***************************************************************************)
ExtraColumns(catalogs, t) ==
  UNION {Introspect(catalogs[d])[t] \ CommonColumns(catalogs, t) : d \in DB}

(***************************************************************************)
(* db-sync 13.7.2.1 made the table epoch a view on the new table           *)
(* epoch_finalized.  main prints a note when only one database has that.   *)
(***************************************************************************)
EpochNote(catalogs) ==
  \E d \in DB : "epoch_finalized" \in OnlyInDb(catalogs, d)
=============================================================================
