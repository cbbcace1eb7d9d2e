---------------------------- MODULE MigrationScript ----------------------------
(***************************************************************************)
(* The statements of the program's four migrations, in their order         *)
(* (migrations/migrations.go), and the databases it may find.  An item is  *)
(* a table, or a table and a column or index of it.                        *)
(***************************************************************************)
EXTENDS Sequences, SequencesExt

Of(kind, table, name) == [kind |-> kind, item |-> <<table, name>>, on |-> {}]

\* The statements of one kind on one table, in the order of the names.
Each(kind, table, names) == [n \in 1 .. Len(names) |-> Of(kind, table, names[n])]

\* A unique index on one column.
Unique(table, column) ==
  [kind |-> "index", item |-> <<table, "idx_" \o column>>, on |-> {<<table, column>>}]

Items(table, names) == {<<table, name>> : name \in names}

\* CREATE TABLE IF NOT EXISTS of a table with what later migrations ask for.
Create(table, inline) ==
  [kind |-> "table", item |-> <<table, "">>, on |-> Items(table, inline)]

\* The tables, with the columns that version 2 adds to older ones.  Their unique
\* keys uq_... are not the idx_... that the models name.
applyInitialSchema ==
  << Create("shipments", {"public_id", "business_key", "source_service", "source_idempotency"}),
     Create("shipment_items", {}),
     Create("shipment_events", {"event_id", "source_service", "request_id", "estimated_from",
                                "estimated_until", "source_idempotency"}),
     Create("audit_logs", {}),
     Create("outbox_events", {"event_id", "shipment_event_id", "request_id", "last_error",
                              "delivered_at"}) >>

\* Columns added to rows that exist hold '' or 0 where their default says so.
ContractColumns ==
  Each("blank", "shipments", <<"public_id", "business_key">>)
  \o Each("column", "shipments", <<"source_service">>)
  \o Each("blank", "shipment_events", <<"event_id">>)
  \o Each("column", "shipment_events", <<"source_service">>)
  \o Each("blank", "shipment_events", <<"request_id">>)
  \o Each("column", "shipment_events", <<"estimated_from", "estimated_until">>)
  \o Each("blank", "outbox_events", <<"event_id", "shipment_event_id", "request_id">>)
  \o Each("column", "outbox_events", <<"last_error", "delivered_at">>)

SupersededIndexes ==
  Each("drop", "shipments", <<"idempotency_key", "order_direction">>)
  \o Each("drop", "shipment_events", <<"idempotency_key">>)

\* The pairs of source and key differ wherever the superseded indexes held.
ContractIndexes ==
  << Of("index", "shipments", "source_idempotency"),
     Unique("shipments", "business_key"), Unique("shipments", "public_id"),
     Of("index", "shipment_events", "source_idempotency"),
     Unique("shipment_events", "event_id"),
     Unique("outbox_events", "event_id"), Unique("outbox_events", "shipment_event_id") >>

ContractUpdates ==
  Each("fill", "shipments", <<"public_id", "business_key", "source_service">>)
  \o Each("fill", "shipment_events", <<"event_id", "source_service", "request_id">>)
  \o Each("fill", "outbox_events", <<"event_id", "shipment_event_id", "request_id">>)

applyAPIContractUpgrade ==
  ContractColumns \o SupersededIndexes \o ContractIndexes \o ContractUpdates

applyPersonnelPortal ==
  << Of("model", "users", ""), Of("model", "browser_sessions", "") >>
  \o Each("column", "audit_logs", <<"actor_user_id", "entity_type", "entity_id", "old_value",
                                    "new_value", "request_id">>)
  \o Each("index", "audit_logs", <<"idx_actor_user_id", "idx_entity_type", "idx_entity_id",
                                   "idx_request_id">>)

applyHandoverCode ==
  << Of("column", "shipments", "handover_code"), Unique("shipments", "handover_code") >>

orderedMigrations ==
  <<applyInitialSchema, applyAPIContractUpgrade, applyPersonnelPortal, applyHandoverCode>>

-----------------------------------------------------------------------------
\* A new database, and one that was in use before the contract's columns.
Fresh == [schema |-> {}, rows |-> 0]

Legacy(n) ==
  [schema |-> {s.item : s \in ToSet(applyInitialSchema) \cup ToSet(SupersededIndexes)},
   rows |-> n]

AllItems ==
  UNION { {s.item} \cup s.on : s \in UNION {ToSet(script) : script \in ToSet(orderedMigrations)} }
=============================================================================
