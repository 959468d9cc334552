---------------------------- MODULE SchemaCache ----------------------------
(***************************************************************************)
(* The schema cache that both storages of src/storage.rs keep, and the     *)
(* maps it is made of.                                                     *)
(***************************************************************************)

VARIABLE
  schemas  \* HashMap: event type -> column names

EmptyMap == [k \in {} |-> k]

\* HashMap::insert
Insert(map, key, value) ==
  [k \in DOMAIN map \union {key} |-> IF k = key THEN value ELSE map[k]]

\* get_or_create_schema: a cached schema must name the same columns.
SchemaAccepts(event_type, columns) ==
  event_type \in DOMAIN schemas => schemas[event_type] = columns
=============================================================================
