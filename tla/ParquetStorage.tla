--------------------------- MODULE ParquetStorage ---------------------------
(***************************************************************************)
(* ParquetStorage of src/storage.rs, the default EventSink: one open       *)
(* ArrowWriter per event type, a schema cache, and a file-set number that  *)
(* rotation advances.  Calls are synchronous: no other task runs between   *)
(* the steps of one call, so each call is one action, with a separate      *)
(* action for the ways it can return an error.                             *)
(*                                                                         *)
(* A Parquet file can be read only once ArrowWriter::close has written its *)
(* footer; dropping a writer leaves a file without one.  A row is the      *)
(* number its caller gives it.                                             *)
(*                                                                         *)
(* Utc::now() is the variable clock.  It is read only when a file is       *)
(* created, so time passes lazily, there: a reading is any value that is   *)
(* not smaller than the previous one, up to MaxClock.                      *)
(*                                                                         *)
(* A definition marked Mutant is not part of the model: it is a bug, put   *)
(* in the place of the definition after it to see a property fail.         *)
(***************************************************************************)
EXTENDS Integers, Sequences, SchemaCache

CONSTANTS
  MaxU64,     \* u64::MAX, where saturating_add stops
  MaxClock    \* bound of the model: the last millisecond

ASSUME MaxU64Assumption   == MaxU64 \in Nat
ASSUME MaxClockAssumption == MaxClock \in Nat

VARIABLES
  writers,      \* HashMap<String, ArrowWriter<File>>: event type -> file name
  file_set_id,  \* u64
  files,        \* the directory: file name -> [rows, footer]
  clock         \* the last reading of Utc::now().timestamp_millis()

memory      == <<writers, schemas, file_set_id>>
storageVars == <<writers, schemas, file_set_id, files, clock>>

-----------------------------------------------------------------------------
\* Mutant: an addition that goes past u64::MAX.
PlainAdd(m, n) == m + n

SaturatingAdd(m, n) == IF m + n > MaxU64 THEN MaxU64 ELSE m + n

\* Mutants: names without the set, and one directory for every type.
FileNameWithoutSet(event_type, millis) ==
  [type |-> event_type, stamp |-> millis, set |-> 0]

FileNameWithoutType(event_type, millis) ==
  [type |-> "events", stamp |-> millis, set |-> file_set_id]

\* <output>/<event_type>/<millis>_set<file_set_id>.parquet
FileName(event_type, millis) ==
  [type |-> event_type, stamp |-> millis, set |-> file_set_id]

\* File::create: truncates a file that has this name.
Created(name) == Insert(files, name, [rows |-> <<>>, footer |-> FALSE])

\* The files whose writer is open.
OpenFiles == {writers[t] : t \in DOMAIN writers}

-----------------------------------------------------------------------------
StorageInit ==
  /\ writers = EmptyMap
  /\ schemas = EmptyMap
  /\ file_set_id = 0
  /\ files = EmptyMap
  /\ clock = 0

\* ParquetStorage::new in a later process: memory is fresh, the directory is
\* not, and no clock is read.
StorageReopen ==
  /\ writers' = EmptyMap
  /\ schemas' = EmptyMap
  /\ file_set_id' = 0
  /\ UNCHANGED files

\* The millisecond of the last file is over.  That it is when a later process
\* starts is an assumption about who starts it, not something the code sees to:
\* spec/CODE_REVIEW_20260216.md:194-196 has the process that "restarts within the
\* same millisecond" among its risks, with "data loss on file overwrite".
LaterMillisecond == clock < MaxClock /\ clock' = clock + 1

\* The storage is dropped, with its writers, without close.
StorageDrop ==
  /\ writers' = EmptyMap
  /\ UNCHANGED <<schemas, file_set_id, files, clock>>

\* write_event returns Ok: the row is appended to the type's open writer,
\* which is created first when there is none.
WriteEvent(event_type, columns, row) ==
  /\ SchemaAccepts(event_type, columns)
  /\ schemas' = Insert(schemas, event_type, columns)
  /\ UNCHANGED file_set_id
  /\ \/ /\ event_type \in DOMAIN writers
        /\ files' = [files EXCEPT ![writers[event_type]].rows = Append(@, row)]
        /\ UNCHANGED <<writers, clock>>
     \/ /\ event_type \notin DOMAIN writers
        /\ \E millis \in clock .. MaxClock :
             LET name == FileName(event_type, millis) IN
             /\ clock' = millis
             /\ writers' = Insert(writers, event_type, name)
             /\ files' = Insert(files, name, [rows |-> <<row>>, footer |-> FALSE])

\* write_event returns an error: the schema differs; the directory, the file
\* or the row cannot be written; the new file cannot take a writer; or the new
\* writer refuses its first row.
WriteEventFails(event_type, columns) ==
  /\ UNCHANGED file_set_id
  /\ \/ /\ ~SchemaAccepts(event_type, columns)
        /\ UNCHANGED <<writers, schemas, files, clock>>
     \/ /\ SchemaAccepts(event_type, columns)
        /\ schemas' = Insert(schemas, event_type, columns)
        /\ UNCHANGED <<writers, files, clock>>
     \/ /\ SchemaAccepts(event_type, columns)
        /\ schemas' = Insert(schemas, event_type, columns)
        /\ event_type \notin DOMAIN writers
        /\ \E millis \in clock .. MaxClock :
             LET name == FileName(event_type, millis) IN
             /\ clock' = millis
             /\ files' = Created(name)
             /\ \/ UNCHANGED writers
                \/ writers' = Insert(writers, event_type, name)

\* close_writers drains the map; the writers of the types in closed are closed
\* and the others are dropped without a footer.
DrainWriters(closed) ==
  /\ files' = [n \in DOMAIN files |->
                 IF \E t \in closed : writers[t] = n
                   THEN [files[n] EXCEPT !.footer = TRUE]
                   ELSE files[n]]
  /\ writers' = EmptyMap
  /\ UNCHANGED <<schemas, clock>>

\* Mutant: close clears the map and closes nothing.
CloseByClearing == DrainWriters({}) /\ UNCHANGED file_set_id

CloseWriters == DrainWriters(DOMAIN writers) /\ UNCHANGED file_set_id

\* One close fails, and the early return drops the writers not yet closed.
CloseWritersFails ==
  /\ \E closed \in SUBSET DOMAIN writers :
       closed # DOMAIN writers /\ DrainWriters(closed)
  /\ UNCHANGED file_set_id

\* Mutants: a rotation that closes nothing, and one that keeps its writers.
RotateByClearing ==
  /\ DrainWriters({})
  /\ file_set_id' = SaturatingAdd(file_set_id, 1)

RotateKeepingWriters ==
  /\ files' = [n \in DOMAIN files |->
                 [files[n] EXCEPT !.footer = @ \/ n \in OpenFiles]]
  /\ file_set_id' = SaturatingAdd(file_set_id, 1)
  /\ UNCHANGED <<writers, schemas, clock>>

RotateWriters ==
  /\ DrainWriters(DOMAIN writers)
  /\ file_set_id' = SaturatingAdd(file_set_id, 1)

\* rotate_writers returns before it advances the file set.
RotateWritersFails == CloseWritersFails

-----------------------------------------------------------------------------
\* The rows of a file, and the rows that can be read back from the directory.
RowsIn(file) == {file.rows[k] : k \in DOMAIN file.rows}

RowsOf(n) == RowsIn(files[n])

ReadableRows == UNION {RowsOf(n) : n \in {m \in DOMAIN files : files[m].footer}}
=============================================================================
