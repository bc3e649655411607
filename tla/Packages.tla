------------------------------ MODULE Packages ------------------------------
(***************************************************************************)
(* A dataset and its package on disk: SAVE DATASET, LOAD DATASET and       *)
(* IMPORT DATASET file by file, with failures and crashes in between       *)
(* (dsl/persistence.rs, core/storage.rs, core/colbuf.rs).                  *)
(*                                                                         *)
(* The contents of a dataset are an id, a schema (a function from column   *)
(* to kind) and a number of rows; the id stands for the values. A column   *)
(* in memory or in a file is told by the id of the contents it came from.  *)
(* Column kinds: "plain", "vector" (float32) and "quantized", which alone  *)
(* can be memory-mapped.                                                   *)
(***************************************************************************)
EXTENDS Integers, Sequences, FiniteSets, FiniteSetsExt

CONSTANTS
  None, Torn, Idle, Failed,
  Schemas,         \* the schemas of datasets and of imported files
  RowCounts,
  ClusterAt,       \* a vector index clusters from this many rows on
  MaxContents,     \* bound: contents created or imported
  MaxSaves,        \* bound: SAVEs begun
  MaxInterruptions \* bound: crashes and failed writes

VARIABLES
  dataset,       \* the dataset in memory, or None
  disk,          \* File -> what the file holds, None or Torn
  writing,       \* the SAVE or IMPORT in progress, or Idle
  made,          \* contents made so far
  interruptions,
  settled,       \* what the last SAVE, complete and not written over since, saved; or None
  begun,         \* SAVEs begun
  overlooked     \* whether the SAVE begun last went on without its column files

vars == <<dataset, disk, writing, made, interruptions, settled, begun, overlooked>>

(***************************************************************************)
(* The files of a package, in the order SAVE writes them: the package      *)
(* proper, the schema LOAD goes by (".meta.json"), one file per mapped     *)
(* column, index definitions, clusterings, graphs and the version record.  *)
(* Column files, clusterings and graphs are written beside and renamed;    *)
(* the others are written in place.                                        *)
(***************************************************************************)
PackageOrder == <<"data", "schema", "stats", "lineage", "manifest", "meta">>

(* Mutant of SaveOrder: column files of an earlier SAVE are not dropped. *)
OrderKeepingColumns == PackageOrder \o <<"columns", "indexes", "clusters", "graphs", "metadata">>

SaveOrder == PackageOrder \o <<"unmap", "columns", "indexes", "clusters", "graphs", "metadata">>

File == {SaveOrder[i] : i \in 1..Len(SaveOrder)} \ {"unmap"}

(***************************************************************************)
(* What a file LOAD goes by holds that is about the columns C, and what    *)
(* LOAD makes of the files. The sentinels are neither.                     *)
(***************************************************************************)
Kinds == {"plain", "vector", "quantized"}
Types == {"hash", "ivf", "hnsw"}
ColumnSets == SUBSET UNION {DOMAIN schema : schema \in Schemas}

Tables(C) == [schema : Schemas, rows : RowCounts, origin : [C -> Nat]]
Datasets(C, I) == [schema : Schemas, rows : RowCounts, origin : [C -> Nat],
                   indexes : [I -> [type : Types, of : Nat, rows : RowCounts]]]
Whole(C) ==
  [schema : Schemas] \cup [C -> Types] \cup [C -> [of : Nat, kind : Kinds, rows : RowCounts]] \cup Tables(C)

ASSUME SchemasAssumption == \A schema \in Schemas : schema \in [DOMAIN schema -> Kinds]
ASSUME RowsAssumption == RowCounts \subseteq Nat
ASSUME SentinelsAssumption ==
  \A C \in ColumnSets :
    /\ None \notin Whole(C) /\ Torn \notin Whole(C)
    /\ Failed \notin Tables(C) /\ \A I \in ColumnSets : Failed \notin Datasets(C, I)

NoColumns == [c \in {} |-> None]

Columns(contents) == DOMAIN contents.schema
Mappable(schema) == {c \in DOMAIN schema : schema[c] = "quantized"}

Dataset(contents, origin, indexes) ==
  [schema |-> contents.schema, rows |-> contents.rows, origin |-> origin, indexes |-> indexes]

(* The values of a column: those of the contents it came from. *)
OriginOf(contents) == [c \in Columns(contents) |-> contents.id]

Init ==
  /\ dataset = None /\ disk = [f \in File |-> None] /\ writing = Idle
  /\ made = 0 /\ interruptions = 0 /\ settled = None /\ begun = 0 /\ overlooked = FALSE

NewContents(schema, rows) == [id |-> made + 1, schema |-> schema, rows |-> rows]

(***************************************************************************)
(* Statements on the dataset in memory: it is created, or all its values   *)
(* change; its indexes are rebuilt over the new values.                    *)
(***************************************************************************)
Rebuilt(indexes, contents) ==
  [c \in DOMAIN indexes \cap Columns(contents) |-> [indexes[c] EXCEPT !.of = contents.id, !.rows = contents.rows]]

Change(schema, rows) ==
  /\ writing = Idle /\ made < MaxContents
  /\ dataset # None => \A c \in DOMAIN dataset.schema \cap DOMAIN schema : schema[c] = dataset.schema[c]
  /\ LET contents == NewContents(schema, rows)
         indexes == IF dataset = None THEN NoColumns ELSE Rebuilt(dataset.indexes, contents)
     IN dataset' = Dataset(contents, OriginOf(contents), indexes)
  /\ made' = made + 1
  /\ UNCHANGED <<disk, writing, interruptions, settled, begun, overlooked>>

IndexTypes(kind) == IF kind = "plain" THEN {"hash"} ELSE {"hash", "ivf", "hnsw"}

CreateIndex(c, type) ==
  /\ writing = Idle /\ dataset # None /\ c \in DOMAIN dataset.schema \ DOMAIN dataset.indexes
  /\ type \in IndexTypes(dataset.schema[c])
  /\ dataset' = [dataset EXCEPT !.indexes =
       [d \in DOMAIN @ \cup {c} |->
          IF d = c THEN [type |-> type, of |-> dataset.origin[c], rows |-> dataset.rows] ELSE @[d]]]
  /\ UNCHANGED <<disk, writing, made, interruptions, settled, begun, overlooked>>

(* Mutant of ContentHash: Vectors are skipped as well. *)
HashOfNothing(kind, id) == 0

(***************************************************************************)
(* content_hash: the bytes of a column's Vectors; every other value is     *)
(* skipped, so all quantized columns hash alike.                           *)
(***************************************************************************)
ContentHash(kind, id) == IF kind = "vector" THEN id ELSE 0

(* The clusterings or graphs of a dataset large enough to have them. *)
Snapshots(ds, type) ==
  [c \in {d \in DOMAIN ds.indexes : ds.indexes[d].type = type /\ ds.rows >= ClusterAt} |->
     [hash |-> ContentHash(ds.schema[c], ds.origin[c]), of |-> ds.indexes[c].of, rows |-> ds.indexes[c].rows]]

(***************************************************************************)
(* DatasetMetadata: SAVE counts a version and appends the schema when it   *)
(* differs from the last; unreadable metadata starts over, and counts one. *)
(***************************************************************************)
RecordSchema(history, schema) ==
  IF history # <<>> /\ history[Len(history)] = schema THEN history ELSE Append(history, schema)

NextMetadata(old, schema) ==
  CASE old = None -> [version |-> 1, history |-> <<schema>>]
    [] old = Torn -> [version |-> 2, history |-> <<schema>>]
    [] OTHER -> [version |-> old.version + 1, history |-> RecordSchema(old.history, schema)]

(***************************************************************************)
(* SAVE DATASET [MMAP] and IMPORT DATASET FROM are under way: which files  *)
(* are still to be written, of what. Column files are asked for by the     *)
(* statement ("explicit"), by the configuration or not at all ("off").     *)
(***************************************************************************)
Modes == {"explicit", "config", "off"}
Maps(mode) == mode # "off"

BeginSave(mode) ==
  /\ writing = Idle /\ dataset # None
  /\ begun < MaxSaves
  /\ writing' = [kind |-> "save", files |-> SaveOrder, source |-> dataset, mode |-> mode]
  /\ settled' = None /\ begun' = begun + 1 /\ overlooked' = FALSE
  /\ UNCHANGED <<dataset, disk, made, interruptions>>

BeginImport(schema, rows) ==
  /\ writing = Idle /\ made < MaxContents
  /\ LET contents == NewContents(schema, rows) IN
     writing' = [kind |-> "import", files |-> PackageOrder, source |-> Dataset(contents, OriginOf(contents), NoColumns), mode |-> "off"]
  /\ made' = made + 1 /\ settled' = None
  /\ UNCHANGED <<dataset, disk, interruptions, begun, overlooked>>

(* What a file holds once written. *)
Written(f, ds) ==
  CASE f = "meta" -> [schema |-> ds.schema]
    [] f = "indexes" -> [c \in DOMAIN ds.indexes |-> ds.indexes[c].type]
    [] f = "clusters" -> Snapshots(ds, "ivf")
    [] f = "graphs" -> Snapshots(ds, "hnsw")
    [] f = "metadata" -> NextMetadata(disk["metadata"], ds.schema)
    [] f = "columns" ->
         [c \in Mappable(ds.schema) |-> [of |-> ds.origin[c], kind |-> ds.schema[c], rows |-> ds.rows]]
    [] OTHER -> [schema |-> ds.schema, rows |-> ds.rows, origin |-> ds.origin]

(* SAVE ... MMAP without a column to map fails, its data already written. *)
NothingToMap == writing.mode = "explicit" /\ Mappable(writing.source.schema) = {}

WriteFile ==
  /\ writing # Idle /\ writing.files # <<>>
  /\ LET f == Head(writing.files) IN
     /\ disk' = CASE f = "unmap" -> [disk EXCEPT !["columns"] = None]
                  [] f = "columns" /\ (~Maps(writing.mode) \/ Mappable(writing.source.schema) = {}) -> disk
                  [] OTHER -> [disk EXCEPT ![f] = Written(f, writing.source)]
     /\ writing' = IF f = "unmap" /\ NothingToMap THEN Idle ELSE [writing EXCEPT !.files = Tail(@)]
  /\ UNCHANGED <<dataset, made, interruptions, settled, begun, overlooked>>

(* The statement answers. IMPORT leaves every file but the package as it was. *)
Finish ==
  /\ writing # Idle /\ writing.files = <<>>
  /\ writing' = Idle
  /\ settled' = IF writing.kind = "save" THEN writing.source ELSE None
  /\ UNCHANGED <<dataset, disk, made, interruptions, begun, overlooked>>

(* A file that cannot be read counts as empty, where LOAD can do without it. *)
Readable(f) == IF disk[f] \in {None, Torn} THEN NoColumns ELSE disk[f]

(***************************************************************************)
(* A write fails or the process dies: the file being written in place is   *)
(* left short; of several column files some may have been removed or       *)
(* written, their directory being there already.                           *)
(***************************************************************************)
Some(columns) == {[c \in cols |-> columns[c]] : cols \in SUBSET DOMAIN columns}

Partial(f) ==
  CASE f = "unmap" -> IF disk["columns"] = None THEN {} ELSE Some(Readable("columns"))
    [] f = "columns" -> IF Maps(writing.mode) /\ Mappable(writing.source.schema) # {}
                        THEN Some(Written(f, writing.source)) ELSE {}
    [] f \in {"clusters", "graphs"} -> {}
    [] OTHER -> {Torn}

CutShort ==
  \/ UNCHANGED disk
  \/ /\ writing # Idle /\ writing.files # <<>>
     /\ LET f == Head(writing.files) IN
        \E p \in Partial(f) : disk' = [disk EXCEPT ![IF f = "unmap" THEN "columns" ELSE f] = p]

(* SAVE overlooks a failure with the column files the configuration asks    *)
(* for: it goes on to the index definitions, and answers that it saved.     *)
Overlooks ==
  writing # Idle /\ writing.files # <<>> /\ writing.mode = "config" /\ Head(writing.files) \in {"unmap", "columns"}

(* A failed write ends the statement, a crash everything there was.         *)
Interrupt(crash) ==
  /\ interruptions < MaxInterruptions
  /\ crash \/ (writing # Idle /\ ~Overlooks)
  /\ CutShort
  /\ writing' = Idle /\ interruptions' = interruptions + 1
  /\ dataset' = IF crash THEN None ELSE dataset
  /\ UNCHANGED <<made, settled, begun, overlooked>>

GoOnWithoutColumns ==
  /\ interruptions < MaxInterruptions /\ Overlooks
  /\ CutShort
  /\ writing' = [writing EXCEPT !.files = IF Head(@) = "unmap" THEN Tail(Tail(@)) ELSE Tail(@)]
  /\ interruptions' = interruptions + 1 /\ overlooked' = TRUE
  /\ UNCHANGED <<dataset, made, settled, begun>>

(***************************************************************************)
(* LOAD DATASET [MMAP]. The mapped columns are those of the schema that    *)
(* have a file; the others are decoded from the data. A column declared    *)
(* quantized but stored as plain vectors is quantized on the way in.       *)
(***************************************************************************)
Decodable(kind, stored) == kind = stored \/ (kind = "quantized" /\ stored = "vector")

UsesColumnFiles(mode) == mode = "explicit" \/ (mode = "config" /\ disk["columns"] # None)

ReadPackage(mode) ==
  LET meta == disk["meta"]
      data == disk["data"]
      mapped == IF UsesColumnFiles(mode) THEN Mappable(meta.schema) \cap DOMAIN Readable("columns") ELSE {}
      others == DOMAIN meta.schema \ mapped
  IN IF \/ meta \in {None, Torn} \/ data \in {None, Torn}
        \/ UsesColumnFiles(mode) /\ mapped = {}
        \/ \E c \in mapped : disk["columns"][c].kind # meta.schema[c] \/ disk["columns"][c].rows # data.rows
        \/ \E c \in others : c \notin DOMAIN data.schema \/ ~Decodable(meta.schema[c], data.schema[c])
     THEN Failed
     ELSE [schema |-> meta.schema, rows |-> data.rows,
           origin |-> [c \in DOMAIN meta.schema |-> IF c \in mapped THEN disk["columns"][c].of ELSE data.origin[c]]]

(***************************************************************************)
(* The definitions that still fit become indexes: a clustering or graph    *)
(* whose hash is that of the column is taken as it is, unless it covers    *)
(* more rows than there are; anything else is built anew.                  *)
(***************************************************************************)
SnapshotOf(c, type, rows) ==
  LET file == IF type = "hash" THEN NoColumns ELSE Readable(IF type = "ivf" THEN "clusters" ELSE "graphs")
  IN IF c \in DOMAIN file /\ file[c].hash = ContentHash(rows.schema[c], rows.origin[c])
     THEN file[c] ELSE None

RestoredIndexes(rows) ==
  LET types == Readable("indexes")
      restores(c) == SnapshotOf(c, types[c], rows) # None => SnapshotOf(c, types[c], rows).rows <= rows.rows
      fits(c) == c \in DOMAIN rows.schema /\ types[c] \in IndexTypes(rows.schema[c]) /\ restores(c)
  IN [c \in {d \in DOMAIN types : fits(d)} |->
        IF SnapshotOf(c, types[c], rows) # None
        THEN [type |-> types[c], of |-> SnapshotOf(c, types[c], rows).of, rows |-> SnapshotOf(c, types[c], rows).rows]
        ELSE [type |-> types[c], of |-> rows.origin[c], rows |-> rows.rows]]

Loaded(mode) ==
  LET read == ReadPackage(mode)
  IN IF read = Failed THEN Failed ELSE Dataset(read, read.origin, RestoredIndexes(read))

Load(mode) ==
  /\ writing = Idle /\ Loaded(mode) # Failed
  /\ dataset' = Loaded(mode)
  /\ UNCHANGED <<disk, writing, made, interruptions, settled, begun, overlooked>>

Next ==
  \/ \E schema \in Schemas, rows \in RowCounts : (Change(schema, rows) \/ BeginImport(schema, rows))
  \/ \E c \in UNION {DOMAIN s : s \in Schemas}, type \in Types : CreateIndex(c, type)
  \/ \E mode \in Modes : (BeginSave(mode) \/ Load(mode))
  \/ WriteFile \/ Finish \/ GoOnWithoutColumns \/ \E crash \in BOOLEAN : Interrupt(crash)

Spec == Init /\ [][Next]_vars

(***************************************************************************)
(* Once a SAVE has answered, and until the package is written to again,    *)
(* LOAD gives back what it saved: the schema, the rows, every column's     *)
(* values, whichever way columns are read, and the same indexes. LOAD ...  *)
(* MMAP may be refused when there are no column files. LIST VERSIONS ends  *)
(* with the schema saved and has no schema twice in a row.                 *)
(*                                                                         *)
(* A SAVE under [storage] mmap_columns answers even when it could not      *)
(* remove or write its column files (dsl/persistence.rs:165). The rest is  *)
(* promised after it too, but a LOAD that reads column files may then be   *)
(* refused, or map those of an earlier SAVE.                               *)
(***************************************************************************)
SettledLoads ==
  settled # None =>
    /\ LET history == disk["metadata"].history
       IN history[Len(history)] = settled.schema /\ \A i \in 1..(Len(history) - 1) : history[i] # history[i + 1]
    /\ \A mode \in Modes :
        LET unsure == overlooked /\ UsesColumnFiles(mode)
        IN IF Loaded(mode) = Failed THEN unsure \/ (mode = "explicit" /\ disk["columns"] = None)
           ELSE /\ Loaded(mode).schema = settled.schema /\ Loaded(mode).rows = settled.rows
                /\ \A c \in DOMAIN settled.schema :
                     Loaded(mode).origin[c] = settled.origin[c] \/ (unsure /\ c \in Mappable(settled.schema))
                /\ DOMAIN Loaded(mode).indexes = DOMAIN settled.indexes
                /\ \A c \in DOMAIN settled.indexes : Loaded(mode).indexes[c].type = settled.indexes[c].type

(***************************************************************************)
(* An index restored by LOAD is about the column beside it: "instead of    *)
(* silently restoring a stale clustering" (core/index/vector.rs:230). It   *)
(* holds of float32 columns, after every crash, failed SAVE and IMPORT.    *)
(***************************************************************************)
VectorIndexesDescribe ==
  dataset # None =>
    \A c \in {d \in DOMAIN dataset.indexes : dataset.schema[d] # "quantized"} :
      dataset.indexes[c].of = dataset.origin[c] /\ dataset.indexes[c].rows = dataset.rows

(***************************************************************************)
(* The columns of a loaded dataset come from one SAVE or IMPORT: column    *)
(* files are dropped "so a later `LOAD ... MMAP` can't map columns older   *)
(* than the Parquet data just saved" (core/storage.rs:155).                *)
(***************************************************************************)
ColumnsAgree == dataset # None => Cardinality({dataset.origin[c] : c \in DOMAIN dataset.origin}) = 1
=============================================================================
