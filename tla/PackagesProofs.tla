-------------------------- MODULE PackagesProofs --------------------------
(***************************************************************************)
(* Proofs about Packages: for any schemas, any numbers of rows and any     *)
(* number of statements, SAVEs, IMPORTs, failed writes and crashes, a SAVE *)
(* that has answered loads back, and a restored index is about the column  *)
(* beside it.                                                              *)
(*                                                                         *)
(* The invariant gives every contents ever made its number of rows, R, and *)
(* says of each file, and of each dataset in memory, settled or being      *)
(* written, that its columns come from such contents of as many rows. A    *)
(* clustering or graph that carries a hash is then of the contents with    *)
(* that hash, so one whose hash is that of a column covers the column.     *)
(* Beside it, the files before the next one of a SAVE are those of its     *)
(* source, so a SAVE that answers leaves all of its own and no other, but  *)
(* for the column files once it has overlooked a failure with them.        *)
(***************************************************************************)
EXTENDS Packages, SequenceTheorems, TLAPS

(* The files in their order, one by one.                                    *)
LEMMA Orders ==
  /\ Len(PackageOrder) = 6 /\ Len(SaveOrder) = 12
  /\ SaveOrder[1] = "data" /\ SaveOrder[2] = "schema" /\ SaveOrder[3] = "stats"
  /\ SaveOrder[4] = "lineage" /\ SaveOrder[5] = "manifest" /\ SaveOrder[6] = "meta"
  /\ SaveOrder[7] = "unmap" /\ SaveOrder[8] = "columns" /\ SaveOrder[9] = "indexes"
  /\ SaveOrder[10] = "clusters" /\ SaveOrder[11] = "graphs" /\ SaveOrder[12] = "metadata"
  /\ \A i \in 1 .. 6 : PackageOrder[i] = SaveOrder[i]
BY DEF SaveOrder, PackageOrder

(* The files of a package.                                                  *)
LEMMA Files ==
  File = {"data", "schema", "stats", "lineage", "manifest", "meta", "columns", "indexes",
          "clusters", "graphs", "metadata"}
<1>1. 1 .. Len(SaveOrder) = 1 .. 12
  BY Orders
<1>2. ASSUME NEW i \in 1 .. 12 PROVE
        i \in {1, 2, 3, 4, 5, 6, 7, 8, 9, 10, 11, 12}
  OBVIOUS
<1>3. File = {SaveOrder[i] : i \in 1 .. 12} \ {"unmap"}
  BY <1>1 DEF File
<1>4. {SaveOrder[i] : i \in 1 .. 12} =
        {"data", "schema", "stats", "lineage", "manifest", "meta", "unmap", "columns", "indexes",
         "clusters", "graphs", "metadata"}
  BY <1>2, Orders
<1> QED BY <1>3, <1>4

(* What is left of an order after its first k files.                        *)
From(order, k) == [i \in 1 .. Len(order) - k |-> order[i + k]]

(* While files are left, the head is the next and the tail what follows.    *)
LEMMA FromNext ==
  ASSUME NEW n \in Nat, NEW order, Len(order) = n, NEW k \in 0 .. n, From(order, k) # << >>
  PROVE  /\ k + 1 \in 1 .. n /\ Head(From(order, k)) = order[k + 1]
         /\ Tail(From(order, k)) = From(order, k + 1)
<1>1. k # n
  BY DEF From
<1>2. n - k \in Nat /\ n - k >= 1 /\ Len(From(order, k)) = n - k
  BY <1>1 DEF From
<1>3. Head(From(order, k)) = order[k + 1]
  BY <1>2 DEF From
<1>4. PICK s, t : s = From(order, k) /\ t = From(order, k + 1)
  OBVIOUS
<1>5. PICK S : \A i \in 1 .. n : order[i] \in S
  <2>1. \A i \in 1 .. n : order[i] \in {order[j] : j \in 1 .. n}
    OBVIOUS
  <2> QED BY <2>1
<1>6. /\ s \in Seq(S) /\ Len(s) = n - k /\ \A i \in 1 .. n - k : s[i] = order[i + k]
      /\ t \in Seq(S) /\ Len(t) = n - (k + 1)
      /\ \A i \in 1 .. n - (k + 1) : t[i] = order[i + (k + 1)]
  BY <1>2, <1>4, <1>5 DEF From
<1>7. /\ Tail(s) \in Seq(S) /\ Len(Tail(s)) = Len(s) - 1
      /\ \A i \in 1 .. Len(Tail(s)) : Tail(s)[i] = s[i + 1]
  BY <1>4, <1>6, HeadTailProperties
<1>8. Len(Tail(s)) = Len(t) /\ \A i \in 1 .. Len(t) : Tail(s)[i] = t[i]
  BY <1>2, <1>6, <1>7
<1>9. Tail(s) = t
  BY <1>6, <1>7, <1>8, SeqEqual
<1> QED BY <1>1, <1>3, <1>4, <1>9

(* Nothing is left only after the last.                                     *)
LEMMA FromEnd ==
  ASSUME NEW n \in Nat, NEW order, Len(order) = n, NEW k \in 0 .. n, From(order, k) = << >>
  PROVE  k = n
<1>1. n - k \in Nat /\ Len(From(order, k)) = n - k
  BY DEF From
<1> QED BY <1>1

(* At the start all is left.                                                *)
LEMMA FromStart == From(SaveOrder, 0) = SaveOrder /\ From(PackageOrder, 0) = PackageOrder
<1>1. /\ PackageOrder = [i \in 1 .. 6 |-> PackageOrder[i]]
      /\ SaveOrder = [i \in 1 .. 12 |-> SaveOrder[i]]
  BY DEF SaveOrder, PackageOrder
<1> QED BY <1>1, Orders DEF From

(* Columns come from contents of at most n, which have R[id] rows.          *)
OriginFits(R, n, schema, rows, origin) ==
  /\ schema \in Schemas /\ rows \in RowCounts
  /\ origin \in [DOMAIN schema -> 1 .. n]
  /\ \A c \in DOMAIN schema : R[origin[c]] = rows

TableFits(R, n, t) ==
  /\ t = [schema |-> t.schema, rows |-> t.rows, origin |-> t.origin]
  /\ OriginFits(R, n, t.schema, t.rows, t.origin)

(* Indexes are on columns of the dataset, of a type these can have, over no *)
(* more rows than there are; those on columns that are not quantized are    *)
(* over the values the column has.                                          *)
IndexesFit(schema, rows, origin, indexes) ==
  /\ DOMAIN indexes \subseteq DOMAIN schema
  /\ indexes \in [DOMAIN indexes -> [type : Types, of : Nat, rows : RowCounts]]
  /\ \A c \in DOMAIN indexes :
       /\ indexes[c].type \in IndexTypes(schema[c]) /\ indexes[c].rows <= rows
       /\ schema[c] # "quantized" => indexes[c].of = origin[c] /\ indexes[c].rows = rows

DatasetFits(R, n, ds) ==
  /\ ds = [schema |-> ds.schema, rows |-> ds.rows, origin |-> ds.origin, indexes |-> ds.indexes]
  /\ OriginFits(R, n, ds.schema, ds.rows, ds.origin)
  /\ IndexesFit(ds.schema, ds.rows, ds.origin, ds.indexes)

(* A clustering or graph with a hash is of the contents with that hash.     *)
SnapshotsOf == [hash : Nat, of : Nat, rows : RowCounts]

SnapshotFits(R, n, x) ==
  x \in SnapshotsOf /\ (x.hash # 0 => x.hash \in 1 .. n /\ x.of = x.hash /\ x.rows = R[x.hash])

MappedFits(R, n, x) ==
  x \in [of : 1 .. n, kind : Kinds, rows : RowCounts] /\ R[x.of] = x.rows

HistoryFits(history) ==
  /\ history \in Seq(Schemas) /\ history # << >>
  /\ \A i \in 1 .. Len(history) - 1 : history[i] # history[i + 1]

FileFits(R, n, f, x) ==
  /\ f = "data" => TableFits(R, n, x)
  /\ f = "meta" => x \in [schema : Schemas]
  /\ f \in {"clusters", "graphs"} => \A c \in DOMAIN x : SnapshotFits(R, n, x[c])
  /\ f = "columns" => \A c \in DOMAIN x : MappedFits(R, n, x[c])
  /\ f = "metadata" => x.version \in Nat /\ HistoryFits(x.history)

DiskFits(R, n) == \A f \in File : disk[f] \in {None, Torn} \/ FileFits(R, n, f, disk[f])

(* The kinds of column and their indexes.                                   *)
LEMMA KindsOf ==
  ASSUME NEW schema \in Schemas, NEW c \in DOMAIN schema
  PROVE  schema[c] \in Kinds /\ IndexTypes(schema[c]) \subseteq Types
BY SchemasAssumption DEF IndexTypes, Types

(* What a recorded schema makes of a history.                               *)
LEMMA RecordSchemaFits ==
  ASSUME NEW history, HistoryFits(history), NEW schema \in Schemas
  PROVE  /\ HistoryFits(RecordSchema(history, schema))
         /\ RecordSchema(history, schema)[Len(RecordSchema(history, schema))] = schema
<1>1. history \in Seq(Schemas) /\ history # << >> /\ Len(history) \in Nat
  BY LenProperties DEF HistoryFits
<1>2. CASE history[Len(history)] = schema
  BY <1>1, <1>2 DEF RecordSchema
<1>3. CASE history[Len(history)] # schema
  <2>1. PICK longer : longer = Append(history, schema)
    OBVIOUS
  <2>2. /\ longer \in Seq(Schemas) /\ Len(longer) = Len(history) + 1 /\ longer # << >>
        /\ longer[Len(history) + 1] = schema
        /\ \A i \in 1 .. Len(history) : longer[i] = history[i]
    BY <1>1, <2>1, AppendProperties
  <2>3. ASSUME NEW i \in 1 .. Len(longer) - 1 PROVE longer[i] # longer[i + 1]
    <3>1. CASE i = Len(history)
      BY <1>1, <1>3, <2>2, <3>1
    <3>2. CASE i # Len(history)
      <4>1. i \in 1 .. Len(history) - 1 /\ i + 1 \in 1 .. Len(history)
        BY <1>1, <2>2, <3>2
      <4> QED BY <1>1, <2>2, <4>1 DEF HistoryFits
    <3> QED BY <3>1, <3>2
  <2>4. RecordSchema(history, schema) = longer
    BY <1>1, <1>3, <2>1 DEF RecordSchema
  <2> QED BY <2>2, <2>3, <2>4 DEF HistoryFits
<1> QED BY <1>2, <1>3

(* The version record a SAVE writes ends with its schema.                   *)
LEMMA NextMetadataFits ==
  ASSUME NEW old, NEW schema \in Schemas,
         old \in {None, Torn} \/ (old.version \in Nat /\ HistoryFits(old.history))
  PROVE  LET new == NextMetadata(old, schema)
         IN /\ new.version \in Nat /\ HistoryFits(new.history)
            /\ new.history[Len(new.history)] = schema
            /\ new \in [version : Nat, history : Seq(Schemas)]
<1>1. PICK new : new = NextMetadata(old, schema)
  OBVIOUS
<1>2. CASE old \in {None, Torn}
  <2>1. PICK version \in Nat : new = [version |-> version, history |-> << schema >>]
    BY <1>1, <1>2 DEF NextMetadata
  <2>2. HistoryFits(<< schema >>) /\ << schema >>[Len(<< schema >>)] = schema
    BY DEF HistoryFits
  <2>3. << schema >> \in Seq(Schemas)
    OBVIOUS
  <2> QED BY <1>1, <2>1, <2>2, <2>3
<1>3. CASE old \notin {None, Torn}
  <2>1. new = [version |-> old.version + 1, history |-> RecordSchema(old.history, schema)]
    BY <1>1, <1>3 DEF NextMetadata
  <2>2. PICK history : history = old.history
    OBVIOUS
  <2>3. HistoryFits(history) /\ old.version + 1 \in Nat
    BY <1>3, <2>2
  <2>4. /\ HistoryFits(RecordSchema(history, schema))
        /\ RecordSchema(history, schema)[Len(RecordSchema(history, schema))] = schema
    BY <2>3, RecordSchemaFits
  <2> QED BY <1>1, <2>1, <2>2, <2>3, <2>4 DEF HistoryFits
<1> QED BY <1>2, <1>3

(* The clusterings and graphs of a dataset.                                 *)
LEMMA SnapshotsFit ==
  ASSUME NEW R, NEW n \in Nat, NEW ds, DatasetFits(R, n, ds), NEW type
  PROVE  /\ DOMAIN Snapshots(ds, type) \subseteq DOMAIN ds.indexes
         /\ \A c \in DOMAIN Snapshots(ds, type) :
              /\ SnapshotFits(R, n, Snapshots(ds, type)[c])
              /\ Snapshots(ds, type)[c].rows = ds.indexes[c].rows
<1>1. PICK x : x = Snapshots(ds, type)
  OBVIOUS
<1>2. PICK schema, rows, origin, indexes :
        schema = ds.schema /\ rows = ds.rows /\ origin = ds.origin /\ indexes = ds.indexes
  OBVIOUS
<1>3. /\ schema \in Schemas /\ rows \in RowCounts /\ origin \in [DOMAIN schema -> 1 .. n]
      /\ \A c \in DOMAIN schema : R[origin[c]] = rows
      /\ IndexesFit(schema, rows, origin, indexes)
  BY <1>2 DEF DatasetFits, OriginFits
<1>4. DOMAIN x \subseteq DOMAIN indexes
  BY <1>1, <1>2 DEF Snapshots
<1>5. ASSUME NEW c \in DOMAIN x
      PROVE  SnapshotFits(R, n, x[c]) /\ x[c].rows = indexes[c].rows
  <2>1. c \in DOMAIN indexes /\ c \in DOMAIN schema
    BY <1>3, <1>4, <1>5 DEF IndexesFit
  <2>2. x[c] = [hash |-> ContentHash(schema[c], origin[c]), of |-> indexes[c].of,
                rows |-> indexes[c].rows]
    BY <1>1, <1>2, <1>5 DEF Snapshots
  <2>3. indexes[c].of \in Nat /\ indexes[c].rows \in RowCounts /\ origin[c] \in 1 .. n
    BY <1>3, <2>1 DEF IndexesFit
  <2>4. CASE schema[c] = "vector"
    <3>1. indexes[c].of = origin[c] /\ indexes[c].rows = rows
      BY <1>3, <2>1, <2>4 DEF IndexesFit
    <3>2. x[c] = [hash |-> origin[c], of |-> origin[c], rows |-> rows]
      BY <2>2, <2>4, <3>1 DEF ContentHash
    <3> QED BY <1>3, <2>1, <2>3, <3>1, <3>2 DEF SnapshotFits, SnapshotsOf
  <2>5. CASE schema[c] # "vector"
    <3>1. x[c] = [hash |-> 0, of |-> indexes[c].of, rows |-> indexes[c].rows]
      BY <2>2, <2>5 DEF ContentHash
    <3> QED BY <2>3, <3>1 DEF SnapshotFits, SnapshotsOf
  <2> QED BY <2>4, <2>5
<1> QED BY <1>1, <1>2, <1>4, <1>5

(* What SAVE and IMPORT write fits.                                         *)
LEMMA WrittenFits ==
  ASSUME NEW R, NEW n \in Nat, NEW ds, DatasetFits(R, n, ds), DiskFits(R, n), NEW f \in File
  PROVE  FileFits(R, n, f, Written(f, ds))
<1>0. PICK x : x = Written(f, ds)
  OBVIOUS
<1>1. CASE f = "data"
  <2>1. x = [schema |-> ds.schema, rows |-> ds.rows, origin |-> ds.origin]
    BY <1>0, <1>1 DEF Written
  <2>2. TableFits(R, n, x)
    BY <2>1 DEF TableFits, DatasetFits
  <2> QED BY <1>0, <1>1, <2>2 DEF FileFits
<1>2. CASE f = "meta"
  <2>1. x = [schema |-> ds.schema]
    BY <1>0, <1>2 DEF Written
  <2>2. x \in [schema : Schemas]
    BY <2>1 DEF DatasetFits, OriginFits
  <2> QED BY <1>0, <1>2, <2>2 DEF FileFits
<1>3. CASE f \in {"clusters", "graphs"}
  <2>1. PICK type : x = Snapshots(ds, type)
    BY <1>0, <1>3 DEF Written
  <2>2. \A c \in DOMAIN x : SnapshotFits(R, n, x[c])
    BY <2>1, SnapshotsFit
  <2> QED BY <1>0, <1>3, <2>2 DEF FileFits
<1>4. CASE f = "columns"
  <2>1. PICK schema, origin : schema = ds.schema /\ origin = ds.origin
    OBVIOUS
  <2>2. x = [c \in Mappable(schema) |-> [of |-> origin[c], kind |-> schema[c], rows |-> ds.rows]]
    BY <1>0, <1>4, <2>1 DEF Written
  <2>3. ASSUME NEW c \in DOMAIN x PROVE MappedFits(R, n, x[c])
    <3>1. c \in DOMAIN schema /\ x[c] = [of |-> origin[c], kind |-> schema[c], rows |-> ds.rows]
      BY <2>2 DEF Mappable
    <3>2. schema \in Schemas /\ origin[c] \in 1 .. n /\ ds.rows \in RowCounts /\ R[origin[c]] = ds.rows
      BY <2>1, <3>1 DEF DatasetFits, OriginFits
    <3>3. schema[c] \in Kinds
      BY <3>1, <3>2, KindsOf
    <3> QED BY <3>1, <3>2, <3>3 DEF MappedFits
  <2> QED BY <1>0, <1>4, <2>3 DEF FileFits
<1>5. CASE f = "metadata"
  <2>1. PICK old : old = disk["metadata"]
    OBVIOUS
  <2>2. x = NextMetadata(old, ds.schema)
    BY <1>0, <1>5, <2>1 DEF Written
  <2>3. old \in {None, Torn} \/ (old.version \in Nat /\ HistoryFits(old.history))
    BY <2>1, Files DEF DiskFits, FileFits
  <2>4. ds.schema \in Schemas
    BY DEF DatasetFits, OriginFits
  <2>5. x.version \in Nat /\ HistoryFits(x.history)
    BY <2>2, <2>3, <2>4, NextMetadataFits
  <2> QED BY <1>0, <1>5, <2>5 DEF FileFits
<1>6. CASE f \notin {"data", "meta", "clusters", "graphs", "columns", "metadata"}
  BY <1>6 DEF FileFits
<1> QED BY <1>1, <1>2, <1>3, <1>4, <1>5, <1>6

(* What LOAD reads: of these columns, the mapped ones from their files, the   *)
(* others decoded from the data.                                            *)
ReadIs(mode, read, meta, data, columns, mapped) ==
  /\ meta = disk["meta"] /\ data = disk["data"] /\ columns = disk["columns"]
  /\ meta \notin {None, Torn} /\ data \notin {None, Torn}
  /\ mapped = IF UsesColumnFiles(mode) THEN Mappable(meta.schema) \cap DOMAIN Readable("columns") ELSE {}
  /\ \A c \in mapped : columns[c].kind = meta.schema[c] /\ columns[c].rows = data.rows
  /\ \A c \in DOMAIN meta.schema \ mapped :
       c \in DOMAIN data.schema /\ Decodable(meta.schema[c], data.schema[c])
  /\ read = [schema |-> meta.schema, rows |-> data.rows,
             origin |-> [c \in DOMAIN meta.schema |->
                           IF c \in mapped THEN columns[c].of ELSE data.origin[c]]]

(* A LOAD that does not fail reads columns of that kind.                     *)
LEMMA ReadPackageIs ==
  ASSUME NEW mode, NEW read, read = ReadPackage(mode), read # Failed
  PROVE  \E meta, data, columns, mapped : ReadIs(mode, read, meta, data, columns, mapped)
<1>1. PICK meta, data, columns : meta = disk["meta"] /\ data = disk["data"] /\ columns = disk["columns"]
  OBVIOUS
<1>2. PICK mapped : mapped = IF UsesColumnFiles(mode) THEN Mappable(meta.schema) \cap DOMAIN Readable("columns") ELSE {}
  OBVIOUS
<1>3. PICK bad \in BOOLEAN :
        bad <=> \/ meta \in {None, Torn} \/ data \in {None, Torn}
                \/ UsesColumnFiles(mode) /\ mapped = {}
                \/ \E c \in mapped : columns[c].kind # meta.schema[c] \/ columns[c].rows # data.rows
                \/ \E c \in DOMAIN meta.schema \ mapped :
                     c \notin DOMAIN data.schema \/ ~Decodable(meta.schema[c], data.schema[c])
  OBVIOUS
<1>4. read = IF bad THEN Failed
             ELSE [schema |-> meta.schema, rows |-> data.rows,
                   origin |-> [c \in DOMAIN meta.schema |->
                                 IF c \in mapped THEN columns[c].of ELSE data.origin[c]]]
  BY <1>1, <1>2, <1>3 DEF ReadPackage
<1>5. ~bad
  BY <1>4
<1>6. /\ meta \notin {None, Torn} /\ data \notin {None, Torn}
      /\ \A c \in mapped : columns[c].kind = meta.schema[c] /\ columns[c].rows = data.rows
      /\ \A c \in DOMAIN meta.schema \ mapped :
           c \in DOMAIN data.schema /\ Decodable(meta.schema[c], data.schema[c])
  BY <1>3, <1>5
<1>7. read = [schema |-> meta.schema, rows |-> data.rows,
              origin |-> [c \in DOMAIN meta.schema |->
                            IF c \in mapped THEN columns[c].of ELSE data.origin[c]]]
  BY <1>4, <1>5
<1>8. ReadIs(mode, read, meta, data, columns, mapped)
  BY <1>1, <1>2, <1>6, <1>7 DEF ReadIs
<1> QED BY <1>8

(* The table LOAD reads fits.                                               *)
LEMMA ReadFits ==
  ASSUME NEW R, NEW n \in Nat, DiskFits(R, n), NEW mode, NEW read, read = ReadPackage(mode), read # Failed
  PROVE  TableFits(R, n, read)
<1>1. PICK meta, data, columns, mapped : ReadIs(mode, read, meta, data, columns, mapped)
  BY ReadPackageIs
<1>2. meta \in [schema : Schemas] /\ TableFits(R, n, data)
  BY <1>1, Files DEF ReadIs, DiskFits, FileFits
<1>3. PICK schema, rows, origin : schema = meta.schema /\ rows = data.rows /\ origin = data.origin
  OBVIOUS
<1>4. schema \in Schemas /\ rows \in RowCounts /\ OriginFits(R, n, data.schema, rows, origin)
  BY <1>2, <1>3 DEF TableFits, OriginFits
<1>5. PICK from : from = [c \in DOMAIN schema |-> IF c \in mapped THEN columns[c].of ELSE origin[c]]
  OBVIOUS
<1>6. ASSUME NEW c \in DOMAIN schema PROVE from[c] \in 1 .. n /\ R[from[c]] = rows
  <2>1. CASE c \in mapped
    <3>1. c \in DOMAIN Readable("columns")
      BY <1>1, <2>1 DEF ReadIs
    <3>2. columns \notin {None, Torn} /\ c \in DOMAIN columns
      BY <1>1, <3>1 DEF ReadIs, Readable, NoColumns
    <3>3. MappedFits(R, n, columns[c])
      BY <1>1, <3>2, Files DEF ReadIs, DiskFits, FileFits
    <3>4. PICK x : x = columns[c]
      OBVIOUS
    <3>5. x.rows = rows /\ x.of \in 1 .. n /\ R[x.of] = x.rows
      BY <1>1, <1>3, <2>1, <3>3, <3>4 DEF ReadIs, MappedFits
    <3>6. from[c] = x.of
      BY <1>5, <2>1, <3>4
    <3> QED BY <3>5, <3>6
  <2>2. CASE c \notin mapped
    <3>1. c \in DOMAIN data.schema
      BY <1>1, <1>3, <2>2 DEF ReadIs
    <3>2. PICK stored : stored = data.schema
      OBVIOUS
    <3>3. origin[c] \in 1 .. n /\ R[origin[c]] = rows
      BY <1>4, <3>1, <3>2 DEF OriginFits
    <3> QED BY <1>5, <2>2, <3>3
  <2> QED BY <2>1, <2>2
<1>7. read = [schema |-> schema, rows |-> rows, origin |-> from]
  BY <1>1, <1>3, <1>5 DEF ReadIs
<1>8. from \in [DOMAIN schema -> 1 .. n]
  BY <1>5, <1>6
<1>9. OriginFits(R, n, schema, rows, from)
  BY <1>4, <1>6, <1>8 DEF OriginFits
<1>10. read.schema = schema /\ read.rows = rows /\ read.origin = from
  BY <1>7
<1> QED BY <1>7, <1>9, <1>10 DEF TableFits

(* A restored clustering or graph is one on disk with the column's hash.    *)
LEMMA SnapshotOfIs ==
  ASSUME NEW R, NEW n \in Nat, DiskFits(R, n), NEW c, NEW type, NEW read,
         SnapshotOf(c, type, read) # None
  PROVE  /\ type # "hash" /\ SnapshotFits(R, n, SnapshotOf(c, type, read))
         /\ SnapshotOf(c, type, read).hash = ContentHash(read.schema[c], read.origin[c])
<1>1. PICK name \in {"clusters", "graphs"} : name = IF type = "ivf" THEN "clusters" ELSE "graphs"
  OBVIOUS
<1>2. PICK file : file = IF type = "hash" THEN NoColumns ELSE Readable(name)
  OBVIOUS
<1>3. PICK hash : hash = ContentHash(read.schema[c], read.origin[c])
  OBVIOUS
<1>4. SnapshotOf(c, type, read) = IF c \in DOMAIN file /\ file[c].hash = hash THEN file[c] ELSE None
  BY <1>1, <1>2, <1>3 DEF SnapshotOf
<1>5. c \in DOMAIN file /\ file[c].hash = hash /\ SnapshotOf(c, type, read) = file[c]
  BY <1>4
<1>6. type # "hash" /\ disk[name] \notin {None, Torn} /\ file = disk[name]
  BY <1>2, <1>5 DEF Readable, NoColumns
<1>7. SnapshotFits(R, n, file[c])
  BY <1>5, <1>6, Files DEF DiskFits, FileFits
<1> QED BY <1>3, <1>5, <1>6, <1>7

(* The indexes LOAD restores fit the table it reads.                        *)
LEMMA RestoredFits ==
  ASSUME NEW R, NEW n \in Nat, DiskFits(R, n), NEW read, TableFits(R, n, read)
  PROVE  IndexesFit(read.schema, read.rows, read.origin, RestoredIndexes(read))
<1>1. PICK schema, rows, origin :
        schema = read.schema /\ rows = read.rows /\ origin = read.origin
  OBVIOUS
<1>2. /\ schema \in Schemas /\ rows \in RowCounts /\ origin \in [DOMAIN schema -> 1 .. n]
      /\ \A c \in DOMAIN schema : R[origin[c]] = rows
  BY <1>1 DEF TableFits, OriginFits
<1>3. PICK types, x : types = Readable("indexes") /\ x = RestoredIndexes(read)
  OBVIOUS
<1>4. PICK D : D = {d \in DOMAIN types :
                      /\ d \in DOMAIN schema /\ types[d] \in IndexTypes(schema[d])
                      /\ (SnapshotOf(d, types[d], read) # None => SnapshotOf(d, types[d], read).rows <= rows)}
  OBVIOUS
<1>5. x = [c \in D |->
        IF SnapshotOf(c, types[c], read) # None
        THEN [type |-> types[c], of |-> SnapshotOf(c, types[c], read).of, rows |-> SnapshotOf(c, types[c], read).rows]
        ELSE [type |-> types[c], of |-> origin[c], rows |-> rows]]
  BY <1>1, <1>3, <1>4 DEF RestoredIndexes
<1>6. ASSUME NEW c \in D
      PROVE  /\ c \in DOMAIN schema /\ x[c] \in [type : Types, of : Nat, rows : RowCounts]
             /\ x[c].type \in IndexTypes(schema[c]) /\ x[c].rows <= rows
             /\ schema[c] # "quantized" => x[c].of = origin[c] /\ x[c].rows = rows
  <2>1. PICK type, s : type = types[c] /\ s = SnapshotOf(c, type, read)
    OBVIOUS
  <2>2. /\ c \in DOMAIN schema /\ type \in IndexTypes(schema[c]) /\ (s # None => s.rows <= rows)
    BY <1>4, <2>1
  <2>3. type \in Types /\ origin[c] \in 1 .. n /\ R[origin[c]] = rows /\ rows \in Nat
    BY <1>2, <2>2, KindsOf, RowsAssumption
  <2>4. CASE s = None
    <3>1. x[c] = [type |-> type, of |-> origin[c], rows |-> rows]
      BY <1>5, <2>1, <2>4
    <3> QED BY <1>2, <2>2, <2>3, <3>1
  <2>5. CASE s # None
    <3>1. x[c] = [type |-> type, of |-> s.of, rows |-> s.rows]
      BY <1>5, <2>1, <2>5
    <3>2. type # "hash" /\ SnapshotFits(R, n, s) /\ s.hash = ContentHash(schema[c], origin[c])
      BY <1>1, <2>1, <2>5, SnapshotOfIs
    <3>3. s.of \in Nat /\ s.rows \in RowCounts
      BY <3>2 DEF SnapshotFits, SnapshotsOf
    <3>4. ASSUME schema[c] # "quantized" PROVE s.of = origin[c] /\ s.rows = rows
      <4>1. schema[c] = "vector"
        BY <2>2, <3>2, <3>4, KindsOf, <1>2 DEF IndexTypes, Kinds
      <4>2. s.hash = origin[c]
        BY <3>2, <4>1 DEF ContentHash
      <4> QED BY <2>3, <3>2, <4>2 DEF SnapshotFits
    <3> QED BY <2>2, <2>3, <2>5, <3>1, <3>3, <3>4
  <2> QED BY <2>4, <2>5
<1>7. DOMAIN x = D
  BY <1>5
<1>8. IndexesFit(schema, rows, origin, x)
  BY <1>5, <1>6, <1>7 DEF IndexesFit
<1> QED BY <1>1, <1>3, <1>8

(* What LOAD brings into memory fits.                                       *)
LEMMA LoadFits ==
  ASSUME NEW R, NEW n \in Nat, DiskFits(R, n), NEW mode, Loaded(mode) # Failed
  PROVE  DatasetFits(R, n, Loaded(mode))
<1>1. PICK read : read = ReadPackage(mode)
  OBVIOUS
<1>2. read # Failed /\ Loaded(mode) = Dataset(read, read.origin, RestoredIndexes(read))
  BY <1>1 DEF Loaded
<1>3. TableFits(R, n, read) /\ IndexesFit(read.schema, read.rows, read.origin, RestoredIndexes(read))
  BY <1>1, <1>2, ReadFits, RestoredFits
<1> QED BY <1>2, <1>3 DEF Dataset, DatasetFits, TableFits

(* New contents leave what fits fitting.                                    *)
LEMMA DatasetStillFits ==
  ASSUME NEW R, NEW n \in Nat, R = [i \in Nat |-> R[i]], NEW rows, NEW S, S = [R EXCEPT ![n + 1] = rows],
         NEW ds, DatasetFits(R, n, ds)
  PROVE  DatasetFits(S, n + 1, ds)
<1>1. PICK schema, count, origin : schema = ds.schema /\ count = ds.rows /\ origin = ds.origin
  OBVIOUS
<1>2. OriginFits(R, n, schema, count, origin)
  BY <1>1 DEF DatasetFits
<1>3. \A i \in 1 .. n : i \in 1 .. n + 1 /\ S[i] = R[i]
  OBVIOUS
<1>4. OriginFits(S, n + 1, schema, count, origin)
  BY <1>2, <1>3 DEF OriginFits
<1> QED BY <1>1, <1>4 DEF DatasetFits

(* The same of what is on disk.                                             *)
LEMMA DiskStillFits ==
  ASSUME NEW R, NEW n \in Nat, R = [i \in Nat |-> R[i]], NEW rows, NEW S, S = [R EXCEPT ![n + 1] = rows],
         DiskFits(R, n)
  PROVE  DiskFits(S, n + 1)
<1>1. \A i \in 1 .. n : i \in 1 .. n + 1 /\ S[i] = R[i]
  OBVIOUS
<1>2. SUFFICES ASSUME NEW f \in File, NEW x, x = disk[f], x \notin {None, Torn}
               PROVE  FileFits(S, n + 1, f, x)
  BY DEF DiskFits
<1>3. FileFits(R, n, f, x)
  BY <1>2 DEF DiskFits
<1>4. ASSUME f = "data" PROVE TableFits(S, n + 1, x)
  <2>1. PICK schema, count, origin : schema = x.schema /\ count = x.rows /\ origin = x.origin
    OBVIOUS
  <2>2. OriginFits(R, n, schema, count, origin)
    BY <1>3, <1>4, <2>1 DEF FileFits, TableFits
  <2>3. OriginFits(S, n + 1, schema, count, origin)
    BY <1>1, <2>2 DEF OriginFits
  <2> QED BY <1>3, <1>4, <2>1, <2>3 DEF FileFits, TableFits
<1>5. ASSUME f \in {"clusters", "graphs"}, NEW c \in DOMAIN x PROVE SnapshotFits(S, n + 1, x[c])
  <2>1. SnapshotFits(R, n, x[c])
    BY <1>3, <1>5 DEF FileFits
  <2>2. PICK s : s = x[c]
    OBVIOUS
  <2> QED BY <1>1, <2>1, <2>2 DEF SnapshotFits
<1>6. ASSUME f = "columns", NEW c \in DOMAIN x PROVE MappedFits(S, n + 1, x[c])
  <2>1. MappedFits(R, n, x[c])
    BY <1>3, <1>6 DEF FileFits
  <2>2. PICK s : s = x[c]
    OBVIOUS
  <2>3. s \in [of : 1 .. n, kind : Kinds, rows : RowCounts] /\ R[s.of] = s.rows
    BY <2>1, <2>2 DEF MappedFits
  <2>4. s \in [of : 1 .. n + 1, kind : Kinds, rows : RowCounts] /\ S[s.of] = s.rows
    BY <1>1, <2>3
  <2> QED BY <2>2, <2>4 DEF MappedFits
<1> QED BY <1>3, <1>4, <1>5, <1>6 DEF FileFits

(* What a SAVE of ds has left on disk when it is past its k-th file. Of     *)
(* its column files nothing is known once it has overlooked a failure.      *)
Saved(k, ds, mode) ==
  /\ k >= 1 => disk["data"] = Written("data", ds)
  /\ k >= 6 => disk["meta"] = Written("meta", ds)
  /\ k = 7 => disk["columns"] = None
  /\ k >= 8 => \/ overlooked
               \/ disk["columns"] = IF Maps(mode) /\ Mappable(ds.schema) # {}
                                    THEN Written("columns", ds) ELSE None
  /\ k >= 9 => disk["indexes"] = Written("indexes", ds)
  /\ k >= 10 => disk["clusters"] = Written("clusters", ds)
  /\ k >= 11 => disk["graphs"] = Written("graphs", ds)
  /\ k >= 12 => LET history == disk["metadata"].history
                IN HistoryFits(history) /\ history[Len(history)] = ds.schema

TypeInv == disk = [f \in File |-> disk[f]] /\ made \in Nat

Fits(R) ==
  /\ R = [i \in Nat |-> R[i]] /\ DiskFits(R, made)
  /\ dataset # None => DatasetFits(R, made, dataset)
  /\ settled # None => DatasetFits(R, made, settled)
  /\ writing # Idle => DatasetFits(R, made, writing.source)

Saving == \E k \in 0 .. 12 : writing.files = From(SaveOrder, k) /\ Saved(k, writing.source, writing.mode)
Importing == \E k \in 0 .. 6 : writing.files = From(PackageOrder, k)

WritingInv ==
  writing # Idle =>
    /\ settled = None
    /\ writing = [kind |-> writing.kind, files |-> writing.files, source |-> writing.source,
                  mode |-> writing.mode]
    /\ \/ writing.kind = "save" /\ Saving
       \/ writing.kind = "import" /\ Importing

SettledInv == settled # None => \E mode : Saved(12, settled, mode)

IInv == TypeInv /\ (\E R : Fits(R)) /\ WritingInv /\ SettledInv

(* Positions of the files LOAD reads.                                       *)
LEMMA Positions ==
  ASSUME NEW k \in 0 .. 11
  PROVE  LET f == SaveOrder[k + 1]
         IN /\ f = "data" <=> k = 0
            /\ f = "meta" <=> k = 5
            /\ f = "unmap" <=> k = 6
            /\ f = "columns" <=> k = 7
            /\ f = "indexes" <=> k = 8
            /\ f = "clusters" <=> k = 9
            /\ f = "graphs" <=> k = 10
            /\ f = "metadata" <=> k = 11
            /\ f = "unmap" \/ f \in File
<1>1. k \in {0, 1, 2, 3, 4, 5, 6, 7, 8, 9, 10, 11}
  OBVIOUS
<1>2. PICK s : s = SaveOrder
  OBVIOUS
<1>3. /\ s[1] = "data" /\ s[2] = "schema" /\ s[3] = "stats"
      /\ s[4] = "lineage" /\ s[5] = "manifest" /\ s[6] = "meta"
      /\ s[7] = "unmap" /\ s[8] = "columns" /\ s[9] = "indexes"
      /\ s[10] = "clusters" /\ s[11] = "graphs" /\ s[12] = "metadata"
  BY <1>2, Orders
<1>4. /\ s[k + 1] = "data" <=> k = 0
      /\ s[k + 1] = "meta" <=> k = 5
      /\ s[k + 1] = "unmap" <=> k = 6
      /\ s[k + 1] = "columns" <=> k = 7
  BY <1>1, <1>3
<1>5. /\ s[k + 1] = "indexes" <=> k = 8
      /\ s[k + 1] = "clusters" <=> k = 9
      /\ s[k + 1] = "graphs" <=> k = 10
      /\ s[k + 1] = "metadata" <=> k = 11
  BY <1>1, <1>3
<1>6. s[k + 1] = "unmap" \/ s[k + 1] \in File
  BY <1>1, <1>3, Files
<1> QED BY <1>2, <1>4, <1>5, <1>6

(* A file but the version record is written alike whatever is on disk.      *)
LEMMA WrittenStays ==
  ASSUME NEW f, f # "metadata", NEW ds
  PROVE  Written(f, ds)' = Written(f, ds)
BY DEF Written

(* A SAVE loses nothing while the disk stays as it is.                      *)
LEMMA SavedStays ==
  ASSUME NEW k, NEW ds, NEW mode, Saved(k, ds, mode), disk' = disk, overlooked' = overlooked
  PROVE  Saved(k, ds, mode)'
<1>1. /\ Written("data", ds)' = Written("data", ds) /\ Written("meta", ds)' = Written("meta", ds)
      /\ Written("columns", ds)' = Written("columns", ds)
      /\ Written("indexes", ds)' = Written("indexes", ds)
      /\ Written("clusters", ds)' = Written("clusters", ds)
      /\ Written("graphs", ds)' = Written("graphs", ds)
  BY WrittenStays
<1> QED BY <1>1 DEF Saved

(* A file is written, and what is there fits.                               *)
LEMMA DiskFitsWith ==
  ASSUME NEW R, NEW n, DiskFits(R, n), TypeInv, NEW f \in File, NEW x,
         x \in {None, Torn} \/ FileFits(R, n, f, x), disk' = [disk EXCEPT ![f] = x]
  PROVE  DiskFits(R, n)' /\ disk' = [g \in File |-> disk'[g]]
<1>1. disk' = [g \in File |-> IF g = f THEN x ELSE disk[g]]
  BY DEF TypeInv
<1>2. disk' = [g \in File |-> disk'[g]]
  BY <1>1
<1>3. ASSUME NEW g \in File PROVE disk'[g] \in {None, Torn} \/ FileFits(R, n, g, disk'[g])
  <2>1. CASE g = f
    BY <1>1, <2>1
  <2>2. CASE g # f
    <3>1. disk'[g] = disk[g]
      BY <1>1, <2>2
    <3> QED BY <3>1 DEF DiskFits
  <2> QED BY <2>1, <2>2
<1> QED BY <1>2, <1>3 DEF DiskFits

(* Nor does a settled SAVE.                                                 *)
LEMMA SettledStays ==
  ASSUME SettledInv, disk' = disk, settled' = settled, overlooked' = overlooked
  PROVE  SettledInv'
<1>1. PICK ds : ds = settled
  OBVIOUS
<1>2. settled' = ds
  BY <1>1
<1>3. CASE ds # None
  <2>1. PICK mode : Saved(12, ds, mode)
    BY <1>1, <1>3 DEF SettledInv
  <2>2. Saved(12, ds, mode)'
    BY <2>1, SavedStays
  <2> QED BY <1>2, <2>2 DEF SettledInv
<1>4. CASE ds = None
  BY <1>2, <1>4 DEF SettledInv
<1> QED BY <1>3, <1>4

(* The invariant holds of an empty directory.                               *)
LEMMA InitHolds == Init => IInv
<1>1. SUFFICES ASSUME Init PROVE IInv
  OBVIOUS
<1>2. PICK R : R = [i \in Nat |-> 0]
  OBVIOUS
<1>3. \A f \in File : disk[f] = None
  BY <1>1 DEF Init
<1>4. Fits(R)
  BY <1>1, <1>2, <1>3 DEF Init, Fits, DiskFits
<1> QED BY <1>1, <1>4 DEF Init, IInv, TypeInv, WritingInv, SettledInv

(* The invariant does not depend on anything else.                          *)
LEMMA StutterKeeps == ASSUME IInv, UNCHANGED vars PROVE IInv'
<1>1. PICK R : Fits(R)
  BY DEF IInv
<1>2. Fits(R)'
  BY <1>1 DEF Fits, DiskFits, vars
<1>3. ASSUME Saving PROVE Saving'
  <2>1. PICK k \in 0 .. 12 : writing.files = From(SaveOrder, k) /\ Saved(k, writing.source, writing.mode)
    BY <1>3 DEF Saving
  <2>2. PICK ds, mode : ds = writing.source /\ mode = writing.mode
    OBVIOUS
  <2>3. Saved(k, ds, mode)'
    BY <2>1, <2>2, SavedStays DEF vars
  <2> QED BY <2>1, <2>2, <2>3 DEF Saving, vars
<1>4. WritingInv'
  BY <1>3 DEF IInv, WritingInv, Importing, vars
<1>5. SettledInv'
  BY SettledStays DEF IInv, vars
<1> QED BY <1>2, <1>4, <1>5 DEF IInv, TypeInv, vars

(* The columns of a schema are among those of all schemas.                  *)
LEMMA ColumnsOf ==
  ASSUME NEW schema \in Schemas, NEW C, C \subseteq DOMAIN schema
  PROVE  C \in ColumnSets
BY DEF ColumnSets

(* After a complete SAVE, LOAD reads the table that was saved, by column    *)
(* files it wrote or not, unless it is to map columns and there are none.   *)
LEMMA SavedReads ==
  ASSUME NEW R, NEW n \in Nat, NEW ds, DatasetFits(R, n, ds), NEW m, Saved(12, ds, m),
         NEW mode \in Modes, ~(mode = "explicit" /\ disk["columns"] = None),
         ~(overlooked /\ UsesColumnFiles(mode))
  PROVE  ReadPackage(mode) = [schema |-> ds.schema, rows |-> ds.rows, origin |-> ds.origin]
<1>1. PICK schema, rows, origin : schema = ds.schema /\ rows = ds.rows /\ origin = ds.origin
  OBVIOUS
<1>2. /\ schema \in Schemas /\ rows \in RowCounts /\ origin \in [DOMAIN schema -> 1 .. n]
  BY <1>1 DEF DatasetFits, OriginFits
<1>3. DOMAIN schema \in ColumnSets /\ Mappable(schema) \in ColumnSets
  BY <1>2, ColumnsOf DEF Mappable
<1>4. PICK meta, data, columns : meta = disk["meta"] /\ data = disk["data"] /\ columns = disk["columns"]
  OBVIOUS
<1>5. meta = [schema |-> schema] /\ data = [schema |-> schema, rows |-> rows, origin |-> origin]
  BY <1>1, <1>4 DEF Saved, Written
<1>6. meta \in [schema : Schemas] /\ data \in Tables(DOMAIN schema)
  BY <1>2, <1>5 DEF Tables
<1>7. meta \notin {None, Torn} /\ data \notin {None, Torn}
  BY <1>3, <1>6, SentinelsAssumption DEF Whole
<1>8. PICK full : full = [c \in Mappable(schema) |-> [of |-> origin[c], kind |-> schema[c], rows |-> rows]]
  OBVIOUS
<1>9. overlooked \/ columns = None \/ (columns = full /\ Mappable(schema) # {})
  BY <1>1, <1>4, <1>8 DEF Saved, Written
<1>10. full \notin {None, Torn}
  <2>1. full \in [Mappable(schema) -> [of : Nat, kind : Kinds, rows : RowCounts]]
    BY <1>2, <1>8, KindsOf DEF Mappable
  <2> QED BY <1>3, <2>1, SentinelsAssumption DEF Whole
<1>11. PICK mapped : mapped = IF UsesColumnFiles(mode) THEN Mappable(schema) \cap DOMAIN Readable("columns") ELSE {}
  OBVIOUS
<1>12. UsesColumnFiles(mode) => columns = full /\ mapped = Mappable(schema) /\ mapped # {}
  <2>1. SUFFICES ASSUME UsesColumnFiles(mode)
                 PROVE  columns = full /\ mapped = Mappable(schema) /\ mapped # {}
    OBVIOUS
  <2>2. columns = full /\ Mappable(schema) # {}
    BY <1>4, <1>9, <2>1 DEF UsesColumnFiles
  <2>3. Readable("columns") = full
    BY <1>4, <1>10, <2>2 DEF Readable
  <2>4. DOMAIN full = Mappable(schema)
    BY <1>8
  <2> QED BY <1>11, <2>1, <2>2, <2>3, <2>4
<1>13. mapped \subseteq Mappable(schema) /\ (mapped # {} => UsesColumnFiles(mode))
  BY <1>11
<1>14. \A c \in mapped : columns[c] = [of |-> origin[c], kind |-> schema[c], rows |-> rows]
  BY <1>8, <1>12, <1>13
<1>15. ~(UsesColumnFiles(mode) /\ mapped = {})
  BY <1>12
<1>16. ASSUME NEW c \in mapped
       PROVE  columns[c].kind = schema[c] /\ columns[c].rows = rows /\ columns[c].of = origin[c]
  <2>1. PICK x : x = columns[c]
    OBVIOUS
  <2>2. x = [of |-> origin[c], kind |-> schema[c], rows |-> rows]
    BY <1>14, <2>1
  <2> QED BY <2>1, <2>2
<1>17. \A c \in DOMAIN schema \ mapped : c \in DOMAIN schema /\ Decodable(schema[c], schema[c])
  BY DEF Decodable
<1>18. PICK from : from = [c \in DOMAIN schema |-> IF c \in mapped THEN columns[c].of ELSE origin[c]]
  OBVIOUS
<1>19. from = origin
  <2>1. \A c \in DOMAIN schema : from[c] = origin[c]
    BY <1>16, <1>18
  <2> QED BY <1>2, <1>18, <2>1
<1>20. /\ meta.schema = schema /\ data.schema = schema /\ data.rows = rows /\ data.origin = origin
  BY <1>5
<1>21. PICK bad \in BOOLEAN :
        bad <=> \/ meta \in {None, Torn} \/ data \in {None, Torn}
                \/ UsesColumnFiles(mode) /\ mapped = {}
                \/ \E c \in mapped : columns[c].kind # schema[c] \/ columns[c].rows # rows
                \/ \E c \in DOMAIN schema \ mapped :
                     c \notin DOMAIN schema \/ ~Decodable(schema[c], schema[c])
  OBVIOUS
<1>22. ReadPackage(mode) = IF bad THEN Failed ELSE [schema |-> schema, rows |-> rows, origin |-> from]
  BY <1>4, <1>11, <1>18, <1>20, <1>21 DEF ReadPackage
<1>23. ~bad
  BY <1>7, <1>15, <1>16, <1>17, <1>21
<1> QED BY <1>1, <1>19, <1>22, <1>23

(* After a complete SAVE, every saved index is restored, of its type.       *)
LEMMA SavedRestores ==
  ASSUME NEW R, NEW n \in Nat, NEW ds, DatasetFits(R, n, ds), NEW m, Saved(12, ds, m),
         NEW read, read.schema = ds.schema, read.rows = ds.rows
  PROVE  /\ DOMAIN RestoredIndexes(read) = DOMAIN ds.indexes
         /\ \A c \in DOMAIN ds.indexes : RestoredIndexes(read)[c].type = ds.indexes[c].type
<1>1. PICK schema, rows, indexes : schema = ds.schema /\ rows = ds.rows /\ indexes = ds.indexes
  OBVIOUS
<1>2. /\ schema \in Schemas /\ DOMAIN indexes \subseteq DOMAIN schema
      /\ indexes \in [DOMAIN indexes -> [type : Types, of : Nat, rows : RowCounts]]
      /\ \A c \in DOMAIN indexes : indexes[c].type \in IndexTypes(schema[c]) /\ indexes[c].rows <= rows
  BY <1>1 DEF DatasetFits, OriginFits, IndexesFit
<1>3. PICK types : types = [c \in DOMAIN indexes |-> indexes[c].type]
  OBVIOUS
<1>4. Readable("indexes") = types
  <2>1. disk["indexes"] = types
    BY <1>1, <1>3 DEF Saved, Written
  <2>2. types \in [DOMAIN indexes -> Types] /\ DOMAIN indexes \in ColumnSets
    BY <1>2, <1>3, ColumnsOf
  <2>3. types \notin {None, Torn}
    BY <2>2, SentinelsAssumption DEF Whole
  <2> QED BY <2>1, <2>3 DEF Readable
<1>5. ASSUME NEW c \in DOMAIN indexes,
             SnapshotOf(c, types[c], read) # None
      PROVE  SnapshotOf(c, types[c], read).rows <= rows
  <2>1. PICK type : type = types[c]
    OBVIOUS
  <2>2. PICK name \in {"clusters", "graphs"} : name = IF type = "ivf" THEN "clusters" ELSE "graphs"
    OBVIOUS
  <2>3. PICK file : file = IF type = "hash" THEN NoColumns ELSE Readable(name)
    OBVIOUS
  <2>4. PICK hash : hash = ContentHash(read.schema[c], read.origin[c])
    OBVIOUS
  <2>5. SnapshotOf(c, type, read) = IF c \in DOMAIN file /\ file[c].hash = hash THEN file[c] ELSE None
    BY <2>2, <2>3, <2>4 DEF SnapshotOf
  <2>6. c \in DOMAIN file /\ SnapshotOf(c, type, read) = file[c]
    BY <1>5, <2>1, <2>5
  <2>7. file = disk[name]
    BY <2>3, <2>6 DEF Readable, NoColumns
  <2>8. PICK kind : file = Snapshots(ds, kind)
    BY <2>2, <2>7 DEF Saved, Written
  <2>9. file[c].rows = indexes[c].rows
    BY <1>1, <2>6, <2>8, SnapshotsFit
  <2> QED BY <1>2, <2>1, <2>6, <2>9
<1>6. PICK x, D :
        /\ x = RestoredIndexes(read)
        /\ D = {d \in DOMAIN types :
                  /\ d \in DOMAIN schema /\ types[d] \in IndexTypes(schema[d])
                  /\ (SnapshotOf(d, types[d], read) # None => SnapshotOf(d, types[d], read).rows <= rows)}
  OBVIOUS
<1>7. x = [c \in D |->
        IF SnapshotOf(c, types[c], read) # None
        THEN [type |-> types[c], of |-> SnapshotOf(c, types[c], read).of, rows |-> SnapshotOf(c, types[c], read).rows]
        ELSE [type |-> types[c], of |-> read.origin[c], rows |-> read.rows]]
  BY <1>1, <1>4, <1>6 DEF RestoredIndexes
<1>8. D = DOMAIN indexes
  BY <1>2, <1>3, <1>5, <1>6
<1>9. ASSUME NEW c \in DOMAIN indexes PROVE x[c].type = indexes[c].type
  BY <1>3, <1>7, <1>8
<1>10. DOMAIN x = D
  BY <1>7
<1> QED BY <1>1, <1>6, <1>8, <1>9, <1>10

(* What LOAD promises after a complete SAVE of ds.                          *)
LoadsAs(mode, ds) ==
  LET unsure == overlooked /\ UsesColumnFiles(mode)
  IN IF Loaded(mode) = Failed THEN unsure \/ (mode = "explicit" /\ disk["columns"] = None)
     ELSE /\ Loaded(mode).schema = ds.schema /\ Loaded(mode).rows = ds.rows
          /\ \A c \in DOMAIN ds.schema :
               Loaded(mode).origin[c] = ds.origin[c] \/ (unsure /\ c \in Mappable(ds.schema))
          /\ DOMAIN Loaded(mode).indexes = DOMAIN ds.indexes
          /\ \A c \in DOMAIN ds.indexes : Loaded(mode).indexes[c].type = ds.indexes[c].type

(* Where column files are not as the SAVE would have them, LOAD still reads *)
(* its schema and rows, and every column it does not map.                   *)
LEMMA UnsureLoads ==
  ASSUME NEW R, NEW n \in Nat, NEW ds, DatasetFits(R, n, ds), NEW m, Saved(12, ds, m),
         NEW mode \in Modes, overlooked, UsesColumnFiles(mode)
  PROVE  LoadsAs(mode, ds)
<1>1. CASE Loaded(mode) = Failed
  BY <1>1 DEF LoadsAs
<1>2. CASE Loaded(mode) # Failed
  <2>1. PICK read : read = ReadPackage(mode)
    OBVIOUS
  <2>2. PICK x : x = RestoredIndexes(read)
    OBVIOUS
  <2>3. read # Failed /\ Loaded(mode) = [schema |-> read.schema, rows |-> read.rows,
                                         origin |-> read.origin, indexes |-> x]
    BY <1>2, <2>1, <2>2 DEF Loaded, Dataset
  <2>4. PICK meta, data, columns, mapped : ReadIs(mode, read, meta, data, columns, mapped)
    BY <2>1, <2>3, ReadPackageIs
  <2>5. PICK schema, rows, origin : schema = ds.schema /\ rows = ds.rows /\ origin = ds.origin
    OBVIOUS
  <2>6. meta = [schema |-> schema] /\ data = [schema |-> schema, rows |-> rows, origin |-> origin]
    BY <2>4, <2>5 DEF ReadIs, Saved, Written
  <2>7. meta.schema = schema /\ data.rows = rows /\ data.origin = origin
    BY <2>6
  <2>8. PICK from : from = [c \in DOMAIN schema |-> IF c \in mapped THEN columns[c].of ELSE origin[c]]
    OBVIOUS
  <2>9. read = [schema |-> schema, rows |-> rows, origin |-> from] /\ mapped \subseteq Mappable(schema)
    BY <2>4, <2>7, <2>8 DEF ReadIs
  <2>10. read.schema = schema /\ read.rows = rows /\ read.origin = from
    BY <2>9
  <2>11. \A c \in DOMAIN schema : from[c] = origin[c] \/ c \in Mappable(schema)
    BY <2>8, <2>9
  <2>12. DOMAIN x = DOMAIN ds.indexes /\ \A c \in DOMAIN ds.indexes : x[c].type = ds.indexes[c].type
    BY <2>2, <2>5, <2>10, SavedRestores
  <2>13. PICK ld : ld = Loaded(mode)
    OBVIOUS
  <2>14. ld = [schema |-> schema, rows |-> rows, origin |-> from, indexes |-> x]
    BY <2>3, <2>10, <2>13
  <2>15. ld.schema = schema /\ ld.rows = rows /\ ld.origin = from /\ ld.indexes = x
    BY <2>14
  <2> QED BY <1>2, <2>5, <2>11, <2>12, <2>13, <2>15 DEF LoadsAs
<1> QED BY <1>1, <1>2

(* After a complete SAVE, LOAD gives back what was saved.                   *)
LEMMA SavedLoads ==
  ASSUME NEW R, NEW n \in Nat, NEW ds, DatasetFits(R, n, ds), DiskFits(R, n), NEW m, Saved(12, ds, m),
         NEW mode \in Modes
  PROVE  LoadsAs(mode, ds)
<1>1. CASE mode = "explicit" /\ disk["columns"] = None
  <2>1. UsesColumnFiles(mode) /\ Readable("columns") = NoColumns
    BY <1>1 DEF UsesColumnFiles, Readable
  <2>2. \A schema : Mappable(schema) \cap DOMAIN Readable("columns") = {}
    BY <2>1 DEF NoColumns
  <2>3. ReadPackage(mode) = Failed
    BY <2>1, <2>2 DEF ReadPackage
  <2>4. Loaded(mode) = Failed
    BY <2>3 DEF Loaded
  <2> QED BY <1>1, <2>4 DEF LoadsAs
<1>2. CASE overlooked /\ UsesColumnFiles(mode)
  BY <1>2, UnsureLoads
<1>3. CASE ~(mode = "explicit" /\ disk["columns"] = None) /\ ~(overlooked /\ UsesColumnFiles(mode))
  <2>1. PICK read : read = [schema |-> ds.schema, rows |-> ds.rows, origin |-> ds.origin]
    OBVIOUS
  <2>2. PICK x : x = RestoredIndexes(read)
    OBVIOUS
  <2>3. ReadPackage(mode) = read
    BY <1>3, <2>1, SavedReads
  <2>4. PICK schema, rows, origin : schema = ds.schema /\ rows = ds.rows /\ origin = ds.origin
    OBVIOUS
  <2>5. schema \in Schemas /\ rows \in RowCounts /\ origin \in [DOMAIN schema -> 1 .. n]
    BY <2>4 DEF DatasetFits, OriginFits
  <2>6. read = [schema |-> schema, rows |-> rows, origin |-> origin]
    BY <2>1, <2>4
  <2>7. TableFits(R, n, read)
    BY <2>1 DEF TableFits, DatasetFits
  <2>8. IndexesFit(schema, rows, origin, x)
    BY <2>2, <2>6, <2>7, RestoredFits
  <2>9. DOMAIN schema \in ColumnSets /\ DOMAIN x \in ColumnSets
    BY <2>5, <2>8, ColumnsOf DEF IndexesFit
  <2>10. origin \in [DOMAIN schema -> Nat]
    BY <2>5
  <2>11. read \in Tables(DOMAIN schema)
    BY <2>5, <2>6, <2>10 DEF Tables
  <2>12. read # Failed
    BY <2>9, <2>11, SentinelsAssumption
  <2>13. PICK ld : ld = Dataset(read, read.origin, RestoredIndexes(read))
    OBVIOUS
  <2>14. ld = [schema |-> schema, rows |-> rows, origin |-> origin, indexes |-> x]
    BY <2>2, <2>6, <2>13 DEF Dataset
  <2>15. ld \in Datasets(DOMAIN schema, DOMAIN x)
    BY <2>5, <2>8, <2>10, <2>14 DEF Datasets, IndexesFit
  <2>16. ld # Failed /\ Loaded(mode) = ld
    BY <2>3, <2>9, <2>12, <2>13, <2>15, SentinelsAssumption DEF Loaded
  <2>17. DOMAIN x = DOMAIN ds.indexes /\ \A c \in DOMAIN ds.indexes : x[c].type = ds.indexes[c].type
    BY <2>1, <2>2, SavedRestores
  <2>18. ld.schema = schema /\ ld.rows = rows /\ ld.origin = origin /\ ld.indexes = x
    BY <2>14
  <2> QED BY <2>4, <2>16, <2>17, <2>18 DEF LoadsAs
<1> QED BY <1>1, <1>2, <1>3

(* The invariant says that a settled SAVE loads, and that LIST VERSIONS     *)
(* ends with its schema.                                                    *)
LEMMA InvLoads == IInv => SettledLoads
<1>1. SUFFICES ASSUME IInv, settled # None PROVE SettledLoads
  BY DEF SettledLoads
<1>2. PICK R, ds, m : Fits(R) /\ ds = settled /\ Saved(12, ds, m)
  <2>1. PICK R : Fits(R)
    BY <1>1 DEF IInv
  <2>2. PICK m : Saved(12, settled, m)
    BY <1>1 DEF IInv, SettledInv
  <2> QED BY <2>1, <2>2
<1>3. DatasetFits(R, made, ds) /\ DiskFits(R, made) /\ made \in Nat
  BY <1>1, <1>2 DEF IInv, TypeInv, Fits
<1>4. \A mode \in Modes : LoadsAs(mode, ds)
  BY <1>2, <1>3, SavedLoads
<1>5. PICK history : history = disk["metadata"].history
  OBVIOUS
<1>6. HistoryFits(history) /\ history[Len(history)] = ds.schema
  BY <1>2, <1>5 DEF Saved
<1> QED BY <1>2, <1>4, <1>5, <1>6 DEF SettledLoads, LoadsAs, HistoryFits

(* The invariant says that indexes of float32 columns are about them.       *)
LEMMA InvDescribes == IInv => VectorIndexesDescribe
<1>1. SUFFICES ASSUME IInv, dataset # None PROVE VectorIndexesDescribe
  BY DEF VectorIndexesDescribe
<1>2. PICK R : DatasetFits(R, made, dataset)
  BY <1>1 DEF IInv, Fits
<1> QED BY <1>2 DEF DatasetFits, IndexesFit, VectorIndexesDescribe

(* The empty table of columns is an index table of any dataset.             *)
LEMMA NoIndexesFit ==
  ASSUME NEW schema, NEW rows, NEW origin
  PROVE  IndexesFit(schema, rows, origin, NoColumns)
BY DEF IndexesFit, NoColumns

(* New contents fit the table of rows that has theirs.                      *)
LEMMA NewFits ==
  ASSUME NEW R, NEW n \in Nat, R = [i \in Nat |-> R[i]], NEW schema \in Schemas, NEW rows \in RowCounts,
         NEW S, S = [R EXCEPT ![n + 1] = rows],
         NEW origin, origin = [c \in DOMAIN schema |-> n + 1],
         NEW indexes, IndexesFit(schema, rows, origin, indexes)
  PROVE  DatasetFits(S, n + 1, [schema |-> schema, rows |-> rows, origin |-> origin, indexes |-> indexes])
<1>1. S[n + 1] = rows /\ n + 1 \in 1 .. n + 1
  OBVIOUS
<1>2. OriginFits(S, n + 1, schema, rows, origin)
  BY <1>1 DEF OriginFits
<1> QED BY <1>2 DEF DatasetFits

(* What was made for the table of rows R fits it with new contents.         *)
LEMMA StillFits ==
  ASSUME NEW R, IInv, Fits(R), NEW rows
  PROVE  LET S == [R EXCEPT ![made + 1] = rows]
         IN /\ S = [i \in Nat |-> S[i]] /\ DiskFits(S, made + 1)
            /\ dataset # None => DatasetFits(S, made + 1, dataset)
            /\ settled # None => DatasetFits(S, made + 1, settled)
<1>0. PICK S : S = [R EXCEPT ![made + 1] = rows]
  OBVIOUS
<1>1. made \in Nat /\ R = [i \in Nat |-> R[i]] /\ DiskFits(R, made)
  BY DEF IInv, TypeInv, Fits
<1>2. S = [i \in Nat |-> S[i]]
  BY <1>0, <1>1
<1>3. DiskFits(S, made + 1)
  BY <1>0, <1>1, DiskStillFits
<1>4. ASSUME dataset # None PROVE DatasetFits(S, made + 1, dataset)
  BY <1>0, <1>1, <1>4, DatasetStillFits DEF Fits
<1>5. ASSUME settled # None PROVE DatasetFits(S, made + 1, settled)
  BY <1>0, <1>1, <1>5, DatasetStillFits DEF Fits
<1> QED BY <1>0, <1>2, <1>3, <1>4, <1>5

(* Indexes rebuilt over new values fit these.                               *)
LEMMA RebuiltFits ==
  ASSUME NEW R, NEW n \in Nat, NEW ds, DatasetFits(R, n, ds), NEW schema \in Schemas, NEW rows \in RowCounts,
         \A c \in DOMAIN ds.schema \cap DOMAIN schema : schema[c] = ds.schema[c],
         NEW id \in Nat, NEW contents, contents = [id |-> id, schema |-> schema, rows |-> rows],
         NEW origin, origin = [c \in DOMAIN schema |-> id]
  PROVE  IndexesFit(schema, rows, origin, Rebuilt(ds.indexes, contents))
<1>1. PICK old, indexes : old = ds.schema /\ indexes = ds.indexes
  OBVIOUS
<1>2. /\ DOMAIN indexes \subseteq DOMAIN old
      /\ indexes \in [DOMAIN indexes -> [type : Types, of : Nat, rows : RowCounts]]
      /\ \A c \in DOMAIN indexes : indexes[c].type \in IndexTypes(old[c])
  BY <1>1 DEF DatasetFits, IndexesFit
<1>3. PICK x : x = Rebuilt(indexes, contents)
  OBVIOUS
<1>4. x = [c \in DOMAIN indexes \cap DOMAIN schema |-> [indexes[c] EXCEPT !.of = id, !.rows = rows]]
  BY <1>3 DEF Rebuilt, Columns
<1>5. ASSUME NEW c \in DOMAIN x
      PROVE  /\ c \in DOMAIN schema /\ x[c] \in [type : Types, of : Nat, rows : RowCounts]
             /\ x[c].type \in IndexTypes(schema[c]) /\ x[c].rows <= rows
             /\ x[c].of = origin[c] /\ x[c].rows = rows
  <2>1. c \in DOMAIN indexes /\ c \in DOMAIN schema /\ c \in DOMAIN old
    BY <1>2, <1>4
  <2>2. PICK i : i = indexes[c]
    OBVIOUS
  <2>3. i \in [type : Types, of : Nat, rows : RowCounts] /\ i.type \in IndexTypes(old[c])
    BY <1>2, <2>1, <2>2
  <2>4. old[c] = schema[c]
    BY <1>1, <2>1
  <2>5. x[c] = [type |-> i.type, of |-> id, rows |-> rows]
    BY <1>4, <2>1, <2>2, <2>3
  <2>6. rows \in Nat
    BY RowsAssumption
  <2> QED BY <2>1, <2>3, <2>4, <2>5, <2>6
<1>6. x = [c \in DOMAIN x |-> x[c]] /\ DOMAIN x \subseteq DOMAIN schema
  BY <1>4
<1>7. x \in [DOMAIN x -> [type : Types, of : Nat, rows : RowCounts]]
  BY <1>5, <1>6
<1>8. IndexesFit(schema, rows, origin, x)
  BY <1>5, <1>6, <1>7 DEF IndexesFit
<1> QED BY <1>1, <1>3, <1>8

(* Statements that change all values or rows.                               *)
LEMMA ChangeKeeps ==
  ASSUME IInv, NEW schema \in Schemas, NEW rows \in RowCounts, Change(schema, rows)
  PROVE  IInv'
<1>1. PICK R : Fits(R)
  BY DEF IInv
<1>2. PICK S : S = [R EXCEPT ![made + 1] = rows]
  OBVIOUS
<1>3. made \in Nat /\ R = [i \in Nat |-> R[i]]
  BY <1>1 DEF IInv, TypeInv, Fits
<1>4. PICK contents, origin, indexes :
        /\ contents = [id |-> made + 1, schema |-> schema, rows |-> rows]
        /\ origin = [c \in DOMAIN schema |-> made + 1]
        /\ indexes = IF dataset = None THEN NoColumns ELSE Rebuilt(dataset.indexes, contents)
  OBVIOUS
<1>5. /\ writing = Idle /\ made' = made + 1
      /\ UNCHANGED <<disk, writing, interruptions, settled, begun, overlooked>>
      /\ dataset # None => \A c \in DOMAIN dataset.schema \cap DOMAIN schema : schema[c] = dataset.schema[c]
      /\ dataset' = [schema |-> schema, rows |-> rows, origin |-> origin, indexes |-> indexes]
  BY <1>4 DEF Change, NewContents, Dataset, OriginOf, Columns
<1>6. IndexesFit(schema, rows, origin, indexes)
  <2>1. CASE dataset = None
    BY <1>4, <2>1, NoIndexesFit
  <2>2. CASE dataset # None
    <3>1. DatasetFits(R, made, dataset) /\ made + 1 \in Nat
      BY <1>1, <1>3, <2>2 DEF Fits
    <3> QED BY <1>3, <1>4, <1>5, <2>2, <3>1, RebuiltFits
  <2> QED BY <2>1, <2>2
<1>7. DatasetFits(S, made + 1, [schema |-> schema, rows |-> rows, origin |-> origin, indexes |-> indexes])
  BY <1>2, <1>3, <1>4, <1>6, NewFits
<1>8. /\ S = [i \in Nat |-> S[i]] /\ DiskFits(S, made + 1)
      /\ settled # None => DatasetFits(S, made + 1, settled)
  BY <1>1, <1>2, StillFits
<1>9. DiskFits(S, made)'
  BY <1>5, <1>8 DEF DiskFits
<1>10. Fits(S)'
  BY <1>5, <1>7, <1>8, <1>9 DEF Fits
<1>11. SettledInv'
  BY <1>5, SettledStays DEF IInv
<1>12. WritingInv' /\ TypeInv'
  BY <1>3, <1>5 DEF IInv, TypeInv, WritingInv
<1> QED BY <1>10, <1>11, <1>12 DEF IInv

(* CREATE INDEX: an index over the values the column has.                   *)
LEMMA CreateIndexKeeps ==
  ASSUME IInv, NEW c, NEW type, CreateIndex(c, type)
  PROVE  IInv'
<1>1. PICK R : Fits(R)
  BY DEF IInv
<1>2. /\ writing = Idle /\ dataset # None
      /\ c \in DOMAIN dataset.schema \ DOMAIN dataset.indexes /\ type \in IndexTypes(dataset.schema[c])
      /\ UNCHANGED <<disk, writing, made, interruptions, settled, begun, overlooked>>
      /\ dataset' = [dataset EXCEPT !.indexes =
           [d \in DOMAIN @ \cup {c} |->
              IF d = c THEN [type |-> type, of |-> dataset.origin[c], rows |-> dataset.rows] ELSE @[d]]]
  BY DEF CreateIndex
<1>3. PICK schema, rows, origin, indexes :
        dataset = [schema |-> schema, rows |-> rows, origin |-> origin, indexes |-> indexes]
  BY <1>1, <1>2 DEF Fits, DatasetFits
<1>4. DatasetFits(R, made, dataset)
  BY <1>1, <1>2 DEF Fits
<1>5. OriginFits(R, made, schema, rows, origin) /\ IndexesFit(schema, rows, origin, indexes)
  BY <1>3, <1>4 DEF DatasetFits
<1>6. PICK x : x = [d \in DOMAIN indexes \cup {c} |->
                      IF d = c THEN [type |-> type, of |-> origin[c], rows |-> rows] ELSE indexes[d]]
  OBVIOUS
<1>7. dataset' = [schema |-> schema, rows |-> rows, origin |-> origin, indexes |-> x]
  BY <1>2, <1>3, <1>6
<1>8. c \in DOMAIN schema /\ type \in IndexTypes(schema[c])
  BY <1>2, <1>3
<1>9. schema \in Schemas /\ rows \in RowCounts /\ rows \in Nat /\ origin[c] \in Nat
  BY <1>5, <1>8, RowsAssumption DEF OriginFits
<1>10. type \in Types
  BY <1>8, <1>9, KindsOf
<1>11. /\ x[c] = [type |-> type, of |-> origin[c], rows |-> rows]
       /\ \A d \in DOMAIN x : d # c => d \in DOMAIN indexes /\ x[d] = indexes[d]
  BY <1>6
<1>12. ASSUME NEW d \in DOMAIN x
       PROVE  /\ d \in DOMAIN schema /\ x[d] \in [type : Types, of : Nat, rows : RowCounts]
              /\ x[d].type \in IndexTypes(schema[d]) /\ x[d].rows <= rows
              /\ schema[d] # "quantized" => x[d].of = origin[d] /\ x[d].rows = rows
  <2>1. CASE d = c
    BY <1>8, <1>9, <1>10, <1>11, <2>1
  <2>2. CASE d # c
    BY <1>5, <1>11, <2>2 DEF IndexesFit
  <2> QED BY <2>1, <2>2
<1>13. IndexesFit(schema, rows, origin, x)
  BY <1>6, <1>12 DEF IndexesFit
<1>14. DatasetFits(R, made, [schema |-> schema, rows |-> rows, origin |-> origin, indexes |-> x])
  BY <1>5, <1>13 DEF DatasetFits
<1>15. DiskFits(R, made)'
  BY <1>1, <1>2 DEF Fits, DiskFits
<1>16. Fits(R)'
  BY <1>1, <1>2, <1>7, <1>14, <1>15 DEF Fits
<1>17. SettledInv'
  BY <1>2, SettledStays DEF IInv
<1>18. WritingInv' /\ TypeInv'
  BY <1>2 DEF IInv, TypeInv, WritingInv
<1> QED BY <1>16, <1>17, <1>18 DEF IInv

(* SAVE begins: nothing is written yet.                                     *)
LEMMA BeginSaveKeeps ==
  ASSUME IInv, NEW mode \in Modes, BeginSave(mode)
  PROVE  IInv'
<1>1. PICK R : Fits(R)
  BY DEF IInv
<1>2. /\ writing = Idle /\ dataset # None /\ settled' = None
      /\ UNCHANGED <<dataset, disk, made, interruptions>>
      /\ writing' = [kind |-> "save", files |-> SaveOrder, source |-> dataset, mode |-> mode]
  BY DEF BeginSave
<1>3. DiskFits(R, made)'
  BY <1>1, <1>2 DEF Fits, DiskFits
<1>4. Fits(R)'
  BY <1>1, <1>2, <1>3 DEF Fits
<1>5. Saved(0, writing.source, writing.mode)'
  BY DEF Saved
<1>6. Saving'
  BY <1>2, <1>5, FromStart DEF Saving
<1>7. WritingInv' /\ SettledInv' /\ TypeInv'
  BY <1>2, <1>6 DEF IInv, WritingInv, SettledInv, TypeInv
<1> QED BY <1>4, <1>7 DEF IInv

(* IMPORT begins, of contents of its own.                                   *)
LEMMA BeginImportKeeps ==
  ASSUME IInv, NEW schema \in Schemas, NEW rows \in RowCounts, BeginImport(schema, rows)
  PROVE  IInv'
<1>1. PICK R : Fits(R)
  BY DEF IInv
<1>2. PICK S, origin : S = [R EXCEPT ![made + 1] = rows] /\ origin = [c \in DOMAIN schema |-> made + 1]
  OBVIOUS
<1>3. made \in Nat /\ R = [i \in Nat |-> R[i]]
  BY <1>1 DEF IInv, TypeInv, Fits
<1>4. PICK ds : ds = [schema |-> schema, rows |-> rows, origin |-> origin, indexes |-> NoColumns]
  OBVIOUS
<1>5. /\ writing = Idle /\ made' = made + 1 /\ settled' = None /\ dataset' = dataset /\ disk' = disk
      /\ writing' = [kind |-> "import", files |-> PackageOrder, source |-> ds, mode |-> "off"]
  BY <1>2, <1>4 DEF BeginImport, NewContents, Dataset, OriginOf, Columns
<1>6. IndexesFit(schema, rows, origin, NoColumns)
  BY NoIndexesFit
<1>7. DatasetFits(S, made + 1, ds)
  BY <1>2, <1>3, <1>4, <1>6, NewFits
<1>8. /\ S = [i \in Nat |-> S[i]] /\ DiskFits(S, made + 1)
      /\ dataset # None => DatasetFits(S, made + 1, dataset)
  BY <1>1, <1>2, StillFits
<1>9. DiskFits(S, made)'
  BY <1>5, <1>8 DEF DiskFits
<1>10. Fits(S)'
  BY <1>5, <1>7, <1>8, <1>9 DEF Fits
<1>11. Importing'
  BY <1>5, FromStart DEF Importing
<1>12. WritingInv' /\ SettledInv' /\ TypeInv'
  BY <1>3, <1>5, <1>11 DEF IInv, WritingInv, SettledInv, TypeInv
<1> QED BY <1>10, <1>12 DEF IInv

(* LOAD: what it brings into memory fits.                                   *)
LEMMA LoadKeeps ==
  ASSUME IInv, NEW mode, Load(mode)
  PROVE  IInv'
<1>1. PICK R : Fits(R)
  BY DEF IInv
<1>2. /\ writing = Idle /\ dataset' = Loaded(mode) /\ Loaded(mode) # Failed
      /\ UNCHANGED <<disk, writing, made, interruptions, settled, begun, overlooked>>
  BY DEF Load
<1>3. made \in Nat /\ DiskFits(R, made)
  BY <1>1 DEF IInv, TypeInv, Fits
<1>4. DatasetFits(R, made, Loaded(mode))
  BY <1>2, <1>3, LoadFits
<1>5. DiskFits(R, made)'
  BY <1>2, <1>3 DEF DiskFits
<1>6. Fits(R)'
  BY <1>1, <1>2, <1>4, <1>5 DEF Fits
<1>7. SettledInv'
  BY <1>2, SettledStays DEF IInv
<1>8. WritingInv' /\ TypeInv'
  BY <1>2 DEF IInv, TypeInv, WritingInv
<1> QED BY <1>6, <1>7, <1>8 DEF IInv

(* The next file of a SAVE.                                                 *)
LEMMA SaveNext ==
  ASSUME NEW k \in 0 .. 12, NEW files, files = From(SaveOrder, k), files # << >>
  PROVE  k \in 0 .. 11 /\ Head(files) = SaveOrder[k + 1] /\ Tail(files) = From(SaveOrder, k + 1)
<1>1. PICK order : order = SaveOrder
  OBVIOUS
<1>2. Len(order) = 12 /\ From(order, k) # << >>
  BY <1>1, Orders
<1>3. /\ k + 1 \in 1 .. 12 /\ Head(From(order, k)) = order[k + 1]
      /\ Tail(From(order, k)) = From(order, k + 1)
  BY <1>2, FromNext
<1> QED BY <1>1, <1>3

(* And of an IMPORT.                                                       *)
LEMMA ImportNext ==
  ASSUME NEW k \in 0 .. 6, NEW files, files = From(PackageOrder, k), files # << >>
  PROVE  k \in 0 .. 5 /\ Head(files) = SaveOrder[k + 1] /\ Tail(files) = From(PackageOrder, k + 1)
<1>1. PICK order : order = PackageOrder
  OBVIOUS
<1>2. Len(order) = 6 /\ From(order, k) # << >>
  BY <1>1, Orders
<1>3. /\ k + 1 \in 1 .. 6 /\ Head(From(order, k)) = order[k + 1]
      /\ Tail(From(order, k)) = From(order, k + 1)
  BY <1>2, FromNext
<1> QED BY <1>1, <1>3, Orders

(* A SAVE goes on by its next file: it keeps what it has written and adds   *)
(* that file.                                                               *)
LEMMA SavedNext ==
  ASSUME TypeInv, NEW R, NEW n \in Nat, NEW k \in 0 .. 11, NEW ds, NEW mode,
         DatasetFits(R, n, ds), DiskFits(R, n),
         Saved(k, ds, mode), NEW f, f = SaveOrder[k + 1], overlooked' = overlooked,
         disk' = CASE f = "unmap" -> [disk EXCEPT !["columns"] = None]
                   [] f = "columns" /\ (~Maps(mode) \/ Mappable(ds.schema) = {}) -> disk
                   [] OTHER -> [disk EXCEPT ![f] = Written(f, ds)]
  PROVE  Saved(k + 1, ds, mode)'
<1>1. /\ Written("data", ds)' = Written("data", ds) /\ Written("meta", ds)' = Written("meta", ds)
      /\ Written("columns", ds)' = Written("columns", ds)
      /\ Written("indexes", ds)' = Written("indexes", ds)
      /\ Written("clusters", ds)' = Written("clusters", ds)
      /\ Written("graphs", ds)' = Written("graphs", ds)
  BY WrittenStays
<1>2. /\ f = "data" <=> k = 0
      /\ f = "meta" <=> k = 5
      /\ f = "unmap" <=> k = 6
      /\ f = "columns" <=> k = 7
      /\ f = "indexes" <=> k = 8
      /\ f = "clusters" <=> k = 9
      /\ f = "graphs" <=> k = 10
      /\ f = "metadata" <=> k = 11
      /\ f = "unmap" \/ f \in File
  BY Positions
<1>3. {"data", "meta", "columns", "indexes", "clusters", "graphs", "metadata"} \subseteq File
  BY Files
<1>4. CASE f = "unmap"
  <2>1. disk' = [disk EXCEPT !["columns"] = None]
    BY <1>4
  <2>2. k = 6 /\ disk'["columns"] = None /\ disk'["data"] = disk["data"] /\ disk'["meta"] = disk["meta"]
    BY <1>2, <1>3, <1>4, <2>1 DEF TypeInv
  <2> QED BY <1>1, <2>2 DEF Saved
<1>5. CASE f = "columns" /\ (~Maps(mode) \/ Mappable(ds.schema) = {})
  <2>1. disk' = disk /\ k = 7
    BY <1>2, <1>5
  <2> QED BY <1>1, <1>5, <2>1 DEF Saved
<1>6. CASE f # "unmap" /\ ~(f = "columns" /\ (~Maps(mode) \/ Mappable(ds.schema) = {}))
  <2>1. PICK x : x = Written(f, ds)
    OBVIOUS
  <2>2. disk' = [disk EXCEPT ![f] = x]
    BY <1>6, <2>1
  <2>3. \A g \in File : disk'[g] = IF g = f THEN x ELSE disk[g]
    BY <2>2 DEF TypeInv
  <2>4. k # 6
    BY <1>2, <1>6
  <2>5. k + 1 >= 1 => disk'["data"] = Written("data", ds)
    BY <1>2, <1>3, <2>1, <2>3 DEF Saved
  <2>6. k + 1 >= 6 => disk'["meta"] = Written("meta", ds)
    BY <1>2, <1>3, <2>1, <2>3 DEF Saved
  <2>7. k + 1 >= 8 => \/ overlooked
                      \/ disk'["columns"] = IF Maps(mode) /\ Mappable(ds.schema) # {}
                                            THEN Written("columns", ds) ELSE None
    BY <1>2, <1>3, <1>6, <2>1, <2>3 DEF Saved
  <2>8. /\ k + 1 >= 9 => disk'["indexes"] = Written("indexes", ds)
        /\ k + 1 >= 10 => disk'["clusters"] = Written("clusters", ds)
        /\ k + 1 >= 11 => disk'["graphs"] = Written("graphs", ds)
    BY <1>2, <1>3, <2>1, <2>3 DEF Saved
  <2>9. ASSUME k + 1 >= 12
        PROVE  HistoryFits(disk'["metadata"].history)
               /\ disk'["metadata"].history[Len(disk'["metadata"].history)] = ds.schema
    <3>1. f = "metadata"
      BY <1>2, <2>9
    <3>2. PICK old : old = disk["metadata"]
      OBVIOUS
    <3>3. x = NextMetadata(old, ds.schema) /\ disk'["metadata"] = x
      BY <1>3, <2>1, <2>3, <3>1, <3>2 DEF Written
    <3>4. old \in {None, Torn} \/ (old.version \in Nat /\ HistoryFits(old.history))
      BY <1>3, <3>2 DEF DiskFits, FileFits
    <3>5. ds.schema \in Schemas
      BY DEF DatasetFits, OriginFits
    <3>6. HistoryFits(x.history) /\ x.history[Len(x.history)] = ds.schema
      BY <3>3, <3>4, <3>5, NextMetadataFits
    <3> QED BY <3>3, <3>6
  <2> QED BY <1>1, <2>4, <2>5, <2>6, <2>7, <2>8, <2>9 DEF Saved
<1> QED BY <1>4, <1>5, <1>6

(* One file is written, by a SAVE or an IMPORT.                             *)
LEMMA WriteFileKeeps ==
  ASSUME IInv, WriteFile
  PROVE  IInv'
<1>1. PICK R : Fits(R)
  BY DEF IInv
<1>2. PICK kind, files, ds, mode :
        /\ kind = writing.kind /\ files = writing.files /\ ds = writing.source /\ mode = writing.mode
  OBVIOUS
<1>3. /\ writing # Idle /\ settled = None
      /\ writing = [kind |-> kind, files |-> files, source |-> ds, mode |-> mode]
  BY <1>2 DEF IInv, WritingInv, WriteFile
<1>4. PICK f : f = Head(files)
  OBVIOUS
<1>5. /\ files # << >>
      /\ disk' = CASE f = "unmap" -> [disk EXCEPT !["columns"] = None]
                   [] f = "columns" /\ (~Maps(mode) \/ Mappable(ds.schema) = {}) -> disk
                   [] OTHER -> [disk EXCEPT ![f] = Written(f, ds)]
      /\ writing' = IF f = "unmap" /\ NothingToMap THEN Idle ELSE [writing EXCEPT !.files = Tail(@)]
      /\ UNCHANGED <<dataset, made, interruptions, settled, begun, overlooked>>
  BY <1>2, <1>4 DEF WriteFile
<1>6. writing' = Idle \/ writing' = [kind |-> kind, files |-> Tail(files), source |-> ds, mode |-> mode]
  BY <1>3, <1>5
<1>7. made \in Nat /\ DiskFits(R, made) /\ DatasetFits(R, made, ds) /\ TypeInv
  BY <1>1, <1>2, <1>3 DEF IInv, TypeInv, Fits
<1>8. f = "unmap" \/ f \in File
  <2>1. CASE Saving
    <3>1. PICK k \in 0 .. 12 : files = From(SaveOrder, k)
      BY <1>2, <2>1 DEF Saving
    <3>2. k \in 0 .. 11 /\ f = SaveOrder[k + 1]
      BY <1>4, <1>5, <3>1, SaveNext
    <3> QED BY <3>2, Positions
  <2>2. CASE Importing
    <3>1. PICK k \in 0 .. 6 : files = From(PackageOrder, k)
      BY <1>2, <2>2 DEF Importing
    <3>2. k \in 0 .. 11 /\ f = SaveOrder[k + 1]
      BY <1>4, <1>5, <3>1, ImportNext
    <3> QED BY <3>2, Positions
  <2> QED BY <1>3, <2>1, <2>2 DEF IInv, WritingInv
<1>9. DiskFits(R, made)' /\ disk' = [g \in File |-> disk'[g]]
  <2>1. CASE f = "unmap"
    <3>1. disk' = [disk EXCEPT !["columns"] = None] /\ "columns" \in File
      BY <1>5, <2>1, Files
    <3>2. DiskFits(R, made)' /\ disk' = [g \in File |-> disk'[g]]
      BY <1>5, <1>7, <3>1, DiskFitsWith
    <3> QED BY <1>5, <3>2
  <2>2. CASE f # "unmap"
    <3>1. disk' = disk \/ disk' = [disk EXCEPT ![f] = Written(f, ds)]
      BY <1>5, <2>2
    <3>2. CASE disk' = disk
      BY <1>5, <1>7, <3>2 DEF DiskFits, TypeInv
    <3>3. CASE disk' = [disk EXCEPT ![f] = Written(f, ds)]
      <4>1. f \in File /\ FileFits(R, made, f, Written(f, ds))
        BY <1>7, <1>8, <2>2, WrittenFits
      <4> QED BY <1>5, <1>7, <3>3, <4>1, DiskFitsWith
    <3> QED BY <3>1, <3>2, <3>3
  <2> QED BY <2>1, <2>2
<1>10. Fits(R)'
  BY <1>1, <1>3, <1>5, <1>6, <1>7, <1>9 DEF Fits
<1>11. WritingInv'
  <2>1. CASE writing' = Idle
    BY <2>1 DEF WritingInv
  <2>2. CASE writing' = [kind |-> kind, files |-> Tail(files), source |-> ds, mode |-> mode]
    <3>1. CASE kind = "save" /\ Saving
      <4>1. PICK k \in 0 .. 12 : files = From(SaveOrder, k) /\ Saved(k, ds, mode)
        BY <1>2, <3>1 DEF Saving
      <4>2. k \in 0 .. 11 /\ f = SaveOrder[k + 1] /\ Tail(files) = From(SaveOrder, k + 1)
        BY <1>4, <1>5, <4>1, SaveNext
      <4>3. k \in 0 .. 11 /\ k + 1 \in 0 .. 12
        BY <4>2
      <4>4. Saved(k + 1, ds, mode)'
        BY <1>5, <1>7, <4>1, <4>2, <4>3, SavedNext
      <4>5. writing'.files = From(SaveOrder, k + 1) /\ writing'.source = ds /\ writing'.mode = mode
        BY <2>2, <4>2
      <4>6. Saving'
        BY <4>3, <4>4, <4>5 DEF Saving
      <4> QED BY <1>3, <1>5, <2>2, <3>1, <4>6 DEF WritingInv
    <3>2. CASE kind = "import" /\ Importing
      <4>1. PICK k \in 0 .. 6 : files = From(PackageOrder, k)
        BY <1>2, <3>2 DEF Importing
      <4>2. k \in 0 .. 5 /\ Tail(files) = From(PackageOrder, k + 1)
        BY <1>5, <4>1, ImportNext
      <4>3. writing'.files = From(PackageOrder, k + 1)
        BY <2>2, <4>2
      <4>4. k + 1 \in 0 .. 6
        BY <4>2
      <4>5. Importing'
        BY <4>3, <4>4 DEF Importing
      <4> QED BY <1>3, <1>5, <2>2, <3>2, <4>5 DEF WritingInv
    <3> QED BY <1>2, <1>3, <3>1, <3>2 DEF IInv, WritingInv
  <2> QED BY <1>6, <2>1, <2>2
<1>12. SettledInv'
  BY <1>3, <1>5 DEF SettledInv
<1> QED BY <1>5, <1>7, <1>9, <1>10, <1>11, <1>12 DEF IInv, TypeInv

(* SAVE answers after its last file: then it has written all.               *)
LEMMA FinishKeeps ==
  ASSUME IInv, Finish
  PROVE  IInv'
<1>1. PICK R : Fits(R)
  BY DEF IInv
<1>2. /\ writing # Idle /\ writing.files = << >> /\ writing' = Idle
      /\ settled' = IF writing.kind = "save" THEN writing.source ELSE None
      /\ UNCHANGED <<dataset, disk, made, interruptions, begun, overlooked>>
  BY DEF Finish
<1>3. DiskFits(R, made)'
  BY <1>1, <1>2 DEF Fits, DiskFits
<1>4. Fits(R)'
  BY <1>1, <1>2, <1>3 DEF Fits
<1>5. SettledInv'
  <2>1. CASE writing.kind = "save"
    <3>1. Saving
      BY <1>2, <2>1 DEF IInv, WritingInv
    <3>2. PICK k \in 0 .. 12 : writing.files = From(SaveOrder, k) /\ Saved(k, writing.source, writing.mode)
      BY <3>1 DEF Saving
    <3>3. k = 12
      BY <1>2, <3>2, Orders, FromEnd
    <3>4. PICK ds, mode : ds = writing.source /\ mode = writing.mode
      OBVIOUS
    <3>5. Saved(12, ds, mode)'
      BY <1>2, <3>2, <3>3, <3>4, SavedStays
    <3>6. settled' = ds
      BY <1>2, <2>1, <3>4
    <3> QED BY <3>5, <3>6 DEF SettledInv
  <2>2. CASE writing.kind # "save"
    BY <1>2, <2>2 DEF SettledInv
  <2> QED BY <2>1, <2>2
<1>6. WritingInv' /\ TypeInv'
  BY <1>2 DEF IInv, TypeInv, WritingInv
<1> QED BY <1>4, <1>5, <1>6 DEF IInv

(* A file that a crash left short or partly written fits.                   *)
LEMMA PartialFits ==
  ASSUME IInv, NEW R, Fits(R), writing # Idle, NEW f, f = "unmap" \/ f \in File, NEW p \in Partial(f),
         NEW g, g = IF f = "unmap" THEN "columns" ELSE f
  PROVE  g \in File /\ (p \in {None, Torn} \/ FileFits(R, made, g, p))
<1>1. g \in File
  BY Files
<1>2. made \in Nat /\ DiskFits(R, made) /\ DatasetFits(R, made, writing.source)
  BY DEF IInv, TypeInv, Fits
<1>3. ASSUME NEW columns, \A c \in DOMAIN columns : MappedFits(R, made, columns[c]), p \in Some(columns),
             g = "columns"
      PROVE  FileFits(R, made, g, p)
  <2>1. PICK cols \in SUBSET DOMAIN columns : p = [c \in cols |-> columns[c]]
    BY <1>3 DEF Some
  <2>2. \A c \in DOMAIN p : MappedFits(R, made, p[c])
    BY <1>3, <2>1
  <2> QED BY <1>3, <2>2 DEF FileFits
<1>4. CASE f = "unmap"
  <2>1. p \in Some(Readable("columns")) /\ g = "columns"
    BY <1>4 DEF Partial
  <2>2. \A c \in DOMAIN Readable("columns") : MappedFits(R, made, Readable("columns")[c])
    <3>1. CASE disk["columns"] \in {None, Torn}
      BY <3>1 DEF Readable, NoColumns
    <3>2. CASE disk["columns"] \notin {None, Torn}
      BY <1>2, <3>2, Files DEF Readable, DiskFits, FileFits
    <3> QED BY <3>1, <3>2
  <2>3. PICK columns : columns = Readable("columns")
    OBVIOUS
  <2> QED BY <1>1, <1>3, <2>1, <2>2, <2>3
<1>5. CASE f = "columns"
  <2>1. PICK columns : columns = Written("columns", writing.source)
    OBVIOUS
  <2>2. p \in Some(columns) /\ g = "columns"
    BY <1>5, <2>1 DEF Partial
  <2>3. "columns" \in File
    BY Files
  <2>4. FileFits(R, made, "columns", columns)
    BY <1>2, <2>1, <2>3, WrittenFits
  <2>5. \A c \in DOMAIN columns : MappedFits(R, made, columns[c])
    BY <2>4 DEF FileFits
  <2> QED BY <1>1, <1>3, <2>2, <2>5
<1>6. CASE f \notin {"unmap", "columns"}
  BY <1>1, <1>6 DEF Partial
<1> QED BY <1>4, <1>5, <1>6

(* A file cut short leaves what fits fitting, and the other files alone.    *)
LEMMA CutFits ==
  ASSUME IInv, NEW R, Fits(R), CutShort, made' = made
  PROVE  /\ DiskFits(R, made)' /\ TypeInv'
         /\ disk' # disk =>
              /\ writing # Idle /\ writing.files # << >>
              /\ \A g \in File : g # (IF Head(writing.files) = "unmap" THEN "columns" ELSE Head(writing.files))
                                   => disk'[g] = disk[g]
<1>1. made \in Nat /\ DiskFits(R, made) /\ TypeInv
  BY DEF IInv, TypeInv, Fits
<1>2. CASE disk' = disk
  BY <1>1, <1>2 DEF DiskFits, TypeInv
<1>3. CASE disk' # disk
  <2>1. writing # Idle /\ writing.files # << >>
    BY <1>3 DEF CutShort
  <2>2. PICK f : f = Head(writing.files)
    OBVIOUS
  <2>3. PICK p \in Partial(f) : disk' = [disk EXCEPT ![IF f = "unmap" THEN "columns" ELSE f] = p]
    BY <1>3, <2>2 DEF CutShort
  <2>4. f = "unmap" \/ f \in File
    <3>1. CASE Saving
      <4>1. PICK k \in 0 .. 12 : writing.files = From(SaveOrder, k)
        BY <3>1 DEF Saving
      <4>2. k \in 0 .. 11 /\ f = SaveOrder[k + 1]
        BY <2>1, <2>2, <4>1, SaveNext
      <4> QED BY <4>2, Positions
    <3>2. CASE Importing
      <4>1. PICK k \in 0 .. 6 : writing.files = From(PackageOrder, k)
        BY <3>2 DEF Importing
      <4>2. k \in 0 .. 11 /\ f = SaveOrder[k + 1]
        BY <2>1, <2>2, <4>1, ImportNext
      <4> QED BY <4>2, Positions
    <3> QED BY <2>1, <3>1, <3>2 DEF IInv, WritingInv
  <2>5. PICK g : g = IF f = "unmap" THEN "columns" ELSE f
    OBVIOUS
  <2>6. g \in File /\ (p \in {None, Torn} \/ FileFits(R, made, g, p))
    BY <2>1, <2>4, <2>5, PartialFits
  <2>7. disk' = [disk EXCEPT ![g] = p]
    BY <2>3, <2>5
  <2>8. DiskFits(R, made)' /\ disk' = [h \in File |-> disk'[h]]
    BY <1>1, <2>6, <2>7, DiskFitsWith
  <2>9. \A h \in File : h # g => disk'[h] = disk[h]
    BY <1>1, <2>7 DEF TypeInv
  <2> QED BY <1>1, <2>1, <2>2, <2>5, <2>8, <2>9 DEF TypeInv
<1> QED BY <1>2, <1>3

(* A failed write or a crash at any file.                                   *)
LEMMA InterruptKeeps ==
  ASSUME IInv, NEW crash \in BOOLEAN, Interrupt(crash)
  PROVE  IInv'
<1>1. PICK R : Fits(R)
  BY DEF IInv
<1>2. /\ writing' = Idle /\ UNCHANGED <<made, settled, begun, overlooked>> /\ CutShort
      /\ dataset' = IF crash THEN None ELSE dataset
  BY DEF Interrupt
<1>3. DiskFits(R, made)' /\ TypeInv' /\ (disk' # disk => writing # Idle)
  BY <1>1, <1>2, CutFits
<1>4. SettledInv'
  <2>1. CASE disk' = disk
    BY <1>2, <2>1, SettledStays DEF IInv
  <2>2. CASE disk' # disk
    <3>1. settled' = None
      BY <1>2, <1>3, <2>2 DEF IInv, WritingInv
    <3> QED BY <3>1 DEF SettledInv
  <2> QED BY <2>1, <2>2
<1>5. Fits(R)'
  BY <1>1, <1>2, <1>3 DEF Fits
<1>6. WritingInv'
  BY <1>2 DEF WritingInv
<1> QED BY <1>3, <1>4, <1>5, <1>6 DEF IInv

(* The SAVE goes on by what comes after the column files.                   *)
LEMMA AfterColumns ==
  ASSUME NEW k \in 0 .. 12, NEW files, files = From(SaveOrder, k), files # << >>,
         Head(files) \in {"unmap", "columns"},
         NEW rest, rest = IF Head(files) = "unmap" THEN Tail(Tail(files)) ELSE Tail(files)
  PROVE  k >= 6 /\ rest = From(SaveOrder, 8)
<1>1. k \in 0 .. 11 /\ Head(files) = SaveOrder[k + 1] /\ Tail(files) = From(SaveOrder, k + 1)
  BY SaveNext
<1>2. (Head(files) = "unmap" <=> k = 6) /\ (Head(files) = "columns" <=> k = 7)
  BY <1>1, Positions
<1>3. CASE k = 7
  BY <1>1, <1>2, <1>3
<1>4. CASE k = 6
  <2>1. PICK files7 : files7 = From(SaveOrder, 7)
    OBVIOUS
  <2>2. files7 # << >>
    <3>1. PICK order : order = SaveOrder
      OBVIOUS
    <3>2. Len(order) = 12 /\ files7 = From(order, 7) /\ 7 \in 0 .. 12 /\ 12 \in Nat /\ 7 # 12
      BY <2>1, <3>1, Orders
    <3> QED BY <3>2, FromEnd
  <2>3. Tail(files7) = From(SaveOrder, 7 + 1)
    BY <2>1, <2>2, SaveNext
  <2>4. 6 + 1 = 7 /\ 7 + 1 = 8
    OBVIOUS
  <2>5. Tail(files) = From(SaveOrder, 7)
    BY <1>1, <1>4, <2>4
  <2>6. rest = Tail(files7)
    BY <1>2, <1>4, <2>1, <2>5
  <2>7. rest = From(SaveOrder, 8)
    BY <2>3, <2>4, <2>6
  <2> QED BY <1>4, <2>7
<1> QED BY <1>2, <1>3, <1>4

(* A SAVE overlooks that its column files failed.                           *)
LEMMA GoOnKeeps ==
  ASSUME IInv, GoOnWithoutColumns
  PROVE  IInv'
<1>1. PICK R : Fits(R)
  BY DEF IInv
<1>2. PICK kind, files, ds, mode :
        /\ kind = writing.kind /\ files = writing.files /\ ds = writing.source /\ mode = writing.mode
  OBVIOUS
<1>3. PICK rest : rest = IF Head(files) = "unmap" THEN Tail(Tail(files)) ELSE Tail(files)
  OBVIOUS
<1>4. /\ writing # Idle /\ files # << >> /\ Head(files) \in {"unmap", "columns"} /\ CutShort
      /\ overlooked' = TRUE /\ UNCHANGED <<dataset, made, settled, begun>>
      /\ writing' = [writing EXCEPT !.files = rest]
  BY <1>2, <1>3 DEF GoOnWithoutColumns, Overlooks
<1>5. /\ settled = None
      /\ writing = [kind |-> kind, files |-> files, source |-> ds, mode |-> mode]
      /\ (kind = "save" /\ Saving) \/ (kind = "import" /\ Importing)
  BY <1>2, <1>4 DEF IInv, WritingInv
<1>6. writing' = [kind |-> kind, files |-> rest, source |-> ds, mode |-> mode]
  BY <1>4, <1>5
<1>7. ~Importing
  <2>1. SUFFICES ASSUME Importing PROVE FALSE
    OBVIOUS
  <2>2. PICK k \in 0 .. 6 : files = From(PackageOrder, k)
    BY <1>2, <2>1 DEF Importing
  <2>3. k \in 0 .. 5 /\ Head(files) = SaveOrder[k + 1]
    BY <1>4, <2>2, ImportNext
  <2>4. k \in 0 .. 11 /\ (Head(files) = "unmap" <=> k = 6) /\ (Head(files) = "columns" <=> k = 7)
    BY <2>3, Positions
  <2> QED BY <1>4, <2>3, <2>4
<1>8. PICK k \in 0 .. 12 : files = From(SaveOrder, k) /\ Saved(k, ds, mode)
  BY <1>2, <1>5, <1>7 DEF Saving
<1>9. k >= 6 /\ rest = From(SaveOrder, 8)
  BY <1>3, <1>4, <1>8, AfterColumns
<1>10. /\ DiskFits(R, made)' /\ TypeInv'
       /\ \A g \in File : g # "columns" => disk'[g] = disk[g]
  <2>1. /\ DiskFits(R, made)' /\ TypeInv'
        /\ disk' # disk =>
             \A g \in File : g # (IF Head(writing.files) = "unmap" THEN "columns" ELSE Head(writing.files))
                                   => disk'[g] = disk[g]
    BY <1>1, <1>4, CutFits
  <2>2. (IF Head(writing.files) = "unmap" THEN "columns" ELSE Head(writing.files)) = "columns"
    BY <1>2, <1>4
  <2> QED BY <2>1, <2>2
<1>11. Saved(8, ds, mode)'
  <2>1. Written("data", ds)' = Written("data", ds) /\ Written("meta", ds)' = Written("meta", ds)
    BY WrittenStays
  <2>2. disk'["data"] = disk["data"] /\ disk'["meta"] = disk["meta"]
    BY <1>10, Files
  <2>3. disk["data"] = Written("data", ds) /\ disk["meta"] = Written("meta", ds)
    BY <1>8, <1>9 DEF Saved
  <2> QED BY <1>4, <2>1, <2>2, <2>3 DEF Saved
<1>12. Fits(R)'
  BY <1>1, <1>2, <1>4, <1>6, <1>10 DEF Fits
<1>13. WritingInv'
  <2>1. writing'.files = From(SaveOrder, 8) /\ writing'.source = ds /\ writing'.mode = mode
    BY <1>6, <1>9
  <2>2. Saving'
    BY <1>11, <2>1 DEF Saving
  <2> QED BY <1>4, <1>5, <1>6, <1>7, <2>2 DEF WritingInv
<1>14. SettledInv'
  BY <1>4, <1>5 DEF SettledInv
<1> QED BY <1>10, <1>12, <1>13, <1>14 DEF IInv

(* The invariant holds of every behaviour: what is on disk and in memory    *)
(* comes from contents that were made, whatever is interrupted where, and a *)
(* SAVE has written every file before its next one, but for column files    *)
(* whose failure it overlooked (dsl/persistence.rs:165).                    *)
THEOREM DirectoryFits == Spec => []IInv
<1>1. Init => IInv
  BY InitHolds
<1>2. IInv /\ [Next]_vars => IInv'
  <2>1. SUFFICES ASSUME IInv, [Next]_vars PROVE IInv'
    OBVIOUS
  <2>2. CASE UNCHANGED vars
    BY <2>1, <2>2, StutterKeeps
  <2>3. ASSUME NEW schema \in Schemas, NEW rows \in RowCounts, Change(schema, rows) PROVE IInv'
    BY <2>1, <2>3, ChangeKeeps
  <2>4. ASSUME NEW schema \in Schemas, NEW rows \in RowCounts, BeginImport(schema, rows) PROVE IInv'
    BY <2>1, <2>4, BeginImportKeeps
  <2>5. ASSUME NEW c, NEW type, CreateIndex(c, type) PROVE IInv'
    BY <2>1, <2>5, CreateIndexKeeps
  <2>6. ASSUME NEW mode \in Modes, BeginSave(mode) PROVE IInv'
    BY <2>1, <2>6, BeginSaveKeeps
  <2>7. ASSUME NEW mode \in Modes, Load(mode) PROVE IInv'
    BY <2>1, <2>7, LoadKeeps
  <2>8. CASE WriteFile
    BY <2>1, <2>8, WriteFileKeeps
  <2>9. CASE Finish
    BY <2>1, <2>9, FinishKeeps
  <2>10. ASSUME NEW crash \in BOOLEAN, Interrupt(crash) PROVE IInv'
    BY <2>1, <2>10, InterruptKeeps
  <2>11. CASE GoOnWithoutColumns
    BY <2>1, <2>11, GoOnKeeps
  <2> QED BY <2>1, <2>2, <2>3, <2>4, <2>5, <2>6, <2>7, <2>8, <2>9, <2>10, <2>11 DEF Next
<1> QED BY <1>1, <1>2, PTL DEF Spec

(* A SAVE that has answered, and was not written over since, loads back by  *)
(* every way of reading columns (dsl/persistence.rs:106, :357). After one   *)
(* that overlooked a failure with its column files, a LOAD that reads       *)
(* column files may be refused or map older ones, and the rest still holds. *)
THEOREM SavesComeBack == Spec => []SettledLoads
BY DirectoryFits, InvLoads, PTL

(* No LOAD restores an index of a float32 column that is about other values *)
(* than the column's (core/index/vector.rs:230), for any crashes, failed    *)
(* SAVEs and IMPORTs before it.                                             *)
THEOREM IndexesDescribe == Spec => []VectorIndexesDescribe
BY DirectoryFits, InvDescribes, PTL
=============================================================================
