---------------------------- MODULE RecordDataset ----------------------------
(***************************************************************************)
(* One record dataset (core/dataset_legacy.rs) and the statements that     *)
(* change it (dsl/executor): rows, and what is derived from them: column   *)
(* statistics, zone maps of partitions, indexes. INSERT maintains the      *)
(* derived data row by row, UPDATE and DELETE rebuild it, column           *)
(* statements and TRANSFORM rebuild parts of it. What an expression is     *)
(* worth on a row is left open here: module Expressions has the code's     *)
(* three evaluators.                                                       *)
(***************************************************************************)
EXTENDS Values, FiniteSets, SequencesExt

CONSTANTS
  BatchSize,         \* rows of a partition (BATCH_SIZE)
  MaxRows,           \* bound: rows of the dataset
  MaxStatements,     \* bound: statements executed
  Schemas,           \* the field sequences CREATE DATASET is called with
  Literals,          \* the literals of INSERT: <<"Scalar", n>>, Null, Text ...
  NewFields,         \* the fields ALTER DATASET adds
  Predicates,        \* the WHERE clauses of UPDATE and DELETE
  Assignments,       \* the SETs of UPDATE: sequences of <<column, expression>>
  ColumnExpressions, \* the expressions of computed columns
  Results,           \* results of queries, as [fields, rows]
  ColumnOrder,       \* the columns that may be indexed, in the order of their names
  ValueOf(_, _),     \* evaluate_expression, of an expression on a row
  ComputedOf(_, _),  \* eval_row_expr, the same for new columns
  Chosen(_, _)       \* evaluate_predicate, of a predicate on a row

IsSeq(s) == s \in Seq(Range(s))
IsField(f) == f = [name |-> f.name, type |-> f.type, nullable |-> f.nullable, lazy |-> f.lazy]
IsSchema(fs) == IsSeq(fs) /\ \A i \in 1..Len(fs) : IsField(fs[i])

ASSUME Bounds == BatchSize \in Nat \ {0} /\ MaxRows \in Nat /\ MaxStatements \in Nat

ASSUME SchemasAssumption ==
  /\ \A fs \in Schemas : IsSchema(fs)
  /\ \A f \in NewFields : IsField(f) /\ f.lazy = FALSE

ASSUME ResultsAssumption ==
  \A result \in Results :
    /\ IsSchema(result.fields) /\ IsSeq(result.rows)
    /\ \A i \in 1..Len(result.rows) : IsSeq(result.rows[i])

ASSUME AssignmentsAssumption == \A assignments \in Assignments : IsSeq(assignments)

ASSUME ColumnsAssumption == IsSeq(ColumnOrder) /\ IsInjective(ColumnOrder)

VARIABLES
  exists,      \* the name is in the dataset store
  fields,      \* Dataset::schema
  rows,        \* Dataset::rows; a row is [names, vals]
  stats,       \* metadata.column_stats: [column -> statistics]
  partitions,  \* zone maps: sequence of [start, end, stats]
  index,       \* [indexed column -> index]
  lazyExpr,    \* lazy_expressions: [column -> expression]
  ok,          \* the last statement succeeded
  doubts,      \* history: the columns whose index need not fit the rows
  stale,       \* history: of "zones" and "rows" what need not fit: zone maps, rows the schema
  statements   \* number of statements so far

vars == <<exists, fields, rows, stats, partitions, index, lazyExpr, ok, doubts, stale, statements>>

NoFunction == [x \in {} |-> x]
SetOfNames(fs) == {fs[i].name : i \in 1..Len(fs)}

(* Of columns with one name the last. *)
Position(names, n) == Max({i \in 1..Len(names) : names[i] = n})
HasColumn(row, n) == \E i \in 1..Len(row.names) : row.names[i] = n
Get(row, n) == row.vals[Position(row.names, n)]
FieldOf(fs, n) == fs[Position(Names(fs), n)]
Tuple(fs, vals) == [names |-> Names(fs), vals |-> vals]

(***************************************************************************)
(* ColumnStats: the smallest and largest value seen (a value that does not *)
(* compare changes neither), and the number of NULLs.                      *)
(***************************************************************************)
EmptyStats == [nulls |-> 0, min |-> Null, max |-> Null]

MergeValue(s, v) ==
  IF IsNull(v) THEN [s EXCEPT !.nulls = @ + 1]
  ELSE [s EXCEPT !.min = IF IsNull(@) \/ Compare(v, @) = "less" THEN v ELSE @,
                 !.max = IF IsNull(@) \/ Compare(v, @) = "greater" THEN v ELSE @]

(* compute, one pass per field; rows without the column do not count. *)
StatsAfter(s, row, n) == IF HasColumn(row, n) THEN MergeValue(s, Get(row, n)) ELSE s

StatsOf(rs, n) ==
  LET upTo[k \in 0..Len(rs)] == IF k = 0 THEN EmptyStats ELSE StatsAfter(upTo[k - 1], rs[k], n)
  IN upTo[Len(rs)]

ColumnStats(fs, rs) == [n \in SetOfNames(fs) |-> StatsOf(rs, n)]

(* rebuild_partitions: chunks of BatchSize rows, 0-based, end exclusive. *)
Partitions(fs, rs) ==
  [p \in 1..((Len(rs) + BatchSize - 1) \div BatchSize) |->
     LET start == (p - 1) * BatchSize
         end == IF start + BatchSize < Len(rs) THEN start + BatchSize ELSE Len(rs)
     IN [start |-> start, end |-> end, stats |-> ColumnStats(fs, SubSeq(rs, start + 1, end))]]

(***************************************************************************)
(* Indexes. entries[id] are the keys added for row id (a HASH index keeps  *)
(* the text of the value); a SORTED index has those added before it was    *)
(* built in sorted, as <<value, id>> in the order of values, then rows.    *)
(***************************************************************************)
SortKind(v) == IF IsNumber(v) THEN "number" ELSE Kind(v)

(* Numbers (NaN is none) and texts, whose data are in an order. *)
Orderable(v) == (IsNumber(v) \/ Kind(v) = "Text") /\ Datum(v) \in Int

(* Index::add: what a SORTED index refuses, given the values it holds. *)
HeldBy(idx) ==
  {idx.sorted[i][1] : i \in 1..Len(idx.sorted)} \cup {idx.entries[id][1] : id \in DOMAIN idx.entries}

Accepts(idx, v) ==
  idx.kind = "Sorted" /\ ~IsNull(v) =>
    Orderable(v) /\ \A held \in HeldBy(idx) : SortKind(held) = SortKind(v)

With(f, x, v) == [y \in DOMAIN f \cup {x} |-> IF y = x THEN v ELSE f[y]]

Added(idx, v, id) ==
  IF idx.kind = "Sorted" /\ IsNull(v) THEN idx
  ELSE LET key == IF idx.kind = "Hash" THEN HashKey(v) ELSE v
           before == IF id \in DOMAIN idx.entries THEN idx.entries[id] ELSE <<>>
       IN [idx EXCEPT !.entries = With(@, id, Append(before, key))]

(* create_index: fill a new index from the rows, then build it. *)
Having(col, rs) == {i \in 1..Len(rs) : HasColumn(rs[i], col)}

(* What a SORTED index is about: <<value, row>> of what is not NULL. *)
Pairs(col, rs) == {<<Get(rs[i], col), i>> : i \in {j \in Having(col, rs) : ~IsNull(Get(rs[j], col))}}

Indexable(fs, kind, col, rs) ==
  /\ col \in SetOfNames(fs)
  /\ kind = "Sorted" =>
       \A x, y \in Pairs(col, rs) : Orderable(x[1]) /\ SortKind(x[1]) = SortKind(y[1])

Precedes(x, y) ==
  Compare(x[1], y[1]) = "less" \/ (Compare(x[1], y[1]) = "equal" /\ x[2] < y[2])

InOrder(pairs) == \A i \in 1..Len(pairs) - 1 : Precedes(pairs[i], pairs[i + 1])

IndexOf(kind, col, rs) ==
  IF kind = "Hash"
  THEN [kind |-> kind, sorted |-> <<>>,
        entries |-> [i \in Having(col, rs) |-> <<HashKey(Get(rs[i], col))>>]]
  ELSE [kind |-> kind, sorted |-> CHOOSE s \in SetToSeqs(Pairs(col, rs)) : InOrder(s), entries |-> NoFunction]

(***************************************************************************)
(* rebuild_after_mutation, for the indexes on cols: each is removed and    *)
(* created again, in the order of the columns' names; the first one that   *)
(* cannot be created is gone, and the rest stays as it was.                *)
(***************************************************************************)
(* Mutant of Rebuild: the indexes keep the row ids they had. *)
KeptIndexes(idx, fs, rs, cols) == [ok |-> TRUE, fresh |-> cols \cap DOMAIN idx, index |-> idx]

Rebuild(idx, fs, rs, cols) ==
  LET todo == cols \cap DOMAIN idx
      fails == {i \in 1..Len(ColumnOrder) :
                  ColumnOrder[i] \in todo /\ ~Indexable(fs, idx[ColumnOrder[i]].kind, ColumnOrder[i], rs)}
      gone == IF fails = {} THEN {} ELSE {ColumnOrder[Min(fails)]}
      fresh == {c \in todo : fails = {} \/ \E i \in 1..(Min(fails) - 1) : ColumnOrder[i] = c}
  IN [ok |-> fails = {}, fresh |-> fresh,
      index |-> [c \in DOMAIN idx \ gone |-> IF c \in fresh THEN IndexOf(idx[c].kind, c, rs) ELSE idx[c]]]

(* refresh_stats *)
Refresh(fs, rs) ==
  /\ stats' = ColumnStats(fs, rs)
  /\ partitions' = Partitions(fs, rs)

Fail == /\ ok' = FALSE
        /\ UNCHANGED <<exists, fields, rows, stats, partitions, index, lazyExpr, doubts, stale>>

(* A statement that finds nothing to change. *)
Nothing == /\ ok' = TRUE
           /\ UNCHANGED <<exists, fields, rows, stats, partitions, index, lazyExpr, doubts, stale>>

Statement == statements < MaxStatements /\ statements' = statements + 1

(***************************************************************************)
(* CREATE DATASET and DROP DATASET.                                        *)
(***************************************************************************)
Empty(fs) ==
  /\ exists' = TRUE /\ ok' = TRUE /\ fields' = fs /\ rows' = <<>>
  /\ stats' = ColumnStats(fs, <<>>) /\ partitions' = <<>>
  /\ index' = NoFunction /\ lazyExpr' = NoFunction /\ doubts' = {} /\ stale' = {}

Create ==
  /\ Statement
  /\ \E fs \in Schemas : IF exists THEN Fail ELSE Empty(fs)

Drop ==
  /\ Statement
  /\ IF exists
     THEN /\ exists' = FALSE /\ ok' = TRUE /\ fields' = <<>> /\ rows' = <<>>
          /\ stats' = NoFunction /\ partitions' = <<>>
          /\ index' = NoFunction /\ lazyExpr' = NoFunction /\ doubts' = {} /\ stale' = {}
     ELSE Fail

(***************************************************************************)
(* INSERT INTO: a number takes the type of its column, a tuple that does   *)
(* not fit the schema is refused. add_row offers the row to one index      *)
(* after the other, in no fixed order; when one refuses it, those that     *)
(* took it keep an entry for a row that is not there.                      *)
(***************************************************************************)
InsertValue(field, literal) ==
  IF Kind(literal) = "Scalar"
  THEN <<IF field.type[1] \in {"Int", "Double"} THEN field.type[1] ELSE "Float", Datum(literal)>>
  ELSE literal

(* One statistics record more per field: merged into the last partition, or a new one. *)
MergedStats(ss, row) ==
  [n \in DOMAIN ss \cup SetOfNames(fields) |->
     IF n \in SetOfNames(fields) /\ HasColumn(row, n)
     THEN MergeValue(IF n \in DOMAIN ss THEN ss[n] ELSE EmptyStats, Get(row, n)) ELSE ss[n]]

(* Mutant of GrownPartitions: a row enters the last partition without its statistics. *)
UnmergedPartitions(row) ==
  LET n == Len(partitions) IN
  IF n = 0 \/ partitions[n].end - partitions[n].start >= BatchSize
  THEN Append(partitions, [start |-> Len(rows), end |-> Len(rows) + 1,
                           stats |-> MergedStats([f \in SetOfNames(fields) |-> EmptyStats], row)])
  ELSE [partitions EXCEPT ![n].end = Len(rows) + 1]

GrownPartitions(row) ==
  LET n == Len(partitions)
      full == n = 0 \/ partitions[n].end - partitions[n].start >= BatchSize
  IN IF full
     THEN Append(partitions, [start |-> Len(rows), end |-> Len(rows) + 1,
                              stats |-> MergedStats([f \in SetOfNames(fields) |-> EmptyStats], row)])
     ELSE [partitions EXCEPT ![n].end = Len(rows) + 1,
                             ![n].stats = MergedStats(@, row)]

(* Mutant of AddRow: the row is pushed before the indexes are asked. *)
PushedRow(row) ==
  LET refusing == {c \in DOMAIN index : HasColumn(row, c) /\ ~Accepts(index[c], Get(row, c))} IN
  /\ ok' = (refusing = {})
  /\ rows' = Append(rows, row)
  /\ stats' = MergedStats(stats, row)
  /\ partitions' = GrownPartitions(row)
  /\ index' = [c \in DOMAIN index |-> IF HasColumn(row, c) /\ c \notin refusing
                                     THEN Added(index[c], Get(row, c), Len(rows) + 1) ELSE index[c]]
  /\ UNCHANGED <<exists, fields, lazyExpr, doubts, stale>>

AddRow(row) ==
  LET id == Len(rows) + 1
      offered == {c \in DOMAIN index : HasColumn(row, c)}
      refusing == {c \in offered : ~Accepts(index[c], Get(row, c))}
      Take(cols) == [c \in DOMAIN index |-> IF c \in cols THEN Added(index[c], Get(row, c), id) ELSE index[c]]
  IN IF refusing = {}
     THEN /\ ok' = TRUE
          /\ rows' = Append(rows, row)
          /\ stats' = MergedStats(stats, row)
          /\ partitions' = GrownPartitions(row)
          /\ index' = Take(offered)
          /\ UNCHANGED <<exists, fields, lazyExpr, doubts, stale>>
     ELSE \E before \in SUBSET (offered \ refusing) :
          /\ ok' = FALSE
          /\ index' = Take(before)
          /\ doubts' = doubts \cup before
          /\ UNCHANGED <<exists, fields, rows, stats, partitions, lazyExpr, stale>>

Insert ==
  /\ Statement
  /\ exists
  /\ Len(rows) < MaxRows
  /\ \E literals \in [1..Len(fields) -> Literals] :
       LET values == [i \in 1..Len(fields) |-> InsertValue(fields[i], literals[i])]
       IN IF Valid(fields, values) THEN AddRow(Tuple(fields, values)) ELSE Fail

(***************************************************************************)
(* UPDATE: every new value is computed from the row as it was, coerced and *)
(* checked before any row changes; predicate and expressions see the       *)
(* stored row, so a lazy column is its placeholder. Then statistics, zone  *)
(* maps and the indexes on the assigned columns are rebuilt. (A row        *)
(* shorter than the schema, left by ApplyInto, would panic.)               *)
(***************************************************************************)
Assigned(assignments, row) ==
  [k \in 1..Len(assignments) |->
     Coerce(FieldOf(fields, assignments[k][1]), ValueOf(assignments[k][2], row))]

(* Where rows need not have the names of the schema, columns are told apart by position only. *)
Misread == IF "rows" \in stale THEN DOMAIN index ELSE {}

(* rebuild_after_mutation: statistics, zone maps, and the indexes on cols (see Rebuild). *)
Rewrite(rs, cols, rebuilt) ==
  /\ rows' = rs
  /\ Refresh(fields, rs)
  /\ index' = rebuilt.index
  /\ ok' = rebuilt.ok
  /\ doubts' = ((doubts \cup Misread) \ cols) \cup ((cols \cap DOMAIN rebuilt.index) \ rebuilt.fresh)
  /\ stale' = stale \ {"zones"}
  /\ UNCHANGED <<exists, fields, lazyExpr>>

(* new[i] are the values for targets in a chosen row i; of two for one column the last stays. *)
Changed(row, targets, values) ==
  LET settings(i) == {k \in 1..Len(targets) : Position(Names(fields), targets[k]) = i}
  IN [row EXCEPT !.vals = [i \in 1..Len(row.vals) |->
        IF i <= Len(fields) /\ settings(i) # {} THEN values[Max(settings(i))] ELSE row.vals[i]]]

ChangeRows(targets, new) ==
  LET cols == Range(targets)
      fits(i) == \A k \in 1..Len(targets) : Compatible(FieldOf(fields, targets[k]), new[i][k])
      changed == [i \in 1..Len(rows) |-> IF i \in DOMAIN new THEN Changed(rows[i], targets, new[i]) ELSE rows[i]]
  IN IF \E i \in DOMAIN new : ~fits(i) THEN Fail
     ELSE IF DOMAIN new = {} THEN Nothing
     ELSE Rewrite(changed, cols, Rebuild(index, fields, changed, cols))

Update ==
  /\ Statement
  /\ exists
  /\ \E p \in Predicates, assignments \in Assignments :
       LET targets == [k \in 1..Len(assignments) |-> assignments[k][1]]
           chosen == {i \in 1..Len(rows) : Chosen(p, rows[i])}
       IN IF ~(Range(targets) \subseteq SetOfNames(fields)) THEN Fail
          ELSE /\ \A i \in chosen : Len(rows[i].vals) >= Len(fields)
               /\ ChangeRows(targets, [i \in chosen |-> Assigned(assignments, rows[i])])

(* DELETE FROM: decides every row first; the rest moves up and everything is rebuilt. *)
KeepRows(kept) ==
  IF Len(kept) = Len(rows) THEN Nothing
  ELSE Rewrite(kept, DOMAIN index, Rebuild(index, fields, kept, DOMAIN index))

Spared(p) ==
  LET upTo[k \in 0..Len(rows)] ==
        IF k = 0 THEN <<>> ELSE IF Chosen(p, rows[k]) THEN upTo[k - 1] ELSE Append(upTo[k - 1], rows[k])
  IN upTo[Len(rows)]

Delete ==
  /\ Statement
  /\ exists
  /\ \E p \in Predicates : KeepRows(Spared(p))

(* CREATE [SORTED] INDEX *)
CreateIndex ==
  /\ Statement
  /\ exists
  /\ \E kind \in {"Hash", "Sorted"}, col \in Range(ColumnOrder) :
       IF ~Indexable(fields, kind, col, rows)
       THEN Fail
       ELSE /\ ok' = TRUE
            /\ index' = With(index, col, IndexOf(kind, col, rows))
            /\ doubts' = doubts \ {col}
            /\ UNCHANGED <<exists, fields, rows, stats, partitions, lazyExpr, stale>>

(***************************************************************************)
(* Columns. Every row becomes a new tuple, which the schema checks;        *)
(* statistics and zone maps are rebuilt, indexes are left alone (left are  *)
(* the columns whose values change, unread whether rows may not fit).      *)
(***************************************************************************)
Retuple(fs, valsOf, left, unread) ==
  LET rs == [i \in 1..Len(rows) |-> Tuple(fs, valsOf[i])]
  IN /\ ok' = TRUE /\ fields' = fs /\ rows' = rs
     /\ Refresh(fs, rs)
     /\ doubts' = doubts \cup Misread \cup left
     /\ stale' = (stale \ {"zones"}) \cup (IF unread THEN {"rows"} ELSE {})
     /\ UNCHANGED <<exists, index>>

(* Mutant of AllValid: tuples are made without asking the schema. *)
Unchecked(fs, valsOf) == Len(valsOf) = Len(rows)

AllValid(fs, valsOf) == \A i \in 1..Len(rows) : Valid(fs, valsOf[i])

(* ALTER DATASET ... ADD COLUMN with a default value *)
AddColumn ==
  /\ Statement
  /\ exists
  /\ \E field \in NewFields, default \in Literals :
       LET value == InsertValue(field, default)
           fs == Append(fields, field)
           wide == [i \in 1..Len(rows) |-> Append(rows[i].vals, value)]
       IN IF field.name \in SetOfNames(fields) \/ ~MatchesType(value, field.type) \/ ~AllValid(fs, wide)
          THEN Fail
          ELSE Retuple(fs, wide, {}, FALSE) /\ UNCHANGED lazyExpr

(***************************************************************************)
(* ADD COLUMN name = expression [LAZY]: the column's type is that of the   *)
(* first row's value (of NULL: Float for a lazy column, a type no row      *)
(* fits for the other). A lazy column stores NULL and keeps the            *)
(* expression.                                                             *)
(***************************************************************************)
AsRead(row) == [row EXCEPT !.names = SubSeq(Names(fields), 1, Min({Len(fields), Len(row.vals)}))]

AddComputedColumn ==
  /\ Statement
  /\ exists
  /\ \E name \in {f.name : f \in NewFields}, e \in ColumnExpressions, lazy \in BOOLEAN :
       LET computed == [i \in 1..Len(rows) |-> ComputedOf(e, AsRead(rows[i]))]
           type == IF lazy /\ IsNull(computed[1]) THEN <<"Float">> ELSE TypeOf(computed[1])
           fs == Append(fields, [name |-> name, type |-> type, nullable |-> lazy, lazy |-> lazy])
           wide == [i \in 1..Len(rows) |-> Append(rows[i].vals, IF lazy THEN Null ELSE computed[i])]
       IN IF name \in SetOfNames(fields) \/ rows = <<>> THEN Fail
          ELSE IF ~AllValid(fs, wide) THEN Fail
          ELSE IF lazy
          THEN /\ Retuple(fs, wide, {}, IsNull(computed[1]))
               /\ lazyExpr' = With(lazyExpr, name, e)
          ELSE Retuple(fs, wide, {}, FALSE) /\ UNCHANGED lazyExpr

(* A row as queries see it: lazy columns evaluated on the stored row. *)
Evaluated(row) ==
  [i \in 1..Len(row.vals) |->
     IF i <= Len(fields) /\ fields[i].lazy /\ fields[i].name \in DOMAIN lazyExpr
     THEN ValueOf(lazyExpr[fields[i].name], row) ELSE row.vals[i]]

(* MATERIALIZE: lazy columns become stored ones; an index on one keeps the placeholders. *)
Materialize ==
  /\ Statement
  /\ exists
  /\ LET lazies == {fields[i].name : i \in {j \in 1..Len(fields) : fields[j].lazy}}
         valsOf == [i \in 1..Len(rows) |-> Evaluated(rows[i])]
         fs == [i \in 1..Len(fields) |-> [fields[i] EXCEPT !.lazy = FALSE]]
     IN IF lazies = {} THEN Nothing
        ELSE IF ~AllValid(fields, valsOf) THEN Fail
        ELSE /\ Retuple(fs, valsOf, lazies \cap DOMAIN index, FALSE)
             /\ lazyExpr' = [c \in DOMAIN lazyExpr \ lazies |-> lazyExpr[c]]

(***************************************************************************)
(* TRANSFORM ... INTO, and APPLY PIPELINE ... INTO or SEARCH ... INTO,     *)
(* which keep an existing target's schema: rows and statistics are those   *)
(* of the result; zone maps, indexes and lazy expressions stay. A new      *)
(* target gets its rows after it was created, hence no zone maps.          *)
(***************************************************************************)
Replace(fs, result) ==
  /\ ok' = TRUE /\ exists' = TRUE /\ fields' = fs
  /\ rows' = [i \in 1..Len(result.rows) |-> Tuple(result.fields, result.rows[i])]
  /\ stats' = ColumnStats(fs, rows')
  /\ doubts' = DOMAIN index
  /\ stale' = {"zones"}
       \cup (IF /\ Names(fs) = Names(result.fields)
                /\ \A i \in 1..Len(result.rows) : Valid(fs, result.rows[i])
                /\ \A i \in 1..Len(fs) : fs[i].name \notin DOMAIN lazyExpr
             THEN {} ELSE {"rows"})
  /\ UNCHANGED <<partitions, index, lazyExpr>>

Transform ==
  /\ Statement
  /\ \E result \in Results : Replace(result.fields, result)

ApplyInto ==
  /\ Statement
  /\ \E result \in Results : Replace(IF exists THEN fields ELSE result.fields, result)

Init ==
  /\ exists = FALSE /\ fields = <<>> /\ rows = <<>> /\ stats = NoFunction /\ partitions = <<>>
  /\ index = NoFunction /\ lazyExpr = NoFunction /\ ok = TRUE /\ doubts = {} /\ stale = {} /\ statements = 0

Next ==
  \/ Create \/ Drop \/ Insert \/ Update \/ Delete \/ CreateIndex
  \/ AddColumn \/ AddComputedColumn \/ Materialize \/ Transform \/ ApplyInto

Spec == Init /\ [][Next]_vars

(***************************************************************************)
(* An index answers for the rows the dataset has now: what INSERT added    *)
(* row by row and what UPDATE and DELETE rebuilt is what CREATE INDEX      *)
(* would make of the rows, unless a statement that is known to leave the   *)
(* index behind (doubts) came since it was built.                          *)
(***************************************************************************)
HashFits(col) == index[col] = IndexOf("Hash", col, rows)

SortedPairs(idx) ==
  {idx.sorted[i] : i \in 1..Len(idx.sorted)}
    \cup {<<idx.entries[id][1], id>> : id \in DOMAIN idx.entries}

SortedFits(col) == InOrder(index[col].sorted) /\ SortedPairs(index[col]) = Pairs(col, rows)

IndexesFit ==
  \A col \in DOMAIN index \ doubts :
    IF index[col].kind = "Hash" THEN HashFits(col) ELSE SortedFits(col)

(***************************************************************************)
(* The statistics always, and the zone maps unless rows were replaced      *)
(* under them, are those of the rows: a stale minimum would make a pruned  *)
(* scan skip rows that match.                                              *)
(***************************************************************************)
ZonesFit ==
  exists => /\ stats = ColumnStats(fields, rows)
            /\ "zones" \notin stale => partitions = Partitions(fields, rows)

(***************************************************************************)
(* Every row can be read: with its lazy columns evaluated it fits the      *)
(* schema (a scan fails as a whole on the first row that does not).        *)
(***************************************************************************)
Readable == "rows" \notin stale => \A i \in 1..Len(rows) : Valid(fields, Evaluated(rows[i]))

(***************************************************************************)
(* A statement that fails leaves rows and schema as they were, except for  *)
(* an UPDATE or DELETE whose index cannot be rebuilt: it has changed the   *)
(* rows, and that index is gone.                                           *)
(***************************************************************************)
FailureChangesNothing ==
  [][~ok' => \/ UNCHANGED <<exists, fields, rows, stats, partitions, lazyExpr>>
             \/ DOMAIN index' # DOMAIN index]_vars
=============================================================================
