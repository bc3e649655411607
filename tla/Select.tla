------------------------------- MODULE Select -------------------------------
(***************************************************************************)
(* SELECT (execute_select_in_scope in dsl/executor/query.rs): from the     *)
(* parsed statement to its result. A statement is                          *)
(*   [ctes, columns, from, joins, where, groupBy, having, orderBy, limit,  *)
(*    offset, distinct, union]                                             *)
(* with columns "*" in All or a sequence of                                *)
(*   <<"column", name>>  <<"agg", aggregate, alias>>                       *)
(*   <<"window", [func, e, offset, partition, order, alias]>>              *)
(*   <<"computed", e, alias>>   (alias "" if none)                         *)
(* from <<>>, <<"named", name>> or <<"sub", statement>>, joins of          *)
(*   [table, alias, kind, left, right, threshold], where and having <<>> or*)
(* an expression, union <<>> or <<all, statement>>. Tables are a function  *)
(* from names to relations.                                                *)
(***************************************************************************)
EXTENDS Aggregates

All == <<>>
NoLimit == -1

(* A query that panics: a row is read beyond its end. *)
Panicked == [ok |-> FALSE, fields |-> <<NewField("panic", <<"Null">>)>>, rows |-> <<>>]

Items(q, form) == SelectSeq(q.columns, LAMBDA item : item[1] = form)
Extras(q) == SelectSeq(q.columns, LAMBDA item : item[1] \in {"window", "computed"})

RightTables(q) == UNION {{q.joins[k].table, q.joins[k].alias} : k \in 1..Len(q.joins)}

(***************************************************************************)
(* CTEs one after the other, each visible to the later ones; the first     *)
(* that fails is the result, kept under the name "".                       *)
(***************************************************************************)
Defined(tables, name, rel) ==
  [n \in DOMAIN tables \cup {IF rel.ok THEN name ELSE ""} |->
     IF n = (IF rel.ok THEN name ELSE "") THEN rel ELSE tables[n]]

JoinAll(q, from, tables) ==
  FoldLeft(LAMBDA rel, j :
             IF j.table \notin DOMAIN tables THEN Broken
             ELSE IF j.threshold = <<>> THEN HashJoin(rel, tables[j.table], j.left, j.right, j.kind)
             ELSE SimilarityJoin(rel, tables[j.table], j.left, j.right, j.threshold, j.kind),
           from, q.joins)

Where(q, rel) ==
  IF q.where = <<>> THEN rel ELSE Filter(rel, Lower(q.where, rel.fields, RightTables(q)))

(***************************************************************************)
(* GROUP BY, or one group of everything when an aggregate is selected;     *)
(* HAVING, whether there are aggregates or not.                            *)
(***************************************************************************)
IsAggregate(q) == q.groupBy # <<>> \/ Items(q, "agg") # <<>>

LoweredAggregates(q, fields) ==
  LET lower(e) == IF e = <<>> THEN e ELSE Lower(e, fields, RightTables(q))
      items == Items(q, "agg")
  IN [k \in 1..Len(items) |->
        <<<<"agg", items[k][2][2], lower(items[k][2][3]), lower(items[k][2][4])>>, items[k][3]>>]

Grouped(q, rel) ==
  LET aggs == LoweredAggregates(q, rel.fields)
      aliased == {k \in 1..Len(aggs) : aggs[k][2] # ""}
      renames == [n \in {DefaultName(aggs[k][1]) : k \in aliased} |->
                    aggs[Max({k \in aliased : DefaultName(aggs[k][1]) = n})][2]]
      answer == IF IsAggregate(q) THEN Aggregate(rel, q.groupBy, aggs) ELSE rel
  IN IF q.having = <<>> THEN answer
     ELSE IF HavingOk(q.having, renames, answer.fields, RightTables(q))
     THEN Filter(answer, Having(q.having, renames, answer.fields, RightTables(q)))
     ELSE Broken

(***************************************************************************)
(* ORDER BY runs here, and LIMIT after it, unless it names a column that   *)
(* is not there yet: then both wait for the computed columns.              *)
(***************************************************************************)
Sortable(q, rel) == \A k \in 1..Len(q.orderBy) : FieldAt(rel.fields, q.orderBy[k][1]) # 0

Ordered(q, rel) == IF q.orderBy = <<>> THEN rel ELSE Sort(rel, q.orderBy)
Limited(q, rel) == IF q.limit = NoLimit THEN rel ELSE Limit(rel, q.limit, q.offset)
(* Mutant of OrderedEarly: LIMIT does not wait for an ORDER BY that does. *)
LimitedEarly(q, rel) == Limited(q, IF Sortable(q, rel) THEN Ordered(q, rel) ELSE rel)

OrderedEarly(q, rel) == IF Sortable(q, rel) THEN Limited(q, Ordered(q, rel)) ELSE rel

(* The named columns alone, when nothing is aggregated or computed. *)
Projected(q, rel) ==
  LET names == IF q.columns = All THEN Names(rel.fields)
               ELSE [k \in 1..Len(Items(q, "column")) |-> Items(q, "column")[k][2]]
  IN IF IsAggregate(q) \/ Extras(q) # <<>> \/ names = <<>> THEN rel ELSE Project(rel, names)

Deduplicated(q, rel) == IF q.distinct THEN Distinct(rel) ELSE rel

(***************************************************************************)
(* apply_window_and_computed_exprs: computed columns and windows in the    *)
(* order selected. A computed column has the type of its first value; a    *)
(* row whose value does not fit it is left without the column (short).     *)
(***************************************************************************)
CountComputed(items) == Len(SelectSeq(items, LAMBDA item : item[1] = "computed"))

ItemName(items, k) ==
  IF items[k][1] = "window" THEN items[k][2].alias
  ELSE IF items[k][3] # "" THEN items[k][3]
  ELSE "__cmp_" \o ToString(CountComputed(SubSeq(items, 1, k - 1)))

RECURSIVE ResultType(_)
ResultType(e) ==   \* infer_expr_result_type
  CASE e[1] = "lit" -> TypeOf(e[2])
    [] e[1] \in Arithmetic ->
         LET types == {ResultType(e[2]), ResultType(e[3])} IN
         IF <<"Double">> \in types THEN <<"Double">> ELSE IF types = {<<"Int">>} THEN <<"Int">> ELSE <<"Float">>
    [] e[1] \in Comparisons \cup {"and", "or"} -> <<"Bool">>
    [] e[1] = "cast" -> e[3]
    [] e[1] = "fn" -> FunctionType(e[2])
    [] OTHER -> <<"Float">>

ColumnType(vals, guess) ==
  LET type == IF IsNull(FirstPresent(vals)) THEN guess ELSE TypeOf(FirstPresent(vals))
      differ == \E i \in 1..Len(vals) : ~IsNull(vals[i]) /\ TypeOf(vals[i]) # type
  IN IF differ /\ type[1] \in {"Vector", "Matrix"} THEN [type EXCEPT ![Len(type)] = 0] ELSE type

ComputedColumn(rel, base, name, e, right) ==
  LET logical == Lower(e, base, right)
      vals == [i \in 1..Len(rel.rows) |-> Evaluate(logical, AsRow(rel.fields, rel.rows[i]))]
      field == Nullable(NewField(name, ColumnType(vals, ResultType(e))))
      fit == [i \in 1..Len(vals) |-> IF Compatible(field, vals[i]) THEN vals[i] ELSE Null]
  IN IF ~rel.ok \/ ~CheckExpr(logical, base) THEN [rel |-> Broken, short |-> FALSE]
     ELSE [rel |-> Relation(Append(rel.fields, field), [i \in 1..Len(rel.rows) |-> Append(rel.rows[i], fit[i])]),
           short |-> fit # vals]

Extended(q, base) ==
  LET items == Extras(q)
      step(acc, k) ==
        LET item == items[k]
            w == [item[2] EXCEPT !.e = Lower(@, acc.rel.fields, RightTables(q))]
            column == ComputedColumn(acc.rel, base.fields, ItemName(items, k), item[2], RightTables(q))
        IN IF item[1] = "window" THEN [acc EXCEPT !.rel = Window(@, w)]
           ELSE [rel |-> column.rel, short |-> acc.short \/ column.short]
  IN FoldLeft(step, [rel |-> base, short |-> FALSE], [k \in 1..Len(items) |-> k])

(***************************************************************************)
(* The columns in the order selected; a name that is not there is dropped, *)
(* an aggregate is the next column after the group keys. A short row is    *)
(* read beyond its end.                                                    *)
(***************************************************************************)
SelectedNames(q, base) ==
  LET count(k, forms) == Len(SelectSeq(SubSeq(q.columns, 1, k), LAMBDA item : item[1] \in forms))
      name(k) == LET item == q.columns[k] IN
        CASE item[1] = "column" -> item[2]
          [] item[1] = "agg" -> LET at == Len(q.groupBy) + count(k, {"agg"})
                                IN IF at <= Len(base.fields) THEN base.fields[at].name ELSE "agg"
          [] OTHER -> ItemName(Extras(q), count(k, {"window", "computed"}))
  IN [k \in 1..Len(q.columns) |-> name(k)]

WithExtras(q, base) ==
  LET extended == Extended(q, base)
      names == SelectSeq(SelectedNames(q, base), LAMBDA n : FieldAt(extended.rel.fields, n) # 0)
  IN IF Extras(q) = <<>> THEN base
     ELSE IF ~extended.rel.ok THEN Broken
     ELSE IF extended.short THEN Panicked
     ELSE Project(extended.rel, names)

OrderedLate(q, early, rel) == IF Sortable(q, early) \/ ~rel.ok THEN rel ELSE Limited(q, Ordered(q, rel))

(* UNION: the columns are those of the left side, which the rows of the right must fit. *)
United(left, right, all) ==
  LET rows == left.rows \o right.rows IN
  IF ~left.ok THEN left ELSE IF ~right.ok THEN right
  ELSE Relation(left.fields, IF all THEN rows ELSE FirstOfEach(rows))

(***************************************************************************)
(* Without FROM only expressions are selected, and everything after the    *)
(* list is ignored; a NULL is an error (its column is not nullable).       *)
(***************************************************************************)
Expressionless(q) ==
  LET vals == [k \in 1..Len(q.columns) |-> Evaluate(Lower(q.columns[k][2], <<>>, {}), AsRow(<<>>, <<>>))] IN
  IF q.columns = All \/ \E k \in 1..Len(q.columns) : q.columns[k][1] # "computed" THEN Broken
  ELSE Relation([k \in 1..Len(vals) |-> NewField(ItemName(q.columns, k), TypeOf(vals[k]))], <<vals>>)

RECURSIVE Answer(_, _)
Answer(q, given) ==
  LET tables == FoldLeft(LAMBDA t, cte : IF "" \in DOMAIN t THEN t ELSE Defined(t, cte[1], Answer(cte[2], t)),
                         given, q.ctes)
      from == IF q.from[1] = "sub" THEN Answer(q.from[2], tables)
              ELSE IF q.from[2] \in DOMAIN tables THEN tables[q.from[2]] ELSE Broken
      early == Grouped(q, Where(q, JoinAll(q, from, tables)))
      base == Deduplicated(q, Projected(q, OrderedEarly(q, early)))
      result == OrderedLate(q, early, WithExtras(q, base))
  IN IF "" \in DOMAIN tables THEN tables[""]
     ELSE IF q.from = <<>> THEN Expressionless(q)
     ELSE IF ~from.ok THEN from
     ELSE IF q.union = <<>> \/ ~result.ok THEN result
     ELSE United(result, Answer(q.union[2], tables), q.union[1])
=============================================================================
