----------------------------- MODULE Aggregates -----------------------------
(***************************************************************************)
(* GROUP BY (AggregateExec in query/physical.rs) and window functions      *)
(* (apply_window_func in dsl/executor/query.rs). An aggregate is           *)
(* <<"agg", function, e, by>>; RRF has its constant in place of by. An     *)
(* aggregate that is an error has the value Failed, which fits no field.   *)
(* Whole numbers stand for floats, NaN left out: averages and variances    *)
(* are cut, the terms of RRF are in units of 1/60.                         *)
(***************************************************************************)
EXTENDS Operators

Failed == <<"Failed", 0>>

(***************************************************************************)
(* SUM. The kind of the first value decides what is added up: vectors and  *)
(* matrices element by element (another shape is an error), anything else  *)
(* as a number that is promoted as it goes; values of other kinds, NULL    *)
(* among them, are passed over.                                            *)
(***************************************************************************)
Zero(first, number) ==
  CASE Kind(first) = "Vector" -> AVector([i \in 1..Len(Datum(first)) |-> 0])
    [] Kind(first) = "Matrix" -> <<"Matrix", [i \in 1..Len(Datum(first)) |-> [j \in 1..Len(Datum(first)[i]) |-> 0]]>>
    [] Kind(first) = "Complex" -> <<"Complex", <<0, 0>>>>
    [] OTHER -> number

IsAddable(v) == IsNumber(v) \/ Kind(v) \in {"NaN", "Complex"}

AddUp(acc, v) ==
  CASE acc = Failed -> Failed
    [] IsAddable(acc) /\ IsAddable(v) -> Arith("+", acc, v)
    [] Kind(acc) = "Vector" /\ Kind(v) = "Vector" ->
         IF Len(Datum(acc)) = Len(Datum(v)) THEN AVector(Pairwise(Plus, Datum(acc), Datum(v))) ELSE Failed
    [] Kind(acc) = "Matrix" /\ Kind(v) = "Matrix" ->
         IF SameShape(Datum(acc), Datum(v)) THEN Arith("+", acc, v) ELSE Failed
    [] OTHER -> acc

(* Mutant of SumOf: the first value is the accumulator and is added once more. *)
SumFromFirst(vals) == FoldLeft(AddUp, vals[1], vals)

SumOf(vals) == FoldLeft(AddUp, Zero(vals[1], AnInt(0)), vals)

(* AVG divides by the number of rows, those without a value included. *)
Divided(v, n) ==
  CASE Kind(v) \in {"Int", "Float"} -> AFloat(Cut(Datum(v), n))
    [] Kind(v) = "Double" -> ADouble(Cut(Datum(v), n))
    [] Kind(v) = "Vector" -> AVector([i \in 1..Len(Datum(v)) |-> Cut(Datum(v)[i], n)])
    [] Kind(v) = "Matrix" -> <<"Matrix", [i \in 1..Len(Datum(v)) |-> [j \in 1..Len(Datum(v)[i]) |-> Cut(Datum(v)[i][j], n)]]>>
    [] Kind(v) = "Complex" -> <<"Complex", <<Cut(Datum(v)[1], n), Cut(Datum(v)[2], n)>>>>
    [] OTHER -> v

AvgOf(vals) ==
  LET zero == IF Kind(vals[1]) = "Double" THEN ADouble(0) ELSE AFloat(0)
  IN Divided(FoldLeft(AddUp, Zero(vals[1], zero), vals), Len(vals))

(* MIN, MAX: vectors element by element, no order of Complex. *)
Better(extreme) == IF extreme = "MAX" THEN "greater" ELSE "less"

ExtremeOf(vals, extreme) ==
  LET wins(x, y) == Order(x, y) = Better(extreme)
      step(best, v) ==
        IF best = Failed THEN Failed
        ELSE IF IsNull(best) THEN v
        ELSE IF IsNull(v) THEN best
        ELSE IF Kind(best) = "Vector" /\ Kind(v) = "Vector"
        THEN IF Len(Datum(best)) # Len(Datum(v)) THEN best
             ELSE AVector([i \in 1..Len(Datum(v)) |->
                     IF wins(Datum(v)[i], Datum(best)[i]) THEN Datum(v)[i] ELSE Datum(best)[i]])
        ELSE IF "Complex" \in {Kind(best), Kind(v)} THEN Failed
        ELSE IF Compare(v, best) = Better(extreme) THEN v ELSE best
  IN FoldLeft(step, Null, vals)

(***************************************************************************)
(* VARIANCE, MEDIAN: numbers only; NULL is an error.                       *)
(***************************************************************************)
AllNumbers(vals) == \A i \in 1..Len(vals) : IsNumber(vals[i])

VarianceOf(vals) ==
  LET n == Len(vals)
      sum == Sum([i \in 1..n |-> Datum(vals[i])])
      squares == Sum([i \in 1..n |-> Square(Datum(vals[i]))])
  IN IF AllNumbers(vals) THEN ADouble((n * squares - sum * sum) \div (n * n)) ELSE Failed

MedianOf(vals) ==
  LET sorted == SortSeq([i \in 1..Len(vals) |-> Datum(vals[i])], LAMBDA x, y : x < y)
      middle == Len(vals) \div 2
  IN IF ~AllNumbers(vals) THEN Failed
     ELSE IF Len(vals) % 2 = 1 THEN ADouble(sorted[middle + 1])
     ELSE ADouble(Cut(sorted[middle] + sorted[middle + 1], 2))

(***************************************************************************)
(* ARG_MAX, ARG_MIN: the value beside the best key; the first row wins     *)
(* ties, rows without a key do not count, keys that do not compare fail.   *)
(***************************************************************************)
ArgOf(vals, keys, extreme) ==
  LET step(best, i) ==
        IF best = Failed \/ IsNull(keys[i]) THEN best
        ELSE IF Kind(keys[i]) \notin {"Int", "Float", "Double", "Text", "Bool"} THEN Failed
        ELSE IF best = Null THEN <<"at", i>>
        ELSE IF Compare(keys[i], keys[Datum(best)]) = "none" THEN Failed
        ELSE IF Compare(keys[i], keys[Datum(best)]) = Better(extreme) THEN <<"at", i>> ELSE best
      best == FoldLeft(step, Null, [i \in 1..Len(keys) |-> i])
  IN IF Kind(best) = "at" THEN vals[Datum(best)] ELSE best

(* RRF: the sum of 1 / (k + rank). *)
RrfOf(vals, k) ==
  LET ranks == SelectSeq(vals, LAMBDA v : ~IsNull(v)) IN
  IF \E i \in 1..Len(ranks) : ~IsNumber(ranks[i]) THEN Failed
  ELSE IF \E i \in 1..Len(ranks) : k + Datum(ranks[i]) <= 0 THEN Failed
  ELSE ADouble(Sum([i \in 1..Len(ranks) |-> 60 \div (k + Datum(ranks[i]))]))

(***************************************************************************)
(* One aggregate over the rows of a group, which has at least one.         *)
(***************************************************************************)
Aggregated(agg, group) ==
  LET vals == [i \in 1..Len(group) |-> Evaluate(agg[3], group[i])]
      keys == [i \in 1..Len(group) |-> Evaluate(agg[4], group[i])]
  IN CASE agg[2] = "COUNT" -> AnInt(Len(group))
       [] agg[2] \in {"SUM", "SUM_VEC"} -> SumOf(vals)
       [] agg[2] \in {"AVG", "AVG_VEC"} -> AvgOf(vals)
       [] agg[2] \in {"MIN", "MAX"} -> ExtremeOf(vals, agg[2])
       [] agg[2] = "VARIANCE" -> VarianceOf(vals)
       [] agg[2] = "MEDIAN" -> MedianOf(vals)
       [] agg[2] \in {"ARG_MAX", "ARG_MIN"} -> ArgOf(vals, keys, IF agg[2] = "ARG_MAX" THEN "MAX" ELSE "MIN")
       [] agg[2] = "RRF" -> RrfOf(vals, Datum(agg[4][2]))

(***************************************************************************)
(* LogicalPlan::schema of an Aggregate: the keys, never NULL, then the     *)
(* aggregates, of which only COUNT is never NULL.                          *)
(***************************************************************************)
DefaultName(agg) == agg[2] \o "(" \o (IF agg[3][1] = "col" THEN agg[3][2] ELSE "val") \o ")"

AggregateType(agg, fields) ==
  IF agg[2] \in {"SUM", "MIN", "MAX"} THEN InferType(agg[3], fields) ELSE InferType(agg, fields)

AggregateFields(fields, keys, aggs) ==   \* aggs: <<aggregate, alias or "">>
  LET key(n) == NewField(n, InferType(<<"col", n>>, fields))
      field(a) == [NewField(IF a[2] = "" THEN DefaultName(a[1]) ELSE a[2], AggregateType(a[1], fields))
                     EXCEPT !.nullable = a[1][2] # "COUNT"]
  IN [i \in 1..Len(keys) |-> key(keys[i])] \o [i \in 1..Len(aggs) |-> field(aggs[i])]

(***************************************************************************)
(* AggregateExec: groups in the order of their first rows. Over no rows    *)
(* there is no group, unless there are no keys: then one, with COUNT 0 and *)
(* every other aggregate NULL.                                             *)
(***************************************************************************)
Aggregate(rel, keys, aggs) ==
  LET fields == AggregateFields(rel.fields, keys, aggs)
      row(i) == AsRow(rel.fields, rel.rows[i])
      keyOf(i) == [k \in 1..Len(keys) |-> Column(row(i), keys[k])]
      groups == FirstOfEach([i \in 1..Len(rel.rows) |-> keyOf(i)])
      members(g) == SelectSeq(Numbers(rel), LAMBDA i : keyOf(i) = g)
      answer(g) == g \o [a \in 1..Len(aggs) |->
                           Aggregated(aggs[a][1], [m \in 1..Len(members(g)) |-> row(members(g)[m])])]
      ofNothing == [a \in 1..Len(aggs) |-> IF aggs[a][1][2] = "COUNT" THEN AnInt(0) ELSE Null]
  IN IF ~rel.ok \/ \E a \in 1..Len(aggs) : ~CheckExpr(aggs[a][1], rel.fields) THEN Broken
     ELSE IF rel.rows # <<>> THEN Relation(fields, [g \in 1..Len(groups) |-> answer(groups[g])])
     ELSE Relation(fields, IF keys = <<>> THEN <<ofNothing>> ELSE <<>>)

(***************************************************************************)
(* Window functions: [func, e, offset, partition, order]. Every row is     *)
(* answered from the rows of its partition up to its place in the window's *)
(* order. The running sum starts from the first value, an Int as a Float,  *)
(* anything without a sum (NULL too) as Float 0.                           *)
(***************************************************************************)
RunningSum(vals) ==
  LET first == IF Kind(vals[1]) = "Int" THEN AFloat(Datum(vals[1]))
               ELSE IF IsAddable(vals[1]) \/ Kind(vals[1]) \in {"Vector", "Matrix"} THEN vals[1] ELSE AFloat(0)
      step(acc, v) == IF Kind(acc) = "Complex" /\ Kind(v) # "Complex" THEN acc
                      ELSE IF Kind(v) = "Complex" /\ Kind(acc) # "Complex" THEN acc
                      ELSE AddUp(acc, v)
  IN FoldLeft(step, first, Tail(vals))

(* min_by takes the first of equals, max_by the last. *)
WindowExtreme(vals, extreme) ==
  LET present == SelectSeq(vals, LAMBDA v : ~IsNull(v))
      step(best, v) ==
        IF IsNull(best) THEN v
        ELSE LET order == IF Compare(v, best) = "none" THEN "equal" ELSE Compare(v, best)
             IN IF order = Better(extreme) \/ (order = "equal" /\ extreme = "MAX") THEN v ELSE best
  IN IF \E i \in 1..Len(present) : Kind(present[i]) = "Complex" THEN Failed
     ELSE FoldLeft(step, Null, present)

(* place: the rows of the partition in the window's order; p: a position in it. *)
WindowValue(rel, w, place, p) ==
  LET rowAt(n) == AsRow(rel.fields, rel.rows[n])
      cell(n, col) == Column(rowAt(n), col)
      same(x, y) == \A k \in 1..Len(w.order) : cell(x, w.order[k][1]) = cell(y, w.order[k][1])
      leaders == {q \in 1..p : q = 1 \/ ~same(place[q - 1], place[q])}
      vals == [q \in 1..p |-> Evaluate(w.e, rowAt(place[q]))]
  IN CASE w.func = "ROW_NUMBER" -> AnInt(p)
       [] w.func = "RANK" -> AnInt(Max(leaders))
       [] w.func = "DENSE_RANK" -> AnInt(Cardinality(leaders))
       [] w.func = "LAG" -> IF p <= w.offset THEN Null ELSE Evaluate(w.e, rowAt(place[p - w.offset]))
       [] w.func = "LEAD" -> IF p + w.offset > Len(place) THEN Null ELSE Evaluate(w.e, rowAt(place[p + w.offset]))
       [] w.func = "SUM" -> RunningSum(vals)
       [] w.func = "AVG" -> Divided(RunningSum(vals), p)
       [] w.func = "COUNT" -> AnInt(Len(SelectSeq(vals, LAMBDA v : ~IsNull(v))))
       [] w.func \in {"MIN", "MAX"} -> WindowExtreme(vals, w.func)

WindowColumn(rel, w) ==
  LET row(i) == AsRow(rel.fields, rel.rows[i])
      keyOf(i) == [k \in 1..Len(w.partition) |-> Column(row(i), w.partition[k])]
      mine(i) == SelectSeq(Numbers(rel), LAMBDA j : keyOf(j) = keyOf(i))
      values(i) == [k \in 1..Len(w.order) |-> Column(row(i), w.order[k][1])]
      keys == [k \in 1..Len(w.order) |-> <<k, w.order[k][2]>>]
      place(i) == StableSort(mine(i), LAMBDA x, y : RowOrder(values(x), values(y), keys) = "less")
  IN [i \in 1..Len(rel.rows) |->
        WindowValue(rel, w, place(i), CHOOSE p \in 1..Len(place(i)) : place(i)[p] = i)]

FirstPresent(vals) == LET present == {i \in 1..Len(vals) : ~IsNull(vals[i])}
                      IN IF present = {} THEN Null ELSE vals[Min(present)]

Window(rel, w) ==
  LET vals == WindowColumn(rel, w)
      type == IF IsNull(FirstPresent(vals)) THEN <<"Int">> ELSE TypeOf(FirstPresent(vals))
      at(k) == FieldAt(rel.fields, w.order[k][1])
      unordered(k) == at(k) # 0 /\ rel.fields[at(k)].type[1] \in {"Vector", "Matrix"}
  IN IF ~rel.ok \/ (rel.rows # <<>> /\ \E k \in 1..Len(w.order) : unordered(k)) THEN Broken
     ELSE Relation(Append(rel.fields, Nullable(NewField(w.alias, type))),
                   [i \in 1..Len(rel.rows) |-> Append(rel.rows[i], vals[i])])
=============================================================================
