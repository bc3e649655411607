----------------------------- MODULE AccessPaths -----------------------------
(***************************************************************************)
(* WHERE over a stored dataset: the path the planner picks for a predicate *)
(* (query/planner.rs) and the rows each path reads (query/physical.rs).    *)
(* Predicates have the form of the expressions of module Expressions; what *)
(* they say of a row is Chosen's.                                          *)
(***************************************************************************)
EXTENDS RecordDataset

CONSTANTS
  Questions,      \* the predicates asked of every state of the dataset
  ConjunctsOf(_)  \* flatten_and: the conjuncts of a predicate, left to right

(* Numbers are whole here, a Bool is 0 or 1, a Text a position in Spelling. *)
Proper(v) ==
  /\ IsNumber(v) => Datum(v) \in Int
  /\ Kind(v) = "Bool" => Datum(v) \in {0, 1}
  /\ Kind(v) = "Text" => Datum(v) \in DOMAIN Spelling

ASSUME LiteralsAssumption ==
  \A literal \in Literals : IF Kind(literal) = "Scalar" THEN Datum(literal) \in Int ELSE Proper(literal)

ASSUME ResultRowsAssumption ==
  \A result \in Results : \A i \in 1..Len(result.rows) :
    /\ Len(result.rows[i]) = Len(result.fields)
    /\ \A k \in 1..Len(result.rows[i]) : Proper(result.rows[i][k])

(* flip_comparison *)
Flip(op) == CASE op = "<" -> ">" [] op = "<=" -> ">=" [] op = ">" -> "<" [] op = ">=" -> "<=" [] OTHER -> op

(***************************************************************************)
(* extract_range_constraints and sorted_range_constraints: a comparison of *)
(* a column with a literal (either order), or BETWEEN two literals, as     *)
(* <<column, constraints>>, a constraint being <<operator, value>>; <<>>   *)
(* for any other form. Only the index takes "=".                           *)
(***************************************************************************)
RangeOf(p, operators) ==
  CASE p[1] \in operators /\ p[2][1] = "col" /\ p[3][1] = "lit" -> <<p[2][2], <<<<p[1], p[3][2]>>>>>>
    [] p[1] \in operators /\ p[2][1] = "lit" /\ p[3][1] = "col" -> <<p[3][2], <<<<Flip(p[1]), p[2][2]>>>>>>
    [] p[1] = "between" /\ p[2][1] = "col" /\ p[3][1] = "lit" /\ p[4][1] = "lit" ->
         <<p[2][2], <<<<">=", p[3][2]>>, <<"<=", p[4][2]>>>>>>
    [] OTHER -> <<>>

Inequalities == {"<", "<=", ">", ">="}

Asked(p) == {p} \cup {ConjunctsOf(p)[i] : i \in 1..Len(ConjunctsOf(p))}

(* No literal of a WHERE clause is a Complex. *)
ASSUME QuestionsAssumption ==
  \A p \in Questions :
    /\ IsSeq(ConjunctsOf(p))
    /\ \A q \in Asked(p) :
         LET range == RangeOf(q, Inequalities \cup {"="})
         IN range # <<>> => \A i \in 1..Len(range[2]) : Proper(range[2][i][2]) /\ Kind(range[2][i][2]) # "Complex"

IsIndexed(col, kind) == col \in DOMAIN index /\ index[col].kind = kind

(* match_sorted_range: the first conjunct a SORTED index can narrow. *)
SortedRange(p) ==
  LET range(i) == RangeOf(ConjunctsOf(p)[i], Inequalities \cup {"="})
      narrowing == {i \in 1..Len(ConjunctsOf(p)) : range(i) # <<>> /\ IsIndexed(range(i)[1], "Sorted")}
  IN IF narrowing = {} THEN <<>> ELSE range(Min(narrowing))

(* Mutant of CouldMatch: an inclusive bound prunes the partition that ends on it. *)
StrictlyCouldMatch(op, min, max, literal) ==
  IF op \in {"<", "<="} THEN Compare(min, literal) \notin {"greater", "equal"}
  ELSE Compare(max, literal) \notin {"less", "equal"}

(***************************************************************************)
(* partition_range_could_match, and the partitions a range leaves.         *)
(***************************************************************************)
CouldMatch(op, min, max, literal) ==
  CASE op = "<" -> Compare(min, literal) \notin {"greater", "equal"}
    [] op = "<=" -> Compare(min, literal) # "greater"
    [] op = ">" -> Compare(max, literal) \notin {"less", "equal"}
    [] op = ">=" -> Compare(max, literal) # "less"

Survives(partition, range) ==
  LET s == partition.stats[range[1]] IN
  \/ range[1] \notin DOMAIN partition.stats
  \/ IsNull(s.min)
  \/ \A i \in 1..Len(range[2]) : CouldMatch(range[2][i][1], s.min, s.max, range[2][i][2])

Surviving(range) == {k \in 1..Len(partitions) : Survives(partitions[k], range)}

(***************************************************************************)
(* The choice, in the order of create_physical_plan: a HASH index for      *)
(* column = literal, a SORTED index for a range, zone maps, or a scan.     *)
(***************************************************************************)
IsLookup(p) == p[1] = "=" /\ p[2][1] = "col" /\ p[3][1] = "lit"

Path(p) ==
  IF IsLookup(p) /\ IsIndexed(p[2][2], "Hash") THEN "hash"
  ELSE IF SortedRange(p) # <<>> THEN "sorted"
  ELSE IF /\ RangeOf(p, Inequalities) # <<>>
          /\ Len(partitions) >= 2
          /\ Surviving(RangeOf(p, Inequalities)) # 1..Len(partitions) THEN "pruned"
  ELSE "scan"

(***************************************************************************)
(* HashIndex::lookup: a row id once for each time the key was added.       *)
(***************************************************************************)
HashHits(idx, v, id) ==
  IF id \in DOMAIN idx.entries
  THEN Cardinality({j \in DOMAIN idx.entries[id] : idx.entries[id][j] = HashKey(v)}) ELSE 0

(***************************************************************************)
(* SortedIndex::range: by binary search in the sorted part (as far as the  *)
(* values compare with the bound as one of orders), one by one in the      *)
(* rest; what was found is checked against every constraint.               *)
(***************************************************************************)
Satisfies(v, constraint) ==
  Compare(v, constraint[2]) # "none" /\ Admits(constraint[1], Compare(v, constraint[2]))

PartitionPoint(sorted, bound, orders) ==
  Cardinality({i \in 1..Len(sorted) : \A j \in 1..i : Compare(sorted[j][1], bound) \in orders})

LowEnd(sorted, c) ==
  CASE c[1] = ">" -> PartitionPoint(sorted, c[2], {"less", "equal", "none"})
    [] c[1] \in {">=", "="} -> PartitionPoint(sorted, c[2], {"less", "none"})
    [] OTHER -> 0

HighEnd(sorted, c) ==
  CASE c[1] = "<" -> PartitionPoint(sorted, c[2], {"less"})
    [] c[1] \in {"<=", "="} -> PartitionPoint(sorted, c[2], {"less", "equal"})
    [] OTHER -> Len(sorted)

SortedIds(idx, constraints) ==
  LET found == {i \in 1..Len(idx.sorted) : \A k \in 1..Len(constraints) :
                  LowEnd(idx.sorted, constraints[k]) < i /\ i <= HighEnd(idx.sorted, constraints[k])}
      candidates == {idx.sorted[i] : i \in found} \cup {<<idx.entries[id][1], id>> : id \in DOMAIN idx.entries}
  IN {c[2] : c \in {x \in candidates : \A k \in 1..Len(constraints) : Satisfies(x[1], constraints[k])}}

(***************************************************************************)
(* How often a path reads row id (the ids of an index that are past the    *)
(* end are dropped: get_rows_by_ids), and answers with it: the predicate   *)
(* is asked of the row with its lazy columns evaluated, except after a     *)
(* HASH lookup. Every path has its rows in the order of their ids.         *)
(***************************************************************************)
Seen(id) == Tuple(fields, Evaluated(rows[id]))

Reads(p, path, id) ==
  CASE path = "hash" -> HashHits(index[p[2][2]], p[3][2], id)
    [] path = "sorted" -> IF id \in SortedIds(index[SortedRange(p)[1]], SortedRange(p)[2]) THEN 1 ELSE 0
    [] path = "pruned" ->
         Cardinality({k \in Surviving(RangeOf(p, Inequalities)) : partitions[k].start < id /\ id <= partitions[k].end})
    [] OTHER -> 1

Answer(p, path) ==
  [id \in 1..Len(rows) |-> IF path = "hash" \/ Chosen(p, Seen(id)) THEN Reads(p, path, id) ELSE 0]

Scanned(p) == [id \in 1..Len(rows) |-> IF Chosen(p, Seen(id)) THEN 1 ELSE 0]

(***************************************************************************)
(* What paths need of expressions, on a row: they are worth proper values; *)
(* where a predicate holds its conjuncts hold; a comparison of columns and *)
(* literals is the comparison of their values.                             *)
(***************************************************************************)
EvaluatesWell(row) ==
  /\ \A e \in ColumnExpressions : Proper(ValueOf(e, row)) /\ Proper(ComputedOf(e, row))
  /\ \A assignments \in Assignments : \A k \in 1..Len(assignments) : Proper(ValueOf(assignments[k][2], row))

Operand(row, o) == IF o[1] = "lit" THEN o[2] ELSE Get(row, o[2])
IsRead(row, o) == o[1] = "lit" \/ (o[1] = "col" /\ HasColumn(row, o[2]))

ChoosesWell(row) ==
  \A p \in Questions :
    /\ Chosen(p, row) => \A q \in Asked(p) : Chosen(q, row)
    /\ \A q \in Asked(p) :
         /\ q[1] \in Inequalities \cup {"="} /\ IsRead(row, q[2]) /\ IsRead(row, q[3]) =>
              (Chosen(q, row) <=> SqlCompare(Operand(row, q[2]), q[1], Operand(row, q[3])) = "true")
         /\ q[1] = "between" /\ IsRead(row, q[2]) /\ IsRead(row, q[3]) /\ IsRead(row, q[4]) =>
              (Chosen(q, row) <=> /\ SqlCompare(Operand(row, q[2]), ">=", Operand(row, q[3])) = "true"
                                  /\ SqlCompare(Operand(row, q[2]), "<=", Operand(row, q[4])) = "true")

(***************************************************************************)
(* Every path answers a predicate with the rows a scan would, each once:   *)
(* indexes and zone maps are optimizations. Left out are rows that cannot  *)
(* be read, what doubts names, an index on a lazy column (it has the       *)
(* placeholders), a HASH lookup of a value of another type than the        *)
(* column's, which compares texts, or of the text that NULL has there, and *)
(* a SORTED range with a Bool bound on an Int column: an Int compares with *)
(* a Bool when it is 0 or 1 only, and a binary search stops at the first   *)
(* one that does not.                                                      *)
(***************************************************************************)
Lazy(col) == col \in DOMAIN lazyExpr

HashTrusted(col, v) ==
  /\ Kind(v) \in {"Int", "Float", "Double", "Bool", "Text"} /\ FieldOf(fields, col).type = <<Kind(v)>>
  /\ HashKey(v) # HashKey(Null)

SortedTrusted(col, constraints) ==
  \A i \in 1..Len(constraints) : Kind(constraints[i][2]) = "Bool" => FieldOf(fields, col).type # <<"Int">>

Trusted(p, path) ==
  CASE path = "hash" -> p[2][2] \notin doubts /\ ~Lazy(p[2][2]) /\ HashTrusted(p[2][2], p[3][2])
    [] path = "sorted" ->
         LET col == SortedRange(p)[1]
         IN col \notin doubts /\ ~Lazy(col) /\ SortedTrusted(col, SortedRange(p)[2])
    [] path = "pruned" -> "zones" \notin stale /\ ~Lazy(RangeOf(p, Inequalities)[1])
    [] OTHER -> TRUE

Applicable(p) == exists /\ "rows" \notin stale

PathsAgree ==
  \A p \in Questions : \A path \in {Path(p)} :
    Applicable(p) /\ Trusted(p, path) => Answer(p, path) = Scanned(p)
=============================================================================
