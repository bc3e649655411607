------------------------------ MODULE Operators ------------------------------
(***************************************************************************)
(* The physical operators of a query (query/physical.rs), as functions of  *)
(* relations. A relation has fields and rows (sequences of values); one    *)
(* with a row that does not fit its fields, and the result of an operator  *)
(* that fails, is not ok, and what is made of it is not ok either.         *)
(***************************************************************************)
EXTENDS Planning

Relation(fields, rows) ==
  [ok |-> \A i \in 1..Len(rows) : Valid(fields, rows[i]), fields |-> fields, rows |-> rows]

Broken == [ok |-> FALSE, fields |-> <<>>, rows |-> <<>>]

AsRow(fields, values) == [names |-> Names(fields), vals |-> values]

(* Schema::get_field_index: of fields with one name the last; 0 if there is none. *)
FieldAt(fields, name) == Max({0} \cup {i \in 1..Len(fields) : fields[i].name = name})

Nulls(fields) == [i \in 1..Len(fields) |-> Null]

Nullable(field) == [field EXCEPT !.nullable = TRUE]

NewField(name, type) == [name |-> name, type |-> type, nullable |-> FALSE, lazy |-> FALSE]

(***************************************************************************)
(* FilterExec, ProjectionExec (an unknown column is an error), LimitExec.  *)
(***************************************************************************)
Filter(rel, predicate) ==
  IF ~rel.ok \/ ~CheckExpr(predicate, rel.fields) THEN Broken
  ELSE [rel EXCEPT !.rows = SelectSeq(@, LAMBDA r : Holds(predicate, AsRow(rel.fields, r)))]

Project(rel, names) ==
  LET at == [k \in 1..Len(names) |-> FieldAt(rel.fields, names[k])] IN
  IF ~rel.ok \/ \E k \in 1..Len(names) : at[k] = 0 THEN Broken
  ELSE Relation([k \in 1..Len(names) |-> rel.fields[at[k]]],
                [i \in 1..Len(rel.rows) |-> [k \in 1..Len(names) |-> rel.rows[i][at[k]]]])

Limit(rel, n, offset) ==
  IF ~rel.ok THEN Broken
  ELSE [rel EXCEPT !.rows = SubSeq(@, offset + 1, IF offset + n < Len(@) THEN offset + n ELSE Len(@))]

(***************************************************************************)
(* sort_tuples: stable; values that do not compare are equal; keys is a    *)
(* sequence of <<column, ascending>>.                                      *)
(***************************************************************************)
Reverse3(order) == CASE order = "less" -> "greater" [] order = "greater" -> "less" [] OTHER -> order

Ranked(x, y, ascending) ==
  LET order == IF Compare(x, y) = "none" THEN "equal" ELSE Compare(x, y)
  IN IF ascending THEN order ELSE Reverse3(order)

RowOrder(x, y, keys) ==   \* keys: <<position, ascending>>
  LET deciding == {k \in 1..Len(keys) : Ranked(x[keys[k][1]], y[keys[k][1]], keys[k][2]) # "equal"}
  IN IF deciding = {} THEN "equal"
     ELSE LET k == Min(deciding) IN Ranked(x[keys[k][1]], y[keys[k][1]], keys[k][2])

StableSort(items, Less(_, _)) ==
  LET numbered == [i \in 1..Len(items) |-> <<items[i], i>>]
      before(p, q) == Less(p[1], q[1]) \/ (~Less(q[1], p[1]) /\ p[2] < q[2])
      sorted == SortSeq(numbered, before)
  IN [i \in 1..Len(items) |-> sorted[i][1]]

Sort(rel, columns) ==
  LET keys == [k \in 1..Len(columns) |-> <<FieldAt(rel.fields, columns[k][1]), columns[k][2]>>] IN
  IF ~rel.ok \/ \E k \in 1..Len(keys) : keys[k][1] = 0 THEN Broken
  ELSE IF \E k \in 1..Len(keys) : rel.fields[keys[k][1]].type[1] \in {"Vector", "Matrix", "Complex"} THEN Broken
  ELSE [rel EXCEPT !.rows = StableSort(@, LAMBDA x, y : RowOrder(x, y, keys) = "less")]

(***************************************************************************)
(* DistinctExec, UnionExec (the schema of the left side, whatever the      *)
(* right side's rows are).                                                 *)
(***************************************************************************)
FirstOfEach(rows) ==
  LET first == SelectSeq([i \in 1..Len(rows) |-> i], LAMBDA i : \A j \in 1..i - 1 : rows[j] # rows[i])
  IN [k \in 1..Len(first) |-> rows[first[k]]]

Distinct(rel) == IF rel.ok THEN [rel EXCEPT !.rows = FirstOfEach(@)] ELSE Broken

(***************************************************************************)
(* Joins. Names of the left side that the right side repeats get "r_"      *)
(* before them there. The plan that is executed marks every field of the   *)
(* result nullable, of inner joins too (create_physical_plan); the logical *)
(* schema, which only types and names are looked up in, keeps the fields   *)
(* as they are. A pair is <<left row, right row>> by number, 0 the NULLs   *)
(* of a side without a match.                                              *)
(***************************************************************************)
JoinSchema(left, right) ==
  LET leftNames == ToSet(Names(left))
      renamed(f) == IF f.name \in leftNames THEN [f EXCEPT !.name = "r_" \o @] ELSE f
  IN left \o [i \in 1..Len(right) |-> renamed(right[i])]

JoinFields(left, right) ==
  LET fields == JoinSchema(left, right) IN [i \in 1..Len(fields) |-> Nullable(fields[i])]

Joined(left, right, pairs) ==
  LET half(rel, n) == IF n = 0 THEN Nulls(rel.fields) ELSE rel.rows[n]
  IN Relation(JoinFields(left.fields, right.fields),
              [i \in 1..Len(pairs) |-> half(left, pairs[i][1]) \o half(right, pairs[i][2])])

Numbers(rel) == [i \in 1..Len(rel.rows) |-> i]

KeepsLeft(kind) == kind \in {"left", "full"}
KeepsRight(kind) == kind \in {"right", "full"}

(* Mutant of HashPairs: NULL keys are put into the table and found there. *)
NullPairs(left, right, l, r, kind) ==
  LET rights(i) == SelectSeq(Numbers(right), LAMBDA j : left.rows[i][l] = right.rows[j][r])
      lonelyRight == SelectSeq(Numbers(right), LAMBDA j : \A i \in 1..Len(left.rows) : j \notin ToSet(rights(i)))
  IN FlattenSeq([i \in 1..Len(left.rows) |->
       IF rights(i) # <<>> THEN [k \in 1..Len(rights(i)) |-> <<i, rights(i)[k]>>]
       ELSE IF KeepsLeft(kind) THEN <<<<i, 0>>>> ELSE <<>>])
     \o (IF KeepsRight(kind) THEN [k \in 1..Len(lonelyRight) |-> <<0, lonelyRight[k]>>] ELSE <<>>)

(***************************************************************************)
(* HashJoinExec: the table is built on the side with fewer rows, the other *)
(* side probes it in order; keys are equal as values (an Int and a Float   *)
(* never are), NULL matches nothing; unmatched rows of the built side come *)
(* last.                                                                   *)
(***************************************************************************)
HashPairs(left, right, l, r, kind) ==
  LET match(i, j) == left.rows[i][l] = right.rows[j][r] /\ ~IsNull(left.rows[i][l])
      lefts(j) == SelectSeq(Numbers(left), LAMBDA i : match(i, j))
      rights(i) == SelectSeq(Numbers(right), LAMBDA j : match(i, j))
      probedRight(j) == IF lefts(j) # <<>> THEN [k \in 1..Len(lefts(j)) |-> <<lefts(j)[k], j>>]
                        ELSE IF KeepsRight(kind) THEN <<<<0, j>>>> ELSE <<>>
      probedLeft(i) == IF rights(i) # <<>> THEN [k \in 1..Len(rights(i)) |-> <<i, rights(i)[k]>>]
                       ELSE IF KeepsLeft(kind) THEN <<<<i, 0>>>> ELSE <<>>
      lonelyLeft == SelectSeq(Numbers(left), LAMBDA i : rights(i) = <<>>)
      lonelyRight == SelectSeq(Numbers(right), LAMBDA j : lefts(j) = <<>>)
  IN IF Len(left.rows) < Len(right.rows)
     THEN FlattenSeq([j \in 1..Len(right.rows) |-> probedRight(j)])
          \o (IF KeepsLeft(kind) THEN [k \in 1..Len(lonelyLeft) |-> <<lonelyLeft[k], 0>>] ELSE <<>>)
     ELSE FlattenSeq([i \in 1..Len(left.rows) |-> probedLeft(i)])
          \o (IF KeepsRight(kind) THEN [k \in 1..Len(lonelyRight) |-> <<0, lonelyRight[k]>>] ELSE <<>>)

HashJoin(left, right, leftCol, rightCol, kind) ==
  LET l == FieldAt(left.fields, leftCol)
      r == FieldAt(right.fields, rightCol)
  IN IF ~left.ok \/ ~right.ok \/ l = 0 \/ r = 0 THEN Broken
     ELSE Joined(left, right, HashPairs(left, right, l, r, kind))

(***************************************************************************)
(* SimilarityJoinExec without an index: pairs of vectors of one length     *)
(* with COSINE_SIM above the threshold, of the left rows in order, except  *)
(* for a right join, which goes by the right rows. The cosine is compared  *)
(* as the signed square dot^2 / (|a|^2 |b|^2) against threshold^2.         *)
(***************************************************************************)
Square(x) == x * x
Norm2(v) == Sum([i \in 1..Len(v) |-> Square(v[i])])
DotProduct(a, b) == Sum(Pairwise(Times, a, b))

(* cosine_sim > p/q, for 0 <= p/q <= 1; it is 0 when a norm is. *)
CosineAbove(a, b, p, q) ==
  LET dot == DotProduct(a, b)
      norms == Norm2(a) * Norm2(b)
  IN norms # 0 /\ dot > 0 /\ Square(q) * Square(dot) > Square(p) * norms

SimilarityPairs(left, right, l, r, threshold, kind) ==
  LET similar(i, j) == /\ Kind(left.rows[i][l]) = "Vector" /\ Kind(right.rows[j][r]) = "Vector"
                       /\ Len(Datum(left.rows[i][l])) = Len(Datum(right.rows[j][r]))
                       /\ CosineAbove(Datum(left.rows[i][l]), Datum(right.rows[j][r]), threshold[1], threshold[2])
      rights(i) == SelectSeq(Numbers(right), LAMBDA j : similar(i, j))
      lefts(j) == SelectSeq(Numbers(left), LAMBDA i : similar(i, j))
      ofLeft(i) == IF rights(i) = <<>> THEN (IF KeepsLeft(kind) THEN <<<<i, 0>>>> ELSE <<>>)
                   ELSE [k \in 1..Len(rights(i)) |-> <<i, rights(i)[k]>>]
      ofRight(j) == IF lefts(j) = <<>> THEN <<<<0, j>>>> ELSE [k \in 1..Len(lefts(j)) |-> <<lefts(j)[k], j>>]
      lonelyRight == SelectSeq(Numbers(right), LAMBDA j : lefts(j) = <<>>)
  IN IF kind = "right" THEN FlattenSeq([j \in 1..Len(right.rows) |-> ofRight(j)])
     ELSE FlattenSeq([i \in 1..Len(left.rows) |-> ofLeft(i)])
          \o (IF kind = "full" THEN [k \in 1..Len(lonelyRight) |-> <<0, lonelyRight[k]>>] ELSE <<>>)

SimilarityJoin(left, right, leftCol, rightCol, threshold, kind) ==
  LET l == FieldAt(left.fields, leftCol)
      r == FieldAt(right.fields, rightCol)
  IN IF ~left.ok \/ ~right.ok \/ l = 0 \/ r = 0 THEN Broken
     ELSE Joined(left, right, SimilarityPairs(left, right, l, r, threshold, kind))
=============================================================================
