------------------------------ MODULE Queries ------------------------------
(***************************************************************************)
(* What queries promise, as questions put to the query modules.            *)
(***************************************************************************)
EXTENDS Select, Questions

CONSTANTS
  Joins,        \* <<left relation, right relation, kind of join>> on the columns "k"
  Groupings,    \* <<relation, aggregate>>: grouped by "g"
  Predicates,   \* <<predicate, row>>
  Literals,     \* <<parsed expression, fields>>
  Statements    \* <<statement, tables>>

AskQueries ==
  \/ Ask("join", Joins) \/ Ask("group", Groupings) \/ Ask("predicate", Predicates)
  \/ Ask("literal", Literals) \/ Ask("select", Statements)

(***************************************************************************)
(* A join is the set of pairs it should be, whichever side the table is    *)
(* built on: each pair of rows with equal keys once, each row of a         *)
(* preserved side without one once. A left join is the right join of the   *)
(* sides swapped.                                                          *)
(***************************************************************************)
Key(rel, n) == rel.rows[n][FieldAt(rel.fields, "k")]

ExpectedPairs(left, right, kind) ==
  LET matches == {p \in (1..Len(left.rows)) \X (1..Len(right.rows)) :
                    Equals(Key(left, p[1]), Key(right, p[2])) = "true"
                      /\ ~IsNull(Key(left, p[1]))}
  IN matches
       \cup (IF KeepsLeft(kind) THEN {<<i, 0>> : i \in {n \in 1..Len(left.rows) : \A m \in matches : m[1] # n}} ELSE {})
       \cup (IF KeepsRight(kind) THEN {<<0, j>> : j \in {n \in 1..Len(right.rows) : \A m \in matches : m[2] # n}} ELSE {})

Mirrored(kind) == CASE kind = "left" -> "right" [] kind = "right" -> "left" [] OTHER -> kind

JoinsAgree ==
  Asked("join") =>
    LET left == question[2]
        right == question[3]
        pairs(l, r, kind) == HashPairs(l, r, FieldAt(l.fields, "k"), FieldAt(r.fields, "k"), kind)
        here == pairs(left, right, question[4])
        there == pairs(right, left, Mirrored(question[4]))
    IN /\ ToSet(here) = ExpectedPairs(left, right, question[4])
       /\ Len(here) = Cardinality(ToSet(here))
       /\ ToSet(here) = {<<p[2], p[1]>> : p \in ToSet(there)}

(***************************************************************************)
(* GROUP BY splits the rows: what the groups count, add up and find best   *)
(* is what one group of everything does; and the running aggregate of a    *)
(* window over the same partition ends at the group's. Columns that may be *)
(* NULL are left out: there SUM and AVG depend on the first value.         *)
(***************************************************************************)
Combined(func, answers) ==
  CASE func \in {"COUNT", "SUM"} -> FoldLeft(AddUp, AnInt(0), answers)
    [] func \in {"MIN", "MAX"} -> ExtremeOf(answers, func)

LastOf(rel, w, i) ==   \* the window's value at the last row of the partition of row i
  LET column == WindowColumn(rel, w)
      mine == {j \in 1..Len(rel.rows) : rel.rows[j][1] = rel.rows[i][1]}
  IN column[Max(mine)]

GroupsAddUp(rel, agg) ==
  LET groups == Aggregate(rel, <<"g">>, <<<<agg, "">>>>)
      whole == Aggregate(rel, <<>>, <<<<agg, "">>>>)
      w == [func |-> agg[2], e |-> agg[3], offset |-> 0, partition |-> <<"g">>, order |-> <<>>, alias |-> "w"]
  IN /\ groups.ok /\ whole.ok
     /\ agg[2] \in {"COUNT", "SUM", "MIN", "MAX"} /\ rel.rows # <<>> =>
          whole.rows[1][1] = Combined(agg[2], [k \in 1..Len(groups.rows) |-> groups.rows[k][2]])
     /\ agg[2] \in {"COUNT", "SUM", "AVG", "MIN", "MAX"} =>
          \A i \in 1..Len(rel.rows) : \E k \in 1..Len(groups.rows) :
            /\ groups.rows[k][1] = rel.rows[i][1]
            /\ Datum(groups.rows[k][2]) = Datum(LastOf(rel, w, i))

(* Every grouping asked about adds up. *)
GroupsAgree == [][\A q \in {question'} : q[1] = "group" => GroupsAddUp(q[2], q[3])]_question

(***************************************************************************)
(* WHERE and SELECT agree on a predicate: the rows WHERE keeps are those   *)
(* of which the expression, selected as a column, is true. Left out is a   *)
(* predicate as an operand of a comparison, NULLIF, CAST, COALESCE or CASE *)
(* in the place of a predicate, and a value below NOT that is neither a    *)
(* Bool nor NULL: for these the two evaluators differ. WHERE NOT score     *)
(* keeps every row whose score is a number, of which NOT score is NULL,    *)
(* against what planner.rs:751 says of a column without truthiness.        *)
(***************************************************************************)
RECURSIVE TestsOf(_), NegatedTests(_)
TestsOf(e) ==
  IF e[1] \in {"and", "or", "not"} THEN UNION {TestsOf(Children(e)[i]) : i \in 1..Len(Children(e))} ELSE {e}

NegatedTests(e) ==
  IF e[1] = "not" THEN TestsOf(e[2])
  ELSE IF e[1] \in {"and", "or"} THEN NegatedTests(e[2]) \cup NegatedTests(e[3]) ELSE {}

PlainPredicate(e, row) ==
  /\ \A test \in TestsOf(e) :
       /\ test[1] \in Comparisons \cup {"isnull", "notnull", "in", "between", "col", "lit"}
       /\ \A i \in 1..Len(Children(test)) : Children(test)[i][1] \in Valued
  /\ \A test \in NegatedTests(e) : test[1] \in {"col", "lit"} => Kind(Evaluate(test, row)) \in {"Bool", "Null"}

WhereAgreesWithSelect ==
  Asked("predicate") /\ PlainPredicate(question[2], question[3]) =>
    (Holds(question[2], question[3]) <=> IsTrue(Evaluate(question[2], question[3])))

(***************************************************************************)
(* A decimal keeps its precision beside a DOUBLE: lowering leaves no Float *)
(* literal, not even inside arithmetic, in an operand whose other operand  *)
(* is a DOUBLE (the value tested by IN and BETWEEN keeps its type).        *)
(***************************************************************************)
RECURSIVE HasSingle(_)
HasSingle(e) ==
  \/ e[1] = "lit" /\ Kind(e[2]) = "Float"
  \/ e[1] \in Arithmetic /\ (HasSingle(e[2]) \/ HasSingle(e[3]))

RECURSIVE Precise(_, _)
Precise(e, fields) ==
  LET double(x) == InferType(x, fields) = <<"Double">>
      operands == IF e[1] \in Comparisons \cup Arithmetic THEN {<<2, 3>>, <<3, 2>>} ELSE {}
  IN /\ \A p \in operands : ~(double(e[p[1]]) /\ HasSingle(e[p[2]]))
     /\ e[1] = "in" /\ double(e[2]) => \A i \in 1..Len(e[3]) : ~HasSingle(e[3][i])
     /\ e[1] = "between" /\ double(e[2]) => ~HasSingle(e[3]) /\ ~HasSingle(e[4])
     /\ \A i \in 1..Len(Children(e)) : Precise(Children(e)[i], fields)

LiteralsKeepPrecision ==
  Asked("literal") => Precise(Lower(question[2], question[3], {}), question[3])

(***************************************************************************)
(* A statement means what SQL says: the rows of the joined tables that     *)
(* WHERE keeps, grouped; columns computed; duplicates removed; sorted; cut *)
(* to LIMIT. The code moves sorting and limiting before or after computing *)
(* columns, whichever it can. Left out: DISTINCT together with a computed  *)
(* column or LIMIT, and LIMIT together with a window (the code cuts and    *)
(* removes duplicates first), and what fails.                              *)
(***************************************************************************)
SqlAnswer(q, tables) ==
  LET grouped == Grouped(q, Where(q, JoinAll(q, tables[q.from[2]], tables)))
      extended == IF Extras(q) = <<>> THEN grouped ELSE Extended(q, grouped).rel
      sorted == Ordered(q, extended)
      selected == IF Extras(q) # <<>> THEN Project(sorted, SelectedNames(q, grouped)) ELSE Projected(q, sorted)
  IN Limited(q, Deduplicated(q, selected))

Standard(q) ==
  LET windows == Items(q, "window") # <<>>
  IN /\ q.distinct => q.limit = NoLimit /\ Extras(q) = <<>>
     /\ windows => q.limit = NoLimit
     /\ q.union = <<>> /\ q.ctes = <<>> /\ q.from # <<>> /\ q.from[1] = "named"

AnsweredAsSql(q, tables) ==
  LET answer == Answer(q, tables)
      expected == SqlAnswer(q, tables)
  IN answer.ok /\ expected.ok => answer.rows = expected.rows

(* Every statement asked is answered as SQL says. *)
SelectAgrees ==
  [][\A q \in {question'} : q[1] = "select" /\ Standard(q[2]) => AnsweredAsSql(q[2], q[3])]_question
=============================================================================
