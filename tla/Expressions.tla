----------------------------- MODULE Expressions -----------------------------
(***************************************************************************)
(* Expressions over a row and the three evaluators the code has for them:  *)
(* Evaluate (query/physical.rs) for SELECT, UPDATE and aggregates, TruthOf *)
(* (query/planner.rs) for WHERE, EvaluateRow (dsl/executor/query.rs) for   *)
(* new columns; the types planning infers; the checks before execution.    *)
(*                                                                         *)
(* An expression is a sequence headed by its form:                         *)
(*   <<"col", name>>  <<"lit", value>>  <<op, l, r>>  <<"not", e>>         *)
(*   <<"and", l, r>>  <<"or", l, r>>  <<"isnull", e>>  <<"notnull", e>>    *)
(*   <<"in", e, list>>  <<"between", e, low, high>>                        *)
(*   <<"case", operand, branches, else>> (operand, else: <<>> if absent)   *)
(*   <<"coalesce", list>>  <<"nullif", a, b>>  <<"cast", e, type>>         *)
(*   <<"fn", name, args>>                                                  *)
(***************************************************************************)
EXTENDS Values, SequencesExt

(* flatten_and: the conjuncts, left to right. *)
RECURSIVE Conjuncts(_)
Conjuncts(p) == IF p[1] = "and" THEN Conjuncts(p[2]) \o Conjuncts(p[3]) ELSE <<p>>

Comparisons == {"=", "!=", ">", "<", ">=", "<="}
Arithmetic == {"+", "-", "*", "/"}

(* Tuple::get: of columns with one name the last; a column the row does not have is NULL. *)
Column(row, n) ==
  LET at == {i \in 1..Len(row.names) : row.names[i] = n}
  IN IF at = {} THEN Null ELSE row.vals[Max(at)]

(***************************************************************************)
(* Arithmetic: Complex wins over Double, Double over Float, Float over     *)
(* Int; an Int divided by zero is NULL, a float is infinite or NaN (floats *)
(* of the model are whole, quotients are cut).                             *)
(***************************************************************************)
Infinity == 1000000
Abs(n) == IF n < 0 THEN -n ELSE n
Cut(a, b) == IF (a < 0) = (b < 0) THEN Abs(a) \div Abs(b) ELSE -(Abs(a) \div Abs(b))

Apply(op, a, b) == CASE op = "+" -> a + b [] op = "-" -> a - b [] op = "*" -> a * b [] op = "/" -> Cut(a, b)

FloatResult(kind, op, a, b) ==
  IF op = "/" /\ b = 0
  THEN IF a = 0 THEN NaN ELSE <<kind, IF a > 0 THEN Infinity ELSE -Infinity>>
  ELSE <<kind, Apply(op, a, b)>>

ComplexResult(op, x, y) ==
  CASE op \in {"+", "-"} -> <<"Complex", <<Apply(op, x[1], y[1]), Apply(op, x[2], y[2])>>>>
    [] op = "*" -> <<"Complex", <<x[1] * y[1] - x[2] * y[2], x[1] * y[2] + x[2] * y[1]>>>>
    [] OTHER -> LET n == y[1] * y[1] + y[2] * y[2] IN
                IF n = 0 THEN NaN
                ELSE <<"Complex", <<Cut(x[1] * y[1] + x[2] * y[2], n), Cut(x[2] * y[1] - x[1] * y[2], n)>>>>

(* Element by element; dividing by zero leaves the element as it is. *)
Element(op, a, b) == IF op = "/" /\ b = 0 THEN a ELSE Apply(op, a, b)

SameShape(m, n) == Len(m) = Len(n) /\ (m # <<>> => Len(m[1]) = Len(n[1]))

Arith(op, l, r) ==
  IF "Complex" \in {Kind(l), Kind(r)}
  THEN IF AsComplex(l) # <<>> /\ AsComplex(r) # <<>> THEN ComplexResult(op, AsComplex(l), AsComplex(r)) ELSE Null
  ELSE IF "NaN" \in {Kind(l), Kind(r)} /\ {Kind(l), Kind(r)} \subseteq {"NaN", "Int", "Float", "Double"} THEN NaN
  ELSE IF "Double" \in {Kind(l), Kind(r)}
  THEN IF IsNumber(l) /\ IsNumber(r) THEN FloatResult("Double", op, Datum(l), Datum(r)) ELSE Null
  ELSE IF Kind(l) = "Int" /\ Kind(r) = "Int"
  THEN IF op = "/" /\ Datum(r) = 0 THEN Null ELSE AnInt(Apply(op, Datum(l), Datum(r)))
  ELSE IF IsNumber(l) /\ IsNumber(r) THEN FloatResult("Float", op, Datum(l), Datum(r))
  ELSE IF Kind(l) = "Matrix" /\ Kind(r) = "Matrix" /\ SameShape(Datum(l), Datum(r))
  THEN <<"Matrix", [i \in 1..Len(Datum(l)) |->
          [j \in 1..Len(Datum(l)[i]) |-> Element(op, Datum(l)[i][j], Datum(r)[i][j])]]>>
  ELSE IF Kind(l) = "Matrix" /\ Kind(r) \in {"Int", "Float"}
  THEN <<"Matrix", [i \in 1..Len(Datum(l)) |->
          [j \in 1..Len(Datum(l)[i]) |-> Element(op, Datum(l)[i][j], Datum(r))]]>>
  ELSE Null

(***************************************************************************)
(* CAST (texts are spellings; only those of numbers parse).                *)
(***************************************************************************)
Digits == <<0, 1>>
Spelled(s) == {n \in 1..Len(Spelling) : Spelling[n] = s}

CastTo(v, type) ==
  LET parsed == IF Kind(v) = "Text" /\ Datum(v) <= Len(Digits) THEN <<Digits[Datum(v)]>>
                ELSE IF IsNumber(v) THEN <<Datum(v)>> ELSE <<>>
  IN CASE type[1] \in {"Float", "Double"} -> IF parsed # <<>> THEN <<type[1], parsed[1]>> ELSE Null
       [] type[1] = "Int" -> IF Kind(v) = "Bool" THEN AnInt(Datum(v))
                             ELSE IF parsed # <<>> THEN AnInt(parsed[1])
                             ELSE IF Kind(v) = "NaN" THEN AnInt(0) ELSE Null
       [] type[1] = "Text" -> IF Kind(v) = "Text" THEN v
                              ELSE IF (IsNumber(v) \/ Kind(v) \in {"Bool", "NaN"}) /\ Spelled(HashKey(v)) # {}
                              THEN AText(CHOOSE n \in Spelled(HashKey(v)) : TRUE) ELSE Null
       [] type[1] = "Bool" -> IF Kind(v) = "Bool" THEN v
                              ELSE IF Kind(v) = "Int" THEN ABool(Datum(v) # 0)
                              ELSE IF Kind(v) = "Text" THEN ABool(TRUE) ELSE Null
       [] type[1] = "Vector" -> IF Kind(v) \in {"Vector", "Bits"} /\ Len(Datum(v)) = type[2] THEN AVector(Datum(v))
                                ELSE IF Kind(v) = "Matrix" /\ Len(FlattenSeq(Datum(v))) = type[2]
                                THEN AVector(FlattenSeq(Datum(v))) ELSE Null
       [] type[1] = "Matrix" -> IF Kind(v) = "Matrix" /\ Len(Datum(v)) = type[2]
                                   /\ \A i \in 1..type[2] : Len(Datum(v)[i]) = type[3] THEN v
                                ELSE IF Kind(v) = "Vector" /\ Len(Datum(v)) = type[2] * type[3]
                                THEN <<"Matrix", [i \in 1..type[2] |->
                                        SubSeq(Datum(v), (i - 1) * type[3] + 1, i * type[3])]>> ELSE Null
       [] OTHER -> IF Kind(v) \in {"Bits", "Vector"} /\ Len(Datum(v)) = type[2]
                      /\ \A i \in 1..Len(Datum(v)) : Datum(v)[i] \in {0, 1}
                   THEN <<"Bits", Datum(v)>> ELSE Null

(***************************************************************************)
(* Functions; an argument of another kind gives NULL.                      *)
(***************************************************************************)
Sum(s) == FoldLeft(LAMBDA x, y : x + y, 0, s)
Pairwise(op(_, _), s, t) == [i \in 1..(IF Len(s) < Len(t) THEN Len(s) ELSE Len(t)) |-> op(s[i], t[i])]
Times(x, y) == x * y
Plus(x, y) == x + y
Differs(x, y) == IF x = y THEN 0 ELSE 1
Both(vs, kind) == Kind(vs[1]) = kind /\ Kind(vs[2]) = kind

Function(name, vs) ==
  LET a == Datum(vs[1])
      b == Datum(vs[2])
  IN CASE name = "DOT" /\ Both(vs, "Vector") -> AFloat(Sum(Pairwise(Times, a, b)))
       [] name = "VEC_ADD" /\ Both(vs, "Vector") -> AVector(Pairwise(Plus, a, b))
       [] name = "VEC_SCALE" /\ Kind(vs[1]) = "Vector" /\ Kind(vs[2]) \in {"Int", "Float"} ->
            AVector([i \in 1..Len(a) |-> a[i] * b])
       [] name = "MATMUL" /\ Both(vs, "Matrix") /\ a # <<>> /\ b # <<>> ->
            IF Len(a[1]) # Len(b) THEN Null
            ELSE <<"Matrix", [i \in 1..Len(a) |-> [j \in 1..Len(b[1]) |->
                    Sum([k \in 1..Len(b) |-> a[i][k] * b[k][j]])]]>>
       [] name = "MATMUL" /\ Kind(vs[1]) = "Matrix" /\ Kind(vs[2]) = "Vector" /\ a # <<>> ->
            IF Len(a[1]) # Len(b) THEN Null ELSE AVector([i \in 1..Len(a) |-> Sum(Pairwise(Times, a[i], b))])
       [] name = "TRANSPOSE" /\ Kind(vs[1]) = "Matrix" ->
            <<"Matrix", IF a = <<>> THEN a ELSE [j \in 1..Len(a[1]) |-> [i \in 1..Len(a) |-> a[i][j]]]>>
       [] name = "FLATTEN" /\ Kind(vs[1]) \in {"Vector", "Matrix"} ->
            AVector(IF Kind(vs[1]) = "Vector" THEN a ELSE FlattenSeq(a))
       [] name = "HAMMING" /\ Both(vs, "Bits") -> IF Len(a) = Len(b) THEN AnInt(Sum(Pairwise(Differs, a, b))) ELSE Null
       [] name = "BIT_COUNT" /\ Kind(vs[1]) = "Bits" -> AnInt(Sum(a))
       [] name = "COMPLEX" /\ IsNumber(vs[1]) /\ IsNumber(vs[2]) -> <<"Complex", <<a, b>>>>
       [] name \in {"REAL", "IMAG"} /\ AsComplex(vs[1]) # <<>> ->
            ADouble(AsComplex(vs[1])[IF name = "REAL" THEN 1 ELSE 2])
       [] OTHER -> Null

(* Mutant of AsTruth: NULL is false. *)
TwoValued(v) == Truth(IsTrue(v))

(***************************************************************************)
(* evaluate_expression                                                     *)
(***************************************************************************)
AsTruth(v) == IF Kind(v) = "Bool" THEN Truth(IsTrue(v)) ELSE "unknown"

TruthValue(t) == IF t = "unknown" THEN Null ELSE ABool(t = "true")

RECURSIVE Evaluate(_, _)
Evaluate(e, row) ==
  LET form == e[1]
      Val(x) == Evaluate(x, row)
  IN CASE form = "col" -> Column(row, e[2])
       [] form = "lit" -> e[2]
       [] form = "and" -> TruthValue(And3(AsTruth(Val(e[2])), AsTruth(Val(e[3]))))
       [] form = "or" -> TruthValue(Or3(AsTruth(Val(e[2])), AsTruth(Val(e[3]))))
       [] form = "not" -> TruthValue(Not3(AsTruth(Val(e[2]))))
       [] form \in Comparisons -> TruthValue(SqlCompare(Val(e[2]), form, Val(e[3])))
       [] form \in Arithmetic -> Arith(form, Val(e[2]), Val(e[3]))
       [] form = "isnull" -> ABool(IsNull(Val(e[2])))
       [] form = "notnull" -> ABool(~IsNull(Val(e[2])))
       [] form = "in" -> TruthValue(SqlIn(Val(e[2]), [i \in 1..Len(e[3]) |-> Val(e[3][i])]))
       [] form = "between" -> TruthValue(And3(SqlCompare(Val(e[2]), ">=", Val(e[3])),
                                              SqlCompare(Val(e[2]), "<=", Val(e[4]))))
       [] form = "case" ->
            LET taken == {i \in 1..Len(e[3]) :
                            IF e[2] = <<>> THEN IsTrue(Val(e[3][i][1]))
                            ELSE SqlCompare(Val(e[2]), "=", Val(e[3][i][1])) = "true"}
            IN IF taken # {} THEN Val(e[3][Min(taken)][2]) ELSE IF e[4] = <<>> THEN Null ELSE Val(e[4])
       [] form = "coalesce" ->
            LET present == {i \in 1..Len(e[2]) : ~IsNull(Val(e[2][i]))}
            IN IF present = {} THEN Null ELSE Val(e[2][Min(present)])
       [] form = "nullif" -> IF Compare(Val(e[2]), Val(e[3])) = "equal" THEN Null ELSE Val(e[2])
       [] form = "cast" -> CastTo(Val(e[2]), e[3])
       [] OTHER -> Function(e[2], [i \in 1..2 |-> IF i <= Len(e[3]) THEN Val(e[3][i]) ELSE Null])

(***************************************************************************)
(* truth and eval_value: a WHERE clause. An operand that is itself a       *)
(* predicate has no value here (it reads as NULL), and a column, a         *)
(* COALESCE or another value as the whole predicate has a rule of its own. *)
(***************************************************************************)
Valued == {"col", "lit", "case", "coalesce", "nullif", "cast", "fn"} \cup Arithmetic

OperandValue(e, row) == IF e[1] \in Valued THEN Evaluate(e, row) ELSE Null

RECURSIVE TruthOf(_, _)
TruthOf(e, row) ==
  LET form == e[1]
      Val(x) == OperandValue(x, row)
      T(x) == TruthOf(x, row)
      bare(v) == IF Kind(v) = "Bool" THEN Truth(IsTrue(v)) ELSE IF IsNull(v) THEN "unknown" ELSE "false"
  IN CASE form \in {"col", "lit"} -> bare(Val(e))
       [] form = "and" -> And3(T(e[2]), T(e[3]))
       [] form = "or" -> Or3(T(e[2]), T(e[3]))
       [] form = "not" -> Not3(T(e[2]))
       [] form = "isnull" -> Truth(IsNull(Val(e[2])))
       [] form = "notnull" -> Truth(~IsNull(Val(e[2])))
       [] form = "in" -> SqlIn(Val(e[2]), [i \in 1..Len(e[3]) |-> Val(e[3][i])])
       [] form = "between" -> And3(SqlCompare(Val(e[2]), ">=", Val(e[3])), SqlCompare(Val(e[2]), "<=", Val(e[4])))
       [] form \in Comparisons -> SqlCompare(Val(e[2]), form, Val(e[3]))
       [] form = "case" ->
            LET taken == {i \in 1..Len(e[3]) :
                            IF e[2] = <<>> THEN T(e[3][i][1]) = "true"
                            ELSE SqlCompare(Val(e[2]), "=", Val(e[3][i][1])) = "true"}
            IN IF taken # {} THEN T(e[3][Min(taken)][2]) ELSE IF e[4] = <<>> THEN "false" ELSE T(e[4])
       [] form = "coalesce" -> Truth(\E i \in 1..Len(e[2]) : ~IsNull(Val(e[2][i])))
       [] OTHER -> "false"

(* evaluate_predicate: a row is kept only when the predicate is true. *)
Holds(e, row) == TruthOf(e, row) = "true"

(***************************************************************************)
(* eval_row_expr: references, literals and arithmetic; anything else is    *)
(* NULL, and so is every comparison.                                       *)
(***************************************************************************)
RECURSIVE EvaluateRow(_, _)
EvaluateRow(e, row) ==
  CASE e[1] = "col" -> Column(row, e[2])
    [] e[1] = "lit" -> IF Kind(e[2]) = "Double" THEN AFloat(Datum(e[2])) ELSE e[2]
    [] e[1] \in Arithmetic ->
         LET l == EvaluateRow(e[2], row)
             r == EvaluateRow(e[3], row)
         IN IF "Matrix" \in {Kind(l), Kind(r)} THEN Null ELSE Arith(e[1], l, r)
    [] OTHER -> Null
=============================================================================
