------------------------------- MODULE Values -------------------------------
(***************************************************************************)
(* Values of record datasets, their order, equality and types, and the     *)
(* three-valued logic of predicates (core/value.rs, core/tuple.rs,         *)
(* query/planner.rs).                                                      *)
(*                                                                         *)
(* A value is <<kind, datum>>; the kind comes first so that values of      *)
(* different kinds are told apart before their data are compared. Floats   *)
(* are whole numbers, "NaN" is the Float that is not a number, a Text is   *)
(* the position of its spelling in Spelling, a Matrix is the sequence of   *)
(* its rows, a Complex is <<re, im>>, Bits are a sequence of 0 and 1.      *)
(***************************************************************************)
EXTENDS Integers, Sequences, TLC

(* Spellings in their order. *)
Spelling == <<"0", "1", "NULL", "NaN", "a", "false", "true">>

Null == <<"Null", 0>>
AnInt(i) == <<"Int", i>>
AFloat(f) == <<"Float", f>>
ADouble(f) == <<"Double", f>>
NaN == <<"NaN", 0>>
ABool(b) == <<"Bool", IF b THEN 1 ELSE 0>>
AText(n) == <<"Text", n>>
AVector(v) == <<"Vector", v>>

Kind(v) == v[1]
Datum(v) == v[2]
IsNull(v) == Kind(v) = "Null"
IsTrue(v) == Kind(v) = "Bool" /\ Datum(v) = 1
IsNumber(v) == Kind(v) \in {"Int", "Float", "Double"}

(***************************************************************************)
(* Value::value_type. A type is <<kind>> or <<kind, dimensions>>.          *)
(***************************************************************************)
TypeOf(v) ==
  CASE Kind(v) = "NaN" -> <<"Float">>
    [] Kind(v) \in {"Vector", "Bits"} -> <<Kind(v), Len(Datum(v))>>
    [] Kind(v) = "Matrix" -> <<"Matrix", Len(Datum(v)), IF Datum(v) = <<>> THEN 0 ELSE Len(Datum(v)[1])>>
    [] OTHER -> <<Kind(v)>>

(* Value::matches_type: NULL matches everything. *)
MatchesType(v, type) ==
  \/ IsNull(v)
  \/ TypeOf(v) = type
  \/ /\ Kind(v) = "Matrix" /\ type[1] = "Matrix" /\ Len(Datum(v)) = type[2]
     /\ \/ Datum(v) = <<>>
        \/ type[3] = 0 /\ \A r \in 1..Len(Datum(v)) : Len(Datum(v)[r]) = Len(Datum(v)[1])

(***************************************************************************)
(* A field is [name, type, nullable, lazy]. Field::is_compatible: a Vector *)
(* of dimension 0 and a Matrix of 0 columns accept any.                    *)
(***************************************************************************)
Compatible(field, v) ==
  LET type == field.type IN
  IF IsNull(v) THEN field.nullable
  ELSE \/ TypeOf(v) = type
       \/ Kind(v) = "Vector" /\ type = <<"Vector", 0>>
       \/ Kind(v) = "Matrix" /\ type[1] = "Matrix" /\ type[2] = TypeOf(v)[2] /\ type[3] = 0

(* Schema::validate, without which no tuple is made. *)
Valid(fields, values) ==
  Len(values) = Len(fields) /\ \A i \in 1..Len(fields) : Compatible(fields[i], values[i])

Names(fields) == [i \in 1..Len(fields) |-> fields[i].name]

(***************************************************************************)
(* Value::compare. NULL is below everything (ORDER BY); a Bool compares    *)
(* with the integers 0 and 1 only; most pairs of kinds do not compare.     *)
(***************************************************************************)
Order(x, y) == IF x < y THEN "less" ELSE IF x = y THEN "equal" ELSE "greater"

Compare(a, b) ==
  LET bit(v) == Kind(v) = "Bool" \/ (Kind(v) = "Int" /\ Datum(v) \in {0, 1}) IN
  IF IsNull(a) \/ IsNull(b)
  THEN Order(IF IsNull(a) THEN 0 ELSE 1, IF IsNull(b) THEN 0 ELSE 1)
  ELSE IF \/ IsNumber(a) /\ IsNumber(b)
          \/ Kind(a) = Kind(b) /\ Kind(a) \in {"Text", "Bool"}
          \/ {Kind(a), Kind(b)} = {"Bool", "Int"} /\ bit(a) /\ bit(b)
       THEN Order(Datum(a), Datum(b))
       ELSE "none"

(* Value::as_complex: real numbers have no imaginary part. *)
AsComplex(v) ==
  IF IsNumber(v) THEN <<Datum(v), 0>> ELSE IF Kind(v) = "Complex" THEN Datum(v) ELSE <<>>

(* Value::equals: "true", "false" or "unknown". *)
Truth(b) == IF b THEN "true" ELSE "false"

Equals(a, b) ==
  IF Kind(a) = Kind(b) /\ Kind(a) = "Bits" THEN Truth(a = b)
  ELSE IF Kind(a) = "Complex" \/ Kind(b) = "Complex"
  THEN IF AsComplex(a) = <<>> \/ AsComplex(b) = <<>> THEN "unknown" ELSE Truth(AsComplex(a) = AsComplex(b))
  ELSE IF Compare(a, b) = "none" THEN "unknown" ELSE Truth(Compare(a, b) = "equal")

(***************************************************************************)
(* Predicates (planner.rs): a comparison with NULL, or of values that do   *)
(* not compare, is unknown.                                                *)
(***************************************************************************)
Admits(op, order) ==
  CASE op = ">" -> order = "greater" [] op = "<" -> order = "less" [] op = "=" -> order = "equal"
    [] op = ">=" -> order # "less"   [] op = "<=" -> order # "greater"

Not3(t) == CASE t = "true" -> "false" [] t = "false" -> "true" [] OTHER -> "unknown"

SqlCompare(l, op, r) ==
  IF IsNull(l) \/ IsNull(r) THEN "unknown"
  ELSE IF op = "=" THEN Equals(l, r)
  ELSE IF op = "!=" THEN Not3(Equals(l, r))
  ELSE IF Compare(l, r) = "none" THEN "unknown" ELSE Truth(Admits(op, Compare(l, r)))

And3(a, b) ==
  IF "false" \in {a, b} THEN "false" ELSE IF {a, b} = {"true"} THEN "true" ELSE "unknown"

Or3(a, b) ==
  IF "true" \in {a, b} THEN "true" ELSE IF {a, b} = {"false"} THEN "false" ELSE "unknown"

SqlIn(v, items) ==
  LET answers == {SqlCompare(v, "=", items[i]) : i \in 1..Len(items)} IN
  IF "true" \in answers THEN "true" ELSE IF "unknown" \in answers THEN "unknown" ELSE "false"

(***************************************************************************)
(* coerce_for_field: what UPDATE makes of a computed value before it is    *)
(* checked against the column (floats of the model have no fraction).      *)
(***************************************************************************)
Coerce(field, v) ==
  IF IsNumber(v) /\ field.type \in {<<"Int">>, <<"Float">>, <<"Double">>}
  THEN <<field.type[1], Datum(v)>> ELSE v

(***************************************************************************)
(* HashIndex::get_key: the value as text, without its type.                *)
(***************************************************************************)
HashKey(v) ==
  CASE Kind(v) = "Null" -> "NULL" [] Kind(v) = "NaN" -> "NaN"
    [] Kind(v) = "Bool" -> IF IsTrue(v) THEN "true" ELSE "false"
    [] Kind(v) = "Text" -> Spelling[Datum(v)]
    [] Kind(v) = "Bits" -> "bits:" \o ToString(Datum(v))
    [] OTHER -> ToString(Datum(v))
=============================================================================
