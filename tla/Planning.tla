------------------------------- MODULE Planning -------------------------------
(***************************************************************************)
(* What happens to an expression before rows are read: parsed expressions  *)
(* become logical ones (dsl/executor/query.rs), their types are inferred   *)
(* (query/logical.rs) and calls that could only give NULL are refused      *)
(* (query/typecheck.rs).                                                   *)
(*                                                                         *)
(* A parsed expression has <<"ref", name>>, <<"field", table, name>> and   *)
(* <<"scalar", n>> (a decimal) where a logical one has columns and         *)
(* literals; <<"agg", function, e, by>> is an aggregate (by: <<>> if none).*)
(***************************************************************************)
EXTENDS Expressions

BinaryForms == Comparisons \cup Arithmetic \cup {"and", "or", "nullif"}
UnaryForms == {"not", "isnull", "notnull"}

(* children: the operands of an expression, left to right. *)
Optional(e) == IF e = <<>> THEN <<>> ELSE <<e>>

Children(e) ==
  CASE e[1] \in BinaryForms -> <<e[2], e[3]>>
    [] e[1] \in UnaryForms \cup {"cast"} -> <<e[2]>>
    [] e[1] = "in" -> <<e[2]>> \o e[3]
    [] e[1] = "between" -> <<e[2], e[3], e[4]>>
    [] e[1] = "case" -> Optional(e[2]) \o FlattenSeq(e[3]) \o Optional(e[4])
    [] e[1] = "coalesce" -> e[2]
    [] e[1] = "fn" -> e[3]
    [] e[1] = "agg" -> <<e[3]>> \o Optional(e[4])
    [] OTHER -> <<>>

(* map_expr: the same expression with every operand replaced. *)
MapChildren(e, F(_)) ==
  LET all(s) == [i \in 1..Len(s) |-> F(s[i])]
      maybe(x) == IF x = <<>> THEN x ELSE F(x)
  IN CASE e[1] \in BinaryForms -> <<e[1], F(e[2]), F(e[3])>>
       [] e[1] \in UnaryForms -> <<e[1], F(e[2])>>
       [] e[1] = "cast" -> <<"cast", F(e[2]), e[3]>>
       [] e[1] = "in" -> <<"in", F(e[2]), all(e[3])>>
       [] e[1] = "between" -> <<"between", F(e[2]), F(e[3]), F(e[4])>>
       [] e[1] = "case" -> <<"case", maybe(e[2]), [i \in 1..Len(e[3]) |-> all(e[3][i])], maybe(e[4])>>
       [] e[1] = "coalesce" -> <<"coalesce", all(e[2])>>
       [] e[1] = "fn" -> <<"fn", e[2], all(e[3])>>
       [] OTHER -> e

(* collect_columns: the columns an expression reads. *)
RECURSIVE ColumnsOf(_)
ColumnsOf(e) ==
  IF e[1] = "col" THEN {e[2]} ELSE UNION {ColumnsOf(Children(e)[i]) : i \in 1..Len(Children(e))}

Promoted(l, r) ==
  LET present(kind) == kind \in {l[1], r[1], "Int"}
      kind == SelectSeq(<<"Matrix", "Vector", "Double", "Float", "Int">>, present)[1]
  IN IF kind \in {"Matrix", "Vector"} THEN IF l[1] = kind THEN l ELSE r ELSE <<kind>>

FunctionType(name) ==
  CASE name \in {"VEC_ADD", "VEC_SCALE", "FLATTEN"} -> <<"Vector", 0>>
    [] name \in {"MATMUL", "TRANSPOSE"} -> <<"Matrix", 0, 0>>
    [] name \in {"HAMMING", "BIT_COUNT"} -> <<"Int">>
    [] name = "COMPLEX" -> <<"Complex">>
    [] name \in {"REAL", "IMAG"} -> <<"Double">>
    [] OTHER -> <<"Float">>

RECURSIVE InferType(_, _)
InferType(e, fields) ==
  LET T(x) == InferType(x, fields)
      named == {i \in 1..Len(fields) : fields[i].name = e[2]}
      shaped(t, other) == IF t[1] \in {"Vector", "Matrix"} THEN t ELSE other
  IN CASE e[1] = "col" -> IF named = {} THEN <<"Null">> ELSE fields[Max(named)].type
       [] e[1] = "lit" -> TypeOf(e[2])
       [] e[1] \in Comparisons \cup Arithmetic -> Promoted(T(e[2]), T(e[3]))
       [] e[1] = "fn" -> FunctionType(e[2])
       [] e[1] = "case" -> IF e[3] # <<>> THEN T(e[3][1][2]) ELSE IF e[4] # <<>> THEN T(e[4]) ELSE <<"Null">>
       [] e[1] = "coalesce" -> IF e[2] = <<>> THEN <<"Null">> ELSE T(e[2][1])
       [] e[1] = "nullif" -> T(e[2])
       [] e[1] = "cast" -> IF e[3] = <<"Bool">> THEN <<"Text">> ELSE e[3]
       [] e[1] = "agg" ->
            CASE e[2] = "AVG" -> IF T(e[3]) \in {<<"Double">>, <<"Complex">>} THEN T(e[3])
                                 ELSE shaped(T(e[3]), <<"Float">>)
              [] e[2] \in {"AVG_VEC", "SUM_VEC"} -> shaped(T(e[3]), <<"Vector", 0>>)
              [] e[2] \in {"VARIANCE", "MEDIAN", "RRF"} -> <<"Double">>
              [] e[2] \in {"ARG_MAX", "ARG_MIN"} -> T(e[3])
              [] OTHER -> <<"Int">>
       [] OTHER -> <<"Bool">>

(***************************************************************************)
(* check_expr: bit and similarity functions applied to operands of the     *)
(* wrong type, number or length (a type unknown when planning passes).     *)
(***************************************************************************)
Known(types, kinds) == \A t \in types : t[1] \in kinds \cup {"Null"}

Dimension(t) == IF t[1] \in {"Vector", "Bits"} THEN t[2] ELSE 0

CallOk(name, args, fields) ==
  LET types == [i \in 1..Len(args) |-> InferType(args[i], fields)]
      lengths == {Dimension(types[i]) : i \in 1..Len(args)} \ {0}
      kinds == {types[i][1] : i \in 1..Len(args)}
      arity == IF name = "BIT_COUNT" THEN 1 ELSE 2
  IN CASE name \in {"HAMMING", "TANIMOTO", "JACCARD", "BIT_COUNT"} ->
            Len(args) = arity /\ Known(ToSet(types), {"Bits"}) /\ Cardinality(lengths) <= 1
       [] name \in {"DOT", "COSINE_SIM"} /\ Len(args) = 2 /\ kinds = {"Bits", "Vector"} ->
            name = "DOT" /\ (0 \notin {Dimension(types[1]), Dimension(types[2])} => Cardinality(lengths) = 1)
       [] OTHER -> TRUE

RECURSIVE CheckExpr(_, _)
CheckExpr(e, fields) ==
  /\ e[1] = "fn" => CallOk(e[2], e[3], fields)
  /\ \A i \in 1..Len(Children(e)) : CheckExpr(Children(e)[i], fields)

(***************************************************************************)
(* dsl_expr_to_logical_expr. A decimal is a Float, unless it stands beside *)
(* a DOUBLE (lower_pair, lower_beside: also inside arithmetic there) or is *)
(* CAST to one. A name qualified with a table on the right of a join is    *)
(* the renamed column, where the join renamed it.                          *)
(***************************************************************************)
RECURSIVE Lower(_, _, _), LowerBeside(_, _, _, _)
Lower(e, fields, right) ==
  LET L(x) == Lower(x, fields, right)
      beside(x, type) == LowerBeside(x, type, fields, right)
      double(x) == InferType(L(x), fields) = <<"Double">>
      valueType == InferType(L(e[2]), fields)
  IN CASE e[1] = "ref" -> <<"col", e[2]>>
       [] e[1] = "field" ->
            <<"col", IF e[2] \in right /\ \E i \in 1..Len(fields) : fields[i].name = "r_" \o e[3]
                     THEN "r_" \o e[3] ELSE e[3]>>
       [] e[1] = "scalar" -> <<"lit", AFloat(e[2])>>
       [] e[1] \in Comparisons \cup Arithmetic ->
            <<e[1], IF double(e[3]) THEN beside(e[2], <<"Double">>) ELSE L(e[2]),
                    IF double(e[2]) THEN beside(e[3], <<"Double">>) ELSE L(e[3])>>
       [] e[1] = "in" -> <<"in", L(e[2]), [i \in 1..Len(e[3]) |-> beside(e[3][i], valueType)]>>
       [] e[1] = "between" -> <<"between", L(e[2]), beside(e[3], valueType), beside(e[4], valueType)>>
       [] e[1] = "cast" /\ e[2][1] = "scalar" /\ e[3] = <<"Double">> -> <<"lit", ADouble(e[2][2])>>
       [] OTHER -> MapChildren(e, L)

(* Mutant of LowerBeside: only a decimal that stands there itself. *)
ShallowBeside(e, other, fields, right) ==
  IF other = <<"Double">> /\ e[1] = "scalar" THEN <<"lit", ADouble(e[2])>> ELSE Lower(e, fields, right)

LowerBeside(e, other, fields, right) ==
  IF other # <<"Double">> THEN Lower(e, fields, right)
  ELSE IF e[1] \in Arithmetic
  THEN <<e[1], LowerBeside(e[2], other, fields, right), LowerBeside(e[3], other, fields, right)>>
  ELSE IF e[1] = "scalar" THEN <<"lit", ADouble(e[2])>> ELSE Lower(e, fields, right)

(***************************************************************************)
(* resolve_having: an aggregate named as it would be without its alias is  *)
(* the aliased column (rewrite_ref_names); an unknown column is an error.  *)
(* renames: [name without alias -> alias].                                 *)
(***************************************************************************)
RECURSIVE RewriteRefs(_, _)
RewriteRefs(e, renames) ==
  IF e[1] = "ref" THEN <<"ref", IF e[2] \in DOMAIN renames THEN renames[e[2]] ELSE e[2]>>
  ELSE MapChildren(e, LAMBDA x : RewriteRefs(x, renames))

Having(e, renames, fields, right) == Lower(RewriteRefs(e, renames), fields, right)

HavingOk(e, renames, fields, right) ==
  ColumnsOf(Having(e, renames, fields, right)) \subseteq {fields[i].name : i \in 1..Len(fields)}
=============================================================================
