------------------------------ MODULE DatasetMC ------------------------------
(* Two columns that can be NULL and a third one ALTER may add. *)
EXTENDS AccessPaths, Expressions

Field(name, type) == [name |-> name, type |-> <<type>>, nullable |-> TRUE, lazy |-> FALSE]
Col(n) == <<"col", n>>
Lit(v) == <<"lit", v>>

MCSchemas == {<<Field("a", "Float"), Field("b", "Text")>>}
MCLiterals == {<<"Scalar", 0>>, Null, AText(2), ABool(TRUE)}
MCNewFields == {Field("c", "Bool")}
MCPredicates == {<<"<", Col("a"), Lit(AnInt(1))>>, <<"isnull", Col("b")>>}
MCAssignments ==
  {<<<<"a", <<"/", Col("a"), Lit(AFloat(0))>>>>>>,
   <<<<"a", <<"+", Col("a"), Lit(AFloat(1))>>>>, <<"b", Lit(Null)>>>>,
   <<<<"b", Col("a")>>>>}
MCColumnExpressions == {<<"+", Col("a"), Lit(AnInt(1))>>}
MCResults ==
  {[fields |-> <<Field("b", "Text"), Field("a", "Float")>>, rows |-> <<<<Null, AFloat(1)>>>>],
   [fields |-> <<Field("b", "Text")>>, rows |-> <<<<AText(2)>>, <<AText(1)>>>>]}
MCColumnOrder == <<"a", "b", "c">>
MCQuestions ==
  {<<"=", Col(c), Lit(v)>> : c \in {"a", "b", "c"}, v \in {AFloat(0), AFloat(1), AnInt(0), AText(2), Null}}
    \cup {<<op, Col("a"), Lit(AFloat(0))>> : op \in {"<", "<=", ">", ">="}}
    \cup {<<"<", Lit(AnInt(0)), Col("a")>>, <<"between", Col("a"), Lit(AFloat(0)), Lit(AnInt(0))>>,
          <<"and", <<"notnull", Col("b")>>, <<"<=", Col("a"), Lit(AFloat(0))>>>>,
          <<">", Col("b"), Lit(AText(1))>>}

(* The proofs' assumptions about expressions hold of the code's evaluators. *)
MCRows ==
  LET columns == <<Field("a", "Float"), Field("b", "Text"), Field("c", "Bool")>>
      values == {Null, AFloat(0), AFloat(1), NaN, AText(1), AText(2), ABool(TRUE)}
  IN {Tuple(SubSeq(columns, 1, n), SubSeq(vals, 1, n)) : n \in 0..3, vals \in [1..3 -> values]}

ASSUME ExpressionsAssumption == \A row \in MCRows : EvaluatesWell(row) /\ ChoosesWell(row)
=============================================================================
