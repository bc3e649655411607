------------------------------ MODULE QueriesMC ------------------------------
(* Relations of up to three rows, and statements over two tables. *)
EXTENDS Queries

Field(name, type) == [name |-> name, type |-> <<type>>, nullable |-> TRUE, lazy |-> FALSE]
Ref(n) == <<"ref", n>>
Col(n) == <<"col", n>>
Lit(v) == <<"lit", v>>
RowsOf(cells, n) == UNION {[1..k -> cells] : k \in 0..n}

Keyed(keys, n) == {Relation(<<Field("k", "Int")>>, rows) : rows \in RowsOf({<<v>> : v \in keys}, n)}

MCJoins ==
  LET rels == Keyed({Null, AnInt(0), AnInt(1)}, 2) \cup Keyed({AnInt(0), AnInt(1)}, 3)
  IN rels \X rels \X {"inner", "left", "right", "full"}

MCGroupings ==
  LET grouped(values, type) ==
        {Relation(<<Field("g", "Int"), Field("v", type)>>, rows) :
           rows \in RowsOf({<<AnInt(g), v>> : g \in {0, 1}, v \in values}, 3)}
      number(f) == <<"agg", f, Col("v"), <<>>>>
  IN (grouped({AnInt(-1), AnInt(2)}, "Int") \X
        ({number(f) : f \in {"COUNT", "SUM", "AVG", "MIN", "MAX", "VARIANCE", "MEDIAN"}}
           \cup {<<"agg", "ARG_MAX", Col("g"), Col("v")>>, <<"agg", "RRF", Col("v"), Lit(AnInt(60))>>}))
     \cup (grouped({ADouble(0), ADouble(3)}, "Double") \X {number(f) : f \in {"SUM", "AVG", "MAX"}})

(* Predicates to depth two over a number, a NULL and a text. *)
Operands == {Col("a"), Col("n"), Lit(AnInt(1)), Lit(AText(5)), Lit(Null), <<"+", Col("a"), Lit(AnInt(1))>>,
             <<"coalesce", <<Col("n"), Col("a")>>>>}
Atoms == {<<op, x, y>> : op \in {"=", "<", "!=", ">="}, x \in Operands, y \in Operands}
  \cup {<<"isnull", x>> : x \in Operands} \cup {<<"in", x, <<y, Lit(Null)>>>> : x \in Operands, y \in Operands}
  \cup {<<"between", x, Lit(AnInt(0)), y>> : x \in Operands, y \in Operands}
  \cup {Col("a"), Col("n"), Col("b"), Lit(ABool(TRUE)), Lit(AnInt(1)), <<"=", Col("b"), <<"isnull", Col("n")>>>>}
Combinations == {<<op, p, q>> : op \in {"and", "or"}, p \in {<<"isnull", Col("n")>>, <<"<", Col("n"), Col("a")>>, Col("b")}, q \in Atoms}
Compound == Combinations \cup {<<"not", p>> : p \in Atoms \cup Combinations}
ExampleRows == {[names |-> <<"a", "n", "b">>, vals |-> <<AnInt(1), Null, ABool(FALSE)>>],
                [names |-> <<"a", "n", "b">>, vals |-> <<AnInt(0), AFloat(1), ABool(TRUE)>>]}
MCPredicates == (Atoms \cup Compound) \X ExampleRows

(* Parsed arithmetic over a DOUBLE, a FLOAT and a decimal. *)
Terms == {Ref("d"), Ref("f"), <<"scalar", 3>>, Lit(AnInt(1))}
Sums == {<<op, x, y>> : op \in {"+", "<", "="}, x \in Terms, y \in Terms}
MCLiterals ==
  (Sums \cup {<<op, x, y>> : op \in {"*", ">"}, x \in Sums, y \in Terms \cup Sums}
     \cup {<<"between", x, y, <<"scalar", 2>>>> : x \in Terms \cup Sums, y \in Terms \cup Sums}
     \cup {<<"in", x, <<y, <<"scalar", 2>>>>>> : x \in Terms \cup Sums, y \in Terms \cup Sums}
     \cup {<<"and", <<"<", x, y>>, <<"=", y, x>>>> : x \in Terms, y \in Sums})
  \X {<<Field("d", "Double"), Field("f", "Float")>>}

(* Tables t(a, g) and u(k, b); statements by what each clause may be. *)
Tables ==
  LET t == Relation(<<Field("a", "Float"), Field("g", "Int")>>,
                    <<<<AFloat(2), AnInt(1)>>, <<Null, AnInt(0)>>, <<AFloat(1), AnInt(1)>>, <<AFloat(2), AnInt(0)>>>>)
      u == Relation(<<Field("g", "Int"), Field("b", "Text")>>, <<<<AnInt(1), AText(5)>>, <<AnInt(2), AText(6)>>>>)
  IN "t" :> t @@ "u" :> u

Plain == [ctes |-> <<>>, columns |-> All, from |-> <<"named", "t">>, joins |-> <<>>, where |-> <<>>,
          groupBy |-> <<>>, having |-> <<>>, orderBy |-> <<>>, limit |-> NoLimit, offset |-> 0,
          distinct |-> FALSE, union |-> <<>>]

Total == <<"agg", <<"agg", "SUM", Ref("a"), <<>>>>, "s">>
Twice == <<"computed", <<"+", Ref("a"), Ref("a")>>, "x">>
Rank == <<"window", [func |-> "RANK", e |-> Ref("a"), offset |-> 0, partition |-> <<"g">>,
                     order |-> <<<<"a", TRUE>>>>, alias |-> "r"]>>
Orders == {<<>>, <<<<"a", FALSE>>>>, <<<<"x", TRUE>>>>, <<<<"g", TRUE>>, <<"a", TRUE>>>>}
Right == [table |-> "u", alias |-> "u", left |-> "g", right |-> "g", threshold |-> <<>>, kind |-> "left"]

Ungrouped ==
  {[Plain EXCEPT !.columns = c, !.joins = j, !.where = w, !.orderBy = o, !.limit = l, !.offset = IF l = 2 THEN 1 ELSE 0, !.distinct = d] :
     c \in {All, <<<<"column", "g">>>>, <<<<"column", "g">>, Twice>>, <<Rank, <<"column", "a">>>>, <<Twice, Rank>>},
     j \in {<<>>, <<Right>>}, w \in {<<>>, <<">=", Ref("a"), <<"scalar", 1>>>>}, o \in Orders,
     l \in {NoLimit, 1, 2}, d \in BOOLEAN}

Grouping ==
  {[Plain EXCEPT !.columns = c, !.groupBy = g, !.having = h, !.orderBy = o, !.limit = l] :
     c \in {<<<<"column", "g">>, Total>>, <<Total>>, <<Total, <<"computed", Ref("g"), "x">>>>},
     g \in {<<>>, <<"g">>},
     h \in {<<>>, <<">", Ref("SUM(a)"), <<"scalar", 2>>>>, <<">", Ref("s"), <<"scalar", 0>>>>, <<"=", Ref("a"), Ref("a")>>},
     o \in Orders \cup {<<<<"s", FALSE>>>>}, l \in {NoLimit, 1}}

Mixed == <<"computed", <<"coalesce", <<Ref("a"), <<"lit", AnInt(0)>>>>>>, "x">>

Composed ==
  {[Plain EXCEPT !.from = <<"sub", inner>>, !.orderBy = <<<<"g", TRUE>>>>] : inner \in {Plain, [Plain EXCEPT !.limit = 2]}}
  \cup {[Plain EXCEPT !.ctes = <<<<"c", Plain>>>>, !.from = <<"named", n>>, !.union = <<all, Plain>>] :
          n \in {"c", "missing"}, all \in BOOLEAN}
  \cup {[Plain EXCEPT !.from = <<>>, !.columns = c] : c \in {All, <<Twice>>, <<<<"computed", <<"scalar", 1>>, "">>>>}}

MCStatements == (Ungrouped \cup Grouping \cup Composed) \X {Tables}
=============================================================================
