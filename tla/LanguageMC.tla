----------------------------- MODULE LanguageMC -----------------------------
(* Expressions to depth two, every context a name can stand in, clauses and short scripts. *)
EXTENDS Language

Named(n) == <<"ref", <<"name", n>>>>
Leaves == {Named("a"), <<"int", 1>>}
Over1(operands) ==
  {<<op, x, y>> : op \in {"OR", "AND", "=", "<", "+", "-", "*"}, x \in operands, y \in operands}
    \cup {<<op, x>> : op \in {"not", "isnull"}, x \in operands}
    \cup {<<"-", x>> : x \in {o \in operands : o[1] # "int"}}
    \cup {<<"in", x, <<"list", y>>>> : x \in operands, y \in operands}
Betweens(operands) == {<<"between", x, y, z>> : x \in operands, y \in operands, z \in operands}
Shallow == Over1(Leaves) \cup Betweens(Leaves)
MCTrees == {<<t>> : t \in Leaves \cup Shallow \cup Over1(Leaves \cup Shallow)
                           \cup Betweens(Leaves \cup {t \in Shallow : t[2] = Named("a")})}

(* Where a name is taken, where an operand of an expression is, and where only an identifier is. *)
NamePlaces ==
  {<<<<"SELECT", "b", "AS">>, <<"FROM", "t">>>>, <<<<"SELECT", "t", ".">>, <<"FROM", "t">>>>,
   <<<<"SELECT", "*", "FROM", "t", "GROUP", "BY">>, <<"HAVING", "COUNT", "(", "*", ")", ">", "1">>>>,
   <<<<"SELECT", "*", "FROM", "t", "ORDER", "BY">>, <<"DESC">>>>, <<<<"SELECT", "*", "FROM">>, <<"AS", "a">>>>,
   <<<<"SELECT", "*", "FROM", "t", "JOIN", "u", "ON">>, <<"=", "b">>>>, <<<<"UPDATE", "t", "SET">>, <<"=", "1">>>>,
   <<<<"INSERT", "INTO", "t", "(">>, <<"=", "1", ")">>>>, <<<<"DATASET", "t", "COLUMNS", "(">>, <<":", "int", "?", ")">>>>,
   <<<<"DATASET", "t", "ADD", "COLUMN">>, <<":", "VECTOR", "(", "2", ")">>>>, <<<<"CREATE", "INDEX", "i", "ON", "t", "(">>, <<")">>>>,
   <<<<"MATERIALIZE", "t", ".">>, <<>>>>, <<<<"LET">>, <<"=", "ADD", "b", "b">>>>,
   <<<<"SEARCH", "t", "ON">>, <<"QUERY", "[", "1", "]", "LIMIT", "1">>>>,
   <<<<"DEFINE", "PIPELINE", "p", "AS", "NORMALIZE">>, <<"THEN", "ORDER", "BY", "b", "THEN", "LIMIT", "1">>>>,
   <<<<"ATTACH", "x", "TO", "t", ".">>, <<>>>>}

OperandPlaces ==
  {<<<<"SELECT">>, <<"FROM", "t">>>>, <<<<"SELECT">>, <<",", "b", "FROM", "t">>>>, <<<<"SELECT">>, <<"AS", "x", "FROM", "t">>>>,
   <<<<"SELECT">>, <<"-", "1", "FROM", "t">>>>, <<<<"SELECT", "SUM", "(">>, <<")", "FROM", "t">>>>,
   <<<<"SELECT", "*", "FROM", "t", "WHERE">>, <<">", "1">>>>, <<<<"SELECT", "*", "FROM", "t", "WHERE", "1", "+">>, <<"IS", "NULL">>>>,
   <<<<"UPDATE", "t", "SET", "b", "=">>, <<"WHERE", "b", "IN", "(", "1", ",", "2", ")">>>>, <<<<"DELETE", "FROM", "t", "WHERE">>, <<>>>>,
   <<<<"ALTER", "DATASET", "t", "ADD", "COLUMN", "x", "=">>, <<"LAZY">>>>, <<<<"TRANSFORM", "t", "SELECT">>, <<"INTO", "u">>>>,
   <<<<"SEARCH", "t", "ON", "v", "QUERY", "b", "PREFILTER">>, <<"=", "1", "LIMIT", "1">>>>}

IdentifierPlaces ==
  {<<<<"LET", "x", "=", "ADD", "b">>, <<>>>>, <<<<"LET", "x", "=", "STACK", "b", "b">>, <<"b">>>>, <<<<"SHOW">>, <<>>>>,
   <<<<"SHOW", "INDEXES">>, <<>>>>, <<<<"SHOW", "MEMORY">>, <<>>>>, <<<<"EXPLAIN">>, <<>>>>, <<<<"USE">>, <<>>>>,
   <<<<"SELECT", "*", "FROM", "t">>, <<"WHERE", "b">>>>, <<<<"SELECT", "*", "FROM", "t", "JOIN", "u">>, <<"ON", "b", "=", "b">>>>,
   <<<<"INSERT", "INTO", "t", "VALUES", "(">>, <<")">>>>, <<<<"INSERT", "INTO", "t", "(", "b", "=">>, <<")">>>>,
   <<<<"DATASET", "t", "COLUMNS">>, <<":", "vector", "(", "2", ",", "FLOAT16", ")">>>>,
   <<<<"CREATE", "INDEX">>, <<"ON", "t", "(", "b", ")">>>>, <<<<>>, <<".", "add_column", "(", "b", ",", "b", ")">>>>}

MCReadings ==
  LET at(places, what) == {<<p[1], p[2], n, what>> : p \in places, n \in {"TRACE", "RANK", "QR", "EIGEN_GENERAL", "PCA", "COMPONENTS", "rank"}}
  IN at(NamePlaces, "name") \cup at(OperandPlaces, "operand") \cup at(IdentifierPlaces, "identifier")

Clause == {<<"WHERE", "a", ">", "1">>, <<"GROUP", "BY", "a", ",", "b">>, <<"HAVING", "b">>, <<"ORDER", "BY", "a", "DESC">>,
           <<"LIMIT", "1">>, <<"OFFSET", "2">>}
Arranged(k) == {s \in [1..k -> Clause] : \A i, j \in 1..k : i # j => s[i] # s[j]}
MCClauseOrders == UNION {{<<s, t>> \in Arranged(k) \X Arranged(k) : Range(s) = Range(t)} : k \in 1..3}

Lines ==
  {<<>>, <<"--", "x", ")">>, <<"DELETE", "FROM", "t">>, <<"WHERE", "a">>, <<"INSERT", "INTO", "t", "VALUES", "(">>,
   <<"INSERT", "INTO", "t", "VALUES", "(", "1", "#", ")">>, <<"INSERT", "INTO", "t", "VALUES", "(", "'('", ")">>,
   <<"1", ",">>, <<"2", ")">>, <<"2", "//", "x", ")">>, <<")">>, <<"1", ",", "--", "(">>, <<"DELETE", "FROM", "t", "--", "(">>,
   <<"DELETE", "FROM", "t", "(", "--", "x">>,
   <<"INSERT", "INTO", "t", "VALUES", "(", "1", "--", "(", "x", ")">>}
MCScripts == UNION {{<<s>> : s \in [1..k -> Lines]} : k \in 1..3}
=============================================================================
