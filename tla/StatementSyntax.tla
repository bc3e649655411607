--------------------------- MODULE StatementSyntax ---------------------------
(***************************************************************************)
(* The grammar of statements (dsl/parser/{mod,dataset,introspection,       *)
(* persistence}.rs), in the form ExpressionSyntax explains.                *)
(***************************************************************************)
EXTENDS ExpressionSyntax

Star == On({"*"})
Into == Opt(On({"INTO"}), <<T("INTO"), Name>>)
Alias == Opt(On({"AS"}), <<T("AS"), Name>>)
Filtered == Opt(On({"WHERE", "FILTER"}), <<OneOf(<<<<"", On({"WHERE"}), <<T("WHERE")>>>>, <<"", <<>>, <<T("FILTER")>>>>>>), Expr(0)>>)

(* [AS] alias after a table: a name after AS, if there is one, else only a word that is no keyword. *)
TableAlias ==
  OneOf(<<<<"alias", <<{"AS"}, {"id"} \cup NamedKeywords>>, <<T("AS"), Name>>>>, <<"", On({"AS"}), <<T("AS")>>>>,
          <<"alias", On({"id"}), <<Name>>>>, <<"", <<>>, <<>>>>>>)

(***************************************************************************)
(* Columns and their types (parse_column_def, parse_col_type). Commas      *)
(* between columns may be left out. VECTOR, MATRIX and TENSOR are keywords *)
(* in upper case and identifiers in any other, the names of other types    *)
(* identifiers in every case.                                              *)
(***************************************************************************)
VectorType == <<T("("), Usize, Opt(On({","}), <<T(","), Encoding>>), T(")")>>
MatrixType == <<T("("), Usize, T(","), OneOf(<<<<"*", Star, <<T("*")>>>>, <<"", <<>>, <<Usize>>>>>>), T(")")>>
TensorType ==
  <<OneOf(<<<<"", On({"("}), <<T("("), Until(")", <<Usize, Comma>>), T(")")>>>>, <<"", <<>>, UsizeList>>>>)>>

Spellings(keyword) == {keyword} \cup Called({keyword})
AtLeastOne == Sized \o <<Check("positive")>>

ColType ==
  OneOf(<<
    <<"Vector", On(Spellings("VECTOR")), <<<<"skip">>>> \o VectorType>>,
    <<"Matrix", On(Spellings("MATRIX")), <<<<"skip">>>> \o MatrixType>>,
    <<"Tensor", On(Spellings("TENSOR")), <<<<"skip">>>> \o TensorType>>,
    <<"Int", On(Called({"INT", "INTEGER", "INT32", "INT64"})), <<<<"skip">>>>>>,
    <<"Float", On(Called({"FLOAT", "FLOAT32"})), <<<<"skip">>>>>>,
    <<"Double", On(Called({"DOUBLE", "FLOAT64"})), <<<<"skip">>>>>>,
    <<"String", On(Called({"STRING", "TEXT", "VARCHAR"})), <<<<"skip">>>>>>,
    <<"Bool", On(Called({"BOOL", "BOOLEAN"})), <<<<"skip">>>>>>,
    <<"Complex", On(Called({"COMPLEX"})), <<<<"skip">>>>>>,
    <<"SparseVector", On(Called({"SPARSEVECTOR"})), <<<<"skip">>>> \o AtLeastOne>>,
    <<"BitVector", On(Called({"BITVECTOR"})), <<<<"skip">>>> \o AtLeastOne>>>>)

FilterValue ==
  OneOf(<<
    <<"", On({"int", "float"}), <<Literal>>>>, <<"", On({"str"}), <<Str>>>>,
    <<"negative", On({"-"}), <<T("-"), Literal>>>>,
    <<"true", On({"true"}), <<W("true")>>>>, <<"false", <<>>, <<W("false")>>>>>>)

Nullability ==
  OneOf(<<<<"nullable", On({"?"}), <<T("?")>>>>, <<"", On({"NOT"}), <<T("NOT"), T("NULLABLE")>>>>,
          <<"nullable", On({"NULLABLE"}), <<T("NULLABLE")>>>>, <<"", <<>>, <<>>>>>>)

TypeAndDefault == <<T(":"), ColType, Nullability, OptWord("DEFAULT", <<FilterValue>>)>>

ColumnDef == <<Name>> \o TypeAndDefault

ColumnList ==
  OneOf(<<<<"", On({"("}), <<T("("), Until(")", ColumnDef \o <<Comma>>), T(")")>>>>,
          <<"", <<>>, <<While(On({"id"}), ColumnDef \o <<Comma>>)>>>>>>)

(* parse_alter and the ADD COLUMN form of parse_create_dataset. *)
AddColumn ==
  <<T("ADD"), T("COLUMN"), Name,
    OneOf(<<<<"computed", On({"="}), <<T("="), Expr(0), Opt(On({"LAZY"}), <<T("LAZY")>>)>>>>,
            <<"column", <<>>, TypeAndDefault>>>>)>>

(***************************************************************************)
(* The clauses of a query may come in any order and more than once: each   *)
(* replaces what an earlier one of its kind set.                           *)
(***************************************************************************)
OrderedBy(column) ==
  List(<<column, OneOf(<<<<"DESC", On({"DESC"}), <<W("DESC")>>>>, <<"", On({"ASC"}), <<W("ASC")>>>>, <<"", <<>>, <<>>>>>>)>>)

Ordering == OrderedBy(Qualified)

OptBy(required) == IF required THEN <<T("BY")>> ELSE <<Maybe("BY")>>

(* Mutant of QueryClauses: OFFSET only after a LIMIT. *)
LimitedClauses(by) ==
  <<<<"filter", On({"WHERE"}), <<T("WHERE"), Expr(0)>>>>,
    <<"group", On({"GROUP"}), <<T("GROUP")>> \o OptBy(by) \o <<List(<<Qualified>>)>>>>,
    <<"having", On({"HAVING"}), <<T("HAVING"), Expr(0)>>>>,
    <<"order", On({"ORDER"}), <<T("ORDER")>> \o OptBy(by) \o <<Ordering>>>>,
    <<"limit", On({"LIMIT"}), <<T("LIMIT"), Usize, Opt(On({"OFFSET"}), <<T("OFFSET"), Usize>>)>>>>>>

QueryClauses(by) ==
  <<<<"filter", On({"WHERE"}), <<T("WHERE"), Expr(0)>>>>,
    <<"filter", On({"FILTER"}), <<T("FILTER"), Expr(0)>>>>,
    <<IF by THEN "group" ELSE "groups", On({"GROUP"}), <<T("GROUP")>> \o OptBy(by) \o <<List(<<Qualified>>)>>>>,
    <<"having", On({"HAVING"}), <<T("HAVING"), Expr(0)>>>>,
    <<"order", On({"ORDER"}), <<T("ORDER")>> \o OptBy(by) \o <<Ordering>>>>,
    <<"limit", On({"LIMIT"}), <<T("LIMIT"), Usize>>>>,
    <<"offset", On({"OFFSET"}), <<T("OFFSET"), Usize>>>>>>

SelectClauses == <<"clauses", QueryClauses(FALSE)>>

DatasetClauses ==
  <<"clauses", QueryClauses(TRUE) \o <<<<"select", On({"SELECT"}), <<T("SELECT"), List(<<Rule("selectexpr")>>)>>>>>>>>

WindowSpec ==
  <<T("("), Opt(On({"PARTITION"}), <<T("PARTITION"), T("BY"), List(<<Qualified>>)>>),
    Opt(On({"ORDER"}), <<T("ORDER"), T("BY"), Ordering>>), T(")")>>

(***************************************************************************)
(* parse_select_expr: aggregates, ranking windows, computed columns; only  *)
(* a bare reference without an alias stays a column.                       *)
(***************************************************************************)
AggregateCall == <<T("("), OneOf(<<<<"*", Star, <<T("*")>>>>, <<"", <<>>, <<Expr(0)>>>>>>)>>

Over == OneOf(<<<<"window", On({"OVER"}), <<T("OVER")>> \o WindowSpec \o <<Alias>>>>, <<"aggregate", <<>>, <<Alias>>>>>>)

Ranking == <<"~RANK", "~ROW_NUMBER", "~DENSE_RANK">>

ComputedFns == ScalarFns \cup {"CONCAT", "SUBSTR", "CAST", "COALESCE", "NULLIF", "IFNULL", "L2_NORM", "COSINE_SIM", "DOT",
                               "VEC_ADD", "VEC_SCALE", "MAT_SHAPE"}

SelectExpr ==
  OneOf(<<
    <<"agg", On({"SUM", "AVG", "COUNT", "MIN", "MAX", "AVG_VEC", "SUM_VEC"}),
      <<Callee>> \o AggregateCall \o <<T(")"), Over>>>>,
    <<"agg", On({"VARIANCE", "MEDIAN"}), <<Callee>> \o AggregateCall \o <<T(")"), Alias>>>>,
    <<"agg", On({"ARG_MAX", "ARG_MIN"}), <<Callee>> \o AggregateCall \o <<T(","), Expr(0), T(")"), Alias>>>>,
    <<"agg", On({"RRF"}), <<Callee>> \o AggregateCall \o <<Opt(On({","}), <<T(","), Literal>>), T(")"), Alias>>>>,
    <<"ranking", Applied({Ranking[n] : n \in 1..3} \cup {"RANK"}),
      <<Callee, T("("), T(")"), T("OVER")>> \o WindowSpec \o <<Alias>>>>,
    <<"ranking", Applied(Called({"LAG", "LEAD"})),
      <<Callee, T("("), Qualified, Opt(On({","}), <<T(","), Usize>>), T(")"), T("OVER")>> \o WindowSpec \o <<Alias>>>>,
    <<"computed", On({"CASE", "NORMALIZE", "MATMUL", "TRANSPOSE"} \cup Called(ComputedFns)), <<Expr(0), Alias>>>>,
    <<"item", <<>>, <<Expr(0), Alias>>>>>>)

SelectList == OneOf(<<<<"*", Star, <<T("*")>>>>, <<"list", <<>>, <<List(<<Rule("selectexpr")>>)>>>>>>)

(***************************************************************************)
(* SELECT, its sources and joins, WITH.                                    *)
(***************************************************************************)
JoinRef == Qualified

JoinClause ==
  <<OneOf(<<
      <<"left", On({"LEFT"}), <<T("LEFT"), Maybe("OUTER"), T("JOIN")>>>>,
      <<"right", On({"RIGHT"}), <<T("RIGHT"), Maybe("OUTER"), T("JOIN")>>>>,
      <<"full", On({"FULL"}), <<T("FULL"), Maybe("OUTER"), T("JOIN")>>>>,
      <<"inner", <<>>, <<Maybe("INNER"), T("JOIN")>>>>>>),
    Name, TableAlias, T("ON"),
    OneOf(<<
      <<"similar", On({"COSINE_SIM"}),
        <<W("COSINE_SIM"), T("("), JoinRef, T(","), JoinRef, T(")"), T(">"), Number>>>>,
      <<"equal", <<>>, <<JoinRef, T("="), JoinRef>>>>>>)>>

Source ==
  OneOf(<<
    <<"sub", <<{"FROM"}, {"("}>>, <<T("FROM"), T("("), Rule("select"), T(")"), T("AS"), Name>>>>,
    <<"named", On({"FROM"}), <<T("FROM"), Name, TableAlias>>>>,
    <<"", <<>>, <<>>>>>>)

SelectQuery ==
  <<T("SELECT"), Opt(On({"DISTINCT"}), <<T("DISTINCT")>>), SelectList, Source,
    While(On({"JOIN", "INNER", "LEFT", "RIGHT", "FULL"}), JoinClause), SelectClauses,
    Opt(On({"UNION"}), <<T("UNION"), Opt(On({"ALL"}), <<T("ALL")>>), Rule("select")>>)>>

CteSelect == <<T("WITH"), List(<<Name, T("AS"), T("("), Rule("select"), T(")")>>), Rule("select")>>

(***************************************************************************)
(* INSERT, UPDATE, DELETE, MATERIALIZE, TRANSFORM, SEARCH.                 *)
(***************************************************************************)
InsertValue ==
  OneOf(<<
    <<"NULL", On({"NULL"}), <<T("NULL")>>>>, <<"", On({"str"}), <<Str>>>>,
    <<"", On({"int", "float", "-"}), <<Number>>>>,
    <<"true", On({"true"}), <<W("true")>>>>, <<"false", On({"false"}), <<W("false")>>>>, <<"tensor", On({"id"}), <<Name>>>>,
    <<"matrix", <<{"["}, {"["}>>, <<T("["), Until("]", NumberList \o <<Comma>>), T("]")>>>>,
    <<"vector", <<>>, NumberList>>>>)

InsertInto ==
  <<T("INSERT"), T("INTO"), Name,
    OneOf(<<
      <<"values", On({"VALUES"}), <<T("VALUES"), T("("), Until(")", <<InsertValue, Comma>>), T(")")>>>>,
      <<"named", <<>>, <<T("("), Until(")", <<Name, T("="), InsertValue, Comma>>), T(")")>>>>>>)>>

Update == <<T("UPDATE"), Name, T("SET"), List(<<Name, T("="), Expr(0)>>), Filtered>>
Delete == <<T("DELETE"), T("FROM"), Name, Filtered>>
Materialize == <<T("MATERIALIZE"), Name, Opt(On({"."}), <<T("."), Name>>)>>
Transform == <<T("TRANSFORM"), Name, T("SELECT"), SelectList, Filtered, Into>>

QueryVector == OneOf(<<<<"inline", On({"["}), NumberList>>, <<"tensor", <<>>, <<Name>>>>>>)

ScoreClause ==
  <<Expr(0), OneOf(<<<<"ASC", On({"ASC"}), <<W("ASC")>>>>, <<"", On({"DESC"}), <<W("DESC")>>>>, <<"", <<>>, <<>>>>>>)>>

Searched ==
  OneOf(<<
    <<"batch", On({"QUERIES"}),
      <<W("QUERIES"), Name, OneOf(<<<<"column", On({"."}), <<T("."), Name, OptWord("KEY", <<Name>>)>>>>, <<"", <<>>, <<>>>>>>)>>>>,
    <<"one", <<>>, <<W("QUERY"), QueryVector>>>>>>)

Search ==
  <<T("SEARCH"), Name,
    OneOf(<<
      <<"into", On({"FROM"}), <<T("FROM"), Name, W("QUERY"), QueryVector, T("ON"), Name, <<"anyname">>, T("="), Usize>>>>,
      <<"where", On({"WHERE"}), <<T("WHERE"), Name, T("~=")>> \o NumberList \o <<T("LIMIT"), Usize>>>>,
      <<"on", <<>>,
        <<T("ON"), Name, Searched, OptWord("USING", ScoreClause),
          OptWord("PREFILTER", <<Expr(0), OptWord("APPROX", <<>>)>>),
          OptWord("CANDIDATES", <<Usize, W("RERANK"), W("USING")>> \o ScoreClause),
          OptWord("RETURN", <<OneOf(<<<<"NONE", On({"NONE"}), <<W("NONE")>>>>, <<"", <<>>, <<List(<<Name>>)>>>>>>)>>),
          T("LIMIT"), Usize, Opt(On({"FILTER"}), <<T("FILTER"), Expr(0)>>), Into>>>>>>)>>

(***************************************************************************)
(* Tensors, databases, indexes, pipelines, metadata.                       *)
(***************************************************************************)
PipelineStep ==
  OneOf(<<
    <<"select", On({"SELECT"}), <<T("SELECT"), List(<<Rule("selectexpr")>>)>>>>,
    <<"filter", On({"WHERE"}), <<T("WHERE"), Expr(0)>>>>, <<"filter", On({"FILTER"}), <<T("FILTER"), Expr(0)>>>>,
    <<"order", On({"ORDER"}), <<T("ORDER"), T("BY"), OrderedBy(Name)>>>>,
    <<"limit", On({"LIMIT"}), <<T("LIMIT"), Usize>>>>,
    <<"normalize", <<>>, <<T("NORMALIZE"), Name>>>>>>)

DefinePipeline ==
  <<T("DEFINE"), T("PIPELINE"), Name, T("AS"), PipelineStep, While(On({"THEN"}), <<T("THEN"), PipelineStep>>)>>
DefineTensor ==
  <<T("DEFINE"), Name, T("AS"), Opt(On({"STRICT"}), <<T("STRICT")>>), T("TENSOR")>> \o UsizeList \o <<T("VALUES")>> \o NumberList
Vector == <<T("VECTOR"), Name, T("=")>> \o NumberList
Matrix == <<T("MATRIX"), Name, T("="), T("["), Until("]", <<OneOf(<<<<"row", <<>>, NumberList>>>>), Comma>>), T("]"), Check("even rows")>>
Let ==
  <<OneOf(<<<<"lazy", On({"LAZY"}), <<T("LAZY"), T("LET")>>>>, <<"lazy", <<{"LET"}, {"LAZY"}>>, <<T("LET"), T("LAZY")>>>>,
            <<"now", <<>>, <<T("LET")>>>>>>),
    List(<<Name>>), T("="), Expr(0)>>
Derive == <<T("DERIVE"), Name, T("FROM"), Expr(0)>>
Bind == <<T("BIND"), Name, T("TO"), Name>>
Attach == <<T("ATTACH"), Name, T("TO"), Name, T("."), Name>>
MethodCall ==
  <<Name, T("."), W("add_column"), T("("), OneOf(<<<<"", On({"str"}), <<Str>>>>, <<"", <<>>, <<Name>>>>>>), T(","), Name, T(")")>>

(* The name of an index is read and dropped, and so is ON. *)
IndexTarget ==
  <<Opt(On({"id"}), <<<<"anyname">>>>), Maybe("ON"), Name, T("("), Name, T(")")>>

Create ==
  OneOf(<<
    <<"database", <<{"CREATE"}, {"DATABASE"}>>,
      <<T("CREATE"), T("DATABASE"), OptWord("IF", <<T("NOT"), W("EXISTS")>>), Name>>>>,
    <<"index", <<{"CREATE"}, {"INDEX"}>>, <<T("CREATE"), T("INDEX")>> \o IndexTarget>>,
    <<"sorted", <<{"CREATE"}, {"SORTED"}, {"INDEX"}>>, <<T("CREATE"), W("SORTED"), T("INDEX")>> \o IndexTarget>>,
    <<"vectors", <<>>,
      <<T("CREATE"), T("VECTOR"), T("INDEX")>> \o IndexTarget \o <<OptWord("USING", <<W("HNSW")>>)>>>>>>)

IfExists == OptWord("IF", <<W("EXISTS")>>)
Drop ==
  <<T("DROP"),
    OneOf(<<<<"pipeline", On({"PIPELINE"}), <<T("PIPELINE"), Name>>>>,
            <<"dataset", On({"DATASET"}), <<T("DATASET"), IfExists, Name>>>>,
            <<"database", <<>>, <<T("DATABASE"), IfExists, Name>>>>>>)>>
ApplyPipeline == <<T("APPLY"), T("PIPELINE"), Name, T("ON"), Name, Into>>
DescribePipeline == <<T("DESCRIBE"), T("PIPELINE"), Name>>
SetMetadata == <<T("SET"), T("DATASET"), Name, Maybe("METADATA"), Name, T("="), Str>>

(***************************************************************************)
(* SHOW, EXPLAIN, lineage, packages and files.                             *)
(***************************************************************************)
Show ==
  <<T("SHOW"),
    OneOf(<<
      <<"all", On({"ALL"}), <<T("ALL"), OneOf(<<
         <<"datasets", On({"DATASETS"}), <<T("DATASETS")>>>>, <<"databases", On({"DATABASES"}), <<T("DATABASES")>>>>,
         <<"", On({"TENSORS"}), <<T("TENSORS")>>>>, <<"", <<>>, <<>>>>>>)>>>>,
      <<"databases", On({"DATABASES"}), <<T("DATABASES")>>>>,
      <<"schema", On({"SCHEMA"}), <<T("SCHEMA"), Name>>>>, <<"shape", On({"SHAPE"}), <<T("SHAPE"), Name>>>>,
      <<"lineage", On({"LINEAGE"}), <<T("LINEAGE"), Name>>>>,
      <<"indexes", On({"INDEXES"}), <<T("INDEXES"), Opt(On({"id"}), <<Name>>)>>>>,
      <<"metadata", <<{"DATASET"}, {"METADATA"}>>, <<T("DATASET"), T("METADATA"), Name>>>>,
      <<"versions", On({"DATASET"}), <<T("DATASET"), T("VERSIONS"), Name>>>>,
      <<"pipelines", On({"PIPELINES"}), <<T("PIPELINES")>>>>,
      <<"backend", <<{"BACKEND"}, {"end"}>>, <<W("BACKEND")>>>>,
      <<"memory", <<{"MEMORY"}, {"end", "id"}>>, <<W("MEMORY"), Opt(On({"id"}), <<Name>>)>>>>,
      <<"text", On({"str"}), <<Str>>>>, <<"named", On({"id"}), <<Name>>>>>>)>>

Explain ==
  <<T("EXPLAIN"),
    OneOf(<<<<"lineage", On({"LINEAGE"}), <<T("LINEAGE"), Name, Opt(On({"AS"}), <<T("AS"), OptWord("JSON", <<>>)>>)>>>>,
            <<"plan", <<>>, <<OneOf(<<<<"", On({"PLAN"}), <<W("PLAN")>>>>, <<"", <<>>, <<>>>>>>), OneOf(<<
               <<"dataset", On({"DATASET"}), <<T("DATASET"), Name, Opt(On({"FROM"}), <<T("FROM"), Name, DatasetClauses>>)>>>>,
               <<"", On({"SEARCH"}), <<Rule("search")>>>>, <<"", On({"SELECT"}), <<Rule("select")>>>>,
               <<"dataset", On({"id"}), <<Name>>>>>>)>>>>>>)>>

PruneLineage == <<T("PRUNE"), T("LINEAGE"), W("BEFORE"), Str>>
AssertLineage == <<W("ASSERT"), T("LINEAGE"), Name, W("MATCHES"), Str>>
Audit == <<T("AUDIT"), Maybe("DATASET"), Name>>
Deliver == <<T("DELIVER"), Name, Opt(On({"TO"}), <<T("TO"), Str>>)>>

PersistKind(preposition) ==
  LET path == Opt(On({preposition}), <<T(preposition), Str>>) IN
  OneOf(<<<<"tensor", On({"TENSOR"}), <<T("TENSOR"), Name, path>>>>,
          <<"dataset", On({"DATASET"}), <<T("DATASET"), Name, path, OptWord("MMAP", <<>>)>>>>,
          <<"pipeline", <<>>, <<T("PIPELINE"), Name, path>>>>>>)
Save == <<T("SAVE"), PersistKind("TO")>>
Load == <<T("LOAD"), PersistKind("FROM")>>

ListStatement ==
  <<T("LIST"),
    OneOf(<<<<"tensors", On({"TENSORS"}), <<T("TENSORS")>>>>, <<"datasets", On({"DATASETS"}), <<T("DATASETS")>>>>,
            <<"pipelines", On({"PIPELINES"}), <<T("PIPELINES")>>>>,
            <<"versions", <<{"DATASET"}, {"VERSIONS"}>>, <<T("DATASET"), T("VERSIONS"), Name>>>>,
            <<"packages", <<{"DATASET"}, {"PACKAGES"}>>, <<T("DATASET"), W("PACKAGES")>>>>,
            <<"datasets", <<>>, <<T("DATASET")>>>>>>)>>

Fields == OptWord("FIELDS", <<T("("), Until(")", <<Name, OneOf(<<<<"", On({")"}), <<>>>>, <<"", <<>>, <<T(",")>>>>>>)>>), T(")")>>)
Import ==
  <<T("IMPORT"), OneOf(<<<<"csv", On({"CSV"}), <<W("CSV"), T("FROM"), Str, Alias>>>>,
                         <<"dataset", <<>>, <<T("DATASET"), T("FROM"), Str, Alias, Fields>>>>>>)>>
Export == <<T("EXPORT"), OneOf(<<<<"", On({"CSV"}), <<W("CSV")>>>>, <<"", <<>>, <<>>>>>>), Name, T("TO"), Str>>
Use ==
  <<T("USE"), OneOf(<<<<"dataset", On({"DATASET"}), <<T("DATASET"), T("FROM"), Str, Alias, Fields>>>>,
                      <<"database", On({"id"}), <<Name>>>>>>)>>

CreateDataset ==
  <<T("DATASET"), Name,
    OneOf(<<<<"columns", On({"COLUMNS"}), <<T("COLUMNS"), ColumnList>>>>,
            <<"from", On({"FROM"}), <<T("FROM"), Name, DatasetClauses>>>>,
            <<"add", <<>>, AddColumn>>>>)>>
Alter == <<T("ALTER"), T("DATASET"), Name>> \o AddColumn

(***************************************************************************)
(* parse_statement: the first token says which statement it is.            *)
(***************************************************************************)
Statement ==
  LET starts == <<
        <<"SELECT", SelectQuery>>, <<"WITH", CteSelect>>, <<"DATASET", CreateDataset>>, <<"INSERT", InsertInto>>,
        <<"UPDATE", Update>>, <<"DELETE", Delete>>, <<"SEARCH", Search>>, <<"TRANSFORM", Transform>>,
        <<"MATERIALIZE", Materialize>>, <<"ALTER", Alter>>, <<"CREATE", <<Create>>>>, <<"DROP", Drop>>, <<"USE", Use>>,
        <<"SET", SetMetadata>>, <<"APPLY", ApplyPipeline>>, <<"DESCRIBE", DescribePipeline>>, <<"VECTOR", Vector>>,
        <<"MATRIX", Matrix>>, <<"LET", Let>>, <<"LAZY", Let>>, <<"DERIVE", Derive>>, <<"BIND", Bind>>,
        <<"ATTACH", Attach>>, <<"SHOW", Show>>, <<"EXPLAIN", Explain>>, <<"AUDIT", Audit>>, <<"DELIVER", Deliver>>,
        <<"SAVE", Save>>, <<"LOAD", Load>>, <<"LIST", ListStatement>>, <<"IMPORT", Import>>, <<"EXPORT", Export>>,
        <<"PRUNE", PruneLineage>>, <<"CHECKPOINT", <<T("CHECKPOINT")>>>>,
        <<"RESET", <<T("RESET"), OptWord("SESSION", <<>>)>>>>, <<"ASSERT", AssertLineage>>>>
  IN OneOf(<<<<"DEFINE", <<{"DEFINE"}, {"PIPELINE"}>>, DefinePipeline>>, <<"DEFINE", On({"DEFINE"}), DefineTensor>>>>
           \o [n \in 1..Len(starts) |-> <<starts[n][1], On({starts[n][1]}), starts[n][2]>>]
           \o <<<<"method", <<{"id"}, {"."}>>, MethodCall>>>>)
=============================================================================
