-------------------------- MODULE ExpressionSyntax --------------------------
(***************************************************************************)
(* The tokens of the language (dsl/lexer.rs) and the grammar of its        *)
(* expressions (dsl/parser/expr.rs) as data: what each parse function of   *)
(* the code consumes, in its order. Parser runs them.                      *)
(*                                                                         *)
(* A production is a sequence of items. The parser never goes back: where  *)
(* the code has a choice it peeks, so a branch is <<label, guard, items>>  *)
(* with a guard for each of the next tokens it looks at, a set of marks.   *)
(***************************************************************************)
EXTENDS Integers, Sequences

(***************************************************************************)
(* Tokens are <<kind, text>>: kind "id", "int", "float", "str", or the     *)
(* keyword or sign itself. Keywords are upper case only.                   *)
(***************************************************************************)
Commands ==
  {"DEFINE", "VECTOR", "MATRIX", "LET", "LAZY", "SHOW", "SELECT", "DELIVER", "BIND", "ATTACH", "DERIVE", "DATASET",
   "INSERT", "SEARCH", "EXPLAIN", "AUDIT", "MATERIALIZE", "CREATE", "ALTER", "USE", "DROP", "SET", "SAVE", "LOAD",
   "LIST", "IMPORT", "EXPORT", "RESET", "CHECKPOINT", "PRUNE", "TRANSFORM", "UPDATE", "DELETE", "JOIN", "ON", "INNER",
   "LEFT", "RIGHT", "FULL", "OUTER", "OFFSET", "IN", "BETWEEN", "UNION", "DISTINCT", "OVER", "PARTITION", "CASE",
   "WHEN", "THEN", "ELSE", "END", "PIPELINE", "PIPELINES", "APPLY", "DESCRIBE"}

Clauses ==
  {"AS", "STRICT", "TENSOR", "VALUES", "TO", "FROM", "WITH", "BY", "INTO", "DATABASE", "INDEX", "COLUMNS", "COLUMN",
   "ADD", "ALL", "TENSORS", "DATASETS", "DATABASES", "INDEXES", "SCHEMA", "SHAPE", "LINEAGE", "METADATA", "VERSIONS",
   "WHERE", "FILTER", "GROUP", "HAVING", "ORDER", "LIMIT", "NULL", "NOT", "IS", "AND", "OR", "NULLABLE"}

(* The operators of linear algebra are names too (keyword_token_as_ident). *)
LinearAlgebra ==
  {"TRACE", "DETERMINANT", "RANK", "INVERSE", "SOLVE", "LSTSQ", "EIGENVALUES", "EIGENVALUES_GENERAL", "QR", "LU",
   "CHOLESKY", "EIGEN", "EIGEN_GENERAL", "SVD", "PCA"}

NamedKeywords == LinearAlgebra \cup {"COMPONENTS"}

Operations ==
  {"SUBTRACT", "MULTIPLY", "DIVIDE", "CORRELATE", "SIMILARITY", "DISTANCE", "MATMUL", "TRANSPOSE", "RESHAPE", "STACK",
   "SCALE", "NORMALIZE", "FLATTEN", "SUM", "MEAN", "STDEV", "VARIANCE", "MEDIAN", "QUANTILE", "COVARIANCE", "AT",
   "FFT", "IFFT", "MAGNITUDE", "PSD", "WINDOW", "WHITEN", "BANDPASS", "RATE", "MATCHED_FILTER"}

Signs == {"[", "]", "(", ")", ",", ":", "=", ".", ">=", "<=", "!=", "~=", ">", "<", "+", "-", "*", "/", "?"}

Comments == {"--", "#", "//"}

(* A word of the text as a token: literals are "1", "2", "1.5" and quoted words. *)
Whole == {"0", "1", "2", "3"}
Quoted == {"'s'", "'F16'", "'('", "')'"}

Lexed(word) ==
  IF word \in Commands \cup Clauses \cup NamedKeywords \cup Operations \cup Signs THEN <<word, "">>
  ELSE IF word = "<>" THEN <<"!=", "">>
  ELSE IF word \in Whole THEN <<"int", CHOOSE n \in 0..3 : word = <<"0", "1", "2", "3">>[n + 1]>>
  ELSE IF word = "0.5" THEN <<"float", 5>>
  ELSE IF word \in Quoted THEN <<"str", word>>
  ELSE <<"id", word>>

(* Comments reach to the end of the line they are on. *)
Tokenize(words) ==
  LET cut == {i \in 1..Len(words) : words[i] \in Comments}
      upTo == IF cut = {} THEN Len(words) ELSE (CHOOSE i \in cut : \A j \in cut : i <= j) - 1
  IN [i \in 1..upTo |-> Lexed(words[i])]

(***************************************************************************)
(* Marks by which a guard knows a token: its kind, the text of an          *)
(* identifier, and "~" before its upper case form, for the names the code  *)
(* compares after to_uppercase; "end" past the last token.                 *)
(***************************************************************************)
Upper(text) ==
  CASE text = "length" -> "LENGTH" [] text = "count" -> "COUNT" [] text = "int" -> "INT" [] text = "rank" -> "RANK"
    [] text = "vector" -> "VECTOR" [] text = "matrix" -> "MATRIX" [] text = "tensor" -> "TENSOR"
    [] OTHER -> text

MarksAt(tokens, i) ==
  IF i > Len(tokens) THEN {"end"}
  ELSE IF tokens[i][1] = "id" THEN {"id", tokens[i][2], "~" \o Upper(tokens[i][2])} ELSE {tokens[i][1]}

Guarded(guard, tokens, i) == \A k \in 1..Len(guard) : MarksAt(tokens, i + k - 1) \cap guard[k] # {}

Called(names) == {"~" \o n : n \in names}

(***************************************************************************)
(* Items: a token, a word, a name (eat_ident, keywords of linear algebra   *)
(* included), literals, the callee of a call, expressions and rules.       *)
(***************************************************************************)
T(kind) == <<"token", kind>>
W(text) == <<"word", text>>
Name == <<"name">>
Str == <<"literal", {"str"}>>
Usize == <<"literal", {"int"}>>
Literal == <<"literal", {"int", "float"}>>
Number == <<"number">>
Callee == <<"callee">>
Expr(power) == <<"expr", power>>
Rule(name) == <<"rule", name>>
Check(condition) == <<"check", condition>>

(* Optional, by a branch, one or more separated by commas, as many as there are before a token. *)
Opt(guard, items) == <<"opt", guard, items>>
OneOf(branches) == <<"oneof", branches>>
List(items) == <<"list", items>>
Until(stop, items) == <<"until", stop, items>>
While(guard, items) == <<"while", guard, items>>

On(kinds) == <<kinds>>
Maybe(kind) == OneOf(<<<<"", On({kind}), <<T(kind)>>>>, <<"", <<>>, <<>>>>>>)
Comma == Maybe(",")
OptWord(text, items) == Opt(On({text}), <<W(text)>> \o items)

(* eat_qualified_column_name, parse_join_col_ref: the table's name is dropped. *)
Qualified == OneOf(<<<<"", <<{"id"} \cup NamedKeywords, {"."}>>, <<<<"skip">>, T("."), Name>>>>, <<"", <<>>, <<Name>>>>>>)

Args == <<T("("), List(<<Expr(0)>>), T(")")>>
OneArg == <<T("("), Expr(0), T(")")>>
TwoArgs == <<T("("), Expr(0), T(","), Expr(0), T(")")>>

UsizeList == <<T("["), Until("]", <<Usize, Comma>>), T("]")>>
NumberList == <<T("["), Until("]", <<Number, Comma>>), T("]")>>

(* parse_index_specs *)
Indices ==
  Until("]", <<OneOf(<<<<"all", On({"*"}), <<T("*")>>>>, <<"all", On({":"}), <<T(":")>>>>,
                       <<"at", <<>>, <<Usize, Opt(On({":"}), <<T(":"), Usize>>)>>>>>>), Comma>>)

Signed == <<Opt(On({"-"}), <<T("-")>>), Literal>>
VecLiteral == <<T("["), List(Signed), T("]")>>
MatLiteral == <<T("["), Until("]", <<T("["), Until("]", Signed \o <<Comma>>), T("]"), Comma>>), T("]")>>

(* Mutant of Powers: the right operand as weak as the operator, so that it groups to the right. *)
GroupingRight(kind) ==
  CASE kind = "OR" -> <<1, 1>> [] kind = "AND" -> <<3, 3>>
    [] kind \in {"=", "!=", ">", "<", ">=", "<="} -> <<5, 5>>
    [] kind \in {"+", "-"} -> <<7, 7>> [] kind \in {"*", "/"} -> <<9, 9>>
    [] OTHER -> <<>>

(***************************************************************************)
(* parse_pratt: the binding powers of operators, and the forms that follow *)
(* an operand and bind it at once, whatever stands to its left.            *)
(***************************************************************************)
Powers(kind) ==
  CASE kind = "OR" -> <<1, 2>> [] kind = "AND" -> <<3, 4>>
    [] kind \in {"=", "!=", ">", "<", ">=", "<="} -> <<5, 6>>
    [] kind \in {"+", "-"} -> <<7, 8>> [] kind \in {"*", "/"} -> <<9, 10>>
    [] OTHER -> <<>>

Postfix ==
  <<<<"field", On({"."}), <<T("."), Name>>>>,
    <<"index", On({"["}), <<T("["), Indices, T("]")>>>>,
    <<"notnull", <<{"IS"}, {"NOT"}>>, <<T("IS"), T("NOT"), T("NULL")>>>>,
    <<"isnull", On({"IS"}), <<T("IS"), T("NULL")>>>>,
    <<"in", On({"IN"}), <<T("IN")>> \o Args>>,
    <<"between", On({"BETWEEN"}), <<T("BETWEEN"), Expr(4), T("AND"), Expr(4)>>>>>>

(***************************************************************************)
(* parse_simple_expr and parse_call_expr: the operations of tensors, whose *)
(* operands follow without parentheses.                                    *)
(***************************************************************************)
SimpleStart == {"id", "int", "float", "-", "("}

Simple ==
  <<OneOf(<<<<"", On({"int", "float"}), <<Literal>>>>, <<"negative", On({"-"}), <<T("-"), Number>>>>,
            <<"ref", On({"id"}), <<Name>>>>, <<"", On({"("}), <<T("("), Expr(0), T(")")>>>>>>),
    OneOf(<<<<"index", On({"["}), <<T("["), Indices, T("]")>>>>, <<"field", On({"."}), <<T("."), Name>>>>,
            <<"", <<>>, <<>>>>>>)>>

Operand == Rule("simple")

Unary == {"NORMALIZE", "TRANSPOSE", "FLATTEN", "SUM", "MEAN", "STDEV", "VARIANCE", "MEDIAN", "IFFT", "MAGNITUDE", "TRACE",
          "DETERMINANT", "RANK", "INVERSE", "EIGENVALUES", "EIGENVALUES_GENERAL", "QR", "LU", "CHOLESKY", "EIGEN",
          "EIGEN_GENERAL", "SVD"}
Binary == {"ADD", "SUBTRACT", "MULTIPLY", "DIVIDE", "MATMUL", "SOLVE", "LSTSQ"}
Paired == {"CORRELATE", "SIMILARITY", "WHITEN", "MATCHED_FILTER"}

WindowName == OneOf(<<<<"HANN", On({"HANN"}), <<W("HANN")>>>>, <<"HAMMING", <<>>, <<W("HAMMING")>>>>>>)

CallExpr ==
  OneOf(<<
    <<"call", On(Unary), <<Callee, Operand>>>>,
    <<"call", On(Binary), <<Callee, Operand, Operand>>>>,
    <<"call", On(Paired), <<Callee, Operand, T("WITH"), Operand>>>>,
    <<"call", On({"DISTANCE"}), <<Callee, Operand, T("TO"), Operand>>>>,
    <<"call", On({"QUANTILE"}), <<Callee, Operand, T("AT"), Number>>>>,
    <<"covariance matrix", <<{"COVARIANCE"}, {"MATRIX"}>>, <<T("COVARIANCE"), T("MATRIX"), Operand>>>>,
    <<"call", On({"COVARIANCE"}), <<Callee, Operand, T("WITH"), Operand>>>>,
    <<"call", On({"FFT"}), <<Callee, Operand, Opt(On({"WINDOW"}), <<T("WINDOW"), WindowName>>)>>>>,
    <<"call", On({"PSD"}), <<Callee, Operand, T("WINDOW"), Usize, Opt(On({"HANN", "HAMMING"}), <<WindowName>>)>>>>,
    <<"call", On({"BANDPASS"}),
      <<Callee, Operand, T("FROM"), Number, T("TO"), Number, T("WITH"), T("RATE"), Number>>>>,
    <<"call", On({"SCALE"}), <<Callee, Operand, T("BY"), Number>>>>,
    <<"call", On({"RESHAPE"}), <<Callee, Operand, T("TO")>> \o UsizeList>>,
    <<"call", On({"STACK"}), <<Callee, Operand, Operand, While(On(SimpleStart), <<Operand>>)>>>>,
    <<"call", On({"PCA"}), <<Callee, Operand, T("COMPONENTS"), Usize>>>>>>)

(***************************************************************************)
(* parse_expr_atom. A keyword of linear algebra is an operator when an     *)
(* operand can follow it, else a name.                                     *)
(***************************************************************************)
CaseExpr ==
  <<T("CASE"), OneOf(<<<<"searched", On({"WHEN"}), <<>>>>, <<"operand", <<>>, <<Expr(0)>>>>>>),
    While(On({"WHEN"}), <<T("WHEN"), Expr(0), T("THEN"), Expr(0)>>),
    Opt(On({"ELSE"}), <<T("ELSE"), Expr(0)>>), T("END")>>

Sized == <<T("("), Usize, T(")")>>
Encoding == OneOf(<<<<"F16", On(Called({"F16", "FLOAT16"})), <<<<"skip">>>>>>, <<"I8", On(Called({"I8", "INT8"})), <<<<"skip">>>>>>>>)

CastTarget ==
  OneOf(<<
    <<"Vector", On({"VECTOR"}), <<T("VECTOR"), T("("), Usize, Opt(On({","}), <<T(","), Encoding>>), T(")")>>>>,
    <<"Matrix", On({"MATRIX"}), <<T("MATRIX"), T("("), Usize, T(","), Usize, T(")")>>>>,
    <<"SparseVector", On(Called({"SPARSEVECTOR"})), <<<<"skip">>>> \o Sized>>,
    <<"BitVector", On(Called({"BITVECTOR"})), <<<<"skip">>, Opt(On({"("}), Sized)>>>>,
    <<"scalar", On(Called({"INT", "INTEGER", "FLOAT", "FLOAT32", "DOUBLE", "FLOAT64", "TEXT", "STRING", "VARCHAR",
                           "BOOL", "BOOLEAN"})), <<Callee>>>>>>)

AggregateArg == <<T("("), OneOf(<<<<"*", On({"*"}), <<T("*")>>>>, <<"", <<>>, <<Name>>>>>>), T(")")>>

ScalarFns == {"UPPER", "LOWER", "LENGTH", "TRIM"}
VectorFns == {"L2_NORM", "COSINE_SIM", "DOT", "VEC_ADD", "VEC_SCALE", "MAT_SHAPE", "REAL", "IMAG", "ABS", "PHASE", "CONJ",
              "COMPLEX", "TANIMOTO", "JACCARD", "HAMMING", "BIT_COUNT", "SPEC_COSINE", "SPEC_COSINE_MOD",
              "SPEC_MATCHES", "SPEC_ENTROPY", "SPEC_CLEAN", "SPARSE"}

Applied(kinds) == <<kinds, {"("}>>

Atom ==
  OneOf(<<
    <<"case", On({"CASE"}), CaseExpr>>,
    <<"mat", <<{"["}, {"["}>>, MatLiteral>>,
    <<"vec", On({"["}), VecLiteral>>,
    <<"NULL", On({"NULL"}), <<T("NULL")>>>>,
    <<"", On({"int", "float"}), <<Literal>>>>,
    <<"", On({"str"}), <<Str>>>>,
    <<"-", On({"-"}), <<T("-"), Expr(11)>>>>,
    <<"not", On({"NOT"}), <<T("NOT"), Expr(5)>>>>,
    <<"", On({"("}), <<T("("), Expr(0), T(")")>>>>,
    <<"fn", Applied({"NORMALIZE", "TRANSPOSE", "FLATTEN"}), <<Callee>> \o OneArg>>,
    <<"fn", Applied({"MATMUL", "DISTANCE"}), <<Callee>> \o Args>>,
    <<"aggregate", Applied({"SUM"}), <<Callee>> \o AggregateArg>>,
    <<"", On((Unary \cup Binary \cup Paired \cup {"DISTANCE", "QUANTILE", "COVARIANCE", "FFT", "PSD", "BANDPASS", "SCALE",
                                                  "RESHAPE", "STACK"}) \ LinearAlgebra), <<Rule("call")>>>>,
    <<"", <<LinearAlgebra, SimpleStart>>, <<Rule("call")>>>>,
    <<"ref", On(LinearAlgebra), <<Name>>>>,
    <<"true", On({"true"}), <<W("true")>>>>,
    <<"false", On({"false"}), <<W("false")>>>>,
    <<"dataset", Applied({"dataset"}), <<W("dataset"), T("("), Str, T(")")>>>>,
    <<"aggregate", Applied(Called({"COUNT", "SUM", "AVG", "MIN", "MAX"})), <<Callee>> \o AggregateArg>>,
    <<"fn", Applied(Called(ScalarFns)), <<Callee>> \o OneArg>>,
    <<"fn", Applied(Called({"CONCAT", "SUBSTR", "COALESCE"} \cup VectorFns)), <<Callee>> \o Args>>,
    <<"cast", Applied(Called({"CAST"})), <<Callee, T("("), Expr(0), T("AS"), CastTarget, T(")")>>>>,
    <<"nullif", Applied(Called({"NULLIF", "IFNULL"})), <<<<"skip">>>> \o TwoArgs>>,
    <<"ref", On({"id"}), <<Name>>>>>>)
=============================================================================
