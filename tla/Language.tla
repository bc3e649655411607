------------------------------ MODULE Language ------------------------------
(* What the language promises, as questions put to the parser. *)
EXTENDS Parser, Questions

CONSTANTS
  Trees,        \* <<expression tree>>
  Readings,     \* <<words before a name, words after it, name, "name" | "operand" | "identifier">>
  ClauseOrders, \* <<sequence of clauses, sequence of the same clauses>>
  Scripts       \* <<sequence of lines>>

AskLanguage ==
  \/ Ask("tree", Trees) \/ Ask("reading", Readings) \/ Ask("clauses", ClauseOrders) \/ Ask("script", Scripts)

(***************************************************************************)
(* An expression written down with no more parentheses than its operators  *)
(* need parses to itself: a comparison of sums is one, NOT is looser than  *)
(* a comparison and tighter than AND, operators of one strength group to   *)
(* the left, the AND of a BETWEEN is its own. IS NULL, IN and BETWEEN bind *)
(* the nearest operand: `a + b IS NULL` is a + (b IS NULL).                *)
(***************************************************************************)
RECURSIVE Printed(_, _)
Printed(tree, power) ==
  LET label == tree[1]
      powers == Powers(label)
      base == Printed(tree[2], 12)
      body == CASE label = "ref" -> <<<<"id", tree[2][2]>>>>
                [] label = "int" -> <<tree>>
                [] label = "-" /\ Len(tree) = 2 -> <<<<"-", "">>>> \o Printed(tree[2], 11)
                [] label = "not" -> <<<<"NOT", "">>>> \o Printed(tree[2], 5)
                [] label = "isnull" -> base \o <<<<"IS", "">>, <<"NULL", "">>>>
                [] label = "in" -> base \o <<<<"IN", "">>, <<"(", "">>>> \o Printed(tree[3][2], 0) \o <<<<")", "">>>>
                [] label = "between" ->
                     base \o <<<<"BETWEEN", "">>>> \o Printed(tree[3], 4) \o <<<<"AND", "">>>> \o Printed(tree[4], 4)
                [] OTHER -> Printed(tree[2], powers[1]) \o <<<<label, "">>>> \o Printed(tree[3], powers[2])
      loose == \/ label \in {"not", "between"} /\ power >= 5
               \/ label \in {"isnull", "in"} /\ power >= 11
               \/ label = "-" /\ Len(tree) = 2 /\ power > 11
               \/ powers # <<>> /\ Len(tree) = 3 /\ powers[1] < power
  IN IF loose THEN <<<<"(", "">>>> \o body \o <<<<")", "">>>> ELSE body

TreesComeBack ==
  Asked("tree") =>
    LET tokens == Printed(question[2], 0) IN Pratt(tokens, 1, 0) = <<Len(tokens) + 1, <<question[2]>>>>

(***************************************************************************)
(* A name that is a keyword of linear algebra is read as any other name    *)
(* would be, unless an operand of the operator follows it. That holds      *)
(* where the code takes a name (eat_ident) and in expressions, of all but  *)
(* COMPONENTS, which can be declared and not referred to. Where the code   *)
(* looks at the token itself and wants an identifier - an operand of an    *)
(* operator without parentheses, a table's alias without AS, what SHOW,    *)
(* EXPLAIN and USE name, a tensor in VALUES, a column after COLUMNS        *)
(* without parentheses - every such name is refused, and never taken for   *)
(* anything else. mod.rs:176 says it is valid wherever the grammar expects *)
(* an identifier.                                                          *)
(***************************************************************************)
RefusedAt(name, place) ==
  name \in NamedKeywords /\ (place = "identifier" \/ (place = "operand" /\ name = "COMPONENTS"))

RECURSIVE RenamedIn(_, _)
RenamedIn(node, n) ==
  IF node = <<"name", n>> THEN <<"name", "a">>
  ELSE IF node = <<>> \/ node[1] \in {"name", "callee", "int", "float", "str"} THEN node
  ELSE IF node[1] = "clauses"
  THEN <<"clauses", [k \in DOMAIN node[2] |-> [i \in 1..Len(node[2][k]) |-> RenamedIn(node[2][k][i], n)]]>>
  ELSE [i \in 1..Len(node) |-> IF i = 1 THEN node[1] ELSE RenamedIn(node[i], n)]

NamesReadAlike ==
  Asked("reading") =>
    LET before == question[2]
        after == question[3]
        read(n) == Read(before \o <<n>> \o after)
        name == question[4]
        next == IF after = <<>> THEN "end" ELSE Lexed(after[1])[1]
    IN /\ read("a") # Rejected
       /\ IF RefusedAt(name, question[5]) THEN read(name) = Rejected
          ELSE next \notin SimpleStart => RenamedIn(read(name), name) = read("a")

(***************************************************************************)
(* The clauses of a SELECT mean the same in every order.                   *)
(***************************************************************************)
ClausesCommute ==
  Asked("clauses") =>
    LET read(clauses) == Read(<<"SELECT", "a", "FROM", "t">> \o FlattenSeq(clauses))
    IN read(question[2]) # Rejected /\ read(question[2]) = read(question[3])

(***************************************************************************)
(* When every statement of a script is accepted, nothing but its comments  *)
(* was left out: a comment inside an open parenthesis, which swallows the  *)
(* lines joined to it, never shortens a statement that is executed, if the *)
(* parentheses in comments and in quoted text balance. The splitter counts *)
(* those too: after `DELETE FROM t -- (` the lines up to the next `)` are  *)
(* joined to the DELETE, which is accepted without them.                   *)
(***************************************************************************)
CommentsAndText(line) ==
  LET read == Len(Tokenize(line))
  IN SelectSeq(SubSeq(line, 1, read), LAMBDA w : w \in Quoted) \o SubSeq(line, read + 1, Len(line))

ScriptsAreReadWhole ==
  Asked("script") =>
    LET statements == SplitScript(question[2])
        lines == question[2]
    IN
    /\ \A n \in 1..Len(lines) : Balance(CommentsAndText(lines[n])) = 0
    /\ \A n \in 1..Len(statements) : Read(statements[n]) # Rejected
    =>
      FlattenSeq([n \in 1..Len(statements) |-> Tokenize(statements[n])])
        = FlattenSeq([n \in 1..Len(lines) |-> Tokenize(lines[n])])
=============================================================================
