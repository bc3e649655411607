------------------------------- MODULE Parser -------------------------------
(***************************************************************************)
(* The parser: a cursor over tokens that only moves forward                *)
(* (dsl/parser/mod.rs), running the productions of StatementSyntax, and    *)
(* the splitting of scripts into statements (dsl/script.rs).               *)
(*                                                                         *)
(* A run returns <<where it stopped, the nodes it made>>, 0 where the code *)
(* returns an error. A node is <<label, node, ...>>.                       *)
(***************************************************************************)
EXTENDS StatementSyntax, SequencesExt, FiniteSetsExt

Fail == <<0, <<>>>>
Rejected == <<"error">>

KindAt(tokens, i) == IF i > Len(tokens) THEN "end" ELSE tokens[i][1]
TextAt(tokens, i) == tokens[i][2]

(* Mutant of IsName: identifiers only. *)
IsIdentifier(tokens, i) == KindAt(tokens, i) = "id"

(* eat_ident: identifiers, and the keywords that are names too. *)
IsName(tokens, i) == KindAt(tokens, i) \in {"id"} \cup NamedKeywords

NameAt(tokens, i) == IF KindAt(tokens, i) = "id" THEN TextAt(tokens, i) ELSE KindAt(tokens, i)

Took(tokens, i, ok, nodes) == IF ok THEN <<i + 1, nodes>> ELSE Fail

(***************************************************************************)
(* What the code makes of the pieces: a minus before an integer is part of *)
(* it; a lone reference without an alias is a column.                      *)
(***************************************************************************)
Shaped(label, nodes) ==
  IF label = "-" /\ nodes[1][1] \in {"int", "float"} THEN <<nodes[1][1], -nodes[1][2]>>
  ELSE IF label = "item" /\ Len(nodes) = 1 /\ nodes[1][1] = "ref" THEN <<"column", nodes[1][2]>>
  ELSE IF label = "item" /\ Len(nodes) = 1 /\ nodes[1][1] = "field" /\ nodes[1][2][1] = "ref" THEN <<"column", nodes[1][3]>>
  ELSE IF label = "item" THEN <<"computed">> \o nodes
  ELSE <<label>> \o nodes

(* parse_matrix: at least one row, and all as long as the first. parse_col_type: no dimension of 0. *)
CheckPasses(condition, nodes) ==
  LET last == nodes[Len(nodes)] IN
  CASE condition = "even rows" -> Len(last) > 1 /\ \A n \in 2..Len(last) : Len(last[n][2]) = Len(last[2][2])
    [] condition = "positive" -> last[2] > 0

Production(name) ==
  CASE name = "select" -> SelectQuery [] name = "search" -> Search [] name = "selectexpr" -> <<SelectExpr>>
    [] name = "simple" -> Simple [] name = "call" -> <<CallExpr>>

RECURSIVE Run(_, _, _, _), Step(_, _, _, _), Repeated(_, _, _, _), Listed(_, _, _, _), Clausal(_, _, _, _),
          Pratt(_, _, _), Continued(_, _, _, _)

(***************************************************************************)
(* The items one after the other; the first that fails fails them all.     *)
(***************************************************************************)
Run(items, tokens, i, nodes) ==
  IF items = <<>> THEN <<i, nodes>>
  ELSE LET done == Step(Head(items), tokens, i, nodes) IN
       IF done = Fail THEN Fail ELSE Run(Tail(items), tokens, done[1], nodes \o done[2])

FirstGuarded(branches, tokens, i) ==
  LET open == {n \in 1..Len(branches) : Guarded(branches[n][2], tokens, i)} IN IF open = {} THEN 0 ELSE Min(open)

(* A branch is taken on its guard alone; without one that fits it is an error. *)
Branched(branches, tokens, i) ==
  LET n == FirstGuarded(branches, tokens, i) IN
  IF n = 0 THEN Fail
  ELSE LET label == branches[n][1]
           done == Run(branches[n][3], tokens, i, <<>>)
       IN IF done = Fail \/ label = "" THEN done ELSE <<done[1], <<Shaped(label, done[2])>>>>

Step(item, tokens, i, nodes) ==
  LET what == item[1]
      kind == KindAt(tokens, i)
  IN CASE what = "token" -> Took(tokens, i, kind = item[2], <<>>)
       [] what = "word" -> Took(tokens, i, kind = "id" /\ item[2] \in MarksAt(tokens, i), <<>>)
       [] what = "skip" -> Took(tokens, i, kind # "end", <<>>)
       [] what = "name" -> IF IsName(tokens, i) THEN <<i + 1, <<<<"name", NameAt(tokens, i)>>>>>> ELSE Fail
       [] what = "anyname" -> Took(tokens, i, IsName(tokens, i), <<>>)
       [] what = "callee" -> <<i + 1, <<<<"callee", Upper(IF kind = "id" THEN TextAt(tokens, i) ELSE kind)>>>>>>
       [] what = "literal" -> IF kind \in item[2] THEN <<i + 1, <<tokens[i]>>>> ELSE Fail
       [] what = "number" ->
            IF kind = "-"
            THEN LET rest == Step(Number, tokens, i + 1, <<>>) IN
                 IF rest = Fail THEN Fail ELSE <<rest[1], <<<<"negative">> \o rest[2]>>>>
            ELSE Step(Literal, tokens, i, nodes)
       [] what = "expr" -> Pratt(tokens, i, item[2])
       [] what = "check" -> IF CheckPasses(item[2], nodes) THEN <<i, <<>>>> ELSE Fail
       [] what = "rule" ->
            LET done == Run(Production(item[2]), tokens, i, <<>>) IN
            IF done = Fail \/ item[2] \notin {"select", "search"} THEN done ELSE <<done[1], <<<<item[2]>> \o done[2]>>>>
       [] what = "opt" ->
            IF ~Guarded(item[2], tokens, i) THEN <<i, <<>>>>
            ELSE LET done == Run(item[3], tokens, i, <<>>) IN
                 IF done = Fail THEN Fail ELSE <<done[1], <<<<"some">> \o done[2]>>>>
       [] what = "oneof" -> Branched(item[2], tokens, i)
       [] what = "list" -> Listed(item[2], tokens, i, <<"list">>)
       [] what \in {"until", "while"} -> Repeated(item, tokens, i, <<"list">>)
       [] what = "clauses" -> Clausal(item[2], tokens, i, <<>>)

(* `while !at(stop) && !eof` and `while matches!(peek, ...)`. *)
Repeated(item, tokens, i, nodes) ==
  LET more == IF item[1] = "until" THEN KindAt(tokens, i) \notin {item[2], "end"} ELSE Guarded(item[2], tokens, i)
      done == Run(item[3], tokens, i, <<>>)
  IN IF ~more THEN <<i, <<nodes>>>>
     ELSE IF done = Fail THEN Fail ELSE Repeated(item, tokens, done[1], nodes \o done[2])

Listed(items, tokens, i, nodes) ==
  LET done == Run(items, tokens, i, <<>>) IN
  IF done = Fail THEN Fail
  ELSE IF KindAt(tokens, done[1]) = "," THEN Listed(items, tokens, done[1] + 1, nodes \o done[2])
  ELSE <<done[1], <<nodes \o done[2]>>>>

(* The clauses of a query, as a function of their kinds: the last of a kind stays. *)
Clausal(branches, tokens, i, clauses) ==
  LET n == FirstGuarded(branches, tokens, i)
      done == Run(branches[n][3], tokens, i, <<>>)
      kind == branches[n][1]
      earlier == IF kind = "groups" /\ kind \in DOMAIN clauses THEN clauses[kind] ELSE <<>>
      grown == [k \in DOMAIN clauses \cup {kind} |-> IF k = kind THEN earlier \o done[2] ELSE clauses[k]]
  IN IF n = 0 THEN <<i, <<<<"clauses", clauses>>>>>>
     ELSE IF done = Fail THEN Fail ELSE Clausal(branches, tokens, done[1], grown)

(***************************************************************************)
(* parse_pratt: an operand, the forms that follow it, and the operators    *)
(* that bind as strongly as asked for.                                     *)
(***************************************************************************)
Pratt(tokens, i, power) ==
  LET operand == Step(Atom, tokens, i, <<>>) IN
  IF operand = Fail THEN Fail ELSE Continued(tokens, operand[1], operand[2][1], power)

Continued(tokens, i, left, power) ==
  LET n == FirstGuarded(Postfix, tokens, i)
      after == Run(Postfix[n][3], tokens, i, <<>>)
      powers == Powers(KindAt(tokens, i))
      right == Pratt(tokens, i + 1, powers[2])
  IN IF n # 0
     THEN IF after = Fail THEN Fail ELSE Continued(tokens, after[1], <<Postfix[n][1], left>> \o after[2], power)
     ELSE IF powers = <<>> THEN <<i, <<left>>>>
     ELSE IF powers[1] < power THEN <<i, <<left>>>>
     ELSE IF right = Fail THEN Fail
     ELSE Continued(tokens, right[1], <<KindAt(tokens, i), left, right[2][1]>>, power)

(* Mutant of Parse: what follows the statement is left unread. *)
ParsedPrefix(tokens) ==
  LET done == IF tokens = <<>> THEN Fail ELSE Step(Statement, tokens, 1, <<>>)
  IN IF done = Fail THEN Rejected ELSE done[2][1]

(***************************************************************************)
(* parse: one statement and nothing after it.                              *)
(***************************************************************************)
Parse(tokens) ==
  LET done == IF tokens = <<>> THEN Fail ELSE Step(Statement, tokens, 1, <<>>)
  IN IF done = Fail THEN Rejected ELSE IF done[1] <= Len(tokens) THEN Rejected ELSE done[2][1]

Read(words) == Parse(Tokenize(words))

(***************************************************************************)
(* split_script: lines are joined while their parentheses, those in        *)
(* comments and strings included, do not balance; comments and blank lines *)
(* are left out between statements only. The script is refused when the    *)
(* last statement does not balance.                                        *)
(***************************************************************************)
Opening == {"(", "'('"}
Closing == {")", "')'"}
Balance(words) == Cardinality({i \in 1..Len(words) : words[i] \in Opening}) - Cardinality({i \in 1..Len(words) : words[i] \in Closing})

Ignorable(line) == line = <<>> \/ line[1] \in Comments

WithLine(state, line) ==
  IF state.open = <<>> /\ Ignorable(line) THEN state
  ELSE LET text == state.open \o line
           balance == state.balance + Balance(line)
       IN IF balance = 0 THEN [statements |-> Append(state.statements, text), open |-> <<>>, balance |-> 0]
          ELSE [state EXCEPT !.open = text, !.balance = balance]

SplitScript(lines) ==
  LET end == FoldLeft(WithLine, [statements |-> <<>>, open |-> <<>>, balance |-> 0], lines)
  IN IF end.open = <<>> THEN end.statements ELSE <<Rejected>>
=============================================================================
