------------------------------ MODULE Instance ------------------------------
(***************************************************************************)
(* engine::db::DatabaseInstance: the tensors, names, lazy expressions and  *)
(* datasets of one database, and what a DSL statement does to them         *)
(* (dsl::executor::execute_statement).  A statement is a function from the *)
(* instance and the session's pipelines to their next value and an ok flag *)
(* -- a statement that fails may have changed something before it did.     *)
(*                                                                         *)
(* What a tensor or a column holds is one number, taken modulo Contents;   *)
(* every computation is the one operation SCALE.  A record dataset is its  *)
(* columns, each with the number of rows and what they hold.  Provenance,  *)
(* metadata, indexes and the temporaries of nested expressions are left    *)
(* out; STRICT tensors behave as normal ones do under SCALE.               *)
(***************************************************************************)
EXTENDS Integers, Sequences, FiniteSets, FiniteSetsExt, Functions

CONSTANTS
  Contents,    \* bound: how many different contents a tensor can have
  ColumnOrder  \* the names of columns, sorted
ASSUME ContentsAssumption == Contents \in Nat \ {0}

Nothing == [x \in {} |-> {}]
With(f, x, y) == [z \in DOMAIN f \cup {x} |-> IF z = x THEN y ELSE f[z]]
Over(f, g) == [z \in DOMAIN f \cup DOMAIN g |-> IF z \in DOMAIN f THEN f[z] ELSE g[z]]
Without(f, S) == Restrict(f, DOMAIN f \ S)

NewInstance ==
  [ names |-> Nothing,            \* name -> NameEntry
    store |-> Nothing,            \* InMemoryTensorStore: id -> tensor
    lazy |-> Nothing,             \* lazy_store: id -> what the expression yields
    tensorDatasets |-> Nothing,   \* DatasetRegistry: name -> column -> tensor id
    vars |-> Nothing,             \* dataset_vars: variable -> dataset name
    records |-> Nothing ]         \* dataset_store: name -> column -> contents

Ok(inst, pipes) == [ok |-> TRUE, inst |-> inst, pipes |-> pipes]
Error(inst, pipes) == [ok |-> FALSE, inst |-> inst, pipes |-> pipes]

\* TensorId::new(); neither store ever forgets an id but in reset
FreshId(inst) == 1 + Max(DOMAIN inst.store \cup DOMAIN inst.lazy \cup {0})

-----------------------------------------------------------------------------
(* Tensors                                                                  *)

InsertNamed(inst, name, tensor, kind) ==
  LET id == FreshId(inst)
  IN [inst EXCEPT !.store = With(@, id, tensor),
                  !.names = With(@, name, [id |-> id, kind |-> kind])]

\* get_with_kind: a lazy tensor is in no store until it is shown
HasTensor(inst, name) ==
  name \in DOMAIN inst.names /\ inst.names[name].id \in DOMAIN inst.store
TensorOf(inst, name) == inst.store[inst.names[name].id]

Scaled(tensor) == [tensor EXCEPT !.holds = (@ + 1) % Contents]

Vector(inst, pipes, s) == Ok(InsertNamed(inst, s.name, s.tensor, "normal"), pipes)

\* LET name = SCALE source BY k: the result has the kind of its operand
EvalUnary(inst, pipes, s) ==
  IF HasTensor(inst, s.source)
  THEN Ok(InsertNamed(inst, s.name, Scaled(TensorOf(inst, s.source)),
                      inst.names[s.source].kind), pipes)
  ELSE Error(inst, pipes)

IsLazy(inst, name) == name \in DOMAIN inst.names /\ inst.names[name].kind = "lazy"
HasExpression(inst, name) == IsLazy(inst, name) /\ inst.names[name].id \in DOMAIN inst.lazy

\* LAZY LET name = SCALE source BY k: operands are copied into the expression
EvalLazyUnary(inst, pipes, s) ==
  LET id == FreshId(inst)
      Register(operand) ==
        [inst EXCEPT !.names = With(@, s.name, [id |-> id, kind |-> "lazy"]),
                     !.lazy = With(@, id, Scaled(operand))]
  IN IF HasExpression(inst, s.source)
     THEN Ok(Register(inst.lazy[inst.names[s.source].id]), pipes)
     ELSE IF ~IsLazy(inst, s.source) /\ HasTensor(inst, s.source)
     THEN Ok(Register(TensorOf(inst, s.source)), pipes)
     ELSE Error(inst, pipes)

\* A dataset variable stands for its dataset
DatasetName(inst, var) == IF var \in DOMAIN inst.vars THEN inst.vars[var] ELSE var

\* evaluate, and the SHOW that calls it and ignores its error
Evaluated(inst, name) ==
  IF HasExpression(inst, name)
  THEN InsertNamed(inst, name, inst.lazy[inst.names[name].id], "normal")
  ELSE inst
Show(inst, pipes, s) ==
  LET shown == Evaluated(inst, s.name)
      found == \/ HasTensor(shown, s.name)
               \/ s.name \in DOMAIN shown.records
               \/ DatasetName(shown, s.name) \in DOMAIN shown.tensorDatasets
  IN IF found THEN Ok(shown, pipes) ELSE Error(shown, pipes)

\* BIND alias TO source, LET alias = source: dataset variables first, then
\* tensors, then a copy of a record dataset, then a copy of a tensor dataset
Bind(inst, pipes, s) ==
  IF s.source \in DOMAIN inst.vars
  THEN Ok([inst EXCEPT !.vars = With(@, s.name, @[s.source])], pipes)
  ELSE IF s.source \in DOMAIN inst.names
  THEN Ok([inst EXCEPT !.names = With(@, s.name, @[s.source])], pipes)
  ELSE IF s.source \in DOMAIN inst.records
  THEN IF s.name \in DOMAIN inst.records
       THEN Error(inst, pipes)
       ELSE Ok([inst EXCEPT !.records = With(@, s.name, @[s.source])], pipes)
  ELSE IF s.source \in DOMAIN inst.tensorDatasets
  THEN Ok([inst EXCEPT !.tensorDatasets = Over(@, With(Nothing, s.name, @[s.source]))], pipes)
  ELSE Error(inst, pipes)

-----------------------------------------------------------------------------
(* Tensor-first datasets                                                    *)

\* LET var = dataset("name"); register keeps a dataset that is already there
DatasetRef(inst, pipes, s) ==
  Ok([inst EXCEPT !.tensorDatasets = Over(@, With(Nothing, s.dataset, Nothing)),
                  !.vars = With(@, s.name, s.dataset)], pipes)

Resolves(inst, columns) == \A c \in DOMAIN columns : columns[c] \in DOMAIN inst.store
ColumnContents(inst, columns) == [c \in DOMAIN columns |-> inst.store[columns[c]]]

\* materialize_tensor_dataset succeeds
Materializes(inst, columns) ==
  /\ columns # Nothing /\ Resolves(inst, columns)
  /\ \A c \in DOMAIN columns : inst.store[columns[c]].rank <= 2
  /\ \A b, c \in DOMAIN columns : inst.store[columns[b]].rows = inst.store[columns[c]].rows

\* ATTACH tensor TO dataset.column, dataset.add_column("column", tensor): the
\* column is in place before the copy for SELECT is brought up to date.  The
\* rows are compared with those of one column, whichever the map yields first.
Attach(inst, pipes, s) ==
  LET name == DatasetName(inst, s.dataset)
      columns == inst.tensorDatasets[name]
      first == CHOOSE c \in DOMAIN columns : TRUE
      attached == With(columns, s.column, inst.names[s.source].id)
      added == [inst EXCEPT !.tensorDatasets = With(@, name, attached)]
  IN IF /\ HasTensor(inst, s.source)
        /\ name \in DOMAIN inst.tensorDatasets
        /\ columns # Nothing =>
             /\ columns[first] \in DOMAIN inst.store
             /\ inst.store[columns[first]].rows = TensorOf(inst, s.source).rows
     THEN IF Materializes(added, attached)
          THEN Ok([added EXCEPT !.records = With(@, name, ColumnContents(added, attached))], pipes)
          ELSE Error(added, pipes)
     ELSE Error(inst, pipes)

\* LET name = dataset.column: the tensor itself for a tensor-first dataset,
\* a new tensor for a record dataset
EvalColumnAccess(inst, pipes, s) ==
  LET dataset == DatasetName(inst, s.dataset)
      Columns(of) == IF dataset \in DOMAIN of THEN of[dataset] ELSE Nothing
  IN IF dataset \in DOMAIN inst.tensorDatasets
     THEN IF s.column \in DOMAIN Columns(inst.tensorDatasets)
          THEN Ok([inst EXCEPT !.names =
                     With(@, s.name, [id |-> Columns(inst.tensorDatasets)[s.column],
                                      kind |-> "normal"])], pipes)
          ELSE Error(inst, pipes)
     ELSE IF s.column \in DOMAIN Columns(inst.records)
     THEN Ok(InsertNamed(inst, s.name, Columns(inst.records)[s.column], "normal"), pipes)
     ELSE Error(inst, pipes)

-----------------------------------------------------------------------------
(* Record datasets and pipelines                                            *)

CreateDataset(inst, pipes, s) ==
  IF s.name \in DOMAIN inst.records
  THEN Error(inst, pipes)
  ELSE Ok([inst EXCEPT !.records =
             With(@, s.name, With(Nothing, s.column, [holds |-> 0, rank |-> 1, rows |-> 0]))], pipes)

InsertRow(inst, pipes, s) ==
  LET Grown(column) == [column EXCEPT !.holds = (@ + s.value) % Contents, !.rows = @ + 1]
  IN IF s.name \in DOMAIN inst.records
     THEN Ok([inst EXCEPT !.records[s.name] = [c \in DOMAIN @ |-> Grown(@[c])]], pipes)
     ELSE Error(inst, pipes)

\* DROP DATASET: the record copy, the tensor-first dataset, its variables
DropDataset(inst, pipes, s) ==
  IF s.name \in DOMAIN inst.records \cup DOMAIN inst.tensorDatasets
  THEN Ok([inst EXCEPT !.records = Without(@, {s.name}),
                       !.tensorDatasets = Without(@, {s.name}),
                       !.vars = Without(@, {v \in DOMAIN @ : @[v] = s.name})], pipes)
  ELSE Error(inst, pipes)

\* RESET clears this database, all but lazy_store, and every pipeline
Reset(inst, pipes, s) == Ok([NewInstance EXCEPT !.lazy = inst.lazy], Nothing)

\* A pipeline is its one LIMIT step
DefinePipeline(inst, pipes, s) == Ok(inst, With(pipes, s.pipeline, s.limit))
DropPipeline(inst, pipes, s) ==
  IF s.pipeline \in DOMAIN pipes
  THEN Ok(inst, Without(pipes, {s.pipeline}))
  ELSE Error(inst, pipes)

\* Rows of other columns under a schema: values go by their place.  CREATE
\* makes one column, a synced copy has them sorted by name.  A column behind
\* the end of the rows has nothing to read (reading it panics).
InOrder(columns) == SelectSeq(ColumnOrder, LAMBDA c : c \in DOMAIN columns)
Placed(columns, rows) ==
  LET place(c) == CHOOSE i \in DOMAIN InOrder(columns) : InOrder(columns)[i] = c
  IN [c \in DOMAIN columns |->
        IF place(c) \in DOMAIN InOrder(rows)
        THEN rows[InOrder(rows)[place(c)]]
        ELSE [columns[c] EXCEPT !.holds = 0, !.rows = 0]]

\* APPLY PIPELINE INTO: an existing dataset keeps its schema
ApplyPipeline(inst, pipes, s) ==
  LET Limited(column) ==
        IF column.rows <= pipes[s.pipeline]
        THEN column
        ELSE [column EXCEPT !.holds = 0, !.rows = pipes[s.pipeline]]
      rows == [c \in DOMAIN inst.records[s.source] |-> Limited(inst.records[s.source][c])]
      result == IF s.name \in DOMAIN inst.records THEN Placed(inst.records[s.name], rows) ELSE rows
  IN IF s.pipeline \in DOMAIN pipes /\ s.source \in DOMAIN inst.records
     THEN Ok([inst EXCEPT !.records = With(@, s.name, result)], pipes)
     ELSE Error(inst, pipes)

-----------------------------------------------------------------------------
\* The Statements that are executed
Operations ==
  { "vector", "let", "lazyLet", "show", "bind", "datasetRef", "attach", "column", "create",
    "insert", "dropDataset", "reset", "definePipeline", "dropPipeline", "applyPipeline" }

\* execute_statement
Execute(inst, pipes, s) ==
  CASE s.op = "vector" -> Vector(inst, pipes, s)
    [] s.op = "let" -> EvalUnary(inst, pipes, s)
    [] s.op = "lazyLet" -> EvalLazyUnary(inst, pipes, s)
    [] s.op = "show" -> Show(inst, pipes, s)
    [] s.op = "bind" -> Bind(inst, pipes, s)
    [] s.op = "datasetRef" -> DatasetRef(inst, pipes, s)
    [] s.op = "attach" -> Attach(inst, pipes, s)
    [] s.op = "column" -> EvalColumnAccess(inst, pipes, s)
    [] s.op = "create" -> CreateDataset(inst, pipes, s)
    [] s.op = "insert" -> InsertRow(inst, pipes, s)
    [] s.op = "dropDataset" -> DropDataset(inst, pipes, s)
    [] s.op = "reset" -> Reset(inst, pipes, s)
    [] s.op = "definePipeline" -> DefinePipeline(inst, pipes, s)
    [] s.op = "dropPipeline" -> DropPipeline(inst, pipes, s)
    [] s.op = "applyPipeline" -> ApplyPipeline(inst, pipes, s)

(* Mutant of IsMutating: LAZY LET computes nothing, so it seems to change   *)
(* nothing.                                                                 *)
IsMutatingNotLazy(s) == s.op \notin {"show", "lazyLet"}

\* Statement::is_mutating
IsMutating(s) == s.op # "show"

PipelineOps == {"definePipeline", "dropPipeline", "applyPipeline", "reset"}

-----------------------------------------------------------------------------
(* What clients can tell of an instance.  Whether a lazy tensor has been    *)
(* materialized is not among it.                                            *)
ContentOf(inst, name) ==
  LET entry == inst.names[name]
  IN IF entry.kind = "lazy" THEN inst.lazy[entry.id] ELSE inst.store[entry.id]
NamesResolve(inst) ==
  \A name \in DOMAIN inst.names :
    LET entry == inst.names[name]
    IN entry.id \in DOMAIN (IF entry.kind = "lazy" THEN inst.lazy ELSE inst.store)
Content(inst) ==
  [ tensors |-> [name \in DOMAIN inst.names |-> ContentOf(inst, name)],
    datasets |-> [d \in DOMAIN inst.tensorDatasets |->
                    ColumnContents(inst, inst.tensorDatasets[d])],
    vars |-> inst.vars,
    records |-> inst.records ]
=============================================================================
