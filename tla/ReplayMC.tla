------------------------------ MODULE ReplayMC ------------------------------
(* Two databases.  Clients build names, aliases, lazy tensors, tensor-first *)
(* and record datasets in "a"; "b" shares the pipelines.                    *)
EXTENDS Replay, TLC

MCDbOrder == << "a", "b" >>
MCColumnOrder == << "c", "e" >>

OnTensors ==
  { [op |-> "vector", name |-> "x", tensor |-> [holds |-> 1, rank |-> 1, rows |-> 2]],
    [op |-> "vector", name |-> "k", tensor |-> [holds |-> 0, rank |-> 3, rows |-> 2]],
    [op |-> "let", name |-> "y", source |-> "z"],
    [op |-> "lazyLet", name |-> "z", source |-> "x"],
    [op |-> "lazyLet", name |-> "w", source |-> "z"],
    [op |-> "bind", name |-> "w", source |-> "x"],
    [op |-> "show", name |-> "z"] }

OnDatasets ==
  { [op |-> "datasetRef", name |-> "v", dataset |-> "d"],
    [op |-> "attach", source |-> "x", dataset |-> "v", column |-> "c"],
    [op |-> "attach", source |-> "z", dataset |-> "d", column |-> "e"],
    [op |-> "attach", source |-> "k", dataset |-> "d", column |-> "e"],
    [op |-> "column", name |-> "y", dataset |-> "v", column |-> "c"],
    [op |-> "create", name |-> "d", column |-> "c"],
    [op |-> "insert", name |-> "d", value |-> 1],
    [op |-> "bind", name |-> "g", source |-> "d"],
    [op |-> "dropDataset", name |-> "d"],
    [op |-> "reset"] }

OnPipelines ==
  { [op |-> "definePipeline", pipeline |-> "p", limit |-> 1],
    [op |-> "applyPipeline", pipeline |-> "p", source |-> "d", name |-> "g"],
    [op |-> "dropPipeline", pipeline |-> "p"] }

MCStatements ==
  "a" :> (OnTensors \cup OnDatasets \cup OnPipelines) @@
  "b" :> {[op |-> "reset"], [op |-> "definePipeline", pipeline |-> "p", limit |-> 0]}
=============================================================================
