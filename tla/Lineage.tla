------------------------------ MODULE Lineage -------------------------------
(***************************************************************************)
(* The provenance log of one database (core/provenance.rs): what           *)
(* statements record, PRUNE LINEAGE, EXPLAIN LINEAGE of a dataset, and     *)
(* restarts, which execute the logged statements again. Contents are       *)
(* numbers that may come back, as equal bytes do. Records are in memory    *)
(* and in provenance.jsonl alike: appends to the file succeed here.        *)
(***************************************************************************)
EXTENDS Integers, Sequences, FiniteSetsExt, Functions

CONSTANTS
  Names,        \* of datasets
  Contents,     \* what they hold: 1 .. Contents
  MaxEvents     \* bound: statements, prunings and restarts

VARIABLES
  live,         \* name -> contents of the datasets there are
  records,      \* ProvenanceStore::records, and the file's lines
  snapshot,     \* live at the last checkpoint
  logged,       \* the statements in wal.log since
  events

lineageVars == <<live, records, snapshot, logged, events>>

Entity(name, hash) == [name |-> name, hash |-> hash]

(***************************************************************************)
(* find_producer_before: among the records that have an output with the    *)
(* entity's contents the last one that names it, or else the last one; 0   *)
(* if there is none.                                                       *)
(***************************************************************************)
Makes(record, hash) == \E i \in DOMAIN record.outputs : record.outputs[i].hash = hash

Producer(log, entity, before) ==
  LET makers == {i \in 1..(before - 1) : Makes(log[i], entity.hash)}
      named == {i \in makers : entity \in Range(log[i].outputs)}
  IN Max({0} \cup IF named # {} THEN named ELSE makers)

(***************************************************************************)
(* resolve_ancestry: an input was made before the record that used it.     *)
(* Told says, of each entity, what it was made of as seen by record        *)
(* `before`, given the same (tree) for the records before that one.        *)
(***************************************************************************)
Told(log, entities, tree, before) ==
  [e \in entities |->
     LET p == Producer(log, e, before)
     IN IF p = 0 THEN <<"ROOT", e>>
        ELSE <<log[p].op, e, [i \in DOMAIN log[p].inputs |-> tree[p][log[p].inputs[i]]]>>]

Entities(log) == UNION {Range(log[i].inputs) : i \in DOMAIN log}

Ancestry(log, entity) ==
  LET tree[before \in 1..(Len(log) + 1)] == Told(log, Entities(log) \cup {entity}, tree, before)
  IN tree[Len(log) + 1][entity]

(***************************************************************************)
(* reachable_indices: the records the lineage of some root goes through,   *)
(* that is the least set with the producers of the roots and of what went  *)
(* into its own records.                                                   *)
(***************************************************************************)
(* Mutant of Reachable: only the last step of each lineage. *)
ReachableOnce(log, roots) == {Producer(log, r, Len(log) + 1) : r \in roots} \ {0}

Reachable(log, roots) ==
  LET Closed(S) ==
        /\ \A r \in roots : Producer(log, r, Len(log) + 1) \in S \cup {0}
        /\ \A j \in S : \A e \in Range(log[j].inputs) : Producer(log, e, j) \in S \cup {0}
  IN {i \in DOMAIN log : \A S \in SUBSET DOMAIN log : Closed(S) => i \in S}

(* live_provenance_roots *)
Roots(datasets) == {Entity(n, datasets[n]) : n \in DOMAIN datasets}

(* prune_before, for a moment when the first `stale` records were made.     *)
Pruned(log, stale, roots) ==
  LET kept == {i \in DOMAIN log : i > stale} \cup Reachable(log, roots)
      upTo[k \in 0..Len(log)] ==
        IF k = 0 THEN <<>> ELSE IF k \in kept THEN Append(upTo[k - 1], log[k]) ELSE upTo[k - 1]
  IN upTo[Len(log)]

(***************************************************************************)
(* record_provenance. What a replayed statement made is recorded unless it *)
(* was before; so is, at any time, what nothing went into.                 *)
(***************************************************************************)
Known(log, record) ==
  \A i \in DOMAIN record.outputs : \E k \in DOMAIN log : Makes(log[k], record.outputs[i].hash)

Skipped(log, record, replaying) == (replaying \/ record.inputs = <<>>) /\ Known(log, record)

Recorded(log, record, replaying) ==
  IF Skipped(log, record, replaying) THEN log ELSE Append(log, record)

(***************************************************************************)
(* Statements that change datasets: INSERT and the like record nothing,    *)
(* DATASET ... FROM (a filter that keeps every row, or not), SEARCH INTO,  *)
(* ALTER DATASET ... ADD COLUMN and DROP DATASET. They are functions of    *)
(* what there is.                                                          *)
(***************************************************************************)
Statements ==
  [op : {"insert", "column", "drop"}, name : Names]
    \cup {s \in [op : {"from", "filter", "search"}, name : Names, source : Names] : s.name # s.source}

Executable(s, datasets) ==
  CASE s.op = "insert" -> TRUE
    [] s.op \in {"column", "drop"} -> s.name \in DOMAIN datasets
    [] s.op \in {"from", "filter"} -> s.source \in DOMAIN datasets /\ s.name \notin DOMAIN datasets
    [] s.op = "search" -> s.source \in DOMAIN datasets

With(datasets, name, hash) == [n \in DOMAIN datasets \cup {name} |-> IF n = name THEN hash ELSE datasets[n]]

After(hash) == (hash % Contents) + 1

Executed(s, datasets) ==
  CASE s.op = "drop" -> Restrict(datasets, DOMAIN datasets \ {s.name})
    [] s.op = "from" -> With(datasets, s.name, datasets[s.source])
    [] s.op \in {"filter", "search"} -> With(datasets, s.name, After(datasets[s.source]))
    [] s.op \in {"insert", "column"} ->
         With(datasets, s.name, IF s.name \in DOMAIN datasets THEN After(datasets[s.name]) ELSE 1)

(* What a statement records, if anything. *)
Silent == {"insert", "drop"}

Made(s, before, after) ==
  LET source == IF s.op = "column" THEN s.name ELSE s.source
  IN [op |-> s.op, inputs |-> <<Entity(source, before[source])>>, outputs |-> <<Entity(s.name, after[s.name])>>]

Root(op, name, hash) == [op |-> op, inputs |-> <<>>, outputs |-> <<Entity(name, hash)>>]

(* Statement s over [live, records]. *)
Done(w, s, replaying) ==
  LET after == Executed(s, w.live)
  IN [live |-> after,
      records |-> IF s.op \in Silent THEN w.records ELSE Recorded(w.records, Made(s, w.live, after), replaying)]

(***************************************************************************)
(* recover_all_from_wal: the checkpoint, with records suppressed, and the  *)
(* logged statements again over what provenance.jsonl has.                 *)
(***************************************************************************)
Recovered(lines) ==
  LET after[k \in 0..Len(logged)] ==
        IF k = 0 THEN [live |-> snapshot, records |-> lines] ELSE Done(after[k - 1], logged[k], TRUE)
  IN after[Len(logged)]

-----------------------------------------------------------------------------
LineageInit ==
  /\ live = <<>> /\ records = <<>> /\ snapshot = <<>> /\ logged = <<>> /\ events = 0

Happens == events < MaxEvents /\ events' = events + 1

Execute(s) ==
  /\ Happens /\ Executable(s, live)
  /\ LET w == Done([live |-> live, records |-> records], s, FALSE)
     IN live' = w.live /\ records' = w.records
  /\ logged' = Append(logged, s)
  /\ UNCHANGED snapshot

(* Memory loads and SAVE DATASET end with a checkpoint. *)
LoadMemory(name, hash) ==
  /\ Happens /\ name \notin DOMAIN live
  /\ live' = With(live, name, hash)
  /\ records' = Recorded(records, Root("load", name, hash), FALSE)
  /\ snapshot' = live' /\ logged' = <<>>

SaveDataset(name) ==
  /\ Happens /\ name \in DOMAIN live
  /\ records' = Recorded(records, Root("save", name, live[name]), FALSE)
  /\ snapshot' = live /\ logged' = <<>>
  /\ UNCHANGED live

Prune(stale) ==
  /\ Happens
  /\ records' = Pruned(records, stale, Roots(live))
  /\ UNCHANGED <<live, snapshot, logged>>

(* The process ends, or dies once s is recorded and before it is logged.   *)
RestartFrom(lines) ==
  /\ Happens
  /\ live' = Recovered(lines).live /\ records' = Recovered(lines).records
  /\ UNCHANGED <<snapshot, logged>>

Restart == RestartFrom(records)

CrashBeforeLogging(s) ==
  /\ Executable(s, live)
  /\ RestartFrom(Done([live |-> live, records |-> records], s, FALSE).records)

LineageNext ==
  \/ \E s \in Statements : Execute(s) \/ CrashBeforeLogging(s)
  \/ \E n \in Names : SaveDataset(n) \/ \E h \in 1..Contents : LoadMemory(n, h)
  \/ \E stale \in 1..Len(records) : Prune(stale)
  \/ Restart

LineageSpec == LineageInit /\ [][LineageNext]_lineageVars
-----------------------------------------------------------------------------
LineageOf(name) == Ancestry(records, Entity(name, live[name]))

(* Whether a record is about the dataset, with what it holds. *)
Traced(name) == \E i \in DOMAIN records : Entity(name, live[name]) \in Range(records[i].outputs)

(***************************************************************************)
(* The lineage of a dataset whose contents stay is changed by nothing but  *)
(* a new record about it: not by PRUNE LINEAGE, which "never removes a     *)
(* record still needed" (docs/DSL_REFERENCE.md:1224), not by a restart,    *)
(* not by another dataset with the same contents. And restarts repeat      *)
(* statements, not records, "so provenance.jsonl doesn't grow on every     *)
(* restart" (engine/db.rs:116): a second one adds nothing.                 *)
(***************************************************************************)
LineageIsKept ==
  [][/\ Restart => Recovered(records').records = records'
     /\ \A n \in DOMAIN live \cap DOMAIN live' :
          live[n] = live'[n] /\ Traced(n) =>
            \/ LineageOf(n)' = LineageOf(n)
            \/ \E s \in Statements : s.name = n /\ (Execute(s) \/ CrashBeforeLogging(s))]_lineageVars
=============================================================================
