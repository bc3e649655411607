------------------------------- MODULE Replay -------------------------------
(***************************************************************************)
(* The promise of the logical log: a restart restores every database's     *)
(* checkpoint and re-executes the statements logged since, and the result  *)
(* is what was in memory.  Module Durability has statements whose effect   *)
(* is given; here they are executed (module Instance), in a process with   *)
(* several databases and one registry of pipelines.                        *)
(*                                                                         *)
(* Appends, checkpoints and restarts succeed and are atomic here (crashes  *)
(* and file errors are Durability's subject), no statement reads a file.   *)
(***************************************************************************)
EXTENDS Instance, SequencesExt

CONSTANTS
  DbOrder,      \* the databases, in the order of their names
  Statements,   \* database -> the statements clients send to it (bound)
  MaxLogged     \* bound: statements logged in all

Databases == ToSet(DbOrder)

ASSUME DbOrderAssumption ==
  DbOrder \in Seq(Databases) /\ DbOrder # << >> /\ IsInjective(DbOrder)
ASSUME StatementsAssumption ==
  /\ Databases \subseteq DOMAIN Statements
  /\ \A d \in Databases : \A s \in Statements[d] : s.op \in Operations
ASSUME MaxLoggedAssumption == MaxLogged \in Nat

VARIABLES
  mem,      \* TensorDb::databases: database -> its instance
  pipes,    \* PipelineRegistry: pipeline -> its steps, for all databases
  disk,     \* database -> checkpoint/ and wal.log
  failed,   \* databases with a recovery_error
  logged,   \* how many statements were logged
  shown,    \* history: databases where SHOW materialized a lazy tensor that
            \* the checkpoint or the log still has as a lazy one
  astray,   \* history: database -> why its log cannot tell its content
  pipers    \* history: databases that ever logged a statement about pipelines
            \* or kept one in a checkpoint

vars == << mem, pipes, disk, failed, logged, shown, astray, pipers >>

(* Mutant of Snapshot: lazy tensors hold nothing to save.                   *)
SnapshotWithoutLazy(inst) ==
  [ store |-> inst.store, names |-> inst.names, lazy |-> Nothing,
    tensorDatasets |-> inst.tensorDatasets, vars |-> inst.vars, records |-> inst.records ]

(* write_checkpoint and restore_checkpoint.  Ids are kept, so that names    *)
(* which share a tensor still share it.                                     *)
Snapshot(inst) ==
  [ store |-> inst.store, names |-> inst.names, lazy |-> inst.lazy,
    tensorDatasets |-> inst.tensorDatasets, vars |-> inst.vars, records |-> inst.records ]

(* Mutant of Restored: tensors are restored name by name.                   *)
RestoredApart(checkpoint) ==
  LET order == SetToSeq(DOMAIN checkpoint.names)
      normal == {i \in DOMAIN order : checkpoint.names[order[i]].kind = "normal"}
      Own(i) == 100 + i
      own == [id \in {Own(i) : i \in normal} |->
                checkpoint.store[checkpoint.names[order[id - 100]].id]]
      names == [name \in DOMAIN checkpoint.names |->
                  IF checkpoint.names[name].kind = "normal"
                  THEN [id |-> Own(CHOOSE i \in normal : order[i] = name), kind |-> "normal"]
                  ELSE checkpoint.names[name]]
  IN [ NewInstance EXCEPT !.store = Over(own, checkpoint.store), !.names = names,
                          !.lazy = checkpoint.lazy,
                          !.tensorDatasets = checkpoint.tensorDatasets,
                          !.vars = checkpoint.vars, !.records = checkpoint.records ]

Restored(checkpoint) ==
  [ NewInstance EXCEPT !.store = checkpoint.store, !.names = checkpoint.names,
                       !.lazy = checkpoint.lazy,
                       !.tensorDatasets = checkpoint.tensorDatasets,
                       !.vars = checkpoint.vars, !.records = checkpoint.records ]

NewDisk == [checkpoint |-> Snapshot(NewInstance), pipes |-> Nothing, log |-> << >>]

(* What replaying one more record makes of a replay so far: the first that  *)
(* fails ends it.                                                           *)
Redone(done, s) == IF done.ok THEN Execute(done.inst, done.pipes, s) ELSE done

(* replay_active: the checkpoint's pipelines go into the session's registry *)
(* over what is there, then the log is executed.                            *)
Replayed(dir, registry) ==
  LET done[n \in 0 .. Len(dir.log)] ==
        IF n = 0 THEN Ok(Restored(dir.checkpoint), Over(dir.pipes, registry))
        ELSE Redone(done[n - 1], dir.log[n])
  IN done[Len(dir.log)]

(* recover_all_from_wal: one database after the other, over the registry    *)
(* that the ones before it leave.                                           *)
Joined(done, d) ==
  LET result == Replayed(disk[d], done.pipes)
  IN [ mem |-> With(done.mem, d, result.inst), pipes |-> result.pipes,
       failed |-> IF result.ok THEN done.failed ELSE done.failed \cup {d} ]

Recovered ==
  LET done[n \in 0 .. Len(DbOrder)] ==
        IF n = 0 THEN [mem |-> Nothing, pipes |-> Nothing, failed |-> {}]
        ELSE Joined(done[n - 1], DbOrder[n])
  IN done[Len(DbOrder)]

-----------------------------------------------------------------------------
Init ==
  /\ mem = [d \in Databases |-> NewInstance]
  /\ pipes = Nothing
  /\ disk = [d \in Databases |-> NewDisk]
  /\ failed = {} /\ logged = 0
  /\ shown = {} /\ astray = [d \in Databases |-> {}] /\ pipers = {}

Serves(d) == d \notin failed

\* execute_logged: a mutating statement that succeeds is appended
Mutate(d, s, result) ==
  /\ IsMutating(s) /\ logged < MaxLogged /\ result.ok
  /\ mem' = [mem EXCEPT ![d] = result.inst]
  /\ pipes' = result.pipes
  /\ disk' = [disk EXCEPT ![d].log = Append(@, s)]
  /\ logged' = logged + 1
  /\ astray' = [astray EXCEPT ![d] = @ \cup (IF d \in shown THEN {"shown"} ELSE {})]
  /\ pipers' = IF s.op \in PipelineOps THEN pipers \cup {d} ELSE pipers
  /\ UNCHANGED << failed, shown >>

\* ... one that fails is not, whatever it has changed
Fail(d, s, result) ==
  /\ ~result.ok
  /\ mem' = [mem EXCEPT ![d] = result.inst]
  /\ pipes' = result.pipes
  /\ astray' = [astray EXCEPT ![d] = @ \cup
                  (IF result.inst # mem[d] /\ IsMutating(s) THEN {"failed"} ELSE {})]
  /\ UNCHANGED << disk, failed, logged, shown, pipers >>

\* SHOW is not logged either: it materializes a lazy tensor "as a cache"
Read(d, s, result) ==
  /\ ~IsMutating(s) /\ result.ok
  /\ mem' = [mem EXCEPT ![d] = result.inst]
  /\ shown' = IF result.inst # mem[d] THEN shown \cup {d} ELSE shown
  /\ UNCHANGED << pipes, disk, failed, logged, astray, pipers >>

Submit(d, s) ==
  LET result == Execute(mem[d], pipes, s)
  IN Serves(d) /\ (Mutate(d, s, result) \/ Fail(d, s, result) \/ Read(d, s, result))

\* CHECKPOINT: the pipelines of the session go with every database
Checkpoint(d) ==
  /\ Serves(d)
  /\ disk' = [disk EXCEPT ![d] =
                [checkpoint |-> Snapshot(mem[d]), pipes |-> pipes, log |-> << >>]]
  /\ astray' = [astray EXCEPT ![d] = {}]
  /\ shown' = shown \ {d}
  /\ pipers' = IF pipes = Nothing THEN pipers ELSE pipers \cup {d}
  /\ UNCHANGED << mem, pipes, failed, logged >>

Restart ==
  LET recovered == Recovered
  IN /\ mem' = recovered.mem /\ pipes' = recovered.pipes /\ failed' = recovered.failed
     /\ astray' = [d \in Databases |-> IF d \in recovered.failed THEN astray[d] ELSE {}]
     /\ shown' = {}
     /\ UNCHANGED << disk, logged, pipers >>

Next ==
  \/ \E d \in Databases :
       \/ \E s \in Statements[d] : Submit(d, s)
       \/ Checkpoint(d)
  \/ Restart

Spec == Init /\ [][Next]_vars

(* Names sharing a tensor, which a restart may not tear apart.              *)
Sharing(inst) ==
  {p \in (DOMAIN inst.names) \X (DOMAIN inst.names) : inst.names[p[1]].id = inst.names[p[2]].id}

Rebuilds(d, recovered) ==
  /\ d \notin recovered.failed
  /\ NamesResolve(recovered.mem[d]) /\ Content(recovered.mem[d]) = Content(mem[d])

\* No other database's log or checkpoint has to do with the pipelines of d's
Alone(d) == d \in pipers => pipers = {d}

(* Restarting changes nothing a client can see: the checkpoint and the log  *)
(* of a database rebuild its content, whatever statements were executed in  *)
(* whatever order, with a checkpoint anywhere between them -- as long as no *)
(* failed statement left something behind, nothing was derived from a lazy  *)
(* tensor once SHOW had materialized it, and no other database shares its   *)
(* pipelines.                                                               *)
RestartChangesNothing ==
  LET recovered == Recovered
  IN \A d \in Databases \ failed : (astray[d] = {} /\ Alone(d)) => Rebuilds(d, recovered)

(* "SHOW <lazy tensor> materializes a lazy tensor as a cache, not a logical *)
(* change" (ast.rs): the same claim with SHOW allowed anywhere.             *)
ShowIsACache ==
  LET recovered == Recovered
  IN \A d \in Databases \ failed :
       (astray[d] \subseteq {"shown"} /\ Alone(d)) => Rebuilds(d, recovered)

(* "Aliases stay aliases" across a checkpoint and a replay.                 *)
AliasesStay ==
  LET recovered == Recovered
  IN \A d \in Databases \ failed :
       (astray[d] = {} /\ Alone(d) /\ d \notin shown) =>
         Sharing(recovered.mem[d]) = Sharing(mem[d])

(* No name leads nowhere: a lazy one has its expression, any other one its  *)
(* tensor, and AUDIT finds the columns of every tensor-first dataset among  *)
(* the tensors of the database -- in memory, hence in every checkpoint      *)
(* taken, and after restarts and resets too.                                *)
NoNameDangles ==
  \A d \in Databases \ failed :
    /\ NamesResolve(mem[d])
    /\ \A ds \in DOMAIN mem[d].tensorDatasets : Resolves(mem[d], mem[d].tensorDatasets[ds])
=============================================================================
