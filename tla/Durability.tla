----------------------------- MODULE Durability -----------------------------
(***************************************************************************)
(* Durability of one database with `[wal] enabled = true`, `sync = always`:*)
(* dsl::execute_logged, TensorDb::wal_append, checkpoint, write_checkpoint,*)
(* replay_active and Wal, over the files they leave behind.                *)
(*                                                                         *)
(* The engine runs one mutating statement at a time (it holds &mut         *)
(* TensorDb), so the hard part is not a second thread but the environment: *)
(* the process may die between any two file operations, a file operation   *)
(* may fail, and the external file a LOAD read may change.  Each file      *)
(* operation is a step of its own.                                         *)
(*                                                                         *)
(* Database content is abstracted to the sequence of changes applied to    *)
(* it.  Change [id, ver] is the effect of the id-th executed statement; ver*)
(* is the version of the external file it read, 0 if it read none.  Replay *)
(* of a logged statement applies the same change (statements are           *)
(* deterministic), except that it reads the external file as it is then.   *)
(***************************************************************************)
EXTENDS WalFile, SequencesExt

CONSTANTS
  MaxStatements,    \* bound: mutating statements executed
  MaxCrashes,       \* bound: process crashes
  MaxErrors,        \* bound: file operations that fail
  MaxVersion,       \* bound: versions of the external file
  CheckpointLimit,  \* [wal] checkpoint_bytes, counted in lines
  Faults            \* the environment events of FaultNames that can happen

(* Environment events that are outside what the code defends against; a run *)
(* names the ones it allows.                                                *)
(*   externalEdit        somebody else rewrites the file a LOAD read        *)
(*   recordDespiteError  a failed append has left its whole record behind   *)
(*                       (the write succeeded, the fsync did not)           *)
(*   recordNoNewline     a crash cuts a record just before its newline      *)
(*   reopenError         wal.log is renamed into place, reopening it fails  *)
(*   swapOverOld         the swap that replaces checkpoint.old, when that   *)
(*                       is the only checkpoint, is interrupted             *)
(*   powerLoss           a power loss drops data written without fsync      *)
FaultNames ==
  {"externalEdit", "recordDespiteError", "recordNoNewline", "reopenError",
   "swapOverOld", "powerLoss"}

ASSUME BoundsAssumption ==
  /\ MaxStatements \in Nat
  /\ MaxCrashes \in Nat
  /\ MaxErrors \in Nat
  /\ MaxVersion \in Nat \ {0}
  /\ CheckpointLimit \in Nat
ASSUME FaultsAssumption == Faults \subseteq FaultNames

VARIABLES
  \* files of the database directory
  log,        \* wal.log
  current,    \* checkpoint/
  old,        \* checkpoint.old/
  tmp,        \* checkpoint.tmp/
  package,    \* version of the external file that LOAD reads and SAVE writes
  rewritten,  \* history: who rewrote it since a checkpoint was installed
  \* the running instance
  mem,        \* DatabaseInstance's content
  nextSeq,    \* Wal::next_seq; 0 while `wal` is None
  linked,     \* Wal::file is the file named wal.log
  staleSize,  \* size of Wal::file when it is not
  broken,     \* wal_broken is set
  pc,         \* the next file operation
  reason,     \* why a checkpoint runs: "auto", "command", "save"
  pos,        \* recovery: records of the log already considered
  \* history, and counters for the bounds
  executed,   \* statements executed so far
  promised,   \* content a client was told is safe
  crashes,
  errors

disk == << log, current, old, tmp >>
handle == << nextSeq, linked, staleSize, broken >>
external == << package, rewritten >>
counters == << crashes, errors >>
vars == << log, current, old, tmp, package, rewritten, mem, nextSeq, linked,
           staleSize, broken, pc, reason, pos, executed, promised, crashes,
           errors >>

(* Nobody, somebody else, a SAVE that is being checkpointed, or one whose   *)
(* checkpoint failed or died before it was installed.                       *)
Rewriters == {"nobody", "outside", "save", "cutSave"}

Versions == 1 .. MaxVersion
Change == [id : Nat, ver : Nat]
Content == Seq(Change)
ChangeOf(line) == [id |-> line.id, ver |-> line.ver]

-----------------------------------------------------------------------------
(* Checkpoint directories.  A "partial" one has no manifest.json; a "gutted"*)
(* one has its manifest but not all of the data it lists.                   *)
DirStates == {"absent", "partial", "gutted", "full"}
Dir == [state : DirStates, seq : Nat, content : Content]
Absent == [state |-> "absent", seq |-> 0, content |-> << >>]
Partial == [state |-> "partial", seq |-> 0, content |-> << >>]
Gutted == [state |-> "gutted", seq |-> 0, content |-> << >>]

Exists(dir) == dir.state # "absent"
HasManifest(dir) == dir.state \in {"gutted", "full"}

(* What an interrupted remove_dir_all can leave. *)
Remains(dir) ==
  IF dir.state = "full" THEN {dir, Gutted, Partial, Absent}
  ELSE IF Exists(dir) THEN {dir, Partial, Absent} ELSE {Absent}

Existing ==
  IF HasManifest(current) THEN current
  ELSE IF HasManifest(old) THEN old
  ELSE Absent

(* Mutant of LastOnDisk: the checkpoint's sequence number is ignored.       *)
LastOnDiskLogOnly == LastSeq(log)

LastOnDisk ==
  IF LastSeq(log) > Existing.seq THEN LastSeq(log) ELSE Existing.seq

(* The sequence number the next record gets; ensure_wal_open opens the log  *)
(* behind whatever is on disk.                                              *)
NextSeq == IF nextSeq = 0 THEN LastOnDisk + 1 ELSE nextSeq

(* The content a restart reconstructs: the checkpoint, then the records     *)
(* with a greater sequence number.                                          *)
DurableContent ==
  Existing.content \o
    [n \in 1 .. LastOnDisk - Existing.seq |->
       ChangeOf(RecordAt(log, Existing.seq + n))]

-----------------------------------------------------------------------------
Init ==
  /\ log = EmptyFile
  /\ current = Absent /\ old = Absent /\ tmp = Absent
  /\ package = 1 /\ rewritten = "nobody"
  /\ mem = << >>
  /\ nextSeq = 0 /\ linked = TRUE /\ staleSize = 0 /\ broken = FALSE
  /\ pc = "idle" /\ reason = "none" /\ pos = 0
  /\ executed = 0 /\ promised = << >>
  /\ crashes = 0 /\ errors = 0

(* A mutating statement succeeds in memory: a plain one, or one that reads  *)
(* the external file.  One that fails is not logged and changes nothing.    *)
Execute ==
  /\ pc = "idle"
  /\ ~broken
  /\ executed < MaxStatements
  /\ \E ver \in {0, package} :
       mem' = Append(mem, [id |-> executed + 1, ver |-> ver])
  /\ executed' = executed + 1
  /\ pc' = "append"
  /\ UNCHANGED << disk, external, handle, reason, pos, promised, counters >>

PendingRecord ==
  LET change == Last(mem)
  IN  [seq |-> NextSeq, id |-> change.id, ver |-> change.ver]

(* The log after a write of the pending record that left `what` of it.      *)
LogAfter(what) ==
  IF ~linked THEN log
  ELSE CASE what = "nothing"   -> log
         [] what = "torn"      -> Unterminated(log, Junk)
         [] what = "noNewline" -> Unterminated(log, PendingRecord)
         [] what = "whole"     -> Terminated(log, PendingRecord)

(* Wal::size_bytes, in lines. *)
FileSize ==
  IF linked THEN Len(log.lines) + Len(log.tail) ELSE staleSize

(* Wal::append succeeds.  A log that has outgrown its limit is checkpointed *)
(* before the client gets its answer.                                       *)
AppendRecord ==
  /\ pc = "append"
  /\ log' = LogAfter("whole")
  /\ staleSize' = IF linked THEN 0 ELSE staleSize + 1
  /\ nextSeq' = NextSeq + 1
  /\ \/ /\ FileSize + 1 > CheckpointLimit
        /\ pc' = "clear" /\ reason' = "auto"
        /\ UNCHANGED promised
     \/ /\ FileSize + 1 <= CheckpointLimit
        /\ pc' = "idle" /\ promised' = mem
        /\ UNCHANGED reason
  /\ UNCHANGED << current, old, tmp, external, mem, linked, broken, pos,
                  executed, counters >>

(* Wal::append fails: the statement stays applied, the client gets an error *)
(* and the database refuses mutations until a checkpoint succeeds.          *)
AppendFails ==
  /\ pc = "append"
  /\ errors < MaxErrors
  /\ \E what \in {"nothing", "torn"} \union
                 (IF "recordDespiteError" \in Faults THEN {"whole"} ELSE {}) :
       log' = LogAfter(what)
  /\ nextSeq' = NextSeq
  /\ broken' = TRUE
  /\ pc' = "idle"
  /\ errors' = errors + 1
  /\ UNCHANGED << current, old, tmp, external, mem, linked, staleSize, reason,
                  pos, executed, promised, crashes >>

-----------------------------------------------------------------------------
(* CHECKPOINT, and the checkpoint after a SAVE.                             *)

CheckpointSteps ==
  {"clear", "buffers", "manifest", "removeOld", "rotate", "install",
   "dropOld", "truncate", "reopen"}

(* Mutant of StartCheckpoint: a log that is not open is not opened.         *)
StartCheckpointLogClosed(why) ==
  /\ pc = "idle"
  /\ pc' = "clear"
  /\ reason' = why
  /\ UNCHANGED << disk, mem, handle, pos, executed, promised, counters >>

StartCheckpoint(why) ==
  /\ pc = "idle"
  /\ pc' = "clear"
  /\ reason' = why
  /\ nextSeq' = NextSeq
  /\ UNCHANGED << disk, mem, linked, staleSize, broken, pos, executed,
                  promised, counters >>

CheckpointCommand == StartCheckpoint("command") /\ UNCHANGED external

(* SAVE overwrites the package, then checkpoints. *)
Save ==
  /\ StartCheckpoint("save")
  /\ package' \in Versions
  /\ rewritten' = IF package' = package THEN rewritten ELSE "save"

ClearTmp ==
  /\ pc = "clear"
  /\ tmp' = Absent
  /\ pc' = "buffers"
  /\ UNCHANGED << log, current, old, external, mem, handle, reason, pos,
                  executed, promised, counters >>

WriteBuffers ==
  /\ pc = "buffers"
  /\ tmp' = Partial
  /\ pc' = "manifest"
  /\ UNCHANGED << log, current, old, external, mem, handle, reason, pos,
                  executed, promised, counters >>

(* Mutant of WriteManifest: the manifest claims the record to come.         *)
WriteManifestAhead ==
  /\ pc = "manifest"
  /\ tmp' = [state |-> "full", seq |-> nextSeq, content |-> mem]
  /\ pc' = "removeOld"
  /\ UNCHANGED << log, current, old, external, mem, handle, reason, pos,
                  executed, promised, counters >>

WriteManifest ==
  /\ pc = "manifest"
  /\ tmp' = [state |-> "full", seq |-> nextSeq - 1, content |-> mem]
  /\ pc' = "removeOld"
  /\ UNCHANGED << log, current, old, external, mem, handle, reason, pos,
                  executed, promised, counters >>

(* checkpoint.old is all there is: an earlier swap was interrupted. *)
OnlyOld == HasManifest(old) /\ ~HasManifest(current)

RemoveOld ==
  /\ pc = "removeOld"
  /\ OnlyOld => "swapOverOld" \in Faults
  /\ old' = Absent
  /\ pc' = "rotate"
  /\ UNCHANGED << log, current, tmp, external, mem, handle, reason, pos,
                  executed, promised, counters >>

(* The swap over the only checkpoint, when nothing interrupts it: remove    *)
(* checkpoint.old, skip the rotation, rename checkpoint.tmp.                *)
ReplaceOnlyCheckpoint ==
  /\ pc = "removeOld"
  /\ OnlyOld /\ "swapOverOld" \notin Faults
  /\ old' = Absent
  /\ current' = tmp
  /\ tmp' = Absent
  /\ rewritten' = "nobody"
  /\ pc' = "dropOld"
  /\ UNCHANGED << log, package, mem, handle, reason, pos, executed, promised,
                  counters >>

Rotate ==
  /\ pc = "rotate"
  /\ \/ /\ Exists(current)
        /\ old' = current /\ current' = Absent
     \/ /\ ~Exists(current)
        /\ UNCHANGED << old, current >>
  /\ pc' = "install"
  /\ UNCHANGED << log, tmp, external, mem, handle, reason, pos, executed,
                  promised, counters >>

Install ==
  /\ pc = "install"
  /\ current' = tmp
  /\ tmp' = Absent
  /\ rewritten' = "nobody"
  /\ pc' = "dropOld"
  /\ UNCHANGED << log, old, package, mem, handle, reason, pos, executed,
                  promised, counters >>

(* Best effort: an error here is ignored. *)
DropOld ==
  /\ pc = "dropOld"
  /\ old' \in Remains(old)
  /\ pc' = "truncate"
  /\ UNCHANGED << log, current, tmp, external, mem, handle, reason, pos,
                  executed, promised, counters >>

(* An empty log.new is renamed over wal.log; the open file is still the one *)
(* that had the name before.                                                *)
TruncateLog ==
  /\ pc = "truncate"
  /\ log' = EmptyFile
  /\ staleSize' = FileSize
  /\ linked' = FALSE
  /\ pc' = "reopen"
  /\ UNCHANGED << current, old, tmp, external, mem, nextSeq, broken, reason,
                  pos, executed, promised, counters >>

ReopenLog ==
  /\ pc = "reopen"
  /\ linked' = TRUE
  /\ staleSize' = 0
  /\ broken' = FALSE
  /\ pc' = "idle"
  /\ reason' = "none"
  /\ promised' = mem
  /\ UNCHANGED << disk, external, mem, nextSeq, pos, executed, counters >>

(* A SAVE in progress ends before its checkpoint is installed. *)
CutSave == IF reason = "save" /\ rewritten = "save" THEN "cutSave" ELSE rewritten

(* Any of these operations fails.  CHECKPOINT and SAVE report the error; an *)
(* automatic checkpoint only warns, and its statement succeeds.             *)
CheckpointFails ==
  /\ pc \in CheckpointSteps \ {"dropOld"}
  /\ pc = "reopen" => "reopenError" \in Faults
  /\ errors < MaxErrors
  /\ old' \in IF pc = "removeOld" /\ (OnlyOld => "swapOverOld" \in Faults)
              THEN Remains(old) ELSE {old}
  /\ pc' = "idle"
  /\ reason' = "none"
  /\ promised' = IF reason = "auto" THEN mem ELSE promised
  /\ rewritten' = CutSave
  /\ errors' = errors + 1
  /\ UNCHANGED << log, current, tmp, package, mem, handle, pos, executed,
                  crashes >>

-----------------------------------------------------------------------------
(* The process dies, at any point.                                          *)

LosesMemory ==
  /\ mem' = << >>
  /\ nextSeq' = 0 /\ linked' = TRUE /\ staleSize' = 0 /\ broken' = FALSE
  /\ pc' = "down" /\ reason' = "none" /\ pos' = 0
  /\ rewritten' = CutSave
  /\ crashes' = crashes + 1
  /\ UNCHANGED << package, executed, promised, errors >>

(* What a power loss leaves of a checkpoint: its manifest was fsynced, and   *)
(* the file system is taken to keep directory operations in their order; its*)
(* buffers and datasets never were.                                         *)
Survives(dir) ==
  IF "powerLoss" \in Faults /\ dir.state = "full" THEN {dir, Gutted} ELSE {dir}

Crash ==
  /\ pc \notin {"down", "refused"}
  /\ crashes < MaxCrashes
  /\ \E what \in
       IF pc # "append" THEN {"nothing"}
       ELSE {"nothing", "torn", "whole"} \union
            (IF "recordNoNewline" \in Faults THEN {"noNewline"} ELSE {}) :
       log' = LogAfter(what)
  /\ current' \in Survives(current)
  /\ old' \in Survives(old) \union
             (IF \/ pc = "dropOld"
                 \/ pc = "removeOld" /\ (OnlyOld => "swapOverOld" \in Faults)
              THEN Remains(old) ELSE {})
  /\ LosesMemory
  /\ UNCHANGED tmp

ExternalEdit ==
  /\ "externalEdit" \in Faults
  /\ package' \in Versions \ {package}
  /\ rewritten' = "outside"
  /\ UNCHANGED << disk, mem, handle, pc, reason, pos, executed, promised,
                  counters >>

-----------------------------------------------------------------------------
(* Startup recovery.                                                        *)

Refuse ==
  /\ pc' = "refused"
  /\ mem' = << >>
  /\ pos' = 0
  /\ UNCHANGED << nextSeq, linked, staleSize, broken, reason, external,
                  executed, promised, crashes >>

(* restore_checkpoint *)
Restore ==
  /\ pc = "down"
  /\ \/ /\ Existing.state = "gutted"
        /\ Refuse
     \/ /\ Existing.state # "gutted"
        /\ mem' = Existing.content
        /\ pc' = "read"
        /\ UNCHANGED << external, handle, reason, pos, executed, promised,
                        crashes >>
  /\ UNCHANGED << disk, errors >>

(* read_records, and rewrite if it dropped a truncated last record. *)
ReadLog ==
  /\ pc = "read"
  /\ \/ /\ ~Readable(log)
        /\ Refuse
        /\ UNCHANGED log
     \/ /\ Readable(log)
        /\ log' = IF EndsInJunk(log) THEN Rewritten(log) ELSE log
        /\ pc' = "replay"
        /\ UNCHANGED << external, mem, handle, reason, pos, executed, promised,
                        crashes >>
  /\ UNCHANGED << current, old, tmp, errors >>

(* Mutant of InCheckpoint: an off-by-one in the comparison. *)
InCheckpointStrict(record) == record.seq < Existing.seq

(* The record is already reflected in the checkpoint. *)
InCheckpoint(record) == record.seq <= Existing.seq

(* What the logged statement does when it is executed again.               *)
Reexecuted(record) ==
  [id |-> record.id, ver |-> IF record.ver = 0 THEN 0 ELSE package]

(* Mutant of FileChanged: the fingerprint is not compared.                  *)
FileChangedIgnored(record) == FALSE

(* The fingerprint of what the statement loads is not the recorded one.     *)
FileChanged(record) == Reexecuted(record) # ChangeOf(record)

(* Mutant of ReplayRecord: the loop does not get past a record it skips.    *)
ReplayRecordStuck ==
  /\ pc = "replay"
  /\ pos < Len(Records(log))
  /\ LET record == Records(log)[pos + 1]
     IN  /\ ~InCheckpoint(record)
         /\ mem' = Append(mem, Reexecuted(record))
         /\ pos' = pos + 1
  /\ UNCHANGED << disk, external, handle, pc, reason, executed, promised,
                  counters >>

ReplayRecord ==
  /\ pc = "replay"
  /\ pos < Len(Records(log))
  /\ LET record == Records(log)[pos + 1]
     IN  \/ /\ ~InCheckpoint(record) /\ FileChanged(record)
            /\ Refuse
         \/ /\ ~InCheckpoint(record) /\ ~FileChanged(record)
            /\ mem' = Append(mem, Reexecuted(record))
            /\ pos' = pos + 1
            /\ UNCHANGED << external, handle, pc, reason, executed, promised,
                            crashes >>
         \/ /\ InCheckpoint(record)
            /\ pos' = pos + 1
            /\ UNCHANGED << external, mem, handle, pc, reason, executed,
                            promised, crashes >>
  /\ UNCHANGED << disk, errors >>

(* Wal::open behind the last record. *)
FinishRecovery ==
  /\ pc = "replay"
  /\ pos = Len(Records(log))
  /\ nextSeq' = LastOnDisk + 1
  /\ pos' = 0
  /\ pc' = "idle"
  /\ UNCHANGED << disk, external, mem, linked, staleSize, broken, reason,
                  executed, promised, counters >>

(* A file operation of recovery fails. *)
RecoveryFails ==
  /\ pc \in {"down", "read", "replay"}
  /\ errors < MaxErrors
  /\ errors' = errors + 1
  /\ Refuse
  /\ UNCHANGED disk

(* The operator starts the engine again. *)
Restart ==
  /\ pc = "refused"
  /\ pc' = "down"
  /\ UNCHANGED << disk, external, mem, handle, reason, pos, executed, promised,
                  counters >>

-----------------------------------------------------------------------------
(* What the engine does by itself once it has begun. *)
EngineStep ==
  \/ AppendRecord \/ ClearTmp \/ WriteBuffers \/ WriteManifest \/ RemoveOld
  \/ ReplaceOnlyCheckpoint \/ Rotate \/ Install \/ DropOld \/ TruncateLog
  \/ ReopenLog \/ Restore \/ ReadLog \/ ReplayRecord \/ FinishRecovery

Next ==
  \/ EngineStep
  \/ Execute \/ CheckpointCommand \/ Save \/ Restart
  \/ AppendFails \/ CheckpointFails \/ RecoveryFails
  \/ Crash \/ ExternalEdit

Spec == Init /\ [][Next]_vars

(* The engine is not suspended for ever in the middle of a statement or of  *)
(* recovery.  Nothing is assumed of clients or of the environment.          *)
FairSpec == Spec /\ WF_vars(EngineStep)

-----------------------------------------------------------------------------
TypeOK ==
  /\ log \in [lines : Seq(Line), tail : Seq(Line)]
  /\ current \in Dir /\ old \in Dir /\ tmp \in Dir
  /\ package \in Versions /\ rewritten \in Rewriters
  /\ mem \in Content /\ promised \in Content
  /\ nextSeq \in Nat /\ staleSize \in Nat
  /\ linked \in BOOLEAN /\ broken \in BOOLEAN
  /\ pc \in {"idle", "append", "down", "read", "replay", "refused"} \union
            CheckpointSteps
  /\ reason \in {"none", "auto", "command", "save"}
  /\ pos \in Nat /\ executed \in Nat /\ crashes \in Nat /\ errors \in Nat

(* A database that serves requests shows everything a client was told is    *)
(* safe, unchanged and in order, however often the process died meanwhile   *)
(* (replay_active).                                                         *)
PromisedServed == pc = "idle" => IsPrefix(promised, mem)

(* No statement's effect is ever in the database twice: a record is not     *)
(* replayed over a checkpoint that has it (replay_active's seq test).       *)
AppliedOnce ==
  \A i, j \in 1 .. Len(mem) : i < j => mem[i].id < mem[j].id

(* Between statements a restart would bring back exactly what the database  *)
(* shows; after a failed append, all but the one statement the client was   *)
(* told about (wal_append, checkpoint).                                     *)
IdleIsDurable ==
  pc = "idle" => \/ DurableContent = mem
                 \/ broken /\ DurableContent = Front(mem)

(* Recovery gives up only when a file operation fails, or when a statement  *)
(* that is not in the checkpoint read a file that has been rewritten since: *)
(* by somebody else, or by a SAVE of the engine whose checkpoint failed or  *)
(* died. Nothing else the engine leaves behind stops it (read_records,      *)
(* replay_active, wal_checkpoint_after).                                    *)
RefusalJustified ==
  [][pc # "refused" /\ pc' = "refused" =>
       \/ errors' > errors
       \/ /\ rewritten \in {"outside", "cutSave"}
          /\ \E i \in DOMAIN Records(log) :
               ~InCheckpoint(Records(log)[i]) /\ FileChanged(Records(log)[i])]_vars

(* Every checkpoint, statement and recovery that starts comes to an end,    *)
(* though each step of it may be cut by an error or a crash.                *)
Settles == pc \notin {"idle", "refused"} ~> pc \in {"idle", "refused"}

Serving == pc \notin {"down", "read", "replay", "refused"}

Store == INSTANCE DurableStore WITH
  durable <- DurableContent,
  view    <- IF Serving THEN mem ELSE << >>,
  status  <- IF Serving THEN "serving"
             ELSE IF pc = "refused" THEN "refused" ELSE "recovering"

(* The log, the checkpoints and recovery together keep what the store       *)
(* promises (DurableStore).                                                 *)
ImplementsStore == Store!Spec
=============================================================================
