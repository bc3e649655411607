---------------------------- MODULE SharedEngine ----------------------------
(***************************************************************************)
(* `linal serve`: server::engine::SharedEngine under concurrent requests.  *)
(* Every request runs on a blocking thread of its own.  The catalog (which *)
(* databases exist), the server's active database and each database's      *)
(* engine have their own locks, and DROP works on the directory with none  *)
(* of them held.  A step is what a thread does under one lock, or one      *)
(* operation on a directory.                                               *)
(*                                                                         *)
(* `[wal] enabled = true`, `sync = always`, no checkpoint: a database's    *)
(* directory holds its wal.log only (crashes inside an append or a         *)
(* checkpoint are module Durability's subject).  Statements are catalog    *)
(* statements, reads (can_execute_shared) and writes (is_mutating).  The   *)
(* configured default_db is "default".                                     *)
(***************************************************************************)
EXTENDS Integers, Sequences, FiniteSets, SequencesExt

CONSTANTS
  Databases,     \* database names
  Default,       \* "default"
  NoDb,          \* no name: a headerless request, a statement without one
  Requests,      \* requests, batches, jobs and task launches (bound)
  Plans,         \* what each request may ask for (bound)
  MaxPanics,     \* bound: statements that panic
  MaxRestarts    \* bound: deaths of the server process

Names == Databases \cup {NoDb}
Sessions == {"server", "pinned", "following", "task"}
Statements == [op : {"create", "drop", "use", "read", "write"}, db : Names]

Plan == [session : Sessions, db : Names, batch : BOOLEAN, script : Seq(Statements)]

ASSUME NamesAssumption ==
  /\ IsFiniteSet(Databases)
  /\ Default \in Databases /\ NoDb \notin Databases
ASSUME PlansAssumption ==
  /\ Plans \in [Requests -> SUBSET Plan]
  /\ \A p \in UNION {Plans[r] : r \in Requests} :
       /\ p.script # << >> /\ (p.batch \/ Len(p.script) = 1)
       /\ \A i \in DOMAIN p.script :
            p.script[i].op \in {"create", "drop", "use"} => p.script[i].db \in Databases
       \* reject_use_with_header; a batch may switch databases
       /\ ~(p.session = "pinned" /\ p.db # NoDb /\ ~p.batch /\ p.script[1].op = "use")
ASSUME BoundsAssumption == MaxPanics \in Nat /\ MaxRestarts \in Nat

VARIABLES
  dbs,       \* SharedEngine::dbs: name -> index into engines, 0 if absent
  active,    \* SharedEngine::server_active
  engines,   \* every per-database TensorDb created since the start
  disk,      \* name -> its directory under data_dir
  req,       \* what each request has done so far
  panics, restarts,
  raced,     \* history: names whose DROP overlapped a CREATE or a statement
  strayed    \* history: names a USE made active after they were dropped

vars == << dbs, active, engines, disk, req, panics, restarts, raced, strayed >>

(* One executed statement: who ran it, and at which statement of its script *)
(* it took the lock under which it ran.                                     *)
Event == [by : Requests, hold : Nat, op : {"read", "write"}]
Record == [seq : Nat, event : Event]

(* A directory: wal.log is a file of its own, with its records.             *)
Directory == [exists : BOOLEAN, file : BOOLEAN, log : Seq(Record)]
NoDirectory == [exists |-> FALSE, file |-> FALSE, log |-> << >>]
EmptyDirectory == [exists |-> TRUE, file |-> TRUE, log |-> << >>]

(* next is Wal::next_seq, 0 while `wal` is None; linked says that Wal::file *)
(* still has a name.                                                        *)
Engine == [db : Databases, ran : Seq(Event), next : Nat, linked : BOOLEAN,
           status : {"ok", "broken", "failed"}, poisoned : BOOLEAN]

Steps == {"arriving", "task", "taskUse", "next", "use", "lookup", "lock", "read",
          "run", "dropActive", "dropWait", "dropFiles", "dropDir", "done"}
Request == [step : Steps, plan : Plan, session : Sessions, db : Names,
            at : Nat, target : Names, engine : Nat, hold : Nat,
            answer : {"none", "ok", "error"}]

Registered == {d \in Databases : dbs[d] # 0}

(* SelectSeq of the writes, as a function on Nat that can be proved about.  *)
Writes(events) ==
  LET kept[n \in 0 .. Len(events)] ==
        IF n = 0 THEN << >>
        ELSE IF events[n].op = "write"
               THEN Append(kept[n - 1], events[n]) ELSE kept[n - 1]
  IN kept[Len(events)]

-----------------------------------------------------------------------------
(* The log on disk, as ensure_wal_open and recovery read it.                *)
Readable(log) == \A i \in 2 .. Len(log) : log[i].seq = log[i - 1].seq + 1
LastSeq(log) == IF log = << >> THEN 0 ELSE Last(log).seq
Logged(d) == [i \in 1 .. Len(disk[d].log) |-> disk[d].log[i].event]

(* TensorDb::from_instance of a fresh instance.                             *)
FreshEngine(d) ==
  [db |-> d, ran |-> << >>, next |-> 0, linked |-> TRUE, status |-> "ok",
   poisoned |-> FALSE]

(* Mutant of RecoveredEngine: the next record gets the last one's number.   *)
RecoveredEngineRepeats(d) ==
  [FreshEngine(d) EXCEPT !.ran = Logged(d), !.next = LastSeq(disk[d].log)]

(* What recover_all_from_wal makes of a directory; it opens every log it can *)
(* read, which creates the missing ones.                                     *)
RecoveredEngine(d) ==
  IF Readable(disk[d].log)
    THEN [FreshEngine(d) EXCEPT !.ran = Logged(d),
                                !.next = LastSeq(disk[d].log) + 1]
    ELSE [FreshEngine(d) EXCEPT !.status = "failed"]

RecoveredDirectory(d) ==
  IF Readable(disk[d].log)
    THEN [disk[d] EXCEPT !.exists = TRUE, !.file = TRUE] ELSE disk[d]

(* A directory per database, and `default` in any case.                     *)
Found == {d \in Databases : disk[d].exists} \cup {Default}

(* Which engine serves which database, from_tensor_db.                      *)
EnginesOf(names) ==
  LET order == SetToSeq(names) IN [i \in DOMAIN order |-> RecoveredEngine(order[i])]
DbsOf(names) ==
  LET order == SetToSeq(names)
  IN [d \in Databases |->
       IF d \in names THEN CHOOSE i \in DOMAIN order : order[i] = d ELSE 0]

NewRequest(plan) ==
  [step |-> "arriving", plan |-> plan, session |-> plan.session,
   db |-> plan.db, at |-> 1, target |-> NoDb, engine |-> 0, hold |-> 0, answer |-> "none"]

(* The server has started on a data directory with some databases in it.    *)
Init ==
  /\ disk \in {[d \in Databases |-> IF d \in found THEN EmptyDirectory ELSE NoDirectory] :
               found \in {s \in SUBSET Databases : Default \in s}}
  /\ engines = EnginesOf(Found) /\ dbs = DbsOf(Found) /\ active = Default
  /\ req \in {f \in [Requests -> {NewRequest(p) : p \in UNION {Plans[r] : r \in Requests}}] :
              \A r \in Requests : f[r].plan \in Plans[r]}
  /\ panics = 0 /\ restarts = 0 /\ raced = {} /\ strayed = {}

-----------------------------------------------------------------------------
(* A request's progress.                                                    *)
Go(r, q) == req' = [req EXCEPT ![r] = q]
At(r, step) == req[r].step = step
To(r, step) == [req[r] EXCEPT !.step = step]
Stmt(r) == req[r].plan.script[req[r].at]
Answered(r, answer) == [req[r] EXCEPT !.step = "done", !.answer = answer]
Failed(r) == Answered(r, "error")

IsCatalog(stmt) == stmt.op \in {"create", "drop", "use"}

(* The statement succeeded; `session` is the session's database from now on. *)
Succeeded(r, db) ==
  IF req[r].at = Len(req[r].plan.script)
    THEN Answered(r, "ok")
    ELSE [req[r] EXCEPT !.step = "next", !.at = @ + 1, !.db = db]

(* The session a handler builds: pinned to the header's database, or to the *)
(* active one (a job); following the active one (a batch); the server's.    *)
Arrive(r) ==
  /\ At(r, "arriving")
  /\ Go(r, CASE req[r].session = "task" -> To(r, "task")
             [] req[r].session \in {"pinned", "following"} /\ req[r].db = NoDb ->
                  [To(r, "next") EXCEPT !.db = active]
             [] OTHER -> To(r, "next"))
  /\ UNCHANGED << dbs, active, engines, disk, panics, restarts, raced, strayed >>

(* A scheduled task makes its target_db the server's, and then follows it;  *)
(* without one, or with an unknown one, it runs on the server's session.    *)
LaunchTask(r) ==
  /\ At(r, "task")
  /\ Go(r, IF req[r].db \in Registered
             THEN To(r, "taskUse")
             ELSE [To(r, "next") EXCEPT !.session = "server", !.db = NoDb])
  /\ UNCHANGED << dbs, active, engines, disk, panics, restarts, raced, strayed >>

(* The server's active database becomes d; nothing rechecks that d exists.  *)
MakeActive(d) ==
  /\ active' = d
  /\ strayed' = IF d \in Registered THEN strayed ELSE strayed \cup {d}

TaskUse(r) ==
  /\ At(r, "taskUse")
  /\ MakeActive(req[r].db)
  /\ Go(r, [To(r, "next") EXCEPT !.session = "following"])
  /\ UNCHANGED << dbs, engines, disk, panics, restarts, raced >>

-----------------------------------------------------------------------------
(* Catalog statements.                                                      *)

(* create_database, under the catalog's write lock.                         *)
Dropping(d) ==
  {r \in Requests : /\ req[r].step \in {"dropActive", "dropWait", "dropFiles", "dropDir"}
                    /\ Stmt(r).db = d}

Create(r) ==
  /\ At(r, "next") /\ Stmt(r).op = "create"
  /\ LET d == Stmt(r).db IN
     IF d \in Registered
       THEN /\ Go(r, Failed(r))
            /\ UNCHANGED << dbs, engines, disk, raced >>
       ELSE /\ engines' = Append(engines, FreshEngine(d))
            /\ dbs' = [dbs EXCEPT ![d] = Len(engines) + 1]
            /\ disk' = [disk EXCEPT ![d].exists = TRUE]
            /\ raced' = IF disk[d].exists \/ Dropping(d) # {}
                          THEN raced \cup {d} ELSE raced
            /\ Go(r, Succeeded(r, req[r].db))
  /\ UNCHANGED << active, panics, restarts, strayed >>

(* drop_database: out of the catalog ...                                    *)
DropRemove(r) ==
  /\ At(r, "next") /\ Stmt(r).op = "drop"
  /\ LET d == Stmt(r).db IN
     IF d = Default \/ d \notin Registered
       THEN Go(r, Failed(r)) /\ UNCHANGED dbs
       ELSE /\ dbs' = [dbs EXCEPT ![d] = 0]
            /\ Go(r, [To(r, "dropActive") EXCEPT !.engine = dbs[d]])
  /\ UNCHANGED << active, engines, disk, panics, restarts, raced, strayed >>

(* Mutant of DropActive: the server stays on the dropped database.          *)
DropActiveSkipped(r) ==
  /\ At(r, "dropActive")
  /\ Go(r, To(r, "dropWait"))
  /\ UNCHANGED << dbs, active, engines, disk, panics, restarts, raced, strayed >>

(* ... out of server_active ...                                             *)
DropActive(r) ==
  /\ At(r, "dropActive")
  /\ active' = IF active = Stmt(r).db THEN Default ELSE active
  /\ Go(r, To(r, "dropWait"))
  /\ UNCHANGED << dbs, engines, disk, panics, restarts, raced, strayed >>

(* Mutant of Holders: a statement that fails never releases its lock.       *)
HoldersOfFailed(e) ==
  {r \in Requests : req[r].engine = e /\ (req[r].step \in {"read", "run"} \/ req[r].answer = "error")}

(* ... waiting for whoever holds the engine's lock; a poisoned one panics.  *)
Holders(e) ==
  {r \in Requests : req[r].engine = e /\ req[r].step \in {"read", "run"}}

(* Mutant of DropWait: it does not wait.                                    *)
DropWaitNot(r) ==
  /\ At(r, "dropWait")
  /\ Go(r, To(r, "dropFiles"))
  /\ UNCHANGED << dbs, active, engines, disk, panics, restarts, raced, strayed >>

DropWait(r) ==
  /\ At(r, "dropWait")
  /\ IF engines[req[r].engine].poisoned
       THEN Go(r, Failed(r)) /\ raced' = raced \cup {Stmt(r).db}
       ELSE /\ Holders(req[r].engine) = {}
            /\ Go(r, To(r, "dropFiles"))
            /\ UNCHANGED raced
  /\ UNCHANGED << dbs, active, engines, disk, panics, restarts, strayed >>

(* A session sitting on the dropped database falls back to `default`.       *)
Dropped(r) ==
  Succeeded(r, IF req[r].db = Stmt(r).db THEN Default ELSE req[r].db)

(* ... and then its directory: remove_dir_all, the files first.             *)
DropFiles(r) ==
  /\ At(r, "dropFiles")
  /\ LET d == Stmt(r).db IN
     IF disk[d].exists
       THEN /\ disk' = [disk EXCEPT ![d] = [NoDirectory EXCEPT !.exists = TRUE]]
            /\ engines' = [e \in DOMAIN engines |->
                 IF engines[e].db = d /\ engines[e].next # 0
                   THEN [engines[e] EXCEPT !.linked = FALSE] ELSE engines[e]]
            /\ Go(r, To(r, "dropDir"))
       ELSE Go(r, Dropped(r)) /\ UNCHANGED << disk, engines >>
  /\ UNCHANGED << dbs, active, panics, restarts, raced, strayed >>

(* The directory itself, unless a file has appeared in it meanwhile.        *)
DropDir(r) ==
  /\ At(r, "dropDir")
  /\ LET d == Stmt(r).db IN
     IF disk[d].exists /\ ~disk[d].file
       THEN disk' = [disk EXCEPT ![d] = NoDirectory] /\ Go(r, Dropped(r))
       ELSE Go(r, Failed(r)) /\ UNCHANGED disk
  /\ UNCHANGED << dbs, active, engines, panics, restarts, raced, strayed >>

UseCheck(r) ==
  /\ At(r, "next") /\ Stmt(r).op = "use"
  /\ Go(r, IF Stmt(r).db \in Registered THEN To(r, "use") ELSE Failed(r))
  /\ UNCHANGED << dbs, active, engines, disk, panics, restarts, raced, strayed >>

UseSet(r) ==
  /\ At(r, "use")
  /\ IF req[r].session = "pinned"
       THEN UNCHANGED << active, strayed >>
       ELSE MakeActive(Stmt(r).db)
  /\ Go(r, Succeeded(r, IF req[r].session = "server" THEN NoDb ELSE Stmt(r).db))
  /\ UNCHANGED << dbs, engines, disk, panics, restarts, raced >>

-----------------------------------------------------------------------------
(* Statements on one database.                                              *)
Resolve(r) ==
  /\ At(r, "next") /\ ~IsCatalog(Stmt(r))
  /\ Go(r, [To(r, "lookup") EXCEPT
             !.target = IF req[r].session = "server" THEN active ELSE req[r].db])
  /\ UNCHANGED << dbs, active, engines, disk, panics, restarts, raced, strayed >>

(* The Arc is cloned out of the catalog: from here on the request works on  *)
(* this engine, registered or not.                                          *)
Lookup(r) ==
  /\ At(r, "lookup")
  /\ Go(r, IF req[r].target \in Registered
             THEN [To(r, "lock") EXCEPT !.engine = dbs[req[r].target],
                                        !.hold = req[r].at]
             ELSE Failed(r))
  /\ UNCHANGED << dbs, active, engines, disk, panics, restarts, raced, strayed >>

(* A batch takes the write lock for every statement, a single statement for *)
(* a write only.                                                            *)
Exclusive(r) == req[r].plan.batch \/ Stmt(r).op = "write"

(* Mutant of CanLock: a batch takes the lock its statement would take alone. *)
CanLockShared(r) ==
  \A o \in Holders(req[r].engine) :
    Stmt(r).op = "read" /\ Stmt(o).op = "read"

CanLock(r) ==
  \A o \in Holders(req[r].engine) : ~Exclusive(r) /\ ~Exclusive(o)

(* Nobody's DROP will wait for a request that locks this engine now.        *)
OutlivesDrop(e) ==
  /\ dbs[engines[e].db] # e
  /\ ~\E r \in Requests : /\ req[r].engine = e
                          /\ req[r].step \in {"dropActive", "dropWait"}

Lock(r) ==
  /\ At(r, "lock")
  /\ LET e == req[r].engine IN
     IF engines[e].poisoned
       THEN Go(r, Failed(r)) /\ UNCHANGED raced
       ELSE /\ CanLock(r)
            /\ Go(r, To(r, IF Exclusive(r) THEN "run" ELSE "read"))
            /\ raced' = IF OutlivesDrop(e) THEN raced \cup {engines[e].db} ELSE raced
  /\ UNCHANGED << dbs, active, engines, disk, panics, restarts, strayed >>

EventOf(r) == [by |-> r, hold |-> req[r].hold, op |-> Stmt(r).op]

(* After a statement that succeeded: a batch keeps the lock up to the next  *)
(* catalog statement.                                                       *)
KeepsLock(r) ==
  /\ req[r].plan.batch
  /\ req[r].at < Len(req[r].plan.script)
  /\ ~IsCatalog(req[r].plan.script[req[r].at + 1])

Continued(r) ==
  IF KeepsLock(r) THEN [req[r] EXCEPT !.at = @ + 1] ELSE Succeeded(r, req[r].db)

(* A database whose recovery failed answers nothing; any statement may fail. *)
StatementFails(r) ==
  /\ req[r].step \in {"read", "run"}
  /\ Go(r, Failed(r))
  /\ UNCHANGED << dbs, active, engines, disk, panics, restarts, raced, strayed >>

Read(r) ==
  /\ req[r].step \in {"read", "run"} /\ Stmt(r).op = "read"
  /\ engines[req[r].engine].status # "failed"
  /\ engines' = [engines EXCEPT ![req[r].engine].ran = Append(@, EventOf(r))]
  /\ Go(r, Continued(r))
  /\ UNCHANGED << dbs, active, disk, panics, restarts, raced, strayed >>

(* execute_logged: the statement is applied, its record appended to the     *)
(* file the engine has open.  The first one opens the log behind what the   *)
(* directory holds, creating directory and file when they are missing; a    *)
(* log it cannot read breaks the engine.                                    *)
Write(r) ==
  /\ At(r, "run") /\ Stmt(r).op = "write"
  /\ LET e == req[r].engine
         d == engines[e].db
         opens == engines[e].next = 0
         seq == IF opens THEN LastSeq(disk[d].log) + 1 ELSE engines[e].next
         ran == Append(engines[e].ran, EventOf(r))
     IN /\ engines[e].status = "ok"
        /\ IF opens /\ ~Readable(disk[d].log)
             THEN /\ engines' = [engines EXCEPT ![e].ran = ran, ![e].status = "broken"]
                  /\ Go(r, Failed(r))
                  /\ UNCHANGED disk
             ELSE /\ engines' = [engines EXCEPT ![e].ran = ran, ![e].next = seq + 1]
                  /\ disk' = IF engines[e].linked
                       THEN [disk EXCEPT ![d] =
                              [exists |-> TRUE, file |-> TRUE,
                               log |-> Append(@.log, [seq |-> seq, event |-> EventOf(r)])]]
                       ELSE disk
                  /\ Go(r, Continued(r))
  /\ UNCHANGED << dbs, active, panics, restarts, raced, strayed >>

(* A statement panics with the write lock held: the lock is poisoned.       *)
Panic(r) ==
  /\ At(r, "run") /\ panics < MaxPanics
  /\ engines' = [engines EXCEPT ![req[r].engine].poisoned = TRUE]
  /\ Go(r, Failed(r))
  /\ panics' = panics + 1
  /\ UNCHANGED << dbs, active, disk, restarts, raced, strayed >>

-----------------------------------------------------------------------------
(* The server process dies and is started again.                            *)
Restart ==
  /\ restarts < MaxRestarts
  /\ engines' = EnginesOf(Found) /\ dbs' = DbsOf(Found)
  /\ disk' = [d \in Databases |-> IF d \in Found THEN RecoveredDirectory(d) ELSE disk[d]]
  /\ active' = Default
  /\ req' = [r \in Requests |->
       IF At(r, "arriving") \/ At(r, "done") THEN req[r] ELSE Answered(r, "none")]
  /\ restarts' = restarts + 1
  /\ raced' = {d \in raced : ~Readable(disk[d].log)} /\ strayed' = {}
  /\ UNCHANGED panics

CatalogStep(r) ==
  \/ Create(r)
  \/ DropRemove(r) \/ DropActive(r) \/ DropWait(r) \/ DropFiles(r) \/ DropDir(r)
  \/ UseCheck(r) \/ UseSet(r)

Step(r) ==
  \/ Arrive(r) \/ LaunchTask(r) \/ TaskUse(r)
  \/ CatalogStep(r)
  \/ Resolve(r) \/ Lookup(r) \/ Lock(r)
  \/ Read(r) \/ Write(r) \/ StatementFails(r)

Next == (\E r \in Requests : Step(r) \/ Panic(r)) \/ Restart

(* Every blocking thread is run by the operating system.                    *)
Spec == Init /\ [][Next]_vars /\ \A r \in Requests : WF_vars(Step(r))

-----------------------------------------------------------------------------
(* Properties.                                                              *)

(* The shape of the state.                                                  *)
TypeOK ==
  /\ dbs \in [Databases -> 0 .. Len(engines)]
  /\ active \in Databases
  /\ engines \in Seq(Engine)
  /\ disk \in [Databases -> Directory]
  /\ req \in [Requests -> Request]
  /\ panics \in 0 .. MaxPanics /\ restarts \in 0 .. MaxRestarts
  /\ raced \subseteq Databases /\ strayed \subseteq Databases

(* What a client was told, and what it can read, is what a restart would    *)
(* recover: a registered database's log holds exactly the writes its engine *)
(* applied, in order, and goes on being the file the engine appends to.     *)
(* Only a DROP that overlapped a CREATE of the same name, or that a         *)
(* statement outlived, takes this from a database -- under no interleaving  *)
(* does anything that happens to another database.                          *)
ShownIsDurable ==
  \A d \in Registered \ raced :
    LET e == engines[dbs[d]] IN
    /\ e.status = "ok" /\ e.linked
    /\ Readable(disk[d].log)
    /\ Logged(d) = Writes(e.ran)
    /\ e.next # 0 => e.next = LastSeq(disk[d].log) + 1 /\ disk[d].file

(* The catalog and the data directory agree whenever no DROP of the name is *)
(* under way: a database that exists has a directory, and one that was      *)
(* dropped left nothing that the next start would take for a database.      *)
CatalogMatchesDisk ==
  \A d \in Databases \ raced :
    Dropping(d) = {} => (d \in Registered <=> disk[d].exists)

(* "Consecutive statements on the same database run under one write-lock    *)
(* hold": nothing of another request, not even a read, comes between two    *)
(* statements of one hold.                                                  *)
BatchesAreContiguous ==
  \A e \in DOMAIN engines : \A i, k \in DOMAIN engines[e].ran :
    LET first == engines[e].ran[i]
        last == engines[e].ran[k]
    IN first.by = last.by /\ first.hold = last.hold =>
         \A j \in i .. k : engines[e].ran[j].by = first.by

(* A headerless request always finds a database: the server's active one    *)
(* exists, or its DROP is about to move it back to `default`.  The only     *)
(* other way is a USE that checked the name before its DROP and set it after*)
ActiveIsServed ==
  active \in Registered \cup strayed
       \cup {d \in Databases : \E r \in Dropping(d) : At(r, "dropActive")}

(* Every request is answered, or dies with the server: whatever the         *)
(* interleaving, the catalog, active and database locks never wait for each *)
(* other in a cycle, and a poisoned lock blocks nobody.                     *)
AllAnswered == \A r \in Requests : <>At(r, "done")

(* "Waits for any in-flight statement on the database to finish before      *)
(* deleting its directory": while DROP deletes, nothing executes on the     *)
(* engine it removed.                                                       *)
DropWaits ==
  \A r \in Requests :
    req[r].step \in {"dropFiles", "dropDir"} => Holders(req[r].engine) = {}

=============================================================================
