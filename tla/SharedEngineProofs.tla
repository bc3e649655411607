-------------------------- MODULE SharedEngineProofs --------------------------
(* Theorems about SharedEngine, for any databases, requests and plans: the  *)
(* shape of the state, that the active database is served, and that catalog,*)
(* directories and logs agree on every name whose DROP raced nothing, and   *)
(* that the statements of one lock hold stay together, in every engine and  *)
(* through every restart.                                                   *)
EXTENDS SharedEngine, SequenceTheorems, FiniteSetTheorems, TLAPS

-----------------------------------------------------------------------------
(* Sequences and logs.                                                      *)

(* SetToSeq of a finite set meets every element of it: a start forgets no   *)
(* directory it found.                                                      *)
LEMMA Enumeration ==
  ASSUME NEW S, IsFiniteSet(S)
  PROVE  /\ SetToSeq(S) \in Seq(S) /\ Len(SetToSeq(S)) \in Nat
         /\ DOMAIN SetToSeq(S) = 1 .. Len(SetToSeq(S))
         /\ \A x \in S : \E i \in DOMAIN SetToSeq(S) : SetToSeq(S)[i] = x
<1> DEFINE n == Cardinality(S)
           f == SetToSeq(S)
<1>1. n \in Nat /\ ExistsBijection(1 .. n, S)
  BY FS_CardinalityType
<1>2. PICK g : g \in Bijection(1 .. n, S)
  BY <1>1 DEF ExistsBijection
<1>3. g \in [1 .. n -> S] /\ IsInjective(g)
  BY <1>2 DEF Bijection, Injection
<1>4. f \in [1 .. n -> S] /\ IsInjective(f)
  BY <1>3 DEF SetToSeq
<1>5. f \in Injection(1 .. n, S)
  BY <1>4 DEF Injection
<1>6. IsFiniteSet(1 .. n) /\ Cardinality(1 .. n) = n
  BY <1>1, FS_Interval
<1>7. f \in Surjection(1 .. n, S)
  BY <1>5, <1>6, FS_Injection
<1>8. \A x \in S : \E i \in 1 .. n : f[i] = x
  BY <1>7 DEF Surjection
<1>9. f \in Seq(S) /\ Len(f) = n /\ DOMAIN f = 1 .. n
  BY <1>1, <1>4
<1> QED BY <1>1, <1>8, <1>9

(* A log of records gives a sequence of events and a last number.           *)
LEMMA LoggedType ==
  ASSUME disk \in [Databases -> Directory], NEW d \in Databases
  PROVE  /\ Logged(d) \in Seq(Event) /\ LastSeq(disk[d].log) \in Nat
         /\ disk[d].log \in Seq(Record)
         /\ Len(Logged(d)) = Len(disk[d].log)
         /\ \A i \in 1 .. Len(disk[d].log) : Logged(d)[i] = disk[d].log[i].event
<1>1. disk[d].log \in Seq(Record)
  BY DEF Directory
<1>2. Len(disk[d].log) \in Nat /\ \A i \in 1 .. Len(disk[d].log) : disk[d].log[i] \in Record
  BY <1>1, LenProperties, ElementOfSeq
<1>3. \A i \in 1 .. Len(disk[d].log) : disk[d].log[i].event \in Event
  BY <1>2 DEF Record
<1>4. /\ Logged(d) \in Seq(Event) /\ Len(Logged(d)) = Len(disk[d].log)
      /\ \A i \in 1 .. Len(disk[d].log) : Logged(d)[i] = disk[d].log[i].event
  BY <1>2, <1>3 DEF Logged
<1>5. LastSeq(disk[d].log) \in Nat
  <2>1. CASE disk[d].log = << >>
    BY <2>1 DEF LastSeq
  <2>2. CASE disk[d].log # << >>
    <3>1. Len(disk[d].log) \in 1 .. Len(disk[d].log)
      BY <1>1, <1>2, <2>2, EmptySeq
    <3>2. LastSeq(disk[d].log) = disk[d].log[Len(disk[d].log)].seq
      BY <2>2 DEF LastSeq, Last
    <3>3. disk[d].log[Len(disk[d].log)] \in Record
      BY <1>2, <3>1
    <3> QED BY <3>2, <3>3 DEF Record
  <2> QED BY <2>1, <2>2
<1> QED BY <1>1, <1>4, <1>5

(* What recovery makes of a directory is an engine of that name.            *)
LEMMA RecoveredType ==
  ASSUME disk \in [Databases -> Directory], NEW d \in Databases
  PROVE  RecoveredEngine(d) \in Engine /\ RecoveredEngine(d).db = d
<1>1. FreshEngine(d) \in Engine
  <2>1. << >> \in Seq(Event)
    BY EmptySeq
  <2> QED BY <2>1 DEF FreshEngine, Engine
<1>2. Logged(d) \in Seq(Event) /\ LastSeq(disk[d].log) + 1 \in Nat
  BY LoggedType
<1> QED BY <1>1, <1>2 DEF RecoveredEngine, FreshEngine, Engine

(* A start gives every name it found an engine of its own.                  *)
LEMMA StartServes ==
  ASSUME disk \in [Databases -> Directory], NEW names \in SUBSET Databases
  PROVE  /\ EnginesOf(names) \in Seq(Engine)
         /\ DbsOf(names) \in [Databases -> 0 .. Len(EnginesOf(names))]
         /\ \A d \in Databases : DbsOf(names)[d] # 0 <=> d \in names
         /\ \A d \in names : EnginesOf(names)[DbsOf(names)[d]] = RecoveredEngine(d)
<1> DEFINE order == SetToSeq(names)
           n == Len(order)
<1>1. IsFiniteSet(names)
  BY NamesAssumption, FS_Subset
<1>2. /\ order \in Seq(names) /\ n \in Nat /\ DOMAIN order = 1 .. n
      /\ \A x \in names : \E i \in DOMAIN order : order[i] = x
  BY <1>1, Enumeration
<1>3. \A i \in 1 .. n : order[i] \in names
  BY <1>2, ElementOfSeq
<1>4. EnginesOf(names) = [i \in 1 .. n |-> RecoveredEngine(order[i])]
  BY <1>2 DEF EnginesOf
<1>5. \A i \in 1 .. n : RecoveredEngine(order[i]) \in Engine
  BY <1>3, RecoveredType
<1>6. EnginesOf(names) \in Seq(Engine) /\ Len(EnginesOf(names)) = n
  BY <1>2, <1>4, <1>5
<1>7. DbsOf(names) = [d \in Databases |->
        IF d \in names THEN CHOOSE i \in DOMAIN order : order[i] = d ELSE 0]
  BY DEF DbsOf
<1>8. \A d \in names : DbsOf(names)[d] \in 1 .. n /\ order[DbsOf(names)[d]] = d
  BY <1>2, <1>7
<1>9. \A d \in Databases : d \notin names => DbsOf(names)[d] = 0
  BY <1>7
<1>10. DbsOf(names) \in [Databases -> 0 .. n]
  BY <1>2, <1>7, <1>8, <1>9
<1> HIDE DEF order, n
<1> QED BY <1>2, <1>4, <1>6, <1>8, <1>9, <1>10

-----------------------------------------------------------------------------
(* Types.                                                                   *)

DropSteps == {"dropActive", "dropWait", "dropFiles", "dropDir"}

(* A request is at a statement of its script; past the lookup it has an     *)
(* engine, and DROP the one of the name it drops.                           *)
Asked(plan) ==
  \A i \in 1 .. Len(plan.script) :
    IsCatalog(plan.script[i]) => plan.script[i].db \in Databases

Fits(q) ==
  LET stmt == q.plan.script[q.at] IN
  /\ q \in Request /\ Asked(q.plan)
  /\ q.at \in 1 .. Len(q.plan.script)
  /\ q.step = "taskUse" => q.db \in Databases
  /\ q.step = "use" => stmt.op = "use"
  /\ q.step \in {"lookup", "lock", "read", "run"} => ~IsCatalog(stmt)
  /\ q.step \in {"lock", "read", "run"} => q.engine \in 1 .. Len(engines)
  /\ q.step \in DropSteps =>
       /\ stmt.op = "drop" /\ stmt.db # Default
       /\ q.engine \in 1 .. Len(engines) /\ engines[q.engine].db = stmt.db

Served ==
  /\ Default \in Registered
  /\ \A d \in Databases : dbs[d] # 0 => engines[dbs[d]].db = d

Sound == TypeOK /\ Served /\ \A r \in Requests : Fits(req[r])

(* The statement a request is at is one of its script's.                    *)
LEMMA Statement ==
  ASSUME NEW q, Fits(q)
  PROVE  /\ q.plan.script[q.at] \in Statements
         /\ q.plan.script \in Seq(Statements) /\ Len(q.plan.script) \in Nat
         /\ IsCatalog(q.plan.script[q.at]) => q.plan.script[q.at].db \in Databases
         /\ q.plan \in Plan /\ q.step \in Steps /\ q.db \in Names /\ q.at \in Nat
<1>1. q \in Request /\ q.at \in 1 .. Len(q.plan.script) /\ Asked(q.plan)
  BY DEF Fits
<1>2. q.plan \in Plan /\ q.step \in Steps /\ q.db \in Names /\ q.at \in Nat
  BY <1>1 DEF Request
<1>3. q.plan.script \in Seq(Statements)
  BY <1>2 DEF Plan
<1>4. Len(q.plan.script) \in Nat /\ q.plan.script[q.at] \in Statements
  BY <1>1, <1>3, LenProperties, ElementOfSeq
<1> QED BY <1>1, <1>2, <1>3, <1>4 DEF Asked

(* The handler's next move leaves it at a statement of its script.          *)
LEMMA NextMove ==
  ASSUME Sound, NEW r \in Requests
  PROVE  /\ \A a \in {"none", "ok", "error"} : Fits(Answered(r, a))
         /\ \A db \in Names : Fits(Succeeded(r, db))
         /\ req[r].step \in {"read", "run"} => Fits(Continued(r))
<1> DEFINE q == req[r]
<1>1. Fits(q) /\ q \in Request
  BY DEF Sound, Fits
<1>2. /\ q.plan.script \in Seq(Statements) /\ Len(q.plan.script) \in Nat
      /\ q.plan \in Plan /\ q.at \in Nat /\ q.at \in 1 .. Len(q.plan.script)
  BY <1>1, Statement DEF Fits
<1>3. ASSUME NEW a \in {"none", "ok", "error"} PROVE Fits(Answered(r, a))
  BY <1>1, <1>2 DEF Answered, Fits, Request, Steps, DropSteps
<1>4. ASSUME NEW db \in Names PROVE Fits(Succeeded(r, db))
  <2>1. CASE q.at = Len(q.plan.script)
    BY <1>3, <2>1 DEF Succeeded
  <2>2. CASE q.at # Len(q.plan.script)
    <3>1. Succeeded(r, db) = [q EXCEPT !.step = "next", !.at = q.at + 1, !.db = db]
      BY <2>2 DEF Succeeded
    <3>2. q.at + 1 \in 1 .. Len(q.plan.script)
      BY <1>2, <2>2
    <3>3. /\ Succeeded(r, db).at = q.at + 1 /\ Succeeded(r, db).step = "next"
          /\ Succeeded(r, db).plan = q.plan
      BY <1>1, <3>1 DEF Request
    <3>4. Succeeded(r, db) \in Request
      <4>1. "next" \in Steps /\ db \in Names /\ q.at + 1 \in Nat
        BY <1>2 DEF Steps
      <4> QED BY <1>1, <3>1, <4>1 DEF Request
    <3> QED BY <1>1, <3>2, <3>3, <3>4 DEF Fits, DropSteps
  <2> QED BY <2>1, <2>2
<1>5. ASSUME q.step \in {"read", "run"} PROVE Fits(Continued(r))
  <2>1. CASE KeepsLock(r)
    <3>1. q.at + 1 \in 1 .. Len(q.plan.script) /\ ~IsCatalog(q.plan.script[q.at + 1])
      BY <1>2, <2>1 DEF KeepsLock
    <3>2. Continued(r) = [q EXCEPT !.at = q.at + 1]
      BY <2>1 DEF Continued
    <3>3. /\ Continued(r).at = q.at + 1 /\ Continued(r).step = q.step
          /\ Continued(r).plan = q.plan /\ Continued(r).engine = q.engine
      BY <1>1, <3>2 DEF Request
    <3>4. Continued(r) \in Request
      BY <1>1, <1>2, <3>1, <3>2 DEF Request
    <3>5. q.step \notin DropSteps \cup {"use", "taskUse"}
      BY <1>5 DEF DropSteps
    <3> QED BY <1>1, <1>5, <3>1, <3>3, <3>4, <3>5 DEF Fits
  <2>2. CASE ~KeepsLock(r)
    <3>1. q.db \in Names
      BY <1>1 DEF Request
    <3> QED BY <1>4, <2>2, <3>1 DEF Continued
  <2> QED BY <2>1, <2>2
<1> QED BY <1>3, <1>4, <1>5

(* Engines are never forgotten and never change their name.                 *)
EnginesKept ==
  /\ Len(engines) <= Len(engines')
  /\ \A e \in 1 .. Len(engines) : engines'[e].db = engines[e].db

(* A step that leaves the engines alone keeps them.                         *)
LEMMA SameEngines ==
  ASSUME Sound, UNCHANGED engines
  PROVE  engines' \in Seq(Engine) /\ EnginesKept
BY LenProperties DEF Sound, TypeOK, EnginesKept

(* One request moves to a place that fits: every request's place still does.*)
LEMMA Moves ==
  ASSUME Sound, NEW r \in Requests, NEW q, Fits(q), Go(r, q),
         engines' \in Seq(Engine), EnginesKept
  PROVE  /\ req' \in [Requests -> Request]
         /\ \A o \in Requests : Fits(req[o])'
         /\ req'[r] = q /\ \A o \in Requests : o # r => req'[o] = req[o]
<1>1. req \in [Requests -> Request] /\ q \in Request
  BY DEF Sound, TypeOK, Fits
<1>2. /\ req' \in [Requests -> Request]
      /\ req'[r] = q /\ \A o \in Requests : o # r => req'[o] = req[o]
  BY <1>1 DEF Go
<1>3. ASSUME NEW o \in Requests PROVE Fits(req'[o])
  BY <1>2 DEF Sound
<1>4. ASSUME NEW o \in Requests PROVE Fits(req[o])'
  <2> DEFINE p == req'[o]
  <2>1. Fits(p)
    BY <1>3
  <2> HIDE DEF p
  <2>2. Len(engines) \in Nat /\ Len(engines') \in Nat
    BY LenProperties DEF Sound, TypeOK
  <2>3. p = req'[o]
    BY DEF p
  <2> QED BY <2>1, <2>2, <2>3 DEF Fits, EnginesKept
<1> QED BY <1>2, <1>4

others == << dbs, active, engines, disk, panics, restarts, raced, strayed >>

(* A step that changes nothing but one request's place.                     *)
LEMMA OnlyMoves ==
  ASSUME Sound, NEW r \in Requests, NEW q, Fits(q), Go(r, q), UNCHANGED others
  PROVE  Sound'
<1>1. engines' \in Seq(Engine) /\ EnginesKept
  BY SameEngines DEF others
<1>2. req' \in [Requests -> Request] /\ \A o \in Requests : Fits(req[o])'
  BY <1>1, Moves
<1>3. TypeOK'
  BY <1>1, <1>2 DEF Sound, TypeOK, others
<1>4. Served'
  BY DEF Sound, Served, others, Registered
<1> QED BY <1>2, <1>3, <1>4 DEF Sound

(* What is known of the request that steps.                                 *)
LEMMA Current ==
  ASSUME Sound, NEW r \in Requests
  PROVE  /\ Fits(req[r]) /\ req[r] \in Request /\ Stmt(r) \in Statements
         /\ IsCatalog(Stmt(r)) => Stmt(r).db \in Databases
         /\ Stmt(r) = req[r].plan.script[req[r].at]
BY Statement DEF Sound, Fits, Stmt

(* Arrive gives the request a session and a place at its first statement.   *)
LEMMA SoundArrive ==
  ASSUME Sound, NEW r \in Requests, Arrive(r) PROVE Sound'
<1> DEFINE q == CASE req[r].session = "task" -> To(r, "task")
                  [] req[r].session \in {"pinned", "following"} /\ req[r].db = NoDb ->
                       [To(r, "next") EXCEPT !.db = active]
                  [] OTHER -> To(r, "next")
<1>1. Fits(req[r]) /\ req[r] \in Request /\ active \in Names
  BY Current DEF Sound, TypeOK, Names
<1>2. Fits(To(r, "task")) /\ Fits(To(r, "next"))
  BY <1>1 DEF To, Fits, Request, Steps, DropSteps
<1>3. Fits([To(r, "next") EXCEPT !.db = active])
  BY <1>1 DEF To, Fits, Request, Steps, DropSteps
<1>4. Fits(q)
  BY <1>2, <1>3
<1>5. Go(r, q) /\ UNCHANGED others
  BY DEF Arrive, others
<1> HIDE DEF q
<1> QED BY <1>4, <1>5, OnlyMoves

(* LaunchTask sends the task to its target_db or to the server's session.   *)
LEMMA SoundTask ==
  ASSUME Sound, NEW r \in Requests, LaunchTask(r) PROVE Sound'
<1> DEFINE q == IF req[r].db \in Registered
                  THEN To(r, "taskUse")
                  ELSE [To(r, "next") EXCEPT !.session = "server", !.db = NoDb]
<1>1. Fits(req[r]) /\ req[r] \in Request
  BY Current
<1>2. req[r].db \in Registered => Fits(To(r, "taskUse"))
  BY <1>1 DEF To, Fits, Request, Steps, DropSteps, Registered
<1>3. Fits([To(r, "next") EXCEPT !.session = "server", !.db = NoDb])
  BY <1>1 DEF To, Fits, Request, Steps, DropSteps, Names, Sessions
<1>4. Fits(q)
  BY <1>2, <1>3
<1>5. Go(r, q) /\ UNCHANGED others
  BY DEF LaunchTask, others
<1> HIDE DEF q
<1> QED BY <1>4, <1>5, OnlyMoves

(* A USE changes what is active to a name of the configuration.             *)
LEMMA SoundUse ==
  ASSUME Sound, NEW r \in Requests, NEW d \in Databases, NEW q, Fits(q), Go(r, q),
         active' \in Databases, strayed' \subseteq Databases,
         UNCHANGED << dbs, engines, disk, panics, restarts, raced >>
  PROVE  Sound'
<1>1. engines' \in Seq(Engine) /\ EnginesKept
  BY SameEngines
<1>2. req' \in [Requests -> Request] /\ \A o \in Requests : Fits(req[o])'
  BY <1>1, Moves
<1>3. TypeOK'
  BY <1>1, <1>2 DEF Sound, TypeOK
<1>4. Served'
  BY DEF Sound, Served, Registered
<1> QED BY <1>2, <1>3, <1>4 DEF Sound

(* TaskUse makes a registered name active.                                  *)
LEMMA SoundTaskUse ==
  ASSUME Sound, NEW r \in Requests, TaskUse(r) PROVE Sound'
<1> DEFINE q == [To(r, "next") EXCEPT !.session = "following"]
<1>1. Fits(req[r]) /\ req[r] \in Request
  BY Current
<1>2. Fits(q)
  BY <1>1 DEF To, Fits, Request, Steps, DropSteps, Sessions
<1>3. req[r].db \in Databases
  BY <1>1 DEF Fits, TaskUse, At
<1>4. active' \in Databases /\ strayed' \subseteq Databases
  BY <1>3 DEF TaskUse, MakeActive, Sound, TypeOK
<1>5. Go(r, q)
  BY DEF TaskUse
<1> HIDE DEF q
<1> QED BY <1>2, <1>3, <1>4, <1>5, SoundUse DEF TaskUse

(* Create registers the engine it appends, under the name it created.       *)
LEMMA SoundCreate ==
  ASSUME Sound, NEW r \in Requests, Create(r) PROVE Sound'
<1> DEFINE d == Stmt(r).db
<1>1. d \in Databases /\ Fits(req[r]) /\ req[r] \in Request
  BY Current DEF Create, IsCatalog
<1>2. Fits(Failed(r)) /\ Fits(Succeeded(r, req[r].db))
  <2>1. req[r].db \in Names
    BY <1>1 DEF Request
  <2> QED BY <2>1, NextMove DEF Failed
<1>3. CASE d \in Registered
  BY <1>2, <1>3, OnlyMoves DEF Create, others
<1>4. CASE d \notin Registered
  <2>1. /\ engines' = Append(engines, FreshEngine(d))
        /\ dbs' = [dbs EXCEPT ![d] = Len(engines) + 1]
        /\ disk' = [disk EXCEPT ![d].exists = TRUE]
        /\ raced' = IF disk[d].exists \/ Dropping(d) # {} THEN raced \cup {d} ELSE raced
        /\ Go(r, Succeeded(r, req[r].db))
        /\ UNCHANGED << active, panics, restarts, strayed >>
    BY <1>4 DEF Create
  <2>2. FreshEngine(d) \in Engine /\ FreshEngine(d).db = d
    <3>1. << >> \in Seq(Event)
      BY EmptySeq
    <3> QED BY <1>1, <3>1 DEF FreshEngine, Engine
  <2>3. engines \in Seq(Engine) /\ Len(engines) \in Nat
    BY LenProperties DEF Sound, TypeOK
  <2>4. /\ engines' \in Seq(Engine) /\ Len(engines') = Len(engines) + 1
        /\ \A e \in 1 .. Len(engines) : engines'[e] = engines[e]
        /\ engines'[Len(engines) + 1] = FreshEngine(d)
    BY <2>1, <2>2, <2>3, AppendProperties
  <2>5. EnginesKept
    BY <2>3, <2>4 DEF EnginesKept
  <2>6. req' \in [Requests -> Request] /\ \A o \in Requests : Fits(req[o])'
    BY <1>2, <2>1, <2>4, <2>5, Moves
  <2>7. dbs' \in [Databases -> 0 .. Len(engines')]
    BY <1>1, <2>1, <2>3, <2>4 DEF Sound, TypeOK
  <2>8. disk' \in [Databases -> Directory]
    BY <1>1, <2>1 DEF Sound, TypeOK, Directory
  <2>9. raced' \subseteq Databases
    BY <1>1, <2>1 DEF Sound, TypeOK
  <2>10. TypeOK'
    BY <2>1, <2>4, <2>6, <2>7, <2>8, <2>9 DEF Sound, TypeOK
  <2>11. \A x \in Databases : dbs'[x] # 0 => engines'[dbs'[x]].db = x
    BY <1>1, <2>1, <2>2, <2>3, <2>4 DEF Sound, TypeOK, Served
  <2>12. Default \in Registered'
    BY <1>1, <2>1, <2>3 DEF Sound, TypeOK, Served, Registered
  <2> QED BY <2>6, <2>10, <2>11, <2>12 DEF Sound, Served
<1> QED BY <1>3, <1>4

(* Every step of a DROP goes on with the engine of the name it drops.       *)
LEMMA SoundDrops ==
  ASSUME Sound, NEW r \in Requests,
         DropRemove(r) \/ DropActive(r) \/ DropWait(r) \/ DropFiles(r) \/ DropDir(r)
  PROVE  Sound'
<1> DEFINE d == Stmt(r).db
<1>1. Fits(req[r]) /\ req[r] \in Request /\ req[r].db \in Names
  BY Current DEF Request
<1>2. Fits(Failed(r)) /\ Fits(Dropped(r))
  <2>1. Default \in Names
    BY NamesAssumption DEF Names
  <2> QED BY <1>1, <2>1, NextMove DEF Failed, Dropped
<1>3. CASE DropRemove(r)
  <2>1. d \in Databases /\ Stmt(r).op = "drop"
    BY <1>3, Current DEF DropRemove, IsCatalog
  <2>2. CASE d = Default \/ d \notin Registered
    BY <1>2, <1>3, <2>2, OnlyMoves DEF DropRemove, others
  <2>3. CASE ~(d = Default \/ d \notin Registered)
    <3> DEFINE q == [To(r, "dropActive") EXCEPT !.engine = dbs[d]]
    <3>1. /\ dbs' = [dbs EXCEPT ![d] = 0] /\ Go(r, q)
          /\ UNCHANGED << active, engines, disk, panics, restarts, raced, strayed >>
      BY <1>3, <2>3 DEF DropRemove
    <3>2. dbs[d] \in 1 .. Len(engines) /\ engines[dbs[d]].db = d /\ Len(engines) \in Nat
      BY <2>1, <2>3, LenProperties DEF Sound, TypeOK, Served, Registered
    <3>3. q.engine = dbs[d] /\ q.step = "dropActive" /\ q.plan = req[r].plan /\ q.at = req[r].at
      BY <1>1 DEF To, Request
    <3>4. q \in Request
      <4>1. dbs[d] \in Nat /\ "dropActive" \in Steps
        BY <3>2 DEF Steps
      <4> QED BY <1>1, <4>1 DEF To, Request
    <3>5. Fits(q)
      BY <1>1, <2>1, <2>3, <3>2, <3>3, <3>4 DEF Fits, DropSteps, Stmt
    <3> HIDE DEF q
    <3>6. engines' \in Seq(Engine) /\ EnginesKept
      BY <3>1, SameEngines
    <3>7. req' \in [Requests -> Request] /\ \A o \in Requests : Fits(req[o])'
      BY <3>1, <3>5, <3>6, Moves
    <3>8. TypeOK'
      BY <2>1, <3>1, <3>2, <3>7 DEF Sound, TypeOK
    <3>9. Served'
      BY <2>1, <2>3, <3>1 DEF Sound, TypeOK, Served, Registered
    <3> QED BY <3>7, <3>8, <3>9 DEF Sound
  <2> QED BY <2>2, <2>3
<1>4. ASSUME req[r].step \in DropSteps
      PROVE  /\ Fits(To(r, "dropWait")) /\ Fits(To(r, "dropFiles")) /\ Fits(To(r, "dropDir"))
             /\ d \in Databases
  <2>1. d \in Databases
    BY <1>1, <1>4, Current DEF Fits, IsCatalog
  <2>2. ASSUME NEW s \in DropSteps PROVE Fits(To(r, s))
    <3>1. To(r, s).step = s /\ To(r, s).plan = req[r].plan /\ To(r, s).at = req[r].at
          /\ To(r, s).engine = req[r].engine
      BY <1>1 DEF To, Request
    <3>2. To(r, s) \in Request
      BY <1>1 DEF To, Request, Steps, DropSteps
    <3> QED BY <1>1, <1>4, <3>1, <3>2 DEF Fits, DropSteps
  <2> QED BY <2>1, <2>2 DEF DropSteps
<1>5. CASE DropActive(r)
  <2>1. At(r, "dropActive") /\ Go(r, To(r, "dropWait")) /\ active' \in {active, Default}
        /\ UNCHANGED << dbs, engines, disk, panics, restarts, raced, strayed >>
    BY <1>5 DEF DropActive
  <2>2. active' \in Databases /\ strayed' \subseteq Databases
    BY <2>1, NamesAssumption DEF Sound, TypeOK
  <2>3. Fits(To(r, "dropWait"))
    BY <1>4, <2>1 DEF At, DropSteps
  <2> QED BY <2>1, <2>2, <2>3, NamesAssumption, SoundUse
<1>6. CASE DropWait(r)
  <2>1. At(r, "dropWait")
    BY <1>6 DEF DropWait
  <2>2. Fits(To(r, "dropFiles")) /\ d \in Databases
    BY <1>4, <2>1 DEF At, DropSteps
  <2>3. PICK q \in {Failed(r), To(r, "dropFiles")} : Go(r, q)
    BY <1>6 DEF DropWait
  <2>4. /\ raced' \in {raced, raced \cup {d}}
        /\ UNCHANGED << dbs, active, engines, disk, panics, restarts, strayed >>
    BY <1>6 DEF DropWait
  <2>5. engines' \in Seq(Engine) /\ EnginesKept
    BY <2>4, SameEngines
  <2>6. req' \in [Requests -> Request] /\ \A o \in Requests : Fits(req[o])'
    BY <1>2, <2>2, <2>3, <2>5, Moves
  <2>7. TypeOK'
    BY <2>2, <2>4, <2>5, <2>6 DEF Sound, TypeOK
  <2>8. Served'
    BY <2>4 DEF Sound, Served, Registered
  <2> QED BY <2>6, <2>7, <2>8 DEF Sound
<1>7. CASE DropFiles(r) \/ DropDir(r)
  <2>1. req[r].step \in DropSteps
    BY <1>7 DEF DropFiles, DropDir, At, DropSteps
  <2>2. Fits(To(r, "dropDir")) /\ d \in Databases
    BY <1>4, <2>1
  <2>3. PICK q \in {Failed(r), Dropped(r), To(r, "dropDir")} : Go(r, q)
    BY <1>7 DEF DropFiles, DropDir
  <2>4. UNCHANGED << dbs, active, panics, restarts, raced, strayed >>
    BY <1>7 DEF DropFiles, DropDir
  <2>5. /\ engines' \in Seq(Engine) /\ Len(engines') = Len(engines)
        /\ \A e \in 1 .. Len(engines) : engines'[e].db = engines[e].db
    <3>1. CASE UNCHANGED engines
      BY <3>1 DEF Sound, TypeOK
    <3>2. CASE engines' = [e \in DOMAIN engines |->
                 IF engines[e].db = d /\ engines[e].next # 0
                   THEN [engines[e] EXCEPT !.linked = FALSE] ELSE engines[e]]
      <4>1. engines \in Seq(Engine)
        BY DEF Sound, TypeOK
      <4>2. /\ Len(engines) \in Nat /\ DOMAIN engines = 1 .. Len(engines)
            /\ \A e \in 1 .. Len(engines) : engines[e] \in Engine
        BY <4>1, LenProperties, ElementOfSeq
      <4>3. \A e \in 1 .. Len(engines) :
              [engines[e] EXCEPT !.linked = FALSE] \in Engine
              /\ [engines[e] EXCEPT !.linked = FALSE].db = engines[e].db
        BY <4>2 DEF Engine
      <4>4. \A e \in 1 .. Len(engines) : engines'[e] \in Engine /\ engines'[e].db = engines[e].db
        BY <3>2, <4>2, <4>3
      <4>5. DOMAIN engines' = 1 .. Len(engines) /\ engines' = [e \in 1 .. Len(engines) |-> engines'[e]]
        BY <3>2, <4>2
      <4> QED BY <4>2, <4>4, <4>5
    <3> QED BY <1>7, <3>1, <3>2 DEF DropFiles, DropDir
  <2>6. EnginesKept
    BY <2>5, LenProperties DEF EnginesKept, Sound, TypeOK
  <2>7. req' \in [Requests -> Request] /\ \A o \in Requests : Fits(req[o])'
    BY <1>2, <2>2, <2>3, <2>5, <2>6, Moves
  <2>8. disk' \in [Databases -> Directory]
    <3>1. NoDirectory \in Directory /\ [NoDirectory EXCEPT !.exists = TRUE] \in Directory
      <4>1. << >> \in Seq(Record)
        BY EmptySeq
      <4> QED BY <4>1 DEF NoDirectory, Directory
    <3>2. disk' \in {disk, [disk EXCEPT ![d] = NoDirectory],
                     [disk EXCEPT ![d] = [NoDirectory EXCEPT !.exists = TRUE]]}
      BY <1>7 DEF DropFiles, DropDir
    <3> QED BY <2>2, <3>1, <3>2 DEF Sound, TypeOK
  <2>9. TypeOK'
    BY <2>4, <2>5, <2>7, <2>8 DEF Sound, TypeOK
  <2>10. Served'
    BY <2>4, <2>5 DEF Sound, TypeOK, Served, Registered
  <2> QED BY <2>7, <2>9, <2>10 DEF Sound
<1> QED BY <1>3, <1>5, <1>6, <1>7

(* USE and the resolution of a statement find an engine or fail.            *)
LEMMA SoundLookups ==
  ASSUME Sound, NEW r \in Requests,
         UseCheck(r) \/ UseSet(r) \/ Resolve(r) \/ Lookup(r) \/ Lock(r) \/ StatementFails(r)
  PROVE  Sound'
<1>1. Fits(req[r]) /\ req[r] \in Request /\ Stmt(r) \in Statements
  BY Current
<1>2. Fits(Failed(r))
  BY NextMove DEF Failed
<1>3. CASE UseCheck(r)
  <2>1. Fits(To(r, "use"))
    BY <1>1, <1>3 DEF UseCheck, To, Fits, Request, Steps, DropSteps, Stmt
  <2>2. PICK q \in {To(r, "use"), Failed(r)} : Go(r, q)
    BY <1>3 DEF UseCheck
  <2> QED BY <1>2, <1>3, <2>1, <2>2, OnlyMoves DEF UseCheck, others
<1>4. CASE UseSet(r)
  <2>1. Stmt(r).db \in Databases
    BY <1>1, <1>4, Current DEF UseSet, At, Fits, Stmt, IsCatalog
  <2>2. active' \in Databases /\ strayed' \subseteq Databases
    BY <1>4, <2>1 DEF UseSet, MakeActive, Sound, TypeOK
  <2>3. \A db \in Names : Fits(Succeeded(r, db))
    BY NextMove
  <2>4. (IF req[r].session = "server" THEN NoDb ELSE Stmt(r).db) \in Names
    BY <2>1 DEF Names
  <2> QED BY <1>4, <2>1, <2>2, <2>3, <2>4, SoundUse DEF UseSet
<1>5. CASE Resolve(r)
  <2> DEFINE q == [To(r, "lookup") EXCEPT
                    !.target = IF req[r].session = "server" THEN active ELSE req[r].db]
  <2>1. (IF req[r].session = "server" THEN active ELSE req[r].db) \in Names
    BY <1>1 DEF Request, Sound, TypeOK, Names
  <2>2. q \in Request /\ q.step = "lookup" /\ q.plan = req[r].plan /\ q.at = req[r].at
    BY <1>1, <2>1 DEF To, Request, Steps
  <2>3. Fits(q)
    BY <1>1, <1>5, <2>2 DEF Fits, DropSteps, Resolve, Stmt
  <2>4. Go(r, q) /\ UNCHANGED others
    BY <1>5 DEF Resolve, others
  <2> HIDE DEF q
  <2> QED BY <2>3, <2>4, OnlyMoves
<1>6. CASE Lookup(r)
  <2> DEFINE q == [To(r, "lock") EXCEPT !.engine = dbs[req[r].target], !.hold = req[r].at]
  <2>1. CASE req[r].target \in Registered
    <3>1. dbs[req[r].target] \in 1 .. Len(engines) /\ Len(engines) \in Nat /\ req[r].at \in Nat
      BY <1>1, <2>1, LenProperties DEF Sound, TypeOK, Registered, Request
    <3>2. /\ q \in Request /\ q.step = "lock" /\ q.plan = req[r].plan /\ q.at = req[r].at
          /\ q.engine = dbs[req[r].target]
      <4>1. dbs[req[r].target] \in Nat /\ req[r].at \in Nat /\ "lock" \in Steps
        BY <3>1 DEF Steps
      <4> QED BY <1>1, <4>1 DEF To, Request
    <3>3. ~IsCatalog(req[r].plan.script[req[r].at])
      BY <1>1, <1>6 DEF Lookup, At, Fits
    <3>4. Fits(q)
      BY <1>1, <3>1, <3>2, <3>3 DEF Fits, DropSteps
    <3>5. Go(r, q) /\ UNCHANGED others
      BY <1>6, <2>1 DEF Lookup, others
    <3> HIDE DEF q
    <3> QED BY <3>4, <3>5, OnlyMoves
  <2>2. CASE req[r].target \notin Registered
    BY <1>2, <1>6, <2>2, OnlyMoves DEF Lookup, others
  <2> QED BY <2>1, <2>2
<1>7. CASE Lock(r)
  <2>1. req[r].step = "lock"
    BY <1>7 DEF Lock, At
  <2>2. ASSUME NEW s \in {"run", "read"} PROVE Fits(To(r, s))
    <3>1. To(r, s) \in Request /\ To(r, s).step = s /\ To(r, s).plan = req[r].plan
          /\ To(r, s).at = req[r].at /\ To(r, s).engine = req[r].engine
      BY <1>1 DEF To, Request, Steps
    <3> QED BY <1>1, <2>1, <3>1 DEF Fits, DropSteps
  <2>3. PICK q \in {Failed(r), To(r, "run"), To(r, "read")} : Go(r, q)
    BY <1>7 DEF Lock
  <2>4. /\ raced' \in {raced, raced \cup {engines[req[r].engine].db}}
        /\ UNCHANGED << dbs, active, engines, disk, panics, restarts, strayed >>
    BY <1>7 DEF Lock
  <2>5. engines[req[r].engine].db \in Databases
    <3>1. req[r].engine \in 1 .. Len(engines)
      BY <1>1, <2>1 DEF Fits
    <3>2. engines[req[r].engine] \in Engine
      BY <3>1, ElementOfSeq DEF Sound, TypeOK
    <3> QED BY <3>2 DEF Engine
  <2>6. engines' \in Seq(Engine) /\ EnginesKept
    BY <2>4, SameEngines
  <2>7. req' \in [Requests -> Request] /\ \A o \in Requests : Fits(req[o])'
    BY <1>2, <2>2, <2>3, <2>6, Moves
  <2>8. TypeOK'
    BY <2>4, <2>5, <2>6, <2>7 DEF Sound, TypeOK
  <2>9. Served'
    BY <2>4 DEF Sound, Served, Registered
  <2> QED BY <2>7, <2>8, <2>9 DEF Sound
<1>8. CASE StatementFails(r)
  BY <1>2, <1>8, OnlyMoves DEF StatementFails, others
<1> QED BY <1>3, <1>4, <1>5, <1>6, <1>7, <1>8

(* A statement that runs changes its own engine and its own directory.      *)
LEMMA SoundStatements ==
  ASSUME Sound, NEW r \in Requests, Read(r) \/ Write(r) \/ Panic(r)
  PROVE  Sound'
<1> DEFINE e == req[r].engine
           d == engines[e].db
<1>1. Fits(req[r]) /\ req[r] \in Request /\ Stmt(r) \in Statements
  BY Current
<1>2. req[r].step \in {"read", "run"}
  BY DEF Read, Write, Panic, At
<1>3. Fits(Failed(r)) /\ Fits(Continued(r))
  BY <1>2, NextMove DEF Failed
<1>4. /\ e \in 1 .. Len(engines) /\ engines \in Seq(Engine) /\ Len(engines) \in Nat
      /\ DOMAIN engines = 1 .. Len(engines)
  BY <1>1, <1>2, LenProperties DEF Fits, Sound, TypeOK
<1>5. engines[e] \in Engine /\ d \in Databases /\ engines[e].ran \in Seq(Event)
  <2>1. engines[e] \in Engine
    BY <1>4, ElementOfSeq
  <2> QED BY <2>1 DEF Engine
<1>6. PICK q \in {Failed(r), Continued(r)} : Go(r, q)
  BY DEF Read, Write, Panic
<1>7. Stmt(r).op \in {"read", "write"} => EventOf(r) \in Event
  BY <1>1 DEF EventOf, Event, Request
<1>8. /\ UNCHANGED << dbs, active, restarts, raced, strayed >>
      /\ panics' \in 0 .. MaxPanics
  <2>1. panics \in 0 .. MaxPanics
    BY DEF Sound, TypeOK
  <2>2. panics' = panics \/ (panics' = panics + 1 /\ panics < MaxPanics)
    BY DEF Read, Write, Panic
  <2>3. panics' \in 0 .. MaxPanics
    BY <2>1, <2>2, BoundsAssumption
  <2> QED BY <2>3 DEF Read, Write, Panic
<1>9. ASSUME NEW n \in Engine, n.db = d, engines' = [engines EXCEPT ![e] = n],
             disk' \in [Databases -> Directory]
      PROVE  Sound'
  <2>1. /\ engines' \in Seq(Engine) /\ Len(engines') = Len(engines)
        /\ \A i \in 1 .. Len(engines) : engines'[i] = IF i = e THEN n ELSE engines[i]
    BY <1>4, <1>9, ExceptSeq
  <2>2. EnginesKept
    BY <1>4, <1>9, <2>1 DEF EnginesKept
  <2>3. req' \in [Requests -> Request] /\ \A o \in Requests : Fits(req[o])'
    BY <1>3, <1>6, <2>1, <2>2, Moves
  <2>4. TypeOK'
    BY <1>8, <1>9, <2>1, <2>3 DEF Sound, TypeOK
  <2>5. Served'
    BY <1>8, <1>9, <2>1 DEF Sound, TypeOK, Served, Registered
  <2> QED BY <2>3, <2>4, <2>5 DEF Sound
<1>10. CASE Read(r)
  <2> DEFINE n == [engines[e] EXCEPT !.ran = Append(engines[e].ran, EventOf(r))]
  <2>1. engines' = [engines EXCEPT ![e] = n] /\ UNCHANGED disk /\ Stmt(r).op = "read"
    BY <1>10 DEF Read
  <2>2. Append(engines[e].ran, EventOf(r)) \in Seq(Event)
    BY <1>5, <1>7, <2>1, AppendProperties
  <2>3. n \in Engine /\ n.db = d
    BY <1>5, <2>2 DEF Engine
  <2>4. disk' \in [Databases -> Directory]
    BY <2>1 DEF Sound, TypeOK
  <2> HIDE DEF n
  <2> QED BY <1>9, <2>1, <2>3, <2>4
<1>11. CASE Write(r)
  <2> DEFINE opens == engines[e].next = 0
             seq == IF opens THEN LastSeq(disk[d].log) + 1 ELSE engines[e].next
             ran == Append(engines[e].ran, EventOf(r))
  <2>1. Stmt(r).op = "write" /\ EventOf(r) \in Event
    BY <1>7, <1>11 DEF Write
  <2>2. ran \in Seq(Event)
    BY <1>5, <2>1, AppendProperties
  <2>3. disk[d] \in Directory /\ disk[d].log \in Seq(Record) /\ LastSeq(disk[d].log) \in Nat
    BY <1>5, LoggedType DEF Sound, TypeOK
  <2>4. seq \in Nat
    BY <1>5, <2>3 DEF Engine
  <2>5. CASE opens /\ ~Readable(disk[d].log)
    <3> DEFINE n == [engines[e] EXCEPT !.ran = ran, !.status = "broken"]
    <3>1. engines' = [engines EXCEPT ![e] = n] /\ UNCHANGED disk
      BY <1>4, <1>11, <2>5 DEF Write
    <3>2. n \in Engine /\ n.db = d
      BY <1>5, <2>2 DEF Engine
    <3>3. disk' \in [Databases -> Directory]
      BY <3>1 DEF Sound, TypeOK
    <3> HIDE DEF n
    <3> QED BY <1>9, <3>1, <3>2, <3>3
  <2>6. CASE ~(opens /\ ~Readable(disk[d].log))
    <3> DEFINE n == [engines[e] EXCEPT !.ran = ran, !.next = seq + 1]
               file == [exists |-> TRUE, file |-> TRUE,
                        log |-> Append(disk[d].log, [seq |-> seq, event |-> EventOf(r)])]
    <3>1. /\ engines' = [engines EXCEPT ![e].ran = ran, ![e].next = seq + 1]
          /\ disk' = IF engines[e].linked THEN [disk EXCEPT ![d] = file] ELSE disk
      BY <1>11, <2>6 DEF Write
    <3>2. engines' = [engines EXCEPT ![e] = n]
      BY <1>4, <3>1
    <3>3. n \in Engine /\ n.db = d
      <4>1. seq + 1 \in Nat
        BY <2>4
      <4> HIDE DEF seq, ran
      <4> QED BY <1>5, <2>2, <4>1 DEF Engine
    <3>4. file \in Directory
      <4>1. [seq |-> seq, event |-> EventOf(r)] \in Record
        BY <2>1, <2>4 DEF Record
      <4>2. Append(disk[d].log, [seq |-> seq, event |-> EventOf(r)]) \in Seq(Record)
        BY <2>3, <4>1, AppendProperties
      <4> QED BY <4>2 DEF Directory
    <3>5. disk' \in [Databases -> Directory]
      <4> HIDE DEF file
      <4> QED BY <1>5, <3>1, <3>4 DEF Sound, TypeOK
    <3> HIDE DEF n
    <3> QED BY <1>9, <3>2, <3>3, <3>5
  <2> QED BY <2>5, <2>6
<1>12. CASE Panic(r)
  <2> DEFINE n == [engines[e] EXCEPT !.poisoned = TRUE]
  <2>1. engines' = [engines EXCEPT ![e] = n] /\ UNCHANGED disk
    BY <1>12 DEF Panic
  <2>2. n \in Engine /\ n.db = d
    BY <1>5 DEF Engine
  <2>3. disk' \in [Databases -> Directory]
    BY <2>1 DEF Sound, TypeOK
  <2> HIDE DEF n
  <2> QED BY <1>9, <2>1, <2>2, <2>3
<1> QED BY <1>10, <1>11, <1>12

(* A start serves exactly the names it found, and `default` is one.         *)
LEMMA SoundStart ==
  ASSUME disk \in [Databases -> Directory]
  PROVE  /\ EnginesOf(Found) \in Seq(Engine)
         /\ DbsOf(Found) \in [Databases -> 0 .. Len(EnginesOf(Found))]
         /\ \A d \in Databases : DbsOf(Found)[d] # 0 <=> d \in Found
         /\ \A d \in Found : EnginesOf(Found)[DbsOf(Found)[d]] = RecoveredEngine(d)
         /\ \A d \in Found : RecoveredEngine(d).db = d
         /\ Default \in Found /\ Found \subseteq Databases
<1>1. Found \in SUBSET Databases /\ Default \in Found
  BY NamesAssumption DEF Found
<1> QED BY <1>1, StartServes, RecoveredType

(* A restart leaves a sound server.                                         *)
LEMMA SoundRestart ==
  ASSUME Sound, Restart PROVE Sound'
<1>1. /\ engines' \in Seq(Engine) /\ dbs' \in [Databases -> 0 .. Len(engines')]
      /\ \A d \in Databases : dbs'[d] # 0 <=> d \in Found
      /\ \A d \in Found : engines'[dbs'[d]].db = d
      /\ Default \in Found /\ Found \subseteq Databases
  BY SoundStart DEF Restart, Sound, TypeOK
<1>2. Served'
  BY <1>1 DEF Served, Registered
<1>3. ASSUME NEW r \in Requests
      PROVE  Fits(req[r])' /\ req'[r] \in Request
  <2>1. /\ req'[r] = IF At(r, "arriving") \/ At(r, "done") THEN req[r] ELSE Answered(r, "none")
        /\ Fits(req[r]) /\ Fits(Answered(r, "none"))
    BY Current, NextMove DEF Restart
  <2>2. req[r] \in Request /\ Answered(r, "none").step = "done"
    BY <2>1 DEF Fits, Answered, Request
  <2>3. Fits(req'[r]) /\ req'[r].step \in {"arriving", "done"}
    BY <2>1, <2>2 DEF At
  <2> DEFINE q == req'[r]
  <2>4. Fits(q) /\ q.step \in {"arriving", "done"}
    BY <2>3
  <2>5. q = req'[r]
    OBVIOUS
  <2> HIDE DEF q
  <2> QED BY <2>4, <2>5 DEF Fits, DropSteps
<1>4. disk' \in [Databases -> Directory]
  <2>1. \A d \in Databases : RecoveredDirectory(d) \in Directory /\ disk[d] \in Directory
    BY DEF RecoveredDirectory, Sound, TypeOK, Directory
  <2> QED BY <2>1 DEF Restart
<1>5. req' \in [Requests -> Request]
  BY <1>3 DEF Restart
<1>6. /\ active' \in Databases /\ panics' \in 0 .. MaxPanics /\ restarts' \in 0 .. MaxRestarts
      /\ raced' \subseteq Databases /\ strayed' \subseteq Databases
  BY NamesAssumption, BoundsAssumption DEF Restart, Sound, TypeOK
<1> QED BY <1>1, <1>2, <1>3, <1>4, <1>5, <1>6 DEF Sound, TypeOK

(* The first start leaves a sound server.                                   *)
LEMMA SoundInit == Init => Sound
<1> SUFFICES ASSUME Init PROVE Sound
  OBVIOUS
<1>1. disk \in [Databases -> Directory]
  <2>1. << >> \in Seq(Record)
    BY EmptySeq
  <2>2. EmptyDirectory \in Directory /\ NoDirectory \in Directory
    BY <2>1 DEF EmptyDirectory, NoDirectory, Directory
  <2> QED BY <2>2 DEF Init
<1>2. /\ engines \in Seq(Engine) /\ dbs \in [Databases -> 0 .. Len(engines)]
      /\ \A d \in Databases : dbs[d] # 0 <=> d \in Found
      /\ \A d \in Found : engines[dbs[d]].db = d
      /\ Default \in Found /\ Found \subseteq Databases
  BY <1>1, SoundStart DEF Init
<1>3. Served
  BY <1>2 DEF Served, Registered
<1>4. ASSUME NEW r \in Requests
      PROVE  Fits(req[r])
  <2>1. PICK p \in UNION {Plans[o] : o \in Requests} : req[r] = NewRequest(p)
    BY DEF Init
  <2>2. p \in Plan /\ p.script # << >>
    BY PlansAssumption
  <2>3. \A i \in DOMAIN p.script :
          p.script[i].op \in {"create", "drop", "use"} => p.script[i].db \in Databases
    BY PlansAssumption
  <2>4. p.script \in Seq(Statements)
    BY <2>2 DEF Plan
  <2>5. Len(p.script) \in Nat \ {0} /\ DOMAIN p.script = 1 .. Len(p.script)
    BY <2>2, <2>4, LenProperties, EmptySeq
  <2>6. Asked(p)
    BY <2>3, <2>5 DEF Asked, IsCatalog
  <2>7. req[r] \in Request
    BY <2>1, <2>2 DEF NewRequest, Request, Plan, Steps, Names
  <2> QED BY <2>1, <2>5, <2>6, <2>7 DEF Fits, NewRequest, DropSteps
<1>5. req \in [Requests -> Request]
  BY <1>4 DEF Init, Fits
<1> QED BY <1>1, <1>2, <1>3, <1>4, <1>5, NamesAssumption, BoundsAssumption DEF Init, Sound, TypeOK

(* Every step leaves a sound server.                                        *)
LEMMA SoundStep == Sound /\ [Next]_vars => Sound'
<1> SUFFICES ASSUME Sound, [Next]_vars PROVE Sound'
  OBVIOUS
<1>1. ASSUME NEW r \in Requests, CatalogStep(r) PROVE Sound'
  BY <1>1, SoundCreate, SoundDrops, SoundLookups DEF CatalogStep
<1>2. ASSUME NEW r \in Requests, Step(r) \/ Panic(r) PROVE Sound'
  BY <1>1, <1>2, SoundArrive, SoundTask, SoundTaskUse, SoundLookups, SoundStatements DEF Step
<1>3. CASE UNCHANGED vars
  BY <1>3 DEF vars, Sound, TypeOK, Served, Registered, Fits
<1> QED BY <1>2, <1>3, SoundRestart DEF Next

(* The shape of the state, for every set of databases, requests and plans:  *)
(* `default` is always registered, a registered name's engine has that name,*)
(* and a request past its lookup holds an engine that exists.               *)
THEOREM ServerTypes == Spec => []Sound
BY SoundInit, SoundStep, PTL DEF Spec

-----------------------------------------------------------------------------
(* The active database.                                                     *)

Moving(d) == \E r \in Requests : At(r, "dropActive") /\ Stmt(r).db = d

(* A server starts on `default`, which exists.                              *)
LEMMA ServedAtStart == Init => ActiveIsServed
<1> SUFFICES ASSUME Init PROVE ActiveIsServed
  OBVIOUS
<1>1. Served
  BY SoundInit DEF Sound
<1> QED BY <1>1 DEF Init, Served, ActiveIsServed

(* No step leaves the active database neither registered, nor strayed to by *)
(* a USE, nor about to be left by its DROP.                                 *)
LEMMA ServedStep == Sound /\ ActiveIsServed /\ [Next]_vars => ActiveIsServed'
<1> SUFFICES ASSUME Sound, ActiveIsServed, [Next]_vars PROVE ActiveIsServed'
  OBVIOUS
<1>1. Sound'
  BY SoundStep
<1>2. Default \in Registered' /\ active' \in Databases
  BY <1>1 DEF Sound, Served, TypeOK
<1>3. active \in Registered \cup strayed \/ Moving(active)
  BY DEF ActiveIsServed, Moving, Dropping
<1>4. SUFFICES active' \in Registered' \cup strayed' \/ Moving(active)'
  <2>1. Moving(active)' => active' \in {d \in Databases : \E r \in Dropping(d) : At(r, "dropActive")}'
    BY <1>2 DEF Moving, Dropping, At
  <2> QED BY <2>1 DEF ActiveIsServed
\* who is about to move the server back stays there until it has
<1>5. ASSUME NEW r \in Requests, Step(r) \/ Panic(r), ~DropActive(r), active' = active,
             Moving(active)
      PROVE  Moving(active)'
  <2>1. PICK o \in Requests : At(o, "dropActive") /\ Stmt(o).db = active
    BY <1>5 DEF Moving
  <2>2. PICK q : Go(r, q)
    BY <1>5 DEF Step, CatalogStep, Arrive, LaunchTask, TaskUse, Create, DropRemove,
      DropActive, DropWait, DropFiles, DropDir, UseCheck, UseSet, Resolve, Lookup, Lock, Read,
      Write, StatementFails, Panic
  <2>3. o # r
    BY <1>5, <2>1 DEF Step, CatalogStep, Arrive, LaunchTask, TaskUse, Create, DropRemove,
      DropWait, DropFiles, DropDir, UseCheck, UseSet, Resolve, Lookup, Lock, Read,
      Write, StatementFails, Panic, At
  <2>4. req'[o] = req[o]
    BY <2>2, <2>3 DEF Go, Sound, TypeOK
  <2> QED BY <1>5, <2>1, <2>4 DEF Moving, At, Stmt
<1>6. ASSUME NEW r \in Requests, Step(r) \/ Panic(r), UNCHANGED << active, strayed >>,
             Registered \subseteq Registered', ~DropActive(r)
      PROVE  active' \in Registered' \cup strayed' \/ Moving(active)'
  BY <1>3, <1>5, <1>6
<1>7. ASSUME NEW r \in Requests, DropActive(r)
      PROVE  active' \in Registered' \cup strayed' \/ Moving(active)'
  <2>1. CASE active = Stmt(r).db
    BY <1>2, <1>7, <2>1 DEF DropActive
  <2>2. CASE active # Stmt(r).db
    <3>1. /\ active' = active /\ UNCHANGED << dbs, strayed >> /\ Go(r, To(r, "dropWait"))
      BY <1>7, <2>2 DEF DropActive
    <3>2. ASSUME Moving(active) PROVE Moving(active)'
      <4>1. PICK o \in Requests : At(o, "dropActive") /\ Stmt(o).db = active
        BY <3>2 DEF Moving
      <4>2. req'[o] = req[o]
        BY <2>2, <3>1, <4>1 DEF Go, Sound, TypeOK
      <4> QED BY <3>1, <4>1, <4>2 DEF Moving, At, Stmt
    <3> QED BY <1>3, <3>1, <3>2 DEF Registered
  <2> QED BY <2>1, <2>2
<1>8. ASSUME NEW r \in Requests, TaskUse(r) \/ UseSet(r)
      PROVE  active' \in Registered' \cup strayed' \/ Moving(active)'
  <2>1. CASE \E d : MakeActive(d)
    BY <1>8, <2>1 DEF MakeActive, TaskUse, UseSet, Registered
  <2>2. CASE UNCHANGED << active, strayed >> /\ UseSet(r)
    <3>1. Registered \subseteq Registered' /\ ~DropActive(r)
      BY <2>2 DEF UseSet, DropActive, At, Registered
    <3> QED BY <1>6, <2>2, <3>1 DEF Step, CatalogStep
  <2> QED BY <1>8, <2>1, <2>2 DEF TaskUse, UseSet
<1>9. ASSUME NEW r \in Requests, DropRemove(r)
      PROVE  active' \in Registered' \cup strayed' \/ Moving(active)'
  <2> DEFINE d == Stmt(r).db
  <2>1. ~DropActive(r) /\ UNCHANGED << active, strayed >> /\ Step(r)
    BY <1>9 DEF DropRemove, DropActive, At, Step, CatalogStep
  <2>2. CASE d = Default \/ d \notin Registered
    BY <1>6, <1>9, <2>1, <2>2 DEF DropRemove, Registered
  <2>3. CASE ~(d = Default \/ d \notin Registered)
    <3>1. /\ dbs' = [dbs EXCEPT ![d] = 0]
          /\ Go(r, [To(r, "dropActive") EXCEPT !.engine = dbs[d]])
      BY <1>9, <2>3 DEF DropRemove
    <3>2. CASE active = d
      <4>1. req'[r] = [To(r, "dropActive") EXCEPT !.engine = dbs[d]] /\ req[r] \in Request
        BY <3>1 DEF Go, Sound, TypeOK
      <4>2. req'[r].step = "dropActive" /\ req'[r].plan = req[r].plan /\ req'[r].at = req[r].at
        BY <4>1 DEF To, Request
      <4> QED BY <2>1, <3>2, <4>2 DEF Moving, At, Stmt
    <3>3. CASE active # d /\ active \in Registered
      BY <2>1, <3>1, <3>3 DEF Registered, Sound, TypeOK
    <3>4. CASE active \in strayed
      BY <2>1, <3>4
    <3>5. CASE Moving(active)
      BY <1>5, <2>1, <3>5
    <3> QED BY <1>3, <3>2, <3>3, <3>4, <3>5
  <2> QED BY <2>2, <2>3
<1>10. ASSUME NEW r \in Requests, Create(r)
      PROVE  active' \in Registered' \cup strayed' \/ Moving(active)'
  <2>1. Len(engines) \in Nat
    BY LenProperties DEF Sound, TypeOK
  <2>2. Registered \subseteq Registered'
    BY <1>10, <2>1 DEF Create, Registered, Sound, TypeOK
  <2>3. ~DropActive(r) /\ UNCHANGED << active, strayed >> /\ Step(r)
    BY <1>10 DEF Create, DropActive, At, Step, CatalogStep
  <2> QED BY <1>6, <2>2, <2>3
<1>11. ASSUME NEW r \in Requests,
              \/ Arrive(r) \/ LaunchTask(r) \/ DropWait(r) \/ DropFiles(r) \/ DropDir(r)
              \/ UseCheck(r) \/ Resolve(r) \/ Lookup(r) \/ Lock(r) \/ Read(r) \/ Write(r)
              \/ StatementFails(r) \/ Panic(r)
      PROVE  active' \in Registered' \cup strayed' \/ Moving(active)'
  <2>1. UNCHANGED << dbs, active, strayed >> /\ ~DropActive(r)
    BY <1>11 DEF Arrive, LaunchTask, DropWait, DropFiles, DropDir, UseCheck, Resolve, Lookup,
      Lock, Read, Write, StatementFails, Panic, DropActive, At
  <2>2. Registered \subseteq Registered' /\ (Step(r) \/ Panic(r))
    BY <1>11, <2>1 DEF Registered, Step, CatalogStep
  <2> QED BY <1>6, <2>1, <2>2
<1>12. CASE Restart
  BY <1>2, <1>12 DEF Restart
<1>13. CASE UNCHANGED vars
  BY <1>3, <1>13 DEF vars, Moving, At, Stmt, Registered
<1> QED BY <1>7, <1>8, <1>9, <1>10, <1>11, <1>12, <1>13 DEF Next, Step, CatalogStep

(* A headerless request always finds a database, for any number of requests *)
(* and databases (drop_database resets server_active before it goes on).    *)
THEOREM ServerIsServed == Spec => []ActiveIsServed
<1>1. Spec => []Sound
  BY ServerTypes
<1> QED BY <1>1, ServedAtStart, ServedStep, PTL DEF Spec

-----------------------------------------------------------------------------
(* Logs across a step, and what a statement does.                           *)

Ran(e) == engines[e].ran
Log(e) == disk[engines[e].db].log

Holding(q) == q.step \in {"read", "run"}

(* What a step makes of a log that it keeps, or deletes.                    *)
LEMMA LogsAfter ==
  ASSUME Sound, Sound', NEW d \in Databases
  PROVE  /\ Logged(d) \in Seq(Event) /\ Len(Logged(d)) \in Nat
         /\ LastSeq(disk[d].log) \in Nat /\ LastSeq(disk'[d].log) \in Nat
         /\ disk'[d].log = disk[d].log => Logged(d)' = Logged(d)
         /\ disk'[d].log = << >> =>
              Len(Logged(d)') = 0 /\ Readable(disk'[d].log) /\ LastSeq(disk'[d].log) = 0
<1>1. disk \in [Databases -> Directory] /\ disk' \in [Databases -> Directory]
  BY DEF Sound, TypeOK
<1>2. LastSeq(disk[d].log) \in Nat /\ Logged(d) \in Seq(Event)
  BY <1>1, LoggedType
<1>3. Logged(d)' = [i \in 1 .. Len(disk'[d].log) |-> disk'[d].log[i].event]
  BY DEF Logged
<1>4. disk'[d] \in Directory
  BY <1>1
<1>5. disk'[d].log \in Seq(Record)
  BY <1>4 DEF Directory
<1>6. LastSeq(disk'[d].log) \in Nat
  <2> DEFINE l == disk'[d].log
  <2>1. CASE l = << >>
    BY <2>1 DEF LastSeq
  <2>2. CASE l # << >>
    <3>1. Len(l) \in 1 .. Len(l) /\ l \in Seq(Record)
      BY <1>5, <2>2, EmptySeq
    <3> HIDE DEF l
    <3>2. LastSeq(l) = l[Len(l)].seq
      BY <2>2 DEF LastSeq, Last
    <3>3. l[Len(l)] \in Record
      BY <3>1, ElementOfSeq
    <3>4. LastSeq(l) \in Nat
      BY <3>2, <3>3 DEF Record
    <3> QED BY <3>4 DEF l
  <2> QED BY <2>1, <2>2
<1>7. disk'[d].log = disk[d].log => Logged(d)' = Logged(d)
  BY <1>3 DEF Logged
<1>8. ASSUME disk'[d].log = << >>
      PROVE  Len(Logged(d)') = 0 /\ Readable(disk'[d].log) /\ LastSeq(disk'[d].log) = 0
  <2>1. Len(disk'[d].log) = 0
    BY <1>8, EmptySeq
  <2>2. Logged(d)' = << >>
    BY <1>3, <2>1
  <2> QED BY <1>8, <2>1, <2>2, EmptySeq DEF Readable, LastSeq
<1> QED BY <1>2, <1>6, <1>7, <1>8, LenProperties

(* A log is in a file, a file in a directory, and a log holds only writes.  *)
Files ==
  \A d \in Databases :
    /\ disk[d].file \/ disk[d].log = << >>
    /\ disk[d].file => disk[d].exists
    /\ \A i \in 1 .. Len(Logged(d)) : Logged(d)[i].op = "write"

(* The first start finds empty logs.                                        *)
LEMMA FilesInit == Init => Files
<1> SUFFICES ASSUME Init, NEW d \in Databases
             PROVE  /\ disk[d].file \/ disk[d].log = << >>
                    /\ disk[d].file => disk[d].exists
                    /\ \A i \in 1 .. Len(Logged(d)) : Logged(d)[i].op = "write"
  BY DEF Files
<1>1. disk[d] \in {EmptyDirectory, NoDirectory}
  BY DEF Init
<1>2. disk[d].log = << >> /\ (disk[d].file => disk[d].exists)
  BY <1>1 DEF EmptyDirectory, NoDirectory
<1>3. Len(Logged(d)) = Len(disk[d].log)
  BY SoundInit, LoggedType DEF Sound, TypeOK
<1> QED BY <1>2, <1>3, EmptySeq

(* What Write adds to a log.                                                *)
LEMMA LoggedAppend ==
  ASSUME Sound, Sound', NEW d \in Databases, NEW n \in Nat, NEW v \in Event,
         disk'[d].log = Append(disk[d].log, [seq |-> n, event |-> v])
  PROVE  /\ Logged(d)' = Append(Logged(d), v)
         /\ LastSeq(disk'[d].log) = n
         /\ Readable(disk'[d].log) <=>
              Readable(disk[d].log) /\ (disk[d].log = << >> \/ n = LastSeq(disk[d].log) + 1)
<1> DEFINE l == disk[d].log
           x == [seq |-> n, event |-> v]
           m == Append(l, x)
<1>1. l \in Seq(Record) /\ Logged(d) \in Seq(Event) /\ Len(Logged(d)) = Len(l)
      /\ \A i \in 1 .. Len(l) : Logged(d)[i] = l[i].event
  BY LoggedType DEF Sound, TypeOK
<1>2. x \in Record
  BY DEF Record
<1>3. /\ Len(l) \in Nat /\ m \in Seq(Record) /\ Len(m) = Len(l) + 1 /\ m[Len(l) + 1] = x
      /\ \A i \in 1 .. Len(l) : m[i] = l[i]
      /\ m # << >>
  BY <1>1, <1>2, AppendProperties, LenProperties
<1>4. \A i \in 1 .. Len(l) : l[i] \in Record
  BY <1>1, ElementOfSeq
<1>5. Logged(d)' = [i \in 1 .. Len(m) |-> m[i].event]
  BY DEF Logged
<1>6. disk'[d].log = m
  OBVIOUS
<1>7. x.seq = n /\ x.event = v
  OBVIOUS
<1> HIDE DEF l, x, m
<1>8. Logged(d)' = Append(Logged(d), v)
  <2> DEFINE s == [i \in 1 .. Len(m) |-> m[i].event]
             t == Append(Logged(d), v)
  <2>1. /\ t \in Seq(Event) /\ Len(t) = Len(l) + 1 /\ t[Len(l) + 1] = v
        /\ \A i \in 1 .. Len(l) : t[i] = l[i].event
    BY <1>1, AppendProperties
  <2>2. \A i \in 1 .. Len(m) : i \in 1 .. Len(l) \/ i = Len(l) + 1
    BY <1>3
  <2>3. \A i \in 1 .. Len(m) : m[i].event \in Event /\ m[i].event = t[i]
    <3>1. \A i \in 1 .. Len(l) : l[i].event \in Event
      BY <1>4 DEF Record
    <3> QED BY <1>3, <1>7, <2>1, <2>2, <3>1
  <2>4. s \in Seq(Event) /\ Len(s) = Len(m)
    BY <1>3, <2>3
  <2>5. \A i \in 1 .. Len(s) : s[i] = t[i]
    BY <2>3, <2>4
  <2> HIDE DEF s, t
  <2>6. s = t
    BY <1>3, <2>1, <2>4, <2>5, SeqEqual
  <2> QED BY <1>5, <2>6 DEF s, t
<1>9. LastSeq(m) = n
  BY <1>3, <1>7 DEF LastSeq, Last
<1>10. Readable(m) <=> Readable(l) /\ (l = << >> \/ n = LastSeq(l) + 1)
  <2>1. CASE l = << >>
    <3>1. Len(l) = 0
      BY <2>1, EmptySeq
    <3> QED BY <1>3, <2>1, <3>1 DEF Readable
  <2>2. CASE l # << >>
    <3>1. Len(l) >= 1 /\ LastSeq(l) = l[Len(l)].seq
      BY <1>1, <1>3, <2>2, EmptySeq DEF LastSeq, Last
    <3>2. \A i \in 2 .. Len(l) : m[i].seq = m[i - 1].seq + 1 <=> l[i].seq = l[i - 1].seq + 1
      BY <1>3
    <3>3. m[Len(l) + 1].seq = n /\ m[(Len(l) + 1) - 1].seq = l[Len(l)].seq
      BY <1>3, <1>7, <3>1
    <3>4. \A i \in 2 .. Len(m) : i \in 2 .. Len(l) \/ i = Len(l) + 1
      BY <1>3
    <3>5. Len(l) + 1 \in 2 .. Len(m) /\ \A i \in 2 .. Len(l) : i \in 2 .. Len(m)
      BY <1>3, <3>1
    <3> QED BY <2>2, <3>1, <3>2, <3>3, <3>4, <3>5 DEF Readable
  <2> QED BY <2>1, <2>2
<1> QED BY <1>6, <1>8, <1>9, <1>10 DEF l

(* What a successful Write does, in one place.                              *)
Sequence(r) ==
  LET e == req[r].engine
  IN IF engines[e].next = 0 THEN LastSeq(Log(e)) + 1 ELSE engines[e].next

(* What Write does, in one place: the engine's history, number and status,  *)
(* and its directory when the log it has open still has a name.             *)
LEMMA WriteEffect ==
  ASSUME Sound, Sound', NEW r \in Requests, Write(r)
  PROVE  LET e == req[r].engine
             d == engines[e].db
             v == EventOf(r)
             opens == engines[e].next = 0
         IN /\ req[r].step = "run" /\ engines[e].status = "ok"
            /\ e \in 1 .. Len(engines) /\ d \in Databases
            /\ v \in Event /\ v.by = r /\ v.hold = req[r].hold /\ v.op = "write"
            /\ Sequence(r) \in Nat /\ Sequence(r) >= 1
            /\ Len(engines') = Len(engines)
            /\ \A i \in 1 .. Len(engines) : i # e => engines'[i] = engines[i]
            /\ engines'[e].ran = Append(engines[e].ran, v) /\ engines[e].ran \in Seq(Event)
            /\ engines'[e].db = d /\ engines'[e].linked = engines[e].linked
            /\ \A x \in Databases : x # d => disk'[x] = disk[x]
            /\ \/ /\ opens /\ ~Readable(Log(e)) /\ disk' = disk
                  /\ engines'[e].next = 0 /\ engines'[e].status = "broken"
                  /\ Go(r, Failed(r))
               \/ /\ ~(opens /\ ~Readable(Log(e))) /\ Go(r, Continued(r))
                  /\ engines'[e].status = "ok"
                  /\ engines'[e].next = Sequence(r) + 1
                  /\ engines[e].linked =>
                       /\ disk'[d].exists /\ disk'[d].file
                       /\ disk'[d].log = Append(disk[d].log, [seq |-> Sequence(r), event |-> v])
                  /\ ~engines[e].linked => disk' = disk
<1> DEFINE e == req[r].engine
           d == engines[e].db
           v == EventOf(r)
           opens == engines[e].next = 0
           ran == Append(engines[e].ran, v)
<1>1. Fits(req[r]) /\ req[r] \in Request /\ Stmt(r) \in Statements
  BY Current
<1>2. req[r].step = "run" /\ Stmt(r).op = "write" /\ engines[e].status = "ok"
  BY DEF Write, At
<1>3. /\ e \in 1 .. Len(engines) /\ engines \in Seq(Engine) /\ Len(engines) \in Nat
      /\ DOMAIN engines = 1 .. Len(engines)
  BY <1>1, <1>2, LenProperties DEF Fits, Sound, TypeOK
<1>4. engines[e] \in Engine
  BY <1>3, ElementOfSeq
<1>5. d \in Databases /\ engines[e].ran \in Seq(Event) /\ engines[e].next \in Nat
  BY <1>4 DEF Engine
<1>6. v \in Event /\ v.by = r /\ v.hold = req[r].hold /\ v.op = "write"
  BY <1>1, <1>2 DEF EventOf, Event, Request
<1>7. LastSeq(disk[d].log) \in Nat /\ disk[d] \in Directory
  BY <1>5, LoggedType DEF Sound, TypeOK
<1>8. Sequence(r) \in Nat /\ Sequence(r) >= 1
      /\ Sequence(r) = IF opens THEN LastSeq(disk[d].log) + 1 ELSE engines[e].next
  BY <1>5, <1>7 DEF Sequence, Log
<1>9. CASE opens /\ ~Readable(disk[d].log)
  <2> DEFINE n == [engines[e] EXCEPT !.ran = ran, !.status = "broken"]
  <2>1. engines' = [engines EXCEPT ![e] = n] /\ disk' = disk /\ Go(r, Failed(r))
    BY <1>3, <1>9 DEF Write
  <2>2. /\ n.ran = ran /\ n.db = d /\ n.linked = engines[e].linked /\ n.next = 0
        /\ n.status = "broken"
    BY <1>4, <1>9 DEF Engine
  <2> HIDE DEF n
  <2>3. Len(engines') = Len(engines)
        /\ \A i \in 1 .. Len(engines) : engines'[i] = IF i = e THEN n ELSE engines[i]
    BY <1>3, <2>1
  <2> QED BY <1>2, <1>3, <1>5, <1>6, <1>8, <1>9, <2>1, <2>2, <2>3 DEF Log
<1>10. CASE ~(opens /\ ~Readable(disk[d].log))
  <2> DEFINE n == [engines[e] EXCEPT !.ran = ran, !.next = Sequence(r) + 1]
             file == [exists |-> TRUE, file |-> TRUE,
                      log |-> Append(disk[d].log, [seq |-> Sequence(r), event |-> v])]
  <2>1. /\ engines' = [engines EXCEPT ![e] = n] /\ Go(r, Continued(r))
        /\ disk' = IF engines[e].linked THEN [disk EXCEPT ![d] = file] ELSE disk
    BY <1>3, <1>8, <1>10 DEF Write
  <2>2. /\ n.ran = ran /\ n.db = d /\ n.linked = engines[e].linked
        /\ n.next = Sequence(r) + 1 /\ n.status = "ok"
    BY <1>2, <1>4 DEF Engine
  <2>3. /\ file.exists /\ file.file
        /\ file.log = Append(disk[d].log, [seq |-> Sequence(r), event |-> v])
    OBVIOUS
  <2> HIDE DEF n, file
  <2>4. Len(engines') = Len(engines)
        /\ \A i \in 1 .. Len(engines) : engines'[i] = IF i = e THEN n ELSE engines[i]
    BY <1>3, <2>1
  <2>5. \A x \in Databases : x # d => disk'[x] = disk[x]
    BY <2>1 DEF Sound, TypeOK
  <2>6. engines[e].linked => disk'[d] = file
    BY <1>5, <2>1 DEF Sound, TypeOK
  <2> QED BY <1>2, <1>3, <1>5, <1>6, <1>8, <1>10, <2>1, <2>2, <2>3, <2>4, <2>5, <2>6 DEF Log
<1> QED BY <1>9, <1>10

(* After a statement a batch keeps its place under the lock, or lets go.    *)
LEMMA ContinuedMove ==
  ASSUME Sound, NEW r \in Requests
  PROVE  LET q == Continued(r) IN
         /\ q.plan = req[r].plan /\ (q.step # "done" => q.at = req[r].at + 1)
         /\ q.step \in {"done", "next", req[r].step}
         /\ Holding(q) /\ Holding(req[r]) =>
              /\ q.plan.batch /\ q.step = req[r].step
              /\ q.hold = req[r].hold /\ q.engine = req[r].engine
<1>1. req[r] \in Request
  BY Current
<1>2. CASE KeepsLock(r)
  <2>1. Continued(r) = [req[r] EXCEPT !.at = req[r].at + 1] /\ req[r].plan.batch
    BY <1>2 DEF Continued, KeepsLock
  <2> QED BY <1>1, <2>1 DEF Request
<1>3. CASE ~KeepsLock(r)
  <2>1. Continued(r) = Succeeded(r, req[r].db)
    BY <1>3 DEF Continued
  <2>2. CASE req[r].at = Len(req[r].plan.script)
    <3>1. Continued(r) = [req[r] EXCEPT !.step = "done", !.answer = "ok"]
      BY <2>1, <2>2 DEF Succeeded, Answered
    <3> QED BY <1>1, <3>1 DEF Request, Holding
  <2>3. CASE req[r].at # Len(req[r].plan.script)
    <3>1. Continued(r) = [req[r] EXCEPT !.step = "next", !.at = req[r].at + 1, !.db = req[r].db]
      BY <2>1, <2>3 DEF Succeeded
    <3> QED BY <1>1, <3>1 DEF Request, Holding
  <2> QED BY <2>2, <2>3
<1> QED BY <1>2, <1>3

(* No step leaves a log without a file, or anything but writes in it.       *)
LEMMA FilesStep == Sound /\ Files /\ [Next]_vars => Files'
<1> SUFFICES ASSUME Sound, Files, [Next]_vars, NEW x \in Databases
             PROVE  /\ disk'[x].file \/ disk'[x].log = << >>
                    /\ disk'[x].file => disk'[x].exists
                    /\ \A i \in 1 .. Len(Logged(x)') : Logged(x)'[i].op = "write"
  BY DEF Files
<1>1. Sound'
  BY SoundStep
<1>2. /\ disk[x].file \/ disk[x].log = << >>
      /\ disk[x].file => disk[x].exists
      /\ \A i \in 1 .. Len(Logged(x)) : Logged(x)[i].op = "write"
  BY DEF Files
<1>3. /\ disk'[x].log = disk[x].log => Logged(x)' = Logged(x)
      /\ disk'[x].log = << >> => Len(Logged(x)') = 0
      /\ disk \in [Databases -> Directory]
      /\ Logged(x) \in Seq(Event) /\ Len(Logged(x)) \in Nat
  BY <1>1, LogsAfter DEF Sound, TypeOK
<1>4. CASE disk' = disk
  BY <1>2, <1>3, <1>4
<1>5. ASSUME NEW r \in Requests, Create(r)
      PROVE  disk'[x].log = disk[x].log /\ disk'[x].file = disk[x].file
             /\ (disk[x].exists => disk'[x].exists)
  <2>1. disk' = disk \/ disk' = [disk EXCEPT ![Stmt(r).db].exists = TRUE]
    BY <1>5 DEF Create
  <2> QED BY <1>3, <2>1 DEF Directory
<1>6. ASSUME NEW r \in Requests, DropFiles(r) \/ DropDir(r)
      PROVE  disk'[x] = disk[x] \/ (disk'[x].log = << >> /\ ~disk'[x].file)
  BY <1>3, <1>6 DEF DropFiles, DropDir, NoDirectory
<1>7. ASSUME NEW r \in Requests, Write(r), disk' # disk
      PROVE  /\ disk'[x].file \/ disk'[x].log = << >>
             /\ disk'[x].file => disk'[x].exists
             /\ \A i \in 1 .. Len(Logged(x)') : Logged(x)'[i].op = "write"
  <2>1. PICK d \in Databases, v \in Event, S \in Nat :
          /\ \A y \in Databases : y # d => disk'[y] = disk[y]
          /\ disk'[d].exists /\ disk'[d].file /\ v.op = "write"
          /\ disk'[d].log = Append(disk[d].log, [seq |-> S, event |-> v])
    <3> DEFINE e == req[r].engine
    <3>1. /\ engines[e].db \in Databases /\ EventOf(r) \in Event /\ EventOf(r).op = "write"
          /\ Sequence(r) \in Nat
          /\ \A y \in Databases : y # engines[e].db => disk'[y] = disk[y]
      BY <1>1, <1>7, WriteEffect
    <3>2. /\ disk'[engines[e].db].exists /\ disk'[engines[e].db].file
          /\ disk'[engines[e].db].log =
               Append(disk[engines[e].db].log, [seq |-> Sequence(r), event |-> EventOf(r)])
      BY <1>1, <1>7, WriteEffect
    <3> QED BY <3>1, <3>2
  <2>2. CASE x # d
    BY <1>2, <1>3, <2>1, <2>2
  <2>3. CASE x = d
    <3>1. Logged(x)' = Append(Logged(x), v)
      BY <1>1, <2>1, <2>3, LoggedAppend
    <3>2. /\ Len(Append(Logged(x), v)) = Len(Logged(x)) + 1
          /\ Append(Logged(x), v)[Len(Logged(x)) + 1] = v
          /\ \A i \in 1 .. Len(Logged(x)) : Append(Logged(x), v)[i] = Logged(x)[i]
      BY <1>3, AppendProperties
    <3>3. \A i \in 1 .. Len(Logged(x)) + 1 : i \in 1 .. Len(Logged(x)) \/ i = Len(Logged(x)) + 1
      BY <1>3
    <3> QED BY <1>2, <2>1, <2>3, <3>1, <3>2, <3>3
  <2> QED BY <2>2, <2>3
<1>8. CASE Restart
  <2>1. disk'[x] \in {disk[x], RecoveredDirectory(x)}
    BY <1>8 DEF Restart
  <2>2. disk'[x].log = disk[x].log /\ (disk'[x] = disk[x] \/ disk'[x].exists)
        /\ (disk[x].file => disk'[x].file)
    BY <1>3, <2>1 DEF RecoveredDirectory, Directory
  <2> QED BY <1>2, <1>3, <2>2
<1>9. disk' = disk \/ Restart
        \/ \E r \in Requests : Create(r) \/ DropFiles(r) \/ DropDir(r) \/ Write(r)
  BY DEF Next, Step, CatalogStep, Arrive, LaunchTask, TaskUse, DropRemove, DropActive,
    DropWait, UseCheck, UseSet, Resolve, Lookup, Lock, Read, StatementFails, Panic, vars
<1> QED BY <1>2, <1>3, <1>4, <1>5, <1>6, <1>7, <1>8, <1>9

(* After a start every engine is one that recovery made.                    *)
LEMMA StartEngine ==
  ASSUME disk \in [Databases -> Directory], NEW e \in 1 .. Len(EnginesOf(Found))
  PROVE  \E d \in Databases : EnginesOf(Found)[e] = RecoveredEngine(d)
<1> DEFINE order == SetToSeq(Found)
<1>1. IsFiniteSet(Found) /\ Found \subseteq Databases
  <2>1. Found \in SUBSET Databases
    BY NamesAssumption DEF Found
  <2> QED BY <2>1, NamesAssumption, FS_Subset
<1>2. order \in Seq(Found) /\ Len(order) \in Nat /\ DOMAIN order = 1 .. Len(order)
  BY <1>1, Enumeration
<1>3. EnginesOf(Found) = [i \in 1 .. Len(order) |-> RecoveredEngine(order[i])]
  BY <1>2 DEF EnginesOf
<1>4. Len(EnginesOf(Found)) = Len(order)
  BY <1>2, <1>3
<1>5. e \in 1 .. Len(order)
  BY <1>4
<1>6. order[e] \in Found
  BY <1>2, <1>5, ElementOfSeq
<1> QED BY <1>1, <1>3, <1>5, <1>6

-----------------------------------------------------------------------------
(* The writes of a history.                                                 *)

(* A set of numbers has a least one.                                        *)
LEMMA LeastOf ==
  ASSUME NEW T \in SUBSET Nat, T # {}
  PROVE  \E n \in T : \A k \in T : n <= k
<1> DEFINE R == OpToRel(<, Nat)
<1>1. IsWellFoundedOn(R, Nat)
  BY NatLessThanWellFounded
<1>2. \A x, y \in Nat : << x, y >> \in R <=> x < y
  BY DEF OpToRel
<1> HIDE DEF R
<1>3. PICK x \in T : \A y \in T : ~ (<< y, x >> \in R)
  BY <1>1, WFMin
<1>4. T \subseteq Nat /\ x \in Nat
  OBVIOUS
<1>5. \A k \in T : ~ (k < x)
  BY <1>2, <1>3, <1>4
<1>6. \A k \in T : x <= k
  BY <1>4, <1>5
<1> QED BY <1>6

(* A set of naturals that has 0 and never stops before m has m. *)
LEMMA Climb ==
  ASSUME NEW m \in Nat, NEW G, 0 \in G, \A n \in 1 .. m : n - 1 \in G => n \in G
  PROVE  \A n \in 0 .. m : n \in G
<1> DEFINE T == {n \in 0 .. m : n \notin G}
<1>1. T \in SUBSET Nat
  OBVIOUS
<1>2. SUFFICES ASSUME T # {} PROVE FALSE
  OBVIOUS
<1>3. PICK n \in T : \A k \in T : n <= k
  BY <1>1, <1>2, LeastOf
<1>4. n # 0 /\ n \in 1 .. m /\ n - 1 \in 0 .. m
  BY <1>3
<1>5. n - 1 \in G
  BY <1>3, <1>4
<1> QED BY <1>3, <1>4, <1>5

(* The recursion of Writes, over the first m events.                        *)
Sieved(events, m, f) ==
  [n \in 0 .. m |->
     IF n = 0 THEN << >>
     ELSE IF events[n].op = "write" THEN Append(f[n - 1], events[n]) ELSE f[n - 1]]

(* The function that Writes is computed by exists up to every length.       *)
LEMMA SieveExists ==
  ASSUME NEW events, NEW m \in Nat
  PROVE  \E f : f = Sieved(events, m, f)
<1> DEFINE G == {n \in 0 .. m : \E f : f = Sieved(events, n, f)}
<1>1. 0 \in G
  <2> DEFINE f == [n \in 0 .. 0 |-> << >>]
  <2>1. f = Sieved(events, 0, f)
    BY DEF Sieved
  <2> QED BY <2>1
<1>2. ASSUME NEW n \in 1 .. m, n - 1 \in G PROVE n \in G
  <2>1. PICK f : f = Sieved(events, n - 1, f)
    BY <1>2
  <2> DEFINE last == IF events[n].op = "write" THEN Append(f[n - 1], events[n]) ELSE f[n - 1]
             g == [k \in 0 .. n |-> IF k = n THEN last ELSE f[k]]
  <2>2. n \in Nat /\ n > 0
    OBVIOUS
  <2>3. ASSUME NEW k \in 0 .. n
        PROVE  g[k] = IF k = 0 THEN << >>
                 ELSE IF events[k].op = "write" THEN Append(g[k - 1], events[k]) ELSE g[k - 1]
    <3>1. CASE k = n
      <4>1. g[k] = last /\ g[k - 1] = f[n - 1] /\ k # 0
        BY <2>2, <3>1
      <4> QED BY <4>1, <3>1
    <3>2. CASE k # n
      <4>1. k \in 0 .. n - 1
        BY <2>2, <3>2
      <4>2. f[k] = IF k = 0 THEN << >>
                   ELSE IF events[k].op = "write" THEN Append(f[k - 1], events[k]) ELSE f[k - 1]
        BY <2>1, <4>1 DEF Sieved
      <4>3. g[k] = f[k]
        BY <3>2
      <4>4. k # 0 => g[k - 1] = f[k - 1]
        BY <4>1, <2>2
      <4> QED BY <4>2, <4>3, <4>4
    <3> QED BY <3>1, <3>2
  <2> HIDE DEF last
  <2>4. g = Sieved(events, n, g)
    <3> HIDE DEF g
    <3>1. g = [k \in 0 .. n |-> g[k]]
      BY DEF g
    <3> QED BY <2>3, <3>1 DEF Sieved
  <2>5. \E h : h = Sieved(events, n, h)
    BY <2>4
  <2> QED BY <2>5
<1>3. m \in G
  <2> HIDE DEF G
  <2>1. \A n \in 1 .. m : n - 1 \in G => n \in G
    BY <1>2
  <2> QED BY <1>1, <2>1, Climb
<1> QED BY <1>3

(* Writes is that function's last value.                                    *)
LEMMA WritesSieve ==
  ASSUME NEW events, Len(events) \in Nat
  PROVE  \E f : f = Sieved(events, Len(events), f) /\ Writes(events) = f[Len(events)]
<1> DEFINE f == CHOOSE f : f = Sieved(events, Len(events), f)
<1>1. f = Sieved(events, Len(events), f)
  BY SieveExists
<1>2. Writes(events) = f[Len(events)]
  BY DEF Writes, Sieved
<1> QED BY <1>1, <1>2

(* Equal events are sieved equally.                                         *)
LEMMA SieveOnce ==
  ASSUME NEW a, NEW b, NEW m \in Nat, NEW n \in Nat, NEW f, NEW g, m <= n,
         f = Sieved(a, m, f), g = Sieved(b, n, g), \A i \in 1 .. m : a[i] = b[i]
  PROVE  f[m] = g[m]
<1> DEFINE G == {i \in 0 .. m : f[i] = g[i]}
<1>1. 0 \in G
  BY DEF Sieved
<1>2. ASSUME NEW i \in 1 .. m, i - 1 \in G PROVE i \in G
  <2>1. i \in 0 .. m /\ i \in 0 .. n /\ i # 0
    OBVIOUS
  <2>2. f[i] = IF a[i].op = "write" THEN Append(f[i - 1], a[i]) ELSE f[i - 1]
    BY <2>1 DEF Sieved
  <2>3. g[i] = IF b[i].op = "write" THEN Append(g[i - 1], b[i]) ELSE g[i - 1]
    BY <2>1 DEF Sieved
  <2> QED BY <1>2, <2>1, <2>2, <2>3
<1>3. m \in G
  <2> HIDE DEF G
  <2>1. \A i \in 1 .. m : i - 1 \in G => i \in G
    BY <1>2
  <2> QED BY <1>1, <2>1, Climb
<1> QED BY <1>3

(* A read leaves the writes alone, a write comes behind them.               *)
LEMMA WritesAppend ==
  ASSUME NEW events \in Seq(Event), NEW v \in Event
  PROVE  Writes(Append(events, v)) =
           IF v.op = "write" THEN Append(Writes(events), v) ELSE Writes(events)
<1> DEFINE n == Len(events)
           longer == Append(events, v)
<1>1. n \in Nat /\ Len(longer) = n + 1 /\ longer[n + 1] = v
      /\ \A i \in 1 .. n : longer[i] = events[i]
  BY AppendProperties, LenProperties
<1>2. PICK f : f = Sieved(events, n, f) /\ Writes(events) = f[n]
  BY <1>1, WritesSieve
<1> HIDE DEF longer, n
<1>3. PICK g : g = Sieved(longer, n + 1, g) /\ Writes(longer) = g[n + 1]
  <2>1. Len(longer) \in Nat
    BY <1>1
  <2>2. \E g : g = Sieved(longer, Len(longer), g) /\ Writes(longer) = g[Len(longer)]
    BY <2>1, WritesSieve
  <2> QED BY <1>1, <2>2
<1>4. f[n] = g[n]
  BY <1>1, <1>2, <1>3, SieveOnce
<1>5. g[n + 1] = IF v.op = "write" THEN Append(g[n], v) ELSE g[n]
  <2>1. n + 1 \in 0 .. n + 1 /\ n + 1 # 0 /\ (n + 1) - 1 = n
    BY <1>1
  <2> QED BY <1>1, <1>3, <2>1 DEF Sieved
<1> QED BY <1>2, <1>3, <1>4, <1>5 DEF longer

(* No events, no writes.                                                    *)
LEMMA WritesEmpty == Writes(<< >>) = << >>
<1>1. PICK f : f = Sieved(<< >>, 0, f) /\ Writes(<< >>) = f[0]
  BY WritesSieve, EmptySeq
<1> QED BY <1>1 DEF Sieved

(* What consists of writes loses nothing.                                   *)
LEMMA WritesOfWrites ==
  ASSUME NEW events \in Seq(Event), \A i \in 1 .. Len(events) : events[i].op = "write"
  PROVE  Writes(events) = events
<1> DEFINE n == Len(events)
<1>1. n \in Nat /\ \A i \in 1 .. n : events[i] \in Event
  BY LenProperties, ElementOfSeq
<1>2. PICK f : f = Sieved(events, n, f) /\ Writes(events) = f[n]
  BY <1>1, WritesSieve
<1> DEFINE G == {i \in 0 .. n : /\ f[i] \in Seq(Event) /\ Len(f[i]) = i
                                /\ \A k \in 1 .. i : f[i][k] = events[k]}
<1> HIDE DEF n
<1>3. 0 \in G
  <2>1. f[0] = << >>
    BY <1>1, <1>2 DEF Sieved
  <2>2. f[0] \in Seq(Event) /\ Len(f[0]) = 0
    BY <2>1, EmptySeq
  <2>3. 0 \in 0 .. n /\ \A k \in 1 .. 0 : FALSE
    BY <1>1
  <2> QED BY <2>2, <2>3
<1>4. ASSUME NEW i \in 1 .. n, i - 1 \in G PROVE i \in G
  <2>1. i \in 0 .. n /\ i # 0
    BY <1>1
  <2>2. f[i] = Append(f[i - 1], events[i])
    BY <1>2, <2>1 DEF Sieved, n
  <2>3. /\ f[i - 1] \in Seq(Event) /\ Len(f[i - 1]) = i - 1
        /\ \A k \in 1 .. i - 1 : f[i - 1][k] = events[k]
    BY <1>4
  <2>4. events[i] \in Event
    BY <1>1
  <2>5. /\ f[i] \in Seq(Event) /\ Len(f[i]) = (i - 1) + 1
        /\ \A k \in 1 .. i - 1 : f[i][k] = f[i - 1][k]
        /\ f[i][(i - 1) + 1] = events[i]
    BY <2>2, <2>3, <2>4, AppendProperties
  <2>a. (i - 1) + 1 = i /\ i \in Nat
    BY <2>1, <1>1
  <2>6. Len(f[i]) = i /\ f[i][i] = events[i] /\ i \in Nat
    BY <2>5, <2>a
  <2>7. \A k \in 1 .. i : f[i][k] = events[k]
    <3>1. \A k \in 1 .. i - 1 : f[i][k] = events[k]
      BY <2>3, <2>5
    <3>2. \A k \in 1 .. i : k \in 1 .. i - 1 \/ k = i
      BY <2>a
    <3> QED BY <2>6, <3>1, <3>2
  <2> QED BY <2>1, <2>5, <2>6, <2>7
<1>5. n \in G
  <2> HIDE DEF G
  <2>1. \A i \in 1 .. n : i - 1 \in G => i \in G
    BY <1>4
  <2>2. n \in Nat /\ 0 \in G
    BY <1>1, <1>3
  <2>3. \A i \in 0 .. n : i \in G
    BY <2>1, <2>2, Climb
  <2> QED BY <2>2, <2>3
<1>6. f[n] \in Seq(Event) /\ Len(f[n]) = n /\ \A k \in 1 .. n : f[n][k] = events[k]
  BY <1>5
<1>7. f[n] = events
  BY <1>6, SeqEqual DEF n
<1> QED BY <1>2, <1>7

-----------------------------------------------------------------------------
(* Catalog, directories and logs.                                           *)

(* An engine shows what its log holds.                                      *)
Shown(e) ==
  LET d == engines[e].db IN
  /\ engines[e].status = "ok" /\ engines[e].linked
  /\ Logged(d) = Writes(engines[e].ran)
  /\ engines[e].next # 0 => engines[e].next = LastSeq(disk[d].log) + 1 /\ disk[d].file

(* One DROP at a time, of a name that is no longer in the catalog.          *)
OneDrop(d) ==
  /\ \A r, o \in Dropping(d) : r = o
  /\ Dropping(d) # {} => dbs[d] = 0

Present(d) ==
  /\ Dropping(d) = {} => (dbs[d] # 0 <=> disk[d].exists)
  /\ \A r \in Dropping(d) :
       disk[d].exists /\ (At(r, "dropDir") => ~disk[d].file /\ disk[d].log = << >>)

(* The engine a name is served by, or whose statements its DROP waits for.  *)
Serves(e, d) ==
  dbs[d] = e \/ \E r \in Dropping(d) : req[r].engine = e /\ req[r].step \in {"dropActive", "dropWait"}

Settled(d) ==
  /\ OneDrop(d) /\ Present(d) /\ Readable(disk[d].log)
  /\ \A r \in Requests : Holding(req[r]) /\ engines[req[r].engine].db = d => Serves(req[r].engine, d)
  /\ \A e \in 1 .. Len(engines) : engines[e].db = d /\ Serves(e, d) => Shown(e)

Consistent == \A d \in Databases : d \in raced \/ Settled(d)

(* Settled databases are what the server's two promises ask for.            *)
LEMMA ConsistentShown == Sound /\ Consistent => ShownIsDurable /\ CatalogMatchesDisk
<1> SUFFICES ASSUME Sound, Consistent PROVE ShownIsDurable /\ CatalogMatchesDisk
  OBVIOUS
<1>1. ASSUME NEW d \in Registered \ raced
      PROVE  LET e == engines[dbs[d]] IN
             /\ e.status = "ok" /\ e.linked
             /\ Readable(disk[d].log)
             /\ Logged(d) = Writes(e.ran)
             /\ e.next # 0 => e.next = LastSeq(disk[d].log) + 1 /\ disk[d].file
  <2>1. d \in Databases /\ dbs[d] # 0 /\ Settled(d)
    BY DEF Registered, Consistent
  <2>2. dbs[d] \in 1 .. Len(engines) /\ engines[dbs[d]].db = d
    BY <2>1, LenProperties DEF Sound, TypeOK, Served
  <2>3. Shown(dbs[d])
    BY <2>1, <2>2 DEF Settled, Serves
  <2> QED BY <2>1, <2>2, <2>3 DEF Shown, Settled
<1>2. ShownIsDurable
  BY <1>1 DEF ShownIsDurable
<1>3. CatalogMatchesDisk
  BY DEF CatalogMatchesDisk, Consistent, Settled, Present, Registered
<1> QED BY <1>2, <1>3

(* A name is served by one engine at most.                                  *)
LEMMA ServesOne ==
  ASSUME NEW d \in Databases, OneDrop(d), NEW e, NEW f, e # 0, f # 0, Serves(e, d), Serves(f, d)
  PROVE  e = f
BY DEF OneDrop, Serves

(* A statement that no DROP would outrun works on a serving engine.         *)
LEMMA ServesWaited ==
  ASSUME Sound, NEW e \in 1 .. Len(engines), ~OutlivesDrop(e)
  PROVE  Serves(e, engines[e].db)
<1>1. CASE dbs[engines[e].db] = e
  BY <1>1 DEF Serves
<1>2. CASE \E r \in Requests : req[r].engine = e /\ req[r].step \in {"dropActive", "dropWait"}
  <2>1. PICK r \in Requests : req[r].engine = e /\ req[r].step \in {"dropActive", "dropWait"}
    BY <1>2
  <2>2. Fits(req[r]) /\ Stmt(r) = req[r].plan.script[req[r].at]
    BY Current
  <2>3. Stmt(r).db = engines[e].db
    BY <2>1, <2>2 DEF Fits, DropSteps
  <2> QED BY <2>1, <2>3 DEF Serves, Dropping
<1> QED BY <1>1, <1>2 DEF OutlivesDrop

(* How r's move shows in the drops of d.                                    *)
Drops(q, d) == q.step \in DropSteps /\ q.plan.script[q.at].db = d

(* How one request's move shows in who is dropping a name.                  *)
LEMMA DroppingMove ==
  ASSUME Sound, NEW d, NEW r \in Requests, NEW q, Go(r, q)
  PROVE  /\ req'[r] = q /\ \A o \in Requests : o # r => req'[o] = req[o]
         /\ r \in Dropping(d) <=> Drops(req[r], d)
         /\ Dropping(d)' = (Dropping(d) \ {r}) \cup (IF Drops(q, d) THEN {r} ELSE {})
<1>1. /\ req'[r] = q /\ \A o \in Requests : o # r => req'[o] = req[o]
  BY DEF Go, Sound, TypeOK
<1>2. \A o \in Requests : o \in Dropping(d) <=> Drops(req[o], d)
  BY DEF Dropping, Drops, Stmt, DropSteps
<1>3. Dropping(d)' = {o \in Requests : Drops(req'[o], d)}
  BY DEF Dropping, Drops, Stmt, DropSteps
<1>4. Dropping(d) \subseteq Requests
  BY DEF Dropping
<1> QED BY <1>1, <1>2, <1>3, <1>4

(* A step about another database.                                           *)
LEMMA Elsewhere ==
  ASSUME Sound, NEW d \in Databases, Settled(d), NEW r \in Requests, NEW q, Go(r, q),
         dbs'[d] = dbs[d], disk'[d] = disk[d], Len(engines) <= Len(engines'),
         \A e \in 1 .. Len(engines) : engines'[e].db = engines[e].db,
         \A e \in 1 .. Len(engines') : engines'[e].db = d =>
           /\ e \in 1 .. Len(engines)
           /\ engines'[e].status = engines[e].status /\ engines'[e].linked = engines[e].linked
           /\ engines'[e].next = engines[e].next
           /\ Writes(engines'[e].ran) = Writes(engines[e].ran),
         ~Drops(req[r], d), ~Drops(q, d),
         Holding(q) => /\ q.engine = req[r].engine
                       /\ \/ Holding(req[r])
                          \/ req[r].step = "lock" /\ (engines[q.engine].db = d => Serves(q.engine, d))
  PROVE  Settled(d)'
<1>1. /\ req'[r] = q /\ \A o \in Requests : o # r => req'[o] = req[o]
      /\ r \notin Dropping(d) /\ Dropping(d)' = Dropping(d)
  <2>1. /\ req'[r] = q /\ \A o \in Requests : o # r => req'[o] = req[o]
        /\ r \in Dropping(d) <=> Drops(req[r], d)
        /\ Dropping(d)' = (Dropping(d) \ {r}) \cup (IF Drops(q, d) THEN {r} ELSE {})
    BY DroppingMove
  <2> QED BY <2>1
<1>2. \A o \in Dropping(d) : req'[o] = req[o]
  BY <1>1 DEF Dropping
<1>3. Logged(d)' = Logged(d)
  BY DEF Logged
<1>4. OneDrop(d)'
  BY <1>1 DEF Settled, OneDrop
<1>5. Present(d)'
  BY <1>1, <1>2 DEF Settled, Present, At
<1>6. Readable(disk[d].log)'
  BY DEF Settled
<1>7. \A e : Serves(e, d)' <=> Serves(e, d)
  BY <1>1, <1>2 DEF Serves
<1>8. ASSUME NEW o \in Requests, Holding(req'[o]), engines'[req'[o].engine].db = d
      PROVE  Serves(req[o].engine, d)'
  <2>1. req'[o].engine = req[o].engine /\ (Holding(req[o]) \/ req[o].step = "lock")
    BY <1>1, <1>8
  <2>2. req[o].engine \in 1 .. Len(engines)
    BY <2>1, Current DEF Fits, Holding
  <2>3. engines[req[o].engine].db = d
    BY <1>8, <2>1, <2>2
  <2>4. CASE Holding(req[o])
    <3>1. Serves(req[o].engine, d)
      BY <2>3, <2>4 DEF Settled
    <3>2. Serves(req[o].engine, d)' <=> req'[o].engine = req'[o].engine /\ (dbs'[d] = req'[o].engine
            \/ \E p \in Dropping(d)' : req'[p].engine = req'[o].engine /\ req'[p].step \in {"dropActive", "dropWait"})
      BY DEF Serves
    <3> QED BY <1>1, <1>2, <2>1, <3>1, <3>2 DEF Serves
  <2>5. CASE ~Holding(req[o])
    <3>1. o = r /\ Holding(q)
      BY <1>1, <1>8, <2>5
    <3>2. (engines[q.engine].db = d => Serves(q.engine, d)) /\ q.engine = req[r].engine
      BY <2>5, <3>1
    <3>3. Serves(req[o].engine, d)
      BY <2>3, <3>1, <3>2
    <3> QED BY <1>1, <1>2, <2>1, <3>3 DEF Serves
  <2> QED BY <2>4, <2>5
<1>9. ASSUME NEW e \in 1 .. Len(engines'), engines'[e].db = d, Serves(e, d)'
      PROVE  Shown(e)'
  <2>1. Shown(e) /\ engines[e].db = d
    BY <1>7, <1>9 DEF Settled
  <2>2. Logged(engines[e].db)' = Logged(d)
    BY <1>9 DEF Logged
  <2> QED BY <1>9, <2>1, <2>2 DEF Shown
<1> QED BY <1>4, <1>5, <1>6, <1>8, <1>9 DEF Settled

(* Where the moves of a request lead.                                       *)
LEMMA PlainMove ==
  ASSUME Sound, NEW r \in Requests
  PROVE  /\ Failed(r).step = "done"
         /\ \A db : Succeeded(r, db).step \in {"done", "next"}
         /\ \A s : /\ To(r, s).step = s /\ To(r, s).engine = req[r].engine
                   /\ To(r, s).plan = req[r].plan /\ To(r, s).at = req[r].at
                   /\ \A x : [To(r, s) EXCEPT !.db = x].step = s
                   /\ \A x : [To(r, s) EXCEPT !.session = x].step = s
                   /\ \A x, y : [To(r, s) EXCEPT !.session = x, !.db = y].step = s
                   /\ \A x : [To(r, s) EXCEPT !.target = x].step = s
                   /\ \A x, y : [To(r, s) EXCEPT !.engine = x, !.hold = y].step = s
<1>1. req[r] \in Request
  BY Current
<1>2. Failed(r).step = "done"
  BY <1>1 DEF Failed, Answered, Request
<1>3. ASSUME NEW db PROVE Succeeded(r, db).step \in {"done", "next"}
  BY <1>1 DEF Succeeded, Answered, Request
<1>4. ASSUME NEW s
      PROVE  /\ To(r, s).step = s /\ To(r, s).engine = req[r].engine
             /\ To(r, s).plan = req[r].plan /\ To(r, s).at = req[r].at
             /\ \A x : [To(r, s) EXCEPT !.db = x].step = s
             /\ \A x : [To(r, s) EXCEPT !.session = x].step = s
             /\ \A x, y : [To(r, s) EXCEPT !.session = x, !.db = y].step = s
             /\ \A x : [To(r, s) EXCEPT !.target = x].step = s
             /\ \A x, y : [To(r, s) EXCEPT !.engine = x, !.hold = y].step = s
  BY <1>1 DEF To, Request
<1> QED BY <1>2, <1>3, <1>4

(* A step that leaves the catalog, the directories and what engines show.   *)
EnginesAlike ==
  /\ Len(engines') = Len(engines)
  /\ \A e \in 1 .. Len(engines) :
       /\ engines'[e].db = engines[e].db /\ engines'[e].status = engines[e].status
       /\ engines'[e].linked = engines[e].linked /\ engines'[e].next = engines[e].next
       /\ Writes(engines'[e].ran) = Writes(engines[e].ran)

(* A step that leaves catalog, directories and logged writes alone.         *)
LEMMA ConsistentCalm ==
  ASSUME Sound, Consistent, NEW r \in Requests, NEW q, Go(r, q),
         dbs' = dbs, disk' = disk, EnginesAlike, raced \subseteq raced',
         req[r].step \notin DropSteps, q.step \notin DropSteps,
         Holding(q) => /\ q.engine = req[r].engine
                       /\ \/ Holding(req[r])
                          \/ /\ req[r].step = "lock"
                             /\ Serves(q.engine, engines[q.engine].db)
                                  \/ engines[q.engine].db \in raced'
  PROVE  Consistent'
<1> SUFFICES ASSUME NEW d \in Databases, d \notin raced' PROVE Settled(d)'
  BY DEF Consistent
<1>1. Settled(d)
  BY DEF Consistent
<1>2. ~Drops(req[r], d) /\ ~Drops(q, d)
  BY DEF Drops
<1>3. Holding(q) => /\ q.engine = req[r].engine
                    /\ \/ Holding(req[r])
                       \/ req[r].step = "lock" /\ (engines[q.engine].db = d => Serves(q.engine, d))
  OBVIOUS
<1>4. Len(engines) \in Nat
  BY LenProperties DEF Sound, TypeOK
<1> QED BY <1>1, <1>2, <1>3, <1>4, Elsewhere DEF EnginesAlike

(* The steps between the locks, and the lock itself: a statement that locks *)
(* an engine which nobody's DROP will wait for has raced.                   *)
LEMMA ConsistentQuiet ==
  ASSUME Sound, Consistent, NEW r \in Requests,
         \/ Arrive(r) \/ LaunchTask(r) \/ TaskUse(r) \/ UseCheck(r) \/ UseSet(r)
         \/ Resolve(r) \/ Lookup(r) \/ Lock(r) \/ StatementFails(r)
  PROVE  Consistent'
<1>1. dbs' = dbs /\ disk' = disk /\ engines' = engines /\ req[r].step \notin DropSteps
  BY DEF Arrive, LaunchTask, TaskUse, UseCheck, UseSet, Resolve, Lookup, Lock, StatementFails,
    At, DropSteps
<1>2. EnginesAlike /\ raced \subseteq raced'
  BY <1>1 DEF EnginesAlike, Arrive, LaunchTask, TaskUse, UseCheck, UseSet, Resolve, Lookup,
    Lock, StatementFails
<1>3. SUFFICES \E q : /\ Go(r, q) /\ q.step \notin DropSteps
                      /\ Holding(q) =>
                           /\ q.engine = req[r].engine
                           /\ req[r].step = "lock"
                           /\ Serves(q.engine, engines[q.engine].db)
                                \/ engines[q.engine].db \in raced'
  BY <1>1, <1>2, ConsistentCalm
<1>4. CASE Arrive(r)
  <2> DEFINE q == CASE req[r].session = "task" -> To(r, "task")
                    [] req[r].session \in {"pinned", "following"} /\ req[r].db = NoDb ->
                         [To(r, "next") EXCEPT !.db = active]
                    [] OTHER -> To(r, "next")
  <2>1. Go(r, q)
    BY <1>4 DEF Arrive
  <2>2. q.step \in {"task", "next"}
    BY PlainMove
  <2> QED BY <2>1, <2>2 DEF Holding, DropSteps
<1>5. CASE LaunchTask(r)
  <2> DEFINE q == IF req[r].db \in Registered
                    THEN To(r, "taskUse")
                    ELSE [To(r, "next") EXCEPT !.session = "server", !.db = NoDb]
  <2>1. Go(r, q)
    BY <1>5 DEF LaunchTask
  <2>2. q.step \in {"taskUse", "next"}
    BY PlainMove
  <2> QED BY <2>1, <2>2 DEF Holding, DropSteps
<1>6. CASE TaskUse(r) \/ UseCheck(r) \/ UseSet(r) \/ Resolve(r) \/ StatementFails(r)
  <2>1. \/ Go(r, [To(r, "next") EXCEPT !.session = "following"])
        \/ Go(r, To(r, "use")) \/ Go(r, Failed(r))
        \/ \E db : Go(r, Succeeded(r, db))
        \/ \E x : Go(r, [To(r, "lookup") EXCEPT !.target = x])
    BY <1>6 DEF TaskUse, UseCheck, UseSet, Resolve, StatementFails
  <2>2. /\ [To(r, "next") EXCEPT !.session = "following"].step = "next"
        /\ To(r, "use").step = "use" /\ Failed(r).step = "done"
        /\ \A db : Succeeded(r, db).step \in {"done", "next"}
        /\ \A x : [To(r, "lookup") EXCEPT !.target = x].step = "lookup"
    BY PlainMove
  <2>3. \E q : Go(r, q) /\ q.step \in {"next", "use", "done", "lookup"}
    BY <2>1, <2>2
  <2> QED BY <2>3 DEF Holding, DropSteps
<1>7. CASE Lookup(r)
  <2>1. \E q : Go(r, q) /\ q.step \in {"lock", "done"}
    <3>1. \/ Go(r, Failed(r))
          \/ Go(r, [To(r, "lock") EXCEPT !.engine = dbs[req[r].target], !.hold = req[r].at])
      BY <1>7 DEF Lookup
    <3>2. /\ Failed(r).step = "done"
          /\ [To(r, "lock") EXCEPT !.engine = dbs[req[r].target], !.hold = req[r].at].step = "lock"
      BY PlainMove
    <3> QED BY <3>1, <3>2
  <2> QED BY <2>1 DEF Holding, DropSteps
<1>8. CASE Lock(r)
  <2> DEFINE e == req[r].engine
  <2>1. CASE engines[e].poisoned
    <3>1. Go(r, Failed(r)) /\ Failed(r).step = "done"
      BY <1>8, <2>1, PlainMove DEF Lock
    <3> QED BY <3>1 DEF Holding, DropSteps
  <2>2. CASE ~engines[e].poisoned
    <3> DEFINE q == To(r, IF Exclusive(r) THEN "run" ELSE "read")
    <3>1. /\ Go(r, q) /\ req[r].step = "lock"
          /\ raced' = IF OutlivesDrop(e) THEN raced \cup {engines[e].db} ELSE raced
      BY <1>8, <2>2 DEF Lock, At
    <3>2. q.step \in {"run", "read"} /\ q.engine = e
      BY PlainMove
    <3>3. e \in 1 .. Len(engines)
      BY <3>1, Current DEF Fits
    <3>4. Serves(e, engines[e].db) \/ engines[e].db \in raced'
      BY <3>1, <3>3, ServesWaited
    <3>5. q.step \notin DropSteps
      BY <3>2 DEF DropSteps
    <3> QED BY <3>1, <3>2, <3>4, <3>5
  <2> QED BY <2>1, <2>2
<1> QED BY <1>4, <1>5, <1>6, <1>7, <1>8

(* A read adds no write, and a panic writes nothing.                        *)
LEMMA ConsistentRead ==
  ASSUME Sound, Consistent, NEW r \in Requests, Read(r) \/ Panic(r) PROVE Consistent'
<1> DEFINE e == req[r].engine
           v == EventOf(r)
<1>1. Holding(req[r]) /\ req[r].step \notin DropSteps
  BY DEF Read, Panic, Holding, At, DropSteps
<1>2. e \in 1 .. Len(engines) /\ engines \in Seq(Engine) /\ Len(engines) \in Nat
  BY <1>1, Current, LenProperties DEF Fits, Holding, Sound, TypeOK
<1>3. engines[e] \in Engine
  BY <1>2, ElementOfSeq
<1>4. engines[e].ran \in Seq(Event)
  BY <1>3 DEF Engine
<1>5. PICK q \in {Failed(r), Continued(r)} : Go(r, q)
  BY DEF Read, Panic
<1>6. dbs' = dbs /\ disk' = disk /\ raced' = raced
  BY DEF Read, Panic
<1>7. q.step \in {"done", "next", req[r].step} /\ (Holding(q) => q.engine = req[r].engine)
  <2>1. CASE q = Failed(r)
    BY <2>1, PlainMove DEF Holding
  <2>2. CASE q = Continued(r)
    BY <1>1, <2>2, ContinuedMove
  <2> QED BY <2>1, <2>2
<1>8. q.step \notin DropSteps
  BY <1>1, <1>7 DEF DropSteps
<1>9. ASSUME NEW n \in Engine, engines' = [engines EXCEPT ![e] = n],
             n.db = engines[e].db, n.status = engines[e].status, n.linked = engines[e].linked,
             n.next = engines[e].next, Writes(n.ran) = Writes(engines[e].ran)
      PROVE  EnginesAlike
  <2>1. Len(engines') = Len(engines)
        /\ \A i \in 1 .. Len(engines) : engines'[i] = IF i = e THEN n ELSE engines[i]
    BY <1>2, <1>9, ExceptSeq
  <2> QED BY <1>9, <2>1 DEF EnginesAlike
<1>10. CASE Read(r)
  <2> DEFINE n == [engines[e] EXCEPT !.ran = Append(engines[e].ran, v)]
  <2>1. engines' = [engines EXCEPT ![e] = n] /\ Stmt(r).op = "read"
    BY <1>10 DEF Read
  <2>2. v \in Event /\ v.op = "read"
    BY <2>1, Current DEF EventOf, Event, Request
  <2>3. Append(engines[e].ran, v) \in Seq(Event)
        /\ Writes(Append(engines[e].ran, v)) = Writes(engines[e].ran)
    BY <1>4, <2>2, WritesAppend, AppendProperties
  <2>4. n \in Engine /\ n.ran = Append(engines[e].ran, v) /\ n.db = engines[e].db
        /\ n.next = engines[e].next /\ n.linked = engines[e].linked
        /\ n.status = engines[e].status
    <3> HIDE DEF v
    <3> QED BY <1>3, <2>3 DEF Engine
  <2> HIDE DEF n, v
  <2>5. EnginesAlike
    BY <1>9, <2>1, <2>3, <2>4
  <2> QED BY <1>1, <1>5, <1>6, <1>7, <1>8, <2>5, ConsistentCalm
<1>11. CASE Panic(r)
  <2> DEFINE n == [engines[e] EXCEPT !.poisoned = TRUE]
  <2>1. engines' = [engines EXCEPT ![e] = n]
    BY <1>11 DEF Panic
  <2>2. n \in Engine /\ n.ran = engines[e].ran /\ n.db = engines[e].db
        /\ n.next = engines[e].next /\ n.linked = engines[e].linked
        /\ n.status = engines[e].status
    BY <1>3 DEF Engine
  <2> HIDE DEF n
  <2>3. EnginesAlike
    BY <1>9, <2>1, <2>2
  <2> QED BY <1>1, <1>5, <1>6, <1>7, <1>8, <2>3, ConsistentCalm
<1> QED BY <1>10, <1>11

(* Unchanged engines show the same.                                         *)
LEMMA SameAlike == ASSUME Sound, engines' = engines PROVE EnginesAlike
BY DEF EnginesAlike

(* A step that is about one database settles or races that one.             *)
LEMMA ConsistentOne ==
  ASSUME Sound, Consistent, NEW d \in Databases, NEW r \in Requests, NEW q, Go(r, q),
         \A x \in Databases : x # d => dbs'[x] = dbs[x] /\ disk'[x] = disk[x],
         raced \subseteq raced', Len(engines) <= Len(engines'),
         \A e \in 1 .. Len(engines) : engines'[e].db = engines[e].db,
         \A e \in 1 .. Len(engines) : engines[e].db # d => engines'[e] = engines[e],
         \A e \in 1 .. Len(engines') : e \notin 1 .. Len(engines) => engines'[e].db = d,
         \A x \in Databases : x # d => ~Drops(req[r], x) /\ ~Drops(q, x),
         Holding(q) => Holding(req[r]) /\ q.engine = req[r].engine,
         d \in raced' \/ Settled(d)'
  PROVE  Consistent'
<1> SUFFICES ASSUME NEW x \in Databases, x # d, x \notin raced' PROVE Settled(x)'
  BY DEF Consistent
<1>1. Settled(x)
  BY DEF Consistent
<1>2. \A e \in 1 .. Len(engines') : engines'[e].db = x =>
        e \in 1 .. Len(engines) /\ engines'[e] = engines[e]
  OBVIOUS
<1> QED BY <1>1, <1>2, Elsewhere

(* The engine a DROP works on has the name it drops.                        *)
LEMMA Dropper ==
  ASSUME Sound, NEW r \in Requests, req[r].step \in DropSteps
  PROVE  /\ Stmt(r).db \in Databases /\ Stmt(r) = req[r].plan.script[req[r].at]
         /\ r \in Dropping(Stmt(r).db)
         /\ req[r].engine \in 1 .. Len(engines) /\ engines[req[r].engine].db = Stmt(r).db
<1>1. Fits(req[r]) /\ Stmt(r) = req[r].plan.script[req[r].at]
  BY Current
<1>2. Stmt(r).op = "drop"
  BY <1>1 DEF Fits
<1>3. Stmt(r).db \in Databases
  BY <1>2, Current DEF IsCatalog
<1> QED BY <1>1, <1>3 DEF Fits, Dropping, DropSteps

(* CREATE finds no directory and no DROP, or the name has raced.            *)
LEMMA ConsistentCreate ==
  ASSUME Sound, Sound', Files, Consistent, NEW r \in Requests, Create(r) PROVE Consistent'
<1> PICK d : d = Stmt(r).db
  OBVIOUS
<1>1. d \in Databases /\ req[r].step = "next"
  BY Current DEF Create, At, IsCatalog
<1>2. CASE d \in Registered
  <2>1. Go(r, Failed(r)) /\ dbs' = dbs /\ disk' = disk /\ engines' = engines /\ raced' = raced
    BY <1>2 DEF Create
  <2>2. Failed(r).step = "done"
    BY PlainMove
  <2> QED BY <1>1, <2>1, <2>2, SameAlike, ConsistentCalm DEF DropSteps, Holding
<1>3. CASE d \notin Registered
  <2> DEFINE q == Succeeded(r, req[r].db)
             n == Len(engines) + 1
  <2>1. /\ engines' = Append(engines, FreshEngine(d)) /\ dbs' = [dbs EXCEPT ![d] = n]
        /\ disk' = [disk EXCEPT ![d].exists = TRUE] /\ Go(r, q)
        /\ raced' = IF disk[d].exists \/ Dropping(d) # {} THEN raced \cup {d} ELSE raced
    BY <1>3 DEF Create
  <2>2. /\ FreshEngine(d) \in Engine /\ FreshEngine(d).db = d /\ FreshEngine(d).ran = << >>
        /\ FreshEngine(d).next = 0 /\ FreshEngine(d).linked /\ FreshEngine(d).status = "ok"
    <3>1. << >> \in Seq(Event)
      BY EmptySeq
    <3> QED BY <1>1, <3>1 DEF FreshEngine, Engine
  <2>3. engines \in Seq(Engine) /\ Len(engines) \in Nat
    BY LenProperties DEF Sound, TypeOK
  <2>4. /\ Len(engines') = n /\ \A e \in 1 .. Len(engines) : engines'[e] = engines[e]
        /\ engines'[n] = FreshEngine(d)
    BY <2>1, <2>2, <2>3, AppendProperties
  <2>5. q.step \in {"done", "next"}
    BY PlainMove
  <2> HIDE DEF q
  <2>6. ~Holding(q) /\ ~Holding(req[r]) /\ \A x : ~Drops(q, x) /\ ~Drops(req[r], x)
    BY <1>1, <2>5 DEF Holding, Drops, DropSteps
  <2>7. \A x \in Databases : x # d => dbs'[x] = dbs[x] /\ disk'[x] = disk[x]
    BY <2>1 DEF Sound, TypeOK
  <2>8. ASSUME d \notin raced' PROVE Settled(d)'
    <3>1. d \notin raced /\ ~disk[d].exists /\ Dropping(d) = {} /\ Settled(d)
      BY <1>1, <2>1, <2>8 DEF Consistent
    <3>2. disk[d].log = << >> /\ disk'[d].log = << >> /\ disk'[d].exists /\ disk[d] \in Directory
      BY <1>1, <2>1, <3>1 DEF Files, Sound, TypeOK, Directory
    <3>3. dbs'[d] = n /\ dbs[d] = 0
      BY <1>1, <1>3, <2>1 DEF Registered, Sound, TypeOK
    <3>4. /\ req'[r] = q /\ \A o \in Requests : o # r => req'[o] = req[o]
          /\ Dropping(d)' = {}
      <4>1. /\ req'[r] = q /\ \A o \in Requests : o # r => req'[o] = req[o]
            /\ Dropping(d)' = (Dropping(d) \ {r}) \cup (IF Drops(q, d) THEN {r} ELSE {})
        BY <2>1, DroppingMove
      <4> QED BY <2>6, <3>1, <4>1
    <3>5. Readable(disk'[d].log) /\ Len(Logged(d)') = 0
      BY <1>1, <3>2, LogsAfter
    <3>6. ASSUME NEW o \in Requests, Holding(req'[o]), engines'[req'[o].engine].db = d
          PROVE  FALSE
      <4>1. req'[o] = req[o]
        BY <2>6, <3>4, <3>6
      <4>2. req[o].engine \in 1 .. Len(engines)
        BY <3>6, <4>1, Current DEF Fits, Holding
      <4>3. engines[req[o].engine].db = d
        BY <2>4, <3>6, <4>1, <4>2
      <4>4. Serves(req[o].engine, d)
        BY <3>1, <3>6, <4>1, <4>3 DEF Settled
      <4> QED BY <2>3, <3>1, <3>3, <4>2, <4>4 DEF Serves
    <3>7. ASSUME NEW e \in 1 .. Len(engines'), engines'[e].db = d, Serves(e, d)'
          PROVE  Shown(e)'
      <4>1. e = n
        BY <3>3, <3>4, <3>7 DEF Serves
      <4>2. Logged(d)' = << >>
        <5>1. Logged(d)' = [i \in 1 .. Len(disk'[d].log) |-> disk'[d].log[i].event]
          BY DEF Logged
        <5>2. Len(disk'[d].log) = 0
          BY <3>2, EmptySeq
        <5> QED BY <5>1, <5>2
      <4>3. Logged(engines[e].db)' = << >>
        <5>1. Logged(engines[e].db)' = Logged(d)'
          BY <3>7 DEF Logged
        <5> QED BY <4>2, <5>1
      <4>4. Writes(engines'[e].ran) = << >>
        BY <2>2, <2>4, <4>1, WritesEmpty
      <4> QED BY <2>2, <2>4, <4>1, <4>3, <4>4 DEF Shown
    <3>8. OneDrop(d)'
      BY <3>4 DEF OneDrop
    <3>9. Present(d)'
      BY <2>3, <3>2, <3>3, <3>4 DEF Present
    <3> QED BY <3>5, <3>6, <3>7, <3>8, <3>9 DEF Settled
  <2>9. raced \subseteq raced'
    BY <2>1
  <2>10. /\ \A e \in 1 .. Len(engines) : engines'[e].db = engines[e].db
         /\ \A e \in 1 .. Len(engines') : e \notin 1 .. Len(engines) => engines'[e].db = d
         /\ Len(engines) <= Len(engines')
    <3>1. \A e \in 1 .. n : e \in 1 .. Len(engines) \/ e = n
      BY <2>3
    <3> QED BY <2>2, <2>3, <2>4, <3>1
  <2> QED BY <1>1, <2>1, <2>4, <2>6, <2>7, <2>8, <2>9, <2>10, ConsistentOne
<1> QED BY <1>2, <1>3

(* DROP takes the name from the catalog; its holders are those it waits for.*)
LEMMA ConsistentDropRemove ==
  ASSUME Sound, Sound', Consistent, NEW r \in Requests, DropRemove(r) PROVE Consistent'
<1> PICK d : d = Stmt(r).db
  OBVIOUS
<1>1. d \in Databases /\ req[r].step = "next" /\ engines' = engines /\ disk' = disk /\ raced' = raced
  BY Current DEF DropRemove, At, IsCatalog
<1>2. CASE d = Default \/ d \notin Registered
  <2>1. Go(r, Failed(r)) /\ dbs' = dbs
    BY <1>2 DEF DropRemove
  <2>2. Failed(r).step = "done"
    BY PlainMove
  <2> QED BY <1>1, <2>1, <2>2, SameAlike, ConsistentCalm DEF DropSteps, Holding
<1>3. CASE ~(d = Default \/ d \notin Registered)
  <2> DEFINE q == [To(r, "dropActive") EXCEPT !.engine = dbs[d]]
  <2>1. Go(r, q) /\ dbs' = [dbs EXCEPT ![d] = 0]
    BY <1>3 DEF DropRemove
  <2>2. q.step = "dropActive" /\ q.engine = dbs[d] /\ q.plan = req[r].plan /\ q.at = req[r].at
    BY Current DEF To, Request
  <2> HIDE DEF q
  <2>3. ~Holding(q) /\ ~Holding(req[r]) /\ (\A x : ~Drops(req[r], x)) /\ (\A x : Drops(q, x) <=> x = d)
    <3>1. Stmt(r) = q.plan.script[q.at]
      BY <2>2 DEF Stmt
    <3> QED BY <1>1, <2>2, <3>1 DEF Holding, Drops, DropSteps
  <2>4. dbs[d] # 0 /\ dbs'[d] = 0
    BY <1>1, <1>3, <2>1 DEF Registered, Sound, TypeOK
  <2>5. ASSUME d \notin raced PROVE Settled(d)'
    <3>1. Settled(d)
      BY <1>1, <2>5 DEF Consistent
    <3>2. Dropping(d) = {} /\ disk[d].exists
      BY <2>4, <3>1 DEF Settled, OneDrop, Present
    <3>3. /\ req'[r] = q /\ \A o \in Requests : o # r => req'[o] = req[o]
          /\ Dropping(d)' = {r}
      <4>1. /\ req'[r] = q /\ \A o \in Requests : o # r => req'[o] = req[o]
            /\ Dropping(d)' = (Dropping(d) \ {r}) \cup (IF Drops(q, d) THEN {r} ELSE {})
        BY <2>1, DroppingMove
      <4> QED BY <2>3, <3>2, <4>1
    <3>4. OneDrop(d)'
      BY <2>4, <3>3 DEF OneDrop
    <3>5. Present(d)'
      BY <1>1, <2>2, <3>2, <3>3 DEF Present, At
    <3>6. \A e : e # 0 => (Serves(e, d)' <=> Serves(e, d))
      BY <2>2, <2>4, <3>2, <3>3 DEF Serves
    <3>7. ASSUME NEW o \in Requests, Holding(req'[o]), engines'[req'[o].engine].db = d
          PROVE  Serves(req[o].engine, d)'
      <4>1. req'[o] = req[o]
        BY <2>3, <3>3, <3>7
      <4>2. req[o].engine \in 1 .. Len(engines)
        BY <3>7, <4>1, Current DEF Fits, Holding
      <4>3. Serves(req[o].engine, d)
        BY <1>1, <3>1, <3>7, <4>1 DEF Settled
      <4>4. Serves(req[o].engine, d)' <=> dbs'[d] = req'[o].engine
              \/ \E p \in Dropping(d)' : req'[p].engine = req'[o].engine /\ req'[p].step \in {"dropActive", "dropWait"}
        BY DEF Serves
      <4> QED BY <2>2, <2>4, <3>2, <3>3, <4>1, <4>2, <4>3, <4>4 DEF Serves
    <3>8. ASSUME NEW e \in 1 .. Len(engines'), engines'[e].db = d, Serves(e, d)'
          PROVE  Shown(e)'
      <4>1. Shown(e)
        BY <1>1, <3>1, <3>6, <3>8 DEF Settled
      <4> QED BY <1>1, <4>1 DEF Shown, Logged
    <3>9. Readable(disk[d].log)'
      BY <1>1, <3>1 DEF Settled
    <3> QED BY <3>4, <3>5, <3>7, <3>8, <3>9 DEF Settled
  <2>6. \A x \in Databases : x # d => dbs'[x] = dbs[x] /\ disk'[x] = disk[x]
    BY <1>1, <2>1 DEF Sound, TypeOK
  <2>7. Len(engines) <= Len(engines')
    BY <1>1, LenProperties DEF Sound, TypeOK
  <2> QED BY <1>1, <2>1, <2>3, <2>5, <2>6, <2>7, ConsistentOne
<1> QED BY <1>2, <1>3

(* DROP waits until no statement is left on the engine it removed.          *)
LEMMA ConsistentDropActive ==
  ASSUME Sound, Sound', Consistent, NEW r \in Requests, DropActive(r) \/ DropWait(r)
  PROVE  Consistent'
<1> PICK d : d = Stmt(r).db
  OBVIOUS
<1>1. req[r].step \in {"dropActive", "dropWait"} /\ req[r].step \in DropSteps
      /\ engines' = engines /\ disk' = disk /\ dbs' = dbs /\ raced \subseteq raced'
  BY DEF DropActive, DropWait, At, DropSteps
<1>2. d \in Databases /\ r \in Dropping(d) /\ req[r].engine \in 1 .. Len(engines)
      /\ d = req[r].plan.script[req[r].at].db
  BY <1>1, Dropper
<1>3. PICK q : /\ Go(r, q) /\ ~Holding(q) /\ \A x : x # d => ~Drops(q, x)
               /\ \/ d \in raced'
                  \/ /\ Drops(q, d) /\ q.engine = req[r].engine
                     /\ \/ q.step = "dropWait"
                        \/ q.step = "dropFiles" /\ Holders(req[r].engine) = {}
  <2>1. \A s : /\ To(r, s).step = s /\ To(r, s).engine = req[r].engine
               /\ To(r, s).plan = req[r].plan /\ To(r, s).at = req[r].at
    BY PlainMove
  <2>2. /\ Failed(r).step = "done"
        /\ To(r, "dropWait").step = "dropWait" /\ To(r, "dropFiles").step = "dropFiles"
        /\ \A s : To(r, s).engine = req[r].engine /\ To(r, s).plan.script[To(r, s).at].db = d
    BY <1>2, <2>1, PlainMove
  <2>3. ~Holding(Failed(r)) /\ \A x : ~Drops(Failed(r), x)
    BY <2>2 DEF Holding, Drops, DropSteps
  <2>4. ASSUME NEW s \in {"dropWait", "dropFiles"}
        PROVE  ~Holding(To(r, s)) /\ \A x : Drops(To(r, s), x) <=> x = d
    BY <2>1, <2>2 DEF Holding, Drops, DropSteps
  <2>5. CASE DropActive(r)
    BY <2>2, <2>4, <2>5 DEF DropActive
  <2>6. CASE DropWait(r) /\ engines[req[r].engine].poisoned
    BY <2>3, <2>6 DEF DropWait
  <2>7. CASE DropWait(r) /\ ~engines[req[r].engine].poisoned
    BY <2>2, <2>4, <2>7 DEF DropWait
  <2> QED BY <2>5, <2>6, <2>7
<1>4. ASSUME d \notin raced' PROVE Settled(d)'
  <2>1. Settled(d) /\ Drops(q, d) /\ q.engine = req[r].engine
        /\ (q.step = "dropWait" \/ (q.step = "dropFiles" /\ Holders(req[r].engine) = {}))
    BY <1>1, <1>2, <1>3, <1>4 DEF Consistent
  <2>2. (\A o \in Dropping(d) : o = r) /\ dbs[d] = 0 /\ disk[d].exists
    BY <1>2, <2>1 DEF Settled, OneDrop, Present
  <2>3. /\ req'[r] = q /\ \A o \in Requests : o # r => req'[o] = req[o]
        /\ Dropping(d)' = {r}
    <3>1. /\ req'[r] = q /\ \A o \in Requests : o # r => req'[o] = req[o]
          /\ Dropping(d)' = (Dropping(d) \ {r}) \cup (IF Drops(q, d) THEN {r} ELSE {})
      BY <1>3, DroppingMove
    <3> QED BY <2>1, <2>2, <3>1
  <2>4. OneDrop(d)'
    BY <1>1, <2>2, <2>3 DEF OneDrop
  <2>5. Present(d)'
    BY <1>1, <2>1, <2>2, <2>3 DEF Present, At
  <2>6. \A e : e # 0 => (Serves(e, d) <=> e = req[r].engine)
    BY <1>1, <1>2, <2>2 DEF Serves
  <2>7. \A e : Serves(e, d)' <=> e = 0 \/ (e = req[r].engine /\ q.step = "dropWait")
    BY <1>1, <2>1, <2>2, <2>3 DEF Serves
  <2>8. ASSUME NEW o \in Requests, Holding(req'[o]), engines'[req'[o].engine].db = d
        PROVE  Serves(req[o].engine, d)'
    <3>1. req'[o] = req[o] /\ Holding(req[o])
      BY <1>3, <2>3, <2>8
    <3>2. req[o].engine \in 1 .. Len(engines)
      BY <3>1, Current DEF Fits, Holding
    <3>3. Serves(req[o].engine, d)
      BY <1>1, <2>1, <2>8, <3>1 DEF Settled
    <3>4. req[o].engine = req[r].engine
      BY <2>6, <3>2, <3>3
    <3>5. q.step = "dropWait"
      BY <2>1, <3>1, <3>4 DEF Holders, Holding
    <3>6. Serves(req[o].engine, d)' <=> dbs'[d] = req'[o].engine
            \/ \E p \in Dropping(d)' : req'[p].engine = req'[o].engine /\ req'[p].step \in {"dropActive", "dropWait"}
      BY DEF Serves
    <3> QED BY <2>1, <2>3, <3>1, <3>4, <3>5, <3>6
  <2>9. ASSUME NEW e \in 1 .. Len(engines'), engines'[e].db = d, Serves(e, d)'
        PROVE  Shown(e)'
    <3>1. Shown(e)
      BY <1>1, <2>1, <2>6, <2>7, <2>9 DEF Settled
    <3> QED BY <1>1, <3>1 DEF Shown, Logged
  <2>10. Readable(disk[d].log)'
    BY <1>1, <2>1 DEF Settled
  <2> QED BY <2>4, <2>5, <2>8, <2>9, <2>10 DEF Settled
<1>5. \A x \in Databases : x # d => ~Drops(req[r], x)
  BY <1>2 DEF Drops
<1>6. Len(engines) <= Len(engines')
  BY <1>1, LenProperties DEF Sound, TypeOK
<1> QED BY <1>1, <1>2, <1>3, <1>4, <1>5, <1>6, ConsistentOne

(* While DROP deletes, no engine of the name is served or held.             *)
LEMMA NobodyServes ==
  ASSUME Sound, NEW d \in Databases, Settled(d), NEW r \in Dropping(d),
         req[r].step \in {"dropFiles", "dropDir"}
  PROVE  /\ \A o \in Dropping(d) : o = r
         /\ dbs[d] = 0 /\ disk[d].exists
         /\ \A o \in Requests : Holding(req[o]) => engines[req[o].engine].db # d
<1>1. (\A o \in Dropping(d) : o = r) /\ dbs[d] = 0 /\ disk[d].exists
  BY DEF Settled, OneDrop, Present
<1>2. \A e : e # 0 => ~Serves(e, d)
  BY <1>1 DEF Serves
<1>3. \A o \in Requests : Holding(req[o]) => req[o].engine \in 1 .. Len(engines)
  BY DEF Sound, Fits, Holding
<1> QED BY <1>1, <1>2, <1>3 DEF Settled

(* DROP deletes file and directory while nobody serves the name.            *)
LEMMA ConsistentDelete ==
  ASSUME Sound, Sound', Consistent, NEW r \in Requests, DropFiles(r) \/ DropDir(r)
  PROVE  Consistent'
<1> PICK d : d = Stmt(r).db
  OBVIOUS
<1>1. req[r].step \in {"dropFiles", "dropDir"} /\ req[r].step \in DropSteps
      /\ dbs' = dbs /\ raced' = raced
  BY DEF DropFiles, DropDir, At, DropSteps
<1>2. d \in Databases /\ r \in Dropping(d) /\ d = req[r].plan.script[req[r].at].db
  BY <1>1, Dropper
<1>3. /\ engines \in Seq(Engine) /\ Len(engines) \in Nat /\ DOMAIN engines = 1 .. Len(engines)
      /\ \A e \in 1 .. Len(engines) : engines[e] \in Engine
  BY LenProperties, ElementOfSeq DEF Sound, TypeOK
<1>4. Len(engines') = Len(engines)
      /\ \A e \in 1 .. Len(engines) : engines'[e].db = engines[e].db
           /\ (engines[e].db # d => engines'[e] = engines[e])
  <2>1. CASE engines' = engines
    BY <2>1
  <2>2. CASE engines' = [e \in 1 .. Len(engines) |->
               IF engines[e].db = d /\ engines[e].next # 0
                 THEN [engines[e] EXCEPT !.linked = FALSE] ELSE engines[e]]
    <3>1. \A e \in 1 .. Len(engines) : [engines[e] EXCEPT !.linked = FALSE].db = engines[e].db
      BY <1>3 DEF Engine
    <3>2. Len(engines') = Len(engines)
      BY <1>3, <2>2
    <3> QED BY <2>2, <3>1, <3>2
  <2> QED BY <1>3, <2>1, <2>2 DEF DropFiles, DropDir
<1>5. \A x \in Databases : x # d => disk'[x] = disk[x]
  BY <1>2 DEF DropFiles, DropDir, Sound, TypeOK
<1>6. PICK q : /\ Go(r, q)
               /\ \/ /\ q.step = "dropDir" /\ q.plan = req[r].plan /\ q.at = req[r].at
                     /\ disk'[d] = [NoDirectory EXCEPT !.exists = TRUE]
                  \/ /\ q.step \in {"done", "next"}
                     /\ \/ ~disk[d].exists
                        \/ disk[d].file /\ req[r].step = "dropDir"
                        \/ disk'[d] = NoDirectory
  <2>1. /\ Failed(r).step = "done" /\ Dropped(r).step \in {"done", "next"}
        /\ To(r, "dropDir").step = "dropDir" /\ To(r, "dropDir").plan = req[r].plan
        /\ To(r, "dropDir").at = req[r].at
    BY PlainMove DEF Dropped
  <2>2. disk \in [Databases -> Directory]
    BY DEF Sound, TypeOK
  <2>3. CASE DropFiles(r) /\ disk[d].exists
    BY <1>2, <2>1, <2>2, <2>3 DEF DropFiles
  <2>4. CASE DropFiles(r) /\ ~disk[d].exists
    BY <2>1, <2>4 DEF DropFiles
  <2>5. CASE DropDir(r) /\ disk[d].exists /\ ~disk[d].file
    BY <1>2, <2>1, <2>2, <2>5 DEF DropDir
  <2>6. CASE DropDir(r) /\ ~(disk[d].exists /\ ~disk[d].file)
    BY <2>1, <2>6 DEF DropDir, At
  <2> QED BY <2>3, <2>4, <2>5, <2>6 DEF DropFiles, DropDir
<1>7. ~Holding(q) /\ \A x : (Drops(q, x) <=> x = d /\ q.step = "dropDir")
  BY <1>2, <1>6 DEF Holding, Drops, DropSteps
<1>8. ASSUME d \notin raced PROVE Settled(d)'
  <2>1. Settled(d)
    BY <1>2, <1>8 DEF Consistent
  <2>2. /\ \A o \in Dropping(d) : o = r
        /\ dbs[d] = 0 /\ disk[d].exists
        /\ \A o \in Requests : Holding(req[o]) => engines[req[o].engine].db # d
        /\ req[r].step = "dropDir" => ~disk[d].file
    BY <1>1, <1>2, <2>1, NobodyServes DEF Settled, Present, At
  <2>3. \/ q.step = "dropDir" /\ disk'[d] = [NoDirectory EXCEPT !.exists = TRUE]
        \/ q.step \in {"done", "next"} /\ disk'[d] = NoDirectory
    BY <1>6, <2>2
  <2>4. /\ disk'[d].log = << >> /\ ~disk'[d].file /\ (disk'[d].exists <=> q.step = "dropDir")
    BY <2>3 DEF NoDirectory
  <2>5. /\ req'[r] = q /\ \A o \in Requests : o # r => req'[o] = req[o]
        /\ Dropping(d)' = IF q.step = "dropDir" THEN {r} ELSE {}
    <3>1. /\ req'[r] = q /\ \A o \in Requests : o # r => req'[o] = req[o]
          /\ Dropping(d)' = (Dropping(d) \ {r}) \cup (IF Drops(q, d) THEN {r} ELSE {})
      BY <1>6, DroppingMove
    <3> QED BY <1>7, <2>2, <3>1
  <2>6. OneDrop(d)'
    BY <1>1, <2>2, <2>5 DEF OneDrop
  <2>7. Present(d)'
    BY <1>1, <2>2, <2>4, <2>5 DEF Present, At
  <2>8. Readable(disk'[d].log)
    BY <1>2, <2>4, LogsAfter
  <2>9. ASSUME NEW o \in Requests, Holding(req'[o]), engines'[req'[o].engine].db = d
        PROVE  FALSE
    <3>1. req'[o] = req[o] /\ Holding(req[o])
      BY <1>7, <2>5, <2>9
    <3>2. req[o].engine \in 1 .. Len(engines)
      BY <3>1, Current DEF Fits, Holding
    <3> QED BY <1>4, <2>2, <2>9, <3>1, <3>2
  <2>10. \A e \in 1 .. Len(engines') : ~Serves(e, d)'
    BY <1>1, <1>3, <1>4, <2>2, <2>5 DEF Serves
  <2> QED BY <2>6, <2>7, <2>8, <2>9, <2>10 DEF Settled
<1>9. \A x \in Databases : x # d => ~Drops(req[r], x)
  BY <1>2 DEF Drops
<1>10. Len(engines) <= Len(engines')
  BY <1>3, <1>4
<1>11. /\ \A e \in 1 .. Len(engines) : engines'[e].db = engines[e].db
       /\ \A e \in 1 .. Len(engines) : engines[e].db # d => engines'[e] = engines[e]
       /\ \A e \in 1 .. Len(engines') : e \notin 1 .. Len(engines) => engines'[e].db = d
  BY <1>4
<1>12. /\ \A x \in Databases : x # d => dbs'[x] = dbs[x] /\ disk'[x] = disk[x]
       /\ \A x \in Databases : x # d => ~Drops(req[r], x) /\ ~Drops(q, x)
       /\ raced \subseteq raced' /\ (d \in raced' \/ Settled(d)') /\ ~Holding(q) /\ Go(r, q)
  BY <1>1, <1>5, <1>6, <1>7, <1>8, <1>9
<1> QED BY <1>2, <1>10, <1>11, <1>12, ConsistentOne

(* The log of a name that is shown takes the next write.                    *)
LEMMA ShownWrite ==
  ASSUME Sound, Sound', NEW r \in Requests, Write(r), NEW d \in Databases, NEW e,
         e = req[r].engine, d = engines[e].db, Shown(e), Readable(disk[d].log)
  PROVE  /\ Shown(e)' /\ Readable(disk'[d].log)
         /\ disk'[d].exists
<1> PICK v, S : v = EventOf(r) /\ S = Sequence(r)
  OBVIOUS
<1>1. /\ e \in 1 .. Len(engines) /\ v \in Event /\ v.op = "write" /\ S \in Nat
      /\ engines'[e].ran = Append(engines[e].ran, v) /\ engines[e].ran \in Seq(Event)
      /\ engines'[e].db = d /\ engines'[e].linked = engines[e].linked
  BY WriteEffect
<1>2. Shown(e) /\ engines[e].db = d /\ Log(e) = disk[d].log
  BY DEF Log
<1>3. engines[e].linked /\ Logged(d) = Writes(engines[e].ran)
      /\ (engines[e].next # 0 => engines[e].next = LastSeq(disk[d].log) + 1)
  BY <1>2 DEF Shown
<1>4. /\ engines'[e].status = "ok" /\ engines'[e].next = S + 1
      /\ disk'[d].exists /\ disk'[d].file
      /\ disk'[d].log = Append(disk[d].log, [seq |-> S, event |-> v])
  BY <1>2, <1>3, WriteEffect
<1>5. S = LastSeq(disk[d].log) + 1
  BY <1>2, <1>3 DEF Sequence
<1>6. /\ Logged(d)' = Append(Logged(d), v) /\ LastSeq(disk'[d].log) = S
      /\ Readable(disk'[d].log)
  BY <1>1, <1>4, <1>5, LoggedAppend
<1>7. Writes(engines'[e].ran) = Logged(d)'
  BY <1>1, <1>3, <1>6, WritesAppend
<1>8. Logged(engines[e].db)' = Logged(d)'
  BY <1>1 DEF Logged
<1> QED BY <1>1, <1>3, <1>4, <1>6, <1>7, <1>8 DEF Shown

(* A write goes to the log of the one engine that serves the name.          *)
LEMMA ConsistentWrite ==
  ASSUME Sound, Sound', Consistent, NEW r \in Requests, Write(r) PROVE Consistent'
<1> PICK e, d : e = req[r].engine /\ d = engines[e].db
  OBVIOUS
<1>1. /\ req[r].step = "run" /\ e \in 1 .. Len(engines) /\ d \in Databases
      /\ Len(engines') = Len(engines)
      /\ \A i \in 1 .. Len(engines) : i # e => engines'[i] = engines[i]
      /\ engines'[e].db = d
      /\ \A x \in Databases : x # d => disk'[x] = disk[x]
  BY WriteEffect
<1>2. Holding(req[r]) /\ dbs' = dbs /\ raced' = raced
  BY <1>1 DEF Holding, Write
<1>3. PICK q \in {Failed(r), Continued(r)} : Go(r, q)
  BY DEF Write
<1>4. q.step \in {"done", "next", "run"} /\ (Holding(q) => q.engine = req[r].engine)
  <2>1. CASE q = Failed(r)
    BY <2>1, PlainMove DEF Holding
  <2>2. CASE q = Continued(r)
    BY <1>1, <1>2, <2>2, ContinuedMove
  <2> QED BY <2>1, <2>2
<1>5. \A x : ~Drops(q, x) /\ ~Drops(req[r], x)
  BY <1>1, <1>4 DEF Drops, DropSteps
<1>6. ASSUME d \notin raced PROVE Settled(d)'
  <2>1. Settled(d)
    BY <1>1, <1>6 DEF Consistent
  <2>2. Serves(e, d) /\ Shown(e) /\ Readable(disk[d].log) /\ OneDrop(d) /\ Present(d)
    BY <1>1, <1>2, <2>1 DEF Settled
  <2>3. Shown(e)' /\ Readable(disk'[d].log) /\ disk'[d].exists
    BY <1>1, <2>2, ShownWrite
  <2>4. /\ req'[r] = q /\ \A o \in Requests : o # r => req'[o] = req[o]
        /\ Dropping(d)' = Dropping(d) /\ r \notin Dropping(d)
    <3>1. /\ req'[r] = q /\ \A o \in Requests : o # r => req'[o] = req[o]
          /\ r \in Dropping(d) <=> Drops(req[r], d)
          /\ Dropping(d)' = (Dropping(d) \ {r}) \cup (IF Drops(q, d) THEN {r} ELSE {})
      BY <1>3, DroppingMove
    <3> QED BY <1>5, <3>1
  <2>5. \A o \in Dropping(d) : req'[o] = req[o]
    BY <2>4 DEF Dropping
  <2>6. OneDrop(d)'
    BY <1>2, <2>2, <2>4 DEF OneDrop
  <2>7. Present(d)'
    <3>1. CASE dbs[d] = e
      <4>1. dbs[d] # 0 /\ Dropping(d) = {}
        <5>1. e # 0
          BY <1>1
        <5>2. dbs[d] # 0
          BY <3>1, <5>1
        <5> QED BY <2>2, <5>2 DEF OneDrop
      <4>2. Dropping(d)' = {} /\ dbs'[d] # 0
        BY <1>2, <2>4, <4>1
      <4> QED BY <2>3, <4>2 DEF Present
    <3>2. CASE \E o \in Dropping(d) : req[o].step \in {"dropActive", "dropWait"}
      <4>1. \A o \in Dropping(d) : req[o].step \in {"dropActive", "dropWait"}
        BY <2>2, <3>2 DEF OneDrop
      <4>2. Dropping(d)' # {} /\ \A o \in Dropping(d)' : req'[o].step # "dropDir"
        BY <2>4, <2>5, <3>2, <4>1
      <4> QED BY <2>3, <4>2 DEF Present, At
    <3> QED BY <2>2, <3>1, <3>2 DEF Serves
  <2>8. \A i : Serves(i, d)' <=> Serves(i, d)
    BY <1>2, <2>4, <2>5 DEF Serves
  <2>9. \A i \in 1 .. Len(engines) : engines'[i].db = engines[i].db
    BY <1>1
  <2>10. ASSUME NEW o \in Requests, Holding(req'[o]), engines'[req'[o].engine].db = d
         PROVE  Serves(req[o].engine, d)'
    <3>1. Holding(req[o]) /\ req'[o].engine = req[o].engine
      BY <1>2, <1>4, <2>4, <2>10
    <3>2. req[o].engine \in 1 .. Len(engines)
      BY <3>1, Current DEF Fits, Holding
    <3>3. Serves(req[o].engine, d)
      BY <2>1, <2>9, <2>10, <3>1, <3>2 DEF Settled
    <3>4. Serves(req[o].engine, d)' <=> dbs'[d] = req'[o].engine
            \/ \E p \in Dropping(d)' : req'[p].engine = req'[o].engine /\ req'[p].step \in {"dropActive", "dropWait"}
      BY DEF Serves
    <3> QED BY <1>2, <2>4, <2>5, <3>1, <3>3, <3>4 DEF Serves
  <2>11. ASSUME NEW i \in 1 .. Len(engines'), engines'[i].db = d, Serves(i, d)'
         PROVE  Shown(i)'
    <3>1. Serves(i, d) /\ i # 0 /\ e # 0
      BY <1>1, <2>8, <2>11
    <3>2. i = e
      BY <1>1, <2>2, <3>1, ServesOne
    <3> QED BY <2>3, <3>2
  <2> QED BY <2>3, <2>6, <2>7, <2>10, <2>11 DEF Settled
<1>7. Len(engines) <= Len(engines')
  BY <1>1, LenProperties DEF Sound, TypeOK
<1> QED BY <1>1, <1>2, <1>3, <1>4, <1>5, <1>6, <1>7, ConsistentOne

(* What recovery makes of a log of writes shows what the log holds.         *)
LEMMA RecoveredShows ==
  ASSUME Sound, Files, NEW d \in Databases, Readable(disk[d].log)
  PROVE  LET n == RecoveredEngine(d) IN
         /\ n.status = "ok" /\ n.linked /\ n.db = d
         /\ n.next = LastSeq(disk[d].log) + 1 /\ Writes(n.ran) = Logged(d)
<1>1. Logged(d) \in Seq(Event) /\ \A i \in 1 .. Len(Logged(d)) : Logged(d)[i].op = "write"
  BY LoggedType DEF Sound, TypeOK, Files
<1>2. Writes(Logged(d)) = Logged(d)
  BY <1>1, WritesOfWrites
<1> QED BY <1>2 DEF RecoveredEngine, FreshEngine

(* A start serves each name it found by the engine recovered for it.        *)
LEMMA ConsistentStart ==
  ASSUME Sound, Files, NEW d \in Databases, NEW D, NEW E,
         E = EnginesOf(Found), D = DbsOf(Found)
  PROVE  /\ D[d] # 0 <=> d \in Found
         /\ \A e \in 1 .. Len(E) : D[E[e].db] = e => E[e] = RecoveredEngine(E[e].db)
<1>1. /\ \A x \in Databases : DbsOf(Found)[x] # 0 <=> x \in Found
      /\ \A x \in Found : EnginesOf(Found)[DbsOf(Found)[x]] = RecoveredEngine(x)
  BY SoundStart DEF Sound, TypeOK
<1>2. ASSUME NEW e \in 1 .. Len(E), D[E[e].db] = e PROVE E[e] = RecoveredEngine(E[e].db)
  <2>1. PICK x \in Databases : E[e] = RecoveredEngine(x)
    BY StartEngine DEF Sound, TypeOK
  <2>2. E[e].db = x
    BY <2>1, RecoveredType DEF Sound, TypeOK
  <2> QED BY <2>1, <2>2
<1> QED BY <1>1, <1>2

(* A restart settles every database whose log it can read.                  *)
LEMMA ConsistentRestart ==
  ASSUME Sound, Sound', Files, Consistent, Restart PROVE Consistent'
<1> SUFFICES ASSUME NEW d \in Databases, d \notin raced' PROVE Settled(d)'
  BY DEF Consistent
<1>1. Readable(disk[d].log)
  BY DEF Restart, Consistent, Settled
<1>2. disk'[d] = IF d \in Found THEN [disk[d] EXCEPT !.exists = TRUE, !.file = TRUE] ELSE disk[d]
  BY <1>1 DEF Restart, RecoveredDirectory
<1>3. disk'[d].log = disk[d].log /\ (d \in Found => disk'[d].exists /\ disk'[d].file)
  BY <1>2 DEF Sound, TypeOK, Directory
<1>4. Logged(d)' = Logged(d)
  BY <1>3 DEF Logged
<1>5. dbs'[d] # 0 <=> d \in Found
  BY ConsistentStart DEF Restart
<1>6. \A o \in Requests : req'[o].step \in {"arriving", "done"}
  <2>1. \A o \in Requests : req[o] \in Request
    BY DEF Sound, TypeOK
  <2> QED BY <2>1 DEF Restart, At, Answered, Request
<1>7. Dropping(d)' = {}
  BY <1>6 DEF Dropping
<1>8. OneDrop(d)' /\ Present(d)'
  <2>1. d \notin Found => ~disk'[d].exists
    BY <1>2 DEF Found
  <2> QED BY <1>3, <1>5, <1>7, <2>1 DEF OneDrop, Present
<1>9. ASSUME NEW e \in 1 .. Len(engines'), engines'[e].db = d, Serves(e, d)'
      PROVE  Shown(e)'
  <2>1. dbs'[d] = e
    BY <1>7, <1>9 DEF Serves
  <2>2. engines'[e] = RecoveredEngine(d)
    BY <1>9, <2>1, ConsistentStart DEF Restart
  <2>3. d \in Found
    BY <1>5, <2>1
  <2>4. /\ engines'[e].status = "ok" /\ engines'[e].linked
        /\ engines'[e].next = LastSeq(disk[d].log) + 1
        /\ Writes(engines'[e].ran) = Logged(d)
    BY <1>1, <2>2, RecoveredShows
  <2>5. Logged(engines[e].db)' = Logged(d)
    <3>1. Logged(engines[e].db)' = Logged(d)'
      BY <1>9 DEF Logged
    <3> QED BY <1>4, <3>1
  <2> QED BY <1>3, <1>9, <2>3, <2>4, <2>5 DEF Shown
<1>10. \A o \in Requests : ~Holding(req'[o])
  BY <1>6 DEF Holding
<1> QED BY <1>1, <1>3, <1>8, <1>9, <1>10 DEF Settled

(* The first start settles every database.                                  *)
LEMMA ConsistentInit == Init => Consistent
<1> SUFFICES ASSUME Init, NEW d \in Databases PROVE Settled(d)
  BY DEF Consistent
<1>1. Sound /\ Files
  BY SoundInit, FilesInit
<1>2. disk[d] \in {EmptyDirectory, NoDirectory} /\ (d \in Found => disk[d] = EmptyDirectory)
  <2>1. PICK found \in SUBSET Databases :
          /\ Default \in found
          /\ disk = [x \in Databases |-> IF x \in found THEN EmptyDirectory ELSE NoDirectory]
    BY DEF Init
  <2>2. disk[d] = IF d \in found THEN EmptyDirectory ELSE NoDirectory
    BY <2>1
  <2>3. d \in Found => d \in found
    BY <2>1, <2>2 DEF Found, NoDirectory
  <2> QED BY <2>2, <2>3
<1>3. disk[d].log = << >> /\ Len(disk[d].log) = 0 /\ Readable(disk[d].log)
      /\ (d \in Found <=> disk[d].exists) /\ (d \in Found => disk[d].file)
  <2>1. disk[d].log = << >>
    BY <1>2 DEF EmptyDirectory, NoDirectory
  <2>2. Len(disk[d].log) = 0
    BY <2>1, EmptySeq
  <2> QED BY <1>2, <2>1, <2>2 DEF Readable, EmptyDirectory, NoDirectory, Found
<1>4. \A o \in Requests : req[o].step = "arriving"
  BY DEF Init, NewRequest
<1>5. Dropping(d) = {}
  BY <1>4 DEF Dropping
<1>6. dbs[d] # 0 <=> d \in Found
  BY <1>1, ConsistentStart DEF Init
<1>7. ASSUME NEW e \in 1 .. Len(engines), engines[e].db = d, Serves(e, d)
      PROVE  Shown(e)
  <2>1. dbs[d] = e
    BY <1>5, <1>7 DEF Serves
  <2>2. engines[e] = RecoveredEngine(d)
    BY <1>1, <1>7, <2>1, ConsistentStart DEF Init
  <2> QED BY <1>1, <1>3, <1>6, <1>7, <2>1, <2>2, RecoveredShows DEF Shown
<1>8. \A o \in Requests : ~Holding(req[o])
  BY <1>4 DEF Holding
<1> QED BY <1>3, <1>5, <1>6, <1>7, <1>8 DEF Settled, OneDrop, Present

(* Every step keeps what is settled, or counts the name among the raced.    *)
LEMMA ConsistentStep == Sound /\ Files /\ Consistent /\ [Next]_vars => Consistent'
<1> SUFFICES ASSUME Sound, Files, Consistent, [Next]_vars PROVE Consistent'
  OBVIOUS
<1>1. Sound'
  BY SoundStep
<1>2. ASSUME NEW r \in Requests, CatalogStep(r) PROVE Consistent'
  BY <1>1, <1>2, ConsistentCreate, ConsistentDropRemove, ConsistentDropActive,
     ConsistentDelete, ConsistentQuiet DEF CatalogStep
<1>3. ASSUME NEW r \in Requests, Step(r) \/ Panic(r) PROVE Consistent'
  BY <1>1, <1>2, <1>3, ConsistentQuiet, ConsistentRead, ConsistentWrite DEF Step
<1>4. CASE UNCHANGED vars
  <2>1. /\ engines' = engines /\ disk' = disk /\ req' = req /\ dbs' = dbs /\ raced' = raced
    BY <1>4 DEF vars
  <2>2. \A d : /\ Dropping(d)' = Dropping(d) /\ Logged(d)' = Logged(d)
    BY <2>1 DEF Dropping, Stmt, Logged
  <2>3. ASSUME NEW d \in Databases, Settled(d) PROVE Settled(d)'
    <3>1. OneDrop(d)' /\ Present(d)' /\ Readable(disk'[d].log)
      BY <2>1, <2>2, <2>3 DEF Settled, OneDrop, Present, At
    <3>2. \A e : Serves(e, d)' <=> Serves(e, d)
      BY <2>1, <2>2 DEF Serves
    <3>3. ASSUME NEW e, Shown(e) PROVE Shown(e)'
      <4>1. Logged(engines[e].db)' = Logged(engines[e].db)
        BY <2>1 DEF Logged
      <4> QED BY <2>1, <3>3, <4>1 DEF Shown
    <3>4. \A o : Serves(req[o].engine, d)' <=> Serves(req[o].engine, d)
      BY <2>1, <2>2 DEF Serves
    <3> QED BY <2>1, <2>3, <3>1, <3>2, <3>3, <3>4 DEF Settled
  <2> QED BY <2>1, <2>3 DEF Consistent
<1> QED BY <1>1, <1>3, <1>4, ConsistentRestart DEF Next

(* The catalog and the data directory agree on every name that is not being *)
(* dropped, for any number of concurrent CREATEs, DROPs, statements and     *)
(* restarts; the names that raced are the ones Create, DropWait and Lock    *)
(* say.                                                                     *)
THEOREM CatalogAgrees == Spec => []CatalogMatchesDisk
<1>1. Init => Sound /\ Files /\ Consistent
  BY SoundInit, FilesInit, ConsistentInit
<1>2. Sound /\ Files /\ Consistent /\ [Next]_vars => (Sound /\ Files /\ Consistent)'
  BY SoundStep, FilesStep, ConsistentStep
<1>3. Sound /\ Consistent => CatalogMatchesDisk
  BY ConsistentShown
<1> QED BY <1>1, <1>2, <1>3, PTL DEF Spec

(* What a registered database shows is what its log holds: the writes that  *)
(* its engine applied, in their order, in the file it goes on appending to. *)
THEOREM ServerShowsDurable == Spec => []ShownIsDurable
<1>1. Init => Sound /\ Files /\ Consistent
  BY SoundInit, FilesInit, ConsistentInit
<1>2. Sound /\ Files /\ Consistent /\ [Next]_vars => (Sound /\ Files /\ Consistent)'
  BY SoundStep, FilesStep, ConsistentStep
<1>3. Sound /\ Consistent => ShownIsDurable
  BY ConsistentShown
<1> QED BY <1>1, <1>2, <1>3, PTL DEF Spec

-----------------------------------------------------------------------------
(* The order that the locks keep.                                           *)

(* Events of one request and one hold have only its own between them.       *)
Together(s) ==
  \A i, k \in 1 .. Len(s) : s[i].by = s[k].by /\ s[i].hold = s[k].hold =>
    \A j \in i .. k : s[j].by = s[i].by

(* Nobody has executed anything since r's hold began to.                    *)
TailOf(s, r, h) ==
  \A i \in 1 .. Len(s) : s[i].by = r /\ s[i].hold = h =>
    \A j \in i .. Len(s) : s[j].by = r

(* r has executed nothing from the statement it is at on.                   *)
Before(s, r, at) == \A i \in 1 .. Len(s) : s[i].by = r => s[i].hold < at

(* A hold that has the tail of a history to itself may add to it.           *)
LEMMA TogetherAppend ==
  ASSUME NEW s \in Seq(Event), NEW v \in Event, Together(s), TailOf(s, v.by, v.hold)
  PROVE  Together(Append(s, v)) /\ TailOf(Append(s, v), v.by, v.hold)
<1> DEFINE n == Len(s)
           t == Append(s, v)
<1>1. /\ n \in Nat /\ Len(t) = n + 1 /\ t[n + 1] = v
      /\ \A i \in 1 .. n : t[i] = s[i]
  BY AppendProperties, LenProperties
<1> HIDE DEF t
<1>2. ASSUME NEW i \in 1 .. n + 1, NEW k \in 1 .. n + 1, NEW j \in i .. k,
             t[i].by = t[k].by, t[i].hold = t[k].hold
      PROVE  t[j].by = t[i].by
  <2>1. CASE k # n + 1
    <3>1. i \in 1 .. n /\ k \in 1 .. n /\ j \in 1 .. n
      BY <1>1, <2>1
    <3> QED BY <1>1, <1>2, <3>1 DEF Together
  <2>2. CASE k = n + 1 /\ i # n + 1
    <3>1. i \in 1 .. n /\ s[i].by = v.by /\ s[i].hold = v.hold
      BY <1>1, <1>2, <2>2
    <3>2. CASE j = n + 1
      BY <1>1, <2>2, <1>2, <3>2
    <3>3. CASE j # n + 1
      <4>1. j \in i .. n /\ j \in 1 .. n
        BY <1>1, <2>2, <3>3
      <4> QED BY <1>1, <3>1, <4>1 DEF TailOf
    <3> QED BY <3>2, <3>3
  <2>3. CASE i = n + 1
    BY <1>1, <2>3
  <2> QED BY <2>1, <2>2, <2>3
<1>3. ASSUME NEW i \in 1 .. n + 1, t[i].by = v.by, t[i].hold = v.hold, NEW j \in i .. n + 1
      PROVE  t[j].by = v.by
  <2>1. n + 1 \in 1 .. n + 1
    BY <1>1
  <2> QED BY <1>1, <1>2, <1>3, <2>1
<1> QED BY <1>1, <1>2, <1>3 DEF Together, TailOf, t

(* Another's event does not touch what a request has executed.              *)
LEMMA BeforeAppend ==
  ASSUME NEW s \in Seq(Event), NEW v \in Event, NEW r, NEW at, Before(s, r, at),
         v.by = r => v.hold < at
  PROVE  Before(Append(s, v), r, at)
<1>1. /\ Len(s) \in Nat /\ Len(Append(s, v)) = Len(s) + 1 /\ Append(s, v)[Len(s) + 1] = v
      /\ \A i \in 1 .. Len(s) : Append(s, v)[i] = s[i]
  BY AppendProperties, LenProperties
<1> DEFINE t == Append(s, v)
<1> HIDE DEF t
<1>2. \A i \in 1 .. Len(s) + 1 : i \in 1 .. Len(s) \/ i = Len(s) + 1
  BY <1>1
<1>3. \A i \in 1 .. Len(t) : t[i].by = r => t[i].hold < at
  BY <1>1, <1>2 DEF Before, t
<1> QED BY <1>3 DEF Before, t

(* Who holds a lock exclusively holds it alone.                             *)
Exclusion ==
  \A r \in Requests : LET q == req[r] IN
    /\ q.plan.batch \/ Len(q.plan.script) = 1
    /\ q.step = "lock" => q.hold = q.at
    /\ Holding(q) =>
         /\ q.hold <= q.at /\ (q.plan.batch \/ q.hold = q.at)
         /\ q.step = "run" <=> Exclusive(r)
         /\ \A o \in Requests : o # r /\ Holding(req[o]) /\ req[o].engine = q.engine =>
              ~Exclusive(r)

Past ==
  \A r \in Requests : req[r].step # "done" =>
    /\ \A e \in 1 .. Len(engines) : Before(Ran(e), r, req[r].at)
    /\ \A d \in Databases : Before(Logged(d), r, req[r].at)

Runs ==
  /\ \A e \in 1 .. Len(engines) : Together(Ran(e))
  /\ \A r \in Requests : Holding(req[r]) => TailOf(Ran(req[r].engine), r, req[r].hold)

(* An engine never numbers behind the log it has open.                      *)
Ahead ==
  \A e \in 1 .. Len(engines) :
    engines[e].linked /\ engines[e].next # 0 /\ Readable(Log(e)) =>
      engines[e].next - 1 <= LastSeq(Log(e))

LogRuns ==
  /\ \A d \in Databases : Readable(disk[d].log) => Together(Logged(d))
  /\ \A r \in Requests : Holding(req[r]) =>
       LET e == req[r].engine IN
       /\ \A d \in Databases : \A i \in 1 .. Len(Logged(d)) :
            Logged(d)[i].by = r /\ Logged(d)[i].hold = req[r].hold =>
              d = engines[e].db /\ engines[e].next # 0
       /\ engines[e].linked /\ engines[e].next # 0 /\ Readable(Log(e))
            /\ LastSeq(Log(e)) = engines[e].next - 1
          => TailOf(Logged(engines[e].db), r, req[r].hold)

Ordered == Exclusion /\ Past /\ Runs /\ Ahead /\ LogRuns

(* The order kept by the locks is what the batches were promised.           *)
LEMMA OrderedContiguous == Sound /\ Ordered => BatchesAreContiguous
<1> SUFFICES ASSUME Sound, Ordered, NEW e \in DOMAIN engines,
                    NEW i \in DOMAIN engines[e].ran, NEW k \in DOMAIN engines[e].ran,
                    engines[e].ran[i].by = engines[e].ran[k].by,
                    engines[e].ran[i].hold = engines[e].ran[k].hold,
                    NEW j \in i .. k
             PROVE  engines[e].ran[j].by = engines[e].ran[i].by
  BY DEF BatchesAreContiguous
<1>1. engines \in Seq(Engine)
  BY DEF Sound, TypeOK
<1>2. e \in 1 .. Len(engines)
  BY <1>1, LenProperties
<1>3. engines[e].ran \in Seq(Event)
  <2>1. engines[e] \in Engine
    BY <1>1, <1>2, ElementOfSeq
  <2> QED BY <2>1 DEF Engine
<1>4. i \in 1 .. Len(engines[e].ran) /\ k \in 1 .. Len(engines[e].ran)
  BY <1>3, LenProperties
<1>5. Together(engines[e].ran)
  BY <1>2 DEF Ordered, Runs, Ran
<1> QED BY <1>4, <1>5 DEF Together

(* A holder has the log's tail to itself while its engine numbers behind it. *)
LEMMA LogTail ==
  ASSUME Ordered, NEW o \in Requests, Holding(req[o]), NEW x, x = req[o].engine,
         engines[x].linked, engines[x].next # 0, Readable(disk[engines[x].db].log),
         LastSeq(disk[engines[x].db].log) = engines[x].next - 1
  PROVE  TailOf(Logged(engines[x].db), o, req[o].hold)
BY DEF Ordered, LogRuns, Log

(* Nothing has run when the server starts.                                  *)
LEMMA OrderedInit == Init => Ordered
<1> SUFFICES ASSUME Init PROVE Ordered
  OBVIOUS
<1>1. Sound
  BY SoundInit
<1>2. ASSUME NEW d \in Databases
      PROVE  /\ disk[d].log = << >> /\ Len(disk[d].log) = 0 /\ Len(Logged(d)) = 0
             /\ LastSeq(disk[d].log) = 0
  <2>1. disk[d].log = << >>
    BY DEF Init, EmptyDirectory, NoDirectory
  <2>2. Len(Logged(d)) = Len(disk[d].log)
    BY <1>1, LoggedType DEF Sound, TypeOK
  <2> QED BY <2>1, <2>2, EmptySeq DEF LastSeq
<1>3. /\ engines = EnginesOf(Found) /\ engines \in Seq(Engine) /\ Len(engines) \in Nat
  BY <1>1, LenProperties DEF Init, Sound, TypeOK
<1>4. ASSUME NEW e \in 1 .. Len(engines)
      PROVE  Len(Ran(e)) = 0 /\ engines[e].next = 1 /\ engines[e].db \in Databases
  <2>1. engines[e] = RecoveredEngine(SetToSeq(Found)[e]) /\ e \in DOMAIN SetToSeq(Found)
    BY <1>3, <1>4, LenProperties DEF EnginesOf
  <2>2. SetToSeq(Found)[e] \in Databases
    <3>1. IsFiniteSet(Found) /\ Found \subseteq Databases
      <4>1. Found \in SUBSET Databases
        BY NamesAssumption DEF Found
      <4> QED BY <4>1, NamesAssumption, FS_Subset
    <3>2. SetToSeq(Found) \in Seq(Found)
      BY <3>1, Enumeration
    <3> QED BY <2>1, <3>1, <3>2, LenProperties, ElementOfSeq
  <2> DEFINE d == SetToSeq(Found)[e]
  <2>3. Readable(disk[d].log)
    BY <1>2, <2>2 DEF Readable
  <2>4. Logged(d) \in Seq(Event)
    BY <1>1, <2>2, LoggedType DEF Sound, TypeOK
  <2>5. engines[e].ran = Logged(d) /\ engines[e].next = 1 /\ engines[e].db = d
    BY <1>2, <2>1, <2>2, <2>3 DEF RecoveredEngine, FreshEngine
  <2> QED BY <1>2, <2>2, <2>5 DEF Ran
<1>5. ASSUME NEW r \in Requests
      PROVE  /\ req[r].step = "arriving"
             /\ req[r].plan.batch \/ Len(req[r].plan.script) = 1
  <2>1. PICK p \in UNION {Plans[o] : o \in Requests} : req[r] = NewRequest(p)
    BY DEF Init
  <2> QED BY <2>1, PlansAssumption DEF NewRequest
<1>6. Exclusion
  BY <1>5 DEF Exclusion, Holding
<1>7. Past
  BY <1>2, <1>4 DEF Past, Before
<1>8. Runs
  BY <1>4, <1>5 DEF Runs, Together, Holding
<1>9. Ahead
  BY <1>2, <1>4 DEF Ahead, Log
<1>10. LogRuns
  BY <1>2, <1>5 DEF LogRuns, Together, Holding
<1> QED BY <1>6, <1>7, <1>8, <1>9, <1>10 DEF Ordered

(* A step that executes nothing: engines keep what they ran, logs stay or   *)
(* are deleted, and r moves on, perhaps into a lock it may take.            *)
EnginesRest ==
  /\ Len(engines) <= Len(engines')
  /\ \A e \in 1 .. Len(engines) :
       /\ engines'[e].ran = engines[e].ran /\ engines'[e].next = engines[e].next
       /\ engines'[e].db = engines[e].db
       /\ engines'[e].linked => engines[e].linked
  /\ \A e \in 1 .. Len(engines') : e \notin 1 .. Len(engines) =>
       engines'[e].ran = << >> /\ engines'[e].next = 0

LogsRest ==
  \A d \in Databases :
    \/ disk'[d].log = disk[d].log
    \/ /\ disk'[d].log = << >>
       /\ \A e \in 1 .. Len(engines) :
            engines[e].db = d /\ engines[e].next # 0 => ~engines'[e].linked

Rests(r, q) ==
  /\ req[r].step # "done" /\ q.plan = req[r].plan
  /\ q.step # "done" => q.at >= req[r].at
  /\ q.step = "lock" => q.hold = q.at
  /\ Holding(q) => /\ req[r].step = "lock" /\ CanLock(r)
                   /\ q.step = IF Exclusive(r) THEN "run" ELSE "read"
                   /\ q.at = req[r].at /\ q.hold = req[r].hold /\ q.engine = req[r].engine

(* A step that executes nothing keeps the order.                            *)
LEMMA Frame ==
  ASSUME Sound, Sound', Ordered, NEW r \in Requests, NEW q, Go(r, q), Rests(r, q),
         EnginesRest, LogsRest
  PROVE  Ordered'
<1>1. /\ req'[r] = q /\ \A o \in Requests : o # r => req'[o] = req[o]
  BY DEF Go, Sound, TypeOK
<1>2. Len(engines) \in Nat /\ Len(engines') \in Nat
  BY LenProperties DEF Sound, TypeOK
<1>3. \A o \in Requests :
        /\ Fits(req[o]) /\ req[o].at \in Nat /\ req'[o].at \in Nat
        /\ Holding(req[o]) => req[o].engine \in 1 .. Len(engines)
        /\ req[o].step = "lock" => req[o].engine \in 1 .. Len(engines)
  BY DEF Sound, TypeOK, Fits, Request, Holding
<1>4. \A e \in 1 .. Len(engines) : engines[e].db \in Databases /\ engines[e].next \in Nat
  <2>1. \A e \in 1 .. Len(engines) : engines[e] \in Engine
    BY ElementOfSeq DEF Sound, TypeOK
  <2> QED BY <2>1 DEF Engine
<1>5. \A e \in 1 .. Len(engines') : engines'[e].db \in Databases
  <2>1. \A e \in 1 .. Len(engines') : engines'[e] \in Engine
    BY ElementOfSeq DEF Sound, TypeOK
  <2> QED BY <2>1 DEF Engine
<1>6. Exclusion'
  <2>1. ASSUME NEW o \in Requests
        PROVE  req'[o].plan.batch \/ Len(req'[o].plan.script) = 1
    BY <1>1 DEF Ordered, Exclusion, Rests
  <2>2. ASSUME NEW o \in Requests, req'[o].step = "lock" PROVE req'[o].hold = req'[o].at
    BY <1>1, <2>2 DEF Ordered, Exclusion, Rests
  <2>3. ASSUME NEW o \in Requests, Holding(req'[o])
        PROVE  /\ Exclusive(o)' = Exclusive(o)
               /\ req'[o].hold <= req'[o].at /\ (req'[o].step = "run" <=> Exclusive(o))
               /\ req'[o].plan.batch \/ req'[o].hold = req'[o].at
               /\ req'[o].engine = req[o].engine
               /\ o # r => Holding(req[o])
    <3>1. CASE o = r
      <4>1. /\ req[r].step = "lock" /\ q.at = req[r].at /\ q.hold = req[r].hold
            /\ q.step = IF Exclusive(r) THEN "run" ELSE "read"
            /\ q.plan = req[r].plan /\ q.engine = req[r].engine
        BY <1>1, <2>3, <3>1 DEF Rests
      <4>2. req[r].hold = req[r].at
        BY <4>1 DEF Ordered, Exclusion
      <4>3. Exclusive(r)' = Exclusive(r)
        BY <1>1, <4>1 DEF Exclusive, Stmt
      <4> QED BY <1>1, <1>3, <3>1, <4>1, <4>2, <4>3
    <3>2. CASE o # r
      <4>1. req'[o] = req[o]
        BY <1>1, <3>2
      <4>2. Exclusive(o)' = Exclusive(o)
        BY <4>1 DEF Exclusive, Stmt
      <4> QED BY <2>3, <4>1, <4>2 DEF Ordered, Exclusion
    <3> QED BY <3>1, <3>2
  <2>4. ASSUME NEW o \in Requests, NEW p \in Requests, p # o,
               Holding(req'[o]), Holding(req'[p]), req'[o].engine = req'[p].engine
        PROVE  ~Exclusive(o)
    <3>1. req[o].engine = req[p].engine
      BY <2>3, <2>4
    <3>2. CASE o # r /\ p # r
      BY <2>3, <2>4, <3>1, <3>2 DEF Ordered, Exclusion
    <3>3. CASE o = r
      <4>1. CanLock(r) /\ p \in Holders(req[r].engine)
        BY <1>1, <2>3, <2>4, <3>1, <3>3 DEF Rests, Holders, Holding
      <4> QED BY <3>3, <4>1 DEF CanLock
    <3>4. CASE p = r
      <4>1. CanLock(r) /\ o \in Holders(req[r].engine)
        BY <1>1, <2>3, <2>4, <3>1, <3>4 DEF Rests, Holders, Holding
      <4> QED BY <4>1 DEF CanLock
    <3> QED BY <3>2, <3>3, <3>4
  <2> QED BY <2>1, <2>2, <2>3, <2>4 DEF Exclusion, Holding
<1>7. Past'
  <2>1. ASSUME NEW o \in Requests, req'[o].step # "done"
        PROVE  req[o].step # "done" /\ req[o].at <= req'[o].at
    BY <1>1, <1>3, <2>1 DEF Rests
  <2>2. ASSUME NEW o \in Requests, req'[o].step # "done", NEW e \in 1 .. Len(engines')
        PROVE  Before(engines'[e].ran, o, req'[o].at)
    <3>1. CASE e \in 1 .. Len(engines)
      <4>1. engines'[e].ran = Ran(e) /\ Before(Ran(e), o, req[o].at)
        BY <2>1, <2>2, <3>1 DEF EnginesRest, Ran, Ordered, Past
      <4>2. Ran(e) \in Seq(Event)
        <5>1. engines[e] \in Engine
          BY <3>1, ElementOfSeq DEF Sound, TypeOK
        <5> QED BY <5>1 DEF Engine, Ran
      <4>3. \A i \in 1 .. Len(Ran(e)) : Ran(e)[i].hold \in Nat
        <5>1. \A i \in 1 .. Len(Ran(e)) : Ran(e)[i] \in Event
          BY <4>2, ElementOfSeq
        <5> QED BY <5>1 DEF Event
      <4> QED BY <1>3, <2>1, <2>2, <4>1, <4>3 DEF Before
    <3>2. CASE e \notin 1 .. Len(engines)
      <4>1. Len(engines'[e].ran) = 0
        BY <3>2, EmptySeq DEF EnginesRest
      <4> QED BY <4>1 DEF Before
    <3> QED BY <3>1, <3>2
  <2>3. ASSUME NEW o \in Requests, req'[o].step # "done", NEW d \in Databases
        PROVE  Before(Logged(d)', o, req'[o].at)
    <3>1. CASE disk'[d].log = disk[d].log
      <4>1. Logged(d)' = Logged(d) /\ Before(Logged(d), o, req[o].at)
        BY <2>1, <2>3, <3>1, LogsAfter DEF Ordered, Past
      <4>2. \A i \in 1 .. Len(Logged(d)) : Logged(d)[i].hold \in Nat
        <5>1. \A i \in 1 .. Len(Logged(d)) : Logged(d)[i] \in Event
          BY LogsAfter, ElementOfSeq
        <5> QED BY <5>1 DEF Event
      <4> QED BY <1>3, <2>1, <2>3, <4>1, <4>2 DEF Before
    <3>2. CASE disk'[d].log = << >>
      <4>1. Len(Logged(d)') = 0
        BY <3>2, LogsAfter
      <4> QED BY <4>1 DEF Before
    <3> QED BY <3>1, <3>2 DEF LogsRest
  <2> QED BY <2>2, <2>3 DEF Past, Ran
<1>8. ASSUME NEW o \in Requests, Holding(req'[o])
      PROVE  /\ req'[o].engine = req[o].engine /\ req'[o].hold = req[o].hold
             /\ req[o].engine \in 1 .. Len(engines)
             /\ o # r => Holding(req[o])
             /\ o = r => /\ req[r].step = "lock" /\ req[r].hold = req[r].at
                         /\ Past
  BY <1>1, <1>3, <1>8 DEF Rests, Ordered, Exclusion
<1>9. Runs'
  <2>1. ASSUME NEW e \in 1 .. Len(engines') PROVE Together(engines'[e].ran)
    <3>1. CASE e \in 1 .. Len(engines)
      BY <3>1 DEF EnginesRest, Ordered, Runs, Ran
    <3>2. CASE e \notin 1 .. Len(engines)
      <4>1. Len(engines'[e].ran) = 0
        BY <3>2, EmptySeq DEF EnginesRest
      <4> QED BY <4>1 DEF Together
    <3> QED BY <3>1, <3>2
  <2>2. ASSUME NEW o \in Requests, Holding(req'[o])
        PROVE  TailOf(engines'[req'[o].engine].ran, o, req'[o].hold)
    <3>1. /\ req'[o].engine = req[o].engine /\ req'[o].hold = req[o].hold
          /\ engines'[req[o].engine].ran = Ran(req[o].engine)
      BY <1>8, <2>2 DEF EnginesRest, Ran
    <3>2. CASE o # r
      BY <1>8, <2>2, <3>1, <3>2 DEF Ordered, Runs
    <3>3. CASE o = r
      <4>1. Before(Ran(req[r].engine), r, req[r].at) /\ req[r].hold = req[r].at
        BY <1>8, <2>2, <3>3 DEF Past
      <4> QED BY <1>3, <3>1, <3>3, <4>1 DEF Before, TailOf
    <3> QED BY <3>2, <3>3
  <2> QED BY <2>1, <2>2 DEF Runs, Ran
<1>10. Ahead'
  <2>1. ASSUME NEW e \in 1 .. Len(engines'), engines'[e].linked, engines'[e].next # 0,
               Readable(disk'[engines'[e].db].log)
        PROVE  engines'[e].next - 1 <= LastSeq(disk'[engines'[e].db].log)
    <3>1. e \in 1 .. Len(engines)
      BY <2>1 DEF EnginesRest
    <3>2. /\ engines'[e].next = engines[e].next /\ engines[e].linked
          /\ engines'[e].db = engines[e].db
      BY <2>1, <3>1 DEF EnginesRest
    <3>3. disk'[engines[e].db].log = disk[engines[e].db].log
      BY <1>4, <2>1, <3>1, <3>2 DEF LogsRest
    <3> QED BY <2>1, <3>1, <3>2, <3>3 DEF Ordered, Ahead, Log
  <2> QED BY <2>1 DEF Ahead, Log
<1>11. LogRuns'
  <2>1. ASSUME NEW d \in Databases, Readable(disk'[d].log) PROVE Together(Logged(d)')
    <3>1. CASE disk'[d].log = disk[d].log
      BY <2>1, <3>1, LogsAfter DEF Ordered, LogRuns
    <3>2. CASE disk'[d].log = << >>
      BY <3>2, LogsAfter DEF Together
    <3> QED BY <3>1, <3>2 DEF LogsRest
  <2>2. ASSUME NEW o \in Requests, Holding(req'[o]), NEW d \in Databases,
               NEW i \in 1 .. Len(Logged(d)'),
               Logged(d)'[i].by = o, Logged(d)'[i].hold = req'[o].hold
        PROVE  d = engines'[req'[o].engine].db /\ engines'[req'[o].engine].next # 0
    <3>1. disk'[d].log = disk[d].log /\ Logged(d)' = Logged(d)
      BY <2>2, LogsAfter DEF LogsRest
    <3>2. /\ req'[o].engine = req[o].engine /\ req'[o].hold = req[o].hold
          /\ engines'[req[o].engine].db = engines[req[o].engine].db
          /\ engines'[req[o].engine].next = engines[req[o].engine].next
      BY <1>8, <2>2 DEF EnginesRest
    <3>3. CASE o # r
      BY <1>8, <2>2, <3>1, <3>2, <3>3 DEF Ordered, LogRuns
    <3>4. CASE o = r
      <4>1. Before(Logged(d), r, req[r].at) /\ req[r].hold = req[r].at
        BY <1>8, <2>2, <3>4 DEF Past
      <4> QED BY <1>3, <2>2, <3>1, <3>2, <3>4, <4>1 DEF Before
    <3> QED BY <3>3, <3>4
  <2>3. ASSUME NEW o \in Requests, Holding(req'[o]),
               engines'[req'[o].engine].linked, engines'[req'[o].engine].next # 0,
               Readable(disk'[engines'[req'[o].engine].db].log),
               LastSeq(disk'[engines'[req'[o].engine].db].log)
                 = engines'[req'[o].engine].next - 1
        PROVE  TailOf(Logged(engines[req[o].engine].db), o, req[o].hold)'
    <3> DEFINE e == req[o].engine
               d == engines[e].db
    <3>1. /\ req'[o].engine = e /\ req'[o].hold = req[o].hold /\ e \in 1 .. Len(engines)
          /\ engines'[e].db = d /\ engines'[e].next = engines[e].next /\ d \in Databases
          /\ engines[e].linked
      BY <1>4, <1>8, <2>3 DEF EnginesRest
    <3>2. disk'[d].log = disk[d].log
      BY <2>3, <3>1 DEF LogsRest
    <3>4. Logged(engines[req[o].engine].db)' = Logged(d)
      BY <3>1, <3>2 DEF Logged
    <3>5. CASE o # r
      <4>1. TailOf(Logged(d), o, req[o].hold)
        BY <1>8, <2>3, <3>1, <3>2, <3>5, LogTail
      <4>2. TailOf(Logged(d), o, req'[o].hold)
        BY <3>1, <4>1
      <4> QED BY <3>4, <4>2 DEF TailOf
    <3>6. CASE o = r
      <4>1. Before(Logged(d), r, req[r].at) /\ req[r].hold = req[r].at
        BY <1>8, <2>3, <3>1, <3>6 DEF Past
      <4>2. TailOf(Logged(d), o, req'[o].hold)
        BY <1>3, <3>1, <3>6, <4>1 DEF Before, TailOf
      <4> QED BY <3>4, <4>2 DEF TailOf
    <3> QED BY <3>5, <3>6
  <2>4. \A o \in Requests : Holding(req'[o]) =>
          /\ \A d \in Databases : \A i \in 1 .. Len(Logged(d)') :
               Logged(d)'[i].by = o /\ Logged(d)'[i].hold = req'[o].hold =>
                 d = engines'[req'[o].engine].db /\ engines'[req'[o].engine].next # 0
    BY <2>2
  <2> QED BY <2>1, <2>3, <2>4 DEF LogRuns, Log, Holding
<1> QED BY <1>6, <1>7, <1>9, <1>10, <1>11 DEF Ordered

-----------------------------------------------------------------------------
(* Steps that execute nothing.                                              *)

(* Engines and logs that do not change rest.                                *)
LEMMA RestUnchanged ==
  ASSUME Sound, UNCHANGED << engines, disk >>
  PROVE  EnginesRest /\ LogsRest
BY LenProperties DEF EnginesRest, LogsRest, Sound, TypeOK

(* The moves of a request that executes nothing.                            *)
LEMMA RestMoves ==
  ASSUME Sound, NEW r \in Requests, req[r].step # "done"
  PROVE  /\ Rests(r, Failed(r))
         /\ \A db \in Names : Rests(r, Succeeded(r, db))
         /\ \A s \in Steps : s \notin {"lock", "read", "run"} =>
              /\ Rests(r, To(r, s))
              /\ \A db, x : Rests(r, [To(r, s) EXCEPT !.db = db])
              /\ \A x : Rests(r, [To(r, s) EXCEPT !.session = x])
              /\ \A x, db : Rests(r, [To(r, s) EXCEPT !.session = x, !.db = db])
              /\ \A x : Rests(r, [To(r, s) EXCEPT !.engine = x])
              /\ \A x : Rests(r, [To(r, s) EXCEPT !.target = x])
<1> DEFINE q == req[r]
<1>1. q \in Request /\ q.at \in Nat
  BY Current DEF Request
<1>2. Rests(r, Failed(r))
  BY <1>1 DEF Rests, Failed, Answered, Holding, Request
<1>3. ASSUME NEW db \in Names PROVE Rests(r, Succeeded(r, db))
  <2>1. CASE q.at = Len(q.plan.script)
    BY <1>1, <2>1 DEF Rests, Succeeded, Answered, Holding, Request
  <2>2. CASE q.at # Len(q.plan.script)
    BY <1>1, <2>2 DEF Rests, Succeeded, Holding, Request
  <2> QED BY <2>1, <2>2
<1>4. ASSUME NEW s \in Steps, s \notin {"lock", "read", "run"}
      PROVE  /\ Rests(r, To(r, s))
             /\ \A db, x : Rests(r, [To(r, s) EXCEPT !.db = db])
             /\ \A x : Rests(r, [To(r, s) EXCEPT !.session = x])
             /\ \A x, db : Rests(r, [To(r, s) EXCEPT !.session = x, !.db = db])
             /\ \A x : Rests(r, [To(r, s) EXCEPT !.engine = x])
             /\ \A x : Rests(r, [To(r, s) EXCEPT !.target = x])
  BY <1>1, <1>4 DEF Rests, To, Holding, Request
<1> QED BY <1>2, <1>3, <1>4

(* The steps that touch neither engine nor directory keep the order; Lock   *)
(* gives the lock to one writer, or to readers.                             *)
LEMMA OrderedCalm ==
  ASSUME Sound, Sound', Ordered, NEW r \in Requests,
         \/ Arrive(r) \/ LaunchTask(r) \/ TaskUse(r) \/ DropRemove(r) \/ DropActive(r)
         \/ DropWait(r) \/ UseCheck(r) \/ UseSet(r) \/ Resolve(r) \/ Lookup(r) \/ Lock(r)
         \/ StatementFails(r)
  PROVE  Ordered'
<1>1. EnginesRest /\ LogsRest
  BY RestUnchanged DEF Arrive, LaunchTask, TaskUse, DropRemove, DropActive,
    DropWait, UseCheck, UseSet, Resolve, Lookup, Lock, StatementFails
<1>2. SUFFICES \E q : Go(r, q) /\ Rests(r, q)
  BY <1>1, Frame
<1>3. req[r].step # "done" /\ req[r] \in Request /\ NoDb \in Names /\ Default \in Names
  BY Current, NamesAssumption DEF Names, Arrive, LaunchTask, TaskUse, DropRemove, DropActive,
    DropWait, UseCheck, UseSet, Resolve, Lookup, Lock, StatementFails, At
<1>4. CASE Arrive(r)
  <2> DEFINE q == CASE req[r].session = "task" -> To(r, "task")
                    [] req[r].session \in {"pinned", "following"} /\ req[r].db = NoDb ->
                         [To(r, "next") EXCEPT !.db = active]
                    [] OTHER -> To(r, "next")
  <2>1. Go(r, q)
    BY <1>4 DEF Arrive
  <2>2. Rests(r, q)
    BY <1>3, RestMoves DEF Steps
  <2> QED BY <2>1, <2>2
<1>5. CASE LaunchTask(r)
  <2>1. /\ Rests(r, To(r, "taskUse"))
        /\ Rests(r, [To(r, "next") EXCEPT !.session = "server", !.db = NoDb])
    BY <1>3, RestMoves DEF Steps
  <2> QED BY <1>5, <2>1 DEF LaunchTask
<1>6. CASE TaskUse(r)
  BY <1>3, <1>6, RestMoves DEF TaskUse, Steps
<1>7. CASE DropRemove(r)
  <2>1. Rests(r, Failed(r)) /\ \A x : Rests(r, [To(r, "dropActive") EXCEPT !.engine = x])
    BY <1>3, RestMoves DEF Steps
  <2>2. CASE Stmt(r).db = Default \/ Stmt(r).db \notin Registered
    BY <1>7, <2>1, <2>2 DEF DropRemove
  <2>3. CASE ~(Stmt(r).db = Default \/ Stmt(r).db \notin Registered)
    BY <1>7, <2>1, <2>3 DEF DropRemove
  <2> QED BY <2>2, <2>3
<1>8. CASE DropActive(r) \/ DropWait(r) \/ UseCheck(r) \/ StatementFails(r)
  BY <1>3, <1>8, RestMoves DEF DropActive, DropWait, UseCheck, StatementFails, Steps
<1>9. CASE UseSet(r)
  <2>1. (IF req[r].session = "server" THEN NoDb ELSE Stmt(r).db) \in Names
    BY <1>3, Current DEF Statements
  <2> QED BY <1>3, <1>9, <2>1, RestMoves DEF UseSet
<1>10. CASE Resolve(r)
  <2>1. \A x : Rests(r, [To(r, "lookup") EXCEPT !.target = x])
    BY <1>3, RestMoves DEF Steps
  <2> QED BY <1>10, <2>1 DEF Resolve
<1>11. CASE Lookup(r)
  <2>1. CASE req[r].target \in Registered
    <3> DEFINE q == [To(r, "lock") EXCEPT !.engine = dbs[req[r].target], !.hold = req[r].at]
    <3>1. Go(r, q)
      BY <1>11, <2>1 DEF Lookup
    <3>2. /\ q.plan = req[r].plan /\ q.at = req[r].at /\ q.step = "lock" /\ q.hold = req[r].at
          /\ req[r].at \in Nat
      BY <1>3 DEF To, Request
    <3>3. Rests(r, q)
      BY <1>3, <3>2 DEF Rests, Holding
    <3> QED BY <3>1, <3>3
  <2>2. CASE req[r].target \notin Registered
    BY <1>3, <1>11, <2>2, RestMoves DEF Lookup
  <2> QED BY <2>1, <2>2
<1>12. CASE Lock(r)
  <2>1. CASE engines[req[r].engine].poisoned
    BY <1>3, <1>12, <2>1, RestMoves DEF Lock
  <2>2. CASE ~engines[req[r].engine].poisoned
    <3> DEFINE q == To(r, IF Exclusive(r) THEN "run" ELSE "read")
    <3>1. Go(r, q) /\ CanLock(r) /\ req[r].step = "lock"
      BY <1>12, <2>2 DEF Lock, At
    <3>2. /\ q.plan = req[r].plan /\ q.at = req[r].at /\ q.hold = req[r].hold
          /\ q.engine = req[r].engine /\ q.step = IF Exclusive(r) THEN "run" ELSE "read"
          /\ req[r].at \in Nat
      BY <1>3 DEF To, Request
    <3>3. Rests(r, q)
      BY <1>3, <3>1, <3>2 DEF Rests, Holding
    <3> QED BY <3>1, <3>3
  <2> QED BY <2>1, <2>2
<1> QED BY <1>4, <1>5, <1>6, <1>7, <1>8, <1>9, <1>10, <1>11, <1>12

(* CREATE, DROP's deletions and a panic keep the order.                     *)
LEMMA OrderedCatalog ==
  ASSUME Sound, Sound', Ordered, Files, NEW r \in Requests,
         Create(r) \/ DropFiles(r) \/ DropDir(r) \/ Panic(r)
  PROVE  Ordered'
<1> DEFINE d == Stmt(r).db
<1>1. req[r].step # "done" /\ req[r] \in Request /\ req[r].db \in Names /\ Default \in Names
  BY Current, NamesAssumption DEF Names, Create, DropFiles, DropDir, Panic, At, Request
<1>2. /\ engines \in Seq(Engine) /\ Len(engines) \in Nat /\ DOMAIN engines = 1 .. Len(engines)
      /\ \A e \in 1 .. Len(engines) : engines[e] \in Engine
  BY LenProperties, ElementOfSeq DEF Sound, TypeOK
<1>3. Rests(r, Failed(r)) /\ Rests(r, Dropped(r)) /\ Rests(r, Succeeded(r, req[r].db))
      /\ Rests(r, To(r, "dropDir"))
  BY <1>1, RestMoves DEF Dropped, Steps
<1>4. PICK q : Go(r, q) /\ Rests(r, q)
  BY <1>3 DEF Create, DropFiles, DropDir, Panic
<1>5. d \in Databases \/ Panic(r)
  BY Current, <1>1 DEF Create, DropFiles, DropDir, At, IsCatalog, Fits, DropSteps
<1>6. SUFFICES EnginesRest /\ LogsRest
  BY <1>4, Frame
<1>7. CASE UNCHANGED << engines, disk >>
  BY <1>7, RestUnchanged
<1>8. CASE Create(r) /\ d \notin Registered
  <2>1. /\ engines' = Append(engines, FreshEngine(d))
        /\ disk' = [disk EXCEPT ![d].exists = TRUE]
    BY <1>8 DEF Create
  <2>2. FreshEngine(d) \in Engine /\ FreshEngine(d).ran = << >> /\ FreshEngine(d).next = 0
    <3>1. << >> \in Seq(Event)
      BY EmptySeq
    <3>2. d \in Databases
      BY <1>5, <1>8 DEF Create, Panic, At
    <3> QED BY <3>1, <3>2 DEF FreshEngine, Engine
  <2>3. /\ Len(engines') = Len(engines) + 1
        /\ \A e \in 1 .. Len(engines) : engines'[e] = engines[e]
        /\ engines'[Len(engines) + 1] = FreshEngine(d)
    BY <1>2, <2>1, <2>2, AppendProperties
  <2>4. EnginesRest
    BY <1>2, <2>2, <2>3 DEF EnginesRest
  <2>5. LogsRest
    BY <2>1 DEF LogsRest, Sound, TypeOK, Directory
  <2> QED BY <2>4, <2>5
<1>9. CASE DropFiles(r) /\ disk[d].exists
  <2>1. /\ disk' = [disk EXCEPT ![d] = [NoDirectory EXCEPT !.exists = TRUE]]
        /\ engines' = [e \in 1 .. Len(engines) |->
             IF engines[e].db = d /\ engines[e].next # 0
               THEN [engines[e] EXCEPT !.linked = FALSE] ELSE engines[e]]
    BY <1>2, <1>9 DEF DropFiles
  <2>2. \A e \in 1 .. Len(engines) :
          LET n == [engines[e] EXCEPT !.linked = FALSE]
          IN n.ran = engines[e].ran /\ n.next = engines[e].next /\ n.db = engines[e].db
             /\ ~n.linked
    BY <1>2 DEF Engine
  <2>3. Len(engines') = Len(engines)
    BY <1>2, <2>1
  <2>4. \A e \in 1 .. Len(engines) :
          /\ engines'[e].ran = engines[e].ran /\ engines'[e].next = engines[e].next
          /\ engines'[e].db = engines[e].db
          /\ engines'[e].linked => engines[e].linked
          /\ engines[e].db = d /\ engines[e].next # 0 => ~engines'[e].linked
    BY <2>1, <2>2
  <2>5. EnginesRest
    BY <1>2, <2>3, <2>4 DEF EnginesRest
  <2>6. \A x \in Databases : disk'[x].log = IF x = d THEN << >> ELSE disk[x].log
    BY <2>1 DEF NoDirectory, Sound, TypeOK
  <2>7. LogsRest
    BY <2>4, <2>6 DEF LogsRest
  <2> QED BY <2>5, <2>7
<1>10. CASE DropDir(r) /\ disk[d].exists /\ ~disk[d].file
  <2>1. disk' = [disk EXCEPT ![d] = NoDirectory] /\ UNCHANGED engines
    BY <1>10 DEF DropDir
  <2>2. EnginesRest
    BY <1>2, <2>1 DEF EnginesRest
  <2>3. \A x \in Databases : x # d => disk'[x].log = disk[x].log
    BY <2>1 DEF Sound, TypeOK
  <2>4. disk'[d].log = << >> /\ d \in Databases
    BY <1>5, <1>10, <2>1 DEF NoDirectory, Sound, TypeOK, DropDir, Panic, At
  <2>5. disk[d].log = << >>
    BY <1>10, <2>4 DEF Files
  <2> QED BY <2>2, <2>3, <2>4, <2>5 DEF LogsRest
<1>11. CASE Panic(r)
  <2> DEFINE e == req[r].engine
             n == [engines[e] EXCEPT !.poisoned = TRUE]
  <2>1. engines' = [engines EXCEPT ![e] = n] /\ UNCHANGED disk
    BY <1>11 DEF Panic
  <2>2. e \in 1 .. Len(engines)
    BY <1>11, Current DEF Panic, At, Fits
  <2>3. /\ n \in Engine /\ n.ran = engines[e].ran /\ n.next = engines[e].next
        /\ n.db = engines[e].db /\ n.linked = engines[e].linked
    BY <1>2, <2>2 DEF Engine
  <2> HIDE DEF n
  <2>4. Len(engines') = Len(engines)
        /\ \A i \in 1 .. Len(engines) : engines'[i] = IF i = e THEN n ELSE engines[i]
    BY <1>2, <2>1, <2>2, <2>3, ExceptSeq
  <2>5. EnginesRest
    BY <1>2, <2>3, <2>4 DEF EnginesRest
  <2> QED BY <2>1, <2>5 DEF LogsRest
<1> QED BY <1>7, <1>8, <1>9, <1>10, <1>11 DEF Create, DropFiles, DropDir, Panic

-----------------------------------------------------------------------------
(* Steps that execute a statement.                                          *)

(* The holder r has executed a statement: it goes on, or lets go.           *)
LEMMA Executed ==
  ASSUME Sound, Sound', Ordered, NEW r \in Requests, Holding(req[r]),
         NEW q \in {Failed(r), Continued(r)}, Go(r, q)
  PROVE  /\ Exclusion'
         /\ \A o \in Requests : Holding(req'[o]) =>
              /\ Holding(req[o]) /\ req'[o].hold = req[o].hold /\ req'[o].engine = req[o].engine
              /\ req[o].engine \in 1 .. Len(engines)
              /\ o # r => req'[o] = req[o]
         /\ \A o \in Requests : req'[o].step # "done" =>
              /\ req[o].step # "done" /\ req[o].at \in Nat
              /\ req'[o].at = IF o = r THEN req[o].at + 1 ELSE req[o].at
<1>1. /\ req'[r] = q /\ \A o \in Requests : o # r => req'[o] = req[o]
  BY DEF Go, Sound, TypeOK
<1>2. \A o \in Requests : req[o] \in Request /\ req[o].at \in Nat /\ req[o].hold \in Nat /\ Fits(req[o])
  BY Current DEF Request
<1>3. /\ q.plan = req[r].plan
      /\ q.step # "done" => q.at = req[r].at + 1
      /\ q.step \in {"done", "next", req[r].step}
      /\ Holding(q) => /\ q.plan.batch /\ q.step = req[r].step
                       /\ q.hold = req[r].hold /\ q.engine = req[r].engine
  <2>1. CASE q = Failed(r)
    BY <1>2, <2>1 DEF Failed, Answered, Holding, Request
  <2>2. CASE q = Continued(r)
    BY <2>2, ContinuedMove
  <2> QED BY <2>1, <2>2
<1>4. \A o \in Requests : Holding(req'[o]) =>
        /\ Holding(req[o]) /\ req'[o].hold = req[o].hold /\ req'[o].engine = req[o].engine
        /\ o # r => req'[o] = req[o]
        /\ o = r => req[r].plan.batch /\ req'[r].step = req[r].step /\ req'[r].plan.batch
  <2>1. Holding(req'[r]) => /\ req'[r].hold = req[r].hold /\ req'[r].engine = req[r].engine
          /\ req[r].plan.batch /\ req'[r].step = req[r].step /\ req'[r].plan.batch
    BY <1>1, <1>3
  <2>2. \A o \in Requests : o # r => req'[o] = req[o]
    BY <1>1
  <2> QED BY <2>1, <2>2
<1>5. ASSUME NEW o \in Requests, Holding(req'[o])
      PROVE  Exclusive(o)' = Exclusive(o)
  <2>1. CASE o = r
    BY <1>1, <1>3, <1>4, <1>5, <2>1 DEF Exclusive
  <2>2. CASE o # r
    BY <1>1, <2>2 DEF Exclusive, Stmt
  <2> QED BY <2>1, <2>2
<1>6. ASSUME NEW o \in Requests
      PROVE  /\ req'[o].plan.batch \/ Len(req'[o].plan.script) = 1
             /\ req'[o].step = "lock" => req'[o].hold = req'[o].at
  <2>1. /\ req[o].plan.batch \/ Len(req[o].plan.script) = 1
        /\ req[o].step = "lock" => req[o].hold = req[o].at
    BY DEF Ordered, Exclusion
  <2>2. req'[r].plan = req[r].plan /\ req'[r].step # "lock"
    BY <1>1, <1>3 DEF Holding
  <2>3. o # r => req'[o] = req[o]
    BY <1>1
  <2> QED BY <2>1, <2>2, <2>3
<1>7. ASSUME NEW o \in Requests, Holding(req'[o])
      PROVE  /\ req'[o].hold <= req'[o].at /\ (req'[o].plan.batch \/ req'[o].hold = req'[o].at)
             /\ req'[o].step = "run" <=> Exclusive(o)'
             /\ \A p \in Requests : p # o /\ Holding(req'[p]) /\ req'[p].engine = req'[o].engine =>
                  ~Exclusive(o)'
  <2>1. /\ req[o].hold <= req[o].at /\ (req[o].plan.batch \/ req[o].hold = req[o].at)
        /\ req[o].step = "run" <=> Exclusive(o)
        /\ \A p \in Requests : p # o /\ Holding(req[p]) /\ req[p].engine = req[o].engine =>
             ~Exclusive(o)
    BY <1>4, <1>7 DEF Ordered, Exclusion
  <2>2. \A p \in Requests : p # o /\ Holding(req'[p]) /\ req'[p].engine = req'[o].engine =>
          ~Exclusive(o)
    BY <1>4, <1>7, <2>1
  <2>3. CASE o = r
    <3>1. q.at = req[r].at + 1 /\ q.hold = req[r].hold
      <4>1. Holding(q)
        BY <1>1, <1>7, <2>3
      <4>2. q.step # "done"
        BY <4>1 DEF Holding
      <4> QED BY <1>3, <4>1, <4>2
    <3> QED BY <1>1, <1>2, <1>4, <1>5, <1>7, <2>1, <2>2, <2>3, <3>1
  <2>4. CASE o # r
    BY <1>1, <1>5, <1>7, <2>1, <2>2, <2>4
  <2> QED BY <2>3, <2>4
<1>8. Exclusion'
  BY <1>6, <1>7 DEF Exclusion, Holding
<1>9. \A o \in Requests : Holding(req'[o]) => req[o].engine \in 1 .. Len(engines)
  BY <1>2, <1>4 DEF Fits, Holding
<1>10. \A o \in Requests : req'[o].step # "done" =>
         /\ req[o].step # "done" /\ req[o].at \in Nat
         /\ req'[o].at = IF o = r THEN req[o].at + 1 ELSE req[o].at
  <2>1. req[r].step # "done"
    BY DEF Holding
  <2>2. req'[r].step # "done" => req'[r].at = req[r].at + 1
    BY <1>1, <1>3
  <2>3. \A o \in Requests : o # r => req'[o] = req[o]
    BY <1>1
  <2> QED BY <1>2, <2>1, <2>2, <2>3
<1> QED BY <1>4, <1>8, <1>9, <1>10

(* ... and the statement is in its engine's history.                        *)
LEMMA ExecutedRuns ==
  ASSUME Sound, Sound', Ordered, NEW r \in Requests, Holding(req[r]),
         NEW q \in {Failed(r), Continued(r)}, Go(r, q),
         NEW v \in Event, v.by = r, v.hold = req[r].hold,
         Len(engines') = Len(engines),
         \A i \in 1 .. Len(engines) : i # req[r].engine => engines'[i] = engines[i],
         engines'[req[r].engine].ran = Append(Ran(req[r].engine), v)
  PROVE  /\ Runs'
         /\ \A o \in Requests : req'[o].step # "done" =>
              \A e \in 1 .. Len(engines') : Before(engines'[e].ran, o, req'[o].at)
<1> DEFINE x == req[r].engine
<1>1. x \in 1 .. Len(engines) /\ req[r].hold \in Nat /\ req[r].at \in Nat /\ req[r].step # "done"
  BY Current DEF Fits, Holding, Request
<1>2. \A e \in 1 .. Len(engines) : Ran(e) \in Seq(Event)
  <2>1. \A e \in 1 .. Len(engines) : engines[e] \in Engine
    BY ElementOfSeq DEF Sound, TypeOK
  <2> QED BY <2>1 DEF Engine, Ran
<1>3. /\ Together(Ran(x)) /\ TailOf(Ran(x), r, req[r].hold) /\ req[r].hold <= req[r].at
      /\ Before(Ran(x), r, req[r].at)
  BY <1>1 DEF Ordered, Runs, Exclusion, Past
<1>4. Together(Append(Ran(x), v)) /\ TailOf(Append(Ran(x), v), r, req[r].hold)
  BY <1>1, <1>2, <1>3, TogetherAppend
<1>5. ASSUME NEW e \in 1 .. Len(engines') PROVE Together(engines'[e].ran)
  BY <1>4, <1>5 DEF Ordered, Runs, Ran
<1>6. ASSUME NEW o \in Requests, Holding(req'[o])
      PROVE  TailOf(engines'[req'[o].engine].ran, o, req'[o].hold)
  <2>1. /\ Holding(req[o]) /\ req'[o].hold = req[o].hold /\ req'[o].engine = req[o].engine
        /\ req[o].engine \in 1 .. Len(engines) /\ req[o].step # "done"
    BY <1>6, Executed DEF Holding
  <2>2. CASE req[o].engine # x
    BY <2>1, <2>2 DEF Ordered, Runs, Ran
  <2>3. CASE o = r
    BY <1>4, <2>1, <2>3
  <2>4. CASE req[o].engine = x /\ o # r
    <3>1. req[o].hold = req[o].at
      BY <2>1, <2>4 DEF Ordered, Exclusion, Exclusive
    <3>2. Before(Ran(x), o, req[o].at) /\ req[o].at \in Nat
      BY <1>1, <2>1, Current DEF Ordered, Past, Request
    <3>3. Before(Append(Ran(x), v), o, req[o].at)
      BY <1>1, <1>2, <2>4, <3>2, BeforeAppend
    <3>4. engines'[req'[o].engine].ran = Append(Ran(x), v) /\ req'[o].hold = req[o].at
      BY <2>1, <2>4, <3>1
    <3>5. TailOf(Append(Ran(x), v), o, req[o].at)
      <4> DEFINE s == Append(Ran(x), v)
      <4>1. Before(s, o, req[o].at)
        BY <3>3
      <4> HIDE DEF s
      <4>2. TailOf(s, o, req[o].at)
        BY <3>2, <4>1 DEF Before, TailOf
      <4> QED BY <4>2 DEF s
    <3> QED BY <3>4, <3>5
  <2> QED BY <2>2, <2>3, <2>4
<1>7. Runs'
  BY <1>5, <1>6 DEF Runs, Ran
<1>8. ASSUME NEW o \in Requests, req'[o].step # "done", NEW e \in 1 .. Len(engines')
      PROVE  Before(engines'[e].ran, o, req'[o].at)
  <2>1. /\ req[o].step # "done" /\ req[o].at \in Nat
        /\ req'[o].at = IF o = r THEN req[o].at + 1 ELSE req[o].at
    BY <1>8, Executed
  <2>2. Before(Ran(e), o, req[o].at)
    BY <1>8, <2>1 DEF Ordered, Past
  <2>3. Before(Ran(e), o, req'[o].at)
    <3>1. \A i \in 1 .. Len(Ran(e)) : Ran(e)[i].hold \in Nat
      <4>1. \A i \in 1 .. Len(Ran(e)) : Ran(e)[i] \in Event
        BY <1>2, ElementOfSeq
      <4> QED BY <4>1 DEF Event
    <3> QED BY <2>1, <2>2, <3>1 DEF Before
  <2>4. CASE e # x
    BY <2>3, <2>4 DEF Ran
  <2>5. CASE e = x
    <3>1. v.by = o => v.hold < req'[o].at
      BY <1>1, <1>3, <2>1
    <3>2. Before(Append(Ran(x), v), o, req'[o].at)
      BY <1>1, <1>2, <2>3, <2>5, <3>1, BeforeAppend
    <3> QED BY <2>5, <3>2
  <2> QED BY <2>4, <2>5
<1> QED BY <1>7, <1>8

(* A read joins the history behind its own hold.                            *)
LEMMA OrderedRead ==
  ASSUME Sound, Sound', Ordered, NEW r \in Requests, Read(r) PROVE Ordered'
<1> DEFINE e == req[r].engine
           v == EventOf(r)
           n == [engines[e] EXCEPT !.ran = Append(engines[e].ran, v)]
<1>1. Holding(req[r]) /\ Stmt(r).op = "read" /\ Go(r, Continued(r)) /\ disk' = disk
      /\ engines' = [engines EXCEPT ![e] = n]
  BY DEF Read, Holding
<1>2. v \in Event /\ v.by = r /\ v.hold = req[r].hold
  BY <1>1, Current DEF EventOf, Event, Request
<1>3. e \in 1 .. Len(engines) /\ engines \in Seq(Engine) /\ Len(engines) \in Nat
  BY <1>1, Current, LenProperties DEF Fits, Holding, Sound, TypeOK
<1>4. engines[e] \in Engine
  BY <1>3, ElementOfSeq
<1>5. engines[e].ran \in Seq(Event)
  BY <1>4 DEF Engine
<1>6. Append(engines[e].ran, v) \in Seq(Event)
  BY <1>2, <1>5, AppendProperties
<1>7. n \in Engine /\ n.ran = Append(engines[e].ran, v) /\ n.db = engines[e].db
      /\ n.next = engines[e].next /\ n.linked = engines[e].linked
  BY <1>4, <1>6 DEF Engine
<1> HIDE DEF n
<1>8. /\ Len(engines') = Len(engines)
      /\ \A i \in 1 .. Len(engines) : engines'[i] = IF i = e THEN n ELSE engines[i]
  BY <1>1, <1>3, <1>7, ExceptSeq
<1>9. engines'[e].ran = Append(Ran(e), v)
  BY <1>3, <1>7, <1>8 DEF Ran
<1> DEFINE q == Continued(r)
<1>10. Holding(req[r]) /\ q \in {Failed(r), Continued(r)} /\ Go(r, q)
  BY <1>1
<1> HIDE DEF v, q
<1>11. /\ Runs'
       /\ \A o \in Requests : req'[o].step # "done" =>
            \A i \in 1 .. Len(engines') : Before(engines'[i].ran, o, req'[o].at)
  BY <1>2, <1>8, <1>9, <1>10, ExecutedRuns
<1>12. /\ Exclusion'
       /\ \A o \in Requests : Holding(req'[o]) =>
            /\ Holding(req[o]) /\ req'[o].hold = req[o].hold /\ req'[o].engine = req[o].engine
            /\ req[o].engine \in 1 .. Len(engines)
       /\ \A o \in Requests : req'[o].step # "done" =>
            /\ req[o].step # "done" /\ req[o].at \in Nat
            /\ req'[o].at = IF o = r THEN req[o].at + 1 ELSE req[o].at
  BY <1>10, Executed
<1>13. \A d \in Databases : Logged(d)' = Logged(d)
  BY <1>1 DEF Logged
<1>14. Past'
  <2>1. ASSUME NEW o \in Requests, req'[o].step # "done", NEW d \in Databases
        PROVE  Before(Logged(d)', o, req'[o].at)
    <3>1. Before(Logged(d), o, req[o].at)
      BY <1>12, <2>1 DEF Ordered, Past
    <3>2. \A i \in 1 .. Len(Logged(d)) : Logged(d)[i] \in Event
      BY LogsAfter, ElementOfSeq
    <3> QED BY <1>12, <1>13, <2>1, <3>1, <3>2 DEF Before, Event
  <2> QED BY <1>11, <2>1 DEF Past, Ran
<1>15. \A i \in 1 .. Len(engines) :
         /\ engines'[i].db = engines[i].db /\ engines'[i].next = engines[i].next
         /\ engines'[i].linked = engines[i].linked
  BY <1>7, <1>8
<1>16. Ahead'
  BY <1>1, <1>8, <1>15 DEF Ordered, Ahead, Log
<1>17. LogRuns'
  <2>1. ASSUME NEW d \in Databases, Readable(disk'[d].log) PROVE Together(Logged(d)')
    BY <1>1, <1>13, <2>1 DEF Ordered, LogRuns
  <2>2. ASSUME NEW o \in Requests, Holding(req'[o]), NEW d \in Databases,
               NEW i \in 1 .. Len(Logged(d)'),
               Logged(d)'[i].by = o, Logged(d)'[i].hold = req'[o].hold
        PROVE  d = engines'[req'[o].engine].db /\ engines'[req'[o].engine].next # 0
    BY <1>12, <1>13, <1>15, <2>2 DEF Ordered, LogRuns
  <2>3. ASSUME NEW o \in Requests, Holding(req'[o]),
               engines'[req'[o].engine].linked, engines'[req'[o].engine].next # 0,
               Readable(disk'[engines'[req'[o].engine].db].log),
               LastSeq(disk'[engines'[req'[o].engine].db].log)
                 = engines'[req'[o].engine].next - 1
        PROVE  TailOf(Logged(engines[req[o].engine].db), o, req[o].hold)'
    <3> DEFINE x == req[o].engine
    <3>1. /\ req'[o].engine = x /\ req'[o].hold = req[o].hold /\ Holding(req[o])
          /\ x \in 1 .. Len(engines)
          /\ engines'[x].db = engines[x].db /\ engines'[x].next = engines[x].next
          /\ engines'[x].linked = engines[x].linked
      BY <1>12, <1>15, <2>3
    <3>2. TailOf(Logged(engines[x].db), o, req[o].hold)
      BY <1>1, <2>3, <3>1, LogTail
    <3>3. Logged(engines[req[o].engine].db)' = Logged(engines[x].db)
      <4>1. PICK y : y = engines[x].db
        OBVIOUS
      <4>2. engines'[req'[o].engine].db = y
        BY <3>1, <4>1
      <4>3. disk'[y].log = disk[y].log
        BY <1>1
      <4>4. Logged(engines[req[o].engine].db)'
              = [i \in 1 .. Len(disk'[y].log) |-> disk'[y].log[i].event]
        <5> HIDE DEF x
        <5> QED BY <4>2 DEF Logged
      <4>5. Logged(y) = [i \in 1 .. Len(disk[y].log) |-> disk[y].log[i].event]
        BY DEF Logged
      <4> QED BY <4>1, <4>3, <4>4, <4>5
    <3> QED BY <3>1, <3>2, <3>3 DEF TailOf
  <2>4. \A o \in Requests : Holding(req'[o]) =>
          /\ \A d \in Databases : \A i \in 1 .. Len(Logged(d)') :
               Logged(d)'[i].by = o /\ Logged(d)'[i].hold = req'[o].hold =>
                 d = engines'[req'[o].engine].db /\ engines'[req'[o].engine].next # 0
    BY <2>2
  <2> QED BY <2>1, <2>3, <2>4 DEF LogRuns, Log, Holding
<1> QED BY <1>11, <1>12, <1>14, <1>16, <1>17 DEF Ordered

(* A write reaches the log behind nothing but its own hold.                 *)
LEMMA WriteBehind ==
  ASSUME Sound, Sound', Ordered, NEW r \in Requests, Write(r),
         Readable(Log(req[r].engine)), engines[req[r].engine].linked,
         Log(req[r].engine) = << >> \/ Sequence(r) = LastSeq(Log(req[r].engine)) + 1
  PROVE  TailOf(Logged(engines[req[r].engine].db), r, req[r].hold)
<1> DEFINE e == req[r].engine
           d == engines[e].db
<1>1. req[r].step = "run" /\ e \in 1 .. Len(engines) /\ d \in Databases
  BY WriteEffect
<1>2. Holding(req[r])
  BY <1>1 DEF Holding
<1>3. /\ Log(e) = disk[d].log /\ LastSeq(Log(e)) \in Nat /\ Len(Logged(d)) = Len(Log(e))
      /\ Len(Logged(d)) \in Nat
  BY <1>1, LoggedType, LenProperties DEF Log, Sound, TypeOK
<1>4. engines[e].next \in Nat
  <2>1. engines[e] \in Engine
    BY <1>1, ElementOfSeq DEF Sound, TypeOK
  <2> QED BY <2>1 DEF Engine
<1>5. CASE engines[e].next = 0
  <2>1. \A i \in 1 .. Len(Logged(d)) :
          ~(Logged(d)[i].by = r /\ Logged(d)[i].hold = req[r].hold)
    BY <1>1, <1>2, <1>5 DEF Ordered, LogRuns
  <2> QED BY <2>1 DEF TailOf
<1>6. CASE engines[e].next # 0 /\ Log(e) = << >>
  <2>1. Len(Logged(d)) = 0
    BY <1>3, <1>6, EmptySeq
  <2> QED BY <2>1 DEF TailOf
<1>7. CASE engines[e].next # 0 /\ Log(e) # << >>
  <2>1. LastSeq(Log(e)) = engines[e].next - 1
    <3>1. Sequence(r) = engines[e].next
      BY <1>7 DEF Sequence
    <3>2. engines[e].next = LastSeq(Log(e)) + 1
      BY <1>7, <3>1
    <3>3. LastSeq(Log(e)) \in Nat
      BY <1>3
    <3> HIDE DEF e
    <3> QED BY <3>2, <3>3
  <2> QED BY <1>2, <1>7, <2>1 DEF Ordered, LogRuns
<1> QED BY <1>5, <1>6, <1>7

(* A write joins the history and the log behind its own hold, though the log*)
(* may be shared with another engine of the name.                           *)
LEMMA OrderedWrite ==
  ASSUME Sound, Sound', Ordered, NEW r \in Requests, Write(r) PROVE Ordered'
<1>a. PICK e, d, v, S :
        e = req[r].engine /\ d = engines[e].db /\ v = EventOf(r) /\ S = Sequence(r)
  OBVIOUS
<1>1. /\ req[r].step = "run" /\ e \in 1 .. Len(engines) /\ d \in Databases
      /\ v \in Event /\ v.by = r /\ v.hold = req[r].hold
      /\ S \in Nat /\ S >= 1
      /\ Len(engines') = Len(engines)
      /\ \A i \in 1 .. Len(engines) : i # e => engines'[i] = engines[i]
      /\ engines'[e].ran = Append(Ran(e), v)
      /\ engines'[e].db = d /\ engines'[e].linked = engines[e].linked
      /\ \A x \in Databases : x # d => disk'[x] = disk[x]
  BY <1>a, WriteEffect DEF Ran
<1>2. \/ /\ disk' = disk /\ engines'[e].next = 0 /\ engines[e].next = 0 /\ Go(r, Failed(r))
      \/ /\ engines'[e].next = S + 1 /\ Go(r, Continued(r))
         /\ engines[e].linked =>
              disk'[d].log = Append(disk[d].log, [seq |-> S, event |-> v])
         /\ ~engines[e].linked => disk' = disk
  BY <1>a, WriteEffect
<1>3. Holding(req[r])
  BY <1>1 DEF Holding
<1>4. PICK q \in {Failed(r), Continued(r)} : Go(r, q)
  BY <1>2
<1>5. /\ Runs'
      /\ \A o \in Requests : req'[o].step # "done" =>
           \A i \in 1 .. Len(engines') : Before(engines'[i].ran, o, req'[o].at)
  BY <1>a, <1>1, <1>3, <1>4, ExecutedRuns
<1>6. /\ Exclusion'
      /\ \A o \in Requests : Holding(req'[o]) =>
           /\ Holding(req[o]) /\ req'[o].hold = req[o].hold /\ req'[o].engine = req[o].engine
           /\ req[o].engine \in 1 .. Len(engines)
      /\ \A o \in Requests : req'[o].step # "done" =>
           /\ req[o].step # "done" /\ req[o].at \in Nat
           /\ req'[o].at = IF o = r THEN req[o].at + 1 ELSE req[o].at
  BY <1>3, <1>4, Executed
<1>7. \A i \in 1 .. Len(engines) :
        /\ engines'[i].db = engines[i].db /\ engines'[i].linked = engines[i].linked
        /\ engines[i].db \in Databases /\ engines[i].next \in Nat
        /\ engines[i].next # 0 => engines'[i].next # 0
  <2>1. \A i \in 1 .. Len(engines) : engines[i] \in Engine
    BY ElementOfSeq DEF Sound, TypeOK
  <2>2. engines[e].next # 0 => engines'[e].next # 0
    BY <1>1, <1>2
  <2>3. \A i \in 1 .. Len(engines) : engines[i].db \in Databases /\ engines[i].next \in Nat
    BY <2>1 DEF Engine
  <2>4. \A i \in 1 .. Len(engines) :
          engines'[i].db = engines[i].db /\ engines'[i].linked = engines[i].linked
    BY <1>a, <1>1
  <2> QED BY <1>1, <2>2, <2>3, <2>4
<1>8. \A x \in Databases :
        /\ Logged(x) \in Seq(Event) /\ Len(Logged(x)) \in Nat /\ LastSeq(disk[x].log) \in Nat
        /\ \A i \in 1 .. Len(Logged(x)) : Logged(x)[i] \in Event
        /\ disk'[x].log = disk[x].log => Logged(x)' = Logged(x)
  BY LogsAfter, ElementOfSeq
<1>9. CASE disk' = disk
  <2>1. \A x \in Databases : Logged(x)' = Logged(x)
    BY <1>8, <1>9
  <2>2. \A i \in 1 .. Len(engines) : engines[i].linked => engines'[i].next = engines[i].next
    <3>1. engines[e].linked => engines'[e].next = engines[e].next
      <4>1. CASE engines'[e].next = 0
        BY <1>1, <1>2, <4>1
      <4>2. CASE engines[e].linked /\ disk'[d].log = Append(disk[d].log, [seq |-> S, event |-> v])
        <5>1. Logged(d)' = Append(Logged(d), v)
          BY <1>1, <4>2, LoggedAppend
        <5>2. Len(Logged(d)') = Len(Logged(d)) + 1 /\ Logged(d)' = Logged(d)
          BY <1>1, <1>8, <2>1, <5>1, AppendProperties
        <5> QED BY <1>1, <1>8, <5>2
      <4> QED BY <1>2, <4>1, <4>2
    <3> QED BY <1>1, <3>1
  <2>3. Past'
    <3>1. ASSUME NEW o \in Requests, req'[o].step # "done", NEW x \in Databases
          PROVE  Before(Logged(x)', o, req'[o].at)
      <4>1. Before(Logged(x), o, req[o].at)
        BY <1>6, <3>1 DEF Ordered, Past
      <4> QED BY <1>6, <1>8, <2>1, <3>1, <4>1 DEF Before, Event
    <3> QED BY <1>5, <3>1 DEF Past, Ran
  <2>4. Ahead'
    BY <1>1, <1>7, <1>9, <2>2 DEF Ordered, Ahead, Log
  <2>5. LogRuns'
    <3>1. ASSUME NEW x \in Databases, Readable(disk'[x].log) PROVE Together(Logged(x)')
      BY <1>9, <2>1, <3>1 DEF Ordered, LogRuns
    <3>2. ASSUME NEW o \in Requests, Holding(req'[o]), NEW x \in Databases,
                 NEW i \in 1 .. Len(Logged(x)'),
                 Logged(x)'[i].by = o, Logged(x)'[i].hold = req'[o].hold
          PROVE  x = engines'[req'[o].engine].db /\ engines'[req'[o].engine].next # 0
      BY <1>6, <1>7, <2>1, <3>2 DEF Ordered, LogRuns
    <3>3. ASSUME NEW o \in Requests, Holding(req'[o]),
                 engines'[req'[o].engine].linked, engines'[req'[o].engine].next # 0,
                 Readable(disk'[engines'[req'[o].engine].db].log),
                 LastSeq(disk'[engines'[req'[o].engine].db].log)
                   = engines'[req'[o].engine].next - 1
          PROVE  TailOf(Logged(engines[req[o].engine].db), o, req[o].hold)'
      <4> DEFINE x == req[o].engine
      <4>1. /\ req'[o].engine = x /\ req'[o].hold = req[o].hold /\ Holding(req[o])
            /\ x \in 1 .. Len(engines)
            /\ engines'[x].db = engines[x].db /\ engines'[x].linked = engines[x].linked
            /\ engines'[x].next = engines[x].next
        BY <1>6, <1>7, <2>2, <3>3
      <4>2. TailOf(Logged(engines[x].db), o, req[o].hold)
        BY <1>9, <3>3, <4>1, LogTail
      <4>3. Logged(engines[req[o].engine].db)' = Logged(engines[x].db)
        BY <1>9, <4>1 DEF Logged
      <4> QED BY <4>1, <4>2, <4>3 DEF TailOf
    <3>4. \A o \in Requests : Holding(req'[o]) =>
            /\ \A x \in Databases : \A i \in 1 .. Len(Logged(x)') :
                 Logged(x)'[i].by = o /\ Logged(x)'[i].hold = req'[o].hold =>
                   x = engines'[req'[o].engine].db /\ engines'[req'[o].engine].next # 0
      BY <3>2
    <3> QED BY <3>1, <3>3, <3>4 DEF LogRuns, Log, Holding
  <2> QED BY <1>5, <1>6, <2>3, <2>4, <2>5 DEF Ordered
<1>10. CASE engines[e].linked /\ engines'[e].next = S + 1
            /\ disk'[d].log = Append(disk[d].log, [seq |-> S, event |-> v])
  <2>1. /\ Logged(d)' = Append(Logged(d), v) /\ LastSeq(disk'[d].log) = S
        /\ Readable(disk'[d].log) <=>
             Readable(disk[d].log) /\ (disk[d].log = << >> \/ S = LastSeq(disk[d].log) + 1)
    BY <1>1, <1>10, LoggedAppend
  <2>2. \A x \in Databases : x # d => disk'[x].log = disk[x].log /\ Logged(x)' = Logged(x)
    BY <1>1, <1>8
  <2>3. /\ Len(Append(Logged(d), v)) = Len(Logged(d)) + 1
        /\ Append(Logged(d), v)[Len(Logged(d)) + 1] = v
        /\ \A i \in 1 .. Len(Logged(d)) : Append(Logged(d), v)[i] = Logged(d)[i]
    BY <1>1, <1>8, AppendProperties
  <2>4. disk[d].log = << >> => LastSeq(disk[d].log) = 0
    BY DEF LastSeq
  <2>5. Readable(disk'[d].log) => TailOf(Logged(d), r, req[r].hold)
    BY <1>a, <1>10, <2>1, WriteBehind DEF Log
  <2>6. Past'
    <3>1. ASSUME NEW o \in Requests, req'[o].step # "done", NEW x \in Databases
          PROVE  Before(Logged(x)', o, req'[o].at)
      <4>1. Before(Logged(x), o, req[o].at)
        BY <1>6, <3>1 DEF Ordered, Past
      <4>2. Before(Logged(x), o, req'[o].at)
        BY <1>6, <1>8, <3>1, <4>1 DEF Before, Event
      <4>3. CASE x # d
        BY <2>2, <4>2, <4>3
      <4>4. CASE x = d
        <5>1. v.by = o => v.hold < req'[o].at
          <6>1. req[r].hold <= req[r].at /\ req[r].hold \in Nat
            BY <1>3, Current DEF Ordered, Exclusion, Request, Holding
          <6> QED BY <1>1, <1>6, <3>1, <6>1
        <5>2. Before(Append(Logged(d), v), o, req'[o].at)
          BY <1>1, <1>8, <4>2, <4>4, <5>1, BeforeAppend
        <5> QED BY <2>1, <4>4, <5>2
      <4> QED BY <4>3, <4>4
    <3> QED BY <1>5, <3>1 DEF Past, Ran
  <2>7. ASSUME NEW x \in 1 .. Len(engines), x # e, engines[x].db = d,
               engines[x].linked, engines[x].next # 0, Readable(disk'[d].log)
        PROVE  engines[x].next - 1 < S
    <3>1. engines[x].next - 1 <= LastSeq(disk[d].log)
      BY <2>1, <2>7 DEF Ordered, Ahead, Log
    <3>2. /\ engines[x].next \in Nat /\ LastSeq(disk[d].log) \in Nat
          /\ S = LastSeq(disk[d].log) + 1 \/ (LastSeq(disk[d].log) = 0 /\ S >= 1)
      BY <1>1, <1>7, <1>8, <2>1, <2>4, <2>7
    <3> QED BY <1>1, <3>1, <3>2
  <2>8. Ahead'
    <3>1. ASSUME NEW x \in 1 .. Len(engines'), engines'[x].linked, engines'[x].next # 0,
                 Readable(disk'[engines'[x].db].log)
          PROVE  engines'[x].next - 1 <= LastSeq(disk'[engines'[x].db].log)
      <4>1. CASE x = e
        <5>1. engines'[x].db = d /\ engines'[x].next = S + 1
          BY <1>1, <1>10, <4>1
        <5> QED BY <1>1, <2>1, <5>1
      <4>2. CASE x # e /\ engines[x].db = d
        <5>1. engines'[x] = engines[x]
          BY <1>1, <4>2
        <5> QED BY <1>1, <1>7, <2>1, <2>7, <3>1, <4>2, <5>1
      <4>3. CASE x # e /\ engines[x].db # d
        <5>1. engines'[x] = engines[x] /\ disk'[engines[x].db].log = disk[engines[x].db].log
          BY <1>1, <1>7, <2>2, <4>3
        <5> QED BY <1>1, <3>1, <5>1 DEF Ordered, Ahead, Log
      <4> QED BY <4>1, <4>2, <4>3
    <3> QED BY <3>1 DEF Ahead, Log
  <2>9. LogRuns'
    <3>1. ASSUME NEW x \in Databases, Readable(disk'[x].log) PROVE Together(Logged(x)')
      <4>1. CASE x # d
        BY <2>2, <3>1, <4>1 DEF Ordered, LogRuns
      <4>2. CASE x = d
        <5>1. Together(Logged(d)) /\ TailOf(Logged(d), v.by, v.hold)
          BY <1>1, <2>1, <2>5, <3>1, <4>2 DEF Ordered, LogRuns
        <5>2. Together(Append(Logged(d), v))
          BY <1>1, <1>8, <5>1, TogetherAppend
        <5> QED BY <2>1, <4>2, <5>2
      <4> QED BY <4>1, <4>2
    <3>2. ASSUME NEW o \in Requests, Holding(req'[o]), NEW x \in Databases,
                 NEW i \in 1 .. Len(Logged(x)'),
                 Logged(x)'[i].by = o, Logged(x)'[i].hold = req'[o].hold
          PROVE  x = engines'[req'[o].engine].db /\ engines'[req'[o].engine].next # 0
      <4>1. /\ Holding(req[o]) /\ req'[o].hold = req[o].hold
            /\ req'[o].engine = req[o].engine /\ req[o].engine \in 1 .. Len(engines)
        BY <1>6, <3>2
      <4>2. CASE x = d /\ i = Len(Logged(d)) + 1
        <5>1. o = r
          BY <1>1, <2>1, <2>3, <3>2, <4>2
        <5>2. req'[o].engine = e
          BY <1>a, <4>1, <5>1
        <5>3. S + 1 # 0
          BY <1>1
        <5> QED BY <1>1, <1>10, <4>2, <5>2, <5>3
      <4>3. CASE ~(x = d /\ i = Len(Logged(d)) + 1)
        <5>1. i \in 1 .. Len(Logged(x)) /\ Logged(x)'[i] = Logged(x)[i]
          <6>1. CASE x = d
            BY <1>8, <2>1, <2>3, <3>2, <4>3, <6>1
          <6>2. CASE x # d
            BY <2>2, <3>2, <6>2
          <6> QED BY <6>1, <6>2
        <5>2. x = engines[req[o].engine].db /\ engines[req[o].engine].next # 0
          BY <3>2, <4>1, <5>1 DEF Ordered, LogRuns
        <5> QED BY <1>7, <4>1, <5>2
      <4> QED BY <4>2, <4>3
    <3>3. ASSUME NEW o \in Requests, Holding(req'[o]),
                 engines'[req'[o].engine].linked, engines'[req'[o].engine].next # 0,
                 Readable(disk'[engines'[req'[o].engine].db].log),
                 LastSeq(disk'[engines'[req'[o].engine].db].log)
                   = engines'[req'[o].engine].next - 1
          PROVE  TailOf(Logged(engines[req[o].engine].db), o, req[o].hold)'
      <4> DEFINE x == req[o].engine
                 y == engines[x].db
      <4>1. /\ req'[o].engine = x /\ req'[o].hold = req[o].hold /\ Holding(req[o])
            /\ x \in 1 .. Len(engines) /\ y \in Databases
            /\ engines'[x].db = y /\ engines'[x].linked = engines[x].linked
        BY <1>6, <1>7, <3>3
      <4>2. Logged(engines[req[o].engine].db)' = [i \in 1 .. Len(disk'[y].log) |-> disk'[y].log[i].event]
        BY <4>1 DEF Logged
      <4>3. CASE x = e
        <5>1. o = r
          <6>1. o # r => ~Exclusive(r)
            BY <1>a, <1>3, <4>1, <4>3 DEF Ordered, Exclusion
          <6>2. Exclusive(r)
            BY <1>1, <1>3 DEF Ordered, Exclusion
          <6> QED BY <6>1, <6>2
        <5>2. Readable(disk'[d].log)
          BY <1>a, <3>3, <4>1, <4>3
        <5>3. Together(Logged(d)) /\ TailOf(Logged(d), v.by, v.hold)
          BY <1>1, <2>1, <2>5, <5>2 DEF Ordered, LogRuns
        <5>4. TailOf(Append(Logged(d), v), r, req[r].hold)
          BY <1>1, <1>8, <5>3, TogetherAppend
        <5>5. Logged(engines[req[o].engine].db)' = Append(Logged(d), v)
          <6>1. Logged(d)' = [i \in 1 .. Len(disk'[y].log) |-> disk'[y].log[i].event]
            BY <1>a, <4>3 DEF Logged
          <6> QED BY <2>1, <4>2, <6>1
        <5> QED BY <4>1, <4>3, <5>1, <5>4, <5>5 DEF TailOf
      <4>4. CASE x # e /\ y = d
        <5>1. engines'[x] = engines[x]
          BY <1>1, <4>1, <4>4
        <5>2. engines[x].next - 1 < S
          BY <2>7, <3>3, <4>1, <4>4, <5>1
        <5>3. S = engines[x].next - 1
          BY <2>1, <3>3, <4>1, <4>4, <5>1
        <5> QED BY <1>1, <1>7, <4>1, <5>2, <5>3
      <4>5. CASE x # e /\ y # d
        <5>1. engines'[x] = engines[x] /\ disk'[y].log = disk[y].log
          BY <1>1, <2>2, <4>1, <4>5
        <5>2. TailOf(Logged(y), o, req[o].hold)
          BY <3>3, <4>1, <5>1, LogTail
        <5>3. Logged(engines[req[o].engine].db)' = Logged(y)
          BY <4>2, <5>1 DEF Logged
        <5> QED BY <4>1, <5>2, <5>3 DEF TailOf
      <4> QED BY <4>3, <4>4, <4>5
    <3>4. \A o \in Requests : Holding(req'[o]) =>
            /\ \A x \in Databases : \A i \in 1 .. Len(Logged(x)') :
                 Logged(x)'[i].by = o /\ Logged(x)'[i].hold = req'[o].hold =>
                   x = engines'[req'[o].engine].db /\ engines'[req'[o].engine].next # 0
      BY <3>2
    <3> QED BY <3>1, <3>3, <3>4 DEF LogRuns, Log, Holding
  <2> QED BY <1>5, <1>6, <2>6, <2>8, <2>9 DEF Ordered
<1> QED BY <1>2, <1>9, <1>10

-----------------------------------------------------------------------------
(* Restarts.                                                                *)

(* What recovery replays was ordered when it was written.                   *)
LEMMA OrderedRestart ==
  ASSUME Sound, Sound', Ordered, Restart PROVE Ordered'
<1>1. disk \in [Databases -> Directory]
  BY DEF Sound, TypeOK
<1>2. ASSUME NEW o \in Requests
      PROVE  /\ ~Holding(req'[o]) /\ req'[o].step # "lock" /\ req'[o].plan = req[o].plan
             /\ req'[o].step # "done" => req[o].step # "done" /\ req'[o].at = req[o].at
  <2>1. req'[o] = IF At(o, "arriving") \/ At(o, "done") THEN req[o] ELSE Answered(o, "none")
    BY DEF Restart
  <2>2. req[o] \in Request
    BY Current
  <2>3. Answered(o, "none").step = "done" /\ Answered(o, "none").plan = req[o].plan
    BY <2>2 DEF Answered, Request
  <2> QED BY <2>1, <2>3 DEF At, Holding
<1>3. ASSUME NEW x \in Databases
      PROVE  disk'[x].log = disk[x].log /\ Logged(x)' = Logged(x)
  <2>1. disk'[x] \in {disk[x], RecoveredDirectory(x)}
    BY DEF Restart
  <2>2. disk'[x].log = disk[x].log
    BY <1>1, <2>1 DEF RecoveredDirectory, Directory
  <2> QED BY <2>2, LogsAfter
<1>4. ASSUME NEW e \in 1 .. Len(engines')
      PROVE  \E x \in Databases :
               /\ engines'[e].db = x
               /\ \/ /\ Readable(disk[x].log) /\ engines'[e].ran = Logged(x)
                     /\ engines'[e].next = LastSeq(disk[x].log) + 1
                  \/ engines'[e].ran = << >> /\ engines'[e].next = 0
  <2>1. PICK x \in Databases : engines'[e] = RecoveredEngine(x)
    BY <1>1, StartEngine DEF Restart
  <2>2. CASE Readable(disk[x].log)
    BY <2>1, <2>2 DEF RecoveredEngine, FreshEngine
  <2>3. CASE ~Readable(disk[x].log)
    BY <2>1, <2>3 DEF RecoveredEngine, FreshEngine
  <2> QED BY <2>2, <2>3
<1>5. Exclusion'
  BY <1>2 DEF Ordered, Exclusion, Holding
<1>6. Past'
  <2>1. ASSUME NEW o \in Requests, req'[o].step # "done", NEW e \in 1 .. Len(engines')
        PROVE  Before(engines'[e].ran, o, req'[o].at)
    <3>1. PICK x \in Databases : engines'[e].ran = Logged(x) \/ engines'[e].ran = << >>
      BY <1>4
    <3>2. Before(Logged(x), o, req[o].at)
      BY <1>2, <2>1 DEF Ordered, Past
    <3>3. Before(<< >>, o, req[o].at)
      BY EmptySeq DEF Before
    <3> QED BY <1>2, <2>1, <3>1, <3>2, <3>3
  <2>2. ASSUME NEW o \in Requests, req'[o].step # "done", NEW x \in Databases
        PROVE  Before(Logged(x)', o, req'[o].at)
    BY <1>2, <1>3, <2>2 DEF Ordered, Past
  <2> QED BY <2>1, <2>2 DEF Past, Ran
<1>7. Runs'
  <2>1. ASSUME NEW e \in 1 .. Len(engines') PROVE Together(engines'[e].ran)
    <3>1. Together(<< >>)
      BY EmptySeq DEF Together
    <3>2. \A x \in Databases : Readable(disk[x].log) => Together(Logged(x))
      BY DEF Ordered, LogRuns
    <3> QED BY <1>4, <3>1, <3>2
  <2> QED BY <1>2, <2>1 DEF Runs, Ran, Holding
<1>8. Ahead'
  <2>1. ASSUME NEW e \in 1 .. Len(engines'), engines'[e].next # 0
        PROVE  engines'[e].next - 1 <= LastSeq(disk'[engines'[e].db].log)
    <3>1. PICK x \in Databases :
            engines'[e].db = x /\ engines'[e].next = LastSeq(disk[x].log) + 1
      BY <1>4, <2>1
    <3>2. LastSeq(disk[x].log) \in Nat
      BY <1>1, LoggedType
    <3> QED BY <1>3, <3>1, <3>2
  <2> QED BY <2>1 DEF Ahead, Log
<1>9. LogRuns'
  <2>1. ASSUME NEW x \in Databases, Readable(disk'[x].log) PROVE Together(Logged(x)')
    BY <1>3, <2>1 DEF Ordered, LogRuns
  <2> QED BY <1>2, <2>1 DEF LogRuns, Holding
<1> QED BY <1>5, <1>6, <1>7, <1>8, <1>9 DEF Ordered

(* Every step keeps the order.                                              *)
LEMMA OrderedStep == Sound /\ Files /\ Ordered /\ [Next]_vars => Ordered'
<1> SUFFICES ASSUME Sound, Files, Ordered, [Next]_vars PROVE Ordered'
  OBVIOUS
<1>1. Sound'
  BY SoundStep
<1>2. ASSUME NEW r \in Requests, CatalogStep(r) \/ Panic(r) PROVE Ordered'
  BY <1>1, <1>2, OrderedCalm, OrderedCatalog DEF CatalogStep
<1>3. ASSUME NEW r \in Requests, Step(r) PROVE Ordered'
  BY <1>1, <1>2, <1>3, OrderedCalm, OrderedRead, OrderedWrite DEF Step
<1>4. CASE UNCHANGED vars
  <2>1. /\ engines' = engines /\ disk' = disk /\ req' = req
    BY <1>4 DEF vars
  <2>2. /\ \A e : Ran(e)' = Ran(e) /\ Log(e)' = Log(e)
        /\ \A x : Logged(x)' = Logged(x)
        /\ \A o : Exclusive(o)' = Exclusive(o)
    BY <2>1 DEF Ran, Log, Logged, Exclusive, Stmt
  <2>3. Exclusion'
    BY <2>1, <2>2 DEF Ordered, Exclusion
  <2>4. Past' /\ Runs'
    BY <2>1, <2>2 DEF Ordered, Past, Runs
  <2>5. Ahead'
    BY <2>1, <2>2 DEF Ordered, Ahead
  <2>6. LogRuns'
    <3>1. \A o : Logged(engines[req[o].engine].db)' = Logged(engines[req[o].engine].db)
      BY <2>1 DEF Logged
    <3> QED BY <2>1, <2>2, <3>1 DEF Ordered, LogRuns
  <2> QED BY <2>3, <2>4, <2>5, <2>6 DEF Ordered
<1> QED BY <1>1, <1>2, <1>3, <1>4, OrderedRestart DEF Next

(* "Consecutive statements on the same database run under one write-lock    *)
(* hold": nothing of another request is between two statements of a hold, in*)
(* memory or in what a restart replays, whatever is dropped, created again, *)
(* panics or dies meanwhile.                                                *)
THEOREM BatchesContiguous == Spec => []BatchesAreContiguous
<1>1. Init => Sound /\ Files /\ Ordered
  BY SoundInit, FilesInit, OrderedInit
<1>2. Sound /\ Files /\ Ordered /\ [Next]_vars => (Sound /\ Files /\ Ordered)'
  BY SoundStep, FilesStep, OrderedStep
<1>3. Sound /\ Ordered => BatchesAreContiguous
  BY OrderedContiguous
<1> QED BY <1>1, <1>2, <1>3, PTL DEF Spec

=============================================================================
