--------------------------- MODULE SharedEngineMC ---------------------------
(* Requests for SharedEngine: handlers that meet on one database while it is *)
(* used, dropped and created again.                                          *)
EXTENDS SharedEngine

CONSTANTS d1, d2, r1, r2, r3

S(op, db) == [op |-> op, db |-> db]
Asks(session, db, batch, script) ==
  [session |-> session, db |-> db, batch |-> batch, script |-> script]

\* POST /execute, with and without the header
WriteOne == Asks("pinned", d2, FALSE, << S("write", NoDb) >>)
ReadOne == Asks("pinned", d2, FALSE, << S("read", NoDb) >>)
UseOne == Asks("server", NoDb, FALSE, << S("use", d2) >>)
Drop == Asks("server", NoDb, FALSE, << S("drop", d2) >>)
\* POST /jobs
Job == Asks("pinned", NoDb, FALSE, << S("write", NoDb) >>)
\* POST /schedule
Task == Asks("task", d2, FALSE, << S("write", NoDb) >>)
\* POST /execute/batch
Batch == Asks("pinned", d2, TRUE, << S("write", NoDb), S("read", NoDb), S("write", NoDb) >>)
Recreate ==
  Asks("following", NoDb, TRUE,
       << S("create", d2), S("use", d2), S("write", NoDb), S("drop", d2) >>)

ConcurrentPlans ==
  (r1 :> {Drop, Batch}) @@ (r2 :> {Drop, Recreate, UseOne}) @@
  (r3 :> {WriteOne, ReadOne, Job, Task, Recreate})
=============================================================================
