---------------------------- MODULE DurableStore ----------------------------
(***************************************************************************)
(* What the write-ahead log promises, with no file, checkpoint or sequence *)
(* number in sight: a database is a sequence of applied changes.  A new    *)
(* change is accepted only when every earlier one is durable; what is      *)
(* durable is never lost, reordered or applied again, and it always        *)
(* includes what a client was told succeeded; a restart serves exactly     *)
(* what is durable or serves nothing. Module Durability implements it.     *)
(***************************************************************************)
EXTENDS SequencesExt

VARIABLES
  durable,    \* the changes a restart would bring back, in order
  promised,   \* the changes whose survival a client relies on
  view,       \* the changes the running database shows
  status      \* "serving", "recovering" or "refused"

vars == << durable, promised, view, status >>

Init ==
  /\ durable = << >>
  /\ promised = << >>
  /\ view = << >>
  /\ status = "serving"

(* A change is applied in memory; nothing is durable yet. *)
Apply ==
  /\ status = "serving"
  /\ view = durable
  /\ Len(view') = Len(view) + 1 /\ IsPrefix(view, view')
  /\ UNCHANGED << durable, promised, status >>

(* The view becomes durable, or is acknowledged, or both at once. *)
Commit ==
  /\ status = "serving"
  /\ durable' = view
  /\ promised' \in {promised, view}
  /\ UNCHANGED << view, status >>

(* The process dies; a change being written may or may not have made it. *)
Crash ==
  /\ status = "serving"
  /\ durable' \in {durable, view}
  /\ view' = << >>
  /\ status' = "recovering"
  /\ UNCHANGED promised

Recover ==
  /\ status = "recovering"
  /\ status' = "serving"
  /\ view' = durable
  /\ UNCHANGED << durable, promised >>

(* Recovery gives up loudly; the operator may try again. *)
Refuse ==
  /\ status = "recovering"
  /\ status' = "refused"
  /\ UNCHANGED << durable, promised, view >>

Retry ==
  /\ status = "refused"
  /\ status' = "recovering"
  /\ UNCHANGED << durable, promised, view >>

Next == Apply \/ Commit \/ Crash \/ Recover \/ Refuse \/ Retry

Spec == Init /\ [][Next]_vars
=============================================================================
