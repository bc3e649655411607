------------------------------ MODULE Questions ------------------------------
(***************************************************************************)
(* The parts of the system that compute and keep nothing are checked by    *)
(* putting cases to their functions: a state is one question,              *)
(* <<kind, ...>>, and a property is about the questions of one kind.       *)
(***************************************************************************)
EXTENDS Integers, Sequences

VARIABLE question

Init == question = <<"none">>

Ask(kind, cases) ==
  /\ question = <<"none">>
  /\ \E c \in cases : question' = <<kind>> \o c

Asked(kind) == question[1] = kind
=============================================================================
