-------------------------- MODULE BackgroundWorkMC --------------------------
(* Every task becomes due again after two rounds of the scheduler's loop.    *)
EXTENDS BackgroundWork

Intervals == [t \in Tasks |-> 2]
=============================================================================
