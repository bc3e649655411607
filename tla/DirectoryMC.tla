---------------------------- MODULE DirectoryMC -----------------------------
(* What a database's directory holds besides its log: packages and the      *)
(* provenance log. They share no state here, so that each is explored while *)
(* the other is empty.                                                      *)
EXTENDS PackagesMC, Lineage

DirectoryInit == Init /\ LineageInit

DirectoryNext ==
  \/ LineageInit /\ Next /\ UNCHANGED lineageVars
  \/ Init /\ LineageNext /\ UNCHANGED vars

DirectorySpec == DirectoryInit /\ [][DirectoryNext]_<<vars, lineageVars>>
=============================================================================
