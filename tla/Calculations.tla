---------------------------- MODULE Calculations ----------------------------
(* The questions of all parts together. *)
EXTENDS Language, Queries, Storage, Similarity

Next == AskLanguage \/ AskQueries \/ AskStorage \/ AskSimilarity

Spec == Init /\ [][Next]_question
=============================================================================
