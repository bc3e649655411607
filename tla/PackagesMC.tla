----------------------------- MODULE PackagesMC -----------------------------
(* A table of numbers, one with a vector, and two with a quantized column. *)
EXTENDS Packages, TLC

Plain == "a" :> "plain"
MCSchemas == {Plain, Plain @@ "v" :> "vector", Plain @@ "v" :> "quantized"}
=============================================================================
