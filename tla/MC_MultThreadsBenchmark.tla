--------------------- MODULE MC_MultThreadsBenchmark ---------------------
(* Instantiates MultThreadsBenchmark for TLC. *)
EXTENDS MultThreadsBenchmark

=============================================================================
