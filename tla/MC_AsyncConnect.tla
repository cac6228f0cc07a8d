--------------------------- MODULE MC_AsyncConnect ---------------------------
(* Instantiates AsyncConnect for TLC: both time constraints. *)
EXTENDS AsyncConnect

MC_TimeConstraints == {"none", "duration"}

=============================================================================
