--------------------------- MODULE MC_AsyncCancel ---------------------------
(* Instantiates AsyncCancel for TLC: connections and both time constraints. *)
EXTENDS AsyncCancel

MC_TimeConstraints == {"none", "duration"}

=============================================================================
