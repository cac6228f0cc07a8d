------------------------ MODULE MC_BenchmarkDriver ------------------------
(* Instantiates BenchmarkDriver for TLC: --benchmark unset, every
   registered scenario, and one scenario the map does not register. *)
EXTENDS BenchmarkDriver

MC_Names == Registered \cup {Unset, "use_connection_pool_mult_connection"}

=============================================================================
