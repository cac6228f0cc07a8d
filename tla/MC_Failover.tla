----------------------------- MODULE MC_Failover -----------------------------
(* Instantiates Failover for TLC: a recoverable and a fatal error. *)
EXTENDS Failover

CONSTANTS recoverable, fatal, o1, o2

MC_Ops == {o1, o2}

MC_Errors == {recoverable, fatal}

MC_Recoverable == {recoverable}

=============================================================================
