--------------------------- MODULE FailoverPromise ---------------------------
(***************************************************************************)
(* What a failover operation promises its caller (the specification's     *)
(* section 4.5), with the strategy's tries and contexts hidden: the        *)
(* operation runs attempts one after the other; after an attempt that      *)
(* failed with an error the strategy recovers, and while tries are left,   *)
(* it may run another; otherwise the caller's handler receives the result  *)
(* of the last attempt, once.                                              *)
(***************************************************************************)
EXTENDS Naturals

CONSTANTS Ops, Errors, Recoverable, NTries

Ok == "ok"

Results == Errors \cup {Ok}

VARIABLES
    status,    \* per operation: "idle", "running" or "done"
    tries,     \* per operation: the attempts started so far
    outcome,   \* per operation: "none" while an attempt runs, else its result
    result     \* per operation: "none", or what the handler received

vars == <<status, tries, outcome, result>>

Init ==
    /\ status = [o \in Ops |-> "idle"]
    /\ tries = [o \in Ops |-> 0]
    /\ outcome = [o \in Ops |-> "none"]
    /\ result = [o \in Ops |-> "none"]

\* The caller starts the operation: its first attempt runs.
Start(o) ==
    /\ status[o] = "idle"
    /\ status' = [status EXCEPT ![o] = "running"]
    /\ tries' = [tries EXCEPT ![o] = 1]
    /\ UNCHANGED <<outcome, result>>

\* The running attempt ends with some result.
Attempt(o) ==
    /\ status[o] = "running"
    /\ outcome[o] = "none"
    /\ \E r \in Results : outcome' = [outcome EXCEPT ![o] = r]
    /\ UNCHANGED <<status, tries, result>>

\* A recoverable failure with tries left: the next attempt runs.
Retry(o) ==
    /\ status[o] = "running"
    /\ outcome[o] \in Recoverable
    /\ tries[o] < NTries
    /\ tries' = [tries EXCEPT ![o] = @ + 1]
    /\ outcome' = [outcome EXCEPT ![o] = "none"]
    /\ UNCHANGED <<status, result>>

\* Otherwise the handler receives the attempt's result and the operation ends.
Complete(o) ==
    /\ status[o] = "running"
    /\ outcome[o] # "none"
    /\ outcome[o] \in Recoverable => tries[o] = NTries
    /\ result' = [result EXCEPT ![o] = outcome[o]]
    /\ status' = [status EXCEPT ![o] = "done"]
    /\ UNCHANGED <<tries, outcome>>

Next == \E o \in Ops : Start(o) \/ Attempt(o) \/ Retry(o) \/ Complete(o)

Spec == Init /\ [][Next]_vars

=============================================================================
