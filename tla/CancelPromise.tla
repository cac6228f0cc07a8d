--------------------------- MODULE CancelPromise ----------------------------
(***************************************************************************)
(* What ozo::cancel promises its caller, per connection, with the shared   *)
(* context, the strand, the executor and the timer hidden: the cancel      *)
(* either cannot start (no cancel handle) or waits for the PQcancel call;  *)
(* it then completes with that call's result or, only when the caller      *)
(* gave a time constraint, with operation_aborted; the handler receives    *)
(* the result once.                                                        *)
(***************************************************************************)
EXTENDS Sequences

CONSTANT Conns   \* the connections, one cancel operation each

VARIABLES
    status,   \* per connection: "idle", "waiting" or "completed"
    timed,    \* per connection: the caller passed a time constraint
    result,   \* per connection: "none" until the cancel completes, then its result
    handled   \* per connection: the results the handler has received

vars == <<status, timed, result, handled>>

Init ==
    /\ status = [c \in Conns |-> "idle"]
    /\ timed = [c \in Conns |-> FALSE]
    /\ result = [c \in Conns |-> "none"]
    /\ handled = [c \in Conns |-> <<>>]

\* The cancel starts with or without a time constraint; without a cancel
\* handle it completes at once with pq_get_cancel_failed.
Start(c) ==
    /\ status[c] = "idle"
    /\ \E isTimed \in BOOLEAN : timed' = [timed EXCEPT ![c] = isTimed]
    /\ \/ status' = [status EXCEPT ![c] = "waiting"] /\ UNCHANGED result
       \/ /\ status' = [status EXCEPT ![c] = "completed"]
          /\ result' = [result EXCEPT ![c] = "pq_get_cancel_failed"]
    /\ UNCHANGED handled

\* The PQcancel call returns, or the time constraint runs out first.
Complete(c) ==
    /\ status[c] = "waiting"
    /\ \E e \in {"ok", "pq_cancel_failed"} \cup
                 (IF timed[c] THEN {"operation_aborted"} ELSE {}) :
          result' = [result EXCEPT ![c] = e]
    /\ status' = [status EXCEPT ![c] = "completed"]
    /\ UNCHANGED <<timed, handled>>

\* The handler receives the result.
Deliver(c) ==
    /\ status[c] = "completed"
    /\ handled[c] = <<>>
    /\ handled' = [handled EXCEPT ![c] = <<result[c]>>]
    /\ UNCHANGED <<status, timed, result>>

Next == \E c \in Conns : Start(c) \/ Complete(c) \/ Deliver(c)

Spec == Init /\ [][Next]_vars

=============================================================================
