--------------------------- MODULE ConnectPromise ---------------------------
(***************************************************************************)
(* What async_connect promises its caller (the specification's section    *)
(* 4.1), with the socket waits, the timer and the polling hidden: the     *)
(* connection is established, then the OID map is loaded if the connection *)
(* type has one, or the operation fails at any point; the handler then     *)
(* receives the result, once.  Success is reported only for a connection   *)
(* whose OID map, when it needs one, has been loaded.                      *)
(***************************************************************************)
EXTENDS Sequences

CONSTANT Errors   \* the error codes the operation may report

Ok == "ok"

VARIABLES
    status,   \* "idle", "connecting", "oid" (loading the OID map) or "completed"
    needOid,  \* the connection type has an OID map to load
    result,   \* "none" until the operation completes, then its result
    handled   \* the results the handler has received

vars == <<status, needOid, result, handled>>

Init ==
    /\ status = "idle"
    /\ needOid \in BOOLEAN
    /\ result = "none"
    /\ handled = <<>>

\* The operation starts, or fails before the first wait.
Start ==
    /\ status = "idle"
    /\ \/ status' = "connecting" /\ UNCHANGED result
       \/ \E e \in Errors : status' = "completed" /\ result' = e
    /\ UNCHANGED <<needOid, handled>>

\* The connection is established: done, or the OID map is requested.
Connected ==
    /\ status = "connecting"
    /\ IF needOid THEN status' = "oid" /\ UNCHANGED result
                  ELSE status' = "completed" /\ result' = Ok
    /\ UNCHANGED <<needOid, handled>>

\* The OID map has been loaded.
OidLoaded ==
    /\ status = "oid"
    /\ status' = "completed"
    /\ result' = Ok
    /\ UNCHANGED <<needOid, handled>>

\* Connecting or loading the OID map fails.
Fail ==
    /\ status \in {"connecting", "oid"}
    /\ \E e \in Errors : status' = "completed" /\ result' = e
    /\ UNCHANGED <<needOid, handled>>

\* The handler receives the result.
Deliver ==
    /\ status = "completed"
    /\ handled = <<>>
    /\ handled' = <<result>>
    /\ UNCHANGED <<status, needOid, result>>

Next == Start \/ Connected \/ OidLoaded \/ Fail \/ Deliver

Spec == Init /\ [][Next]_vars

=============================================================================
