------------------------------ MODULE Failover ------------------------------
(***************************************************************************)
(* The failover framework of include/ozo/failover/strategy.h.  The         *)
(* operation_initiator asks the strategy for the first try and initiates   *)
(* the wrapped operation with a continuation; the continuation forwards    *)
(* success, and on an error asks get_next_try for another try, initiating  *)
(* the operation again while the strategy offers one and calling the       *)
(* user's handler otherwise.                                               *)
(*                                                                         *)
(* The wrapped operation (a request or a connect) is the environment: once *)
(* initiated it completes with some error code.  The strategy is the one   *)
(* the specification's section 4.5 describes, given by two constants: it   *)
(* offers NTries tries in order, and recovers the errors in Recoverable.   *)
(* The initiator's strategy_ is shared and const: several operations Ops   *)
(* initiated through it run at once, each with its own continuation.      *)
(***************************************************************************)
EXTENDS Naturals, Sequences

CONSTANTS
    Ops,           \* the failover operations initiated
    Errors,        \* the error codes an operation may complete with
    Recoverable,   \* the errors the strategy recovers from
    NTries         \* the number of tries the strategy offers

\* The success of an operation: the empty error_code.
Ok == "ok"

ASSUME FailoverConstantsAssumption ==
    /\ Ops # {}
    /\ Ok \notin Errors
    /\ Recoverable \subseteq Errors
    /\ NTries \in Nat \ {0}

Results == Errors \cup {Ok}

\* The null try: the strategy has nothing more to offer.
NoTry == 0

VARIABLES   \* each a function of the operation
    phase,      \* "idle", "running" (an attempt is in flight) or "done"
    try,        \* the try of the attempt in flight, 1..NTries
    opResult,   \* "none", or the result the attempt has called back with
    attempts,   \* the tries initiated so far, in order
    delivered,  \* the results the user's handler has received
    opConn,     \* the connection the attempt called back with: "none",
                \* "valid", or "moved" (moved from by get_next_try)
    handlerConn \* the connection the user's handler received

vars == <<phase, try, opResult, attempts, delivered, opConn, handlerConn>>

\* The states of a connection object.
ConnStates == {"none", "valid", "moved"}

TypeOK ==
    /\ phase \in [Ops -> {"idle", "running", "done"}]
    /\ try \in [Ops -> 0..NTries]
    /\ opResult \in [Ops -> Results \cup {"none"}]
    /\ attempts \in [Ops -> Seq(1..NTries)]
    /\ delivered \in [Ops -> Seq(Results)]
    /\ opConn \in [Ops -> ConnStates]
    /\ handlerConn \in [Ops -> ConnStates]

Init ==
    /\ phase = [o \in Ops |-> "idle"]
    /\ try = [o \in Ops |-> NoTry]
    /\ opResult = [o \in Ops |-> "none"]
    /\ attempts = [o \in Ops |-> <<>>]
    /\ delivered = [o \in Ops |-> <<>>]
    /\ opConn = [o \in Ops |-> "none"]
    /\ handlerConn = [o \in Ops |-> "none"]

\* The strategy's get_first_try.
get_first_try == 1

\* A mutant: a strategy that runs past its last try.
get_next_try_past_end(t, ec) ==
    IF ec \in Recoverable /\ t <= NTries THEN t + 1 ELSE NoTry

\* A mutant: a strategy that retries every error, recoverable or not.
get_next_try_any_error(t, ec) ==
    IF t < NTries THEN t + 1 ELSE NoTry

\* The strategy's get_next_try: the next try if the error is recoverable and
\* a try is left, the null try otherwise.
get_next_try(t, ec) ==
    IF ec \in Recoverable /\ t < NTries THEN t + 1 ELSE NoTry

\* get_next_try_impl::apply passes the connection on to a_try.get_next_try as
\* an lvalue: the continuation's connection is left as it was.
get_next_try_impl(cn) == cn

\* The connection the continuation holds once it has asked for the next try:
\* get_next_try is asked only on an error.
connAfterNextTry(o) ==
    IF opResult[o] # Ok THEN get_next_try_impl(opConn[o]) ELSE opConn[o]

\* initiate_operation: unpack the try's context and start the operation
\* with a continuation that owns the try and the handler.
initiate_operation(o, t) ==
    /\ try' = [try EXCEPT ![o] = t]
    /\ opResult' = [opResult EXCEPT ![o] = "none"]
    /\ attempts' = [attempts EXCEPT ![o] = Append(@, t)]

\* operation_initiator::operator(): the first try, and its attempt.
operation_initiator(o) ==
    /\ phase[o] = "idle"
    /\ phase' = [phase EXCEPT ![o] = "running"]
    /\ initiate_operation(o, get_first_try)
    /\ UNCHANGED <<delivered, opConn, handlerConn>>

\* The wrapped operation calls its continuation back with a result.
operation_completes(o) ==
    /\ phase[o] = "running"
    /\ opResult[o] = "none"
    /\ \E r \in Results : opResult' = [opResult EXCEPT ![o] = r]
    /\ opConn' = [opConn EXCEPT ![o] = "valid"]
    /\ UNCHANGED <<phase, try, attempts, delivered, handlerConn>>

\* A mutant: the continuation is not consumed when it calls the handler, so
\* a second call of it (the phase guard dropped) calls the handler again.
continuation_not_consumed(o) ==
    /\ opResult[o] # "none"
    /\ IF opResult[o] # Ok /\ get_next_try(try[o], opResult[o]) # NoTry
       THEN /\ initiate_operation(o, get_next_try(try[o], opResult[o]))
            /\ opConn' = [opConn EXCEPT ![o] = "none"]
            /\ UNCHANGED <<phase, delivered, handlerConn>>
       ELSE /\ delivered' = [delivered EXCEPT ![o] = Append(@, opResult[o])]
            /\ phase' = [phase EXCEPT ![o] = "done"]
            /\ handlerConn' = [handlerConn EXCEPT ![o] = connAfterNextTry(o)]
            /\ UNCHANGED <<try, opResult, attempts, opConn>>

\* A mutant: on an error the strategy gives up on, the continuation returns
\* without calling the handler.
continuation_drops_handler(o) ==
    /\ phase[o] = "running"
    /\ opResult[o] # "none"
    /\ IF opResult[o] # Ok /\ get_next_try(try[o], opResult[o]) # NoTry
       THEN /\ initiate_operation(o, get_next_try(try[o], opResult[o]))
            /\ opConn' = [opConn EXCEPT ![o] = "none"]
            /\ UNCHANGED <<phase, delivered, handlerConn>>
       ELSE IF opResult[o] = Ok
            THEN /\ delivered' = [delivered EXCEPT ![o] = Append(@, Ok)]
                 /\ phase' = [phase EXCEPT ![o] = "done"]
                 /\ handlerConn' = [handlerConn EXCEPT ![o] = connAfterNextTry(o)]
                 /\ UNCHANGED <<try, opResult, attempts, opConn>>
            ELSE UNCHANGED vars

\* A mutant: the continuation never asks for another try.
continuation_no_retry(o) ==
    /\ phase[o] = "running"
    /\ opResult[o] # "none"
    /\ delivered' = [delivered EXCEPT ![o] = Append(@, opResult[o])]
    /\ phase' = [phase EXCEPT ![o] = "done"]
    /\ handlerConn' = [handlerConn EXCEPT ![o] = opConn[o]]
    /\ UNCHANGED <<try, opResult, attempts, opConn>>

(***************************************************************************)
(* continuation::operator(): on an error, get_next_try; a try that is not  *)
(* null is initiated and the continuation returns; otherwise, and on       *)
(* success, the user's handler receives the result.                        *)
(***************************************************************************)
continuation(o) ==
    /\ phase[o] = "running"
    /\ opResult[o] # "none"
    /\ IF opResult[o] # Ok /\ get_next_try(try[o], opResult[o]) # NoTry
       THEN /\ initiate_operation(o, get_next_try(try[o], opResult[o]))
            /\ opConn' = [opConn EXCEPT ![o] = "none"]
            /\ UNCHANGED <<phase, delivered, handlerConn>>
       ELSE /\ delivered' = [delivered EXCEPT ![o] = Append(@, opResult[o])]
            /\ phase' = [phase EXCEPT ![o] = "done"]
            /\ handlerConn' = [handlerConn EXCEPT ![o] = connAfterNextTry(o)]
            /\ UNCHANGED <<try, opResult, attempts, opConn>>

Terminated == (\A o \in Ops : phase[o] = "done") /\ UNCHANGED vars

Next ==
    \/ \E o \in Ops : operation_initiator(o)
    \/ \E o \in Ops : operation_completes(o)
    \/ \E o \in Ops : continuation(o)
    \/ Terminated

Spec == Init /\ [][Next]_vars

(***************************************************************************)
(* Every operation wrapped by failover runs under a time constraint, so    *)
(* each attempt calls back; the continuation then runs.                    *)
(***************************************************************************)
FairSpec ==
    /\ Spec
    /\ \A o \in Ops : WF_vars(operation_completes(o)) /\ WF_vars(continuation(o))

-----------------------------------------------------------------------------
(***************************************************************************)
(* The refinement mapping onto FailoverPromise: the tries started are the  *)
(* length of attempts, the outcome is the result the continuation holds,   *)
(* and the result is the first thing the handler received.                *)
(***************************************************************************)
promiseResult == [o \in Ops |-> IF delivered[o] = <<>> THEN "none" ELSE delivered[o][1]]

Promise == INSTANCE FailoverPromise WITH
               status <- phase,
               tries <- [o \in Ops |-> Len(attempts[o])],
               outcome <- opResult,
               result <- promiseResult

-----------------------------------------------------------------------------
(* Properties *)

(***************************************************************************)
(* The user's handler is called at most once, however many attempts the    *)
(* continuation initiates.                                                 *)
(***************************************************************************)
HandlerAtMostOnce == \A o \in Ops : Len(delivered[o]) <= 1

(***************************************************************************)
(* An error reaches the user only when the strategy gives up on it: the    *)
(* error is not recoverable or every try has been used.  A success is      *)
(* never retried: each attempt before the last one failed with a           *)
(* recoverable error, and the tries are consumed in order, once each.      *)
(***************************************************************************)
ErrorOnlyWhenExhausted ==
    \A o \in Ops :
       /\ delivered[o] # <<>> /\ delivered[o][1] # Ok =>
              delivered[o][1] \notin Recoverable \/ Len(attempts[o]) = NTries
       /\ attempts[o] = [i \in 1..Len(attempts[o]) |-> i]

(***************************************************************************)
(* A failover operation whose attempts all call back ends with exactly one *)
(* call of the user's handler.                                             *)
(***************************************************************************)
FailoverCompletes ==
    \A o \in Ops : (phase[o] = "running") ~> (delivered[o] # <<>>)

(***************************************************************************)
(* operation_initiator and continuation implement the failover promise:   *)
(* every step of them is a step of FailoverPromise or leaves its state    *)
(* alone, so a retry happens only after a recoverable error with tries    *)
(* left, and the handler gets the last attempt's result.                   *)
(***************************************************************************)
ImplementsPromise == Promise!Spec

=============================================================================
