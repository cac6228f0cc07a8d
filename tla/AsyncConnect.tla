---------------------------- MODULE AsyncConnect ----------------------------
(***************************************************************************)
(* The asynchronous connect operation of include/ozo/impl/async_connect.h: *)
(* async_connect builds the handler chain                                  *)
(*   request_oid_map_handler -> bind_executor(strand,                      *)
(*       bind_cancel_timer(post_handler(h)))                               *)
(* and starts async_connect_op::perform, which drives the native           *)
(* connect-polling state machine through socket waits until done(ec)      *)
(* hands the result down the chain.                                        *)
(*                                                                         *)
(* One operation runs on one io_context thread, so a step of this module   *)
(* is one completion handler run to its end.  The environment makes the    *)
(* socket ready (io_ready) and expires the connection's timer              *)
(* (timer_expires); both only queue a handler, which runs later.  The      *)
(* helpers that are not under src/ (set_io_timeout, the timer handler it   *)
(* installs, bind_cancel_timer, post_handler and request_oid_map_op) are   *)
(* modelled from the specification's section 4.1.                         *)
(***************************************************************************)
EXTENDS Naturals, Sequences

CONSTANTS
    TimeConstraints,   \* the time constraints a caller may pass
    MaxPolls           \* bound on the socket waits of one operation

ASSUME ConnectConstantsAssumption ==
    /\ TimeConstraints # {}
    /\ TimeConstraints \subseteq {"none", "duration"}
    /\ MaxPolls \in Nat \ {0}

\* The results async_connect can report; "ok" is the empty error_code.
ErrorCodes == {"ok", "start_failed", "pq_connection_status_bad",
               "assign_failed", "operation_aborted", "bad_descriptor",
               "pq_connect_poll_failed", "oid_request_failed"}

\* What PQconnectPoll may answer.
PollResults == {"PGRES_POLLING_OK", "PGRES_POLLING_WRITING",
                "PGRES_POLLING_READING", "PGRES_POLLING_FAILED",
                "PGRES_POLLING_ACTIVE"}

VARIABLES
    pc,        \* "idle" before async_connect, "running" after, "finished" once done ran
    tc,        \* the time constraint of the operation
    wait,      \* the outstanding socket wait: "none", "read", "write" or "oid"
    waitDone,  \* its completion: "no" (pending), "ok" or an error, queued
    polls,     \* the socket waits registered so far
    timer,     \* the connection timer: "idle", "armed", "expired" (handler queued),
               \* "cancelled" or "fired" (its handler has run)
    sockOpen,  \* the connection's socket is open
    errCtx,    \* the connection's error context: "none" or "polling"
    pending,   \* results posted by post_handler, not yet run
    delivered, \* results the user handler has received
    OidMapEmpty \* OidMapEmpty<Conn>: the connection type has no OID map, so
               \* no OID map request follows the connect; fixed by the type

vars == <<pc, tc, wait, waitDone, polls, timer, sockOpen, errCtx, pending,
          delivered, OidMapEmpty>>

TypeOK ==
    /\ pc \in {"idle", "running", "finished"}
    /\ tc \in {"none", "duration"}
    /\ wait \in {"none", "read", "write", "oid"}
    /\ waitDone \in {"no", "ok", "operation_aborted", "bad_descriptor",
                     "oid_request_failed"}
    /\ polls \in 0..MaxPolls
    /\ timer \in {"idle", "armed", "expired", "cancelled", "fired"}
    /\ sockOpen \in BOOLEAN
    /\ errCtx \in {"none", "polling"}
    /\ pending \in Seq(ErrorCodes)
    /\ delivered \in Seq(ErrorCodes)
    /\ OidMapEmpty \in BOOLEAN

Init ==
    /\ pc = "idle"
    /\ tc = "none"
    /\ wait = "none"
    /\ waitDone = "no"
    /\ polls = 0
    /\ timer = "idle"
    /\ sockOpen = FALSE
    /\ errCtx = "none"
    /\ pending = <<>>
    /\ delivered = <<>>
    /\ OidMapEmpty \in BOOLEAN

(***************************************************************************)
(* The tail of the handler chain: bind_cancel_timer cancels the timer and  *)
(* post_handler posts the user handler.  Cancelling an armed timer makes   *)
(* its handler run with operation_aborted, which does nothing; a timer     *)
(* that has already expired keeps its queued handler, which still runs     *)
(* with success.                                                           *)
(***************************************************************************)
CancelTimer(tm) == IF tm = "armed" THEN "cancelled" ELSE tm

complete(ec) ==
    /\ pc' = "finished"
    /\ timer' = CancelTimer(timer)
    /\ pending' = Append(pending, ec)

\* A mutant: make_request_oid_map_handler returns the bound handler itself
\* for every connection type, so no OID map is ever requested.
done_skips_oid_map(ec) ==
    /\ complete(ec)
    /\ wait' = "none"
    /\ UNCHANGED <<waitDone, polls>>

(***************************************************************************)
(* async_connect_op::done(ec) calls the head of the chain.  Without an OID *)
(* map the head is the bound cancel-timer handler itself; otherwise        *)
(* request_oid_map_handler forwards an error, and on success starts the    *)
(* OID map request on the connection, a socket wait of its own.            *)
(***************************************************************************)
done(ec) ==
    IF OidMapEmpty \/ ec # "ok"
    THEN /\ complete(ec)
         /\ wait' = "none"
         /\ UNCHANGED <<waitDone, polls>>
    ELSE /\ wait' = "oid"
         /\ waitDone' = IF sockOpen THEN "no" ELSE "bad_descriptor"
         /\ UNCHANGED <<pc, timer, pending, polls>>

\* write_poll / read_poll: register a socket wait; on a closed socket the
\* wait completes at once with an error.
register(kind) ==
    /\ wait' = kind
    /\ waitDone' = IF sockOpen THEN "no" ELSE "bad_descriptor"
    /\ polls' = polls + 1

(***************************************************************************)
(* async_connect_op::perform: start_connection, connection_bad and         *)
(* assign_socket may each end the operation at once; otherwise             *)
(* set_io_timeout arms the timer (for a duration) and write_poll registers *)
(* the first wait.                                                         *)
(***************************************************************************)
perform(t) ==
    \/ /\ \E ec \in {"start_failed", "pq_connection_status_bad", "assign_failed"} :
             done(ec)
       /\ UNCHANGED sockOpen
    \/ /\ pc' = "running"
       /\ sockOpen' = TRUE
       /\ timer' = IF t = "duration" THEN "armed" ELSE "idle"
       /\ wait' = "write"
       /\ waitDone' = "no"
       /\ polls' = 1
       /\ UNCHANGED pending

\* async_connect: the handler chain is built on a new strand and the
\* operation is performed with the caller's time constraint.
async_connect(t) ==
    /\ pc = "idle"
    /\ tc' = t
    /\ perform(t)
    /\ UNCHANGED <<OidMapEmpty, errCtx, delivered>>

\* The reactor finds the socket ready for the outstanding wait.
io_ready ==
    /\ wait \in {"read", "write"}
    /\ waitDone = "no"
    /\ waitDone' = "ok"
    /\ UNCHANGED <<OidMapEmpty, pc, tc, wait, polls, timer, sockOpen, errCtx, pending,
                   delivered>>

\* The OID map request, started on the connection, completes.
oid_request_completes ==
    /\ wait = "oid"
    /\ waitDone = "no"
    /\ \E r \in {"ok", "oid_request_failed"} : waitDone' = r
    /\ UNCHANGED <<OidMapEmpty, pc, tc, wait, polls, timer, sockOpen, errCtx, pending,
                   delivered>>

\* The time constraint runs out: the timer queues its handler.
timer_expires ==
    /\ timer = "armed"
    /\ timer' = "expired"
    /\ UNCHANGED <<OidMapEmpty, pc, tc, wait, waitDone, polls, sockOpen, errCtx, pending,
                   delivered>>

\* A mutant: the timer handler closes the socket but leaves the wait alone.
timeout_handler_keeps_wait ==
    /\ timer = "expired"
    /\ timer' = "fired"
    /\ sockOpen' = FALSE
    /\ UNCHANGED <<OidMapEmpty, pc, tc, wait, waitDone, polls, errCtx, pending, delivered>>

(***************************************************************************)
(* The handler set_io_timeout installs, run with success: the pending      *)
(* socket wait is cancelled and the socket is closed.                      *)
(***************************************************************************)
timeout_handler ==
    /\ timer = "expired"
    /\ timer' = "fired"
    /\ sockOpen' = FALSE
    /\ waitDone' = IF wait # "none" /\ waitDone = "no"
                   THEN "operation_aborted" ELSE waitDone
    /\ UNCHANGED <<OidMapEmpty, pc, tc, wait, polls, errCtx, pending, delivered>>

\* A mutant: after done(ec) on a wait error, operator() falls through to
\* connect_poll, which fails and calls done a second time.
connect_poll_error_no_return ==
    /\ wait \in {"read", "write"}
    /\ waitDone \notin {"no", "ok"}
    /\ errCtx' = "polling"
    /\ wait' = "none"
    /\ pc' = "finished"
    /\ timer' = CancelTimer(timer)
    /\ pending' = pending \o <<waitDone, "pq_connect_poll_failed">>
    /\ UNCHANGED <<OidMapEmpty, tc, waitDone, polls, sockOpen, delivered>>

(***************************************************************************)
(* async_connect_op::operator() called with an error by a read or write    *)
(* wait: the error context is set if it is empty and the operation ends.   *)
(***************************************************************************)
connect_poll_error ==
    /\ wait \in {"read", "write"}
    /\ waitDone \notin {"no", "ok"}
    /\ errCtx' = "polling"
    /\ wait' = "none"
    /\ complete(waitDone)
    /\ UNCHANGED <<OidMapEmpty, tc, waitDone, polls, sockOpen, delivered>>

(***************************************************************************)
(* async_connect_op::operator() called with success: connect_poll decides  *)
(* whether the operation is done, needs another wait, or has failed with   *)
(* pq_connect_poll_failed.  The bound MaxPolls stops the server from       *)
(* asking for more waits forever.                                          *)
(***************************************************************************)
connect_poll_step ==
    /\ wait \in {"read", "write"}
    /\ waitDone = "ok"
    /\ UNCHANGED <<OidMapEmpty, tc, sockOpen, errCtx, delivered>>
    /\ \E r \in PollResults :
         CASE r = "PGRES_POLLING_OK" ->
                done("ok")
           [] r \in {"PGRES_POLLING_WRITING", "PGRES_POLLING_READING"} ->
                /\ polls < MaxPolls
                /\ register(IF r = "PGRES_POLLING_WRITING" THEN "write" ELSE "read")
                /\ UNCHANGED <<pc, timer, pending>>
           [] OTHER ->
                /\ wait' = "none"
                /\ complete("pq_connect_poll_failed")
                /\ UNCHANGED <<waitDone, polls>>

\* request_oid_map_handler's handler_, called when the OID request ends.
oid_map_step ==
    /\ wait = "oid"
    /\ waitDone # "no"
    /\ wait' = "none"
    /\ complete(waitDone)
    /\ UNCHANGED <<OidMapEmpty, tc, waitDone, polls, sockOpen, errCtx, delivered>>

\* A mutant: the whole queue is delivered instead of its head.
user_callback_whole_queue ==
    /\ pending # <<>>
    /\ delivered' = Append(delivered, pending)
    /\ pending' = <<>>
    /\ UNCHANGED <<OidMapEmpty, pc, tc, wait, waitDone, polls, timer, sockOpen, errCtx>>

\* The handler posted by post_handler runs.
user_callback ==
    /\ pending # <<>>
    /\ delivered' = Append(delivered, Head(pending))
    /\ pending' = Tail(pending)
    /\ UNCHANGED <<OidMapEmpty, pc, tc, wait, waitDone, polls, timer, sockOpen, errCtx>>

\* The operation has ended and no handler of it is left in the queue.
Finished == pc = "finished" /\ pending = <<>> /\ timer # "expired"

Terminated == Finished /\ UNCHANGED vars

Next ==
    \/ \E t \in TimeConstraints : async_connect(t)
    \/ io_ready
    \/ oid_request_completes
    \/ timer_expires
    \/ timeout_handler
    \/ connect_poll_error
    \/ connect_poll_step
    \/ oid_map_step
    \/ user_callback
    \/ Terminated

Spec == Init /\ [][Next]_vars

(***************************************************************************)
(* Handlers queued on the io_context run; the timer runs out.  The server  *)
(* is not assumed to answer: io_ready and the OID reply are not fair.      *)
(***************************************************************************)
Fairness ==
    /\ WF_vars(timer_expires)
    /\ WF_vars(timeout_handler)
    /\ WF_vars(connect_poll_error)
    /\ WF_vars(connect_poll_step)
    /\ WF_vars(oid_map_step)
    /\ WF_vars(user_callback)

FairSpec == Spec /\ Fairness

-----------------------------------------------------------------------------
(* Properties *)

(***************************************************************************)
(* The user handler of async_connect is called at most once, whatever the  *)
(* order of socket readiness, timer expiry and OID map reply.              *)
(***************************************************************************)
HandlerAtMostOnce == Len(pending) + Len(delivered) <= 1

(***************************************************************************)
(* A connect with a duration constraint always reaches its user handler,   *)
(* even when the server never answers: the timer handler aborts the wait.  *)
(***************************************************************************)
TimedConnectCompletes ==
    (pc = "running" /\ tc = "duration") ~> (delivered # <<>>)

(***************************************************************************)
(* The refinement mapping to ConnectPromise: the operation is connecting   *)
(* while it runs with a socket wait of the connect, loading the OID map    *)
(* while the OID request is outstanding, and completed once done has       *)
(* reached the bound cancel-timer handler; its result is the one posted or *)
(* delivered.                                                              *)
(***************************************************************************)
connectStatus ==
    IF pc = "idle" THEN "idle"
    ELSE IF pc = "finished" THEN "completed"
    ELSE IF wait = "oid" THEN "oid"
    ELSE "connecting"

connectResult ==
    IF pending # <<>> THEN Head(pending)
    ELSE IF delivered # <<>> THEN Head(delivered) ELSE "none"

Promise == INSTANCE ConnectPromise
               WITH Errors <- ErrorCodes \ {"ok"}, status <- connectStatus,
                    needOid <- ~OidMapEmpty, result <- connectResult,
                    handled <- delivered

(***************************************************************************)
(* async_connect keeps the promise of section 4.1: every step is a start,  *)
(* an established connection, a loaded OID map, a failure, the one call of *)
(* the handler, or invisible to the caller; in particular success reaches  *)
(* the handler only after the OID map, when the connection type has one,   *)
(* was loaded.                                                             *)
(***************************************************************************)
ImplementsConnect == Promise!Spec

(***************************************************************************)
(* A connection handed to the user with success still has its socket open. *)
(* The timer's handler may already be queued when bind_cancel_timer        *)
(* cancels it; it then runs with success and closes the socket.            *)
(***************************************************************************)
SuccessKeepsSocket == delivered = <<"ok">> => sockOpen

=============================================================================
