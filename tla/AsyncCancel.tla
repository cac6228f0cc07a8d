----------------------------- MODULE AsyncCancel -----------------------------
(***************************************************************************)
(* ozo::cancel (include/ozo/cancel.h) and ozo::impl::async_cancel          *)
(* (include/ozo/impl/async_cancel.h).                                      *)
(*                                                                         *)
(* A caller on the io thread asks to cancel the request running on each   *)
(* connection of Conns.  async_cancel obtains a libpq cancel handle,       *)
(* arms the connection's timer (unless the time constraint is none) and    *)
(* posts the blocking PQcancel call onto the executor ex.  Two            *)
(* completions then race on the operation's strand: the timer's           *)
(* (cancel_op_timeout_handler) and the cancel call's (cancel_op_handler).  *)
(* Both share one context holding std::optional<Handler>; whichever runs   *)
(* first empties it and fires the user handler, which cancels the timer    *)
(* (bind_cancel_timer) and posts the user callback (post_handler) to the   *)
(* io executor.                                                            *)
(*                                                                         *)
(* The PQcancel call may block forever, so the step that returns from it   *)
(* is never assumed fair.                                                  *)
(***************************************************************************)
EXTENDS Naturals, Sequences

CONSTANTS
    Conns,             \* the connections, one cancel operation each
    TimeConstraints,   \* the time constraints a caller passes: "none" or "duration"
    Dedicated          \* the connections whose cancel is passed the dedicated
                       \* executor (one thread draining a FIFO queue); the
                       \* others are passed asio::system_executor (a thread per job)

ASSUME ConstantsAssumption ==
    /\ Conns # {}
    /\ TimeConstraints # {}
    /\ TimeConstraints \subseteq {"none", "duration"}
    /\ Dedicated \subseteq Conns

\* error codes the user handler may receive
ErrorCodes == {"ok", "pq_cancel_failed", "operation_aborted", "pq_get_cancel_failed"}

\* the connection's error_context; "none" is whatever it held before
ErrorContexts == {"none", "cancel_message", "timeout_message", "bad_state_message"}

\* the message each failing path passes to set_error_context
ErrorContext(ec) ==
    CASE ec = "pq_cancel_failed"     -> "cancel_message"
      [] ec = "operation_aborted"    -> "timeout_message"
      [] ec = "pq_get_cancel_failed" -> "bad_state_message"

VARIABLES
    stage,      \* "idle" before async_cancel is called on the connection, "started" after
    tc,         \* the time constraint the caller passed
    handler,    \* ctx_->handler: "absent" (no context), "engaged" or "empty"
    timer,      \* the connection's steady_timer: "idle", "armed", or its completion
                \* queued with success ("expired") or with operation_aborted ("aborted")
    job,        \* the posted cancel_op: "none", "posted", "dispatched" (its result
                \* queued on the strand), "done"
    jobResult,  \* the error code dispatch_cancel returned
    exq,        \* the dedicated executor's FIFO queue of posted jobs
    connOpen,   \* the native connection is open (close_connection not called)
    errCtx,     \* the connection's error_context
    pending,    \* user callbacks posted to the io executor, not yet run
    delivered,  \* error codes the user callback has been called with
    ub,         \* some step had undefined behaviour
    crashed     \* the undefined behaviour took the process down

vars == <<stage, tc, handler, timer, job, jobResult, exq, connOpen, errCtx,
          pending, delivered, ub, crashed>>

TypeOK ==
    /\ stage \in [Conns -> {"idle", "started"}]
    /\ tc \in [Conns -> {"none", "duration"}]
    /\ handler \in [Conns -> {"absent", "engaged", "empty"}]
    /\ timer \in [Conns -> {"idle", "armed", "expired", "aborted"}]
    /\ job \in [Conns -> {"none", "posted", "dispatched", "done"}]
    /\ jobResult \in [Conns -> {"ok", "pq_cancel_failed"}]
    /\ exq \in Seq(Conns)
    /\ connOpen \in [Conns -> BOOLEAN]
    /\ errCtx \in [Conns -> ErrorContexts]
    /\ pending \in [Conns -> Seq(ErrorCodes)]
    /\ delivered \in [Conns -> Seq(ErrorCodes)]
    /\ ub \in BOOLEAN
    /\ crashed \in BOOLEAN

Init ==
    /\ stage = [c \in Conns |-> "idle"]
    /\ tc = [c \in Conns |-> "none"]
    /\ handler = [c \in Conns |-> "absent"]
    /\ timer = [c \in Conns |-> "idle"]
    /\ job = [c \in Conns |-> "none"]
    /\ jobResult = [c \in Conns |-> "ok"]
    /\ exq = <<>>
    /\ connOpen = [c \in Conns |-> TRUE]
    /\ errCtx = [c \in Conns |-> "none"]
    /\ pending = [c \in Conns |-> <<>>]
    /\ delivered = [c \in Conns |-> <<>>]
    /\ ub = FALSE
    /\ crashed = FALSE

-----------------------------------------------------------------------------
\* steady_timer::cancel: a pending wait completes with operation_aborted; a
\* completion already queued keeps its success code.
TimerCancel(tm) == IF tm = "armed" THEN "aborted" ELSE tm

\* detail::bind_cancel_timer<TimeConstraint>: cancels the connection's timer
\* before calling the wrapped handler, and is the identity for none.
bind_cancel_timer(t, tm) == IF t = "none" THEN tm ELSE TimerCancel(tm)

\* Mutant: the `if (ctx_->handler)` check dropped, so every completion
\* calls the user handler.
cancel_op_handler_unguarded(c, ec, tm) ==
    /\ handler' = [handler EXCEPT ![c] = "empty"]
    /\ connOpen' = IF ec # "ok" THEN [connOpen EXCEPT ![c] = FALSE] ELSE connOpen
    /\ errCtx' = IF ec # "ok" THEN [errCtx EXCEPT ![c] = ErrorContext(ec)] ELSE errCtx
    /\ timer' = [timer EXCEPT ![c] = bind_cancel_timer(tc[c], tm)]
    /\ pending' = [pending EXCEPT ![c] = Append(@, ec)]

\* Mutant: close_connection left out of the error branch.
cancel_op_handler_no_close(c, ec, tm) ==
    \/ /\ handler[c] = "engaged"
       /\ handler' = [handler EXCEPT ![c] = "empty"]
       /\ errCtx' = IF ec # "ok" THEN [errCtx EXCEPT ![c] = ErrorContext(ec)] ELSE errCtx
       /\ timer' = [timer EXCEPT ![c] = bind_cancel_timer(tc[c], tm)]
       /\ pending' = [pending EXCEPT ![c] = Append(@, ec)]
       /\ UNCHANGED connOpen
    \/ /\ handler[c] # "engaged"
       /\ timer' = [timer EXCEPT ![c] = tm]
       /\ UNCHANGED <<handler, connOpen, errCtx, pending>>

\* cancel_op_handler::operator()(ec, msg) on the strand, where tm is the
\* timer's state once the step's own effect on it is applied.  The first
\* call empties the optional, on error sets the error context and closes the
\* connection, and calls the user handler wrapped in bind_cancel_timer and
\* post_handler; every later call does nothing.
cancel_op_handler(c, ec, tm) ==
    \/ /\ handler[c] = "engaged"
       /\ handler' = [handler EXCEPT ![c] = "empty"]
       /\ connOpen' = IF ec # "ok" THEN [connOpen EXCEPT ![c] = FALSE] ELSE connOpen
       /\ errCtx' = IF ec # "ok" THEN [errCtx EXCEPT ![c] = ErrorContext(ec)] ELSE errCtx
       /\ timer' = [timer EXCEPT ![c] = bind_cancel_timer(tc[c], tm)]
       /\ pending' = [pending EXCEPT ![c] = Append(@, ec)]
    \/ /\ handler[c] # "engaged"
       /\ timer' = [timer EXCEPT ![c] = tm]
       /\ UNCHANGED <<handler, connOpen, errCtx, pending>>

-----------------------------------------------------------------------------
\* Mutant: the timer armed whatever the time constraint, as if
\* set_io_timeout ignored ozo::none.
async_cancel_always_arms(c, t) ==
    /\ ~crashed
    /\ stage[c] = "idle"
    /\ stage' = [stage EXCEPT ![c] = "started"]
    /\ tc' = [tc EXCEPT ![c] = t]
    /\ \/ /\ handler' = [handler EXCEPT ![c] = "engaged"]
          /\ timer' = [timer EXCEPT ![c] = "armed"]
          /\ job' = [job EXCEPT ![c] = "posted"]
          /\ exq' = IF c \in Dedicated THEN Append(exq, c) ELSE exq
          /\ UNCHANGED <<errCtx, pending>>
       \/ /\ errCtx' = [errCtx EXCEPT ![c] = ErrorContext("pq_get_cancel_failed")]
          /\ pending' = [pending EXCEPT ![c] = Append(@, "pq_get_cancel_failed")]
          /\ UNCHANGED <<handler, timer, job, exq>>
    /\ UNCHANGED <<jobResult, connOpen, delivered, ub, crashed>>

\* async_cancel(conn, ex, t, h), entered through one of the ozo::cancel
\* overloads.  With a cancel handle: build the shared context, arm the timer
\* unless t is none, post the cancel_op to ex.  Without one: set the error
\* context and dispatch h with pq_get_cancel_failed; the connection stays open.
async_cancel(c, t) ==
    /\ ~crashed
    /\ stage[c] = "idle"
    /\ stage' = [stage EXCEPT ![c] = "started"]
    /\ tc' = [tc EXCEPT ![c] = t]
    /\ \/ /\ handler' = [handler EXCEPT ![c] = "engaged"]
          /\ timer' = IF t = "none" THEN timer ELSE [timer EXCEPT ![c] = "armed"]
          /\ job' = [job EXCEPT ![c] = "posted"]
          /\ exq' = IF c \in Dedicated THEN Append(exq, c) ELSE exq
          /\ UNCHANGED <<errCtx, pending>>
       \/ /\ errCtx' = [errCtx EXCEPT ![c] = ErrorContext("pq_get_cancel_failed")]
          /\ pending' = [pending EXCEPT ![c] = Append(@, "pq_get_cancel_failed")]
          /\ UNCHANGED <<handler, timer, job, exq>>
    /\ UNCHANGED <<jobResult, connOpen, delivered, ub, crashed>>

\* The steady clock reaches the timer's expiry: the wait's completion is
\* queued on the strand with success.
timer_expires(c) ==
    /\ ~crashed
    /\ timer[c] = "armed"
    /\ timer' = [timer EXCEPT ![c] = "expired"]
    /\ UNCHANGED <<stage, tc, handler, job, jobResult, exq, connOpen, errCtx,
                   pending, delivered, ub, crashed>>

\* Mutant: the timeout handler's test inverted (ec == operation_aborted).
cancel_op_timeout_handler_inverted(c) ==
    /\ ~crashed
    /\ timer[c] \in {"expired", "aborted"}
    /\ \/ /\ timer[c] = "aborted"
          /\ cancel_op_handler(c, "operation_aborted", "idle")
       \/ /\ timer[c] = "expired"
          /\ timer' = [timer EXCEPT ![c] = "idle"]
          /\ UNCHANGED <<handler, connOpen, errCtx, pending>>
    /\ UNCHANGED <<stage, tc, job, jobResult, exq, delivered, ub, crashed>>

\* Running the timer's completion, asio asks cancel_op_timeout_handler for
\* its executor, and get_executor dereferences ctx_->handler.  Once the
\* handler was taken, builds whose asio queries the executor again at
\* completion (not only when async_wait starts) read the empty optional:
\* undefined behaviour, which crashes the process or goes on; other builds
\* never read it.
timer_completion_executor(c) ==
    \/ UNCHANGED <<ub, crashed>>
    \/ /\ handler[c] = "empty"
       /\ ub' = TRUE
       /\ crashed' \in BOOLEAN

\* cancel_op_timeout_handler::operator()(ec) on the strand: unless the wait
\* was aborted, call the shared handler with operation_aborted.
cancel_op_timeout_handler(c) ==
    /\ ~crashed
    /\ timer[c] \in {"expired", "aborted"}
    /\ timer_completion_executor(c)
    /\ \/ /\ timer[c] = "expired"
          /\ cancel_op_handler(c, "operation_aborted", "idle")
       \/ /\ timer[c] = "aborted"
          /\ timer' = [timer EXCEPT ![c] = "idle"]
          /\ UNCHANGED <<handler, connOpen, errCtx, pending>>
    /\ UNCHANGED <<stage, tc, job, jobResult, exq, delivered>>

\* cancel_op::operator()() on ex: the blocking dispatch_cancel returns r,
\* then asio::dispatch(bind(handler_, ec, msg)) asks handler_ for its
\* executor, which dereferences ctx_->handler.  Engaged, that is the strand
\* and the result is queued there.  Empty (the timer won), the dereference
\* of the empty optional is undefined behaviour: the build either crashes or
\* reaches a cancel_op_handler that finds the optional empty.
cancel_op(c) ==
    /\ ~crashed
    /\ job[c] = "posted"
    /\ c \in Dedicated => exq # <<>> /\ Head(exq) = c
    /\ exq' = IF c \in Dedicated THEN Tail(exq) ELSE exq
    /\ \E r \in {"ok", "pq_cancel_failed"} :
          jobResult' = [jobResult EXCEPT ![c] = r]
    /\ \/ /\ handler[c] = "engaged"
          /\ job' = [job EXCEPT ![c] = "dispatched"]
          /\ UNCHANGED <<ub, crashed>>
       \/ /\ handler[c] = "empty"
          /\ job' = [job EXCEPT ![c] = "done"]
          /\ ub' = TRUE
          /\ crashed' \in BOOLEAN
    /\ UNCHANGED <<stage, tc, handler, timer, connOpen, errCtx, pending, delivered>>

\* The strand runs the dispatched cancel_op result: cancel_op_handler with
\* the error code of dispatch_cancel.
cancel_op_completion(c) ==
    /\ ~crashed
    /\ job[c] = "dispatched"
    /\ job' = [job EXCEPT ![c] = "done"]
    /\ cancel_op_handler(c, jobResult[c], timer[c])
    /\ UNCHANGED <<stage, tc, jobResult, exq, delivered, ub, crashed>>

\* Mutant: the whole posted queue handed to the callback instead of its head.
user_callback_whole_queue(c) ==
    /\ ~crashed
    /\ pending[c] # <<>>
    /\ delivered' = [delivered EXCEPT ![c] = Append(@, pending[c])]
    /\ pending' = [pending EXCEPT ![c] = Tail(@)]
    /\ UNCHANGED <<stage, tc, handler, timer, job, jobResult, exq, connOpen,
                   errCtx, ub, crashed>>

\* The io executor runs the callback that post_handler (or the dispatch of
\* the no-handle path) queued.
user_callback(c) ==
    /\ ~crashed
    /\ pending[c] # <<>>
    /\ delivered' = [delivered EXCEPT ![c] = Append(@, Head(pending[c]))]
    /\ pending' = [pending EXCEPT ![c] = Tail(@)]
    /\ UNCHANGED <<stage, tc, handler, timer, job, jobResult, exq, connOpen,
                   errCtx, ub, crashed>>

\* Every operation has finished, or the process is gone.
Finished ==
    \/ crashed
    \/ \A c \in Conns :
          /\ stage[c] = "started"
          /\ job[c] \in {"none", "done"}
          /\ timer[c] = "idle"
          /\ pending[c] = <<>>

Terminated == Finished /\ UNCHANGED vars

(***************************************************************************)
(* ozo::cancel, the cancel_op object of cancel.h: the overload taking an   *)
(* executor and a time constraint passes both to async_cancel; the one     *)
(* without an executor passes asio::system_executor; the one with neither  *)
(* passes system_executor and ozo::none, so no timer is armed.             *)
(***************************************************************************)
cancel(c) ==
    \/ \E t \in TimeConstraints : async_cancel(c, t)
    \/ c \notin Dedicated /\ \E t \in TimeConstraints : async_cancel(c, t)
    \/ c \notin Dedicated /\ async_cancel(c, "none")

Next ==
    \/ \E c \in Conns : cancel(c)
    \/ \E c \in Conns : timer_expires(c)
    \/ \E c \in Conns : cancel_op_timeout_handler(c)
    \/ \E c \in Conns : cancel_op(c)
    \/ \E c \in Conns : cancel_op_completion(c)
    \/ \E c \in Conns : user_callback(c)
    \/ Terminated

\* The clock advances, and the io thread keeps running the strand and the
\* posted handlers.  The PQcancel call (cancel_op) may block forever.
Fairness ==
    \A c \in Conns :
        /\ WF_vars(timer_expires(c))
        /\ WF_vars(cancel_op_timeout_handler(c))
        /\ WF_vars(cancel_op_completion(c))
        /\ WF_vars(user_callback(c))

Spec == Init /\ [][Next]_vars

FairSpec == Spec /\ Fairness

-----------------------------------------------------------------------------
(* Properties *)

\* The user handler of a cancel operation is called at most once, although
\* the timer's completion and the cancel call's result both reach the
\* shared cancel_op_handler (spec 4.4, key invariant).
HandlerAtMostOnce ==
    \A c \in Conns : Len(pending[c]) + Len(delivered[c]) <= 1

\* When the user callback of an operation that obtained a cancel handle
\* reports an error, the connection was already closed by
\* cancel_op_handler and its error context names that error.
ErrorClosesConnection ==
    \A c \in Conns :
        (handler[c] # "absent" /\ delivered[c] # <<>> /\ delivered[c][1] # "ok")
            => /\ ~connOpen[c]
               /\ errCtx[c] = ErrorContext(delivered[c][1])

\* A cancel with a time constraint completes even if PQcancel never
\* returns: its callback runs (unless the process died).
TimedCancelCompletes ==
    \A c \in Conns :
        (handler[c] = "engaged" /\ tc[c] = "duration")
            ~> (delivered[c] # <<>> \/ crashed)

(***************************************************************************)
(* Once the user callback of a cancel has run, the connection it was      *)
(* handed is the caller's: the completion that lost the race (a late      *)
(* PQcancel result or the timer's handler) reaching cancel_op_handler      *)
(* afterwards neither closes that connection nor rewrites its error        *)
(* context.                                                                *)
(***************************************************************************)
LateCompletionLeavesConnection ==
    [][\A c \in Conns :
          delivered[c] # <<>> => UNCHANGED <<connOpen[c], errCtx[c]>>]_vars

\* No step of the operation has undefined behaviour.  (The timer winning
\* and PQcancel returning afterwards is the documented scenario of
\* cancel.h: "The cancel operation itself would continue to execute".)
NoUndefinedBehaviour == ~ub

(***************************************************************************)
(* The refinement mapping to CancelPromise: a connection's cancel is       *)
(* waiting while its shared context still holds the handler, and completed *)
(* once the handler was taken (or async_cancel found no cancel handle);    *)
(* it is timed when the caller passed a duration; its result is the one    *)
(* posted or delivered.                                                    *)
(***************************************************************************)
cancelStatus ==
    [c \in Conns |-> IF stage[c] = "idle" THEN "idle"
                     ELSE IF handler[c] = "engaged" THEN "waiting"
                     ELSE "completed"]

cancelTimed == [c \in Conns |-> tc[c] = "duration"]

cancelResult ==
    [c \in Conns |-> IF pending[c] # <<>> THEN Head(pending[c])
                     ELSE IF delivered[c] # <<>> THEN Head(delivered[c])
                     ELSE "none"]

Promise == INSTANCE CancelPromise
               WITH status <- cancelStatus, timed <- cancelTimed,
                    result <- cancelResult, handled <- delivered

(***************************************************************************)
(* ozo::cancel keeps its promise: every step is the start of a cancel, its *)
(* completion with the PQcancel result or (for a timed cancel only) with   *)
(* operation_aborted, the one call of the handler, or invisible to the     *)
(* caller.  In particular a cancel called with ozo::none never reports a   *)
(* time-out, and the completion that loses the race changes nothing.       *)
(***************************************************************************)
ImplementsCancel == Promise!Spec

(***************************************************************************)
(* cancel.h: "Given connection will be closed any way before the operation *)
(* completion token handler will be called" (the specification's section  *)
(* 8, invariant 5, says the same of an error): whichever path async_cancel *)
(* takes, success, PQcancel failure, time-out or no cancel handle, the     *)
(* connection the handler receives is closed.                              *)
(***************************************************************************)
ClosedBeforeCallback ==
    \A c \in Conns : delivered[c] # <<>> => ~connOpen[c]

=============================================================================
