------------------------- MODULE MultThreadsBenchmark -------------------------
(***************************************************************************)
(* The use_connection_pool_mult_threads scenario of                        *)
(* benchmarks/performance.cpp.  The main thread creates NThreads contexts  *)
(* (an io_context with a work guard and a thread running it) and spawns    *)
(* NCoroutines coroutines on each; every coroutine requests through the    *)
(* shared pool until benchmark.thread_safe_step answers false or a request *)
(* fails, then increments the atomic finished_coroutines and calls         *)
(* notify_all on coroutine_finished without taking the mutex.  Main holds  *)
(* the mutex from its declaration on and waits on coroutine_finished with  *)
(* the predicate finished_coroutines >= NThreads * NCoroutines, then       *)
(* resets the work guards, joins the threads and reads the report.         *)
(*                                                                         *)
(* Coroutines of one thread run one at a time and yield only inside        *)
(* ozo::request.  time_limit_benchmark (benchmark.h) is not under src/:    *)
(* thread_safe_step answers false once the duration has elapsed, which the *)
(* environment signals with time_elapses.                                  *)
(***************************************************************************)
EXTENDS Naturals

CONSTANTS
    NThreads,      \* params.threads_number
    NCoroutines    \* params.coroutines, per thread

ASSUME BenchmarkConstantsAssumption ==
    NThreads \in Nat /\ NCoroutines \in Nat

\* A coroutine is named by its thread and its index on the thread; its token
\* is params.coroutines * i + j.
Coroutines == (1..NThreads) \X (1..NCoroutines)

Total == NThreads * NCoroutines

VARIABLES
    cpc,        \* per coroutine: "unspawned", "request" (suspended in
                \* ozo::request), "ready" (its request has completed),
                \* "notify" (finished_coroutines incremented, notify_all
                \* not yet called) or "done"
    failed,     \* per coroutine: its last request completed with an error
    finished,   \* finished_coroutines
    timeUp,     \* the benchmark's duration has elapsed
    spawned,    \* the contexts created so far
    guardsReset,\* the work guards have been reset
    mainPc      \* "spawn", "check" (evaluating the wait predicate, mutex
                \* held), "waiting" (found it false, not yet blocked),
                \* "blocked" (in coroutine_finished.wait), "reset",
                \* "join" or "done" (the report is read)

vars == <<cpc, failed, finished, timeUp, spawned, guardsReset, mainPc>>

TypeOK ==
    /\ cpc \in [Coroutines -> {"unspawned", "request", "ready", "notify", "done"}]
    /\ failed \in [Coroutines -> BOOLEAN]
    /\ finished \in 0..Total
    /\ timeUp \in BOOLEAN
    /\ spawned \in 0..NThreads
    /\ guardsReset \in BOOLEAN
    /\ mainPc \in {"spawn", "check", "waiting", "blocked", "reset", "join",
                   "done"}

Init ==
    /\ cpc = [c \in Coroutines |-> "unspawned"]
    /\ failed = [c \in Coroutines |-> FALSE]
    /\ finished = 0
    /\ timeUp = FALSE
    /\ spawned = 0
    /\ guardsReset = FALSE
    /\ mainPc = "spawn"

\* The coroutines of thread t: they share one io_context thread.
OnThread(t) == {c \in Coroutines : c[1] = t}

\* No coroutine of c's thread is between its increment and its notify_all.
ThreadFree(c) == \A d \in OnThread(c[1]) : cpc[d] # "notify"

\* A mutant: the spawn loop runs while i <= threads_number.
main_spawn_off_by_one ==
    /\ mainPc = "spawn"
    /\ spawned <= NThreads
    /\ spawned' = spawned + 1
    /\ cpc' = [c \in Coroutines |-> IF c[1] = spawned + 1 THEN "request"
                                                          ELSE cpc[c]]
    /\ UNCHANGED <<failed, finished, timeUp, guardsReset, mainPc>>

(***************************************************************************)
(* One pass of the outer loop of main: a context is created, its thread    *)
(* starts running io.run(), and its coroutines are spawned; the first one  *)
(* issues its request.                                                     *)
(***************************************************************************)
main_spawn ==
    /\ mainPc = "spawn"
    /\ spawned < NThreads
    /\ spawned' = spawned + 1
    /\ cpc' = [c \in Coroutines |-> IF c[1] = spawned + 1 THEN "request"
                                                          ELSE cpc[c]]
    /\ UNCHANGED <<failed, finished, timeUp, guardsReset, mainPc>>

\* The spawn loop is over: main waits if there is anything to wait for.
main_spawn_done ==
    /\ mainPc = "spawn"
    /\ spawned = NThreads
    /\ mainPc' = IF Total > 0 THEN "check" ELSE "reset"
    /\ UNCHANGED <<cpc, failed, finished, timeUp, spawned, guardsReset>>

\* A mutant: the wait predicate is off by one.
main_check_off_by_one ==
    /\ mainPc = "check"
    /\ mainPc' = IF finished + 1 >= Total THEN "reset" ELSE "waiting"
    /\ UNCHANGED <<cpc, failed, finished, timeUp, spawned, guardsReset>>

(***************************************************************************)
(* coroutine_finished.wait(lock, pred) evaluates the predicate with the    *)
(* mutex held and, when it is false, calls wait(lock).                     *)
(***************************************************************************)
main_check ==
    /\ mainPc = "check"
    /\ mainPc' = IF finished >= Total THEN "reset" ELSE "waiting"
    /\ UNCHANGED <<cpc, failed, finished, timeUp, spawned, guardsReset>>

(***************************************************************************)
(* wait(lock) releases the mutex and blocks in one step, but only with     *)
(* respect to threads that take the mutex; the coroutines do not, so their *)
(* notify_all can fall between the predicate and the block.                *)
(***************************************************************************)
main_block ==
    /\ mainPc = "waiting"
    /\ mainPc' = "blocked"
    /\ UNCHANGED <<cpc, failed, finished, timeUp, spawned, guardsReset>>

\* A condition variable may wake a waiter with no notify.
main_spurious_wakeup ==
    /\ mainPc = "blocked"
    /\ mainPc' = "check"
    /\ UNCHANGED <<cpc, failed, finished, timeUp, spawned, guardsReset>>

\* guard.reset() on every context: io.run() returns once its work is done.
main_reset_guards ==
    /\ mainPc = "reset"
    /\ guardsReset' = TRUE
    /\ mainPc' = "join"
    /\ UNCHANGED <<cpc, failed, finished, timeUp, spawned>>

\* A mutant: main reads the report without joining the threads.
main_join_detached ==
    /\ mainPc = "join"
    /\ mainPc' = "done"
    /\ UNCHANGED <<cpc, failed, finished, timeUp, spawned, guardsReset>>

(***************************************************************************)
(* thread.join() on every context, then get_output and get_stats: a thread *)
(* ends when its guard is reset and none of its coroutines is left.        *)
(***************************************************************************)
main_join ==
    /\ mainPc = "join"
    /\ guardsReset
    /\ \A c \in Coroutines : cpc[c] = "done"
    /\ mainPc' = "done"
    /\ UNCHANGED <<cpc, failed, finished, timeUp, spawned, guardsReset>>

\* The benchmark's duration elapses.
time_elapses ==
    /\ ~timeUp
    /\ timeUp' = TRUE
    /\ UNCHANGED <<cpc, failed, finished, spawned, guardsReset, mainPc>>

(***************************************************************************)
(* The request of coroutine c completes, with or without an error (the     *)
(* pool may be exhausted, the request may time out), and the coroutine is  *)
(* ready to run again.                                                     *)
(***************************************************************************)
request_completes(c) ==
    /\ cpc[c] = "request"
    /\ cpc' = [cpc EXCEPT ![c] = "ready"]
    /\ \E f \in BOOLEAN : failed' = [failed EXCEPT ![c] = f]
    /\ UNCHANGED <<finished, timeUp, spawned, guardsReset, mainPc>>

\* A mutant: the answer of thread_safe_step is ignored.
coroutine_resume_ignoring_step(c) ==
    /\ cpc[c] = "ready"
    /\ ThreadFree(c)
    /\ IF failed[c]
       THEN /\ cpc' = [cpc EXCEPT ![c] = "notify"]
            /\ finished' = finished + 1
       ELSE /\ cpc' = [cpc EXCEPT ![c] = "request"]
            /\ UNCHANGED finished
    /\ UNCHANGED <<failed, timeUp, spawned, guardsReset, mainPc>>

(***************************************************************************)
(* Coroutine c runs on from its request until it yields again:             *)
(* thread_safe_step counts the request whatever its error, and answers     *)
(* false once the time is up; an error breaks the loop too.  On a break,   *)
(* ++finished_coroutines; otherwise the next request is issued.            *)
(***************************************************************************)
coroutine_resume(c) ==
    /\ cpc[c] = "ready"
    /\ ThreadFree(c)
    /\ IF timeUp \/ failed[c]
       THEN /\ cpc' = [cpc EXCEPT ![c] = "notify"]
            /\ finished' = finished + 1
       ELSE /\ cpc' = [cpc EXCEPT ![c] = "request"]
            /\ UNCHANGED finished
    /\ UNCHANGED <<failed, timeUp, spawned, guardsReset, mainPc>>

\* coroutine_finished.notify_all(): wakes main if it is blocked in wait.
coroutine_notify(c) ==
    /\ cpc[c] = "notify"
    /\ cpc' = [cpc EXCEPT ![c] = "done"]
    /\ mainPc' = IF mainPc = "blocked" THEN "check" ELSE mainPc
    /\ UNCHANGED <<failed, finished, timeUp, spawned, guardsReset>>

Terminated == mainPc = "done" /\ UNCHANGED vars

Next ==
    \/ main_spawn
    \/ main_spawn_done
    \/ main_check
    \/ main_block
    \/ main_spurious_wakeup
    \/ main_reset_guards
    \/ main_join
    \/ time_elapses
    \/ \E c \in Coroutines : request_completes(c)
    \/ \E c \in Coroutines : coroutine_resume(c)
    \/ \E c \in Coroutines : coroutine_notify(c)
    \/ Terminated

Spec == Init /\ [][Next]_vars

(***************************************************************************)
(* Threads are scheduled by the OS, each request ends within its           *)
(* request_timeout, and the duration elapses.  A spurious wakeup is        *)
(* allowed but never promised.                                             *)
(***************************************************************************)
FairSpec ==
    /\ Spec
    /\ WF_vars(main_spawn) /\ WF_vars(main_spawn_done) /\ WF_vars(main_check)
    /\ WF_vars(main_block) /\ WF_vars(main_reset_guards) /\ WF_vars(main_join)
    /\ WF_vars(time_elapses)
    /\ \A c \in Coroutines : WF_vars(request_completes(c))
                              /\ WF_vars(coroutine_resume(c))
                              /\ WF_vars(coroutine_notify(c))

-----------------------------------------------------------------------------
(* Properties *)

(***************************************************************************)
(* Main reads the report (get_output, get_stats) only when no coroutine    *)
(* can call thread_safe_step any more, and the count it waited for is      *)
(* exact: every coroutine has finished.                                    *)
(***************************************************************************)
ReportAfterAllStopped ==
    mainPc = "done" =>
        /\ \A c \in Coroutines : cpc[c] = "done"
        /\ finished = Total

(***************************************************************************)
(* Main leaves coroutine_finished.wait only when every coroutine has       *)
(* incremented finished_coroutines.                                        *)
(***************************************************************************)
WaitEndsWhenAllFinished ==
    mainPc \in {"reset", "join", "done"} =>
        \A c \in Coroutines : cpc[c] \in {"notify", "done"}

(***************************************************************************)
(* Every coroutine leaves its request loop once the duration has elapsed.  *)
(***************************************************************************)
CoroutinesFinish == <>(\A c \in Coroutines : cpc[c] = "done")

(***************************************************************************)
(* The benchmark ends: main gets past coroutine_finished.wait, joins the   *)
(* threads and reads the report, without relying on a spurious wakeup.     *)
(***************************************************************************)
BenchmarkEnds == <>(mainPc = "done")

=============================================================================
