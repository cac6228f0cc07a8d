--------------------------- MODULE BenchmarkDriver ---------------------------
(***************************************************************************)
(* The driver of benchmarks/performance.cpp: main parses the options,      *)
(* run_benchmark looks the scenario up in its map, and the scenario runs   *)
(* one coroutine (spawn) on one io_context that requests until             *)
(* benchmark.step answers false; main then prints the report.  A request  *)
(* error is thrown out of the coroutine and caught by spawn's wrapper.     *)
(* The multi-thread scenario is the module MultThreadsBenchmark; here it   *)
(* is one step that either returns its report or leaves main blocked for  *)
(* ever in coroutine_finished.wait, the lost wakeup that module exhibits. *)
(*                                                                         *)
(* The scenarios differ in where the connection of a request comes from:  *)
(* a connector over connection_info opens a connection per request, the    *)
(* pool (not under src/; capacity 2, queue 0 in these scenarios) lends an  *)
(* idle connection or opens one.  time_limit_benchmark is not under src/:  *)
(* step answers false once the duration has elapsed, and the duration      *)
(* lets at most MaxRequests requests through.                              *)
(***************************************************************************)
EXTENDS Integers

CONSTANTS
    Names,         \* the values of --benchmark the runs try
    MaxRequests    \* the requests the duration lets through

\* The scenarios run_benchmark's map registers.
Registered == {"reuse_connection_info", "reuse_connection_info_and_parse_result",
               "reuse_connection", "reuse_connection_and_parse_result",
               "use_connection_pool", "use_connection_pool_and_parse_result",
               "use_connection_pool_mult_threads"}

\* The scenarios whose requests go through make_connector(connection_info, ...).
ConnectorScenarios == {"reuse_connection_info", "reuse_connection_info_and_parse_result",
                       "reuse_connection", "reuse_connection_and_parse_result"}

\* Those of them that take a connection with get_connection before the loop.
ReuseScenarios == {"reuse_connection", "reuse_connection_and_parse_result"}

\* The single-coroutine scenarios whose requests go through the pool.
PoolScenarios == {"use_connection_pool", "use_connection_pool_and_parse_result"}

\* config.capacity of the single-coroutine pool scenarios.
PoolCapacity == 2

\* --benchmark not given.
Unset == "unset"

ASSUME DriverConstantsAssumption ==
    /\ Unset \in Names
    /\ MaxRequests \in Nat \ {0}

VARIABLES
    pc,          \* "parse", "dispatch", "running", "report", "exit", or
                 \* "hung" when main waits for ever on coroutine_finished
    scenario,    \* the value of --benchmark
    cpc,         \* the coroutine: "none", "start", "loop", "step" or "dead"
    timeUp,      \* the duration has elapsed
    requests,    \* requests issued
    opened,      \* connections the scenario has opened
    idle,        \* idle connections in the pool
    failed,      \* a request or get_connection has failed
    exitCode     \* the process's exit status once pc = "exit": 0 or -1

vars == <<pc, scenario, cpc, timeUp, requests, opened, idle, failed, exitCode>>

TypeOK ==
    /\ pc \in {"parse", "dispatch", "running", "report", "exit", "hung"}
    /\ scenario \in Names
    /\ cpc \in {"none", "start", "loop", "step", "dead"}
    /\ timeUp \in BOOLEAN
    /\ requests \in 0..MaxRequests
    /\ opened \in 0..MaxRequests + 1
    /\ idle \in 0..PoolCapacity
    /\ failed \in BOOLEAN
    /\ exitCode \in {0, -1}

Init ==
    /\ pc = "parse"
    /\ scenario = Unset
    /\ cpc = "none"
    /\ timeUp = FALSE
    /\ requests = 0
    /\ opened = 0
    /\ idle = 0
    /\ failed = FALSE
    /\ exitCode = 0

\* Leaving main: the process ends with code c.
Exit(c) == pc' = "exit" /\ exitCode' = c

(***************************************************************************)
(* main up to run_benchmark: po::store and po::notify throw on a command   *)
(* line they cannot parse (an unknown option, a --format other than text  *)
(* or json, a --duration that is not a number), and main's catch returns  *)
(* -1; --help prints the options and returns 0, a missing --benchmark     *)
(* returns -1.  The remaining options only shape the report and the       *)
(* multi-thread scenario.                                                  *)
(***************************************************************************)
main_parse ==
    /\ pc = "parse"
    /\ \E parsed \in BOOLEAN, help \in BOOLEAN, name \in Names :
         /\ scenario' = name
         /\ CASE ~parsed       -> Exit(-1)
              [] help          -> Exit(0)
              [] name = Unset  -> Exit(-1)
              [] OTHER         -> pc' = "dispatch" /\ UNCHANGED exitCode
    /\ UNCHANGED <<cpc, timeUp, requests, opened, idle, failed>>

(***************************************************************************)
(* run_benchmark: a name the map does not hold throws invalid_argument,    *)
(* which main catches and turns into -1; any other single-coroutine       *)
(* scenario spawns its coroutine.  The multi-thread scenario's coroutines  *)
(* print a failed request and break rather than throw, so it returns its  *)
(* report whether or not a request failed; or its last notify_all is lost *)
(* and main never returns from coroutine_finished.wait.                    *)
(***************************************************************************)
run_benchmark ==
    /\ pc = "dispatch"
    /\ CASE scenario \notin Registered ->
              Exit(-1) /\ UNCHANGED <<cpc, failed>>
         [] scenario = "use_connection_pool_mult_threads" ->
              /\ \/ pc' = "report" /\ failed' \in BOOLEAN
                 \/ pc' = "hung" /\ UNCHANGED failed
              /\ UNCHANGED <<cpc, exitCode>>
         [] OTHER ->
              pc' = "running" /\ cpc' = "start" /\ UNCHANGED <<exitCode, failed>>
    /\ UNCHANGED <<scenario, timeUp, requests, opened, idle>>

\* spawn's wrapper catches what the coroutine throws, logs it and ends it.
spawn_catch ==
    /\ cpc' = "dead"
    /\ failed' = TRUE
    /\ UNCHANGED <<pc, exitCode>>

(***************************************************************************)
(* The reuse_connection scenarios first take a connection from their       *)
(* connector with get_connection(provider, yield), which throws on error.  *)
(***************************************************************************)
coroutine_start ==
    /\ cpc = "start"
    /\ IF scenario \in ReuseScenarios
       THEN /\ opened' = opened + 1
            /\ \/ cpc' = "loop" /\ UNCHANGED <<failed, pc, exitCode>>
               \/ spawn_catch
       ELSE /\ cpc' = "loop"
            /\ UNCHANGED <<opened, failed, pc, exitCode>>
    /\ UNCHANGED <<scenario, timeUp, requests, idle>>

\* A mutant: the pool takes a released connection back twice.
pool_request_returns_twice(ok) ==
    idle' = IF ok THEN (IF idle > 0 THEN idle - 1 ELSE idle) + 2
            ELSE IF idle > 0 THEN idle - 1 ELSE idle

(***************************************************************************)
(* A request through the pool: an idle connection is lent (a new one is    *)
(* opened when none is idle) and taken back when the request is done; a    *)
(* connection that failed is dropped.                                      *)
(***************************************************************************)
pool_request(ok) ==
    idle' = IF ok THEN (IF idle > 0 THEN idle - 1 ELSE idle) + 1
            ELSE IF idle > 0 THEN idle - 1 ELSE idle

(***************************************************************************)
(* One request of the loop: ozo::request(provider, ...) with the provider  *)
(* of the scenario.  The connector opens a fresh connection for the        *)
(* request, in the reuse_connection scenarios too; the pool lends one and  *)
(* takes it back.  An error is thrown and caught by spawn's wrapper.       *)
(***************************************************************************)
coroutine_request ==
    /\ cpc = "loop"
    /\ requests < MaxRequests
    /\ requests' = requests + 1
    /\ \E ok \in BOOLEAN :
         /\ CASE scenario \in PoolScenarios ->
                   /\ opened' = IF idle > 0 THEN opened ELSE opened + 1
                   /\ pool_request(ok)
              [] scenario \in ConnectorScenarios ->
                   /\ opened' = opened + 1
                   /\ UNCHANGED idle
         /\ IF ok THEN cpc' = "step" /\ UNCHANGED <<failed, pc, exitCode>>
                  ELSE spawn_catch
    /\ UNCHANGED <<scenario, timeUp>>

\* The duration elapses.
time_elapses ==
    /\ ~timeUp
    /\ timeUp' = TRUE
    /\ UNCHANGED <<pc, scenario, cpc, requests, opened, idle, failed, exitCode>>

\* A mutant: the loop has no break when benchmark.step answers false.
coroutine_step_no_break ==
    /\ cpc = "step"
    /\ cpc' = "loop"
    /\ UNCHANGED <<pc, scenario, timeUp, requests, opened, idle, failed, exitCode>>

\* benchmark.step answers false once the duration has elapsed: break.
coroutine_step ==
    /\ cpc = "step"
    /\ cpc' = IF timeUp \/ requests = MaxRequests THEN "dead" ELSE "loop"
    /\ UNCHANGED <<pc, scenario, timeUp, requests, opened, idle, failed, exitCode>>

\* io.run() returns once the coroutine has ended; the scenario's report.
io_run_returns ==
    /\ pc = "running"
    /\ cpc = "dead"
    /\ pc' = "report"
    /\ UNCHANGED <<scenario, cpc, timeUp, requests, opened, idle, failed, exitCode>>

\* main prints the report, as text or as JSON, and returns 0.
main_report ==
    /\ pc = "report"
    /\ Exit(0)
    /\ UNCHANGED <<scenario, cpc, timeUp, requests, opened, idle, failed>>

\* The process has exited, or main is blocked for ever.
Terminated == pc \in {"exit", "hung"} /\ UNCHANGED vars

Next ==
    \/ main_parse
    \/ run_benchmark
    \/ coroutine_start
    \/ coroutine_request
    \/ time_elapses
    \/ coroutine_step
    \/ io_run_returns
    \/ main_report
    \/ Terminated

Spec == Init /\ [][Next]_vars

\* The process and its io_context thread are scheduled; time passes.
FairSpec ==
    /\ Spec
    /\ WF_vars(run_benchmark) /\ WF_vars(coroutine_start)
    /\ WF_vars(coroutine_request) /\ WF_vars(coroutine_step)
    /\ WF_vars(io_run_returns) /\ WF_vars(main_report) /\ WF_vars(main_parse)
    /\ WF_vars(time_elapses)

-----------------------------------------------------------------------------
(* Properties *)

(***************************************************************************)
(* Once a single-coroutine scenario has spawned its coroutine, io.run()    *)
(* returns and main reaches the report: the coroutine leaves its loop when *)
(* benchmark.step answers false, and a failed request or get_connection is *)
(* thrown out of it and caught by spawn's wrapper, so no work is left on   *)
(* the io_context.                                                         *)
(***************************************************************************)
SpawnedScenarioReports == (pc = "running") ~> (pc = "report")

(***************************************************************************)
(* The reuse_connection scenarios, as their name says, run every request   *)
(* on the connection they took before the loop.                            *)
(***************************************************************************)
ReuseConnectionReuses ==
    scenario \in ReuseScenarios => opened <= 1

=============================================================================
