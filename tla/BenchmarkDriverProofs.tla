------------------------- MODULE BenchmarkDriverProofs -------------------------
(***************************************************************************)
(* Proofs about the benchmark driver, for every set of --benchmark values  *)
(* and every number of requests the duration lets through.                 *)
(***************************************************************************)
EXTENDS BenchmarkDriver, TLAPS

USE DriverConstantsAssumption

(***************************************************************************)
(* The inductive invariant behind the type invariant.  opened and idle    *)
(* are bounded only through the requests: the coroutine starts from       *)
(* nothing, runs only a scenario that run_benchmark dispatches to it, and  *)
(* opens at most one connection more than it has issued requests; in a    *)
(* pool scenario the single coroutine takes its connection back after      *)
(* each successful request, so the pool never holds more than the one     *)
(* connection it opened.                                                   *)
(***************************************************************************)
DriverInv ==
    /\ pc \in {"parse", "dispatch"} => cpc = "none"
    /\ cpc \in {"none", "start"} => opened = 0 /\ idle = 0 /\ requests = 0
    /\ cpc # "none" => scenario \in PoolScenarios \cup ConnectorScenarios
    /\ opened <= requests + 1
    /\ scenario \notin PoolScenarios => idle = 0
    /\ scenario \in PoolScenarios =>
         /\ opened <= 1
         /\ idle <= opened
         /\ cpc # "dead" => idle = opened

\* TypeOK without its Boolean-valued variables, and those variables.
TypeData ==
    /\ pc \in {"parse", "dispatch", "running", "report", "exit", "hung"}
    /\ scenario \in Names
    /\ cpc \in {"none", "start", "loop", "step", "dead"}
    /\ requests \in 0..MaxRequests
    /\ opened \in 0..MaxRequests + 1
    /\ idle \in 0..PoolCapacity
    /\ exitCode \in {0, -1}

TypeBool == timeUp \in BOOLEAN /\ failed \in BOOLEAN

LEMMA TypeSplit == TypeOK <=> TypeData /\ TypeBool
BY Zenon DEF TypeOK, TypeData, TypeBool

\* The scenario sets are pairwise distinct names.
LEMMA ScenarioSets ==
    /\ PoolScenarios \cap ConnectorScenarios = {}
    /\ ReuseScenarios \subseteq ConnectorScenarios
    /\ Registered \ {"use_connection_pool_mult_threads"}
         = PoolScenarios \cup ConnectorScenarios
BY DEF PoolScenarios, ConnectorScenarios, ReuseScenarios, Registered

-----------------------------------------------------------------------------
(* What each action does, with its CASE and IF arms taken apart *)

LEMMA ParseCases ==
    ASSUME main_parse
    PROVE  /\ scenario' \in Names
           /\ \/ pc' = "exit" /\ exitCode' \in {0, -1}
              \/ pc' = "dispatch" /\ exitCode' = exitCode
           /\ UNCHANGED <<cpc, timeUp, requests, opened, idle, failed>>
<1>1. PICK parsed \in BOOLEAN, help \in BOOLEAN, name \in Names :
        /\ scenario' = name
        /\ CASE ~parsed       -> Exit(-1)
             [] help          -> Exit(0)
             [] name = Unset  -> Exit(-1)
             [] OTHER         -> pc' = "dispatch" /\ UNCHANGED exitCode
  BY DEF main_parse
<1>2. \/ pc' = "exit" /\ exitCode' \in {0, -1}
      \/ pc' = "dispatch" /\ exitCode' = exitCode
  BY <1>1, Zenon DEF Exit
<1> QED
  BY <1>1, <1>2 DEF main_parse

LEMMA RunCases ==
    ASSUME TypeData, DriverInv, run_benchmark
    PROVE  /\ \/ pc' = "exit" /\ exitCode' = -1 /\ cpc' = cpc
              \/ pc' \in {"report", "hung"} /\ exitCode' = exitCode /\ cpc' = cpc
              \/ /\ pc' = "running" /\ exitCode' = exitCode /\ cpc' = "start"
                 /\ scenario \in PoolScenarios \cup ConnectorScenarios
           /\ UNCHANGED <<scenario, timeUp, requests, opened, idle>>
<1>1. CASE scenario \notin Registered
  BY <1>1, Zenon DEF run_benchmark, Exit
<1>2. CASE scenario = "use_connection_pool_mult_threads"
  <2>1. scenario \in Registered
    BY <1>2 DEF Registered
  <2> QED
    BY <1>2, <2>1, Zenon DEF run_benchmark
<1>3. CASE scenario \in Registered /\ scenario # "use_connection_pool_mult_threads"
  <2>1. scenario \in PoolScenarios \cup ConnectorScenarios
    BY <1>3, ScenarioSets
  <2> QED
    BY <1>3, <2>1, Zenon DEF run_benchmark
<1> QED
  BY <1>1, <1>2, <1>3

\* A request in a pool scenario: the pool lends and takes back.
LEMMA PoolRequest ==
    ASSUME coroutine_request, scenario \in PoolScenarios
    PROVE  \E ok \in BOOLEAN :
             /\ opened' = IF idle > 0 THEN opened ELSE opened + 1
             /\ pool_request(ok)
             /\ IF ok THEN cpc' = "step" /\ UNCHANGED <<failed, pc, exitCode>>
                      ELSE spawn_catch
<1>1. PICK ok \in BOOLEAN :
        /\ CASE scenario \in PoolScenarios ->
                  /\ opened' = IF idle > 0 THEN opened ELSE opened + 1
                  /\ pool_request(ok)
             [] scenario \in ConnectorScenarios ->
                  /\ opened' = opened + 1
                  /\ UNCHANGED idle
        /\ IF ok THEN cpc' = "step" /\ UNCHANGED <<failed, pc, exitCode>>
                 ELSE spawn_catch
  BY DEF coroutine_request
<1>2. scenario \notin ConnectorScenarios
  BY ScenarioSets
<1> QED
  BY <1>1, <1>2, Zenon

\* A request in a connector scenario: a fresh connection per request.
LEMMA ConnectorRequest ==
    ASSUME coroutine_request, scenario \in ConnectorScenarios
    PROVE  \E ok \in BOOLEAN :
             /\ opened' = opened + 1
             /\ UNCHANGED idle
             /\ IF ok THEN cpc' = "step" /\ UNCHANGED <<failed, pc, exitCode>>
                      ELSE spawn_catch
<1>1. PICK ok \in BOOLEAN :
        /\ CASE scenario \in PoolScenarios ->
                  /\ opened' = IF idle > 0 THEN opened ELSE opened + 1
                  /\ pool_request(ok)
             [] scenario \in ConnectorScenarios ->
                  /\ opened' = opened + 1
                  /\ UNCHANGED idle
        /\ IF ok THEN cpc' = "step" /\ UNCHANGED <<failed, pc, exitCode>>
                 ELSE spawn_catch
  BY DEF coroutine_request
<1>2. scenario \notin PoolScenarios
  BY ScenarioSets
<1> QED
  BY <1>1, <1>2, Zenon

-----------------------------------------------------------------------------
(* The invariant *)

LEMMA DriverInvInit == Init => TypeData /\ TypeBool /\ DriverInv
<1> SUFFICES ASSUME Init PROVE TypeData /\ TypeBool /\ DriverInv
  OBVIOUS
<1>1. TypeBool
  BY Zenon DEF Init, TypeBool
<1>2. scenario \notin PoolScenarios
  BY DEF Init, Unset, PoolScenarios
<1> QED
  BY <1>1, <1>2 DEF Init, TypeData, DriverInv, PoolCapacity

\* run_benchmark leaves failed Boolean: the multi-thread scenario may set it.
LEMMA RunFailed ==
    ASSUME TypeBool, run_benchmark
    PROVE  failed' \in BOOLEAN /\ UNCHANGED timeUp
<1>1. CASE scenario = "use_connection_pool_mult_threads"
  <2>1. scenario \in Registered
    BY <1>1 DEF Registered
  <2> QED
    BY <1>1, <2>1, Zenon DEF run_benchmark, TypeBool
<1>2. CASE scenario # "use_connection_pool_mult_threads"
  BY <1>2, Zenon DEF run_benchmark, TypeBool
<1> QED
  BY <1>1, <1>2

\* No step gives timeUp or failed a non-Boolean value.
LEMMA BoolStep == TypeBool /\ [Next]_vars => TypeBool'
<1> SUFFICES ASSUME TypeBool, [Next]_vars PROVE TypeBool'
  OBVIOUS
<1>1. CASE coroutine_request
  <2>1. PICK ok \in BOOLEAN :
          IF ok THEN cpc' = "step" /\ UNCHANGED <<failed, pc, exitCode>>
               ELSE spawn_catch
    BY <1>1 DEF coroutine_request
  <2> QED
    BY <1>1, <2>1, Zenon DEF coroutine_request, spawn_catch, TypeBool
<1>2. CASE coroutine_start
  BY <1>2, Zenon DEF coroutine_start, spawn_catch, TypeBool
<1>3. CASE run_benchmark
  BY <1>3, RunFailed DEF TypeBool
<1> QED
  BY <1>1, <1>2, <1>3, ParseCases, Zenon
     DEF Next, TypeBool, time_elapses, coroutine_step,
         io_run_returns, main_report, Terminated, vars

\* The step of the invariant for the other variables.
LEMMA DataStep ==
    TypeData /\ DriverInv /\ [Next]_vars => (TypeData /\ DriverInv)'
<1> SUFFICES ASSUME TypeData, DriverInv, [Next]_vars
             PROVE  (TypeData /\ DriverInv)'
  OBVIOUS
<1>1. CASE main_parse
  <2>1. pc = "parse" /\ cpc = "none" /\ opened = 0 /\ idle = 0 /\ requests = 0
    BY <1>1 DEF main_parse, DriverInv
  <2> QED
    BY <1>1, <2>1, ParseCases DEF TypeData, DriverInv
<1>2. CASE run_benchmark
  <2>1. pc = "dispatch" /\ cpc = "none" /\ opened = 0 /\ idle = 0 /\ requests = 0
    BY <1>2 DEF run_benchmark, DriverInv
  <2> QED
    BY <1>2, <2>1, RunCases DEF TypeData, DriverInv
<1>3. CASE coroutine_start
  <2>0. cpc = "start" /\ opened = 0 /\ idle = 0 /\ requests = 0
        /\ UNCHANGED <<scenario, requests, idle>>
    BY <1>3 DEF coroutine_start, DriverInv
  <2>1. CASE scenario \in ReuseScenarios
    <3>a. scenario \notin PoolScenarios
      BY <2>1, ScenarioSets
    <3>b. /\ opened' = opened + 1
          /\ \/ cpc' = "loop" /\ UNCHANGED <<pc, exitCode>>
             \/ cpc' = "dead" /\ UNCHANGED <<pc, exitCode>>
      BY <1>3, <2>1, Zenon DEF coroutine_start, spawn_catch
    <3> QED
      BY <2>0, <3>a, <3>b DEF TypeData, DriverInv
  <2>2. CASE scenario \notin ReuseScenarios
    <3>b. cpc' = "loop" /\ UNCHANGED <<opened, pc, exitCode>>
      BY <1>3, <2>2, Zenon DEF coroutine_start
    <3> QED
      BY <2>0, <3>b DEF TypeData, DriverInv
  <2> QED
    BY <2>1, <2>2
<1>4. CASE coroutine_request
  <2>0. /\ cpc = "loop" /\ requests < MaxRequests /\ requests' = requests + 1
        /\ UNCHANGED scenario
        /\ scenario \in PoolScenarios \cup ConnectorScenarios
    BY <1>4 DEF coroutine_request, DriverInv
  <2>1. CASE scenario \in PoolScenarios
    <3>a. idle = opened /\ opened <= 1
      BY <2>0, <2>1 DEF DriverInv
    <3>b. PICK ok \in BOOLEAN :
            /\ opened' = IF idle > 0 THEN opened ELSE opened + 1
            /\ pool_request(ok)
            /\ IF ok THEN cpc' = "step" /\ UNCHANGED <<failed, pc, exitCode>>
                     ELSE spawn_catch
      BY <1>4, <2>1, PoolRequest
    <3>c. CASE ok
      <4>1. cpc' = "step" /\ UNCHANGED <<pc, exitCode>>
        BY <3>b, <3>c
      <4>0. idle' = (IF idle > 0 THEN idle - 1 ELSE idle) + 1
        BY <3>b, <3>c, Zenon DEF pool_request
      <4>2. idle' = opened' /\ opened' = 1
        BY <3>a, <3>b, <4>0 DEF TypeData
      <4> QED
        BY <2>0, <2>1, <4>1, <4>2 DEF TypeData, DriverInv, PoolCapacity
    <3>d. CASE ~ok
      <4>1. cpc' = "dead" /\ UNCHANGED <<pc, exitCode>>
        BY <3>b, <3>d DEF spawn_catch
      <4>0. idle' = IF idle > 0 THEN idle - 1 ELSE idle
        BY <3>b, <3>d, Zenon DEF pool_request
      <4>2. idle' <= opened' /\ opened' \in 0..1 /\ idle' \in 0..1
        BY <3>a, <3>b, <4>0 DEF TypeData
      <4>3. TypeData'
        BY <2>0, <4>1, <4>2 DEF TypeData, PoolCapacity
      <4>4. DriverInv'
        BY <2>0, <2>1, <4>1, <4>2 DEF TypeData, DriverInv
      <4> QED
        BY <4>3, <4>4
    <3> QED
      BY <3>c, <3>d
  <2>2. CASE scenario \in ConnectorScenarios
    <3>a. scenario \notin PoolScenarios /\ idle = 0
      BY <2>2, ScenarioSets DEF DriverInv
    <3>b. PICK ok \in BOOLEAN :
            /\ opened' = opened + 1
            /\ UNCHANGED idle
            /\ IF ok THEN cpc' = "step" /\ UNCHANGED <<failed, pc, exitCode>>
                     ELSE spawn_catch
      BY <1>4, <2>2, ConnectorRequest
    <3>c. cpc' \in {"step", "dead"} /\ UNCHANGED <<pc, exitCode>>
      BY <3>b DEF spawn_catch
    <3> QED
      BY <2>0, <3>a, <3>b, <3>c DEF TypeData, DriverInv
  <2> QED
    BY <2>0, <2>1, <2>2
<1>5. CASE coroutine_step
  <2>1. cpc = "step" /\ cpc' \in {"dead", "loop"}
        /\ UNCHANGED <<pc, scenario, requests, opened, idle, exitCode>>
    BY <1>5 DEF coroutine_step
  <2> QED
    BY <2>1 DEF TypeData, DriverInv
<1>6. CASE time_elapses \/ io_run_returns \/ main_report \/ Terminated
           \/ UNCHANGED vars
  BY <1>6 DEF TypeData, DriverInv, time_elapses, io_run_returns, main_report,
              Exit, Terminated, vars
<1> QED
  BY <1>1, <1>2, <1>3, <1>4, <1>5, <1>6 DEF Next

LEMMA DriverInvHolds == Spec => [](TypeOK /\ DriverInv)
<1>1. Init => TypeData /\ TypeBool /\ DriverInv
  BY DriverInvInit
<1>2. TypeData /\ TypeBool /\ DriverInv /\ [Next]_vars
        => (TypeData /\ TypeBool /\ DriverInv)'
  BY BoolStep, DataStep
<1>3. TypeData /\ TypeBool /\ DriverInv => TypeOK /\ DriverInv
  BY TypeSplit
<1> QED
  BY <1>1, <1>2, <1>3, PTL DEF Spec

-----------------------------------------------------------------------------
(* Theorems *)

(***************************************************************************)
(* Every reachable state of the driver is well typed; in particular a     *)
(* scenario opens at most one connection more than the requests it        *)
(* issued, and the pool never holds more than its capacity idle.          *)
(***************************************************************************)
THEOREM TypeCorrect == Spec => []TypeOK
BY DriverInvHolds, PTL

=============================================================================
