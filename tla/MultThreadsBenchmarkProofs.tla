---------------------- MODULE MultThreadsBenchmarkProofs ----------------------
(***************************************************************************)
(* Proofs about the use_connection_pool_mult_threads scenario, for every   *)
(* number of threads and of coroutines per thread.                         *)
(*                                                                         *)
(* Main decides it may stop waiting from the counter finished_coroutines   *)
(* alone.  That this is sound rests on a counting argument: the counter    *)
(* is exactly the number of coroutines that have left their request loop, *)
(* so when it reaches threads_number * coroutines every coroutine has.     *)
(***************************************************************************)
EXTENDS MultThreadsBenchmark, FiniteSetTheorems, TLAPS

USE BenchmarkConstantsAssumption

\* The coroutines that have left their loop and incremented the counter.
Broken == {c \in Coroutines : cpc[c] \in {"notify", "done"}}

(***************************************************************************)
(* The inductive invariant.  Besides the type, it says that the atomic     *)
(* counter counts Broken, that the coroutines of a context main has not    *)
(* created yet have not started (so main_spawn never resets a coroutine    *)
(* that already counted), and what main knows in its late phases.          *)
(***************************************************************************)
CountInv ==
    /\ finished = Cardinality(Broken)
    /\ \A c \in Coroutines : c[1] > spawned => cpc[c] = "unspawned"
    /\ mainPc \in {"reset", "join", "done"} => finished = Total
    /\ mainPc = "done" => \A c \in Coroutines : cpc[c] = "done"

\* TypeOK without its Boolean-valued variables, and those variables.
TypeData ==
    /\ cpc \in [Coroutines -> {"unspawned", "request", "ready", "notify", "done"}]
    /\ finished \in 0..Total
    /\ spawned \in 0..NThreads
    /\ mainPc \in {"spawn", "check", "waiting", "blocked", "reset", "join",
                   "done"}

TypeBool ==
    /\ failed \in [Coroutines -> BOOLEAN]
    /\ timeUp \in BOOLEAN
    /\ guardsReset \in BOOLEAN

-----------------------------------------------------------------------------
(* Counting the coroutines *)

\* There are threads_number * coroutines coroutines.
LEMMA CoroutinesCount ==
    IsFiniteSet(Coroutines) /\ Cardinality(Coroutines) = Total
<1>1. IsFiniteSet(1..NThreads) /\ Cardinality(1..NThreads) = NThreads
  BY FS_Interval
<1>2. IsFiniteSet(1..NCoroutines) /\ Cardinality(1..NCoroutines) = NCoroutines
  BY FS_Interval
<1>3. /\ IsFiniteSet((1..NThreads) \X (1..NCoroutines))
      /\ Cardinality((1..NThreads) \X (1..NCoroutines))
           = Cardinality(1..NThreads) * Cardinality(1..NCoroutines)
  BY <1>1, <1>2, FS_Product
<1> QED
  BY <1>1, <1>2, <1>3 DEF Coroutines, Total

\* Broken is a finite subset of the coroutines; it is all of them exactly
\* when it has Total elements.
LEMMA BrokenCount ==
    /\ IsFiniteSet(Broken)
    /\ Cardinality(Broken) \in 0..Total
    /\ Cardinality(Broken) = Total => Broken = Coroutines
<1>1. Broken \in SUBSET Coroutines
  BY DEF Broken
<1>2. IsFiniteSet(Broken) /\ Cardinality(Broken) <= Total
      /\ (Total = Cardinality(Broken) => Coroutines = Broken)
  BY <1>1, CoroutinesCount, FS_Subset
<1>3. Cardinality(Broken) \in Nat
  BY <1>2, FS_CardinalityType
<1> QED
  BY <1>2, <1>3


\* A step that moves no coroutine into or out of notify/done keeps Broken.
LEMMA BrokenSame ==
    ASSUME \A d \in Coroutines : cpc'[d] \in {"notify", "done"}
                                     <=> cpc[d] \in {"notify", "done"}
    PROVE  Broken' = Broken
BY DEF Broken

\* A step that leaves cpc alone keeps Broken.
LEMMA BrokenUnchanged ==
    ASSUME cpc' = cpc PROVE Broken' = Broken
BY DEF Broken

\* A step that moves one coroutine into notify and no other adds it.
LEMMA BrokenAdd ==
    ASSUME NEW c \in Coroutines, cpc[c] \notin {"notify", "done"},
           cpc'[c] = "notify",
           \A d \in Coroutines \ {c} : cpc'[d] = cpc[d]
    PROVE  Broken' = Broken \cup {c} /\ c \notin Broken
BY DEF Broken


-----------------------------------------------------------------------------
(* The invariant *)

LEMMA TypeSplit == TypeOK <=> TypeData /\ TypeBool
BY Zenon DEF TypeOK, TypeData, TypeBool

LEMMA BenchInvInit == Init => TypeData /\ TypeBool /\ CountInv
<1> SUFFICES ASSUME Init PROVE TypeData /\ TypeBool /\ CountInv
  OBVIOUS
<1>1. Broken = {}
  BY DEF Init, Broken
<1>2. Cardinality(Broken) = 0
  BY <1>1, FS_EmptySet
<1>3. TypeBool
  BY Zenon DEF Init, TypeBool
<1>4. TypeData
  BY DEF Init, TypeData, Total
<1> QED
  BY <1>2, <1>3, <1>4 DEF Init, CountInv

\* No step gives failed, timeUp or guardsReset a non-Boolean value.
LEMMA BoolStep == TypeBool /\ [Next]_vars => TypeBool'
<1> SUFFICES ASSUME TypeBool, [Next]_vars PROVE TypeBool'
  OBVIOUS
<1>1. ASSUME NEW c \in Coroutines, request_completes(c) PROVE TypeBool'
  <2>1. PICK f \in BOOLEAN : failed' = [failed EXCEPT ![c] = f]
    BY <1>1, Zenon DEF request_completes
  <2> QED
    BY <1>1, <2>1, Zenon DEF request_completes, TypeBool
<1> QED
  BY <1>1, Zenon DEF Next, TypeBool, main_spawn, main_spawn_done, main_check,
     main_block, main_spurious_wakeup, main_reset_guards, main_join,
     time_elapses, coroutine_resume, coroutine_notify, Terminated, vars

\* The step of the invariant for the data variables.
LEMMA DataStep == TypeData /\ CountInv /\ [Next]_vars => TypeData' /\ CountInv'
<1> SUFFICES ASSUME TypeData, CountInv, [Next]_vars PROVE TypeData' /\ CountInv'
  OBVIOUS
<1>0. /\ finished = Cardinality(Broken)
      /\ Cardinality(Broken) \in 0..Total
      /\ Cardinality(Broken) = Total => Broken = Coroutines
      /\ Total \in Nat
  BY BrokenCount DEF CountInv, Total
<1>1. CASE main_spawn
  <2>1. \A c \in Coroutines : c[1] = spawned + 1 => cpc[c] = "unspawned"
    BY <1>1 DEF CountInv, TypeData, main_spawn
  <2>2. Broken' = Broken
    BY <1>1, <2>1, BrokenSame DEF main_spawn, TypeData
  <2>3. TypeData'
    BY <1>1 DEF TypeData, main_spawn
  <2>4. \A c \in Coroutines : c[1] > spawned' => cpc'[c] = "unspawned"
    BY <1>1 DEF CountInv, TypeData, Coroutines, main_spawn
  <2>5. finished' = Cardinality(Broken') /\ mainPc' = "spawn"
    BY <1>0, <1>1, <2>2 DEF main_spawn
  <2> QED
    BY <2>3, <2>4, <2>5 DEF CountInv
<1>2. CASE main_spawn_done
  <2>1. Broken' = Broken
    BY <1>2, BrokenUnchanged DEF main_spawn_done
  <2> QED
    BY <1>0, <1>2, <2>1 DEF CountInv, TypeData, main_spawn_done
<1>3. CASE main_check
  <2>1. Broken' = Broken
    BY <1>3, BrokenUnchanged DEF main_check
  <2> QED
    BY <1>0, <1>3, <2>1 DEF CountInv, TypeData, main_check
<1>4. CASE main_block \/ main_spurious_wakeup \/ main_reset_guards \/ main_join
  <2>1. Broken' = Broken
    BY <1>4, BrokenUnchanged DEF main_block, main_spurious_wakeup,
                                 main_reset_guards, main_join
  <2> QED
    BY <1>4, <2>1 DEF CountInv, TypeData, main_block, main_spurious_wakeup,
                      main_reset_guards, main_join
<1>5. CASE time_elapses \/ Terminated \/ UNCHANGED vars
  <2>1. Broken' = Broken
    BY <1>5, BrokenUnchanged DEF time_elapses, Terminated, vars
  <2> QED
    BY <1>5, <2>1 DEF CountInv, TypeData, time_elapses, Terminated, vars
<1>6. ASSUME NEW c \in Coroutines, request_completes(c) PROVE TypeData' /\ CountInv'
  <2>1. Broken' = Broken
    BY <1>6, BrokenSame DEF request_completes, TypeData
  <2>2. cpc[c] # "unspawned" /\ mainPc # "done"
    BY <1>6 DEF request_completes, CountInv
  <2> QED
    BY <1>6, <2>1, <2>2 DEF CountInv, TypeData, request_completes
<1>7. ASSUME NEW c \in Coroutines, coroutine_resume(c) PROVE TypeData' /\ CountInv'
  <2>0. cpc[c] = "ready" /\ c \notin Broken /\ cpc[c] # "unspawned"
    BY <1>7 DEF coroutine_resume, Broken
  <2>1. mainPc \notin {"reset", "join", "done"}
    BY <1>0, <2>0 DEF CountInv
  <2>2. CASE cpc' = [cpc EXCEPT ![c] = "notify"] /\ finished' = finished + 1
    <3>1. Broken' = Broken \cup {c}
      BY <2>0, <2>2, BrokenAdd DEF TypeData
    <3>2. Cardinality(Broken') = Cardinality(Broken) + 1
      BY <2>0, <3>1, BrokenCount, FS_AddElement
    <3>3. Cardinality(Broken) # Total
      BY <1>0, <2>0
    <3>4. UNCHANGED <<spawned, mainPc>>
      BY <1>7 DEF coroutine_resume
    <3> QED
      BY <1>0, <2>0, <2>1, <2>2, <3>2, <3>3, <3>4 DEF CountInv, TypeData
  <2>3. CASE cpc' = [cpc EXCEPT ![c] = "request"] /\ finished' = finished
    <3>1. Broken' = Broken
      BY <2>0, <2>3, BrokenSame DEF TypeData
    <3>2. UNCHANGED <<spawned, mainPc>>
      BY <1>7 DEF coroutine_resume
    <3> QED
      BY <1>0, <2>0, <2>1, <2>3, <3>1, <3>2 DEF CountInv, TypeData
  <2> QED
    BY <1>7, <2>2, <2>3, Zenon DEF coroutine_resume
<1>8. ASSUME NEW c \in Coroutines, coroutine_notify(c) PROVE TypeData' /\ CountInv'
  <2>1. Broken' = Broken
    BY <1>8, BrokenSame DEF coroutine_notify, TypeData
  <2>2. cpc[c] = "notify" /\ mainPc # "done"
    BY <1>8 DEF coroutine_notify, CountInv
  <2> QED
    BY <1>8, <2>1, <2>2 DEF CountInv, TypeData, coroutine_notify
<1> QED
  BY <1>1, <1>2, <1>3, <1>4, <1>5, <1>6, <1>7, <1>8 DEF Next

LEMMA BenchInvHolds == Spec => [](TypeOK /\ CountInv)
<1>1. Init => TypeData /\ TypeBool /\ CountInv
  BY BenchInvInit
<1>2. TypeData /\ TypeBool /\ CountInv /\ [Next]_vars
        => (TypeData /\ TypeBool /\ CountInv)'
  BY BoolStep, DataStep
<1>3. TypeData /\ TypeBool /\ CountInv => TypeOK /\ CountInv
  BY TypeSplit
<1> QED
  BY <1>1, <1>2, <1>3, PTL DEF Spec

-----------------------------------------------------------------------------
(* Theorems *)

(***************************************************************************)
(* Every reachable state of the scenario is well typed; in particular      *)
(* finished_coroutines never exceeds threads_number * coroutines and       *)
(* main creates no more contexts than threads_number.                      *)
(***************************************************************************)
THEOREM TypeCorrect == Spec => []TypeOK
BY BenchInvHolds, PTL

\* What the counter tells main: the late phases see every coroutine broken.
LEMMA CountInvImpliesProperties ==
    TypeOK /\ CountInv => WaitEndsWhenAllFinished /\ ReportAfterAllStopped
<1> SUFFICES ASSUME TypeOK, CountInv PROVE WaitEndsWhenAllFinished /\ ReportAfterAllStopped
  OBVIOUS
<1>1. mainPc \in {"reset", "join", "done"} => Broken = Coroutines
  BY BrokenCount DEF CountInv
<1>2. mainPc \in {"reset", "join", "done"}
        => \A c \in Coroutines : cpc[c] \in {"notify", "done"}
  BY <1>1 DEF Broken
<1> QED
  BY <1>2 DEF CountInv, WaitEndsWhenAllFinished, ReportAfterAllStopped

(***************************************************************************)
(* For every number of threads and coroutines, main leaves                 *)
(* coroutine_finished.wait only when every coroutine has incremented       *)
(* finished_coroutines, although the coroutines notify without the mutex   *)
(* and a spurious wakeup may re-evaluate the predicate at any time.        *)
(***************************************************************************)
THEOREM WaitEnds == Spec => []WaitEndsWhenAllFinished
BY BenchInvHolds, CountInvImpliesProperties, PTL

(***************************************************************************)
(* For every number of threads and coroutines, main reads the report only  *)
(* after every coroutine has returned, and finished_coroutines is then     *)
(* exactly threads_number * coroutines.                                    *)
(***************************************************************************)
THEOREM ReportAfterStop == Spec => []ReportAfterAllStopped
BY BenchInvHolds, CountInvImpliesProperties, PTL

=============================================================================
