---------------------------- MODULE FailoverProofs ----------------------------
(***************************************************************************)
(* Proofs about the failover framework for every set of operations, every  *)
(* set of errors and every number of tries: type correctness, the handler  *)
(* called at most once, errors surfacing only when the strategy gives up,  *)
(* and the refinement of FailoverPromise.                                  *)
(***************************************************************************)
EXTENDS Failover, TLAPS

USE FailoverConstantsAssumption

\* The strategy's next try is a try of the strategy, or the null try.
LEMMA NextTryType ==
    ASSUME NEW t \in 0..NTries, NEW ec
    PROVE  /\ get_next_try(t, ec) \in 0..NTries
           /\ get_next_try(t, ec) # NoTry => /\ get_next_try(t, ec) = t + 1
                                               /\ ec \in Recoverable
                                               /\ t < NTries
BY DEF get_next_try, NoTry

LEMMA InitType == Init => TypeOK
BY DEF Init, TypeOK, NoTry, ConnStates

LEMMA TypeStep == TypeOK /\ [Next]_vars => TypeOK'
<1> SUFFICES ASSUME TypeOK, [Next]_vars PROVE TypeOK'
  OBVIOUS
<1>1. ASSUME NEW o \in Ops, operation_initiator(o) PROVE TypeOK'
  BY <1>1 DEF operation_initiator, initiate_operation, get_first_try, TypeOK, ConnStates
<1>2. ASSUME NEW o \in Ops, operation_completes(o) PROVE TypeOK'
  BY <1>2 DEF operation_completes, TypeOK, ConnStates
<1>3. ASSUME NEW o \in Ops, continuation(o) PROVE TypeOK'
  <2>1. opResult[o] \in Results /\ try[o] \in 0..NTries
    BY <1>3 DEF continuation, TypeOK, ConnStates
  <2>2. CASE opResult[o] # Ok /\ get_next_try(try[o], opResult[o]) # NoTry
    <3>1. get_next_try(try[o], opResult[o]) \in 1..NTries
      BY <2>1, <2>2, NextTryType DEF NoTry
    <3>2. /\ initiate_operation(o, get_next_try(try[o], opResult[o]))
          /\ opConn' = [opConn EXCEPT ![o] = "none"]
          /\ UNCHANGED <<phase, delivered, handlerConn>>
      BY <1>3, <2>2 DEF continuation
    <3> QED
      BY <3>1, <3>2 DEF initiate_operation, TypeOK, ConnStates
  <2>3. CASE ~(opResult[o] # Ok /\ get_next_try(try[o], opResult[o]) # NoTry)
    <3>1. /\ delivered' = [delivered EXCEPT ![o] = Append(@, opResult[o])]
          /\ phase' = [phase EXCEPT ![o] = "done"]
          /\ handlerConn' = [handlerConn EXCEPT ![o] = connAfterNextTry(o)]
          /\ UNCHANGED <<try, opResult, attempts, opConn>>
      BY <1>3, <2>3 DEF continuation
    <3>2. opResult[o] \in Results /\ connAfterNextTry(o) \in ConnStates
      BY <1>3 DEF continuation, TypeOK, ConnStates, connAfterNextTry, get_next_try_impl
    <3> QED
      BY <3>1, <3>2 DEF TypeOK
  <2> QED
    BY <2>2, <2>3
<1>4. CASE Terminated
  BY <1>4 DEF Terminated, vars, TypeOK, ConnStates
<1>5. CASE UNCHANGED vars
  BY <1>5 DEF vars, TypeOK, ConnStates
<1> QED
  BY <1>1, <1>2, <1>3, <1>4, <1>5 DEF Next

(***************************************************************************)
(* Every reachable state of the failover model is well typed, for every    *)
(* set of operations, errors and number of tries.                          *)
(***************************************************************************)
THEOREM TypeCorrect == Spec => []TypeOK
BY InitType, TypeStep, PTL DEF Spec


-----------------------------------------------------------------------------
(***************************************************************************)
(* The inductive invariant.  An operation not yet initiated has no         *)
(* attempts and no result; a running one has one attempt per try up to    *)
(* the try in flight and has not called the handler; a finished one has    *)
(* called it once, with the result the continuation still holds, and gave  *)
(* up on a recoverable error only at the last try.  The tries initiated    *)
(* are 1, 2, ... in order.                                                 *)
(***************************************************************************)
OpInv(o) ==
    /\ phase[o] = "idle" =>
          /\ attempts[o] = <<>>
          /\ delivered[o] = <<>>
          /\ opResult[o] = "none"
    /\ phase[o] = "running" /\ opResult[o] # "none" => opConn[o] = "valid"
    /\ phase[o] = "running" =>
          /\ try[o] \in 1..NTries
          /\ Len(attempts[o]) = try[o]
          /\ delivered[o] = <<>>
    /\ phase[o] = "done" =>
          /\ delivered[o] = <<opResult[o]>>
          /\ opResult[o] \in Results
          /\ Len(attempts[o]) \in 1..NTries
          /\ opResult[o] \in Recoverable => Len(attempts[o]) = NTries
          /\ handlerConn[o] = "valid"
    /\ attempts[o] = [i \in 1..Len(attempts[o]) |-> i]

IInv == TypeOK /\ \A o \in Ops : OpInv(o)


LEMMA IInvInit == Init => IInv
BY DEF Init, IInv, OpInv, TypeOK, NoTry, ConnStates

\* An operation that no step touches keeps its part of the invariant.
LEMMA OpInvFrame ==
    ASSUME NEW o \in Ops, OpInv(o),
           phase'[o] = phase[o], try'[o] = try[o], opResult'[o] = opResult[o],
           attempts'[o] = attempts[o], delivered'[o] = delivered[o],
           opConn'[o] = opConn[o], handlerConn'[o] = handlerConn[o]
    PROVE  OpInv(o)'
BY DEF OpInv

LEMMA IInvStep == IInv /\ [Next]_vars => IInv'
<1> SUFFICES ASSUME IInv, [Next]_vars PROVE IInv'
  OBVIOUS
<1>0. TypeOK /\ TypeOK'
  BY TypeStep DEF IInv
<1>1. ASSUME NEW o0 \in Ops, operation_initiator(o0) PROVE IInv'
  <2> SUFFICES ASSUME NEW o \in Ops PROVE OpInv(o)'
    BY <1>0 DEF IInv
  <2>1. CASE o = o0
    <3>1. /\ phase[o] = "idle" /\ phase'[o] = "running"
          /\ try'[o] = 1 /\ opResult'[o] = "none"
          /\ attempts[o] = <<>> /\ attempts'[o] = <<1>>
          /\ delivered'[o] = <<>>
      <4>1. phase[o] = "idle" /\ attempts[o] = <<>> /\ delivered[o] = <<>>
        BY <1>1, <2>1 DEF IInv, OpInv, operation_initiator
      <4>2. Append(<<>>, 1) = <<1>>
        OBVIOUS
      <4> QED
        BY <1>0, <1>1, <2>1, <4>1, <4>2
           DEF operation_initiator, initiate_operation, get_first_try, TypeOK, ConnStates
    <3> QED
      BY <3>1 DEF OpInv
  <2>2. CASE o # o0
    BY <1>0, <1>1, <2>2, OpInvFrame
       DEF IInv, operation_initiator, initiate_operation, TypeOK, ConnStates
  <2> QED
    BY <2>1, <2>2
<1>2. ASSUME NEW o0 \in Ops, operation_completes(o0) PROVE IInv'
  <2> SUFFICES ASSUME NEW o \in Ops PROVE OpInv(o)'
    BY <1>0 DEF IInv
  <2>1. CASE o = o0
    BY <1>0, <1>2, <2>1 DEF IInv, OpInv, operation_completes, TypeOK, ConnStates
  <2>2. CASE o # o0
    BY <1>0, <1>2, <2>2, OpInvFrame DEF IInv, operation_completes, TypeOK, ConnStates
  <2> QED
    BY <2>1, <2>2
<1>3. ASSUME NEW o0 \in Ops, continuation(o0) PROVE IInv'
  <2> SUFFICES ASSUME NEW o \in Ops PROVE OpInv(o)'
    BY <1>0 DEF IInv
  <2>0. /\ phase[o0] = "running" /\ opResult[o0] # "none"
        /\ opResult[o0] \in Results /\ try[o0] \in 1..NTries
        /\ Len(attempts[o0]) = try[o0] /\ delivered[o0] = <<>>
        /\ attempts[o0] = [i \in 1..Len(attempts[o0]) |-> i]
        /\ connAfterNextTry(o0) = "valid"
    BY <1>0, <1>3 DEF IInv, OpInv, continuation, TypeOK, ConnStates,
                      connAfterNextTry, get_next_try_impl
  <2>1. CASE opResult[o0] # Ok /\ get_next_try(try[o0], opResult[o0]) # NoTry
    <3>1. /\ get_next_try(try[o0], opResult[o0]) = try[o0] + 1
          /\ try[o0] < NTries
      BY <2>0, <2>1, NextTryType
    <3>2. /\ initiate_operation(o0, try[o0] + 1)
          /\ opConn' = [opConn EXCEPT ![o0] = "none"]
          /\ UNCHANGED <<phase, delivered, handlerConn>>
      BY <1>3, <2>1, <3>1 DEF continuation
    <3>3. CASE o = o0
      BY <1>0, <2>0, <3>1, <3>2, <3>3 DEF OpInv, initiate_operation, TypeOK, ConnStates
    <3>4. CASE o # o0
      BY <1>0, <3>2, <3>4, OpInvFrame DEF IInv, initiate_operation, TypeOK, ConnStates
    <3> QED
      BY <3>3, <3>4
  <2>2. CASE ~(opResult[o0] # Ok /\ get_next_try(try[o0], opResult[o0]) # NoTry)
    <3>1. /\ delivered' = [delivered EXCEPT ![o0] = Append(@, opResult[o0])]
          /\ phase' = [phase EXCEPT ![o0] = "done"]
          /\ handlerConn' = [handlerConn EXCEPT ![o0] = connAfterNextTry(o0)]
          /\ UNCHANGED <<try, opResult, attempts, opConn>>
      BY <1>3, <2>2 DEF continuation
    <3>2. opResult[o0] \in Recoverable => try[o0] = NTries
      <4>1. opResult[o0] \in Recoverable => opResult[o0] # Ok
        BY DEF Ok
      <4>2. opResult[o0] \in Recoverable => ~(try[o0] < NTries)
        BY <2>0, <2>2, <4>1 DEF get_next_try, NoTry
      <4> QED
        BY <2>0, <4>2
    <3>3. CASE o = o0
      BY <1>0, <2>0, <3>1, <3>2, <3>3 DEF OpInv, TypeOK, ConnStates
    <3>4. CASE o # o0
      BY <1>0, <3>1, <3>4, OpInvFrame DEF IInv, TypeOK, ConnStates
    <3> QED
      BY <3>3, <3>4
  <2> QED
    BY <2>1, <2>2
<1>4. CASE Terminated \/ UNCHANGED vars
  BY <1>4 DEF Terminated, vars, IInv, OpInv, TypeOK, ConnStates
<1> QED
  BY <1>1, <1>2, <1>3, <1>4 DEF Next

LEMMA IInvHolds == Spec => []IInv
BY IInvInit, IInvStep, PTL DEF Spec

LEMMA IInvImpliesProperties == IInv => HandlerAtMostOnce /\ ErrorOnlyWhenExhausted
<1> SUFFICES ASSUME IInv, NEW o \in Ops
             PROVE  /\ Len(delivered[o]) <= 1
                    /\ delivered[o] # <<>> /\ delivered[o][1] # Ok =>
                          delivered[o][1] \notin Recoverable \/ Len(attempts[o]) = NTries
                    /\ attempts[o] = [i \in 1..Len(attempts[o]) |-> i]
  BY DEF HandlerAtMostOnce, ErrorOnlyWhenExhausted
<1>1. OpInv(o) /\ phase[o] \in {"idle", "running", "done"}
  BY DEF IInv, TypeOK, ConnStates
<1>2. CASE phase[o] = "done"
  <2>1. delivered[o] = <<opResult[o]>> /\ Len(attempts[o]) \in 1..NTries
        /\ (opResult[o] \in Recoverable => Len(attempts[o]) = NTries)
        /\ attempts[o] = [i \in 1..Len(attempts[o]) |-> i]
    BY <1>1, <1>2 DEF OpInv
  <2> QED
    BY <2>1
<1>3. CASE phase[o] # "done"
  <2>1. delivered[o] = <<>>
    BY <1>1, <1>3 DEF OpInv
  <2> QED
    BY <1>1, <2>1 DEF OpInv
<1> QED
  BY <1>2, <1>3

(***************************************************************************)
(* The continuation calls the user's handler at most once, and an error   *)
(* reaches the handler only when the strategy gives up on it; the tries   *)
(* are initiated in order, once each.  For every set of operations and    *)
(* errors and every number of tries.                                      *)
(***************************************************************************)
THEOREM AtMostOnce == Spec => []HandlerAtMostOnce
BY IInvHolds, IInvImpliesProperties, PTL

THEOREM ErrorsOnlyWhenExhausted == Spec => []ErrorOnlyWhenExhausted
BY IInvHolds, IInvImpliesProperties, PTL

-----------------------------------------------------------------------------
(* The refinement of FailoverPromise. *)

LEMMA PromiseInit == Init => Promise!Init
BY DEF Init, Promise!Init, promiseResult

LEMMA PromiseStep == IInv /\ [Next]_vars => [Promise!Next]_Promise!vars
<1> SUFFICES ASSUME IInv, [Next]_vars PROVE [Promise!Next]_Promise!vars
  OBVIOUS
<1>0. TypeOK /\ TypeOK' /\ IInv'
  BY TypeStep, IInvStep DEF IInv
<1>1. ASSUME NEW o \in Ops, operation_initiator(o) PROVE Promise!Start(o)
  <2>1. phase[o] = "idle" /\ attempts[o] = <<>> /\ opResult[o] = "none"
    BY <1>1 DEF IInv, OpInv, operation_initiator
  <2>2. opResult' = opResult
    BY <1>0, <1>1, <2>1 DEF operation_initiator, initiate_operation, TypeOK, ConnStates
  <2>3. [o2 \in Ops |-> Len(attempts'[o2])]
          = [[o2 \in Ops |-> Len(attempts[o2])] EXCEPT ![o] = 1]
    <3>1. attempts' = [attempts EXCEPT ![o] = Append(attempts[o], 1)]
      BY <1>1 DEF operation_initiator, initiate_operation, get_first_try
    <3>2. \A o2 \in Ops : Len(attempts'[o2]) = IF o2 = o THEN 1 ELSE Len(attempts[o2])
      BY <1>0, <2>1, <3>1 DEF TypeOK, ConnStates
    <3> QED
      BY <3>2
  <2>4. promiseResult' = promiseResult
    BY <1>1 DEF operation_initiator, promiseResult
  <2> QED
    BY <1>1, <2>1, <2>2, <2>3, <2>4 DEF Promise!Start, operation_initiator
<1>2. ASSUME NEW o \in Ops, operation_completes(o) PROVE Promise!Attempt(o)
  BY <1>2 DEF operation_completes, Promise!Attempt, Promise!Results, Results,
             Promise!Ok, Ok, promiseResult
<1>3. ASSUME NEW o \in Ops, continuation(o)
      PROVE  Promise!Retry(o) \/ Promise!Complete(o)
  <2>0. /\ phase[o] = "running" /\ opResult[o] # "none"
        /\ opResult[o] \in Results /\ try[o] \in 1..NTries
        /\ Len(attempts[o]) = try[o] /\ delivered[o] = <<>>
    BY <1>0, <1>3 DEF IInv, OpInv, continuation, TypeOK, ConnStates
  <2>1. CASE opResult[o] # Ok /\ get_next_try(try[o], opResult[o]) # NoTry
    <3>1. /\ get_next_try(try[o], opResult[o]) = try[o] + 1
          /\ try[o] < NTries /\ opResult[o] \in Recoverable
      BY <2>0, <2>1, NextTryType
    <3>2. /\ initiate_operation(o, try[o] + 1)
          /\ opConn' = [opConn EXCEPT ![o] = "none"]
          /\ UNCHANGED <<phase, delivered, handlerConn>>
      BY <1>3, <2>1, <3>1 DEF continuation
    <3>3. [o2 \in Ops |-> Len(attempts'[o2])]
            = [[o2 \in Ops |-> Len(attempts[o2])] EXCEPT ![o] = @ + 1]
      <4>1. attempts' = [attempts EXCEPT ![o] = Append(attempts[o], try[o] + 1)]
        BY <3>2 DEF initiate_operation
      <4>2. \A o2 \in Ops : Len(attempts'[o2])
                              = IF o2 = o THEN Len(attempts[o2]) + 1 ELSE Len(attempts[o2])
        BY <1>0, <4>1 DEF TypeOK, ConnStates
      <4> QED
        BY <4>2
    <3>4. promiseResult' = promiseResult
      BY <3>2 DEF promiseResult
    <3> QED
      BY <2>0, <3>1, <3>2, <3>3, <3>4 DEF Promise!Retry, initiate_operation
  <2>2. CASE ~(opResult[o] # Ok /\ get_next_try(try[o], opResult[o]) # NoTry)
    <3>1. /\ delivered' = [delivered EXCEPT ![o] = Append(@, opResult[o])]
          /\ phase' = [phase EXCEPT ![o] = "done"]
          /\ handlerConn' = [handlerConn EXCEPT ![o] = connAfterNextTry(o)]
          /\ UNCHANGED <<try, opResult, attempts, opConn>>
      BY <1>3, <2>2 DEF continuation
    <3>2. opResult[o] \in Recoverable => Len(attempts[o]) = NTries
      <4>1. opResult[o] \in Recoverable => opResult[o] # Ok
        BY DEF Ok
      <4>2. opResult[o] \in Recoverable => ~(try[o] < NTries)
        BY <2>0, <2>2, <4>1 DEF get_next_try, NoTry
      <4> QED
        BY <2>0, <4>2
    <3>3. promiseResult' = [promiseResult EXCEPT ![o] = opResult[o]]
      <4>1. delivered'[o] = <<opResult[o]>>
        BY <1>0, <2>0, <3>1 DEF TypeOK, ConnStates
      <4>2. \A o2 \in Ops \ {o} : delivered'[o2] = delivered[o2]
        BY <1>0, <3>1 DEF TypeOK, ConnStates
      <4>3. \A o2 \in Ops : promiseResult'[o2]
                = IF o2 = o THEN opResult[o] ELSE promiseResult[o2]
        BY <4>1, <4>2 DEF promiseResult
      <4> QED
        BY <4>3 DEF promiseResult
    <3> QED
      BY <2>0, <3>1, <3>2, <3>3 DEF Promise!Complete
  <2> QED
    BY <2>1, <2>2
<1>4. CASE Terminated \/ UNCHANGED vars
  BY <1>4 DEF Terminated, vars, Promise!vars, promiseResult
<1> QED
  BY <1>1, <1>2, <1>3, <1>4 DEF Next, Promise!Next

(***************************************************************************)
(* operation_initiator and continuation implement FailoverPromise under    *)
(* the refinement mapping of Failover: for every instance, every step is   *)
(* a start, an attempt, a retry after a recoverable error with tries left, *)
(* a completion delivering the last result, or a stutter of the promise.   *)
(***************************************************************************)
THEOREM Implementation == Spec => ImplementsPromise
BY IInvHolds, PromiseInit, PromiseStep, PTL DEF Spec, ImplementsPromise, Promise!Spec

=============================================================================
