-------------------------- MODULE AsyncConnectProofs --------------------------
(***************************************************************************)
(* Proofs about async_connect for every bound on the socket waits and      *)
(* every set of time constraints: type correctness, the user handler       *)
(* called at most once, and the refinement of ConnectPromise.              *)
(***************************************************************************)
EXTENDS AsyncConnect, TLAPS

USE ConnectConstantsAssumption

\* The type invariant split into the data the SMT solver handles and the
\* Boolean-valued variables Zenon handles.
TypeData ==
    /\ pc \in {"idle", "running", "finished"}
    /\ tc \in {"none", "duration"}
    /\ wait \in {"none", "read", "write", "oid"}
    /\ waitDone \in {"no", "ok", "operation_aborted", "bad_descriptor",
                     "oid_request_failed"}
    /\ polls \in 0..MaxPolls
    /\ timer \in {"idle", "armed", "expired", "cancelled", "fired"}
    /\ errCtx \in {"none", "polling"}
    /\ pending \in Seq(ErrorCodes)
    /\ delivered \in Seq(ErrorCodes)

TypeBool == sockOpen \in BOOLEAN /\ OidMapEmpty \in BOOLEAN

LEMMA TypeSplit == TypeOK <=> TypeData /\ TypeBool
BY Zenon DEF TypeOK, TypeData, TypeBool

\* The initial state is well typed.
LEMMA InitType == Init => TypeOK
<1> SUFFICES ASSUME Init PROVE TypeData /\ TypeBool
  BY TypeSplit
<1>1. TypeData
  BY DEF Init, TypeData
<1>2. TypeBool
  BY Zenon DEF Init, TypeBool
<1> QED
  BY <1>1, <1>2

\* done with an error skips the OID map request and completes the chain.
LEMMA DoneError ==
    ASSUME NEW ec, ec # "ok", done(ec)
    PROVE  /\ complete(ec)
           /\ wait' = "none"
           /\ UNCHANGED <<waitDone, polls>>
BY Zenon DEF done

\* The early exits of perform, each a done with an error.
PerformErrors == {"start_failed", "pq_connection_status_bad", "assign_failed"}

\* perform either ends the operation at once through done, or starts it.
LEMMA PerformCases ==
    ASSUME NEW t, perform(t)
    PROVE  \/ \E ec \in PerformErrors :
                 /\ complete(ec) /\ wait' = "none"
                 /\ UNCHANGED <<waitDone, polls, sockOpen>>
           \/ /\ pc' = "running"
              /\ sockOpen' = TRUE
              /\ timer' = IF t = "duration" THEN "armed" ELSE "idle"
              /\ wait' = "write"
              /\ waitDone' = "no"
              /\ polls' = 1
              /\ UNCHANGED pending
<1>1. CASE \E ec \in PerformErrors : done(ec) /\ UNCHANGED sockOpen
  <2> PICK ec \in PerformErrors : done(ec) /\ UNCHANGED sockOpen
    BY <1>1
  <2>1. ec # "ok"
    BY DEF PerformErrors
  <2> QED
    BY <2>1, DoneError
<1> QED
  BY <1>1, Zenon DEF perform, PerformErrors

\* No step changes a Boolean-valued variable to something else.
LEMMA BoolStep == TypeBool /\ [Next]_vars => TypeBool'
<1> SUFFICES ASSUME TypeBool, [Next]_vars PROVE TypeBool'
  OBVIOUS
<1>1. sockOpen' \in BOOLEAN
  <2>1. sockOpen' = sockOpen \/ sockOpen' = TRUE \/ sockOpen' = FALSE
    BY Zenon DEF Next, async_connect, perform, io_ready, oid_request_completes,
                 timer_expires, timeout_handler, connect_poll_error, connect_poll_step,
                 oid_map_step, user_callback, Terminated, vars
  <2> QED
    BY <2>1, Zenon DEF TypeBool
<1>2. OidMapEmpty' = OidMapEmpty
  BY Zenon DEF Next, async_connect, io_ready, oid_request_completes,
               timer_expires, timeout_handler, connect_poll_error, connect_poll_step,
               oid_map_step, user_callback, Terminated, vars
<1> QED
  BY <1>1, <1>2, Zenon DEF TypeBool

\* Every step keeps the data within its types.
LEMMA DataStep == TypeData /\ [Next]_vars => TypeData'
<1> SUFFICES ASSUME TypeData, [Next]_vars PROVE TypeData'
  OBVIOUS
<1>1. ASSUME NEW t \in TimeConstraints, async_connect(t) PROVE TypeData'
  <2>0. pc = "idle" /\ tc' = t /\ perform(t) /\ UNCHANGED <<errCtx, delivered>>
    BY <1>1 DEF async_connect
  <2>1. t \in {"none", "duration"}
    OBVIOUS
  <2>2. CASE \E ec \in PerformErrors :
                 /\ complete(ec) /\ wait' = "none"
                 /\ UNCHANGED <<waitDone, polls, sockOpen>>
    <3> PICK ec \in PerformErrors :
               /\ complete(ec) /\ wait' = "none"
               /\ UNCHANGED <<waitDone, polls, sockOpen>>
      BY <2>2
    <3> QED
      BY <2>0, <2>1 DEF complete, CancelTimer, TypeData, ErrorCodes, PerformErrors
  <2>3. CASE /\ pc' = "running"
             /\ sockOpen' = TRUE
             /\ timer' = IF t = "duration" THEN "armed" ELSE "idle"
             /\ wait' = "write"
             /\ waitDone' = "no"
             /\ polls' = 1
             /\ UNCHANGED pending
    BY <2>0, <2>1, <2>3 DEF TypeData
  <2> QED
    BY <2>0, <2>2, <2>3, PerformCases
<1>2. CASE io_ready \/ oid_request_completes \/ timer_expires \/ timeout_handler
  BY <1>2 DEF io_ready, oid_request_completes, timer_expires, timeout_handler, TypeData
<1>3. CASE connect_poll_error
  BY <1>3 DEF connect_poll_error, complete, CancelTimer, TypeData, ErrorCodes
<1>4. CASE connect_poll_step
  <2> PICK r \in PollResults :
        CASE r = "PGRES_POLLING_OK" -> done("ok")
          [] r \in {"PGRES_POLLING_WRITING", "PGRES_POLLING_READING"} ->
               /\ polls < MaxPolls
               /\ register(IF r = "PGRES_POLLING_WRITING" THEN "write" ELSE "read")
               /\ UNCHANGED <<pc, timer, pending>>
          [] OTHER ->
               /\ wait' = "none"
               /\ complete("pq_connect_poll_failed")
               /\ UNCHANGED <<waitDone, polls>>
    BY <1>4 DEF connect_poll_step
  <2>0. UNCHANGED <<tc, errCtx, delivered>>
    BY <1>4 DEF connect_poll_step
  <2>1. CASE r = "PGRES_POLLING_OK"
    <3>1. done("ok")
      BY <2>1, Zenon
    <3>2. CASE OidMapEmpty
      <4>1. complete("ok") /\ wait' = "none" /\ UNCHANGED <<waitDone, polls>>
        BY <3>1, <3>2, Zenon DEF done
      <4> QED
        BY <2>0, <4>1 DEF complete, CancelTimer, TypeData, ErrorCodes
    <3>3. CASE ~OidMapEmpty
      <4>1. /\ wait' = "oid"
            /\ waitDone' \in {"no", "bad_descriptor"}
            /\ UNCHANGED <<pc, timer, pending, polls>>
        BY <3>1, <3>3, Zenon DEF done
      <4> QED
        BY <2>0, <4>1 DEF TypeData
    <3> QED
      BY <3>2, <3>3
  <2>2. CASE r \in {"PGRES_POLLING_WRITING", "PGRES_POLLING_READING"}
    BY <2>0, <2>2 DEF register, TypeData
  <2>3. CASE r \notin {"PGRES_POLLING_OK", "PGRES_POLLING_WRITING", "PGRES_POLLING_READING"}
    <3>1. /\ wait' = "none"
          /\ complete("pq_connect_poll_failed")
          /\ UNCHANGED <<waitDone, polls>>
      BY <2>3, Zenon
    <3> QED
      BY <2>0, <3>1 DEF complete, CancelTimer, TypeData, ErrorCodes
  <2> QED
    BY <2>1, <2>2, <2>3
<1>5. CASE oid_map_step
  BY <1>5 DEF oid_map_step, complete, CancelTimer, TypeData, ErrorCodes
<1>6. CASE user_callback
  BY <1>6 DEF user_callback, TypeData
<1>7. CASE Terminated \/ UNCHANGED vars
  BY <1>7 DEF Terminated, vars, TypeData
<1> QED
  BY <1>1, <1>2, <1>3, <1>4, <1>5, <1>6, <1>7 DEF Next

LEMMA TypeStep == TypeOK /\ [Next]_vars => TypeOK'
BY BoolStep, DataStep, Zenon DEF TypeOK, TypeData, TypeBool

(***************************************************************************)
(* Every reachable state of the connect model is well typed, for every     *)
(* bound on the socket waits.                                              *)
(***************************************************************************)
THEOREM TypeCorrect == Spec => []TypeOK
BY InitType, TypeStep, PTL DEF Spec

-----------------------------------------------------------------------------
(***************************************************************************)
(* HandlerAtMostOnce is not inductive by itself: the invariant has to say  *)
(* that only a running operation can reach complete, and that a finished   *)
(* one has no socket wait left whose completion could call done again.   *)
(* An operation not started has nothing posted and no timer armed; a       *)
(* running one has nothing posted; a finished one has posted exactly one   *)
(* result, has no wait and no armed timer.                                 *)
(***************************************************************************)
ConnectInv ==
    /\ TypeOK
    /\ pc = "idle" => /\ pending = <<>> /\ delivered = <<>>
                      /\ wait = "none" /\ timer = "idle"
    /\ pc = "running" => pending = <<>> /\ delivered = <<>>
    /\ pc = "finished" => /\ Len(pending) + Len(delivered) = 1
                          /\ wait = "none"
                          /\ timer # "armed"

\* The end of the handler chain, reached from an operation that has posted
\* nothing yet, leaves it finished with one result posted and its timer
\* not armed.
LEMMA CompleteOnce ==
    ASSUME NEW ec, pending = <<>>, delivered = <<>>,
           complete(ec), wait' = "none", UNCHANGED delivered
    PROVE  /\ pc' = "finished"
           /\ Len(pending') + Len(delivered') = 1
           /\ wait' = "none"
           /\ timer' # "armed"
BY DEF complete, CancelTimer

\* A socket wait or an OID request is outstanding only while the operation runs.
LEMMA WaitMeansRunning == ConnectInv /\ wait # "none" => pc = "running"
BY DEF ConnectInv, TypeOK

LEMMA ConnectInvInit == Init => ConnectInv
BY InitType DEF Init, ConnectInv

LEMMA ConnectInvStep == ConnectInv /\ [Next]_vars => ConnectInv'
<1> SUFFICES ASSUME ConnectInv, [Next]_vars PROVE ConnectInv'
  OBVIOUS
<1>0. TypeOK /\ TypeOK'
  BY TypeStep DEF ConnectInv
<1>1. ASSUME NEW t \in TimeConstraints, async_connect(t) PROVE ConnectInv'
  <2>0. /\ pc = "idle" /\ perform(t) /\ UNCHANGED delivered
        /\ pending = <<>> /\ delivered = <<>> /\ timer = "idle"
    BY <1>1 DEF async_connect, ConnectInv
  <2>1. CASE \E ec \in PerformErrors :
                 /\ complete(ec) /\ wait' = "none"
                 /\ UNCHANGED <<waitDone, polls, sockOpen>>
    <3> PICK ec \in PerformErrors :
               /\ complete(ec) /\ wait' = "none"
               /\ UNCHANGED <<waitDone, polls, sockOpen>>
      BY <2>1
    <3> QED
      BY <1>0, <2>0, CompleteOnce DEF ConnectInv
  <2>2. CASE pc' = "running" /\ UNCHANGED pending
    BY <1>0, <2>0, <2>2 DEF ConnectInv
  <2> QED
    BY <2>0, <2>1, <2>2, PerformCases
<1>2. CASE io_ready \/ oid_request_completes
  BY <1>0, <1>2 DEF io_ready, oid_request_completes, ConnectInv
<1>3. CASE timer_expires \/ timeout_handler
  BY <1>0, <1>3 DEF timer_expires, timeout_handler, ConnectInv
<1>4. CASE connect_poll_error
  <2>1. pc = "running" /\ pending = <<>> /\ delivered = <<>>
    BY <1>4, WaitMeansRunning DEF connect_poll_error, ConnectInv
  <2>2. complete(waitDone) /\ wait' = "none" /\ UNCHANGED delivered
    BY <1>4 DEF connect_poll_error
  <2> QED
    BY <1>0, <2>1, <2>2, CompleteOnce DEF ConnectInv
<1>5. CASE connect_poll_step
  <2>0. pc = "running" /\ pending = <<>> /\ delivered = <<>> /\ UNCHANGED delivered
    BY <1>5, WaitMeansRunning DEF connect_poll_step, ConnectInv
  <2> PICK r \in PollResults :
        CASE r = "PGRES_POLLING_OK" -> done("ok")
          [] r \in {"PGRES_POLLING_WRITING", "PGRES_POLLING_READING"} ->
               /\ polls < MaxPolls
               /\ register(IF r = "PGRES_POLLING_WRITING" THEN "write" ELSE "read")
               /\ UNCHANGED <<pc, timer, pending>>
          [] OTHER ->
               /\ wait' = "none"
               /\ complete("pq_connect_poll_failed")
               /\ UNCHANGED <<waitDone, polls>>
    BY <1>5 DEF connect_poll_step
  <2>1. CASE r = "PGRES_POLLING_OK"
    <3>1. done("ok")
      BY <2>1, Zenon
    <3>2. CASE OidMapEmpty
      <4>1. complete("ok") /\ wait' = "none"
        BY <3>1, <3>2, Zenon DEF done
      <4> QED
        BY <1>0, <2>0, <4>1, CompleteOnce DEF ConnectInv
    <3>3. CASE ~OidMapEmpty
      <4>1. UNCHANGED <<pc, pending>>
        BY <3>1, <3>3, Zenon DEF done
      <4> QED
        BY <1>0, <2>0, <4>1 DEF ConnectInv
    <3> QED
      BY <3>2, <3>3
  <2>2. CASE r \in {"PGRES_POLLING_WRITING", "PGRES_POLLING_READING"}
    <3>1. UNCHANGED <<pc, pending>>
      BY <2>2
    <3> QED
      BY <1>0, <2>0, <3>1 DEF ConnectInv
  <2>3. CASE r \notin {"PGRES_POLLING_OK", "PGRES_POLLING_WRITING", "PGRES_POLLING_READING"}
    <3>1. wait' = "none" /\ complete("pq_connect_poll_failed")
      BY <2>3, Zenon
    <3> QED
      BY <1>0, <2>0, <3>1, CompleteOnce DEF ConnectInv
  <2> QED
    BY <2>1, <2>2, <2>3
<1>6. CASE oid_map_step
  <2>1. pc = "running" /\ pending = <<>> /\ delivered = <<>>
    BY <1>6, WaitMeansRunning DEF oid_map_step, ConnectInv
  <2>2. complete(waitDone) /\ wait' = "none" /\ UNCHANGED delivered
    BY <1>6 DEF oid_map_step
  <2> QED
    BY <1>0, <2>1, <2>2, CompleteOnce DEF ConnectInv
<1>7. CASE user_callback
  <2>1. pc = "finished"
    BY <1>7 DEF user_callback, ConnectInv, TypeOK
  <2> QED
    BY <1>0, <1>7, <2>1 DEF user_callback, ConnectInv, TypeOK
<1>8. CASE Terminated \/ UNCHANGED vars
  BY <1>0, <1>8 DEF Terminated, vars, ConnectInv
<1> QED
  BY <1>1, <1>2, <1>3, <1>4, <1>5, <1>6, <1>7, <1>8 DEF Next

(***************************************************************************)
(* The user handler of async_connect is called at most once, whatever     *)
(* the order of socket readiness, timer expiry and OID map reply, for      *)
(* every bound on the socket waits.                                        *)
(***************************************************************************)
THEOREM AtMostOnce == Spec => []HandlerAtMostOnce
<1>1. ConnectInv => HandlerAtMostOnce
  BY DEF ConnectInv, HandlerAtMostOnce, TypeOK
<1> QED
  BY <1>1, ConnectInvInit, ConnectInvStep, PTL DEF Spec

-----------------------------------------------------------------------------
(* The refinement of ConnectPromise *)

LEMMA PromiseInit == Init => Promise!Init
<1> SUFFICES ASSUME Init PROVE Promise!Init
  OBVIOUS
<1>1. connectStatus = "idle" /\ connectResult = "none" /\ delivered = <<>>
  BY DEF Init, connectStatus, connectResult
<1>2. (~OidMapEmpty) \in BOOLEAN
  BY Zenon DEF Init
<1> QED
  BY <1>1, <1>2 DEF Promise!Init

\* A step that leaves the phase, the wait, the posted and delivered results
\* and the connection type alone is invisible to the caller.
LEMMA HiddenStep ==
    ASSUME UNCHANGED <<pc, wait, pending, delivered, OidMapEmpty>>
    PROVE  UNCHANGED Promise!vars
BY DEF Promise!vars, connectStatus, connectResult

\* The end of the chain, reached with nothing posted, completes the promise
\* with the result it posts.
LEMMA CompletedWith ==
    ASSUME NEW ec, pending = <<>>, delivered = <<>>, complete(ec),
           UNCHANGED delivered
    PROVE  connectStatus' = "completed" /\ connectResult' = ec
<1>1. pc' = "finished" /\ pending' = <<ec>>
  BY DEF complete
<1>2. connectStatus' = "completed"
  BY <1>1 DEF connectStatus
<1>3. connectResult' = ec
  BY <1>1 DEF connectResult
<1> QED
  BY <1>2, <1>3

\* While a read or write wait of the connect is outstanding the promise is
\* connecting and has no result yet.
LEMMA Connecting ==
    ASSUME ConnectInv, wait \in {"read", "write"}
    PROVE  /\ pc = "running" /\ pending = <<>> /\ delivered = <<>>
           /\ connectStatus = "connecting" /\ connectResult = "none"
<1>1. pc = "running" /\ pending = <<>> /\ delivered = <<>>
  BY WaitMeansRunning DEF ConnectInv
<1> QED
  BY <1>1 DEF connectStatus, connectResult

\* The needOid of the promise is the connection type's, which no step changes.
LEMMA NeedOidSame ==
    ASSUME UNCHANGED OidMapEmpty PROVE (~OidMapEmpty)' = ~OidMapEmpty
OBVIOUS

\* The arithmetic of one result shared between two queues.
LEMMA OneOfTwo ==
    ASSUME NEW a \in Nat, NEW b \in Nat, a + b = 1, a # 0
    PROVE  a = 1 /\ b = 0
OBVIOUS

\* The single result of a finished operation is posted or delivered; when
\* it is still posted, the user callback delivers exactly it.
LEMMA SinglePosted ==
    ASSUME NEW S, NEW p \in Seq(S), NEW d \in Seq(S),
           Len(p) + Len(d) = 1, p # <<>>
    PROVE  /\ p = <<p[1]>> /\ d = <<>>
           /\ Head(p) = p[1] /\ Tail(p) = <<>>
<1>1. Len(p) \in Nat /\ Len(d) \in Nat /\ Len(p) # 0
  OBVIOUS
<1>2. Len(p) = 1 /\ Len(d) = 0
  BY <1>1, OneOfTwo
<1>3. p = <<p[1]>> /\ d = <<>>
  BY <1>2
<1>4. Head(p) = p[1]
  OBVIOUS
<1>5. Tail(p) = <<>>
  <2>1. Tail(p) \in Seq(S) /\ Len(Tail(p)) = 0
    BY <1>2, p # <<>>
  <2> QED
    BY <2>1
<1> QED
  BY <1>3, <1>4, <1>5

LEMMA PromiseStep == ConnectInv /\ [Next]_vars => [Promise!Next]_Promise!vars
<1> SUFFICES ASSUME ConnectInv, [Next]_vars PROVE [Promise!Next]_Promise!vars
  OBVIOUS
<1>0. TypeOK
  BY DEF ConnectInv
<1>1. ASSUME NEW t \in TimeConstraints, async_connect(t) PROVE Promise!Start
  <2>0. /\ pc = "idle" /\ pending = <<>> /\ delivered = <<>>
        /\ perform(t) /\ UNCHANGED <<OidMapEmpty, delivered>>
    BY <1>1 DEF async_connect, ConnectInv
  <2>1. connectStatus = "idle"
    BY <2>0 DEF connectStatus
  <2>2. (~OidMapEmpty)' = ~OidMapEmpty
    BY <2>0, NeedOidSame
  <2>3. CASE \E ec \in PerformErrors :
                 /\ complete(ec) /\ wait' = "none"
                 /\ UNCHANGED <<waitDone, polls, sockOpen>>
    <3> PICK ec \in PerformErrors :
               /\ complete(ec) /\ wait' = "none"
               /\ UNCHANGED <<waitDone, polls, sockOpen>>
      BY <2>3
    <3>1. connectStatus' = "completed" /\ connectResult' = ec
      BY <2>0, CompletedWith
    <3>2. ec \in ErrorCodes \ {"ok"}
      BY DEF PerformErrors, ErrorCodes
    <3> QED
      BY <2>0, <2>1, <2>2, <3>1, <3>2 DEF Promise!Start
  <2>4. CASE pc' = "running" /\ wait' = "write" /\ UNCHANGED pending
    <3>1. connectStatus' = "connecting"
      BY <2>4 DEF connectStatus
    <3>2. connectResult' = connectResult
      BY <2>0, <2>4 DEF connectResult
    <3> QED
      BY <2>0, <2>1, <2>2, <3>1, <3>2 DEF Promise!Start
  <2> QED
    BY <2>0, <2>3, <2>4, PerformCases
<1>2. CASE io_ready \/ oid_request_completes \/ timer_expires \/ timeout_handler
  <2>1. UNCHANGED <<pc, wait, pending, delivered, OidMapEmpty>>
    BY <1>2 DEF io_ready, oid_request_completes, timer_expires, timeout_handler
  <2> QED
    BY <2>1, HiddenStep
<1>3. CASE connect_poll_error
  <2>0. /\ connectStatus = "connecting" /\ pending = <<>> /\ delivered = <<>>
        /\ complete(waitDone) /\ UNCHANGED <<OidMapEmpty, delivered>>
        /\ waitDone \notin {"no", "ok"}
    BY <1>3, Connecting DEF connect_poll_error
  <2>1. connectStatus' = "completed" /\ connectResult' = waitDone
    BY <2>0, CompletedWith
  <2>2. waitDone \in ErrorCodes \ {"ok"}
    BY <1>0, <2>0 DEF TypeOK, ErrorCodes
  <2>3. (~OidMapEmpty)' = ~OidMapEmpty
    BY <2>0, NeedOidSame
  <2> QED
    BY <2>0, <2>1, <2>2, <2>3 DEF Promise!Fail, Promise!Next
<1>4. CASE connect_poll_step
  <2>0. /\ wait \in {"read", "write"}
        /\ connectStatus = "connecting" /\ pending = <<>> /\ delivered = <<>>
        /\ connectResult = "none" /\ pc = "running"
        /\ UNCHANGED <<OidMapEmpty, delivered>>
    BY <1>4, Connecting DEF connect_poll_step
  <2>1. (~OidMapEmpty)' = ~OidMapEmpty
    BY <2>0, NeedOidSame
  <2> PICK r \in PollResults :
        CASE r = "PGRES_POLLING_OK" -> done("ok")
          [] r \in {"PGRES_POLLING_WRITING", "PGRES_POLLING_READING"} ->
               /\ polls < MaxPolls
               /\ register(IF r = "PGRES_POLLING_WRITING" THEN "write" ELSE "read")
               /\ UNCHANGED <<pc, timer, pending>>
          [] OTHER ->
               /\ wait' = "none"
               /\ complete("pq_connect_poll_failed")
               /\ UNCHANGED <<waitDone, polls>>
    BY <1>4 DEF connect_poll_step
  <2>2. CASE r = "PGRES_POLLING_OK"
    <3>1. done("ok")
      BY <2>2, Zenon
    <3>2. CASE OidMapEmpty
      <4>1. complete("ok")
        BY <3>1, <3>2, Zenon DEF done
      <4>2. connectStatus' = "completed" /\ connectResult' = "ok"
        BY <2>0, <4>1, CompletedWith
      <4>3. ~(~OidMapEmpty)
        BY <3>2
      <4>4. Promise!Connected
        BY <2>0, <2>1, <4>2, <4>3, Zenon DEF Promise!Connected, Promise!Ok
      <4> QED
        BY <4>4 DEF Promise!Next
    <3>3. CASE ~OidMapEmpty
      <4>1. wait' = "oid" /\ UNCHANGED <<pc, pending>>
        BY <3>1, <3>3, Zenon DEF done
      <4>2. connectStatus' = "oid" /\ connectResult' = connectResult
        BY <2>0, <4>1 DEF connectStatus, connectResult
      <4>3. Promise!Connected
        BY <2>0, <2>1, <3>3, <4>2, Zenon DEF Promise!Connected
      <4> QED
        BY <4>3 DEF Promise!Next
    <3> QED
      BY <3>2, <3>3
  <2>3. CASE r \in {"PGRES_POLLING_WRITING", "PGRES_POLLING_READING"}
    <3>1. wait' \in {"read", "write"} /\ UNCHANGED <<pc, pending>>
      BY <2>3 DEF register
    <3>2. connectStatus' = connectStatus /\ connectResult' = connectResult
      BY <2>0, <3>1 DEF connectStatus, connectResult
    <3> QED
      BY <2>0, <2>1, <3>2 DEF Promise!vars
  <2>4. CASE r \notin {"PGRES_POLLING_OK", "PGRES_POLLING_WRITING", "PGRES_POLLING_READING"}
    <3>1. complete("pq_connect_poll_failed")
      BY <2>4, Zenon
    <3>2. connectStatus' = "completed" /\ connectResult' = "pq_connect_poll_failed"
      BY <2>0, <3>1, CompletedWith
    <3>3. "pq_connect_poll_failed" \in ErrorCodes \ {"ok"}
      BY DEF ErrorCodes
    <3> QED
      BY <2>0, <2>1, <3>2, <3>3 DEF Promise!Fail, Promise!Next
  <2> QED
    BY <2>2, <2>3, <2>4
<1>5. CASE oid_map_step
  <2>0. /\ pc = "running" /\ pending = <<>> /\ delivered = <<>>
        /\ complete(waitDone) /\ UNCHANGED <<OidMapEmpty, delivered>>
        /\ waitDone # "no"
    BY <1>5, WaitMeansRunning DEF oid_map_step, ConnectInv
  <2>1. connectStatus = "oid"
    BY <1>5, <2>0 DEF oid_map_step, connectStatus
  <2>2. connectStatus' = "completed" /\ connectResult' = waitDone
    BY <2>0, CompletedWith
  <2>3. (~OidMapEmpty)' = ~OidMapEmpty
    BY <2>0, NeedOidSame
  <2>4. CASE waitDone = "ok"
    BY <2>0, <2>1, <2>2, <2>3, <2>4 DEF Promise!OidLoaded, Promise!Ok, Promise!Next
  <2>5. CASE waitDone # "ok"
    <3>1. waitDone \in ErrorCodes \ {"ok"}
      BY <1>0, <2>0, <2>5 DEF TypeOK, ErrorCodes
    <3> QED
      BY <2>0, <2>1, <2>2, <2>3, <3>1 DEF Promise!Fail, Promise!Next
  <2> QED
    BY <2>4, <2>5
<1>6. CASE user_callback
  <2>0. pc = "finished"
    BY <1>0, <1>6 DEF user_callback, ConnectInv, TypeOK
  <2>9. pending \in Seq(ErrorCodes) /\ delivered \in Seq(ErrorCodes)
    BY <1>0 DEF TypeOK
  <2>10. Len(pending) + Len(delivered) = 1
    BY <2>0 DEF ConnectInv
  <2>11. pending # <<>>
    BY <1>6 DEF user_callback
  <2>12. /\ pending = <<pending[1]>> /\ delivered = <<>>
         /\ Head(pending) = pending[1] /\ Tail(pending) = <<>>
    BY <2>9, <2>10, <2>11, SinglePosted
  <2>1. delivered = <<>>
    BY <2>12
  <2>2. pending = <<pending[1]>>
    BY <2>12
  <2>3. Head(pending) = pending[1] /\ Tail(pending) = <<>>
    BY <2>12
  <2>7. /\ delivered' = Append(delivered, Head(pending)) /\ pending' = Tail(pending)
        /\ UNCHANGED <<pc, OidMapEmpty>>
    BY <1>6, Zenon DEF user_callback
  <2>8. delivered' = <<pending[1]>> /\ pending' = <<>> /\ UNCHANGED <<pc, OidMapEmpty>>
    BY <2>1, <2>3, <2>7
  <2>4. connectStatus = "completed" /\ connectStatus' = "completed"
    BY <2>0, <2>8 DEF connectStatus
  <2>5. connectResult = pending[1] /\ connectResult' = pending[1]
    BY <2>2, <2>8 DEF connectResult
  <2>6. (~OidMapEmpty)' = ~OidMapEmpty
    BY <2>8, NeedOidSame
  <2> QED
    BY <2>1, <2>4, <2>5, <2>6, <2>8 DEF Promise!Deliver, Promise!Next
<1>7. CASE Terminated \/ UNCHANGED vars
  <2>1. UNCHANGED <<pc, wait, pending, delivered, OidMapEmpty>>
    BY <1>7 DEF Terminated, vars
  <2> QED
    BY <2>1, HiddenStep
<1> QED
  BY <1>1, <1>2, <1>3, <1>4, <1>5, <1>6, <1>7 DEF Next, Promise!Next

(***************************************************************************)
(* async_connect implements the promise of the specification's section     *)
(* 4.1 for every bound on the socket waits: every step of the handler      *)
(* chain is a start, an established connection, a loaded OID map, a        *)
(* failure, the single call of the user handler, or invisible to the       *)
(* caller; success reaches the handler only after the OID map, when the    *)
(* connection type has one, was loaded.                                     *)
(***************************************************************************)
THEOREM ConnectImplementation == Spec => ImplementsConnect
BY ConnectInvInit, ConnectInvStep, PromiseInit, PromiseStep, PTL
   DEF Spec, ImplementsConnect, Promise!Spec


=============================================================================
