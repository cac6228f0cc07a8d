-------------------------- MODULE AsyncCancelProofs --------------------------
(***************************************************************************)
(* Proofs about AsyncCancel, for every set of connections and either kind  *)
(* of executor: the variables keep their types, and the user handler of a  *)
(* cancel operation is called at most once.                                *)
(***************************************************************************)
EXTENDS AsyncCancel, TLAPS

\* Whatever the handler-calling steps do with a failing error code stays
\* within the type of the error context.
LEMMA ErrorContextType ==
    \A ec \in ErrorCodes \ {"ok"} : ErrorContext(ec) \in ErrorContexts
BY DEF ErrorCodes, ErrorContexts, ErrorContext

\* TypeOK split into the part about data (for SMT) and the part about the
\* Boolean-valued variables (for Zenon).
TypeData ==
    /\ stage \in [Conns -> {"idle", "started"}]
    /\ tc \in [Conns -> {"none", "duration"}]
    /\ handler \in [Conns -> {"absent", "engaged", "empty"}]
    /\ timer \in [Conns -> {"idle", "armed", "expired", "aborted"}]
    /\ job \in [Conns -> {"none", "posted", "dispatched", "done"}]
    /\ jobResult \in [Conns -> {"ok", "pq_cancel_failed"}]
    /\ exq \in Seq(Conns)
    /\ errCtx \in [Conns -> ErrorContexts]
    /\ pending \in [Conns -> Seq(ErrorCodes)]
    /\ delivered \in [Conns -> Seq(ErrorCodes)]

TypeBool ==
    /\ connOpen \in [Conns -> BOOLEAN]
    /\ ub \in BOOLEAN
    /\ crashed \in BOOLEAN

\* cancel_op_handler keeps the variables it writes within their types.
LEMMA HandlerStepType ==
    ASSUME TypeData, TypeBool, NEW c \in Conns, NEW ec \in ErrorCodes,
           NEW tm \in {"idle", "armed", "expired", "aborted"},
           cancel_op_handler(c, ec, tm)
    PROVE  /\ handler' \in [Conns -> {"absent", "engaged", "empty"}]
           /\ timer' \in [Conns -> {"idle", "armed", "expired", "aborted"}]
           /\ connOpen' \in [Conns -> BOOLEAN]
           /\ errCtx' \in [Conns -> ErrorContexts]
           /\ pending' \in [Conns -> Seq(ErrorCodes)]
<1>1. bind_cancel_timer(tc[c], tm) \in {"idle", "armed", "expired", "aborted"}
  BY DEF bind_cancel_timer, TimerCancel
<1>2. ec # "ok" => ErrorContext(ec) \in ErrorContexts
  BY ErrorContextType
<1>3. CASE handler[c] = "engaged"
  <2>1. /\ handler' = [handler EXCEPT ![c] = "empty"]
        /\ connOpen' = IF ec # "ok" THEN [connOpen EXCEPT ![c] = FALSE] ELSE connOpen
        /\ errCtx' = IF ec # "ok" THEN [errCtx EXCEPT ![c] = ErrorContext(ec)] ELSE errCtx
        /\ timer' = [timer EXCEPT ![c] = bind_cancel_timer(tc[c], tm)]
        /\ pending' = [pending EXCEPT ![c] = Append(@, ec)]
    BY <1>3 DEF cancel_op_handler
  <2>2. handler' \in [Conns -> {"absent", "engaged", "empty"}]
    BY <2>1 DEF TypeData, TypeBool
  <2>3. timer' \in [Conns -> {"idle", "armed", "expired", "aborted"}]
    BY <2>1, <1>1 DEF TypeData, TypeBool
  <2>4. connOpen' \in [Conns -> BOOLEAN]
    BY <2>1 DEF TypeData, TypeBool
  <2>5. errCtx' \in [Conns -> ErrorContexts]
    BY <2>1, <1>2 DEF TypeData, TypeBool
  <2>6. pending' \in [Conns -> Seq(ErrorCodes)]
    BY <2>1 DEF TypeData, TypeBool
  <2>7. QED
    BY <2>2, <2>3, <2>4, <2>5, <2>6
<1>4. CASE handler[c] # "engaged"
  <2>1. timer' = [timer EXCEPT ![c] = tm] /\ UNCHANGED <<handler, connOpen, errCtx, pending>>
    BY <1>4 DEF cancel_op_handler
  <2>2. QED
    BY <2>1 DEF TypeData, TypeBool
<1>5. QED
  BY <1>3, <1>4

\* Every overload of ozo::cancel enters async_cancel with a time constraint
\* the caller passed or with ozo::none.
LEMMA CancelEntersAsyncCancel ==
    ASSUME NEW c, cancel(c)
    PROVE  \E t \in TimeConstraints \cup {"none"} : async_cancel(c, t)
BY DEF cancel

LEMMA TypeSplit == TypeOK <=> TypeData /\ TypeBool
BY Zenon DEF TypeOK, TypeData, TypeBool

\* The initial state is well typed.
LEMMA InitType == Init => TypeOK
<1> SUFFICES ASSUME Init PROVE TypeData /\ TypeBool
  BY TypeSplit
<1>1. TypeData
  BY DEF Init, TypeData, ErrorContexts
<1>2. TypeBool
  BY Zenon DEF Init, TypeBool
<1>3. QED
  BY <1>1, <1>2

\* Every step keeps the variables within their types.
LEMMA TypeStep == TypeOK /\ [Next]_vars => TypeOK'
<1> SUFFICES ASSUME TypeData, TypeBool, [Next]_vars PROVE TypeData' /\ TypeBool'
  BY Zenon DEF TypeOK, TypeData, TypeBool
<1>1. ASSUME NEW c \in Conns, NEW t \in TimeConstraints \cup {"none"}, async_cancel(c, t)
      PROVE  TypeData' /\ TypeBool'
  <2>1. t \in {"none", "duration"}
    BY <1>1, ConstantsAssumption
  <2>2. ErrorContext("pq_get_cancel_failed") \in ErrorContexts
    BY ErrorContextType DEF ErrorCodes
  <2>3. TypeData'
    <3>1. exq' \in Seq(Conns)
      <4>1. exq' = exq \/ exq' = Append(exq, c)
        BY <1>1, Zenon DEF async_cancel
      <4>2. exq \in Seq(Conns)
        BY DEF TypeData
      <4>3. QED
        BY <4>1, <4>2
    <3>2. CASE /\ handler' = [handler EXCEPT ![c] = "engaged"]
               /\ timer' = IF t = "none" THEN timer ELSE [timer EXCEPT ![c] = "armed"]
               /\ job' = [job EXCEPT ![c] = "posted"]
               /\ UNCHANGED <<errCtx, pending>>
      BY <1>1, <2>1, <3>1, <3>2 DEF async_cancel, TypeData
    <3>3. CASE /\ errCtx' = [errCtx EXCEPT ![c] = ErrorContext("pq_get_cancel_failed")]
               /\ pending' = [pending EXCEPT ![c] = Append(@, "pq_get_cancel_failed")]
               /\ UNCHANGED <<handler, timer, job, exq>>
      BY <1>1, <2>1, <2>2, <3>3 DEF async_cancel, TypeData, ErrorCodes
    <3>4. QED
      BY <1>1, <3>2, <3>3 DEF async_cancel
  <2>4. TypeBool'
    BY <1>1, Zenon DEF async_cancel, TypeBool
  <2>5. QED
    BY <2>3, <2>4
<1>2. ASSUME NEW c \in Conns, timer_expires(c) PROVE TypeData' /\ TypeBool'
  <2>1. TypeData'
    BY <1>2 DEF timer_expires, TypeData
  <2>2. TypeBool'
    BY <1>2, Zenon DEF timer_expires, TypeBool
  <2>3. QED
    BY <2>1, <2>2
<1>3. ASSUME NEW c \in Conns, cancel_op_timeout_handler(c) PROVE TypeData' /\ TypeBool'
  <2>0. TypeBool'
    <3>1. ub' \in BOOLEAN /\ crashed' \in BOOLEAN
      BY <1>3, Zenon DEF cancel_op_timeout_handler, timer_completion_executor, TypeBool
    <3>2. connOpen' \in [Conns -> BOOLEAN]
      BY <1>3, HandlerStepType DEF cancel_op_timeout_handler, TypeBool, ErrorCodes
    <3>3. QED
      BY <3>1, <3>2 DEF TypeBool
  <2>1. CASE timer[c] = "expired" /\ cancel_op_handler(c, "operation_aborted", "idle")
    BY <1>3, <2>0, <2>1, HandlerStepType DEF cancel_op_timeout_handler, TypeData, ErrorCodes
  <2>2. CASE timer[c] = "aborted" /\ timer' = [timer EXCEPT ![c] = "idle"]
              /\ UNCHANGED <<handler, connOpen, errCtx, pending>>
    BY <1>3, <2>0, <2>2 DEF cancel_op_timeout_handler, TypeData
  <2>3. QED
    BY <1>3, <2>0, <2>1, <2>2 DEF cancel_op_timeout_handler
<1>4. ASSUME NEW c \in Conns, cancel_op(c) PROVE TypeData' /\ TypeBool'
  <2>1. exq' \in Seq(Conns)
    <3>1. CASE c \in Dedicated
      BY <1>4, <3>1 DEF cancel_op, TypeData
    <3>2. CASE c \notin Dedicated
      BY <1>4, <3>2 DEF cancel_op, TypeData
    <3>3. QED
      BY <3>1, <3>2
  <2>4. TypeData'
    BY <1>4, <2>1 DEF cancel_op, TypeData
  <2>2. TypeBool'
    BY <1>4, Zenon DEF cancel_op, TypeBool
  <2>3. QED
    BY <2>4, <2>2
<1>5. ASSUME NEW c \in Conns, cancel_op_completion(c) PROVE TypeData' /\ TypeBool'
  <2>1. jobResult[c] \in ErrorCodes /\ timer[c] \in {"idle", "armed", "expired", "aborted"}
    BY DEF TypeData, ErrorCodes
  <2>2. QED
    BY <1>5, <2>1, HandlerStepType DEF cancel_op_completion, TypeData, TypeBool
<1>6. ASSUME NEW c \in Conns, user_callback(c) PROVE TypeData' /\ TypeBool'
  <2>1. TypeData'
    BY <1>6 DEF user_callback, TypeData
  <2>2. TypeBool'
    BY <1>6, Zenon DEF user_callback, TypeBool
  <2>3. QED
    BY <2>1, <2>2
<1>7. CASE Terminated \/ UNCHANGED vars
  <2>1. UNCHANGED vars
    BY <1>7 DEF Terminated
  <2>2. QED
    BY <2>1 DEF vars, TypeData, TypeBool
<1>8. QED
  BY <1>1, <1>2, <1>3, <1>4, <1>5, <1>6, <1>7, CancelEntersAsyncCancel DEF Next

\* The type invariant holds in every reachable state.
THEOREM TypeCorrect == Spec => []TypeOK
BY InitType, TypeStep, PTL DEF Spec

-----------------------------------------------------------------------------
(* HandlerAtMostOnce is not inductive by itself: a step that fires the     *)
(* handler appends to pending, and is harmless only because nothing was    *)
(* posted or delivered while the optional was still engaged.               *)

\* The inductive strengthening of HandlerAtMostOnce.
AtMostOnceInv ==
    /\ TypeOK
    /\ \A c \in Conns :
          /\ stage[c] = "idle" => handler[c] = "absent" /\ pending[c] = <<>>
                                  /\ delivered[c] = <<>>
          /\ handler[c] = "engaged" => pending[c] = <<>> /\ delivered[c] = <<>>
          /\ Len(pending[c]) + Len(delivered[c]) <= 1

\* cancel_op_handler preserves the strengthening's per-connection part.
LEMMA HandlerStepOnce ==
    ASSUME AtMostOnceInv, NEW c \in Conns, NEW ec \in ErrorCodes,
           NEW tm \in {"idle", "armed", "expired", "aborted"},
           cancel_op_handler(c, ec, tm),
           UNCHANGED <<stage, delivered>>
    PROVE  \A d \in Conns :
              /\ stage'[d] = "idle" => handler'[d] = "absent" /\ pending'[d] = <<>>
                                       /\ delivered'[d] = <<>>
              /\ handler'[d] = "engaged" => pending'[d] = <<>> /\ delivered'[d] = <<>>
              /\ Len(pending'[d]) + Len(delivered'[d]) <= 1
<1>1. CASE handler[c] = "engaged"
  BY <1>1 DEF cancel_op_handler, AtMostOnceInv, TypeOK
<1>2. CASE handler[c] # "engaged"
  BY <1>2 DEF cancel_op_handler, AtMostOnceInv, TypeOK
<1>3. QED
  BY <1>1, <1>2

\* The strengthening holds initially.
LEMMA AtMostOnceInvInit == Init => AtMostOnceInv
<1> SUFFICES ASSUME Init PROVE AtMostOnceInv
  OBVIOUS
<1>1. TypeOK
  BY InitType
<1>2. \A c \in Conns :
        /\ stage[c] = "idle" => handler[c] = "absent" /\ pending[c] = <<>>
                                /\ delivered[c] = <<>>
        /\ handler[c] = "engaged" => pending[c] = <<>> /\ delivered[c] = <<>>
        /\ Len(pending[c]) + Len(delivered[c]) <= 1
  <2> SUFFICES ASSUME NEW c \in Conns
               PROVE  /\ stage[c] = "idle" => handler[c] = "absent" /\ pending[c] = <<>>
                                               /\ delivered[c] = <<>>
                      /\ handler[c] = "engaged" => pending[c] = <<>> /\ delivered[c] = <<>>
                      /\ Len(pending[c]) + Len(delivered[c]) <= 1
    OBVIOUS
  <2>1. handler[c] = "absent" /\ pending[c] = <<>> /\ delivered[c] = <<>>
    BY DEF Init
  <2>2. Len(pending[c]) + Len(delivered[c]) <= 1
    BY <2>1
  <2> QED
    BY <2>1, <2>2
<1>3. QED
  BY <1>1, <1>2 DEF AtMostOnceInv

\* Every step preserves the strengthening.
LEMMA AtMostOnceInvStep == AtMostOnceInv /\ [Next]_vars => AtMostOnceInv'
<1> SUFFICES ASSUME AtMostOnceInv, [Next]_vars PROVE AtMostOnceInv'
  OBVIOUS
<1>1. TypeOK'
  BY TypeStep DEF AtMostOnceInv
<1>2. ASSUME NEW c \in Conns, NEW t \in TimeConstraints \cup {"none"}, async_cancel(c, t)
      PROVE  AtMostOnceInv'
  BY <1>1, <1>2 DEF async_cancel, AtMostOnceInv, TypeOK
<1>3. ASSUME NEW c \in Conns, timer_expires(c) PROVE AtMostOnceInv'
  BY <1>1, <1>3 DEF timer_expires, AtMostOnceInv
<1>4. ASSUME NEW c \in Conns, cancel_op_timeout_handler(c) PROVE AtMostOnceInv'
  <2>1. CASE timer[c] = "expired" /\ cancel_op_handler(c, "operation_aborted", "idle")
    BY <1>1, <1>4, <2>1, HandlerStepOnce DEF cancel_op_timeout_handler, AtMostOnceInv, ErrorCodes
  <2>2. CASE timer[c] = "aborted" /\ timer' = [timer EXCEPT ![c] = "idle"]
              /\ UNCHANGED <<handler, connOpen, errCtx, pending>>
    BY <1>1, <1>4, <2>2 DEF cancel_op_timeout_handler, AtMostOnceInv
  <2>3. QED
    BY <1>4, <2>1, <2>2 DEF cancel_op_timeout_handler
<1>5. ASSUME NEW c \in Conns, cancel_op(c) PROVE AtMostOnceInv'
  BY <1>1, <1>5 DEF cancel_op, AtMostOnceInv
<1>6. ASSUME NEW c \in Conns, cancel_op_completion(c) PROVE AtMostOnceInv'
  <2>1. jobResult[c] \in ErrorCodes /\ timer[c] \in {"idle", "armed", "expired", "aborted"}
    BY DEF AtMostOnceInv, TypeOK, ErrorCodes
  <2>2. QED
    BY <1>1, <1>6, <2>1, HandlerStepOnce DEF cancel_op_completion, AtMostOnceInv
<1>7. ASSUME NEW c \in Conns, user_callback(c) PROVE AtMostOnceInv'
  BY <1>1, <1>7 DEF user_callback, AtMostOnceInv, TypeOK
<1>8. CASE Terminated
  BY <1>8 DEF Terminated, vars, AtMostOnceInv, TypeOK
<1>9. CASE UNCHANGED vars
  BY <1>9 DEF vars, AtMostOnceInv, TypeOK
<1>10. QED
  BY <1>2, <1>3, <1>4, <1>5, <1>6, <1>7, <1>8, <1>9, CancelEntersAsyncCancel DEF Next

\* The user handler of every cancel operation runs at most once.
THEOREM AtMostOnce == Spec => []HandlerAtMostOnce
<1>1. AtMostOnceInv => HandlerAtMostOnce
  BY DEF AtMostOnceInv, HandlerAtMostOnce
<1>2. QED
  BY <1>1, AtMostOnceInvInit, AtMostOnceInvStep, PTL DEF Spec

-----------------------------------------------------------------------------
(***************************************************************************)
(* ErrorClosesConnection is not inductive by itself either: it speaks of   *)
(* delivered results only, while cancel_op_handler closes the connection  *)
(* when it posts the result, before the callback runs.  The strengthening  *)
(* says the same of the posted result, on top of AtMostOnceInv, so that    *)
(* nothing is posted twice and the error context is never overwritten.     *)
(***************************************************************************)
ClosedBy(c, s) ==
    (handler[c] # "absent" /\ s # <<>> /\ s[1] # "ok")
        => ~connOpen[c] /\ errCtx[c] = ErrorContext(s[1])

ClosedInv ==
    /\ AtMostOnceInv
    /\ \A c \in Conns : ClosedBy(c, pending[c]) /\ ClosedBy(c, delivered[c])

\* The strengthening restricted to one connection, for the steps below.
ClosedAt(d) == ClosedBy(d, pending[d]) /\ ClosedBy(d, delivered[d])

\* cancel_op_handler posts an error only after closing the connection and
\* setting the error context, and posts nothing when the optional is empty.
LEMMA ClosedHandlerStep ==
    ASSUME ClosedInv, NEW c \in Conns, NEW ec \in ErrorCodes, NEW tm,
           cancel_op_handler(c, ec, tm), UNCHANGED delivered
    PROVE  \A d \in Conns : ClosedAt(d)'
<1> SUFFICES ASSUME NEW d \in Conns PROVE ClosedAt(d)'
  OBVIOUS
<1>0. ClosedAt(d) /\ TypeOK
  BY DEF ClosedInv, ClosedAt, AtMostOnceInv
<1>1. CASE handler[c] = "engaged"
  <2>1. /\ handler' = [handler EXCEPT ![c] = "empty"]
        /\ connOpen' = IF ec # "ok" THEN [connOpen EXCEPT ![c] = FALSE] ELSE connOpen
        /\ errCtx' = IF ec # "ok" THEN [errCtx EXCEPT ![c] = ErrorContext(ec)] ELSE errCtx
        /\ pending' = [pending EXCEPT ![c] = Append(@, ec)]
    BY <1>1 DEF cancel_op_handler
  <2>2. pending[c] = <<>> /\ delivered[c] = <<>>
    BY <1>1 DEF ClosedInv, AtMostOnceInv
  <2>3. CASE d = c
    <3>1. pending'[d] = <<ec>> /\ delivered'[d] = <<>>
      BY <1>0, <2>1, <2>2, <2>3 DEF TypeOK
    <3>2. ec # "ok" => ~connOpen'[d] /\ errCtx'[d] = ErrorContext(ec)
      BY <1>0, <2>1, <2>3 DEF TypeOK
    <3> QED
      BY <3>1, <3>2 DEF ClosedAt, ClosedBy
  <2>4. CASE d # c
    <3>1. /\ handler'[d] = handler[d] /\ connOpen'[d] = connOpen[d]
          /\ errCtx'[d] = errCtx[d] /\ pending'[d] = pending[d]
          /\ delivered'[d] = delivered[d]
      BY <1>0, <2>1, <2>4 DEF TypeOK
    <3> QED
      BY <1>0, <3>1 DEF ClosedAt, ClosedBy
  <2> QED
    BY <2>3, <2>4
<1>2. CASE handler[c] # "engaged"
  <2>1. UNCHANGED <<handler, connOpen, errCtx, pending>>
    BY <1>2 DEF cancel_op_handler
  <2> QED
    BY <1>0, <2>1 DEF ClosedAt, ClosedBy
<1> QED
  BY <1>1, <1>2

\* Two lengths that sum to at most one, the first non-zero.
LEMMA OneOfTwo ==
    ASSUME NEW a \in Nat, NEW b \in Nat, a + b <= 1, a # 0
    PROVE  a = 1 /\ b = 0
OBVIOUS

LEMMA ClosedInvStep == ClosedInv /\ [Next]_vars => ClosedInv'
<1> SUFFICES ASSUME ClosedInv, [Next]_vars PROVE ClosedInv'
  OBVIOUS
<1>0. AtMostOnceInv /\ AtMostOnceInv' /\ TypeOK'
  BY AtMostOnceInvStep DEF ClosedInv, AtMostOnceInv
<1> SUFFICES \A d \in Conns : ClosedAt(d)'
  BY <1>0 DEF ClosedInv, ClosedAt
<1>1. ASSUME NEW c \in Conns, NEW t \in TimeConstraints \cup {"none"}, async_cancel(c, t)
      PROVE  \A d \in Conns : ClosedAt(d)'
  <2> SUFFICES ASSUME NEW d \in Conns PROVE ClosedAt(d)'
    OBVIOUS
  <2>0. ClosedAt(d) /\ TypeOK /\ stage[c] = "idle"
        /\ handler[c] = "absent" /\ pending[c] = <<>> /\ delivered[c] = <<>>
    BY <1>1 DEF ClosedInv, ClosedAt, AtMostOnceInv, async_cancel
  <2>1. UNCHANGED <<connOpen, delivered>>
    BY <1>1 DEF async_cancel
  <2>2. CASE d = c
    <3>1. delivered'[d] = <<>>
      BY <2>0, <2>1, <2>2
    <3>2. pending'[d] = <<>> \/ handler'[d] = "absent"
      BY <1>1, <2>0, <2>2 DEF async_cancel, TypeOK
    <3> QED
      BY <3>1, <3>2 DEF ClosedAt, ClosedBy
  <2>3. CASE d # c
    <3>1. /\ handler'[d] = handler[d] /\ errCtx'[d] = errCtx[d]
          /\ pending'[d] = pending[d]
      BY <1>1, <2>0, <2>3 DEF async_cancel, TypeOK
    <3> QED
      BY <2>0, <2>1, <3>1 DEF ClosedAt, ClosedBy
  <2> QED
    BY <2>2, <2>3
<1>2. ASSUME NEW c \in Conns, timer_expires(c) \/ cancel_op(c)
      PROVE  \A d \in Conns : ClosedAt(d)'
  <2>1. UNCHANGED <<handler, connOpen, errCtx, pending, delivered>>
    BY <1>2 DEF timer_expires, cancel_op
  <2> QED
    BY <2>1 DEF ClosedInv, ClosedAt, ClosedBy
<1>3. ASSUME NEW c \in Conns, cancel_op_timeout_handler(c)
      PROVE  \A d \in Conns : ClosedAt(d)'
  <2>0. UNCHANGED delivered
    BY <1>3 DEF cancel_op_timeout_handler
  <2>1. CASE timer[c] = "expired" /\ cancel_op_handler(c, "operation_aborted", "idle")
    BY <2>0, <2>1, ClosedHandlerStep DEF ErrorCodes
  <2>2. CASE timer[c] = "aborted" /\ UNCHANGED <<handler, connOpen, errCtx, pending>>
    BY <2>0, <2>2 DEF ClosedInv, ClosedAt, ClosedBy
  <2> QED
    BY <1>3, <2>1, <2>2 DEF cancel_op_timeout_handler
<1>4. ASSUME NEW c \in Conns, cancel_op_completion(c)
      PROVE  \A d \in Conns : ClosedAt(d)'
  <2>1. jobResult[c] \in ErrorCodes
    BY DEF ClosedInv, AtMostOnceInv, TypeOK, ErrorCodes
  <2> QED
    BY <1>4, <2>1, ClosedHandlerStep DEF cancel_op_completion
<1>5. ASSUME NEW c \in Conns, user_callback(c)
      PROVE  \A d \in Conns : ClosedAt(d)'
  <2> SUFFICES ASSUME NEW d \in Conns PROVE ClosedAt(d)'
    OBVIOUS
  <2>0. ClosedAt(d) /\ TypeOK /\ ClosedAt(c)
        /\ Len(pending[c]) + Len(delivered[c]) <= 1
    BY DEF ClosedInv, ClosedAt, AtMostOnceInv
  <2>1. /\ pending[c] # <<>>
        /\ delivered' = [delivered EXCEPT ![c] = Append(@, Head(pending[c]))]
        /\ pending' = [pending EXCEPT ![c] = Tail(@)]
        /\ UNCHANGED <<handler, connOpen, errCtx>>
    BY <1>5 DEF user_callback
  <2>2. CASE d = c
    <3>0. pending[c] \in Seq(ErrorCodes) /\ delivered[c] \in Seq(ErrorCodes)
      BY <2>0 DEF TypeOK
    <3>b. Len(pending[c]) # 0
      BY <2>1, <3>0
    <3>n. Len(pending[c]) \in Nat /\ Len(delivered[c]) \in Nat
      BY <3>0
    <3>s. Len(pending[c]) + Len(delivered[c]) <= 1
      BY <2>0
    <3>c. Len(pending[c]) = 1 /\ Len(delivered[c]) = 0
      BY <3>n, <3>s, <3>b, OneOfTwo
    <3>a. Len(pending[c]) = 1 /\ delivered[c] = <<>>
      BY <3>0, <3>c
    <3>d. DOMAIN pending = Conns /\ DOMAIN delivered = Conns
      BY <2>0 DEF TypeOK
    <3>e. pending'[d] = Tail(pending[c])
          /\ delivered'[d] = Append(delivered[c], Head(pending[c]))
      BY <2>1, <2>2, <3>d
    <3>g. pending[c] = <<pending[c][1]>>
      BY <3>0, <3>a
    <3>h. Tail(<<pending[c][1]>>) = <<>> /\ Head(<<pending[c][1]>>) = pending[c][1]
      OBVIOUS
    <3>i. Tail(pending[c]) = <<>> /\ Head(pending[c]) = pending[c][1]
      BY <3>g, <3>h, Zenon
    <3>j. Append(<<>>, pending[c][1]) = <<pending[c][1]>>
      OBVIOUS
    <3>f. Tail(pending[c]) = <<>> /\ Append(<<>>, Head(pending[c])) = <<pending[c][1]>>
      BY <3>i, <3>j
    <3>1. pending'[d] = <<>> /\ delivered'[d] = <<pending[c][1]>>
      BY <3>a, <3>e, <3>f
    <3> QED
      BY <2>0, <2>1, <2>2, <3>1 DEF ClosedAt, ClosedBy
  <2>3. CASE d # c
    <3>1. pending'[d] = pending[d] /\ delivered'[d] = delivered[d]
      BY <2>0, <2>1, <2>3 DEF TypeOK
    <3> QED
      BY <2>0, <2>1, <3>1 DEF ClosedAt, ClosedBy
  <2> QED
    BY <2>2, <2>3
<1>6. CASE Terminated \/ UNCHANGED vars
  BY <1>6 DEF Terminated, vars, ClosedInv, ClosedAt, ClosedBy
<1> QED
  BY <1>1, <1>2, <1>3, <1>4, <1>5, <1>6, CancelEntersAsyncCancel DEF Next

(***************************************************************************)
(* When the callback of a cancel that obtained a cancel handle reports an  *)
(* error, cancel_op_handler has closed the connection and set the error    *)
(* context that names the error, for every set of connections, whichever   *)
(* executor each cancel runs on and whichever completion wins the race.    *)
(***************************************************************************)
THEOREM ErrorCloses == Spec => []ErrorClosesConnection
<1>1. Init => ClosedInv
  BY AtMostOnceInvInit DEF Init, ClosedInv, ClosedBy
<1>2. ClosedInv => ErrorClosesConnection
  BY DEF ClosedInv, ClosedBy, ErrorClosesConnection
<1> QED
  BY <1>1, <1>2, ClosedInvStep, PTL DEF Spec

-----------------------------------------------------------------------------
(* LateCompletionLeavesConnection rests on AtMostOnceInv: a connection    *)
(* whose callback has run was started and its optional is no longer       *)
(* engaged, so only the other connections' steps write connOpen and       *)
(* errCtx.                                                                 *)

\* cancel_op_handler writes the connection and error context of its own
\* connection only, and only while the optional is engaged.
LEMMA HandlerLeavesConnection ==
    ASSUME TypeOK, NEW c \in Conns, NEW d \in Conns, NEW ec, NEW tm,
           cancel_op_handler(d, ec, tm), d # c \/ handler[c] # "engaged"
    PROVE  connOpen'[c] = connOpen[c] /\ errCtx'[c] = errCtx[c]
<1>1. CASE handler[d] = "engaged"
  <2>1. d # c
    BY <1>1
  <2>2. /\ connOpen' = IF ec # "ok" THEN [connOpen EXCEPT ![d] = FALSE] ELSE connOpen
        /\ errCtx' = IF ec # "ok" THEN [errCtx EXCEPT ![d] = ErrorContext(ec)] ELSE errCtx
    BY <1>1 DEF cancel_op_handler
  <2> QED
    BY <2>1, <2>2 DEF TypeOK
<1>2. CASE handler[d] # "engaged"
  BY <1>2 DEF cancel_op_handler
<1> QED
  BY <1>1, <1>2

LEMMA LateCompletionStep ==
    ASSUME AtMostOnceInv, [Next]_vars, NEW c \in Conns, delivered[c] # <<>>
    PROVE  connOpen'[c] = connOpen[c] /\ errCtx'[c] = errCtx[c]
<1>0. TypeOK /\ stage[c] = "started" /\ handler[c] # "engaged"
  BY DEF AtMostOnceInv, TypeOK
<1>1. ASSUME NEW d \in Conns, NEW t \in TimeConstraints \cup {"none"}, async_cancel(d, t)
      PROVE  connOpen'[c] = connOpen[c] /\ errCtx'[c] = errCtx[c]
  <2>1. d # c
    BY <1>0, <1>1 DEF async_cancel
  <2> QED
    BY <1>0, <1>1, <2>1 DEF async_cancel, TypeOK
<1>2. ASSUME NEW d \in Conns, cancel_op_timeout_handler(d)
      PROVE  connOpen'[c] = connOpen[c] /\ errCtx'[c] = errCtx[c]
  <2>1. CASE cancel_op_handler(d, "operation_aborted", "idle")
    BY <1>0, <2>1, HandlerLeavesConnection
  <2>2. CASE UNCHANGED <<connOpen, errCtx>>
    BY <2>2
  <2> QED
    BY <1>2, <2>1, <2>2 DEF cancel_op_timeout_handler
<1>3. ASSUME NEW d \in Conns, cancel_op_completion(d)
      PROVE  connOpen'[c] = connOpen[c] /\ errCtx'[c] = errCtx[c]
  BY <1>0, <1>3, HandlerLeavesConnection DEF cancel_op_completion
<1>4. CASE \/ \E d \in Conns : timer_expires(d) \/ cancel_op(d) \/ user_callback(d)
           \/ Terminated \/ UNCHANGED vars
  BY <1>4 DEF timer_expires, cancel_op, user_callback, Terminated, vars
<1> QED
  BY <1>1, <1>2, <1>3, <1>4, CancelEntersAsyncCancel DEF Next

(***************************************************************************)
(* For every set of connections and either kind of executor, once the     *)
(* user callback of a cancel has run, no later step (in particular not    *)
(* the completion that lost the race in cancel_op_handler) closes the     *)
(* connection it was handed or rewrites its error context.                 *)
(***************************************************************************)
THEOREM LateCompletion == Spec => LateCompletionLeavesConnection
<1>1. AtMostOnceInv /\ [Next]_vars
        => [\A c \in Conns :
              delivered[c] # <<>> => UNCHANGED <<connOpen[c], errCtx[c]>>]_vars
  BY LateCompletionStep
<1> QED
  BY <1>1, AtMostOnceInvInit, AtMostOnceInvStep, PTL
     DEF Spec, LateCompletionLeavesConnection

-----------------------------------------------------------------------------
(* The refinement of CancelPromise.  Besides AtMostOnceInv it needs        *)
(* TimerInv: a connection's timer is idle until its cancel starts, and is  *)
(* ever anything but idle only for a cancel with a duration, because       *)
(* bind_cancel_timer and cancel_op_timeout_handler never arm it again.     *)
(* Hence a time-out reaches cancel_op_handler only for a timed cancel.     *)

TimerInv ==
    \A c \in Conns : /\ stage[c] = "idle" => timer[c] = "idle"
                     /\ timer[c] # "idle" => tc[c] = "duration"

RefInv == AtMostOnceInv /\ TimerInv

\* cancel_op_handler changes only its own connection's timer, and leaves it
\* idle when it was given an idle one.
LEMMA HandlerTimer ==
    ASSUME TypeOK, NEW c \in Conns, NEW ec, NEW tm,
           cancel_op_handler(c, ec, tm)
    PROVE  /\ timer' = [timer EXCEPT ![c] = timer'[c]]
           /\ timer'[c] # "idle" => tm # "idle"
<1>1. CASE handler[c] = "engaged"
  <2>1. timer' = [timer EXCEPT ![c] = bind_cancel_timer(tc[c], tm)]
    BY <1>1 DEF cancel_op_handler
  <2>2. bind_cancel_timer(tc[c], tm) # "idle" => tm # "idle"
    BY DEF bind_cancel_timer, TimerCancel
  <2> QED
    BY <2>1, <2>2 DEF TypeOK
<1>2. CASE handler[c] # "engaged"
  <2>1. timer' = [timer EXCEPT ![c] = tm]
    BY <1>2 DEF cancel_op_handler
  <2> QED
    BY <2>1 DEF TypeOK
<1> QED
  BY <1>1, <1>2

LEMMA TimerInvInit == Init => TimerInv
BY DEF Init, TimerInv

LEMMA TimerInvStep == TypeOK /\ TimerInv /\ [Next]_vars => TimerInv'
<1> SUFFICES ASSUME TypeOK, TimerInv, [Next]_vars PROVE TimerInv'
  OBVIOUS
<1>1. ASSUME NEW c \in Conns, NEW t \in TimeConstraints \cup {"none"}, async_cancel(c, t)
      PROVE  TimerInv'
  <2>1. timer[c] = "idle" /\ stage'[c] = "started" /\ tc'[c] = t
    BY <1>1 DEF async_cancel, TimerInv, TypeOK
  <2>2. timer' = timer \/ timer' = [timer EXCEPT ![c] = "armed"]
    BY <1>1, Zenon DEF async_cancel
  <2>3. t = "none" => timer' = timer
    BY <1>1, Zenon DEF async_cancel
  <2>4. t \in {"none", "duration"}
    BY ConstantsAssumption
  <2> QED
    BY <1>1, <2>1, <2>2, <2>3, <2>4 DEF async_cancel, TimerInv, TypeOK
<1>2. ASSUME NEW c \in Conns, timer_expires(c) PROVE TimerInv'
  BY <1>2 DEF timer_expires, TimerInv, TypeOK
<1>3. ASSUME NEW c \in Conns, cancel_op_timeout_handler(c) PROVE TimerInv'
  <2>1. timer' = [timer EXCEPT ![c] = "idle"]
    <3>1. CASE cancel_op_handler(c, "operation_aborted", "idle")
      BY <3>1, HandlerTimer
    <3>2. CASE timer' = [timer EXCEPT ![c] = "idle"]
      BY <3>2
    <3> QED
      BY <1>3, <3>1, <3>2 DEF cancel_op_timeout_handler
  <2> QED
    BY <1>3, <2>1 DEF cancel_op_timeout_handler, TimerInv, TypeOK
<1>4. ASSUME NEW c \in Conns, cancel_op(c) PROVE TimerInv'
  BY <1>4 DEF cancel_op, TimerInv
<1>5. ASSUME NEW c \in Conns, cancel_op_completion(c) PROVE TimerInv'
  <2>1. /\ timer' = [timer EXCEPT ![c] = timer'[c]]
        /\ timer'[c] # "idle" => timer[c] # "idle"
    BY <1>5, HandlerTimer DEF cancel_op_completion
  <2> QED
    BY <1>5, <2>1 DEF cancel_op_completion, TimerInv, TypeOK
<1>6. ASSUME NEW c \in Conns, user_callback(c) PROVE TimerInv'
  BY <1>6 DEF user_callback, TimerInv
<1>7. CASE Terminated \/ UNCHANGED vars
  BY <1>7 DEF Terminated, vars, TimerInv
<1> QED
  BY <1>1, <1>2, <1>3, <1>4, <1>5, <1>6, <1>7, CancelEntersAsyncCancel DEF Next

LEMMA RefInvHolds == Spec => []RefInv
<1>1. Init => RefInv
  BY AtMostOnceInvInit, TimerInvInit DEF RefInv
<1>2. RefInv /\ [Next]_vars => RefInv'
  BY AtMostOnceInvStep, TimerInvStep DEF RefInv, AtMostOnceInv
<1> QED
  BY <1>1, <1>2, PTL DEF Spec

LEMMA PromiseInit == Init => Promise!Init
<1> SUFFICES ASSUME Init PROVE Promise!Init
  OBVIOUS
<1>1. cancelStatus = [c \in Conns |-> "idle"]
  BY DEF Init, cancelStatus
<1>2. cancelTimed = [c \in Conns |-> FALSE]
  BY DEF Init, cancelTimed
<1>3. cancelResult = [c \in Conns |-> "none"]
  BY DEF Init, cancelResult
<1> QED
  BY <1>1, <1>2, <1>3 DEF Init, Promise!Init

\* A step that leaves the stages, the handlers, the time constraints and the
\* posted and delivered callbacks alone is invisible to the caller.
LEMMA HiddenStep ==
    ASSUME UNCHANGED <<stage, handler, tc, pending, delivered>>
    PROVE  UNCHANGED Promise!vars
BY DEF Promise!vars, cancelStatus, cancelTimed, cancelResult

\* A sequence of length zero is empty.
LEMMA EmptySeq ==
    ASSUME NEW S, NEW q \in Seq(S), Len(q) = 0 PROVE q = <<>>
OBVIOUS

\* Posting the first callback of a connection sets its promised result.
LEMMA ResultUpdate ==
    ASSUME TypeOK, NEW c \in Conns, NEW ec, pending[c] = <<>>,
           pending' = [pending EXCEPT ![c] = Append(@, ec)], UNCHANGED delivered
    PROVE  cancelResult' = [cancelResult EXCEPT ![c] = ec]
<1>1. pending'[c] = <<ec>>
  BY DEF TypeOK
<1>2. \A d \in Conns \ {c} : pending'[d] = pending[d]
  BY DEF TypeOK
<1>3. cancelResult'[c] = ec
  BY <1>1 DEF cancelResult
<1>4. \A d \in Conns \ {c} : cancelResult'[d] = cancelResult[d]
  BY <1>2 DEF cancelResult
<1> QED
  BY <1>3, <1>4 DEF cancelResult

\* cancel_op_handler is the completion of the promise when it finds the
\* handler still engaged, and invisible otherwise.
LEMMA HandlerPromise ==
    ASSUME AtMostOnceInv, NEW c \in Conns, NEW ec, NEW tm,
           cancel_op_handler(c, ec, tm), UNCHANGED <<stage, tc, delivered>>
    PROVE  /\ handler[c] = "engaged" =>
                 /\ cancelStatus[c] = "waiting"
                 /\ cancelStatus' = [cancelStatus EXCEPT ![c] = "completed"]
                 /\ cancelResult' = [cancelResult EXCEPT ![c] = ec]
                 /\ UNCHANGED <<cancelTimed, delivered>>
           /\ handler[c] # "engaged" => UNCHANGED Promise!vars
<1>0. TypeOK
  BY DEF AtMostOnceInv
<1>1. CASE handler[c] = "engaged"
  <2>1. /\ handler' = [handler EXCEPT ![c] = "empty"]
        /\ pending' = [pending EXCEPT ![c] = Append(@, ec)]
    BY <1>1 DEF cancel_op_handler
  <2>2. stage[c] = "started" /\ pending[c] = <<>> /\ delivered[c] = <<>>
    BY <1>0, <1>1 DEF AtMostOnceInv, TypeOK
  <2>4. cancelStatus[c] = "waiting"
    BY <1>1, <2>2 DEF cancelStatus
  <2>5. cancelStatus' = [cancelStatus EXCEPT ![c] = "completed"]
    BY <1>0, <2>1, <2>2 DEF cancelStatus, TypeOK
  <2>6. cancelResult' = [cancelResult EXCEPT ![c] = ec]
    BY <1>0, <2>1, <2>2, ResultUpdate
  <2>7. UNCHANGED cancelTimed
    BY DEF cancelTimed
  <2> QED
    BY <1>1, <2>4, <2>5, <2>6, <2>7
<1>2. CASE handler[c] # "engaged"
  <2>1. UNCHANGED <<handler, pending>>
    BY <1>2 DEF cancel_op_handler
  <2> QED
    BY <1>2, <2>1, HiddenStep
<1> QED
  BY <1>1, <1>2

LEMMA PromiseStep == RefInv /\ [Next]_vars => [Promise!Next]_Promise!vars
<1> SUFFICES ASSUME RefInv, [Next]_vars PROVE [Promise!Next]_Promise!vars
  OBVIOUS
<1>0. AtMostOnceInv /\ TimerInv /\ TypeOK
  BY DEF RefInv, AtMostOnceInv
<1>1. ASSUME NEW c \in Conns, NEW t \in TimeConstraints \cup {"none"}, async_cancel(c, t)
      PROVE  Promise!Start(c)
  <2>0. /\ stage[c] = "idle" /\ handler[c] = "absent"
        /\ pending[c] = <<>> /\ delivered[c] = <<>>
        /\ stage' = [stage EXCEPT ![c] = "started"]
        /\ tc' = [tc EXCEPT ![c] = t]
        /\ UNCHANGED delivered
    BY <1>0, <1>1 DEF async_cancel, AtMostOnceInv
  <2>1. cancelStatus[c] = "idle"
    BY <2>0 DEF cancelStatus
  <2>2. cancelTimed' = [cancelTimed EXCEPT ![c] = (t = "duration")]
    BY <1>0, <2>0 DEF cancelTimed, TypeOK
  <2>3. CASE handler' = [handler EXCEPT ![c] = "engaged"] /\ UNCHANGED pending
    <3>1. cancelStatus' = [cancelStatus EXCEPT ![c] = "waiting"]
      BY <1>0, <2>0, <2>3 DEF cancelStatus, TypeOK
    <3>2. UNCHANGED cancelResult
      BY <2>0, <2>3 DEF cancelResult
    <3> QED
      BY <2>0, <2>1, <2>2, <3>1, <3>2 DEF Promise!Start
  <2>4. CASE /\ pending' = [pending EXCEPT ![c] = Append(@, "pq_get_cancel_failed")]
             /\ UNCHANGED handler
    <3>1. cancelStatus' = [cancelStatus EXCEPT ![c] = "completed"]
      BY <1>0, <2>0, <2>4 DEF cancelStatus, TypeOK
    <3>2. cancelResult' = [cancelResult EXCEPT ![c] = "pq_get_cancel_failed"]
      BY <1>0, <2>0, <2>4, ResultUpdate
    <3> QED
      BY <2>0, <2>1, <2>2, <3>1, <3>2 DEF Promise!Start
  <2> QED
    BY <1>1, <2>3, <2>4 DEF async_cancel
<1>2. ASSUME NEW c \in Conns, cancel_op_timeout_handler(c)
      PROVE  [Promise!Next]_Promise!vars
  <2>0. UNCHANGED <<stage, tc, delivered>>
    BY <1>2 DEF cancel_op_timeout_handler
  <2>1. CASE timer[c] = "expired" /\ cancel_op_handler(c, "operation_aborted", "idle")
    <3>1. cancelTimed[c]
      BY <1>0, <2>1 DEF TimerInv, cancelTimed
    <3>2. CASE handler[c] = "engaged"
      <4>1. /\ cancelStatus[c] = "waiting"
            /\ cancelStatus' = [cancelStatus EXCEPT ![c] = "completed"]
            /\ cancelResult' = [cancelResult EXCEPT ![c] = "operation_aborted"]
            /\ UNCHANGED <<cancelTimed, delivered>>
        BY <1>0, <2>0, <2>1, <3>2, HandlerPromise
      <4>2. Promise!Complete(c)
        BY <3>1, <4>1 DEF Promise!Complete
      <4> QED
        BY <4>2 DEF Promise!Next
    <3>3. CASE handler[c] # "engaged"
      BY <1>0, <2>0, <2>1, <3>3, HandlerPromise
    <3> QED
      BY <3>2, <3>3
  <2>2. CASE UNCHANGED <<handler, pending>>
    BY <2>0, <2>2, HiddenStep
  <2> QED
    BY <1>2, <2>1, <2>2 DEF cancel_op_timeout_handler
<1>3. ASSUME NEW c \in Conns, cancel_op_completion(c)
      PROVE  [Promise!Next]_Promise!vars
  <2>0. /\ cancel_op_handler(c, jobResult[c], timer[c])
        /\ UNCHANGED <<stage, tc, delivered>>
        /\ jobResult[c] \in {"ok", "pq_cancel_failed"}
    BY <1>0, <1>3 DEF cancel_op_completion, TypeOK
  <2>1. CASE handler[c] = "engaged"
    <3>1. /\ cancelStatus[c] = "waiting"
          /\ cancelStatus' = [cancelStatus EXCEPT ![c] = "completed"]
          /\ cancelResult' = [cancelResult EXCEPT ![c] = jobResult[c]]
          /\ UNCHANGED <<cancelTimed, delivered>>
      BY <1>0, <2>0, <2>1, HandlerPromise
    <3>2. Promise!Complete(c)
      BY <2>0, <3>1 DEF Promise!Complete
    <3> QED
      BY <3>2 DEF Promise!Next
  <2>2. CASE handler[c] # "engaged"
    BY <1>0, <2>0, <2>2, HandlerPromise
  <2> QED
    BY <2>1, <2>2
<1>4. ASSUME NEW c \in Conns, user_callback(c) PROVE Promise!Deliver(c)
  <2>0. /\ pending[c] # <<>>
        /\ delivered' = [delivered EXCEPT ![c] = Append(@, Head(pending[c]))]
        /\ pending' = [pending EXCEPT ![c] = Tail(@)]
        /\ UNCHANGED <<stage, handler, tc>>
    BY <1>4 DEF user_callback
  <2>1. stage[c] = "started" /\ handler[c] # "engaged"
    BY <1>0, <2>0 DEF AtMostOnceInv, TypeOK
  <2>2. pending[c] \in Seq(ErrorCodes) /\ delivered[c] \in Seq(ErrorCodes)
    BY <1>0 DEF TypeOK
  <2>3. Len(pending[c]) + Len(delivered[c]) <= 1
    BY <1>0 DEF AtMostOnceInv
  <2>12. Len(pending[c]) \in Nat /\ Len(delivered[c]) \in Nat /\ Len(pending[c]) # 0
    BY <2>0, <2>2
  <2>4. Len(pending[c]) = 1 /\ Len(delivered[c]) = 0
    BY <2>3, <2>12, OneOfTwo
  <2>13. Tail(pending[c]) \in Seq(ErrorCodes) /\ Len(Tail(pending[c])) = 0
    BY <2>0, <2>2, <2>4
  <2>5. delivered[c] = <<>> /\ Tail(pending[c]) = <<>>
    BY <2>2, <2>4, <2>13, EmptySeq
  <2>14. delivered'[c] = Append(delivered[c], Head(pending[c]))
         /\ pending'[c] = Tail(pending[c])
    BY <1>0, <2>0 DEF TypeOK
  <2>6. delivered'[c] = <<Head(pending[c])>> /\ pending'[c] = <<>>
    BY <2>5, <2>14
  <2>7. cancelStatus[c] = "completed" /\ UNCHANGED cancelStatus
    BY <2>0, <2>1 DEF cancelStatus
  <2>8. cancelResult[c] = Head(pending[c])
    BY <2>0 DEF cancelResult
  <2>9. UNCHANGED cancelResult
    <3>1. cancelResult'[c] = Head(pending[c])
      BY <2>6 DEF cancelResult
    <3>2. \A d \in Conns \ {c} : pending'[d] = pending[d] /\ delivered'[d] = delivered[d]
      BY <1>0, <2>0 DEF TypeOK
    <3> QED
      BY <2>8, <3>1, <3>2 DEF cancelResult
  <2>10. UNCHANGED cancelTimed
    BY <2>0 DEF cancelTimed
  <2>11. delivered' = [delivered EXCEPT ![c] = <<cancelResult[c]>>]
    BY <2>0, <2>5, <2>8
  <2> QED
    BY <2>5, <2>7, <2>9, <2>10, <2>11 DEF Promise!Deliver
<1>5. CASE \/ \E c \in Conns : timer_expires(c) \/ cancel_op(c)
           \/ Terminated \/ UNCHANGED vars
  <2>1. UNCHANGED <<stage, handler, tc, pending, delivered>>
    BY <1>5 DEF timer_expires, cancel_op, Terminated, vars
  <2> QED
    BY <2>1, HiddenStep
<1> QED
  BY <1>1, <1>2, <1>3, <1>4, <1>5, CancelEntersAsyncCancel DEF Next, Promise!Next

(***************************************************************************)
(* For every set of connections and either kind of executor, ozo::cancel  *)
(* keeps the promise of CancelPromise: each step starts a cancel,          *)
(* completes it with the PQcancel result or, for a timed cancel only, with *)
(* operation_aborted, calls the handler once with that result, or is       *)
(* invisible to the caller; the completion that loses the race is          *)
(* invisible.                                                              *)
(***************************************************************************)
THEOREM CancelImplementation == Spec => ImplementsCancel
BY RefInvHolds, PromiseInit, PromiseStep, PTL
   DEF Spec, ImplementsCancel, Promise!Spec

=============================================================================
