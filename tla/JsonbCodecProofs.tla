-------------------------- MODULE JsonbCodecProofs --------------------------
(***************************************************************************)
(* Proofs about the pg::jsonb codec, for raw strings of every length.      *)
(***************************************************************************)
EXTENDS JsonbCodec, SequenceTheorems, TLAPS

(***************************************************************************)
(* recv_impl reads back what send_impl wrote, for every raw string: the    *)
(* field send_impl writes has the size size_of_impl announces, and reading *)
(* a field of that size drops the version byte and returns the string.     *)
(***************************************************************************)
LEMMA RecvSend ==
    ASSUME NEW v \in Seq(Chars)
    PROVE  /\ Len(send(v)) = size_of(v)
           /\ recv(send(v), size_of(v)) = Accepted(v)
<1>2. Len(send(v)) = size_of(v)
  BY DEF send, size_of
<1>3. size_of(v) \in Nat /\ ~(size_of(v) < 1)
  BY DEF size_of
<1>4. SubSeq(send(v), 2, size_of(v)) = v
  BY DEF send, size_of
<1>5. recv(send(v), size_of(v)) = Accepted(SubSeq(send(v), 2, size_of(v)))
  BY <1>3 DEF recv
<1> QED
  BY <1>2, <1>4, <1>5

\* Every raw string the model starts from is a sequence of bytes.
LEMMA RawStringsAreSeqs == RawStrings \subseteq Seq(Chars)
BY JsonbConstantsAssumption DEF RawStrings

(***************************************************************************)
(* The invariant the codec session keeps: the wire holds what send_impl    *)
(* wrote for the value, the field has the size size_of_impl announced (or  *)
(* the size 0 a server may send), and the result is what recv_impl reads   *)
(* from it.                                                                *)
(***************************************************************************)
CodecInv ==
    /\ value \in Seq(Chars)
    /\ phase \in {"init", "sent", "decoded"}
    /\ phase # "init" => wire = send(value)
    /\ phase = "sent" => size = size_of(value)
    /\ phase = "decoded" => /\ size \in {size_of(value), 0}
                           /\ decoded = recv(wire, size)

LEMMA CodecInvInit == Init => CodecInv
BY RawStringsAreSeqs DEF Init, CodecInv

LEMMA CodecInvStep == CodecInv /\ [Next]_vars => CodecInv'
<1> SUFFICES ASSUME CodecInv, [Next]_vars PROVE CodecInv'
  OBVIOUS
<1>1. CASE encode
  BY <1>1 DEF encode, CodecInv
<1>2. CASE decode
  BY <1>2 DEF decode, CodecInv
<1>3. CASE Terminated
  BY <1>3 DEF Terminated, vars, CodecInv
<1>4. CASE UNCHANGED vars
  BY <1>4 DEF vars, CodecInv
<1> QED
  BY <1>1, <1>2, <1>3, <1>4 DEF Next

\* The invariant gives the two properties of the runs, by RecvSend.
LEMMA CodecInvProperties == CodecInv => SizeMatchesSend /\ RoundTrip
<1> SUFFICES ASSUME CodecInv PROVE SizeMatchesSend /\ RoundTrip
  OBVIOUS
<1>1. Len(send(value)) = size_of(value) /\ recv(send(value), size_of(value)) = Accepted(value)
  BY RecvSend DEF CodecInv
<1>2. recv(wire, 0) = RangeError
  BY DEF recv
<1>3. SizeMatchesSend
  BY <1>1 DEF CodecInv, SizeMatchesSend
<1>4. RoundTrip
  BY <1>1, <1>2 DEF CodecInv, RoundTrip
<1> QED
  BY <1>3, <1>4

(***************************************************************************)
(* For every alphabet and every bound on the length of a string, the jsonb *)
(* field send_impl writes has the size size_of_impl announces, and         *)
(* recv_impl gives back the string (range_error for a field of size 0).    *)
(***************************************************************************)
THEOREM JsonbRoundTrip == Spec => [](SizeMatchesSend /\ RoundTrip)
BY CodecInvInit, CodecInvStep, CodecInvProperties, PTL DEF Spec
-----------------------------------------------------------------------------
(***************************************************************************)
(* The field send_impl writes is as long as size_of_impl announced, for    *)
(* every raw string: the length prefix of the frame is always right.       *)
(***************************************************************************)
THEOREM SizeMatches == Spec => []SizeMatchesSend
BY JsonbRoundTrip, PTL

\* What recv_impl can give back from the wire of a codec session.
LEMMA RecvType ==
    ASSUME NEW v \in Seq(Chars), NEW n \in {size_of(v), 0}
    PROVE  recv(send(v), n) \in [error : BOOLEAN, raw : Seq(Chars)]
<1>1. CASE n = 0
  BY <1>1 DEF recv, RangeError
<1>2. CASE n = size_of(v)
  <2>1. recv(send(v), n) = [error |-> FALSE, raw |-> v]
    BY <1>2, RecvSend DEF Accepted
  <2>2. [error |-> FALSE, raw |-> v] \in [error : BOOLEAN, raw : Seq(Chars)]
    OBVIOUS
  <2> QED
    BY <2>1, <2>2
<1> QED
  BY <1>1, <1>2

\* The wire holds the version byte and the bytes of the string.
LEMMA SendType ==
    ASSUME NEW v \in Seq(Chars)
    PROVE  send(v) \in Seq(Chars \cup {Version})
BY DEF send

LEMMA TypeStep == TypeOK /\ CodecInv /\ [Next]_vars => TypeOK'
<1> SUFFICES ASSUME TypeOK, CodecInv, [Next]_vars PROVE TypeOK'
  OBVIOUS
<1>1. CASE encode
  <2>1. wire' \in Seq(Chars \cup {Version}) /\ size' \in Nat
    BY <1>1, SendType DEF encode, CodecInv, size_of
  <2> QED
    BY <1>1, <2>1 DEF encode, TypeOK
<1>2. CASE decode
  <2>1. PICK n \in {size, 0} : size' = n /\ decoded' = recv(wire, n)
    BY <1>2 DEF decode
  <2>2. wire = send(value) /\ size = size_of(value)
    BY <1>2 DEF decode, CodecInv
  <2>3. decoded' \in [error : BOOLEAN, raw : Seq(Chars)]
    BY <2>1, <2>2, RecvType DEF CodecInv
  <2>4. size' \in Nat
    BY <2>1, <2>2 DEF size_of, CodecInv
  <2> QED
    BY <1>2, <2>3, <2>4 DEF decode, TypeOK
<1>3. CASE Terminated \/ UNCHANGED vars
  BY <1>3 DEF Terminated, vars, TypeOK
<1> QED
  BY <1>1, <1>2, <1>3 DEF Next

(***************************************************************************)
(* Every reachable state of a codec session is well typed: what recv_impl  *)
(* returns is range_error or a string of bytes, never the version byte.    *)
(***************************************************************************)
THEOREM TypeCorrect == Spec => []TypeOK
<1>1. Init => TypeOK /\ CodecInv
  BY CodecInvInit DEF Init, TypeOK, Accepted
<1>2. TypeOK /\ CodecInv /\ [Next]_vars => (TypeOK /\ CodecInv)'
  BY TypeStep, CodecInvStep
<1> QED
  BY <1>1, <1>2, PTL DEF Spec
=============================================================================
