----------------------------- MODULE JsonbCodec -----------------------------
(***************************************************************************)
(* The binary codec of pg::jsonb (include/ozo/jsonb.h and                  *)
(* include/ozo/io/jsonb.h).  size_of_impl announces the length of the      *)
(* field, send_impl writes a one-byte format version (1) and the raw       *)
(* string, recv_impl rejects a field shorter than one byte, reads the      *)
(* version byte, resizes the string to size - 1 and reads it.              *)
(*                                                                         *)
(* A jsonb value is its raw string, a sequence of bytes.  The frame a      *)
(* field travels in carries the size size_of announced; a server may also  *)
(* send a field of size 0.  One codec session encodes a value and decodes  *)
(* a frame.                                                                *)
(***************************************************************************)
EXTENDS Naturals, Sequences

CONSTANTS
    Chars,     \* the bytes a raw string is made of
    MaxLen     \* bound on the length of a raw string

\* The format version send_impl writes.
Version == 1

ASSUME JsonbConstantsAssumption ==
    /\ Chars \subseteq Nat
    /\ Version \notin Chars
    /\ MaxLen \in Nat

\* The raw strings up to the bound.
RawStrings == UNION {[1..n -> Chars] : n \in 0..MaxLen}

\* What recv_impl gives back: range_error thrown, or a raw string.
RangeError == [error |-> TRUE, raw |-> <<>>]
Accepted(r) == [error |-> FALSE, raw |-> r]

VARIABLES
    value,     \* the pg::jsonb being encoded
    wire,      \* the bytes send_impl wrote
    size,      \* the size of the field the decoder is given
    decoded,   \* what recv_impl produced: [error, raw]
    phase      \* "init", "sent" or "decoded"

vars == <<value, wire, size, decoded, phase>>

TypeOK ==
    /\ value \in RawStrings
    /\ wire \in Seq(Chars \cup {Version})
    /\ size \in Nat
    /\ decoded \in [error : BOOLEAN, raw : Seq(Chars)]
    /\ phase \in {"init", "sent", "decoded"}

Init ==
    /\ value \in RawStrings
    /\ wire = <<>>
    /\ size = 0
    /\ decoded = Accepted(<<>>)
    /\ phase = "init"

\* A mutant: size_of without the version byte.
size_of_raw(v) == Len(v)

\* size_of_impl<pg::jsonb>::apply: the raw string and the version byte.
size_of(v) == Len(v) + 1

\* send_impl<pg::jsonb>::apply: write the version, then the raw string.
send(v) == <<Version>> \o v

\* Mutants: recv keeps the version byte, or reads one byte short.
recv_keeps_version(data, n) ==
    IF n < 1 THEN RangeError ELSE Accepted(SubSeq(data, 1, n - 1))

recv_short(data, n) ==
    IF n < 1 THEN RangeError ELSE Accepted(SubSeq(data, 2, n - 1))

(***************************************************************************)
(* recv_impl<pg::jsonb>::apply: a field shorter than one byte throws       *)
(* range_error; otherwise the version byte is read and dropped and the     *)
(* next size - 1 bytes are the raw string.                                 *)
(***************************************************************************)
recv(data, n) ==
    IF n < 1 THEN RangeError ELSE Accepted(SubSeq(data, 2, n))

\* The value is written into a field whose size is size_of(value).
encode ==
    /\ phase = "init"
    /\ wire' = send(value)
    /\ size' = size_of(value)
    /\ phase' = "sent"
    /\ UNCHANGED <<value, decoded>>

\* The field is read back, or a field of size 0 arrives instead.
decode ==
    /\ phase = "sent"
    /\ \E n \in {size, 0} :
         /\ size' = n
         /\ decoded' = recv(wire, n)
    /\ phase' = "decoded"
    /\ UNCHANGED <<value, wire>>

Terminated == phase = "decoded" /\ UNCHANGED vars

Next == encode \/ decode \/ Terminated

Spec == Init /\ [][Next]_vars

-----------------------------------------------------------------------------
(* Properties *)

(***************************************************************************)
(* The field send_impl writes is exactly as long as size_of_impl           *)
(* announces, so the frame length the request puts before it is right.     *)
(***************************************************************************)
SizeMatchesSend == phase # "init" => Len(wire) = size_of(value)

(***************************************************************************)
(* recv_impl gives back the raw string send_impl wrote, for every string;  *)
(* a field of size 0 is rejected with range_error.                         *)
(***************************************************************************)
RoundTrip ==
    phase = "decoded" =>
        decoded = IF size = 0 THEN RangeError ELSE Accepted(value)

=============================================================================
