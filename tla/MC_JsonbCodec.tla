--------------------------- MODULE MC_JsonbCodec ---------------------------
(* Instantiates JsonbCodec for TLC: raw strings over three byte values.    *)
EXTENDS JsonbCodec

MC_Chars == {97, 98, 99}

=============================================================================
