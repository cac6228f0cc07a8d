CONSTANTS
    Chars <- MC_Chars
    MaxLen = 3
SPECIFICATION Spec
INVARIANTS
    TypeOK
    SizeMatchesSend
    RoundTrip
