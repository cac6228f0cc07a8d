CONSTANTS
    Names <- MC_Names
    MaxRequests = 3
SPECIFICATION Spec
INVARIANT ReuseConnectionReuses
