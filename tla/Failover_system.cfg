CONSTANTS
    recoverable = recoverable
    fatal = fatal
    o1 = o1
    o2 = o2
    Ops <- MC_Ops
    Errors <- MC_Errors
    Recoverable <- MC_Recoverable
    NTries = 3
SPECIFICATION FairSpec
INVARIANT TypeOK
INVARIANT HandlerAtMostOnce
INVARIANT ErrorOnlyWhenExhausted
PROPERTY FailoverCompletes
PROPERTY ImplementsPromise
