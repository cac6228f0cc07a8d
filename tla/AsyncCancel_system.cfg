CONSTANTS
    Conns = {c1, c2, c3}
    TimeConstraints <- MC_TimeConstraints
    Dedicated = {c1, c2}
SPECIFICATION FairSpec
INVARIANT TypeOK
INVARIANT HandlerAtMostOnce
INVARIANT ErrorClosesConnection
PROPERTY TimedCancelCompletes
PROPERTY LateCompletionLeavesConnection
PROPERTY ImplementsCancel
