CONSTANTS
    TimeConstraints <- MC_TimeConstraints
    MaxPolls = 4
SPECIFICATION FairSpec
INVARIANT TypeOK
INVARIANT HandlerAtMostOnce
PROPERTY TimedConnectCompletes
PROPERTY ImplementsConnect
