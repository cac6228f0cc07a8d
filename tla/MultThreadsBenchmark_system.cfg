CONSTANTS
    NThreads = 2
    NCoroutines = 2
SPECIFICATION FairSpec
INVARIANT TypeOK
INVARIANT ReportAfterAllStopped
INVARIANT WaitEndsWhenAllFinished
PROPERTY CoroutinesFinish
