CONSTANTS
    NThreads = 1
    NCoroutines = 1
SPECIFICATION FairSpec
PROPERTY BenchmarkEnds
