CONSTANTS
    Names <- MC_Names
    MaxRequests = 3
SPECIFICATION FairSpec
INVARIANT TypeOK
PROPERTY SpawnedScenarioReports
