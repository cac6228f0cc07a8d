CONSTANTS
    TimeConstraints <- MC_TimeConstraints
    MaxPolls = 2
SPECIFICATION Spec
INVARIANT SuccessKeepsSocket
