CONSTANTS
    Conns = {c1}
    TimeConstraints <- MC_TimeConstraints
    Dedicated = {}
SPECIFICATION Spec
INVARIANT NoUndefinedBehaviour
