SPECIFICATION Spec
INVARIANTS
    ServiceWhole
    OriginalsKept
    ActiveConsistent
PROPERTIES
    BaseLast
    ForeignKept
CHECK_DEADLOCK FALSE
