CONSTANTS
    Values <- MCValues
    Skew <- MCSkew
SPECIFICATION Spec
INVARIANTS
    RoundTrip
    CutIsNoticed
    Canonical
CHECK_DEADLOCK FALSE
