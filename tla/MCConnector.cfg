\* Connect with deadlines and ERROR(undef) routed by request id, as connector.go expects.
CONSTANTS
    Callers = {c1, c2}
    NoOne = NoOne
    MaxConnects = 3
    CtxExpires = TRUE
    ErrorToGlobal = FALSE
    WriteMayFail = TRUE
SPECIFICATION CSpec
SYMMETRY ConnectorSymmetry
INVARIANT CTypeOK
INVARIANT NoSilentRejection
INVARIANT SlotsHeldByWaiters
