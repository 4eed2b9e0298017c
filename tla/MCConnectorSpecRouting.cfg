\* ERROR(undef) routed to the global slot, as spec 4.2 prescribes.
CONSTANTS
    Callers = {c1, c2}
    NoOne = NoOne
    MaxConnects = 3
    CtxExpires = FALSE
    ErrorToGlobal = TRUE
    WriteMayFail = FALSE
SPECIFICATION CSpec
SYMMETRY ConnectorSymmetry
INVARIANT NoSilentRejection
