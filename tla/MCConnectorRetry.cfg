\* a Connect that timed out is retried while its answer is in flight.
CONSTANTS
    Callers = {c1, c2}
    NoOne = NoOne
    MaxConnects = 3
    CtxExpires = TRUE
    ErrorToGlobal = FALSE
    WriteMayFail = FALSE
SPECIFICATION CSpec
SYMMETRY ConnectorSymmetry
INVARIANT AnswersReachTheirAsker
