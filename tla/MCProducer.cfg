\* Safety of Send/Close/HandleCloseProducer with deadlines, broker failover
\* and no broker deduplication.
CONSTANTS
    Callers = {c1, c2}
    ReaderTask = ReaderTask
    NoOne = NoOne
    MaxSeq = 3
    MaxReq = 2
    CtxExpires = TRUE
    BrokerMayClose = TRUE
    BrokerDedup = FALSE
    WriteMayFail = TRUE
    ConnMayDrop = TRUE
    DrainOnClose = TRUE
SPECIFICATION Spec
SYMMETRY CallerSymmetry
INVARIANT TypeOK
INVARIANT NoCloseOfClosedChannel
INVARIANT ClosedcMirrorsIsClosed
INVARIANT OutcomesTruthful
INVARIANT AnswersReachTheirAsker
INVARIANT RegistrationsHeldByWaiters
