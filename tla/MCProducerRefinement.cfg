\* ProducerCalls is implemented by the detailed producer when the broker
\* does not deduplicate, with deadlines, failing writes, failover and
\* connection loss.
CONSTANTS
    Callers = {c1, c2}
    ReaderTask = ReaderTask
    NoOne = NoOne
    MaxSeq = 3
    MaxReq = 2
    CtxExpires = TRUE
    BrokerMayClose = TRUE
    BrokerDedup = FALSE
    WriteMayFail = TRUE
    ConnMayDrop = TRUE
    DrainOnClose = TRUE
SPECIFICATION Spec
PROPERTY ImplementsCalls
