\* The same question with the broker's failover CLOSE_PRODUCER allowed: the
\* reader task blocks on Mu in HandleCloseProducer while Close holds Mu and
\* waits for the SUCCESS only the reader can deliver.  The behaviour stops
\* in that state, so deadlock checking is off and the liveness property
\* reports it.
CONSTANTS
    Callers = {c1, c2}
    ReaderTask = ReaderTask
    NoOne = NoOne
    MaxSeq = 2
    MaxReq = 2
    CtxExpires = FALSE
    BrokerMayClose = TRUE
    BrokerDedup = FALSE
    WriteMayFail = FALSE
    ConnMayDrop = FALSE
    DrainOnClose = TRUE
SPECIFICATION FairSpec
PROPERTY CallsReturn
CHECK_DEADLOCK FALSE
