\* Every started Send and Close returns when contexts have no deadline, the
\* broker answers (deduplicating on sequence id) and does not close the
\* producer on its own, and a lost connection drains the dispatcher as
\* spec 7 says.
CONSTANTS
    Callers = {c1, c2}
    ReaderTask = ReaderTask
    NoOne = NoOne
    MaxSeq = 3
    MaxReq = 2
    CtxExpires = FALSE
    BrokerMayClose = FALSE
    BrokerDedup = TRUE
    WriteMayFail = FALSE
    ConnMayDrop = TRUE
    DrainOnClose = TRUE
SPECIFICATION FairSpec
PROPERTY CallsReturn
