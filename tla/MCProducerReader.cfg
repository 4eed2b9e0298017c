\* The reader task blocked in HandleCloseProducer resumes when callers'
\* contexts carry deadlines, also while a Close holds Mu waiting for the
\* SUCCESS the reader has not yet routed.
CONSTANTS
    Callers = {c1, c2}
    ReaderTask = ReaderTask
    NoOne = NoOne
    MaxSeq = 2
    MaxReq = 2
    CtxExpires = TRUE
    BrokerMayClose = TRUE
    BrokerDedup = FALSE
    WriteMayFail = FALSE
    ConnMayDrop = TRUE
    DrainOnClose = TRUE
SPECIFICATION FairSpec
PROPERTY ReaderResumes
