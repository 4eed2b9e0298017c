\* With broker-side deduplication on, two concurrent Sends may write their
\* SEND frames in the opposite order of their sequence ids; the broker then
\* acknowledges the lower one as a duplicate without persisting it.
CONSTANTS
    Callers = {c1, c2}
    ReaderTask = ReaderTask
    NoOne = NoOne
    MaxSeq = 2
    MaxReq = 0
    CtxExpires = FALSE
    BrokerMayClose = FALSE
    BrokerDedup = TRUE
    WriteMayFail = FALSE
    ConnMayDrop = FALSE
    DrainOnClose = TRUE
SPECIFICATION Spec
SYMMETRY CallerSymmetry
INVARIANT OutcomesTruthful
