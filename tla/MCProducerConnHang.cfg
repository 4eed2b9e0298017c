\* The same question with the connection closed as Conn.Close does it: the
\* socket and Conn.Closedc are closed and the dispatcher is left alone.
\* Send's select does not watch ConnClosed(), so a Send without deadline
\* waiting when the connection dies never returns, and nothing else can
\* run: the behaviour stops there, so deadlock checking is off.
CONSTANTS
    Callers = {c1, c2}
    ReaderTask = ReaderTask
    NoOne = NoOne
    MaxSeq = 2
    MaxReq = 2
    CtxExpires = FALSE
    BrokerMayClose = FALSE
    BrokerDedup = FALSE
    WriteMayFail = FALSE
    ConnMayDrop = TRUE
    DrainOnClose = FALSE
SPECIFICATION FairSpec
PROPERTY CallsReturn
CHECK_DEADLOCK FALSE
