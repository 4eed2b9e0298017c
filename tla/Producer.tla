------------------------------ MODULE Producer ------------------------------
(***************************************************************************)
(* The producer of src/core/pub/producer.go on one connection: concurrent  *)
(* callers of Send and Close, the connection's reader task that routes     *)
(* inbound frames through the dispatcher and calls HandleCloseProducer,    *)
(* and the broker at the other end of the TCP stream.                      *)
(*                                                                         *)
(* Granularity.  Producer.Mu is a sync.RWMutex.  Send holds its read lock  *)
(* only around the IsClosed test, so that test is one step; Close holds    *)
(* the write lock from its start until it returns, across the round trip.  *)
(* SeqID.Next() is atomic, and it is merged with the IsClosed test: the    *)
(* only other actor that touches SeqID is another Send, so nothing is lost *)
(* by the merge.  The gap that matters, between taking a sequence id and   *)
(* writing the SEND frame, is kept.                                        *)
(*                                                                         *)
(* The dispatcher (core/frame, not in src/) is modelled from spec 4.2: a   *)
(* set of registrations, each a key owned by one waiting caller; notify    *)
(* hands the frame to the owner's receiver and consumes the slot, an       *)
(* unknown key drops the frame, cancel removes the caller's registrations. *)
(***************************************************************************)
EXTENDS Integers, Sequences

CONSTANTS
    Callers,        \* goroutines of the application calling Send and Close
    ReaderTask,     \* the connection's single reader goroutine
    NoOne,          \* "the write lock is free"
    MaxSeq,         \* bound on sequence ids handed out by SeqID.Next()
    MaxReq,         \* bound on request ids handed out by ReqID.Next()
    CtxExpires,     \* TRUE: callers pass contexts that carry a deadline
    BrokerMayClose, \* TRUE: the broker may send CLOSE_PRODUCER (failover)
    BrokerDedup,    \* TRUE: the broker deduplicates on sequence id
    WriteMayFail,   \* TRUE: a write to the connection may return an error
    ConnMayDrop,    \* TRUE: the TCP connection may be lost
    DrainOnClose    \* TRUE: losing the connection drains the dispatcher (spec 7)

ASSUME ConstantsAssumption ==
    /\ ReaderTask \notin Callers
    /\ NoOne \notin Callers \cup {ReaderTask}
    /\ MaxSeq \in Nat /\ MaxReq \in Nat
    /\ CtxExpires \in BOOLEAN
    /\ BrokerMayClose \in BOOLEAN
    /\ BrokerDedup \in BOOLEAN
    /\ WriteMayFail \in BOOLEAN
    /\ ConnMayDrop \in BOOLEAN
    /\ DrainOnClose \in BOOLEAN

VARIABLES
    pc,         \* pc[t]: where caller t is in Send or Close
    seqOf,      \* seqOf[t]: the sequence id of t's Send in progress
    reqOf,      \* reqOf[t]: the request id of t's Close in progress
    result,     \* result[t]: what t's last call returned
    isClosed,   \* Producer.IsClosed
    closedc,    \* TRUE once Producer.Closedc has been closed
    panicked,   \* TRUE once close() was called on a closed channel
    writer,     \* holder of Producer.Mu's write lock, or NoOne
    nextSeq,    \* Producer.SeqID.ID
    nextReq,    \* the client's ReqID.ID shared with the producer
    disp,       \* dispatcher registrations: [key, owner]
    inbox,      \* inbox[t]: frame handed to t's receiver, or NoFrame
    readerPc,   \* "recv" or "handleClose" (blocked on Mu in HandleCloseProducer)
    toBroker,   \* frames written to the socket, in order
    toClient,   \* frames written by the broker, in order
    bOpen,      \* the broker still has the producer open
    bLastSeq,   \* the highest sequence id the broker has accepted, or -1
    persisted,  \* sequence ids the broker has persisted
    connOpen    \* the connection is open (its close broadcast has not fired)

vars == <<pc, seqOf, reqOf, result, isClosed, closedc, panicked, writer, nextSeq,
          nextReq, disp, inbox, readerPc, toBroker, toClient, bOpen,
          bLastSeq, persisted, connOpen>>

-----------------------------------------------------------------------------
(* Frames are abstracted to their command type and the id that correlates *)
(* them: a sequence id for SEND and its answers, a request id for the     *)
(* CLOSE_PRODUCER request and its SUCCESS.                                *)

ClientCmds == {"SEND", "CLOSE_PRODUCER_REQ"}
BrokerCmds == {"SEND_RECEIPT", "SEND_ERROR", "SUCCESS", "CLOSE_PRODUCER"}
Ids == 0..(IF MaxSeq > MaxReq THEN MaxSeq ELSE MaxReq)
Frame(type, id) == [type |-> type, id |-> id]
ClientFrames == [type : ClientCmds, id : Ids]
BrokerFrames == [type : BrokerCmds, id : Ids]
NoFrame == Frame("NONE", 0)
\* What a receiver can hold: a broker answer, or the ConnectionClosed that a
\* registration drains to when the connection closes (spec 7).
Delivered == [type : BrokerCmds \cup {"CONN_CLOSED"}, id : Ids]

Keys == ({"seq", "req"} \X Ids)
Ops == {"none", "send", "close"}
Outcomes == {"none", "ok", "errClosed", "errCtx", "errRejected",
             "errUnexpected", "errRegistered", "errWrite"}
Result(op, out, id) == [op |-> op, out |-> out, id |-> id]
PCs == {"idle", "send_write", "send_wait", "close_wait"}

-----------------------------------------------------------------------------
(* The dispatcher, from spec 4.2 (core/frame is not under src/).          *)

Registered(k) == \E r \in disp : r.key = k

\* RegisterProdSeqIDs / RegisterReqID: add the slot k owned by t.
Register(k, t) == disp' = disp \cup {[key |-> k, owner |-> t]}

\* Variant of Cancel that releases the slots but leaves the receiver's
\* pending frame in place.
CancelKeepInbox(t) ==
    /\ disp' = {r \in disp : r.owner # t}
    /\ UNCHANGED inbox

\* The deferred cancel(): release t's slots and drop its receiver.
Cancel(t) ==
    /\ disp' = {r \in disp : r.owner # t}
    /\ inbox' = [inbox EXCEPT ![t] = NoFrame]

\* NotifyProdSeqIDs / NotifyReqID: hand f to the owner of k and consume the
\* slot; with no owner the frame is dropped (NoHandler).
Notify(k, f) ==
    IF Registered(k)
    THEN LET r == CHOOSE r \in disp : r.key = k
         IN  /\ inbox' = [inbox EXCEPT ![r.owner] = f]
             /\ disp' = disp \ {r}
    ELSE UNCHANGED <<disp, inbox>>

\* NotifyProdSeqIDs(prodID, seqID, f): the key space of SEND answers.
NotifyProdSeqIDs(f) == Notify(<<"seq", f.id>>, f)

\* NotifyReqID(reqID, f): the key space of request-id answers.
NotifyReqID(f) == Notify(<<"req", f.id>>, f)

\* close(p.Closedc): closing a closed channel panics.
CloseClosedc ==
    /\ closedc' = TRUE
    /\ panicked' = (panicked \/ closedc)

-----------------------------------------------------------------------------
Init ==
    /\ pc = [t \in Callers |-> "idle"]
    /\ seqOf = [t \in Callers |-> 0]
    /\ reqOf = [t \in Callers |-> 0]
    /\ result = [t \in Callers |-> Result("none", "none", 0)]
    /\ isClosed = FALSE
    /\ closedc = FALSE
    /\ panicked = FALSE
    /\ writer = NoOne
    /\ nextSeq = 0
    /\ nextReq = 0
    /\ disp = {}
    /\ inbox = [t \in Callers |-> NoFrame]
    /\ readerPc = "recv"
    /\ toBroker = <<>>
    /\ toClient = <<>>
    /\ bOpen = TRUE
    /\ bLastSeq = -1
    /\ persisted = {}
    /\ connOpen = TRUE

-----------------------------------------------------------------------------
(* Send (producer.go 77-141).                                             *)

\* Line 102: the dispatcher key of a SEND, (producerID, sequenceID).
SendKey(id) == <<"seq", id>>

\* Mutant: Send tests IsClosed without taking the read lock, so it runs
\* while a Close holds Mu.
SendBeginUnlocked(t) ==
    /\ pc[t] = "idle"
    /\ isClosed \/ nextSeq < MaxSeq
    /\ IF isClosed
       THEN /\ result' = [result EXCEPT ![t] = Result("send", "errClosed", 0)]
            /\ UNCHANGED <<pc, seqOf, reqOf, nextSeq>>
       ELSE /\ seqOf' = [seqOf EXCEPT ![t] = nextSeq]
            /\ nextSeq' = nextSeq + 1
            /\ pc' = [pc EXCEPT ![t] = "send_write"]
            /\ UNCHANGED result
    /\ UNCHANGED <<reqOf, isClosed, closedc, panicked, writer, nextReq, disp,
                   inbox, readerPc, toBroker, toClient, bOpen, bLastSeq,
                   persisted, connOpen>>

\* Lines 78-85: RLock, test IsClosed, RUnlock, take the next sequence id.
\* The read lock waits while Close or HandleCloseProducer holds Mu.
SendBegin(t) ==
    /\ pc[t] = "idle"
    /\ writer = NoOne
    /\ isClosed \/ nextSeq < MaxSeq
    /\ IF isClosed
       THEN /\ result' = [result EXCEPT ![t] = Result("send", "errClosed", 0)]
            /\ UNCHANGED <<pc, seqOf, reqOf, nextSeq>>
       ELSE /\ seqOf' = [seqOf EXCEPT ![t] = nextSeq]
            /\ nextSeq' = nextSeq + 1
            /\ pc' = [pc EXCEPT ![t] = "send_write"]
            /\ UNCHANGED result
    /\ UNCHANGED <<reqOf, isClosed, closedc, panicked, writer, nextReq, disp,
                   inbox, readerPc, toBroker, toClient, bOpen, bLastSeq,
                   persisted, connOpen>>

\* Variant of SendFail for a return that skips the deferred cancel and
\* leaves the slot registered.
SendFailLeak(t, out) ==
    /\ pc' = [pc EXCEPT ![t] = "idle"]
    /\ result' = [result EXCEPT ![t] = Result("send", out, seqOf[t])]
    /\ Register(SendKey(seqOf[t]), t)
    /\ UNCHANGED toBroker

\* A return of Send before the frame is on the wire: the registration, if
\* any, is released by the deferred cancel of line 106.
SendFail(t, out) ==
    /\ pc' = [pc EXCEPT ![t] = "idle"]
    /\ result' = [result EXCEPT ![t] = Result("send", out, seqOf[t])]
    /\ UNCHANGED <<disp, toBroker>>

\* Lines 102-114: register (producerID, sequenceID), run the trace hook and
\* write the SEND frame.  A taken key returns the dispatcher's error (103-104);
\* a failed write returns its error (112-113).  A write on a connection that
\* has been lost always fails; otherwise it fails when WriteMayFail.
SendWrite(t) ==
    /\ pc[t] = "send_write"
    /\ IF Registered(SendKey(seqOf[t]))
       THEN SendFail(t, "errRegistered")
       ELSE \/ (WriteMayFail \/ ~connOpen) /\ SendFail(t, "errWrite")
            \/ /\ connOpen
               /\ Register(SendKey(seqOf[t]), t)
               /\ toBroker' = Append(toBroker, Frame("SEND", seqOf[t]))
               /\ pc' = [pc EXCEPT ![t] = "send_wait"]
               /\ UNCHANGED result
    /\ UNCHANGED <<seqOf, reqOf, isClosed, closedc, panicked, writer, nextSeq,
                   nextReq, inbox, readerPc, toClient, bOpen, bLastSeq,
                   persisted, connOpen>>

\* Lines 117-140: the select.  Go picks any ready case; each case returns
\* and the deferred cancel() of line 106 releases the registration.
SendReturn(t, out) ==
    /\ pc' = [pc EXCEPT ![t] = "idle"]
    /\ result' = [result EXCEPT ![t] = Result("send", out, seqOf[t])]
    /\ Cancel(t)
    /\ UNCHANGED <<seqOf, reqOf, isClosed, closedc, panicked, writer, nextSeq,
                   nextReq, readerPc, toBroker, toClient, bOpen, bLastSeq,
                   persisted, connOpen>>

\* Variant of SendOutcome that hands the frame's type back unconverted.
SendOutcomeRaw(type) == type

\* Lines 125-139: the switch on the answer's type.
SendOutcome(type) ==
    IF type = "SEND_RECEIPT" THEN "ok"
    ELSE IF type = "SEND_ERROR" THEN "errRejected"
    ELSE "errUnexpected"

SendWait(t) ==
    /\ pc[t] = "send_wait"
    /\ \/ CtxExpires /\ SendReturn(t, "errCtx")
       \/ closedc /\ SendReturn(t, "errClosed")
       \/ /\ inbox[t] # NoFrame
          /\ SendReturn(t, SendOutcome(inbox[t].type))

-----------------------------------------------------------------------------
(* Close (producer.go 161-198).  Mu is held from line 162 to the return.  *)

\* Variant of CloseKey that registers in the sequence-id key space.
CloseKeySeq(id) == <<"seq", id>>

\* Line 179: the dispatcher key of CLOSE_PRODUCER, its request id.
CloseKey(id) == <<"req", id>>

\* Variant of CloseLock that leaves Mu free while Close waits for SUCCESS.
CloseLockShared(t) == UNCHANGED writer

\* Line 162: p.Mu.Lock(), held until the deferred Unlock of line 163.
CloseLock(t) == writer' = t

\* Lines 162-187: Lock; if already closed return nil; otherwise take a
\* request id, register it and write CLOSE_PRODUCER.  A taken key or a
\* failed write returns its error and the deferred Unlock releases Mu.  As in
\* SendWrite, a write on a lost connection always fails.
CloseBegin(t) ==
    /\ pc[t] = "idle"
    /\ writer = NoOne
    /\ isClosed \/ nextReq < MaxReq
    /\ IF isClosed
       THEN /\ result' = [result EXCEPT ![t] = Result("close", "ok", 0)]
            /\ UNCHANGED <<pc, reqOf, writer, nextReq, disp, toBroker>>
       ELSE /\ nextReq' = nextReq + 1
            /\ reqOf' = [reqOf EXCEPT ![t] = nextReq]
            /\ IF Registered(CloseKey(nextReq))
               THEN /\ result' = [result EXCEPT ![t] =
                                     Result("close", "errRegistered", nextReq)]
                    /\ UNCHANGED <<pc, writer, disp, toBroker>>
               ELSE \/ /\ WriteMayFail \/ ~connOpen
                       /\ result' = [result EXCEPT ![t] =
                                        Result("close", "errWrite", nextReq)]
                       /\ UNCHANGED <<pc, writer, disp, toBroker>>
                    \/ /\ connOpen
                       /\ Register(CloseKey(nextReq), t)
                       /\ toBroker' = Append(toBroker,
                                             Frame("CLOSE_PRODUCER_REQ", nextReq))
                       /\ CloseLock(t)
                       /\ pc' = [pc EXCEPT ![t] = "close_wait"]
                       /\ UNCHANGED result
    /\ UNCHANGED <<seqOf, isClosed, closedc, panicked, nextSeq, inbox,
                   readerPc, toClient, bOpen, bLastSeq,
                   persisted, connOpen>>

\* Variant of CloseWait whose response case sets IsClosed but does not
\* close Closedc.
CloseWaitNoBroadcast(t) ==
    /\ pc[t] = "close_wait"
    /\ \/ /\ CtxExpires
          /\ result' = [result EXCEPT ![t] = Result("close", "errCtx", 0)]
          /\ UNCHANGED <<isClosed, closedc, panicked>>
       \/ /\ inbox[t] # NoFrame
          /\ result' = [result EXCEPT ![t] = Result("close", "ok", 0)]
          /\ isClosed' = TRUE
          /\ UNCHANGED <<closedc, panicked>>
    /\ pc' = [pc EXCEPT ![t] = "idle"]
    /\ writer' = NoOne
    /\ Cancel(t)
    /\ UNCHANGED <<seqOf, reqOf, nextSeq, nextReq, readerPc, toBroker, toClient,
                   bOpen, bLastSeq, persisted, connOpen>>

\* Variant of CloseWait that also marks the producer closed when its
\* context expires.
CloseWaitCtxCloses(t) ==
    /\ pc[t] = "close_wait"
    /\ \/ CtxExpires \/ inbox[t] # NoFrame
    /\ result' = [result EXCEPT ![t] = Result("close", "ok", 0)]
    /\ isClosed' = TRUE
    /\ CloseClosedc
    /\ pc' = [pc EXCEPT ![t] = "idle"]
    /\ writer' = NoOne
    /\ Cancel(t)
    /\ UNCHANGED <<seqOf, reqOf, nextSeq, nextReq, readerPc, toBroker, toClient,
                   bOpen, bLastSeq, persisted, connOpen>>

\* Variant of CloseWait with Unlock called on the response path only: the
\* ctx.Done return leaves Mu locked.
CloseWaitKeepLock(t) ==
    /\ pc[t] = "close_wait"
    /\ \/ /\ CtxExpires
          /\ result' = [result EXCEPT ![t] = Result("close", "errCtx", 0)]
          /\ UNCHANGED <<isClosed, closedc, panicked, writer>>
       \/ /\ inbox[t] # NoFrame
          /\ result' = [result EXCEPT ![t] = Result("close", "ok", 0)]
          /\ isClosed' = TRUE
          /\ CloseClosedc
          /\ writer' = NoOne
    /\ pc' = [pc EXCEPT ![t] = "idle"]
    /\ Cancel(t)
    /\ UNCHANGED <<seqOf, reqOf, nextSeq, nextReq, readerPc, toBroker, toClient,
                   bOpen, bLastSeq, persisted, connOpen>>

\* Lines 189-197 with the deferred 163 and 183: on ctx.Done return the
\* error; on any response mark the producer closed and close Closedc.
\* Either way the registration is cancelled and Mu is released.
CloseWait(t) ==
    /\ pc[t] = "close_wait"
    /\ \/ /\ CtxExpires
          /\ result' = [result EXCEPT ![t] = Result("close", "errCtx", 0)]
          /\ UNCHANGED <<isClosed, closedc, panicked>>
       \/ /\ inbox[t] # NoFrame
          /\ result' = [result EXCEPT ![t] = Result("close", "ok", 0)]
          /\ isClosed' = TRUE
          /\ CloseClosedc
    /\ pc' = [pc EXCEPT ![t] = "idle"]
    /\ writer' = NoOne
    /\ Cancel(t)
    /\ UNCHANGED <<seqOf, reqOf, nextSeq, nextReq, readerPc, toBroker, toClient,
                   bOpen, bLastSeq, persisted, connOpen>>

-----------------------------------------------------------------------------
(* The reader task: one inbound frame at a time, routed as in spec 4.5.   *)

ReaderRecv ==
    /\ readerPc = "recv"
    /\ toClient # <<>>
    /\ LET f == Head(toClient) IN
       /\ toClient' = Tail(toClient)
       /\ \/ f.type \in {"SEND_RECEIPT", "SEND_ERROR"}
             /\ NotifyProdSeqIDs(f) /\ UNCHANGED readerPc
          \/ f.type = "SUCCESS"
             /\ NotifyReqID(f) /\ UNCHANGED readerPc
          \/ f.type = "CLOSE_PRODUCER"
             /\ readerPc' = "handleClose" /\ UNCHANGED <<disp, inbox>>
    /\ UNCHANGED <<pc, seqOf, reqOf, result, isClosed, closedc, panicked, writer,
                   nextSeq, nextReq, toBroker, bOpen, bLastSeq,
                   persisted, connOpen>>

\* HandleCloseProducer (producer.go 208-221), called on the reader task:
\* Lock; if not yet closed, mark closed and close Closedc.
HandleCloseProducer ==
    /\ readerPc = "handleClose"
    /\ writer = NoOne
    /\ IF isClosed
       THEN UNCHANGED <<isClosed, closedc, panicked>>
       ELSE isClosed' = TRUE /\ CloseClosedc
    /\ readerPc' = "recv"
    /\ UNCHANGED <<pc, seqOf, reqOf, result, writer, nextSeq, nextReq, disp, inbox,
                   toBroker, toClient, bOpen, bLastSeq,
                   persisted, connOpen>>

-----------------------------------------------------------------------------
(* The broker: the environment, not code of this repository.  It answers  *)
(* frames in the order it reads them.  With deduplication on, a SEND whose *)
(* sequence id is not above the last one accepted is acknowledged without *)
(* being persisted, as Pulsar's MessageDeduplication does.                *)

BrokerRecv ==
    /\ toBroker # <<>>
    /\ LET f == Head(toBroker) IN
       /\ toBroker' = Tail(toBroker)
       /\ \/ /\ f.type = "SEND" /\ ~bOpen
             /\ toClient' = Append(toClient, Frame("SEND_ERROR", f.id))
             /\ UNCHANGED <<bOpen, bLastSeq, persisted>>
          \/ /\ f.type = "SEND" /\ bOpen /\ BrokerDedup /\ f.id <= bLastSeq
             /\ toClient' = Append(toClient, Frame("SEND_RECEIPT", f.id))
             /\ UNCHANGED <<bOpen, bLastSeq, persisted>>
          \/ /\ f.type = "SEND" /\ bOpen /\ ~(BrokerDedup /\ f.id <= bLastSeq)
             /\ \/ /\ persisted' = persisted \cup {f.id}
                   /\ bLastSeq' = IF f.id > bLastSeq THEN f.id ELSE bLastSeq
                   /\ toClient' = Append(toClient, Frame("SEND_RECEIPT", f.id))
                \/ /\ toClient' = Append(toClient, Frame("SEND_ERROR", f.id))
                   /\ UNCHANGED <<bLastSeq, persisted>>
             /\ UNCHANGED bOpen
          \/ /\ f.type = "CLOSE_PRODUCER_REQ"
             /\ bOpen' = FALSE
             /\ toClient' = Append(toClient, Frame("SUCCESS", f.id))
             /\ UNCHANGED <<bLastSeq, persisted>>
    /\ UNCHANGED <<pc, seqOf, reqOf, result, isClosed, closedc, panicked, writer,
                   nextSeq, nextReq, disp, inbox, readerPc, connOpen>>

\* Graceful failover: the broker closes the producer on its own.
BrokerClose ==
    /\ BrokerMayClose
    /\ bOpen
    /\ bOpen' = FALSE
    /\ toClient' = Append(toClient, Frame("CLOSE_PRODUCER", 0))
    /\ UNCHANGED <<pc, seqOf, reqOf, result, isClosed, closedc, panicked, writer,
                   nextSeq, nextReq, disp, inbox, readerPc, toBroker,
                   bLastSeq, persisted, connOpen>>

\* Spec 7 (the dispatcher is not under src/): when the connection is closed
\* every registration drains to ConnectionClosed; its receiver gets that
\* frame and the slot is gone.
DrainRegistrations ==
    /\ inbox' = [t \in Callers |->
                    IF \E r \in disp : r.owner = t
                    THEN Frame("CONN_CLOSED", (CHOOSE r \in disp : r.owner = t).key[2])
                    ELSE inbox[t]]
    /\ disp' = {}

\* The connection is lost: Read's Decode fails and calls Conn.Close, which
\* closes the socket and Conn.Closedc and sets Conn.IsClosed.  Frames not
\* yet read on either side are lost, the broker drops the producers of the
\* connection, and later writes fail.  Conn.Close does nothing to the
\* dispatcher; the drain of spec 7 happens only when DrainOnClose.
ConnClose ==
    /\ ConnMayDrop /\ connOpen
    /\ connOpen' = FALSE
    /\ toBroker' = <<>> /\ toClient' = <<>>
    /\ bOpen' = FALSE
    /\ IF DrainOnClose THEN DrainRegistrations ELSE UNCHANGED <<disp, inbox>>
    /\ UNCHANGED <<pc, seqOf, reqOf, result, isClosed, closedc, panicked, writer,
                   nextSeq, nextReq, readerPc, bLastSeq, persisted>>

\* The model's bounds are used up and nothing is in flight: the behaviour
\* ends here (a stuttering step, so that TLC reports only real deadlocks).
BoundsExhausted ==
    /\ nextSeq = MaxSeq /\ nextReq = MaxReq
    /\ \A t \in Callers : pc[t] = "idle"
    /\ readerPc = "recv" /\ toBroker = <<>> /\ toClient = <<>>
    /\ UNCHANGED vars

-----------------------------------------------------------------------------
Next ==
    \/ \E t \in Callers :
          SendBegin(t) \/ SendWrite(t) \/ SendWait(t)
          \/ CloseBegin(t) \/ CloseWait(t)
    \/ ReaderRecv \/ HandleCloseProducer
    \/ BrokerRecv \/ BrokerClose \/ ConnClose
    \/ BoundsExhausted

\* Goroutines that can run are eventually scheduled; Go's mutex hands the
\* lock to a waiter that keeps asking (starvation mode), so the reader's
\* Lock in HandleCloseProducer is strongly fair.  Starting a call and the
\* broker's own close are choices of the environment and are not fair.
Fairness ==
    /\ \A t \in Callers :
          WF_vars(SendWrite(t)) /\ WF_vars(SendWait(t)) /\ WF_vars(CloseWait(t))
    /\ WF_vars(ReaderRecv)
    /\ SF_vars(HandleCloseProducer)
    /\ WF_vars(BrokerRecv)

Spec == Init /\ [][Next]_vars
FairSpec == Spec /\ Fairness

-----------------------------------------------------------------------------
(* Properties.                                                             *)

TypeOK ==
    /\ pc \in [Callers -> PCs]
    /\ seqOf \in [Callers -> Ids]
    /\ reqOf \in [Callers -> Ids]
    /\ result \in [Callers -> [op : Ops, out : Outcomes, id : Ids]]
    /\ isClosed \in BOOLEAN /\ closedc \in BOOLEAN /\ panicked \in BOOLEAN
    /\ writer \in Callers \cup {NoOne}
    /\ nextSeq \in 0..MaxSeq /\ nextReq \in 0..MaxReq
    /\ disp \in SUBSET [key : Keys, owner : Callers]
    /\ inbox \in [Callers -> Delivered \cup {NoFrame}]
    /\ readerPc \in {"recv", "handleClose"}
    /\ toBroker \in Seq(ClientFrames) /\ toClient \in Seq(BrokerFrames)
    /\ bOpen \in BOOLEAN
    /\ bLastSeq \in {-1} \cup Ids
    /\ persisted \in SUBSET Ids
    /\ connOpen \in BOOLEAN

\* Close and HandleCloseProducer both close Closedc; whatever order the
\* reader task and the callers run in, the channel is never closed twice
\* (a second close() would panic the process).
NoCloseOfClosedChannel == ~panicked

\* Closedc is closed exactly when IsClosed is set (lines 195-196 and
\* 217-218 set both under Mu), and the Close that holds Mu across its round
\* trip found the producer open.  So the IsClosed test before each close()
\* is a test on the channel itself; this is the inductive form of
\* NoCloseOfClosedChannel.
ClosedcMirrorsIsClosed ==
    /\ ~panicked
    /\ closedc = isClosed
    /\ \A t \in Callers : pc[t] = "close_wait" => writer = t /\ ~isClosed

\* What a call reports agrees with the broker: a Send that returned a
\* receipt had its message persisted, and once the client believes the
\* producer closed the broker has closed it.  This is what a caller relies
\* on to decide whether to resend.
OutcomesTruthful ==
    /\ \A t \in Callers :
          result[t].op = "send" /\ result[t].out = "ok" => result[t].id \in persisted
    /\ isClosed => ~bOpen

\* Every Send and Close that has gone past its lock (SendBegin and
\* CloseBegin are single steps, so a caller still waiting on Mu has not
\* started in the model) returns: its goroutine is not left forever in the
\* write or in the select of lines 117 and 189, waiting for an answer.
CallsReturn ==
    \A t \in Callers : (pc[t] # "idle") ~> (pc[t] = "idle")

\* The reader task, once blocked on Mu in HandleCloseProducer (line 209),
\* gets the lock and goes back to reading: whoever holds Mu, a Close waiting
\* for its SUCCESS included, lets it go.
ReaderResumes ==
    (readerPc = "handleClose") ~> (readerPc = "recv")

\* Every dispatcher slot is held by a caller blocked in the select on that
\* very key: the deferred cancel() on every return path of Send (line 106)
\* and Close (line 183) leaves no slot behind, and a slot is never
\* registered under another call's id.  A leaked slot would make a later
\* registration of the key fail with AlreadyRegistered.
RegistrationsHeldByWaiters ==
    \A r \in disp :
       \/ pc[r.owner] = "send_wait" /\ r.key = <<"seq", seqOf[r.owner]>>
       \/ pc[r.owner] = "close_wait" /\ r.key = <<"req", reqOf[r.owner]>>

\* The dispatcher correlates answers with requests: a frame on a caller's
\* receiver is the answer to the request that caller is waiting on, never
\* a late answer to an earlier call of it or to another caller's request.
\* This needs unique keys, the slot consumed on notify and the deferred
\* cancel on every return path of Send and Close.
AnswersReachTheirAsker ==
    \A t \in Callers : inbox[t] # NoFrame =>
       \/ /\ pc[t] = "send_wait"
          /\ inbox[t].type \in {"SEND_RECEIPT", "SEND_ERROR", "CONN_CLOSED"}
          /\ inbox[t].id = seqOf[t]
       \/ /\ pc[t] = "close_wait"
          /\ inbox[t].type \in {"SUCCESS", "CONN_CLOSED"}
          /\ inbox[t].id = reqOf[t]

=============================================================================
