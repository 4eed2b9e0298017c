--------------------------- MODULE Producer_proofs ---------------------------
(***************************************************************************)
(* Proofs about the Producer model, for every number of callers and every *)
(* bound on sequence and request ids.                                     *)
(***************************************************************************)
EXTENDS Producer, SequenceTheorems, TLAPS

-----------------------------------------------------------------------------
(* Typing of the values a step writes.                                     *)

LEMMA IdsFacts ==
    ASSUME ConstantsAssumption
    PROVE  /\ \A n \in Nat : n < MaxSeq => n \in Ids
           /\ \A n \in Nat : n < MaxReq => n \in Ids
           /\ 0 \in Ids
BY DEF ConstantsAssumption, Ids

LEMMA FrameTypes ==
    /\ \A c \in ClientCmds, i \in Ids : Frame(c, i) \in ClientFrames
    /\ \A c \in BrokerCmds, i \in Ids : Frame(c, i) \in BrokerFrames
BY DEF Frame, ClientFrames, BrokerFrames

\* The dispatcher's operators keep the registrations and receivers typed.
DispTyped == disp \in SUBSET [key : Keys, owner : Callers]
InboxTyped == inbox \in [Callers -> Delivered \cup {NoFrame}]

LEMMA RegisterType ==
    ASSUME NEW t \in Callers, NEW k \in Keys, DispTyped, Register(k, t)
    PROVE  DispTyped'
BY DEF Register, DispTyped

LEMMA CancelType ==
    ASSUME NEW t \in Callers, DispTyped, InboxTyped, Cancel(t)
    PROVE  DispTyped' /\ InboxTyped'
BY DEF Cancel, DispTyped, InboxTyped

LEMMA NotifyType ==
    ASSUME NEW k \in Keys, NEW f \in BrokerFrames, DispTyped, InboxTyped,
           Notify(k, f)
    PROVE  DispTyped' /\ InboxTyped'
<1>1. CASE Registered(k)
  <2>1. PICK r \in disp : r.key = k
    BY <1>1 DEF Registered
  <2>2. (CHOOSE q \in disp : q.key = k) \in disp
    BY <2>1
  <2>3. QED
    BY <1>1, <2>2 DEF Notify, DispTyped, InboxTyped, Delivered, BrokerFrames
<1>2. CASE ~Registered(k)
  BY <1>2 DEF Notify, DispTyped, InboxTyped
<1>3. QED
  BY <1>1, <1>2

-----------------------------------------------------------------------------
(* Type correctness.                                                       *)

\* Every step of the producer, the reader task and the broker keeps the
\* state well typed.
LEMMA TypeOKStep == TypeOK /\ [Next]_vars => TypeOK'
<1> USE ConstantsAssumption
<1> SUFFICES ASSUME TypeOK, [Next]_vars PROVE TypeOK'
  OBVIOUS
<1> USE DEF TypeOK, PCs, Ops, Outcomes, Result, DispTyped, InboxTyped
<1>1. ASSUME NEW t \in Callers, SendBegin(t) PROVE TypeOK'
  <2>1. CASE isClosed
    <3>1. result' \in [Callers -> [op : Ops, out : Outcomes, id : Ids]]
      <4>1. Result("send", "errClosed", 0) \in [op : Ops, out : Outcomes, id : Ids]
        BY IdsFacts
      <4>2. result' = [result EXCEPT ![t] = Result("send", "errClosed", 0)]
        BY <1>1, <2>1 DEF SendBegin
      <4>3. QED
        BY <4>1, <4>2
    <3>2. QED
      BY <1>1, <2>1, <3>1 DEF SendBegin
  <2>2. CASE ~isClosed
    <3>1. nextSeq < MaxSeq /\ nextSeq \in Ids
      BY <1>1, <2>2, IdsFacts DEF SendBegin
    <3>2. seqOf' \in [Callers -> Ids] /\ nextSeq' \in 0..MaxSeq
      BY <1>1, <2>2, <3>1 DEF SendBegin
    <3>3. pc' \in [Callers -> PCs]
      BY <1>1, <2>2 DEF SendBegin
    <3>4. QED
      BY <1>1, <2>2, <3>2, <3>3 DEF SendBegin
  <2>3. QED
    BY <2>1, <2>2
<1>2. ASSUME NEW t \in Callers, SendWrite(t) PROVE TypeOK'
  <2>1. SendKey(seqOf[t]) \in Keys
    BY DEF SendKey, Keys
  <2>2. Frame("SEND", seqOf[t]) \in ClientFrames
    BY FrameTypes DEF ClientCmds
  <2>3. CASE SendFail(t, "errRegistered") \/ SendFail(t, "errWrite")
    <3>1. result' \in [Callers -> [op : Ops, out : Outcomes, id : Ids]]
      BY <2>3 DEF SendFail
    <3>2. pc' \in [Callers -> PCs]
      BY <2>3 DEF SendFail
    <3>3. QED
      BY <1>2, <2>3, <3>1, <3>2 DEF SendWrite, SendFail
  <2>4. CASE /\ Register(SendKey(seqOf[t]), t)
             /\ toBroker' = Append(toBroker, Frame("SEND", seqOf[t]))
             /\ pc' = [pc EXCEPT ![t] = "send_wait"]
             /\ UNCHANGED result
    <3>1. DispTyped'
      BY <2>1, <2>4, RegisterType
    <3>2. toBroker' \in Seq(ClientFrames)
      BY <2>2, <2>4, AppendProperties
    <3>3. pc' \in [Callers -> PCs]
      BY <2>4
    <3>4. QED
      BY <1>2, <2>4, <3>1, <3>2, <3>3 DEF SendWrite
  <2>5. QED
    BY <1>2, <2>3, <2>4 DEF SendWrite
<1>3. ASSUME NEW t \in Callers, SendWait(t) PROVE TypeOK'
  <2>1. \A out \in Outcomes : SendReturn(t, out) => TypeOK'
    <3>1. SUFFICES ASSUME NEW out \in Outcomes, SendReturn(t, out) PROVE TypeOK'
      OBVIOUS
    <3>2. DispTyped' /\ InboxTyped'
      BY <3>1, CancelType DEF SendReturn
    <3>3. result' \in [Callers -> [op : Ops, out : Outcomes, id : Ids]]
      BY <3>1 DEF SendReturn
    <3>4. pc' \in [Callers -> PCs]
      BY <3>1 DEF SendReturn
    <3>5. QED
      BY <3>1, <3>2, <3>3, <3>4 DEF SendReturn
  <2>2. \A ty : SendOutcome(ty) \in Outcomes
    BY DEF SendOutcome
  <2>3. QED
    BY <1>3, <2>1, <2>2 DEF SendWait
<1>4. ASSUME NEW t \in Callers, CloseBegin(t) PROVE TypeOK'
  <2>1. CASE isClosed
    <3>1. result' \in [Callers -> [op : Ops, out : Outcomes, id : Ids]]
      <4>1. Result("close", "ok", 0) \in [op : Ops, out : Outcomes, id : Ids]
        BY IdsFacts
      <4>2. result' = [result EXCEPT ![t] = Result("close", "ok", 0)]
        BY <1>4, <2>1 DEF CloseBegin
      <4>3. QED
        BY <4>1, <4>2
    <3>2. QED
      BY <1>4, <2>1, <3>1 DEF CloseBegin
  <2>2. CASE ~isClosed
    <3>1. nextReq < MaxReq /\ nextReq \in Ids
      BY <1>4, <2>2, IdsFacts DEF CloseBegin
    <3>2. CloseKey(nextReq) \in Keys
      BY <3>1 DEF CloseKey, Keys
    <3>3. Frame("CLOSE_PRODUCER_REQ", nextReq) \in ClientFrames
      BY <3>1, FrameTypes DEF ClientCmds
    <3>4. reqOf' \in [Callers -> Ids] /\ nextReq' \in 0..MaxReq
      BY <1>4, <2>2, <3>1 DEF CloseBegin
    <3>5. CASE Registered(CloseKey(nextReq))
      <4>1. result' \in [Callers -> [op : Ops, out : Outcomes, id : Ids]]
        BY <1>4, <2>2, <3>1, <3>5 DEF CloseBegin
      <4>2. QED
        BY <1>4, <2>2, <3>4, <3>5, <4>1 DEF CloseBegin
    <3>6. CASE /\ result' = [result EXCEPT ![t] = Result("close", "errWrite", nextReq)]
               /\ UNCHANGED <<pc, writer, disp, toBroker>>
      <4>1. result' \in [Callers -> [op : Ops, out : Outcomes, id : Ids]]
        BY <3>1, <3>6
      <4>2. QED
        BY <1>4, <2>2, <3>4, <3>6, <4>1 DEF CloseBegin
    <3>7. CASE /\ Register(CloseKey(nextReq), t)
               /\ toBroker' = Append(toBroker, Frame("CLOSE_PRODUCER_REQ", nextReq))
               /\ CloseLock(t)
               /\ pc' = [pc EXCEPT ![t] = "close_wait"]
               /\ UNCHANGED result
      <4>1. DispTyped'
        BY <3>2, <3>7, RegisterType
      <4>2. toBroker' \in Seq(ClientFrames)
        BY <3>3, <3>7, AppendProperties
      <4>3. pc' \in [Callers -> PCs] /\ writer' \in Callers \cup {NoOne}
        BY <3>7 DEF CloseLock
      <4>4. QED
        BY <1>4, <2>2, <3>4, <3>7, <4>1, <4>2, <4>3 DEF CloseBegin
    <3>8. QED
      BY <1>4, <2>2, <3>5, <3>6, <3>7 DEF CloseBegin
  <2>3. QED
    BY <2>1, <2>2
<1>5. ASSUME NEW t \in Callers, CloseWait(t) PROVE TypeOK'
  <2>1. DispTyped' /\ InboxTyped'
    BY <1>5, CancelType DEF CloseWait
  <2>2. result' \in [Callers -> [op : Ops, out : Outcomes, id : Ids]]
    <3>1. \A out \in {"errCtx", "ok"} :
             [result EXCEPT ![t] = Result("close", out, 0)]
                \in [Callers -> [op : Ops, out : Outcomes, id : Ids]]
      BY IdsFacts
    <3>2. \E out \in {"errCtx", "ok"} :
             result' = [result EXCEPT ![t] = Result("close", out, 0)]
      BY <1>5 DEF CloseWait
    <3>3. QED
      BY <3>1, <3>2
  <2>3. isClosed' \in BOOLEAN /\ closedc' \in BOOLEAN /\ panicked' \in BOOLEAN
    BY <1>5 DEF CloseWait, CloseClosedc
  <2>4. pc' \in [Callers -> PCs] /\ writer' \in Callers \cup {NoOne}
    BY <1>5 DEF CloseWait
  <2>5. QED
    BY <1>5, <2>1, <2>2, <2>3, <2>4 DEF CloseWait
<1>6. CASE ReaderRecv
  <2>1. toClient # <<>> /\ Head(toClient) \in BrokerFrames
        /\ Tail(toClient) \in Seq(BrokerFrames)
    BY <1>6, HeadTailProperties DEF ReaderRecv
  <2>2. <<"seq", Head(toClient).id>> \in Keys /\ <<"req", Head(toClient).id>> \in Keys
    BY <2>1 DEF Keys, BrokerFrames
  <2>3. QED
    BY <1>6, <2>1, <2>2, NotifyType
    DEF ReaderRecv, NotifyProdSeqIDs, NotifyReqID
<1>7. CASE HandleCloseProducer
  BY <1>7 DEF HandleCloseProducer, CloseClosedc
<1>8. CASE BrokerRecv
  <2>1. toBroker # <<>> /\ Head(toBroker) \in ClientFrames
        /\ Tail(toBroker) \in Seq(ClientFrames)
    BY <1>8, HeadTailProperties DEF BrokerRecv
  <2>2. \A c \in BrokerCmds : Frame(c, Head(toBroker).id) \in BrokerFrames
    BY <2>1, FrameTypes DEF ClientFrames
  <2>3. /\ Append(toClient, Frame("SEND_ERROR", Head(toBroker).id)) \in Seq(BrokerFrames)
        /\ Append(toClient, Frame("SEND_RECEIPT", Head(toBroker).id)) \in Seq(BrokerFrames)
        /\ Append(toClient, Frame("SUCCESS", Head(toBroker).id)) \in Seq(BrokerFrames)
    BY <2>2, AppendProperties DEF BrokerCmds
  <2>4. Head(toBroker).id \in Ids
    BY <2>1 DEF ClientFrames
  <2>5. QED
    BY <1>8, <2>1, <2>3, <2>4 DEF BrokerRecv
<1>9. CASE BrokerClose
  <2>1. Frame("CLOSE_PRODUCER", 0) \in BrokerFrames
    BY IdsFacts, FrameTypes DEF BrokerCmds
  <2>2. QED
    BY <1>9, <2>1, AppendProperties DEF BrokerClose
<1>10. CASE BoundsExhausted
  BY <1>10 DEF BoundsExhausted, vars
<1>11. CASE UNCHANGED vars
  BY <1>11 DEF vars
<1>12. CASE ConnClose
  <2>1. ASSUME NEW t \in Callers, \E r \in disp : r.owner = t
        PROVE  Frame("CONN_CLOSED", (CHOOSE r \in disp : r.owner = t).key[2])
                  \in Delivered
    <3>1. (CHOOSE r \in disp : r.owner = t) \in [key : Keys, owner : Callers]
      BY <2>1
    <3>2. QED
      BY <3>1 DEF Keys, Frame, Delivered
  <2>2. /\ inbox' \in [Callers -> Delivered \cup {NoFrame}]
        /\ disp' \in SUBSET [key : Keys, owner : Callers]
    <3>1. CASE DrainOnClose
      <4>1. DrainRegistrations
        BY <1>12, <3>1 DEF ConnClose
      <4>2. QED
        BY <2>1, <4>1 DEF DrainRegistrations
    <3>2. CASE ~DrainOnClose
      BY <1>12, <3>2 DEF ConnClose
    <3>3. QED
      BY <3>1, <3>2
  <2>3. toBroker' \in Seq(ClientFrames) /\ toClient' \in Seq(BrokerFrames)
    BY <1>12, EmptySeq DEF ConnClose
  <2>4. QED
    BY <1>12, <2>2, <2>3 DEF ConnClose
<1>13. QED
  BY <1>1, <1>2, <1>3, <1>4, <1>5, <1>6, <1>7, <1>8, <1>9, <1>10, <1>11,
     <1>12 DEF Next

\* The initial state is well typed.
LEMMA InitTypeOK == Init => TypeOK
<1> USE ConstantsAssumption
<1>1. Init => TypeOK
  <2> SUFFICES ASSUME Init PROVE TypeOK
    OBVIOUS
  <2>1. 0 \in Ids
    BY IdsFacts
  <2>2. result \in [Callers -> [op : Ops, out : Outcomes, id : Ids]]
    BY <2>1 DEF Init, Result, Ops, Outcomes
  <2>3. inbox \in [Callers -> Delivered \cup {NoFrame}]
    BY DEF Init
  <2>4. pc \in [Callers -> PCs] /\ seqOf \in [Callers -> Ids]
        /\ reqOf \in [Callers -> Ids]
    BY <2>1 DEF Init, PCs
  <2>5. toBroker \in Seq(ClientFrames) /\ toClient \in Seq(BrokerFrames)
    BY EmptySeq DEF Init
  <2>6. /\ nextSeq \in 0..MaxSeq /\ nextReq \in 0..MaxReq
        /\ bLastSeq \in {-1} \cup Ids /\ writer \in Callers \cup {NoOne}
    BY DEF Init
  <2>7. disp \in SUBSET [key : Keys, owner : Callers] /\ persisted \in SUBSET Ids
    BY Zenon DEF Init
  <2>9. /\ isClosed \in BOOLEAN /\ closedc \in BOOLEAN /\ panicked \in BOOLEAN
        /\ readerPc \in {"recv", "handleClose"} /\ bOpen \in BOOLEAN
        /\ connOpen \in BOOLEAN
    BY DEF Init
  <2>8. QED
    BY <2>2, <2>3, <2>4, <2>5, <2>6, <2>7, <2>9 DEF TypeOK
<1>2. QED
  BY <1>1

\* Whatever Send, Close, the reader task, the broker and a lost connection
\* do, every variable keeps its type, for any callers and any bounds.
THEOREM TypeCorrect == Spec => []TypeOK
BY InitTypeOK, TypeOKStep, PTL DEF Spec

-----------------------------------------------------------------------------
(* Closedc is never closed twice.                                          *)

\* Every step keeps Closedc in step with IsClosed and keeps the producer
\* open while a Close holds Mu, given that the state is well typed.
LEMMA MirrorStep ==
    TypeOK /\ ClosedcMirrorsIsClosed /\ [Next]_vars => ClosedcMirrorsIsClosed'
<1> USE ConstantsAssumption
<1> SUFFICES ASSUME TypeOK, ClosedcMirrorsIsClosed, [Next]_vars
             PROVE  ClosedcMirrorsIsClosed'
  OBVIOUS
<1> USE DEF ClosedcMirrorsIsClosed, TypeOK
<1>1. ASSUME NEW t \in Callers, SendBegin(t) PROVE ClosedcMirrorsIsClosed'
  BY <1>1 DEF SendBegin
<1>2. ASSUME NEW t \in Callers, SendWrite(t) PROVE ClosedcMirrorsIsClosed'
  BY <1>2 DEF SendWrite, SendFail, Register
<1>3. ASSUME NEW t \in Callers, SendWait(t) PROVE ClosedcMirrorsIsClosed'
  BY <1>3 DEF SendWait, SendReturn, Cancel
<1>4. ASSUME NEW t \in Callers, CloseBegin(t) PROVE ClosedcMirrorsIsClosed'
  <2>1. \A u \in Callers : pc[u] # "close_wait"
    BY <1>4, ConstantsAssumption DEF CloseBegin
  <2>2. QED
    BY <1>4, <2>1 DEF CloseBegin, CloseLock
<1>5. ASSUME NEW t \in Callers, CloseWait(t) PROVE ClosedcMirrorsIsClosed'
  <2>1. writer = t /\ ~isClosed /\ ~closedc
    BY <1>5 DEF CloseWait
  <2>2. \A u \in Callers \ {t} : pc[u] # "close_wait"
    BY <2>1
  <2>3. ~panicked' /\ closedc' = isClosed'
    <3>1. CASE UNCHANGED <<isClosed, closedc, panicked>>
      BY <3>1
    <3>2. CASE isClosed' = TRUE /\ CloseClosedc
      BY <2>1, <3>2, Zenon DEF CloseClosedc
    <3>3. QED
      BY <1>5, <3>1, <3>2 DEF CloseWait
  <2>4. \A u \in Callers : pc'[u] # "close_wait"
    BY <1>5, <2>2 DEF CloseWait
  <2>5. QED
    BY <2>3, <2>4
<1>6. CASE ReaderRecv
  BY <1>6 DEF ReaderRecv, NotifyProdSeqIDs, NotifyReqID, Notify
<1>7. CASE HandleCloseProducer
  <2>1. \A u \in Callers : pc[u] # "close_wait"
    BY <1>7, ConstantsAssumption DEF HandleCloseProducer
  <2>2. QED
    BY <1>7, <2>1 DEF HandleCloseProducer, CloseClosedc
<1>8. CASE BrokerRecv
  BY <1>8 DEF BrokerRecv
<1>9. CASE BrokerClose
  BY <1>9 DEF BrokerClose
<1>10. CASE BoundsExhausted \/ UNCHANGED vars
  BY <1>10 DEF BoundsExhausted, vars
<1>11. CASE ConnClose
  BY <1>11 DEF ConnClose
<1>12. QED
  BY <1>1, <1>2, <1>3, <1>4, <1>5, <1>6, <1>7, <1>8, <1>9, <1>10, <1>11
  DEF Next

\* Close (lines 313-314) and HandleCloseProducer (lines 336-337) never
\* close Closedc when it is already closed, for any number of callers and
\* any bounds: the process never panics on a double close.
THEOREM NoDoubleClose == Spec => []NoCloseOfClosedChannel
<1>1. Init => ClosedcMirrorsIsClosed
  BY DEF Init, ClosedcMirrorsIsClosed
<1>2. ClosedcMirrorsIsClosed => NoCloseOfClosedChannel
  BY DEF ClosedcMirrorsIsClosed, NoCloseOfClosedChannel
<1>3. QED
  BY <1>1, <1>2, MirrorStep, TypeCorrect, PTL DEF Spec

\* While a Close waits for SUCCESS with Mu held (lines 162-163, 189-193),
\* the producer stays open and no other close can run, and Closedc is
\* closed exactly when IsClosed is set (lines 194-195 and 217-218).
THEOREM ClosedcTracksIsClosed == Spec => []ClosedcMirrorsIsClosed
<1>1. Init => ClosedcMirrorsIsClosed
  BY DEF Init, ClosedcMirrorsIsClosed
<1>2. QED
  BY <1>1, MirrorStep, TypeCorrect, PTL DEF Spec

-----------------------------------------------------------------------------
(* Answers reach the caller that asked for them.                           *)

\* The inductive invariant: slots are held by waiters on their own key, and
\* receivers hold only answers to the call in progress.
AnswerInv == RegistrationsHeldByWaiters /\ AnswersReachTheirAsker

\* A caller that is not in a select owns no slot and has an empty receiver.
LEMMA IdleCallerHoldsNothing ==
    ASSUME TypeOK, AnswerInv, NEW t \in Callers,
           pc[t] \notin {"send_wait", "close_wait"}
    PROVE  /\ \A r \in disp : r.owner # t
           /\ inbox[t] = NoFrame
BY DEF AnswerInv, RegistrationsHeldByWaiters, AnswersReachTheirAsker, TypeOK

\* A step that leaves the callers, the slots and the receivers alone keeps
\* the invariant.
LEMMA AnswerInvFrame ==
    ASSUME AnswerInv, UNCHANGED <<pc, seqOf, reqOf, disp, inbox>>
    PROVE  AnswerInv'
BY DEF AnswerInv, RegistrationsHeldByWaiters, AnswersReachTheirAsker

\* A caller t that owns nothing changes its own pc, ids and slots: the
\* invariant holds for the others, and for t as the new state says.
LEMMA AnswerInvOneCaller ==
    ASSUME TypeOK, AnswerInv, NEW t \in Callers,
           \A r \in disp : r.owner # t, inbox[t] = NoFrame,
           \E p \in PCs, s \in Ids, q \in Ids :
              /\ pc' = [pc EXCEPT ![t] = p]
              /\ seqOf' = [seqOf EXCEPT ![t] = s]
              /\ reqOf' = [reqOf EXCEPT ![t] = q],
           inbox' = inbox,
           \/ disp' = disp
           \/ /\ pc'[t] = "send_wait"
              /\ disp' = disp \cup {[key |-> <<"seq", seqOf'[t]>>, owner |-> t]}
           \/ /\ pc'[t] = "close_wait"
              /\ disp' = disp \cup {[key |-> <<"req", reqOf'[t]>>, owner |-> t]}
    PROVE  AnswerInv'
BY DEF AnswerInv, RegistrationsHeldByWaiters, AnswersReachTheirAsker, TypeOK

\* The deferred cancel of a returning caller keeps the invariant.
LEMMA AnswerInvCancel ==
    ASSUME TypeOK, AnswerInv, NEW t \in Callers, Cancel(t),
           pc' = [pc EXCEPT ![t] = "idle"], UNCHANGED <<seqOf, reqOf>>
    PROVE  AnswerInv'
BY DEF AnswerInv, RegistrationsHeldByWaiters, AnswersReachTheirAsker, TypeOK,
       Cancel

\* Notifying a key of the answer's own key space hands the frame to a
\* caller waiting on exactly that id.
LEMMA AnswerInvNotify ==
    ASSUME TypeOK, AnswerInv, NEW f \in BrokerFrames, NEW k,
           \/ k = <<"seq", f.id>> /\ f.type \in {"SEND_RECEIPT", "SEND_ERROR"}
           \/ k = <<"req", f.id>> /\ f.type = "SUCCESS",
           Notify(k, f), UNCHANGED <<pc, seqOf, reqOf>>
    PROVE  AnswerInv'
<1>1. CASE ~Registered(k)
  BY <1>1 DEF Notify, AnswerInv, RegistrationsHeldByWaiters,
     AnswersReachTheirAsker
<1>2. CASE Registered(k)
  <2>1. PICK r0 \in disp : r0.key = k
    BY <1>2 DEF Registered
  <2> DEFINE r == CHOOSE q \in disp : q.key = k
  <2>2. r \in disp /\ r.key = k
    BY <2>1
  <2>3. inbox' = [inbox EXCEPT ![r.owner] = f] /\ disp' = disp \ {r}
    BY <1>2 DEF Notify
  <2>4. r.owner \in Callers
    BY <2>2 DEF TypeOK
  <2>5. \/ pc[r.owner] = "send_wait" /\ f.type \in {"SEND_RECEIPT", "SEND_ERROR"}
           /\ f.id = seqOf[r.owner]
        \/ pc[r.owner] = "close_wait" /\ f.type = "SUCCESS"
           /\ f.id = reqOf[r.owner]
    BY <2>2 DEF AnswerInv, RegistrationsHeldByWaiters
  <2>6. RegistrationsHeldByWaiters'
    BY <2>3 DEF AnswerInv, RegistrationsHeldByWaiters
  <2>7. AnswersReachTheirAsker'
    BY <2>3, <2>4, <2>5 DEF AnswerInv, AnswersReachTheirAsker, TypeOK
  <2>8. QED
    BY <2>6, <2>7 DEF AnswerInv
<1>3. QED
  BY <1>1, <1>2

\* Draining the registrations when the connection closes hands each waiter
\* a ConnectionClosed carrying its own id.
LEMMA AnswerInvDrain ==
    ASSUME TypeOK, AnswerInv, ConnClose
    PROVE  AnswerInv'
<1>1. CASE ~DrainOnClose
  <2>1. UNCHANGED <<pc, seqOf, reqOf, disp, inbox>>
    BY <1>1 DEF ConnClose
  <2>2. QED
    BY <2>1 DEF AnswerInv, RegistrationsHeldByWaiters, AnswersReachTheirAsker
<1>2. CASE DrainOnClose
  <2>0. DrainRegistrations /\ UNCHANGED <<pc, seqOf, reqOf>>
    BY <1>2 DEF ConnClose
  <2>1. RegistrationsHeldByWaiters'
    BY <2>0 DEF DrainRegistrations, RegistrationsHeldByWaiters
  <2>2. ASSUME NEW t \in Callers, \E r \in disp : r.owner = t
        PROVE  LET r == CHOOSE r \in disp : r.owner = t IN
               \/ pc[t] = "send_wait" /\ r.key[2] = seqOf[t]
               \/ pc[t] = "close_wait" /\ r.key[2] = reqOf[t]
    <3> DEFINE r == CHOOSE q \in disp : q.owner = t
    <3>1. r \in disp /\ r.owner = t
      BY <2>2
    <3>2. QED
      BY <3>1 DEF AnswerInv, RegistrationsHeldByWaiters
  <2>3. AnswersReachTheirAsker'
    BY <2>0, <2>2, Zenon DEF DrainRegistrations, AnswerInv,
       AnswersReachTheirAsker, Frame
  <2>4. QED
    BY <2>1, <2>3 DEF AnswerInv
<1>3. QED
  BY <1>1, <1>2

\* Every step keeps the slots and receivers correlated with the calls.
LEMMA AnswerStep == TypeOK /\ AnswerInv /\ [Next]_vars => AnswerInv'
<1> USE ConstantsAssumption
<1> SUFFICES ASSUME TypeOK, AnswerInv, [Next]_vars PROVE AnswerInv'
  OBVIOUS
<1>1. ASSUME NEW t \in Callers, SendBegin(t) PROVE AnswerInv'
  <2>1. CASE isClosed
    BY <1>1, <2>1, AnswerInvFrame DEF SendBegin
  <2>2. CASE ~isClosed
    <3>1. (\A r \in disp : r.owner # t) /\ inbox[t] = NoFrame
      BY <1>1, IdleCallerHoldsNothing DEF SendBegin
    <3>2. nextSeq \in Ids
      BY <1>1, <2>2, IdsFacts DEF SendBegin, TypeOK
    <3>3. reqOf = [reqOf EXCEPT ![t] = reqOf[t]] /\ reqOf[t] \in Ids
      BY DEF TypeOK
    <3>4. /\ pc' = [pc EXCEPT ![t] = "send_write"]
          /\ seqOf' = [seqOf EXCEPT ![t] = nextSeq]
          /\ reqOf' = reqOf /\ inbox' = inbox /\ disp' = disp
      BY <1>1, <2>2 DEF SendBegin
    <3>5. QED
      BY <3>1, <3>2, <3>3, <3>4, AnswerInvOneCaller DEF PCs
  <2>3. QED
    BY <2>1, <2>2
<1>2. ASSUME NEW t \in Callers, SendWrite(t) PROVE AnswerInv'
  <2>1. (\A r \in disp : r.owner # t) /\ inbox[t] = NoFrame
    BY <1>2, IdleCallerHoldsNothing DEF SendWrite
  <2>2. /\ seqOf = [seqOf EXCEPT ![t] = seqOf[t]] /\ seqOf[t] \in Ids
        /\ reqOf = [reqOf EXCEPT ![t] = reqOf[t]] /\ reqOf[t] \in Ids
    BY DEF TypeOK
  <2>3. /\ seqOf' = seqOf /\ reqOf' = reqOf /\ inbox' = inbox
    BY <1>2 DEF SendWrite
  <2>4. CASE SendFail(t, "errRegistered") \/ SendFail(t, "errWrite")
    <3>1. pc' = [pc EXCEPT ![t] = "idle"] /\ disp' = disp
      BY <2>4 DEF SendFail
    <3>2. QED
      BY <2>1, <2>2, <2>3, <3>1, AnswerInvOneCaller DEF PCs
  <2>5. CASE /\ Register(SendKey(seqOf[t]), t)
             /\ toBroker' = Append(toBroker, Frame("SEND", seqOf[t]))
             /\ pc' = [pc EXCEPT ![t] = "send_wait"]
             /\ UNCHANGED result
    <3>1. /\ pc'[t] = "send_wait"
          /\ disp' = disp \cup {[key |-> <<"seq", seqOf'[t]>>, owner |-> t]}
      BY <2>3, <2>5 DEF Register, SendKey, TypeOK
    <3>2. QED
      BY <2>1, <2>2, <2>3, <2>5, <3>1, AnswerInvOneCaller DEF PCs
  <2>6. QED
    BY <1>2, <2>4, <2>5 DEF SendWrite
<1>3. ASSUME NEW t \in Callers, SendWait(t) PROVE AnswerInv'
  <2>1. \E out : SendReturn(t, out)
    BY <1>3 DEF SendWait
  <2>2. QED
    BY <2>1, AnswerInvCancel DEF SendReturn
<1>4. ASSUME NEW t \in Callers, CloseBegin(t) PROVE AnswerInv'
  <2>1. CASE isClosed
    BY <1>4, <2>1, AnswerInvFrame DEF CloseBegin
  <2>2. CASE ~isClosed
    <3>1. (\A r \in disp : r.owner # t) /\ inbox[t] = NoFrame
      BY <1>4, IdleCallerHoldsNothing DEF CloseBegin
    <3>2. nextReq \in Ids
      <4>1. nextReq < MaxReq /\ nextReq \in Nat
        BY <1>4, <2>2 DEF CloseBegin, TypeOK
      <4>2. QED
        BY <4>1, IdsFacts
    <3>3. /\ seqOf = [seqOf EXCEPT ![t] = seqOf[t]] /\ seqOf[t] \in Ids
          /\ pc = [pc EXCEPT ![t] = pc[t]] /\ pc[t] \in PCs
      BY DEF TypeOK
    <3>4. /\ reqOf' = [reqOf EXCEPT ![t] = nextReq]
          /\ seqOf' = seqOf /\ inbox' = inbox
      BY <1>4, <2>2 DEF CloseBegin
    <3>5. CASE UNCHANGED <<pc, disp>>
      BY <3>1, <3>2, <3>3, <3>4, <3>5, AnswerInvOneCaller
    <3>6. CASE /\ Register(CloseKey(nextReq), t)
               /\ CloseLock(t)
               /\ pc' = [pc EXCEPT ![t] = "close_wait"]
      <4>1. /\ pc'[t] = "close_wait"
            /\ disp' = disp \cup {[key |-> <<"req", reqOf'[t]>>, owner |-> t]}
        BY <3>4, <3>6 DEF Register, CloseKey, TypeOK
      <4>2. QED
        BY <3>1, <3>2, <3>3, <3>4, <3>6, <4>1, AnswerInvOneCaller DEF PCs
    <3>7. QED
      BY <1>4, <2>2, <3>5, <3>6 DEF CloseBegin
  <2>3. QED
    BY <2>1, <2>2
<1>5. ASSUME NEW t \in Callers, CloseWait(t) PROVE AnswerInv'
  BY <1>5, AnswerInvCancel DEF CloseWait
<1>6. CASE ReaderRecv
  <2> DEFINE f == Head(toClient)
  <2>1. f \in BrokerFrames
    BY <1>6, HeadTailProperties DEF ReaderRecv, TypeOK
  <2>2. UNCHANGED <<pc, seqOf, reqOf>>
    BY <1>6 DEF ReaderRecv
  <2>3. CASE f.type \in {"SEND_RECEIPT", "SEND_ERROR"} /\ NotifyProdSeqIDs(f)
    BY <2>1, <2>2, <2>3, AnswerInvNotify DEF NotifyProdSeqIDs
  <2>4. CASE f.type = "SUCCESS" /\ NotifyReqID(f)
    BY <2>1, <2>2, <2>3, <2>4, AnswerInvNotify DEF NotifyReqID
  <2>5. CASE UNCHANGED <<disp, inbox>>
    BY <2>2, <2>5, AnswerInvFrame
  <2>6. QED
    BY <1>6, <2>3, <2>4, <2>5 DEF ReaderRecv
<1>7. CASE \/ HandleCloseProducer \/ BrokerRecv \/ BrokerClose
           \/ BoundsExhausted \/ UNCHANGED vars
  BY <1>7, AnswerInvFrame
  DEF HandleCloseProducer, BrokerRecv, BrokerClose, BoundsExhausted, vars
<1>8. CASE ConnClose
  BY <1>8, AnswerInvDrain
<1>9. QED
  BY <1>1, <1>2, <1>3, <1>4, <1>5, <1>6, <1>7, <1>8 DEF Next

\* Whatever order the callers, the reader task and the broker run in, a
\* frame on a caller's receiver answers the Send or Close it is blocked in:
\* unique keys, the slot consumed by notify and the deferred cancel of
\* lines 106 and 183 make the dispatcher's correlation exact.
THEOREM AnswersCorrelated == Spec => []AnswersReachTheirAsker
<1>1. Init => AnswerInv
  BY DEF Init, AnswerInv, RegistrationsHeldByWaiters, AnswersReachTheirAsker
<1>2. AnswerInv => AnswersReachTheirAsker
  BY DEF AnswerInv
<1>3. QED
  BY <1>1, <1>2, AnswerStep, TypeCorrect, PTL DEF Spec


\* The deferred cancel of every return path of Send (line 106) and Close
\* (line 183), and the drain of a closed connection, leave no dispatcher
\* slot behind: every slot is held by a caller blocked on that very key.
THEOREM NoLeakedRegistration == Spec => []RegistrationsHeldByWaiters
<1>1. Init => AnswerInv
  BY DEF Init, AnswerInv, RegistrationsHeldByWaiters, AnswersReachTheirAsker
<1>2. AnswerInv => RegistrationsHeldByWaiters
  BY DEF AnswerInv
<1>3. QED
  BY <1>1, <1>2, AnswerStep, TypeCorrect, PTL DEF Spec

-----------------------------------------------------------------------------
(* Outcomes agree with the broker when it does not deduplicate.            *)

\* The frames of a sequence, as a set.
Elems(s) == {s[i] : i \in DOMAIN s}

\* The frames of a sequence under Append, Head and Tail.
LEMMA ElemsFacts ==
    ASSUME NEW S, NEW s \in Seq(S)
    PROVE  /\ \A x : Elems(Append(s, x)) = Elems(s) \cup {x}
           /\ s # <<>> => Head(s) \in Elems(s) /\ Elems(Tail(s)) \subseteq Elems(s)
           /\ Elems(<<>>) = {}
           /\ Elems(s) \subseteq S
<1>1. \A x : Elems(Append(s, x)) = Elems(s) \cup {x}
  <2> SUFFICES ASSUME NEW x PROVE Elems(Append(s, x)) = Elems(s) \cup {x}
    OBVIOUS
  <2>1. DOMAIN Append(s, x) = 1..(Len(s) + 1) /\ DOMAIN s = 1..Len(s)
    BY AppendProperties
  <2>2. \A i \in 1..Len(s) : Append(s, x)[i] = s[i]
    BY AppendProperties
  <2>3. Append(s, x)[Len(s) + 1] = x
    BY AppendProperties
  <2>4. QED
    BY <2>1, <2>2, <2>3 DEF Elems
<1>2. s # <<>> => Head(s) \in Elems(s) /\ Elems(Tail(s)) \subseteq Elems(s)
  <2> SUFFICES ASSUME s # <<>> PROVE Head(s) \in Elems(s) /\ Elems(Tail(s)) \subseteq Elems(s)
    OBVIOUS
  <2>1. Len(s) >= 1 /\ DOMAIN s = 1..Len(s) /\ Head(s) = s[1]
    BY EmptySeq, LenProperties
  <2>2. DOMAIN Tail(s) = 1..(Len(s) - 1) /\ \A i \in 1..(Len(s) - 1) : Tail(s)[i] = s[i + 1]
    BY HeadTailProperties
  <2>3. QED
    BY <2>1, <2>2 DEF Elems
<1>3. Elems(<<>>) = {}
  BY DEF Elems
<1>4. Elems(s) \subseteq S
  BY DEF Elems
<1>5. QED
  BY <1>1, <1>2, <1>3, <1>4

\* The inductive invariant behind OutcomesTruthful.  A receipt anywhere on
\* its way to a caller names a persisted message; a SUCCESS, a
\* CLOSE_PRODUCER or a drained ConnectionClosed exists only once the broker
\* dropped the producer; a SEND on the wire carries an id already handed
\* out, as does the Send in progress.
TruthWire ==
    \A f \in Elems(toClient) :
       /\ f.type = "SEND_RECEIPT" => f.id \in persisted
       /\ f.type \in {"SUCCESS", "CLOSE_PRODUCER"} => ~bOpen
TruthInbox ==
    \A t \in Callers :
       /\ inbox[t].type = "SEND_RECEIPT" => inbox[t].id \in persisted
       /\ inbox[t].type \in {"SUCCESS", "CONN_CLOSED"} => ~bOpen
TruthResults ==
    \A t \in Callers :
       result[t].op = "send" /\ result[t].out = "ok" => result[t].id \in persisted
TruthIds ==
    /\ \A t \in Callers : pc[t] \in {"send_write", "send_wait"} => seqOf[t] < nextSeq
    /\ \A f \in Elems(toBroker) : f.type = "SEND" => f.id < nextSeq
TruthClose ==
    /\ readerPc = "handleClose" => ~bOpen
    /\ isClosed => ~bOpen
TruthInv == TruthWire /\ TruthInbox /\ TruthResults /\ TruthIds /\ TruthClose

\* A step that touches none of the state TruthInv reads keeps it.
LEMMA TruthFrame ==
    ASSUME TruthInv,
           UNCHANGED <<toClient, toBroker, inbox, result, pc, seqOf, nextSeq,
                       persisted, bOpen, readerPc, isClosed>>
    PROVE  TruthInv'
BY DEF TruthInv, TruthWire, TruthInbox, TruthResults, TruthIds, TruthClose

\* Once the broker has dropped the producer, the conjuncts about closing
\* hold whatever the step does.
LEMMA TruthWhenDropped ==
    ASSUME ~bOpen'
    PROVE  /\ TruthClose'
           /\ TruthWire' <=> \A f \in Elems(toClient') :
                               f.type = "SEND_RECEIPT" => f.id \in persisted'
           /\ TruthInbox' <=> \A t \in Callers :
                               inbox'[t].type = "SEND_RECEIPT" => inbox'[t].id \in persisted'
BY DEF TruthClose, TruthWire, TruthInbox

\* A frame the broker appends to the wire keeps TruthWire when it tells the
\* truth, as long as the broker forgets nothing it stored and does not
\* reopen the producer.
LEMMA TruthWireAppend ==
    ASSUME TypeOK, TruthWire, NEW g,
           toClient' = Append(toClient, g),
           persisted \subseteq persisted', bOpen' => bOpen,
           g.type = "SEND_RECEIPT" => g.id \in persisted',
           g.type \in {"SUCCESS", "CLOSE_PRODUCER"} => ~bOpen'
    PROVE  TruthWire'
<1>1. Elems(toClient') = Elems(toClient) \cup {g}
  BY ElemsFacts DEF TypeOK
<1>2. QED
  BY <1>1 DEF TruthWire

\* A send that was issued an id has an id below the next one, also after
\* SeqID.Next() moves on.
LEMMA IdsBelowNext ==
    ASSUME TypeOK, TruthIds, UNCHANGED toBroker,
           \/ UNCHANGED <<pc, seqOf, nextSeq>>
           \/ \E t \in Callers :
                 /\ nextSeq' = nextSeq + 1
                 /\ seqOf' = [seqOf EXCEPT ![t] = nextSeq]
                 /\ pc' = [pc EXCEPT ![t] = "send_write"]
           \/ /\ UNCHANGED <<seqOf, nextSeq>>
              /\ \A t \in Callers : pc'[t] \in {"send_write", "send_wait"}
                                      => pc[t] \in {"send_write", "send_wait"}
    PROVE  TruthIds'
<1>1. \A f \in Elems(toBroker) : f.id \in Nat
  <2>1. Elems(toBroker) \subseteq ClientFrames
    BY ElemsFacts DEF TypeOK
  <2>2. QED
    BY <2>1 DEF ClientFrames, Ids
<1>2. nextSeq \in Nat /\ \A t \in Callers : seqOf[t] \in Nat
  BY DEF TypeOK, Ids
<1>3. CASE UNCHANGED <<pc, seqOf, nextSeq>>
  BY <1>3 DEF TruthIds
<1>4. CASE \E t \in Callers :
             /\ nextSeq' = nextSeq + 1
             /\ seqOf' = [seqOf EXCEPT ![t] = nextSeq]
             /\ pc' = [pc EXCEPT ![t] = "send_write"]
  <2>1. PICK t \in Callers :
             /\ nextSeq' = nextSeq + 1
             /\ seqOf' = [seqOf EXCEPT ![t] = nextSeq]
             /\ pc' = [pc EXCEPT ![t] = "send_write"]
    BY <1>4
  <2>2. \A f \in Elems(toBroker') : f.type = "SEND" => f.id < nextSeq'
    BY <1>1, <1>2, <2>1 DEF TruthIds
  <2>3. \A u \in Callers : pc'[u] \in {"send_write", "send_wait"} => seqOf'[u] < nextSeq'
    BY <1>2, <2>1 DEF TruthIds, TypeOK
  <2>4. QED
    BY <2>2, <2>3 DEF TruthIds
<1>5. CASE /\ UNCHANGED <<seqOf, nextSeq>>
           /\ \A t \in Callers : pc'[t] \in {"send_write", "send_wait"}
                                   => pc[t] \in {"send_write", "send_wait"}
  BY <1>5 DEF TruthIds
<1>6. QED
  BY <1>3, <1>4, <1>5

\* Recording the result of a call other than a successful Send, or of a
\* Send whose message is persisted, keeps TruthResults.
LEMMA TruthResultsUpdate ==
    ASSUME TypeOK, TruthResults, NEW t \in Callers, NEW r,
           r.op # "send" \/ r.out # "ok" \/ r.id \in persisted',
           result' = [result EXCEPT ![t] = r], persisted \subseteq persisted'
    PROVE  TruthResults'
BY DEF TruthResults, TypeOK

\* Every step keeps outcomes in agreement with a broker that does not
\* deduplicate.
LEMMA TruthStep ==
    ASSUME ~BrokerDedup, TypeOK, AnswerInv, TruthInv, [Next]_vars
    PROVE  TruthInv'
<1> USE ConstantsAssumption
<1>1. ASSUME NEW t \in Callers, SendBegin(t) PROVE TruthInv'
  <2>1. TruthWire' /\ TruthInbox' /\ TruthClose'
    BY <1>1 DEF SendBegin, TruthInv, TruthWire, TruthInbox, TruthClose
  <2>2. TruthIds'
    BY <1>1, IdsBelowNext DEF SendBegin, TruthInv
  <2>3. TruthResults'
    <3>1. UNCHANGED persisted /\ TruthResults
      BY <1>1 DEF SendBegin, TruthInv
    <3>2. CASE isClosed
      <4>1. result' = [result EXCEPT ![t] = Result("send", "errClosed", 0)]
        BY <1>1, <3>2 DEF SendBegin
      <4>2. QED
        BY <3>1, <4>1, TruthResultsUpdate DEF Result
    <3>3. CASE ~isClosed
      BY <1>1, <3>1, <3>3 DEF SendBegin, TruthResults
    <3>4. QED
      BY <3>2, <3>3
  <2>4. QED
    BY <2>1, <2>2, <2>3 DEF TruthInv
<1>2. ASSUME NEW t \in Callers, SendWrite(t) PROVE TruthInv'
  <2>1. TruthWire' /\ TruthInbox' /\ TruthClose'
    BY <1>2 DEF SendWrite, TruthInv, TruthWire, TruthInbox, TruthClose
  <2>2. CASE SendFail(t, "errRegistered") \/ SendFail(t, "errWrite")
    <3>1. \E out \in {"errRegistered", "errWrite"} :
             result' = [result EXCEPT ![t] = Result("send", out, seqOf[t])]
      BY <2>2 DEF SendFail
    <3>2. TruthResults'
      BY <1>2, <3>1, TruthResultsUpdate DEF SendWrite, TruthInv, Result
    <3>3. pc' = [pc EXCEPT ![t] = "idle"] /\ UNCHANGED <<seqOf, nextSeq, toBroker>>
      BY <1>2, <2>2 DEF SendWrite, SendFail
    <3>4. \A u \in Callers : pc'[u] \in {"send_write", "send_wait"}
                             => pc[u] \in {"send_write", "send_wait"}
      BY <3>3 DEF TypeOK
    <3>5. TruthIds'
      BY <3>3, <3>4, IdsBelowNext DEF TruthInv
    <3>6. QED
      BY <2>1, <3>2, <3>5 DEF TruthInv
  <2>3. CASE /\ Register(SendKey(seqOf[t]), t)
             /\ toBroker' = Append(toBroker, Frame("SEND", seqOf[t]))
             /\ pc' = [pc EXCEPT ![t] = "send_wait"]
             /\ UNCHANGED result
    <3>1. seqOf[t] < nextSeq
      BY <1>2 DEF SendWrite, TruthInv, TruthIds
    <3>2. Elems(toBroker') = Elems(toBroker) \cup {Frame("SEND", seqOf[t])}
      BY <2>3, ElemsFacts DEF TypeOK
    <3>3. TruthIds'
      <4>1. UNCHANGED <<seqOf, nextSeq>>
        BY <1>2 DEF SendWrite
      <4>2. \A u \in Callers : pc'[u] \in {"send_write", "send_wait"}
                                => seqOf'[u] < nextSeq'
        BY <2>3, <3>1, <4>1 DEF TruthInv, TruthIds, TypeOK
      <4>3. \A f \in Elems(toBroker') : f.type = "SEND" => f.id < nextSeq'
        <5>1. \A f \in Elems(toBroker) : f.type = "SEND" => f.id < nextSeq
          BY DEF TruthInv, TruthIds
        <5>2. Frame("SEND", seqOf[t]).id < nextSeq
          BY <3>1 DEF Frame
        <5>3. QED
          BY <3>2, <4>1, <5>1, <5>2, Zenon
      <4>4. QED
        BY <4>2, <4>3 DEF TruthIds
    <3>4. TruthResults'
      BY <1>2, <2>3 DEF SendWrite, TruthInv, TruthResults
    <3>5. QED
      BY <2>1, <3>3, <3>4 DEF TruthInv
  <2>4. QED
    BY <1>2, <2>2, <2>3 DEF SendWrite
<1>3. ASSUME NEW t \in Callers, SendWait(t) PROVE TruthInv'
  <2>1. inbox[t].type = "SEND_RECEIPT" => inbox[t].id = seqOf[t]
    <3>1. pc[t] = "send_wait"
      BY <1>3 DEF SendWait
    <3>2. inbox[t] # NoFrame => inbox[t].id = seqOf[t]
      BY <3>1 DEF AnswerInv, AnswersReachTheirAsker
    <3>3. QED
      BY <3>2 DEF NoFrame, Frame
  <2>2. SendOutcome(inbox[t].type) = "ok" => inbox[t].type = "SEND_RECEIPT"
    BY DEF SendOutcome
  <2>3. PICK out : /\ SendReturn(t, out)
                   /\ out = "ok" => seqOf[t] \in persisted
    BY <1>3, <2>1, <2>2 DEF SendWait, TruthInv, TruthInbox
  <2>4. inbox' = [inbox EXCEPT ![t] = NoFrame]
    BY <2>3 DEF SendReturn, Cancel
  <2>5. TruthInbox'
    BY <2>3, <2>4 DEF SendReturn, TruthInv, TruthInbox, NoFrame, Frame, TypeOK
  <2>6. TruthResults'
    BY <2>3 DEF SendReturn, TruthInv, TruthResults, Result, TypeOK
  <2>7. TruthWire' /\ TruthClose'
    BY <2>3 DEF SendReturn, TruthInv, TruthWire, TruthClose
  <2>8. TruthIds'
    BY <2>3, IdsBelowNext DEF SendReturn, TruthInv, TypeOK
  <2>9. QED
    BY <2>5, <2>6, <2>7, <2>8 DEF TruthInv
<1>4. ASSUME NEW t \in Callers, CloseBegin(t) PROVE TruthInv'
  <2>1. TruthWire' /\ TruthInbox' /\ TruthClose'
    BY <1>4 DEF CloseBegin, TruthInv, TruthWire, TruthInbox, TruthClose
  <2>2. TruthResults'
    <3>1. CASE UNCHANGED result
      BY <1>4, <3>1 DEF CloseBegin, TruthInv, TruthResults
    <3>2. CASE \E out, id : result' = [result EXCEPT ![t] = Result("close", out, id)]
      BY <1>4, <3>2, TruthResultsUpdate DEF CloseBegin, TruthInv, Result
    <3>3. QED
      BY <1>4, <3>1, <3>2 DEF CloseBegin
  <2>3. \A f \in Elems(toBroker') : f.type = "SEND" => f \in Elems(toBroker)
    <3>1. CASE toBroker' = toBroker
      BY <3>1
    <3>2. CASE toBroker' = Append(toBroker, Frame("CLOSE_PRODUCER_REQ", nextReq))
      <4>1. Elems(toBroker') = Elems(toBroker) \cup {Frame("CLOSE_PRODUCER_REQ", nextReq)}
        BY <3>2, ElemsFacts DEF TypeOK
      <4>2. Frame("CLOSE_PRODUCER_REQ", nextReq).type # "SEND"
        BY DEF Frame
      <4>3. QED
        BY <4>1, <4>2
    <3>3. QED
      BY <1>4, <3>1, <3>2 DEF CloseBegin
  <2>4. TruthIds'
    <3>1. UNCHANGED <<pc, seqOf, nextSeq>> \/ pc' = [pc EXCEPT ![t] = "close_wait"]
      BY <1>4 DEF CloseBegin
    <3>2. UNCHANGED <<seqOf, nextSeq>> /\ pc[t] = "idle"
      BY <1>4 DEF CloseBegin
    <3>3. QED
      BY <2>3, <3>1, <3>2 DEF TruthInv, TruthIds, TypeOK
  <2>5. QED
    BY <2>1, <2>2, <2>4 DEF TruthInv
<1>5. ASSUME NEW t \in Callers, CloseWait(t) PROVE TruthInv'
  <2>1. inbox[t] # NoFrame => ~bOpen
    BY <1>5 DEF CloseWait, AnswerInv, AnswersReachTheirAsker, TruthInv, TruthInbox
  <2>2. isClosed' => ~bOpen
    BY <1>5, <2>1 DEF CloseWait, TruthInv, TruthClose
  <2>3. TruthClose'
    BY <1>5, <2>2 DEF CloseWait, TruthInv, TruthClose
  <2>4. TruthInbox'
    BY <1>5 DEF CloseWait, Cancel, TruthInv, TruthInbox, NoFrame, Frame, TypeOK
  <2>5. TruthResults'
    <3>1. PICK r : r.op = "close" /\ result' = [result EXCEPT ![t] = r]
      BY <1>5 DEF CloseWait, Result
    <3>2. UNCHANGED persisted
      BY <1>5 DEF CloseWait
    <3>3. QED
      BY <3>1, <3>2, TruthResultsUpdate DEF TruthInv
  <2>6. TruthWire'
    BY <1>5 DEF CloseWait, TruthInv, TruthWire
  <2>7. TruthIds'
    <3>1. UNCHANGED <<toBroker, seqOf, nextSeq>>
      BY <1>5 DEF CloseWait
    <3>2. \A u \in Callers : pc'[u] \in {"send_write", "send_wait"}
                               => pc[u] \in {"send_write", "send_wait"}
      BY <1>5 DEF CloseWait, TypeOK
    <3>3. QED
      BY <3>1, <3>2, IdsBelowNext DEF TruthInv
  <2>8. QED
    BY <2>3, <2>4, <2>5, <2>6, <2>7 DEF TruthInv
<1>6. CASE ReaderRecv
  <2> DEFINE f == Head(toClient)
  <2>1. toClient # <<>> /\ f \in Elems(toClient)
        /\ Elems(Tail(toClient)) \subseteq Elems(toClient)
    BY <1>6, ElemsFacts DEF ReaderRecv, TypeOK
  <2>2. /\ f.type = "SEND_RECEIPT" => f.id \in persisted
        /\ f.type \in {"SUCCESS", "CLOSE_PRODUCER"} => ~bOpen
    BY <2>1 DEF TruthInv, TruthWire
  <2>3. ASSUME NEW k, Notify(k, f)
        PROVE  \A u \in Callers : inbox'[u] = inbox[u] \/ inbox'[u] = f
    <3>1. CASE Registered(k)
      <4>1. PICK r \in disp : r.key = k
        BY <3>1 DEF Registered
      <4>2. (CHOOSE q \in disp : q.key = k) \in disp
        BY <4>1
      <4>3. QED
        BY <2>3, <3>1, <4>2 DEF Notify, TypeOK
    <3>2. QED
      BY <2>3, <3>1 DEF Notify
  <2>4. \A u \in Callers : inbox'[u] = inbox[u] \/ inbox'[u] = f
    BY <1>6, <2>3 DEF ReaderRecv, NotifyProdSeqIDs, NotifyReqID
  <2>5. TruthInbox'
    BY <1>6, <2>2, <2>4 DEF ReaderRecv, TruthInv, TruthInbox
  <2>6. TruthWire'
    BY <1>6, <2>1 DEF ReaderRecv, TruthInv, TruthWire
  <2>7. TruthClose'
    BY <1>6, <2>2 DEF ReaderRecv, TruthInv, TruthClose
  <2>8. TruthResults' /\ TruthIds'
    BY <1>6 DEF ReaderRecv, TruthInv, TruthResults, TruthIds
  <2>9. QED
    BY <2>5, <2>6, <2>7, <2>8 DEF TruthInv
<1>7. CASE HandleCloseProducer
  BY <1>7 DEF HandleCloseProducer, CloseClosedc, TruthInv, TruthWire,
     TruthInbox, TruthResults, TruthIds, TruthClose
<1>8. CASE BrokerRecv
  <2>1. toBroker # <<>> /\ Elems(Tail(toBroker)) \subseteq Elems(toBroker)
        /\ toBroker' = Tail(toBroker)
    BY <1>8, ElemsFacts DEF BrokerRecv, TypeOK
  <2>2. UNCHANGED <<nextSeq, readerPc, isClosed, inbox, result, pc, seqOf>>
    BY <1>8 DEF BrokerRecv
  <2>3. persisted \subseteq persisted' /\ (bOpen' => bOpen)
    BY <1>8 DEF BrokerRecv
  <2>4. TruthIds'
    BY <2>1, <2>2 DEF TruthInv, TruthIds
  <2>5. TruthResults'
    BY <2>2, <2>3 DEF TruthInv, TruthResults
  <2>6. TruthInbox' /\ TruthClose'
    BY <2>2, <2>3 DEF TruthInv, TruthInbox, TruthClose
  <2>7. PICK g : /\ toClient' = Append(toClient, g)
                 /\ g.type = "SEND_RECEIPT" => g.id \in persisted'
                 /\ g.type \in {"SUCCESS", "CLOSE_PRODUCER"} => ~bOpen'
    <3> DEFINE f == Head(toBroker)
    <3>1. PICK ty \in {"SEND_ERROR", "SEND_RECEIPT", "SUCCESS"} :
             /\ toClient' = Append(toClient, Frame(ty, f.id))
             /\ ty = "SEND_RECEIPT" => f.id \in persisted'
             /\ ty = "SUCCESS" => ~bOpen'
      BY <1>8 DEF BrokerRecv
    <3>2. Frame(ty, f.id).type = ty /\ Frame(ty, f.id).id = f.id
      BY DEF Frame
    <3>3. QED
      BY <3>1, <3>2
  <2>8. TruthWire'
    BY <2>3, <2>7, TruthWireAppend DEF TruthInv
  <2>9. QED
    BY <2>4, <2>5, <2>6, <2>8 DEF TruthInv
<1>9. CASE BrokerClose
  <2>1. /\ toClient' = Append(toClient, Frame("CLOSE_PRODUCER", 0))
        /\ ~bOpen' /\ bOpen
        /\ UNCHANGED <<inbox, persisted, readerPc, isClosed, result, pc, seqOf,
                       nextSeq, toBroker>>
    BY <1>9 DEF BrokerClose
  <2>2. TruthWire'
    BY <2>1, TruthWireAppend DEF TruthInv, Frame
  <2>3. TruthInbox' /\ TruthClose'
    BY <2>1 DEF TruthInv, TruthInbox, TruthClose
  <2>4. TruthResults' /\ TruthIds'
    BY <2>1 DEF TruthInv, TruthResults, TruthIds
  <2>5. QED
    BY <2>2, <2>3, <2>4 DEF TruthInv
<1>10. CASE ConnClose
  <2>1. Elems(toClient') = {} /\ Elems(toBroker') = {}
    BY <1>10, ElemsFacts DEF ConnClose, TypeOK
  <2>2. \A u \in Callers : inbox'[u] = inbox[u] \/ inbox'[u].type = "CONN_CLOSED"
    <3>1. CASE DrainOnClose
      <4>1. DrainRegistrations
        BY <1>10, <3>1 DEF ConnClose
      <4>2. QED
        BY <4>1 DEF DrainRegistrations, Frame
    <3>2. CASE ~DrainOnClose
      BY <1>10, <3>2 DEF ConnClose
    <3>3. QED
      BY <3>1, <3>2
  <2>3. TruthWire' /\ TruthInbox' /\ TruthClose'
    <3>1. ~bOpen' /\ UNCHANGED persisted
      BY <1>10 DEF ConnClose
    <3>2. \A f \in Elems(toClient') : f.type = "SEND_RECEIPT" => f.id \in persisted'
      BY <2>1
    <3>3. \A u \in Callers :
             inbox'[u].type = "SEND_RECEIPT" => inbox'[u].id \in persisted'
      BY <2>2, <3>1 DEF TruthInv, TruthInbox
    <3>4. QED
      BY <3>1, <3>2, <3>3, TruthWhenDropped
  <2>4. TruthResults' /\ TruthIds'
    BY <1>10, <2>1 DEF ConnClose, TruthInv, TruthResults, TruthIds
  <2>5. QED
    BY <2>3, <2>4 DEF TruthInv
<1>11. CASE BoundsExhausted \/ UNCHANGED vars
  BY <1>11, TruthFrame DEF BoundsExhausted, vars
<1>12. QED
  BY <1>1, <1>2, <1>3, <1>4, <1>5, <1>6, <1>7, <1>8, <1>9, <1>10, <1>11
  DEF Next

\* TruthInv holds initially: nothing is on the wire, no receiver holds a
\* frame and no call has returned.
LEMMA InitTruthInv == Init => TruthInv
<1> SUFFICES ASSUME Init PROVE TruthInv
  OBVIOUS
<1>1. Elems(toClient) = {} /\ Elems(toBroker) = {}
  BY DEF Init, Elems
<1>2. TruthWire /\ TruthIds
  BY <1>1 DEF Init, TruthWire, TruthIds
<1>3. TruthInbox
  BY DEF Init, TruthInbox, NoFrame, Frame
<1>4. TruthResults
  BY DEF Init, TruthResults, Result
<1>5. TruthClose
  BY DEF Init, TruthClose
<1>6. QED
  BY <1>2, <1>3, <1>4, <1>5 DEF TruthInv

\* With a broker that does not deduplicate, what Send and Close report
\* agrees with the broker for any number of callers and any bounds: a
\* receipt (line 131) means the message was persisted, and IsClosed
\* (lines 194, 217) is set only once the broker has dropped the producer.
\* The producer_dedup_reorder run shows the first part fails when the
\* broker deduplicates.
THEOREM OutcomesAgreeWithBroker ==
    ASSUME ~BrokerDedup
    PROVE  Spec => []OutcomesTruthful
<1> DEFINE Inv == TypeOK /\ AnswerInv /\ TruthInv
<1>1. Init => Inv
  <2>1. Init => TypeOK
    BY InitTypeOK
  <2>2. Init => AnswerInv
    BY DEF Init, AnswerInv, RegistrationsHeldByWaiters, AnswersReachTheirAsker
  <2>3. Init => TruthInv
    BY InitTruthInv
  <2>4. QED
    BY <2>1, <2>2, <2>3
<1>2. Inv /\ [Next]_vars => Inv'
  BY TypeOKStep, AnswerStep, TruthStep
<1>3. Inv => OutcomesTruthful
  BY DEF TruthInv, TruthResults, TruthClose, OutcomesTruthful
<1>4. QED
  BY <1>1, <1>2, <1>3, PTL DEF Spec

=============================================================================
