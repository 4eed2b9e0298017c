----------------------- MODULE ProducerRefinement_proofs -----------------------
(***************************************************************************)
(* Proof that the producer model implements ProducerCalls when the broker  *)
(* does not deduplicate: initial states map to the abstract initial state, *)
(* and under the invariants of Producer_proofs every step maps to an       *)
(* abstract step or to a stutter.                                          *)
(***************************************************************************)
EXTENDS ProducerRefinement, Producer_proofs, TLAPS

\* The invariants the refinement rests on.
RInv == TypeOK /\ ClosedcMirrorsIsClosed /\ AnswerInv /\ TruthInv

LEMMA RInvInvariant ==
    ASSUME ~BrokerDedup
    PROVE  Spec => []RInv
<1>1. Init => RInv
  <2> SUFFICES ASSUME Init PROVE RInv
    OBVIOUS
  <2>1. TypeOK
    BY InitTypeOK
  <2>2. ClosedcMirrorsIsClosed
    BY DEF Init, ClosedcMirrorsIsClosed
  <2>3. AnswerInv
    BY DEF Init, AnswerInv, RegistrationsHeldByWaiters, AnswersReachTheirAsker
  <2>4. TruthInv
    BY InitTruthInv
  <2>5. QED
    BY <2>1, <2>2, <2>3, <2>4 DEF RInv
<1>2. RInv /\ [Next]_vars => RInv'
  BY TypeOKStep, MirrorStep, AnswerStep, TruthStep DEF RInv
<1>3. QED
  BY <1>1, <1>2, PTL DEF Spec

\* A step that leaves the mapped state alone is an abstract stutter.
LEMMA MappedStutter ==
    ASSUME UNCHANGED <<pc, seqOf, nextSeq, nextReq, result, isClosed, writer,
                       bOpen, persisted>>
    PROVE  UNCHANGED Calls!avars
BY DEF Calls!avars, callStatus

\* Moving caller t to program counter p moves its abstract status alike.
LEMMA StatusUpdate ==
    ASSUME TypeOK, NEW t \in Callers, NEW p, pc' = [pc EXCEPT ![t] = p]
    PROVE  callStatus' = [callStatus EXCEPT ![t] = CallStatus(p)]
BY DEF callStatus, TypeOK

\* Every step of the producer model is a step of ProducerCalls or leaves
\* its state alone.
LEMMA RefineStep ==
    ASSUME ~BrokerDedup, RInv, [Next]_vars
    PROVE  [Calls!Next]_Calls!avars
<1> USE ConstantsAssumption
<1>0. TypeOK /\ ClosedcMirrorsIsClosed /\ AnswerInv /\ TruthInv
  BY DEF RInv
<1> USE <1>0
<1>1. ASSUME NEW t \in Callers, SendBegin(t) PROVE [Calls!Next]_Calls!avars
  <2>1. callStatus[t] = "idle" /\ writer = NoOne
    BY <1>1 DEF SendBegin, callStatus, CallStatus
  <2>2. CASE isClosed
    <3>1. UNCHANGED callStatus
      BY <1>1, <2>2 DEF SendBegin, callStatus
    <3>2. Calls!SendRejected(t)
      BY <1>1, <2>1, <2>2, <3>1 DEF SendBegin, Calls!SendRejected, Calls!Free,
         Calls!Result, Result
    <3>3. QED
      BY <3>2 DEF Calls!Next
  <2>3. CASE ~isClosed
    <3>1. callStatus' = [callStatus EXCEPT ![t] = "sending"]
      BY <1>1, <2>3, StatusUpdate DEF SendBegin, CallStatus
    <3>2. Calls!SendStart(t)
      BY <1>1, <2>1, <2>3, <3>1 DEF SendBegin, Calls!SendStart, Calls!Free
    <3>3. QED
      BY <3>2 DEF Calls!Next
  <2>4. QED
    BY <2>2, <2>3
<1>2. ASSUME NEW t \in Callers, SendWrite(t) PROVE [Calls!Next]_Calls!avars
  <2>1. callStatus[t] = "sending"
    BY <1>2 DEF SendWrite, callStatus, CallStatus
  <2>2. CASE SendFail(t, "errRegistered") \/ SendFail(t, "errWrite")
    <3>1. callStatus' = [callStatus EXCEPT ![t] = "idle"]
      BY <1>0, <2>2, StatusUpdate DEF SendFail, CallStatus
    <3>2. \E out \in {"errRegistered", "errWrite"} :
             result' = [result EXCEPT ![t] = Calls!Result("send", out, seqOf[t])]
      BY <2>2 DEF SendFail, Calls!Result, Result
    <3>3. Calls!SendEnd(t)
      BY <1>2, <2>1, <3>1, <3>2 DEF SendWrite, Calls!SendEnd, Calls!SendErrors
    <3>4. QED
      BY <3>3 DEF Calls!Next
  <2>3. CASE /\ Register(SendKey(seqOf[t]), t)
             /\ toBroker' = Append(toBroker, Frame("SEND", seqOf[t]))
             /\ pc' = [pc EXCEPT ![t] = "send_wait"]
             /\ UNCHANGED result
    <3>1. pc' = [pc EXCEPT ![t] = "send_wait"] /\ pc[t] = "send_write"
      BY <1>2, <2>3 DEF SendWrite
    <3>2. callStatus' = callStatus
      BY <3>1 DEF callStatus, CallStatus, TypeOK
    <3>3. QED
      BY <1>2, <2>3, <3>2 DEF SendWrite, Calls!avars
  <2>4. QED
    BY <1>2, <2>2, <2>3 DEF SendWrite
<1>3. ASSUME NEW t \in Callers, SendWait(t) PROVE [Calls!Next]_Calls!avars
  <2>1. callStatus[t] = "sending"
    BY <1>3 DEF SendWait, callStatus, CallStatus
  <2>2. PICK out : SendReturn(t, out) /\
           \/ out \in {"errCtx"}
           \/ out = "errClosed" /\ closedc
           \/ inbox[t] # NoFrame /\ out = SendOutcome(inbox[t].type)
    BY <1>3 DEF SendWait
  <2>3. out \in Calls!SendErrors \cup {"ok"}
    BY <2>2 DEF Calls!SendErrors, SendOutcome
  <2>4. out = "ok" => seqOf[t] \in persisted
    <3>1. out = "ok" => inbox[t] # NoFrame /\ inbox[t].type = "SEND_RECEIPT"
      BY <2>2 DEF SendOutcome
    <3>2. inbox[t] # NoFrame => inbox[t].id = seqOf[t]
      BY <1>3 DEF SendWait, AnswerInv, AnswersReachTheirAsker
    <3>3. QED
      BY <3>1, <3>2 DEF TruthInv, TruthInbox
  <2>5. out = "errClosed" => isClosed
    BY <2>2 DEF ClosedcMirrorsIsClosed, SendOutcome
  <2>6. callStatus' = [callStatus EXCEPT ![t] = "idle"]
    <3>1. pc' = [pc EXCEPT ![t] = "idle"]
      BY <2>2 DEF SendReturn
    <3>2. CallStatus("idle") = "idle"
      BY DEF CallStatus
    <3>3. QED
      BY <1>0, <3>1, <3>2, StatusUpdate
  <2>7. Calls!SendEnd(t)
    BY <2>1, <2>2, <2>3, <2>4, <2>5, <2>6
    DEF SendReturn, Calls!SendEnd, Calls!Result, Result
  <2>8. QED
    BY <2>7 DEF Calls!Next
<1>4. ASSUME NEW t \in Callers, CloseBegin(t) PROVE [Calls!Next]_Calls!avars
  <2>1. callStatus[t] = "idle" /\ writer = NoOne
    BY <1>4 DEF CloseBegin, callStatus, CallStatus
  <2>2. CASE isClosed
    <3>1. UNCHANGED callStatus
      BY <1>4, <2>2 DEF CloseBegin, callStatus
    <3>2. Calls!CloseNoop(t)
      BY <1>4, <2>1, <2>2, <3>1 DEF CloseBegin, Calls!CloseNoop, Calls!Free,
         Calls!Result, Result
    <3>3. QED
      BY <3>2 DEF Calls!Next
  <2>3. CASE ~isClosed /\ UNCHANGED <<pc, writer>>
    <3>1. UNCHANGED callStatus
      BY <2>3 DEF callStatus
    <3>2. \E out \in {"errRegistered", "errWrite"} :
             result' = [result EXCEPT ![t] = Calls!Result("close", out, nextReq)]
      <4>1. pc[t] # "close_wait"
        BY <1>4 DEF CloseBegin
      <4>2. pc' # [pc EXCEPT ![t] = "close_wait"]
        BY <1>0, <2>3, <4>1 DEF TypeOK
      <4>3. CASE Registered(CloseKey(nextReq))
        BY <1>4, <2>3, <4>3 DEF CloseBegin, Calls!Result, Result
      <4>4. CASE ~Registered(CloseKey(nextReq))
        BY <1>4, <2>3, <4>2, <4>4 DEF CloseBegin, Calls!Result, Result
      <4>5. QED
        BY <4>3, <4>4
    <3>3. Calls!CloseFail(t)
      BY <1>4, <2>1, <2>3, <3>1, <3>2 DEF CloseBegin, Calls!CloseFail, Calls!Free
    <3>4. QED
      BY <3>3 DEF Calls!Next
  <2>4. CASE ~isClosed /\ pc' = [pc EXCEPT ![t] = "close_wait"]
    <3>1. callStatus' = [callStatus EXCEPT ![t] = "closing"]
      BY <1>0, <2>4, StatusUpdate DEF CallStatus
    <3>2. writer' = t /\ UNCHANGED result
      BY <1>4, <2>4 DEF CloseBegin, CloseLock, TypeOK
    <3>3. Calls!CloseStart(t)
      BY <1>4, <2>1, <2>4, <3>1, <3>2 DEF CloseBegin, Calls!CloseStart, Calls!Free
    <3>4. QED
      BY <3>3 DEF Calls!Next
  <2>5. QED
    BY <1>4, <2>2, <2>3, <2>4 DEF CloseBegin, CloseLock, TypeOK
<1>5. ASSUME NEW t \in Callers, CloseWait(t) PROVE [Calls!Next]_Calls!avars
  <2>1. callStatus[t] = "closing" /\ writer = t
    BY <1>5 DEF CloseWait, callStatus, CallStatus, ClosedcMirrorsIsClosed
  <2>2. inbox[t] # NoFrame => ~bOpen
    BY <1>5 DEF CloseWait, AnswerInv, AnswersReachTheirAsker, TruthInv, TruthInbox
  <2>3. callStatus' = [callStatus EXCEPT ![t] = "idle"]
    <3>1. pc' = [pc EXCEPT ![t] = "idle"]
      BY <1>5 DEF CloseWait
    <3>2. CallStatus("idle") = "idle"
      BY DEF CallStatus
    <3>3. QED
      BY <1>0, <3>1, <3>2, StatusUpdate
  <2>4. Calls!CloseEnd(t)
    BY <1>5, <2>1, <2>2, <2>3 DEF CloseWait, CloseClosedc, Calls!CloseEnd,
       Calls!Result, Result
  <2>5. QED
    BY <2>4 DEF Calls!Next
<1>6. CASE ReaderRecv
  BY <1>6, MappedStutter DEF ReaderRecv
<1>7. CASE HandleCloseProducer
  <2>1. CASE isClosed
    BY <1>7, <2>1, MappedStutter DEF HandleCloseProducer
  <2>2. CASE ~isClosed
    <3>1. ~bOpen /\ writer = NoOne
      BY <1>7 DEF HandleCloseProducer, TruthInv, TruthClose
    <3>2. Calls!ExternalClose
      BY <1>7, <2>2, <3>1 DEF HandleCloseProducer, Calls!ExternalClose, callStatus
    <3>3. QED
      BY <3>2 DEF Calls!Next
  <2>3. QED
    BY <2>1, <2>2
<1>8. CASE BrokerRecv
  <2> DEFINE f == Head(toBroker)
  <2>1. UNCHANGED <<pc, seqOf, nextSeq, nextReq, result, isClosed, writer>>
    BY <1>8 DEF BrokerRecv
  <2>2. CASE UNCHANGED <<bOpen, persisted>>
    BY <2>1, <2>2, MappedStutter
  <2>3. CASE bOpen /\ ~bOpen' /\ UNCHANGED persisted
    <3>1. Calls!BrokerStops
      BY <2>1, <2>3 DEF Calls!BrokerStops, callStatus
    <3>2. QED
      BY <3>1 DEF Calls!Next
  <2>4. CASE bOpen /\ UNCHANGED bOpen /\ persisted' = persisted \cup {f.id}
             /\ f.type = "SEND"
    <3>1. toBroker # <<>> /\ f \in Elems(toBroker) /\ f \in ClientFrames
      BY <1>8, ElemsFacts DEF BrokerRecv, TypeOK
    <3>2. f.id \in 0..(nextSeq - 1)
      BY <2>4, <3>1 DEF TruthInv, TruthIds, ClientFrames, Ids, TypeOK
    <3>3. Calls!Store
      BY <2>1, <2>4, <3>2 DEF Calls!Store, callStatus
    <3>4. QED
      BY <3>3 DEF Calls!Next
  <2>5. QED
    BY <1>8, <2>2, <2>3, <2>4 DEF BrokerRecv, TypeOK
<1>9. CASE BrokerClose
  <2>1. Calls!BrokerStops
    BY <1>9 DEF BrokerClose, Calls!BrokerStops, callStatus
  <2>2. QED
    BY <2>1 DEF Calls!Next
<1>10. CASE ConnClose
  <2>1. UNCHANGED <<pc, seqOf, nextSeq, nextReq, result, isClosed, writer,
                    persisted>> /\ ~bOpen'
    BY <1>10 DEF ConnClose
  <2>2. CASE bOpen
    <3>1. Calls!BrokerStops
      BY <2>1, <2>2 DEF Calls!BrokerStops, callStatus
    <3>2. QED
      BY <3>1 DEF Calls!Next
  <2>3. CASE ~bOpen
    <3>1. UNCHANGED bOpen
      <4>1. bOpen' = FALSE /\ bOpen = FALSE
        BY <1>0, <1>10, <2>3 DEF ConnClose, TypeOK
      <4>2. QED
        BY <4>1
    <3>2. UNCHANGED Calls!avars
      BY <2>1, <3>1, MappedStutter
    <3>3. QED
      BY <3>2
  <2>4. QED
    BY <2>2, <2>3
<1>11. CASE BoundsExhausted \/ UNCHANGED vars
  BY <1>11, MappedStutter DEF BoundsExhausted, vars
<1>12. QED
  BY <1>1, <1>2, <1>3, <1>4, <1>5, <1>6, <1>7, <1>8, <1>9, <1>10, <1>11
  DEF Next

\* With a broker that does not deduplicate, the producer of producer.go
\* keeps every promise of ProducerCalls, for any number of callers and any
\* bounds: fresh sequence ids, receipts only for stored messages, Close
\* alone under Mu, and closing only after the broker dropped the producer.
THEOREM ProducerImplementsCalls ==
    ASSUME ~BrokerDedup
    PROVE  Spec => ImplementsCalls
<1>1. Init => Calls!Init
  BY DEF Init, Calls!Init, callStatus, CallStatus, Calls!Result, Result
<1>2. QED
  BY <1>1, RInvInvariant, RefineStep, PTL DEF Spec, ImplementsCalls, Calls!Spec

=============================================================================
