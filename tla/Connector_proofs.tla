--------------------------- MODULE Connector_proofs ---------------------------
(***************************************************************************)
(* Proofs about the CONNECT handshake model of connector.go: type          *)
(* correctness; that with the routing connector.go's comment expects      *)
(* (ERROR with the undefined request id to the request-id slot) Connect   *)
(* never returns (nil, nil); and that every dispatcher slot Connect takes *)
(* is released on every return path.                                       *)
(***************************************************************************)
EXTENDS Connector, SequenceTheorems, TLAPS

\* The frames the broker and the router handle are answers.
LEMMA AnswerFrames ==
    ASSUME NEW type \in {"CONNECTED", "ERROR"}, NEW tag \in Tags
    PROVE  Frame(type, tag) \in Answers
BY DEF Frame, Answers

\* The deferred cancels of Connect keep the slots and receivers typed.
LEMMA CancelConnectType ==
    ASSUME CTypeOK, NEW t \in Callers, CancelConnect(t)
    PROVE  /\ globalOwner' \in Callers \cup {NoOne}
           /\ undefOwner' \in Callers \cup {NoOne}
           /\ resp' \in [Callers -> Answers \cup {NoFrame}]
           /\ errResp' \in [Callers -> Answers \cup {NoFrame}]
BY DEF CancelConnect, CTypeOK

\* The initial state is well typed.
LEMMA CInitTypeOK == CInit => CTypeOK
<1> USE ConnectorAssumption
<1> SUFFICES ASSUME CInit PROVE CTypeOK
  OBVIOUS
<1>1. 0 \in Tags
  BY DEF Tags
<1>2. toBroker \in Seq(Tags) /\ toClient \in Seq(Answers)
  BY EmptySeq DEF CInit
<1>3. QED
  BY <1>1, <1>2 DEF CInit, CTypeOK, COutcomes

\* Every step keeps the state well typed.
LEMMA CTypeOKStep == CTypeOK /\ [CNext]_cvars => CTypeOK'
<1> USE ConnectorAssumption
<1> SUFFICES ASSUME CTypeOK, [CNext]_cvars PROVE CTypeOK'
  OBVIOUS
<1>1. ASSUME NEW t \in Callers, ConnectBegin(t) PROVE CTypeOK'
  <2>1. CASE /\ globalOwner = NoOne /\ undefOwner = NoOne
             /\ globalOwner' = t /\ undefOwner' = t
             /\ attempt' = [attempt EXCEPT ![t] = sent]
             /\ toBroker' = Append(toBroker, sent)
             /\ sent' = sent + 1
             /\ cpc' = [cpc EXCEPT ![t] = "wait"]
             /\ UNCHANGED cresult
    <3>1. sent \in Tags /\ sent + 1 \in 0..MaxConnects
      BY <1>1 DEF ConnectBegin, CTypeOK, Tags
    <3>2. toBroker' \in Seq(Tags)
      BY <2>1, <3>1, AppendProperties DEF CTypeOK
    <3>3. QED
      BY <1>1, <2>1, <3>1, <3>2 DEF ConnectBegin, CTypeOK
  <2>2. CASE \E out \in {"errRegistered", "errWrite"} : ConnectFail(t, out)
    BY <1>1, <2>2 DEF ConnectBegin, ConnectFail, CTypeOK, COutcomes
  <2>3. QED
    BY <1>1, <2>1, <2>2 DEF ConnectBegin
<1>2. ASSUME NEW t \in Callers, ConnectWait(t) PROVE CTypeOK'
  <2>1. cresult' \in [Callers -> COutcomes]
    BY <1>2 DEF ConnectWait, ConnectOutcome, CTypeOK, COutcomes
  <2>2. QED
    BY <1>2, <2>1, CancelConnectType DEF ConnectWait, CTypeOK
<1>3. CASE RouteAnswer
  <2> DEFINE f == Head(toClient)
  <2>1. f \in Answers /\ Tail(toClient) \in Seq(Answers)
    BY <1>3, HeadTailProperties DEF RouteAnswer, CTypeOK
  <2>2. CASE f.type = "CONNECTED" \/ ErrorToGlobal
    BY <1>3, <2>1, <2>2 DEF RouteAnswer, NotifyGlobal, CTypeOK
  <2>3. CASE ~(f.type = "CONNECTED" \/ ErrorToGlobal)
    BY <1>3, <2>1, <2>3 DEF RouteAnswer, NotifyUndefReqID, CTypeOK
  <2>4. QED
    BY <2>2, <2>3
<1>4. CASE BrokerAnswer
  <2>1. Head(toBroker) \in Tags /\ Tail(toBroker) \in Seq(Tags)
    BY <1>4, HeadTailProperties DEF BrokerAnswer, CTypeOK
  <2>2. toClient' \in Seq(Answers)
    BY <1>4, <2>1, AnswerFrames, AppendProperties DEF BrokerAnswer, CTypeOK
  <2>3. QED
    BY <1>4, <2>1, <2>2 DEF BrokerAnswer, CTypeOK
<1>5. CASE ConnectsExhausted \/ UNCHANGED cvars
  BY <1>5 DEF ConnectsExhausted, cvars, CTypeOK
<1>6. QED
  BY <1>1, <1>2, <1>3, <1>4, <1>5 DEF CNext

\* Every reachable state of the handshake model is well typed, for any
\* number of callers and any bound on the CONNECTs written.
THEOREM ConnectorTypeCorrect == CSpec => []CTypeOK
BY CInitTypeOK, CTypeOKStep, PTL DEF CSpec

-----------------------------------------------------------------------------
(* NoSilentRejection.  The resp case of line 112 returns GetConnected()   *)
(* without looking at the frame's type, so the property holds only while  *)
(* nothing but CONNECTED reaches a global receiver.  That is the           *)
(* strengthening; it needs the router to send ERROR elsewhere.            *)

\* A caller's global receiver holds nothing or a CONNECTED frame.
RespOnlyConnected ==
    \A t \in Callers : resp[t] # NoFrame => resp[t].type = "CONNECTED"

RejectInv == NoSilentRejection /\ RespOnlyConnected

LEMMA RejectStep ==
    ASSUME ~ErrorToGlobal, CTypeOK, RejectInv, [CNext]_cvars
    PROVE  RejectInv'
<1>1. ASSUME NEW t \in Callers, ConnectBegin(t) PROVE RejectInv'
  <2>1. UNCHANGED resp
    BY <1>1 DEF ConnectBegin
  <2>2. \/ UNCHANGED cresult
        \/ \E out \in {"errRegistered", "errWrite"} :
              cresult' = [cresult EXCEPT ![t] = out]
    BY <1>1 DEF ConnectBegin, ConnectFail
  <2>3. QED
    BY <2>1, <2>2 DEF RejectInv, NoSilentRejection, RespOnlyConnected, CTypeOK
<1>2. ASSUME NEW t \in Callers, ConnectWait(t) PROVE RejectInv'
  <2>1. resp' = [resp EXCEPT ![t] = NoFrame]
    BY <1>2 DEF ConnectWait, CancelConnect
  <2>2. resp[t] # NoFrame => ConnectOutcome(resp[t]) = "ok"
    BY DEF RejectInv, RespOnlyConnected, ConnectOutcome
  <2>3. \E out \in {"errCtx", "ok", "errRejected"} :
           cresult' = [cresult EXCEPT ![t] = out]
    BY <1>2, <2>2 DEF ConnectWait
  <2>4. QED
    BY <2>1, <2>3 DEF RejectInv, NoSilentRejection, RespOnlyConnected, CTypeOK
<1>3. CASE RouteAnswer
  <2> DEFINE f == Head(toClient)
  <2>1. UNCHANGED cresult
    BY <1>3 DEF RouteAnswer
  <2>2. CASE f.type = "CONNECTED"
    <3>1. \/ resp' = [resp EXCEPT ![globalOwner] = f]
          \/ UNCHANGED resp
      BY <1>3, <2>2 DEF RouteAnswer, NotifyGlobal
    <3>2. QED
      BY <2>1, <2>2, <3>1 DEF RejectInv, NoSilentRejection, RespOnlyConnected,
         CTypeOK
  <2>3. CASE f.type # "CONNECTED"
    <3>1. UNCHANGED resp
      BY <1>3, <2>3 DEF RouteAnswer, NotifyUndefReqID
    <3>2. QED
      BY <2>1, <3>1 DEF RejectInv, NoSilentRejection, RespOnlyConnected
  <2>4. QED
    BY <2>2, <2>3
<1>4. CASE BrokerAnswer \/ ConnectsExhausted \/ UNCHANGED cvars
  <2>1. UNCHANGED <<resp, cresult>>
    BY <1>4 DEF BrokerAnswer, ConnectsExhausted, cvars
  <2>2. QED
    BY <2>1 DEF RejectInv, NoSilentRejection, RespOnlyConnected
<1>5. QED
  BY <1>1, <1>2, <1>3, <1>4 DEF CNext

\* With ERROR(undef) routed to the request-id slot, as the comment at
\* connector.go 65-68 expects, Connect never returns (nil, nil): a rejected
\* handshake always comes back as an error.  connector_spec_routing shows
\* that spec 4.2's routing to the global slot breaks it.
THEOREM ConnectRejectionNotSilent ==
    ASSUME ~ErrorToGlobal
    PROVE  CSpec => []NoSilentRejection
<1>1. CInit => CTypeOK /\ RejectInv
  BY CInitTypeOK DEF CInit, RejectInv, NoSilentRejection, RespOnlyConnected,
     NoFrame, Frame
<1>2. CTypeOK /\ RejectInv /\ [CNext]_cvars => (CTypeOK /\ RejectInv)'
  BY CTypeOKStep, RejectStep
<1>3. QED
  BY <1>1, <1>2, PTL DEF CSpec, RejectInv

-----------------------------------------------------------------------------
(* SlotsHeldByWaiters is inductive as it stands: a slot changes hands only *)
(* in ConnectBegin, which moves its caller into the select, and in the     *)
(* deferred cancels, which release the slots of the caller that leaves.   *)

LEMMA SlotsStep ==
    ASSUME CTypeOK, SlotsHeldByWaiters, [CNext]_cvars
    PROVE  SlotsHeldByWaiters'
<1>1. ASSUME NEW t \in Callers, ConnectBegin(t) PROVE SlotsHeldByWaiters'
  <2>1. CASE UNCHANGED <<cpc, globalOwner, undefOwner>>
    BY <2>1 DEF SlotsHeldByWaiters
  <2>2. CASE /\ globalOwner' = t /\ undefOwner' = t
             /\ cpc' = [cpc EXCEPT ![t] = "wait"]
    BY <2>2 DEF SlotsHeldByWaiters, CTypeOK
  <2>3. QED
    BY <1>1, <2>1, <2>2 DEF ConnectBegin, ConnectFail
<1>2. ASSUME NEW t \in Callers, ConnectWait(t) PROVE SlotsHeldByWaiters'
  <2>1. cpc' = [cpc EXCEPT ![t] = "idle"]
    BY <1>2 DEF ConnectWait
  <2>2. /\ globalOwner' = IF globalOwner = t THEN NoOne ELSE globalOwner
        /\ undefOwner' = IF undefOwner = t THEN NoOne ELSE undefOwner
    BY <1>2 DEF ConnectWait, CancelConnect
  <2>3. QED
    BY <2>1, <2>2 DEF SlotsHeldByWaiters, CTypeOK
<1>3. CASE RouteAnswer
  <2>1. UNCHANGED cpc
    BY <1>3 DEF RouteAnswer
  <2>2. /\ globalOwner' \in {globalOwner, NoOne}
        /\ undefOwner' \in {undefOwner, NoOne}
    BY <1>3 DEF RouteAnswer, NotifyGlobal, NotifyUndefReqID
  <2>3. QED
    BY <2>1, <2>2 DEF SlotsHeldByWaiters
<1>4. CASE BrokerAnswer \/ ConnectsExhausted \/ UNCHANGED cvars
  BY <1>4 DEF BrokerAnswer, ConnectsExhausted, cvars, SlotsHeldByWaiters
<1>5. QED
  BY <1>1, <1>2, <1>3, <1>4 DEF CNext

\* For any number of callers, whichever way Connect returns, the global and
\* the request-id slot it took are free again: a slot is only ever held by
\* a Connect still waiting in the select of line 108.
THEOREM ConnectSlotsReleased == CSpec => []SlotsHeldByWaiters
<1>1. CInit => CTypeOK /\ SlotsHeldByWaiters
  BY CInitTypeOK DEF CInit, SlotsHeldByWaiters
<1>2. CTypeOK /\ SlotsHeldByWaiters /\ [CNext]_cvars
         => (CTypeOK /\ SlotsHeldByWaiters)'
  BY CTypeOKStep, SlotsStep
<1>3. QED
  BY <1>1, <1>2, PTL DEF CSpec

=============================================================================
