----------------------------- MODULE Connector -----------------------------
(***************************************************************************)
(* The CONNECT handshake of src/core/conn/connector.go: callers of        *)
(* Connector.Connect on one connection, the reader task routing CONNECTED *)
(* and ERROR frames through the dispatcher, and the broker.               *)
(*                                                                         *)
(* Connect registers two dispatcher slots, the single global slot (for    *)
(* CONNECTED) and the request-id slot UndefRequestID (for the ERROR       *)
(* answer), writes CONNECT and waits on both and on its context.          *)
(*                                                                         *)
(* Which slot an ERROR with the undefined request id reaches is decided   *)
(* by the client's router, which is not under src/.  Spec 4.2 says the    *)
(* global slot; the comment at connector.go 65-68 expects the request-id  *)
(* slot.  ErrorToGlobal selects between the two.                          *)
(*                                                                         *)
(* Frames carry a ghost tag: the number of the CONNECT they answer.  It is *)
(* not on the wire and no action reads it; only properties do.            *)
(***************************************************************************)
EXTENDS Naturals, Sequences

CONSTANTS
    Callers,        \* goroutines calling Connect on the same Connector
    NoOne,          \* "slot not registered"
    MaxConnects,    \* bound on the number of CONNECT frames written
    CtxExpires,     \* TRUE: the context passed to Connect has a deadline
    ErrorToGlobal,  \* TRUE: the router sends ERROR(undef) to the global slot
    WriteMayFail    \* TRUE: writing CONNECT may return an error

ASSUME ConnectorAssumption ==
    /\ NoOne \notin Callers
    /\ MaxConnects \in Nat
    /\ CtxExpires \in BOOLEAN
    /\ ErrorToGlobal \in BOOLEAN
    /\ WriteMayFail \in BOOLEAN

VARIABLES
    cpc,          \* cpc[t]: "idle" or "wait" (in the select of line 108)
    attempt,      \* attempt[t]: ghost tag of t's CONNECT in progress
    cresult,      \* cresult[t]: what t's last Connect returned
    globalOwner,  \* owner of the dispatcher's global slot, or NoOne
    undefOwner,   \* owner of the request-id slot UndefRequestID, or NoOne
    resp,         \* resp[t]: frame on t's global receiver, or NoFrame
    errResp,      \* errResp[t]: frame on t's request-id receiver, or NoFrame
    sent,         \* number of CONNECT frames written
    toBroker,     \* CONNECT frames in flight (their ghost tags)
    toClient      \* answers in flight

cvars == <<cpc, attempt, cresult, globalOwner, undefOwner, resp, errResp,
           sent, toBroker, toClient>>

Tags == 0..MaxConnects
Frame(type, tag) == [type |-> type, tag |-> tag]
Answers == [type : {"CONNECTED", "ERROR"}, tag : Tags]
NoFrame == Frame("NONE", 0)
\* "ok": CONNECTED returned; "okNil": (nil, nil) returned from the resp case
\* with a frame that is not CONNECTED (GetConnected() is nil).
COutcomes == {"none", "ok", "okNil", "errRejected", "errCtx", "errRegistered",
              "errWrite"}

-----------------------------------------------------------------------------
CInit ==
    /\ cpc = [t \in Callers |-> "idle"]
    /\ attempt = [t \in Callers |-> 0]
    /\ cresult = [t \in Callers |-> "none"]
    /\ globalOwner = NoOne
    /\ undefOwner = NoOne
    /\ resp = [t \in Callers |-> NoFrame]
    /\ errResp = [t \in Callers |-> NoFrame]
    /\ sent = 0
    /\ toBroker = <<>>
    /\ toClient = <<>>

\* Variant of ConnectFail in which the global slot taken at line 59 is not
\* released on a later early return, as if the deferred cancel of line 63
\* ran the cancel that line 69 rebinds.
ConnectFailLeak(t, out) ==
    /\ cresult' = [cresult EXCEPT ![t] = out]
    /\ globalOwner' = IF globalOwner = NoOne THEN t ELSE globalOwner
    /\ UNCHANGED <<cpc, attempt, undefOwner, sent, toBroker>>

\* A return of Connect before CONNECT is on the wire.  The deferred cancels
\* (lines 63 and 73) release whatever slot was taken, so no slot changes.
ConnectFail(t, out) ==
    /\ cresult' = [cresult EXCEPT ![t] = out]
    /\ UNCHANGED <<cpc, attempt, globalOwner, undefOwner, sent, toBroker>>

\* Lines 59-104: RegisterGlobal, RegisterReqID(UndefRequestID), build and
\* write CONNECT.  A failed registration (60-61, 70-71) or a failed write
\* (102-103) returns its error.
ConnectBegin(t) ==
    /\ cpc[t] = "idle"
    /\ sent < MaxConnects
    /\ \/ globalOwner # NoOne /\ ConnectFail(t, "errRegistered")
       \/ /\ globalOwner = NoOne /\ undefOwner # NoOne
          /\ ConnectFail(t, "errRegistered")
       \/ /\ globalOwner = NoOne /\ undefOwner = NoOne /\ WriteMayFail
          /\ ConnectFail(t, "errWrite")
       \/ /\ globalOwner = NoOne /\ undefOwner = NoOne
          /\ globalOwner' = t
          /\ undefOwner' = t
          /\ attempt' = [attempt EXCEPT ![t] = sent]
          /\ toBroker' = Append(toBroker, sent)
          /\ sent' = sent + 1
          /\ cpc' = [cpc EXCEPT ![t] = "wait"]
          /\ UNCHANGED cresult
    /\ UNCHANGED <<resp, errResp, toClient>>

\* Both deferred cancels: release t's slots and drop its receivers.
CancelConnect(t) ==
    /\ globalOwner' = IF globalOwner = t THEN NoOne ELSE globalOwner
    /\ undefOwner' = IF undefOwner = t THEN NoOne ELSE undefOwner
    /\ resp' = [resp EXCEPT ![t] = NoFrame]
    /\ errResp' = [errResp EXCEPT ![t] = NoFrame]

\* Variant of ConnectOutcome that hands the frame's type back unconverted.
ConnectOutcomeRaw(f) == f.type

\* Line 113: GetConnected() of the frame on resp, nil unless it is CONNECTED.
ConnectOutcome(f) == IF f.type = "CONNECTED" THEN "ok" ELSE "okNil"

\* Variant of ConnectWait that reads each receiver in the other's case.
ConnectWaitSwapped(t) ==
    /\ cpc[t] = "wait"
    /\ \/ CtxExpires /\ cresult' = [cresult EXCEPT ![t] = "errCtx"]
       \/ /\ errResp[t] # NoFrame
          /\ cresult' = [cresult EXCEPT ![t] = ConnectOutcome(errResp[t])]
       \/ resp[t] # NoFrame /\ cresult' = [cresult EXCEPT ![t] = "errRejected"]
    /\ cpc' = [cpc EXCEPT ![t] = "idle"]
    /\ CancelConnect(t)
    /\ UNCHANGED <<attempt, sent, toBroker, toClient>>

\* Lines 108-118: whichever case is ready returns.
ConnectWait(t) ==
    /\ cpc[t] = "wait"
    /\ \/ CtxExpires /\ cresult' = [cresult EXCEPT ![t] = "errCtx"]
       \/ /\ resp[t] # NoFrame
          /\ cresult' = [cresult EXCEPT ![t] = ConnectOutcome(resp[t])]
       \/ errResp[t] # NoFrame /\ cresult' = [cresult EXCEPT ![t] = "errRejected"]
    /\ cpc' = [cpc EXCEPT ![t] = "idle"]
    /\ CancelConnect(t)
    /\ UNCHANGED <<attempt, sent, toBroker, toClient>>

-----------------------------------------------------------------------------
(* The dispatcher's NotifyGlobal / NotifyReqID (spec 4.2): deliver to the  *)
(* owner and consume the slot, or drop the frame when there is none.      *)

NotifyGlobal(f) ==
    IF globalOwner # NoOne
    THEN /\ resp' = [resp EXCEPT ![globalOwner] = f]
         /\ globalOwner' = NoOne
         /\ UNCHANGED <<errResp, undefOwner>>
    ELSE UNCHANGED <<resp, errResp, globalOwner, undefOwner>>

NotifyUndefReqID(f) ==
    IF undefOwner # NoOne
    THEN /\ errResp' = [errResp EXCEPT ![undefOwner] = f]
         /\ undefOwner' = NoOne
         /\ UNCHANGED <<resp, globalOwner>>
    ELSE UNCHANGED <<resp, errResp, globalOwner, undefOwner>>

\* The reader task's routing of the handshake answers (spec 4.5).
RouteAnswer ==
    /\ toClient # <<>>
    /\ LET f == Head(toClient) IN
       /\ toClient' = Tail(toClient)
       /\ IF f.type = "CONNECTED" \/ ErrorToGlobal
          THEN NotifyGlobal(f)
          ELSE NotifyUndefReqID(f)
    /\ UNCHANGED <<cpc, attempt, cresult, sent, toBroker>>

\* The broker answers each CONNECT with CONNECTED or ERROR (environment).
BrokerAnswer ==
    /\ toBroker # <<>>
    /\ toBroker' = Tail(toBroker)
    /\ \E type \in {"CONNECTED", "ERROR"} :
          toClient' = Append(toClient, Frame(type, Head(toBroker)))
    /\ UNCHANGED <<cpc, attempt, cresult, globalOwner, undefOwner, resp,
                   errResp, sent>>

\* All CONNECTs are written and answered: the behaviour ends.
ConnectsExhausted ==
    /\ sent = MaxConnects
    /\ \A t \in Callers : cpc[t] = "idle"
    /\ toBroker = <<>> /\ toClient = <<>>
    /\ UNCHANGED cvars

CNext ==
    \/ \E t \in Callers : ConnectBegin(t) \/ ConnectWait(t)
    \/ RouteAnswer \/ BrokerAnswer
    \/ ConnectsExhausted

CSpec == CInit /\ [][CNext]_cvars

-----------------------------------------------------------------------------
CTypeOK ==
    /\ cpc \in [Callers -> {"idle", "wait"}]
    /\ attempt \in [Callers -> Tags]
    /\ cresult \in [Callers -> COutcomes]
    /\ globalOwner \in Callers \cup {NoOne}
    /\ undefOwner \in Callers \cup {NoOne}
    /\ resp \in [Callers -> Answers \cup {NoFrame}]
    /\ errResp \in [Callers -> Answers \cup {NoFrame}]
    /\ sent \in 0..MaxConnects
    /\ toBroker \in Seq(Tags) /\ toClient \in Seq(Answers)

\* Connect never reports success without a CONNECTED: a rejected handshake
\* must not come back as (nil, nil) through the resp case of line 112.
NoSilentRejection == \A t \in Callers : cresult[t] # "okNil"

\* Every taken slot of the handshake belongs to a Connect still in its
\* select: the deferred cancels of lines 63 and 73 release both slots on
\* every return path, also when line 69 rebinds cancel, so no failed or
\* finished Connect leaves a slot that makes every later Connect fail.
SlotsHeldByWaiters ==
    /\ globalOwner # NoOne => cpc[globalOwner] = "wait"
    /\ undefOwner # NoOne => cpc[undefOwner] = "wait"

\* Spec 5 (Cancellation): an answer that arrives after its Connect gave up
\* is dropped.  So whatever reaches a waiting Connect answers its own
\* CONNECT, even when an earlier attempt timed out and was retried.
AnswersReachTheirAsker ==
    \A t \in Callers :
       cpc[t] = "wait" =>
          /\ resp[t] # NoFrame => resp[t].tag = attempt[t]
          /\ errResp[t] # NoFrame => errResp[t].tag = attempt[t]

=============================================================================
