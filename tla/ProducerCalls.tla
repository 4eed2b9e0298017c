---------------------------- MODULE ProducerCalls ----------------------------
(***************************************************************************)
(* What the producer promises its callers, with the connection, the        *)
(* dispatcher and the reader task left out: a call starts and later ends   *)
(* in one step, and what it reports agrees with the broker.                *)
(*                                                                         *)
(*  - each Send gets a sequence id no other Send had;                      *)
(*  - a Send reports a receipt only if the broker stored its message, and *)
(*    reports "closed" only if the producer is closed;                     *)
(*  - a Close runs alone (it holds the producer's lock), and the producer *)
(*    becomes closed only after the broker has dropped it, either when a  *)
(*    Close succeeds or on the broker's own say-so;                        *)
(*  - once closed the producer stays closed.                              *)
(***************************************************************************)
EXTENDS Integers

CONSTANTS Callers, NoOne, MaxSeq, MaxReq

VARIABLES
    status,     \* status[t]: "idle", "sending" or "closing"
    sid,        \* sid[t]: sequence id of t's Send
    issued,     \* number of sequence ids handed out
    reqs,       \* number of request ids handed out
    result,     \* result[t]: what t's last call returned
    closed,     \* the producer is closed
    closer,     \* the caller whose Close is in progress, or NoOne
    brokerOpen, \* the broker still has the producer open
    stored      \* sequence ids whose message the broker stored

avars == <<status, sid, issued, reqs, result, closed, closer, brokerOpen, stored>>

Ids == 0..(IF MaxSeq > MaxReq THEN MaxSeq ELSE MaxReq)
Result(op, out, id) == [op |-> op, out |-> out, id |-> id]
SendErrors == {"errClosed", "errCtx", "errRejected", "errUnexpected",
               "errRegistered", "errWrite"}

Init ==
    /\ status = [t \in Callers |-> "idle"]
    /\ sid = [t \in Callers |-> 0]
    /\ issued = 0
    /\ reqs = 0
    /\ result = [t \in Callers |-> Result("none", "none", 0)]
    /\ closed = FALSE
    /\ closer = NoOne
    /\ brokerOpen = TRUE
    /\ stored = {}

\* A call may start only while no Close holds the producer.
Free(t) == status[t] = "idle" /\ closer = NoOne

SendRejected(t) ==
    /\ Free(t) /\ closed
    /\ result' = [result EXCEPT ![t] = Result("send", "errClosed", 0)]
    /\ UNCHANGED <<status, sid, issued, reqs, closed, closer, brokerOpen, stored>>

SendStart(t) ==
    /\ Free(t) /\ ~closed /\ issued < MaxSeq
    /\ status' = [status EXCEPT ![t] = "sending"]
    /\ sid' = [sid EXCEPT ![t] = issued]
    /\ issued' = issued + 1
    /\ UNCHANGED <<reqs, result, closed, closer, brokerOpen, stored>>

SendEnd(t) ==
    /\ status[t] = "sending"
    /\ \E out \in SendErrors \cup {"ok"} :
          /\ out = "ok" => sid[t] \in stored
          /\ out = "errClosed" => closed
          /\ result' = [result EXCEPT ![t] = Result("send", out, sid[t])]
    /\ status' = [status EXCEPT ![t] = "idle"]
    /\ UNCHANGED <<sid, issued, reqs, closed, closer, brokerOpen, stored>>

CloseNoop(t) ==
    /\ Free(t) /\ closed
    /\ result' = [result EXCEPT ![t] = Result("close", "ok", 0)]
    /\ UNCHANGED <<status, sid, issued, reqs, closed, closer, brokerOpen, stored>>

CloseFail(t) ==
    /\ Free(t) /\ ~closed /\ reqs < MaxReq
    /\ \E out \in {"errRegistered", "errWrite"} :
          result' = [result EXCEPT ![t] = Result("close", out, reqs)]
    /\ reqs' = reqs + 1
    /\ UNCHANGED <<status, sid, issued, closed, closer, brokerOpen, stored>>

CloseStart(t) ==
    /\ Free(t) /\ ~closed /\ reqs < MaxReq
    /\ reqs' = reqs + 1
    /\ status' = [status EXCEPT ![t] = "closing"]
    /\ closer' = t
    /\ UNCHANGED <<sid, issued, result, closed, brokerOpen, stored>>

CloseEnd(t) ==
    /\ status[t] = "closing" /\ closer = t
    /\ \/ /\ result' = [result EXCEPT ![t] = Result("close", "errCtx", 0)]
          /\ UNCHANGED closed
       \/ /\ ~brokerOpen
          /\ result' = [result EXCEPT ![t] = Result("close", "ok", 0)]
          /\ closed' = TRUE
    /\ status' = [status EXCEPT ![t] = "idle"]
    /\ closer' = NoOne
    /\ UNCHANGED <<sid, issued, reqs, brokerOpen, stored>>

\* The broker dropped the producer and the client learns it.
ExternalClose ==
    /\ closer = NoOne /\ ~brokerOpen /\ ~closed
    /\ closed' = TRUE
    /\ UNCHANGED <<status, sid, issued, reqs, result, closer, brokerOpen, stored>>

\* The broker stores a message that was sent, or drops the producer.
Store ==
    /\ brokerOpen
    /\ \E i \in 0..(issued - 1) : stored' = stored \cup {i}
    /\ UNCHANGED <<status, sid, issued, reqs, result, closed, closer, brokerOpen>>

BrokerStops ==
    /\ brokerOpen
    /\ brokerOpen' = FALSE
    /\ UNCHANGED <<status, sid, issued, reqs, result, closed, closer, stored>>

Next ==
    \/ \E t \in Callers :
          \/ SendRejected(t) \/ SendStart(t) \/ SendEnd(t)
          \/ CloseNoop(t) \/ CloseFail(t) \/ CloseStart(t) \/ CloseEnd(t)
    \/ ExternalClose \/ Store \/ BrokerStops

Spec == Init /\ [][Next]_avars

=============================================================================
