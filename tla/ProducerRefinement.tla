-------------------------- MODULE ProducerRefinement --------------------------
(***************************************************************************)
(* The producer model implements ProducerCalls, what the producer promises *)
(* its callers, under the refinement mapping below.  A caller is "sending" *)
(* from its SeqID.Next() to its return, and "closing" while it holds Mu in *)
(* Close's select; the lock holder is the abstract closer; the dispatcher, *)
(* the wire and the reader task have no abstract counterpart, so their     *)
(* steps are stutters.                                                     *)
(***************************************************************************)
EXTENDS Producer

\* Where a caller's program counter is, as a call in progress.
CallStatus(p) ==
    IF p \in {"send_write", "send_wait"} THEN "sending"
    ELSE IF p = "close_wait" THEN "closing"
    ELSE "idle"

\* Every caller's call in progress.
callStatus == [t \in Callers |-> CallStatus(pc[t])]

Calls == INSTANCE ProducerCalls
            WITH status <- callStatus,
                 sid <- seqOf, issued <- nextSeq, reqs <- nextReq,
                 closed <- isClosed, closer <- writer, brokerOpen <- bOpen,
                 stored <- persisted

\* Every behaviour of Send, Close, HandleCloseProducer, the reader task and
\* a broker that does not deduplicate is a behaviour of ProducerCalls: ids
\* are fresh, a receipt means the message is stored, "closed" means
\* closed, Close runs under Mu alone and closes only after the broker did.
ImplementsCalls == Calls!Spec

=============================================================================
