# TLA+ models of pulsar-client-go's producer and CONNECT handshake

This directory holds TLA+ models of the concurrent parts of the repository's code under `src/`, TLC configurations that check them, and TLAPS proofs.

The code under `src/` is:
- `src/core/pub/producer.go`: `Producer`, with Send, Close, HandleCloseProducer and NewProducer;
- `src/core/conn/connector.go`: `Connector.Connect`, the CONNECT handshake;
- `src/core/conn/conn_integration_test.go`, which bundles the test with `conn.go` (from line 95): `Conn`, with `Close`, `Read` and the frame writers;
- `src/core/pub/producer_test.go`, which bundles the test with `managed_consumer.go` (from line 241) and `frame.go` (from line 796).

The dispatcher, the client's router and the id counters are not under `src/`. They are modelled from `spec.md` where the code above depends on them, and those definitions are marked `spec_modelled` in `PROJECT.json`.

## Inventory of the system

| Part (spec section) | Code | Status | Module |
|---|---|---|---|
| Producer (4.6) | `producer.go` | modelled | `Producer`, `MCProducer`, `Producer_proofs`; abstract spec `ProducerCalls`, refinement `ProducerRefinement`, `ProducerRefinement_proofs` |
| Connect handshake (4.5) | `connector.go` | modelled | `Connector`, `MCConnector`, `Connector_proofs` |
| Dispatcher (4.2) | not under src/ | partly, from the spec | inside `Producer` and `Connector` |
| Client router on the reader task (4.5) | not under src/ | partly, from the spec | `ReaderRecv`, `RouteAnswer` |
| Monotonic ids (4.9) | not under src/ | partly | the counters `nextSeq` and `nextReq` |
| Frame codec (4.1) | `frame.go` in `producer_test.go` | not modelled | pure byte-level code, no concurrency |
| Connection and buffer pools (4.3) | `conn.go` in `conn_integration_test.go` | partly | two FIFO queues; loss of the connection is `ConnClose` in `Producer`, from `Conn.Close` and `Read` |
| Heartbeat (4.4) | not under src/ | not modelled | timers only |
| Consumer (4.7) | not under src/ | not modelled | |
| Managed supervisor and client pool (4.8) | `managed_consumer.go` in `producer_test.go`; the pool is not under src/ | not modelled | a reconnect loop over `sub.Consumer`, which is not under src/ |

### How the parts interact

Application goroutines call `Send` and `Close`. They write frames to the connection, and the socket is shared behind a write mutex. Each call waits on a receiver that it registered in the dispatcher.

The connection's single reader task decodes inbound frames and routes them:
- `SEND_RECEIPT` and `SEND_ERROR` go to the dispatcher by (producer id, sequence id);
- `SUCCESS` goes by request id;
- `CLOSE_PRODUCER` calls `Producer.HandleCloseProducer` on the reader task itself.

`Producer.Mu` is a `sync.RWMutex`:
- `Send` holds the read lock only around its `IsClosed` test (lines 78-83);
- `Close` holds the write lock for its whole round trip (lines 162-163);
- `HandleCloseProducer` takes the write lock (line 209).

`Connect` registers the dispatcher's single global slot and the `UndefRequestID` request-id slot, then writes CONNECT. It returns on CONNECTED (global slot), on ERROR (request-id slot) or when its context expires.

## Modules

### `Producer.tla`

The module models one producer on one connection: `Callers` goroutines, the reader task and the broker.

**State** (the `Producer` struct, lines 49-65, and the goroutines' program counters):

| Variable | Code |
|---|---|
| `isClosed` | `IsClosed` |
| `closedc` | whether `Closedc` has been closed |
| `panicked` | whether a second `close()` ran |
| `writer` | holder of `Mu`'s write lock |
| `nextSeq` | `SeqID` |
| `nextReq` | the client's `ReqID` |
| `pc`, `seqOf`, `reqOf`, `result` | each caller's position, its ids and what its last call returned |
| `disp`, `inbox` | dispatcher registrations and receivers |
| `readerPc` | whether the reader task is in `recv` or blocked in `HandleCloseProducer` |
| `toBroker`, `toClient` | the connection's two byte streams, as FIFO sequences of (type, id) frames |
| `bOpen`, `bLastSeq`, `persisted` | the broker's view |
| `connOpen` | whether the connection is still up (`Conn.IsClosed` not yet set, `Conn.Closedc` not yet closed) |

**Actions:**

| Action | Code | What it does |
|---|---|---|
| `SendBegin` | 78-85 | The `IsClosed` test and `SeqID.Next()`. The test waits while `Mu` is write-held. |
| `SendWrite` | 87-114 | Build the frame (abstracted to (SEND, id)), register the key and write SEND. A taken key (103-104) and a failed write (112-113) are early returns. A write on a lost connection always fails. |
| `SendWait` | 116-140 | The select. Any ready case may fire, and each return runs the deferred cancel (106). |
| `CloseBegin` | 162-187 | Lock; return nil if already closed; otherwise take a request id, register it and write CLOSE_PRODUCER. The early returns release `Mu`. |
| `CloseWait` | 189-197 | ctx.Done, or any response, which sets `IsClosed` and closes `Closedc`. In both cases the deferred cancel runs and `Mu` is released. |
| `HandleCloseProducer` | 208-221 | Runs on the reader task and needs `Mu` to be free. |
| `ReaderRecv` | spec 4.5 | The router. |
| `BrokerRecv`, `BrokerClose` | environment | The broker answers in order. It may deduplicate on sequence id (Pulsar's behaviour) and may close the producer for failover. |
| `ConnClose` | `Conn.Close` and `Conn.Read`, conn_integration_test.go 170-212 | The connection is lost (when `ConnMayDrop`): `Read`'s `Decode` fails and calls `Conn.Close`. Both streams are dropped, the broker forgets the producer and later writes fail. `Conn.Close` leaves the dispatcher alone; when `DrainOnClose`, the step also runs `DrainRegistrations` (spec 7), which hands every registration's receiver a `CONN_CLOSED` frame. |

`BoundsExhausted` is a stuttering step for a state where the bounds are used up and nothing is in flight, so that TLC reports only real deadlocks.

**Connection loss.** `Send`'s select (line 117) watches `ctx.Done()`, `p.Closed()` and `resp`, but not `ConnClosed()`; `Close`'s select (line 189) watches `ctx.Done()` and `resp`. A call on a dead connection whose context has no deadline can therefore return only if the dispatcher drains its slot. Spec 7 says it does: the `CONN_CLOSED` frame falls into the `default` case of Send's switch (line 137) and becomes `errUnexpected`, and a waiting Close takes it as its response and marks the producer closed. `Conn.Close` in `src/` does not drain anything, and the dispatcher is not under `src/`. The constant `DrainOnClose` chooses between the two, and the runs check both.

**Granularity.** `SeqID.Next()` is atomic and is merged with the `IsClosed` test; only another Send touches `SeqID`. The gap that matters, between taking an id and writing the frame, is kept.

**Variants.** Definitions named `...Raw`, `...Shared`, `...NoBroadcast`, `...CtxCloses`, `CancelKeepInbox`, `CloseKeySeq`, `CloseWaitKeepLock`, `SendBeginUnlocked`, `ConnectWaitSwapped` and `ConnectFailLeak` are variants of the code with a plausible bug. `PROJECT.json` substitutes each one for its original to show that the property it breaks is sensitive to that code. The specification itself never uses them.

### `ProducerCalls.tla` and `ProducerRefinement.tla`

`ProducerCalls` says what the producer promises its callers, with the connection, the dispatcher and the reader task left out. Each call starts in one step and ends in one step:
- `SendStart` hands out a fresh sequence id, and `SendEnd` reports a receipt only for a stored id and "closed" only when the producer is closed;
- `CloseStart` takes the producer for itself (`closer`), and `CloseEnd` succeeds only after the broker dropped the producer;
- `SendRejected`, `CloseNoop` and `CloseFail` are the calls that return at once;
- `ExternalClose`, `Store` and `BrokerStops` are the reader task's and the broker's steps.

`ProducerRefinement` instantiates it as `Calls` with this mapping:

| `ProducerCalls` | `Producer` |
|---|---|
| `status[t]` | `CallStatus(pc[t])`: "sending" in `send_write`/`send_wait`, "closing" in `close_wait`, else "idle" |
| `sid`, `issued`, `reqs` | `seqOf`, `nextSeq`, `nextReq` |
| `result`, `closed`, `closer` | `result`, `isClosed`, `writer` |
| `brokerOpen`, `stored` | `bOpen`, `persisted` |

`SendWrite`'s success, `ReaderRecv`, the broker's answers and `BoundsExhausted` map to stutter steps. `ImplementsCalls == Calls!Spec` is the property.

### `Connector.tla`

The module models `Callers` goroutines calling `Connect` on one connection, the router and the broker.

**Actions:**

| Action | Code | What it does |
|---|---|---|
| `ConnectBegin` | 59-104 | Register the global slot, register `UndefRequestID`, write CONNECT. Each failure returns early. |
| `ConnectWait` | 108-118 | The select. |
| `RouteAnswer` | spec 4.5 | Routing of CONNECTED and ERROR. |
| `BrokerAnswer` | environment | The broker answers each CONNECT. |

**Ghost tag.** Frames carry the number of the CONNECT they answer. No action reads it; only properties do.

**`ErrorToGlobal`.** This constant selects where ERROR with the undefined request id goes:
- TRUE: to the global slot, as spec 4.2 says;
- FALSE: to the request-id slot, as the comment at connector.go 65-68 expects.

### MC modules

`MCProducer` and `MCConnector` extend their modules and add a symmetry set over `Callers`. The `Callers` are interchangeable model values, so the symmetry is sound.

## Runs

| Run | cfg | Expect | Checks |
|---|---|---|---|
| producer_safety | `MCProducer.cfg` | pass | `TypeOK`, `NoCloseOfClosedChannel`, `ClosedcMirrorsIsClosed`, `OutcomesTruthful`, `AnswersReachTheirAsker`, `RegistrationsHeldByWaiters` |
| producer_liveness | `MCProducerLive.cfg` | pass | `CallsReturn` under `FairSpec` |
| producer_reader_resumes | `MCProducerReader.cfg` | pass | `ReaderResumes` under `FairSpec` |
| producer_conn_loss_hang | `MCProducerConnHang.cfg` | violation | `CallsReturn` |
| producer_refinement | `MCProducerRefinement.cfg` | pass | `ImplementsCalls` (module `ProducerRefinement`) |
| producer_close_deadlock | `MCProducerDeadlock.cfg` | violation | `CallsReturn` |
| producer_dedup_reorder | `MCProducerDedup.cfg` | violation | `OutcomesTruthful` |
| connector_safety | `MCConnector.cfg` | pass | `CTypeOK`, `NoSilentRejection`, `SlotsHeldByWaiters` |
| connector_spec_routing | `MCConnectorSpecRouting.cfg` | violation | `NoSilentRejection` |
| connector_retry | `MCConnectorRetry.cfg` | violation | `AnswersReachTheirAsker` |

**Bounds.** The producer runs use two callers, `MaxSeq = 3` and `MaxReq = 2`. This is enough for:
- two concurrent Sends whose frames cross;
- a Send racing a Close or a broker close;
- two Closes, one of them after the producer is closed;
- a timeout followed by a retry on the same goroutine.

The connector uses two callers and three CONNECTs, which is enough for a timeout, a retry and a late answer.

**Flags.**
- `producer_safety` and `producer_refinement` turn on context deadlines, failing writes, broker failover and connection loss.
- `producer_liveness` turns off deadlines, because with them every call returns trivially. It also turns off broker failover, which the deadlock run shows is not live. It turns on deduplication, and connection loss with the drain of spec 7.
- `producer_reader_resumes` turns on deadlines and broker failover. The reader's progress is the question here, and a deadline is what frees the reader from a Close that holds `Mu`. It uses `MaxSeq = 2` and no failing writes to stay small (70,000 states).
- `producer_conn_loss_hang` turns on connection loss without the drain, which is what `Conn.Close` does.
- The other violation runs turn connection loss off, so their traces show only the bug they are about.
- `producer_refinement` has no symmetry set, since a temporal property is checked (1.2 million states).

### What the runs show

1. **Deadlock between Close and HandleCloseProducer** (producer_close_deadlock). Close holds `Mu` while it waits. The broker's failover `CLOSE_PRODUCER` arrives first, and the reader task blocks on `Mu` in `HandleCloseProducer`. The `SUCCESS` that Close needs is behind that frame and is never routed. Without a deadline on Close's context, both wait forever. Spec 5's no-deadlock rule says this cannot happen.
2. **Sequence ids out of order** (producer_dedup_reorder). Two Sends take sequence ids 0 and 1 and write in the order 1, 0. A deduplicating broker persists 1, treats 0 as a duplicate and acknowledges it without persisting it, so Send 0 returns a receipt for a lost message.
3. **Spec routing of ERROR** (connector_spec_routing). Under spec 4.2's rule, `Connect` returns `(nil, nil)` when the broker rejects the handshake, because line 113 does not check the frame type.
4. **A call that waits forever after the connection is lost** (producer_conn_loss_hang). `Conn.Close` does not drain the dispatcher, and the selects of Close and Send do not watch the connection. In TLC's trace a Close has written CLOSE_PRODUCER when the connection dies. It waits forever holding `Mu`, so every later Send and Close of the producer blocks too. Spec 7 says every registration drains to `ConnectionClosed`; the code in `src/` does not.
5. **Late answers after a retry** (connector_retry). The global slot has no correlation id, so the answer to a CONNECT that timed out is given to the retry.

The passing runs show, on their instances:
- no return path of `Connect` leaves the global or the request-id slot taken. Line 69 rebinds `cancel`; the `defer` of line 63 has already captured the global slot's cancel, so both are released. The variant `ConnectFailLeak`, which keeps the global slot on a later early return, breaks it in one step;
- `Closedc` is never closed twice;
- a Send reports a receipt only for a persisted message when the broker does not deduplicate;
- `IsClosed` implies the broker has closed the producer;
- a receiver only ever holds the answer to the request its owner is waiting on;
- every dispatcher slot is held by a caller blocked on that very key, so no return path leaks a registration;
- every call that got past its lock returns when contexts have no deadline and the broker does not close the producer, including a deduplicating broker and a connection lost while calls wait, provided the dispatcher drains as spec 7 says. The variant `CloseKeySeq`, which registers Close under a sequence-id key, leaves Close waiting for a SUCCESS that is never routed to it. Waiting on `Mu` is not part of this: `SendBegin` and `CloseBegin` take the lock in the same step that starts the call, so a caller blocked on `Mu` is still `idle` in the model, and starvation on the lock is not checked. The connection-loss case holds here only because of the drain, whatever the selects do; `producer_conn_loss_hang` is the case without the drain;
- with deadlines and broker failover, the reader task blocked on `Mu` in `HandleCloseProducer` always gets the lock back (`ReaderResumes`). The variant `CloseWaitKeepLock`, which returns on `ctx.Done()` without unlocking, leaves the reader blocked;
- every behaviour is a behaviour of `ProducerCalls`; the variant of `SendBegin` that skips the read lock lets a Send start while a Close holds `Mu`, and the refinement fails.

`HandleCloseProducer`'s `IsClosed` test (line 212) is never true in the model. With one FIFO connection, the broker's `CLOSE_PRODUCER` always reaches the reader before the `SUCCESS` that would let a Close finish first. It is kept because it is the code.

## Fairness

`FairSpec` assumes the following:
- **Weak fairness** for each caller's steps after it has started (`SendWrite`, `SendWait`, `CloseWait`), for the reader task and for the broker's answers. Go schedules runnable goroutines, and the broker answers what it reads.
- **Strong fairness** for `HandleCloseProducer`. Go's `sync.Mutex` switches to starvation mode and hands the lock to a waiter blocked for more than 1 ms, so a waiter that is repeatedly enabled gets the lock.
- **No fairness** for starting a call or for the broker's own close. Those are the environment's choices.

## Proofs

`Producer_proofs.tla`, `ProducerRefinement_proofs.tla` and `Connector_proofs.tla` are checked by `tlapm`. The producer's theorems hold for every set of callers and all values of `MaxSeq` and `MaxReq`, under the named assumption `ConstantsAssumption` in `Producer.tla`. `BrokerDedup`, `WriteMayFail`, `CtxExpires`, `BrokerMayClose`, `ConnMayDrop` and `DrainOnClose` are arbitrary Booleans, except where a theorem assumes `~BrokerDedup`.

- **`TypeCorrect`: `Spec => []TypeOK`.** Lemma `InitTypeOK` and lemma `TypeOKStep`, one step per action. They rest on lemmas about the dispatcher operators (`RegisterType`, `CancelType`, `NotifyType`), the id ranges (`IdsFacts`) and frame typing (`FrameTypes`), with `AppendProperties` and `HeadTailProperties` from `SequenceTheorems`.
- **`ClosedcTracksIsClosed` and `NoDoubleClose`.** `~panicked` alone is not inductive: a step of `CloseWait` or `HandleCloseProducer` closes `Closedc`, which is safe only if it was still open. `ClosedcMirrorsIsClosed` adds `closedc = isClosed` and "every caller in `close_wait` holds `Mu` and saw the producer open". Lemma `MirrorStep` shows it preserved given `TypeOK`.
- **`NoLeakedRegistration` and `AnswersCorrelated`.** Notify hands a frame to whoever owns the key, so the proof must know who owns which key. `AnswerInv` adds `RegistrationsHeldByWaiters`: every slot is held by a caller in the select on that very key. Lemmas `IdleCallerHoldsNothing`, `AnswerInvOneCaller`, `AnswerInvCancel`, `AnswerInvNotify` and `AnswerInvDrain` (connection loss, with or without the drain) give `AnswerStep`.
- **`OutcomesAgreeWithBroker`: with `~BrokerDedup`, `Spec => []OutcomesTruthful`.** The property speaks only of results, but a receipt is produced from frames still on the wire. `TruthInv` carries the claim along the path of an answer:
  - `TruthWire`: every `SEND_RECEIPT` on `toClient` names a persisted id, and a `SUCCESS` or `CLOSE_PRODUCER` on it means the broker has dropped the producer;
  - `TruthInbox`: the same for frames on the receivers, where a `CONN_CLOSED` also means `~bOpen`;
  - `TruthResults`: the property itself;
  - `TruthIds`: every sending caller's id and every SEND id on `toBroker` is below `nextSeq`;
  - `TruthClose`: a reader blocked in `HandleCloseProducer`, and `IsClosed`, each imply `~bOpen`.
  Without deduplication the broker persists every SEND before it acknowledges it, which is why the assumption is needed; `producer_dedup_reorder` shows the property fails otherwise. Lemmas `ElemsFacts`, `TruthFrame`, `TruthWhenDropped`, `TruthWireAppend` (a truthful frame appended to the wire), `IdsBelowNext` and `TruthResultsUpdate` give `TruthStep`; `InitTruthInv` gives the initial case. TLC checked `TypeOK /\ AnswerInv /\ TruthInv` as an invariant on the `producer_safety` constants before the proof was written.
- **`ProducerImplementsCalls`: with `~BrokerDedup`, `Spec => ImplementsCalls`.**
  - Lemma `RInvInvariant` shows `Spec => []RInv`, where `RInv` is the conjunction of the four invariants above.
  - Lemma `RefineStep` shows `RInv /\ [Next]_vars => [Calls!Next]_Calls!avars`, with one step per action. Each step needs one of the invariants:
    - a Send may end with "closed" because `closedc = isClosed`;
    - it may end with a receipt because its receiver holds its own answer (`AnswerInv`) and the answer is true (`TruthInbox`);
    - a Close ends while it is `closer` because it holds `Mu` (`ClosedcMirrorsIsClosed`);
    - `HandleCloseProducer` is `ExternalClose` because a `CLOSE_PRODUCER` means `~bOpen`;
    - a stored id was issued (`TruthIds`).
  - The initial states map to `Calls!Init`, and PTL combines the three.

**The connector** (`Connector_proofs.tla`, under `ConnectorAssumption`, for any set of callers and any `MaxConnects`):
- **`ConnectorTypeCorrect`: `CSpec => []CTypeOK`**, by `CInitTypeOK` and `CTypeOKStep`.
- **`ConnectRejectionNotSilent`: with `~ErrorToGlobal`, `CSpec => []NoSilentRejection`.** Line 113 returns `GetConnected()` without looking at the frame's type, so the property is not inductive alone: a non-CONNECTED frame on a global receiver would become `(nil, nil)` at the next step. The strengthening `RespOnlyConnected` says a global receiver holds nothing or a CONNECTED frame. It is preserved because the router sends only CONNECTED to the global slot when `ErrorToGlobal` is false. TLC checked it on three callers and four CONNECTs before the proof was written. The hypothesis is the routing that the comment at connector.go 65-68 expects; `connector_spec_routing` shows the property fails under spec 4.2's routing.
- **`ConnectSlotsReleased`: `CSpec => []SlotsHeldByWaiters`.** It is inductive with `CTypeOK`: a slot is taken only in `ConnectBegin`, which puts its caller in the select, and a caller leaves the select only through `CancelConnect`, which frees its slots.

**Left to TLC.**
- Liveness (`CallsReturn`, `ReaderResumes`): the prover does not reason about fairness or ENABLED.
- The connector's `AnswersReachTheirAsker` is violated (`connector_retry`), so there is nothing to prove.

## Plan for later work

1. A fault model for the connection that is finer than a single `ConnClose`: a write that fails after part of the frame is sent, and reconnect by the managed supervisor.
2. Spec-level modules, marked spec_modelled, for the consumer's flow control and the managed supervisor's reconnect loop.
3. A refinement of the connector onto a one-step handshake specification.
