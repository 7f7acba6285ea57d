# TLA+ models of taceo-nodes-common

This directory holds TLA+ specifications of `nodes-common`, the crate that the
MPC nodes share: a blockchain event stream, a transaction sender, the RPC
transport below them, the receipt polling and ERC-165 checks on top of it, start-up and
shutdown, the Postgres pool, the Unkey middleware and the container the tests
share.  TLC checks every specification on small instances; TLAPS proves their
invariants, the refinements and the conditions under which the documentation's
stronger promises hold, for every value of the constants.  The code is
the reference: each definition models the lines that `PROJECT.json` ("map")
names for it.

Paths like `event_stream.rs:471` are relative to `nodes-common/src/web3/` or
`nodes-common/src/`.

## 1. The system

A node starts its services, each of which takes a flag of `StartedServices` and
a clone of one `CancellationToken`.  Its chain watcher consumes the stream that
`EventStreamBuilder::build` returns; that stream reads logs from one WebSocket
connection and history from `HttpRpcProvider`.  Its writers submit
transactions to a `TxSender`, whose task broadcasts them through the same
`HttpRpcProvider`.  Whoever holds the pending transaction can wait for its
receipt, and check with the ERC-165 calls that a contract is what it should be.
The HTTP provider fans each request out to all configured endpoints, with a
retry loop for each, so two requests in a row may be answered by nodes that
have not imported the same blocks.  Requests to the node's own HTTP API go
through `UnkeyService`.  State that must survive is kept in Postgres.

| Component | State | Operations | What makes it hard | Modelled in |
|---|---|---|---|---|
| Event stream (`event_stream.rs`) | cursor, broadcast channel of the log subscription, newHeads subscription, cutoff, chunk range, buffered chunk | `build` (chain id, subscribe logs, subscribe heads, collect headers, unsubscribe, wait for HTTP), the chunked backfill, the switch to live logs, error items, end of the stream | two sources that must meet in one block without loss or repetition; channel lag during the backfill; timeouts and failures at each await; nodes at different heights | `LogFeed`, `EventStream` |
| Transaction sender (`tx_sender.rs`) | mpsc queue, oneshot per job, task, cancellation token | `submit`, receive, broadcast with a timeout, reply, stop on cancel or when all handles are gone, abort, drop of a `submit` future | late arrival of a timed out broadcast; cancellation with full queues; back pressure; nonces | `TxSender` |
| HTTP RPC transport (`web3.rs`) | retry loop of each endpoint, requests in flight | send a request, classify the error, back off, give up, first success wins | parallel endpoints that fail, hang or answer with an error at different speeds | `RpcTransport` |
| Start-up, health, shutdown (`lib.rs`, `api.rs`) | list of flags behind a mutex, flags, token, `is_graceful` | `new_service`, raise a flag, `/health`, `spawn_shutdown_task`, drop guards | flags raised while they are read; who cancelled the token and what main is told | `Lifecycle` |
| Postgres pool (`postgres.rs`) | the schema in the database, attempts so far | `maybe_create_schema`, pool creation with retries | several nodes start at once; database not up yet; counting attempts | `PostgresPool` |
| Unkey middleware (`middleware/unkey.rs`) | the ready inner service and its clone, futures in progress | `poll_ready`, `call`, verify, reject, forward, drop | readiness belongs to one instance of the inner service; futures end in every way | `UnkeyService` |
| Receipt polling (`web3.rs`, `GetReceiptExt`) | polls so far, delays left | first try, first poll, a poll per delay, the last error | the node that answers lags behind the one that saw the confirmation; null answers, transport errors and delays in any order | `ChainViews`, `Receipt` |
| ERC-165 checks (`erc165.rs`) | none | the identifier of an interface, the batched probes, the decision, the errors | nodes that lag, contracts that are upgraded, revert or have a fallback; agreement with the EIP's procedure | `Erc165`, `ContractCheck` |
| Signers (`signers/`) | none here | construct a local, AWS or GCP signer | - | not modelled |
| Test utilities (`test_utils.rs`) | a `Weak` container behind a mutex | start or share a container, drop a handle | last drop racing an upgrade; a start that fails or is dropped half way | `SharedPostgres` |

What makes each of them correct:

- *Event stream*: from the cursor on, every log is yielded once and in chain
  order, across the switch from history to live logs; a log may be missed only
  after an error item; `build` leaves no newHeads subscription behind and returns,
  unless an RPC that it awaits without a timeout is never answered; the consumer
  gets what it is owed or is told that it does not.
- *Transaction sender*: transactions land in queue order and once each; a
  reply never lies about what happened; no permit of the queue leaks; every
  `submit` returns; a cancellation stops the task.
- *RPC transport*: an error is reported only when every endpoint has given up
  for a reason; only a result ends the race; one healthy endpoint is enough; with
  a client that times out every request ends.
- *Lifecycle*: health answers agree with the flags; `is_graceful` is true
  when nothing but the signal caused the shutdown and false when no signal came
  (when a failure and the signal meet it may be either); every way of dying
  brings everything down.
- *Postgres pool*: whoever has a pool has its schema; every creation of a pool
  ends, with a pool or an error; with restarts all nodes come up.
- *Unkey*: the inner service is called only when ready and for a key that is
  good where the service runs; its places are conserved; every request is
  resolved.
- *Receipt polling*: a receipt has the confirmations asked for, whichever try
  found it; nodes that lag do not fail the call while the delays cover the lag.
- *ERC-165*: `Ok` is said of one block of the chain, by the EIP's procedure; a
  contract that conforms is not refused as long as one node answers; a contract
  that has just been confirmed is not taken for a missing one.
- *Shared container*: tests whose handles overlap share one container;
  everyone who asks is served, behind starts that fail or are dropped too.

The places in the code where these can go wrong, with the properties that
watch them, are listed in `PROJECT.json` under "hazards".

## 2. Plan

Order of work, most important behaviour first.  Items marked done are in this
directory.

1. `LogFeed` (abstract specification: what a consumer may rely on) and
   `EventStream` (detailed), with the refinement checked by TLC and proved. Done.
2. `TxSender` with type correctness, order and reply proofs. Done.
3. `RpcTransport` with proofs. Done.
4. `Lifecycle` with proofs. Done.
5. `UnkeyService` and `PostgresPool` with proofs. Done.
6. The request timeout and the error classification of the retry policy in
   `RpcTransport`; the environments and the fixed keys in `UnkeyService`. Done.
7. `ChainViews` (nodes that lag), `Receipt` and `Erc165`, composed in
   `ContractCheck`: wait for the receipt of a deployment, then check the
   contract, on nodes with different views. Done.
8. `SharedPostgres`: the container behind `Mutex<Weak<_>>`. Done.
9. The end of the block range at the `u64` boundary in `EventStream`. Done.
10. `Race`, the promise of the transport stack, implemented by `RpcTransport` and
    by `ContractCheck`; the identifier of an interface for any list of selectors;
    for each promise an expected violation refutes, the condition under which it
    holds, as a theorem. Done, but for `tx_sender_cancel` (section 5).
11. Variants: for each liveness property the quantity that its steps use up, as an
    action property that is proved.

Considered and dropped: a consumer that persists its cursor, crashes and resumes
(the consumer is not part of this repository; what a restart from a given
cursor yields is `ImplementsLogFeed`, which holds of every cursor), a
WebSocket provider that reconnects (inside alloy, with no handler here), and
the composition of `TxSender` with `RpcTransport` (its effect, a broadcast that
is executed at several endpoints or late, is already `SendRaw`, `Land` and
`Lose`, since a node accepts a transaction once).

Modules are written to be proved about: no `RECURSIVE` operator, one action
per operation, constants with named assumptions.

## 3. Modules and the code

### LogFeed and EventStream

`LogFeed` is the promise: logs are numbered in chain order, `Open` starts right
behind the position the consumer asked for (or anywhere when it asked for live
logs only), `Deliver` yields the next log, or a later one after `Signal` (an
error item), `Close` ends the stream.

`EventStream` follows `build` await by await.  `pc` is the await it is in;
`GetChainId`, `SubscribeLogs`, `SubscribeHeads`, `RecvHead` / `HeadsEnded` /
`HeadTimeout`, `Unsubscribe`, `HttpSynced` / `SyncTimeout` are the steps, and
`TransportFailure` is the `?` behind each of them.  `SubscribeLogs` returns the
stream at once for a genesis cursor (but on Anvil) or `skip_backfill`.
The builder's own timeouts cover the headers and the wait for HTTP and nothing
else; `UntimedAwaits` are the awaits that an RPC without an answer holds for ever
(`:449`, `:450-459`, `:489`, `:510`).  The stream itself is
`FetchChunk`, `FetchFail`, `YieldBackfill`, `BackfillDone` (the `chain`), and
`RecvLive`, `RecvBackfilled` (the filter), `RecvMalformed`, `RecvLagged`,
`RecvClosed`.  The environment imports blocks at the WebSocket node and at each
HTTP node separately, pushes logs, closes the connection, and lets another user
of the WebSocket provider cancel newHeads.

Abstractions.  A log is its number; the chain of a setup is the sequence of
the positions of its logs.  The broadcast channel is the pair of the last log sent
and the next one to be read, because tokio's channel keeps the last N values
for every receiver; tokio rounds the capacity up to a power of two, and
`ChannelSize` is the rounded value.  Of the header channel only the next header
is kept: reading it later commutes with everything else.  Blocks are final.
`SaturatingAdd` is the `u64` addition of the chunk's end: `MaxU64` stands for
`u64::MAX`, and the chain may reach it.

### TxSender

Callers go through `waiting` (asked for a permit) -> `granted` -> `queued` ->
`broadcast` -> `over`; this is what `mpsc::Sender::send` does inside, and it
matters because a dropped `submit` future gives back a permit it has not used.
`turn` numbers the pushes, `taken` counts the receives.  The task's select is
`TakeJob`, `StopOnCancel`, `StopOnClosed`, with no bias, as in the code; a
broadcast is `FillNonce`, `SendRaw` and one of `ReplyOk`, `ReplyError`,
`ReplyTimeout`; `Abort` ends the task anywhere.  A request on the wire lives on
when its sender gives up: `Land` and `Lose` happen at any later time.  The nonce
is the node's pending count, asked for per transaction, which is how
`HttpRpcProviderBuilder` configures the provider.

Abstractions.  A sender that pushes while the receiver is dropped is
linearized on one side of the drop.  No other user sends from the account.
`FillNonce` reads the count of the node that orders the account's transactions;
an endpoint whose count is behind that one's is not modelled.

### Race and RpcTransport

`Race` is the promise of the stack: every endpoint is asked at once (`AskAgain`
repeats it), the first that succeeds decides (`Win`), an error needs all of them
(`Drop`), and nothing is sent or given up after the decision.  `RpcTransport`
implements it, and so does the request of `ContractCheck`, which has one step per
endpoint instead of a retry loop: the shortcut of that module rests on the same
promise as the code it stands for.

`RpcTransport` is one request; each endpoint runs its retry loop (`BackOff`, `Retry`, `GiveUp`)
and the first success (`Succeed`) drops the others.  An answer is a result or one
of the errors that `http_retry_policy` tells apart; `ShouldRetry` is that
policy, `IsError` is `call_and_parse_error`, which makes an error of a response
that carries a JSON-RPC error.  `TimeOut` is the timeout of the reqwest client:
the builder takes the client it is given or makes one without a timeout
(`AnyClient`), so both are initial states.  `wire` and `runs` keep the tries that
are under way and executed, apart from the try being waited for: a try whose
answer was lost may have been executed.  Delays are not timed.

### ChainViews, Receipt, Erc165 and ContractCheck

`ChainViews` is the chain as several nodes show it: a head, and a view per node
at most `MaxLag` blocks behind it.

`Receipt` is `get_receipt_with_retry`.  A try is alloy's `get_receipt`: `Confirm`
waits for a node that shows the transaction with the confirmations required,
`Fetch` and `FetchNull` are the call that follows, answered by any node; `Break`
is a transport error or the watcher's own timeout.  `TryFails` is what the code
does next: after the first try the first poll follows at once, after a poll
comes a delay of the backoff (`Wake` ends it), and with no delay left the error
is returned.  A delay is taken to be long enough for a node that is behind to
import a block; `due` are the nodes that have yet to do so.

`Erc165` holds the pure part: identifiers as sets of bits, with the fold of
`erc165_interface_selector`, the queries of the three checks, what a batch makes
of the answers of its calls (`Response`), the error conversions
(`unwrap_erc165_call`, `FromMulticallError`) and the decision (`Judge`); and,
apart from them, what EIP-165 says (`InterfaceId`, `ImplementsErc165`,
`Implements`), which the properties compare with.

`ContractCheck` composes them: `Deploy` mines the contract, `Extend` adds
blocks and may upgrade it behind its proxy, the receipt is polled, and then one
of the three checks runs (`StartCheck`, `Decide`, `Fail`).  A check is one
request of the transport stack: the first node that does not fail decides, at
its own view; when all fail the last error is returned.  The retries of
`RpcTransport` are not repeated here; `Race` is what both keep.  A node that fails
does so with the transport or with an error response (`Errors`), for any reason:
a revert of the contract, a limit on requests, an internal error.  The response of a
node that is no valid JSON-RPC at all counts as the latter.

`Unsupported` is documented as "the contract is not ERC-165 conformant"
(`erc165.rs:164-166`), but the conversions make it of every error that is not
`Transport` (`:110`, `:139-141`).  So when every node fails, and one of them with
an error response, a contract that conforms may be refused.  `RefusalHasReason` says
that this is the only way to a false refusal; a single node that answers rules it
out, and so does an outage in which nothing but the transport fails.

`NotAContract` is documented as "the address has no deployed code"
(`erc165.rs:163`).  The batched checks return it as well when the answer of a
contract does not decode, and on a chain without Multicall3; the unchecked
variant calls a contract whose answer does not decode `Unsupported`.  That is
why `DeployedIsFound` asks for a contract that answers and, except for the
unchecked variant, for Multicall3.

### Lifecycle

`Health` takes the mutex, `LoadRaised` / `LoadLowered` / `AllRaised` read the
flags one by one while services raise them without the lock.  The shutdown task
is `TakeSignal` then `CancelToken` (the store comes before the cancel), or
`TakeCancelled`, or `Panic`.  `Fail` is a service task that ends and whose drop
guard cancels the token.  `ReadVerdict` is main, which waits for the token and
then reads `is_graceful`.  The loads and stores are `Relaxed` in the code; the
model is sequentially consistent, which is justified for `is_graceful` by the
lock inside the token (a reader that has seen the cancellation has synchronized
with the thread that made it), and harmless for the flags, which are only raised.

### PostgresPool

Each node runs `SchemaLookup` / `SchemaInsert` / `SchemaDuplicate` /
`SchemaError` when it is told to create the schema, then `Connect`, `BackOff`,
`Retry`, `GiveUp`, `Refuse`.  The database comes and goes (`UpDown`); a failed
node is started again (`Restart`).  `CREATE SCHEMA IF NOT EXISTS` is two steps,
because Postgres checks first and inserts later, and two sessions that pass the
check together fail in one of them.  sqlx's own connect loop is one step; an
attempt ends, with `acquire_timeout` at the latest.

### UnkeyService

`PollReady` reserves a place of the inner service, `Call` moves the ready inner
service into the future and leaves a clone without a place.  `Verdict` is what
becomes of a token: in `Dev` the fixed keys are compared and Unkey is not asked,
elsewhere Unkey knows its customers' keys, and none of the fixed ones
(`CustomersAssumption`).  `InnerCall` and `Reject` follow the verdict;
`VerifyError` and `VerifyTimeout` end a verification without one, the second
only with a client that has a timeout: `new` makes one that has, `with_client`
takes any.  `Drop` is a client that goes away.

### SharedPostgres

A test asks (`Ask`), takes the lock (`Lock`), and either upgrades the weak
reference (`Upgrade`) or starts a container with the lock held (`Start`, then
`Booted` or `BootFails`).  `Quit` drops a test at one of its awaits, and with it
the lock guard and a container half started; `Drop` gives back a handle, at any
time and without the lock, so that it races with the upgrade of another test.
Containers are numbered to tell one from the next.  A container is in use as long
as a handle of it is alive; Docker removes it some time after the last drop, which
no later test waits for and the model leaves out.

## 4. Runs

Each component has one run that checks its safety and its liveness together,
under its `FairSpec`.  Runs are named in `PROJECT.json`; `MCEventStream` holds the
chains and configurations of the event stream and `MCContractCheck` the contracts
and interfaces; the other configurations need only model values and numbers.

| Run | Instance | Safety | Liveness | Shows |
|---|---|---|---|---|
| `event_stream` | one HTTP node, 6 blocks (block 6 is `u64::MAX`), 5 logs, 4 setups, channel 2, chunk 3, 2 confirmations | `TypeOK`, `NoHeadSubLeak`, `ImplementsLogFeed` | `BuildResolves`, `LogsFlow` | the stream implements `LogFeed` in every interleaving; `build` leaves no subscription behind and hangs in nothing but an RPC without a timeout; owed logs are yielded or announced as missed, unless a `get_logs` hangs |
| `tx_sender` | 3 callers, queue of 2 | `TypeOK`, `LandedInOrder`, `ReplyTruthful`, `PermitsConserved` | `SubmitsResolve`, `CancelStops`; `QueueDrained` (a step property) | order, truth and back pressure with timeouts, late arrivals, cancellation, abort; nobody waits forever although the node may never answer; a task nobody cancels drains its queue |
| `rpc_transport` | 2 endpoints, each healthy or not, 2 retries, a client with or without a timeout | `TypeOK`, `ErrorIsUnanimous`, `OnlyResultsWin`, `ImplementsRace` | `HealthyEndpointWins`, `RequestResolves` | what an error and a success mean; the loops implement `Race`; one endpoint that recovers within its retries is enough; with a client timeout a request ends although every endpoint hangs |
| `lifecycle` | 3 services | `TypeOK`, `VerdictTruthful`, `HealthAnswersTrue` | `ShutdownReachesAll` | health answers agree with the flags; what main can rely on in `is_graceful`; every cause brings down every service |
| `unkey_service` | 3 requests, 2 places, every environment, a client with or without a timeout | `TypeOK`, `PlacesConserved`, `CalledReadyAndVerified` | `RequestsResolve` | no place leaks, the inner service is protected, with a timeout hanging verifications do not starve the others |
| `postgres_pool` | 3 nodes, 2 retries | `TypeOK`, `SchemaInPlace` | `PoolCreationEnds`, `NodesStart` | the creation race and the retries; a creation ends whatever the database does; with restarts every node comes up |
| `contract_check` | 2 nodes, 3 blocks, lag 2, up to 3 confirmations, 2 delays, 4 contracts, 1 interface | `TypeOK`, `ReceiptIsConfirmed`, `LagIsCovered`, `OkIsOneBlock`, `RefusalHasReason`, `DeployedIsFound` | `CallsReturn` | what a receipt, its absence and each answer of a check say about the chain, whichever nodes answer; both calls return |
| `shared_postgres` | 4 tests | `TypeOK`, `OneContainer` | `TestsServed` | the last drop, the upgrade, failed and dropped starts in every order |

Each property has a mutant of a mapped definition (`PROJECT.json`, "mutants")
under which TLC finds it violated; the mutated operators stand next to the
originals, marked "Mutant".

Runs that are expected to find a violation: each checks one sentence of
the documentation that the code does not keep.

| Run | Sentence | What TLC shows |
|---|---|---|
| `event_stream_failover` | "to assure that get_logs will fetch up until the cutoff" (`event_stream.rs:515`) | with two HTTP nodes the poll may be answered by one and `get_logs` by another that is behind: logs are lost without an error item |
| `event_stream_ahead` | "resumes from the correct block and log index" (`event_stream.rs:9-10`) | a WebSocket node behind the cursor gives a cutoff before the cursor, and logs at or before the cursor are yielded again |
| `tx_sender_cancel` | queued requests are dropped on cancellation (`tx_sender.rs:89-92`) | the select may still take one, since its branches are picked at random |
| `tx_sender_nonce` | "nonce assignment for a shared account never races" (`tx_sender.rs:3-4`) | after a send timeout the next job may get the nonce of the request still on the wire |

Four more sentences that differ from the code have no run of their own: a constant
or a condition read next to them shows the difference.

- A genesis cursor is said to mean no backfill (`event_stream.rs:20-22`); on chain
  id 31337 it is backfilled (`:471`).
- At most `max_retries` attempts to create the pool are announced
  (`postgres.rs:43-44`, `:170`, `:274`); the value goes to `with_max_times` (`:301`),
  which counts the delays, so one attempt more is made.  The models follow the
  code: the bound in `PostgresPool!TypeOK` is `MaxRetries + 1`.
- `Unsupported` is said to mean a contract that does not conform
  (`erc165.rs:164-166`); see `ContractCheck` in section 3.
- `NotAContract` is said to mean an address without code (`erc165.rs:163`); see
  there, too.

The mutual consistency of the positive and negative results is worth a note.
`LandedInOrder` holds although nonces race, because the node's count orders
what it accepts: a late transaction takes the place of the one behind it or is
refused, and never overtakes.  `ImplementsLogFeed` holds with one HTTP node and
a WebSocket node that is not behind the cursor; the failover and ahead runs
show that both conditions matter, and the theorems of section 5 how much of
them is needed.

### Bounds

- *EventStream*: `MaxBlock` 6 leaves room for a cursor, the first header behind
  it, two confirmations and a chunk boundary inside the backfill; chunks of three
  blocks give a full chunk, a short last one, and one whose end is cut off by
  `MaxU64`; the logs include two in one block, with the cursor between them, and
  a block without any; a channel of 2 lags in every phase.  `Setups` are the
  four kinds of start: resume, genesis on Anvil, genesis elsewhere, skipped
  backfill.  More HTTP nodes than one are in the failover run; the theorems hold
  for any number of them.
- *TxSender*: three callers on two places give one that waits; two late
  broadcasts and a third in progress can coexist.  Each job is submitted once.
- *RpcTransport*: two retries separate the first, a middle and the last try.
- *Lifecycle*: three services separate a flag already read, one being read
  and one that registers meanwhile.
- *PostgresPool*: three nodes give a winner and two losers of the race.
- *UnkeyService*: one request more than places; the keys are one of each kind
  the code or Unkey tells apart.
- *ContractCheck*: one interface of two functions whose selectors share a
  bit.  With a lag of two and one to three confirmations the lag left after the
  confirmation is two, one or none; two delays cover it, and a transport failure
  that uses one up leaves too few.  Three blocks leave room
  for a block before the deployment, the deployment and one upgrade.  The
  contracts conform, lie, revert for what they do not know, or answer with
  something else.  Identifiers have two bits, enough for ERC-165's own, another
  and the invalid one; the fold is compared with the EIP's definition on all
  sequences of up to four selectors.
- *SharedPostgres*: four tests are one that holds the last handle, one that
  looks at the reference, and two that wait; each asks once.

Symmetry is not used: every passing run checks liveness too.  Deadlock is
checked everywhere; states in which the system has finished are kept alive by a
`Finished` step.

### Fairness

Fairness is assumed of what the runtime does and of nothing else, except where
named here.

- *EventStream*: weak fairness of the builder's own timers (`TimedStep`), of what
  `build` and the stream do without a node (`LocalStep`), and of the node's
  pushes.  No RPC need be answered, not even with an error: `BuildResolves` and
  `LogsFlow` name the awaits that may then last for ever.  Blocks need not be
  produced, and HTTP nodes need not catch up.
- *TxSender*: the semaphore grants, granted senders and the task are polled, the
  send timeout fires.  The node need not answer.  The random choice of the select
  needs no fairness because each job is submitted once: the branch of the jobs
  cannot win forever.
- *RpcTransport*: timers fire, those of the client where it has them; an endpoint
  in `healthy` (any set, chosen in `Init`) executes and answers its last try at
  the latest.  The others may hang for ever: the stack has no timeout of its own.
- *Lifecycle*: the shutdown task, main and cancelled services are polled.
- *PostgresPool*: nodes run and the supervisor restarts them; `acquire_timeout`
  ends every attempt of the pool.  The connection on which the schema is created has
  no timeout; that it ends is an assumption, on which `NodesStart` rests and
  `PoolCreationEnds` does not.  Strong fairness of `Connect` says that a database
  that can be reached does not refuse a persistent node for ever.
- *UnkeyService*: futures are polled, the timer of the client fires where it
  has one, the inner service answers.  Unkey need not answer.
- *ContractCheck*: the chain grows up to its bound, nodes import what they lack
  and answer, or fail, and the caller is polled.  That a call to a node ends is
  `RequestResolves` of `RpcTransport`.
- *SharedPostgres*: the runtimes poll the tests, the lock goes to somebody who
  waits for it, and a start ends one way or the other.  Tests need not end.

## 5. Proofs

| Theorem | Statement | Argument |
|---|---|---|
| `EventStreamProofs!TypeCorrect` | `Spec => []TypeOK` | `TypeOK` is inductive |
| `EventStreamProofs!HeadSubReleased` | `Spec => []NoHeadSubLeak` | `HeadSubInv`: a subscription exists only between its start and the unsubscribe, or when the unsubscribe failed |
| `EventStreamProofs!YieldsEachLogOnce`, `StreamMovesForward` | no log twice, none out of order, none at or before the cursor; any number of HTTP nodes | `OrderInv` |
| `EventStreamProofs!SyncedStreamIsLogFeed`, `NoGapWhenSynced` | `Spec /\ FetchesSynced` implies `ImplementsLogFeed` and `NoSilentGap` | `OrderInv` and `CompleteInv`, then a step for each action |
| `EventStreamProofs!StreamIsLogFeed` | `OneNode` implies `Spec => ImplementsLogFeed` | one node cannot disagree with itself (`OneNodeIsSynced`) |
| `TxSenderProofs!TypeCorrect`, `LandsInOrder`, `RepliesAreTrue`, `PermitsAreConserved`, `DrainsTheQueue` | the invariants of `tx_sender` and `QueueDrained` | `QueueInv`, `NonceInv`, `ReplyInv`; `PermitInv` on top of them |
| `TxSenderProofs!OutcomesAreFinal` | an accepted transaction keeps its place, a caller is answered once | `NonceInv` |
| `TxSenderProofs!NoRaceUnlessGivenUp` | `NoncesDoNotRace` while no broadcast is given up with its transaction on the wire | `WireInv` |
| `RpcTransportProofs!TypeCorrect`, `ErrorNeedsEveryEndpoint`, `SuccessIsAResult` | the invariants of `rpc_transport` | `LoopInv`, `OutcomeInv` |
| `RpcTransportProofs!LoopsAreARace`, `ContractCheckProofs!CheckIsARace` | the retry loops, and the composed check, implement `Race` | a step of the race for each action, or a stutter |
| `RpcTransportProofs!HealthyEndpointNeverFails` | a healthy endpoint: no error | `HealthyInv` |
| `LifecycleProofs!TypeCorrect`, `VerdictIsTrue`, `HealthIsTrue` | `TypeOK`, `VerdictTruthful`, `HealthAnswersTrue` | `TypeOK`, `VerdictInv`, `ScanInv` |
| `LifecycleProofs!FailureIsReported` | a shutdown that something failing has caused is not read as graceful, unless a signal arrives before main reads | `FailureInv` |
| `LifecycleProofs!HealthyIsFinal` | "healthy" is not taken back unless a service registers later | `ScanInv`, `ReadyInv` |
| `UnkeyServiceProofs!TypeCorrect`, `NoPlaceLeaks`, `InnerIsProtected` | the invariants of `unkey_service` | `PlaceInv`, `VerifiedInv` |
| `PostgresPoolProofs!TypeCorrect`, `OpenPoolHasSchema` | the invariants of `postgres_pool` | `AttemptsInv` |
| `ContractCheckProofs!TypeCorrect`, `FoundIsConfirmed`, `DelaysCoverLag`, `OkSound`, `RefusalSound`, `ConfirmedIsFound` | the invariants of `contract_check` | `ConfirmedInv`, `LoopInv`, `LagInv` |
| `ContractCheckProofs!SelectorIsInterfaceId`, `SelectorOrderDoesNotMatter` | the fold computes the EIP's identifier, in any order | a smallest set of selectors on which two solutions of the fold differ cannot be |
| `SharedPostgresProofs!TypeCorrect`, `TestsShareOne` | the invariants of `shared_postgres` | `LockInv` |

They hold for every value of the constants that satisfies the named
assumptions: chains and cursors of any size, any channel and chunk size, any
number of callers, endpoints, services, nodes and tests, any lag and any interface.

*EventStream.*  That the switch loses and repeats nothing is not inductive.  The
strengthening follows the code's own reasoning, in two parts that need different
things of the nodes.

`OrderInv` is about order, and asks nothing of the HTTP nodes.  `BuildInv`: the
cutoff is a header pushed after the log subscription existed, so every log the
channel no longer offers lies in blocks up to the cutoff (`CoveredUpTo`).
`BackfillOrder`: the logs of a batch are sorted, behind the last one yielded and
within the fetched blocks, and nothing beyond the cutoff has been yielded.
`LiveOrder`: what the receiver will pass through the filter is behind the last
log yielded.  A node that has not imported a chunk answers with fewer logs,
never with others, so this holds for any number of nodes.

`CompleteInv` is about gaps: while no error item is pending, the logs owed up to
the last fetched chunk are exactly those in the batch, and later exactly those
the receiver will still deliver.  This is where the nodes matter.
`FetchesSynced` is what it needs, no more: each chunk is answered by a node that
has imported it.  The code waits for one node to be synchronized and then asks
any of them; with one node that is the same thing (`OneNodeIsSynced`).  That the
end of a chunk is exact although the addition saturates (`ChunkEndExact`) needs
the chain to stay within `MaxU64`.

So each of the two runs that expect a violation has its counterpart:
`StreamMovesForward` is `NeverRedelivers` with the condition on the WebSocket
node that `event_stream_ahead` drops, and `NoGapWhenSynced` is `NoSilentGap` with
the condition on the HTTP nodes that `event_stream_failover` drops.

*TxSender.*  `NonceInv` is the heart: nonces are filled in queue order and never
ahead of the node's count, hence are non-decreasing in queue order, and the node
accepts each value once.  A late transaction therefore never overtakes.
`DrainsTheQueue` follows from `QueueInv`: when the queue is empty every job that
was ever pushed is behind its broadcast.  `LandedInOrder` compares places in one
state; that a place is never given anew is `OutcomesAreFinal`: an accepted nonce is
below the node's count for good.  `NoRaceUnlessGivenUp` is the counterpart of
`tx_sender_nonce`: as long as every broadcast that times out, fails or is aborted
has lost its transaction before, the wire carries the job being sent and
nothing else (`WireInv`), so two transactions share a nonce only after one was
given up on its way.  For `CancelDropsQueue` no such condition is in the hands of
a caller: the select is unbiased, so any job that is queued when the token is
cancelled may still be taken.

*RpcTransport.*  A loop fails only for a reason (`LoopInv`), and no loop moves
once the caller has its answer (`OutcomeInv`).  The mapping to `Race` keeps the
tries, the set of failed loops and the kind of the answer; `Succeed`, `GiveUp` and
`Retry` are its steps, the network and the backoff are stutters.
`HealthyEndpointNeverFails` is the half of `HealthyEndpointWins` that needs no
fairness.

*Lifecycle.*  `graceful` is stored before the token is cancelled by the
signal's branch, and any other cancellation has a culprit (`VerdictInv`).  That
leaves the case in which a service fails and the signal comes before the shutdown
task is polled: the select may take the signal's branch, and main reads
`graceful`.  `FailureIsReported` says that this is the only way for a failure to be
hidden: its hypothesis is that no signal is there between the failure and main's
read, and under it `FailureInv` is inductive.  While the lock is held the registry
stands still and flags only rise (`ScanInv`).  `HealthyIsFinal` has the absence of
later registrations as its hypothesis: `new_service` may be called at any time, and
turns the answer back.

*UnkeyService.*  The futures that are not over are exactly those that hold a
place, and places add up (`PlaceInv`); the set of requests may be infinite, the
futures in progress are finitely many.  What opens the inner service in which
environment is the lemma `VerdictSound`.

*PostgresPool.*  Attempts are zero until the schema is there, and a retry is left
as long as a node sleeps (`AttemptsInv`).  `SchemaInPlace` is inductive because
nobody drops the schema.

*ContractCheck.*  A null answer is given only after some node has shown the
confirmations (`ConfirmedInv`), so from then on no node is further behind the
transaction than `MaxLag + 1 - confirmations` blocks.  `LagInv` counts: each
delay since brings every node that is still behind a block closer.
`LagIsCovered` then compares that count with the delays left (`LoopInv`).  For the
checks, all queries of a request are answered at one view, and a view is a
block of the chain that exists; without such an answer every node has failed, and
the error of the last one is returned, which is all that `RefusalSound` can
promise and does.  When the receipt has been found with more
confirmations than the lag every view has the contract.

`SelectorIsInterfaceId` is about the fold over the selectors.  The provers cannot do
induction on a formula, so the proof takes the other way round.  The fold is a
function of the sets of places that satisfies an equation (`FoldIs`); so is the set
of bits that an odd number of selectors has (`OddBitsStep`); and two functions
that satisfy the equation are equal, because among the sets on which they differ
there would be a smallest, which the equation rules out (`FoldUnique`, from the
well-foundedness of strict inclusion on finite sets).  `InterfacesAssumption` only
says that an interface is a list of identifiers.  `SelectorOrderDoesNotMatter` is
the test at `erc165.rs:302-306` for every list.

*SharedPostgres.*  The lock is held from the look at the reference until the
container is up, every handle is one of the container the reference is to, and
there is none while a container starts (`LockInv`).

Only model-checked: all liveness properties (fairness and `ENABLED` are out of
the prover's reach), and the counterexamples of the expected violations, which
are TLC's.  The hypotheses of the conditional theorems (`FetchesSynced`,
broadcasts that are not given up, no signal between a failure and main's read, no
late registration) are conditions on
behaviours: with the step they exclude left out of the next-state relation the
specifications keep all their other behaviours, so they are met, and the
expected violations show for the first two that they are needed.

## 6. Not modelled

- Signers: constructors over key services, straight-line code without state of
  their own.
- A `build` future that its caller drops before it is done: what the subscriptions
  made by then become is up to alloy.
- A consumer that crashes and restarts: who persists the cursor is not in this
  repository.
- Reconnection of the WebSocket transport: it happens inside alloy and leaves no
  trace in the code; the model has the connection that is lost for good.
- Reorganisations: the code does not look at `removed`; blocks are final.
- The ranking of endpoints inside alloy's fallback service: every transport is
  active, so it decides nothing but the order in which the requests are sent.
- Time: delays and timeouts are steps without a duration.  The only
  quantitative statement is that of `Receipt`, a block per delay.
- The parsers of `SanitizedSchema` and `Environment`, the Arkworks
  (de)serialization, configuration defaults, `/version` and the headers of the
  router, formatting, logging: pure, and no property is about them.
- Of the test utilities, everything but the shared container.
