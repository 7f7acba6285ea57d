---------------------------- MODULE EventStream ----------------------------
(***************************************************************************)
(* `EventStreamBuilder::build` (web3/event_stream.rs) and the stream it    *)
(* returns: logs subscribed over WebSocket, history fetched over HTTP up   *)
(* to a cutoff block, and the two chained.                                 *)
(*                                                                         *)
(* One builder runs against a WebSocket node and the HTTP nodes behind     *)
(* `HttpRpcProvider`; every node has its own view of the chain, given by   *)
(* the highest block it has imported.  The logs the filter matches are     *)
(* fixed by the setup and numbered in chain order, so a position in the    *)
(* history, in the broadcast channel and in the delivered sequence is one  *)
(* number.  Blocks are final (no reorganisation).                          *)
(*                                                                         *)
(* An `await` is an interleaving point: each RPC is one action that        *)
(* happens when the reply is in.                                           *)
(***************************************************************************)
EXTENDS Integers, Sequences

CONSTANTS
    Backends,       \* the nodes behind the HTTP provider
    Setups,         \* the chains and builder configurations considered
    MaxBlock,       \* bound: the highest block of the chain
    ChannelSize,    \* capacity of the broadcast channel of the log subscription
    ChunkSize,      \* `chunk_size`
    MaxU64,         \* the highest value of a block number, u64::MAX
    Confirmations   \* `confirmations_after_sync_block`

\* A `ChainCursor`, and the place of a log on the chain.
Position == [block : Nat, index : Nat]

\* The derived `Ord` of `ChainCursor`: by block, then by index in the block.
IsBefore(p, q) ==
    \/ p.block < q.block
    \/ p.block = q.block /\ p.index < q.index

IsGenesis(p) == p.block = 0 /\ p.index = 0

SkipBackfill == {"Yes", "No"}

\* logs: what the filter matches; cursor, skip: given to the builder; anvil:
\* the chain id is 31337; seen: how many logs are at or before the cursor.
SetupType == [logs : Seq(Position), cursor : Position, seen : Nat,
              skip : SkipBackfill, anvil : BOOLEAN]

ASSUME ParamAssumption ==
    /\ Backends # {}
    /\ MaxBlock \in Nat
    /\ MaxU64 \in Nat /\ MaxBlock <= MaxU64
    /\ ChannelSize \in Nat \ {0}
    /\ ChunkSize \in Nat \ {0}
    /\ Confirmations \in Nat \ {0}

ASSUME SetupAssumption ==
    /\ Setups \subseteq SetupType
    /\ \A s \in Setups :
        /\ s.seen <= Len(s.logs)
        /\ \A g, h \in 1..Len(s.logs) : g < h => IsBefore(s.logs[g], s.logs[h])
        /\ \A g \in 1..Len(s.logs) : g <= s.seen <=> ~ IsBefore(s.cursor, s.logs[g])

VARIABLES
    setup,      \* the chain and the builder's configuration, never changed
    wsHead,     \* highest block of the WebSocket node
    wsUp,       \* the WebSocket connection is alive
    httpHead,   \* highest block of each HTTP node
    pc,         \* where `build`, and then the stream, stands
    error,      \* the error `build` has met
    sent,       \* the last log put into the subscription's channel
    next,       \* the log the receiver of the channel reads next
    headSub,    \* the WebSocket node serves our newHeads subscription
    headAt,     \* the last header the subscription has handed out
    heads,      \* how many headers have been collected
    cutoff,     \* `backfill_cutoff`: the first of them
    from,       \* first block of the next chunk of the backfill
    batch,      \* logs of the fetched chunk not yielded yet
    last,       \* history: the last log yielded
    alarm       \* history: an error item was yielded after it

chainVars == <<setup, wsHead, wsUp, httpHead>>
channelVars == <<sent, next>>
headVars == <<headSub, headAt, heads, cutoff>>
backfillVars == <<from, batch>>
feedVars == <<last, alarm>>
vars == <<chainVars, pc, error, channelVars, headVars, backfillVars, feedVars>>

Ids == 1..Len(setup.logs)
Block(g) == setup.logs[g].block

\* Log k is the last one in the blocks up to block h.
LastLogUpTo(k, h) == \A g \in Ids : g <= k <=> Block(g) <= h

\* The early returns of `build`: nothing is backfilled.
LiveOnly ==
    \/ IsGenesis(setup.cursor) /\ ~ setup.anvil
    \/ setup.skip = "Yes"

Building == {"chainId", "subLogs", "subHeads", "heads", "unsub", "sync"}
Streaming == {"backfill", "live"}
Subscribed == (Building \ {"chainId", "subLogs"}) \cup Streaming
Errors == {"none", "Transport", "CannotFetchHead", "SyncTimeout"}

TypeOK ==
    /\ setup \in Setups
    /\ wsHead \in 0..MaxBlock
    /\ wsUp \in BOOLEAN
    /\ httpHead \in [Backends -> 0..MaxBlock]
    /\ pc \in Building \cup Streaming \cup {"ended", "failed"}
    /\ error \in Errors
    /\ sent \in 0..Len(setup.logs)
    /\ next \in 1..(sent + 1)
    /\ headSub \in BOOLEAN
    /\ headAt \in 0..wsHead
    /\ heads \in 0..(Confirmations + 1)
    /\ pc \in {"chainId", "subLogs", "subHeads"} => heads = 0
    /\ pc = "heads" => heads <= Confirmations
    /\ cutoff \in 0..MaxBlock
    /\ from \in Nat
    /\ batch \subseteq Ids
    /\ last \in 0..Len(setup.logs)
    /\ alarm \in BOOLEAN

----------------------------------------------------------------------------
(* The nodes and the WebSocket connection.                                 *)

\* The cursor and the configuration the builder is given.
WithConfig == setup \in Setups

\* The builder starts in any state of the two providers.
InitAnyWs ==
    /\ WithConfig
    /\ wsHead \in 0..MaxBlock
    /\ httpHead \in [Backends -> 0..MaxBlock]
    /\ wsUp = TRUE
    /\ pc = "chainId"
    /\ error = "none"
    /\ sent = 0
    /\ next = 1
    /\ headSub = FALSE
    /\ headAt = 0
    /\ heads = 0
    /\ cutoff = 0
    /\ from = 0
    /\ batch = {}
    /\ last = 0
    /\ alarm = FALSE

\* The WebSocket node is not behind the cursor it is asked to resume from.
Init == InitAnyWs /\ setup.cursor.block <= wsHead

WsImport ==
    /\ wsHead < MaxBlock
    /\ wsHead' = wsHead + 1
    /\ UNCHANGED <<setup, wsUp, httpHead, pc, error, channelVars, headVars,
                   backfillVars, feedVars>>

HttpImport(b) ==
    /\ httpHead[b] < MaxBlock
    /\ httpHead' = [httpHead EXCEPT ![b] = @ + 1]
    /\ UNCHANGED <<setup, wsHead, wsUp, pc, error, channelVars, headVars,
                   backfillVars, feedVars>>

\* The connection is gone for good: alloy's reconnect attempts are used up.
WsClose ==
    /\ wsUp
    /\ wsUp' = FALSE
    /\ UNCHANGED <<setup, wsHead, httpHead, pc, error, channelVars, headVars,
                   backfillVars, feedVars>>

\* The node pushes the next log of a block it has imported.  The broadcast
\* channel keeps the last ChannelSize of them, whoever reads.
PushLog ==
    /\ wsUp
    /\ pc \in Subscribed
    /\ sent + 1 \in Ids
    /\ Block(sent + 1) <= wsHead
    /\ sent' = sent + 1
    /\ UNCHANGED <<chainVars, pc, error, next, headVars, backfillVars, feedVars>>

\* Another user of the WebSocket provider cancels newHeads, which cancels
\* every newHeads subscription of that provider.
ForeignUnsubscribe ==
    /\ headSub
    /\ headSub' = FALSE
    /\ UNCHANGED <<chainVars, pc, error, channelVars, headAt, heads, cutoff,
                   backfillVars, feedVars>>

----------------------------------------------------------------------------
(* build                                                                   *)

\* An awaited RPC of `build` fails and `?` returns its error.
TransportFailure ==
    /\ pc \in Building \ {"heads"}
    /\ pc' = "failed"
    /\ error' = "Transport"
    /\ UNCHANGED <<chainVars, channelVars, headVars, backfillVars, feedVars>>

GetChainId ==
    /\ pc = "chainId"
    /\ pc' = "subLogs"
    /\ UNCHANGED <<chainVars, error, channelVars, headVars, backfillVars, feedVars>>

\* `subscribe_logs` from Latest: the channel carries the logs of the blocks
\* imported from now on.  With nothing to backfill the stream is returned.
SubscribeLogs ==
    /\ pc = "subLogs"
    /\ wsUp
    /\ \E k \in 0..Len(setup.logs) :
        /\ LastLogUpTo(k, wsHead)
        /\ sent' = k
        /\ next' = k + 1
        /\ last' = IF LiveOnly THEN k ELSE last
    /\ pc' = IF LiveOnly THEN "live" ELSE "subHeads"
    /\ UNCHANGED <<chainVars, error, headVars, backfillVars, alarm>>

SubscribeHeads ==
    /\ pc = "subHeads"
    /\ wsUp
    /\ headSub' = TRUE
    /\ headAt' = wsHead
    /\ pc' = "heads"
    /\ UNCHANGED <<chainVars, error, channelVars, heads, cutoff, backfillVars, feedVars>>

\* Mutant: one header too many.
LastHeaderOffByOne == heads = Confirmations + 1

\* The header just read is the last one `take(confirmations + 1)` passes on.
LastHeader == heads = Confirmations

\* The next header is collected: `take(confirmations + 1)`, the first one is
\* the cutoff.  A header is read as soon as it is pushed; reading a buffered
\* one later commutes with every other action.
RecvHead ==
    /\ pc = "heads"
    /\ wsUp
    /\ headSub
    /\ headAt < wsHead
    /\ headAt' = headAt + 1
    /\ heads' = heads + 1
    /\ cutoff' = IF heads = 0 THEN headAt + 1 ELSE cutoff
    /\ pc' = IF LastHeader THEN "unsub" ELSE "heads"
    /\ UNCHANGED <<chainVars, error, channelVars, headSub, backfillVars, feedVars>>

\* The header stream ends early; what has been collected decides.
HeadsEnded ==
    /\ pc = "heads"
    /\ ~ headSub \/ ~ wsUp
    /\ pc' = "unsub"
    /\ error' = IF heads = 0 THEN "CannotFetchHead" ELSE "none"
    /\ UNCHANGED <<chainVars, channelVars, headVars, backfillVars, feedVars>>

\* Mutant: the timeout guards the first header only.
HeadTimeoutFirst ==
    /\ pc = "heads"
    /\ heads = 0
    /\ pc' = "unsub"
    /\ error' = "CannotFetchHead"
    /\ UNCHANGED <<chainVars, channelVars, headVars, backfillVars, feedVars>>

\* `new_head_timeout` elapses: the collected headers are thrown away.
HeadTimeout ==
    /\ pc = "heads"
    /\ pc' = "unsub"
    /\ error' = "CannotFetchHead"
    /\ UNCHANGED <<chainVars, channelVars, headVars, backfillVars, feedVars>>

\* Mutant: the result of the header collection is looked at first.
UnsubscribeOnSuccess ==
    /\ pc = "unsub"
    /\ wsUp
    /\ headSub' = (headSub /\ error # "none")
    /\ pc' = IF error = "none" THEN "sync" ELSE "failed"
    /\ UNCHANGED <<chainVars, error, channelVars, headAt, heads, cutoff,
                   backfillVars, feedVars>>

\* `unsubscribe` comes before the result of the header collection is looked
\* at, so it happens on the error paths too.
Unsubscribe ==
    /\ pc = "unsub"
    /\ wsUp
    /\ headSub' = FALSE
    /\ pc' = IF error = "none" THEN "sync" ELSE "failed"
    /\ UNCHANGED <<chainVars, error, channelVars, headAt, heads, cutoff,
                   backfillVars, feedVars>>

\* What `block_until_cutoff` polls for, answered by node b.
ReachedCutoff(b) == httpHead[b] >= cutoff

\* The poll succeeds and the stream is returned, to start at the cursor's block.
HttpSynced(b) ==
    /\ pc = "sync"
    /\ ReachedCutoff(b)
    /\ pc' = "backfill"
    /\ from' = setup.cursor.block
    /\ last' = setup.seen
    /\ UNCHANGED <<chainVars, error, channelVars, headVars, batch, alarm>>

\* `sync_timeout` elapses while the answers are below the cutoff.
SyncTimeout ==
    /\ pc = "sync"
    /\ pc' = "failed"
    /\ error' = "SyncTimeout"
    /\ UNCHANGED <<chainVars, channelVars, headVars, backfillVars, feedVars>>

----------------------------------------------------------------------------
(* The returned stream, polled by its consumer.                            *)

\* Mutant: `wrapping_add`.
SaturatingAddWraps(m, n) == (m + n) % (MaxU64 + 1)

SaturatingAdd(m, n) == IF m + n <= MaxU64 THEN m + n ELSE MaxU64

\* Last block of the chunk that begins at `from`.
ChunkEnd ==
    LET chunkLast == SaturatingAdd(from, ChunkSize - 1)
    IN  IF chunkLast <= cutoff THEN chunkLast ELSE cutoff

\* What `fetch_logs` keeps of node b's answer for the chunk: a node has no
\* logs of blocks it has not imported, and `filter_block_index` drops those
\* at or before the cursor.
ChunkLogs(b) ==
    {g \in Ids : /\ Block(g) \in from..ChunkEnd
                 /\ Block(g) <= httpHead[b]
                 /\ IsBefore(setup.cursor, setup.logs[g])}

Fetching == pc = "backfill" /\ batch = {} /\ from <= cutoff

FetchChunk(b) ==
    /\ Fetching
    /\ batch' = ChunkLogs(b)
    /\ from' = from + ChunkSize
    /\ UNCHANGED <<chainVars, pc, error, channelVars, headVars, feedVars>>

\* The RPC fails, or a log of the chunk misses its block number or index:
\* one error item stands for the chunk and the stream goes on behind it.
FetchFail ==
    /\ Fetching
    /\ alarm' = TRUE
    /\ from' = from + ChunkSize
    /\ UNCHANGED <<chainVars, pc, error, channelVars, headVars, batch, last>>

YieldBackfill ==
    /\ pc = "backfill"
    /\ \E g \in batch :
        /\ \A h \in batch : g <= h
        /\ batch' = batch \ {g}
        /\ last' = g
    /\ alarm' = FALSE
    /\ UNCHANGED <<chainVars, pc, error, channelVars, headVars, from>>

\* `chain`: the backfill is exhausted, the live stream is polled.
BackfillDone ==
    /\ pc = "backfill"
    /\ batch = {}
    /\ from > cutoff
    /\ pc' = "live"
    /\ UNCHANGED <<chainVars, error, channelVars, headVars, backfillVars, feedVars>>

\* More logs are waiting than the channel holds.
Lagged == sent - next + 1 > ChannelSize

Readable == pc = "live" /\ next <= sent /\ ~ Lagged

\* Mutant: the cutoff block itself passes the filter.
BackfilledBelow(g) == ~ LiveOnly /\ Block(g) < cutoff

\* The live filter of a stream that was backfilled up to the cutoff.
Backfilled(g) == ~ LiveOnly /\ Block(g) <= cutoff

RecvLive ==
    /\ Readable
    /\ ~ Backfilled(next)
    /\ next' = next + 1
    /\ last' = next
    /\ alarm' = FALSE
    /\ UNCHANGED <<chainVars, pc, error, sent, headVars, backfillVars>>

RecvBackfilled ==
    /\ Readable
    /\ Backfilled(next)
    /\ next' = next + 1
    /\ UNCHANGED <<chainVars, pc, error, sent, headVars, backfillVars, feedVars>>

\* `BlockNumberMissing`: only the filter of a backfilled stream looks.
RecvMalformed ==
    /\ Readable
    /\ ~ LiveOnly
    /\ next' = next + 1
    /\ alarm' = TRUE
    /\ UNCHANGED <<chainVars, pc, error, sent, headVars, backfillVars, last>>

\* `RecvError::Lagged`: the receiver jumps to the oldest log still held.
RecvLagged ==
    /\ pc = "live"
    /\ Lagged
    /\ next' = sent - ChannelSize + 1
    /\ alarm' = TRUE
    /\ UNCHANGED <<chainVars, pc, error, sent, headVars, backfillVars, last>>

\* Mutant: the stream ends without draining the channel.
RecvClosedEarly ==
    /\ pc = "live"
    /\ ~ wsUp
    /\ pc' = "ended"
    /\ UNCHANGED <<chainVars, error, channelVars, headVars, backfillVars, feedVars>>

\* `RecvError::Closed` once the channel is drained: the stream ends.
RecvClosed ==
    /\ pc = "live"
    /\ ~ wsUp
    /\ next > sent
    /\ pc' = "ended"
    /\ UNCHANGED <<chainVars, error, channelVars, headVars, backfillVars, feedVars>>

\* Nothing is left to do; the state is not a deadlock.
Finished == pc \in {"ended", "failed"} /\ UNCHANGED vars

----------------------------------------------------------------------------
Environment ==
    \/ WsImport
    \/ \E b \in Backends : HttpImport(b)
    \/ WsClose
    \/ PushLog
    \/ ForeignUnsubscribe

\* What `new_head_timeout` and `sync_timeout` end.
TimedStep ==
    \/ RecvHead
    \/ HeadsEnded
    \/ HeadTimeout
    \/ \E b \in Backends : HttpSynced(b)
    \/ SyncTimeout

\* The stream without its RPC, `get_logs`.
LocalStep ==
    \/ YieldBackfill
    \/ BackfillDone
    \/ RecvLive
    \/ RecvBackfilled
    \/ RecvMalformed
    \/ RecvLagged
    \/ RecvClosed

BuildStep ==
    \/ TransportFailure
    \/ GetChainId
    \/ SubscribeLogs
    \/ SubscribeHeads
    \/ Unsubscribe
    \/ TimedStep

StreamStep ==
    \/ \E b \in Backends : FetchChunk(b)
    \/ FetchFail
    \/ LocalStep

Next == Environment \/ BuildStep \/ StreamStep \/ Finished

Spec == Init /\ [][Next]_vars

\* Without the alignment of the WebSocket node and the cursor.
SpecAnyWs == InitAnyWs /\ [][Next]_vars

\* The awaits of `build` that no timeout of the builder ends: an RPC that
\* is not answered holds them for ever, unless the transport has a timeout.
UntimedAwaits == {"chainId", "subLogs", "subHeads", "unsub"}

\* The runtime polls `build`, the builder's timers fire, the consumer polls
\* the stream, and the node pushes the logs it has.  Nothing is assumed of
\* block production, and no RPC need ever be answered.
FairSpec ==
    /\ Spec
    /\ WF_vars(TimedStep)
    /\ WF_vars(LocalStep)
    /\ WF_vars(PushLog)

----------------------------------------------------------------------------
(* Properties                                                              *)

feedStart == IF LiveOnly THEN -1 ELSE setup.seen
feedPhase ==
    CASE pc \in Building -> "opening"
      [] pc \in Streaming -> "open"
      [] OTHER -> "closed"

Feed == INSTANCE LogFeed WITH start <- feedStart, phase <- feedPhase

\* The stream is a LogFeed: it begins right behind the cursor, its logs are
\* in chain order without repetition, also across the switch from backfill
\* to the live channel, and a log is passed over only after an error item.
ImplementsLogFeed == Feed!Spec

\* Once `build` has returned or gone on to synchronizing, no newHeads
\* subscription is left on the node, unless the node or the connection
\* refused the unsubscribe.
NoHeadSubLeak ==
    pc \in {"sync"} \cup Streaming \cup {"ended", "failed"} /\ error # "Transport"
        => ~ headSub

\* `build` returns, or hangs in one of the RPCs it awaits without a timeout.
\* Nothing else holds it: a silent newHeads subscription, an HTTP node that
\* does not answer and one that never catches up run into the timeouts.
BuildResolves == <>(pc \notin Building) \/ \E await \in UntimedAwaits : <>[](pc = await)

\* A log on the WebSocket node's chain that the consumer is still owed is
\* yielded, unless an error item says that logs were missed.  A lost
\* connection excuses only the logs behind the cutoff that never reached the
\* channel: the backfill and what is buffered are still handed out.  Only a
\* `get_logs` that never ends, for which there is no timeout, stops the stream.
LogsFlow ==
    <>[]Fetching \/ \A n \in UNION {1..Len(s.logs) : s \in Setups} :
        pc \in Streaming /\ n \in Ids /\ n > last /\ Block(n) <= wsHead
            ~> n <= last \/ alarm \/ (~ wsUp /\ n > sent /\ Block(n) > cutoff)

----------------------------------------------------------------------------
(* What the documentation says and the code does not do.                   *)

\* "to assure that get_logs will fetch up until the cutoff"
\* (event_stream.rs:515): no log is passed over without an error item.
NoSilentGap == [][last' > last + 1 => pc \notin Streaming \/ alarm]_vars

\* "resumes from the correct block and log index" (event_stream.rs:9-10): no
\* log at or before the cursor, or before the last one yielded, is yielded.
NeverRedelivers == [][last' >= last]_vars
=============================================================================
