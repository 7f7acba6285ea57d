------------------------- MODULE EventStreamProofs -------------------------
(***************************************************************************)
(* Proofs about EventStream for every chain, configuration and bound:      *)
(* type correctness, the newHeads clean-up, the order of the stream for    *)
(* any number of HTTP nodes, and that the stream is a LogFeed when every   *)
(* chunk is answered by a node that has imported it.                       *)
(***************************************************************************)
EXTENDS EventStream, TLAPS

\* What the chain of a setup satisfies: blocks do not decrease along the
\* logs, and "seen" counts the logs at or before the cursor.
LEMMA SetupFacts ==
    ASSUME setup \in Setups
    PROVE  /\ Len(setup.logs) \in Nat
           /\ setup.cursor.block \in Nat
           /\ setup.seen \in 0..Len(setup.logs)
           /\ \A g \in Ids : Block(g) \in Nat
           /\ \A g, h \in Ids : g <= h => Block(g) <= Block(h)
           /\ \A g \in Ids : g <= setup.seen <=> ~ IsBefore(setup.cursor, setup.logs[g])
           /\ \A g \in Ids : g <= setup.seen => Block(g) <= setup.cursor.block
           /\ \A g \in Ids : g > setup.seen => setup.cursor.block <= Block(g)
<1>1. /\ setup \in SetupType
      /\ setup.seen <= Len(setup.logs)
      /\ \A g, h \in 1..Len(setup.logs) : g < h => IsBefore(setup.logs[g], setup.logs[h])
      /\ \A g \in 1..Len(setup.logs) :
            g <= setup.seen <=> ~ IsBefore(setup.cursor, setup.logs[g])
  BY SetupAssumption
<1>2. /\ setup.logs \in Seq(Position)
      /\ setup.cursor \in Position
      /\ setup.seen \in Nat
  BY <1>1 DEF SetupType
<1>3. Len(setup.logs) \in Nat /\ \A g \in Ids : setup.logs[g] \in Position
  BY <1>2 DEF Ids
<1>4. \A g \in Ids : Block(g) \in Nat
  BY <1>3 DEF Position, Block
<1>5. setup.cursor.block \in Nat
  BY <1>2 DEF Position
<1>6. ASSUME NEW g \in Ids, NEW h \in Ids, g <= h
      PROVE  Block(g) <= Block(h)
  <2>1. CASE g = h
    BY <2>1, <1>4
  <2>2. CASE g # h
    <3>1. g < h
      BY <2>2, <1>3, <1>6 DEF Ids
    <3>2. IsBefore(setup.logs[g], setup.logs[h])
      BY <3>1, <1>1 DEF Ids
    <3>3. QED
      BY <3>2, <1>4 DEF IsBefore, Block
  <2>3. QED
    BY <2>1, <2>2
<1>7. ASSUME NEW g \in Ids, g <= setup.seen
      PROVE  Block(g) <= setup.cursor.block
  <2>1. ~ IsBefore(setup.cursor, setup.logs[g])
    BY <1>1, <1>7 DEF Ids
  <2>2. QED
    BY <2>1, <1>4, <1>5 DEF IsBefore, Block
<1>8. ASSUME NEW g \in Ids, g > setup.seen
      PROVE  setup.cursor.block <= Block(g)
  <2>1. IsBefore(setup.cursor, setup.logs[g])
    BY <1>1, <1>2, <1>8 DEF Ids
  <2>2. QED
    BY <2>1, <1>4, <1>5 DEF IsBefore, Block
<1>9. QED
  BY <1>1, <1>2, <1>3, <1>4, <1>5, <1>6, <1>7, <1>8 DEF Ids

----------------------------------------------------------------------------
(* Type correctness                                                        *)

LEMMA InitTypeOK == Init => TypeOK
<1>1. SUFFICES ASSUME Init PROVE TypeOK
  OBVIOUS
<1>2. setup \in Setups
  BY <1>1 DEF Init, InitAnyWs, WithConfig
<1>3. Len(setup.logs) \in Nat
  BY <1>2, SetupFacts
<1>4. MaxBlock \in Nat /\ Confirmations \in Nat
  BY ParamAssumption
<1>5. pc \in Building /\ error \in Errors
  BY <1>1 DEF Init, InitAnyWs, WithConfig, Building, Errors
<1>6. wsUp \in BOOLEAN /\ headSub \in BOOLEAN /\ alarm \in BOOLEAN
  BY <1>1 DEF Init, InitAnyWs, WithConfig
<1>7. batch \subseteq Ids /\ last \in 0..Len(setup.logs)
  BY <1>1, <1>3 DEF Init, InitAnyWs, WithConfig
<1>8. /\ sent \in 0..Len(setup.logs)
      /\ next \in 1..(sent + 1)
      /\ headAt \in 0..wsHead
      /\ heads = 0 /\ pc = "chainId"
      /\ cutoff \in 0..MaxBlock
      /\ from \in Nat
  BY <1>1, <1>3, <1>4 DEF Init, InitAnyWs, WithConfig
<1>9. QED
  BY <1>1, <1>4, <1>5, <1>6, <1>7, <1>8 DEF Init, InitAnyWs, WithConfig, TypeOK

LEMMA NextTypeOK == TypeOK /\ [Next]_vars => TypeOK'
<1> SUFFICES ASSUME TypeOK, [Next]_vars PROVE TypeOK'
  OBVIOUS
<1> USE ParamAssumption
<1>1. Len(setup.logs) \in Nat /\ setup.seen \in 0..Len(setup.logs) /\ setup.cursor.block \in Nat
  BY SetupFacts DEF TypeOK
<1>2. CASE Environment
  <2> USE <1>1 DEF TypeOK, backfillVars, headVars, feedVars, chainVars, channelVars, Ids
  <2>1. CASE WsImport
    BY <2>1 DEF WsImport
  <2>2. CASE \E b \in Backends : HttpImport(b)
    BY <2>2 DEF HttpImport
  <2>3. CASE WsClose \/ ForeignUnsubscribe
    BY <2>3 DEF WsClose, ForeignUnsubscribe
  <2>4. CASE PushLog
    BY <2>4 DEF PushLog
  <2>5. QED
    BY <1>2, <2>1, <2>2, <2>3, <2>4 DEF Environment
<1>3. CASE BuildStep
  <2> USE <1>1 DEF TypeOK, backfillVars, headVars, feedVars, chainVars, channelVars,
          Ids, Building, Streaming, Errors
  <2>1. CASE TransportFailure
    BY <2>1 DEF TransportFailure
  <2>2. CASE GetChainId
    BY <2>2 DEF GetChainId
  <2>3. CASE SubscribeLogs
    BY <2>3 DEF SubscribeLogs
  <2>4. CASE SubscribeHeads
    BY <2>4 DEF SubscribeHeads
  <2>5. CASE RecvHead
    <3>1. /\ headAt' \in 0..wsHead
          /\ heads' \in 0..(Confirmations + 1)
          /\ pc' = "heads" => heads' <= Confirmations
          /\ pc' \in {"heads", "unsub"}
          /\ cutoff' \in 0..MaxBlock
      <4>1. wsHead \in Nat /\ headAt \in Nat /\ wsHead <= MaxBlock /\ headAt < wsHead
        BY <2>5 DEF RecvHead
      <4>2. cutoff' = headAt + 1 \/ cutoff' = cutoff
        BY <2>5 DEF RecvHead
      <4>3. heads' = heads + 1 /\ headAt' = headAt + 1 /\ heads <= Confirmations
        BY <2>5 DEF RecvHead
      <4>4. pc' = IF heads = Confirmations THEN "unsub" ELSE "heads"
        BY <2>5 DEF RecvHead, LastHeader
      <4>5. QED
        BY <4>1, <4>2, <4>3, <4>4
    <3>3. UNCHANGED <<chainVars, error, channelVars, headSub, backfillVars, feedVars>>
      BY <2>5 DEF RecvHead
    <3>4. QED
      BY <3>1, <3>3
  <2>6. CASE HeadsEnded \/ HeadTimeout
    BY <2>6 DEF HeadsEnded, HeadTimeout
  <2>7. CASE Unsubscribe
    BY <2>7 DEF Unsubscribe
  <2>8. CASE \E b \in Backends : HttpSynced(b)
    BY <2>8 DEF HttpSynced
  <2>9. CASE SyncTimeout
    BY <2>9 DEF SyncTimeout
  <2>10. QED
    BY <1>3, <2>1, <2>2, <2>3, <2>4, <2>5, <2>6, <2>7, <2>8, <2>9 DEF BuildStep, TimedStep
<1>4. CASE StreamStep
  <2> USE <1>1 DEF TypeOK, backfillVars, headVars, feedVars, chainVars, channelVars,
          Ids, Building, Streaming, Errors
  <2>1. CASE \E b \in Backends : FetchChunk(b)
    BY <2>1 DEF FetchChunk, ChunkLogs
  <2>2. CASE FetchFail
    BY <2>2 DEF FetchFail
  <2>3. CASE YieldBackfill
    <3>1. PICK g \in batch : batch' = batch \ {g} /\ last' = g
      BY <2>3 DEF YieldBackfill
    <3>2. batch' \subseteq Ids /\ last' \in Ids
      BY <3>1
    <3> last' \in 0..Len(setup.logs)
      BY <3>2
    <3> alarm' \in BOOLEAN
      BY <2>3 DEF YieldBackfill
    <3>3. UNCHANGED <<chainVars, pc, error, channelVars, headVars, from>>
      BY <2>3 DEF YieldBackfill
    <3>4. QED
      BY <3>2, <3>3
  <2>4. CASE BackfillDone \/ RecvClosed
    BY <2>4 DEF BackfillDone, RecvClosed
  <2>5. CASE RecvLive \/ RecvBackfilled \/ RecvMalformed
    <3>a. next <= sent /\ next' = next + 1 /\ last' \in {last, next}
      BY <2>5 DEF RecvLive, RecvBackfilled, RecvMalformed, Readable
    <3>b. sent \in 0..Len(setup.logs) /\ next \in 1..(sent + 1) /\ last \in 0..Len(setup.logs)
      OBVIOUS
    <3>1. next' \in 1..(sent + 1)
      BY <3>a, <3>b
    <3>2. last' \in 0..Len(setup.logs)
      BY <3>a, <3>b
    <3>3. alarm' \in BOOLEAN
      BY <2>5 DEF RecvLive, RecvBackfilled, RecvMalformed
    <3>4. UNCHANGED <<chainVars, pc, error, sent, headVars, backfillVars>>
      BY <2>5 DEF RecvLive, RecvBackfilled, RecvMalformed
    <3>5. QED
      BY <3>1, <3>2, <3>3, <3>4
  <2>6. CASE RecvLagged
    <3>1. next' \in 1..(sent + 1)
      <4>1. next' = sent - ChannelSize + 1 /\ sent - next + 1 > ChannelSize
        BY <2>6 DEF RecvLagged, Lagged
      <4>2. sent \in Nat /\ next \in Nat /\ next >= 1 /\ ChannelSize \in Nat \ {0}
        OBVIOUS
      <4>3. QED
        BY <4>1, <4>2
    <3>2. alarm' \in BOOLEAN
      BY <2>6 DEF RecvLagged
    <3>3. UNCHANGED <<chainVars, pc, error, sent, headVars, backfillVars, last>>
      BY <2>6 DEF RecvLagged
    <3>4. QED
      BY <3>1, <3>2, <3>3
  <2>7. QED
    BY <1>4, <2>1, <2>2, <2>3, <2>4, <2>5, <2>6 DEF StreamStep, LocalStep
<1>5. CASE UNCHANGED vars
  BY <1>5 DEF TypeOK, vars, backfillVars, headVars, feedVars, chainVars, channelVars, Ids
<1>6. QED
  BY <1>2, <1>3, <1>4, <1>5 DEF Next, Finished

\* The state of the builder and of the stream stays within its types,
\* whatever the nodes, the timers and the RPCs do.
THEOREM TypeCorrect == Spec => []TypeOK
<1>1. QED
  BY InitTypeOK, NextTypeOK, PTL DEF Spec

----------------------------------------------------------------------------
(* The newHeads subscription                                               *)

\* The subscription exists from SubscribeHeads to Unsubscribe, and beyond
\* only when the unsubscribe itself failed.
HeadSubInv ==
    headSub => \/ pc \in {"heads", "unsub"}
               \/ pc = "failed" /\ error = "Transport"

\* build never leaves its newHeads subscription behind, neither when it
\* succeeds nor when the header or the synchronization timeout fires: the
\* unsubscribe comes before the early returns of both.
THEOREM HeadSubReleased == Spec => []NoHeadSubLeak
<1>1. Init => HeadSubInv
  BY DEF Init, InitAnyWs, WithConfig, HeadSubInv
<1>2. HeadSubInv /\ [Next]_vars => HeadSubInv'
  <2> SUFFICES ASSUME HeadSubInv, [Next]_vars PROVE HeadSubInv'
    OBVIOUS
  <2> USE DEF HeadSubInv, chainVars, channelVars, headVars, backfillVars, feedVars
  <2>1. CASE Environment \/ UNCHANGED vars
    BY <2>1 DEF Environment, WsImport, HttpImport, WsClose, PushLog, ForeignUnsubscribe, vars
  <2>2. CASE BuildStep
    BY <2>2 DEF BuildStep, TimedStep, TransportFailure, GetChainId, SubscribeLogs, SubscribeHeads,
        RecvHead, HeadsEnded, HeadTimeout, Unsubscribe, HttpSynced, SyncTimeout
  <2>3. CASE StreamStep
    BY <2>3 DEF StreamStep, LocalStep, FetchChunk, FetchFail, Fetching, YieldBackfill, BackfillDone,
        RecvLive, RecvBackfilled, RecvMalformed, RecvLagged, RecvClosed, Readable
  <2>4. QED
    BY <2>1, <2>2, <2>3 DEF Next, Finished
<1>3. HeadSubInv => NoHeadSubLeak
  BY DEF HeadSubInv, NoHeadSubLeak, Streaming
<1>4. QED
  BY <1>1, <1>2, <1>3, PTL DEF Spec

----------------------------------------------------------------------------
(* The order of the stream, for any number of HTTP nodes                   *)

\* The cursor and every log the channel no longer offers are in blocks up
\* to h: what is not backfilled up to h is still ahead of the receiver.
CoveredUpTo(h) ==
    /\ setup.cursor.block <= h
    /\ \A g \in Ids : g < next => Block(g) <= h

\* Between the subscription of the logs and the end of the backfill.
BuildInv ==
    /\ pc \in {"subHeads", "heads", "unsub", "sync", "backfill"} => ~ LiveOnly
    /\ pc \in Building => batch = {} /\ alarm = FALSE /\ last = 0
    /\ pc = "subHeads" => CoveredUpTo(wsHead)
    /\ pc = "heads" /\ heads = 0 => CoveredUpTo(headAt)
    /\ pc \in {"heads", "unsub"} /\ heads > 0 => CoveredUpTo(cutoff)
    /\ pc \in {"sync", "backfill"} => CoveredUpTo(cutoff)
    /\ pc = "unsub" /\ error = "none" => heads > 0

\* The backfill has been through the blocks of log g.
Fetched(g) == Block(g) < from /\ Block(g) <= cutoff

\* What is yielded so far is within the cutoff, and what is fetched or may
\* still be fetched is behind it.
BackfillOrder ==
    /\ setup.cursor.block <= from
    /\ setup.seen <= last
    /\ \A g \in Ids : g <= last => Block(g) <= cutoff
    /\ \A g \in Ids : g > setup.seen /\ from <= Block(g) => g > last
    /\ \A g \in batch : g > last /\ Fetched(g)

\* What the receiver will yield is behind the last log yielded.
LiveOrder == \A g \in Ids : next <= g /\ ~ Backfilled(g) => g > last

OrderInv ==
    /\ TypeOK
    /\ setup.cursor.block <= wsHead
    /\ BuildInv
    /\ pc = "backfill" => BackfillOrder
    /\ pc = "live" => LiveOrder

LEMMA InitOrder == Init => OrderInv
<1> SUFFICES ASSUME Init PROVE OrderInv
  OBVIOUS
<1>1. TypeOK
  BY InitTypeOK
<1>2. pc = "chainId" /\ setup.cursor.block <= wsHead /\ batch = {} /\ alarm = FALSE /\ last = 0
  BY DEF Init, InitAnyWs, WithConfig
<1>3. QED
  BY <1>1, <1>2 DEF OrderInv, BuildInv

\* The nodes and the connection disturb none of it: blocks are only added,
\* and the receiver does not move.
LEMMA EnvironmentOrder ==
    ASSUME OrderInv, Environment, TypeOK'
    PROVE  OrderInv'
<1> USE DEF CoveredUpTo, Ids, Block, LiveOnly, chainVars, channelVars, headVars, backfillVars, feedVars
<1>1. /\ UNCHANGED <<setup, pc, error, next, heads, headAt, cutoff, from, batch, last, alarm>>
      /\ wsHead' = wsHead \/ wsHead' = wsHead + 1
  BY DEF Environment, WsImport, HttpImport, WsClose, PushLog, ForeignUnsubscribe
<1>2. /\ wsHead \in Nat /\ setup.cursor.block \in Nat
      /\ \A g \in Ids : Block(g) \in Nat
  BY SetupFacts, ParamAssumption DEF OrderInv, TypeOK
<1>3. setup.cursor.block <= wsHead'
  BY <1>1, <1>2 DEF OrderInv
<1>4. BuildInv'
  BY <1>1, <1>2 DEF OrderInv, BuildInv
<1>5. pc' = "backfill" => BackfillOrder'
  BY <1>1 DEF OrderInv, BackfillOrder, Fetched
<1>6. pc' = "live" => LiveOrder'
  BY <1>1 DEF OrderInv, LiveOrder, Backfilled
<1>7. QED
  BY <1>1, <1>3, <1>4, <1>5, <1>6 DEF OrderInv

LEMMA BuildOrder ==
    ASSUME OrderInv, BuildStep, TypeOK'
    PROVE  OrderInv'
<1> USE DEF Ids, Block, chainVars, channelVars, headVars, backfillVars, feedVars
<1>1. setup \in Setups /\ cutoff \in Nat /\ headAt \in Nat /\ wsHead \in Nat /\ heads \in Nat
  BY DEF OrderInv, TypeOK
<1>2. UNCHANGED chainVars
  BY DEF BuildStep, TimedStep, TransportFailure, GetChainId, SubscribeLogs, SubscribeHeads, RecvHead,
         HeadsEnded, HeadTimeout, Unsubscribe, HttpSynced, SyncTimeout
<1>3. setup.cursor.block <= wsHead' /\ setup'.cursor.block <= wsHead'
  BY <1>2 DEF OrderInv
<1>4. CASE TransportFailure \/ SyncTimeout
  BY <1>3, <1>4 DEF TransportFailure, SyncTimeout, OrderInv, BuildInv, Building
<1>5. CASE GetChainId
  BY <1>3, <1>5 DEF GetChainId, OrderInv, BuildInv, Building
<1>6. CASE SubscribeLogs
  <2>1. PICK k \in 0..Len(setup.logs) :
            LastLogUpTo(k, wsHead) /\ next' = k + 1 /\ last' = IF LiveOnly THEN k ELSE last
    BY <1>6 DEF SubscribeLogs
  <2>2. pc' = IF LiveOnly THEN "live" ELSE "subHeads"
    BY <1>6 DEF SubscribeLogs
  <2>3. \A g \in Ids : g < next' => Block(g) <= wsHead
    BY <2>1, SetupFacts, <1>1 DEF LastLogUpTo
  <2>4. batch' = {} /\ alarm' = FALSE /\ last = 0
    BY <1>6 DEF SubscribeLogs, OrderInv, BuildInv, Building
  <2>5. LiveOnly' = LiveOnly
    BY <1>2 DEF LiveOnly
  <2>6. CASE LiveOnly
    <3>1. last' = k /\ next' = k + 1 /\ pc' = "live"
      BY <2>1, <2>2, <2>6
    <3>2. LiveOrder'
      BY <3>1, <2>5, <2>6, SetupFacts, <1>1, <2>1 DEF LiveOrder, Backfilled
    <3>3. QED
      BY <3>1, <3>2, <1>3 DEF OrderInv, BuildInv, Building
  <2>7. CASE ~ LiveOnly
    BY <2>1, <2>2, <2>3, <2>4, <2>5, <2>7, <1>2, <1>3 DEF OrderInv, BuildInv, CoveredUpTo
  <2>8. QED
    BY <2>6, <2>7
<1>7. CASE SubscribeHeads
  <2>1. /\ pc = "subHeads" /\ pc' = "heads" /\ heads = 0 /\ headAt' = wsHead
        /\ UNCHANGED <<setup, next, heads, cutoff, batch, last, alarm>>
    BY <1>7 DEF SubscribeHeads, OrderInv, TypeOK
  <2>2. CoveredUpTo(wsHead)
    BY <2>1 DEF OrderInv, BuildInv
  <2>3. QED
    BY <1>3, <2>1, <2>2 DEF OrderInv, BuildInv, CoveredUpTo, Building, LiveOnly
<1>8. CASE RecvHead
  <2>1. /\ pc = "heads" /\ pc' \in {"heads", "unsub"} /\ heads' = heads + 1
        /\ headAt' = headAt + 1
        /\ cutoff' = IF heads = 0 THEN headAt + 1 ELSE cutoff
        /\ UNCHANGED <<setup, next, batch, last, alarm>>
    BY <1>8 DEF RecvHead
  <2>2. IF heads = 0 THEN CoveredUpTo(headAt) ELSE CoveredUpTo(cutoff)
    BY <2>1, <1>1 DEF OrderInv, BuildInv
  <2>3. CoveredUpTo(cutoff)'
    BY <2>1, <2>2, <1>1, SetupFacts DEF CoveredUpTo
  <2>4. ~ LiveOnly'
    BY <2>1 DEF OrderInv, BuildInv, LiveOnly
  <2>5. QED
    BY <1>3, <2>1, <2>3, <2>4, <1>1 DEF OrderInv, BuildInv, Building
<1>9. CASE HeadsEnded \/ HeadTimeout
  <2>1. /\ pc = "heads" /\ pc' = "unsub" /\ (heads = 0 => error' # "none")
        /\ UNCHANGED <<setup, next, heads, cutoff, batch, last, alarm>>
    BY <1>9 DEF HeadsEnded, HeadTimeout
  <2>2. QED
    BY <1>1, <1>3, <2>1 DEF OrderInv, BuildInv, CoveredUpTo, Building, LiveOnly
<1>10. CASE Unsubscribe
  <2>1. /\ pc = "unsub" /\ pc' \in {"sync", "failed"} /\ (pc' = "sync" => error = "none")
        /\ UNCHANGED <<setup, next, heads, cutoff, batch, last, alarm>>
    BY <1>10 DEF Unsubscribe
  <2>2. QED
    BY <1>1, <1>3, <2>1 DEF OrderInv, BuildInv, CoveredUpTo, Building, LiveOnly
<1>11. CASE \E b \in Backends : HttpSynced(b)
  <2>1. PICK b \in Backends : HttpSynced(b)
    BY <1>11
  <2>2. /\ pc = "sync" /\ pc' = "backfill" /\ from' = setup.cursor.block /\ last' = setup.seen
        /\ UNCHANGED <<setup, httpHead, next, cutoff, batch, alarm>>
    BY <2>1 DEF HttpSynced
  <2>3. batch = {} /\ alarm = FALSE /\ CoveredUpTo(cutoff) /\ ~ LiveOnly
    BY <2>2 DEF OrderInv, BuildInv, Building
  <2>4. BackfillOrder'
    <3>1. /\ setup.seen \in Nat /\ setup.cursor.block \in Nat /\ setup.cursor.block <= cutoff
          /\ \A g \in Ids : g <= setup.seen => Block(g) <= setup.cursor.block
          /\ \A g \in Ids : g > setup.seen => setup.cursor.block <= Block(g)
          /\ \A g \in Ids : Block(g) \in Nat
      BY <1>1, <2>3, SetupFacts DEF CoveredUpTo
    <3>2. QED
      BY <2>2, <2>3, <3>1, <1>1 DEF BackfillOrder, Fetched
  <2>5. CoveredUpTo(cutoff)' /\ ~ LiveOnly'
    BY <2>2, <2>3 DEF CoveredUpTo, LiveOnly
  <2>6. QED
    BY <1>3, <2>2, <2>4, <2>5 DEF OrderInv, BuildInv, Building
<1>12. QED
  BY <1>4, <1>5, <1>6, <1>7, <1>8, <1>9, <1>10, <1>11 DEF BuildStep, TimedStep

\* No chunk goes past the cutoff, nor is one cut short where block numbers end.
LEMMA ChunkEndExact ==
    ASSUME from \in Nat, cutoff \in 0..MaxBlock
    PROVE  \A k \in Nat : k <= ChunkEnd <=> k < from + ChunkSize /\ k <= cutoff
<1>1. ChunkSize \in Nat \ {0} /\ MaxBlock \in Nat /\ MaxU64 \in Nat /\ MaxBlock <= MaxU64
  BY ParamAssumption
<1>2. CASE from + (ChunkSize - 1) <= MaxU64
  BY <1>1, <1>2 DEF ChunkEnd, SaturatingAdd
<1>3. CASE from + (ChunkSize - 1) > MaxU64
  BY <1>1, <1>3 DEF ChunkEnd, SaturatingAdd
<1>4. QED
  BY <1>1, <1>2, <1>3

\* Which logs node b answers a chunk with.
LEMMA ChunkIs ==
    ASSUME OrderInv, NEW b \in Backends
    PROVE  /\ ChunkEnd \in Int
           /\ \A g : g \in ChunkLogs(b) <=>
                /\ g \in Ids /\ g > setup.seen
                /\ from <= Block(g) /\ Block(g) < from + ChunkSize /\ Block(g) <= cutoff
                /\ Block(g) <= httpHead[b]
<1>1. /\ setup \in Setups /\ from \in Nat /\ cutoff \in 0..MaxBlock
      /\ ChunkSize \in Nat \ {0} /\ MaxU64 \in Nat /\ MaxBlock \in Nat
  BY ParamAssumption DEF OrderInv, TypeOK
<1>2. /\ setup.seen \in Nat /\ Ids \subseteq Nat
      /\ \A g \in Ids : Block(g) \in Nat
      /\ \A g \in Ids : IsBefore(setup.cursor, setup.logs[g]) <=> g > setup.seen
  BY <1>1, SetupFacts DEF Ids
<1>3. ChunkEnd \in Int
  BY <1>1 DEF ChunkEnd, SaturatingAdd
<1>4. \A g \in Ids : Block(g) \in from..ChunkEnd <=>
          from <= Block(g) /\ Block(g) < from + ChunkSize /\ Block(g) <= cutoff
  <2>1. \A g \in Ids : Block(g) <= ChunkEnd <=> Block(g) < from + ChunkSize /\ Block(g) <= cutoff
    BY <1>1, <1>2, ChunkEndExact
  <2>2. QED
    BY <1>1, <1>2, <1>3, <2>1
<1>5. QED
  BY <1>2, <1>3, <1>4 DEF ChunkLogs

\* The chunk a node answers with is behind everything yielded, whatever the
\* node has imported.
LEMMA FetchOrder ==
    ASSUME OrderInv, NEW b \in Backends, FetchChunk(b)
    PROVE  BackfillOrder'
<1>1. setup \in Setups /\ cutoff \in Nat /\ from \in Nat /\ ChunkSize \in Nat \ {0}
  BY ParamAssumption DEF OrderInv, TypeOK
<1>2. /\ BackfillOrder
      /\ from' = from + ChunkSize /\ batch' = ChunkLogs(b)
      /\ UNCHANGED <<setup, cutoff, last>>
      /\ Ids' = Ids /\ \A g : Block(g)' = Block(g)
  BY DEF FetchChunk, Fetching, OrderInv, chainVars, headVars, feedVars, Ids, Block
<1>3. setup.cursor.block \in Nat /\ \A g \in Ids : Block(g) \in Nat
  BY <1>1, SetupFacts
<1>4. setup.cursor.block <= from'
  BY <1>1, <1>2, <1>3 DEF BackfillOrder
<1>5. \A g \in Ids : g > setup.seen /\ from' <= Block(g) => g > last
  BY <1>1, <1>2, <1>3 DEF BackfillOrder
<1>6. \A g \in batch' : g > last /\ Block(g) < from' /\ Block(g) <= cutoff
  BY <1>2, ChunkIs DEF BackfillOrder
<1>7. setup.seen <= last /\ \A g \in Ids : g <= last => Block(g) <= cutoff
  BY <1>2 DEF BackfillOrder
<1>8. QED
  BY <1>2, <1>4, <1>5, <1>6, <1>7 DEF BackfillOrder, Fetched

\* A log that is yielded is behind the last one, from the backfill ...
LEMMA YieldOrder ==
    ASSUME OrderInv, NEW g \in batch, pc = "backfill"
    PROVE  g \in Ids /\ g > last /\ Fetched(g)
BY DEF OrderInv, TypeOK, BackfillOrder

\* ... and from the channel.
LEMMA RecvOrder ==
    ASSUME OrderInv, Readable, ~ Backfilled(next)
    PROVE  next \in Ids /\ next > last
<1>1. /\ setup \in Setups /\ LiveOrder
      /\ Len(setup.logs) \in Nat /\ next \in Nat \ {0} /\ sent \in 0..Len(setup.logs)
  BY SetupFacts DEF OrderInv, TypeOK, Readable
<1>2. next \in Ids
  BY <1>1 DEF Readable, Ids
<1>3. QED
  BY <1>1, <1>2 DEF LiveOrder

\* The chain and the cutoff stay as they are while the stream is polled.
LEMMA StreamKeeps ==
    ASSUME StreamStep
    PROVE  /\ UNCHANGED <<setup, wsHead, httpHead, cutoff, sent, heads, headAt>>
           /\ LiveOnly' = LiveOnly /\ Ids' = Ids
           /\ \A g : Block(g)' = Block(g) /\ (Backfilled(g)' <=> Backfilled(g))
BY DEF StreamStep, LocalStep, FetchChunk, FetchFail, YieldBackfill, BackfillDone, RecvLive,
       RecvBackfilled, RecvMalformed, RecvLagged, RecvClosed, LiveOnly, Ids, Block, Backfilled,
       chainVars, channelVars, headVars, backfillVars, feedVars

\* The receiver only moves forward, past the log it reads at least.
LEMMA ReceiverAdvances ==
    ASSUME OrderInv, RecvLive \/ RecvBackfilled \/ RecvMalformed \/ RecvLagged
    PROVE  next' \in Int /\ next' > next
<1>1. next \in Nat /\ sent \in Nat /\ ChannelSize \in Nat
  BY SetupFacts, ParamAssumption DEF OrderInv, TypeOK
<1>2. CASE RecvLive \/ RecvBackfilled \/ RecvMalformed
  BY <1>1, <1>2 DEF RecvLive, RecvBackfilled, RecvMalformed
<1>3. CASE RecvLagged
  BY <1>1, <1>3 DEF RecvLagged, Lagged
<1>4. QED
  BY <1>2, <1>3

LEMMA StreamOrder ==
    ASSUME OrderInv, StreamStep, TypeOK'
    PROVE  OrderInv'
<1> USE DEF chainVars, channelVars, headVars, backfillVars, feedVars
<1>1. /\ setup \in Setups /\ cutoff \in Nat /\ last \in Nat /\ next \in Nat
      /\ from \in Nat /\ setup.seen \in Nat /\ setup.cursor.block \in Nat /\ Ids \subseteq Nat
      /\ \A g \in Ids : Block(g) \in Nat
      /\ \A g, h \in Ids : g <= h => Block(g) <= Block(h)
  BY SetupFacts DEF OrderInv, TypeOK, Ids
<1>2. setup'.cursor.block <= wsHead'
  BY StreamKeeps DEF OrderInv
<1>3. ASSUME pc = "backfill", pc' = "backfill", next' = next
      PROVE  BuildInv'
  BY <1>3, StreamKeeps DEF OrderInv, BuildInv, Building, CoveredUpTo
<1>4. ASSUME pc' \in {"live", "ended"}
      PROVE  BuildInv'
  BY <1>4 DEF BuildInv, Building
<1>5. CASE \E b \in Backends : FetchChunk(b)
  <2>1. pc = "backfill" /\ pc' = "backfill" /\ next' = next
    BY <1>5 DEF FetchChunk, Fetching
  <2>2. BackfillOrder'
    BY <1>5, FetchOrder
  <2>3. QED
    BY <1>2, <1>3, <2>1, <2>2 DEF OrderInv
<1>6. CASE FetchFail
  <2>1. /\ pc = "backfill" /\ pc' = "backfill" /\ next' = next
        /\ batch' = {} /\ last' = last /\ from' = from + ChunkSize
    BY <1>6 DEF FetchFail, Fetching
  <2>2. ChunkSize \in Nat
    BY ParamAssumption
  <2>3. BackfillOrder
    BY <2>1 DEF OrderInv
  <2>4. setup.cursor.block <= from'
    BY <1>1, <2>1, <2>2, <2>3 DEF BackfillOrder
  <2>5. \A g \in Ids : g > setup.seen /\ from' <= Block(g) => g > last
    BY <1>1, <2>1, <2>2, <2>3 DEF BackfillOrder
  <2>6. BackfillOrder'
    BY <2>1, <2>3, <2>4, <2>5, StreamKeeps DEF BackfillOrder
  <2>7. QED
    BY <1>2, <1>3, <2>1, <2>6 DEF OrderInv
<1>7. CASE YieldBackfill
  <2>1. PICK g \in batch : /\ \A h \in batch : g <= h
                           /\ batch' = batch \ {g}
                           /\ last' = g
    BY <1>7 DEF YieldBackfill
  <2>2. pc = "backfill" /\ pc' = "backfill" /\ next' = next /\ from' = from
    BY <1>7 DEF YieldBackfill
  <2>3. g \in Ids /\ g > last /\ Fetched(g) /\ BackfillOrder /\ batch \subseteq Ids
    BY <2>2, YieldOrder DEF OrderInv, TypeOK
  <2>4. BackfillOrder'
    <3>1. \A h \in batch' : h > g /\ Fetched(h)
      <4> SUFFICES ASSUME NEW h \in batch' PROVE h > g /\ Fetched(h)
        OBVIOUS
      <4>1. h \in batch /\ h # g /\ g <= h
        BY <2>1
      <4>2. Fetched(h) /\ h \in Nat /\ g \in Nat
        BY <1>1, <2>3, <4>1 DEF BackfillOrder
      <4>3. QED
        BY <4>1, <4>2
    <3>2. \A h \in Ids : h <= g => Block(h) <= cutoff
      BY <1>1, <2>3 DEF Fetched
    <3>3. \A h \in Ids : h > setup.seen /\ from <= Block(h) => h > g
      BY <1>1, <2>3 DEF Fetched
    <3>4. setup.seen <= g
      BY <1>1, <2>3 DEF BackfillOrder
    <3>5. \A h : Fetched(h)' <=> Fetched(h)
      BY <2>2, StreamKeeps DEF Fetched
    <3>6. QED
      BY <2>1, <2>2, <2>3, <3>1, <3>2, <3>3, <3>4, <3>5, StreamKeeps DEF BackfillOrder
  <2>5. QED
    BY <1>2, <1>3, <2>2, <2>4 DEF OrderInv
<1>8. CASE BackfillDone
  <2>1. pc = "backfill" /\ pc' = "live" /\ last' = last
    BY <1>8 DEF BackfillDone
  <2>2. BackfillOrder /\ ~ LiveOnly
    BY <2>1 DEF OrderInv, BuildInv
  <2>3. \A g \in Ids : ~ Backfilled(g) => g > last
    BY <1>1, <2>2 DEF BackfillOrder, Backfilled
  <2>4. LiveOrder'
    BY <2>1, <2>3, StreamKeeps DEF LiveOrder
  <2>5. QED
    BY <1>2, <1>4, <2>1, <2>4 DEF OrderInv
<1>9. CASE RecvLive \/ RecvBackfilled \/ RecvMalformed \/ RecvLagged
  <2>1. /\ pc = "live" /\ pc' = "live" /\ next' > next /\ next' \in Int
        /\ last' = last \/ last' = next
    BY <1>9, ReceiverAdvances
       DEF RecvLive, RecvBackfilled, RecvMalformed, RecvLagged, Readable
  <2>2. \A g \in Ids : next' <= g => next <= g /\ g > next
    BY <1>1, <2>1
  <2>3. LiveOrder'
    BY <2>1, <2>2, StreamKeeps DEF OrderInv, LiveOrder
  <2>4. QED
    BY <1>2, <1>4, <2>1, <2>3 DEF OrderInv
<1>10. CASE RecvClosed
  BY <1>2, <1>4, <1>10 DEF RecvClosed, OrderInv
<1>11. QED
  BY <1>5, <1>6, <1>7, <1>8, <1>9, <1>10 DEF StreamStep, LocalStep

LEMMA OrderInductive == Spec => []OrderInv
<1>1. OrderInv /\ [Next]_vars => OrderInv'
  <2> SUFFICES ASSUME OrderInv, [Next]_vars PROVE OrderInv'
    OBVIOUS
  <2>1. TypeOK'
    BY NextTypeOK DEF OrderInv
  <2>2. CASE UNCHANGED vars
    BY <2>1, <2>2 DEF vars, chainVars, channelVars, headVars, backfillVars, feedVars, OrderInv,
        BuildInv, BackfillOrder, LiveOrder, CoveredUpTo, Fetched, Backfilled, LiveOnly, Ids, Block
  <2>3. QED
    BY <2>1, <2>2, EnvironmentOrder, BuildOrder, StreamOrder DEF Next, Finished
<1>2. QED
  BY <1>1, InitOrder, PTL DEF Spec

\* Each log that is yielded is behind the one before it.
EachLogOnce == [][YieldBackfill \/ RecvLive => last' > last]_vars

\* However many HTTP nodes answer the chunks, and however far behind they
\* are, no log is yielded twice or after a later one: not within a chunk,
\* not from one chunk to the next and not across the switch to the channel.
THEOREM YieldsEachLogOnce == Spec => EachLogOnce
<1>1. ASSUME OrderInv, YieldBackfill \/ RecvLive PROVE last' > last
  <2>1. CASE YieldBackfill
    BY <1>1, <2>1, YieldOrder DEF YieldBackfill
  <2>2. CASE RecvLive
    BY <1>1, <2>2, RecvOrder DEF RecvLive
  <2>3. QED
    BY <1>1, <2>1, <2>2
<1>2. QED
  BY <1>1, OrderInductive, PTL DEF EachLogOnce

\* A WebSocket node that is not behind the cursor is all it takes: no log
\* at or before the cursor, or before the last one, is yielded, for any
\* number of HTTP nodes.  Without it event_stream_ahead shows a stream that
\* steps back.
THEOREM StreamMovesForward == Spec => NeverRedelivers
<1>1. ASSUME OrderInv, [Next]_vars PROVE last' >= last
  <2> USE DEF chainVars, channelVars, headVars, backfillVars, feedVars
  <2>0. last \in Nat /\ setup \in Setups
    BY <1>1, SetupFacts DEF OrderInv, TypeOK
  <2>1. CASE YieldBackfill
    BY <1>1, <2>0, <2>1, YieldOrder DEF YieldBackfill, Ids
  <2>2. CASE RecvLive
    BY <1>1, <2>0, <2>2, RecvOrder DEF RecvLive, Ids
  <2>3. CASE SubscribeLogs \/ \E b \in Backends : HttpSynced(b)
    <3>1. last = 0 /\ last' \in Nat
      BY <1>1, <2>0, <2>3, SetupFacts
         DEF SubscribeLogs, HttpSynced, OrderInv, BuildInv, Building
    <3>2. QED
      BY <3>1
  <2>4. CASE ~ (\/ YieldBackfill \/ RecvLive \/ SubscribeLogs
                \/ \E b \in Backends : HttpSynced(b))
    BY <1>1, <2>0, <2>4
       DEF Next, Environment, WsImport, HttpImport, WsClose, PushLog, ForeignUnsubscribe,
           BuildStep, TimedStep, TransportFailure, GetChainId, SubscribeHeads, RecvHead, HeadsEnded,
           HeadTimeout, Unsubscribe, SyncTimeout, StreamStep, LocalStep, FetchChunk, FetchFail,
           BackfillDone, RecvBackfilled, RecvMalformed, RecvLagged, RecvClosed, Finished, vars
  <2>5. QED
    BY <2>1, <2>2, <2>3, <2>4
<1>2. QED
  BY <1>1, OrderInductive, PTL DEF Spec, NeverRedelivers

----------------------------------------------------------------------------
(* The completeness of the stream, when every chunk is answered by a node  *)
(* that has imported it                                                    *)

\* All answers of the HTTP provider come from one node.
OneNode == \A b, c \in Backends : b = c

\* The node that answers a chunk has imported it up to the chunk's end.
SyncedFetch ==
    (\E b \in Backends : FetchChunk(b)) => \E b \in Backends : FetchChunk(b) /\ ChunkEnd <= httpHead[b]

FetchesSynced == [][SyncedFetch]_vars

\* The fetched logs are the ones up to block from - 1 that are still owed.
BackfillComplete ==
    /\ \A g \in batch, h \in Ids : g < h /\ Fetched(h) => h \in batch
    /\ alarm = FALSE => \A g \in Ids : g > last /\ Fetched(g) => g \in batch

\* Without a pending error item the receiver will yield everything that is
\* behind the last log yielded.
LiveComplete ==
    alarm = FALSE => \A g \in Ids : g > last => next <= g /\ ~ Backfilled(g)

CompleteInv ==
    /\ pc = "backfill" => BackfillComplete
    /\ pc = "live" => LiveComplete

LEMMA EnvironmentComplete ==
    ASSUME CompleteInv, Environment
    PROVE  CompleteInv'
<1>1. UNCHANGED <<setup, pc, next, cutoff, from, batch, last, alarm>>
  BY DEF Environment, WsImport, HttpImport, WsClose, PushLog, ForeignUnsubscribe,
         chainVars, channelVars, headVars, backfillVars, feedVars
<1>2. QED
  BY <1>1 DEF CompleteInv, BackfillComplete, LiveComplete, Fetched, Backfilled, LiveOnly,
              Ids, Block

\* build hands the stream over with nothing behind the cursor fetched, or,
\* live only, with the receiver right behind what counts as seen.
LEMMA BuildComplete ==
    ASSUME OrderInv, CompleteInv, BuildStep
    PROVE  CompleteInv'
<1> USE DEF chainVars, channelVars, headVars, backfillVars, feedVars
<1>1. /\ setup \in Setups /\ Len(setup.logs) \in Nat /\ setup.cursor.block \in Nat
      /\ setup' = setup /\ Ids' = Ids /\ \A g : Block(g)' = Block(g)
  BY SetupFacts
     DEF OrderInv, TypeOK, BuildStep, TimedStep, TransportFailure, GetChainId, SubscribeLogs,
         SubscribeHeads, RecvHead, HeadsEnded, HeadTimeout, Unsubscribe, HttpSynced,
         SyncTimeout, Ids, Block
<1>2. CASE SubscribeLogs
  <2>1. CASE LiveOnly
    <3>1. PICK k \in 0..Len(setup.logs) : next' = k + 1 /\ last' = k
      BY <1>2, <2>1 DEF SubscribeLogs
    <3>2. pc' = "live" /\ LiveOnly'
      BY <1>1, <1>2, <2>1 DEF SubscribeLogs, LiveOnly
    <3>3. \A g \in Ids : g > last' => next' <= g
      BY <1>1, <3>1 DEF Ids
    <3>4. QED
      BY <1>1, <3>2, <3>3 DEF CompleteInv, LiveComplete, Backfilled
  <2>2. CASE ~ LiveOnly
    BY <1>2, <2>2 DEF SubscribeLogs, CompleteInv
  <2>3. QED
    BY <2>1, <2>2
<1>3. CASE \E b \in Backends : HttpSynced(b)
  <2>1. /\ pc = "sync" /\ pc' = "backfill" /\ batch' = batch
        /\ from' = setup.cursor.block /\ last' = setup.seen
    BY <1>3 DEF HttpSynced
  <2>2. batch = {}
    BY <2>1 DEF OrderInv, BuildInv, Building
  <2>3. \A g \in Ids : g > last' => ~ Fetched(g)'
    BY <1>1, <2>1, SetupFacts DEF Fetched
  <2>4. QED
    BY <1>1, <2>1, <2>2, <2>3 DEF CompleteInv, BackfillComplete
<1>4. CASE ~ (SubscribeLogs \/ \E b \in Backends : HttpSynced(b))
  BY <1>4 DEF BuildStep, TimedStep, TransportFailure, GetChainId, SubscribeHeads, RecvHead, HeadsEnded,
      HeadTimeout, Unsubscribe, SyncTimeout, CompleteInv
<1>5. QED
  BY <1>2, <1>3, <1>4

\* A node that has imported the chunk leaves none of its logs out.
LEMMA FetchComplete ==
    ASSUME OrderInv, CompleteInv, NEW b \in Backends, FetchChunk(b), ChunkEnd <= httpHead[b]
    PROVE  BackfillComplete'
<1>1. /\ setup \in Setups /\ cutoff \in Nat /\ from \in Nat /\ ChunkSize \in Nat \ {0}
      /\ last \in Nat /\ Ids \subseteq Nat /\ httpHead[b] \in Nat /\ cutoff \in 0..MaxBlock
  BY SetupFacts, ParamAssumption DEF OrderInv, TypeOK, Ids
<1>2. /\ BackfillOrder /\ BackfillComplete /\ batch = {}
      /\ from' = from + ChunkSize /\ batch' = ChunkLogs(b)
      /\ UNCHANGED <<setup, cutoff, last, alarm>>
      /\ Ids' = Ids /\ \A g : Block(g)' = Block(g)
  BY DEF FetchChunk, Fetching, OrderInv, CompleteInv, chainVars, headVars, feedVars, Ids, Block
<1>3. /\ \A g \in Ids : Block(g) \in Nat
      /\ \A g, h \in Ids : g <= h => Block(g) <= Block(h)
      /\ setup.seen \in 0..Len(setup.logs) /\ Len(setup.logs) \in Nat
  BY <1>1, SetupFacts
<1>4. \A g : g \in batch' <=>
          g \in Ids /\ g > setup.seen /\ from <= Block(g) /\ Block(g) < from' /\ Block(g) <= cutoff
  <2>1. \A g \in Ids : Block(g) < from' /\ Block(g) <= cutoff => Block(g) <= httpHead[b]
    <3>1. \A g \in Ids : Block(g) < from' /\ Block(g) <= cutoff => Block(g) <= ChunkEnd
      BY <1>1, <1>2, <1>3, ChunkEndExact
    <3>2. ChunkEnd \in Int
      BY ChunkIs
    <3>3. QED
      BY <1>1, <1>3, <3>1, <3>2
  <2>2. QED
    BY <1>2, <2>1, ChunkIs
<1>5. ASSUME NEW g \in batch', NEW h \in Ids, g < h, Block(h) < from', Block(h) <= cutoff
      PROVE  h \in batch'
  <2>1. g \in Ids
    BY <1>4
  <2>2. Block(g) <= Block(h)
    BY <1>1, <1>3, <1>5, <2>1
  <2>3. h > setup.seen /\ from <= Block(h)
    BY <1>1, <1>3, <1>4, <1>5, <2>1, <2>2
  <2>4. QED
    BY <1>4, <1>5, <2>3
<1>6. ASSUME alarm = FALSE, NEW g \in Ids, g > last, Block(g) < from', Block(g) <= cutoff
      PROVE  g \in batch'
  <2>1. from <= Block(g)
    BY <1>1, <1>2, <1>3, <1>6 DEF BackfillComplete, Fetched
  <2>2. g > setup.seen
    BY <1>1, <1>2, <1>3, <1>6 DEF BackfillOrder
  <2>3. QED
    BY <1>4, <1>6, <2>1, <2>2
<1>7. QED
  BY <1>2, <1>5, <1>6 DEF BackfillComplete, Fetched

\* Unless an error item is pending, the log yielded is the next one: the
\* smallest one fetched ...
LEMMA YieldNext ==
    ASSUME OrderInv, CompleteInv, NEW g \in batch, pc = "backfill", \A h \in batch : g <= h,
           alarm = FALSE
    PROVE  g = last + 1
<1>1. setup \in Setups /\ last \in Nat /\ batch \subseteq Ids /\ BackfillComplete
  BY SetupFacts DEF OrderInv, TypeOK, CompleteInv
<1>2. g \in Ids /\ g > last /\ Fetched(g)
  BY YieldOrder
<1>3. SUFFICES ASSUME g # last + 1 PROVE FALSE
  OBVIOUS
<1>4. last + 1 \in Ids /\ last + 1 < g /\ last + 1 > last
  BY <1>1, <1>2, <1>3, SetupFacts DEF Ids
<1>5. Block(last + 1) <= Block(g) /\ Block(last + 1) \in Nat /\ Block(g) \in Nat
  BY <1>1, <1>2, <1>4, SetupFacts DEF Ids
<1>6. Fetched(last + 1)
  BY <1>1, <1>2, <1>5 DEF Fetched, OrderInv, TypeOK
<1>7. last + 1 \in batch
  BY <1>1, <1>4, <1>6 DEF BackfillComplete
<1>8. QED
  BY <1>1, <1>2, <1>4, <1>7 DEF Ids

\* ... and the one the receiver reads.
LEMMA RecvNext ==
    ASSUME OrderInv, CompleteInv, Readable, ~ Backfilled(next), alarm = FALSE
    PROVE  next = last + 1
<1>1. setup \in Setups /\ last \in Nat /\ Len(setup.logs) \in Nat /\ LiveComplete
  BY SetupFacts DEF OrderInv, TypeOK, CompleteInv, Readable
<1>2. next \in Ids /\ next > last
  BY RecvOrder
<1>3. SUFFICES ASSUME next # last + 1 PROVE FALSE
  OBVIOUS
<1>4. last + 1 \in Ids /\ last + 1 < next /\ last + 1 > last
  BY <1>1, <1>2, <1>3 DEF Ids
<1>5. QED
  BY <1>1, <1>2, <1>4 DEF LiveComplete, Ids

LEMMA StreamComplete ==
    ASSUME OrderInv, CompleteInv, StreamStep, SyncedFetch
    PROVE  CompleteInv'
<1> USE DEF chainVars, channelVars, headVars, backfillVars, feedVars
<1>1. /\ setup \in Setups /\ cutoff \in Nat /\ last \in Nat /\ next \in Nat
      /\ from \in Nat /\ Ids \subseteq Nat
      /\ \A g \in Ids : Block(g) \in Nat
      /\ \A g, h \in Ids : g <= h => Block(g) <= Block(h)
  BY SetupFacts DEF OrderInv, TypeOK, Ids
<1>2. CASE \E b \in Backends : FetchChunk(b)
  <2>1. BackfillComplete'
    BY <1>2, FetchComplete DEF SyncedFetch
  <2>2. pc' = "backfill"
    BY <1>2 DEF FetchChunk, Fetching
  <2>3. QED
    BY <2>1, <2>2 DEF CompleteInv
<1>3. CASE FetchFail
  BY <1>3 DEF FetchFail, Fetching, CompleteInv, BackfillComplete
<1>4. CASE YieldBackfill
  <2>1. PICK g \in batch : /\ \A h \in batch : g <= h
                           /\ batch' = batch \ {g}
                           /\ last' = g
    BY <1>4 DEF YieldBackfill
  <2>2. pc = "backfill" /\ pc' = "backfill" /\ from' = from /\ BackfillComplete
    BY <1>4 DEF YieldBackfill, CompleteInv
  <2>3. g \in Ids /\ g > last /\ batch \subseteq Ids
    BY <2>2, YieldOrder DEF OrderInv, TypeOK
  <2>4. \A h \in Ids : h > g /\ Fetched(h) => h \in batch'
    BY <1>1, <2>1, <2>2, <2>3 DEF BackfillComplete
  <2>5. \A h \in batch', i \in Ids : h < i => i > g
    BY <1>1, <2>1, <2>3
  <2>6. \A h : Fetched(h)' <=> Fetched(h)
    BY <2>2, StreamKeeps DEF Fetched
  <2>7. BackfillComplete'
    BY <2>1, <2>4, <2>5, <2>6, StreamKeeps DEF BackfillComplete
  <2>8. QED
    BY <2>2, <2>7 DEF CompleteInv
<1>5. CASE BackfillDone
  <2>1. /\ pc = "backfill" /\ batch = {} /\ from > cutoff /\ pc' = "live"
        /\ UNCHANGED <<next, last, alarm>>
    BY <1>5 DEF BackfillDone
  <2>2. BackfillComplete /\ CoveredUpTo(cutoff) /\ ~ LiveOnly
    BY <2>1 DEF OrderInv, CompleteInv, BuildInv
  <2>3. alarm = FALSE => \A g \in Ids : g > last => Block(g) > cutoff
    BY <1>1, <2>1, <2>2 DEF BackfillComplete, Fetched
  <2>4. alarm = FALSE => \A g \in Ids : g > last => next <= g /\ ~ Backfilled(g)
    BY <1>1, <2>2, <2>3 DEF CoveredUpTo, Backfilled
  <2>5. LiveComplete'
    BY <2>1, <2>4, StreamKeeps DEF LiveComplete
  <2>6. QED
    BY <2>1, <2>5 DEF CompleteInv
<1>6. CASE RecvLive
  <2>1. /\ pc' = "live" /\ Readable /\ ~ Backfilled(next) /\ next' = next + 1
        /\ last' = next
    BY <1>6 DEF RecvLive, Readable
  <2>2. next \in Ids
    BY <2>1, RecvOrder
  <2>3. \A g \in Ids : g > next => next + 1 <= g /\ Block(next) <= Block(g)
    BY <1>1, <2>2
  <2>4. \A g \in Ids : g > last' => next' <= g /\ ~ Backfilled(g)
    BY <1>1, <2>1, <2>2, <2>3 DEF Backfilled
  <2>5. LiveComplete'
    BY <2>4, StreamKeeps DEF LiveComplete
  <2>6. QED
    BY <2>1, <2>5 DEF CompleteInv
<1>7. CASE RecvBackfilled
  <2>1. /\ pc' = "live" /\ pc = "live" /\ Backfilled(next) /\ next' = next + 1
        /\ last' = last /\ alarm' = alarm
    BY <1>7 DEF RecvBackfilled, Readable
  <2>2. \A g \in Ids : next' <= g <=> next <= g /\ g # next
    BY <1>1, <2>1
  <2>3. LiveComplete'
    BY <2>1, <2>2, StreamKeeps DEF CompleteInv, LiveComplete
  <2>4. QED
    BY <2>1, <2>3 DEF CompleteInv
<1>8. CASE RecvMalformed \/ RecvLagged
  BY <1>8 DEF RecvMalformed, RecvLagged, Readable, CompleteInv, LiveComplete
<1>9. CASE RecvClosed
  BY <1>9 DEF RecvClosed, CompleteInv
<1>10. QED
  BY <1>2, <1>3, <1>4, <1>5, <1>6, <1>7, <1>8, <1>9 DEF StreamStep, LocalStep

LEMMA CompleteInductive == Spec /\ FetchesSynced => []CompleteInv
<1>1. Init => CompleteInv
  BY DEF Init, InitAnyWs, CompleteInv
<1>2. OrderInv /\ CompleteInv /\ [Next]_vars /\ [SyncedFetch]_vars => CompleteInv'
  <2> SUFFICES ASSUME OrderInv, CompleteInv, [Next]_vars, [SyncedFetch]_vars
               PROVE  CompleteInv'
    OBVIOUS
  <2>1. CASE UNCHANGED vars
    BY <2>1 DEF vars, chainVars, channelVars, headVars, backfillVars, feedVars, CompleteInv,
        BackfillComplete, LiveComplete, Fetched, Backfilled, LiveOnly, Ids, Block
  <2>2. CASE Next /\ SyncedFetch
    BY <2>1, <2>2, EnvironmentComplete, BuildComplete, StreamComplete DEF Next, Finished
  <2>3. QED
    BY <2>1, <2>2
<1>3. QED
  BY <1>1, <1>2, OrderInductive, PTL DEF Spec, FetchesSynced

----------------------------------------------------------------------------
(* The stream is a LogFeed                                                 *)

\* A log is yielded: it is behind the last one and, unless an error item is
\* pending, the next one.
LEMMA Delivers ==
    ASSUME OrderInv, CompleteInv, YieldBackfill \/ RecvLive
    PROVE  /\ pc \in Streaming /\ pc' = pc /\ alarm' = FALSE
           /\ last' > last /\ (alarm = FALSE => last' = last + 1)
<1>1. CASE YieldBackfill
  <2>1. PICK g \in batch : (\A h \in batch : g <= h) /\ last' = g
    BY <1>1 DEF YieldBackfill
  <2>2. pc = "backfill" /\ pc' = "backfill" /\ alarm' = FALSE
    BY <1>1 DEF YieldBackfill
  <2>3. QED
    BY <2>1, <2>2, YieldOrder, YieldNext DEF Streaming
<1>2. CASE RecvLive
  BY <1>2, RecvOrder, RecvNext DEF RecvLive, Readable, Streaming
<1>3. QED
  BY <1>1, <1>2

\* When every chunk is answered by a node that has imported it, the stream
\* begins right behind the cursor, yields the logs in chain order without
\* repetition, and passes none over without an error item first: build,
\* backfill, the switch to the live channel and its overflow included.
THEOREM SyncedStreamIsLogFeed == Spec /\ FetchesSynced => ImplementsLogFeed
<1> USE DEF feedStart, feedPhase, Building, Streaming
<1>1. Init => Feed!Init
  <2> SUFFICES ASSUME Init PROVE Feed!Init
    OBVIOUS
  <2>1. pc = "chainId" /\ last = 0 /\ alarm = FALSE /\ setup \in Setups
    BY DEF Init, InitAnyWs, WithConfig
  <2>2. setup.seen \in Nat
    BY <2>1, SetupFacts
  <2>3. QED
    BY <2>1, <2>2 DEF Feed!Init, Feed!Now
<1>2. OrderInv /\ OrderInv' /\ CompleteInv /\ [Next]_vars => [Feed!Next]_(Feed!feedVars)
  <2> SUFFICES ASSUME OrderInv, OrderInv', CompleteInv, [Next]_vars
               PROVE  [Feed!Next]_(Feed!feedVars)
    OBVIOUS
  <2> USE DEF chainVars, channelVars, headVars, backfillVars, feedVars, Feed!feedVars
  <2>1. setup \in Setups /\ last \in Nat /\ last' \in Nat
    <3>1. setup \in Setups /\ last \in 0..Len(setup.logs)
      BY DEF OrderInv, TypeOK
    <3>2. (setup \in Setups /\ last \in 0..Len(setup.logs))'
      BY DEF OrderInv, TypeOK
    <3>3. Len(setup.logs) \in Nat /\ Len(setup'.logs) \in Nat
      BY <3>1, <3>2, SetupAssumption DEF SetupType
    <3>4. QED
      BY <3>1, <3>2, <3>3
  <2>2. CASE Environment \/ UNCHANGED vars
    BY <2>2 DEF vars, Environment, WsImport, HttpImport, WsClose, PushLog,
        ForeignUnsubscribe, LiveOnly
  <2>3. CASE BuildStep
    <3>1. feedStart' = feedStart /\ alarm' = alarm
      BY <2>3 DEF BuildStep, TimedStep, TransportFailure, GetChainId, SubscribeLogs, SubscribeHeads, RecvHead,
         HeadsEnded, HeadTimeout, Unsubscribe, HttpSynced, SyncTimeout, LiveOnly
    <3>2. CASE SubscribeLogs
      <4>1. CASE LiveOnly
        BY <2>1, <3>1, <3>2, <4>1 DEF SubscribeLogs, Feed!Next, Feed!Open, Feed!Now
      <4>2. CASE ~ LiveOnly
        BY <3>1, <3>2, <4>2 DEF SubscribeLogs
      <4>3. QED
        BY <4>1, <4>2
    <3>3. CASE \E b \in Backends : HttpSynced(b)
      <4>1. ~ LiveOnly
        BY <3>3 DEF HttpSynced, OrderInv, BuildInv
      <4>2. QED
        BY <2>1, <3>1, <3>3, <4>1 DEF HttpSynced, Feed!Next, Feed!Open
    <3>4. CASE TransportFailure \/ SyncTimeout
      BY <3>1, <3>4 DEF TransportFailure, SyncTimeout, Feed!Next, Feed!Close
    <3>5. CASE Unsubscribe
      BY <3>1, <3>5 DEF Unsubscribe, Feed!Next, Feed!Close
    <3>6. CASE GetChainId \/ SubscribeHeads \/ RecvHead \/ HeadsEnded \/ HeadTimeout
      BY <3>1, <3>6 DEF GetChainId, SubscribeHeads, RecvHead, HeadsEnded, HeadTimeout
    <3>7. QED
      BY <2>3, <3>2, <3>3, <3>4, <3>5, <3>6 DEF BuildStep, TimedStep
  <2>4. CASE StreamStep
    <3>1. feedStart' = feedStart
      BY <2>4 DEF StreamStep, LocalStep, FetchChunk, FetchFail, YieldBackfill, BackfillDone, RecvLive,
         RecvBackfilled, RecvMalformed, RecvLagged, RecvClosed, LiveOnly
    <3>2. CASE YieldBackfill \/ RecvLive
      <4>1. /\ feedPhase = "open" /\ feedPhase' = "open" /\ alarm' = FALSE
            /\ last' > last /\ (alarm = FALSE => last' = last + 1)
        BY <3>2, Delivers
      <4>2. QED
        BY <2>1, <3>1, <4>1 DEF Feed!Next, Feed!Deliver
    <3>3. CASE FetchFail \/ RecvMalformed \/ RecvLagged
      BY <3>1, <3>3 DEF FetchFail, Fetching, RecvMalformed, RecvLagged, Readable,
          Feed!Next, Feed!Signal
    <3>4. CASE RecvClosed
      BY <3>1, <3>4 DEF RecvClosed, Feed!Next, Feed!Close
    <3>5. CASE BackfillDone \/ RecvBackfilled \/ \E b \in Backends : FetchChunk(b)
      BY <3>1, <3>5 DEF BackfillDone, RecvBackfilled, FetchChunk, Fetching, Readable
    <3>6. QED
      BY <2>4, <3>2, <3>3, <3>4, <3>5 DEF StreamStep, LocalStep
  <2>5. QED
    BY <2>2, <2>3, <2>4 DEF Next, Finished
<1>3. QED
  BY <1>1, <1>2, OrderInductive, CompleteInductive, PTL DEF Spec, ImplementsLogFeed, Feed!Spec

\* So no log is passed over without an error item: what event_stream_failover
\* shows takes a chunk answered by a node that has not imported it.
THEOREM NoGapWhenSynced == Spec /\ FetchesSynced => NoSilentGap
<1>1. ASSUME OrderInv, CompleteInv, [Next]_vars
      PROVE  last' > last + 1 => pc \notin Streaming \/ alarm
  <2>1. alarm \in BOOLEAN
    BY <1>1 DEF OrderInv, TypeOK
  <2> SUFFICES ASSUME last' > last + 1, pc \in Streaming, alarm = FALSE PROVE FALSE
    BY <2>1
  <2> USE DEF chainVars, channelVars, headVars, backfillVars, feedVars
  <2>2. last \in Nat
    BY <1>1, SetupFacts DEF OrderInv, TypeOK
  <2>3. CASE YieldBackfill \/ RecvLive
    <3>1. last' = last + 1
      BY <1>1, <2>3, Delivers
    <3>2. QED
      BY <2>2, <3>1
  <2>4. CASE ~ (YieldBackfill \/ RecvLive)
    <3>1. last' = last
      BY <1>1, <2>4
         DEF Next, Environment, WsImport, HttpImport, WsClose, PushLog, ForeignUnsubscribe,
             BuildStep, TimedStep, TransportFailure, GetChainId, SubscribeLogs, SubscribeHeads, RecvHead,
             HeadsEnded, HeadTimeout, Unsubscribe, HttpSynced, SyncTimeout, StreamStep, LocalStep,
             FetchChunk, FetchFail, BackfillDone, RecvBackfilled, RecvMalformed, RecvLagged,
             RecvClosed, Finished, vars, Streaming, Building
    <3>2. QED
      BY <1>1, <2>2, <3>1
  <2>5. QED
    BY <2>3, <2>4
<1>2. QED
  BY <1>1, OrderInductive, CompleteInductive, PTL DEF Spec, NoSilentGap

\* One HTTP node is such a node once block_until_cutoff has seen it at the
\* cutoff: its chain only grows, and no chunk goes past the cutoff.
LEMMA OneNodeIsSynced == ASSUME OneNode PROVE Spec => FetchesSynced
<1> DEFINE Reached == pc = "backfill" => \A b \in Backends : cutoff <= httpHead[b]
<1>1. Init => Reached
  BY DEF Init, InitAnyWs
<1>2. OrderInv /\ Reached /\ [Next]_vars => Reached'
  <2> SUFFICES ASSUME OrderInv, Reached, [Next]_vars PROVE Reached'
    OBVIOUS
  <2> USE DEF chainVars, channelVars, headVars, backfillVars, feedVars
  <2>1. cutoff \in Nat /\ httpHead \in [Backends -> Nat]
    BY ParamAssumption DEF OrderInv, TypeOK
  <2>2. CASE \E b \in Backends : HttpImport(b)
    BY <2>1, <2>2 DEF HttpImport
  <2>3. CASE \E b \in Backends : HttpSynced(b)
    BY <2>1, <2>3 DEF HttpSynced, ReachedCutoff, OneNode
  <2>4. CASE UNCHANGED <<pc, cutoff, httpHead>> \/ pc' # "backfill"
    BY <2>4
  <2>5. CASE StreamStep
    BY <2>5, StreamKeeps
       DEF StreamStep, LocalStep, FetchChunk, FetchFail, Fetching, YieldBackfill, BackfillDone, RecvLive,
           RecvBackfilled, RecvMalformed, RecvLagged, RecvClosed, Readable
  <2>6. QED
    BY <2>2, <2>3, <2>4, <2>5
       DEF Next, Environment, WsImport, WsClose, PushLog, ForeignUnsubscribe, BuildStep, TimedStep,
           TransportFailure, GetChainId, SubscribeLogs, SubscribeHeads, RecvHead, HeadsEnded,
           HeadTimeout, Unsubscribe, SyncTimeout, Finished, vars
<1>3. OrderInv /\ Reached => SyncedFetch
  <2> SUFFICES ASSUME OrderInv, Reached, NEW b \in Backends, FetchChunk(b)
               PROVE  ChunkEnd <= httpHead[b]
    BY DEF SyncedFetch
  <2>1. ChunkEnd \in Int /\ cutoff \in Nat /\ httpHead[b] \in Nat
    BY ChunkIs, ParamAssumption DEF OrderInv, TypeOK
  <2>2. ChunkEnd <= cutoff
    BY <2>1 DEF ChunkEnd
  <2>3. QED
    BY <2>1, <2>2 DEF FetchChunk, Fetching
<1>4. QED
  BY <1>1, <1>2, <1>3, OrderInductive, PTL DEF Spec, FetchesSynced

\* With one HTTP node behind the provider the stream is a LogFeed.
THEOREM StreamIsLogFeed == ASSUME OneNode PROVE Spec => ImplementsLogFeed
<1>1. QED
  BY OneNodeIsSynced, SyncedStreamIsLogFeed, PTL
=============================================================================
