--------------------------- MODULE MCEventStream ---------------------------
(***************************************************************************)
(* EventStream on small chains.  The chain of MCLogs has a block without   *)
(* logs, one with two, and blocks on both sides of the boundaries of       *)
(* chunks of two or three blocks; the cursors stand at genesis, between    *)
(* the logs of a block, and behind a block.                                *)
(***************************************************************************)
EXTENDS EventStream

At(b, i) == [block |-> b, index |-> i]

MCLogs == <<At(1, 0), At(2, 0), At(2, 1), At(4, 0), At(5, 0)>>

\* The number of logs at or before cursor c.
SeenAt(logs, c) ==
    CHOOSE k \in 0..Len(logs) : \A g \in DOMAIN logs : g <= k <=> ~ IsBefore(c, logs[g])

Case(logs, c, skip, anvil) ==
    [logs |-> logs, cursor |-> c, seen |-> SeenAt(logs, c), skip |-> skip, anvil |-> anvil]

\* Resuming between two logs of block 2, and from genesis on Anvil.
MCResume == {Case(MCLogs, At(2, 0), "No", FALSE), Case(MCLogs, At(0, 0), "No", TRUE)}

\* Live only: genesis on a public chain, and backfill skipped.
MCLive == {Case(MCLogs, At(0, 0), "No", FALSE), Case(MCLogs, At(2, 1), "Yes", FALSE)}

MCSetups == MCResume \cup MCLive

\* A cursor near the end of the chain, for the runs about a lagging node.
MCAhead == {Case(MCLogs, At(4, 0), "No", FALSE)}
=============================================================================
