----------------------------- MODULE ChainViews -----------------------------
(***************************************************************************)
(* The chain as the nodes behind an `HttpRpcProvider` show it.  A node has *)
(* imported the blocks up to its own view, at most MaxLag blocks behind    *)
(* the head, and any node may answer a call: those of several `http_urls`  *)
(* race, those behind one load balancer take turns.                        *)
(***************************************************************************)
EXTENDS Integers

CONSTANTS
    Backends,   \* the nodes that answer calls
    MaxHead,    \* bound of the model: the last block of the chain
    MaxLag      \* how many blocks a node may be behind the head

ASSUME BackendsAssumption == Backends # {}
ASSUME HeadAssumption == MaxHead \in Nat /\ MaxLag \in Nat

VARIABLES
    head,   \* the latest block of the chain
    view    \* the latest block each node has imported

Blocks == 0..MaxHead

ViewsOK ==
    /\ head \in Blocks
    /\ view \in [Backends -> Blocks]
    /\ \A b \in Backends : view[b] <= head /\ head <= view[b] + MaxLag

ViewsInit ==
    /\ head = 0
    /\ view = [b \in Backends |-> 0]

\* A block is added; no node falls behind further than MaxLag.
Grow ==
    /\ head < MaxHead
    /\ \A b \in Backends : head < view[b] + MaxLag
    /\ head' = head + 1
    /\ UNCHANGED view

ImportBlock(b) ==
    /\ view[b] < head
    /\ view' = [view EXCEPT ![b] = @ + 1]
    /\ UNCHANGED head
=============================================================================
