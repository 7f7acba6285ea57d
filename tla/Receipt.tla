------------------------------ MODULE Receipt ------------------------------
(***************************************************************************)
(* `get_receipt_with_retry` of web3.rs on nodes with different views.  A   *)
(* try is alloy's `get_receipt`: it watches until a node shows the         *)
(* transaction with the required confirmations, asks once more for the     *)
(* receipt, and fails when the node that answers does not have it.  The    *)
(* first try is followed at once by the first poll; between polls the      *)
(* backoff sleeps.                                                         *)
(*                                                                         *)
(* A delay of the backoff is long enough for every node that is behind to  *)
(* import a block (the default is two seconds).                            *)
(***************************************************************************)
EXTENDS ChainViews

CONSTANTS
    MaxConfirmations,   \* bound of the model: confirmations asked for
    MaxTimes            \* the delays that the given backoff builder yields

ASSUME ReceiptAssumption ==
    /\ MaxConfirmations \in 1..MaxHead
    /\ MaxTimes \in Nat

VARIABLES
    confirmations,  \* `required_confirmations` in the configuration
    mined,          \* the block of the transaction, 0 before
    pc,             \* "watching" | "fetching" | "sleeping" | "returned"
    tries,          \* the tries started, the last of them being made
    due,            \* the nodes that have yet to import in this delay
    nulls,          \* the tries that ended without a receipt
    receipt         \* "pending" | "found" | "error"

receiptVars == <<head, view, confirmations, mined, pc, tries, due, nulls, receipt>>

\* The first try, the first poll, and one poll after every delay.
Tries == 1..(MaxTimes + 2)

ReceiptOK ==
    /\ ViewsOK
    /\ confirmations \in 1..MaxConfirmations
    /\ mined \in 0..head
    /\ pc \in {"watching", "fetching", "sleeping", "returned"}
    /\ tries \in Tries
    /\ due \subseteq Backends
    /\ nulls \subseteq Tries
    /\ receipt \in {"pending", "found", "error"}

ReceiptInit ==
    /\ ViewsInit
    /\ confirmations \in 1..MaxConfirmations
    /\ mined = 0
    /\ pc = "watching"
    /\ tries = 1
    /\ due = {}
    /\ nulls = {}
    /\ receipt = "pending"

----------------------------------------------------------------------------
(* The chain.  The transaction is mined while it can still get its         *)
(* confirmations on the bounded chain.                                     *)

LastChance == MaxHead + 1 - confirmations

Mine ==
    /\ mined = 0
    /\ head < LastChance
    /\ Grow
    /\ mined' = head + 1
    /\ UNCHANGED <<confirmations, pc, tries, due, nulls, receipt>>

GrowWithout ==
    /\ mined = 0 => head + 1 < LastChance
    /\ Grow
    /\ UNCHANGED <<confirmations, mined, pc, tries, due, nulls, receipt>>

Import(b) ==
    /\ ImportBlock(b)
    /\ due' = due \ {b}
    /\ UNCHANGED <<confirmations, mined, pc, tries, nulls, receipt>>

----------------------------------------------------------------------------
(* A try                                                                   *)

\* Mutant: the fresh builder of a poll forgets the configuration.
RequiredFirst(try) == IF try = 1 THEN confirmations ELSE 1

\* Every try waits for the confirmations of the caller's configuration.
Required(try) == confirmations

\* Node b shows the transaction with the confirmations required.
Confirm(b) ==
    /\ pc = "watching"
    /\ mined > 0
    /\ view[b] >= mined + Required(tries) - 1
    /\ pc' = "fetching"
    /\ UNCHANGED <<head, view, confirmations, mined, tries, due, nulls, receipt>>

\* Mutant: the backoff yields a delay less.
MorePollsLess == tries < MaxTimes + 1

\* Mutant: the backoff yields a delay more.
MorePollsMore == tries < MaxTimes + 3

\* The backoff has a delay left for another poll.
MorePolls == tries < MaxTimes + 2

\* A failed first try is followed by a poll, a failed poll by a delay; with
\* no delay left its error is returned.
TryFails ==
    \/ /\ tries = 1
       /\ tries' = 2
       /\ pc' = "watching"
       /\ UNCHANGED <<due, receipt>>
    \/ /\ tries > 1
       /\ MorePolls
       /\ pc' = "sleeping"
       /\ due' = {b \in Backends : view[b] < head}
       /\ UNCHANGED <<tries, receipt>>
    \/ /\ tries > 1
       /\ ~ MorePolls
       /\ pc' = "returned"
       /\ receipt' = "error"
       /\ UNCHANGED <<tries, due>>

\* The call for the receipt is answered by a node that has it.
Fetch(b) ==
    /\ pc = "fetching"
    /\ view[b] >= mined
    /\ pc' = "returned"
    /\ receipt' = "found"
    /\ UNCHANGED <<head, view, confirmations, mined, tries, due, nulls>>

\* It is answered by a node that has not reached the block.
FetchNull(b) ==
    /\ pc = "fetching"
    /\ view[b] < mined
    /\ nulls' = nulls \cup {tries}
    /\ TryFails
    /\ UNCHANGED <<head, view, confirmations, mined>>

\* The transport fails, or the watcher's own timeout ends the try.
Break ==
    /\ pc \in {"watching", "fetching"}
    /\ TryFails
    /\ UNCHANGED <<head, view, confirmations, mined, nulls>>

\* Mutant: every poll starts with a new backoff.
WakeUncounted ==
    /\ pc = "sleeping"
    /\ due = {}
    /\ pc' = "watching"
    /\ UNCHANGED <<head, view, confirmations, mined, tries, due, nulls, receipt>>

\* The delay has passed and the next poll begins.
Wake ==
    /\ pc = "sleeping"
    /\ due = {}
    /\ tries' = tries + 1
    /\ pc' = "watching"
    /\ UNCHANGED <<head, view, confirmations, mined, due, nulls, receipt>>

Poll == (\E b \in Backends : Confirm(b) \/ Fetch(b) \/ FetchNull(b)) \/ Break \/ Wake

----------------------------------------------------------------------------
(* Properties                                                              *)

\* A receipt is returned only for a transaction that has the confirmations
\* the caller asked for, whichever of the tries found it.
ReceiptIsConfirmed ==
    receipt = "found" =>
        mined > 0 /\ \E b \in Backends : view[b] >= mined + confirmations - 1

\* The delays that make up for the lag left after the confirmations.
Needed == MaxLag + 1 - confirmations

\* Nodes that are behind do not fail the call by themselves: when a missing
\* receipt is the error returned, other failures had already used up so
\* many tries that fewer delays than needed were left (web3.rs:603-607).
LagIsCovered ==
    receipt = "error" /\ tries \in nulls /\ MaxTimes >= Needed =>
        \A n \in nulls : n > MaxTimes + 2 - Needed
=============================================================================
