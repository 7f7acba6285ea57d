------------------------------ MODULE TxSender ------------------------------
(***************************************************************************)
(* `TxSender` (web3/tx_sender.rs): callers submit transactions to a        *)
(* bounded queue, one background task broadcasts them one at a time and    *)
(* answers each caller over a oneshot channel.  All transactions are sent  *)
(* from one account that nobody else uses.                                 *)
(*                                                                         *)
(* The queue is a tokio channel: a semaphore hands its permits to waiting  *)
(* senders in order of arrival, a sender that holds a permit pushes when   *)
(* its task is polled, and the permit comes back when the job is received. *)
(* A job's position in the queue is the number of its push ("turn").       *)
(*                                                                         *)
(* The provider is the one of HttpRpcProviderBuilder: the nonce is the     *)
(* node's pending transaction count, asked for per transaction.  A request *)
(* that is on the wire may still arrive after its sender has given up.     *)
(***************************************************************************)
EXTENDS Integers, FiniteSets

CONSTANTS
    Jobs,       \* the transactions that are submitted, each once
    QueueSize   \* `queue_size`

ASSUME QueueSizeAssumption == QueueSize \in Nat \ {0}

\* No job is being broadcast.
NoJob == "no job"
ASSUME NoJobAssumption == NoJob \notin Jobs

VARIABLES
    handles,    \* some TxSender handle is alive
    cancelled,  \* the cancellation token
    task,       \* where the background task stands
    current,    \* the job it is broadcasting
    permits,    \* free permits of the channel's semaphore
    arrivals,   \* how many senders have asked for a permit
    arrival,    \* when each of them asked
    place,      \* where each job is
    result,     \* what the caller of `submit` got
    pushed,     \* how many jobs have been pushed into the queue
    turn,       \* the push that queued the job, 0 before
    taken,      \* how many jobs the task has received
    nonce,      \* the nonce the job was filled with, -1 before
    wire,       \* transactions on their way to the node
    count,      \* the account's pending transaction count at the node
    landed      \* the count at which the node accepted the job, 0 if it did not

queueVars == <<permits, arrivals, arrival, pushed, turn, taken>>
nodeVars == <<wire, count, landed>>
vars == <<handles, cancelled, task, current, place, result, nonce, queueVars, nodeVars>>

Places == {"none", "waiting", "granted", "queued", "broadcast", "over"}
Errors == {"contract", "timeout", "stopped"}
Results == {"none", "pending", "ok", "abandoned"} \cup Errors
Broadcasting == {"fill", "send"}
Stopped == {"stopped", "aborted"}

TypeOK ==
    /\ handles \in BOOLEAN
    /\ cancelled \in BOOLEAN
    /\ task \in {"select"} \cup Broadcasting \cup Stopped
    /\ current \in IF task \in Broadcasting THEN Jobs ELSE {NoJob}
    /\ permits \in Nat
    /\ arrivals \in Nat
    /\ arrival \in [Jobs -> Nat]
    /\ place \in [Jobs -> Places]
    /\ result \in [Jobs -> Results]
    /\ pushed \in Nat
    /\ turn \in [Jobs -> 0..pushed]
    /\ taken \in 0..pushed
    /\ nonce \in [Jobs -> Nat \cup {-1}]
    /\ wire \subseteq Jobs
    /\ count \in Nat
    /\ landed \in [Jobs -> 0..count]

Init ==
    /\ handles = TRUE
    /\ cancelled = FALSE
    /\ task = "select"
    /\ current = NoJob
    /\ permits = QueueSize
    /\ arrivals = 0
    /\ arrival = [j \in Jobs |-> 0]
    /\ place = [j \in Jobs |-> "none"]
    /\ result = [j \in Jobs |-> "none"]
    /\ pushed = 0
    /\ turn = [j \in Jobs |-> 0]
    /\ taken = 0
    /\ nonce = [j \in Jobs |-> -1]
    /\ wire = {}
    /\ count = 0
    /\ landed = [j \in Jobs |-> 0]

----------------------------------------------------------------------------
(* Callers                                                                 *)

\* `submit` asks for a permit; on a stopped task the channel is closed.
Submit(j) ==
    /\ handles
    /\ result[j] = "none"
    /\ IF task \in Stopped
       THEN /\ result' = [result EXCEPT ![j] = "stopped"]
            /\ UNCHANGED <<place, arrivals, arrival>>
       ELSE /\ result' = [result EXCEPT ![j] = "pending"]
            /\ place' = [place EXCEPT ![j] = "waiting"]
            /\ arrivals' = arrivals + 1
            /\ arrival' = [arrival EXCEPT ![j] = arrivals + 1]
    /\ UNCHANGED <<handles, cancelled, task, current, permits, pushed, turn, taken,
                   nonce, nodeVars>>

\* Mutant: a sender does not wait for a free permit.
GrantUnbounded(j) ==
    /\ place[j] = "waiting"
    /\ permits' = permits - 1
    /\ place' = [place EXCEPT ![j] = "granted"]
    /\ UNCHANGED <<handles, cancelled, task, current, result, arrivals, arrival,
                   pushed, turn, taken, nonce, nodeVars>>

\* The semaphore serves the senders in order of arrival.
Grant(j) ==
    /\ place[j] = "waiting"
    /\ permits > 0
    /\ \A i \in Jobs : place[i] = "waiting" => arrival[j] <= arrival[i]
    /\ permits' = permits - 1
    /\ place' = [place EXCEPT ![j] = "granted"]
    /\ UNCHANGED <<handles, cancelled, task, current, result, arrivals, arrival,
                   pushed, turn, taken, nonce, nodeVars>>

\* The sender's task is polled and pushes the job.
Push(j) ==
    /\ place[j] = "granted"
    /\ pushed' = pushed + 1
    /\ turn' = [turn EXCEPT ![j] = pushed + 1]
    /\ place' = [place EXCEPT ![j] = "queued"]
    /\ UNCHANGED <<handles, cancelled, task, current, result, permits, arrivals,
                   arrival, taken, nonce, nodeVars>>

\* Mutant: the permit of a sender that gives up is lost.
AbandonLeaking(j) ==
    /\ result[j] = "pending"
    /\ result' = [result EXCEPT ![j] = "abandoned"]
    /\ place' = IF place[j] \in {"waiting", "granted"}
                THEN [place EXCEPT ![j] = "over"] ELSE place
    /\ UNCHANGED <<handles, cancelled, task, current, queueVars, nonce, nodeVars>>

\* The caller drops the `submit` future.  A job that is already queued, or
\* being broadcast, goes on; a permit not used yet goes back.
Abandon(j) ==
    /\ result[j] = "pending"
    /\ result' = [result EXCEPT ![j] = "abandoned"]
    /\ permits' = IF place[j] = "granted" THEN permits + 1 ELSE permits
    /\ place' = IF place[j] \in {"waiting", "granted"}
                THEN [place EXCEPT ![j] = "over"] ELSE place
    /\ UNCHANGED <<handles, cancelled, task, current, arrivals, arrival, pushed,
                   turn, taken, nonce, nodeVars>>

\* The last handle is dropped; `submit` borrows one while it runs.
DropHandles ==
    /\ handles
    /\ \A j \in Jobs : result[j] # "pending"
    /\ handles' = FALSE
    /\ UNCHANGED <<cancelled, task, current, place, result, nonce, queueVars, nodeVars>>

\* Whoever shares the cancellation token cancels it.
Cancel ==
    /\ ~ cancelled
    /\ cancelled' = TRUE
    /\ UNCHANGED <<handles, task, current, place, result, nonce, queueVars, nodeVars>>

----------------------------------------------------------------------------
(* The background task                                                     *)

\* Mutant: the queue is not first in, first out.
TakeAnyJob(j) ==
    /\ task = "select"
    /\ place[j] = "queued"
    /\ taken' = taken + 1
    /\ permits' = permits + 1
    /\ place' = [place EXCEPT ![j] = "broadcast"]
    /\ current' = j
    /\ task' = "fill"
    /\ UNCHANGED <<handles, cancelled, result, arrivals, arrival, pushed, turn,
                   nonce, nodeVars>>

\* The `recv` branch of the select, which tokio picks at random when the
\* cancellation is ready too.
TakeJob(j) ==
    /\ task = "select"
    /\ place[j] = "queued"
    /\ turn[j] = taken + 1
    /\ taken' = taken + 1
    /\ permits' = permits + 1
    /\ place' = [place EXCEPT ![j] = "broadcast"]
    /\ current' = j
    /\ task' = "fill"
    /\ UNCHANGED <<handles, cancelled, result, arrivals, arrival, pushed, turn,
                   nonce, nodeVars>>

\* `send_transaction` fills the nonce ...
FillNonce ==
    /\ task = "fill"
    /\ nonce' = [nonce EXCEPT ![current] = count]
    /\ task' = "send"
    /\ UNCHANGED <<handles, cancelled, current, place, result, queueVars, nodeVars>>

\* ... and sends the signed transaction, again when the transport retries;
\* the node refuses a copy of one it has (ReplyError).
SendRaw ==
    /\ task = "send"
    /\ landed[current] = 0
    /\ wire' = wire \cup {current}
    /\ UNCHANGED <<handles, cancelled, task, current, place, result, nonce,
                   queueVars, count, landed>>

\* The result goes to the caller, if it still listens, and the loop goes on.
Reply(r) ==
    /\ result' = [result EXCEPT ![current] = IF @ = "pending" THEN r ELSE @]
    /\ place' = [place EXCEPT ![current] = "over"]
    /\ current' = NoJob
    /\ task' = "select"
    /\ UNCHANGED <<handles, cancelled, nonce, queueVars, nodeVars>>

\* Mutant: the caller is answered as soon as the request is out.
ReplyOkOnSend ==
    /\ task = "send"
    /\ current \in wire
    /\ Reply("ok")

\* The node has accepted the transaction and its answer arrives.
ReplyOk ==
    /\ task = "send"
    /\ landed[current] > 0
    /\ Reply("ok")

\* Filling or sending fails: the node refuses, or no transport answers.
ReplyError ==
    /\ task \in Broadcasting
    /\ Reply("contract")

\* Mutant: the timeout does not cover the filling of the request.
ReplyTimeoutOnSend ==
    /\ task = "send"
    /\ Reply("timeout")

\* `send_timeout` elapses at any point of the broadcast.
ReplyTimeout ==
    /\ task \in Broadcasting
    /\ Reply("timeout")

\* The receiver is dropped, and with it the jobs in the channel, the reply
\* senders they hold and the drop guard of the token.
Stop(how, dropped) ==
    /\ task' = how
    /\ cancelled' = TRUE
    /\ result' = [j \in Jobs |-> IF place[j] \in dropped /\ result[j] = "pending"
                                 THEN "stopped" ELSE result[j]]
    /\ place' = [j \in Jobs |-> IF place[j] \in dropped THEN "over" ELSE place[j]]
    /\ current' = NoJob
    /\ UNCHANGED <<handles, nonce, queueVars, nodeVars>>

\* Mutant: the cancellation is looked at once no handle is left.
StopOnCancelUnused ==
    /\ task = "select"
    /\ cancelled
    /\ ~ handles
    /\ Stop("stopped", {"waiting", "granted", "queued"})

StopOnCancel ==
    /\ task = "select"
    /\ cancelled
    /\ Stop("stopped", {"waiting", "granted", "queued"})

\* Mutant: the task ends with the last handle, whatever is still queued.
StopOnClosedEarly ==
    /\ task = "select"
    /\ ~ handles
    /\ Stop("stopped", {"waiting", "granted", "queued"})

\* `recv` returns None: no handle is left and the queue is drained.
StopOnClosed ==
    /\ task = "select"
    /\ ~ handles
    /\ taken = pushed
    /\ Stop("stopped", {"waiting", "granted", "queued"})

\* The task is aborted through its JoinHandle, or the runtime goes down.
Abort ==
    /\ task \notin Stopped
    /\ Stop("aborted", {"waiting", "granted", "queued", "broadcast"})

----------------------------------------------------------------------------
(* The node                                                                *)

\* It accepts the next transaction of the account ...
Land(j) ==
    /\ j \in wire
    /\ nonce[j] = count
    /\ count' = count + 1
    /\ landed' = [landed EXCEPT ![j] = count + 1]
    /\ wire' = wire \ {j}
    /\ UNCHANGED <<handles, cancelled, task, current, place, result, nonce, queueVars>>

\* ... refuses one whose nonce is taken, and never sees one that got lost.
Lose(j) ==
    /\ j \in wire
    /\ wire' = wire \ {j}
    /\ UNCHANGED <<handles, cancelled, task, current, place, result, nonce,
                   queueVars, count, landed>>

----------------------------------------------------------------------------
Finished ==
    /\ task \in Stopped
    /\ \A j \in Jobs : result[j] # "pending"
    /\ UNCHANGED vars

CallerStep ==
    \/ \E j \in Jobs : Submit(j)
    \/ \E j \in Jobs : Grant(j)
    \/ \E j \in Jobs : Push(j)
    \/ \E j \in Jobs : Abandon(j)
    \/ DropHandles
    \/ Cancel

TaskStep ==
    \/ \E j \in Jobs : TakeJob(j)
    \/ FillNonce
    \/ SendRaw
    \/ ReplyOk
    \/ ReplyError
    \/ ReplyTimeout
    \/ StopOnCancel
    \/ StopOnClosed
    \/ Abort

NodeStep ==
    \/ \E j \in Jobs : Land(j)
    \/ \E j \in Jobs : Lose(j)

Next == CallerStep \/ TaskStep \/ NodeStep \/ Finished

Spec == Init /\ [][Next]_vars

\* The runtime polls the task and the senders that hold a permit, and timers
\* fire.  Nothing is assumed of the node: it may never answer.
FairSpec ==
    /\ Spec
    /\ WF_vars(\E j \in Jobs : Grant(j))
    /\ WF_vars(\E j \in Jobs : Push(j))
    /\ WF_vars(\E j \in Jobs : TakeJob(j))
    /\ WF_vars(ReplyTimeout)
    /\ WF_vars(StopOnCancel)
    /\ WF_vars(StopOnClosed)

----------------------------------------------------------------------------
(* Properties                                                              *)

\* The node accepts the transactions in the order in which they were
\* queued, each once, also when a timed out broadcast arrives late.
LandedInOrder ==
    \A i, j \in Jobs :
        landed[i] > 0 /\ landed[j] > 0 /\ i # j =>
            /\ landed[i] # landed[j]
            /\ landed[i] < landed[j] <=> turn[i] < turn[j]

\* A caller that is told "ok" has its transaction at the node; one that is
\* told `TaskStopped` never had it sent, unless the task was aborted.
ReplyTruthful ==
    \A j \in Jobs :
        /\ result[j] = "ok" => landed[j] > 0
        /\ result[j] = "stopped" /\ task # "aborted" =>
               nonce[j] = -1 /\ j \notin wire /\ landed[j] = 0

\* The queue holds at most `queue_size` jobs, and every permit is free, held
\* by a sender or in the queue: none leaks when callers give up.
PermitsConserved ==
    task \notin Stopped =>
        permits + Cardinality({j \in Jobs : place[j] \in {"granted", "queued"}}) = QueueSize

\* Every `submit` returns: a node that never answers costs the job its
\* timeout and does not wedge the queue, and a stop answers everyone.
SubmitsResolve == \A j \in Jobs : result[j] = "pending" ~> result[j] # "pending"

\* A task that nobody cancels stops only when every job that was ever queued
\* has been through its broadcast: neither the callers that gave up nor the
\* last handle that was dropped take a queued job with them.
QueueDrained ==
    [][~ cancelled /\ task = "select" /\ task' = "stopped" =>
           \A j \in Jobs : turn[j] > 0 => place[j] = "over"]_vars

\* A cancelled token stops the task, after the broadcast it may be in.
CancelStops == cancelled ~> task \in Stopped

----------------------------------------------------------------------------
(* What the documentation says and the code does not do.                   *)

\* "any request still queued at that point is dropped without being sent"
\* (tx_sender.rs:90-91): after the cancellation no job is taken.
CancelDropsQueue == [][cancelled => taken' = taken]_vars

\* "so nonce assignment for a shared account never races"
\* (tx_sender.rs:3-4): no two transactions on the wire carry one nonce.
NoncesDoNotRace == \A i, j \in wire : nonce[i] = nonce[j] => i = j
=============================================================================
