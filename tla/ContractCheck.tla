--------------------------- MODULE ContractCheck ---------------------------
(***************************************************************************)
(* A deployment through one `HttpRpcProvider`: the caller waits for the    *)
(* receipt of the transaction that creates a contract (Receipt) and then   *)
(* checks the contract with a call of erc165.rs (Erc165).  The contract    *)
(* may be upgraded, behind its proxy, in any later block.                  *)
(*                                                                         *)
(* The check is one request of the transport stack: the first node that    *)
(* does not answer with an error decides, and an error reaches the caller  *)
(* when all nodes have failed, as the last of them.  An error response is  *)
(* what a revert is, and also what a node answers that limits its callers  *)
(* or has trouble of its own; the check cannot tell them apart.  A try of  *)
(* RpcTransport's loops that is repeated is not told apart.                *)
(***************************************************************************)
EXTENDS Receipt, Erc165, Sequences

CONSTANTS
    Codes,      \* bound of the model: the contracts deployed
    Interfaces  \* bound of the model: the selector sequences asked for

ASSUME CodesAssumption == Codes \subseteq Contracts

ASSUME InterfacesAssumption == Interfaces \subseteq Seq(Ids)

VARIABLES
    code,       \* the contract at the address in each block
    multicall,  \* Multicall3 is deployed on the chain, chosen with the check
    check,      \* "none" or one of Checks
    selectors,  \* the interface the check asks for
    failed,     \* the error of each node, "none" before
    verdict     \* what the check returned, "pending" before

checkVars == <<multicall, check, selectors, failed, verdict>>
vars == <<receiptVars, code, checkVars>>

\* What is left of `RpcError`: its variant `Transport`, and every other one.
Errors == {"errorResp", "transport"}
Verdicts == {"Ok", "NotAContract", "Unsupported", "TransportError"}

TypeOK ==
    /\ ReceiptOK
    /\ code \in [Blocks -> Contracts]
    /\ multicall \in BOOLEAN
    /\ check \in Checks \cup {"none"}
    /\ selectors \in Interfaces \cup {<<>>}
    /\ failed \in [Backends -> Errors \cup {"none"}]
    /\ verdict \in Verdicts \cup {"pending"}

Init ==
    /\ ReceiptInit
    /\ code = [h \in Blocks |-> NoCode]
    /\ multicall = FALSE
    /\ check = "none"
    /\ selectors = <<>>
    /\ failed = [b \in Backends |-> "none"]
    /\ verdict = "pending"

----------------------------------------------------------------------------
(* The chain, which is of no interest once the check has returned          *)

Deploy ==
    /\ verdict = "pending"
    /\ Mine
    /\ \E c \in Codes : code' = [code EXCEPT ![head + 1] = c]
    /\ UNCHANGED checkVars

\* A block without the transaction; at most once it upgrades the contract.
Extend ==
    /\ verdict = "pending"
    /\ GrowWithout
    /\ \/ code' = [code EXCEPT ![head + 1] = code[head]]
       \/ /\ mined > 0
          /\ code[head] = code[mined]
          /\ \E c \in Codes : code' = [code EXCEPT ![head + 1] = c]
    /\ UNCHANGED checkVars

ImportView(b) ==
    /\ verdict = "pending"
    /\ Import(b)
    /\ UNCHANGED <<code, checkVars>>

----------------------------------------------------------------------------
(* The caller                                                              *)

PollReceipt == Poll /\ UNCHANGED <<code, checkVars>>

\* The check begins when the call for the receipt has returned.
StartCheck ==
    /\ receipt # "pending"
    /\ check = "none"
    /\ check' \in Checks
    /\ IF check' = "ensure_erc165_conform" THEN selectors' = <<>> ELSE selectors' \in Interfaces
    /\ IF check' = Unchecked THEN multicall' = FALSE ELSE multicall' \in BOOLEAN
    /\ UNCHANGED <<receiptVars, code, failed, verdict>>

\* Mutant: the queries are no batch, the last one is answered by a node
\* that is up to date.
QueriedEach(b, id) == IF id = INVALID_INTERFACE_SELECTOR THEN code[head] ELSE code[view[b]]

\* Node b answers all queries of a request at its own view.
Queried(b, id) == code[view[b]]

Answers(b) == [id \in Queries(check, selectors) |-> Queried(b, id)[id]]

Answer(b) == Response(check, {Answers(b)[id] : id \in Queries(check, selectors)}, multicall)

Asked(b) == check # "none" /\ verdict = "pending" /\ failed[b] = "none"

\* A node that does not fail wins the race.
Decide(b) ==
    /\ Asked(b)
    /\ Answer(b) # "errorResp"
    /\ verdict' = IF Answer(b) = "booleans"
                  THEN Judge(check, selectors, Answers(b))
                  ELSE ConfirmError(check, Answer(b))
    /\ UNCHANGED <<receiptVars, code, multicall, check, selectors, failed>>

\* Node b cannot be reached, or answers with an error response, whatever the
\* contract would say; the error of the last node is the error of the call.
Fail(b, error) ==
    /\ Asked(b)
    /\ failed' = [failed EXCEPT ![b] = error]
    /\ verdict' = IF \A c \in Backends \ {b} : failed[c] # "none"
                  THEN ConfirmError(check, error)
                  ELSE verdict
    /\ UNCHANGED <<receiptVars, code, multicall, check, selectors>>

----------------------------------------------------------------------------
Finished == verdict # "pending" /\ UNCHANGED vars

Respond(b) == Decide(b) \/ \E error \in Errors : Fail(b, error)

Next ==
    \/ Deploy
    \/ Extend
    \/ \E b \in Backends : ImportView(b)
    \/ PollReceipt
    \/ StartCheck
    \/ \E b \in Backends : Decide(b)
    \/ \E b \in Backends, error \in Errors : Fail(b, error)
    \/ Finished

Spec == Init /\ [][Next]_vars

\* The chain grows, nodes import and answer, or the transport fails for
\* them (RpcTransport's RequestResolves), and the caller's task is polled.
FairSpec ==
    /\ Spec
    /\ WF_vars(Deploy \/ Extend)
    /\ WF_vars(PollReceipt)
    /\ WF_vars(StartCheck)
    /\ \A b \in Backends : WF_vars(ImportView(b)) /\ WF_vars(Respond(b))

----------------------------------------------------------------------------
(* Properties                                                              *)

\* Conformance is claimed only for a contract that EIP-165's procedure
\* accepts in one block: queries are never mixed across an upgrade.
OkIsOneBlock ==
    verdict = "Ok" => \E h \in 0..head : Implements(check, selectors, code[h])

\* No node has answered the check with a result.
NoneAnswered == \A b \in Backends : failed[b] # "none"

\* A contract that EIP-165's procedure accepts in every block with code is
\* refused only when no node has answered, and then for an error response:
\* one node that answers is enough against a false refusal, and an outage
\* of the transport alone is never taken for one, nor a refusal for it.
RefusalHasReason ==
    /\ verdict = "Unsupported" =>
           \/ \E h \in 0..head : code[h] # NoCode /\ ~ Implements(check, selectors, code[h])
           \/ NoneAnswered /\ \E b \in Backends : failed[b] = "errorResp"
    /\ verdict = "TransportError" =>
           NoneAnswered /\ \E b \in Backends : failed[b] = "transport"

\* After the receipt, with more confirmations than the lag of the nodes, a
\* contract that answers every query is never taken for a missing one.
DeployedIsFound ==
    /\ receipt = "found"
    /\ confirmations > MaxLag
    /\ check = Unchecked \/ multicall
    /\ \A h \in mined..head : \A id \in Ids : code[h][id] \in {"true", "false", "revert"}
    => verdict # "NotAContract"

\* The call for the receipt returns, and so does the check after it.
CallsReturn == <>(verdict # "pending")
=============================================================================
