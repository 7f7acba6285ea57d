---------------------------- MODULE RpcTransport ----------------------------
(***************************************************************************)
(* One request through the transport stack of `HttpRpcProvider`            *)
(* (`build_transport_stack` in web3.rs): every endpoint is tried in        *)
(* parallel, each in a retry loop of its own, and the first endpoint that  *)
(* succeeds answers the caller.                                            *)
(*                                                                         *)
(* A try that the stack has given up may still reach its endpoint, so the  *)
(* requests on their way are kept apart from the tries being waited for.   *)
(* Answers are told apart as far as `http_retry_policy` does.              *)
(***************************************************************************)
EXTENDS Integers

CONSTANTS
    Endpoints,  \* the configured `http_urls`
    MaxTimes    \* `max_times` of RetryPolicyConfig

ASSUME EndpointsAssumption == Endpoints # {}
ASSUME MaxTimesAssumption == MaxTimes \in Nat

VARIABLES
    healthy,    \* the endpoints that recover before their retries are used up
    timeouts,   \* the reqwest client gives up a request that is not answered
    outcome,    \* what the caller got, "pending" before
    state,      \* where the retry loop of each endpoint stands
    tries,      \* how many tries it has started
    wire,       \* the tries whose request has not reached the endpoint
    runs,       \* the tries the endpoint has executed
    refused     \* the last error of the endpoint was not retryable

vars == <<healthy, timeouts, outcome, state, tries, wire, runs, refused>>

Tries == 1..(MaxTimes + 1)

\* What a try can end with: a result; a JSON-RPC error; one that means too
\* many requests (also HTTP 429 and 503); HTTP 403, 408, 502 or 504; another
\* HTTP error; the client's timeout; no connection.
Answers == {"result", "errorResp", "rateLimited", "transientStatus",
            "otherStatus", "timedOut", "noConnection"}
States == {"calling", "sleeping", "succeeded", "failed"}

TypeOK ==
    /\ healthy \subseteq Endpoints
    /\ timeouts \in BOOLEAN
    /\ outcome \in Answers \cup {"pending", "error"}
    /\ state \in [Endpoints -> States]
    /\ tries \in [Endpoints -> Tries]
    /\ wire \in [Endpoints -> SUBSET Tries]
    /\ runs \in [Endpoints -> SUBSET Tries]
    /\ refused \in [Endpoints -> BOOLEAN]

\* The builder uses the client it was given, or makes one without a timeout.
AnyClient == timeouts \in BOOLEAN

\* `FallbackLayer` with every transport active: all loops start at once.
Init ==
    /\ AnyClient
    /\ healthy \in SUBSET Endpoints
    /\ outcome = "pending"
    /\ state = [e \in Endpoints |-> "calling"]
    /\ tries = [e \in Endpoints |-> 1]
    /\ wire = [e \in Endpoints |-> {1}]
    /\ runs = [e \in Endpoints |-> {}]
    /\ refused = [e \in Endpoints |-> FALSE]

----------------------------------------------------------------------------
(* The endpoints and the network                                           *)

Execute(e) ==
    \E n \in wire[e] :
        /\ wire' = [wire EXCEPT ![e] = @ \ {n}]
        /\ runs' = [runs EXCEPT ![e] = @ \cup {n}]
        /\ UNCHANGED <<healthy, timeouts, outcome, state, tries, refused>>

\* A healthy endpoint is reached by its last try.
Lose(e) ==
    \E n \in wire[e] :
        /\ e \in healthy => n <= MaxTimes
        /\ wire' = [wire EXCEPT ![e] = @ \ {n}]
        /\ UNCHANGED <<healthy, timeouts, outcome, state, tries, runs, refused>>

----------------------------------------------------------------------------
(* The retry loop of an endpoint                                           *)

\* Mutant: a response that carries a JSON-RPC error counts as a success.
IsErrorStatus(answer) == answer \notin {"result", "errorResp"}

\* `call_and_parse_error`: an error response is an error of the try.
IsError(answer) == answer # "result"

\* `http_retry_policy`: RateLimitRetryPolicy, the transient HTTP errors, and
\* the client's timeout.  A refused connection is not tried again.
ShouldRetry(answer) == answer \in {"rateLimited", "transientStatus", "timedOut"}

\* What a try can bring: a client without a timeout never times out, and a
\* healthy endpoint only fails tries before the last, in a way worth another.
CanAnswer(e, answer) ==
    /\ answer = "timedOut" => timeouts
    /\ e \in healthy /\ IsError(answer) => ShouldRetry(answer) /\ tries[e] <= MaxTimes

\* Mutant: a loop is not dropped when another endpoint has answered.
CallingOn(e) == state[e] = "calling"

Calling(e) == outcome = "pending" /\ state[e] = "calling"

\* The try succeeds, and with it the request; the other loops are dropped.
Succeed(e, answer) ==
    /\ Calling(e)
    /\ ~ IsError(answer)
    /\ answer = "result" => tries[e] \in runs[e]
    /\ state' = [state EXCEPT ![e] = "succeeded"]
    /\ outcome' = answer
    /\ UNCHANGED <<healthy, timeouts, tries, wire, runs, refused>>

\* Mutant: the last of the retries is not made.
CanRetryLess(e) == tries[e] < MaxTimes

\* Mutant: one retry too many.
CanRetryMore(e) == tries[e] <= MaxTimes + 1

\* The backoff has a delay left: `max_times` retries after the first try.
CanRetry(e) == tries[e] <= MaxTimes

\* The try fails with a retryable error and the loop backs off; the hint of
\* the policy replaces a delay but does not make one.
BackOff(e, answer) ==
    /\ Calling(e)
    /\ IsError(answer)
    /\ CanAnswer(e, answer)
    /\ ShouldRetry(answer)
    /\ CanRetry(e)
    /\ state' = [state EXCEPT ![e] = "sleeping"]
    /\ UNCHANGED <<healthy, timeouts, outcome, tries, wire, runs, refused>>

\* Mutant: the first endpoint to give up answers the caller.
AllFailedAny(e) == TRUE

\* No loop but that of endpoint e is left.
AllFailed(e) == \A f \in Endpoints \ {e} : state[f] = "failed"

\* Mutant: a loop that has used up its retries waits for the others.
GiveUpRefused(e, answer) ==
    /\ Calling(e)
    /\ IsError(answer)
    /\ CanAnswer(e, answer)
    /\ ~ ShouldRetry(answer)
    /\ state' = [state EXCEPT ![e] = "failed"]
    /\ refused' = [refused EXCEPT ![e] = ~ ShouldRetry(answer)]
    /\ outcome' = IF AllFailed(e) THEN "error" ELSE outcome
    /\ UNCHANGED <<healthy, timeouts, tries, wire, runs>>

\* The loop of the endpoint gives up: the error is not retryable or the
\* retries are used up.  The last loop to do so answers the caller.
GiveUp(e, answer) ==
    /\ Calling(e)
    /\ IsError(answer)
    /\ CanAnswer(e, answer)
    /\ ~ (ShouldRetry(answer) /\ CanRetry(e))
    /\ state' = [state EXCEPT ![e] = "failed"]
    /\ refused' = [refused EXCEPT ![e] = ~ ShouldRetry(answer)]
    /\ outcome' = IF AllFailed(e) THEN "error" ELSE outcome
    /\ UNCHANGED <<healthy, timeouts, tries, wire, runs>>

\* The delay has passed and the request is sent again.
Retry(e) ==
    /\ outcome = "pending"
    /\ state[e] = "sleeping"
    /\ state' = [state EXCEPT ![e] = "calling"]
    /\ tries' = [tries EXCEPT ![e] = @ + 1]
    /\ wire' = [wire EXCEPT ![e] = @ \cup {tries[e] + 1}]
    /\ UNCHANGED <<healthy, timeouts, outcome, runs, refused>>

----------------------------------------------------------------------------
Finished ==
    /\ outcome # "pending"
    /\ \A e \in Endpoints : wire[e] = {}
    /\ UNCHANGED vars

Answer(e) ==
    \E a \in Answers :
        \/ Succeed(e, a)
        \/ BackOff(e, a)
        \/ GiveUp(e, a)

\* The client's timeout ends the try, whatever the endpoint does.
TimeOut(e) == BackOff(e, "timedOut") \/ GiveUp(e, "timedOut")

Next ==
    \/ \E e \in Endpoints : Execute(e)
    \/ \E e \in Endpoints : Lose(e)
    \/ \E e \in Endpoints, a \in Answers : Succeed(e, a)
    \/ \E e \in Endpoints, a \in Answers : BackOff(e, a)
    \/ \E e \in Endpoints, a \in Answers : GiveUp(e, a)
    \/ \E e \in Endpoints : Retry(e)
    \/ Finished

Spec == Init /\ [][Next]_vars

\* The runtime polls every loop and timers fire, those of the client where
\* it has them.  The healthy endpoints execute what reaches them and answer;
\* the others may hang, and the stack has no timeout of its own for them.
FairSpec ==
    /\ Spec
    /\ \A e \in Endpoints : WF_vars(Retry(e)) /\ WF_vars(TimeOut(e))
    /\ \A e \in Endpoints :
        /\ WF_vars(e \in healthy /\ Execute(e))
        /\ WF_vars(e \in healthy /\ Answer(e))

----------------------------------------------------------------------------
(* Properties                                                              *)

failedEndpoints == {e \in Endpoints : state[e] = "failed"}
raceOutcome ==
    IF outcome = "pending" THEN "pending"
    ELSE IF outcome = "error" THEN "lost" ELSE "won"

Endpoint == INSTANCE Race WITH
    Racers <- Endpoints, lost <- failedEndpoints, outcome <- raceOutcome

\* The loops are a Race: the caller gets one answer, that of the first
\* endpoint to succeed or an error once all have given up, and from then on
\* no loop gives up, answers or sends its request again.
ImplementsRace == Endpoint!Spec

\* The caller sees an error only when every endpoint gave up, and no
\* endpoint gave up on a retryable error before its retries were used up.
ErrorIsUnanimous ==
    outcome = "error" =>
        \A e \in Endpoints : state[e] = "failed" /\ (refused[e] \/ tries[e] = MaxTimes + 1)

\* Only a result wins the race of the endpoints, never an error response of
\* a fast endpoint (web3.rs:216-217), and the endpoint it comes from has
\* executed the request.
OnlyResultsWin ==
    /\ outcome \in {"pending", "result", "error"}
    /\ outcome = "result" =>
           \E e \in Endpoints : state[e] = "succeeded" /\ tries[e] \in runs[e]

\* One healthy endpoint is enough: the request succeeds whatever the others
\* do, be it failing fast, being slow or never answering.
HealthyEndpointWins == healthy # {} => <>(outcome = "result")

\* With a client that times out every request gets an answer, even when all
\* endpoints accept connections and never answer.
RequestResolves == timeouts => <>(outcome # "pending")
=============================================================================
