---------------------------- MODULE UnkeyService ----------------------------
(***************************************************************************)
(* `UnkeyService` (middleware/unkey.rs): a tower service that verifies the *)
(* API key of a request before it calls the inner service.                 *)
(*                                                                         *)
(* The inner service limits its load the way tower services do: poll_ready *)
(* reserves a place in it, a call uses the place up, and a clone starts    *)
(* without one.  One UnkeyService is driven by a caller that polls it for  *)
(* readiness before every call; the futures it returns run concurrently.   *)
(***************************************************************************)
EXTENDS Integers, FiniteSets

CONSTANTS
    Requests,   \* the requests, each made once
    Capacity,   \* how many places the inner service has
    Customers   \* the API keys Unkey knows and calls valid

ASSUME CapacityAssumption == Capacity \in Nat \ {0}

\* The keys that stand for a verdict in Dev.
TEST_VALID_KEY == "valid_api_key"
TEST_RATE_LIMITED_KEY == "rate_limited_api_key"

\* Unkey has never issued the fixed keys.
ASSUME CustomersAssumption ==
    {"no token", TEST_VALID_KEY, TEST_RATE_LIMITED_KEY, "limited", "unknown"} \cap Customers = {}

Environment == {"Prod", "Stage", "Test", "Dev"}

VARIABLES
    environment, \* where the service runs
    timeouts,   \* the HTTP client gives up a verification that is not answered
    key,        \* the bearer token of each request
    slot,       \* `self.inner` holds a place
    free,       \* the places of the inner service nobody holds
    pc,         \* where the future of each request stands
    holds,      \* the futures whose inner service holds a place
    status      \* the status each request was answered with

vars == <<environment, timeouts, key, slot, free, pc, holds, status>>

\* "limited" is over its limit at Unkey, "unknown" is no key of Unkey's.
Keys == Customers \cup
    {"no token", TEST_VALID_KEY, TEST_RATE_LIMITED_KEY, "limited", "unknown"}

\* `UnkeyError` and the status each of them is answered with.
IntoResponse ==
    [Missing |-> "UNAUTHORIZED", Invalid |-> "UNAUTHORIZED",
     RateLimited |-> "TOO_MANY_REQUESTS", Internal |-> "INTERNAL_SERVER_ERROR"]

Stati == {"none", "inner", "UNAUTHORIZED", "TOO_MANY_REQUESTS", "INTERNAL_SERVER_ERROR"}

TypeOK ==
    /\ environment \in Environment
    /\ timeouts \in BOOLEAN
    /\ key \in [Requests -> Keys]
    /\ slot \in BOOLEAN
    /\ free \in 0..Capacity
    /\ pc \in [Requests -> {"new", "verifying", "inner", "done"}]
    /\ holds \subseteq Requests
    /\ status \in [Requests -> Stati]

\* `new` makes a client that times out, `with_client` takes any other.
AnyClient == timeouts \in BOOLEAN

Init ==
    /\ environment \in Environment
    /\ AnyClient
    /\ key \in [Requests -> Keys]
    /\ slot = FALSE
    /\ free = Capacity
    /\ pc = [r \in Requests |-> "new"]
    /\ holds = {}
    /\ status = [r \in Requests |-> "none"]

----------------------------------------------------------------------------
\* Mutant: a place is taken whether there is one or not.
PollReadyUnbounded ==
    /\ ~ slot
    /\ slot' = TRUE
    /\ free' = free - 1
    /\ UNCHANGED <<environment, timeouts, key, pc, holds, status>>

\* The inner service is ready when it has a place to reserve.
PollReady ==
    /\ ~ slot
    /\ free > 0
    /\ slot' = TRUE
    /\ free' = free - 1
    /\ UNCHANGED <<environment, timeouts, key, pc, holds, status>>

\* Mutant: the future takes the clone and leaves the ready service behind.
CallClone(r) ==
    /\ slot
    /\ pc[r] = "new"
    /\ pc' = [pc EXCEPT ![r] = "verifying"]
    /\ UNCHANGED <<environment, timeouts, key, slot, free, holds, status>>

\* `call`: the future takes the ready inner service, a clone replaces it.
Call(r) ==
    /\ slot
    /\ pc[r] = "new"
    /\ pc' = [pc EXCEPT ![r] = "verifying"]
    /\ holds' = holds \cup {r}
    /\ slot' = FALSE
    /\ UNCHANGED <<environment, timeouts, key, free, status>>

\* Mutant: the place stays reserved when the future ends.
EndLeaking(r, answer) ==
    /\ pc' = [pc EXCEPT ![r] = "done"]
    /\ status' = [status EXCEPT ![r] = answer]
    /\ holds' = IF answer = "inner" THEN holds \ {r} ELSE holds
    /\ free' = IF answer = "inner" /\ r \in holds THEN free + 1 ELSE free
    /\ UNCHANGED <<environment, timeouts, key, slot>>

\* The future ends and drops its inner service, and the place with it.
End(r, answer) ==
    /\ pc' = [pc EXCEPT ![r] = "done"]
    /\ status' = [status EXCEPT ![r] = answer]
    /\ holds' = holds \ {r}
    /\ free' = IF r \in holds THEN free + 1 ELSE free
    /\ UNCHANGED <<environment, timeouts, key, slot>>

\* Mutant: `is_not_dev`.
IsDevInverted == environment # "Dev"

IsDev == environment = "Dev"

\* What becomes of a token when it is checked: in Dev the fixed keys are
\* compared, elsewhere Unkey answers and is believed.
Verdict(k) ==
    CASE k = "no token" -> "Missing"
      [] k = (IF IsDev THEN TEST_RATE_LIMITED_KEY ELSE "limited") -> "RateLimited"
      [] k \in (IF IsDev THEN {TEST_VALID_KEY} ELSE Customers) -> "Ok"
      [] OTHER -> "Invalid"

InnerCall(r) ==
    /\ pc[r] = "verifying"
    /\ Verdict(key[r]) = "Ok"
    /\ pc' = [pc EXCEPT ![r] = "inner"]
    /\ UNCHANGED <<environment, timeouts, key, slot, free, holds, status>>

\* No token, an invalid one, or one over its limit.
Reject(r) ==
    /\ pc[r] = "verifying"
    /\ Verdict(key[r]) # "Ok"
    /\ End(r, IntoResponse[Verdict(key[r])])

\* The future waits for Unkey.
AsksUnkey(r) ==
    /\ pc[r] = "verifying"
    /\ ~ IsDev
    /\ key[r] # "no token"

\* Unkey cannot be reached, answers with an error status or with something
\* else than a verification.
VerifyError(r) ==
    /\ AsksUnkey(r)
    /\ End(r, IntoResponse.Internal)

\* Mutant: an answer that would be a yes is waited for without a timeout.
VerifyTimeoutRejected(r) ==
    /\ AsksUnkey(r)
    /\ timeouts
    /\ key[r] \notin Customers
    /\ End(r, IntoResponse.Internal)

\* The client of `UnkeyLayer::new` gives a verification ten seconds.
VerifyTimeout(r) ==
    /\ AsksUnkey(r)
    /\ timeouts
    /\ End(r, IntoResponse.Internal)

\* The inner service answers.
InnerDone(r) ==
    /\ pc[r] = "inner"
    /\ End(r, "inner")

\* The client goes away and the future is dropped.
Drop(r) ==
    /\ pc[r] \in {"verifying", "inner"}
    /\ End(r, "none")

Finished ==
    /\ \A r \in Requests : pc[r] = "done"
    /\ UNCHANGED vars

Next ==
    \/ PollReady
    \/ \E r \in Requests : Call(r)
    \/ \E r \in Requests : InnerCall(r)
    \/ \E r \in Requests : Reject(r)
    \/ \E r \in Requests : VerifyError(r)
    \/ \E r \in Requests : VerifyTimeout(r)
    \/ \E r \in Requests : InnerDone(r)
    \/ \E r \in Requests : Drop(r)
    \/ Finished

Spec == Init /\ [][Next]_vars

\* The runtime polls the caller and the futures, the timer of the client
\* fires where it has one, and the inner service answers what it is called
\* with.  Unkey itself may never answer.
FairSpec ==
    /\ Spec
    /\ WF_vars(PollReady)
    /\ WF_vars(\E r \in Requests : Call(r))
    /\ \A r \in Requests :
        /\ WF_vars(VerifyTimeout(r))
        /\ WF_vars(~ AsksUnkey(r) /\ (InnerCall(r) \/ Reject(r)))
        /\ WF_vars(InnerDone(r))

----------------------------------------------------------------------------
(* Properties                                                              *)

\* Every place is free, waits in `self.inner`, or belongs to a future that
\* has not ended: requests that are rejected or dropped leak none, and the
\* inner service never serves more than Capacity requests.
PlacesConserved ==
    /\ free + Cardinality(holds) + (IF slot THEN 1 ELSE 0) = Capacity
    /\ \A r \in holds : pc[r] \in {"verifying", "inner"}

\* The inner service is called only through the instance whose readiness
\* was awaited, not through its clone, and only for a key of Unkey's: the
\* fixed key opens it in Dev alone, where no key of a customer does.
CalledReadyAndVerified ==
    \A r \in Requests : pc[r] = "inner" =>
        /\ r \in holds
        /\ IF key[r] = TEST_VALID_KEY THEN environment = "Dev"
                                     ELSE environment # "Dev" /\ key[r] \in Customers

\* With a client that times out every request gets through, however many
\* are rejected, dropped or hang at Unkey before it.
RequestsResolve == timeouts => \A r \in Requests : <>(pc[r] = "done")
=============================================================================
