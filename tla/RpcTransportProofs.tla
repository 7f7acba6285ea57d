------------------------- MODULE RpcTransportProofs -------------------------
(***************************************************************************)
(* Proofs about RpcTransport for every set of endpoints, healthy or not,   *)
(* and every number of retries.                                            *)
(***************************************************************************)
EXTENDS RpcTransport, TLAPS

\* A loop sleeps only when a retry is left, and has failed only for a reason.
LoopInv ==
    \A e \in Endpoints :
        /\ state[e] = "sleeping" => CanRetry(e)
        /\ state[e] = "failed" => refused[e] \/ tries[e] = MaxTimes + 1

\* The caller's answer agrees with the loops: no loop moves once it is given.
OutcomeInv ==
    /\ outcome \in {"pending", "result", "error"}
    /\ outcome = "error" => \A e \in Endpoints : state[e] = "failed"
    /\ outcome = "result" =>
           \E e \in Endpoints : state[e] = "succeeded" /\ tries[e] \in runs[e]

IInv == TypeOK /\ LoopInv /\ OutcomeInv

LEMMA InitIInv == Init => IInv
<1> SUFFICES ASSUME Init PROVE IInv
  OBVIOUS
<1>1. 1 \in Tries
  BY MaxTimesAssumption DEF Tries
<1>2. TypeOK
  BY <1>1 DEF Init, AnyClient, TypeOK, States
<1>3. LoopInv /\ OutcomeInv
  BY DEF Init, LoopInv, OutcomeInv
<1>4. QED
  BY <1>2, <1>3 DEF IInv

\* Requests arrive or get lost: an endpoint has executed more, nothing else.
LEMMA NetworkIInv ==
    ASSUME IInv, NEW e \in Endpoints, Execute(e) \/ Lose(e)
    PROVE  IInv'
<1>1. PICK n \in wire[e] :
          /\ wire' = [wire EXCEPT ![e] = @ \ {n}]
          /\ runs' = [runs EXCEPT ![e] = @ \cup {n}] \/ runs' = runs
          /\ UNCHANGED <<healthy, timeouts, outcome, state, tries, refused>>
  BY DEF Execute, Lose
<1>2. n \in Tries /\ wire \in [Endpoints -> SUBSET Tries] /\ runs \in [Endpoints -> SUBSET Tries]
  BY DEF IInv, TypeOK
<1>3. TypeOK'
  BY <1>1, <1>2 DEF IInv, TypeOK
<1>4. \A f \in Endpoints : runs[f] \subseteq runs'[f]
  BY <1>1, <1>2
<1>5. LoopInv'
  BY <1>1 DEF IInv, LoopInv, CanRetry
<1>6. OutcomeInv'
  BY <1>1, <1>4 DEF IInv, OutcomeInv
<1>7. QED
  BY <1>3, <1>5, <1>6 DEF IInv

LEMMA SucceedIInv ==
    ASSUME IInv, NEW e \in Endpoints, NEW a \in Answers, Succeed(e, a)
    PROVE  IInv'
<1>1. /\ a = "result" /\ outcome' = a /\ tries[e] \in runs[e]
      /\ state' = [state EXCEPT ![e] = "succeeded"]
      /\ UNCHANGED <<healthy, timeouts, tries, wire, runs, refused>>
  BY DEF Succeed, IsError
<1>2. state \in [Endpoints -> States]
  BY DEF IInv, TypeOK
<1>3. TypeOK'
  BY <1>1, <1>2 DEF IInv, TypeOK, States
<1>4. LoopInv'
  BY <1>1, <1>2 DEF IInv, LoopInv, CanRetry
<1>5. OutcomeInv'
  BY <1>1, <1>2 DEF IInv, OutcomeInv
<1>6. QED
  BY <1>3, <1>4, <1>5 DEF IInv

LEMMA BackOffIInv ==
    ASSUME IInv, NEW e \in Endpoints, NEW a \in Answers, BackOff(e, a)
    PROVE  IInv'
<1>1. /\ outcome = "pending" /\ CanRetry(e)
      /\ state' = [state EXCEPT ![e] = "sleeping"]
      /\ UNCHANGED <<healthy, timeouts, outcome, tries, wire, runs, refused>>
  BY DEF BackOff, Calling
<1>2. state \in [Endpoints -> States]
  BY DEF IInv, TypeOK
<1>3. TypeOK'
  BY <1>1, <1>2 DEF IInv, TypeOK, States
<1>4. LoopInv'
  BY <1>1, <1>2 DEF IInv, LoopInv, CanRetry
<1>5. OutcomeInv'
  BY <1>1 DEF OutcomeInv
<1>6. QED
  BY <1>3, <1>4, <1>5 DEF IInv

LEMMA GiveUpIInv ==
    ASSUME IInv, NEW e \in Endpoints, NEW a \in Answers, GiveUp(e, a)
    PROVE  IInv'
<1> DEFINE final == ~ ShouldRetry(a)
<1>0. final \in BOOLEAN
  BY DEF ShouldRetry
<1>1. /\ outcome = "pending"
      /\ final \/ ~ CanRetry(e)
      /\ state' = [state EXCEPT ![e] = "failed"]
      /\ refused' = [refused EXCEPT ![e] = final]
      /\ outcome' = IF AllFailed(e) THEN "error" ELSE outcome
      /\ UNCHANGED <<healthy, timeouts, tries, wire, runs>>
  BY DEF GiveUp, Calling
<1> HIDE DEF final
<1>2. /\ state \in [Endpoints -> States]
      /\ refused \in [Endpoints -> BOOLEAN]
      /\ tries[e] \in 1..(MaxTimes + 1)
  BY DEF IInv, TypeOK, Tries
<1>3. TypeOK'
  BY <1>0, <1>1, <1>2 DEF IInv, TypeOK, States
<1>4. final \/ tries[e] = MaxTimes + 1
  BY <1>1, <1>2, MaxTimesAssumption DEF CanRetry
<1>5. LoopInv'
  BY <1>0, <1>1, <1>2, <1>4 DEF IInv, LoopInv, CanRetry
<1>6. OutcomeInv'
  BY <1>1, <1>2 DEF OutcomeInv, AllFailed
<1>7. QED
  BY <1>3, <1>5, <1>6 DEF IInv

LEMMA RetryIInv ==
    ASSUME IInv, NEW e \in Endpoints, Retry(e)
    PROVE  IInv'
<1>1. /\ outcome = "pending" /\ state[e] = "sleeping"
      /\ state' = [state EXCEPT ![e] = "calling"]
      /\ tries' = [tries EXCEPT ![e] = @ + 1]
      /\ wire' = [wire EXCEPT ![e] = @ \cup {tries[e] + 1}]
      /\ UNCHANGED <<healthy, timeouts, outcome, runs, refused>>
  BY DEF Retry
<1>2. /\ state \in [Endpoints -> States]
      /\ tries \in [Endpoints -> Tries]
      /\ wire \in [Endpoints -> SUBSET Tries]
  BY DEF IInv, TypeOK
<1>3. tries[e] + 1 \in Tries
  BY <1>1, <1>2, MaxTimesAssumption DEF IInv, LoopInv, CanRetry, Tries
<1>4. TypeOK'
  BY <1>1, <1>2, <1>3 DEF IInv, TypeOK, States
<1>5. LoopInv'
  BY <1>1, <1>2 DEF IInv, LoopInv, CanRetry
<1>6. OutcomeInv'
  BY <1>1 DEF OutcomeInv
<1>7. QED
  BY <1>4, <1>5, <1>6 DEF IInv

LEMMA Inductive == Spec => []IInv
<1>1. IInv /\ [Next]_vars => IInv'
  <2> SUFFICES ASSUME IInv, [Next]_vars PROVE IInv'
    OBVIOUS
  <2>1. CASE UNCHANGED vars
    BY <2>1 DEF vars, IInv, TypeOK, LoopInv, OutcomeInv, CanRetry
  <2>2. CASE Next
    BY <2>1, <2>2, NetworkIInv, SucceedIInv, BackOffIInv, GiveUpIInv, RetryIInv
       DEF Next, Finished
  <2>3. QED
    BY <2>1, <2>2
<1>2. QED
  BY <1>1, InitIInv, PTL DEF Spec

\* The state of the request stays within its types; no loop starts more
\* than one try and `max_times` retries.
THEOREM TypeCorrect == Spec => []TypeOK
<1>1. IInv => TypeOK
  BY DEF IInv
<1>2. QED
  BY <1>1, Inductive, PTL

\* The stack reports an error only when every endpoint has given up, each
\* on an error worth no retry or after its last retry.
THEOREM ErrorNeedsEveryEndpoint == Spec => []ErrorIsUnanimous
<1>1. IInv => ErrorIsUnanimous
  BY DEF IInv, LoopInv, OutcomeInv, ErrorIsUnanimous
<1>2. QED
  BY <1>1, Inductive, PTL

\* An error response never wins the race: what the caller gets as a success
\* is a result, from an endpoint that has executed the request.
THEOREM SuccessIsAResult == Spec => []OnlyResultsWin
<1>1. IInv => OnlyResultsWin
  BY DEF IInv, OutcomeInv, OnlyResultsWin
<1>2. QED
  BY <1>1, Inductive, PTL

\* A loop whose endpoint recovers in time does not give up.
HealthyInv == \A e \in healthy : state[e] # "failed"

\* The safety half of HealthyEndpointWins, which needs no fairness: with one
\* endpoint that recovers within its retries the caller never sees an error,
\* whatever the others answer and however many of its own tries get lost.
THEOREM HealthyEndpointNeverFails == Spec => [](healthy # {} => outcome # "error")
<1>1. Init => HealthyInv
  BY DEF Init, HealthyInv
<1>2. IInv /\ HealthyInv /\ [Next]_vars => HealthyInv'
  <2> SUFFICES ASSUME IInv, HealthyInv, [Next]_vars PROVE HealthyInv'
    OBVIOUS
  <2>1. state \in [Endpoints -> States] /\ healthy \subseteq Endpoints
    BY DEF IInv, TypeOK
  <2>2. CASE \E e \in Endpoints, a \in Answers : GiveUp(e, a)
    <3>1. PICK e \in Endpoints, a \in Answers : GiveUp(e, a)
      BY <2>2
    <3>2. e \notin healthy
      BY <3>1 DEF GiveUp, CanAnswer, CanRetry
    <3>3. QED
      BY <2>1, <3>1, <3>2 DEF GiveUp, HealthyInv
  <2>3. CASE \E e \in Endpoints, a \in Answers : Succeed(e, a) \/ BackOff(e, a)
    BY <2>1, <2>3 DEF Succeed, BackOff, HealthyInv
  <2>4. CASE \E e \in Endpoints : Execute(e) \/ Lose(e) \/ Retry(e)
    BY <2>1, <2>4 DEF Execute, Lose, Retry, HealthyInv
  <2>5. CASE UNCHANGED vars
    BY <2>5 DEF vars, HealthyInv
  <2>6. QED
    BY <2>2, <2>3, <2>4, <2>5 DEF Next, Finished
<1>3. IInv /\ HealthyInv => (healthy # {} => outcome # "error")
  BY DEF IInv, TypeOK, OutcomeInv, HealthyInv
<1>4. QED
  BY <1>1, <1>2, <1>3, Inductive, PTL DEF Spec

----------------------------------------------------------------------------
(* The loops are a Race                                                    *)

LEMMA InitRace == Init => Endpoint!Init
BY DEF Init, Endpoint!Init, failedEndpoints, raceOutcome

\* The first loop to succeed wins.
LEMMA SucceedWins ==
    ASSUME IInv, NEW e \in Endpoints, NEW a \in Answers, Succeed(e, a)
    PROVE  Endpoint!Win(e)
<1>1. /\ outcome = "pending" /\ state[e] = "calling" /\ outcome' = "result"
      /\ state' = [state EXCEPT ![e] = "succeeded"] /\ tries' = tries
      /\ state \in [Endpoints -> States]
  BY DEF Succeed, Calling, IsError, IInv, TypeOK
<1>2. failedEndpoints' = failedEndpoints /\ e \notin failedEndpoints
  BY <1>1 DEF failedEndpoints
<1>3. QED
  BY <1>1, <1>2 DEF Endpoint!Win, Endpoint!Running, raceOutcome

\* A loop that gives up loses, and the last one loses the race.
LEMMA GiveUpLoses ==
    ASSUME IInv, NEW e \in Endpoints, NEW a \in Answers, GiveUp(e, a)
    PROVE  Endpoint!Drop(e)
<1>1. /\ outcome = "pending" /\ state[e] = "calling"
      /\ outcome' = IF AllFailed(e) THEN "error" ELSE outcome
      /\ state' = [state EXCEPT ![e] = "failed"] /\ tries' = tries
      /\ state \in [Endpoints -> States]
  BY DEF GiveUp, Calling, IInv, TypeOK
<1>2. e \notin failedEndpoints /\ failedEndpoints' = failedEndpoints \cup {e}
  BY <1>1 DEF failedEndpoints
<1>3. AllFailed(e) <=> failedEndpoints' = Endpoints
  BY <1>1, <1>2 DEF AllFailed, failedEndpoints
<1>4. raceOutcome = "pending"
      /\ raceOutcome' = IF failedEndpoints' = Endpoints THEN "lost" ELSE "pending"
  BY <1>1, <1>3 DEF raceOutcome
<1>5. QED
  BY <1>1, <1>2, <1>4 DEF Endpoint!Drop, Endpoint!Running

\* A loop sends its request again while the race is open.
LEMMA RetryAsksAgain ==
    ASSUME IInv, NEW e \in Endpoints, Retry(e)
    PROVE  Endpoint!AskAgain(e)
<1>1. /\ outcome = "pending" /\ state[e] = "sleeping" /\ outcome' = outcome
      /\ state' = [state EXCEPT ![e] = "calling"]
      /\ tries' = [tries EXCEPT ![e] = @ + 1]
      /\ state \in [Endpoints -> States]
  BY DEF Retry, IInv, TypeOK
<1>2. failedEndpoints' = failedEndpoints /\ e \notin failedEndpoints
  BY <1>1 DEF failedEndpoints
<1>3. QED
  BY <1>1, <1>2 DEF Endpoint!AskAgain, Endpoint!Running, raceOutcome

\* The retry loops of the endpoints, with their backoff, their requests on
\* the wire and their lost answers, implement the race the callers of the
\* stack rely on: one answer, that of the first endpoint to succeed or an
\* error once all have given up, and nothing is sent or given up after it.
THEOREM LoopsAreARace == Spec => ImplementsRace
<1>1. IInv /\ [Next]_vars => [Endpoint!Next]_(Endpoint!raceVars)
  <2> SUFFICES ASSUME IInv, [Next]_vars PROVE [Endpoint!Next]_(Endpoint!raceVars)
    OBVIOUS
  <2> USE DEF Endpoint!raceVars
  <2>1. ASSUME UNCHANGED <<outcome, tries, failedEndpoints>>
        PROVE  UNCHANGED Endpoint!raceVars
    BY <2>1 DEF raceOutcome
  <2>2. CASE UNCHANGED vars \/ \E e \in Endpoints : Execute(e) \/ Lose(e)
    BY <2>1, <2>2 DEF vars, Execute, Lose, failedEndpoints
  <2>3. CASE \E e \in Endpoints, a \in Answers : BackOff(e, a)
    <3>1. PICK e \in Endpoints, a \in Answers : BackOff(e, a)
      BY <2>3
    <3>2. /\ state[e] = "calling" /\ state' = [state EXCEPT ![e] = "sleeping"]
          /\ UNCHANGED <<outcome, tries>> /\ state \in [Endpoints -> States]
      BY <3>1 DEF BackOff, Calling, IInv, TypeOK
    <3>3. failedEndpoints' = failedEndpoints
      BY <3>2 DEF failedEndpoints
    <3>4. QED
      BY <2>1, <3>2, <3>3
  <2>4. CASE \E e \in Endpoints, a \in Answers : Succeed(e, a) \/ GiveUp(e, a)
    BY <2>4, SucceedWins, GiveUpLoses DEF Endpoint!Next
  <2>5. CASE \E e \in Endpoints : Retry(e)
    BY <2>5, RetryAsksAgain DEF Endpoint!Next
  <2>6. QED
    BY <2>2, <2>3, <2>4, <2>5 DEF Next, Finished
<1>2. QED
  BY <1>1, InitRace, Inductive, PTL DEF Spec, ImplementsRace, Endpoint!Spec
=============================================================================
