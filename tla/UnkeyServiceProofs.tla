------------------------- MODULE UnkeyServiceProofs -------------------------
(***************************************************************************)
(* Proofs about UnkeyService for every set of requests, also an infinite   *)
(* one, and every capacity of the inner service.                           *)
(***************************************************************************)
EXTENDS UnkeyService, FiniteSetTheorems, TLAPS

\* How many places `self.inner` holds.
Slots == IF slot THEN 1 ELSE 0

\* The places are accounted for: the futures that are not over hold one each.
PlaceInv ==
    /\ IsFiniteSet(holds)
    /\ free + Cardinality(holds) + Slots = Capacity
    /\ \A r \in Requests : r \in holds <=> pc[r] \in {"verifying", "inner"}

\* A request that runs inside carried a key that opens the service here.
Opens(k) ==
    IF k = TEST_VALID_KEY THEN environment = "Dev" ELSE environment # "Dev" /\ k \in Customers

VerifiedInv == \A r \in Requests : pc[r] = "inner" => Opens(key[r])

IInv == TypeOK /\ PlaceInv /\ VerifiedInv

LEMMA InitIInv == Init => IInv
<1> SUFFICES ASSUME Init PROVE IInv
  OBVIOUS
<1>1. TypeOK
  <2>1. free \in 0..Capacity
    BY CapacityAssumption DEF Init
  <2>2. QED
    BY <2>1 DEF Init, AnyClient, TypeOK, Stati, Environment
<1>2. PlaceInv
  BY FS_EmptySet, CapacityAssumption DEF Init, PlaceInv, Slots
<1>3. VerifiedInv
  BY DEF Init, VerifiedInv
<1>4. QED
  BY <1>1, <1>2, <1>3 DEF IInv

\* A key that is not refused is one that opens the service, and every
\* refusal has its status.
LEMMA VerdictSound ==
    ASSUME NEW k \in Keys
    PROVE  /\ Verdict(k) = "Ok" => Opens(k)
           /\ Verdict(k) # "Ok" => IntoResponse[Verdict(k)] \in Stati
<1> USE DEF Verdict, IntoResponse, Stati, Opens, IsDev
<1>1. CASE k = "no token"
  BY <1>1, CustomersAssumption DEF TEST_VALID_KEY, TEST_RATE_LIMITED_KEY
<1>2. CASE k # "no token" /\ IsDev
  BY <1>2, CustomersAssumption DEF TEST_VALID_KEY, TEST_RATE_LIMITED_KEY
<1>3. CASE k # "no token" /\ ~ IsDev
  BY <1>3, CustomersAssumption DEF TEST_VALID_KEY, TEST_RATE_LIMITED_KEY
<1>4. QED
  BY <1>1, <1>2, <1>3

\* A place goes from the inner service to `self.inner`.
LEMMA PollReadyIInv == IInv /\ PollReady => IInv'
<1> SUFFICES ASSUME IInv, PollReady PROVE IInv'
  OBVIOUS
<1> USE DEF IInv, PollReady
<1>1. TypeOK'
  BY CapacityAssumption DEF TypeOK
<1>2. Cardinality(holds) \in Nat
  BY FS_CardinalityType DEF PlaceInv
<1>3. PlaceInv'
  BY <1>2, CapacityAssumption DEF PlaceInv, Slots, TypeOK
<1>4. VerifiedInv'
  BY DEF VerifiedInv, Opens
<1>5. QED
  BY <1>1, <1>3, <1>4

\* A place goes from `self.inner` to the future of the request.
LEMMA CallIInv == ASSUME IInv, NEW r \in Requests, Call(r) PROVE IInv'
<1> USE DEF IInv, Call
<1>1. r \notin holds
  BY DEF PlaceInv
<1>2. /\ IsFiniteSet(holds \cup {r})
      /\ Cardinality(holds \cup {r}) = Cardinality(holds) + 1
      /\ Cardinality(holds) \in Nat
  BY <1>1, FS_AddElement, FS_CardinalityType DEF PlaceInv
<1>3. TypeOK'
  BY DEF TypeOK
<1>4. PlaceInv'
  <2>1. free' + Cardinality(holds') + Slots' = Capacity
    BY <1>2, CapacityAssumption DEF PlaceInv, Slots, TypeOK
  <2>2. \A q \in Requests : q \in holds' <=> pc'[q] \in {"verifying", "inner"}
    BY DEF PlaceInv, TypeOK
  <2>3. QED
    BY <1>2, <2>1, <2>2 DEF PlaceInv
<1>5. VerifiedInv'
  BY DEF VerifiedInv, TypeOK, Opens
<1>6. QED
  BY <1>3, <1>4, <1>5

\* A future that ends gives its place back, however it ends.
LEMMA EndIInv ==
    ASSUME IInv, NEW r \in Requests, pc[r] \in {"verifying", "inner"},
           NEW answer \in Stati, End(r, answer)
    PROVE  IInv'
<1> USE DEF IInv, End
<1>1. r \in holds
  BY DEF PlaceInv
<1>2. /\ IsFiniteSet(holds \ {r})
      /\ Cardinality(holds \ {r}) = Cardinality(holds) - 1
      /\ Cardinality(holds \ {r}) \in Nat
      /\ Cardinality(holds) \in Nat
  BY <1>1, FS_RemoveElement, FS_CardinalityType DEF PlaceInv
<1>3. /\ free' = free + 1
      /\ free' + Cardinality(holds') + Slots' = Capacity
  BY <1>1, <1>2, CapacityAssumption DEF PlaceInv, Slots, TypeOK
<1>4. free' \in 0..Capacity
  BY <1>2, <1>3, CapacityAssumption DEF TypeOK, Slots
<1>5. TypeOK'
  BY <1>4 DEF TypeOK
<1>6. PlaceInv'
  <2>1. \A q \in Requests : q \in holds' <=> pc'[q] \in {"verifying", "inner"}
    BY DEF PlaceInv, TypeOK
  <2>2. QED
    BY <1>2, <1>3, <2>1 DEF PlaceInv
<1>7. VerifiedInv'
  BY DEF VerifiedInv, TypeOK, Opens
<1>8. QED
  BY <1>5, <1>6, <1>7

LEMMA InnerCallIInv == ASSUME IInv, NEW r \in Requests, InnerCall(r) PROVE IInv'
<1> USE DEF IInv, InnerCall
<1>1. TypeOK'
  BY DEF TypeOK
<1>2. PlaceInv'
  BY DEF PlaceInv, Slots, TypeOK
<1>3. VerifiedInv'
  BY VerdictSound DEF VerifiedInv, TypeOK, Opens
<1>4. QED
  BY <1>1, <1>2, <1>3

LEMMA Inductive == Spec => []IInv
<1>1. IInv /\ [Next]_vars => IInv'
  <2> SUFFICES ASSUME IInv, [Next]_vars PROVE IInv'
    OBVIOUS
  <2>1. CASE UNCHANGED vars
    BY <2>1 DEF vars, IInv, TypeOK, PlaceInv, Slots, VerifiedInv, Opens
  <2>2. CASE PollReady
    BY <2>2, PollReadyIInv
  <2>3. CASE \E r \in Requests : Call(r)
    BY <2>3, CallIInv
  <2>4. CASE \E r \in Requests : InnerCall(r)
    BY <2>4, InnerCallIInv
  <2>5. CASE \E r \in Requests : Reject(r)
    BY <2>5, EndIInv, VerdictSound DEF Reject, IInv, TypeOK
  <2>6. CASE \E r \in Requests : VerifyError(r)
    BY <2>6, EndIInv DEF VerifyError, AsksUnkey, IntoResponse, Stati
  <2>7. CASE \E r \in Requests : InnerDone(r)
    BY <2>7, EndIInv DEF InnerDone, Stati
  <2>8. CASE \E r \in Requests : Drop(r)
    BY <2>8, EndIInv DEF Drop, Stati
  <2>9. CASE \E r \in Requests : VerifyTimeout(r)
    BY <2>9, EndIInv DEF VerifyTimeout, AsksUnkey, IntoResponse, Stati
  <2>10. QED
    BY <2>1, <2>2, <2>3, <2>4, <2>5, <2>6, <2>7, <2>8, <2>9 DEF Next, Finished
<1>2. QED
  BY <1>1, InitIInv, PTL DEF Spec

\* The state of the middleware stays within its types; the inner service
\* never has fewer than no places free.
THEOREM TypeCorrect == Spec => []TypeOK
<1>1. IInv => TypeOK
  BY DEF IInv
<1>2. QED
  BY <1>1, Inductive, PTL

\* No place of the inner service leaks, in whatever way the futures of the
\* requests end.
THEOREM NoPlaceLeaks == Spec => []PlacesConserved
<1>1. IInv => PlacesConserved
  BY DEF IInv, TypeOK, PlaceInv, Slots, PlacesConserved
<1>2. QED
  BY <1>1, Inductive, PTL

\* The inner service runs only requests with a key that is good where the
\* service runs, each in the instance that was polled ready for it.
THEOREM InnerIsProtected == Spec => []CalledReadyAndVerified
<1>1. IInv => CalledReadyAndVerified
  BY DEF IInv, PlaceInv, VerifiedInv, Opens, CalledReadyAndVerified
<1>2. QED
  BY <1>1, Inductive, PTL
=============================================================================
